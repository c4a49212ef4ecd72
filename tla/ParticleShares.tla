----------------------------- MODULE ParticleShares -----------------------------
(***************************************************************************)
(* How many particles of each species every MPI rank makes, which ids they *)
(* carry, and how many the rank announces beforehand.                      *)
(*                                                                         *)
(* Three pieces of code divide the same cubes among the ranks, each in its *)
(* own way: FFTW's blocks (lattices), ceil_partition_boundary of the       *)
(* in-memory output plugin (announced neutrinos), and FastDF's boundaries  *)
(* in double precision (generated neutrinos).                              *)
(*                                                                         *)
(* A rank works alone between two collectives; a collective with the test  *)
(* of its result is one action of all ranks (as in EmbeddedTransfer, which *)
(* has the callbacks and the failures this module leaves out).             *)
(***************************************************************************)
EXTENDS Integers

CONSTANTS
  NumRanks,   \* size of MPI_COMM_WORLD
  Jobs        \* the configurations of a run

ASSUME NumRanksAssumption == NumRanks \in Nat \ {0}

Rank == 0 .. NumRanks - 1

Baryon   == 0
DM       == 1
Neutrino == 2
Type     == {Baryon, DM, Neutrino}

\* GridRes, the particles per cell of ParticleLoad (sc, bcc, fcc, rsc),
\* DoBaryons, and NeutrinoCubeRootNum (0 without neutrino particles).
Job == [ngrid : Nat \ {0}, overload : {1, 2, 4, 8}, baryons : BOOLEAN, side : Nat]

ASSUME JobsAssumption == Jobs \subseteq Job

VARIABLES
  job,        \* the configuration of this run
  pc,         \* where each rank is
  announced,  \* metadata_.local_num_particles of each rank
  first,      \* id of the first particle of each species on each rank
  made        \* number of particles of each species on each rank

vars == <<job, pc, announced, first, made>>

-----------------------------------------------------------------------------
(***************************************************************************)
(* Dividing n planes among the ranks.                                      *)
(***************************************************************************)
CeilDiv(a, b) == (a + b - 1) \div b
Cube(n) == n * n * n

\* FFTW: blocks of equal size, the last ones shorter or empty.
Block(n) == CeilDiv(n, NumRanks)
SlabBoundary(n, part) == IF part * Block(n) <= n THEN part * Block(n) ELSE n
SlabSize(n, r) == SlabBoundary(n, r + 1) - SlabBoundary(n, r)

\* Mutant: the remainder is rounded down.
ceil_partition_boundary_Floor(side, part) ==
  (side \div NumRanks) * part + ((side % NumRanks) * part) \div NumRanks

ceil_partition_boundary(side, part) ==
  (side \div NumRanks) * part
    + ((side % NumRanks) * part + NumRanks - 1) \div NumRanks

(***************************************************************************)
(* FastDF: fac = (double) side / NumRanks, boundary ceil(part * fac).      *)
(* The two roundings to 53 bits matter only when the exact quotient        *)
(* part * side / NumRanks is an integer k: then the double is k or its     *)
(* neighbour, and ceil yields k + 1 if it is the neighbour above.          *)
(*                                                                         *)
(* With 2^E <= side / NumRanks < 2^(E+1) the first rounding changes        *)
(* side * 2^(52-E) / NumRanks by Residue / NumRanks, and the second goes   *)
(* up when part times that exceeds half a unit in the last place of k.     *)
(***************************************************************************)
\* floor(log2(n)) and floor(log2(a / b))
Log2(n) == CHOOSE e \in 0 .. 30 : 2^e <= n /\ n < 2^(e + 1)

Exponent(a, b) ==
  LET d == Log2(a) - Log2(b)
      reached == IF d >= 0 THEN b * 2^d <= a ELSE b <= a * 2^(-d)
  IN IF reached THEN d ELSE d - 1

PowerOfTwoMod(s, m) ==
  LET power[i \in 0 .. s] == IF i = 0 THEN 1 % m ELSE (2 * power[i - 1]) % m
  IN power[s]

Residue(side) ==
  LET rest == (side * PowerOfTwoMod(52 - Exponent(side, NumRanks), NumRanks)) % NumRanks
  IN IF 2 * rest < NumRanks THEN -rest ELSE NumRanks - rest

RoundsUp(side, part) ==
  /\ side > 0 /\ part > 0
  /\ (side * part) % NumRanks = 0
  /\ LET shift == Exponent((side * part) \div NumRanks, 1) - Exponent(side, NumRanks)
     IN 2 * part * Residue(side) > NumRanks * 2^shift

fastdf_boundary(side, part) ==
  CeilDiv(side * part, NumRanks) + (IF RoundsUp(side, part) THEN 1 ELSE 0)

-----------------------------------------------------------------------------
(***************************************************************************)
(* The metadata: counts of the whole run and of one rank.                  *)
(***************************************************************************)
num_particles == [t \in Type |->
  IF t = Neutrino THEN Cube(job.side)
  ELSE IF t = Baryon /\ ~job.baryons THEN 0
  ELSE job.overload * Cube(job.ngrid)]

local_lattice_cells(r) == SlabSize(job.ngrid, r) * job.ngrid * job.ngrid

local_fastdf_cells(r) ==
  (ceil_partition_boundary(job.side, r + 1) - ceil_partition_boundary(job.side, r))
    * job.side * job.side

Zero == [t \in Type |-> 0]
\* MPI_Allreduce of one number from every rank.
Sum(f) ==
  LET upTo[k \in 0 .. NumRanks] == IF k = 0 THEN 0 ELSE upTo[k - 1] + f[k - 1]
  IN upTo[NumRanks]
AllAt(place) == \A r \in Rank : pc[r] = place
Goto(r, to) == pc' = [pc EXCEPT ![r] = to]
AllGoto(to) == pc' = [r \in Rank |-> to]
Total(f, t) == Sum([r \in Rank |-> f[r][t]])

-----------------------------------------------------------------------------
\* Mutant: the lattice is announced in equal shares, not in blocks of FFTW.
Announce_EqualShares(r) ==
  /\ pc[r] = "metadata"
  /\ LET planes == ceil_partition_boundary(job.ngrid, r + 1)
                     - ceil_partition_boundary(job.ngrid, r)
     IN announced' = [announced EXCEPT ![r] = [t \in Type |->
          IF t = Neutrino THEN local_fastdf_cells(r)
          ELSE IF t = Baryon /\ ~job.baryons THEN 0
          ELSE job.overload * planes * job.ngrid * job.ngrid]]
  /\ Goto(r, "hints")
  /\ UNCHANGED <<job, first, made>>

\* Constructor of the in-memory output plugin.
Announce(r) ==
  /\ pc[r] = "metadata"
  /\ announced' = [announced EXCEPT ![r] = [t \in Type |->
       IF t = Neutrino THEN local_fastdf_cells(r)
       ELSE IF t = Baryon /\ ~job.baryons THEN 0
       ELSE job.overload * local_lattice_cells(r)]]
  /\ Goto(r, "hints")
  /\ UNCHANGED <<job, first, made>>

\* emit_ic_metadata: the sum of the announced shares against the metadata.
HintsAgreed ==
  /\ AllAt("hints")
  /\ AllGoto(IF \A t \in Type : Total(announced, t) = num_particles[t]
               THEN "dm" ELSE "hints refused")
  /\ UNCHANGED <<job, announced, first, made>>

\* Mutant: the offset of the baryons counts cells instead of particles.
Lattice_CellOffset(r, t) ==
  /\ first' = [first EXCEPT ![r][t] =
       (IF t = Baryon THEN Cube(job.ngrid) ELSE 0)
         + job.overload * SlabBoundary(job.ngrid, r) * job.ngrid * job.ngrid]
  /\ made' = [made EXCEPT ![r][t] = job.overload * local_lattice_cells(r)]

\* lattice_generator: the id of a particle is its cell's number times the
\* particles per cell, plus its place in the cell, plus IDoffset, which is 1
\* for baryons and is multiplied by the particles of the whole load.
Lattice(r, t) ==
  /\ first' = [first EXCEPT ![r][t] =
       (IF t = Baryon THEN job.overload * Cube(job.ngrid) ELSE 0)
         + job.overload * SlabBoundary(job.ngrid, r) * job.ngrid * job.ngrid]
  /\ made' = [made EXCEPT ![r][t] = job.overload * local_lattice_cells(r)]

MakeDM(r) ==
  /\ pc[r] = "dm"
  /\ Lattice(r, DM)
  /\ Goto(r, "dm count")
  /\ UNCHANGED <<job, announced>>

MakeBaryons(r) ==
  /\ pc[r] = "baryons"
  /\ Lattice(r, Baryon)
  /\ Goto(r, "baryon count")
  /\ UNCHANGED <<job, announced>>

AfterDM == IF job.baryons THEN "baryons" ELSE IF job.side > 0 THEN "fastdf" ELSE "totals"
AfterBaryons == IF job.side > 0 THEN "fastdf" ELSE "totals"

\* write_particle_data: the global count against the metadata.
CountAgreed ==
  \E t \in {DM, Baryon} :
    /\ AllAt(IF t = DM THEN "dm count" ELSE "baryon count")
    /\ AllGoto(IF Total(made, t) # num_particles[t] THEN "count refused"
               ELSE IF t = DM THEN AfterDM ELSE AfterBaryons)
    /\ UNCHANGED <<job, announced, first, made>>

\* pars.FirstID
FirstID == Cube(job.ngrid) + 1

\* Mutant: every rank starts one plane after its lower boundary.
MakeNeutrinos_Shifted(r) ==
  /\ pc[r] = "fastdf"
  /\ LET X_min == fastdf_boundary(job.side, r) + (IF r > 0 THEN 1 ELSE 0)
         X_max == fastdf_boundary(job.side, r + 1)
     IN /\ first' = [first EXCEPT ![r][Neutrino] = FirstID + X_min * job.side * job.side]
        /\ made' = [made EXCEPT ![r][Neutrino] = (X_max - X_min) * job.side * job.side]
  /\ Goto(r, "assigned")
  /\ UNCHANGED <<job, announced>>

\* run_fastdf: the range of x-planes of a rank, its particles and their ids.
MakeNeutrinos(r) ==
  /\ pc[r] = "fastdf"
  /\ LET X_min == fastdf_boundary(job.side, r)
         X_max == fastdf_boundary(job.side, r + 1)
     IN /\ first' = [first EXCEPT ![r][Neutrino] = FirstID + X_min * job.side * job.side]
        /\ made' = [made EXCEPT ![r][Neutrino] = (X_max - X_min) * job.side * job.side]
  /\ Goto(r, "assigned")
  /\ UNCHANGED <<job, announced>>

\* The assertion on totalParticlesAssigned, which the default build leaves out.
AssignedAgreed ==
  /\ AllAt("assigned")
  /\ \E NDEBUG \in BOOLEAN :
       AllGoto(IF ~NDEBUG /\ Total(made, Neutrino) # Cube(job.side)
                 THEN "aborted" ELSE "totals")
  /\ UNCHANGED <<job, announced, first, made>>

\* Mutant: more than was promised passes.
TotalsAgreed_AtLeast ==
  /\ AllAt("totals")
  /\ AllGoto(IF \A t \in Type : Total(made, t) >= num_particles[t]
               THEN "delivered" ELSE "totals refused")
  /\ UNCHANGED <<job, announced, first, made>>

\* finish_particle_transfer: what was emitted against the metadata.
TotalsAgreed ==
  /\ AllAt("totals")
  /\ AllGoto(IF \A t \in Type : Total(made, t) = num_particles[t]
               THEN "delivered" ELSE "totals refused")
  /\ UNCHANGED <<job, announced, first, made>>

Init ==
  /\ job \in Jobs
  /\ pc = [r \in Rank |-> "metadata"]
  /\ announced = [r \in Rank |-> Zero]
  /\ first = [r \in Rank |-> Zero]
  /\ made = [r \in Rank |-> Zero]

LocalStep(r) ==
  \/ Announce(r)
  \/ MakeDM(r)
  \/ MakeBaryons(r)
  \/ MakeNeutrinos(r)

Next ==
  \/ \E r \in Rank : LocalStep(r)
  \/ HintsAgreed
  \/ CountAgreed
  \/ AssignedAgreed
  \/ TotalsAgreed

Spec == Init /\ [][Next]_vars
-----------------------------------------------------------------------------
(***************************************************************************)
(* Properties                                                              *)
(***************************************************************************)
Place == {"metadata", "hints", "hints refused", "dm", "dm count", "baryons",
          "baryon count", "count refused", "fastdf", "assigned", "aborted",
          "totals", "totals refused", "delivered"}

\* The metadata of every rank and the ids and counts of its species keep
\* their types; in particular no rank is given a negative number of planes.
TypeOK ==
  /\ job \in Jobs
  /\ pc \in [Rank -> Place]
  /\ announced \in [Rank -> [Type -> Nat]]
  /\ first \in [Rank -> [Type -> Nat]]
  /\ made \in [Rank -> [Type -> Nat]]

\* local_num_particles is exact for the species that come from lattices.
LatticeShareExact ==
  \A r \in Rank :
    pc[r] \in {"fastdf", "assigned", "aborted", "totals", "totals refused", "delivered"} =>
      \A t \in {Baryon, DM} : made[r][t] = announced[r][t]

\* The ids of two groups of particles, a species on a rank each, are disjoint.
Disjoint(r, t, q, u) ==
  \/ made[r][t] = 0
  \/ made[q][u] = 0
  \/ first[r][t] + made[r][t] <= first[q][u]
  \/ first[q][u] + made[q][u] <= first[r][t]

\* No two dark matter or baryon particles carry the same id, whatever ranks
\* and species they belong to.
LatticeIdsUnique ==
  \A r, q \in Rank : \A t, u \in {Baryon, DM} :
    <<r, t>> # <<q, u>> => Disjoint(r, t, q, u)

\* The neutrinos of a rank continue where those of the rank before it end: the
\* two ranks compute their common boundary alike, however it is rounded.
NeutrinosConsecutive ==
  \A r \in Rank : r + 1 \in Rank /\ first[r][Neutrino] # 0 /\ first[r + 1][Neutrino] # 0 =>
    first[r + 1][Neutrino] = first[r][Neutrino] + made[r][Neutrino]

\* In a transfer that is delivered the neutrinos are those of the cube: no
\* rank made one beyond its last plane.
NeutrinosFillCube ==
  \A r \in Rank : pc[r] = "delivered" /\ job.side > 0 =>
    /\ first[r][Neutrino] >= FirstID
    /\ first[r][Neutrino] + made[r][Neutrino] <= FirstID + Cube(job.side)

\* ceil_partition_boundary, written so that nothing overflows, is the ceiling
\* of side * part / NumRanks.
BoundaryIsCeiling ==
  \A part \in 0 .. NumRanks :
    ceil_partition_boundary(job.side, part) = CeilDiv(job.side * part, NumRanks)

\* "Exact number of particles this MPI rank will emit", for neutrinos too.
NeutrinoShareExact ==
  \A r \in Rank : first[r][Neutrino] # 0 =>
    made[r][Neutrino] = announced[r][Neutrino]

\* FirstID is "immediately after the dm particles": no neutrino has an id of
\* the dark matter or one before it.
NeutrinosAfterDM ==
  \A r, q \in Rank : made[r][Neutrino] # 0 /\ made[q][DM] # 0 =>
    first[r][Neutrino] >= first[q][DM] + made[q][DM]
=============================================================================
