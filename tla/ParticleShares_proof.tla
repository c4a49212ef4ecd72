--------------------------- MODULE ParticleShares_proof ---------------------------
(***************************************************************************)
(* Theorems about ParticleShares: they hold for every number of ranks, and *)
(* for cubes and loads of every size.                                      *)
(***************************************************************************)
EXTENDS ParticleShares, Counting

-----------------------------------------------------------------------------
(***************************************************************************)
(* Division rounded up.                                                    *)
(***************************************************************************)
LEMMA DivBounds ==
  ASSUME NEW a \in Nat, NEW b \in Nat \ {0}
  PROVE  /\ a \div b \in Nat
         /\ b * (a \div b) <= a
         /\ a < b * (a \div b) + b
OBVIOUS

LEMMA CeilDivBounds ==
  ASSUME NEW a \in Nat, NEW b \in Nat \ {0}
  PROVE  /\ CeilDiv(a, b) \in Nat
         /\ a <= b * CeilDiv(a, b)
         /\ b * CeilDiv(a, b) < a + b
<1>1. a + b - 1 \in Nat
  OBVIOUS
<1>2. /\ (a + b - 1) \div b \in Nat
      /\ b * ((a + b - 1) \div b) <= a + b - 1
      /\ a + b - 1 < b * ((a + b - 1) \div b) + b
  BY <1>1, DivBounds
<1>3. DEFINE c == (a + b - 1) \div b
<1>4. b * c \in Int
  BY <1>2
<1>5. QED  BY <1>2, <1>4 DEF CeilDiv

LEMMA LessTimes ==
  ASSUME NEW b \in Nat \ {0}, NEW c \in Int, NEW d \in Int, b * c < b * d + b
  PROVE  c <= d
<1>1. SUFFICES ASSUME d + 1 <= c PROVE FALSE
  OBVIOUS
<1>2. b * (d + 1) <= b * c
  BY <1>1
<1>3. b * (d + 1) = b * d + b
  OBVIOUS
<1>4. b * c \in Int /\ b * d \in Int
  OBVIOUS
<1>5. QED  BY <1>2, <1>3, <1>4

LEMMA CeilDivUnique ==
  ASSUME NEW a \in Nat, NEW b \in Nat \ {0}, NEW c \in Int, a <= b * c, b * c < a + b
  PROVE  c = CeilDiv(a, b)
<1>1. DEFINE d == CeilDiv(a, b)
<1>2. d \in Nat /\ a <= b * d /\ b * d < a + b
  BY CeilDivBounds
<1>3. b * c \in Int /\ b * d \in Int
  BY <1>2
<1>4. b * c < b * d + b /\ b * d < b * c + b
  BY <1>2, <1>3
<1>5. HIDE DEF d
<1>6. c <= d /\ d <= c
  BY <1>2, <1>4, LessTimes
<1>7. c = d
  BY <1>2, <1>6
<1>8. QED  BY <1>7 DEF d

LEMMA CeilDivMonotone ==
  ASSUME NEW a \in Nat, NEW e \in Nat, a <= e, NEW b \in Nat \ {0}
  PROVE  CeilDiv(a, b) <= CeilDiv(e, b)
<1>1. DEFINE c == CeilDiv(a, b)
             d == CeilDiv(e, b)
<1>2. c \in Nat /\ b * c < a + b /\ d \in Nat /\ e <= b * d
  BY CeilDivBounds
<1>3. HIDE DEF c, d
<1>4. b * c < b * d + b
  BY <1>2
<1>5. c <= d
  BY <1>2, <1>4, LessTimes
<1>6. QED  BY <1>5 DEF c, d

\* A multiple divides without rounding.
LEMMA CeilDivMultiple ==
  ASSUME NEW a \in Nat, NEW b \in Nat \ {0}, a % b = 0
  PROVE  CeilDiv(a, b) = a \div b /\ b * (a \div b) = a
<1>1. a \div b \in Nat /\ a = b * (a \div b) + (a % b)
  OBVIOUS
<1>2. b * (a \div b) \in Nat
  BY <1>1
<1>3. a = b * (a \div b)
  BY <1>1, <1>2
<1>4. a <= b * (a \div b) /\ b * (a \div b) < a + b
  BY <1>2, <1>3
<1>5. QED  BY <1>1, <1>3, <1>4, CeilDivUnique

-----------------------------------------------------------------------------
(***************************************************************************)
(* The three partitions.                                                   *)
(***************************************************************************)
LEMMA RanksPositive == NumRanks \in Nat \ {0}
BY NumRanksAssumption

LEMMA PartitionBoundary ==
  ASSUME NEW side \in Nat, NEW part \in Nat
  PROVE  ceil_partition_boundary(side, part) = CeilDiv(side * part, NumRanks)
<1>1. DEFINE q == side \div NumRanks
             m == side % NumRanks
             c == CeilDiv(m * part, NumRanks)
<1>2. q \in Nat /\ m \in Nat /\ side = NumRanks * q + m
  BY RanksPositive
<1>3. m * part \in Nat /\ side * part \in Nat /\ q * part \in Nat
  BY <1>2
<1>4. c \in Nat /\ m * part <= NumRanks * c /\ NumRanks * c < m * part + NumRanks
  BY <1>3, RanksPositive, CeilDivBounds
<1>5. ceil_partition_boundary(side, part) = q * part + c
  BY <1>3 DEF ceil_partition_boundary, CeilDiv
<1>6. HIDE DEF q, m, c
<1>7. side * part = NumRanks * (q * part) + m * part
  BY <1>2, RanksPositive
<1>8. NumRanks * (q * part + c) = NumRanks * (q * part) + NumRanks * c
  BY <1>3, <1>4, RanksPositive
<1>9. NumRanks * (q * part) \in Int /\ NumRanks * c \in Int
  BY <1>3, <1>4, RanksPositive
<1>10. /\ side * part <= NumRanks * (q * part + c)
       /\ NumRanks * (q * part + c) < side * part + NumRanks
  BY <1>3, <1>4, <1>7, <1>8, <1>9, RanksPositive
<1>11. q * part + c \in Int
  BY <1>3, <1>4
<1>12. q * part + c = CeilDiv(side * part, NumRanks)
  BY <1>3, <1>10, <1>11, RanksPositive, CeilDivUnique
<1>13. QED  BY <1>5, <1>12

LEMMA PartitionMonotone ==
  ASSUME NEW side \in Nat, NEW part \in Nat
  PROVE  /\ ceil_partition_boundary(side, part) \in Nat
         /\ ceil_partition_boundary(side, part + 1) \in Nat
         /\ ceil_partition_boundary(side, part) <= ceil_partition_boundary(side, part + 1)
<1>1. /\ side * part \in Nat /\ side * (part + 1) \in Nat
      /\ side * part <= side * (part + 1)
  BY TimesCommute, TimesMonotone
<1>2. QED
  BY <1>1, RanksPositive, PartitionBoundary, CeilDivBounds, CeilDivMonotone

\* However its double is rounded, a boundary of FastDF is not behind the next.
LEMMA FastDFMonotone ==
  ASSUME NEW side \in Nat, NEW part \in Nat
  PROVE  /\ fastdf_boundary(side, part) \in Nat
         /\ fastdf_boundary(side, part + 1) \in Nat
         /\ fastdf_boundary(side, part) <= fastdf_boundary(side, part + 1)
<1>1. DEFINE x == side * part
             y == side * (part + 1)
             c == CeilDiv(x, NumRanks)
             d == CeilDiv(y, NumRanks)
<1>2. x \in Nat /\ y \in Nat /\ y = x + side /\ x <= y
  OBVIOUS
<1>3. c \in Nat /\ d \in Nat /\ c <= d /\ y <= NumRanks * d
  BY <1>2, RanksPositive, CeilDivBounds, CeilDivMonotone
<1>4. /\ fastdf_boundary(side, part) \in {c, c + 1}
      /\ fastdf_boundary(side, part + 1) \in {d, d + 1}
      /\ ~RoundsUp(side, part) => fastdf_boundary(side, part) = c
  BY <1>3 DEF fastdf_boundary
<1>5. CASE ~RoundsUp(side, part)
  BY <1>3, <1>4, <1>5
<1>6. CASE RoundsUp(side, part)
  <2>1. side > 0 /\ x % NumRanks = 0
    BY <1>6 DEF RoundsUp
  <2>2. NumRanks * c = x
    BY <2>1, <1>2, RanksPositive, CeilDivMultiple
  <2>3. HIDE DEF x, y, c, d
  <2>4. NumRanks * c < NumRanks * d
    <3>1. NumRanks * d \in Int
      BY <1>3, RanksPositive
    <3>2. x < y
      BY <1>2, <2>1
    <3>3. QED  BY <1>2, <1>3, <2>2, <3>1, <3>2
  <2>5. NumRanks * (c + 1) = NumRanks * c + NumRanks
    BY <1>3, RanksPositive
  <2>6. NumRanks * (c + 1) < NumRanks * d + NumRanks
    BY <2>4, <2>5, <1>3, RanksPositive
  <2>7. c + 1 <= d
    BY <1>3, <2>6, RanksPositive, LessTimes
  <2>8. QED  BY <1>3, <1>4, <2>7
<1>7. QED  BY <1>5, <1>6

LEMMA SlabInside ==
  ASSUME NEW n \in Nat, NEW r \in Nat
  PROVE  SlabBoundary(n, r) \in Nat /\ SlabBoundary(n, r) <= n
<1>1. Block(n) \in Nat
  BY RanksPositive, CeilDivBounds DEF Block
<1>2. r * Block(n) \in Nat
  BY <1>1
<1>3. QED  BY <1>2 DEF SlabBoundary

LEMMA SlabMonotone ==
  ASSUME NEW n \in Nat, NEW r \in Nat, NEW q \in Nat, r <= q
  PROVE  /\ SlabBoundary(n, r) \in Nat
         /\ SlabBoundary(n, q) \in Nat
         /\ SlabBoundary(n, r) <= SlabBoundary(n, q)
         /\ SlabBoundary(n, q) <= n
<1>1. Block(n) \in Nat
  BY RanksPositive, CeilDivBounds DEF Block
<1>2. /\ r * Block(n) \in Nat /\ q * Block(n) \in Nat
      /\ r * Block(n) <= q * Block(n)
  BY <1>1
<1>3. QED  BY <1>2 DEF SlabBoundary


-----------------------------------------------------------------------------
(***************************************************************************)
(* The inductive invariant: what a rank has announced and made is what the *)
(* partitions give it, and nothing else has been written.                  *)
(***************************************************************************)
LatticeCount(r) == job.overload * local_lattice_cells(r)
LatticeFirst(r, t) ==
  (IF t = Baryon THEN job.overload * Cube(job.ngrid) ELSE 0)
    + job.overload * SlabBoundary(job.ngrid, r) * job.ngrid * job.ngrid
NeutrinoFirst(r) == FirstID + fastdf_boundary(job.side, r) * job.side * job.side
NeutrinoCount(r) ==
  (fastdf_boundary(job.side, r + 1) - fastdf_boundary(job.side, r)) * job.side * job.side
Share(r) == [t \in Type |->
  IF t = Neutrino THEN local_fastdf_cells(r)
  ELSE IF t = Baryon /\ ~job.baryons THEN 0
  ELSE job.overload * local_lattice_cells(r)]

Unmade(r, t) == first[r][t] = 0 /\ made[r][t] = 0

AfterLattices == {"fastdf", "assigned", "aborted", "totals", "totals refused", "delivered"}
WithDM == {"dm count", "baryons", "baryon count"} \cup AfterLattices
WithBaryons == {"baryon count"} \cup AfterLattices

\* A rank that has left the constructor announced its share.
AnnouncedInv == \A r \in Rank : pc[r] # "metadata" => announced[r] = Share(r)

\* A species on a rank is as its partition has it, or not made.
MadeInv ==
  \A r \in Rank :
    /\ \A t \in {Baryon, DM} :
         \/ Unmade(r, t)
         \/ first[r][t] = LatticeFirst(r, t) /\ made[r][t] = LatticeCount(r)
    /\ \/ Unmade(r, Neutrino)
       \/ first[r][Neutrino] = NeutrinoFirst(r) /\ made[r][Neutrino] = NeutrinoCount(r)

\* Past its place in the loop a selected lattice species has been made.
ProgressInv ==
  \A r \in Rank :
    /\ pc[r] \in WithDM => made[r][DM] = LatticeCount(r)
    /\ ~job.baryons => pc[r] \notin {"baryons", "baryon count"} /\ made[r][Baryon] = 0
    /\ job.baryons /\ pc[r] \in WithBaryons => made[r][Baryon] = LatticeCount(r)

IInv == TypeOK /\ AnnouncedInv /\ MadeInv /\ ProgressInv

\* Planes of a lattice, counted in particles; planes of the neutrino cube.
LatticePlanes(k) == job.overload * k * job.ngrid * job.ngrid
CubePlanes(k) == k * job.side * job.side

LEMMA JobTypes ==
  ASSUME job \in Jobs
  PROVE  /\ job.ngrid \in Nat \ {0} /\ job.overload \in Nat \ {0}
         /\ job.baryons \in BOOLEAN /\ job.side \in Nat
BY JobsAssumption DEF Job

LEMMA LatticePlanesMonotone ==
  ASSUME job \in Jobs, NEW k \in Nat, NEW l \in Nat, k <= l
  PROVE  /\ LatticePlanes(k) \in Nat
         /\ LatticePlanes(l) \in Nat
         /\ LatticePlanes(k) <= LatticePlanes(l)
         /\ LatticePlanes(l) - LatticePlanes(k) = job.overload * ((l - k) * job.ngrid * job.ngrid)
         /\ LatticePlanes(job.ngrid) = job.overload * Cube(job.ngrid)
<1>1. DEFINE n == job.ngrid
             o == job.overload
             a == n * n
             b == o * a
<1>2. n \in Nat /\ o \in Nat
  BY JobTypes
<1>3. a \in Nat /\ b \in Nat
  BY <1>2
<1>4. LatticePlanes(k) = b * k /\ LatticePlanes(l) = b * l
  BY <1>2 DEF LatticePlanes
<1>5. b * k \in Nat /\ b * l \in Nat /\ b * k <= b * l
  <2>1. HIDE DEF b
  <2>2. QED  BY <1>3, TimesCommute, TimesMonotone
<1>6. b * l - b * k = o * ((l - k) * n * n)
  BY <1>2
<1>7. LatticePlanes(n) = o * Cube(n)
  BY <1>2 DEF LatticePlanes, Cube
<1>8. QED  BY <1>4, <1>5, <1>6, <1>7

LEMMA CubePlanesMonotone ==
  ASSUME job \in Jobs, NEW k \in Nat, NEW l \in Nat, k <= l
  PROVE  /\ CubePlanes(k) \in Nat
         /\ CubePlanes(l) \in Nat
         /\ CubePlanes(k) <= CubePlanes(l)
         /\ CubePlanes(l) - CubePlanes(k) = (l - k) * job.side * job.side
<1>1. DEFINE s == job.side
             a == s * s
<1>2. s \in Nat /\ a \in Nat
  BY JobTypes
<1>3. CubePlanes(k) = a * k /\ CubePlanes(l) = a * l
  BY <1>2 DEF CubePlanes
<1>4. a * k \in Nat /\ a * l \in Nat /\ a * k <= a * l
  <2>1. HIDE DEF a
  <2>2. QED  BY <1>2, TimesCommute, TimesMonotone
<1>5. a * l - a * k = (l - k) * s * s
  BY <1>2
<1>6. QED  BY <1>3, <1>4, <1>5

\* The lattice particles of a rank: those between two of its boundaries.
LEMMA LatticeOfRank ==
  ASSUME job \in Jobs, NEW r \in Rank, NEW t \in Type
  PROVE  /\ LatticeCount(r) \in Nat /\ LatticeFirst(r, t) \in Nat
         /\ LatticeFirst(r, t) = (IF t = Baryon THEN LatticePlanes(job.ngrid) ELSE 0)
                                   + LatticePlanes(SlabBoundary(job.ngrid, r))
         /\ LatticeFirst(r, t) + LatticeCount(r)
              = (IF t = Baryon THEN LatticePlanes(job.ngrid) ELSE 0)
                  + LatticePlanes(SlabBoundary(job.ngrid, r + 1))
<1>1. DEFINE k == SlabBoundary(job.ngrid, r)
             l == SlabBoundary(job.ngrid, r + 1)
<1>2. job.ngrid \in Nat /\ r \in Nat /\ r + 1 \in Nat
  BY JobTypes DEF Rank
<1>3. k \in Nat /\ l \in Nat /\ k <= l
  BY <1>2, SlabMonotone, SMTT(30)
<1>4. LatticeCount(r) = job.overload * ((l - k) * job.ngrid * job.ngrid)
  BY DEF LatticeCount, local_lattice_cells, SlabSize
<1>5. HIDE DEF k, l
<1>6. /\ LatticePlanes(k) \in Nat /\ LatticePlanes(l) \in Nat
      /\ LatticePlanes(k) <= LatticePlanes(l)
      /\ LatticeCount(r) = LatticePlanes(l) - LatticePlanes(k)
      /\ LatticePlanes(job.ngrid) = job.overload * Cube(job.ngrid)
  BY <1>3, <1>4, LatticePlanesMonotone
<1>7. LatticePlanes(job.ngrid) \in Nat
  BY <1>2, LatticePlanesMonotone
<1>8. LatticeFirst(r, t) = (IF t = Baryon THEN LatticePlanes(job.ngrid) ELSE 0)
                             + LatticePlanes(k)
  BY <1>6 DEF LatticeFirst, LatticePlanes, k
<1>9. QED  BY <1>6, <1>7, <1>8 DEF k, l

LEMMA NeutrinosOfRank ==
  ASSUME job \in Jobs, NEW r \in Rank
  PROVE  /\ NeutrinoCount(r) \in Nat /\ NeutrinoFirst(r) \in Nat
         /\ NeutrinoFirst(r) = FirstID + CubePlanes(fastdf_boundary(job.side, r))
         /\ NeutrinoFirst(r) + NeutrinoCount(r)
              = FirstID + CubePlanes(fastdf_boundary(job.side, r + 1))
<1>1. DEFINE k == fastdf_boundary(job.side, r)
             l == fastdf_boundary(job.side, r + 1)
<1>2. job.side \in Nat /\ r \in Nat
  BY JobTypes DEF Rank
<1>3. k \in Nat /\ l \in Nat /\ k <= l
  BY <1>2, FastDFMonotone
<1>4. /\ NeutrinoCount(r) = (l - k) * job.side * job.side
      /\ NeutrinoFirst(r) = FirstID + CubePlanes(k)
  BY DEF NeutrinoCount, NeutrinoFirst, CubePlanes
<1>5. HIDE DEF k, l
<1>6. /\ CubePlanes(k) \in Nat /\ CubePlanes(l) \in Nat
      /\ CubePlanes(k) <= CubePlanes(l)
      /\ NeutrinoCount(r) = CubePlanes(l) - CubePlanes(k)
  BY <1>3, <1>4, CubePlanesMonotone
<1>7. FirstID \in Nat
  BY JobTypes DEF FirstID, Cube
<1>8. QED  BY <1>4, <1>6, <1>7 DEF k, l

LEMMA ShareOfRank ==
  ASSUME job \in Jobs, NEW r \in Rank
  PROVE  Share(r) \in [Type -> Nat]
<1>1. DEFINE k == ceil_partition_boundary(job.side, r)
             l == ceil_partition_boundary(job.side, r + 1)
<1>2. job.side \in Nat /\ r \in Nat
  BY JobTypes DEF Rank
<1>3. k \in Nat /\ l \in Nat /\ k <= l
  BY <1>2, PartitionMonotone
<1>4. local_fastdf_cells(r) = (l - k) * job.side * job.side
  BY DEF local_fastdf_cells
<1>5. HIDE DEF k, l
<1>6. local_fastdf_cells(r) \in Nat
  BY <1>3, <1>4, CubePlanesMonotone
<1>7. LatticeCount(r) \in Nat
  BY LatticeOfRank DEF Type, DM
<1>8. QED  BY <1>6, <1>7 DEF Share, LatticeCount

-----------------------------------------------------------------------------
(***************************************************************************)
(* The invariant holds initially and every step preserves it.              *)
(***************************************************************************)
LEMMA TypesDiffer ==
  /\ Baryon \in Type /\ DM \in Type /\ Neutrino \in Type
  /\ Baryon # DM /\ Baryon # Neutrino /\ DM # Neutrino
  /\ \A t \in Type : t = Baryon \/ t = DM \/ t = Neutrino
BY DEF Type, Baryon, DM, Neutrino

LEMMA InitEstablishes == Init => IInv
<1>1. SUFFICES ASSUME Init PROVE IInv
  OBVIOUS
<1>2. TypeOK
  BY <1>1 DEF Init, TypeOK, Zero, Place
<1>3. AnnouncedInv /\ MadeInv
  BY <1>1 DEF Init, AnnouncedInv, MadeInv, Unmade, Zero, Type, Baryon, DM, Neutrino
<1>4. ProgressInv
  BY <1>1 DEF Init, ProgressInv, WithDM, WithBaryons, AfterLattices, Zero, Type, Baryon
<1>5. QED  BY <1>2, <1>3, <1>4 DEF IInv

\* What the partitions give a rank depends on the configuration alone.
LEMMA Stable ==
  ASSUME job' = job
  PROVE  /\ \A r \in Rank : /\ Share(r)' = Share(r)
                            /\ LatticeCount(r)' = LatticeCount(r)
                            /\ NeutrinoFirst(r)' = NeutrinoFirst(r)
                            /\ NeutrinoCount(r)' = NeutrinoCount(r)
         /\ \A r \in Rank, t \in Type : LatticeFirst(r, t)' = LatticeFirst(r, t)
BY DEF Share, LatticeCount, LatticeFirst, NeutrinoFirst, NeutrinoCount,
       local_lattice_cells, local_fastdf_cells, FirstID

LEMMA AnnouncePreserves ==
  ASSUME IInv, NEW r \in Rank, Announce(r)
  PROVE  IInv'
<1>1. /\ job' = job /\ first' = first /\ made' = made
      /\ pc' = [pc EXCEPT ![r] = "hints"]
      /\ announced' = [announced EXCEPT ![r] = Share(r)]
  BY DEF Announce, Goto, Share
<1>2. TypeOK /\ AnnouncedInv /\ MadeInv /\ ProgressInv
  BY DEF IInv
<1>3. Share(r) \in [Type -> Nat]
  BY <1>2, ShareOfRank DEF TypeOK
<1>4. TypeOK'
  BY <1>1, <1>2, <1>3 DEF TypeOK, Place
<1>5. AnnouncedInv'
  <2>1. SUFFICES ASSUME NEW q \in Rank, pc'[q] # "metadata" PROVE announced'[q] = Share(q)
    BY <1>1, Stable DEF AnnouncedInv
  <2>2. CASE q = r
    BY <2>2, <1>1, <1>2 DEF TypeOK
  <2>3. CASE q # r
    BY <2>1, <2>3, <1>1, <1>2 DEF TypeOK, AnnouncedInv
  <2>4. QED  BY <2>2, <2>3
<1>6. MadeInv'
  BY <1>1, <1>2, Stable DEF MadeInv, Unmade, Type, Baryon, DM, Neutrino
<1>7. ProgressInv'
  BY <1>1, <1>2, Stable DEF ProgressInv, TypeOK, WithDM, WithBaryons, AfterLattices
<1>8. QED  BY <1>4, <1>5, <1>6, <1>7 DEF IInv

\* A collective moves all the ranks and writes nothing else.
LEMMA CollectivePreserves ==
  ASSUME IInv, NEW to \in Place \ {"metadata"},
         AllGoto(to), UNCHANGED <<job, announced, first, made>>,
         \A r \in Rank : pc[r] # "metadata",
         \A r \in Rank : to \in WithDM => made[r][DM] = LatticeCount(r),
         ~job.baryons => to \notin {"baryons", "baryon count"},
         \A r \in Rank : job.baryons /\ to \in WithBaryons =>
                           made[r][Baryon] = LatticeCount(r)
  PROVE  IInv'
<1>1. TypeOK /\ AnnouncedInv /\ MadeInv /\ ProgressInv
  BY DEF IInv
<1>2. TypeOK'
  BY <1>1 DEF TypeOK, AllGoto
<1>3. AnnouncedInv'
  BY <1>1, Stable DEF AnnouncedInv
<1>4. MadeInv'
  BY <1>1, Stable DEF MadeInv, Unmade, Type, Baryon, DM, Neutrino
<1>5. ProgressInv'
  BY <1>1, Stable DEF ProgressInv, AllGoto
<1>6. QED  BY <1>2, <1>3, <1>4, <1>5 DEF IInv

LEMMA HintsAgreedPreserves ==
  ASSUME IInv, HintsAgreed
  PROVE  IInv'
<1>1. PICK to \in {"dm", "hints refused"} : AllGoto(to)
  BY DEF HintsAgreed
<1>2. \A r \in Rank : pc[r] # "metadata"
  BY DEF HintsAgreed, AllAt
<1>3. to \in Place \ {"metadata"} /\ to \notin WithDM /\ to \notin WithBaryons
  BY <1>1 DEF Place, WithDM, WithBaryons, AfterLattices
<1>4. QED  BY <1>1, <1>2, <1>3, CollectivePreserves DEF HintsAgreed

LEMMA CountAgreedPreserves ==
  ASSUME IInv, CountAgreed
  PROVE  IInv'
<1>1. PICK t \in {DM, Baryon} :
        /\ AllAt(IF t = DM THEN "dm count" ELSE "baryon count")
        /\ AllGoto(IF Total(made, t) # num_particles[t] THEN "count refused"
                   ELSE IF t = DM THEN AfterDM ELSE AfterBaryons)
        /\ UNCHANGED <<job, announced, first, made>>
  BY DEF CountAgreed
<1>2. TypeOK /\ ProgressInv /\ job.baryons \in BOOLEAN
  BY JobTypes DEF IInv, TypeOK
<1>3. \A r \in Rank : /\ pc[r] \in {"dm count", "baryon count"}
                      /\ made[r][DM] = LatticeCount(r)
                      /\ t = Baryon => job.baryons /\ made[r][Baryon] = LatticeCount(r)
  <2>1. SUFFICES ASSUME NEW r \in Rank
                 PROVE  /\ pc[r] \in {"dm count", "baryon count"}
                        /\ made[r][DM] = LatticeCount(r)
                        /\ t = Baryon => job.baryons /\ made[r][Baryon] = LatticeCount(r)
    OBVIOUS
  <2>2. pc[r] = (IF t = DM THEN "dm count" ELSE "baryon count")
    BY <1>1 DEF AllAt
  <2>3. CASE t = DM
    BY <2>2, <2>3, <1>2, TypesDiffer DEF ProgressInv, WithDM
  <2>4. CASE t = Baryon
    BY <2>2, <2>4, <1>2, TypesDiffer DEF ProgressInv, WithDM, WithBaryons
  <2>5. QED  BY <2>3, <2>4, <1>1
<1>4. CASE Total(made, t) # num_particles[t]
  BY <1>1, <1>3, <1>4, CollectivePreserves
     DEF Place, WithDM, WithBaryons, AfterLattices
<1>5. CASE Total(made, t) = num_particles[t] /\ t = DM
  <2>1. AllGoto(AfterDM)
    BY <1>1, <1>5
  <2>2. AfterDM \in {"baryons", "fastdf", "totals"} /\ (AfterDM = "baryons" <=> job.baryons)
    BY <1>2 DEF AfterDM
  <2>3. AfterDM \in Place \ {"metadata"} /\ (job.baryons => AfterDM \notin WithBaryons)
    BY <2>2 DEF Place, WithBaryons, AfterLattices
  <2>4. ~job.baryons => AfterDM \notin {"baryons", "baryon count"}
    BY <2>2
  <2>5. QED  BY <1>1, <1>3, <2>1, <2>3, <2>4, CollectivePreserves
<1>6. CASE Total(made, t) = num_particles[t] /\ t # DM
  <2>1. AllGoto(AfterBaryons) /\ t = Baryon
    BY <1>1, <1>6
  <2>2. AfterBaryons \in {"fastdf", "totals"}
    BY DEF AfterBaryons
  <2>3. AfterBaryons \in Place \ {"metadata"} /\ AfterBaryons \notin {"baryons", "baryon count"}
    BY <2>2 DEF Place
  <2>4. QED  BY <1>1, <1>3, <2>1, <2>3, CollectivePreserves
<1>7. QED  BY <1>4, <1>5, <1>6

\* The two collectives after the lattices.
LEMMA LateCollectivePreserves ==
  ASSUME IInv, AssignedAgreed \/ TotalsAgreed
  PROVE  IInv'
<1>1. PICK to \in {"aborted", "totals", "delivered", "totals refused"} :
        AllGoto(to) /\ UNCHANGED <<job, announced, first, made>>
  BY DEF AssignedAgreed, TotalsAgreed
<1>2. \A r \in Rank : pc[r] \in {"assigned", "totals"}
  BY DEF AssignedAgreed, TotalsAgreed, AllAt
<1>3. \A r \in Rank : /\ pc[r] # "metadata"
                      /\ made[r][DM] = LatticeCount(r)
                      /\ job.baryons => made[r][Baryon] = LatticeCount(r)
  BY <1>2 DEF IInv, ProgressInv, WithDM, WithBaryons, AfterLattices
<1>4. to \in Place \ {"metadata"} /\ to \notin {"baryons", "baryon count"}
  BY <1>1 DEF Place
<1>5. QED  BY <1>1, <1>3, <1>4, CollectivePreserves

\* A rank makes a species as its partition has it.
LEMMA MakePreserves ==
  ASSUME IInv, NEW r \in Rank, NEW t \in Type, NEW to, NEW f \in Nat, NEW m \in Nat,
         UNCHANGED <<job, announced>>,
         pc' = [pc EXCEPT ![r] = to],
         first' = [first EXCEPT ![r][t] = f],
         made' = [made EXCEPT ![r][t] = m],
         t = Neutrino => f = NeutrinoFirst(r) /\ m = NeutrinoCount(r),
         t # Neutrino => f = LatticeFirst(r, t) /\ m = LatticeCount(r),
         \/ t = DM /\ pc[r] = "dm" /\ to = "dm count"
         \/ t = Baryon /\ pc[r] = "baryons" /\ to = "baryon count"
         \/ t = Neutrino /\ pc[r] = "fastdf" /\ to = "assigned"
  PROVE  IInv'
<1>1. /\ job' = job /\ announced' = announced /\ pc' = [pc EXCEPT ![r] = to]
      /\ to \in {"dm count", "baryon count", "assigned"}
      /\ pc[r] # "metadata"
  OBVIOUS
<1>2. TypeOK /\ AnnouncedInv /\ MadeInv /\ ProgressInv /\ job \in Jobs
  BY DEF IInv, TypeOK
<1>3. /\ first' \in [Rank -> [Type -> Nat]]
      /\ \A q \in Rank, u \in Type :
           first'[q][u] = IF q = r /\ u = t THEN f ELSE first[q][u]
  <2>1. first \in [Rank -> [Type -> Nat]] /\ first[r] \in [Type -> Nat]
    BY <1>2 DEF TypeOK
  <2>2. DEFINE g == [first[r] EXCEPT ![t] = f]
  <2>3. first' = [first EXCEPT ![r] = g]
    OBVIOUS
  <2>4. g \in [Type -> Nat] /\ \A u \in Type : g[u] = IF u = t THEN f ELSE first[r][u]
    BY <2>1
  <2>5. HIDE DEF g
  <2>6. QED  BY <2>1, <2>3, <2>4
<1>4. /\ made' \in [Rank -> [Type -> Nat]]
      /\ \A q \in Rank, u \in Type :
           made'[q][u] = IF q = r /\ u = t THEN m ELSE made[q][u]
  <2>1. made \in [Rank -> [Type -> Nat]] /\ made[r] \in [Type -> Nat]
    BY <1>2 DEF TypeOK
  <2>2. DEFINE g == [made[r] EXCEPT ![t] = m]
  <2>3. made' = [made EXCEPT ![r] = g]
    OBVIOUS
  <2>4. g \in [Type -> Nat] /\ \A u \in Type : g[u] = IF u = t THEN m ELSE made[r][u]
    BY <2>1
  <2>5. HIDE DEF g
  <2>6. QED  BY <2>1, <2>3, <2>4
<1>5. TypeOK'
  <2>1. pc' \in [Rank -> Place]
    BY <1>1, <1>2 DEF TypeOK, Place
  <2>2. job' \in Jobs /\ announced' \in [Rank -> [Type -> Nat]]
    BY <1>1, <1>2 DEF TypeOK
  <2>3. QED  BY <1>3, <1>4, <2>1, <2>2, Zenon DEF TypeOK
<1>6. AnnouncedInv'
  BY <1>1, <1>2, Stable DEF AnnouncedInv, TypeOK
<1>7. \A q \in Rank, u \in Type :
        <<q, u>> # <<r, t>> => first'[q][u] = first[q][u] /\ made'[q][u] = made[q][u]
  BY <1>3, <1>4
<1>8. first'[r][t] = f /\ made'[r][t] = m
  BY <1>3, <1>4
<1>9. MadeInv'
  <2>1. ASSUME NEW q \in Rank, NEW u \in {Baryon, DM}
        PROVE  \/ Unmade(q, u)'
               \/ first'[q][u] = LatticeFirst(q, u) /\ made'[q][u] = LatticeCount(q)
    <3>1. u \in Type /\ u # Neutrino
      BY <2>1, TypesDiffer
    <3>2. CASE <<q, u>> = <<r, t>>
      BY <3>1, <3>2, <1>8
    <3>3. CASE <<q, u>> # <<r, t>>
      BY <2>1, <3>1, <3>3, <1>2, <1>7 DEF MadeInv, Unmade
    <3>4. QED  BY <3>2, <3>3
  <2>2. ASSUME NEW q \in Rank
        PROVE  \/ Unmade(q, Neutrino)'
               \/ first'[q][Neutrino] = NeutrinoFirst(q) /\ made'[q][Neutrino] = NeutrinoCount(q)
    <3>1. CASE <<q, Neutrino>> = <<r, t>>
      BY <3>1, <1>8
    <3>2. CASE <<q, Neutrino>> # <<r, t>>
      BY <2>2, <3>2, <1>2, <1>7, TypesDiffer DEF MadeInv, Unmade
    <3>3. QED  BY <3>1, <3>2
  <2>3. \A q \in Rank, u \in {Baryon, DM} : LatticeFirst(q, u)' = LatticeFirst(q, u)
    BY <1>1, Stable, TypesDiffer
  <2>4. \A q \in Rank : /\ LatticeCount(q)' = LatticeCount(q)
                        /\ NeutrinoFirst(q)' = NeutrinoFirst(q)
                        /\ NeutrinoCount(q)' = NeutrinoCount(q)
    BY <1>1, Stable
  <2>5. QED  BY <2>1, <2>2, <2>3, <2>4 DEF MadeInv
<1>10. ProgressInv'
  <2>1. SUFFICES ASSUME NEW q \in Rank
                 PROVE  /\ pc'[q] \in WithDM => made'[q][DM] = LatticeCount(q)
                        /\ ~job.baryons => /\ pc'[q] \notin {"baryons", "baryon count"}
                                           /\ made'[q][Baryon] = 0
                        /\ job.baryons /\ pc'[q] \in WithBaryons =>
                             made'[q][Baryon] = LatticeCount(q)
    BY <1>1, Stable DEF ProgressInv
  <2>2. /\ <<q, DM>> # <<r, t>> => made'[q][DM] = made[q][DM]
        /\ <<q, Baryon>> # <<r, t>> => made'[q][Baryon] = made[q][Baryon]
    BY <1>7, TypesDiffer
  <2>3. CASE q # r
    <3>1. pc'[q] = pc[q] /\ made'[q][DM] = made[q][DM] /\ made'[q][Baryon] = made[q][Baryon]
      BY <2>2, <2>3, <1>1, <1>2 DEF TypeOK
    <3>2. QED  BY <3>1, <1>2 DEF ProgressInv
  <2>4. CASE q = r
    <3>1. pc'[q] = to
      BY <2>4, <1>1, <1>2 DEF TypeOK
    <3>2. CASE t = DM
      <4>1. /\ made'[q][DM] = LatticeCount(q) /\ made'[q][Baryon] = made[q][Baryon]
            /\ to = "dm count"
        BY <2>2, <2>4, <3>2, <1>8, TypesDiffer
      <4>2. QED  BY <4>1, <3>1, <1>2 DEF ProgressInv, WithBaryons, AfterLattices
    <3>3. CASE t = Baryon
      <4>1. /\ made'[q][Baryon] = LatticeCount(q) /\ made'[q][DM] = made[q][DM]
            /\ to = "baryon count" /\ pc[q] = "baryons"
        BY <2>2, <2>4, <3>3, <1>8, TypesDiffer
      <4>2. QED  BY <4>1, <3>1, <1>2 DEF ProgressInv, WithDM
    <3>4. CASE t = Neutrino
      <4>1. /\ made'[q][Baryon] = made[q][Baryon] /\ made'[q][DM] = made[q][DM]
            /\ to = "assigned" /\ pc[q] = "fastdf"
        BY <2>2, <2>4, <3>4, TypesDiffer
      <4>2. QED  BY <4>1, <3>1, <1>2 DEF ProgressInv, WithDM, WithBaryons, AfterLattices
    <3>5. QED  BY <3>2, <3>3, <3>4, TypesDiffer
  <2>5. QED  BY <2>3, <2>4
<1>11. QED  BY <1>5, <1>6, <1>9, <1>10 DEF IInv

LEMMA MakeDMPreserves ==
  ASSUME IInv, NEW r \in Rank, MakeDM(r)
  PROVE  IInv'
<1>1. job \in Jobs
  BY DEF IInv, TypeOK
<1>2. LatticeFirst(r, DM) \in Nat /\ LatticeCount(r) \in Nat
  BY <1>1, LatticeOfRank, TypesDiffer
<1>3. /\ first' = [first EXCEPT ![r][DM] = LatticeFirst(r, DM)]
      /\ made' = [made EXCEPT ![r][DM] = LatticeCount(r)]
      /\ pc[r] = "dm" /\ pc' = [pc EXCEPT ![r] = "dm count"]
      /\ UNCHANGED <<job, announced>>
  BY DEF MakeDM, Lattice, LatticeFirst, LatticeCount, Goto
<1>4. QED  BY <1>2, <1>3, TypesDiffer, MakePreserves

LEMMA MakeBaryonsPreserves ==
  ASSUME IInv, NEW r \in Rank, MakeBaryons(r)
  PROVE  IInv'
<1>1. job \in Jobs
  BY DEF IInv, TypeOK
<1>2. LatticeFirst(r, Baryon) \in Nat /\ LatticeCount(r) \in Nat
  BY <1>1, LatticeOfRank, TypesDiffer
<1>3. /\ first' = [first EXCEPT ![r][Baryon] = LatticeFirst(r, Baryon)]
      /\ made' = [made EXCEPT ![r][Baryon] = LatticeCount(r)]
      /\ pc[r] = "baryons" /\ pc' = [pc EXCEPT ![r] = "baryon count"]
      /\ UNCHANGED <<job, announced>>
  BY DEF MakeBaryons, Lattice, LatticeFirst, LatticeCount, Goto
<1>4. QED  BY <1>2, <1>3, TypesDiffer, MakePreserves

LEMMA MakeNeutrinosPreserves ==
  ASSUME IInv, NEW r \in Rank, MakeNeutrinos(r)
  PROVE  IInv'
<1>1. job \in Jobs
  BY DEF IInv, TypeOK
<1>2. NeutrinoFirst(r) \in Nat /\ NeutrinoCount(r) \in Nat
  BY <1>1, NeutrinosOfRank
<1>3. /\ first' = [first EXCEPT ![r][Neutrino] = NeutrinoFirst(r)]
      /\ made' = [made EXCEPT ![r][Neutrino] = NeutrinoCount(r)]
      /\ pc[r] = "fastdf" /\ pc' = [pc EXCEPT ![r] = "assigned"]
      /\ UNCHANGED <<job, announced>>
  BY DEF MakeNeutrinos, NeutrinoFirst, NeutrinoCount, Goto
<1>4. QED  BY <1>2, <1>3, TypesDiffer, MakePreserves

LEMMA NextPreserves == IInv /\ [Next]_vars => IInv'
<1>1. SUFFICES ASSUME IInv, [Next]_vars PROVE IInv'
  OBVIOUS
<1>2. ASSUME NEW r \in Rank, LocalStep(r) PROVE IInv'
  BY <1>1, <1>2, AnnouncePreserves, MakeDMPreserves, MakeBaryonsPreserves,
     MakeNeutrinosPreserves DEF LocalStep
<1>3. CASE HintsAgreed
  BY <1>1, <1>3, HintsAgreedPreserves
<1>4. CASE CountAgreed
  BY <1>1, <1>4, CountAgreedPreserves
<1>5. CASE AssignedAgreed \/ TotalsAgreed
  BY <1>1, <1>5, LateCollectivePreserves
<1>6. CASE UNCHANGED vars
  <2>1. /\ job' = job /\ pc' = pc /\ announced' = announced
        /\ first' = first /\ made' = made
    BY <1>6 DEF vars
  <2>2. TypeOK /\ AnnouncedInv /\ MadeInv /\ ProgressInv
    BY <1>1 DEF IInv
  <2>3. TypeOK' /\ AnnouncedInv' /\ ProgressInv'
    BY <2>1, <2>2, Stable DEF TypeOK, AnnouncedInv, ProgressInv
  <2>4. MadeInv'
    BY <2>1, <2>2, Stable, TypesDiffer DEF MadeInv, Unmade
  <2>5. QED  BY <2>3, <2>4 DEF IInv
<1>7. QED  BY <1>1, <1>2, <1>3, <1>4, <1>5, <1>6 DEF Next

LEMMA InductiveInvariant == Spec => []IInv
BY InitEstablishes, NextPreserves, PTL DEF Spec

-----------------------------------------------------------------------------
(***************************************************************************)
(* Sums over the ranks.                                                    *)
(***************************************************************************)
\* The sum of differences is the difference of the ends: a table s that
\* begins with 0 and grows by f from one rank to the next ends with Sum(f).
LEMMA SumOfDifferences ==
  ASSUME NEW f, NEW s \in [0 .. NumRanks -> Int],
         s[0] = 0, \A r \in Rank : s[r + 1] = s[r] + f[r]
  PROVE  Sum(f) = s[NumRanks]
<1> DEFINE IsTable(u) == u = [k \in 0 .. NumRanks |-> IF k = 0 THEN 0 ELSE u[k - 1] + f[k - 1]]
           upTo == CHOOSE u : IsTable(u)
<1>1. Sum(f) = upTo[NumRanks]
  BY DEF Sum
<1>2. IsTable(s)
  <2>1. ASSUME NEW k \in 0 .. NumRanks
        PROVE  s[k] = IF k = 0 THEN 0 ELSE s[k - 1] + f[k - 1]
    <3>1. CASE k # 0
      <4>1. k - 1 \in Rank /\ (k - 1) + 1 = k
        BY <3>1, RanksPositive DEF Rank
      <4> QED
        BY <3>1, <4>1
    <3> QED
      BY <3>1
  <2> QED
    BY <2>1
<1>3. IsTable(upTo)
  <2> HIDE DEF IsTable
  <2> QED
    BY <1>2
<1>4. NumRanks \in Nat
  BY RanksPositive
<1> HIDE DEF upTo
<1>5. \A k \in 0 .. NumRanks : upTo[k] = s[k]
  <2> DEFINE T == {k \in 0 .. NumRanks : upTo[k] # s[k]}
  <2>1. SUFFICES ASSUME T # {} PROVE FALSE
    OBVIOUS
  <2>2. PICK k \in T : \A l \in T : k <= l
    <3>1. T \subseteq Nat
      BY <1>4
    <3> HIDE DEF T
    <3> QED
      BY <2>1, <3>1, LeastOf
  <2>3. k \in 0 .. NumRanks /\ upTo[k] # s[k]
    BY <2>2
  <2>4. k # 0
    BY <1>2, <1>3, <1>4, <2>3
  <2>5. k - 1 \in 0 .. NumRanks /\ k - 1 \notin T
    BY <1>4, <2>2, <2>3, <2>4
  <2>6. upTo[k - 1] = s[k - 1]
    BY <2>5
  <2>7. upTo[k] = upTo[k - 1] + f[k - 1] /\ s[k] = s[k - 1] + f[k - 1]
    BY <1>2, <1>3, <2>3, <2>4
  <2> QED
    BY <2>3, <2>6, <2>7
<1> QED
  BY <1>1, <1>4, <1>5

-----------------------------------------------------------------------------
(***************************************************************************)
(* What a delivered transfer has made.                                     *)
(***************************************************************************)
AfterNeutrinos == {"assigned", "aborted", "totals", "totals refused", "delivered"}

\* All ranks deliver together, after they have agreed on the total; with
\* neutrinos, none is past FastDF that has not made its own.
DeliveredInv ==
  \A r \in Rank :
    /\ pc[r] = "delivered" =>
         AllAt("delivered") /\ Total(made, Neutrino) = num_particles[Neutrino]
    /\ job.side > 0 /\ pc[r] \in AfterNeutrinos =>
         first[r][Neutrino] = NeutrinoFirst(r) /\ made[r][Neutrino] = NeutrinoCount(r)

\* Nothing changes once the ranks have delivered.
LEMMA DeliveredStays ==
  ASSUME IInv, DeliveredInv, UNCHANGED <<job, first, made>>, NEW q \in Rank, NEW to \in Place,
         pc' = [pc EXCEPT ![q] = to] \/ AllGoto(to),
         pc[q] # "delivered", to \notin AfterNeutrinos
  PROVE  DeliveredInv'
<1>1. pc \in [Rank -> Place]
  BY DEF IInv, TypeOK
<1>2. \A r \in Rank : pc'[r] \in AfterNeutrinos => pc'[r] = pc[r] /\ pc[r] # "delivered"
  BY <1>1 DEF DeliveredInv, AllAt, AllGoto, AfterNeutrinos
<1> QED
  BY <1>2, Stable DEF DeliveredInv, AfterNeutrinos

LEMMA TotalStays ==
  ASSUME made' = made, job' = job
  PROVE  Total(made, Neutrino)' = Total(made, Neutrino) /\ num_particles' = num_particles
BY DEF Total, Sum, num_particles

LEMMA DeliveredPreserved == IInv /\ DeliveredInv /\ [Next]_vars => DeliveredInv'
<1>1. SUFFICES ASSUME IInv, DeliveredInv, [Next]_vars PROVE DeliveredInv'
  OBVIOUS
<1>2. /\ pc \in [Rank -> Place] /\ job \in Jobs /\ job.side \in Nat
      /\ first \in [Rank -> [Type -> Nat]] /\ made \in [Rank -> [Type -> Nat]]
  BY <1>1, JobTypes DEF IInv, TypeOK
<1>3. \E r \in Rank : TRUE
  BY RanksPositive DEF Rank
<1>4. ASSUME NEW r \in Rank, Announce(r) PROVE DeliveredInv'
  <2>1. /\ pc[r] = "metadata" /\ pc' = [pc EXCEPT ![r] = "hints"]
        /\ UNCHANGED <<job, first, made>>
    BY <1>4 DEF Announce, Goto
  <2>2. "hints" \in Place /\ "hints" \notin AfterNeutrinos
    BY DEF Place, AfterNeutrinos
  <2> QED
    BY <1>1, <2>1, <2>2, DeliveredStays
<1>5. ASSUME NEW r \in Rank, NEW t \in {DM, Baryon}, Lattice(r, t), job' = job,
             pc[r] \in {"dm", "baryons"},
             pc' = [pc EXCEPT ![r] = IF t = DM THEN "dm count" ELSE "baryon count"]
      PROVE  DeliveredInv'
  <2>1. \A q \in Rank : first'[q][Neutrino] = first[q][Neutrino]
                     /\ made'[q][Neutrino] = made[q][Neutrino]
    <3>1. t \in Type /\ t # Neutrino
      BY TypesDiffer
    <3> QED
      BY <1>2, <1>5, <3>1, TypesDiffer DEF Lattice
  <2>2. \A q \in Rank : /\ pc[q] # "delivered"
                        /\ pc'[q] \in AfterNeutrinos => pc'[q] = pc[q]
    BY <1>1, <1>2, <1>5 DEF DeliveredInv, AllAt, AfterNeutrinos
  <2>3. \A q \in Rank : pc'[q] # "delivered"
    BY <2>2 DEF AfterNeutrinos
  <2> QED
    BY <1>1, <1>5, <2>1, <2>2, <2>3, Stable DEF DeliveredInv, AfterNeutrinos
<1>6. ASSUME NEW r \in Rank, MakeNeutrinos(r) PROVE DeliveredInv'
  <2>1. /\ pc[r] = "fastdf" /\ pc' = [pc EXCEPT ![r] = "assigned"] /\ job' = job
        /\ first' = [first EXCEPT ![r][Neutrino] = NeutrinoFirst(r)]
        /\ made' = [made EXCEPT ![r][Neutrino] = NeutrinoCount(r)]
    BY <1>6 DEF MakeNeutrinos, NeutrinoFirst, NeutrinoCount, Goto
  <2>2. \A q \in Rank :
          IF q = r THEN /\ first'[q][Neutrino] = NeutrinoFirst(q)
                        /\ made'[q][Neutrino] = NeutrinoCount(q)
          ELSE /\ first'[q][Neutrino] = first[q][Neutrino]
               /\ made'[q][Neutrino] = made[q][Neutrino]
    BY <1>2, <2>1, TypesDiffer
  <2>3. \A q \in Rank : pc'[q] # "delivered" /\ (q # r => pc'[q] = pc[q])
    BY <1>1, <1>2, <2>1 DEF DeliveredInv, AllAt
  <2> QED
    BY <1>1, <2>1, <2>2, <2>3, Stable DEF DeliveredInv
<1>7. CASE HintsAgreed \/ CountAgreed
  <2>1. PICK to \in {"dm", "hints refused", "count refused", AfterDM, AfterBaryons} :
          AllGoto(to) /\ UNCHANGED <<job, first, made>>
    BY <1>7 DEF HintsAgreed, CountAgreed
  <2>2. \A r \in Rank : pc[r] \in {"hints", "dm count", "baryon count"}
    BY <1>7 DEF HintsAgreed, CountAgreed, AllAt
  <2>3. to \in Place /\ to # "delivered" /\ (job.side > 0 => to \notin AfterNeutrinos)
    BY <2>1 DEF AfterDM, AfterBaryons, Place, AfterNeutrinos
  <2> QED
    BY <2>1, <2>3, Stable DEF DeliveredInv, AllGoto, AfterNeutrinos
<1>8. CASE AssignedAgreed \/ TotalsAgreed
  <2>1. PICK to \in {"aborted", "totals", "totals refused", "delivered"} :
          /\ AllGoto(to) /\ UNCHANGED <<job, announced, first, made>>
          /\ to = "delivered" => Total(made, Neutrino) = num_particles[Neutrino]
    BY <1>8, TypesDiffer DEF AssignedAgreed, TotalsAgreed
  <2>2. \A r \in Rank : pc[r] \in AfterNeutrinos
    BY <1>8 DEF AssignedAgreed, TotalsAgreed, AllAt, AfterNeutrinos
  <2>3. \A r \in Rank : pc'[r] = to
    BY <2>1 DEF AllGoto
  <2>4. to = "delivered" => AllAt("delivered")'
    BY <2>3 DEF AllAt
  <2>5. Total(made, Neutrino)' = Total(made, Neutrino) /\ num_particles' = num_particles
    <3>1. made' = made /\ job' = job
      BY <2>1
    <3> QED
      BY <3>1, TotalStays
  <2> QED
    BY <1>1, <2>1, <2>2, <2>3, <2>4, <2>5, Stable DEF DeliveredInv
<1>9. CASE UNCHANGED vars
  <2>1. UNCHANGED <<job, pc, first, made>>
    BY <1>9 DEF vars
  <2>2. Total(made, Neutrino)' = Total(made, Neutrino) /\ num_particles' = num_particles
    BY <2>1, TotalStays
  <2> QED
    BY <1>1, <2>1, <2>2, Stable DEF DeliveredInv, AllAt
<1>10. ASSUME NEW r \in Rank, MakeDM(r) \/ MakeBaryons(r) PROVE DeliveredInv'
  <2>1. PICK t \in {DM, Baryon} :
          /\ Lattice(r, t) /\ job' = job /\ pc[r] \in {"dm", "baryons"}
          /\ pc' = [pc EXCEPT ![r] = IF t = DM THEN "dm count" ELSE "baryon count"]
    BY <1>10, TypesDiffer DEF MakeDM, MakeBaryons, Goto
  <2> QED
    BY <1>5, <2>1
<1> QED
  BY <1>1, <1>4, <1>6, <1>7, <1>8, <1>9, <1>10 DEF Next, LocalStep

-----------------------------------------------------------------------------
(***************************************************************************)
(* Theorems                                                                *)
(***************************************************************************)
\* TypeOK: no partition gives a rank a negative number of planes or an id
\* below zero (the constructor and the generators subtract boundaries).
THEOREM TypeCorrect == Spec => []TypeOK
BY InductiveInvariant, PTL DEF IInv

\* The share announced by the constructor from the slab of a rank is what the
\* generators make of that slab.
THEOREM LatticeSharesAreExact == Spec => []LatticeShareExact
<1>1. IInv => LatticeShareExact
  <2>1. SUFFICES ASSUME IInv, NEW r \in Rank, pc[r] \in AfterLattices, NEW t \in {Baryon, DM}
                 PROVE  made[r][t] = announced[r][t]
    BY DEF LatticeShareExact, AfterLattices
  <2>2. announced[r] = Share(r)
    BY <2>1 DEF IInv, AnnouncedInv, AfterLattices
  <2>3. /\ Share(r)[DM] = LatticeCount(r)
        /\ Share(r)[Baryon] = (IF job.baryons THEN LatticeCount(r) ELSE 0)
    BY TypesDiffer DEF Share, LatticeCount
  <2>4. /\ made[r][DM] = LatticeCount(r)
        /\ made[r][Baryon] = (IF job.baryons THEN LatticeCount(r) ELSE 0)
    BY <2>1 DEF IInv, ProgressInv, WithDM, WithBaryons
  <2>5. QED  BY <2>1, <2>2, <2>3, <2>4
<1>2. QED  BY <1>1, InductiveInvariant, PTL

\* Two groups of one species lie in the order of their ranks.
LEMMA RanksDisjoint ==
  ASSUME IInv, NEW r \in Rank, NEW q \in Rank, r < q, NEW t \in {Baryon, DM}
  PROVE  Disjoint(r, t, q, t)
<1>1. job \in Jobs /\ t \in Type /\ job.ngrid \in Nat /\ r \in Nat /\ q \in Nat
  BY TypesDiffer, JobTypes DEF IInv, TypeOK, Rank
<1>2. SUFFICES ASSUME made[r][t] # 0, made[q][t] # 0
               PROVE  first[r][t] + made[r][t] <= first[q][t]
  BY DEF Disjoint
<1>3. /\ first[r][t] = LatticeFirst(r, t) /\ made[r][t] = LatticeCount(r)
      /\ first[q][t] = LatticeFirst(q, t)
  BY <1>2 DEF IInv, MadeInv, Unmade
<1>4. DEFINE k == SlabBoundary(job.ngrid, r + 1)
             l == SlabBoundary(job.ngrid, q)
<1>5. r + 1 \in Nat /\ r + 1 <= q
  BY <1>1
<1>6. k \in Nat /\ l \in Nat /\ k <= l
  BY <1>1, <1>5, SlabMonotone
<1>7. HIDE DEF k, l
<1>8. LatticePlanes(k) \in Nat /\ LatticePlanes(l) \in Nat
      /\ LatticePlanes(k) <= LatticePlanes(l)
  BY <1>1, <1>6, LatticePlanesMonotone
<1>9. LatticePlanes(job.ngrid) \in Nat
  BY <1>1, LatticePlanesMonotone
<1>10. LatticeFirst(r, t) + LatticeCount(r) <= LatticeFirst(q, t)
  BY <1>1, <1>8, <1>9, LatticeOfRank DEF k, l
<1>11. QED  BY <1>3, <1>10

\* The dark matter of every rank lies below the baryons of every rank.
LEMMA SpeciesDisjoint ==
  ASSUME IInv, NEW r \in Rank, NEW q \in Rank
  PROVE  Disjoint(r, DM, q, Baryon)
<1>1. job \in Jobs /\ job.ngrid \in Nat /\ r \in Nat /\ q \in Nat /\ r + 1 \in Nat
  BY JobTypes DEF IInv, TypeOK, Rank
<1>2. SUFFICES ASSUME made[r][DM] # 0, made[q][Baryon] # 0
               PROVE  first[r][DM] + made[r][DM] <= first[q][Baryon]
  BY DEF Disjoint
<1>3. /\ first[r][DM] = LatticeFirst(r, DM) /\ made[r][DM] = LatticeCount(r)
      /\ first[q][Baryon] = LatticeFirst(q, Baryon)
  BY <1>2 DEF IInv, MadeInv, Unmade
<1>4. DEFINE k == SlabBoundary(job.ngrid, r + 1)
             l == SlabBoundary(job.ngrid, q)
<1>5. k \in Nat /\ k <= job.ngrid /\ l \in Nat
  BY <1>1, SlabInside
<1>6. HIDE DEF k, l
<1>7. LatticePlanes(k) \in Nat /\ LatticePlanes(job.ngrid) \in Nat
      /\ LatticePlanes(k) <= LatticePlanes(job.ngrid)
  BY <1>1, <1>5, LatticePlanesMonotone
<1>8. LatticePlanes(l) \in Nat
  BY <1>1, <1>5, LatticePlanesMonotone
<1>9. LatticeFirst(r, DM) + LatticeCount(r) = LatticePlanes(k)
  BY <1>1, <1>7, LatticeOfRank, TypesDiffer DEF k
<1>10. LatticeFirst(q, Baryon) = LatticePlanes(job.ngrid) + LatticePlanes(l)
  BY <1>1, LatticeOfRank, TypesDiffer DEF l
<1>11. QED  BY <1>3, <1>7, <1>8, <1>9, <1>10

\* LatticeIdsUnique, for every load, number of ranks and size of the lattice:
\* the slabs of the ranks and IDoffset keep all ids of both species apart.
THEOREM LatticeIdsAreUnique == Spec => []LatticeIdsUnique
<1>1. IInv => LatticeIdsUnique
  <2>1. SUFFICES ASSUME IInv, NEW r \in Rank, NEW q \in Rank,
                        NEW t \in {Baryon, DM}, NEW u \in {Baryon, DM}, <<r, t>> # <<q, u>>
                 PROVE  Disjoint(r, t, q, u)
    BY DEF LatticeIdsUnique
  <2>2. CASE t = u
    <3>1. r < q \/ q < r
      BY <2>1, <2>2 DEF Rank
    <3>2. Disjoint(r, t, q, t) \/ Disjoint(q, t, r, t)
      BY <2>1, <3>1, RanksDisjoint
    <3>3. QED  BY <2>2, <3>2 DEF Disjoint
  <2>3. CASE t # u
    <3>1. (t = DM /\ u = Baryon) \/ (t = Baryon /\ u = DM)
      BY <2>1, <2>3
    <3>2. Disjoint(r, DM, q, Baryon) /\ Disjoint(q, DM, r, Baryon)
      BY <2>1, SpeciesDisjoint
    <3>3. QED  BY <3>1, <3>2 DEF Disjoint
  <2>4. QED  BY <2>2, <2>3
<1>2. QED  BY <1>1, InductiveInvariant, PTL

\* NeutrinosConsecutive, for every cube and every rounding of the boundaries:
\* FastDF leaves no gap and no overlap between two ranks.
THEOREM NeutrinosAreConsecutive == Spec => []NeutrinosConsecutive
<1>1. IInv => NeutrinosConsecutive
  <2>1. SUFFICES ASSUME IInv, NEW r \in Rank, r + 1 \in Rank,
                        first[r][Neutrino] # 0, first[r + 1][Neutrino] # 0
                 PROVE  first[r + 1][Neutrino] = first[r][Neutrino] + made[r][Neutrino]
    BY DEF NeutrinosConsecutive
  <2>2. /\ first[r][Neutrino] = NeutrinoFirst(r) /\ made[r][Neutrino] = NeutrinoCount(r)
        /\ first[r + 1][Neutrino] = NeutrinoFirst(r + 1)
    BY <2>1 DEF IInv, MadeInv, Unmade
  <2>3. job \in Jobs
    BY <2>1 DEF IInv, TypeOK
  <2>4. NeutrinoFirst(r + 1) = NeutrinoFirst(r) + NeutrinoCount(r)
    BY <2>1, <2>3, NeutrinosOfRank
  <2>5. QED  BY <2>2, <2>4
<1>2. QED  BY <1>1, InductiveInvariant, PTL

\* BoundaryIsCeiling: ceil_partition_boundary, which never forms the product
\* side * part, equals its quotient rounded up, for every side and every part.
THEOREM BoundaryIsTheCeiling == Spec => []BoundaryIsCeiling
<1>1. IInv => BoundaryIsCeiling
  <2>1. SUFFICES ASSUME IInv, NEW part \in 0 .. NumRanks
                 PROVE  ceil_partition_boundary(job.side, part)
                          = CeilDiv(job.side * part, NumRanks)
    BY DEF BoundaryIsCeiling
  <2>2. job.side \in Nat /\ part \in Nat
    BY <2>1, RanksPositive, JobTypes DEF IInv, TypeOK
  <2>3. QED  BY <2>2, PartitionBoundary
<1>2. QED  BY <1>1, InductiveInvariant, PTL
\* NeutrinosFillCube, for every cube, number of ranks and rounding of the
\* boundaries: where the totals agree, the last boundary of FastDF is the end of
\* the cube, and no rank is past it.
THEOREM NeutrinosFillTheCube == Spec => []NeutrinosFillCube
<1>1. IInv /\ DeliveredInv => NeutrinosFillCube
  <2>1. SUFFICES ASSUME IInv, DeliveredInv, NEW r \in Rank, pc[r] = "delivered", job.side > 0
                 PROVE  /\ first[r][Neutrino] >= FirstID
                        /\ first[r][Neutrino] + made[r][Neutrino] <= FirstID + Cube(job.side)
    BY DEF NeutrinosFillCube
  <2>2. /\ job \in Jobs /\ job.side \in Nat /\ r \in Nat /\ r + 1 \in 0 .. NumRanks
        /\ NumRanks \in Nat \ {0} /\ FirstID \in Nat
    <3>1. job \in Jobs /\ job.side \in Nat /\ job.ngrid \in Nat
      BY <2>1, JobTypes DEF IInv, TypeOK
    <3>2. job.ngrid * job.ngrid * job.ngrid \in Nat
      BY <3>1
    <3> QED
      BY <3>1, <3>2, RanksPositive DEF Rank, FirstID, Cube
  <2>3. \A q \in Rank : /\ first[q][Neutrino] = NeutrinoFirst(q)
                        /\ made[q][Neutrino] = NeutrinoCount(q)
    BY <2>1 DEF DeliveredInv, AllAt, AfterNeutrinos
  <2> DEFINE B(k) == CubePlanes(fastdf_boundary(job.side, k))
             s == [k \in 0 .. NumRanks |-> B(k)]
             f == [q \in Rank |-> made[q][Neutrino]]
  <2>4. \A k \in Nat : /\ fastdf_boundary(job.side, k) \in Nat
                       /\ B(k) \in Nat /\ B(k) <= B(k + 1)
    BY <2>2, FastDFMonotone, CubePlanesMonotone
  <2>5. \A q \in Rank : B(q + 1) = B(q) + f[q]
    <3>1. SUFFICES ASSUME NEW q \in Rank PROVE B(q + 1) = B(q) + f[q]
      OBVIOUS
    <3>2. q \in Nat /\ q + 1 \in Nat
      BY <2>2 DEF Rank
    <3>3. B(q) \in Nat /\ B(q + 1) \in Nat
      BY <2>4, <3>2
    <3>4. /\ NeutrinoFirst(q) = FirstID + B(q) /\ NeutrinoCount(q) \in Nat
          /\ NeutrinoFirst(q) + NeutrinoCount(q) = FirstID + B(q + 1)
      BY <2>2, NeutrinosOfRank
    <3>5. f[q] = NeutrinoCount(q)
      BY <2>3
    <3> HIDE DEF B, f
    <3> QED
      BY <2>2, <3>3, <3>4, <3>5
  <2>6. B(0) = 0
    <3>1. job.side * 0 = 0
      BY <2>2
    <3>2. CeilDiv(0, NumRanks) = 0
      BY <2>2, CeilDivUnique
    <3>3. ~RoundsUp(job.side, 0)
      BY DEF RoundsUp
    <3>4. fastdf_boundary(job.side, 0) = 0
      BY <3>1, <3>2, <3>3 DEF fastdf_boundary
    <3> QED
      BY <2>2, <3>4 DEF CubePlanes
  <2>7. B(NumRanks) = Cube(job.side)
    <3>1. s \in [0 .. NumRanks -> Int] /\ s[0] = 0 /\ \A q \in Rank : s[q + 1] = s[q] + f[q]
      <4> HIDE DEF B, f
      <4>1. \A k \in 0 .. NumRanks : B(k) \in Int
        BY <2>2, <2>4
      <4>2. \A q \in Rank : q \in 0 .. NumRanks /\ q + 1 \in 0 .. NumRanks
        BY <2>2 DEF Rank
      <4>3. 0 \in 0 .. NumRanks
        BY <2>2
      <4> QED
        BY <2>5, <2>6, <4>1, <4>2, <4>3
    <3> HIDE DEF s, f
    <3>2. Sum(f) = s[NumRanks]
      BY <3>1, SumOfDifferences
    <3>3. Sum(f) = num_particles[Neutrino]
      BY <2>1 DEF DeliveredInv, Total, f
    <3> QED
      BY <2>2, <3>2, <3>3, TypesDiffer DEF num_particles, s
  <2>8. \A k \in 0 .. NumRanks : B(k) <= B(NumRanks)
    <3> DEFINE T == {k \in 0 .. NumRanks : \A l \in k .. NumRanks : B(l) <= B(NumRanks)}
               U == {n \in 0 .. NumRanks : NumRanks - n \notin T}
    <3> HIDE DEF B
    <3>1. SUFFICES ASSUME U # {} PROVE FALSE
      <4>1. SUFFICES ASSUME NEW k \in 0 .. NumRanks PROVE k \in T
        OBVIOUS
      <4>2. NumRanks - k \in 0 .. NumRanks /\ NumRanks - (NumRanks - k) = k
        BY <2>2
      <4> QED
        BY <3>1, <4>2
    <3>2. PICK n \in U : \A l \in U : n <= l
      <4>1. U \subseteq Nat
        BY <2>2
      <4> HIDE DEF U
      <4> QED
        BY <3>1, <4>1, LeastOf
    <3>3. n \in 0 .. NumRanks /\ NumRanks - n \notin T
      BY <3>2
    <3>4. n # 0
      <4>1. NumRanks \in T
        <5>1. NumRanks \in 0 .. NumRanks /\ \A l \in NumRanks .. NumRanks : l = NumRanks
          BY <2>2
        <5>2. B(NumRanks) <= B(NumRanks)
          BY <2>2, <2>4
        <5> QED
          BY <5>1, <5>2
      <4> QED
        BY <2>2, <3>3, <4>1
    <3>5. n - 1 \in 0 .. NumRanks /\ NumRanks - (n - 1) \in T
      <4>1. n - 1 \in 0 .. NumRanks /\ n - 1 \notin U
        BY <2>2, <3>2, <3>3, <3>4
      <4> QED
        BY <4>1
    <3>6. B(NumRanks - n) <= B(NumRanks - n + 1) /\ B(NumRanks - n + 1) <= B(NumRanks)
      BY <2>2, <2>4, <3>3, <3>4, <3>5
    <3> QED
      BY <2>2, <2>4, <3>3, <3>5, <3>6
  <2>9. /\ first[r][Neutrino] = FirstID + B(r)
        /\ first[r][Neutrino] + made[r][Neutrino] = FirstID + B(r + 1)
    BY <2>1, <2>2, <2>3, NeutrinosOfRank
  <2> HIDE DEF B
  <2> QED
    BY <2>2, <2>4, <2>7, <2>8, <2>9 DEF Cube
<1>2. Init => DeliveredInv
  BY DEF Init, DeliveredInv, AfterNeutrinos
<1> QED
  BY <1>1, <1>2, InitEstablishes, NextPreserves, DeliveredPreserved, PTL DEF Spec
=============================================================================
