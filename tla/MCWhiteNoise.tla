----------------------------- MODULE MCWhiteNoise -----------------------------
(***************************************************************************)
(* An instance of WhiteNoise for TLC.                                      *)
(***************************************************************************)
EXTENDS WhiteNoise

\* One rank without MPI, with MPI one to three; three have one too many for
\* the planes of a grid of side 4.
Builds == {[mpi |-> FALSE, ranks |-> 1]} \cup {[mpi |-> TRUE, ranks |-> r] : r \in 1 .. 3}

Make(b, g, n, seeds, cube, base, least, constraint, small, flag) ==
  [generator |-> g, mpi |-> b.mpi, ranks |-> b.ranks, n |-> n, seeds |-> seeds, cubesize |-> cube,
   base |-> base, least |-> least, constraint |-> constraint, small |-> small,
   fixing |-> flag, inversion |-> ~flag]

\* NGENIC on two grids, with constraint fields coarser, equal and finer, and
\* every kind of neutrino grid.  MUSIC1 fills the grid of one rank only.
\* PANPHASIA with bases that give its own grid at least the size of the grid,
\* and once more with fixed amplitudes, which it refuses.
MCConfigs ==
  {Make(b, "NGENIC", n, {}, 1, 1, 0, constraint, small, TRUE) :
     b \in Builds, n \in {4}, constraint \in {0, 8}, small \in {-1, 0, 4, 6}}
  \cup {Make(b, "NGENIC", n, {}, 1, 1, 0, constraint, small, TRUE) :
          b \in Builds, n \in {6}, constraint \in {0, 4}, small \in {2, 4, 6}}
  \cup {Make(b, "MUSIC1", n, seeds, cube, 1, 0, constraint, -1, FALSE) :
          b \in {x \in Builds : x.ranks = 1}, n \in {4, 6, 8}, seeds \in SUBSET (1 .. 3),
          cube \in {2, 32}, constraint \in {0, 4}}
  \cup {Make(b, g, n, {}, 1, base, 6, 0, 4, FALSE) :
          b \in {x \in Builds : x.mpi}, g \in {"PANPHASIA", "PANPHASIA_HO"}, n \in {4, 6}, base \in {1, 3}}
  \cup {Make(b, g, 4, {}, 1, 1, 6, 0, 4, TRUE) :
          b \in {x \in Builds : x.mpi}, g \in {"PANPHASIA", "PANPHASIA_HO"}}
=============================================================================
