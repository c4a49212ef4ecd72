--------------------------- MODULE MCParticleShares ---------------------------
(***************************************************************************)
(* Instances of ParticleShares for TLC.                                    *)
(***************************************************************************)
EXTENDS ParticleShares

Load(n, k, b, m) == [ngrid |-> n, overload |-> k, baryons |-> b, side |-> m]

\* Fewer, as many and more planes than ranks, with every particle load; 29
\* and 58 are sides at which a boundary of FastDF is rounded up for 7 ranks.
MCJobs ==
  {Load(n, k, b, m) : n \in {2, 7, 9}, k \in {1, 4}, b \in BOOLEAN, m \in {0, 3, 14, 29}}
  \cup {Load(2, k, TRUE, 58) : k \in {2, 8}}

\* A neutrino cube of side 29, and one that follows a body-centred lattice.
RoundedJobs == {Load(2, 1, FALSE, 29)}
BodyCentredJobs == {Load(2, 2, FALSE, 2)}
=============================================================================
