---------------------------- MODULE MCParticleLoad ----------------------------
(***************************************************************************)
(* An instance of ParticleLoad for TLC.                                    *)
(***************************************************************************)
EXTENDS ParticleLoad

Make(load, n, ranks, baryons, mask, wide) ==
  [load |-> load, n |-> n, ranks |-> ranks, baryons |-> baryons, mask |-> mask,
   wide |-> wide]

\* Slabs of one plane (so that a cube spans two ranks), ranks without planes,
\* odd grids, every load and mask; short ids that fit and that do not.
MCConfigs ==
  {Make(load, n, r, b, 0, w) :
     load \in {"sc", "bcc", "fcc", "rsc"}, n \in {2, 3}, r \in 1..4,
     b \in BOOLEAN, w \in BOOLEAN}
  \cup {Make("masked", n, r, b, m, TRUE) :
          n \in {2, 3, 4}, r \in {1, 2, 4}, b \in BOOLEAN, m \in 0..3}
  \cup {Make("glass", 2, 2, FALSE, 0, TRUE)}
=============================================================================
