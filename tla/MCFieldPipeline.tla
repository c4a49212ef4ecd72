--------------------------- MODULE MCFieldPipeline ---------------------------
(***************************************************************************)
(* An instance of FieldPipeline for TLC.                                   *)
(***************************************************************************)
EXTENDS FieldPipeline

Base ==
  [LPTorder |-> 3, odd |-> FALSE, DoBaryons |-> FALSE, DoBaryonVrel |-> FALSE,
   DoNeutrinoParticles |-> FALSE, NeutrinoGridRes |-> "zero",
   constrained |-> FALSE, tides |-> FALSE, DoNeutrinoPhi2Corr |-> FALSE,
   DoNeutrinoPhi3Corr |-> FALSE, DoDensityVelocityCorr |-> FALSE,
   format |-> "particles", FastDFFormat |-> TRUE, test |-> "none"]

\* Every order with every format and species, and the switches one by one.
MCConfigs ==
  {[Base EXCEPT !.LPTorder = n, !.DoBaryons = b, !.format = f,
                !.DoNeutrinoParticles = r # "zero", !.NeutrinoGridRes = r] :
     n \in 1..3, b \in BOOLEAN, r \in {"zero", "smaller"},
     f \in {"particles", "lagrangian", "eulerian", "grafic2"}}
  \cup {[Base EXCEPT !.LPTorder = n, !.odd = TRUE] : n \in 1..3}
  \cup {[Base EXCEPT !.LPTorder = n, !.DoBaryons = TRUE, !.DoBaryonVrel = v,
                     !.tides = t, !.DoDensityVelocityCorr = c, !.constrained = t,
                     !.format = "lagrangian"] :
          n \in 1..3, v \in BOOLEAN, t \in BOOLEAN, c \in BOOLEAN}
  \cup {[Base EXCEPT !.DoNeutrinoPhi2Corr = a, !.DoNeutrinoPhi3Corr = b, !.LPTorder = n] :
          a \in BOOLEAN, b \in BOOLEAN, n \in 2..3}
  \cup {[Base EXCEPT !.DoNeutrinoParticles = TRUE, !.NeutrinoGridRes = r,
                     !.FastDFFormat = x] :
          r \in {"zero", "same", "larger"}, x \in BOOLEAN}
  \cup {[Base EXCEPT !.test = t, !.format = f, !.DoBaryons = TRUE] :
          t \in {"white_noise", "potentials_and_densities", "convergence",
                 "velocity_displacement_symmetries", "unknown"},
          f \in {"particles", "eulerian", "grafic2"}}
=============================================================================
