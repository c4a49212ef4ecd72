-------------------------- MODULE MCSnapshotFiles --------------------------
(* Two and three ranks, some without particles or planes; every format.    *)
EXTENDS SnapshotFiles

Base == [format |-> "gadget_hdf5", ranks |-> 2, load |-> <<2, 1>>, nu |-> <<1, 2>>,
         planes |-> <<1, 1>>, baryons |-> FALSE, neutrinos |-> FALSE, sampled |-> FALSE,
         compatible |-> FALSE, stale |-> FALSE, fault |-> -1]
\* Shares of the ranks from 0 on.
Of(shares) == [r \in 0..(Len(shares) - 1) |-> shares[r + 1]]
Run(format, ranks, load, nu, planes) ==
  [Base EXCEPT !.format = format, !.ranks = ranks, !.load = Of(load), !.nu = Of(nu),
               !.planes = Of(planes)]
Two(format) == Run(format, 2, <<2, 1>>, <<1, 2>>, <<2, 1>>)
Three(format) == Run(format, 3, <<2, 0, 1>>, <<1, 1, 1>>, <<1, 1, 0>>)
One(format) == Run(format, 1, <<3>>, <<2>>, <<2>>)

MCConfigs ==
  {[Two(f) EXCEPT !.baryons = b, !.stale = TRUE] :
     f \in {"gadget_hdf5", "AREPO", "SWIFT", "generic", "grafic2", "genericio"}, b \in BOOLEAN}
  \cup {[Three(f) EXCEPT !.baryons = b] : f \in {"AREPO", "SWIFT", "generic", "grafic2"}, b \in BOOLEAN}
  \cup {[Three("gadget_hdf5") EXCEPT !.neutrinos = TRUE, !.fault = x] : x \in {-1, 0}}
  \cup {[Two("gadget_hdf5") EXCEPT !.neutrinos = TRUE, !.sampled = s, !.stale = TRUE,
                                  !.compatible = ~s, !.fault = x] :
          s \in BOOLEAN, x \in {-1, 1}}
  \cup {[Two(f) EXCEPT !.neutrinos = TRUE] :
          f \in {"AREPO", "SWIFT", "gadget_hdf5_double", "genericio"}}
  \cup {[One(f) EXCEPT !.neutrinos = TRUE, !.stale = TRUE] :
          f \in {"gadget_hdf5", "AREPO", "SWIFT"}}
  \cup {Run("SWIFT", 2, <<1, 0>>, <<1, 1>>, <<1, 1>>)}
=============================================================================
