------------------------- MODULE MCEmbeddedTransfer --------------------------
(***************************************************************************)
(* Instances of EmbeddedTransfer for TLC: the calls a host makes.          *)
(***************************************************************************)
EXTENDS EmbeddedTransfer

\* The first rank holds one particle of a type, the others none: an empty
\* slab on some ranks is what FFTW leaves when there are more ranks than
\* planes.
First == CHOOSE r \in Rank : TRUE
OneOnFirst == [r \in Rank |-> IF r = First THEN 1 ELSE 0]
OneEach == [r \in Rank |-> 1]
Nobody == [r \in Rank |-> 0]
NumRanks == SumFunction(OneEach)

\* Dark matter on every rank, the other species as selected.
Share(b, n) == [t \in Type |->
  CASE t = DM -> OneEach
    [] t = Baryon -> IF b THEN OneEach ELSE Nobody
    [] t = Neutrino -> IF n THEN OneOnFirst ELSE Nobody]
Announced(share) == [t \in Type |-> Sum(share[t])]

Generate(b, n, zw, reject) ==
  [kind |-> "generate", reject |-> reject, baryons |-> b, neutrinos |-> n,
   zwindstroom |-> zw, num |-> Announced(Share(b, n)),
   hint |-> Share(b, n), made |-> Share(b, n)]

Prepare(zw, reject) ==
  [Generate(FALSE, FALSE, zw, reject) EXCEPT !.kind = "prepare"]

\* Generators that produce something else than announced: a lattice, and a
\* FastDF run; and a rank that announces a share it does not have.
WrongLattice == [Generate(TRUE, FALSE, TRUE, "none") EXCEPT !.made[Baryon] = OneOnFirst]
WrongFastDF  == [Generate(FALSE, TRUE, TRUE, "none") EXCEPT !.made[Neutrino] = Nobody]
WrongHint    == [Generate(TRUE, TRUE, TRUE, "none") EXCEPT !.hint[DM] = OneOnFirst]

GoodJobs == {Generate(b, n, TRUE, "none") : b, n \in BOOLEAN} \cup {Prepare(TRUE, "none")}
RejectedJobs == {Generate(FALSE, TRUE, TRUE, why) : why \in Rejection \ {"none"}}
  \cup {Prepare(TRUE, why) : why \in {"args", "config", "setup"}}
WrongJobs == {WrongLattice, WrongFastDF, WrongHint,
              Generate(FALSE, FALSE, FALSE, "none"), Prepare(FALSE, "none")}

MCJobs == GoodJobs \cup RejectedJobs \cup WrongJobs
\* A host that reports errors as negative codes.
SignedCodes == {-1, 0}
SuccessfulJobs == {Generate(TRUE, TRUE, TRUE, "none")}
=============================================================================
