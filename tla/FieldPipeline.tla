---------------------------- MODULE FieldPipeline ----------------------------
(***************************************************************************)
(* The fields of one run of ic_generator::run: white noise, the Lagrangian *)
(* potentials up to third order, the diagnostics of the testing mode, and  *)
(* the fields every species is made of.  The program is sequential here    *)
(* (all ranks do the same on their planes); what can go wrong is the long  *)
(* protocol on a few shared grids: which of them is allocated, in which    *)
(* space its data are, what the data are, and what an earlier species or a *)
(* diagnostic left in them.                                                *)
(*                                                                         *)
(* The data of a grid are a symbolic expression: a combination, with       *)
(* integer coefficients, of monomials.  A monomial is a bag of fields      *)
(* multiplied point by point and a bag of factors that scale it (growth    *)
(* factors, transfer functions, derivatives; a divisor counts negative).   *)
(* Products are counted in sevenths, as the third order needs them.        *)
(***************************************************************************)
EXTENDS Integers, FiniteSets, FiniteSetsExt, Sequences, SequencesExt

CONSTANTS
  Configs          \* the run parameters explored

ASSUME ConfigsAssumption ==
  \A c \in Configs :
    /\ c.LPTorder \in Int /\ c.NeutrinoGridRes \in {"zero", "smaller", "same", "larger"}
    /\ {c.odd, c.DoBaryons, c.DoBaryonVrel, c.DoNeutrinoParticles, c.constrained, c.tides,
        c.DoNeutrinoPhi2Corr, c.DoNeutrinoPhi3Corr, c.DoDensityVelocityCorr,
        c.FastDFFormat} \subseteq BOOLEAN

VARIABLES
  cfg,             \* the parameters of this run
  at,              \* the block the driver runs after the current one
  code,            \* what is left of the current block
  sp,              \* position in species_list
  grid,            \* the grids: their state, space and data
  flaws,           \* what was read although it was not there
  out,             \* the fields handed to the output plugin
  scaled           \* the noise and the potentials when they were complete

vars == <<cfg, at, code, sp, grid, flaws, out, scaled>>

Dims == 0..2
Cyclic(i) == <<i, (i + 1) % 3, (i + 2) % 3>>
Axis ==
  [A3 |-> <<"A3x", "A3y", "A3z">>, p |-> <<"px", "py", "pz">>, v |-> <<"vx", "vy", "vz">>,
   d |-> <<"dx", "dy", "dz">>, alpha2 |-> <<"alpha2x", "alpha2y", "alpha2z">>]
X(v, i) == Axis[v][i + 1]
A3(i) == X("A3", i)

Potentials == {"phi", "phi2", "phi3"} \cup {A3(i) : i \in Dims}
Locals ==
  {"rho", "psi", "grad", "small", "copy", "delta", "delta2", "delta3",
   "inv", "speed", "norm", "ratio"}
  \cup {X(v, i) : v \in {"p", "v"}, i \in Dims}
Fields == {"wnoise", "tmp"} \cup Potentials \cup Locals

-----------------------------------------------------------------------------
(* Expressions.                                                            *)

At(p, x) == IF x \in DOMAIN p THEN p[x] ELSE 0
Reduced(p) == [x \in {y \in DOMAIN p : p[y] # 0} |-> p[x]]
Plus(p, q) ==
  Reduced([x \in DOMAIN p \cup DOMAIN q |-> At(p, x) + At(q, x)])
Opposite(p) == [x \in DOMAIN p |-> -p[x]]
Multiple(c, p) == Reduced([x \in DOMAIN p |-> c * p[x]])
Nothing == [x \in {} |-> 0]
One(x) == [y \in {x} |-> 1]
Per(x) == Opposite(One(x))
BagOf(s) == FoldLeft(LAMBDA b, x : Plus(b, One(x)), Nothing, s)

Monomial(h, by) == [h |-> h, by |-> by]
Scaled(p, by) ==
  [m \in {Monomial(x.h, Plus(x.by, by)) : x \in DOMAIN p} |->
     p[Monomial(m.h, Plus(m.by, Opposite(by)))]]

\* A field that is an expression of other fields, point by point: a second
\* derivative, a gradient, a nonlinear function.
Symbol(name, args, d) == [name |-> name, args |-> args, d |-> d]
Atom(name, args, d) == One(Monomial(One(Symbol(name, args, d)), Nothing))
Hess(p, i, j) == Symbol("hessian", <<p>>, {i, j})

Garbage == Atom("garbage", <<>>, {})

\* The product of two sums of fields.
TimesPoly(p, q) ==
  LET Of(x, y) == Monomial(Plus(x.h, y.h), Plus(x.by, y.by))
  IN FoldSet(LAMBDA e, r : Plus(r, [m \in {Of(e[1], e[2])} |-> p[e[1]] * q[e[2]]]),
             Nothing, (DOMAIN p) \X (DOMAIN q))

-----------------------------------------------------------------------------
(* The operations of Grid_FFT and of the convolvers, as instructions.      *)

\* A grid is not allocated ("off"), allocated and not filled ("empty"), filled,
\* or filled with data that are infinite at k = 0.
Grid(state, space, data) == [state |-> state, space |-> space, data |-> data]
Off == Grid("off", "r", Garbage)
Allocated == Grid("empty", "r", Garbage)

New(g)        == [op |-> "new", g |-> g]
Drop(gs)      == [op |-> "drop", gs |-> gs]
Forward(g)    == [op |-> "ft", g |-> g, to |-> "k", do |-> TRUE]
Backward(g)   == [op |-> "ft", g |-> g, to |-> "r", do |-> TRUE]
Declare(g, s) == [op |-> "ft", g |-> g, to |-> s, do |-> FALSE]
\* g := (or +=) a linear combination of grids read in the same space; "dc"
\* says that every factor is finite at k = 0.
Combine(g, space, terms, add, dc) ==
  [op |-> "combine", g |-> g, space |-> space, terms |-> terms,
   add |-> add, dc |-> dc]
Term(of, c, by) == [of |-> of, c |-> c, by |-> by]
Times(g, by)  == [op |-> "times", g |-> g, by |-> by]
ZeroDC(g)     == [op |-> "zero_DC_mode", g |-> g]
\* g := a nonlinear function of grids in real space.
Apply(g, name, reads) == [op |-> "apply", g |-> g, name |-> name, reads |-> reads]
Copy(g, from) == [op |-> "copy", g |-> g, from |-> from]
\* g := (or +=) c * the convolution of derivatives of grids.
Convolve(g, parts, c, add) ==
  [op |-> "convolve", g |-> g, parts |-> parts, c |-> c, add |-> add]
Deriv(of, kind, ds) == [of |-> of, kind |-> kind, ds |-> ds]
Hessian(of, i, j) == Deriv(of, "hessian", <<<<1, {i, j}>>>>)
SumOfHessians(of, i, j) == Deriv(of, "hessian", <<<<1, {i}>>, <<1, {j}>>>>)
\* Mutant: the second term is added.
DifferenceOfHessians_Sum(of, i, j) == SumOfHessians(of, i, j)
DifferenceOfHessians(of, i, j) == Deriv(of, "hessian", <<<<1, {i}>>, <<-1, {j}>>>>)
Gradient(of, i) == Deriv(of, "gradient", <<<<1, {i}>>>>)
\* The grid goes to the output plugin, or to a diagnostic file.
Give(g, what) == [op |-> "give", g |-> g, what |-> what]
File(g)       == [op |-> "file", g |-> g, space |-> "r"]
Write_PowerSpectrum(g) == [op |-> "file", g |-> g, space |-> "k"]

\* Mutant: the value at k = 0 is left as it is.
apply_InverseLaplacian_KeepDC(g) ==
  <<Forward(g), Combine(g, "k", <<Term(g, 1, Per("laplacian"))>>, FALSE, FALSE)>>

apply_InverseLaplacian(g) ==
  <<Forward(g),
    Combine(g, "k", <<Term(g, 1, Per("laplacian"))>>, FALSE, FALSE),
    ZeroDC(g)>>

\* What is wrong with reading grid g as data of the given space.
ReadFlaws(s, g, space) ==
  {<<g, k>> : k \in {x \in {"unallocated", "space", "undefined", "infinite"} :
     \/ x = "unallocated" /\ s.grid[g].state = "off"
     \/ x = "space" /\ s.grid[g].state # "off" /\ s.grid[g].space # space
     \/ x = "undefined" /\ s.grid[g].state = "empty"
     \/ x = "infinite" /\ s.grid[g].state = "infinite"}}
WriteFlaws(s, g, space) == ReadFlaws(s, g, space) \cap {<<g, "unallocated">>, <<g, "space">>}

\* The grids after an instruction, and what it read that was not there.
After(s, grids, new) == [s EXCEPT !.grid = grids, !.flaws = @ \cup new]

Put(s, g, space, data, state, new) ==
  After(s, [s.grid EXCEPT ![g] = Grid(IF @.state = "off" THEN "off" ELSE state, space, data)], new)

\* The grids gs are transformed, or only declared to be in the other space.
FourierTransform(s, gs, to, do) ==
  LET Turned(x) ==
        IF x.space = to THEN x
        ELSE Grid(IF do \/ x.state = "off" THEN x.state ELSE "empty", to,
                  IF do THEN x.data ELSE Garbage)
      read == {x \in gs : do /\ s.grid[x].space # to}
  IN After(s, [g \in Fields |-> IF g \in gs THEN Turned(s.grid[g]) ELSE s.grid[g]],
           UNION {ReadFlaws(s, g, s.grid[g].space) \cap {<<g, "unallocated">>, <<g, "infinite">>} :
                  g \in read})

\* The grids that terms of a combination or of a convolution are made of.
Sources(terms) == {terms[i].of : i \in DOMAIN terms}

Combination(s, c) ==
  LET Value(t) == Multiple(t.c, Scaled(s.grid[t.of].data, t.by))
  IN FoldLeft(LAMBDA p, t : Plus(p, Value(t)),
              IF c.add THEN s.grid[c.g].data ELSE Nothing, c.terms)

DoCombine(s, c) ==
  LET Used == Sources(c.terms) \cup (IF c.add THEN {c.g} ELSE {})
      old == UNION {ReadFlaws(s, g, c.space) : g \in Used}
  IN Put(s, c.g, s.grid[c.g].space, Combination(s, c),
         IF \E g \in Used : s.grid[g].state \in {"off", "empty"} THEN "empty"
         ELSE IF c.dc /\ \A g \in Used : s.grid[g].state = "filled" THEN "filled"
         ELSE "infinite",
         WriteFlaws(s, c.g, c.space) \cup {f \in old : f[2] # "infinite"})

Convolution(s, c) ==
  LET Value(p) == FoldLeft(LAMBDA q, d :
                             Plus(q, Multiple(d[1],
                               Atom(p.kind, <<s.grid[p.of].data>>, d[2]))),
                           Nothing, p.ds)
      product == FoldLeft(LAMBDA q, p : TimesPoly(q, Value(p)),
                          One(Monomial(Nothing, Nothing)), c.parts)
  IN Plus(IF c.add THEN s.grid[c.g].data ELSE Nothing, Multiple(c.c, product))

\* The convolvers transform their inputs forward first.
DoConvolve(s, c) ==
  LET ins == FourierTransform(s, Sources(c.parts), "k", TRUE)
  IN Put(ins, c.g, ins.grid[c.g].space, Convolution(ins, c), "filled",
         UNION {ReadFlaws(ins, g, "k") : g \in Sources(c.parts)}
           \cup (IF c.add THEN ReadFlaws(ins, c.g, "k") ELSE WriteFlaws(ins, c.g, "k")))

DoApply(s, c) ==
  Put(s, c.g, s.grid[c.g].space,
      Atom(c.name, [i \in DOMAIN c.reads |-> s.grid[c.reads[i]].data], {}), "filled",
      WriteFlaws(s, c.g, "r") \cup UNION {ReadFlaws(s, g, "r") : g \in Range(c.reads)})

Exec(s, c) ==
  LET g == s.grid[c.g] IN
  CASE c.op = "new" -> After(s, [s.grid EXCEPT ![c.g] = Allocated], {})
    [] c.op = "drop" ->
         After(s, [x \in Fields |-> IF x \in c.gs THEN Off ELSE s.grid[x]], {})
    [] c.op = "ft" -> FourierTransform(s, {c.g}, c.to, c.do)
    [] c.op = "combine" -> DoCombine(s, c)
    [] c.op = "convolve" -> DoConvolve(s, c)
    [] c.op = "apply" -> DoApply(s, c)
    [] c.op = "times" ->
         Put(s, c.g, g.space, Scaled(g.data, c.by), g.state,
             {f \in ReadFlaws(s, c.g, g.space) : f[2] # "infinite"})
    [] c.op = "zero_DC_mode" ->
         Put(s, c.g, g.space, g.data, IF g.state = "infinite" THEN "filled" ELSE g.state,
             WriteFlaws(s, c.g, "k"))
    [] c.op = "copy" ->
         LET from == s.grid[c.from]
         IN Put(s, c.g, from.space, from.data, from.state,
                WriteFlaws(s, c.g, g.space) \cup ReadFlaws(s, c.from, from.space))
    [] c.op = "give" ->
         [After(s, s.grid, ReadFlaws(s, c.g, "r")) EXCEPT
            !.out = Append(@, [sp |-> s.sp, what |-> c.what, data |-> g.data])]
    [] c.op = "file" ->
         LET t == IF c.space = "k" THEN FourierTransform(s, {c.g}, "k", TRUE) ELSE s
         IN After(t, t.grid, ReadFlaws(t, c.g, c.space))

-----------------------------------------------------------------------------
(* The run parameters and what follows from them.                          *)

species_list == <<"dm">> \o (IF cfg.DoBaryons THEN <<"baryon">> ELSE <<>>)
                        \o (IF cfg.DoNeutrinoParticles THEN <<"neutrino">> ELSE <<>>)
this_species == IF sp \in DOMAIN species_list THEN species_list[sp] ELSE "none"

AddExternalTides == cfg.tides /\ cfg.LPTorder # 1

write_species_as(s) ==
  CASE cfg.format = "particles" -> "particles"
    [] cfg.format = "eulerian" -> "field_eulerian"
    [] cfg.format = "grafic2" /\ s = "baryon" -> "field_eulerian"
    [] OTHER -> "field_lagrangian"

\* Mutant: only particles are displaced.
LagrangianSpecies_Particles ==
  /\ this_species # "neutrino"
  /\ write_species_as(this_species) = "particles"

LagrangianSpecies ==
  /\ this_species # "neutrino"
  /\ write_species_as(this_species) \in {"particles", "field_lagrangian"}

When(b, instructions) == IF b THEN instructions ELSE <<>>
ForDims(Body(_)) == Body(0) \o Body(1) \o Body(2)

\* A block is entered when the one before it has run; its instructions run
\* one by one.
Block(instructions) ==
  /\ code = <<>> /\ code' = instructions
  /\ UNCHANGED <<cfg, grid, flaws, out>>
Execute ==
  LET s == Exec([grid |-> grid, flaws |-> flaws, out |-> out,
                 sp |-> this_species],
                Head(code))
  IN /\ code # <<>> /\ code' = Tail(code)
     /\ grid' = s.grid /\ flaws' = s.flaws /\ out' = s.out
     /\ UNCHANGED <<cfg, at, sp, scaled>>

Init ==
  /\ cfg \in Configs /\ at = "start" /\ sp = 1
  /\ grid = [g \in Fields |-> Off]
  /\ flaws = {} /\ out = <<>> /\ code = <<>>
  /\ scaled = [g \in Potentials \cup {"wnoise"} |-> Nothing]

Go(from, to) == at = from /\ at' = to
Throw == at' = "thrown"

-----------------------------------------------------------------------------
(* From the white noise to the potentials.                                 *)

\* The grid must be even beyond first order; then the noise is drawn.
DrawNoise ==
  <<New("wnoise"), Apply("wnoise", "white noise", <<>>), Forward("wnoise"), New("phi"), New("tmp")>>

Fill_Grid ==
  /\ at = "start"
  /\ IF cfg.odd /\ cfg.LPTorder > 1
       THEN Throw /\ Block(<<>>)
       ELSE at' = "noise" /\ Block(DrawNoise)
  /\ UNCHANGED <<sp, scaled>>

\* Constrained modes replace some of the noise; fixing, inversion and the
\* normalisation apply to every mode.
ConstrainedNoise ==
  <<New("copy"), Apply("copy", "constraints", <<>>), Forward("copy"),
    Combine("wnoise", "k", <<Term("wnoise", 1, One("free modes")),
                             Term("copy", 1, One("constrained modes"))>>,
            FALSE, TRUE),
    Drop({"copy"})>>

NormaliseNoise ==
  /\ Go("noise", "export")
  /\ Block(When(cfg.constrained, ConstrainedNoise)
           \o <<Combine("wnoise", "k", <<Term("wnoise", 1, Per("volfac"))>>, FALSE, TRUE)>>)
  /\ UNCHANGED <<sp, scaled>>

\* The noise for FastDF: as it is, or downsampled; never upsampled.
NoiseAsItIs == <<Backward("wnoise"), File("wnoise"), Forward("wnoise")>>
SmallerNoise ==
  <<New("small"), Forward("small"),
    Combine("small", "k", <<Term("wnoise", 1, One("low modes"))>>, FALSE, TRUE),
    Times("small", Plus(One("volfac"), Per("volfac_small"))),
    Backward("small"), New("copy"), Copy("copy", "small"), File("copy"), Drop({"small", "copy"})>>

ExportNoise ==
  /\ at = "export"
  /\ IF cfg.DoNeutrinoParticles /\ cfg.NeutrinoGridRes \in {"zero", "larger"}
       THEN Throw /\ Block(<<>>)
       ELSE /\ at' = "phi"
            /\ Block(When(cfg.DoNeutrinoParticles,
                          CASE cfg.NeutrinoGridRes = "same" -> NoiseAsItIs
                            [] cfg.NeutrinoGridRes = "smaller" -> SmallerNoise))
  /\ UNCHANGED <<sp, scaled>>

\* phi = - delta / k^2
FirstOrder ==
  <<Declare("phi", "k"),
    Combine("phi", "k", <<Term("wnoise", 1, Plus(One("delta_matter"), Per("laplacian")))>>,
            FALSE, FALSE),
    ZeroDC("phi")>>

Phi1 ==
  /\ Go("phi", "phi2")
  /\ Block(FirstOrder)
  /\ UNCHANGED <<sp, scaled>>

\* The 00(11+22) term assigns, the others add; the external tides come in
\* before the inverse Laplacian, the neutrino factor after it.
MinorTerms ==
  LET Square(i, j) == Convolve("phi2", <<Hessian("phi", i, j), Hessian("phi", i, j)>>, -7, TRUE)
  IN <<New("phi2"), Declare("phi2", "k"),
       Convolve("phi2", <<Hessian("phi", 0, 0), SumOfHessians("phi", 1, 2)>>, 7, FALSE),
       Convolve("phi2", <<Hessian("phi", 1, 1), Hessian("phi", 2, 2)>>, 7, TRUE),
       Square(0, 1), Square(0, 2), Square(1, 2)>>
SecondOrder ==
  MinorTerms
  \o When(AddExternalTides,
          <<Combine("phi2", "k", <<Term("phi", -1, One("tides"))>>, TRUE, TRUE)>>)
  \o apply_InverseLaplacian("phi2")
  \o When(cfg.DoNeutrinoPhi2Corr, <<Times("phi2", One("C_2"))>>)

Phi2 ==
  /\ Go("phi2", "phi3")
  /\ Block(When(cfg.LPTorder > 1, SecondOrder))
  /\ UNCHANGED <<sp, scaled>>

\* The determinant term, the mixed term, and the transversal potential.
\* The neutrino factor C_1 multiplies the first and is divided out later.
DeterminantTerm ==
  LET Three(a, b, c, coef, add) == Convolve("phi3", <<a, b, c>>, coef, add)
      H(i, j) == Hessian("phi", i, j)
  IN <<New("phi3"), Declare("phi3", "k"),
       Three(H(0, 0), H(1, 1), H(2, 2), 7, FALSE),
       Three(H(0, 1), H(0, 2), H(1, 2), 14, TRUE),
       Three(H(1, 2), H(1, 2), H(0, 0), -7, TRUE),
       Three(H(0, 2), H(0, 2), H(1, 1), -7, TRUE),
       Three(H(0, 1), H(0, 1), H(2, 2), -7, TRUE)>>
MixedTerm ==
  LET Mixed(i, j, k) ==
        Convolve("phi3", <<Hessian("phi", i, i), SumOfHessians("phi2", j, k)>>, -5, TRUE)
      Cross(i, j) ==
        Convolve("phi3", <<Hessian("phi", i, j), Hessian("phi2", i, j)>>, 10, TRUE)
  IN <<Mixed(0, 1, 2), Mixed(1, 2, 0), Mixed(2, 0, 1), Cross(0, 1), Cross(0, 2), Cross(1, 2)>>
CurlTerms(i) ==
  LET p == Cyclic(i)[2]  pp == Cyclic(i)[3]
      Pair(a, b, c, add) == Convolve(A3(i), <<a, b>>, c, add)
  IN <<New(A3(i)), Declare(A3(i), "k"),
       Pair(Hessian("phi2", i, p), Hessian("phi", i, pp), 7, FALSE),
       Pair(Hessian("phi2", i, pp), Hessian("phi", i, p), -7, TRUE),
       Pair(Hessian("phi", p, pp), DifferenceOfHessians("phi2", p, pp), 7, TRUE),
       Pair(Hessian("phi2", p, pp), DifferenceOfHessians("phi", p, pp), -7, TRUE)>>
Transversal(i) == CurlTerms(i) \o apply_InverseLaplacian(A3(i))
ThirdOrder ==
  DeterminantTerm \o When(cfg.DoNeutrinoPhi3Corr, <<Times("phi3", One("C_1"))>>)
  \o MixedTerm \o apply_InverseLaplacian("phi3")
  \o ForDims(Transversal)
  \o When(cfg.DoNeutrinoPhi3Corr, <<Times("phi3", Plus(One("C_3"), Per("C_1")))>>)

Phi3 ==
  /\ Go("phi3", "scale")
  /\ Block(When(cfg.LPTorder > 2, ThirdOrder))
  /\ UNCHANGED <<sp, scaled>>

\* All potentials are scaled with their growth factors, once.
Scaling ==
  LET Transversals(i) == <<Times(A3(i), One("g3c"))>>
  IN <<Times("phi", One("g1"))>>
     \o When(cfg.LPTorder > 1, <<Times("phi2", One("g2"))>>)
     \o When(cfg.LPTorder > 2, <<Times("phi3", One("g3"))>> \o ForDims(Transversals))

ScalePotentials ==
  /\ Go("scale", "test")
  /\ Block(Scaling)
  /\ UNCHANGED <<sp, scaled>>

-----------------------------------------------------------------------------
(* The displacement and the velocity of one direction.  At lower orders    *)
(* the higher potentials are not read.                                     *)

\* The gradient of the potentials plus the curl of the transversal one;
\* weigh says how much a term of each order counts.
OrderTerms(n, i, c, by) ==
  LET d(j) == Plus(by, One(X("d", j)))
      p == Cyclic(i)[2]  pp == Cyclic(i)[3]
  IN CASE n = 1 -> <<Term("phi", c, d(i))>>
       [] n = 2 -> <<Term("phi2", c, d(i))>>
       [] n = 3 -> <<Term("phi3", c, d(i)), Term(A3(pp), c, d(p)), Term(A3(p), -c, d(pp))>>
LPTTerms(i, order, weigh, by) ==
  OrderTerms(1, i, weigh[1], by)
  \o When(order > 1, OrderTerms(2, i, weigh[2], by))
  \o When(order > 2, OrderTerms(3, i, weigh[3], by))
Same == [n \in 1..3 |-> 1]
TimesOrder == [n \in 1..3 |-> n]

-----------------------------------------------------------------------------
(* The diagnostics of the testing mode.  They take the grids by reference. *)

test_white_noise ==
  <<New("copy"), Declare("copy", "k"),
    Combine("copy", "k", <<Term("wnoise", 1, Nothing)>>, FALSE, TRUE),
    Write_PowerSpectrum("copy"), Backward("copy"), File("copy"), Drop({"copy"})>>

\* The densities of the three orders, and the potentials they are of.
Each(Body(_, _)) == Body("delta", "phi") \o Body("delta2", "phi2") \o Body("delta3", "phi3")
test_potentials_and_densities ==
  LET Declared(d, p) == <<New(d), Declare(d, "k")>>
      Density(d, p) == <<Combine(d, "k", <<Term(p, 1, One("laplacian"))>>, FALSE, TRUE)>>
      Spectrum(d, p) == <<Write_PowerSpectrum(d)>>
      PotentialBack(d, p) == <<Backward(p)>>
      DensityBack(d, p) == <<Backward(d)>>
      TransversalBack(i) == <<Backward(A3(i))>>
      PotentialFile(d, p) == <<File(p)>>
      DensityFile(d, p) == <<File(d)>>
      TransversalFile(i) == <<File(A3(i))>>
  IN Each(Declared) \o Each(Density) \o Each(Spectrum)
     \o Each(PotentialBack) \o Each(DensityBack) \o ForDims(TransversalBack)
     \o Each(PotentialFile) \o Each(DensityFile) \o ForDims(TransversalFile)
     \o <<Drop({"delta", "delta2", "delta3"})>>

\* Displacements and velocities of third order, and the vorticity invariant
\* built from them by convolutions.  The fields go to the file in real space.
VectorPair(i) ==
  <<New(X("p", i)), New(X("v", i)), Declare(X("p", i), "k"), Declare(X("v", i), "k"),
    Combine(X("p", i), "k", LPTTerms(i, 3, Same, Nothing), FALSE, TRUE),
    Combine(X("v", i), "k", LPTTerms(i, 3, TimesOrder, One("vfac")), FALSE, TRUE),
    Backward(X("p", i)), Backward(X("v", i))>>
\* Adds c * the products of the gradients along a and b.
Products(a, b, c) ==
  LET Product(l) ==
        <<Convolve("inv", <<Gradient(X("p", l), a), Gradient(X("v", l), b)>>, c, TRUE)>>
  IN ForDims(Product)
Invariant(i) ==
  LET p == Cyclic(i)[2]
  IN <<Declare("inv", "k"),
       Combine("inv", "k", <<Term(X("v", i), 1, One(X("d", p))),
                             Term(X("v", p), -1, One(X("d", i)))>>, FALSE, TRUE)>>
     \o Products(i, p, 7) \o Products(p, i, -7)
     \o <<Backward("inv"), File("inv")>>
test_velocity_displacement_symmetries ==
  LET Files(i) == <<File(X("p", i)), File(X("v", i))>>
      Back(i) == <<Forward(X("p", i)), Forward(X("v", i))>>
  IN ForDims(VectorPair) \o ForDims(Files)
     \o ForDims(Back) \o <<New("inv")>> \o ForDims(Invariant)
     \o <<Drop({"inv"} \cup {X(v, i) : v \in {"p", "v"}, i \in Dims})>>

\* Divides the growth out of the potentials themselves, and finds the time
\* of the first shell crossing from the gradient of the velocity.
Unscaling ==
  LET Unscaled(g, n) == Times(g, [x \in {"Dplus"} |-> -n])
      Transversals(i) == <<Unscaled(A3(i), 3)>>
  IN <<Unscaled("phi", 1), Unscaled("phi2", 2), Unscaled("phi3", 3)>> \o ForDims(Transversals)
ShellCrossing ==
  <<New("copy"), Declare("copy", "k"),
    Combine("copy", "k", <<Term("phi", -1, Nothing)>>, FALSE, TRUE),
    New("speed"), Declare("speed", "k"),
    Combine("speed", "k", <<Term("copy", 1, One("second derivatives"))>>, FALSE, TRUE),
    Backward("speed"), Times("speed", One("growth today")),
    New("norm"), Apply("norm", "shell crossing time", <<"speed">>)>>

\* The norms of the displacement of every order, and the radius of
\* convergence from their ratios.
Shift(i, n) ==
  <<New(X("p", i)), Declare(X("p", i), "k"),
    Combine(X("p", i), "k", OrderTerms(n, i, 1, Nothing), FALSE, TRUE),
    Backward(X("p", i))>>
Norm(n, name) ==
  Shift(0, n) \o Shift(1, n) \o Shift(2, n)
  \o <<New(name), Apply(name, "norm", <<X("p", 0), X("p", 1), X("p", 2)>>)>>
ConvergenceRadius ==
  Norm(1, "delta") \o Norm(2, "delta2") \o Norm(3, "delta3")
  \o <<New("ratio"), Apply("ratio", "inverse radius", <<"delta", "delta2", "delta3">>),
       File("norm"), File("ratio"), Drop(Locals)>>

RunTest ==
  /\ at = "test"
  /\ at' = IF cfg.test = "unknown" THEN "aborted" ELSE "species"
  /\ Block(CASE cfg.test = "white_noise" -> test_white_noise
             [] cfg.test = "potentials_and_densities" -> test_potentials_and_densities
             [] cfg.test = "velocity_displacement_symmetries" ->
                  test_velocity_displacement_symmetries
             [] cfg.test = "convergence" -> Unscaling \o ShellCrossing \o ConvergenceRadius
             [] OTHER -> <<>>)
  /\ scaled' = [g \in Potentials \cup {"wnoise"} |->
                IF grid[g].state # "off" THEN grid[g].data ELSE Nothing]
  /\ UNCHANGED sp

-----------------------------------------------------------------------------
(* The species loop.                                                       *)

NextSpecies ==
  /\ at = "species"
  /\ at' = IF sp > Len(species_list) THEN "done" ELSE "masses"
  /\ Block(<<>>)
  /\ UNCHANGED <<sp, scaled>>

\* The density contrast between the species, in real space.
\* Mutant: computed in the noise field itself.
SpeciesDensity_InPlace(name) ==
  <<Forward("wnoise"), Combine("wnoise", "k", <<Term("wnoise", 1, One("delta_bc"))>>, FALSE, TRUE),
    ZeroDC("wnoise"), New("rho"), Copy("rho", "wnoise"), Backward("rho"),
    Apply("rho", name, <<"rho">>)>>
SpeciesDensity(name) ==
  <<New("rho"), Forward("wnoise"), Declare("rho", "k"),
    Combine("rho", "k", <<Term("wnoise", 1, One("delta_bc"))>>, FALSE, TRUE),
    ZeroDC("rho"), Backward("rho"), Apply("rho", name, <<"rho">>)>>
ByName(name) == name \o " of " \o this_species

Masses ==
  /\ Go("masses", "eulerian")
  /\ Block(When(cfg.DoBaryons /\ LagrangianSpecies,
                SpeciesDensity(ByName("mass")) \o <<Give("rho", "mass"), Drop({"rho"})>>))
  /\ UNCHANGED <<sp, scaled>>

\* The wave function of the potentials; its density and its current.
Current(i) ==
  <<Declare("grad", "r"), Copy("grad", "psi"), Forward("grad"),
    Combine("grad", "k", <<Term("grad", 1, One(X("d", i)))>>, FALSE, TRUE),
    Backward("grad"), Declare("tmp", "r"),
    Apply("tmp", "current", <<"psi", "grad", "rho">>), Give("tmp", X("v", i))>>
EulerianBlock ==
  LET second == cfg.LPTorder >= 2
  IN <<New("psi")>> \o SpeciesDensity(ByName("root"))
     \o <<Backward("phi"), File("phi")>>
     \o (IF second THEN <<Backward("phi2"), Apply("psi", "wave", <<"phi", "phi2", "rho">>)>>
                   ELSE <<Apply("psi", "wave", <<"phi", "rho">>)>>)
     \o <<Forward("psi"), Combine("psi", "k", <<Term("psi", 1, One("drift"))>>, FALSE, TRUE),
          Backward("psi")>>
     \o When(second, <<Apply("psi", "kick", <<"psi", "phi2">>)>>)
     \o <<Apply("rho", "modulus", <<"psi">>), Give("rho", "density"),
          Write_PowerSpectrum("rho"), Backward("rho"), New("grad")>>
     \o ForDims(Current) \o <<Drop({"psi", "rho", "grad"})>>

Eulerian ==
  /\ Go("eulerian", "displace")
  /\ Block(When(write_species_as(this_species) = "field_eulerian", EulerianBlock))
  /\ UNCHANGED <<sp, scaled>>

\* What a species is displaced with is brought to Fourier space.
PotentialsForward ==
  LET Transversals(i) == <<Forward(A3(i))>>
  IN <<Forward("phi")>>
     \o When(cfg.LPTorder > 1, <<Forward("phi2")>>)
     \o When(cfg.LPTorder > 2, <<Forward("phi3")>> \o ForDims(Transversals))
     \o <<Forward("wnoise")>>

\* The gradient of the potentials in one direction, through tmp.
Displacement(i) ==
  <<Declare("tmp", "k"),
    Combine("tmp", "k", LPTTerms(i, cfg.LPTorder, Same, Nothing), FALSE, TRUE),
    ZeroDC("tmp"), Backward("tmp"), Give("tmp", X("d", i))>>

\* Mutant: the potentials are taken as the last reader left them.
Displace_AsLeft ==
  /\ Go("displace", "move")
  /\ Block(When(LagrangianSpecies, ForDims(Displacement)))
  /\ UNCHANGED <<sp, scaled>>
Displace ==
  /\ Go("displace", "move")
  /\ Block(When(LagrangianSpecies, PotentialsForward \o ForDims(Displacement)))
  /\ UNCHANGED <<sp, scaled>>

\* Every order n counts n times the growth rate; the relative velocity of
\* the species and the velocity correction are taken from the noise, the
\* tides stretch the sum.
Velocity(i) ==
  LET FromNoise(c, name) ==
        Term("wnoise", c, Plus(BagOf(<<"vfac", name, X("d", i)>>), Per("k2")))
      relative == cfg.DoBaryons /\ cfg.DoBaryonVrel
  IN <<Declare("tmp", "k"),
       Combine("tmp", "k",
         LPTTerms(i, cfg.LPTorder, TimesOrder, One("vfac"))
         \o When(relative, <<FromNoise(-1, ByName("theta_bc"))>>)
         \o When(cfg.DoDensityVelocityCorr, <<FromNoise(1, "theta_delta_m")>>),
         FALSE, ~relative /\ ~cfg.DoDensityVelocityCorr)>>
     \o When(AddExternalTides, <<Times("tmp", One(X("alpha2", i)))>>)
     \o <<ZeroDC("tmp"), Backward("tmp"), Give("tmp", X("v", i))>>

Velocities ==
  /\ Go("move", "deliver")
  /\ Block(When(LagrangianSpecies, ForDims(Velocity)))
  /\ UNCHANGED <<sp, scaled>>

\* Field formats get the first-order density too.
Deliver ==
  /\ Go("deliver", "neutrinos")
  /\ Block(When(LagrangianSpecies /\ write_species_as(this_species) = "field_lagrangian",
       <<Forward("phi"), Declare("tmp", "k"),
         Combine("tmp", "k", <<Term("phi", 1, One("laplacian"))>>, FALSE, TRUE),
         Write_PowerSpectrum("tmp"), Backward("tmp"), Give("tmp", "density")>>))
  /\ UNCHANGED <<sp, scaled>>

\* FastDF makes the neutrino particles, in the formats it knows.
Neutrinos ==
  LET wanted == this_species = "neutrino" /\ write_species_as(this_species) = "particles"
  IN
  /\ at = "neutrinos" /\ code = <<>>
  /\ IF wanted /\ ~cfg.FastDFFormat
       THEN Throw /\ UNCHANGED <<sp, out>>
       ELSE /\ at' = "species" /\ sp' = sp + 1
            /\ out' = IF wanted
                        THEN Append(out, [sp |-> "neutrino", what |-> "particles",
                                          data |-> Nothing])
                        ELSE out
  /\ UNCHANGED <<cfg, code, grid, flaws, scaled>>

Next ==
  \/ Execute
  \/ Fill_Grid \/ NormaliseNoise \/ ExportNoise
  \/ Phi1 \/ Phi2 \/ Phi3 \/ ScalePotentials \/ RunTest
  \/ NextSpecies \/ Masses \/ Eulerian \/ Displace \/ Velocities \/ Deliver \/ Neutrinos

Spec == Init /\ [][Next]_vars

-----------------------------------------------------------------------------
(* Properties.                                                             *)

\* The diagnostics of the potentials read all of them, allocated or not.
TestsThirdOrder ==
  cfg.test \in {"potentials_and_densities", "velocity_displacement_symmetries", "convergence"}
    => cfg.LPTorder > 2

\* Whatever the parameters, no block of ic_generator::run, no diagnostic and
\* no plugin reads a grid that is not allocated, is in the other space, or
\* was only declared to be in this space and never filled: the spaces that
\* one block leaves behind are those the next one expects.
ReadsAreDefined == \A f \in flaws : f[2] = "infinite"

\* The value at k = 0, which the divisions by k^2 make infinite, is cleared
\* before the field is transformed, convolved or delivered.
MeansAreFinite == \A f \in flaws : f[2] # "infinite"

(* The reference for the potentials: minors and determinant of the matrix  *)
(* of second derivatives, and the curl of the mixed products.              *)
Sum(S, Of(_)) == FoldSet(LAMBDA x, p : Plus(p, Of(x)), Nothing, S)
H2(p, q, i, j, k, l) ==
  TimesPoly(Atom("hessian", <<p>>, {i, j}), Atom("hessian", <<q>>, {k, l}))
H3(p, i, j, k) ==
  TimesPoly(H2(p, p, 0, i, 1, j), Atom("hessian", <<p>>, {2, k}))
Sign(i, j, k) ==
  CASE <<i, j, k>> \in {<<0, 1, 2>>, <<1, 2, 0>>, <<2, 0, 1>>} -> 1
    [] <<i, j, k>> \in {<<0, 2, 1>>, <<2, 1, 0>>, <<1, 0, 2>>} -> -1
    [] OTHER -> 0
Minors(p) ==
  Sum({e \in Dims \X Dims : e[1] < e[2]}, LAMBDA e :
      Plus(H2(p, p, e[1], e[1], e[2], e[2]),
           Opposite(H2(p, p, e[1], e[2], e[1], e[2]))))
MixedMinors(p, q) ==
  Sum({e \in Dims \X Dims : e[1] # e[2]}, LAMBDA e :
      Plus(H2(p, q, e[1], e[1], e[2], e[2]),
           Opposite(H2(p, q, e[1], e[2], e[1], e[2]))))
Determinant(p) ==
  Sum(Dims \X Dims \X Dims, LAMBDA e :
      Multiple(Sign(e[1], e[2], e[3]), H3(p, e[1], e[2], e[3])))
CurlOf(p, q, i) ==
  Sum(Dims \X Dims \X Dims, LAMBDA e :
      Multiple(Sign(i, e[1], e[2]), H2(q, p, e[3], e[1], e[3], e[2])))
\* A factor that the parameters switch on.
If(b, name) == IF b THEN One(name) ELSE Nothing
Unlap(p) == Scaled(p, Per("laplacian"))

\* The potentials handed to the species are those of Lagrangian perturbation
\* theory: the sum of the minors at second order (with the tides), the
\* determinant and -5/7 of the mixed minors at third order, the curl for the
\* transversal part, each with its growth factor and neutrino factor once.
TermsAreLPT ==
  at = "test" /\ code = <<>> =>
    LET Done(g) == grid[g].data
        phi == Scaled(Done("phi"), Per("g1"))
        bare == Unlap(Plus(Multiple(7, Minors(phi)),
                           IF AddExternalTides
                             THEN Opposite(Scaled(phi, One("tides"))) ELSE Nothing))
        phi2 == Scaled(bare, If(cfg.DoNeutrinoPhi2Corr, "C_2"))
    IN /\ phi = Scaled(grid["wnoise"].data, Plus(One("delta_matter"), Per("laplacian")))
       /\ cfg.LPTorder > 1 => Done("phi2") = Scaled(phi2, One("g2"))
       /\ cfg.LPTorder > 2 =>
            /\ Done("phi3") =
                 Scaled(Unlap(Plus(Scaled(Multiple(7, Determinant(phi)),
                                          If(cfg.DoNeutrinoPhi3Corr, "C_3")),
                                   Scaled(Multiple(-5, MixedMinors(phi, phi2)),
                                          IF cfg.DoNeutrinoPhi3Corr
                                            THEN Plus(One("C_3"), Per("C_1")) ELSE Nothing))),
                        One("g3"))
            /\ \A i \in Dims :
                 Done(A3(i)) = Scaled(Unlap(Multiple(7, CurlOf(phi, phi2, i))), One("g3c"))

(* The reference for what a species is given, from the potentials as they  *)
(* were when they were complete.                                           *)
Order == [phi |-> 1, phi2 |-> 2, phi3 |-> 3]
Shifted(i, weigh) ==
  Plus(Sum({g \in DOMAIN Order : Order[g] <= cfg.LPTorder}, LAMBDA g :
           Multiple(weigh[Order[g]], Scaled(scaled[g], One(X("d", i))))),
       IF cfg.LPTorder > 2
         THEN Sum(Dims \X Dims, LAMBDA e :
                  Multiple(weigh[3] * Sign(i, e[1], e[2]),
                           Scaled(scaled[A3(e[2])], One(X("d", e[1])))))
         ELSE Nothing)
Moved(i, s) ==
  LET extra(c, name) ==
        Multiple(c, Scaled(scaled["wnoise"],
                           Plus(BagOf(<<"vfac", name, X("d", i)>>), Per("k2"))))
      sum == Plus(Scaled(Shifted(i, TimesOrder), One("vfac")),
               Plus(IF cfg.DoBaryons /\ cfg.DoBaryonVrel
                      THEN extra(-1, "theta_bc of " \o s) ELSE Nothing,
                    IF cfg.DoDensityVelocityCorr
                      THEN extra(1, "theta_delta_m") ELSE Nothing))
  IN Scaled(sum, If(AddExternalTides, X("alpha2", i)))
WaveFunction(s) ==
  LET contrast == Scaled(scaled["wnoise"], One("delta_bc"))
      root == Atom("root of " \o s, <<contrast>>, {})
      start == IF cfg.LPTorder = 1 THEN Atom("wave", <<scaled["phi"], root>>, {})
               ELSE Atom("wave", <<scaled["phi"], scaled["phi2"], root>>, {})
      drifted == Scaled(start, One("drift"))
  IN IF cfg.LPTorder = 1 THEN drifted ELSE Atom("kick", <<drifted, scaled["phi2"]>>, {})
Density(s) ==
  IF write_species_as(s) = "field_eulerian" THEN Atom("modulus", <<WaveFunction(s)>>, {})
                                            ELSE Scaled(scaled["phi"], One("laplacian"))
EulerianVelocity(i, s) ==
  Atom("current", <<WaveFunction(s), Scaled(WaveFunction(s), One(X("d", i))), Density(s)>>, {})

\* What a species is given depends on the potentials as they were completed
\* and on that species alone: nothing of an earlier species, of an exported
\* noise or of a diagnostic is left in the grids they share.  (The
\* convergence diagnostic rescales the potentials it is lent.)
HistoryLeavesNoTrace ==
  cfg.test # "convergence" =>
    \A n \in {m \in {Len(out)} \ {0} : out[m].what # "particles"} :
      LET o == out[n] IN
        /\ \A i \in Dims :
             /\ o.what = X("d", i) => o.data = Shifted(i, Same)
             /\ o.what = X("v", i) =>
                  o.data = IF write_species_as(o.sp) = "field_eulerian"
                             THEN EulerianVelocity(i, o.sp) ELSE Moved(i, o.sp)
        /\ o.what = "density" => o.data = Density(o.sp)
        /\ o.what = "mass" =>
             o.data = Atom("mass of " \o o.sp,
                           <<Scaled(scaled["wnoise"], One("delta_bc"))>>, {})

\* A run that ends has given the plugin every field of every species of
\* matter exactly once, in the order the plugins rely on: masses first, then
\* displacements before velocities (or the density before the current), the
\* linear density last.
OutputIsComplete ==
  at = "done" =>
    \A s \in {"dm", "baryon"} :
      LET given == SelectSeq(out, LAMBDA o : o.sp = s)
          three(v) == <<X(v, 0), X(v, 1), X(v, 2)>>
          fields == CASE s = "baryon" /\ ~cfg.DoBaryons -> <<>>
                      [] write_species_as(s) = "field_eulerian" -> <<"density">> \o three("v")
                      [] OTHER -> (IF cfg.DoBaryons THEN <<"mass">> ELSE <<>>)
                                   \o three("d") \o three("v")
                                   \o (IF cfg.format = "particles" THEN <<>> ELSE <<"density">>)
      IN [i \in DOMAIN given |-> given[i].what] = fields
=============================================================================
