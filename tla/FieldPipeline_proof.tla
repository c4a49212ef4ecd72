------------------------- MODULE FieldPipeline_proof -------------------------
(***************************************************************************)
(* For every run: no block of the driver and no diagnostic reads a grid    *)
(* that is unallocated, in the other space, never filled or infinite at    *)
(* k = 0.  The proof follows the state of every grid, without its data,    *)
(* through the instructions of each block.                                 *)
(***************************************************************************)
EXTENDS FieldPipeline, Counting

-----------------------------------------------------------------------------
(***************************************************************************)
(* The mark of a grid is its state and space, without its data: off;       *)
(* allocated in real or Fourier space and not filled ("r0", "k0"), filled  *)
(* ("r", "k"), or filled and infinite at k = 0 ("k8").                     *)
(***************************************************************************)
Marks == {"off", "r0", "k0", "r", "k", "k8"}
AllMarks == [Fields -> Marks]

StateMark(m) ==
  CASE m = "off" -> "off"
    [] m \in {"r0", "k0"} -> "empty"
    [] m \in {"r", "k"} -> "filled"
    [] m = "k8" -> "infinite"
SpaceMark(m) == IF m \in {"k0", "k", "k8"} THEN "k" ELSE "r"
Marked(m, d) == Grid(StateMark(m), SpaceMark(m), d)

Shows(g, a) == \E d : g = [x \in Fields |-> Marked(a[x], d[x])]

IsState(s) == {"grid", "flaws"} \subseteq DOMAIN s

\* Instruction c takes grids marked a to grids marked b and reads nothing
\* that is not there.
Steps(a, c, b) ==
  /\ b \in AllMarks
  /\ \A s : IsState(s) /\ Shows(s.grid, a) =>
       Shows(Exec(s, c).grid, b) /\ Exec(s, c).flaws = s.flaws

\* Instruction c leaves grid x marked m, and changes nothing else.
Leaves(s, c, x, m) ==
  \E d : Exec(s, c) = After(s, [s.grid EXCEPT ![x] = Marked(m, d)], {})

LEMMA ShowsFacts ==
  ASSUME NEW a \in AllMarks, NEW g, Shows(g, a), NEW x \in Fields
  PROVE  /\ g[x].state = StateMark(a[x]) /\ g[x].space = SpaceMark(a[x])
         /\ g[x] = Marked(a[x], g[x].data)
<1>1. PICK d : g = [y \in Fields |-> Marked(a[y], d[y])]
  BY DEF Shows
<1>2. g[x] = Marked(a[x], d[x])
  BY <1>1
<1> QED
  BY <1>2 DEF Marked, Grid

LEMMA SetShows ==
  ASSUME NEW a \in AllMarks, NEW g, Shows(g, a), NEW x \in Fields, NEW m \in Marks, NEW new
  PROVE  Shows([g EXCEPT ![x] = Marked(m, new)], [a EXCEPT ![x] = m])
<1>1. PICK d : g = [y \in Fields |-> Marked(a[y], d[y])]
  BY DEF Shows
<1> DEFINE e == [y \in Fields |-> IF y = x THEN new ELSE d[y]]
           b == [a EXCEPT ![x] = m]
           h == [g EXCEPT ![x] = Marked(m, new)]
<1>2. h = [y \in Fields |-> Marked(b[y], e[y])]
  <2>1. DOMAIN h = Fields
    BY <1>1
  <2>2. ASSUME NEW y \in Fields PROVE h[y] = Marked(b[y], e[y])
    BY <1>1 DEF AllMarks
  <2> QED
    BY <1>1, <2>1, <2>2
<1> QED
  BY <1>2 DEF Shows

LEMMA AfterFacts ==
  ASSUME NEW s, IsState(s), NEW g
  PROVE  /\ After(s, g, {}).grid = g /\ After(s, g, {}).flaws = s.flaws
         /\ IsState(After(s, g, {}))
<1>1. After(s, g, {}).grid = g
  BY DEF After, IsState
<1>2. After(s, g, {}).flaws = s.flaws
  BY DEF After, IsState
<1>3. IsState(After(s, g, {}))
  BY DEF After, IsState
<1> QED
  BY <1>1, <1>2, <1>3

LEMMA ExecFacts ==
  ASSUME NEW s, IsState(s), NEW c, NEW h, Exec(s, c) = After(s, h, {})
  PROVE  Exec(s, c).grid = h /\ Exec(s, c).flaws = s.flaws
BY AfterFacts

LEMMA LeavesSteps ==
  ASSUME NEW a \in AllMarks, NEW c, NEW x \in Fields, NEW m \in Marks,
         \A s : IsState(s) /\ Shows(s.grid, a) => Leaves(s, c, x, m)
  PROVE  Steps(a, c, [a EXCEPT ![x] = m])
<1>1. [a EXCEPT ![x] = m] \in AllMarks
  BY DEF AllMarks
<1>2. ASSUME NEW s, IsState(s), Shows(s.grid, a)
      PROVE  Shows(Exec(s, c).grid, [a EXCEPT ![x] = m]) /\ Exec(s, c).flaws = s.flaws
  <2>1. PICK d : Exec(s, c) = After(s, [s.grid EXCEPT ![x] = Marked(m, d)], {})
    BY <1>2 DEF Leaves
  <2>2. Exec(s, c).grid = [s.grid EXCEPT ![x] = Marked(m, d)] /\ Exec(s, c).flaws = s.flaws
    <3>1. PICK h : h = [s.grid EXCEPT ![x] = Marked(m, d)]
      OBVIOUS
    <3>2. Exec(s, c) = After(s, h, {})
      BY <2>1, <3>1
    <3>3. Exec(s, c).grid = h /\ Exec(s, c).flaws = s.flaws
      BY <1>2, <3>2, ExecFacts
    <3> QED
      BY <3>1, <3>3
  <2> QED
    BY <1>2, <2>2, SetShows
<1> QED
  BY <1>1, <1>2 DEF Steps

\* A put into an allocated grid.
LEMMA PutLeaves ==
  ASSUME NEW s, NEW c, NEW x, s.grid[x].state # "off", NEW m, NEW d, NEW state, NEW space,
         Grid(state, space, d) = Marked(m, d), NEW new, new = {},
         Exec(s, c) = Put(s, x, space, d, state, new)
  PROVE  Leaves(s, c, x, m)
<1>1. Put(s, x, space, d, state, new) = After(s, [s.grid EXCEPT ![x] = Grid(state, space, d)], {})
  BY DEF Put
<1> QED
  BY <1>1 DEF Leaves

LEMMA NoReadFlaws ==
  ASSUME NEW s, NEW x, NEW space, s.grid[x].state = "filled", s.grid[x].space = space
  PROVE  ReadFlaws(s, x, space) = {}
BY DEF ReadFlaws

LEMMA NoWriteFlaws ==
  ASSUME NEW s, NEW x, NEW space, s.grid[x].state # "off", s.grid[x].space = space
  PROVE  WriteFlaws(s, x, space) = {}
BY DEF ReadFlaws, WriteFlaws

LEMMA NothingTurned ==
  ASSUME NEW s, NEW x, s.grid[x].state \in {"empty", "filled"}
  PROVE  ReadFlaws(s, x, s.grid[x].space) \cap {<<x, "unallocated">>, <<x, "infinite">>} = {}
BY DEF ReadFlaws

LEMMA InfiniteIsRead ==
  ASSUME NEW s, NEW x, NEW space, s.grid[x].state \in {"filled", "infinite"},
         s.grid[x].space = space
  PROVE  \A f \in ReadFlaws(s, x, space) : f[2] = "infinite"
BY DEF ReadFlaws

-----------------------------------------------------------------------------
(***************************************************************************)
(* The instructions, one by one.                                           *)
(***************************************************************************)
LEMMA NewSteps ==
  ASSUME NEW a \in AllMarks, NEW x \in Fields
  PROVE  Steps(a, New(x), [a EXCEPT ![x] = "r0"])
<1>1. ASSUME NEW s PROVE Leaves(s, New(x), x, "r0")
  <2>1. Exec(s, New(x)) = After(s, [s.grid EXCEPT ![x] = Allocated], {})
    BY DEF Exec, New
  <2>2. Allocated = Marked("r0", Garbage)
    BY DEF Allocated, Marked, StateMark, SpaceMark
  <2> QED
    BY <2>1, <2>2 DEF Leaves
<1> QED
  BY <1>1, LeavesSteps DEF Marks

Dropped(a, gs) == [x \in Fields |-> IF x \in gs THEN "off" ELSE a[x]]

LEMMA DropSteps ==
  ASSUME NEW a \in AllMarks, NEW gs
  PROVE  Steps(a, Drop(gs), Dropped(a, gs))
<1> DEFINE b == Dropped(a, gs)
<1>1. b \in AllMarks
  BY DEF AllMarks, Marks, Dropped
<1>2. ASSUME NEW s, IsState(s), Shows(s.grid, a)
      PROVE  Shows(Exec(s, Drop(gs)).grid, b) /\ Exec(s, Drop(gs)).flaws = s.flaws
  <2>1. PICK d : s.grid = [x \in Fields |-> Marked(a[x], d[x])]
    BY <1>2 DEF Shows
  <2> DEFINE e == [x \in Fields |-> IF x \in gs THEN Garbage ELSE d[x]]
  <2>2. PICK h : h = [x \in Fields |-> IF x \in gs THEN Off ELSE s.grid[x]]
    OBVIOUS
  <2>3. Exec(s, Drop(gs)) = After(s, h, {})
    BY <2>2 DEF Exec, Drop
  <2>4. Off = Marked("off", Garbage)
    BY DEF Off, Marked, StateMark, SpaceMark
  <2>5. h = [x \in Fields |-> Marked(b[x], e[x])]
    BY <2>1, <2>2, <2>4 DEF Dropped
  <2>6. Shows(h, b)
    <3> HIDE DEF e, b
    <3> QED
      BY <2>5 DEF Shows
  <2>7. Exec(s, Drop(gs)).grid = h /\ Exec(s, Drop(gs)).flaws = s.flaws
    BY <1>2, <2>3, ExecFacts
  <2> QED
    BY <2>6, <2>7
<1> QED
  BY <1>1, <1>2 DEF Steps

\* The transforms: what the marks of the grids gs become.
Transformed(a, gs) == [x \in Fields |-> IF x \in gs THEN "k" ELSE a[x]]

LEMMA TransformShows ==
  ASSUME NEW a \in AllMarks, NEW s, IsState(s), Shows(s.grid, a), NEW gs,
         \A x \in gs : x \in Fields /\ a[x] \in {"r", "k"}
  PROVE  \E h : /\ FourierTransform(s, gs, "k", TRUE) = After(s, h, {})
                /\ Shows(h, Transformed(a, gs))
<1> DEFINE Turned(x) == IF x.space = "k" THEN x ELSE Grid(x.state, "k", x.data)
           h == [g \in Fields |-> IF g \in gs THEN Turned(s.grid[g]) ELSE s.grid[g]]
           read == {x \in gs : s.grid[x].space # "k"}
           new == UNION {ReadFlaws(s, g, s.grid[g].space)
                           \cap {<<g, "unallocated">>, <<g, "infinite">>} : g \in read}
<1>1. FourierTransform(s, gs, "k", TRUE) = After(s, h, new)
  BY DEF FourierTransform
<1>2. new = {}
  <2>1. ASSUME NEW g \in read PROVE ReadFlaws(s, g, s.grid[g].space) = {}
    <3>1. s.grid[g].state = "filled"
      BY ShowsFacts DEF StateMark
    <3> QED
      BY <3>1, NoReadFlaws
  <2> QED
    BY <2>1
<1>3. PICK d : s.grid = [x \in Fields |-> Marked(a[x], d[x])]
  BY DEF Shows
<1>4. h = [x \in Fields |-> Marked(Transformed(a, gs)[x], d[x])]
  <2>1. ASSUME NEW x \in Fields PROVE h[x] = Marked(Transformed(a, gs)[x], d[x])
    <3>1. s.grid[x] = Marked(a[x], d[x])
      BY <1>3
    <3>2. CASE x \in gs
      <4>1. h[x] = Turned(Marked(a[x], d[x])) /\ a[x] \in {"r", "k"}
        BY <3>1, <3>2
      <4>2. CASE a[x] = "r"
        BY <3>2, <4>1, <4>2 DEF Marked, Grid, StateMark, SpaceMark, Transformed
      <4>3. CASE a[x] = "k"
        BY <3>2, <4>1, <4>3 DEF Marked, Grid, StateMark, SpaceMark, Transformed
      <4> QED
        BY <4>1, <4>2, <4>3
    <3>3. CASE x \notin gs
      BY <3>1, <3>3 DEF Transformed
    <3> QED
      BY <3>2, <3>3
  <2> HIDE DEF Turned
  <2> QED
    BY <2>1
<1>5. Shows(h, Transformed(a, gs))
  BY <1>4 DEF Shows
<1> HIDE DEF h, new
<1> QED
  BY <1>1, <1>2, <1>5

LEMMA ForwardSteps ==
  ASSUME NEW a \in AllMarks, NEW x \in Fields, a[x] \in {"r", "k"}
  PROVE  Steps(a, Forward(x), [a EXCEPT ![x] = "k"])
<1> DEFINE b == [a EXCEPT ![x] = "k"]
<1>1. b \in AllMarks /\ b = Transformed(a, {x})
  BY DEF AllMarks, Marks, Transformed
<1>2. ASSUME NEW s, IsState(s), Shows(s.grid, a)
      PROVE  Shows(Exec(s, Forward(x)).grid, b) /\ Exec(s, Forward(x)).flaws = s.flaws
  <2>1. Exec(s, Forward(x)) = FourierTransform(s, {x}, "k", TRUE)
    BY DEF Exec, Forward
  <2>2. PICK h : FourierTransform(s, {x}, "k", TRUE) = After(s, h, {})
                 /\ Shows(h, Transformed(a, {x}))
    <3>1. \A y \in {x} : y \in Fields /\ a[y] \in {"r", "k"}
      OBVIOUS
    <3> QED
      BY <1>2, <3>1, TransformShows
  <2>3. Exec(s, Forward(x)).grid = h /\ Exec(s, Forward(x)).flaws = s.flaws
    <3>1. Exec(s, Forward(x)) = After(s, h, {})
      BY <2>1, <2>2
    <3> QED
      BY <1>2, <3>1, ExecFacts
  <2> QED
    BY <1>1, <2>2, <2>3
<1> QED
  BY <1>1, <1>2 DEF Steps

\* One grid is transformed or declared.
LEMMA OneTransform ==
  ASSUME NEW a \in AllMarks, NEW s, Shows(s.grid, a), NEW x \in Fields,
         NEW to, NEW do \in BOOLEAN, do => a[x] \in {"r0", "k0", "r", "k"}, NEW m, NEW new,
         new = IF s.grid[x].space = to THEN s.grid[x]
               ELSE Grid(IF do \/ s.grid[x].state = "off" THEN s.grid[x].state ELSE "empty", to,
                         IF do THEN s.grid[x].data ELSE Garbage)
  PROVE  FourierTransform(s, {x}, to, do) = After(s, [s.grid EXCEPT ![x] = new], {})
<1> DEFINE h == [g \in Fields |-> IF g \in {x} THEN new ELSE s.grid[g]]
           read == {g \in {x} : do /\ s.grid[g].space # to}
           Flaws(g) == ReadFlaws(s, g, s.grid[g].space) \cap {<<g, "unallocated">>, <<g, "infinite">>}
<1>1. DOMAIN s.grid = Fields /\ s.grid = [y \in Fields |-> s.grid[y]]
  BY DEF Shows
<1>2. h = [s.grid EXCEPT ![x] = new]
  BY <1>1
<1>3. UNION {Flaws(g) : g \in read} = {}
  <2>1. ASSUME NEW g \in read PROVE Flaws(g) = {}
    <3>1. s.grid[g].state \in {"empty", "filled"}
      BY ShowsFacts DEF StateMark
    <3> QED
      BY <3>1, NothingTurned
  <2> HIDE DEF read, Flaws
  <2> QED
    BY <2>1
<1>4. FourierTransform(s, {x}, to, do) =
        After(s, [g \in Fields |->
                    IF g \in {x}
                      THEN IF s.grid[g].space = to THEN s.grid[g]
                           ELSE Grid(IF do \/ s.grid[g].state = "off"
                                       THEN s.grid[g].state ELSE "empty", to,
                                     IF do THEN s.grid[g].data ELSE Garbage)
                      ELSE s.grid[g]],
              UNION {Flaws(g) : g \in read})
  BY DEF FourierTransform
<1>5. h = [g \in Fields |->
             IF g \in {x}
               THEN IF s.grid[g].space = to THEN s.grid[g]
                    ELSE Grid(IF do \/ s.grid[g].state = "off"
                                THEN s.grid[g].state ELSE "empty", to,
                              IF do THEN s.grid[g].data ELSE Garbage)
               ELSE s.grid[g]]
  OBVIOUS
<1> HIDE DEF h, read, Flaws
<1> QED
  BY <1>2, <1>3, <1>4, <1>5

LEMMA BackwardSteps ==
  ASSUME NEW a \in AllMarks, NEW x \in Fields, a[x] \in {"r", "k"}
  PROVE  Steps(a, Backward(x), [a EXCEPT ![x] = "r"])
<1>1. ASSUME NEW s, IsState(s), Shows(s.grid, a) PROVE Leaves(s, Backward(x), x, "r")
  <2> DEFINE new == IF s.grid[x].space = "r" THEN s.grid[x]
                    ELSE Grid(s.grid[x].state, "r", s.grid[x].data)
  <2>1. Exec(s, Backward(x)) = FourierTransform(s, {x}, "r", TRUE)
    BY DEF Exec, Backward
  <2>2. FourierTransform(s, {x}, "r", TRUE) = After(s, [s.grid EXCEPT ![x] = new], {})
    <3>1. PICK do \in BOOLEAN : do = TRUE
      OBVIOUS
    <3>2. new = IF s.grid[x].space = "r" THEN s.grid[x]
                ELSE Grid(IF do \/ s.grid[x].state = "off" THEN s.grid[x].state ELSE "empty",
                          "r", IF do THEN s.grid[x].data ELSE Garbage)
      BY <3>1
    <3> HIDE DEF new
    <3>3. FourierTransform(s, {x}, "r", do) = After(s, [s.grid EXCEPT ![x] = new], {})
      BY <1>1, <3>2, OneTransform
    <3> QED
      BY <3>1, <3>3
  <2>3. new = Marked("r", s.grid[x].data)
    BY <1>1, ShowsFacts DEF Marked, StateMark, SpaceMark
  <2> HIDE DEF new
  <2> QED
    BY <2>1, <2>2, <2>3 DEF Leaves
<1> QED
  BY <1>1, LeavesSteps DEF Marks

\* The mark of a grid that is declared to be in a space.
Declared(m, to) ==
  IF SpaceMark(m) = to THEN m ELSE IF to = "k" THEN "k0" ELSE "r0"

LEMMA DeclareSteps ==
  ASSUME NEW a \in AllMarks, NEW x \in Fields, a[x] # "off", NEW to \in {"r", "k"}
  PROVE  Steps(a, Declare(x, to), [a EXCEPT ![x] = Declared(a[x], to)])
<1> DEFINE m == Declared(a[x], to)
<1>1. ASSUME NEW s, IsState(s), Shows(s.grid, a) PROVE Leaves(s, Declare(x, to), x, m)
  <2> DEFINE new == IF s.grid[x].space = to THEN s.grid[x]
                    ELSE Grid(IF s.grid[x].state = "off" THEN s.grid[x].state ELSE "empty", to, Garbage)
             d == IF s.grid[x].space = to THEN s.grid[x].data ELSE Garbage
  <2>1. Exec(s, Declare(x, to)) = FourierTransform(s, {x}, to, FALSE)
    BY DEF Exec, Declare
  <2>2. FourierTransform(s, {x}, to, FALSE) = After(s, [s.grid EXCEPT ![x] = new], {})
    <3>1. PICK do \in BOOLEAN : do = FALSE
      OBVIOUS
    <3>2. new = IF s.grid[x].space = to THEN s.grid[x]
                ELSE Grid(IF do \/ s.grid[x].state = "off" THEN s.grid[x].state ELSE "empty",
                          to, IF do THEN s.grid[x].data ELSE Garbage)
      BY <3>1
    <3>3. do => a[x] \in {"r0", "k0", "r", "k"}
      BY <3>1
    <3> HIDE DEF new
    <3>4. FourierTransform(s, {x}, to, do) = After(s, [s.grid EXCEPT ![x] = new], {})
      BY <1>1, <3>2, <3>3, OneTransform
    <3> QED
      BY <3>1, <3>4
  <2>3. new = Marked(m, d)
    <3>1. /\ s.grid[x].state = StateMark(a[x]) /\ s.grid[x].space = SpaceMark(a[x])
          /\ s.grid[x] = Marked(a[x], s.grid[x].data) /\ a[x] \in Marks
      BY <1>1, ShowsFacts DEF AllMarks
    <3>2. CASE SpaceMark(a[x]) = to
      BY <3>1, <3>2 DEF Declared
    <3>3. CASE SpaceMark(a[x]) # to
      <4>1. StateMark(a[x]) # "off"
        BY <3>1 DEF Marks, StateMark
      <4>2. new = Grid("empty", to, Garbage) /\ d = Garbage
        BY <3>1, <3>3, <4>1
      <4>3. m = IF to = "k" THEN "k0" ELSE "r0"
        BY <3>3 DEF Declared
      <4>4. Grid("empty", to, Garbage) = Marked(m, Garbage)
        BY <4>3 DEF Marked, StateMark, SpaceMark
      <4> QED
        BY <4>2, <4>4
    <3> QED
      BY <3>2, <3>3
  <2> HIDE DEF new, d, m
  <2> QED
    BY <2>1, <2>2, <2>3 DEF Leaves
<1>2. m \in Marks
  BY DEF Declared, Marks, AllMarks
<1> HIDE DEF m
<1>3. Steps(a, Declare(x, to), [a EXCEPT ![x] = m])
  BY <1>1, <1>2, LeavesSteps
<1> QED
  BY <1>3 DEF m

LEMMA DeclareNew ==
  ASSUME NEW a \in AllMarks, NEW x \in Fields, a[x] = "r0"
  PROVE  Steps(a, Declare(x, "k"), [a EXCEPT ![x] = "k0"])
<1>1. Declared(a[x], "k") = "k0"
  BY DEF Declared, SpaceMark
<1>2. Steps(a, Declare(x, "k"), [a EXCEPT ![x] = Declared(a[x], "k")])
  BY DeclareSteps
<1> QED
  BY <1>1, <1>2

\* A new grid is transformed before it is filled.
LEMMA ForwardNew ==
  ASSUME NEW a \in AllMarks, NEW x \in Fields, a[x] = "r0"
  PROVE  Steps(a, Forward(x), [a EXCEPT ![x] = "k0"])
<1>1. ASSUME NEW s, IsState(s), Shows(s.grid, a) PROVE Leaves(s, Forward(x), x, "k0")
  <2> DEFINE new == IF s.grid[x].space = "k" THEN s.grid[x]
                    ELSE Grid(s.grid[x].state, "k", s.grid[x].data)
  <2>1. Exec(s, Forward(x)) = FourierTransform(s, {x}, "k", TRUE)
    BY DEF Exec, Forward
  <2>2. FourierTransform(s, {x}, "k", TRUE) = After(s, [s.grid EXCEPT ![x] = new], {})
    <3>1. PICK do \in BOOLEAN : do = TRUE
      OBVIOUS
    <3>2. new = IF s.grid[x].space = "k" THEN s.grid[x]
                ELSE Grid(IF do \/ s.grid[x].state = "off" THEN s.grid[x].state ELSE "empty",
                          "k", IF do THEN s.grid[x].data ELSE Garbage)
      BY <3>1
    <3> HIDE DEF new
    <3>3. FourierTransform(s, {x}, "k", do) = After(s, [s.grid EXCEPT ![x] = new], {})
      BY <1>1, <3>2, OneTransform
    <3> QED
      BY <3>1, <3>3
  <2>3. new = Marked("k0", s.grid[x].data)
    BY <1>1, ShowsFacts DEF Marked, StateMark, SpaceMark
  <2> HIDE DEF new
  <2> QED
    BY <2>1, <2>2, <2>3 DEF Leaves
<1> QED
  BY <1>1, LeavesSteps DEF Marks

\* A grid to be written to in real space.
LEMMA ApplySteps ==
  ASSUME NEW a \in AllMarks, NEW x \in Fields, a[x] \in {"r0", "r"}, NEW name, NEW reads,
         \A y \in Range(reads) : y \in Fields /\ a[y] = "r"
  PROVE  Steps(a, Apply(x, name, reads), [a EXCEPT ![x] = "r"])
<1>1. ASSUME NEW s, IsState(s), Shows(s.grid, a) PROVE Leaves(s, Apply(x, name, reads), x, "r")
  <2> DEFINE c == Apply(x, name, reads)
             d == Atom(name, [i \in DOMAIN reads |-> s.grid[reads[i]].data], {})
             new == WriteFlaws(s, x, "r") \cup UNION {ReadFlaws(s, g, "r") : g \in Range(reads)}
  <2>1. s.grid[x].state # "off" /\ s.grid[x].space = "r"
    BY <1>1, ShowsFacts DEF StateMark, SpaceMark
  <2>2. new = {}
    <3>1. WriteFlaws(s, x, "r") = {}
      BY <2>1, NoWriteFlaws
    <3>2. ASSUME NEW g \in Range(reads) PROVE ReadFlaws(s, g, "r") = {}
      <4>1. s.grid[g].state = "filled" /\ s.grid[g].space = "r"
        BY <1>1, ShowsFacts DEF StateMark, SpaceMark
      <4> QED
        BY <4>1, NoReadFlaws
    <3> QED
      BY <3>1, <3>2
  <2>3. Exec(s, c) = DoApply(s, c)
    BY DEF Exec, Apply
  <2>4. DoApply(s, c) = Put(s, x, s.grid[x].space, d, "filled", new)
    BY DEF DoApply, Apply
  <2> HIDE DEF c, d, new
  <2>5. Grid("filled", s.grid[x].space, d) = Marked("r", d)
    BY <2>1 DEF StateMark, SpaceMark, Marked
  <2>6. Leaves(s, c, x, "r")
    BY <2>1, <2>2, <2>3, <2>4, <2>5, PutLeaves
  <2> QED
    BY <2>6 DEF c
<1> QED
  BY <1>1, LeavesSteps DEF Marks

\* A combination of finite fields is finite unless one of its factors is not.
CombineMark(dc) == IF dc THEN "k" ELSE "k8"

LEMMA CombineSteps ==
  ASSUME NEW a \in AllMarks, NEW x \in Fields, a[x] \in {"k0", "k", "k8"},
         NEW terms, \A y \in Sources(terms) : y \in Fields /\ a[y] = "k",
         NEW add \in BOOLEAN, add => a[x] = "k", NEW dc \in BOOLEAN
  PROVE  Steps(a, Combine(x, "k", terms, add, dc), [a EXCEPT ![x] = CombineMark(dc)])
<1> DEFINE m == CombineMark(dc)
           Used == Sources(terms) \cup (IF add THEN {x} ELSE {})
<1>1. ASSUME NEW s, IsState(s), Shows(s.grid, a)
      PROVE  Leaves(s, Combine(x, "k", terms, add, dc), x, m)
  <2> DEFINE c == Combine(x, "k", terms, add, dc)
             d == Combination(s, c)
             old == UNION {ReadFlaws(s, g, "k") : g \in Used}
             new == WriteFlaws(s, x, "k") \cup {f \in old : f[2] # "infinite"}
             state == IF \E g \in Used : s.grid[g].state \in {"off", "empty"} THEN "empty"
                      ELSE IF dc /\ \A g \in Used : s.grid[g].state = "filled" THEN "filled"
                      ELSE "infinite"
  <2>1. s.grid[x].state # "off" /\ s.grid[x].space = "k"
    BY <1>1, ShowsFacts DEF StateMark, SpaceMark
  <2>2. ASSUME NEW g \in Used PROVE s.grid[g].state = "filled" /\ s.grid[g].space = "k"
    <3>1. g \in Fields /\ a[g] = "k"
      OBVIOUS
    <3> QED
      BY <1>1, <3>1, ShowsFacts DEF StateMark, SpaceMark
  <2>3. new = {}
    <3>1. WriteFlaws(s, x, "k") = {}
      BY <2>1, NoWriteFlaws
    <3>2. ASSUME NEW g \in Used PROVE ReadFlaws(s, g, "k") = {}
      BY <2>2, NoReadFlaws
    <3> QED
      BY <3>1, <3>2
  <2>4. state = IF dc THEN "filled" ELSE "infinite"
    BY <2>2
  <2>5. Exec(s, c) = DoCombine(s, c)
    BY DEF Exec, Combine
  <2>6. DoCombine(s, c) = Put(s, x, s.grid[x].space, d, state, new)
    BY DEF DoCombine, Combine
  <2> HIDE DEF c, d, new, state, Used
  <2>7. Grid(state, s.grid[x].space, d) = Marked(m, d)
    BY <2>1, <2>4 DEF StateMark, SpaceMark, Marked, CombineMark
  <2> HIDE DEF m
  <2>8. Leaves(s, c, x, m)
    BY <2>1, <2>3, <2>5, <2>6, <2>7, PutLeaves
  <2> QED
    BY <2>8 DEF c
<1>2. m \in Marks
  BY DEF CombineMark, Marks
<1> HIDE DEF m
<1>3. Steps(a, Combine(x, "k", terms, add, dc), [a EXCEPT ![x] = m])
  BY <1>1, <1>2, LeavesSteps
<1> QED
  BY <1>3 DEF m

\* A convolution leaves its inputs in Fourier space.
LEMMA ConvolveSteps ==
  ASSUME NEW a \in AllMarks, NEW x \in Fields, a[x] \in {"k0", "k"},
         NEW parts, \A y \in Sources(parts) : y \in Fields /\ a[y] \in {"r", "k"},
         x \notin Sources(parts),
         NEW factor, NEW add \in BOOLEAN, add => a[x] = "k"
  PROVE  Steps(a, Convolve(x, parts, factor, add),
               [Transformed(a, Sources(parts)) EXCEPT ![x] = "k"])
<1> DEFINE c == Convolve(x, parts, factor, add)
           t == Transformed(a, Sources(parts))
           b == [t EXCEPT ![x] = "k"]
<1>1. t \in AllMarks /\ t[x] = a[x] /\ \A y \in Sources(parts) : t[y] = "k"
  BY DEF AllMarks, Transformed, Marks
<1>2. b \in AllMarks
  BY <1>1 DEF AllMarks, Marks
<1>3. ASSUME NEW s, IsState(s), Shows(s.grid, a)
      PROVE  Shows(Exec(s, c).grid, b) /\ Exec(s, c).flaws = s.flaws
  <2>1. PICK h : FourierTransform(s, Sources(parts), "k", TRUE) = After(s, h, {}) /\ Shows(h, t)
    BY <1>3, TransformShows
  <2>2. PICK ins : ins = After(s, h, {})
    OBVIOUS
  <2>3. ins.grid = h
    BY <1>3, <2>2, AfterFacts
  <2>4. ins.flaws = s.flaws
    BY <1>3, <2>2, AfterFacts
  <2>5. IsState(ins)
    BY <1>3, <2>2, AfterFacts
  <2> DEFINE d == Convolution(ins, c)
             new == UNION {ReadFlaws(ins, g, "k") : g \in Sources(parts)}
                    \cup (IF add THEN ReadFlaws(ins, x, "k") ELSE WriteFlaws(ins, x, "k"))
  <2>6. Exec(s, c) = DoConvolve(s, c)
    BY DEF Exec, Convolve
  <2>7. DoConvolve(s, c) = Put(ins, x, ins.grid[x].space, d, "filled", new)
    BY <2>1, <2>2, ZenonT(40) DEF DoConvolve, Convolve
  <2>8. /\ h[x].state # "off" /\ h[x].space = "k"
        /\ add => h[x].state = "filled"
    BY <1>1, <2>1, ShowsFacts DEF StateMark, SpaceMark
  <2>9. new = {}
    <3>1. ASSUME NEW g \in Sources(parts) PROVE ReadFlaws(ins, g, "k") = {}
      <4>1. g \in Fields /\ t[g] = "k"
        BY <1>1
      <4>2. h[g].state = "filled" /\ h[g].space = "k"
        BY <1>1, <2>1, <4>1, ShowsFacts DEF StateMark, SpaceMark
      <4> QED
        BY <2>3, <4>2, NoReadFlaws
    <3>2. WriteFlaws(ins, x, "k") = {}
      BY <2>3, <2>8, NoWriteFlaws
    <3>3. add => ReadFlaws(ins, x, "k") = {}
      BY <2>3, <2>8, NoReadFlaws
    <3> QED
      BY <3>1, <3>2, <3>3
  <2> HIDE DEF c, d, new, t
  <2>10. Grid("filled", "k", d) = Marked("k", d)
    BY DEF Marked, StateMark, SpaceMark
  <2>11. PICK g : g = [h EXCEPT ![x] = Marked("k", d)]
    OBVIOUS
  <2>12. Exec(s, c) = After(ins, g, {})
    BY <2>3, <2>6, <2>7, <2>8, <2>9, <2>10, <2>11 DEF Put
  <2>13. After(ins, g, {}).grid = g
    BY <2>5, AfterFacts
  <2>14. After(ins, g, {}).flaws = ins.flaws
    BY <2>5, AfterFacts
  <2>15. Shows(g, b)
    BY <1>1, <2>1, <2>11, SetShows DEF Marks
  <2> QED
    BY <2>4, <2>12, <2>13, <2>14, <2>15
<1> QED
  BY <1>2, <1>3 DEF Steps

\* Scaling, and clearing the value at k = 0.
LEMMA TimesSteps ==
  ASSUME NEW a \in AllMarks, NEW x \in Fields, a[x] \in {"r", "k", "k8"}, NEW by
  PROVE  Steps(a, Times(x, by), a)
<1>1. ASSUME NEW s, IsState(s), Shows(s.grid, a) PROVE Leaves(s, Times(x, by), x, a[x])
  <2> DEFINE c == Times(x, by)
             g == s.grid[x]
             d == Scaled(g.data, by)
             new == {f \in ReadFlaws(s, x, g.space) : f[2] # "infinite"}
  <2>1. g.state = StateMark(a[x]) /\ g.space = SpaceMark(a[x])
    BY <1>1, ShowsFacts
  <2>2. g.state \in {"filled", "infinite"}
    BY <2>1 DEF StateMark
  <2>3. new = {}
    BY <2>2, InfiniteIsRead
  <2>4. Exec(s, c) = Put(s, x, g.space, d, g.state, new)
    BY DEF Exec, Times
  <2> HIDE DEF c, d, new
  <2>5. Grid(g.state, g.space, d) = Marked(a[x], d)
    BY <2>1 DEF Marked
  <2>6. Leaves(s, c, x, a[x])
    BY <2>2, <2>3, <2>4, <2>5, PutLeaves
  <2> QED
    BY <2>6 DEF c
<1>2. a[x] \in Marks /\ [a EXCEPT ![x] = a[x]] = a
  BY DEF AllMarks
<1>3. Steps(a, Times(x, by), [a EXCEPT ![x] = a[x]])
  BY <1>1, <1>2, LeavesSteps
<1> QED
  BY <1>2, <1>3

LEMMA ZeroDCSteps ==
  ASSUME NEW a \in AllMarks, NEW x \in Fields, a[x] \in {"k", "k8"}
  PROVE  Steps(a, ZeroDC(x), [a EXCEPT ![x] = "k"])
<1>1. ASSUME NEW s, IsState(s), Shows(s.grid, a) PROVE Leaves(s, ZeroDC(x), x, "k")
  <2> DEFINE c == ZeroDC(x)
             g == s.grid[x]
             new == WriteFlaws(s, x, "k")
             state == IF g.state = "infinite" THEN "filled" ELSE g.state
  <2>1. g.state # "off" /\ g.space = "k" /\ state = "filled"
    BY <1>1, ShowsFacts DEF StateMark, SpaceMark
  <2>2. new = {}
    BY <2>1, NoWriteFlaws
  <2>3. Exec(s, c) = Put(s, x, g.space, g.data, state, new)
    BY DEF Exec, ZeroDC
  <2> HIDE DEF c, new, state
  <2>4. Grid(state, g.space, g.data) = Marked("k", g.data)
    BY <2>1 DEF Marked, StateMark, SpaceMark
  <2>5. Leaves(s, c, x, "k")
    BY <2>1, <2>2, <2>3, <2>4, PutLeaves
  <2> QED
    BY <2>5 DEF c
<1> QED
  BY <1>1, LeavesSteps DEF Marks

LEMMA CopySteps ==
  ASSUME NEW a \in AllMarks, NEW x \in Fields, a[x] # "off",
         NEW from \in Fields, a[from] \in {"r", "k"}
  PROVE  Steps(a, Copy(x, from), [a EXCEPT ![x] = a[from]])
<1>1. ASSUME NEW s, IsState(s), Shows(s.grid, a) PROVE Leaves(s, Copy(x, from), x, a[from])
  <2> DEFINE c == Copy(x, from)
             g == s.grid[x]
             h == s.grid[from]
             new == WriteFlaws(s, x, g.space) \cup ReadFlaws(s, from, h.space)
  <2>1. g.state # "off"
    BY <1>1, ShowsFacts DEF StateMark, AllMarks, Marks
  <2>2. h.state = "filled" /\ h.space = SpaceMark(a[from]) /\ h.state = StateMark(a[from])
    BY <1>1, ShowsFacts DEF StateMark
  <2>3. new = {}
    BY <2>1, <2>2, NoWriteFlaws, NoReadFlaws
  <2>4. Exec(s, c) = Put(s, x, h.space, h.data, h.state, new)
    BY DEF Exec, Copy
  <2> HIDE DEF c, new
  <2>5. Grid(h.state, h.space, h.data) = Marked(a[from], h.data)
    BY <2>2 DEF Marked
  <2>6. Leaves(s, c, x, a[from])
    BY <2>1, <2>3, <2>4, <2>5, PutLeaves
  <2> QED
    BY <2>6 DEF c
<1>2. a[from] \in Marks
  BY DEF AllMarks
<1> QED
  BY <1>1, <1>2, LeavesSteps

\* What is handed out is only read.
LEMMA GiveSteps ==
  ASSUME NEW a \in AllMarks, NEW x \in Fields, a[x] = "r", NEW what
  PROVE  Steps(a, Give(x, what), a)
<1>1. ASSUME NEW s, IsState(s), Shows(s.grid, a)
      PROVE  Exec(s, Give(x, what)).grid = s.grid /\ Exec(s, Give(x, what)).flaws = s.flaws
  <2>1. s.grid[x].state = "filled" /\ s.grid[x].space = "r"
    BY <1>1, ShowsFacts DEF StateMark, SpaceMark
  <2>2. ReadFlaws(s, x, "r") = {}
    BY <2>1, NoReadFlaws
  <2>3. PICK t : t = After(s, s.grid, {})
    OBVIOUS
  <2>4. Exec(s, Give(x, what)) =
          [t EXCEPT !.out = Append(@, [sp |-> s.sp, what |-> what, data |-> s.grid[x].data])]
    BY <2>2, <2>3 DEF Exec, Give
  <2>5. IsState(t)
    BY <1>1, <2>3, AfterFacts
  <2>6. t.grid = s.grid
    BY <1>1, <2>3, AfterFacts
  <2>7. t.flaws = s.flaws
    BY <1>1, <2>3, AfterFacts
  <2> QED
    BY <2>4, <2>5, <2>6, <2>7 DEF IsState
<1> QED
  BY <1>1 DEF Steps

LEMMA FileSteps ==
  ASSUME NEW a \in AllMarks, NEW x \in Fields, a[x] = "r"
  PROVE  Steps(a, File(x), a)
<1>1. ASSUME NEW s, IsState(s), Shows(s.grid, a)
      PROVE  Exec(s, File(x)).grid = s.grid /\ Exec(s, File(x)).flaws = s.flaws
  <2>1. s.grid[x].state = "filled" /\ s.grid[x].space = "r"
    BY <1>1, ShowsFacts DEF StateMark, SpaceMark
  <2>2. ReadFlaws(s, x, "r") = {}
    BY <2>1, NoReadFlaws
  <2>3. Exec(s, File(x)) = After(s, s.grid, {})
    BY <2>2 DEF Exec, File
  <2> QED
    BY <1>1, <2>3, ExecFacts
<1> QED
  BY <1>1 DEF Steps

LEMMA SpectrumSteps ==
  ASSUME NEW a \in AllMarks, NEW x \in Fields, a[x] \in {"r", "k"}
  PROVE  Steps(a, Write_PowerSpectrum(x), [a EXCEPT ![x] = "k"])
<1> DEFINE b == [a EXCEPT ![x] = "k"]
           c == Write_PowerSpectrum(x)
<1>1. b \in AllMarks /\ b = Transformed(a, {x}) /\ b[x] = "k"
  BY DEF AllMarks, Marks, Transformed
<1>2. ASSUME NEW s, IsState(s), Shows(s.grid, a)
      PROVE  Shows(Exec(s, c).grid, b) /\ Exec(s, c).flaws = s.flaws
  <2>1. PICK h : FourierTransform(s, {x}, "k", TRUE) = After(s, h, {})
                 /\ Shows(h, Transformed(a, {x}))
    <3>1. \A y \in {x} : y \in Fields /\ a[y] \in {"r", "k"}
      OBVIOUS
    <3> QED
      BY <1>2, <3>1, TransformShows
  <2>2. PICK t : t = After(s, h, {})
    OBVIOUS
  <2>3. t.grid = h
    BY <1>2, <2>2, AfterFacts
  <2>4. t.flaws = s.flaws
    BY <1>2, <2>2, AfterFacts
  <2>5. IsState(t)
    BY <1>2, <2>2, AfterFacts
  <2>6. Exec(s, c) = After(t, t.grid, ReadFlaws(t, x, "k"))
    BY <2>1, <2>2 DEF Exec, Write_PowerSpectrum
  <2>7. ReadFlaws(t, x, "k") = {}
    <3>1. h[x].state = "filled" /\ h[x].space = "k"
      BY <1>1, <2>1, ShowsFacts DEF StateMark, SpaceMark
    <3> QED
      BY <2>3, <3>1, NoReadFlaws
  <2>8. Exec(s, c) = After(t, h, {})
    BY <2>3, <2>6, <2>7
  <2>9. After(t, h, {}).grid = h
    BY <2>5, AfterFacts
  <2>10. After(t, h, {}).flaws = t.flaws
    BY <2>5, AfterFacts
  <2> QED
    BY <1>1, <2>1, <2>4, <2>8, <2>9, <2>10
<1> QED
  BY <1>1, <1>2 DEF Steps

-----------------------------------------------------------------------------
(***************************************************************************)
(* Lists of instructions.                                                  *)
(***************************************************************************)
Trace(m, a, l, b) ==
  /\ m[1] = a /\ m[Len(l) + 1] = b
  /\ \A i \in 1 .. Len(l) : Steps(m[i], l[i], m[i + 1])

\* The instructions l take grids marked a to grids marked b, each of them
\* reading nothing that is not there.
Runs(a, l, b) == IsList(l) /\ a \in AllMarks /\ \E m : Trace(m, a, l, b)

LEMMA RunsNothing ==
  ASSUME NEW a \in AllMarks, NEW b
  PROVE  Runs(a, <<>>, b) <=> b = a
<1>1. IsList(<<>>) /\ Len(<<>>) = 0
  BY NoList
<1>2. ASSUME Runs(a, <<>>, b) PROVE b = a
  BY <1>1, <1>2 DEF Runs, Trace
<1>3. Trace([i \in 1 .. 1 |-> a], a, <<>>, a)
  BY <1>1 DEF Trace
<1>4. Runs(a, <<>>, a)
  BY <1>1, <1>3 DEF Runs
<1> QED
  BY <1>2, <1>4

LEMMA RunsOne ==
  ASSUME NEW a \in AllMarks, NEW c, NEW b, Steps(a, c, b)
  PROVE  Runs(a, <<c>>, b)
<1>1. PICK l : l = <<c>>
  OBVIOUS
<1>2. IsList(l) /\ Len(l) = 1 /\ l[1] = c
  BY <1>1, OneStep
<1> DEFINE m == [i \in 1 .. 2 |-> IF i = 1 THEN a ELSE b]
<1>3. Trace(m, a, l, b)
  BY <1>2 DEF Trace
<1> HIDE DEF m
<1> QED
  BY <1>1, <1>2, <1>3 DEF Runs

LEMMA RunsEnd ==
  ASSUME NEW a, NEW l, NEW b, Runs(a, l, b)
  PROVE  a \in AllMarks /\ b \in AllMarks /\ IsList(l)
<1>1. PICK m : Trace(m, a, l, b)
  BY DEF Runs
<1>2. IsList(l) /\ a \in AllMarks /\ Len(l) \in Nat
  BY ListFacts DEF Runs
<1>3. CASE Len(l) = 0
  BY <1>1, <1>2, <1>3 DEF Trace
<1>4. CASE Len(l) # 0
  <2>1. Len(l) \in 1 .. Len(l)
    BY <1>2, <1>4
  <2>2. Steps(m[Len(l)], l[Len(l)], b)
    BY <1>1, <2>1 DEF Trace
  <2> QED
    BY <1>2, <2>2 DEF Steps
<1> QED
  BY <1>2, <1>3, <1>4

LEMMA RunsJoin ==
  ASSUME NEW a, NEW l, NEW b, NEW k, NEW c, Runs(a, l, b), Runs(b, k, c)
  PROVE  Runs(a, l \o k, c)
<1>1. PICK m : Trace(m, a, l, b)
  BY DEF Runs
<1>2. PICK n : Trace(n, b, k, c)
  BY DEF Runs
<1>3. IsList(l) /\ IsList(k) /\ a \in AllMarks
  BY DEF Runs
<1>4. Len(l) \in Nat /\ Len(k) \in Nat
  BY <1>3, ListFacts
<1>5. PICK j : j = l \o k
  OBVIOUS
<1>6. /\ IsList(j) /\ Len(j) = Len(l) + Len(k)
      /\ \A i \in 1 .. Len(l) + Len(k) : j[i] = IF i <= Len(l) THEN l[i] ELSE k[i - Len(l)]
  BY <1>3, <1>5, Joined
<1> DEFINE t == [i \in 1 .. Len(l) + Len(k) + 1 |-> IF i <= Len(l) THEN m[i] ELSE n[i - Len(l)]]
<1>7. t[1] = a
  BY <1>1, <1>2, <1>4 DEF Trace
<1>8. t[Len(j) + 1] = c
  BY <1>2, <1>4, <1>6 DEF Trace
<1>9. ASSUME NEW i \in 1 .. Len(j) PROVE Steps(t[i], j[i], t[i + 1])
  <2>1. CASE i < Len(l)
    <3>1. i \in 1 .. Len(l) /\ t[i] = m[i] /\ t[i + 1] = m[i + 1] /\ j[i] = l[i]
      BY <1>4, <1>6, <2>1
    <3> QED
      BY <1>1, <3>1 DEF Trace
  <2>2. CASE i = Len(l)
    <3>1. i \in 1 .. Len(l) /\ t[i] = m[i] /\ t[i + 1] = n[1] /\ j[i] = l[i]
      BY <1>4, <1>6, <2>2
    <3>2. n[1] = m[i + 1]
      BY <1>1, <1>2, <2>2 DEF Trace
    <3> QED
      BY <1>1, <3>1, <3>2 DEF Trace
  <2>3. CASE i > Len(l)
    <3>1. /\ i - Len(l) \in 1 .. Len(k) /\ t[i] = n[i - Len(l)]
          /\ t[i + 1] = n[(i - Len(l)) + 1] /\ j[i] = k[i - Len(l)]
      BY <1>4, <1>6, <2>3
    <3> QED
      BY <1>2, <3>1 DEF Trace
  <2> QED
    BY <1>4, <1>6, <2>1, <2>2, <2>3
<1> HIDE DEF t
<1>10. Trace(t, a, j, c)
  BY <1>7, <1>8, <1>9 DEF Trace
<1> QED
  BY <1>3, <1>5, <1>6, <1>10 DEF Runs

LEMMA RunsTail ==
  ASSUME NEW a, NEW l, NEW b, Runs(a, l, b), l # <<>>
  PROVE  \E c : Steps(a, Head(l), c) /\ Runs(c, Tail(l), b)
<1>1. PICK m : Trace(m, a, l, b)
  BY DEF Runs
<1>2. IsList(l)
  BY DEF Runs
<1>3. /\ Head(l) = l[1] /\ IsList(Tail(l)) /\ Len(Tail(l)) = Len(l) - 1 /\ Len(l) > 0
      /\ \A i \in 1 .. Len(l) - 1 : Tail(l)[i] = l[i + 1]
  BY <1>2, HeadAndTail
<1>4. Len(l) \in Nat \ {0}
  BY <1>2, <1>3, ListFacts
<1>5. PICK k : k = Tail(l)
  OBVIOUS
<1>6. Steps(a, l[1], m[2])
  BY <1>1, <1>4 DEF Trace
<1> DEFINE n == [i \in 1 .. Len(l) |-> m[i + 1]]
<1>7. n[1] = m[2] /\ n[Len(k) + 1] = b
  BY <1>1, <1>3, <1>4, <1>5 DEF Trace
<1>8. ASSUME NEW i \in 1 .. Len(k) PROVE Steps(n[i], k[i], n[i + 1])
  <2>1. i + 1 \in 1 .. Len(l) /\ n[i] = m[i + 1] /\ n[i + 1] = m[(i + 1) + 1] /\ k[i] = l[i + 1]
    BY <1>3, <1>4, <1>5
  <2> QED
    BY <1>1, <2>1 DEF Trace
<1> HIDE DEF n
<1>9. Trace(n, m[2], k, b)
  BY <1>7, <1>8 DEF Trace
<1>10. m[2] \in AllMarks
  BY <1>6 DEF Steps
<1>11. Runs(m[2], k, b)
  BY <1>3, <1>5, <1>9, <1>10 DEF Runs
<1> QED
  BY <1>3, <1>5, <1>6, <1>11

\* One more instruction.
LEMMA RunsMore ==
  ASSUME NEW a, NEW l, NEW b, NEW c, NEW d, Runs(a, l, b), Steps(b, c, d)
  PROVE  Runs(a, l \o <<c>>, d)
<1>1. b \in AllMarks
  BY RunsEnd
<1>2. PICK k : k = <<c>>
  OBVIOUS
<1>3. Runs(b, k, d)
  BY <1>1, <1>2, RunsOne
<1>4. Runs(a, l \o k, d)
  BY <1>3, RunsJoin
<1> QED
  BY <1>2, <1>4

\* Instructions that a parameter switches on.
LEMMA RunsWhen ==
  ASSUME NEW a \in AllMarks, NEW P \in BOOLEAN, NEW l, NEW b,
         P => Runs(a, l, b), ~P => b = a
  PROVE  Runs(a, When(P, l), b)
<1>1. CASE P
  BY <1>1 DEF When
<1>2. CASE ~P
  BY <1>2, RunsNothing DEF When
<1> QED
  BY <1>1, <1>2

LEMMA Runs2 ==
  ASSUME NEW a0 \in AllMarks, NEW c1, NEW a1, Steps(a0, c1, a1), NEW c2, NEW a2, Steps(a1, c2, a2)
  PROVE  Runs(a0, <<c1, c2>>, a2)
<1>1. PICK l : l = <<c1>>
  OBVIOUS
<1>2. PICK k : k = <<c2>>
  OBVIOUS
<1>3. PICK t : t = <<c1, c2>>
  OBVIOUS
<1>4. IsList(l) /\ Len(l) = 1 /\ l[1] = c1
  BY <1>1, OneStep
<1>5. IsList(k) /\ Len(k) = 1 /\ k[1] = c2
  BY <1>2, OneStep
<1>6. PICK j : j = l \o k
  OBVIOUS
<1>7. IsList(j) /\ Len(j) = 2 /\ j[1] = c1 /\ j[2] = c2
  BY <1>4, <1>5, <1>6, Joined
<1>8. Len(t) = 2 /\ t[1] = c1 /\ t[2] = c2 /\ t \in Seq({c1, c2})
  BY <1>3
<1>9. IsList(t)
  BY <1>8, ListIs
<1>10. t = j
  BY <1>7, <1>8, <1>9, SameList
<1>11. Runs(a0, l, a1)
  BY <1>1, RunsOne
<1>12. Runs(a0, l \o k, a2)
  BY <1>2, <1>11, RunsMore
<1> QED
  BY <1>3, <1>6, <1>10, <1>12

LEMMA Runs3 ==
  ASSUME NEW a0 \in AllMarks,
         NEW c1, NEW a1, Steps(a0, c1, a1),
         NEW c2, NEW a2, Steps(a1, c2, a2),
         NEW c3, NEW a3, Steps(a2, c3, a3)
  PROVE  Runs(a0, <<c1, c2, c3>>, a3)
<1>1. PICK l : l = <<c1, c2>>
  OBVIOUS
<1>2. Runs(a0, l, a2)
  BY <1>1, Runs2
<1>3. Runs(a0, l \o <<c3>>, a3)
  BY <1>2, RunsMore
<1>4. <<c1, c2, c3>> = <<c1, c2>> \o <<c3>>
  OBVIOUS
<1> QED
  BY <1>1, <1>3, <1>4

LEMMA Runs4 ==
  ASSUME NEW a0 \in AllMarks,
         NEW c1, NEW a1, Steps(a0, c1, a1),
         NEW c2, NEW a2, Steps(a1, c2, a2),
         NEW c3, NEW a3, Steps(a2, c3, a3),
         NEW c4, NEW a4, Steps(a3, c4, a4)
  PROVE  Runs(a0, <<c1, c2, c3, c4>>, a4)
<1>1. PICK l : l = <<c1, c2, c3>>
  OBVIOUS
<1>2. Runs(a0, l, a3)
  BY <1>1, Runs3
<1>3. Runs(a0, l \o <<c4>>, a4)
  BY <1>2, RunsMore
<1>4. <<c1, c2, c3, c4>> = <<c1, c2, c3>> \o <<c4>>
  OBVIOUS
<1> QED
  BY <1>1, <1>3, <1>4

LEMMA Runs5 ==
  ASSUME NEW a0 \in AllMarks,
         NEW c1, NEW a1, Steps(a0, c1, a1),
         NEW c2, NEW a2, Steps(a1, c2, a2),
         NEW c3, NEW a3, Steps(a2, c3, a3),
         NEW c4, NEW a4, Steps(a3, c4, a4),
         NEW c5, NEW a5, Steps(a4, c5, a5)
  PROVE  Runs(a0, <<c1, c2, c3, c4, c5>>, a5)
<1>1. PICK l : l = <<c1, c2, c3, c4>>
  OBVIOUS
<1>2. Runs(a0, l, a4)
  BY <1>1, Runs4
<1>3. Runs(a0, l \o <<c5>>, a5)
  BY <1>2, RunsMore
<1>4. <<c1, c2, c3, c4, c5>> = <<c1, c2, c3, c4>> \o <<c5>>
  OBVIOUS
<1> QED
  BY <1>1, <1>3, <1>4

LEMMA Runs6 ==
  ASSUME NEW a0 \in AllMarks,
         NEW c1, NEW a1, Steps(a0, c1, a1),
         NEW c2, NEW a2, Steps(a1, c2, a2),
         NEW c3, NEW a3, Steps(a2, c3, a3),
         NEW c4, NEW a4, Steps(a3, c4, a4),
         NEW c5, NEW a5, Steps(a4, c5, a5),
         NEW c6, NEW a6, Steps(a5, c6, a6)
  PROVE  Runs(a0, <<c1, c2, c3, c4, c5, c6>>, a6)
<1>1. PICK l : l = <<c1, c2, c3, c4, c5>>
  OBVIOUS
<1>2. Runs(a0, l, a5)
  BY <1>1, Runs5
<1>3. Runs(a0, l \o <<c6>>, a6)
  BY <1>2, RunsMore
<1>4. <<c1, c2, c3, c4, c5, c6>> = <<c1, c2, c3, c4, c5>> \o <<c6>>
  OBVIOUS
<1> QED
  BY <1>1, <1>3, <1>4

LEMMA Runs7 ==
  ASSUME NEW a0 \in AllMarks,
         NEW c1, NEW a1, Steps(a0, c1, a1),
         NEW c2, NEW a2, Steps(a1, c2, a2),
         NEW c3, NEW a3, Steps(a2, c3, a3),
         NEW c4, NEW a4, Steps(a3, c4, a4),
         NEW c5, NEW a5, Steps(a4, c5, a5),
         NEW c6, NEW a6, Steps(a5, c6, a6),
         NEW c7, NEW a7, Steps(a6, c7, a7)
  PROVE  Runs(a0, <<c1, c2, c3, c4, c5, c6, c7>>, a7)
<1>1. PICK l : l = <<c1, c2, c3, c4, c5, c6>>
  OBVIOUS
<1>2. Runs(a0, l, a6)
  BY <1>1, Runs6
<1>3. Runs(a0, l \o <<c7>>, a7)
  BY <1>2, RunsMore
<1>4. <<c1, c2, c3, c4, c5, c6, c7>> = <<c1, c2, c3, c4, c5, c6>> \o <<c7>>
  OBVIOUS
<1> QED
  BY <1>1, <1>3, <1>4

LEMMA Runs8 ==
  ASSUME NEW a0 \in AllMarks,
         NEW c1, NEW a1, Steps(a0, c1, a1),
         NEW c2, NEW a2, Steps(a1, c2, a2),
         NEW c3, NEW a3, Steps(a2, c3, a3),
         NEW c4, NEW a4, Steps(a3, c4, a4),
         NEW c5, NEW a5, Steps(a4, c5, a5),
         NEW c6, NEW a6, Steps(a5, c6, a6),
         NEW c7, NEW a7, Steps(a6, c7, a7),
         NEW c8, NEW a8, Steps(a7, c8, a8)
  PROVE  Runs(a0, <<c1, c2, c3, c4, c5, c6, c7, c8>>, a8)
<1>1. PICK l : l = <<c1, c2, c3, c4, c5, c6, c7>>
  OBVIOUS
<1>2. Runs(a0, l, a7)
  BY <1>1, Runs7
<1>3. Runs(a0, l \o <<c8>>, a8)
  BY <1>2, RunsMore
<1>4. <<c1, c2, c3, c4, c5, c6, c7, c8>> = <<c1, c2, c3, c4, c5, c6, c7>> \o <<c8>>
  OBVIOUS
<1> QED
  BY <1>1, <1>3, <1>4

LEMMA Runs9 ==
  ASSUME NEW a0 \in AllMarks,
         NEW c1, NEW a1, Steps(a0, c1, a1),
         NEW c2, NEW a2, Steps(a1, c2, a2),
         NEW c3, NEW a3, Steps(a2, c3, a3),
         NEW c4, NEW a4, Steps(a3, c4, a4),
         NEW c5, NEW a5, Steps(a4, c5, a5),
         NEW c6, NEW a6, Steps(a5, c6, a6),
         NEW c7, NEW a7, Steps(a6, c7, a7),
         NEW c8, NEW a8, Steps(a7, c8, a8),
         NEW c9, NEW a9, Steps(a8, c9, a9)
  PROVE  Runs(a0, <<c1, c2, c3, c4, c5, c6, c7, c8, c9>>, a9)
<1>1. PICK l : l = <<c1, c2, c3, c4, c5, c6, c7, c8>>
  OBVIOUS
<1>2. Runs(a0, l, a8)
  BY <1>1, Runs8
<1>3. Runs(a0, l \o <<c9>>, a9)
  BY <1>2, RunsMore
<1>4. <<c1, c2, c3, c4, c5, c6, c7, c8, c9>> = <<c1, c2, c3, c4, c5, c6, c7, c8>> \o <<c9>>
  OBVIOUS
<1> QED
  BY <1>1, <1>3, <1>4

LEMMA Runs10 ==
  ASSUME NEW a0 \in AllMarks,
         NEW c1, NEW a1, Steps(a0, c1, a1),
         NEW c2, NEW a2, Steps(a1, c2, a2),
         NEW c3, NEW a3, Steps(a2, c3, a3),
         NEW c4, NEW a4, Steps(a3, c4, a4),
         NEW c5, NEW a5, Steps(a4, c5, a5),
         NEW c6, NEW a6, Steps(a5, c6, a6),
         NEW c7, NEW a7, Steps(a6, c7, a7),
         NEW c8, NEW a8, Steps(a7, c8, a8),
         NEW c9, NEW a9, Steps(a8, c9, a9),
         NEW c10, NEW a10, Steps(a9, c10, a10)
  PROVE  Runs(a0, <<c1, c2, c3, c4, c5, c6, c7, c8, c9, c10>>, a10)
<1>1. PICK l : l = <<c1, c2, c3, c4, c5, c6, c7, c8, c9>>
  OBVIOUS
<1>2. Runs(a0, l, a9)
  BY <1>1, Runs9
<1>3. Runs(a0, l \o <<c10>>, a10)
  BY <1>2, RunsMore
<1>4. <<c1, c2, c3, c4, c5, c6, c7, c8, c9, c10>> = <<c1, c2, c3, c4, c5, c6, c7, c8, c9>> \o <<c10>>
  OBVIOUS
<1> QED
  BY <1>1, <1>3, <1>4

-----------------------------------------------------------------------------
(***************************************************************************)
(* The names of the grids, and what lists of terms and of grids name.      *)
(***************************************************************************)
LEMMA AxisNames ==
  /\ X("A3", 0) = "A3x" /\ X("A3", 1) = "A3y" /\ X("A3", 2) = "A3z"
  /\ X("p", 0) = "px" /\ X("p", 1) = "py" /\ X("p", 2) = "pz"
  /\ X("v", 0) = "vx" /\ X("v", 1) = "vy" /\ X("v", 2) = "vz"
BY DEF X, Axis

LEMMA FieldNames ==
  Fields = {"wnoise", "tmp", "phi", "phi2", "phi3", "A3x", "A3y", "A3z", "rho", "psi", "grad",
            "small", "copy", "delta", "delta2", "delta3", "inv", "speed", "norm", "ratio",
            "px", "py", "pz", "vx", "vy", "vz"}
<1>1. {A3(i) : i \in Dims} = {"A3x", "A3y", "A3z"}
  BY AxisNames DEF A3, Dims
<1>2. {X(v, i) : v \in {"p", "v"}, i \in Dims} = {"px", "py", "pz", "vx", "vy", "vz"}
  <2>1. Dims = {0, 1, 2}
    BY DEF Dims
  <2> QED
    BY <2>1, AxisNames
<1> QED
  BY <1>1, <1>2 DEF Fields, Potentials, Locals

LEMMA CyclicDims ==
  ASSUME NEW i \in Dims
  PROVE  /\ Cyclic(i)[1] = i /\ Cyclic(i)[2] \in Dims /\ Cyclic(i)[3] \in Dims
         /\ i = 0 => Cyclic(i)[2] = 1 /\ Cyclic(i)[3] = 2
         /\ i = 1 => Cyclic(i)[2] = 2 /\ Cyclic(i)[3] = 0
         /\ i = 2 => Cyclic(i)[2] = 0 /\ Cyclic(i)[3] = 1
BY DEF Cyclic, Dims

LEMMA SourcesOne ==
  ASSUME NEW p
  PROVE  Sources(<<p>>) = {p.of}
<1>1. PICK l : l = <<p>>
  OBVIOUS
<1>2. IsList(l) /\ Len(l) = 1 /\ l[1] = p
  BY <1>1, OneStep
<1>3. DOMAIN l = {1}
  BY <1>2, ListFacts
<1> QED
  BY <1>1, <1>2, <1>3 DEF Sources

LEMMA SourcesJoin ==
  ASSUME NEW l, IsList(l), NEW k, IsList(k)
  PROVE  Sources(l \o k) = Sources(l) \cup Sources(k)
<1>1. PICK j : j = l \o k
  OBVIOUS
<1>2. /\ IsList(j) /\ Len(j) = Len(l) + Len(k)
      /\ \A i \in 1 .. Len(l) : j[i] = l[i]
      /\ \A i \in 1 .. Len(k) : j[Len(l) + i] = k[i]
      /\ \A i \in 1 .. Len(l) + Len(k) : j[i] = IF i <= Len(l) THEN l[i] ELSE k[i - Len(l)]
  BY <1>1, Joined
<1>3. /\ Len(l) \in Nat /\ Len(k) \in Nat /\ DOMAIN l = 1 .. Len(l) /\ DOMAIN k = 1 .. Len(k)
      /\ DOMAIN j = 1 .. Len(l) + Len(k)
  BY <1>2, ListFacts
<1>4. ASSUME NEW i \in DOMAIN j PROVE j[i].of \in Sources(l) \cup Sources(k)
  <2>1. CASE i <= Len(l)
    <3>1. i \in DOMAIN l /\ j[i] = l[i]
      BY <1>2, <1>3, <2>1
    <3> QED
      BY <3>1 DEF Sources
  <2>2. CASE ~(i <= Len(l))
    <3>1. i - Len(l) \in DOMAIN k /\ j[i] = k[i - Len(l)]
      BY <1>2, <1>3, <2>2
    <3> QED
      BY <3>1 DEF Sources
  <2> QED
    BY <2>1, <2>2
<1>5. ASSUME NEW i \in DOMAIN l PROVE l[i].of \in Sources(j)
  <2>1. i \in DOMAIN j /\ j[i] = l[i]
    BY <1>2, <1>3
  <2> QED
    BY <2>1 DEF Sources
<1>6. ASSUME NEW i \in DOMAIN k PROVE k[i].of \in Sources(j)
  <2>1. Len(l) + i \in DOMAIN j /\ j[Len(l) + i] = k[i]
    BY <1>2, <1>3
  <2> QED
    BY <2>1 DEF Sources
<1>7. \A y : y \in Sources(j) => y \in Sources(l) \cup Sources(k)
  BY <1>4 DEF Sources
<1>8. \A y : y \in Sources(l) => y \in Sources(j)
  BY <1>5 DEF Sources
<1>9. \A y : y \in Sources(k) => y \in Sources(j)
  BY <1>6 DEF Sources
<1> QED
  BY <1>1, <1>7, <1>8, <1>9

LEMMA SourcesTwo ==
  ASSUME NEW p, NEW q
  PROVE  Sources(<<p, q>>) = {p.of, q.of} /\ IsList(<<p, q>>)
<1>1. PICK t : t = <<p, q>>
  OBVIOUS
<1>2. Len(t) = 2 /\ t[1] = p /\ t[2] = q /\ t \in Seq({p, q})
  BY <1>1
<1>3. IsList(t) /\ DOMAIN t = {1, 2}
  BY <1>2, ListIs
<1> QED
  BY <1>1, <1>2, <1>3 DEF Sources

LEMMA SourcesThree ==
  ASSUME NEW p, NEW q, NEW r
  PROVE  Sources(<<p, q, r>>) = {p.of, q.of, r.of} /\ IsList(<<p, q, r>>)
<1>1. PICK t : t = <<p, q, r>>
  OBVIOUS
<1>2. Len(t) = 3 /\ t[1] = p /\ t[2] = q /\ t[3] = r /\ t \in Seq({p, q, r})
  BY <1>1
<1>3. IsList(t) /\ DOMAIN t = {1, 2, 3}
  BY <1>2, ListIs
<1> QED
  BY <1>1, <1>2, <1>3 DEF Sources

LEMMA ReadsNothing == Range(<<>>) = {}
<1>1. DOMAIN <<>> = {}
  OBVIOUS
<1> QED
  BY <1>1 DEF Range

LEMMA ReadsOne ==
  ASSUME NEW x
  PROVE  Range(<<x>>) = {x}
<1>1. PICK l : l = <<x>>
  OBVIOUS
<1>2. IsList(l) /\ Len(l) = 1 /\ l[1] = x
  BY <1>1, OneStep
<1>3. DOMAIN l = {1}
  BY <1>2, ListFacts
<1> QED
  BY <1>1, <1>2, <1>3 DEF Range

LEMMA ReadsTwo ==
  ASSUME NEW x, NEW y
  PROVE  Range(<<x, y>>) = {x, y}
<1>1. PICK t : t = <<x, y>>
  OBVIOUS
<1>2. DOMAIN t = {1, 2} /\ t[1] = x /\ t[2] = y
  BY <1>1
<1> QED
  BY <1>1, <1>2 DEF Range

LEMMA ReadsThree ==
  ASSUME NEW x, NEW y, NEW z
  PROVE  Range(<<x, y, z>>) = {x, y, z}
<1>1. PICK t : t = <<x, y, z>>
  OBVIOUS
<1>2. DOMAIN t = {1, 2, 3} /\ t[1] = x /\ t[2] = y /\ t[3] = z
  BY <1>1
<1> QED
  BY <1>1, <1>2 DEF Range

LEMMA StepsEnd ==
  ASSUME NEW a, NEW c, NEW b, Steps(a, c, b)
  PROVE  b \in AllMarks
BY DEF Steps

\* The inputs of a convolution that are in Fourier space stay as they are.
LEMMA ConvolveKeeps ==
  ASSUME NEW a \in AllMarks, NEW x \in Fields, a[x] \in {"k0", "k"},
         NEW parts, \A y \in Sources(parts) : y \in Fields /\ a[y] = "k",
         x \notin Sources(parts),
         NEW factor, NEW add \in BOOLEAN, add => a[x] = "k"
  PROVE  Steps(a, Convolve(x, parts, factor, add), [a EXCEPT ![x] = "k"])
<1>1. Transformed(a, Sources(parts)) = a
  BY DEF Transformed, AllMarks
<1> QED
  BY <1>1, ConvolveSteps

\* A combination of one grid, or of two.
LEMMA CombineOne ==
  ASSUME NEW a \in AllMarks, NEW x \in Fields, a[x] \in {"k0", "k", "k8"},
         NEW g \in Fields, a[g] = "k", NEW c, NEW by
  PROVE  /\ Steps(a, Combine(x, "k", <<Term(g, c, by)>>, FALSE, TRUE), [a EXCEPT ![x] = "k"])
         /\ Steps(a, Combine(x, "k", <<Term(g, c, by)>>, FALSE, FALSE), [a EXCEPT ![x] = "k8"])
         /\ a[x] = "k" => Steps(a, Combine(x, "k", <<Term(g, c, by)>>, TRUE, TRUE), a)
<1>1. PICK l : l = <<Term(g, c, by)>>
  OBVIOUS
<1>2. Sources(l) = {g}
  BY <1>1, SourcesOne DEF Term
<1>3. ASSUME NEW add \in BOOLEAN, add => a[x] = "k", NEW dc \in BOOLEAN
      PROVE  Steps(a, Combine(x, "k", l, add, dc), [a EXCEPT ![x] = CombineMark(dc)])
  BY <1>2, <1>3, CombineSteps
<1>4. Steps(a, Combine(x, "k", l, FALSE, TRUE), [a EXCEPT ![x] = "k"])
  BY <1>3 DEF CombineMark
<1>5. Steps(a, Combine(x, "k", l, FALSE, FALSE), [a EXCEPT ![x] = "k8"])
  BY <1>3 DEF CombineMark
<1>6. ASSUME a[x] = "k" PROVE Steps(a, Combine(x, "k", l, TRUE, TRUE), a)
  <2>1. Steps(a, Combine(x, "k", l, TRUE, TRUE), [a EXCEPT ![x] = "k"])
    BY <1>3, <1>6 DEF CombineMark
  <2>2. [a EXCEPT ![x] = "k"] = a
    BY <1>6 DEF AllMarks
  <2> QED
    BY <2>1, <2>2
<1> QED
  BY <1>1, <1>4, <1>5, <1>6

LEMMA CombineTwo ==
  ASSUME NEW a \in AllMarks, NEW x \in Fields, a[x] \in {"k0", "k", "k8"},
         NEW g \in Fields, a[g] = "k", NEW c, NEW by,
         NEW h \in Fields, a[h] = "k", NEW d, NEW per
  PROVE  Steps(a, Combine(x, "k", <<Term(g, c, by), Term(h, d, per)>>, FALSE, TRUE),
               [a EXCEPT ![x] = "k"])
<1>1. PICK l : l = <<Term(g, c, by), Term(h, d, per)>>
  OBVIOUS
<1>2. Sources(l) = {g, h}
  BY <1>1, SourcesTwo DEF Term
<1>3. ASSUME NEW add \in BOOLEAN, add => a[x] = "k", NEW dc \in BOOLEAN
      PROVE  Steps(a, Combine(x, "k", l, add, dc), [a EXCEPT ![x] = CombineMark(dc)])
  BY <1>2, <1>3, CombineSteps
<1>4. Steps(a, Combine(x, "k", l, FALSE, TRUE), [a EXCEPT ![x] = "k"])
  BY <1>3 DEF CombineMark
<1> QED
  BY <1>1, <1>4

\* A convolution of two derivatives, or of three.
LEMMA ConvolveTwo ==
  ASSUME NEW a \in AllMarks, NEW x \in Fields, a[x] \in {"k0", "k"},
         NEW g \in Fields \ {x}, a[g] = "k", NEW h \in Fields \ {x}, a[h] = "k",
         NEW kp, NEW dp, NEW kq, NEW dq, NEW factor
  PROVE  /\ Steps(a, Convolve(x, <<Deriv(g, kp, dp), Deriv(h, kq, dq)>>, factor, FALSE),
                  [a EXCEPT ![x] = "k"])
         /\ a[x] = "k" =>
              Steps(a, Convolve(x, <<Deriv(g, kp, dp), Deriv(h, kq, dq)>>, factor, TRUE), a)
<1>1. PICK l : l = <<Deriv(g, kp, dp), Deriv(h, kq, dq)>>
  OBVIOUS
<1>2. x \notin Sources(l) /\ \A y \in Sources(l) : y \in Fields /\ a[y] = "k"
  BY <1>1, SourcesTwo DEF Deriv
<1>3. ASSUME NEW add \in BOOLEAN, add => a[x] = "k"
      PROVE  Steps(a, Convolve(x, l, factor, add), [a EXCEPT ![x] = "k"])
  BY <1>2, <1>3, ConvolveKeeps
<1>4. Steps(a, Convolve(x, l, factor, FALSE), [a EXCEPT ![x] = "k"])
  BY <1>3
<1>5. ASSUME a[x] = "k" PROVE Steps(a, Convolve(x, l, factor, TRUE), a)
  <2>1. Steps(a, Convolve(x, l, factor, TRUE), [a EXCEPT ![x] = "k"])
    BY <1>3, <1>5
  <2>2. [a EXCEPT ![x] = "k"] = a
    BY <1>5 DEF AllMarks
  <2> QED
    BY <2>1, <2>2
<1> QED
  BY <1>1, <1>4, <1>5

LEMMA ConvolveThree ==
  ASSUME NEW a \in AllMarks, NEW x \in Fields, a[x] \in {"k0", "k"},
         NEW g \in Fields \ {x}, a[g] = "k", NEW dp, NEW dq, NEW dr, NEW factor
  PROVE  /\ Steps(a, Convolve(x, <<Deriv(g, "hessian", dp), Deriv(g, "hessian", dq),
                                   Deriv(g, "hessian", dr)>>, factor, FALSE),
                  [a EXCEPT ![x] = "k"])
         /\ a[x] = "k" =>
              Steps(a, Convolve(x, <<Deriv(g, "hessian", dp), Deriv(g, "hessian", dq),
                                     Deriv(g, "hessian", dr)>>, factor, TRUE), a)
<1>1. PICK l : l = <<Deriv(g, "hessian", dp), Deriv(g, "hessian", dq), Deriv(g, "hessian", dr)>>
  OBVIOUS
<1>2. x \notin Sources(l) /\ \A y \in Sources(l) : y \in Fields /\ a[y] = "k"
  BY <1>1, SourcesThree DEF Deriv
<1>3. ASSUME NEW add \in BOOLEAN, add => a[x] = "k"
      PROVE  Steps(a, Convolve(x, l, factor, add), [a EXCEPT ![x] = "k"])
  BY <1>2, <1>3, ConvolveKeeps
<1>4. Steps(a, Convolve(x, l, factor, FALSE), [a EXCEPT ![x] = "k"])
  BY <1>3
<1>5. ASSUME a[x] = "k" PROVE Steps(a, Convolve(x, l, factor, TRUE), a)
  <2>1. Steps(a, Convolve(x, l, factor, TRUE), [a EXCEPT ![x] = "k"])
    BY <1>3, <1>5
  <2>2. [a EXCEPT ![x] = "k"] = a
    BY <1>5 DEF AllMarks
  <2> QED
    BY <2>1, <2>2
<1> QED
  BY <1>1, <1>4, <1>5

\* Grids a and b differ at most on S.
Kept(a, b, S) == \A x \in Fields \ S : b[x] = a[x]

LEMMA KeptTwice ==
  ASSUME NEW a, NEW b, NEW c, NEW S, NEW T, Kept(a, b, S), Kept(b, c, T)
  PROVE  Kept(a, c, S \cup T)
BY DEF Kept

\* A grid that some earlier block has used is declared to be in a space.
LEMMA DeclareAny ==
  ASSUME NEW a \in AllMarks, NEW x \in Fields, a[x] \in {"r0", "k0", "r", "k"}
  PROVE  /\ \E b \in AllMarks : /\ Steps(a, Declare(x, "k"), b)
                              /\ b[x] \in {"k0", "k"} /\ Kept(a, b, {x})
         /\ \E b \in AllMarks : /\ Steps(a, Declare(x, "r"), b)
                              /\ b[x] \in {"r0", "r"} /\ Kept(a, b, {x})
<1>1. ASSUME NEW to \in {"r", "k"}
      PROVE  \E b \in AllMarks : /\ Steps(a, Declare(x, to), b)
                                /\ b[x] = Declared(a[x], to) /\ Kept(a, b, {x})
  <2>1. PICK b : b = [a EXCEPT ![x] = Declared(a[x], to)]
    OBVIOUS
  <2>2. Steps(a, Declare(x, to), b)
    BY <2>1, DeclareSteps
  <2>3. b \in AllMarks
    BY <2>2, StepsEnd
  <2>4. b[x] = Declared(a[x], to) /\ Kept(a, b, {x})
    BY <2>1 DEF AllMarks, Kept
  <2> QED
    BY <2>2, <2>3, <2>4
<1>2. Declared(a[x], "k") \in {"k0", "k"} /\ Declared(a[x], "r") \in {"r0", "r"}
  BY DEF Declared, SpaceMark
<1> QED
  BY <1>1, <1>2

-----------------------------------------------------------------------------
(***************************************************************************)
(* The blocks up to the potentials.                                        *)
(***************************************************************************)
LEMMA DrawNoiseRuns ==
  ASSUME NEW a \in AllMarks
  PROVE  \E b \in AllMarks : /\ Runs(a, DrawNoise, b)
                             /\ b["wnoise"] = "k"
                             /\ b["phi"] = "r0"
                             /\ b["tmp"] = "r0"
<1>1. {"wnoise", "phi", "tmp"} \subseteq Fields
  BY FieldNames
<1>2. PICK a1 \in AllMarks : Steps(a, New("wnoise"), a1) /\ a1 = [a EXCEPT !["wnoise"] = "r0"]
  BY <1>1, NewSteps, StepsEnd
<1>3. PICK a2 \in AllMarks : /\ Steps(a1, Apply("wnoise", "white noise", <<>>), a2)
                             /\ a2 = [a1 EXCEPT !["wnoise"] = "r"]
  <2>1. a1["wnoise"] = "r0"
    BY <1>1, <1>2 DEF AllMarks
  <2>2. Steps(a1, Apply("wnoise", "white noise", <<>>), [a1 EXCEPT !["wnoise"] = "r"])
    BY <1>1, <2>1, ApplySteps, ReadsNothing
  <2> QED
    BY <2>2, StepsEnd
<1>4. PICK a3 \in AllMarks : /\ Steps(a2, Forward("wnoise"), a3)
                             /\ a3 = [a2 EXCEPT !["wnoise"] = "k"]
  <2>1. a2["wnoise"] = "r"
    BY <1>1, <1>2, <1>3 DEF AllMarks
  <2> QED
    BY <1>1, <2>1, ForwardSteps, StepsEnd
<1>5. PICK a4 \in AllMarks : Steps(a3, New("phi"), a4) /\ a4 = [a3 EXCEPT !["phi"] = "r0"]
  BY <1>1, NewSteps, StepsEnd
<1>6. PICK a5 \in AllMarks : Steps(a4, New("tmp"), a5) /\ a5 = [a4 EXCEPT !["tmp"] = "r0"]
  BY <1>1, NewSteps, StepsEnd
<1>7. Runs(a, DrawNoise, a5)
  BY <1>2, <1>3, <1>4, <1>5, <1>6, Runs5 DEF DrawNoise
<1>8. a5["wnoise"] = "k" /\ a5["phi"] = "r0" /\ a5["tmp"] = "r0"
  BY <1>1, <1>2, <1>3, <1>4, <1>5, <1>6 DEF AllMarks
<1> QED
  BY <1>7, <1>8

LEMMA ConstrainedRuns ==
  ASSUME NEW a \in AllMarks, a["wnoise"] = "k"
  PROVE  \E b \in AllMarks : Runs(a, ConstrainedNoise, b) /\ Kept(a, b, {"copy"})
<1>1. {"copy", "wnoise"} \subseteq Fields
  BY FieldNames
<1>2. PICK a1 \in AllMarks : Steps(a, New("copy"), a1) /\ a1 = [a EXCEPT !["copy"] = "r0"]
  BY <1>1, NewSteps, StepsEnd
<1>3. PICK a2 \in AllMarks : /\ Steps(a1, Apply("copy", "constraints", <<>>), a2)
                             /\ a2 = [a1 EXCEPT !["copy"] = "r"]
  <2>1. a1["copy"] = "r0"
    BY <1>1, <1>2 DEF AllMarks
  <2>2. Steps(a1, Apply("copy", "constraints", <<>>), [a1 EXCEPT !["copy"] = "r"])
    BY <1>1, <2>1, ApplySteps, ReadsNothing
  <2> QED
    BY <2>2, StepsEnd
<1>4. PICK a3 \in AllMarks : Steps(a2, Forward("copy"), a3) /\ a3 = [a2 EXCEPT !["copy"] = "k"]
  <2>1. a2["copy"] = "r"
    BY <1>1, <1>2, <1>3 DEF AllMarks
  <2> QED
    BY <1>1, <2>1, ForwardSteps, StepsEnd
<1>5. PICK a4 \in AllMarks :
        /\ Steps(a3,
                 Combine("wnoise", "k", <<Term("wnoise", 1, One("free modes")), Term("copy", 1,
                 One("constrained modes"))>>, FALSE, TRUE),
                 a4)
        /\ a4 = [a3 EXCEPT !["wnoise"] = "k"]
  <2>1. a3["wnoise"] = "k" /\ a3["copy"] = "k"
    BY <1>1, <1>2, <1>3, <1>4 DEF AllMarks
  <2>2. Steps(a3,
              Combine("wnoise", "k", <<Term("wnoise", 1, One("free modes")), Term("copy", 1,
              One("constrained modes"))>>, FALSE, TRUE),
              [a3 EXCEPT !["wnoise"] = "k"])
    BY <1>1, <2>1, CombineTwo
  <2> QED
    BY <2>2, StepsEnd
<1>6. PICK a5 \in AllMarks : Steps(a4, Drop({"copy"}), a5) /\ a5 = Dropped(a4, {"copy"})
  BY <1>1, DropSteps, StepsEnd
<1>7. Runs(a, ConstrainedNoise, a5)
  BY <1>2, <1>3, <1>4, <1>5, <1>6, Runs5 DEF ConstrainedNoise
<1>8. Kept(a, a5, {"copy"})
  BY <1>1, <1>2, <1>3, <1>4, <1>5, <1>6 DEF AllMarks, Dropped, Kept
<1> QED
  BY <1>7, <1>8

LEMMA NoiseAsItIsRuns ==
  ASSUME NEW a \in AllMarks, a["wnoise"] = "k"
  PROVE  \E b \in AllMarks : /\ Runs(a, NoiseAsItIs, b)
                             /\ Kept(a, b, {"wnoise"})
                             /\ b["wnoise"] = "k"
<1>1. {"wnoise"} \subseteq Fields
  BY FieldNames
<1>2. PICK a1 \in AllMarks : Steps(a, Backward("wnoise"), a1) /\ a1 = [a EXCEPT !["wnoise"] = "r"]
  BY <1>1, BackwardSteps, StepsEnd
<1>3. Steps(a1, File("wnoise"), a1)
  <2>1. a1["wnoise"] = "r"
    BY <1>1, <1>2 DEF AllMarks
  <2> QED
    BY <1>1, <2>1, FileSteps
<1>4. PICK a3 \in AllMarks : /\ Steps(a1, Forward("wnoise"), a3)
                             /\ a3 = [a1 EXCEPT !["wnoise"] = "k"]
  <2>1. a1["wnoise"] = "r"
    BY <1>1, <1>2 DEF AllMarks
  <2> QED
    BY <1>1, <2>1, ForwardSteps, StepsEnd
<1>5. Runs(a, NoiseAsItIs, a3)
  BY <1>2, <1>3, <1>4, Runs3 DEF NoiseAsItIs
<1>6. Kept(a, a3, {"wnoise"})
  BY <1>1, <1>2, <1>4 DEF AllMarks, Kept
<1>7. a3["wnoise"] = "k"
  BY <1>1, <1>2, <1>4 DEF AllMarks
<1> QED
  BY <1>5, <1>6, <1>7

LEMMA FirstOrderRuns ==
  ASSUME NEW a \in AllMarks, a["wnoise"] = "k", a["phi"] = "r0"
  PROVE  \E b \in AllMarks : Runs(a, FirstOrder, b) /\ Kept(a, b, {"phi"}) /\ b["phi"] = "k"
<1>1. {"phi", "wnoise"} \subseteq Fields
  BY FieldNames
<1>2. PICK a1 \in AllMarks : Steps(a, Declare("phi", "k"), a1) /\ a1 = [a EXCEPT !["phi"] = "k0"]
  BY <1>1, DeclareNew, StepsEnd
<1>3. PICK a2 \in AllMarks :
        /\ Steps(a1,
                 Combine("phi", "k", <<Term("wnoise", 1, Plus(One("delta_matter"),
                 Per("laplacian")))>>, FALSE, FALSE),
                 a2)
        /\ a2 = [a1 EXCEPT !["phi"] = "k8"]
  <2>1. a1["phi"] = "k0" /\ a1["wnoise"] = "k"
    BY <1>1, <1>2 DEF AllMarks
  <2>2. Steps(a1,
              Combine("phi", "k", <<Term("wnoise", 1, Plus(One("delta_matter"),
              Per("laplacian")))>>, FALSE, FALSE),
              [a1 EXCEPT !["phi"] = "k8"])
    BY <1>1, <2>1, CombineOne
  <2> QED
    BY <2>2, StepsEnd
<1>4. PICK a3 \in AllMarks : Steps(a2, ZeroDC("phi"), a3) /\ a3 = [a2 EXCEPT !["phi"] = "k"]
  <2>1. a2["phi"] = "k8"
    BY <1>1, <1>2, <1>3 DEF AllMarks
  <2> QED
    BY <1>1, <2>1, ZeroDCSteps, StepsEnd
<1>5. Runs(a, FirstOrder, a3)
  BY <1>2, <1>3, <1>4, Runs3 DEF FirstOrder
<1>6. Kept(a, a3, {"phi"})
  BY <1>1, <1>2, <1>3, <1>4 DEF AllMarks, Kept
<1>7. a3["phi"] = "k"
  BY <1>1, <1>2, <1>3, <1>4 DEF AllMarks
<1> QED
  BY <1>5, <1>6, <1>7

\* The inverse Laplacian leaves a grid finite, in Fourier space.
LEMMA InverseLaplacianRuns ==
  ASSUME NEW a \in AllMarks, NEW x \in Fields, a[x] = "k"
  PROVE  Runs(a, apply_InverseLaplacian(x), a)
<1>1. Steps(a, Forward(x), a)
  <2>1. Steps(a, Forward(x), [a EXCEPT ![x] = "k"])
    BY ForwardSteps
  <2>2. [a EXCEPT ![x] = "k"] = a
    BY DEF AllMarks
  <2> QED
    BY <2>1, <2>2
<1>2. PICK b : b = [a EXCEPT ![x] = "k8"]
  OBVIOUS
<1>3. Steps(a, Combine(x, "k", <<Term(x, 1, Per("laplacian"))>>, FALSE, FALSE), b)
  BY <1>2, CombineOne
<1>4. Steps(b, ZeroDC(x), a)
  <2>1. b \in AllMarks /\ b[x] = "k8"
    BY <1>2, <1>3, StepsEnd DEF AllMarks
  <2>2. Steps(b, ZeroDC(x), [b EXCEPT ![x] = "k"])
    BY <2>1, ZeroDCSteps
  <2>3. [b EXCEPT ![x] = "k"] = a
    BY <1>2 DEF AllMarks
  <2> QED
    BY <2>2, <2>3
<1> QED
  BY <1>1, <1>3, <1>4, Runs3 DEF apply_InverseLaplacian

-----------------------------------------------------------------------------
(***************************************************************************)
(* Lists between sets of marks: from any marks of A, the instructions l    *)
(* end in marks of B and read nothing that is not there.                   *)
(***************************************************************************)
Takes(A, l, B) == \A a \in A : \E b \in B : Runs(a, l, b)

LEMMA TakesJoin ==
  ASSUME NEW A, NEW B, NEW C, NEW l, NEW k, Takes(A, l, B), Takes(B, k, C)
  PROVE  Takes(A, l \o k, C)
<1>1. ASSUME NEW a \in A PROVE \E c \in C : Runs(a, l \o k, c)
  <2>1. PICK b \in B : Runs(a, l, b)
    BY DEF Takes
  <2>2. PICK c \in C : Runs(b, k, c)
    BY DEF Takes
  <2> QED
    BY <2>1, <2>2, RunsJoin
<1> QED
  BY <1>1 DEF Takes

LEMMA TakesThree ==
  ASSUME NEW A, NEW B, NEW C, NEW D, NEW l, NEW k, NEW m,
         Takes(A, l, B), Takes(B, k, C), Takes(C, m, D)
  PROVE  Takes(A, l \o k \o m, D)
<1>1. PICK j : j = l \o k
  OBVIOUS
<1>2. Takes(A, j, C)
  BY <1>1, TakesJoin
<1>3. Takes(A, j \o m, D)
  BY <1>2, TakesJoin
<1> QED
  BY <1>1, <1>3

LEMMA TakesWhen ==
  ASSUME NEW A \in SUBSET AllMarks, NEW B, NEW P \in BOOLEAN, NEW l,
         P => Takes(A, l, B), ~P => A \subseteq B
  PROVE  Takes(A, When(P, l), B)
<1>1. CASE P
  BY <1>1 DEF When
<1>2. CASE ~P
  <2>1. ASSUME NEW a \in A PROVE \E b \in B : Runs(a, <<>>, b)
    BY <1>2, RunsNothing
  <2> QED
    BY <1>2, <2>1 DEF Takes, When
<1> QED
  BY <1>1, <1>2

LEMMA TakesNothing ==
  ASSUME NEW A \in SUBSET AllMarks, NEW B, A \subseteq B
  PROVE  Takes(A, <<>>, B)
<1>1. ASSUME NEW a \in A PROVE \E b \in B : Runs(a, <<>>, b)
  BY RunsNothing
<1> QED
  BY <1>1 DEF Takes

LEMMA TakesWider ==
  ASSUME NEW A, NEW B, NEW C, NEW D, NEW l, A \subseteq B, Takes(B, l, C), C \subseteq D
  PROVE  Takes(A, l, D)
BY DEF Takes

\* The potentials that a run of order n keeps, with the noise.
Transversals == {"A3x", "A3y", "A3z"}
Stored(n) ==
  {"wnoise", "phi"} \cup (IF n > 1 THEN {"phi2"} ELSE {})
                    \cup (IF n > 2 THEN {"phi3"} \cup Transversals ELSE {})
Full(a, S) == \A x \in S : a[x] = "k"

LEMMA StoredFields ==
  ASSUME NEW n \in Int
  PROVE  Stored(n) \subseteq Fields /\ Stored(n) \subseteq Stored(3)
         /\ Stored(3) = {"wnoise", "phi", "phi2", "phi3", "A3x", "A3y", "A3z"}
BY FieldNames DEF Stored, Transversals

LEMMA FullKept ==
  ASSUME NEW a, NEW b, NEW S, S \subseteq Fields, NEW T, S \cap T = {}, Full(a, S), Kept(a, b, T)
  PROVE  Full(b, S)
BY DEF Full, Kept

\* The terms of a displacement or of a velocity are potentials of the run.
LEMMA OrderTermsRead ==
  ASSUME NEW i \in Dims, NEW c, NEW by
  PROVE  /\ IsList(OrderTerms(1, i, c, by)) /\ Sources(OrderTerms(1, i, c, by)) \subseteq {"phi"}
         /\ IsList(OrderTerms(2, i, c, by)) /\ Sources(OrderTerms(2, i, c, by)) \subseteq {"phi2"}
         /\ IsList(OrderTerms(3, i, c, by))
         /\ Sources(OrderTerms(3, i, c, by)) \subseteq {"phi3"} \cup Transversals
<1> DEFINE d(j) == Plus(by, One(X("d", j)))
           p == Cyclic(i)[2]
           pp == Cyclic(i)[3]
<1>1. IsList(OrderTerms(1, i, c, by)) /\ Sources(OrderTerms(1, i, c, by)) \subseteq {"phi"}
  <2>1. PICK t : t = Term("phi", c, d(i))
    OBVIOUS
  <2>2. OrderTerms(1, i, c, by) = <<t>>
    BY <2>1 DEF OrderTerms
  <2>3. t.of = "phi"
    BY <2>1 DEF Term
  <2> QED
    BY <2>2, <2>3, OneStep, SourcesOne
<1>2. IsList(OrderTerms(2, i, c, by)) /\ Sources(OrderTerms(2, i, c, by)) \subseteq {"phi2"}
  <2>1. PICK t : t = Term("phi2", c, d(i))
    OBVIOUS
  <2>2. OrderTerms(2, i, c, by) = <<t>>
    BY <2>1 DEF OrderTerms
  <2>3. t.of = "phi2"
    BY <2>1 DEF Term
  <2> QED
    BY <2>2, <2>3, OneStep, SourcesOne
<1>3. /\ IsList(OrderTerms(3, i, c, by))
      /\ Sources(OrderTerms(3, i, c, by)) \subseteq {"phi3"} \cup Transversals
  <2>1. PICK t, u, v : /\ t = Term("phi3", c, d(i)) /\ u = Term(A3(pp), c, d(p))
                       /\ v = Term(A3(p), -c, d(pp))
    OBVIOUS
  <2>2. OrderTerms(3, i, c, by) = <<t, u, v>>
    BY <2>1 DEF OrderTerms
  <2>3. t.of = "phi3" /\ u.of = A3(pp) /\ v.of = A3(p)
    BY <2>1 DEF Term
  <2>4. p \in Dims /\ pp \in Dims
    BY CyclicDims
  <2>5. \A j \in Dims : A3(j) \in Transversals
    BY AxisNames DEF A3, Dims, Transversals
  <2>6. IsList(<<t, u, v>>) /\ Sources(<<t, u, v>>) = {t.of, u.of, v.of}
    BY SourcesThree
  <2> HIDE DEF p, pp
  <2> QED
    BY <2>2, <2>3, <2>4, <2>5, <2>6
<1> QED
  BY <1>1, <1>2, <1>3

LEMMA WhenList ==
  ASSUME NEW P \in BOOLEAN, NEW l, IsList(l), NEW S, P => Sources(l) \subseteq S
  PROVE  IsList(When(P, l)) /\ Sources(When(P, l)) \subseteq S
<1>1. CASE P
  BY <1>1 DEF When
<1>2. CASE ~P
  <2>1. DOMAIN <<>> = {}
    OBVIOUS
  <2>2. When(P, l) = <<>>
    BY <1>2 DEF When
  <2> QED
    BY <2>1, <2>2, NoList DEF Sources
<1> QED
  BY <1>1, <1>2

LEMMA LPTTermsRead ==
  ASSUME NEW i \in Dims, NEW n \in Int, NEW weigh, NEW by
  PROVE  IsList(LPTTerms(i, n, weigh, by)) /\ Sources(LPTTerms(i, n, weigh, by)) \subseteq Stored(n)
<1>1. PICK l, k, m : /\ l = OrderTerms(1, i, weigh[1], by)
                     /\ k = OrderTerms(2, i, weigh[2], by)
                     /\ m = OrderTerms(3, i, weigh[3], by)
  OBVIOUS
<1>2. /\ IsList(l) /\ IsList(k) /\ IsList(m) /\ Sources(l) \subseteq {"phi"}
      /\ Sources(k) \subseteq {"phi2"} /\ Sources(m) \subseteq {"phi3"} \cup Transversals
  BY <1>1, OrderTermsRead
<1>3. PICK P \in BOOLEAN : P <=> n > 1
  OBVIOUS
<1>4. PICK Q \in BOOLEAN : Q <=> n > 2
  OBVIOUS
<1>5. IsList(When(P, k)) /\ Sources(When(P, k)) \subseteq Stored(n)
  <2>1. P => Sources(k) \subseteq Stored(n)
    BY <1>2, <1>3 DEF Stored
  <2> QED
    BY <1>2, <2>1, WhenList
<1>6. IsList(When(Q, m)) /\ Sources(When(Q, m)) \subseteq Stored(n)
  <2>1. Q => Sources(m) \subseteq Stored(n)
    BY <1>2, <1>4 DEF Stored
  <2> QED
    BY <1>2, <2>1, WhenList
<1>7. Sources(l) \subseteq Stored(n)
  BY <1>2 DEF Stored
<1>8. PICK u, v : u = When(P, k) /\ v = When(Q, m)
  OBVIOUS
<1>9. PICK j : j = l \o u
  OBVIOUS
<1>10. IsList(j) /\ Sources(j) = Sources(l) \cup Sources(u)
  BY <1>2, <1>5, <1>8, <1>9, Joined, SourcesJoin
<1>11. IsList(j \o v) /\ Sources(j \o v) = Sources(j) \cup Sources(v)
  BY <1>6, <1>8, <1>10, Joined, SourcesJoin
<1>12. LPTTerms(i, n, weigh, by) = j \o v
  BY <1>1, <1>3, <1>4, <1>8, <1>9 DEF LPTTerms, When
<1> QED
  BY <1>5, <1>6, <1>7, <1>8, <1>10, <1>11, <1>12

\* A combination of potentials of the run.
LEMMA CombineFull ==
  ASSUME NEW a \in AllMarks, NEW x \in Fields, a[x] \in {"k0", "k", "k8"},
         NEW S, S \subseteq Fields, Full(a, S), NEW l, Sources(l) \subseteq S
  PROVE  Steps(a, Combine(x, "k", l, FALSE, TRUE), [a EXCEPT ![x] = "k"])
<1>1. ASSUME NEW add \in BOOLEAN, add => a[x] = "k", NEW dc \in BOOLEAN
      PROVE  Steps(a, Combine(x, "k", l, add, dc), [a EXCEPT ![x] = CombineMark(dc)])
  BY <1>1, CombineSteps DEF Full
<1> QED
  BY <1>1 DEF CombineMark

-----------------------------------------------------------------------------
(***************************************************************************)
(* The exported noise, and the higher potentials.                          *)
(***************************************************************************)
LEMMA SmallerNoiseRuns ==
  ASSUME NEW a \in AllMarks, a["wnoise"] = "k"
  PROVE  \E b \in AllMarks : Runs(a, SmallerNoise, b) /\ Kept(a, b, {"small", "copy"})
<1>1. {"small", "wnoise", "copy"} \subseteq Fields
  BY FieldNames
<1>2. PICK a1 \in AllMarks : Steps(a, New("small"), a1) /\ a1 = [a EXCEPT !["small"] = "r0"]
  BY <1>1, NewSteps, StepsEnd
<1>3. PICK a2 \in AllMarks : Steps(a1, Forward("small"), a2) /\ a2 = [a1 EXCEPT !["small"] = "k0"]
  <2>1. a1["small"] = "r0"
    BY <1>1, <1>2 DEF AllMarks
  <2> QED
    BY <1>1, <2>1, ForwardNew, StepsEnd
<1>4. PICK a3 \in AllMarks :
        /\ Steps(a2,
                 Combine("small", "k", <<Term("wnoise", 1, One("low modes"))>>, FALSE, TRUE),
                 a3)
        /\ a3 = [a2 EXCEPT !["small"] = "k"]
  <2>1. a2["small"] = "k0" /\ a2["wnoise"] = "k"
    BY <1>1, <1>2, <1>3 DEF AllMarks
  <2>2. Steps(a2,
              Combine("small", "k", <<Term("wnoise", 1, One("low modes"))>>, FALSE, TRUE),
              [a2 EXCEPT !["small"] = "k"])
    BY <1>1, <2>1, CombineOne
  <2> QED
    BY <2>2, StepsEnd
<1>5. Steps(a3, Times("small", Plus(One("volfac"), Per("volfac_small"))), a3)
  <2>1. a3["small"] = "k"
    BY <1>1, <1>2, <1>3, <1>4 DEF AllMarks
  <2> QED
    BY <1>1, <2>1, TimesSteps
<1>6. PICK a5 \in AllMarks : Steps(a3, Backward("small"), a5) /\ a5 = [a3 EXCEPT !["small"] = "r"]
  <2>1. a3["small"] = "k"
    BY <1>1, <1>2, <1>3, <1>4 DEF AllMarks
  <2> QED
    BY <1>1, <2>1, BackwardSteps, StepsEnd
<1>7. PICK a6 \in AllMarks : Steps(a5, New("copy"), a6) /\ a6 = [a5 EXCEPT !["copy"] = "r0"]
  BY <1>1, NewSteps, StepsEnd
<1>8. PICK a7 \in AllMarks : /\ Steps(a6, Copy("copy", "small"), a7)
                             /\ a7 = [a6 EXCEPT !["copy"] = "r"]
  <2>1. a6["copy"] = "r0" /\ a6["small"] = "r"
    BY <1>1, <1>2, <1>3, <1>4, <1>6, <1>7 DEF AllMarks
  <2> QED
    BY <1>1, <2>1, CopySteps, StepsEnd
<1>9. Steps(a7, File("copy"), a7)
  <2>1. a7["copy"] = "r"
    BY <1>1, <1>2, <1>3, <1>4, <1>6, <1>7, <1>8 DEF AllMarks
  <2> QED
    BY <1>1, <2>1, FileSteps
<1>10. PICK a9 \in AllMarks : /\ Steps(a7, Drop({"small", "copy"}), a9)
                              /\ a9 = Dropped(a7, {"small", "copy"})
  BY <1>1, DropSteps, StepsEnd
<1>11. Runs(a, SmallerNoise, a9)
  BY <1>2, <1>3, <1>4, <1>5, <1>6, <1>7, <1>8, <1>9, <1>10, Runs9 DEF SmallerNoise
<1>12. Kept(a, a9, {"small", "copy"})
  BY <1>1, <1>2, <1>3, <1>4, <1>6, <1>7, <1>8, <1>10 DEF AllMarks, Dropped, Kept
<1> QED
  BY <1>11, <1>12

LEMMA MinorTermsRun ==
  ASSUME NEW a \in AllMarks, a["phi"] = "k"
  PROVE  \E b \in AllMarks : Runs(a, MinorTerms, b) /\ Kept(a, b, {"phi2"}) /\ b["phi2"] = "k"
<1>1. {"phi2", "phi"} \subseteq Fields
  BY FieldNames
<1>2. PICK a1 \in AllMarks : Steps(a, New("phi2"), a1) /\ a1 = [a EXCEPT !["phi2"] = "r0"]
  BY <1>1, NewSteps, StepsEnd
<1>3. PICK a2 \in AllMarks : /\ Steps(a1, Declare("phi2", "k"), a2)
                             /\ a2 = [a1 EXCEPT !["phi2"] = "k0"]
  <2>1. a1["phi2"] = "r0"
    BY <1>1, <1>2 DEF AllMarks
  <2> QED
    BY <1>1, <2>1, DeclareNew, StepsEnd
<1>4. PICK a3 \in AllMarks :
        /\ Steps(a2,
                 Convolve("phi2", <<Hessian("phi", 0, 0), SumOfHessians("phi", 1, 2)>>, 7, FALSE),
                 a3)
        /\ a3 = [a2 EXCEPT !["phi2"] = "k"]
  <2>1. a2["phi2"] = "k0" /\ a2["phi"] = "k"
    BY <1>1, <1>2, <1>3 DEF AllMarks
  <2>2. Steps(a2,
              Convolve("phi2", <<Hessian("phi", 0, 0), SumOfHessians("phi", 1, 2)>>, 7, FALSE),
              [a2 EXCEPT !["phi2"] = "k"])
    BY <1>1, <2>1, ConvolveTwo DEF Hessian, SumOfHessians
  <2> QED
    BY <2>2, StepsEnd
<1>5. Steps(a3, Convolve("phi2", <<Hessian("phi", 1, 1), Hessian("phi", 2, 2)>>, 7, TRUE), a3)
  <2>1. a3["phi2"] = "k" /\ a3["phi"] = "k"
    BY <1>1, <1>2, <1>3, <1>4 DEF AllMarks
  <2> QED
    BY <1>1, <2>1, ConvolveTwo DEF Hessian
<1>6. Steps(a3, Convolve("phi2", <<Hessian("phi", 0, 1), Hessian("phi", 0, 1)>>, -7, TRUE), a3)
  <2>1. a3["phi2"] = "k" /\ a3["phi"] = "k"
    BY <1>1, <1>2, <1>3, <1>4 DEF AllMarks
  <2> QED
    BY <1>1, <2>1, ConvolveTwo DEF Hessian
<1>7. Steps(a3, Convolve("phi2", <<Hessian("phi", 0, 2), Hessian("phi", 0, 2)>>, -7, TRUE), a3)
  <2>1. a3["phi2"] = "k" /\ a3["phi"] = "k"
    BY <1>1, <1>2, <1>3, <1>4 DEF AllMarks
  <2> QED
    BY <1>1, <2>1, ConvolveTwo DEF Hessian
<1>8. Steps(a3, Convolve("phi2", <<Hessian("phi", 1, 2), Hessian("phi", 1, 2)>>, -7, TRUE), a3)
  <2>1. a3["phi2"] = "k" /\ a3["phi"] = "k"
    BY <1>1, <1>2, <1>3, <1>4 DEF AllMarks
  <2> QED
    BY <1>1, <2>1, ConvolveTwo DEF Hessian
<1>9. Runs(a, MinorTerms, a3)
  BY <1>2, <1>3, <1>4, <1>5, <1>6, <1>7, <1>8, Runs7 DEF MinorTerms
<1>10. Kept(a, a3, {"phi2"})
  BY <1>1, <1>2, <1>3, <1>4 DEF AllMarks, Kept
<1>11. a3["phi2"] = "k"
  BY <1>1, <1>2, <1>3, <1>4 DEF AllMarks
<1> QED
  BY <1>9, <1>10, <1>11

LEMMA DeterminantRuns ==
  ASSUME NEW a \in AllMarks, a["phi"] = "k"
  PROVE  \E b \in AllMarks : /\ Runs(a, DeterminantTerm, b)
                             /\ Kept(a, b, {"phi3"})
                             /\ b["phi3"] = "k"
<1>1. {"phi3", "phi"} \subseteq Fields
  BY FieldNames
<1>2. PICK a1 \in AllMarks : Steps(a, New("phi3"), a1) /\ a1 = [a EXCEPT !["phi3"] = "r0"]
  BY <1>1, NewSteps, StepsEnd
<1>3. PICK a2 \in AllMarks : /\ Steps(a1, Declare("phi3", "k"), a2)
                             /\ a2 = [a1 EXCEPT !["phi3"] = "k0"]
  <2>1. a1["phi3"] = "r0"
    BY <1>1, <1>2 DEF AllMarks
  <2> QED
    BY <1>1, <2>1, DeclareNew, StepsEnd
<1>4. PICK a3 \in AllMarks :
        /\ Steps(a2,
                 Convolve("phi3", <<Hessian("phi", 0, 0), Hessian("phi", 1, 1), Hessian("phi", 2,
                 2)>>, 7, FALSE),
                 a3)
        /\ a3 = [a2 EXCEPT !["phi3"] = "k"]
  <2>1. a2["phi3"] = "k0" /\ a2["phi"] = "k"
    BY <1>1, <1>2, <1>3 DEF AllMarks
  <2>2. Steps(a2,
              Convolve("phi3", <<Hessian("phi", 0, 0), Hessian("phi", 1, 1), Hessian("phi", 2,
              2)>>, 7, FALSE),
              [a2 EXCEPT !["phi3"] = "k"])
    BY <1>1, <2>1, ConvolveThree DEF Hessian
  <2> QED
    BY <2>2, StepsEnd
<1>5. Steps(a3,
            Convolve("phi3", <<Hessian("phi", 0, 1), Hessian("phi", 0, 2), Hessian("phi", 1, 2)>>,
            14, TRUE),
            a3)
  <2>1. a3["phi3"] = "k" /\ a3["phi"] = "k"
    BY <1>1, <1>2, <1>3, <1>4 DEF AllMarks
  <2> QED
    BY <1>1, <2>1, ConvolveThree DEF Hessian
<1>6. Steps(a3,
            Convolve("phi3", <<Hessian("phi", 1, 2), Hessian("phi", 1, 2), Hessian("phi", 0, 0)>>,
            -7, TRUE),
            a3)
  <2>1. a3["phi3"] = "k" /\ a3["phi"] = "k"
    BY <1>1, <1>2, <1>3, <1>4 DEF AllMarks
  <2> QED
    BY <1>1, <2>1, ConvolveThree DEF Hessian
<1>7. Steps(a3,
            Convolve("phi3", <<Hessian("phi", 0, 2), Hessian("phi", 0, 2), Hessian("phi", 1, 1)>>,
            -7, TRUE),
            a3)
  <2>1. a3["phi3"] = "k" /\ a3["phi"] = "k"
    BY <1>1, <1>2, <1>3, <1>4 DEF AllMarks
  <2> QED
    BY <1>1, <2>1, ConvolveThree DEF Hessian
<1>8. Steps(a3,
            Convolve("phi3", <<Hessian("phi", 0, 1), Hessian("phi", 0, 1), Hessian("phi", 2, 2)>>,
            -7, TRUE),
            a3)
  <2>1. a3["phi3"] = "k" /\ a3["phi"] = "k"
    BY <1>1, <1>2, <1>3, <1>4 DEF AllMarks
  <2> QED
    BY <1>1, <2>1, ConvolveThree DEF Hessian
<1>9. Runs(a, DeterminantTerm, a3)
  BY <1>2, <1>3, <1>4, <1>5, <1>6, <1>7, <1>8, Runs7 DEF DeterminantTerm
<1>10. Kept(a, a3, {"phi3"})
  BY <1>1, <1>2, <1>3, <1>4 DEF AllMarks, Kept
<1>11. a3["phi3"] = "k"
  BY <1>1, <1>2, <1>3, <1>4 DEF AllMarks
<1> QED
  BY <1>9, <1>10, <1>11

LEMMA MixedRuns ==
  ASSUME NEW a \in AllMarks, a["phi"] = "k", a["phi2"] = "k", a["phi3"] = "k"
  PROVE  \E b \in AllMarks : Runs(a, MixedTerm, b) /\ Kept(a, b, {})
<1>1. {"phi3", "phi", "phi2"} \subseteq Fields
  BY FieldNames
<1>2. Steps(a,
            Convolve("phi3", <<Hessian("phi", 0, 0), SumOfHessians("phi2", 1, 2)>>, -5, TRUE),
            a)
  BY <1>1, ConvolveTwo DEF Hessian, SumOfHessians
<1>3. Steps(a,
            Convolve("phi3", <<Hessian("phi", 1, 1), SumOfHessians("phi2", 2, 0)>>, -5, TRUE),
            a)
  BY <1>1, ConvolveTwo DEF Hessian, SumOfHessians
<1>4. Steps(a,
            Convolve("phi3", <<Hessian("phi", 2, 2), SumOfHessians("phi2", 0, 1)>>, -5, TRUE),
            a)
  BY <1>1, ConvolveTwo DEF Hessian, SumOfHessians
<1>5. Steps(a, Convolve("phi3", <<Hessian("phi", 0, 1), Hessian("phi2", 0, 1)>>, 10, TRUE), a)
  BY <1>1, ConvolveTwo DEF Hessian
<1>6. Steps(a, Convolve("phi3", <<Hessian("phi", 0, 2), Hessian("phi2", 0, 2)>>, 10, TRUE), a)
  BY <1>1, ConvolveTwo DEF Hessian
<1>7. Steps(a, Convolve("phi3", <<Hessian("phi", 1, 2), Hessian("phi2", 1, 2)>>, 10, TRUE), a)
  BY <1>1, ConvolveTwo DEF Hessian
<1>8. Runs(a, MixedTerm, a)
  BY <1>2, <1>3, <1>4, <1>5, <1>6, <1>7, Runs6 DEF MixedTerm
<1>9. Kept(a, a, {})
  BY <1>1 DEF AllMarks, Kept
<1> QED
  BY <1>8, <1>9

LEMMA TransversalNames ==
  ASSUME NEW i \in Dims
  PROVE  A3(i) \in Transversals /\ A3(i) \in Fields
BY AxisNames, FieldNames DEF A3, Dims, Transversals

LEMMA CurlTermsRun ==
  ASSUME NEW i \in Dims, NEW a \in AllMarks, a["phi"] = "k", a["phi2"] = "k"
  PROVE  \E b \in AllMarks : Runs(a, CurlTerms(i), b) /\ Kept(a, b, {A3(i)}) /\ b[A3(i)] = "k"
<1>1. {A3(i), "phi", "phi2"} \subseteq Fields /\ A3(i) \notin {"phi", "phi2"}
  BY FieldNames, TransversalNames DEF Transversals
<1>2. PICK a1 \in AllMarks : Steps(a, New(A3(i)), a1) /\ a1 = [a EXCEPT ![A3(i)] = "r0"]
  BY <1>1, NewSteps, StepsEnd
<1>3. PICK a2 \in AllMarks : /\ Steps(a1, Declare(A3(i), "k"), a2)
                             /\ a2 = [a1 EXCEPT ![A3(i)] = "k0"]
  <2>1. a1[A3(i)] = "r0"
    BY <1>1, <1>2 DEF AllMarks
  <2> QED
    BY <1>1, <2>1, DeclareNew, StepsEnd
<1>4. PICK a3 \in AllMarks :
        /\ Steps(a2,
                 Convolve(A3(i), <<Hessian("phi2", i, Cyclic(i)[2]), Hessian("phi", i,
                 Cyclic(i)[3])>>, 7, FALSE),
                 a3)
        /\ a3 = [a2 EXCEPT ![A3(i)] = "k"]
  <2>1. a2[A3(i)] = "k0" /\ a2["phi"] = "k" /\ a2["phi2"] = "k"
    BY <1>1, <1>2, <1>3 DEF AllMarks
  <2>2. Steps(a2,
              Convolve(A3(i), <<Hessian("phi2", i, Cyclic(i)[2]), Hessian("phi", i,
              Cyclic(i)[3])>>, 7, FALSE),
              [a2 EXCEPT ![A3(i)] = "k"])
    BY <1>1, <2>1, ConvolveTwo DEF Hessian
  <2> QED
    BY <2>2, StepsEnd
<1>5. Steps(a3,
            Convolve(A3(i), <<Hessian("phi2", i, Cyclic(i)[3]), Hessian("phi", i, Cyclic(i)[2])>>,
            -7, TRUE),
            a3)
  <2>1. a3[A3(i)] = "k" /\ a3["phi"] = "k" /\ a3["phi2"] = "k"
    BY <1>1, <1>2, <1>3, <1>4 DEF AllMarks
  <2> QED
    BY <1>1, <2>1, ConvolveTwo DEF Hessian
<1>6. Steps(a3,
            Convolve(A3(i), <<Hessian("phi", Cyclic(i)[2], Cyclic(i)[3]),
            DifferenceOfHessians("phi2", Cyclic(i)[2], Cyclic(i)[3])>>, 7, TRUE),
            a3)
  <2>1. a3[A3(i)] = "k" /\ a3["phi"] = "k" /\ a3["phi2"] = "k"
    BY <1>1, <1>2, <1>3, <1>4 DEF AllMarks
  <2> QED
    BY <1>1, <2>1, ConvolveTwo DEF Hessian, DifferenceOfHessians
<1>7. Steps(a3,
            Convolve(A3(i), <<Hessian("phi2", Cyclic(i)[2], Cyclic(i)[3]),
            DifferenceOfHessians("phi", Cyclic(i)[2], Cyclic(i)[3])>>, -7, TRUE),
            a3)
  <2>1. a3[A3(i)] = "k" /\ a3["phi"] = "k" /\ a3["phi2"] = "k"
    BY <1>1, <1>2, <1>3, <1>4 DEF AllMarks
  <2> QED
    BY <1>1, <2>1, ConvolveTwo DEF Hessian, DifferenceOfHessians
<1>8. Runs(a, CurlTerms(i), a3)
  BY <1>2, <1>3, <1>4, <1>5, <1>6, <1>7, Runs6 DEF CurlTerms
<1>9. Kept(a, a3, {A3(i)})
  BY <1>1, <1>2, <1>3, <1>4 DEF AllMarks, Kept
<1>10. a3[A3(i)] = "k"
  BY <1>1, <1>2, <1>3, <1>4 DEF AllMarks
<1> QED
  BY <1>8, <1>9, <1>10

LEMMA TransversalRuns ==
  ASSUME NEW i \in Dims, NEW a \in AllMarks, a["phi"] = "k", a["phi2"] = "k"
  PROVE  \E b \in AllMarks : /\ Runs(a, Transversal(i), b)
                             /\ Kept(a, b, {A3(i)})
                             /\ b[A3(i)] = "k"
<1>1. PICK b \in AllMarks : Runs(a, CurlTerms(i), b) /\ Kept(a, b, {A3(i)}) /\ b[A3(i)] = "k"
  BY CurlTermsRun
<1>2. Runs(b, apply_InverseLaplacian(A3(i)), b)
  BY <1>1, TransversalNames, InverseLaplacianRuns
<1>3. Runs(a, Transversal(i), b)
  BY <1>1, <1>2, RunsJoin DEF Transversal
<1> QED
  BY <1>1, <1>3

LEMMA TransversalsRun ==
  ASSUME NEW a \in AllMarks, a["phi"] = "k", a["phi2"] = "k"
  PROVE  \E b \in AllMarks : /\ Runs(a, ForDims(Transversal), b)
                             /\ Kept(a, b, Transversals)
                             /\ Full(b, Transversals)
<1>1. {"phi", "phi2", "A3x", "A3y", "A3z"} \subseteq Fields
  BY FieldNames
<1>2. A3(0) = "A3x" /\ A3(1) = "A3y" /\ A3(2) = "A3z" /\ 0 \in Dims /\ 1 \in Dims /\ 2 \in Dims
  BY AxisNames DEF A3, Dims
<1>3. PICK b \in AllMarks : Runs(a, Transversal(0), b) /\ Kept(a, b, {"A3x"}) /\ b["A3x"] = "k"
  BY <1>2, TransversalRuns
<1>4. PICK c \in AllMarks : Runs(b, Transversal(1), c) /\ Kept(b, c, {"A3y"}) /\ c["A3y"] = "k"
  <2>1. b["phi"] = "k" /\ b["phi2"] = "k"
    BY <1>1, <1>3 DEF Kept
  <2> QED
    BY <1>2, <2>1, TransversalRuns
<1>5. PICK d \in AllMarks : Runs(c, Transversal(2), d) /\ Kept(c, d, {"A3z"}) /\ d["A3z"] = "k"
  <2>1. c["phi"] = "k" /\ c["phi2"] = "k"
    BY <1>1, <1>3, <1>4 DEF Kept
  <2>2. A3(2) = "A3z" /\ 2 \in Dims
    BY <1>2
  <2> QED
    BY <2>1, <2>2, TransversalRuns
<1>6. Runs(a, ForDims(Transversal), d)
  <2>1. PICK j : j = Transversal(0) \o Transversal(1)
    OBVIOUS
  <2>2. Runs(a, j, c)
    BY <1>3, <1>4, <2>1, RunsJoin
  <2>3. Runs(a, j \o Transversal(2), d)
    BY <1>5, <2>2, RunsJoin
  <2> QED
    BY <2>1, <2>3 DEF ForDims
<1>7. Kept(a, d, Transversals) /\ Full(d, Transversals)
  BY <1>1, <1>3, <1>4, <1>5 DEF Kept, Full, Transversals
<1> QED
  BY <1>6, <1>7

-----------------------------------------------------------------------------
(***************************************************************************)
(* The blocks between the noise and the complete potentials.               *)
(***************************************************************************)
Drawn == {a \in AllMarks : a["wnoise"] = "k" /\ a["phi"] = "r0" /\ a["tmp"] = "r0"}
Begun(n) ==
  {a \in AllMarks : /\ a["wnoise"] = "k" /\ a["phi"] = "k" /\ a["tmp"] = "r0"
                    /\ n > 1 => a["phi2"] = "k"}
Complete(n) == {a \in AllMarks : Full(a, Stored(n)) /\ a["tmp"] = "r0"}

LEMMA ConfigFacts ==
  ASSUME cfg \in Configs
  PROVE  /\ cfg.LPTorder \in Int /\ cfg.NeutrinoGridRes \in {"zero", "smaller", "same", "larger"}
         /\ cfg.odd \in BOOLEAN /\ cfg.DoBaryons \in BOOLEAN /\ cfg.DoBaryonVrel \in BOOLEAN
         /\ cfg.DoNeutrinoParticles \in BOOLEAN /\ cfg.constrained \in BOOLEAN
         /\ cfg.tides \in BOOLEAN /\ cfg.DoNeutrinoPhi2Corr \in BOOLEAN
         /\ cfg.DoNeutrinoPhi3Corr \in BOOLEAN /\ cfg.DoDensityVelocityCorr \in BOOLEAN
         /\ cfg.FastDFFormat \in BOOLEAN
BY ConfigsAssumption

LEMMA DrawNoiseTakes == Takes(AllMarks, DrawNoise, Drawn)
<1>1. ASSUME NEW a \in AllMarks PROVE \E b \in Drawn : Runs(a, DrawNoise, b)
  BY DrawNoiseRuns DEF Drawn
<1> QED
  BY <1>1 DEF Takes

LEMMA NormaliseTakes ==
  ASSUME cfg \in Configs
  PROVE  Takes(Drawn,
               When(cfg.constrained, ConstrainedNoise)
                 \o <<Combine("wnoise", "k", <<Term("wnoise", 1, Per("volfac"))>>, FALSE, TRUE)>>,
               Drawn)
<1> DEFINE c == Combine("wnoise", "k", <<Term("wnoise", 1, Per("volfac"))>>, FALSE, TRUE)
<1>1. {"wnoise", "phi", "tmp", "copy"} \subseteq Fields
  BY FieldNames
<1>2. Takes(Drawn, ConstrainedNoise, Drawn)
  <2>1. ASSUME NEW a \in Drawn PROVE \E b \in Drawn : Runs(a, ConstrainedNoise, b)
    <3>1. PICK b \in AllMarks : Runs(a, ConstrainedNoise, b) /\ Kept(a, b, {"copy"})
      BY ConstrainedRuns DEF Drawn
    <3>2. b \in Drawn
      BY <1>1, <3>1 DEF Drawn, Kept
    <3> QED
      BY <3>1, <3>2
  <2> QED
    BY <2>1 DEF Takes
<1>3. Takes(Drawn, When(cfg.constrained, ConstrainedNoise), Drawn)
  BY <1>2, ConfigFacts, TakesWhen DEF Drawn
<1>4. Takes(Drawn, <<c>>, Drawn)
  <2>1. ASSUME NEW a \in Drawn PROVE Runs(a, <<c>>, a)
    <3>1. Steps(a, c, [a EXCEPT !["wnoise"] = "k"])
      BY <1>1, CombineOne DEF Drawn
    <3>2. [a EXCEPT !["wnoise"] = "k"] = a
      BY <1>1 DEF Drawn, AllMarks
    <3> HIDE DEF c
    <3> QED
      BY <3>1, <3>2, RunsOne DEF Drawn
  <2> HIDE DEF c
  <2> QED
    BY <2>1 DEF Takes
<1> HIDE DEF c
<1>5. Takes(Drawn, When(cfg.constrained, ConstrainedNoise) \o <<c>>, Drawn)
  BY <1>3, <1>4, TakesJoin
<1> QED
  BY <1>5 DEF c

LEMMA ExportTakes ==
  ASSUME cfg \in Configs, ~(cfg.DoNeutrinoParticles /\ cfg.NeutrinoGridRes \in {"zero", "larger"})
  PROVE  Takes(Drawn,
               When(cfg.DoNeutrinoParticles,
                    CASE cfg.NeutrinoGridRes = "same" -> NoiseAsItIs
                      [] cfg.NeutrinoGridRes = "smaller" -> SmallerNoise),
               Drawn)
<1> DEFINE l == CASE cfg.NeutrinoGridRes = "same" -> NoiseAsItIs
                  [] cfg.NeutrinoGridRes = "smaller" -> SmallerNoise
<1>1. {"wnoise", "phi", "tmp", "copy", "small"} \subseteq Fields
  BY FieldNames
<1>2. Takes(Drawn, NoiseAsItIs, Drawn)
  <2>1. ASSUME NEW a \in Drawn PROVE \E b \in Drawn : Runs(a, NoiseAsItIs, b)
    <3>1. PICK b \in AllMarks : /\ Runs(a, NoiseAsItIs, b)
                                /\ Kept(a, b, {"wnoise"}) /\ b["wnoise"] = "k"
      BY NoiseAsItIsRuns DEF Drawn
    <3>2. b \in Drawn
      BY <1>1, <3>1 DEF Drawn, Kept
    <3> QED
      BY <3>1, <3>2
  <2> QED
    BY <2>1 DEF Takes
<1>3. Takes(Drawn, SmallerNoise, Drawn)
  <2>1. ASSUME NEW a \in Drawn PROVE \E b \in Drawn : Runs(a, SmallerNoise, b)
    <3>1. PICK b \in AllMarks : Runs(a, SmallerNoise, b) /\ Kept(a, b, {"small", "copy"})
      BY SmallerNoiseRuns DEF Drawn
    <3>2. b \in Drawn
      BY <1>1, <3>1 DEF Drawn, Kept
    <3> QED
      BY <3>1, <3>2
  <2> QED
    BY <2>1 DEF Takes
<1>4. cfg.DoNeutrinoParticles => Takes(Drawn, l, Drawn)
  BY <1>2, <1>3, ConfigFacts
<1> HIDE DEF l
<1>5. Takes(Drawn, When(cfg.DoNeutrinoParticles, l), Drawn)
  BY <1>4, ConfigFacts, TakesWhen DEF Drawn
<1> QED
  BY <1>5 DEF l

LEMMA FirstOrderTakes == Takes(Drawn, FirstOrder, Begun(1))
<1>1. {"wnoise", "phi", "tmp"} \subseteq Fields
  BY FieldNames
<1>2. ASSUME NEW a \in Drawn PROVE \E b \in Begun(1) : Runs(a, FirstOrder, b)
  <2>1. PICK b \in AllMarks : Runs(a, FirstOrder, b) /\ Kept(a, b, {"phi"}) /\ b["phi"] = "k"
    BY FirstOrderRuns DEF Drawn
  <2>2. b \in Begun(1)
    BY <1>1, <2>1 DEF Drawn, Begun, Kept
  <2> QED
    BY <2>1, <2>2
<1> QED
  BY <1>2 DEF Takes

LEMMA SecondOrderTakes ==
  ASSUME cfg \in Configs
  PROVE  Takes(Begun(1), When(cfg.LPTorder > 1, SecondOrder), Begun(cfg.LPTorder))
<1>1. {"wnoise", "phi", "tmp", "phi2"} \subseteq Fields
  BY FieldNames
<1> DEFINE tides == Combine("phi2", "k", <<Term("phi", -1, One("tides"))>>, TRUE, TRUE)
           factor == Times("phi2", One("C_2"))
<1>2. ASSUME NEW a \in Begun(1)
      PROVE  \E b \in Begun(cfg.LPTorder) : Runs(a, SecondOrder, b)
  <2>1. PICK b \in AllMarks : Runs(a, MinorTerms, b) /\ Kept(a, b, {"phi2"}) /\ b["phi2"] = "k"
    BY MinorTermsRun DEF Begun
  <2>2. b["phi"] = "k" /\ b \in Begun(cfg.LPTorder)
    BY <1>1, <2>1 DEF Begun, Kept
  <2>3. Runs(b, <<tides>>, b)
    <3>1. Steps(b, tides, b)
      BY <1>1, <2>1, <2>2, CombineOne
    <3> HIDE DEF tides
    <3> QED
      BY <3>1, RunsOne
  <2>4. Runs(b, <<factor>>, b)
    <3>1. Steps(b, factor, b)
      BY <1>1, <2>1, TimesSteps
    <3> HIDE DEF factor
    <3> QED
      BY <3>1, RunsOne
  <2> HIDE DEF tides, factor
  <2>5. Runs(b, When(AddExternalTides, <<tides>>), b)
    <3>1. AddExternalTides \in BOOLEAN
      BY DEF AddExternalTides
    <3> QED
      BY <2>3, <3>1, RunsWhen
  <2>6. Runs(b, When(cfg.DoNeutrinoPhi2Corr, <<factor>>), b)
    BY <2>4, ConfigFacts, RunsWhen
  <2>7. Runs(b, apply_InverseLaplacian("phi2"), b)
    BY <1>1, <2>1, InverseLaplacianRuns
  <2>8. PICK l, k : /\ l = MinorTerms \o When(AddExternalTides, <<tides>>)
                    /\ k = l \o apply_InverseLaplacian("phi2")
    OBVIOUS
  <2>9. Runs(a, l, b)
    BY <2>1, <2>5, <2>8, RunsJoin
  <2>10. Runs(a, k, b)
    BY <2>7, <2>8, <2>9, RunsJoin
  <2>11. Runs(a, k \o When(cfg.DoNeutrinoPhi2Corr, <<factor>>), b)
    BY <2>6, <2>10, RunsJoin
  <2>12. Runs(a, SecondOrder, b)
    BY <2>8, <2>11 DEF SecondOrder, tides, factor
  <2> QED
    BY <2>2, <2>12
<1>3. Takes(Begun(1), SecondOrder, Begun(cfg.LPTorder))
  BY <1>2 DEF Takes
<1>4. ~(cfg.LPTorder > 1) => Begun(1) \subseteq Begun(cfg.LPTorder)
  BY ConfigFacts DEF Begun
<1>5. Begun(1) \in SUBSET AllMarks /\ (cfg.LPTorder > 1) \in BOOLEAN
  BY ConfigFacts DEF Begun
<1> QED
  BY <1>3, <1>4, <1>5, TakesWhen

LEMMA ThirdOrderTakes ==
  ASSUME cfg \in Configs
  PROVE  Takes(Begun(cfg.LPTorder), When(cfg.LPTorder > 2, ThirdOrder), Complete(cfg.LPTorder))
<1>1. {"wnoise", "phi", "tmp", "phi2", "phi3", "A3x", "A3y", "A3z"} \subseteq Fields
  BY FieldNames
<1> DEFINE first == Times("phi3", One("C_1"))
           last == Times("phi3", Plus(One("C_3"), Per("C_1")))
<1>2. ASSUME cfg.LPTorder > 2, NEW a \in Begun(cfg.LPTorder)
      PROVE  \E b \in Complete(cfg.LPTorder) : Runs(a, ThirdOrder, b)
  <2>1. a["wnoise"] = "k" /\ a["phi"] = "k" /\ a["phi2"] = "k" /\ a["tmp"] = "r0" /\ a \in AllMarks
    BY <1>2, ConfigFacts DEF Begun
  <2>2. PICK b \in AllMarks : /\ Runs(a, DeterminantTerm, b)
                              /\ Kept(a, b, {"phi3"}) /\ b["phi3"] = "k"
    BY <2>1, DeterminantRuns
  <2>3. b["wnoise"] = "k" /\ b["phi"] = "k" /\ b["phi2"] = "k" /\ b["tmp"] = "r0"
    BY <1>1, <2>1, <2>2 DEF Kept
  <2>4. Runs(b, <<first>>, b)
    <3>1. Steps(b, first, b)
      BY <1>1, <2>2, TimesSteps
    <3> HIDE DEF first
    <3> QED
      BY <3>1, RunsOne
  <2> HIDE DEF first
  <2>5. Runs(b, When(cfg.DoNeutrinoPhi3Corr, <<first>>), b)
    BY <2>4, ConfigFacts, RunsWhen
  <2>6. Runs(b, MixedTerm, b)
    <3>1. PICK c \in AllMarks : Runs(b, MixedTerm, c) /\ Kept(b, c, {})
      BY <2>2, <2>3, MixedRuns
    <3>2. c = b
      BY <3>1 DEF Kept, AllMarks
    <3> QED
      BY <3>1, <3>2
  <2>7. Runs(b, apply_InverseLaplacian("phi3"), b)
    BY <1>1, <2>2, InverseLaplacianRuns
  <2>8. PICK d \in AllMarks : /\ Runs(b, ForDims(Transversal), d)
                              /\ Kept(b, d, Transversals) /\ Full(d, Transversals)
    BY <2>3, TransversalsRun
  <2>9. /\ d["wnoise"] = "k" /\ d["phi"] = "k" /\ d["phi2"] = "k" /\ d["phi3"] = "k"
        /\ d["tmp"] = "r0"
    BY <1>1, <2>2, <2>3, <2>8 DEF Kept, Transversals
  <2>10. Runs(d, <<last>>, d)
    <3>1. Steps(d, last, d)
      BY <1>1, <2>9, TimesSteps
    <3> HIDE DEF last
    <3> QED
      BY <3>1, RunsOne
  <2> HIDE DEF last
  <2>11. Runs(d, When(cfg.DoNeutrinoPhi3Corr, <<last>>), d)
    BY <2>10, ConfigFacts, RunsWhen
  <2>12. PICK l, k, m, j : /\ l = DeterminantTerm \o When(cfg.DoNeutrinoPhi3Corr, <<first>>)
                           /\ k = l \o MixedTerm
                           /\ m = k \o apply_InverseLaplacian("phi3")
                           /\ j = m \o ForDims(Transversal)
    OBVIOUS
  <2>13. Runs(a, l, b)
    BY <2>2, <2>5, <2>12, RunsJoin
  <2>14. Runs(a, k, b)
    BY <2>6, <2>12, <2>13, RunsJoin
  <2>15. Runs(a, m, b)
    BY <2>7, <2>12, <2>14, RunsJoin
  <2>16. Runs(a, j, d)
    BY <2>8, <2>12, <2>15, RunsJoin
  <2>17. Runs(a, j \o When(cfg.DoNeutrinoPhi3Corr, <<last>>), d)
    BY <2>11, <2>16, RunsJoin
  <2>18. Runs(a, ThirdOrder, d)
    BY <2>12, <2>17 DEF ThirdOrder, first, last
  <2>19. d \in Complete(cfg.LPTorder)
    BY <2>8, <2>9 DEF Complete, Full, Stored
  <2> QED
    BY <2>18, <2>19
<1>3. cfg.LPTorder > 2 => Takes(Begun(cfg.LPTorder), ThirdOrder, Complete(cfg.LPTorder))
  BY <1>2 DEF Takes
<1>4. ~(cfg.LPTorder > 2) => Begun(cfg.LPTorder) \subseteq Complete(cfg.LPTorder)
  BY ConfigFacts DEF Begun, Complete, Full, Stored
<1>5. Begun(cfg.LPTorder) \in SUBSET AllMarks /\ (cfg.LPTorder > 2) \in BOOLEAN
  BY ConfigFacts DEF Begun
<1> QED
  BY <1>3, <1>4, <1>5, TakesWhen

\* Instructions, one for every direction, that change no mark.
LEMMA RunsThree ==
  ASSUME NEW a, NEW l, NEW b, NEW k, NEW c, NEW m, NEW d,
         Runs(a, l, b), Runs(b, k, c), Runs(c, m, d)
  PROVE  Runs(a, l \o k \o m, d)
<1>1. PICK j : j = l \o k
  OBVIOUS
<1>2. Runs(a, j, c)
  BY <1>1, RunsJoin
<1>3. Runs(a, j \o m, d)
  BY <1>2, RunsJoin
<1> QED
  BY <1>1, <1>3

LEMMA ScalingTakes ==
  ASSUME cfg \in Configs
  PROVE  Takes(Complete(cfg.LPTorder), Scaling, Complete(cfg.LPTorder))
<1>1. {"phi", "phi2", "phi3", "A3x", "A3y", "A3z"} \subseteq Fields
  BY FieldNames
<1>2. A3(0) = "A3x" /\ A3(1) = "A3y" /\ A3(2) = "A3z"
  BY AxisNames DEF A3
<1> DEFINE three(i) == <<Times(A3(i), One("g3c"))>>
           second == <<Times("phi2", One("g2"))>>
           third == <<Times("phi3", One("g3"))>> \o ForDims(three)
<1>3. ASSUME NEW a \in Complete(cfg.LPTorder) PROVE Runs(a, Scaling, a)
  <2>1. /\ a \in AllMarks /\ a["phi"] = "k"
        /\ cfg.LPTorder > 1 => a["phi2"] = "k"
        /\ cfg.LPTorder > 2 => a["phi3"] = "k" /\ a["A3x"] = "k" /\ a["A3y"] = "k" /\ a["A3z"] = "k"
    BY DEF Complete, Full, Stored, Transversals
  <2>2. ASSUME NEW x \in Fields, a[x] = "k", NEW by PROVE Runs(a, <<Times(x, by)>>, a)
    <3>1. PICK c : c = Times(x, by)
      OBVIOUS
    <3>2. Steps(a, c, a)
      BY <2>1, <2>2, <3>1, TimesSteps
    <3> QED
      BY <2>1, <3>1, <3>2, RunsOne
  <2>3. cfg.LPTorder > 1 => Runs(a, second, a)
    BY <1>1, <2>1, <2>2
  <2>4. cfg.LPTorder > 2 => Runs(a, third, a)
    <3>1. CASE cfg.LPTorder > 2
      <4>1. Runs(a, three(0), a) /\ Runs(a, three(1), a) /\ Runs(a, three(2), a)
        BY <1>1, <1>2, <2>1, <2>2, <3>1
      <4>2. Runs(a, <<Times("phi3", One("g3"))>>, a)
        BY <1>1, <2>1, <2>2, <3>1
      <4>3. Runs(a, ForDims(three), a)
        <5> HIDE DEF three
        <5> QED
          BY <4>1, RunsThree DEF ForDims
      <4> QED
        BY <4>2, <4>3, RunsJoin
    <3> QED
      BY <3>1
  <2>5. Runs(a, <<Times("phi", One("g1"))>>, a)
    BY <1>1, <2>1, <2>2
  <2>6. Scaling = <<Times("phi", One("g1"))>> \o When(cfg.LPTorder > 1, second)
                    \o When(cfg.LPTorder > 2, third)
    BY DEF Scaling
  <2> HIDE DEF second, third
  <2>7. (cfg.LPTorder > 1) \in BOOLEAN /\ (cfg.LPTorder > 2) \in BOOLEAN
    BY ConfigFacts
  <2>8. Runs(a, When(cfg.LPTorder > 1, second), a) /\ Runs(a, When(cfg.LPTorder > 2, third), a)
    BY <2>1, <2>3, <2>4, <2>7, RunsWhen
  <2> QED
    BY <2>5, <2>6, <2>8, RunsThree
<1> QED
  BY <1>3 DEF Takes

-----------------------------------------------------------------------------
(***************************************************************************)
(* The diagnostics.                                                        *)
(***************************************************************************)
LEMMA LPTCombines ==
  ASSUME NEW a \in AllMarks, NEW x \in Fields, a[x] \in {"k0", "k", "k8"}, NEW i \in Dims,
         NEW n \in Int, Full(a, Stored(n)), NEW weigh, NEW by
  PROVE  Steps(a, Combine(x, "k", LPTTerms(i, n, weigh, by), FALSE, TRUE), [a EXCEPT ![x] = "k"])
BY LPTTermsRead, StoredFields, CombineFull

LEMMA OrderCombines ==
  ASSUME NEW a \in AllMarks, NEW x \in Fields, a[x] \in {"k0", "k", "k8"}, NEW i \in Dims,
         NEW n \in 1 .. 3, Full(a, Stored(3)), NEW c, NEW by
  PROVE  Steps(a, Combine(x, "k", OrderTerms(n, i, c, by), FALSE, TRUE), [a EXCEPT ![x] = "k"])
<1>1. PICK l : l = OrderTerms(n, i, c, by)
  OBVIOUS
<1>2. Sources(l) \subseteq Stored(3) /\ Stored(3) \subseteq Fields
  <2>1. n = 1 \/ n = 2 \/ n = 3
    OBVIOUS
  <2>2. Stored(3) = {"wnoise", "phi", "phi2", "phi3"} \cup Transversals
    BY DEF Stored
  <2> QED
    BY <1>1, <2>1, <2>2, OrderTermsRead, StoredFields
<1> QED
  BY <1>1, <1>2, CombineFull

\* One scaling changes no mark.
LEMMA TimesRuns ==
  ASSUME NEW a \in AllMarks, NEW x \in Fields, a[x] \in {"r", "k"}, NEW by
  PROVE  Runs(a, <<Times(x, by)>>, a)
<1>1. PICK c : c = Times(x, by)
  OBVIOUS
<1>2. Steps(a, c, a)
  BY <1>1, TimesSteps
<1> QED
  BY <1>1, <1>2, RunsOne

LEMMA WhiteNoiseTestRuns ==
  ASSUME NEW a \in AllMarks, a["wnoise"] = "k"
  PROVE  \E b \in AllMarks : Runs(a, test_white_noise, b) /\ Kept(a, b, {"copy"})
<1>1. {"copy", "wnoise"} \subseteq Fields
  BY FieldNames
<1>2. PICK a1 \in AllMarks : Steps(a, New("copy"), a1) /\ a1 = [a EXCEPT !["copy"] = "r0"]
  BY <1>1, NewSteps, StepsEnd
<1>3. PICK a2 \in AllMarks : /\ Steps(a1, Declare("copy", "k"), a2)
                             /\ a2 = [a1 EXCEPT !["copy"] = "k0"]
  <2>1. a1["copy"] = "r0"
    BY <1>1, <1>2 DEF AllMarks
  <2> QED
    BY <1>1, <2>1, DeclareNew, StepsEnd
<1>4. PICK a3 \in AllMarks :
        /\ Steps(a2,
                 Combine("copy", "k", <<Term("wnoise", 1, Nothing)>>, FALSE, TRUE),
                 a3)
        /\ a3 = [a2 EXCEPT !["copy"] = "k"]
  <2>1. a2["copy"] = "k0" /\ a2["wnoise"] = "k"
    BY <1>1, <1>2, <1>3 DEF AllMarks
  <2>2. Steps(a2,
              Combine("copy", "k", <<Term("wnoise", 1, Nothing)>>, FALSE, TRUE),
              [a2 EXCEPT !["copy"] = "k"])
    BY <1>1, <2>1, CombineOne
  <2> QED
    BY <2>2, StepsEnd
<1>5. PICK a4 \in AllMarks : /\ Steps(a3, Write_PowerSpectrum("copy"), a4)
                             /\ a4 = [a3 EXCEPT !["copy"] = "k"]
  <2>1. a3["copy"] = "k"
    BY <1>1, <1>2, <1>3, <1>4 DEF AllMarks
  <2> QED
    BY <1>1, <2>1, SpectrumSteps, StepsEnd
<1>6. PICK a5 \in AllMarks : Steps(a4, Backward("copy"), a5) /\ a5 = [a4 EXCEPT !["copy"] = "r"]
  <2>1. a4["copy"] = "k"
    BY <1>1, <1>2, <1>3, <1>4, <1>5 DEF AllMarks
  <2> QED
    BY <1>1, <2>1, BackwardSteps, StepsEnd
<1>7. Steps(a5, File("copy"), a5)
  <2>1. a5["copy"] = "r"
    BY <1>1, <1>2, <1>3, <1>4, <1>5, <1>6 DEF AllMarks
  <2> QED
    BY <1>1, <2>1, FileSteps
<1>8. PICK a7 \in AllMarks : Steps(a5, Drop({"copy"}), a7) /\ a7 = Dropped(a5, {"copy"})
  BY <1>1, DropSteps, StepsEnd
<1>9. Runs(a, test_white_noise, a7)
  BY <1>2, <1>3, <1>4, <1>5, <1>6, <1>7, <1>8, Runs7 DEF test_white_noise
<1>10. Kept(a, a7, {"copy"})
  BY <1>1, <1>2, <1>3, <1>4, <1>5, <1>6, <1>8 DEF AllMarks, Dropped, Kept
<1> QED
  BY <1>9, <1>10

\* Three grids are treated alike.
LEMMA ThreeDeclared ==
  ASSUME NEW a \in AllMarks, NEW x \in Fields, NEW y \in Fields \ {x}, NEW z \in Fields \ {x, y}
  PROVE  \E b \in AllMarks :
           /\ Runs(a, <<New(x), Declare(x, "k")>> \o <<New(y), Declare(y, "k")>>
                        \o <<New(z), Declare(z, "k")>>, b)
           /\ Kept(a, b, {x, y, z}) /\ b[x] = "k0" /\ b[y] = "k0" /\ b[z] = "k0"
<1>1. ASSUME NEW c \in AllMarks, NEW w \in Fields
      PROVE  /\ [c EXCEPT ![w] = "k0"] \in AllMarks
             /\ Runs(c, <<New(w), Declare(w, "k")>>, [c EXCEPT ![w] = "k0"])
  <2>1. PICK d : d = [c EXCEPT ![w] = "r0"]
    OBVIOUS
  <2>2. Steps(c, New(w), d)
    BY <2>1, NewSteps
  <2>3. d \in AllMarks /\ d[w] = "r0"
    BY <2>1, <2>2, StepsEnd DEF AllMarks
  <2>4. Steps(d, Declare(w, "k"), [c EXCEPT ![w] = "k0"])
    <3>1. Steps(d, Declare(w, "k"), [d EXCEPT ![w] = "k0"])
      BY <2>3, DeclareNew
    <3>2. [d EXCEPT ![w] = "k0"] = [c EXCEPT ![w] = "k0"]
      BY <2>1 DEF AllMarks
    <3> QED
      BY <3>1, <3>2
  <2> QED
    BY <2>2, <2>4, Runs2, StepsEnd
<1>2. PICK b, c, d : /\ b = [a EXCEPT ![x] = "k0"] /\ c = [b EXCEPT ![y] = "k0"]
                     /\ d = [c EXCEPT ![z] = "k0"]
  OBVIOUS
<1>3. b \in AllMarks /\ Runs(a, <<New(x), Declare(x, "k")>>, b)
  BY <1>1, <1>2
<1>4. c \in AllMarks /\ Runs(b, <<New(y), Declare(y, "k")>>, c)
  BY <1>1, <1>2, <1>3
<1>5. d \in AllMarks /\ Runs(c, <<New(z), Declare(z, "k")>>, d)
  BY <1>1, <1>2, <1>4
<1>6. Kept(a, d, {x, y, z}) /\ d[x] = "k0" /\ d[y] = "k0" /\ d[z] = "k0"
  BY <1>2 DEF AllMarks, Kept
<1> QED
  BY <1>3, <1>4, <1>5, <1>6, RunsThree

LEMMA ThreeBack ==
  ASSUME NEW a \in AllMarks, NEW x \in Fields, NEW y \in Fields \ {x}, NEW z \in Fields \ {x, y},
         a[x] \in {"r", "k"}, a[y] \in {"r", "k"}, a[z] \in {"r", "k"}
  PROVE  \E b \in AllMarks :
           /\ Runs(a, <<Backward(x)>> \o <<Backward(y)>> \o <<Backward(z)>>, b)
           /\ Kept(a, b, {x, y, z}) /\ b[x] = "r" /\ b[y] = "r" /\ b[z] = "r"
<1>1. ASSUME NEW c \in AllMarks, NEW w \in Fields, c[w] \in {"r", "k"}
      PROVE  /\ [c EXCEPT ![w] = "r"] \in AllMarks
             /\ Runs(c, <<Backward(w)>>, [c EXCEPT ![w] = "r"])
  BY <1>1, BackwardSteps, StepsEnd, RunsOne
<1>2. PICK b, c, d : /\ b = [a EXCEPT ![x] = "r"] /\ c = [b EXCEPT ![y] = "r"]
                     /\ d = [c EXCEPT ![z] = "r"]
  OBVIOUS
<1>3. b \in AllMarks /\ Runs(a, <<Backward(x)>>, b)
  BY <1>1, <1>2
<1>4. c \in AllMarks /\ Runs(b, <<Backward(y)>>, c)
  <2>1. b[y] \in {"r", "k"}
    BY <1>2 DEF AllMarks
  <2> QED
    BY <1>1, <1>2, <1>3, <2>1
<1>5. d \in AllMarks /\ Runs(c, <<Backward(z)>>, d)
  <2>1. c[z] \in {"r", "k"}
    BY <1>2 DEF AllMarks
  <2> QED
    BY <1>1, <1>2, <1>4, <2>1
<1>6. Kept(a, d, {x, y, z}) /\ d[x] = "r" /\ d[y] = "r" /\ d[z] = "r"
  BY <1>2 DEF AllMarks, Kept
<1> QED
  BY <1>3, <1>4, <1>5, <1>6, RunsThree

LEMMA ThreeFiles ==
  ASSUME NEW a \in AllMarks, NEW x \in Fields, NEW y \in Fields, NEW z \in Fields,
         a[x] = "r", a[y] = "r", a[z] = "r"
  PROVE  Runs(a, <<File(x)>> \o <<File(y)>> \o <<File(z)>>, a)
<1>1. ASSUME NEW w \in Fields, a[w] = "r" PROVE Runs(a, <<File(w)>>, a)
  BY <1>1, FileSteps, RunsOne
<1> QED
  BY <1>1, RunsThree

LEMMA ThreeSpectra ==
  ASSUME NEW a \in AllMarks, NEW x \in Fields, NEW y \in Fields, NEW z \in Fields,
         a[x] = "k", a[y] = "k", a[z] = "k"
  PROVE  Runs(a, <<Write_PowerSpectrum(x)>> \o <<Write_PowerSpectrum(y)>>
                   \o <<Write_PowerSpectrum(z)>>, a)
<1>1. ASSUME NEW w \in Fields, a[w] = "k" PROVE Runs(a, <<Write_PowerSpectrum(w)>>, a)
  <2>1. [a EXCEPT ![w] = "k"] = a
    BY <1>1 DEF AllMarks
  <2>2. Steps(a, Write_PowerSpectrum(w), [a EXCEPT ![w] = "k"])
    BY <1>1, SpectrumSteps
  <2> QED
    BY <2>1, <2>2, RunsOne
<1> QED
  BY <1>1, RunsThree

LEMMA DensitiesRun ==
  ASSUME NEW a \in AllMarks, a["phi"] = "k", a["phi2"] = "k", a["phi3"] = "k",
         a["delta"] = "k0", a["delta2"] = "k0", a["delta3"] = "k0"
  PROVE  \E b \in AllMarks :
           /\ Runs(a, <<Combine("delta", "k", <<Term("phi", 1, One("laplacian"))>>, FALSE, TRUE)>>
                   \o <<Combine("delta2", "k", <<Term("phi2", 1, One("laplacian"))>>, FALSE, TRUE)>>
                   \o <<Combine("delta3", "k", <<Term("phi3", 1, One("laplacian"))>>, FALSE, TRUE)>>,
                   b)
           /\ Kept(a, b, {"delta", "delta2", "delta3"})
           /\ b["delta"] = "k" /\ b["delta2"] = "k" /\ b["delta3"] = "k"
<1>1. {"phi", "phi2", "phi3", "delta", "delta2", "delta3"} \subseteq Fields
  BY FieldNames
<1>2. ASSUME NEW c \in AllMarks, NEW x \in Fields, c[x] = "k0", NEW g \in Fields, c[g] = "k", NEW by
      PROVE  /\ [c EXCEPT ![x] = "k"] \in AllMarks
             /\ Runs(c, <<Combine(x, "k", <<Term(g, 1, by)>>, FALSE, TRUE)>>, [c EXCEPT ![x] = "k"])
  BY <1>2, CombineOne, StepsEnd, RunsOne
<1>3. PICK b, c, d : /\ b = [a EXCEPT !["delta"] = "k"] /\ c = [b EXCEPT !["delta2"] = "k"]
                     /\ d = [c EXCEPT !["delta3"] = "k"]
  OBVIOUS
<1>4. /\ b \in AllMarks
      /\ Runs(a, <<Combine("delta", "k", <<Term("phi", 1, One("laplacian"))>>, FALSE, TRUE)>>, b)
  BY <1>1, <1>2, <1>3
<1>5. /\ c \in AllMarks
      /\ Runs(b, <<Combine("delta2", "k", <<Term("phi2", 1, One("laplacian"))>>, FALSE, TRUE)>>, c)
  <2>1. b["delta2"] = "k0" /\ b["phi2"] = "k"
    BY <1>1, <1>3 DEF AllMarks
  <2> QED
    BY <1>1, <1>2, <1>3, <1>4, <2>1
<1>6. /\ d \in AllMarks
      /\ Runs(c, <<Combine("delta3", "k", <<Term("phi3", 1, One("laplacian"))>>, FALSE, TRUE)>>, d)
  <2>1. c["delta3"] = "k0" /\ c["phi3"] = "k"
    BY <1>1, <1>3 DEF AllMarks
  <2> QED
    BY <1>1, <1>2, <1>3, <1>5, <2>1
<1>7. /\ Kept(a, d, {"delta", "delta2", "delta3"})
      /\ d["delta"] = "k" /\ d["delta2"] = "k" /\ d["delta3"] = "k"
  BY <1>1, <1>3 DEF AllMarks, Kept
<1> QED
  BY <1>4, <1>5, <1>6, <1>7, RunsThree

\* The potentials are left in real space.
LEMMA PotentialsTestRuns ==
  ASSUME NEW a \in AllMarks, Full(a, Stored(3))
  PROVE  \E b \in AllMarks : /\ Runs(a, test_potentials_and_densities, b)
                             /\ \A x \in Stored(3) : b[x] \in {"r", "k"}
                             /\ b["tmp"] = a["tmp"]
<1>1. /\ Stored(3) = {"wnoise", "phi", "phi2", "phi3", "A3x", "A3y", "A3z"}
      /\ Stored(3) \cup {"tmp", "delta", "delta2", "delta3"} \subseteq Fields
  BY StoredFields, FieldNames
<1>2. A3(0) = "A3x" /\ A3(1) = "A3y" /\ A3(2) = "A3z"
  BY AxisNames DEF A3
<1> DEFINE one == <<New("delta"), Declare("delta", "k")>> \o <<New("delta2"), Declare("delta2", "k")>>
                    \o <<New("delta3"), Declare("delta3", "k")>>
           two == <<Combine("delta", "k", <<Term("phi", 1, One("laplacian"))>>, FALSE, TRUE)>>
                  \o <<Combine("delta2", "k", <<Term("phi2", 1, One("laplacian"))>>, FALSE, TRUE)>>
                  \o <<Combine("delta3", "k", <<Term("phi3", 1, One("laplacian"))>>, FALSE, TRUE)>>
           three == <<Write_PowerSpectrum("delta")>> \o <<Write_PowerSpectrum("delta2")>>
                      \o <<Write_PowerSpectrum("delta3")>>
           four == <<Backward("phi")>> \o <<Backward("phi2")>> \o <<Backward("phi3")>>
           five == <<Backward("delta")>> \o <<Backward("delta2")>> \o <<Backward("delta3")>>
           six == <<Backward("A3x")>> \o <<Backward("A3y")>> \o <<Backward("A3z")>>
           seven == <<File("phi")>> \o <<File("phi2")>> \o <<File("phi3")>>
           eight == <<File("delta")>> \o <<File("delta2")>> \o <<File("delta3")>>
           nine == <<File("A3x")>> \o <<File("A3y")>> \o <<File("A3z")>>
           ten == <<Drop({"delta", "delta2", "delta3"})>>
<1>3. PICK b \in AllMarks : /\ Runs(a, one, b) /\ Kept(a, b, {"delta", "delta2", "delta3"})
                            /\ b["delta"] = "k0" /\ b["delta2"] = "k0" /\ b["delta3"] = "k0"
  BY <1>1, ThreeDeclared
<1>4. PICK c \in AllMarks : /\ Runs(b, two, c) /\ Kept(b, c, {"delta", "delta2", "delta3"})
                            /\ c["delta"] = "k" /\ c["delta2"] = "k" /\ c["delta3"] = "k"
  <2>1. b["phi"] = "k" /\ b["phi2"] = "k" /\ b["phi3"] = "k"
    BY <1>1, <1>3 DEF Full, Kept
  <2> QED
    BY <1>3, <2>1, DensitiesRun
<1>5. Runs(c, three, c)
  BY <1>1, <1>4, ThreeSpectra
<1>6. PICK d \in AllMarks : /\ Runs(c, four, d) /\ Kept(c, d, {"phi", "phi2", "phi3"})
                            /\ d["phi"] = "r" /\ d["phi2"] = "r" /\ d["phi3"] = "r"
  <2>1. c["phi"] = "k" /\ c["phi2"] = "k" /\ c["phi3"] = "k"
    BY <1>1, <1>3, <1>4 DEF Full, Kept
  <2> QED
    BY <1>1, <2>1, ThreeBack
<1>7. PICK e \in AllMarks : /\ Runs(d, five, e) /\ Kept(d, e, {"delta", "delta2", "delta3"})
                            /\ e["delta"] = "r" /\ e["delta2"] = "r" /\ e["delta3"] = "r"
  <2>1. d["delta"] = "k" /\ d["delta2"] = "k" /\ d["delta3"] = "k"
    BY <1>1, <1>4, <1>6 DEF Kept
  <2>2. "delta" \in Fields /\ "delta2" \in Fields \ {"delta"} /\ "delta3" \in Fields \ {"delta", "delta2"}
    BY <1>1
  <2> QED
    BY <2>1, <2>2, ThreeBack
<1>8. PICK f \in AllMarks : /\ Runs(e, six, f) /\ Kept(e, f, {"A3x", "A3y", "A3z"})
                            /\ f["A3x"] = "r" /\ f["A3y"] = "r" /\ f["A3z"] = "r"
  <2>1. e["A3x"] \in {"r", "k"} /\ e["A3y"] \in {"r", "k"} /\ e["A3z"] \in {"r", "k"}
    BY <1>1, <1>3, <1>4, <1>6, <1>7 DEF Full, Kept
  <2>2. "A3x" \in Fields /\ "A3y" \in Fields \ {"A3x"} /\ "A3z" \in Fields \ {"A3x", "A3y"}
    BY <1>1
  <2> QED
    BY <2>1, <2>2, ThreeBack
<1>9. /\ f["phi"] = "r" /\ f["phi2"] = "r" /\ f["phi3"] = "r"
      /\ f["delta"] = "r" /\ f["delta2"] = "r" /\ f["delta3"] = "r"
  BY <1>1, <1>6, <1>7, <1>8 DEF Kept
<1>10. Runs(f, seven, f) /\ Runs(f, eight, f) /\ Runs(f, nine, f)
  BY <1>1, <1>8, <1>9, ThreeFiles
<1>11. PICK g \in AllMarks : /\ g = Dropped(f, {"delta", "delta2", "delta3"})
                             /\ Runs(f, ten, g)
  <2>1. PICK i : i = Drop({"delta", "delta2", "delta3"})
    OBVIOUS
  <2>2. PICK g : g = Dropped(f, {"delta", "delta2", "delta3"})
    OBVIOUS
  <2>3. Steps(f, i, g)
    BY <2>1, <2>2, DropSteps
  <2> QED
    BY <2>1, <2>2, <2>3, StepsEnd, RunsOne
<1>12. test_potentials_and_densities =
         one \o two \o three \o four \o five \o six \o seven \o eight \o nine \o ten
  BY <1>2 DEF test_potentials_and_densities, Each, ForDims
<1> HIDE DEF one, two, three, four, five, six, seven, eight, nine, ten
<1>13. PICK j, k, l, m : /\ j = one \o two \o three /\ k = j \o four \o five
                         /\ l = k \o six \o seven /\ m = l \o eight \o nine
  OBVIOUS
<1>14. Runs(a, j, c)
  BY <1>3, <1>4, <1>5, <1>13, RunsThree
<1>15. Runs(a, k, e)
  BY <1>6, <1>7, <1>13, <1>14, RunsThree
<1>16. Runs(a, l, f)
  BY <1>8, <1>10, <1>13, <1>15, RunsThree
<1>17. Runs(a, m, f)
  BY <1>10, <1>13, <1>16, RunsThree
<1>18. Runs(a, m \o ten, g)
  BY <1>11, <1>17, RunsJoin
<1>19. Runs(a, test_potentials_and_densities, g)
  BY <1>12, <1>13, <1>18
<1>20. g["tmp"] = a["tmp"] /\ g["wnoise"] = "k"
  BY <1>1, <1>3, <1>4, <1>6, <1>7, <1>8, <1>11 DEF Full, Kept, Dropped
<1>21. \A x \in Stored(3) : g[x] \in {"r", "k"}
  BY <1>1, <1>8, <1>9, <1>11, <1>20 DEF Dropped
<1> QED
  BY <1>19, <1>20, <1>21

LEMMA ThirdOrderCombines ==
  ASSUME NEW a \in AllMarks, NEW x \in Fields, a[x] \in {"k0", "k", "k8"}, NEW i \in Dims,
         Full(a, Stored(3)), NEW weigh, NEW by
  PROVE  Steps(a, Combine(x, "k", LPTTerms(i, 3, weigh, by), FALSE, TRUE), [a EXCEPT ![x] = "k"])
<1>1. PICK n \in Int : n = 3
  OBVIOUS
<1>2. Full(a, Stored(n))
  BY <1>1
<1>3. Steps(a, Combine(x, "k", LPTTerms(i, n, weigh, by), FALSE, TRUE), [a EXCEPT ![x] = "k"])
  BY <1>2, LPTCombines
<1> QED
  BY <1>1, <1>3

\* The components of the displacement and of the velocity.
Displacements == {"px", "py", "pz"}
Speeds == {"vx", "vy", "vz"}

LEMMA VectorNames ==
  ASSUME NEW i \in Dims
  PROVE  /\ X("p", i) \in Displacements /\ X("v", i) \in Speeds /\ X("p", i) # X("v", i)
         /\ {X("p", i), X("v", i)} \subseteq Fields /\ Stored(3) \subseteq Fields
         /\ Stored(3) \cap {X("p", i), X("v", i)} = {}
<1>1. Stored(3) = {"wnoise", "phi", "phi2", "phi3", "A3x", "A3y", "A3z"} /\ Stored(3) \subseteq Fields
  BY StoredFields
<1>2. X("p", i) \in Displacements /\ X("v", i) \in Speeds
  BY AxisNames DEF Dims, Displacements, Speeds
<1>3. Displacements \cup Speeds \subseteq Fields
  BY FieldNames DEF Displacements, Speeds
<1> QED
  BY <1>1, <1>2, <1>3 DEF Displacements, Speeds

LEMMA VectorPairRuns ==
  ASSUME NEW i \in Dims, NEW a \in AllMarks, Full(a, Stored(3))
  PROVE  \E b \in AllMarks : /\ Runs(a, VectorPair(i), b)
                             /\ Kept(a, b, {X("p", i), X("v", i)})
                             /\ b[X("p", i)] = "r"
                             /\ b[X("v", i)] = "r"
<1>1. /\ {X("p", i), X("v", i)} \subseteq Fields /\ X("p", i) # X("v", i)
      /\ Stored(3) \subseteq Fields /\ Stored(3) \cap {X("p", i), X("v", i)} = {}
  BY VectorNames
<1>2. PICK a1 \in AllMarks : Steps(a, New(X("p", i)), a1) /\ a1 = [a EXCEPT ![X("p", i)] = "r0"]
  BY <1>1, NewSteps, StepsEnd
<1>3. PICK a2 \in AllMarks : Steps(a1, New(X("v", i)), a2) /\ a2 = [a1 EXCEPT ![X("v", i)] = "r0"]
  BY <1>1, NewSteps, StepsEnd
<1>4. PICK a3 \in AllMarks : /\ Steps(a2, Declare(X("p", i), "k"), a3)
                             /\ a3 = [a2 EXCEPT ![X("p", i)] = "k0"]
  <2>1. a2[X("p", i)] = "r0"
    BY <1>1, <1>2, <1>3 DEF AllMarks, Full
  <2> QED
    BY <1>1, <2>1, DeclareNew, StepsEnd
<1>5. PICK a4 \in AllMarks : /\ Steps(a3, Declare(X("v", i), "k"), a4)
                             /\ a4 = [a3 EXCEPT ![X("v", i)] = "k0"]
  <2>1. a3[X("v", i)] = "r0"
    BY <1>1, <1>2, <1>3, <1>4 DEF AllMarks, Full
  <2> QED
    BY <1>1, <2>1, DeclareNew, StepsEnd
<1>6. PICK a5 \in AllMarks :
        /\ Steps(a4,
                 Combine(X("p", i), "k", LPTTerms(i, 3, Same, Nothing), FALSE, TRUE),
                 a5)
        /\ a5 = [a4 EXCEPT ![X("p", i)] = "k"]
  <2>1. a4[X("p", i)] = "k0" /\ Full(a4, Stored(3))
    BY <1>1, <1>2, <1>3, <1>4, <1>5 DEF AllMarks, Full
  <2>2. Steps(a4,
              Combine(X("p", i), "k", LPTTerms(i, 3, Same, Nothing), FALSE, TRUE),
              [a4 EXCEPT ![X("p", i)] = "k"])
    BY <1>1, <2>1, ThirdOrderCombines
  <2> QED
    BY <2>2, StepsEnd
<1>7. PICK a6 \in AllMarks :
        /\ Steps(a5,
                 Combine(X("v", i), "k", LPTTerms(i, 3, TimesOrder, One("vfac")), FALSE, TRUE),
                 a6)
        /\ a6 = [a5 EXCEPT ![X("v", i)] = "k"]
  <2>1. a5[X("v", i)] = "k0" /\ Full(a5, Stored(3))
    BY <1>1, <1>2, <1>3, <1>4, <1>5, <1>6 DEF AllMarks, Full
  <2>2. Steps(a5,
              Combine(X("v", i), "k", LPTTerms(i, 3, TimesOrder, One("vfac")), FALSE, TRUE),
              [a5 EXCEPT ![X("v", i)] = "k"])
    BY <1>1, <2>1, ThirdOrderCombines
  <2> QED
    BY <2>2, StepsEnd
<1>8. PICK a7 \in AllMarks : /\ Steps(a6, Backward(X("p", i)), a7)
                             /\ a7 = [a6 EXCEPT ![X("p", i)] = "r"]
  <2>1. a6[X("p", i)] = "k"
    BY <1>1, <1>2, <1>3, <1>4, <1>5, <1>6, <1>7 DEF AllMarks, Full
  <2> QED
    BY <1>1, <2>1, BackwardSteps, StepsEnd
<1>9. PICK a8 \in AllMarks : /\ Steps(a7, Backward(X("v", i)), a8)
                             /\ a8 = [a7 EXCEPT ![X("v", i)] = "r"]
  <2>1. a7[X("v", i)] = "k"
    BY <1>1, <1>2, <1>3, <1>4, <1>5, <1>6, <1>7, <1>8 DEF AllMarks, Full
  <2> QED
    BY <1>1, <2>1, BackwardSteps, StepsEnd
<1>10. Runs(a, VectorPair(i), a8)
  BY <1>2, <1>3, <1>4, <1>5, <1>6, <1>7, <1>8, <1>9, Runs8 DEF VectorPair
<1>11. Kept(a, a8, {X("p", i), X("v", i)})
  BY <1>1, <1>2, <1>3, <1>4, <1>5, <1>6, <1>7, <1>8, <1>9 DEF AllMarks, Full, Kept
<1>12. a8[X("p", i)] = "r" /\ a8[X("v", i)] = "r"
  BY <1>1, <1>2, <1>3, <1>4, <1>5, <1>6, <1>7, <1>8, <1>9 DEF AllMarks, Full
<1> QED
  BY <1>10, <1>11, <1>12

LEMMA VectorForwardRuns ==
  ASSUME NEW i \in Dims, NEW a \in AllMarks, a[X("p", i)] = "r", a[X("v", i)] = "r"
  PROVE  \E b \in AllMarks : /\ Runs(a, <<Forward(X("p", i)), Forward(X("v", i))>>, b)
                             /\ Kept(a, b, {X("p", i), X("v", i)})
                             /\ b[X("p", i)] = "k"
                             /\ b[X("v", i)] = "k"
<1>1. {X("p", i), X("v", i)} \subseteq Fields /\ X("p", i) # X("v", i)
  BY VectorNames
<1>2. PICK a1 \in AllMarks : /\ Steps(a, Forward(X("p", i)), a1)
                             /\ a1 = [a EXCEPT ![X("p", i)] = "k"]
  BY <1>1, ForwardSteps, StepsEnd
<1>3. PICK a2 \in AllMarks : /\ Steps(a1, Forward(X("v", i)), a2)
                             /\ a2 = [a1 EXCEPT ![X("v", i)] = "k"]
  <2>1. a1[X("v", i)] = "r"
    BY <1>1, <1>2 DEF AllMarks
  <2> QED
    BY <1>1, <2>1, ForwardSteps, StepsEnd
<1>4. Runs(a, <<Forward(X("p", i)), Forward(X("v", i))>>, a2)
  BY <1>2, <1>3, Runs2
<1>5. Kept(a, a2, {X("p", i), X("v", i)})
  BY <1>1, <1>2, <1>3 DEF AllMarks, Kept
<1>6. a2[X("p", i)] = "k" /\ a2[X("v", i)] = "k"
  BY <1>1, <1>2, <1>3 DEF AllMarks
<1> QED
  BY <1>4, <1>5, <1>6

LEMMA VectorFilesRun ==
  ASSUME NEW i \in Dims, NEW a \in AllMarks, a[X("p", i)] = "r", a[X("v", i)] = "r"
  PROVE  Runs(a, <<File(X("p", i)), File(X("v", i))>>, a)
<1>1. X("p", i) \in Fields /\ X("v", i) \in Fields
  BY VectorNames
<1>2. Steps(a, File(X("p", i)), a) /\ Steps(a, File(X("v", i)), a)
  BY <1>1, FileSteps
<1> QED
  BY <1>2, Runs2

LEMMA ProductsRun ==
  ASSUME NEW a \in AllMarks, a["inv"] = "k", Full(a, Displacements \cup Speeds), NEW d, NEW e, NEW c
  PROVE  Runs(a, Products(d, e, c), a)
<1> DEFINE Product(l) ==
             <<Convolve("inv", <<Gradient(X("p", l), d), Gradient(X("v", l), e)>>, c, TRUE)>>
<1>1. ASSUME NEW l \in Dims PROVE Runs(a, Product(l), a)
  <2>1. X("p", l) \in Fields \ {"inv"} /\ X("v", l) \in Fields \ {"inv"} /\ "inv" \in Fields
    BY VectorNames, FieldNames DEF Displacements, Speeds
  <2>2. a[X("p", l)] = "k" /\ a[X("v", l)] = "k"
    BY VectorNames DEF Full
  <2>3. PICK i : i = Convolve("inv", <<Gradient(X("p", l), d), Gradient(X("v", l), e)>>, c, TRUE)
    OBVIOUS
  <2>4. Steps(a, i, a)
    BY <2>1, <2>2, <2>3, ConvolveTwo DEF Gradient
  <2> QED
    BY <2>3, <2>4, RunsOne
<1>2. Runs(a, Product(0), a) /\ Runs(a, Product(1), a) /\ Runs(a, Product(2), a)
  BY <1>1 DEF Dims
<1>3. Products(d, e, c) = Product(0) \o Product(1) \o Product(2)
  BY DEF Products, ForDims
<1> HIDE DEF Product
<1> QED
  BY <1>2, <1>3, RunsThree

LEMMA CurlRuns ==
  ASSUME NEW i \in Dims, NEW a \in AllMarks, a["inv"] \in {"r0", "r"}, a[X("v", i)] = "k",
         a[X("v", Cyclic(i)[2])] = "k"
  PROVE  \E b \in AllMarks : /\ Runs(a, <<Declare("inv", "k"), Combine("inv", "k", <<Term(X("v", i), 1, One(X("d", Cyclic(i)[2]))), Term(X("v", Cyclic(i)[2]), -1, One(X("d", i)))>>, FALSE, TRUE)>>, b)
                             /\ Kept(a, b, {"inv"})
                             /\ b["inv"] = "k"
<1>1. /\ {"inv", X("v", i), X("v", Cyclic(i)[2])} \subseteq Fields /\ X("v", i) # "inv"
      /\ X("v", Cyclic(i)[2]) # "inv"
  BY FieldNames, VectorNames, CyclicDims DEF Speeds
<1>2. PICK a1 \in AllMarks : /\ Steps(a, Declare("inv", "k"), a1)
                             /\ a1["inv"] \in {"k0", "k"} /\ Kept(a, a1, {"inv"})
  BY <1>1, DeclareAny, StepsEnd
<1>3. PICK a2 \in AllMarks :
        /\ Steps(a1,
                 Combine("inv", "k", <<Term(X("v", i), 1, One(X("d", Cyclic(i)[2]))), Term(X("v",
                 Cyclic(i)[2]), -1, One(X("d", i)))>>, FALSE, TRUE),
                 a2)
        /\ a2 = [a1 EXCEPT !["inv"] = "k"]
  <2>1. a1["inv"] \in {"k0", "k"} /\ a1[X("v", i)] = "k" /\ a1[X("v", Cyclic(i)[2])] = "k"
    BY <1>1, <1>2 DEF AllMarks, Kept
  <2>2. Steps(a1,
              Combine("inv", "k", <<Term(X("v", i), 1, One(X("d", Cyclic(i)[2]))), Term(X("v",
              Cyclic(i)[2]), -1, One(X("d", i)))>>, FALSE, TRUE),
              [a1 EXCEPT !["inv"] = "k"])
    BY <1>1, <2>1, CombineTwo
  <2> QED
    BY <2>2, StepsEnd
<1>4. Runs(a, <<Declare("inv", "k"), Combine("inv", "k", <<Term(X("v", i), 1, One(X("d", Cyclic(i)[2]))), Term(X("v", Cyclic(i)[2]), -1, One(X("d", i)))>>, FALSE, TRUE)>>, a2)
  BY <1>2, <1>3, Runs2
<1>5. Kept(a, a2, {"inv"})
  BY <1>1, <1>2, <1>3 DEF AllMarks, Kept
<1>6. a2["inv"] = "k"
  BY <1>1, <1>2, <1>3 DEF AllMarks, Kept
<1> QED
  BY <1>4, <1>5, <1>6

LEMMA InvariantRuns ==
  ASSUME NEW i \in Dims, NEW a \in AllMarks, a["inv"] \in {"r0", "r"},
         Full(a, Displacements \cup Speeds)
  PROVE  \E b \in AllMarks : Runs(a, Invariant(i), b) /\ Kept(a, b, {"inv"}) /\ b["inv"] = "r"
<1> DEFINE p == Cyclic(i)[2]
           curl == <<Declare("inv", "k"),
                     Combine("inv", "k", <<Term(X("v", i), 1, One(X("d", p))),
                                           Term(X("v", p), -1, One(X("d", i)))>>, FALSE, TRUE)>>
           back == <<Backward("inv"), File("inv")>>
<1>1. {"inv"} \cup Displacements \cup Speeds \subseteq Fields
  BY FieldNames DEF Displacements, Speeds
<1>2. PICK b \in AllMarks : Runs(a, curl, b) /\ Kept(a, b, {"inv"}) /\ b["inv"] = "k"
  <2>1. a[X("v", i)] = "k" /\ a[X("v", p)] = "k"
    BY VectorNames, CyclicDims DEF Full
  <2> QED
    BY <2>1, CurlRuns
<1>3. Full(b, Displacements \cup Speeds)
  BY <1>1, <1>2 DEF Kept, Full, Displacements, Speeds
<1>4. Runs(b, Products(i, p, 7), b) /\ Runs(b, Products(p, i, -7), b)
  BY <1>2, <1>3, ProductsRun
<1>5. PICK c \in AllMarks : Runs(b, back, c) /\ Kept(b, c, {"inv"}) /\ c["inv"] = "r"
  <2>1. PICK c : c = [b EXCEPT !["inv"] = "r"]
    OBVIOUS
  <2>2. Steps(b, Backward("inv"), c)
    BY <1>1, <1>2, <2>1, BackwardSteps
  <2>3. c \in AllMarks /\ c["inv"] = "r" /\ Kept(b, c, {"inv"})
    BY <1>1, <2>1, <2>2, StepsEnd DEF AllMarks, Kept
  <2>4. Steps(c, File("inv"), c)
    BY <1>1, <2>3, FileSteps
  <2> QED
    BY <2>2, <2>3, <2>4, Runs2
<1>6. Invariant(i) = curl \o Products(i, p, 7) \o Products(p, i, -7) \o back
  BY DEF Invariant
<1> HIDE DEF curl, back, p
<1>7. PICK j : j = curl \o Products(i, p, 7) \o Products(p, i, -7)
  OBVIOUS
<1>8. Runs(a, j, b)
  BY <1>2, <1>4, <1>7, RunsThree
<1>9. Runs(a, j \o back, c)
  BY <1>5, <1>8, RunsJoin
<1> QED
  BY <1>2, <1>5, <1>6, <1>7, <1>9 DEF Kept

\* What one direction does to its own grids, the three do to all of them.
LEMMA VectorPairsRun ==
  ASSUME NEW a \in AllMarks, Full(a, Stored(3))
  PROVE  \E b \in AllMarks : /\ Runs(a, ForDims(VectorPair), b)
                             /\ Kept(a, b, Displacements \cup Speeds)
                             /\ \A x \in Displacements \cup Speeds : b[x] = "r"
<1>1. /\ X("p", 0) = "px" /\ X("p", 1) = "py" /\ X("p", 2) = "pz"
      /\ X("v", 0) = "vx" /\ X("v", 1) = "vy" /\ X("v", 2) = "vz"
      /\ 0 \in Dims /\ 1 \in Dims /\ 2 \in Dims
  BY AxisNames DEF Dims
<1>2. /\ Displacements \cup Speeds \subseteq Fields /\ Stored(3) \subseteq Fields
      /\ Stored(3) \cap (Displacements \cup Speeds) = {}
  <2>1. Stored(3) = {"wnoise", "phi", "phi2", "phi3", "A3x", "A3y", "A3z"}
        /\ Stored(3) \subseteq Fields
    BY StoredFields
  <2> QED
    BY <2>1, FieldNames DEF Displacements, Speeds
<1>3. PICK b \in AllMarks : /\ Runs(a, VectorPair(0), b) /\ Kept(a, b, {"px", "vx"})
                            /\ b["px"] = "r" /\ b["vx"] = "r"
  <2>1. X("p", 0) = "px" /\ X("v", 0) = "vx" /\ 0 \in Dims
    BY <1>1
  <2> QED
    BY <2>1, VectorPairRuns
<1>4. Full(b, Stored(3))
  BY <1>2, <1>3 DEF Kept, Full, Displacements, Speeds
<1>5. PICK c \in AllMarks : /\ Runs(b, VectorPair(1), c) /\ Kept(b, c, {"py", "vy"})
                            /\ c["py"] = "r" /\ c["vy"] = "r"
  <2>1. X("p", 1) = "py" /\ X("v", 1) = "vy" /\ 1 \in Dims
    BY <1>1
  <2> QED
    BY <1>4, <2>1, VectorPairRuns
<1>6. Full(c, Stored(3))
  BY <1>2, <1>4, <1>5 DEF Kept, Full, Displacements, Speeds
<1>7. PICK d \in AllMarks : /\ Runs(c, VectorPair(2), d) /\ Kept(c, d, {"pz", "vz"})
                            /\ d["pz"] = "r" /\ d["vz"] = "r"
  <2>1. X("p", 2) = "pz" /\ X("v", 2) = "vz" /\ 2 \in Dims
    BY <1>1
  <2> QED
    BY <1>6, <2>1, VectorPairRuns
<1>8. Runs(a, ForDims(VectorPair), d)
  BY <1>3, <1>5, <1>7, RunsThree DEF ForDims
<1>9. Kept(a, d, Displacements \cup Speeds)
  BY <1>3, <1>5, <1>7 DEF Kept, Displacements, Speeds
<1>10. \A x \in Displacements \cup Speeds : d[x] = "r"
  BY <1>2, <1>3, <1>5, <1>7 DEF Kept, Displacements, Speeds
<1> QED
  BY <1>8, <1>9, <1>10

LEMMA VectorsForwardRun ==
  ASSUME NEW a \in AllMarks, \A x \in Displacements \cup Speeds : a[x] = "r"
  PROVE  \E b \in AllMarks :
           /\ Runs(a, <<Forward(X("p", 0)), Forward(X("v", 0))>>
                        \o <<Forward(X("p", 1)), Forward(X("v", 1))>>
                        \o <<Forward(X("p", 2)), Forward(X("v", 2))>>, b)
           /\ Kept(a, b, Displacements \cup Speeds)
           /\ Full(b, Displacements \cup Speeds)
<1>1. /\ X("p", 0) = "px" /\ X("p", 1) = "py" /\ X("p", 2) = "pz"
      /\ X("v", 0) = "vx" /\ X("v", 1) = "vy" /\ X("v", 2) = "vz"
      /\ 0 \in Dims /\ 1 \in Dims /\ 2 \in Dims
  BY AxisNames DEF Dims
<1>2. Displacements \cup Speeds \subseteq Fields
  BY FieldNames DEF Displacements, Speeds
<1>3. PICK b \in AllMarks : /\ Runs(a, <<Forward(X("p", 0)), Forward(X("v", 0))>>, b)
                            /\ Kept(a, b, {"px", "vx"}) /\ b["px"] = "k" /\ b["vx"] = "k"
  <2>1. a["px"] = "r" /\ a["vx"] = "r"
    BY DEF Displacements, Speeds
  <2> QED
    BY <1>1, <2>1, VectorForwardRuns
<1>4. PICK c \in AllMarks : /\ Runs(b, <<Forward(X("p", 1)), Forward(X("v", 1))>>, c)
                            /\ Kept(b, c, {"py", "vy"}) /\ c["py"] = "k" /\ c["vy"] = "k"
  <2>1. b["py"] = "r" /\ b["vy"] = "r"
    BY <1>2, <1>3 DEF Kept, Displacements, Speeds
  <2> QED
    BY <1>1, <2>1, VectorForwardRuns
<1>5. PICK d \in AllMarks : /\ Runs(c, <<Forward(X("p", 2)), Forward(X("v", 2))>>, d)
                            /\ Kept(c, d, {"pz", "vz"}) /\ d["pz"] = "k" /\ d["vz"] = "k"
  <2>1. c["pz"] = "r" /\ c["vz"] = "r"
    BY <1>2, <1>3, <1>4 DEF Kept, Displacements, Speeds
  <2> QED
    BY <1>1, <2>1, VectorForwardRuns
<1>6. Kept(a, d, Displacements \cup Speeds)
  BY <1>3, <1>4, <1>5 DEF Kept, Displacements, Speeds
<1>7. Full(d, Displacements \cup Speeds)
  BY <1>2, <1>3, <1>4, <1>5 DEF Kept, Full, Displacements, Speeds
<1> QED
  BY <1>3, <1>4, <1>5, <1>6, <1>7, RunsThree

LEMMA InvariantsRun ==
  ASSUME NEW a \in AllMarks, a["inv"] = "r0", Full(a, Displacements \cup Speeds)
  PROVE  \E b \in AllMarks : Runs(a, ForDims(Invariant), b) /\ Kept(a, b, {"inv"})
<1>1. /\ 0 \in Dims /\ 1 \in Dims /\ 2 \in Dims
      /\ Displacements \cup Speeds \subseteq Fields \ {"inv"}
  BY FieldNames DEF Dims, Displacements, Speeds
<1>2. PICK b \in AllMarks : Runs(a, Invariant(0), b) /\ Kept(a, b, {"inv"}) /\ b["inv"] = "r"
  BY <1>1, InvariantRuns
<1>3. Full(b, Displacements \cup Speeds)
  BY <1>1, <1>2 DEF Kept, Full
<1>4. PICK c \in AllMarks : Runs(b, Invariant(1), c) /\ Kept(b, c, {"inv"}) /\ c["inv"] = "r"
  BY <1>1, <1>2, <1>3, InvariantRuns
<1>5. Full(c, Displacements \cup Speeds)
  BY <1>1, <1>3, <1>4 DEF Kept, Full
<1>6. PICK d \in AllMarks : Runs(c, Invariant(2), d) /\ Kept(c, d, {"inv"}) /\ d["inv"] = "r"
  BY <1>1, <1>4, <1>5, InvariantRuns
<1>7. Runs(a, ForDims(Invariant), d)
  BY <1>2, <1>4, <1>6, RunsThree DEF ForDims
<1> QED
  BY <1>2, <1>4, <1>6, <1>7 DEF Kept

\* The potentials are only read.
LEMMA SymmetriesRun ==
  ASSUME NEW a \in AllMarks, Full(a, Stored(3))
  PROVE  \E b \in AllMarks : /\ Runs(a, test_velocity_displacement_symmetries, b)
                             /\ Full(b, Stored(3)) /\ b["tmp"] = a["tmp"]
<1> DEFINE one == ForDims(VectorPair)
           files(i) == <<File(X("p", i)), File(X("v", i))>>
           two == files(0) \o files(1) \o files(2)
           three == <<Forward(X("p", 0)), Forward(X("v", 0))>>
                      \o <<Forward(X("p", 1)), Forward(X("v", 1))>>
                      \o <<Forward(X("p", 2)), Forward(X("v", 2))>>
           four == <<New("inv")>>
           five == ForDims(Invariant)
           vectors == {"inv"} \cup {X(v, i) : v \in {"p", "v"}, i \in Dims}
           six == <<Drop(vectors)>>
<1>1. /\ X("p", 0) = "px" /\ X("p", 1) = "py" /\ X("p", 2) = "pz"
      /\ X("v", 0) = "vx" /\ X("v", 1) = "vy" /\ X("v", 2) = "vz"
      /\ 0 \in Dims /\ 1 \in Dims /\ 2 \in Dims
  BY AxisNames DEF Dims
<1>2. /\ {"inv", "tmp"} \cup Displacements \cup Speeds \cup Stored(3) \subseteq Fields
      /\ (Stored(3) \cup {"tmp"}) \cap (Displacements \cup Speeds \cup {"inv"}) = {}
      /\ "inv" \notin Displacements \cup Speeds
  <2>1. Stored(3) = {"wnoise", "phi", "phi2", "phi3", "A3x", "A3y", "A3z"}
        /\ Stored(3) \subseteq Fields
    BY StoredFields
  <2> QED
    BY <2>1, FieldNames DEF Displacements, Speeds
<1>3. PICK b \in AllMarks : /\ Runs(a, one, b) /\ Kept(a, b, Displacements \cup Speeds)
                            /\ \A x \in Displacements \cup Speeds : b[x] = "r"
  BY VectorPairsRun
<1>4. Runs(b, two, b)
  <2>1. ASSUME NEW i \in Dims PROVE Runs(b, files(i), b)
    <3>1. b[X("p", i)] = "r" /\ b[X("v", i)] = "r"
      BY <1>3, VectorNames
    <3> QED
      BY <3>1, VectorFilesRun
  <2> HIDE DEF files
  <2> QED
    BY <1>1, <2>1, RunsThree
<1>5. PICK c \in AllMarks : /\ Runs(b, three, c) /\ Kept(b, c, Displacements \cup Speeds)
                            /\ Full(c, Displacements \cup Speeds)
  BY <1>3, VectorsForwardRun
<1>6. PICK d \in AllMarks : Runs(c, four, d) /\ Kept(c, d, {"inv"}) /\ d["inv"] = "r0"
  <2>1. PICK d : d = [c EXCEPT !["inv"] = "r0"]
    OBVIOUS
  <2>2. Steps(c, New("inv"), d)
    BY <1>2, <2>1, NewSteps
  <2>3. Kept(c, d, {"inv"}) /\ d["inv"] = "r0"
    BY <1>2, <2>1 DEF Kept, AllMarks
  <2> QED
    BY <2>2, <2>3, StepsEnd, RunsOne
<1>7. Full(d, Displacements \cup Speeds)
  BY <1>2, <1>5, <1>6 DEF Full, Kept
<1>8. PICK e \in AllMarks : Runs(d, five, e) /\ Kept(d, e, {"inv"})
  BY <1>6, <1>7, InvariantsRun
<1>9. vectors = {"inv"} \cup Displacements \cup Speeds
  <2>1. Dims = {0, 1, 2}
    BY DEF Dims
  <2> QED
    BY <1>1, <2>1 DEF Displacements, Speeds
<1> HIDE DEF vectors
<1>10. PICK f \in AllMarks : Runs(e, six, f) /\ f = Dropped(e, vectors)
  <2>1. PICK c1, f : c1 = Drop(vectors) /\ f = Dropped(e, vectors)
    OBVIOUS
  <2>2. Steps(e, c1, f)
    BY <2>1, DropSteps
  <2> QED
    BY <2>1, <2>2, StepsEnd, RunsOne
<1>11. test_velocity_displacement_symmetries = one \o two \o three \o four \o five \o six
  BY DEF test_velocity_displacement_symmetries, ForDims, vectors
<1> HIDE DEF one, two, three, four, five, six
<1>12. PICK j, k : j = one \o two \o three /\ k = j \o four \o five
  OBVIOUS
<1>13. Runs(a, j, c)
  BY <1>3, <1>4, <1>5, <1>12, RunsThree
<1>14. Runs(a, k, e)
  BY <1>6, <1>8, <1>12, <1>13, RunsThree
<1>15. Runs(a, k \o six, f)
  BY <1>10, <1>14, RunsJoin
<1>16. \A x \in Stored(3) \cup {"tmp"} : f[x] = a[x]
  BY <1>2, <1>3, <1>5, <1>6, <1>8, <1>9, <1>10 DEF Kept, Dropped
<1> QED
  BY <1>11, <1>12, <1>15, <1>16 DEF Full

LEMMA UnscalingRuns ==
  ASSUME NEW a \in AllMarks, Full(a, Stored(3))
  PROVE  Runs(a, Unscaling, a)
<1> DEFINE by(n) == [x \in {"Dplus"} |-> -n]
           three(i) == <<Times(A3(i), by(3))>>
           potentials == <<Times("phi", by(1)), Times("phi2", by(2)), Times("phi3", by(3))>>
<1>1. /\ Stored(3) = {"wnoise", "phi", "phi2", "phi3", "A3x", "A3y", "A3z"}
      /\ Stored(3) \subseteq Fields
  BY StoredFields
<1>2. A3(0) = "A3x" /\ A3(1) = "A3y" /\ A3(2) = "A3z"
  BY AxisNames DEF A3
<1>3. ASSUME NEW x \in Stored(3), NEW p PROVE Steps(a, Times(x, p), a) /\ Runs(a, <<Times(x, p)>>, a)
  BY <1>1, TimesSteps, TimesRuns DEF Full
<1>4. Unscaling = potentials \o ForDims(three)
  BY DEF Unscaling
<1> HIDE DEF by
<1>5. Runs(a, three(0), a) /\ Runs(a, three(1), a) /\ Runs(a, three(2), a)
  BY <1>1, <1>2, <1>3
<1>6. Runs(a, potentials, a)
  <2>1. /\ Steps(a, Times("phi", by(1)), a) /\ Steps(a, Times("phi2", by(2)), a)
        /\ Steps(a, Times("phi3", by(3)), a)
    BY <1>1, <1>3
  <2> QED
    BY <2>1, Runs3
<1> HIDE DEF three, potentials
<1>7. Runs(a, ForDims(three), a)
  BY <1>5, RunsThree DEF ForDims
<1> QED
  BY <1>4, <1>6, <1>7, RunsJoin

LEMMA ShellCrossingRuns ==
  ASSUME NEW a \in AllMarks, a["phi"] = "k"
  PROVE  \E b \in AllMarks : /\ Runs(a, ShellCrossing, b)
                             /\ Kept(a, b, {"copy", "speed", "norm"})
                             /\ b["norm"] = "r"
<1>1. {"copy", "phi", "speed", "norm"} \subseteq Fields
  BY FieldNames
<1>2. PICK a1 \in AllMarks : Steps(a, New("copy"), a1) /\ a1 = [a EXCEPT !["copy"] = "r0"]
  BY <1>1, NewSteps, StepsEnd
<1>3. PICK a2 \in AllMarks : /\ Steps(a1, Declare("copy", "k"), a2)
                             /\ a2 = [a1 EXCEPT !["copy"] = "k0"]
  <2>1. a1["copy"] = "r0"
    BY <1>1, <1>2 DEF AllMarks
  <2> QED
    BY <1>1, <2>1, DeclareNew, StepsEnd
<1>4. PICK a3 \in AllMarks :
        /\ Steps(a2,
                 Combine("copy", "k", <<Term("phi", -1, Nothing)>>, FALSE, TRUE),
                 a3)
        /\ a3 = [a2 EXCEPT !["copy"] = "k"]
  <2>1. a2["copy"] = "k0" /\ a2["phi"] = "k"
    BY <1>1, <1>2, <1>3 DEF AllMarks
  <2>2. Steps(a2,
              Combine("copy", "k", <<Term("phi", -1, Nothing)>>, FALSE, TRUE),
              [a2 EXCEPT !["copy"] = "k"])
    BY <1>1, <2>1, CombineOne
  <2> QED
    BY <2>2, StepsEnd
<1>5. PICK a4 \in AllMarks : Steps(a3, New("speed"), a4) /\ a4 = [a3 EXCEPT !["speed"] = "r0"]
  BY <1>1, NewSteps, StepsEnd
<1>6. PICK a5 \in AllMarks : /\ Steps(a4, Declare("speed", "k"), a5)
                             /\ a5 = [a4 EXCEPT !["speed"] = "k0"]
  <2>1. a4["speed"] = "r0"
    BY <1>1, <1>2, <1>3, <1>4, <1>5 DEF AllMarks
  <2> QED
    BY <1>1, <2>1, DeclareNew, StepsEnd
<1>7. PICK a6 \in AllMarks :
        /\ Steps(a5,
                 Combine("speed", "k", <<Term("copy", 1, One("second derivatives"))>>, FALSE,
                 TRUE),
                 a6)
        /\ a6 = [a5 EXCEPT !["speed"] = "k"]
  <2>1. a5["speed"] = "k0" /\ a5["copy"] = "k"
    BY <1>1, <1>2, <1>3, <1>4, <1>5, <1>6 DEF AllMarks
  <2>2. Steps(a5,
              Combine("speed", "k", <<Term("copy", 1, One("second derivatives"))>>, FALSE, TRUE),
              [a5 EXCEPT !["speed"] = "k"])
    BY <1>1, <2>1, CombineOne
  <2> QED
    BY <2>2, StepsEnd
<1>8. PICK a7 \in AllMarks : Steps(a6, Backward("speed"), a7) /\ a7 = [a6 EXCEPT !["speed"] = "r"]
  <2>1. a6["speed"] = "k"
    BY <1>1, <1>2, <1>3, <1>4, <1>5, <1>6, <1>7 DEF AllMarks
  <2> QED
    BY <1>1, <2>1, BackwardSteps, StepsEnd
<1>9. Steps(a7, Times("speed", One("growth today")), a7)
  <2>1. a7["speed"] = "r"
    BY <1>1, <1>2, <1>3, <1>4, <1>5, <1>6, <1>7, <1>8 DEF AllMarks
  <2> QED
    BY <1>1, <2>1, TimesSteps
<1>10. PICK a9 \in AllMarks : Steps(a7, New("norm"), a9) /\ a9 = [a7 EXCEPT !["norm"] = "r0"]
  BY <1>1, NewSteps, StepsEnd
<1>11. PICK a10 \in AllMarks :
        /\ Steps(a9,
                 Apply("norm", "shell crossing time", <<"speed">>),
                 a10)
        /\ a10 = [a9 EXCEPT !["norm"] = "r"]
  <2>1. a9["norm"] = "r0" /\ a9["speed"] = "r"
    BY <1>1, <1>2, <1>3, <1>4, <1>5, <1>6, <1>7, <1>8, <1>10 DEF AllMarks
  <2>2. Steps(a9, Apply("norm", "shell crossing time", <<"speed">>), [a9 EXCEPT !["norm"] = "r"])
    BY <1>1, <2>1, ApplySteps, ReadsOne
  <2> QED
    BY <2>2, StepsEnd
<1>12. Runs(a, ShellCrossing, a10)
  BY <1>2, <1>3, <1>4, <1>5, <1>6, <1>7, <1>8, <1>9, <1>10, <1>11, Runs10 DEF ShellCrossing
<1>13. Kept(a, a10, {"copy", "speed", "norm"})
  BY <1>1, <1>2, <1>3, <1>4, <1>5, <1>6, <1>7, <1>8, <1>10, <1>11 DEF AllMarks, Kept
<1>14. a10["norm"] = "r"
  BY <1>1, <1>2, <1>3, <1>4, <1>5, <1>6, <1>7, <1>8, <1>10, <1>11 DEF AllMarks
<1> QED
  BY <1>12, <1>13, <1>14

LEMMA ShiftRuns ==
  ASSUME NEW i \in Dims, NEW n \in 1 .. 3, NEW a \in AllMarks, Full(a, Stored(3))
  PROVE  \E b \in AllMarks : /\ Runs(a, Shift(i, n), b)
                             /\ Kept(a, b, {X("p", i)})
                             /\ b[X("p", i)] = "r"
<1>1. {X("p", i)} \subseteq Fields /\ Stored(3) \subseteq Fields /\ X("p", i) \notin Stored(3)
  BY VectorNames
<1>2. PICK a1 \in AllMarks : Steps(a, New(X("p", i)), a1) /\ a1 = [a EXCEPT ![X("p", i)] = "r0"]
  BY <1>1, NewSteps, StepsEnd
<1>3. PICK a2 \in AllMarks : /\ Steps(a1, Declare(X("p", i), "k"), a2)
                             /\ a2 = [a1 EXCEPT ![X("p", i)] = "k0"]
  <2>1. a1[X("p", i)] = "r0"
    BY <1>1, <1>2 DEF AllMarks, Full
  <2> QED
    BY <1>1, <2>1, DeclareNew, StepsEnd
<1>4. PICK a3 \in AllMarks :
        /\ Steps(a2,
                 Combine(X("p", i), "k", OrderTerms(n, i, 1, Nothing), FALSE, TRUE),
                 a3)
        /\ a3 = [a2 EXCEPT ![X("p", i)] = "k"]
  <2>1. a2[X("p", i)] = "k0" /\ Full(a2, Stored(3))
    BY <1>1, <1>2, <1>3 DEF AllMarks, Full
  <2>2. Steps(a2,
              Combine(X("p", i), "k", OrderTerms(n, i, 1, Nothing), FALSE, TRUE),
              [a2 EXCEPT ![X("p", i)] = "k"])
    BY <1>1, <2>1, OrderCombines
  <2> QED
    BY <2>2, StepsEnd
<1>5. PICK a4 \in AllMarks : /\ Steps(a3, Backward(X("p", i)), a4)
                             /\ a4 = [a3 EXCEPT ![X("p", i)] = "r"]
  <2>1. a3[X("p", i)] = "k"
    BY <1>1, <1>2, <1>3, <1>4 DEF AllMarks, Full
  <2> QED
    BY <1>1, <2>1, BackwardSteps, StepsEnd
<1>6. Runs(a, Shift(i, n), a4)
  BY <1>2, <1>3, <1>4, <1>5, Runs4 DEF Shift
<1>7. Kept(a, a4, {X("p", i)})
  BY <1>1, <1>2, <1>3, <1>4, <1>5 DEF AllMarks, Full, Kept
<1>8. a4[X("p", i)] = "r"
  BY <1>1, <1>2, <1>3, <1>4, <1>5 DEF AllMarks, Full
<1> QED
  BY <1>6, <1>7, <1>8

Norms == {"delta", "delta2", "delta3"}

LEMMA NormRuns ==
  ASSUME NEW n \in 1 .. 3, NEW name \in Norms, NEW a \in AllMarks, Full(a, Stored(3))
  PROVE  \E b \in AllMarks : /\ Runs(a, Norm(n, name), b) /\ b[name] = "r"
                             /\ Kept(a, b, Displacements \cup {name})
<1>1. /\ X("p", 0) = "px" /\ X("p", 1) = "py" /\ X("p", 2) = "pz"
      /\ 0 \in Dims /\ 1 \in Dims /\ 2 \in Dims
  BY AxisNames DEF Dims
<1>2. /\ Displacements \subseteq Fields /\ Stored(3) \subseteq Fields /\ name \in Fields
      /\ Stored(3) \cap Displacements = {} /\ name \notin Displacements
  <2>1. Stored(3) = {"wnoise", "phi", "phi2", "phi3", "A3x", "A3y", "A3z"}
        /\ Stored(3) \subseteq Fields
    BY StoredFields
  <2> QED
    BY <2>1, FieldNames DEF Displacements, Norms
<1>3. PICK b \in AllMarks : Runs(a, Shift(0, n), b) /\ Kept(a, b, {"px"}) /\ b["px"] = "r"
  <2>1. PICK i \in Dims : i = 0 /\ X("p", i) = "px"
    BY <1>1
  <2>2. \E b \in AllMarks : /\ Runs(a, Shift(i, n), b)
                         /\ Kept(a, b, {X("p", i)}) /\ b[X("p", i)] = "r"
    BY ShiftRuns
  <2> QED
    BY <2>1, <2>2
<1>4. Full(b, Stored(3))
  BY <1>2, <1>3 DEF Kept, Full, Displacements
<1>5. PICK c \in AllMarks : Runs(b, Shift(1, n), c) /\ Kept(b, c, {"py"}) /\ c["py"] = "r"
  <2>1. PICK i \in Dims : i = 1 /\ X("p", i) = "py"
    BY <1>1
  <2>2. \E c \in AllMarks : /\ Runs(b, Shift(i, n), c)
                         /\ Kept(b, c, {X("p", i)}) /\ c[X("p", i)] = "r"
    BY <1>4, ShiftRuns
  <2> QED
    BY <2>1, <2>2
<1>6. Full(c, Stored(3))
  BY <1>2, <1>4, <1>5 DEF Kept, Full, Displacements
<1>7. PICK d \in AllMarks : Runs(c, Shift(2, n), d) /\ Kept(c, d, {"pz"}) /\ d["pz"] = "r"
  <2>1. PICK i \in Dims : i = 2 /\ X("p", i) = "pz"
    BY <1>1
  <2>2. \E d \in AllMarks : /\ Runs(c, Shift(i, n), d)
                         /\ Kept(c, d, {X("p", i)}) /\ d[X("p", i)] = "r"
    BY <1>6, ShiftRuns
  <2> QED
    BY <2>1, <2>2
<1>8. d["px"] = "r" /\ d["py"] = "r" /\ d["pz"] = "r"
  BY <1>2, <1>3, <1>5, <1>7 DEF Kept, Displacements
<1> DEFINE last == <<New(name), Apply(name, "norm", <<X("p", 0), X("p", 1), X("p", 2)>>)>>
<1>9. PICK f \in AllMarks : Runs(d, last, f) /\ Kept(d, f, {name}) /\ f[name] = "r"
  <2>1. PICK e, f : e = [d EXCEPT ![name] = "r0"] /\ f = [e EXCEPT ![name] = "r"]
    OBVIOUS
  <2>2. Steps(d, New(name), e)
    BY <1>2, <2>1, NewSteps
  <2>3. e \in AllMarks /\ e[name] = "r0" /\ e["px"] = "r" /\ e["py"] = "r" /\ e["pz"] = "r"
    BY <1>2, <1>8, <2>1, <2>2, StepsEnd DEF AllMarks, Displacements
  <2>4. PICK reads : reads = <<"px", "py", "pz">>
    OBVIOUS
  <2>5. \A y \in Range(reads) : y \in Fields /\ e[y] = "r"
    BY <1>2, <2>3, <2>4, ReadsThree DEF Displacements
  <2>6. Steps(e, Apply(name, "norm", reads), f)
    BY <1>2, <2>1, <2>3, <2>5, ApplySteps
  <2>7. f \in AllMarks /\ f[name] = "r" /\ Kept(d, f, {name})
    BY <1>2, <2>1, <2>6, StepsEnd DEF AllMarks, Kept
  <2>8. last = <<New(name), Apply(name, "norm", reads)>>
    BY <1>1, <2>4
  <2> QED
    BY <2>2, <2>6, <2>7, <2>8, Runs2
<1> HIDE DEF last
<1>10. Norm(n, name) = Shift(0, n) \o Shift(1, n) \o Shift(2, n) \o last
  BY DEF Norm, last
<1>11. PICK j : j = Shift(0, n) \o Shift(1, n) \o Shift(2, n)
  OBVIOUS
<1>12. Runs(a, j, d)
  BY <1>3, <1>5, <1>7, <1>11, RunsThree
<1>13. Runs(a, j \o last, f)
  BY <1>9, <1>12, RunsJoin
<1>14. Kept(a, f, Displacements \cup {name})
  BY <1>3, <1>5, <1>7, <1>9 DEF Kept, Displacements
<1> QED
  BY <1>9, <1>10, <1>11, <1>13, <1>14

LEMMA LocalsApart == (Stored(3) \cup {"tmp"}) \cap Locals = {}
<1>1. Stored(3) = {"wnoise", "phi", "phi2", "phi3", "A3x", "A3y", "A3z"}
  BY StoredFields
<1>2. {X(v, i) : v \in {"p", "v"}, i \in Dims} \subseteq Displacements \cup Speeds
  BY VectorNames
<1> QED
  BY <1>1, <1>2 DEF Locals, Displacements, Speeds

LEMMA RadiusRuns ==
  ASSUME NEW a \in AllMarks, a["delta"] = "r", a["delta2"] = "r", a["delta3"] = "r", a["norm"] = "r"
  PROVE  \E b \in AllMarks :
           /\ Runs(a, <<New("ratio"), Apply("ratio", "inverse radius", <<"delta", "delta2", "delta3">>),
                        File("norm"), File("ratio"), Drop(Locals)>>, b)
           /\ \A x \in Stored(3) \cup {"tmp"} : b[x] = a[x]
<1>1. {"ratio", "delta", "delta2", "delta3", "norm"} \subseteq Fields
  BY FieldNames
<1>2. PICK a1 \in AllMarks : Steps(a, New("ratio"), a1) /\ a1 = [a EXCEPT !["ratio"] = "r0"]
  BY <1>1, NewSteps, StepsEnd
<1>3. PICK a2 \in AllMarks :
        /\ Steps(a1,
                 Apply("ratio", "inverse radius", <<"delta", "delta2", "delta3">>),
                 a2)
        /\ a2 = [a1 EXCEPT !["ratio"] = "r"]
  <2>1. a1["ratio"] = "r0" /\ a1["delta"] = "r" /\ a1["delta2"] = "r" /\ a1["delta3"] = "r"
    BY <1>1, <1>2 DEF AllMarks
  <2>2. PICK reads : reads = <<"delta", "delta2", "delta3">>
    OBVIOUS
  <2>3. \A y \in Range(reads) : y \in Fields /\ a1[y] = "r"
    BY <1>1, <2>1, <2>2, ReadsThree
  <2>4. Steps(a1, Apply("ratio", "inverse radius", reads), [a1 EXCEPT !["ratio"] = "r"])
    BY <1>1, <2>1, <2>3, ApplySteps
  <2> QED
    BY <2>2, <2>4, StepsEnd
<1>4. Steps(a2, File("norm"), a2)
  <2>1. a2["norm"] = "r"
    BY <1>1, <1>2, <1>3 DEF AllMarks
  <2> QED
    BY <1>1, <2>1, FileSteps
<1>5. Steps(a2, File("ratio"), a2)
  <2>1. a2["ratio"] = "r"
    BY <1>1, <1>2, <1>3 DEF AllMarks
  <2> QED
    BY <1>1, <2>1, FileSteps
<1>6. PICK b \in AllMarks : Steps(a2, Drop(Locals), b) /\ b = Dropped(a2, Locals)
  BY DropSteps, StepsEnd
<1>7. Stored(3) \cup {"tmp"} \subseteq Fields /\ "ratio" \notin Stored(3) \cup {"tmp"}
  <2>1. Stored(3) = {"wnoise", "phi", "phi2", "phi3", "A3x", "A3y", "A3z"}
        /\ Stored(3) \subseteq Fields
    BY StoredFields
  <2> QED
    BY <2>1, FieldNames
<1>8. \A x \in Stored(3) \cup {"tmp"} : b[x] = a[x]
  BY <1>1, <1>2, <1>3, <1>6, <1>7, LocalsApart DEF AllMarks, Dropped
<1> QED
  BY <1>2, <1>3, <1>4, <1>5, <1>6, <1>8, Runs5

LEMMA ConvergenceRadiusRuns ==
  ASSUME NEW a \in AllMarks, Full(a, Stored(3)), a["norm"] = "r"
  PROVE  \E b \in AllMarks : /\ Runs(a, ConvergenceRadius, b)
                             /\ Full(b, Stored(3)) /\ b["tmp"] = a["tmp"]
<1> DEFINE last == <<New("ratio"), Apply("ratio", "inverse radius", <<"delta", "delta2", "delta3">>),
                     File("norm"), File("ratio"), Drop(Locals)>>
           scratch == Displacements \cup Norms
<1>1. /\ scratch \subseteq Fields /\ Stored(3) \cup {"tmp", "norm", "ratio"} \subseteq Fields
      /\ (Stored(3) \cup {"tmp", "norm"}) \cap (scratch \cup {"ratio"}) = {}
      /\ "delta" \in Norms /\ "delta2" \in Norms /\ "delta3" \in Norms
      /\ Displacements \cap Norms = {}
  <2>1. Stored(3) = {"wnoise", "phi", "phi2", "phi3", "A3x", "A3y", "A3z"}
        /\ Stored(3) \subseteq Fields
    BY StoredFields
  <2> QED
    BY <2>1, FieldNames DEF Displacements, Norms
<1>2. PICK b \in AllMarks : /\ Runs(a, Norm(1, "delta"), b) /\ b["delta"] = "r"
                            /\ Kept(a, b, Displacements \cup {"delta"})
  <2>1. 1 \in 1 .. 3 /\ "delta" \in Norms
    BY <1>1
  <2> QED
    BY <2>1, NormRuns
<1>3. Full(b, Stored(3))
  BY <1>1, <1>2 DEF Kept, Full
<1>4. PICK c \in AllMarks : /\ Runs(b, Norm(2, "delta2"), c) /\ c["delta2"] = "r"
                            /\ Kept(b, c, Displacements \cup {"delta2"})
  <2>1. 2 \in 1 .. 3 /\ "delta2" \in Norms
    BY <1>1
  <2> QED
    BY <1>3, <2>1, NormRuns
<1>5. Full(c, Stored(3))
  BY <1>1, <1>3, <1>4 DEF Kept, Full
<1>6. PICK d \in AllMarks : /\ Runs(c, Norm(3, "delta3"), d) /\ d["delta3"] = "r"
                            /\ Kept(c, d, Displacements \cup {"delta3"})
  <2>1. 3 \in 1 .. 3 /\ "delta3" \in Norms
    BY <1>1
  <2> QED
    BY <1>5, <2>1, NormRuns
<1>7. d["delta"] = "r" /\ d["delta2"] = "r" /\ d["delta3"] = "r" /\ d["norm"] = "r"
  BY <1>1, <1>2, <1>4, <1>6 DEF Kept, Displacements, Norms
<1>8. PICK e \in AllMarks : /\ Runs(d, last, e) /\ \A x \in Stored(3) \cup {"tmp"} : e[x] = d[x]
  BY <1>7, RadiusRuns
<1> HIDE DEF last
<1>9. ConvergenceRadius = Norm(1, "delta") \o Norm(2, "delta2") \o Norm(3, "delta3") \o last
  BY DEF ConvergenceRadius, last
<1>10. PICK j : j = Norm(1, "delta") \o Norm(2, "delta2") \o Norm(3, "delta3")
  OBVIOUS
<1>11. Runs(a, j, d)
  BY <1>2, <1>4, <1>6, <1>10, RunsThree
<1>12. Runs(a, j \o last, e)
  BY <1>8, <1>11, RunsJoin
<1>13. \A x \in Stored(3) \cup {"tmp"} : e[x] = a[x]
  BY <1>1, <1>2, <1>4, <1>6, <1>8 DEF Kept
<1> QED
  BY <1>9, <1>10, <1>12, <1>13 DEF Full

LEMMA ConvergenceRuns ==
  ASSUME NEW a \in AllMarks, Full(a, Stored(3))
  PROVE  \E b \in AllMarks : /\ Runs(a, Unscaling \o ShellCrossing \o ConvergenceRadius, b)
                             /\ Full(b, Stored(3)) /\ b["tmp"] = a["tmp"]
<1>1. /\ Stored(3) = {"wnoise", "phi", "phi2", "phi3", "A3x", "A3y", "A3z"}
      /\ Stored(3) \cup {"tmp"} \subseteq Fields
  BY StoredFields, FieldNames
<1>2. a["phi"] = "k"
  BY <1>1 DEF Full
<1>3. PICK b \in AllMarks : /\ Runs(a, ShellCrossing, b) /\ b["norm"] = "r"
                            /\ Kept(a, b, {"copy", "speed", "norm"})
  BY <1>2, ShellCrossingRuns
<1>4. Full(b, Stored(3)) /\ b["tmp"] = a["tmp"]
  BY <1>1, <1>3 DEF Kept, Full
<1>5. PICK c \in AllMarks : Runs(b, ConvergenceRadius, c) /\ Full(c, Stored(3)) /\ c["tmp"] = b["tmp"]
  BY <1>3, <1>4, ConvergenceRadiusRuns
<1> QED
  BY <1>3, <1>4, <1>5, UnscalingRuns, RunsThree

-----------------------------------------------------------------------------
(***************************************************************************)
(* The blocks of a species.  Between them the potentials are filled, in    *)
(* either space, and tmp is as the last user left it.                      *)
(***************************************************************************)
AnyTmp == {"r0", "k0", "r", "k"}
Between(n) ==
  {a \in AllMarks : (\A x \in Stored(n) : a[x] \in {"r", "k"}) /\ a["tmp"] \in AnyTmp}
Moving(n) == {a \in AllMarks : Full(a, Stored(n)) /\ a["tmp"] \in AnyTmp}

LEMMA CompleteIsMoving ==
  ASSUME NEW n
  PROVE  Complete(n) \subseteq Moving(n) /\ Moving(n) \subseteq Between(n)
BY DEF Complete, Moving, Between, Full, AnyTmp

LEMMA StoredNames ==
  ASSUME NEW n \in Int
  PROVE  /\ Stored(n) \subseteq Fields \ ({"tmp"} \cup Locals) /\ "tmp" \in Fields
         /\ {"wnoise", "phi"} \subseteq Stored(n)
         /\ n > 1 <=> "phi2" \in Stored(n)
         /\ n > 2 => {"phi2", "phi3", "A3x", "A3y", "A3z"} \subseteq Stored(n)
<1>1. Stored(n) \subseteq Fields /\ Stored(n) \subseteq Stored(3) /\ Stored(n) \cap Locals = {}
  BY StoredFields, LocalsApart
<1>2. "tmp" \in Fields /\ "tmp" \notin Stored(n)
  BY FieldNames DEF Stored, Transversals
<1>3. n > 1 <=> "phi2" \in Stored(n)
  BY DEF Stored, Transversals
<1>4. n > 2 => {"phi2", "phi3", "A3x", "A3y", "A3z"} \subseteq Stored(n)
  BY DEF Stored, Transversals
<1> QED
  BY <1>1, <1>2, <1>3, <1>4 DEF Stored

LEMMA StaysBetween ==
  ASSUME NEW n \in Int, NEW a \in Between(n), NEW b \in AllMarks, NEW S, Kept(a, b, S),
         \A x \in S \cap Stored(n) : b[x] \in {"r", "k"}, "tmp" \in S => b["tmp"] \in AnyTmp
  PROVE  b \in Between(n)
<1>1. \A x \in Stored(n) : b[x] \in {"r", "k"}
  BY StoredNames DEF Between, Kept
<1>2. b["tmp"] \in AnyTmp
  BY StoredNames DEF Between, Kept
<1> QED
  BY <1>1, <1>2 DEF Between

LEMMA LagrangianIsBoolean == LagrangianSpecies \in BOOLEAN
BY DEF LagrangianSpecies

LEMMA SpeciesDensityRuns ==
  ASSUME NEW name, NEW a \in AllMarks, a["wnoise"] \in {"r", "k"}
  PROVE  \E b \in AllMarks : /\ Runs(a, SpeciesDensity(name), b)
                             /\ Kept(a, b, {"wnoise", "rho"})
                             /\ b["wnoise"] = "k"
                             /\ b["rho"] = "r"
<1>1. {"rho", "wnoise"} \subseteq Fields
  BY FieldNames
<1>2. PICK a1 \in AllMarks : Steps(a, New("rho"), a1) /\ a1 = [a EXCEPT !["rho"] = "r0"]
  BY <1>1, NewSteps, StepsEnd
<1>3. PICK a2 \in AllMarks : /\ Steps(a1, Forward("wnoise"), a2)
                             /\ a2 = [a1 EXCEPT !["wnoise"] = "k"]
  <2>1. a1["wnoise"] \in {"r", "k"}
    BY <1>1, <1>2 DEF AllMarks
  <2> QED
    BY <1>1, <2>1, ForwardSteps, StepsEnd
<1>4. PICK a3 \in AllMarks : /\ Steps(a2, Declare("rho", "k"), a3)
                             /\ a3 = [a2 EXCEPT !["rho"] = "k0"]
  <2>1. a2["rho"] = "r0"
    BY <1>1, <1>2, <1>3 DEF AllMarks
  <2> QED
    BY <1>1, <2>1, DeclareNew, StepsEnd
<1>5. PICK a4 \in AllMarks :
        /\ Steps(a3,
                 Combine("rho", "k", <<Term("wnoise", 1, One("delta_bc"))>>, FALSE, TRUE),
                 a4)
        /\ a4 = [a3 EXCEPT !["rho"] = "k"]
  <2>1. a3["rho"] = "k0" /\ a3["wnoise"] = "k"
    BY <1>1, <1>2, <1>3, <1>4 DEF AllMarks
  <2>2. Steps(a3,
              Combine("rho", "k", <<Term("wnoise", 1, One("delta_bc"))>>, FALSE, TRUE),
              [a3 EXCEPT !["rho"] = "k"])
    BY <1>1, <2>1, CombineOne
  <2> QED
    BY <2>2, StepsEnd
<1>6. PICK a5 \in AllMarks : Steps(a4, ZeroDC("rho"), a5) /\ a5 = [a4 EXCEPT !["rho"] = "k"]
  <2>1. a4["rho"] = "k"
    BY <1>1, <1>2, <1>3, <1>4, <1>5 DEF AllMarks
  <2> QED
    BY <1>1, <2>1, ZeroDCSteps, StepsEnd
<1>7. PICK a6 \in AllMarks : Steps(a5, Backward("rho"), a6) /\ a6 = [a5 EXCEPT !["rho"] = "r"]
  <2>1. a5["rho"] = "k"
    BY <1>1, <1>2, <1>3, <1>4, <1>5, <1>6 DEF AllMarks
  <2> QED
    BY <1>1, <2>1, BackwardSteps, StepsEnd
<1>8. PICK a7 \in AllMarks : /\ Steps(a6, Apply("rho", name, <<"rho">>), a7)
                             /\ a7 = [a6 EXCEPT !["rho"] = "r"]
  <2>1. a6["rho"] = "r"
    BY <1>1, <1>2, <1>3, <1>4, <1>5, <1>6, <1>7 DEF AllMarks
  <2>2. Steps(a6, Apply("rho", name, <<"rho">>), [a6 EXCEPT !["rho"] = "r"])
    BY <1>1, <2>1, ApplySteps, ReadsOne
  <2> QED
    BY <2>2, StepsEnd
<1>9. Runs(a, SpeciesDensity(name), a7)
  BY <1>2, <1>3, <1>4, <1>5, <1>6, <1>7, <1>8, Runs7 DEF SpeciesDensity
<1>10. Kept(a, a7, {"wnoise", "rho"})
  BY <1>1, <1>2, <1>3, <1>4, <1>5, <1>6, <1>7, <1>8 DEF AllMarks, Kept
<1>11. a7["wnoise"] = "k" /\ a7["rho"] = "r"
  BY <1>1, <1>2, <1>3, <1>4, <1>5, <1>6, <1>7, <1>8 DEF AllMarks
<1> QED
  BY <1>9, <1>10, <1>11

LEMMA GiveMassRuns ==
  ASSUME NEW a \in AllMarks, a["rho"] = "r"
  PROVE  \E b \in AllMarks : /\ Runs(a, <<Give("rho", "mass"), Drop({"rho"})>>, b)
                             /\ Kept(a, b, {"rho"})
<1>1. {"rho"} \subseteq Fields
  BY FieldNames
<1>2. Steps(a, Give("rho", "mass"), a)
  BY <1>1, GiveSteps
<1>3. PICK a2 \in AllMarks : Steps(a, Drop({"rho"}), a2) /\ a2 = Dropped(a, {"rho"})
  BY <1>1, DropSteps, StepsEnd
<1>4. Runs(a, <<Give("rho", "mass"), Drop({"rho"})>>, a2)
  BY <1>2, <1>3, Runs2
<1>5. Kept(a, a2, {"rho"})
  BY <1>1, <1>3 DEF AllMarks, Dropped, Kept
<1> QED
  BY <1>4, <1>5

LEMMA MassesTakes ==
  ASSUME NEW n \in Int, cfg \in Configs
  PROVE  Takes(Between(n),
               When(cfg.DoBaryons /\ LagrangianSpecies,
                    SpeciesDensity(ByName("mass")) \o <<Give("rho", "mass"), Drop({"rho"})>>),
               Between(n))
<1>1. PICK l : l = SpeciesDensity(ByName("mass")) \o <<Give("rho", "mass"), Drop({"rho"})>>
  OBVIOUS
<1>2. Takes(Between(n), l, Between(n))
  <2>1. ASSUME NEW a \in Between(n) PROVE \E b \in Between(n) : Runs(a, l, b)
    <3>1. PICK b \in AllMarks : /\ Runs(a, SpeciesDensity(ByName("mass")), b) /\ b["wnoise"] = "k"
                                /\ b["rho"] = "r" /\ Kept(a, b, {"wnoise", "rho"})
      BY StoredNames, SpeciesDensityRuns DEF Between
    <3>2. PICK c \in AllMarks : /\ Runs(b, <<Give("rho", "mass"), Drop({"rho"})>>, c)
                                /\ Kept(b, c, {"rho"})
      BY <3>1, GiveMassRuns
    <3>3. Runs(a, l, c)
      BY <1>1, <3>1, <3>2, RunsJoin
    <3>4. {"wnoise", "rho"} \cap Stored(n) \subseteq {"wnoise"} /\ {"rho"} \cap Stored(n) = {}
      BY StoredNames DEF Locals
    <3>5. b \in Between(n)
      BY <3>1, <3>4, StaysBetween
    <3>6. c \in Between(n)
      BY <3>2, <3>4, <3>5, StaysBetween
    <3> QED
      BY <3>3, <3>6
  <2> QED
    BY <2>1 DEF Takes
<1>3. Between(n) \in SUBSET AllMarks /\ (cfg.DoBaryons /\ LagrangianSpecies) \in BOOLEAN
  BY DEF Between
<1> QED
  BY <1>1, <1>2, <1>3, TakesWhen

LEMMA PhiBackRuns ==
  ASSUME NEW a \in AllMarks, a["phi"] \in {"r", "k"}
  PROVE  \E b \in AllMarks : /\ Runs(a, <<Backward("phi"), File("phi")>>, b)
                             /\ Kept(a, b, {"phi"})
                             /\ b["phi"] = "r"
<1>1. {"phi"} \subseteq Fields
  BY FieldNames
<1>2. PICK a1 \in AllMarks : Steps(a, Backward("phi"), a1) /\ a1 = [a EXCEPT !["phi"] = "r"]
  BY <1>1, BackwardSteps, StepsEnd
<1>3. Steps(a1, File("phi"), a1)
  <2>1. a1["phi"] = "r"
    BY <1>1, <1>2 DEF AllMarks
  <2> QED
    BY <1>1, <2>1, FileSteps
<1>4. Runs(a, <<Backward("phi"), File("phi")>>, a1)
  BY <1>2, <1>3, Runs2
<1>5. Kept(a, a1, {"phi"})
  BY <1>1, <1>2 DEF AllMarks, Kept
<1>6. a1["phi"] = "r"
  BY <1>1, <1>2 DEF AllMarks
<1> QED
  BY <1>4, <1>5, <1>6

LEMMA WaveRuns ==
  ASSUME NEW a \in AllMarks, a["phi"] = "r", a["phi2"] \in {"r", "k"}, a["rho"] = "r",
         a["psi"] = "r0"
  PROVE  \E b \in AllMarks : /\ Runs(a, <<Backward("phi2"), Apply("psi", "wave", <<"phi", "phi2", "rho">>)>>, b)
                             /\ Kept(a, b, {"phi2", "psi"})
                             /\ b["phi2"] = "r"
                             /\ b["psi"] = "r"
<1>1. {"phi2", "psi", "phi", "rho"} \subseteq Fields
  BY FieldNames
<1>2. PICK a1 \in AllMarks : Steps(a, Backward("phi2"), a1) /\ a1 = [a EXCEPT !["phi2"] = "r"]
  BY <1>1, BackwardSteps, StepsEnd
<1>3. PICK a2 \in AllMarks : /\ Steps(a1, Apply("psi", "wave", <<"phi", "phi2", "rho">>), a2)
                             /\ a2 = [a1 EXCEPT !["psi"] = "r"]
  <2>1. a1["psi"] = "r0" /\ a1["phi"] = "r" /\ a1["phi2"] = "r" /\ a1["rho"] = "r"
    BY <1>1, <1>2 DEF AllMarks
  <2>2. PICK reads : reads = <<"phi", "phi2", "rho">>
    OBVIOUS
  <2>3. \A y \in Range(reads) : y \in Fields /\ a1[y] = "r"
    BY <1>1, <2>1, <2>2, ReadsThree
  <2>4. Steps(a1, Apply("psi", "wave", reads), [a1 EXCEPT !["psi"] = "r"])
    BY <1>1, <2>1, <2>3, ApplySteps
  <2> QED
    BY <2>2, <2>4, StepsEnd
<1>4. Runs(a, <<Backward("phi2"), Apply("psi", "wave", <<"phi", "phi2", "rho">>)>>, a2)
  BY <1>2, <1>3, Runs2
<1>5. Kept(a, a2, {"phi2", "psi"})
  BY <1>1, <1>2, <1>3 DEF AllMarks, Kept
<1>6. a2["phi2"] = "r" /\ a2["psi"] = "r"
  BY <1>1, <1>2, <1>3 DEF AllMarks
<1> QED
  BY <1>4, <1>5, <1>6

LEMMA FirstWaveRuns ==
  ASSUME NEW a \in AllMarks, a["phi"] = "r", a["rho"] = "r", a["psi"] = "r0"
  PROVE  \E b \in AllMarks : /\ Runs(a, <<Apply("psi", "wave", <<"phi", "rho">>)>>, b)
                             /\ Kept(a, b, {"psi"})
                             /\ b["psi"] = "r"
<1>1. {"psi", "phi", "rho"} \subseteq Fields
  BY FieldNames
<1>2. PICK a1 \in AllMarks : /\ Steps(a, Apply("psi", "wave", <<"phi", "rho">>), a1)
                             /\ a1 = [a EXCEPT !["psi"] = "r"]
  <2>1. Steps(a, Apply("psi", "wave", <<"phi", "rho">>), [a EXCEPT !["psi"] = "r"])
    BY <1>1, ApplySteps, ReadsTwo
  <2> QED
    BY <2>1, StepsEnd
<1>3. Runs(a, <<Apply("psi", "wave", <<"phi", "rho">>)>>, a1)
  BY <1>2, RunsOne
<1>4. Kept(a, a1, {"psi"})
  BY <1>1, <1>2 DEF AllMarks, Kept
<1>5. a1["psi"] = "r"
  BY <1>1, <1>2 DEF AllMarks
<1> QED
  BY <1>3, <1>4, <1>5

LEMMA DriftRuns ==
  ASSUME NEW a \in AllMarks, a["psi"] = "r"
  PROVE  \E b \in AllMarks : /\ Runs(a, <<Forward("psi"), Combine("psi", "k", <<Term("psi", 1, One("drift"))>>, FALSE, TRUE), Backward("psi")>>, b)
                             /\ Kept(a, b, {"psi"})
                             /\ b["psi"] = "r"
<1>1. {"psi"} \subseteq Fields
  BY FieldNames
<1>2. PICK a1 \in AllMarks : Steps(a, Forward("psi"), a1) /\ a1 = [a EXCEPT !["psi"] = "k"]
  BY <1>1, ForwardSteps, StepsEnd
<1>3. PICK a2 \in AllMarks :
        /\ Steps(a1,
                 Combine("psi", "k", <<Term("psi", 1, One("drift"))>>, FALSE, TRUE),
                 a2)
        /\ a2 = [a1 EXCEPT !["psi"] = "k"]
  <2>1. a1["psi"] = "k"
    BY <1>1, <1>2 DEF AllMarks
  <2>2. Steps(a1,
              Combine("psi", "k", <<Term("psi", 1, One("drift"))>>, FALSE, TRUE),
              [a1 EXCEPT !["psi"] = "k"])
    BY <1>1, <2>1, CombineOne
  <2> QED
    BY <2>2, StepsEnd
<1>4. PICK a3 \in AllMarks : Steps(a2, Backward("psi"), a3) /\ a3 = [a2 EXCEPT !["psi"] = "r"]
  <2>1. a2["psi"] = "k"
    BY <1>1, <1>2, <1>3 DEF AllMarks
  <2> QED
    BY <1>1, <2>1, BackwardSteps, StepsEnd
<1>5. Runs(a, <<Forward("psi"), Combine("psi", "k", <<Term("psi", 1, One("drift"))>>, FALSE, TRUE), Backward("psi")>>, a3)
  BY <1>2, <1>3, <1>4, Runs3
<1>6. Kept(a, a3, {"psi"})
  BY <1>1, <1>2, <1>3, <1>4 DEF AllMarks, Kept
<1>7. a3["psi"] = "r"
  BY <1>1, <1>2, <1>3, <1>4 DEF AllMarks
<1> QED
  BY <1>5, <1>6, <1>7

LEMMA KickRuns ==
  ASSUME NEW a \in AllMarks, a["psi"] = "r", a["phi2"] = "r"
  PROVE  \E b \in AllMarks : /\ Runs(a, <<Apply("psi", "kick", <<"psi", "phi2">>)>>, b)
                             /\ Kept(a, b, {"psi"})
                             /\ b["psi"] = "r"
<1>1. {"psi", "phi2"} \subseteq Fields
  BY FieldNames
<1>2. PICK a1 \in AllMarks : /\ Steps(a, Apply("psi", "kick", <<"psi", "phi2">>), a1)
                             /\ a1 = [a EXCEPT !["psi"] = "r"]
  <2>1. Steps(a, Apply("psi", "kick", <<"psi", "phi2">>), [a EXCEPT !["psi"] = "r"])
    BY <1>1, ApplySteps, ReadsTwo
  <2> QED
    BY <2>1, StepsEnd
<1>3. Runs(a, <<Apply("psi", "kick", <<"psi", "phi2">>)>>, a1)
  BY <1>2, RunsOne
<1>4. Kept(a, a1, {"psi"})
  BY <1>1, <1>2 DEF AllMarks, Kept
<1>5. a1["psi"] = "r"
  BY <1>1, <1>2 DEF AllMarks
<1> QED
  BY <1>3, <1>4, <1>5

LEMMA ModulusRuns ==
  ASSUME NEW a \in AllMarks, a["psi"] = "r", a["rho"] = "r"
  PROVE  \E b \in AllMarks : /\ Runs(a, <<Apply("rho", "modulus", <<"psi">>), Give("rho", "density"), Write_PowerSpectrum("rho"), Backward("rho"), New("grad")>>, b)
                             /\ Kept(a, b, {"rho", "grad"})
                             /\ b["rho"] = "r"
                             /\ b["grad"] = "r0"
<1>1. {"rho", "psi", "grad"} \subseteq Fields
  BY FieldNames
<1>2. PICK a1 \in AllMarks : /\ Steps(a, Apply("rho", "modulus", <<"psi">>), a1)
                             /\ a1 = [a EXCEPT !["rho"] = "r"]
  <2>1. Steps(a, Apply("rho", "modulus", <<"psi">>), [a EXCEPT !["rho"] = "r"])
    BY <1>1, ApplySteps, ReadsOne
  <2> QED
    BY <2>1, StepsEnd
<1>3. Steps(a1, Give("rho", "density"), a1)
  <2>1. a1["rho"] = "r"
    BY <1>1, <1>2 DEF AllMarks
  <2> QED
    BY <1>1, <2>1, GiveSteps
<1>4. PICK a3 \in AllMarks : /\ Steps(a1, Write_PowerSpectrum("rho"), a3)
                             /\ a3 = [a1 EXCEPT !["rho"] = "k"]
  <2>1. a1["rho"] = "r"
    BY <1>1, <1>2 DEF AllMarks
  <2> QED
    BY <1>1, <2>1, SpectrumSteps, StepsEnd
<1>5. PICK a4 \in AllMarks : Steps(a3, Backward("rho"), a4) /\ a4 = [a3 EXCEPT !["rho"] = "r"]
  <2>1. a3["rho"] = "k"
    BY <1>1, <1>2, <1>4 DEF AllMarks
  <2> QED
    BY <1>1, <2>1, BackwardSteps, StepsEnd
<1>6. PICK a5 \in AllMarks : Steps(a4, New("grad"), a5) /\ a5 = [a4 EXCEPT !["grad"] = "r0"]
  BY <1>1, NewSteps, StepsEnd
<1>7. Runs(a, <<Apply("rho", "modulus", <<"psi">>), Give("rho", "density"), Write_PowerSpectrum("rho"), Backward("rho"), New("grad")>>, a5)
  BY <1>2, <1>3, <1>4, <1>5, <1>6, Runs5
<1>8. Kept(a, a5, {"rho", "grad"})
  BY <1>1, <1>2, <1>4, <1>5, <1>6 DEF AllMarks, Kept
<1>9. a5["rho"] = "r" /\ a5["grad"] = "r0"
  BY <1>1, <1>2, <1>4, <1>5, <1>6 DEF AllMarks
<1> QED
  BY <1>7, <1>8, <1>9

LEMMA CurrentRuns ==
  ASSUME NEW i, NEW a \in AllMarks, a["grad"] \in {"r0", "r"}, a["psi"] = "r", a["rho"] = "r",
         a["tmp"] \in {"r0", "k0", "r", "k"}
  PROVE  \E b \in AllMarks : /\ Runs(a, Current(i), b)
                             /\ Kept(a, b, {"grad", "tmp"})
                             /\ b["grad"] = "r"
                             /\ b["tmp"] = "r"
<1>1. {"grad", "psi", "tmp", "rho"} \subseteq Fields
  BY FieldNames
<1>2. PICK a1 \in AllMarks : /\ Steps(a, Declare("grad", "r"), a1)
                             /\ a1["grad"] \in {"r0", "r"} /\ Kept(a, a1, {"grad"})
  BY <1>1, DeclareAny, StepsEnd
<1>3. PICK a2 \in AllMarks : /\ Steps(a1, Copy("grad", "psi"), a2)
                             /\ a2 = [a1 EXCEPT !["grad"] = "r"]
  <2>1. a1["grad"] \in {"r0", "r"} /\ a1["psi"] = "r"
    BY <1>1, <1>2 DEF AllMarks, Kept
  <2> QED
    BY <1>1, <2>1, CopySteps, StepsEnd
<1>4. PICK a3 \in AllMarks : Steps(a2, Forward("grad"), a3) /\ a3 = [a2 EXCEPT !["grad"] = "k"]
  <2>1. a2["grad"] = "r"
    BY <1>1, <1>2, <1>3 DEF AllMarks, Kept
  <2> QED
    BY <1>1, <2>1, ForwardSteps, StepsEnd
<1>5. PICK a4 \in AllMarks :
        /\ Steps(a3,
                 Combine("grad", "k", <<Term("grad", 1, One(X("d", i)))>>, FALSE, TRUE),
                 a4)
        /\ a4 = [a3 EXCEPT !["grad"] = "k"]
  <2>1. a3["grad"] = "k"
    BY <1>1, <1>2, <1>3, <1>4 DEF AllMarks, Kept
  <2>2. Steps(a3,
              Combine("grad", "k", <<Term("grad", 1, One(X("d", i)))>>, FALSE, TRUE),
              [a3 EXCEPT !["grad"] = "k"])
    BY <1>1, <2>1, CombineOne
  <2> QED
    BY <2>2, StepsEnd
<1>6. PICK a5 \in AllMarks : Steps(a4, Backward("grad"), a5) /\ a5 = [a4 EXCEPT !["grad"] = "r"]
  <2>1. a4["grad"] = "k"
    BY <1>1, <1>2, <1>3, <1>4, <1>5 DEF AllMarks, Kept
  <2> QED
    BY <1>1, <2>1, BackwardSteps, StepsEnd
<1>7. PICK a6 \in AllMarks : /\ Steps(a5, Declare("tmp", "r"), a6)
                             /\ a6["tmp"] \in {"r0", "r"} /\ Kept(a5, a6, {"tmp"})
  <2>1. a5["tmp"] \in {"r0", "k0", "r", "k"}
    BY <1>1, <1>2, <1>3, <1>4, <1>5, <1>6 DEF AllMarks, Kept
  <2> QED
    BY <1>1, <2>1, DeclareAny, StepsEnd
<1>8. PICK a7 \in AllMarks : /\ Steps(a6, Apply("tmp", "current", <<"psi", "grad", "rho">>), a7)
                             /\ a7 = [a6 EXCEPT !["tmp"] = "r"]
  <2>1. a6["tmp"] \in {"r0", "r"} /\ a6["psi"] = "r" /\ a6["grad"] = "r" /\ a6["rho"] = "r"
    BY <1>1, <1>2, <1>3, <1>4, <1>5, <1>6, <1>7 DEF AllMarks, Kept
  <2>2. PICK reads : reads = <<"psi", "grad", "rho">>
    OBVIOUS
  <2>3. \A y \in Range(reads) : y \in Fields /\ a6[y] = "r"
    BY <1>1, <2>1, <2>2, ReadsThree
  <2>4. Steps(a6, Apply("tmp", "current", reads), [a6 EXCEPT !["tmp"] = "r"])
    BY <1>1, <2>1, <2>3, ApplySteps
  <2> QED
    BY <2>2, <2>4, StepsEnd
<1>9. Steps(a7, Give("tmp", X("v", i)), a7)
  <2>1. a7["tmp"] = "r"
    BY <1>1, <1>2, <1>3, <1>4, <1>5, <1>6, <1>7, <1>8 DEF AllMarks, Kept
  <2> QED
    BY <1>1, <2>1, GiveSteps
<1>10. Runs(a, Current(i), a7)
  BY <1>2, <1>3, <1>4, <1>5, <1>6, <1>7, <1>8, <1>9, Runs8 DEF Current
<1>11. Kept(a, a7, {"grad", "tmp"})
  BY <1>1, <1>2, <1>3, <1>4, <1>5, <1>6, <1>7, <1>8 DEF AllMarks, Kept
<1>12. a7["grad"] = "r" /\ a7["tmp"] = "r"
  BY <1>1, <1>2, <1>3, <1>4, <1>5, <1>6, <1>7, <1>8 DEF AllMarks, Kept
<1> QED
  BY <1>10, <1>11, <1>12

LEMMA CurrentsRun ==
  ASSUME NEW a \in AllMarks, a["grad"] = "r0", a["psi"] = "r", a["rho"] = "r", a["tmp"] \in AnyTmp
  PROVE  \E b \in AllMarks : /\ Runs(a, ForDims(Current), b)
                             /\ Kept(a, b, {"grad", "tmp"}) /\ b["tmp"] = "r"
<1>1. {"psi", "rho", "grad", "tmp"} \subseteq Fields
  BY FieldNames
<1>2. ASSUME NEW i, NEW c \in AllMarks, c["grad"] \in {"r0", "r"}, c["psi"] = "r", c["rho"] = "r",
             c["tmp"] \in AnyTmp
      PROVE  \E d \in AllMarks : /\ Runs(c, Current(i), d) /\ Kept(c, d, {"grad", "tmp"})
                                 /\ d["grad"] = "r" /\ d["tmp"] = "r"
                                 /\ d["psi"] = "r" /\ d["rho"] = "r"
  <2>1. PICK d \in AllMarks : /\ Runs(c, Current(i), d) /\ Kept(c, d, {"grad", "tmp"})
                              /\ d["grad"] = "r" /\ d["tmp"] = "r"
    BY <1>2, CurrentRuns DEF AnyTmp
  <2>2. d["psi"] = "r" /\ d["rho"] = "r"
    BY <1>1, <1>2, <2>1 DEF Kept
  <2> QED
    BY <2>1, <2>2
<1>3. PICK b \in AllMarks : /\ Runs(a, Current(0), b) /\ Kept(a, b, {"grad", "tmp"})
                            /\ b["grad"] = "r" /\ b["tmp"] = "r" /\ b["psi"] = "r" /\ b["rho"] = "r"
  BY <1>2
<1>4. PICK c \in AllMarks : /\ Runs(b, Current(1), c) /\ Kept(b, c, {"grad", "tmp"})
                            /\ c["grad"] = "r" /\ c["tmp"] = "r" /\ c["psi"] = "r" /\ c["rho"] = "r"
  BY <1>2, <1>3 DEF AnyTmp
<1>5. PICK d \in AllMarks : /\ Runs(c, Current(2), d) /\ Kept(c, d, {"grad", "tmp"})
                            /\ d["grad"] = "r" /\ d["tmp"] = "r" /\ d["psi"] = "r" /\ d["rho"] = "r"
  BY <1>2, <1>4 DEF AnyTmp
<1>6. Runs(a, ForDims(Current), d)
  BY <1>3, <1>4, <1>5, RunsThree DEF ForDims
<1>7. Kept(a, d, {"grad", "tmp"})
  BY <1>3, <1>4, <1>5 DEF Kept
<1> QED
  BY <1>5, <1>6, <1>7

LEMMA WavesRun ==
  ASSUME NEW n \in Int, n = cfg.LPTorder, NEW a \in Between(n), a["phi"] = "r", a["rho"] = "r",
         a["psi"] = "r0"
  PROVE  \E b \in AllMarks :
           /\ Runs(a, IF cfg.LPTorder >= 2
                        THEN <<Backward("phi2"), Apply("psi", "wave", <<"phi", "phi2", "rho">>)>>
                        ELSE <<Apply("psi", "wave", <<"phi", "rho">>)>>, b)
           /\ Kept(a, b, {"phi2", "psi"}) /\ b["psi"] = "r"
           /\ IF cfg.LPTorder >= 2 THEN b["phi2"] = "r" ELSE b["phi2"] = a["phi2"]
<1>1. a \in AllMarks /\ "phi2" \in Fields
  BY FieldNames DEF Between
<1>2. CASE cfg.LPTorder >= 2
  <2>1. a["phi2"] \in {"r", "k"}
    BY <1>2, StoredNames DEF Between
  <2> QED
    BY <1>1, <1>2, <2>1, WaveRuns
<1>3. CASE ~(cfg.LPTorder >= 2)
  <2>1. PICK b \in AllMarks : /\ Runs(a, <<Apply("psi", "wave", <<"phi", "rho">>)>>, b)
                              /\ Kept(a, b, {"psi"}) /\ b["psi"] = "r"
    BY <1>1, FirstWaveRuns
  <2>2. Kept(a, b, {"phi2", "psi"}) /\ b["phi2"] = a["phi2"]
    BY <1>1, <2>1 DEF Kept
  <2> QED
    BY <1>3, <2>1, <2>2
<1> QED
  BY <1>2, <1>3

LEMMA EulerianRuns ==
  ASSUME cfg \in Configs, NEW a \in Between(cfg.LPTorder)
  PROVE  \E b \in Between(cfg.LPTorder) : Runs(a, EulerianBlock, b)
<1> DEFINE first == <<New("psi")>>
           density == SpeciesDensity(ByName("root"))
           back == <<Backward("phi"), File("phi")>>
           wave == IF cfg.LPTorder >= 2
                     THEN <<Backward("phi2"), Apply("psi", "wave", <<"phi", "phi2", "rho">>)>>
                     ELSE <<Apply("psi", "wave", <<"phi", "rho">>)>>
           drift == <<Forward("psi"), Combine("psi", "k", <<Term("psi", 1, One("drift"))>>,
                                              FALSE, TRUE), Backward("psi")>>
           kick == <<Apply("psi", "kick", <<"psi", "phi2">>)>>
           modulus == <<Apply("rho", "modulus", <<"psi">>), Give("rho", "density"),
                        Write_PowerSpectrum("rho"), Backward("rho"), New("grad")>>
           last == <<Drop({"psi", "rho", "grad"})>>
<1>1. {"psi", "rho", "grad", "tmp", "phi", "phi2", "wnoise"} \subseteq Fields
  BY FieldNames
<1>2. PICK n \in Int : n = cfg.LPTorder
  BY ConfigFacts
<1>3. /\ Stored(n) \cap {"psi", "rho", "grad", "tmp"} = {} /\ {"wnoise", "phi"} \subseteq Stored(n)
      /\ n > 1 <=> "phi2" \in Stored(n)
  BY StoredNames DEF Locals
<1>4. a \in AllMarks /\ a \in Between(n)
  BY <1>2 DEF Between
<1>5. PICK b \in AllMarks : Runs(a, first, b) /\ Kept(a, b, {"psi"}) /\ b["psi"] = "r0"
  <2>1. PICK b : b = [a EXCEPT !["psi"] = "r0"]
    OBVIOUS
  <2>2. Steps(a, New("psi"), b)
    BY <1>1, <1>4, <2>1, NewSteps
  <2>3. Kept(a, b, {"psi"}) /\ b["psi"] = "r0"
    BY <1>1, <1>4, <2>1 DEF AllMarks, Kept
  <2> QED
    BY <1>4, <2>2, <2>3, StepsEnd, RunsOne
<1>6. b \in Between(n)
  BY <1>3, <1>4, <1>5, StaysBetween
<1>7. PICK c \in AllMarks : /\ Runs(b, density, c) /\ c["wnoise"] = "k" /\ c["rho"] = "r"
                            /\ Kept(b, c, {"wnoise", "rho"})
  <2>1. b["wnoise"] \in {"r", "k"}
    BY <1>3, <1>6 DEF Between
  <2> QED
    BY <2>1, SpeciesDensityRuns
<1>8. c \in Between(n) /\ c["psi"] = "r0"
  <2>1. c["psi"] = "r0"
    BY <1>1, <1>5, <1>7 DEF Kept
  <2>2. c \in Between(n)
    BY <1>3, <1>6, <1>7, StaysBetween
  <2> QED
    BY <2>1, <2>2
<1>9. PICK d \in AllMarks : Runs(c, back, d) /\ Kept(c, d, {"phi"}) /\ d["phi"] = "r"
  <2>1. c["phi"] \in {"r", "k"}
    BY <1>3, <1>8 DEF Between
  <2> QED
    BY <2>1, PhiBackRuns
<1>10. d \in Between(n) /\ d["psi"] = "r0" /\ d["rho"] = "r"
  <2>1. d["psi"] = "r0" /\ d["rho"] = "r"
    BY <1>1, <1>7, <1>8, <1>9 DEF Kept
  <2>2. d \in Between(n)
    BY <1>8, <1>9, StaysBetween
  <2> QED
    BY <2>1, <2>2
<1>11. PICK e \in AllMarks : /\ Runs(d, wave, e) /\ Kept(d, e, {"phi2", "psi"}) /\ e["psi"] = "r"
                             /\ IF cfg.LPTorder >= 2 THEN e["phi2"] = "r" ELSE e["phi2"] = d["phi2"]
  BY <1>2, <1>9, <1>10, WavesRun
<1>12. e \in Between(n) /\ e["rho"] = "r"
  <2>1. e["rho"] = "r"
    BY <1>1, <1>10, <1>11 DEF Kept
  <2>2. \A x \in {"phi2", "psi"} \cap Stored(n) : e[x] \in {"r", "k"}
    BY <1>2, <1>3, <1>11
  <2>3. e \in Between(n)
    BY <1>10, <1>11, <2>2, StaysBetween
  <2> QED
    BY <2>1, <2>3
<1>13. PICK f \in AllMarks : Runs(e, drift, f) /\ Kept(e, f, {"psi"}) /\ f["psi"] = "r"
  BY <1>11, DriftRuns
<1>14. /\ f \in Between(n) /\ f["rho"] = "r"
       /\ cfg.LPTorder >= 2 => f["phi2"] = "r"
  <2>1. f["rho"] = "r" /\ f["phi2"] = e["phi2"]
    BY <1>1, <1>12, <1>13 DEF Kept
  <2>2. f \in Between(n)
    BY <1>3, <1>12, <1>13, StaysBetween
  <2> QED
    BY <1>11, <2>1, <2>2
<1>15. PICK g \in AllMarks : /\ Runs(f, When(cfg.LPTorder >= 2, kick), g)
                             /\ Kept(f, g, {"psi"}) /\ g["psi"] = "r"
  <2>1. CASE cfg.LPTorder >= 2
    BY <1>13, <1>14, <2>1, KickRuns DEF When
  <2>2. CASE ~(cfg.LPTorder >= 2)
    BY <1>13, <2>2, RunsNothing DEF When, Kept
  <2> QED
    BY <2>1, <2>2
<1>16. g \in Between(n) /\ g["rho"] = "r"
  <2>1. g["rho"] = "r"
    BY <1>1, <1>14, <1>15 DEF Kept
  <2>2. g \in Between(n)
    BY <1>3, <1>14, <1>15, StaysBetween
  <2> QED
    BY <2>1, <2>2
<1>17. PICK h \in AllMarks : /\ Runs(g, modulus, h) /\ Kept(g, h, {"rho", "grad"})
                             /\ h["rho"] = "r" /\ h["grad"] = "r0"
  BY <1>15, <1>16, ModulusRuns
<1>18. h \in Between(n) /\ h["psi"] = "r"
  <2>1. h["psi"] = "r"
    BY <1>1, <1>15, <1>17 DEF Kept
  <2>2. h \in Between(n)
    BY <1>3, <1>16, <1>17, StaysBetween
  <2> QED
    BY <2>1, <2>2
<1>19. PICK p \in AllMarks : /\ Runs(h, ForDims(Current), p)
                             /\ Kept(h, p, {"grad", "tmp"}) /\ p["tmp"] = "r"
  BY <1>17, <1>18, CurrentsRun DEF Between
<1>20. p \in Between(n)
  BY <1>3, <1>18, <1>19, StaysBetween DEF AnyTmp
<1>21. PICK q \in AllMarks : Runs(p, last, q) /\ Kept(p, q, {"psi", "rho", "grad"})
  <2>1. PICK i, q : i = Drop({"psi", "rho", "grad"}) /\ q = Dropped(p, {"psi", "rho", "grad"})
    OBVIOUS
  <2>2. Steps(p, i, q)
    BY <2>1, DropSteps
  <2>3. Kept(p, q, {"psi", "rho", "grad"})
    BY <2>1 DEF Dropped, Kept
  <2> QED
    BY <2>1, <2>2, <2>3, StepsEnd, RunsOne
<1>22. q \in Between(n)
  BY <1>3, <1>20, <1>21, StaysBetween
<1>23. EulerianBlock = first \o density \o back \o wave \o drift \o When(cfg.LPTorder >= 2, kick)
                         \o modulus \o ForDims(Current) \o last
  BY DEF EulerianBlock
<1> HIDE DEF first, density, back, wave, drift, kick, modulus, last
<1>24. PICK w : w = When(cfg.LPTorder >= 2, kick)
  OBVIOUS
<1>25. PICK j, k, l : /\ j = first \o density \o back /\ k = j \o wave \o drift
                      /\ l = k \o w \o modulus
  OBVIOUS
<1>26. Runs(a, j, d)
  BY <1>5, <1>7, <1>9, <1>25, RunsThree
<1>27. Runs(a, k, f)
  BY <1>11, <1>13, <1>25, <1>26, RunsThree
<1>28. Runs(a, l, h)
  BY <1>15, <1>17, <1>24, <1>25, <1>27, RunsThree
<1>29. Runs(a, l \o ForDims(Current) \o last, q)
  BY <1>19, <1>21, <1>28, RunsThree
<1> QED
  BY <1>2, <1>22, <1>23, <1>24, <1>25, <1>29

LEMMA EulerianTakes ==
  ASSUME cfg \in Configs
  PROVE  Takes(Between(cfg.LPTorder),
               When(write_species_as(this_species) = "field_eulerian", EulerianBlock),
               Between(cfg.LPTorder))
<1>1. Takes(Between(cfg.LPTorder), EulerianBlock, Between(cfg.LPTorder))
  BY EulerianRuns DEF Takes
<1>2. Between(cfg.LPTorder) \in SUBSET AllMarks
  BY DEF Between
<1>3. PICK P \in BOOLEAN : P <=> write_species_as(this_species) = "field_eulerian"
  OBVIOUS
<1>4. Takes(Between(cfg.LPTorder), When(P, EulerianBlock), Between(cfg.LPTorder))
  BY <1>1, <1>2, TakesWhen
<1> QED
  BY <1>3, <1>4 DEF When

-----------------------------------------------------------------------------
(***************************************************************************)
(* The displaced species: the potentials come forward one by one, then the *)
(* shared grid tmp takes every displacement and every velocity.            *)
(***************************************************************************)
Brought(n, S) == {a \in Between(n) : Full(a, S)}

LEMMA ForwardTakes ==
  ASSUME NEW n \in Int, NEW S, S \subseteq Fields, NEW x \in Stored(n)
  PROVE  Takes(Brought(n, S), <<Forward(x)>>, Brought(n, S \cup {x}))
<1>1. x \in Fields /\ x # "tmp"
  BY StoredNames
<1>2. ASSUME NEW a \in Brought(n, S) PROVE \E b \in Brought(n, S \cup {x}) : Runs(a, <<Forward(x)>>, b)
  <2>1. a \in AllMarks /\ a \in Between(n) /\ a[x] \in {"r", "k"}
    BY DEF Brought, Between
  <2>2. PICK b : b = [a EXCEPT ![x] = "k"]
    OBVIOUS
  <2>3. PICK c : c = Forward(x)
    OBVIOUS
  <2>4. Steps(a, c, b)
    BY <1>1, <2>1, <2>2, <2>3, ForwardSteps
  <2>5. b \in AllMarks /\ Kept(a, b, {x}) /\ b[x] = "k"
    BY <1>1, <2>1, <2>2 DEF AllMarks, Marks, Kept
  <2>6. b \in Between(n)
    BY <1>1, <2>1, <2>5, StaysBetween
  <2>7. Full(b, S \cup {x})
    BY <2>5 DEF Full, Kept, Brought
  <2>8. Runs(a, <<c>>, b)
    BY <2>1, <2>4, RunsOne
  <2> QED
    BY <2>3, <2>6, <2>7, <2>8 DEF Brought
<1> QED
  BY <1>2 DEF Takes

LEMMA PotentialsForwardTakes ==
  ASSUME cfg \in Configs
  PROVE  Takes(Between(cfg.LPTorder), PotentialsForward, Moving(cfg.LPTorder))
<1>1. PICK n \in Int : n = cfg.LPTorder
  BY ConfigFacts
<1>2. A3(0) = "A3x" /\ A3(1) = "A3y" /\ A3(2) = "A3z"
  BY AxisNames DEF A3
<1>3. /\ Stored(n) \subseteq Fields /\ {"wnoise", "phi"} \subseteq Stored(n)
      /\ n > 1 => "phi2" \in Stored(n)
      /\ n > 2 => {"phi2", "phi3", "A3x", "A3y", "A3z"} \subseteq Stored(n)
  BY StoredNames
<1>4. PICK P \in BOOLEAN, Q \in BOOLEAN : (P <=> n > 1) /\ (Q <=> n > 2)
  OBVIOUS
<1> DEFINE A == Brought(n, {"phi"})
           B == Brought(n, {"phi"} \cup (IF P THEN {"phi2"} ELSE {}))
           C == Brought(n, Stored(n) \ {"wnoise"})
           transversals(i) == <<Forward(A3(i))>>
           second == <<Forward("phi2")>>
           third == <<Forward("phi3")>> \o ForDims(transversals)
<1>5. Takes(Between(n), <<Forward("phi")>>, A)
  <2>1. PICK S : S = {}
    OBVIOUS
  <2>2. Takes(Brought(n, S), <<Forward("phi")>>, Brought(n, S \cup {"phi"}))
    BY <1>3, <2>1, ForwardTakes
  <2>3. Between(n) \subseteq Brought(n, S)
    BY <2>1 DEF Brought, Full
  <2>4. S \cup {"phi"} = {"phi"}
    BY <2>1
  <2> QED
    BY <2>2, <2>3, <2>4, TakesWider
<1>6. Takes(A, When(P, second), B)
  <2>1. ASSUME P PROVE Takes(A, second, B)
    <3>1. PICK S : S = {"phi"}
      OBVIOUS
    <3>2. Takes(Brought(n, S), second, Brought(n, S \cup {"phi2"}))
      BY <1>3, <1>4, <2>1, <3>1, ForwardTakes
    <3> QED
      BY <2>1, <3>1, <3>2
  <2>2. ~P => A \subseteq B
    BY DEF Brought, Full
  <2>3. A \in SUBSET AllMarks
    BY DEF Brought, Between
  <2> HIDE DEF A, B, second
  <2> QED
    BY <2>1, <2>2, <2>3, TakesWhen
<1>7. Takes(B, When(Q, third), C)
  <2>1. ASSUME Q PROVE Takes(B, third, C)
    <3>1. P /\ {"phi2", "phi3", "A3x", "A3y", "A3z"} \subseteq Stored(n)
      BY <1>3, <1>4, <2>1
    <3>2. PICK S, T, U, V, W : /\ S = {"phi", "phi2"} /\ T = S \cup {"phi3"} /\ U = T \cup {"A3x"}
                               /\ V = U \cup {"A3y"} /\ W = V \cup {"A3z"}
      OBVIOUS
    <3>3. S \subseteq Fields /\ T \subseteq Fields /\ U \subseteq Fields /\ V \subseteq Fields
      BY <1>3, <3>1, <3>2
    <3>4. Takes(Brought(n, S), <<Forward("phi3")>>, Brought(n, T))
      BY <3>1, <3>2, <3>3, ForwardTakes
    <3>5. Takes(Brought(n, T), transversals(0), Brought(n, U))
      BY <1>2, <3>1, <3>2, <3>3, ForwardTakes
    <3>6. Takes(Brought(n, U), transversals(1), Brought(n, V))
      BY <1>2, <3>1, <3>2, <3>3, ForwardTakes
    <3>7. Takes(Brought(n, V), transversals(2), Brought(n, W))
      BY <1>2, <3>1, <3>2, <3>3, ForwardTakes
    <3>8. Takes(Brought(n, T), ForDims(transversals), Brought(n, W))
      <4> HIDE DEF transversals
      <4> QED
        BY <3>5, <3>6, <3>7, TakesThree DEF ForDims
    <3>9. Takes(Brought(n, S), third, Brought(n, W))
      <4> HIDE DEF transversals
      <4> QED
        BY <3>4, <3>8, TakesJoin
    <3>10. B = Brought(n, S)
      <4>1. S = {"phi"} \cup (IF P THEN {"phi2"} ELSE {})
        BY <3>1, <3>2
      <4> QED
        BY <4>1
    <3>11. W = Stored(n) \ {"wnoise"}
      BY <1>4, <2>1, <3>2 DEF Stored, Transversals
    <3> QED
      BY <3>9, <3>10, <3>11
  <2>2. ~Q => B \subseteq C
    <3>1. ~Q => Stored(n) \ {"wnoise"} \subseteq {"phi"} \cup (IF P THEN {"phi2"} ELSE {})
      BY <1>4 DEF Stored
    <3> QED
      BY <3>1 DEF Brought, Full
  <2>3. B \in SUBSET AllMarks
    BY DEF Brought, Between
  <2> HIDE DEF B, C, third
  <2> QED
    BY <2>1, <2>2, <2>3, TakesWhen
<1>8. Takes(C, <<Forward("wnoise")>>, Moving(n))
  <2>1. PICK S : S = Stored(n) \ {"wnoise"}
    OBVIOUS
  <2>2. Takes(Brought(n, S), <<Forward("wnoise")>>, Brought(n, S \cup {"wnoise"}))
    BY <1>3, <2>1, ForwardTakes
  <2>3. Brought(n, S \cup {"wnoise"}) \subseteq Moving(n)
    BY <2>1 DEF Brought, Moving, Between, Full
  <2>4. C \subseteq Brought(n, S)
    BY <2>1
  <2> HIDE DEF C
  <2> QED
    BY <2>2, <2>3, <2>4, TakesWider
<1>9. PotentialsForward = <<Forward("phi")>> \o When(P, second) \o When(Q, third)
                            \o <<Forward("wnoise")>>
  BY <1>1, <1>4 DEF PotentialsForward, When
<1> HIDE DEF A, B, C, second, third
<1>10. PICK l : l = <<Forward("phi")>> \o When(P, second) \o When(Q, third)
  OBVIOUS
<1>11. Takes(Between(n), l, C)
  BY <1>5, <1>6, <1>7, <1>10, TakesThree
<1>12. Takes(Between(n), l \o <<Forward("wnoise")>>, Moving(n))
  BY <1>8, <1>11, TakesJoin
<1> QED
  BY <1>1, <1>9, <1>10, <1>12

LEMMA StaysMoving ==
  ASSUME NEW n \in Int, NEW a \in Moving(n), NEW b \in AllMarks, Kept(a, b, {"tmp"}),
         b["tmp"] \in AnyTmp
  PROVE  b \in Moving(n)
<1>1. \A x \in Stored(n) : b[x] = "k"
  BY StoredNames DEF Moving, Full, Kept
<1> QED
  BY <1>1 DEF Moving, Full

LEMMA DisplacementRuns ==
  ASSUME NEW i \in Dims, NEW n \in Int, NEW a \in AllMarks, a["tmp"] \in {"r0", "k0", "r", "k"},
         n = cfg.LPTorder, Full(a, Stored(n))
  PROVE  \E b \in AllMarks : /\ Runs(a, Displacement(i), b)
                             /\ Kept(a, b, {"tmp"})
                             /\ b["tmp"] = "r"
<1>1. {"tmp"} \subseteq Fields /\ Stored(n) \subseteq Fields /\ "tmp" \notin Stored(n)
  BY StoredNames
<1>2. PICK a1 \in AllMarks : /\ Steps(a, Declare("tmp", "k"), a1)
                             /\ a1["tmp"] \in {"k0", "k"} /\ Kept(a, a1, {"tmp"})
  BY <1>1, DeclareAny, StepsEnd
<1>3. PICK a2 \in AllMarks :
        /\ Steps(a1,
                 Combine("tmp", "k", LPTTerms(i, n, Same, Nothing), FALSE, TRUE),
                 a2)
        /\ a2 = [a1 EXCEPT !["tmp"] = "k"]
  <2>1. a1["tmp"] \in {"k0", "k"} /\ Full(a1, Stored(n))
    BY <1>1, <1>2 DEF AllMarks, Full, Kept
  <2>2. Steps(a1,
              Combine("tmp", "k", LPTTerms(i, n, Same, Nothing), FALSE, TRUE),
              [a1 EXCEPT !["tmp"] = "k"])
    BY <1>1, <2>1, LPTCombines
  <2> QED
    BY <2>2, StepsEnd
<1>4. PICK a3 \in AllMarks : Steps(a2, ZeroDC("tmp"), a3) /\ a3 = [a2 EXCEPT !["tmp"] = "k"]
  <2>1. a2["tmp"] = "k"
    BY <1>1, <1>2, <1>3 DEF AllMarks, Full, Kept
  <2> QED
    BY <1>1, <2>1, ZeroDCSteps, StepsEnd
<1>5. PICK a4 \in AllMarks : Steps(a3, Backward("tmp"), a4) /\ a4 = [a3 EXCEPT !["tmp"] = "r"]
  <2>1. a3["tmp"] = "k"
    BY <1>1, <1>2, <1>3, <1>4 DEF AllMarks, Full, Kept
  <2> QED
    BY <1>1, <2>1, BackwardSteps, StepsEnd
<1>6. Steps(a4, Give("tmp", X("d", i)), a4)
  <2>1. a4["tmp"] = "r"
    BY <1>1, <1>2, <1>3, <1>4, <1>5 DEF AllMarks, Full, Kept
  <2> QED
    BY <1>1, <2>1, GiveSteps
<1>7. Runs(a, Displacement(i), a4)
  BY <1>2, <1>3, <1>4, <1>5, <1>6, Runs5 DEF Displacement
<1>8. Kept(a, a4, {"tmp"})
  BY <1>1, <1>2, <1>3, <1>4, <1>5 DEF AllMarks, Full, Kept
<1>9. a4["tmp"] = "r"
  BY <1>1, <1>2, <1>3, <1>4, <1>5 DEF AllMarks, Full, Kept
<1> QED
  BY <1>7, <1>8, <1>9

LEMMA DeliverRuns ==
  ASSUME NEW a \in AllMarks, a["phi"] \in {"r", "k"}, a["tmp"] \in {"r0", "k0", "r", "k"}
  PROVE  \E b \in AllMarks : /\ Runs(a, <<Forward("phi"), Declare("tmp", "k"), Combine("tmp", "k", <<Term("phi", 1, One("laplacian"))>>, FALSE, TRUE), Write_PowerSpectrum("tmp"), Backward("tmp"), Give("tmp", "density")>>, b)
                             /\ Kept(a, b, {"phi", "tmp"})
                             /\ b["phi"] = "k"
                             /\ b["tmp"] = "r"
<1>1. {"phi", "tmp"} \subseteq Fields
  BY FieldNames
<1>2. PICK a1 \in AllMarks : Steps(a, Forward("phi"), a1) /\ a1 = [a EXCEPT !["phi"] = "k"]
  BY <1>1, ForwardSteps, StepsEnd
<1>3. PICK a2 \in AllMarks : /\ Steps(a1, Declare("tmp", "k"), a2)
                             /\ a2["tmp"] \in {"k0", "k"} /\ Kept(a1, a2, {"tmp"})
  <2>1. a1["tmp"] \in {"r0", "k0", "r", "k"}
    BY <1>1, <1>2 DEF AllMarks
  <2> QED
    BY <1>1, <2>1, DeclareAny, StepsEnd
<1>4. PICK a3 \in AllMarks :
        /\ Steps(a2,
                 Combine("tmp", "k", <<Term("phi", 1, One("laplacian"))>>, FALSE, TRUE),
                 a3)
        /\ a3 = [a2 EXCEPT !["tmp"] = "k"]
  <2>1. a2["tmp"] \in {"k0", "k"} /\ a2["phi"] = "k"
    BY <1>1, <1>2, <1>3 DEF AllMarks, Kept
  <2>2. Steps(a2,
              Combine("tmp", "k", <<Term("phi", 1, One("laplacian"))>>, FALSE, TRUE),
              [a2 EXCEPT !["tmp"] = "k"])
    BY <1>1, <2>1, CombineOne
  <2> QED
    BY <2>2, StepsEnd
<1>5. PICK a4 \in AllMarks : /\ Steps(a3, Write_PowerSpectrum("tmp"), a4)
                             /\ a4 = [a3 EXCEPT !["tmp"] = "k"]
  <2>1. a3["tmp"] = "k"
    BY <1>1, <1>2, <1>3, <1>4 DEF AllMarks, Kept
  <2> QED
    BY <1>1, <2>1, SpectrumSteps, StepsEnd
<1>6. PICK a5 \in AllMarks : Steps(a4, Backward("tmp"), a5) /\ a5 = [a4 EXCEPT !["tmp"] = "r"]
  <2>1. a4["tmp"] = "k"
    BY <1>1, <1>2, <1>3, <1>4, <1>5 DEF AllMarks, Kept
  <2> QED
    BY <1>1, <2>1, BackwardSteps, StepsEnd
<1>7. Steps(a5, Give("tmp", "density"), a5)
  <2>1. a5["tmp"] = "r"
    BY <1>1, <1>2, <1>3, <1>4, <1>5, <1>6 DEF AllMarks, Kept
  <2> QED
    BY <1>1, <2>1, GiveSteps
<1>8. Runs(a, <<Forward("phi"), Declare("tmp", "k"), Combine("tmp", "k", <<Term("phi", 1, One("laplacian"))>>, FALSE, TRUE), Write_PowerSpectrum("tmp"), Backward("tmp"), Give("tmp", "density")>>, a5)
  BY <1>2, <1>3, <1>4, <1>5, <1>6, <1>7, Runs6
<1>9. Kept(a, a5, {"phi", "tmp"})
  BY <1>1, <1>2, <1>3, <1>4, <1>5, <1>6 DEF AllMarks, Kept
<1>10. a5["phi"] = "k" /\ a5["tmp"] = "r"
  BY <1>1, <1>2, <1>3, <1>4, <1>5, <1>6 DEF AllMarks, Kept
<1> QED
  BY <1>8, <1>9, <1>10

LEMMA HandedOver ==
  ASSUME NEW what, NEW a \in AllMarks, a["tmp"] \in {"k", "k8"}
  PROVE  \E b \in AllMarks : /\ Runs(a, <<ZeroDC("tmp"), Backward("tmp"), Give("tmp", what)>>, b)
                             /\ Kept(a, b, {"tmp"})
                             /\ b["tmp"] = "r"
<1>1. {"tmp"} \subseteq Fields
  BY FieldNames
<1>2. PICK a1 \in AllMarks : Steps(a, ZeroDC("tmp"), a1) /\ a1 = [a EXCEPT !["tmp"] = "k"]
  BY <1>1, ZeroDCSteps, StepsEnd
<1>3. PICK a2 \in AllMarks : Steps(a1, Backward("tmp"), a2) /\ a2 = [a1 EXCEPT !["tmp"] = "r"]
  <2>1. a1["tmp"] = "k"
    BY <1>1, <1>2 DEF AllMarks
  <2> QED
    BY <1>1, <2>1, BackwardSteps, StepsEnd
<1>4. Steps(a2, Give("tmp", what), a2)
  <2>1. a2["tmp"] = "r"
    BY <1>1, <1>2, <1>3 DEF AllMarks
  <2> QED
    BY <1>1, <2>1, GiveSteps
<1>5. Runs(a, <<ZeroDC("tmp"), Backward("tmp"), Give("tmp", what)>>, a2)
  BY <1>2, <1>3, <1>4, Runs3
<1>6. Kept(a, a2, {"tmp"})
  BY <1>1, <1>2, <1>3 DEF AllMarks, Kept
<1>7. a2["tmp"] = "r"
  BY <1>1, <1>2, <1>3 DEF AllMarks
<1> QED
  BY <1>5, <1>6, <1>7

\* What a velocity is the sum of: potentials of the run, and the noise.
LEMMA VelocityTermsRead ==
  ASSUME NEW i \in Dims, NEW n \in Int, NEW weigh, NEW by, NEW P \in BOOLEAN, NEW Q \in BOOLEAN,
         NEW x, NEW y, x.of = "wnoise", y.of = "wnoise"
  PROVE  Sources(LPTTerms(i, n, weigh, by) \o When(P, <<x>>) \o When(Q, <<y>>)) \subseteq Stored(n)
<1>1. PICK l, u, v : /\ l = LPTTerms(i, n, weigh, by) /\ u = When(P, <<x>>) /\ v = When(Q, <<y>>)
  OBVIOUS
<1>2. "wnoise" \in Stored(n)
  BY StoredNames
<1>3. IsList(l) /\ Sources(l) \subseteq Stored(n)
  BY <1>1, LPTTermsRead
<1>4. ASSUME NEW z, z.of = "wnoise", NEW R \in BOOLEAN
      PROVE  IsList(When(R, <<z>>)) /\ Sources(When(R, <<z>>)) \subseteq Stored(n)
  <2>1. PICK k : k = <<z>>
    OBVIOUS
  <2>2. IsList(k) /\ Sources(k) = {"wnoise"}
    BY <1>4, <2>1, OneStep, SourcesOne
  <2>3. R => Sources(k) \subseteq Stored(n)
    BY <1>2, <2>2
  <2> QED
    BY <2>1, <2>2, <2>3, WhenList
<1>5. IsList(u) /\ IsList(v) /\ Sources(u) \subseteq Stored(n) /\ Sources(v) \subseteq Stored(n)
  BY <1>1, <1>4
<1>6. PICK j : j = l \o u
  OBVIOUS
<1>7. IsList(j) /\ Sources(j) = Sources(l) \cup Sources(u)
  BY <1>3, <1>5, <1>6, Joined, SourcesJoin
<1>8. Sources(j \o v) = Sources(j) \cup Sources(v)
  BY <1>5, <1>7, SourcesJoin
<1> QED
  BY <1>1, <1>3, <1>5, <1>6, <1>7, <1>8

LEMMA VelocityRuns ==
  ASSUME cfg \in Configs, NEW i \in Dims, NEW n \in Int, n = cfg.LPTorder,
         NEW a \in AllMarks, a["tmp"] \in AnyTmp, Full(a, Stored(n))
  PROVE  \E b \in AllMarks : Runs(a, Velocity(i), b) /\ Kept(a, b, {"tmp"}) /\ b["tmp"] = "r"
<1> DEFINE FromNoise(c, name) ==
             Term("wnoise", c, Plus(BagOf(<<"vfac", name, X("d", i)>>), Per("k2")))
<1>1. /\ "tmp" \in Fields /\ Stored(n) \subseteq Fields /\ "tmp" \notin Stored(n)
  BY StoredNames
<1>2. PICK P \in BOOLEAN : P <=> (cfg.DoBaryons /\ cfg.DoBaryonVrel)
  BY ConfigFacts
<1>3. PICK Q \in BOOLEAN : Q <=> cfg.DoDensityVelocityCorr
  BY ConfigFacts
<1>4. PICK x, y : x = FromNoise(-1, ByName("theta_bc")) /\ y = FromNoise(1, "theta_delta_m")
  OBVIOUS
<1>5. x.of = "wnoise" /\ y.of = "wnoise"
  BY <1>4 DEF Term
<1>6. PICK terms : terms = LPTTerms(i, n, TimesOrder, One("vfac")) \o When(P, <<x>>) \o When(Q, <<y>>)
  OBVIOUS
<1>7. Sources(terms) \subseteq Stored(n)
  BY <1>5, <1>6, VelocityTermsRead
<1>8. PICK dc \in BOOLEAN : dc <=> (~P /\ ~Q)
  OBVIOUS
<1>9. PICK b \in AllMarks : /\ Steps(a, Declare("tmp", "k"), b)
                            /\ b["tmp"] \in {"k0", "k"} /\ Kept(a, b, {"tmp"})
  BY <1>1, DeclareAny DEF AnyTmp
<1>10. PICK no \in BOOLEAN : ~no
  OBVIOUS
<1>11. PICK sum : sum = Combine("tmp", "k", terms, no, dc)
  OBVIOUS
<1>12. PICK c : c = [b EXCEPT !["tmp"] = CombineMark(dc)]
  OBVIOUS
<1>13. Steps(b, sum, c)
  <2>1. \A z \in Sources(terms) : z \in Fields /\ b[z] = "k"
    BY <1>1, <1>7, <1>9 DEF Full, Kept
  <2> QED
    BY <1>1, <1>9, <1>10, <1>11, <1>12, <2>1, CombineSteps
<1>14. c \in AllMarks /\ Kept(b, c, {"tmp"}) /\ c["tmp"] \in {"k", "k8"}
  BY <1>1, <1>9, <1>12 DEF AllMarks, Marks, Kept, CombineMark
<1> DEFINE first == <<Declare("tmp", "k"), sum>>
           tides == <<Times("tmp", One(X("alpha2", i)))>>
           last == <<ZeroDC("tmp"), Backward("tmp"), Give("tmp", X("v", i))>>
<1>15. Runs(a, first, c)
  BY <1>9, <1>13, Runs2
<1>16. Runs(c, When(AddExternalTides, tides), c)
  <2>1. AddExternalTides \in BOOLEAN
    BY DEF AddExternalTides
  <2>2. PICK z : z = Times("tmp", One(X("alpha2", i)))
    OBVIOUS
  <2>3. Steps(c, z, c)
    BY <1>1, <1>14, <2>2, TimesSteps
  <2>4. Runs(c, tides, c)
    BY <1>14, <2>2, <2>3, RunsOne
  <2> HIDE DEF tides
  <2> QED
    BY <1>14, <2>1, <2>4, RunsWhen
<1>17. PICK d \in AllMarks : Runs(c, last, d) /\ Kept(c, d, {"tmp"}) /\ d["tmp"] = "r"
  BY <1>14, HandedOver
<1>18. Velocity(i) = first \o When(AddExternalTides, tides) \o last
  <2>1. sum = Combine("tmp", "k", terms, FALSE,
                      ~(cfg.DoBaryons /\ cfg.DoBaryonVrel) /\ ~cfg.DoDensityVelocityCorr)
    <3>1. no = FALSE
      BY <1>10
    <3>2. dc = (~(cfg.DoBaryons /\ cfg.DoBaryonVrel) /\ ~cfg.DoDensityVelocityCorr)
      BY <1>2, <1>3, <1>8
    <3> QED
      BY <1>11, <3>1, <3>2
  <2>2. terms = LPTTerms(i, cfg.LPTorder, TimesOrder, One("vfac"))
                  \o When(cfg.DoBaryons /\ cfg.DoBaryonVrel, <<x>>)
                  \o When(cfg.DoDensityVelocityCorr, <<y>>)
    BY <1>2, <1>3, <1>6 DEF When
  <2> QED
    BY <1>4, <2>1, <2>2 DEF Velocity
<1>19. Runs(a, Velocity(i), d)
  <2> HIDE DEF first, tides, last
  <2> QED
    BY <1>15, <1>16, <1>17, <1>18, RunsThree
<1>20. Kept(a, d, {"tmp"})
  BY <1>9, <1>14, <1>17 DEF Kept
<1> QED
  BY <1>17, <1>19, <1>20

LEMMA DisplacementsTake ==
  ASSUME cfg \in Configs
  PROVE  Takes(Moving(cfg.LPTorder), ForDims(Displacement), Moving(cfg.LPTorder))
<1>1. PICK n \in Int : n = cfg.LPTorder
  BY ConfigFacts
<1>2. ASSUME NEW i \in Dims PROVE Takes(Moving(n), Displacement(i), Moving(n))
  <2>1. ASSUME NEW a \in Moving(n) PROVE \E b \in Moving(n) : Runs(a, Displacement(i), b)
    <3>1. PICK b \in AllMarks : /\ Runs(a, Displacement(i), b) /\ Kept(a, b, {"tmp"})
                                /\ b["tmp"] = "r"
      BY <1>1, DisplacementRuns DEF Moving, AnyTmp
    <3>2. b \in Moving(n)
      BY <3>1, StaysMoving DEF AnyTmp
    <3> QED
      BY <3>1, <3>2
  <2> QED
    BY <2>1 DEF Takes
<1>3. 0 \in Dims /\ 1 \in Dims /\ 2 \in Dims
  BY DEF Dims
<1>4. /\ Takes(Moving(n), Displacement(0), Moving(n))
      /\ Takes(Moving(n), Displacement(1), Moving(n))
      /\ Takes(Moving(n), Displacement(2), Moving(n))
  BY <1>2, <1>3
<1> QED
  BY <1>1, <1>4, TakesThree DEF ForDims

LEMMA VelocitiesTake ==
  ASSUME cfg \in Configs
  PROVE  Takes(Moving(cfg.LPTorder), ForDims(Velocity), Moving(cfg.LPTorder))
<1>1. PICK n \in Int : n = cfg.LPTorder
  BY ConfigFacts
<1>2. ASSUME NEW i \in Dims PROVE Takes(Moving(n), Velocity(i), Moving(n))
  <2>1. ASSUME NEW a \in Moving(n) PROVE \E b \in Moving(n) : Runs(a, Velocity(i), b)
    <3>1. PICK b \in AllMarks : Runs(a, Velocity(i), b) /\ Kept(a, b, {"tmp"}) /\ b["tmp"] = "r"
      BY <1>1, VelocityRuns DEF Moving
    <3>2. b \in Moving(n)
      BY <3>1, StaysMoving DEF AnyTmp
    <3> QED
      BY <3>1, <3>2
  <2> QED
    BY <2>1 DEF Takes
<1>3. 0 \in Dims /\ 1 \in Dims /\ 2 \in Dims
  BY DEF Dims
<1>4. /\ Takes(Moving(n), Velocity(0), Moving(n))
      /\ Takes(Moving(n), Velocity(1), Moving(n))
      /\ Takes(Moving(n), Velocity(2), Moving(n))
  BY <1>2, <1>3
<1> QED
  BY <1>1, <1>4, TakesThree DEF ForDims

\* Only a species that is displaced needs all potentials in Fourier space.
Displaced(n) == IF LagrangianSpecies THEN Moving(n) ELSE Between(n)

LEMMA DisplaceTakes ==
  ASSUME cfg \in Configs
  PROVE  Takes(Between(cfg.LPTorder),
               When(LagrangianSpecies, PotentialsForward \o ForDims(Displacement)),
               Displaced(cfg.LPTorder))
<1>1. PICK n : n = cfg.LPTorder
  OBVIOUS
<1>2. Takes(Between(n), PotentialsForward \o ForDims(Displacement), Moving(n))
  BY <1>1, PotentialsForwardTakes, DisplacementsTake, TakesJoin
<1>3. Between(n) \in SUBSET AllMarks
  BY DEF Between
<1> QED
  BY <1>1, <1>2, <1>3, LagrangianIsBoolean, TakesWhen DEF Displaced

LEMMA VelocitiesBlockTakes ==
  ASSUME cfg \in Configs
  PROVE  Takes(Displaced(cfg.LPTorder), When(LagrangianSpecies, ForDims(Velocity)),
               Between(cfg.LPTorder))
<1>1. PICK n : n = cfg.LPTorder
  OBVIOUS
<1>2. Takes(Moving(n), ForDims(Velocity), Between(n))
  <2>1. Takes(Moving(n), ForDims(Velocity), Moving(n))
    BY <1>1, VelocitiesTake
  <2>2. Moving(n) \subseteq Between(n)
    BY CompleteIsMoving
  <2> QED
    BY <2>1, <2>2, TakesWider
<1>3. Displaced(n) \in SUBSET AllMarks
  BY DEF Between, Moving, Displaced
<1>4. LagrangianSpecies => Takes(Displaced(n), ForDims(Velocity), Between(n))
  BY <1>2 DEF Displaced
<1>5. ~LagrangianSpecies => Displaced(n) \subseteq Between(n)
  BY DEF Displaced
<1> QED
  BY <1>1, <1>3, <1>4, <1>5, LagrangianIsBoolean, TakesWhen

LEMMA DeliverTakes ==
  ASSUME cfg \in Configs
  PROVE  Takes(Between(cfg.LPTorder),
               When(LagrangianSpecies /\ write_species_as(this_species) = "field_lagrangian",
                 <<Forward("phi"), Declare("tmp", "k"),
                   Combine("tmp", "k", <<Term("phi", 1, One("laplacian"))>>, FALSE, TRUE),
                   Write_PowerSpectrum("tmp"), Backward("tmp"), Give("tmp", "density")>>),
               Between(cfg.LPTorder))
<1>1. PICK n \in Int : n = cfg.LPTorder
  BY ConfigFacts
<1> DEFINE l == <<Forward("phi"), Declare("tmp", "k"),
                  Combine("tmp", "k", <<Term("phi", 1, One("laplacian"))>>, FALSE, TRUE),
                  Write_PowerSpectrum("tmp"), Backward("tmp"), Give("tmp", "density")>>
<1>2. ASSUME NEW a \in Between(n) PROVE \E b \in Between(n) : Runs(a, l, b)
  <2>1. a \in AllMarks /\ a["phi"] \in {"r", "k"} /\ a["tmp"] \in {"r0", "k0", "r", "k"}
    BY StoredNames DEF Between, AnyTmp
  <2>2. PICK b \in AllMarks : /\ Runs(a, l, b) /\ Kept(a, b, {"phi", "tmp"})
                              /\ b["phi"] = "k" /\ b["tmp"] = "r"
    BY <2>1, DeliverRuns
  <2> HIDE DEF l
  <2>3. {"phi", "tmp"} \cap Stored(n) \subseteq {"phi"}
    BY StoredNames
  <2>4. b \in Between(n)
    BY <2>2, <2>3, StaysBetween DEF AnyTmp
  <2> QED
    BY <2>2, <2>4
<1> HIDE DEF l
<1>3. Takes(Between(n), l, Between(n))
  BY <1>2 DEF Takes
<1>4. Between(n) \in SUBSET AllMarks
  BY DEF Between
<1>5. PICK P \in BOOLEAN :
        P <=> LagrangianSpecies /\ write_species_as(this_species) = "field_lagrangian"
  OBVIOUS
<1>6. Takes(Between(n), When(P, l), Between(n))
  BY <1>3, <1>4, TakesWhen
<1> QED
  BY <1>1, <1>5, <1>6 DEF l, When

-----------------------------------------------------------------------------
(***************************************************************************)
(* The invariant.  The rest of the current block takes the grids to marks  *)
(* from which the next block may start; these are the marks that a block   *)
(* leaves behind and the next one relies on.                               *)
(***************************************************************************)
LEMMA TestTakes ==
  ASSUME cfg \in Configs, TestsThirdOrder
  PROVE  Takes(Complete(cfg.LPTorder),
               CASE cfg.test = "white_noise" -> test_white_noise
                 [] cfg.test = "potentials_and_densities" -> test_potentials_and_densities
                 [] cfg.test = "velocity_displacement_symmetries" ->
                      test_velocity_displacement_symmetries
                 [] cfg.test = "convergence" -> Unscaling \o ShellCrossing \o ConvergenceRadius
                 [] OTHER -> <<>>,
               Between(cfg.LPTorder))
<1>1. PICK n \in Int : n = cfg.LPTorder
  BY ConfigFacts
<1>2. Takes(Complete(n), test_white_noise, Between(n))
  <2>1. ASSUME NEW a \in Complete(n) PROVE \E b \in Between(n) : Runs(a, test_white_noise, b)
    <3>1. a \in AllMarks /\ a["wnoise"] = "k" /\ a \in Between(n)
      BY StoredNames, CompleteIsMoving DEF Complete, Full
    <3>2. PICK b \in AllMarks : Runs(a, test_white_noise, b) /\ Kept(a, b, {"copy"})
      BY <3>1, WhiteNoiseTestRuns
    <3>3. {"copy"} \cap Stored(n) = {}
      BY StoredNames DEF Locals
    <3>4. b \in Between(n)
      BY <3>1, <3>2, <3>3, StaysBetween
    <3> QED
      BY <3>2, <3>4
  <2> QED
    BY <2>1 DEF Takes
<1>3. ASSUME n > 2, NEW a \in Complete(n)
      PROVE  a \in AllMarks /\ Full(a, Stored(3)) /\ Stored(n) = Stored(3) /\ a["tmp"] \in AnyTmp
  BY <1>3 DEF Complete, Stored, AnyTmp
<1>4. ASSUME NEW l, n > 2,
             \A a \in AllMarks : Full(a, Stored(3)) =>
               \E b \in AllMarks : /\ Runs(a, l, b) /\ \A x \in Stored(3) : b[x] \in {"r", "k"}
                                   /\ b["tmp"] = a["tmp"]
      PROVE  Takes(Complete(n), l, Between(n))
  <2>1. ASSUME NEW a \in Complete(n) PROVE \E b \in Between(n) : Runs(a, l, b)
    <3>1. PICK b \in AllMarks : /\ Runs(a, l, b) /\ \A x \in Stored(3) : b[x] \in {"r", "k"}
                                /\ b["tmp"] = a["tmp"]
      BY <1>3, <1>4
    <3>2. b \in Between(n)
      BY <1>3, <1>4, <3>1 DEF Between
    <3> QED
      BY <3>1, <3>2
  <2> QED
    BY <2>1 DEF Takes
<1>5. n > 2 => Takes(Complete(n), test_potentials_and_densities, Between(n))
  BY <1>4, PotentialsTestRuns
<1>6. n > 2 => Takes(Complete(n), test_velocity_displacement_symmetries, Between(n))
  BY <1>4, SymmetriesRun DEF Full
<1>7. n > 2 => Takes(Complete(n), Unscaling \o ShellCrossing \o ConvergenceRadius, Between(n))
  BY <1>4, ConvergenceRuns DEF Full
<1>8. Takes(Complete(n), <<>>, Between(n))
  <2>1. Complete(n) \in SUBSET AllMarks /\ Complete(n) \subseteq Between(n)
    BY CompleteIsMoving DEF Complete
  <2> QED
    BY <2>1, TakesNothing
<1>9. cfg.test \in {"potentials_and_densities", "velocity_displacement_symmetries", "convergence"}
        => n > 2
  BY <1>1 DEF TestsThirdOrder
<1> QED
  BY <1>1, <1>2, <1>5, <1>6, <1>7, <1>8, <1>9

\* The marks after the current block.
Ready ==
  CASE at \in {"start", "thrown", "aborted"} -> AllMarks
    [] at \in {"noise", "export", "phi"} -> Drawn
    [] at = "phi2" -> Begun(1)
    [] at = "phi3" -> Begun(cfg.LPTorder)
    [] at \in {"scale", "test"} -> Complete(cfg.LPTorder)
    [] at = "move" -> Displaced(cfg.LPTorder)
    [] OTHER -> Between(cfg.LPTorder)

\* The instructions l take the grids g to marks of B.
Heading(g, l, B) == \E a \in AllMarks, b \in B : Shows(g, a) /\ Runs(a, l, b)

\* No grid has been read that was not there, and the rest of the block reads
\* none either.
IInv ==
  /\ cfg \in Configs
  /\ TestsThirdOrder => flaws = {} /\ Heading(grid, code, Ready)

LEMMA EntersBlock ==
  ASSUME NEW g, NEW A, Heading(g, <<>>, A), NEW l, NEW B, Takes(A, l, B)
  PROVE  Heading(g, l, B)
<1>1. PICK a \in AllMarks, b \in A : Shows(g, a) /\ Runs(a, <<>>, b)
  BY DEF Heading
<1>2. b = a
  BY <1>1, RunsNothing
<1>3. PICK c \in B : Runs(a, l, c)
  BY <1>2 DEF Takes
<1> QED
  BY <1>1, <1>3 DEF Heading

LEMMA GoesOn ==
  ASSUME NEW s, IsState(s), NEW l, l # <<>>, NEW B, Heading(s.grid, l, B)
  PROVE  Heading(Exec(s, Head(l)).grid, Tail(l), B) /\ Exec(s, Head(l)).flaws = s.flaws
<1>1. PICK a \in AllMarks, b \in B : Shows(s.grid, a) /\ Runs(a, l, b)
  BY DEF Heading
<1>2. PICK c : Steps(a, Head(l), c) /\ Runs(c, Tail(l), b)
  BY <1>1, RunsTail
<1>3. Shows(Exec(s, Head(l)).grid, c) /\ Exec(s, Head(l)).flaws = s.flaws /\ c \in AllMarks
  BY <1>1, <1>2 DEF Steps
<1> QED
  BY <1>2, <1>3 DEF Heading

LEMMA SameSpecies ==
  ASSUME cfg' = cfg, sp' = sp
  PROVE  Displaced(cfg.LPTorder)' = Displaced(cfg.LPTorder)
BY DEF Displaced, LagrangianSpecies, this_species, species_list, write_species_as

LEMMA MarkSets ==
  ASSUME cfg \in Configs
  PROVE  /\ Drawn \in SUBSET AllMarks /\ Begun(1) \in SUBSET AllMarks
         /\ Begun(cfg.LPTorder) \in SUBSET AllMarks /\ Complete(cfg.LPTorder) \in SUBSET AllMarks
         /\ Between(cfg.LPTorder) \in SUBSET AllMarks
BY DEF Drawn, Begun, Complete, Between

LEMMA InitIInv == Init => IInv
<1>1. ASSUME Init PROVE Heading(grid, code, Ready)
  <2> DEFINE a == [x \in Fields |-> "off"]
  <2>1. a \in AllMarks
    BY DEF AllMarks, Marks
  <2>2. Off = Marked("off", Garbage)
    BY DEF Off, Marked, StateMark, SpaceMark
  <2>3. Shows(grid, a)
    <3> DEFINE d == [x \in Fields |-> Garbage]
    <3>1. grid = [x \in Fields |-> Marked(a[x], d[x])]
      BY <1>1, <2>2 DEF Init
    <3> HIDE DEF a, d
    <3> QED
      BY <3>1 DEF Shows
  <2> HIDE DEF a
  <2>4. Runs(a, <<>>, a)
    BY <2>1, RunsNothing
  <2>5. code = <<>> /\ Ready = AllMarks
    BY <1>1 DEF Init, Ready
  <2> QED
    BY <2>1, <2>3, <2>4, <2>5 DEF Heading
<1> QED
  BY <1>1 DEF Init, IInv

LEMMA ExecuteKeeps ==
  ASSUME IInv, TestsThirdOrder, Execute
  PROVE  flaws' = {} /\ Heading(grid', code', Ready')
<1>1. PICK s : s = [grid |-> grid, flaws |-> flaws, out |-> out, sp |-> this_species]
  OBVIOUS
<1>2. IsState(s) /\ s.grid = grid /\ s.flaws = flaws
  BY <1>1 DEF IsState
<1>3. PICK l, B : l = code /\ B = Ready
  OBVIOUS
<1>4. /\ l # <<>> /\ code' = Tail(l)
      /\ grid' = Exec(s, Head(l)).grid /\ flaws' = Exec(s, Head(l)).flaws
      /\ cfg' = cfg /\ at' = at /\ sp' = sp
  BY <1>1, <1>3 DEF Execute
<1>5. flaws = {} /\ Heading(s.grid, l, B)
  BY <1>2, <1>3 DEF IInv
<1>6. Heading(grid', Tail(l), B) /\ flaws' = {}
  BY <1>2, <1>4, <1>5, GoesOn
<1>7. Ready' = B
  BY <1>3, <1>4, SameSpecies DEF Ready
<1> QED
  BY <1>4, <1>6, <1>7

\* A block is entered from marks of A, and ends in marks of B.
LEMMA BlockKeeps ==
  ASSUME IInv, TestsThirdOrder, NEW A, NEW l, NEW B, code = <<>>, Ready = A, code' = l,
         grid' = grid, flaws' = flaws, Takes(A, l, B), Ready' = B
  PROVE  flaws' = {} /\ Heading(grid', code', Ready')
<1>1. PICK g : g = grid
  OBVIOUS
<1>2. Heading(g, <<>>, A) /\ flaws = {}
  BY <1>1 DEF IInv
<1>3. Heading(g, l, B)
  BY <1>2, EntersBlock
<1> QED
  BY <1>1, <1>2, <1>3

LEMMA NextKeeps ==
  ASSUME IInv, TestsThirdOrder, Next
  PROVE  flaws' = {} /\ Heading(grid', code', Ready')
<1>1. cfg \in Configs
  BY DEF IInv
<1>2. PICK n \in Int : n = cfg.LPTorder
  BY <1>1, ConfigFacts
<1>3. CASE Execute
  BY <1>3, ExecuteKeeps
<1>4. CASE Fill_Grid
  <2>1. CASE cfg.odd /\ cfg.LPTorder > 1
    <3>1. Takes(AllMarks, <<>>, AllMarks)
      BY TakesNothing
    <3>2. code = <<>> /\ code' = <<>> /\ grid' = grid /\ flaws' = flaws
      BY <1>4, <2>1 DEF Fill_Grid, Block
    <3>3. Ready = AllMarks /\ Ready' = AllMarks
      BY <1>4, <2>1 DEF Fill_Grid, Throw, Ready
    <3> QED
      BY <3>1, <3>2, <3>3, BlockKeeps
  <2>2. CASE ~(cfg.odd /\ cfg.LPTorder > 1)
    <3>1. PICK l : l = DrawNoise
      OBVIOUS
    <3>2. code = <<>> /\ code' = l /\ grid' = grid /\ flaws' = flaws
      BY <1>4, <2>2, <3>1 DEF Fill_Grid, Block
    <3>3. Ready = AllMarks /\ Ready' = Drawn
      BY <1>4, <2>2 DEF Fill_Grid, Ready
    <3> QED
      BY <3>1, <3>2, <3>3, DrawNoiseTakes, BlockKeeps
  <2> QED
    BY <2>1, <2>2
<1>5. CASE NormaliseNoise
  <2>1. PICK l : l = When(cfg.constrained, ConstrainedNoise)
                       \o <<Combine("wnoise", "k", <<Term("wnoise", 1, Per("volfac"))>>, FALSE, TRUE)>>
    OBVIOUS
  <2>2. code = <<>> /\ code' = l /\ grid' = grid /\ flaws' = flaws
    BY <1>5, <2>1 DEF NormaliseNoise, Block
  <2>3. Ready = Drawn /\ Ready' = Drawn
    BY <1>5 DEF NormaliseNoise, Go, Ready
  <2>4. Takes(Drawn, l, Drawn)
    BY <1>1, <2>1, NormaliseTakes
  <2> QED
    BY <2>2, <2>3, <2>4, BlockKeeps
<1>6. CASE ExportNoise
  <2>1. CASE cfg.DoNeutrinoParticles /\ cfg.NeutrinoGridRes \in {"zero", "larger"}
    <3>1. Takes(Drawn, <<>>, AllMarks)
      BY <1>1, MarkSets, TakesNothing
    <3>2. code = <<>> /\ code' = <<>> /\ grid' = grid /\ flaws' = flaws
      BY <1>6, <2>1 DEF ExportNoise, Block
    <3>3. Ready = Drawn /\ Ready' = AllMarks
      BY <1>6, <2>1 DEF ExportNoise, Throw, Ready
    <3> QED
      BY <3>1, <3>2, <3>3, BlockKeeps
  <2>2. CASE ~(cfg.DoNeutrinoParticles /\ cfg.NeutrinoGridRes \in {"zero", "larger"})
    <3>1. PICK l : l = When(cfg.DoNeutrinoParticles,
                            CASE cfg.NeutrinoGridRes = "same" -> NoiseAsItIs
                              [] cfg.NeutrinoGridRes = "smaller" -> SmallerNoise)
      OBVIOUS
    <3>2. code = <<>> /\ code' = l /\ grid' = grid /\ flaws' = flaws
      BY <1>6, <2>2, <3>1 DEF ExportNoise, Block
    <3>3. Ready = Drawn /\ Ready' = Drawn
      BY <1>6, <2>2 DEF ExportNoise, Ready
    <3>4. Takes(Drawn, l, Drawn)
      BY <1>1, <2>2, <3>1, ExportTakes
    <3> QED
      BY <3>2, <3>3, <3>4, BlockKeeps
  <2> QED
    BY <2>1, <2>2
<1>7. CASE Phi1
  <2>1. PICK l : l = FirstOrder
    OBVIOUS
  <2>2. code = <<>> /\ code' = l /\ grid' = grid /\ flaws' = flaws
    BY <1>7, <2>1 DEF Phi1, Block
  <2>3. Ready = Drawn /\ Ready' = Begun(1)
    BY <1>7 DEF Phi1, Go, Ready
  <2> QED
    BY <2>1, <2>2, <2>3, FirstOrderTakes, BlockKeeps
<1>8. CASE Phi2
  <2>1. PICK l : l = When(cfg.LPTorder > 1, SecondOrder)
    OBVIOUS
  <2>2. code = <<>> /\ code' = l /\ grid' = grid /\ flaws' = flaws /\ cfg' = cfg
    BY <1>8, <2>1 DEF Phi2, Block
  <2>3. Ready = Begun(1) /\ Ready' = Begun(n)
    BY <1>2, <1>8, <2>2 DEF Phi2, Go, Ready
  <2>4. Takes(Begun(1), l, Begun(n))
    BY <1>1, <1>2, <2>1, SecondOrderTakes
  <2> QED
    BY <2>2, <2>3, <2>4, BlockKeeps
<1>9. CASE Phi3
  <2>1. PICK l : l = When(cfg.LPTorder > 2, ThirdOrder)
    OBVIOUS
  <2>2. code = <<>> /\ code' = l /\ grid' = grid /\ flaws' = flaws /\ cfg' = cfg
    BY <1>9, <2>1 DEF Phi3, Block
  <2>3. Ready = Begun(n) /\ Ready' = Complete(n)
    BY <1>2, <1>9, <2>2 DEF Phi3, Go, Ready
  <2>4. Takes(Begun(n), l, Complete(n))
    BY <1>1, <1>2, <2>1, ThirdOrderTakes
  <2> QED
    BY <2>2, <2>3, <2>4, BlockKeeps
<1>10. CASE ScalePotentials
  <2>1. PICK l : l = Scaling
    OBVIOUS
  <2>2. code = <<>> /\ code' = l /\ grid' = grid /\ flaws' = flaws /\ cfg' = cfg
    BY <1>10, <2>1 DEF ScalePotentials, Block
  <2>3. Ready = Complete(n) /\ Ready' = Complete(n)
    BY <1>2, <1>10, <2>2 DEF ScalePotentials, Go, Ready
  <2>4. Takes(Complete(n), l, Complete(n))
    BY <1>1, <1>2, <2>1, ScalingTakes
  <2> QED
    BY <2>2, <2>3, <2>4, BlockKeeps
<1>11. CASE RunTest
  <2>1. PICK l : l = CASE cfg.test = "white_noise" -> test_white_noise
                       [] cfg.test = "potentials_and_densities" -> test_potentials_and_densities
                       [] cfg.test = "velocity_displacement_symmetries" ->
                            test_velocity_displacement_symmetries
                       [] cfg.test = "convergence" -> Unscaling \o ShellCrossing \o ConvergenceRadius
                       [] OTHER -> <<>>
    OBVIOUS
  <2>2. code = <<>> /\ code' = l /\ grid' = grid /\ flaws' = flaws /\ cfg' = cfg
    BY <1>11, <2>1 DEF RunTest, Block
  <2>3. PICK B : B = IF cfg.test = "unknown" THEN AllMarks ELSE Between(n)
    OBVIOUS
  <2>4. Ready = Complete(n) /\ Ready' = B
    BY <1>2, <1>11, <2>2, <2>3 DEF RunTest, Ready
  <2>5. Takes(Complete(n), l, B)
    <3>1. Takes(Complete(n), l, Between(n))
      BY <1>1, <1>2, <2>1, TestTakes
    <3>2. Between(n) \subseteq B /\ Complete(n) \subseteq Complete(n)
      BY <1>1, <1>2, <2>3, MarkSets
    <3> QED
      BY <3>1, <3>2, TakesWider
  <2> QED
    BY <2>2, <2>4, <2>5, BlockKeeps
<1>12. CASE NextSpecies
  <2>1. code = <<>> /\ code' = <<>> /\ grid' = grid /\ flaws' = flaws /\ cfg' = cfg
    BY <1>12 DEF NextSpecies, Block
  <2>2. Ready = Between(n) /\ Ready' = Between(n)
    BY <1>2, <1>12, <2>1 DEF NextSpecies, Ready
  <2>3. Takes(Between(n), <<>>, Between(n))
    BY <1>1, <1>2, MarkSets, TakesNothing
  <2> QED
    BY <2>1, <2>2, <2>3, BlockKeeps
<1>13. CASE Masses
  <2>1. PICK l : l = When(cfg.DoBaryons /\ LagrangianSpecies,
                          SpeciesDensity(ByName("mass")) \o <<Give("rho", "mass"), Drop({"rho"})>>)
    OBVIOUS
  <2>2. code = <<>> /\ code' = l /\ grid' = grid /\ flaws' = flaws /\ cfg' = cfg
    BY <1>13, <2>1 DEF Masses, Block
  <2>3. Ready = Between(n) /\ Ready' = Between(n)
    BY <1>2, <1>13, <2>2 DEF Masses, Go, Ready
  <2>4. Takes(Between(n), l, Between(n))
    BY <1>1, <2>1, MassesTakes
  <2> QED
    BY <2>2, <2>3, <2>4, BlockKeeps
<1>14. CASE Eulerian
  <2>1. PICK l : l = When(write_species_as(this_species) = "field_eulerian", EulerianBlock)
    OBVIOUS
  <2>2. code = <<>> /\ code' = l /\ grid' = grid /\ flaws' = flaws /\ cfg' = cfg
    BY <1>14, <2>1 DEF Eulerian, Block
  <2>3. Ready = Between(n) /\ Ready' = Between(n)
    BY <1>2, <1>14, <2>2 DEF Eulerian, Go, Ready
  <2>4. Takes(Between(n), l, Between(n))
    BY <1>1, <1>2, <2>1, EulerianTakes
  <2> QED
    BY <2>2, <2>3, <2>4, BlockKeeps
<1>15. CASE Displace
  <2>1. PICK l : l = When(LagrangianSpecies, PotentialsForward \o ForDims(Displacement))
    OBVIOUS
  <2>2. /\ code = <<>> /\ code' = l /\ grid' = grid /\ flaws' = flaws /\ cfg' = cfg /\ sp' = sp
        /\ at = "displace" /\ at' = "move"
    BY <1>15, <2>1 DEF Displace, Block, Go
  <2>3. PICK B : B = Displaced(cfg.LPTorder)
    OBVIOUS
  <2>4. Ready = Between(n) /\ Ready' = B
    BY <1>2, <2>2, <2>3, SameSpecies DEF Ready
  <2>5. Takes(Between(n), l, B)
    BY <1>1, <1>2, <2>1, <2>3, DisplaceTakes
  <2> QED
    BY <2>2, <2>4, <2>5, BlockKeeps
<1>16. CASE Velocities
  <2>1. PICK l : l = When(LagrangianSpecies, ForDims(Velocity))
    OBVIOUS
  <2>2. /\ code = <<>> /\ code' = l /\ grid' = grid /\ flaws' = flaws /\ cfg' = cfg
        /\ at = "move" /\ at' = "deliver"
    BY <1>16, <2>1 DEF Velocities, Block, Go
  <2>3. PICK A : A = Displaced(cfg.LPTorder)
    OBVIOUS
  <2>4. Ready = A /\ Ready' = Between(n)
    BY <1>2, <2>2, <2>3 DEF Ready
  <2>5. Takes(A, l, Between(n))
    BY <1>1, <1>2, <2>1, <2>3, VelocitiesBlockTakes
  <2> QED
    BY <2>2, <2>4, <2>5, BlockKeeps
<1>17. CASE Deliver
  <2>1. PICK l : l = When(LagrangianSpecies /\ write_species_as(this_species) = "field_lagrangian",
                 <<Forward("phi"), Declare("tmp", "k"),
                   Combine("tmp", "k", <<Term("phi", 1, One("laplacian"))>>, FALSE, TRUE),
                   Write_PowerSpectrum("tmp"), Backward("tmp"), Give("tmp", "density")>>)
    OBVIOUS
  <2>2. code = <<>> /\ code' = l /\ grid' = grid /\ flaws' = flaws /\ cfg' = cfg
    BY <1>17, <2>1 DEF Deliver, Block
  <2>3. Ready = Between(n) /\ Ready' = Between(n)
    BY <1>2, <1>17, <2>2 DEF Deliver, Go, Ready
  <2>4. Takes(Between(n), l, Between(n))
    BY <1>1, <1>2, <2>1, DeliverTakes
  <2> QED
    BY <2>2, <2>3, <2>4, BlockKeeps
<1>18. CASE Neutrinos
  <2>1. /\ code = <<>> /\ code' = <<>> /\ grid' = grid /\ flaws' = flaws /\ cfg' = cfg
        /\ at = "neutrinos" /\ at' \in {"thrown", "species"}
    BY <1>18 DEF Neutrinos, Throw
  <2>2. PICK B : B = IF at' = "thrown" THEN AllMarks ELSE Between(n)
    OBVIOUS
  <2>3. Ready = Between(n) /\ Ready' = B
    BY <1>2, <2>1, <2>2 DEF Ready
  <2>4. Takes(Between(n), <<>>, B)
    BY <1>1, <1>2, <2>2, MarkSets, TakesNothing
  <2> QED
    BY <2>1, <2>3, <2>4, BlockKeeps
<1> QED
  BY <1>3, <1>4, <1>5, <1>6, <1>7, <1>8, <1>9, <1>10, <1>11, <1>12, <1>13, <1>14, <1>15, <1>16,
     <1>17, <1>18 DEF Next

LEMMA ConfigStays == [Next]_vars => cfg' = cfg
<1>1. Next => cfg' = cfg
  BY DEF Next, Execute, Block, Fill_Grid, NormaliseNoise, ExportNoise, Phi1, Phi2, Phi3,
         ScalePotentials, RunTest, NextSpecies, Masses, Eulerian, Displace, Velocities, Deliver,
         Neutrinos
<1> QED
  BY <1>1 DEF vars

LEMMA IInvStep == IInv /\ [Next]_vars => IInv'
<1> SUFFICES ASSUME IInv, [Next]_vars PROVE IInv'
  OBVIOUS
<1>1. cfg' = cfg
  BY ConfigStays
<1>2. cfg' \in Configs /\ (TestsThirdOrder' <=> TestsThirdOrder)
  BY <1>1 DEF IInv, TestsThirdOrder
<1>3. ASSUME TestsThirdOrder PROVE flaws' = {} /\ Heading(grid', code', Ready')
  <2>1. CASE Next
    BY <1>3, <2>1, NextKeeps
  <2>2. CASE UNCHANGED vars
    <3>1. flaws' = flaws /\ grid' = grid /\ code' = code /\ at' = at /\ sp' = sp
      BY <2>2 DEF vars
    <3>2. Ready' = Ready
      BY <1>1, <3>1, SameSpecies DEF Ready
    <3> QED
      BY <1>3, <3>1, <3>2 DEF IInv
  <2> QED
    BY <2>1, <2>2
<1> QED
  BY <1>2, <1>3 DEF IInv

\* The inductive invariant holds in every run.
LEMMA IInvAlways == Spec => []IInv
BY InitIInv, IInvStep, PTL DEF Spec

\* In every run of any order, with any species, output format, correction and
\* diagnostic (those that read every potential in a run of third order),
\* no block of ic_generator::run reads a grid that is not allocated, is in
\* the other space or was never filled.
THEOREM FieldsAreReadAsTheyAre == Spec => [](TestsThirdOrder => ReadsAreDefined)
<1>1. IInv => (TestsThirdOrder => ReadsAreDefined)
  BY DEF IInv, ReadsAreDefined
<1> QED
  BY <1>1, IInvAlways, PTL

\* In the same runs no field reaches a transform, a convolution or the output
\* plugin with the infinite value that the division by k^2 leaves at k = 0.
THEOREM NoInfiniteMean == Spec => [](TestsThirdOrder => MeansAreFinite)
<1>1. IInv => (TestsThirdOrder => MeansAreFinite)
  BY DEF IInv, MeansAreFinite
<1> QED
  BY <1>1, IInvAlways, PTL
=============================================================================
