----------------------------- MODULE GridExchange -----------------------------
(***************************************************************************)
(* Distributed grids (src/src/grid_fft.cc, src/include/grid_ghosts.hh,     *)
(* src/include/convolution.hh): how the ranks exchange planes when a field *)
(* is copied between grids of different size in Fourier space, when a grid *)
(* gets its ghost zones, and how the Orszag convolver is built from such   *)
(* copies.                                                                 *)
(*                                                                         *)
(* Every plane that must move is sent with a non-blocking send and         *)
(* received with a blocking receive.  Sender and receiver compute partner  *)
(* and tag on their own, from offsets gathered beforehand; nothing else    *)
(* pairs them.                                                             *)
(*                                                                         *)
(* A field in Fourier space is known by the wave numbers each of its cells *)
(* holds a contribution of (in the distributed dimension and the next one; *)
(* the third is cut like the second), so that an aliased mode is visible.  *)
(***************************************************************************)
EXTENDS Integers, FiniteSets

CONSTANTS
  NumRanks,    \* size of MPI_COMM_WORLD
  NumThreads,  \* OpenMP threads that may receive at a time (1 unless MPI_threads_ok)
  Jobs,        \* what the ranks do together
  SizeRange    \* a size_t counts modulo this number

ASSUME NumRanksAssumption == NumRanks \in Nat \ {0}
ASSUME NumThreadsAssumption == NumThreads \in Nat \ {0}

Rank == 0 .. NumRanks - 1

\* "copy": a grid of n^3 to one of m^3.  "pair", "triple": an Orszag
\* convolution of two or three fields on n^3.  "ghosts": ghost zones m deep
\* of a grid of n^3.
Job == [op : {"copy", "pair", "triple", "ghosts"}, n : Nat \ {0}, m : Nat \ {0}]

\* Grids that are copied are even; ghost zones are not deeper than the box.
\* No caller copies a grid to one more than twice as fine: the convolver pads
\* to 3/2, and PANPHASIA's grid is more than half as fine as the field.
ASSUME JobsAssumption ==
  /\ Jobs \subseteq Job
  /\ \A j \in Jobs :
       /\ IF j.op = "ghosts" THEN j.m <= j.n ELSE j.n % 2 = 0
       /\ j.op = "copy" => j.m \div 2 <= j.n

\* The grids are far from the largest size_t.
ASSUME SizeRangeAssumption ==
  SizeRange \in Nat /\ \A j \in Jobs : 2 * j.n < SizeRange /\ j.m < SizeRange

VARIABLES
  job,     \* what this run does
  step,    \* number of the step of its script the ranks are in
  pc,      \* where each rank is in that step
  net,     \* messages sent and not received
  todo,    \* planes each rank still has to receive, in loop order
  field,   \* the fields in Fourier space
  ghost    \* boundary_left_ and boundary_right_ of each rank

vars == <<job, step, pc, net, todo, field, ghost>>

-----------------------------------------------------------------------------
(***************************************************************************)
(* Slabs.                                                                  *)
(***************************************************************************)
CeilDiv(a, b) == (a + b - 1) \div b
Least(S) == CHOOSE x \in S : \A y \in S : x <= y
Greatest(S) == CHOOSE x \in S : \A y \in S : x >= y

\* FFTW: blocks of equal size, the last ones shorter or empty; a rank without
\* planes is told that it starts at 0.
Block(n) == CeilDiv(n, NumRanks)
local_size(n, r) ==
  IF (r + 1) * Block(n) <= n THEN Block(n)
  ELSE IF r * Block(n) <= n THEN n - r * Block(n) ELSE 0
local_start(n, r) == IF local_size(n, r) = 0 THEN 0 ELSE r * Block(n)

\* The gathered starts (and a zero behind the last), each raised to the
\* furthest end of the slabs before it.
offsets(n) == [i \in 0 .. NumRanks |->
  Greatest({IF i = NumRanks THEN 0 ELSE local_start(n, i)}
           \cup {local_start(n, k) + local_size(n, k) : k \in 0 .. i - 1})]

\* Mutant: a plane at the start of a slab is looked up one rank too early.
get_task_Late(index, offs) ==
  Least({t \in Rank : t = NumRanks - 1 \/ offs[t + 1] >= index})

get_task(index, offs) ==
  Least({t \in Rank : t = NumRanks - 1 \/ offs[t + 1] > index})

Slab(n, r) == {offsets(n)[r] + i : i \in 0 .. local_size(n, r) - 1}

-----------------------------------------------------------------------------
(***************************************************************************)
(* A step that copies planes of a grid of `from' cells to one of `to'.     *)
(***************************************************************************)
Smaller(a, b) == IF a < b THEN a ELSE b
Larger(a, b) == IF a > b THEN a ELSE b

\* Mutant: one plane too few on the left, for sender and receiver alike.
fny_left_Short(from, to) == Smaller(from \div 2, to \div 2) - 1

\* A size_t: a number below zero becomes a very large one.
SizeT(x) == x % SizeRange

fny_left(from, to) == Smaller(from \div 2, to \div 2)
fny_right(from, to) == Larger(SizeT(from - to \div 2), from \div 2)
fny_right_recv(from, to) == SizeT(fny_right(from, to) + to - from)

\* Indices of the source grid that exist in both, ...
IsSent(p, from, to) == p < fny_left(from, to) \/ p > fny_right(from, to)

\* ... their index in the destination grid (get_task takes it, and the index
\* below, as a signed number), ...
RecvIndex(p, from, to) == IF p < fny_left(from, to) THEN p ELSE p + to - from

\* Mutant: the receiver skips the first plane behind the Nyquist plane.
IsReceived_Skip(q, from, to) ==
  q < fny_left(from, to) \/ q > fny_right_recv(from, to) + 1

\* ... and the same seen from the destination.
IsReceived(q, from, to) ==
  q < fny_left(from, to) \/ q > fny_right_recv(from, to)
SendIndex(q, from, to) == IF q < fny_left(from, to) THEN q ELSE q + from - to

CopySends(r, from, to) ==
  {[src |-> r, dst |-> get_task(RecvIndex(p, from, to), offsets(to)),
    tag |-> RecvIndex(p, from, to), plane |-> p] :
     p \in {q \in Slab(from, r) : IsSent(q, from, to)}}

CopyReceives(r, from, to) ==
  {[src |-> get_task(SendIndex(q, from, to), offsets(from)), dst |-> r,
    tag |-> q, turn |-> q] :
     q \in {p \in Slab(to, r) : IsReceived(p, from, to)}}

\* What the receiver makes of a plane: the modes of the second dimension
\* that exist in both grids, moved to their place.
CopyRow(row, from, to) == [q \in 0 .. to - 1 |->
  IF IsReceived(q, from, to) THEN row[SendIndex(q, from, to)] ELSE {}]

-----------------------------------------------------------------------------
(***************************************************************************)
(* A step that fills the right or the left ghost planes.                   *)
(***************************************************************************)
\* The i-th ghost plane of rank t, as its owner sees it.  Mutant: the left
\* ghost planes are counted from the start of the slab backwards by one less.
GhostPlane_OffByOne(side, i, first, size, n, deep) ==
  IF side = "right" THEN (first + size + i) % n
                    ELSE (first + n - deep + 1 + i) % n

GhostPlane(side, i, first, size, n, deep) ==
  IF side = "right" THEN (first + size + i) % n
                    ELSE (first + n - deep + i) % n

GhostSends(r, side, n, deep) ==
  {m \in {[src |-> r, dst |-> t, plane |-> p, tag |-> p] :
            t \in Rank,
            p \in Slab(n, r)} :
     \E i \in 0 .. deep - 1 :
       m.plane = GhostPlane(side, i, offsets(n)[m.dst], local_size(n, m.dst), n, deep)}

GhostReceives(r, side, n, deep) ==
  LET wanted(i) == GhostPlane(side, i, local_start(n, r), local_size(n, r), n, deep)
  IN {[src |-> get_task(wanted(i), offsets(n)), dst |-> r, 
          tag |-> wanted(i), turn |-> i] :
        i \in 0 .. deep - 1}

-----------------------------------------------------------------------------
(***************************************************************************)
(* Scripts: the exchanges and the products a job consists of.              *)
(***************************************************************************)
Copy(a, na, b, nb) == [kind |-> "copy", a |-> a, na |-> na, b |-> b, nb |-> nb]
Product == [kind |-> "product"]
Ghosts(side) == [kind |-> "ghosts", side |-> side]

\* Mutant: no padding, as in NaiveConvolver.
Padded_None(n) == n

Padded(n) == (3 * n) \div 2

\* pad_insert of two inputs, the product in real space, and unpad.
convolve2(n, a, b, out) ==
  [i \in 1 .. 4 |-> CASE i = 1 -> Copy(a, n, "f1p", Padded(n))
                      [] i = 2 -> Copy(b, n, "f2p", Padded(n))
                      [] i = 3 -> Product
                      [] i = 4 -> Copy("f2p", Padded(n), out, n)]

convolve3(n) ==
  [i \in 1 .. 8 |-> IF i <= 4 THEN convolve2(n, "k1", "k2", "fbuf")[i]
                              ELSE convolve2(n, "fbuf", "k3", "out")[i - 4]]

Script(j) ==
  CASE j.op = "copy"   -> [i \in 1 .. 1 |-> Copy("k1", j.n, "out", j.m)]
    [] j.op = "pair"   -> convolve2(j.n, "k1", "k2", "out")
    [] j.op = "triple" -> convolve3(j.n)
    [] j.op = "ghosts" -> [i \in 1 .. 2 |-> Ghosts(IF i = 1 THEN "right" ELSE "left")]

Length(j) == CASE j.op = "copy" -> 1 [] j.op = "pair" -> 4
               [] j.op = "triple" -> 8 [] j.op = "ghosts" -> 2

Now == Script(job)[step]

Sends(r) ==
  IF Now.kind = "copy" THEN CopySends(r, Now.na, Now.nb)
                       ELSE GhostSends(r, Now.side, job.n, job.m)
Receives(r) ==
  IF Now.kind = "copy" THEN CopyReceives(r, Now.na, Now.nb)
                       ELSE GhostReceives(r, Now.side, job.n, job.m)

-----------------------------------------------------------------------------
(***************************************************************************)
(* Fields.                                                                 *)
(***************************************************************************)
\* get_k: the wave number of an index.
Wave(p, n) == IF p > n \div 2 THEN p - n ELSE p

Zero(n) == [p \in 0 .. n - 1 |-> [q \in 0 .. n - 1 |-> {}]]
Kernel(n) == [p \in 0 .. n - 1 |-> [q \in 0 .. n - 1 |-> {<<Wave(p, n), Wave(q, n)>>}]]

\* Multiplying two fields in real space: indices add up modulo n.
Times(f, g, n) ==
  LET held == {c \in (0 .. n - 1) \X (0 .. n - 1) : f[c[1]][c[2]] # {}}
  IN [p \in 0 .. n - 1 |-> [q \in 0 .. n - 1 |->
       UNION {{<<x[1] + y[1], x[2] + y[2]>> :
                 x \in f[c[1]][c[2]],
                 y \in g[(p - c[1] + n) % n][(q - c[2] + n) % n]} : c \in held}]]

Inputs == {"k1", "k2", "k3"}
Unset == <<>>
NoPlane == -1
Sides == {"left", "right"}

-----------------------------------------------------------------------------
(***************************************************************************)
(* The state machine: a collective call is one action of all ranks.        *)
(***************************************************************************)
Init ==
  /\ job \in Jobs
  /\ step = 1
  /\ pc = [r \in Rank |-> "enter"]
  /\ net = {}
  /\ todo = [r \in Rank |-> {}]
  /\ field = [f \in Inputs \cup {"f1p", "f2p", "fbuf", "out"} |->
                IF f \in Inputs THEN Kernel(job.n) ELSE Unset]
  /\ ghost = [r \in Rank |-> [s \in Sides |-> [i \in 0 .. job.m - 1 |-> NoPlane]]]

AllAt(where) == \A r \in Rank : pc[r] = where

\* Mutant: the ranks go on after the last step.
NextStep_Past ==
  /\ step' = step + 1
  /\ pc' = [r \in Rank |-> IF step < Length(job) THEN "enter" ELSE "done"]

NextStep ==
  /\ step' = IF step < Length(job) THEN step + 1 ELSE step
  /\ pc' = [r \in Rank |-> IF step < Length(job) THEN "enter" ELSE "done"]

\* The ranks meet in FourierTransformForward of both grids and in the
\* MPI_Allgather calls; the destination is zeroed.
EnterCopy ==
  /\ AllAt("enter") /\ Now.kind = "copy" /\ Now.na # Now.nb
  /\ field' = [field EXCEPT ![Now.b] = Zero(Now.nb)]
  /\ pc' = [r \in Rank |-> "send"]
  /\ UNCHANGED <<job, step, net, todo, ghost>>

\* Grids of equal size are copied without messages.
CopyFrom ==
  /\ AllAt("enter") /\ Now.kind = "copy" /\ Now.na = Now.nb
  /\ field' = [field EXCEPT ![Now.b] = field[Now.a]]
  /\ NextStep
  /\ UNCHANGED <<job, net, todo, ghost>>

EnterGhosts ==
  /\ AllAt("enter") /\ Now.kind = "ghosts"
  /\ pc' = [r \in Rank |-> "send"]
  /\ UNCHANGED <<job, step, net, todo, field, ghost>>

\* Both fields go to real space, are multiplied, and the product comes back:
\* four collective transforms.
Multiply ==
  /\ AllAt("enter") /\ Now.kind = "product"
  /\ field' = [field EXCEPT !["f2p"] = Times(field["f1p"], field["f2p"], Padded(job.n))]
  /\ NextStep
  /\ UNCHANGED <<job, net, todo, ghost>>

\* All the MPI_Isend calls of the rank.
Isend(r) ==
  /\ pc[r] = "send"
  /\ net' = net \cup Sends(r)
  /\ todo' = [todo EXCEPT ![r] = Receives(r)]
  /\ pc' = [pc EXCEPT ![r] = "receive"]
  /\ UNCHANGED <<job, step, field, ghost>>

\* Mutant: the planes are sent with blocking sends.
InProgress_AfterSends(r) ==
  IF \E m \in net : m.src = r THEN {}
  ELSE {m \in todo[r] : Cardinality({k \in todo[r] : k.turn < m.turn}) < NumThreads}

\* The threads work on the first planes not yet received; each waits for its
\* own.
InProgress(r) ==
  {m \in todo[r] : Cardinality({k \in todo[r] : k.turn < m.turn}) < NumThreads}

Recv(r) ==
  /\ pc[r] = "receive"
  /\ \E w \in InProgress(r), m \in net :
       /\ m.src = w.src /\ m.dst = r /\ m.tag = w.tag
       /\ net' = net \ {m}
       /\ todo' = [todo EXCEPT ![r] = @ \ {w}]
       /\ IF Now.kind = "copy"
          THEN /\ field' = [field EXCEPT ![Now.b][w.tag] =
                              CopyRow(field[Now.a][m.plane], Now.na, Now.nb)]
               /\ UNCHANGED ghost
          ELSE /\ ghost' = [ghost EXCEPT ![r][Now.side][w.turn] = m.plane]
               /\ UNCHANGED field
  /\ UNCHANGED <<job, step, pc>>

\* The first MPI_Barrier: every rank has all its planes.  The requests of
\* the right ghost planes are waited for with those of the left ones.
Flush ==
  /\ \A r \in Rank : pc[r] = "receive" /\ todo[r] = {}
  /\ IF Now = Ghosts("right") THEN NextStep
     ELSE /\ pc' = [r \in Rank |-> "wait"]
          /\ UNCHANGED step
  /\ UNCHANGED <<job, net, todo, field, ghost>>

\* MPI_Wait for every request: a large message is sent when it is received.
WaitAll(r) ==
  /\ pc[r] = "wait"
  /\ \A m \in net : m.src # r
  /\ pc' = [pc EXCEPT ![r] = "leave"]
  /\ UNCHANGED <<job, step, net, todo, field, ghost>>

\* The last MPI_Barrier.
Leave ==
  /\ AllAt("leave")
  /\ NextStep
  /\ UNCHANGED <<job, net, todo, field, ghost>>

RankStep(r) == Isend(r) \/ Recv(r) \/ WaitAll(r)
Together == EnterCopy \/ CopyFrom \/ EnterGhosts \/ Multiply \/ Flush \/ Leave

Next == Together \/ (\E r \in Rank : RankStep(r))

Spec == Init /\ [][Next]_vars

\* A rank that can go on does; so do the ranks that have met.
FairSpec == Spec /\ WF_vars(Together) /\ \A r \in Rank : WF_vars(RankStep(r))

-----------------------------------------------------------------------------
(***************************************************************************)
(* Properties.                                                             *)
(***************************************************************************)
\* The program counters, messages and ghost planes have their type.
TypeOK ==
  /\ job \in Jobs
  /\ step \in 1 .. Length(job)
  /\ pc \in [Rank -> {"enter", "send", "receive", "wait", "leave", "done"}]
  /\ \A m \in net : m.src \in Rank /\ m.dst \in Rank
  /\ \A r \in Rank : \A w \in todo[r] : w.src \in Rank /\ w.dst = r

\* No message of an exchange is left when a rank has passed its barrier, so
\* none can be taken for one of the next exchange, which uses the same tags
\* (FourierInterpolateCopyTo, update_ghosts_allow_multiple).
NothingLeftBehind ==
  (\E r \in Rank : pc[r] \notin {"send", "receive"}) => net = {}

\* A rank only waits for planes that some rank has sent or will send to it
\* with that tag: what the receiver computes agrees with what the sender
\* computes, for all sizes the program copies between and however many ranks
\* have no planes.
EveryReceiveHasItsSend ==
  \A r \in Rank : \A w \in todo[r] :
    \/ \E m \in net : m.src = w.src /\ m.dst = r /\ m.tag = w.tag
    \/ pc[w.src] = "send" /\ \E m \in Sends(w.src) : m.dst = r /\ m.tag = w.tag

Operands == CASE job.op = "copy" -> 1 [] job.op = "pair" -> 2 [] job.op = "triple" -> 3
              [] job.op = "ghosts" -> 0

\* Wave numbers that every grid of the job holds on both sides of zero.
Resolved(n) == {w \in -n .. n : 2 * w < n /\ -2 * w < n}
Sums(A, B) == {a + b : a \in A, b \in B}
\* The wave numbers an exact product of so many factors has, cut to those
\* the result resolves after every factor.
Exact(n, k) ==
  CASE k = 1 -> Resolved(n)
    [] k = 2 -> Sums(Resolved(n), Resolved(n)) \cap Resolved(n)
    [] k = 3 -> Sums(Sums(Resolved(n), Resolved(n)) \cap Resolved(n), Resolved(n)) \cap Resolved(n)

\* A cell of the result holds its own wave number and nothing else: the
\* padding removes all aliases, and a copy to a smaller, equal or up to twice
\* as fine a grid moves no mode to another's place (Orszag's 3/2 rule in
\* OrszagConvolver).
NoAlias ==
  AllAt("done") /\ job.op # "ghosts" =>
    LET n == IF job.op = "copy" THEN job.m ELSE job.n IN
    \A p, q \in 0 .. n - 1 :
      field["out"][p][q] \subseteq {<<Wave(p, n), Wave(q, n)>>}

\* Nor is a mode lost that both grids resolve, if the destination is even (of
\* an odd grid the code takes the highest mode for a Nyquist mode and drops it).
NoModeLost ==
  AllAt("done") /\ job.op # "ghosts" /\ job.m % 2 = 0 =>
    LET n == IF job.op = "copy" THEN job.m ELSE job.n
        known == Exact(IF job.op = "copy" THEN Smaller(job.n, job.m) ELSE n, Operands)
    IN \A p, q \in 0 .. n - 1 :
         Wave(p, n) \in known /\ Wave(q, n) \in known => field["out"][p][q] # {}

\* grid_with_ghosts::relem: index x of the slab of rank r, ghosts included.
relem(r, x) ==
  IF x < 0 THEN ghost[r]["left"][x + job.m]
  ELSE IF x >= local_size(job.n, r) THEN ghost[r]["right"][x - local_size(job.n, r)]
  ELSE offsets(job.n)[r] + x

\* The planes a rank reads around its slab are its neighbours in the periodic
\* box, also when they lie on several ranks or on the rank itself.
GhostsAreNeighbours ==
  AllAt("done") /\ job.op = "ghosts" =>
    \A r \in Rank : \A x \in -job.m .. local_size(job.n, r) + job.m - 1 :
      relem(r, x) = (local_start(job.n, r) + x + job.n) % job.n

\* No rank waits for ever: every copy and every ghost update ends.
Ends == <>AllAt("done")
=============================================================================
