-------------------------- MODULE GridExchange_proof --------------------------
(***************************************************************************)
(* Proofs about GridExchange for any number of ranks and threads, any      *)
(* width of a size_t that holds the sizes, and any jobs JobsAssumption     *)
(* admits: the unsigned bounds of a copy do not wrap, so the sender and    *)
(* the receiver of every plane compute the same partner and tag, no rank   *)
(* waits for a plane that nobody sends, and no message is left when the    *)
(* ranks pass the barrier of an exchange.  Then what the copies and        *)
(* convolutions built on these exchanges keep of the modes.                *)
(***************************************************************************)
EXTENDS GridExchange, Counting

-----------------------------------------------------------------------------
(***************************************************************************)
(* Slabs.                                                                  *)
(***************************************************************************)
LEMMA RanksPositive == NumRanks \in Nat \ {0}
BY NumRanksAssumption

LEMMA LeastIs ==
  ASSUME NEW S \in SUBSET Int, NEW x \in S, \A y \in S : x <= y
  PROVE  Least(S) = x
<1>1. Least(S) \in S /\ \A y \in S : Least(S) <= y
  BY DEF Least
<1>2. Least(S) \in Int /\ x \in Int /\ Least(S) <= x /\ x <= Least(S)
  BY <1>1
<1> QED
  BY <1>2

LEMMA GreatestIs ==
  ASSUME NEW S \in SUBSET Int, NEW x \in S, \A y \in S : y <= x
  PROVE  Greatest(S) = x
<1>1. \A y \in S : x >= y
  OBVIOUS
<1>2. Greatest(S) \in S /\ \A y \in S : Greatest(S) >= y
  BY <1>1 DEF Greatest
<1>3. Greatest(S) \in Int /\ x \in Int /\ Greatest(S) <= x /\ x <= Greatest(S)
  BY <1>2
<1> QED
  BY <1>3

\* The blocks cover the grid, and none is needed behind the last rank.
LEMMA BlockFacts ==
  ASSUME NEW n \in Nat \ {0}
  PROVE  Block(n) \in Nat \ {0} /\ n <= NumRanks * Block(n)
<1>1. DEFINE b == (n + NumRanks - 1) \div NumRanks
<1>2. NumRanks \in Nat \ {0} /\ n + NumRanks - 1 \in Nat
  BY RanksPositive
<1>3. b \in Nat /\ n + NumRanks - 1 < NumRanks * b + NumRanks
  BY <1>2
<1>4. NumRanks * b \in Nat
  BY <1>2, <1>3
<1>5. n <= NumRanks * b
  BY <1>2, <1>3, <1>4
<1>6. b # 0
  BY <1>2, <1>5
<1>7. Block(n) = b
  BY DEF Block, CeilDiv
<1> QED
  BY <1>3, <1>5, <1>6, <1>7

\* Where a slab starts and ends, with planes or without.
LEMMA SlabBounds ==
  ASSUME NEW n \in Nat \ {0}, NEW r \in Nat
  PROVE  /\ r * Block(n) \in Nat
         /\ (r + 1) * Block(n) = r * Block(n) + Block(n)
         /\ local_size(n, r) \in 0 .. Block(n)
         /\ local_start(n, r) \in Nat
         /\ r * Block(n) < n =>
              /\ local_size(n, r) > 0
              /\ local_start(n, r) = r * Block(n)
              /\ local_start(n, r) + local_size(n, r) = Smaller((r + 1) * Block(n), n)
         /\ r * Block(n) >= n => local_size(n, r) = 0 /\ local_start(n, r) = 0
<1>1. Block(n) \in Nat \ {0}
  BY BlockFacts
<1>2. r * Block(n) \in Nat /\ (r + 1) * Block(n) = r * Block(n) + Block(n)
  BY <1>1
<1>3. r * Block(n) < n =>
        /\ local_size(n, r) > 0 /\ local_size(n, r) \in 0 .. Block(n)
        /\ local_size(n, r) = Smaller((r + 1) * Block(n), n) - r * Block(n)
  BY <1>1, <1>2 DEF local_size, Smaller
<1>4. r * Block(n) >= n => local_size(n, r) = 0
  BY <1>1, <1>2 DEF local_size
<1>5. Smaller((r + 1) * Block(n), n) \in Int
  BY <1>1, <1>2 DEF Smaller
<1> QED
  BY <1>1, <1>2, <1>3, <1>4, <1>5 DEF local_start

\* Every plane is in the block of one rank.
LEMMA Blocks ==
  ASSUME NEW n \in Nat \ {0}, NEW p \in 0 .. n - 1
  PROVE  \E r \in Rank : r * Block(n) <= p /\ p < (r + 1) * Block(n)
<1> DEFINE r == p \div Block(n)
           k == p % Block(n)
<1>1. Block(n) \in Nat \ {0} /\ n <= NumRanks * Block(n) /\ NumRanks \in Nat \ {0}
  BY BlockFacts, RanksPositive
<1>2. r \in Int /\ k \in 0 .. Block(n) - 1 /\ p = r * Block(n) + k
  <2> DEFINE b == Block(n)
  <2>1. b \in Nat \ {0} /\ p \in Int
    BY <1>1
  <2> HIDE DEF b
  <2>2. p \div b \in Int /\ p % b \in 0 .. b - 1 /\ p = (p \div b) * b + (p % b)
    BY <2>1, DivMod
  <2> QED
    BY <2>2 DEF b
<1> HIDE DEF r, k
<1>3. (r + 1) * Block(n) = r * Block(n) + Block(n) /\ r * Block(n) \in Int
  BY <1>1, <1>2
<1>4. r >= 0
  <2>1. SUFFICES ASSUME r + 1 <= 0 PROVE FALSE
    BY <1>2
  <2>2. (r + 1) * Block(n) <= 0 * Block(n)
    BY <1>1, <1>2, <2>1, TimesMonotone
  <2> QED
    BY <1>1, <1>2, <1>3, <2>2
<1>5. r < NumRanks
  <2>1. SUFFICES ASSUME NumRanks <= r PROVE FALSE
    BY <1>1, <1>2
  <2>2. NumRanks * Block(n) <= r * Block(n)
    BY <1>1, <1>2, <2>1, TimesMonotone
  <2>3. NumRanks * Block(n) \in Int
    BY <1>1
  <2> QED
    BY <1>1, <1>2, <1>3, <2>2, <2>3
<1>6. r \in Rank
  BY <1>1, <1>2, <1>4, <1>5 DEF Rank
<1> QED
  BY <1>1, <1>2, <1>3, <1>6

\* The gathered offsets are the boundaries of the blocks, cut at the end.
LEMMA OffsetsAre ==
  ASSUME NEW n \in Nat \ {0}, NEW i \in 0 .. NumRanks
  PROVE  offsets(n)[i] = Smaller(i * Block(n), n)
<1> DEFINE first == IF i = NumRanks THEN 0 ELSE local_start(n, i)
           end(k) == local_start(n, k) + local_size(n, k)
           S == {first} \cup {end(k) : k \in 0 .. i - 1}
           x == Smaller(i * Block(n), n)
<1>1. Block(n) \in Nat \ {0} /\ n <= NumRanks * Block(n) /\ NumRanks \in Nat \ {0}
  BY BlockFacts, RanksPositive
<1>2. i \in Nat /\ i * Block(n) \in Nat /\ x \in Nat
  <2>1. i \in Nat
    BY <1>1
  <2>2. i * Block(n) \in Nat
    BY <2>1, SlabBounds
  <2> QED
    BY <2>1, <2>2 DEF Smaller
<1>3. offsets(n)[i] = Greatest(S)
  BY DEF offsets
<1>4. first \in Nat /\ first <= x
  <2>1. /\ local_start(n, i) \in Nat
        /\ i * Block(n) < n => local_start(n, i) = i * Block(n)
        /\ i * Block(n) >= n => local_start(n, i) = 0
    BY <1>2, SlabBounds
  <2> QED
    BY <1>2, <2>1 DEF Smaller
<1>5. ASSUME NEW k \in 0 .. i - 1
      PROVE  /\ end(k) \in Nat /\ end(k) <= x
             /\ k * Block(n) < n => end(k) = Smaller((k + 1) * Block(n), n)
  <2>1. (k + 1) * Block(n) <= i * Block(n)
    BY <1>1, <1>2, TimesMonotone
  <2>2. k \in Nat /\ (k + 1) * Block(n) \in Nat /\ k * Block(n) \in Nat
    BY <1>1, <1>2
  <2>3. Block(n) \in Nat
    BY <1>1
  <2>4. CASE k * Block(n) < n
    <3>1. end(k) = Smaller((k + 1) * Block(n), n)
      BY <2>2, <2>4, SlabBounds
    <3> QED
      BY <1>2, <2>1, <2>2, <3>1 DEF Smaller
  <2>5. CASE k * Block(n) >= n
    <3>1. end(k) = 0
      BY <2>2, <2>5, SlabBounds
    <3> QED
      BY <1>2, <2>2, <2>5, <3>1
  <2> QED
    BY <2>2, <2>4, <2>5
<1>6. x \in S
  <2>1. CASE i = 0
    <3>1. first = 0
      BY <1>1, <2>1, SlabBounds
    <3> QED
      BY <1>1, <1>2, <2>1, <3>1 DEF Smaller
  <2>2. CASE i > 0 /\ i * Block(n) <= n
    <3>1. i - 1 \in 0 .. i - 1 /\ (i - 1) + 1 = i
      BY <1>2, <2>2
    <3>2. (i - 1) * Block(n) < n
      <4>1. i * Block(n) = (i - 1) * Block(n) + Block(n) /\ (i - 1) * Block(n) \in Int
        BY <1>1, <1>2, <3>1, TimesNext
      <4> QED
        BY <1>1, <1>2, <2>2, <4>1
    <3>3. end(i - 1) = x
      BY <1>5, <3>1, <3>2
    <3> QED
      BY <3>1, <3>3
  <2>3. CASE i * Block(n) > n
    <3>1. PICK k \in Rank : k * Block(n) <= n - 1 /\ n - 1 < (k + 1) * Block(n)
      BY Blocks
    <3>2. k \in Nat /\ k * Block(n) \in Nat /\ (k + 1) * Block(n) \in Nat
      BY <1>1 DEF Rank
    <3>3. k < i
      <4>1. SUFFICES ASSUME i <= k PROVE FALSE
        BY <1>2, <3>2
      <4>2. i * Block(n) <= k * Block(n)
        BY <1>1, <1>2, <3>2, <4>1, TimesMonotone
      <4> QED
        BY <1>2, <2>3, <3>1, <3>2, <4>2
    <3>4. k \in 0 .. i - 1 /\ k * Block(n) < n
      BY <1>2, <3>1, <3>2, <3>3
    <3>5. end(k) = Smaller((k + 1) * Block(n), n)
      BY <1>5, <3>4
    <3>6. end(k) = x
      BY <1>2, <2>3, <3>1, <3>2, <3>5 DEF Smaller
    <3> QED
      BY <3>4, <3>6
  <2> QED
    BY <1>2, <2>1, <2>2, <2>3
<1>7. S \in SUBSET Int /\ \A y \in S : y <= x
  BY <1>4, <1>5
<1> HIDE DEF S, x
<1>8. Greatest(S) = x
  BY <1>6, <1>7, GreatestIs
<1> QED
  BY <1>3, <1>8 DEF x

\* The planes of a rank.
LEMMA SlabIs ==
  ASSUME NEW n \in Nat \ {0}, NEW r \in Rank
  PROVE  Slab(n, r) = {p \in 0 .. n - 1 : r * Block(n) <= p /\ p < (r + 1) * Block(n)}
<1>1. Block(n) \in Nat \ {0} /\ NumRanks \in Nat \ {0} /\ r \in Nat /\ r \in 0 .. NumRanks
  BY BlockFacts, RanksPositive DEF Rank
<1>2. offsets(n)[r] = Smaller(r * Block(n), n)
  BY <1>1, OffsetsAre
<1> DEFINE s == local_size(n, r)
           o == r * Block(n)
           e == (r + 1) * Block(n)
<1>3. o \in Nat /\ e = o + Block(n) /\ s \in Nat
  BY <1>1, SlabBounds
<1>4. CASE o < n
  <2>1. s = Smaller(e, n) - o
    <3>1. o + s = Smaller(e, n)
      BY <1>1, <1>4, SlabBounds
    <3> QED
      BY <1>3, <3>1
  <2>2. offsets(n)[r] = o
    BY <1>2, <1>4 DEF Smaller
  <2> HIDE DEF s, o, e
  <2>3. Slab(n, r) = {o + i : i \in 0 .. s - 1}
    BY <2>2 DEF Slab, s
  <2>4. ASSUME NEW p \in 0 .. n - 1, o <= p, p < e
        PROVE  p \in Slab(n, r)
    <3>1. p - o \in 0 .. s - 1 /\ p = o + (p - o)
      BY <1>1, <1>3, <2>1, <2>4 DEF Smaller
    <3> QED
      BY <2>3, <3>1
  <2>5. ASSUME NEW i \in 0 .. s - 1
        PROVE  o + i \in 0 .. n - 1 /\ o <= o + i /\ o + i < e
    BY <1>1, <1>3, <2>1 DEF Smaller
  <2> QED
    BY <2>3, <2>4, <2>5 DEF o, e
<1>5. CASE o >= n
  <2>1. s = 0
    BY <1>1, <1>5, SlabBounds
  <2>2. Slab(n, r) = {}
    BY <2>1 DEF Slab
  <2> QED
    BY <1>3, <1>5, <2>2
<1> QED
  BY <1>3, <1>4, <1>5

\* A plane is looked up at the rank whose slab holds it.
LEMMA OwnerIs ==
  ASSUME NEW n \in Nat \ {0}, NEW t \in Rank, NEW p \in Slab(n, t)
  PROVE  get_task(p, offsets(n)) = t
<1>1. /\ Block(n) \in Nat \ {0} /\ NumRanks \in Nat \ {0} /\ t \in Nat /\ t < NumRanks
      /\ p \in 0 .. n - 1 /\ t * Block(n) <= p /\ p < (t + 1) * Block(n)
  BY BlockFacts, RanksPositive, SlabIs DEF Rank
<1> DEFINE S == {u \in Rank : u = NumRanks - 1 \/ offsets(n)[u + 1] > p}
<1>2. ASSUME NEW u \in Rank
      PROVE  /\ u \in Nat /\ u + 1 \in 0 .. NumRanks /\ (u + 1) * Block(n) \in Nat
             /\ offsets(n)[u + 1] = Smaller((u + 1) * Block(n), n)
  BY <1>1, OffsetsAre DEF Rank
<1>3. t \in S
  <2>1. offsets(n)[t + 1] > p
    BY <1>1, <1>2 DEF Smaller
  <2> QED
    BY <2>1
<1>4. ASSUME NEW u \in S
      PROVE  t <= u
  <2>1. u \in Rank /\ u \in Nat
    BY <1>2
  <2>2. SUFFICES ASSUME u < t PROVE FALSE
    BY <1>1, <2>1
  <2>3. (u + 1) * Block(n) <= t * Block(n)
    BY <1>1, <2>1, <2>2, TimesMonotone
  <2>4. t * Block(n) \in Int /\ (u + 1) * Block(n) \in Int
    BY <1>1, <2>1
  <2>5. offsets(n)[u + 1] = Smaller((u + 1) * Block(n), n)
    BY <1>2, <2>1
  <2>6. offsets(n)[u + 1] <= p
    BY <1>1, <2>3, <2>4, <2>5 DEF Smaller
  <2>7. u # NumRanks - 1
    BY <1>1, <2>1, <2>2
  <2>8. offsets(n)[u + 1] \in Int
    BY <1>1, <2>4, <2>5 DEF Smaller
  <2> QED
    BY <1>1, <2>6, <2>7, <2>8
<1>5. S \in SUBSET Int
  BY DEF Rank
<1>6. get_task(p, offsets(n)) = Least(S)
  BY DEF get_task
<1> HIDE DEF S
<1> QED
  BY <1>3, <1>4, <1>5, <1>6, LeastIs

\* Every plane is found.
LEMMA Owned ==
  ASSUME NEW n \in Nat \ {0}, NEW p \in 0 .. n - 1
  PROVE  get_task(p, offsets(n)) \in Rank /\ p \in Slab(n, get_task(p, offsets(n)))
<1>1. PICK t \in Rank : t * Block(n) <= p /\ p < (t + 1) * Block(n)
  BY Blocks
<1>2. p \in Slab(n, t)
  BY <1>1, SlabIs
<1> QED
  BY <1>2, OwnerIs

-----------------------------------------------------------------------------
(***************************************************************************)
(* Sender and receiver agree.                                              *)
(***************************************************************************)
\* The message m is the one that is waited for as w.
Match(w, m) == m.src = w.src /\ m.dst = w.dst /\ m.tag = w.tag

\* The sizes the program copies between.
Copyable(from, to) == to \div 2 <= from /\ from < SizeRange /\ to < SizeRange

LEMMA SizeIs ==
  ASSUME NEW x \in Nat, x < SizeRange
  PROVE  SizeT(x) = x
<1>1. SizeRange \in Nat \ {0} /\ x \in 0 .. SizeRange - 1 /\ x = 0 * SizeRange + x
  BY SizeRangeAssumption
<1>2. x % SizeRange = x
  BY <1>1, ModIs
<1> QED
  BY <1>2 DEF SizeT

\* The unsigned bounds of such a copy are those of the integers.
LEMMA SizesDoNotWrap ==
  ASSUME NEW from \in Nat \ {0}, NEW to \in Nat \ {0}, Copyable(from, to)
  PROVE  /\ fny_right(from, to) = Larger(from - to \div 2, from \div 2)
         /\ fny_right_recv(from, to) = Larger(from - to \div 2, from \div 2) + to - from
<1> DEFINE x == from - to \div 2
           y == Larger(x, from \div 2) + to - from
<1>1. SizeRange \in Nat /\ to \div 2 <= from /\ from < SizeRange /\ to < SizeRange
  BY SizeRangeAssumption DEF Copyable
<1>2. x \in Nat /\ x < SizeRange
  BY <1>1
<1>3. y \in Nat /\ y < SizeRange
  BY <1>1 DEF Larger
<1> HIDE DEF x, y
<1>4. SizeT(x) = x /\ SizeT(y) = y
  BY <1>2, <1>3, SizeIs
<1>5. fny_right(from, to) = Larger(x, from \div 2)
  BY <1>4 DEF fny_right, x
<1> QED
  BY <1>4, <1>5 DEF fny_right_recv, x, y

\* To a grid that is finer than that no plane is sent on the right, and yet
\* the last one is waited for: JobsAssumption cannot do with less.
LEMMA FinerCopiesHang ==
  ASSUME NEW from \in Nat \ {0}, NEW to \in Nat \ {0}, to < SizeRange, to \div 2 > from
  PROVE  /\ \A p \in 0 .. from - 1 : ~(p > fny_right(from, to))
         /\ to - 1 > fny_right_recv(from, to)
<1> DEFINE h == to \div 2
           x == SizeRange + from - h
<1>1. SizeRange \in Nat \ {0} /\ h \in Nat /\ h > 1 /\ 2 * h <= to
  BY SizeRangeAssumption
<1> HIDE DEF h
<1>2. SizeT(from - h) = x
  <2>1. x \in 0 .. SizeRange - 1 /\ from - h = -1 * SizeRange + x
    BY <1>1 DEF h
  <2> HIDE DEF x
  <2>2. (from - h) % SizeRange = x
    BY <1>1, <2>1, ModIs
  <2> QED
    BY <2>2 DEF SizeT
<1>3. fny_right(from, to) = x /\ x > from
  <2>1. from \div 2 <= from /\ from \div 2 \in Nat /\ x > from
    BY <1>1
  <2> QED
    BY <1>1, <1>2, <2>1 DEF fny_right, Larger, h
<1>4. fny_right_recv(from, to) = to - h
  <2>1. to - h \in 0 .. SizeRange - 1 /\ x + to - from = 1 * SizeRange + (to - h)
    BY <1>1
  <2>2. (x + to - from) % SizeRange = to - h
    BY <1>1, <2>1, ModIs
  <2> QED
    BY <1>3, <2>2 DEF fny_right_recv, SizeT
<1> QED
  BY <1>1, <1>3, <1>4

LEMMA SentIsReceived ==
  ASSUME NEW from \in Nat \ {0}, NEW to \in Nat \ {0}, Copyable(from, to),
         NEW p \in 0 .. from - 1, IsSent(p, from, to)
  PROVE  /\ RecvIndex(p, from, to) \in 0 .. to - 1
         /\ IsReceived(RecvIndex(p, from, to), from, to)
         /\ SendIndex(RecvIndex(p, from, to), from, to) = p
BY SizesDoNotWrap DEF IsSent, RecvIndex, IsReceived, SendIndex, fny_left, Smaller, Larger, Copyable

LEMMA ReceivedIsSent ==
  ASSUME NEW from \in Nat \ {0}, NEW to \in Nat \ {0}, Copyable(from, to),
         NEW q \in 0 .. to - 1, IsReceived(q, from, to)
  PROVE  /\ SendIndex(q, from, to) \in 0 .. from - 1
         /\ IsSent(SendIndex(q, from, to), from, to)
         /\ RecvIndex(SendIndex(q, from, to), from, to) = q
BY SizesDoNotWrap DEF IsSent, RecvIndex, IsReceived, SendIndex, fny_left, Smaller, Larger, Copyable

LEMMA SlabInside ==
  ASSUME NEW n \in Nat \ {0}, NEW r \in Rank
  PROVE  Slab(n, r) \subseteq 0 .. n - 1
BY SlabIs

LEMMA CopySendIsReceived ==
  ASSUME NEW from \in Nat \ {0}, NEW to \in Nat \ {0}, Copyable(from, to),
         NEW r \in Rank, NEW m \in CopySends(r, from, to)
  PROVE  /\ m.src = r /\ m.dst \in Rank
         /\ \E w \in CopyReceives(m.dst, from, to) : Match(w, m)
<1>1. PICK p \in Slab(from, r) :
        /\ IsSent(p, from, to)
        /\ m = [src |-> r, dst |-> get_task(RecvIndex(p, from, to), offsets(to)),
                tag |-> RecvIndex(p, from, to), plane |-> p]
  BY DEF CopySends
<1> DEFINE q == RecvIndex(p, from, to)
           t == get_task(q, offsets(to))
           w == [src |-> get_task(SendIndex(q, from, to), offsets(from)), dst |-> t,
                 tag |-> q, turn |-> q]
<1>2. q \in 0 .. to - 1 /\ IsReceived(q, from, to) /\ SendIndex(q, from, to) = p
  BY <1>1, SlabInside, SentIsReceived
<1>3. t \in Rank /\ q \in Slab(to, t)
  BY <1>2, Owned
<1>4. w.src = r
  BY <1>1, <1>2, OwnerIs
<1>5. w \in CopyReceives(t, from, to)
  BY <1>2, <1>3 DEF CopyReceives
<1>6. m.src = r /\ m.dst = t /\ m.tag = q
  BY <1>1
<1> HIDE DEF q, t
<1>7. w.dst = t /\ w.tag = q
  OBVIOUS
<1>8. Match(w, m)
  BY <1>4, <1>6, <1>7 DEF Match
<1> QED
  BY <1>3, <1>5, <1>6, <1>8

LEMMA CopyReceiveIsSent ==
  ASSUME NEW from \in Nat \ {0}, NEW to \in Nat \ {0}, Copyable(from, to),
         NEW r \in Rank, NEW w \in CopyReceives(r, from, to)
  PROVE  /\ w.dst = r /\ w.src \in Rank
         /\ \E m \in CopySends(w.src, from, to) : Match(w, m)
<1>1. PICK q \in Slab(to, r) :
        /\ IsReceived(q, from, to)
        /\ w = [src |-> get_task(SendIndex(q, from, to), offsets(from)), dst |-> r,
                tag |-> q, turn |-> q]
  BY DEF CopyReceives
<1> DEFINE p == SendIndex(q, from, to)
           s == get_task(p, offsets(from))
           m == [src |-> s, dst |-> get_task(RecvIndex(p, from, to), offsets(to)),
                 tag |-> RecvIndex(p, from, to), plane |-> p]
<1>2. p \in 0 .. from - 1 /\ IsSent(p, from, to) /\ RecvIndex(p, from, to) = q
  BY <1>1, SlabInside, ReceivedIsSent
<1>3. s \in Rank /\ p \in Slab(from, s)
  BY <1>2, Owned
<1>4. m.dst = r /\ m.tag = q
  BY <1>1, <1>2, OwnerIs
<1>5. m \in CopySends(s, from, to)
  BY <1>2, <1>3 DEF CopySends
<1>6. w.src = s /\ w.dst = r /\ w.tag = q
  BY <1>1
<1>7. m.src = s
  OBVIOUS
<1> HIDE DEF m, s
<1>8. Match(w, m)
  BY <1>4, <1>6, <1>7 DEF Match
<1> QED
  BY <1>3, <1>5, <1>6, <1>8

\* A message is known by its sender and tag, a plane that is waited for by
\* its receiver and tag.
LEMMA CopyTagsAreUnique ==
  ASSUME NEW from \in Nat \ {0}, NEW to \in Nat \ {0}, Copyable(from, to),
         NEW r \in Rank
  PROVE  /\ \A m, k \in CopySends(r, from, to) : m.tag = k.tag => m = k
         /\ \A w, v \in CopyReceives(r, from, to) : w.tag = v.tag => w = v
<1>1. ASSUME NEW m \in CopySends(r, from, to), NEW k \in CopySends(r, from, to),
             m.tag = k.tag
      PROVE  m = k
  <2>1. PICK p \in Slab(from, r) :
          /\ IsSent(p, from, to)
          /\ m = [src |-> r, dst |-> get_task(RecvIndex(p, from, to), offsets(to)),
                  tag |-> RecvIndex(p, from, to), plane |-> p]
    BY DEF CopySends
  <2>2. PICK q \in Slab(from, r) :
          /\ IsSent(q, from, to)
          /\ k = [src |-> r, dst |-> get_task(RecvIndex(q, from, to), offsets(to)),
                  tag |-> RecvIndex(q, from, to), plane |-> q]
    BY DEF CopySends
  <2>3. RecvIndex(p, from, to) = RecvIndex(q, from, to)
    BY <1>1, <2>1, <2>2
  <2>4. /\ SendIndex(RecvIndex(p, from, to), from, to) = p
        /\ SendIndex(RecvIndex(q, from, to), from, to) = q
    BY <2>1, <2>2, SlabInside, SentIsReceived
  <2>5. p = q
    BY <2>3, <2>4
  <2> QED
    BY <2>1, <2>2, <2>5
<1>2. ASSUME NEW w \in CopyReceives(r, from, to), NEW v \in CopyReceives(r, from, to),
             w.tag = v.tag
      PROVE  w = v
  BY <1>2 DEF CopyReceives
<1> QED
  BY <1>1, <1>2

\* The gathered offset and the start of the slab differ by the whole grid on
\* a rank without planes, which names the same ghost planes.
LEMMA GhostPlaneAgrees ==
  ASSUME NEW n \in Nat \ {0}, NEW deep \in 1 .. n, NEW r \in Rank, NEW side \in Sides,
         NEW i \in 0 .. deep - 1
  PROVE  /\ GhostPlane(side, i, offsets(n)[r], local_size(n, r), n, deep)
              = GhostPlane(side, i, local_start(n, r), local_size(n, r), n, deep)
         /\ GhostPlane(side, i, local_start(n, r), local_size(n, r), n, deep) \in 0 .. n - 1
<1>1. r \in Nat /\ r \in 0 .. NumRanks
  BY RanksPositive DEF Rank
<1> DEFINE o == offsets(n)[r]
           f == local_start(n, r)
           s == local_size(n, r)
<1>2. f \in Nat /\ s \in Int
  BY <1>1, SlabBounds
<1>3. o = f \/ (o = f + n /\ o \in Nat)
  <2>1. r * Block(n) < n \/ r * Block(n) >= n
    BY <1>1, SlabBounds
  <2>2. o = Smaller(r * Block(n), n)
    BY <1>1, OffsetsAre
  <2>3. r * Block(n) \in Nat
    BY <1>1, SlabBounds
  <2>4. CASE r * Block(n) < n
    <3>1. f = r * Block(n)
      BY <1>1, <2>4, SlabBounds
    <3> QED
      BY <2>2, <2>3, <2>4, <3>1 DEF Smaller
  <2>5. CASE r * Block(n) >= n
    <3>1. f = 0
      BY <1>1, <2>5, SlabBounds
    <3>2. o = n
      BY <2>2, <2>3, <2>5 DEF Smaller
    <3> QED
      BY <3>1, <3>2
  <2> QED
    BY <2>1, <2>4, <2>5
<1> HIDE DEF o, f, s
<1>4. /\ (f + s + i + n) % n = (f + s + i) % n
      /\ (f + n - deep + i + n) % n = (f + n - deep + i) % n
  <2>1. f + s + i \in Int /\ f + n - deep + i \in Int
    BY <1>2
  <2> QED
    BY <2>1, ModShift
<1>5. (f + s + i) % n \in 0 .. n - 1 /\ (f + n - deep + i) % n \in 0 .. n - 1
  <2>1. f + s + i \in Int /\ f + n - deep + i \in Int
    BY <1>2
  <2> QED
    BY <2>1, DivMod
<1>6. (o + s + i) % n = (f + s + i) % n /\ (o + n - deep + i) % n = (f + n - deep + i) % n
  <2>1. CASE o = f
    BY <2>1
  <2>2. CASE o = f + n
    <3>1. o + s + i = f + s + i + n /\ o + n - deep + i = f + n - deep + i + n
      BY <1>2, <2>2
    <3> QED
      BY <1>4, <3>1
  <2> QED
    BY <1>3, <2>1, <2>2
<1>7. GhostPlane(side, i, o, s, n, deep) = GhostPlane(side, i, f, s, n, deep)
  BY <1>6 DEF GhostPlane
<1>8. GhostPlane(side, i, f, s, n, deep) \in 0 .. n - 1
  BY <1>5 DEF GhostPlane
<1> QED
  BY <1>7, <1>8 DEF o, f, s

LEMMA GhostSendIsReceived ==
  ASSUME NEW n \in Nat \ {0}, NEW deep \in 1 .. n, NEW r \in Rank, NEW side \in Sides,
         NEW m \in GhostSends(r, side, n, deep)
  PROVE  /\ m.src = r /\ m.dst \in Rank
         /\ \E w \in GhostReceives(m.dst, side, n, deep) : Match(w, m)
<1>1. PICK t \in Rank, p \in Slab(n, r), i \in 0 .. deep - 1 :
        /\ m = [src |-> r, dst |-> t, plane |-> p, tag |-> p]
        /\ p = GhostPlane(side, i, offsets(n)[t], local_size(n, t), n, deep)
  BY DEF GhostSends
<1> DEFINE g == GhostPlane(side, i, local_start(n, t), local_size(n, t), n, deep)
           w == [src |-> get_task(g, offsets(n)), dst |-> t, tag |-> g, turn |-> i]
<1>2. g = p
  BY <1>1, GhostPlaneAgrees
<1>3. w \in GhostReceives(t, side, n, deep)
  BY DEF GhostReceives
<1> HIDE DEF g
<1>4. w.src = r /\ w.dst = t /\ w.tag = p
  BY <1>2, OwnerIs
<1>5. m.src = r /\ m.dst = t /\ m.tag = p
  BY <1>1
<1> HIDE DEF w
<1>6. Match(w, m)
  BY <1>4, <1>5 DEF Match
<1> QED
  BY <1>3, <1>5, <1>6

LEMMA GhostReceiveIsSent ==
  ASSUME NEW n \in Nat \ {0}, NEW deep \in 1 .. n, NEW r \in Rank, NEW side \in Sides,
         NEW w \in GhostReceives(r, side, n, deep)
  PROVE  /\ w.dst = r /\ w.src \in Rank
         /\ \E m \in GhostSends(w.src, side, n, deep) : Match(w, m)
<1> DEFINE g(i) == GhostPlane(side, i, local_start(n, r), local_size(n, r), n, deep)
<1>1. PICK i \in 0 .. deep - 1 :
        w = [src |-> get_task(g(i), offsets(n)), dst |-> r, tag |-> g(i), turn |-> i]
  BY DEF GhostReceives
<1> DEFINE p == g(i)
           s == get_task(p, offsets(n))
           m == [src |-> s, dst |-> r, plane |-> p, tag |-> p]
<1>2. /\ p = GhostPlane(side, i, offsets(n)[r], local_size(n, r), n, deep)
      /\ p \in 0 .. n - 1
  BY GhostPlaneAgrees
<1>3. s \in Rank /\ p \in Slab(n, s)
  BY <1>2, Owned
<1>4. w.src = s /\ w.dst = r /\ w.tag = p
  BY <1>1
<1> HIDE DEF p, s
<1>5. m.src = s /\ m.dst = r /\ m.tag = p /\ m.plane = p
  OBVIOUS
<1>6. m \in GhostSends(s, side, n, deep)
  BY <1>2, <1>3 DEF GhostSends
<1> HIDE DEF m
<1>7. Match(w, m)
  BY <1>4, <1>5 DEF Match
<1> QED
  BY <1>3, <1>4, <1>6, <1>7

LEMMA GhostTagsAreUnique ==
  ASSUME NEW n \in Nat \ {0}, NEW deep \in 1 .. n, NEW r \in Rank, NEW side \in Sides
  PROVE  /\ \A m, k \in GhostSends(r, side, n, deep) :
              m.dst = k.dst /\ m.tag = k.tag => m = k
         /\ \A w, v \in GhostReceives(r, side, n, deep) : w.tag = v.tag => w = v
<1>1. ASSUME NEW m \in GhostSends(r, side, n, deep), NEW k \in GhostSends(r, side, n, deep),
             m.dst = k.dst, m.tag = k.tag
      PROVE  m = k
  BY <1>1 DEF GhostSends
<1>2. ASSUME NEW w \in GhostReceives(r, side, n, deep),
             NEW v \in GhostReceives(r, side, n, deep), w.tag = v.tag
      PROVE  w = v
  <2> DEFINE g(i) == GhostPlane(side, i, local_start(n, r), local_size(n, r), n, deep)
  <2>1. PICK i \in 0 .. deep - 1 :
          w = [src |-> get_task(g(i), offsets(n)), dst |-> r, tag |-> g(i), turn |-> i]
    BY DEF GhostReceives
  <2>2. PICK k \in 0 .. deep - 1 :
          v = [src |-> get_task(g(k), offsets(n)), dst |-> r, tag |-> g(k), turn |-> k]
    BY DEF GhostReceives
  <2>3. g(i) = g(k)
    BY <1>2, <2>1, <2>2
  <2>4. i = k
    <3> DEFINE f == local_start(n, r)
               s == local_size(n, r)
    <3>1. r \in Nat
      BY RanksPositive DEF Rank
    <3>2. f \in Int /\ s \in Int
      BY <3>1, SlabBounds
    <3>3. CASE side = "right"
      <4>1. (f + s + i) % n = (f + s + k) % n
        BY <2>3, <3>3 DEF GhostPlane
      <4> HIDE DEF f, s, g
      <4> DEFINE x == f + s + i
                 y == f + s + k
      <4>2. x \in Int /\ y \in Int /\ x - y < n /\ y - x < n
        BY <3>2
      <4>3. x % n = y % n
        BY <4>1
      <4> HIDE DEF x, y
      <4>4. x = y
        BY <4>2, <4>3, ModInjective
      <4> QED
        BY <3>2, <4>4 DEF x, y
    <3>4. CASE side # "right"
      <4>1. (f + n - deep + i) % n = (f + n - deep + k) % n
        BY <2>3, <3>4 DEF GhostPlane
      <4> HIDE DEF f, s, g
      <4> DEFINE x == f + n - deep + i
                 y == f + n - deep + k
      <4>2. x \in Int /\ y \in Int /\ x - y < n /\ y - x < n
        BY <3>2
      <4>3. x % n = y % n
        BY <4>1
      <4> HIDE DEF x, y
      <4>4. x = y
        BY <4>2, <4>3, ModInjective
      <4> QED
        BY <3>2, <4>4 DEF x, y
    <3> QED
      BY <3>3, <3>4
  <2> QED
    BY <2>1, <2>2, <2>4
<1> QED
  BY <1>1, <1>2

-----------------------------------------------------------------------------
(***************************************************************************)
(* The steps of a script.                                                  *)
(***************************************************************************)
LEMMA PaddedPositive ==
  ASSUME NEW n \in Nat \ {0}
  PROVE  Padded(n) \in Nat \ {0}
BY DEF Padded

LEMMA JobFacts ==
  ASSUME job \in Jobs
  PROVE  /\ job.op \in {"copy", "pair", "triple", "ghosts"}
         /\ job.n \in Nat \ {0} /\ job.m \in Nat \ {0}
         /\ job.op = "ghosts" => job.m \in 1 .. job.n
BY JobsAssumption DEF Job

\* The copies of a job: to the other grid, to the padded grid, and back.
LEMMA JobIsCopyable ==
  ASSUME job \in Jobs
  PROVE  /\ job.op = "copy" => Copyable(job.n, job.m)
         /\ job.op \in {"pair", "triple"} =>
              Copyable(job.n, Padded(job.n)) /\ Copyable(Padded(job.n), job.n)
<1>1. /\ job.n \in Nat \ {0} /\ job.m \in Nat \ {0} /\ SizeRange \in Nat
      /\ 2 * job.n < SizeRange /\ job.m < SizeRange
      /\ job.op = "copy" => job.m \div 2 <= job.n
      /\ job.op \in {"pair", "triple"} => job.n % 2 = 0
  BY JobsAssumption, SizeRangeAssumption DEF Job
<1> QED
  BY <1>1 DEF Copyable, Padded

\* Where in its script a job is, and what it does there.
InScript == job \in Jobs /\ step \in 1 .. Length(job)

LEMMA CopyStep ==
  ASSUME InScript, Now.kind = "copy"
  PROVE  Now.na \in Nat \ {0} /\ Now.nb \in Nat \ {0} /\ Copyable(Now.na, Now.nb)
<1>0. /\ job.op = "copy" => Copyable(job.n, job.m)
      /\ job.op \in {"pair", "triple"} =>
           Copyable(job.n, Padded(job.n)) /\ Copyable(Padded(job.n), job.n)
  BY JobIsCopyable DEF InScript
<1>1. /\ job.n \in Nat \ {0} /\ job.m \in Nat \ {0} /\ Padded(job.n) \in Nat \ {0}
      /\ job.op \in {"copy", "pair", "triple", "ghosts"}
  BY JobFacts, PaddedPositive DEF InScript
<1>2. CASE job.op = "copy"
  BY <1>0, <1>1, <1>2 DEF Now, Script, Copy, InScript, Length
<1>3. CASE job.op = "pair"
  <2>1. step \in 1 .. 4 /\ Now = convolve2(job.n, "k1", "k2", "out")[step]
    BY <1>3 DEF Now, Script, InScript, Length
  <2>2. Now.kind = "copy" => Now.na \in Nat \ {0} /\ Now.nb \in Nat \ {0} /\ Copyable(Now.na, Now.nb)
    BY <1>0, <1>1, <1>3, <2>1 DEF convolve2, Copy, Product
  <2> QED
    BY <2>2
<1>4. CASE job.op = "triple"
  <2>1. step \in 1 .. 8 /\ Now = convolve3(job.n)[step]
    BY <1>4 DEF Now, Script, InScript, Length
  <2>2. CASE step <= 4
    <3>1. step \in 1 .. 4 /\ Now = convolve2(job.n, "k1", "k2", "fbuf")[step]
      BY <2>1, <2>2 DEF convolve3
    <3>2. Now.kind = "copy" => Now.na \in Nat \ {0} /\ Now.nb \in Nat \ {0} /\ Copyable(Now.na, Now.nb)
      BY <1>0, <1>1, <1>4, <3>1 DEF convolve2, Copy, Product
    <3> QED
      BY <3>2
  <2>3. CASE step > 4
    <3>1. step - 4 \in 1 .. 4 /\ Now = convolve2(job.n, "fbuf", "k3", "out")[step - 4]
      BY <2>1, <2>3 DEF convolve3
    <3>2. Now.kind = "copy" => Now.na \in Nat \ {0} /\ Now.nb \in Nat \ {0} /\ Copyable(Now.na, Now.nb)
      BY <1>0, <1>1, <1>4, <3>1 DEF convolve2, Copy, Product
    <3> QED
      BY <3>2
  <2> QED
    BY <2>1, <2>2, <2>3
<1>5. CASE job.op = "ghosts"
  <2>1. Now.kind = "ghosts"
    BY <1>5 DEF Now, Script, Ghosts, InScript, Length
  <2> QED
    BY <2>1
<1> QED
  BY <1>1, <1>2, <1>3, <1>4, <1>5

LEMMA GhostStep ==
  ASSUME InScript, Now.kind = "ghosts"
  PROVE  /\ job.op = "ghosts" /\ step \in 1 .. 2
         /\ Now = Ghosts(IF step = 1 THEN "right" ELSE "left")
         /\ Now.side \in Sides /\ job.n \in Nat \ {0} /\ job.m \in 1 .. job.n
<1>1. job.op \in {"copy", "pair", "triple", "ghosts"} /\ job.n \in Nat \ {0}
  BY JobFacts DEF InScript
<1>2. job.op # "copy"
  BY DEF Now, Script, Copy, InScript, Length
<1>3. ASSUME NEW a, NEW b, NEW c, NEW i \in 1 .. 4
      PROVE  convolve2(job.n, a, b, c)[i].kind # "ghosts"
  BY DEF convolve2, Copy, Product
<1>4. job.op # "pair"
  <2>1. job.op = "pair" => step \in 1 .. 4 /\ Now = convolve2(job.n, "k1", "k2", "out")[step]
    BY DEF Now, Script, InScript, Length
  <2> QED
    BY <1>3, <2>1
<1>5. job.op # "triple"
  <2>1. SUFFICES ASSUME job.op = "triple" PROVE FALSE
    OBVIOUS
  <2>2. step \in 1 .. 8 /\ Now = convolve3(job.n)[step]
    BY <2>1 DEF Now, Script, InScript, Length
  <2>3. CASE step <= 4
    <3>1. step \in 1 .. 4 /\ Now = convolve2(job.n, "k1", "k2", "fbuf")[step]
      BY <2>2, <2>3 DEF convolve3
    <3> QED
      BY <1>3, <3>1
  <2>4. CASE step > 4
    <3>1. step - 4 \in 1 .. 4 /\ Now = convolve2(job.n, "fbuf", "k3", "out")[step - 4]
      BY <2>2, <2>4 DEF convolve3
    <3> QED
      BY <1>3, <3>1
  <2> QED
    BY <2>2, <2>3, <2>4
<1>6. job.op = "ghosts"
  BY <1>1, <1>2, <1>4, <1>5
<1>7. step \in 1 .. 2 /\ Now = Ghosts(IF step = 1 THEN "right" ELSE "left")
  BY <1>6 DEF Now, Script, InScript, Length
<1>8. Now.side \in Sides
  BY <1>7 DEF Ghosts, Sides
<1>9. job.m \in 1 .. job.n
  BY <1>6, JobFacts DEF InScript
<1> QED
  BY <1>1, <1>6, <1>7, <1>8, <1>9

\* In a step that sends and receives, what is sent is received.
Exchanging == InScript /\ Now.kind \in {"copy", "ghosts"}

LEMMA SendIsReceived ==
  ASSUME Exchanging, NEW r \in Rank, NEW m \in Sends(r)
  PROVE  m.src = r /\ m.dst \in Rank /\ \E w \in Receives(m.dst) : Match(w, m)
<1>1. CASE Now.kind = "copy"
  BY <1>1, CopyStep, CopySendIsReceived DEF Exchanging, Sends, Receives
<1>2. CASE Now.kind = "ghosts"
  BY <1>2, GhostStep, GhostSendIsReceived DEF Exchanging, Sends, Receives
<1> QED
  BY <1>1, <1>2 DEF Exchanging

LEMMA ReceiveIsSent ==
  ASSUME Exchanging, NEW r \in Rank, NEW w \in Receives(r)
  PROVE  w.dst = r /\ w.src \in Rank /\ \E m \in Sends(w.src) : Match(w, m)
<1>1. CASE Now.kind = "copy"
  BY <1>1, CopyStep, CopyReceiveIsSent DEF Exchanging, Sends, Receives
<1>2. CASE Now.kind = "ghosts"
  BY <1>2, GhostStep, GhostReceiveIsSent DEF Exchanging, Sends, Receives
<1> QED
  BY <1>1, <1>2 DEF Exchanging

LEMMA TagsAreUnique ==
  ASSUME Exchanging, NEW r \in Rank
  PROVE  /\ \A m, k \in Sends(r) : m.dst = k.dst /\ m.tag = k.tag => m = k
         /\ \A w, v \in Receives(r) : w.tag = v.tag => w = v
<1>1. CASE Now.kind = "copy"
  BY <1>1, CopyStep, CopyTagsAreUnique DEF Exchanging, Sends, Receives
<1>2. CASE Now.kind = "ghosts"
  BY <1>2, GhostStep, GhostTagsAreUnique DEF Exchanging, Sends, Receives
<1> QED
  BY <1>1, <1>2 DEF Exchanging

-----------------------------------------------------------------------------
(***************************************************************************)
(* The inductive invariant.                                                *)
(***************************************************************************)
Types ==
  /\ InScript
  /\ pc \in [Rank -> {"enter", "send", "receive", "wait", "leave", "done"}]
  /\ todo = [r \in Rank |-> todo[r]]

\* The ranks are in the same part of the step.
InPhase ==
  \/ AllAt("enter")
  \/ AllAt("done") /\ step = Length(job)
  \/ Exchanging /\ \A r \in Rank : pc[r] \in {"send", "receive"}
  \/ \A r \in Rank : pc[r] \in {"wait", "leave"}

\* A rank waits for nothing before it has sent nor after it has received.
TodoIsOpen ==
  \A r \in Rank : todo[r] \subseteq Receives(r) /\ (pc[r] # "receive" => todo[r] = {})

\* A message is on its way from a rank that has sent to one that has yet to
\* begin or waits for it.
SentIsExpected ==
  \A m \in net :
    /\ m.src \in Rank /\ m.dst \in Rank
    /\ pc[m.src] = "receive" /\ m \in Sends(m.src)
    /\ pc[m.dst] = "send" \/ \E w \in todo[m.dst] : Match(w, m)

\* A plane is waited for until it comes: it is on its way if its owner has sent.
ExpectedIsSent ==
  \A r \in Rank : \A w \in todo[r] : pc[w.src] = "receive" => \E m \in net : Match(w, m)

\* Nobody has stopped waiting for a rank that has not sent,
WaitsForTheLate ==
  \A r \in Rank : pc[r] = "receive" =>
    \A w \in Receives(r) : pc[w.src] = "send" => w \in todo[r]

\* and nothing sent to a rank that has not begun has been taken.
KeptForTheLate ==
  \A q \in Rank : pc[q] = "receive" => \A m \in Sends(q) : pc[m.dst] = "send" => m \in net

IInv ==
  Types /\ InPhase /\ TodoIsOpen /\ SentIsExpected /\ ExpectedIsSent
  /\ WaitsForTheLate /\ KeptForTheLate

\* Outside an exchange nothing is on its way.
LEMMA NetIsEmpty ==
  ASSUME IInv, NEW r \in Rank, pc[r] \notin {"send", "receive"}
  PROVE  net = {} /\ \A q \in Rank : pc[q] \notin {"send", "receive"} /\ todo[q] = {}
<1>1. \A q \in Rank : pc[q] \notin {"send", "receive"}
  BY DEF IInv, InPhase, AllAt
<1>2. net = {}
  BY <1>1 DEF IInv, SentIsExpected
<1>3. \A q \in Rank : todo[q] = {}
  BY <1>1 DEF IInv, TodoIsOpen
<1> QED
  BY <1>1, <1>2, <1>3

\* A state in which no rank has begun, and nothing is on its way.
LEMMA QuietStates ==
  ASSUME Types, InPhase, net = {}, \A r \in Rank : pc[r] # "receive" /\ todo[r] = {}
  PROVE  IInv
BY DEF IInv, TodoIsOpen, SentIsExpected, ExpectedIsSent, WaitsForTheLate, KeptForTheLate

LEMMA QuietStatesNext ==
  ASSUME Types', InPhase', net' = {}, \A r \in Rank : pc'[r] # "receive" /\ todo'[r] = {}
  PROVE  IInv'
BY DEF IInv, TodoIsOpen, SentIsExpected, ExpectedIsSent, WaitsForTheLate, KeptForTheLate

LEMMA LengthPositive ==
  ASSUME job \in Jobs
  PROVE  Length(job) \in Nat \ {0}
BY JobFacts DEF Length

LEMMA InitEstablishes == Init => IInv
<1>1. SUFFICES ASSUME Init PROVE IInv
  OBVIOUS
<1>2. job \in Jobs /\ step \in 1 .. Length(job)
  BY <1>1, LengthPositive DEF Init
<1>3. Types
  BY <1>1, <1>2 DEF Init, Types, InScript
<1>4. InPhase
  BY <1>1 DEF Init, InPhase, AllAt
<1> QED
  BY <1>1, <1>3, <1>4, QuietStates DEF Init

\* The ranks go to the next step, or are done, with nothing left behind.
LEMMA NextStepPreserves ==
  ASSUME IInv, NextStep, job' = job, net = {}, net' = net, todo' = todo,
         \A r \in Rank : todo[r] = {}
  PROVE  IInv'
<1>1. job \in Jobs /\ Length(job) \in Nat \ {0} /\ step \in 1 .. Length(job)
  BY LengthPositive DEF IInv, Types, InScript
<1>2. step' \in 1 .. Length(job)
  BY <1>1 DEF NextStep
<1>3. InScript'
  BY <1>1, <1>2 DEF InScript, Length
<1>4. Types'
  BY <1>3 DEF IInv, Types, NextStep
<1>5. InPhase'
  <2>1. CASE step < Length(job)
    BY <2>1 DEF NextStep, InPhase, AllAt
  <2>2. CASE ~(step < Length(job))
    <3>1. step' = Length(job)
      BY <1>1, <2>2 DEF NextStep
    <3>2. step' = Length(job')
      BY <3>1 DEF Length
    <3> QED
      BY <2>2, <3>2 DEF NextStep, InPhase, AllAt
  <2> QED
    BY <2>1, <2>2
<1>6. \A r \in Rank : pc'[r] # "receive" /\ todo'[r] = {}
  BY DEF NextStep
<1>7. net' = {}
  OBVIOUS
<1> QED
  BY <1>4, <1>5, <1>6, <1>7, QuietStatesNext

\* The ranks begin to exchange planes.
LEMMA EnterPreserves ==
  ASSUME IInv, EnterCopy \/ EnterGhosts
  PROVE  IInv'
<1>1. AllAt("enter") /\ Exchanging
  BY DEF EnterCopy, EnterGhosts, Exchanging, IInv, Types
<1>2. net = {} /\ \A r \in Rank : todo[r] = {}
  BY <1>1, RanksPositive, NetIsEmpty DEF AllAt, Rank
<1>3. pc' = [r \in Rank |-> "send"] /\ UNCHANGED <<job, step, net, todo>>
  BY DEF EnterCopy, EnterGhosts
<1>4. Types'
  BY <1>3 DEF IInv, Types, InScript, Length
<1>5. Exchanging'
  BY <1>1, <1>3 DEF Exchanging, InScript, Now, Length
<1>6. InPhase'
  BY <1>3, <1>5 DEF InPhase
<1> QED
  BY <1>2, <1>3, <1>4, <1>6, QuietStatesNext

\* Copies without messages and products.
LEMMA LocalStepPreserves ==
  ASSUME IInv, CopyFrom \/ Multiply
  PROVE  IInv'
<1>1. AllAt("enter") /\ NextStep /\ UNCHANGED <<job, net, todo>>
  BY DEF CopyFrom, Multiply
<1>2. net = {} /\ \A r \in Rank : todo[r] = {}
  BY <1>1, RanksPositive, NetIsEmpty DEF AllAt, Rank
<1> QED
  BY <1>1, <1>2, NextStepPreserves

LEMMA FlushPreserves ==
  ASSUME IInv, Flush
  PROVE  IInv'
<1>1. /\ \A r \in Rank : pc[r] = "receive" /\ todo[r] = {}
      /\ UNCHANGED <<job, net, todo>>
  BY DEF Flush
<1>2. net = {}
  BY <1>1 DEF IInv, SentIsExpected
<1>3. CASE Now = Ghosts("right")
  <2>1. NextStep
    BY <1>3 DEF Flush
  <2> QED
    BY <1>1, <1>2, <2>1, NextStepPreserves
<1>4. CASE Now # Ghosts("right")
  <2>1. pc' = [r \in Rank |-> "wait"] /\ UNCHANGED step
    BY <1>4 DEF Flush
  <2>2. Types'
    BY <1>1, <2>1 DEF IInv, Types, InScript, Length
  <2>3. InPhase'
    BY <2>1 DEF InPhase
  <2>4. \A r \in Rank : pc'[r] # "receive" /\ todo'[r] = {}
    BY <1>1, <2>1
  <2>5. net' = {}
    BY <1>1, <1>2
  <2> QED
    BY <2>2, <2>3, <2>4, <2>5, QuietStatesNext
<1> QED
  BY <1>3, <1>4

LEMMA WaitAllPreserves ==
  ASSUME IInv, NEW r \in Rank, WaitAll(r)
  PROVE  IInv'
<1>1. pc[r] = "wait" /\ pc' = [pc EXCEPT ![r] = "leave"] /\ UNCHANGED <<job, step, net, todo>>
  BY DEF WaitAll
<1>2. net = {} /\ \A q \in Rank : todo[q] = {} /\ pc[q] \notin {"send", "receive"}
  BY <1>1, NetIsEmpty
<1>3. Types'
  BY <1>1 DEF IInv, Types, InScript, Length
<1>4. \A q \in Rank : pc[q] \in {"wait", "leave"}
  BY <1>1 DEF IInv, InPhase, AllAt
<1>5. InPhase'
  BY <1>1, <1>4 DEF IInv, Types, InPhase
<1>6. \A q \in Rank : pc'[q] # "receive" /\ todo'[q] = {}
  BY <1>1, <1>2 DEF IInv, Types
<1> QED
  BY <1>1, <1>2, <1>3, <1>5, <1>6, QuietStatesNext

LEMMA LeavePreserves ==
  ASSUME IInv, Leave
  PROVE  IInv'
<1>1. AllAt("leave") /\ NextStep /\ UNCHANGED <<job, net, todo>>
  BY DEF Leave
<1>2. net = {} /\ \A r \in Rank : todo[r] = {}
  BY <1>1, RanksPositive, NetIsEmpty DEF AllAt, Rank
<1> QED
  BY <1>1, <1>2, NextStepPreserves

\* While planes are exchanged, what is to be sent and received stays.
LEMMA Exchange ==
  ASSUME IInv, NEW r \in Rank, pc[r] \in {"send", "receive"}
  PROVE  Exchanging /\ \A q \in Rank : pc[q] \in {"send", "receive"}
BY DEF IInv, InPhase, AllAt

LEMMA SameStep ==
  ASSUME UNCHANGED <<job, step>>
  PROVE  /\ \A q : Sends(q)' = Sends(q) /\ Receives(q)' = Receives(q)
         /\ Exchanging' <=> Exchanging
         /\ InScript' <=> InScript
BY DEF Sends, Receives, Exchanging, InScript, Now, Length

LEMMA IsendPreserves ==
  ASSUME IInv, NEW r \in Rank, Isend(r)
  PROVE  IInv'
<1>1. /\ pc[r] = "send" /\ pc' = [pc EXCEPT ![r] = "receive"]
      /\ net' = net \cup Sends(r)
      /\ todo' = [todo EXCEPT ![r] = Receives(r)]
      /\ UNCHANGED <<job, step>>
  BY DEF Isend
<1>2. Exchanging /\ \A q \in Rank : pc[q] \in {"send", "receive"}
  BY <1>1, Exchange
<1>3. /\ \A q : Sends(q)' = Sends(q) /\ Receives(q)' = Receives(q)
      /\ Exchanging' /\ InScript'
  BY <1>1, <1>2, SameStep DEF Exchanging
<1>4. /\ pc'[r] = "receive" /\ todo'[r] = Receives(r)
      /\ \A q \in Rank : q # r => pc'[q] = pc[q] /\ todo'[q] = todo[q]
  BY <1>1 DEF IInv, Types
<1>5. Types'
  BY <1>1, <1>3 DEF IInv, Types
<1>6. InPhase'
  BY <1>2, <1>3, <1>4 DEF InPhase
<1>7. TodoIsOpen'
  <2>1. SUFFICES ASSUME NEW q \in Rank
                 PROVE  todo'[q] \subseteq Receives(q) /\ (pc'[q] # "receive" => todo'[q] = {})
    BY <1>3 DEF TodoIsOpen
  <2> QED
    BY <1>4 DEF IInv, TodoIsOpen
<1>8. SentIsExpected'
  <2>1. SUFFICES ASSUME NEW m \in net'
                 PROVE  /\ m.src \in Rank /\ m.dst \in Rank
                        /\ pc'[m.src] = "receive" /\ m \in Sends(m.src)
                        /\ pc'[m.dst] = "send" \/ \E w \in todo'[m.dst] : Match(w, m)
    BY <1>3 DEF SentIsExpected, Match
  <2>2. CASE m \in Sends(r)
    <3>1. m.src = r /\ m.dst \in Rank
      BY <1>2, <2>2, SendIsReceived
    <3>2. PICK w \in Receives(m.dst) : Match(w, m)
      BY <1>2, <2>2, SendIsReceived
    <3>3. ASSUME m.dst # r, pc[m.dst] = "receive"
          PROVE  w \in todo'[m.dst]
      <4>1. w.src = r
        BY <3>1, <3>2 DEF Match
      <4>2. w \in todo[m.dst]
        BY <1>1, <3>1, <3>3, <4>1 DEF IInv, WaitsForTheLate
      <4> QED
        BY <1>4, <3>1, <3>3, <4>2
    <3>4. m.dst = r => w \in todo'[m.dst]
      BY <1>4
    <3>5. m.dst # r => pc'[m.dst] = pc[m.dst] /\ pc[m.dst] \in {"send", "receive"}
      BY <1>2, <1>4, <3>1
    <3> QED
      BY <1>4, <2>2, <3>1, <3>2, <3>3, <3>4, <3>5
  <2>3. CASE m \in net
    <3>1. /\ m.src \in Rank /\ m.dst \in Rank
          /\ pc[m.src] = "receive" /\ m \in Sends(m.src)
          /\ pc[m.dst] = "send" \/ \E w \in todo[m.dst] : Match(w, m)
      BY <2>3 DEF IInv, SentIsExpected
    <3>2. pc'[m.src] = "receive"
      BY <1>4, <3>1
    <3>3. CASE m.dst # r
      BY <1>4, <3>1, <3>2, <3>3
    <3>4. CASE m.dst = r
      <4>1. \E w \in Receives(r) : Match(w, m)
        BY <1>2, <3>1, <3>4, SendIsReceived
      <4> QED
        BY <1>4, <3>1, <3>2, <3>4, <4>1
    <3> QED
      BY <3>3, <3>4
  <2> QED
    BY <1>1, <2>1, <2>2, <2>3
<1>9. ExpectedIsSent'
  <2>1. SUFFICES ASSUME NEW q \in Rank, NEW w \in todo'[q], pc'[w.src] = "receive"
                 PROVE  \E m \in net' : Match(w, m)
    BY DEF ExpectedIsSent, Match
  <2>2. w \in Receives(q)
    BY <1>3, <1>7 DEF TodoIsOpen
  <2>3. w.dst = q /\ w.src \in Rank
    BY <1>2, <2>2, ReceiveIsSent
  <2>4. PICK m \in Sends(w.src) : Match(w, m)
    BY <1>2, <2>2, ReceiveIsSent
  <2>5. CASE w.src = r
    BY <1>1, <2>4, <2>5
  <2>6. CASE w.src # r
    <3>1. pc[w.src] = "receive"
      BY <1>4, <2>1, <2>3, <2>6
    <3>2. CASE q = r
      <4>1. m.dst = r
        BY <2>3, <2>4, <3>2 DEF Match
      <4>2. m \in net
        BY <1>1, <2>3, <2>4, <3>1, <4>1 DEF IInv, KeptForTheLate
      <4> QED
        BY <1>1, <2>4, <4>2
    <3>3. CASE q # r
      <4>1. w \in todo[q]
        BY <1>4, <3>3
      <4>2. \E k \in net : Match(w, k)
        BY <3>1, <4>1 DEF IInv, ExpectedIsSent
      <4> QED
        BY <1>1, <4>2
    <3> QED
      BY <3>2, <3>3
  <2> QED
    BY <2>5, <2>6
<1>10. WaitsForTheLate'
  <2>1. SUFFICES ASSUME NEW q \in Rank, pc'[q] = "receive",
                        NEW w \in Receives(q), pc'[w.src] = "send"
                 PROVE  w \in todo'[q]
    BY <1>3 DEF WaitsForTheLate
  <2>2. w.src \in Rank
    BY <1>2, ReceiveIsSent
  <2>3. w.src # r /\ pc[w.src] = "send"
    BY <1>4, <2>1, <2>2
  <2> QED
    BY <1>4, <2>1, <2>3 DEF IInv, WaitsForTheLate
<1>11. KeptForTheLate'
  <2>1. SUFFICES ASSUME NEW q \in Rank, pc'[q] = "receive",
                        NEW m \in Sends(q), pc'[m.dst] = "send"
                 PROVE  m \in net'
    BY <1>3 DEF KeptForTheLate
  <2>2. m.dst \in Rank
    BY <1>2, SendIsReceived
  <2>3. pc[m.dst] = "send"
    BY <1>4, <2>1, <2>2
  <2>4. CASE q = r
    BY <1>1, <2>4
  <2>5. CASE q # r
    BY <1>1, <1>4, <2>1, <2>3, <2>5 DEF IInv, KeptForTheLate
  <2> QED
    BY <2>4, <2>5
<1> QED
  BY <1>5, <1>6, <1>7, <1>8, <1>9, <1>10, <1>11 DEF IInv

LEMMA RecvPreserves ==
  ASSUME IInv, NEW r \in Rank, Recv(r)
  PROVE  IInv'
<1>1. PICK v \in InProgress(r), k \in net :
        /\ k.src = v.src /\ k.dst = r /\ k.tag = v.tag
        /\ net' = net \ {k}
        /\ todo' = [todo EXCEPT ![r] = @ \ {v}]
  BY DEF Recv
<1>2. pc[r] = "receive" /\ UNCHANGED <<job, step, pc>> /\ v \in todo[r]
  BY DEF Recv, InProgress
<1>3. Exchanging /\ \A q \in Rank : pc[q] \in {"send", "receive"}
  BY <1>2, Exchange
<1>4. /\ \A q : Sends(q)' = Sends(q) /\ Receives(q)' = Receives(q)
      /\ Exchanging' /\ InScript'
  BY <1>2, <1>3, SameStep DEF Exchanging
<1>5. /\ todo'[r] = todo[r] \ {v}
      /\ \A q \in Rank : todo'[q] \subseteq todo[q]
      /\ \A q \in Rank : q # r => todo'[q] = todo[q]
  BY <1>1 DEF IInv, Types
<1>6. v \in Receives(r) /\ v.dst = r /\ v.src \in Rank
  BY <1>2, <1>3, ReceiveIsSent DEF IInv, TodoIsOpen
<1>7. k.src \in Rank /\ pc[k.src] = "receive" /\ k \in Sends(k.src)
  BY <1>1 DEF IInv, SentIsExpected
<1>8. Types'
  BY <1>1, <1>2, <1>4 DEF IInv, Types
<1>9. InPhase'
  BY <1>2, <1>3, <1>4 DEF InPhase
<1>10. TodoIsOpen'
  <2>1. SUFFICES ASSUME NEW q \in Rank
                 PROVE  todo'[q] \subseteq Receives(q) /\ (pc'[q] # "receive" => todo'[q] = {})
    BY <1>4 DEF TodoIsOpen
  <2> QED
    BY <1>2, <1>5 DEF IInv, TodoIsOpen
<1>11. SentIsExpected'
  <2>1. SUFFICES ASSUME NEW m \in net'
                 PROVE  /\ m.src \in Rank /\ m.dst \in Rank
                        /\ pc'[m.src] = "receive" /\ m \in Sends(m.src)
                        /\ pc'[m.dst] = "send" \/ \E w \in todo'[m.dst] : Match(w, m)
    BY <1>4 DEF SentIsExpected, Match
  <2>2. m \in net /\ m # k
    BY <1>1
  <2>3. /\ m.src \in Rank /\ m.dst \in Rank
        /\ pc[m.src] = "receive" /\ m \in Sends(m.src)
        /\ pc[m.dst] = "send" \/ \E w \in todo[m.dst] : Match(w, m)
    BY <2>2 DEF IInv, SentIsExpected
  <2>4. ASSUME NEW w \in todo[m.dst], Match(w, m)
        PROVE  w \in todo'[m.dst]
    <3>1. CASE m.dst # r
      BY <1>5, <2>3, <3>1
    <3>2. CASE m.dst = r
      <4>1. SUFFICES ASSUME w = v PROVE FALSE
        BY <1>5, <3>2
      <4>2. m.src = k.src /\ m.dst = k.dst /\ m.tag = k.tag
        BY <1>1, <2>4, <3>2, <4>1 DEF Match
      <4>3. m = k
        BY <1>3, <1>7, <2>3, <4>2, TagsAreUnique
      <4> QED
        BY <2>2, <4>3
    <3> QED
      BY <3>1, <3>2
  <2> QED
    BY <1>2, <2>3, <2>4
<1>12. ExpectedIsSent'
  <2>1. SUFFICES ASSUME NEW q \in Rank, NEW w \in todo'[q], pc[w.src] = "receive"
                 PROVE  \E m \in net' : Match(w, m)
    BY <1>2 DEF ExpectedIsSent, Match
  <2>2. w \in todo[q]
    BY <1>5
  <2>3. PICK m \in net : Match(w, m)
    BY <2>1, <2>2 DEF IInv, ExpectedIsSent
  <2>4. w \in Receives(q) /\ w.dst = q
    BY <1>3, <2>2, ReceiveIsSent DEF IInv, TodoIsOpen
  <2>5. m # k
    <3>1. SUFFICES ASSUME m = k PROVE FALSE
      OBVIOUS
    <3>2. q = r /\ w.tag = v.tag
      BY <1>1, <2>3, <2>4, <3>1 DEF Match
    <3>3. w = v
      BY <1>3, <1>6, <2>4, <3>2, TagsAreUnique
    <3> QED
      BY <1>5, <2>1, <3>2, <3>3
  <2> QED
    BY <1>1, <2>3, <2>5
<1>13. WaitsForTheLate'
  <2>1. SUFFICES ASSUME NEW q \in Rank, pc[q] = "receive",
                        NEW w \in Receives(q), pc[w.src] = "send"
                 PROVE  w \in todo'[q]
    BY <1>2, <1>4 DEF WaitsForTheLate
  <2>2. w \in todo[q]
    BY <2>1 DEF IInv, WaitsForTheLate
  <2>3. w # v
    BY <1>1, <1>7, <2>1
  <2> QED
    BY <1>5, <2>2, <2>3
<1>14. KeptForTheLate'
  <2>1. SUFFICES ASSUME NEW q \in Rank, pc[q] = "receive",
                        NEW m \in Sends(q), pc[m.dst] = "send"
                 PROVE  m \in net'
    BY <1>2, <1>4 DEF KeptForTheLate
  <2>2. m \in net
    BY <2>1 DEF IInv, KeptForTheLate
  <2>3. m # k
    BY <1>1, <1>2, <2>1
  <2> QED
    BY <1>1, <2>2, <2>3
<1> QED
  BY <1>8, <1>9, <1>10, <1>11, <1>12, <1>13, <1>14 DEF IInv

LEMMA NextPreserves == IInv /\ [Next]_vars => IInv'
<1>1. SUFFICES ASSUME IInv, [Next]_vars PROVE IInv'
  OBVIOUS
<1>2. CASE EnterCopy \/ EnterGhosts
  BY <1>1, <1>2, EnterPreserves
<1>3. CASE CopyFrom \/ Multiply
  BY <1>1, <1>3, LocalStepPreserves
<1>4. CASE Flush
  BY <1>1, <1>4, FlushPreserves
<1>5. CASE Leave
  BY <1>1, <1>5, LeavePreserves
<1>6. ASSUME NEW r \in Rank, RankStep(r)
      PROVE  IInv'
  BY <1>1, <1>6, IsendPreserves, RecvPreserves, WaitAllPreserves DEF RankStep
<1>7. CASE UNCHANGED vars
  <2>1. UNCHANGED <<job, step, pc, net, todo>>
    BY <1>7 DEF vars
  <2>2. /\ \A q : Sends(q)' = Sends(q) /\ Receives(q)' = Receives(q)
        /\ Exchanging' <=> Exchanging
        /\ InScript' <=> InScript
    BY <2>1, SameStep
  <2>3. Types'
    BY <1>1, <2>1, <2>2 DEF IInv, Types
  <2>4. Length(job)' = Length(job)
    BY <2>1 DEF Length
  <2>5. InPhase'
    BY <1>1, <2>1, <2>2, <2>4 DEF IInv, InPhase, AllAt
  <2>6. TodoIsOpen'
    BY <1>1, <2>1, <2>2 DEF IInv, TodoIsOpen
  <2>7. SentIsExpected'
    BY <1>1, <2>1, <2>2 DEF IInv, SentIsExpected, Match
  <2>8. ExpectedIsSent'
    BY <1>1, <2>1, <2>2 DEF IInv, ExpectedIsSent, Match
  <2>9. WaitsForTheLate' /\ KeptForTheLate'
    BY <1>1, <2>1, <2>2 DEF IInv, WaitsForTheLate, KeptForTheLate
  <2> QED
    BY <2>3, <2>5, <2>6, <2>7, <2>8, <2>9 DEF IInv
<1> QED
  BY <1>1, <1>2, <1>3, <1>4, <1>5, <1>6, <1>7 DEF Next, Together

LEMMA InductiveInvariant == Spec => []IInv
<1> QED
  BY InitEstablishes, NextPreserves, PTL DEF Spec

-----------------------------------------------------------------------------
(***************************************************************************)
(* The theorems.                                                           *)
(***************************************************************************)
\* The program counters, the messages and what is waited for have their type.
THEOREM TypeCorrect == Spec => []TypeOK
<1>1. ASSUME IInv PROVE TypeOK
  <2>1. ASSUME NEW r \in Rank, NEW w \in todo[r]
        PROVE  w.src \in Rank /\ w.dst = r
    <3>1. pc[r] = "receive" /\ w \in Receives(r)
      BY <1>1 DEF IInv, TodoIsOpen
    <3> QED
      BY <1>1, <3>1, Exchange, ReceiveIsSent
  <2> QED
    BY <1>1, <2>1 DEF TypeOK, IInv, Types, InScript, SentIsExpected
<1> QED
  BY <1>1, InductiveInvariant, PTL

\* For all sizes the program copies between (JobsAssumption) and any number of
\* ranks, with or without planes: a plane a rank waits for is on its way to
\* it, or its owner has yet to send it, to this rank and with this tag
\* (FourierInterpolateCopyTo, update_ghosts_allow_multiple).
THEOREM ReceivesHaveTheirSends == Spec => []EveryReceiveHasItsSend
<1>1. ASSUME IInv PROVE EveryReceiveHasItsSend
  <2>1. SUFFICES ASSUME NEW r \in Rank, NEW w \in todo[r]
        PROVE  \/ \E m \in net : m.src = w.src /\ m.dst = r /\ m.tag = w.tag
               \/ pc[w.src] = "send" /\ \E m \in Sends(w.src) : m.dst = r /\ m.tag = w.tag
    BY DEF EveryReceiveHasItsSend
  <2>2. pc[r] = "receive" /\ w \in Receives(r)
    BY <1>1 DEF IInv, TodoIsOpen
  <2>3. Exchanging /\ \A q \in Rank : pc[q] \in {"send", "receive"}
    BY <1>1, <2>2, Exchange
  <2>4. w.dst = r /\ w.src \in Rank /\ \E m \in Sends(w.src) : Match(w, m)
    BY <2>2, <2>3, ReceiveIsSent
  <2>5. CASE pc[w.src] = "send"
    BY <2>4, <2>5 DEF Match
  <2>6. CASE pc[w.src] = "receive"
    <3>1. \E m \in net : Match(w, m)
      BY <1>1, <2>6 DEF IInv, ExpectedIsSent
    <3> QED
      BY <2>4, <3>1 DEF Match
  <2> QED
    BY <2>3, <2>4, <2>5, <2>6
<1> QED
  BY <1>1, InductiveInvariant, PTL

\* Every message of an exchange is taken before a rank passes its barrier,
\* so none is mistaken for one of the next exchange.
THEOREM NoMessageIsLeftBehind == Spec => []NothingLeftBehind
<1>1. ASSUME IInv PROVE NothingLeftBehind
  BY <1>1, NetIsEmpty DEF NothingLeftBehind
<1> QED
  BY <1>1, InductiveInvariant, PTL

-----------------------------------------------------------------------------
(***************************************************************************)
(* Ghost planes.                                                           *)
(***************************************************************************)
\* The plane that belongs in the i-th place on a side of the slab of r.
Wanted(r, side, i) ==
  GhostPlane(side, i, local_start(job.n, r), local_size(job.n, r), job.n, job.m)

SideOfStep == IF step = 1 THEN "right" ELSE "left"

\* The plane has come: in the step before, or in this one.
Arrived(r, side, i) ==
  \/ side = "right" /\ step = 2
  \/ /\ side = SideOfStep
     /\ \/ pc[r] \in {"wait", "leave", "done"}
        \/ pc[r] = "receive" /\ \A w \in todo[r] : w.turn # i

GhostTypes == ghost \in [Rank -> [Sides -> [0 .. job.m - 1 -> Int]]]

GhostsArrive ==
  job.op = "ghosts" =>
    \A r \in Rank, side \in Sides, i \in 0 .. job.m - 1 :
      Arrived(r, side, i) => ghost[r][side][i] = Wanted(r, side, i)

GInv == IInv /\ GhostTypes /\ GhostsArrive

\* A job that is not about ghost zones has no step that fills them.
LEMMA GhostJob ==
  ASSUME InScript
  PROVE  job.op = "ghosts" <=> Now.kind = "ghosts"
<1>1. job.op = "ghosts" => Now.kind = "ghosts"
  BY DEF Now, Script, Ghosts, InScript, Length
<1> QED
  BY <1>1, GhostStep

LEMMA GInit == Init => GInv
<1>1. SUFFICES ASSUME Init PROVE GInv
  OBVIOUS
<1>2. GhostTypes
  BY <1>1 DEF Init, GhostTypes, NoPlane
<1>3. GhostsArrive
  BY <1>1 DEF Init, GhostsArrive, Arrived
<1> QED
  BY <1>1, <1>2, <1>3, InitEstablishes DEF GInv

\* Steps in which no plane is stored: it is enough that no plane arrives.
LEMMA NothingStored ==
  ASSUME GInv, UNCHANGED <<job, ghost>>,
         job.op = "ghosts" =>
           \A r \in Rank, side \in Sides, i \in 0 .. job.m - 1 :
             Arrived(r, side, i)' => Arrived(r, side, i)
  PROVE  GhostTypes' /\ GhostsArrive'
<1>1. GhostTypes'
  BY DEF GInv, GhostTypes
<1>2. \A r, side, i : Wanted(r, side, i)' = Wanted(r, side, i)
  BY DEF Wanted
<1>3. SUFFICES ASSUME job.op = "ghosts", NEW r \in Rank, NEW side \in Sides,
                      NEW i \in 0 .. job.m - 1, Arrived(r, side, i)'
               PROVE  ghost'[r][side][i] = Wanted(r, side, i)'
  BY <1>1 DEF GhostsArrive
<1>4. ghost[r][side][i] = Wanted(r, side, i)
  BY <1>3 DEF GInv, GhostsArrive
<1> QED
  BY <1>2, <1>4

\* The ranks go on when the planes of a side have come.
LEMMA GhostNextStep ==
  ASSUME GInv, UNCHANGED <<job, ghost, todo>>, NextStep,
         job.op = "ghosts" =>
           \A r \in Rank, i \in 0 .. job.m - 1 : Arrived(r, SideOfStep, i)
  PROVE  GhostTypes' /\ GhostsArrive'
<1>1. SUFFICES ASSUME job.op = "ghosts", NEW r \in Rank, NEW side \in Sides,
                      NEW i \in 0 .. job.m - 1, Arrived(r, side, i)'
               PROVE  Arrived(r, side, i)
  BY NothingStored
<1>2. step \in 1 .. 2 /\ Length(job) = 2
  BY <1>1 DEF GInv, IInv, Types, InScript, Length
<1>3. CASE step = 1
  <2>1. step' = 2 /\ pc'[r] = "enter"
    BY <1>2, <1>3 DEF NextStep
  <2>2. side = "right"
    BY <1>1, <2>1 DEF Arrived
  <2> QED
    BY <1>1, <1>3, <2>2 DEF SideOfStep
<1>4. CASE step = 2
  <2>1. side \in {"right", "left"}
    BY DEF Sides
  <2> QED
    BY <1>1, <1>4, <2>1 DEF SideOfStep, Arrived
<1> QED
  BY <1>2, <1>3, <1>4

LEMMA GhostRecv ==
  ASSUME GInv, NEW r \in Rank, Recv(r)
  PROVE  GhostTypes' /\ GhostsArrive'
<1>1. PICK v \in InProgress(r), k \in net :
        /\ k.src = v.src /\ k.dst = r /\ k.tag = v.tag
        /\ net' = net \ {k}
        /\ todo' = [todo EXCEPT ![r] = @ \ {v}]
        /\ Now.kind = "copy" => UNCHANGED ghost
        /\ Now.kind # "copy" => ghost' = [ghost EXCEPT ![r][Now.side][v.turn] = k.plane]
  BY DEF Recv
<1>2. pc[r] = "receive" /\ UNCHANGED <<job, step, pc>> /\ v \in todo[r]
  BY DEF Recv, InProgress
<1>3. Exchanging /\ InScript /\ v \in Receives(r)
  BY <1>2, Exchange DEF GInv, IInv, TodoIsOpen, Exchanging
<1>4. CASE job.op # "ghosts"
  <2>1. UNCHANGED ghost
    BY <1>1, <1>3, <1>4, GhostJob DEF Exchanging
  <2> QED
    BY <1>2, <1>4, <2>1, NothingStored
<1>5. CASE job.op = "ghosts"
  <2>1. /\ Now.kind = "ghosts" /\ step \in 1 .. 2
        /\ Now = Ghosts(IF step = 1 THEN "right" ELSE "left")
        /\ Now.side \in Sides /\ job.n \in Nat \ {0} /\ job.m \in 1 .. job.n
    BY <1>3, <1>5, GhostJob, GhostStep
  <2>2. Now.side = SideOfStep
    BY <2>1 DEF Ghosts, SideOfStep
  <2>3. v.turn \in 0 .. job.m - 1 /\ v.tag = Wanted(r, SideOfStep, v.turn)
    BY <1>3, <2>1, <2>2 DEF Receives, GhostReceives, Wanted
  <2>4. k \in Sends(k.src) /\ k.src \in Rank
    BY <1>1 DEF GInv, IInv, SentIsExpected
  <2>5. k.plane = k.tag
    BY <2>1, <2>4 DEF Sends, GhostSends
  <2>6. k.plane = Wanted(r, SideOfStep, v.turn)
    BY <1>1, <2>3, <2>5
  <2>7. Wanted(r, SideOfStep, v.turn) \in Int
    BY <2>1, <2>2, <2>3, GhostPlaneAgrees DEF Wanted
  <2>8. ghost' = [ghost EXCEPT ![r][SideOfStep][v.turn] = k.plane]
    BY <1>1, <2>1, <2>2
  <2>9. SideOfStep \in Sides
    BY <2>1, <2>2
  <2>10. /\ ghost' \in [Rank -> [Sides -> [0 .. job.m - 1 -> Int]]]
         /\ ghost'[r][SideOfStep][v.turn] = k.plane
         /\ \A q \in Rank, side \in Sides, i \in 0 .. job.m - 1 :
              q # r \/ side # SideOfStep \/ i # v.turn => ghost'[q][side][i] = ghost[q][side][i]
    <3> DEFINE e == SideOfStep
               D == 0 .. job.m - 1
               x == k.plane
               j == v.turn
    <3>1. /\ ghost \in [Rank -> [Sides -> [D -> Int]]]
          /\ e \in Sides /\ j \in D /\ x \in Int
          /\ ghost' = [ghost EXCEPT ![r][e][j] = x]
      BY <2>3, <2>6, <2>7, <2>8, <2>9 DEF GInv, GhostTypes
    <3> HIDE DEF e, D, x, j
    <3>2. /\ ghost' \in [Rank -> [Sides -> [D -> Int]]]
          /\ ghost'[r][e][j] = x
          /\ \A q \in Rank, side \in Sides, i \in D :
               q # r \/ side # e \/ i # j => ghost'[q][side][i] = ghost[q][side][i]
      <4> DEFINE row == [ghost[r][e] EXCEPT ![j] = x]
                 rows == [ghost[r] EXCEPT ![e] = row]
      <4>1. row \in [D -> Int] /\ row[j] = x /\ \A i \in D : i # j => row[i] = ghost[r][e][i]
        BY <3>1
      <4>2. ghost' = [ghost EXCEPT ![r] = rows]
        BY <3>1
      <4> HIDE DEF row
      <4>3. /\ rows \in [Sides -> [D -> Int]] /\ rows[e] = row
            /\ \A side \in Sides : side # e => rows[side] = ghost[r][side]
        BY <3>1, <4>1
      <4> HIDE DEF rows
      <4>4. /\ ghost' \in [Rank -> [Sides -> [D -> Int]]] /\ ghost'[r] = rows
            /\ \A q \in Rank : q # r => ghost'[q] = ghost[q]
        BY <3>1, <4>2, <4>3
      <4>5. ghost'[r][e][j] = x
        BY <4>1, <4>3, <4>4
      <4>6. ASSUME NEW q \in Rank, NEW side \in Sides, NEW i \in D,
                   q # r \/ side # e \/ i # j
            PROVE  ghost'[q][side][i] = ghost[q][side][i]
        <5>1. CASE q # r
          BY <4>4, <5>1
        <5>2. CASE q = r /\ side # e
          BY <4>3, <4>4, <5>2
        <5>3. CASE q = r /\ side = e /\ i # j
          BY <4>1, <4>3, <4>4, <5>3
        <5> QED
          BY <4>6, <5>1, <5>2, <5>3
      <4> QED
        BY <4>4, <4>5, <4>6
    <3> QED
      BY <3>2 DEF e, D, x, j
  <2>11. GhostTypes'
    BY <1>2, <2>10 DEF GhostTypes
  <2>12. \A q, side, i : Wanted(q, side, i)' = Wanted(q, side, i)
    BY <1>2 DEF Wanted
  <2>13. \A q \in Rank : todo[q] \subseteq todo'[q] \cup {v}
    BY <1>1 DEF GInv, IInv, Types
  <2>14. \A q \in Rank : q # r => todo'[q] = todo[q]
    BY <1>1 DEF GInv, IInv, Types
  <2>15. ASSUME NEW q \in Rank, NEW side \in Sides, NEW i \in 0 .. job.m - 1,
                Arrived(q, side, i)'
         PROVE  ghost'[q][side][i] = Wanted(q, side, i)
    <3>1. CASE q = r /\ side = SideOfStep /\ i = v.turn
      BY <2>6, <2>10, <3>1
    <3>2. CASE q # r \/ side # SideOfStep \/ i # v.turn
      <4>1. Arrived(q, side, i)
        BY <1>2, <2>13, <2>14, <2>15, <3>2 DEF Arrived, SideOfStep
      <4>2. ghost[q][side][i] = Wanted(q, side, i)
        BY <1>5, <4>1 DEF GInv, GhostsArrive
      <4> QED
        BY <2>10, <3>2, <4>2
    <3> QED
      BY <3>1, <3>2
  <2> QED
    BY <1>2, <2>11, <2>12, <2>15 DEF GhostsArrive
<1> QED
  BY <1>4, <1>5

LEMMA GNext == GInv /\ [Next]_vars => GInv'
<1>1. SUFFICES ASSUME GInv, [Next]_vars PROVE GhostTypes' /\ GhostsArrive'
  BY NextPreserves DEF GInv
<1>2. CASE EnterCopy \/ EnterGhosts \/ UNCHANGED vars
  <2>1. UNCHANGED <<job, ghost, step, todo>>
    BY <1>2 DEF EnterCopy, EnterGhosts, vars
  <2>2. pc' = [r \in Rank |-> "send"] \/ UNCHANGED pc
    BY <1>2 DEF EnterCopy, EnterGhosts, vars
  <2>3. \A r \in Rank, side \in Sides, i \in 0 .. job.m - 1 :
          Arrived(r, side, i)' => Arrived(r, side, i)
    BY <2>1, <2>2 DEF Arrived, SideOfStep
  <2> QED
    BY <1>1, <2>1, <2>3, NothingStored
<1>3. CASE CopyFrom \/ Multiply
  <2>1. job.op # "ghosts"
    <3>1. InScript /\ Now.kind # "ghosts"
      BY <1>1, <1>3 DEF CopyFrom, Multiply, GInv, IInv, Types
    <3> QED
      BY <3>1, GhostJob
  <2>2. UNCHANGED <<job, ghost, todo>> /\ NextStep
    BY <1>3 DEF CopyFrom, Multiply
  <2> QED
    BY <1>1, <2>1, <2>2, GhostNextStep
<1>4. CASE Flush
  <2>1. \A r \in Rank : pc[r] = "receive" /\ todo[r] = {}
    BY <1>4 DEF Flush
  <2>2. \A r \in Rank, i \in 0 .. job.m - 1 : Arrived(r, SideOfStep, i)
    BY <2>1 DEF Arrived
  <2>3. UNCHANGED <<job, ghost, todo>>
    BY <1>4 DEF Flush
  <2>4. CASE NextStep
    BY <1>1, <2>2, <2>3, <2>4, GhostNextStep
  <2>5. CASE ~NextStep
    <3>1. pc' = [r \in Rank |-> "wait"] /\ UNCHANGED step
      BY <1>4, <2>5 DEF Flush
    <3>2. \A r \in Rank, side \in Sides, i \in 0 .. job.m - 1 :
            Arrived(r, side, i)' => Arrived(r, side, i)
      BY <2>2, <2>3, <3>1 DEF Arrived, SideOfStep
    <3> QED
      BY <1>1, <2>3, <3>2, NothingStored
  <2> QED
    BY <2>4, <2>5
<1>5. CASE Leave
  <2>1. NextStep /\ UNCHANGED <<job, ghost, todo>> /\ \A r \in Rank : pc[r] = "leave"
    BY <1>5 DEF Leave, AllAt
  <2>2. \A r \in Rank, i \in 0 .. job.m - 1 : Arrived(r, SideOfStep, i)
    BY <2>1 DEF Arrived
  <2> QED
    BY <1>1, <2>1, <2>2, GhostNextStep
<1>6. ASSUME NEW q \in Rank, Isend(q)
      PROVE  GhostTypes' /\ GhostsArrive'
  <2>1. /\ pc[q] = "send" /\ pc' = [pc EXCEPT ![q] = "receive"]
        /\ todo' = [todo EXCEPT ![q] = Receives(q)]
        /\ UNCHANGED <<job, step, ghost>>
    BY <1>6 DEF Isend
  <2>2. SUFFICES ASSUME job.op = "ghosts", NEW r \in Rank, NEW side \in Sides,
                        NEW i \in 0 .. job.m - 1, Arrived(r, side, i)'
                 PROVE  Arrived(r, side, i)
    BY <1>1, <2>1, NothingStored
  <2>3. /\ pc'[q] = "receive" /\ todo'[q] = Receives(q)
        /\ \A u \in Rank : u # q => pc'[u] = pc[u] /\ todo'[u] = todo[u]
    BY <1>1, <2>1 DEF GInv, IInv, Types
  <2>4. CASE r = q
    <3>1. InScript
      BY <1>1 DEF GInv, IInv, Types
    <3>2. Now.kind = "ghosts" /\ Now.side = SideOfStep
      <4>1. Now.kind = "ghosts"
        BY <2>2, <3>1, GhostJob
      <4>2. Now = Ghosts(SideOfStep)
        BY <3>1, <4>1, GhostStep DEF SideOfStep
      <4> QED
        BY <4>1, <4>2 DEF Ghosts
    <3>3. \E w \in Receives(q) : w.turn = i
      <4> DEFINE g == Wanted(q, SideOfStep, i)
                 w == [src |-> get_task(g, offsets(job.n)), dst |-> q, tag |-> g, turn |-> i]
      <4>1. w \in Receives(q)
        BY <2>2, <3>2 DEF Receives, GhostReceives, Wanted
      <4>2. w.turn = i
        OBVIOUS
      <4> QED
        BY <4>1, <4>2
    <3> QED
      BY <2>1, <2>2, <2>3, <2>4, <3>3 DEF Arrived, SideOfStep
  <2>5. CASE r # q
    BY <2>1, <2>2, <2>3, <2>5 DEF Arrived, SideOfStep
  <2> QED
    BY <2>4, <2>5
<1>7. ASSUME NEW q \in Rank, WaitAll(q)
      PROVE  GhostTypes' /\ GhostsArrive'
  <2>1. /\ pc[q] = "wait" /\ pc' = [pc EXCEPT ![q] = "leave"]
        /\ UNCHANGED <<job, step, todo, ghost>>
    BY <1>7 DEF WaitAll
  <2>2. \A r \in Rank, side \in Sides, i \in 0 .. job.m - 1 :
          Arrived(r, side, i)' => Arrived(r, side, i)
    BY <1>1, <2>1 DEF Arrived, SideOfStep, GInv, IInv, Types
  <2> QED
    BY <1>1, <2>1, <2>2, NothingStored
<1> QED
  BY <1>1, <1>2, <1>3, <1>4, <1>5, <1>6, <1>7, GhostRecv DEF Next, Together, RankStep

\* The planes a rank reads around its slab are those next to it in the
\* periodic box, for any number of ranks, also if a slab is thinner than its
\* ghost zone, has no planes, or is its own neighbour
\* (grid_with_ghosts::update_ghosts_allow_multiple, relem).
THEOREM GhostPlanesAreNeighbours == Spec => []GhostsAreNeighbours
<1>1. ASSUME GInv PROVE GhostsAreNeighbours
  <2>1. SUFFICES ASSUME AllAt("done"), job.op = "ghosts", NEW r \in Rank,
                        NEW x \in -job.m .. local_size(job.n, r) + job.m - 1
                 PROVE  relem(r, x) = (local_start(job.n, r) + x + job.n) % job.n
    BY DEF GhostsAreNeighbours
  <2> DEFINE n == job.n
             f == local_start(n, r)
             s == local_size(n, r)
  <2>2. InScript /\ job.n \in Nat \ {0} /\ job.m \in 1 .. job.n /\ r \in Nat
    BY <1>1, <2>1, JobFacts, RanksPositive DEF GInv, IInv, Types, InScript, Rank
  <2>3. f \in Nat /\ s \in Nat
    <3>1. local_start(n, r) \in Nat /\ local_size(n, r) \in 0 .. Block(n)
      BY <2>2, SlabBounds
    <3>2. Block(n) \in Nat
      BY <2>2, BlockFacts
    <3> QED
      BY <3>1, <3>2
  <2>4. step = 2
    <3>1. Length(job) = 2
      BY <2>1 DEF Length
    <3>2. pc[r] = "done"
      BY <2>1 DEF AllAt
    <3> QED
      BY <1>1, <3>1, <3>2 DEF GInv, IInv, InPhase, AllAt
  <2>5. ASSUME NEW side \in Sides, NEW i \in 0 .. job.m - 1
        PROVE  ghost[r][side][i] = GhostPlane(side, i, f, s, n, job.m)
    <3>1. Arrived(r, side, i)
      BY <2>1, <2>4 DEF Arrived, SideOfStep, AllAt, Sides
    <3> QED
      BY <1>1, <2>1, <3>1 DEF GInv, GhostsArrive, Wanted
  <2>6. CASE x < 0
    <3>1. x + job.m \in 0 .. job.m - 1 /\ "left" \in Sides
      BY <2>2, <2>3, <2>6 DEF Sides
    <3>2. relem(r, x) = (f + n - job.m + (x + job.m)) % n
      BY <2>5, <2>6, <3>1 DEF relem, GhostPlane
    <3>3. f + n - job.m + (x + job.m) = f + x + n
      BY <2>2, <2>3
    <3> QED
      BY <3>2, <3>3
  <2>7. CASE x >= s
    <3>1. x - s \in 0 .. job.m - 1 /\ "right" \in Sides /\ ~(x < 0)
      BY <2>2, <2>3, <2>7 DEF Sides
    <3>2. relem(r, x) = (f + s + (x - s)) % n
      BY <2>5, <2>7, <3>1 DEF relem, GhostPlane
    <3>3. f + s + (x - s) = f + x /\ f + x \in Int
      BY <2>2, <2>3
    <3>4. (f + x + n) % n = (f + x) % n
      BY <2>2, <3>3, ModShift
    <3> QED
      BY <3>2, <3>3, <3>4
  <2>8. CASE 0 <= x /\ x < s
    <3>1. r * Block(n) \in Nat /\ r * Block(n) < n
      <4>1. r * Block(n) \in Nat /\ (r * Block(n) >= n => s = 0)
        BY <2>2, SlabBounds
      <4> QED
        BY <2>2, <2>3, <2>8, <4>1
    <3>2. f = r * Block(n) /\ f + s = Smaller((r + 1) * Block(n), n)
      BY <2>2, <3>1, SlabBounds
    <3>3. offsets(n)[r] = f
      <4>1. r \in 0 .. NumRanks
        BY RanksPositive DEF Rank
      <4> QED
        BY <2>2, <3>1, <3>2, <4>1, OffsetsAre DEF Smaller
    <3>4. f + x \in 0 .. n - 1
      <4>1. (r + 1) * Block(n) \in Int
        <5>1. (r + 1) * Block(n) = r * Block(n) + Block(n)
          BY <2>2, SlabBounds
        <5>2. Block(n) \in Nat
          BY <2>2, BlockFacts
        <5> QED
          BY <3>1, <5>1, <5>2
      <4> QED
        BY <2>2, <2>3, <2>8, <3>2, <4>1 DEF Smaller
    <3>5. relem(r, x) = f + x
      BY <2>2, <2>3, <2>8, <3>3 DEF relem
    <3>6. (f + x + n) % n = f + x
      <4> DEFINE k == f + x
      <4>1. k \in 0 .. n - 1 /\ k + n = 1 * n + k /\ k + n \in Int /\ n \in Nat \ {0}
        BY <2>2, <3>4
      <4> HIDE DEF k, n
      <4>2. (k + n) % n = k
        BY <4>1, ModIs
      <4> QED
        BY <4>2 DEF k
    <3> QED
      BY <3>5, <3>6
  <2> QED
    BY <2>2, <2>3, <2>6, <2>7, <2>8
<1>2. Spec => []GInv
  BY GInit, GNext, PTL DEF Spec
<1> QED
  BY <1>1, <1>2, PTL

-----------------------------------------------------------------------------
(***************************************************************************)
(* The convolutions and copies: they are free of aliases, by Orszag's 3/2  *)
(* rule as the code carries it out plane by plane, and lose no mode that   *)
(* the destination resolves.                                               *)
(***************************************************************************)

(***************************************************************************)
(* Wave numbers.                                                           *)
(***************************************************************************)
\* Index p of a grid of n cells has a wave number that a grid of k cells
\* resolves.
Below(p, n, k) == 2 * Wave(p, n) < k /\ -2 * Wave(p, n) < k

LEMMA WaveType ==
  ASSUME NEW n \in Nat \ {0}, NEW p \in 0 .. n - 1
  PROVE  Wave(p, n) \in Int
BY DEF Wave

LEMMA AllBelow ==
  ASSUME NEW n \in Nat \ {0}, NEW p \in 0 .. n - 1
  PROVE  Below(p, n, n + 1)
BY DEF Below, Wave

\* What a copy moves keeps its wave number, which both grids resolve.
LEMMA WaveIsKept ==
  ASSUME NEW from \in Nat \ {0}, NEW to \in Nat \ {0}, Copyable(from, to),
         NEW q \in 0 .. to - 1, IsReceived(q, from, to)
  PROVE  /\ Wave(SendIndex(q, from, to), from) = Wave(q, to)
         /\ Below(q, to, Smaller(from, to))
         /\ Below(SendIndex(q, from, to), from, Smaller(from, to))
BY SizesDoNotWrap DEF IsReceived, SendIndex, fny_left, Smaller, Larger, Wave, Below, Copyable

LEMMA PaddedIs ==
  ASSUME NEW n \in Nat \ {0}, n % 2 = 0
  PROVE  Padded(n) \in Nat \ {0} /\ 2 * Padded(n) = 3 * n /\ n < Padded(n)
BY DEF Padded

LEMMA Wrapped ==
  ASSUME NEW n \in Nat \ {0}, NEW x \in 0 .. 2 * n - 1
  PROVE  x % n = (IF x < n THEN x ELSE x - n)
<1>1. CASE x < n
  <2>1. x \in 0 .. n - 1 /\ x = 0 * n + x
    BY <1>1
  <2> QED
    BY <1>1, <2>1, ModIs
<1>2. CASE ~(x < n)
  <2>1. x - n \in 0 .. n - 1 /\ x = 1 * n + (x - n)
    BY <1>2
  <2> QED
    BY <1>2, <2>1, ModIs
<1> QED
  BY <1>1, <1>2

\* Two resolved wave numbers add up to a resolved one, or to one that the
\* padded grid keeps apart from all resolved ones.
LEMMA NoWrapAround ==
  ASSUME NEW n \in Nat \ {0}, n % 2 = 0,
         NEW p \in 0 .. Padded(n) - 1, NEW c \in 0 .. Padded(n) - 1,
         Below(p, Padded(n), n), Below(c, Padded(n), n),
         Below((p - c + Padded(n)) % Padded(n), Padded(n), n)
  PROVE  Wave(c, Padded(n)) + Wave((p - c + Padded(n)) % Padded(n), Padded(n)) = Wave(p, Padded(n))
<1> DEFINE N == Padded(n)
           d == (p - c + N) % N
<1>1. N \in Nat \ {0} /\ 2 * N = 3 * n
  BY PaddedIs
<1>2. d = IF p - c + N < N THEN p - c + N ELSE p - c
  <2> DEFINE x == p - c + N
  <2>1. x \in 0 .. 2 * N - 1
    BY <1>1
  <2> HIDE DEF N, x
  <2>2. x % N = IF x < N THEN x ELSE x - N
    BY <1>1, <2>1, Wrapped
  <2> QED
    BY <1>1, <2>2 DEF N, x
<1>3. Below(p, N, n) /\ Below(c, N, n) /\ Below(d, N, n) /\ p \in 0 .. N - 1 /\ c \in 0 .. N - 1
  OBVIOUS
<1> HIDE DEF N, d
<1>4. Wave(c, N) + Wave(d, N) = Wave(p, N)
  BY <1>1, <1>2, <1>3 DEF Below, Wave
<1> QED
  BY <1>4 DEF N, d

-----------------------------------------------------------------------------
(***************************************************************************)
(* Fields.                                                                 *)
(***************************************************************************)
\* A field on a grid of n^3.
IsField(f, n) ==
  /\ f = [p \in 0 .. n - 1 |-> f[p]]
  /\ \A p \in 0 .. n - 1 : f[p] = [q \in 0 .. n - 1 |-> f[p][q]]

\* A cell holds its own wave number or nothing.
Own(x, p, q, n) == x \subseteq {<<Wave(p, n), Wave(q, n)>>}

\* No cell holds an alias, and only cells below k hold anything.
Padding(f, n, k) ==
  /\ IsField(f, n)
  /\ \A p, q \in 0 .. n - 1 :
       /\ Own(f[p][q], p, q, n)
       /\ f[p][q] # {} => Below(p, n, k) /\ Below(q, n, k)

\* No cell holds an alias: every cell of a grid of n^3 is below n + 1.
Clean(f, n) == Padding(f, n, n + 1)

\* No cell below k holds an alias.
Unpadable(f, n, k) ==
  /\ IsField(f, n)
  /\ \A p, q \in 0 .. n - 1 :
       Below(p, n, k) /\ Below(q, n, k) => Own(f[p][q], p, q, n)

LEMMA CleanIs ==
  ASSUME NEW n \in Nat \ {0}, NEW f, IsField(f, n),
         \A p, q \in 0 .. n - 1 : Own(f[p][q], p, q, n)
  PROVE  Clean(f, n)
BY AllBelow DEF Clean, Padding

LEMMA PaddingIsUnpadable ==
  ASSUME NEW n, NEW f, NEW k, NEW j, Padding(f, n, j)
  PROVE  Unpadable(f, n, k)
BY DEF Padding, Unpadable

LEMMA ZeroIsPadding ==
  ASSUME NEW n \in Nat \ {0}, NEW k
  PROVE  Padding(Zero(n), n, k)
BY DEF Zero, Padding, IsField, Own

LEMMA KernelIsClean ==
  ASSUME NEW n \in Nat \ {0}
  PROVE  Clean(Kernel(n), n)
<1>1. IsField(Kernel(n), n) /\ \A p, q \in 0 .. n - 1 : Own(Kernel(n)[p][q], p, q, n)
  BY DEF Kernel, IsField, Own
<1> QED
  BY <1>1, CleanIs

\* A row that a copy moves holds no alias, if its source holds none below
\* the Nyquist frequency of both grids.
LEMMA CopiedRow ==
  ASSUME NEW from \in Nat \ {0}, NEW to \in Nat \ {0}, Copyable(from, to),
         NEW f, Unpadable(f, from, Smaller(from, to)),
         NEW p \in 0 .. to - 1, IsReceived(p, from, to), NEW q \in 0 .. to - 1
  PROVE  LET x == CopyRow(f[SendIndex(p, from, to)], from, to)[q] IN
         /\ Own(x, p, q, to)
         /\ x # {} => Below(p, to, Smaller(from, to)) /\ Below(q, to, Smaller(from, to))
<1> DEFINE x == CopyRow(f[SendIndex(p, from, to)], from, to)[q]
<1>1. x = IF IsReceived(q, from, to) THEN f[SendIndex(p, from, to)][SendIndex(q, from, to)] ELSE {}
  BY DEF CopyRow
<1>2. CASE ~IsReceived(q, from, to)
  BY <1>1, <1>2 DEF Own
<1>3. CASE IsReceived(q, from, to)
  <2> DEFINE a == SendIndex(p, from, to)
             b == SendIndex(q, from, to)
             k == Smaller(from, to)
  <2>1. /\ a \in 0 .. from - 1 /\ b \in 0 .. from - 1
        /\ Wave(a, from) = Wave(p, to) /\ Wave(b, from) = Wave(q, to)
        /\ Below(a, from, k) /\ Below(b, from, k) /\ Below(p, to, k) /\ Below(q, to, k)
    BY <1>3, ReceivedIsSent, WaveIsKept
  <2>2. x = f[a][b] /\ Unpadable(f, from, k)
    BY <1>1, <1>3
  <2> HIDE DEF a, b, k, x
  <2>3. Own(x, p, q, to)
    BY <2>1, <2>2 DEF Unpadable, Own
  <2> QED
    BY <2>1, <2>3 DEF k, x
<1> QED
  BY <1>2, <1>3

\* Storing such a row.
LEMMA RowIsStored ==
  ASSUME NEW n \in Nat \ {0}, NEW f, NEW k, Padding(f, n, k),
         NEW p \in 0 .. n - 1, NEW row, row = [q \in 0 .. n - 1 |-> row[q]],
         \A q \in 0 .. n - 1 :
           Own(row[q], p, q, n) /\ (row[q] # {} => Below(p, n, k) /\ Below(q, n, k))
  PROVE  Padding([f EXCEPT ![p] = row], n, k)
<1> DEFINE g == [f EXCEPT ![p] = row]
<1>1. /\ g = [a \in 0 .. n - 1 |-> g[a]] /\ g[p] = row
      /\ \A a \in 0 .. n - 1 : a # p => g[a] = f[a]
  BY DEF Padding, IsField
<1> HIDE DEF g
<1>2. \A a \in 0 .. n - 1 : g[a] = [q \in 0 .. n - 1 |-> g[a][q]]
  BY <1>1 DEF Padding, IsField
<1>3. \A a, b \in 0 .. n - 1 :
        Own(g[a][b], a, b, n) /\ (g[a][b] # {} => Below(a, n, k) /\ Below(b, n, k))
  BY <1>1 DEF Padding
<1>4. Padding(g, n, k)
  BY <1>1, <1>2, <1>3 DEF Padding, IsField
<1> QED
  BY <1>4 DEF g

\* The product of two padded fields.
LEMMA ProductIsUnpadable ==
  ASSUME NEW n \in Nat \ {0}, n % 2 = 0, NEW f, NEW g,
         Padding(f, Padded(n), n), Padding(g, Padded(n), n)
  PROVE  Unpadable(Times(f, g, Padded(n)), Padded(n), n)
<1> DEFINE N == Padded(n)
           h == Times(f, g, N)
           held == {c \in (0 .. N - 1) \X (0 .. N - 1) : f[c[1]][c[2]] # {}}
           Cell(p, q) ==
             UNION {{<<x[1] + y[1], x[2] + y[2]>> :
                       x \in f[c[1]][c[2]],
                       y \in g[(p - c[1] + N) % N][(q - c[2] + N) % N]} : c \in held}
<1>1. N \in Nat \ {0}
  BY PaddedIs
<1>2. h = [p \in 0 .. N - 1 |-> [q \in 0 .. N - 1 |-> Cell(p, q)]]
  BY DEF Times
<1>3. IsField(h, N)
  <2> HIDE DEF N, Cell, h
  <2> QED
    BY <1>2 DEF IsField
<1>4. ASSUME NEW p \in 0 .. N - 1, NEW q \in 0 .. N - 1, Below(p, N, n), Below(q, N, n),
             NEW z \in Cell(p, q)
      PROVE  z = <<Wave(p, N), Wave(q, N)>>
  <2>1. PICK c \in held : \E x \in f[c[1]][c[2]],
                             y \in g[(p - c[1] + N) % N][(q - c[2] + N) % N] :
                             z = <<x[1] + y[1], x[2] + y[2]>>
    BY <1>4
  <2> DEFINE a == c[1]
             b == c[2]
             d == (p - c[1] + N) % N
             e == (q - c[2] + N) % N
  <2>2. PICK x \in f[a][b], y \in g[d][e] : z = <<x[1] + y[1], x[2] + y[2]>>
    BY <2>1
  <2>3. a \in 0 .. N - 1 /\ b \in 0 .. N - 1
    BY <2>1
  <2>4. d \in 0 .. N - 1 /\ e \in 0 .. N - 1
    <3> DEFINE u == p - c[1] + N
               v == q - c[2] + N
    <3>1. u \in Int /\ v \in Int
      BY <1>1, <2>3
    <3> HIDE DEF N, u, v
    <3>2. u % N \in 0 .. N - 1 /\ v % N \in 0 .. N - 1
      BY <1>1, <3>1
    <3> QED
      BY <3>2 DEF u, v, N
  <2>5. /\ Padding(f, N, n) /\ Padding(g, N, n)
        /\ x \in f[a][b] /\ y \in g[d][e]
    BY <2>2
  <2>6. /\ x = <<Wave(a, N), Wave(b, N)>> /\ y = <<Wave(d, N), Wave(e, N)>>
        /\ Below(a, N, n) /\ Below(b, N, n) /\ Below(d, N, n) /\ Below(e, N, n)
    <3> HIDE DEF N, a, b, d, e
    <3> QED
      BY <2>3, <2>4, <2>5 DEF Padding, Own
  <2>7. Wave(a, N) + Wave(d, N) = Wave(p, N) /\ Wave(b, N) + Wave(e, N) = Wave(q, N)
    BY <1>4, <2>3, <2>6, NoWrapAround
  <2> HIDE DEF N, a, b, d, e
  <2> QED
    BY <2>2, <2>6, <2>7
<1>5. ASSUME NEW p \in 0 .. N - 1, NEW q \in 0 .. N - 1, Below(p, N, n), Below(q, N, n)
      PROVE  Own(h[p][q], p, q, N)
  <2>1. \A z \in Cell(p, q) : z = <<Wave(p, N), Wave(q, N)>>
    BY <1>4, <1>5
  <2> HIDE DEF N, Cell, h
  <2>2. h[p][q] = Cell(p, q)
    BY <1>2
  <2> QED
    BY <2>1, <2>2 DEF Own
<1> HIDE DEF N, h
<1>6. Unpadable(h, N, n)
  BY <1>3, <1>5 DEF Unpadable
<1> QED
  BY <1>6 DEF N, h

-----------------------------------------------------------------------------
(***************************************************************************)
(* The convolutions of a script.                                           *)
(***************************************************************************)
Names == Inputs \cup {"f1p", "f2p", "fbuf", "out"}

\* A convolution is four steps of the script, which follow step b.
Bases == CASE job.op = "pair" -> {0} [] job.op = "triple" -> {0, 4} [] OTHER -> {}
First(b) == IF b = 0 THEN "k1" ELSE "fbuf"
Second(b) == IF b = 0 THEN "k2" ELSE "k3"
Outcome(b) == IF job.op = "triple" /\ b = 0 THEN "fbuf" ELSE "out"

\* The ranks have begun step i.
Past(i) == step > i \/ (step = i /\ ~AllAt("enter"))

LEMMA BasesAre ==
  ASSUME NEW b \in Bases, job \in Jobs
  PROVE  /\ b \in {0, 4} /\ (b = 4 => job.op = "triple")
         /\ job.op \in {"pair", "triple"} /\ job.n \in Nat \ {0} /\ job.n % 2 = 0
         /\ Length(job) \in {4, 8} /\ Length(job) >= b + 4
         /\ Bases \subseteq {0, 4}
<1>1. CASE job.op = "pair"
  BY <1>1, JobFacts, JobsAssumption DEF Bases, Length
<1>2. CASE job.op = "triple"
  BY <1>2, JobFacts, JobsAssumption DEF Bases, Length
<1> QED
  BY <1>1, <1>2 DEF Bases

LEMMA ScriptIs ==
  ASSUME InScript, NEW b \in Bases, NEW i \in 1 .. 4, step = b + i
  PROVE  Now = convolve2(job.n, First(b), Second(b), Outcome(b))[i]
<1>1. CASE job.op = "pair"
  BY <1>1, BasesAre DEF Bases, InScript, Now, Script, First, Second, Outcome
<1>2. CASE job.op = "triple"
  <2>1. step \in 1 .. 8 /\ Now = convolve3(job.n)[step]
    BY <1>2 DEF Now, Script, InScript, Length
  <2>2. CASE b = 0
    BY <1>2, <2>1, <2>2 DEF convolve3, First, Second, Outcome
  <2>3. CASE b = 4
    BY <1>2, <2>1, <2>3 DEF convolve3, First, Second, Outcome
  <2> QED
    BY <2>2, <2>3, BasesAre DEF InScript
<1> QED
  BY <1>1, <1>2, BasesAre DEF InScript

LEMMA StepsAre ==
  ASSUME InScript, NEW b \in Bases
  PROVE  /\ step = b + 1 => Now = Copy(First(b), job.n, "f1p", Padded(job.n))
         /\ step = b + 2 => Now = Copy(Second(b), job.n, "f2p", Padded(job.n))
         /\ step = b + 3 => Now = Product
         /\ step = b + 4 => Now = Copy("f2p", Padded(job.n), Outcome(b), job.n)
<1>1. step = b + 1 => Now = Copy(First(b), job.n, "f1p", Padded(job.n))
  BY ScriptIs DEF convolve2
<1>2. step = b + 2 => Now = Copy(Second(b), job.n, "f2p", Padded(job.n))
  BY ScriptIs DEF convolve2
<1>3. step = b + 3 => Now = Product
  BY ScriptIs DEF convolve2
<1>4. step = b + 4 => Now = Copy("f2p", Padded(job.n), Outcome(b), job.n)
  BY ScriptIs DEF convolve2
<1> QED
  BY <1>1, <1>2, <1>3, <1>4

LEMMA InConvolution ==
  ASSUME InScript, job.op \in {"pair", "triple"}
  PROVE  \E b \in Bases : step \in b + 1 .. b + 4
<1>1. CASE job.op = "pair"
  BY <1>1 DEF Bases, InScript, Length
<1>2. CASE job.op = "triple"
  <2>1. step \in 1 .. 8 /\ Bases = {0, 4}
    BY <1>2 DEF Bases, InScript, Length
  <2>2. step \in 0 + 1 .. 0 + 4 \/ step \in 4 + 1 .. 4 + 4
    BY <2>1
  <2> QED
    BY <2>1, <2>2
<1> QED
  BY <1>1, <1>2

LEMMA CopyJob ==
  ASSUME InScript, job.op = "copy"
  PROVE  /\ step = 1 /\ Length(job) = 1 /\ Now = Copy("k1", job.n, "out", job.m)
         /\ job.n \in Nat \ {0} /\ job.m \in Nat \ {0} /\ Bases = {}
BY JobFacts DEF InScript, Length, Now, Script, Bases

-----------------------------------------------------------------------------
(***************************************************************************)
(* The inductive invariant: what the fields hold in each step.             *)
(***************************************************************************)
\* The inputs stay as they are.
InputsClean ==
  /\ field = [x \in Names |-> field[x]]
  /\ \A x \in Inputs : Clean(field[x], job.n)

\* Both factors are padded, their product may be unpadded, the outcome is
\* clean; the product is taken in one step.
Convolved(b) ==
  /\ step = b + 3 => AllAt("enter")
  /\ (Past(b + 1) /\ step <= b + 3) => Padding(field["f1p"], Padded(job.n), job.n)
  /\ (Past(b + 2) /\ step <= b + 3) => Padding(field["f2p"], Padded(job.n), job.n)
  /\ step = b + 4 => Unpadable(field["f2p"], Padded(job.n), job.n)
  /\ Past(b + 4) => Clean(field[Outcome(b)], job.n)

FieldsHold ==
  /\ InputsClean
  /\ (job.op = "copy" /\ Past(1)) => Clean(field["out"], job.m)
  /\ \A b \in Bases : Convolved(b)

DInv == IInv /\ FieldsHold

\* What the destination of a copy is cut to.
Bound == IF job.op = "copy" \/ \E b \in Bases : step = b + 4 THEN Now.nb + 1 ELSE job.n

\* A copy reads a field without aliases below the smaller grid.
LEMMA Source ==
  ASSUME DInv, Now.kind = "copy"
  PROVE  /\ Unpadable(field[Now.a], Now.na, Smaller(Now.na, Now.nb))
         /\ Now.na \in Nat \ {0} /\ Now.nb \in Nat \ {0} /\ Now.a # Now.b
         /\ Copyable(Now.na, Now.nb) /\ Now.a \in Names /\ Now.b \in Names
         /\ Bound \in Nat /\ Smaller(Now.na, Now.nb) <= Bound
         /\ job.op # "copy" => Now.na # Now.nb
<1>0. Copyable(Now.na, Now.nb)
  BY CopyStep DEF DInv, IInv, Types, InScript
<1>1. InScript /\ job \in Jobs /\ job.op \in {"copy", "pair", "triple", "ghosts"}
  BY JobFacts DEF DInv, IInv, Types, InScript
<1>2. CASE job.op = "copy"
  <2>1. /\ Now = Copy("k1", job.n, "out", job.m)
        /\ job.n \in Nat \ {0} /\ job.m \in Nat \ {0}
    BY <1>1, <1>2, CopyJob
  <2>2. Now.a = "k1" /\ Now.na = job.n /\ Now.b = "out" /\ Now.nb = job.m
    BY <2>1 DEF Copy
  <2>3. Unpadable(field["k1"], job.n, Smaller(job.n, job.m))
    BY PaddingIsUnpadable DEF DInv, FieldsHold, InputsClean, Inputs, Clean
  <2>4. Bound = job.m + 1
    BY <1>2, <2>2 DEF Bound
  <2> QED
    BY <1>0, <1>2, <2>1, <2>2, <2>3, <2>4 DEF Names, Inputs, Smaller
<1>3. CASE job.op \in {"pair", "triple"}
  <2>1. PICK b \in Bases : step \in b + 1 .. b + 4
    BY <1>1, <1>3, InConvolution
  <2> DEFINE n == job.n
             N == Padded(job.n)
  <2>2. /\ b \in {0, 4} /\ n \in Nat \ {0} /\ N \in Nat \ {0} /\ n < N
        /\ job.op # "copy" /\ Bases \subseteq {0, 4}
    BY <1>1, <1>3, BasesAre, PaddedIs
  <2>3. step \in Nat /\ step > b /\ \A i \in Int : step > i => Past(i)
    <3>1. b \in Nat /\ step \in b + 1 .. b + 4
      BY <2>1, <2>2
    <3>2. ASSUME NEW i \in Int, step > i PROVE Past(i)
      BY <3>2 DEF Past
    <3> QED
      BY <3>1, <3>2
  <2>4. b = 4 => Clean(field["fbuf"], n)
    <3>1. SUFFICES ASSUME b = 4 PROVE Clean(field["fbuf"], n)
      OBVIOUS
    <3>2. job.op = "triple" /\ 0 \in Bases /\ Outcome(0) = "fbuf"
      BY <1>1, <3>1, BasesAre DEF Bases, Outcome
    <3>3. Past(0 + 4)
      BY <2>1, <2>3, <3>1
    <3> QED
      BY <3>2, <3>3 DEF DInv, FieldsHold, Convolved
  <2>5. /\ Clean(field[First(b)], n) /\ Clean(field[Second(b)], n)
        /\ {First(b), Second(b), Outcome(b)} \subseteq Names
        /\ First(b) # "f1p" /\ Second(b) # "f2p" /\ Outcome(b) # "f2p"
    BY <2>2, <2>4 DEF DInv, FieldsHold, InputsClean, Inputs, First, Second, Outcome, Names
  <2>6. CASE step = b + 1
    <3>1. Now.a = First(b) /\ Now.na = n /\ Now.b = "f1p" /\ Now.nb = N
      BY <1>1, <2>6, StepsAre DEF Copy
    <3>2. Bound = n
      BY <2>2, <2>6 DEF Bound
    <3> HIDE DEF n, N
    <3> QED
      BY <1>0, <2>2, <2>5, <3>1, <3>2, PaddingIsUnpadable DEF Names, Smaller, Clean
  <2>7. CASE step = b + 2
    <3>1. Now.a = Second(b) /\ Now.na = n /\ Now.b = "f2p" /\ Now.nb = N
      BY <1>1, <2>7, StepsAre DEF Copy
    <3>2. Bound = n
      BY <2>2, <2>7 DEF Bound
    <3> HIDE DEF n, N
    <3> QED
      BY <1>0, <2>2, <2>5, <3>1, <3>2, PaddingIsUnpadable DEF Names, Smaller, Clean
  <2>8. CASE step = b + 3
    BY <1>1, <2>8, StepsAre DEF Product
  <2>9. CASE step = b + 4
    <3>1. Now.a = "f2p" /\ Now.na = N /\ Now.b = Outcome(b) /\ Now.nb = n
      BY <1>1, <2>9, StepsAre DEF Copy
    <3>2. Bound = n + 1
      BY <2>2, <2>9, <3>1 DEF Bound
    <3>3. Unpadable(field["f2p"], N, n)
      BY <2>9 DEF DInv, FieldsHold, Convolved
    <3> HIDE DEF n, N
    <3> QED
      BY <1>0, <2>2, <2>5, <3>1, <3>2, <3>3 DEF Names, Smaller
  <2> QED
    BY <2>1, <2>2, <2>6, <2>7, <2>8, <2>9
<1>4. CASE job.op = "ghosts"
  BY <1>1, <1>4, GhostJob
<1> QED
  BY <1>1, <1>2, <1>3, <1>4

\* Once the ranks have begun, the destination is padded, or cleared already.
LEMMA Destination ==
  ASSUME DInv, Now.kind = "copy", ~AllAt("enter")
  PROVE  Padding(field[Now.b], Now.nb, Bound)
<1>1. InScript /\ job \in Jobs /\ job.op \in {"copy", "pair", "triple", "ghosts"}
  BY JobFacts DEF DInv, IInv, Types, InScript
<1>2. Past(step)
  BY DEF Past
<1>3. CASE job.op = "copy"
  <2>1. step = 1 /\ Now = Copy("k1", job.n, "out", job.m)
    BY <1>1, <1>3, CopyJob
  <2>2. Now.b = "out" /\ Now.nb = job.m
    BY <2>1 DEF Copy
  <2>3. Clean(field["out"], job.m)
    BY <1>2, <1>3, <2>1 DEF DInv, FieldsHold
  <2> QED
    BY <1>3, <2>2, <2>3 DEF Bound, Clean
<1>4. CASE job.op \in {"pair", "triple"}
  <2>1. PICK b \in Bases : step \in b + 1 .. b + 4
    BY <1>1, <1>4, InConvolution
  <2>2. b \in {0, 4} /\ Bases \subseteq {0, 4} /\ job.op # "copy"
    BY <1>1, <1>4, BasesAre
  <2>3. Convolved(b)
    BY DEF DInv, FieldsHold
  <2>4. CASE step = b + 1
    <3>1. Now.b = "f1p" /\ Now.nb = Padded(job.n) /\ Bound = job.n
      BY <1>1, <2>2, <2>4, StepsAre DEF Copy, Bound
    <3>2. Padding(field["f1p"], Padded(job.n), job.n)
      BY <1>2, <2>2, <2>3, <2>4 DEF Convolved
    <3> QED
      BY <3>1, <3>2
  <2>5. CASE step = b + 2
    <3>1. Now.b = "f2p" /\ Now.nb = Padded(job.n) /\ Bound = job.n
      BY <1>1, <2>2, <2>5, StepsAre DEF Copy, Bound
    <3>2. Padding(field["f2p"], Padded(job.n), job.n)
      BY <1>2, <2>2, <2>3, <2>5 DEF Convolved
    <3> QED
      BY <3>1, <3>2
  <2>6. CASE step = b + 3
    BY <1>1, <2>6, StepsAre DEF Product
  <2>7. CASE step = b + 4
    <3>1. Now.b = Outcome(b) /\ Now.nb = job.n /\ Bound = job.n + 1
      BY <1>1, <2>2, <2>7, StepsAre DEF Copy, Bound
    <3>2. Clean(field[Outcome(b)], job.n)
      BY <1>2, <2>3, <2>7 DEF Convolved
    <3> QED
      BY <3>1, <3>2 DEF Clean
  <2> QED
    BY <2>1, <2>2, <2>4, <2>5, <2>6, <2>7
<1>5. CASE job.op = "ghosts"
  BY <1>1, <1>5, GhostJob
<1> QED
  BY <1>1, <1>3, <1>4, <1>5

\* What is true of a step does not change while it lasts.
LEMMA SameScript ==
  ASSUME UNCHANGED <<job, step>>
  PROVE  /\ Now' = Now /\ Bases' = Bases /\ Bound' = Bound
         /\ \A b : Outcome(b)' = Outcome(b)
BY DEF Now, Bases, Bound, Outcome

\* A copy that writes its destination, and nothing else.
LEMMA DestinationWritten ==
  ASSUME DInv, Now.kind = "copy", UNCHANGED <<job, step>>, ~AllAt("enter")',
         field' = [x \in Names |-> field'[x]],
         \A x \in Names : x # Now.b => field'[x] = field[x],
         Padding(field'[Now.b], Now.nb, Bound)
  PROVE  FieldsHold'
<1>1. InScript /\ job \in Jobs /\ job.op \in {"copy", "pair", "triple", "ghosts"}
  BY JobFacts DEF DInv, IInv, Types, InScript
<1>2. CASE job.op = "copy"
  <2>1. /\ step = 1 /\ Now = Copy("k1", job.n, "out", job.m) /\ Bases = {}
    BY <1>1, <1>2, CopyJob
  <2>2. Now.b = "out" /\ Now.nb = job.m
    BY <2>1 DEF Copy
  <2>3. Clean(field'["out"], job.m)
    BY <1>2, <2>2 DEF Bound, Clean
  <2>4. \A x \in Inputs : Clean(field'[x], job.n)
    BY <2>2 DEF DInv, FieldsHold, InputsClean, Names, Inputs
  <2> QED
    BY <2>1, <2>3, <2>4, SameScript DEF FieldsHold, InputsClean
<1>3. CASE job.op \in {"pair", "triple"}
  <2>1. PICK b \in Bases : step \in b + 1 .. b + 4
    BY <1>1, <1>3, InConvolution
  <2>2. /\ b \in {0, 4} /\ Bases \subseteq {0, 4} /\ job.op # "copy" /\ job'.op # "copy"
    BY <1>1, <1>3, BasesAre
  <2>3. /\ Now.b \in Names \ Inputs
        /\ step = b + 1 => Now.b = "f1p" /\ Now.nb = Padded(job.n) /\ Bound = job.n
        /\ step = b + 2 => Now.b = "f2p" /\ Now.nb = Padded(job.n) /\ Bound = job.n
        /\ step # b + 3
        /\ step = b + 4 => Now.b = Outcome(b) /\ Now.nb = job.n /\ Bound = job.n + 1
    <3>1. CASE step = b + 1
      BY <1>1, <2>2, <3>1, StepsAre DEF Copy, Bound, Names, Inputs
    <3>2. CASE step = b + 2
      BY <1>1, <2>2, <3>2, StepsAre DEF Copy, Bound, Names, Inputs
    <3>3. CASE step = b + 3
      BY <1>1, <3>3, StepsAre DEF Product
    <3>4. CASE step = b + 4
      BY <1>1, <2>2, <3>4, StepsAre DEF Copy, Bound, Names, Inputs, Outcome
    <3> QED
      BY <2>1, <2>2, <3>1, <3>2, <3>3, <3>4
  <2>4. InputsClean'
    BY <2>3 DEF DInv, FieldsHold, InputsClean, Names
  <2>5. Convolved(b)'
    <3>1. CASE step = b + 1
      <4>1. Padding(field'["f1p"], Padded(job.n), job.n)
        BY <2>3, <3>1
      <4> QED
        BY <2>2, <3>1, <4>1 DEF Convolved, Past
    <3>2. CASE step = b + 2
      <4>1. Padding(field'["f2p"], Padded(job.n), job.n)
        BY <2>3, <3>2
      <4>2. Padding(field["f1p"], Padded(job.n), job.n)
        BY <2>2, <3>2 DEF DInv, FieldsHold, Convolved, Past
      <4>3. field'["f1p"] = field["f1p"]
        BY <2>3, <3>2 DEF Names
      <4> QED
        BY <2>2, <3>2, <4>1, <4>2, <4>3 DEF Convolved, Past
    <3>3. CASE step = b + 4
      <4>1. Clean(field'[Outcome(b)], job.n)
        BY <2>3, <3>3 DEF Clean
      <4>2. Unpadable(field["f2p"], Padded(job.n), job.n)
        BY <3>3 DEF DInv, FieldsHold, Convolved
      <4>3. field'["f2p"] = field["f2p"]
        BY <2>3, <3>3 DEF Names, Outcome
      <4> QED
        BY <2>2, <3>3, <4>1, <4>2, <4>3, SameScript DEF Convolved, Past
    <3> QED
      BY <2>1, <2>2, <2>3, <3>1, <3>2, <3>3
  <2>6. ASSUME NEW c \in Bases, c # b
        PROVE  Convolved(c)'
    <3>1. CASE c = 0 /\ b = 4
      <4>1. Past(0 + 4)
        BY <2>1, <3>1 DEF Past
      <4>2. job.op = "triple" /\ Outcome(0) = "fbuf" /\ Outcome(4) = "out"
        BY <1>1, <3>1, BasesAre DEF Outcome
      <4>3. Clean(field["fbuf"], job.n)
        BY <3>1, <4>1, <4>2 DEF DInv, FieldsHold, Convolved
      <4>4. field'["fbuf"] = field["fbuf"]
        BY <2>1, <2>3, <3>1, <4>2 DEF Names
      <4>5. Clean(field'[Outcome(0)'], job'.n)
        BY <4>2, <4>3, <4>4, SameScript
      <4> QED
        BY <2>1, <3>1, <4>5 DEF Convolved, Past
    <3>2. CASE c = 4 /\ b = 0
      BY <2>1, <3>2 DEF Convolved, Past
    <3> QED
      BY <2>2, <2>6, <3>1, <3>2
  <2> QED
    BY <2>2, <2>4, <2>5, <2>6, SameScript DEF FieldsHold
<1>4. CASE job.op = "ghosts"
  BY <1>1, <1>4, GhostJob
<1> QED
  BY <1>1, <1>2, <1>3, <1>4

-----------------------------------------------------------------------------
(***************************************************************************)
(* The steps.                                                              *)
(***************************************************************************)
LEMMA OneFieldChanges ==
  ASSUME InputsClean, NEW x \in Names, NEW v, field' = [field EXCEPT ![x] = v]
  PROVE  /\ field' = [y \in Names |-> field'[y]] /\ field'[x] = v
         /\ \A y \in Names : y # x => field'[y] = field[y]
BY DEF InputsClean

LEMMA SomeRank == \E r \in Rank : TRUE
<1>1. 0 \in Rank
  BY RanksPositive DEF Rank
<1> QED
  BY <1>1

\* Nothing changes as long as the ranks stay in a step,
LEMMA FieldsStay ==
  ASSUME DInv, UNCHANGED <<job, step, field>>, AllAt("enter")' <=> AllAt("enter")
  PROVE  FieldsHold'
<1>1. \A i : Past(i)' <=> Past(i)
  BY DEF Past
<1>2. \A b \in Bases : Convolved(b)'
  BY <1>1, SameScript DEF DInv, FieldsHold, Convolved
<1> QED
  BY <1>1, <1>2, SameScript DEF DInv, FieldsHold, InputsClean

\* nor when they go on to the next.
LEMMA FieldsGoOn ==
  ASSUME DInv, UNCHANGED <<job, field>>, step' = step + 1, AllAt("enter")', ~AllAt("enter")
  PROVE  FieldsHold'
<1>1. InScript /\ step \in Int
  BY LengthPositive DEF DInv, IInv, Types, InScript
<1>2. ASSUME NEW i \in Int, Past(i)' PROVE Past(i)
  BY <1>1, <1>2 DEF Past
<1>3. Bases' = Bases /\ \A b : Outcome(b)' = Outcome(b)
  BY DEF Bases, Outcome
<1>4. ASSUME NEW b \in Bases PROVE Convolved(b)'
  <2>1. b \in {0, 4} /\ Convolved(b)
    BY <1>1, BasesAre DEF InScript, DInv, FieldsHold
  <2>2. step # b + 3
    BY <2>1 DEF Convolved
  <2> QED
    BY <1>1, <1>2, <1>3, <2>1, <2>2 DEF Convolved
<1> QED
  BY <1>2, <1>3, <1>4 DEF DInv, FieldsHold, InputsClean

\* The exchange of ghost zones does not touch the fields.
LEMMA FieldsOfGhosts ==
  ASSUME DInv, job.op = "ghosts", UNCHANGED <<job, field>>
  PROVE  FieldsHold'
<1>1. Bases' = {}
  BY DEF Bases
<1> QED
  BY <1>1 DEF DInv, FieldsHold, InputsClean

LEMMA FieldsEnterCopy ==
  ASSUME DInv, EnterCopy
  PROVE  FieldsHold'
<1>1. /\ Now.kind = "copy" /\ UNCHANGED <<job, step>>
      /\ field' = [field EXCEPT ![Now.b] = Zero(Now.nb)]
      /\ pc' = [r \in Rank |-> "send"]
  BY DEF EnterCopy
<1>2. ~AllAt("enter")'
  BY <1>1, SomeRank DEF AllAt
<1>3. Now.b \in Names /\ Padding(Zero(Now.nb), Now.nb, Bound)
  BY <1>1, Source, ZeroIsPadding
<1>4. InputsClean
  BY DEF DInv, FieldsHold
<1>5. /\ field' = [y \in Names |-> field'[y]] /\ field'[Now.b] = Zero(Now.nb)
      /\ \A y \in Names : y # Now.b => field'[y] = field[y]
  BY <1>1, <1>3, <1>4, OneFieldChanges
<1> QED
  BY <1>1, <1>2, <1>3, <1>5, DestinationWritten

LEMMA FieldsCopyFrom ==
  ASSUME DInv, CopyFrom
  PROVE  FieldsHold'
<1>1. /\ Now.kind = "copy" /\ Now.na = Now.nb /\ UNCHANGED job
      /\ field' = [field EXCEPT ![Now.b] = field[Now.a]]
  BY DEF CopyFrom
<1>2. InScript /\ job.op = "copy"
  BY <1>1, Source DEF DInv, IInv, Types
<1>3. /\ Now = Copy("k1", job.n, "out", job.m) /\ Bases = {}
  BY <1>2, CopyJob
<1>4. Now.a = "k1" /\ Now.na = job.n /\ Now.b = "out" /\ Now.nb = job.m
  BY <1>3 DEF Copy
<1>5. InputsClean /\ "out" \in Names
  BY DEF DInv, FieldsHold, Names
<1>6. /\ field' = [y \in Names |-> field'[y]] /\ field'["out"] = field["k1"]
      /\ \A y \in Names : y # "out" => field'[y] = field[y]
  BY <1>1, <1>4, <1>5, OneFieldChanges
<1>7. Clean(field'["out"], job.m)
  BY <1>1, <1>4, <1>5, <1>6 DEF InputsClean, Inputs
<1>8. \A x \in Inputs : Clean(field'[x], job.n)
  BY <1>5, <1>6 DEF InputsClean, Inputs, Names
<1>9. Bases' = {}
  BY <1>1, <1>3 DEF Bases
<1> QED
  BY <1>1, <1>6, <1>7, <1>8, <1>9 DEF FieldsHold, InputsClean

LEMMA FieldsMultiply ==
  ASSUME DInv, Multiply
  PROVE  FieldsHold'
<1> DEFINE N == Padded(job.n)
           v == Times(field["f1p"], field["f2p"], N)
<1>1. /\ Now.kind = "product" /\ UNCHANGED job /\ NextStep
      /\ field' = [field EXCEPT !["f2p"] = v]
  BY DEF Multiply
<1>2. InScript /\ job \in Jobs /\ job.op \in {"pair", "triple"}
  <2>1. InScript /\ job.op \in {"copy", "pair", "triple", "ghosts"}
    BY JobFacts DEF DInv, IInv, Types, InScript
  <2>2. job.op # "copy"
    <3>1. job.op = "copy" => Now.kind = "copy"
      BY <2>1, CopyJob DEF Copy
    <3> QED
      BY <1>1, <3>1
  <2> QED
    BY <1>1, <2>1, <2>2, GhostJob DEF InScript
<1>3. PICK b \in Bases : step \in b + 1 .. b + 4
  BY <1>2, InConvolution
<1>4. /\ b \in {0, 4} /\ Bases \subseteq {0, 4} /\ Length(job) \in {4, 8}
      /\ Length(job) >= b + 4 /\ job.n \in Nat \ {0} /\ job.n % 2 = 0 /\ job.op # "copy"
  BY <1>2, BasesAre
<1>5. step = b + 3
  <2>1. step \notin {b + 1, b + 2, b + 4}
    BY <1>1, <1>2, StepsAre DEF Copy
  <2> QED
    BY <1>3, <1>4, <2>1
<1>6. step' = b + 4 /\ AllAt("enter")'
  BY <1>1, <1>4, <1>5 DEF NextStep, AllAt
<1>7. Padding(field["f1p"], N, job.n) /\ Padding(field["f2p"], N, job.n)
  BY <1>4, <1>5 DEF DInv, FieldsHold, Convolved, Past
<1>8. Unpadable(v, N, job.n)
  BY <1>4, <1>7, ProductIsUnpadable
<1> HIDE DEF v
<1>9. /\ field' = [y \in Names |-> field'[y]] /\ field'["f2p"] = v
      /\ \A y \in Names : y # "f2p" => field'[y] = field[y]
  <2>1. "f2p" \in Names /\ InputsClean
    BY DEF Names, DInv, FieldsHold
  <2> QED
    BY <1>1, <2>1, OneFieldChanges
<1>10. InputsClean'
  BY <1>1, <1>9 DEF DInv, FieldsHold, InputsClean, Names, Inputs
<1>11. Convolved(b)'
  BY <1>1, <1>4, <1>6, <1>8, <1>9 DEF Convolved, Past
<1>12. ASSUME NEW c \in Bases, c # b
       PROVE  Convolved(c)'
  <2>1. CASE c = 0 /\ b = 4
    <3>1. Past(0 + 4)
      BY <1>5, <2>1 DEF Past
    <3>2. Outcome(0) = "fbuf" /\ Outcome(0)' = Outcome(0)
      BY <1>1, <1>2, <2>1, BasesAre DEF Outcome
    <3>3. Clean(field["fbuf"], job.n) /\ field'["fbuf"] = field["fbuf"]
      BY <1>9, <2>1, <3>1, <3>2 DEF DInv, FieldsHold, Convolved, Names
    <3> QED
      BY <1>1, <1>6, <2>1, <3>2, <3>3 DEF Convolved, Past
  <2>2. CASE c = 4 /\ b = 0
    BY <1>6, <2>2 DEF Convolved, Past
  <2> QED
    BY <1>4, <1>12, <2>1, <2>2
<1>13. Bases' = Bases /\ job'.op # "copy"
  BY <1>1, <1>4 DEF Bases
<1> QED
  BY <1>10, <1>11, <1>12, <1>13 DEF FieldsHold

LEMMA FieldsRecv ==
  ASSUME DInv, NEW r \in Rank, Recv(r)
  PROVE  FieldsHold'
<1>1. PICK w \in InProgress(r), m \in net :
        /\ m.src = w.src /\ m.dst = r /\ m.tag = w.tag
        /\ Now.kind = "copy" =>
             field' = [field EXCEPT ![Now.b][w.tag] =
                         CopyRow(field[Now.a][m.plane], Now.na, Now.nb)]
        /\ Now.kind # "copy" => UNCHANGED field
  BY DEF Recv
<1>2. pc[r] = "receive" /\ UNCHANGED <<job, step, pc>> /\ w \in todo[r]
  BY DEF Recv, InProgress
<1>3. Exchanging /\ InScript /\ w \in Receives(r)
  BY <1>2, Exchange DEF DInv, IInv, TodoIsOpen, Exchanging
<1>4. CASE Now.kind # "copy"
  <2>1. job.op = "ghosts"
    BY <1>3, <1>4, GhostJob DEF Exchanging
  <2> QED
    BY <1>1, <1>2, <1>4, <2>1, FieldsOfGhosts
<1>5. CASE Now.kind = "copy"
  <2> DEFINE a == Now.na
             b == Now.nb
             x == Now.b
             f == field[Now.a]
             p == w.tag
             row == CopyRow(f[m.plane], a, b)
             old == field[x]
             new == [old EXCEPT ![p] = row]
  <2>1. /\ Unpadable(f, a, Smaller(a, b)) /\ a \in Nat \ {0} /\ b \in Nat \ {0}
        /\ Copyable(a, b) /\ x \in Names /\ Bound \in Nat /\ Smaller(a, b) <= Bound
    BY <1>5, Source
  <2>2. ~AllAt("enter") /\ ~AllAt("enter")'
    BY <1>2 DEF AllAt
  <2>3. Padding(old, b, Bound)
    BY <1>5, <2>2, Destination
  <2>4. p \in 0 .. b - 1 /\ IsReceived(p, a, b)
    <3>1. w \in CopyReceives(r, a, b)
      BY <1>3, <1>5 DEF Receives
    <3>2. p \in Slab(b, r) /\ IsReceived(p, a, b)
      BY <3>1 DEF CopyReceives
    <3> QED
      BY <2>1, <3>2, SlabInside
  <2>5. m.plane = SendIndex(p, a, b)
    <3>1. m \in Sends(m.src) /\ m.src \in Rank
      BY <1>1 DEF DInv, IInv, SentIsExpected
    <3>2. m \in CopySends(m.src, a, b)
      BY <1>5, <3>1 DEF Sends
    <3>3. PICK k \in Slab(a, m.src) :
            IsSent(k, a, b) /\ m.tag = RecvIndex(k, a, b) /\ m.plane = k
      BY <3>2 DEF CopySends
    <3>4. k \in 0 .. a - 1
      BY <2>1, <3>1, <3>3, SlabInside
    <3>5. SendIndex(RecvIndex(k, a, b), a, b) = k
      BY <2>1, <3>3, <3>4, SentIsReceived
    <3> QED
      BY <1>1, <3>3, <3>5
  <2>6. row = [q \in 0 .. b - 1 |-> row[q]]
    BY DEF CopyRow
  <2>7. ASSUME NEW q \in 0 .. b - 1
        PROVE  /\ Own(row[q], p, q, b)
               /\ row[q] # {} => Below(p, b, Bound) /\ Below(q, b, Bound)
    <3>1. /\ Own(row[q], p, q, b)
          /\ row[q] # {} => Below(p, b, Smaller(a, b)) /\ Below(q, b, Smaller(a, b))
      <4>1. row[q] = CopyRow(f[SendIndex(p, a, b)], a, b)[q]
        BY <2>5
      <4> HIDE DEF row, a, b, p, f
      <4>2. LET y == CopyRow(f[SendIndex(p, a, b)], a, b)[q] IN
            /\ Own(y, p, q, b)
            /\ y # {} => Below(p, b, Smaller(a, b)) /\ Below(q, b, Smaller(a, b))
        BY <2>1, <2>4, CopiedRow
      <4> QED
        BY <4>1, <4>2
    <3>2. Smaller(a, b) \in Int /\ Wave(p, b) \in Int /\ Wave(q, b) \in Int
      BY <2>1, <2>4, WaveType DEF Smaller
    <3> HIDE DEF row, a, b, p
    <3>3. \A y \in {p, q} : Below(y, b, Smaller(a, b)) => Below(y, b, Bound)
      BY <2>1, <3>2 DEF Below
    <3> QED
      BY <3>1, <3>3
  <2>8. Padding(new, b, Bound)
    <3> HIDE DEF row, a, b, p, old
    <3> QED
      BY <2>1, <2>3, <2>4, <2>6, <2>7, RowIsStored
  <2>9. field' = [field EXCEPT ![x] = new]
    BY <1>1, <1>5
  <2>10. InputsClean
    BY DEF DInv, FieldsHold
  <2> HIDE DEF new
  <2>11. /\ field' = [y \in Names |-> field'[y]] /\ field'[x] = new
         /\ \A y \in Names : y # x => field'[y] = field[y]
    BY <2>1, <2>9, <2>10, OneFieldChanges
  <2> QED
    BY <1>2, <1>5, <2>2, <2>8, <2>11, DestinationWritten
<1> QED
  BY <1>4, <1>5

\* The last step of an exchange, and the right ghost planes.
LEMMA FieldsNextStep ==
  ASSUME DInv, NextStep, UNCHANGED <<job, field>>, ~AllAt("enter")
  PROVE  FieldsHold'
<1>1. CASE step < Length(job)
  <2>1. step' = step + 1 /\ AllAt("enter")'
    BY <1>1 DEF NextStep, AllAt
  <2> QED
    BY <2>1, FieldsGoOn
<1>2. CASE ~(step < Length(job))
  <2>1. UNCHANGED step /\ pc' = [r \in Rank |-> "done"]
    BY <1>2 DEF NextStep
  <2>2. ~AllAt("enter")'
    BY <2>1, SomeRank DEF AllAt
  <2> QED
    BY <2>1, <2>2, FieldsStay
<1> QED
  BY <1>1, <1>2

LEMMA DInit == Init => DInv
<1>1. SUFFICES ASSUME Init PROVE FieldsHold
  BY InitEstablishes DEF DInv
<1>2. job \in Jobs /\ job.n \in Nat \ {0} /\ step = 1 /\ AllAt("enter")
  BY <1>1, JobFacts DEF Init, AllAt
<1>3. InputsClean
  <2>1. field = [x \in Names |-> IF x \in Inputs THEN Kernel(job.n) ELSE Unset]
    BY <1>1 DEF Init, Names
  <2>2. \A x \in Inputs : x \in Names
    BY DEF Names
  <2> QED
    BY <1>2, <2>1, <2>2, KernelIsClean DEF InputsClean
<1>4. ASSUME NEW b \in Bases PROVE Convolved(b)
  BY <1>2, BasesAre DEF Convolved, Past
<1>5. ~Past(1)
  BY <1>2 DEF Past
<1> QED
  BY <1>3, <1>4, <1>5 DEF FieldsHold

LEMMA DNext == DInv /\ [Next]_vars => DInv'
<1>1. SUFFICES ASSUME DInv, [Next]_vars PROVE FieldsHold'
  BY NextPreserves DEF DInv
<1>2. CASE EnterCopy
  BY <1>1, <1>2, FieldsEnterCopy
<1>3. CASE CopyFrom
  BY <1>1, <1>3, FieldsCopyFrom
<1>4. CASE EnterGhosts
  <2>1. job.op = "ghosts" /\ UNCHANGED <<job, field>>
    BY <1>1, <1>4, GhostJob DEF EnterGhosts, DInv, IInv, Types
  <2> QED
    BY <1>1, <2>1, FieldsOfGhosts
<1>5. CASE Multiply
  BY <1>1, <1>5, FieldsMultiply
<1>6. CASE Flush
  <2>1. /\ \A r \in Rank : pc[r] = "receive"
        /\ UNCHANGED <<job, field>>
    BY <1>6 DEF Flush
  <2>2. ~AllAt("enter")
    BY <2>1, SomeRank DEF AllAt
  <2>3. CASE Now = Ghosts("right")
    BY <1>1, <1>6, <2>1, <2>2, <2>3, FieldsNextStep DEF Flush
  <2>4. CASE Now # Ghosts("right")
    <3>1. UNCHANGED step /\ pc' = [r \in Rank |-> "wait"]
      BY <1>6, <2>4 DEF Flush
    <3>2. ~AllAt("enter")'
      BY <3>1, SomeRank DEF AllAt
    <3> QED
      BY <1>1, <2>1, <2>2, <3>1, <3>2, FieldsStay
  <2> QED
    BY <2>3, <2>4
<1>7. CASE Leave
  <2>1. AllAt("leave") /\ NextStep /\ UNCHANGED <<job, field>>
    BY <1>7 DEF Leave
  <2>2. ~AllAt("enter")
    BY <2>1, SomeRank DEF AllAt
  <2> QED
    BY <1>1, <2>1, <2>2, FieldsNextStep
<1>8. ASSUME NEW r \in Rank, Isend(r)
      PROVE  FieldsHold'
  <2>1. /\ pc[r] = "send" /\ pc' = [pc EXCEPT ![r] = "receive"]
        /\ UNCHANGED <<job, step, field>>
    BY <1>8 DEF Isend
  <2>2. ~AllAt("enter") /\ ~AllAt("enter")'
    BY <1>1, <2>1 DEF AllAt, DInv, IInv, Types
  <2> QED
    BY <1>1, <2>1, <2>2, FieldsStay
<1>9. ASSUME NEW r \in Rank, Recv(r)
      PROVE  FieldsHold'
  BY <1>1, <1>9, FieldsRecv
<1>10. ASSUME NEW r \in Rank, WaitAll(r)
       PROVE  FieldsHold'
  <2>1. /\ pc[r] = "wait" /\ pc' = [pc EXCEPT ![r] = "leave"]
        /\ UNCHANGED <<job, step, field>>
    BY <1>10 DEF WaitAll
  <2>2. ~AllAt("enter") /\ ~AllAt("enter")'
    BY <1>1, <2>1 DEF AllAt, DInv, IInv, Types
  <2> QED
    BY <1>1, <2>1, <2>2, FieldsStay
<1>11. CASE UNCHANGED vars
  <2>1. UNCHANGED <<job, step, field>> /\ (AllAt("enter")' <=> AllAt("enter"))
    BY <1>11 DEF vars, AllAt
  <2> QED
    BY <1>1, <2>1, FieldsStay
<1> QED
  BY <1>1, <1>2, <1>3, <1>4, <1>5, <1>6, <1>7, <1>8, <1>9, <1>10, <1>11
     DEF Next, Together, RankStep

\* The result of every copy and convolution is free of aliases, for all sizes
\* the program copies between (JobsAssumption: to at most twice as fine a
\* grid), any number of ranks and any order of the messages
\* (FourierInterpolateCopyTo, OrszagConvolver).
THEOREM ResultsHaveNoAlias == Spec => []NoAlias
<1>1. DInv => NoAlias
  <2>1. SUFFICES ASSUME DInv, AllAt("done"), job.op # "ghosts"
                 PROVE  LET n == IF job.op = "copy" THEN job.m ELSE job.n IN
                        \A p, q \in 0 .. n - 1 :
                          field["out"][p][q] \subseteq {<<Wave(p, n), Wave(q, n)>>}
    BY DEF NoAlias
  <2>2. InScript /\ job \in Jobs /\ job.op \in {"copy", "pair", "triple"}
    BY <2>1, JobFacts DEF DInv, IInv, Types, InScript
  <2>3. ~AllAt("enter") /\ step = Length(job)
    BY <2>1, SomeRank DEF DInv, IInv, InPhase, AllAt
  <2>4. CASE job.op = "copy"
    <3>1. Past(1)
      BY <2>2, <2>3, <2>4, CopyJob DEF Past
    <3>2. Clean(field["out"], job.m)
      BY <2>1, <2>4, <3>1 DEF DInv, FieldsHold
    <3> QED
      BY <2>4, <3>2 DEF Clean, Padding, Own
  <2>5. CASE job.op \in {"pair", "triple"}
    <3>1. PICK b \in Bases : step = b + 4 /\ Outcome(b) = "out"
      BY <2>3, <2>5 DEF Bases, Length, Outcome
    <3>2. Past(b + 4)
      BY <2>3, <3>1 DEF Past
    <3>3. Clean(field["out"], job.n)
      BY <2>1, <3>1, <3>2 DEF DInv, FieldsHold, Convolved
    <3> QED
      BY <2>5, <3>3 DEF Clean, Padding, Own
  <2> QED
    BY <2>2, <2>4, <2>5
<1>2. Spec => []DInv
  BY DInit, DNext, PTL DEF Spec
<1> QED
  BY <1>1, <1>2, PTL
-----------------------------------------------------------------------------
(***************************************************************************)
(* No mode is lost: what the exchanges and products keep.                  *)
(***************************************************************************)
\* Every cell whose wave numbers are in K holds something.
Full(f, n, K) ==
  \A p, q \in 0 .. n - 1 : Wave(p, n) \in K /\ Wave(q, n) \in K => f[p][q] # {}

\* What the smaller of two grids resolves is moved, if that one is even.
LEMMA ResolvedIsReceived ==
  ASSUME NEW from \in Nat \ {0}, NEW to \in Nat \ {0}, Copyable(from, to),
         Smaller(from, to) % 2 = 0, NEW p \in 0 .. to - 1, Wave(p, to) \in Resolved(Smaller(from, to))
  PROVE  IsReceived(p, from, to)
<1>1. CASE from < to
  BY <1>1, SizesDoNotWrap DEF IsReceived, fny_left, Smaller, Larger, Wave, Resolved, Copyable
<1>2. CASE ~(from < to)
  BY <1>2, SizesDoNotWrap DEF IsReceived, fny_left, Smaller, Larger, Wave, Resolved, Copyable
<1> QED
  BY <1>1, <1>2

\* A copy whose rows have all come holds the modes of its source.
LEMMA CopyIsFull ==
  ASSUME NEW from \in Nat \ {0}, NEW to \in Nat \ {0}, Copyable(from, to),
         Smaller(from, to) % 2 = 0, NEW K \in SUBSET Resolved(Smaller(from, to)), NEW f, NEW g, Full(f, from, K),
         \A p \in 0 .. to - 1 : IsReceived(p, from, to) =>
           g[p] = CopyRow(f[SendIndex(p, from, to)], from, to)
  PROVE  Full(g, to, K)
<1>1. SUFFICES ASSUME NEW p \in 0 .. to - 1, NEW q \in 0 .. to - 1,
                      Wave(p, to) \in K, Wave(q, to) \in K
               PROVE  g[p][q] # {}
  BY DEF Full
<1>2. IsReceived(p, from, to) /\ IsReceived(q, from, to)
  BY <1>1, ResolvedIsReceived
<1> DEFINE a == SendIndex(p, from, to)
           b == SendIndex(q, from, to)
<1>3. /\ a \in 0 .. from - 1 /\ b \in 0 .. from - 1
      /\ Wave(a, from) = Wave(p, to) /\ Wave(b, from) = Wave(q, to)
  BY <1>2, ReceivedIsSent, WaveIsKept
<1>4. g[p] = CopyRow(f[a], from, to)
  BY <1>2
<1>5. g[p][q] = f[a][b]
  BY <1>2, <1>4 DEF CopyRow
<1> HIDE DEF a, b
<1> QED
  BY <1>1, <1>3, <1>5 DEF Full

\* A sum of two resolved wave numbers is found at its place in the padded
\* grid.
LEMMA SumIsFound ==
  ASSUME NEW n \in Nat \ {0}, n % 2 = 0, NEW p \in 0 .. Padded(n) - 1,
         NEW a \in Resolved(n), NEW b \in Resolved(n), Wave(p, Padded(n)) = a + b
  PROVE  \E c \in 0 .. Padded(n) - 1 :
           /\ Wave(c, Padded(n)) = a
           /\ (p - c + Padded(n)) % Padded(n) \in 0 .. Padded(n) - 1
           /\ Wave((p - c + Padded(n)) % Padded(n), Padded(n)) = b
<1> DEFINE N == Padded(n)
           c == IF a < 0 THEN a + N ELSE a
           x == p - c + N
           d == x % N
<1>1. /\ N \in Nat \ {0} /\ 2 * N = 3 * n /\ p \in 0 .. N - 1 /\ Wave(p, N) = a + b
      /\ a \in Int /\ b \in Int /\ 2 * a < n /\ -2 * a < n /\ 2 * b < n /\ -2 * b < n
  BY PaddedIs DEF Resolved
<1> HIDE DEF N
<1>2. c \in 0 .. N - 1 /\ Wave(c, N) = a
  BY <1>1 DEF Wave
<1>3. x \in 0 .. 2 * N - 1
  BY <1>1, <1>2
<1>4. p = a + b \/ p = a + b + N
  BY <1>1 DEF Wave
<1>5. c = a \/ c = a + N
  OBVIOUS
<1>6. x = p - c + N
  OBVIOUS
<1> HIDE DEF c, x
<1>7. d = IF x < N THEN x ELSE x - N
  BY <1>1, <1>3, Wrapped
<1> HIDE DEF d
<1>8. d \in 0 .. N - 1 /\ (d = b \/ d = b + N)
  BY <1>1, <1>2, <1>3, <1>4, <1>5, <1>6, <1>7
<1>9. Wave(d, N) = b
  BY <1>1, <1>8 DEF Wave
<1> QED
  BY <1>2, <1>8, <1>9 DEF N, d, x

\* The product holds every sum of two modes of its factors that the grid
\* resolves.
LEMMA ProductIsFull ==
  ASSUME NEW n \in Nat \ {0}, n % 2 = 0, NEW f, NEW g, NEW A \in SUBSET Resolved(n),
         Full(f, Padded(n), A), Full(g, Padded(n), Resolved(n))
  PROVE  Full(Times(f, g, Padded(n)), Padded(n), Sums(A, Resolved(n)) \cap Resolved(n))
<1> DEFINE N == Padded(n)
           B == Resolved(n)
           h == Times(f, g, N)
           held == {c \in (0 .. N - 1) \X (0 .. N - 1) : f[c[1]][c[2]] # {}}
           Products(c, p, q) ==
             {<<x[1] + y[1], x[2] + y[2]>> :
                x \in f[c[1]][c[2]], y \in g[(p - c[1] + N) % N][(q - c[2] + N) % N]}
<1>1. h = [p \in 0 .. N - 1 |-> [q \in 0 .. N - 1 |-> UNION {Products(c, p, q) : c \in held}]]
  BY DEF Times
<1>2. SUFFICES ASSUME NEW p \in 0 .. N - 1, NEW q \in 0 .. N - 1,
                      Wave(p, N) \in Sums(A, B), Wave(q, N) \in Sums(A, B)
               PROVE  h[p][q] # {}
  <2> HIDE DEF N, h, B
  <2>1. Full(h, N, Sums(A, B) \cap B)
    BY <1>2 DEF Full
  <2> QED
    BY <2>1 DEF N, h, B
<1>3. PICK a \in A, b \in B : Wave(p, N) = a + b
  BY <1>2 DEF Sums
<1>4. PICK u \in A, v \in B : Wave(q, N) = u + v
  BY <1>2 DEF Sums
<1>5. PICK i \in 0 .. N - 1 : /\ Wave(i, N) = a /\ (p - i + N) % N \in 0 .. N - 1
                              /\ Wave((p - i + N) % N, N) = b
  BY <1>3, SumIsFound
<1>6. PICK j \in 0 .. N - 1 : /\ Wave(j, N) = u /\ (q - j + N) % N \in 0 .. N - 1
                              /\ Wave((q - j + N) % N, N) = v
  BY <1>4, SumIsFound
<1> DEFINE d == (p - i + N) % N
           e == (q - j + N) % N
<1>7. Full(f, N, A) /\ Full(g, N, B)
  OBVIOUS
<1>8. f[i][j] # {} /\ g[d][e] # {}
  <2>1. d \in 0 .. N - 1 /\ e \in 0 .. N - 1 /\ Wave(d, N) = b /\ Wave(e, N) = v
    BY <1>5, <1>6
  <2> HIDE DEF N, B, d, e
  <2> QED
    BY <1>3, <1>4, <1>5, <1>6, <1>7, <2>1 DEF Full
<1>9. PICK x \in f[i][j], y \in g[d][e] : TRUE
  BY <1>8
<1> DEFINE c == <<i, j>>
<1>10. c \in held /\ <<x[1] + y[1], x[2] + y[2]>> \in Products(c, p, q)
  BY <1>8, <1>9
<1> HIDE DEF Products, held, c, d, e, N, h
<1>11. h[p][q] = UNION {Products(k, p, q) : k \in held}
  BY <1>1
<1> QED
  BY <1>10, <1>11
-----------------------------------------------------------------------------
(***************************************************************************)
(* The inductive invariant: which modes are in the fields in each step.    *)
(***************************************************************************)
\* The modes of the first factor of a convolution, and of its outcome.
Factor(b) == IF b = 0 THEN Resolved(job.n) ELSE Exact(job.n, 2)
Result(b) == Sums(Factor(b), Resolved(job.n)) \cap Resolved(job.n)

\* A rank has what it no longer waits for.
RowsHold ==
  Now.kind = "copy" =>
    \A r \in Rank : pc[r] \in {"receive", "wait", "leave"} =>
      \A p \in Slab(Now.nb, r) :
        IsReceived(p, Now.na, Now.nb) /\ (\A w \in todo[r] : w.tag # p) =>
          field[Now.b][p] = CopyRow(field[Now.a][SendIndex(p, Now.na, Now.nb)], Now.na, Now.nb)

InputsFull == \A x \in Inputs : Full(field[x], job.n, Resolved(job.n))

\* The ranks have finished step i.
Finished(i) == step > i \/ AllAt("done")

ConvolvedFull(b) ==
  /\ step \in {b + 2, b + 3} => Full(field["f1p"], Padded(job.n), Factor(b))
  /\ step = b + 3 => Full(field["f2p"], Padded(job.n), Resolved(job.n))
  /\ step = b + 4 => Full(field["f2p"], Padded(job.n), Result(b))
  /\ Finished(b + 4) => Full(field[Outcome(b)], job.n, Result(b))

CopiedFull ==
  job.op = "copy" /\ job.m % 2 = 0 /\ AllAt("done") =>
    Full(field["out"], job.m, Resolved(Smaller(job.n, job.m)))

FullHold == InputsFull /\ CopiedFull /\ \A b \in Bases : ConvolvedFull(b)

FInv == DInv /\ RowsHold /\ FullHold
-----------------------------------------------------------------------------
(***************************************************************************)
(* The steps keep it.                                                      *)
(***************************************************************************)
LEMMA Modes ==
  /\ Factor(0) = Resolved(job.n) /\ Factor(4) = Result(0)
  /\ \A b : Factor(b) \in SUBSET Resolved(job.n) /\ Result(b) \in SUBSET Resolved(job.n)
  /\ Exact(job.n, 2) = Result(0) /\ Exact(job.n, 3) = Result(4)
<1>1. Factor(0) = Resolved(job.n) /\ Factor(4) = Result(0)
  BY DEF Factor, Result, Exact
<1>2. Exact(job.n, 2) = Result(0) /\ Exact(job.n, 3) = Result(4)
  BY DEF Factor, Result, Exact
<1>3. \A b : Factor(b) \in SUBSET Resolved(job.n)
  BY DEF Factor, Exact
<1>4. \A b : Result(b) \in SUBSET Resolved(job.n)
  BY DEF Result
<1> QED
  BY <1>1, <1>2, <1>3, <1>4

LEMMA SameModes ==
  ASSUME UNCHANGED job
  PROVE  \A b : Factor(b)' = Factor(b) /\ Result(b)' = Result(b) /\ Outcome(b)' = Outcome(b)
BY DEF Factor, Result, Outcome

\* What the two factors of a convolution are copied from.
LEMMA FactorsAreFull ==
  ASSUME FInv, NEW b \in Bases, step > b
  PROVE  /\ Full(field[First(b)], job.n, Factor(b))
         /\ Full(field[Second(b)], job.n, Resolved(job.n))
<1>1. job \in Jobs /\ b \in {0, 4} /\ (b = 4 => job.op = "triple")
  BY BasesAre DEF FInv, DInv, IInv, Types, InScript
<1>2. InputsFull
  BY DEF FInv, FullHold
<1>3. CASE b = 0
  BY <1>2, <1>3, Modes DEF First, Second, InputsFull, Inputs
<1>4. CASE b = 4
  <2>1. 0 \in Bases /\ Outcome(0) = "fbuf"
    BY <1>1, <1>4 DEF Bases, Outcome
  <2>2. Finished(0 + 4)
    BY <1>4 DEF Finished
  <2>3. Full(field["fbuf"], job.n, Result(0))
    BY <2>1, <2>2 DEF FInv, FullHold, ConvolvedFull
  <2> QED
    BY <1>2, <1>4, <2>3, Modes DEF First, Second, InputsFull, Inputs
<1> QED
  BY <1>1, <1>3, <1>4

LEMMA FullStays ==
  ASSUME FInv, UNCHANGED <<job, step, field>>, AllAt("done")' <=> AllAt("done")
  PROVE  FullHold'
<1>1. Bases' = Bases
  BY SameScript
<1>2. \A i : Finished(i)' <=> Finished(i)
  BY DEF Finished
<1>3. ASSUME NEW b \in Bases PROVE ConvolvedFull(b)'
  <2>1. ConvolvedFull(b)
    BY DEF FInv, FullHold
  <2> QED
    BY <1>2, <2>1, SameModes DEF ConvolvedFull
<1>4. InputsFull' /\ CopiedFull'
  BY DEF FInv, FullHold, InputsFull, CopiedFull
<1> QED
  BY <1>1, <1>3, <1>4 DEF FullHold

\* While a copy writes its destination, the other fields stay.
LEMMA FullElsewhere ==
  ASSUME FInv, Now.kind = "copy", UNCHANGED <<job, step>>, ~AllAt("done"), ~AllAt("done")',
         \A x \in Names : x # Now.b => field'[x] = field[x]
  PROVE  FullHold'
<1>1. InScript /\ job \in Jobs /\ job.op \in {"copy", "pair", "triple", "ghosts"}
  BY JobFacts DEF FInv, DInv, IInv, Types, InScript
<1>2. CopiedFull' /\ Bases' = Bases
  BY SameScript DEF CopiedFull
<1>3. CASE job.op = "copy"
  <2>1. Now.b = "out" /\ Bases = {}
    BY <1>1, <1>3, CopyJob DEF Copy
  <2>2. InputsFull'
    BY <2>1 DEF FInv, FullHold, InputsFull, Names, Inputs
  <2> QED
    BY <1>2, <2>1, <2>2 DEF FullHold
<1>4. CASE job.op \in {"pair", "triple"}
  <2>1. PICK b \in Bases : step \in b + 1 .. b + 4
    BY <1>1, <1>4, InConvolution
  <2>2. b \in {0, 4} /\ Bases \subseteq {0, 4} /\ step \in Int
    BY <1>1, <2>1, BasesAre
  <2>3. /\ Now.b \in Names \ Inputs
        /\ step = b + 1 => Now.b = "f1p"
        /\ step = b + 2 => Now.b = "f2p"
        /\ step # b + 3
        /\ step = b + 4 => Now.b = Outcome(b)
    <3>1. CASE step = b + 1
      BY <1>1, <2>2, <3>1, StepsAre DEF Copy, Names, Inputs
    <3>2. CASE step = b + 2
      BY <1>1, <2>2, <3>2, StepsAre DEF Copy, Names, Inputs
    <3>3. CASE step = b + 3
      BY <1>1, <3>3, StepsAre DEF Product
    <3>4. CASE step = b + 4
      BY <1>1, <2>2, <3>4, StepsAre DEF Copy, Names, Inputs, Outcome
    <3> QED
      BY <2>1, <2>2, <3>1, <3>2, <3>3, <3>4
  <2>4. InputsFull'
    BY <2>3 DEF FInv, FullHold, InputsFull, Names
  <2>5. ConvolvedFull(b)'
    <3>1. ConvolvedFull(b)
      BY DEF FInv, FullHold
    <3>2. step = b + 2 => field'["f1p"] = field["f1p"]
      BY <2>3 DEF Names
    <3>3. step = b + 4 => field'["f2p"] = field["f2p"]
      BY <2>3 DEF Names, Outcome
    <3>4. ~Finished(b + 4) /\ ~Finished(b + 4)'
      BY <2>1, <2>2 DEF Finished
    <3> QED
      BY <2>1, <2>2, <2>3, <3>1, <3>2, <3>3, <3>4, SameModes DEF ConvolvedFull
  <2>6. ASSUME NEW c \in Bases, c # b
        PROVE  ConvolvedFull(c)'
    <3>1. CASE c = 0 /\ b = 4
      <4>1. Outcome(0) = "fbuf" /\ Outcome(4) = "out"
        BY <1>1, <3>1, BasesAre DEF Outcome
      <4>2. Finished(0 + 4) /\ step \notin {0 + 2, 0 + 3, 0 + 4}
        BY <2>1, <3>1 DEF Finished
      <4>3. Full(field["fbuf"], job.n, Result(0))
        BY <3>1, <4>1, <4>2 DEF FInv, FullHold, ConvolvedFull
      <4>4. field'["fbuf"] = field["fbuf"]
        BY <2>1, <2>3, <3>1, <4>1 DEF Names
      <4>5. Full(field'[Outcome(0)'], job'.n, Result(0)')
        BY <4>1, <4>3, <4>4, SameModes
      <4> QED
        BY <3>1, <4>2, <4>5 DEF ConvolvedFull
    <3>2. CASE c = 4 /\ b = 0
      <4>1. step \notin {4 + 2, 4 + 3, 4 + 4} /\ ~Finished(4 + 4)'
        BY <2>1, <3>2 DEF Finished
      <4> QED
        BY <3>2, <4>1 DEF ConvolvedFull
    <3> QED
      BY <2>2, <2>6, <3>1, <3>2
  <2> QED
    BY <1>2, <2>2, <2>4, <2>5, <2>6 DEF FullHold
<1>5. CASE job.op = "ghosts"
  BY <1>1, <1>5, GhostJob
<1> QED
  BY <1>1, <1>3, <1>4, <1>5
\* The copy is complete, and the ranks go on.
LEMMA FullCopied ==
  ASSUME FInv, Now.kind = "copy", UNCHANGED job, NextStep, ~AllAt("done"),
         \A x \in Names : x # Now.b => field'[x] = field[x],
         \A K \in SUBSET Resolved(Smaller(Now.na, Now.nb)) :
           Smaller(Now.na, Now.nb) % 2 = 0 /\ Full(field[Now.a], Now.na, K) =>
             Full(field'[Now.b], Now.nb, K)
  PROVE  FullHold'
<1>1. InScript /\ job \in Jobs /\ job.op \in {"copy", "pair", "triple", "ghosts"}
  BY JobFacts DEF FInv, DInv, IInv, Types, InScript
<1>2. Bases' = Bases /\ job' = job
  BY DEF Bases
<1>3. CASE job.op = "copy"
  <2>1. /\ Now.a = "k1" /\ Now.na = job.n /\ Now.b = "out" /\ Now.nb = job.m /\ Bases = {}
        /\ job.n \in Nat \ {0} /\ job.m \in Nat \ {0}
    BY <1>1, <1>3, CopyJob DEF Copy
  <2>2. InputsFull'
    BY <1>2, <2>1 DEF FInv, FullHold, InputsFull, Names, Inputs
  <2>3. job.n % 2 = 0
    BY <1>1, <1>3, JobsAssumption
  <2>4. Full(field["k1"], job.n, Resolved(Smaller(job.n, job.m)))
    <3>1. Resolved(Smaller(job.n, job.m)) \subseteq Resolved(job.n)
      BY <2>1 DEF Resolved, Smaller
    <3>2. Full(field["k1"], job.n, Resolved(job.n))
      BY DEF FInv, FullHold, InputsFull, Inputs
    <3> QED
      BY <3>1, <3>2 DEF Full
  <2>5. job.m % 2 = 0 => Full(field'["out"], job.m, Resolved(Smaller(job.n, job.m)))
    <3> DEFINE K == Resolved(Smaller(job.n, job.m))
    <3>1. SUFFICES ASSUME job.m % 2 = 0 PROVE Full(field'["out"], job.m, K)
      OBVIOUS
    <3>2. Smaller(job.n, job.m) % 2 = 0
      BY <2>3, <3>1 DEF Smaller
    <3>3. K \in SUBSET Resolved(Smaller(Now.na, Now.nb)) /\ Full(field[Now.a], Now.na, K)
      BY <2>1, <2>4
    <3> HIDE DEF K
    <3>4. Full(field'[Now.b], Now.nb, K)
      BY <2>1, <3>2, <3>3
    <3> QED
      BY <2>1, <3>4
  <2>6. CopiedFull'
    BY <1>2, <2>5 DEF CopiedFull
  <2> QED
    BY <1>2, <2>1, <2>2, <2>6 DEF FullHold
<1>4. CASE job.op \in {"pair", "triple"}
  <2>1. PICK b \in Bases : step \in b + 1 .. b + 4
    BY <1>1, <1>4, InConvolution
  <2> DEFINE n == job.n
             N == Padded(job.n)
  <2>2. /\ b \in {0, 4} /\ Bases \subseteq {0, 4} /\ step \in Int /\ step > b
        /\ n \in Nat \ {0} /\ n % 2 = 0 /\ N \in Nat \ {0} /\ n < N
        /\ Length(job) \in {4, 8} /\ Length(job) >= b + 4
    BY <1>1, <2>1, BasesAre, PaddedIs
  <2>3. /\ Now.b \in Names \ Inputs /\ step # b + 3 /\ Smaller(Now.na, Now.nb) = n
        /\ step = b + 1 => Now.a = First(b) /\ Now.na = n /\ Now.b = "f1p" /\ Now.nb = N
        /\ step = b + 2 => Now.a = Second(b) /\ Now.na = n /\ Now.b = "f2p" /\ Now.nb = N
        /\ step = b + 4 => Now.a = "f2p" /\ Now.na = N /\ Now.b = Outcome(b) /\ Now.nb = n
    <3>1. CASE step = b + 1
      BY <1>1, <2>2, <3>1, StepsAre DEF Copy, Names, Inputs, Smaller
    <3>2. CASE step = b + 2
      BY <1>1, <2>2, <3>2, StepsAre DEF Copy, Names, Inputs, Smaller
    <3>3. CASE step = b + 3
      BY <1>1, <3>3, StepsAre DEF Product
    <3>4. CASE step = b + 4
      BY <1>1, <2>2, <3>4, StepsAre DEF Copy, Names, Inputs, Outcome, Smaller
    <3> QED
      BY <2>1, <2>2, <3>1, <3>2, <3>3, <3>4
  <2>4. ASSUME NEW K \in SUBSET Resolved(n), Full(field[Now.a], Now.na, K)
        PROVE  Full(field'[Now.b], Now.nb, K)
    BY <2>2, <2>3, <2>4
  <2>5. /\ step = b + 1 => Full(field'["f1p"], N, Factor(b))
        /\ step = b + 2 => Full(field'["f2p"], N, Resolved(n))
        /\ step = b + 4 => Full(field'[Outcome(b)], n, Result(b))
    <3>1. CASE step = b + 1
      BY <2>2, <2>3, <2>4, <3>1, FactorsAreFull, Modes
    <3>2. CASE step = b + 2
      <4>1. Full(field[Second(b)], n, Resolved(n))
        BY <2>2, FactorsAreFull
      <4>2. Now.a = Second(b) /\ Now.na = n /\ Now.b = "f2p" /\ Now.nb = N
        BY <2>3, <3>2
      <4> HIDE DEF n, N
      <4>3. Full(field'["f2p"], N, Resolved(n))
        BY <2>4, <4>1, <4>2
      <4> QED
        BY <2>2, <3>2, <4>3
    <3>3. CASE step = b + 4
      <4>1. Full(field["f2p"], N, Result(b))
        BY <3>3 DEF FInv, FullHold, ConvolvedFull
      <4> QED
        BY <2>2, <2>3, <2>4, <3>3, <4>1, Modes
    <3> QED
      BY <2>2, <3>1, <3>2, <3>3
  <2>6. step = b + 2 => Full(field'["f1p"], N, Factor(b))
    <3>1. SUFFICES ASSUME step = b + 2 PROVE Full(field'["f1p"], N, Factor(b))
      OBVIOUS
    <3>2. Full(field["f1p"], N, Factor(b))
      BY <3>1 DEF FInv, FullHold, ConvolvedFull
    <3>3. field'["f1p"] = field["f1p"]
      BY <2>3, <3>1 DEF Names
    <3> QED
      BY <3>2, <3>3
  <2>7. InputsFull'
    BY <2>3 DEF FInv, FullHold, InputsFull, Names
  <2>8. CopiedFull'
    BY <1>4 DEF CopiedFull
  <2>9. /\ step < Length(job) => step' = step + 1 /\ ~AllAt("done")'
        /\ step >= Length(job) => step' = step
    BY <2>2, SomeRank DEF NextStep, AllAt
  <2>10. ConvolvedFull(b)'
    <3>1. CASE step = b + 4
      <4>1. step' \in {b + 4, b + 5} /\ (step' = b + 4 => Length(job) = b + 4)
        BY <2>2, <2>9, <3>1
      <4>2. Full(field'[Outcome(b)'], job'.n, Result(b)')
        BY <2>5, <3>1, SameModes
      <4>3. Full(field["f2p"], N, Result(b))
        BY <3>1 DEF FInv, FullHold, ConvolvedFull
      <4>4. field'["f2p"] = field["f2p"]
        BY <2>3, <3>1 DEF Names, Outcome
      <4>5. Full(field'["f2p"], Padded(job'.n), Result(b)')
        BY <4>3, <4>4, SameModes
      <4> QED
        BY <2>2, <4>1, <4>2, <4>5 DEF ConvolvedFull
    <3>2. CASE step \in {b + 1, b + 2}
      <4>1. step' = step + 1 /\ ~Finished(b + 4)'
        BY <2>2, <2>9, <3>2 DEF Finished
      <4> QED
        BY <2>2, <2>5, <2>6, <3>2, <4>1, SameModes DEF ConvolvedFull
    <3> QED
      BY <2>1, <2>2, <2>3, <3>1, <3>2
  <2>11. ASSUME NEW c \in Bases, c # b
         PROVE  ConvolvedFull(c)'
    <3>1. CASE c = 0 /\ b = 4
      <4>1. Outcome(0) = "fbuf" /\ Outcome(4) = "out"
        BY <1>1, <3>1, BasesAre DEF Outcome
      <4>2. Finished(0 + 4) /\ step' \notin {0 + 2, 0 + 3, 0 + 4}
        BY <2>2, <2>9, <3>1 DEF Finished
      <4>3. Full(field["fbuf"], job.n, Result(0))
        BY <3>1, <4>1, <4>2 DEF FInv, FullHold, ConvolvedFull
      <4>4. field'["fbuf"] = field["fbuf"]
        BY <2>1, <2>3, <3>1, <4>1 DEF Names
      <4>5. Full(field'[Outcome(0)'], job'.n, Result(0)')
        BY <4>1, <4>3, <4>4, SameModes
      <4> QED
        BY <3>1, <4>2, <4>5 DEF ConvolvedFull
    <3>2. CASE c = 4 /\ b = 0
      <4>1. Length(job) = 8
        BY <1>1, <3>2, BasesAre DEF Length
      <4>2. step' \notin {4 + 2, 4 + 3, 4 + 4} /\ ~Finished(4 + 4)'
        BY <2>1, <2>2, <2>9, <3>2, <4>1 DEF Finished
      <4> QED
        BY <3>2, <4>2 DEF ConvolvedFull
    <3> QED
      BY <2>2, <2>11, <3>1, <3>2
  <2> QED
    BY <1>2, <2>2, <2>7, <2>8, <2>10, <2>11 DEF FullHold
<1>5. CASE job.op = "ghosts"
  BY <1>1, <1>5, GhostJob
<1> QED
  BY <1>1, <1>3, <1>4, <1>5
LEMMA FullMultiply ==
  ASSUME FInv, Multiply
  PROVE  FullHold'
<1> DEFINE n == job.n
           N == Padded(job.n)
           v == Times(field["f1p"], field["f2p"], N)
<1>1. /\ Now.kind = "product" /\ UNCHANGED job /\ NextStep
      /\ field' = [field EXCEPT !["f2p"] = v]
  BY DEF Multiply
<1>2. InScript /\ job \in Jobs /\ job.op \in {"pair", "triple"}
  <2>1. InScript /\ job.op \in {"copy", "pair", "triple", "ghosts"}
    BY JobFacts DEF FInv, DInv, IInv, Types, InScript
  <2>2. job.op # "copy"
    <3>1. job.op = "copy" => Now.kind = "copy"
      BY <2>1, CopyJob DEF Copy
    <3> QED
      BY <1>1, <3>1
  <2> QED
    BY <1>1, <2>1, <2>2, GhostJob DEF InScript
<1>3. PICK b \in Bases : step \in b + 1 .. b + 4
  BY <1>2, InConvolution
<1>4. /\ b \in {0, 4} /\ Bases \subseteq {0, 4} /\ Length(job) \in {4, 8}
      /\ Length(job) >= b + 4 /\ n \in Nat \ {0} /\ n % 2 = 0
  BY <1>2, BasesAre
<1>5. step = b + 3
  <2>1. step \notin {b + 1, b + 2, b + 4}
    BY <1>1, <1>2, StepsAre DEF Copy
  <2> QED
    BY <1>3, <1>4, <2>1
<1>6. step' = b + 4 /\ ~AllAt("done")'
  BY <1>1, <1>4, <1>5, SomeRank DEF NextStep, AllAt
<1>7. Full(field["f1p"], N, Factor(b)) /\ Full(field["f2p"], N, Resolved(n))
  BY <1>4, <1>5 DEF FInv, FullHold, ConvolvedFull
<1>8. Full(v, N, Result(b))
  BY <1>4, <1>7, ProductIsFull, Modes DEF Result
<1> HIDE DEF v
<1>9. field'["f2p"] = v /\ \A y \in Names : y # "f2p" => field'[y] = field[y]
  <2>1. "f2p" \in Names /\ InputsClean
    BY DEF Names, FInv, DInv, FieldsHold
  <2> QED
    BY <1>1, <2>1, OneFieldChanges
<1>10. InputsFull' /\ CopiedFull'
  <2>1. InputsFull'
    BY <1>1, <1>9 DEF FInv, FullHold, InputsFull, Names, Inputs
  <2>2. CopiedFull'
    BY <1>6 DEF CopiedFull
  <2> QED
    BY <2>1, <2>2
<1>11. ConvolvedFull(b)'
  <2>1. Full(field'["f2p"], Padded(job'.n), Result(b)')
    BY <1>1, <1>8, <1>9, SameModes
  <2> QED
    BY <1>4, <1>6, <2>1 DEF ConvolvedFull, Finished
<1>12. ASSUME NEW c \in Bases, c # b
       PROVE  ConvolvedFull(c)'
  <2>1. CASE c = 0 /\ b = 4
    <3>1. Finished(0 + 4)
      BY <1>5, <2>1 DEF Finished
    <3>2. Outcome(0) = "fbuf"
      BY <1>2, <2>1, BasesAre DEF Outcome
    <3>3. Full(field["fbuf"], job.n, Result(0)) /\ field'["fbuf"] = field["fbuf"]
      BY <1>9, <2>1, <3>1, <3>2 DEF FInv, FullHold, ConvolvedFull, Names
    <3>4. Full(field'[Outcome(0)'], job'.n, Result(0)')
      BY <1>1, <3>2, <3>3, SameModes
    <3> QED
      BY <1>6, <2>1, <3>4 DEF ConvolvedFull
  <2>2. CASE c = 4 /\ b = 0
    BY <1>6, <2>2 DEF ConvolvedFull, Finished
  <2> QED
    BY <1>4, <1>12, <2>1, <2>2
<1>13. Bases' = Bases
  BY <1>1 DEF Bases
<1> QED
  BY <1>10, <1>11, <1>12, <1>13 DEF FullHold

\* A rank that is not in an exchange, or has not begun to receive, is not
\* spoken of.
LEMMA RowsBefore ==
  ASSUME \A r \in Rank : pc'[r] \notin {"receive", "wait", "leave"}
  PROVE  RowsHold'
BY DEF RowsHold

LEMMA RowsStay ==
  ASSUME RowsHold, UNCHANGED <<job, step, field>>,
         \A r \in Rank : pc'[r] \in {"receive", "wait", "leave"} =>
           pc[r] \in {"receive", "wait", "leave"} /\ todo[r] \subseteq todo'[r]
  PROVE  RowsHold'
<1>1. Now' = Now
  BY SameScript
<1> QED
  BY <1>1 DEF RowsHold

LEMMA RowsIsend ==
  ASSUME FInv, NEW r \in Rank, Isend(r)
  PROVE  RowsHold'
<1>1. /\ pc[r] = "send" /\ pc' = [pc EXCEPT ![r] = "receive"]
      /\ todo' = [todo EXCEPT ![r] = Receives(r)]
      /\ UNCHANGED <<job, step, field>>
  BY DEF Isend
<1>2. /\ todo'[r] = Receives(r)
      /\ \A q \in Rank : q # r => pc'[q] = pc[q] /\ todo'[q] = todo[q]
  BY <1>1 DEF FInv, DInv, IInv, Types
<1>3. Now' = Now
  BY <1>1, SameScript
<1>4. SUFFICES ASSUME Now.kind = "copy", NEW q \in Rank, pc'[q] \in {"receive", "wait", "leave"},
                      NEW p \in Slab(Now.nb, q), IsReceived(p, Now.na, Now.nb),
                      \A w \in todo'[q] : w.tag # p
               PROVE  field[Now.b][p] =
                        CopyRow(field[Now.a][SendIndex(p, Now.na, Now.nb)], Now.na, Now.nb)
  BY <1>1, <1>3 DEF RowsHold
<1>5. q # r
  <2>1. SUFFICES ASSUME q = r PROVE FALSE
    OBVIOUS
  <2> DEFINE w == [src |-> get_task(SendIndex(p, Now.na, Now.nb), offsets(Now.na)), dst |-> r,
                   tag |-> p, turn |-> p]
  <2>2. w \in Receives(r) /\ w.tag = p
    BY <1>4, <2>1 DEF Receives, CopyReceives
  <2> QED
    BY <1>2, <1>4, <2>1, <2>2
<1> QED
  BY <1>2, <1>4, <1>5 DEF FInv, RowsHold

\* Outside an exchange of rows the field is as it was; in it, one row comes.
LEMMA RowArrives ==
  ASSUME FInv, NEW r \in Rank, Recv(r), Now.kind = "copy"
  PROVE  \E w \in todo[r] :
           /\ todo' = [todo EXCEPT ![r] = @ \ {w}]
           /\ w.tag \in 0 .. Now.nb - 1
           /\ field'[Now.b][w.tag] =
                CopyRow(field[Now.a][SendIndex(w.tag, Now.na, Now.nb)], Now.na, Now.nb)
           /\ \A p \in 0 .. Now.nb - 1 : p # w.tag => field'[Now.b][p] = field[Now.b][p]
           /\ \A x \in Names : x # Now.b => field'[x] = field[x]
<1>1. PICK w \in InProgress(r), m \in net :
        /\ m.src = w.src /\ m.dst = r /\ m.tag = w.tag
        /\ todo' = [todo EXCEPT ![r] = @ \ {w}]
        /\ field' = [field EXCEPT ![Now.b][w.tag] =
                       CopyRow(field[Now.a][m.plane], Now.na, Now.nb)]
  BY DEF Recv
<1>2. pc[r] = "receive" /\ w \in todo[r]
  BY DEF Recv, InProgress
<1>3. DInv /\ Exchanging /\ w \in Receives(r)
  BY <1>2, Exchange DEF FInv, DInv, IInv, TodoIsOpen
<1> DEFINE a == Now.na
           b == Now.nb
           x == Now.b
           p == w.tag
           row == CopyRow(field[Now.a][m.plane], a, b)
           old == field[x]
           new == [old EXCEPT ![p] = row]
<1>4. a \in Nat \ {0} /\ b \in Nat \ {0} /\ Copyable(a, b) /\ x \in Names
  BY <1>3, Source
<1>5. p \in 0 .. b - 1
  <2>1. w \in CopyReceives(r, a, b)
    BY <1>3 DEF Receives
  <2>2. p \in Slab(b, r)
    BY <2>1 DEF CopyReceives
  <2> QED
    BY <1>4, <2>2, SlabInside
<1>6. m.plane = SendIndex(p, a, b)
  <2>1. m \in Sends(m.src) /\ m.src \in Rank
    BY <1>1 DEF FInv, DInv, IInv, SentIsExpected
  <2>2. m \in CopySends(m.src, a, b)
    BY <2>1 DEF Sends
  <2>3. PICK k \in Slab(a, m.src) :
          IsSent(k, a, b) /\ m.tag = RecvIndex(k, a, b) /\ m.plane = k
    BY <2>2 DEF CopySends
  <2>4. k \in 0 .. a - 1
    BY <1>4, <2>1, <2>3, SlabInside
  <2>5. SendIndex(RecvIndex(k, a, b), a, b) = k
    BY <1>4, <2>3, <2>4, SentIsReceived
  <2> QED
    BY <1>1, <2>3, <2>5
<1>7. IsField(old, b)
  <2>1. ~AllAt("enter")
    BY <1>2 DEF AllAt
  <2> QED
    BY <1>3, <2>1, Destination DEF Padding
<1>8. /\ new[p] = row /\ \A i \in 0 .. b - 1 : i # p => new[i] = old[i]
  <2> HIDE DEF a, b, x, p, row, old
  <2> QED
    BY <1>4, <1>5, <1>7 DEF IsField
<1>9. field' = [field EXCEPT ![x] = new]
  BY <1>1
<1> HIDE DEF new
<1>10. field'[x] = new /\ \A y \in Names : y # x => field'[y] = field[y]
  <2>1. InputsClean
    BY <1>3 DEF DInv, FieldsHold
  <2> QED
    BY <1>4, <1>9, <2>1, OneFieldChanges
<1> QED
  BY <1>1, <1>2, <1>5, <1>6, <1>8, <1>10

LEMMA RowsRecv ==
  ASSUME FInv, NEW r \in Rank, Recv(r)
  PROVE  RowsHold'
<1>1. pc[r] = "receive" /\ UNCHANGED <<job, step, pc>>
  BY DEF Recv
<1>2. Now' = Now
  BY <1>1, SameScript
<1>3. SUFFICES ASSUME Now.kind = "copy", NEW q \in Rank, pc[q] \in {"receive", "wait", "leave"},
                      NEW p \in Slab(Now.nb, q), IsReceived(p, Now.na, Now.nb),
                      \A w \in todo'[q] : w.tag # p
               PROVE  field'[Now.b][p] =
                        CopyRow(field'[Now.a][SendIndex(p, Now.na, Now.nb)], Now.na, Now.nb)
  BY <1>1, <1>2 DEF RowsHold
<1>4. PICK w \in todo[r] :
           /\ todo' = [todo EXCEPT ![r] = @ \ {w}]
           /\ w.tag \in 0 .. Now.nb - 1
           /\ field'[Now.b][w.tag] =
                CopyRow(field[Now.a][SendIndex(w.tag, Now.na, Now.nb)], Now.na, Now.nb)
           /\ \A i \in 0 .. Now.nb - 1 : i # w.tag => field'[Now.b][i] = field[Now.b][i]
           /\ \A x \in Names : x # Now.b => field'[x] = field[x]
  BY <1>3, RowArrives
<1>5. field'[Now.a] = field[Now.a] /\ p \in 0 .. Now.nb - 1
  <2>1. Now.a \in Names /\ Now.a # Now.b /\ Now.nb \in Nat \ {0}
    BY <1>3, Source DEF FInv
  <2> QED
    BY <1>4, <2>1, SlabInside
<1>6. CASE p = w.tag
  BY <1>4, <1>5, <1>6
<1>7. CASE p # w.tag
  <2>1. \A v \in todo[q] : v.tag # p
    BY <1>3, <1>4, <1>7 DEF FInv, DInv, IInv, Types
  <2>2. field[Now.b][p] =
          CopyRow(field[Now.a][SendIndex(p, Now.na, Now.nb)], Now.na, Now.nb)
    BY <1>3, <2>1 DEF FInv, RowsHold
  <2> QED
    BY <1>4, <1>5, <1>7, <2>2
<1> QED
  BY <1>6, <1>7
\* The last barrier of a copy: every rank has all its rows.
LEMMA FullLeave ==
  ASSUME FInv, Leave
  PROVE  FullHold'
<1>1. AllAt("leave") /\ NextStep /\ UNCHANGED <<job, field>>
  BY DEF Leave
<1>2. ~AllAt("done") /\ ~AllAt("enter")
  BY <1>1, SomeRank DEF AllAt
<1>3. CASE Now.kind = "copy"
  <2> DEFINE a == Now.na
             b == Now.nb
  <2>1. a \in Nat \ {0} /\ b \in Nat \ {0} /\ Copyable(a, b)
    BY <1>3, Source DEF FInv
  <2>2. ASSUME NEW p \in 0 .. b - 1, IsReceived(p, a, b)
        PROVE  field[Now.b][p] = CopyRow(field[Now.a][SendIndex(p, a, b)], a, b)
    <3>1. PICK r \in Rank : p \in Slab(b, r)
      BY <2>1, Owned
    <3>2. pc[r] = "leave" /\ todo[r] = {}
      BY <1>1 DEF AllAt, FInv, DInv, IInv, TodoIsOpen
    <3> QED
      BY <1>3, <2>2, <3>1, <3>2 DEF FInv, RowsHold
  <2>3. ASSUME NEW K \in SUBSET Resolved(Smaller(a, b)), Smaller(a, b) % 2 = 0,
               Full(field[Now.a], a, K)
        PROVE  Full(field[Now.b], b, K)
    <3> DEFINE f == field[Now.a]
               g == field[Now.b]
    <3>1. \A p \in 0 .. b - 1 : IsReceived(p, a, b) =>
            g[p] = CopyRow(f[SendIndex(p, a, b)], a, b)
      BY <2>2
    <3>2. Full(f, a, K)
      BY <2>3
    <3> HIDE DEF f, g, a, b
    <3>3. Full(g, b, K)
      BY <2>1, <2>3, <3>1, <3>2, CopyIsFull
    <3> QED
      BY <3>3 DEF g
  <2>4. field'[Now.b] = field[Now.b] /\ \A x \in Names : field'[x] = field[x]
    BY <1>1
  <2> QED
    BY <1>1, <1>2, <1>3, <2>3, <2>4, FullCopied
<1>4. CASE Now.kind # "copy"
  <2>1. job.op = "ghosts"
    <3>1. InScript /\ job \in Jobs /\ job.op \in {"copy", "pair", "triple", "ghosts"}
      BY JobFacts DEF FInv, DInv, IInv, Types, InScript
    <3>2. job.op # "copy"
      BY <1>4, <3>1, CopyJob DEF Copy
    <3>3. SUFFICES ASSUME job.op \in {"pair", "triple"} PROVE FALSE
      BY <3>1, <3>2
    <3>4. PICK c \in Bases : step \in c + 1 .. c + 4
      BY <3>1, <3>3, InConvolution
    <3>5. c \in {0, 4}
      BY <3>1, BasesAre
    <3>6. step = c + 3
      <4>1. step \notin {c + 1, c + 2, c + 4}
        BY <1>4, <3>1, StepsAre DEF Copy
      <4> QED
        BY <3>4, <3>5, <4>1
    <3> QED
      BY <1>2, <3>6 DEF FInv, DInv, FieldsHold, Convolved
  <2>2. Bases' = {} /\ job' = job
    BY <1>1, <2>1 DEF Bases
  <2> QED
    BY <1>1, <2>1, <2>2 DEF FInv, FullHold, InputsFull, CopiedFull
<1> QED
  BY <1>3, <1>4

LEMMA FullCopyFrom ==
  ASSUME FInv, CopyFrom
  PROVE  FullHold'
<1>1. /\ AllAt("enter") /\ Now.kind = "copy" /\ Now.na = Now.nb /\ UNCHANGED job /\ NextStep
      /\ field' = [field EXCEPT ![Now.b] = field[Now.a]]
  BY DEF CopyFrom
<1>2. ~AllAt("done")
  BY <1>1, SomeRank DEF AllAt
<1>3. Now.b \in Names /\ InputsClean
  BY <1>1, Source DEF FInv, DInv, FieldsHold
<1>4. field'[Now.b] = field[Now.a] /\ \A x \in Names : x # Now.b => field'[x] = field[x]
  BY <1>1, <1>3, OneFieldChanges
<1> QED
  BY <1>1, <1>2, <1>4, FullCopied

\* The inputs hold every mode.
LEMMA FInit == Init => FInv
<1>1. SUFFICES ASSUME Init PROVE RowsHold /\ FullHold
  BY DInit DEF FInv
<1>2. /\ job \in Jobs /\ job.n \in Nat \ {0} /\ step = 1
      /\ \A r \in Rank : pc[r] = "enter"
  BY <1>1, JobFacts DEF Init
<1>3. RowsHold
  BY <1>2 DEF RowsHold
<1>4. ~AllAt("done")
  BY <1>2, SomeRank DEF AllAt
<1>5. InputsFull
  <2>1. \A x \in Inputs : field[x] = Kernel(job.n)
    BY <1>1 DEF Init
  <2>2. Full(Kernel(job.n), job.n, Resolved(job.n))
    BY DEF Full, Kernel
  <2> QED
    BY <2>1, <2>2 DEF InputsFull
<1>6. ASSUME NEW b \in Bases PROVE ConvolvedFull(b)
  BY <1>2, <1>4, BasesAre DEF ConvolvedFull, Finished
<1> QED
  BY <1>3, <1>4, <1>5, <1>6 DEF FullHold, CopiedFull

LEMMA FNext == FInv /\ [Next]_vars => FInv'
<1>1. SUFFICES ASSUME FInv, [Next]_vars PROVE RowsHold' /\ FullHold'
  BY DNext DEF FInv
<1>2. CASE EnterCopy
  <2>1. /\ AllAt("enter") /\ Now.kind = "copy" /\ UNCHANGED <<job, step>>
        /\ field' = [field EXCEPT ![Now.b] = Zero(Now.nb)]
        /\ pc' = [r \in Rank |-> "send"]
    BY <1>2 DEF EnterCopy
  <2>2. ~AllAt("done") /\ ~AllAt("done")'
    BY <2>1, SomeRank DEF AllAt
  <2>3. \A x \in Names : x # Now.b => field'[x] = field[x]
    BY <1>1, <2>1 DEF FInv, DInv, FieldsHold, InputsClean
  <2> QED
    BY <1>1, <2>1, <2>2, <2>3, RowsBefore, FullElsewhere
<1>3. CASE CopyFrom
  <2>1. \A r \in Rank : pc'[r] \in {"enter", "done"}
    BY <1>3 DEF CopyFrom, NextStep
  <2> QED
    BY <1>1, <1>3, <2>1, RowsBefore, FullCopyFrom
<1>4. CASE EnterGhosts
  <2>1. AllAt("enter") /\ UNCHANGED <<job, step, field>> /\ pc' = [r \in Rank |-> "send"]
    BY <1>4 DEF EnterGhosts
  <2>2. ~AllAt("done") /\ ~AllAt("done")'
    BY <2>1, SomeRank DEF AllAt
  <2> QED
    BY <1>1, <2>1, <2>2, RowsBefore, FullStays
<1>5. CASE Multiply
  <2>1. \A r \in Rank : pc'[r] \in {"enter", "done"}
    BY <1>5 DEF Multiply, NextStep
  <2> QED
    BY <1>1, <1>5, <2>1, RowsBefore, FullMultiply
<1>6. CASE Flush
  <2>1. /\ \A r \in Rank : pc[r] = "receive"
        /\ UNCHANGED <<job, todo, field>>
    BY <1>6 DEF Flush
  <2>2. ~AllAt("done")
    BY <2>1, SomeRank DEF AllAt
  <2>3. CASE Now = Ghosts("right")
    <3>1. NextStep
      BY <1>6, <2>3 DEF Flush
    <3>2. \A r \in Rank : pc'[r] \in {"enter", "done"}
      BY <3>1 DEF NextStep
    <3>3. InScript /\ Now.kind = "ghosts"
      BY <1>1, <2>3 DEF Ghosts, FInv, DInv, IInv, Types
    <3>4. job.op = "ghosts"
      BY <3>3, GhostJob
    <3>5. Bases' = {} /\ job' = job
      BY <2>1, <3>4 DEF Bases
    <3>6. FullHold'
      BY <1>1, <2>1, <3>4, <3>5 DEF FInv, FullHold, InputsFull, CopiedFull
    <3> QED
      BY <3>2, <3>6, RowsBefore
  <2>4. CASE Now # Ghosts("right")
    <3>1. UNCHANGED step /\ pc' = [r \in Rank |-> "wait"]
      BY <1>6, <2>4 DEF Flush
    <3>2. ~AllAt("done")'
      BY <3>1, SomeRank DEF AllAt
    <3>3. RowsHold'
      BY <1>1, <2>1, <3>1, RowsStay DEF FInv
    <3> QED
      BY <1>1, <2>1, <2>2, <3>1, <3>2, <3>3, FullStays
  <2> QED
    BY <2>3, <2>4
<1>7. CASE Leave
  <2>1. \A r \in Rank : pc'[r] \in {"enter", "done"}
    BY <1>7 DEF Leave, NextStep
  <2> QED
    BY <1>1, <1>7, <2>1, RowsBefore, FullLeave
<1>8. ASSUME NEW r \in Rank, Isend(r)
      PROVE  RowsHold' /\ FullHold'
  <2>1. /\ pc[r] = "send" /\ pc' = [pc EXCEPT ![r] = "receive"]
        /\ UNCHANGED <<job, step, field>>
    BY <1>8 DEF Isend
  <2>2. ~AllAt("done") /\ ~AllAt("done")'
    BY <1>1, <2>1 DEF AllAt, FInv, DInv, IInv, Types
  <2> QED
    BY <1>1, <1>8, <2>1, <2>2, RowsIsend, FullStays
<1>9. ASSUME NEW r \in Rank, Recv(r)
      PROVE  RowsHold' /\ FullHold'
  <2>1. pc[r] = "receive" /\ UNCHANGED <<job, step, pc>>
    BY <1>9 DEF Recv
  <2>2. ~AllAt("done") /\ ~AllAt("done")'
    BY <2>1 DEF AllAt
  <2>3. CASE Now.kind = "copy"
    BY <1>1, <1>9, <2>1, <2>2, <2>3, RowArrives, RowsRecv, FullElsewhere
  <2>4. CASE Now.kind # "copy"
    <3>1. UNCHANGED field
      BY <1>9, <2>4 DEF Recv
    <3> QED
      BY <1>1, <1>9, <2>1, <2>2, <3>1, RowsRecv, FullStays
  <2> QED
    BY <2>3, <2>4
<1>10. ASSUME NEW r \in Rank, WaitAll(r)
       PROVE  RowsHold' /\ FullHold'
  <2>1. /\ pc[r] = "wait" /\ pc' = [pc EXCEPT ![r] = "leave"]
        /\ UNCHANGED <<job, step, todo, field>>
    BY <1>10 DEF WaitAll
  <2>2. /\ ~AllAt("done") /\ ~AllAt("done")'
        /\ \A q \in Rank : pc'[q] \in {"receive", "wait", "leave"} =>
             pc[q] \in {"receive", "wait", "leave"}
    BY <1>1, <2>1 DEF AllAt, FInv, DInv, IInv, Types
  <2>3. RowsHold'
    BY <1>1, <2>1, <2>2, RowsStay DEF FInv
  <2> QED
    BY <1>1, <2>1, <2>2, <2>3, FullStays
<1>11. CASE UNCHANGED vars
  <2>1. UNCHANGED <<job, step, pc, todo, field>> /\ (AllAt("done")' <=> AllAt("done"))
    BY <1>11 DEF vars, AllAt
  <2>2. RowsHold'
    BY <1>1, <2>1, RowsStay DEF FInv
  <2> QED
    BY <1>1, <2>1, <2>2, FullStays
<1> QED
  BY <1>1, <1>2, <1>3, <1>4, <1>5, <1>6, <1>7, <1>8, <1>9, <1>10, <1>11
     DEF Next, Together, RankStep

\* No copy and no convolution loses a mode that its result resolves, for all
\* sizes the program copies between (JobsAssumption: to at most twice as fine a
\* grid), any number of ranks and any order of the messages
\* (FourierInterpolateCopyTo, OrszagConvolver).
THEOREM NoModeIsLost == Spec => []NoModeLost
<1>1. FInv => NoModeLost
  <2> DEFINE n == IF job.op = "copy" THEN job.m ELSE job.n
             known == Exact(IF job.op = "copy" THEN Smaller(job.n, job.m) ELSE n, Operands)
  <2>1. SUFFICES ASSUME FInv, AllAt("done"), job.op # "ghosts", job.m % 2 = 0
                 PROVE  Full(field["out"], n, known)
    BY DEF NoModeLost, Full
  <2>2. InScript /\ job \in Jobs /\ job.op \in {"copy", "pair", "triple"}
    BY <2>1, JobFacts DEF FInv, DInv, IInv, Types, InScript
  <2>3. CASE job.op = "copy"
    <3>1. known = Resolved(Smaller(job.n, job.m))
      BY <2>3 DEF Operands, Exact
    <3> QED
      BY <2>1, <2>3, <3>1 DEF FInv, FullHold, CopiedFull
  <2>4. CASE job.op = "pair"
    <3>1. known = Result(0) /\ 0 \in Bases /\ Outcome(0) = "out"
      BY <2>4, Modes DEF Operands, Bases, Outcome
    <3>2. Finished(0 + 4)
      BY <2>1 DEF Finished
    <3> QED
      BY <2>1, <2>4, <3>1, <3>2 DEF FInv, FullHold, ConvolvedFull
  <2>5. CASE job.op = "triple"
    <3>1. known = Result(4) /\ 4 \in Bases /\ Outcome(4) = "out"
      BY <2>5, Modes DEF Operands, Bases, Outcome
    <3>2. Finished(4 + 4)
      BY <2>1 DEF Finished
    <3> QED
      BY <2>1, <2>5, <3>1, <3>2 DEF FInv, FullHold, ConvolvedFull
  <2> QED
    BY <2>2, <2>3, <2>4, <2>5
<1>2. Spec => []FInv
  BY FInit, FNext, PTL DEF Spec
<1> QED
  BY <1>1, <1>2, PTL
=============================================================================
