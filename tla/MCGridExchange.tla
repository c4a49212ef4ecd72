---------------------------- MODULE MCGridExchange ----------------------------
(***************************************************************************)
(* An instance of GridExchange for TLC.                                    *)
(***************************************************************************)
EXTENDS GridExchange

Do(op, n, m) == [op |-> op, n |-> n, m |-> m]

\* Copies down, up to twice as fine, to an odd size and to the same size;
\* convolutions whose padded grid is even and odd; ghost zones deeper than a
\* slab, and with ranks that have no planes.
MCJobs ==
  {j \in {Do("copy", n, m) : n \in {2, 4, 6, 8}, m \in {2, 5, 6, 8}} : j.m \div 2 <= j.n}
  \cup {Do("pair", n, n) : n \in {4, 6}}
  \cup {Do("triple", n, n) : n \in {2, 4}}
  \cup {Do("ghosts", n, m) : n \in {2, 3, 5, 8}, m \in {1, 2}}
=============================================================================
