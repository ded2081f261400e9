--------------------------- MODULE MCDefaultEngine ---------------------------
(* DefaultEngine with one slab class of two chunks and two values. *)
EXTENDS DefaultEngine

OneClass(v) == 1

PerSlab1 == [c \in {1} |-> 2]

\* An operation on a counter always changes it.
Other(v) == 1 - v

Symmetry == Permutations(Thread) \cup Permutations(Keys)
=============================================================================
