---- MODULE MCSubQueue ----
EXTENDS SubQueueInv, TLC
Symmetry == Permutations(Consumers)
====
