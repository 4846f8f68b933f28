------------------------ MODULE MCDescriptorPools ------------------------
(* Two threads, two command buffers and two pools.  They draw with a       *)
(* pipeline, a variant of it and a variant of another pipeline, or with    *)
(* two variants of one pipeline.                                           *)
EXTENDS DescriptorPools, TLC

CONSTANTS t1, t2, b1, b2, p1, p2, s1, s2

TwoPipelines == {<<1, None>>, <<1, s1>>, <<2, s2>>}
TwoVariants == {<<1, s1>>, <<1, s2>>}

Symmetry == Permutations(Threads) \cup Permutations(Buffers) \cup Permutations(Pools)
=============================================================================
