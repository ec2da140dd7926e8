------------------------------ MODULE MCVmxModule ------------------------------
(* Three ranges of 32 MSRs, two words each, with MSRs at both ends of a word,  *)
(* of a range, and outside.                                                    *)
EXTENDS VmxModule, TLC

MCRanges == <<0, 64, 128>>
Symmetry == Permutations(Cpus) \union Permutations(Values)
===============================================================================
