------------------------------ MODULE MCCustdev ------------------------------
(***************************************************************************)
(* Small instances of Custdev for TLC.  Kernel buffers are interchangeable *)
(* (nothing orders or compares them).                                      *)
(***************************************************************************)
EXTENDS Custdev

Symmetry == Permutations(Bufs)

\* No guard and none of the invariants reads what calls returned.
NoResults == <<drvVars, heapVars, inbuf_cb, tx, rx, pc, loc, devVars, anomaly>>
==============================================================================
