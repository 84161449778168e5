---------------------------- MODULE MC_Profiles ----------------------------
(* Model-checking instances of Profiles: two store processes, two profile  *)
(* names, two wrap keys, one session.                                      *)
EXTENDS Profiles, TLC

CONSTANTS p1, p2, dflt, n1, w1, w2, s1

MCProcs    == {p1, p2}
MCPNames   == {dflt, n1}
MCWrapKeys == {w1, w2}
MCSessions == {s1}
MCNoProcs  == {}
MCOneCreator == {p1}
MCOnlyDefault == {dflt}
ProcSymmetry == Permutations(MCProcs)
==============================================================================
