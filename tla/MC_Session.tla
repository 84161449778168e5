----------------------------- MODULE MC_Session -----------------------------
(* Model-checking instances of Session: two sessions (three where the pool *)
(* is contended or Scans hold connections), two entry names, one value,   *)
(* one tag.                                                                *)
EXTENDS Session, TLC

CONSTANTS s1, s2, s3, n1, n2, v1, t1

MCSessions == {s1, s2}
MCNames    == {n1, n2}
MCValues   == {v1}
MCTags     == {t1}
MCWriters  == {s1}
MCNoSessions == {}
MCNoTags     == {}
MCLockKinds  == {"insert", "replace", "remove"}
MCLiveKinds  == MCLockKinds \cup {"fetchAll"}
\* A writer and two Scan consumers sharing the pool of two.
MCPoolSessions == {s1, s2, s3}
MCScanners   == {s2, s3}
MCOneScanner == {s2}
Symmetry   == Permutations(MCSessions) \cup Permutations(MCNames)
==============================================================================
