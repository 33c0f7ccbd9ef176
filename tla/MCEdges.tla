------------------------------- MODULE MCEdges -------------------------------
(* The edge tables with one object of each kind, two where one is mistaken   *)
(* for another: every failure of one read meets every change of the others.  *)
EXTENDS EdgeTables, TLC

CONSTANTS ou1, gpo1, zone1, t1, u1, u2, s1, g1, g2, r1, v1, v2, a, b

MCOus == {ou1}
MCGpos == {gpo1}
MCZones == {zone1}
MCAclKeys == {gpo1, zone1} \X {t1}
MCAccounts == {u1, u2}
MCForeign == {s1}
MCGroups == {g1, g2}
MCRodcs == {r1}
MCValues == {v1, v2}   \* flags, names and settings: none meets another
MCFiles == {gpo1, Netlogon} \X {a, b}

Symmetry ==
  Permutations(MCValues) \cup Permutations(MCAccounts) \cup Permutations(MCGroups)
=============================================================================
