-------------------------------- MODULE MCPush --------------------------------
(* Small instances of Push.                                                *)
EXTENDS Push, TLC

CONSTANTS p1, p2, o1, o2, c1, c2, t1, t2
MCSymmetry ==
  Permutations(Plugins) \cup Permutations(Objects) \cup Permutations(Contents)
  \cup Permutations(ObjectTypes)

\* Findings and inventory meet only in the session and in the completion of
\* a run: with findings, nothing is sent of the inventory and nothing is
\* collected in between.
Halves ==
  facts = {} \/ (collected.latest = 1 /\ api.whole = 0 /\ session.inventory = {}
                 /\ \A t \in ObjectTypes : api.inventory[t] = {})
==============================================================================
