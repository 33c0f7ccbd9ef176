---------------------------- MODULE GpoApplication ----------------------------
(***************************************************************************)
(* Which Group Policy objects apply to a computer, and whose value of a    *)
(* setting wins there.  The program computes it twice: for the domain      *)
(* controllers in the view v_gpo_dc_application, for every computer in the *)
(* query COMPUTER_GPO_SQL that thirteen plugins share.  A record r holds   *)
(* the domain and two organizational units above one computer, and the     *)
(* links of each in the order of its gPLink attribute.                     *)
(***************************************************************************)
EXTENDS Ratings, Sequences

Policies == {"p", "q"}
Link == [gpo : Policies, enforced : BOOLEAN, enabled : BOOLEAN]
LinkLists == {<<>>} \cup {<<l>> : l \in Link} \cup {<<l, m>> : l, m \in Link}

\* The access a computer's entries on a policy give it.
Filters == {"not collected", "apply", "deny", "no entry"}

ApplicationValues ==
    [ domainLinks |-> LinkLists, ouLinks |-> LinkLists, subOuLinks |-> LinkLists,
      blocking |-> SUBSET {1, 2, 3},               \* containers that block inheritance, by depth
      computerOff |-> SUBSET Policies,             \* policies with computer settings disabled
      filter |-> [Policies -> Filters], setBy |-> SUBSET Policies ]

\* A container links a policy once.
ApplicationPossible(r) ==
    \A list \in {r.domainLinks, r.ouLinks, r.subOuLinks} : Len(list) = 2 => list[1].gpo # list[2].gpo

Chain(r) == <<r.domainLinks, r.ouLinks, r.subOuLinks>>
At(r, link) == Chain(r)[link[1]][link[2]]

\* The deepest unit that blocks inheritance; the domain cannot.
BlockDepth(r) == IF r.blocking \ {1} = {} THEN 0 ELSE CHOOSE d \in r.blocking : \A e \in r.blocking : e <= d

\* The links, by depth and position, of the policies that apply.
ComputerLinks(r) ==
    { link \in UNION {{d} \X DOMAIN Chain(r)[d] : d \in 1 .. 3} :
        /\ At(r, link).enabled
        /\ At(r, link).gpo \notin r.computerOff
        /\ At(r, link).enforced \/ link[1] >= BlockDepth(r) }

\* On a domain controller, those whose security filter lets it apply them.
DcLinks(r) == {link \in ComputerLinks(r) : r.filter[At(r, link).gpo] \in {"not collected", "apply"}}

\* Slip: the nearest enforced link wins too.
SlipPrecedes(r, l, m) ==
    \/ At(r, l).enforced /\ ~At(r, m).enforced
    \/ /\ At(r, l).enforced = At(r, m).enforced
       /\ l[1] > m[1] \/ (l[1] = m[1] /\ l[2] > m[2])

\* An enforced link before any other, from the domain down; the others from
\* the computer up; within a container the last of gPLink first.
Precedes(r, l, m) ==
    \/ At(r, l).enforced /\ ~At(r, m).enforced
    \/ /\ At(r, l).enforced = At(r, m).enforced
       /\ \/ l[1] # m[1] /\ (At(r, l).enforced <=> l[1] < m[1])
          \/ l[1] = m[1] /\ l[2] > m[2]

\* The policy whose value of the setting wins among these links.
Winner(r, links) ==
    LET setting == {l \in links : At(r, l).gpo \in r.setBy}
    IN  IF setting = {} THEN Null
        ELSE At(r, CHOOSE l \in setting : \A m \in setting \ {l} : Precedes(r, l, m)).gpo

WinnerOnComputer(r) == Winner(r, ComputerLinks(r))
WinnerOnDc(r) == Winner(r, DcLinks(r))

-----------------------------------------------------------------------------
\* The positions of the links of a container, enforced or not, whose policy
\* writes the setting.
Writers(r, policies, depth, enforced) ==
    LET blocked == \E e \in r.blocking \ {1} : e > depth
    IN  { i \in DOMAIN Chain(r)[depth] :
            /\ At(r, <<depth, i>>).enabled /\ At(r, <<depth, i>>).gpo \in policies \cap r.setBy
            /\ At(r, <<depth, i>>).enforced = enforced
            /\ enforced \/ ~blocked }

\* The policy that has the setting when those links are done with; the later
\* links of a container write over the earlier.
Write(r, policies, depth, enforced, owner) ==
    LET writers == Writers(r, policies, depth, enforced)
    IN  IF writers = {} THEN owner
        ELSE At(r, <<depth, CHOOSE i \in writers : \A j \in writers : j <= i>>).gpo

\* What a computer does with the links: it writes the settings of one policy
\* after the other, the later over the earlier, first those of links that are
\* not enforced, from the domain down and none from above a unit that blocks
\* them, then those of enforced links from its own unit up.
LastWriter(r, policies) ==
    LET write(depth, enforced, owner) == Write(r, policies, depth, enforced, owner)
        linked == write(3, FALSE, write(2, FALSE, write(1, FALSE, Null)))
    IN  write(1, TRUE, write(2, TRUE, write(3, TRUE, linked)))

On(r) == Policies \ r.computerOff
Unfiltered(r) == {g \in On(r) : r.filter[g] \in {"not collected", "apply"}}
=============================================================================
