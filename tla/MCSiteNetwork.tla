---------------------------- MODULE MCSiteNetwork ----------------------------
\* Instances of SiteNetwork: three switches in a triangle.
EXTENDS SiteNetwork

CONSTANTS A, B, C, a, b, c, a2, ab, ab2, bc, ca, netA, netB, far

MCSwitchOf == [i \in Ids |-> CASE i \in {a, a2} -> A [] i = b -> B [] i = c -> C]
MCEndsOf == [l \in Links |-> CASE l \in {ab, ab2} -> {A, B} [] l = bc -> {B, C} [] l = ca -> {C, A}]
MCHomeOf == [n \in Subnets |-> CASE n = netA -> A [] n = netB -> B [] n = far -> Elsewhere]
Plan(who, ls, in, most, calls) ==
    [ids |-> who, links |-> ls, plugged |-> in, faults |-> most, losses |-> calls]

Triangle(most, calls) == Plan({a, b, c}, {ab, bc, ca}, {ab, bc, ca}, most, calls)
Pair(who, most, calls) == Plan(who, {ab, ab2}, {ab}, most, calls)

\* Three switches in a ring; two with a restart of the concentrator; two with a
\* lost call.
MCLayouts == {Triangle(1, 0), Pair({a, b, a2}, 2, 0), Pair({a, b}, 1, 1)}
=============================================================================
