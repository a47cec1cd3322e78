-------------------------- MODULE SiteNetworkProofs --------------------------
(***************************************************************************)
(* Proofs about SiteNetwork for any number of controllers, links, subnets, *)
(* concentrators, faults and lost calls.                                   *)
(***************************************************************************)
EXTENDS SiteNetwork, RecursionLemmas

Many == Cardinality(Ids)

\* There are finitely many controllers.
LEMMA HowMany == Many \in Nat
BY SiteAssumption, FS_CardinalityType DEF Many

-----------------------------------------------------------------------------
(* Loops.                                                                  *)

\* Without an element a set has one less.
LEMMA OneLess ==
    ASSUME NEW T, IsFiniteSet(T), NEW x \in T
    PROVE  Cardinality(T \ {x}) = Cardinality(T) - 1
BY FS_RemoveElement

\* A loop over S in progress: what is left of S and the state of the site.
Passes(S) == [left : SUBSET S, site : Sites]

\* A round leads from what is left to what is left without one.
LEMMA Rounds ==
    ASSUME NEW S, NEW step, NEW I \in SUBSET Passes(S),
           NEW pass \in I,
           \A x \in pass.left :
               /\ pass.site.ok => \A t \in step[x][pass.site] : [left |-> pass.left \ {x}, site |-> t] \in I
               /\ ~pass.site.ok => [left |-> pass.left \ {x}, site |-> pass.site] \in I
    PROVE  /\ Round(pass, step) \subseteq I
           /\ \A p \in Round(pass, step) : \E x \in pass.left : p.left = pass.left \ {x}
<1> SUFFICES ASSUME NEW p \in Round(pass, step)
             PROVE  p \in I /\ \E x \in pass.left : p.left = pass.left \ {x}
  OBVIOUS
<1>1. PICK x \in pass.left : \E t \in IF pass.site.ok THEN step[x][pass.site] ELSE {pass.site} :
         p = [left |-> pass.left \ {x}, site |-> t]
  BY DEF Round
<1>2. PICK t \in IF pass.site.ok THEN step[x][pass.site] ELSE {pass.site} :
         p = [left |-> pass.left \ {x}, site |-> t]
  BY <1>1
<1> QED BY <1>2

\* What holds of what is left and the state before a loop, and is kept by its
\* rounds, holds after it of nothing left and the state it ends in.
LEMMA LoopEnds ==
    ASSUME NEW S, IsFiniteSet(S), NEW s, NEW step, NEW I \in SUBSET Passes(S),
           [left |-> S, site |-> s] \in I,
           \A pass \in I : \A x \in pass.left :
               /\ pass.site.ok => \A t \in step[x][pass.site] : [left |-> pass.left \ {x}, site |-> t] \in I
               /\ ~pass.site.ok => [left |-> pass.left \ {x}, site |-> pass.site] \in I
    PROVE  \A t \in Loop(S, s, step) : [left |-> {}, site |-> t] \in I
<1> DEFINE C == Cardinality(S)
           first == {[left |-> S, site |-> s]}
           Next1(d) == UNION {Round(pass, step) : pass \in d}
           Eq(f) == f = [n \in 0..C |-> IF n = 0 THEN first ELSE Next1(f[n - 1])]
           F == CHOOSE f : Eq(f)
<1>1. C \in Nat
  BY FS_CardinalityType
<1>0. ASSUME NEW pass \in I
      PROVE  /\ Round(pass, step) \subseteq I
             /\ \A p \in Round(pass, step) : \E x \in pass.left : p.left = pass.left \ {x}
  BY Rounds
<1>2. \A d \in SUBSET I : Next1(d) \in SUBSET I
  BY <1>0
<1>3. first \in SUBSET I
  OBVIOUS
<1> HIDE DEF Next1, first, C
<1>4. \E f : Eq(f)
  <2> DEFINE G == [n \in 1..C |-> [d \in SUBSET I |-> Next1(d)]]
  <2>1. G \in [1..C -> [SUBSET I -> SUBSET I]]
    BY <1>2
  <2>2. PICK f : Recursive(f, C, SUBSET I, first, G)
    <3> DEFINE D == SUBSET I
    <3>1. first \in D /\ G \in [1..C -> [D -> D]]
      BY <1>3, <2>1
    <3> HIDE DEF G, D
    <3>2. \E f : Recursive(f, C, D, first, G)
      BY <1>1, <3>1, Recursion
    <3> QED BY <3>2 DEF D
  <2>0. f \in [0..C -> SUBSET I] /\ f[0] = first /\ \A n \in 1..C : f[n] = G[n][f[n - 1]]
    BY <2>2 DEF Recursive
  <2>3. \A n \in 0..C : f[n] = IF n = 0 THEN first ELSE Next1(f[n - 1])
    <3> SUFFICES ASSUME NEW n \in 0..C, n # 0 PROVE f[n] = Next1(f[n - 1])
      BY <2>0
    <3>1. n \in 1..C /\ n - 1 \in 0..C
      BY <1>1
    <3> QED BY <2>0, <3>1
  <2>4. f = [n \in 0..C |-> f[n]]
    BY <2>0
  <2> QED BY <2>3, <2>4
<1>5. Eq(F)
  BY <1>4
<1> HIDE DEF F
<1>6. F[0] = first /\ \A n \in 1..C : F[n] = Next1(F[n - 1])
  <2>1. 0 \in 0..C
    BY <1>1
  <2>2. \A n \in 1..C : n \in 0..C /\ n # 0
    BY <1>1
  <2> QED BY <1>5, <2>1, <2>2
<1> DEFINE good == {n \in 0..C : F[n] \subseteq I /\ \A pass \in F[n] : Cardinality(pass.left) = C - n}
<1>7. 0 \in good
  BY <1>1, <1>3, <1>6 DEF first, C
<1>8. ASSUME NEW n \in 1..C, n - 1 \in good PROVE n \in good
  <2>1. F[n] = Next1(F[n - 1]) /\ F[n - 1] \subseteq I
    BY <1>6, <1>8
  <2>2. F[n] \subseteq I
    BY <1>2, <2>1
  <2>3. ASSUME NEW p \in F[n] PROVE Cardinality(p.left) = C - n
    <3>1. PICK pass \in F[n - 1] : p \in Round(pass, step)
      BY <2>1 DEF Next1
    <3>2. PICK x \in pass.left : p.left = pass.left \ {x}
      <4>1. pass \in I
        BY <2>1
      <4> QED BY <1>0, <3>1, <4>1
    <3>3. IsFiniteSet(pass.left) /\ Cardinality(pass.left) = C - (n - 1)
      <4>1. pass.left \subseteq S
        BY <2>1 DEF Passes
      <4> QED BY <1>8, <4>1, FS_Subset
    <3>4. Cardinality(p.left) = Cardinality(pass.left) - 1
      BY <3>2, <3>3, OneLess
    <3> QED BY <1>1, <3>3, <3>4
  <2> QED BY <2>2, <2>3
<1> HIDE DEF good
<1>9. C \in good
  BY <1>1, <1>7, <1>8, Induction
<1>10. Loop(S, s, step) = {pass.site : pass \in F[C]}
  BY DEF Loop, F, C, Next1, first
<1> SUFFICES ASSUME NEW pass \in F[C] PROVE [left |-> {}, site |-> pass.site] \in I
  BY <1>10
<1>11. pass \in I /\ Cardinality(pass.left) = 0
  BY <1>1, <1>9 DEF good
<1>12. pass.left = {}
  <2>1. pass.left \subseteq S
    BY <1>11 DEF Passes
  <2> QED BY <1>11, <2>1, FS_Subset, FS_EmptySet
<1>13. pass = [left |-> pass.left, site |-> pass.site]
  BY <1>11 DEF Passes
<1> QED BY <1>11, <1>12, <1>13

-----------------------------------------------------------------------------
(* Distances in the topology.                                              *)

\* Being neighbours goes both ways.
LEMMA NeighboursOf ==
    ASSUME NEW graph, NEW i \in Ids
    PROVE  /\ Neighbours(graph, i) \subseteq Ids
           /\ \A j \in Ids : j \in Neighbours(graph, i) <=> i \in Neighbours(graph, j)
<1>1. \A j : {i, j} = {j, i}
  OBVIOUS
<1> QED BY <1>1 DEF Neighbours

\* Who is within n steps is within n - 1 or a neighbour of such a one.
LEMMA Balls ==
    ASSUME NEW graph, NEW i \in Ids
    PROVE  /\ Within(graph, i) \in [0..Many -> SUBSET Ids]
           /\ Within(graph, i)[0] = {i}
           /\ \A n \in 1..Many :
                Within(graph, i)[n] =
                    Within(graph, i)[n - 1] \union
                    UNION {Neighbours(graph, j) : j \in Within(graph, i)[n - 1]}
<1> DEFINE Wider(d) == d \union UNION {Neighbours(graph, j) : j \in d}
           Eq(f) == f = [n \in 0..Many |-> IF n = 0 THEN {i} ELSE Wider(f[n - 1])]
           F == CHOOSE f : Eq(f)
           D == SUBSET Ids
           G == [n \in 1..Many |-> [d \in D |-> Wider(d)]]
<1>1. Many \in Nat
  BY HowMany
<1>2. \A d \in D : Wider(d) \in D
  BY NeighboursOf
<1>3. G \in [1..Many -> [D -> D]] /\ {i} \in D
  BY <1>2
<1>4. PICK f : Recursive(f, Many, D, {i}, G)
  <2> HIDE DEF G, D
  <2> QED BY <1>1, <1>3, Recursion
<1>0. f \in [0..Many -> D] /\ f[0] = {i} /\ \A n \in 1..Many : f[n] = G[n][f[n - 1]]
  BY <1>4 DEF Recursive
<1>5. Eq(f)
  <2>1. \A n \in 0..Many : f[n] = IF n = 0 THEN {i} ELSE Wider(f[n - 1])
    <3> SUFFICES ASSUME NEW n \in 0..Many, n # 0 PROVE f[n] = Wider(f[n - 1])
      BY <1>0
    <3>1. n \in 1..Many /\ n - 1 \in 0..Many
      BY <1>1
    <3>2. f[n] = G[n][f[n - 1]] /\ f[n - 1] \in D
      BY <1>0, <3>1
    <3> QED BY <3>1, <3>2
  <2>2. f = [n \in 0..Many |-> f[n]]
    BY <1>0
  <2> QED BY <2>1, <2>2
<1>6. Eq(F)
  BY <1>5
<1>7. F = Within(graph, i)
  BY DEF Within, Many
<1> HIDE DEF F, Wider
<1>8. F[0] = {i} /\ \A n \in 1..Many : F[n] = Wider(F[n - 1])
  <2>1. 0 \in 0..Many /\ \A n \in 1..Many : n \in 0..Many /\ n # 0
    BY <1>1
  <2> QED BY <1>6, <2>1
<1>9. F \in [0..Many -> SUBSET Ids]
  <2> DEFINE good == {n \in 0..Many : F[n] \in SUBSET Ids}
  <2>1. 0 \in good
    BY <1>1, <1>8
  <2>2. ASSUME NEW n \in 1..Many, n - 1 \in good PROVE n \in good
    BY <1>2, <1>8, <2>2
  <2> HIDE DEF good
  <2>3. 0..Many \subseteq good
    BY <1>1, <2>1, <2>2, Induction
  <2>4. F = [n \in 0..Many |-> F[n]]
    BY <1>6
  <2> QED BY <2>3, <2>4 DEF good
<1> QED BY <1>7, <1>8, <1>9 DEF Wider

\* The next hop of a controller that is not the owner is a neighbour that is
\* nearer to the owner.
LEMMA NextHops ==
    ASSUME NEW graph, NEW i \in Ids, NEW j \in Reach(graph, i) \ {i}
    PROVE  /\ NextHop(graph, i, j) \in Neighbours(graph, j)
           /\ \E n \in 1..Many : /\ j \in Within(graph, i)[n] \ Within(graph, i)[n - 1]
                                 /\ NextHop(graph, i, j) \in Within(graph, i)[n - 1]
<1> DEFINE ball == Within(graph, i)
           far(n) == j \in ball[n] \ ball[n - 1]
           d == CHOOSE n \in 1..Many : far(n)
           near(k) == k \in ball[d - 1]
<1>1. Many \in Nat /\ j \in ball[Many] /\ j \in Ids
  BY HowMany, Balls DEF Reach, Many
<1>2. \E n \in 1..Many : far(n)
  <2> DEFINE S == {n \in 0..Many : j \in ball[n]}
  <2>1. S \in SUBSET Nat /\ Many \in S
    BY <1>1
  <2>2. PICK n \in S : \A m \in S : n <= m
    <3> HIDE DEF S
    <3> QED BY <2>1, LeastNumber
  <2>3. n # 0
    BY Balls
  <2>4. n \in 1..Many /\ n - 1 \in 0..Many /\ n - 1 < n
    BY <1>1, <2>3
  <2> QED BY <2>2, <2>4
<1>3. d \in 1..Many /\ far(d)
  BY <1>2
<1>4. \E k \in Neighbours(graph, j) : near(k)
  <2> HIDE DEF d
  <2>1. ball[d - 1] \subseteq Ids
    BY <1>1, <1>3, Balls
  <2>2. ball[d] = ball[d - 1] \union UNION {Neighbours(graph, k) : k \in ball[d - 1]}
    BY <1>3, Balls
  <2> HIDE DEF ball
  <2>3. PICK k \in ball[d - 1] : j \in Neighbours(graph, k)
    BY <1>3, <2>2
  <2>4. k \in Neighbours(graph, j)
    BY <1>1, <2>1, <2>3, NeighboursOf
  <2> QED BY <2>4
<1>5. NextHop(graph, i, j) = CHOOSE k \in Neighbours(graph, j) : near(k)
  BY DEF NextHop, Many
<1>6. NextHop(graph, i, j) \in Neighbours(graph, j) /\ near(NextHop(graph, i, j))
  <2> HIDE DEF near
  <2> QED BY <1>4, <1>5
<1> HIDE DEF d
<1> QED BY <1>3, <1>6

-----------------------------------------------------------------------------
(* The rules that are written.                                             *)

UpSet  == {i \in Ids : Up(i)}
OffSet == {i \in Ids : phase[i] = "off"}

\* The table of i holds the rules for it in R and no others.
Matches(s, R, i) ==
    \A n \in Subnets :
        /\ \A r \in R : r.src = i /\ r.net = n => s.table[i][n] = r
        /\ s.table[i][n] # NoRule =>
             s.table[i][n] \in R /\ s.table[i][n].src = i /\ s.table[i][n].net = n

\* Nothing is known of i, which was never started.
Blank(s, i) ==
    /\ i \notin s.known /\ i \notin s.endpoints
    /\ s.owned[i] = {} /\ s.edges[i] = {}
    /\ \A k \in Ids : \A e \in s.edges[k] : i \notin e.ends
    /\ \A e \in s.graph : i \notin e.ends
    /\ \A r \in s.rules : i # r.src /\ i # r.dst
    /\ \A n \in Subnets : s.table[i][n] = NoRule

\* The state has its type, with no more calls lost than the site allows.
Typed(s) == s \in Sites /\ s.lost <= layout.losses

\* The part of what is kept that holds in the middle of a handler, too: up are
\* the controllers that answer and off those that were never started.
Base(s, up, off) ==
    /\ Typed(s)
    /\ \A i \in off : Blank(s, i)
    /\ ~s.drifted => \A i \in s.known \intersect up : Matches(s, s.rules, i)

\* The rules that are remembered are those of the last update, and nothing has
\* changed since.
Current(s) == ~s.drifted => s.rules = Goal(s)

\* What an update of the routes leaves alone.
Routed(s, t) ==
    /\ t.known = s.known /\ t.graph = s.graph /\ t.owned = s.owned
    /\ t.endpoints = s.endpoints /\ t.wan = s.wan /\ t.edges = s.edges

\* What a handler never takes back.
Later(s, t) == (s.drifted => t.drifted) /\ s.lost <= t.lost /\ s.bypass \subseteq t.bypass

\* The goal is made of edges of the topology.
LEMMA GoalFacts ==
    ASSUME NEW s \in Sites, NEW r \in Goal(s)
    PROVE  /\ r \in Rule
           /\ [link |-> r.link, ends |-> {r.src, r.dst}] \in s.graph
           /\ \E i \in s.known : /\ r.net \in s.owned[i]
                                 /\ r.src \in Reach(s.graph, i) \ {i}
                                 /\ r.dst = NextHop(s.graph, i, r.src)
<1>1. s.known \subseteq Ids /\ s.graph \subseteq Edge /\ s.owned \in [Ids -> SUBSET Subnets]
  BY DEF Sites
<1>2. PICK i \in s.known :
         r \in UNION {{[src |-> j, dst |-> NextHop(s.graph, i, j), net |-> n,
                        link |-> (CHOOSE e \in s.graph : e.ends = {j, NextHop(s.graph, i, j)}).link] :
                         j \in Reach(s.graph, i) \ {i}} : n \in s.owned[i]}
  BY DEF Goal
<1>3. PICK n \in s.owned[i] : \E j \in Reach(s.graph, i) \ {i} :
         r = [src |-> j, dst |-> NextHop(s.graph, i, j), net |-> n,
              link |-> (CHOOSE e \in s.graph : e.ends = {j, NextHop(s.graph, i, j)}).link]
  BY <1>2
<1>4. PICK j \in Reach(s.graph, i) \ {i} :
         r = [src |-> j, dst |-> NextHop(s.graph, i, j), net |-> n,
              link |-> (CHOOSE e \in s.graph : e.ends = {j, NextHop(s.graph, i, j)}).link]
  BY <1>3
<1>5. PICK k : k = NextHop(s.graph, i, j)
  OBVIOUS
<1>6. k \in Neighbours(s.graph, j)
  BY <1>1, <1>5, NextHops
<1>7. PICK e : e = CHOOSE x \in s.graph : x.ends = {j, k}
  OBVIOUS
<1>8. k \in Ids /\ e \in s.graph /\ e.ends = {j, k}
  BY <1>6, <1>7 DEF Neighbours
<1>9. r = [src |-> j, dst |-> k, net |-> n, link |-> e.link]
  BY <1>4, <1>5, <1>7
<1>10. i \in Ids /\ j \in Ids /\ n \in Subnets
  <2>1. Reach(s.graph, i) \subseteq Ids
    BY <1>1, Balls, HowMany DEF Reach, Many
  <2> QED BY <1>1, <2>1
<1>11. e \in Edge /\ e = [link |-> e.link, ends |-> e.ends] /\ e.link \in Links
  BY <1>1, <1>8 DEF Edge
<1>12. r.src = j /\ r.dst = k /\ r.net = n /\ r.link = e.link
  BY <1>9
<1>13. r \in Rule
  BY <1>8, <1>9, <1>10, <1>11 DEF Rule
<1>14. [link |-> r.link, ends |-> {r.src, r.dst}] \in s.graph
  BY <1>8, <1>11, <1>12
<1>15. /\ r.net \in s.owned[i] /\ r.src \in Reach(s.graph, i) \ {i}
       /\ r.dst = NextHop(s.graph, i, r.src)
  BY <1>5, <1>12
<1> QED BY <1>13, <1>14, <1>15

\* Who was never started is on nobody's way.
LEMMA GoalBlank ==
    ASSUME NEW s \in Sites, NEW i \in Ids, i \notin s.known, \A e \in s.graph : i \notin e.ends
    PROVE  \A r \in Goal(s) : i # r.src /\ i # r.dst
<1> SUFFICES ASSUME NEW r \in Goal(s) PROVE i \notin {r.src, r.dst}
  OBVIOUS
<1> QED BY GoalFacts

\* NoRule is not a rule.
LEMMA RuleNames == NoRule \notin Rule
BY SiteNilAssumption

\* What is deleted is gone from the tables of the controllers that are up.
LEMMA DeletedOutcome ==
    ASSUME NEW s, Base(s, UpSet, OffSet), ~s.drifted, NEW old \in SUBSET s.rules
    PROVE  LET t == Deleted(s, {r \in old : r.src \in s.known /\ Up(r.src)})
           IN  /\ t \in Sites /\ Routed(s, t) /\ t.rules = s.rules
               /\ t.ok = s.ok /\ t.lost = s.lost /\ t.bypass = s.bypass /\ t.drifted = s.drifted
               /\ \A i \in OffSet : Blank(t, i)
               /\ \A i \in s.known \intersect UpSet : Matches(t, s.rules \ old, i)
<1> DEFINE there == {r \in old : r.src \in s.known /\ Up(r.src)}
           new == [i \in Ids |-> [n \in Subnets |-> Entry(s, i, n, there, NoRule)]]
           t == Deleted(s, there)
<1>1. /\ s \in Sites /\ s.known \subseteq Ids /\ s.table \in [Ids -> [Subnets -> Rule \union {NoRule}]]
      /\ s.rules \subseteq Rule
  BY DEF Base, Typed, Sites
<1>2. new \in [Ids -> [Subnets -> Rule \union {NoRule}]]
  BY <1>1 DEF Entry
<1>3. t = [s EXCEPT !.table = new]
  BY DEF Deleted
<1>4. \A i \in Ids, n \in Subnets :
         new[i][n] = IF \E r \in there : r.src = i /\ r.net = n THEN NoRule ELSE s.table[i][n]
  BY DEF Entry
<1> HIDE DEF new, t
<1>5. /\ t \in Sites /\ t.table = new /\ Routed(s, t) /\ t.rules = s.rules
      /\ t.ok = s.ok /\ t.lost = s.lost /\ t.bypass = s.bypass /\ t.drifted = s.drifted
  BY <1>1, <1>2, <1>3 DEF Sites, Routed
<1>6. ASSUME NEW i \in OffSet PROVE Blank(t, i)
  BY <1>4, <1>5 DEF Base, Blank, Routed, OffSet
<1>7. ASSUME NEW i \in s.known \intersect UpSet PROVE Matches(t, s.rules \ old, i)
  <2> SUFFICES ASSUME NEW n \in Subnets
               PROVE  /\ \A r \in s.rules \ old : r.src = i /\ r.net = n => new[i][n] = r
                      /\ new[i][n] # NoRule =>
                           /\ new[i][n] \in s.rules \ old
                           /\ new[i][n].src = i /\ new[i][n].net = n
    BY <1>5 DEF Matches
  <2>1. i \in Ids /\ Up(i)
    BY DEF UpSet
  <2>2. Matches(s, s.rules, i)
    BY DEF Base
  <2>3. CASE \E r \in there : r.src = i /\ r.net = n
    <3>1. PICK r \in there : r.src = i /\ r.net = n
      BY <2>3
    <3>2. s.table[i][n] = r
      BY <2>2, <3>1 DEF Matches
    <3>3. \A q \in s.rules \ old : ~(q.src = i /\ q.net = n)
      BY <2>2, <3>1, <3>2 DEF Matches
    <3> QED BY <1>4, <2>1, <2>3, <3>3
  <2>4. CASE ~\E r \in there : r.src = i /\ r.net = n
    <3>1. new[i][n] = s.table[i][n]
      BY <1>4, <2>1, <2>4
    <3>2. s.table[i][n] # NoRule => s.table[i][n] \notin old
      BY <2>1, <2>2, <2>4 DEF Matches
    <3> QED BY <2>2, <3>1, <3>2 DEF Matches
  <2> QED BY <2>3, <2>4
<1> QED BY <1>5, <1>6, <1>7 DEF t

\* What is written is in the tables, next to what was there.
LEMMA WrittenOutcome ==
    ASSUME NEW s \in Sites, NEW R \in SUBSET Rule, NEW new \in SUBSET Rule,
           \A r \in new : ~Taken(s, r, new),
           \A i \in OffSet : Blank(s, i) /\ \A r \in new : r.src # i,
           NEW live \in SUBSET Ids, \A i \in live : Matches(s, R, i)
    PROVE  LET t == Written(s, new)
           IN  /\ t \in Sites /\ Routed(s, t) /\ t.rules = s.rules
               /\ t.ok = s.ok /\ t.lost = s.lost /\ t.bypass = s.bypass /\ t.drifted = s.drifted
               /\ \A i \in OffSet : Blank(t, i)
               /\ \A i \in live : Matches(t, R \union new, i)
<1> DEFINE table == [i \in Ids |-> [n \in Subnets |->
               Entry(s, i, n, new, CHOOSE r \in new : r.src = i /\ r.net = n)]]
           t == Written(s, new)
<1>1. s.known \subseteq Ids /\ s.table \in [Ids -> [Subnets -> Rule \union {NoRule}]]
  BY DEF Sites
<1>2. ASSUME NEW i \in Ids, NEW n \in Subnets, NEW r \in new, r.src = i, r.net = n
      PROVE  table[i][n] = r
  <2>1. \A q \in new : q.src = i /\ q.net = n => q = r
    BY <1>2 DEF Taken
  <2>2. r = CHOOSE q \in new : q.src = i /\ q.net = n
    BY <1>2, <2>1
  <2> QED BY <1>2, <2>2 DEF Entry
<1>3. ASSUME NEW i \in Ids, NEW n \in Subnets, ~\E r \in new : r.src = i /\ r.net = n
      PROVE  table[i][n] = s.table[i][n]
  BY <1>3 DEF Entry
<1>4. ASSUME NEW i \in Ids, NEW n \in Subnets PROVE table[i][n] \in Rule \union {NoRule}
  BY <1>1, <1>2, <1>3
<1>5. table \in [Ids -> [Subnets -> Rule \union {NoRule}]]
  BY <1>4
<1>6. t = [s EXCEPT !.table = table]
  BY DEF Written
<1> HIDE DEF table, t
<1>7. /\ t \in Sites /\ t.table = table /\ Routed(s, t) /\ t.rules = s.rules
      /\ t.ok = s.ok /\ t.lost = s.lost /\ t.bypass = s.bypass /\ t.drifted = s.drifted
  BY <1>5, <1>6 DEF Sites, Routed
<1>8. ASSUME NEW i \in OffSet PROVE Blank(t, i)
  <2>1. \A n \in Subnets : table[i][n] = s.table[i][n]
    BY <1>3 DEF OffSet
  <2> QED BY <1>7, <2>1 DEF Blank, Routed
<1>9. ASSUME NEW i \in live PROVE Matches(t, R \union new, i)
  <2> SUFFICES ASSUME NEW n \in Subnets
               PROVE  /\ \A r \in R \union new : r.src = i /\ r.net = n => table[i][n] = r
                      /\ table[i][n] # NoRule =>
                           /\ table[i][n] \in R \union new
                           /\ table[i][n].src = i /\ table[i][n].net = n
    BY <1>7 DEF Matches
  <2>1. i \in Ids /\ Matches(s, R, i)
    BY <1>1
  <2>2. CASE \E r \in new : r.src = i /\ r.net = n
    <3>1. PICK r \in new : r.src = i /\ r.net = n
      BY <2>2
    <3>2. s.table[i][n] = NoRule
      BY <3>1 DEF Taken
    <3>3. \A q \in R : ~(q.src = i /\ q.net = n)
      BY <2>1, <3>2, RuleNames DEF Matches
    <3>4. \A q \in new : q.src = i /\ q.net = n => table[i][n] = q
      BY <1>2, <2>1
    <3> QED BY <3>1, <3>3, <3>4
  <2>3. CASE ~\E r \in new : r.src = i /\ r.net = n
    <3>1. table[i][n] = s.table[i][n]
      BY <1>3, <2>1, <2>3
    <3> QED BY <2>1, <2>3, <3>1 DEF Matches
  <2> QED BY <2>2, <2>3
<1> QED BY <1>7, <1>8, <1>9 DEF t

\* What only marks the state, for an exception, a lost call, a lock that is gone
\* past or an update that failed.
Same(s, t) == Routed(s, t) /\ t.rules = s.rules /\ t.table = s.table

\* The marks say nothing about tables and rules.
LEMMA SameFacts ==
    ASSUME NEW s, NEW t, Same(s, t), NEW i \in Ids
    PROVE  /\ Blank(s, i) => Blank(t, i)
           /\ \A R : Matches(s, R, i) => Matches(t, R, i)
<1>1. Blank(s, i) => Blank(t, i)
  BY DEF Same, Routed, Blank
<1>2. ASSUME NEW R, Matches(s, R, i) PROVE Matches(t, R, i)
  BY <1>2 DEF Same, Matches
<1> QED BY <1>1, <1>2

\* What an exception changes.
LEMMA RaiseMarks ==
    ASSUME NEW s \in Sites
    PROVE  /\ Raise(s) \in Sites /\ Same(s, Raise(s)) /\ ~Raise(s).ok
           /\ Raise(s).lost = s.lost /\ Raise(s).bypass = s.bypass /\ Raise(s).drifted = s.drifted
<1> DEFINE t == Raise(s)
<1>1. t \in Sites
  BY DEF Raise, Sites
<1>2. Same(s, t)
  BY DEF Raise, Sites, Same, Routed
<1>3. ~t.ok /\ t.lost = s.lost /\ t.bypass = s.bypass /\ t.drifted = s.drifted
  BY DEF Raise, Sites
<1> QED BY <1>1, <1>2, <1>3

\* What it changes that an update failed on its way.
LEMMA DriftMarks ==
    ASSUME NEW s \in Sites
    PROVE  /\ Drift(s) \in Sites /\ Same(s, Drift(s)) /\ Drift(s).drifted
           /\ Drift(s).lost = s.lost /\ Drift(s).bypass = s.bypass /\ Drift(s).ok = s.ok
<1> DEFINE t == Drift(s)
<1>1. t \in Sites
  BY DEF Drift, Sites
<1>2. Same(s, t)
  BY DEF Drift, Sites, Same, Routed
<1>3. t.drifted /\ t.lost = s.lost /\ t.bypass = s.bypass /\ t.ok = s.ok
  BY DEF Drift, Sites
<1> QED BY <1>1, <1>2, <1>3

\* What a lost call changes.
LEMMA LostMarks ==
    ASSUME NEW s \in Sites
    PROVE  /\ Lost(s) \in Sites /\ Same(s, Lost(s)) /\ Lost(s).ok = s.ok
           /\ Lost(s).lost = s.lost + 1 /\ Lost(s).bypass = s.bypass /\ Lost(s).drifted = s.drifted
<1> DEFINE t == Lost(s)
<1>1. t \in Sites
  BY DEF Lost, Sites
<1>2. Same(s, t)
  BY DEF Lost, Sites, Same, Routed
<1>3. t.ok = s.ok /\ t.lost = s.lost + 1 /\ t.bypass = s.bypass /\ t.drifted = s.drifted
  BY DEF Lost, Sites
<1> QED BY <1>1, <1>2, <1>3

\* What a call that runs into a lock changes.
LEMMA BypassMarks ==
    ASSUME NEW s \in Sites, NEW S \in SUBSET Ids
    PROVE  LET t == [s EXCEPT !.bypass = @ \union S]
           IN  /\ t \in Sites /\ Same(s, t) /\ t.ok = s.ok
               /\ t.lost = s.lost /\ t.bypass = s.bypass \union S /\ t.drifted = s.drifted
<1> DEFINE t == [s EXCEPT !.bypass = @ \union S]
<1>1. t \in Sites
  BY DEF Sites
<1>2. Same(s, t)
  BY DEF Sites, Same, Routed
<1>3. t.ok = s.ok /\ t.lost = s.lost /\ t.bypass = s.bypass \union S /\ t.drifted = s.drifted
  BY DEF Sites
<1> QED BY <1>1, <1>2, <1>3

\* Changes of marks only add up to changes of marks only.
LEMMA SameChain == \A s, t, u : Same(s, t) /\ Same(t, u) => Same(s, u)
BY DEF Same, Routed

\* What the parts of an update leave for the next one.
Partly(s, t) ==
    /\ Typed(t) /\ Routed(s, t) /\ Later(s, t) /\ t.rules = s.rules
    /\ t.ok \/ t.drifted
    /\ \A i \in OffSet : Blank(t, i)

\* An update that only changed marks, and drifted, is on its way.
LEMMA MarkedPartly ==
    ASSUME layout.losses \in Nat, NEW s, NEW t \in Sites, Same(s, t), t.drifted,
           s.lost <= t.lost, t.lost <= layout.losses, s.bypass \subseteq t.bypass,
           \A i \in OffSet : Blank(s, i)
    PROVE  Partly(s, t)
<1>1. \A i \in OffSet : Blank(t, i)
  BY SameFacts DEF OffSet
<1>2. Typed(t) /\ Later(s, t)
  BY DEF Typed, Later
<1> QED BY <1>1, <1>2 DEF Partly, Same

\* An update that fails at once is on its way.
LEMMA FailPartly ==
    ASSUME layout.losses \in Nat, NEW s \in Sites, s.lost <= layout.losses,
           \A i \in OffSet : Blank(s, i)
    PROVE  Partly(s, Fail(s)) /\ Fail(s).drifted
<1> DEFINE u == Drift(s)
           t == Fail(s)
<1>1. /\ u \in Sites /\ Same(s, u) /\ u.drifted
      /\ u.lost = s.lost /\ u.bypass = s.bypass
  BY DriftMarks
<1>2. t = Raise(u)
  BY DEF Fail
<1> HIDE DEF u, t
<1>3. t \in Sites /\ Same(u, t) /\ t.lost = u.lost /\ t.bypass = u.bypass /\ t.drifted = u.drifted
  BY <1>1, <1>2, RaiseMarks
<1>4. Same(s, t) /\ t.drifted /\ s.bypass \subseteq t.bypass /\ s.lost \in Nat
  BY <1>1, <1>3, SameChain DEF Sites
<1>5. s.lost <= t.lost /\ t.lost <= layout.losses
  BY <1>1, <1>3, <1>4
<1>6. Partly(s, t)
  BY <1>3, <1>4, <1>5, MarkedPartly
<1> QED BY <1>4, <1>6 DEF t

\* An update goes on from where it is.
LEMMA PartlyChain ==
    ASSUME NEW s, NEW u, NEW t, Partly(u, t), Routed(s, u), u.rules = s.rules,
           s.drifted => u.drifted, s.bypass \subseteq u.bypass,
           s.lost \in Nat, u.lost \in Nat, s.lost <= u.lost
    PROVE  Partly(s, t)
<1>1. t.lost \in Nat
  BY DEF Partly, Typed, Sites
<1>2. Later(s, t)
  BY <1>1 DEF Partly, Later
<1>3. Routed(s, t) /\ t.rules = s.rules
  BY DEF Partly, Routed
<1> QED BY <1>2, <1>3 DEF Partly

\* After the deletes, the tables hold what is left of the rules that are
\* remembered, or the update failed on its way.
LEMMA DeleteOutcome ==
    ASSUME layout.losses \in Nat,
           NEW s, Base(s, UpSet, OffSet), s.ok, ~s.drifted, NEW old \in SUBSET s.rules,
           NEW t \in DeleteRules(s, old)
    PROVE  /\ Partly(s, t)
           /\ ~t.drifted => \A i \in t.known \intersect UpSet : Matches(t, s.rules \ old, i)
<1> DEFINE there  == {r \in old : r.src \in s.known /\ Up(r.src)}
           locked == {r.src : r \in there} \intersect LockedOut(s)
           del == Deleted(s, there)
<1>1. s \in Sites /\ s.lost \in Nat /\ s.lost <= layout.losses /\ s.bypass \subseteq Ids /\ s.known \subseteq Ids
  BY DEF Base, Typed, Sites
<1>2. \A i \in OffSet : Blank(s, i)
  BY DEF Base
<1>3. \/ t = Fail(s)
      \/ locked # {} /\ t = Drift([s EXCEPT !.bypass = @ \union locked])
      \/ t = del
      \/ s.lost < layout.losses /\ t = Drift(Lost(s))
  <2> HIDE DEF there, locked
  <2>1. DeleteRules(s, old) =
          IF (\E r \in old : r.src \notin s.known) THEN {Fail(s)}
          ELSE IF locked # {} THEN {Drift([s EXCEPT !.bypass = @ \union locked])}
          ELSE {del}
               \union IF s.lost < layout.losses /\ there # {} THEN {Drift(Lost(s))} ELSE {}
    BY DEF DeleteRules, there, locked
  <2> HIDE DEF del
  <2> QED BY <2>1
<1>4. CASE t = Fail(s)
  BY <1>1, <1>2, <1>4, FailPartly
<1>5. CASE locked # {} /\ t = Drift([s EXCEPT !.bypass = @ \union locked])
  <2>1. locked \subseteq Ids
    BY <1>1 DEF LockedOut
  <2> HIDE DEF locked
  <2> DEFINE u == [s EXCEPT !.bypass = @ \union locked]
  <2>2. /\ u \in Sites /\ Same(s, u) /\ u.ok = s.ok
        /\ u.lost = s.lost /\ u.bypass = s.bypass \union locked /\ u.drifted = s.drifted
    BY <1>1, <2>1, BypassMarks
  <2> HIDE DEF u
  <2>3. /\ t \in Sites /\ Same(u, t) /\ t.drifted
        /\ t.lost = u.lost /\ t.bypass = u.bypass /\ t.ok = u.ok
    BY <1>5, <2>2, DriftMarks DEF u
  <2>4. Same(s, t) /\ s.bypass \subseteq t.bypass
    BY <2>2, <2>3, SameChain
  <2> QED BY <1>1, <1>2, <2>2, <2>3, <2>4, MarkedPartly
<1>6. CASE t = del
  <2>1. /\ del \in Sites /\ Routed(s, del) /\ del.rules = s.rules
        /\ del.ok = s.ok /\ del.lost = s.lost /\ del.bypass = s.bypass /\ del.drifted = s.drifted
        /\ \A i \in OffSet : Blank(del, i)
        /\ \A i \in s.known \intersect UpSet : Matches(del, s.rules \ old, i)
    BY DeletedOutcome
  <2> HIDE DEF del
  <2> QED BY <1>1, <1>6, <2>1 DEF Partly, Typed, Routed, Later
<1>7. CASE s.lost < layout.losses /\ t = Drift(Lost(s))
  <2> DEFINE u == Lost(s)
  <2>2. /\ u \in Sites /\ Same(s, u) /\ u.ok = s.ok
        /\ u.lost = s.lost + 1 /\ u.bypass = s.bypass /\ u.drifted = s.drifted
    BY <1>1, LostMarks
  <2> HIDE DEF u
  <2>3. /\ t \in Sites /\ Same(u, t) /\ t.drifted
        /\ t.lost = u.lost /\ t.bypass = u.bypass /\ t.ok = u.ok
    BY <1>7, <2>2, DriftMarks DEF u
  <2>4. Same(s, t) /\ s.bypass \subseteq t.bypass
    BY <2>2, <2>3, SameChain
  <2>5. t.lost <= layout.losses /\ s.lost <= t.lost
    BY <1>1, <1>7, <2>2, <2>3
  <2> QED BY <1>2, <2>3, <2>4, <2>5, MarkedPartly
<1> QED BY <1>3, <1>4, <1>5, <1>6, <1>7

\* After the writes, the tables hold the new rules, too, or the update failed.
LEMMA WriteOutcome ==
    ASSUME layout.losses \in Nat,
           NEW s, Typed(s), s.ok, NEW R \in SUBSET Rule, NEW new \in SUBSET Rule,
           \A i \in OffSet : Blank(s, i) /\ \A r \in new : r.src # i,
           ~s.drifted => \A i \in s.known \intersect UpSet : Matches(s, R, i),
           NEW t \in WriteRules(s, new)
    PROVE  /\ Partly(s, t)
           /\ ~t.drifted => \A i \in t.known \intersect UpSet : Matches(t, R \union new, i)
<1> DEFINE barred == {r.src : r \in new} \intersect LockedOut(s)
           written == Written(s, new)
<1>1. s \in Sites /\ s.lost \in Nat /\ s.lost <= layout.losses /\ s.bypass \subseteq Ids /\ s.known \subseteq Ids
  BY DEF Typed, Sites
<1>2. \/ \E i \in barred : t = Fail([s EXCEPT !.bypass = @ \union {i}])
      \/ t = Fail(s)
      \/ t = written /\ \A r \in new : ~Taken(s, r, new)
      \/ s.lost < layout.losses /\ t = Fail(Lost(s))
  <2> HIDE DEF barred
  <2>1. WriteRules(s, new) =
          IF barred # {} THEN {Fail([s EXCEPT !.bypass = @ \union {i}]) : i \in barred}
          ELSE IF \E r \in new : ~Up(r.src) \/ Taken(s, r, new) THEN {Fail(s)}
          ELSE {written}
               \union IF s.lost < layout.losses /\ new # {} THEN {Fail(Lost(s))} ELSE {}
    BY DEF WriteRules, barred
  <2> HIDE DEF written
  <2> QED BY <2>1
<1>3. CASE \E i \in barred : t = Fail([s EXCEPT !.bypass = @ \union {i}])
  <2>1. PICK i \in Ids : t = Fail([s EXCEPT !.bypass = @ \union {i}])
    BY <1>1, <1>3 DEF LockedOut
  <2> HIDE DEF barred
  <2> DEFINE u == [s EXCEPT !.bypass = @ \union {i}]
  <2>2. /\ u \in Sites /\ Same(s, u)
        /\ u.lost = s.lost /\ u.bypass = s.bypass \union {i} /\ u.drifted = s.drifted
    BY <1>1, BypassMarks
  <2>3. t = Fail(u)
    BY <2>1
  <2> HIDE DEF u
  <2>4. \A k \in OffSet : Blank(u, k)
    BY <2>2, SameFacts DEF OffSet
  <2>5. Partly(u, t) /\ t.drifted
    BY <1>1, <2>2, <2>3, <2>4, FailPartly
  <2>6. Routed(s, u) /\ u.rules = s.rules
    BY <2>2 DEF Same
  <2>7. u.lost \in Nat /\ s.lost <= u.lost
    BY <1>1, <2>2
  <2> QED BY <1>1, <2>2, <2>5, <2>6, <2>7, PartlyChain
<1>4. CASE t = Fail(s)
  BY <1>1, <1>4, FailPartly
<1>5. CASE s.lost < layout.losses /\ t = Fail(Lost(s))
  <2> DEFINE u == Lost(s)
  <2>2. /\ u \in Sites /\ Same(s, u)
        /\ u.lost = s.lost + 1 /\ u.bypass = s.bypass /\ u.drifted = s.drifted
    BY <1>1, LostMarks
  <2>3. t = Fail(u)
    BY <1>5
  <2> HIDE DEF u
  <2>4. \A k \in OffSet : Blank(u, k)
    BY <2>2, SameFacts DEF OffSet
  <2>6. u.lost <= layout.losses /\ s.lost <= u.lost
    BY <1>1, <1>5, <2>2
  <2>5. Partly(u, t) /\ t.drifted
    BY <2>2, <2>3, <2>4, <2>6, FailPartly
  <2>7. Routed(s, u) /\ u.rules = s.rules
    BY <2>2 DEF Same
  <2>8. u.lost \in Nat
    BY <1>1, <2>2
  <2> QED BY <1>1, <2>2, <2>5, <2>6, <2>7, <2>8, PartlyChain
<1>6. CASE t = written /\ \A r \in new : ~Taken(s, r, new)
  <2>1. /\ written \in Sites /\ Routed(s, written) /\ written.rules = s.rules
        /\ written.ok = s.ok /\ written.lost = s.lost /\ written.bypass = s.bypass
        /\ written.drifted = s.drifted
        /\ \A i \in OffSet : Blank(written, i)
        /\ ~s.drifted => \A i \in s.known \intersect UpSet : Matches(written, R \union new, i)
    <3> DEFINE live == {i \in s.known \intersect UpSet : ~s.drifted}
    <3>1. live \in SUBSET Ids /\ \A i \in live : Matches(s, R, i)
      BY <1>1
    <3> HIDE DEF live
    <3>2. /\ written \in Sites /\ Routed(s, written) /\ written.rules = s.rules
          /\ written.ok = s.ok /\ written.lost = s.lost /\ written.bypass = s.bypass
          /\ written.drifted = s.drifted
          /\ \A i \in OffSet : Blank(written, i)
          /\ \A i \in live : Matches(written, R \union new, i)
      BY <1>1, <1>6, <3>1, WrittenOutcome
    <3> HIDE DEF written
    <3> QED BY <3>2 DEF live
  <2> HIDE DEF written
  <2>3. Typed(t) /\ Later(s, t)
    BY <1>1, <1>6, <2>1 DEF Typed, Later
  <2>4. Partly(s, t)
    BY <1>6, <2>1, <2>3 DEF Partly
  <2> QED BY <1>6, <2>1, <2>4 DEF Routed
<1> QED BY <1>2, <1>3, <1>4, <1>5, <1>6

\* The goal depends on the topology and on the subnets of those that are registered.
LEMMA GoalSame ==
    ASSUME NEW s, NEW t, t.graph = s.graph, t.owned = s.owned,
           \A i : s.owned[i] # {} => (i \in s.known <=> i \in t.known)
    PROVE  Goal(t) = Goal(s)
<1> DEFINE part(i) == UNION {{[src |-> j, dst |-> NextHop(s.graph, i, j), net |-> n,
                    link |-> (CHOOSE e \in s.graph : e.ends = {j, NextHop(s.graph, i, j)}).link] :
                     j \in Reach(s.graph, i) \ {i}} : n \in s.owned[i]}
<1>1. Goal(s) = UNION {part(i) : i \in s.known} /\ Goal(t) = UNION {part(i) : i \in t.known}
  BY DEF Goal
<1>2. \A i : s.owned[i] = {} => part(i) = {}
  OBVIOUS
<1> HIDE DEF part
<1> QED BY <1>1, <1>2

\* After an update, the rules that are remembered are the goal and the tables
\* hold them, or it failed on its way; nothing but rules, tables and marks changed.
LEMMA UpdateOutcome ==
    ASSUME layout.losses \in Nat,
           NEW s, Base(s, UpSet, OffSet), s.ok, NEW t \in UpdateRoutes(s)
    PROVE  /\ Base(t, UpSet, OffSet) /\ Current(t)
           /\ Routed(s, t) /\ Later(s, t)
           /\ t.ok \/ t.drifted
<1> DEFINE goal == Goal(s)
<1>0. s \in Sites /\ s.lost <= layout.losses /\ s.lost \in Nat /\ s.rules \subseteq Rule
      /\ s.known \subseteq Ids
  BY DEF Base, Typed, Sites
<1>1. CASE s.drifted
  <2>1. t = s
    BY <1>1 DEF UpdateRoutes
  <2> QED BY <1>0, <1>1, <2>1 DEF Base, Current, Routed, Later
<1>2. CASE ~s.drifted /\ Trapped(s)
  <2>1. t = Fail(s)
    BY <1>2 DEF UpdateRoutes
  <2>2. Partly(s, t) /\ t.drifted
    BY <1>0, <2>1, FailPartly DEF Base
  <2> QED BY <2>2 DEF Partly, Base, Current
<1>3. CASE ~s.drifted /\ ~Trapped(s)
  <2> DEFINE old == s.rules \ goal
             new == goal \ s.rules
             D == DeleteRules(s, old)
             W(u) == WriteRules(u, new)
             S(u) == {[u EXCEPT !.rules = goal]}
             DW == UNION {IF u.ok THEN W(u) ELSE {u} : u \in D}
  <2>1. UpdateRoutes(s) = UNION {IF u.ok THEN S(u) ELSE {u} : u \in DW}
    BY <1>3 DEF UpdateRoutes, Then
  <2>2. goal \subseteq Rule /\ \A i \in OffSet : \A r \in goal : r.src # i /\ r.dst # i
    <3>1. goal \subseteq Rule
      BY <1>0, GoalFacts
    <3>2. ASSUME NEW i \in OffSet PROVE \A r \in Goal(s) : i # r.src /\ i # r.dst
      BY <1>0, GoalBlank DEF Base, Blank, OffSet
    <3> QED BY <3>1, <3>2
  <2> HIDE DEF goal
  <2>3. ASSUME NEW u \in D
        PROVE  /\ Partly(s, u)
               /\ ~u.drifted => \A i \in u.known \intersect UpSet : Matches(u, s.rules \ old, i)
    BY <1>3, DeleteOutcome
  <2>4. ASSUME NEW u \in DW
        PROVE  /\ Partly(s, u)
               /\ ~u.drifted /\ u.ok => \A i \in u.known \intersect UpSet : Matches(u, goal, i)
    <3>1. PICK v \in D : u \in IF v.ok THEN W(v) ELSE {v}
      OBVIOUS
    <3> HIDE DEF D
    <3>2. CASE ~v.ok
      BY <2>3, <3>1, <3>2
    <3>3. CASE v.ok
      <4>1. Partly(s, v) /\ (~v.drifted => \A i \in v.known \intersect UpSet : Matches(v, s.rules \ old, i))
        BY <2>3
      <4>2. Typed(v) /\ \A i \in OffSet : Blank(v, i)
        BY <4>1 DEF Partly
      <4>3. u \in WriteRules(v, new)
        BY <3>1, <3>3
      <4>5. (s.rules \ old) \union new = goal
        OBVIOUS
      <4>6. new \in SUBSET Rule /\ s.rules \ old \in SUBSET Rule /\ \A i \in OffSet : \A r \in new : r.src # i
        BY <1>0, <2>2
      <4> HIDE DEF new, old
      <4>4. /\ Partly(v, u)
            /\ ~u.drifted => \A i \in u.known \intersect UpSet : Matches(u, (s.rules \ old) \union new, i)
        BY <3>3, <4>1, <4>2, <4>3, <4>6, WriteOutcome
      <4>7. Routed(s, v) /\ v.rules = s.rules /\ (s.drifted => v.drifted) /\ s.bypass \subseteq v.bypass
            /\ s.lost <= v.lost /\ v.lost \in Nat
        BY <4>1 DEF Partly, Later, Typed, Sites
      <4>8. Partly(s, u)
        BY <1>0, <4>4, <4>7, PartlyChain
      <4> QED BY <4>4, <4>5, <4>8
    <3> QED BY <3>2, <3>3
  <2>5. PICK u \in DW : t \in IF u.ok THEN S(u) ELSE {u}
    BY <2>1
  <2>6. Partly(s, u) /\ (~u.drifted /\ u.ok => \A i \in u.known \intersect UpSet : Matches(u, goal, i))
    BY <2>4
  <2> HIDE DEF DW
  <2>7. CASE ~u.ok
    <3>1. t = u /\ t.drifted
      BY <2>5, <2>6, <2>7 DEF Partly
    <3> QED BY <2>6, <3>1 DEF Partly, Base, Current
  <2>8. CASE u.ok
    <3>1. t = [u EXCEPT !.rules = goal]
      BY <2>5, <2>8
    <3>2. u \in Sites
      BY <2>6 DEF Partly, Typed
    <3>3. t \in Sites /\ t.rules = goal
      BY <2>2, <3>1, <3>2 DEF Sites
    <3>4. /\ Routed(u, t) /\ t.table = u.table /\ t.ok = u.ok
          /\ t.lost = u.lost /\ t.bypass = u.bypass /\ t.drifted = u.drifted
      BY <3>1, <3>2 DEF Sites, Routed
    <3>5. Routed(s, t) /\ Later(s, t)
      BY <2>6, <3>4 DEF Partly, Routed, Later
    <3>6. Typed(t)
      BY <2>6, <3>3, <3>4 DEF Partly, Typed
    <3>7. \A i \in OffSet : Blank(t, i)
      BY <2>2, <2>6, <3>3, <3>4 DEF Partly, Blank, Routed
    <3>8. ~t.drifted => \A i \in t.known \intersect UpSet : Matches(t, t.rules, i)
      BY <2>6, <2>8, <3>3, <3>4 DEF Matches, Routed
    <3>9. Goal(t) = Goal(s)
      BY <3>5, GoalSame DEF Routed
    <3>10. Current(t)
      BY <3>3, <3>9 DEF Current, goal
    <3>11. Base(t, UpSet, OffSet)
      BY <3>6, <3>7, <3>8 DEF Base
    <3> QED BY <2>8, <3>4, <3>5, <3>10, <3>11
  <2> QED BY <2>7, <2>8
<1> QED BY <1>1, <1>2, <1>3

-----------------------------------------------------------------------------
(* Calls.                                                                  *)

\* No call was lost, none went past a lock, and no update failed on its way.
Quiet(s) == ~s.drifted /\ s.lost = 0 /\ s.bypass = {}

\* The edges with the ends p.
Pair(edges, p) == {e \in edges : e.ends = p}

\* The ends keep the edges between them that the global controller keeps.
Agree(s, up) ==
    Quiet(s) => \A i, j \in s.known \intersect up : Pair(s.edges[i], {i, j}) = Pair(s.graph, {i, j})

\* What every handler keeps.
Sound(s, up, off) == Base(s, up, off) /\ Current(s) /\ Agree(s, up)

\* Nothing that Sound speaks of changes, but for the endpoints.
Core(s, t) ==
    /\ t.known = s.known /\ t.graph = s.graph /\ t.owned = s.owned
    /\ t.edges = s.edges /\ t.rules = s.rules /\ t.table = s.table

\* What is never taken back by two handlers is not taken back by both.
LEMMA LaterChain ==
    ASSUME NEW s \in Sites, NEW t \in Sites, NEW u \in Sites, Later(s, t), Later(t, u)
    PROVE  Later(s, u)
<1>1. s.lost \in Nat /\ t.lost \in Nat /\ u.lost \in Nat
  BY DEF Sites
<1>2. s.lost <= u.lost
  BY <1>1 DEF Later
<1>3. (s.drifted => u.drifted) /\ s.bypass \subseteq u.bypass
  BY DEF Later
<1> QED BY <1>2, <1>3 DEF Later

\* What is quiet now was quiet before.
LEMMA QuietBefore ==
    ASSUME NEW s \in Sites, NEW t \in Sites, Later(s, t), Quiet(t) PROVE Quiet(s)
<1>1. s.lost \in Nat /\ s.lost <= 0
  BY DEF Later, Quiet, Sites
<1>2. ~s.drifted /\ s.bypass = {}
  BY DEF Later, Quiet
<1> QED BY <1>1, <1>2 DEF Quiet

\* What Base says only depends on what Core keeps.
LEMMA BaseCore ==
    ASSUME NEW up, NEW off, NEW s, NEW t \in Sites, Base(s, up, off), Current(s),
           Core(s, t), Later(s, t), t.lost <= layout.losses,
           \A i \in off : i \in t.endpoints => i \in s.endpoints
    PROVE  Base(t, up, off) /\ Current(t)
<1>1. \A i \in off : Blank(t, i)
  BY DEF Base, Core, Blank
<1>2. ~t.drifted => \A i \in t.known \intersect up : Matches(t, t.rules, i)
  BY DEF Base, Core, Later, Matches
<1>3. Goal(t) = Goal(s)
  BY GoalSame DEF Core
<1>4. Current(t)
  BY <1>3 DEF Current, Core, Later
<1> QED BY <1>1, <1>2, <1>4 DEF Base, Typed

\* What Sound says only depends on what Core keeps.
LEMMA SoundCore ==
    ASSUME NEW up, NEW off, NEW s, NEW t \in Sites, Sound(s, up, off),
           Core(s, t), Later(s, t), t.lost <= layout.losses,
           \A i \in off : i \in t.endpoints => i \in s.endpoints
    PROVE  Sound(t, up, off)
<1>1. Base(t, up, off) /\ Current(t)
  BY BaseCore DEF Sound
<1>2. Quiet(t) => Quiet(s)
  BY QuietBefore DEF Sound, Base, Typed
<1>3. Agree(t, up)
  BY <1>2 DEF Sound, Agree, Core
<1> QED BY <1>1, <1>3 DEF Sound

\* A state that is only marked.
Marked(s, t) == t \in Sites /\ Same(s, t) /\ Later(s, t) /\ t.lost <= layout.losses

\* A call from s that leads to t ends in t, or raises, before or after.
Called(s, t, u) == u = t \/ (~u.ok /\ (Marked(s, u) \/ Marked(t, u)))

\* A call that is lost marks the state.
LEMMA LostCall ==
    ASSUME layout.losses \in Nat, NEW s \in Sites, s.lost < layout.losses
    PROVE  LET u == Raise(Lost(s))
           IN  Marked(s, u) /\ ~u.ok /\ u.lost > 0
<1> DEFINE t == Lost(s)
           u == Raise(Lost(s))
<1>1. /\ t \in Sites /\ Same(s, t)
      /\ t.lost = s.lost + 1 /\ t.bypass = s.bypass /\ t.drifted = s.drifted
  BY LostMarks
<1>2. u = Raise(t)
  OBVIOUS
<1> HIDE DEF t, u
<1>3. u \in Sites /\ Same(t, u) /\ ~u.ok /\ u.lost = t.lost /\ u.bypass = t.bypass /\ u.drifted = t.drifted
  BY <1>1, <1>2, RaiseMarks
<1>4. s.lost \in Nat
  BY DEF Sites
<1>5. u.lost > 0 /\ u.lost <= layout.losses /\ s.lost <= u.lost
  BY <1>1, <1>3, <1>4
<1>6. Later(s, u)
  BY <1>1, <1>3, <1>5 DEF Later
<1>7. Same(s, u)
  BY <1>1, <1>3, SameChain
<1> QED BY <1>3, <1>5, <1>6, <1>7 DEF Marked, u

\* An exception marks the state.
LEMMA RaiseMarked ==
    ASSUME NEW s \in Sites, s.lost <= layout.losses
    PROVE  Marked(s, Raise(s)) /\ ~Raise(s).ok
<1> DEFINE u == Raise(s)
<1>1. /\ u \in Sites /\ Same(s, u) /\ ~u.ok
      /\ u.lost = s.lost /\ u.bypass = s.bypass /\ u.drifted = s.drifted
  BY RaiseMarks
<1> HIDE DEF u
<1>2. s.lost \in Nat
  BY DEF Sites
<1>3. Later(s, u)
  BY <1>1, <1>2 DEF Later
<1>4. Marked(s, u) /\ ~u.ok
  BY <1>1, <1>3 DEF Marked
<1> QED BY <1>4 DEF u

\* A call to a live server is made, or is lost before or after.
LEMMA CallLiveOutcome ==
    ASSUME layout.losses \in Nat, NEW s \in Sites, NEW t \in Sites, t.lost = s.lost,
           NEW u \in CallLive(s, t)
    PROVE  Called(s, t, u) /\ (u # t => u.lost > 0)
<1>1. u = t \/ (s.lost < layout.losses /\ (u = Raise(Lost(s)) \/ u = Raise(Lost(t))))
  BY DEF CallLive, MayBeLost
<1>2. CASE s.lost < layout.losses /\ u = Raise(Lost(s))
  BY <1>2, LostCall DEF Called
<1>3. CASE s.lost < layout.losses /\ u = Raise(Lost(t))
  BY <1>3, LostCall DEF Called
<1> QED BY <1>1, <1>2, <1>3 DEF Called

\* A call to a server that is up ends in t unless it is lost or goes past a lock.
LEMMA CallOutcome ==
    ASSUME layout.losses \in Nat, NEW i \in Ids, NEW s \in Sites, s.lost <= layout.losses,
           NEW t \in Sites, t.lost = s.lost, NEW u \in Call(s, i, t)
    PROVE  Called(s, t, u) /\ (u # t /\ Quiet(u) => i \notin UpSet)
<1>1. CASE ~Up(i)
  <2>1. u = Raise(s)
    BY <1>1 DEF Call
  <2> QED BY <1>1, <2>1, RaiseMarked DEF Called, UpSet
<1>2. CASE Up(i) /\ Locked(s, i)
  <2> DEFINE v == [s EXCEPT !.bypass = @ \union {i}]
  <2>1. u = Raise(v)
    BY <1>2 DEF Call
  <2>2. /\ v \in Sites /\ Same(s, v) /\ v.lost = s.lost
        /\ v.bypass = s.bypass \union {i} /\ v.drifted = s.drifted
    BY BypassMarks
  <2> HIDE DEF v
  <2>3. /\ u \in Sites /\ Same(v, u) /\ ~u.ok
        /\ u.lost = v.lost /\ u.bypass = v.bypass /\ u.drifted = v.drifted
    BY <2>1, <2>2, RaiseMarks
  <2>4. s.lost \in Nat /\ Same(s, u)
    BY <2>2, <2>3, SameChain DEF Sites
  <2>5. Later(s, u)
    BY <2>2, <2>3, <2>4 DEF Later
  <2>6. ~Quiet(u)
    BY <2>2, <2>3 DEF Quiet
  <2> QED BY <2>2, <2>3, <2>4, <2>5, <2>6 DEF Called, Marked
<1>3. CASE Up(i) /\ ~Locked(s, i)
  <2>1. u \in {t} \union MayBeLost(s, t)
    BY <1>3 DEF Call
  <2>2. Called(s, t, u) /\ (u # t => u.lost > 0)
    BY <2>1, CallLiveOutcome DEF CallLive
  <2>3. u # t => ~Quiet(u)
    BY <2>2 DEF Quiet
  <2> QED BY <2>2, <2>3
<1> QED BY <1>1, <1>2, <1>3

\* Marks leave the state sound.
LEMMA SoundMarked ==
    ASSUME NEW up, NEW off, NEW s, NEW t, Sound(s, up, off), Marked(s, t)
    PROVE  Sound(t, up, off)
<1>1. Core(s, t) /\ t.endpoints = s.endpoints
  BY DEF Marked, Same, Routed, Core
<1> QED BY <1>1, SoundCore DEF Marked

\* Marks leave Base and Current alone.
LEMMA BaseMarked ==
    ASSUME NEW up, NEW off, NEW s, NEW t, Base(s, up, off), Current(s), Marked(s, t)
    PROVE  Base(t, up, off) /\ Current(t)
<1>1. Core(s, t) /\ t.endpoints = s.endpoints
  BY DEF Marked, Same, Routed, Core
<1> QED BY <1>1, BaseCore DEF Marked

-----------------------------------------------------------------------------
(* Subnets.                                                                *)

\* An update of the routes makes the state sound from whatever subnets and edges
\* there are.
LEMMA UpdateSound ==
    ASSUME layout.losses \in Nat,
           NEW s, Base(s, UpSet, OffSet), Agree(s, UpSet), s.ok, NEW t \in UpdateRoutes(s)
    PROVE  /\ Sound(t, UpSet, OffSet) /\ Routed(s, t) /\ Later(s, t)
           /\ t.ok \/ t.drifted
<1>1. /\ Base(t, UpSet, OffSet) /\ Current(t) /\ Routed(s, t) /\ Later(s, t)
      /\ t.ok \/ t.drifted
  BY UpdateOutcome
<1>2. Quiet(t) => Quiet(s)
  BY <1>1, QuietBefore DEF Base, Typed
<1>3. Agree(t, UpSet)
  BY <1>1, <1>2 DEF Agree, Routed
<1> QED BY <1>1, <1>3 DEF Sound

\* The subnets of some controllers change, and nothing else that is remembered.
Grows(s, t, S) ==
    /\ t.known = s.known /\ t.graph = s.graph /\ t.endpoints = s.endpoints
    /\ \A k \in Ids \ S : t.owned[k] = s.owned[k]

\* What belongs to a controller or leads to it is only taken away.
Shrinks(s, t) ==
    /\ t.known = s.known /\ t.graph \subseteq s.graph /\ t.endpoints \subseteq s.endpoints
    /\ \A k \in Ids : t.owned[k] \subseteq s.owned[k]

\* The set of subnets of i becomes S: some of a controller that was started.
Owning(s, i, S) == [s EXCEPT !.owned[i] = S]

\* Subnets that i may have: none before it was started.
MayOwn(i, S) == S \subseteq Subnets /\ (i \in OffSet => S = {})

\* Only the subnets of i change, to S.
Owns(s, t, i, S) == Grows(s, t, {i}) /\ t.owned[i] = S

\* A change of the subnets of a controller that was started leaves all but the
\* rules as they should be.
LEMMA OwnedSound ==
    ASSUME NEW s, Sound(s, UpSet, OffSet), NEW i \in Ids, NEW S, MayOwn(i, S),
           NEW t, t = Owning(s, i, S)
    PROVE  /\ Base(t, UpSet, OffSet) /\ Agree(t, UpSet) /\ Later(s, t) /\ t.ok = s.ok
           /\ Owns(s, t, i, S)
<1>1. s \in Sites /\ s.owned \in [Ids -> SUBSET Subnets] /\ s.lost \in Nat /\ s.lost <= layout.losses
  BY DEF Sound, Base, Typed, Sites
<1>2. t \in Sites
  BY <1>1 DEF Sites, Owning, MayOwn
<1>3. /\ t.known = s.known /\ t.graph = s.graph /\ t.endpoints = s.endpoints
      /\ t.edges = s.edges /\ t.rules = s.rules /\ t.table = s.table
  BY <1>1 DEF Sites, Owning
<1>4. /\ t.ok = s.ok
      /\ t.lost = s.lost /\ t.bypass = s.bypass /\ t.drifted = s.drifted
  BY <1>1 DEF Sites, Owning
<1>5. t.owned = [s.owned EXCEPT ![i] = S]
  BY <1>1 DEF Sites, Owning
<1>6. t.owned[i] = S /\ \A k \in Ids \ {i} : t.owned[k] = s.owned[k]
  BY <1>1, <1>5
<1>7. \A k \in OffSet : Blank(t, k)
  BY <1>3, <1>6 DEF Sound, Base, Blank, OffSet, MayOwn
<1>8. ~t.drifted => \A k \in t.known \intersect UpSet : Matches(t, t.rules, k)
  BY <1>3, <1>4 DEF Sound, Base, Matches
<1>9. Base(t, UpSet, OffSet)
  BY <1>1, <1>2, <1>4, <1>7, <1>8 DEF Base, Typed
<1>10. Agree(t, UpSet)
  BY <1>3, <1>4 DEF Sound, Agree, Quiet
<1>11. Later(s, t) /\ Grows(s, t, {i})
  BY <1>1, <1>3, <1>4, <1>6 DEF Later, Grows
<1> QED BY <1>4, <1>6, <1>9, <1>10, <1>11 DEF Owns

\* The set of subnets of i is S, and the routes follow.
LEMMA OwnedOutcome ==
    ASSUME layout.losses \in Nat,
           NEW s, Sound(s, UpSet, OffSet), s.ok, NEW i \in Ids, NEW S, MayOwn(i, S),
           NEW u \in UpdateRoutes(Owning(s, i, S))
    PROVE  /\ Sound(u, UpSet, OffSet) /\ Later(s, u)
           /\ Owns(s, u, i, S)
           /\ u.ok \/ u.drifted
<1>2. PICK t : t = Owning(s, i, S) /\ u \in UpdateRoutes(t)
  OBVIOUS
<1>1. /\ Base(t, UpSet, OffSet) /\ Agree(t, UpSet) /\ Later(s, t) /\ t.ok = s.ok
      /\ Owns(s, t, i, S)
  BY <1>2, OwnedSound
<1>3. Sound(u, UpSet, OffSet) /\ Routed(t, u) /\ Later(t, u) /\ (u.ok \/ u.drifted)
  BY <1>1, <1>2, UpdateSound
<1>4. Later(s, u)
  BY <1>1, <1>3, LaterChain DEF Sound, Base, Typed
<1>5. Owns(s, u, i, S)
  BY <1>1, <1>3 DEF Owns, Grows, Routed
<1> QED BY <1>3, <1>4, <1>5

\* Nothing here depends on what the WAN controller knows of the site.
LEMMA WanSound ==
    ASSUME NEW s, Sound(s, UpSet, OffSet), NEW w \in {NoSite} \union SUBSET Subnets
    PROVE  LET t == [s EXCEPT !.wan = w]
           IN  /\ Sound(t, UpSet, OffSet) /\ Core(s, t) /\ t.endpoints = s.endpoints
               /\ Later(s, t) /\ t.lost = s.lost
<1> DEFINE t == [s EXCEPT !.wan = w]
<1>1. s \in Sites /\ s.lost \in Nat /\ s.lost <= layout.losses
  BY DEF Sound, Base, Typed, Sites
<1>2. t \in Sites
  BY <1>1 DEF Sites
<1>3. Core(s, t) /\ t.endpoints = s.endpoints
  BY <1>1 DEF Sites, Core
<1>4. t.lost = s.lost /\ t.bypass = s.bypass /\ t.drifted = s.drifted
  BY <1>1 DEF Sites
<1> HIDE DEF t
<1>5. Later(s, t)
  BY <1>1, <1>4 DEF Later
<1>6. Sound(t, UpSet, OffSet)
  BY <1>1, <1>2, <1>3, <1>4, <1>5, SoundCore
<1> QED BY <1>3, <1>4, <1>5, <1>6 DEF t

\* A call that leads from one sound state to another ends in a sound state.
LEMMA CalledSound ==
    ASSUME NEW s, NEW t, Sound(s, UpSet, OffSet), Sound(t, UpSet, OffSet), Core(s, t),
           t.endpoints = s.endpoints, Later(s, t), NEW u, Called(s, t, u)
    PROVE  Sound(u, UpSet, OffSet) /\ Core(s, u) /\ u.endpoints = s.endpoints /\ Later(s, u)
<1>0. s \in Sites /\ t \in Sites
  BY DEF Sound, Base, Typed
<1>1. CASE u = t
  BY <1>1
<1>2. CASE Marked(s, u)
  <2>1. Core(s, u) /\ u.endpoints = s.endpoints /\ Later(s, u)
    BY <1>2 DEF Marked, Same, Routed, Core
  <2> QED BY <1>2, <2>1, SoundMarked
<1>3. CASE Marked(t, u)
  <2>1. Core(s, u) /\ u.endpoints = s.endpoints
    BY <1>3 DEF Marked, Same, Routed, Core
  <2>2. Later(s, u)
    BY <1>0, <1>3, LaterChain DEF Marked
  <2> QED BY <1>3, <2>1, <2>2, SoundMarked
<1> QED BY <1>1, <1>2, <1>3 DEF Called

\* The WAN controller is told of a subnet or forgets it, or it raises.
LEMMA WanOutcome ==
    ASSUME layout.losses \in Nat, NEW s, Sound(s, UpSet, OffSet), NEW n \in Subnets,
           NEW u \in WanAdd(s, n) \union WanRemove(s, n)
    PROVE  Sound(u, UpSet, OffSet) /\ Core(s, u) /\ u.endpoints = s.endpoints /\ Later(s, u)
<1>0. s \in Sites /\ s.lost <= layout.losses /\ s.wan \in {NoSite} \union SUBSET Subnets
      /\ s.lost \in Nat
  BY DEF Sound, Base, Typed, Sites
<1>1. \/ u = Raise(s)
      \/ u \in CallLive(s, s)
      \/ \E w \in {NoSite} \union SUBSET Subnets : u \in CallLive(s, [s EXCEPT !.wan = w])
  BY <1>0 DEF WanAdd, WanRemove
<1>3. Core(s, s) /\ Later(s, s)
  BY <1>0 DEF Core, Later
<1>2. CASE u = Raise(s)
  <2>1. Called(s, s, u)
    BY <1>0, <1>2, RaiseMarked DEF Called
  <2> QED BY <1>3, <2>1, CalledSound
<1>4. CASE u \in CallLive(s, s)
  <2>1. Called(s, s, u)
    BY <1>0, <1>4, CallLiveOutcome
  <2> QED BY <1>3, <2>1, CalledSound
<1>5. ASSUME NEW w \in {NoSite} \union SUBSET Subnets, u \in CallLive(s, [s EXCEPT !.wan = w])
      PROVE  Sound(u, UpSet, OffSet) /\ Core(s, u) /\ u.endpoints = s.endpoints /\ Later(s, u)
  <2> DEFINE t == [s EXCEPT !.wan = w]
  <2>1. /\ Sound(t, UpSet, OffSet) /\ Core(s, t) /\ t.endpoints = s.endpoints
        /\ Later(s, t) /\ t.lost = s.lost
    BY WanSound
  <2>2. u \in CallLive(s, t)
    BY <1>5
  <2> HIDE DEF t
  <2>3. Called(s, t, u)
    BY <1>0, <2>1, <2>2, CallLiveOutcome DEF Sound, Base, Typed
  <2> QED BY <2>1, <2>3, CalledSound
<1> QED BY <1>1, <1>2, <1>4, <1>5

\* A subnet that was added or removed, on the routes and at the WAN controller.
LEMMA SubnetOutcome ==
    ASSUME layout.losses \in Nat,
           NEW s, Sound(s, UpSet, OffSet), s.ok, NEW i \in Ids, NEW n \in Subnets,
           NEW S, MayOwn(i, S),
           NEW t \in UpdateRoutes(Owning(s, i, S)),
           NEW u, t.ok => u \in WanAdd(t, n) \union WanRemove(t, n), ~t.ok => u = t
    PROVE  /\ Sound(u, UpSet, OffSet) /\ Later(s, u)
           /\ Owns(s, u, i, S)
<1>1. Sound(t, UpSet, OffSet) /\ Later(s, t) /\ Owns(s, t, i, S)
  BY OwnedOutcome
<1>2. CASE ~t.ok
  BY <1>1, <1>2
<1>3. CASE t.ok
  <2>1. Sound(u, UpSet, OffSet) /\ Core(t, u) /\ u.endpoints = t.endpoints /\ Later(t, u)
    BY <1>1, <1>3, WanOutcome
  <2>2. Later(s, u)
    BY <1>1, <2>1, LaterChain DEF Sound, Base, Typed
  <2> QED BY <1>1, <2>1, <2>2 DEF Core, Owns, Grows
<1> QED BY <1>2, <1>3

\* The outcome of add_subnet and add_subnet_silent, whatever they raise.
LEMMA AddSubnetOutcome ==
    ASSUME layout.losses \in Nat,
           NEW s, Sound(s, UpSet, OffSet), s.ok, NEW i \in Ids \ OffSet, NEW n \in Subnets,
           NEW u \in AddSubnet(s, i, n) \union AddSubnetSilent(s, i, n)
    PROVE  Sound(u, UpSet, OffSet) /\ Later(s, u) /\ Grows(s, u, {i})
<1> DEFINE S == s.owned[i] \union {n}
<1>1. MayOwn(i, S)
  BY DEF Sound, Base, Typed, Sites, MayOwn
<1>2. [s EXCEPT !.owned[i] = @ \union {n}] = Owning(s, i, S)
  BY DEF Owning
<1> HIDE DEF S
<1>3. CASE u \in AddSubnetSilent(s, i, n)
  <2>1. u \in UpdateRoutes(Owning(s, i, S))
    BY <1>2, <1>3 DEF AddSubnetSilent
  <2> QED BY <1>1, <2>1, OwnedOutcome DEF Owns
<1>4. CASE u \in AddSubnet(s, i, n)
  <2>1. PICK t \in UpdateRoutes(Owning(s, i, S)) : u \in IF t.ok THEN WanAdd(t, n) ELSE {t}
    BY <1>2, <1>4 DEF AddSubnet, AddSubnetSilent, Then
  <2>2. (t.ok => u \in WanAdd(t, n) \union WanRemove(t, n)) /\ (~t.ok => u = t)
    BY <2>1
  <2> QED BY <1>1, <2>2, SubnetOutcome DEF Owns
<1> QED BY <1>3, <1>4

\* The outcome of remove_subnet: the subnet is gone even if it raises.
LEMMA RemoveSubnetOutcome ==
    ASSUME layout.losses \in Nat,
           NEW s, Sound(s, UpSet, OffSet), s.ok, NEW i \in Ids, NEW n \in Subnets,
           NEW u \in RemoveSubnet(s, i, n)
    PROVE  /\ Sound(u, UpSet, OffSet) /\ Later(s, u) /\ Shrinks(s, u)
           /\ u.owned[i] = s.owned[i] \ {n}
<1> DEFINE S == s.owned[i] \ {n}
<1>1. MayOwn(i, S)
  <2>1. s.owned[i] \in SUBSET Subnets
    BY DEF Sound, Base, Typed, Sites
  <2> QED BY <2>1 DEF Sound, Base, Blank, MayOwn
<1>2. [s EXCEPT !.owned[i] = @ \ {n}] = Owning(s, i, S)
  BY DEF Owning
<1> HIDE DEF S
<1>3. PICK t \in UpdateRoutes(Owning(s, i, S)) : u \in IF t.ok THEN WanRemove(t, n) ELSE {t}
  BY <1>2 DEF RemoveSubnet, Then
<1>4. (t.ok => u \in WanAdd(t, n) \union WanRemove(t, n)) /\ (~t.ok => u = t)
  BY <1>3
<1>5. Sound(u, UpSet, OffSet) /\ Later(s, u) /\ Owns(s, u, i, S)
  BY <1>1, <1>4, SubnetOutcome
<1>6. u.owned[i] = S /\ Shrinks(s, u)
  BY <1>5 DEF Owns, Grows, Shrinks, S
<1> QED BY <1>5, <1>6 DEF S

-----------------------------------------------------------------------------
(* The topology and the edges the ends keep.                               *)

\* There are finitely many edges: a loop over some of them ends.
LEMMA EdgesFinite == IsFiniteSet(Edge)
<1> DEFINE f == [e \in Edge |-> <<e.link, e.ends>>]
           T == Links \X SUBSET Ids
<1>1. IsFiniteSet(T)
  <2>1. IsFiniteSet(Links) /\ IsFiniteSet(SUBSET Ids)
    BY SiteAssumption, FS_SUBSET
  <2> QED BY <2>1, FS_Product
<1>2. \A e \in Edge : e = [link |-> e.link, ends |-> e.ends] /\ e.link \in Links /\ e.ends \in SUBSET Ids
  BY DEF Edge
<1>3. f \in [Edge -> T]
  BY <1>2
<1>4. ASSUME NEW d \in Edge, NEW e \in Edge, f[d] = f[e] PROVE d = e
  <2>1. d.link = e.link /\ d.ends = e.ends
    BY <1>4
  <2> QED BY <1>2, <2>1
<1>5. f \in Injection(Edge, T)
  BY <1>3, <1>4 DEF Injection, IsInjective
<1> HIDE DEF f, T
<1> QED BY <1>1, <1>5, FS_Injection

\* Edges between controllers that were started.
MayLink(E) == E \subseteq Edge /\ \A i \in OffSet : \A e \in E : i \notin e.ends

\* Taking edges out or putting one in keeps them so.
LEMMA MayLinkFacts ==
    ASSUME NEW E, MayLink(E), NEW e
    PROVE  MayLink(E \ SamePair(E, e)) /\ (MayLink({e}) => MayLink(Put(E, e)))
BY DEF MayLink, SamePair, Put

\* The edges of the topology become E.
Linking(s, E) == [s EXCEPT !.graph = E]

\* Only the edges of the topology change, to E.
Linked(s, t, E) ==
    /\ t.known = s.known /\ t.owned = s.owned /\ t.endpoints = s.endpoints /\ t.edges = s.edges
    /\ t.graph = E

\* A change of the edges leaves all but the rules as they should be.
LEMMA LinkedBase ==
    ASSUME NEW s, Base(s, UpSet, OffSet), NEW E, MayLink(E), NEW t, t = Linking(s, E)
    PROVE  Base(t, UpSet, OffSet) /\ Linked(s, t, E) /\ Later(s, t) /\ t.ok = s.ok
<1>1. s \in Sites /\ s.lost \in Nat /\ s.lost <= layout.losses
  BY DEF Base, Typed, Sites
<1>2. t \in Sites
  BY <1>1 DEF Sites, Linking, MayLink
<1>3. /\ t.known = s.known /\ t.owned = s.owned /\ t.endpoints = s.endpoints
      /\ t.edges = s.edges /\ t.rules = s.rules /\ t.table = s.table /\ t.graph = E
  BY <1>1 DEF Sites, Linking
<1>4. /\ t.ok = s.ok /\ t.lost = s.lost /\ t.bypass = s.bypass /\ t.drifted = s.drifted
  BY <1>1 DEF Sites, Linking
<1>5. \A k \in OffSet : Blank(t, k)
  BY <1>3 DEF Base, Blank, OffSet, MayLink
<1>6. ~t.drifted => \A k \in t.known \intersect UpSet : Matches(t, t.rules, k)
  BY <1>3, <1>4 DEF Base, Matches
<1>7. Base(t, UpSet, OffSet)
  BY <1>1, <1>2, <1>4, <1>5, <1>6 DEF Base, Typed
<1>8. Later(s, t)
  BY <1>1, <1>4 DEF Later
<1>9. Linked(s, t, E)
  BY <1>3 DEF Linked
<1> QED BY <1>4, <1>7, <1>8, <1>9

\* The topology becomes E, and the routes follow.
LEMMA LinkOutcome ==
    ASSUME layout.losses \in Nat,
           NEW s, Base(s, UpSet, OffSet), s.ok, NEW E, MayLink(E),
           NEW u \in UpdateRoutes(Linking(s, E))
    PROVE  /\ Base(u, UpSet, OffSet) /\ Current(u) /\ Later(s, u)
           /\ Linked(s, u, E)
           /\ u.ok \/ u.drifted
<1>1. PICK t : t = Linking(s, E) /\ u \in UpdateRoutes(t)
  OBVIOUS
<1>2. Base(t, UpSet, OffSet) /\ Linked(s, t, E) /\ Later(s, t) /\ t.ok = s.ok
  BY <1>1, LinkedBase
<1>3. /\ Base(u, UpSet, OffSet) /\ Current(u) /\ Routed(t, u) /\ Later(t, u)
      /\ u.ok \/ u.drifted
  BY <1>1, <1>2, UpdateOutcome
<1>4. Later(s, u)
  BY <1>2, <1>3, LaterChain DEF Base, Typed
<1>5. Linked(s, u, E)
  BY <1>2, <1>3 DEF Linked, Routed
<1> QED BY <1>3, <1>4, <1>5

\* The outcome of the removal of an edge from the topology, with its update.
LEMMA DropOutcome ==
    ASSUME layout.losses \in Nat,
           NEW s, Base(s, UpSet, OffSet), s.ok, NEW e, NEW u \in DropEdge(s, e)
    PROVE  /\ Base(u, UpSet, OffSet) /\ Current(u) /\ Later(s, u)
           /\ Linked(s, u, s.graph \ SamePair(s.graph, e))
           /\ u.ok \/ u.drifted
<1>1. MayLink(s.graph)
  BY DEF MayLink, Base, Typed, Sites, Blank
<1>2. MayLink(s.graph \ SamePair(s.graph, e))
  BY <1>1, MayLinkFacts
<1>3. u \in UpdateRoutes(Linking(s, s.graph \ SamePair(s.graph, e)))
  BY DEF DropEdge, Linking
<1> QED BY <1>2, <1>3, LinkOutcome

\* The outcome of the entry of an edge in the topology, with its update.
LEMMA PutOutcome ==
    ASSUME layout.losses \in Nat,
           NEW s, Base(s, UpSet, OffSet), s.ok, NEW e, MayLink({e}), NEW u \in PutEdge(s, e)
    PROVE  /\ Base(u, UpSet, OffSet) /\ Current(u) /\ Later(s, u)
           /\ Linked(s, u, Put(s.graph, e))
           /\ u.ok \/ u.drifted
<1>1. MayLink(s.graph)
  BY DEF MayLink, Base, Typed, Sites, Blank
<1>2. MayLink(Put(s.graph, e))
  BY <1>1, MayLinkFacts
<1>3. u \in UpdateRoutes(Linking(s, Put(s.graph, e)))
  BY DEF PutEdge, Linking
<1> QED BY <1>2, <1>3, LinkOutcome

\* An edge that is set is the only one between its ends, or the update failed.
LEMMA SetOutcome ==
    ASSUME layout.losses \in Nat,
           NEW s, Base(s, UpSet, OffSet), s.ok, NEW e, MayLink({e}), NEW u \in SetEdge(s, e)
    PROVE  /\ Base(u, UpSet, OffSet) /\ Current(u) /\ Later(s, u)
           /\ u.graph \subseteq s.graph \union {e}
           /\ Linked(s, u, u.graph)
           /\ u.ok => u.graph = Put(s.graph, e)
           /\ u.ok \/ u.drifted
<1>1. CASE e \notin s.graph
  <2>1. u \in PutEdge(s, e)
    BY <1>1 DEF SetEdge, Then
  <2>2. /\ Base(u, UpSet, OffSet) /\ Current(u) /\ Later(s, u)
        /\ Linked(s, u, Put(s.graph, e))
        /\ u.ok \/ u.drifted
    BY <2>1, PutOutcome
  <2>3. u.graph = Put(s.graph, e) /\ Put(s.graph, e) \subseteq s.graph \union {e}
    BY <2>2 DEF Linked, Put
  <2> QED BY <2>2, <2>3
<1>2. CASE e \in s.graph
  <2>1. PICK t \in DropEdge(s, e) : u \in IF t.ok THEN PutEdge(t, e) ELSE {t}
    BY <1>2 DEF SetEdge, Then
  <2>2. /\ Base(t, UpSet, OffSet) /\ Current(t) /\ Later(s, t)
        /\ Linked(s, t, s.graph \ SamePair(s.graph, e))
        /\ t.ok \/ t.drifted
    BY <2>1, DropOutcome
  <2>3. CASE ~t.ok
    <3>1. u = t /\ u.graph \subseteq s.graph \union {e} /\ Linked(s, u, u.graph)
      BY <2>1, <2>2, <2>3 DEF Linked
    <3> QED BY <2>2, <2>3, <3>1
  <2>4. CASE t.ok
    <3>1. /\ Base(u, UpSet, OffSet) /\ Current(u) /\ Later(t, u)
          /\ Linked(t, u, Put(t.graph, e))
          /\ u.ok \/ u.drifted
      BY <2>1, <2>2, <2>4, PutOutcome
    <3>2. Put(t.graph, e) = Put(s.graph, e) /\ Put(s.graph, e) \subseteq s.graph \union {e}
      BY <2>2 DEF Linked, Put, SamePair
    <3>3. Linked(s, u, u.graph) /\ u.graph = Put(s.graph, e)
      BY <2>2, <3>1, <3>2 DEF Linked
    <3>4. Later(s, u)
      BY <2>2, <3>1, LaterChain DEF Base, Typed
    <3> QED BY <3>1, <3>2, <3>3, <3>4
  <2> QED BY <2>3, <2>4
<1> QED BY <1>1, <1>2

\* The edges that i keeps become E.
Telling(s, i, E) == [s EXCEPT !.edges[i] = E]

\* Edges that i may keep: none before it was started.
MayKeep(i, E) == MayLink(E) /\ (i \in OffSet => E = {})

\* A call that makes them E is made.
Told(s, t, i, E) ==
    /\ t.known = s.known /\ t.graph = s.graph /\ t.owned = s.owned /\ t.endpoints = s.endpoints
    /\ \A k \in Ids \ {i} : t.edges[k] = s.edges[k]
    /\ t.edges[i] = E \/ t.edges[i] = s.edges[i]
    /\ Quiet(t) /\ i \in UpSet => t.edges[i] = E /\ t.ok = s.ok

\* What an end keeps changes nothing of routes and rules.
LEMMA ToldBase ==
    ASSUME NEW s, Base(s, UpSet, OffSet), Current(s), NEW i \in Ids, NEW E, MayKeep(i, E),
           NEW t, t = Telling(s, i, E)
    PROVE  /\ Base(t, UpSet, OffSet) /\ Current(t) /\ Later(s, t) /\ Told(s, t, i, E)
           /\ t.lost = s.lost
<1>1. s \in Sites /\ s.edges \in [Ids -> SUBSET Edge] /\ s.lost \in Nat /\ s.lost <= layout.losses
  BY DEF Base, Typed, Sites
<1>2. t \in Sites
  BY <1>1 DEF Sites, Telling, MayKeep, MayLink
<1>3. /\ t.known = s.known /\ t.owned = s.owned /\ t.endpoints = s.endpoints
      /\ t.graph = s.graph /\ t.rules = s.rules /\ t.table = s.table
  BY <1>1 DEF Sites, Telling
<1>4. /\ t.ok = s.ok /\ t.lost = s.lost /\ t.bypass = s.bypass /\ t.drifted = s.drifted
  BY <1>1 DEF Sites, Telling
<1>5. t.edges = [s.edges EXCEPT ![i] = E]
  BY <1>1 DEF Sites, Telling
<1>6. t.edges[i] = E /\ \A k \in Ids \ {i} : t.edges[k] = s.edges[k]
  BY <1>1, <1>5
<1>7. ASSUME NEW k \in OffSet PROVE Blank(t, k)
  <2>1. Blank(s, k)
    BY DEF Base
  <2>2. t.edges[k] = {}
    BY <1>6, <2>1 DEF Blank, MayKeep, OffSet
  <2>3. \A m \in Ids : \A e \in t.edges[m] : k \notin e.ends
    BY <1>6, <2>1 DEF Blank, MayKeep, MayLink
  <2> QED BY <1>3, <2>1, <2>2, <2>3 DEF Blank
<1>8. ~t.drifted => \A k \in t.known \intersect UpSet : Matches(t, t.rules, k)
  BY <1>3, <1>4 DEF Base, Matches
<1>9. Base(t, UpSet, OffSet)
  BY <1>1, <1>2, <1>4, <1>7, <1>8 DEF Base, Typed
<1>10. Later(s, t)
  BY <1>1, <1>4 DEF Later
<1>11. Goal(t) = Goal(s)
  BY <1>3, GoalSame
<1>12. Current(t)
  BY <1>3, <1>4, <1>11 DEF Current
<1>13. Told(s, t, i, E)
  BY <1>3, <1>4, <1>6 DEF Told
<1> QED BY <1>4, <1>9, <1>10, <1>12, <1>13

\* The outcome of a call that changes what an end keeps.
LEMMA TellOutcome ==
    ASSUME layout.losses \in Nat,
           NEW s, Base(s, UpSet, OffSet), Current(s), NEW i \in Ids, NEW E, MayKeep(i, E),
           NEW u \in Call(s, i, Telling(s, i, E))
    PROVE  Base(u, UpSet, OffSet) /\ Current(u) /\ Later(s, u) /\ Told(s, u, i, E)
<1>1. PICK t : t = Telling(s, i, E) /\ u \in Call(s, i, t)
  OBVIOUS
<1>2. /\ Base(t, UpSet, OffSet) /\ Current(t) /\ Later(s, t) /\ Told(s, t, i, E)
      /\ t.lost = s.lost
  BY <1>1, ToldBase
<1>3. s \in Sites /\ t \in Sites /\ s.lost <= layout.losses
  BY <1>2 DEF Base, Typed
<1>4. Called(s, t, u) /\ (u # t /\ Quiet(u) => i \notin UpSet)
  BY <1>1, <1>2, <1>3, CallOutcome
<1>5. CASE u = t
  BY <1>2, <1>5
<1>6. CASE u # t /\ Marked(s, u)
  <2>1. Base(u, UpSet, OffSet) /\ Current(u)
    BY <1>6, BaseMarked
  <2>2. Told(s, u, i, E)
    BY <1>4, <1>6 DEF Told, Marked, Same, Routed
  <2> QED BY <1>6, <2>1, <2>2 DEF Marked
<1>7. CASE u # t /\ Marked(t, u)
  <2>1. Base(u, UpSet, OffSet) /\ Current(u)
    BY <1>2, <1>7, BaseMarked
  <2>2. Told(s, u, i, E)
    BY <1>2, <1>4, <1>7 DEF Told, Marked, Same, Routed
  <2>3. Later(s, u)
    BY <1>2, <1>3, <1>7, LaterChain DEF Marked
  <2> QED BY <2>1, <2>2, <2>3
<1> QED BY <1>4, <1>5, <1>6, <1>7 DEF Called

\* A link between running controllers that one of them heard.
LinkOf(e, i, j) == i # j /\ e.ends = {i, j} /\ MayLink({e})

\* Its ends were started.
LEMMA LinkOfFacts ==
    ASSUME NEW e, NEW i \in Ids, NEW j \in Ids, LinkOf(e, i, j)
    PROVE  i \notin OffSet /\ j \notin OffSet
BY DEF LinkOf, MayLink

\* The outcome of the call add_edge to an end.
LEMMA AddAtOutcome ==
    ASSUME layout.losses \in Nat,
           NEW s, Base(s, UpSet, OffSet), Current(s), NEW i \in Ids, i \notin OffSet,
           NEW e, MayLink({e}), NEW u \in AddAt(s, i, e)
    PROVE  /\ Base(u, UpSet, OffSet) /\ Current(u) /\ Later(s, u)
           /\ Told(s, u, i, Put(s.edges[i], e))
<1> DEFINE E == Put(s.edges[i], e)
<1>1. MayLink(s.edges[i])
  BY DEF MayLink, Base, Typed, Sites, Blank
<1>2. MayKeep(i, E)
  BY <1>1, MayLinkFacts DEF MayKeep
<1>3. u \in Call(s, i, Telling(s, i, E))
  BY DEF AddAt, Telling
<1> HIDE DEF E
<1>4. Base(u, UpSet, OffSet) /\ Current(u) /\ Later(s, u) /\ Told(s, u, i, E)
  BY <1>2, <1>3, TellOutcome
<1> QED BY <1>4 DEF E

\* What both ends were told: some of it, and all of it if nothing went wrong.
BothTold(s, u, e) ==
    /\ u.known = s.known /\ u.graph = s.graph /\ u.owned = s.owned /\ u.endpoints = s.endpoints
    /\ \A k \in Ids \ e.ends : u.edges[k] = s.edges[k]
    /\ \A k \in Ids : u.edges[k] = s.edges[k] \/ u.edges[k] = Put(s.edges[k], e)
    /\ Quiet(u) /\ e.ends \subseteq UpSet => \A k \in e.ends : u.edges[k] = Put(s.edges[k], e)

\* The outcome of the calls to both ends: all keep it, or something went wrong.
LEMMA TellEndsOutcome ==
    ASSUME layout.losses \in Nat,
           NEW s, Base(s, UpSet, OffSet), Current(s), s.ok, NEW i \in Ids, NEW j \in Ids,
           NEW e, LinkOf(e, i, j), NEW u \in TellEnds(s, i, j, e)
    PROVE  /\ Base(u, UpSet, OffSet) /\ Current(u) /\ Later(s, u)
           /\ BothTold(s, u, e)
<1>1. i \notin OffSet /\ j \notin OffSet /\ MayLink({e}) /\ e.ends = {i, j} /\ i # j
  BY LinkOfFacts DEF LinkOf
<1>2. PICK t \in AddAt(s, i, e) : u \in IF t.ok THEN AddAt(t, j, e) ELSE {t}
  BY DEF TellEnds, Then
<1>3. /\ Base(t, UpSet, OffSet) /\ Current(t) /\ Later(s, t)
      /\ Told(s, t, i, Put(s.edges[i], e))
  BY <1>1, <1>2, AddAtOutcome
<1>4. CASE ~t.ok
  <2>1. u = t
    BY <1>2, <1>4
  <2>2. BothTold(s, t, e)
    BY <1>1, <1>3, <1>4 DEF Told, BothTold
  <2> QED BY <1>3, <2>1, <2>2
<1>5. CASE t.ok
  <2>1. /\ Base(u, UpSet, OffSet) /\ Current(u) /\ Later(t, u)
        /\ Told(t, u, j, Put(t.edges[j], e))
    BY <1>1, <1>2, <1>3, <1>5, AddAtOutcome
  <2>2. Later(s, u)
    BY <1>3, <2>1, LaterChain DEF Base, Typed
  <2>3. t.edges[j] = s.edges[j] /\ u.edges[i] = t.edges[i]
    BY <1>1, <1>3, <2>1 DEF Told
  <2>4. Quiet(u) => Quiet(t)
    BY <1>3, <2>1, QuietBefore DEF Base, Typed
  <2>5. Quiet(u) /\ e.ends \subseteq UpSet => \A k \in e.ends : u.edges[k] = Put(s.edges[k], e)
    BY <1>1, <1>3, <2>1, <2>3, <2>4 DEF Told
  <2>6. \A k \in Ids \ e.ends : u.edges[k] = s.edges[k]
    BY <1>1, <1>3, <2>1 DEF Told
  <2>7. u.edges[i] = s.edges[i] \/ u.edges[i] = Put(s.edges[i], e)
    BY <1>3, <2>3 DEF Told
  <2>8. u.edges[j] = s.edges[j] \/ u.edges[j] = Put(s.edges[j], e)
    BY <2>1, <2>3 DEF Told
  <2>9. \A k \in Ids : u.edges[k] = s.edges[k] \/ u.edges[k] = Put(s.edges[k], e)
    BY <1>1, <2>6, <2>7, <2>8
  <2>10. u.known = s.known /\ u.graph = s.graph /\ u.owned = s.owned /\ u.endpoints = s.endpoints
    BY <1>3, <2>1 DEF Told
  <2>11. BothTold(s, u, e)
    BY <2>5, <2>6, <2>9, <2>10 DEF BothTold
  <2> QED BY <2>1, <2>2, <2>11
<1> QED BY <1>4, <1>5

\* A link that was reported: what the handler leaves of it.
Reported(s, u, e) ==
    /\ u.known = s.known /\ u.owned = s.owned /\ u.endpoints = s.endpoints
    /\ u.graph \subseteq s.graph \union {e}

\* The outcome of a report of a new link: ends and topology agree on it, unless
\* something went wrong.
LEMMA AddEdgeOutcome ==
    ASSUME layout.losses \in Nat,
           NEW s, Sound(s, UpSet, OffSet), s.ok, NEW i \in Ids, NEW j \in Ids,
           NEW e, LinkOf(e, i, j), NEW u \in AddEdge(s, i, j, e)
    PROVE  Sound(u, UpSet, OffSet) /\ Later(s, u) /\ Reported(s, u, e)
<1>1. PICK t \in SetEdge(s, e) :
         u \in IF t.ok THEN IF e.ends \subseteq t.known THEN TellEnds(t, i, j, e) ELSE {Raise(t)}
               ELSE {t}
  BY DEF AddEdge, Then
<1>2. /\ Base(t, UpSet, OffSet) /\ Current(t) /\ Later(s, t)
      /\ t.graph \subseteq s.graph \union {e}
      /\ Linked(s, t, t.graph)
      /\ t.ok => t.graph = Put(s.graph, e)
      /\ t.ok \/ t.drifted
  BY <1>1, SetOutcome DEF Sound, LinkOf
<1>3. t \in Sites /\ s \in Sites /\ t.lost <= layout.losses
  BY <1>2 DEF Sound, Base, Typed
<1>4. CASE ~t.ok
  <2>1. u = t /\ t.drifted
    BY <1>1, <1>2, <1>4
  <2>2. Agree(u, UpSet)
    BY <2>1 DEF Agree, Quiet
  <2> QED BY <1>2, <2>1, <2>2 DEF Sound, Linked, Reported
<1>5. CASE t.ok /\ ~(e.ends \subseteq t.known)
  <2>1. u = Raise(t)
    BY <1>1, <1>5
  <2>2. Marked(t, u)
    BY <1>3, <2>1, RaiseMarked
  <2>3. Base(u, UpSet, OffSet) /\ Current(u) /\ Later(t, u)
    BY <1>2, <2>2, BaseMarked DEF Marked
  <2>4. Later(s, u)
    BY <1>2, <1>3, <2>3, LaterChain DEF Base, Typed
  <2>5. /\ u.known = s.known /\ u.owned = s.owned /\ u.endpoints = s.endpoints
        /\ u.edges = s.edges /\ u.graph = Put(s.graph, e) /\ u.graph = t.graph
    BY <1>2, <1>5, <2>2 DEF Marked, Same, Routed, Linked
  <2>6. ASSUME Quiet(u), NEW k \in u.known \intersect UpSet, NEW l \in u.known \intersect UpSet
        PROVE  Pair(u.edges[k], {k, l}) = Pair(u.graph, {k, l})
    <3>1. e.ends # {k, l}
      BY <1>2, <1>5, <2>5 DEF Linked
    <3>2. Pair(u.graph, {k, l}) = Pair(s.graph, {k, l})
      BY <2>5, <3>1 DEF Pair, Put, SamePair
    <3>3. Quiet(s)
      BY <1>3, <2>3, <2>4, <2>6, QuietBefore DEF Base, Typed
    <3> QED BY <2>5, <2>6, <3>2, <3>3 DEF Sound, Agree
  <2>7. Agree(u, UpSet)
    BY <2>6 DEF Agree
  <2> QED BY <1>2, <2>3, <2>4, <2>5, <2>7 DEF Sound, Reported
<1>6. CASE t.ok /\ e.ends \subseteq t.known
  <2>1. u \in TellEnds(t, i, j, e)
    BY <1>1, <1>6
  <2>2. /\ Base(u, UpSet, OffSet) /\ Current(u) /\ Later(t, u)
        /\ BothTold(t, u, e)
    BY <1>2, <1>6, <2>1, TellEndsOutcome
  <2>3. Later(s, u)
    BY <1>2, <1>3, <2>2, LaterChain DEF Base, Typed
  <2>4. /\ u.known = s.known /\ u.owned = s.owned /\ u.endpoints = s.endpoints
        /\ u.graph = Put(s.graph, e) /\ u.graph = t.graph /\ t.edges = s.edges
    BY <1>2, <1>6, <2>2 DEF BothTold, Linked
  <2>5. ASSUME Quiet(u), NEW k \in u.known \intersect UpSet, NEW l \in u.known \intersect UpSet
        PROVE  Pair(u.edges[k], {k, l}) = Pair(u.graph, {k, l})
    <3>0. k \in Ids
      BY DEF UpSet
    <3>1. CASE e.ends # {k, l}
      <4>1. Pair(u.graph, {k, l}) = Pair(s.graph, {k, l})
        BY <2>4, <3>1 DEF Pair, Put, SamePair
      <4>2. Pair(u.edges[k], {k, l}) = Pair(s.edges[k], {k, l})
        <5>1. u.edges[k] = s.edges[k] \/ u.edges[k] = Put(s.edges[k], e)
          BY <2>2, <2>4, <3>0 DEF BothTold
        <5> QED BY <3>1, <5>1 DEF Pair, Put, SamePair
      <4>3. Quiet(s)
        BY <1>3, <2>2, <2>3, <2>5, QuietBefore DEF Base, Typed
      <4> QED BY <2>4, <2>5, <4>1, <4>2, <4>3 DEF Sound, Agree
    <3>2. CASE e.ends = {k, l}
      <4>1. u.edges[k] = Put(t.edges[k], e)
        BY <2>2, <2>5, <3>2 DEF BothTold
      <4> QED BY <2>4, <3>2, <4>1 DEF Pair, Put, SamePair
    <3> QED BY <3>1, <3>2
  <2>6. Agree(u, UpSet)
    BY <2>5 DEF Agree
  <2> QED BY <1>2, <2>2, <2>3, <2>4, <2>6 DEF Sound, Reported
<1> QED BY <1>4, <1>5, <1>6

\* That an exception is passed over is a mark, too.
LEMMA OkMarked ==
    ASSUME NEW s \in Sites, s.lost <= layout.losses, NEW t, t = [s EXCEPT !.ok = TRUE]
    PROVE  Marked(s, t) /\ t.ok
<1>1. t \in Sites
  BY DEF Sites
<1>2. Same(s, t)
  BY DEF Sites, Same, Routed
<1>3. t.ok /\ t.lost = s.lost /\ t.bypass = s.bypass /\ t.drifted = s.drifted
  BY DEF Sites
<1>4. s.lost \in Nat
  BY DEF Sites
<1>5. Later(s, t)
  BY <1>3, <1>4 DEF Later
<1> QED BY <1>1, <1>2, <1>3, <1>5 DEF Marked

\* The edges but those with the ends of e.
Without(E, e) == E \ SamePair(E, e)

\* An end was asked to forget the edge: it did, or something went wrong.
Forgot(s, t, i, e) ==
    /\ t.known = s.known /\ t.graph = s.graph /\ t.owned = s.owned /\ t.endpoints = s.endpoints
    /\ \A k \in Ids \ {i} : t.edges[k] = s.edges[k]
    /\ t.edges[i] = Without(s.edges[i], e) \/ t.edges[i] = s.edges[i]
    /\ Quiet(t) /\ i \in s.known \intersect UpSet => t.edges[i] = Without(s.edges[i], e)
    /\ t.ok <=> i \in s.known

\* The outcome of the removal of an edge at an end.
LEMMA ForgetOutcome ==
    ASSUME layout.losses \in Nat,
           NEW s, Base(s, UpSet, OffSet), Current(s), NEW i \in Ids,
           NEW e, NEW u \in ForgetAt(s, i, e)
    PROVE  Base(u, UpSet, OffSet) /\ Current(u) /\ Later(s, u) /\ Forgot(s, u, i, e)
<1> DEFINE E == Without(s.edges[i], e)
<1>0. s \in Sites /\ s.lost <= layout.losses
  BY DEF Base, Typed
<1>1. CASE i \notin s.known
  <2>1. u = Raise(s)
    BY <1>1 DEF ForgetAt
  <2>2. Marked(s, u) /\ ~u.ok
    BY <1>0, <2>1, RaiseMarked
  <2>3. Base(u, UpSet, OffSet) /\ Current(u)
    BY <2>2, BaseMarked
  <2>4. Forgot(s, u, i, e)
    BY <1>1, <2>2 DEF Forgot, Marked, Same, Routed
  <2> QED BY <2>2, <2>3, <2>4 DEF Marked
<1>2. CASE i \in s.known
  <2>1. PICK t \in Call(s, i, Telling(s, i, E)) : u = [t EXCEPT !.ok = TRUE]
    BY <1>2 DEF ForgetAt, Try, Telling, Without
  <2>2. MayKeep(i, E)
    <3>1. MayLink(s.edges[i]) /\ (i \in OffSet => s.edges[i] = {})
      BY DEF MayLink, Base, Typed, Sites, Blank
    <3>2. MayLink(E)
      BY <3>1, MayLinkFacts DEF Without
    <3>3. E \subseteq s.edges[i]
      BY DEF Without
    <3> QED BY <3>1, <3>2, <3>3 DEF MayKeep
  <2> HIDE DEF E
  <2>3. Base(t, UpSet, OffSet) /\ Current(t) /\ Later(s, t) /\ Told(s, t, i, E)
    BY <2>1, <2>2, TellOutcome
  <2>4. t \in Sites /\ t.lost <= layout.losses
    BY <2>3 DEF Base, Typed
  <2>5. Marked(t, u) /\ u.ok
    BY <2>1, <2>4, OkMarked
  <2>6. Base(u, UpSet, OffSet) /\ Current(u)
    BY <2>3, <2>5, BaseMarked
  <2>7. Later(s, u)
    BY <1>0, <2>3, <2>4, <2>5, LaterChain DEF Marked
  <2>8. Quiet(u) => Quiet(t)
    BY <2>4, <2>5, QuietBefore DEF Marked
  <2>9. Forgot(s, u, i, e)
    BY <1>2, <2>3, <2>5, <2>8 DEF Forgot, Told, Marked, Same, Routed, E
  <2> QED BY <2>6, <2>7, <2>9
<1> QED BY <1>1, <1>2

\* Some of the ends were asked to forget the edge.
BeingForgot(s, t, e, left) ==
    /\ Base(t, UpSet, OffSet) /\ Current(t) /\ Later(s, t)
    /\ t.known = s.known /\ t.graph = s.graph /\ t.owned = s.owned /\ t.endpoints = s.endpoints
    /\ \A k \in Ids : t.edges[k] = Without(s.edges[k], e) \/ t.edges[k] = s.edges[k]
    /\ \A k \in Ids \ e.ends : t.edges[k] = s.edges[k]
    /\ ~t.ok => ~(e.ends \subseteq s.known)
    /\ Quiet(t) /\ t.ok =>
         \A k \in (e.ends \ left) \intersect UpSet : t.edges[k] = Without(s.edges[k], e)

\* A round of the loop over the ends.
LEMMA ForgetRound ==
    ASSUME layout.losses \in Nat, NEW s \in Sites, NEW e \in Edge, NEW left \in SUBSET e.ends, NEW x \in left,
           NEW t, BeingForgot(s, t, e, left), t.ok, NEW u \in ForgetAt(t, x, e)
    PROVE  BeingForgot(s, u, e, left \ {x})
<1>0. x \in Ids /\ t \in Sites /\ e.ends \subseteq Ids
  BY DEF BeingForgot, Base, Typed, Edge
<1>1. Base(u, UpSet, OffSet) /\ Current(u) /\ Later(t, u) /\ Forgot(t, u, x, e)
  BY <1>0, ForgetOutcome DEF BeingForgot
<1>2. Later(s, u)
  BY <1>0, <1>1, LaterChain DEF BeingForgot, Base, Typed
<1>3. u.known = s.known /\ u.graph = s.graph /\ u.owned = s.owned /\ u.endpoints = s.endpoints
  BY <1>1 DEF BeingForgot, Forgot
<1>4. \A E : Without(Without(E, e), e) = Without(E, e)
  BY DEF Without, SamePair
<1>5. u.edges[x] = Without(s.edges[x], e) \/ u.edges[x] = s.edges[x]
  BY <1>0, <1>1, <1>4 DEF BeingForgot, Forgot
<1>6. \A k \in Ids \ {x} : u.edges[k] = t.edges[k]
  BY <1>1 DEF Forgot
<1>7. \A k \in Ids : u.edges[k] = Without(s.edges[k], e) \/ u.edges[k] = s.edges[k]
  BY <1>5, <1>6 DEF BeingForgot
<1>8. \A k \in Ids \ e.ends : u.edges[k] = s.edges[k]
  BY <1>6 DEF BeingForgot
<1>9. ~u.ok => ~(e.ends \subseteq s.known)
  BY <1>1 DEF BeingForgot, Forgot
<1>10. ASSUME Quiet(u), u.ok, NEW k \in (e.ends \ (left \ {x})) \intersect UpSet
       PROVE  u.edges[k] = Without(s.edges[k], e)
  <2>1. Quiet(t)
    BY <1>0, <1>1, <1>10, QuietBefore DEF Base, Typed
  <2>2. CASE k = x
    <3>1. x \in t.known
      BY <1>1, <1>10 DEF Forgot
    <3>2. u.edges[x] = Without(t.edges[x], e)
      BY <1>1, <1>10, <2>2, <3>1 DEF Forgot
    <3>3. t.edges[x] = Without(s.edges[x], e) \/ t.edges[x] = s.edges[x]
      BY <1>0 DEF BeingForgot
    <3> QED BY <1>4, <2>2, <3>2, <3>3
  <2>3. CASE k # x
    BY <1>0, <1>6, <1>10, <2>1, <2>3 DEF BeingForgot
  <2> QED BY <2>2, <2>3
<1> QED BY <1>1, <1>2, <1>3, <1>7, <1>8, <1>9, <1>10 DEF BeingForgot

\* The loop over the ends, as a function of the state.
ForgetStep(e) == [x \in e.ends |-> [v \in Sites |-> ForgetAt(v, x, e)]]

\* The outcome of that loop.
LEMMA ForgetLoop ==
    ASSUME layout.losses \in Nat, NEW s, Sound(s, UpSet, OffSet), s.ok, NEW e \in Edge,
           NEW t \in Loop(e.ends, s, ForgetStep(e))
    PROVE  BeingForgot(s, t, e, {})
<1> DEFINE S == e.ends
           I == {pass \in Passes(S) : BeingForgot(s, pass.site, e, pass.left)}
           step == ForgetStep(e)
<1>1. IsFiniteSet(S)
  <2>1. S \in SUBSET Ids /\ IsFiniteSet(Ids)
    BY SiteAssumption DEF Edge
  <2> HIDE DEF S
  <2> QED BY <2>1, FS_Subset
<1>2. s \in Sites /\ s.lost \in Nat
  BY DEF Sound, Base, Typed, Sites
<1>3. [left |-> S, site |-> s] \in I
  <2>2. Later(s, s)
    BY <1>2 DEF Later
  <2>3. \A k \in (e.ends \ S) \intersect UpSet : FALSE
    OBVIOUS
  <2>4. Base(s, UpSet, OffSet) /\ Current(s)
    BY DEF Sound
  <2>1. BeingForgot(s, s, e, S)
    BY <2>2, <2>3, <2>4 DEF BeingForgot
  <2> QED BY <1>2, <2>1 DEF Passes
<1>4. ASSUME NEW pass \in I, NEW x \in pass.left
      PROVE  /\ pass.site.ok => \A u \in step[x][pass.site] : [left |-> pass.left \ {x}, site |-> u] \in I
             /\ ~pass.site.ok => [left |-> pass.left \ {x}, site |-> pass.site] \in I
  <2>1. pass.left \in SUBSET S /\ pass.site \in Sites /\ BeingForgot(s, pass.site, e, pass.left)
    BY DEF Passes
  <2>2. ASSUME pass.site.ok, NEW u \in step[x][pass.site]
        PROVE  [left |-> pass.left \ {x}, site |-> u] \in I
    <3>1. u \in ForgetAt(pass.site, x, e)
      BY <2>1, <2>2 DEF ForgetStep
    <3>2. BeingForgot(s, u, e, pass.left \ {x})
      BY <1>2, <2>1, <2>2, <3>1, ForgetRound
    <3> QED BY <2>1, <3>2 DEF Passes, BeingForgot, Base, Typed
  <2>3. ASSUME ~pass.site.ok
        PROVE  [left |-> pass.left \ {x}, site |-> pass.site] \in I
    <3>1. BeingForgot(s, pass.site, e, pass.left \ {x})
      BY <2>1, <2>3 DEF BeingForgot
    <3> QED BY <2>1, <3>1 DEF Passes
  <2> QED BY <2>2, <2>3
<1>5. t \in Loop(S, s, step)
  OBVIOUS
<1>6. I \in SUBSET Passes(S)
  OBVIOUS
<1> HIDE DEF I, step, S
<1>7. [left |-> {}, site |-> t] \in I
  BY <1>1, <1>3, <1>4, <1>5, <1>6, LoopEnds
<1> QED BY <1>7 DEF I

\* A link that was removed: what belongs to it is gone, unless the handler raised.
LEMMA RemoveEdgeOutcome ==
    ASSUME layout.losses \in Nat, NEW s, Sound(s, UpSet, OffSet), s.ok, NEW e \in Edge,
           NEW u \in RemoveEdge(s, e)
    PROVE  /\ Sound(u, UpSet, OffSet) /\ Later(s, u) /\ Shrinks(s, u)
           /\ u.ok => e \notin u.graph
<1>1. PICK t \in Loop(e.ends, s, ForgetStep(e)) :
         u \in IF t.ok THEN IF SamePair(t.graph, e) = {} THEN {Raise(t)} ELSE DropEdge(t, e)
               ELSE {t}
  BY DEF RemoveEdge, Then, ForEach, ForgetStep
<1>2. BeingForgot(s, t, e, {})
  BY <1>1, ForgetLoop
<1>3. /\ Base(t, UpSet, OffSet) /\ Current(t) /\ Later(s, t) /\ t \in Sites /\ s \in Sites
      /\ t.lost <= layout.losses
  BY <1>2 DEF BeingForgot, Sound, Base, Typed
<1>4. CASE ~t.ok
  <2>1. u = t
    BY <1>1, <1>4
  <2>2. ASSUME Quiet(t), NEW k \in t.known \intersect UpSet, NEW l \in t.known \intersect UpSet
        PROVE  Pair(t.edges[k], {k, l}) = Pair(t.graph, {k, l})
    <3>1. e.ends # {k, l} /\ k \in Ids
      BY <1>2, <1>4 DEF BeingForgot, UpSet
    <3>2. t.edges[k] = Without(s.edges[k], e) \/ t.edges[k] = s.edges[k]
      BY <1>2, <3>1 DEF BeingForgot
    <3>3. Pair(t.edges[k], {k, l}) = Pair(s.edges[k], {k, l})
      BY <3>1, <3>2 DEF Pair, Without, SamePair
    <3>4. Quiet(s)
      BY <1>3, <2>2, QuietBefore
    <3> QED BY <1>2, <2>2, <3>3, <3>4 DEF Sound, Agree, BeingForgot
  <2>3. Agree(t, UpSet)
    BY <2>2 DEF Agree
  <2> QED BY <1>2, <1>3, <1>4, <2>1, <2>3 DEF Sound, Shrinks, BeingForgot
<1>5. CASE t.ok
  <2>1. /\ Base(u, UpSet, OffSet) /\ Current(u) /\ Later(t, u)
        /\ u.known = t.known /\ u.owned = t.owned /\ u.endpoints = t.endpoints
        /\ u.edges = t.edges /\ u.graph = Without(t.graph, e)
    <3>1. CASE SamePair(t.graph, e) = {}
      <4>1. u = Raise(t)
        BY <1>1, <1>5, <3>1
      <4>2. Marked(t, u)
        BY <1>3, <4>1, RaiseMarked
      <4>3. Base(u, UpSet, OffSet) /\ Current(u)
        BY <1>3, <4>2, BaseMarked
      <4>4. Without(t.graph, e) = t.graph
        BY <3>1 DEF Without
      <4> QED BY <4>2, <4>3, <4>4 DEF Marked, Same, Routed
    <3>2. CASE SamePair(t.graph, e) # {}
      <4>1. u \in DropEdge(t, e)
        BY <1>1, <1>5, <3>2
      <4>2. /\ Base(u, UpSet, OffSet) /\ Current(u) /\ Later(t, u)
            /\ Linked(t, u, t.graph \ SamePair(t.graph, e))
        BY <1>3, <1>5, <4>1, DropOutcome
      <4> QED BY <4>2 DEF Linked, Without
    <3> QED BY <3>1, <3>2
  <2>2. Later(s, u)
    BY <1>3, <2>1, LaterChain DEF Base, Typed
  <2>3. u.graph = Without(s.graph, e)
    BY <1>2, <2>1 DEF BeingForgot
  <2>4. ASSUME Quiet(u), NEW k \in u.known \intersect UpSet, NEW l \in u.known \intersect UpSet
        PROVE  Pair(u.edges[k], {k, l}) = Pair(u.graph, {k, l})
    <3>0. k \in Ids
      BY DEF UpSet
    <3>1. CASE e.ends # {k, l}
      <4>1. t.edges[k] = Without(s.edges[k], e) \/ t.edges[k] = s.edges[k]
        BY <1>2, <3>0 DEF BeingForgot
      <4>2. Pair(u.edges[k], {k, l}) = Pair(s.edges[k], {k, l})
        BY <2>1, <3>1, <4>1 DEF Pair, Without, SamePair
      <4>3. Pair(u.graph, {k, l}) = Pair(s.graph, {k, l})
        BY <2>3, <3>1 DEF Pair, Without, SamePair
      <4>4. Quiet(s)
        BY <1>3, <2>1, <2>2, <2>4, QuietBefore DEF Base, Typed
      <4>5. u.known = s.known
        BY <1>2, <2>1 DEF BeingForgot
      <4> QED BY <2>4, <4>2, <4>3, <4>4, <4>5 DEF Sound, Agree
    <3>2. CASE e.ends = {k, l}
      <4>1. Quiet(t)
        BY <1>3, <2>1, <2>4, QuietBefore DEF Base, Typed
      <4>2. u.edges[k] = Without(s.edges[k], e)
        BY <1>2, <1>5, <2>1, <2>4, <3>2, <4>1 DEF BeingForgot
      <4> QED BY <2>3, <3>2, <4>2 DEF Pair, Without, SamePair
    <3> QED BY <3>1, <3>2
  <2>5. Agree(u, UpSet)
    BY <2>4 DEF Agree
  <2>6. e \notin u.graph /\ Shrinks(s, u)
    BY <1>2, <2>1, <2>3 DEF Without, SamePair, Shrinks, BeingForgot
  <2> QED BY <2>1, <2>2, <2>5, <2>6 DEF Sound
<1> QED BY <1>4, <1>5

-----------------------------------------------------------------------------
(* Controllers.                                                            *)

\* What each handler of a removal does: it takes away and leaves the site sound.
Cleans(s, t) == Sound(t, UpSet, OffSet) /\ Later(s, t) /\ Shrinks(s, t)

\* Doing nothing does that.
LEMMA CleansSelf == ASSUME NEW s, Sound(s, UpSet, OffSet) PROVE Cleans(s, s)
<1>1. s.lost <= s.lost
  BY DEF Sound, Base, Typed, Sites
<1>2. Later(s, s)
  BY <1>1 DEF Later
<1> QED BY <1>2 DEF Cleans, Shrinks

\* One handler after the other does that.
LEMMA CleansChain ==
    ASSUME NEW s \in Sites, NEW t, NEW u, Cleans(s, t), Cleans(t, u) PROVE Cleans(s, u)
<1>1. Later(s, u)
  BY LaterChain DEF Cleans, Sound, Base, Typed
<1>2. Shrinks(s, u)
  BY DEF Cleans, Shrinks
<1> QED BY <1>1, <1>2 DEF Cleans

\* The links of i, one after the other.
LinksOf(s, i) == {e \in s.graph : i \in e.ends}

\* The edges of i were removed, all but those that are left.
Unlinked(s, t, i, left) == Cleans(s, t) /\ (t.ok => LinksOf(t, i) \subseteq left)

\* The loop over the edges of a controller, as a function of the state.
UnlinkStep(S) == [x \in S |-> [t \in Sites |-> RemoveEdge(t, x)]]

\* After it, no edge leads to the controller, or it raised.
LEMMA UnlinkLoop ==
    ASSUME layout.losses \in Nat, NEW s, Sound(s, UpSet, OffSet), NEW i \in Ids,
           NEW u \in Loop(LinksOf(s, i), s, UnlinkStep(LinksOf(s, i)))
    PROVE  Unlinked(s, u, i, {})
<1> DEFINE S == LinksOf(s, i)
           I == {pass \in Passes(S) : Unlinked(s, pass.site, i, pass.left)}
           step == UnlinkStep(S)
<1>1. S \subseteq Edge /\ s \in Sites
  BY DEF LinksOf, Sound, Base, Typed, Sites
<1>2. IsFiniteSet(S)
  BY <1>1, EdgesFinite, FS_Subset
<1>3. [left |-> S, site |-> s] \in I
  BY <1>1, CleansSelf DEF Passes, Unlinked
<1>4. ASSUME NEW pass \in I, NEW x \in pass.left
      PROVE  /\ pass.site.ok => \A t \in step[x][pass.site] : [left |-> pass.left \ {x}, site |-> t] \in I
             /\ ~pass.site.ok => [left |-> pass.left \ {x}, site |-> pass.site] \in I
  <2>1. pass.left \in SUBSET S /\ pass.site \in Sites /\ Unlinked(s, pass.site, i, pass.left)
    BY DEF Passes
  <2> HIDE DEF S
  <2>2. ASSUME pass.site.ok, NEW t \in step[x][pass.site]
        PROVE  [left |-> pass.left \ {x}, site |-> t] \in I
    <3>1. t \in RemoveEdge(pass.site, x) /\ x \in Edge
      BY <1>1, <2>1, <2>2 DEF UnlinkStep
    <3>2. Cleans(pass.site, t) /\ (t.ok => x \notin t.graph)
      BY <2>1, <2>2, <3>1, RemoveEdgeOutcome DEF Unlinked, Cleans
    <3>3. Cleans(s, t) /\ t \in Sites
      BY <1>1, <2>1, <3>2, CleansChain DEF Unlinked, Cleans, Sound, Base, Typed
    <3>4. t.ok => LinksOf(t, i) \subseteq pass.left \ {x}
      BY <2>1, <2>2, <3>2 DEF Unlinked, LinksOf, Cleans, Shrinks
    <3> QED BY <2>1, <3>3, <3>4 DEF Passes, Unlinked
  <2>3. ASSUME ~pass.site.ok
        PROVE  [left |-> pass.left \ {x}, site |-> pass.site] \in I
    BY <2>1, <2>3 DEF Passes, Unlinked
  <2> QED BY <2>2, <2>3
<1>5. I \in SUBSET Passes(S) /\ u \in Loop(S, s, step)
  OBVIOUS
<1> HIDE DEF I, step, S
<1>6. [left |-> {}, site |-> u] \in I
  BY <1>2, <1>3, <1>4, <1>5, LoopEnds
<1> QED BY <1>6 DEF I

\* The subnets of i, one after the other.
Disowned(s, t, i, left) == Cleans(s, t) /\ (t.ok => t.owned[i] \subseteq left)

\* The loop over the subnets of a controller, as a function of the state.
DisownStep(i, S) == [x \in S |-> [t \in Sites |-> RemoveSubnet(t, i, x)]]

\* After it, the controller has no subnet, or it raised.
LEMMA DisownLoop ==
    ASSUME layout.losses \in Nat, NEW s, Sound(s, UpSet, OffSet), NEW i \in Ids,
           NEW u \in Loop(s.owned[i], s, DisownStep(i, s.owned[i]))
    PROVE  Disowned(s, u, i, {})
<1> DEFINE S == s.owned[i]
           I == {pass \in Passes(S) : Disowned(s, pass.site, i, pass.left)}
           step == DisownStep(i, S)
<1>1. S \subseteq Subnets /\ s \in Sites
  BY DEF Sound, Base, Typed, Sites
<1>2. IsFiniteSet(S)
  <2>1. IsFiniteSet(Subnets)
    BY SiteAssumption
  <2> QED BY <1>1, <2>1, FS_Subset
<1>3. [left |-> S, site |-> s] \in I
  BY <1>1, CleansSelf DEF Passes, Disowned
<1>4. ASSUME NEW pass \in I, NEW x \in pass.left
      PROVE  /\ pass.site.ok => \A t \in step[x][pass.site] : [left |-> pass.left \ {x}, site |-> t] \in I
             /\ ~pass.site.ok => [left |-> pass.left \ {x}, site |-> pass.site] \in I
  <2>1. pass.left \in SUBSET S /\ pass.site \in Sites /\ Disowned(s, pass.site, i, pass.left)
    BY DEF Passes
  <2> HIDE DEF S
  <2>2. ASSUME pass.site.ok, NEW t \in step[x][pass.site]
        PROVE  [left |-> pass.left \ {x}, site |-> t] \in I
    <3>1. t \in RemoveSubnet(pass.site, i, x) /\ x \in Subnets
      BY <1>1, <2>1, <2>2 DEF DisownStep
    <3>2. Cleans(pass.site, t) /\ t.owned[i] = pass.site.owned[i] \ {x}
      <4>1. Sound(pass.site, UpSet, OffSet)
        BY <2>1 DEF Disowned, Cleans
      <4> QED BY <2>2, <3>1, <4>1, RemoveSubnetOutcome DEF Cleans
    <3>3. Cleans(s, t) /\ t \in Sites
      BY <1>1, <2>1, <3>2, CleansChain DEF Disowned, Cleans, Sound, Base, Typed
    <3>4. t.ok => t.owned[i] \subseteq pass.left \ {x}
      BY <2>1, <2>2, <3>2 DEF Disowned
    <3> QED BY <2>1, <3>3, <3>4 DEF Passes, Disowned
  <2>3. ASSUME ~pass.site.ok
        PROVE  [left |-> pass.left \ {x}, site |-> pass.site] \in I
    BY <2>1, <2>3 DEF Passes, Disowned
  <2> QED BY <2>2, <2>3
<1>5. I \in SUBSET Passes(S) /\ u \in Loop(S, s, step)
  OBVIOUS
<1> HIDE DEF I, step, S
<1>6. [left |-> {}, site |-> u] \in I
  BY <1>2, <1>3, <1>4, <1>5, LoopEnds
<1> QED BY <1>6 DEF I

\* Endpoints are concentrators.
OnlyConcentrators(s) == \A i \in s.endpoints : IsConcentrator(i)

\* The outcome of the removal of an endpoint.
LEMMA RemoveEndpointOutcome ==
    ASSUME layout.losses \in Nat, NEW s, Sound(s, UpSet, OffSet), s.ok, NEW i \in Ids,
           NEW u \in RemoveEndpoint(s, i)
    PROVE  Cleans(s, u) /\ (u.ok => i \notin u.endpoints)
<1> DEFINE t == [s EXCEPT !.endpoints = @ \ {i}]
           v == [t EXCEPT !.wan = NoSite]
<1>1. s \in Sites /\ s.lost \in Nat /\ s.lost <= layout.losses
  BY DEF Sound, Base, Typed, Sites
<1>2. CASE i \notin s.endpoints
  <2>1. u = Raise(s)
    BY <1>2 DEF RemoveEndpoint
  <2>2. Marked(s, u) /\ ~u.ok
    BY <1>1, <2>1, RaiseMarked
  <2>3. Sound(u, UpSet, OffSet)
    BY <2>2, SoundMarked
  <2>4. Shrinks(s, u)
    BY <2>2 DEF Marked, Same, Routed, Shrinks
  <2> QED BY <2>2, <2>3, <2>4 DEF Cleans, Marked
<1>3. CASE i \in s.endpoints
  <2>1. u = t \/ u = Raise(t) \/ u \in CallLive(t, v)
    BY <1>3 DEF RemoveEndpoint
  <2>2. t \in Sites
    BY <1>1 DEF Sites
  <2>3. Core(s, t) /\ t.endpoints = s.endpoints \ {i}
    BY <1>1 DEF Sites, Core
  <2>4. t.lost = s.lost /\ t.bypass = s.bypass /\ t.drifted = s.drifted
    BY <1>1 DEF Sites
  <2> HIDE DEF t
  <2>5. Later(s, t)
    BY <1>1, <2>4 DEF Later
  <2>6. Sound(t, UpSet, OffSet)
    BY <1>1, <2>2, <2>3, <2>4, <2>5, SoundCore
  <2>7. /\ Sound(v, UpSet, OffSet) /\ Core(t, v) /\ v.endpoints = t.endpoints
        /\ Later(t, v) /\ v.lost = t.lost
    BY <2>6, WanSound
  <2> HIDE DEF v
  <2>8. Core(t, t) /\ Later(t, t)
    BY <1>1, <2>4 DEF Core, Later
  <2>9. Sound(u, UpSet, OffSet) /\ Core(t, u) /\ u.endpoints = t.endpoints /\ Later(t, u)
    <3>1. CASE u = t
      BY <2>6, <2>8, <3>1
    <3>2. CASE u = Raise(t)
      <4>1. Called(t, t, u)
        BY <1>1, <2>2, <2>4, <3>2, RaiseMarked DEF Called
      <4> QED BY <2>6, <2>8, <4>1, CalledSound
    <3>3. CASE u \in CallLive(t, v)
      <4>1. Called(t, v, u)
        BY <2>2, <2>7, <3>3, CallLiveOutcome DEF Sound, Base, Typed
      <4> QED BY <2>6, <2>7, <4>1, CalledSound
    <3> QED BY <2>1, <3>1, <3>2, <3>3
  <2>10. Later(s, u)
    BY <1>1, <2>2, <2>5, <2>9, LaterChain DEF Sound, Base, Typed
  <2>11. Shrinks(s, u) /\ i \notin u.endpoints
    BY <2>3, <2>9 DEF Core, Shrinks
  <2> QED BY <2>9, <2>10, <2>11 DEF Cleans
<1> QED BY <1>2, <1>3

\* What the handlers of the removal of i that are done have left of it.
Left(t, i, left) ==
    /\ "lldp" \notin left => LinksOf(t, i) = {}
    /\ "routing" \notin left => t.owned[i] = {}
    /\ "ipsec" \notin left => i \notin t.endpoints

\* What is gone does not come back.
LEMMA LeftShrinks ==
    ASSUME NEW s, NEW t, Shrinks(s, t), NEW i \in Ids, NEW left, Left(s, i, left)
    PROVE  Left(t, i, left)
<1>1. t.owned[i] \subseteq s.owned[i] /\ LinksOf(t, i) \subseteq LinksOf(s, i)
  BY DEF Shrinks, LinksOf
<1>2. t.endpoints \subseteq s.endpoints
  BY DEF Shrinks
<1> QED BY <1>1, <1>2 DEF Left

\* A handler of a removal takes away what belongs to it, or raises.
LEMMA HandleOutcome ==
    ASSUME layout.losses \in Nat, NEW s, Sound(s, UpSet, OffSet), s.ok, OnlyConcentrators(s),
           NEW i \in Ids, NEW h \in Handlers, NEW left, Left(s, i, left),
           NEW u \in HandleRemove(s, i, h)
    PROVE  Cleans(s, u) /\ (u.ok => Left(u, i, left \ {h}))
<1>1. CASE h = "lldp"
  <2>1. u \in Loop(LinksOf(s, i), s, UnlinkStep(LinksOf(s, i)))
    BY <1>1 DEF HandleRemove, ForEach, LinksOf, UnlinkStep
  <2>2. Cleans(s, u) /\ (u.ok => LinksOf(u, i) = {})
    BY <2>1, UnlinkLoop DEF Unlinked
  <2>3. Left(u, i, left)
    BY <2>2, LeftShrinks DEF Cleans
  <2> QED BY <1>1, <2>2, <2>3 DEF Left
<1>2. CASE h = "routing"
  <2>1. u \in Loop(s.owned[i], s, DisownStep(i, s.owned[i]))
    BY <1>2 DEF HandleRemove, ForEach, DisownStep
  <2>2. Cleans(s, u) /\ (u.ok => u.owned[i] = {})
    BY <2>1, DisownLoop DEF Disowned
  <2>3. Left(u, i, left)
    BY <2>2, LeftShrinks DEF Cleans
  <2> QED BY <1>2, <2>2, <2>3 DEF Left
<1>3. CASE h = "ipsec"
  <2>1. u \in IF IsConcentrator(i) THEN RemoveEndpoint(s, i) ELSE {s}
    BY <1>3 DEF HandleRemove
  <2>2. Cleans(s, u) /\ (u.ok => i \notin u.endpoints)
    <3>1. CASE IsConcentrator(i)
      BY <2>1, <3>1, RemoveEndpointOutcome
    <3>2. CASE ~IsConcentrator(i)
      BY <2>1, <3>2, CleansSelf DEF OnlyConcentrators
    <3> QED BY <3>1, <3>2
  <2>3. Left(u, i, left)
    BY <2>2, LeftShrinks DEF Cleans
  <2> QED BY <1>3, <2>2, <2>3 DEF Left
<1> QED BY <1>1, <1>2, <1>3 DEF Handlers

\* The handlers of the removal of i were called, all but those that are left.
Leaving(s, t, i, left) == Cleans(s, t) /\ (t.ok => Left(t, i, left))

\* The loop over the handlers, as a function of the state.
HandleStep(i) == [h \in Handlers |-> [t \in Sites |-> HandleRemove(t, i, h)]]

\* After it, nothing is left of the controller, or it raised.
LEMMA HandleLoop ==
    ASSUME layout.losses \in Nat, NEW s, Sound(s, UpSet, OffSet), OnlyConcentrators(s), NEW i \in Ids,
           NEW u \in Loop(Handlers, s, HandleStep(i))
    PROVE  Leaving(s, u, i, {})
<1> DEFINE I == {pass \in Passes(Handlers) : Leaving(s, pass.site, i, pass.left)}
<1>1. s \in Sites
  BY DEF Sound, Base, Typed
<1>2. IsFiniteSet(Handlers)
  <2>1. Handlers = ({"lldp"} \union {"routing"}) \union {"ipsec"}
    BY DEF Handlers
  <2>2. IsFiniteSet({"lldp"}) /\ IsFiniteSet({"routing"}) /\ IsFiniteSet({"ipsec"})
    BY FS_Singleton
  <2> QED BY <2>1, <2>2, FS_Union
<1>3. [left |-> Handlers, site |-> s] \in I
  <2>1. Left(s, i, Handlers)
    BY DEF Left, Handlers
  <2> QED BY <1>1, <2>1, CleansSelf DEF Passes, Leaving
<1>4. ASSUME NEW pass \in I, NEW x \in pass.left
      PROVE  /\ pass.site.ok => \A t \in HandleStep(i)[x][pass.site] : [left |-> pass.left \ {x}, site |-> t] \in I
             /\ ~pass.site.ok => [left |-> pass.left \ {x}, site |-> pass.site] \in I
  <2>1. pass.left \in SUBSET Handlers /\ pass.site \in Sites /\ Leaving(s, pass.site, i, pass.left)
    BY DEF Passes
  <2>2. ASSUME pass.site.ok, NEW t \in HandleStep(i)[x][pass.site]
        PROVE  [left |-> pass.left \ {x}, site |-> t] \in I
    <3>1. t \in HandleRemove(pass.site, i, x) /\ x \in Handlers
      BY <2>1, <2>2 DEF HandleStep
    <3>2. OnlyConcentrators(pass.site) /\ Sound(pass.site, UpSet, OffSet) /\ Left(pass.site, i, pass.left)
      BY <2>1, <2>2 DEF OnlyConcentrators, Leaving, Cleans, Shrinks
    <3>3. Cleans(pass.site, t) /\ (t.ok => Left(t, i, pass.left \ {x}))
      BY <2>2, <3>1, <3>2, HandleOutcome
    <3>4. Cleans(s, t) /\ t \in Sites
      BY <1>1, <2>1, <3>3, CleansChain DEF Leaving, Cleans, Sound, Base, Typed
    <3> QED BY <2>1, <3>3, <3>4 DEF Passes, Leaving
  <2>3. ASSUME ~pass.site.ok
        PROVE  [left |-> pass.left \ {x}, site |-> pass.site] \in I
    BY <2>1, <2>3 DEF Passes, Leaving
  <2> QED BY <2>2, <2>3
<1>5. I \in SUBSET Passes(Handlers)
  OBVIOUS
<1> HIDE DEF I
<1>6. [left |-> {}, site |-> u] \in I
  BY <1>2, <1>3, <1>4, <1>5, LoopEnds
<1> QED BY <1>6 DEF I

\* A controller that is not registered has nothing.
ClearOf(s, i) == LinksOf(s, i) = {} /\ s.owned[i] = {} /\ i \notin s.endpoints

\* They keep nothing of any controller that is not registered.
Clear(s) == \A i \in Ids \ s.known : ClearOf(s, i)

\* What the removals of controllers keep.
Checked(s, t) ==
    /\ Sound(t, UpSet, OffSet) /\ Later(s, t) /\ OnlyConcentrators(t)
    /\ Clear(s) => Clear(t)

\* A controller is removed only when nothing is left of it.
LEMMA RemoveControllerOutcome ==
    ASSUME layout.losses \in Nat, NEW s, Sound(s, UpSet, OffSet), s.ok, OnlyConcentrators(s),
           NEW i \in Ids, NEW u \in RemoveController(s, i)
    PROVE  Checked(s, u)
<1>1. s \in Sites /\ s.lost <= layout.losses
  BY DEF Sound, Base, Typed
<1>2. CASE i \notin s.known
  <2>1. u = Raise(s)
    BY <1>2 DEF RemoveController
  <2>2. Marked(s, u)
    BY <1>1, <2>1, RaiseMarked
  <2>3. Sound(u, UpSet, OffSet)
    BY <2>2, SoundMarked
  <2> QED BY <2>2, <2>3 DEF Checked, Marked, Same, Routed, OnlyConcentrators, Clear, ClearOf, LinksOf
<1>3. CASE i \in s.known
  <2>1. PICK t \in Loop(Handlers, s, HandleStep(i)) :
           u \in IF t.ok THEN {[t EXCEPT !.known = @ \ {i}]} ELSE {t}
    BY <1>3 DEF RemoveController, Then, ForEach, HandleStep
  <2>2. Cleans(s, t) /\ (t.ok => Left(t, i, {}))
    BY <2>1, HandleLoop DEF Leaving
  <2>3. OnlyConcentrators(t) /\ (Clear(s) => Clear(t))
    <3>1. OnlyConcentrators(t)
      BY <2>2 DEF OnlyConcentrators, Cleans, Shrinks
    <3>2. ASSUME Clear(s), NEW k \in Ids \ t.known PROVE ClearOf(t, k)
      <4>1. ClearOf(s, k)
        BY <2>2, <3>2 DEF Clear, Cleans, Shrinks
      <4>2. t.owned[k] \subseteq s.owned[k] /\ LinksOf(t, k) \subseteq LinksOf(s, k)
        BY <2>2 DEF Cleans, Shrinks, LinksOf
      <4>3. t.endpoints \subseteq s.endpoints
        BY <2>2 DEF Cleans, Shrinks
      <4> QED BY <4>1, <4>2, <4>3 DEF ClearOf
    <3> QED BY <3>1, <3>2 DEF Clear
  <2>4. CASE ~t.ok
    BY <2>1, <2>2, <2>3, <2>4 DEF Checked, Cleans
  <2>5. CASE t.ok
    <3>1. u = [t EXCEPT !.known = @ \ {i}]
      BY <2>1, <2>5
    <3>2. t \in Sites /\ t.lost <= layout.losses /\ t.lost \in Nat
      BY <2>2 DEF Cleans, Sound, Base, Typed, Sites
    <3>3. u \in Sites
      BY <3>1, <3>2 DEF Sites
    <3>4. /\ u.known = t.known \ {i} /\ u.graph = t.graph /\ u.owned = t.owned
          /\ u.endpoints = t.endpoints /\ u.edges = t.edges /\ u.rules = t.rules /\ u.table = t.table
      BY <3>1, <3>2 DEF Sites
    <3>5. u.lost = t.lost /\ u.bypass = t.bypass /\ u.drifted = t.drifted
      BY <3>1, <3>2 DEF Sites
    <3>6. ClearOf(u, i) /\ t.owned[i] = {}
      BY <2>2, <2>5, <3>4 DEF Left, ClearOf, LinksOf
    <3>7. Goal(u) = Goal(t)
      BY <3>4, <3>6, GoalSame
    <3>8. Current(u)
      BY <2>2, <3>4, <3>5, <3>7 DEF Current, Cleans, Sound
    <3>9. Base(u, UpSet, OffSet)
      <4>1. \A k \in OffSet : Blank(u, k)
        BY <2>2, <3>4 DEF Cleans, Sound, Base, Blank
      <4>2. ~u.drifted => \A k \in u.known \intersect UpSet : Matches(u, u.rules, k)
        BY <2>2, <3>4, <3>5 DEF Cleans, Sound, Base, Matches
      <4> QED BY <3>2, <3>3, <3>5, <4>1, <4>2 DEF Base, Typed
    <3>10. Agree(u, UpSet)
      <4>1. (Quiet(u) => Quiet(t)) /\ Agree(t, UpSet)
        BY <2>2, <3>5 DEF Cleans, Sound, Quiet
      <4>2. \A k \in u.known \intersect UpSet : k \in t.known \intersect UpSet
        BY <3>4
      <4> QED BY <3>4, <4>1, <4>2 DEF Agree
    <3>11. Later(s, u)
      BY <2>2, <3>5 DEF Cleans, Later
    <3>12. OnlyConcentrators(u)
      BY <2>3, <3>4 DEF OnlyConcentrators
    <3>13. Clear(s) => Clear(u)
      BY <2>3, <3>4, <3>6 DEF Clear, ClearOf, LinksOf
    <3> QED BY <3>8, <3>9, <3>10, <3>11, <3>12, <3>13 DEF Checked, Sound
  <2> QED BY <2>4, <2>5
<1> QED BY <1>2, <1>3

\* The check of the controllers.
CheckStep(S) == [x \in S |-> [t \in Sites |-> RemoveController(t, x)]]

\* One removal after the other keeps it, too.
LEMMA CheckedChain ==
    ASSUME NEW s \in Sites, NEW t, NEW u, Checked(s, t), Checked(t, u) PROVE Checked(s, u)
<1>1. Later(s, u)
  BY LaterChain DEF Checked, Sound, Base, Typed
<1> QED BY <1>1 DEF Checked

\* After the check of controllers, nothing is left of those it removed.
LEMMA CheckLoop ==
    ASSUME layout.losses \in Nat, NEW s, Sound(s, UpSet, OffSet), OnlyConcentrators(s),
           NEW S \in SUBSET Ids, NEW u \in Loop(S, s, CheckStep(S))
    PROVE  Checked(s, u)
<1> DEFINE I == {pass \in Passes(S) : Checked(s, pass.site)}
<1>1. s \in Sites
  BY DEF Sound, Base, Typed
<1>2. IsFiniteSet(S)
  BY SiteAssumption, FS_Subset
<1>3. [left |-> S, site |-> s] \in I
  <2>1. Checked(s, s)
    BY CleansSelf DEF Checked, Cleans
  <2> QED BY <1>1, <2>1 DEF Passes
<1>4. ASSUME NEW pass \in I, NEW x \in pass.left
      PROVE  /\ pass.site.ok => \A t \in CheckStep(S)[x][pass.site] : [left |-> pass.left \ {x}, site |-> t] \in I
             /\ ~pass.site.ok => [left |-> pass.left \ {x}, site |-> pass.site] \in I
  <2>1. pass.left \in SUBSET S /\ pass.site \in Sites /\ Checked(s, pass.site)
    BY DEF Passes
  <2>2. ASSUME pass.site.ok, NEW t \in CheckStep(S)[x][pass.site]
        PROVE  [left |-> pass.left \ {x}, site |-> t] \in I
    <3>1. t \in RemoveController(pass.site, x) /\ x \in Ids
      BY <2>1, <2>2 DEF CheckStep
    <3>2. Checked(pass.site, t)
      BY <2>1, <2>2, <3>1, RemoveControllerOutcome DEF Checked
    <3>3. Checked(s, t) /\ t \in Sites
      BY <1>1, <2>1, <3>2, CheckedChain DEF Checked, Sound, Base, Typed
    <3> QED BY <2>1, <3>3 DEF Passes
  <2>3. ASSUME ~pass.site.ok
        PROVE  [left |-> pass.left \ {x}, site |-> pass.site] \in I
    BY <2>1, <2>3 DEF Passes
  <2> QED BY <2>2, <2>3
<1>5. I \in SUBSET Passes(S)
  OBVIOUS
<1> HIDE DEF I
<1>6. [left |-> {}, site |-> u] \in I
  BY <1>2, <1>3, <1>4, <1>5, LoopEnds
<1> QED BY <1>6 DEF I

\* Subnets that are added at i, or at some controllers.
Added(s, t, S) == Sound(t, UpSet, OffSet) /\ Later(s, t) /\ Grows(s, t, S)

\* Doing nothing adds nothing.
LEMMA AddedSelf == ASSUME NEW s, Sound(s, UpSet, OffSet), NEW S PROVE Added(s, s, S)
<1>1. Later(s, s)
  BY CleansSelf DEF Cleans
<1> QED BY <1>1 DEF Added, Grows

\* Subnets are added one after the other.
LEMMA AddedChain ==
    ASSUME NEW s \in Sites, NEW S, NEW x \in S, NEW t, NEW u, Added(s, t, S), Added(t, u, {x})
    PROVE  Added(s, u, S)
<1>1. Later(s, u)
  BY LaterChain DEF Added, Sound, Base, Typed
<1>2. Grows(s, u, S)
  BY DEF Added, Grows
<1> QED BY <1>1, <1>2 DEF Added

\* A loop whose rounds add subnets at the controllers in S.
LEMMA AddLoop ==
    ASSUME NEW s, Sound(s, UpSet, OffSet), NEW S, NEW T, IsFiniteSet(T), NEW step,
           \A x \in T : \A t \in Sites :
               Sound(t, UpSet, OffSet) /\ t.ok => \A u \in step[x][t] : \E k \in S : Added(t, u, {k}),
           NEW u \in Loop(T, s, step)
    PROVE  Added(s, u, S)
<1> DEFINE I == {pass \in Passes(T) : Added(s, pass.site, S)}
<1>1. s \in Sites
  BY DEF Sound, Base, Typed
<1>3. [left |-> T, site |-> s] \in I
  BY <1>1, AddedSelf DEF Passes
<1>4. ASSUME NEW pass \in I, NEW x \in pass.left
      PROVE  /\ pass.site.ok => \A t \in step[x][pass.site] : [left |-> pass.left \ {x}, site |-> t] \in I
             /\ ~pass.site.ok => [left |-> pass.left \ {x}, site |-> pass.site] \in I
  <2>1. pass.left \in SUBSET T /\ pass.site \in Sites /\ Added(s, pass.site, S)
    BY DEF Passes
  <2>2. ASSUME pass.site.ok, NEW t \in step[x][pass.site]
        PROVE  [left |-> pass.left \ {x}, site |-> t] \in I
    <3>1. PICK k \in S : Added(pass.site, t, {k})
      BY <2>1, <2>2 DEF Added
    <3>2. Added(s, t, S) /\ t \in Sites
      BY <1>1, <2>1, <3>1, AddedChain DEF Added, Sound, Base, Typed
    <3> QED BY <2>1, <3>2 DEF Passes
  <2>3. ASSUME ~pass.site.ok
        PROVE  [left |-> pass.left \ {x}, site |-> pass.site] \in I
    BY <2>1, <2>3 DEF Passes
  <2> QED BY <2>2, <2>3
<1>5. I \in SUBSET Passes(T)
  OBVIOUS
<1> HIDE DEF I
<1>6. [left |-> {}, site |-> u] \in I
  BY <1>3, <1>4, <1>5, LoopEnds
<1> QED BY <1>6 DEF I

\* What the registration of i leaves.
Registered(s, t, i) ==
    /\ Sound(t, UpSet, OffSet \ {i}) /\ Later(s, t)
    /\ t.known = s.known \union {i} /\ t.graph = s.graph /\ t.owned = s.owned
    /\ t.edges = s.edges /\ t.rules = s.rules /\ t.table = s.table
    /\ t.endpoints \subseteq s.endpoints \union {i}
    /\ OnlyConcentrators(s) => OnlyConcentrators(t)

\* Marks and the WAN controller do not matter for that.
LEMMA RegisterCore ==
    ASSUME NEW s, NEW i \in Ids, NEW t, Registered(s, t, i), s \in Sites,
           NEW u \in Sites, Core(t, u), u.endpoints = t.endpoints, Later(t, u), u.lost <= layout.losses
    PROVE  Registered(s, u, i)
<1>1. Sound(u, UpSet, OffSet \ {i})
  BY SoundCore DEF Registered
<1>2. Later(s, u)
  BY LaterChain DEF Registered, Sound, Base, Typed
<1> QED BY <1>1, <1>2 DEF Registered, Core, OnlyConcentrators

\* i is registered, and what it may be an endpoint is added.
LEMMA KnownSound ==
    ASSUME NEW s, Sound(s, UpSet, OffSet), NEW i \in Ids, i \in OffSet, i \notin UpSet,
           NEW t, t = [s EXCEPT !.known = @ \union {i}]
    PROVE  Registered(s, t, i) /\ t.endpoints = s.endpoints /\ t.ok = s.ok
<1>1. s \in Sites /\ s.lost \in Nat /\ s.lost <= layout.losses
  BY DEF Sound, Base, Typed, Sites
<1>2. t \in Sites
  BY <1>1 DEF Sites
<1>3. /\ t.known = s.known \union {i} /\ t.graph = s.graph /\ t.owned = s.owned
      /\ t.endpoints = s.endpoints /\ t.edges = s.edges /\ t.rules = s.rules /\ t.table = s.table
  BY <1>1 DEF Sites
<1>4. t.lost = s.lost /\ t.bypass = s.bypass /\ t.drifted = s.drifted /\ t.ok = s.ok
  BY <1>1 DEF Sites
<1>5. s.owned[i] = {}
  BY DEF Sound, Base, Blank
<1>6. Goal(t) = Goal(s)
  BY <1>3, <1>5, GoalSame
<1>7. Current(t)
  BY <1>3, <1>4, <1>6 DEF Current, Sound
<1>8. \A k \in t.known \intersect UpSet : k \in s.known \intersect UpSet
  BY <1>3
<1>9. \A k \in OffSet \ {i} : Blank(t, k)
  BY <1>3 DEF Sound, Base, Blank
<1>10. ~t.drifted => \A k \in t.known \intersect UpSet : Matches(t, t.rules, k)
  BY <1>3, <1>4, <1>8 DEF Sound, Base, Matches
<1>11. Base(t, UpSet, OffSet \ {i})
  BY <1>1, <1>2, <1>4, <1>9, <1>10 DEF Base, Typed
<1>12. Quiet(t) => Quiet(s)
  BY <1>4 DEF Quiet
<1>13. Agree(t, UpSet)
  BY <1>3, <1>8, <1>12 DEF Agree, Sound
<1>14. Later(s, t)
  BY <1>1, <1>4 DEF Later
<1> QED BY <1>3, <1>4, <1>7, <1>11, <1>13, <1>14 DEF Registered, Sound, OnlyConcentrators

\* The outcome of the entry of an endpoint.
LEMMA AddEndpointOutcome ==
    ASSUME layout.losses \in Nat, NEW s \in Sites, NEW i \in Ids, IsConcentrator(i),
           NEW v, Registered(s, v, i), NEW u \in AddEndpoint(v, i)
    PROVE  Registered(s, u, i)
<1> DEFINE t == [v EXCEPT !.endpoints = @ \union {i}]
<1>1. v \in Sites /\ v.lost \in Nat /\ v.lost <= layout.losses
  BY DEF Registered, Sound, Base, Typed, Sites
<1>2. PICK w \in CallLive(t, t) :
         u \in IF w.ok THEN IF w.endpoints = {i} THEN CallLive(w, [w EXCEPT !.wan = AllSubnets(w)]) ELSE {w}
               ELSE {w}
  BY DEF AddEndpoint, Then
<1>3. t \in Sites
  BY <1>1 DEF Sites
<1>4. Core(v, t) /\ t.endpoints = v.endpoints \union {i}
  BY <1>1 DEF Sites, Core
<1>5. t.lost = v.lost /\ t.bypass = v.bypass /\ t.drifted = v.drifted
  BY <1>1 DEF Sites
<1> HIDE DEF t
<1>6. Later(v, t)
  BY <1>1, <1>5 DEF Later
<1>7. Sound(t, UpSet, OffSet \ {i})
  BY <1>1, <1>3, <1>4, <1>5, <1>6, SoundCore DEF Registered
<1>8. Registered(s, t, i)
  <2>1. Later(s, t)
    BY <1>1, <1>3, <1>6, LaterChain DEF Registered
  <2> QED BY <1>4, <1>7, <2>1 DEF Registered, Core, OnlyConcentrators
<1>9. ASSUME NEW r, Registered(s, r, i), NEW x \in Sites, Registered(s, x, i), NEW y, Called(r, x, y)
      PROVE  Registered(s, y, i)
  <2>1. CASE y = x
    BY <1>9, <2>1
  <2>2. CASE Marked(r, y)
    BY <1>9, <2>2, RegisterCore DEF Marked, Same, Routed, Core
  <2>3. CASE Marked(x, y)
    BY <1>9, <2>3, RegisterCore DEF Marked, Same, Routed, Core
  <2> QED BY <1>9, <2>1, <2>2, <2>3 DEF Called
<1>10. Registered(s, w, i)
  <2>1. Called(t, t, w)
    BY <1>2, <1>3, CallLiveOutcome
  <2> QED BY <1>3, <1>8, <1>9, <2>1
<1>11. CASE u = w
  BY <1>10, <1>11
<1>12. CASE u \in CallLive(w, [w EXCEPT !.wan = AllSubnets(w)])
  <2> DEFINE x == [w EXCEPT !.wan = AllSubnets(w)]
  <2>1. w \in Sites /\ w.lost \in Nat /\ w.lost <= layout.losses
    BY <1>10 DEF Registered, Sound, Base, Typed, Sites
  <2>2. AllSubnets(w) \subseteq Subnets
    BY <2>1 DEF AllSubnets, Sites
  <2>3. x \in Sites
    BY <2>1, <2>2 DEF Sites
  <2>4. Core(w, x) /\ x.endpoints = w.endpoints
    BY <2>1 DEF Sites, Core
  <2>5. x.lost = w.lost /\ x.bypass = w.bypass /\ x.drifted = w.drifted
    BY <2>1 DEF Sites
  <2>6. u \in CallLive(w, x)
    BY <1>12
  <2> HIDE DEF x
  <2>7. Later(w, x)
    BY <2>1, <2>5 DEF Later
  <2>8. Registered(s, x, i)
    BY <1>10, <2>1, <2>3, <2>4, <2>5, <2>7, RegisterCore
  <2>9. Called(w, x, u)
    BY <2>1, <2>3, <2>5, <2>6, CallLiveOutcome
  <2> QED BY <1>9, <1>10, <2>3, <2>8, <2>9
<1> QED BY <1>2, <1>11, <1>12

\* The outcome of a registration, of which the tables of i know nothing.
LEMMA AddControllerOutcome ==
    ASSUME layout.losses \in Nat, NEW s, Sound(s, UpSet, OffSet), NEW i \in Ids, i \in OffSet, i \notin UpSet,
           NEW u \in AddController(s, i)
    PROVE  Registered(s, u, i)
<1>1. PICK t : t = [s EXCEPT !.known = @ \union {i}] /\ u \in IF IsConcentrator(i) THEN AddEndpoint(t, i) ELSE {t}
  BY DEF AddController
<1>2. Registered(s, t, i) /\ s \in Sites
  BY <1>1, KnownSound DEF Sound, Base, Typed
<1>3. CASE IsConcentrator(i)
  BY <1>1, <1>2, <1>3, AddEndpointOutcome
<1>4. CASE ~IsConcentrator(i)
  BY <1>1, <1>2, <1>4
<1> QED BY <1>3, <1>4

-----------------------------------------------------------------------------
(* The invariant.                                                          *)

\* A link that was heard leads to a controller that was started.
HeardOf == \A i \in Ids : heard[i] # NoEdge => \E j \in Ids : LinkOf(heard[i], i, j)

\* What the variables next to the site's state are.
Around ==
    /\ layout \in Layouts
    /\ phase \in [Ids -> Phases]
    /\ cables \subseteq Links
    /\ heard \in [Ids -> Edge \union {NoEdge}]
    /\ aged \in [Ids -> SUBSET Edge]
    /\ checking \in BOOLEAN /\ faults \in 0..layout.faults /\ late \in BOOLEAN

\* The inductive invariant.
SiteInv ==
    /\ Around /\ HeardOf
    /\ Sound(site, UpSet, OffSet) /\ site.ok /\ OnlyConcentrators(site)
    /\ ~late => Clear(site)

\* The bounds of a site are numbers.
LEMMA LayoutNumbers == ASSUME Around PROVE layout.losses \in Nat /\ layout.faults \in Nat
BY SiteAssumption DEF Around

\* Fewer controllers that answer or were never started ask less of the site.
LEMMA SoundNext ==
    ASSUME layout' = layout, Sound(site', UpSet, OffSet), UpSet' \subseteq UpSet, OffSet' \subseteq OffSet
    PROVE  Sound(site, UpSet, OffSet)'
<1>1. Base(site, UpSet, OffSet)'
  BY DEF Sound, Base, Typed
<1>2. Current(site)'
  BY DEF Sound, Current
<1>3. Agree(site, UpSet)'
  BY DEF Sound, Agree
<1> QED BY <1>1, <1>2, <1>3 DEF Sound

\* The same for what waits to be reported.
LEMMA HeardNext ==
    ASSUME HeardOf, heard' = heard, OffSet' \subseteq OffSet PROVE HeardOf'
BY DEF HeardOf, LinkOf, MayLink

\* The state after a handler, as it is kept.
LEMMA CommitMarks ==
    ASSUME layout.losses \in Nat, NEW s \in Sites, s.lost <= layout.losses, Commit(s)
    PROVE  Marked(s, site') /\ site'.ok
BY OkMarked DEF Commit

\* The end of a handler leaves the site sound.
LEMMA CommitSound ==
    ASSUME layout.losses \in Nat, NEW s, Sound(s, UpSet, OffSet), Commit(s)
    PROVE  /\ Sound(site', UpSet, OffSet) /\ site'.ok
           /\ OnlyConcentrators(s) => OnlyConcentrators(site')
           /\ Clear(s) => Clear(site')
<1>1. Marked(s, site') /\ site'.ok
  BY CommitMarks DEF Sound, Base, Typed
<1>2. Sound(site', UpSet, OffSet)
  BY <1>1, SoundMarked
<1>3. OnlyConcentrators(s) => OnlyConcentrators(site')
  BY <1>1 DEF Marked, Same, Routed, OnlyConcentrators
<1>4. Clear(s) => Clear(site')
  BY <1>1 DEF Marked, Same, Routed, Clear, ClearOf, LinksOf
<1> QED BY <1>1, <1>2, <1>3, <1>4

\* A phase that moves on.
LEMMA PhaseMoves ==
    ASSUME phase \in [Ids -> Phases], NEW i \in Ids, NEW p \in Phases \ {"off"},
           phase' = [phase EXCEPT ![i] = p], Up(i) \/ p = "gone"
    PROVE  /\ phase' \in [Ids -> Phases] /\ OffSet' \subseteq OffSet
           /\ UpSet' \subseteq UpSet
BY DEF Phases, OffSet, UpSet, Up

\* Taking away leaves nothing of those that are gone.
LEMMA ClearCleans ==
    ASSUME NEW s, NEW t, Shrinks(s, t) PROVE /\ OnlyConcentrators(s) => OnlyConcentrators(t)
                                             /\ Clear(s) => Clear(t)
<1>1. OnlyConcentrators(s) => OnlyConcentrators(t)
  BY DEF Shrinks, OnlyConcentrators
<1>2. ASSUME NEW i \in Ids \ t.known, Clear(s) PROVE ClearOf(t, i)
  <2>1. ClearOf(s, i)
    BY <1>2 DEF Clear, Shrinks
  <2>2. t.owned[i] \subseteq s.owned[i] /\ LinksOf(t, i) \subseteq LinksOf(s, i)
    BY DEF Shrinks, LinksOf
  <2>3. t.endpoints \subseteq s.endpoints
    BY DEF Shrinks
  <2> QED BY <2>1, <2>2, <2>3 DEF ClearOf
<1> QED BY <1>1, <1>2 DEF Clear

-----------------------------------------------------------------------------
(* The steps.                                                              *)

\* Each step keeps the invariant.  A controller registers:
LEMMA StartStep ==
    ASSUME SiteInv, NEW i \in Ids, Start(i), layout' = layout PROVE SiteInv'
<1>1. phase[i] = "off" /\ i \in OffSet /\ i \notin UpSet
  BY DEF Start, OffSet, UpSet, Up
<1>2. PICK u \in AddController(site, i) :
         Commit(u) /\ phase' = [phase EXCEPT ![i] = IF u.ok THEN "prepare" ELSE "stuck"]
  BY DEF Start
<1>3. layout.losses \in Nat /\ site \in Sites
  BY LayoutNumbers DEF SiteInv, Sound, Base, Typed
<1>4. Registered(site, u, i)
  BY <1>1, <1>2, <1>3, AddControllerOutcome DEF SiteInv
<1>5. Marked(u, site') /\ site'.ok
  BY <1>2, <1>3, <1>4, CommitMarks DEF Registered, Sound, Base, Typed
<1>6. Registered(site, site', i)
  BY <1>3, <1>4, <1>5, RegisterCore DEF Marked, Same, Routed, Core
<1>7. UpSet' = UpSet \union {i} /\ OffSet' = OffSet \ {i} /\ phase' \in [Ids -> Phases]
  BY <1>2 DEF SiteInv, Around, UpSet, OffSet, Up, Phases
<1>8. Blank(site, i)
  BY <1>1 DEF SiteInv, Sound, Base
<1>9. Base(site, UpSet, OffSet)'
  <2>1. Typed(site)'
    BY <1>6 DEF Registered, Sound, Base, Typed, Start
  <2>2. \A k \in OffSet' : Blank(site', k)
    BY <1>6, <1>7 DEF Registered, Sound, Base
  <2>3. Matches(site', site'.rules, i)
    BY <1>6, <1>8 DEF Registered, Blank, Matches
  <2>4. ~site'.drifted => \A k \in site'.known \intersect UpSet' : Matches(site', site'.rules, k)
    BY <1>6, <1>7, <2>3 DEF Registered, Sound, Base
  <2> QED BY <2>1, <2>2, <2>4 DEF Base
<1>10. Current(site)'
  BY <1>6 DEF Registered, Sound, Current
<1>11. Agree(site, UpSet)'
  <2> SUFFICES ASSUME Quiet(site'),
                      NEW k \in site'.known \intersect UpSet', NEW l \in site'.known \intersect UpSet'
               PROVE  Pair(site'.edges[k], {k, l}) = Pair(site'.graph, {k, l})
    BY DEF Agree
  <2>1. CASE k # i /\ l # i
    <3>1. k \in site'.known \intersect UpSet /\ l \in site'.known \intersect UpSet
      BY <1>7, <2>1
    <3>2. Agree(site', UpSet)
      BY <1>6 DEF Registered, Sound
    <3> QED BY <3>1, <3>2 DEF Agree
  <2>2. CASE k = i \/ l = i
    <3>1. k \in Ids /\ i \in {k, l}
      BY <1>7, <2>2 DEF UpSet
    <3>2. Pair(site'.edges[k], {k, l}) = {}
      BY <1>6, <1>8, <3>1 DEF Registered, Blank, Pair
    <3>3. Pair(site'.graph, {k, l}) = {}
      BY <1>6, <1>8, <3>1 DEF Registered, Blank, Pair
    <3> QED BY <3>2, <3>3
  <2> QED BY <2>1, <2>2
<1>12. Around'
  BY <1>7 DEF SiteInv, Around, Start
<1>13. HeardOf'
  BY <1>7, HeardNext DEF SiteInv, Start
<1>14. ~late' => Clear(site')
  <2> SUFFICES ASSUME ~late, NEW k \in Ids \ site'.known PROVE ClearOf(site', k)
    BY DEF Clear, Start
  <2>1. k # i /\ ClearOf(site, k)
    BY <1>6 DEF Registered, SiteInv, Clear
  <2> QED BY <1>6, <2>1 DEF Registered, ClearOf, LinksOf
<1>15. OnlyConcentrators(site')
  BY <1>6 DEF SiteInv, Registered
<1> QED BY <1>5, <1>9, <1>10, <1>11, <1>12, <1>13, <1>14, <1>15 DEF SiteInv, Sound

\* The loop over the subnets of a new controller, as a function of the state.
OwnStep(i) == [x \in Own(i) |-> [t \in Sites |-> AddSubnet(t, i, x)]]

\* A controller adds its subnets.
LEMMA InitSubnetsStep ==
    ASSUME SiteInv, NEW i \in Ids, InitSubnets(i), layout' = layout PROVE SiteInv'
<1>1. Up(i) /\ i \notin OffSet
  BY DEF InitSubnets, Up, OffSet
<1>2. PICK u \in Loop(Own(i), site, OwnStep(i)) :
         Commit(u) /\ phase' = [phase EXCEPT ![i] = IF u.ok THEN "on" ELSE "stuck"]
  BY DEF InitSubnets, ForEach, OwnStep
<1>3. layout.losses \in Nat
  BY LayoutNumbers DEF SiteInv
<1>4. Own(i) \in SUBSET Subnets /\ IsFiniteSet(Own(i))
  <2>1. Own(i) \in SUBSET Subnets /\ IsFiniteSet(Subnets)
    BY SiteAssumption DEF Own
  <2> QED BY <2>1, FS_Subset
<1>5. ASSUME NEW x \in Own(i), NEW t \in Sites, Sound(t, UpSet, OffSet), t.ok, NEW w \in OwnStep(i)[x][t]
      PROVE  \E k \in {i} : Added(t, w, {k})
  <2>1. w \in AddSubnet(t, i, x) /\ x \in Subnets
    BY <1>4 DEF OwnStep
  <2>2. Added(t, w, {i})
    BY <1>1, <1>3, <1>5, <2>1, AddSubnetOutcome DEF Added
  <2> QED BY <2>2
<1>6. Added(site, u, {i})
  BY <1>2, <1>4, <1>5, AddLoop DEF SiteInv
<1>7. /\ Sound(site', UpSet, OffSet) /\ site'.ok
      /\ OnlyConcentrators(u) => OnlyConcentrators(site')
      /\ Clear(u) => Clear(site')
  BY <1>2, <1>3, <1>6, CommitSound DEF Added
<1>8. OnlyConcentrators(u)
  BY <1>6 DEF Added, Grows, SiteInv, OnlyConcentrators
<1>9. ~late' => Clear(u)
  <2> SUFFICES ASSUME ~late, i \in site.known, NEW k \in Ids \ u.known PROVE ClearOf(u, k)
    BY DEF InitSubnets, Clear
  <2>1. k # i /\ ClearOf(site, k)
    BY <1>6 DEF Added, Grows, SiteInv, Clear
  <2> QED BY <1>6, <2>1 DEF Added, Grows, ClearOf, LinksOf
<1>10. phase' \in [Ids -> Phases] /\ OffSet' \subseteq OffSet /\ UpSet' \subseteq UpSet
  <2>1. PICK p : p = IF u.ok THEN "on" ELSE "stuck"
    OBVIOUS
  <2>2. p \in Phases \ {"off"} /\ phase' = [phase EXCEPT ![i] = p]
    BY <1>2, <2>1 DEF Phases
  <2> QED BY <1>1, <2>2, PhaseMoves DEF SiteInv, Around
<1>11. Sound(site, UpSet, OffSet)' /\ HeardOf'
  BY <1>7, <1>10, SoundNext, HeardNext DEF SiteInv, InitSubnets
<1>12. Around'
  BY <1>10 DEF SiteInv, Around, InitSubnets
<1> QED BY <1>7, <1>8, <1>9, <1>11, <1>12 DEF SiteInv

\* A controller unregisters.
LEMMA ShutdownStep ==
    ASSUME SiteInv, NEW i \in Ids, Shutdown(i), layout' = layout PROVE SiteInv'
<1>1. layout.losses \in Nat /\ layout.faults \in Nat
  BY LayoutNumbers DEF SiteInv
<1>2. PICK u \in RemoveController(site, i) : Commit(u)
  BY DEF Shutdown
<1>3. Checked(site, u)
  BY <1>1, <1>2, RemoveControllerOutcome DEF SiteInv
<1>4. /\ Sound(site', UpSet, OffSet) /\ site'.ok
      /\ OnlyConcentrators(u) => OnlyConcentrators(site')
      /\ Clear(u) => Clear(site')
  BY <1>1, <1>2, <1>3, CommitSound DEF Checked
<1>5. phase' \in [Ids -> Phases] /\ OffSet' \subseteq OffSet /\ UpSet' \subseteq UpSet
  <2>1. "leaving" \in Phases \ {"off"} /\ Up(i) /\ phase' = [phase EXCEPT ![i] = "leaving"]
    BY DEF Phases, Up, Shutdown
  <2> QED BY <2>1, PhaseMoves DEF SiteInv, Around
<1>6. Sound(site, UpSet, OffSet)' /\ HeardOf'
  BY <1>4, <1>5, SoundNext, HeardNext DEF SiteInv, Shutdown
<1>7. Around'
  BY <1>1, <1>5 DEF SiteInv, Around, Shutdown, InBudget
<1>8. ~late' => Clear(site')
  BY <1>3, <1>4 DEF SiteInv, Checked, Shutdown
<1> QED BY <1>3, <1>4, <1>6, <1>7, <1>8 DEF SiteInv, Checked

\* A controller is gone: nothing is asked of its table any more.
LEMMA GoneStep ==
    ASSUME SiteInv, NEW i \in Ids, Stop(i) \/ Crash(i), layout' = layout PROVE SiteInv'
<1>1. layout.losses \in Nat /\ layout.faults \in Nat
  BY LayoutNumbers DEF SiteInv
<1>2. Gone(i) /\ UNCHANGED <<cables, heard, checking, site, late>>
  BY DEF Stop, Crash
<1>3. phase' \in [Ids -> Phases] /\ OffSet' \subseteq OffSet /\ UpSet' \subseteq UpSet
  <2>1. "gone" \in Phases \ {"off"} /\ phase' = [phase EXCEPT ![i] = "gone"]
    BY <1>2 DEF Phases, Gone
  <2> QED BY <2>1, PhaseMoves DEF SiteInv, Around
<1>4. Sound(site, UpSet, OffSet)' /\ HeardOf'
  BY <1>2, <1>3, SoundNext, HeardNext DEF SiteInv
<1>5. faults' \in 0..layout.faults /\ aged' \in [Ids -> SUBSET Edge]
  BY <1>1, <1>2 DEF SiteInv, Around, Stop, Crash, InBudget, Gone
<1>6. Around'
  BY <1>2, <1>3, <1>5 DEF SiteInv, Around
<1> QED BY <1>2, <1>4, <1>6 DEF SiteInv

\* Steps that change neither the site nor the phases.
LEMMA QuietStep ==
    ASSUME SiteInv, layout' = layout, UNCHANGED <<phase, site, late>>, Around', HeardOf' PROVE SiteInv'
<1>1. UpSet' = UpSet /\ OffSet' = OffSet
  BY DEF UpSet, OffSet, Up
<1>2. Sound(site, UpSet, OffSet)'
  BY <1>1, SoundNext DEF SiteInv
<1> QED BY <1>2 DEF SiteInv

\* A controller hears of a link.
LEMMA HandleLldpStep ==
    ASSUME SiteInv, NEW i \in Ids, NEW l \in Links, HandleLldp(i, l), layout' = layout PROVE SiteInv'
<1>1. PICK j \in Ids \ {i} : /\ Audible(l, i, j)
                             /\ heard' = [heard EXCEPT ![i] = [link |-> l, ends |-> {i, j}]]
  BY DEF HandleLldp
<1>2. PICK e : e = [link |-> l, ends |-> {i, j}]
  OBVIOUS
<1>3. e \in Edge /\ e.ends = {i, j}
  BY <1>2 DEF Edge
<1>4. i \notin OffSet /\ j \notin OffSet
  BY <1>1 DEF HandleLldp, Audible, OffSet
<1>5. LinkOf(e, i, j)
  BY <1>1, <1>3, <1>4 DEF LinkOf, MayLink
<1>6. heard' \in [Ids -> Edge \union {NoEdge}] /\ heard'[i] = e /\ \A k \in Ids \ {i} : heard'[k] = heard[k]
  BY <1>1, <1>2, <1>3 DEF SiteInv, Around
<1>7. OffSet' = OffSet
  BY DEF HandleLldp, OffSet
<1>8. HeardOf'
  <2>1. \A k \in Ids : heard'[k] # NoEdge => \E m \in Ids : LinkOf(heard'[k], k, m)
    BY <1>5, <1>6 DEF SiteInv, HeardOf
  <2> QED BY <1>7, <2>1 DEF HeardOf, LinkOf, MayLink
<1>9. Around'
  BY <1>6 DEF SiteInv, Around, HandleLldp
<1> QED BY <1>8, <1>9, QuietStep DEF HandleLldp

\* A garbage collection begins.
LEMMA CollectStep ==
    ASSUME SiteInv, NEW i \in Ids, Collect(i) \/ CollectLate(i), layout' = layout PROVE SiteInv'
<1>1. layout.losses \in Nat /\ layout.faults \in Nat
  BY LayoutNumbers DEF SiteInv
<1>2. UNCHANGED <<phase, cables, heard, checking, site, late>>
  BY DEF Collect, CollectLate
<1>3. site.edges[i] \subseteq Edge
  BY DEF SiteInv, Sound, Base, Typed, Sites
<1>4. Old(i) \subseteq Edge
  BY <1>3 DEF Old
<1>5. aged' \in [Ids -> SUBSET Edge]
  BY <1>3, <1>4 DEF Collect, CollectLate, SiteInv, Around
<1>6. faults' \in 0..layout.faults
  BY <1>1 DEF SiteInv, Around, Collect, CollectLate, InBudget
<1>7. Around'
  BY <1>2, <1>5, <1>6 DEF SiteInv, Around
<1>8. HeardOf'
  BY <1>2, HeardNext DEF SiteInv, OffSet
<1> QED BY <1>2, <1>7, <1>8, QuietStep

\* A cable is plugged or pulled.
LEMMA CableStep ==
    ASSUME SiteInv, NEW l \in Links, Cable(l), layout' = layout PROVE SiteInv'
<1>1. layout.faults \in Nat
  BY LayoutNumbers DEF SiteInv
<1>2. Around'
  BY <1>1 DEF SiteInv, Around, Cable, InBudget
<1>3. HeardOf'
  BY HeardNext DEF SiteInv, OffSet, Cable
<1> QED BY <1>2, <1>3, QuietStep DEF Cable

\* A new link is reported.
LEMMA ReportNewStep ==
    ASSUME SiteInv, NEW i \in Ids, ReportNew(i), layout' = layout PROVE SiteInv'
<1>1. layout.losses \in Nat
  BY LayoutNumbers DEF SiteInv
<1>2. PICK e : e = heard[i]
  OBVIOUS
<1>3. PICK j \in Ids : LinkOf(e, i, j)
  BY <1>2 DEF SiteInv, HeardOf, ReportNew
<1>4. j = CHOOSE k \in e.ends : k # i
  BY <1>3 DEF LinkOf
<1>5. PICK u \in AddEdge(site, i, j, e) : Commit(u)
  BY <1>2, <1>4 DEF ReportNew
<1>6. Sound(u, UpSet, OffSet) /\ Later(site, u) /\ Reported(site, u, e)
  BY <1>1, <1>3, <1>5, AddEdgeOutcome DEF SiteInv
<1>7. /\ Sound(site', UpSet, OffSet) /\ site'.ok
      /\ OnlyConcentrators(u) => OnlyConcentrators(site')
      /\ Clear(u) => Clear(site')
  BY <1>1, <1>5, <1>6, CommitSound
<1>8. OnlyConcentrators(u)
  BY <1>6 DEF SiteInv, Reported, OnlyConcentrators
<1>9. ~late' => Clear(u)
  <2> SUFFICES ASSUME ~late, e.ends \subseteq site.known, NEW k \in Ids \ u.known PROVE ClearOf(u, k)
    BY <1>2 DEF ReportNew, Clear
  <2>1. ClearOf(site, k) /\ k \notin e.ends
    BY <1>6 DEF Reported, SiteInv, Clear
  <2> QED BY <1>6, <2>1 DEF Reported, ClearOf, LinksOf
<1>10. UpSet' = UpSet /\ OffSet' = OffSet
  BY DEF ReportNew, UpSet, OffSet, Up
<1>11. Sound(site, UpSet, OffSet)'
  BY <1>7, <1>10, SoundNext
<1>12. heard' \in [Ids -> Edge \union {NoEdge}] /\ \A k \in Ids : heard'[k] = heard[k] \/ heard'[k] = NoEdge
  BY DEF SiteInv, Around, ReportNew
<1>13. HeardOf'
  BY <1>10, <1>12 DEF SiteInv, HeardOf, LinkOf, MayLink
<1>14. Around'
  BY <1>12 DEF SiteInv, Around, ReportNew
<1> QED BY <1>7, <1>8, <1>9, <1>11, <1>13, <1>14 DEF SiteInv

\* An old link is reported.
LEMMA ReportOldStep ==
    ASSUME SiteInv, NEW i \in Ids, ReportOld(i), layout' = layout PROVE SiteInv'
<1>1. layout.losses \in Nat
  BY LayoutNumbers DEF SiteInv
<1>2. PICK e \in aged[i] : /\ \E s \in RemoveEdge(site, e) : Commit(s)
                           /\ aged' = [aged EXCEPT ![i] = @ \ {e}]
  BY DEF ReportOld
<1>3. e \in Edge
  BY <1>2 DEF SiteInv, Around
<1>4. PICK u \in RemoveEdge(site, e) : Commit(u)
  BY <1>2
<1>5. Sound(u, UpSet, OffSet) /\ Later(site, u) /\ Shrinks(site, u)
  BY <1>1, <1>3, <1>4, RemoveEdgeOutcome DEF SiteInv
<1>6. /\ Sound(site', UpSet, OffSet) /\ site'.ok
      /\ OnlyConcentrators(u) => OnlyConcentrators(site')
      /\ Clear(u) => Clear(site')
  BY <1>1, <1>4, <1>5, CommitSound
<1>7. OnlyConcentrators(u) /\ (Clear(site) => Clear(u))
  BY <1>5, ClearCleans DEF SiteInv
<1>8. UpSet' = UpSet /\ OffSet' = OffSet
  BY DEF ReportOld, UpSet, OffSet, Up
<1>9. Sound(site, UpSet, OffSet)'
  BY <1>6, <1>8, SoundNext
<1>10. HeardOf'
  BY <1>8, HeardNext DEF SiteInv, ReportOld
<1>11. aged' \in [Ids -> SUBSET Edge]
  BY <1>2 DEF SiteInv, Around
<1>12. Around'
  BY <1>11 DEF SiteInv, Around, ReportOld
<1> QED BY <1>6, <1>7, <1>9, <1>10, <1>12 DEF SiteInv, ReportOld

\* The controllers that do not answer are removed.
LEMMA CheckControllersStep ==
    ASSUME SiteInv, CheckControllers, layout' = layout PROVE SiteInv'
<1>1. layout.losses \in Nat
  BY LayoutNumbers DEF SiteInv
<1>2. PICK unlucky \in SUBSET {i \in site.known : Up(i)} :
         /\ Cardinality(unlucky) <= layout.losses - site.lost
         /\ LET gone == {i \in site.known : ~Up(i)} \union unlucky
                s0   == [site EXCEPT !.lost = @ + Cardinality(unlucky)]
            IN  /\ gone # {}
                /\ \E s \in ForEach(gone, s0, RemoveController) : Commit(s) /\ checking' = s.ok
  BY DEF CheckControllers
<1>3. site \in Sites /\ site.lost \in Nat /\ site.known \subseteq Ids
  BY DEF SiteInv, Sound, Base, Typed, Sites
<1>4. Cardinality(unlucky) \in Nat
  <2>1. unlucky \subseteq Ids /\ IsFiniteSet(Ids)
    BY <1>2, <1>3, SiteAssumption
  <2> QED BY <2>1, FS_Subset, FS_CardinalityType
<1> DEFINE gone == {i \in site.known : ~Up(i)} \union unlucky
<1>5. PICK n \in Nat : n = Cardinality(unlucky)
  BY <1>4
<1>6. PICK s0 : s0 = [site EXCEPT !.lost = @ + n]
  OBVIOUS
<1>7. PICK u \in Loop(gone, s0, CheckStep(gone)) : Commit(u) /\ checking' = u.ok
  BY <1>2, <1>5, <1>6 DEF ForEach, CheckStep
<1>8. gone \in SUBSET Ids
  BY <1>2, <1>3
<1> HIDE DEF gone
<1>9. Marked(site, s0)
  <2>1. s0 \in Sites
    BY <1>3, <1>6 DEF Sites
  <2>2. Same(site, s0)
    BY <1>3, <1>6 DEF Sites, Same, Routed
  <2>3. s0.lost = site.lost + n /\ s0.bypass = site.bypass /\ s0.drifted = site.drifted
    BY <1>3, <1>6 DEF Sites
  <2>4. s0.lost <= layout.losses /\ site.lost <= s0.lost
    BY <1>1, <1>2, <1>3, <1>5, <2>3
  <2> QED BY <2>1, <2>2, <2>3, <2>4 DEF Marked, Later
<1>10. Sound(s0, UpSet, OffSet)
  BY <1>9, SoundMarked DEF SiteInv
<1>11. OnlyConcentrators(s0) /\ (Clear(site) => Clear(s0))
  BY <1>9 DEF Marked, Same, Routed, OnlyConcentrators, Clear, ClearOf, LinksOf, SiteInv
<1>12. Checked(s0, u)
  BY <1>1, <1>7, <1>8, <1>10, <1>11, CheckLoop
<1>13. /\ Sound(site', UpSet, OffSet) /\ site'.ok
       /\ OnlyConcentrators(u) => OnlyConcentrators(site')
       /\ Clear(u) => Clear(site')
  BY <1>1, <1>7, <1>12, CommitSound DEF Checked
<1>14. UpSet' = UpSet /\ OffSet' = OffSet
  BY DEF CheckControllers, UpSet, OffSet, Up
<1>15. Sound(site, UpSet, OffSet)'
  BY <1>13, <1>14, SoundNext
<1>16. HeardOf'
  BY <1>14, HeardNext DEF SiteInv, CheckControllers
<1>17. checking' \in BOOLEAN
  BY <1>7, <1>12 DEF Checked, Sound, Base, Typed, Sites
<1>18. Around'
  BY <1>17 DEF SiteInv, Around, CheckControllers
<1>19. ~late' => Clear(site')
  BY <1>11, <1>12, <1>13 DEF Checked, SiteInv, CheckControllers
<1>20. OnlyConcentrators(site')
  BY <1>12, <1>13 DEF Checked
<1> QED BY <1>13, <1>15, <1>16, <1>18, <1>19, <1>20 DEF SiteInv

\* The loop over the concentrators, as a function of the state.
TunnelStep(S, n) == [x \in S |-> [t \in Sites |-> AddSubnetSilent(t, x, n)]]

\* A tunnel comes up.
LEMMA NewTunnelStep ==
    ASSUME SiteInv, NEW n \in Subnets, NewTunnel(n), layout' = layout PROVE SiteInv'
<1> DEFINE S == {i \in site.known : IsConcentrator(i)}
<1>1. layout.losses \in Nat /\ layout.faults \in Nat
  BY LayoutNumbers DEF SiteInv
<1>2. PICK u \in Loop(S, site, TunnelStep(S, n)) : Commit(u)
  BY DEF NewTunnel, ForEach, TunnelStep
<1>3. S \in SUBSET Ids /\ S \subseteq site.known
  BY DEF SiteInv, Sound, Base, Typed, Sites
<1>4. S \intersect OffSet = {}
  BY DEF SiteInv, Sound, Base, Blank
<1> HIDE DEF S
<1>5. IsFiniteSet(S)
  BY <1>3, SiteAssumption, FS_Subset
<1>6. ASSUME NEW x \in S, NEW t \in Sites, Sound(t, UpSet, OffSet), t.ok, NEW w \in TunnelStep(S, n)[x][t]
      PROVE  \E k \in S : Added(t, w, {k})
  <2>1. w \in AddSubnetSilent(t, x, n) /\ x \in Ids \ OffSet
    BY <1>3, <1>4, <1>6 DEF TunnelStep
  <2>2. Added(t, w, {x})
    BY <1>1, <1>6, <2>1, AddSubnetOutcome DEF Added
  <2> QED BY <2>2
<1>7. Added(site, u, S)
  BY <1>2, <1>5, <1>6, AddLoop DEF SiteInv
<1>8. /\ Sound(site', UpSet, OffSet) /\ site'.ok
      /\ OnlyConcentrators(u) => OnlyConcentrators(site')
      /\ Clear(u) => Clear(site')
  BY <1>1, <1>2, <1>7, CommitSound DEF Added
<1>9. OnlyConcentrators(u)
  BY <1>7 DEF Added, Grows, SiteInv, OnlyConcentrators
<1>10. ~late' => Clear(u)
  <2> SUFFICES ASSUME ~late, NEW k \in Ids \ u.known PROVE ClearOf(u, k)
    BY DEF NewTunnel, Clear
  <2>1. k \notin S /\ ClearOf(site, k)
    BY <1>3, <1>7 DEF Added, Grows, SiteInv, Clear
  <2> QED BY <1>7, <2>1 DEF Added, Grows, ClearOf, LinksOf
<1>11. UpSet' = UpSet /\ OffSet' = OffSet
  BY DEF NewTunnel, UpSet, OffSet, Up
<1>12. Sound(site, UpSet, OffSet)'
  BY <1>8, <1>11, SoundNext
<1>13. HeardOf'
  BY <1>11, HeardNext DEF SiteInv, NewTunnel
<1>14. Around'
  <2>1. faults' = faults + 1 /\ faults < layout.faults /\ faults \in 0..layout.faults
    BY DEF NewTunnel, InBudget, SiteInv, Around
  <2>2. faults' \in 0..layout.faults
    BY <1>1, <2>1
  <2> QED BY <2>2 DEF SiteInv, Around, NewTunnel
<1> QED BY <1>8, <1>9, <1>10, <1>12, <1>13, <1>14 DEF SiteInv

-----------------------------------------------------------------------------
(* The theorems.                                                           *)

\* The invariant holds at first.
LEMMA SiteStart == ASSUME Init PROVE SiteInv
<1>1. layout \in Layouts /\ layout \in [ids : SUBSET Ids, links : SUBSET Links, plugged : SUBSET Links,
                                        faults : Nat, losses : Nat]
  BY SiteAssumption DEF Init
<1>2. site \in Sites
  BY DEF Init, Sites
<1>3. /\ site.ok /\ site.known = {} /\ site.graph = {} /\ site.owned = [i \in Ids |-> {}]
      /\ site.rules = {} /\ site.endpoints = {} /\ site.edges = [i \in Ids |-> {}]
      /\ site.table = [i \in Ids |-> [n \in Subnets |-> NoRule]] /\ site.lost = 0
  BY DEF Init
<1>4. Around
  <2>1. layout.plugged \subseteq Links /\ layout.faults \in Nat
    BY <1>1
  <2>2. phase \in [Ids -> Phases] /\ heard \in [Ids -> Edge \union {NoEdge}] /\ aged \in [Ids -> SUBSET Edge]
    BY DEF Init, Phases
  <2>3. faults = 0 /\ checking = TRUE /\ late = FALSE /\ cables = layout.plugged
    BY DEF Init
  <2>4. faults \in 0..layout.faults
    BY <2>1, <2>3
  <2> QED BY <1>1, <2>1, <2>2, <2>3, <2>4 DEF Around
<1>5. HeardOf
  BY DEF Init, HeardOf
<1>6. Base(site, UpSet, OffSet)
  <2>1. Typed(site)
    BY <1>1, <1>2, <1>3 DEF Typed
  <2>2. \A i \in OffSet : Blank(site, i)
    BY <1>3 DEF Blank, OffSet
  <2> QED BY <1>3, <2>1, <2>2 DEF Base
<1>7. Current(site)
  BY <1>3 DEF Current, Goal
<1>8. Agree(site, UpSet)
  BY <1>3 DEF Agree
<1>9. OnlyConcentrators(site) /\ Clear(site)
  BY <1>3 DEF OnlyConcentrators, Clear, ClearOf, LinksOf
<1> QED BY <1>3, <1>4, <1>5, <1>6, <1>7, <1>8, <1>9 DEF SiteInv, Sound

\* Every step keeps it.
LEMMA SiteStep == ASSUME SiteInv, [Next]_vars PROVE SiteInv'
<1>1. CASE UNCHANGED vars
  <2>1. UpSet' = UpSet /\ OffSet' = OffSet
    BY <1>1 DEF vars, UpSet, OffSet, Up
  <2>2. Sound(site, UpSet, OffSet)'
    BY <1>1, <2>1, SoundNext DEF vars, SiteInv
  <2>3. HeardOf'
    BY <1>1, <2>1, HeardNext DEF vars, SiteInv
  <2> QED BY <1>1, <2>2, <2>3 DEF vars, SiteInv, Around
<1>2. CASE Next
  <2>1. layout' = layout
    BY <1>2 DEF Next
  <2>2. CASE \E i \in Ids : Step(i)
    <3>1. PICK i \in Ids : Step(i)
      BY <2>2
    <3> QED BY <2>1, <3>1, StartStep, InitSubnetsStep, ShutdownStep, GoneStep, ReportNewStep,
               CollectStep, ReportOldStep, HandleLldpStep DEF Step
  <2>3. CASE CheckControllers
    BY <2>1, <2>3, CheckControllersStep
  <2>4. CASE \E n \in Subnets : NewTunnel(n)
    BY <2>1, <2>4, NewTunnelStep
  <2>5. CASE \E l \in Links : Cable(l)
    BY <2>1, <2>5, CableStep
  <2> QED BY <1>2, <2>2, <2>3, <2>4, <2>5 DEF Next
<1> QED BY <1>1, <1>2

\* It holds always, for any site.
LEMMA SiteInvariant == Spec => []SiteInv
BY SiteStart, SiteStep, PTL DEF Spec

\* Types and bounds; no exception outlives its handler, whatever raised in it
\* and however many calls were lost.
THEOREM SiteTypes == Spec => []TypeOK
<1>1. SiteInv => TypeOK
  BY DEF SiteInv, Around, Sound, Base, Typed, TypeOK
<1> QED BY <1>1, SiteInvariant, PTL

\* What the global controller remembers of the rules it wrote is what the
\* tables of the registered switches hold, for any site.
THEOREM RulesAreWritten == Spec => []RulesWritten
<1>1. ASSUME SiteInv, ~site.drifted, NEW i \in site.known, Up(i)
      PROVE  TableRules(site, i) = {r \in site.rules : r.src = i}
  <2>1. site.known \subseteq Ids /\ site.rules \subseteq Rule
    BY <1>1 DEF SiteInv, Sound, Base, Typed, Sites
  <2>2. Matches(site, site.rules, i)
    BY <1>1, <2>1 DEF SiteInv, Sound, Base, UpSet
  <2>3. ASSUME NEW r \in TableRules(site, i) PROVE r \in site.rules /\ r.src = i
    BY <2>2 DEF TableRules, Matches
  <2>4. ASSUME NEW r \in site.rules, r.src = i PROVE r \in TableRules(site, i)
    <3>1. r # NoRule /\ r.net \in Subnets
      BY <2>1, RuleNames DEF Rule
    <3>2. site.table[i][r.net] = r
      BY <2>2, <2>4, <3>1 DEF Matches
    <3> QED BY <3>1, <3>2 DEF TableRules
  <2> QED BY <2>3, <2>4
<1>2. SiteInv => RulesWritten
  BY <1>1 DEF RulesWritten
<1> QED BY <1>2, SiteInvariant, PTL

\* A controller that is no longer registered has left nothing behind, whatever
\* the handlers of its removal did.
THEOREM GoneAreForgotten == Spec => []Forgotten
<1>1. ASSUME SiteInv, ~late, NEW i \in Ids \ site.known
      PROVE  /\ \A e \in site.graph : i \notin e.ends
             /\ site.owned[i] = {} /\ i \notin site.endpoints
             /\ ~site.drifted => \A r \in site.rules : i \notin {r.src, r.dst}
  <2>1. ClearOf(site, i)
    BY <1>1 DEF SiteInv, Clear
  <2>2. \A e \in site.graph : i \notin e.ends
    BY <2>1 DEF ClearOf, LinksOf
  <2>3. site \in Sites /\ (~site.drifted => site.rules = Goal(site))
    BY <1>1 DEF SiteInv, Sound, Base, Typed, Current
  <2>4. \A r \in Goal(site) : i # r.src /\ i # r.dst
    BY <2>2, <2>3, GoalBlank
  <2> QED BY <2>1, <2>2, <2>3, <2>4 DEF ClearOf
<1>2. SiteInv => Forgotten
  BY <1>1 DEF Forgotten
<1> QED BY <1>2, SiteInvariant, PTL

\* The ends of a link and the global controller agree about it, unless a call
\* was lost or went past a lock.
THEOREM EndsAgree == Spec => []EndsKnow
<1>1. SiteInv => EndsKnow
  BY DEF SiteInv, Sound, Agree, Quiet, EndsKnow, Pair, UpSet, Base, Typed, Sites
<1> QED BY <1>1, SiteInvariant, PTL

-----------------------------------------------------------------------------
(* Packets.                                                                *)

\* Who is near is within any greater distance.
LEMMA BallsGrow ==
    ASSUME NEW graph, NEW i \in Ids, NEW m \in 0..Many, NEW n \in 0..m
    PROVE  Within(graph, i)[n] \subseteq Within(graph, i)[m]
<1> DEFINE ball == Within(graph, i)
           good == {k \in 0..Many : \A l \in 0..k : ball[l] \subseteq ball[k]}
<1>1. Many \in Nat
  BY HowMany
<1>2. 0 \in good
  BY <1>1
<1>3. ASSUME NEW k \in 1..Many, k - 1 \in good PROVE k \in good
  <2>1. ball[k - 1] \subseteq ball[k]
    BY Balls
  <2> SUFFICES ASSUME NEW l \in 0..k PROVE ball[l] \subseteq ball[k]
    BY <1>1
  <2>2. CASE l = k
    BY <2>2
  <2>3. CASE l # k
    <3>1. l \in 0..(k - 1)
      BY <2>3
    <3> HIDE DEF ball
    <3>2. ball[l] \subseteq ball[k - 1]
      BY <1>3, <3>1
    <3> QED BY <2>1, <3>2
  <2> QED BY <2>2, <2>3
<1> HIDE DEF good
<1>4. 0..Many \subseteq good
  BY <1>1, <1>2, <1>3, Induction
<1> QED BY <1>4 DEF good

\* Who is near a neighbour is nearly as near.
LEMMA BallsShift ==
    ASSUME NEW graph, NEW i \in Ids, NEW j \in Neighbours(graph, i), NEW n \in 1..Many
    PROVE  Within(graph, j)[n - 1] \subseteq Within(graph, i)[n]
<1> DEFINE good == {k \in 0..Many : k # Many => Within(graph, j)[k] \subseteq Within(graph, i)[k + 1]}
<1>1. Many \in Nat /\ j \in Ids
  BY HowMany, NeighboursOf
<1>2. 0 \in good
  <2> SUFFICES ASSUME 0 # Many PROVE Within(graph, j)[0] \subseteq Within(graph, i)[0 + 1]
    BY <1>1
  <2>1. 1 \in 1..Many /\ 0 + 1 = 1 /\ 1 - 1 = 0
    BY <1>1
  <2>2. Within(graph, j)[0] = {j} /\ Within(graph, i)[0] = {i}
    BY <1>1, Balls
  <2>3. Within(graph, i)[1] = Within(graph, i)[1 - 1] \union
            UNION {Neighbours(graph, k) : k \in Within(graph, i)[1 - 1]}
    BY <2>1, Balls
  <2> QED BY <2>1, <2>2, <2>3
<1>3. ASSUME NEW k \in 1..Many, k - 1 \in good PROVE k \in good
  <2> SUFFICES ASSUME k # Many PROVE Within(graph, j)[k] \subseteq Within(graph, i)[k + 1]
    BY <1>1
  <2>1. k + 1 \in 1..Many /\ (k + 1) - 1 = k /\ k - 1 # Many /\ (k - 1) + 1 = k
    BY <1>1
  <2>2. Within(graph, j)[k - 1] \subseteq Within(graph, i)[k]
    BY <1>3, <2>1
  <2>3. Within(graph, j)[k] = Within(graph, j)[k - 1] \union
            UNION {Neighbours(graph, m) : m \in Within(graph, j)[k - 1]}
    BY <1>1, Balls
  <2>4. Within(graph, i)[k + 1] = Within(graph, i)[k] \union
            UNION {Neighbours(graph, m) : m \in Within(graph, i)[k]}
    BY <2>1, Balls
  <2> QED BY <2>2, <2>3, <2>4
<1> HIDE DEF good
<1>4. 0..Many \subseteq good
  BY <1>1, <1>2, <1>3, Induction
<1>5. n - 1 \in 0..Many /\ n - 1 # Many /\ (n - 1) + 1 = n
  BY <1>1
<1> QED BY <1>4, <1>5 DEF good

\* Distances do not depend on the direction.
LEMMA BallsSymmetric ==
    ASSUME NEW graph, NEW n \in 0..Many, NEW i \in Ids, NEW k \in Within(graph, i)[n]
    PROVE  k \in Ids /\ i \in Within(graph, k)[n]
<1> DEFINE good == {m \in 0..Many : \A a \in Ids : \A b \in Within(graph, a)[m] : a \in Within(graph, b)[m]}
<1>1. Many \in Nat
  BY HowMany
<1>5. ASSUME NEW a \in Ids PROVE Within(graph, a)[0] = {a}
  <2> HIDE DEF good
  <2> QED BY Balls
<1>0. ASSUME NEW m \in 0..Many, NEW a \in Ids PROVE Within(graph, a)[m] \subseteq Ids
  <2> HIDE DEF good
  <2>1. Within(graph, a) \in [0..Many -> SUBSET Ids]
    BY Balls
  <2> QED BY <2>1
<1>2. 0 \in good
  <2> SUFFICES ASSUME NEW a \in Ids, NEW b \in Within(graph, a)[0] PROVE a \in Within(graph, b)[0]
    BY <1>1
  <2>1. Within(graph, a)[0] = {a}
    BY <1>5
  <2>2. b = a
    BY <2>1
  <2> QED BY <2>1, <2>2
<1>3. ASSUME NEW m \in 1..Many, m - 1 \in good PROVE m \in good
  <2> SUFFICES ASSUME NEW a \in Ids, NEW b \in Within(graph, a)[m] PROVE a \in Within(graph, b)[m]
    BY <1>1
  <2>0. b \in Ids /\ m - 1 \in 0..m /\ m - 1 \in 0..Many /\ m \in 0..Many
    BY <1>0, <1>1
  <2>1. CASE b \in Within(graph, a)[m - 1]
    <3>1. a \in Within(graph, b)[m - 1]
      BY <1>3, <2>1
    <3> QED BY <2>0, <3>1, BallsGrow
  <2>2. CASE b \notin Within(graph, a)[m - 1]
    <3>1. PICK c \in Within(graph, a)[m - 1] : b \in Neighbours(graph, c)
      BY <2>2, Balls
    <3>2. c \in Ids /\ a \in Within(graph, c)[m - 1]
      BY <1>0, <1>3, <2>0, <3>1
    <3>3. c \in Neighbours(graph, b)
      BY <2>0, <3>1, <3>2, NeighboursOf
    <3> QED BY <2>0, <3>2, <3>3, BallsShift
  <2> QED BY <2>1, <2>2
<1> HIDE DEF good
<1>4. 0..Many \subseteq good
  BY <1>1, <1>2, <1>3, Induction
<1> QED BY <1>0, <1>4 DEF good

\* There is a rule towards every owner that is reached.
LEMMA GoalHas ==
    ASSUME NEW s, NEW i \in s.known, NEW n \in s.owned[i], NEW j \in Reach(s.graph, i) \ {i}
    PROVE  \E r \in Goal(s) : r.src = j /\ r.net = n /\ r.dst = NextHop(s.graph, i, j)
<1> DEFINE rule(k) == [src |-> k, dst |-> NextHop(s.graph, i, k), net |-> n,
                       link |-> (CHOOSE e \in s.graph : e.ends = {k, NextHop(s.graph, i, k)}).link]
<1> DEFINE of(m) == {[src |-> k, dst |-> NextHop(s.graph, i, k), net |-> m,
                       link |-> (CHOOSE e \in s.graph : e.ends = {k, NextHop(s.graph, i, k)}).link] :
                        k \in Reach(s.graph, i) \ {i}}
<1>3. rule(j) \in of(n)
  OBVIOUS
<1>4. UNION {of(m) : m \in s.owned[i]} \subseteq Goal(s)
  BY DEF Goal
<1>1. rule(j) \in Goal(s)
  <2> HIDE DEF rule, of
  <2> QED BY <1>3, <1>4
<1>2. rule(j).src = j /\ rule(j).net = n /\ rule(j).dst = NextHop(s.graph, i, j)
  OBVIOUS
<1> HIDE DEF rule
<1> QED BY <1>1, <1>2

\* The way of a packet.
LEMMA Traced ==
    ASSUME site \in Sites, NEW i \in Ids, NEW n \in Subnets
    PROVE  \E at : /\ at[0] = i /\ Trace(i, n) = at[Many]
                   /\ \A m \in 1..Many : at[m] = Hop(at[m - 1], n)
                   /\ \A m \in 0..Many : at[m] \in Ids
<1> DEFINE Eq(f) == f = [k \in 0..Many |-> IF k = 0 THEN i ELSE Hop(f[k - 1], n)]
           F == CHOOSE f : Eq(f)
           G == [k \in 1..Many |-> [j \in Ids |-> Hop(j, n)]]
<1>1. Many \in Nat
  BY HowMany
<1>2. ASSUME NEW j \in Ids PROVE Hop(j, n) \in Ids
  <2>1. site.table[j][n] \in Rule \union {NoRule}
    BY DEF Sites
  <2>2. site.table[j][n] \in Rule => site.table[j][n].dst \in Ids
    BY DEF Rule
  <2> QED BY <2>1, <2>2 DEF Hop
<1>3. G \in [1..Many -> [Ids -> Ids]]
  BY <1>2
<1>4. PICK f : Recursive(f, Many, Ids, i, G)
  <2> HIDE DEF G
  <2> QED BY <1>1, <1>3, Recursion
<1>0. f \in [0..Many -> Ids] /\ f[0] = i /\ \A m \in 1..Many : f[m] = G[m][f[m - 1]]
  BY <1>4 DEF Recursive
<1>5. Eq(f)
  <2>1. \A m \in 0..Many : f[m] = IF m = 0 THEN i ELSE Hop(f[m - 1], n)
    <3> SUFFICES ASSUME NEW m \in 0..Many, m # 0 PROVE f[m] = Hop(f[m - 1], n)
      BY <1>0
    <3>1. m \in 1..Many /\ m - 1 \in 0..Many
      BY <1>1
    <3>2. f[m] = G[m][f[m - 1]] /\ f[m - 1] \in Ids
      BY <1>0, <3>1
    <3> QED BY <3>1, <3>2
  <2>2. f = [m \in 0..Many |-> f[m]]
    BY <1>0
  <2> QED BY <2>1, <2>2
<1>6. Eq(F)
  BY <1>5
<1>7. Trace(i, n) = F[Many]
  BY DEF Trace, Many
<1> HIDE DEF F
<1>8. F[0] = i /\ \A m \in 1..Many : F[m] = Hop(F[m - 1], n)
  <2>1. 0 \in 0..Many /\ \A m \in 1..Many : m \in 0..Many /\ m # 0
    BY <1>1
  <2> QED BY <1>6, <2>1
<1>9. \A m \in 0..Many : F[m] \in Ids
  <2> DEFINE good == {m \in 0..Many : F[m] \in Ids}
  <2>1. 0 \in good
    BY <1>1, <1>8
  <2>2. ASSUME NEW m \in 1..Many, m - 1 \in good PROVE m \in good
    BY <1>2, <1>8, <2>2
  <2> HIDE DEF good
  <2>3. 0..Many \subseteq good
    BY <1>1, <2>1, <2>2, Induction
  <2> QED BY <2>3 DEF good
<1> QED BY <1>7, <1>8, <1>9

\* A hop leads nearer to an owner of the subnet.
LEMMA HopNearer ==
    ASSUME SiteInv, ~site.drifted, NEW n \in Subnets, NEW k \in site.known, n \in site.owned[k],
           NEW j \in site.known, Up(j), n \notin site.owned[j],
           NEW d \in 1..Many, j \in Within(site.graph, k)[d]
    PROVE  /\ Hop(j, n) \in Neighbours(site.graph, j)
           /\ Hop(j, n) \in Within(site.graph, k)[d - 1]
<1>1. site \in Sites /\ site.known \subseteq Ids /\ Many \in Nat
  BY HowMany DEF SiteInv, Sound, Base, Typed, Sites
<1>2. j \in Reach(site.graph, k) \ {k}
  <2>1. Many \in 0..Many /\ d \in 0..Many
    BY <1>1
  <2>2. j \in Within(site.graph, k)[Many]
    BY <1>1, <2>1, BallsGrow
  <2> QED BY <2>2 DEF Reach, Many
<1>3. PICK r \in Goal(site) : r.src = j /\ r.net = n /\ r.dst = NextHop(site.graph, k, j)
  BY <1>2, GoalHas
<1>4. site.rules = Goal(site) /\ Matches(site, site.rules, j)
  BY <1>1 DEF SiteInv, Sound, Base, Current, UpSet
<1>5. site.table[j][n] = r
  BY <1>3, <1>4 DEF Matches
<1>6. r \in Rule /\ [link |-> r.link, ends |-> {j, r.dst}] \in site.graph
  BY <1>1, <1>3, GoalFacts
<1>7. Hop(j, n) = NextHop(site.graph, k, j)
  BY <1>3, <1>5, <1>6, RuleNames DEF Hop
<1>8. NextHop(site.graph, k, j) \in Neighbours(site.graph, j)
  BY <1>1, <1>2, NextHops
<1>9. PICK m \in 1..Many : /\ j \in Within(site.graph, k)[m] \ Within(site.graph, k)[m - 1]
                           /\ NextHop(site.graph, k, j) \in Within(site.graph, k)[m - 1]
  BY <1>1, <1>2, NextHops
<1>10. m <= d
  <2> SUFFICES ASSUME d < m PROVE FALSE
    BY <1>1
  <2>1. m - 1 \in 0..Many /\ d \in 0..(m - 1)
    BY <1>1
  <2>2. Within(site.graph, k)[d] \subseteq Within(site.graph, k)[m - 1]
    BY <1>1, <2>1, BallsGrow
  <2> QED BY <1>9, <2>2
<1>11. d - 1 \in 0..Many /\ m - 1 \in 0..(d - 1)
  BY <1>1, <1>10
<1>12. Within(site.graph, k)[m - 1] \subseteq Within(site.graph, k)[d - 1]
  BY <1>1, <1>11, BallsGrow
<1> QED BY <1>7, <1>8, <1>9, <1>12

\* A packet reaches an owner of its subnet without a loop, whichever way the
\* rules came to be, as long as its part of the site is up and registered.
THEOREM PacketsReachOwners == Spec => []PacketsArrive
<1>1. ASSUME SiteInv, ~site.drifted, NEW i \in site.known, NEW n \in Subnets,
             Reach(site.graph, i) \subseteq {k \in site.known : Up(k)},
             NEW k \in Reach(site.graph, i), n \in site.owned[k]
      PROVE  n \in site.owned[Trace(i, n)]
  <2> DEFINE graph == site.graph
  <2>1. site \in Sites /\ site.known \subseteq Ids /\ Many \in Nat
    BY <1>1, HowMany DEF SiteInv, Sound, Base, Typed, Sites
  <2>2. i \in Ids /\ k \in Ids /\ k \in site.known /\ Reach(graph, i) = Within(graph, i)[Many]
    BY <1>1, <2>1 DEF Reach, Many
  <2>3. i \in Within(graph, k)[Many]
    BY <2>1, <2>2, BallsSymmetric
  <2>4. PICK at : /\ at[0] = i /\ Trace(i, n) = at[Many]
                  /\ \A m \in 1..Many : at[m] = Hop(at[m - 1], n)
                  /\ \A m \in 0..Many : at[m] \in Ids
    BY <2>1, <2>2, Traced
  <2> DEFINE good == {m \in 0..Many : /\ at[m] \in Within(graph, i)[m]
                                      /\ n \in site.owned[at[m]] \/ at[m] \in Within(graph, k)[Many - m]}
  <2>5. 0 \in good
    BY <2>1, <2>2, <2>3, <2>4, Balls
  <2>6. ASSUME NEW m \in 1..Many, m - 1 \in good PROVE m \in good
    <3>0. m - 1 \in 0..Many /\ m - 1 \in 0..m /\ m \in 0..Many /\ Many \in 0..Many /\ m - 1 \in 0..Many
      BY <2>1
    <3>1. PICK j \in Ids : j = at[m - 1]
      BY <2>4, <3>0
    <3>2. at[m] = Hop(j, n)
      BY <2>4, <3>1
    <3>3. j \in Within(graph, i)[m - 1]
      BY <2>6, <3>1
    <3>4. j \in Within(graph, i)[m] /\ j \in Within(graph, i)[Many]
      BY <2>2, <3>0, <3>3, BallsGrow
    <3>5. j \in site.known /\ Up(j)
      BY <1>1, <2>2, <3>4
    <3>6. CASE n \in site.owned[j]
      <4>1. at[m] = j
        BY <3>2, <3>6 DEF Hop
      <4> QED BY <3>0, <3>4, <3>6, <4>1
    <3>7. CASE n \notin site.owned[j]
      <4>1. PICK d \in 1..Many : d = Many - (m - 1)
        BY <2>1
      <4>2. j \in Within(graph, k)[d]
        BY <2>6, <3>1, <3>7, <4>1
      <4>3. Hop(j, n) \in Neighbours(graph, j) /\ Hop(j, n) \in Within(graph, k)[d - 1]
        BY <1>1, <2>2, <3>5, <3>7, <4>2, HopNearer
      <4>4. Hop(j, n) \in Within(graph, i)[m]
        <5>1. Within(graph, i)[m] = Within(graph, i)[m - 1] \union
                  UNION {Neighbours(graph, l) : l \in Within(graph, i)[m - 1]}
          BY <2>2, Balls
        <5> QED BY <3>3, <4>3, <5>1
      <4>5. d - 1 = Many - m
        BY <2>1, <4>1
      <4> QED BY <3>0, <3>2, <4>3, <4>4, <4>5
    <3> QED BY <3>6, <3>7
  <2> HIDE DEF good
  <2>7. Many \in good
    BY <2>1, <2>5, <2>6, Induction
  <2>8. at[Many] = k \/ n \in site.owned[at[Many]]
    <3>1. Many - Many = 0
      BY <2>1
    <3> QED BY <2>2, <2>7, <3>1, Balls DEF good
  <2> QED BY <1>1, <2>4, <2>8
<1>2. SiteInv => PacketsArrive
  BY <1>1 DEF PacketsArrive
<1> QED BY <1>2, SiteInvariant, PTL
=============================================================================
