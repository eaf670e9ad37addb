--------------------------- MODULE TxRelayProofs ----------------------------
(***************************************************************************)
(* Proofs about TxRelay.  The loops of the code are recursive functions;   *)
(* each is solved once (Recursion), and what it returns is found by        *)
(* induction on its steps (Induct).                                        *)
(***************************************************************************)
EXTENDS TxRelay, FiniteSetTheorems, WellFoundedInduction, TLAPS

\* A nonempty set of natural numbers has a least one.
LEMMA LeastNat ==
    ASSUME NEW S, S \subseteq Nat, S # {}
    PROVE  \E n \in S : \A m \in S : n <= m
<1> DEFINE R == OpToRel(<, Nat)
<1>1. IsWellFoundedOn(R, Nat)
  BY Zenon, NatLessThanWellFounded
<1>2. \A x, y : <<x, y>> \in R <=> x \in Nat /\ y \in Nat /\ x < y
  BY Zenon DEF OpToRel
<1> HIDE DEF R
<1>3. PICK x \in S : \A y \in S : ~ (<<y, x>> \in R)
  BY <1>1, WFMin, Zenon
<1>4. ASSUME NEW y \in S PROVE x <= y
  <2>1. ~(y < x) /\ x \in Nat /\ y \in Nat
    BY <1>2, <1>3, Zenon
  <2> QED BY <2>1
<1> QED
  BY <1>4, Zenon

-----------------------------------------------------------------------------
(* Recursion *)

\* Going from x to before[x] one comes from any element of D to one of stop.
Ends(D, stop, before, rank) ==
    /\ \A x \in D : rank[x] \in Nat
    /\ \A x \in D \ stop : before[x] \in D /\ rank[before[x]] < rank[x]

\* T has the elements of D where it stops, and x when it has before[x].
Passes(D, stop, before, T) ==
    \A x \in D : x \in stop \/ before[x] \in T => x \in T

\* What holds where the recursion stops and is passed on, holds everywhere.
LEMMA Induct ==
    ASSUME NEW D, NEW stop, NEW before, NEW rank, Ends(D, stop, before, rank),
           NEW T, Passes(D, stop, before, T)
    PROVE  D \subseteq T
<1> DEFINE Fs == {rank[x] : x \in D \ T}
<1> SUFFICES ASSUME ~(D \subseteq T) PROVE FALSE
  BY Zenon
<1>1. Fs \subseteq Nat /\ Fs # {}
  <2>1. \A x \in D : rank[x] \in Nat
    BY Zenon DEF Ends
  <2> QED BY <2>1
<1>2. PICK n \in Fs : \A m \in Fs : n <= m
  <2> HIDE DEF Fs
  <2> QED BY <1>1, LeastNat, Zenon
<1>3. PICK x \in D \ T : rank[x] = n
  BY <1>2, Zenon
<1>4. x \in D \ stop /\ before[x] \in D \ T
  BY <1>3, Zenon DEF Ends, Passes
<1>5. rank[before[x]] \in Fs /\ rank[before[x]] < rank[x]
  BY <1>4, Zenon DEF Ends
<1>6. rank[x] <= rank[before[x]] /\ rank[x] \in Nat /\ rank[before[x]] \in Nat
  BY <1>1, <1>2, <1>3, <1>5, Zenon
<1> QED BY <1>5, <1>6

Solves(h, D, stop, before, start, g) ==
    h = [x \in D |-> IF x \in stop THEN start[x] ELSE g[<<h[before[x]], x>>]]

\* A recursion that ends has a solution.
LEMMA Recursion ==
    ASSUME NEW D, NEW stop, NEW before, NEW rank, Ends(D, stop, before, rank),
           NEW start, NEW g
    PROVE  \E h : Solves(h, D, stop, before, start, g)
<1> DEFINE St(h, x) == IF x \in stop THEN start[x] ELSE g[<<h[before[x]], x>>]
           Upto(h, n) == \A x \in D : rank[x] <= n => h[x] = St(h, x)
           Some(n) == \E h : h = [x \in D |-> h[x]] /\ Upto(h, n)
           Same(h, k, n) == \A x \in D : rank[x] <= n => h[x] = k[x]
<1>1. ASSUME NEW n \in Nat, NEW h, NEW k, Upto(h, n), Upto(k, n)
      PROVE  Same(h, k, n)
  <2> DEFINE T == {x \in D : rank[x] <= n => h[x] = k[x]}
  <2>1. D \cap stop \subseteq T
    BY <1>1, Zenon
  <2>2. ASSUME NEW x \in D \ stop, before[x] \in T PROVE x \in T
    <3> SUFFICES ASSUME rank[x] <= n PROVE h[x] = k[x]
      BY Zenon
    <3>1. rank[before[x]] <= n
      <4>1. rank[before[x]] \in Nat /\ rank[x] \in Nat /\ rank[before[x]] < rank[x]
        BY Zenon DEF Ends
      <4> QED BY <4>1
    <3>2. h[before[x]] = k[before[x]]
      BY <2>2, <3>1, Zenon
    <3>3. h[x] = St(h, x) /\ k[x] = St(k, x)
      BY <1>1, Zenon
    <3> QED BY <3>2, <3>3, Zenon
  <2>3. D \subseteq T
    <3>1. Passes(D, stop, before, T)
      BY <2>1, <2>2, Zenon DEF Passes
    <3> HIDE DEF T
    <3> QED BY <3>1, Induct, Zenon
  <2> QED BY <2>3, Zenon
<1>2. ASSUME NEW n \in Nat, NEW h, h = [x \in D |-> h[x]], Upto(h, n)
      PROVE  Some(n + 1)
  <2> DEFINE k == [x \in D |-> IF rank[x] <= n THEN h[x] ELSE St(h, x)]
  <2>1. ASSUME NEW x \in D, rank[x] <= n + 1 PROVE k[x] = St(k, x)
    <3>1. k[x] = St(h, x)
      BY <1>2, Zenon
    <3>2. x \notin stop => k[before[x]] = h[before[x]]
      <4> SUFFICES ASSUME x \notin stop PROVE k[before[x]] = h[before[x]]
        BY Zenon
      <4>1. before[x] \in D /\ rank[before[x]] \in Nat /\ rank[x] \in Nat /\ rank[before[x]] < rank[x]
        BY Zenon DEF Ends
      <4>2. rank[before[x]] <= n
        BY <4>1, <2>1
      <4> QED BY <4>1, <4>2, Zenon
    <3> QED BY <3>1, <3>2, Zenon
  <2>2. k = [x \in D |-> k[x]]
    BY Zenon
  <2> HIDE DEF k
  <2> QED BY <2>1, <2>2, Zenon
<1>3. Some(0)
  <2> DEFINE k == [x \in D |-> start[x]]
  <2>1. ASSUME NEW x \in D, rank[x] <= 0 PROVE k[x] = St(k, x)
    <3>1. x \in stop
      <4> SUFFICES ASSUME x \notin stop PROVE FALSE
        BY Zenon
      <4>1. rank[before[x]] \in Nat /\ rank[x] \in Nat /\ rank[before[x]] < rank[x]
        BY Zenon DEF Ends
      <4> QED BY <4>1, <2>1
    <3> QED BY <3>1, Zenon
  <2>2. k = [x \in D |-> k[x]]
    BY Zenon
  <2> HIDE DEF k
  <2> QED BY <2>1, <2>2, Zenon
<1>4. \A n \in Nat : Some(n)
  <2> DEFINE Fs == {n \in Nat : ~Some(n)}
  <2> SUFFICES ASSUME Fs # {} PROVE FALSE
    BY Zenon
  <2>1. PICK n \in Fs : \A m \in Fs : n <= m
    <3>1. Fs \subseteq Nat
      BY Zenon
    <3> HIDE DEF Fs
    <3> QED BY <3>1, LeastNat, Zenon
  <2>2. n \in Nat /\ ~Some(n)
    BY <2>1, Zenon
  <2> HIDE DEF Some
  <2>3. n # 0
    BY <2>2, <1>3, Zenon
  <2>4. n - 1 \in Nat /\ (n - 1) + 1 = n /\ ~(n <= n - 1)
    BY <2>2, <2>3
  <2>5. Some(n - 1)
    BY <2>1, <2>4, Zenon
  <2>6. Some((n - 1) + 1)
    <3>1. PICK h : h = [x \in D |-> h[x]] /\ Upto(h, n - 1)
      BY <2>5, Zenon DEF Some
    <3> HIDE DEF Upto
    <3> QED BY <3>1, <2>4, <1>2, Zenon
  <2> QED BY <2>2, <2>4, <2>6, Zenon
<1> DEFINE Sol(n) == CHOOSE h : h = [x \in D |-> h[x]] /\ Upto(h, n)
           all == [x \in D |-> Sol(rank[x])[x]]
<1>5. \A n \in Nat : Upto(Sol(n), n)
  <2> HIDE DEF Upto
  <2> QED BY <1>4, Zenon
<1>6. ASSUME NEW x \in D PROVE all[x] = St(all, x)
  <2>1. rank[x] \in Nat
    BY Zenon DEF Ends
  <2>2. rank[x] <= rank[x]
    BY <2>1
  <2>3. Sol(rank[x])[x] = St(Sol(rank[x]), x)
    <3>1. Upto(Sol(rank[x]), rank[x])
      BY <1>5, <2>1, Zenon
    <3> HIDE DEF Sol
    <3> QED BY <3>1, <2>2, Zenon
  <2>4. ASSUME x \notin stop PROVE all[before[x]] = Sol(rank[x])[before[x]]
    <3> DEFINE y == before[x]
    <3>1. y \in D /\ rank[y] \in Nat /\ rank[y] < rank[x]
      BY <2>4, Zenon DEF Ends
    <3>2. rank[y] <= rank[y] /\ rank[y] <= rank[x]
      BY <3>1, <2>1
    <3>3. Upto(Sol(rank[y]), rank[y]) /\ Upto(Sol(rank[x]), rank[x])
      <4> HIDE DEF Upto, Sol, y
      <4> QED BY <1>5, <2>1, <3>1, Zenon
    <3>4. Upto(Sol(rank[x]), rank[y])
      <4> HIDE DEF Sol
      <4> SUFFICES ASSUME NEW z \in D, rank[z] <= rank[y] PROVE Sol(rank[x])[z] = St(Sol(rank[x]), z)
        BY Zenon
      <4>1. rank[z] \in Nat
        BY Zenon DEF Ends
      <4>2. rank[z] <= rank[x]
        BY <4>1, <3>1, <2>1
      <4> QED BY <4>2, <3>3, Zenon
    <3>5. Same(Sol(rank[y]), Sol(rank[x]), rank[y])
      <4> HIDE DEF Upto, Sol, Same, y
      <4> QED BY <3>1, <3>3, <3>4, <1>1, Zenon
    <3>6. Sol(rank[y])[y] = Sol(rank[x])[y]
      <4> HIDE DEF Sol
      <4> QED BY <3>1, <3>2, <3>5, Zenon
    <3>7. all[y] = Sol(rank[y])[y]
      <4> HIDE DEF Sol, y
      <4> QED BY <3>1, Zenon
    <3> HIDE DEF Sol, all
    <3> QED BY <3>6, <3>7, Zenon
  <2>5. all[x] = Sol(rank[x])[x]
    <3> HIDE DEF Sol
    <3> QED BY Zenon
  <2> HIDE DEF Sol, all
  <2> QED BY <2>3, <2>4, <2>5, Zenon
<1>7. all = [x \in D |-> St(all, x)]
  <2>1. all = [x \in D |-> all[x]]
    <3> HIDE DEF Sol
    <3> QED BY Zenon
  <2> HIDE DEF all, Sol
  <2> QED BY <1>6, <2>1
<1> HIDE DEF all, Sol
<1> QED BY <1>7, Zenon DEF Solves

\* F[x] has what the recursion may return for x.
Keeps(D, stop, before, start, g, F) ==
    /\ \A x \in D : x \in stop => start[x] \in F[x]
    /\ \A x \in D : x \notin stop => \A v \in F[before[x]] : g[<<v, x>>] \in F[x]

\* A recursion that ends has a solution with values in the sets it keeps.
LEMMA SolvedIn ==
    ASSUME NEW D, NEW stop, NEW before, NEW rank, Ends(D, stop, before, rank),
           NEW start, NEW g, NEW F, Keeps(D, stop, before, start, g, F)
    PROVE  \E h : Solves(h, D, stop, before, start, g) /\ \A x \in D : h[x] \in F[x]
<1>1. PICK h : Solves(h, D, stop, before, start, g)
  BY Recursion, Zenon
<1>2. \A x \in D : h[x] = IF x \in stop THEN start[x] ELSE g[<<h[before[x]], x>>]
  BY <1>1, Zenon DEF Solves
<1> DEFINE T == {x \in D : h[x] \in F[x]}
<1>3. Passes(D, stop, before, T)
  <2> SUFFICES ASSUME NEW x \in D, x \in stop \/ before[x] \in T PROVE h[x] \in F[x]
    BY Zenon DEF Passes
  <2>1. CASE x \in stop
    BY <2>1, <1>2, Zenon DEF Keeps
  <2>2. CASE x \notin stop
    <3>1. h[before[x]] \in F[before[x]]
      BY <2>2, Zenon
    <3>2. g[<<h[before[x]], x>>] \in F[x]
      BY <2>2, <3>1, Zenon DEF Keeps
    <3> QED BY <2>2, <3>2, <1>2, Zenon
  <2> QED BY <2>1, <2>2, Zenon
<1>4. D \subseteq T
  <2> HIDE DEF T
  <2> QED BY <1>3, Induct, Zenon
<1> QED BY <1>1, <1>4, Zenon


\* A pair and its parts.
LEMMA Pair ==
    ASSUME NEW A, NEW B, NEW v \in A, NEW w \in B
    PROVE  <<v, w>> \in A \X B /\ <<v, w>>[1] = v /\ <<v, w>>[2] = w
OBVIOUS

\* From a block one comes by way of its parents to Base.
LEMMA TreeEnds ==
    ASSUME NEW S, Base \in S
    PROVE  Ends(Blocks, S, Parent, Height)
<1>1. \A b \in Blocks : Height[b] \in Nat
  BY TxMemPoolAssumption, Zenon DEF TxMemPoolAssumption
<1>2. ASSUME NEW b \in Blocks \ S PROVE Parent[b] \in Blocks /\ Height[Parent[b]] < Height[b]
  <2>1. Parent[b] \in Blocks /\ Height[b] = Height[Parent[b]] + 1
    BY TxMemPoolAssumption, Zenon DEF TxMemPoolAssumption
  <2> QED BY <1>1, <2>1
<1> QED BY <1>1, <1>2, Zenon DEF Ends

Index(N) == [n \in 0 .. N |-> n]
Back(N) == [n \in 1 .. N |-> n - 1]

\* A loop that counts to N.
LEMMA LoopEnds ==
    ASSUME NEW N \in Nat
    PROVE  Ends(0 .. N, {0}, Back(N), Index(N))
<1>1. \A n \in 0 .. N : n \in Nat
  OBVIOUS
<1>2. ASSUME NEW n \in (0 .. N) \ {0}
      PROVE  n \in 1 .. N /\ n - 1 \in 0 .. N /\ n - 1 < n
  OBVIOUS
<1>3. \A n \in 0 .. N : Index(N)[n] = n
  BY Zenon DEF Index
<1>4. \A n \in 1 .. N : Back(N)[n] = n - 1
  BY Zenon DEF Back
<1> QED BY <1>1, <1>2, <1>3, <1>4, Zenon DEF Ends

-----------------------------------------------------------------------------
(* The chain of a block *)

\* The parent of a block is one lower.
LEMMA ParentFacts ==
    ASSUME NEW b \in Blocks, b # Base
    PROVE  Parent[b] \in Blocks /\ Height[b] \in Nat /\ Height[Parent[b]] \in Nat
           /\ Height[b] = Height[Parent[b]] + 1
BY TxMemPoolAssumption, Zenon DEF TxMemPoolAssumption

\* The chain of a block is the block and the chain of its parent.
LEMMA ChainSolved ==
    /\ Chain = [b \in Blocks |-> Chain[b]]
    /\ Chain[Base] = {Base}
    /\ \A b \in Blocks : b # Base => Chain[b] = Chain[Parent[b]] \cup {b}
<1> DEFINE C == CHOOSE h : h = [b \in Blocks |-> IF b = Base THEN {Base} ELSE h[Parent[b]] \cup {b}]
           start == [b \in Blocks |-> {Base}]
           V == SUBSET Blocks
           g == [p \in V \X Blocks |-> p[1] \cup {p[2]}]
           F == [b \in Blocks |-> SUBSET Blocks]
<1>0. Base \in Blocks
  BY TxMemPoolAssumption, Zenon DEF TxMemPoolAssumption
<1>1. Chain = [b \in Blocks |-> C[b]]
  BY Zenon DEF Chain
<1>2. ASSUME NEW v \in V, NEW b \in Blocks PROVE g[<<v, b>>] = v \cup {b}
  <2> DEFINE q == <<v, b>>
  <2> HIDE DEF V
  <2>1. q \in V \X Blocks /\ q[1] = v /\ q[2] = b
    BY Pair, Zenon
  <2> HIDE DEF q
  <2>2. g[q] = q[1] \cup {q[2]}
    BY <2>1, Zenon
  <2> QED BY <2>1, <2>2, Zenon DEF q
<1>3. \A b \in Blocks : start[b] = {Base} /\ F[b] = SUBSET Blocks
  BY Zenon
<1> HIDE DEF start, g, F
<1>4. Ends(Blocks, {Base}, Parent, Height)
  BY TreeEnds, Zenon
<1>5. Keeps(Blocks, {Base}, Parent, start, g, F)
  <2>1. ASSUME NEW b \in Blocks, b \in {Base} PROVE start[b] \in F[b]
    BY <2>1, <1>0, <1>3
  <2>2. ASSUME NEW b \in Blocks, b \notin {Base}, NEW v \in F[Parent[b]] PROVE g[<<v, b>>] \in F[b]
    <3>1. v \in SUBSET Blocks
      BY <2>2, <1>3, ParentFacts, Zenon
    <3>2. v \cup {b} \in SUBSET Blocks
      BY <3>1
    <3> QED BY <3>1, <3>2, <1>2, <1>3, Zenon
  <2> QED BY <2>1, <2>2, Zenon DEF Keeps
<1>6. PICK h : Solves(h, Blocks, {Base}, Parent, start, g) /\ \A b \in Blocks : h[b] \in F[b]
  BY <1>4, <1>5, SolvedIn, Zenon
<1>7. h = [b \in Blocks |-> IF b = Base THEN {Base} ELSE h[Parent[b]] \cup {b}]
  <2>1. h = [b \in Blocks |-> IF b \in {Base} THEN start[b] ELSE g[<<h[Parent[b]], b>>]]
    BY <1>6, Zenon DEF Solves
  <2>2. ASSUME NEW b \in Blocks
        PROVE  h[b] = IF b = Base THEN {Base} ELSE h[Parent[b]] \cup {b}
    <3>1. b # Base => h[Parent[b]] \in SUBSET Blocks
      BY <1>3, <1>6, ParentFacts, Zenon
    <3>2. b # Base => g[<<h[Parent[b]], b>>] = h[Parent[b]] \cup {b}
      BY <3>1, <1>2, Zenon
    <3> QED BY <2>1, <3>2, <1>3, Zenon
  <2>3. h = [b \in Blocks |-> h[b]]
    BY <2>1, Zenon
  <2> QED BY <2>2, <2>3
<1>8. C = [b \in Blocks |-> IF b = Base THEN {Base} ELSE C[Parent[b]] \cup {b}]
  BY <1>7, Zenon
<1> HIDE DEF C
<1>9. \A b \in Blocks : C[b] = IF b = Base THEN {Base} ELSE C[Parent[b]] \cup {b}
  BY <1>8, Zenon
<1>10. \A b \in Blocks : Chain[b] = C[b]
  BY <1>1, Zenon
<1>11. Chain = [b \in Blocks |-> Chain[b]]
  BY <1>1, Zenon
<1> QED BY <1>0, <1>9, <1>10, <1>11, ParentFacts, Zenon

\* What the chain of a block is made of.
LEMMA ChainFacts ==
    /\ Base \in Blocks
    /\ \A b \in Blocks : Chain[b] \subseteq Blocks /\ b \in Chain[b] /\ Base \in Chain[b]
    /\ \A b \in Blocks : \A a \in Chain[b] : Chain[a] \subseteq Chain[b]
    /\ \A b \in Blocks : \A a \in Chain[b] : a = b \/ Height[a] < Height[b]
<1>0. Base \in Blocks
  BY TxMemPoolAssumption, Zenon DEF TxMemPoolAssumption
<1>e. Ends(Blocks, {Base}, Parent, Height)
  BY TreeEnds, Zenon
<1> DEFINE T == {b \in Blocks : /\ Chain[b] \subseteq Blocks /\ b \in Chain[b] /\ Base \in Chain[b]
                                /\ \A a \in Chain[b] : Chain[a] \subseteq Chain[b]
                                /\ \A a \in Chain[b] : a = b \/ Height[a] < Height[b]}
<1>1. Base \in T
  BY <1>0, ChainSolved, Zenon
<1>2. ASSUME NEW b \in Blocks, b # Base, Parent[b] \in T PROVE b \in T
  <2>1. Chain[b] = Chain[Parent[b]] \cup {b}
    BY <1>2, ChainSolved, Zenon
  <2>2. Chain[b] \subseteq Blocks /\ b \in Chain[b] /\ Base \in Chain[b]
    BY <1>2, <2>1, Zenon
  <2>3. ASSUME NEW a \in Chain[b] PROVE Chain[a] \subseteq Chain[b]
    <3>1. CASE a = b
      BY <3>1, Zenon
    <3>2. CASE a \in Chain[Parent[b]]
      BY <3>2, <1>2, <2>1, Zenon
    <3> QED BY <2>1, <3>1, <3>2, Zenon
  <2>4. ASSUME NEW a \in Chain[b], a # b PROVE Height[a] < Height[b]
    <3>1. a \in Blocks /\ a \in Chain[Parent[b]]
      BY <2>1, <2>2, <2>4, Zenon
    <3>2. a = Parent[b] \/ Height[a] < Height[Parent[b]]
      BY <3>1, <1>2, Zenon
    <3>3. Height[a] \in Nat
      BY <3>1, TxMemPoolAssumption, Zenon DEF TxMemPoolAssumption
    <3>4. Height[b] \in Nat /\ Height[Parent[b]] \in Nat /\ Height[b] = Height[Parent[b]] + 1
      BY <1>2, ParentFacts, Zenon
    <3> QED BY <3>2, <3>3, <3>4
  <2> QED BY <2>2, <2>3, <2>4, Zenon
<1>3. Passes(Blocks, {Base}, Parent, T)
  <2> SUFFICES ASSUME NEW b \in Blocks, b \in {Base} \/ Parent[b] \in T PROVE b \in T
    BY Zenon DEF Passes
  <2> HIDE DEF T
  <2> QED BY <1>1, <1>2, Zenon
<1>4. Blocks \subseteq T
  <2> HIDE DEF T
  <2> QED BY <1>3, <1>e, Induct, Zenon
<1> QED BY <1>0, <1>4, Zenon

-----------------------------------------------------------------------------
(* The loops.  F[x] has what a loop may have made of its state by step x.  *)

\* The walk of FindFork.
ForkKeeps(F) ==
    /\ \A x \in Blocks : x \in Chain[tip] => x \in F[x]
    /\ \A x \in Blocks : x \notin Chain[tip] => \A v \in F[Parent[x]] : v \in F[x]

\* FindFork returns what every step of its walk keeps.
LEMMA FindForkIn ==
    ASSUME NEW F, tip \in Blocks, ForkKeeps(F), NEW b \in Blocks
    PROVE  FindFork(b) \in F[b]
<1> DEFINE fork == CHOOSE h : h = [x \in Blocks |-> IF x \in Chain[tip] THEN x ELSE h[Parent[x]]]
           V == UNION {F[x] : x \in Blocks}
           start == [x \in Blocks |-> x]
           g == [p \in V \X Blocks |-> p[1]]
<1>1. FindFork(b) = fork[b]
  BY Zenon DEF FindFork
<1>2. ASSUME NEW v \in V, NEW x \in Blocks PROVE g[<<v, x>>] = v
  <2> DEFINE q == <<v, x>>
  <2> HIDE DEF V
  <2>1. q \in V \X Blocks /\ q[1] = v
    BY Pair, Zenon
  <2> HIDE DEF q
  <2>2. g[q] = q[1]
    BY <2>1, Zenon
  <2> QED BY <2>1, <2>2, Zenon DEF q
<1>3. \A x \in Blocks : start[x] = x /\ F[x] \subseteq V
  BY Zenon
<1> HIDE DEF start, g, V
<1>4. Ends(Blocks, Chain[tip], Parent, Height) /\ \A x \in Blocks : x \notin Chain[tip] => Parent[x] \in Blocks
  BY TreeEnds, ChainFacts, ParentFacts, Zenon
<1>5. Keeps(Blocks, Chain[tip], Parent, start, g, F)
  <2>1. ASSUME NEW x \in Blocks, x \notin Chain[tip], NEW v \in F[Parent[x]] PROVE g[<<v, x>>] \in F[x]
    <3>1. v \in V /\ v \in F[x]
      BY <2>1, <1>3, <1>4, Zenon DEF ForkKeeps
    <3> QED BY <3>1, <1>2, Zenon
  <2>2. ASSUME NEW x \in Blocks, x \in Chain[tip] PROVE start[x] \in F[x]
    <3>1. start[x] = x
      BY <1>3, Zenon
    <3> QED BY <2>2, <3>1, Zenon DEF ForkKeeps
  <2> QED BY <2>1, <2>2, Zenon DEF Keeps
<1>6. PICK h : Solves(h, Blocks, Chain[tip], Parent, start, g) /\ \A x \in Blocks : h[x] \in F[x]
  BY <1>4, <1>5, SolvedIn, Zenon
<1>7. h = [x \in Blocks |-> IF x \in Chain[tip] THEN x ELSE h[Parent[x]]]
  <2>1. h = [x \in Blocks |-> IF x \in Chain[tip] THEN start[x] ELSE g[<<h[Parent[x]], x>>]]
    BY <1>6, Zenon DEF Solves
  <2>2. ASSUME NEW x \in Blocks PROVE h[x] = IF x \in Chain[tip] THEN x ELSE h[Parent[x]]
    <3>1. x \notin Chain[tip] => g[<<h[Parent[x]], x>>] = h[Parent[x]]
      BY <1>2, <1>3, <1>4, <1>6, Zenon
    <3> QED BY <2>1, <3>1, <1>3, Zenon
  <2>3. h = [x \in Blocks |-> h[x]]
    BY <2>1, Zenon
  <2> QED BY <2>2, <2>3
<1>8. fork = [x \in Blocks |-> IF x \in Chain[tip] THEN x ELSE fork[Parent[x]]]
  BY <1>7, Zenon
<1> HIDE DEF fork
<1>9. \A x \in Blocks : fork[x] = IF x \in Chain[tip] THEN x ELSE fork[Parent[x]]
  BY <1>8, Zenon
<1> DEFINE T == {x \in Blocks : fork[x] \in F[x]}
<1>10. Passes(Blocks, Chain[tip], Parent, T)
  <2> SUFFICES ASSUME NEW x \in Blocks, x \in Chain[tip] \/ Parent[x] \in T PROVE fork[x] \in F[x]
    BY Zenon DEF Passes
  <2>1. CASE x \in Chain[tip]
    BY <2>1, <1>9, Zenon DEF ForkKeeps
  <2>2. CASE x \notin Chain[tip]
    <3>1. fork[x] = fork[Parent[x]] /\ fork[Parent[x]] \in F[Parent[x]]
      BY <2>2, <1>9, Zenon
    <3> QED BY <2>2, <3>1, Zenon DEF ForkKeeps
  <2> QED BY <2>1, <2>2, Zenon
<1>11. Blocks \subseteq T
  <2> HIDE DEF T
  <2> QED BY <1>4, <1>10, Induct, Zenon
<1> QED BY <1>1, <1>11, Zenon

\* FindFork returns the highest block of both chains.
LEMMA ForkFacts ==
    ASSUME tip \in Blocks, NEW b \in Blocks
    PROVE  /\ FindFork(b) \in Blocks
           /\ FindFork(b) \in Chain[tip] /\ FindFork(b) \in Chain[b]
           /\ Chain[b] \cap Chain[tip] \subseteq Chain[FindFork(b)]
<1> DEFINE F == [x \in Blocks |-> {y \in Blocks : /\ y \in Chain[tip] /\ y \in Chain[x]
                                                  /\ Chain[x] \cap Chain[tip] \subseteq Chain[y]}]
<1>1. \A x \in Blocks : F[x] = {y \in Blocks : /\ y \in Chain[tip] /\ y \in Chain[x]
                                               /\ Chain[x] \cap Chain[tip] \subseteq Chain[y]}
  BY Zenon
<1> HIDE DEF F
<1>2. ASSUME NEW x \in Blocks, x \in Chain[tip] PROVE x \in F[x]
  BY <1>2, <1>1, ChainFacts, Zenon
<1>3. ASSUME NEW x \in Blocks, x \notin Chain[tip] PROVE \A v \in F[Parent[x]] : v \in F[x]
  <2>1. x # Base /\ Parent[x] \in Blocks /\ Chain[x] = Chain[Parent[x]] \cup {x}
    BY <1>3, ChainFacts, ParentFacts, ChainSolved, Zenon
  <2>2. Chain[x] \cap Chain[tip] = Chain[Parent[x]] \cap Chain[tip]
    BY <1>3, <2>1
  <2> QED BY <1>1, <2>1, <2>2
<1>4. FindFork(b) \in F[b]
  <2>1. ForkKeeps(F)
    BY <1>2, <1>3, Zenon DEF ForkKeeps
  <2> QED BY <2>1, FindForkIn, Zenon
<1> QED BY <1>1, <1>4

\* The loop of removeForBlock over the transactions of a block.
BlockKeeps(F, p, vtx) ==
    /\ [pool |-> p, conflicts |-> {}] \in F[0]
    /\ \A n \in 1 .. Len(vtx) : \A v \in F[n - 1] : RemoveMined(v, vtx[n]) \in F[n]

\* The loop returns what each of its steps keeps.
LEMMA BlockLoop ==
    ASSUME NEW F, NEW p, NEW vtx, Len(vtx) \in Nat, BlockKeeps(F, p, vtx)
    PROVE  removeForBlock(p, vtx) \in F[Len(vtx)]
<1> DEFINE N == Len(vtx)
           step(v, n) == RemoveMined(v, vtx[n])
           first == [pool |-> p, conflicts |-> {}]
           after == CHOOSE h : h = [n \in 0 .. Len(vtx) |-> IF n = 0 THEN first ELSE step(h[n - 1], n)]
           V == UNION {F[n] : n \in 0 .. N}
           start == [n \in 0 .. N |-> first]
           g == [vn \in V \X (0 .. N) |-> step(vn[1], vn[2])]
<1>1. removeForBlock(p, vtx) = after[N]
  BY Zenon DEF removeForBlock
<1>2. first \in F[0] /\ \A n \in 1 .. N : \A v \in F[n - 1] : step(v, n) \in F[n]
  BY Zenon DEF BlockKeeps
<1> HIDE DEF step, first, N
<1>3. ASSUME NEW v \in V, NEW n \in 0 .. N PROVE g[<<v, n>>] = step(v, n)
  <2> DEFINE q == <<v, n>>
  <2> HIDE DEF V
  <2>1. q \in V \X (0 .. N) /\ q[1] = v /\ q[2] = n
    BY Pair, Zenon
  <2> HIDE DEF q
  <2>2. g[q] = step(q[1], q[2])
    BY <2>1, Zenon
  <2> QED BY <2>1, <2>2, Zenon DEF q
<1>4. \A n \in 0 .. N : start[n] = first
  BY Zenon
<1>5. \A n \in 0 .. N : \A v \in F[n] : v \in V
  BY Zenon
<1> HIDE DEF start, g, V
<1>6. \A n \in 0 .. N : n \notin {0} => n \in 1 .. N /\ Back(N)[n] = n - 1 /\ n - 1 \in 0 .. N
  BY DEF N, Back
<1>7. Ends(0 .. N, {0}, Back(N), Index(N)) /\ N \in Nat
  BY LoopEnds, Zenon DEF N
<1>8. Keeps(0 .. N, {0}, Back(N), start, g, F)
  <2>1. ASSUME NEW n \in 0 .. N, n \notin {0}, NEW v \in F[Back(N)[n]] PROVE g[<<v, n>>] \in F[n]
    <3>1. v \in F[n - 1] /\ n \in 1 .. N
      BY <2>1, <1>6, Zenon
    <3>2. v \in V
      BY <2>1, <3>1, <1>5, <1>6, Zenon
    <3> QED BY <3>1, <3>2, <1>2, <1>3, Zenon
  <2>2. ASSUME NEW n \in 0 .. N, n \in {0} PROVE start[n] \in F[n]
    BY <2>2, <1>2, <1>4, Zenon
  <2> QED BY <2>1, <2>2, Zenon DEF Keeps
<1>9. PICK h : Solves(h, 0 .. N, {0}, Back(N), start, g) /\ \A n \in 0 .. N : h[n] \in F[n]
  BY <1>7, <1>8, SolvedIn, Zenon
<1>10. h = [n \in 0 .. N |-> IF n = 0 THEN first ELSE step(h[n - 1], n)]
  <2>1. h = [n \in 0 .. N |-> IF n \in {0} THEN start[n] ELSE g[<<h[Back(N)[n]], n>>]]
    BY <1>9, Zenon DEF Solves
  <2>2. ASSUME NEW n \in 0 .. N PROVE h[n] = IF n = 0 THEN first ELSE step(h[n - 1], n)
    <3>1. n # 0 => h[n - 1] \in V /\ h[Back(N)[n]] = h[n - 1]
      BY <1>5, <1>6, <1>9, Zenon
    <3>2. h[n] = IF n \in {0} THEN start[n] ELSE g[<<h[Back(N)[n]], n>>]
      BY <2>1, Zenon
    <3>3. n # 0 => g[<<h[Back(N)[n]], n>>] = step(h[n - 1], n)
      BY <3>1, <1>3, Zenon
    <3> QED BY <3>2, <3>3, <1>4, Zenon
  <2>3. h = [n \in 0 .. N |-> h[n]]
    BY <2>1, Zenon
  <2> QED BY <2>2, <2>3, Zenon
<1>11. after = [n \in 0 .. N |-> IF n = 0 THEN first ELSE step(after[n - 1], n)]
  BY <1>10, Zenon DEF N
<1> HIDE DEF after
<1>12. \A n \in 0 .. N : after[n] = IF n = 0 THEN first ELSE step(after[n - 1], n)
  BY <1>11, Zenon
<1> DEFINE T == {n \in 0 .. N : after[n] \in F[n]}
<1>13. Passes(0 .. N, {0}, Back(N), T)
  <2> SUFFICES ASSUME NEW n \in 0 .. N, n \in {0} \/ Back(N)[n] \in T PROVE after[n] \in F[n]
    BY Zenon DEF Passes
  <2>1. CASE n = 0
    BY <2>1, <1>2, <1>12, Zenon
  <2>2. CASE n # 0
    <3>1. n \in 1 .. N /\ after[n - 1] \in F[n - 1]
      BY <2>2, <1>6, Zenon
    <3> QED BY <2>2, <3>1, <1>2, <1>12, Zenon
  <2> QED BY <2>1, <2>2, Zenon
<1>14. 0 .. N \subseteq T
  <2> HIDE DEF T
  <2> QED BY <1>7, <1>13, Induct, Zenon
<1>15. N \in 0 .. N
  BY <1>7
<1> QED BY <1>1, <1>14, <1>15, Zenon DEF N

\* The loop of DisconnectTip over the transactions of a block.
ResurrectKeeps(F, p, b) ==
    /\ p \in F[0]
    /\ \A n \in 1 .. Len(Vtx[b]) : \A v \in F[n - 1] : TakeBack(v, Vtx[b][n], b) \in F[n]

\* The loop returns what each of its steps keeps.
LEMMA ResurrectLoop ==
    ASSUME NEW F, NEW p, NEW b, Len(Vtx[b]) \in Nat, ResurrectKeeps(F, p, b)
    PROVE  \E back \in F[Len(Vtx[b])] :
               Resurrect(p, b) = IF Root[b] # Root[Parent[b]] THEN removeWithAnchor(back, Root[b]) ELSE back
<1> DEFINE N == Len(Vtx[b])
           step(v, n) == TakeBack(v, Vtx[b][n], b)
           first == p
           after == CHOOSE h : h = [n \in 0 .. Len(Vtx[b]) |-> IF n = 0 THEN first ELSE step(h[n - 1], n)]
           V == UNION {F[n] : n \in 0 .. N}
           start == [n \in 0 .. N |-> first]
           g == [vn \in V \X (0 .. N) |-> step(vn[1], vn[2])]
<1>1. Resurrect(p, b) = IF Root[b] # Root[Parent[b]] THEN removeWithAnchor(after[N], Root[b]) ELSE after[N]
  BY Zenon DEF Resurrect
<1>2. first \in F[0] /\ \A n \in 1 .. N : \A v \in F[n - 1] : step(v, n) \in F[n]
  BY Zenon DEF ResurrectKeeps
<1> HIDE DEF step, first, N
<1>3. ASSUME NEW v \in V, NEW n \in 0 .. N PROVE g[<<v, n>>] = step(v, n)
  <2> DEFINE q == <<v, n>>
  <2> HIDE DEF V
  <2>1. q \in V \X (0 .. N) /\ q[1] = v /\ q[2] = n
    BY Pair, Zenon
  <2> HIDE DEF q
  <2>2. g[q] = step(q[1], q[2])
    BY <2>1, Zenon
  <2> QED BY <2>1, <2>2, Zenon DEF q
<1>4. \A n \in 0 .. N : start[n] = first
  BY Zenon
<1>5. \A n \in 0 .. N : \A v \in F[n] : v \in V
  BY Zenon
<1> HIDE DEF start, g, V
<1>6. \A n \in 0 .. N : n \notin {0} => n \in 1 .. N /\ Back(N)[n] = n - 1 /\ n - 1 \in 0 .. N
  BY DEF N, Back
<1>7. Ends(0 .. N, {0}, Back(N), Index(N)) /\ N \in Nat
  BY LoopEnds, Zenon DEF N
<1>8. Keeps(0 .. N, {0}, Back(N), start, g, F)
  <2>1. ASSUME NEW n \in 0 .. N, n \notin {0}, NEW v \in F[Back(N)[n]] PROVE g[<<v, n>>] \in F[n]
    <3>1. v \in F[n - 1] /\ n \in 1 .. N
      BY <2>1, <1>6, Zenon
    <3>2. v \in V
      BY <2>1, <3>1, <1>5, <1>6, Zenon
    <3> QED BY <3>1, <3>2, <1>2, <1>3, Zenon
  <2>2. ASSUME NEW n \in 0 .. N, n \in {0} PROVE start[n] \in F[n]
    BY <2>2, <1>2, <1>4, Zenon
  <2> QED BY <2>1, <2>2, Zenon DEF Keeps
<1>9. PICK h : Solves(h, 0 .. N, {0}, Back(N), start, g) /\ \A n \in 0 .. N : h[n] \in F[n]
  BY <1>7, <1>8, SolvedIn, Zenon
<1>10. h = [n \in 0 .. N |-> IF n = 0 THEN first ELSE step(h[n - 1], n)]
  <2>1. h = [n \in 0 .. N |-> IF n \in {0} THEN start[n] ELSE g[<<h[Back(N)[n]], n>>]]
    BY <1>9, Zenon DEF Solves
  <2>2. ASSUME NEW n \in 0 .. N PROVE h[n] = IF n = 0 THEN first ELSE step(h[n - 1], n)
    <3>1. n # 0 => h[n - 1] \in V /\ h[Back(N)[n]] = h[n - 1]
      BY <1>5, <1>6, <1>9, Zenon
    <3>2. h[n] = IF n \in {0} THEN start[n] ELSE g[<<h[Back(N)[n]], n>>]
      BY <2>1, Zenon
    <3>3. n # 0 => g[<<h[Back(N)[n]], n>>] = step(h[n - 1], n)
      BY <3>1, <1>3, Zenon
    <3> QED BY <3>2, <3>3, <1>4, Zenon
  <2>3. h = [n \in 0 .. N |-> h[n]]
    BY <2>1, Zenon
  <2> QED BY <2>2, <2>3, Zenon
<1>11. after = [n \in 0 .. N |-> IF n = 0 THEN first ELSE step(after[n - 1], n)]
  BY <1>10, Zenon DEF N
<1> HIDE DEF after
<1>12. \A n \in 0 .. N : after[n] = IF n = 0 THEN first ELSE step(after[n - 1], n)
  BY <1>11, Zenon
<1> DEFINE T == {n \in 0 .. N : after[n] \in F[n]}
<1>13. Passes(0 .. N, {0}, Back(N), T)
  <2> SUFFICES ASSUME NEW n \in 0 .. N, n \in {0} \/ Back(N)[n] \in T PROVE after[n] \in F[n]
    BY Zenon DEF Passes
  <2>1. CASE n = 0
    BY <2>1, <1>2, <1>12, Zenon
  <2>2. CASE n # 0
    <3>1. n \in 1 .. N /\ after[n - 1] \in F[n - 1]
      BY <2>2, <1>6, Zenon
    <3> QED BY <2>2, <3>1, <1>2, <1>12, Zenon
  <2> QED BY <2>1, <2>2, Zenon
<1>14. 0 .. N \subseteq T
  <2> HIDE DEF T
  <2> QED BY <1>7, <1>13, Induct, Zenon
<1>15. N \in 0 .. N
  BY <1>7
<1> QED BY <1>1, <1>14, <1>15, Zenon DEF N

\* The first loop of ActivateBestChainStep.
DisconnectKeeps(F, fork) ==
    /\ [tip |-> tip, pool |-> pool] \in F[0]
    /\ \A n \in 1 .. (Height[tip] - Height[fork]) : \A v \in F[n - 1] : DisconnectTip(v) \in F[n]

\* The loop returns what each of its steps keeps.
LEMMA DisconnectLoop ==
    ASSUME NEW F, NEW fork, (Height[tip] - Height[fork]) \in Nat, DisconnectKeeps(F, fork)
    PROVE  \E v \in F[Height[tip] - Height[fork]] : DisconnectTo(fork) = v.pool
<1> DEFINE N == (Height[tip] - Height[fork])
           step(v, n) == DisconnectTip(v)
           first == [tip |-> tip, pool |-> pool]
           after == CHOOSE h : h = [n \in 0 .. (Height[tip] - Height[fork]) |-> IF n = 0 THEN first ELSE step(h[n - 1], n)]
           V == UNION {F[n] : n \in 0 .. N}
           start == [n \in 0 .. N |-> first]
           g == [vn \in V \X (0 .. N) |-> step(vn[1], vn[2])]
<1>1. DisconnectTo(fork) = after[N].pool
  BY Zenon DEF DisconnectTo
<1>2. first \in F[0] /\ \A n \in 1 .. N : \A v \in F[n - 1] : step(v, n) \in F[n]
  BY Zenon DEF DisconnectKeeps
<1> HIDE DEF step, first, N
<1>3. ASSUME NEW v \in V, NEW n \in 0 .. N PROVE g[<<v, n>>] = step(v, n)
  <2> DEFINE q == <<v, n>>
  <2> HIDE DEF V
  <2>1. q \in V \X (0 .. N) /\ q[1] = v /\ q[2] = n
    BY Pair, Zenon
  <2> HIDE DEF q
  <2>2. g[q] = step(q[1], q[2])
    BY <2>1, Zenon
  <2> QED BY <2>1, <2>2, Zenon DEF q
<1>4. \A n \in 0 .. N : start[n] = first
  BY Zenon
<1>5. \A n \in 0 .. N : \A v \in F[n] : v \in V
  BY Zenon
<1> HIDE DEF start, g, V
<1>6. \A n \in 0 .. N : n \notin {0} => n \in 1 .. N /\ Back(N)[n] = n - 1 /\ n - 1 \in 0 .. N
  BY DEF N, Back
<1>7. Ends(0 .. N, {0}, Back(N), Index(N)) /\ N \in Nat
  BY LoopEnds, Zenon DEF N
<1>8. Keeps(0 .. N, {0}, Back(N), start, g, F)
  <2>1. ASSUME NEW n \in 0 .. N, n \notin {0}, NEW v \in F[Back(N)[n]] PROVE g[<<v, n>>] \in F[n]
    <3>1. v \in F[n - 1] /\ n \in 1 .. N
      BY <2>1, <1>6, Zenon
    <3>2. v \in V
      BY <2>1, <3>1, <1>5, <1>6, Zenon
    <3> QED BY <3>1, <3>2, <1>2, <1>3, Zenon
  <2>2. ASSUME NEW n \in 0 .. N, n \in {0} PROVE start[n] \in F[n]
    BY <2>2, <1>2, <1>4, Zenon
  <2> QED BY <2>1, <2>2, Zenon DEF Keeps
<1>9. PICK h : Solves(h, 0 .. N, {0}, Back(N), start, g) /\ \A n \in 0 .. N : h[n] \in F[n]
  BY <1>7, <1>8, SolvedIn, Zenon
<1>10. h = [n \in 0 .. N |-> IF n = 0 THEN first ELSE step(h[n - 1], n)]
  <2>1. h = [n \in 0 .. N |-> IF n \in {0} THEN start[n] ELSE g[<<h[Back(N)[n]], n>>]]
    BY <1>9, Zenon DEF Solves
  <2>2. ASSUME NEW n \in 0 .. N PROVE h[n] = IF n = 0 THEN first ELSE step(h[n - 1], n)
    <3>1. n # 0 => h[n - 1] \in V /\ h[Back(N)[n]] = h[n - 1]
      BY <1>5, <1>6, <1>9, Zenon
    <3>2. h[n] = IF n \in {0} THEN start[n] ELSE g[<<h[Back(N)[n]], n>>]
      BY <2>1, Zenon
    <3>3. n # 0 => g[<<h[Back(N)[n]], n>>] = step(h[n - 1], n)
      BY <3>1, <1>3, Zenon
    <3> QED BY <3>2, <3>3, <1>4, Zenon
  <2>3. h = [n \in 0 .. N |-> h[n]]
    BY <2>1, Zenon
  <2> QED BY <2>2, <2>3, Zenon
<1>11. after = [n \in 0 .. N |-> IF n = 0 THEN first ELSE step(after[n - 1], n)]
  BY <1>10, Zenon DEF N
<1> HIDE DEF after
<1>12. \A n \in 0 .. N : after[n] = IF n = 0 THEN first ELSE step(after[n - 1], n)
  BY <1>11, Zenon
<1> DEFINE T == {n \in 0 .. N : after[n] \in F[n]}
<1>13. Passes(0 .. N, {0}, Back(N), T)
  <2> SUFFICES ASSUME NEW n \in 0 .. N, n \in {0} \/ Back(N)[n] \in T PROVE after[n] \in F[n]
    BY Zenon DEF Passes
  <2>1. CASE n = 0
    BY <2>1, <1>2, <1>12, Zenon
  <2>2. CASE n # 0
    <3>1. n \in 1 .. N /\ after[n - 1] \in F[n - 1]
      BY <2>2, <1>6, Zenon
    <3> QED BY <2>2, <3>1, <1>2, <1>12, Zenon
  <2> QED BY <2>1, <2>2, Zenon
<1>14. 0 .. N \subseteq T
  <2> HIDE DEF T
  <2> QED BY <1>7, <1>13, Induct, Zenon
<1>15. N \in 0 .. N
  BY <1>7
<1> QED BY <1>1, <1>14, <1>15, Zenon DEF N

\* The loop over the orphans that spend u.
SpendersKeep(F, acc, u) ==
    /\ acc \in F[0]
    /\ \A n \in 1 .. Len(TxOrder) : \A v \in F[n - 1] : (IF TxOrder[n] \in mapOrphanTransactionsByPrev[u] THEN TryOrphan(v, TxOrder[n]) ELSE v) \in F[n]

\* The loop returns what each of its steps keeps.
LEMMA SpendersLoop ==
    ASSUME NEW F, NEW acc, NEW u, Len(TxOrder) \in Nat, SpendersKeep(F, acc, u)
    PROVE  TrySpenders(acc, u) \in F[Len(TxOrder)]
<1> DEFINE N == Len(TxOrder)
           step(v, n) == (IF TxOrder[n] \in mapOrphanTransactionsByPrev[u] THEN TryOrphan(v, TxOrder[n]) ELSE v)
           first == acc
           after == CHOOSE h : h = [n \in 0 .. Len(TxOrder) |-> IF n = 0 THEN first ELSE step(h[n - 1], n)]
           V == UNION {F[n] : n \in 0 .. N}
           start == [n \in 0 .. N |-> first]
           g == [vn \in V \X (0 .. N) |-> step(vn[1], vn[2])]
<1>1. TrySpenders(acc, u) = after[N]
  BY Zenon DEF TrySpenders
<1>2. first \in F[0] /\ \A n \in 1 .. N : \A v \in F[n - 1] : step(v, n) \in F[n]
  BY Zenon DEF SpendersKeep
<1> HIDE DEF step, first, N
<1>3. ASSUME NEW v \in V, NEW n \in 0 .. N PROVE g[<<v, n>>] = step(v, n)
  <2> DEFINE q == <<v, n>>
  <2> HIDE DEF V
  <2>1. q \in V \X (0 .. N) /\ q[1] = v /\ q[2] = n
    BY Pair, Zenon
  <2> HIDE DEF q
  <2>2. g[q] = step(q[1], q[2])
    BY <2>1, Zenon
  <2> QED BY <2>1, <2>2, Zenon DEF q
<1>4. \A n \in 0 .. N : start[n] = first
  BY Zenon
<1>5. \A n \in 0 .. N : \A v \in F[n] : v \in V
  BY Zenon
<1> HIDE DEF start, g, V
<1>6. \A n \in 0 .. N : n \notin {0} => n \in 1 .. N /\ Back(N)[n] = n - 1 /\ n - 1 \in 0 .. N
  BY DEF N, Back
<1>7. Ends(0 .. N, {0}, Back(N), Index(N)) /\ N \in Nat
  BY LoopEnds, Zenon DEF N
<1>8. Keeps(0 .. N, {0}, Back(N), start, g, F)
  <2>1. ASSUME NEW n \in 0 .. N, n \notin {0}, NEW v \in F[Back(N)[n]] PROVE g[<<v, n>>] \in F[n]
    <3>1. v \in F[n - 1] /\ n \in 1 .. N
      BY <2>1, <1>6, Zenon
    <3>2. v \in V
      BY <2>1, <3>1, <1>5, <1>6, Zenon
    <3> QED BY <3>1, <3>2, <1>2, <1>3, Zenon
  <2>2. ASSUME NEW n \in 0 .. N, n \in {0} PROVE start[n] \in F[n]
    BY <2>2, <1>2, <1>4, Zenon
  <2> QED BY <2>1, <2>2, Zenon DEF Keeps
<1>9. PICK h : Solves(h, 0 .. N, {0}, Back(N), start, g) /\ \A n \in 0 .. N : h[n] \in F[n]
  BY <1>7, <1>8, SolvedIn, Zenon
<1>10. h = [n \in 0 .. N |-> IF n = 0 THEN first ELSE step(h[n - 1], n)]
  <2>1. h = [n \in 0 .. N |-> IF n \in {0} THEN start[n] ELSE g[<<h[Back(N)[n]], n>>]]
    BY <1>9, Zenon DEF Solves
  <2>2. ASSUME NEW n \in 0 .. N PROVE h[n] = IF n = 0 THEN first ELSE step(h[n - 1], n)
    <3>1. n # 0 => h[n - 1] \in V /\ h[Back(N)[n]] = h[n - 1]
      BY <1>5, <1>6, <1>9, Zenon
    <3>2. h[n] = IF n \in {0} THEN start[n] ELSE g[<<h[Back(N)[n]], n>>]
      BY <2>1, Zenon
    <3>3. n # 0 => g[<<h[Back(N)[n]], n>>] = step(h[n - 1], n)
      BY <3>1, <1>3, Zenon
    <3> QED BY <3>2, <3>3, <1>4, Zenon
  <2>3. h = [n \in 0 .. N |-> h[n]]
    BY <2>1, Zenon
  <2> QED BY <2>2, <2>3, Zenon
<1>11. after = [n \in 0 .. N |-> IF n = 0 THEN first ELSE step(after[n - 1], n)]
  BY <1>10, Zenon DEF N
<1> HIDE DEF after
<1>12. \A n \in 0 .. N : after[n] = IF n = 0 THEN first ELSE step(after[n - 1], n)
  BY <1>11, Zenon
<1> DEFINE T == {n \in 0 .. N : after[n] \in F[n]}
<1>13. Passes(0 .. N, {0}, Back(N), T)
  <2> SUFFICES ASSUME NEW n \in 0 .. N, n \in {0} \/ Back(N)[n] \in T PROVE after[n] \in F[n]
    BY Zenon DEF Passes
  <2>1. CASE n = 0
    BY <2>1, <1>2, <1>12, Zenon
  <2>2. CASE n # 0
    <3>1. n \in 1 .. N /\ after[n - 1] \in F[n - 1]
      BY <2>2, <1>6, Zenon
    <3> QED BY <2>2, <3>1, <1>2, <1>12, Zenon
  <2> QED BY <2>1, <2>2, Zenon
<1>14. 0 .. N \subseteq T
  <2> HIDE DEF T
  <2> QED BY <1>7, <1>13, Induct, Zenon
<1>15. N \in 0 .. N
  BY <1>7
<1> QED BY <1>1, <1>14, <1>15, Zenon DEF N

\* The loop over vWorkQueue.
OrphansKeep(F, acc) ==
    /\ acc \in F[0]
    /\ \A n \in 1 .. Len(TxOrder) : \A v \in F[n - 1] : (IF n <= Len(v.vWorkQueue) THEN TrySpenders(v, v.vWorkQueue[n]) ELSE v) \in F[n]

\* The loop returns what each of its steps keeps.
LEMMA OrphansLoop ==
    ASSUME NEW F, NEW acc, Len(TxOrder) \in Nat, OrphansKeep(F, acc)
    PROVE  ProcessOrphans(acc) \in F[Len(TxOrder)]
<1> DEFINE N == Len(TxOrder)
           step(v, n) == (IF n <= Len(v.vWorkQueue) THEN TrySpenders(v, v.vWorkQueue[n]) ELSE v)
           first == acc
           after == CHOOSE h : h = [n \in 0 .. Len(TxOrder) |-> IF n = 0 THEN first ELSE step(h[n - 1], n)]
           V == UNION {F[n] : n \in 0 .. N}
           start == [n \in 0 .. N |-> first]
           g == [vn \in V \X (0 .. N) |-> step(vn[1], vn[2])]
<1>1. ProcessOrphans(acc) = after[N]
  BY Zenon DEF ProcessOrphans
<1>2. first \in F[0] /\ \A n \in 1 .. N : \A v \in F[n - 1] : step(v, n) \in F[n]
  BY Zenon DEF OrphansKeep
<1> HIDE DEF step, first, N
<1>3. ASSUME NEW v \in V, NEW n \in 0 .. N PROVE g[<<v, n>>] = step(v, n)
  <2> DEFINE q == <<v, n>>
  <2> HIDE DEF V
  <2>1. q \in V \X (0 .. N) /\ q[1] = v /\ q[2] = n
    BY Pair, Zenon
  <2> HIDE DEF q
  <2>2. g[q] = step(q[1], q[2])
    BY <2>1, Zenon
  <2> QED BY <2>1, <2>2, Zenon DEF q
<1>4. \A n \in 0 .. N : start[n] = first
  BY Zenon
<1>5. \A n \in 0 .. N : \A v \in F[n] : v \in V
  BY Zenon
<1> HIDE DEF start, g, V
<1>6. \A n \in 0 .. N : n \notin {0} => n \in 1 .. N /\ Back(N)[n] = n - 1 /\ n - 1 \in 0 .. N
  BY DEF N, Back
<1>7. Ends(0 .. N, {0}, Back(N), Index(N)) /\ N \in Nat
  BY LoopEnds, Zenon DEF N
<1>8. Keeps(0 .. N, {0}, Back(N), start, g, F)
  <2>1. ASSUME NEW n \in 0 .. N, n \notin {0}, NEW v \in F[Back(N)[n]] PROVE g[<<v, n>>] \in F[n]
    <3>1. v \in F[n - 1] /\ n \in 1 .. N
      BY <2>1, <1>6, Zenon
    <3>2. v \in V
      BY <2>1, <3>1, <1>5, <1>6, Zenon
    <3> QED BY <3>1, <3>2, <1>2, <1>3, Zenon
  <2>2. ASSUME NEW n \in 0 .. N, n \in {0} PROVE start[n] \in F[n]
    BY <2>2, <1>2, <1>4, Zenon
  <2> QED BY <2>1, <2>2, Zenon DEF Keeps
<1>9. PICK h : Solves(h, 0 .. N, {0}, Back(N), start, g) /\ \A n \in 0 .. N : h[n] \in F[n]
  BY <1>7, <1>8, SolvedIn, Zenon
<1>10. h = [n \in 0 .. N |-> IF n = 0 THEN first ELSE step(h[n - 1], n)]
  <2>1. h = [n \in 0 .. N |-> IF n \in {0} THEN start[n] ELSE g[<<h[Back(N)[n]], n>>]]
    BY <1>9, Zenon DEF Solves
  <2>2. ASSUME NEW n \in 0 .. N PROVE h[n] = IF n = 0 THEN first ELSE step(h[n - 1], n)
    <3>1. n # 0 => h[n - 1] \in V /\ h[Back(N)[n]] = h[n - 1]
      BY <1>5, <1>6, <1>9, Zenon
    <3>2. h[n] = IF n \in {0} THEN start[n] ELSE g[<<h[Back(N)[n]], n>>]
      BY <2>1, Zenon
    <3>3. n # 0 => g[<<h[Back(N)[n]], n>>] = step(h[n - 1], n)
      BY <3>1, <1>3, Zenon
    <3> QED BY <3>2, <3>3, <1>4, Zenon
  <2>3. h = [n \in 0 .. N |-> h[n]]
    BY <2>1, Zenon
  <2> QED BY <2>2, <2>3, Zenon
<1>11. after = [n \in 0 .. N |-> IF n = 0 THEN first ELSE step(after[n - 1], n)]
  BY <1>10, Zenon DEF N
<1> HIDE DEF after
<1>12. \A n \in 0 .. N : after[n] = IF n = 0 THEN first ELSE step(after[n - 1], n)
  BY <1>11, Zenon
<1> DEFINE T == {n \in 0 .. N : after[n] \in F[n]}
<1>13. Passes(0 .. N, {0}, Back(N), T)
  <2> SUFFICES ASSUME NEW n \in 0 .. N, n \in {0} \/ Back(N)[n] \in T PROVE after[n] \in F[n]
    BY Zenon DEF Passes
  <2>1. CASE n = 0
    BY <2>1, <1>2, <1>12, Zenon
  <2>2. CASE n # 0
    <3>1. n \in 1 .. N /\ after[n - 1] \in F[n - 1]
      BY <2>2, <1>6, Zenon
    <3> QED BY <2>2, <3>1, <1>2, <1>12, Zenon
  <2> QED BY <2>1, <2>2, Zenon
<1>14. 0 .. N \subseteq T
  <2> HIDE DEF T
  <2> QED BY <1>7, <1>13, Induct, Zenon
<1>15. N \in 0 .. N
  BY <1>7
<1> QED BY <1>1, <1>14, <1>15, Zenon DEF N

\* The second loop of ActivateBestChainStep.
ConnectKeeps(F, acc, fork) ==
    /\ \A x \in Blocks : x \in Chain[fork] => acc \in F[x]
    /\ \A x \in Blocks : x \notin Chain[fork] => \A v \in F[Parent[x]] : ConnectTip(v, x) \in F[x]

\* The loop returns what each of its steps keeps.
LEMMA ConnectLoop ==
    ASSUME NEW F, NEW acc, NEW c, NEW fork \in Blocks, ConnectKeeps(F, acc, fork), c \in Blocks
    PROVE  ConnectTo(acc, fork, c) \in F[c]
<1> DEFINE step(v, x) == ConnectTip(v, x)
           first == acc
           after == CHOOSE h : h = [x \in Blocks |-> IF x \in Chain[fork] THEN first ELSE step(h[Parent[x]], x)]
           V == UNION {F[x] : x \in Blocks}
           start == [x \in Blocks |-> first]
           g == [p \in V \X Blocks |-> step(p[1], p[2])]
<1>1. ConnectTo(acc, fork, c) = after[c]
  BY Zenon DEF ConnectTo
<1>2. /\ \A x \in Blocks : x \in Chain[fork] => first \in F[x]
      /\ \A x \in Blocks : x \notin Chain[fork] => \A v \in F[Parent[x]] : step(v, x) \in F[x]
  BY Zenon DEF ConnectKeeps
<1> HIDE DEF step, first
<1>3. ASSUME NEW v \in V, NEW x \in Blocks PROVE g[<<v, x>>] = step(v, x)
  <2> DEFINE q == <<v, x>>
  <2> HIDE DEF V
  <2>1. q \in V \X Blocks /\ q[1] = v /\ q[2] = x
    BY Pair, Zenon
  <2> HIDE DEF q
  <2>2. g[q] = step(q[1], q[2])
    BY <2>1, Zenon
  <2> QED BY <2>1, <2>2, Zenon DEF q
<1>4. \A x \in Blocks : start[x] = first
  BY Zenon
<1>5. \A x \in Blocks : \A v \in F[x] : v \in V
  BY Zenon
<1> HIDE DEF start, g, V
<1>6. \A x \in Blocks : x \notin Chain[fork] => Parent[x] \in Blocks
  BY ChainFacts, ParentFacts, Zenon
<1>7. Ends(Blocks, Chain[fork], Parent, Height)
  BY TreeEnds, ChainFacts, Zenon
<1>8. Keeps(Blocks, Chain[fork], Parent, start, g, F)
  <2>1. ASSUME NEW x \in Blocks, x \notin Chain[fork], NEW v \in F[Parent[x]] PROVE g[<<v, x>>] \in F[x]
    <3>1. v \in V
      BY <2>1, <1>5, <1>6, Zenon
    <3> QED BY <2>1, <3>1, <1>2, <1>3, Zenon
  <2>2. ASSUME NEW x \in Blocks, x \in Chain[fork] PROVE start[x] \in F[x]
    BY <2>2, <1>2, <1>4, Zenon
  <2> QED BY <2>1, <2>2, Zenon DEF Keeps
<1>9. PICK h : Solves(h, Blocks, Chain[fork], Parent, start, g) /\ \A x \in Blocks : h[x] \in F[x]
  BY <1>7, <1>8, SolvedIn, Zenon
<1>10. h = [x \in Blocks |-> IF x \in Chain[fork] THEN first ELSE step(h[Parent[x]], x)]
  <2>1. h = [x \in Blocks |-> IF x \in Chain[fork] THEN start[x] ELSE g[<<h[Parent[x]], x>>]]
    BY <1>9, Zenon DEF Solves
  <2>2. ASSUME NEW x \in Blocks PROVE h[x] = IF x \in Chain[fork] THEN first ELSE step(h[Parent[x]], x)
    <3>1. x \notin Chain[fork] => h[Parent[x]] \in V
      BY <1>5, <1>6, <1>9, Zenon
    <3>2. h[x] = IF x \in Chain[fork] THEN start[x] ELSE g[<<h[Parent[x]], x>>]
      BY <2>1, Zenon
    <3>3. x \notin Chain[fork] => g[<<h[Parent[x]], x>>] = step(h[Parent[x]], x)
      BY <3>1, <1>3, Zenon
    <3> QED BY <3>2, <3>3, <1>4, Zenon
  <2>3. h = [x \in Blocks |-> h[x]]
    BY <2>1, Zenon
  <2> QED BY <2>2, <2>3, Zenon
<1>11. after = [x \in Blocks |-> IF x \in Chain[fork] THEN first ELSE step(after[Parent[x]], x)]
  BY <1>10, Zenon
<1> HIDE DEF after
<1>12. \A x \in Blocks : after[x] = IF x \in Chain[fork] THEN first ELSE step(after[Parent[x]], x)
  BY <1>11, Zenon
<1> DEFINE T == {x \in Blocks : after[x] \in F[x]}
<1>13. Passes(Blocks, Chain[fork], Parent, T)
  <2> SUFFICES ASSUME NEW x \in Blocks, x \in Chain[fork] \/ Parent[x] \in T PROVE after[x] \in F[x]
    BY Zenon DEF Passes
  <2>1. CASE x \in Chain[fork]
    BY <2>1, <1>2, <1>12, Zenon
  <2>2. CASE x \notin Chain[fork]
    <3>1. after[Parent[x]] \in F[Parent[x]]
      BY <2>2, Zenon
    <3> QED BY <2>2, <3>1, <1>2, <1>12, Zenon
  <2> QED BY <2>1, <2>2, Zenon
<1>14. Blocks \subseteq T
  <2> HIDE DEF T
  <2> QED BY <1>7, <1>13, Induct, Zenon
<1> QED BY <1>1, <1>14, Zenon

\* The loop of ThreadNotifyWallets that fills blockStack.
StackKeeps(F, fork) ==
    /\ \A x \in Blocks : x \in Chain[fork] => <<>> \in F[x]
    /\ \A x \in Blocks : x \notin Chain[fork] => \A v \in F[Parent[x]] : Append(v, [block |-> x, conflicted |-> recentlyConflictedTxs[x]]) \in F[x]

\* The loop returns what each of its steps keeps.
LEMMA StackLoop ==
    ASSUME NEW F, tip \in Blocks, NEW fork \in Blocks, StackKeeps(F, fork)
    PROVE  Connected(fork) \in F[tip]
<1> DEFINE step(v, x) == Append(v, [block |-> x, conflicted |-> recentlyConflictedTxs[x]])
           first == <<>>
           after == CHOOSE h : h = [x \in Blocks |-> IF x \in Chain[fork] THEN first ELSE step(h[Parent[x]], x)]
           V == UNION {F[x] : x \in Blocks}
           start == [x \in Blocks |-> first]
           g == [p \in V \X Blocks |-> step(p[1], p[2])]
<1>1. Connected(fork) = after[tip]
  BY Zenon DEF Connected
<1>2. /\ \A x \in Blocks : x \in Chain[fork] => first \in F[x]
      /\ \A x \in Blocks : x \notin Chain[fork] => \A v \in F[Parent[x]] : step(v, x) \in F[x]
  BY Zenon DEF StackKeeps
<1> HIDE DEF step, first
<1>3. ASSUME NEW v \in V, NEW x \in Blocks PROVE g[<<v, x>>] = step(v, x)
  <2> DEFINE q == <<v, x>>
  <2> HIDE DEF V
  <2>1. q \in V \X Blocks /\ q[1] = v /\ q[2] = x
    BY Pair, Zenon
  <2> HIDE DEF q
  <2>2. g[q] = step(q[1], q[2])
    BY <2>1, Zenon
  <2> QED BY <2>1, <2>2, Zenon DEF q
<1>4. \A x \in Blocks : start[x] = first
  BY Zenon
<1>5. \A x \in Blocks : \A v \in F[x] : v \in V
  BY Zenon
<1> HIDE DEF start, g, V
<1>6. \A x \in Blocks : x \notin Chain[fork] => Parent[x] \in Blocks
  BY ChainFacts, ParentFacts, Zenon
<1>7. Ends(Blocks, Chain[fork], Parent, Height)
  BY TreeEnds, ChainFacts, Zenon
<1>8. Keeps(Blocks, Chain[fork], Parent, start, g, F)
  <2>1. ASSUME NEW x \in Blocks, x \notin Chain[fork], NEW v \in F[Parent[x]] PROVE g[<<v, x>>] \in F[x]
    <3>1. v \in V
      BY <2>1, <1>5, <1>6, Zenon
    <3> QED BY <2>1, <3>1, <1>2, <1>3, Zenon
  <2>2. ASSUME NEW x \in Blocks, x \in Chain[fork] PROVE start[x] \in F[x]
    BY <2>2, <1>2, <1>4, Zenon
  <2> QED BY <2>1, <2>2, Zenon DEF Keeps
<1>9. PICK h : Solves(h, Blocks, Chain[fork], Parent, start, g) /\ \A x \in Blocks : h[x] \in F[x]
  BY <1>7, <1>8, SolvedIn, Zenon
<1>10. h = [x \in Blocks |-> IF x \in Chain[fork] THEN first ELSE step(h[Parent[x]], x)]
  <2>1. h = [x \in Blocks |-> IF x \in Chain[fork] THEN start[x] ELSE g[<<h[Parent[x]], x>>]]
    BY <1>9, Zenon DEF Solves
  <2>2. ASSUME NEW x \in Blocks PROVE h[x] = IF x \in Chain[fork] THEN first ELSE step(h[Parent[x]], x)
    <3>1. x \notin Chain[fork] => h[Parent[x]] \in V
      BY <1>5, <1>6, <1>9, Zenon
    <3>2. h[x] = IF x \in Chain[fork] THEN start[x] ELSE g[<<h[Parent[x]], x>>]
      BY <2>1, Zenon
    <3>3. x \notin Chain[fork] => g[<<h[Parent[x]], x>>] = step(h[Parent[x]], x)
      BY <3>1, <1>3, Zenon
    <3> QED BY <3>2, <3>3, <1>4, Zenon
  <2>3. h = [x \in Blocks |-> h[x]]
    BY <2>1, Zenon
  <2> QED BY <2>2, <2>3, Zenon
<1>11. after = [x \in Blocks |-> IF x \in Chain[fork] THEN first ELSE step(after[Parent[x]], x)]
  BY <1>10, Zenon
<1> HIDE DEF after
<1>12. \A x \in Blocks : after[x] = IF x \in Chain[fork] THEN first ELSE step(after[Parent[x]], x)
  BY <1>11, Zenon
<1> DEFINE T == {x \in Blocks : after[x] \in F[x]}
<1>13. Passes(Blocks, Chain[fork], Parent, T)
  <2> SUFFICES ASSUME NEW x \in Blocks, x \in Chain[fork] \/ Parent[x] \in T PROVE after[x] \in F[x]
    BY Zenon DEF Passes
  <2>1. CASE x \in Chain[fork]
    BY <2>1, <1>2, <1>12, Zenon
  <2>2. CASE x \notin Chain[fork]
    <3>1. after[Parent[x]] \in F[Parent[x]]
      BY <2>2, Zenon
    <3> QED BY <2>2, <3>1, <1>2, <1>12, Zenon
  <2> QED BY <2>1, <2>2, Zenon
<1>14. Blocks \subseteq T
  <2> HIDE DEF T
  <2> QED BY <1>7, <1>13, Induct, Zenon
<1> QED BY <1>1, <1>14, Zenon

-----------------------------------------------------------------------------
(* The maps of the pool *)

\* A pool that notifies of its own transactions only.
SoundPools == {p \in Pools : p.mapRecentlyAddedTx \subseteq p.mapTx}

\* The fields of a pool.
LEMMA PoolFields ==
    ASSUME NEW p
    PROVE  p \in SoundPools <=>
               /\ p = [mapTx |-> p.mapTx, mapNextTx |-> p.mapNextTx, mapSaplingNullifiers |-> p.mapSaplingNullifiers,
                       mapRecentlyAddedTx |-> p.mapRecentlyAddedTx]
               /\ p.mapTx \subseteq Txs
               /\ p.mapNextTx \in [OutPoints -> Txs \cup {NoTx}]
               /\ p.mapSaplingNullifiers \in [Nullifiers -> Txs \cup {NoTx}]
               /\ p.mapRecentlyAddedTx \subseteq p.mapTx
<1>1. p \in Pools <=>
               /\ p = [mapTx |-> p.mapTx, mapNextTx |-> p.mapNextTx, mapSaplingNullifiers |-> p.mapSaplingNullifiers,
                       mapRecentlyAddedTx |-> p.mapRecentlyAddedTx]
               /\ p.mapTx \in SUBSET Txs
               /\ p.mapNextTx \in [OutPoints -> Txs \cup {NoTx}]
               /\ p.mapSaplingNullifiers \in [Nullifiers -> Txs \cup {NoTx}]
               /\ p.mapRecentlyAddedTx \in SUBSET Txs
  BY DEF Pools
<1> QED BY <1>1 DEF SoundPools

\* The pool at the start.
LEMMA EmptySound == EmptyPool \in SoundPools
<1>1. [o \in OutPoints |-> NoTx] \in [OutPoints -> Txs \cup {NoTx}]
      /\ [n \in Nullifiers |-> NoTx] \in [Nullifiers -> Txs \cup {NoTx}]
  OBVIOUS
<1>2. /\ EmptyPool.mapTx = {} /\ EmptyPool.mapRecentlyAddedTx = {}
      /\ EmptyPool.mapNextTx = [o \in OutPoints |-> NoTx]
      /\ EmptyPool.mapSaplingNullifiers = [n \in Nullifiers |-> NoTx]
      /\ EmptyPool = [mapTx |-> EmptyPool.mapTx, mapNextTx |-> EmptyPool.mapNextTx,
                      mapSaplingNullifiers |-> EmptyPool.mapSaplingNullifiers,
                      mapRecentlyAddedTx |-> EmptyPool.mapRecentlyAddedTx]
  BY Zenon DEF EmptyPool
<1> QED BY <1>1, <1>2, PoolFields, Zenon

\* addUnchecked enters a transaction in all the maps.
LEMMA AddSound ==
    ASSUME NEW p \in SoundPools, NEW t \in Txs
    PROVE  addUnchecked(p, t) \in SoundPools
<1> DEFINE next == [o \in OutPoints |-> IF o \in Ins[t] THEN t ELSE p.mapNextTx[o]]
           null == [n \in Nullifiers |-> IF n \in Nullifier[t] THEN t ELSE p.mapSaplingNullifiers[n]]
           q == addUnchecked(p, t)
<1>0. /\ p.mapTx \subseteq Txs
      /\ p.mapNextTx \in [OutPoints -> Txs \cup {NoTx}]
      /\ p.mapSaplingNullifiers \in [Nullifiers -> Txs \cup {NoTx}]
      /\ p.mapRecentlyAddedTx \subseteq p.mapTx
  BY PoolFields, Zenon
<1>1. next \in [OutPoints -> Txs \cup {NoTx}]
  BY <1>0
<1>2. null \in [Nullifiers -> Txs \cup {NoTx}]
  BY <1>0
<1>3. /\ q.mapTx = p.mapTx \cup {t} /\ q.mapNextTx = next /\ q.mapSaplingNullifiers = null
      /\ q.mapRecentlyAddedTx = p.mapRecentlyAddedTx \cup {t}
      /\ q = [mapTx |-> q.mapTx, mapNextTx |-> q.mapNextTx, mapSaplingNullifiers |-> q.mapSaplingNullifiers,
              mapRecentlyAddedTx |-> q.mapRecentlyAddedTx]
  BY Zenon DEF addUnchecked
<1> HIDE DEF q, next, null
<1>4. q.mapTx \subseteq Txs /\ q.mapRecentlyAddedTx \subseteq q.mapTx
  BY <1>0, <1>3
<1>5. q \in SoundPools
  BY <1>1, <1>2, <1>3, <1>4, PoolFields, Zenon
<1> QED BY <1>5, Zenon DEF q

\* remove takes transactions out of all the maps.
LEMMA WithoutSound ==
    ASSUME NEW p \in SoundPools, NEW gone
    PROVE  Without(p, gone) \in SoundPools
<1> DEFINE next == [o \in OutPoints |-> IF \E t \in gone : o \in Ins[t] THEN NoTx ELSE p.mapNextTx[o]]
           null == [n \in Nullifiers |-> IF \E t \in gone : n \in Nullifier[t] THEN NoTx
                                          ELSE p.mapSaplingNullifiers[n]]
           q == Without(p, gone)
<1>0. /\ p.mapTx \subseteq Txs
      /\ p.mapNextTx \in [OutPoints -> Txs \cup {NoTx}]
      /\ p.mapSaplingNullifiers \in [Nullifiers -> Txs \cup {NoTx}]
      /\ p.mapRecentlyAddedTx \subseteq p.mapTx
  BY PoolFields, Zenon
<1>1. next \in [OutPoints -> Txs \cup {NoTx}]
  BY <1>0
<1>2. null \in [Nullifiers -> Txs \cup {NoTx}]
  BY <1>0
<1>3. /\ q.mapTx = p.mapTx \ gone /\ q.mapNextTx = next /\ q.mapSaplingNullifiers = null
      /\ q.mapRecentlyAddedTx = p.mapRecentlyAddedTx \ gone
      /\ q = [mapTx |-> q.mapTx, mapNextTx |-> q.mapNextTx, mapSaplingNullifiers |-> q.mapSaplingNullifiers,
              mapRecentlyAddedTx |-> q.mapRecentlyAddedTx]
  BY Zenon DEF Without
<1> HIDE DEF q, next, null
<1>4. q.mapTx \subseteq Txs /\ q.mapRecentlyAddedTx \subseteq q.mapTx
  BY <1>0, <1>3
<1>5. q \in SoundPools
  BY <1>1, <1>2, <1>3, <1>4, PoolFields, Zenon
<1> QED BY <1>5, Zenon DEF q

\* All the removals are removals by remove.
LEMMA RemovalsSound ==
    ASSUME NEW p \in SoundPools
    PROVE  /\ \A t, f : remove(p, t, f) \in SoundPools
           /\ \A ts : RemoveAll(p, ts) \in SoundPools
           /\ \A t : removeConflicts(p, t) \in SoundPools
           /\ \A b : removeForReorg(p, b) \in SoundPools
           /\ \A r : removeWithAnchor(p, r) \in SoundPools
           /\ \A id : removeWithoutBranchId(p, id) \in SoundPools
<1>1. \A t, f : remove(p, t, f) \in SoundPools
  BY WithoutSound, Zenon DEF remove
<1>2. \A ts : RemoveAll(p, ts) \in SoundPools
  BY WithoutSound, Zenon DEF RemoveAll
<1>3. \A t : removeConflicts(p, t) \in SoundPools
  BY <1>2, Zenon DEF removeConflicts
<1>4. \A b : removeForReorg(p, b) \in SoundPools
  BY <1>2, Zenon DEF removeForReorg
<1>5. \A r : removeWithAnchor(p, r) \in SoundPools
  BY <1>2, Zenon DEF removeWithAnchor
<1>6. \A id : removeWithoutBranchId(p, id) \in SoundPools
  BY <1>2, Zenon DEF removeWithoutBranchId
<1> QED BY <1>1, <1>2, <1>3, <1>4, <1>5, <1>6, Zenon

\* The transactions of a block.
LEMMA VtxFacts ==
    ASSUME NEW b \in Blocks
    PROVE  Vtx[b] \in Seq(Txs) /\ Len(Vtx[b]) \in Nat /\ \A n \in 1 .. Len(Vtx[b]) : Vtx[b][n] \in Txs
<1>1. Vtx[b] \in Seq(Txs)
  BY TxMemPoolAssumption, Zenon DEF TxMemPoolAssumption
<1> QED BY <1>1

\* All the transactions.
LEMMA OrderFacts == Len(TxOrder) \in Nat /\ \A n \in 1 .. Len(TxOrder) : TxOrder[n] \in Txs
<1>1. TxOrder \in Seq(Txs)
  BY TxMemPoolAssumption, Zenon DEF TxMemPoolAssumption
<1> QED BY <1>1

-----------------------------------------------------------------------------
(* The pool and the chain *)

\* What check asserts of the pool p when the chain has the transactions T and
\* the anchors A, and that no transaction is in both.
Good(p, T, A) ==
    /\ \A t \in p.mapTx : \A o \in Ins[t] :
           /\ p.mapNextTx[o] = t
           /\ IF o[1] \in p.mapTx THEN o \in OutputsOf(o[1]) ELSE o \in Spendable(T)
    /\ \A t \in p.mapTx : \A n \in Nullifier[t] : p.mapSaplingNullifiers[n] = t /\ n \notin Revealed(T)
    /\ \A t \in p.mapTx : Nullifier[t] # {} => Anchor[t] \in A
    /\ \A o \in OutPoints : p.mapNextTx[o] # NoTx => p.mapNextTx[o] \in p.mapTx /\ o \in Ins[p.mapNextTx[o]]
    /\ \A n \in Nullifiers : p.mapSaplingNullifiers[n] # NoTx =>
           p.mapSaplingNullifiers[n] \in p.mapTx /\ n \in Nullifier[p.mapSaplingNullifiers[n]]
    /\ p.mapTx \cap T = {}

\* The transactions of the pool that the thread has collected.
Settled(p) == p.mapTx \ p.mapRecentlyAddedTx

\* What a transaction has.
LEMMA TxFacts ==
    ASSUME NEW t \in Txs
    PROVE  /\ Ins[t] \subseteq OutPoints /\ Nullifier[t] \subseteq Nullifiers /\ t # NoTx
           /\ OutputsOf(t) \subseteq OutPoints
           /\ \A o \in OutputsOf(t) : o[1] = t
<1>1. Ins[t] \subseteq OutPoints /\ Nullifier[t] \subseteq Nullifiers /\ t # NoTx /\ Outs[t] \in 1 .. 2
  BY TxMemPoolAssumption, Zenon DEF TxMemPoolAssumption
<1>2. \A n \in 0 .. (Outs[t] - 1) : n \in 0 .. 1
  BY <1>1
<1>3. OutputsOf(t) \subseteq OutPoints
  <2>1. \A n \in 0 .. (Outs[t] - 1) : <<t, n>> \in OutPoints
    BY <1>2 DEF OutPoints
  <2> QED BY <2>1, Zenon DEF OutputsOf
<1>4. \A o \in OutputsOf(t) : o[1] = t
  BY DEF OutputsOf
<1> QED BY <1>1, <1>3, <1>4, Zenon

\* What is left to spend.
LEMMA SpendableFacts ==
    ASSUME NEW T \in SUBSET Txs, NEW o
    PROVE  o \in Spendable(T) <=> o[1] \in T /\ o \in OutputsOf(o[1]) /\ \A t \in T : o \notin Ins[t]
<1>1. o \in Spendable(T) <=> (\E t \in T : o \in OutputsOf(t)) /\ ~\E t \in T : o \in Ins[t]
  BY Zenon DEF Spendable
<1>2. \A t \in T : o \in OutputsOf(t) => o[1] = t
  BY TxFacts, Zenon
<1> QED BY <1>1, <1>2, Zenon

\* The nullifiers of T.
LEMMA RevealedFacts ==
    ASSUME NEW T, NEW n
    PROVE  n \in Revealed(T) <=> \E t \in T : n \in Nullifier[t]
BY Zenon DEF Revealed

\* The worklist of remove has all the descendants.
LEMMA ReachedFacts ==
    ASSUME NEW p, NEW ts
    PROVE  /\ Reached(p, ts) \subseteq p.mapTx
           /\ ts \cap p.mapTx \subseteq Reached(p, ts)
           /\ Family(p, Reached(p, ts))
<1>1. Reached(p, ts) \subseteq p.mapTx /\ ts \cap p.mapTx \subseteq Reached(p, ts)
  BY Zenon DEF Reached
<1>2. ASSUME NEW t \in Reached(p, ts), NEW u \in Spenders(p, t) \cap p.mapTx PROVE u \in Reached(p, ts)
  <2>1. ASSUME NEW S \in SUBSET p.mapTx, ts \cap p.mapTx \subseteq S, Family(p, S) PROVE u \in S
    <3>1. t \in S
      BY <2>1, Zenon DEF Reached
    <3> QED BY <2>1, <3>1, Zenon DEF Family
  <2> QED BY <2>1, Zenon DEF Reached
<1> QED BY <1>1, <1>2, Zenon DEF Family

\* The maps without the transactions gone.
IsWithout(q, p, gone) ==
    /\ q.mapTx = p.mapTx \ gone
    /\ q.mapRecentlyAddedTx = p.mapRecentlyAddedTx \ gone
    /\ \A o \in OutPoints : q.mapNextTx[o] = IF \E t \in gone : o \in Ins[t] THEN NoTx ELSE p.mapNextTx[o]
    /\ \A n \in Nullifiers : q.mapSaplingNullifiers[n] =
           IF \E t \in gone : n \in Nullifier[t] THEN NoTx ELSE p.mapSaplingNullifiers[n]

\* The maps with the transaction t.
IsWith(q, p, t) ==
    /\ q.mapTx = p.mapTx \cup {t}
    /\ q.mapRecentlyAddedTx = p.mapRecentlyAddedTx \cup {t}
    /\ \A o \in OutPoints : q.mapNextTx[o] = IF o \in Ins[t] THEN t ELSE p.mapNextTx[o]
    /\ \A n \in Nullifiers : q.mapSaplingNullifiers[n] =
           IF n \in Nullifier[t] THEN t ELSE p.mapSaplingNullifiers[n]

\* remove takes transactions out.
LEMMA WithoutFields ==
    ASSUME NEW p, NEW gone
    PROVE  IsWithout(Without(p, gone), p, gone)
BY Zenon DEF Without, IsWithout

\* addUnchecked puts one in.
LEMMA AddFields ==
    ASSUME NEW p, NEW t
    PROVE  IsWith(addUnchecked(p, t), p, t)
BY Zenon DEF addUnchecked, IsWith

\* A transaction of a good pool is the only one of it to spend what it spends.
LEMMA SpentOnce ==
    ASSUME NEW p, NEW T, NEW A, Good(p, T, A), NEW t \in p.mapTx, NEW u \in p.mapTx
    PROVE  /\ \A o \in Ins[t] : o \in Ins[u] => t = u
           /\ \A n \in Nullifier[t] : n \in Nullifier[u] => t = u
<1>1. \A o \in Ins[t] : p.mapNextTx[o] = t
  BY Zenon DEF Good
<1>2. \A o \in Ins[u] : p.mapNextTx[o] = u
  BY Zenon DEF Good
<1>3. \A n \in Nullifier[t] : p.mapSaplingNullifiers[n] = t
  BY Zenon DEF Good
<1>4. \A n \in Nullifier[u] : p.mapSaplingNullifiers[n] = u
  BY Zenon DEF Good
<1>5. ASSUME NEW o \in Ins[t], o \in Ins[u] PROVE t = u
  <2>1. p.mapNextTx[o] = t /\ p.mapNextTx[o] = u
    BY <1>1, <1>2, <1>5, Zenon
  <2> QED BY <2>1, Zenon
<1>6. ASSUME NEW n \in Nullifier[t], n \in Nullifier[u] PROVE t = u
  <2>1. p.mapSaplingNullifiers[n] = t /\ p.mapSaplingNullifiers[n] = u
    BY <1>3, <1>4, <1>6, Zenon
  <2> QED BY <2>1, Zenon
<1> QED BY <1>5, <1>6, Zenon

\* A pool stays good without a family of its transactions.
LEMMA FamilyGood ==
    ASSUME NEW p \in SoundPools, NEW T, NEW A, Good(p, T, A), NEW S \in SUBSET p.mapTx, Family(p, S)
    PROVE  Good(Without(p, S), T, A) /\ Settled(Without(p, S)) \subseteq Settled(p)
<1> DEFINE q == Without(p, S)
<1>0. p.mapTx \subseteq Txs
  BY PoolFields, Zenon
<1>1. /\ q.mapTx = p.mapTx \ S
      /\ q.mapRecentlyAddedTx = p.mapRecentlyAddedTx \ S
      /\ \A o \in OutPoints : q.mapNextTx[o] = IF \E t \in S : o \in Ins[t] THEN NoTx ELSE p.mapNextTx[o]
      /\ \A n \in Nullifiers : q.mapSaplingNullifiers[n] =
             IF \E t \in S : n \in Nullifier[t] THEN NoTx ELSE p.mapSaplingNullifiers[n]
  <2>1. IsWithout(q, p, S)
    BY WithoutFields, Zenon
  <2> QED BY <2>1, Zenon DEF IsWithout
<1> HIDE DEF q
<1>2. ASSUME NEW t \in q.mapTx
      PROVE  /\ t \in p.mapTx /\ t \notin S /\ t \in Txs
             /\ \A o \in Ins[t] : o \in OutPoints /\ q.mapNextTx[o] = t /\ p.mapNextTx[o] = t
             /\ \A n \in Nullifier[t] : n \in Nullifiers /\ q.mapSaplingNullifiers[n] = t
  <2>1. t \in p.mapTx /\ t \notin S /\ t \in Txs
    BY <1>0, <1>1, Zenon
  <2>2. ASSUME NEW o \in Ins[t] PROVE o \in OutPoints /\ q.mapNextTx[o] = t /\ p.mapNextTx[o] = t
    <3>1. o \in OutPoints
      BY <2>1, TxFacts, Zenon
    <3>2. p.mapNextTx[o] = t
      BY <2>1, Zenon DEF Good
    <3>3. ASSUME NEW u \in S, o \in Ins[u] PROVE FALSE
      <4>1. u \in p.mapTx
        OBVIOUS
      <4>2. t = u
        BY <2>1, <3>3, <4>1, SpentOnce, Zenon
      <4> QED BY <2>1, <4>2, Zenon
    <3> QED BY <3>1, <3>2, <3>3, <1>1, Zenon
  <2>3. ASSUME NEW n \in Nullifier[t] PROVE n \in Nullifiers /\ q.mapSaplingNullifiers[n] = t
    <3>1. n \in Nullifiers
      BY <2>1, TxFacts, Zenon
    <3>2. p.mapSaplingNullifiers[n] = t
      BY <2>1, Zenon DEF Good
    <3>3. ASSUME NEW u \in S, n \in Nullifier[u] PROVE FALSE
      <4>1. u \in p.mapTx
        OBVIOUS
      <4>2. t = u
        BY <2>1, <3>3, <4>1, SpentOnce, Zenon
      <4> QED BY <2>1, <4>2, Zenon
    <3> QED BY <3>1, <3>2, <3>3, <1>1, Zenon
  <2> QED BY <2>1, <2>2, <2>3, Zenon
<1>3. ASSUME NEW t \in q.mapTx, NEW o \in Ins[t]
      PROVE  IF o[1] \in q.mapTx THEN o \in OutputsOf(o[1]) ELSE o \in Spendable(T)
  <2>1. IF o[1] \in p.mapTx THEN o \in OutputsOf(o[1]) ELSE o \in Spendable(T)
    BY <1>2, Zenon DEF Good
  <2>2. ASSUME o[1] \in S PROVE FALSE
    <3>1. o \in OutputsOf(o[1])
      BY <2>1, <2>2, Zenon
    <3>2. t \in Spenders(p, o[1]) \cap p.mapTx
      <4>1. p.mapNextTx[o] = t /\ t # NoTx /\ t \in p.mapTx
        BY <1>2, TxFacts, Zenon
      <4> QED BY <3>1, <4>1, Zenon DEF Spenders
    <3>3. t \in S
      BY <2>2, <3>2, Zenon DEF Family
    <3> QED BY <3>3, <1>2, Zenon
  <2> QED BY <2>1, <2>2, <1>1, Zenon
<1>4. \A t \in q.mapTx : \A n \in Nullifier[t] : n \notin Revealed(T)
  BY <1>2, Zenon DEF Good
<1>5. \A t \in q.mapTx : Nullifier[t] # {} => Anchor[t] \in A
  BY <1>2, Zenon DEF Good
<1>6. ASSUME NEW o \in OutPoints, q.mapNextTx[o] # NoTx
      PROVE  q.mapNextTx[o] \in q.mapTx /\ o \in Ins[q.mapNextTx[o]]
  <2>1. q.mapNextTx[o] = p.mapNextTx[o] /\ ~\E t \in S : o \in Ins[t]
    BY <1>1, <1>6, Zenon
  <2>2. p.mapNextTx[o] \in p.mapTx /\ o \in Ins[p.mapNextTx[o]]
    BY <2>1, <1>6, Zenon DEF Good
  <2> QED BY <2>1, <2>2, <1>1, Zenon
<1>7. ASSUME NEW n \in Nullifiers, q.mapSaplingNullifiers[n] # NoTx
      PROVE  q.mapSaplingNullifiers[n] \in q.mapTx /\ n \in Nullifier[q.mapSaplingNullifiers[n]]
  <2>1. q.mapSaplingNullifiers[n] = p.mapSaplingNullifiers[n] /\ ~\E t \in S : n \in Nullifier[t]
    BY <1>1, <1>7, Zenon
  <2>2. p.mapSaplingNullifiers[n] \in p.mapTx /\ n \in Nullifier[p.mapSaplingNullifiers[n]]
    BY <2>1, <1>7, Zenon DEF Good
  <2> QED BY <2>1, <2>2, <1>1, Zenon
<1>8. q.mapTx \cap T = {}
  BY <1>1 DEF Good
<1>9. Good(q, T, A)
  BY <1>2, <1>3, <1>4, <1>5, <1>6, <1>7, <1>8, Zenon DEF Good
<1>10. Settled(q) \subseteq Settled(p)
  BY <1>1 DEF Settled
<1> QED BY <1>9, <1>10, Zenon DEF q

\* What spends nothing but outputs of its own members.
Closed(T) == \A t \in T : \A o \in Ins[t] : o[1] \in T

\* t is valid on top of T.
Fits(T, t) == t \notin T /\ Ins[t] \subseteq Spendable(T) /\ Nullifier[t] \cap Revealed(T) = {}

\* removeForBlock, for a transaction that is valid on the chain T: the pool is
\* good for the chain with that transaction.
LEMMA MinedGood ==
    ASSUME NEW p \in SoundPools, NEW T \in SUBSET Txs, NEW A, Good(p, T, A),
           NEW t \in Txs, Fits(T, t), Closed(T),
           NEW q, q = removeConflicts(remove(p, t, FALSE), t)
    PROVE  Good(q, T \cup {t}, A) /\ q.mapTx \subseteq p.mapTx /\ Settled(q) \subseteq Settled(p)
<1> DEFINE one == {t} \cap p.mapTx
           r == Without(p, one)
           S == Reached(r, Conflicting(r, t))
<1>0. p.mapTx \subseteq Txs
  BY PoolFields, Zenon
<1>1. remove(p, t, FALSE) = r
  BY Zenon DEF remove, Removed
<1>2. q = Without(r, S)
  BY <1>1, Zenon DEF removeConflicts, RemoveAll
<1>3. IsWithout(r, p, one)
  BY WithoutFields, Zenon
<1> HIDE DEF r
<1>4. S \subseteq r.mapTx /\ Conflicting(r, t) \cap r.mapTx \subseteq S /\ Family(r, S)
  BY ReachedFacts, Zenon
<1> HIDE DEF S
<1>5. IsWithout(q, r, S)
  BY <1>2, WithoutFields, Zenon
<1>6. /\ \A o \in OutPoints : r.mapNextTx[o] = IF \E u \in one : o \in Ins[u] THEN NoTx ELSE p.mapNextTx[o]
      /\ \A n \in Nullifiers : r.mapSaplingNullifiers[n] =
             IF \E u \in one : n \in Nullifier[u] THEN NoTx ELSE p.mapSaplingNullifiers[n]
      /\ r.mapTx = p.mapTx \ one /\ r.mapRecentlyAddedTx = p.mapRecentlyAddedTx \ one
  BY <1>3, Zenon DEF IsWithout
<1>7. /\ \A o \in OutPoints : q.mapNextTx[o] = IF \E u \in S : o \in Ins[u] THEN NoTx ELSE r.mapNextTx[o]
      /\ \A n \in Nullifiers : q.mapSaplingNullifiers[n] =
             IF \E u \in S : n \in Nullifier[u] THEN NoTx ELSE r.mapSaplingNullifiers[n]
      /\ q.mapTx = r.mapTx \ S /\ q.mapRecentlyAddedTx = r.mapRecentlyAddedTx \ S
  BY <1>5, Zenon DEF IsWithout
<1>8. /\ q.mapTx \subseteq p.mapTx /\ Settled(q) \subseteq Settled(p)
      /\ S \subseteq p.mapTx /\ one \subseteq p.mapTx /\ t \notin q.mapTx
      /\ \A u \in p.mapTx : u \notin q.mapTx => u = t \/ u \in S
      /\ \A u \in q.mapTx : u # t /\ u \notin S /\ u \notin one /\ u \in r.mapTx
  BY <1>4, <1>6, <1>7, Zenon DEF Settled
<1> HIDE DEF one
<1>9. ASSUME NEW u \in q.mapTx
      PROVE  /\ u \in p.mapTx /\ u \in Txs /\ u \notin S /\ u # t
             /\ \A o \in Ins[u] : /\ o \in OutPoints /\ o \notin Ins[t]
                                  /\ p.mapNextTx[o] = u /\ r.mapNextTx[o] = u /\ q.mapNextTx[o] = u
             /\ \A n \in Nullifier[u] : n \in Nullifiers /\ n \notin Nullifier[t] /\ q.mapSaplingNullifiers[n] = u
  <2>1. u \in p.mapTx /\ u \in Txs /\ u \notin S /\ u # t /\ u \notin one /\ u \in r.mapTx /\ u # NoTx
    BY <1>0, <1>8, TxFacts, Zenon
  <2>2. ASSUME NEW o \in Ins[u]
        PROVE  o \in OutPoints /\ o \notin Ins[t] /\ p.mapNextTx[o] = u /\ r.mapNextTx[o] = u /\ q.mapNextTx[o] = u
    <3>1. o \in OutPoints
      BY <2>1, TxFacts, Zenon
    <3>2. p.mapNextTx[o] = u
      BY <2>1, Zenon DEF Good
    <3>3. ASSUME NEW v \in p.mapTx, o \in Ins[v] PROVE v = u
      BY <2>1, <3>3, SpentOnce, Zenon
    <3>4. r.mapNextTx[o] = u
      BY <3>1, <3>2, <3>3, <2>1, <1>6, <1>8, Zenon
    <3>5. q.mapNextTx[o] = u
      BY <3>1, <3>3, <3>4, <2>1, <1>7, <1>8, Zenon
    <3>6. ASSUME o \in Ins[t] PROVE FALSE
      <4>1. u \in Conflicting(r, t)
        BY <2>1, <3>4, <3>6, Zenon DEF Conflicting
      <4> QED BY <4>1, <2>1, <1>4, Zenon
    <3> QED BY <3>1, <3>2, <3>4, <3>5, <3>6, Zenon
  <2>3. ASSUME NEW n \in Nullifier[u]
        PROVE  n \in Nullifiers /\ n \notin Nullifier[t] /\ q.mapSaplingNullifiers[n] = u
    <3>1. n \in Nullifiers
      BY <2>1, TxFacts, Zenon
    <3>2. p.mapSaplingNullifiers[n] = u
      BY <2>1, Zenon DEF Good
    <3>3. ASSUME NEW v \in p.mapTx, n \in Nullifier[v] PROVE v = u
      BY <2>1, <3>3, SpentOnce, Zenon
    <3>4. r.mapSaplingNullifiers[n] = u
      BY <3>1, <3>2, <3>3, <2>1, <1>6, <1>8, Zenon
    <3>5. q.mapSaplingNullifiers[n] = u
      BY <3>1, <3>3, <3>4, <2>1, <1>7, <1>8, Zenon
    <3>6. ASSUME n \in Nullifier[t] PROVE FALSE
      <4>1. u \in Conflicting(r, t)
        BY <2>1, <3>4, <3>6, Zenon DEF Conflicting
      <4> QED BY <4>1, <2>1, <1>4, Zenon
    <3> QED BY <3>1, <3>5, <3>6, Zenon
  <2> QED BY <2>1, <2>2, <2>3, Zenon
<1>10. T \cup {t} \in SUBSET Txs
  OBVIOUS
<1>11. ASSUME NEW u \in q.mapTx, NEW o \in Ins[u]
       PROVE  IF o[1] \in q.mapTx THEN o \in OutputsOf(o[1]) ELSE o \in Spendable(T \cup {t})
  <2>1. IF o[1] \in p.mapTx THEN o \in OutputsOf(o[1]) ELSE o \in Spendable(T)
    BY <1>9, Zenon DEF Good
  <2>2. ASSUME o[1] \in S PROVE FALSE
    <3>1. o \in OutputsOf(o[1])
      BY <2>1, <2>2, <1>8, Zenon
    <3>2. u \in Spenders(r, o[1]) \cap r.mapTx
      <4>1. r.mapNextTx[o] = u /\ u # NoTx /\ u \in r.mapTx
        BY <1>8, <1>9, TxFacts, Zenon
      <4> QED BY <3>1, <4>1, Zenon DEF Spenders
    <3>3. u \in S
      BY <2>2, <3>2, <1>4, Zenon DEF Family
    <3> QED BY <3>3, <1>9, Zenon
  <2>3. o \notin Ins[t]
    BY <1>9, Zenon
  <2>4. CASE o[1] \in q.mapTx
    BY <2>1, <2>4, <1>8, Zenon
  <2>5. CASE o[1] \notin p.mapTx
    <3>1. o[1] \in T /\ o \in OutputsOf(o[1]) /\ \A v \in T : o \notin Ins[v]
      BY <2>1, <2>5, SpendableFacts, Zenon
    <3>2. o[1] \in T \cup {t} /\ o \in OutputsOf(o[1]) /\ \A v \in T \cup {t} : o \notin Ins[v]
      BY <3>1, <2>3, Zenon
    <3> QED BY <3>2, <1>10, <2>5, <1>8, SpendableFacts, Zenon
  <2>6. CASE o[1] = t /\ t \in p.mapTx
    <3>1. o \in OutputsOf(o[1])
      BY <2>1, <2>6, Zenon
    <3>2. ASSUME NEW v \in T PROVE o \notin Ins[v]
      BY <2>6, Zenon DEF Closed, Fits
    <3>3. o[1] \in T \cup {t} /\ \A v \in T \cup {t} : o \notin Ins[v]
      BY <2>3, <2>6, <3>2, Zenon
    <3>4. o \in Spendable(T \cup {t})
      BY <3>1, <3>3, <1>10, SpendableFacts, Zenon
    <3> QED BY <2>6, <3>4, <1>8, Zenon
  <2> QED BY <2>2, <2>4, <2>5, <2>6, <1>8, Zenon
<1>12. ASSUME NEW u \in q.mapTx, NEW n \in Nullifier[u] PROVE n \notin Revealed(T \cup {t})
  <2>1. n \notin Revealed(T) /\ n \notin Nullifier[t]
    BY <1>9, Zenon DEF Good
  <2> QED BY <2>1, RevealedFacts, Zenon
<1>13. \A u \in q.mapTx : Nullifier[u] # {} => Anchor[u] \in A
  BY <1>9, Zenon DEF Good
<1>14. ASSUME NEW o \in OutPoints, q.mapNextTx[o] # NoTx
       PROVE  q.mapNextTx[o] \in q.mapTx /\ o \in Ins[q.mapNextTx[o]]
  <2>1. q.mapNextTx[o] = p.mapNextTx[o] /\ (~\E u \in S : o \in Ins[u]) /\ ~\E u \in one : o \in Ins[u]
    BY <1>6, <1>7, <1>14, Zenon
  <2>2. p.mapNextTx[o] \in p.mapTx /\ o \in Ins[p.mapNextTx[o]]
    BY <2>1, <1>14, Zenon DEF Good
  <2> QED BY <2>1, <2>2, <1>6, <1>7, Zenon
<1>15. ASSUME NEW n \in Nullifiers, q.mapSaplingNullifiers[n] # NoTx
       PROVE  q.mapSaplingNullifiers[n] \in q.mapTx /\ n \in Nullifier[q.mapSaplingNullifiers[n]]
  <2>1. /\ q.mapSaplingNullifiers[n] = p.mapSaplingNullifiers[n]
        /\ (~\E u \in S : n \in Nullifier[u]) /\ ~\E u \in one : n \in Nullifier[u]
    BY <1>6, <1>7, <1>15, Zenon
  <2>2. p.mapSaplingNullifiers[n] \in p.mapTx /\ n \in Nullifier[p.mapSaplingNullifiers[n]]
    BY <2>1, <1>15, Zenon DEF Good
  <2> QED BY <2>1, <2>2, <1>6, <1>7, Zenon
<1>16. q.mapTx \cap (T \cup {t}) = {}
  <2>1. p.mapTx \cap T = {}
    BY Zenon DEF Good
  <2> QED BY <2>1, <1>8, Zenon
<1>17. Good(q, T \cup {t}, A)
  <2> DEFINE U == T \cup {t}
  <2> HIDE DEF U
  <2>1. /\ \A u \in q.mapTx : \A o \in Ins[u] : IF o[1] \in q.mapTx THEN o \in OutputsOf(o[1]) ELSE o \in Spendable(U)
        /\ \A u \in q.mapTx : \A n \in Nullifier[u] : n \notin Revealed(U)
        /\ q.mapTx \cap U = {}
    BY <1>11, <1>12, <1>16, Zenon DEF U
  <2>2. Good(q, U, A)
    BY <2>1, <1>9, <1>13, <1>14, <1>15, Zenon DEF Good
  <2> QED BY <2>2, Zenon DEF U
<1> QED BY <1>8, <1>17, Zenon

\* What AcceptToMemoryPool has seen of a transaction it accepts.
Accepted(p, t, view, next) ==
    /\ t \notin Coinbases /\ (Ins[t] # {} \/ Nullifier[t] # {})
    /\ IsFinalTx(t, next) /\ Branch[t] = CurrentEpochBranchId(next)
    /\ t \notin p.mapTx
    /\ \A o \in Ins[t] : p.mapNextTx[o] = NoTx
    /\ \A n \in Nullifier[t] : p.mapSaplingNullifiers[n] = NoTx
    /\ \A o \in Ins[t] : IF o[1] \in p.mapTx THEN o \in OutputsOf(o[1]) ELSE o \in Coins[view]
    /\ Nullifier[t] \cap SpentNullifiers(view) = {}
    /\ Nullifier[t] # {} => Anchor[t] \in Anchors(view)

\* The conditions of AcceptToMemoryPool.
LEMMA AcceptFacts ==
    ASSUME NEW p, NEW t, NEW view, NEW next, AcceptToMemoryPool(p, t, view, next) = "accepted"
    PROVE  Accepted(p, t, view, next)
BY DEF AcceptToMemoryPool, Accepted

\* A transaction of the pool's own kind may as well be in the chain.
LEMMA GoodWith ==
    ASSUME NEW p \in SoundPools, NEW T \in SUBSET Txs, NEW A, Good(p, T, A), NEW t \in Txs, t \notin p.mapTx,
           \A o \in Ins[t] : p.mapNextTx[o] = NoTx,
           \A n \in Nullifier[t] : p.mapSaplingNullifiers[n] = NoTx
    PROVE  Good(p, T \cup {t}, A)
<1> DEFINE U == T \cup {t}
<1>0. p.mapTx \subseteq Txs /\ U \in SUBSET Txs
  BY PoolFields, Zenon
<1>1. ASSUME NEW u \in p.mapTx
      PROVE  /\ \A o \in Ins[u] : p.mapNextTx[o] = u /\ o \notin Ins[t]
             /\ \A n \in Nullifier[u] : p.mapSaplingNullifiers[n] = u /\ n \notin Nullifier[t] /\ n \notin Revealed(T)
  <2>1. u # NoTx
    BY <1>0, TxFacts, Zenon
  <2>2. \A o \in Ins[u] : p.mapNextTx[o] = u
    BY Zenon DEF Good
  <2>3. \A n \in Nullifier[u] : p.mapSaplingNullifiers[n] = u /\ n \notin Revealed(T)
    BY Zenon DEF Good
  <2>4. ASSUME NEW o \in Ins[u], o \in Ins[t] PROVE FALSE
    <3>1. p.mapNextTx[o] = u /\ p.mapNextTx[o] = NoTx
      BY <2>2, <2>4, Zenon
    <3> QED BY <2>1, <3>1, Zenon
  <2>5. ASSUME NEW n \in Nullifier[u], n \in Nullifier[t] PROVE FALSE
    <3>1. p.mapSaplingNullifiers[n] = u /\ p.mapSaplingNullifiers[n] = NoTx
      BY <2>3, <2>5, Zenon
    <3> QED BY <2>1, <3>1, Zenon
  <2> QED BY <2>2, <2>3, <2>4, <2>5, Zenon
<1>2. ASSUME NEW u \in p.mapTx, NEW o \in Ins[u]
      PROVE  IF o[1] \in p.mapTx THEN o \in OutputsOf(o[1]) ELSE o \in Spendable(U)
  <2>1. IF o[1] \in p.mapTx THEN o \in OutputsOf(o[1]) ELSE o \in Spendable(T)
    BY Zenon DEF Good
  <2>2. CASE o[1] \notin p.mapTx
    <3>1. o[1] \in T /\ o \in OutputsOf(o[1]) /\ \A v \in T : o \notin Ins[v]
      BY <2>1, <2>2, SpendableFacts, Zenon
    <3>2. o[1] \in U /\ o \in OutputsOf(o[1]) /\ \A v \in U : o \notin Ins[v]
      BY <3>1, <1>1, Zenon
    <3> HIDE DEF U
    <3> QED BY <3>2, <1>0, <2>2, SpendableFacts, Zenon
  <2> QED BY <2>1, <2>2, Zenon
<1>3. ASSUME NEW u \in p.mapTx, NEW n \in Nullifier[u] PROVE n \notin Revealed(U)
  <2>1. n \notin Revealed(T) /\ n \notin Nullifier[t]
    BY <1>1, Zenon
  <2>2. ~\E v \in T : n \in Nullifier[v]
    BY <2>1, RevealedFacts, Zenon
  <2>3. ~\E v \in U : n \in Nullifier[v]
    BY <2>1, <2>2, Zenon
  <2> HIDE DEF U
  <2> QED BY <2>3, RevealedFacts, Zenon
<1>4. p.mapTx \cap U = {}
  <2>1. p.mapTx \cap T = {}
    BY Zenon DEF Good
  <2> QED BY <2>1, Zenon
<1> HIDE DEF U
<1>5. Good(p, U, A)
  BY <1>2, <1>3, <1>4, Zenon DEF Good
<1> QED BY <1>5, Zenon DEF U

\* A transaction may move from the end of the chain to the pool.
LEMMA AddGood ==
    ASSUME NEW p \in SoundPools, NEW T \in SUBSET Txs, NEW A, NEW t \in Txs, t \notin T, Good(p, T \cup {t}, A),
           \A o \in Ins[t] : p.mapNextTx[o] = NoTx,
           \A n \in Nullifier[t] : p.mapSaplingNullifiers[n] = NoTx,
           \A o \in Ins[t] : IF o[1] \in p.mapTx THEN o \in OutputsOf(o[1]) ELSE o \in Spendable(T),
           Nullifier[t] \cap Revealed(T) = {},
           Nullifier[t] # {} => Anchor[t] \in A
    PROVE  Good(addUnchecked(p, t), T, A) /\ Settled(addUnchecked(p, t)) \subseteq Settled(p)
<1> DEFINE U == T \cup {t}
           q == addUnchecked(p, t)
<1>0. p.mapTx \subseteq Txs /\ U \in SUBSET Txs
  BY PoolFields, Zenon
<1>1. IsWith(q, p, t)
  BY AddFields, Zenon
<1> HIDE DEF q
<1>2. /\ q.mapTx = p.mapTx \cup {t} /\ q.mapRecentlyAddedTx = p.mapRecentlyAddedTx \cup {t}
      /\ \A o \in OutPoints : q.mapNextTx[o] = IF o \in Ins[t] THEN t ELSE p.mapNextTx[o]
      /\ \A n \in Nullifiers : q.mapSaplingNullifiers[n] = IF n \in Nullifier[t] THEN t ELSE p.mapSaplingNullifiers[n]
  BY <1>1, Zenon DEF IsWith
<1>3. Good(p, U, A)
  OBVIOUS
<1>4. ASSUME NEW u \in p.mapTx
      PROVE  /\ u \in Txs
             /\ \A o \in Ins[u] : q.mapNextTx[o] = u
             /\ \A n \in Nullifier[u] : q.mapSaplingNullifiers[n] = u /\ n \notin Revealed(U)
  <2>1. u \in Txs /\ u # NoTx /\ Ins[u] \subseteq OutPoints /\ Nullifier[u] \subseteq Nullifiers
    BY <1>0, TxFacts, Zenon
  <2> HIDE DEF U
  <2>2. \A o \in Ins[u] : p.mapNextTx[o] = u
    BY <1>3, Zenon DEF Good
  <2>3. \A n \in Nullifier[u] : p.mapSaplingNullifiers[n] = u /\ n \notin Revealed(U)
    BY <1>3, Zenon DEF Good
  <2>4. ASSUME NEW o \in Ins[u] PROVE q.mapNextTx[o] = u
    <3>1. p.mapNextTx[o] = u /\ o \in OutPoints
      BY <2>1, <2>2, Zenon
    <3>2. o \notin Ins[t]
      BY <2>1, <3>1, Zenon
    <3> QED BY <3>1, <3>2, <1>2, Zenon
  <2>5. ASSUME NEW n \in Nullifier[u] PROVE q.mapSaplingNullifiers[n] = u
    <3>1. p.mapSaplingNullifiers[n] = u /\ n \in Nullifiers
      BY <2>1, <2>3, Zenon
    <3>2. n \notin Nullifier[t]
      BY <2>1, <3>1, Zenon
    <3> QED BY <3>1, <3>2, <1>2, Zenon
  <2> QED BY <2>1, <2>3, <2>4, <2>5, Zenon
<1>5. ASSUME NEW u \in q.mapTx, NEW o \in Ins[u]
      PROVE  q.mapNextTx[o] = u /\ IF o[1] \in q.mapTx THEN o \in OutputsOf(o[1]) ELSE o \in Spendable(T)
  <2>1. CASE u = t
    <3>1. o \in OutPoints
      BY <2>1, TxFacts, Zenon
    <3>2. q.mapNextTx[o] = u
      BY <2>1, <3>1, <1>2, Zenon
    <3>3. IF o[1] \in p.mapTx THEN o \in OutputsOf(o[1]) ELSE o \in Spendable(T)
      BY <2>1, Zenon
    <3>4. o \in Spendable(T) => o[1] \in T
      BY SpendableFacts, Zenon
    <3> QED BY <3>2, <3>3, <3>4, <1>2, Zenon
  <2>2. CASE u \in p.mapTx
    <3>1. IF o[1] \in p.mapTx THEN o \in OutputsOf(o[1]) ELSE o \in Spendable(U)
      <4> HIDE DEF U
      <4> QED BY <2>2, <1>3, Zenon DEF Good
    <3>2. CASE o[1] \in p.mapTx
      BY <3>1, <3>2, <2>2, <1>2, <1>4, Zenon
    <3>3. CASE o[1] \notin p.mapTx
      <4>1. o[1] \in U /\ o \in OutputsOf(o[1]) /\ \A v \in U : o \notin Ins[v]
        <5> HIDE DEF U
        <5> QED BY <3>1, <3>3, <1>0, SpendableFacts, Zenon
      <4>2. CASE o[1] = t
        BY <4>1, <4>2, <2>2, <1>2, <1>4, Zenon
      <4>3. CASE o[1] # t
        <5>1. o[1] \in T /\ o \in OutputsOf(o[1]) /\ \A v \in T : o \notin Ins[v]
          BY <4>1, <4>3, Zenon
        <5>2. o \in Spendable(T) /\ o[1] \notin q.mapTx
          BY <5>1, <4>3, <3>3, <1>2, SpendableFacts, Zenon
        <5> QED BY <5>2, <2>2, <1>4, Zenon
      <4> QED BY <4>2, <4>3, Zenon
    <3> QED BY <3>2, <3>3, Zenon
  <2> QED BY <2>1, <2>2, <1>2, Zenon
<1>6. ASSUME NEW u \in q.mapTx, NEW n \in Nullifier[u]
      PROVE  q.mapSaplingNullifiers[n] = u /\ n \notin Revealed(T)
  <2>1. CASE u = t
    <3>1. n \in Nullifiers
      BY <2>1, TxFacts, Zenon
    <3> QED BY <2>1, <3>1, <1>2, Zenon
  <2>2. CASE u \in p.mapTx
    <3>1. q.mapSaplingNullifiers[n] = u /\ n \notin Revealed(U)
      BY <2>2, <1>4, Zenon
    <3> QED BY <3>1, RevealedFacts, Zenon
  <2> QED BY <2>1, <2>2, <1>2, Zenon
<1> HIDE DEF U
<1>7. ASSUME NEW u \in q.mapTx, Nullifier[u] # {} PROVE Anchor[u] \in A
  <2>1. \A v \in p.mapTx : Nullifier[v] # {} => Anchor[v] \in A
    BY <1>3, Zenon DEF Good
  <2>2. u \in p.mapTx \/ u = t
    BY <1>2, Zenon
  <2> QED BY <1>7, <2>1, <2>2, Zenon
<1>8. ASSUME NEW o \in OutPoints, q.mapNextTx[o] # NoTx
      PROVE  q.mapNextTx[o] \in q.mapTx /\ o \in Ins[q.mapNextTx[o]]
  <2>1. p.mapNextTx[o] # NoTx => p.mapNextTx[o] \in p.mapTx /\ o \in Ins[p.mapNextTx[o]]
    BY <1>3, Zenon DEF Good
  <2> QED BY <1>2, <1>8, <2>1, Zenon
<1>9. ASSUME NEW n \in Nullifiers, q.mapSaplingNullifiers[n] # NoTx
      PROVE  q.mapSaplingNullifiers[n] \in q.mapTx /\ n \in Nullifier[q.mapSaplingNullifiers[n]]
  <2>1. p.mapSaplingNullifiers[n] # NoTx =>
            p.mapSaplingNullifiers[n] \in p.mapTx /\ n \in Nullifier[p.mapSaplingNullifiers[n]]
    BY <1>3, Zenon DEF Good
  <2> QED BY <1>2, <1>9, <2>1, Zenon
<1>10. q.mapTx \cap T = {}
  <2>1. p.mapTx \cap U = {}
    BY <1>3, Zenon DEF Good
  <2> QED BY <2>1, <1>2, Zenon DEF U
<1>11. Good(q, T, A)
  BY <1>5, <1>6, <1>7, <1>8, <1>9, <1>10, Zenon DEF Good
<1>12. Settled(q) \subseteq Settled(p)
  BY <1>2, Zenon DEF Settled
<1> QED BY <1>11, <1>12, Zenon DEF q

\* Or it may go from the chain for good, and what spends it with it.
LEMMA DropGood ==
    ASSUME NEW p \in SoundPools, NEW T \in SUBSET Txs, NEW A, NEW t \in Txs, t \notin T, Good(p, T \cup {t}, A)
    PROVE  Good(remove(p, t, TRUE), T, A) /\ Settled(remove(p, t, TRUE)) \subseteq Settled(p)
<1> DEFINE U == T \cup {t}
           S == Reached(p, Spenders(p, t))
           q == Without(p, S)
<1>0. p.mapTx \subseteq Txs /\ U \in SUBSET Txs /\ t \in U
  BY PoolFields, Zenon
<1>1. Good(p, U, A)
  OBVIOUS
<1>2. t \notin p.mapTx
  BY <1>0, <1>1 DEF Good
<1>3. remove(p, t, TRUE) = q
  BY <1>2, Zenon DEF remove, Removed
<1>4. S \in SUBSET p.mapTx /\ Spenders(p, t) \cap p.mapTx \subseteq S /\ Family(p, S)
  BY ReachedFacts, Zenon
<1> HIDE DEF S
<1>5. q.mapTx = p.mapTx \ S
  BY WithoutFields, Zenon DEF IsWithout
<1>6. Good(q, U, A) /\ Settled(q) \subseteq Settled(p)
  <2> HIDE DEF U
  <2> QED BY <1>1, <1>4, FamilyGood, Zenon
<1> HIDE DEF q
<1>7. ASSUME NEW u \in q.mapTx, NEW o \in Ins[u]
      PROVE  IF o[1] \in q.mapTx THEN o \in OutputsOf(o[1]) ELSE o \in Spendable(T)
  <2>1. IF o[1] \in q.mapTx THEN o \in OutputsOf(o[1]) ELSE o \in Spendable(U)
    <3> HIDE DEF U
    <3> QED BY <1>6, Zenon DEF Good
  <2>2. CASE o[1] \notin q.mapTx
    <3>1. o[1] \in U /\ o \in OutputsOf(o[1]) /\ \A v \in U : o \notin Ins[v]
      <4> HIDE DEF U
      <4> QED BY <2>1, <2>2, <1>0, SpendableFacts, Zenon
    <3>2. ASSUME o[1] = t PROVE FALSE
      <4>1. u \in p.mapTx /\ u \notin S /\ u # NoTx
        BY <1>0, <1>5, TxFacts, Zenon
      <4>2. p.mapNextTx[o] = u
        <5> HIDE DEF U
        <5> QED BY <4>1, <1>1, Zenon DEF Good
      <4>3. u \in Spenders(p, t)
        BY <3>1, <3>2, <4>1, <4>2, Zenon DEF Spenders
      <4> QED BY <4>1, <4>3, <1>4, Zenon
    <3>3. o[1] \in T /\ o \in OutputsOf(o[1]) /\ \A v \in T : o \notin Ins[v]
      BY <3>1, <3>2, Zenon
    <3> QED BY <3>3, <2>2, SpendableFacts, Zenon
  <2> QED BY <2>1, <2>2, Zenon
<1>8. ASSUME NEW u \in q.mapTx, NEW n \in Nullifier[u] PROVE n \notin Revealed(T)
  <2>1. n \notin Revealed(U)
    <3> HIDE DEF U
    <3> QED BY <1>6, Zenon DEF Good
  <2> QED BY <2>1, RevealedFacts, Zenon
<1>9. q.mapTx \cap T = {}
  <2>1. q.mapTx \cap U = {}
    <3> HIDE DEF U
    <3> QED BY <1>6, Zenon DEF Good
  <2> QED BY <2>1, Zenon
<1> HIDE DEF U
<1>10. Good(q, T, A)
  BY <1>6, <1>7, <1>8, <1>9, Zenon DEF Good
<1> QED BY <1>3, <1>6, <1>10, Zenon

\* The transactions and the anchors of a chain.
LEMMA ChainTxsFacts ==
    /\ \A b \in Blocks : TxsOf(b) = {Vtx[b][i] : i \in 1 .. Len(Vtx[b])} /\ TxsOf(b) \subseteq Txs
    /\ ChainTxs[Base] = TxsOf(Base)
    /\ \A b \in Blocks : ChainTxs[b] \in SUBSET Txs
    /\ \A b \in Blocks : \A a \in Chain[b] : TxsOf(a) \subseteq ChainTxs[b]
    /\ \A b \in Blocks : b # Base => ChainTxs[b] = ChainTxs[Parent[b]] \cup TxsOf(b)
    /\ \A b \in Blocks : b # Base => Anchors(b) = Anchors(Parent[b]) \cup {Root[b]}
    /\ \A b \in Blocks : Coins[b] = Spendable(ChainTxs[b]) /\ SpentNullifiers(b) = Revealed(ChainTxs[b])
<1>1. ASSUME NEW b \in Blocks PROVE TxsOf(b) = {Vtx[b][i] : i \in 1 .. Len(Vtx[b])} /\ TxsOf(b) \subseteq Txs
  <2>1. Vtx[b] \in Seq(Txs)
    BY VtxFacts, Zenon
  <2>2. DOMAIN Vtx[b] = 1 .. Len(Vtx[b])
    BY <2>1
  <2>3. TxsOf(b) = {Vtx[b][i] : i \in 1 .. Len(Vtx[b])}
    BY <2>2, Zenon DEF TxsOf, Range
  <2> QED BY <2>3, VtxFacts, Zenon
<1>2. \A b \in Blocks : ChainTxs[b] = UNION {TxsOf(a) : a \in Chain[b]}
  BY Zenon DEF ChainTxs
<1>3. ASSUME NEW b \in Blocks, NEW t PROVE t \in ChainTxs[b] <=> \E a \in Chain[b] : t \in TxsOf(a)
  <2>1. t \in UNION {TxsOf(a) : a \in Chain[b]} <=> \E a \in Chain[b] : t \in TxsOf(a)
    BY Zenon
  <2>2. ChainTxs[b] = UNION {TxsOf(a) : a \in Chain[b]}
    BY <1>2, Zenon
  <2> QED BY <2>1, <2>2
<1>4. Base \in Blocks /\ Chain[Base] = {Base}
  BY ChainFacts, ChainSolved, Zenon
<1>5. ChainTxs[Base] = TxsOf(Base)
  BY <1>3, <1>4
<1>6. ASSUME NEW b \in Blocks PROVE ChainTxs[b] \in SUBSET Txs /\ \A a \in Chain[b] : TxsOf(a) \subseteq ChainTxs[b]
  <2>1. Chain[b] \subseteq Blocks
    BY ChainFacts, Zenon
  <2> QED BY <1>1, <1>3, <2>1, Zenon
<1>7. ASSUME NEW b \in Blocks, b # Base
      PROVE  ChainTxs[b] = ChainTxs[Parent[b]] \cup TxsOf(b) /\ Anchors(b) = Anchors(Parent[b]) \cup {Root[b]}
  <2>1. Parent[b] \in Blocks /\ Chain[b] = Chain[Parent[b]] \cup {b}
    BY <1>7, ParentFacts, ChainSolved, Zenon
  <2>2. ChainTxs[b] = ChainTxs[Parent[b]] \cup TxsOf(b)
    BY <1>3, <2>1
  <2>3. Anchors(b) = Anchors(Parent[b]) \cup {Root[b]}
    BY <2>1 DEF Anchors
  <2> QED BY <2>2, <2>3, Zenon
<1>8. \A b \in Blocks : Coins[b] = Spendable(ChainTxs[b]) /\ SpentNullifiers(b) = Revealed(ChainTxs[b])
  BY Zenon DEF Coins, SpentNullifiers
<1> QED BY <1>1, <1>5, <1>6, <1>7, <1>8, Zenon

\* The chain, transaction by transaction of its last block.
LEMMA UpToFacts ==
    ASSUME NEW b \in Blocks, b # Base
    PROVE  /\ TxsUpTo(b, 0) = ChainTxs[Parent[b]]
           /\ TxsUpTo(b, Len(Vtx[b])) = ChainTxs[b]
           /\ \A n \in 0 .. Len(Vtx[b]) : TxsUpTo(b, n) \in SUBSET Txs /\ ChainTxs[Parent[b]] \subseteq TxsUpTo(b, n)
           /\ \A n \in 1 .. Len(Vtx[b]) : /\ TxsUpTo(b, n) = TxsUpTo(b, n - 1) \cup {Vtx[b][n]}
                                          /\ Fits(TxsUpTo(b, n - 1), Vtx[b][n])
           /\ \A n \in 1 .. Len(Vtx[b]) : \A i \in 1 .. (n - 1) : Vtx[b][i] \in TxsUpTo(b, n - 1)
<1> DEFINE N == Len(Vtx[b])
<1>1. N \in Nat /\ \A n \in 1 .. N : Vtx[b][n] \in Txs
  BY VtxFacts, Zenon
<1>2. Parent[b] \in Blocks /\ ChainTxs[Parent[b]] \in SUBSET Txs /\ ChainTxs[b] = ChainTxs[Parent[b]] \cup TxsOf(b)
      /\ TxsOf(b) = {Vtx[b][i] : i \in 1 .. N}
  BY ParentFacts, ChainTxsFacts, Zenon
<1>3. \A n, t : t \in TxsUpTo(b, n) <=> t \in ChainTxs[Parent[b]] \/ \E i \in 1 .. n : t = Vtx[b][i]
  BY Zenon DEF TxsUpTo
<1>4. TxsUpTo(b, 0) = ChainTxs[Parent[b]]
  <2>1. ~\E i \in 1 .. 0 : TRUE
    OBVIOUS
  <2> QED BY <1>3, <2>1, Zenon
<1>5. TxsUpTo(b, N) = ChainTxs[b]
  BY <1>2, Zenon DEF TxsUpTo
<1>6. ASSUME NEW n \in 0 .. N PROVE TxsUpTo(b, n) \in SUBSET Txs /\ ChainTxs[Parent[b]] \subseteq TxsUpTo(b, n)
  <2>1. \A i \in 1 .. n : i \in 1 .. N
    BY <1>1
  <2>2. ASSUME NEW t \in TxsUpTo(b, n) PROVE t \in Txs
    <3>1. t \in ChainTxs[Parent[b]] \/ \E i \in 1 .. n : t = Vtx[b][i]
      BY <1>3, Zenon
    <3> QED BY <3>1, <2>1, <1>1, <1>2, Zenon
  <2> QED BY <1>3, <2>2, Zenon
<1>7. ASSUME NEW n \in 1 .. N PROVE TxsUpTo(b, n) = TxsUpTo(b, n - 1) \cup {Vtx[b][n]}
  <2>1. \A i : i \in 1 .. n <=> i \in 1 .. (n - 1) \/ i = n
    BY <1>1
  <2>2. ASSUME NEW t PROVE t \in TxsUpTo(b, n) <=> t \in TxsUpTo(b, n - 1) \/ t = Vtx[b][n]
    <3>1. t \in TxsUpTo(b, n) <=> t \in ChainTxs[Parent[b]] \/ \E i \in 1 .. n : t = Vtx[b][i]
      BY <1>3, Zenon
    <3>2. t \in TxsUpTo(b, n - 1) <=> t \in ChainTxs[Parent[b]] \/ \E i \in 1 .. (n - 1) : t = Vtx[b][i]
      BY <1>3, Zenon
    <3>3. (\E i \in 1 .. n : t = Vtx[b][i]) <=> (\E i \in 1 .. (n - 1) : t = Vtx[b][i]) \/ t = Vtx[b][n]
      BY <2>1, Zenon
    <3> QED BY <3>1, <3>2, <3>3, Zenon
  <2> QED BY <2>2, Zenon
<1>8. ASSUME NEW n \in 1 .. N PROVE Fits(TxsUpTo(b, n - 1), Vtx[b][n])
  BY ValidBlocks, Zenon DEF ValidBlocks, Fits
<1>9. \A n \in 1 .. N : \A i \in 1 .. (n - 1) : Vtx[b][i] \in TxsUpTo(b, n - 1)
  BY <1>3, Zenon
<1> QED BY <1>4, <1>5, <1>6, <1>7, <1>8, <1>9, Zenon

\* What fits keeps a chain closed.
LEMMA FitsClosed ==
    ASSUME NEW T \in SUBSET Txs, NEW t, Closed(T), Fits(T, t)
    PROVE  Closed(T \cup {t})
<1>1. ASSUME NEW u \in T \cup {t}, NEW o \in Ins[u] PROVE o[1] \in T \cup {t}
  <2>1. CASE u \in T
    BY <2>1, Zenon DEF Closed
  <2>2. CASE u = t
    <3>1. o \in Spendable(T)
      BY <2>2, Zenon DEF Fits
    <3> QED BY <3>1, SpendableFacts, Zenon
  <2> QED BY <2>1, <2>2, Zenon
<1> QED BY <1>1, Zenon DEF Closed

\* So every chain is closed, and in between too.
LEMMA ChainsClosed ==
    /\ \A b \in Blocks : Closed(ChainTxs[b])
    /\ \A b \in Blocks : b # Base => \A n \in 0 .. Len(Vtx[b]) : Closed(TxsUpTo(b, n))
<1>1. ASSUME NEW b \in Blocks, b # Base, Closed(ChainTxs[Parent[b]])
      PROVE  \A n \in 0 .. Len(Vtx[b]) : Closed(TxsUpTo(b, n))
  <2> DEFINE N == Len(Vtx[b])
             R == {n \in 0 .. N : Closed(TxsUpTo(b, n))}
  <2>1. N \in Nat
    BY VtxFacts, Zenon
  <2>2. Ends(0 .. N, {0}, Back(N), Index(N))
    BY <2>1, LoopEnds, Zenon
  <2>3. \A n \in 0 .. N : n # 0 => n \in 1 .. N /\ Back(N)[n] = n - 1 /\ n - 1 \in 0 .. N
    BY <2>1 DEF Back
  <2>4. ASSUME NEW n \in 0 .. N, n \in {0} \/ Back(N)[n] \in R PROVE n \in R
    <3>1. CASE n = 0
      BY <3>1, <1>1, UpToFacts, Zenon
    <3>2. CASE n # 0
      <4>1. n \in 1 .. N /\ n - 1 \in 0 .. N /\ Closed(TxsUpTo(b, n - 1))
        BY <2>3, <2>4, <3>2, Zenon
      <4>2. /\ TxsUpTo(b, n) = TxsUpTo(b, n - 1) \cup {Vtx[b][n]} /\ Fits(TxsUpTo(b, n - 1), Vtx[b][n])
            /\ TxsUpTo(b, n - 1) \in SUBSET Txs
        BY <1>1, <4>1, UpToFacts, Zenon
      <4>3. Closed(TxsUpTo(b, n - 1) \cup {Vtx[b][n]})
        BY <4>1, <4>2, FitsClosed, Zenon
      <4> QED BY <4>2, <4>3, Zenon
    <3> QED BY <3>1, <3>2, Zenon
  <2> HIDE DEF R
  <2>5. Passes(0 .. N, {0}, Back(N), R)
    BY <2>4, Zenon DEF Passes
  <2>6. 0 .. N \subseteq R
    BY <2>2, <2>5, Induct, Zenon
  <2> QED BY <2>6, Zenon DEF R
<1> DEFINE R == {b \in Blocks : Closed(ChainTxs[b])}
<1>2. ASSUME NEW b \in Blocks, b \in {Base} \/ Parent[b] \in R PROVE b \in R
  <2>1. CASE b = Base
    <3>1. Closed(TxsOf(Base))
      BY ValidBlocks, Zenon DEF ValidBlocks, Closed
    <3> QED BY <2>1, <3>1, ChainTxsFacts, Zenon
  <2>2. CASE b # Base
    <3>1. \A n \in 0 .. Len(Vtx[b]) : Closed(TxsUpTo(b, n))
      BY <1>1, <1>2, <2>2, Zenon
    <3>2. Len(Vtx[b]) \in 0 .. Len(Vtx[b])
      <4>1. Len(Vtx[b]) \in Nat
        BY VtxFacts, Zenon
      <4> QED BY <4>1
    <3>3. TxsUpTo(b, Len(Vtx[b])) = ChainTxs[b]
      BY <2>2, UpToFacts, Zenon
    <3> QED BY <3>1, <3>2, <3>3, Zenon
  <2> QED BY <2>1, <2>2, Zenon
<1>3. \A b \in R : b \in Blocks /\ Closed(ChainTxs[b])
  BY Zenon
<1> HIDE DEF R
<1>4. Passes(Blocks, {Base}, Parent, R)
  BY <1>2, Zenon DEF Passes
<1>5. Blocks \subseteq R
  BY <1>4, TreeEnds, Induct, Zenon
<1> QED BY <1>1, <1>3, <1>5, ParentFacts, Zenon

\* The pools that are good for the chain of b.
GoodPools(b) == {p \in SoundPools : Good(p, ChainTxs[b], Anchors(b))}

\* removeForBlock has come to the transaction n of b, from the pool p.
Mining(a, p, b, n) ==
    /\ a.pool \in SoundPools /\ Good(a.pool, TxsUpTo(b, n), Anchors(Parent[b]))
    /\ a.conflicts \subseteq p.mapTx
    /\ a.pool.mapTx \subseteq p.mapTx /\ Settled(a.pool) \subseteq Settled(p)

\* One transaction of the block.
LEMMA MiningStep ==
    ASSUME NEW b \in Blocks, b # Base, NEW p \in SoundPools, NEW n \in 1 .. Len(Vtx[b]), NEW a, Mining(a, p, b, n - 1)
    PROVE  Mining(RemoveMined(a, Vtx[b][n]), p, b, n)
<1> DEFINE t == Vtx[b][n]
           r == remove(a.pool, t, FALSE)
           q == removeConflicts(r, t)
           T == TxsUpTo(b, n - 1)
           A == Anchors(Parent[b])
<1>1. n - 1 \in 0 .. Len(Vtx[b]) /\ t \in Txs
  <2>1. Len(Vtx[b]) \in Nat /\ t \in Txs
    BY VtxFacts, Zenon
  <2> QED BY <2>1
<1>2. TxsUpTo(b, n) = T \cup {t} /\ Fits(T, t) /\ T \in SUBSET Txs /\ Closed(T)
  BY <1>1, UpToFacts, ChainsClosed, Zenon
<1>3. a.pool \in SoundPools /\ Good(a.pool, T, A)
  BY Zenon DEF Mining
<1> HIDE DEF T, A, t
<1>4. Good(q, T \cup {t}, A) /\ q.mapTx \subseteq a.pool.mapTx /\ Settled(q) \subseteq Settled(a.pool)
  BY <1>1, <1>2, <1>3, MinedGood, Zenon
<1>5. r \in SoundPools
  BY <1>3, RemovalsSound, Zenon
<1>6. r.mapTx \subseteq a.pool.mapTx
  <2>1. IsWithout(r, a.pool, Removed(a.pool, t, FALSE))
    BY WithoutFields, Zenon DEF remove
  <2> QED BY <2>1, Zenon DEF IsWithout
<1> HIDE DEF r
<1>7. q \in SoundPools
  BY <1>5, RemovalsSound, Zenon
<1> DEFINE c == a.conflicts \cup (r.mapTx \ q.mapTx)
<1>8. RemoveMined(a, t) = [pool |-> q, conflicts |-> c]
  BY Zenon DEF RemoveMined, r
<1> HIDE DEF q
<1>9. c \subseteq p.mapTx
  BY <1>6, Zenon DEF Mining
<1> HIDE DEF c
<1>10. RemoveMined(a, t).pool = q /\ RemoveMined(a, t).conflicts = c
  BY <1>8
<1>11. q.mapTx \subseteq p.mapTx /\ Settled(q) \subseteq Settled(p)
  BY <1>4, Zenon DEF Mining
<1> QED BY <1>2, <1>4, <1>7, <1>9, <1>10, <1>11, Zenon DEF Mining, A, t

\* What removeForBlock returns.
LEMMA BlockSound ==
    ASSUME NEW p \in SoundPools, NEW b \in Blocks
    PROVE  removeForBlock(p, Vtx[b]).pool \in SoundPools /\ removeForBlock(p, Vtx[b]).conflicts \subseteq Txs
<1> DEFINE A == {a \in [pool : SoundPools, conflicts : SUBSET Txs] : TRUE}
           F == [n \in 0 .. Len(Vtx[b]) |-> A]
<1>1. Len(Vtx[b]) \in Nat
  BY VtxFacts, Zenon
<1>2. \A q, c : q \in SoundPools /\ c \subseteq Txs => [pool |-> q, conflicts |-> c] \in A
  OBVIOUS
<1>3. \A a \in A : a.pool \in SoundPools /\ a.conflicts \subseteq Txs
  OBVIOUS
<1> HIDE DEF A
<1>4. \A n \in 0 .. Len(Vtx[b]) : F[n] = A
  BY Zenon
<1> HIDE DEF F
<1>5. ASSUME NEW a \in A, NEW t PROVE RemoveMined(a, t) \in A
  <2> DEFINE q == remove(a.pool, t, FALSE)
             r == removeConflicts(q, t)
  <2>1. q \in SoundPools
    BY <1>3, RemovalsSound, Zenon
  <2> HIDE DEF q
  <2>2. r \in SoundPools
    BY <2>1, RemovalsSound, Zenon
  <2> HIDE DEF r
  <2>3. q.mapTx \subseteq Txs
    BY <2>1, PoolFields, Zenon
  <2>4. a.conflicts \cup (q.mapTx \ r.mapTx) \subseteq Txs
    BY <2>3, <1>3
  <2>5. RemoveMined(a, t) = [pool |-> r, conflicts |-> a.conflicts \cup (q.mapTx \ r.mapTx)]
    BY Zenon DEF RemoveMined, q, r
  <2> QED BY <2>2, <2>4, <2>5, <1>2, Zenon
<1>6. BlockKeeps(F, p, Vtx[b])
  <2>1. [pool |-> p, conflicts |-> {}] \in F[0]
    <3>1. 0 \in 0 .. Len(Vtx[b])
      BY <1>1
    <3>2. F[0] = A
      BY <3>1, <1>4, Zenon
    <3>3. [pool |-> p, conflicts |-> {}] \in A
      BY <1>2
    <3> QED BY <3>2, <3>3, Zenon
  <2>2. ASSUME NEW n \in 1 .. Len(Vtx[b]), NEW v \in F[n - 1] PROVE RemoveMined(v, Vtx[b][n]) \in F[n]
    <3>1. n \in 0 .. Len(Vtx[b]) /\ n - 1 \in 0 .. Len(Vtx[b])
      BY <1>1
    <3>2. F[n] = A /\ F[n - 1] = A
      BY <3>1, <1>4, Zenon
    <3>3. v \in A
      BY <2>2, <3>2, Zenon
    <3> QED BY <3>2, <3>3, <1>5, Zenon
  <2> QED BY <2>1, <2>2, Zenon DEF BlockKeeps
<1>7. removeForBlock(p, Vtx[b]) \in F[Len(Vtx[b])]
  BY <1>1, <1>6, BlockLoop, Zenon
<1>8. Len(Vtx[b]) \in 0 .. Len(Vtx[b])
  BY <1>1
<1> QED BY <1>3, <1>4, <1>7, <1>8, Zenon


\* What removeForBlock returns when the pool is good for the chain below.
LEMMA BlockGood ==
    ASSUME NEW b \in Blocks, b # Base, NEW p \in GoodPools(Parent[b]), NEW r, r = removeForBlock(p, Vtx[b])
    PROVE  /\ r.pool \in GoodPools(b) /\ r.conflicts \cap ChainTxs[Parent[b]] = {}
           /\ r.pool.mapTx \subseteq p.mapTx /\ Settled(r.pool) \subseteq Settled(p)
<1> DEFINE N == Len(Vtx[b])
           E(n) == {a \in [pool : SoundPools, conflicts : SUBSET Txs] : Mining(a, p, b, n)}
           F == [n \in 0 .. N |-> E(n)]
<1>1. N \in Nat
  BY VtxFacts, Zenon
<1>2. p \in SoundPools /\ Good(p, ChainTxs[Parent[b]], Anchors(Parent[b])) /\ p.mapTx \subseteq Txs
  BY PoolFields, Zenon DEF GoodPools
<1>3. \A n \in 0 .. N : F[n] = E(n)
  BY Zenon
<1>4. [pool |-> p, conflicts |-> {}] \in E(0)
  <2>1. TxsUpTo(b, 0) = ChainTxs[Parent[b]]
    BY UpToFacts, Zenon
  <2> DEFINE a == [pool |-> p, conflicts |-> {}]
  <2>2. a \in [pool : SoundPools, conflicts : SUBSET Txs] /\ a.pool = p /\ a.conflicts = {}
    BY <1>2
  <2> HIDE DEF a
  <2>3. Mining(a, p, b, 0)
    BY <1>2, <2>1, <2>2, Zenon DEF Mining
  <2>4. a \in E(0)
    BY <2>2, <2>3, Zenon
  <2> QED BY <2>4, Zenon DEF a
<1>5. ASSUME NEW n \in 1 .. N, NEW v \in E(n - 1) PROVE RemoveMined(v, Vtx[b][n]) \in E(n)
  <2> DEFINE w == RemoveMined(v, Vtx[b][n])
  <2>1. Mining(w, p, b, n)
    BY <1>2, <1>5, MiningStep, Zenon
  <2>2. w = [pool |-> w.pool, conflicts |-> w.conflicts]
    BY Zenon DEF RemoveMined
  <2> HIDE DEF w
  <2>3. w.pool \in SoundPools /\ w.conflicts \subseteq p.mapTx
    BY <2>1, Zenon DEF Mining
  <2>4. w \in [pool : SoundPools, conflicts : SUBSET Txs]
    BY <1>2, <2>2, <2>3
  <2> QED BY <2>1, <2>4, Zenon DEF w
<1>6. \A n : \A a \in E(n) : Mining(a, p, b, n)
  BY Zenon
<1> HIDE DEF E, F
<1>7. BlockKeeps(F, p, Vtx[b])
  <2>1. [pool |-> p, conflicts |-> {}] \in F[0]
    <3>1. 0 \in 0 .. N
      BY <1>1
    <3>2. F[0] = E(0)
      BY <3>1, <1>3, Zenon
    <3> QED BY <3>2, <1>4, Zenon
  <2>2. ASSUME NEW n \in 1 .. N, NEW v \in F[n - 1] PROVE RemoveMined(v, Vtx[b][n]) \in F[n]
    <3>1. n \in 0 .. N /\ n - 1 \in 0 .. N
      BY <1>1
    <3>2. F[n] = E(n) /\ F[n - 1] = E(n - 1)
      BY <3>1, <1>3, Zenon
    <3> QED BY <2>2, <3>2, <1>5, Zenon
  <2> QED BY <2>1, <2>2, Zenon DEF BlockKeeps
<1>8. r \in F[N]
  BY <1>1, <1>7, BlockLoop, Zenon
<1>9. N \in 0 .. N
  BY <1>1
<1>10. Mining(r, p, b, N)
  BY <1>3, <1>6, <1>8, <1>9, Zenon
<1>11. TxsUpTo(b, N) = ChainTxs[b]
  BY UpToFacts, Zenon
<1>12. r.pool \in SoundPools /\ Good(r.pool, ChainTxs[b], Anchors(Parent[b])) /\ r.conflicts \subseteq p.mapTx
       /\ r.pool.mapTx \subseteq p.mapTx /\ Settled(r.pool) \subseteq Settled(p)
  BY <1>10, <1>11, Zenon DEF Mining
<1>13. Anchors(Parent[b]) \subseteq Anchors(b)
  BY ChainTxsFacts, Zenon
<1>14. Good(r.pool, ChainTxs[b], Anchors(b))
  BY <1>12, <1>13, Zenon DEF Good
<1>15. p.mapTx \cap ChainTxs[Parent[b]] = {}
  BY <1>2, Zenon DEF Good
<1> QED BY <1>12, <1>14, <1>15, Zenon DEF GoodPools

\* The chain whose last block has lost its first n transactions.
TxsLeft(b, n) == ChainTxs[Parent[b]] \cup {Vtx[b][i] : i \in (n + 1) .. Len(Vtx[b])}

\* DisconnectTip takes the transactions off one by one, in their order.
LEMMA LeftFacts ==
    ASSUME NEW b \in Blocks, b # Base
    PROVE  /\ TxsLeft(b, 0) = ChainTxs[b]
           /\ TxsLeft(b, Len(Vtx[b])) = ChainTxs[Parent[b]]
           /\ \A n \in 1 .. Len(Vtx[b]) :
                  /\ TxsLeft(b, n) \in SUBSET Txs
                  /\ TxsLeft(b, n - 1) = TxsLeft(b, n) \cup {Vtx[b][n]}
                  /\ Vtx[b][n] \notin TxsLeft(b, n)
                  /\ \A o \in Ins[Vtx[b][n]] : o \in Spendable(ChainTxs[Parent[b]]) => o \in Spendable(TxsLeft(b, n))
                  /\ Nullifier[Vtx[b][n]] \cap Revealed(ChainTxs[Parent[b]]) = {}
                         => Nullifier[Vtx[b][n]] \cap Revealed(TxsLeft(b, n)) = {}
<1> DEFINE N == Len(Vtx[b])
           P == ChainTxs[Parent[b]]
<1>1. N \in Nat /\ \A n \in 1 .. N : Vtx[b][n] \in Txs
  BY VtxFacts, Zenon
<1>2. Parent[b] \in Blocks /\ P \in SUBSET Txs /\ ChainTxs[b] = P \cup TxsOf(b)
      /\ TxsOf(b) = {Vtx[b][i] : i \in 1 .. N}
  BY ParentFacts, ChainTxsFacts, Zenon
<1> HIDE DEF P
<1>3. \A n, t : t \in TxsLeft(b, n) <=> t \in P \/ \E i \in (n + 1) .. N : t = Vtx[b][i]
  BY Zenon DEF TxsLeft, P
<1>4. TxsLeft(b, 0) = ChainTxs[b]
  <2>1. (0 + 1) .. N = 1 .. N
    OBVIOUS
  <2> QED BY <1>2, <2>1, Zenon DEF TxsLeft, P
<1>5. TxsLeft(b, N) = P
  <2>1. ~\E i \in (N + 1) .. N : TRUE
    BY <1>1
  <2> QED BY <1>3, <2>1, Zenon
<1>6. ASSUME NEW n \in 1 .. N
      PROVE  /\ TxsLeft(b, n) \in SUBSET Txs /\ TxsLeft(b, n - 1) = TxsLeft(b, n) \cup {Vtx[b][n]}
             /\ Vtx[b][n] \notin TxsLeft(b, n)
             /\ \A o \in Ins[Vtx[b][n]] : o \in Spendable(P) => o \in Spendable(TxsLeft(b, n))
             /\ Nullifier[Vtx[b][n]] \cap Revealed(P) = {} => Nullifier[Vtx[b][n]] \cap Revealed(TxsLeft(b, n)) = {}
  <2> DEFINE x == Vtx[b][n]
  <2>1. /\ \A i \in (n + 1) .. N : i \in 1 .. N /\ n \in 1 .. (i - 1) /\ i - 1 \in 0 .. N
        /\ \A i : i \in ((n - 1) + 1) .. N <=> i \in (n + 1) .. N \/ i = n
    BY <1>1
  <2>2. ASSUME NEW t \in TxsLeft(b, n) PROVE t \in Txs
    <3>1. t \in P \/ \E i \in (n + 1) .. N : t = Vtx[b][i]
      BY <1>3, Zenon
    <3> QED BY <3>1, <2>1, <1>1, <1>2, Zenon
  <2>3. ASSUME NEW t PROVE t \in TxsLeft(b, n - 1) <=> t \in TxsLeft(b, n) \/ t = x
    <3>1. t \in TxsLeft(b, n) <=> t \in P \/ \E i \in (n + 1) .. N : t = Vtx[b][i]
      BY <1>3, Zenon
    <3>2. t \in TxsLeft(b, n - 1) <=> t \in P \/ \E i \in ((n - 1) + 1) .. N : t = Vtx[b][i]
      BY <1>3, Zenon
    <3>3. (\E i \in ((n - 1) + 1) .. N : t = Vtx[b][i]) <=> (\E i \in (n + 1) .. N : t = Vtx[b][i]) \/ t = x
      BY <2>1, Zenon
    <3> QED BY <3>1, <3>2, <3>3, Zenon
  <2>4. ASSUME NEW i \in (n + 1) .. N
        PROVE  /\ x \in TxsUpTo(b, i - 1) /\ Fits(TxsUpTo(b, i - 1), Vtx[b][i])
               /\ TxsUpTo(b, i - 1) \in SUBSET Txs
    BY <2>1, UpToFacts, Zenon
  <2>5. x \notin TxsLeft(b, n)
    <3>1. x \notin P
      <4>1. Fits(TxsUpTo(b, n - 1), x) /\ P \subseteq TxsUpTo(b, n - 1)
        <5>1. n - 1 \in 0 .. N
          BY <1>1
        <5> QED BY <5>1, UpToFacts, Zenon DEF P
      <4> QED BY <4>1, Zenon DEF Fits
    <3>2. ASSUME NEW i \in (n + 1) .. N, x = Vtx[b][i] PROVE FALSE
      BY <2>4, <3>2, Zenon DEF Fits
    <3> QED BY <3>1, <3>2, <1>3, Zenon
  <2>6. ASSUME NEW o \in Ins[x], o \in Spendable(P) PROVE o \in Spendable(TxsLeft(b, n))
    <3>1. o[1] \in P /\ o \in OutputsOf(o[1]) /\ \A t \in P : o \notin Ins[t]
      BY <2>6, <1>2, SpendableFacts, Zenon
    <3>2. ASSUME NEW i \in (n + 1) .. N, o \in Ins[Vtx[b][i]] PROVE FALSE
      <4> DEFINE T == TxsUpTo(b, i - 1)
      <4>1. x \in T /\ o \in Spendable(T) /\ T \in SUBSET Txs
        BY <2>4, <3>2, Zenon DEF Fits
      <4> HIDE DEF T
      <4>2. \A t \in T : o \notin Ins[t]
        BY <4>1, SpendableFacts, Zenon
      <4> QED BY <4>1, <4>2, Zenon
    <3> DEFINE L == TxsLeft(b, n)
    <3>3. o[1] \in L
      BY <3>1, <1>3, Zenon
    <3>6. ASSUME NEW t \in L, o \in Ins[t] PROVE FALSE
      <4>1. t \in P \/ \E i \in (n + 1) .. N : t = Vtx[b][i]
        BY <1>3, Zenon
      <4> QED BY <4>1, <3>1, <3>2, <3>6, Zenon
    <3>4. L \in SUBSET Txs
      BY <2>2, Zenon
    <3> HIDE DEF L
    <3>5. o \in Spendable(L)
      BY <3>1, <3>3, <3>4, <3>6, SpendableFacts, Zenon
    <3> QED BY <3>5, Zenon DEF L
  <2>7. ASSUME NEW k \in Nullifier[x], k \notin Revealed(P) PROVE k \notin Revealed(TxsLeft(b, n))
    <3>1. ~\E t \in P : k \in Nullifier[t]
      BY <2>7, RevealedFacts, Zenon
    <3>2. ASSUME NEW i \in (n + 1) .. N, k \in Nullifier[Vtx[b][i]] PROVE FALSE
      <4>1. k \in Revealed(TxsUpTo(b, i - 1))
        BY <2>4, <2>7, RevealedFacts, Zenon
      <4> QED BY <4>1, <3>2, <2>4, Zenon DEF Fits
    <3>3. ASSUME NEW t \in TxsLeft(b, n), k \in Nullifier[t] PROVE FALSE
      <4>1. t \in P \/ \E i \in (n + 1) .. N : t = Vtx[b][i]
        BY <1>3, Zenon
      <4> QED BY <4>1, <3>1, <3>2, <3>3, Zenon
    <3> QED BY <3>3, RevealedFacts, Zenon
  <2> QED BY <2>2, <2>3, <2>5, <2>6, <2>7, Zenon
<1> QED BY <1>4, <1>5, <1>6, Zenon DEF P

\* DisconnectTip has come to the transaction n of b, from the pool p.
Returning(q, p, b, n) ==
    /\ q \in SoundPools /\ Good(q, TxsLeft(b, n), Anchors(b))
    /\ Settled(q) \subseteq Settled(p)

\* One transaction of the block.
LEMMA ReturningStep ==
    ASSUME NEW b \in Blocks, b # Base, NEW p, NEW n \in 1 .. Len(Vtx[b]), NEW q, Returning(q, p, b, n - 1)
    PROVE  Returning(TakeBack(q, Vtx[b][n], b), p, b, n)
<1> DEFINE t == Vtx[b][n]
           T == TxsLeft(b, n)
           P == ChainTxs[Parent[b]]
           A == Anchors(b)
<1>1. t \in Txs /\ Parent[b] \in Blocks
  BY VtxFacts, ParentFacts, Zenon
<1>2. /\ T \in SUBSET Txs /\ TxsLeft(b, n - 1) = T \cup {t} /\ t \notin T
      /\ \A o \in Ins[t] : o \in Spendable(P) => o \in Spendable(T)
      /\ Nullifier[t] \cap Revealed(P) = {} => Nullifier[t] \cap Revealed(T) = {}
  BY LeftFacts, Zenon
<1>3. q \in SoundPools /\ Good(q, T \cup {t}, A) /\ Settled(q) \subseteq Settled(p)
  BY <1>2, Zenon DEF Returning
<1>4. Anchors(Parent[b]) \subseteq A /\ Coins[Parent[b]] = Spendable(P) /\ SpentNullifiers(Parent[b]) = Revealed(P)
  BY <1>1, ChainTxsFacts, Zenon
<1> HIDE DEF t, T, P, A
<1>5. CASE AcceptToMemoryPool(q, t, Parent[b], Height[b] + 1) = "accepted"
  <2>1. Accepted(q, t, Parent[b], Height[b] + 1)
    BY <1>5, AcceptFacts, Zenon
  <2>2. /\ \A o \in Ins[t] : q.mapNextTx[o] = NoTx
        /\ \A k \in Nullifier[t] : q.mapSaplingNullifiers[k] = NoTx
        /\ \A o \in Ins[t] : IF o[1] \in q.mapTx THEN o \in OutputsOf(o[1]) ELSE o \in Coins[Parent[b]]
        /\ Nullifier[t] \cap SpentNullifiers(Parent[b]) = {}
        /\ Nullifier[t] # {} => Anchor[t] \in Anchors(Parent[b])
    BY <2>1, Zenon DEF Accepted
  <2>3. /\ \A o \in Ins[t] : IF o[1] \in q.mapTx THEN o \in OutputsOf(o[1]) ELSE o \in Spendable(T)
        /\ Nullifier[t] \cap Revealed(T) = {}
        /\ Nullifier[t] # {} => Anchor[t] \in A
    BY <2>2, <1>2, <1>4, Zenon
  <2>4. Good(addUnchecked(q, t), T, A) /\ Settled(addUnchecked(q, t)) \subseteq Settled(q)
    BY <2>2, <2>3, <1>1, <1>2, <1>3, AddGood, Zenon
  <2>5. addUnchecked(q, t) \in SoundPools
    BY <1>1, <1>3, AddSound, Zenon
  <2>6. TakeBack(q, t, b) = addUnchecked(q, t)
    BY <1>5, Zenon DEF TakeBack
  <2> QED BY <2>4, <2>5, <2>6, <1>3, Zenon DEF Returning, t, T, A
<1>6. CASE AcceptToMemoryPool(q, t, Parent[b], Height[b] + 1) # "accepted"
  <2>1. Good(remove(q, t, TRUE), T, A) /\ Settled(remove(q, t, TRUE)) \subseteq Settled(q)
    BY <1>1, <1>2, <1>3, DropGood, Zenon
  <2>2. remove(q, t, TRUE) \in SoundPools
    BY <1>3, RemovalsSound, Zenon
  <2>3. TakeBack(q, t, b) = remove(q, t, TRUE)
    BY <1>6, Zenon DEF TakeBack
  <2> QED BY <2>1, <2>2, <2>3, <1>3, Zenon DEF Returning, t, T, A
<1> QED BY <1>5, <1>6, Zenon

\* The pool that DisconnectTip leaves is good for the chain below.
LEMMA ResurrectGood ==
    ASSUME NEW b \in Blocks, b # Base, NEW p \in GoodPools(b)
    PROVE  Resurrect(p, b) \in GoodPools(Parent[b]) /\ Settled(Resurrect(p, b)) \subseteq Settled(p)
<1> DEFINE N == Len(Vtx[b])
           E(n) == {q \in SoundPools : Returning(q, p, b, n)}
           F == [n \in 0 .. N |-> E(n)]
           P == ChainTxs[Parent[b]]
<1>1. N \in Nat
  BY VtxFacts, Zenon
<1>2. p \in SoundPools /\ Good(p, ChainTxs[b], Anchors(b))
  BY Zenon DEF GoodPools
<1>3. \A n \in 0 .. N : F[n] = E(n)
  BY Zenon
<1>4. p \in E(0)
  <2>1. TxsLeft(b, 0) = ChainTxs[b]
    BY LeftFacts, Zenon
  <2>2. Returning(p, p, b, 0)
    BY <1>2, <2>1, Zenon DEF Returning
  <2> QED BY <2>2, <1>2, Zenon
<1>5. ASSUME NEW n \in 1 .. N, NEW v \in E(n - 1) PROVE TakeBack(v, Vtx[b][n], b) \in E(n)
  <2>1. Returning(TakeBack(v, Vtx[b][n], b), p, b, n)
    BY <1>5, ReturningStep, Zenon
  <2>2. TakeBack(v, Vtx[b][n], b) \in SoundPools
    BY <2>1, Zenon DEF Returning
  <2> QED BY <2>1, <2>2, Zenon
<1>6. \A n : \A q \in E(n) : Returning(q, p, b, n)
  BY Zenon
<1> HIDE DEF E, F
<1>7. ResurrectKeeps(F, p, b)
  <2>1. p \in F[0]
    <3>1. 0 \in 0 .. N
      BY <1>1
    <3>2. F[0] = E(0)
      BY <3>1, <1>3, Zenon
    <3> QED BY <3>2, <1>4, Zenon
  <2>2. ASSUME NEW n \in 1 .. N, NEW v \in F[n - 1] PROVE TakeBack(v, Vtx[b][n], b) \in F[n]
    <3>1. n \in 0 .. N /\ n - 1 \in 0 .. N
      BY <1>1
    <3>2. F[n] = E(n) /\ F[n - 1] = E(n - 1)
      BY <3>1, <1>3, Zenon
    <3> QED BY <2>2, <3>2, <1>5, Zenon
  <2> QED BY <2>1, <2>2, Zenon DEF ResurrectKeeps
<1>8. PICK back \in F[N] :
         Resurrect(p, b) = IF Root[b] # Root[Parent[b]] THEN removeWithAnchor(back, Root[b]) ELSE back
  BY <1>1, <1>7, ResurrectLoop, Zenon
<1>9. N \in 0 .. N
  BY <1>1
<1>10. Returning(back, p, b, N)
  BY <1>3, <1>6, <1>8, <1>9, Zenon
<1>11. TxsLeft(b, N) = P
  BY LeftFacts, Zenon
<1>12. back \in SoundPools /\ Good(back, P, Anchors(b)) /\ Settled(back) \subseteq Settled(p)
  BY <1>10, <1>11, Zenon DEF Returning
<1>13. Parent[b] \in Blocks /\ Anchors(b) = Anchors(Parent[b]) \cup {Root[b]} /\ Root[Parent[b]] \in Anchors(Parent[b])
  <2>1. Parent[b] \in Blocks /\ Anchors(b) = Anchors(Parent[b]) \cup {Root[b]}
    BY ParentFacts, ChainTxsFacts, Zenon
  <2>2. Parent[b] \in Chain[Parent[b]]
    BY <2>1, ChainFacts, Zenon
  <2> QED BY <2>1, <2>2, Zenon DEF Anchors
<1>14. CASE Root[b] # Root[Parent[b]]
  <2> DEFINE ts == {t \in back.mapTx : Nullifier[t] # {} /\ Anchor[t] = Root[b]}
             S == Reached(back, ts)
             w == Without(back, S)
  <2>1. Resurrect(p, b) = w
    BY <1>8, <1>14, Zenon DEF removeWithAnchor, RemoveAll
  <2>2. S \subseteq back.mapTx /\ ts \cap back.mapTx \subseteq S /\ Family(back, S)
    BY ReachedFacts, Zenon
  <2>3. \A t \in back.mapTx \ S : Nullifier[t] # {} => Anchor[t] # Root[b]
    BY <2>2, Zenon
  <2> HIDE DEF S
  <2>4. S \in SUBSET back.mapTx
    BY <2>2, Zenon
  <2>5. Good(w, P, Anchors(b)) /\ Settled(w) \subseteq Settled(back)
    BY <1>12, <2>2, <2>4, FamilyGood, Zenon
  <2>6. w \in SoundPools
    BY <1>12, <2>2, WithoutSound, Zenon
  <2>7. w.mapTx = back.mapTx \ S
    BY WithoutFields, Zenon DEF IsWithout
  <2> HIDE DEF w
  <2>8. Good(w, P, Anchors(Parent[b]))
    BY <2>3, <2>5, <2>7, <1>13, Zenon DEF Good
  <2> QED BY <2>1, <2>5, <2>6, <2>8, <1>12, Zenon DEF GoodPools
<1>15. CASE Root[b] = Root[Parent[b]]
  <2>1. Anchors(b) = Anchors(Parent[b])
    BY <1>13, <1>15, Zenon
  <2>2. Resurrect(p, b) = back
    BY <1>8, <1>15, Zenon
  <2> QED BY <2>1, <2>2, <1>12, Zenon DEF GoodPools
<1> QED BY <1>14, <1>15, Zenon

DisconnectDone(q, fork) ==
    /\ q \in GoodPools(fork) /\ Settled(q) \subseteq Settled(pool)
    /\ fork = tip => q = pool

\* The pool when the blocks down to fork are disconnected.
LEMMA DisconnectGood ==
    ASSUME tip \in Blocks, pool \in GoodPools(tip), NEW fork \in Chain[tip]
    PROVE  DisconnectDone(DisconnectTo(fork), fork)
<1> DEFINE N == Height[tip] - Height[fork]
           Down(a, n) == /\ a.tip \in Blocks /\ a.pool \in GoodPools(a.tip) /\ fork \in Chain[a.tip]
                         /\ Height[a.tip] = Height[tip] - n
                         /\ Settled(a.pool) \subseteq Settled(pool)
                         /\ n = 0 => a.pool = pool
           A(n) == {a \in [tip : Blocks, pool : SoundPools] : Down(a, n)}
           F == [n \in 0 .. N |-> A(n)]
<1>0. fork \in Blocks /\ Chain[fork] \subseteq Blocks
  BY ChainFacts, Zenon
<1>h. \A b \in Blocks : Height[b] \in Nat
  BY TxMemPoolAssumption, Zenon DEF TxMemPoolAssumption
<1>1. N \in Nat
  <2>1. fork = tip \/ Height[fork] < Height[tip]
    BY ChainFacts, Zenon
  <2> QED BY <2>1, <1>0, <1>h
<1>2. \A n \in 0 .. N : F[n] = A(n)
  BY Zenon
<1>g. \A b : \A q \in GoodPools(b) : q \in SoundPools
  BY Zenon DEF GoodPools
<1>3. [tip |-> tip, pool |-> pool] \in A(0)
  <2> DEFINE a == [tip |-> tip, pool |-> pool]
  <2>1. a \in [tip : Blocks, pool : SoundPools] /\ a.tip = tip /\ a.pool = pool /\ Height[tip] = Height[tip] - 0
    BY <1>h, <1>g
  <2> HIDE DEF a
  <2>2. Down(a, 0)
    BY <2>1, Zenon
  <2> HIDE DEF Down
  <2>3. a \in A(0)
    BY <2>1, <2>2, Zenon
  <2> QED BY <2>3, Zenon DEF a
<1>4. ASSUME NEW n \in 1 .. N, NEW a \in A(n - 1) PROVE DisconnectTip(a) \in A(n)
  <2>1. /\ a.tip \in Blocks /\ a.pool \in GoodPools(a.tip) /\ fork \in Chain[a.tip]
        /\ Height[a.tip] = Height[tip] - (n - 1) /\ Settled(a.pool) \subseteq Settled(pool)
    BY <1>4, Zenon
  <2>2. a.tip # fork
    BY <2>1, <1>0, <1>h
  <2>3. a.tip # Base
    BY <2>1, <2>2, ChainSolved, Zenon
  <2>4. /\ Parent[a.tip] \in Blocks /\ Height[a.tip] = Height[Parent[a.tip]] + 1
        /\ Chain[a.tip] = Chain[Parent[a.tip]] \cup {a.tip}
    BY <2>1, <2>3, ParentFacts, ChainSolved, Zenon
  <2>5. fork \in Chain[Parent[a.tip]]
    BY <2>1, <2>2, <2>4, Zenon
  <2> DEFINE b == Parent[a.tip]
             q == Resurrect(a.pool, a.tip)
             w == [tip |-> b, pool |-> q]
  <2>6. q \in GoodPools(b) /\ Settled(q) \subseteq Settled(a.pool)
    BY <2>1, <2>3, ResurrectGood, Zenon
  <2>7. Height[Parent[a.tip]] = Height[tip] - n /\ n # 0
    BY <2>1, <2>4, <1>h, <1>1
  <2>8. DisconnectTip(a) = w
    BY Zenon DEF DisconnectTip
  <2>9. b \in Blocks /\ fork \in Chain[b] /\ Height[b] = Height[tip] - n /\ q \in SoundPools
    BY <2>4, <2>5, <2>6, <2>7, <1>g, Zenon
  <2> HIDE DEF b, q
  <2>10. w \in [tip : Blocks, pool : SoundPools] /\ w.tip = b /\ w.pool = q
    BY <2>9
  <2> HIDE DEF w
  <2>11. Down(w, n)
    BY <2>1, <2>6, <2>7, <2>9, <2>10, Zenon
  <2> HIDE DEF Down
  <2> QED BY <2>8, <2>10, <2>11, Zenon
<1>5. \A n : \A a \in A(n) : Down(a, n)
  BY Zenon
<1> HIDE DEF F, A
<1>6. DisconnectKeeps(F, fork)
  <2>1. [tip |-> tip, pool |-> pool] \in F[0]
    <3>1. 0 \in 0 .. N
      BY <1>1
    <3> QED BY <3>1, <1>2, <1>3, Zenon
  <2>2. ASSUME NEW n \in 1 .. N, NEW v \in F[n - 1] PROVE DisconnectTip(v) \in F[n]
    <3>1. n \in 0 .. N /\ n - 1 \in 0 .. N
      BY <1>1
    <3> QED BY <2>2, <3>1, <1>2, <1>4, Zenon
  <2> QED BY <2>1, <2>2, Zenon DEF DisconnectKeeps
<1>7. PICK v \in F[N] : DisconnectTo(fork) = v.pool
  BY <1>1, <1>6, DisconnectLoop, Zenon
<1>8. N \in 0 .. N
  BY <1>1
<1>9. Down(v, N)
  BY <1>2, <1>5, <1>7, <1>8, Zenon
<1>10. v.tip = fork
  <2>1. v.tip \in Blocks /\ fork \in Chain[v.tip] /\ Height[v.tip] = Height[tip] - N
    BY <1>9, Zenon
  <2>2. fork = v.tip \/ Height[fork] < Height[v.tip]
    BY <2>1, ChainFacts, Zenon
  <2> QED BY <2>1, <2>2, <1>0, <1>h
<1>11. fork = tip => N = 0
  BY <1>0, <1>h
<1> HIDE DEF N
<1> QED BY <1>7, <1>9, <1>10, <1>11, Zenon DEF DisconnectDone

ConflictMaps == UNION {[D -> SUBSET Txs] : D \in SUBSET Blocks}

\* What removeForBlock took out for the block b was not in the chain below b.
Apart(m) == \A b \in DOMAIN m : m[b] \cap ChainTxs[Parent[b]] = {}

\* An entry more in recentlyConflictedTxs.
LEMMA InsertFacts ==
    ASSUME NEW m \in ConflictMaps, NEW b \in Blocks, NEW ts \in SUBSET Txs
    PROVE  InsertConflicts(m, b, ts) \in ConflictMaps /\ DOMAIN InsertConflicts(m, b, ts) = DOMAIN m \cup {b}
<1>1. PICK D \in SUBSET Blocks : m \in [D -> SUBSET Txs]
  BY Zenon DEF ConflictMaps
<1> DEFINE E == DOMAIN m \cup {b}
           k == [a \in E |-> IF a \in DOMAIN m THEN m[a] ELSE ts]
<1>2. E \in SUBSET Blocks /\ \A a \in DOMAIN m : m[a] \in SUBSET Txs
  BY <1>1
<1> HIDE DEF E
<1>3. k \in [E -> SUBSET Txs]
  BY <1>2
<1>4. InsertConflicts(m, b, ts) = k /\ DOMAIN k = E
  BY Zenon DEF InsertConflicts, E
<1> HIDE DEF k
<1>5. k \in ConflictMaps
  BY <1>2, <1>3, Zenon DEF ConflictMaps
<1> QED BY <1>4, <1>5, Zenon DEF E

\* It is apart from the chain below when what is inserted is.
LEMMA InsertApart ==
    ASSUME NEW m, Apart(m), NEW b, NEW ts, ts \cap ChainTxs[Parent[b]] = {}
    PROVE  Apart(InsertConflicts(m, b, ts))
<1> DEFINE k == InsertConflicts(m, b, ts)
<1>1. DOMAIN k = DOMAIN m \cup {b} /\ \A a \in DOMAIN m \cup {b} : k[a] = IF a \in DOMAIN m THEN m[a] ELSE ts
  BY Zenon DEF InsertConflicts
<1> HIDE DEF k
<1>2. ASSUME NEW a \in DOMAIN k PROVE k[a] \cap ChainTxs[Parent[a]] = {}
  <2>1. CASE a \in DOMAIN m
    <3>1. k[a] = m[a]
      BY <1>1, <2>1, Zenon
    <3>2. m[a] \cap ChainTxs[Parent[a]] = {}
      BY <2>1, Zenon DEF Apart
    <3> QED BY <3>1, <3>2, Zenon
  <2>2. CASE a \notin DOMAIN m
    <3>1. k[a] = ts /\ a = b
      BY <1>1, <2>2, Zenon
    <3> QED BY <3>1, Zenon
  <2> QED BY <2>1, <2>2, Zenon
<1>3. Apart(k)
  BY <1>2, Zenon DEF Apart
<1> QED BY <1>3, Zenon DEF k

\* Two blocks that are below one another are one.
LEMMA SameBlock ==
    ASSUME NEW a \in Blocks, NEW b \in Blocks, a \in Chain[b], b \in Chain[a]
    PROVE  a = b
<1>1. (a = b \/ Height[a] < Height[b]) /\ (a = b \/ Height[b] < Height[a])
  BY ChainFacts, Zenon
<1>2. Height[a] \in Nat /\ Height[b] \in Nat
  BY TxMemPoolAssumption, Zenon DEF TxMemPoolAssumption
<1> QED BY <1>1, <1>2

ConnectDone(d, p, m, fork, c) ==
    /\ d.pool \in GoodPools(c) /\ d.conflicted \in ConflictMaps /\ Apart(d.conflicted)
    /\ DOMAIN d.conflicted = DOMAIN m \cup (Chain[c] \ Chain[fork])
    /\ d.pool.mapTx \subseteq p.mapTx /\ Settled(d.pool) \subseteq Settled(p)

\* The pool and recentlyConflictedTxs when the blocks up to c are connected.
LEMMA ConnectGood ==
    ASSUME NEW fork \in Blocks, NEW c \in Blocks, fork \in Chain[c], NEW p \in GoodPools(fork),
           NEW m \in ConflictMaps, Apart(m)
    PROVE  ConnectDone(ConnectTo([pool |-> p, conflicted |-> m], fork, c), p, m, fork, c)
<1> DEFINE Up(a, x) == /\ DOMAIN a.conflicted = DOMAIN m \cup (Chain[x] \ Chain[fork])
                       /\ fork \in Chain[x] => /\ a.pool \in GoodPools(x) /\ Apart(a.conflicted)
                                               /\ a.pool.mapTx \subseteq p.mapTx
                                               /\ Settled(a.pool) \subseteq Settled(p)
           A(x) == {a \in [pool : SoundPools, conflicted : ConflictMaps] : Up(a, x)}
           F == [x \in Blocks |-> A(x)]
           acc == [pool |-> p, conflicted |-> m]
           d == ConnectTo(acc, fork, c)
<1>1. \A x \in Blocks : F[x] = A(x)
  BY Zenon
<1>2. \A q, k : [pool |-> q, conflicted |-> k].pool = q /\ [pool |-> q, conflicted |-> k].conflicted = k
  OBVIOUS
<1>3. ASSUME NEW x \in Blocks, NEW q \in SoundPools, NEW k \in ConflictMaps, Up([pool |-> q, conflicted |-> k], x)
      PROVE  [pool |-> q, conflicted |-> k] \in A(x)
  <2> HIDE DEF Up
  <2> QED BY <1>3
<1>4. ASSUME NEW x \in Blocks, NEW a \in A(x)
      PROVE  Up(a, x) /\ a.pool \in SoundPools /\ a.conflicted \in ConflictMaps
  <2> HIDE DEF Up
  <2> QED BY <1>4
<1>g. p \in SoundPools
  BY Zenon DEF GoodPools
<1> HIDE DEF F, A
<1>5. ASSUME NEW x \in Blocks, x \in Chain[fork] PROVE acc \in A(x)
  <2>1. Chain[x] \ Chain[fork] = {}
    BY <1>5, ChainFacts, Zenon
  <2>2. DOMAIN m = DOMAIN m \cup (Chain[x] \ Chain[fork])
    BY <2>1
  <2>3. fork \in Chain[x] => x = fork
    BY <1>5, SameBlock, Zenon
  <2>4. acc.pool = p /\ acc.conflicted = m
    BY <1>2, Zenon
  <2>5. Up(acc, x)
    BY <2>2, <2>3, <2>4, Zenon
  <2> HIDE DEF Up
  <2> QED BY <2>5, <1>3, <1>g, Zenon
<1>6. ASSUME NEW x \in Blocks, x \notin Chain[fork], NEW a \in A(Parent[x]) PROVE ConnectTip(a, x) \in A(x)
  <2>1. x # Base /\ Parent[x] \in Blocks /\ Chain[x] = Chain[Parent[x]] \cup {x} /\ x # fork
    BY <1>6, ChainFacts, ChainSolved, ParentFacts, Zenon
  <2>2. /\ a.pool \in SoundPools /\ a.conflicted \in ConflictMaps /\ Up(a, Parent[x])
        /\ DOMAIN a.conflicted = DOMAIN m \cup (Chain[Parent[x]] \ Chain[fork])
    BY <2>1, <1>4, Zenon
  <2> DEFINE r == removeForBlock(a.pool, Vtx[x])
             k == InsertConflicts(a.conflicted, x, r.conflicts)
             w == [pool |-> r.pool, conflicted |-> k]
  <2>3. r.pool \in SoundPools /\ r.conflicts \in SUBSET Txs
    <3>1. removeForBlock(a.pool, Vtx[x]).pool \in SoundPools /\ removeForBlock(a.pool, Vtx[x]).conflicts \subseteq Txs
      BY <2>2, BlockSound, Zenon
    <3> QED BY <3>1
  <2>4. ConnectTip(a, x) = w
    BY Zenon DEF ConnectTip
  <2>5. ASSUME fork \in Chain[x]
        PROVE  /\ r.pool \in GoodPools(x) /\ Apart(k)
               /\ r.pool.mapTx \subseteq p.mapTx /\ Settled(r.pool) \subseteq Settled(p)
    <3>1. fork \in Chain[Parent[x]]
      BY <2>1, <2>5, Zenon
    <3>2. /\ a.pool \in GoodPools(Parent[x]) /\ Apart(a.conflicted)
          /\ a.pool.mapTx \subseteq p.mapTx /\ Settled(a.pool) \subseteq Settled(p)
      BY <2>2, <3>1, Zenon
    <3>3. /\ r.pool \in GoodPools(x) /\ r.conflicts \cap ChainTxs[Parent[x]] = {}
          /\ r.pool.mapTx \subseteq a.pool.mapTx /\ Settled(r.pool) \subseteq Settled(a.pool)
      BY <2>1, <3>2, BlockGood, Zenon
    <3> HIDE DEF r
    <3>4. Apart(k)
      BY <3>2, <3>3, InsertApart, Zenon
    <3> QED BY <3>2, <3>3, <3>4, Zenon
  <2> HIDE DEF r
  <2>6. k \in ConflictMaps /\ DOMAIN k = DOMAIN a.conflicted \cup {x}
    BY <2>2, <2>3, InsertFacts, Zenon
  <2>7. DOMAIN k = DOMAIN m \cup (Chain[x] \ Chain[fork])
    BY <1>6, <2>1, <2>2, <2>6
  <2>8. w.pool = r.pool /\ w.conflicted = k
    BY <1>2, Zenon
  <2> HIDE DEF k
  <2>9. Up(w, x)
    BY <2>5, <2>7, <2>8, Zenon
  <2> HIDE DEF Up
  <2> QED BY <2>3, <2>4, <2>6, <2>9, <1>3, Zenon
<1>7. ConnectKeeps(F, acc, fork)
  <2>1. ASSUME NEW x \in Blocks, x \in Chain[fork] PROVE acc \in F[x]
    <3>1. acc \in A(x)
      BY <2>1, <1>5, Zenon
    <3> HIDE DEF acc
    <3> QED BY <3>1, <1>1, Zenon
  <2>2. ASSUME NEW x \in Blocks, x \notin Chain[fork], NEW v \in F[Parent[x]] PROVE ConnectTip(v, x) \in F[x]
    <3>1. Parent[x] \in Blocks
      BY <2>2, ChainFacts, ParentFacts, Zenon
    <3>2. v \in A(Parent[x])
      BY <2>2, <3>1, <1>1, Zenon
    <3> QED BY <2>2, <3>2, <1>1, <1>6, Zenon
  <2> HIDE DEF acc
  <2> QED BY <2>1, <2>2, Zenon DEF ConnectKeeps
<1>8. d \in F[c]
  <2> HIDE DEF acc
  <2> QED BY <1>7, ConnectLoop, Zenon
<1> HIDE DEF d
<1>9. Up(d, c) /\ d.conflicted \in ConflictMaps
  BY <1>1, <1>4, <1>8, Zenon
<1>10. ConnectDone(d, p, m, fork, c)
  BY <1>9, Zenon DEF ConnectDone
<1> QED BY <1>10, Zenon DEF d

-----------------------------------------------------------------------------
(* The blocks to tell the wallets of *)

Entries == [block : Blocks, conflicted : SUBSET Txs]

\* s has the blocks that lead from f to b, each the parent of the next.
Leads(f, s, b) ==
    /\ \A i \in 1 .. Len(s) : /\ s[i].block \in Blocks \ {Base}
                              /\ Parent[s[i].block] = IF i = 1 THEN f ELSE s[i - 1].block
    /\ b = IF Len(s) = 0 THEN f ELSE s[Len(s)].block

\* The entries of s are blocks of the active chain, with what they put in
\* conflict.
Taken(s) == \A i \in 1 .. Len(s) : /\ s[i].block \in Chain[tip] \cap DOMAIN recentlyConflictedTxs
                                   /\ s[i].conflicted = recentlyConflictedTxs[s[i].block]

\* blockStack leads from the fork to the tip.
LEMMA StackLeads ==
    ASSUME tip \in Blocks, recentlyConflictedTxs \in ConflictMaps, NEW fork \in Chain[tip],
           Chain[tip] \ Chain[fork] \subseteq DOMAIN recentlyConflictedTxs
    PROVE  Connected(fork) \in Seq(Entries) /\ Leads(fork, Connected(fork), tip) /\ Taken(Connected(fork))
<1> DEFINE rc == recentlyConflictedTxs
           C == (SUBSET Txs) \cup {rc[x] : x \in Blocks}
           W == [block : Blocks, conflicted : C]
           A(x) == {s \in Seq(W) : x \in Chain[tip] /\ fork \in Chain[x] =>
                                       s \in Seq(Entries) /\ Leads(fork, s, x) /\ Taken(s)}
           F == [x \in Blocks |-> A(x)]
<1>0. fork \in Blocks /\ Chain[tip] \subseteq Blocks
  BY ChainFacts, Zenon
<1>1. \A x \in Blocks : F[x] = A(x)
  BY Zenon
<1>2. ASSUME NEW x \in Blocks, x \in Chain[fork] PROVE <<>> \in A(x)
  <2>1. fork \in Chain[x] => x = fork
    BY <1>0, <1>2, SameBlock, Zenon
  <2>2. Leads(fork, <<>>, fork) /\ Taken(<<>>)
    BY DEF Leads, Taken
  <2>3. <<>> \in Seq(W) /\ <<>> \in Seq(Entries)
    OBVIOUS
  <2> HIDE DEF W
  <2> QED BY <2>1, <2>2, <2>3, Zenon
<1>3. ASSUME NEW x \in Blocks, x \notin Chain[fork], NEW s \in A(Parent[x])
      PROVE  Append(s, [block |-> x, conflicted |-> rc[x]]) \in A(x)
  <2> DEFINE e == [block |-> x, conflicted |-> rc[x]]
             u == Append(s, e)
  <2>1. x # Base /\ Parent[x] \in Blocks /\ Chain[x] = Chain[Parent[x]] \cup {x}
    BY <1>3, <1>0, ChainFacts, ChainSolved, ParentFacts, Zenon
  <2>2. e \in W /\ e.block = x
    <3>1. rc[x] \in C
      BY Zenon
    <3> HIDE DEF rc, C
    <3> QED BY <3>1
  <2>3. s \in Seq(W)
    BY <1>3, Zenon
  <2>4. u \in Seq(W)
    <3> HIDE DEF W, e
    <3> QED BY <2>2, <2>3
  <2>5. ASSUME x \in Chain[tip], fork \in Chain[x] PROVE u \in Seq(Entries) /\ Leads(fork, u, x) /\ Taken(u)
    <3>1. Parent[x] \in Chain[tip]
      <4>1. Parent[x] \in Chain[Parent[x]]
        BY <2>1, ChainFacts, Zenon
      <4> QED BY <4>1, <2>1, <2>5, ChainFacts, Zenon
    <3>2. fork \in Chain[Parent[x]]
      <4>1. fork # x
        BY <1>0, <1>3, ChainFacts, Zenon
      <4> QED BY <4>1, <2>1, <2>5, Zenon
    <3>3. s \in Seq(Entries) /\ Leads(fork, s, Parent[x]) /\ Taken(s)
      BY <1>3, <3>1, <3>2, Zenon
    <3>4. e \in Entries /\ x \in DOMAIN rc /\ e.conflicted = rc[x]
      <4>1. x \in DOMAIN rc
        BY <1>3, <2>5, Zenon
      <4>2. rc[x] \in SUBSET Txs
        BY <4>1 DEF ConflictMaps
      <4> QED BY <4>1, <4>2 DEF Entries
    <3> HIDE DEF e, W, A, F
    <3>5. u \in Seq(Entries) /\ Len(u) = Len(s) + 1 /\ u[Len(u)] = e /\ Len(s) \in Nat
          /\ \A i \in 1 .. Len(s) : u[i] = s[i]
      BY <3>3, <3>4
    <3>6. Leads(fork, u, x)
      <4> HIDE DEF u
      <4>1. x = IF Len(u) = 0 THEN fork ELSE u[Len(u)].block
        BY <2>2, <3>5
      <4>2. ASSUME NEW i \in 1 .. Len(u)
            PROVE  /\ u[i].block \in Blocks \ {Base}
                   /\ Parent[u[i].block] = IF i = 1 THEN fork ELSE u[i - 1].block
        <5>1. CASE i \in 1 .. Len(s)
          <6>1. /\ s[i].block \in Blocks \ {Base}
                /\ Parent[s[i].block] = IF i = 1 THEN fork ELSE s[i - 1].block
            BY <5>1, <3>3, Zenon DEF Leads
          <6>2. u[i] = s[i] /\ (i # 1 => u[i - 1] = s[i - 1])
            BY <5>1, <3>5
          <6> QED BY <6>1, <6>2, Zenon
        <5>2. CASE i = Len(s) + 1
          <6>1. u[i].block = x /\ x \in Blocks \ {Base}
            BY <5>2, <2>1, <2>2, <3>5, Zenon
          <6>2. Parent[x] = IF Len(s) = 0 THEN fork ELSE s[Len(s)].block
            BY <3>3, Zenon DEF Leads
          <6>3. (i = 1 <=> Len(s) = 0) /\ i - 1 = Len(s) /\ (i # 1 => u[i - 1] = s[Len(s)])
            BY <5>2, <3>5
          <6> QED BY <6>1, <6>2, <6>3, Zenon
        <5>3. i \in 1 .. Len(s) \/ i = Len(s) + 1
          BY <3>5
        <5> QED BY <5>1, <5>2, <5>3, Zenon
      <4> QED BY <4>1, <4>2, Zenon DEF Leads
    <3>7. Taken(u)
      <4> HIDE DEF u
      <4>1. \A i \in 1 .. Len(u) : i \in 1 .. Len(s) \/ i = Len(u)
        BY <3>5
      <4>2. \A i \in 1 .. Len(s) : /\ u[i].block \in Chain[tip] \cap DOMAIN recentlyConflictedTxs
                                   /\ u[i].conflicted = recentlyConflictedTxs[u[i].block]
        BY <3>3, <3>5, Zenon DEF Taken
      <4>3. u[Len(u)].block = x /\ u[Len(u)].conflicted = recentlyConflictedTxs[x]
            /\ x \in Chain[tip] \cap DOMAIN recentlyConflictedTxs
        BY <2>2, <2>5, <3>4, <3>5, Zenon
      <4> QED BY <4>1, <4>2, <4>3, Zenon DEF Taken
    <3> QED BY <3>5, <3>6, <3>7, Zenon
  <2> HIDE DEF u, W
  <2>6. u \in A(x)
    BY <2>4, <2>5, Zenon
  <2> QED BY <2>6, Zenon DEF u
<1> HIDE DEF F, A
<1>4. StackKeeps(F, fork)
  <2>1. ASSUME NEW x \in Blocks, x \in Chain[fork] PROVE <<>> \in F[x]
    BY <2>1, <1>1, <1>2, Zenon
  <2>2. ASSUME NEW x \in Blocks, x \notin Chain[fork], NEW v \in F[Parent[x]]
        PROVE  Append(v, [block |-> x, conflicted |-> recentlyConflictedTxs[x]]) \in F[x]
    <3>1. Parent[x] \in Blocks
      BY <2>2, <1>0, ChainFacts, ParentFacts, Zenon
    <3>2. v \in A(Parent[x])
      BY <2>2, <3>1, <1>1, Zenon
    <3> QED BY <2>2, <3>2, <1>1, <1>3, Zenon
  <2> QED BY <2>1, <2>2, Zenon DEF StackKeeps
<1>5. Connected(fork) \in A(tip)
  <2>1. Connected(fork) \in F[tip]
    BY <1>0, <1>4, StackLoop, Zenon
  <2> QED BY <2>1, <1>1, Zenon
<1>6. tip \in Chain[tip]
  BY ChainFacts, Zenon
<1> QED BY <1>5, <1>6, Zenon DEF A


-----------------------------------------------------------------------------
(* The pool while transactions come *)

\* The transactions of p may be in a block at height h.
Fit(p, h) == \A t \in p.mapTx : IsFinalTx(t, h) /\ Branch[t] = CurrentEpochBranchId(h)

\* What messages may make of the pool while the tip stays.
RelayPools == {p \in GoodPools(tip) : Fit(p, Height[tip] + 1) /\ Settled(p) \subseteq Settled(pool)}

\* A transaction that AcceptToMemoryPool lets in is not in the chain, though the
\* coins of the view do not tell when all its outputs are spent: then its own
\* inputs are spent too.
LEMMA AcceptedIsNew ==
    ASSUME NEW b \in Blocks, NEW p, NEW A, Good(p, ChainTxs[b], A), NEW t \in Txs, NEW next, Accepted(p, t, b, next)
    PROVE  t \notin ChainTxs[b]
<1> SUFFICES ASSUME t \in ChainTxs[b] PROVE FALSE
  OBVIOUS
<1> DEFINE T == ChainTxs[b]
<1>1. Closed(T) /\ T \in SUBSET Txs /\ Coins[b] = Spendable(T) /\ SpentNullifiers(b) = Revealed(T)
  BY ChainsClosed, ChainTxsFacts, Zenon
<1>2. /\ Ins[t] # {} \/ Nullifier[t] # {}
      /\ \A o \in Ins[t] : IF o[1] \in p.mapTx THEN o \in OutputsOf(o[1]) ELSE o \in Spendable(T)
      /\ Nullifier[t] \cap Revealed(T) = {}
  BY <1>1, Zenon DEF Accepted
<1>3. p.mapTx \cap T = {} /\ t \in T
  BY Zenon DEF Good
<1> HIDE DEF T
<1>4. ASSUME NEW o \in Ins[t] PROVE FALSE
  <2>1. o[1] \in T
    BY <1>1, <1>3, Zenon DEF Closed
  <2>2. o \in Spendable(T)
    BY <2>1, <1>2, <1>3, Zenon
  <2> QED BY <2>2, <1>1, <1>3, SpendableFacts, Zenon
<1>5. ASSUME NEW n \in Nullifier[t] PROVE FALSE
  <2>1. n \in Revealed(T)
    BY <1>3, RevealedFacts, Zenon
  <2> QED BY <2>1, <1>2, Zenon
<1> QED BY <1>2, <1>4, <1>5, Zenon

\* A transaction is let in.
LEMMA AcceptKeeps ==
    ASSUME tip \in Blocks, NEW p \in RelayPools, NEW t \in Txs, Answer(p, t) = "accepted"
    PROVE  addUnchecked(p, t) \in RelayPools
<1> DEFINE T == ChainTxs[tip]
           A == Anchors(tip)
           h == Height[tip] + 1
           q == addUnchecked(p, t)
<1>1. /\ p \in SoundPools /\ Good(p, T, A) /\ Fit(p, h) /\ Settled(p) \subseteq Settled(pool)
  BY Zenon DEF RelayPools, GoodPools
<1>2. Accepted(p, t, tip, h)
  BY AcceptFacts, Zenon DEF Answer
<1>3. T \in SUBSET Txs /\ Coins[tip] = Spendable(T) /\ SpentNullifiers(tip) = Revealed(T)
  BY ChainTxsFacts, Zenon
<1>4. t \notin T
  BY <1>1, <1>2, AcceptedIsNew, Zenon
<1> HIDE DEF T, A, h
<1>5. /\ IsFinalTx(t, h) /\ Branch[t] = CurrentEpochBranchId(h)
      /\ t \notin p.mapTx
      /\ \A o \in Ins[t] : p.mapNextTx[o] = NoTx
      /\ \A n \in Nullifier[t] : p.mapSaplingNullifiers[n] = NoTx
      /\ \A o \in Ins[t] : IF o[1] \in p.mapTx THEN o \in OutputsOf(o[1]) ELSE o \in Spendable(T)
      /\ Nullifier[t] \cap Revealed(T) = {}
      /\ Nullifier[t] # {} => Anchor[t] \in A
  BY <1>2, <1>3, Zenon DEF Accepted, A
<1>6. Good(p, T \cup {t}, A)
  BY <1>1, <1>3, <1>5, GoodWith, Zenon
<1>7. Good(q, T, A) /\ Settled(q) \subseteq Settled(p)
  BY <1>1, <1>3, <1>4, <1>5, <1>6, AddGood, Zenon
<1>8. q \in SoundPools
  BY <1>1, AddSound, Zenon
<1>9. q.mapTx = p.mapTx \cup {t}
  BY AddFields, Zenon DEF IsWith
<1> HIDE DEF q
<1>10. Fit(q, h)
  BY <1>1, <1>5, <1>9, Zenon DEF Fit
<1>11. q \in RelayPools
  BY <1>1, <1>7, <1>8, <1>10, Zenon DEF RelayPools, GoodPools, T, A, h
<1> QED BY <1>11, Zenon DEF q

-----------------------------------------------------------------------------
(* The orphans *)

\* There are finitely many transactions.
LEMMA TxsFinite == IsFiniteSet(Txs)
<1>1. TxOrder \in Seq(Txs)
  BY TxMemPoolAssumption, Zenon DEF TxMemPoolAssumption
<1>2. Len(TxOrder) \in Nat /\ DOMAIN TxOrder = 1 .. Len(TxOrder) /\ TxOrder \in [1 .. Len(TxOrder) -> Txs]
  BY <1>1
<1>3. \A t \in Txs : \E n \in 1 .. Len(TxOrder) : TxOrder[n] = t
  BY <1>2, Zenon DEF Txs, Range
<1>4. TxOrder \in Surjection(1 .. Len(TxOrder), Txs)
  BY <1>2, <1>3, Zenon DEF Surjection
<1>5. IsFiniteSet(1 .. Len(TxOrder))
  BY <1>2, FS_Interval
<1> QED BY <1>4, <1>5, FS_Surjection, Zenon

\* The state of the loop over vWorkQueue.
OrphanLoops == [pool : RelayPools, vWorkQueue : Seq(Txs), vEraseQueue : SUBSET Txs,
                rejects : SUBSET Txs, setMisbehaving : SUBSET Peers]

OrphansTyped ==
    /\ Orphans \subseteq Txs /\ \A t \in Orphans : mapOrphanTransactions[t] \in Peers
    /\ mapOrphanTransactionsByPrev \in [Txs -> SUBSET Txs]

\* An orphan is tried: it is there, with the peer that sent it.
LEMMA TryTyped ==
    ASSUME tip \in Blocks, OrphansTyped, NEW a \in OrphanLoops, NEW t \in Orphans
    PROVE  TryOrphan(a, t) \in OrphanLoops
<1> DEFINE peer == mapOrphanTransactions[t]
           answer == Answer(a.pool, t)
<1>1. t \in Txs /\ peer \in Peers
  BY Zenon DEF OrphansTyped
<1>2. /\ a.pool \in RelayPools /\ a.vWorkQueue \in Seq(Txs) /\ a.vEraseQueue \in SUBSET Txs
      /\ a.rejects \in SUBSET Txs /\ a.setMisbehaving \in SUBSET Peers
  BY DEF OrphanLoops
<1>3. answer = "accepted" => addUnchecked(a.pool, t) \in RelayPools
  BY <1>1, <1>2, AcceptKeeps, Zenon
<1>4. TryOrphan(a, t) = IF peer \in a.setMisbehaving \/ answer = "missing" THEN a
        ELSE IF answer = "accepted"
             THEN [a EXCEPT !.pool = addUnchecked(@, t), !.vWorkQueue = Append(@, t), !.vEraseQueue = @ \cup {t}]
             ELSE [a EXCEPT !.vEraseQueue = @ \cup {t}, !.rejects = @ \cup {t},
                            !.setMisbehaving = IF answer = "invalid" THEN @ \cup {peer} ELSE @]
  BY Zenon DEF TryOrphan
<1> HIDE DEF peer, answer
<1>5. ASSUME answer = "accepted"
      PROVE  [a EXCEPT !.pool = addUnchecked(@, t), !.vWorkQueue = Append(@, t), !.vEraseQueue = @ \cup {t}]
                 \in OrphanLoops
  <2>1. Append(a.vWorkQueue, t) \in Seq(Txs) /\ a.vEraseQueue \cup {t} \in SUBSET Txs
    BY <1>1, <1>2
  <2> QED BY <2>1, <1>3, <1>5, Zenon DEF OrphanLoops
<1>6. [a EXCEPT !.vEraseQueue = @ \cup {t}, !.rejects = @ \cup {t},
                !.setMisbehaving = IF answer = "invalid" THEN @ \cup {peer} ELSE @] \in OrphanLoops
  <2>1. /\ a.vEraseQueue \cup {t} \in SUBSET Txs /\ a.rejects \cup {t} \in SUBSET Txs
        /\ (IF answer = "invalid" THEN a.setMisbehaving \cup {peer} ELSE a.setMisbehaving) \in SUBSET Peers
    BY <1>1, <1>2
  <2> QED BY <2>1, Zenon DEF OrphanLoops
<1> QED BY <1>4, <1>5, <1>6, Zenon

\* Every hash that mapOrphanTransactionsByPrev has is one of an orphan.
ByPrevFound == \A t \in Txs : mapOrphanTransactionsByPrev[t] \subseteq Orphans

\* The orphans that spend u.
LEMMA SpendersTyped ==
    ASSUME tip \in Blocks, OrphansTyped, ByPrevFound, NEW a \in OrphanLoops, NEW u \in Txs
    PROVE  TrySpenders(a, u) \in OrphanLoops
<1> DEFINE F == [n \in 0 .. Len(TxOrder) |-> OrphanLoops]
<1>1. Len(TxOrder) \in Nat
  BY OrderFacts, Zenon
<1>2. \A n \in 0 .. Len(TxOrder) : F[n] = OrphanLoops
  BY Zenon
<1> HIDE DEF F
<1>3. 0 \in 0 .. Len(TxOrder) /\ Len(TxOrder) \in 0 .. Len(TxOrder)
  BY <1>1
<1>4. ASSUME NEW n \in 1 .. Len(TxOrder), NEW v \in F[n - 1]
      PROVE  (IF TxOrder[n] \in mapOrphanTransactionsByPrev[u] THEN TryOrphan(v, TxOrder[n]) ELSE v) \in F[n]
  <2>1. n \in 0 .. Len(TxOrder) /\ n - 1 \in 0 .. Len(TxOrder)
    BY <1>1
  <2>2. v \in OrphanLoops /\ F[n] = OrphanLoops
    BY <2>1, <1>2, <1>4, Zenon
  <2>3. TxOrder[n] \in mapOrphanTransactionsByPrev[u] => TryOrphan(v, TxOrder[n]) \in OrphanLoops
    BY <2>2, TryTyped, Zenon DEF ByPrevFound
  <2> QED BY <2>2, <2>3, Zenon
<1>5. SpendersKeep(F, a, u)
  BY <1>2, <1>3, <1>4, Zenon DEF SpendersKeep
<1>6. TrySpenders(a, u) \in F[Len(TxOrder)]
  BY <1>1, <1>5, SpendersLoop, Zenon
<1> QED BY <1>2, <1>3, <1>6, Zenon

\* The loop over vWorkQueue.
LEMMA OrphansTypedLoop ==
    ASSUME tip \in Blocks, OrphansTyped, ByPrevFound, NEW a \in OrphanLoops
    PROVE  ProcessOrphans(a) \in OrphanLoops
<1> DEFINE F == [n \in 0 .. Len(TxOrder) |-> OrphanLoops]
<1>1. Len(TxOrder) \in Nat
  BY OrderFacts, Zenon
<1>2. \A n \in 0 .. Len(TxOrder) : F[n] = OrphanLoops
  BY Zenon
<1> HIDE DEF F
<1>3. 0 \in 0 .. Len(TxOrder) /\ Len(TxOrder) \in 0 .. Len(TxOrder)
  BY <1>1
<1>4. ASSUME NEW n \in 1 .. Len(TxOrder), NEW v \in F[n - 1]
      PROVE  (IF n <= Len(v.vWorkQueue) THEN TrySpenders(v, v.vWorkQueue[n]) ELSE v) \in F[n]
  <2>1. n \in 0 .. Len(TxOrder) /\ n - 1 \in 0 .. Len(TxOrder) /\ n \in Nat /\ 1 <= n
    BY <1>1
  <2>2. v \in OrphanLoops /\ F[n] = OrphanLoops
    BY <2>1, <1>2, <1>4, Zenon
  <2>3. v.vWorkQueue \in Seq(Txs)
    BY <2>2 DEF OrphanLoops
  <2>4. n <= Len(v.vWorkQueue) => v.vWorkQueue[n] \in Txs
    BY <2>1, <2>3
  <2>5. n <= Len(v.vWorkQueue) => TrySpenders(v, v.vWorkQueue[n]) \in OrphanLoops
    BY <2>2, <2>4, SpendersTyped, Zenon
  <2> QED BY <2>2, <2>5, Zenon
<1>5. OrphansKeep(F, a)
  BY <1>2, <1>3, <1>4, Zenon DEF OrphansKeep
<1>6. ProcessOrphans(a) \in F[Len(TxOrder)]
  BY <1>1, <1>5, OrphansLoop, Zenon
<1> QED BY <1>2, <1>3, <1>6, Zenon

-----------------------------------------------------------------------------
(* The invariant *)

\* blockStack leads from where the wallets are to a block that they will have
\* been told of, and ConnectTip has left an entry for every block above it.
OnTheWay ==
    /\ recentlyConflictedTxs \in ConflictMaps
    /\ blockStack \in Seq(Entries)
    /\ pc = "sleep" => blockStack = <<>>
    /\ pc = "disconnect" => pindexFork \in Chain[pindexLastTip]
    /\ \E target \in Blocks :
           /\ Leads(IF pc = "disconnect" THEN pindexFork ELSE pindexLastTip, blockStack, target)
           /\ Chain[tip] \ Chain[target] \subseteq DOMAIN recentlyConflictedTxs

PoolInv == tip \in Blocks /\ pool \in GoodPools(tip) /\ Fit(pool, Height[tip] + 1)
OrphanInv == OrphansTyped /\ OrphansSound
RejectInv == recentRejects \subseteq Txs /\ hashRecentRejectsChainTip \in Blocks /\ nEvents \in 0 .. MaxEvents
NotifyInv ==
    /\ pc \in {"sleep", "disconnect", "connect"}
    /\ pindexLastTip \in Blocks /\ pindexFork \in Blocks
    /\ recentlyAdded \subseteq Txs
    /\ wallet \in [Txs -> Blocks \cup {"unknown", "unconfirmed"}]

\* What is told of the block of e takes nothing back from the chain below it,
\* nor anything of the transactions S.
TellsApart(e, S) == e.conflicted \cap ChainTxs[Parent[e.block]] = {} /\ TxsOf(e.block) \cap S = {}

\* The wallets have what is in the chain they were told of and what was
\* collected from the pool, and what is still to be told spoils neither.
Told ==
    /\ \A b \in Chain[pindexLastTip] : \A t \in TxsOf(b) : wallet[t] = b
    /\ \A t \in Settled(pool) \ recentlyAdded : wallet[t] = "unconfirmed"
    /\ Apart(recentlyConflictedTxs)
    /\ \A i \in 1 .. Len(blockStack) : TellsApart(blockStack[i], Settled(pool) \cup recentlyAdded)
    /\ pc = "sleep" => recentlyAdded = {}
    /\ recentlyAdded \cap ChainTxs[IF pc = "disconnect" THEN pindexFork ELSE pindexLastTip] = {}

Inv == PoolInv /\ OrphanInv /\ RejectInv /\ NotifyInv /\ OnTheWay /\ Told

\* The start.
LEMMA InitInv == Init => Inv
<1> SUFFICES ASSUME Init PROVE Inv
  OBVIOUS
<1>0. Base \in Blocks /\ Chain[Base] = {Base}
  BY ChainFacts, ChainSolved, Zenon
<1>1. PoolInv
  <2>1. tip = Base /\ pool = EmptyPool
    BY Zenon DEF Init
  <2>2. EmptyPool.mapTx = {} /\ \A o \in OutPoints : EmptyPool.mapNextTx[o] = NoTx
    BY Zenon DEF EmptyPool
  <2>3. \A n \in Nullifiers : EmptyPool.mapSaplingNullifiers[n] = NoTx
    BY Zenon DEF EmptyPool
  <2>4. \A T, A : Good(EmptyPool, T, A)
    BY <2>2, <2>3, Zenon DEF Good
  <2>5. \A h : Fit(EmptyPool, h)
    BY <2>2, Zenon DEF Fit
  <2> QED BY <1>0, <2>1, <2>4, <2>5, EmptySound, Zenon DEF PoolInv, GoodPools
<1>2. OrphanInv
  <2>1. Orphans = {}
    BY DEF Init, Orphans
  <2>2. mapOrphanTransactionsByPrev = [t \in Txs |-> {}]
    BY Zenon DEF Init
  <2>3. OrphansTyped
    BY <2>1, <2>2 DEF OrphansTyped
  <2>4. Cardinality({}) <= nMaxOrphanTx
    BY FS_EmptySet, TxRelayAssumption DEF TxRelayAssumption
  <2>5. OrphansSound
    BY <2>1, <2>2, <2>4 DEF OrphansSound
  <2> QED BY <2>3, <2>5, Zenon DEF OrphanInv
<1>3. RejectInv
  <2>1. nEvents = 0 /\ recentRejects = {} /\ hashRecentRejectsChainTip = Base
    BY Zenon DEF Init
  <2> QED BY <2>1, <1>0, TxRelayAssumption DEF RejectInv, TxRelayAssumption
<1>4. NotifyInv
  <2>1. wallet = [t \in Txs |-> IF t \in TxsOf(Base) THEN Base ELSE "unknown"]
    BY Zenon DEF Init
  <2>2. wallet \in [Txs -> Blocks \cup {"unknown", "unconfirmed"}]
    BY <2>1, <1>0
  <2>3. pc = "sleep" /\ pindexLastTip = Base /\ pindexFork = Base /\ recentlyAdded = {}
    BY Zenon DEF Init
  <2> QED BY <2>2, <2>3, <1>0 DEF NotifyInv
<1>5. OnTheWay
  <2>1. /\ recentlyConflictedTxs = <<>> /\ blockStack = <<>> /\ pc = "sleep"
        /\ pindexLastTip = Base /\ tip = Base
    BY Zenon DEF Init
  <2>2. <<>> \in [{} -> SUBSET Txs] /\ {} \in SUBSET Blocks
    OBVIOUS
  <2>3. <<>> \in ConflictMaps
    BY <2>2, Zenon DEF ConflictMaps
  <2>4. <<>> \in Seq(Entries)
    OBVIOUS
  <2>5. Leads(Base, <<>>, Base)
    BY DEF Leads
  <2>6. Chain[Base] \ Chain[Base] \subseteq DOMAIN recentlyConflictedTxs
    BY <1>0
  <2> QED BY <2>1, <2>3, <2>4, <2>5, <2>6, <1>0 DEF OnTheWay
<1>6. Told
  <2>1. /\ pc = "sleep" /\ pindexLastTip = Base /\ recentlyAdded = {} /\ pool = EmptyPool
        /\ wallet = [t \in Txs |-> IF t \in TxsOf(Base) THEN Base ELSE "unknown"]
    BY Zenon DEF Init
  <2>2. Len(blockStack) = 0 /\ DOMAIN recentlyConflictedTxs = {}
    BY DEF Init
  <2>3. TxsOf(Base) \subseteq Txs
    BY <1>0, ChainTxsFacts, Zenon
  <2>4. \A b \in Chain[pindexLastTip] : \A t \in TxsOf(b) : wallet[t] = b
    BY <2>1, <2>3, <1>0, Zenon
  <2>5. Settled(pool) = {}
    BY <2>1, Zenon DEF Settled, EmptyPool
  <2>6. ~\E i \in 1 .. Len(blockStack) : TRUE
    BY <2>2
  <2> QED BY <2>1, <2>2, <2>4, <2>5, <2>6, Zenon DEF Told, Apart
<1> QED BY <1>1, <1>2, <1>3, <1>4, <1>5, <1>6, Zenon DEF Inv

\* EraseOrphanTx takes orphans out of both maps.
LEMMA EraseKeeps ==
    ASSUME OrphanInv, NEW gone, EraseOrphans(gone)
    PROVE  OrphanInv'
<1>1. /\ mapOrphanTransactions' = [t \in Orphans \ gone |-> mapOrphanTransactions[t]]
      /\ mapOrphanTransactionsByPrev' = [t \in Txs |-> mapOrphanTransactionsByPrev[t] \ (gone \cap Orphans)]
  BY Zenon DEF EraseOrphans
<1>2. /\ Orphans \subseteq Txs /\ \A t \in Orphans : mapOrphanTransactions[t] \in Peers
      /\ mapOrphanTransactionsByPrev \in [Txs -> SUBSET Txs]
      /\ \A t \in Txs : mapOrphanTransactionsByPrev[t] = {u \in Orphans : \E o \in Ins[u] : o[1] = t}
      /\ Cardinality(Orphans) <= nMaxOrphanTx
  BY Zenon DEF OrphanInv, OrphansTyped, OrphansSound
<1>3. Orphans' = Orphans \ gone
  BY <1>1, Zenon DEF Orphans
<1>4. \A t \in Orphans' : mapOrphanTransactions'[t] = mapOrphanTransactions[t]
  BY <1>1, <1>3, Zenon
<1>5. \A t \in Txs : mapOrphanTransactionsByPrev'[t] = mapOrphanTransactionsByPrev[t] \ (gone \cap Orphans)
  BY <1>1, Zenon
<1>6. mapOrphanTransactionsByPrev' \in [Txs -> SUBSET Txs]
  BY <1>1, <1>2
<1>7. ASSUME NEW t \in Txs PROVE mapOrphanTransactionsByPrev'[t] = {u \in Orphans' : \E o \in Ins[u] : o[1] = t}
  <2> DEFINE P(u) == \E o \in Ins[u] : o[1] = t
  <2>1. mapOrphanTransactionsByPrev[t] = {u \in Orphans : P(u)}
    BY <1>2, Zenon
  <2>2. mapOrphanTransactionsByPrev'[t] = {u \in Orphans : P(u)} \ (gone \cap Orphans)
    BY <2>1, <1>5, Zenon
  <2> HIDE DEF P
  <2>3. mapOrphanTransactionsByPrev'[t] = {u \in Orphans' : P(u)}
    BY <2>2, <1>3
  <2> QED BY <2>3, Zenon DEF P
<1>8. Cardinality(Orphans') <= nMaxOrphanTx
  <2>1. IsFiniteSet(Orphans)
    BY <1>2, TxsFinite, FS_Subset
  <2>2. /\ IsFiniteSet(Orphans') /\ Cardinality(Orphans') <= Cardinality(Orphans)
    <3>1. Orphans' \in SUBSET Orphans
      BY <1>3
    <3> QED BY <2>1, <3>1, FS_Subset, Zenon
  <2>3. Cardinality(Orphans) \in Nat /\ Cardinality(Orphans') \in Nat
    BY <2>1, <2>2, FS_CardinalityType, Zenon
  <2>4. nMaxOrphanTx \in Nat
    BY TxRelayAssumption, Zenon DEF TxRelayAssumption
  <2> QED BY <2>2, <2>3, <2>4, <1>2
<1>9. Orphans' \subseteq Txs /\ \A t \in Orphans' : mapOrphanTransactions'[t] \in Peers
  BY <1>2, <1>3, <1>4
<1> QED BY <1>6, <1>7, <1>8, <1>9, Zenon DEF OrphanInv, OrphansTyped, OrphansSound

\* AddOrphanTx enters an orphan under all it spends, and evicts.
LEMMA AddKeeps ==
    ASSUME OrphanInv, NEW t \in Txs, NEW peer \in Peers, AddOrphanTx(t, peer)
    PROVE  OrphanInv'
<1> DEFINE new == {t} \ Large
           all == Orphans \cup new
           spent == {o[1] : o \in Ins[t]}
<1>1. PICK kept \in LimitOrphanTxSize(all) :
            /\ mapOrphanTransactions' = [u \in kept |-> FromPeer(u, peer)]
            /\ mapOrphanTransactionsByPrev' =
                   [u \in Txs |-> (mapOrphanTransactionsByPrev[u] \cup (IF u \in spent THEN new ELSE {}))
                                  \ (all \ kept)]
  BY Zenon DEF AddOrphanTx
<1>2. /\ Orphans \subseteq Txs /\ \A u \in Orphans : mapOrphanTransactions[u] \in Peers
      /\ mapOrphanTransactionsByPrev \in [Txs -> SUBSET Txs]
      /\ \A s \in Txs : mapOrphanTransactionsByPrev[s] = {u \in Orphans : \E o \in Ins[u] : o[1] = s}
  BY Zenon DEF OrphanInv, OrphansTyped, OrphansSound
<1>3. kept \subseteq all /\ IF Cardinality(all) <= nMaxOrphanTx THEN kept = all ELSE Cardinality(kept) = nMaxOrphanTx
  BY <1>1, Zenon DEF LimitOrphanTxSize
<1>4. Orphans' = kept
  BY <1>1, Zenon DEF Orphans
<1>5. Cardinality(Orphans') <= nMaxOrphanTx
  <2>1. nMaxOrphanTx \in Nat
    BY TxRelayAssumption, Zenon DEF TxRelayAssumption
  <2> HIDE DEF all
  <2> QED BY <2>1, <1>3, <1>4
<1>6. all \subseteq Txs
  BY <1>2
<1>7. Orphans' \subseteq Txs /\ \A u \in Orphans' : mapOrphanTransactions'[u] \in Peers
  <2>1. \A u \in kept : mapOrphanTransactions'[u] = FromPeer(u, peer)
    BY <1>1, Zenon
  <2>2. \A u : FromPeer(u, peer) \in Peers
    BY <1>2, Zenon DEF FromPeer
  <2>3. kept \subseteq Txs
    BY <1>3, <1>6
  <2> QED BY <2>1, <2>2, <2>3, <1>4, Zenon
<1>8. mapOrphanTransactionsByPrev' \in [Txs -> SUBSET Txs]
  <2> DEFINE m(u) == (mapOrphanTransactionsByPrev[u] \cup (IF u \in spent THEN new ELSE {})) \ (all \ kept)
  <2>1. ASSUME NEW u \in Txs PROVE m(u) \in SUBSET Txs
    <3>1. mapOrphanTransactionsByPrev[u] \in SUBSET Txs
      BY <1>2, Zenon
    <3> HIDE DEF all, spent
    <3> QED BY <3>1
  <2>2. mapOrphanTransactionsByPrev' = [u \in Txs |-> m(u)]
    BY <1>1, Zenon
  <2> HIDE DEF m
  <2> QED BY <2>1, <2>2
<1>9. ASSUME NEW s \in Txs PROVE mapOrphanTransactionsByPrev'[s] = {u \in Orphans' : \E o \in Ins[u] : o[1] = s}
  <2> DEFINE P(u) == \E o \in Ins[u] : o[1] = s
  <2>1. mapOrphanTransactionsByPrev[s] = {u \in Orphans : P(u)}
    BY <1>2, Zenon
  <2>2. mapOrphanTransactionsByPrev'[s] = ({u \in Orphans : P(u)} \cup (IF s \in spent THEN new ELSE {})) \ (all \ kept)
    BY <2>1, <1>1, Zenon
  <2>3. s \in spent <=> P(t)
    BY Zenon
  <2> HIDE DEF P, spent
  <2>4. mapOrphanTransactionsByPrev'[s] = {u \in kept : P(u)}
    BY <2>2, <2>3, <1>3
  <2> QED BY <2>4, <1>4, Zenon DEF P
<1> QED BY <1>5, <1>7, <1>8, <1>9, Zenon DEF OrphanInv, OrphansTyped, OrphansSound

\* What a step that leaves the variables alone keeps.
LEMMA Unchanged ==
    /\ OrphanInv /\ UNCHANGED orphanVars => OrphanInv'
    /\ NotifyInv /\ UNCHANGED notifyVars => NotifyInv'
    /\ OnTheWay /\ UNCHANGED <<tip, recentlyConflictedTxs, notifyVars>> => OnTheWay'
<1>1. ASSUME OrphanInv, UNCHANGED orphanVars PROVE OrphanInv'
  <2>1. mapOrphanTransactions' = mapOrphanTransactions /\ mapOrphanTransactionsByPrev' = mapOrphanTransactionsByPrev
    BY <1>1, Zenon DEF orphanVars
  <2>2. Orphans' = Orphans
    BY <2>1, Zenon DEF Orphans
  <2> QED BY <1>1, <2>1, <2>2, Zenon DEF OrphanInv, OrphansTyped, OrphansSound
<1>2. ASSUME NotifyInv, UNCHANGED notifyVars PROVE NotifyInv'
  BY <1>2, Zenon DEF notifyVars, NotifyInv
<1>3. ASSUME OnTheWay, UNCHANGED <<tip, recentlyConflictedTxs, notifyVars>> PROVE OnTheWay'
  BY <1>3, Zenon DEF notifyVars, OnTheWay
<1> QED BY <1>1, <1>2, <1>3, Zenon

\* A step that only adds to the pool what is still to be collected tells the
\* wallets nothing wrong.
LEMMA ToldKept ==
    ASSUME Told, Settled(pool') \subseteq Settled(pool), Apart(recentlyConflictedTxs'), UNCHANGED notifyVars
    PROVE  Told'
<1>1. /\ pc' = pc /\ pindexLastTip' = pindexLastTip /\ pindexFork' = pindexFork /\ blockStack' = blockStack
      /\ recentlyAdded' = recentlyAdded /\ wallet' = wallet
  BY Zenon DEF notifyVars
<1>2. \A t \in Settled(pool') \ recentlyAdded : wallet[t] = "unconfirmed"
  BY Zenon DEF Told
<1>3. ASSUME NEW i \in 1 .. Len(blockStack) PROVE TellsApart(blockStack[i], Settled(pool') \cup recentlyAdded)
  <2>1. TellsApart(blockStack[i], Settled(pool) \cup recentlyAdded)
    BY Zenon DEF Told
  <2> QED BY <2>1, Zenon DEF TellsApart
<1>4. /\ \A b \in Chain[pindexLastTip] : \A t \in TxsOf(b) : wallet[t] = b
      /\ pc = "sleep" => recentlyAdded = {}
      /\ recentlyAdded \cap ChainTxs[IF pc = "disconnect" THEN pindexFork ELSE pindexLastTip] = {}
  BY Zenon DEF Told
<1>5. Settled(pool)' = Settled(pool') /\ Apart(recentlyConflictedTxs)' = Apart(recentlyConflictedTxs')
  BY Zenon DEF Settled, Apart
<1>6. \A e, S : TellsApart(e, S)' = TellsApart(e, S)
  BY Zenon DEF TellsApart
<1> QED BY <1>1, <1>2, <1>3, <1>4, <1>5, <1>6, Zenon DEF Told

\* The count of events stays below its bound.
LEMMA EventCounted ==
    ASSUME RejectInv, nEvents < MaxEvents
    PROVE  nEvents + 1 \in 0 .. MaxEvents
<1>1. nEvents \in 0 .. MaxEvents /\ MaxEvents \in Nat
  BY TxRelayAssumption, Zenon DEF RejectInv, TxRelayAssumption
<1> QED BY <1>1

\* A message that leaves the tip alone.
LEMMA RelayKeeps ==
    ASSUME PoolInv, Told, pool' \in RelayPools, UNCHANGED <<tip, recentlyConflictedTxs, notifyVars>>
    PROVE  PoolInv' /\ Told'
<1>1. tip' = tip /\ recentlyConflictedTxs' = recentlyConflictedTxs /\ UNCHANGED notifyVars
  BY Zenon
<1>2. pool' \in GoodPools(tip) /\ Fit(pool', Height[tip] + 1) /\ Settled(pool') \subseteq Settled(pool)
  BY Zenon DEF RelayPools
<1>3. PoolInv'
  <2>1. GoodPools(tip)' = GoodPools(tip') /\ Fit(pool, Height[tip] + 1)' = Fit(pool', Height[tip'] + 1)
    BY Zenon DEF GoodPools, Fit
  <2> QED BY <1>1, <1>2, <2>1, Zenon DEF PoolInv
<1>4. Apart(recentlyConflictedTxs')
  BY <1>1, Zenon DEF Told
<1>5. Told'
  BY <1>1, <1>2, <1>4, ToldKept, Zenon
<1> QED BY <1>3, <1>5, Zenon

\* The "tx" message.
LEMMA ReceiveTxStep ==
    ASSUME Inv, NEW t \in Txs, NEW peer \in Peers, ReceiveTx(t, peer)
    PROVE  Inv'
<1> DEFINE rejects == IF tip # hashRecentRejectsChainTip THEN {} ELSE recentRejects
           have == t \in rejects \cup pool.mapTx \cup Orphans \/ HaveCoins(tip, t)
           answer == IF have THEN "refused" ELSE Answer(pool, t)
           start == [pool |-> addUnchecked(pool, t), vWorkQueue |-> <<t>>, vEraseQueue |-> {},
                     rejects |-> rejects, setMisbehaving |-> {}]
           done == ProcessOrphans(start)
<1>1. /\ nEvents < MaxEvents /\ nEvents' = nEvents + 1
      /\ hashRecentRejectsChainTip' = tip
      /\ \/ /\ Answer(pool, t) = "accepted"
            /\ pool' = done.pool
            /\ recentRejects' = done.rejects
            /\ EraseOrphans(done.vEraseQueue)
         \/ /\ recentRejects' = rejects
            /\ AddOrphanTx(t, peer)
            /\ UNCHANGED pool
         \/ /\ recentRejects' = rejects \cup {t}
            /\ UNCHANGED <<pool, orphanVars>>
      /\ UNCHANGED <<tip, recentlyConflictedTxs, notifyVars>>
  <2>1. answer = "accepted" => Answer(pool, t) = "accepted"
    OBVIOUS
  <2> HIDE DEF answer
  <2> QED BY <2>1, Zenon DEF ReceiveTx, answer
<1>2. PoolInv /\ OrphanInv /\ RejectInv /\ NotifyInv /\ OnTheWay /\ Told
  BY Zenon DEF Inv
<1>3. rejects \subseteq Txs
  BY <1>2, Zenon DEF RejectInv
<1>p. tip \in Blocks /\ pool \in RelayPools
  BY <1>2, Zenon DEF PoolInv, RelayPools
<1>4. ASSUME Answer(pool, t) = "accepted" PROVE done.pool \in RelayPools /\ done.rejects \subseteq Txs
  <2> DEFINE q == addUnchecked(pool, t)
  <2>1. q \in RelayPools
    BY <1>p, <1>4, AcceptKeeps, Zenon
  <2> HIDE DEF q, rejects
  <2>2. start \in OrphanLoops
    <3>1. <<t>> \in Seq(Txs)
      OBVIOUS
    <3>2. start = [pool |-> q, vWorkQueue |-> <<t>>, vEraseQueue |-> {}, rejects |-> rejects, setMisbehaving |-> {}]
      BY Zenon DEF q
    <3> HIDE DEF start
    <3> QED BY <2>1, <3>1, <3>2, <1>3 DEF OrphanLoops
  <2> HIDE DEF start
  <2>3. OrphansTyped /\ ByPrevFound
    BY <1>2, Zenon DEF OrphanInv, OrphansSound, ByPrevFound
  <2>4. done \in OrphanLoops
    BY <1>p, <2>2, <2>3, OrphansTypedLoop, Zenon
  <2> HIDE DEF done
  <2> QED BY <2>4 DEF OrphanLoops
<1> HIDE DEF done, rejects
<1>5. PoolInv' /\ Told'
  BY <1>1, <1>2, <1>4, <1>p, RelayKeeps, Zenon
<1>6. OrphanInv'
  BY <1>1, <1>2, EraseKeeps, AddKeeps, Unchanged, Zenon
<1>7. RejectInv'
  <2>1. nEvents' \in 0 .. MaxEvents
    BY <1>1, <1>2, EventCounted, Zenon
  <2>2. recentRejects' \subseteq Txs
    BY <1>1, <1>3, <1>4, Zenon
  <2> QED BY <1>1, <1>p, <2>1, <2>2, Zenon DEF RejectInv
<1>8. NotifyInv' /\ OnTheWay'
  BY <1>1, <1>2, Unchanged, Zenon
<1> QED BY <1>5, <1>6, <1>7, <1>8, Zenon DEF Inv

\* sendrawtransaction.
LEMMA SendRawTransactionStep ==
    ASSUME Inv, NEW t \in Txs, SendRawTransaction(t)
    PROVE  Inv'
<1>1. /\ nEvents < MaxEvents /\ nEvents' = nEvents + 1
      /\ Answer(pool, t) = "accepted"
      /\ pool' = addUnchecked(pool, t)
      /\ UNCHANGED <<tip, orphanVars, rejectVars, recentlyConflictedTxs, notifyVars>>
  BY Zenon DEF SendRawTransaction
<1>2. PoolInv /\ OrphanInv /\ RejectInv /\ NotifyInv /\ OnTheWay /\ Told
  BY Zenon DEF Inv
<1>3. PoolInv' /\ Told'
  <2>1. tip \in Blocks /\ pool \in RelayPools
    BY <1>2, Zenon DEF PoolInv, RelayPools
  <2>2. pool' \in RelayPools
    BY <1>1, <2>1, AcceptKeeps, Zenon
  <2> QED BY <1>1, <1>2, <2>2, RelayKeeps, Zenon
<1>4. RejectInv'
  <2>1. nEvents' \in 0 .. MaxEvents
    BY <1>1, <1>2, EventCounted, Zenon
  <2> QED BY <1>1, <1>2, <2>1, Zenon DEF RejectInv, rejectVars
<1>5. OrphanInv' /\ NotifyInv' /\ OnTheWay'
  BY <1>1, <1>2, Unchanged, Zenon
<1> QED BY <1>3, <1>4, <1>5, Zenon DEF Inv

\* A peer leaves.
LEMMA EraseOrphansForStep ==
    ASSUME Inv, NEW peer \in Peers, EraseOrphansFor(peer)
    PROVE  Inv'
<1>1. /\ EraseOrphans({t \in Orphans : mapOrphanTransactions[t] = peer})
      /\ UNCHANGED <<tip, pool, rejectVars, recentlyConflictedTxs, notifyVars, nEvents>>
  BY Zenon DEF EraseOrphansFor
<1>2. PoolInv /\ OrphanInv /\ RejectInv /\ NotifyInv /\ OnTheWay /\ Told
  BY Zenon DEF Inv
<1>3. PoolInv' /\ RejectInv' /\ Told'
  <2>1. pool' \in RelayPools
    BY <1>1, <1>2, Zenon DEF PoolInv, RelayPools
  <2>2. RejectInv'
    BY <1>1, <1>2, Zenon DEF RejectInv, rejectVars
  <2> QED BY <1>1, <1>2, <2>1, <2>2, RelayKeeps, Zenon
<1>4. OrphanInv'
  BY <1>1, <1>2, EraseKeeps, Zenon
<1>5. NotifyInv' /\ OnTheWay'
  BY <1>1, <1>2, Unchanged, Zenon
<1> QED BY <1>3, <1>4, <1>5, Zenon DEF Inv

\* q is the good pool p with none of ts.
Purged(q, p, b, ts) ==
    /\ q \in GoodPools(b) /\ Settled(q) \subseteq Settled(p)
    /\ q.mapTx \subseteq p.mapTx /\ q.mapTx \cap ts = {}

\* What remove with fRecursive leaves of a good pool.
LEMMA RemoveAllGood ==
    ASSUME NEW b, NEW p \in GoodPools(b), NEW ts
    PROVE  Purged(RemoveAll(p, ts), p, b, ts)
<1> DEFINE S == Reached(p, ts)
           w == Without(p, S)
<1>1. p \in SoundPools /\ Good(p, ChainTxs[b], Anchors(b))
  BY Zenon DEF GoodPools
<1>2. S \subseteq p.mapTx /\ ts \cap p.mapTx \subseteq S /\ Family(p, S)
  BY ReachedFacts, Zenon
<1> HIDE DEF S
<1>3. S \in SUBSET p.mapTx
  BY <1>2, Zenon
<1>4. Good(w, ChainTxs[b], Anchors(b)) /\ Settled(w) \subseteq Settled(p)
  BY <1>1, <1>2, <1>3, FamilyGood, Zenon
<1>5. w \in SoundPools
  BY <1>1, WithoutSound, Zenon
<1>6. w.mapTx = p.mapTx \ S
  BY WithoutFields, Zenon DEF IsWithout
<1>7. RemoveAll(p, ts) = w
  BY Zenon DEF RemoveAll, S
<1> HIDE DEF w
<1>8. w.mapTx \subseteq p.mapTx /\ w.mapTx \cap ts = {}
  BY <1>2, <1>6, Zenon
<1>9. Purged(w, p, b, ts)
  BY <1>4, <1>5, <1>8, Zenon DEF Purged, GoodPools
<1> QED BY <1>7, <1>9, Zenon

\* removeForReorg leaves final transactions.
LEMMA ReorgGood ==
    ASSUME NEW b, NEW p \in GoodPools(b), NEW q, q = removeForReorg(p, b)
    PROVE  /\ q \in GoodPools(b) /\ Settled(q) \subseteq Settled(p)
           /\ \A t \in q.mapTx : IsFinalTx(t, Height[b] + 1)
<1> DEFINE ts == {t \in p.mapTx :
                    \/ ~IsFinalTx(t, Height[b] + 1)
                    \/ /\ \E o \in Ins[t] : o[1] \in Coinbases
                       /\ \E o \in Ins[t] : o[1] \notin p.mapTx /\ ~HaveCoins(b, o[1])}
<1>1. q = RemoveAll(p, ts)
  BY Zenon DEF removeForReorg
<1>2. \A t \in p.mapTx : t \notin ts => IsFinalTx(t, Height[b] + 1)
  BY Zenon
<1> HIDE DEF ts
<1>3. /\ q \in GoodPools(b) /\ Settled(q) \subseteq Settled(p)
      /\ q.mapTx \subseteq p.mapTx /\ q.mapTx \cap ts = {}
  <2>1. Purged(q, p, b, ts)
    BY <1>1, RemoveAllGood, Zenon
  <2> QED BY <2>1, Zenon DEF Purged
<1>4. \A t \in q.mapTx : t \in p.mapTx /\ t \notin ts
  BY <1>3
<1> QED BY <1>2, <1>3, <1>4, Zenon

\* q is the good pool p with the transactions of one branch only.
OfBranch(q, p, b, id) ==
    /\ q \in GoodPools(b) /\ Settled(q) \subseteq Settled(p) /\ q.mapTx \subseteq p.mapTx
    /\ \A t \in q.mapTx : Branch[t] = id

\* removeWithoutBranchId leaves those of the branch.
LEMMA BranchGood ==
    ASSUME NEW b, NEW p \in GoodPools(b), NEW id, NEW q, q = removeWithoutBranchId(p, id)
    PROVE  OfBranch(q, p, b, id)
<1> DEFINE ts == {t \in p.mapTx : Branch[t] # id}
<1>1. q = RemoveAll(p, ts)
  BY Zenon DEF removeWithoutBranchId
<1>2. \A t \in p.mapTx : t \notin ts => Branch[t] = id
  BY Zenon
<1> HIDE DEF ts
<1>3. /\ q \in GoodPools(b) /\ Settled(q) \subseteq Settled(p)
      /\ q.mapTx \subseteq p.mapTx /\ q.mapTx \cap ts = {}
  <2>1. Purged(q, p, b, ts)
    BY <1>1, RemoveAllGood, Zenon
  <2> QED BY <2>1, Zenon DEF Purged
<1>4. \A t \in q.mapTx : t \in p.mapTx /\ t \notin ts
  BY <1>3
<1> QED BY <1>2, <1>3, <1>4, Zenon DEF OfBranch

\* A final transaction stays final as the chain grows.
LEMMA StaysFinal ==
    ASSUME NEW b \in Blocks, NEW a \in Chain[b], NEW t \in Txs, IsFinalTx(t, Height[a] + 1)
    PROVE  IsFinalTx(t, Height[b] + 1)
<1>1. a \in Blocks /\ (a = b \/ Height[a] < Height[b])
  BY ChainFacts, Zenon
<1>2. LockTime \in [Txs -> Nat] /\ Height \in [Blocks -> Nat]
  BY TxMemPoolAssumption DEF TxMemPoolAssumption
<1>3. LockTime[t] \in Nat /\ Height[a] \in Nat /\ Height[b] \in Nat
  BY <1>1, <1>2
<1> QED BY <1>1, <1>3 DEF IsFinalTx

\* The tip moves to c.
LEMMA ActivateStep ==
    ASSUME Inv, NEW c \in Blocks, Activate(c)
    PROVE  Inv'
<1> DEFINE fork == FindFork(c)
           back == DisconnectTo(fork)
           done == ConnectTo([pool |-> back, conflicted |-> recentlyConflictedTxs], fork, c)
           fit == IF fork = tip THEN done.pool ELSE removeForReorg(done.pool, c)
<1>1. /\ nEvents < MaxEvents /\ nEvents' = nEvents + 1 /\ tip' = c
      /\ pool' = removeWithoutBranchId(fit, CurrentEpochBranchId(Height[c] + 1))
      /\ recentlyConflictedTxs' = done.conflicted
      /\ UNCHANGED <<orphanVars, rejectVars, notifyVars>>
  BY Zenon DEF Activate
<1>2. PoolInv /\ OrphanInv /\ RejectInv /\ NotifyInv /\ OnTheWay /\ Told
  BY Zenon DEF Inv
<1>3. /\ tip \in Blocks /\ pool \in GoodPools(tip) /\ Fit(pool, Height[tip] + 1)
      /\ recentlyConflictedTxs \in ConflictMaps /\ Apart(recentlyConflictedTxs)
  BY <1>2, Zenon DEF PoolInv, OnTheWay, Told
<1>4. fork \in Blocks /\ fork \in Chain[tip] /\ fork \in Chain[c]
  BY <1>3, ForkFacts, Zenon
<1>4a. Chain[fork] \subseteq Chain[tip]
  BY <1>3, <1>4, ChainFacts, Zenon
<1> HIDE DEF fork
<1>5. /\ back \in GoodPools(fork) /\ Settled(back) \subseteq Settled(pool)
      /\ fork = tip => back = pool
  <2>1. DisconnectDone(back, fork)
    BY <1>3, <1>4, DisconnectGood, Zenon
  <2> HIDE DEF back
  <2> QED BY <2>1, Zenon DEF DisconnectDone
<1> HIDE DEF back
<1>6. /\ done.pool \in GoodPools(c) /\ done.conflicted \in ConflictMaps /\ Apart(done.conflicted)
      /\ DOMAIN done.conflicted = DOMAIN recentlyConflictedTxs \cup (Chain[c] \ Chain[fork])
      /\ done.pool.mapTx \subseteq back.mapTx /\ Settled(done.pool) \subseteq Settled(back)
  <2>1. ConnectDone(done, back, recentlyConflictedTxs, fork, c)
    BY <1>3, <1>4, <1>5, ConnectGood, Zenon
  <2> HIDE DEF done
  <2> QED BY <2>1, Zenon DEF ConnectDone
<1> HIDE DEF done
<1> DEFINE h == Height[c] + 1
<1>7. fit \in GoodPools(c) /\ Settled(fit) \subseteq Settled(pool) /\ \A t \in fit.mapTx : IsFinalTx(t, h)
  <2>1. CASE fork = tip
    <3>1. fit = done.pool /\ fit.mapTx \subseteq pool.mapTx /\ tip \in Chain[c]
      BY <2>1, <1>4, <1>5, <1>6, Zenon
    <3>2. \A t \in pool.mapTx : IsFinalTx(t, Height[tip] + 1)
      BY <1>3, Zenon DEF Fit
    <3>3. pool.mapTx \subseteq Txs
      BY <1>3, PoolFields, Zenon DEF GoodPools
    <3>4. \A t \in fit.mapTx : IsFinalTx(t, h)
      <4>1. ASSUME NEW t \in fit.mapTx PROVE IsFinalTx(t, h)
        <5>1. t \in Txs /\ IsFinalTx(t, Height[tip] + 1)
          BY <3>1, <3>2, <3>3, Zenon
        <5> QED BY <5>1, <3>1, StaysFinal, Zenon
      <4> QED BY <4>1, Zenon
    <3> HIDE DEF fit, h
    <3> QED BY <3>1, <3>4, <1>5, <1>6, Zenon
  <2>2. CASE fork # tip
    <3>1. fit = removeForReorg(done.pool, c)
      BY <2>2, Zenon
    <3> HIDE DEF fit
    <3>2. /\ fit \in GoodPools(c) /\ Settled(fit) \subseteq Settled(done.pool)
          /\ \A t \in fit.mapTx : IsFinalTx(t, h)
      BY <3>1, <1>6, ReorgGood, Zenon
    <3> QED BY <3>2, <1>5, <1>6, Zenon
  <2> QED BY <2>1, <2>2, Zenon
<1> HIDE DEF fit
<1>8. PoolInv' /\ Told'
  <2>1. /\ pool' \in GoodPools(c) /\ Settled(pool') \subseteq Settled(fit) /\ pool'.mapTx \subseteq fit.mapTx
        /\ \A t \in pool'.mapTx : Branch[t] = CurrentEpochBranchId(h)
    <3> DEFINE id == CurrentEpochBranchId(h)
    <3>1. pool' = removeWithoutBranchId(fit, id)
      BY <1>1, Zenon
    <3> HIDE DEF id
    <3>2. OfBranch(pool', fit, c, id)
      BY <3>1, <1>7, BranchGood, Zenon
    <3> QED BY <3>2, Zenon DEF id, OfBranch
  <2>2. Fit(pool', h)
    BY <1>7, <2>1, Zenon DEF Fit
  <2>3. GoodPools(tip)' = GoodPools(tip') /\ Fit(pool, Height[tip] + 1)' = Fit(pool', Height[tip'] + 1)
    BY Zenon DEF GoodPools, Fit
  <2>4. PoolInv'
    BY <1>1, <2>1, <2>2, <2>3, Zenon DEF PoolInv
  <2>5. Apart(recentlyConflictedTxs') /\ Settled(pool') \subseteq Settled(pool) /\ UNCHANGED notifyVars
    BY <1>1, <1>6, <1>7, <2>1, Zenon
  <2> QED BY <1>2, <2>4, <2>5, ToldKept, Zenon
<1>9. RejectInv'
  <2>1. nEvents' \in 0 .. MaxEvents
    BY <1>1, <1>2, EventCounted, Zenon
  <2> QED BY <1>1, <1>2, <2>1, Zenon DEF RejectInv, rejectVars
<1>10. OrphanInv' /\ NotifyInv'
  BY <1>1, <1>2, Unchanged, Zenon
<1>11. OnTheWay'
  <2>1. PICK target \in Blocks :
           /\ Leads(IF pc = "disconnect" THEN pindexFork ELSE pindexLastTip, blockStack, target)
           /\ Chain[tip] \ Chain[target] \subseteq DOMAIN recentlyConflictedTxs
    BY <1>2, Zenon DEF OnTheWay
  <2>2. Chain[c] \ Chain[target] \subseteq DOMAIN recentlyConflictedTxs'
    BY <1>1, <1>4a, <1>6, <2>1
  <2>3. /\ pc' = pc /\ pindexLastTip' = pindexLastTip /\ pindexFork' = pindexFork /\ blockStack' = blockStack
    BY <1>1, Zenon DEF notifyVars
  <2> QED BY <1>1, <1>2, <1>6, <2>1, <2>2, <2>3, Zenon DEF OnTheWay
<1> QED BY <1>8, <1>9, <1>10, <1>11, Zenon DEF Inv

\* What the chain below a block has.
LEMMA BelowFacts ==
    /\ \A b \in Blocks : b # Base => TxsOf(b) \cap ChainTxs[Parent[b]] = {}
    /\ \A b \in Blocks : \A a \in Chain[b] : ChainTxs[a] \subseteq ChainTxs[b]
<1>1. ASSUME NEW b \in Blocks, b # Base, NEW t \in TxsOf(b) PROVE t \notin ChainTxs[Parent[b]]
  <2>0. TxsOf(b) = {Vtx[b][i] : i \in 1 .. Len(Vtx[b])}
    BY ChainTxsFacts, Zenon
  <2>1. PICK n \in 1 .. Len(Vtx[b]) : t = Vtx[b][n]
    BY <2>0, Zenon
  <2>2. n - 1 \in 0 .. Len(Vtx[b])
    OBVIOUS
  <2>3. Fits(TxsUpTo(b, n - 1), t) /\ ChainTxs[Parent[b]] \subseteq TxsUpTo(b, n - 1)
    BY <1>1, <2>1, <2>2, UpToFacts, Zenon
  <2> QED BY <2>3, Zenon DEF Fits
<1>2. ASSUME NEW b \in Blocks, NEW a \in Chain[b] PROVE ChainTxs[a] \subseteq ChainTxs[b]
  <2>1. a \in Blocks /\ Chain[a] \subseteq Chain[b]
    BY ChainFacts, Zenon
  <2>2. ChainTxs[a] = UNION {TxsOf(x) : x \in Chain[a]} /\ ChainTxs[b] = UNION {TxsOf(x) : x \in Chain[b]}
    BY <2>1, Zenon DEF ChainTxs
  <2> QED BY <2>1, <2>2, Zenon
<1> QED BY <1>1, <1>2, Zenon

\* The thread collects what it will tell.
LEMMA CollectStep ==
    ASSUME Inv, Collect
    PROVE  Inv'
<1> DEFINE fork == FindFork(pindexLastTip)
<1>1. /\ pc = "sleep" /\ pindexFork' = fork
      /\ IF Chain[tip] \ Chain[fork] \subseteq DOMAIN recentlyConflictedTxs
         THEN pc' = "disconnect" /\ blockStack' = Connected(fork)
         ELSE pc' = "thrown" /\ UNCHANGED blockStack
      /\ recentlyConflictedTxs' = <<>>
      /\ recentlyAdded' = pool.mapRecentlyAddedTx
      /\ pool' = DrainRecentlyAdded(pool)
      /\ UNCHANGED <<tip, orphanVars, rejectVars, pindexLastTip, wallet, nEvents>>
  BY Zenon DEF Collect
<1>2. PoolInv /\ OrphanInv /\ RejectInv /\ NotifyInv /\ OnTheWay /\ Told
  BY Zenon DEF Inv
<1>3. /\ tip \in Blocks /\ pool \in SoundPools /\ recentlyConflictedTxs \in ConflictMaps /\ pindexLastTip \in Blocks
      /\ Good(pool, ChainTxs[tip], Anchors(tip)) /\ Fit(pool, Height[tip] + 1)
  BY <1>2, Zenon DEF PoolInv, OnTheWay, NotifyInv, GoodPools
<1>4. /\ fork \in Blocks /\ fork \in Chain[tip] /\ fork \in Chain[pindexLastTip]
      /\ Chain[pindexLastTip] \cap Chain[tip] \subseteq Chain[fork]
  BY <1>3, ForkFacts, Zenon
<1> HIDE DEF fork
<1>5. Chain[tip] \ Chain[fork] \subseteq DOMAIN recentlyConflictedTxs
  <2>1. PICK target \in Blocks :
           /\ Leads(pindexLastTip, <<>>, target)
           /\ Chain[tip] \ Chain[target] \subseteq DOMAIN recentlyConflictedTxs
    <3>1. blockStack = <<>> /\ pc # "disconnect"
      BY <1>1, <1>2 DEF OnTheWay
    <3> QED BY <3>1, <1>2, Zenon DEF OnTheWay
  <2>2. target = pindexLastTip
    BY <2>1 DEF Leads
  <2> QED BY <2>1, <2>2, <1>4
<1>6. pc' = "disconnect" /\ blockStack' = Connected(fork)
  BY <1>1, <1>5, Zenon
<1>7. PoolInv' /\ pool'.mapTx = pool.mapTx /\ pool'.mapRecentlyAddedTx = {}
  <2>1. pool \in Pools
    BY <1>3, Zenon DEF SoundPools
  <2> DEFINE q == DrainRecentlyAdded(pool)
  <2>2. /\ q \in Pools /\ q.mapRecentlyAddedTx = {} /\ q.mapTx = pool.mapTx
        /\ q.mapNextTx = pool.mapNextTx /\ q.mapSaplingNullifiers = pool.mapSaplingNullifiers
    BY <2>1 DEF DrainRecentlyAdded, Pools
  <2> HIDE DEF q
  <2>3. q \in SoundPools
    BY <2>2 DEF SoundPools
  <2>4. Good(q, ChainTxs[tip], Anchors(tip))
    <3> DEFINE T == ChainTxs[tip]
               A == Anchors(tip)
               M == pool.mapTx
               X == pool.mapNextTx
               S == pool.mapSaplingNullifiers
    <3>1. q.mapTx = M /\ q.mapNextTx = X /\ q.mapSaplingNullifiers = S
      BY <2>2, Zenon
    <3>2. /\ \A t \in M : \A o \in Ins[t] :
                 X[o] = t /\ IF o[1] \in M THEN o \in OutputsOf(o[1]) ELSE o \in Spendable(T)
          /\ \A t \in M : \A n \in Nullifier[t] : S[n] = t /\ n \notin Revealed(T)
          /\ \A t \in M : Nullifier[t] # {} => Anchor[t] \in A
          /\ \A o \in OutPoints : X[o] # NoTx => X[o] \in M /\ o \in Ins[X[o]]
          /\ \A n \in Nullifiers : S[n] # NoTx => S[n] \in M /\ n \in Nullifier[S[n]]
          /\ M \cap T = {}
      BY <1>3, Zenon DEF Good
    <3> HIDE DEF T, A, M, X, S
    <3>3. Good(q, T, A)
      BY <3>1, <3>2, Zenon DEF Good
    <3> QED BY <3>3, Zenon DEF T, A
  <2>5. Fit(q, Height[tip] + 1)
    BY <2>2, <1>3, Zenon DEF Fit
  <2>6. pool' = q /\ tip' = tip
    BY <1>1, Zenon DEF q
  <2>7. q \in GoodPools(tip)
    BY <2>3, <2>4, Zenon DEF GoodPools
  <2>8. GoodPools(tip)' = GoodPools(tip') /\ Fit(pool, Height[tip] + 1)' = Fit(pool', Height[tip'] + 1)
    BY Zenon DEF GoodPools, Fit
  <2>9. PoolInv'
    BY <2>5, <2>6, <2>7, <2>8, <1>3, Zenon DEF PoolInv
  <2> QED BY <2>2, <2>6, <2>9, Zenon
<1>8. OrphanInv' /\ RejectInv'
  BY <1>1, <1>2, Unchanged, Zenon DEF RejectInv, rejectVars
<1>9. NotifyInv'
  <2>1. pool.mapRecentlyAddedTx \subseteq Txs
    BY <1>3, PoolFields, Zenon
  <2> QED BY <1>1, <1>2, <1>4, <1>6, <2>1, Zenon DEF NotifyInv
<1>10. OnTheWay'
  <2>1. <<>> \in [{} -> SUBSET Txs] /\ {} \in SUBSET Blocks
    OBVIOUS
  <2>2. recentlyConflictedTxs' \in ConflictMaps
    BY <1>1, <2>1, Zenon DEF ConflictMaps
  <2>3. Connected(fork) \in Seq(Entries) /\ Leads(fork, Connected(fork), tip)
    BY <1>3, <1>4, <1>5, StackLeads, Zenon
  <2>4. Chain[tip] \ Chain[tip] \subseteq DOMAIN recentlyConflictedTxs'
    OBVIOUS
  <2>5. pindexFork' = fork /\ tip' = tip /\ pindexLastTip' = pindexLastTip
    BY <1>1, Zenon
  <2>6. pc' # "sleep" /\ (IF pc' = "disconnect" THEN pindexFork' ELSE pindexLastTip') = fork
    BY <1>6, <2>5
  <2> QED BY <1>3, <1>4, <1>6, <2>2, <2>3, <2>4, <2>5, <2>6, Zenon DEF OnTheWay
<1>11. Told'
  <2> DEFINE R == pool.mapRecentlyAddedTx
             M == pool.mapTx
  <2>1. /\ recentlyAdded' = R /\ wallet' = wallet /\ pindexLastTip' = pindexLastTip /\ pindexFork' = fork
        /\ recentlyConflictedTxs' = <<>> /\ blockStack' = Connected(fork)
    BY <1>1, <1>6, Zenon
  <2>2. R \subseteq M /\ M \cap ChainTxs[tip] = {}
    BY <1>3, PoolFields, Zenon DEF Good
  <2>3. Settled(pool)' = M
    BY <1>7, Zenon DEF Settled
  <2>4. Settled(pool) = M \ R
    BY Zenon DEF Settled
  <2>5. recentlyAdded = {}
    BY <1>1, <1>2, Zenon DEF Told
  <2>6. \A t \in M \ R : wallet[t] = "unconfirmed"
    BY <1>2, <2>4, <2>5, Zenon DEF Told
  <2>7. \A b \in Chain[pindexLastTip] : \A t \in TxsOf(b) : wallet[t] = b
    BY <1>2, Zenon DEF Told
  <2> HIDE DEF M, R
  <2>8. Apart(recentlyConflictedTxs)'
    <3>1. DOMAIN recentlyConflictedTxs' = {}
      BY <2>1
    <3> QED BY <3>1, Zenon DEF Apart
  <2>9. ASSUME NEW i \in 1 .. Len(Connected(fork)) PROVE TellsApart(Connected(fork)[i], M \cup R)
    <3> DEFINE e == Connected(fork)[i]
    <3>1. Taken(Connected(fork))
      BY <1>3, <1>4, <1>5, StackLeads, Zenon
    <3>2. e.block \in Chain[tip] /\ e.block \in DOMAIN recentlyConflictedTxs /\ e.conflicted = recentlyConflictedTxs[e.block]
      BY <3>1, Zenon DEF Taken
    <3> HIDE DEF e
    <3>3. e.conflicted \cap ChainTxs[Parent[e.block]] = {}
      BY <3>2, <1>2, Zenon DEF Told, Apart
    <3>4. TxsOf(e.block) \subseteq ChainTxs[tip]
      BY <3>2, <1>3, ChainTxsFacts, Zenon
    <3>5. TxsOf(e.block) \cap (M \cup R) = {}
      BY <3>4, <2>2
    <3>6. TellsApart(e, M \cup R)
      BY <3>3, <3>5, Zenon DEF TellsApart
    <3> QED BY <3>6, Zenon DEF e
  <2>10. R \cap ChainTxs[fork] = {}
    <3>1. ChainTxs[fork] \subseteq ChainTxs[tip]
      BY <1>3, <1>4, BelowFacts, Zenon
    <3> QED BY <3>1, <2>2
  <2>11. pc' = "disconnect" /\ pc' # "sleep"
    BY <1>6
  <2>12. \A e, S : TellsApart(e, S)' = TellsApart(e, S)
    BY Zenon DEF TellsApart
  <2> QED BY <2>1, <2>3, <2>6, <2>7, <2>8, <2>9, <2>10, <2>11, <2>12, Zenon DEF Told
<1> QED BY <1>7, <1>8, <1>9, <1>10, <1>11, Zenon DEF Inv

\* The pool has transactions.
LEMMA SettledTxs ==
    ASSUME PoolInv
    PROVE  Settled(pool) \subseteq Txs
<1>1. pool \in SoundPools
  BY Zenon DEF PoolInv, GoodPools
<1> QED BY <1>1, PoolFields, Zenon DEF Settled

\* The pool stays when it and the tip do.
LEMMA PoolUnchanged ==
    ASSUME PoolInv, UNCHANGED <<tip, pool>>
    PROVE  PoolInv'
<1>1. tip' = tip /\ pool' = pool
  BY Zenon
<1>2. GoodPools(tip)' = GoodPools(tip') /\ Fit(pool, Height[tip] + 1)' = Fit(pool', Height[tip'] + 1)
  BY Zenon DEF GoodPools, Fit
<1> QED BY <1>1, <1>2, Zenon DEF PoolInv

\* A block is disconnected, or all are.
LEMMA NotifyDisconnectStep ==
    ASSUME Inv, NotifyDisconnect
    PROVE  Inv'
<1>1. /\ pc = "disconnect"
      /\ IF pindexLastTip = pindexFork THEN pc' = "connect" /\ UNCHANGED <<wallet, pindexLastTip>>
         ELSE /\ wallet' = SyncWithWallets(wallet, TxsOf(pindexLastTip), "unconfirmed")
              /\ pindexLastTip' = Parent[pindexLastTip]
              /\ UNCHANGED pc
      /\ UNCHANGED <<tip, pool, orphanVars, rejectVars, recentlyConflictedTxs, pindexFork, blockStack,
                     recentlyAdded, nEvents>>
  BY Zenon DEF NotifyDisconnect
<1>2. PoolInv /\ OrphanInv /\ RejectInv /\ NotifyInv /\ OnTheWay /\ Told
  BY Zenon DEF Inv
<1>3. PoolInv' /\ OrphanInv' /\ RejectInv'
  BY <1>1, <1>2, PoolUnchanged, Unchanged, Zenon DEF RejectInv, rejectVars
<1>s. /\ Settled(pool)' = Settled(pool) /\ Apart(recentlyConflictedTxs)'
      /\ \A e, S : TellsApart(e, S)' = TellsApart(e, S)
  BY <1>1, <1>2, Zenon DEF Settled, Told, Apart, TellsApart
<1>4. /\ pindexLastTip \in Blocks /\ pindexFork \in Chain[pindexLastTip]
      /\ wallet \in [Txs -> Blocks \cup {"unknown", "unconfirmed"}]
  BY <1>1, <1>2, Zenon DEF NotifyInv, OnTheWay
<1>5. PICK target \in Blocks :
         /\ Leads(pindexFork, blockStack, target)
         /\ Chain[tip] \ Chain[target] \subseteq DOMAIN recentlyConflictedTxs
  BY <1>1, <1>2, Zenon DEF OnTheWay
<1>6. CASE pindexLastTip = pindexFork
  <2>1. pc' = "connect" /\ UNCHANGED <<wallet, pindexLastTip>>
    BY <1>1, <1>6, Zenon
  <2>2. NotifyInv'
    BY <1>1, <1>2, <2>1, Zenon DEF NotifyInv
  <2>3. pc' # "sleep" /\ pc' # "disconnect" /\ pindexLastTip' = pindexFork
    BY <2>1, <1>6
  <2>4. OnTheWay'
    BY <1>1, <1>2, <1>5, <2>3, Zenon DEF OnTheWay
  <2>5. Told'
    <3>1. /\ UNCHANGED <<wallet, blockStack, recentlyAdded>> /\ pindexLastTip' = pindexLastTip
      BY <1>1, <2>1, Zenon
    <3>2. recentlyAdded \cap ChainTxs[pindexLastTip] = {}
      BY <1>1, <1>2, <1>6, Zenon DEF Told
    <3> QED BY <1>2, <1>s, <2>3, <3>1, <3>2, Zenon DEF Told
  <2> QED BY <1>3, <2>2, <2>4, <2>5, Zenon DEF Inv
<1>7. CASE pindexLastTip # pindexFork
  <2>1. /\ wallet' = SyncWithWallets(wallet, TxsOf(pindexLastTip), "unconfirmed")
        /\ pindexLastTip' = Parent[pindexLastTip] /\ pc' = pc
    BY <1>1, <1>7, Zenon
  <2>2. pindexLastTip # Base
    <3>1. Chain[Base] = {Base}
      BY ChainSolved, Zenon
    <3> QED BY <1>4, <1>7, <3>1
  <2>3. pindexLastTip' \in Blocks /\ pindexFork \in Chain[pindexLastTip']
    <3>1. Parent[pindexLastTip] \in Blocks
      BY <1>4, <2>2, ParentFacts, Zenon
    <3>2. Chain[pindexLastTip] = Chain[Parent[pindexLastTip]] \cup {pindexLastTip}
      BY <1>4, <2>2, ChainSolved, Zenon
    <3> QED BY <1>4, <1>7, <2>1, <3>1, <3>2
  <2>4. wallet' \in [Txs -> Blocks \cup {"unknown", "unconfirmed"}]
    BY <1>4, <2>1 DEF SyncWithWallets
  <2>5. NotifyInv'
    BY <1>1, <1>2, <2>1, <2>3, <2>4, Zenon DEF NotifyInv
  <2>6. pc' = "disconnect" /\ pc' # "sleep"
    BY <1>1, <2>1
  <2>7. OnTheWay'
    BY <1>1, <1>2, <1>5, <2>3, <2>6, Zenon DEF OnTheWay
  <2>8. Told'
    <3> DEFINE B == Parent[pindexLastTip]
    <3>1. /\ UNCHANGED <<blockStack, recentlyAdded, pindexFork>> /\ pindexLastTip' = B /\ B \in Blocks
      BY <1>1, <2>1, <2>3, Zenon
    <3>2. \A t \in Txs : wallet'[t] = IF t \in TxsOf(pindexLastTip) THEN "unconfirmed" ELSE wallet[t]
      BY <2>1, Zenon DEF SyncWithWallets
    <3>3. TxsOf(pindexLastTip) \cap ChainTxs[B] = {} /\ Chain[B] \subseteq Chain[pindexLastTip]
      BY <1>4, <2>2, BelowFacts, ChainSolved, Zenon
    <3>4. ASSUME NEW b \in Chain[B], NEW t \in TxsOf(b) PROVE wallet'[t] = b
      <4>1. b \in Blocks /\ t \in Txs /\ t \in ChainTxs[B]
        BY <3>1, ChainFacts, ChainTxsFacts, Zenon
      <4>2. wallet[t] = b
        BY <1>2, <3>3, Zenon DEF Told
      <4> QED BY <3>2, <3>3, <4>1, <4>2, Zenon
    <3>5. ASSUME NEW t \in Settled(pool) \ recentlyAdded PROVE wallet'[t] = "unconfirmed"
      <4>1. t \in Txs
        BY <1>2, SettledTxs, Zenon
      <4>2. wallet[t] = "unconfirmed"
        BY <1>2, Zenon DEF Told
      <4> QED BY <3>2, <4>1, <4>2, Zenon
    <3>6. recentlyAdded \cap ChainTxs[pindexFork] = {}
      BY <1>1, <1>2, Zenon DEF Told
    <3> HIDE DEF B
    <3> QED BY <1>2, <1>s, <2>6, <3>1, <3>4, <3>5, <3>6, Zenon DEF Told
  <2> QED BY <1>3, <2>5, <2>7, <2>8, Zenon DEF Inv
<1> QED BY <1>6, <1>7, Zenon

\* A block is connected, or the pool's transactions are told.
LEMMA NotifyConnectStep ==
    ASSUME Inv, NotifyConnect
    PROVE  Inv'
<1>1. /\ pc = "connect"
      /\ IF blockStack = <<>>
         THEN /\ wallet' = SyncWithWallets(wallet, recentlyAdded, "unconfirmed")
              /\ recentlyAdded' = {}
              /\ pc' = "sleep"
              /\ UNCHANGED <<pindexLastTip, blockStack>>
         ELSE /\ wallet' = TellConnected(wallet, Head(blockStack))
              /\ pindexLastTip' = Head(blockStack).block
              /\ blockStack' = Tail(blockStack)
              /\ UNCHANGED <<pc, recentlyAdded>>
      /\ UNCHANGED <<tip, pool, orphanVars, rejectVars, recentlyConflictedTxs, pindexFork, nEvents>>
  BY Zenon DEF NotifyConnect
<1>2. PoolInv /\ OrphanInv /\ RejectInv /\ NotifyInv /\ OnTheWay /\ Told
  BY Zenon DEF Inv
<1>3. PoolInv' /\ OrphanInv' /\ RejectInv'
  BY <1>1, <1>2, PoolUnchanged, Unchanged, Zenon DEF RejectInv, rejectVars
<1>s. /\ Settled(pool)' = Settled(pool) /\ Apart(recentlyConflictedTxs)'
      /\ \A e, S : TellsApart(e, S)' = TellsApart(e, S)
  BY <1>1, <1>2, Zenon DEF Settled, Told, Apart, TellsApart
<1>4. /\ pindexLastTip \in Blocks /\ blockStack \in Seq(Entries) /\ pc # "disconnect" /\ pc # "sleep"
      /\ wallet \in [Txs -> Blocks \cup {"unknown", "unconfirmed"}]
  BY <1>1, <1>2 DEF NotifyInv, OnTheWay
<1>5. PICK target \in Blocks :
         /\ Leads(pindexLastTip, blockStack, target)
         /\ Chain[tip] \ Chain[target] \subseteq DOMAIN recentlyConflictedTxs
  BY <1>2, <1>4, Zenon DEF OnTheWay
<1>6. CASE blockStack = <<>>
  <2>1. /\ wallet' = SyncWithWallets(wallet, recentlyAdded, "unconfirmed")
        /\ recentlyAdded' = {} /\ pc' = "sleep" /\ UNCHANGED <<pindexLastTip, blockStack>>
    BY <1>1, <1>6, Zenon
  <2>2. wallet' \in [Txs -> Blocks \cup {"unknown", "unconfirmed"}]
    BY <1>4, <2>1 DEF SyncWithWallets
  <2>3. NotifyInv'
    BY <1>1, <1>2, <2>1, <2>2 DEF NotifyInv
  <2>4. pc' # "disconnect" /\ blockStack' = <<>>
    BY <1>6, <2>1
  <2>5. OnTheWay'
    BY <1>1, <1>2, <1>5, <2>1, <2>4, Zenon DEF OnTheWay
  <2>6. Told'
    <3>1. \A t \in Txs : wallet'[t] = IF t \in recentlyAdded THEN "unconfirmed" ELSE wallet[t]
      BY <2>1, Zenon DEF SyncWithWallets
    <3>2. recentlyAdded \cap ChainTxs[pindexLastTip] = {}
      BY <1>2, <1>4, Zenon DEF Told
    <3>3. ASSUME NEW b \in Chain[pindexLastTip], NEW t \in TxsOf(b) PROVE wallet'[t] = b
      <4>1. b \in Blocks /\ t \in Txs /\ t \in ChainTxs[pindexLastTip]
        BY <1>4, ChainFacts, ChainTxsFacts, Zenon
      <4>2. wallet[t] = b
        BY <1>2, Zenon DEF Told
      <4> QED BY <3>1, <3>2, <4>1, <4>2, Zenon
    <3>4. ASSUME NEW t \in Settled(pool) PROVE wallet'[t] = "unconfirmed"
      <4>1. t \in Txs
        BY <1>2, SettledTxs, Zenon
      <4>2. t \notin recentlyAdded => wallet[t] = "unconfirmed"
        BY <1>2, Zenon DEF Told
      <4> QED BY <3>1, <4>1, <4>2, Zenon
    <3>5. ~\E i \in 1 .. Len(blockStack') : TRUE
      BY <2>4
    <3> QED BY <1>s, <2>1, <3>3, <3>4, <3>5, Zenon DEF Told
  <2> QED BY <1>3, <2>3, <2>5, <2>6, Zenon DEF Inv
<1>7. CASE blockStack # <<>>
  <2> DEFINE e == Head(blockStack)
  <2>1. /\ wallet' = TellConnected(wallet, e)
        /\ pindexLastTip' = e.block /\ blockStack' = Tail(blockStack)
        /\ UNCHANGED <<pc, recentlyAdded>>
    BY <1>1, <1>7, Zenon
  <2>2. /\ e \in Entries /\ Tail(blockStack) \in Seq(Entries) /\ e = blockStack[1]
        /\ Len(blockStack) \in Nat \ {0} /\ Len(Tail(blockStack)) = Len(blockStack) - 1
        /\ \A i \in 1 .. Len(Tail(blockStack)) : Tail(blockStack)[i] = blockStack[i + 1]
    BY <1>4, <1>7
  <2> HIDE DEF e
  <2>3. e.block \in Blocks
    BY <2>2 DEF Entries
  <2>4. wallet' \in [Txs -> Blocks \cup {"unknown", "unconfirmed"}]
    BY <1>4, <2>1, <2>3 DEF TellConnected, SyncWithWallets
  <2>5. NotifyInv'
    BY <1>1, <1>2, <2>1, <2>3, <2>4, Zenon DEF NotifyInv
  <2>6. Leads(e.block, Tail(blockStack), target)
    <3> DEFINE s == blockStack
               u == Tail(blockStack)
    <3>1. /\ \A i \in 1 .. Len(s) : /\ s[i].block \in Blocks \ {Base}
                                    /\ Parent[s[i].block] = IF i = 1 THEN pindexLastTip ELSE s[i - 1].block
          /\ target = IF Len(s) = 0 THEN pindexLastTip ELSE s[Len(s)].block
      BY <1>5, Zenon DEF Leads
    <3>2. /\ Len(s) \in Nat \ {0} /\ Len(u) = Len(s) - 1 /\ e = s[1]
          /\ \A i \in 1 .. Len(u) : u[i] = s[i + 1]
      BY <2>2, Zenon
    <3> HIDE DEF s, u
    <3>3. target = IF Len(u) = 0 THEN e.block ELSE u[Len(u)].block
      BY <3>1, <3>2
    <3>4. ASSUME NEW i \in 1 .. Len(u)
          PROVE  /\ u[i].block \in Blocks \ {Base}
                 /\ Parent[u[i].block] = IF i = 1 THEN e.block ELSE u[i - 1].block
      <4>1. i + 1 \in 1 .. Len(s) /\ i + 1 # 1 /\ (i + 1) - 1 = i /\ u[i] = s[i + 1]
        BY <3>2
      <4>2. s[i + 1].block \in Blocks \ {Base} /\ Parent[s[i + 1].block] = s[i].block
        BY <3>1, <4>1, Zenon
      <4>3. i # 1 => i - 1 \in 1 .. Len(u) /\ (i - 1) + 1 = i
        BY <3>2
      <4>4. i # 1 => u[i - 1] = s[i]
        BY <3>2, <4>3, Zenon
      <4> QED BY <3>2, <4>1, <4>2, <4>4, Zenon
    <3>5. Leads(e.block, u, target)
      BY <3>3, <3>4, Zenon DEF Leads
    <3> QED BY <3>5, Zenon DEF u
  <2>7. pc' # "sleep" /\ pc' # "disconnect"
    BY <1>4, <2>1
  <2>8. OnTheWay'
    BY <1>1, <1>2, <1>5, <2>1, <2>2, <2>6, <2>7, Zenon DEF OnTheWay
  <2>9. Told'
    <3> DEFINE S == Settled(pool) \cup recentlyAdded
               L == pindexLastTip
               B == e.block
    <3>1. 1 \in 1 .. Len(blockStack)
      BY <2>2
    <3>2. B # Base /\ Parent[B] = L
      BY <1>5, <2>2, <3>1, Zenon DEF Leads
    <3>3. TellsApart(e, S)
      BY <1>2, <2>2, <3>1, Zenon DEF Told
    <3>4. e.conflicted \cap ChainTxs[L] = {} /\ TxsOf(B) \cap S = {}
      BY <3>2, <3>3, Zenon DEF TellsApart
    <3>5. /\ TxsOf(B) \cap ChainTxs[L] = {} /\ Chain[B] = Chain[L] \cup {B}
          /\ ChainTxs[B] = ChainTxs[L] \cup TxsOf(B) /\ TxsOf(B) \subseteq Txs
      BY <2>3, <3>2, BelowFacts, ChainSolved, ChainTxsFacts, Zenon
    <3>6. ASSUME NEW t \in Txs
          PROVE  wallet'[t] = IF t \in TxsOf(B) THEN B ELSE IF t \in e.conflicted THEN "unconfirmed" ELSE wallet[t]
      <4> DEFINE w == SyncWithWallets(wallet, e.conflicted, "unconfirmed")
      <4>1. wallet' = SyncWithWallets(w, TxsOf(B), B)
        BY <2>1, Zenon DEF TellConnected
      <4>2. w[t] = IF t \in e.conflicted THEN "unconfirmed" ELSE wallet[t]
        BY Zenon DEF SyncWithWallets
      <4> HIDE DEF w
      <4>3. wallet'[t] = IF t \in TxsOf(B) THEN B ELSE w[t]
        BY <4>1, Zenon DEF SyncWithWallets
      <4> QED BY <4>2, <4>3, Zenon
    <3>7. ASSUME NEW b \in Chain[B], NEW t \in TxsOf(b) PROVE wallet'[t] = b
      <4>1. CASE b = B
        BY <3>5, <3>6, <4>1, Zenon
      <4>2. CASE b \in Chain[L]
        <5>1. b \in Blocks /\ t \in Txs /\ t \in ChainTxs[L]
          BY <1>4, <4>2, ChainFacts, ChainTxsFacts, Zenon
        <5>2. wallet[t] = b
          BY <1>2, <4>2, Zenon DEF Told
        <5>3. t \notin TxsOf(B) /\ t \notin e.conflicted
          BY <3>4, <3>5, <5>1, Zenon
        <5> QED BY <3>6, <5>1, <5>2, <5>3, Zenon
      <4> QED BY <3>5, <4>1, <4>2, Zenon
    <3>8. ASSUME NEW t \in Settled(pool) \ recentlyAdded PROVE wallet'[t] = "unconfirmed"
      <4>1. t \in Txs
        BY <1>2, SettledTxs, Zenon
      <4>2. wallet[t] = "unconfirmed" /\ t \notin TxsOf(B)
        BY <1>2, <3>4, Zenon DEF Told
      <4> QED BY <3>6, <4>1, <4>2, Zenon
    <3>9. ASSUME NEW i \in 1 .. Len(Tail(blockStack)) PROVE TellsApart(Tail(blockStack)[i], S)
      <4>1. i + 1 \in 1 .. Len(blockStack)
        BY <2>2
      <4>2. TellsApart(blockStack[i + 1], S)
        BY <1>2, <4>1, Zenon DEF Told
      <4> QED BY <2>2, <4>2, Zenon
    <3>10. recentlyAdded \cap ChainTxs[B] = {}
      <4>1. recentlyAdded \cap ChainTxs[L] = {}
        BY <1>2, <1>4, Zenon DEF Told
      <4> QED BY <4>1, <3>4, <3>5
    <3>11. recentlyAdded' = recentlyAdded /\ pindexLastTip' = B /\ blockStack' = Tail(blockStack)
      BY <2>1, Zenon
    <3> HIDE DEF B, L
    <3> QED BY <1>s, <2>7, <3>7, <3>8, <3>9, <3>10, <3>11, Zenon DEF Told
  <2> QED BY <1>3, <2>5, <2>8, <2>9, Zenon DEF Inv
<1> QED BY <1>6, <1>7, Zenon

\* The invariant holds always.
THEOREM Invariance == Spec => []Inv
<1>1. Inv /\ [Next]_vars => Inv'
  <2> SUFFICES ASSUME Inv, [Next]_vars PROVE Inv'
    OBVIOUS
  <2>1. ASSUME NEW t \in Sent, NEW peer \in Peers, ReceiveTx(t, peer) PROVE Inv'
    <3>1. t \in Txs
      BY TxRelayAssumption, Zenon DEF TxRelayAssumption
    <3> QED BY <2>1, <3>1, ReceiveTxStep, Zenon
  <2>2. ASSUME NEW t \in Sent, SendRawTransaction(t) PROVE Inv'
    <3>1. t \in Txs
      BY TxRelayAssumption, Zenon DEF TxRelayAssumption
    <3> QED BY <2>2, <3>1, SendRawTransactionStep, Zenon
  <2>3. ASSUME NEW peer \in Peers, EraseOrphansFor(peer) PROVE Inv'
    BY <2>3, EraseOrphansForStep, Zenon
  <2>4. ASSUME NEW c \in Blocks, Activate(c) PROVE Inv'
    BY <2>4, ActivateStep, Zenon
  <2>5. ASSUME Notify PROVE Inv'
    BY <2>5, CollectStep, NotifyDisconnectStep, NotifyConnectStep, Zenon DEF Notify
  <2>6. ASSUME UNCHANGED vars PROVE Inv'
    <3>1. /\ UNCHANGED <<tip, pool, recentlyConflictedTxs, nEvents>>
          /\ UNCHANGED orphanVars /\ UNCHANGED rejectVars /\ UNCHANGED notifyVars
      BY <2>6, Zenon DEF vars
    <3>2. OrphanInv' /\ NotifyInv' /\ OnTheWay'
      BY <3>1, Unchanged, Zenon DEF Inv
    <3>3. RejectInv'
      BY <3>1, Zenon DEF Inv, RejectInv, rejectVars
    <3>4. PoolInv'
      BY <3>1, PoolUnchanged, Zenon DEF Inv
    <3>5. Apart(recentlyConflictedTxs') /\ Settled(pool') \subseteq Settled(pool)
      BY <3>1, Zenon DEF Inv, Told
    <3>6. Told'
      BY <3>1, <3>5, ToldKept, Zenon DEF Inv
    <3> QED BY <3>2, <3>3, <3>4, <3>6, Zenon DEF Inv
  <2> QED BY <2>1, <2>2, <2>3, <2>4, <2>5, <2>6, Zenon DEF Next
<1> QED BY InitInv, <1>1, PTL DEF Spec

\* Every variable keeps its type, blockStack its blocks and what conflicted
\* with them, for every set of transactions, blocks and peers and however
\* often the chain changes.
THEOREM TypeCorrect == Spec => []TypeOK
<1>1. Inv => TypeOK
  <2> SUFFICES ASSUME Inv PROVE TypeOK
    OBVIOUS
  <2>1. PoolInv /\ OrphanInv /\ RejectInv /\ NotifyInv /\ OnTheWay /\ Told
    BY Zenon DEF Inv
  <2>2. tip \in Blocks /\ pool \in Pools
    BY <2>1, Zenon DEF PoolInv, GoodPools, SoundPools
  <2>3. /\ Orphans \subseteq Txs /\ \A t \in Orphans : mapOrphanTransactions[t] \in Peers
        /\ mapOrphanTransactionsByPrev \in [Txs -> SUBSET Txs]
    BY <2>1 DEF OrphanInv, OrphansTyped, Orphans
  <2>4. recentRejects \subseteq Txs /\ hashRecentRejectsChainTip \in Blocks /\ nEvents \in 0 .. MaxEvents
    BY <2>1, Zenon DEF RejectInv
  <2>5. /\ DOMAIN recentlyConflictedTxs \subseteq Blocks
        /\ \A b \in DOMAIN recentlyConflictedTxs : recentlyConflictedTxs[b] \subseteq Txs
    BY <2>1 DEF OnTheWay, ConflictMaps
  <2>6. blockStack \in Seq([block : Blocks, conflicted : SUBSET Txs])
    BY <2>1, Zenon DEF OnTheWay, Entries
  <2>7. /\ pc \in {"sleep", "disconnect", "connect", "thrown"}
        /\ {pindexLastTip, pindexFork} \subseteq Blocks /\ recentlyAdded \subseteq Txs
        /\ wallet \in [Txs -> Blocks \cup {"unknown", "unconfirmed"}]
    BY <2>1, Zenon DEF NotifyInv
  <2> QED BY <2>2, <2>3, <2>4, <2>5, <2>6, <2>7, Zenon DEF TypeOK
<1> QED BY Invariance, <1>1, PTL

\* No entry of mapRecentlyAddedTx outlives its transaction, whatever is mined,
\* disconnected, taken back or thrown out.
THEOREM PointersValid == Spec => []NoDanglingPointer
<1>1. Inv => NoDanglingPointer
  BY PoolFields, Zenon DEF Inv, PoolInv, GoodPools, NoDanglingPointer
<1> QED BY Invariance, <1>1, PTL

\* The orphans and the index by previous transaction agree, and eviction keeps
\* the orphans below the limit.
THEOREM OrphansKept == Spec => []OrphansSound
<1>1. Inv => OrphansSound
  BY Zenon DEF Inv, OrphanInv
<1> QED BY Invariance, <1>1, PTL

\* ThreadNotifyWallets finds what conflicted with every block it connects.
THEOREM NotifierRuns == Spec => []NeverThrows
<1>1. Inv => NeverThrows
  BY DEF Inv, NotifyInv, NeverThrows
<1> QED BY Invariance, <1>1, PTL

\* The pool passes CTxMemPool::check, has only transactions that the next block
\* may have and none of the active chain, for every tree of valid blocks and
\* after every reorganisation.
THEOREM PoolKept == Spec => []PoolConsistent
<1>1. Inv => PoolConsistent
  <2> SUFFICES ASSUME Inv PROVE PoolConsistent
    OBVIOUS
  <2>1. tip \in Blocks /\ Good(pool, ChainTxs[tip], Anchors(tip)) /\ Fit(pool, Height[tip] + 1)
    BY Zenon DEF Inv, PoolInv, GoodPools
  <2>2. Coins[tip] = Spendable(ChainTxs[tip]) /\ SpentNullifiers(tip) = Revealed(ChainTxs[tip])
    BY <2>1, ChainTxsFacts, Zenon
  <2>3. check(pool, tip)
    <3>1. ASSUME NEW t \in pool.mapTx, NEW o \in Ins[t]
          PROVE  /\ IF o[1] \in pool.mapTx THEN o \in OutputsOf(o[1]) ELSE o \in Coins[tip]
                 /\ pool.mapNextTx[o] = t
      <4>1. /\ IF o[1] \in pool.mapTx THEN o \in OutputsOf(o[1]) ELSE o \in Spendable(ChainTxs[tip])
            /\ pool.mapNextTx[o] = t
        BY <2>1, Zenon DEF Good
      <4> QED BY <4>1, <2>2, Zenon
    <3>2. ASSUME NEW t \in pool.mapTx, NEW n \in Nullifier[t]
          PROVE  n \notin SpentNullifiers(tip) /\ pool.mapSaplingNullifiers[n] = t
      <4>1. n \notin Revealed(ChainTxs[tip]) /\ pool.mapSaplingNullifiers[n] = t
        BY <2>1, Zenon DEF Good
      <4> QED BY <4>1, <2>2, Zenon
    <3>3. /\ \A t \in pool.mapTx : Nullifier[t] # {} => Anchor[t] \in Anchors(tip)
          /\ \A o \in OutPoints : pool.mapNextTx[o] # NoTx =>
                 pool.mapNextTx[o] \in pool.mapTx /\ o \in Ins[pool.mapNextTx[o]]
          /\ \A n \in Nullifiers : pool.mapSaplingNullifiers[n] # NoTx => pool.mapSaplingNullifiers[n] \in pool.mapTx
      BY <2>1, Zenon DEF Good
    <3> QED BY <3>1, <3>2, <3>3, Zenon DEF check
  <2>4. \A t \in pool.mapTx : IsFinalTx(t, Height[tip] + 1) /\ Branch[t] = CurrentEpochBranchId(Height[tip] + 1)
    BY <2>1, Zenon DEF Fit
  <2>5. pool.mapTx \cap ChainTxs[tip] = {}
    BY <2>1, Zenon DEF Good
  <2> QED BY <2>3, <2>4, <2>5, Zenon DEF PoolConsistent
<1> QED BY Invariance, <1>1, PTL

\* The wallets have every transaction of the chain they were told of in its
\* block, and have been told of what is in the pool, however the notifications
\* fall between messages and changes of the chain.
THEOREM WalletsTold == Spec => []WalletsInformed
<1>1. Inv => WalletsInformed
  <2> SUFFICES ASSUME Inv PROVE WalletsInformed
    OBVIOUS
  <2>1. /\ \A b \in Chain[pindexLastTip] : \A t \in TxsOf(b) : wallet[t] = b
        /\ \A t \in Settled(pool) \ recentlyAdded : wallet[t] = "unconfirmed"
    BY Zenon DEF Inv, Told
  <2>2. \A t \in pool.mapTx \ (pool.mapRecentlyAddedTx \cup recentlyAdded) : wallet[t] = "unconfirmed"
    BY <2>1, Zenon DEF Settled
  <2>3. "unconfirmed" # "unknown"
    OBVIOUS
  <2> QED BY <2>1, <2>2, <2>3, Zenon DEF WalletsInformed
<1> QED BY Invariance, <1>1, PTL

=============================================================================
