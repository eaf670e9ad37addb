-------------------------- MODULE ChainStateProofs --------------------------
(***************************************************************************)
(* Proofs about ChainState, for every tree of blocks, set of threads and   *)
(* setting.  Core, the inductive invariant, has the types, how blocks are  *)
(* linked, their keys, the candidates and the notarizations; Healthy adds  *)
(* that the active chain is valid, BestInv that the best valid chain is    *)
(* among the candidates and is looked for.                                 *)
(***************************************************************************)
EXTENDS ChainState, FiniteSetTheorems, WellFoundedInduction, TLAPS

-----------------------------------------------------------------------------
(* Least and greatest elements, the form in which induction is used below. *)

\* A set of natural numbers that is not empty has a least element.
LEMMA LeastNat ==
    ASSUME NEW S, S \subseteq Nat, S # {}
    PROVE  \E n \in S : \A m \in S : n <= m
<1> DEFINE R == OpToRel(<, Nat)
<1>1. IsWellFoundedOn(R, Nat)
  BY Zenon, NatLessThanWellFounded
<1>2. \A x, y : <<x, y>> \in R <=> x \in Nat /\ y \in Nat /\ x < y
  BY Zenon DEF OpToRel
<1> HIDE DEF R
<1>3. PICK x \in S : \A y \in S : ~ (<<y, x>> \in R)
  BY <1>1, WFMin, Zenon
<1>4. ASSUME NEW y \in S PROVE x <= y
  <2>1. ~(y < x) /\ x \in Nat /\ y \in Nat
    BY <1>2, <1>3, Zenon
  <2> QED BY <2>1
<1> QED
  BY <1>4, Zenon

\* The block of a set with the least height.
LEMMA LowestIn ==
    ASSUME NEW S, S \subseteq Blocks, S # {}
    PROVE  Lowest(S) \in S /\ \A c \in S : Height[Lowest(S)] <= Height[c]
<1> DEFINE H == {Height[c] : c \in S}
<1>1. H \subseteq Nat /\ H # {}
  BY TreeAssumption
<1>2. PICK n \in H : \A m \in H : n <= m
  <2> HIDE DEF H
  <2> QED BY <1>1, LeastNat, Zenon
<1>3. \E b \in S : \A c \in S : Height[b] <= Height[c]
  BY Zenon, <1>2
<1> QED
  BY <1>3, Zenon DEF Lowest

\* The block of a set with the greatest height, where heights are bounded.
LEMMA HighestIn ==
    ASSUME NEW S, S \subseteq Blocks, S # {},
           NEW n \in Nat, \A c \in S : Height[c] <= n
    PROVE  Highest(S) \in S /\ \A c \in S : Height[c] <= Height[Highest(S)]
<1> DEFINE H == {n - Height[c] : c \in S}
<1>1. H \subseteq Nat /\ H # {}
  BY TreeAssumption
<1>2. PICK k \in H : \A m \in H : k <= m
  <2> HIDE DEF H
  <2> QED BY <1>1, LeastNat, Zenon
<1>3. PICK b \in S : k = n - Height[b]
  BY Zenon, <1>2
<1>4. ASSUME NEW c \in S PROVE Height[c] <= Height[b]
  <2>1. n - Height[b] <= n - Height[c]
    BY Zenon, <1>2, <1>3
  <2> QED
    BY <2>1, TreeAssumption
<1> QED
  BY <1>4, Zenon DEF Highest

-----------------------------------------------------------------------------
(* The tree of blocks.                                                     *)

\* What the ancestors of a block are.
Ancestry(b) ==
    /\ b \in Chain[b] /\ Genesis \in Chain[b]
    /\ \A x \in Chain[b] :
          /\ Chain[x] \subseteq Chain[b]
          /\ x # b => Height[x] < Height[b] /\ ChainWork[x] < ChainWork[b]
          /\ x # Genesis => Parent[x] \in Chain[b]
          /\ \A y \in Chain[b] : Height[y] <= Height[x] => y \in Chain[x]

\* Every block has such ancestors, by induction on its height.
LEMMA Ancestries == \A b \in Blocks : Ancestry(b)
<1> DEFINE H == {Height[b] : b \in {x \in Blocks : ~Ancestry(x)}}
<1>1. SUFFICES ASSUME H # {} PROVE FALSE
  BY Zenon
<1>2. H \subseteq Nat
  BY TreeAssumption
<1>3. PICK h \in H : \A m \in H : h <= m
  <2> HIDE DEF H
  <2> QED BY <1>1, <1>2, LeastNat, Zenon
<1>4. PICK b \in Blocks : ~Ancestry(b) /\ Height[b] = h
  BY Zenon, <1>3
<1>5. \A c \in Blocks : Height[c] < Height[b] => Ancestry(c)
  <2> SUFFICES ASSUME NEW c \in Blocks, Height[c] < Height[b], ~Ancestry(c)
               PROVE  FALSE
    BY Zenon
  <2>1. Height[c] \in H
    BY Zenon
  <2>2. Height[b] <= Height[c]
    BY Zenon, <2>1, <1>3, <1>4
  <2> QED BY <2>2, TreeAssumption
<1> HIDE DEF H
<1>6. CASE b = Genesis
  BY Zenon, <1>4, <1>6, TreeAssumption DEF Ancestry
<1>7. CASE b # Genesis
  <2> DEFINE p == Parent[b]
  <2>1. /\ p \in Blocks /\ Height[b] = Height[p] + 1 /\ Height[p] \in Nat
        /\ ChainWork[b] > ChainWork[p] /\ ChainWork[p] \in Nat /\ ChainWork[b] \in Nat
        /\ Chain[b] = Chain[p] \cup {b}
        /\ Chain[p] \subseteq Blocks /\ Chain[b] \subseteq Blocks
    BY Zenon, <1>7, TreeAssumption
  <2>2. Ancestry(p)
    BY <2>1, <1>5
  <2> HIDE DEF p
  <2>3. \A x \in Chain[p] : Height[x] \in Nat /\ ChainWork[x] \in Nat /\ Height[x] < Height[b] /\ ChainWork[x] < ChainWork[b]
    BY <2>1, <2>2, TreeAssumption DEF Ancestry
  <2>4. b \in Chain[b] /\ Genesis \in Chain[b]
    BY Zenon, <2>1, <2>2 DEF Ancestry
  <2>5. ASSUME NEW x \in Chain[b]
        PROVE  /\ Chain[x] \subseteq Chain[b]
               /\ x # b => Height[x] < Height[b] /\ ChainWork[x] < ChainWork[b]
               /\ x # Genesis => Parent[x] \in Chain[b]
    BY Zenon, <2>1, <2>2, <2>3 DEF Ancestry, p
  <2>6. ASSUME NEW x \in Chain[b], NEW y \in Chain[b], Height[y] <= Height[x]
        PROVE  y \in Chain[x]
    <3>1. CASE x = b
      BY Zenon, <3>1
    <3>2. CASE x # b
      <4>1. x \in Chain[p]
        BY Zenon, <3>2, <2>1
      <4>2. y \in Chain[p]
        BY <4>1, <2>1, <2>3, <2>6
      <4> QED BY Zenon, <4>1, <4>2, <2>2, <2>6 DEF Ancestry
    <3> QED BY Zenon, <3>1, <3>2
  <2>7. Ancestry(b)
    BY Zenon, <2>4, <2>5, <2>6 DEF Ancestry
  <2> QED BY Zenon, <2>7, <1>4
<1> QED BY Zenon, <1>6, <1>7


\* The ancestors of a block.
LEMMA ChainFacts ==
    ASSUME NEW b \in Blocks
    PROVE  /\ b \in Chain[b] /\ Genesis \in Chain[b] /\ Chain[b] \subseteq Blocks
           /\ \A x \in Chain[b] :
                 /\ x \in Blocks /\ Chain[x] \subseteq Chain[b]
                 /\ x # b => b \notin Chain[x]
                 /\ x # Genesis => Parent[x] \in Chain[b]
BY Ancestries, TreeAssumption DEF Ancestry

\* Heights and work grow along a chain, and of two ancestors of a block one is
\* an ancestor of the other.
LEMMA ChainOrder ==
    ASSUME NEW b \in Blocks, NEW x \in Chain[b]
    PROVE  /\ Height[x] \in Nat /\ Height[b] \in Nat
           /\ ChainWork[x] \in Nat /\ ChainWork[b] \in Nat
           /\ Height[x] <= Height[b]
           /\ x # b => Height[x] < Height[b] /\ ChainWork[x] < ChainWork[b]
           /\ \A y \in Chain[b] : /\ Height[y] <= Height[x] => y \in Chain[x]
                                  /\ y \in Chain[x] \/ x \in Chain[y]
<1>1. /\ x \in Blocks /\ Height[x] \in Nat /\ Height[b] \in Nat
      /\ ChainWork[x] \in Nat /\ ChainWork[b] \in Nat
      /\ \A y \in Chain[b] : y \in Blocks /\ Height[y] \in Nat
  BY Zenon, TreeAssumption
<1>2. x # b => Height[x] < Height[b] /\ ChainWork[x] < ChainWork[b]
  BY Ancestries, Zenon DEF Ancestry
<1>3. Height[x] <= Height[b]
  BY <1>1, <1>2
<1>4. ASSUME NEW y \in Chain[b]
      PROVE  /\ Height[y] <= Height[x] => y \in Chain[x]
             /\ Height[x] <= Height[y] => x \in Chain[y]
  BY Ancestries, Zenon DEF Ancestry
<1>5. ASSUME NEW y \in Chain[b] PROVE Height[y] <= Height[x] \/ Height[x] <= Height[y]
  BY <1>1
<1> QED
  BY <1>1, <1>2, <1>3, <1>4, <1>5, Zenon

\* The step from a block to its parent.
LEMMA ParentFacts ==
    ASSUME NEW b \in Blocks, b # Genesis
    PROVE  /\ Parent[b] \in Blocks /\ Parent[b] \in Chain[b]
           /\ b \notin Chain[Parent[b]]
           /\ Chain[b] = Chain[Parent[b]] \cup {b}
           /\ Height[b] = Height[Parent[b]] + 1
           /\ Height[b] \in Nat /\ Height[Parent[b]] \in Nat
<1>1. /\ Parent[b] \in Blocks /\ Chain[b] = Chain[Parent[b]] \cup {b}
      /\ Height[b] = Height[Parent[b]] + 1
      /\ Height[b] \in Nat /\ Height[Parent[b]] \in Nat
  BY Zenon, TreeAssumption
<1>2. Parent[b] \in Chain[b]
  BY Zenon, ChainFacts
<1>3. Parent[b] # b
  BY <1>1
<1> QED
  BY Zenon, <1>1, <1>2, <1>3, ChainFacts

\* The fork of two chains ends what they have in common.
LEMMA ForkFacts ==
    ASSUME NEW b \in Blocks, NEW t \in Blocks
    PROVE  /\ FindFork(b, t) \in Chain[b] /\ FindFork(b, t) \in Chain[t]
           /\ Chain[FindFork(b, t)] = Chain[b] \cap Chain[t]
<1> DEFINE S == Chain[b] \cap Chain[t]
           f == FindFork(b, t)
<1>1. /\ S \subseteq Blocks /\ S # {} /\ Height[b] \in Nat
      /\ \A c \in S : Height[c] <= Height[b]
  BY Zenon, ChainFacts, ChainOrder
<1>2. f \in S /\ \A c \in S : Height[c] <= Height[f]
  <2>1. Highest(S) \in S /\ \A c \in S : Height[c] <= Height[Highest(S)]
    <3> HIDE DEF S
    <3> QED BY <1>1, HighestIn, Zenon
  <2> QED BY <2>1, Zenon DEF FindFork
<1>3. Chain[f] \subseteq S
  BY <1>2, ChainFacts, Zenon
<1>4. ASSUME NEW c \in S PROVE c \in Chain[f]
  <2>1. f \in Chain[b] /\ c \in Chain[b] /\ Height[c] <= Height[f]
    BY <1>2, Zenon
  <2> HIDE DEF f, S
  <2> QED BY Zenon, <2>1, Ancestries DEF Ancestry
<1> QED
  BY <1>2, <1>3, <1>4, Zenon

-----------------------------------------------------------------------------
(* The order of the candidates.                                            *)

\* Worse is a strict weak order, the one std::set needs of its comparator.
LEMMA WorseOrder ==
    ASSUME NEW seq \in [Blocks -> Nat],
           NEW a \in Blocks, NEW b \in Blocks, NEW c \in Blocks
    PROVE  /\ ~Worse(a, a, seq)
           /\ Worse(a, b, seq) => ~Worse(b, a, seq)
           /\ Worse(a, b, seq) /\ Worse(b, c, seq) => Worse(a, c, seq)
           /\ Worse(a, c, seq) => Worse(a, b, seq) \/ Worse(b, c, seq)
           /\ seq[a] # seq[b] => Worse(a, b, seq) \/ Worse(b, a, seq)
           /\ ChainWork[a] < ChainWork[b] => Worse(a, b, seq)
<1>1. /\ seq[a] \in Nat /\ seq[b] \in Nat /\ seq[c] \in Nat
      /\ ChainWork[a] \in Nat /\ ChainWork[b] \in Nat /\ ChainWork[c] \in Nat
  BY Zenon, TreeAssumption
<1> QED
  BY <1>1 DEF Worse

\* A set of blocks that is not empty has a best one.
LEMMA BestIn ==
    ASSUME NEW S, S \subseteq Blocks, S # {}, nSequenceId \in [Blocks -> Nat]
    PROVE  Best(S) \in S /\ \A c \in S : ~Worse(Best(S), c, nSequenceId)
<1> DEFINE HasBest(U) == \E b \in U : \A c \in U : ~Worse(b, c, nSequenceId)
           R == StrictSubsetOrdering(S)
           T == {U \in SUBSET S : U # {} /\ ~HasBest(U)}
<1>1. IsFiniteSet(S)
  BY Zenon, FS_Subset, TreeAssumption
<1>2. T \subseteq FiniteSubsetsOf(S)
  BY Zenon, <1>1, FS_Subset DEF FiniteSubsetsOf
<1>3. T = {}
  <2> SUFFICES ASSUME T # {} PROVE FALSE
    BY Zenon
  <2>1. PICK U \in T : \A V \in T : ~ (<<V, U>> \in R)
    <3>1. IsWellFoundedOn(R, FiniteSubsetsOf(S))
      BY Zenon, FS_StrictSubsetOrderingWellFounded
    <3> HIDE DEF T, R
    <3> QED BY <1>2, <3>1, WFMin, Zenon
  <2>2. PICK x \in U : TRUE
    BY Zenon
  <2> DEFINE V == U \ {x}
  <2>3. V \notin T
    <3>1. <<V, U>> \in R
      BY Zenon, <2>2 DEF StrictSubsetOrdering
    <3> QED BY Zenon, <2>1, <3>1
  <2>4. CASE V = {}
    <3>1. U = {x}
      BY Zenon, <2>4, <2>2
    <3>2. ~Worse(x, x, nSequenceId)
      BY WorseOrder
    <3> QED BY Zenon, <3>1, <3>2
  <2>5. CASE V # {}
    <3>1. PICK y \in V : \A c \in V : ~Worse(y, c, nSequenceId)
      BY Zenon, <2>3, <2>5
    <3>2. CASE ~Worse(y, x, nSequenceId)
      <4>1. \A c \in U : ~Worse(y, c, nSequenceId)
        BY Zenon, <3>1, <3>2
      <4> QED BY Zenon, <4>1
    <3>3. CASE Worse(y, x, nSequenceId)
      <4>1. ASSUME NEW c \in U PROVE ~Worse(x, c, nSequenceId)
        <5>1. x \in Blocks /\ y \in Blocks /\ c \in Blocks
          BY Zenon
        <5>2. CASE c = x
          BY <5>1, <5>2, WorseOrder, Zenon
        <5>3. CASE c # x
          BY Zenon, <3>1, <3>3, <5>1, <5>3, WorseOrder
        <5> QED BY Zenon, <5>2, <5>3
      <4> QED BY Zenon, <4>1
    <3> QED BY Zenon, <3>2, <3>3
  <2> QED BY Zenon, <2>4, <2>5
<1>4. HasBest(S)
  BY Zenon, <1>3
<1> QED
  BY <1>4, Zenon DEF Best


-----------------------------------------------------------------------------
(* The inductive invariant: what holds of the index, the candidates and    *)
(* the tip for every choice of the constants.                              *)

\* Every block received is linked, waits or was passed over; a chain is linked
\* from the bottom, and as soon as it is complete.
Links ==
    /\ Genesis \in linked
    /\ \A b \in linked : Chain[b] \subseteq linked
    /\ unlinked \cap linked = {} /\ skipped \cap linked = {} /\ skipped \cap unlinked = {}
    /\ haveData = linked \cup unlinked \cup skipped
    /\ \A b \in Blocks : /\ Chain[b] \subseteq haveData
                         /\ Chain[b] \cap skipped = {}
                         => b \in linked

\* The keys of the linked blocks differ and were all given out.
Keys ==
    /\ \A a, b \in linked : a # b => nSequenceId[a] # nSequenceId[b]
    /\ \A b \in linked : nSequenceId[b] < nBlockSequenceId

\* A notarization names an ancestor of the block that carries it, as those
\* that are made by the notaries do.
NotarizesAncestors ==
    \A b \in Blocks : Notarizes[b] # NoBlock => Notarizes[b] \in Chain[b]

\* The notarizations were carried by blocks and, if each names an ancestor, are
\* those of ancestors of c, the lower ones first.
Points == [nHeight : Nat, block : Blocks]
Sound(points, c) ==
    /\ points \in Seq(Points)
    /\ \A i \in 1 .. Len(points) : \E b \in Blocks : points[i].block = Notarizes[b]
    /\ NotarizesAncestors =>
          \A i \in 1 .. Len(points) :
              /\ points[i].block \in Chain[c]
              /\ \A j \in 1 .. Len(points) :
                    i < j => Height[points[i].block] < Height[points[j].block]

\* The invariant that is inductive by itself, without a hypothesis.
Core ==
    /\ TypeOK /\ Links /\ Keys /\ tip \in linked /\ CandidatesSound
    /\ Sound(npoints, tip)

\* The tree and the linked blocks as Core has them.
LEMMA CoreFacts ==
    ASSUME Core
    PROVE  /\ tip \in Blocks /\ index \subseteq Blocks /\ linked \subseteq index
           /\ candidates \subseteq linked /\ linked \subseteq Blocks
           /\ Chain[tip] \subseteq linked /\ Failed \subseteq Blocks
           /\ nSequenceId \in [Blocks -> Nat]
           /\ \A c \in candidates : Chain[c] \subseteq linked
BY Zenon DEF Core, TypeOK, Links, CandidatesSound, Failed

\* Different linked blocks are never tied.
LEMMA Untied ==
    ASSUME Core, NEW a \in linked, NEW b \in linked, a # b
    PROVE  Worse(a, b, nSequenceId) \/ Worse(b, a, nSequenceId)
<1>1. a \in Blocks /\ b \in Blocks /\ nSequenceId \in [Blocks -> Nat]
  BY Zenon, CoreFacts
<1>2. nSequenceId[a] # nSequenceId[b]
  BY Zenon DEF Core, Keys
<1> QED
  BY Zenon, <1>1, <1>2, WorseOrder

-----------------------------------------------------------------------------
(* What the parts of ActivateBestChain come to.                            *)

\* FindMostWorkChain returns the best of the usable candidates.
LEMMA MostWorkFacts ==
    ASSUME Core, MostWork # NoBlock
    PROVE  /\ MostWork \in candidates /\ MostWork \in Blocks
           /\ MostWork \in linked /\ Usable(MostWork)
           /\ ~Worse(MostWork, tip, nSequenceId)
           /\ \A c \in candidates : Usable(c) => ~Worse(MostWork, c, nSequenceId)
           /\ MostWork # tip => MostWork \notin Chain[tip]
<1> DEFINE good == {c \in candidates : Usable(c)}
<1>1. good # {} /\ MostWork = Best(good)
  BY Zenon DEF MostWork
<1>2. good \subseteq Blocks /\ nSequenceId \in [Blocks -> Nat]
  BY Zenon, CoreFacts
<1>3. Best(good) \in good /\ \A c \in good : ~Worse(Best(good), c, nSequenceId)
  <2> HIDE DEF good
  <2> QED BY Zenon, <1>1, <1>2, BestIn
<1>4. MostWork \in good /\ \A c \in good : ~Worse(MostWork, c, nSequenceId)
  BY <1>1, <1>3, Zenon
<1> HIDE DEF MostWork
<1>5. MostWork \in linked /\ ~Worse(MostWork, tip, nSequenceId)
  BY <1>4, Zenon DEF Core, CandidatesSound
<1>6. MostWork \in Blocks /\ tip \in Blocks
  BY Zenon, <1>5, CoreFacts
<1>7. ASSUME MostWork # tip, MostWork \in Chain[tip] PROVE FALSE
  <2>1. ChainWork[MostWork] < ChainWork[tip]
    BY Zenon, <1>6, <1>7, ChainOrder
  <2> QED BY Zenon, <2>1, <1>5, <1>6 DEF Worse
<1> QED
  BY <1>4, <1>5, <1>6, <1>7, Zenon

\* The failed ancestor that makes a candidate unusable.
LEMMA FailedInFacts ==
    ASSUME Core, NEW c \in Unusable
    PROVE  /\ c \in candidates /\ c \in Blocks
           /\ FailedIn(c) \in Branch(c) /\ FailedIn(c) \in Failed
           /\ FailedIn(c) \in Chain[c]
<1> DEFINE S == Branch(c) \cap Failed
<1>1. c \in candidates /\ S # {}
  BY Zenon DEF Unusable, Usable
<1>2. c \in Blocks /\ S \subseteq Chain[c]
  BY Zenon, <1>1, CoreFacts DEF Branch
<1>3. S \subseteq Blocks /\ Height[c] \in Nat /\ \A x \in S : Height[x] <= Height[c]
  BY Zenon, <1>2, ChainFacts, ChainOrder
<1>4. Highest(S) \in S
  <2> HIDE DEF S
  <2> QED BY <1>1, <1>3, HighestIn, Zenon
<1> QED
  BY <1>1, <1>2, <1>4, Zenon DEF FailedIn

\* What FindMostWorkChain drops or marks has a failed block in its chain, off
\* the active chain.
LEMMA FindFacts ==
    ASSUME Core
    PROVE  /\ CandidatesAfterFind \subseteq candidates
           /\ FailedChildAfterFind \subseteq index
           /\ failedChild \subseteq FailedChildAfterFind
           /\ \A x \in (FailedChildAfterFind \ failedChild) \cup (candidates \ CandidatesAfterFind) :
                 /\ x \in Blocks /\ x \notin Chain[tip]
                 /\ \E f \in Failed : f \in Chain[x] /\ f \notin Chain[tip]
           /\ \A x \in candidates \ CandidatesAfterFind :
                 x \in Failed \/ x \in FailedChildAfterFind
<1>1. /\ CandidatesAfterFind \subseteq candidates
      /\ failedChild \subseteq FailedChildAfterFind
  BY Zenon DEF CandidatesAfterFind, FailedChildAfterFind
<1>2. ASSUME NEW c \in Unusable, NEW x \in (Branch(c) \ Chain[FailedIn(c)]) \cup {FailedIn(c)}
      PROVE  /\ x \in Blocks /\ x \notin Chain[tip] /\ x \in index
             /\ FailedIn(c) \in Failed /\ FailedIn(c) \in Chain[x] /\ FailedIn(c) \notin Chain[tip]
  <2>1. /\ c \in candidates /\ c \in Blocks
        /\ FailedIn(c) \in Branch(c) /\ FailedIn(c) \in Failed /\ FailedIn(c) \in Chain[c]
    BY Zenon, FailedInFacts
  <2>2. x \in Chain[c] /\ x \notin Chain[tip] /\ FailedIn(c) \notin Chain[tip]
    BY <2>1, <1>2, Zenon DEF Branch
  <2>3. x \in linked /\ x \in index /\ x \in Blocks
    BY Zenon, <2>1, <2>2, CoreFacts
  <2>4. FailedIn(c) \in Chain[x]
    <3>1. CASE x = FailedIn(c)
      BY <3>1, <2>3, ChainFacts, Zenon
    <3>2. CASE x # FailedIn(c)
      <4>1. x \notin Chain[FailedIn(c)]
        BY <3>2, <1>2, Zenon
      <4> QED BY Zenon, <4>1, <2>1, <2>2, ChainOrder
    <3> QED BY <3>1, <3>2, Zenon
  <2> QED
    BY <2>1, <2>2, <2>3, <2>4, Zenon
<1>3. ASSUME NEW x \in FailedChildAfterFind \ failedChild
      PROVE  \E c \in Unusable : x \in (Branch(c) \ Chain[FailedIn(c)]) \cup {FailedIn(c)}
  BY Zenon DEF FailedChildAfterFind
<1>4. ASSUME NEW x \in candidates \ CandidatesAfterFind
      PROVE  \E c \in Unusable : x \in (Branch(c) \ Chain[FailedIn(c)]) \cup {FailedIn(c)}
  BY Zenon DEF CandidatesAfterFind
<1>5. \A x \in candidates \ CandidatesAfterFind : x \in Failed \/ x \in FailedChildAfterFind
  <2> SUFFICES ASSUME NEW x \in candidates \ CandidatesAfterFind
               PROVE  x \in Failed \/ x \in FailedChildAfterFind
    BY Zenon
  <2>1. PICK c \in Unusable : x \in (Branch(c) \ Chain[FailedIn(c)]) \cup {FailedIn(c)}
    BY <1>4, Zenon
  <2>2. CASE x = FailedIn(c)
    BY <2>1, <2>2, <1>2, Zenon
  <2>3. CASE x # FailedIn(c)
    BY <2>1, <2>3, Zenon DEF FailedChildAfterFind
  <2> QED BY <2>2, <2>3, Zenon
<1>6. FailedChildAfterFind \subseteq index
  <2>1. failedChild \subseteq index
    BY Zenon DEF Core, TypeOK
  <2> QED BY <2>1, <1>2, <1>3, Zenon
<1>7. ASSUME NEW x \in (FailedChildAfterFind \ failedChild) \cup (candidates \ CandidatesAfterFind)
      PROVE  /\ x \in Blocks /\ x \notin Chain[tip]
             /\ \E f \in Failed : f \in Chain[x] /\ f \notin Chain[tip]
  BY <1>2, <1>3, <1>4, Zenon
<1> QED
  BY <1>1, <1>5, <1>6, <1>7, Zenon


\* Disconnecting ends at "to", at the last notarized block or at a block that
\* could not be read, all of them above "to" in the active chain.
LEMMA UnwindFacts ==
    ASSUME Core, NEW to \in Chain[tip], NEW out \in Unwind(to)
    PROVE  /\ out.tip \in Chain[tip] /\ to \in Chain[out.tip]
           /\ out.ok \in BOOLEAN /\ out.abort \in BOOLEAN
           /\ out.ok => out.tip = to /\ NOTARIZED_HASH \notin Chain[tip] \ Chain[to]
           /\ ~out.ok => \/ out.abort /\ DiskErrors
                         \/ NOTARIZED_HASH \in Chain[tip] \ Chain[to]
           /\ NOTARIZED_HASH \in Chain[tip] \ Chain[to] => NOTARIZED_HASH \in Chain[out.tip]
<1> DEFINE path == Chain[tip] \ Chain[to]
           refused == NOTARIZED_HASH \in path
           end == IF refused THEN NOTARIZED_HASH ELSE to
<1>1. tip \in Blocks /\ to \in Blocks /\ Chain[tip] \subseteq Blocks
  BY Zenon, CoreFacts, ChainFacts
<1>2. \A x \in path : x \in Blocks /\ to \in Chain[x] /\ x \in Chain[x]
  BY Zenon, <1>1, ChainOrder, ChainFacts
<1>3. \/ out = [tip |-> end, ok |-> ~refused, abort |-> FALSE]
      \/ \E b \in path : /\ out = [tip |-> b, ok |-> FALSE, abort |-> TRUE]
                         /\ DiskErrors /\ Height[b] >= Height[end]
  BY Zenon DEF Unwind
<1> HIDE DEF path
<1>4. CASE out = [tip |-> end, ok |-> ~refused, abort |-> FALSE]
  <2>1. out.tip = end /\ out.ok = ~refused /\ out.abort = FALSE
    BY Zenon, <1>4
  <2>2. CASE refused
    BY Zenon, <2>1, <2>2, <1>2 DEF path
  <2>3. CASE ~refused
    BY Zenon, <2>1, <2>3, <1>1, ChainFacts DEF path
  <2> QED BY Zenon, <2>2, <2>3
<1>5. CASE \E b \in path : /\ out = [tip |-> b, ok |-> FALSE, abort |-> TRUE]
                           /\ DiskErrors /\ Height[b] >= Height[end]
  <2>1. PICK b \in path : /\ out = [tip |-> b, ok |-> FALSE, abort |-> TRUE]
                          /\ DiskErrors /\ Height[b] >= Height[end]
    BY Zenon, <1>5
  <2>2. out.tip = b /\ out.ok = FALSE /\ out.abort = TRUE
    BY Zenon, <2>1
  <2>3. ASSUME refused PROVE NOTARIZED_HASH \in Chain[b]
    <3>1. b \in Chain[tip] /\ NOTARIZED_HASH \in Chain[tip] /\ Height[b] >= Height[NOTARIZED_HASH]
      BY Zenon, <2>1, <2>3 DEF path
    <3>2. b \in Blocks /\ NOTARIZED_HASH \in Blocks /\ Height[b] \in Nat /\ Height[NOTARIZED_HASH] \in Nat
      BY Zenon, <3>1, <1>1, TreeAssumption
    <3>3. Height[NOTARIZED_HASH] <= Height[b]
      BY Zenon, <3>1, <3>2
    <3> QED BY Zenon, <3>1, <3>3, <1>1, Ancestries DEF Ancestry
  <2> QED BY Zenon, <2>1, <2>2, <2>3, <1>2 DEF path
<1> QED BY <1>3, <1>4, <1>5, Zenon

\* Connecting ends at a block between the fork and the goal, below the first
\* block that breaks a rule.
Connected(out, fork, mw) ==
    /\ out.tip \in Chain[mw] /\ fork \in Chain[out.tip]
    /\ out.ok \in BOOLEAN /\ out.abort \in BOOLEAN
    /\ (Chain[out.tip] \ Chain[fork]) \cap (BadContext \cup BadConnect) = {}
    /\ out.seen \in Chain[mw] /\ fork \in Chain[out.seen]
    /\ \/ out.seen = out.tip
       \/ out.seen # Genesis /\ Parent[out.seen] = out.tip
    /\ \/ out.bad = NoBlock
       \/ /\ out.bad \in Chain[mw] /\ out.bad \notin Chain[out.tip]
          /\ out.bad \in BadContext \cup BadConnect

\* So does every outcome of ConnectTips.
LEMMA ConnectFacts ==
    ASSUME Core, NEW mw \in Blocks, NEW fork \in Chain[mw],
           NEW out \in ConnectTips(fork, mw)
    PROVE  Connected(out, fork, mw)
<1> DEFINE path == Chain[mw] \ Chain[fork]
           more == {b \in path : ChainWork[b] > ChainWork[tip]}
           goal == IF more = {} THEN mw ELSE Lowest(more)
           steps == Chain[goal] \ Chain[fork]
           wrong == steps \cap (BadContext \cup BadConnect)
           bad == IF wrong = {} THEN NoBlock ELSE Lowest(wrong)
           end == IF wrong = {} THEN goal ELSE Parent[bad]
           done(b) == Height[b] <= Height[end] + (IF wrong = {} THEN 0 ELSE 1)
           late == {b \in steps : done(b) /\ b \in FutureBlocks}
           broken == {b \in steps : done(b) /\ DiskErrors}
           Ends(e) == /\ e \in Chain[mw] /\ fork \in Chain[e]
                      /\ (Chain[e] \ Chain[fork]) \cap (BadContext \cup BadConnect) = {}
<1>1. Chain[mw] \subseteq Blocks /\ fork \in Blocks /\ mw \in Chain[mw]
  BY Zenon, ChainFacts
<1>2. goal \in Chain[mw] /\ fork \in Chain[goal] /\ goal \in Blocks
  <2>1. CASE more = {}
    BY Zenon, <2>1, <1>1
  <2>2. CASE more # {}
    <3>1. Lowest(more) \in more
      <4>1. more \subseteq Blocks
        BY Zenon, <1>1
      <4> HIDE DEF more
      <4> QED BY <4>1, <2>2, LowestIn, Zenon
    <3>2. goal \in path
      BY Zenon, <3>1, <2>2
    <3> QED BY Zenon, <3>2, <1>1, ChainOrder
  <2> QED BY Zenon, <2>1, <2>2
<1>3. /\ Chain[goal] \subseteq Chain[mw] /\ goal \in Chain[goal]
      /\ steps \subseteq Chain[mw] /\ steps \subseteq Blocks
  BY Zenon, <1>1, <1>2, ChainFacts
<1> HIDE DEF more, goal
<1>4. ASSUME NEW b \in steps
      PROVE  /\ b # Genesis /\ b \in Blocks /\ Parent[b] \in Chain[goal]
             /\ fork \in Chain[b] /\ fork \in Chain[Parent[b]]
             /\ Parent[b] \in Chain[mw] /\ Parent[b] \in Blocks
             /\ Chain[Parent[b]] \subseteq Chain[goal] /\ b \notin Chain[Parent[b]]
             /\ Height[b] = Height[Parent[b]] + 1
             /\ Height[b] \in Nat /\ Height[Parent[b]] \in Nat
  <2>1. b \in Blocks /\ b \in Chain[goal] /\ b \notin Chain[fork]
    BY Zenon, <1>3
  <2>2. b # Genesis /\ fork \in Chain[b] /\ b # fork
    BY Zenon, <2>1, <1>1, <1>2, ChainFacts, ChainOrder
  <2>3. /\ Chain[b] = Chain[Parent[b]] \cup {b} /\ b \notin Chain[Parent[b]]
        /\ Parent[b] \in Blocks /\ Height[b] = Height[Parent[b]] + 1
        /\ Height[b] \in Nat /\ Height[Parent[b]] \in Nat
    BY Zenon, <2>1, <2>2, ParentFacts
  <2>4. Parent[b] \in Chain[goal] /\ Chain[Parent[b]] \subseteq Chain[goal]
    BY Zenon, <2>1, <2>2, <1>2, ChainFacts
  <2> QED BY Zenon, <2>1, <2>2, <2>3, <2>4, <1>3
<1>5. wrong # {} => /\ bad \in steps /\ bad \in BadContext \cup BadConnect
                    /\ \A c \in wrong : Height[bad] <= Height[c]
  <2>1. wrong \subseteq Blocks
    BY Zenon, <1>3
  <2>2. wrong # {} => Lowest(wrong) \in wrong /\ \A c \in wrong : Height[Lowest(wrong)] <= Height[c]
    <3> HIDE DEF wrong
    <3> QED BY <2>1, LowestIn, Zenon
  <2> QED BY Zenon, <2>2
<1>6. Ends(end) /\ end \in Blocks /\ Height[end] \in Nat
  <2>1. CASE wrong = {}
    BY Zenon, <2>1, <1>2, TreeAssumption
  <2>2. CASE wrong # {}
    <3>1. bad \in steps /\ end = Parent[bad]
      BY Zenon, <2>2, <1>5
    <3>2. /\ end \in Chain[mw] /\ fork \in Chain[end] /\ end \in Blocks
          /\ Chain[end] \subseteq Chain[goal] /\ Height[bad] = Height[end] + 1
          /\ Height[end] \in Nat
      BY Zenon, <3>1, <1>4
    <3>3. ASSUME NEW x \in (Chain[end] \ Chain[fork]) \cap (BadContext \cup BadConnect)
          PROVE  FALSE
      <4>1. x \in wrong
        BY Zenon, <3>2, <3>3
      <4>2. Height[bad] <= Height[x]
        BY Zenon, <4>1, <1>5, <2>2
      <4>3. Height[x] <= Height[end] /\ Height[x] \in Nat
        BY Zenon, <3>2, <3>3, ChainOrder
      <4> QED BY <4>2, <4>3, <3>2
    <3> QED BY Zenon, <3>2, <3>3
  <2> QED BY Zenon, <2>1, <2>2
<1>7. ASSUME NEW b \in steps, done(b) PROVE Ends(Parent[b])
  <2>1. Height[Parent[b]] <= Height[end] /\ Parent[b] \in Chain[goal]
    <3>1. Height[b] = Height[Parent[b]] + 1 /\ Height[Parent[b]] \in Nat /\ Height[end] \in Nat
      BY Zenon, <1>4, <1>6
    <3> HIDE DEF end, wrong
    <3> QED BY <1>4, <1>7, <3>1
  <2>2. end \in Chain[goal]
    <3>1. CASE wrong = {}
      BY Zenon, <3>1, <1>3
    <3>2. CASE wrong # {}
      BY Zenon, <3>2, <1>4, <1>5
    <3> QED BY Zenon, <3>1, <3>2
  <2>3. Parent[b] \in Chain[end]
    <3> HIDE DEF end
    <3> QED BY Zenon, <2>1, <2>2, <1>2, Ancestries DEF Ancestry
  <2>4. Chain[Parent[b]] \subseteq Chain[end]
    BY Zenon, <2>3, <1>6, ChainFacts
  <2> QED BY Zenon, <2>4, <1>4, <1>6
<1>8. \/ out = [tip |-> end, seen |-> end, bad |-> bad, ok |-> TRUE, abort |-> FALSE]
      \/ \E b \in late \cup broken :
            /\ out.tip = Parent[b] /\ out.seen \in {b, Parent[b]} /\ out.bad = NoBlock
            /\ out.ok = FALSE /\ out.abort \in BOOLEAN
  <2> HIDE DEF late, broken, end, bad, path, steps, wrong
  <2>1. out \in {[tip |-> end, seen |-> end, bad |-> bad, ok |-> TRUE, abort |-> FALSE]}
        \cup {[tip |-> Parent[b], seen |-> Parent[b], bad |-> NoBlock,
               ok |-> FALSE, abort |-> FALSE] : b \in late}
        \cup {[tip |-> Parent[b], seen |-> Parent[b], bad |-> NoBlock,
               ok |-> FALSE, abort |-> TRUE] : b \in broken}
        \cup {[tip |-> Parent[b], seen |-> b, bad |-> NoBlock,
               ok |-> FALSE, abort |-> TRUE] : b \in broken \ {bad}}
    BY Zenon DEF ConnectTips, path, more, goal, steps, wrong, bad, end, late, broken
  <2>2. ASSUME NEW b \in late,
               out = [tip |-> Parent[b], seen |-> Parent[b], bad |-> NoBlock,
                      ok |-> FALSE, abort |-> FALSE]
        PROVE  /\ out.tip = Parent[b] /\ out.seen \in {b, Parent[b]} /\ out.bad = NoBlock
               /\ out.ok = FALSE /\ out.abort \in BOOLEAN
    BY Zenon, <2>2
  <2>3. ASSUME NEW b \in broken,
               \/ out = [tip |-> Parent[b], seen |-> Parent[b], bad |-> NoBlock,
                         ok |-> FALSE, abort |-> TRUE]
               \/ out = [tip |-> Parent[b], seen |-> b, bad |-> NoBlock,
                         ok |-> FALSE, abort |-> TRUE]
        PROVE  /\ out.tip = Parent[b] /\ out.seen \in {b, Parent[b]} /\ out.bad = NoBlock
               /\ out.ok = FALSE /\ out.abort \in BOOLEAN
    <3>1. CASE out = [tip |-> Parent[b], seen |-> Parent[b], bad |-> NoBlock,
                      ok |-> FALSE, abort |-> TRUE]
      BY Zenon, <3>1
    <3>2. CASE out = [tip |-> Parent[b], seen |-> b, bad |-> NoBlock,
                      ok |-> FALSE, abort |-> TRUE]
      BY Zenon, <3>2
    <3> QED BY <2>3, <3>1, <3>2, Zenon
  <2> QED BY <2>1, <2>2, <2>3, Zenon
<1>9. CASE out = [tip |-> end, seen |-> end, bad |-> bad, ok |-> TRUE, abort |-> FALSE]
  <2>1. out.tip = end /\ out.seen = end /\ out.bad = bad /\ out.ok = TRUE /\ out.abort = FALSE
    BY Zenon, <1>9
  <2>2. out.bad = NoBlock \/ /\ out.bad \in Chain[mw] /\ out.bad \notin Chain[out.tip]
                             /\ out.bad \in BadContext \cup BadConnect
    <3>1. CASE wrong = {}
      BY Zenon, <2>1, <3>1
    <3>2. CASE wrong # {}
      <4>1. end = Parent[bad] /\ bad \in steps
        BY Zenon, <3>2, <1>5
      <4> QED BY Zenon, <4>1, <2>1, <3>2, <1>3, <1>4, <1>5
    <3> QED BY <3>1, <3>2, Zenon
  <2>3. Ends(out.tip) /\ out.ok \in BOOLEAN /\ out.abort \in BOOLEAN
    BY <2>1, <1>6, Zenon
  <2>4. out.seen \in Chain[mw] /\ fork \in Chain[out.seen] /\ out.seen = out.tip
    BY <2>1, <2>3, Zenon
  <2> QED BY <2>2, <2>3, <2>4, Zenon DEF Connected
<1>10. ASSUME NEW b \in late \cup broken,
              out.tip = Parent[b] /\ out.seen \in {b, Parent[b]} /\ out.bad = NoBlock,
              out.ok = FALSE /\ out.abort \in BOOLEAN
       PROVE  /\ Ends(out.tip) /\ out.ok \in BOOLEAN /\ out.abort \in BOOLEAN
              /\ out.seen \in Chain[mw] /\ fork \in Chain[out.seen]
              /\ \/ out.seen = out.tip
                 \/ out.seen # Genesis /\ Parent[out.seen] = out.tip
              /\ out.bad = NoBlock
  <2>1. b \in steps /\ done(b)
    BY Zenon
  <2>2. Ends(Parent[b])
    BY Zenon, <2>1, <1>7
  <2> QED BY Zenon, <2>1, <2>2, <1>3, <1>4, <1>10
<1> QED BY Zenon, <1>8, <1>9, <1>10 DEF Connected


-----------------------------------------------------------------------------
(* Notarizations.                                                          *)

\* Natural numbers, one for each member of a finite set, have a bound.
LEMMA Bounded ==
    ASSUME NEW S, IsFiniteSet(S), NEW f \in [S -> Nat]
    PROVE  \E n \in Nat : \A x \in S : f[x] <= n
<1> DEFINE HasBound(U) == \E n \in Nat : \A x \in U : f[x] <= n
           R == StrictSubsetOrdering(S)
           T == {U \in SUBSET S : ~HasBound(U)}
<1>1. T \subseteq FiniteSubsetsOf(S)
  BY Zenon, FS_Subset DEF FiniteSubsetsOf
<1>2. T = {}
  <2> SUFFICES ASSUME T # {} PROVE FALSE
    BY Zenon
  <2>1. PICK U \in T : \A V \in T : ~ (<<V, U>> \in R)
    <3>1. IsWellFoundedOn(R, FiniteSubsetsOf(S))
      BY Zenon, FS_StrictSubsetOrderingWellFounded
    <3> HIDE DEF T, R
    <3> QED BY <1>1, <3>1, WFMin, Zenon
  <2>2. CASE U = {}
    <3>1. \A x \in U : f[x] <= 0
      BY Zenon, <2>2
    <3> QED BY Zenon, <3>1
  <2>3. CASE U # {}
    <3>1. PICK x \in U : TRUE
      BY Zenon, <2>3
    <3> DEFINE V == U \ {x}
    <3>2. <<V, U>> \in R
      BY Zenon, <3>1 DEF StrictSubsetOrdering
    <3>3. PICK n \in Nat : \A y \in V : f[y] <= n
      BY Zenon, <2>1, <3>2
    <3>4. f[x] \in Nat /\ \A y \in U : f[y] \in Nat
      BY Zenon
    <3>5. n + f[x] \in Nat /\ \A y \in U : f[y] <= n + f[x]
      BY <3>3, <3>4
    <3> QED BY Zenon, <3>5
  <2> QED BY Zenon, <2>2, <2>3
<1>3. HasBound(S)
  BY Zenon, <1>2
<1> QED
  BY Zenon, <1>3

\* The recursion of Notarized, which goes down the chain.
Solves(g, points, fork) ==
    g = [b \in Blocks |-> IF b \in {fork, Genesis} THEN points
                          ELSE hush_connectblock(g[Parent[b]], b)]

\* It has a solution, by induction on the height.
LEMMA RecursionSolved ==
    ASSUME NEW points, NEW fork
    PROVE  \E g : Solves(g, points, fork)
<1> DEFINE St(g, b) == IF b \in {fork, Genesis} THEN points
                       ELSE hush_connectblock(g[Parent[b]], b)
           Upto(g, n) == \A b \in Blocks : Height[b] <= n => g[b] = St(g, b)
           Fs == {n \in Nat : ~\E g : g = [b \in Blocks |-> g[b]] /\ Upto(g, n)}
<1>1. Fs = {}
  <2> SUFFICES ASSUME Fs # {} PROVE FALSE
    BY Zenon
  <2>1. PICK n \in Fs : \A m \in Fs : n <= m
    <3>1. Fs \subseteq Nat
      BY Zenon
    <3> HIDE DEF Fs
    <3> QED BY <3>1, LeastNat, Zenon
  <2>2. \A b \in Blocks : /\ Height[b] \in Nat
                          /\ b # Genesis => /\ Parent[b] \in Blocks
                                            /\ Height[b] = Height[Parent[b]] + 1
                                            /\ Height[Parent[b]] \in Nat
    BY Zenon, TreeAssumption
  <2>3. CASE n = 0
    <3> DEFINE g == [b \in Blocks |-> points]
    <3>1. \A b \in Blocks : Height[b] <= 0 => b = Genesis
      BY <2>2
    <3>2. Upto(g, n)
      BY Zenon, <2>3, <3>1
    <3>3. g = [b \in Blocks |-> g[b]]
      BY Zenon
    <3> QED BY Zenon, <2>1, <3>2, <3>3
  <2>4. CASE n # 0
    <3>1. n - 1 \in Nat /\ n - 1 \notin Fs
      BY <2>1, <2>4
    <3>2. PICK h : h = [b \in Blocks |-> h[b]] /\ Upto(h, n - 1)
      BY Zenon, <3>1
    <3> DEFINE g == [b \in Blocks |-> IF Height[b] = n THEN St(h, b) ELSE h[b]]
    <3>3. ASSUME NEW b \in Blocks, Height[b] <= n PROVE g[b] = St(g, b)
      <4>1. CASE b \in {fork, Genesis}
        <5>1. St(h, b) = points /\ St(g, b) = points
          BY Zenon, <4>1
        <5>2. Height[b] # n => h[b] = St(h, b)
          <6>1. Height[b] # n => Height[b] <= n - 1
            BY <3>3, <2>1, <2>2
          <6> QED BY Zenon, <6>1, <3>2
        <5> HIDE DEF St
        <5> QED BY Zenon, <5>1, <5>2
      <4>2. CASE b \notin {fork, Genesis}
        <5>1. Parent[b] \in Blocks /\ Height[Parent[b]] # n
          BY <4>2, <2>1, <2>2, <3>3
        <5>2. g[Parent[b]] = h[Parent[b]]
          BY Zenon, <5>1
        <5>3. St(g, b) = St(h, b)
          BY <5>2
        <5>4. Height[b] # n => h[b] = St(h, b)
          <6>1. Height[b] # n => Height[b] <= n - 1
            BY <3>3, <2>1, <2>2
          <6> QED BY Zenon, <6>1, <3>2
        <5> HIDE DEF St
        <5> QED BY Zenon, <5>3, <5>4
      <4> QED BY Zenon, <4>1, <4>2
    <3>4. g = [b \in Blocks |-> g[b]] /\ Upto(g, n)
      <4>1. Upto(g, n)
        BY <3>3, Zenon
      <4> QED BY Zenon, <4>1
    <3> HIDE DEF g
    <3> QED BY <2>1, <3>4, Zenon
  <2> QED BY Zenon, <2>3, <2>4
<1>2. PICK n \in Nat : \A b \in Blocks : Height[b] <= n
  BY Zenon, Bounded, TreeAssumption
<1>3. PICK g : g = [b \in Blocks |-> g[b]] /\ Upto(g, n)
  BY Zenon, <1>1, <1>2
<1>4. \A b \in Blocks : g[b] = St(g, b)
  BY <1>2, <1>3, Zenon
<1>5. g = [b \in Blocks |-> St(g, b)]
  <2> HIDE DEF St, Upto
  <2> QED BY Zenon, <1>3, <1>4
<1>6. Solves(g, points, fork)
  BY Zenon, <1>5 DEF Solves
<1> QED BY Zenon, <1>6

\* The notarizations of ancestors of c are those of ancestors of any block on
\* top of it.
LEMMA SoundAbove ==
    ASSUME NEW d \in Blocks, NEW c \in Chain[d], NEW points, Sound(points, c)
    PROVE  Sound(points, d)
<1>1. Chain[c] \subseteq Chain[d]
  BY Zenon, ChainFacts
<1> QED BY Zenon, <1>1 DEF Sound

\* Connecting a block adds a notarization that is higher than the others and
\* names an ancestor of its parent.
LEMMA ConnectSound ==
    ASSUME index \subseteq Blocks, NEW b \in Blocks, b # Genesis,
           NEW points, Sound(points, Parent[b])
    PROVE  Sound(hush_connectblock(points, b), Parent[b])
<1> DEFINE n == Notarizes[b]
           N == Len(points)
           last == IF points = <<>> THEN 0 ELSE Height[LastNotarized(points)]
           e == [nHeight |-> Height[b], block |-> n]
           more == Append(points, e)
<1>1. CASE ~(n \in index /\ Height[n] > last /\ Height[n] < Height[b])
  BY Zenon, <1>1 DEF hush_connectblock
<1>2. CASE n \in index /\ Height[n] > last /\ Height[n] < Height[b]
  <2>1. hush_connectblock(points, b) = more
    BY Zenon, <1>2 DEF hush_connectblock
  <2>2. /\ n \in Blocks /\ n # NoBlock /\ Height[b] \in Nat /\ Height[n] \in Nat
        /\ Parent[b] \in Blocks /\ Chain[b] = Chain[Parent[b]] \cup {b}
    BY Zenon, <1>2, TreeAssumption
  <2>3. points \in Seq(Points) /\ e \in Points /\ e.block = n
    BY Zenon, <2>2 DEF Points, Sound
  <2> HIDE DEF e
  <2>4. /\ more \in Seq(Points) /\ N \in Nat /\ Len(more) = N + 1 /\ more[N + 1] = e
        /\ \A i \in 1 .. N : more[i] = points[i] /\ points[i] \in Points
    BY <2>3
  <2>5. ASSUME NEW i \in 1 .. Len(more) PROVE (i \in 1 .. N /\ more[i] = points[i]) \/ (i = N + 1 /\ more[i].block = n)
    BY <2>3, <2>4
  <2> HIDE DEF more, N
  <2>6. \A i \in 1 .. Len(more) : \E c \in Blocks : more[i].block = Notarizes[c]
    BY Zenon, <2>5 DEF Sound, N
  <2>7. ASSUME NotarizesAncestors PROVE n \in Chain[Parent[b]]
    BY <1>2, <2>2, <2>7 DEF NotarizesAncestors
  <2>8. ASSUME NotarizesAncestors, NEW i \in 1 .. N PROVE Height[points[i].block] < Height[n]
    <3>1. N \in 1 .. N /\ points # <<>> /\ (i = N \/ i < N)
      BY <2>3, <2>4, <2>8 DEF N
    <3>2. Height[points[N].block] < Height[n]
      BY Zenon, <1>2, <2>2, <2>4, <3>1, TreeAssumption DEF LastNotarized, N, Points
    <3>3. i < N => Height[points[i].block] < Height[points[N].block]
      BY Zenon, <2>8, <3>1 DEF Sound, N
    <3>4. points[i].block \in Blocks /\ points[N].block \in Blocks
      BY Zenon, <2>4, <3>1 DEF Points
    <3>5. Height[points[i].block] \in Nat /\ Height[points[N].block] \in Nat
      BY Zenon, <3>4, TreeAssumption
    <3> QED BY <3>1, <3>2, <3>3, <3>5, <2>2
  <2>9. ASSUME NotarizesAncestors, NEW i \in 1 .. Len(more) PROVE more[i].block \in Chain[Parent[b]]
    BY Zenon, <2>5, <2>7, <2>9 DEF Sound, N
  <2>10. ASSUME NotarizesAncestors, NEW i \in 1 .. Len(more), NEW j \in 1 .. Len(more), i < j
         PROVE  Height[more[i].block] < Height[more[j].block]
    <3>1. i \in 1 .. N /\ more[i] = points[i]
      BY <2>4, <2>5, <2>10
    <3>2. CASE j \in 1 .. N /\ more[j] = points[j]
      BY Zenon, <3>1, <3>2, <2>10 DEF Sound, N
    <3>3. CASE more[j].block = n
      BY Zenon, <3>1, <3>3, <2>8, <2>10
    <3> QED BY Zenon, <3>2, <3>3, <2>5
  <2> QED BY Zenon, <2>1, <2>4, <2>6, <2>9, <2>10 DEF Sound
<1> QED BY Zenon, <1>1, <1>2


\* After connecting the blocks above fork up to seen, the notarizations are
\* those of ancestors of seen, and of its parent.
LEMMA NotarizedSound ==
    ASSUME index \subseteq Blocks, NEW seen \in Blocks, NEW fork \in Chain[seen],
           NEW points, Sound(points, fork)
    PROVE  /\ Sound(Notarized(points, fork, seen), seen)
           /\ seen # fork => Sound(Notarized(points, fork, seen), Parent[seen])
<1> DEFINE St(g, b) == IF b \in {fork, Genesis} THEN points
                       ELSE hush_connectblock(g[Parent[b]], b)
           after == CHOOSE g : Solves(g, points, fork)
           P(b) == /\ Sound(after[b], b)
                   /\ b # fork => Sound(after[b], Parent[b])
           Fs == {Height[b] : b \in {x \in Blocks : fork \in Chain[x] /\ ~P(x)}}
<1>1. Solves(after, points, fork)
  BY Zenon, RecursionSolved
<1>2. Notarized(points, fork, seen) = after[seen]
  BY Zenon DEF Notarized, Solves
<1> HIDE DEF after
<1>3. \A b \in Blocks : after[b] = St(after, b)
  BY Zenon, <1>1 DEF Solves
<1>4. Fs = {}
  <2> SUFFICES ASSUME Fs # {} PROVE FALSE
    BY Zenon
  <2>1. PICK h \in Fs : \A m \in Fs : h <= m
    <3>1. Fs \subseteq Nat
      BY TreeAssumption
    <3> HIDE DEF Fs
    <3> QED BY Zenon, <3>1, LeastNat
  <2>2. PICK b \in Blocks : fork \in Chain[b] /\ ~P(b) /\ Height[b] = h
    BY Zenon, <2>1
  <2>3. CASE b = fork
    <3>1. after[b] = points
      BY Zenon, <1>3, <2>3
    <3> QED BY Zenon, <2>2, <2>3, <3>1
  <2>4. CASE b # fork
    <3>1. b # Genesis
      BY Zenon, <2>2, <2>4, TreeAssumption
    <3>2. /\ Parent[b] \in Blocks /\ Height[b] = Height[Parent[b]] + 1
          /\ Height[b] \in Nat /\ Height[Parent[b]] \in Nat
          /\ Parent[b] \in Chain[b] /\ fork \in Chain[Parent[b]]
      BY <2>2, <2>4, <3>1, ParentFacts
    <3>3. P(Parent[b])
      <4>1. Height[Parent[b]] \in Fs => Height[b] <= Height[Parent[b]]
        BY Zenon, <2>1, <2>2
      <4>2. Height[Parent[b]] \notin Fs
        BY <3>2, <4>1
      <4> QED BY Zenon, <3>2, <4>2
    <3>4. after[b] = hush_connectblock(after[Parent[b]], b)
      BY Zenon, <1>3, <2>4, <3>1
    <3>5. Sound(after[b], Parent[b])
      BY Zenon, <3>1, <3>3, <3>4, ConnectSound
    <3>6. Sound(after[b], b)
      BY Zenon, <3>2, <3>5, SoundAbove
    <3> QED BY Zenon, <2>2, <3>5, <3>6
  <2> QED BY Zenon, <2>3, <2>4
<1>5. P(seen)
  BY Zenon, <1>4
<1> QED BY Zenon, <1>2, <1>5

\* As long as the last notarized block stays in the chain, they all do.
LEMMA SoundBelow ==
    ASSUME Core, NEW x \in Chain[tip], NOTARIZED_HASH \in Chain[tip] => NOTARIZED_HASH \in Chain[x]
    PROVE  Sound(npoints, x)
<1> DEFINE N == Len(npoints)
<1>1. Sound(npoints, tip) /\ npoints \in Seq(Points)
  BY Zenon DEF Core, Sound
<1>2. ASSUME NotarizesAncestors, NEW i \in 1 .. N PROVE npoints[i].block \in Chain[x]
  <2>1. N \in 1 .. N /\ npoints # <<>> /\ (i = N \/ i < N)
    BY <1>1, <1>2
  <2>2. NOTARIZED_HASH = npoints[N].block
    BY Zenon, <2>1 DEF NOTARIZED_HASH, LastNotarized
  <2>3. /\ npoints[i].block \in Chain[tip] /\ npoints[N].block \in Chain[tip]
        /\ i < N => Height[npoints[i].block] < Height[npoints[N].block]
    BY Zenon, <1>1, <1>2, <2>1 DEF Sound
  <2>4. tip \in Blocks /\ npoints[i].block \in Blocks /\ npoints[N].block \in Blocks
    BY Zenon, <2>3, CoreFacts, ChainFacts
  <2>5. npoints[i].block \in Chain[npoints[N].block]
    <3>1. CASE i = N
      BY Zenon, <3>1, <2>4, ChainFacts
    <3>2. CASE i < N
      <4>1. Height[npoints[i].block] <= Height[npoints[N].block]
        BY <2>3, <2>4, <3>2, TreeAssumption
      <4> QED BY <2>3, <2>4, <4>1, Ancestries DEF Ancestry
    <3> QED BY Zenon, <2>1, <3>1, <3>2
  <2>6. x \in Blocks
    BY Zenon, <2>4, ChainFacts
  <2>7. npoints[N].block \in Chain[x]
    BY Zenon, <2>2, <2>3
  <2>8. Chain[npoints[N].block] \subseteq Chain[x]
    BY Zenon, <2>6, <2>7, ChainFacts
  <2> QED BY Zenon, <2>5, <2>8
<1> QED BY Zenon, <1>1, <1>2 DEF Sound

\* DisconnectTip refuses the last notarized block: none is lost.
LEMMA UnwindSound ==
    ASSUME Core, NEW to \in Chain[tip], NEW out \in Unwind(to)
    PROVE  Sound(npoints, out.tip)
<1>1. /\ out.tip \in Chain[tip] /\ to \in Chain[out.tip]
      /\ NOTARIZED_HASH \in Chain[tip] \ Chain[to] => NOTARIZED_HASH \in Chain[out.tip]
  BY Zenon, UnwindFacts
<1>2. Chain[to] \subseteq Chain[out.tip]
  BY Zenon, <1>1, CoreFacts, ChainFacts
<1>3. NOTARIZED_HASH \in Chain[tip] => NOTARIZED_HASH \in Chain[out.tip]
  BY Zenon, <1>1, <1>2
<1> QED BY Zenon, <1>1, <1>3, SoundBelow


-----------------------------------------------------------------------------
(* Every step keeps Core.                                                  *)

\* The two halves of TypeOK: the index, and the rest.
Data ==
    /\ index \subseteq Blocks /\ haveData \subseteq index
    /\ level \in [Blocks -> {0, 2, 3, 6, 7}]
    /\ failedValid \subseteq index /\ failedChild \subseteq index
    /\ linked \subseteq haveData /\ unlinked \subseteq haveData
    /\ nSequenceId \in [Blocks -> Nat] /\ nBlockSequenceId \in Nat
    /\ skipped \subseteq Blocks

Control ==
    /\ fRequestShutdown \in BOOLEAN /\ postponed \in BOOLEAN
    /\ pc \in [Threads -> {"idle", "enter", "activate", "test"}]
    /\ mostWork \in [Threads -> Blocks \cup {NoBlock}]
    /\ cleared \subseteq Blocks /\ nRpc \in 0 .. MaxRpc

\* Core, part by part.
LEMMA CoreParts ==
    Core <=> Data /\ Control /\ Links /\ Keys /\ tip \in linked /\ CandidatesSound /\ Sound(npoints, tip)
<1>1. ASSUME Core PROVE Data /\ Control
  <2>1. TypeOK
    BY Zenon, <1>1 DEF Core
  <2>2. cleared \subseteq Blocks /\ skipped \subseteq Blocks
    BY Zenon, <2>1 DEF TypeOK
  <2> QED BY Zenon, <2>1, <2>2 DEF TypeOK, Data, Control
<1>2. ASSUME Data, Control, tip \in linked, CandidatesSound, Sound(npoints, tip) PROVE TypeOK
  <2>1. candidates \subseteq index /\ tip \in index
    BY Zenon, <1>2 DEF Data, CandidatesSound
  <2>2. npoints \in Seq([nHeight : Nat, block : Blocks])
    BY Zenon, <1>2 DEF Sound, Points
  <2>3. {cleared, skipped} \subseteq SUBSET Blocks
    BY Zenon, <1>2 DEF Data, Control
  <2> QED BY Zenon, <1>2, <2>1, <2>2, <2>3 DEF Data, Control, TypeOK
<1> QED BY Zenon, <1>1, <1>2 DEF Core

\* What every action does to the flags of the node and of its threads.
LEMMA ControlKept ==
    ASSUME Core, Next
    PROVE  Control'
<1> USE DEF Goto
<1>1. Control /\ Data
  BY Zenon, CoreParts
<1>2. ASSUME NEW b \in Blocks, AddHeader(b) \/ UNCHANGED cleared PROVE cleared' \subseteq Blocks
  BY Zenon, <1>1, <1>2 DEF AddHeader, Cleared, Control
<1>3. ASSUME NEW b \in Blocks, AcceptBlockHeader(b) PROVE Control'
  <2>1. cleared' \subseteq Blocks
    BY Zenon, <1>2, <1>3 DEF AcceptBlockHeader
  <2> QED BY Zenon, <1>1, <1>3, <2>1 DEF AcceptBlockHeader, Control, threadVars
<1>4. ASSUME NEW t \in NetThreads, NEW b \in Blocks, ProcessNewBlock(t, b) PROVE Control'
  <2>0. t \in Threads /\ nRpc' = nRpc
    BY Zenon, <1>4 DEF Threads, ProcessNewBlock, ProcessUnwanted, ProcessStored, ProcessBadContext, ProcessNoSpace
  <2>1. cleared' \subseteq Blocks
    BY Zenon, <1>2, <1>4 DEF ProcessNewBlock, ProcessUnwanted, ProcessStored, ProcessBadContext, ProcessNoSpace, HeaderPassed
  <2>2. fRequestShutdown' \in BOOLEAN
    BY Zenon, <1>1, <1>4, SettingsAssumption DEF ProcessNewBlock, ProcessUnwanted, ProcessStored, ProcessBadContext, ProcessNoSpace, Control
  <2>3. ASSUME NEW future \in BOOLEAN, EndProcess(t, future)
        PROVE  postponed' \in BOOLEAN /\ pc' \in [Threads -> {"idle", "enter", "activate", "test"}] /\ mostWork' = mostWork
    BY Zenon, <1>1, <2>0, <2>3 DEF EndProcess, Control
  <2>4. \/ \E future \in {FALSE, (b \in FutureBlocks)} : EndProcess(t, future)
        \/ UNCHANGED <<pc, mostWork, postponed>>
    BY Zenon, <1>4 DEF ProcessNewBlock, ProcessUnwanted, ProcessStored, ProcessBadContext, ProcessNoSpace, threadVars
  <2>5. {FALSE, (b \in FutureBlocks)} \subseteq BOOLEAN
    OBVIOUS
  <2>6. postponed' \in BOOLEAN /\ pc' \in [Threads -> {"idle", "enter", "activate", "test"}] /\ mostWork' = mostWork
    BY Zenon, <1>1, <2>3, <2>4, <2>5 DEF Control
  <2> QED BY Zenon, <1>1, <2>0, <2>1, <2>2, <2>6 DEF Control
<1>5. ASSUME NEW t \in Threads, ActivateBestChain(t) PROVE Control'
  <2>1. UNCHANGED <<cleared, nRpc>>
    BY Zenon, <1>5 DEF ActivateBestChain, ShutdownTest, ActivateNothing, ActivatePastNotarized, ActivateTooLong,
         ActivateStuck, ActivateReorganise, LoopTest
  <2>2. fRequestShutdown' \in BOOLEAN
    <3>1. fRequestShutdown \in BOOLEAN
      BY Zenon, <1>1 DEF Control
    <3> QED BY Zenon, <1>5, <3>1 DEF ActivateBestChain, ShutdownTest, ActivateNothing, ActivatePastNotarized, ActivateTooLong,
         ActivateStuck, ActivateReorganise, LoopTest, InvalidateBlock
  <2>3. CASE \E left \in BOOLEAN : Return(t, left)
    BY Zenon, <1>1, <2>1, <2>2, <2>3 DEF Return, Control
  <2>4. CASE ShutdownTest(t) \/ LoopTest(t)
    BY Zenon, <1>1, <2>4 DEF ShutdownTest, LoopTest, Control
  <2>5. CASE ActivateReorganise(t)
    <3>1. CASE Goto(t, "test") /\ mostWork' = [mostWork EXCEPT ![t] = MostWork] /\ UNCHANGED postponed
      <4>1. MostWork \in Blocks
        BY Zenon, <2>5, MostWorkFacts DEF ActivateReorganise
      <4> QED BY Zenon, <1>1, <2>1, <2>2, <3>1, <4>1 DEF Control
    <3>2. CASE Return(t, TRUE)
      BY Zenon, <2>3, <3>2
    <3> QED BY Zenon, <2>5, <3>1, <3>2 DEF ActivateReorganise
  <2> QED BY Zenon, <1>5, <2>3, <2>4, <2>5 DEF ActivateBestChain, ActivateNothing, ActivatePastNotarized, ActivateTooLong, ActivateStuck
<1>6. ASSUME NEW t \in RpcThreads, NEW p \in Invalidatable, invalidateblock(t, p) PROVE Control'
  <2>1. nRpc' \in 0 .. MaxRpc
    BY <1>1, <1>6, SettingsAssumption DEF invalidateblock, Control
  <2>2. /\ fRequestShutdown' \in BOOLEAN /\ postponed' \in BOOLEAN /\ UNCHANGED <<mostWork, cleared>>
        /\ pc' = [pc EXCEPT ![t] = "enter"] \/ pc' = [pc EXCEPT ![t] = "idle"]
    BY Zenon, <1>6 DEF invalidateblock, InvalidateBlock
  <2>3. t \in Threads
    BY Zenon DEF Threads
  <2> QED BY Zenon, <1>1, <2>1, <2>2, <2>3 DEF Control
<1>7. ASSUME NEW t \in RpcThreads, NEW p \in Reconsiderable, reconsiderblock(t, p) PROVE Control'
  <2>1. nRpc' \in 0 .. MaxRpc
    BY <1>1, <1>7, SettingsAssumption DEF reconsiderblock, Control
  <2>2. /\ UNCHANGED <<fRequestShutdown, mostWork, postponed>> /\ cleared' \subseteq cleared \cup Failed
        /\ pc' = [pc EXCEPT ![t] = "enter"]
    BY Zenon, <1>7 DEF reconsiderblock
  <2>3. t \in Threads /\ cleared' \subseteq Blocks
    BY Zenon, <1>1, <2>2 DEF Threads, Control, Failed, Data
  <2> QED BY Zenon, <1>1, <2>1, <2>2, <2>3 DEF Control
<1> QED BY Zenon, <1>3, <1>4, <1>5, <1>6, <1>7 DEF Next


\* Steps that leave the links alone: it remains to look at the tip, the
\* candidates and the notarizations.
LEMMA Frame ==
    ASSUME Core, Data', Control',
           UNCHANGED <<haveData, linked, nSequenceId, nBlockSequenceId, unlinked, skipped>>,
           tip' \in linked, Sound(npoints', tip'),
           \A c \in candidates' : c \in linked /\ ~Worse(c, tip', nSequenceId)
    PROVE  Core'
<1>1. Links' /\ Keys'
  BY Zenon DEF Core, Links, Keys
<1>2. CandidatesSound' /\ (tip \in linked)' /\ Sound(npoints, tip)'
  BY Zenon DEF CandidatesSound, Worse, Sound
<1> QED BY <1>1, <1>2, CoreParts, PTL


\* A header, alone or with its block, adds no failure.
LEMMA HeaderFacts ==
    ASSUME NEW b \in Blocks, NEW future, HeaderPassed(b, future)
    PROVE  /\ index' = index \cup {b}
           /\ failedValid' \subseteq failedValid /\ failedChild' \subseteq failedChild
           /\ \A x \in Failed \ {b} : x \in failedValid' \cup failedChild'
BY Zenon DEF HeaderPassed, AddHeader, Failed

\* The levels that headers and blocks get.
LEMMA LevelTypes ==
    ASSUME Core, NEW b \in Blocks
    PROVE  {LevelWithHeader(b), StoredLevel(b), BLOCK_VALID_CONTEXT} \subseteq {0, 2, 3, 6, 7}
<1>1. level[b] \in {0, 2, 3, 6, 7}
  BY Zenon DEF Core, TypeOK
<1> QED BY Zenon, <1>1 DEF LevelWithHeader, StoredLevel, BLOCK_VALID_CONTEXT, BLOCK_VALID_TREE, BLOCK_VALID_TRANSACTIONS

\* Headers, and blocks that are not stored.
LEMMA HeaderSteps ==
    ASSUME Core, Control', NEW b \in Blocks,
           \/ AcceptBlockHeader(b)
           \/ \E t \in NetThreads, fRequested \in BOOLEAN :
                 \/ \E future \in {FALSE, (b \in FutureBlocks)} : ProcessUnwanted(t, b, fRequested, future)
                 \/ ProcessBadContext(t, b, fRequested)
                 \/ ProcessNoSpace(t, b, fRequested)
    PROVE  Core'
<1>1. /\ UNCHANGED <<haveData, linked, nSequenceId, nBlockSequenceId, unlinked, skipped, candidates, tip, npoints>>
      /\ \/ level' = [level EXCEPT ![b] = LevelWithHeader(b)]
         \/ level' = [level EXCEPT ![b] = BLOCK_VALID_CONTEXT]
  BY Zenon DEF AcceptBlockHeader, ProcessUnwanted, ProcessBadContext, ProcessNoSpace
<1>2. /\ index' = index \cup {b}
      /\ failedValid' \subseteq failedValid \cup {b} /\ failedChild' \subseteq failedChild
  BY Zenon DEF AcceptBlockHeader, ProcessUnwanted, ProcessBadContext, ProcessNoSpace, AddHeader, HeaderPassed
<1>3. level' \in [Blocks -> {0, 2, 3, 6, 7}]
  <2>1. level \in [Blocks -> {0, 2, 3, 6, 7}]
    BY Zenon, CoreParts DEF Data
  <2> QED BY Zenon, <1>1, <2>1, LevelTypes
<1>4. Data'
  BY Zenon, <1>1, <1>2, <1>3, CoreParts DEF Data
<1>5. tip' \in linked /\ Sound(npoints', tip') /\ \A c \in candidates' : c \in linked /\ ~Worse(c, tip', nSequenceId)
  BY Zenon, <1>1 DEF Core, CandidatesSound
<1> QED BY Zenon, <1>1, <1>4, <1>5, Frame

\* Steps of ActivateBestChain that do not move the tip.
LEMMA IdleSteps ==
    ASSUME Core, Control', NEW t \in Threads,
           ShutdownTest(t) \/ LoopTest(t) \/ ActivateNothing(t) \/ ActivateTooLong(t)
    PROVE  Core'
<1>1. /\ UNCHANGED <<index, level, failedValid, haveData, linked, nSequenceId, nBlockSequenceId, unlinked, skipped, tip, npoints>>
      /\ \/ UNCHANGED <<failedChild, candidates>>
         \/ failedChild' = FailedChildAfterFind /\ candidates' = CandidatesAfterFind
  BY Zenon DEF ShutdownTest, LoopTest, ActivateNothing, ActivateTooLong, indexVars
<1>2. failedChild' \subseteq index /\ candidates' \subseteq candidates
  BY Zenon, <1>1, FindFacts, CoreParts DEF Data
<1>3. Data'
  BY Zenon, <1>1, <1>2, CoreParts DEF Data
<1>4. tip' \in linked /\ Sound(npoints', tip') /\ \A c \in candidates' : c \in linked /\ ~Worse(c, tip', nSequenceId)
  BY Zenon, <1>1, <1>2 DEF Core, CandidatesSound
<1> QED BY Zenon, <1>1, <1>3, <1>4, Frame

\* A block of the active chain below the tip is worse than the tip, so that what
\* is not worse than the tip is not worse than the block either.
LEMMA LowerTip ==
    ASSUME Core, NEW x \in Chain[tip]
    PROVE  /\ x \in linked /\ x \in Blocks
           /\ \A c \in candidates : ~Worse(c, x, nSequenceId)
           /\ x # tip => Worse(x, tip, nSequenceId)
<1>1. x \in linked /\ x \in Blocks /\ tip \in Blocks /\ nSequenceId \in [Blocks -> Nat]
  BY Zenon, CoreFacts
<1>2. x # tip => Worse(x, tip, nSequenceId)
  BY Zenon, <1>1, ChainOrder, WorseOrder
<1>3. ASSUME NEW c \in candidates PROVE ~Worse(c, x, nSequenceId)
  <2>1. c \in Blocks /\ ~Worse(c, tip, nSequenceId)
    BY Zenon, CoreFacts DEF Core, CandidatesSound
  <2> QED BY Zenon, <1>1, <1>2, <2>1, WorseOrder
<1> QED BY Zenon, <1>1, <1>2, <1>3


\* What disconnecting for InvalidateBlock comes to.
LEMMA OutcomeFacts ==
    ASSUME Core, NEW p \in Blocks, p # Genesis, NEW out \in InvalidateOutcomes(p)
    PROVE  /\ out.tip \in Chain[tip] /\ out.ok \in BOOLEAN /\ out.abort \in BOOLEAN
           /\ Sound(npoints, out.tip)
           /\ p \notin Chain[tip] => out.tip = tip /\ out.ok /\ ~out.abort
           /\ p \in Chain[tip] => /\ Parent[p] \in Chain[tip] /\ Parent[p] \in Chain[out.tip]
                                  /\ out.ok => out.tip = Parent[p]
                                  /\ ~out.ok => \/ out.abort /\ DiskErrors
                                                \/ NOTARIZED_HASH \in Chain[tip] \ Chain[Parent[p]]
<1>1. tip \in Blocks /\ tip \in Chain[tip] /\ Sound(npoints, tip)
  BY Zenon, CoreFacts, ChainFacts DEF Core
<1>2. CASE p \in Chain[tip]
  <2>1. out \in Unwind(Parent[p]) /\ Parent[p] \in Chain[tip]
    BY Zenon, <1>1, <1>2, ChainFacts DEF InvalidateOutcomes
  <2> QED BY Zenon, <1>2, <2>1, UnwindFacts, UnwindSound
<1>3. CASE p \notin Chain[tip]
  <2>1. out = [tip |-> tip, ok |-> TRUE, abort |-> FALSE]
    BY Zenon, <1>3 DEF InvalidateOutcomes
  <2>2. out.tip = tip /\ out.ok = TRUE /\ out.abort = FALSE
    BY Zenon, <2>1
  <2> QED BY Zenon, <1>1, <1>3, <2>2
<1> QED BY Zenon, <1>2, <1>3

\* InvalidateBlock, for the command and for ActivateBestChain.
LEMMA InvalidateStep ==
    ASSUME Core, Control', NEW p \in index, p # Genesis, NEW out \in InvalidateOutcomes(p),
           NEW cands, cands \subseteq candidates, NEW fChild, fChild \subseteq index,
           InvalidateBlock(p, out, cands, fChild),
           UNCHANGED <<index, level, haveData, linked, nSequenceId, nBlockSequenceId, unlinked, skipped, npoints>>
    PROVE  Core'
<1> DEFINE walked == (Chain[tip] \ Chain[out.tip]) \cup (IF out.ok THEN {} ELSE {out.tip})
           failed == failedValid \cup {p} \cup fChild \cup walked
<1>1. p \in Blocks /\ Chain[tip] \subseteq index /\ failedValid \subseteq index
  BY Zenon, CoreFacts DEF Core, TypeOK
<1>2. out.tip \in Chain[tip] /\ Sound(npoints, out.tip) /\ out.ok \in BOOLEAN
  BY Zenon, <1>1, OutcomeFacts
<1>3. /\ tip' = out.tip /\ failedValid' = failedValid \cup {p} /\ failedChild' = fChild \cup walked
      /\ candidates' \subseteq cands \cup Readmitted(out.tip, failed)
  BY Zenon, <1>2 DEF InvalidateBlock
<1>4. walked \subseteq index
  BY Zenon, <1>1, <1>2
<1>5. Data'
  BY Zenon, <1>1, <1>3, <1>4, CoreParts DEF Data
<1>6. ASSUME NEW c \in candidates' PROVE c \in linked /\ ~Worse(c, tip', nSequenceId)
  <2>1. CASE c \in cands
    BY Zenon, <1>2, <1>3, <2>1, LowerTip DEF Core, CandidatesSound
  <2>2. CASE c \in Readmitted(out.tip, failed)
    BY Zenon, <1>3, <2>2 DEF Readmitted
  <2> QED BY Zenon, <1>3, <2>1, <2>2
<1>7. tip' \in linked /\ Sound(npoints', tip')
  BY Zenon, <1>2, <1>3, LowerTip
<1> QED BY Zenon, <1>5, <1>6, <1>7, Frame

\* The branch that ActivateBestChain looks at.
LEMMA ForkOfMostWork ==
    ASSUME Core, MostWork \notin {NoBlock, tip}
    PROVE  /\ MostWork \in linked /\ MostWork \in Blocks /\ MostWork \in index
           /\ MostWork \notin Chain[tip] /\ MostWork # Genesis
           /\ Fork \in Chain[MostWork] /\ Fork \in Chain[tip]
           /\ Chain[Fork] = Chain[MostWork] \cap Chain[tip]
           /\ Branch(MostWork) = Chain[MostWork] \ Chain[Fork]
<1>1. /\ MostWork \in linked /\ MostWork \in Blocks /\ MostWork \notin Chain[tip]
      /\ tip \in Blocks /\ linked \subseteq index
  BY Zenon, MostWorkFacts, CoreFacts
<1>2. MostWork # Genesis
  BY Zenon, <1>1, ChainFacts
<1>3. /\ Fork \in Chain[MostWork] /\ Fork \in Chain[tip]
      /\ Chain[Fork] = Chain[MostWork] \cap Chain[tip]
  BY Zenon, <1>1, ForkFacts DEF Fork
<1>4. Branch(MostWork) = Chain[MostWork] \ Chain[Fork]
  BY Zenon, <1>3 DEF Branch
<1> QED BY Zenon, <1>1, <1>2, <1>3, <1>4

\* ActivateBestChain invalidates a branch that leaves below the notarization.
LEMMA PastNotarizedStep ==
    ASSUME Core, Control', NEW t \in Threads, ActivatePastNotarized(t)
    PROVE  Core'
<1>1. PICK out \in InvalidateOutcomes(MostWork) :
         InvalidateBlock(MostWork, out, CandidatesAfterFind, FailedChildAfterFind)
  BY Zenon DEF ActivatePastNotarized
<1>2. MostWork \in index /\ MostWork # Genesis
  BY Zenon, ForkOfMostWork DEF ActivatePastNotarized
<1>3. CandidatesAfterFind \subseteq candidates /\ FailedChildAfterFind \subseteq index
  BY Zenon, FindFacts
<1>4. UNCHANGED <<index, level, haveData, linked, nSequenceId, nBlockSequenceId, unlinked, skipped, npoints>>
  BY Zenon DEF ActivatePastNotarized
<1> QED BY Zenon, <1>1, <1>2, <1>3, <1>4, InvalidateStep

\* The command.
LEMMA InvalidateCommand ==
    ASSUME Core, Control', NEW t \in RpcThreads, NEW p \in Invalidatable, invalidateblock(t, p)
    PROVE  Core'
<1>1. PICK out \in InvalidateOutcomes(p) : InvalidateBlock(p, out, candidates, failedChild)
  BY Zenon DEF invalidateblock
<1>2. p \in index /\ p # Genesis
  BY Zenon, SettingsAssumption DEF invalidateblock
<1>3. failedChild \subseteq index
  BY Zenon DEF Core, TypeOK
<1>4. UNCHANGED <<index, level, haveData, linked, nSequenceId, nBlockSequenceId, unlinked, skipped, npoints>>
  BY Zenon DEF invalidateblock
<1> QED BY Zenon, <1>1, <1>2, <1>3, <1>4, InvalidateStep


\* Disconnecting stops short of the fork.
LEMMA StuckStep ==
    ASSUME Core, Control', NEW t \in Threads, ActivateStuck(t)
    PROVE  Core'
<1>1. PICK out \in Unwind(Fork) : tip' = out.tip
  BY Zenon DEF ActivateStuck
<1>2. Fork \in Chain[tip]
  BY Zenon, ForkOfMostWork DEF ActivateStuck
<1>3. out.tip \in Chain[tip] /\ Sound(npoints, out.tip)
  BY Zenon, <1>2, UnwindFacts, UnwindSound
<1>4. /\ UNCHANGED <<index, level, failedValid, haveData, linked, nSequenceId, nBlockSequenceId, unlinked, skipped, npoints>>
      /\ failedChild' = FailedChildAfterFind /\ candidates' = CandidatesAfterFind
  BY Zenon DEF ActivateStuck
<1>5. failedChild' \subseteq index /\ candidates' \subseteq candidates
  BY Zenon, <1>4, FindFacts
<1>6. Data'
  BY Zenon, <1>4, <1>5, CoreParts DEF Data
<1>7. tip' \in linked /\ Sound(npoints', tip') /\ \A c \in candidates' : c \in linked /\ ~Worse(c, tip', nSequenceId)
  BY Zenon, <1>1, <1>3, <1>4, <1>5, LowerTip DEF Core, CandidatesSound
<1> QED BY Zenon, <1>4, <1>6, <1>7, Frame

\* What a reorganisation does.
LEMMA ReorganiseFacts ==
    ASSUME Core, NEW t \in Threads, ActivateReorganise(t)
    PROVE  \E out \in ConnectTips(Fork, MostWork) :
              /\ tip' = out.tip /\ npoints' = Notarized(npoints, Fork, out.seen)
              /\ failedValid' = failedValid \cup InvalidBlockFound(out)
              /\ candidates' = CandidatesAfterConnect(out)
              /\ fRequestShutdown' = (fRequestShutdown \/ out.abort)
              /\ out.ok => Goto(t, "test") /\ mostWork' = [mostWork EXCEPT ![t] = MostWork] /\ UNCHANGED postponed
              /\ ~out.ok => Return(t, TRUE)
              /\ out.tip \in Chain[MostWork] /\ Fork \in Chain[out.tip] /\ out.tip \in linked
              /\ (Chain[out.tip] \ Chain[Fork]) \cap (BadContext \cup BadConnect) = {}
              /\ InvalidBlockFound(out) \subseteq index
              /\ InvalidBlockFound(out) \subseteq (BadContext \cup BadConnect) \cap (Chain[MostWork] \ Chain[out.tip])
              /\ Sound(npoints, Fork) /\ Sound(npoints', tip')
<1>1. MostWork \notin {NoBlock, tip}
  BY Zenon DEF ActivateReorganise
<1>2. /\ MostWork \in Blocks /\ MostWork \in linked /\ Fork \in Chain[MostWork] /\ Fork \in Chain[tip]
      /\ Fork \in Blocks
  BY Zenon, <1>1, ForkOfMostWork, ChainFacts
<1>3. PICK u \in Unwind(Fork) : u.ok
  BY Zenon DEF ActivateReorganise
<1>4. Sound(npoints, Fork)
  <2>1. u.tip = Fork
    BY Zenon, <1>2, <1>3, UnwindFacts
  <2> QED BY Zenon, <1>2, <2>1, UnwindSound
<1>5. PICK out \in ConnectTips(Fork, MostWork) :
         /\ tip' = out.tip /\ npoints' = Notarized(npoints, Fork, out.seen)
         /\ failedValid' = failedValid \cup InvalidBlockFound(out)
         /\ candidates' = CandidatesAfterConnect(out)
         /\ fRequestShutdown' = (fRequestShutdown \/ out.abort)
         /\ out.ok => Goto(t, "test") /\ mostWork' = [mostWork EXCEPT ![t] = MostWork] /\ UNCHANGED postponed
         /\ ~out.ok => Return(t, TRUE)
  BY Zenon DEF ActivateReorganise
<1>6. /\ out.tip \in Chain[MostWork] /\ Fork \in Chain[out.tip]
      /\ (Chain[out.tip] \ Chain[Fork]) \cap (BadContext \cup BadConnect) = {}
      /\ out.seen \in Chain[MostWork] /\ Fork \in Chain[out.seen]
      /\ \/ out.seen = out.tip
         \/ out.seen # Genesis /\ Parent[out.seen] = out.tip
      /\ \/ out.bad = NoBlock
         \/ /\ out.bad \in Chain[MostWork] /\ out.bad \notin Chain[out.tip]
            /\ out.bad \in BadContext \cup BadConnect
  <2>1. Connected(out, Fork, MostWork)
    BY Zenon, <1>2, ConnectFacts
  <2> QED BY Zenon, <2>1 DEF Connected
<1>7. Chain[MostWork] \subseteq linked /\ linked \subseteq index /\ index \subseteq Blocks /\ NoBlock \notin Blocks
  BY Zenon, <1>2, TreeAssumption DEF Core, Links, TypeOK
<1>8. /\ InvalidBlockFound(out) \subseteq index /\ out.tip \in linked
      /\ InvalidBlockFound(out) \subseteq (BadContext \cup BadConnect) \cap (Chain[MostWork] \ Chain[out.tip])
  BY Zenon, <1>6, <1>7 DEF InvalidBlockFound
<1>9. Sound(npoints', tip')
  <2>1. out.seen \in Blocks
    BY Zenon, <1>6, <1>7
  <2>2. CASE out.seen = out.tip
    BY Zenon, <1>4, <1>5, <1>6, <1>7, <2>1, <2>2, NotarizedSound
  <2>3. CASE out.seen # Genesis /\ Parent[out.seen] = out.tip
    <3>1. out.seen # Fork
      <4>1. out.seen \notin Chain[Parent[out.seen]]
        BY Zenon, <2>1, <2>3, ParentFacts
      <4> QED BY Zenon, <1>6, <2>3, <4>1
    <3>2. Sound(Notarized(npoints, Fork, out.seen), Parent[out.seen])
      BY Zenon, <1>4, <1>6, <1>7, <2>1, <3>1, NotarizedSound
    <3> QED BY Zenon, <1>5, <2>3, <3>2
  <2> QED BY Zenon, <1>6, <2>2, <2>3
<1> QED BY Zenon, <1>4, <1>5, <1>6, <1>8, <1>9

\* A reorganisation keeps Core, whether or not it gets as far as MostWork.
LEMMA ReorganiseStep ==
    ASSUME Core, Control', NEW t \in Threads, ActivateReorganise(t)
    PROVE  Core'
<1>1. PICK out \in ConnectTips(Fork, MostWork) :
         /\ tip' = out.tip
         /\ failedValid' = failedValid \cup InvalidBlockFound(out)
         /\ candidates' = CandidatesAfterConnect(out)
         /\ out.tip \in linked /\ InvalidBlockFound(out) \subseteq index /\ Sound(npoints', tip')
  BY Zenon, ReorganiseFacts
<1>2. /\ UNCHANGED <<index, level, haveData, linked, nSequenceId, nBlockSequenceId, unlinked, skipped>>
      /\ failedChild' = FailedChildAfterFind /\ MostWork \notin {NoBlock, tip}
  BY Zenon DEF ActivateReorganise
<1>3. CandidatesAfterFind \subseteq candidates /\ FailedChildAfterFind \subseteq index
  BY Zenon, FindFacts
<1>4. Data'
  BY Zenon, <1>1, <1>2, <1>3, CoreParts DEF Data
<1>5. ASSUME NEW c \in candidates' PROVE c \in linked /\ ~Worse(c, tip', nSequenceId)
  <2>1. c \in candidates /\ (out.tip # Fork => ~Worse(c, out.tip, nSequenceId))
    BY Zenon, <1>1, <1>3, <1>5 DEF CandidatesAfterConnect, PruneBlockIndexCandidates
  <2>2. ~Worse(c, Fork, nSequenceId)
    BY Zenon, <1>2, <2>1, ForkOfMostWork, LowerTip
  <2> QED BY Zenon, <1>1, <2>1, <2>2 DEF Core, CandidatesSound
<1> QED BY Zenon, <1>1, <1>2, <1>4, <1>5, Frame

\* Reconsidering moves nothing.
LEMMA ReconsiderCommand ==
    ASSUME Core, Control', NEW t \in RpcThreads, NEW p \in Reconsiderable, reconsiderblock(t, p)
    PROVE  Core'
<1>1. /\ UNCHANGED <<index, level, haveData, linked, nSequenceId, nBlockSequenceId, unlinked, skipped, tip, npoints>>
      /\ failedValid' \subseteq failedValid /\ failedChild' \subseteq failedChild
      /\ \A c \in candidates' : c \in candidates \/ (c \in linked /\ Worse(tip, c, nSequenceId))
  BY Zenon DEF reconsiderblock
<1>2. Data'
  BY Zenon, <1>1, CoreParts DEF Data
<1>3. ASSUME NEW c \in candidates' PROVE c \in linked /\ ~Worse(c, tip', nSequenceId)
  BY Zenon, <1>1, <1>3, CoreFacts, WorseOrder DEF Core, CandidatesSound
<1>4. tip' \in linked /\ Sound(npoints', tip')
  BY Zenon, <1>1 DEF Core
<1> QED BY Zenon, <1>1, <1>2, <1>3, <1>4, Frame


-----------------------------------------------------------------------------
(* Blocks being stored and linked.                                         *)

\* The blocks that are linked with b: b itself and those that waited for it.
LEMMA NewlyLinkedFacts ==
    ASSUME Core, NEW b \in Blocks, b \notin haveData
    PROVE  /\ b # Genesis /\ b \in NewlyLinked(b) /\ NewlyLinked(b) \subseteq unlinked \cup {b}
           /\ NewlyLinked(b) \subseteq Blocks
           /\ NewlyLinked(b) \cap linked = {} /\ NewlyLinked(b) \cap skipped = {}
<1>1. /\ Genesis \in haveData /\ linked \subseteq haveData /\ unlinked \subseteq haveData /\ haveData \subseteq Blocks
      /\ skipped \subseteq haveData /\ unlinked \cap linked = {} /\ skipped \cap unlinked = {}
  BY Zenon DEF Core, TypeOK, Links
<1>2. b \in Chain[b]
  BY Zenon, ChainFacts
<1> QED BY Zenon, <1>1, <1>2 DEF NewlyLinked

\* The order in which they are numbered lists each of them once.
LEMMA OrderFacts ==
    ASSUME Core, NEW b \in Blocks, b \notin haveData, NEW o \in BFSOrders(b)
    PROVE  /\ Len(o) \in Nat /\ Range(o) = NewlyLinked(b) /\ DOMAIN o = 1 .. Len(o)
           /\ \A i \in DOMAIN o : o[i] \in NewlyLinked(b)
           /\ \A x \in NewlyLinked(b) : \E i \in DOMAIN o : o[i] = x
<1> DEFINE S == NewlyLinked(b)
<1>1. S \subseteq Blocks
  BY Zenon, NewlyLinkedFacts
<1>2. Cardinality(S) \in Nat
  <2> HIDE DEF S
  <2> QED BY Zenon, <1>1, FS_Subset, FS_CardinalityType, TreeAssumption
<1>3. o \in Bijection(1 .. Cardinality(S), S)
  BY Zenon DEF BFSOrders
<1> HIDE DEF S
<1>4. /\ o \in [1 .. Cardinality(S) -> S]
      /\ \A x \in S : \E i \in 1 .. Cardinality(S) : o[i] = x
  BY Zenon, <1>3 DEF Bijection, Surjection, Injection
<1>5. Len(o) = Cardinality(S) /\ DOMAIN o = 1 .. Len(o)
  BY <1>2, <1>4
<1>6. Range(o) = S
  BY Zenon, <1>4, <1>5 DEF Range
<1> QED BY Zenon, <1>2, <1>4, <1>5, <1>6 DEF S


\* A block is linked with all that waited for it: chains stay linked from the
\* bottom and up to the first block that is missing.
LEMMA LinksStep ==
    ASSUME Core, NEW b \in Blocks, b \notin haveData, Parent[b] \in linked,
           haveData' = haveData \cup {b}, UNCHANGED skipped,
           linked' = linked \cup NewlyLinked(b), unlinked' = unlinked \ NewlyLinked(b)
    PROVE  Links'
<1> DEFINE S == NewlyLinked(b)
<1>1. /\ b # Genesis /\ b \in S /\ S \subseteq unlinked \cup {b} /\ S \subseteq Blocks
      /\ S \cap linked = {} /\ S \cap skipped = {}
  BY Zenon, NewlyLinkedFacts
<1>2. /\ Links /\ linked \subseteq haveData /\ unlinked \subseteq haveData
  BY Zenon DEF Core, TypeOK
<1>3. /\ Chain[b] = Chain[Parent[b]] \cup {b} /\ Chain[Parent[b]] \subseteq linked
      /\ Chain[b] \subseteq Blocks
  BY Zenon, <1>1, <1>2, ParentFacts, ChainFacts DEF Links
<1>4. ASSUME NEW y \in S, NEW x \in Chain[y] PROVE x \in linked \cup S
  <2>1. y \in Blocks /\ b \in Chain[y] /\ Chain[y] \ Chain[b] \subseteq unlinked
    BY Zenon, <1>1, <1>4 DEF NewlyLinked
  <2>2. CASE x \in Chain[b]
    BY Zenon, <1>1, <1>3, <2>2
  <2>3. CASE x \notin Chain[b]
    <3>1. x \in unlinked /\ b \in Chain[x] /\ x \in Blocks
      BY Zenon, <1>4, <2>1, <2>3, ChainOrder, ChainFacts
    <3>2. Chain[x] \subseteq Chain[y]
      BY Zenon, <1>4, <2>1, ChainFacts
    <3> QED BY Zenon, <2>1, <3>1, <3>2 DEF NewlyLinked
  <2> QED BY Zenon, <2>2, <2>3
<1>5. \A y \in linked' : Chain[y] \subseteq linked'
  BY Zenon, <1>2, <1>4 DEF Links
<1>6. /\ unlinked' \cap linked' = {} /\ skipped' \cap linked' = {} /\ skipped' \cap unlinked' = {}
      /\ haveData' = linked' \cup unlinked' \cup skipped'
  <2>1. /\ unlinked \cap linked = {} /\ skipped \cap linked = {} /\ skipped \cap unlinked = {}
        /\ haveData = linked \cup unlinked \cup skipped
    BY Zenon, <1>2 DEF Links
  <2> HIDE DEF S
  <2> QED BY Zenon, <1>1, <2>1 DEF S
<1>7. ASSUME NEW c \in Blocks, Chain[c] \subseteq haveData \cup {b}, Chain[c] \cap skipped = {}
      PROVE  c \in linked \cup S
  <2>1. CASE b \notin Chain[c]
    <3>1. Chain[c] \subseteq haveData
      BY Zenon, <1>7, <2>1
    <3> QED BY Zenon, <1>2, <1>7, <3>1 DEF Links
  <2>2. CASE b \in Chain[c]
    <3>1. ASSUME NEW x \in Chain[c], x # b, b \in Chain[x] PROVE x \in unlinked
      <4>1. x \notin linked
        BY Zenon, <1>2, <3>1 DEF Links
      <4> QED BY Zenon, <1>2, <1>7, <3>1, <4>1 DEF Links
    <3>2. ASSUME NEW x \in Chain[c] \ Chain[b] PROVE x \in unlinked
      <4>1. b \in Chain[x] /\ x # b
        BY Zenon, <1>7, <2>2, <3>2, ChainOrder, ChainFacts
      <4> QED BY Zenon, <3>1, <3>2, <4>1
    <3>3. c \in Chain[c] /\ (c = b \/ c \in unlinked)
      BY Zenon, <1>7, <2>2, <3>1, ChainFacts
    <3> QED BY Zenon, <2>2, <3>2, <3>3 DEF NewlyLinked
  <2> QED BY Zenon, <2>1, <2>2
<1> QED BY Zenon, <1>2, <1>5, <1>6, <1>7 DEF Links

\* A block whose parent is not linked waits, or is passed over.
LEMMA WaitsStep ==
    ASSUME Core, NEW b \in Blocks, b \notin haveData, Parent[b] \notin linked,
           haveData' = haveData \cup {b}, UNCHANGED linked,
           \/ unlinked' = unlinked \cup {b} /\ UNCHANGED skipped
           \/ skipped' = skipped \cup {b} /\ UNCHANGED unlinked
    PROVE  Links'
<1>1. /\ Links /\ linked \subseteq haveData /\ unlinked \subseteq haveData /\ skipped \subseteq haveData
      /\ b # Genesis
  <2>1. Links /\ linked \subseteq haveData /\ unlinked \subseteq haveData
    BY Zenon, CoreParts DEF Data
  <2>2. skipped \subseteq haveData /\ Genesis \in linked
    BY Zenon, <2>1 DEF Links
  <2> QED BY Zenon, <2>1, <2>2
<1>2. Parent[b] \in Blocks /\ Chain[b] = Chain[Parent[b]] \cup {b} /\ b \notin Chain[Parent[b]]
  BY Zenon, <1>1, ParentFacts
<1>3. ASSUME NEW c \in Blocks, Chain[c] \subseteq haveData \cup {b}, Chain[c] \cap skipped' = {}
      PROVE  c \in linked
  <2>1. b \notin Chain[c]
    <3> SUFFICES ASSUME b \in Chain[c] PROVE FALSE
      BY Zenon
    <3>1. Chain[Parent[b]] \subseteq haveData /\ Chain[Parent[b]] \cap skipped = {}
      BY Zenon, <1>2, <1>3, ChainFacts
    <3> QED BY Zenon, <1>1, <1>2, <3>1 DEF Links
  <2>2. Chain[c] \subseteq haveData /\ Chain[c] \cap skipped = {}
    BY Zenon, <1>3, <2>1
  <2> QED BY Zenon, <1>1, <1>3, <2>2 DEF Links
<1>4. /\ unlinked' \cap linked' = {} /\ skipped' \cap linked' = {} /\ skipped' \cap unlinked' = {}
      /\ haveData' = linked' \cup unlinked' \cup skipped'
  <2>1. /\ unlinked \cap linked = {} /\ skipped \cap linked = {} /\ skipped \cap unlinked = {}
        /\ haveData = linked \cup unlinked \cup skipped
    BY Zenon, <1>1 DEF Links
  <2> QED BY Zenon, <2>1
<1> QED BY Zenon, <1>1, <1>3, <1>4 DEF Links


\* Newly linked blocks get keys of their own, larger than all before.
LEMMA KeysStep ==
    ASSUME Core, NEW b \in Blocks, b \notin haveData, NEW o \in BFSOrders(b)
    PROVE  /\ NewSequenceIds(o) \in [Blocks -> Nat] /\ nBlockSequenceId + Len(o) \in Nat
           /\ \A x \in Blocks \ NewlyLinked(b) : NewSequenceIds(o)[x] = nSequenceId[x]
           /\ \A x, y \in linked \cup NewlyLinked(b) : x # y => NewSequenceIds(o)[x] # NewSequenceIds(o)[y]
           /\ \A x \in linked \cup NewlyLinked(b) : NewSequenceIds(o)[x] < nBlockSequenceId + Len(o)
<1> DEFINE S == Range(o)
           seq == NewSequenceIds(o)
           pos(x) == CHOOSE i \in DOMAIN o : o[i] = x
<1>0. S = NewlyLinked(b)
  BY Zenon, OrderFacts
<1>1. /\ Len(o) \in Nat /\ DOMAIN o = 1 .. Len(o)
      /\ \A x \in S : \E i \in DOMAIN o : o[i] = x
  <2>1. /\ Len(o) \in Nat /\ DOMAIN o = 1 .. Len(o)
        /\ \A x \in NewlyLinked(b) : \E i \in DOMAIN o : o[i] = x
    BY Zenon, OrderFacts
  <2> HIDE DEF S
  <2> QED BY Zenon, <1>0, <2>1
<1>2. S \subseteq Blocks /\ S \cap linked = {} /\ linked \subseteq Blocks
  <2>1. /\ NewlyLinked(b) \subseteq Blocks /\ NewlyLinked(b) \cap linked = {} /\ linked \subseteq Blocks
    BY Zenon, NewlyLinkedFacts, CoreFacts
  <2> HIDE DEF S
  <2> QED BY Zenon, <1>0, <2>1
<1>3. /\ nSequenceId \in [Blocks -> Nat] /\ nBlockSequenceId \in Nat
      /\ \A x, y \in linked : x # y => nSequenceId[x] # nSequenceId[y]
      /\ \A x \in linked : nSequenceId[x] < nBlockSequenceId
  BY Zenon DEF Core, TypeOK, Keys
<1>4. ASSUME NEW x \in S PROVE pos(x) \in 1 .. Len(o) /\ o[pos(x)] = x
  BY Zenon, <1>1
<1>5. seq = [x \in Blocks |-> IF x \in S THEN nBlockSequenceId - 1 + pos(x) ELSE nSequenceId[x]]
  BY Zenon DEF NewSequenceIds
<1> HIDE DEF S, pos, seq
<1>6. ASSUME NEW x \in S PROVE seq[x] = nBlockSequenceId - 1 + pos(x)
  BY Zenon, <1>2, <1>5
<1>7. ASSUME NEW x \in Blocks, x \notin S PROVE seq[x] = nSequenceId[x]
  BY Zenon, <1>5, <1>7
<1>8. ASSUME NEW x \in S
      PROVE  seq[x] \in Nat /\ seq[x] >= nBlockSequenceId /\ seq[x] < nBlockSequenceId + Len(o)
  BY <1>1, <1>3, <1>4, <1>6
<1>9. ASSUME NEW x \in linked
      PROVE  seq[x] = nSequenceId[x] /\ seq[x] \in Nat /\ seq[x] < nBlockSequenceId
  BY Zenon, <1>2, <1>3, <1>7
<1>10. seq \in [Blocks -> Nat]
  <2>1. \A x \in Blocks : seq[x] \in Nat
    BY Zenon, <1>3, <1>7, <1>8
  <2>2. seq = [x \in Blocks |-> seq[x]]
    BY Zenon, <1>5
  <2> QED BY Zenon, <2>1, <2>2
<1>11. \A x \in linked \cup S : seq[x] < nBlockSequenceId + Len(o)
  BY <1>1, <1>3, <1>8, <1>9
<1>12. ASSUME NEW x \in linked \cup S, NEW y \in linked \cup S, x # y PROVE seq[x] # seq[y]
  <2>1. CASE x \in linked /\ y \in linked
    BY Zenon, <1>3, <1>9, <1>12, <2>1
  <2>2. CASE x \in S /\ y \in S
    <3>1. pos(x) # pos(y) /\ pos(x) \in Nat /\ pos(y) \in Nat
      BY <1>1, <1>4, <1>12, <2>2
    <3> QED BY <1>3, <1>6, <2>2, <3>1
  <2>3. CASE (x \in linked /\ y \in S) \/ (x \in S /\ y \in linked)
    BY <1>3, <1>8, <1>9, <2>3
  <2> QED BY Zenon, <1>12, <2>1, <2>2, <2>3
<1>13. nBlockSequenceId + Len(o) \in Nat
  BY <1>1, <1>3
<1> QED BY Zenon, <1>0, <1>7, <1>10, <1>11, <1>12, <1>13 DEF seq

\* What storing a block does to the links and the candidates.
LEMMA ReceivedFacts ==
    ASSUME Core, NEW b \in Blocks, b \notin haveData, ReceivedBlockTransactions(b), UNCHANGED tip
    PROVE  /\ Links' /\ Keys' /\ CandidatesSound'
           /\ haveData' = haveData \cup {b} /\ skipped' \subseteq Blocks
           /\ linked \subseteq linked' /\ candidates \subseteq candidates'
           /\ nSequenceId' \in [Blocks -> Nat] /\ nBlockSequenceId' \in Nat
           /\ \A x \in linked : nSequenceId'[x] = nSequenceId[x]
           /\ \A x \in linked' \ linked : Worse(x, tip, nSequenceId') \/ x \in candidates'
<1>0. haveData' = haveData \cup {b}
  BY Zenon DEF ReceivedBlockTransactions
<1>1. /\ linked \subseteq Blocks /\ tip \in linked /\ nSequenceId \in [Blocks -> Nat] /\ nBlockSequenceId \in Nat
      /\ Keys /\ CandidatesSound /\ skipped \subseteq Blocks
  BY Zenon, CoreFacts, CoreParts DEF Data
<1>2. CASE Parent[b] \in linked
  <2>1. PICK o \in BFSOrders(b) :
              /\ linked' = linked \cup Range(o)
              /\ unlinked' = unlinked \ Range(o)
              /\ nSequenceId' = NewSequenceIds(o)
              /\ nBlockSequenceId' = nBlockSequenceId + Len(o)
              /\ candidates' = candidates \cup {x \in Range(o) : ~Worse(x, tip, nSequenceId')}
              /\ UNCHANGED skipped
    BY Zenon, <1>2 DEF ReceivedBlockTransactions
  <2>2. Range(o) = NewlyLinked(b) /\ NewlyLinked(b) \cap linked = {}
    BY Zenon, OrderFacts, NewlyLinkedFacts
  <2>3. Links'
    BY Zenon, <1>0, <1>2, <2>1, <2>2, LinksStep
  <2>4. /\ nSequenceId' \in [Blocks -> Nat] /\ nBlockSequenceId' \in Nat
        /\ \A x \in linked : nSequenceId'[x] = nSequenceId[x]
    <3>1. /\ NewSequenceIds(o) \in [Blocks -> Nat] /\ nBlockSequenceId + Len(o) \in Nat
          /\ \A x \in Blocks \ NewlyLinked(b) : NewSequenceIds(o)[x] = nSequenceId[x]
      BY Zenon, KeysStep
    <3> QED BY Zenon, <1>1, <2>1, <2>2, <3>1
  <2>5. Keys'
    <3>1. /\ \A x, y \in linked \cup NewlyLinked(b) : x # y => NewSequenceIds(o)[x] # NewSequenceIds(o)[y]
          /\ \A x \in linked \cup NewlyLinked(b) : NewSequenceIds(o)[x] < nBlockSequenceId + Len(o)
      BY Zenon, KeysStep
    <3> QED BY Zenon, <2>1, <2>2, <3>1 DEF Keys
  <2>6. CandidatesSound'
    <3> SUFFICES ASSUME NEW c \in candidates' PROVE c \in linked' /\ ~Worse(c, tip', nSequenceId')
      BY Zenon DEF CandidatesSound
    <3>1. CASE c \in candidates
      BY Zenon, <1>1, <2>1, <2>4, <3>1 DEF CandidatesSound, Worse
    <3>2. CASE c \in Range(o) /\ ~Worse(c, tip, nSequenceId')
      BY Zenon, <2>1, <3>2
    <3> QED BY Zenon, <2>1, <3>1, <3>2
  <2>7. \A x \in linked' \ linked : Worse(x, tip, nSequenceId') \/ x \in candidates'
    BY Zenon, <2>1
  <2> QED BY Zenon, <1>0, <1>1, <2>1, <2>3, <2>4, <2>5, <2>6, <2>7
<1>3. CASE Parent[b] \notin linked
  <2>1. /\ \/ unlinked' = unlinked \cup {b} /\ UNCHANGED skipped
           \/ skipped' = skipped \cup {b} /\ UNCHANGED unlinked
        /\ UNCHANGED <<linked, nSequenceId, nBlockSequenceId, candidates>>
    BY Zenon, <1>3 DEF ReceivedBlockTransactions
  <2>2. Links'
    BY Zenon, <1>0, <1>3, <2>1, WaitsStep
  <2>3. Keys' /\ CandidatesSound'
    BY Zenon, <1>1, <2>1 DEF Keys, CandidatesSound, Worse
  <2> QED BY Zenon, <1>0, <1>1, <2>1, <2>2, <2>3
<1> QED BY Zenon, <1>2, <1>3

\* A block is stored.
LEMMA StoredStep ==
    ASSUME Core, Control', NEW t, NEW b \in Blocks, NEW fRequested, NEW future,
           ProcessStored(t, b, fRequested, future)
    PROVE  Core'
<1>1. /\ b \notin haveData /\ HeaderPassed(b, future) /\ ReceivedBlockTransactions(b)
      /\ level' = [level EXCEPT ![b] = StoredLevel(b)] /\ UNCHANGED <<tip, npoints>>
  BY Zenon DEF ProcessStored, Wanted
<1>2. /\ Links' /\ Keys' /\ CandidatesSound' /\ haveData' = haveData \cup {b} /\ linked \subseteq linked'
      /\ nSequenceId' \in [Blocks -> Nat] /\ nBlockSequenceId' \in Nat /\ skipped' \subseteq Blocks
  BY Zenon, <1>1, ReceivedFacts
<1>3. index' = index \cup {b} /\ failedValid' \subseteq failedValid /\ failedChild' \subseteq failedChild
  BY Zenon, <1>1, HeaderFacts
<1>4. level' \in [Blocks -> {0, 2, 3, 6, 7}]
  <2>1. level \in [Blocks -> {0, 2, 3, 6, 7}]
    BY Zenon, CoreParts DEF Data
  <2> QED BY Zenon, <1>1, <2>1, LevelTypes
<1>5. linked' \subseteq haveData' /\ unlinked' \subseteq haveData'
  BY Zenon, <1>2 DEF Links
<1>6. Data'
  <2>1. Data
    BY Zenon, CoreParts
  <2> QED BY Zenon, <1>2, <1>3, <1>4, <1>5, <2>1 DEF Data
<1>7. (tip \in linked)' /\ Sound(npoints, tip)'
  BY Zenon, <1>1, <1>2 DEF Core, Sound
<1> QED BY <1>2, <1>6, <1>7, CoreParts, PTL


\* The node starts with the genesis block.
LEMMA InitCore ==
    ASSUME Init
    PROVE  Core
<1>1. Genesis \in Blocks /\ Chain[Genesis] = {Genesis}
  BY Zenon, TreeAssumption
<1>2. Links
  <2>1. ASSUME NEW b \in Blocks, Chain[b] \subseteq {Genesis} PROVE b = Genesis
    BY Zenon, <2>1, ChainFacts
  <2>2. haveData = {Genesis} /\ linked = {Genesis} /\ unlinked = {} /\ skipped = {}
    BY Zenon DEF Init
  <2> QED BY Zenon, <1>1, <2>1, <2>2 DEF Links
<1>3. Keys
  BY <1>1 DEF Keys, Init
<1>4. Data
  BY Zenon, <1>1 DEF Data, Init
<1>5. Control
  <2>1. nRpc \in 0 .. MaxRpc
    BY SettingsAssumption DEF Init
  <2>2. /\ fRequestShutdown \in BOOLEAN /\ postponed \in BOOLEAN /\ cleared \subseteq Blocks
        /\ mostWork \in [Threads -> Blocks \cup {NoBlock}]
        /\ pc \in [Threads -> {"idle", "enter", "activate", "test"}]
    BY Zenon DEF Init
  <2> QED BY Zenon, <2>1, <2>2 DEF Control
<1>6. tip \in linked
  BY Zenon DEF Init
<1>7. CandidatesSound
  <2>1. nSequenceId \in [Blocks -> Nat]
    BY Zenon, <1>4 DEF Data
  <2>2. candidates = {Genesis} /\ tip = Genesis /\ linked = {Genesis}
    BY Zenon DEF Init
  <2>3. ~Worse(Genesis, Genesis, nSequenceId)
    BY Zenon, <1>1, <2>1, WorseOrder
  <2> QED BY Zenon, <2>2, <2>3 DEF CandidatesSound
<1>8. Sound(npoints, tip)
  <2>1. npoints = <<>> /\ Len(npoints) = 0 /\ npoints \in Seq(Points)
    BY DEF Init
  <2>2. 1 .. Len(npoints) = {}
    BY <2>1
  <2> QED BY Zenon, <2>1, <2>2 DEF Sound
<1> QED BY Zenon, <1>2, <1>3, <1>4, <1>5, <1>6, <1>7, <1>8, CoreParts

\* Core is inductive.
LEMMA CoreStep ==
    ASSUME Core, [Next]_vars
    PROVE  Core'
<1>1. CASE UNCHANGED vars
  <2>1. UNCHANGED <<index, level, failedValid, failedChild, haveData, linked, nSequenceId, nBlockSequenceId,
                    unlinked, skipped, candidates, tip, npoints>>
        /\ UNCHANGED <<fRequestShutdown, pc, mostWork, postponed, cleared, nRpc>>
    BY Zenon, <1>1 DEF vars, indexVars, threadVars
  <2>2. Data' /\ Control'
    BY Zenon, <2>1, CoreParts DEF Data, Control
  <2>3. tip' \in linked /\ Sound(npoints', tip') /\ \A c \in candidates' : c \in linked /\ ~Worse(c, tip', nSequenceId)
    BY Zenon, <2>1 DEF Core, CandidatesSound
  <2> QED BY Zenon, <2>1, <2>2, <2>3, Frame
<1>2. CASE Next
  <2>1. Control'
    BY Zenon, <1>2, ControlKept
  <2>2. ASSUME NEW b \in Blocks, AcceptBlockHeader(b) PROVE Core'
    BY Zenon, <2>1, <2>2, HeaderSteps
  <2>3. ASSUME NEW t \in NetThreads, NEW b \in Blocks, ProcessNewBlock(t, b) PROVE Core'
    BY Zenon, <2>1, <2>3, HeaderSteps, StoredStep DEF ProcessNewBlock
  <2>4. ASSUME NEW t \in Threads, ActivateBestChain(t) PROVE Core'
    BY Zenon, <2>1, <2>4, IdleSteps, PastNotarizedStep, StuckStep, ReorganiseStep DEF ActivateBestChain
  <2>5. ASSUME NEW t \in RpcThreads, NEW p \in Invalidatable, invalidateblock(t, p) PROVE Core'
    BY Zenon, <2>1, <2>5, InvalidateCommand
  <2>6. ASSUME NEW t \in RpcThreads, NEW p \in Reconsiderable, reconsiderblock(t, p) PROVE Core'
    BY Zenon, <2>1, <2>6, ReconsiderCommand
  <2> QED BY Zenon, <1>2, <2>2, <2>3, <2>4, <2>5, <2>6 DEF Next
<1> QED BY Zenon, <1>1, <1>2

\* The inductive invariant holds, for every tree of blocks, every set of
\* threads and every setting.
THEOREM CoreInvariance == Spec => []Core
<1>1. Init => Core
  BY Zenon, InitCore
<1>2. Core /\ [Next]_vars => Core'
  BY Zenon, CoreStep
<1> QED BY <1>1, <1>2, PTL DEF Spec

\* LinkedIfUsable: a linked block has all its ancestors, and no complete chain
\* is left unlinked, except past a block that was stored under a failed parent.
THEOREM LinksCorrect == Spec => []LinkedIfUsable
<1>1. Core => LinkedIfUsable
  <2> SUFFICES ASSUME Core PROVE LinkedIfUsable
    BY Zenon
  <2>1. Links /\ index \subseteq Blocks /\ linked \subseteq haveData
    BY Zenon, CoreParts DEF Data
  <2>2. \A b \in linked : Chain[b] \subseteq haveData
    BY Zenon, <2>1 DEF Links
  <2>3. \A b \in index : Chain[b] \subseteq haveData /\ Chain[b] \cap skipped = {} => b \in linked
    BY Zenon, <2>1 DEF Links
  <2> QED BY Zenon, <2>2, <2>3 DEF LinkedIfUsable
<1> QED BY <1>1, CoreInvariance, PTL

\* UnlinkedWaits: what ReceivedBlockTransactions and LoadBlockIndexDB leave in
\* mapBlocksUnlinked lacks the data of an ancestor, with the same exception.
THEOREM UnlinkedCorrect == Spec => []UnlinkedWaits
<1>1. Core => UnlinkedWaits
  <2> SUFFICES ASSUME Core PROVE UnlinkedWaits
    BY Zenon
  <2>1. Links /\ unlinked \subseteq Blocks
    BY Zenon, CoreParts DEF Data
  <2>2. \A b \in unlinked : Chain[b] \subseteq haveData => Chain[b] \cap skipped # {}
    BY Zenon, <2>1 DEF Links
  <2> QED BY Zenon, <2>2 DEF UnlinkedWaits
<1> QED BY <1>1, CoreInvariance, PTL

\* Candidates are linked and not worse than the tip, as FindMostWorkChain and
\* CheckBlockIndex assert.
THEOREM CandidatesCorrect == Spec => []CandidatesSound
<1>1. Core => CandidatesSound
  BY Zenon DEF Core
<1> QED BY <1>1, CoreInvariance, PTL

\* Only a reorganisation records notarizations, and it moves down to a block
\* that has all those recorded before among its ancestors.
LEMMA PointsKept ==
    ASSUME Core, Core', [Next]_vars
    PROVE  Sound(npoints, tip')
<1>1. CASE UNCHANGED npoints
  BY Zenon, <1>1 DEF Core
<1>2. CASE \E t \in Threads : ActivateReorganise(t)
  <2>1. PICK t \in Threads : ActivateReorganise(t)
    BY Zenon, <1>2
  <2>2. Sound(npoints, Fork) /\ Fork \in Chain[tip']
    BY Zenon, <2>1, ReorganiseFacts
  <2>3. tip' \in Blocks
    BY Zenon DEF Core, TypeOK
  <2> QED BY Zenon, <2>2, <2>3, SoundAbove
<1>3. Next => UNCHANGED npoints \/ \E t \in Threads : ActivateReorganise(t)
  <2>0. \A b : AcceptBlockHeader(b) => UNCHANGED npoints
    BY Zenon DEF AcceptBlockHeader
  <2>1. ASSUME NEW t, NEW b, ProcessNewBlock(t, b) PROVE UNCHANGED npoints
    BY Zenon, <2>1 DEF ProcessNewBlock, ProcessUnwanted, ProcessStored, ProcessBadContext, ProcessNoSpace
  <2>2. \A t : ActivateBestChain(t) => ActivateReorganise(t) \/ UNCHANGED npoints
    BY Zenon DEF ActivateBestChain, ShutdownTest, ActivateNothing, ActivatePastNotarized, ActivateTooLong,
         ActivateStuck, LoopTest
  <2>3. \A t, p : invalidateblock(t, p) \/ reconsiderblock(t, p) => UNCHANGED npoints
    BY Zenon DEF invalidateblock, reconsiderblock
  <2> QED BY Zenon, <2>0, <2>1, <2>2, <2>3 DEF Next
<1> QED BY Zenon, <1>1, <1>2, <1>3 DEF vars

\* Whoever asks for a reorganisation, a notarized block stays in the active
\* chain, if every notarization names an ancestor of the block that carries it.
THEOREM NotarizedKept == ASSUME NotarizesAncestors PROVE Spec => NotarizedStays
<1>1. Core /\ Core' /\ [Next]_vars =>
         [\A i \in DOMAIN npoints :
             npoints[i].block \in Chain[tip] => npoints[i].block \in Chain[tip']]_vars
  <2> SUFFICES ASSUME Core, Core', [Next]_vars, NEW i \in DOMAIN npoints
               PROVE  npoints[i].block \in Chain[tip']
    BY Zenon
  <2>1. Sound(npoints, tip')
    BY Zenon, PointsKept
  <2>2. npoints \in Seq(Points)
    BY Zenon, <2>1 DEF Sound
  <2>3. i \in 1 .. Len(npoints)
    BY <2>2
  <2> QED BY Zenon, <2>1, <2>3 DEF Sound
<1> QED BY <1>1, CoreInvariance, PTL DEF Spec, NotarizedStays


\* Only a block being stored gets a key.
LEMMA KeysKept ==
    ASSUME Core, [Next]_vars
    PROVE  \A b \in linked : nSequenceId'[b] = nSequenceId[b]
<1>1. CASE UNCHANGED nSequenceId
  BY Zenon, <1>1
<1>2. ASSUME NEW t, NEW b \in Blocks, NEW fRequested, NEW future, ProcessStored(t, b, fRequested, future)
      PROVE  \A x \in linked : nSequenceId'[x] = nSequenceId[x]
  <2>1. b \notin haveData /\ ReceivedBlockTransactions(b) /\ UNCHANGED tip
    BY Zenon, <1>2 DEF ProcessStored, Wanted
  <2> QED BY Zenon, <2>1, ReceivedFacts
<1>3. ASSUME NEW t \in NetThreads, NEW b \in Blocks, ProcessNewBlock(t, b)
      PROVE  \/ UNCHANGED nSequenceId
             \/ \E fRequested, future : ProcessStored(t, b, fRequested, future)
  BY Zenon, <1>3 DEF ProcessNewBlock, ProcessUnwanted, ProcessBadContext, ProcessNoSpace
<1>4. \A b : AcceptBlockHeader(b) => UNCHANGED nSequenceId
  BY Zenon DEF AcceptBlockHeader
<1>5. ASSUME NEW t, ActivateBestChain(t) PROVE UNCHANGED nSequenceId
  BY Zenon, <1>5 DEF ActivateBestChain, ShutdownTest, ActivateNothing, ActivatePastNotarized, ActivateTooLong,
       ActivateStuck, ActivateReorganise, LoopTest, indexVars
<1>6. \A t, p : invalidateblock(t, p) \/ reconsiderblock(t, p) => UNCHANGED nSequenceId
  BY Zenon DEF invalidateblock, reconsiderblock
<1> QED BY Zenon, <1>1, <1>2, <1>3, <1>4, <1>5, <1>6 DEF Next, vars, indexVars

\* The key of a candidate never changes once it is linked, and no two linked
\* blocks share one: setBlockIndexCandidates stays ordered.
THEOREM KeysFixed == Spec => SequenceFixed
<1>1. Core /\ Core' /\ [Next]_vars =>
         [/\ \A b \in linked : nSequenceId'[b] = nSequenceId[b]
          /\ \A a, b \in linked' : a # b => nSequenceId'[a] # nSequenceId'[b]]_vars
  <2> SUFFICES ASSUME Core, Core', [Next]_vars
               PROVE  /\ \A b \in linked : nSequenceId'[b] = nSequenceId[b]
                      /\ \A a, b \in linked' : a # b => nSequenceId'[a] # nSequenceId'[b]
    BY Zenon
  <2>1. \A a, b \in linked' : a # b => nSequenceId'[a] # nSequenceId'[b]
    BY Zenon DEF Core, Keys
  <2> QED BY Zenon, <2>1, KeysKept
<1> QED BY <1>1, CoreInvariance, PTL DEF Spec, SequenceFixed



-----------------------------------------------------------------------------
(* The active chain holds no block that is known to be bad.                *)

Bad == BadContext \cup BadConnect

\* invalidateblock is not used on an ancestor of a notarized block.
Protected ==
    \A b \in Blocks : Notarizes[b] # NoBlock => Chain[Notarizes[b]] \cap Invalidatable = {}

\* The blocks of the active chain keep the rules, and none of them is marked
\* failed, unless the node is going down because it could not read a block it
\* had to disconnect.
Healthy ==
    /\ Chain[tip] \cap Bad = {}
    /\ Protected => (DiskErrors /\ fRequestShutdown) \/ ActiveChainValid

\* The chain of the tip after a step that does not connect anything, and the
\* failures of FindMostWorkChain.
LEMMA FindOffChain ==
    ASSUME Core, NEW x \in Chain[tip]
    PROVE  /\ Chain[x] \subseteq Chain[tip]
           /\ Chain[tip] \cap (FailedChildAfterFind \ failedChild) = {}
<1>1. tip \in Blocks
  BY Zenon, CoreFacts
<1> QED BY Zenon, <1>1, FindFacts, ChainFacts

\* A requested shutdown is never taken back.
LEMMA ShutdownStays ==
    ASSUME Core, [Next]_vars, fRequestShutdown
    PROVE  fRequestShutdown'
<1>0. fRequestShutdown \in BOOLEAN /\ fRequestShutdown = TRUE
  BY Zenon DEF Core, TypeOK
<1>1. \A b : AcceptBlockHeader(b) => fRequestShutdown'
  BY Zenon DEF AcceptBlockHeader
<1>2. ASSUME NEW t, NEW b, ProcessNewBlock(t, b) PROVE fRequestShutdown'
  BY Zenon, <1>2 DEF ProcessNewBlock, ProcessUnwanted, ProcessStored, ProcessBadContext, ProcessNoSpace
<1>3. ASSUME NEW t, ActivateBestChain(t) PROVE fRequestShutdown'
  BY Zenon, <1>3 DEF ActivateBestChain, ShutdownTest, ActivateNothing, ActivatePastNotarized, ActivateTooLong,
       ActivateStuck, ActivateReorganise, LoopTest, InvalidateBlock
<1>4. \A t, p : invalidateblock(t, p) \/ reconsiderblock(t, p) => fRequestShutdown'
  BY Zenon DEF invalidateblock, reconsiderblock, InvalidateBlock
<1> QED BY Zenon, <1>1, <1>2, <1>3, <1>4 DEF Next, vars


\* A block that keeps the rules is known to do so once it is stored.
Levels == \A b \in haveData \ BadContext : level[b] >= BLOCK_VALID_TRANSACTIONS

\* No step takes the level of such a block back.
LEMMA LevelsKept ==
    ASSUME Core, [Next]_vars, Levels
    PROVE  Levels'
<1> USE DEF Levels
<1>0. haveData \subseteq index /\ level \in [Blocks -> {0, 2, 3, 6, 7}] /\ index \subseteq Blocks
  BY Zenon DEF Core, TypeOK
<1>1. ASSUME NEW b \in Blocks, level' = [level EXCEPT ![b] = LevelWithHeader(b)], UNCHANGED haveData
      PROVE  Levels'
  <2>1. ASSUME NEW x \in haveData PROVE level'[x] = level[x]
    BY Zenon, <1>0, <1>1, <2>1 DEF LevelWithHeader
  <2> QED BY Zenon, <1>1, <2>1 DEF BLOCK_VALID_TRANSACTIONS
<1>2. ASSUME NEW b \in Blocks, NEW v, level' = [level EXCEPT ![b] = v], haveData' \subseteq haveData \cup {b},
             b \notin BadContext => v = BLOCK_VALID_CONTEXT
      PROVE  Levels'
  <2>1. ASSUME NEW x \in haveData' \ BadContext PROVE level'[x] >= BLOCK_VALID_TRANSACTIONS
    <3>1. CASE x = b
      <4>1. level'[x] = BLOCK_VALID_CONTEXT
        BY Zenon, <1>0, <1>2, <2>1, <3>1
      <4> QED BY <4>1 DEF BLOCK_VALID_CONTEXT, BLOCK_VALID_TRANSACTIONS
    <3>2. CASE x # b
      <4>1. x \in haveData /\ level'[x] = level[x]
        BY Zenon, <1>0, <1>2, <2>1, <3>2
      <4> QED BY Zenon, <2>1, <4>1 DEF BLOCK_VALID_TRANSACTIONS
    <3> QED BY Zenon, <3>1, <3>2
  <2> QED BY Zenon, <2>1
<1>3. ASSUME NEW b \in Blocks, AcceptBlockHeader(b) PROVE Levels'
  BY Zenon, <1>1, <1>3 DEF AcceptBlockHeader
<1>4. ASSUME NEW t \in NetThreads, NEW b \in Blocks, ProcessNewBlock(t, b) PROVE Levels'
  <2>1. ASSUME NEW fRequested, NEW future, ProcessUnwanted(t, b, fRequested, future) PROVE Levels'
    BY Zenon, <1>1, <2>1 DEF ProcessUnwanted
  <2>2. ASSUME NEW fRequested, NEW future, ProcessStored(t, b, fRequested, future) PROVE Levels'
    <3>1. level' = [level EXCEPT ![b] = StoredLevel(b)] /\ haveData' = haveData \cup {b}
      BY Zenon, <2>2 DEF ProcessStored, ReceivedBlockTransactions
    <3>2. b \notin BadContext => StoredLevel(b) = BLOCK_VALID_CONTEXT
      BY Zenon DEF StoredLevel
    <3> QED BY Zenon, <1>2, <3>1, <3>2
  <2>3. ASSUME NEW fRequested, ProcessBadContext(t, b, fRequested) PROVE Levels'
    BY Zenon, <1>1, <2>3 DEF ProcessBadContext
  <2>4. ASSUME NEW fRequested, ProcessNoSpace(t, b, fRequested) PROVE Levels'
    BY Zenon, <1>2, <2>4 DEF ProcessNoSpace
  <2> QED BY Zenon, <1>4, <2>1, <2>2, <2>3, <2>4 DEF ProcessNewBlock
<1>5. CASE UNCHANGED <<level, haveData>>
  BY Zenon, <1>5
<1>6. ASSUME NEW t, ActivateBestChain(t) PROVE UNCHANGED <<level, haveData>>
  BY Zenon, <1>6 DEF ActivateBestChain, ShutdownTest, ActivateNothing, ActivatePastNotarized, ActivateTooLong,
       ActivateStuck, ActivateReorganise, LoopTest, indexVars
<1>7. \A t, p : invalidateblock(t, p) \/ reconsiderblock(t, p) => UNCHANGED <<level, haveData>>
  BY Zenon DEF invalidateblock, reconsiderblock
<1>8. CASE UNCHANGED vars
  BY Zenon, <1>5, <1>8 DEF vars, indexVars
<1> QED BY Zenon, <1>3, <1>4, <1>5, <1>6, <1>7, <1>8 DEF Next


\* Steps after which the tip is an ancestor of what it was.
LEMMA LowerHealthy ==
    ASSUME Core, [Next]_vars, Healthy, tip' \in Chain[tip],
           Chain[tip'] \cap (failedValid' \cup failedChild') \subseteq Failed
    PROVE  Healthy'
<1>1. Chain[tip'] \subseteq Chain[tip]
  BY Zenon, CoreFacts, ChainFacts
<1>2. fRequestShutdown => fRequestShutdown'
  BY Zenon, ShutdownStays
<1>3. (Chain[tip] \cap Bad = {})'
  BY Zenon, <1>1 DEF Healthy, Bad
<1>4. ActiveChainValid => ActiveChainValid'
  BY Zenon, <1>1 DEF ActiveChainValid, Failed
<1> QED BY Zenon, <1>2, <1>3, <1>4 DEF Healthy, Protected

\* InvalidateBlock, unless it is stopped by the last notarization.
LEMMA InvalidateHealthy ==
    ASSUME Core, [Next]_vars, Healthy, NEW p \in index, p # Genesis, NEW out \in InvalidateOutcomes(p),
           NEW cands, NEW fChild, Chain[tip] \cap fChild \subseteq Failed,
           InvalidateBlock(p, out, cands, fChild),
           p \in Chain[tip] => p \in Invalidatable
    PROVE  /\ Healthy'
           /\ Protected => out.ok \/ fRequestShutdown'
<1>1. p \in Blocks /\ tip \in Blocks /\ nSequenceId \in [Blocks -> Nat]
  BY Zenon, CoreFacts DEF Core, TypeOK
<1>2. /\ out.tip \in Chain[tip] /\ out.ok \in BOOLEAN /\ out.abort \in BOOLEAN
      /\ p \notin Chain[tip] => out.tip = tip /\ out.ok
      /\ p \in Chain[tip] /\ out.ok => out.tip = Parent[p]
      /\ p \in Chain[tip] /\ ~out.ok => \/ out.abort /\ DiskErrors
                                        \/ NOTARIZED_HASH \in Chain[tip] \ Chain[Parent[p]]
  BY Zenon, <1>1, OutcomeFacts
<1>3. /\ tip' = out.tip /\ failedValid' = failedValid \cup {p}
      /\ failedChild' = fChild \cup (Chain[tip] \ Chain[out.tip]) \cup (IF out.ok THEN {} ELSE {out.tip})
      /\ fRequestShutdown' = (fRequestShutdown \/ out.abort)
  BY Zenon, <1>2 DEF InvalidateBlock
<1>4. ASSUME out.ok PROVE Healthy'
  <2>1. p \notin Chain[out.tip]
    BY Zenon, <1>1, <1>2, <1>4, ParentFacts
  <2>2. Chain[out.tip] \subseteq Chain[tip]
    BY Zenon, <1>1, <1>2, ChainFacts
  <2>3. failedChild' = fChild \cup (Chain[tip] \ Chain[out.tip])
    BY Zenon, <1>3, <1>4
  <2>4. Chain[tip'] \cap (failedValid' \cup failedChild') \subseteq Failed
    BY Zenon, <1>3, <2>1, <2>2, <2>3 DEF Failed
  <2> QED BY Zenon, <1>2, <1>3, <2>4, LowerHealthy
<1>5. ASSUME ~out.ok, Protected PROVE DiskErrors /\ fRequestShutdown'
  <2>1. p \in Chain[tip] /\ p \in Invalidatable
    BY Zenon, <1>2, <1>5
  <2>2. NOTARIZED_HASH \notin Chain[tip] \ Chain[Parent[p]]
    <3> SUFFICES ASSUME NOTARIZED_HASH \in Chain[tip] \ Chain[Parent[p]] PROVE FALSE
      BY Zenon
    <3>1. NOTARIZED_HASH \in Blocks /\ NOTARIZED_HASH # NoBlock
      <4>1. Chain[tip] \subseteq Blocks /\ NoBlock \notin Blocks
        BY Zenon, <1>1, ChainFacts, TreeAssumption
      <4> QED BY Zenon, <4>1
    <3>2. p \in Chain[NOTARIZED_HASH]
      <4>1. NOTARIZED_HASH \in Chain[p] \/ p \in Chain[NOTARIZED_HASH]
        BY Zenon, <1>1, <2>1, ChainOrder
      <4>2. Chain[p] = Chain[Parent[p]] \cup {p}
        BY Zenon, <1>1, ParentFacts
      <4> QED BY Zenon, <1>1, <4>1, <4>2, ChainFacts
    <3>3. npoints # <<>> /\ NOTARIZED_HASH = npoints[Len(npoints)].block
      BY Zenon, <3>1 DEF NOTARIZED_HASH, LastNotarized
    <3>4. npoints \in Seq(Points) /\ \A i \in 1 .. Len(npoints) : \E b \in Blocks : npoints[i].block = Notarizes[b]
      BY Zenon DEF Core, Sound
    <3>5. Len(npoints) \in 1 .. Len(npoints)
      BY <3>3, <3>4
    <3>6. PICK b \in Blocks : NOTARIZED_HASH = Notarizes[b]
      BY Zenon, <3>3, <3>4, <3>5
    <3> QED BY Zenon, <1>5, <2>1, <3>1, <3>2, <3>6 DEF Protected
  <2> QED BY Zenon, <1>2, <1>3, <1>5, <2>1, <2>2
<1>6. ASSUME ~out.ok PROVE Healthy'
  <2>1. Chain[tip'] \subseteq Chain[tip]
    BY Zenon, <1>1, <1>2, <1>3, ChainFacts
  <2>2. (Chain[tip] \cap Bad = {})'
    BY Zenon, <2>1 DEF Healthy, Bad
  <2> QED BY Zenon, <1>5, <1>6, <2>2 DEF Healthy, Protected
<1> QED BY Zenon, <1>2, <1>4, <1>5, <1>6


\* A reorganisation connects blocks that are not marked and keep the rules.
LEMMA ReorganiseHealthy ==
    ASSUME Core, [Next]_vars, Healthy, NEW t \in Threads, ActivateReorganise(t)
    PROVE  Healthy'
<1>1. PICK out \in ConnectTips(Fork, MostWork) :
         /\ tip' = out.tip /\ failedValid' = failedValid \cup InvalidBlockFound(out)
         /\ out.tip \in Chain[MostWork] /\ Fork \in Chain[out.tip]
         /\ (Chain[out.tip] \ Chain[Fork]) \cap (BadContext \cup BadConnect) = {}
         /\ InvalidBlockFound(out) \subseteq (BadContext \cup BadConnect) \cap (Chain[MostWork] \ Chain[out.tip])
  BY Zenon, ReorganiseFacts
<1>2. MostWork \notin {NoBlock, tip} /\ failedChild' = FailedChildAfterFind
  BY Zenon DEF ActivateReorganise
<1>3. /\ MostWork \in Blocks /\ Chain[Fork] = Chain[MostWork] \cap Chain[tip] /\ tip \in Blocks
  BY Zenon, <1>2, ForkOfMostWork, CoreFacts
<1>4. Chain[out.tip] \subseteq Chain[MostWork]
  BY Zenon, <1>1, <1>3, ChainFacts
<1>5. (Chain[MostWork] \ Chain[tip]) \cap Failed = {}
  BY Zenon, <1>2, MostWorkFacts DEF Usable, Branch
<1>6. Chain[MostWork] \cap (FailedChildAfterFind \ failedChild) = {}
  <2> SUFFICES ASSUME NEW x \in Chain[MostWork], x \in FailedChildAfterFind \ failedChild PROVE FALSE
    BY Zenon
  <2>1. PICK f \in Failed : f \in Chain[x] /\ f \notin Chain[tip]
    BY Zenon, FindFacts
  <2>2. f \in Chain[MostWork]
    BY Zenon, <1>3, <2>1, ChainFacts
  <2> QED BY Zenon, <1>5, <2>1, <2>2
<1>7. (Chain[tip] \cap Bad = {})'
  BY Zenon, <1>1, <1>3, <1>4 DEF Healthy, Bad
<1>8. ActiveChainValid => ActiveChainValid'
  <2> SUFFICES ASSUME ActiveChainValid, NEW x \in Chain[out.tip], x \in failedValid' \cup failedChild' PROVE FALSE
    BY Zenon, <1>1 DEF ActiveChainValid, Failed
  <2>1. x \in Failed
    BY Zenon, <1>1, <1>2, <1>4, <1>6 DEF Failed
  <2>2. x \in Chain[tip]
    BY Zenon, <1>4, <1>5, <2>1
  <2> QED BY Zenon, <2>1, <2>2 DEF ActiveChainValid
<1>9. fRequestShutdown => fRequestShutdown'
  BY Zenon, ShutdownStays
<1> QED BY Zenon, <1>7, <1>8, <1>9 DEF Healthy, Protected

\* Healthy is inductive.
LEMMA HealthyStep ==
    ASSUME Core, [Next]_vars, Healthy
    PROVE  Healthy'
<1>0. tip \in Blocks /\ tip \in Chain[tip] /\ Chain[tip] \subseteq haveData
  <2>1. tip \in Blocks /\ Chain[tip] \subseteq linked /\ linked \subseteq haveData
    BY Zenon, CoreFacts DEF Core, TypeOK
  <2> QED BY Zenon, <2>1, ChainFacts
<1>1. ASSUME UNCHANGED tip, failedValid' \cup failedChild' \subseteq Failed PROVE Healthy'
  BY Zenon, <1>0, <1>1, LowerHealthy
<1>2. CASE UNCHANGED vars
  BY Zenon, <1>1, <1>2 DEF vars, indexVars, Failed
<1>3. ASSUME NEW b \in Blocks, AcceptBlockHeader(b) PROVE Healthy'
  BY Zenon, <1>1, <1>3 DEF AcceptBlockHeader, AddHeader, Failed
<1>4. ASSUME NEW t \in NetThreads, NEW b \in Blocks, ProcessNewBlock(t, b) PROVE Healthy'
  <2>1. ASSUME NEW future, HeaderPassed(b, future), UNCHANGED tip PROVE Healthy'
    BY Zenon, <1>1, <2>1, HeaderFacts DEF Failed
  <2>2. ASSUME NEW fRequested, ProcessBadContext(t, b, fRequested) PROVE Healthy'
    <3>1. /\ b \notin Chain[tip] /\ UNCHANGED tip
          /\ failedValid' \cup failedChild' \subseteq Failed \cup {b}
      BY Zenon, <1>0, <2>2 DEF ProcessBadContext, Wanted, Failed
    <3> QED BY Zenon, <1>0, <3>1, LowerHealthy
  <2>3. ASSUME NEW fRequested, ProcessNoSpace(t, b, fRequested) PROVE Healthy'
    BY Zenon, <2>1, <2>3 DEF ProcessNoSpace, HeaderPassed
  <2>4. ASSUME NEW fRequested, NEW future,
               ProcessUnwanted(t, b, fRequested, future) \/ ProcessStored(t, b, fRequested, future)
        PROVE  Healthy'
    BY Zenon, <2>1, <2>4 DEF ProcessUnwanted, ProcessStored
  <2> QED BY Zenon, <1>4, <2>2, <2>3, <2>4 DEF ProcessNewBlock
<1>5. ASSUME NEW t \in Threads, ActivateBestChain(t) PROVE Healthy'
  <2>1. ASSUME tip' \in Chain[tip], failedChild' \in {failedChild, FailedChildAfterFind}, UNCHANGED failedValid
        PROVE  Healthy'
    <3>1. Chain[tip'] \subseteq Chain[tip] /\ Chain[tip] \cap (FailedChildAfterFind \ failedChild) = {}
      BY Zenon, <2>1, FindOffChain
    <3>2. Chain[tip'] \cap (failedValid' \cup failedChild') \subseteq Failed
      BY Zenon, <2>1, <3>1 DEF Failed
    <3> QED BY Zenon, <2>1, <3>2, LowerHealthy
  <2>2. CASE ShutdownTest(t) \/ ActivateNothing(t) \/ ActivateTooLong(t) \/ LoopTest(t)
    BY Zenon, <1>0, <2>1, <2>2 DEF ShutdownTest, ActivateNothing, ActivateTooLong, LoopTest, indexVars
  <2>3. CASE ActivateStuck(t)
    <3>1. PICK out \in Unwind(Fork) : tip' = out.tip
      BY Zenon, <2>3 DEF ActivateStuck
    <3>2. tip' \in Chain[tip]
      BY Zenon, <2>3, <3>1, UnwindFacts, ForkOfMostWork DEF ActivateStuck
    <3> QED BY Zenon, <2>1, <2>3, <3>2 DEF ActivateStuck
  <2>4. CASE ActivatePastNotarized(t)
    <3>1. PICK out \in InvalidateOutcomes(MostWork) :
             InvalidateBlock(MostWork, out, CandidatesAfterFind, FailedChildAfterFind)
      BY Zenon, <2>4 DEF ActivatePastNotarized
    <3>2. MostWork \in index /\ MostWork # Genesis /\ MostWork \notin Chain[tip]
      BY Zenon, <2>4, ForkOfMostWork DEF ActivatePastNotarized
    <3>3. Chain[tip] \cap FailedChildAfterFind \subseteq Failed
      BY Zenon, <1>0, FindOffChain DEF Failed
    <3> QED BY Zenon, <3>1, <3>2, <3>3, InvalidateHealthy
  <2>5. CASE ActivateReorganise(t)
    BY Zenon, <2>5, ReorganiseHealthy
  <2> QED BY Zenon, <1>5, <2>2, <2>3, <2>4, <2>5 DEF ActivateBestChain
<1>6. ASSUME NEW t \in RpcThreads, NEW p \in Invalidatable, invalidateblock(t, p) PROVE Healthy'
  <2>1. PICK out \in InvalidateOutcomes(p) : InvalidateBlock(p, out, candidates, failedChild)
    BY Zenon, <1>6 DEF invalidateblock
  <2>2. p \in index /\ p # Genesis /\ Chain[tip] \cap failedChild \subseteq Failed
    BY Zenon, <1>6, SettingsAssumption DEF invalidateblock, Failed
  <2> QED BY Zenon, <2>1, <2>2, InvalidateHealthy
<1>7. ASSUME NEW t \in RpcThreads, NEW p \in Reconsiderable, reconsiderblock(t, p) PROVE Healthy'
  BY Zenon, <1>1, <1>7 DEF reconsiderblock, Failed
<1> QED BY Zenon, <1>2, <1>3, <1>4, <1>5, <1>6, <1>7 DEF Next

\* No block of the active chain is marked failed, whatever is reorganised,
\* invalidated, reconsidered or sent again, unless the node is going down
\* because it could not read a block it had to disconnect; invalidateblock is
\* assumed not to be used on an ancestor of a notarized block.
THEOREM ActiveValid ==
    ASSUME Protected
    PROVE  Spec => [](ActiveChainValid \/ (DiskErrors /\ fRequestShutdown))
<1>1. Init => Healthy
  <2> SUFFICES ASSUME Init PROVE Healthy
    BY Zenon
  <2>1. tip = Genesis /\ failedValid = {} /\ failedChild = {}
    BY Zenon DEF Init
  <2>2. Chain[Genesis] = {Genesis} /\ Genesis \notin Bad
    BY Zenon, TreeAssumption, SettingsAssumption DEF Bad
  <2> QED BY Zenon, <2>1, <2>2 DEF Healthy, ActiveChainValid, Failed
<1>2. Core /\ Healthy /\ [Next]_vars => Healthy'
  BY Zenon, HealthyStep
<1>3. Healthy => ActiveChainValid \/ (DiskErrors /\ fRequestShutdown)
  BY Zenon DEF Healthy
<1> QED BY <1>1, <1>2, <1>3, CoreInvariance, PTL DEF Spec



-----------------------------------------------------------------------------
(* The best valid chain is activated.                                      *)

\* A candidate that no reorganisation can drop.
Kept(c) == c \in candidates /\ Chain[c] \cap Failed = {} /\ Chain[c] \cap Bad = {}

\* A stored block that is no candidate is worse than the tip or than a
\* candidate that stays.
Dominated ==
    \A b \in linked : level[b] >= BLOCK_VALID_TRANSACTIONS /\ b \notin Failed =>
        \/ Worse(b, tip, nSequenceId)
        \/ b \in candidates
        \/ \E c \in candidates : Kept(c) /\ Worse(b, c, nSequenceId)

\* While there is a better chain, a thread is going to look for it, or it was
\* put off.
Busy == \E t \in Threads : pc[t] \in {"enter", "activate"} \/ (pc[t] = "test" /\ mostWork[t] # tip)
Working == (\E b \in ValidChains : Worse(tip, b, nSequenceId)) => Busy \/ postponed

\* As long as the premises hold that SettledIsBest needs.
InOrder == Protected /\ ~fRequestShutdown /\ cleared = {}
BestInv == InOrder => Dominated /\ Working

\* The tip, or a better chain that stays, is a candidate.
LEMMA TipKept ==
    ASSUME Core, Healthy, Levels, InOrder, Dominated
    PROVE  \E c \in candidates : Kept(c) /\ (c = tip \/ Worse(tip, c, nSequenceId))
<1>1. /\ tip \in linked /\ tip \in Blocks /\ nSequenceId \in [Blocks -> Nat] /\ tip \in Chain[tip] /\ tip \in haveData
  BY Zenon, CoreFacts, ChainFacts DEF Core, TypeOK
<1>2. Chain[tip] \cap Failed = {} /\ Chain[tip] \cap Bad = {}
  BY Zenon DEF Healthy, InOrder, ActiveChainValid
<1>3. level[tip] >= BLOCK_VALID_TRANSACTIONS /\ tip \notin Failed
  BY Zenon, <1>1, <1>2 DEF Levels, Bad
<1>4. ~Worse(tip, tip, nSequenceId)
  BY Zenon, <1>1, WorseOrder
<1> QED BY Zenon, <1>1, <1>2, <1>3, <1>4 DEF Dominated, Kept

\* FindMostWorkChain finds what is as good as any valid chain.
LEMMA BestFound ==
    ASSUME Core, Dominated, NEW b \in ValidChains, Worse(tip, b, nSequenceId)
    PROVE  MostWork # NoBlock /\ ~Worse(MostWork, b, nSequenceId)
<1>1. /\ b \in linked /\ b \in Blocks /\ level[b] >= BLOCK_VALID_TRANSACTIONS /\ Chain[b] \cap Failed = {}
      /\ nSequenceId \in [Blocks -> Nat] /\ tip \in Blocks /\ candidates \subseteq Blocks
  BY Zenon, CoreFacts DEF ValidChains
<1>2. b \notin Failed /\ ~Worse(b, tip, nSequenceId)
  BY Zenon, <1>1, ChainFacts, WorseOrder
<1>3. \E c \in candidates : Chain[c] \cap Failed = {} /\ (c = b \/ Worse(b, c, nSequenceId))
  BY Zenon, <1>1, <1>2 DEF Dominated, Kept
<1>4. PICK c \in candidates : Chain[c] \cap Failed = {} /\ (c = b \/ Worse(b, c, nSequenceId))
  BY Zenon, <1>3
<1>5. Usable(c)
  BY Zenon, <1>4 DEF Usable, Branch
<1>6. MostWork # NoBlock
  <2> DEFINE good == {x \in candidates : Usable(x)}
  <2>1. Best(good) \in good
    <3>1. good # {} /\ good \subseteq Blocks
      BY Zenon, <1>1, <1>5
    <3> HIDE DEF good
    <3> QED BY Zenon, <1>1, <3>1, BestIn
  <2>2. NoBlock \notin good /\ MostWork = Best(good)
    BY Zenon, <1>1, <1>5, TreeAssumption DEF MostWork
  <2> QED BY Zenon, <2>1, <2>2
<1>7. ~Worse(MostWork, c, nSequenceId) /\ MostWork \in Blocks
  BY Zenon, <1>5, <1>6, MostWorkFacts
<1> QED BY Zenon, <1>1, <1>4, <1>6, <1>7, WorseOrder

\* Looking for the best chain, and moving to it or failing to.
LEMMA FindDominated ==
    ASSUME Core, Healthy, Levels, InOrder, Dominated, NEW bad, bad \subseteq Bad,
           tip' \in linked, UNCHANGED <<linked, level, nSequenceId>>,
           failedValid' = failedValid \cup bad, failedChild' = FailedChildAfterFind,
           \A x \in CandidatesAfterFind \ bad : x \in candidates' \/ Worse(x, tip', nSequenceId)
    PROVE  Dominated'
<1>0. /\ linked \subseteq Blocks /\ candidates \subseteq Blocks /\ nSequenceId \in [Blocks -> Nat]
      /\ tip \in Blocks /\ tip' \in Blocks
  BY Zenon, CoreFacts
<1>1. ASSUME NEW c \in candidates, Kept(c)
      PROVE  Worse(c, tip', nSequenceId) \/ (c \in candidates' /\ Kept(c)')
  <2>1. Chain[c] \cap Failed = {} /\ Chain[c] \cap Bad = {} /\ c \in Blocks /\ c \in Chain[c]
    BY Zenon, <1>0, <1>1, ChainFacts DEF Kept
  <2>2. \A x \in Chain[c] : Chain[x] \subseteq Chain[c]
    BY Zenon, <2>1, ChainFacts
  <2>3. c \in CandidatesAfterFind \ bad
    BY Zenon, <2>1, <2>2, FindFacts
  <2>4. Chain[c] \cap (failedValid' \cup failedChild') = {}
    BY Zenon, <2>1, <2>2, FindFacts DEF Failed
  <2> QED BY Zenon, <2>1, <2>3, <2>4 DEF Kept, Failed, Bad
<1>2. ASSUME NEW b \in linked, NEW c \in candidates, Kept(c), Worse(b, c, nSequenceId)
      PROVE  \/ Worse(b, tip', nSequenceId)
             \/ \E d \in candidates' : Kept(d)' /\ Worse(b, d, nSequenceId)
  <2>1. b \in Blocks /\ c \in Blocks
    BY Zenon, <1>0
  <2>2. Worse(c, tip', nSequenceId) => Worse(b, tip', nSequenceId)
    BY Zenon, <1>0, <1>2, <2>1, WorseOrder
  <2> QED BY Zenon, <1>1, <1>2, <2>2
<1>3. ASSUME NEW b \in linked, level[b] >= BLOCK_VALID_TRANSACTIONS, b \notin failedValid' \cup failedChild'
      PROVE  \/ Worse(b, tip', nSequenceId) \/ b \in candidates'
             \/ \E d \in candidates' : Kept(d)' /\ Worse(b, d, nSequenceId)
  <2>1. b \notin Failed /\ b \in Blocks
    BY Zenon, <1>0, <1>3, FindFacts DEF Failed
  <2>2. CASE Worse(b, tip, nSequenceId)
    <3>1. PICK c \in candidates : Kept(c) /\ (c = tip \/ Worse(tip, c, nSequenceId))
      BY Zenon, TipKept
    <3>2. Worse(b, c, nSequenceId)
      BY Zenon, <1>0, <2>1, <2>2, <3>1, WorseOrder
    <3> QED BY Zenon, <1>2, <3>1, <3>2
  <2>3. CASE b \in candidates
    <3>1. b \in CandidatesAfterFind \ bad
      BY Zenon, <1>3, <2>1, <2>3, FindFacts
    <3> QED BY Zenon, <3>1
  <2>4. CASE \E c \in candidates : Kept(c) /\ Worse(b, c, nSequenceId)
    BY Zenon, <1>2, <2>4
  <2> QED BY Zenon, <1>3, <2>1, <2>2, <2>3, <2>4 DEF Dominated
<1> QED BY Zenon, <1>3 DEF Dominated, Failed, Worse, BLOCK_VALID_TRANSACTIONS


\* Steps that do not touch the candidates.
LEMMA HeaderDominated ==
    ASSUME Core, Dominated, UNCHANGED <<linked, tip, candidates, nSequenceId>>,
           \A x \in linked : level'[x] = level[x],
           Failed \subseteq failedValid' \cup failedChild',
           failedValid' \cup failedChild' \subseteq Failed \cup Bad
    PROVE  Dominated'
<1>1. ASSUME NEW c, Kept(c) PROVE Kept(c)'
  BY Zenon, <1>1 DEF Kept, Failed, Bad
<1>2. ASSUME NEW b \in linked, level'[b] >= BLOCK_VALID_TRANSACTIONS, b \notin failedValid' \cup failedChild'
      PROVE  \/ Worse(b, tip, nSequenceId) \/ b \in candidates
             \/ \E d \in candidates : Kept(d)' /\ Worse(b, d, nSequenceId)
  BY Zenon, <1>1, <1>2 DEF Dominated
<1> QED BY Zenon, <1>2 DEF Dominated, Failed, Worse, BLOCK_VALID_TRANSACTIONS

\* A header for which no failure is cleared.
LEMMA NothingCleared ==
    ASSUME NEW b \in Blocks, NEW future, HeaderPassed(b, future), cleared' = {}
    PROVE  UNCHANGED <<failedValid, failedChild>>
<1>1. ASSUME AddHeader(b) PROVE UNCHANGED <<failedValid, failedChild>>
  <2>1. b \notin Failed /\ failedValid' = failedValid \ {b} /\ failedChild' = failedChild \ {b}
    BY Zenon, <1>1 DEF AddHeader, Cleared
  <2> QED BY Zenon, <2>1 DEF Failed
<1> QED BY Zenon, <1>1 DEF HeaderPassed

\* Known blocks keep their level.
LEMMA LinkedLevels ==
    ASSUME Core, NEW b \in Blocks, level' = [level EXCEPT ![b] = LevelWithHeader(b)]
    PROVE  \A x \in linked : level'[x] = level[x]
<1>1. linked \subseteq index /\ index \subseteq Blocks /\ level \in [Blocks -> {0, 2, 3, 6, 7}]
  BY Zenon, CoreFacts DEF Core, TypeOK
<1> QED BY Zenon, <1>1 DEF LevelWithHeader

\* A block is stored.
LEMMA StoredDominated ==
    ASSUME Core, Dominated, NEW t, NEW b \in Blocks, NEW fRequested, NEW future,
           ProcessStored(t, b, fRequested, future), cleared' = {}
    PROVE  Dominated'
<1>1. /\ b \notin haveData /\ HeaderPassed(b, future) /\ ReceivedBlockTransactions(b)
      /\ level' = [level EXCEPT ![b] = StoredLevel(b)] /\ UNCHANGED tip
  BY Zenon DEF ProcessStored, Wanted
<1>2. UNCHANGED <<failedValid, failedChild>>
  BY Zenon, <1>1, NothingCleared
<1>3. /\ candidates \subseteq candidates' /\ \A x \in linked : nSequenceId'[x] = nSequenceId[x]
      /\ \A x \in linked' \ linked : Worse(x, tip, nSequenceId') \/ x \in candidates'
  BY Zenon, <1>1, ReceivedFacts
<1>4. /\ b \notin linked /\ linked \subseteq Blocks /\ level \in [Blocks -> {0, 2, 3, 6, 7}]
      /\ tip \in linked /\ candidates \subseteq linked
  BY Zenon, <1>1, CoreFacts DEF Core, TypeOK
<1>5. \A x \in linked : level'[x] = level[x]
  BY Zenon, <1>1, <1>4
<1>6. ASSUME NEW c \in candidates, Kept(c) PROVE c \in candidates' /\ Kept(c)'
  BY Zenon, <1>2, <1>3, <1>6 DEF Kept, Failed, Bad
<1>7. \A x, y \in linked : Worse(x, y, nSequenceId) => Worse(x, y, nSequenceId')
  BY Zenon, <1>3 DEF Worse
<1>8. ASSUME NEW x \in linked', level'[x] >= BLOCK_VALID_TRANSACTIONS, x \notin Failed
      PROVE  \/ Worse(x, tip, nSequenceId') \/ x \in candidates'
             \/ \E d \in candidates' : Kept(d)' /\ Worse(x, d, nSequenceId')
  <2>1. CASE x \in linked
    <3>1. \/ Worse(x, tip, nSequenceId) \/ x \in candidates
          \/ \E c \in candidates : Kept(c) /\ Worse(x, c, nSequenceId)
      BY Zenon, <1>5, <1>8, <2>1 DEF Dominated
    <3> QED BY Zenon, <1>3, <1>4, <1>6, <1>7, <2>1, <3>1
  <2>2. CASE x \notin linked
    BY Zenon, <1>3, <1>8, <2>2
  <2> QED BY Zenon, <2>1, <2>2
<1> QED BY Zenon, <1>1, <1>2, <1>8 DEF Dominated, Failed, Worse, BLOCK_VALID_TRANSACTIONS

\* InvalidateBlock readmits whatever is not worse than the new tip.
LEMMA InvalidateDominated ==
    ASSUME NEW p, NEW out, NEW cands, NEW fChild, InvalidateBlock(p, out, cands, fChild), out.ok,
           UNCHANGED <<linked, level, nSequenceId>>
    PROVE  Dominated'
<1>1. /\ tip' = out.tip /\ failedValid' = failedValid \cup {p}
      /\ failedChild' = fChild \cup (Chain[tip] \ Chain[out.tip]) \cup {}
      /\ Readmitted(out.tip, failedValid \cup {p} \cup fChild \cup (Chain[tip] \ Chain[out.tip]) \cup {}) \subseteq candidates'
  <2>1. (Chain[tip] \ Chain[out.tip]) \cup (IF out.ok THEN {} ELSE {out.tip}) = Chain[tip] \ Chain[out.tip]
    BY Zenon
  <2>2. failedValid \cup {p} \cup fChild \cup ((Chain[tip] \ Chain[out.tip]) \cup (IF out.ok THEN {} ELSE {out.tip}))
          = failedValid \cup {p} \cup fChild \cup (Chain[tip] \ Chain[out.tip]) \cup {}
    BY Zenon
  <2> QED BY Zenon, <2>1, <2>2 DEF InvalidateBlock
<1>2. ASSUME NEW b \in linked, level[b] >= BLOCK_VALID_TRANSACTIONS, b \notin failedValid' \cup failedChild'
      PROVE  Worse(b, tip', nSequenceId) \/ b \in candidates'
  BY Zenon, <1>1, <1>2 DEF Readmitted
<1> QED BY Zenon, <1>2 DEF Dominated, Failed, Worse, BLOCK_VALID_TRANSACTIONS

\* Reconsidering, when no ancestor is cleared on the way.
LEMMA ReconsiderDominated ==
    ASSUME Core, Healthy, InOrder, Dominated, NEW t, NEW p \in Blocks, reconsiderblock(t, p), cleared' = {}
    PROVE  Dominated'
<1> DEFINE below == {b \in index \cap Failed : p \in Chain[b]}
<1>1. /\ UNCHANGED <<linked, level, nSequenceId, tip>> /\ candidates \subseteq candidates'
      /\ (Failed \cap Chain[p]) \ {p} = {}
      /\ failedValid' = failedValid \ (below \cup Chain[p])
      /\ failedChild' = failedChild \ (below \cup Chain[p])
      /\ \A b \in below : level[b] >= BLOCK_VALID_TRANSACTIONS /\ b \in linked /\ Worse(tip, b, nSequenceId)
                             => b \in candidates'
  BY Zenon DEF reconsiderblock
<1>2. Failed \subseteq index /\ tip \in linked /\ linked \subseteq index /\ index \subseteq Blocks
  BY Zenon, CoreFacts DEF Core, TypeOK, Failed
<1>3. tip \notin Failed
  <2>1. ActiveChainValid /\ tip \in Chain[tip]
    BY Zenon, <1>2, ChainFacts DEF Healthy, InOrder
  <2> QED BY Zenon, <2>1 DEF ActiveChainValid
<1>4. ASSUME NEW c \in candidates, Kept(c) PROVE c \in candidates' /\ Kept(c)'
  BY Zenon, <1>1, <1>4 DEF Kept, Failed, Bad
<1>5. ASSUME NEW b \in linked, level[b] >= BLOCK_VALID_TRANSACTIONS, b \notin failedValid' \cup failedChild'
      PROVE  \/ Worse(b, tip, nSequenceId) \/ b \in candidates'
             \/ \E d \in candidates' : Kept(d)' /\ Worse(b, d, nSequenceId)
  <2>1. CASE b \notin Failed
    BY Zenon, <1>1, <1>4, <1>5, <2>1 DEF Dominated
  <2>2. CASE b \in Failed
    <3>1. b \in below \cup Chain[p]
      BY Zenon, <1>1, <1>5, <2>2 DEF Failed
    <3>2. b \in below
      <4>1. p \in Chain[p] /\ b \in index
        BY Zenon, <1>2, ChainFacts
      <4>2. b \in Chain[p] => b = p
        BY Zenon, <1>1, <2>2
      <4> QED BY Zenon, <2>2, <3>1, <4>1, <4>2
    <3>3. Worse(b, tip, nSequenceId) \/ Worse(tip, b, nSequenceId)
      BY Zenon, <1>2, <1>3, <2>2, Untied
    <3> QED BY Zenon, <1>1, <1>5, <3>2, <3>3
  <2> QED BY Zenon, <2>1, <2>2
<1> QED BY Zenon, <1>1, <1>5 DEF Dominated, Failed, Worse, BLOCK_VALID_TRANSACTIONS


\* The premises held before the step if they hold after it.
LEMMA InOrderBefore ==
    ASSUME Core, [Next]_vars, InOrder'
    PROVE  InOrder
<1>1. ~fRequestShutdown
  BY Zenon, ShutdownStays DEF InOrder
<1>2. cleared \subseteq cleared'
  <2>1. \A b : AcceptBlockHeader(b) => cleared \subseteq cleared'
    BY Zenon DEF AcceptBlockHeader, AddHeader, Cleared
  <2>2. ASSUME NEW t, NEW b, ProcessNewBlock(t, b) PROVE cleared \subseteq cleared'
    BY Zenon, <2>2 DEF ProcessNewBlock, ProcessUnwanted, ProcessStored, ProcessBadContext, ProcessNoSpace,
         HeaderPassed, AddHeader, Cleared
  <2>3. ASSUME NEW t, ActivateBestChain(t) PROVE cleared \subseteq cleared'
    BY Zenon, <2>3 DEF ActivateBestChain, ShutdownTest, ActivateNothing, ActivatePastNotarized, ActivateTooLong,
         ActivateStuck, ActivateReorganise, LoopTest
  <2>4. \A t, p : invalidateblock(t, p) \/ reconsiderblock(t, p) => cleared \subseteq cleared'
    BY Zenon DEF invalidateblock, reconsiderblock
  <2> QED BY Zenon, <2>1, <2>2, <2>3, <2>4 DEF Next, vars
<1> QED BY Zenon, <1>1, <1>2 DEF InOrder, Protected

\* Dominated is kept by every step.
LEMMA DominatedStep ==
    ASSUME Core, Core', Healthy, Levels, [Next]_vars, InOrder, InOrder', Dominated
    PROVE  Dominated'
<1>0. cleared' = {} /\ ~fRequestShutdown' /\ Protected
  BY Zenon DEF InOrder
<1>1. CASE UNCHANGED vars
  BY Zenon, <1>1, HeaderDominated DEF vars, indexVars, Failed
<1>2. ASSUME NEW b \in Blocks, NEW future, HeaderPassed(b, future), UNCHANGED <<linked, tip, candidates, nSequenceId>>,
             level' = [level EXCEPT ![b] = LevelWithHeader(b)]
      PROVE  Dominated'
  <2>1. UNCHANGED <<failedValid, failedChild>> /\ \A x \in linked : level'[x] = level[x]
    BY Zenon, <1>0, <1>2, NothingCleared, LinkedLevels
  <2> QED BY Zenon, <1>2, <2>1, HeaderDominated DEF Failed
<1>3. ASSUME NEW b \in Blocks, AcceptBlockHeader(b) PROVE Dominated'
  BY Zenon, <1>2, <1>3 DEF AcceptBlockHeader, HeaderPassed
<1>4. ASSUME NEW t \in NetThreads, NEW b \in Blocks, ProcessNewBlock(t, b) PROVE Dominated'
  <2>1. ASSUME NEW fRequested, NEW future, ProcessUnwanted(t, b, fRequested, future) PROVE Dominated'
    BY Zenon, <1>2, <2>1 DEF ProcessUnwanted
  <2>2. ASSUME NEW fRequested, NEW future, ProcessStored(t, b, fRequested, future) PROVE Dominated'
    BY Zenon, <1>0, <2>2, StoredDominated
  <2>3. ASSUME NEW fRequested, ProcessBadContext(t, b, fRequested) PROVE Dominated'
    <3>1. /\ UNCHANGED <<linked, tip, candidates, nSequenceId>> /\ b \in Bad
          /\ level' = [level EXCEPT ![b] = LevelWithHeader(b)]
          /\ failedValid' = failedValid \cup {b} /\ failedChild' = failedChild \ {b}
      BY Zenon, <2>3 DEF ProcessBadContext, Bad
    <3>2. \A x \in linked : level'[x] = level[x]
      BY Zenon, <3>1, LinkedLevels
    <3>3. Failed \subseteq failedValid' \cup failedChild' /\ failedValid' \cup failedChild' \subseteq Failed \cup Bad
      BY Zenon, <3>1 DEF Failed
    <3> QED BY Zenon, <3>1, <3>2, <3>3, HeaderDominated
  <2>4. ASSUME NEW fRequested, ProcessNoSpace(t, b, fRequested) PROVE FALSE
    BY Zenon, <1>0, <2>4 DEF ProcessNoSpace
  <2> QED BY Zenon, <1>4, <2>1, <2>2, <2>3, <2>4 DEF ProcessNewBlock
<1>5. ASSUME NEW t \in Threads, ActivateBestChain(t) PROVE Dominated'
  <2>1. CASE ShutdownTest(t) \/ LoopTest(t)
    <3>1. UNCHANGED <<linked, tip, candidates, nSequenceId, level, failedValid, failedChild>>
      BY Zenon, <2>1 DEF ShutdownTest, LoopTest, indexVars
    <3> QED BY Zenon, <3>1, HeaderDominated DEF Failed
  <2>2. CASE ActivateNothing(t) \/ ActivateStuck(t)
    <3>1. /\ UNCHANGED <<linked, level, nSequenceId, failedValid>> /\ failedChild' = FailedChildAfterFind
          /\ candidates' = CandidatesAfterFind
      BY Zenon, <2>2 DEF ActivateNothing, ActivateStuck
    <3>2. PICK bad : bad = {}
      BY Zenon
    <3>3. tip' \in linked /\ failedValid' = failedValid \cup bad /\ bad \subseteq Bad
      BY Zenon, <3>1, <3>2 DEF Core
    <3>4. \A x \in CandidatesAfterFind \ bad : x \in candidates' \/ Worse(x, tip', nSequenceId)
      BY Zenon, <3>1
    <3> QED BY Zenon, <3>1, <3>3, <3>4, FindDominated
  <2>3. CASE ActivateTooLong(t)
    BY Zenon, <1>0, <2>3 DEF ActivateTooLong
  <2>4. CASE ActivatePastNotarized(t)
    <3>1. PICK out \in InvalidateOutcomes(MostWork) :
             InvalidateBlock(MostWork, out, CandidatesAfterFind, FailedChildAfterFind)
      BY Zenon, <2>4 DEF ActivatePastNotarized
    <3>2. out.ok
      BY Zenon, <2>4, ForkOfMostWork, OutcomeFacts DEF ActivatePastNotarized
    <3>3. UNCHANGED <<linked, level, nSequenceId>>
      BY Zenon, <2>4 DEF ActivatePastNotarized
    <3> QED BY Zenon, <3>1, <3>2, <3>3, InvalidateDominated
  <2>5. CASE ActivateReorganise(t)
    <3>1. PICK out \in ConnectTips(Fork, MostWork) :
             /\ tip' = out.tip /\ failedValid' = failedValid \cup InvalidBlockFound(out)
             /\ candidates' = CandidatesAfterConnect(out) /\ out.tip \in linked
             /\ InvalidBlockFound(out) \subseteq (BadContext \cup BadConnect) \cap (Chain[MostWork] \ Chain[out.tip])
      BY Zenon, <2>5, ReorganiseFacts
    <3>2. InvalidBlockFound(out) \subseteq Bad
      BY Zenon, <3>1 DEF Bad
    <3>3. UNCHANGED <<linked, level, nSequenceId>> /\ failedChild' = FailedChildAfterFind
      BY Zenon, <2>5 DEF ActivateReorganise
    <3>4. \A x \in CandidatesAfterFind \ InvalidBlockFound(out) : x \in candidates' \/ Worse(x, tip', nSequenceId)
      BY Zenon, <3>1 DEF CandidatesAfterConnect, PruneBlockIndexCandidates
    <3> QED BY Zenon, <3>1, <3>2, <3>3, <3>4, FindDominated
  <2> QED BY Zenon, <1>5, <2>1, <2>2, <2>3, <2>4, <2>5 DEF ActivateBestChain
<1>6. ASSUME NEW t \in RpcThreads, NEW p \in Invalidatable, invalidateblock(t, p) PROVE Dominated'
  <2>1. PICK out \in InvalidateOutcomes(p) : InvalidateBlock(p, out, candidates, failedChild)
    BY Zenon, <1>6 DEF invalidateblock
  <2>2. p \in index /\ p # Genesis /\ Chain[tip] \cap failedChild \subseteq Failed
    BY Zenon, <1>6, SettingsAssumption DEF invalidateblock, Failed
  <2>3. out.ok
    BY Zenon, <1>0, <2>1, <2>2, InvalidateHealthy
  <2>4. UNCHANGED <<linked, level, nSequenceId>>
    BY Zenon, <1>6 DEF invalidateblock
  <2> QED BY Zenon, <2>1, <2>3, <2>4, InvalidateDominated
<1>7. ASSUME NEW t \in RpcThreads, NEW p \in Reconsiderable, reconsiderblock(t, p) PROVE Dominated'
  <2>1. p \in Blocks
    BY Zenon, SettingsAssumption
  <2> QED BY Zenon, <1>0, <1>7, <2>1, ReconsiderDominated
<1> QED BY Zenon, <1>1, <1>3, <1>4, <1>5, <1>6, <1>7 DEF Next


\* A thread that is about to activate is busy.
LEMMA BusyThread ==
    ASSUME Core, NEW t \in Threads, NEW place \in {"enter", "activate"}, Goto(t, place)
    PROVE  Busy'
<1>1. pc'[t] = place
  BY Zenon DEF Core, TypeOK, Goto
<1>2. \E s \in Threads : pc'[s] \in {"enter", "activate"}
  BY Zenon, <1>1
<1> QED BY Zenon, <1>2 DEF Busy, Threads

\* Chains that are valid after a step that clears nothing were so before.
LEMMA ValidBefore ==
    ASSUME UNCHANGED <<linked, level>>, Failed \subseteq failedValid' \cup failedChild'
    PROVE  \A b \in ValidChains' : b \in ValidChains
BY Zenon DEF ValidChains, Failed, BLOCK_VALID_TRANSACTIONS

\* A reorganisation that is not repeated has reached the best valid chain.
LEMMA ReorganiseWorking ==
    ASSUME Core, Dominated, NEW t \in Threads, ActivateReorganise(t)
    PROVE  Working'
<1>1. PICK out \in ConnectTips(Fork, MostWork) :
         /\ tip' = out.tip /\ failedValid' = failedValid \cup InvalidBlockFound(out)
         /\ out.ok => Goto(t, "test") /\ mostWork' = [mostWork EXCEPT ![t] = MostWork] /\ UNCHANGED postponed
         /\ ~out.ok => Return(t, TRUE)
  BY Zenon, ReorganiseFacts
<1>2. /\ UNCHANGED <<linked, level, nSequenceId>> /\ failedChild' = FailedChildAfterFind
      /\ MostWork \notin {NoBlock, tip}
  BY Zenon DEF ActivateReorganise
<1>3. CASE ~out.ok
  BY Zenon, <1>1, <1>3 DEF Return, Working
<1>4. CASE out.ok /\ out.tip # MostWork
  <2>1. pc'[t] = "test" /\ mostWork'[t] # tip'
    BY Zenon, <1>1, <1>4 DEF Goto, Core, TypeOK
  <2> QED BY Zenon, <2>1 DEF Busy, Working, Threads
<1>5. CASE out.tip = MostWork
  <2> SUFFICES ASSUME NEW b \in ValidChains', Worse(MostWork, b, nSequenceId) PROVE FALSE
    BY Zenon, <1>1, <1>2, <1>5 DEF Working, Worse
  <2>1. b \in ValidChains
    <3>1. Failed \subseteq failedValid' \cup failedChild'
      BY Zenon, <1>1, <1>2, FindFacts DEF Failed
    <3> QED BY Zenon, <1>2, <3>1, ValidBefore
  <2>2. /\ MostWork \in linked /\ MostWork \in Blocks /\ ~Worse(MostWork, tip, nSequenceId)
        /\ tip \in linked /\ tip \in Blocks /\ nSequenceId \in [Blocks -> Nat] /\ b \in Blocks
    BY Zenon, <1>2, <2>1, MostWorkFacts, CoreFacts DEF Core, ValidChains
  <2>3. Worse(tip, MostWork, nSequenceId)
    BY Zenon, <1>2, <2>2, Untied
  <2>4. Worse(tip, b, nSequenceId)
    BY Zenon, <2>2, <2>3, WorseOrder
  <2> QED BY Zenon, <2>1, <2>4, BestFound
<1> QED BY Zenon, <1>3, <1>4, <1>5

\* Working is kept by every step.
LEMMA WorkingStep ==
    ASSUME Core, Healthy, [Next]_vars, InOrder', Dominated, Working
    PROVE  Working'
<1>0. cleared' = {} /\ ~fRequestShutdown' /\ ~fRequestShutdown /\ Protected
  BY Zenon, InOrderBefore DEF InOrder
<1>1. CASE Busy' \/ postponed'
  BY Zenon, <1>1 DEF Working
<1>2. ASSUME UNCHANGED <<linked, tip, nSequenceId, postponed>>,
             \A b \in ValidChains' : b \in ValidChains,
             Busy => Busy'
      PROVE  Working'
  BY Zenon, <1>2 DEF Working, Worse
<1>3. CASE UNCHANGED vars
  BY Zenon, <1>2, <1>3, ValidBefore DEF vars, indexVars, threadVars, Busy, Failed, Threads
<1>4. ASSUME NEW b \in Blocks, level' = [level EXCEPT ![b] = LevelWithHeader(b)],
             UNCHANGED <<linked, tip, nSequenceId, pc, mostWork, postponed>>,
             Failed \subseteq failedValid' \cup failedChild'
      PROVE  Working'
  <2>1. \A x \in linked : level'[x] = level[x]
    BY Zenon, <1>4, LinkedLevels
  <2>2. \A x \in ValidChains' : x \in ValidChains
    BY Zenon, <1>4, <2>1 DEF ValidChains, Failed, BLOCK_VALID_TRANSACTIONS
  <2>3. Busy => Busy'
    BY Zenon, <1>4 DEF Busy, Threads
  <2> QED BY Zenon, <1>2, <1>4, <2>2, <2>3
<1>5. ASSUME NEW b \in Blocks, AcceptBlockHeader(b) PROVE Working'
  <2>1. UNCHANGED <<failedValid, failedChild>>
    BY Zenon, <1>0, <1>5, NothingCleared DEF AcceptBlockHeader, HeaderPassed
  <2> QED BY Zenon, <1>4, <1>5, <2>1 DEF AcceptBlockHeader, threadVars, Failed
<1>6. ASSUME NEW t \in NetThreads, NEW b \in Blocks, ProcessNewBlock(t, b) PROVE Working'
  <2>0. t \in Threads
    BY Zenon DEF Threads
  <2>1. ASSUME NEW future, EndProcess(t, future) PROVE Working'
    <3>1. CASE future
      BY Zenon, <1>1, <2>1, <3>1 DEF EndProcess
    <3>2. CASE ~future
      <4>1. Goto(t, "enter")
        BY Zenon, <2>1, <3>2 DEF EndProcess
      <4> QED BY Zenon, <1>1, <2>0, <4>1, BusyThread
    <3> QED BY Zenon, <3>1, <3>2
  <2>2. ASSUME NEW fRequested, ProcessBadContext(t, b, fRequested) PROVE Working'
    <3>1. failedValid' = failedValid \cup {b} /\ failedChild' = failedChild \ {b}
      BY Zenon, <2>2 DEF ProcessBadContext
    <3>2. Failed \subseteq failedValid' \cup failedChild'
      BY Zenon, <3>1 DEF Failed
    <3> QED BY Zenon, <1>4, <2>2, <3>2 DEF ProcessBadContext, threadVars
  <2>3. ASSUME NEW fRequested, ProcessNoSpace(t, b, fRequested) PROVE FALSE
    BY Zenon, <1>0, <2>3 DEF ProcessNoSpace
  <2> QED BY Zenon, <1>6, <2>1, <2>2, <2>3 DEF ProcessNewBlock, ProcessUnwanted, ProcessStored
<1>7. ASSUME NEW t \in Threads, ActivateBestChain(t) PROVE Working'
  <2>1. CASE ShutdownTest(t)
    <3>1. Goto(t, "activate")
      BY Zenon, <1>0, <2>1 DEF ShutdownTest
    <3> QED BY Zenon, <1>1, <3>1, BusyThread
  <2>2. CASE ActivateNothing(t)
    <3>1. /\ UNCHANGED <<linked, level, nSequenceId, tip, failedValid>> /\ failedChild' = FailedChildAfterFind
          /\ MostWork \in {NoBlock, tip}
      BY Zenon, <2>2 DEF ActivateNothing
    <3>2. ASSUME NEW b \in ValidChains', Worse(tip, b, nSequenceId) PROVE FALSE
      <4>1. b \in ValidChains
        BY Zenon, <3>1, FindFacts, ValidBefore DEF Failed
      <4>2. MostWork # NoBlock /\ ~Worse(MostWork, b, nSequenceId)
        BY Zenon, <3>2, <4>1, BestFound
      <4> QED BY Zenon, <3>1, <3>2, <4>2
    <3> QED BY Zenon, <3>1, <3>2 DEF Working, Worse
  <2>3. CASE ActivatePastNotarized(t) \/ ActivateTooLong(t) \/ ActivateStuck(t)
    BY Zenon, <1>1, <2>3 DEF ActivatePastNotarized, ActivateTooLong, ActivateStuck, Return
  <2>4. CASE ActivateReorganise(t)
    BY Zenon, <2>4, ReorganiseWorking
  <2>5. CASE LoopTest(t)
    <3>1. /\ UNCHANGED <<linked, level, failedValid, failedChild, tip, nSequenceId, postponed>>
          /\ pc[t] = "test" /\ Goto(t, IF mostWork[t] = tip THEN "idle" ELSE "enter")
          /\ mostWork' = [mostWork EXCEPT ![t] = NoBlock]
      BY Zenon, <2>5 DEF LoopTest, indexVars
    <3>2. \A b \in ValidChains' : b \in ValidChains
      BY Zenon, <3>1, ValidBefore DEF Failed
    <3>3. CASE mostWork[t] = tip
      <4>1. \A s \in Threads : s # t => pc'[s] = pc[s] /\ mostWork'[s] = mostWork[s]
        BY Zenon, <3>1 DEF Goto, Core, TypeOK
      <4>2. Busy => Busy'
        BY Zenon, <3>1, <3>3, <4>1 DEF Busy, Threads
      <4> QED BY Zenon, <1>2, <3>1, <3>2, <4>2
    <3>4. CASE mostWork[t] # tip
      <4>1. Goto(t, "enter")
        BY Zenon, <3>1, <3>4
      <4> QED BY Zenon, <1>1, <4>1, BusyThread
    <3> QED BY Zenon, <3>3, <3>4
  <2> QED BY Zenon, <1>7, <2>1, <2>2, <2>3, <2>4, <2>5 DEF ActivateBestChain
<1>8. ASSUME NEW t \in RpcThreads, NEW p, invalidateblock(t, p) \/ reconsiderblock(t, p) PROVE Working'
  <2>1. Goto(t, "enter") \/ postponed'
    BY Zenon, <1>8 DEF invalidateblock, reconsiderblock
  <2>2. t \in Threads
    BY Zenon DEF Threads
  <2> QED BY Zenon, <1>1, <2>1, <2>2, BusyThread
<1> QED BY Zenon, <1>3, <1>5, <1>6, <1>7, <1>8 DEF Next

\* Once activation has settled the active chain is the best valid one, for any
\* tree of blocks, threads and order of arrival, as long as invalidateblock is
\* not used on an ancestor of a notarized block.
THEOREM BestActivated ==
    ASSUME Protected
    PROVE  Spec => []SettledIsBest
<1> DEFINE Inv == Core /\ Healthy /\ Levels /\ BestInv
<1>1. Init => Inv
  <2> SUFFICES ASSUME Init PROVE Healthy /\ Levels /\ BestInv
    BY Zenon, InitCore
  <2>1. /\ tip = Genesis /\ failedValid = {} /\ failedChild = {} /\ candidates = {Genesis}
        /\ linked = {Genesis} /\ haveData = {Genesis}
        /\ level = [b \in Blocks |-> IF b = Genesis THEN 7 ELSE 0] /\ nSequenceId \in [Blocks -> Nat]
    BY Zenon, InitCore DEF Init, Core, TypeOK
  <2>2. Chain[Genesis] = {Genesis} /\ Genesis \notin Bad /\ Genesis \in Blocks
    BY Zenon, TreeAssumption, SettingsAssumption DEF Bad
  <2>3. Healthy
    BY Zenon, <2>1, <2>2 DEF Healthy, ActiveChainValid, Failed
  <2>4. Levels
    BY <2>1, <2>2 DEF Levels, BLOCK_VALID_TRANSACTIONS
  <2>5. Dominated
    BY Zenon, <2>1 DEF Dominated
  <2>6. Working
    <3>1. ~Worse(Genesis, Genesis, nSequenceId)
      BY Zenon, <2>1, <2>2, WorseOrder
    <3> QED BY Zenon, <2>1, <3>1 DEF Working, ValidChains
  <2> QED BY Zenon, <2>3, <2>4, <2>5, <2>6 DEF BestInv
<1>2. Inv /\ [Next]_vars => Inv'
  <2> SUFFICES ASSUME Core, Healthy, Levels, BestInv, [Next]_vars PROVE Inv'
    BY Zenon
  <2>1. Core' /\ Healthy' /\ Levels'
    BY Zenon, CoreStep, HealthyStep, LevelsKept
  <2>2. ASSUME InOrder' PROVE Dominated' /\ Working'
    <3>1. InOrder /\ Dominated /\ Working
      BY Zenon, <2>2, InOrderBefore DEF BestInv
    <3> QED BY Zenon, <2>1, <2>2, <3>1, DominatedStep, WorkingStep
  <2>3. BestInv'
    BY Zenon, <2>2 DEF BestInv
  <2> QED BY Zenon, <2>1, <2>3
<1>3. Inv => SettledIsBest
  <2> SUFFICES ASSUME Inv, Settled, cleared = {}, NEW b \in ValidChains, Worse(tip, b, nSequenceId) PROVE FALSE
    BY Zenon DEF SettledIsBest
  <2>1. Working /\ ~postponed /\ \A t \in Threads : pc[t] = "idle"
    BY Zenon DEF BestInv, InOrder, Settled
  <2>2. Busy
    BY Zenon, <2>1 DEF Working
  <2> QED BY Zenon, <2>1, <2>2 DEF Busy
<1> HIDE DEF Inv
<1> QED BY <1>1, <1>2, <1>3, PTL DEF Spec
=============================================================================
