-------------------------- MODULE HostViewsProofs --------------------------
(***************************************************************************)
(* What the frames of a host say of each other, the views of one frame of  *)
(* each other, and the drawing of its lanes, for every graph and scenario. *)
(***************************************************************************)
EXTENDS HostViews, SequenceLemmas, FiniteSetTheorems

----------------------------------------------------------------------------
(* Picking out of a sequence *)

IsSequence(s) ==
  Len(s) \in Nat /\ DOMAIN s = 1 .. Len(s) /\ s = [i \in 1 .. Len(s) |-> s[i]]

LEMMA SequenceOf ==
  ASSUME NEW s, IsSequence(s), NEW S, \A i \in DOMAIN s : s[i] \in S
  PROVE  s \in Seq(S)
BY DEF IsSequence

LEMMA ListIs ==
  ASSUME NEW n \in Nat, NEW f, NEW s, s = [k \in 1 .. n |-> f[k]]
  PROVE  IsSequence(s) /\ Len(s) = n /\ DOMAIN s = 1 .. n
<1>1. Len(s) = n /\ DOMAIN s = 1 .. n
  OBVIOUS
<1>2. s = [k \in 1 .. n |-> s[k]]
  OBVIOUS
<1> QED BY <1>1, <1>2 DEF IsSequence

LEMMA MappedIs ==
  ASSUME NEW s, IsSequence(s), NEW f, NEW t, t = [i \in DOMAIN s |-> f[i]]
  PROVE  IsSequence(t) /\ Len(t) = Len(s) /\ DOMAIN t = DOMAIN s
BY DEF IsSequence

\* The members of a set in ascending order: each is there, once, in its place.
LEMMA AscendingLists ==
  ASSUME NEW I \in SUBSET Int, IsFiniteSet(I)
  PROVE  /\ Cardinality(I) \in Nat
         /\ DOMAIN Ascending(I) = 1 .. Cardinality(I)
         /\ \A k \in 1 .. Cardinality(I) :
              Ascending(I)[k] \in I /\ Cardinality({j \in I : j <= Ascending(I)[k]}) = k
         /\ \A i \in I : \E k \in 1 .. Cardinality(I) : Ascending(I)[k] = i
         /\ \A k, l \in 1 .. Cardinality(I) : k < l => Ascending(I)[k] < Ascending(I)[l]
<1> DEFINE n == Cardinality(I)
           Below(i) == {j \in I : j <= i}
           rank == [i \in I |-> Cardinality(Below(i))]
<1>1. n \in Nat
  BY FS_CardinalityType
<1>2. ASSUME NEW i \in I
      PROVE  IsFiniteSet(Below(i)) /\ rank[i] \in 1 .. n
  <2>1. Below(i) \in SUBSET I /\ i \in Below(i)
    OBVIOUS
  <2>2. IsFiniteSet(Below(i)) /\ Cardinality(Below(i)) <= n
    BY <2>1, FS_Subset
  <2>3. Cardinality(Below(i)) \in Nat /\ Cardinality(Below(i)) # 0
    BY <2>1, <2>2, FS_CardinalityType, FS_EmptySet
  <2> HIDE DEF Below, n
  <2> QED BY <1>1, <2>2, <2>3
<1>3. ASSUME NEW i \in I, NEW j \in I, i < j
      PROVE  rank[i] < rank[j]
  <2>1. Below(i) \in SUBSET Below(j) /\ j \in Below(j) /\ j \notin Below(i)
    <3>1. i \in Int /\ j \in Int
      OBVIOUS
    <3>2. j <= j /\ ~(j <= i)
      BY <1>3, <3>1
    <3>3. \A k \in I : k <= i => k <= j
      BY <1>3, <3>1
    <3> QED BY <3>2, <3>3
  <2>2. /\ Cardinality(Below(i)) <= Cardinality(Below(j))
        /\ Cardinality(Below(i)) # Cardinality(Below(j))
    BY <1>2, <2>1, FS_Subset
  <2> HIDE DEF Below, n
  <2>3. rank[i] \in Nat /\ rank[j] \in Nat
    BY <1>1, <1>2
  <2> QED BY <2>2, <2>3
<1>4. rank \in Injection(I, 1 .. n)
  <2>1. rank \in [I -> 1 .. n]
    BY <1>2
  <2>2. ASSUME NEW i \in I, NEW j \in I, rank[i] = rank[j]
        PROVE  i = j
    <3>1. rank[i] \in Int /\ ~(rank[i] < rank[j]) /\ ~(rank[j] < rank[i])
      BY <1>1, <1>2, <2>2
    <3>2. ~(i < j) /\ ~(j < i)
      BY <1>3, <3>1
    <3> QED BY <3>2
  <2> HIDE DEF rank
  <2> QED BY <2>1, <2>2 DEF Injection, IsInjective
<1>5. rank \in Surjection(I, 1 .. n)
  <2>1. IsFiniteSet(1 .. n) /\ Cardinality(1 .. n) = n
    BY <1>1, FS_Interval
  <2> HIDE DEF rank
  <2> QED BY <1>4, <2>1, FS_Injection
<1>6. ASSUME NEW k \in 1 .. n
      PROVE  Ascending(I)[k] \in I /\ rank[Ascending(I)[k]] = k
  <2>1. PICK i \in I : rank[i] = k
    BY <1>5 DEF Surjection
  <2>2. Ascending(I)[k] = CHOOSE j \in I : rank[j] = k
    BY DEF Ascending
  <2> HIDE DEF rank
  <2> QED BY <2>1, <2>2
<1>7. DOMAIN Ascending(I) = 1 .. n
  BY DEF Ascending
<1>8. ASSUME NEW i \in I
      PROVE  \E k \in 1 .. n : Ascending(I)[k] = i
  <2>1. rank[i] \in 1 .. n
    BY <1>2
  <2>2. rank[Ascending(I)[rank[i]]] = rank[i] /\ Ascending(I)[rank[i]] \in I
    BY <1>6, <2>1
  <2> HIDE DEF rank
  <2>3. Ascending(I)[rank[i]] = i
    BY <1>4, <2>2 DEF Injection, IsInjective
  <2> QED BY <2>1, <2>3
<1>9. ASSUME NEW k \in 1 .. n, NEW l \in 1 .. n, k < l
      PROVE  Ascending(I)[k] < Ascending(I)[l]
  <2> DEFINE a == Ascending(I)[k]
             b == Ascending(I)[l]
  <2>1. a \in I /\ b \in I /\ rank[a] = k /\ rank[b] = l
    BY <1>6
  <2> HIDE DEF rank, a, b
  <2>2. a # b /\ ~(b < a)
    BY <1>1, <1>3, <1>9, <2>1
  <2>3. a < b
    BY <2>1, <2>2
  <2> QED BY <2>3 DEF a, b
<1>10. \A k \in 1 .. n : Cardinality({j \in I : j <= Ascending(I)[k]}) = k
  BY <1>6
<1> HIDE DEF n
<1> QED BY <1>1, <1>6, <1>7, <1>8, <1>9, <1>10 DEF n

\* Ascending lists a run of numbers one after the other.
LEMMA AscendingRun ==
  ASSUME NEW a \in Nat, NEW m \in Nat
  PROVE  /\ DOMAIN Ascending(a + 1 .. a + m) = 1 .. m
         /\ \A k \in 1 .. m : Ascending(a + 1 .. a + m)[k] = a + k
<1> DEFINE I == a + 1 .. a + m
<1>1. I \in SUBSET Int /\ IsFiniteSet(I) /\ Cardinality(I) = m
  <2>1. IsFiniteSet(I) /\ Cardinality(I) = IF a + 1 > a + m THEN 0 ELSE (a + m) - (a + 1) + 1
    BY FS_Interval
  <2>2. (IF a + 1 > a + m THEN 0 ELSE (a + m) - (a + 1) + 1) = m
    OBVIOUS
  <2> QED BY <2>1, <2>2
<1>2. ASSUME NEW k \in 1 .. m
      PROVE  Ascending(I)[k] = a + k
  <2>1. PICK i \in I : i = Ascending(I)[k] /\ Cardinality({j \in I : j <= i}) = k
    BY <1>1, <1>2, AscendingLists
  <2>2. {j \in I : j <= i} = a + 1 .. i
    OBVIOUS
  <2>3. Cardinality(a + 1 .. i) = i - a
    <3>1. i \in Int /\ a + 1 \in Int /\ ~(a + 1 > i) /\ i - (a + 1) + 1 = i - a
      OBVIOUS
    <3> QED BY <3>1, FS_Interval
  <2>4. i - a = k
    BY <2>1, <2>2, <2>3
  <2>5. i = a + k
    BY <2>4
  <2> QED BY <2>1, <2>5
<1>3. DOMAIN Ascending(I) = 1 .. m
  BY <1>1, AscendingLists
<1> QED BY <1>2, <1>3

\* What is picked out of a sequence is a sequence of what is there and no more.
LEMMA PickedIs ==
  ASSUME NEW s, IsSequence(s), NEW I \in SUBSET DOMAIN s
  PROVE  /\ IsFiniteSet(I) /\ Cardinality(I) \in Nat
         /\ IsSequence(Picked(s, I))
         /\ Len(Picked(s, I)) = Cardinality(I)
         /\ Picked(s, I) = <<>> <=> I = {}
         /\ \A k \in DOMAIN Picked(s, I) : \E i \in I : Picked(s, I)[k] = s[i]
         /\ \A i \in I : \E k \in DOMAIN Picked(s, I) : Picked(s, I)[k] = s[i]
<1>1. I \in SUBSET Int /\ IsFiniteSet(I)
  <2>1. Len(s) \in Nat /\ I \in SUBSET (1 .. Len(s))
    BY DEF IsSequence
  <2>2. IsFiniteSet(1 .. Len(s))
    BY <2>1, FS_Interval
  <2> QED BY <2>1, <2>2, FS_Subset
<1> DEFINE n == Cardinality(I)
<1>2. n \in Nat /\ DOMAIN Picked(s, I) = 1 .. n
  BY <1>1, AscendingLists DEF Picked
<1>3. Len(Picked(s, I)) = n
  <2>1. Picked(s, I) = [k \in 1 .. n |-> s[Ascending(I)[k]]]
    BY <1>1, AscendingLists DEF Picked
  <2> HIDE DEF n
  <2> QED BY <1>2, <2>1
<1>4. \A k \in 1 .. n : Ascending(I)[k] \in I /\ Picked(s, I)[k] = s[Ascending(I)[k]]
  BY <1>1, AscendingLists DEF Picked
<1>5. \A i \in I : \E k \in 1 .. n : Ascending(I)[k] = i
  BY <1>1, AscendingLists
<1>6. Picked(s, I) = <<>> <=> I = {}
  <2>1. n = 0 <=> I = {}
    BY <1>1, FS_EmptySet
  <2>2. Picked(s, I) = <<>> => n = 0
    BY <1>3
  <2>3. n = 0 => Picked(s, I) = <<>>
    <3>1. Picked(s, I) = [k \in 1 .. n |-> s[Ascending(I)[k]]]
      BY <1>1, AscendingLists DEF Picked
    <3>2. 1 .. 0 = {}
      OBVIOUS
    <3> HIDE DEF n
    <3> QED BY <3>1, <3>2
  <2> QED BY <2>1, <2>2, <2>3
<1> HIDE DEF n
<1>7. \A k \in 1 .. n : \E i \in I : Picked(s, I)[k] = s[i]
  BY <1>4
<1>8. \A i \in I : \E k \in 1 .. n : Picked(s, I)[k] = s[i]
  BY <1>4, <1>5
<1>9. IsSequence(Picked(s, I))
  <2>1. Picked(s, I) = [k \in 1 .. n |-> s[Ascending(I)[k]]]
    BY <1>1, AscendingLists DEF Picked, n
  <2> DEFINE f == [k \in 1 .. n |-> s[Ascending(I)[k]]]
  <2>2. Picked(s, I) = [k \in 1 .. n |-> f[k]]
    BY <2>1
  <2> HIDE DEF f
  <2> QED BY <1>2, <2>2, ListIs
<1> QED BY <1>1, <1>2, <1>3, <1>6, <1>7, <1>8, <1>9 DEF n

----------------------------------------------------------------------------
(* The history of a graph *)

\* A sequence of a set of sequences has its elements at the positions up to its length.
LEMMA SequencesAre ==
  ASSUME NEW S, NEW s \in Seq(S)
  PROVE  IsSequence(s) /\ \A i \in DOMAIN s : s[i] \in S
BY LenProperties, ElementOfSeq DEF IsSequence

Ticks(graph) == {patch.lamport : patch \in ToSet(graph.patches)}
TickAt(graph, n) == IF n = 0 THEN 0 ELSE Ascending(Ticks(graph))[n]
PatchesAt(graph, n) == {i \in DOMAIN graph.patches : graph.patches[i].lamport = TickAt(graph, n)}

\* The frames after the first are the ticks of the patches in order, each with the
\* patches of its tick, of which there are some.
LEMMA IndexIs ==
  ASSUME NEW graph, IsGraph(graph)
  PROVE  LET index == FrameIndex(graph.patches)
             m     == Cardinality(Ticks(graph))
         IN  /\ m \in Nat /\ DOMAIN index = 1 .. m /\ Len(index) = m
             /\ \A n \in 0 .. m : TickAt(graph, n) \in Nat
             /\ \A n \in 1 .. m : /\ index[n].tick = TickAt(graph, n)
                                  /\ index[n].receipts = Picked(graph.patches, PatchesAt(graph, n))
                                  /\ PatchesAt(graph, n) # {}
                                  /\ TickAt(graph, n - 1) < TickAt(graph, n)
             /\ \A i \in DOMAIN graph.patches : \E n \in 1 .. m : i \in PatchesAt(graph, n)
<1> DEFINE patches == graph.patches
           T       == Ticks(graph)
           index   == FrameIndex(patches)
           m       == Cardinality(T)
<1>1. IsSequence(patches) /\ \A i \in DOMAIN patches : patches[i].lamport \in Nat \ {0}
  <2> DEFINE S == [sha : STRING, abbreviated : STRING, lamport : Nat \ {0}, ops : Seq(STRING)]
  <2>1. patches \in Seq(S)
    BY DEF IsGraph
  <2>2. \A p \in S : p.lamport \in Nat \ {0}
    OBVIOUS
  <2> HIDE DEF S, patches
  <2> QED BY <2>1, <2>2, SequencesAre
<1>2. T \in SUBSET (Nat \ {0}) /\ \A i \in DOMAIN patches : patches[i].lamport \in T
  BY <1>1 DEF Ticks, ToSet
<1>3. IsFiniteSet(T)
  <2> DEFINE f == [i \in 1 .. Len(patches) |-> patches[i].lamport]
  <2>1. f \in Surjection(1 .. Len(patches), T)
    BY <1>1 DEF Surjection, Ticks, ToSet, IsSequence
  <2>2. IsFiniteSet(1 .. Len(patches))
    BY <1>1, FS_Interval DEF IsSequence
  <2> HIDE DEF f
  <2> QED BY <2>1, <2>2, FS_Surjection
<1>4. /\ m \in Nat
      /\ DOMAIN Ascending(T) = 1 .. m
      /\ \A k \in 1 .. m : Ascending(T)[k] \in T
      /\ \A t \in T : \E k \in 1 .. m : Ascending(T)[k] = t
      /\ \A k, l \in 1 .. m : k < l => Ascending(T)[k] < Ascending(T)[l]
  <2>1. T \in SUBSET Int
    BY <1>2
  <2> QED BY <1>3, <2>1, AscendingLists
<1>5. index = [n \in 1 .. m |->
                 [tick     |-> Ascending(T)[n],
                  receipts |-> Picked(patches, {i \in DOMAIN patches :
                                                  patches[i].lamport = Ascending(T)[n]})]]
  BY <1>4 DEF FrameIndex, Where, Ticks
<1> HIDE DEF T, index, m
<1>6. DOMAIN index = 1 .. m /\ Len(index) = m
  BY <1>4, <1>5
<1>7. \A n \in 1 .. m : n # 0 /\ TickAt(graph, n) = Ascending(T)[n]
  BY <1>4 DEF TickAt, T
<1>8. \A n \in 0 .. m : TickAt(graph, n) \in Nat
  <2>1. TickAt(graph, 0) = 0
    BY DEF TickAt
  <2>2. \A n \in 0 .. m : n = 0 \/ n \in 1 .. m
    BY <1>4
  <2>3. \A n \in 1 .. m : TickAt(graph, n) \in Nat
    BY <1>2, <1>4, <1>7
  <2> QED BY <2>1, <2>2, <2>3
<1>9. ASSUME NEW n \in 1 .. m
      PROVE  /\ index[n].tick = TickAt(graph, n)
             /\ index[n].receipts = Picked(patches, PatchesAt(graph, n))
             /\ PatchesAt(graph, n) # {}
             /\ TickAt(graph, n - 1) < TickAt(graph, n)
  <2>1. TickAt(graph, n) \in T
    BY <1>4, <1>7
  <2>2. PICK i \in DOMAIN patches : patches[i].lamport = TickAt(graph, n)
    BY <2>1 DEF T, Ticks, ToSet
  <2>3. TickAt(graph, n - 1) < TickAt(graph, n)
    <3>1. CASE n = 1
      <4>1. TickAt(graph, n - 1) = 0
        BY <3>1 DEF TickAt
      <4>2. TickAt(graph, n) \in Nat \ {0}
        BY <1>2, <2>1
      <4> QED BY <4>1, <4>2
    <3>2. CASE n # 1
      <4>1. n - 1 \in 1 .. m /\ n - 1 < n
        BY <1>4, <3>2
      <4> QED BY <1>4, <1>7, <4>1
    <3> QED BY <3>1, <3>2
  <2> QED BY <1>5, <1>7, <2>2, <2>3 DEF PatchesAt
<1>10. ASSUME NEW i \in DOMAIN patches
       PROVE  \E n \in 1 .. m : i \in PatchesAt(graph, n)
  <2>1. PICK n \in 1 .. m : Ascending(T)[n] = patches[i].lamport
    BY <1>2, <1>4
  <2> QED BY <1>7, <2>1 DEF PatchesAt
<1> HIDE DEF patches
<1>11. /\ m \in Nat
       /\ \A n \in 1 .. m : /\ index[n].tick = TickAt(graph, n)
                            /\ index[n].receipts = Picked(patches, PatchesAt(graph, n))
                            /\ PatchesAt(graph, n) # {}
                            /\ TickAt(graph, n - 1) < TickAt(graph, n)
  BY <1>4, <1>9
<1> QED BY <1>6, <1>8, <1>10, <1>11 DEF m, T, index, patches

----------------------------------------------------------------------------
(* What the histories have in common *)

\* Every frame lists the lanes of the catalog in their order; receipts and
\* emissions are on lanes of it, and emissions of one frame differ in their ids.
Listed(past) ==
  /\ IsSequence(past.lanes) /\ past.lanes # <<>>
  /\ \A i, j \in DOMAIN past.lanes : past.lanes[i].id = past.lanes[j].id => i = j
  /\ \E last \in Nat : /\ DOMAIN past.frames = 0 .. last
                       /\ DOMAIN past.receipts = 0 .. last
  /\ \A n \in DOMAIN past.frames :
       /\ IsSequence(past.frames[n]) /\ Len(past.frames[n]) = Len(past.lanes)
       /\ \A k \in DOMAIN past.lanes : past.frames[n][k].lane = past.lanes[k].id
       /\ IsSequence(past.receipts[n])
       /\ \A k \in DOMAIN past.receipts[n] :
            /\ past.receipts[n][k].lane \in Ids(past.lanes)
            /\ past.receipts[n][k].counts \in
                 [admitted : Nat, rejected : Nat, counterfactual : Nat]
       /\ IsSequence(past.emissions[n])
       /\ \A k \in DOMAIN past.emissions[n] : past.emissions[n][k].lane \in Ids(past.lanes)
       /\ \A k, l \in DOMAIN past.emissions[n] :
            past.emissions[n][k].id = past.emissions[n][l].id => k = l
       /\ IsSequence(past.observations[n])

\* The tick of a lane is that of its view.
LEMMA TickOfIs ==
  ASSUME Listed(history), NEW n \in DOMAIN history.frames, NEW k \in DOMAIN history.lanes
  PROVE  TickOf(n, history.lanes[k].id) = history.frames[n][k].tick
<1>1. /\ DOMAIN history.frames[n] = DOMAIN history.lanes
      /\ \A i \in DOMAIN history.lanes : history.frames[n][i].lane = history.lanes[i].id
  BY DEF Listed, IsSequence
<1>2. ASSUME NEW view \in ToSet(history.frames[n]), view.lane = history.lanes[k].id
      PROVE  view = history.frames[n][k]
  <2>1. PICK i \in DOMAIN history.lanes : view = history.frames[n][i]
    BY <1>1 DEF ToSet
  <2>2. i = k
    BY <1>1, <1>2, <2>1 DEF Listed
  <2> QED BY <2>1, <2>2
<1>3. history.frames[n][k] \in ToSet(history.frames[n])
  BY <1>1 DEF ToSet
<1> QED BY <1>1, <1>2, <1>3 DEF TickOf

LEMMA OfLanes ==
  ASSUME Listed(history), NEW id \in Ids(history.lanes)
  PROVE  \E k \in DOMAIN history.lanes : history.lanes[k].id = id
BY DEF Ids, ToSet

----------------------------------------------------------------------------
(* The lanes and frames of a graph *)

LEMMA GraphLanes ==
  ASSUME NEW graph, IsGraph(graph)
  PROVE  LET catalog == GitWarpLanes(graph.strands)
         IN  /\ IsSequence(catalog) /\ 1 \in DOMAIN catalog
             /\ catalog[1] = Live
             /\ \A k \in DOMAIN catalog : catalog[k].kind = "WORLDLINE" <=> k = 1
             /\ \A k \in DOMAIN catalog :
                  k # 1 => catalog[k].kind = "STRAND" /\ catalog[k].parent = {Live.id}
             /\ \A i, j \in DOMAIN catalog : catalog[i].id = catalog[j].id => i = j
<1> DEFINE strands == graph.strands
           others  == [k \in DOMAIN strands |-> Lane(strands[k], "STRAND", {Live.id})]
           catalog == <<Live>> \o others
<1>1. IsSequence(strands)
  <2>1. strands \in Seq(STRING)
    BY DEF IsGraph
  <2> QED BY <2>1, SequencesAre
<1> DEFINE S == {Live} \cup {others[k] : k \in DOMAIN strands}
<1>2. <<Live>> \in Seq(S) /\ Len(<<Live>>) = 1
  OBVIOUS
<1>3. others \in Seq(S) /\ Len(others) = Len(strands)
  <2>1. others \in [1 .. Len(strands) -> S]
    BY <1>1 DEF IsSequence
  <2> HIDE DEF others, S
  <2> QED BY <1>1, <2>1 DEF IsSequence
<1>4. /\ catalog \in Seq(S)
      /\ Len(catalog) = 1 + Len(strands)
      /\ \A k \in 1 .. 1 + Len(strands) :
           catalog[k] = IF k <= 1 THEN <<Live>>[k] ELSE others[k - 1]
  <2> HIDE DEF others, S
  <2> QED BY <1>2, <1>3, ConcatProperties
<1>5. DOMAIN catalog = 1 .. 1 + Len(strands) /\ IsSequence(catalog) /\ 1 \in DOMAIN catalog
  <2> HIDE DEF S, catalog
  <2>1. IsSequence(catalog)
    BY <1>4, SequencesAre
  <2> QED BY <1>1, <1>4, <2>1 DEF IsSequence
<1>6. catalog[1] = Live
  BY <1>4, <1>5
<1>7. ASSUME NEW k \in DOMAIN catalog, k # 1
      PROVE  /\ k - 1 \in DOMAIN strands
             /\ catalog[k] = Lane(strands[k - 1], "STRAND", {Live.id})
  <2>1. k \in 1 .. 1 + Len(strands) /\ ~(k <= 1) /\ k - 1 \in DOMAIN strands
    BY <1>1, <1>5, <1>7 DEF IsSequence
  <2>2. catalog[k] = others[k - 1]
    BY <1>4, <2>1
  <2> HIDE DEF catalog
  <2> QED BY <2>1, <2>2
<1>8. \A i \in DOMAIN strands : strands[i] # Live.id
  BY DEF IsGraph
<1>9. \A i, j \in DOMAIN strands : strands[i] = strands[j] => i = j
  BY DEF IsGraph
<1>10. GitWarpLanes(strands) = catalog
  BY DEF GitWarpLanes
<1> HIDE DEF catalog, strands
<1>11. \A k \in DOMAIN catalog : catalog[k].kind = "WORLDLINE" <=> k = 1
  BY <1>6, <1>7 DEF Lane, Live
<1>12. ASSUME NEW i \in DOMAIN catalog, NEW j \in DOMAIN catalog, catalog[i].id = catalog[j].id
       PROVE  i = j
  <2>1. \A k \in DOMAIN catalog : k # 1 => catalog[k].id = strands[k - 1]
    BY <1>7 DEF Lane
  <2>2. \A k \in DOMAIN catalog : k # 1 => catalog[k].id # catalog[1].id
    BY <1>6, <1>7, <1>8, <2>1
  <2>3. CASE i # 1 /\ j # 1
    <3>1. i - 1 = j - 1
      BY <1>7, <1>9, <1>12, <2>1, <2>3
    <3>2. i \in Int /\ j \in Int
      BY <1>1, <1>5
    <3> QED BY <3>1, <3>2
  <2> QED BY <1>12, <2>2, <2>3
<1>13. \A k \in DOMAIN catalog :
         k # 1 => catalog[k].kind = "STRAND" /\ catalog[k].parent = {Live.id}
  BY <1>7 DEF Lane
<1> QED BY <1>5, <1>6, <1>10, <1>11, <1>12, <1>13 DEF strands

LEMMA GraphFrames ==
  ASSUME NEW graph, IsGraph(graph)
  PROVE  LET past    == GitWarpHistory(graph)
             m       == Cardinality(Ticks(graph))
             patches == graph.patches
         IN  /\ past.lanes = GitWarpLanes(graph.strands)
             /\ DOMAIN past.frames = 0 .. m /\ DOMAIN past.receipts = 0 .. m
             /\ \A n \in 0 .. m :
                  /\ DOMAIN past.frames[n] = DOMAIN past.lanes
                  /\ IsSequence(past.frames[n])
                  /\ past.emissions[n] = <<>> /\ past.observations[n] = <<>>
             /\ \A n \in 0 .. m : \A k \in DOMAIN past.lanes :
                  /\ past.frames[n][k].lane = past.lanes[k].id
                  /\ past.frames[n][k].tick = TickAt(graph, n)
                  /\ past.frames[n][k].changed <=> n # 0 /\ k = 1
             /\ past.receipts[0] = <<>>
             /\ \A n \in 1 .. m :
                  past.receipts[n] =
                    [k \in DOMAIN Picked(patches, PatchesAt(graph, n)) |->
                       Receipt(Picked(patches, PatchesAt(graph, n))[k].abbreviated, Live.id,
                               TickAt(graph, n - 1), TickAt(graph, n),
                               CountOps(Picked(patches, PatchesAt(graph, n))[k].ops),
                               Picked(patches, PatchesAt(graph, n))[k].sha)]
<1> DEFINE past    == GitWarpHistory(graph)
           m       == Cardinality(Ticks(graph))
           patches == graph.patches
           index   == FrameIndex(graph.patches)
           catalog == GitWarpLanes(graph.strands)
<1>1. /\ m \in Nat /\ DOMAIN index = 1 .. m /\ Len(index) = m
      /\ \A n \in 0 .. m : TickAt(graph, n) \in Nat
      /\ \A n \in 1 .. m : /\ index[n].tick = TickAt(graph, n)
                           /\ index[n].receipts = Picked(graph.patches, PatchesAt(graph, n))
                           /\ TickAt(graph, n - 1) < TickAt(graph, n)
  BY IndexIs
<1>2. /\ IsSequence(catalog) /\ 1 \in DOMAIN catalog
      /\ \A k \in DOMAIN catalog : catalog[k].kind = "WORLDLINE" <=> k = 1
  BY GraphLanes
<1>3. ASSUME NEW n \in 1 .. m
      PROVE  InputTick(index, n) = TickAt(graph, n - 1)
  <2>1. CASE n = 1
    BY <2>1 DEF InputTick, TickAt
  <2>2. CASE n # 1
    <3>1. n - 1 \in 1 .. m
      BY <1>1, <2>2
    <3> HIDE DEF index, m
    <3> QED BY <1>1, <2>2, <3>1 DEF InputTick
  <2> QED BY <2>1, <2>2
<1>4. /\ past.lanes = catalog
      /\ past.frames = [n \in 0 .. Len(index) |->
           IF n = 0 THEN Genesis(catalog)
                    ELSE [k \in DOMAIN catalog |-> ToLaneView(catalog[k], index, n)]]
      /\ past.receipts = [n \in 0 .. Len(index) |->
           IF n = 0 THEN <<>>
                    ELSE [k \in DOMAIN index[n].receipts |->
                            ToReceipt(index[n].receipts[k], index, n)]]
      /\ past.emissions = [n \in 0 .. Len(index) |-> <<>>]
      /\ past.observations = [n \in 0 .. Len(index) |-> <<>>]
  BY DEF GitWarpHistory
<1> HIDE DEF past, m, patches, index, catalog
<1>5. \A n \in 0 .. m : n = 0 \/ n \in 1 .. m
  BY <1>1
<1>6. 0 \in 0 .. m /\ \A n \in 1 .. m : n \in 0 .. m /\ n # 0
  BY <1>1
<1>7. past.frames[0] = [k \in DOMAIN catalog |-> LaneView(catalog[k].id, 0, FALSE, NoDigest)]
  BY <1>1, <1>4, <1>6 DEF Genesis
<1>8. \A n \in 1 .. m : past.frames[n] = [k \in DOMAIN catalog |-> ToLaneView(catalog[k], index, n)]
  BY <1>1, <1>4, <1>6
<1>9. ASSUME NEW n \in 0 .. m
      PROVE  DOMAIN past.frames[n] = DOMAIN past.lanes /\ IsSequence(past.frames[n])
  <2>1. \E f : past.frames[n] = [k \in DOMAIN catalog |-> f[k]]
    <3>1. CASE n = 0
      BY <1>7, <3>1
    <3>2. CASE n \in 1 .. m
      BY <1>8, <3>2
    <3> QED BY <1>5, <3>1, <3>2
  <2>2. PICK f : past.frames[n] = [k \in 1 .. Len(catalog) |-> f[k]]
    BY <1>2, <2>1 DEF IsSequence
  <2>3. Len(catalog) \in Nat /\ DOMAIN catalog = 1 .. Len(catalog)
    BY <1>2 DEF IsSequence
  <2>4. Len(past.frames[n]) = Len(catalog)
    BY <2>2, <2>3
  <2> QED BY <1>4, <2>2, <2>3, <2>4 DEF IsSequence
<1>10. ASSUME NEW n \in 0 .. m, NEW k \in DOMAIN catalog
       PROVE  /\ past.frames[n][k].lane = catalog[k].id
              /\ past.frames[n][k].tick = TickAt(graph, n)
              /\ past.frames[n][k].changed <=> n # 0 /\ k = 1
  <2>1. CASE n = 0
    BY <1>7, <2>1 DEF LaneView, TickAt
  <2>2. CASE n \in 1 .. m
    <3>1. past.frames[n][k] = ToLaneView(catalog[k], index, n)
      BY <1>8, <2>2
    <3>2. n \in Nat /\ n # 0
      BY <1>1, <2>2
    <3>3. index[n].tick # InputTick(index, n)
      <4>1. TickAt(graph, n - 1) < TickAt(graph, n) /\ n - 1 \in 0 .. m
        BY <1>1, <2>2
      <4>2. TickAt(graph, n - 1) \in Nat /\ TickAt(graph, n) \in Nat
        BY <1>1, <4>1
      <4>3. TickAt(graph, n - 1) # TickAt(graph, n)
        BY <4>1, <4>2
      <4> QED BY <1>1, <1>3, <2>2, <4>3
    <3>4. index[n].tick = TickAt(graph, n)
      BY <1>1, <2>2
    <3> DEFINE changed == catalog[k].kind = "WORLDLINE" /\ index[n].tick # InputTick(index, n)
    <3>5. /\ past.frames[n][k].lane = catalog[k].id
          /\ past.frames[n][k].tick = index[n].tick
          /\ past.frames[n][k].changed = changed
      BY <3>1 DEF ToLaneView, LaneView
    <3>6. changed <=> n # 0 /\ k = 1
      BY <1>2, <3>2, <3>3
    <3> HIDE DEF changed
    <3> QED BY <3>4, <3>5, <3>6
  <2> QED BY <1>5, <2>1, <2>2
<1>11. past.receipts[0] = <<>>
  BY <1>1, <1>4, <1>6
<1>12. ASSUME NEW n \in 1 .. m
       PROVE  past.receipts[n] =
                [k \in DOMAIN Picked(patches, PatchesAt(graph, n)) |->
                   Receipt(Picked(patches, PatchesAt(graph, n))[k].abbreviated, Live.id,
                           TickAt(graph, n - 1), TickAt(graph, n),
                           CountOps(Picked(patches, PatchesAt(graph, n))[k].ops),
                           Picked(patches, PatchesAt(graph, n))[k].sha)]
  <2>1. past.receipts[n] = [k \in DOMAIN index[n].receipts |->
                              ToReceipt(index[n].receipts[k], index, n)]
    BY <1>1, <1>4, <1>6
  <2>2. /\ index[n].receipts = Picked(patches, PatchesAt(graph, n))
        /\ index[n].tick = TickAt(graph, n) /\ InputTick(index, n) = TickAt(graph, n - 1)
    BY <1>1, <1>3 DEF patches
  <2> QED BY <2>1, <2>2 DEF ToReceipt
<1>13. DOMAIN past.frames = 0 .. m /\ DOMAIN past.receipts = 0 .. m
  BY <1>1, <1>4
<1>14. \A n \in 0 .. m : past.emissions[n] = <<>> /\ past.observations[n] = <<>>
  BY <1>1, <1>4
<1>15. past.lanes = catalog
  BY <1>4
<1> QED
  BY <1>9, <1>10, <1>11, <1>12, <1>13, <1>14, <1>15 DEF past, m, patches, catalog

LEMMA CountsOps ==
  ASSUME NEW S, NEW ops \in Seq(S)
  PROVE  CountOps(ops) \in [admitted : Nat, rejected : Nat, counterfactual : Nat]
<1>1. ASSUME NEW result
      PROVE  Cardinality({i \in DOMAIN ops : ops[i] = result}) \in Nat
  <2>1. IsFiniteSet(1 .. Len(ops)) /\ DOMAIN ops = 1 .. Len(ops)
    BY LenProperties, FS_Interval
  <2>2. {i \in DOMAIN ops : ops[i] = result} \in SUBSET (1 .. Len(ops))
    BY <2>1
  <2> QED BY <2>1, <2>2, FS_Subset, FS_CardinalityType
<1> QED BY <1>1 DEF CountOps, Counts

LEMMA GraphListed ==
  ASSUME NEW graph, IsGraph(graph)
  PROVE  Listed(GitWarpHistory(graph))
<1> DEFINE past    == GitWarpHistory(graph)
           m       == Cardinality(Ticks(graph))
           patches == graph.patches
           P(n)    == Picked(patches, PatchesAt(graph, n))
<1>1. m \in Nat
  BY IndexIs
<1>2. /\ past.lanes = GitWarpLanes(graph.strands)
      /\ DOMAIN past.frames = 0 .. m /\ DOMAIN past.receipts = 0 .. m
      /\ \A n \in 0 .. m :
           /\ DOMAIN past.frames[n] = DOMAIN past.lanes
           /\ IsSequence(past.frames[n])
           /\ past.emissions[n] = <<>> /\ past.observations[n] = <<>>
      /\ \A n \in 0 .. m : \A k \in DOMAIN past.lanes :
           past.frames[n][k].lane = past.lanes[k].id
      /\ past.receipts[0] = <<>>
      /\ \A n \in 1 .. m :
           past.receipts[n] =
             [k \in DOMAIN P(n) |->
                Receipt(P(n)[k].abbreviated, Live.id, TickAt(graph, n - 1), TickAt(graph, n),
                        CountOps(P(n)[k].ops), P(n)[k].sha)]
  BY GraphFrames
<1>3. /\ IsSequence(past.lanes) /\ 1 \in DOMAIN past.lanes
      /\ past.lanes[1] = Live
      /\ \A i, j \in DOMAIN past.lanes : past.lanes[i].id = past.lanes[j].id => i = j
  <2> DEFINE catalog == GitWarpLanes(graph.strands)
  <2>1. /\ IsSequence(catalog) /\ 1 \in DOMAIN catalog
        /\ catalog[1] = Live
        /\ \A i, j \in DOMAIN catalog : catalog[i].id = catalog[j].id => i = j
    BY GraphLanes
  <2>2. past.lanes = catalog
    BY <1>2
  <2> HIDE DEF past, catalog
  <2> QED
    BY <2>1, <2>2
<1>4. IsSequence(patches) /\ \A i \in DOMAIN patches : patches[i].ops \in Seq(STRING)
  <2> DEFINE S == [sha : STRING, abbreviated : STRING, lamport : Nat \ {0}, ops : Seq(STRING)]
  <2>1. patches \in Seq(S)
    BY DEF IsGraph
  <2>2. \A p \in S : p.ops \in Seq(STRING)
    OBVIOUS
  <2> HIDE DEF S, patches
  <2> QED BY <2>1, <2>2, SequencesAre
<1>5. ASSUME NEW n \in 1 .. m
      PROVE  IsSequence(P(n)) /\ \A k \in DOMAIN P(n) : P(n)[k].ops \in Seq(STRING)
  <2>1. PatchesAt(graph, n) \in SUBSET DOMAIN patches
    BY DEF PatchesAt
  <2> HIDE DEF patches
  <2>2. /\ IsSequence(P(n))
        /\ \A k \in DOMAIN P(n) : \E i \in PatchesAt(graph, n) : P(n)[k] = patches[i]
    BY <1>4, <2>1, PickedIs
  <2> QED BY <1>4, <2>1, <2>2
<1> HIDE DEF past, m, patches, P
<1>6. Live.id \in Ids(past.lanes)
  BY <1>3 DEF Ids, ToSet
<1>7. ASSUME NEW n \in 0 .. m
      PROVE  /\ IsSequence(past.receipts[n])
             /\ \A k \in DOMAIN past.receipts[n] :
                  /\ past.receipts[n][k].lane \in Ids(past.lanes)
                  /\ past.receipts[n][k].counts \in
                       [admitted : Nat, rejected : Nat, counterfactual : Nat]
  <2>1. CASE n = 0
    BY <1>2, <2>1 DEF IsSequence
  <2>2. CASE n \in 1 .. m
    <3> DEFINE R == past.receipts[n]
    <3>0. R = [k \in DOMAIN P(n) |->
                Receipt(P(n)[k].abbreviated, Live.id, TickAt(graph, n - 1), TickAt(graph, n),
                        CountOps(P(n)[k].ops), P(n)[k].sha)]
      BY <1>2, <2>2
    <3>1. /\ DOMAIN R = DOMAIN P(n)
          /\ \A k \in DOMAIN P(n) :
               R[k].lane = Live.id /\ R[k].counts = CountOps(P(n)[k].ops)
      <4> HIDE DEF R
      <4> QED BY <3>0 DEF Receipt
    <3>2. \A k \in DOMAIN P(n) :
            CountOps(P(n)[k].ops) \in [admitted : Nat, rejected : Nat, counterfactual : Nat]
      BY <1>5, <2>2, CountsOps
    <3>3. IsSequence(R)
      <4>1. \E f : R = [k \in 1 .. Len(P(n)) |-> f[k]]
        BY <1>2, <1>5, <2>2 DEF IsSequence
      <4>2. Len(P(n)) \in Nat
        BY <1>5, <2>2 DEF IsSequence
      <4> HIDE DEF R
      <4> QED BY <4>1, <4>2 DEF IsSequence
    <3> HIDE DEF R
    <3>4. \A k \in DOMAIN R : /\ R[k].lane \in Ids(past.lanes)
                              /\ R[k].counts \in
                                   [admitted : Nat, rejected : Nat, counterfactual : Nat]
      BY <1>6, <3>1, <3>2
    <3> QED BY <3>3, <3>4 DEF R
  <2>3. n = 0 \/ n \in 1 .. m
    BY <1>1
  <2> QED BY <2>1, <2>2, <2>3
<1>8. \A n \in 0 .. m : /\ IsSequence(past.frames[n]) /\ Len(past.frames[n]) = Len(past.lanes)
                        /\ IsSequence(past.emissions[n]) /\ past.emissions[n] = <<>>
                        /\ DOMAIN past.emissions[n] = {}
                        /\ IsSequence(past.observations[n])
  <2>1. IsSequence(<<>>) /\ DOMAIN <<>> = {}
    BY DEF IsSequence
  <2>2. \A n \in 0 .. m : Len(past.frames[n]) = Len(past.lanes)
    <3> TAKE n \in 0 .. m
    <3>1. /\ Len(past.frames[n]) \in Nat /\ Len(past.lanes) \in Nat
          /\ 1 .. Len(past.frames[n]) = 1 .. Len(past.lanes)
      BY <1>2, <1>3 DEF IsSequence
    <3> QED BY <3>1
  <2> QED BY <1>2, <2>1, <2>2
<1>9. past.lanes # <<>>
  BY <1>3
<1>10. \E last \in Nat : DOMAIN past.frames = 0 .. last /\ DOMAIN past.receipts = 0 .. last
  BY <1>1, <1>2
<1> QED BY <1>2, <1>3, <1>7, <1>8, <1>9, <1>10 DEF Listed, past

\* A patch is told in the frame of its tick, once, and in no other.
LEMMA RecordedIs ==
  ASSUME IsGraph(host), history = GitWarpHistory(host),
         NEW n \in DOMAIN history.frames, NEW i \in DOMAIN host.patches
  PROVE  /\ Recorded(n, host.patches[i]) \in {0, 1}
         /\ Recorded(n, host.patches[i]) = 1 <=> n # 0 /\ i \in PatchesAt(host, n)
<1> DEFINE patches == host.patches
           I       == PatchesAt(host, n)
           P       == Picked(patches, I)
           R       == history.receipts[n]
           K       == {k \in DOMAIN R : R[k].digest = patches[i].sha}
<1>1. /\ DOMAIN history.frames = 0 .. Cardinality(Ticks(host))
      /\ history.receipts[0] = <<>>
      /\ Cardinality(Ticks(host)) \in Nat
  BY GraphFrames, IndexIs
<1>2. Recorded(n, patches[i]) = Cardinality(K)
  BY DEF Recorded
<1>3. CASE n = 0
  <2>1. K = {}
    BY <1>1, <1>3
  <2>2. Cardinality(K) = 0
    BY <2>1, FS_EmptySet
  <2> QED BY <1>2, <1>3, <2>2
<1>4. CASE n # 0
  <2>1. n \in 1 .. Cardinality(Ticks(host))
    BY <1>1, <1>4
  <2>2. /\ DOMAIN R = DOMAIN P
        /\ \A k \in DOMAIN P : R[k].digest = P[k].sha
    <3>1. R = [k \in DOMAIN P |->
                Receipt(P[k].abbreviated, Live.id, TickAt(host, n - 1), TickAt(host, n),
                        CountOps(P[k].ops), P[k].sha)]
      BY <2>1, GraphFrames
    <3> HIDE DEF R, P
    <3> QED BY <3>1 DEF Receipt
  <2>3. IsSequence(patches) /\ I \in SUBSET DOMAIN patches
    BY SequencesAre DEF IsGraph, PatchesAt
  <2>4. I \in SUBSET Int /\ IsFiniteSet(I)
    <3>1. DOMAIN patches \in SUBSET Int
      BY <2>3 DEF IsSequence
    <3> QED BY <2>3, <3>1, PickedIs
  <2>5. /\ DOMAIN P = 1 .. Cardinality(I) /\ Cardinality(I) \in Nat
        /\ \A k \in DOMAIN P : Ascending(I)[k] \in I /\ P[k] = patches[Ascending(I)[k]]
        /\ \A j \in I : \E k \in DOMAIN P : Ascending(I)[k] = j
        /\ \A k, l \in DOMAIN P : k < l => Ascending(I)[k] < Ascending(I)[l]
    <3>1. /\ Cardinality(I) \in Nat
          /\ DOMAIN Ascending(I) = 1 .. Cardinality(I)
          /\ \A k \in 1 .. Cardinality(I) : Ascending(I)[k] \in I
          /\ \A j \in I : \E k \in 1 .. Cardinality(I) : Ascending(I)[k] = j
          /\ \A k, l \in 1 .. Cardinality(I) : k < l => Ascending(I)[k] < Ascending(I)[l]
      BY <2>4, AscendingLists
    <3> HIDE DEF I
    <3> QED BY <3>1 DEF Picked
  <2>6. \A a, b \in DOMAIN patches : patches[a].sha = patches[b].sha => a = b
    BY DEF IsGraph
  <2> HIDE DEF patches, P, R, I
  <2>7. K = {k \in DOMAIN P : Ascending(I)[k] = i}
    BY <2>2, <2>3, <2>5, <2>6 DEF patches
  <2>8. CASE i \in I
    <3>1. PICK k \in DOMAIN P : Ascending(I)[k] = i
      BY <2>5, <2>8
    <3>2. ASSUME NEW l \in DOMAIN P, Ascending(I)[l] = i
          PROVE  l = k
      <4>0. i \in Int
        BY <2>4, <2>8
      <4>1. ~(i < i)
        BY <4>0
      <4>2. ~(l < k) /\ ~(k < l)
        BY <2>5, <3>1, <3>2, <4>1
      <4>3. l \in Int /\ k \in Int
        BY <2>5
      <4> QED BY <4>2, <4>3
    <3>3. K = {k}
      BY <2>7, <3>1, <3>2
    <3>4. Cardinality(K) = 1
      BY <3>3, FS_Singleton
    <3> QED BY <1>2, <1>4, <2>8, <3>4 DEF I, patches
  <2>9. CASE i \notin I
    <3>1. K = {}
      BY <2>5, <2>7, <2>9
    <3>2. Cardinality(K) = 0
      BY <3>1, FS_EmptySet
    <3> QED BY <1>2, <1>4, <2>9, <3>2 DEF I, patches
  <2> QED BY <2>8, <2>9
<1> QED BY <1>3, <1>4

LEMMA GraphChains ==
  ASSUME IsGraph(host), history = GitWarpHistory(host), head \in DOMAIN history.frames
  PROVE  FramesChain
<1> DEFINE m       == Cardinality(Ticks(host))
           patches == host.patches
           P(n)    == Picked(patches, PatchesAt(host, n))
<1>1. /\ m \in Nat
      /\ \A n \in 0 .. m : TickAt(host, n) \in Nat
      /\ \A n \in 1 .. m : TickAt(host, n - 1) < TickAt(host, n) /\ PatchesAt(host, n) # {}
      /\ \A i \in DOMAIN patches : \E n \in 1 .. m : i \in PatchesAt(host, n)
  BY IndexIs
<1>2. /\ history.lanes = GitWarpLanes(host.strands)
      /\ DOMAIN history.frames = 0 .. m /\ DOMAIN history.receipts = 0 .. m
      /\ \A n \in 0 .. m : DOMAIN history.frames[n] = DOMAIN history.lanes
      /\ \A n \in 0 .. m : \A k \in DOMAIN history.lanes :
           /\ history.frames[n][k].lane = history.lanes[k].id
           /\ history.frames[n][k].tick = TickAt(host, n)
           /\ history.frames[n][k].changed <=> n # 0 /\ k = 1
      /\ history.receipts[0] = <<>>
      /\ \A n \in 1 .. m :
           history.receipts[n] =
             [k \in DOMAIN P(n) |->
                Receipt(P(n)[k].abbreviated, Live.id, TickAt(host, n - 1), TickAt(host, n),
                        CountOps(P(n)[k].ops), P(n)[k].sha)]
  BY GraphFrames
<1>3. /\ 1 \in DOMAIN history.lanes /\ history.lanes[1] = Live
      /\ \A i, j \in DOMAIN history.lanes :
           history.lanes[i].id = history.lanes[j].id => i = j
  <2>1. history.lanes = GitWarpLanes(host.strands)
    BY <1>2
  <2> QED BY <2>1, GraphLanes
<1>4. Listed(history)
  BY GraphListed
<1>5. \A n \in DOMAIN history.frames : \A k \in DOMAIN history.lanes :
        TickOf(n, history.lanes[k].id) = TickAt(host, n)
  BY <1>2, <1>4, TickOfIs
<1>6. \A n \in DOMAIN history.frames : \A i \in DOMAIN patches :
        /\ Recorded(n, patches[i]) \in {0, 1}
        /\ Recorded(n, patches[i]) = 1 <=> n # 0 /\ i \in PatchesAt(host, n)
  BY RecordedIs
<1>7. ASSUME NEW n \in 1 .. m
      PROVE  /\ DOMAIN history.receipts[n] = DOMAIN P(n)
             /\ \A k \in DOMAIN P(n) : /\ history.receipts[n][k].lane = Live.id
                                       /\ history.receipts[n][k].input = TickAt(host, n - 1)
                                       /\ history.receipts[n][k].output = TickAt(host, n)
  <2> HIDE DEF P, m
  <2>1. history.receipts[n] =
          [k \in DOMAIN P(n) |->
             Receipt(P(n)[k].abbreviated, Live.id, TickAt(host, n - 1), TickAt(host, n),
                     CountOps(P(n)[k].ops), P(n)[k].sha)]
    BY <1>2
  <2> QED BY <2>1 DEF Receipt
<1>8. \A n \in 1 .. m : DOMAIN P(n) # {}
  <2> TAKE n \in 1 .. m
  <2>1. IsSequence(patches) /\ PatchesAt(host, n) \in SUBSET DOMAIN patches
    BY SequencesAre DEF IsGraph, PatchesAt
  <2>2. PatchesAt(host, n) # {}
    BY <1>1
  <2> HIDE DEF patches
  <2> QED BY <2>1, <2>2, PickedIs
<1> HIDE DEF m, P, patches
<1>9. \/ head = 0
      \/ head \in 1 .. m /\ head - 1 \in DOMAIN history.frames /\ head # 0
  BY <1>1, <1>2
<1>10. ASSUME NEW k \in DOMAIN receipts
       PROVE  /\ receipts[k].output = TickOf(head, receipts[k].lane)
              /\ receipts[k].input = TickOf(head - 1, receipts[k].lane)
  <2>1. head # 0
    BY <1>2, <1>10 DEF receipts
  <2>2. head \in 1 .. m /\ head - 1 \in DOMAIN history.frames
    BY <1>9, <2>1
  <2>3. /\ receipts[k].lane = history.lanes[1].id
        /\ receipts[k].input = TickAt(host, head - 1)
        /\ receipts[k].output = TickAt(host, head)
    BY <1>3, <1>7, <1>10, <2>2 DEF receipts
  <2> QED BY <1>3, <1>5, <2>2, <2>3
<1>11. ASSUME NEW view \in ToSet(lanes)
       PROVE  view.changed <=> Contains(LaneIds(receipts), view.lane)
  <2>1. PICK k \in DOMAIN history.lanes : view = history.frames[head][k]
    BY <1>2, <1>11 DEF lanes, ToSet
  <2>2. view.lane = history.lanes[k].id /\ (view.changed <=> head # 0 /\ k = 1)
    BY <1>2, <2>1
  <2>3. Contains(LaneIds(receipts), view.lane) <=> \E i \in DOMAIN receipts : receipts[i].lane = view.lane
    <3>1. IsSequence(receipts)
      BY <1>4 DEF Listed, receipts
    <3>2. DOMAIN LaneIds(receipts) = DOMAIN receipts /\ Len(LaneIds(receipts)) = Len(receipts)
      BY <3>1 DEF LaneIds, IsSequence
    <3>3. \A i \in DOMAIN receipts : LaneIds(receipts)[i] = receipts[i].lane
      BY DEF LaneIds
    <3> QED BY <3>2, <3>3 DEF Contains
  <2>4. CASE head = 0
    <3>1. DOMAIN receipts = {}
      BY <1>2, <2>4 DEF receipts
    <3> QED BY <2>2, <2>3, <2>4, <3>1
  <2>5. CASE head \in 1 .. m /\ head # 0
    <3>1. DOMAIN receipts # {} /\ \A i \in DOMAIN receipts : receipts[i].lane = Live.id
      BY <1>7, <1>8, <2>5 DEF receipts
    <3>2. view.lane = Live.id <=> k = 1
      BY <1>3, <2>2
    <3> QED BY <2>2, <2>3, <2>5, <3>1, <3>2
  <2> QED BY <1>9, <2>4, <2>5
<1>12. ASSUME NEW patch \in ToSet(host.patches)
       PROVE  /\ Recorded(head, patch) = IF head > 0 /\ patch.lamport = Head(lanes).tick THEN 1 ELSE 0
              /\ \E n \in DOMAIN history.receipts : Recorded(n, patch) = 1
  <2>1. PICK i \in DOMAIN patches : patch = patches[i]
    BY <1>12 DEF ToSet, patches
  <2>2. Head(lanes).tick = TickAt(host, head)
    <3>1. Head(lanes) = lanes[1]
      BY DEF lanes
    <3> QED BY <1>2, <1>3, <3>1 DEF lanes
  <2>3. i \in PatchesAt(host, head) <=> patch.lamport = TickAt(host, head)
    BY <2>1 DEF PatchesAt, patches
  <2>4. head > 0 <=> head # 0
    BY <1>1, <1>2
  <2>5. Recorded(head, patch) = IF head > 0 /\ patch.lamport = Head(lanes).tick THEN 1 ELSE 0
    BY <1>6, <2>1, <2>2, <2>3, <2>4
  <2>6. PICK n \in 1 .. m : i \in PatchesAt(host, n)
    BY <1>1
  <2>7. n \in DOMAIN history.receipts /\ n \in DOMAIN history.frames /\ n # 0
    BY <1>1, <1>2
  <2>8. Recorded(n, patch) = 1
    BY <1>6, <2>1, <2>6, <2>7
  <2> QED BY <2>5, <2>7, <2>8
<1>13. ASSUME NEW view \in ToSet(lanes), head > 0
       PROVE  TickOf(head - 1, view.lane) < view.tick
  <2>1. PICK k \in DOMAIN history.lanes : view = history.frames[head][k]
    BY <1>2, <1>13 DEF lanes, ToSet
  <2>2. head \in 1 .. m /\ head - 1 \in DOMAIN history.frames
    BY <1>1, <1>2, <1>9, <1>13
  <2>3. view.lane = history.lanes[k].id /\ view.tick = TickAt(host, head)
    BY <1>2, <2>1
  <2>4. TickOf(head - 1, view.lane) = TickAt(host, head - 1)
    BY <1>5, <2>2, <2>3
  <2> QED BY <1>1, <2>2, <2>3, <2>4
<1> QED BY <1>10, <1>11, <1>12, <1>13 DEF FramesChain

----------------------------------------------------------------------------
(* Sums *)

\* A sum is that of the values before the last one and of the last one.
LEMMA TotalWalk ==
  ASSUME NEW S, NEW values \in Seq(S)
  PROVE  \E sum : /\ sum[0] = 0
                  /\ \A k \in 1 .. Len(values) : sum[k] = sum[k - 1] + values[k]
                  /\ Total(values) = sum[Len(values)]
<1> DEFINE n == Len(values)
           Unfolds(f, m) ==
             f = [s \in SUBSET (1 .. m) |->
                    IF s = {} THEN 0 ELSE f[s \ {Max(s)}] + values[Max(s)]]
           T == {m \in 0 .. n : \E f : Unfolds(f, m)}
<1>1. n \in Nat /\ DOMAIN values = 1 .. n
  BY LenProperties
<1>2. ASSUME NEW m \in Nat, NEW s \in SUBSET (1 .. m), m \in s
      PROVE  Max(s) = m
  <2>1. \A x \in s : x \in Nat /\ x <= m
    OBVIOUS
  <2>2. \A x \in s : (\A y \in s : x >= y) <=> x = m
    BY <1>2, <2>1
  <2>3. Max(s) \in s /\ \A y \in s : Max(s) >= y
    BY <1>2, <2>2 DEF Max
  <2> QED BY <2>2, <2>3
<1>3. 0 \in T
  <2> DEFINE f == [s \in SUBSET (1 .. 0) |-> 0]
  <2>1. SUBSET (1 .. 0) = {{}}
    OBVIOUS
  <2>2. Unfolds(f, 0)
    BY <2>1
  <2> HIDE DEF f, Unfolds
  <2> QED BY <1>1, <2>2
<1>4. ASSUME NEW m \in Nat, m < n, m \in T
      PROVE  m + 1 \in T
  <2>1. PICK f : Unfolds(f, m)
    BY <1>4
  <2> DEFINE g == [s \in SUBSET (1 .. m + 1) |->
                     IF m + 1 \in s THEN f[s \ {m + 1}] + values[m + 1] ELSE f[s]]
  <2>2. ASSUME NEW s \in SUBSET (1 .. m + 1)
        PROVE  g[s] = IF s = {} THEN 0 ELSE g[s \ {Max(s)}] + values[Max(s)]
    <3> HIDE DEF T
    <3>1. CASE m + 1 \in s
      <4>1. Max(s) = m + 1
        BY <1>2, <3>1
      <4>2. /\ s \ {m + 1} \in SUBSET (1 .. m + 1) /\ m + 1 \notin s \ {m + 1}
        OBVIOUS
      <4>3. g[s \ {m + 1}] = f[s \ {m + 1}]
        BY <4>2
      <4> QED BY <3>1, <4>1, <4>3
    <3>2. CASE m + 1 \notin s
      <4>1. s \in SUBSET (1 .. m)
        BY <3>2
      <4>2. f[s] = IF s = {} THEN 0 ELSE f[s \ {Max(s)}] + values[Max(s)]
        BY <2>1, <4>1
      <4>3. g[s] = f[s] /\ g[s \ {Max(s)}] = f[s \ {Max(s)}]
        BY <3>2
      <4> QED BY <4>2, <4>3
    <3> QED BY <3>1, <3>2
  <2>3. Unfolds(g, m + 1)
    <3>1. g = [s \in SUBSET (1 .. m + 1) |-> g[s]]
      OBVIOUS
    <3> HIDE DEF g
    <3> QED BY <2>2, <3>1
  <2> HIDE DEF g, Unfolds
  <2> QED BY <1>1, <1>4, <2>3
<1> HIDE DEF T
<1>5. n \in T
  <2>1. \A k \in 0 .. n : k \in T
    BY <1>1, <1>3, <1>4, UpTo
  <2> QED BY <1>1, <2>1
<1> DEFINE iter == CHOOSE f : Unfolds(f, n)
           sum  == [k \in 0 .. n |-> iter[1 .. k]]
<1>6. Unfolds(iter, n)
  <2>1. \E f : Unfolds(f, n)
    BY <1>5 DEF T
  <2> HIDE DEF Unfolds
  <2> QED BY <2>1
<1>7. Total(values) = iter[1 .. n]
  BY <1>1 DEF Total, FoldLeft, MapThenFoldSet
<1> HIDE DEF iter
<1>8. sum[0] = 0
  <2>1. 1 .. 0 = {} /\ 0 \in 0 .. n
    BY <1>1
  <2> QED BY <1>6, <2>1
<1>9. ASSUME NEW k \in 1 .. n
      PROVE  sum[k] = sum[k - 1] + values[k]
  <2>1. k \in Nat /\ k \in 0 .. n /\ k - 1 \in 0 .. n
    BY <1>1
  <2>2. 1 .. k \in SUBSET (1 .. n) /\ k \in 1 .. k
    BY <1>1
  <2>3. (1 .. k) \ {k} = 1 .. k - 1
    BY <2>1
  <2>4. Max(1 .. k) = k
    BY <1>2, <2>1, <2>2
  <2>5. iter[1 .. k] = iter[1 .. k - 1] + values[k]
    BY <1>6, <2>2, <2>3, <2>4
  <2> QED BY <2>1, <2>5
<1>10. sum[n] = iter[1 .. n]
  BY <1>1
<1> HIDE DEF sum
<1> QED BY <1>7, <1>8, <1>9, <1>10

\* A sum of natural numbers is one, and is 0 only when they all are.
LEMMA TotalIs ==
  ASSUME NEW values \in Seq(Nat)
  PROVE  /\ Total(values) \in Nat
         /\ Total(values) > 0 <=> \E k \in DOMAIN values : values[k] > 0
<1> DEFINE n == Len(values)
<1>1. n \in Nat /\ DOMAIN values = 1 .. n /\ \A k \in 1 .. n : values[k] \in Nat
  BY LenProperties, ElementOfSeq
<1>2. PICK sum : /\ sum[0] = 0
                 /\ \A k \in 1 .. n : sum[k] = sum[k - 1] + values[k]
                 /\ Total(values) = sum[n]
  BY TotalWalk
<1> DEFINE Fits(k) == sum[k] \in Nat /\ (sum[k] > 0 <=> \E i \in 1 .. k : values[i] > 0)
           T == {k \in 0 .. n : Fits(k)}
<1> HIDE DEF n
<1>3. 0 \in T
  BY <1>1, <1>2
<1>4. ASSUME NEW k \in Nat, k < n, k \in T PROVE k + 1 \in T
  <2>1. k + 1 \in 1 .. n /\ (k + 1) - 1 = k /\ k + 1 \in 0 .. n
    BY <1>1, <1>4
  <2>2. sum[k + 1] = sum[k] + values[k + 1] /\ values[k + 1] \in Nat
    BY <1>1, <1>2, <2>1
  <2>3. sum[k] \in Nat /\ (sum[k] > 0 <=> \E i \in 1 .. k : values[i] > 0)
    BY <1>4
  <2>4. sum[k + 1] \in Nat /\ (sum[k + 1] > 0 <=> sum[k] > 0 \/ values[k + 1] > 0)
    BY <2>2, <2>3
  <2>5. 1 .. k + 1 = (1 .. k) \cup {k + 1}
    OBVIOUS
  <2>6. (\E i \in 1 .. k + 1 : values[i] > 0) <=>
          (\E i \in 1 .. k : values[i] > 0) \/ values[k + 1] > 0
    BY <2>5
  <2>7. Fits(k + 1)
    BY <2>3, <2>4, <2>6
  <2> HIDE DEF Fits
  <2> QED BY <2>1, <2>7
<1> HIDE DEF T
<1>5. n \in T
  <2>1. \A k \in 0 .. n : k \in T
    BY <1>1, <1>3, <1>4, UpTo
  <2> QED BY <1>1, <2>1
<1> QED BY <1>1, <1>2, <1>5 DEF T

----------------------------------------------------------------------------
(* Sequences put one after the other *)

LEMMA FlattenWalk ==
  ASSUME NEW S, NEW seqs \in Seq(Seq(S))
  PROVE  \E flat : /\ flat[0] = <<>>
                   /\ \A k \in 1 .. Len(seqs) : flat[k] = flat[k - 1] \o seqs[k]
                   /\ \A k \in 0 .. Len(seqs) : flat[k] \in Seq(S)
                   /\ FlattenSeq(seqs) = flat[Len(seqs)]
<1> DEFINE n == Len(seqs)
           Unfolds(f, m) ==
             f = [i \in 1 .. m |-> IF i = 1 THEN seqs[i] ELSE f[i - 1] \o seqs[i]]
           T == {m \in 0 .. n : \E f : Unfolds(f, m)}
<1>1. n \in Nat /\ \A k \in 1 .. n : seqs[k] \in Seq(S)
  BY LenProperties, ElementOfSeq
<1>2. 0 \in T
  <2> DEFINE f == [i \in 1 .. 0 |-> <<>>]
  <2>1. Unfolds(f, 0)
    OBVIOUS
  <2> HIDE DEF f, Unfolds
  <2> QED BY <1>1, <2>1
<1>3. ASSUME NEW m \in Nat, m < n, m \in T
      PROVE  m + 1 \in T
  <2>1. PICK f : Unfolds(f, m)
    BY <1>3
  <2> DEFINE g == [i \in 1 .. m + 1 |->
                     IF i = 1 THEN seqs[i] ELSE f[i - 1] \o seqs[i]]
  <2>2. ASSUME NEW i \in 1 .. m + 1, i # 1
        PROVE  g[i - 1] = f[i - 1]
    <3>1. i - 1 \in 1 .. m /\ i - 1 \in 1 .. m + 1
      BY <2>2
    <3>2. f[i - 1] = IF i - 1 = 1 THEN seqs[i - 1] ELSE f[(i - 1) - 1] \o seqs[i - 1]
      BY <2>1, <3>1
    <3> QED BY <3>1, <3>2
  <2>3. Unfolds(g, m + 1)
    <3>1. g = [i \in 1 .. m + 1 |-> g[i]]
      OBVIOUS
    <3>2. \A i \in 1 .. m + 1 : g[i] = IF i = 1 THEN seqs[i] ELSE g[i - 1] \o seqs[i]
      BY <2>2
    <3> HIDE DEF g
    <3> QED BY <3>1, <3>2
  <2> HIDE DEF g, Unfolds
  <2> QED BY <1>1, <1>3, <2>3
<1> HIDE DEF T
<1>4. n \in T
  <2>1. \A k \in 0 .. n : k \in T
    BY <1>1, <1>2, <1>3, UpTo
  <2> QED BY <1>1, <2>1
<1> DEFINE iter == CHOOSE f : Unfolds(f, n)
           flat == [k \in 0 .. n |-> IF k = 0 THEN <<>> ELSE iter[k]]
<1>5. Unfolds(iter, n)
  <2>1. \E f : Unfolds(f, n)
    BY <1>4 DEF T
  <2> HIDE DEF Unfolds
  <2> QED BY <2>1
<1>6. n # 0 => FlattenSeq(seqs) = iter[n]
  BY DEF FlattenSeq
<1>7. n = 0 => FlattenSeq(seqs) = <<>>
  <2>1. n = 0 => seqs = <<>>
    BY EmptySeq, LenProperties
  <2> QED BY <2>1 DEF FlattenSeq
<1> HIDE DEF iter
<1>8. flat[0] = <<>>
  BY <1>1
<1>9. ASSUME NEW k \in 1 .. n
      PROVE  flat[k] = IF k = 1 THEN seqs[k] ELSE flat[k - 1] \o seqs[k]
  <2>1. k \in 0 .. n /\ k # 0 /\ k - 1 \in 0 .. n /\ (k # 1 => k - 1 # 0)
    BY <1>1
  <2> HIDE DEF n
  <2> QED BY <1>5, <2>1
<1>10. FlattenSeq(seqs) = flat[n]
  <2>1. n \in 0 .. n
    BY <1>1
  <2> HIDE DEF n
  <2> QED BY <1>6, <1>7, <2>1
<1> DEFINE Typed == {k \in 0 .. n : flat[k] \in Seq(S)}
<1> HIDE DEF flat, n
<1>11. \A k \in 0 .. n : k \in Typed
  <2>1. 0 \in Typed
    <3>1. 0 \in 0 .. n
      BY <1>1
    <3>2. flat[0] \in Seq(S)
      BY <1>8, EmptySeq
    <3> QED BY <3>1, <3>2
  <2>2. ASSUME NEW k \in Nat, k < n, k \in Typed PROVE k + 1 \in Typed
    <3>1. k + 1 \in 1 .. n /\ k + 1 \in 0 .. n /\ (k + 1) - 1 = k
      BY <1>1, <2>2
    <3>2. flat[k + 1] \in {seqs[k + 1], flat[k] \o seqs[k + 1]}
      BY <1>9, <3>1
    <3>3. seqs[k + 1] \in Seq(S) /\ flat[k] \in Seq(S)
      BY <1>1, <2>2, <3>1
    <3>4. flat[k] \o seqs[k + 1] \in Seq(S)
      BY <3>3, ConcatProperties
    <3> QED BY <3>1, <3>2, <3>3, <3>4
  <2> HIDE DEF Typed
  <2> QED BY <1>1, <2>1, <2>2, UpTo
<1>12. ASSUME NEW k \in 1 .. n
       PROVE  flat[k] = flat[k - 1] \o seqs[k]
  <2>1. CASE k = 1
    <3>1. <<>> \o seqs[k] = seqs[k]
      BY <1>1, ConcatEmptySeq
    <3>2. k - 1 = 0
      BY <2>1
    <3> QED BY <1>8, <1>9, <2>1, <3>1, <3>2
  <2> QED BY <1>9, <2>1
<1> QED BY <1>8, <1>10, <1>11, <1>12 DEF n

\* What is at a position of s \o t.
LEMMA ConcatIs ==
  ASSUME NEW S, NEW s \in Seq(S), NEW t \in Seq(S)
  PROVE  /\ \A j \in DOMAIN s : j \in DOMAIN (s \o t) /\ (s \o t)[j] = s[j]
         /\ \A j \in DOMAIN t : Len(s) + j \in DOMAIN (s \o t) /\ (s \o t)[Len(s) + j] = t[j]
         /\ \A j \in DOMAIN (s \o t) :
              \/ j \in DOMAIN s
              \/ \E i \in DOMAIN t : j = Len(s) + i
<1> DEFINE both == s \o t
           m    == Len(s)
           n    == Len(t)
<1>1. /\ m \in Nat /\ n \in Nat /\ DOMAIN s = 1 .. m /\ DOMAIN t = 1 .. n
      /\ both \in Seq(S) /\ Len(both) = m + n
      /\ \A i \in 1 .. m + n : both[i] = IF i <= m THEN s[i] ELSE t[i - m]
  BY LenProperties, ConcatProperties
<1>2. DOMAIN both = 1 .. m + n
  BY <1>1, LenProperties
<1> HIDE DEF both, m, n
<1>3. \A j \in 1 .. m : j \in DOMAIN both /\ both[j] = s[j]
  BY <1>1, <1>2
<1>4. ASSUME NEW j \in 1 .. n
      PROVE  m + j \in DOMAIN both /\ both[m + j] = t[j]
  <2>1. m + j \in 1 .. m + n /\ ~(m + j <= m) /\ (m + j) - m = j
    BY <1>1
  <2> QED BY <1>1, <1>2, <2>1
<1>5. ASSUME NEW j \in DOMAIN both
      PROVE  j \in 1 .. m \/ \E i \in 1 .. n : j = m + i
  <2>1. j \in 1 .. m \/ (j - m \in 1 .. n /\ j = m + (j - m))
    BY <1>1, <1>2
  <2> QED BY <2>1
<1> QED BY <1>1, <1>3, <1>4, <1>5 DEF both, m, n

\* What has a property in s \o t: what has it in s, then what has it in t.
LEMMA ConcatHas ==
  ASSUME NEW S, NEW s \in Seq(S), NEW t \in Seq(S), NEW X,
         NEW A, A = {j \in DOMAIN s : s[j] \in X},
         NEW B, B = {j \in DOMAIN t : t[j] \in X},
         NEW C, C = {j \in DOMAIN (s \o t) : (s \o t)[j] \in X}
  PROVE  C = A \cup {Len(s) + j : j \in B}
<1> DEFINE both == s \o t
<1>1. /\ \A j \in DOMAIN s : j \in DOMAIN both /\ both[j] = s[j]
      /\ \A j \in DOMAIN t : Len(s) + j \in DOMAIN both /\ both[Len(s) + j] = t[j]
      /\ \A j \in DOMAIN both : j \in DOMAIN s \/ \E i \in DOMAIN t : j = Len(s) + i
  BY ConcatIs
<1> HIDE DEF both
<1> QED BY <1>1 DEF both

\* A flattened sequence holds what its parts hold.
LEMMA FlattenHas ==
  ASSUME NEW S, NEW seqs \in Seq(Seq(S))
  PROVE  /\ FlattenSeq(seqs) \in Seq(S)
         /\ \A j \in DOMAIN FlattenSeq(seqs) : \E k \in DOMAIN seqs : \E i \in DOMAIN seqs[k] :
              FlattenSeq(seqs)[j] = seqs[k][i]
         /\ \A k \in DOMAIN seqs : \A i \in DOMAIN seqs[k] : \E j \in DOMAIN FlattenSeq(seqs) :
              FlattenSeq(seqs)[j] = seqs[k][i]
<1> DEFINE n == Len(seqs)
<1>1. PICK flat : /\ flat[0] = <<>>
                  /\ \A k \in 1 .. n : flat[k] = flat[k - 1] \o seqs[k]
                  /\ \A k \in 0 .. n : flat[k] \in Seq(S)
                  /\ FlattenSeq(seqs) = flat[n]
  BY FlattenWalk
<1>2. n \in Nat /\ DOMAIN seqs = 1 .. n /\ \A k \in 1 .. n : seqs[k] \in Seq(S)
  BY LenProperties, ElementOfSeq
<1> HIDE DEF n
<1> DEFINE Holds(m) ==
             /\ \A j \in DOMAIN flat[m] : \E k \in 1 .. m : \E i \in DOMAIN seqs[k] :
                  flat[m][j] = seqs[k][i]
             /\ \A k \in 1 .. m : \A i \in DOMAIN seqs[k] : \E j \in DOMAIN flat[m] :
                  flat[m][j] = seqs[k][i]
           T == {m \in 0 .. n : Holds(m)}
<1>3. 0 \in T
  <2>1. DOMAIN flat[0] = {} /\ 1 .. 0 = {} /\ 0 \in 0 .. n
    BY <1>1, <1>2
  <2> QED BY <2>1
<1>4. ASSUME NEW m \in Nat, m < n, Holds(m) PROVE Holds(m + 1)
  <2>1. /\ m + 1 \in 1 .. n /\ m \in 0 .. n /\ (m + 1) - 1 = m /\ m + 1 \in 1 .. m + 1
        /\ \A k \in 1 .. m : k \in 1 .. m + 1
        /\ \A k \in 1 .. m + 1 : k \in 1 .. m \/ k = m + 1
    BY <1>2, <1>4
  <2>2. flat[m + 1] = flat[m] \o seqs[m + 1] /\ flat[m] \in Seq(S) /\ seqs[m + 1] \in Seq(S)
    BY <1>1, <1>2, <2>1
  <2> DEFINE s == flat[m]
             t == seqs[m + 1]
             both == s \o t
  <2>7. s \in Seq(S) /\ t \in Seq(S)
    BY <2>2
  <2> HIDE DEF s, t
  <2>3. /\ \A j \in DOMAIN s : j \in DOMAIN both /\ both[j] = s[j]
        /\ \A j \in DOMAIN t : Len(s) + j \in DOMAIN both /\ both[Len(s) + j] = t[j]
        /\ \A j \in DOMAIN both : j \in DOMAIN s \/ \E i \in DOMAIN t : j = Len(s) + i
    BY <2>7, ConcatIs
  <2>4. flat[m + 1] = both /\ s = flat[m] /\ t = seqs[m + 1]
    BY <2>2 DEF s, t
  <2> HIDE DEF s, t, both
  <2>5. ASSUME NEW j \in DOMAIN both
        PROVE  \E k \in 1 .. m + 1 : \E i \in DOMAIN seqs[k] : both[j] = seqs[k][i]
    <3>1. CASE j \in DOMAIN s
      <4>1. \E k \in 1 .. m : \E i \in DOMAIN seqs[k] : s[j] = seqs[k][i]
        BY <1>4, <2>4, <3>1
      <4> QED BY <2>1, <2>3, <3>1, <4>1
    <3>2. CASE \E i \in DOMAIN t : j = Len(s) + i
      <4>1. PICK i \in DOMAIN t : j = Len(s) + i
        BY <3>2
      <4>2. both[j] = seqs[m + 1][i] /\ i \in DOMAIN seqs[m + 1]
        BY <2>3, <2>4, <4>1
      <4> QED BY <2>1, <4>2
    <3> QED BY <2>3, <3>1, <3>2
  <2>6. ASSUME NEW k \in 1 .. m + 1, NEW i \in DOMAIN seqs[k]
        PROVE  \E j \in DOMAIN both : both[j] = seqs[k][i]
    <3>1. CASE k \in 1 .. m
      <4>1. PICK j \in DOMAIN s : s[j] = seqs[k][i]
        BY <1>4, <2>4, <3>1
      <4> QED BY <2>3, <4>1
    <3>2. CASE k = m + 1
      BY <2>3, <2>4, <3>2
    <3> QED BY <2>1, <3>1, <3>2
  <2> QED BY <2>4, <2>5, <2>6
<1>5. ASSUME NEW m \in Nat, m < n, m \in T PROVE m + 1 \in T
  <2>1. m + 1 \in 0 .. n
    BY <1>2, <1>5
  <2> HIDE DEF Holds
  <2> QED BY <1>4, <1>5, <2>1
<1> HIDE DEF T
<1>6. n \in T
  <2>1. \A k \in 0 .. n : k \in T
    BY <1>2, <1>3, <1>5, UpTo
  <2> QED BY <1>2, <2>1
<1>7. flat[n] \in Seq(S)
  <2>1. n \in 0 .. n
    BY <1>2
  <2> QED BY <1>1, <2>1
<1>8. Holds(n)
  <2> HIDE DEF Holds
  <2> QED BY <1>6 DEF T
<1>9. /\ \A j \in DOMAIN flat[n] : \E k \in DOMAIN seqs : \E i \in DOMAIN seqs[k] :
            flat[n][j] = seqs[k][i]
      /\ \A k \in DOMAIN seqs : \A i \in DOMAIN seqs[k] : \E j \in DOMAIN flat[n] :
            flat[n][j] = seqs[k][i]
  BY <1>2, <1>8
<1> HIDE DEF Holds
<1> QED BY <1>1, <1>7, <1>9

\* Where a sequence has members of X, and the parts that have some.
InSet(s, X)        == {j \in DOMAIN s : s[j] \in X}
WithSome(parts, X) == {k \in DOMAIN parts : InSet(parts[k], X) # {}}

AtMostOne(parts, X) ==
  \A k \in DOMAIN parts : \A i, j \in InSet(parts[k], X) : i = j

OnlyIn(parts, part, X) ==
  \A k \in DOMAIN parts : \A i \in DOMAIN parts[k] : parts[k][i] \in X <=> k = part

\* What the parts hold is in the whole and nothing else is.
Merges(whole, parts) ==
  /\ \A j \in DOMAIN whole : \E k \in DOMAIN parts : \E i \in DOMAIN parts[k] :
       whole[j] = parts[k][i]
  /\ \A k \in DOMAIN parts : \A i \in DOMAIN parts[k] : \E j \in DOMAIN whole :
       whole[j] = parts[k][i]

LEMMA FlattenMerges ==
  ASSUME NEW S, NEW seqs \in Seq(Seq(S))
  PROVE  FlattenSeq(seqs) \in Seq(S) /\ Merges(FlattenSeq(seqs), seqs)
BY FlattenHas DEF Merges

\* Of parts that hold at most one member of X each, the flattened sequence holds as
\* many as there are parts with one.
LEMMA FlattenCounts ==
  ASSUME NEW S, NEW seqs \in Seq(Seq(S)), NEW X, AtMostOne(seqs, X)
  PROVE  Cardinality(InSet(FlattenSeq(seqs), X)) = Cardinality(WithSome(seqs, X))
<1> DEFINE n == Len(seqs)
<1>1. PICK flat : /\ flat[0] = <<>>
                  /\ \A k \in 1 .. n : flat[k] = flat[k - 1] \o seqs[k]
                  /\ \A k \in 0 .. n : flat[k] \in Seq(S)
                  /\ FlattenSeq(seqs) = flat[n]
  BY FlattenWalk
<1>2. n \in Nat /\ DOMAIN seqs = 1 .. n /\ \A k \in 1 .. n : seqs[k] \in Seq(S)
  BY LenProperties, ElementOfSeq
<1> HIDE DEF n
<1> DEFINE In(k) == {i \in DOMAIN seqs[k] : seqs[k][i] \in X}
           Found(m) == {j \in DOMAIN flat[m] : flat[m][j] \in X}
           With(m)  == {k \in 1 .. m : In(k) # {}}
           Same(m)  == /\ IsFiniteSet(Found(m)) /\ IsFiniteSet(With(m))
                       /\ Cardinality(Found(m)) = Cardinality(With(m))
           T == {m \in 0 .. n : Same(m)}
<1>3. 0 \in T
  <2>1. DOMAIN flat[0] = {} /\ 1 .. 0 = {} /\ 0 \in 0 .. n
    BY <1>1, <1>2
  <2>2. Found(0) = {} /\ With(0) = {}
    BY <2>1
  <2> HIDE DEF Found, With
  <2> QED BY <2>1, <2>2, FS_EmptySet
<1>4. ASSUME NEW m \in Nat, m < n, Same(m) PROVE Same(m + 1)
  <2>1. /\ m + 1 \in 1 .. n /\ m \in 0 .. n /\ (m + 1) - 1 = m /\ m + 1 \notin 1 .. m
        /\ 1 .. m + 1 = (1 .. m) \cup {m + 1}
    BY <1>2, <1>4
  <2> DEFINE s == flat[m]
             t == seqs[m + 1]
             l == Len(s)
  <2>2. flat[m + 1] = s \o t /\ s \in Seq(S) /\ t \in Seq(S)
    BY <1>1, <1>2, <2>1
  <2>3. Found(m + 1) = Found(m) \cup {l + j : j \in In(m + 1)}
    <3>1. Found(m) = {j \in DOMAIN s : s[j] \in X} /\ In(m + 1) = {i \in DOMAIN t : t[i] \in X}
      OBVIOUS
    <3>2. Found(m + 1) = {j \in DOMAIN (s \o t) : (s \o t)[j] \in X}
      BY <2>2
    <3>3. s \in Seq(S) /\ t \in Seq(S)
      BY <2>2
    <3> HIDE DEF s, t, Found, In
    <3>4. ASSUME NEW A, A = Found(m), NEW B, B = In(m + 1), NEW C, C = Found(m + 1)
          PROVE  C = A \cup {Len(s) + j : j \in B}
      <4>1. /\ A = {j \in DOMAIN s : s[j] \in X}
            /\ B = {i \in DOMAIN t : t[i] \in X}
            /\ C = {j \in DOMAIN (s \o t) : (s \o t)[j] \in X}
        BY <3>1, <3>2, <3>4
      <4> QED BY <3>3, <4>1, ConcatHas
    <3> QED BY <3>4 DEF l
  <2>4. l \in Nat /\ \A j \in Found(m) : j \in 1 .. l
    BY <2>2, LenProperties
  <2>5. \A i, j \in In(m + 1) : i = j
    BY <1>2, <2>1 DEF AtMostOne, InSet
  <2>6. \A j \in In(m + 1) : j \in Nat \ {0}
    BY <2>2, LenProperties
  <2>7. With(m + 1) = With(m) \cup (IF In(m + 1) # {} THEN {m + 1} ELSE {})
    <3> HIDE DEF In
    <3> QED BY <2>1
  <2>8. m + 1 \notin With(m)
    BY <2>1
  <2> HIDE DEF In, Found, With, l
  <2>9. CASE In(m + 1) = {}
    <3>1. Found(m + 1) = Found(m) /\ With(m + 1) = With(m)
      BY <2>3, <2>7, <2>9
    <3> QED BY <1>4, <3>1
  <2>10. CASE In(m + 1) # {}
    <3>1. PICK j \in In(m + 1) : TRUE
      BY <2>10
    <3>2. In(m + 1) = {j}
      BY <2>5, <3>1
    <3>3. Found(m + 1) = Found(m) \cup {l + j} /\ With(m + 1) = With(m) \cup {m + 1}
      BY <2>3, <2>7, <2>10, <3>2
    <3>4. l + j \notin Found(m)
      <4>1. j \in Nat \ {0}
        BY <2>6
      <4>2. l + j \notin 1 .. l
        BY <2>4, <4>1
      <4> QED BY <2>4, <4>2
    <3>5. /\ IsFiniteSet(Found(m + 1))
          /\ Cardinality(Found(m + 1)) = Cardinality(Found(m)) + 1
      BY <1>4, <3>3, <3>4, FS_AddElement
    <3>6. /\ IsFiniteSet(With(m + 1))
          /\ Cardinality(With(m + 1)) = Cardinality(With(m)) + 1
      BY <1>4, <2>8, <3>3, FS_AddElement
    <3> QED BY <1>4, <3>5, <3>6
  <2> QED BY <2>9, <2>10
<1>5. ASSUME NEW m \in Nat, m < n, m \in T PROVE m + 1 \in T
  <2>1. m + 1 \in 0 .. n
    BY <1>2, <1>5
  <2> HIDE DEF Same
  <2> QED BY <1>4, <1>5, <2>1
<1> HIDE DEF T
<1>6. n \in T
  <2>1. \A k \in 0 .. n : k \in T
    BY <1>2, <1>3, <1>5, UpTo
  <2> QED BY <1>2, <2>1
<1>7. Cardinality(Found(n)) = Cardinality(With(n))
  <2> HIDE DEF Found, With
  <2> QED BY <1>6 DEF T
<1>8. Found(n) = InSet(FlattenSeq(seqs), X) /\ With(n) = WithSome(seqs, X)
  BY <1>1, <1>2 DEF InSet, WithSome
<1> HIDE DEF Found, With
<1> QED BY <1>7, <1>8

\* When one part is in X altogether and no other has anything in X, that part is what
\* is picked out of the flattened sequence by X.
LEMMA FlattenPart ==
  ASSUME NEW S, NEW seqs \in Seq(Seq(S)), NEW X, NEW part \in DOMAIN seqs,
         OnlyIn(seqs, part, X)
  PROVE  Picked(FlattenSeq(seqs), InSet(FlattenSeq(seqs), X)) = seqs[part]
<1> DEFINE n == Len(seqs)
<1>1. PICK flat : /\ flat[0] = <<>>
                  /\ \A k \in 1 .. n : flat[k] = flat[k - 1] \o seqs[k]
                  /\ \A k \in 0 .. n : flat[k] \in Seq(S)
                  /\ FlattenSeq(seqs) = flat[n]
  BY FlattenWalk
<1>2. n \in Nat /\ DOMAIN seqs = 1 .. n /\ \A k \in 1 .. n : seqs[k] \in Seq(S)
  BY LenProperties, ElementOfSeq
<1> DEFINE a == Len(flat[part - 1])
           b == Len(seqs[part])
           Found(m) == {j \in DOMAIN flat[m] : flat[m][j] \in X}
           Before(m) == m < part /\ Found(m) = {}
           After(m)  == /\ m >= part /\ Found(m) = a + 1 .. a + b
                        /\ \A i \in 1 .. b : flat[m][a + i] = seqs[part][i]
           T == {m \in 0 .. n : Before(m) \/ After(m)}
<1>3. /\ a \in Nat /\ b \in Nat /\ seqs[part] \in Seq(S)
      /\ DOMAIN seqs[part] = 1 .. b /\ part \in 1 .. n
  <2>1. part - 1 \in 0 .. n /\ part \in 1 .. n
    BY <1>2
  <2>2. flat[part - 1] \in Seq(S) /\ seqs[part] \in Seq(S)
    BY <1>1, <1>2, <2>1
  <2> QED BY <2>1, <2>2, LenProperties
<1> HIDE DEF n
<1>4. 0 \in T
  <2>1. DOMAIN flat[0] = {} /\ 0 \in 0 .. n /\ 0 < part
    BY <1>1, <1>2, <1>3
  <2>2. Before(0)
    BY <2>1
  <2> HIDE DEF Before
  <2> QED BY <2>1, <2>2
<1>5. ASSUME NEW m \in Nat, m < n, Before(m) \/ After(m)
      PROVE  Before(m + 1) \/ After(m + 1)
  <2>1. m + 1 \in 1 .. n /\ m \in 0 .. n /\ (m + 1) - 1 = m
    BY <1>2, <1>5
  <2> DEFINE s == flat[m]
             t == seqs[m + 1]
             l == Len(s)
             In == {i \in DOMAIN t : t[i] \in X}
  <2>2. flat[m + 1] = s \o t /\ s \in Seq(S) /\ t \in Seq(S)
    BY <1>1, <1>2, <2>1
  <2>3. Found(m + 1) = Found(m) \cup {l + j : j \in In}
    <3>1. Found(m) = {j \in DOMAIN s : s[j] \in X} /\ In = {i \in DOMAIN t : t[i] \in X}
      OBVIOUS
    <3>2. Found(m + 1) = {j \in DOMAIN (s \o t) : (s \o t)[j] \in X}
      BY <2>2
    <3>3. s \in Seq(S) /\ t \in Seq(S)
      BY <2>2
    <3> HIDE DEF s, t, Found, In
    <3>4. ASSUME NEW A, A = Found(m), NEW B, B = In, NEW C, C = Found(m + 1)
          PROVE  C = A \cup {Len(s) + j : j \in B}
      <4>1. /\ A = {j \in DOMAIN s : s[j] \in X}
            /\ B = {i \in DOMAIN t : t[i] \in X}
            /\ C = {j \in DOMAIN (s \o t) : (s \o t)[j] \in X}
        BY <3>1, <3>2, <3>4
      <4> QED BY <3>3, <4>1, ConcatHas
    <3> QED BY <3>4 DEF l
  <2>4. /\ \A j \in DOMAIN s : flat[m + 1][j] = s[j]
        /\ \A j \in DOMAIN t : flat[m + 1][l + j] = t[j]
    <3> HIDE DEF s, t
    <3> QED BY <2>2, ConcatIs DEF l
  <2>5. In = IF m + 1 = part THEN DOMAIN t ELSE {}
    BY <1>2, <2>1 DEF OnlyIn
  <2>6. CASE m + 1 < part
    <3>1. Before(m)
      <4> HIDE DEF Found, a, b
      <4> QED BY <1>3, <1>5, <2>6
    <3>2. In = {}
      BY <1>3, <2>5, <2>6
    <3>3. Found(m + 1) = {}
      <4> HIDE DEF Found, In
      <4> QED BY <2>3, <3>1, <3>2 DEF Before
    <3> QED BY <2>6, <3>3
  <2>7. CASE m + 1 = part
    <3>1. Before(m) /\ m = part - 1
      <4> HIDE DEF Found, a, b
      <4> QED BY <1>3, <1>5, <2>7
    <3>2. l = a /\ In = 1 .. b /\ t = seqs[part]
      BY <1>3, <2>5, <2>7, <3>1
    <3>3. Found(m + 1) = {a + j : j \in 1 .. b}
      <4> HIDE DEF Found, In, l, a, b
      <4> QED BY <2>3, <3>1, <3>2 DEF Before
    <3> HIDE DEF a, b, Found, l, In, t, s
    <3>4. {a + j : j \in 1 .. b} = a + 1 .. a + b
      <4>1. \A x \in a + 1 .. a + b : x - a \in 1 .. b /\ x = a + (x - a)
        BY <1>3
      <4>2. \A j \in 1 .. b : a + j \in a + 1 .. a + b
        BY <1>3
      <4> QED BY <4>1, <4>2
    <3>5. \A i \in 1 .. b : flat[m + 1][a + i] = seqs[part][i]
      BY <1>3, <2>4, <3>2
    <3>6. m + 1 >= part
      BY <1>3, <2>7
    <3> QED BY <3>3, <3>4, <3>5, <3>6
  <2>8. CASE m + 1 > part
    <3>1. After(m) /\ m + 1 # part /\ m + 1 >= part
      <4> HIDE DEF Found, a, b
      <4> QED BY <1>3, <1>5, <2>8
    <3>2. In = {}
      BY <2>5, <3>1
    <3>3. Found(m + 1) = a + 1 .. a + b
      <4>1. Found(m) = a + 1 .. a + b
        BY <3>1
      <4>2. {l + j : j \in In} = {}
        BY <3>2
      <4> HIDE DEF Found, In, a, b, After, l
      <4> QED BY <2>3, <4>1, <4>2
    <3>4. ASSUME NEW i \in 1 .. b
          PROVE  flat[m + 1][a + i] = seqs[part][i]
      <4>1. a + i \in a + 1 .. a + b
        <5> HIDE DEF a, b
        <5> QED BY <1>3
      <4>2. a + i \in DOMAIN s /\ s[a + i] = seqs[part][i]
        <5>1. a + i \in Found(m) /\ flat[m][a + i] = seqs[part][i]
          <6> HIDE DEF Found, a, b
          <6> QED BY <3>1, <4>1 DEF After
        <5> QED BY <5>1
      <4> HIDE DEF a, b, s
      <4> QED BY <2>4, <4>2
    <3> HIDE DEF Found, a, b
    <3> QED BY <3>1, <3>3, <3>4
  <2> HIDE DEF Before, After
  <2>9. m + 1 < part \/ m + 1 = part \/ m + 1 > part
    BY <1>3
  <2> QED BY <2>6, <2>7, <2>8, <2>9
<1>6. ASSUME NEW m \in Nat, m < n, m \in T PROVE m + 1 \in T
  <2>1. m + 1 \in 0 .. n
    BY <1>2, <1>6
  <2> HIDE DEF Before, After
  <2> QED BY <1>5, <1>6, <2>1
<1> HIDE DEF T
<1>7. n \in T
  <2>1. \A k \in 0 .. n : k \in T
    BY <1>2, <1>4, <1>6, UpTo
  <2> QED BY <1>2, <2>1
<1>8. After(n)
  <2>1. ~Before(n)
    BY <1>2, <1>3
  <2> HIDE DEF Before, After
  <2> QED BY <1>7, <2>1 DEF T
<1> DEFINE F == FlattenSeq(seqs)
           I == {j \in DOMAIN F : F[j] \in X}
<1>9. I = a + 1 .. a + b /\ \A i \in 1 .. b : F[a + i] = seqs[part][i]
  BY <1>1, <1>8
<1> HIDE DEF a, b, Found, F, I
<1>10. /\ DOMAIN Ascending(I) = 1 .. b
       /\ \A k \in 1 .. b : Ascending(I)[k] = a + k
  BY <1>3, <1>9, AscendingRun
<1>11. Picked(F, I) = [k \in 1 .. b |-> seqs[part][k]]
  BY <1>9, <1>10 DEF Picked
<1>12. seqs[part] = [k \in 1 .. b |-> seqs[part][k]]
  BY <1>3
<1>13. I = InSet(FlattenSeq(seqs), X)
  BY DEF I, F, InSet
<1> HIDE DEF I
<1> QED BY <1>11, <1>12, <1>13 DEF F

----------------------------------------------------------------------------
(* The history of a scenario *)

\* The tick that every lane has in the frame.
SceneTick(scenario, n) == IF n = 0 THEN 0 ELSE scenario.frames[n].tick

GivenFrames == [tick : Nat, receipts : Seq(GivenReceipts), emissions : Seq(GivenEmissions)]

LEMMA ScenarioGiven ==
  ASSUME NEW scenario, IsScenario(scenario)
  PROVE  /\ IsSequence(scenario.lanes) /\ scenario.lanes # <<>>
         /\ \A i, j \in DOMAIN scenario.lanes :
              scenario.lanes[i].id = scenario.lanes[j].id => i = j
         /\ scenario.kind # "GIT_WARP"
         /\ scenario.frames \in Seq(GivenFrames)
         /\ Len(scenario.frames) \in Nat /\ DOMAIN scenario.frames = 1 .. Len(scenario.frames)
         /\ \A n \in DOMAIN scenario.frames :
              /\ scenario.frames[n].receipts \in Seq(GivenReceipts)
              /\ scenario.frames[n].emissions \in Seq(GivenEmissions)
<1>1. scenario.lanes \in Seq(GivenLanes) /\ scenario.frames \in Seq(GivenFrames)
  BY DEF IsScenario, GivenFrames
<1>2. IsSequence(scenario.lanes)
  BY <1>1, SequencesAre
<1>3. scenario.kind # "GIT_WARP"
  BY DEF IsScenario
<1>4. /\ Len(scenario.frames) \in Nat /\ DOMAIN scenario.frames = 1 .. Len(scenario.frames)
      /\ \A n \in DOMAIN scenario.frames : scenario.frames[n] \in GivenFrames
  BY <1>1, SequencesAre DEF IsSequence
<1>5. \A frame \in GivenFrames : /\ frame.receipts \in Seq(GivenReceipts)
                                 /\ frame.emissions \in Seq(GivenEmissions)
  BY DEF GivenFrames
<1> QED BY <1>1, <1>2, <1>3, <1>4, <1>5 DEF IsScenario

LEMMA ScenarioFrames ==
  ASSUME NEW scenario, IsScenario(scenario)
  PROVE  LET past    == ScenarioHistory(scenario)
             last    == Len(scenario.frames)
             catalog == scenario.lanes
         IN  /\ past.lanes = catalog
             /\ DOMAIN past.frames = 0 .. last /\ DOMAIN past.receipts = 0 .. last
             /\ \A n \in 0 .. last :
                  DOMAIN past.frames[n] = DOMAIN catalog /\ IsSequence(past.frames[n])
             /\ \A n \in 0 .. last : \A k \in DOMAIN catalog :
                  /\ past.frames[n][k].lane = catalog[k].id
                  /\ past.frames[n][k].tick = SceneTick(scenario, n)
                  /\ past.frames[n][k].changed <=>
                       /\ n # 0
                       /\ \E i \in DOMAIN scenario.frames[n].receipts :
                            scenario.frames[n].receipts[i].lane = catalog[k].id
             /\ past.receipts[0] = <<>> /\ past.emissions[0] = <<>>
             /\ past.observations[0] = <<>>
             /\ \A n \in 1 .. last :
                  /\ past.receipts[n] = ScenarioReceipts(scenario.frames, n)
                  /\ past.emissions[n] = ScenarioEmissions(scenario.frames, n)
                  /\ past.observations[n] = ScenarioObservations(scenario.frames, n)
<1> DEFINE past    == ScenarioHistory(scenario)
           last    == Len(scenario.frames)
           catalog == scenario.lanes
           given   == scenario.frames
<1>1. IsSequence(catalog) /\ last \in Nat
  BY ScenarioGiven
<1>2. /\ past.lanes = catalog
      /\ past.frames = [n \in 0 .. last |->
           IF n = 0 THEN Genesis(catalog) ELSE ScenarioFrame(catalog, given[n])]
      /\ past.receipts = [n \in 0 .. last |->
           IF n = 0 THEN <<>> ELSE ScenarioReceipts(given, n)]
      /\ past.emissions = [n \in 0 .. last |->
           IF n = 0 THEN <<>> ELSE ScenarioEmissions(given, n)]
      /\ past.observations = [n \in 0 .. last |->
           IF n = 0 THEN <<>> ELSE ScenarioObservations(given, n)]
  BY DEF ScenarioHistory
<1> HIDE DEF past, last, catalog, given
<1>3. \A n \in 0 .. last : n = 0 \/ (n \in 1 .. last /\ n # 0)
  BY <1>1
<1>4. 0 \in 0 .. last /\ \A n \in 1 .. last : n \in 0 .. last /\ n # 0
  BY <1>1
<1>5. past.frames[0] = [k \in DOMAIN catalog |-> LaneView(catalog[k].id, 0, FALSE, NoDigest)]
  BY <1>2, <1>4 DEF Genesis
<1> DEFINE Scene(n, k) ==
             LaneView(catalog[k].id, given[n].tick,
                      \E receipt \in ToSet(given[n].receipts) : receipt.lane = catalog[k].id,
                      NoDigest)
<1>6. ASSUME NEW n \in 1 .. last
      PROVE  past.frames[n] = [k \in DOMAIN catalog |-> Scene(n, k)]
  BY <1>2, <1>4 DEF ScenarioFrame
<1>7. ASSUME NEW n \in 0 .. last
      PROVE  DOMAIN past.frames[n] = DOMAIN catalog /\ IsSequence(past.frames[n])
  <2>1. \E f : past.frames[n] = [k \in DOMAIN catalog |-> f[k]]
    <3>1. CASE n = 0
      BY <1>5, <3>1
    <3>2. CASE n \in 1 .. last
      BY <1>6, <3>2
    <3> QED BY <1>3, <3>1, <3>2
  <2>2. PICK f : past.frames[n] = [k \in DOMAIN catalog |-> f[k]]
    BY <2>1
  <2> QED BY <1>1, <2>2, MappedIs
<1>8. ASSUME NEW n \in 0 .. last, NEW k \in DOMAIN catalog
      PROVE  /\ past.frames[n][k].lane = catalog[k].id
             /\ past.frames[n][k].tick = SceneTick(scenario, n)
             /\ past.frames[n][k].changed <=>
                  /\ n # 0
                  /\ \E i \in DOMAIN given[n].receipts : given[n].receipts[i].lane = catalog[k].id
  <2>1. CASE n = 0
    BY <1>5, <2>1 DEF LaneView, SceneTick
  <2>2. CASE n \in 1 .. last /\ n # 0
    <3> DEFINE changed == \E receipt \in ToSet(given[n].receipts) : receipt.lane = catalog[k].id
    <3>1. /\ past.frames[n][k].lane = catalog[k].id
          /\ past.frames[n][k].tick = given[n].tick
          /\ past.frames[n][k].changed = changed
      <4>1. past.frames[n][k] = Scene(n, k)
        <5> HIDE DEF Scene
        <5> QED BY <1>6, <2>2
      <4>2. past.frames[n][k] = LaneView(catalog[k].id, given[n].tick, changed, NoDigest)
        BY <4>1, Zenon
      <4> HIDE DEF changed
      <4> QED BY <4>2 DEF LaneView
    <3>2. changed <=> \E i \in DOMAIN given[n].receipts : given[n].receipts[i].lane = catalog[k].id
      BY DEF ToSet
    <3> HIDE DEF changed
    <3> QED BY <2>2, <3>1, <3>2 DEF SceneTick, given
  <2> QED BY <1>3, <2>1, <2>2
<1>9. DOMAIN past.frames = 0 .. last /\ DOMAIN past.receipts = 0 .. last
  BY <1>2
<1>10. past.receipts[0] = <<>> /\ past.emissions[0] = <<>> /\ past.observations[0] = <<>>
  BY <1>2, <1>4
<1>11. \A n \in 1 .. last : /\ past.receipts[n] = ScenarioReceipts(given, n)
                            /\ past.emissions[n] = ScenarioEmissions(given, n)
                            /\ past.observations[n] = ScenarioObservations(given, n)
  BY <1>2, <1>4
<1>12. past.lanes = catalog
  BY <1>2
<1> QED BY <1>7, <1>8, <1>9, <1>10, <1>11, <1>12 DEF past, last, catalog, given

\* What the frames before hold is counted.
LEMMA EarlierIs ==
  ASSUME NEW scenario, IsScenario(scenario), NEW n \in DOMAIN scenario.frames
  PROVE  /\ Earlier(scenario.frames, n, "receipts") \in Nat
         /\ Earlier(scenario.frames, n, "emissions") \in Nat
<1> DEFINE given == scenario.frames
<1>1. /\ n - 1 \in Nat
      /\ \A i \in 1 .. n - 1 : /\ Len(given[i].receipts) \in Nat
                               /\ Len(given[i].emissions) \in Nat
  <2>1. n - 1 \in Nat /\ \A i \in 1 .. n - 1 : i \in DOMAIN given
    BY ScenarioGiven
  <2> QED BY <2>1, ScenarioGiven, LenProperties
<1> HIDE DEF given
<1>2. ASSUME NEW f, f \in [1 .. n - 1 -> Nat]
      PROVE  Total(f) \in Nat
  <2>1. f \in Seq(Nat)
    BY <1>1, <1>2
  <2> QED BY <2>1, TotalIs
<1>3. [i \in 1 .. n - 1 |-> Len(given[i].receipts)] \in [1 .. n - 1 -> Nat]
  BY <1>1
<1>4. [i \in 1 .. n - 1 |-> Len(given[i].emissions)] \in [1 .. n - 1 -> Nat]
  BY <1>1
<1>5. Earlier(given, n, "receipts") \in Nat
  BY <1>2, <1>3 DEF Earlier
<1>6. Earlier(given, n, "emissions") \in Nat
  BY <1>2, <1>4 DEF Earlier
<1> QED BY <1>5, <1>6 DEF given

\* What a frame of a scenario holds: each receipt and each emission it was given, on
\* the lane it was given for.
LEMMA ScenarioHolds ==
  ASSUME NEW scenario, IsScenario(scenario), NEW n \in DOMAIN scenario.frames
  PROVE  LET given == scenario.frames[n]
             told  == ScenarioReceipts(scenario.frames, n)
             sent  == ScenarioEmissions(scenario.frames, n)
         IN  /\ IsSequence(told) /\ DOMAIN told = DOMAIN given.receipts
             /\ \A k \in DOMAIN told :
                  /\ told[k].lane = given.receipts[k].lane
                  /\ told[k].counts = given.receipts[k].counts
                  /\ told[k].input = SceneTick(scenario, n - 1)
                  /\ told[k].output = SceneTick(scenario, n)
             /\ IsSequence(sent) /\ DOMAIN sent = DOMAIN given.emissions
             /\ \A k \in DOMAIN sent :
                  sent[k].id \in Nat /\ sent[k].lane = given.emissions[k].lane
             /\ \A k, l \in DOMAIN sent : sent[k].id = sent[l].id => k = l
<1> DEFINE frames == scenario.frames
           given  == scenario.frames[n]
           told   == ScenarioReceipts(frames, n)
           sent   == ScenarioEmissions(frames, n)
           r      == Earlier(frames, n, "receipts")
           e      == Earlier(frames, n, "emissions")
           input  == IF n = 1 THEN 0 ELSE frames[n - 1].tick
<1>1. IsSequence(given.receipts) /\ IsSequence(given.emissions)
  BY ScenarioGiven, SequencesAre
<1>2. n \in Nat /\ n # 0
  BY ScenarioGiven
<1>3. r \in Nat /\ e \in Nat
  BY EarlierIs
<1>4. told = [k \in DOMAIN given.receipts |->
                Receipt(r + k, given.receipts[k].lane, input, given.tick,
                        given.receipts[k].counts, NoDigest)]
  BY DEF ScenarioReceipts
<1>5. sent = [k \in DOMAIN given.emissions |->
                [id |-> e + k, lane |-> given.emissions[k].lane,
                 kind |-> given.emissions[k].kind]]
  BY DEF ScenarioEmissions
<1>6. input = SceneTick(scenario, n - 1) /\ given.tick = SceneTick(scenario, n)
  BY <1>2 DEF SceneTick
<1> HIDE DEF frames, given, told, sent, r, e, input
<1>7. IsSequence(told) /\ DOMAIN told = DOMAIN given.receipts
  <2>1. told = [k \in DOMAIN given.receipts |-> told[k]]
    BY <1>4
  <2> QED BY <1>1, <2>1, MappedIs
<1>8. \A k \in DOMAIN told : /\ told[k].lane = given.receipts[k].lane
                             /\ told[k].counts = given.receipts[k].counts
                             /\ told[k].input = SceneTick(scenario, n - 1)
                             /\ told[k].output = SceneTick(scenario, n)
  BY <1>4, <1>6 DEF Receipt
<1>9. IsSequence(sent) /\ DOMAIN sent = DOMAIN given.emissions
  <2>1. sent = [k \in DOMAIN given.emissions |-> sent[k]]
    BY <1>5
  <2> QED BY <1>1, <2>1, MappedIs
<1>10. ASSUME NEW k \in DOMAIN sent
       PROVE  k \in Nat /\ sent[k].id = e + k /\ sent[k].lane = given.emissions[k].lane
  <2>1. k \in Nat
    BY <1>9 DEF IsSequence
  <2> QED BY <1>5, <2>1
<1>11. \A k, l \in DOMAIN sent : sent[k].id = sent[l].id => k = l
  BY <1>3, <1>10
<1>12. \A k \in DOMAIN sent : sent[k].id \in Nat /\ sent[k].lane = given.emissions[k].lane
  BY <1>3, <1>10
<1> QED BY <1>7, <1>8, <1>9, <1>11, <1>12 DEF frames, given, told, sent

LEMMA ScenarioObserves ==
  ASSUME NEW scenario, IsScenario(scenario), NEW n \in DOMAIN scenario.frames
  PROVE  IsSequence(ScenarioObservations(scenario.frames, n))
<1> DEFINE given == scenario.frames[n].emissions
           sent  == ScenarioEmissions(scenario.frames, n)
           S     == [emission : Nat, sink : STRING, outcome : STRING]
           Told(k) == [d \in DOMAIN given[k].deliveries |->
                         [emission |-> sent[k].id,
                          sink     |-> given[k].deliveries[d].sink,
                          outcome  |-> given[k].deliveries[d].outcome]]
           parts == [k \in DOMAIN sent |-> Told(k)]
<1>1. /\ IsSequence(sent) /\ DOMAIN sent = DOMAIN given
      /\ \A k \in DOMAIN sent : sent[k].id \in Nat
  BY ScenarioHolds
<1>2. \A k \in DOMAIN given : given[k] \in GivenEmissions
  BY ScenarioGiven, SequencesAre
<1> HIDE DEF given, sent
<1>3. ASSUME NEW k \in DOMAIN sent
      PROVE  Told(k) \in Seq(S)
  <2> DEFINE list == given[k].deliveries
             D    == [sink : STRING, outcome : STRING]
  <2>1. list \in Seq(D)
    BY <1>1, <1>2 DEF GivenEmissions
  <2>2. IsSequence(list) /\ \A d \in DOMAIN list : list[d].sink \in STRING /\ list[d].outcome \in STRING
    <3>1. \A x \in D : x.sink \in STRING /\ x.outcome \in STRING
      OBVIOUS
    <3> HIDE DEF list, D
    <3> QED BY <2>1, <3>1, SequencesAre
  <2> DEFINE told == [d \in DOMAIN list |-> [emission |-> sent[k].id, sink |-> list[d].sink,
                                             outcome |-> list[d].outcome]]
  <2>3. \A d \in DOMAIN told : told[d] \in S
    BY <1>1, <2>2
  <2>4. IsSequence(told)
    <3> HIDE DEF told, list
    <3>1. told = [d \in DOMAIN list |-> told[d]]
      BY DEF told
    <3> QED BY <2>2, <3>1, MappedIs
  <2>5. told = Told(k)
    OBVIOUS
  <2> HIDE DEF told, S, Told
  <2> QED BY <2>3, <2>4, <2>5, SequenceOf
<1>4. parts \in Seq(Seq(S))
  <2> HIDE DEF Told, S
  <2>1. \A k \in DOMAIN parts : parts[k] \in Seq(S)
    BY <1>3
  <2>2. IsSequence(parts)
    <3>1. parts = [k \in DOMAIN sent |-> parts[k]]
      OBVIOUS
    <3> HIDE DEF parts
    <3> QED BY <1>1, <3>1, MappedIs
  <2> HIDE DEF parts
  <2> QED BY <2>1, <2>2, SequenceOf
<1>5. ScenarioObservations(scenario.frames, n) = FlattenSeq(parts)
  BY DEF ScenarioObservations, given, sent
<1> HIDE DEF parts, S
<1>6. FlattenSeq(parts) \in Seq(S)
  BY <1>4, FlattenHas
<1> QED BY <1>5, <1>6, SequencesAre

LEMMA ScenarioListed ==
  ASSUME NEW scenario, IsScenario(scenario), Builds(scenario)
  PROVE  Listed(ScenarioHistory(scenario))
<1> DEFINE past   == ScenarioHistory(scenario)
           last   == Len(scenario.frames)
           frames == scenario.frames
<1>1. /\ IsSequence(scenario.lanes) /\ scenario.lanes # <<>>
      /\ \A i, j \in DOMAIN scenario.lanes :
           scenario.lanes[i].id = scenario.lanes[j].id => i = j
      /\ last \in Nat /\ DOMAIN frames = 1 .. last
      /\ \A n \in DOMAIN frames : /\ frames[n].receipts \in Seq(GivenReceipts)
                                  /\ frames[n].emissions \in Seq(GivenEmissions)
  BY ScenarioGiven
<1>2. /\ past.lanes = scenario.lanes
      /\ DOMAIN past.frames = 0 .. last /\ DOMAIN past.receipts = 0 .. last
      /\ \A n \in 0 .. last :
           DOMAIN past.frames[n] = DOMAIN scenario.lanes /\ IsSequence(past.frames[n])
      /\ \A n \in 0 .. last : \A k \in DOMAIN scenario.lanes :
           past.frames[n][k].lane = scenario.lanes[k].id
      /\ past.receipts[0] = <<>> /\ past.emissions[0] = <<>> /\ past.observations[0] = <<>>
      /\ \A n \in 1 .. last : /\ past.receipts[n] = ScenarioReceipts(frames, n)
                              /\ past.emissions[n] = ScenarioEmissions(frames, n)
                              /\ past.observations[n] = ScenarioObservations(frames, n)
  BY ScenarioFrames
<1>3. ASSUME NEW n \in 1 .. last
      PROVE  /\ \A k \in DOMAIN frames[n].receipts :
                  /\ frames[n].receipts[k].lane \in Ids(scenario.lanes)
                  /\ frames[n].receipts[k].counts \in
                       [admitted : Nat, rejected : Nat, counterfactual : Nat]
             /\ \A k \in DOMAIN frames[n].emissions :
                  frames[n].emissions[k].lane \in Ids(scenario.lanes)
  <2>1. /\ \A k \in DOMAIN frames[n].receipts : frames[n].receipts[k] \in GivenReceipts
        /\ \A k \in DOMAIN frames[n].receipts : frames[n].receipts[k] \in ToSet(frames[n].receipts)
        /\ \A k \in DOMAIN frames[n].emissions :
             frames[n].emissions[k] \in ToSet(frames[n].emissions)
    BY <1>1, SequencesAre DEF ToSet
  <2>2. frames[n] \in ToSet(frames)
    BY <1>1 DEF ToSet
  <2>3. \A frame \in ToSet(frames) :
          /\ \A receipt \in ToSet(frame.receipts) : receipt.lane \in Ids(scenario.lanes)
          /\ \A emission \in ToSet(frame.emissions) : emission.lane \in Ids(scenario.lanes)
    BY DEF Builds, Declared, Ids
  <2>4. \A receipt \in GivenReceipts :
          receipt.counts \in [admitted : Nat, rejected : Nat, counterfactual : Nat]
    BY DEF GivenReceipts
  <2> HIDE DEF frames
  <2> QED BY <2>1, <2>2, <2>3, <2>4
<1> HIDE DEF past
<1>4. ASSUME NEW n \in 0 .. last
      PROVE  /\ IsSequence(past.receipts[n])
             /\ \A k \in DOMAIN past.receipts[n] :
                  /\ past.receipts[n][k].lane \in Ids(past.lanes)
                  /\ past.receipts[n][k].counts \in
                       [admitted : Nat, rejected : Nat, counterfactual : Nat]
             /\ IsSequence(past.emissions[n])
             /\ \A k \in DOMAIN past.emissions[n] : past.emissions[n][k].lane \in Ids(past.lanes)
             /\ \A k, l \in DOMAIN past.emissions[n] :
                  past.emissions[n][k].id = past.emissions[n][l].id => k = l
             /\ IsSequence(past.observations[n])
  <2>1. CASE n = 0
    <3>1. IsSequence(<<>>) /\ DOMAIN <<>> = {}
      BY DEF IsSequence
    <3>2. past.receipts[n] = <<>> /\ past.emissions[n] = <<>> /\ past.observations[n] = <<>>
      BY <1>2, <2>1
    <3> QED BY <3>1, <3>2
  <2>2. CASE n \in 1 .. last
    <3> DEFINE told == ScenarioReceipts(frames, n)
               sent == ScenarioEmissions(frames, n)
    <3>1. n \in DOMAIN scenario.frames
      BY <1>1, <2>2
    <3>2. /\ IsSequence(told) /\ DOMAIN told = DOMAIN frames[n].receipts
          /\ \A k \in DOMAIN told : /\ told[k].lane = frames[n].receipts[k].lane
                                    /\ told[k].counts = frames[n].receipts[k].counts
                                    /\ told[k].input = SceneTick(scenario, n - 1)
                                    /\ told[k].output = SceneTick(scenario, n)
          /\ IsSequence(sent) /\ DOMAIN sent = DOMAIN frames[n].emissions
          /\ \A k \in DOMAIN sent :
               sent[k].id \in Nat /\ sent[k].lane = frames[n].emissions[k].lane
          /\ \A k, l \in DOMAIN sent : sent[k].id = sent[l].id => k = l
      BY <3>1, ScenarioHolds, Zenon
    <3>3. IsSequence(past.observations[n])
      BY <1>2, <2>2, <3>1, ScenarioObserves
    <3>4. past.receipts[n] = told /\ past.emissions[n] = sent
      BY <1>2, <2>2
    <3> HIDE DEF told, sent, frames, last
    <3>5. \A k \in DOMAIN told :
            /\ told[k].lane \in Ids(past.lanes)
            /\ told[k].counts \in [admitted : Nat, rejected : Nat, counterfactual : Nat]
      BY <1>2, <1>3, <2>2, <3>2
    <3>6. \A k \in DOMAIN sent : sent[k].lane \in Ids(past.lanes)
      BY <1>2, <1>3, <2>2, <3>2
    <3> QED BY <3>2, <3>3, <3>4, <3>5, <3>6
  <2>3. n = 0 \/ n \in 1 .. last
    BY <1>1
  <2> QED BY <2>1, <2>2, <2>3
<1> HIDE DEF last, frames
<1>5. \A n \in 0 .. last : Len(past.frames[n]) = Len(past.lanes)
  <2> TAKE n \in 0 .. last
  <2>1. /\ Len(past.frames[n]) \in Nat /\ Len(past.lanes) \in Nat
        /\ 1 .. Len(past.frames[n]) = 1 .. Len(past.lanes)
    BY <1>1, <1>2 DEF IsSequence
  <2> QED BY <2>1
<1>6. \E end \in Nat : DOMAIN past.frames = 0 .. end /\ DOMAIN past.receipts = 0 .. end
  BY <1>1, <1>2
<1> QED BY <1>1, <1>2, <1>4, <1>5, <1>6 DEF Listed, past

LEMMA ContainsLane ==
  ASSUME NEW s, IsSequence(s), NEW id
  PROVE  Contains(LaneIds(s), id) <=> \E i \in DOMAIN s : s[i].lane = id
<1>1. DOMAIN LaneIds(s) = DOMAIN s /\ Len(LaneIds(s)) = Len(s)
  BY DEF LaneIds, IsSequence
<1>2. \A i \in DOMAIN s : LaneIds(s)[i] = s[i].lane
  BY DEF LaneIds
<1> QED BY <1>1, <1>2 DEF Contains, IsSequence

LEMMA ScenarioChains ==
  ASSUME IsScenario(host), Builds(host), history = ScenarioHistory(host),
         head \in DOMAIN history.frames
  PROVE  FramesChain
<1> DEFINE last == Len(host.frames)
<1>1. Listed(history)
  BY ScenarioListed
<1>2. last \in Nat /\ DOMAIN host.frames = 1 .. last /\ host.kind # "GIT_WARP"
  BY ScenarioGiven
<1>3. /\ history.lanes = host.lanes
      /\ DOMAIN history.frames = 0 .. last /\ DOMAIN history.receipts = 0 .. last
      /\ \A n \in 0 .. last : DOMAIN history.frames[n] = DOMAIN host.lanes
      /\ \A n \in 0 .. last : \A k \in DOMAIN host.lanes :
           /\ history.frames[n][k].lane = host.lanes[k].id
           /\ history.frames[n][k].tick = SceneTick(host, n)
           /\ history.frames[n][k].changed <=>
                /\ n # 0
                /\ \E i \in DOMAIN host.frames[n].receipts :
                     host.frames[n].receipts[i].lane = host.lanes[k].id
      /\ history.receipts[0] = <<>>
      /\ \A n \in 1 .. last : history.receipts[n] = ScenarioReceipts(host.frames, n)
  BY ScenarioFrames
<1>4. \A n \in 0 .. last : \A id \in Ids(history.lanes) : TickOf(n, id) = SceneTick(host, n)
  BY <1>1, <1>3, TickOfIs, OfLanes
<1>5. ASSUME head \in 1 .. last
      PROVE  /\ DOMAIN receipts = DOMAIN host.frames[head].receipts
             /\ \A k \in DOMAIN receipts :
                  /\ receipts[k].lane = host.frames[head].receipts[k].lane
                  /\ receipts[k].lane \in Ids(history.lanes)
                  /\ receipts[k].input = SceneTick(host, head - 1)
                  /\ receipts[k].output = SceneTick(host, head)
  <2>1. head \in DOMAIN host.frames /\ receipts = ScenarioReceipts(host.frames, head)
    BY <1>2, <1>3, <1>5 DEF receipts
  <2>2. \A k \in DOMAIN receipts : receipts[k].lane \in Ids(history.lanes)
    BY <1>1 DEF Listed, receipts
  <2> QED BY <2>1, <2>2, ScenarioHolds
<1> HIDE DEF last
<1>6. head = 0 \/ (head \in 1 .. last /\ head # 0 /\ head - 1 \in 0 .. last /\ head \in 0 .. last)
  BY <1>2, <1>3
<1>7. head = 0 => DOMAIN receipts = {}
  BY <1>3 DEF receipts
<1>8. ASSUME NEW k \in DOMAIN receipts
      PROVE  /\ receipts[k].output = TickOf(head, receipts[k].lane)
             /\ receipts[k].input = TickOf(head - 1, receipts[k].lane)
  BY <1>4, <1>5, <1>6, <1>7
<1>9. ASSUME NEW view \in ToSet(lanes)
      PROVE  view.changed <=> Contains(LaneIds(receipts), view.lane)
  <2>1. head \in 0 .. last
    BY <1>3
  <2>2. PICK k \in DOMAIN host.lanes : view = history.frames[head][k]
    BY <1>3, <1>9, <2>1 DEF lanes, ToSet
  <2>3. /\ view.lane = host.lanes[k].id
        /\ view.changed <=> head # 0 /\ \E i \in DOMAIN host.frames[head].receipts :
                                          host.frames[head].receipts[i].lane = host.lanes[k].id
    BY <1>3, <2>1, <2>2
  <2>4. IsSequence(receipts)
    BY <1>1 DEF Listed, receipts
  <2>5. Contains(LaneIds(receipts), view.lane) <=> \E i \in DOMAIN receipts : receipts[i].lane = view.lane
    BY <2>4, ContainsLane
  <2> QED BY <1>5, <1>6, <1>7, <2>3, <2>5
<1> QED BY <1>2, <1>8, <1>9 DEF FramesChain

----------------------------------------------------------------------------
(* The Echo fixture *)

LEMMA EchoFrames ==
  LET past == EchoHistory
  IN  /\ past.lanes = EchoLanes
      /\ DOMAIN past.frames = 0 .. 2 /\ DOMAIN past.receipts = 0 .. 2
      /\ past.frames[0] = <<LaneView("wl:main", 0, FALSE, NoDigest),
                            LaneView("ws:sandbox", 0, FALSE, NoDigest)>>
      /\ past.frames[1] = <<LaneView("wl:main", 1, TRUE, "btr:echo:main:0001"),
                            LaneView("ws:sandbox", 0, FALSE, NoDigest)>>
      /\ past.frames[2] = <<LaneView("wl:main", 1, FALSE, NoDigest),
                            LaneView("ws:sandbox", 1, TRUE, "btr:echo:sandbox:0001")>>
      /\ past.receipts[0] = <<>>
      /\ past.receipts[1] =
           <<Receipt("main:0001", "wl:main", 0, 1, Counts(2, 0, 0), "rcpt:main:0001")>>
      /\ past.receipts[2] =
           <<Receipt("sandbox:0001", "ws:sandbox", 0, 1, Counts(1, 1, 1), "rcpt:sandbox:0001")>>
      /\ past.emissions[0] = <<>> /\ past.observations[0] = <<>>
      /\ past.emissions[1] = <<[id |-> 1, lane |-> "wl:main", kind |-> "diagnostic"]>>
      /\ past.emissions[2] = <<[id |-> 2, lane |-> "ws:sandbox", kind |-> "notification"]>>
      /\ \E a, b : past.observations[1] = <<a, b>>
      /\ \E a, b : past.observations[2] = <<a, b>>
<1> DEFINE past == EchoHistory
<1>1. /\ past.lanes = EchoLanes
      /\ DOMAIN past.frames = 0 .. 2 /\ DOMAIN past.receipts = 0 .. 2
  BY DEF EchoHistory
<1> DEFINE genesis == Genesis(EchoLanes)
           main    == <<LaneView("wl:main", 1, TRUE, "btr:echo:main:0001"),
                        LaneView("ws:sandbox", 0, FALSE, NoDigest)>>
           sandbox == <<LaneView("wl:main", 1, FALSE, NoDigest),
                        LaneView("ws:sandbox", 1, TRUE, "btr:echo:sandbox:0001")>>
<1>0. past.frames = [n \in 0 .. 2 |-> CASE n = 0 -> genesis [] n = 1 -> main [] n = 2 -> sandbox]
  BY DEF EchoHistory
<1>3. past.frames[0] = genesis /\ past.frames[1] = main /\ past.frames[2] = sandbox
  <2> HIDE DEF genesis, main, sandbox, past
  <2> QED BY <1>0
<1>2. genesis = <<LaneView("wl:main", 0, FALSE, NoDigest),
                  LaneView("ws:sandbox", 0, FALSE, NoDigest)>>
  <2>1. DOMAIN EchoLanes = 1 .. 2 /\ EchoLanes[1].id = "wl:main" /\ EchoLanes[2].id = "ws:sandbox"
    BY DEF EchoLanes, Lane
  <2> DEFINE View(id) == LaneView(id, 0, FALSE, NoDigest)
  <2>2. genesis = [k \in DOMAIN EchoLanes |-> View(EchoLanes[k].id)]
    BY DEF Genesis
  <2> HIDE DEF genesis, View
  <2>3. genesis = <<View("wl:main"), View("ws:sandbox")>>
    <3>1. /\ genesis = [k \in 1 .. 2 |-> genesis[k]]
          /\ genesis[1] = View("wl:main") /\ genesis[2] = View("ws:sandbox")
      BY <2>1, <2>2
    <3> DEFINE a == View("wl:main")
               b == View("ws:sandbox")
    <3> HIDE DEF a, b
    <3>2. genesis = <<a, b>>
      <4>1. genesis[1] = a /\ genesis[2] = b
        BY <3>1 DEF a, b
      <4>2. Len(<<a, b>>) = 2 /\ <<a, b>>[1] = a /\ <<a, b>>[2] = b
        OBVIOUS
      <4>3. <<a, b>> = [k \in 1 .. 2 |-> <<a, b>>[k]]
        OBVIOUS
      <4> QED BY <3>1, <4>1, <4>2, <4>3
    <3> QED BY <3>2 DEF a, b
  <2> QED BY <2>3 DEF View
<1>4. /\ past.receipts[0] = <<>>
      /\ past.receipts[1] =
           <<Receipt("main:0001", "wl:main", 0, 1, Counts(2, 0, 0), "rcpt:main:0001")>>
      /\ past.receipts[2] =
           <<Receipt("sandbox:0001", "ws:sandbox", 0, 1, Counts(1, 1, 1), "rcpt:sandbox:0001")>>
  BY DEF EchoHistory
<1>5. past.emissions[0] = <<>> /\ past.observations[0] = <<>>
  BY DEF EchoHistory
<1>6. /\ past.emissions[1] = <<[id |-> 1, lane |-> "wl:main", kind |-> "diagnostic"]>>
      /\ past.emissions[2] = <<[id |-> 2, lane |-> "ws:sandbox", kind |-> "notification"]>>
  BY DEF EchoHistory
<1>7. (\E a, b : past.observations[1] = <<a, b>>) /\ (\E a, b : past.observations[2] = <<a, b>>)
  BY DEF EchoHistory
<1> HIDE DEF past
<1> QED BY <1>1, <1>2, <1>3, <1>4, <1>5, <1>6, <1>7 DEF past

LEMMA EchoListed == Listed(EchoHistory)
<1> DEFINE past == EchoHistory
<1>1. /\ past.lanes = EchoLanes
      /\ DOMAIN past.frames = 0 .. 2 /\ DOMAIN past.receipts = 0 .. 2
  BY EchoFrames
<1>2. /\ DOMAIN EchoLanes = 1 .. 2 /\ Len(EchoLanes) = 2 /\ IsSequence(EchoLanes)
      /\ EchoLanes # <<>>
      /\ EchoLanes[1].id = "wl:main" /\ EchoLanes[2].id = "ws:sandbox"
      /\ "wl:main" # "ws:sandbox"
  BY DEF EchoLanes, Lane, IsSequence
<1>3. Ids(EchoLanes) = {"wl:main", "ws:sandbox"}
  BY <1>2 DEF Ids, ToSet
<1>4. ASSUME NEW n \in 0 .. 2
      PROVE  /\ IsSequence(past.frames[n]) /\ Len(past.frames[n]) = 2
             /\ \A k \in 1 .. 2 : past.frames[n][k].lane = EchoLanes[k].id
  <2>1. PICK a, b : /\ past.frames[n] = <<a, b>>
                    /\ a.lane = "wl:main" /\ b.lane = "ws:sandbox"
    BY EchoFrames DEF LaneView
  <2> QED BY <1>2, <2>1 DEF IsSequence
<1>5. ASSUME NEW n \in 0 .. 2
      PROVE  /\ IsSequence(past.receipts[n])
             /\ \A k \in DOMAIN past.receipts[n] :
                  /\ past.receipts[n][k].lane \in {"wl:main", "ws:sandbox"}
                  /\ past.receipts[n][k].counts \in
                       [admitted : Nat, rejected : Nat, counterfactual : Nat]
  <2>1. CASE n = 0
    BY <2>1, EchoFrames DEF IsSequence
  <2>2. CASE n \in 1 .. 2
    <3>1. PICK r : /\ past.receipts[n] = <<r>>
                   /\ r.lane \in {"wl:main", "ws:sandbox"}
                   /\ r.counts \in [admitted : Nat, rejected : Nat, counterfactual : Nat]
      BY <2>2, EchoFrames DEF Receipt, Counts
    <3> QED BY <3>1 DEF IsSequence
  <2> QED BY <2>1, <2>2
<1>6. ASSUME NEW n \in 0 .. 2
      PROVE  /\ IsSequence(past.emissions[n])
             /\ \A k \in DOMAIN past.emissions[n] :
                  past.emissions[n][k].lane \in {"wl:main", "ws:sandbox"}
             /\ \A k, l \in DOMAIN past.emissions[n] :
                  past.emissions[n][k].id = past.emissions[n][l].id => k = l
             /\ IsSequence(past.observations[n])
  <2>1. CASE n = 0
    BY <2>1, EchoFrames DEF IsSequence
  <2>2. CASE n \in 1 .. 2
    <3>1. PICK e : past.emissions[n] = <<e>> /\ e.lane \in {"wl:main", "ws:sandbox"}
      <4>1. n = 1 \/ n = 2
        BY <2>2
      <4>2. /\ [id |-> 1, lane |-> "wl:main", kind |-> "diagnostic"].lane = "wl:main"
            /\ [id |-> 2, lane |-> "ws:sandbox", kind |-> "notification"].lane = "ws:sandbox"
        OBVIOUS
      <4> QED BY <4>1, <4>2, EchoFrames, Zenon
    <3>2. PICK a, b : past.observations[n] = <<a, b>>
      BY <2>2, EchoFrames
    <3> QED BY <3>1, <3>2 DEF IsSequence
  <2> QED BY <2>1, <2>2
<1>7. \E last \in Nat : DOMAIN past.frames = 0 .. last /\ DOMAIN past.receipts = 0 .. last
  BY <1>1
<1>8. \A i, j \in DOMAIN EchoLanes : EchoLanes[i].id = EchoLanes[j].id => i = j
  BY <1>2
<1> HIDE DEF past
<1> QED BY <1>1, <1>2, <1>3, <1>4, <1>5, <1>6, <1>7, <1>8 DEF Listed, past

LEMMA EchoChains ==
  ASSUME host.kind = "ECHO", history = EchoHistory, head \in DOMAIN history.frames
  PROVE  FramesChain
<1>1. Listed(history) /\ history.lanes = EchoLanes /\ DOMAIN history.frames = 0 .. 2
  BY EchoListed, EchoFrames
<1>2. DOMAIN EchoLanes = 1 .. 2 /\ EchoLanes[1].id = "wl:main" /\ EchoLanes[2].id = "ws:sandbox"
  BY DEF EchoLanes, Lane
<1>3. \A n \in 0 .. 2 : /\ TickOf(n, "wl:main") = history.frames[n][1].tick
                        /\ TickOf(n, "ws:sandbox") = history.frames[n][2].tick
  <2> TAKE n \in 0 .. 2
  <2>1. /\ 1 \in DOMAIN history.lanes /\ history.lanes[1].id = "wl:main"
        /\ 2 \in DOMAIN history.lanes /\ history.lanes[2].id = "ws:sandbox"
        /\ n \in DOMAIN history.frames
    BY <1>1, <1>2
  <2>2. TickOf(n, history.lanes[1].id) = history.frames[n][1].tick
    BY <1>1, <2>1, TickOfIs
  <2>3. TickOf(n, history.lanes[2].id) = history.frames[n][2].tick
    BY <1>1, <2>1, TickOfIs
  <2> QED BY <2>1, <2>2, <2>3
<1>4. /\ TickOf(0, "wl:main") = 0 /\ TickOf(1, "wl:main") = 1
      /\ TickOf(1, "ws:sandbox") = 0 /\ TickOf(2, "ws:sandbox") = 1
  BY <1>3, EchoFrames DEF LaneView
<1>5. head \in {0, 1, 2}
  BY <1>1
<1>6. \A id : Contains(LaneIds(receipts), id) <=> \E i \in DOMAIN receipts : receipts[i].lane = id
  <2>1. IsSequence(receipts)
    BY <1>1 DEF Listed, receipts
  <2> QED BY <2>1, ContainsLane
<1>7. CASE head = 0
  <2>1. receipts = <<>>
    BY <1>7, EchoFrames DEF receipts
  <2>2. \A view \in ToSet(lanes) : view.changed = FALSE
    BY <1>7, EchoFrames DEF lanes, ToSet, LaneView
  <2> QED BY <1>6, <2>1, <2>2 DEF FramesChain
<1>8. CASE head = 1
  <2>1. receipts = <<Receipt("main:0001", "wl:main", 0, 1, Counts(2, 0, 0), "rcpt:main:0001")>>
    BY <1>8, EchoFrames DEF receipts
  <2>2. \A i \in DOMAIN receipts :
          i = 1 /\ receipts[i].lane = "wl:main" /\ receipts[i].input = 0 /\ receipts[i].output = 1
    BY <2>1 DEF Receipt
  <2>3. \A view \in ToSet(lanes) : view.changed <=> view.lane = "wl:main"
    BY <1>8, EchoFrames DEF lanes, ToSet, LaneView
  <2>4. 1 \in DOMAIN receipts
    BY <2>1
  <2> QED BY <1>4, <1>6, <1>8, <2>2, <2>3, <2>4 DEF FramesChain
<1>9. CASE head = 2
  <2>1. receipts = <<Receipt("sandbox:0001", "ws:sandbox", 0, 1, Counts(1, 1, 1),
                             "rcpt:sandbox:0001")>>
    BY <1>9, EchoFrames DEF receipts
  <2>2. \A i \in DOMAIN receipts :
          i = 1 /\ receipts[i].lane = "ws:sandbox" /\ receipts[i].input = 0 /\ receipts[i].output = 1
    BY <2>1 DEF Receipt
  <2>3. \A view \in ToSet(lanes) : view.changed <=> view.lane = "ws:sandbox"
    BY <1>9, EchoFrames DEF lanes, ToSet, LaneView
  <2>4. 1 \in DOMAIN receipts
    BY <2>1
  <2> QED BY <1>4, <1>6, <1>9, <2>2, <2>3, <2>4 DEF FramesChain
<1> QED BY <1>5, <1>7, <1>8, <1>9

----------------------------------------------------------------------------
(* The head stays in the history of its host *)

HeadInv ==
  /\ host \in Hosts
  /\ history \in Histories(host)
  /\ head \in DOMAIN history.frames

\* What a host has for a history.
LEMMA HistoryOf ==
  ASSUME NEW given \in Hosts, NEW past \in Histories(given)
  PROVE  \/ IsGraph(given) /\ past = GitWarpHistory(given)
         \/ IsScenario(given) /\ Builds(given) /\ past = ScenarioHistory(given)
         \/ given.kind = "ECHO" /\ past = EchoHistory
<1>1. CASE IsGraph(given)
  <2>1. given.kind = "GIT_WARP"
    BY <1>1 DEF IsGraph
  <2>2. Histories(given) = {GitWarpHistory(given)}
    BY <2>1 DEF Histories
  <2> QED BY <1>1, <2>2
<1>2. CASE IsScenario(given)
  <2>1. given.kind = "SCENARIO"
    BY <1>2 DEF IsScenario
  <2>2. Histories(given) = {ScenarioHistory(s) : s \in {t \in {given} : Builds(t)}}
    BY <2>1 DEF Histories
  <2>3. PICK s \in {t \in {given} : Builds(t)} : past = ScenarioHistory(s)
    BY <2>2
  <2> QED BY <1>2, <2>3
<1>3. CASE given = [kind |-> "ECHO"]
  <2>1. given.kind = "ECHO"
    BY <1>3
  <2>2. Histories(given) = {EchoHistory}
    BY <2>1 DEF Histories
  <2> QED BY <2>1, <2>2
<1> QED BY <1>1, <1>2, <1>3, HostsAssumption

LEMMA HostsListed ==
  ASSUME NEW given \in Hosts, NEW past \in Histories(given)
  PROVE  Listed(past)
BY HistoryOf, GraphListed, ScenarioListed, EchoListed

LEMMA LastFrameIs ==
  ASSUME NEW last \in Nat, DOMAIN history.frames = 0 .. last
  PROVE  LastFrame = last
<1>1. \A x \in 0 .. last : (\A y \in 0 .. last : x >= y) <=> x = last
  OBVIOUS
<1>2. last \in 0 .. last
  OBVIOUS
<1>3. Max(0 .. last) = last
  BY <1>1, <1>2 DEF Max
<1> QED BY <1>3 DEF LastFrame

LEMMA HeadInvInit == Init => HeadInv
<1> SUFFICES ASSUME Init PROVE HeadInv
  OBVIOUS
<1>1. host \in Hosts /\ history \in Histories(host) /\ head = 0
  BY DEF Init
<1>2. PICK last \in Nat : DOMAIN history.frames = 0 .. last
  BY <1>1, HostsListed DEF Listed
<1> QED BY <1>1, <1>2 DEF HeadInv

LEMMA HeadInvStep == HeadInv /\ [Next]_vars => HeadInv'
<1> SUFFICES ASSUME HeadInv, [Next]_vars PROVE HeadInv'
  OBVIOUS
<1>1. host \in Hosts /\ history \in Histories(host) /\ head \in DOMAIN history.frames
  BY DEF HeadInv
<1>2. PICK last \in Nat : DOMAIN history.frames = 0 .. last
  BY <1>1, HostsListed DEF Listed
<1>3. LastFrame = last
  BY <1>2, LastFrameIs
<1>4. ASSUME NEW frame \in 0 .. last, MoveTo(frame)
      PROVE  HeadInv'
  BY <1>1, <1>2, <1>4 DEF MoveTo, HeadInv
<1>5. CASE StepForward
  <2>1. Playback!Forward(head) \in 0 .. last
    BY <1>1, <1>2, <1>3 DEF Playback!Forward, Playback!Lesser
  <2> QED BY <1>4, <1>5, <2>1 DEF StepForward
<1>6. CASE StepBackward
  <2>1. Playback!Backward(head) \in 0 .. last
    BY <1>1, <1>2, <1>3 DEF Playback!Backward, Playback!Greater
  <2> QED BY <1>4, <1>6, <2>1 DEF StepBackward
<1>7. CASE SeekToFrame
  <2>1. PICK requested \in Requests : MoveTo(Playback!Clamp(requested))
    BY <1>7 DEF SeekToFrame
  <2>2. requested \in Int
    BY RequestsAssumption
  <2>3. Playback!Clamp(requested) \in 0 .. last
    BY <1>3, <2>2 DEF Playback!Clamp, Playback!Greater, Playback!Lesser
  <2> QED BY <1>4, <2>1, <2>3
<1>8. CASE UNCHANGED vars
  BY <1>1, <1>8 DEF vars, HeadInv
<1> QED BY <1>5, <1>6, <1>7, <1>8 DEF Next

\* The head is always on a frame of the history that its host has
\* (stepForward, stepBackward and seekToFrame of the three adapters).
THEOREM HeadInvariant == Spec => []HeadInv
BY HeadInvInit, HeadInvStep, PTL DEF Spec

\* A receipt takes its lane from the tick it had in the frame before to the one it has
\* in its own, a lane is changed exactly when it has a receipt, and no patch of a graph
\* is lost, told twice or told out of the order of time: for every graph, scenario and
\* fixture a host can be made from (buildFrameIndex, resolveInputTick, toLaneFrameView,
\* populateFrameData).
THEOREM FramesTellTheHistory == Spec => []FramesChain
<1>1. HeadInv => FramesChain
  BY HistoryOf, GraphChains, ScenarioChains, EchoChains DEF HeadInv
<1> QED BY <1>1, HeadInvariant, PTL

----------------------------------------------------------------------------
(* What filter and concatenation leave of a sequence *)

LEMMA InItsRange ==
  ASSUME NEW s, IsSequence(s)
  PROVE  s \in Seq(ToSet(s))
BY SequenceOf DEF ToSet

LEMMA Joined ==
  ASSUME NEW s, IsSequence(s), NEW t, IsSequence(t)
  PROVE  /\ IsSequence(s \o t)
         /\ ToSet(s \o t) = ToSet(s) \cup ToSet(t)
<1> DEFINE S    == ToSet(s) \cup ToSet(t)
           both == s \o t
<1>1. s \in Seq(S) /\ t \in Seq(S)
  <2>1. \A i \in DOMAIN s : s[i] \in S
    BY DEF ToSet
  <2>2. \A i \in DOMAIN t : t[i] \in S
    BY DEF ToSet
  <2> HIDE DEF S
  <2> QED BY <2>1, <2>2, SequenceOf
<1> HIDE DEF S
<1>2. both \in Seq(S)
  BY <1>1
<1>3. /\ \A j \in DOMAIN s : j \in DOMAIN both /\ both[j] = s[j]
      /\ \A j \in DOMAIN t : Len(s) + j \in DOMAIN both /\ both[Len(s) + j] = t[j]
      /\ \A j \in DOMAIN both : j \in DOMAIN s \/ \E i \in DOMAIN t : j = Len(s) + i
  BY <1>1, ConcatIs
<1> HIDE DEF both
<1>4. IsSequence(both)
  BY <1>2, SequencesAre
<1>5. ToSet(both) = ToSet(s) \cup ToSet(t)
  BY <1>3 DEF ToSet
<1> QED BY <1>4, <1>5 DEF both

\* A filter that everything passes leaves the sequence as it is.
LEMMA PickedAll ==
  ASSUME NEW s, IsSequence(s)
  PROVE  Picked(s, DOMAIN s) = s
<1>1. Len(s) \in Nat /\ DOMAIN s = 0 + 1 .. 0 + Len(s)
  BY DEF IsSequence
<1> DEFINE I == DOMAIN s
<1>2. /\ DOMAIN Ascending(I) = 1 .. Len(s)
      /\ \A k \in 1 .. Len(s) : Ascending(I)[k] = k
  <2>1. /\ DOMAIN Ascending(0 + 1 .. 0 + Len(s)) = 1 .. Len(s)
        /\ \A k \in 1 .. Len(s) : Ascending(0 + 1 .. 0 + Len(s))[k] = 0 + k
    BY <1>1, AscendingRun
  <2>2. I = 0 + 1 .. 0 + Len(s)
    BY <1>1
  <2> HIDE DEF I
  <2> QED BY <2>1, <2>2
<1> HIDE DEF I
<1>3. Picked(s, I) = [k \in 1 .. Len(s) |-> s[k]]
  BY <1>2 DEF Picked
<1> QED BY <1>3 DEF IsSequence, I

\* Of each member the first is kept.
LEMMA DistinctIs ==
  ASSUME NEW s, IsSequence(s)
  PROVE  /\ IsSequence(Distinct(s))
         /\ ToSet(Distinct(s)) = ToSet(s)
         /\ Distinct(s) = <<>> <=> s = <<>>
<1> DEFINE I == {i \in DOMAIN s : \A j \in 1 .. i - 1 : s[j] # s[i]}
<1>1. I \in SUBSET DOMAIN s
  OBVIOUS
<1>2. ASSUME NEW i \in DOMAIN s
      PROVE  \E f \in I : s[f] = s[i]
  <2> DEFINE Same == {j \in DOMAIN s : s[j] = s[i]}
             f    == Min(Same)
  <2>1. Same \in SUBSET Nat /\ Same # {}
    BY DEF IsSequence
  <2>2. f \in Same /\ \A j \in Same : f <= j
    <3> HIDE DEF Same
    <3> QED BY <2>1, MinIsLeast
  <2> HIDE DEF f
  <2>3. ASSUME NEW j \in 1 .. f - 1
        PROVE  s[j] # s[f]
    <3>1. f \in Nat /\ f \in DOMAIN s /\ s[f] = s[i]
      BY <2>1, <2>2
    <3>2. j \in DOMAIN s /\ ~(f <= j)
      BY <3>1 DEF IsSequence
    <3> QED BY <2>2, <3>1, <3>2
  <2> QED BY <2>2, <2>3
<1> HIDE DEF I
<1>3. Distinct(s) = Picked(s, I)
  BY DEF Distinct, I
<1>4. /\ IsSequence(Picked(s, I))
      /\ Picked(s, I) = <<>> <=> I = {}
      /\ \A k \in DOMAIN Picked(s, I) : \E i \in I : Picked(s, I)[k] = s[i]
      /\ \A i \in I : \E k \in DOMAIN Picked(s, I) : Picked(s, I)[k] = s[i]
  BY <1>1, PickedIs
<1>5. ToSet(Picked(s, I)) = ToSet(s)
  BY <1>1, <1>2, <1>4 DEF ToSet
<1>6. s = <<>> <=> DOMAIN s = {}
  <2>1. s = <<>> => DOMAIN s = {}
    OBVIOUS
  <2>2. ASSUME DOMAIN s = {}
        PROVE  s = <<>>
    <3>1. Len(s) = 0
      BY <2>2 DEF IsSequence
    <3>2. s = [i \in 1 .. 0 |-> s[i]] /\ 1 .. 0 = {}
      BY <3>1 DEF IsSequence
    <3> QED BY <3>2
  <2> QED BY <2>1, <2>2
<1>7. I = {} <=> DOMAIN s = {}
  BY <1>1, <1>2
<1> QED BY <1>3, <1>4, <1>5, <1>6, <1>7

LEMMA LaneIdsAre ==
  ASSUME NEW s, IsSequence(s)
  PROVE  /\ IsSequence(LaneIds(s))
         /\ ToSet(LaneIds(s)) = {s[i].lane : i \in DOMAIN s}
<1>1. LaneIds(s) = [k \in DOMAIN s |-> s[k].lane]
  BY DEF LaneIds
<1> DEFINE t == LaneIds(s)
<1> HIDE DEF t
<1>2. t = [k \in DOMAIN s |-> t[k]] /\ \A k \in DOMAIN s : t[k] = s[k].lane
  BY <1>1 DEF t
<1>3. IsSequence(t) /\ DOMAIN t = DOMAIN s
  BY <1>2, MappedIs
<1>4. ToSet(t) = {s[i].lane : i \in DOMAIN s}
  BY <1>2, <1>3 DEF ToSet
<1> QED BY <1>3, <1>4 DEF t

----------------------------------------------------------------------------
(* The summaries of one frame *)

IsTold(told) ==
  /\ IsSequence(told)
  /\ \A k \in DOMAIN told :
       told[k].counts \in [admitted : Nat, rejected : Nat, counterfactual : Nat]

Rejected(told) == {k \in DOMAIN told : told[k].counts.rejected > 0}
Open(told)     == {k \in DOMAIN told : told[k].counts.counterfactual > 0}

LEMMA AlternativesAre ==
  ASSUME NEW told, IsTold(told)
  PROVE  LET alternatives == Alternatives(told)
         IN  /\ IsSequence(alternatives)
             /\ IsFiniteSet(Open(told)) /\ Len(alternatives) = Cardinality(Open(told))
             /\ alternatives = <<>> <=> Open(told) = {}
             /\ \A i \in DOMAIN alternatives : \E k \in DOMAIN told :
                  alternatives[i].id = told[k].id /\ alternatives[i].lane = told[k].lane
<1> DEFINE chosen == Picked(told, Open(told))
           alternatives == Alternatives(told)
<1>1. IsSequence(told) /\ Open(told) \in SUBSET DOMAIN told
  BY DEF IsTold, Open
<1>2. /\ IsFiniteSet(Open(told)) /\ IsSequence(chosen) /\ Len(chosen) = Cardinality(Open(told))
      /\ chosen = <<>> <=> Open(told) = {}
      /\ \A k \in DOMAIN chosen : \E i \in Open(told) : chosen[k] = told[i]
  BY <1>1, PickedIs
<1>3. alternatives = [k \in DOMAIN chosen |->
                        [id |-> chosen[k].id, lane |-> chosen[k].lane, outcome |-> "PENDING"]]
  BY DEF Alternatives, Where, Open
<1> HIDE DEF chosen, alternatives
<1>4. alternatives = [k \in DOMAIN chosen |-> alternatives[k]]
  BY <1>3
<1>5. IsSequence(alternatives) /\ Len(alternatives) = Len(chosen) /\ DOMAIN alternatives = DOMAIN chosen
  BY <1>2, <1>4, MappedIs
<1>6. alternatives = <<>> <=> chosen = <<>>
  <2>1. \A s : IsSequence(s) => (s = <<>> <=> Len(s) = 0)
    <3> TAKE s
    <3> HAVE IsSequence(s)
    <3>1. 1 .. 0 = {}
      OBVIOUS
    <3>2. Len(s) = 0 => s = [i \in 1 .. 0 |-> s[i]]
      BY DEF IsSequence
    <3>3. s = <<>> => Len(s) = 0
      OBVIOUS
    <3> QED BY <3>1, <3>2, <3>3
  <2> QED BY <1>2, <1>5, <2>1
<1>7. \A i \in DOMAIN alternatives :
        alternatives[i].id = chosen[i].id /\ alternatives[i].lane = chosen[i].lane
  BY <1>3
<1>8. \A i \in DOMAIN alternatives : \E k \in DOMAIN told :
        alternatives[i].id = told[k].id /\ alternatives[i].lane = told[k].lane
  BY <1>1, <1>2, <1>5, <1>7
<1> QED BY <1>2, <1>5, <1>6, <1>8 DEF alternatives

\* The outcome of a frame is that of the worst of its receipts.
LEMMA OutcomeIs ==
  ASSUME NEW told, IsTold(told)
  PROVE  /\ Outcome(told) = "OBSTRUCTED" <=> Rejected(told) # {}
         /\ Outcome(told) # "LAWFUL" <=> Rejected(told) # {} \/ Open(told) # {}
<1>1. (\E receipt \in ToSet(told) : Rejects(receipt)) <=> Rejected(told) # {}
  BY DEF ToSet, Rejects, Rejected
<1>2. Alternatives(told) # <<>> <=> Open(told) # {}
  BY AlternativesAre
<1>3. "OBSTRUCTED" # "LAWFUL" /\ "PENDING" # "LAWFUL" /\ "PENDING" # "OBSTRUCTED"
  OBVIOUS
<1> QED BY <1>1, <1>2, <1>3 DEF Outcome

\* A sum over a frame is a number, and more than nothing exactly when some receipt has it.
LEMMA SumsAre ==
  ASSUME NEW told, IsTold(told)
  PROVE  SumOf(told, "rejected") > 0 <=> Rejected(told) # {}
<1> DEFINE values == [k \in DOMAIN told |-> told[k].counts.rejected]
<1>1. IsSequence(told)
  BY DEF IsTold
<1>2. \A k \in DOMAIN told : told[k].counts.rejected \in Nat
  BY DEF IsTold
<1>3. values = [k \in DOMAIN told |-> values[k]] /\ \A k \in DOMAIN values : values[k] \in Nat
  BY <1>2
<1>4. SumOf(told, "rejected") = Total(values)
  BY DEF SumOf
<1>5. \A k \in DOMAIN told : values[k] = told[k].counts.rejected
  OBVIOUS
<1> HIDE DEF values
<1>6. IsSequence(values) /\ DOMAIN values = DOMAIN told
  BY <1>1, <1>3, MappedIs
<1>7. values \in Seq(Nat)
  BY <1>3, <1>6, SequenceOf
<1>8. Total(values) > 0 <=> \E k \in DOMAIN values : values[k] > 0
  BY <1>7, TotalIs
<1> QED BY <1>4, <1>5, <1>6, <1>8 DEF Rejected

LEMMA OneAndMore ==
  ASSUME NEW a, NEW b
  PROVE  <<a>> \o <<>> = <<a>> /\ <<a>> \o <<b>> = <<a, b>>
<1> DEFINE S == {a, b}
<1>1. <<a>> \in Seq(S) /\ <<b>> \in Seq(S)
  OBVIOUS
<1>2. <<a>> \o <<>> = <<a>>
  BY <1>1, ConcatEmptySeq
<1>3. <<a>> \o <<b>> = <<a, b>>
  <2>1. <<a, b>> = Append(<<a>>, b)
    OBVIOUS
  <2>2. b \in S
    OBVIOUS
  <2> QED BY <1>1, <2>1, <2>2, AppendIsConcat
<1> QED BY <1>2, <1>3

\* What a receipt obliges to: that it is admitted and, when it leaves alternatives, one
\* thing more.
LEMMA ObligationsOf ==
  ASSUME NEW receipt, receipt.counts.counterfactual \in Nat
  PROVE  LET obligations == Obligations(receipt)
         IN  /\ IsSequence(obligations)
             /\ 1 \in DOMAIN obligations
             /\ obligations[1].id = <<receipt.id, "admission">>
             /\ obligations[1].status = "VIOLATED" <=> Rejects(receipt)
             /\ \A i \in DOMAIN obligations :
                  /\ i # 1 => obligations[i].status = "UNKNOWN"
                  /\ obligations[i].status = "UNKNOWN" => i = 2
             /\ (\E i \in DOMAIN obligations : obligations[i].status = "UNKNOWN") <=>
                  receipt.counts.counterfactual > 0
<1> DEFINE a == [id |-> <<receipt.id, "admission">>,
                 status |-> IF Rejects(receipt) THEN "VIOLATED" ELSE "SATISFIED"]
           b == [id |-> <<receipt.id, "counterfactual">>, status |-> "UNKNOWN"]
           obligations == Obligations(receipt)
<1>1. /\ a.id = <<receipt.id, "admission">> /\ a.status # "UNKNOWN"
      /\ a.status = "VIOLATED" <=> Rejects(receipt)
      /\ b.status = "UNKNOWN"
  OBVIOUS
<1>2. obligations = <<a>> \o IF receipt.counts.counterfactual = 0 THEN <<>> ELSE <<b>>
  BY DEF Obligations
<1> HIDE DEF a, b, obligations
<1>3. <<a>> \o <<>> = <<a>> /\ <<a>> \o <<b>> = <<a, b>>
  BY OneAndMore
<1>4. CASE receipt.counts.counterfactual = 0
  <2>1. obligations = <<a>>
    BY <1>2, <1>3, <1>4
  <2>2. /\ IsSequence(obligations) /\ DOMAIN obligations = {1} /\ obligations[1] = a
    BY <2>1 DEF IsSequence
  <2> QED BY <1>1, <1>4, <2>2 DEF obligations
<1>5. CASE receipt.counts.counterfactual # 0
  <2>1. obligations = <<a, b>>
    BY <1>2, <1>3, <1>5
  <2>2. /\ IsSequence(obligations) /\ DOMAIN obligations = {1, 2}
        /\ obligations[1] = a /\ obligations[2] = b
    BY <2>1 DEF IsSequence
  <2>3. receipt.counts.counterfactual > 0
    BY <1>5
  <2> QED BY <1>1, <2>2, <2>3 DEF obligations
<1> QED BY <1>4, <1>5

\* What is owed for one receipt, and for those of a frame.
Tells(told, parts) ==
  /\ IsSequence(parts) /\ DOMAIN parts = DOMAIN told
  /\ \A k \in DOMAIN told :
       /\ IsSequence(parts[k])
       /\ 1 \in DOMAIN parts[k]
       /\ parts[k][1].id = <<told[k].id, "admission">>
       /\ parts[k][1].status = "VIOLATED" <=> Rejects(told[k])
       /\ \A i \in DOMAIN parts[k] : /\ i # 1 => parts[k][i].status = "UNKNOWN"
                                     /\ parts[k][i].status = "UNKNOWN" => i = 2
       /\ (\E i \in DOMAIN parts[k] : parts[k][i].status = "UNKNOWN") <=>
            told[k].counts.counterfactual > 0

WithStatus(obligations, status) == {j \in DOMAIN obligations : obligations[j].status = status}

Owes(told, obligations) ==
  /\ WithStatus(obligations, "VIOLATED") # {} <=> Rejected(told) # {}
  /\ Cardinality(WithStatus(obligations, "UNKNOWN")) = Cardinality(Open(told))
  /\ \A k \in DOMAIN told : \E j \in DOMAIN obligations :
       obligations[j].id = <<told[k].id, "admission">>

LEMMA PartsTell ==
  ASSUME NEW told, NEW parts, Tells(told, parts)
  PROVE  Owes(told, FlattenSeq(parts))
<1> DEFINE S == UNION {ToSet(parts[k]) : k \in DOMAIN told}
           X == {o \in S : o.status = "UNKNOWN"}
           obligations == FlattenSeq(parts)
<1>1. parts \in Seq(Seq(S))
  <2>1. \A k \in DOMAIN parts : parts[k] \in Seq(S)
    <3> TAKE k \in DOMAIN parts
    <3>1. IsSequence(parts[k]) /\ \A i \in DOMAIN parts[k] : parts[k][i] \in S
      BY DEF ToSet, Tells
    <3> HIDE DEF S
    <3> QED BY <3>1, SequenceOf
  <2>2. IsSequence(parts)
    BY DEF Tells
  <2> HIDE DEF S
  <2> QED BY <2>1, <2>2, SequenceOf
<1>2. /\ DOMAIN parts = DOMAIN told
      /\ \A k \in DOMAIN parts : \A i \in DOMAIN parts[k] :
           parts[k][i] \in X <=> parts[k][i].status = "UNKNOWN"
  BY DEF ToSet, Tells
<1> HIDE DEF S, X
<1>3. Merges(obligations, parts)
  BY <1>1, FlattenMerges
<1>4. AtMostOne(parts, X)
  BY <1>2 DEF AtMostOne, InSet, Tells
<1>5. Cardinality(InSet(obligations, X)) = Cardinality(WithSome(parts, X))
  BY <1>1, <1>4, FlattenCounts
<1> HIDE DEF obligations
<1>6. InSet(obligations, X) = WithStatus(obligations, "UNKNOWN")
  BY <1>2, <1>3 DEF InSet, WithStatus, Merges
<1>7. WithSome(parts, X) = Open(told)
  BY <1>2 DEF InSet, WithSome, Open, Tells
<1>8. WithStatus(obligations, "VIOLATED") # {} <=> Rejected(told) # {}
  <2>1. ASSUME NEW j \in DOMAIN obligations, obligations[j].status = "VIOLATED"
        PROVE  Rejected(told) # {}
    <3>1. PICK k \in DOMAIN parts : \E i \in DOMAIN parts[k] : obligations[j] = parts[k][i]
      BY <1>3 DEF Merges
    <3>2. PICK i \in DOMAIN parts[k] : obligations[j] = parts[k][i]
      BY <3>1
    <3>3. i = 1
      BY <1>2, <2>1, <3>2 DEF Tells
    <3> QED BY <1>2, <2>1, <3>2, <3>3 DEF Rejected, Rejects, Tells
  <2>2. ASSUME NEW k \in Rejected(told)
        PROVE  \E j \in DOMAIN obligations : obligations[j].status = "VIOLATED"
    <3>1. k \in DOMAIN told /\ Rejects(told[k])
      BY DEF Rejected, Rejects
    <3>2. 1 \in DOMAIN parts[k] /\ parts[k][1].status = "VIOLATED"
      BY <3>1 DEF Tells
    <3>3. PICK j \in DOMAIN obligations : obligations[j] = parts[k][1]
      BY <1>2, <1>3, <3>1, <3>2 DEF Merges
    <3> QED BY <3>2, <3>3
  <2> QED BY <2>1, <2>2 DEF WithStatus
<1>9. \A k \in DOMAIN told : \E j \in DOMAIN obligations :
        obligations[j].id = <<told[k].id, "admission">>
  <2> TAKE k \in DOMAIN told
  <2>1. k \in DOMAIN parts /\ 1 \in DOMAIN parts[k] /\ parts[k][1].id = <<told[k].id, "admission">>
    BY DEF Tells
  <2>2. PICK j \in DOMAIN obligations : obligations[j] = parts[k][1]
    BY <1>3, <2>1 DEF Merges
  <2> QED BY <2>1, <2>2
<1> QED BY <1>5, <1>6, <1>7, <1>8, <1>9 DEF Owes, obligations

\* One admission is owed for each receipt, violated by those that reject, and one open
\* decision for each receipt that leaves alternatives.
LEMMA ObligationsAre ==
  ASSUME NEW told, IsTold(told)
  PROVE  Owes(told, FlattenSeq([k \in DOMAIN told |-> Obligations(told[k])]))
<1> DEFINE parts == [k \in DOMAIN told |-> Obligations(told[k])]
<1>1. IsSequence(told) /\ \A k \in DOMAIN told : told[k].counts.counterfactual \in Nat
  BY DEF IsTold
<1>2. \A k \in DOMAIN told :
        /\ IsSequence(parts[k])
        /\ 1 \in DOMAIN parts[k]
        /\ parts[k][1].id = <<told[k].id, "admission">>
        /\ parts[k][1].status = "VIOLATED" <=> Rejects(told[k])
        /\ \A i \in DOMAIN parts[k] : /\ i # 1 => parts[k][i].status = "UNKNOWN"
                                      /\ parts[k][i].status = "UNKNOWN" => i = 2
        /\ (\E i \in DOMAIN parts[k] : parts[k][i].status = "UNKNOWN") <=>
             told[k].counts.counterfactual > 0
  <2> TAKE k \in DOMAIN told
  <2>1. parts[k] = Obligations(told[k]) /\ told[k].counts.counterfactual \in Nat
    BY <1>1
  <2> QED BY <2>1, ObligationsOf
<1>3. parts = [k \in DOMAIN told |-> parts[k]]
  OBVIOUS
<1> HIDE DEF parts
<1>4. IsSequence(parts) /\ DOMAIN parts = DOMAIN told
  BY <1>1, <1>3, MappedIs
<1>5. Tells(told, parts)
  BY <1>2, <1>4 DEF Tells
<1>6. Owes(told, FlattenSeq(parts))
  BY <1>5, PartsTell
<1> QED BY <1>6 DEF parts

\* Sites that share an id with an earlier one are left out and no other.
LEMMA NormalizedIs ==
  ASSUME NEW s, IsSequence(s)
  PROVE  LET kept == NormalizeSites(s)
         IN  /\ IsSequence(kept)
             /\ ToSet(kept) \subseteq ToSet(s)
             /\ \A i \in DOMAIN s : \E k \in DOMAIN kept : kept[k].id = s[i].id
             /\ \A k, l \in DOMAIN kept : kept[k].id = kept[l].id => k = l
<1> DEFINE I    == {i \in DOMAIN s : \A j \in 1 .. i - 1 : s[j].id # s[i].id}
           kept == NormalizeSites(s)
<1>1. I \in SUBSET DOMAIN s
  OBVIOUS
<1>2. ASSUME NEW i \in DOMAIN s
      PROVE  \E f \in I : s[f].id = s[i].id
  <2> DEFINE Same == {j \in DOMAIN s : s[j].id = s[i].id}
             f    == Min(Same)
  <2>1. Same \in SUBSET Nat /\ Same # {}
    BY DEF IsSequence
  <2>2. f \in Same /\ \A j \in Same : f <= j
    <3> HIDE DEF Same
    <3> QED BY <2>1, MinIsLeast
  <2> HIDE DEF f
  <2>3. ASSUME NEW j \in 1 .. f - 1
        PROVE  s[j].id # s[f].id
    <3>1. f \in Nat /\ f \in DOMAIN s /\ s[f].id = s[i].id
      BY <2>1, <2>2
    <3>2. j \in DOMAIN s /\ ~(f <= j)
      BY <3>1 DEF IsSequence
    <3> QED BY <2>2, <3>1, <3>2
  <2> QED BY <2>2, <2>3
<1>3. \A i, j \in I : i < j => s[i].id # s[j].id
  BY DEF IsSequence
<1> HIDE DEF I
<1>4. kept = Picked(s, I)
  BY DEF NormalizeSites, I
<1>5. /\ IsSequence(kept) /\ IsFiniteSet(I)
      /\ \A k \in DOMAIN kept : \E i \in I : kept[k] = s[i]
      /\ \A i \in I : \E k \in DOMAIN kept : kept[k] = s[i]
  BY <1>1, <1>4, PickedIs
<1>6. /\ DOMAIN kept = 1 .. Cardinality(I) /\ Cardinality(I) \in Nat
      /\ \A k \in DOMAIN kept : Ascending(I)[k] \in I /\ kept[k] = s[Ascending(I)[k]]
      /\ \A k, l \in DOMAIN kept : k < l => Ascending(I)[k] < Ascending(I)[l]
  <2>1. I \in SUBSET Int
    BY <1>1 DEF IsSequence
  <2>2. /\ Cardinality(I) \in Nat
        /\ DOMAIN Ascending(I) = 1 .. Cardinality(I)
        /\ \A k \in 1 .. Cardinality(I) : Ascending(I)[k] \in I
        /\ \A k, l \in 1 .. Cardinality(I) : k < l => Ascending(I)[k] < Ascending(I)[l]
    BY <1>5, <2>1, AscendingLists
  <2> QED BY <1>4, <2>2 DEF Picked
<1> HIDE DEF kept
<1>7. ASSUME NEW k \in DOMAIN kept, NEW l \in DOMAIN kept, kept[k].id = kept[l].id
      PROVE  k = l
  <2>1. k \in Int /\ l \in Int
    BY <1>6
  <2>2. ~(k < l) /\ ~(l < k)
    BY <1>3, <1>6, <1>7
  <2> QED BY <2>1, <2>2
<1>8. ToSet(kept) \subseteq ToSet(s)
  BY <1>1, <1>5 DEF ToSet
<1>9. \A i \in DOMAIN s : \E k \in DOMAIN kept : kept[k].id = s[i].id
  BY <1>2, <1>5
<1> QED BY <1>5, <1>7, <1>8, <1>9 DEF kept

\* A frame: views of different lanes, and what happened on them.
IsFrame(views, told, sent) ==
  /\ IsSequence(views) /\ 1 \in DOMAIN views
  /\ IsTold(told) /\ IsSequence(sent)
  /\ \A k \in DOMAIN told : \E i \in DOMAIN views : views[i].lane = told[k].lane
  /\ \A k \in DOMAIN sent : \E i \in DOMAIN views : views[i].lane = sent[k].lane

LEMMA FrameIs ==
  ASSUME Listed(history), head \in DOMAIN history.frames
  PROVE  IsFrame(lanes, receipts, emissions)
<1>1. /\ IsSequence(lanes) /\ DOMAIN lanes = DOMAIN history.lanes
      /\ \A k \in DOMAIN history.lanes : lanes[k].lane = history.lanes[k].id
      /\ IsTold(receipts) /\ IsSequence(emissions)
      /\ \A k \in DOMAIN receipts : receipts[k].lane \in Ids(history.lanes)
      /\ \A k \in DOMAIN emissions : emissions[k].lane \in Ids(history.lanes)
  BY DEF Listed, IsSequence, IsTold, lanes, receipts, emissions
<1>2. 1 \in DOMAIN history.lanes
  <2>1. IsSequence(history.lanes) /\ history.lanes # <<>>
    BY DEF Listed
  <2>2. Len(history.lanes) # 0
    <3>1. Len(history.lanes) = 0 => history.lanes = [i \in 1 .. 0 |-> history.lanes[i]]
      BY <2>1 DEF IsSequence
    <3>2. 1 .. 0 = {}
      OBVIOUS
    <3> QED BY <2>1, <3>1, <3>2
  <2> QED BY <2>1, <2>2 DEF IsSequence
<1>3. \A id \in Ids(history.lanes) : \E i \in DOMAIN lanes : lanes[i].lane = id
  BY <1>1 DEF Ids, ToSet
<1> QED BY <1>1, <1>2, <1>3 DEF IsFrame

LaneSet(s) == {s[i].lane : i \in DOMAIN s}

\* Those that take part are lanes of the frame, and each lane with a receipt does.
LEMMA ParticipatingIs ==
  ASSUME NEW views, NEW told, NEW sent, IsFrame(views, told, sent)
  PROVE  LET participating == Participating(views, told, sent)
         IN  /\ IsSequence(participating)
             /\ ToSet(participating) \subseteq LaneSet(views)
             /\ LaneSet(told) \subseteq ToSet(participating)
<1> DEFINE changed == Picked(views, {i \in DOMAIN views : views[i].changed})
           joined  == LaneIds(changed) \o LaneIds(told) \o LaneIds(sent)
           candidates == Distinct(joined)
<1>1. IsSequence(views) /\ IsSequence(told) /\ IsSequence(sent) /\ 1 \in DOMAIN views
  BY DEF IsFrame, IsTold
<1>2. IsSequence(changed) /\ \A k \in DOMAIN changed : \E i \in DOMAIN views : changed[k] = views[i]
  <2> DEFINE I == {i \in DOMAIN views : views[i].changed}
  <2>1. I \in SUBSET DOMAIN views
    OBVIOUS
  <2>2. changed = Picked(views, I)
    OBVIOUS
  <2> HIDE DEF I, changed
  <2> QED BY <1>1, <2>1, <2>2, PickedIs
<1>3. Participating(views, told, sent) =
        IF candidates # <<>> THEN candidates ELSE <<Head(views).lane>>
  BY DEF Participating, Where
<1> HIDE DEF changed
<1>4. /\ IsSequence(LaneIds(changed)) /\ ToSet(LaneIds(changed)) = LaneSet(changed)
      /\ IsSequence(LaneIds(told)) /\ ToSet(LaneIds(told)) = LaneSet(told)
      /\ IsSequence(LaneIds(sent)) /\ ToSet(LaneIds(sent)) = LaneSet(sent)
  BY <1>1, <1>2, LaneIdsAre DEF LaneSet
<1>5. IsSequence(joined) /\ ToSet(joined) = LaneSet(changed) \cup LaneSet(told) \cup LaneSet(sent)
  <2>1. /\ IsSequence(LaneIds(changed) \o LaneIds(told))
        /\ ToSet(LaneIds(changed) \o LaneIds(told)) = LaneSet(changed) \cup LaneSet(told)
    BY <1>4, Joined
  <2> QED BY <1>4, <2>1, Joined
<1> HIDE DEF joined
<1>6. IsSequence(candidates) /\ ToSet(candidates) = ToSet(joined)
  BY <1>5, DistinctIs
<1> HIDE DEF candidates
<1>7. LaneSet(changed) \subseteq LaneSet(views)
  BY <1>2 DEF LaneSet
<1>8. LaneSet(told) \subseteq LaneSet(views) /\ LaneSet(sent) \subseteq LaneSet(views)
  BY DEF LaneSet, IsFrame
<1>9. CASE candidates # <<>>
  BY <1>3, <1>5, <1>6, <1>7, <1>8, <1>9
<1>10. CASE candidates = <<>>
  <2> DEFINE id  == Head(views).lane
             one == <<id>>
  <2>1. id \in LaneSet(views)
    BY <1>1 DEF LaneSet
  <2> HIDE DEF id
  <2>2. IsSequence(one) /\ ToSet(one) = {id}
    BY DEF IsSequence, ToSet
  <2>3. ToSet(candidates) = {}
    BY <1>10 DEF ToSet
  <2>4. Participating(views, told, sent) = one
    BY <1>3, <1>10 DEF id
  <2> QED BY <1>5, <1>6, <2>1, <2>2, <2>3, <2>4
<1> QED BY <1>9, <1>10

\* The anchors of a detail are the primary lane and those that take part.
LEMMA AnchorsAre ==
  ASSUME NEW views, IsSequence(views),
         NEW summary, IsSequence(summary.participating),
         ToSet(summary.participating) \subseteq LaneSet(views)
  PROVE  LaneSet(Anchors(views, summary)) = {summary.primary} \cup ToSet(summary.participating)
<1> DEFINE primary == summary.primary
           among   == summary.participating
           I       == {i \in DOMAIN views : views[i].lane # primary /\ Contains(among, views[i].lane)}
           others  == Picked(views, I)
           one     == <<[lane |-> primary, kind |-> "PRIMARY_LANE"]>>
           rest    == [k \in DOMAIN others |-> [lane |-> others[k].lane, kind |-> "PARTICIPATING_LANE"]]
<1>1. \A id : Contains(among, id) <=> id \in ToSet(among)
  BY DEF Contains, ToSet, IsSequence
<1>2. Anchors(views, summary) = one \o rest
  BY DEF Anchors, Where
<1>3. /\ I \in SUBSET DOMAIN views
      /\ \A i \in DOMAIN views : i \in I <=> views[i].lane # primary /\ views[i].lane \in ToSet(among)
  BY <1>1
<1> HIDE DEF I
<1>4. /\ IsSequence(others)
      /\ \A k \in DOMAIN others : \E i \in I : others[k] = views[i]
      /\ \A i \in I : \E k \in DOMAIN others : others[k] = views[i]
  BY <1>3, PickedIs
<1> HIDE DEF others
<1>5. rest = [k \in DOMAIN others |-> rest[k]] /\ \A k \in DOMAIN others : rest[k].lane = others[k].lane
  OBVIOUS
<1> HIDE DEF rest
<1>6. IsSequence(rest) /\ DOMAIN rest = DOMAIN others
  BY <1>4, <1>5, MappedIs
<1>7. IsSequence(one) /\ DOMAIN one = {1} /\ one[1].lane = primary
  BY DEF IsSequence
<1> HIDE DEF one
<1>8. IsSequence(one \o rest) /\ ToSet(one \o rest) = ToSet(one) \cup ToSet(rest)
  BY <1>6, <1>7, Joined
<1>9. \A s : LaneSet(s) = {a.lane : a \in ToSet(s)}
  BY DEF LaneSet, ToSet
<1>10. LaneSet(one \o rest) = LaneSet(one) \cup LaneSet(rest)
  <2> DEFINE all == one \o rest
  <2>1. /\ LaneSet(all) = {a.lane : a \in ToSet(all)}
        /\ LaneSet(one) = {a.lane : a \in ToSet(one)}
        /\ LaneSet(rest) = {a.lane : a \in ToSet(rest)}
    BY <1>9
  <2> HIDE DEF all
  <2>2. ToSet(all) = ToSet(one) \cup ToSet(rest)
    BY <1>8 DEF all
  <2>3. LaneSet(all) = LaneSet(one) \cup LaneSet(rest)
    BY <2>1, <2>2
  <2> QED BY <2>3 DEF all
<1>11. LaneSet(one) = {primary}
  BY <1>7 DEF LaneSet
<1>12. LaneSet(rest) = {others[k].lane : k \in DOMAIN others}
  BY <1>5, <1>6 DEF LaneSet
<1>13. LaneSet(rest) \subseteq ToSet(among)
  BY <1>3, <1>4, <1>12
<1>14. ASSUME NEW id \in ToSet(among), id # primary
       PROVE  id \in LaneSet(rest)
  <2>1. PICK i \in DOMAIN views : views[i].lane = id
    BY DEF LaneSet
  <2>2. PICK k \in DOMAIN others : others[k] = views[i]
    BY <1>3, <1>4, <1>14, <2>1
  <2> QED BY <1>12, <2>1, <2>2
<1> QED BY <1>2, <1>10, <1>11, <1>13, <1>14

\* The sites of a core are its own and one for each alternative, each once, on lanes that
\* are the primary one or those of the alternatives.
LEMMA SitesAre ==
  ASSUME NEW summary, IsSequence(summary.alternatives)
  PROVE  LET catalog == SiteCatalog(summary)
         IN  /\ {site.id : site \in ToSet(catalog)} =
                  {summary.site} \cup {Append(summary.site, a.id) : a \in ToSet(summary.alternatives)}
             /\ {site.lane : site \in ToSet(catalog)} \subseteq
                  {summary.primary} \cup {a.lane : a \in ToSet(summary.alternatives)}
             /\ \A i, j \in DOMAIN catalog : catalog[i].id = catalog[j].id => i = j
<1> DEFINE among == summary.alternatives
           one   == <<PrimarySite(summary)>>
           rest  == [k \in DOMAIN among |-> AlternativeSite(summary, among[k])]
           all   == one \o rest
           catalog == SiteCatalog(summary)
<1>1. catalog = NormalizeSites(all)
  BY DEF SiteCatalog
<1>2. /\ rest = [k \in DOMAIN among |-> rest[k]]
      /\ \A k \in DOMAIN among : /\ rest[k].id = Append(summary.site, among[k].id)
                                 /\ rest[k].lane = among[k].lane
  BY DEF AlternativeSite
<1>3. /\ DOMAIN one = {1} /\ IsSequence(one)
      /\ one[1].id = summary.site /\ one[1].lane = summary.primary
  BY DEF PrimarySite, IsSequence
<1> HIDE DEF one, rest
<1>4. IsSequence(rest) /\ DOMAIN rest = DOMAIN among
  BY <1>2, MappedIs
<1>5. IsSequence(all) /\ ToSet(all) = ToSet(one) \cup ToSet(rest)
  BY <1>3, <1>4, Joined
<1> HIDE DEF all, catalog
<1>6. /\ IsSequence(catalog)
      /\ ToSet(catalog) \subseteq ToSet(all)
      /\ \A i \in DOMAIN all : \E k \in DOMAIN catalog : catalog[k].id = all[i].id
      /\ \A k, l \in DOMAIN catalog : catalog[k].id = catalog[l].id => k = l
  BY <1>1, <1>5, NormalizedIs
<1>7. ToSet(one) = {one[1]} /\ ToSet(rest) = {rest[k] : k \in DOMAIN among}
  BY <1>3, <1>4 DEF ToSet
<1>8. {site.id : site \in ToSet(catalog)} = {site.id : site \in ToSet(all)}
  BY <1>6 DEF ToSet
<1>9. {site.lane : site \in ToSet(catalog)} \subseteq {site.lane : site \in ToSet(all)}
  BY <1>6
<1>12. ASSUME NEW site \in ToSet(all)
       PROVE  \/ site.id = summary.site /\ site.lane = summary.primary
              \/ \E a \in ToSet(among) : /\ site.id = Append(summary.site, a.id)
                                          /\ site.lane = a.lane
  <2>1. CASE site \in ToSet(one)
    BY <1>3, <1>7, <2>1
  <2>2. CASE site \in ToSet(rest)
    <3>1. PICK k \in DOMAIN among : site = rest[k]
      BY <1>7, <2>2
    <3>2. among[k] \in ToSet(among)
      BY DEF ToSet
    <3> HIDE DEF among
    <3> QED BY <1>2, <3>1, <3>2
  <2> QED BY <1>5, <2>1, <2>2
<1>10. {site.id : site \in ToSet(all)} =
         {summary.site} \cup {Append(summary.site, a.id) : a \in ToSet(among)}
  <2>1. \A site \in ToSet(all) :
          site.id = summary.site \/ \E a \in ToSet(among) : site.id = Append(summary.site, a.id)
    BY <1>12
  <2>2. \E site \in ToSet(all) : site.id = summary.site
    BY <1>3, <1>5, <1>7
  <2>3. \A a \in ToSet(among) : \E site \in ToSet(all) : site.id = Append(summary.site, a.id)
    <3> TAKE a \in ToSet(among)
    <3>1. PICK k \in DOMAIN among : a = among[k]
      BY DEF ToSet
    <3>2. rest[k] \in ToSet(all) /\ rest[k].id = Append(summary.site, a.id)
      BY <1>2, <1>5, <1>7, <3>1
    <3> QED BY <3>2
  <2> QED BY <2>1, <2>2, <2>3
<1>11. {site.lane : site \in ToSet(all)} \subseteq {summary.primary} \cup {a.lane : a \in ToSet(among)}
  BY <1>12
<1> QED BY <1>6, <1>8, <1>9, <1>10, <1>11 DEF catalog

\* Each fact of the chain comes from the source of its own key, with the posture of that
\* source, and the receipts are present when there are some.
LEMMA ChainIs ==
  ASSUME NEW views, NEW summary, NEW told
  PROVE  \A fact \in ToSet(AdmissionChain(views, summary, told).facts) :
           /\ fact.source.field = fact.key /\ fact.source.posture = fact.posture
           /\ fact.key = "receipts" => (fact.posture = "PRESENT" <=> told # <<>>)
<1> DEFINE sources == [k \in DOMAIN ChainKeys |->
                         SourceFamilyFact(ChainKeys[k], ChainField(ChainKeys[k], told))]
           facts == [k \in DOMAIN ChainKeys |->
                      [key |-> ChainKeys[k], posture |-> ChainField(ChainKeys[k], told),
                       source |-> sources[k]]]
<1>1. AdmissionChain(views, summary, told).facts = facts
  BY DEF AdmissionChain
<1>2. TAKE fact \in ToSet(AdmissionChain(views, summary, told).facts)
<1>3. PICK k \in DOMAIN ChainKeys : fact = facts[k]
  BY <1>1 DEF ToSet
<1> HIDE DEF sources
<1>4. /\ fact.key = ChainKeys[k] /\ fact.posture = ChainField(ChainKeys[k], told)
      /\ fact.source = sources[k]
  BY <1>3
<1>5. sources[k] = SourceFamilyFact(ChainKeys[k], ChainField(ChainKeys[k], told))
  BY DEF sources
<1>6. /\ fact.source.field = ChainKeys[k]
      /\ fact.source.posture = ChainField(ChainKeys[k], told)
  BY <1>4, <1>5 DEF SourceFamilyFact
<1>7. ChainField("receipts", told) = "PRESENT" <=> told # <<>>
  BY DEF ChainField
<1> QED
  BY <1>4, <1>6, <1>7

\* The shell lists the receipts of the frame, each once, and so does the reading.
LEMMA ShellIs ==
  ASSUME NEW told, IsTold(told), NEW summary, NEW views
  PROVE  LET shown == Shell(summary, told)
         IN  /\ shown.rejected > 0 <=> Rejected(told) # {}
             /\ shown.blocking <=> Rejected(told) # {} \/ Open(told) # {}
             /\ shown.receipts # <<>> <=> told # <<>>
             /\ ToSet(AdmissionChain(views, summary, told).reading.receipts) = ToSet(shown.receipts)
<1> DEFINE ids == [k \in DOMAIN told |-> told[k].id]
           blocking == SumOf(told, "rejected") > 0
                         \/ \E receipt \in ToSet(told) : receipt.counts.counterfactual > 0
<1>1. IsSequence(ids) /\ Len(ids) = Len(told) /\ DOMAIN ids = DOMAIN told
  <2>1. IsSequence(told)
    BY DEF IsTold
  <2>2. ids = [k \in DOMAIN told |-> ids[k]]
    OBVIOUS
  <2> HIDE DEF ids
  <2> QED
    BY <2>1, <2>2, MappedIs
<1>2. AdmissionChain(views, summary, told).reading.receipts = ids
  BY DEF AdmissionChain, Reading
<1>3. Shell(summary, told).receipts = Distinct(ids)
  BY DEF Shell
<1>4. Shell(summary, told).rejected = SumOf(told, "rejected")
  BY DEF Shell
<1> HIDE DEF ids
<1>5. IsSequence(Distinct(ids)) /\ ToSet(Distinct(ids)) = ToSet(ids) /\ (Distinct(ids) = <<>> <=> ids = <<>>)
  BY <1>1, DistinctIs
<1>6. ids = <<>> <=> told = <<>>
  <2>1. IsSequence(told) /\ IsSequence(ids) /\ DOMAIN ids = DOMAIN told
    BY <1>1 DEF IsTold
  <2> QED
    BY <2>1, <1>1 DEF IsSequence
<1>7. (\E receipt \in ToSet(told) : receipt.counts.counterfactual > 0) <=> Open(told) # {}
  BY DEF Open, ToSet
<1>8. SumOf(told, "rejected") > 0 <=> Rejected(told) # {}
  BY SumsAre
<1>9. Shell(summary, told).blocking <=> Rejected(told) # {} \/ Open(told) # {}
  <2>1. Shell(summary, told).blocking = blocking
    BY Zenon DEF Shell
  <2>2. blocking <=> Rejected(told) # {} \/ Open(told) # {}
    BY <1>7, <1>8
  <2> HIDE DEF blocking
  <2> QED
    BY <2>1, <2>2, Zenon
<1> QED
  BY <1>2, <1>3, <1>4, <1>5, <1>6, <1>8, <1>9

----------------------------------------------------------------------------
(* The effect rows *)

EffectRow(emission, sink, status) ==
  [emission |-> emission.id, lane |-> emission.lane, sink |-> sink, status |-> status]

OfEmission(seq, id) == Picked(seq, {j \in DOMAIN seq : seq[j].emission = id})

\* The rows of one emission when deliveries can be read.
RowsOf(emission, of) ==
  IF of = <<>> THEN <<EffectRow(emission, "(none)", "emitted")>>
  ELSE [d \in DOMAIN of |-> EffectRow(emission, of[d].sink, of[d].outcome)]

LEMMA RowsAre ==
  ASSUME NEW emission, NEW of, IsSequence(of)
  PROVE  /\ IsSequence(RowsOf(emission, of))
         /\ \E d \in DOMAIN RowsOf(emission, of) : TRUE
         /\ \A d \in DOMAIN RowsOf(emission, of) : RowsOf(emission, of)[d].emission = emission.id
<1> DEFINE rows == [d \in DOMAIN of |-> EffectRow(emission, of[d].sink, of[d].outcome)]
<1>1. CASE of = <<>>
  <2> DEFINE row == EffectRow(emission, "(none)", "emitted")
  <2>1. RowsOf(emission, of) = <<row>>
    BY <1>1 DEF RowsOf
  <2>2. row.emission = emission.id
    BY DEF EffectRow
  <2> HIDE DEF row
  <2>3. IsSequence(<<row>>)
    BY DEF IsSequence
  <2> QED
    BY <2>1, <2>2, <2>3
<1>2. CASE of # <<>>
  <2>1. RowsOf(emission, of) = rows
    BY <1>2 DEF RowsOf
  <2>2. \A d \in DOMAIN of : rows[d].emission = emission.id
    BY DEF EffectRow
  <2>3. DOMAIN rows = DOMAIN of /\ rows = [d \in DOMAIN of |-> rows[d]]
    OBVIOUS
  <2> HIDE DEF rows
  <2>4. IsSequence(rows)
    BY <2>3, MappedIs
  <2>5. \E d \in DOMAIN of : TRUE
    BY <1>2 DEF IsSequence
  <2> QED
    BY <2>1, <2>2, <2>3, <2>4, <2>5
<1> QED
  BY <1>1, <1>2

\* Of the rows of a frame those of one emission are the rows made for it.
LEMMA EffectsAre ==
  ASSUME NEW sent, IsSequence(sent), \A k, l \in DOMAIN sent : sent[k].id = sent[l].id => k = l,
         NEW observed, IsSequence(observed), NEW delivers, delivers, NEW e \in DOMAIN sent
  PROVE  OfEmission(EffectRows(sent, observed, delivers), sent[e].id) =
           RowsOf(sent[e], OfEmission(observed, sent[e].id))
<1> DEFINE parts == [k \in DOMAIN sent |-> RowsOf(sent[k], OfEmission(observed, sent[k].id))]
           S     == UNION {ToSet(parts[k]) : k \in DOMAIN sent}
           X     == {row \in S : row.emission = sent[e].id}
<1>1. EffectRows(sent, observed, delivers) = FlattenSeq(parts)
  BY DEF EffectRows, RowsOf, EffectRow, OfEmission, Where
<1>2. \A k \in DOMAIN sent : parts[k] = RowsOf(sent[k], OfEmission(observed, sent[k].id))
  OBVIOUS
<1>3. DOMAIN parts = DOMAIN sent /\ parts = [k \in DOMAIN sent |-> parts[k]]
  OBVIOUS
<1> HIDE DEF parts
<1>4. \A k \in DOMAIN sent : IsSequence(OfEmission(observed, sent[k].id))
  BY PickedIs DEF OfEmission
<1>5. \A k \in DOMAIN sent : /\ IsSequence(parts[k])
                             /\ \A i \in DOMAIN parts[k] : parts[k][i].emission = sent[k].id
  BY <1>2, <1>4, RowsAre
<1>6. IsSequence(parts)
  BY <1>3, MappedIs
<1>7. parts \in Seq(Seq(S))
  <2>1. \A k \in DOMAIN sent : \A i \in DOMAIN parts[k] : parts[k][i] \in S
    BY DEF ToSet
  <2> HIDE DEF S
  <2>2. \A k \in DOMAIN parts : parts[k] \in Seq(S)
    BY <2>1, <1>3, <1>5, SequenceOf
  <2> QED
    BY <2>2, <1>6, SequenceOf
<1>8. OnlyIn(parts, e, X)
  <2>1. \A k \in DOMAIN sent : \A i \in DOMAIN parts[k] : parts[k][i] \in S
    BY DEF ToSet
  <2>2. ASSUME NEW k \in DOMAIN parts, NEW i \in DOMAIN parts[k]
        PROVE  parts[k][i] \in X <=> k = e
    <3>1. parts[k][i].emission = sent[k].id /\ k \in DOMAIN sent
      BY <1>3, <1>5
    <3>2. parts[k][i] \in S
      BY <2>1, <1>3
    <3> HIDE DEF S
    <3> QED
      BY <3>1, <3>2
  <2> QED
    BY <2>2 DEF OnlyIn
<1>9. e \in DOMAIN parts
  BY <1>3
<1> HIDE DEF S
<1>10. FlattenSeq(parts) \in Seq(S)
  BY <1>7, FlattenMerges
<1>11. InSet(FlattenSeq(parts), X) =
         {j \in DOMAIN FlattenSeq(parts) : FlattenSeq(parts)[j].emission = sent[e].id}
  <2>1. \A j \in DOMAIN FlattenSeq(parts) : FlattenSeq(parts)[j] \in S
    BY <1>10, SequencesAre
  <2> QED
    BY <2>1 DEF InSet
<1> HIDE DEF X
<1>12. Picked(FlattenSeq(parts), InSet(FlattenSeq(parts), X)) = parts[e]
  BY <1>7, <1>8, <1>9, FlattenPart
<1>13. OfEmission(FlattenSeq(parts), sent[e].id) = parts[e]
  BY <1>11, <1>12 DEF OfEmission
<1> QED
  BY <1>1, <1>2, <1>13

----------------------------------------------------------------------------
(* The rows of the timeline *)

\* What of a frame is on one lane.
OnLane(n, id) ==
  [frame    |-> n,
   lanes    |-> Picked(history.frames[n], {i \in DOMAIN history.frames[n] :
                                              history.frames[n][i].lane = id}),
   receipts |-> Picked(history.receipts[n], {i \in DOMAIN history.receipts[n] :
                                               history.receipts[n][i].lane = id})]

LEMMA TimelineIs ==
  ASSUME NEW last \in Nat, DOMAIN history.frames = 0 .. last
  PROVE  Timeline(history) =
           [i \in 1 .. last + 1 |-> [frame    |-> i - 1,
                                     lanes    |-> history.frames[i - 1],
                                     receipts |-> history.receipts[i - 1]]]
<1>1. Cardinality(0 .. last) = last + 1
  BY FS_Interval
<1> QED
  BY <1>1 DEF Timeline

\* On a lane of the catalog each frame has the view of it, and its receipts.
LEMMA OnLaneIs ==
  ASSUME Listed(history), NEW id \in Ids(history.lanes), NEW n \in DOMAIN history.frames
  PROVE  /\ IsSequence(OnLane(n, id).lanes) /\ OnLane(n, id).lanes # <<>>
         /\ Head(OnLane(n, id).lanes).lane = id
         /\ Head(OnLane(n, id).lanes).tick = TickOf(n, id)
         /\ IsSequence(OnLane(n, id).receipts)
         /\ ToSet(OnLane(n, id).receipts) =
              {receipt \in ToSet(history.receipts[n]) : receipt.lane = id}
<1> DEFINE views == history.frames[n]
           told  == history.receipts[n]
           I     == {i \in DOMAIN views : views[i].lane = id}
           J     == {i \in DOMAIN told : told[i].lane = id}
<1>1. PICK k \in DOMAIN history.lanes : history.lanes[k].id = id
  BY OfLanes
<1>2. /\ IsSequence(views) /\ IsSequence(told)
      /\ DOMAIN views = DOMAIN history.lanes
      /\ \A i \in DOMAIN views : views[i].lane = history.lanes[i].id
  BY DEF Listed, IsSequence
<1>3. k \in I /\ \A i \in I : i = k
  BY <1>1, <1>2 DEF Listed
<1>4. TickOf(n, id) = views[k].tick /\ views[k].lane = id
  BY <1>1, <1>2, TickOfIs
<1>5. OnLane(n, id).lanes = Picked(views, I) /\ OnLane(n, id).receipts = Picked(told, J)
  BY DEF OnLane
<1>6. I \subseteq DOMAIN views /\ J \subseteq DOMAIN told
  OBVIOUS
<1>7. \A r : r \in ToSet(told) /\ r.lane = id <=> \E j \in J : r = told[j]
  BY DEF ToSet
<1> HIDE DEF views, told, I, J
<1>8. /\ IsSequence(Picked(views, I)) /\ (Picked(views, I) = <<>> <=> I = {})
      /\ \A j \in DOMAIN Picked(views, I) : \E i \in I : Picked(views, I)[j] = views[i]
  BY <1>2, <1>6, PickedIs
<1>9. 1 \in DOMAIN Picked(views, I)
  BY <1>3, <1>8 DEF IsSequence
<1>10. Head(Picked(views, I)) = views[k]
  <2>1. Head(Picked(views, I)) = Picked(views, I)[1]
    BY <1>8, <1>9, InItsRange
  <2> QED
    BY <2>1, <1>3, <1>8, <1>9
<1>11. /\ IsSequence(Picked(told, J))
       /\ \A m \in DOMAIN Picked(told, J) : \E i \in J : Picked(told, J)[m] = told[i]
       /\ \A i \in J : \E m \in DOMAIN Picked(told, J) : Picked(told, J)[m] = told[i]
  BY <1>2, <1>6, PickedIs
<1>12. ToSet(Picked(told, J)) = {receipt \in ToSet(told) : receipt.lane = id}
  <2>1. \A r : r \in ToSet(Picked(told, J)) <=> \E m \in DOMAIN Picked(told, J) : r = Picked(told, J)[m]
    BY DEF ToSet
  <2>2. \A r : r \in ToSet(Picked(told, J)) <=> \E j \in J : r = told[j]
    BY <2>1, <1>11
  <2> QED
    BY <2>2, <1>7
<1> QED
  BY <1>3, <1>4, <1>5, <1>8, <1>10, <1>11, <1>12 DEF told

\* A frame of the timeline, and the same with its lanes and receipts replaced.
IsNth(frame, n) == DOMAIN frame = {"frame", "lanes", "receipts"} /\ frame.frame = n

Replaced(frame, views, told) == [frame EXCEPT !.lanes = views, !.receipts = told]

LEMMA ReplacedIs ==
  ASSUME NEW n, NEW frame, IsNth(frame, n), NEW views, NEW told
  PROVE  Replaced(frame, views, told) = [frame |-> n, lanes |-> views, receipts |-> told]
<1>1. frame.frame = n /\ DOMAIN frame = {"frame", "lanes", "receipts"}
  BY DEF IsNth
<1>2. Replaced(frame, views, told) =
        [i \in DOMAIN frame |-> IF i = "lanes" THEN views
                                ELSE IF i = "receipts" THEN told ELSE frame[i]]
  BY DEF Replaced
<1>3. [frame |-> n, lanes |-> views, receipts |-> told] =
        [i \in {"frame", "lanes", "receipts"} |->
           CASE i = "frame" -> n [] i = "lanes" -> views [] i = "receipts" -> told]
  OBVIOUS
<1>4. \A i \in {"frame", "lanes", "receipts"} :
        (IF i = "lanes" THEN views ELSE IF i = "receipts" THEN told ELSE frame[i]) =
          (CASE i = "frame" -> n [] i = "lanes" -> views [] i = "receipts" -> told)
  BY <1>1
<1> QED
  BY <1>1, <1>2, <1>3, <1>4

\* Filtered to a lane of the catalog, the history keeps all its frames.
LEMMA FilteredIs ==
  ASSUME Listed(history), NEW id \in Ids(history.lanes),
         NEW last \in Nat, DOMAIN history.frames = 0 .. last
  PROVE  FilterFramesToLane(Timeline(history), id) = [i \in 1 .. last + 1 |-> OnLane(i - 1, id)]
<1> DEFINE all  == Timeline(history)
           on   == [i \in 1 .. last + 1 |-> OnLane(i - 1, id)]
           some == {i \in DOMAIN on : on[i].lanes # <<>>}
<1>1. DOMAIN all = 1 .. last + 1
  BY TimelineIs
<1> DEFINE Ofs(seq) == Picked(seq, {j \in DOMAIN seq : seq[j].lane = id})
<1>2. \A i \in 1 .. last + 1 :
        Replaced(all[i], Ofs(all[i].lanes), Ofs(all[i].receipts)) = OnLane(i - 1, id)
  <2>1. TAKE i \in 1 .. last + 1
  <2>2. all[i] = [frame    |-> i - 1,
                  lanes    |-> history.frames[i - 1],
                  receipts |-> history.receipts[i - 1]]
    BY TimelineIs
  <2>3. all[i].lanes = history.frames[i - 1] /\ all[i].receipts = history.receipts[i - 1]
    BY <2>2
  <2>4. OnLane(i - 1, id) = [frame    |-> i - 1,
                             lanes    |-> Ofs(all[i].lanes),
                             receipts |-> Ofs(all[i].receipts)]
    BY <2>3 DEF OnLane
  <2>5. IsNth(all[i], i - 1)
    BY <2>2 DEF IsNth
  <2> HIDE DEF Ofs, all
  <2> QED
    BY <2>4, <2>5, ReplacedIs
<1>3. FilterFramesToLane(all, id) = Picked(on, some)
  <2> DEFINE made == [i \in DOMAIN all |->
                        Replaced(all[i], Ofs(all[i].lanes), Ofs(all[i].receipts))]
  <2>1. FilterFramesToLane(all, id) = Picked(made, {i \in DOMAIN made : made[i].lanes # <<>>})
    BY DEF FilterFramesToLane, Where, Replaced
  <2>2. made = on
    <3> HIDE DEF all, Ofs
    <3> QED
      BY <1>1, <1>2
  <2> HIDE DEF made, on
  <2> QED
    BY <2>1, <2>2
<1>4. \A i \in 1 .. last + 1 : on[i] = OnLane(i - 1, id) /\ i - 1 \in DOMAIN history.frames
  OBVIOUS
<1>5. DOMAIN on = 1 .. last + 1 /\ on = [i \in 1 .. last + 1 |-> on[i]]
  OBVIOUS
<1> HIDE DEF on, all
<1>6. some = DOMAIN on
  BY <1>4, <1>5, OnLaneIs
<1>7. IsSequence(on)
  BY <1>5, ListIs
<1>8. Picked(on, DOMAIN on) = on
  BY <1>7, PickedAll
<1> QED
  BY <1>3, <1>6, <1>8 DEF all, on

\* What a row says of a frame that has a view.
LEMMA RowOf ==
  ASSUME NEW frame, NEW catalog
  PROVE  LET row == FrameToTickRow(frame, catalog)
         IN  /\ row.frame = frame.frame
             /\ row.lane = Head(frame.lanes).lane /\ row.tick = Head(frame.lanes).tick
             /\ row.hasConflict <=> \E receipt \in ToSet(frame.receipts) : Rejects(receipt)
<1> DEFINE conflict == \E receipt \in ToSet(frame.receipts) : Rejects(receipt)
<1>1. /\ FrameToTickRow(frame, catalog).frame = frame.frame
      /\ FrameToTickRow(frame, catalog).lane = Head(frame.lanes).lane
      /\ FrameToTickRow(frame, catalog).tick = Head(frame.lanes).tick
  BY DEF FrameToTickRow
<1>2. FrameToTickRow(frame, catalog).hasConflict = conflict
  BY Zenon DEF FrameToTickRow
<1> HIDE DEF conflict
<1>3. FrameToTickRow(frame, catalog).hasConflict <=> conflict
  BY <1>2, Zenon
<1> QED
  BY <1>1, <1>3 DEF conflict

\* The timeline of a lane has a row for each frame, the newest first.
LEMMA LaneRowsAre ==
  ASSUME Listed(history), NEW id \in Ids(history.lanes),
         NEW last \in Nat, DOMAIN history.frames = 0 .. last
  PROVE  LET rows == TickRows(FilterFramesToLane(Timeline(history), id), history.lanes)
         IN  /\ Len(rows) = last + 1
             /\ \A j \in 1 .. last + 1 :
                  rows[j] = FrameToTickRow(OnLane(last + 1 - j, id), history.lanes)
<1> DEFINE on   == [i \in 1 .. last + 1 |-> OnLane(i - 1, id)]
           some == {i \in DOMAIN on : on[i].lanes # <<>>}
           made == [i \in DOMAIN on |-> FrameToTickRow(on[i], history.lanes)]
<1>1. FilterFramesToLane(Timeline(history), id) = on
  BY FilteredIs
<1>2. \A i \in 1 .. last + 1 : on[i] = OnLane(i - 1, id) /\ i - 1 \in DOMAIN history.frames
  OBVIOUS
<1>3. DOMAIN on = 1 .. last + 1 /\ on = [i \in 1 .. last + 1 |-> on[i]]
  OBVIOUS
<1> HIDE DEF on
<1>4. IsSequence(on)
  BY <1>3, ListIs
<1>5. some = DOMAIN on
  BY <1>2, <1>3, OnLaneIs
<1>6. Picked(on, some) = on
  BY <1>4, <1>5, PickedAll
<1>7. TickRows(on, history.lanes) = Reverse(made)
  <2>1. TickRows(on, history.lanes) =
          Reverse([i \in DOMAIN Picked(on, some) |->
                     FrameToTickRow(Picked(on, some)[i], history.lanes)])
    BY DEF TickRows, Where
  <2> QED
    BY <2>1, <1>6
<1>8. \A i \in 1 .. last + 1 : made[i] = FrameToTickRow(OnLane(i - 1, id), history.lanes)
  BY <1>2, <1>3
<1>9. DOMAIN made = 1 .. last + 1 /\ made = [i \in 1 .. last + 1 |-> made[i]]
  BY <1>3
<1> HIDE DEF made, some
<1>10. IsSequence(made) /\ Len(made) = last + 1
  BY <1>9, ListIs
<1> DEFINE rows == [j \in 1 .. last + 1 |-> made[last + 1 - j + 1]]
<1>11. Reverse(made) = rows
  BY <1>10 DEF Reverse
<1>12. Len(rows) = last + 1
  OBVIOUS
<1>13. ASSUME NEW j \in 1 .. last + 1
       PROVE  rows[j] = FrameToTickRow(OnLane(last + 1 - j, id), history.lanes)
  <2>1. last + 1 - j + 1 \in 1 .. last + 1 /\ last + 1 - j + 1 - 1 = last + 1 - j
    OBVIOUS
  <2>2. rows[j] = made[last + 1 - j + 1]
    OBVIOUS
  <2> QED
    BY <2>1, <2>2, <1>8
<1> HIDE DEF rows
<1> QED
  BY <1>1, <1>7, <1>11, <1>12, <1>13

\* The row of the head in the timeline of a lane is that of the frame it is on.
LEMMA LaneRowIs ==
  ASSUME Listed(history), head \in DOMAIN history.frames, NEW id \in Ids(history.lanes)
  PROVE  /\ LaneRow(id).tick = TickOf(head, id) /\ LaneRow(id).lane = id
         /\ LaneRow(id).hasConflict <=>
              \E k \in Rejected(receipts) : receipts[k].lane = id
<1> DEFINE rows == TickRows(FilterFramesToLane(Timeline(history), id), history.lanes)
<1>1. PICK last \in Nat : DOMAIN history.frames = 0 .. last
  BY DEF Listed
<1>2. /\ Len(rows) = last + 1
      /\ \A j \in 1 .. last + 1 :
           rows[j] = FrameToTickRow(OnLane(last + 1 - j, id), history.lanes)
  BY <1>1, LaneRowsAre
<1>3. LaneRow(id) = rows[SelectInSeq(rows, LAMBDA row : row.frame = head)]
  BY DEF LaneRow
<1> HIDE DEF rows
<1>4. \A j \in 1 .. last + 1 : rows[j].frame = last + 1 - j
  <2>1. \A n : OnLane(n, id).frame = n
    BY DEF OnLane
  <2> QED
    BY <1>2, <2>1, RowOf
<1> DEFINE I == {j \in 1 .. Len(rows) : rows[j].frame = head}
<1>5. SelectInSeq(rows, LAMBDA row : row.frame = head) = IF I # {} THEN Min(I) ELSE 0
  BY DEF SelectInSeq
<1>6. head \in 0 .. last
  BY <1>1
<1>7. I = {last + 1 - head}
  BY <1>2, <1>4, <1>6
<1>8. Min({last + 1 - head}) = last + 1 - head
  BY <1>6, MinIsLeast
<1>9. SelectInSeq(rows, LAMBDA row : row.frame = head) = last + 1 - head
  <2> HIDE DEF I
  <2> QED
    BY <1>5, <1>7, <1>8
<1>10. LaneRow(id) = FrameToTickRow(OnLane(head, id), history.lanes)
  <2>1. last + 1 - head \in 1 .. last + 1 /\ last + 1 - (last + 1 - head) = head
    BY <1>6
  <2> QED
    BY <2>1, <1>2, <1>3, <1>9
<1>11. /\ Head(OnLane(head, id).lanes).lane = id
       /\ Head(OnLane(head, id).lanes).tick = TickOf(head, id)
       /\ ToSet(OnLane(head, id).receipts) =
            {receipt \in ToSet(history.receipts[head]) : receipt.lane = id}
  BY OnLaneIs
<1>12. (\E receipt \in ToSet(OnLane(head, id).receipts) : Rejects(receipt)) <=>
         \E k \in Rejected(receipts) : receipts[k].lane = id
  BY <1>11 DEF ToSet, Rejects, Rejected, receipts
<1> QED
  BY <1>10, <1>11, <1>12, RowOf

----------------------------------------------------------------------------
(* The views of the frame that the head is on *)

\* Every judge of the receipts comes to the same verdict.
LEMMA VerdictsAgree ==
  ASSUME Listed(history), head \in DOMAIN history.frames
  PROVE  /\ core.outcome = "OBSTRUCTED" <=> Rejected(receipts) # {}
         /\ Status("VIOLATED") # {} <=> Rejected(receipts) # {}
         /\ shell.rejected > 0 <=> Rejected(receipts) # {}
         /\ FrameToTickRow(Timeline(history)[head + 1], history.lanes).hasConflict <=>
              Rejected(receipts) # {}
         /\ (\E lane \in ToSet(history.lanes) : LaneRow(lane.id).hasConflict) <=>
              Rejected(receipts) # {}
         /\ shell.blocking <=> core.outcome # "LAWFUL"
         /\ Cardinality(Status("UNKNOWN")) = Len(core.alternatives)
         /\ ToSet(detail.evidence) \subseteq {o.id : o \in ToSet(detail.obligations)}
<1>1. IsFrame(lanes, receipts, emissions) /\ IsTold(receipts)
  BY FrameIs DEF IsFrame
<1>2. core.outcome = Outcome(receipts) /\ core.alternatives = Alternatives(receipts)
  BY DEF core, Core
<1>3. /\ detail.obligations = FlattenSeq([k \in DOMAIN receipts |-> Obligations(receipts[k])])
      /\ detail.evidence = [k \in DOMAIN receipts |-> <<receipts[k].id, "admission">>]
  BY DEF detail, Detail
<1>4. /\ Outcome(receipts) = "OBSTRUCTED" <=> Rejected(receipts) # {}
      /\ Outcome(receipts) # "LAWFUL" <=> Rejected(receipts) # {} \/ Open(receipts) # {}
  BY <1>1, OutcomeIs
<1>5. Owes(receipts, detail.obligations)
  BY <1>1, <1>3, ObligationsAre
<1>6. \A status : Status(status) = WithStatus(detail.obligations, status)
  BY DEF Status, WithStatus
<1>7. Status("VIOLATED") # {} <=> Rejected(receipts) # {}
  BY <1>5, <1>6 DEF Owes
<1>8. Cardinality(Status("UNKNOWN")) = Len(core.alternatives)
  <2>1. Len(core.alternatives) = Cardinality(Open(receipts))
    BY <1>1, <1>2, AlternativesAre
  <2> QED
    BY <2>1, <1>5, <1>6 DEF Owes
<1>9. /\ shell.rejected > 0 <=> Rejected(receipts) # {}
      /\ shell.blocking <=> Rejected(receipts) # {} \/ Open(receipts) # {}
  <2>1. shell = Shell(core, receipts)
    BY DEF shell
  <2>2. /\ Shell(core, receipts).rejected > 0 <=> Rejected(receipts) # {}
        /\ Shell(core, receipts).blocking <=> Rejected(receipts) # {} \/ Open(receipts) # {}
    BY <1>1, ShellIs
  <2> QED
    BY <2>1, <2>2, Zenon
<1>10. shell.blocking <=> core.outcome # "LAWFUL"
  BY <1>2, <1>4, <1>9, Zenon
<1>11. ToSet(detail.evidence) \subseteq {o.id : o \in ToSet(detail.obligations)}
  <2> DEFINE owed == {o.id : o \in ToSet(detail.obligations)}
  <2>1. ASSUME NEW k \in DOMAIN receipts
        PROVE  <<receipts[k].id, "admission">> \in owed
    <3>1. PICK j \in DOMAIN detail.obligations :
            detail.obligations[j].id = <<receipts[k].id, "admission">>
      BY <1>5 DEF Owes
    <3>2. detail.obligations[j] \in ToSet(detail.obligations)
      BY DEF ToSet
    <3> QED
      BY <3>1, <3>2
  <2> HIDE DEF owed
  <2>2. \A e \in ToSet(detail.evidence) : \E k \in DOMAIN receipts :
          e = <<receipts[k].id, "admission">>
    BY <1>3 DEF ToSet
  <2>3. ToSet(detail.evidence) \subseteq owed
    BY <2>1, <2>2
  <2> QED
    BY <2>3 DEF owed
<1>12. FrameToTickRow(Timeline(history)[head + 1], history.lanes).hasConflict <=>
         Rejected(receipts) # {}
  <2>1. PICK last \in Nat : DOMAIN history.frames = 0 .. last
    BY DEF Listed
  <2>2. head + 1 \in 1 .. last + 1 /\ head + 1 - 1 = head
    BY <2>1
  <2>3. Timeline(history)[head + 1].receipts = receipts
    BY <2>1, <2>2, TimelineIs DEF receipts
  <2>4. (\E receipt \in ToSet(receipts) : Rejects(receipt)) <=> Rejected(receipts) # {}
    BY DEF ToSet, Rejects, Rejected
  <2> QED
    BY <2>3, <2>4, RowOf
<1>13. (\E lane \in ToSet(history.lanes) : LaneRow(lane.id).hasConflict) <=>
         Rejected(receipts) # {}
  <2>1. \A lane \in ToSet(history.lanes) :
          LaneRow(lane.id).hasConflict <=> \E k \in Rejected(receipts) : receipts[k].lane = lane.id
    <3>1. \A lane \in ToSet(history.lanes) : lane.id \in Ids(history.lanes)
      BY DEF Ids
    <3> QED
      BY <3>1, LaneRowIs
  <2>2. \A k \in Rejected(receipts) : \E lane \in ToSet(history.lanes) : receipts[k].lane = lane.id
    BY DEF Listed, Ids, Rejected, receipts
  <2> QED
    BY <2>1, <2>2
<1> QED
  BY <1>2, <1>4, <1>7, <1>8, <1>9, <1>10, <1>11, <1>12, <1>13

\* Anchors and sites are on the lanes that take part.
LEMMA PlacesAgree ==
  ASSUME Listed(history), head \in DOMAIN history.frames
  PROVE  /\ {anchor.lane : anchor \in ToSet(detail.anchors)} =
              {core.primary} \cup ToSet(core.participating)
         /\ {site.lane : site \in ToSet(sites)} \subseteq
              {anchor.lane : anchor \in ToSet(detail.anchors)}
         /\ {site.id : site \in ToSet(sites)} =
              {core.site} \cup {Append(core.site, a.id) : a \in ToSet(core.alternatives)}
         /\ \A i, j \in DOMAIN sites : sites[i].id = sites[j].id => i = j
<1>1. IsFrame(lanes, receipts, emissions) /\ IsTold(receipts) /\ IsSequence(lanes)
  BY FrameIs DEF IsFrame
<1>2. /\ core.participating = Participating(lanes, receipts, emissions)
      /\ core.alternatives = Alternatives(receipts)
  BY DEF core, Core
<1>3. detail.anchors = Anchors(lanes, core) /\ sites = SiteCatalog(core)
  BY DEF detail, Detail, sites
<1>4. /\ IsSequence(core.participating)
      /\ ToSet(core.participating) \subseteq LaneSet(lanes)
      /\ LaneSet(receipts) \subseteq ToSet(core.participating)
  BY <1>1, <1>2, ParticipatingIs
<1>5. /\ IsSequence(core.alternatives)
      /\ \A a \in ToSet(core.alternatives) : a.lane \in LaneSet(receipts)
  <2>1. /\ IsSequence(Alternatives(receipts))
        /\ \A i \in DOMAIN Alternatives(receipts) : \E k \in DOMAIN receipts :
             Alternatives(receipts)[i].lane = receipts[k].lane
    BY <1>1, AlternativesAre
  <2> QED
    BY <2>1, <1>2 DEF ToSet, LaneSet
<1>6. LaneSet(Anchors(lanes, core)) = {core.primary} \cup ToSet(core.participating)
  BY <1>1, <1>4, AnchorsAre
<1>7. {anchor.lane : anchor \in ToSet(detail.anchors)} = LaneSet(detail.anchors)
  BY DEF ToSet, LaneSet
<1>8. /\ {site.id : site \in ToSet(sites)} =
           {core.site} \cup {Append(core.site, a.id) : a \in ToSet(core.alternatives)}
      /\ {site.lane : site \in ToSet(sites)} \subseteq
           {core.primary} \cup {a.lane : a \in ToSet(core.alternatives)}
      /\ \A i, j \in DOMAIN sites : sites[i].id = sites[j].id => i = j
  BY <1>3, <1>5, SitesAre
<1>9. {core.primary} \cup {a.lane : a \in ToSet(core.alternatives)} \subseteq
        {core.primary} \cup ToSet(core.participating)
  BY <1>4, <1>5
<1> QED
  BY <1>3, <1>6, <1>7, <1>8, <1>9

\* The rows shown for an emission are the deliveries that were made of it.
LEMMA RowsAgree ==
  ASSUME Listed(history), head \in DOMAIN history.frames, history.delivers,
         NEW emission \in ToSet(emissions)
  PROVE  LET of   == OfEmission(EffectRows(emissions, observations, history.delivers), emission.id)
             seen == OfEmission(observations, emission.id)
         IN  [d \in DOMAIN of |-> <<of[d].sink, of[d].status>>] =
               IF [d \in DOMAIN seen |-> <<seen[d].sink, seen[d].outcome>>] = <<>>
               THEN <<<<"(none)", "emitted">>>>
               ELSE [d \in DOMAIN seen |-> <<seen[d].sink, seen[d].outcome>>]
<1> DEFINE of   == OfEmission(EffectRows(emissions, observations, history.delivers), emission.id)
           seen == OfEmission(observations, emission.id)
           made == [d \in DOMAIN seen |-> <<seen[d].sink, seen[d].outcome>>]
<1>1. /\ IsSequence(emissions) /\ IsSequence(observations)
      /\ \A k, l \in DOMAIN emissions : emissions[k].id = emissions[l].id => k = l
  BY DEF Listed, emissions, observations
<1>2. PICK e \in DOMAIN emissions : emission = emissions[e]
  BY DEF ToSet
<1>3. of = RowsOf(emission, seen)
  BY <1>1, <1>2, EffectsAre
<1>4. IsSequence(seen)
  BY <1>1, PickedIs DEF OfEmission
<1>5. DOMAIN made = DOMAIN seen
  OBVIOUS
<1> HIDE DEF of, seen
<1>6. CASE seen = <<>>
  <2>1. of = <<EffectRow(emission, "(none)", "emitted")>>
    BY <1>3, <1>6 DEF RowsOf
  <2>2. [d \in DOMAIN of |-> <<of[d].sink, of[d].status>>] = <<<<"(none)", "emitted">>>>
    BY <2>1 DEF EffectRow
  <2>3. made = <<>>
    BY <1>6
  <2> QED
    BY <2>2, <2>3 DEF of, seen
<1>7. CASE seen # <<>>
  <2>1. of = [d \in DOMAIN seen |-> EffectRow(emission, seen[d].sink, seen[d].outcome)]
    BY <1>3, <1>7 DEF RowsOf
  <2>2. \E d \in DOMAIN seen : TRUE
    <3> HIDE DEF made
    <3>1. Len(seen) # 0
      BY <1>4, <1>7 DEF IsSequence
    <3>2. 1 \in DOMAIN seen
      BY <3>1, <1>4 DEF IsSequence
    <3> QED
      BY <3>2
  <2>3. made # <<>>
    BY <2>2, <1>5
  <2>4. [d \in DOMAIN of |-> <<of[d].sink, of[d].status>>] = made
    BY <2>1 DEF EffectRow
  <2> QED
    BY <2>3, <2>4 DEF of, seen
<1> QED
  BY <1>6, <1>7

\* The head on a frame of a history is all that the views need to agree.
LEMMA ViewsInv == HeadInv => ViewsAgree
<1>1. SUFFICES ASSUME HeadInv
               PROVE  ViewsAgree
  OBVIOUS
<1>2. Listed(history) /\ head \in DOMAIN history.frames
  BY <1>1, HostsListed DEF HeadInv
<1>3. \A lane \in ToSet(history.lanes) :
        LaneRow(lane.id).tick = TickOf(head, lane.id) /\ LaneRow(lane.id).lane = lane.id
  <2>1. \A lane \in ToSet(history.lanes) : lane.id \in Ids(history.lanes)
    BY DEF Ids
  <2> QED
    BY <2>1, <1>2, LaneRowIs
<1>4. \A fact \in ToSet(chain.facts) :
        /\ fact.source.field = fact.key /\ fact.source.posture = fact.posture
        /\ fact.key = "receipts" => (fact.posture = "PRESENT" <=> shell.receipts # <<>>)
  <2>1. IsTold(receipts)
    BY <1>2, FrameIs DEF IsFrame
  <2>2. chain = AdmissionChain(lanes, core, receipts) /\ shell = Shell(core, receipts)
    BY DEF chain, shell
  <2>3. Shell(core, receipts).receipts # <<>> <=> receipts # <<>>
    BY <2>1, ShellIs
  <2> QED
    BY <2>2, <2>3, ChainIs
<1>5. ToSet(chain.reading.receipts) = ToSet(shell.receipts)
  <2>1. IsTold(receipts)
    BY <1>2, FrameIs DEF IsFrame
  <2>2. chain = AdmissionChain(lanes, core, receipts) /\ shell = Shell(core, receipts)
    BY DEF chain, shell
  <2> QED
    BY <2>1, <2>2, ShellIs
<1>6. history.delivers =>
        \A emission \in ToSet(emissions) :
          LET of   == OfEmission(EffectRows(emissions, observations, history.delivers), emission.id)
              seen == OfEmission(observations, emission.id)
          IN  [d \in DOMAIN of |-> <<of[d].sink, of[d].status>>] =
                IF [d \in DOMAIN seen |-> <<seen[d].sink, seen[d].outcome>>] = <<>>
                THEN <<<<"(none)", "emitted">>>>
                ELSE [d \in DOMAIN seen |-> <<seen[d].sink, seen[d].outcome>>]
  BY <1>2, RowsAgree
<1>7. history.delivers =>
        \A emission \in ToSet(emissions) :
          LET rows    == EffectRows(emissions, observations, history.delivers)
              Of(seq) == Where(seq, LAMBDA item : item.emission = emission.id)
              shown   == [d \in DOMAIN Of(rows) |-> <<Of(rows)[d].sink, Of(rows)[d].status>>]
              made    == [d \in DOMAIN Of(observations) |->
                            <<Of(observations)[d].sink, Of(observations)[d].outcome>>]
          IN  shown = IF made = <<>> THEN <<<<"(none)", "emitted">>>> ELSE made
  BY <1>6 DEF OfEmission, Where
<1>8. /\ core.outcome = "OBSTRUCTED" <=> Rejected(receipts) # {}
      /\ Status("VIOLATED") # {} <=> Rejected(receipts) # {}
      /\ shell.rejected > 0 <=> Rejected(receipts) # {}
      /\ FrameToTickRow(Timeline(history)[head + 1], history.lanes).hasConflict <=>
           Rejected(receipts) # {}
      /\ (\E lane \in ToSet(history.lanes) : LaneRow(lane.id).hasConflict) <=>
           Rejected(receipts) # {}
      /\ shell.blocking <=> core.outcome # "LAWFUL"
      /\ Cardinality(Status("UNKNOWN")) = Len(core.alternatives)
      /\ ToSet(detail.evidence) \subseteq {o.id : o \in ToSet(detail.obligations)}
  BY <1>2, VerdictsAgree
<1>9. /\ {anchor.lane : anchor \in ToSet(detail.anchors)} =
           {core.primary} \cup ToSet(core.participating)
      /\ {site.lane : site \in ToSet(sites)} \subseteq
           {anchor.lane : anchor \in ToSet(detail.anchors)}
      /\ {site.id : site \in ToSet(sites)} =
           {core.site} \cup {Append(core.site, a.id) : a \in ToSet(core.alternatives)}
      /\ \A i, j \in DOMAIN sites : sites[i].id = sites[j].id => i = j
  BY <1>2, PlacesAgree
<1> QED
  BY <1>3, <1>4, <1>5, <1>7, <1>8, <1>9, Zenon DEF ViewsAgree

\* Each view judges the receipts by itself, and they all come to the same verdict; what
\* one of them refers to, the others have: on every frame of every history a host can
\* have (deriveOutcome, obligationStatus, fromReceipts, frameToTickRow,
\* filterFramesToLane, normalizeSites, factsFor, buildEffectRows).
THEOREM ViewsTellTheSame == Spec => []ViewsAgree
<1>1. HeadInv => ViewsAgree
  BY ViewsInv
<1> QED
  BY <1>1, HeadInvariant, PTL

----------------------------------------------------------------------------
(* Forests *)

Steps(n, X) == [1 .. n -> [X -> X]]

IsMade(g, n, X, base, next) ==
  /\ g \in [0 .. n -> X] /\ g[0] = base
  /\ \A k \in 1 .. n : g[k] = next[k][g[k - 1]]

\* What is made step by step is there after any number of steps.
LEMMA Iterated ==
  ASSUME NEW n \in Nat, NEW X, NEW base \in X, NEW next \in Steps(n, X)
  PROVE  \E g : IsMade(g, n, X, base, next)
<1> USE DEF Steps
<1> DEFINE Made(g, m) == IsMade(g, m, X, base, next)
           T == {m \in 0 .. n : \E g : Made(g, m)}
<1>1. 0 \in T
  <2> DEFINE g == [k \in 0 .. 0 |-> base]
  <2>1. Made(g, 0)
    BY DEF IsMade
  <2> HIDE DEF g, Made
  <2> QED
    BY <2>1
<1>2. ASSUME NEW m \in Nat, m < n, m \in T
      PROVE  m + 1 \in T
  <2>1. PICK g : Made(g, m)
    BY <1>2
  <2> DEFINE h == [k \in 0 .. m + 1 |-> IF k = m + 1 THEN next[k][g[m]] ELSE g[k]]
  <2>2. m + 1 \in 1 .. n /\ m \in 0 .. m /\ g[m] \in X
    BY <1>2, <2>1 DEF IsMade
  <2>3. next[m + 1][g[m]] \in X
    BY <2>2
  <2>4. \A k \in 0 .. m + 1 : h[k] \in X
    BY <2>1, <2>3 DEF IsMade
  <2>5. h \in [0 .. m + 1 -> X]
    BY <2>4
  <2>6. h[0] = base
    BY <2>1 DEF IsMade
  <2>7. ASSUME NEW k \in 1 .. m + 1
        PROVE  h[k] = next[k][h[k - 1]]
    <3>1. CASE k = m + 1
      <4>1. k - 1 = m /\ m \in 0 .. m + 1 /\ m # m + 1
        BY <3>1
      <4>2. h[m] = g[m] /\ h[k] = next[k][g[m]]
        BY <3>1, <4>1
      <4> HIDE DEF h
      <4> QED
        BY <4>1, <4>2
    <3>2. CASE k # m + 1
      <4>1. k \in 1 .. m /\ k - 1 \in 0 .. m + 1 /\ k - 1 # m + 1
        BY <3>2
      <4>2. h[k] = g[k] /\ h[k - 1] = g[k - 1]
        BY <3>2, <4>1
      <4>3. g[k] = next[k][g[k - 1]]
        BY <2>1, <4>1 DEF IsMade
      <4> HIDE DEF h
      <4> QED
        BY <4>2, <4>3
    <3> QED
      BY <3>1, <3>2
  <2>8. Made(h, m + 1)
    <3> HIDE DEF h
    <3> QED
      BY <2>5, <2>6, <2>7 DEF IsMade
  <2> HIDE DEF h, Made
  <2> QED
    BY <1>2, <2>8
<1>3. n \in T
  <2> HIDE DEF T
  <2>1. \A m \in 0 .. n : m \in T
    BY <1>1, <1>2, UpTo
  <2> QED
    BY <2>1
<1> QED
  BY <1>3

\* What has one parent or none, and is one step further from the roots than it.
IsTree(U, rank, up) ==
  /\ rank \in [U -> Nat]
  /\ \A id \in U : \/ up[id] = {} /\ rank[id] = 0
                   \/ \E p \in U : up[id] = {p} /\ rank[id] = rank[p] + 1

\* The way down from a root.
IsPath(way, id, U, rank, up) ==
  /\ way \in [0 .. rank[id] -> U]
  /\ way[rank[id]] = id
  /\ \A k \in 0 .. rank[id] : rank[way[k]] = k
  /\ up[way[0]] = {}
  /\ \A k \in 1 .. rank[id] : up[way[k]] = {way[k - 1]}

LEMMA PathThere ==
  ASSUME NEW U, NEW rank, NEW up, IsTree(U, rank, up), NEW id \in U
  PROVE  \E way : IsPath(way, id, U, rank, up)
<1> DEFINE T == {n \in Nat : \A l \in U : rank[l] = n => \E way : IsPath(way, l, U, rank, up)}
<1>1. 0 \in T
  <2>1. ASSUME NEW l \in U, rank[l] = 0
        PROVE  \E way : IsPath(way, l, U, rank, up)
    <3> DEFINE way == [k \in 0 .. 0 |-> l]
    <3>1. up[l] = {}
      BY <2>1 DEF IsTree
    <3>2. IsPath(way, l, U, rank, up)
      BY <2>1, <3>1 DEF IsPath
    <3> HIDE DEF way
    <3> QED
      BY <3>2
  <2> QED
    BY <2>1
<1>2. ASSUME NEW n \in Nat, n < rank[id], n \in T
      PROVE  n + 1 \in T
  <2>1. ASSUME NEW l \in U, rank[l] = n + 1
        PROVE  \E way : IsPath(way, l, U, rank, up)
    <3>1. PICK p \in U : up[l] = {p} /\ rank[p] = n
      <4>1. PICK p \in U : up[l] = {p} /\ rank[l] = rank[p] + 1
        BY <2>1 DEF IsTree
      <4>2. rank[p] \in Nat
        BY DEF IsTree
      <4> QED
        BY <2>1, <4>1, <4>2
    <3>2. PICK w : IsPath(w, p, U, rank, up)
      BY <1>2, <3>1
    <3> DEFINE way == [k \in 0 .. n + 1 |-> IF k = n + 1 THEN l ELSE w[k]]
    <3>3. w \in [0 .. n -> U] /\ w[n] = p /\ up[w[0]] = {}
      BY <3>1, <3>2 DEF IsPath
    <3>4. way \in [0 .. n + 1 -> U] /\ way[n + 1] = l /\ way[0] = w[0]
      BY <3>3
    <3>5. \A k \in 0 .. n + 1 : rank[way[k]] = k
      BY <2>1, <3>1, <3>2 DEF IsPath
    <3>6. ASSUME NEW k \in 1 .. n + 1
          PROVE  up[way[k]] = {way[k - 1]}
      <4>1. CASE k = n + 1
        <5>1. k - 1 = n /\ n \in 0 .. n + 1 /\ n # n + 1
          BY <4>1
        <5>2. way[k - 1] = p /\ way[k] = l
          BY <3>3, <4>1, <5>1
        <5> HIDE DEF way
        <5> QED
          BY <3>1, <5>2
      <4>2. CASE k # n + 1
        <5>1. k \in 1 .. n /\ k - 1 \in 0 .. n + 1 /\ k - 1 # n + 1
          BY <4>2
        <5>2. way[k] = w[k] /\ way[k - 1] = w[k - 1]
          BY <4>2, <5>1
        <5> HIDE DEF way
        <5> QED
          BY <3>1, <3>2, <5>1, <5>2 DEF IsPath
      <4> QED
        BY <4>1, <4>2
    <3> HIDE DEF way
    <3>7. IsPath(way, l, U, rank, up)
      BY <2>1, <3>3, <3>4, <3>5, <3>6 DEF IsPath
    <3> QED
      BY <3>7
  <2> QED
    BY <2>1
<1>3. rank[id] \in Nat
  BY DEF IsTree
<1>4. rank[id] \in T
  <2> HIDE DEF T
  <2>1. \A n \in 0 .. rank[id] : n \in T
    BY <1>1, <1>2, <1>3, UpTo
  <2> QED
    BY <1>3, <2>1
<1> QED
  BY <1>4

\* What is reached from each: itself, and what is reached from those right below it.
IsBranching(sub, U, rank, up) ==
  /\ \A id \in U : sub[id] \subseteq U /\ id \in sub[id]
  /\ \A id \in U : \A l \in sub[id] : l = id \/ \E c \in U : up[c] = {id} /\ l \in sub[c]
  /\ \A c, id \in U : up[c] = {id} => sub[c] \subseteq sub[id] /\ id \notin sub[c]
  /\ \A c, d \in U : up[c] = up[d] /\ c # d => \A l \in sub[c] : l \notin sub[d]
  /\ \A l \in U : \E r \in U : up[r] = {} /\ l \in sub[r]

LEMMA BranchesThere ==
  ASSUME NEW U, NEW rank, NEW up, IsTree(U, rank, up)
  PROVE  \E sub : IsBranching(sub, U, rank, up)
<1> DEFINE path == [l \in U |-> CHOOSE way : IsPath(way, l, U, rank, up)]
           sub  == [id \in U |-> {l \in U : rank[id] <= rank[l] /\ path[l][rank[id]] = id}]
<1>1. \A l \in U : IsPath(path[l], l, U, rank, up)
  BY PathThere
<1> HIDE DEF path
<1>2. \A l \in U : /\ rank[l] \in Nat
                   /\ path[l][rank[l]] = l
                   /\ up[path[l][0]] = {}
                   /\ \A k \in 0 .. rank[l] : path[l][k] \in U /\ rank[path[l][k]] = k
                   /\ \A k \in 1 .. rank[l] : up[path[l][k]] = {path[l][k - 1]}
  BY <1>1 DEF IsPath, IsTree
<1>3. \A id, l \in U : l \in sub[id] <=> rank[id] <= rank[l] /\ path[l][rank[id]] = id
  OBVIOUS
<1>4. \A id \in U : sub[id] \subseteq U /\ id \in sub[id]
  BY <1>2
<1> HIDE DEF sub
<1>5. \A c, id \in U : up[c] = {id} => rank[c] = rank[id] + 1
  BY DEF IsTree
<1>6. ASSUME NEW id \in U, NEW l \in sub[id], l # id
      PROVE  \E c \in U : up[c] = {id} /\ l \in sub[c]
  <2>1. l \in U /\ rank[id] <= rank[l] /\ path[l][rank[id]] = id
    BY <1>3, <1>4
  <2>2. rank[id] # rank[l]
    BY <1>2, <1>6, <2>1
  <2>3. rank[id] + 1 \in 1 .. rank[l] /\ rank[id] + 1 \in 0 .. rank[l] /\ rank[id] + 1 - 1 = rank[id]
    BY <1>2, <2>1, <2>2
  <2> DEFINE k == rank[id] + 1
             c == path[l][k]
  <2>4. k \in 1 .. rank[l] /\ k \in 0 .. rank[l] /\ k - 1 = rank[id] /\ k <= rank[l]
    BY <1>2, <2>1, <2>3
  <2> HIDE DEF k
  <2>5. c \in U /\ up[c] = {path[l][k - 1]} /\ rank[c] = k
    BY <1>2, <2>1, <2>4
  <2>6. up[c] = {id}
    BY <2>1, <2>4, <2>5
  <2>7. l \in sub[c]
    BY <1>3, <2>1, <2>4, <2>5
  <2> QED
    BY <2>5, <2>6, <2>7
<1>7. ASSUME NEW c \in U, NEW id \in U, up[c] = {id}
      PROVE  sub[c] \subseteq sub[id] /\ id \notin sub[c]
  <2>1. rank[c] = rank[id] + 1 /\ rank[id] \in Nat
    BY <1>2, <1>5, <1>7
  <2>2. ASSUME NEW l \in sub[c]
        PROVE  l \in sub[id]
    <3>1. l \in U /\ rank[c] <= rank[l] /\ path[l][rank[c]] = c
      BY <1>3, <1>4
    <3>2. rank[c] \in 1 .. rank[l] /\ rank[c] - 1 = rank[id] /\ rank[id] <= rank[l]
          /\ rank[l] \in Nat
      BY <1>2, <2>1, <3>1
    <3> DEFINE k == rank[c]
    <3> HIDE DEF k
    <3>3. up[path[l][k]] = {path[l][k - 1]}
      BY <1>2, <3>1, <3>2 DEF k
    <3>4. path[l][rank[id]] = id
      BY <1>7, <3>1, <3>2, <3>3 DEF k
    <3> QED
      BY <1>3, <3>1, <3>2, <3>4
  <2>3. id \notin sub[c]
    BY <1>3, <2>1
  <2> QED
    BY <2>2, <2>3
<1>8. ASSUME NEW c \in U, NEW d \in U, up[c] = up[d], NEW l \in sub[c], l \in sub[d]
      PROVE  c = d
  <2>1. rank[c] = rank[d]
    <3>1. CASE up[c] = {}
      BY <1>8, <3>1 DEF IsTree
    <3>2. CASE up[c] # {}
      <4>1. PICK p \in U : up[c] = {p}
        BY <3>2 DEF IsTree
      <4> QED
        BY <1>5, <1>8, <4>1
    <3> QED
      BY <3>1, <3>2
  <2>2. l \in U
    BY <1>4
  <2> QED
    BY <1>3, <1>8, <2>1, <2>2
<1>9. ASSUME NEW l \in U
      PROVE  \E r \in U : up[r] = {} /\ l \in sub[r]
  <2>1. 0 \in 0 .. rank[l] /\ rank[l] \in Nat
    BY <1>2
  <2>2. path[l][0] \in U /\ rank[path[l][0]] = 0 /\ up[path[l][0]] = {}
    BY <1>2, <2>1
  <2>3. l \in sub[path[l][0]]
    BY <1>3, <2>1, <2>2
  <2> QED
    BY <2>2, <2>3
<1>10. \A c, d \in U : up[c] = up[d] /\ c # d => \A l \in sub[c] : l \notin sub[d]
  BY <1>8
<1>11. IsBranching(sub, U, rank, up)
  BY <1>4, <1>6, <1>7, <1>9, <1>10 DEF IsBranching
<1> QED
  BY <1>11

\* The way to the root leads through as many as there are steps, and one.
LEMMA RankBelow ==
  ASSUME NEW U, IsFiniteSet(U), NEW rank, NEW up, IsTree(U, rank, up), NEW id \in U
  PROVE  rank[id] < Cardinality(U)
<1>1. PICK way : IsPath(way, id, U, rank, up)
  BY PathThere
<1>2. rank[id] \in Nat
  BY DEF IsTree
<1>3. \A j, k \in 0 .. rank[id] : way[j] = way[k] => j = k
  BY <1>1 DEF IsPath
<1>4. way \in [0 .. rank[id] -> U]
  BY <1>1 DEF IsPath
<1>5. way \in Injection(0 .. rank[id], U)
  BY <1>3, <1>4 DEF Injection, IsInjective
<1>6. Cardinality(0 .. rank[id]) <= Cardinality(U)
  BY <1>5, FS_Injection DEF ExistsInjection
<1>7. Cardinality(0 .. rank[id]) = rank[id] + 1
  BY <1>2, FS_Interval
<1>8. Cardinality(U) \in Nat
  BY FS_CardinalityType
<1> QED
  BY <1>2, <1>6, <1>7, <1>8

\* In a flattened sequence each part has its place, one after the other.
LEMMA FlattenPlaces ==
  ASSUME NEW S, NEW seqs \in Seq(Seq(S))
  PROVE  \E from \in [DOMAIN seqs -> Nat] :
           /\ \A k \in DOMAIN seqs : \A i \in DOMAIN seqs[k] :
                /\ from[k] + i \in DOMAIN FlattenSeq(seqs)
                /\ FlattenSeq(seqs)[from[k] + i] = seqs[k][i]
           /\ \A j \in DOMAIN FlattenSeq(seqs) : \E k \in DOMAIN seqs :
                \E i \in DOMAIN seqs[k] : j = from[k] + i
<1> DEFINE n == Len(seqs)
<1>1. n \in Nat /\ DOMAIN seqs = 1 .. n /\ \A k \in 1 .. n : seqs[k] \in Seq(S)
  BY LenProperties, ElementOfSeq
<1> HIDE DEF n
<1>2. PICK flat : /\ flat[0] = <<>>
                  /\ \A k \in 1 .. n : flat[k] = flat[k - 1] \o seqs[k]
                  /\ \A k \in 0 .. n : flat[k] \in Seq(S)
                  /\ FlattenSeq(seqs) = flat[n]
  BY FlattenWalk DEF n
<1> DEFINE from == [k \in DOMAIN seqs |-> Len(flat[k - 1])]
           Placed(m) ==
             /\ \A k \in 1 .. m : \A i \in DOMAIN seqs[k] :
                  /\ from[k] + i \in DOMAIN flat[m] /\ flat[m][from[k] + i] = seqs[k][i]
             /\ \A j \in DOMAIN flat[m] : \E k \in 1 .. m : \E i \in DOMAIN seqs[k] :
                  j = from[k] + i
           T == {m \in 0 .. n : Placed(m)}
<1>3. \A k \in DOMAIN seqs : from[k] = Len(flat[k - 1]) /\ from[k] \in Nat
  <2>1. \A k \in 1 .. n : k - 1 \in 0 .. n
    BY <1>1
  <2>2. \A k \in 1 .. n : flat[k - 1] \in Seq(S)
    BY <1>2, <2>1
  <2> QED
    BY <1>1, <2>2, LenProperties
<1>4. from \in [DOMAIN seqs -> Nat]
  <2>1. from = [k \in DOMAIN seqs |-> from[k]]
    OBVIOUS
  <2> HIDE DEF from
  <2> QED
    BY <1>3, <2>1
<1> HIDE DEF from
<1>5. 0 \in T
  <2>1. DOMAIN flat[0] = {}
    BY <1>2
  <2> QED
    BY <1>1, <2>1
<1>6. ASSUME NEW m \in Nat, m < n, m \in T
      PROVE  m + 1 \in T
  <2>1. /\ m + 1 \in 1 .. n /\ m + 1 \in 0 .. n /\ m \in 0 .. n /\ m + 1 - 1 = m
        /\ m + 1 \in DOMAIN seqs
    BY <1>1, <1>6
  <2> DEFINE s == flat[m]
             t == seqs[m + 1]
  <2>2. flat[m + 1] = s \o t /\ s \in Seq(S) /\ t \in Seq(S) /\ from[m + 1] = Len(s)
    <3> DEFINE k == m + 1
    <3>1. k \in 1 .. n /\ k \in DOMAIN seqs /\ k - 1 = m
      BY <2>1
    <3> HIDE DEF k
    <3>2. flat[k] = flat[k - 1] \o seqs[k] /\ from[k] = Len(flat[k - 1]) /\ seqs[k] \in Seq(S)
      BY <1>1, <1>2, <1>3, <3>1
    <3>3. flat[k] = flat[m] \o seqs[k] /\ from[k] = Len(flat[m])
      BY <3>1, <3>2
    <3>4. flat[m] \in Seq(S)
      BY <1>2, <2>1
    <3> QED
      BY <3>2, <3>3, <3>4 DEF k
  <2>3. Placed(m)
    BY <1>6
  <2>4. \A k \in 1 .. m + 1 : k \in 1 .. m \/ k = m + 1
    BY <1>6
  <2>5. \A k \in 1 .. m : k \in 1 .. m + 1
    BY <1>6
  <2> HIDE DEF s, t
  <2>6. /\ \A j \in DOMAIN s : j \in DOMAIN (s \o t) /\ (s \o t)[j] = s[j]
        /\ \A j \in DOMAIN t : Len(s) + j \in DOMAIN (s \o t) /\ (s \o t)[Len(s) + j] = t[j]
        /\ \A j \in DOMAIN (s \o t) :
             \/ j \in DOMAIN s
             \/ \E i \in DOMAIN t : j = Len(s) + i
    BY <2>2, ConcatIs
  <2>7. ASSUME NEW k \in 1 .. m + 1, NEW i \in DOMAIN seqs[k]
        PROVE  from[k] + i \in DOMAIN flat[m + 1] /\ flat[m + 1][from[k] + i] = seqs[k][i]
    <3>1. CASE k \in 1 .. m
      <4>1. from[k] + i \in DOMAIN s /\ s[from[k] + i] = seqs[k][i]
        BY <2>3, <3>1 DEF s
      <4> QED
        BY <2>2, <2>6, <4>1
    <3>2. CASE k = m + 1
      BY <2>2, <2>6, <3>2 DEF t
    <3> QED
      BY <2>4, <3>1, <3>2
  <2>8. ASSUME NEW j \in DOMAIN flat[m + 1]
        PROVE  \E k \in 1 .. m + 1 : \E i \in DOMAIN seqs[k] : j = from[k] + i
    <3>1. CASE j \in DOMAIN s
      BY <2>3, <2>5, <3>1 DEF s
    <3>2. CASE \E i \in DOMAIN t : j = Len(s) + i
      <4>1. m + 1 \in 1 .. m + 1
        BY <1>6
      <4> QED
        BY <2>2, <3>2, <4>1 DEF t
    <3> QED
      BY <2>2, <2>6, <3>1, <3>2
  <2>9. Placed(m + 1)
    BY <2>7, <2>8
  <2> HIDE DEF Placed
  <2> QED
    BY <2>1, <2>9
<1>7. n \in T
  <2> HIDE DEF T
  <2>1. \A k \in 0 .. n : k \in T
    BY <1>1, <1>5, <1>6, UpTo
  <2> QED
    BY <1>1, <2>1
<1>8. Placed(n)
  BY <1>7
<1>9. \A k \in DOMAIN seqs : \A i \in DOMAIN seqs[k] :
        /\ from[k] + i \in DOMAIN FlattenSeq(seqs)
        /\ FlattenSeq(seqs)[from[k] + i] = seqs[k][i]
  BY <1>1, <1>2, <1>8
<1>10. \A j \in DOMAIN FlattenSeq(seqs) : \E k \in DOMAIN seqs :
         \E i \in DOMAIN seqs[k] : j = from[k] + i
  BY <1>1, <1>2, <1>8
<1> QED
  BY <1>4, <1>9, <1>10

----------------------------------------------------------------------------
(* The lines of a tree *)

\* Lines that tell how far from the roots they are, none of them twice.
AreLines(s, U, rank) ==
  /\ s \in Seq([lane : U, depth : Nat])
  /\ \A j \in DOMAIN s : s[j].depth = rank[s[j].lane]
  /\ \A i, j \in DOMAIN s : s[i].lane = s[j].lane => i = j

\* The line of what is right above, before the j-th.
HasAbove(s, j, up) == \E i \in DOMAIN s : i < j /\ up[s[j].lane] = {s[i].lane}

\* The lines of one branch.
IsBranch(s, id, U, rank, up, sub) ==
  /\ AreLines(s, U, rank)
  /\ 1 \in DOMAIN s /\ s[1].lane = id
  /\ {s[j].lane : j \in DOMAIN s} = sub[id]
  /\ \A j \in DOMAIN s : s[j].lane # id => HasAbove(s, j, up)

\* The lines of branches side by side, those right below above.
AreBranches(s, above, U, rank, up, sub) ==
  /\ AreLines(s, U, rank)
  /\ {s[j].lane : j \in DOMAIN s} = UNION {sub[id] : id \in {c \in U : up[c] = above}}
  /\ \A j \in DOMAIN s : up[s[j].lane] = above \/ HasAbove(s, j, up)

\* Each of those right below has its own part.
AreParts(parts, kids, above, U, rank, up, sub) ==
  /\ parts \in Seq(Seq([lane : U, depth : Nat]))
  /\ DOMAIN kids = DOMAIN parts
  /\ \A k \in DOMAIN parts : /\ kids[k] \in U /\ up[kids[k]] = above
                             /\ IsBranch(parts[k], kids[k], U, rank, up, sub)
  /\ \A k, l \in DOMAIN parts : kids[k] = kids[l] => k = l
  /\ \A c \in U : up[c] = above => \E k \in DOMAIN parts : kids[k] = c

LEMMA BranchesJoin ==
  ASSUME NEW U, NEW rank, NEW up, NEW sub, IsBranching(sub, U, rank, up),
         NEW parts, NEW kids, NEW above, AreParts(parts, kids, above, U, rank, up, sub)
  PROVE  AreBranches(FlattenSeq(parts), above, U, rank, up, sub)
<1> DEFINE Lines == [lane : U, depth : Nat]
           whole == FlattenSeq(parts)
<1>1. parts \in Seq(Seq(Lines)) /\ DOMAIN kids = DOMAIN parts
  BY DEF AreParts
<1>2. \A k \in DOMAIN parts :
        /\ kids[k] \in U /\ up[kids[k]] = above
        /\ AreLines(parts[k], U, rank)
        /\ {parts[k][j].lane : j \in DOMAIN parts[k]} = sub[kids[k]]
        /\ \A j \in DOMAIN parts[k] : parts[k][j].lane # kids[k] => HasAbove(parts[k], j, up)
  BY DEF AreParts, IsBranch
<1>3. whole \in Seq(Lines)
  <2> HIDE DEF Lines
  <2> QED
    BY <1>1, FlattenMerges
<1>4. PICK from \in [DOMAIN parts -> Nat] :
        /\ \A k \in DOMAIN parts : \A i \in DOMAIN parts[k] :
             from[k] + i \in DOMAIN whole /\ whole[from[k] + i] = parts[k][i]
        /\ \A j \in DOMAIN whole : \E k \in DOMAIN parts :
             \E i \in DOMAIN parts[k] : j = from[k] + i
  <2> HIDE DEF Lines
  <2> QED
    BY <1>1, FlattenPlaces
<1>5. \A k \in DOMAIN parts : DOMAIN parts[k] \subseteq Nat
  <2>1. \A k \in DOMAIN parts : parts[k] \in Seq(Lines)
    BY <1>2 DEF AreLines
  <2> HIDE DEF Lines
  <2> QED
    BY <2>1, LenProperties
<1> HIDE DEF whole
<1>6. ASSUME NEW j \in DOMAIN whole
      PROVE  /\ whole[j].depth = rank[whole[j].lane]
             /\ \E k \in DOMAIN parts : whole[j].lane \in sub[kids[k]]
             /\ up[whole[j].lane] = above \/ HasAbove(whole, j, up)
  <2>1. PICK k \in DOMAIN parts : \E i \in DOMAIN parts[k] : j = from[k] + i
    BY <1>4
  <2>2. PICK i \in DOMAIN parts[k] : j = from[k] + i
    BY <2>1
  <2>3. whole[j] = parts[k][i]
    BY <1>4, <2>2
  <2>4. parts[k][i].depth = rank[parts[k][i].lane]
    BY <1>2 DEF AreLines
  <2>5. parts[k][i].lane \in sub[kids[k]]
    BY <1>2
  <2>6. ASSUME parts[k][i].lane # kids[k]
        PROVE  HasAbove(whole, j, up)
    <3>1. PICK h \in DOMAIN parts[k] : h < i /\ up[parts[k][i].lane] = {parts[k][h].lane}
      BY <1>2, <2>6 DEF HasAbove
    <3>2. from[k] + h \in DOMAIN whole /\ whole[from[k] + h] = parts[k][h]
      BY <1>4
    <3>3. from[k] + h < j
      BY <1>4, <1>5, <2>2, <3>1
    <3> QED
      BY <2>3, <3>1, <3>2, <3>3 DEF HasAbove
  <2> QED
    BY <1>2, <2>3, <2>4, <2>5, <2>6
<1>7. ASSUME NEW j \in DOMAIN whole, NEW h \in DOMAIN whole, whole[j].lane = whole[h].lane
      PROVE  j = h
  <2>1. PICK k \in DOMAIN parts : \E i \in DOMAIN parts[k] : j = from[k] + i
    BY <1>4
  <2>2. PICK i \in DOMAIN parts[k] : j = from[k] + i
    BY <2>1
  <2>3. PICK m \in DOMAIN parts : \E i_1 \in DOMAIN parts[m] : h = from[m] + i_1
    BY <1>4
  <2>4. PICK g \in DOMAIN parts[m] : h = from[m] + g
    BY <2>3
  <2>5. whole[j] = parts[k][i] /\ whole[h] = parts[m][g]
    BY <1>4, <2>2, <2>4
  <2>6. parts[k][i].lane \in sub[kids[k]] /\ parts[m][g].lane \in sub[kids[m]]
    BY <1>2
  <2>7. kids[k] = kids[m]
    BY <1>2, <1>7, <2>5, <2>6 DEF IsBranching
  <2>8. k = m
    BY <2>7 DEF AreParts
  <2>9. i = g
    BY <1>2, <1>7, <2>5, <2>8 DEF AreLines
  <2> QED
    BY <2>2, <2>4, <2>8, <2>9
<1>8. {whole[j].lane : j \in DOMAIN whole} = UNION {sub[id] : id \in {c \in U : up[c] = above}}
  <2>1. ASSUME NEW j \in DOMAIN whole
        PROVE  \E id \in U : up[id] = above /\ whole[j].lane \in sub[id]
    BY <1>2, <1>6
  <2>2. ASSUME NEW id \in U, up[id] = above, NEW l \in sub[id]
        PROVE  \E j \in DOMAIN whole : whole[j].lane = l
    <3>1. PICK k \in DOMAIN parts : kids[k] = id
      BY <2>2 DEF AreParts
    <3>2. l \in {parts[k][i].lane : i \in DOMAIN parts[k]}
      BY <1>2, <3>1
    <3>3. PICK i \in DOMAIN parts[k] : parts[k][i].lane = l
      BY <3>2
    <3> QED
      BY <1>4, <3>3
  <2> QED
    BY <2>1, <2>2
<1>9. AreLines(whole, U, rank)
  BY <1>3, <1>6, <1>7 DEF AreLines
<1> QED
  BY <1>6, <1>8, <1>9 DEF AreBranches, whole

\* A lane and the lines below it.
LEMMA BranchGrows ==
  ASSUME NEW U, NEW rank, NEW up, NEW sub, IsTree(U, rank, up), IsBranching(sub, U, rank, up),
         NEW id \in U, NEW rest, AreBranches(rest, {id}, U, rank, up, sub),
         NEW line, line = [lane |-> id, depth |-> rank[id]]
  PROVE  IsBranch(<<line>> \o rest, id, U, rank, up, sub)
<1> DEFINE Lines == [lane : U, depth : Nat]
           one   == <<line>>
           whole == one \o rest
<1>0. rest \in Seq(Lines)
  BY DEF AreBranches, AreLines
<1>1. /\ \A j \in DOMAIN rest : rest[j].depth = rank[rest[j].lane]
      /\ \A i, j \in DOMAIN rest : rest[i].lane = rest[j].lane => i = j
      /\ {rest[j].lane : j \in DOMAIN rest} = UNION {sub[c] : c \in {d \in U : up[d] = {id}}}
      /\ \A j \in DOMAIN rest : up[rest[j].lane] = {id} \/ HasAbove(rest, j, up)
  BY DEF AreBranches, AreLines
<1>2. rank[id] \in Nat
  BY DEF IsTree
<1>3. line \in Lines /\ line.lane = id /\ line.depth = rank[id]
  BY <1>2
<1> HIDE DEF Lines
<1>4. one \in Seq(Lines) /\ Len(one) = 1 /\ DOMAIN one = {1} /\ one[1] = line
  BY <1>3
<1> HIDE DEF one
<1>5. whole \in Seq(Lines)
  BY <1>0, <1>4, ConcatProperties
<1>6. /\ 1 \in DOMAIN whole /\ whole[1] = line
      /\ \A j \in DOMAIN rest : 1 + j \in DOMAIN whole /\ whole[1 + j] = rest[j]
      /\ \A j \in DOMAIN whole : j = 1 \/ \E i \in DOMAIN rest : j = 1 + i
  <2>1. /\ \A j \in DOMAIN one : j \in DOMAIN whole /\ whole[j] = one[j]
        /\ \A j \in DOMAIN rest : Len(one) + j \in DOMAIN whole /\ whole[Len(one) + j] = rest[j]
        /\ \A j \in DOMAIN whole : j \in DOMAIN one \/ \E i \in DOMAIN rest : j = Len(one) + i
    BY <1>0, <1>4, ConcatIs
  <2>2. 1 \in DOMAIN one /\ \A j \in DOMAIN one : j = 1
    BY <1>4
  <2> HIDE DEF whole
  <2> QED
    BY <1>4, <2>1, <2>2
<1>7. DOMAIN rest \subseteq Nat \ {0}
  BY <1>0, LenProperties
<1> HIDE DEF whole
<1>8. \A j \in DOMAIN rest : \E c \in U : up[c] = {id} /\ rest[j].lane \in sub[c]
  BY <1>1
<1>9. \A j \in DOMAIN rest : rest[j].lane # id
  <2>1. \A c \in U : up[c] = {id} => id \notin sub[c]
    BY DEF IsBranching
  <2> QED
    BY <1>8, <2>1
<1>10. \A j \in DOMAIN whole : whole[j].depth = rank[whole[j].lane]
  BY <1>1, <1>3, <1>6
<1>11. ASSUME NEW i \in DOMAIN whole, NEW j \in DOMAIN whole, whole[i].lane = whole[j].lane
       PROVE  i = j
  <2>1. CASE i = 1 \/ j = 1
    BY <1>3, <1>6, <1>9, <1>11, <2>1
  <2>2. CASE i # 1 /\ j # 1
    <3>1. PICK g \in DOMAIN rest : i = 1 + g
      BY <1>6, <2>2
    <3>2. PICK h \in DOMAIN rest : j = 1 + h
      BY <1>6, <2>2
    <3> QED
      BY <1>1, <1>6, <1>11, <3>1, <3>2
  <2> QED
    BY <2>1, <2>2
<1>12. {whole[j].lane : j \in DOMAIN whole} = sub[id]
  <2>1. ASSUME NEW j \in DOMAIN whole
        PROVE  whole[j].lane \in sub[id]
    <3>1. CASE j = 1
      BY <1>3, <1>6, <3>1 DEF IsBranching
    <3>2. CASE j # 1
      <4>1. PICK i \in DOMAIN rest : j = 1 + i
        BY <1>6, <3>2
      <4>2. PICK c \in U : up[c] = {id} /\ rest[i].lane \in sub[c]
        BY <1>8
      <4> QED
        BY <1>6, <4>1, <4>2 DEF IsBranching
    <3> QED
      BY <3>1, <3>2
  <2>2. ASSUME NEW l \in sub[id]
        PROVE  \E j \in DOMAIN whole : whole[j].lane = l
    <3>1. CASE l = id
      BY <1>3, <1>6, <3>1
    <3>2. CASE l # id
      <4>1. PICK c \in U : up[c] = {id} /\ l \in sub[c]
        BY <3>2 DEF IsBranching
      <4>2. l \in {rest[j].lane : j \in DOMAIN rest}
        BY <1>1, <4>1
      <4>3. PICK j \in DOMAIN rest : rest[j].lane = l
        BY <4>2
      <4> QED
        BY <1>6, <4>3
    <3> QED
      BY <3>1, <3>2
  <2> QED
    BY <2>1, <2>2
<1>13. ASSUME NEW j \in DOMAIN whole, whole[j].lane # id
       PROVE  HasAbove(whole, j, up)
  <2>1. PICK i \in DOMAIN rest : j = 1 + i
    BY <1>3, <1>6, <1>13
  <2>2. whole[j] = rest[i] /\ 1 < j
    BY <1>6, <1>7, <2>1
  <2>3. CASE up[rest[i].lane] = {id}
    BY <1>3, <1>6, <2>2, <2>3 DEF HasAbove
  <2>4. CASE HasAbove(rest, i, up)
    <3>1. PICK h \in DOMAIN rest : h < i /\ up[rest[i].lane] = {rest[h].lane}
      BY <2>4 DEF HasAbove
    <3>2. 1 + h \in DOMAIN whole /\ whole[1 + h] = rest[h] /\ 1 + h < j
      BY <1>6, <1>7, <2>1, <3>1
    <3> QED
      BY <2>2, <3>1, <3>2 DEF HasAbove
  <2> QED
    BY <1>1, <2>3, <2>4
<1>14. AreLines(whole, U, rank)
  BY <1>5, <1>10, <1>11 DEF AreLines, Lines
<1>15. 1 \in DOMAIN whole /\ whole[1].lane = id
  BY <1>3, <1>6
<1> QED
  BY <1>12, <1>13, <1>14, <1>15 DEF IsBranch, whole, one

\* Lines and the lanes they stand for.
Names(s, t) == /\ Len(s) = Len(t) /\ DOMAIN s = DOMAIN t
               /\ \A j \in DOMAIN s : s[j].lane = t[j].id

LEMMA NamesConcat ==
  ASSUME NEW S, NEW s1 \in Seq(S), NEW s2 \in Seq(S),
         NEW T, NEW t1 \in Seq(T), NEW t2 \in Seq(T), Names(s1, t1), Names(s2, t2)
  PROVE  Names(s1 \o s2, t1 \o t2)
<1>1. /\ s1 \o s2 \in Seq(S) /\ Len(s1 \o s2) = Len(s1) + Len(s2)
      /\ t1 \o t2 \in Seq(T) /\ Len(t1 \o t2) = Len(t1) + Len(t2)
  BY ConcatProperties
<1>2. Len(s1 \o s2) = Len(t1 \o t2) /\ DOMAIN (s1 \o s2) = DOMAIN (t1 \o t2)
  <2>1. Len(s1 \o s2) = Len(t1 \o t2)
    BY <1>1 DEF Names
  <2> QED
    BY <1>1, <2>1, LenProperties
<1>3. /\ \A j \in DOMAIN s1 : (s1 \o s2)[j] = s1[j]
      /\ \A j \in DOMAIN s2 : (s1 \o s2)[Len(s1) + j] = s2[j]
      /\ \A j \in DOMAIN (s1 \o s2) : j \in DOMAIN s1 \/ \E i \in DOMAIN s2 : j = Len(s1) + i
  BY ConcatIs
<1>4. /\ \A j \in DOMAIN t1 : (t1 \o t2)[j] = t1[j]
      /\ \A j \in DOMAIN t2 : (t1 \o t2)[Len(t1) + j] = t2[j]
  BY ConcatIs
<1> DEFINE s == s1 \o s2
           t == t1 \o t2
<1> HIDE DEF s, t
<1>5. \A j \in DOMAIN s : s[j].lane = t[j].id
  BY <1>3, <1>4 DEF Names, s, t
<1> QED
  BY <1>2, <1>5 DEF Names, s, t

LEMMA NamesFlatten ==
  ASSUME NEW S, NEW ss \in Seq(Seq(S)), NEW T, NEW ts \in Seq(Seq(T)),
         Len(ss) = Len(ts), \A k \in 1 .. Len(ss) : Names(ss[k], ts[k])
  PROVE  Names(FlattenSeq(ss), FlattenSeq(ts))
<1> DEFINE n == Len(ss)
<1>1. n \in Nat /\ \A k \in 1 .. n : ss[k] \in Seq(S) /\ ts[k] \in Seq(T)
  BY LenProperties, ElementOfSeq
<1>2. PICK f : /\ f[0] = <<>>
               /\ \A k \in 1 .. n : f[k] = f[k - 1] \o ss[k]
               /\ \A k \in 0 .. n : f[k] \in Seq(S)
               /\ FlattenSeq(ss) = f[n]
  BY FlattenWalk
<1>3. PICK g : /\ g[0] = <<>>
               /\ \A k \in 1 .. n : g[k] = g[k - 1] \o ts[k]
               /\ \A k \in 0 .. n : g[k] \in Seq(T)
               /\ FlattenSeq(ts) = g[n]
  <2>1. Len(ts) = n
    OBVIOUS
  <2>2. \E g : /\ g[0] = <<>>
               /\ \A k \in 1 .. Len(ts) : g[k] = g[k - 1] \o ts[k]
               /\ \A k \in 0 .. Len(ts) : g[k] \in Seq(T)
               /\ FlattenSeq(ts) = g[Len(ts)]
    BY FlattenWalk
  <2> HIDE DEF n
  <2> QED
    BY <2>1, <2>2
<1>4. \A k \in 1 .. n : Names(ss[k], ts[k])
  OBVIOUS
<1> HIDE DEF n
<1> DEFINE R == {k \in 0 .. n : Names(f[k], g[k])}
<1>5. 0 \in R
  <2>1. Names(f[0], g[0])
    BY <1>2, <1>3 DEF Names
  <2> QED
    BY <1>1, <2>1
<1>6. ASSUME NEW m \in Nat, m < n, m \in R
      PROVE  m + 1 \in R
  <2> DEFINE k == m + 1
  <2>1. k \in 1 .. n /\ k \in 0 .. n /\ k - 1 = m /\ m \in 0 .. n
    BY <1>1, <1>6
  <2>2. Names(f[m], g[m])
    BY <1>6
  <2> HIDE DEF k, R
  <2>3. f[k] = f[k - 1] \o ss[k] /\ g[k] = g[k - 1] \o ts[k]
    BY <1>2, <1>3, <2>1
  <2>4. f[k] = f[m] \o ss[k] /\ g[k] = g[m] \o ts[k]
    BY <2>1, <2>3
  <2>5. Names(ss[k], ts[k]) /\ f[m] \in Seq(S) /\ ss[k] \in Seq(S) /\ g[m] \in Seq(T) /\ ts[k] \in Seq(T)
    BY <1>1, <1>2, <1>3, <1>4, <2>1
  <2>6. Names(f[m] \o ss[k], g[m] \o ts[k])
    BY <2>2, <2>5, NamesConcat
  <2>7. Names(f[k], g[k])
    BY <2>4, <2>6
  <2> QED
    BY <2>1, <2>7 DEF R, k
<1>7. n \in R
  <2> HIDE DEF R
  <2>1. \A k \in 0 .. n : k \in R
    BY <1>1, <1>5, <1>6, UpTo
  <2> QED
    BY <1>1, <2>1
<1> QED
  BY <1>2, <1>3, <1>7

----------------------------------------------------------------------------
(* The catalog as a forest *)

\* Every lane is a root or one step below another.
IsForest(catalog, rank) ==
  /\ IsSequence(catalog)
  /\ \A i, j \in DOMAIN catalog : catalog[i].id = catalog[j].id => i = j
  /\ rank \in [Ids(catalog) -> Nat]
  /\ \A lane \in ToSet(catalog) :
       \/ lane.parent = {} /\ rank[lane.id] = 0
       \/ \E p \in Ids(catalog) : lane.parent = {p} /\ rank[lane.id] = rank[p] + 1

Parents(catalog) == [id \in Ids(catalog) |-> (CHOOSE lane \in ToSet(catalog) : lane.id = id).parent]

LEMMA ForestIs ==
  ASSUME NEW catalog, NEW rank, IsForest(catalog, rank)
  PROVE  /\ \A lane \in ToSet(catalog) : Parents(catalog)[lane.id] = lane.parent
         /\ IsTree(Ids(catalog), rank, Parents(catalog))
         /\ IsFiniteSet(Ids(catalog)) /\ Cardinality(Ids(catalog)) = Len(catalog)
<1>1. \A i, j \in DOMAIN catalog : catalog[i].id = catalog[j].id => i = j
  BY DEF IsForest
<1>2. \A k, l \in ToSet(catalog) : k.id = l.id => k = l
  BY <1>1 DEF ToSet
<1>3. \A lane \in ToSet(catalog) : lane.id \in Ids(catalog)
  BY DEF Ids
<1>4. \A lane \in ToSet(catalog) : Parents(catalog)[lane.id] = lane.parent
  BY <1>2, <1>3 DEF Parents
<1>5. IsTree(Ids(catalog), rank, Parents(catalog))
  <2>1. ASSUME NEW id \in Ids(catalog)
        PROVE  \/ Parents(catalog)[id] = {} /\ rank[id] = 0
               \/ \E p \in Ids(catalog) : Parents(catalog)[id] = {p} /\ rank[id] = rank[p] + 1
    <3>1. PICK lane \in ToSet(catalog) : lane.id = id
      BY DEF Ids
    <3> QED
      BY <1>4, <3>1 DEF IsForest
  <2>2. rank \in [Ids(catalog) -> Nat]
    BY DEF IsForest
  <2> QED
    BY <2>1, <2>2 DEF IsTree
<1> DEFINE idAt == [i \in DOMAIN catalog |-> catalog[i].id]
<1>6. Len(catalog) \in Nat /\ DOMAIN catalog = 1 .. Len(catalog)
  BY DEF IsForest, IsSequence
<1>7. idAt \in Bijection(1 .. Len(catalog), Ids(catalog))
  <2>1. \A i \in 1 .. Len(catalog) : idAt[i] \in Ids(catalog)
    BY <1>6 DEF Ids, ToSet
  <2>2. idAt \in [1 .. Len(catalog) -> Ids(catalog)]
    BY <1>6, <2>1
  <2>3. \A i, j \in 1 .. Len(catalog) : idAt[i] = idAt[j] => i = j
    BY <1>1, <1>6
  <2>4. \A id \in Ids(catalog) : \E i \in 1 .. Len(catalog) : idAt[i] = id
    BY <1>6 DEF Ids, ToSet
  <2> HIDE DEF idAt
  <2> QED
    BY <2>2, <2>3, <2>4 DEF Bijection, Injection, Surjection, IsInjective
<1>8. IsFiniteSet(Ids(catalog)) /\ Cardinality(Ids(catalog)) = Len(catalog)
  <2>1. IsFiniteSet(1 .. Len(catalog)) /\ Cardinality(1 .. Len(catalog)) = Len(catalog)
    <3> DEFINE n == Len(catalog)
    <3>1. n \in Nat
      BY <1>6
    <3> HIDE DEF n
    <3>2. IsFiniteSet(1 .. n) /\ Cardinality(1 .. n) = IF 1 > n THEN 0 ELSE n - 1 + 1
      BY <3>1, FS_Interval
    <3>3. IsFiniteSet(1 .. n) /\ Cardinality(1 .. n) = n
      BY <3>1, <3>2
    <3> QED
      BY <3>3 DEF n
  <2> HIDE DEF idAt
  <2> QED
    BY <1>7, <2>1, FS_Bijection DEF ExistsBijection
<1> QED
  BY <1>4, <1>5, <1>8

\* What is picked out of lanes with different ids has different ids.
LEMMA PickedOnce ==
  ASSUME NEW catalog, IsSequence(catalog),
         \A i, j \in DOMAIN catalog : catalog[i].id = catalog[j].id => i = j,
         NEW I \in SUBSET DOMAIN catalog
  PROVE  \A k, l \in DOMAIN Picked(catalog, I) :
           Picked(catalog, I)[k].id = Picked(catalog, I)[l].id => k = l
<1>1. I \in SUBSET Int /\ IsFiniteSet(I)
  <2>1. Len(catalog) \in Nat /\ I \in SUBSET (1 .. Len(catalog))
    BY DEF IsSequence
  <2>2. IsFiniteSet(1 .. Len(catalog))
    BY <2>1, FS_Interval
  <2> QED BY <2>1, <2>2, FS_Subset
<1> DEFINE n == Cardinality(I)
           picked == Picked(catalog, I)
<1>2. /\ n \in Nat /\ DOMAIN Ascending(I) = 1 .. n
      /\ \A k \in 1 .. n : Ascending(I)[k] \in I
      /\ \A k, l \in 1 .. n : k < l => Ascending(I)[k] < Ascending(I)[l]
  BY <1>1, AscendingLists
<1>3. DOMAIN picked = 1 .. n /\ \A k \in 1 .. n : picked[k] = catalog[Ascending(I)[k]]
  BY <1>2 DEF Picked
<1> HIDE DEF n, picked
<1>4. ASSUME NEW k \in 1 .. n, NEW l \in 1 .. n, picked[k].id = picked[l].id
      PROVE  k = l
  <2>1. Ascending(I)[k] = Ascending(I)[l] /\ Ascending(I)[k] \in Int
    BY <1>1, <1>2, <1>3, <1>4
  <2>2. ~(k < l) /\ ~(l < k)
    BY <1>2, <2>1
  <2> QED
    BY <2>2
<1> QED
  BY <1>3, <1>4 DEF picked

\* The lanes of a catalog right below the same.
Under(catalog, above) == Picked(catalog, {i \in DOMAIN catalog : catalog[i].parent = above})

LEMMA UnderIs ==
  ASSUME NEW catalog, IsSequence(catalog),
         \A i, j \in DOMAIN catalog : catalog[i].id = catalog[j].id => i = j,
         NEW above
  PROVE  LET kids == Under(catalog, above)
         IN  /\ IsSequence(kids)
             /\ \A k \in DOMAIN kids : /\ kids[k] \in ToSet(catalog)
                                       /\ kids[k].id \in Ids(catalog) /\ kids[k].parent = above
             /\ \A lane \in ToSet(catalog) : lane.parent = above => \E k \in DOMAIN kids : kids[k] = lane
             /\ \A k, l \in DOMAIN kids : kids[k].id = kids[l].id => k = l
<1> DEFINE I == {i \in DOMAIN catalog : catalog[i].parent = above}
           kids == Under(catalog, above)
<1>1. I \in SUBSET DOMAIN catalog
  OBVIOUS
<1>2. kids = Picked(catalog, I)
  BY DEF Under
<1>3. \A i \in I : catalog[i].parent = above
  OBVIOUS
<1>4. \A lane \in ToSet(catalog) : lane.parent = above => \E i \in I : lane = catalog[i]
  BY DEF ToSet
<1> HIDE DEF I, kids
<1>5. /\ IsSequence(kids) /\ IsFiniteSet(I)
      /\ \A k \in DOMAIN kids : \E i \in I : kids[k] = catalog[i]
      /\ \A i \in I : \E k \in DOMAIN kids : kids[k] = catalog[i]
  BY <1>1, <1>2, PickedIs
<1>6. \A k \in DOMAIN kids : kids[k] \in ToSet(catalog) /\ kids[k].parent = above
  BY <1>1, <1>3, <1>5 DEF ToSet
<1>7. \A k \in DOMAIN kids : kids[k].id \in Ids(catalog)
  BY <1>6 DEF Ids
<1>8. \A lane \in ToSet(catalog) : lane.parent = above => \E k \in DOMAIN kids : kids[k] = lane
  BY <1>4, <1>5
<1>9. \A k, l \in DOMAIN kids : kids[k].id = kids[l].id => k = l
  BY <1>1, <1>2, PickedOnce
<1> QED
  BY <1>5, <1>6, <1>7, <1>8, <1>9 DEF kids

\* The walk down from each lane, by the number of steps it may take.
WalkLine(catalog, height, id) == [lane |-> id, depth |-> Len(catalog) - height]

Walked(catalog, below, id) ==
  [k \in DOMAIN Under(catalog, {id}) |-> below[Under(catalog, {id})[k].id]]

IsWalk(F, catalog) ==
  \A id \in Ids(catalog) :
    /\ F[0][id] = <<WalkLine(catalog, 0, id)>> \o <<>>
    /\ \A height \in 1 .. Len(catalog) :
         F[height][id] = <<WalkLine(catalog, height, id)>>
                           \o FlattenSeq(Walked(catalog, F[height - 1], id))

LEMMA WalkIs ==
  ASSUME NEW catalog, IsSequence(catalog),
         \A i, j \in DOMAIN catalog : catalog[i].id = catalog[j].id => i = j
  PROVE  \E F : IsWalk(F, catalog) /\ \A id : Walk(catalog, id) = F[Len(catalog)][id]
<1> DEFINE n == Len(catalog)
           U == Ids(catalog)
           Lines == [lane : U, depth : Nat]
           X == [U -> Seq(Lines)]
           base == [id \in U |-> <<WalkLine(catalog, 0, id)>> \o <<>>]
           Step(height, below) ==
             [id \in U |-> <<WalkLine(catalog, height, id)>>
                             \o FlattenSeq(Walked(catalog, below, id))]
           next == [height \in 1 .. n |-> [below \in X |-> Step(height, below)]]
           Unfolds(f) ==
             f = [height \in 0 .. n |->
                    [lane \in U |->
                       <<[lane |-> lane, depth |-> n - height]>> \o
                         IF height = 0 THEN <<>>
                         ELSE FlattenSeq([k \in DOMAIN Children(catalog, lane) |->
                                            f[height - 1][Children(catalog, lane)[k].id]])]]
           F == CHOOSE f : Unfolds(f)
<1>1. \A id : Walk(catalog, id) = F[n][id]
  BY DEF Walk
<1>2. n \in Nat
  BY DEF IsSequence
<1>3. \A id : Children(catalog, id) = Under(catalog, {id})
  BY DEF Children, Where, Under
<1>4. \A id : LET kids == Under(catalog, {id})
              IN  IsSequence(kids) /\ \A k \in DOMAIN kids : kids[k].id \in U
  BY UnderIs
<1>5. ASSUME NEW height \in 0 .. n, NEW id \in U
      PROVE  WalkLine(catalog, height, id) \in Lines
  BY <1>2 DEF WalkLine
<1> HIDE DEF Lines
<1>6. ASSUME NEW below \in X, NEW id \in U
      PROVE  Walked(catalog, below, id) \in Seq(Seq(Lines))
  <2> DEFINE kids == Under(catalog, {id})
             parts == Walked(catalog, below, id)
  <2>1. IsSequence(kids) /\ \A k \in DOMAIN kids : kids[k].id \in U
    BY <1>4
  <2>2. parts = [k \in DOMAIN kids |-> below[kids[k].id]]
    BY DEF Walked
  <2>3. \A k \in DOMAIN kids : below[kids[k].id] \in Seq(Lines)
    BY <1>6, <2>1
  <2> HIDE DEF kids, parts
  <2> DEFINE f == [k \in DOMAIN kids |-> below[kids[k].id]]
  <2>4. parts = [k \in DOMAIN kids |-> f[k]]
    BY <2>2
  <2>5. \A k \in DOMAIN kids : parts[k] \in Seq(Lines)
    BY <2>2, <2>3
  <2> HIDE DEF f
  <2>6. IsSequence(parts) /\ DOMAIN parts = DOMAIN kids
    BY <2>1, <2>4, MappedIs
  <2> QED
    BY <2>5, <2>6, SequenceOf DEF parts
<1>7. ASSUME NEW height \in 0 .. n, NEW id \in U
      PROVE  <<WalkLine(catalog, height, id)>> \in Seq(Lines)
  BY <1>5
<1>8. base \in X
  <2>1. \A id \in U : <<WalkLine(catalog, 0, id)>> \o <<>> \in Seq(Lines)
    <3>1. 0 \in 0 .. n
      BY <1>2
    <3> QED
      BY <1>7, <3>1, EmptySeq, ConcatProperties
  <2> QED
    BY <2>1
<1>9. ASSUME NEW height \in 1 .. n, NEW below \in X
      PROVE  Step(height, below) \in X
  <2>1. ASSUME NEW id \in U
        PROVE  <<WalkLine(catalog, height, id)>> \o FlattenSeq(Walked(catalog, below, id)) \in Seq(Lines)
    <3>1. height \in 0 .. n
      BY <1>2
    <3>2. FlattenSeq(Walked(catalog, below, id)) \in Seq(Lines)
      BY <1>6, FlattenMerges
    <3> QED
      BY <1>7, <3>1, <3>2, ConcatProperties
  <2> QED
    BY <2>1
<1> HIDE DEF base, X, n, U
<1>10. next \in Steps(n, X)
  <2> HIDE DEF Step
  <2> QED
    BY <1>9 DEF Steps
<1>11. \A height \in 1 .. n : \A below \in X : next[height][below] = Step(height, below)
  <2> HIDE DEF Step
  <2> QED
    OBVIOUS
<1> HIDE DEF next
<1>12. PICK g : IsMade(g, n, X, base, next)
  BY <1>2, <1>8, <1>10, Iterated
<1>13. \A k \in 1 .. n : g[k] = Step(k, g[k - 1])
  <2>1. \A k \in 1 .. n : k - 1 \in 0 .. n
    BY <1>2
  <2> HIDE DEF Step
  <2> QED
    BY <1>11, <1>12, <2>1 DEF IsMade
<1>14. Unfolds(g)
  <2> DEFINE Body(height) ==
               [lane \in U |->
                  <<[lane |-> lane, depth |-> n - height]>> \o
                    IF height = 0 THEN <<>>
                    ELSE FlattenSeq([k \in DOMAIN Children(catalog, lane) |->
                                       g[height - 1][Children(catalog, lane)[k].id]])]
  <2>1. g[0] = Body(0)
    BY <1>12 DEF base, WalkLine, n, IsMade
  <2>2. ASSUME NEW k \in 1 .. n
        PROVE  g[k] = Body(k)
    <3>1. k # 0
      OBVIOUS
    <3>2. Body(k) =
             [lane \in U |->
                  <<[lane |-> lane, depth |-> n - k]>> \o
                    FlattenSeq([j \in DOMAIN Children(catalog, lane) |->
                                       g[k - 1][Children(catalog, lane)[j].id]])]
      BY <3>1
    <3>3. Step(k, g[k - 1]) =
             [lane \in U |->
                  <<[lane |-> lane, depth |-> n - k]>> \o
                    FlattenSeq([j \in DOMAIN Children(catalog, lane) |->
                                       g[k - 1][Children(catalog, lane)[j].id]])]
      <4>1. ASSUME NEW lane \in U
            PROVE  <<WalkLine(catalog, k, lane)>> \o FlattenSeq(Walked(catalog, g[k - 1], lane)) =
                   <<[lane |-> lane, depth |-> n - k]>> \o
                     FlattenSeq([j \in DOMAIN Children(catalog, lane) |->
                                   g[k - 1][Children(catalog, lane)[j].id]])
        BY <1>3 DEF WalkLine, Walked, n
      <4> QED
        BY <4>1
    <3> HIDE DEF Body, Step
    <3> QED
      BY <1>13, <3>2, <3>3
  <2>3. \A k \in 0 .. n : k = 0 \/ k \in 1 .. n
    BY <1>2
  <2> HIDE DEF Body
  <2>4. \A k \in 0 .. n : g[k] = Body(k)
    BY <2>1, <2>2, <2>3
  <2>5. g = [k \in 0 .. n |-> Body(k)]
    BY <1>12, <2>4 DEF IsMade
  <2> QED
    BY <2>5 DEF Body
<1>15. Unfolds(F)
  <2> HIDE DEF Unfolds
  <2> QED
    BY <1>14
<1> HIDE DEF F
<1>16. ASSUME NEW id \in U
       PROVE  /\ F[0][id] = <<WalkLine(catalog, 0, id)>> \o <<>>
              /\ \A height \in 1 .. n :
                   F[height][id] = <<WalkLine(catalog, height, id)>>
                                     \o FlattenSeq(Walked(catalog, F[height - 1], id))
  <2>1. 0 \in 0 .. n /\ \A k \in 1 .. n : k \in 0 .. n /\ k # 0
    BY <1>2
  <2>2. F[0][id] = <<[lane |-> id, depth |-> n - 0]>> \o <<>>
    BY <1>15, <2>1
  <2>3. ASSUME NEW height \in 1 .. n
        PROVE  F[height][id] =
                 <<[lane |-> id, depth |-> n - height]>> \o
                   FlattenSeq([k \in DOMAIN Children(catalog, id) |->
                                 F[height - 1][Children(catalog, id)[k].id]])
    <3> DEFINE rest == FlattenSeq([k \in DOMAIN Children(catalog, id) |->
                                     F[height - 1][Children(catalog, id)[k].id]])
    <3>1. F[height][id] = <<[lane |-> id, depth |-> n - height]>> \o
                            IF height = 0 THEN <<>> ELSE rest
      <4> DEFINE R(k, lane) == FlattenSeq([j \in DOMAIN Children(catalog, lane) |->
                                             F[k - 1][Children(catalog, lane)[j].id]])
      <4>1. F = [k \in 0 .. n |-> [lane \in U |-> <<[lane |-> lane, depth |-> n - k]>> \o
                                       IF k = 0 THEN <<>> ELSE R(k, lane)]]
        BY <1>15
      <4>2. rest = R(height, id)
        OBVIOUS
      <4> HIDE DEF R, rest
      <4> QED
        BY <2>1, <4>1, <4>2
    <3> HIDE DEF rest, Unfolds
    <3>2. F[height][id] = <<[lane |-> id, depth |-> n - height]>> \o rest
      BY <2>1, <3>1
    <3> QED
      BY <3>2 DEF rest
  <2> HIDE DEF Unfolds
  <2> QED
    BY <1>3, <2>2, <2>3 DEF WalkLine, Walked, n
<1>17. IsWalk(F, catalog)
  BY <1>16 DEF IsWalk, n, U
<1> QED
  BY <1>1, <1>17 DEF n

\* The lanes below each lane, by the number of steps taken.
Each(kids, below) == [k \in DOMAIN kids |-> <<kids[k]>> \o below[kids[k].id]]

IsDescent(B, catalog) ==
  \A id \in Ids(catalog) :
    /\ B[0][id] = <<>>
    /\ \A height \in 1 .. Len(catalog) :
         B[height][id] = FlattenSeq(Each(Under(catalog, {id}), B[height - 1]))

LEMMA DescendantsAre ==
  ASSUME NEW catalog, IsSequence(catalog),
         \A i, j \in DOMAIN catalog : catalog[i].id = catalog[j].id => i = j
  PROVE  \E B : /\ IsDescent(B, catalog)
               /\ B \in [0 .. Len(catalog) -> [Ids(catalog) -> Seq(ToSet(catalog))]]
               /\ \A id : Descendants(catalog, id) = B[Len(catalog)][id]
<1> DEFINE n == Len(catalog)
           U == Ids(catalog)
           Lanes == ToSet(catalog)
           X == [U -> Seq(Lanes)]
           base == [id \in U |-> <<>>]
           Step(below) == [id \in U |-> FlattenSeq(Each(Under(catalog, {id}), below))]
           next == [height \in 1 .. n |-> [below \in X |-> Step(below)]]
           Unfolds(f) ==
             f = [height \in 0 .. n |->
                    [parent \in U |->
                       IF height = 0 THEN <<>>
                       ELSE FlattenSeq(Each(Children(catalog, parent), f[height - 1]))]]
           B == CHOOSE f : Unfolds(f)
<1>1. \A id : Descendants(catalog, id) = B[n][id]
  BY DEF Descendants, Each
<1>2. n \in Nat
  BY DEF IsSequence
<1>3. \A id : Children(catalog, id) = Under(catalog, {id})
  BY DEF Children, Where, Under
<1>4. \A id : LET kids == Under(catalog, {id})
              IN  IsSequence(kids) /\ \A k \in DOMAIN kids : kids[k] \in Lanes /\ kids[k].id \in U
  BY UnderIs
<1> HIDE DEF Lanes
<1>5. ASSUME NEW below \in X, NEW id \in U
      PROVE  Each(Under(catalog, {id}), below) \in Seq(Seq(Lanes))
  <2> DEFINE kids == Under(catalog, {id})
             parts == Each(Under(catalog, {id}), below)
  <2>1. IsSequence(kids) /\ \A k \in DOMAIN kids : kids[k] \in Lanes /\ kids[k].id \in U
    BY <1>4
  <2>2. parts = [k \in DOMAIN kids |-> <<kids[k]>> \o below[kids[k].id]]
    BY DEF Each
  <2> HIDE DEF kids, parts
  <2>3. ASSUME NEW k \in DOMAIN kids
        PROVE  <<kids[k]>> \o below[kids[k].id] \in Seq(Lanes)
    <3>1. <<kids[k]>> \in Seq(Lanes) /\ below[kids[k].id] \in Seq(Lanes)
      BY <1>5, <2>1
    <3> QED
      BY <3>1, ConcatProperties
  <2> DEFINE f == [k \in DOMAIN kids |-> <<kids[k]>> \o below[kids[k].id]]
  <2>4. parts = [k \in DOMAIN kids |-> f[k]]
    BY <2>2
  <2>5. \A k \in DOMAIN kids : parts[k] \in Seq(Lanes)
    BY <2>2, <2>3
  <2> HIDE DEF f
  <2>6. IsSequence(parts) /\ DOMAIN parts = DOMAIN kids
    BY <2>1, <2>4, MappedIs
  <2> QED
    BY <2>5, <2>6, SequenceOf DEF parts
<1>6. base \in X
  BY EmptySeq
<1>7. ASSUME NEW below \in X
      PROVE  Step(below) \in X
  <2>1. \A id \in U : FlattenSeq(Each(Under(catalog, {id}), below)) \in Seq(Lanes)
    BY <1>5, <1>7, FlattenMerges
  <2> QED
    BY <2>1
<1> HIDE DEF base, n, U
<1>8. next \in Steps(n, X)
  <2> HIDE DEF Step, X
  <2> QED
    BY <1>7 DEF Steps
<1>9. \A height \in 1 .. n : \A below \in X : next[height][below] = Step(below)
  <2> HIDE DEF Step, X
  <2> QED
    OBVIOUS
<1> HIDE DEF next, X
<1>10. PICK g : IsMade(g, n, X, base, next)
  BY <1>2, <1>6, <1>8, Iterated
<1>11. \A k \in 1 .. n : g[k] = Step(g[k - 1])
  <2>1. \A k \in 1 .. n : k - 1 \in 0 .. n
    BY <1>2
  <2> HIDE DEF Step
  <2> QED
    BY <1>9, <1>10, <2>1 DEF IsMade
<1>12. Unfolds(g)
  <2> DEFINE Body(height) ==
               [parent \in U |->
                  IF height = 0 THEN <<>>
                  ELSE FlattenSeq(Each(Children(catalog, parent), g[height - 1]))]
  <2>1. g[0] = Body(0)
    BY <1>10 DEF base, IsMade
  <2>2. ASSUME NEW k \in 1 .. n
        PROVE  g[k] = Body(k)
    <3>1. k # 0
      OBVIOUS
    <3>2. Body(k) =
            [parent \in U |->
               FlattenSeq(Each(Children(catalog, parent), g[k - 1]))]
      BY <3>1
    <3>3. Step(g[k - 1]) =
            [parent \in U |->
               FlattenSeq(Each(Children(catalog, parent), g[k - 1]))]
      <4>1. ASSUME NEW parent \in U
            PROVE  FlattenSeq(Each(Under(catalog, {parent}), g[k - 1])) =
                   FlattenSeq(Each(Children(catalog, parent), g[k - 1]))
        BY <1>3
      <4> QED
        BY <4>1
    <3> HIDE DEF Body, Step
    <3> QED
      BY <1>11, <3>2, <3>3
  <2>3. \A k \in 0 .. n : k = 0 \/ k \in 1 .. n
    BY <1>2
  <2> HIDE DEF Body
  <2>4. \A k \in 0 .. n : g[k] = Body(k)
    BY <2>1, <2>2, <2>3
  <2>5. g = [k \in 0 .. n |-> Body(k)]
    BY <1>10, <2>4 DEF IsMade
  <2> QED
    BY <2>5 DEF Body
<1>13. Unfolds(B)
  <2> HIDE DEF Unfolds
  <2> QED
    BY <1>12
<1> HIDE DEF B
<1>14. ASSUME NEW id \in U
       PROVE  /\ B[0][id] = <<>>
              /\ \A height \in 1 .. n :
                   B[height][id] = FlattenSeq(Each(Under(catalog, {id}), B[height - 1]))
  <2>1. 0 \in 0 .. n /\ \A k \in 1 .. n : k \in 0 .. n /\ k # 0
    BY <1>2
  <2> DEFINE R(k, parent) ==
               FlattenSeq(Each(Children(catalog, parent), B[k - 1]))
  <2>2. B = [k \in 0 .. n |-> [parent \in U |-> IF k = 0 THEN <<>> ELSE R(k, parent)]]
    BY <1>13
  <2>3. \A k \in 1 .. n : R(k, id) = FlattenSeq(Each(Under(catalog, {id}), B[k - 1]))
    BY <1>3
  <2> HIDE DEF R, Unfolds
  <2> QED
    BY <2>1, <2>2, <2>3
<1>15. IsDescent(B, catalog)
  BY <1>14 DEF IsDescent, n, U
<1>16. B \in [0 .. n -> X]
  <2> DEFINE Typed == {k \in 0 .. n : B[k] \in X}
  <2>1. DOMAIN B = 0 .. n /\ \A k \in 0 .. n : B[k] = [id \in U |-> B[k][id]]
    BY <1>13
  <2> HIDE DEF Unfolds
  <2>2. 0 \in Typed
    <3>1. 0 \in 0 .. n
      BY <1>2
    <3>2. B[0] = base
      BY <1>14, <2>1, <3>1 DEF base
    <3> QED
      BY <1>6, <3>1, <3>2
  <2>3. ASSUME NEW m \in Nat, m < n, m \in Typed
        PROVE  m + 1 \in Typed
    <3> DEFINE k == m + 1
    <3>1. k \in 1 .. n /\ k \in 0 .. n /\ k - 1 = m /\ B[m] \in X
      BY <1>2, <2>3
    <3> HIDE DEF k, Typed
    <3>2. \A id \in U : B[k][id] = FlattenSeq(Each(Under(catalog, {id}), B[k - 1]))
      BY <1>14, <3>1
    <3>3. B[k] = Step(B[m])
      BY <2>1, <3>1, <3>2
    <3>4. B[k] \in X
      BY <1>7, <3>1, <3>3
    <3> QED
      BY <3>1, <3>4 DEF k, Typed
  <2>4. \A k \in 0 .. n : k \in Typed
    <3> HIDE DEF Typed
    <3> QED
      BY <1>2, <2>2, <2>3, UpTo
  <2>5. B = [k \in 0 .. n |-> B[k]]
    <3> DEFINE R(k) == [parent \in U |->
                          IF k = 0 THEN <<>>
                          ELSE FlattenSeq(Each(Children(catalog, parent), B[k - 1]))]
    <3>1. B = [k \in 0 .. n |-> R(k)]
      BY <1>13 DEF Unfolds
    <3> HIDE DEF R, Unfolds
    <3> QED
      BY <3>1
  <2> HIDE DEF Unfolds
  <2> QED
    BY <2>4, <2>5
<1> QED
  BY <1>1, <1>15, <1>16 DEF n, X, U, Lanes

----------------------------------------------------------------------------
(* The tree of a forest *)

\* The branches of those right below the same are parts.
LEMMA KidsAreParts ==
  ASSUME NEW catalog, NEW rank, IsForest(catalog, rank), NEW sub, NEW above, NEW below,
         \A k \in DOMAIN Under(catalog, above) :
           IsBranch(below[Under(catalog, above)[k].id], Under(catalog, above)[k].id,
                    Ids(catalog), rank, Parents(catalog), sub)
  PROVE  LET kids == Under(catalog, above)
         IN  AreParts([k \in DOMAIN kids |-> below[kids[k].id]], [k \in DOMAIN kids |-> kids[k].id],
                      above, Ids(catalog), rank, Parents(catalog), sub)
<1> DEFINE U    == Ids(catalog)
           up   == Parents(catalog)
           kids == Under(catalog, above)
           ids  == [k \in DOMAIN kids |-> kids[k].id]
           parts == [k \in DOMAIN kids |-> below[kids[k].id]]
           Lines == [lane : U, depth : Nat]
<1>1. /\ IsSequence(catalog)
      /\ \A i, j \in DOMAIN catalog : catalog[i].id = catalog[j].id => i = j
  BY DEF IsForest
<1>2. /\ IsSequence(kids)
      /\ \A k \in DOMAIN kids : /\ kids[k] \in ToSet(catalog)
                                /\ kids[k].id \in U /\ kids[k].parent = above
      /\ \A lane \in ToSet(catalog) : lane.parent = above => \E k \in DOMAIN kids : kids[k] = lane
      /\ \A k, l \in DOMAIN kids : kids[k].id = kids[l].id => k = l
  BY <1>1, UnderIs
<1>3. \A lane \in ToSet(catalog) : up[lane.id] = lane.parent
  BY ForestIs
<1>4. \A k \in DOMAIN kids : IsBranch(below[kids[k].id], kids[k].id, U, rank, up, sub)
  OBVIOUS
<1>5. \A k \in DOMAIN kids : below[kids[k].id] \in Seq(Lines)
  BY <1>4 DEF IsBranch, AreLines
<1>6. \A id \in U : \E lane \in ToSet(catalog) : lane.id = id
  BY DEF Ids
<1> HIDE DEF kids, U, up, Lines
<1>7. DOMAIN parts = DOMAIN kids /\ \A k \in DOMAIN kids : parts[k] = below[kids[k].id]
  OBVIOUS
<1>8. DOMAIN ids = DOMAIN kids /\ \A k \in DOMAIN kids : ids[k] = kids[k].id
  OBVIOUS
<1>9. IsSequence(parts)
  <2> DEFINE f == [k \in DOMAIN kids |-> below[kids[k].id]]
  <2>1. parts = [k \in DOMAIN kids |-> f[k]]
    OBVIOUS
  <2> HIDE DEF f, parts
  <2> QED
    BY <1>2, <2>1, MappedIs
<1> HIDE DEF parts, ids
<1>10. parts \in Seq(Seq(Lines))
  BY <1>5, <1>7, <1>9, SequenceOf
<1>11. \A k \in DOMAIN parts : /\ ids[k] \in U /\ up[ids[k]] = above
                               /\ IsBranch(parts[k], ids[k], U, rank, up, sub)
  BY <1>2, <1>3, <1>4, <1>7, <1>8
<1>12. \A k, l \in DOMAIN parts : ids[k] = ids[l] => k = l
  BY <1>2, <1>7, <1>8
<1>13. \A c \in U : up[c] = above => \E k \in DOMAIN parts : ids[k] = c
  BY <1>2, <1>3, <1>6, <1>7, <1>8
<1>14. AreParts(parts, ids, above, U, rank, up, sub)
  BY <1>7, <1>8, <1>10, <1>11, <1>12, <1>13 DEF AreParts, Lines
<1> QED
  BY <1>14 DEF parts, ids, kids, U, up

\* A walk from a lane, with as many steps as it takes to the last of the lanes, tells
\* its branch.
LEMMA WalksTellBranches ==
  ASSUME NEW catalog, NEW rank, IsForest(catalog, rank),
         NEW sub, IsBranching(sub, Ids(catalog), rank, Parents(catalog)),
         NEW F, IsWalk(F, catalog), NEW id \in Ids(catalog), rank[id] = 0
  PROVE  IsBranch(F[Len(catalog)][id], id, Ids(catalog), rank, Parents(catalog), sub)
<1> DEFINE U  == Ids(catalog)
           up == Parents(catalog)
           n  == Len(catalog)
           T  == {h \in 0 .. n : \A l \in U : rank[l] = n - h => IsBranch(F[h][l], l, U, rank, up, sub)}
<1>1. n \in Nat
  BY DEF IsForest, IsSequence
<1>2. IsTree(U, rank, up) /\ IsFiniteSet(U) /\ Cardinality(U) = n
  BY ForestIs
<1>3. /\ IsSequence(catalog)
      /\ \A i, j \in DOMAIN catalog : catalog[i].id = catalog[j].id => i = j
  BY DEF IsForest
<1>4. \A l \in U : up[l] = {} => rank[l] = 0
  BY <1>2 DEF IsTree
<1>5. \A c, l \in U : up[c] = {l} => rank[c] = rank[l] + 1
  BY <1>2 DEF IsTree
<1>6. rank \in [U -> Nat]
  BY DEF IsForest
<1>7. \A l \in U : rank[l] < n
  BY <1>2, RankBelow
<1>8. \A lane \in ToSet(catalog) : up[lane.id] = lane.parent
  BY ForestIs
<1> HIDE DEF U, up, n
<1>9. 0 \in T
  BY <1>1, <1>6, <1>7
<1>10. ASSUME NEW m \in Nat, m < n, m \in T
       PROVE  m + 1 \in T
  <2> DEFINE h == m + 1
  <2>1. h \in 1 .. n /\ h \in 0 .. n /\ h - 1 = m /\ m = h - 1
    BY <1>1, <1>10
  <2>2. \A l \in U : rank[l] = n - m => IsBranch(F[m][l], l, U, rank, up, sub)
    BY <1>10
  <2> HIDE DEF h, T
  <2>3. ASSUME NEW l \in U, rank[l] = n - h
        PROVE  IsBranch(F[h][l], l, U, rank, up, sub)
    <3> DEFINE kids  == Under(catalog, {l})
               parts == [k \in DOMAIN kids |-> F[m][kids[k].id]]
               ids   == [k \in DOMAIN kids |-> kids[k].id]
               line  == WalkLine(catalog, h, l)
    <3>1. F[h][l] = <<line>> \o FlattenSeq(parts)
      <4>1. F[h][l] = <<line>> \o FlattenSeq(Walked(catalog, F[h - 1], l))
        BY <2>1 DEF IsWalk, U, n
      <4>2. Walked(catalog, F[h - 1], l) = parts
        BY <2>1 DEF Walked
      <4> QED
        BY <4>1, <4>2
    <3>2. line = [lane |-> l, depth |-> rank[l]]
      BY <2>3 DEF WalkLine, n
    <3>3. \A k \in DOMAIN kids : IsBranch(F[m][kids[k].id], kids[k].id, U, rank, up, sub)
      <4>1. \A k \in DOMAIN kids : /\ kids[k] \in ToSet(catalog) /\ kids[k].id \in U
                                   /\ kids[k].parent = {l}
        BY <1>3, UnderIs DEF U
      <4>2. \A k \in DOMAIN kids : rank[kids[k].id] = n - m
        <5>1. \A k \in DOMAIN kids : rank[kids[k].id] = rank[l] + 1
          <6> HIDE DEF kids, parts, ids
          <6>1. ASSUME NEW k \in DOMAIN kids
                PROVE  rank[kids[k].id] = rank[l] + 1
            <7> DEFINE c == kids[k]
            <7>1. c \in ToSet(catalog) /\ c.id \in U /\ c.parent = {l}
              BY <4>1
            <7> HIDE DEF c
            <7>2. up[c.id] = {l}
              BY <1>8, <7>1
            <7> QED
              BY <1>5, <7>1, <7>2 DEF c
          <6> QED
            BY <6>1
        <5>2. rank[l] + 1 = n - m
          BY <1>1, <2>1, <2>3
        <5> QED
          BY <5>1, <5>2
      <4> QED
        BY <2>2, <4>1, <4>2
    <3>4. AreParts(parts, ids, {l}, U, rank, up, sub)
      BY <3>3, KidsAreParts DEF U, up
    <3> HIDE DEF parts, ids, line, kids
    <3>5. AreBranches(FlattenSeq(parts), {l}, U, rank, up, sub)
      BY <3>4, BranchesJoin DEF U, up
    <3>6. IsBranch(<<line>> \o FlattenSeq(parts), l, U, rank, up, sub)
      BY <1>2, <3>2, <3>5, BranchGrows DEF U, up
    <3> QED
      BY <3>1, <3>6
  <2> QED
    BY <2>1, <2>3 DEF T, h
<1>11. n \in T
  <2> HIDE DEF T
  <2>1. \A h \in 0 .. n : h \in T
    BY <1>1, <1>9, <1>10, UpTo
  <2> QED
    BY <1>1, <2>1
<1>12. \A l \in U : rank[l] = n - n => IsBranch(F[n][l], l, U, rank, up, sub)
  BY <1>11
<1>13. n - n = 0
  BY <1>1
<1> HIDE DEF T
<1> QED
  BY <1>12, <1>13 DEF U, up, n

LEMMA TreeIs ==
  ASSUME NEW catalog, NEW rank, IsForest(catalog, rank)
  PROVE  \E sub : /\ IsBranching(sub, Ids(catalog), rank, Parents(catalog))
                  /\ AreBranches(LaneTreeLines(catalog), {}, Ids(catalog), rank, Parents(catalog), sub)
<1> DEFINE U  == Ids(catalog)
           up == Parents(catalog)
           kids == Under(catalog, {})
           n == Len(catalog)
<1>1. IsTree(U, rank, up)
  BY ForestIs
<1>2. PICK sub : IsBranching(sub, U, rank, up)
  BY <1>1, BranchesThere
<1>3. /\ IsSequence(catalog)
      /\ \A i, j \in DOMAIN catalog : catalog[i].id = catalog[j].id => i = j
  BY DEF IsForest
<1>4. PICK F : IsWalk(F, catalog) /\ \A id : Walk(catalog, id) = F[n][id]
  BY <1>3, WalkIs
<1> DEFINE parts == [k \in DOMAIN kids |-> F[n][kids[k].id]]
           ids   == [k \in DOMAIN kids |-> kids[k].id]
<1>5. LaneTreeLines(catalog) = FlattenSeq(parts)
  <2>1. LaneTreeLines(catalog) =
          FlattenSeq([k \in DOMAIN Roots(catalog) |-> Walk(catalog, Roots(catalog)[k].id)])
    BY DEF LaneTreeLines
  <2>2. Roots(catalog) = kids
    BY DEF Roots, Where, Under
  <2> HIDE DEF kids
  <2>3. [k \in DOMAIN kids |-> Walk(catalog, kids[k].id)] = parts
    BY <1>4
  <2> QED
    BY <2>1, <2>2, <2>3
<1>6. \A k \in DOMAIN kids : IsBranch(F[n][kids[k].id], kids[k].id, U, rank, up, sub)
  <2>1. \A k \in DOMAIN kids : /\ kids[k] \in ToSet(catalog) /\ kids[k].id \in U
                               /\ kids[k].parent = {}
    BY <1>3, UnderIs
  <2>2. \A lane \in ToSet(catalog) : up[lane.id] = lane.parent
    BY ForestIs
  <2>3. \A k \in DOMAIN kids : rank[kids[k].id] = 0
    BY <1>1, <2>1, <2>2 DEF IsTree
  <2> QED
    BY <1>2, <1>4, <2>1, <2>3, WalksTellBranches
<1>7. AreParts(parts, ids, {}, U, rank, up, sub)
  BY <1>6, KidsAreParts
<1> HIDE DEF parts, ids, U, up
<1>8. AreBranches(FlattenSeq(parts), {}, U, rank, up, sub)
  BY <1>2, <1>7, BranchesJoin
<1> QED
  BY <1>2, <1>5, <1>8 DEF U, up

\* What stands for each of those right below the same stands for all of them.
LEMMA EachNames ==
  ASSUME NEW catalog, IsSequence(catalog),
         \A i, j \in DOMAIN catalog : catalog[i].id = catalog[j].id => i = j,
         NEW above, NEW S, NEW f, NEW b,
         \A lane \in ToSet(catalog) : /\ f[lane.id] \in Seq(S) /\ b[lane.id] \in Seq(ToSet(catalog))
                                      /\ Names(f[lane.id], <<lane>> \o b[lane.id])
  PROVE  LET kids  == Under(catalog, above)
             lines == FlattenSeq([k \in DOMAIN kids |-> f[kids[k].id]])
             tree  == FlattenSeq(Each(kids, b))
         IN  lines \in Seq(S) /\ tree \in Seq(ToSet(catalog)) /\ Names(lines, tree)
<1> DEFINE kids == Under(catalog, above)
           Lanes == ToSet(catalog)
           parts == [k \in DOMAIN kids |-> f[kids[k].id]]
           lists == Each(kids, b)
<1>1. IsSequence(kids) /\ \A k \in DOMAIN kids : kids[k] \in Lanes
  BY UnderIs
<1>2. \A lane \in Lanes : /\ f[lane.id] \in Seq(S) /\ b[lane.id] \in Seq(Lanes)
                          /\ Names(f[lane.id], <<lane>> \o b[lane.id])
  OBVIOUS
<1> HIDE DEF kids, Lanes
<1>3. ASSUME NEW k \in DOMAIN kids
      PROVE  /\ <<kids[k]>> \o b[kids[k].id] \in Seq(Lanes)
             /\ f[kids[k].id] \in Seq(S)
             /\ Names(f[kids[k].id], <<kids[k]>> \o b[kids[k].id])
  <2> DEFINE lane == kids[k]
  <2>1. lane \in Lanes
    BY <1>1
  <2> HIDE DEF lane, lists, parts
  <2>2. /\ f[lane.id] \in Seq(S) /\ b[lane.id] \in Seq(Lanes)
        /\ Names(f[lane.id], <<lane>> \o b[lane.id])
    BY <1>2, <2>1
  <2>3. <<lane>> \in Seq(Lanes)
    BY <2>1
  <2>4. <<lane>> \o b[lane.id] \in Seq(Lanes)
    BY <2>2, <2>3, ConcatProperties
  <2> QED
    BY <2>2, <2>4 DEF lane
<1>4. /\ \A k \in DOMAIN kids : lists[k] = <<kids[k]>> \o b[kids[k].id]
      /\ IsSequence(lists) /\ Len(lists) = Len(kids) /\ DOMAIN lists = DOMAIN kids
  <2> DEFINE g == [k \in DOMAIN kids |-> <<kids[k]>> \o b[kids[k].id]]
  <2>1. lists = [k \in DOMAIN kids |-> g[k]]
    BY DEF Each
  <2>2. \A k \in DOMAIN kids : lists[k] = <<kids[k]>> \o b[kids[k].id]
    BY DEF Each
  <2> HIDE DEF g, lists
  <2> QED
    BY <1>1, <2>1, <2>2, MappedIs
<1>5. /\ \A k \in DOMAIN kids : parts[k] = f[kids[k].id]
      /\ IsSequence(parts) /\ Len(parts) = Len(kids) /\ DOMAIN parts = DOMAIN kids
  <2> DEFINE g == [k \in DOMAIN kids |-> f[kids[k].id]]
  <2>1. parts = [k \in DOMAIN kids |-> g[k]]
    OBVIOUS
  <2>2. \A k \in DOMAIN kids : parts[k] = f[kids[k].id]
    OBVIOUS
  <2> HIDE DEF g, parts
  <2> QED
    BY <1>1, <2>1, <2>2, MappedIs
<1> HIDE DEF parts, lists
<1>6. parts \in Seq(Seq(S))
  <2>1. \A k \in DOMAIN parts : parts[k] \in Seq(S)
    BY <1>3, <1>5
  <2> QED
    BY <1>5, <2>1, SequenceOf
<1>7. lists \in Seq(Seq(Lanes))
  <2>1. ASSUME NEW k \in DOMAIN lists
        PROVE  lists[k] \in Seq(Lanes)
    BY <1>3, <1>4
  <2> QED
    BY <1>4, <2>1, SequenceOf
<1>8. \A k \in 1 .. Len(parts) : Names(parts[k], lists[k])
  <2>1. DOMAIN parts = 1 .. Len(parts)
    BY <1>5 DEF IsSequence
  <2>2. ASSUME NEW k \in 1 .. Len(parts)
        PROVE  Names(parts[k], lists[k])
    <3>1. k \in DOMAIN kids
      BY <1>5, <2>1
    <3>2. parts[k] = f[kids[k].id] /\ lists[k] = <<kids[k]>> \o b[kids[k].id]
      BY <1>4, <1>5, <3>1
    <3>3. Names(f[kids[k].id], <<kids[k]>> \o b[kids[k].id])
      BY <1>3, <3>1
    <3> QED
      BY <3>2, <3>3
  <2> QED
    BY <2>2
<1>9. Names(FlattenSeq(parts), FlattenSeq(lists))
  BY <1>4, <1>5, <1>6, <1>7, <1>8, NamesFlatten
<1>10. FlattenSeq(parts) \in Seq(S) /\ FlattenSeq(lists) \in Seq(Lanes)
  BY <1>6, <1>7, FlattenMerges
<1> QED
  BY <1>9, <1>10 DEF parts, lists, kids, Lanes

\* Both pages draw the same tree.
LEMMA TreesAgree ==
  ASSUME NEW catalog, IsSequence(catalog),
         \A i, j \in DOMAIN catalog : catalog[i].id = catalog[j].id => i = j
  PROVE  /\ Names(LaneTreeLines(catalog), LaneTree(catalog))
         /\ LaneTree(catalog) \in Seq(ToSet(catalog))
<1> DEFINE U     == Ids(catalog)
           Lanes == ToSet(catalog)
           n     == Len(catalog)
           S     == [lane : U, depth : Int]
<1>1. PICK F : IsWalk(F, catalog) /\ \A id : Walk(catalog, id) = F[n][id]
  BY WalkIs
<1>2. PICK B : /\ IsDescent(B, catalog)
               /\ B \in [0 .. n -> [U -> Seq(Lanes)]]
               /\ \A id : Descendants(catalog, id) = B[n][id]
  BY DescendantsAre
<1>3. n \in Nat
  BY DEF IsSequence
<1>4. \A lane \in Lanes : lane.id \in U
  BY DEF Ids
<1> DEFINE Agrees(h) == \A lane \in Lanes : /\ F[h][lane.id] \in Seq(S)
                                            /\ Names(F[h][lane.id], <<lane>> \o B[h][lane.id])
           T == {h \in 0 .. n : Agrees(h)}
<1>5. \A h \in 0 .. n : \A lane \in Lanes : B[h][lane.id] \in Seq(Lanes)
  BY <1>2, <1>4
<1>6. ASSUME NEW h \in 0 .. n, NEW lane \in Lanes
      PROVE  /\ <<WalkLine(catalog, h, lane.id)>> \in Seq(S)
             /\ Names(<<WalkLine(catalog, h, lane.id)>>, <<lane>>)
  BY <1>3, <1>4 DEF WalkLine, Names
<1> HIDE DEF U, Lanes, S
<1>7. 0 \in T
  <2>1. ASSUME NEW lane \in Lanes
        PROVE  F[0][lane.id] \in Seq(S) /\ Names(F[0][lane.id], <<lane>> \o B[0][lane.id])
    <3>1. 0 \in 0 .. n
      BY <1>3
    <3>2. F[0][lane.id] = <<WalkLine(catalog, 0, lane.id)>> \o <<>> /\ B[0][lane.id] = <<>>
      BY <1>1, <1>2, <1>4 DEF IsWalk, IsDescent, U
    <3>3. <<>> \in Seq(S) /\ <<>> \in Seq(Lanes) /\ Names(<<>>, <<>>)
      BY EmptySeq DEF Names
    <3>4. <<lane>> \in Seq(Lanes)
      OBVIOUS
    <3>5. <<WalkLine(catalog, 0, lane.id)>> \o <<>> \in Seq(S)
      BY <1>6, <3>1, <3>3, ConcatProperties
    <3>6. Names(<<WalkLine(catalog, 0, lane.id)>> \o <<>>, <<lane>> \o <<>>)
      BY <1>6, <3>1, <3>3, <3>4, NamesConcat
    <3> QED
      BY <3>2, <3>5, <3>6
  <2> QED
    BY <1>3, <2>1
<1>8. ASSUME NEW m \in Nat, m < n, m \in T
      PROVE  m + 1 \in T
  <2> DEFINE h == m + 1
  <2>1. h \in 1 .. n /\ h \in 0 .. n /\ h - 1 = m /\ m \in 0 .. n
    BY <1>3, <1>8
  <2>2. Agrees(m)
    BY <1>8
  <2>3. \A lane \in Lanes : /\ F[m][lane.id] \in Seq(S) /\ B[m][lane.id] \in Seq(Lanes)
                            /\ Names(F[m][lane.id], <<lane>> \o B[m][lane.id])
    BY <1>5, <2>1, <2>2
  <2> HIDE DEF h, Agrees
  <2>4. ASSUME NEW lane \in Lanes
        PROVE  F[h][lane.id] \in Seq(S) /\ Names(F[h][lane.id], <<lane>> \o B[h][lane.id])
    <3> DEFINE kids  == Under(catalog, {lane.id})
               lines == FlattenSeq([k \in DOMAIN kids |-> F[m][kids[k].id]])
               tree  == FlattenSeq(Each(kids, B[m]))
               line  == WalkLine(catalog, h, lane.id)
    <3>1. F[h][lane.id] = <<line>> \o lines
      <4>1. F[h][lane.id] = <<line>> \o FlattenSeq(Walked(catalog, F[h - 1], lane.id))
        BY <1>1, <1>4, <2>1 DEF IsWalk, U
      <4>2. FlattenSeq(Walked(catalog, F[h - 1], lane.id)) = lines
        BY <2>1 DEF Walked
      <4> QED
        BY <4>1, <4>2
    <3>2. B[h][lane.id] = tree
      <4>1. B[h][lane.id] = FlattenSeq(Each(kids, B[h - 1]))
        BY <1>2, <1>4, <2>1 DEF IsDescent, U
      <4> QED
        BY <2>1, <4>1
    <3>3. lines \in Seq(S) /\ tree \in Seq(Lanes) /\ Names(lines, tree)
      BY <2>3, EachNames DEF Lanes
    <3>4. <<line>> \in Seq(S) /\ Names(<<line>>, <<lane>>) /\ <<lane>> \in Seq(Lanes)
      BY <1>6, <2>1
    <3> HIDE DEF lines, tree, line
    <3>5. <<line>> \o lines \in Seq(S)
      BY <3>3, <3>4, ConcatProperties
    <3>6. Names(<<line>> \o lines, <<lane>> \o tree)
      BY <3>3, <3>4, NamesConcat
    <3> QED
      BY <3>1, <3>2, <3>5, <3>6
  <2>5. Agrees(h)
    BY <2>4 DEF Agrees
  <2> QED
    BY <2>1, <2>5 DEF h
<1>9. n \in T
  <2> HIDE DEF T
  <2>1. \A h \in 0 .. n : h \in T
    BY <1>3, <1>7, <1>8, UpTo
  <2> QED
    BY <1>3, <2>1
<1>10. \A lane \in Lanes : /\ F[n][lane.id] \in Seq(S) /\ B[n][lane.id] \in Seq(Lanes)
                           /\ Names(F[n][lane.id], <<lane>> \o B[n][lane.id])
  <2>1. n \in 0 .. n
    BY <1>3
  <2> QED
    BY <1>5, <1>9, <2>1
<1> DEFINE kids  == Under(catalog, {})
           lines == FlattenSeq([k \in DOMAIN kids |-> F[n][kids[k].id]])
           tree  == FlattenSeq(Each(kids, B[n]))
<1>11. lines \in Seq(S) /\ tree \in Seq(Lanes) /\ Names(lines, tree)
  BY <1>10, EachNames DEF Lanes
<1>12. Roots(catalog) = kids
  BY DEF Roots, Where, Under
<1> HIDE DEF kids
<1>13. LaneTreeLines(catalog) = lines
  <2>1. LaneTreeLines(catalog) =
          FlattenSeq([k \in DOMAIN Roots(catalog) |-> Walk(catalog, Roots(catalog)[k].id)])
    BY DEF LaneTreeLines
  <2>2. [k \in DOMAIN kids |-> Walk(catalog, kids[k].id)] = [k \in DOMAIN kids |-> F[n][kids[k].id]]
    BY <1>1
  <2> QED
    BY <1>12, <2>1, <2>2
<1>14. LaneTree(catalog) = tree
  <2>1. LaneTree(catalog) =
          FlattenSeq([k \in DOMAIN Roots(catalog) |->
                        <<Roots(catalog)[k]>> \o Descendants(catalog, Roots(catalog)[k].id)])
    BY DEF LaneTree
  <2>2. [k \in DOMAIN kids |-> <<kids[k]>> \o Descendants(catalog, kids[k].id)] = Each(kids, B[n])
    BY <1>2 DEF Each
  <2> QED
    BY <1>12, <2>1, <2>2
<1> QED
  BY <1>11, <1>13, <1>14 DEF Lanes

\* Where a lane is in a tree.
LEMMA PositionIs ==
  ASSUME NEW U, NEW rank, NEW tree, AreLines(tree, U, rank), NEW i \in DOMAIN tree
  PROVE  Position(tree, tree[i].lane) = i
<1> DEFINE id == tree[i].lane
           I  == {j \in 1 .. Len(tree) : tree[j].lane = id}
<1>1. DOMAIN tree = 1 .. Len(tree) /\ Len(tree) \in Nat
  BY LenProperties DEF AreLines
<1>2. I = {i}
  BY <1>1 DEF AreLines
<1>3. Position(tree, id) = IF I # {} THEN Min(I) ELSE 0
  BY DEF Position, SelectInSeq
<1>4. Min({i}) = i
  <2>1. {i} \in SUBSET Nat /\ {i} # {}
    BY <1>1
  <2> QED
    BY <2>1, MinIsLeast
<1> HIDE DEF I
<1> QED
  BY <1>2, <1>3, <1>4

\* A tree has every lane of the catalog, each of them once and below its parent.
LEMMA TreeDrawn ==
  ASSUME NEW catalog, NEW rank, IsForest(catalog, rank)
  PROVE  LET tree == LaneTreeLines(catalog)
         IN  /\ {line.lane : line \in ToSet(tree)} = Ids(catalog)
             /\ Len(tree) = Len(catalog) /\ Len(LaneTree(catalog)) = Len(catalog)
             /\ LaneTree(catalog) \in Seq(ToSet(catalog))
             /\ \A k \in DOMAIN tree : tree[k].lane = LaneTree(catalog)[k].id
             /\ \A lane \in ToSet(catalog) : \A parent \in lane.parent :
                  /\ Position(tree, parent) \in 1 .. Position(tree, lane.id) - 1
                  /\ tree[Position(tree, lane.id)].depth = tree[Position(tree, parent)].depth + 1
<1> DEFINE U    == Ids(catalog)
           up   == Parents(catalog)
           tree == LaneTreeLines(catalog)
<1>1. PICK sub : IsBranching(sub, U, rank, up) /\ AreBranches(tree, {}, U, rank, up, sub)
  BY TreeIs
<1>2. /\ \A lane \in ToSet(catalog) : up[lane.id] = lane.parent /\ lane.id \in U
      /\ IsTree(U, rank, up)
      /\ IsFiniteSet(U) /\ Cardinality(U) = Len(catalog)
  BY ForestIs DEF Ids
<1>3. /\ IsSequence(catalog)
      /\ \A i, j \in DOMAIN catalog : catalog[i].id = catalog[j].id => i = j
  BY DEF IsForest
<1>4. Names(tree, LaneTree(catalog)) /\ LaneTree(catalog) \in Seq(ToSet(catalog))
  BY <1>3, TreesAgree
<1> HIDE DEF tree, U, up
<1>5. /\ AreLines(tree, U, rank)
      /\ {tree[j].lane : j \in DOMAIN tree} = UNION {sub[id] : id \in {c \in U : up[c] = {}}}
      /\ \A j \in DOMAIN tree : up[tree[j].lane] = {} \/ HasAbove(tree, j, up)
  BY <1>1 DEF AreBranches
<1>6. UNION {sub[id] : id \in {c \in U : up[c] = {}}} = U
  <2>1. \A id \in U : sub[id] \subseteq U
    BY <1>1 DEF IsBranching
  <2>2. \A l \in U : \E r \in U : up[r] = {} /\ l \in sub[r]
    BY <1>1 DEF IsBranching
  <2> QED
    BY <2>1, <2>2
<1>7. {line.lane : line \in ToSet(tree)} = U
  BY <1>5, <1>6 DEF ToSet
<1>8. DOMAIN tree = 1 .. Len(tree) /\ Len(tree) \in Nat
  BY <1>5, LenProperties DEF AreLines
<1>9. Len(tree) = Len(catalog)
  <2> DEFINE laneAt == [j \in 1 .. Len(tree) |-> tree[j].lane]
             n == Len(tree)
  <2>1. \A j \in 1 .. n : laneAt[j] \in U
    BY <1>5, <1>6, <1>8
  <2>2. laneAt \in [1 .. n -> U]
    BY <2>1
  <2>3. \A i, j \in 1 .. n : laneAt[i] = laneAt[j] => i = j
    BY <1>5, <1>8 DEF AreLines
  <2>4. \A id \in U : \E j \in 1 .. n : laneAt[j] = id
    BY <1>5, <1>6, <1>8
  <2>5. n \in Nat
    BY <1>8
  <2> HIDE DEF laneAt, n
  <2>6. laneAt \in Bijection(1 .. n, U)
    BY <2>2, <2>3, <2>4 DEF Bijection, Injection, Surjection, IsInjective
  <2>7. IsFiniteSet(1 .. n) /\ Cardinality(1 .. n) = IF 1 > n THEN 0 ELSE n - 1 + 1
    BY <2>5, FS_Interval
  <2>8. IsFiniteSet(1 .. n) /\ Cardinality(1 .. n) = n
    BY <2>5, <2>7
  <2>9. Cardinality(U) = n
    BY <2>6, <2>8, FS_Bijection DEF ExistsBijection
  <2> QED
    BY <1>2, <2>9 DEF n
<1>10. ASSUME NEW lane \in ToSet(catalog), NEW parent \in lane.parent
       PROVE  /\ Position(tree, parent) \in 1 .. Position(tree, lane.id) - 1
              /\ tree[Position(tree, lane.id)].depth = tree[Position(tree, parent)].depth + 1
  <2>1. PICK j \in DOMAIN tree : tree[j].lane = lane.id
    BY <1>2, <1>5, <1>6
  <2>2. up[lane.id] = lane.parent
    BY <1>2
  <2>3. PICK i \in DOMAIN tree : i < j /\ up[tree[j].lane] = {tree[i].lane}
    BY <1>5, <1>10, <2>1, <2>2 DEF HasAbove
  <2>4. tree[i].lane = parent
    BY <1>10, <2>1, <2>2, <2>3
  <2>5. Position(tree, lane.id) = j /\ Position(tree, parent) = i
    BY <1>5, <2>1, <2>4, PositionIs
  <2>6. tree[j].depth = rank[lane.id] /\ tree[i].depth = rank[parent]
    BY <1>5, <2>1, <2>4 DEF AreLines
  <2>7. rank[lane.id] = rank[parent] + 1
    BY <1>2, <2>1, <2>3, <2>4 DEF IsTree
  <2> QED
    BY <1>8, <2>3, <2>5, <2>6, <2>7
<1> QED
  BY <1>4, <1>7, <1>9, <1>10 DEF Names, tree, U

\* What is left out of the lines of a catalog is counted.
LEMMA LinesCount ==
  ASSUME NEW catalog, NEW rank, IsForest(catalog, rank), NEW max \in Nat
  PROVE  LET lines == LaneLines(catalog, max)
         IN  Len(lines.visible) + lines.more = Len(catalog)
<1> DEFINE tree == LaneTree(catalog)
           n == Len(catalog)
<1>1. tree \in Seq(ToSet(catalog)) /\ Len(tree) = n /\ n \in Nat
  BY TreeDrawn DEF IsForest, IsSequence
<1> DEFINE m == IF n > max THEN max ELSE n
<1>2. /\ LaneLines(catalog, max).visible = SubSeq(tree, 1, m)
      /\ LaneLines(catalog, max).more = IF n > max THEN n - max ELSE 0
  BY <1>1 DEF LaneLines
<1> HIDE DEF tree, n
<1>3. m \in Nat /\ m <= n
  BY <1>1
<1>4. Len(SubSeq(tree, 1, m)) = m
  <2> HIDE DEF m
  <2>1. Len(SubSeq(tree, 1, m)) = IF 1 <= m THEN m - 1 + 1 ELSE 0
    BY <1>1, <1>3, SubSeqProperties
  <2> QED
    BY <1>3, <2>1
<1> DEFINE lines == LaneLines(catalog, max)
<1>5. Len(lines.visible) = m /\ lines.more = IF n > max THEN n - max ELSE 0
  BY <1>2, <1>4
<1> HIDE DEF lines
<1>6. Len(lines.visible) + lines.more = n
  BY <1>1, <1>5
<1> QED
  BY <1>6 DEF n, lines

----------------------------------------------------------------------------
(* The lanes shown of a forest *)

\* The parents that a catalog knows of some lanes.
ParentsOf(catalog, ids) == UNION {lane.parent : lane \in {l \in ToSet(catalog) : l.id \in ids}}

LEMMA AncestorsAre ==
  ASSUME NEW catalog, IsSequence(catalog),
         \A lane \in ToSet(catalog) : lane.parent \subseteq Ids(catalog),
         NEW ids \in SUBSET Ids(catalog)
  PROVE  \E up : /\ up[0] = ids
                 /\ \A k \in 1 .. Len(catalog) : up[k] = up[k - 1] \cup ParentsOf(catalog, up[k - 1])
                 /\ Ancestors(catalog, ids) = up[Len(catalog)]
<1> DEFINE n == Len(catalog)
           X == SUBSET Ids(catalog)
           Step(reached) == reached \cup ParentsOf(catalog, reached)
           next == [k \in 1 .. n |-> [reached \in X |-> Step(reached)]]
           Unfolds(f) ==
             f = [k \in 0 .. n |->
                    IF k = 0 THEN ids ELSE f[k - 1] \cup ParentsOf(catalog, f[k - 1])]
           up == CHOOSE f : Unfolds(f)
<1>1. Ancestors(catalog, ids) = up[n]
  BY DEF Ancestors, ParentsOf
<1>2. n \in Nat
  BY DEF IsSequence
<1>3. \A reached \in X : Step(reached) \in X
  BY DEF ParentsOf
<1>4. ids \in X
  OBVIOUS
<1> HIDE DEF n, X
<1>5. next \in Steps(n, X)
  <2> HIDE DEF Step
  <2> QED
    BY <1>3 DEF Steps
<1>6. \A k \in 1 .. n : \A reached \in X : next[k][reached] = Step(reached)
  <2> HIDE DEF Step
  <2> QED
    OBVIOUS
<1> HIDE DEF next
<1>7. PICK g : IsMade(g, n, X, ids, next)
  BY <1>2, <1>4, <1>5, Iterated
<1>8. Unfolds(g)
  <2>1. \A k \in 1 .. n : k - 1 \in 0 .. n
    BY <1>2
  <2> HIDE DEF Step
  <2>2. g[0] = ids /\ \A k \in 1 .. n : g[k] = Step(g[k - 1])
    BY <1>6, <1>7, <2>1 DEF IsMade
  <2>3. \A k \in 0 .. n : g[k] = IF k = 0 THEN ids ELSE Step(g[k - 1])
    BY <1>2, <2>2
  <2>4. g = [k \in 0 .. n |-> IF k = 0 THEN ids ELSE Step(g[k - 1])]
    BY <1>7, <2>3 DEF IsMade
  <2> QED
    BY <2>4 DEF Step
<1>9. Unfolds(up)
  <2> HIDE DEF Unfolds
  <2> QED
    BY <1>8
<1> HIDE DEF up
<1>10. up[0] = ids /\ \A k \in 1 .. n : up[k] = up[k - 1] \cup ParentsOf(catalog, up[k - 1])
  <2>1. 0 \in 0 .. n /\ \A k \in 1 .. n : k \in 0 .. n /\ k # 0
    BY <1>2
  <2> QED
    BY <1>9, <2>1
<1> QED
  BY <1>1, <1>10 DEF n

\* With a lane, each lane it descends from is shown.
LEMMA AncestorsClosed ==
  ASSUME NEW catalog, NEW rank, IsForest(catalog, rank), NEW ids \in SUBSET Ids(catalog)
  PROVE  /\ ids \subseteq Ancestors(catalog, ids)
         /\ \A lane \in ToSet(catalog) :
              lane.id \in Ancestors(catalog, ids) => lane.parent \subseteq Ancestors(catalog, ids)
<1> DEFINE U == Ids(catalog)
           n == Len(catalog)
<1>1. \A lane \in ToSet(catalog) : lane.id \in U /\ lane.parent \subseteq U
  BY DEF IsForest, Ids
<1>2. IsSequence(catalog) /\ n \in Nat /\ rank \in [U -> Nat]
  BY DEF IsForest, IsSequence
<1>3. PICK up : /\ up[0] = ids
                /\ \A k \in 1 .. n : up[k] = up[k - 1] \cup ParentsOf(catalog, up[k - 1])
                /\ Ancestors(catalog, ids) = up[n]
  BY <1>1, <1>2, AncestorsAre
<1>4. \A l \in U : rank[l] < n
  BY ForestIs, RankBelow
<1>5. \A lane \in ToSet(catalog) : \A p \in lane.parent : rank[lane.id] = rank[p] + 1
  BY DEF IsForest
<1> HIDE DEF U, n
<1> DEFINE Closed(m) ==
             /\ ids \subseteq up[m]
             /\ \A lane \in ToSet(catalog) :
                  lane.id \in up[m] => rank[lane.id] + m < n \/ lane.parent \subseteq up[m]
           T == {m \in 0 .. n : Closed(m)}
<1>6. 0 \in T
  <2>1. \A lane \in ToSet(catalog) : rank[lane.id] + 0 < n
    BY <1>1, <1>2, <1>4
  <2> QED
    BY <1>2, <1>3, <2>1
<1>7. ASSUME NEW m \in Nat, m < n, m \in T
      PROVE  m + 1 \in T
  <2> DEFINE h == m + 1
  <2>1. h \in 1 .. n /\ h \in 0 .. n /\ h - 1 = m /\ Closed(m)
    BY <1>2, <1>7
  <2> HIDE DEF h, T
  <2>2. up[h] = up[m] \cup ParentsOf(catalog, up[m])
    BY <1>3, <2>1
  <2>3. ids \subseteq up[h]
    BY <2>1, <2>2
  <2>4. ASSUME NEW lane \in ToSet(catalog), lane.id \in up[m]
        PROVE  lane.parent \subseteq up[h]
    BY <2>2, <2>4 DEF ParentsOf
  <2>5. ASSUME NEW lane \in ToSet(catalog), lane.id \in up[h]
        PROVE  rank[lane.id] + h < n \/ lane.parent \subseteq up[h]
    <3>1. CASE lane.id \in up[m]
      BY <2>4, <3>1
    <3>2. CASE lane.id \notin up[m]
      <4>1. lane.id \in ParentsOf(catalog, up[m])
        BY <2>2, <2>5, <3>2
      <4>2. PICK below \in ToSet(catalog) : below.id \in up[m] /\ lane.id \in below.parent
        BY <4>1 DEF ParentsOf
      <4>3. rank[below.id] + m < n
        BY <2>1, <3>2, <4>2
      <4>4. rank[below.id] = rank[lane.id] + 1
        BY <1>5, <4>2
      <4>5. rank[lane.id] \in Nat
        BY <1>1, <1>2
      <4>6. rank[lane.id] + (m + 1) < n
        BY <1>2, <4>3, <4>4, <4>5
      <4> QED
        BY <4>6 DEF h
    <3> QED
      BY <3>1, <3>2
  <2>6. Closed(h)
    BY <2>3, <2>5
  <2> QED
    BY <2>1, <2>6 DEF T, h
<1>8. Closed(n)
  <2> HIDE DEF T
  <2>1. \A m \in 0 .. n : m \in T
    BY <1>2, <1>6, <1>7, UpTo
  <2>2. n \in T
    BY <1>2, <2>1
  <2> QED
    BY <2>2 DEF T
<1>9. \A lane \in ToSet(catalog) : ~(rank[lane.id] + n < n)
  BY <1>1, <1>2
<1> QED
  BY <1>3, <1>8, <1>9

\* What is shown of a forest is one.
LEMMA DisplayForest ==
  ASSUME NEW catalog, NEW rank, IsForest(catalog, rank),
         NEW participating, ToSet(participating) \subseteq Ids(catalog)
  PROVE  LET shown == DisplayCatalog(catalog, participating)
         IN  /\ \E r : IsForest(shown, r)
             /\ ToSet(shown) \subseteq ToSet(catalog)
             /\ ToSet(participating) \subseteq Ids(shown)
<1> DEFINE shown == DisplayCatalog(catalog, participating)
           ids   == Ancestors(catalog, ToSet(participating))
           I     == {i \in DOMAIN catalog : catalog[i].id \in ids}
           r     == [id \in Ids(shown) |-> rank[id]]
<1>1. /\ IsSequence(catalog)
      /\ \A i, j \in DOMAIN catalog : catalog[i].id = catalog[j].id => i = j
  BY DEF IsForest
<1>2. shown = Picked(catalog, I)
  BY DEF DisplayCatalog, Where
<1>3. I \in SUBSET DOMAIN catalog
  OBVIOUS
<1>4. /\ ToSet(participating) \subseteq ids
      /\ \A lane \in ToSet(catalog) : lane.id \in ids => lane.parent \subseteq ids
  BY AncestorsClosed
<1>5. \A i \in I : catalog[i].id \in ids
  OBVIOUS
<1>6. \A lane \in ToSet(catalog) : lane.id \in ids => \E i \in I : lane = catalog[i]
  BY DEF ToSet
<1> HIDE DEF shown, ids, I
<1>7. /\ IsSequence(shown)
      /\ \A k \in DOMAIN shown : \E i \in I : shown[k] = catalog[i]
      /\ \A i \in I : \E k \in DOMAIN shown : shown[k] = catalog[i]
  BY <1>1, <1>2, <1>3, PickedIs
<1>8. \A i, j \in DOMAIN shown : shown[i].id = shown[j].id => i = j
  BY <1>1, <1>2, <1>3, PickedOnce
<1>9. \A lane \in ToSet(shown) : lane \in ToSet(catalog) /\ lane.id \in ids
  BY <1>3, <1>5, <1>7 DEF ToSet
<1>10. \A lane \in ToSet(catalog) : lane.id \in ids => lane \in ToSet(shown)
  BY <1>6, <1>7 DEF ToSet
<1>11. \A id \in Ids(catalog) : id \in ids => id \in Ids(shown)
  BY <1>10 DEF Ids
<1>12. Ids(shown) \subseteq Ids(catalog)
  BY <1>9 DEF Ids
<1>13. \A lane \in ToSet(shown) : lane.id \in Ids(shown)
  BY DEF Ids
<1>14. r \in [Ids(shown) -> Nat]
  BY <1>12 DEF IsForest
<1>15. ASSUME NEW lane \in ToSet(shown)
       PROVE  \/ lane.parent = {} /\ r[lane.id] = 0
              \/ \E p \in Ids(shown) : lane.parent = {p} /\ r[lane.id] = r[p] + 1
  <2>1. lane \in ToSet(catalog) /\ lane.id \in ids /\ r[lane.id] = rank[lane.id]
    BY <1>9, <1>13
  <2>2. CASE lane.parent = {} /\ rank[lane.id] = 0
    BY <2>1, <2>2
  <2>3. CASE \E p \in Ids(catalog) : lane.parent = {p} /\ rank[lane.id] = rank[p] + 1
    <3>1. PICK p \in Ids(catalog) : lane.parent = {p} /\ rank[lane.id] = rank[p] + 1
      BY <2>3
    <3>2. p \in Ids(shown)
      BY <1>4, <1>11, <2>1, <3>1
    <3>3. r[p] = rank[p]
      BY <3>2
    <3> QED
      BY <2>1, <3>1, <3>2, <3>3
  <2> QED
    BY <2>1, <2>2, <2>3 DEF IsForest
<1> HIDE DEF r
<1>16. IsForest(shown, r)
  BY <1>7, <1>8, <1>14, <1>15 DEF IsForest
<1>17. ToSet(participating) \subseteq Ids(shown)
  BY <1>4, <1>11
<1> QED
  BY <1>9, <1>16, <1>17 DEF shown

----------------------------------------------------------------------------
(* The forests of the hosts *)

\* The lanes of every host hang together, and each has a column of its own.
Drawable(catalog) ==
  /\ \E rank : IsForest(catalog, rank)
  /\ \A lane \in ToSet(catalog) : lane.kind \in {"WORLDLINE", "STRAND"}

LEMMA GraphDrawable ==
  ASSUME NEW graph, IsGraph(graph)
  PROVE  Drawable(GitWarpLanes(graph.strands))
<1> DEFINE catalog == GitWarpLanes(graph.strands)
           rank == [id \in Ids(catalog) |-> IF id = Live.id THEN 0 ELSE 1]
<1>1. /\ IsSequence(catalog) /\ 1 \in DOMAIN catalog /\ catalog[1] = Live
      /\ \A k \in DOMAIN catalog :
           k # 1 => catalog[k].kind = "STRAND" /\ catalog[k].parent = {Live.id}
      /\ \A i, j \in DOMAIN catalog : catalog[i].id = catalog[j].id => i = j
  BY GraphLanes
<1>2. Live.parent = {} /\ Live.kind = "WORLDLINE"
  BY DEF Live, Lane
<1> HIDE DEF catalog
<1>3. rank \in [Ids(catalog) -> Nat]
  OBVIOUS
<1>4. Live.id \in Ids(catalog)
  BY <1>1 DEF Ids, ToSet
<1>5. ASSUME NEW k \in DOMAIN catalog
      PROVE  /\ \/ catalog[k].parent = {} /\ rank[catalog[k].id] = 0
                \/ \E p \in Ids(catalog) :
                     catalog[k].parent = {p} /\ rank[catalog[k].id] = rank[p] + 1
             /\ catalog[k].kind \in {"WORLDLINE", "STRAND"}
  <2>1. catalog[k].id \in Ids(catalog)
    BY DEF Ids, ToSet
  <2>2. CASE k = 1
    BY <1>1, <1>2, <1>4, <2>2
  <2>3. CASE k # 1
    <3>1. catalog[k].parent = {Live.id} /\ catalog[k].kind = "STRAND"
      BY <1>1, <2>3
    <3>2. catalog[k].id # Live.id
      BY <1>1, <2>3
    <3>3. rank[catalog[k].id] = 1 /\ rank[Live.id] = 0
      BY <1>4, <2>1, <3>2
    <3> HIDE DEF rank
    <3>4. catalog[k].parent = {Live.id} /\ rank[catalog[k].id] = rank[Live.id] + 1
      BY <3>1, <3>3
    <3> QED
      BY <1>4, <3>1, <3>4
  <2> QED
    BY <2>2, <2>3
<1> HIDE DEF rank
<1>6. \A lane \in ToSet(catalog) : \E k \in DOMAIN catalog : lane = catalog[k]
  BY DEF ToSet
<1>7. IsForest(catalog, rank)
  BY <1>1, <1>3, <1>5, <1>6 DEF IsForest
<1>8. \A lane \in ToSet(catalog) : lane.kind \in {"WORLDLINE", "STRAND"}
  BY <1>5, <1>6
<1>9. Drawable(catalog)
  BY <1>7, <1>8 DEF Drawable
<1> QED
  BY <1>9 DEF catalog

LEMMA EchoDrawable == Drawable(EchoLanes)
<1> DEFINE main    == Lane("wl:main", "WORLDLINE", {})
           sandbox == Lane("ws:sandbox", "STRAND", {"wl:main"})
           ids     == {"wl:main", "ws:sandbox"}
           rank    == [id \in ids |-> IF id = "wl:main" THEN 0 ELSE 1]
<1>1. EchoLanes = <<main, sandbox>>
  BY DEF EchoLanes
<1>2. /\ main.id = "wl:main" /\ main.kind = "WORLDLINE" /\ main.parent = {}
      /\ sandbox.id = "ws:sandbox" /\ sandbox.kind = "STRAND" /\ sandbox.parent = {"wl:main"}
  BY DEF Lane
<1> HIDE DEF main, sandbox
<1>3. IsSequence(EchoLanes) /\ DOMAIN EchoLanes = 1 .. 2
  BY <1>1 DEF IsSequence
<1>4. EchoLanes[1] = main /\ EchoLanes[2] = sandbox
  BY <1>1
<1>5. ToSet(EchoLanes) = {main, sandbox}
  BY <1>3, <1>4 DEF ToSet
<1>6. Ids(EchoLanes) = ids
  BY <1>2, <1>5 DEF Ids
<1>7. \A i, j \in DOMAIN EchoLanes : EchoLanes[i].id = EchoLanes[j].id => i = j
  <2>1. EchoLanes[1].id # EchoLanes[2].id
    BY <1>2, <1>4
  <2>2. \A i \in DOMAIN EchoLanes : i = 1 \/ i = 2
    BY <1>3
  <2> QED
    BY <2>1, <2>2
<1>8. rank \in [ids -> Nat] /\ rank["wl:main"] = 0 /\ rank["ws:sandbox"] = 1
  OBVIOUS
<1> HIDE DEF rank
<1>9. sandbox.parent = {"wl:main"} /\ rank[sandbox.id] = rank["wl:main"] + 1 /\ "wl:main" \in ids
  BY <1>2, <1>8
<1>10. main.parent = {} /\ rank[main.id] = 0
  BY <1>2, <1>8
<1>11. \A lane \in ToSet(EchoLanes) :
         \/ lane.parent = {} /\ rank[lane.id] = 0
         \/ \E p \in ids : lane.parent = {p} /\ rank[lane.id] = rank[p] + 1
  BY <1>5, <1>9, <1>10
<1>12. IsForest(EchoLanes, rank)
  BY <1>3, <1>6, <1>7, <1>8, <1>11 DEF IsForest
<1>13. \A lane \in ToSet(EchoLanes) : lane.kind \in {"WORLDLINE", "STRAND"}
  BY <1>2, <1>5
<1> QED
  BY <1>12, <1>13 DEF Drawable

\* The lanes that a parent of theirs brings along.
BroughtBy(catalog, ids) ==
  {lane.id : lane \in {l \in ToSet(catalog) : \E parent \in l.parent : parent \in ids}}

LEMMA ResolvedIs ==
  ASSUME NEW catalog, IsSequence(catalog)
  PROVE  \E reach :
           /\ reach[0] = {lane.id : lane \in {l \in ToSet(catalog) : l.kind = "WORLDLINE"}}
           /\ \A k \in 1 .. Len(catalog) :
                reach[k] = reach[k - 1] \cup BroughtBy(catalog, reach[k - 1])
           /\ Resolved(catalog) = reach[Len(catalog)]
<1> DEFINE n == Len(catalog)
           X == SUBSET Ids(catalog)
           ids == {lane.id : lane \in {l \in ToSet(catalog) : l.kind = "WORLDLINE"}}
           Step(reached) == reached \cup BroughtBy(catalog, reached)
           next == [k \in 1 .. n |-> [reached \in X |-> Step(reached)]]
           Unfolds(f) ==
             f = [k \in 0 .. n |->
                    IF k = 0 THEN ids ELSE f[k - 1] \cup BroughtBy(catalog, f[k - 1])]
           reach == CHOOSE f : Unfolds(f)
<1>1. Resolved(catalog) = reach[n]
  BY DEF Resolved, BroughtBy
<1>2. n \in Nat
  BY DEF IsSequence
<1>3. \A reached \in X : Step(reached) \in X
  BY DEF BroughtBy, Ids
<1>4. ids \in X
  BY DEF Ids
<1> HIDE DEF n, X, ids
<1>5. next \in Steps(n, X)
  <2> HIDE DEF Step
  <2> QED
    BY <1>3 DEF Steps
<1>6. \A k \in 1 .. n : \A reached \in X : next[k][reached] = Step(reached)
  <2> HIDE DEF Step
  <2> QED
    OBVIOUS
<1> HIDE DEF next
<1>7. PICK g : IsMade(g, n, X, ids, next)
  BY <1>2, <1>4, <1>5, Iterated
<1>8. Unfolds(g)
  <2>1. \A k \in 1 .. n : k - 1 \in 0 .. n
    BY <1>2
  <2> HIDE DEF Step
  <2>2. g[0] = ids /\ \A k \in 1 .. n : g[k] = Step(g[k - 1])
    BY <1>6, <1>7, <2>1 DEF IsMade
  <2>3. \A k \in 0 .. n : g[k] = IF k = 0 THEN ids ELSE Step(g[k - 1])
    BY <1>2, <2>2
  <2>4. g = [k \in 0 .. n |-> IF k = 0 THEN ids ELSE Step(g[k - 1])]
    BY <1>7, <2>3 DEF IsMade
  <2> QED
    BY <2>4 DEF Step
<1>9. Unfolds(reach)
  <2> HIDE DEF Unfolds
  <2> QED
    BY <1>8
<1> HIDE DEF reach
<1>10. /\ reach[0] = ids
       /\ \A k \in 1 .. n : reach[k] = reach[k - 1] \cup BroughtBy(catalog, reach[k - 1])
  <2>1. 0 \in 0 .. n /\ \A k \in 1 .. n : k \in 0 .. n /\ k # 0
    BY <1>2
  <2> QED
    BY <1>9, <2>1
<1> QED
  BY <1>1, <1>10 DEF n, ids

\* One scenario of those that WorldlinesAreRoots is about.
RootedWorldlines(scenario) ==
  \A lane \in ToSet(scenario.lanes) : lane.kind = "WORLDLINE" => lane.parent = {}

\* A lane's rank is the number of steps after which it is found to resolve.
LEMMA ScenarioDrawable ==
  ASSUME NEW scenario, IsScenario(scenario), Builds(scenario), RootedWorldlines(scenario)
  PROVE  Drawable(scenario.lanes)
<1> DEFINE catalog == scenario.lanes
           n == Len(catalog)
           U == Ids(catalog)
<1>1. /\ IsSequence(catalog) /\ n \in Nat
      /\ \A i, j \in DOMAIN catalog : catalog[i].id = catalog[j].id => i = j
  BY ScenarioGiven DEF IsSequence
<1>2. /\ \A lane \in ToSet(catalog) : lane.kind \in {"WORLDLINE", "STRAND"}
      /\ \A lane \in ToSet(catalog) : \A p, q \in lane.parent : p = q
  <2>1. catalog \in Seq(GivenLanes)
    BY DEF IsScenario
  <2>2. \A i \in DOMAIN catalog : catalog[i] \in GivenLanes
    BY <2>1, SequencesAre
  <2>3. \A lane \in GivenLanes : lane.kind \in {"WORLDLINE", "STRAND"}
    BY DEF GivenLanes
  <2>4. \A lane \in ToSet(catalog) : lane \in GivenLanes
    BY <2>2 DEF ToSet
  <2>5. \A lane \in ToSet(catalog) : \A p, q \in lane.parent : p = q
    BY DEF IsScenario
  <2> HIDE DEF catalog
  <2> QED
    BY <2>3, <2>4, <2>5
<1>3. \A lane \in ToSet(catalog) : lane.kind = "WORLDLINE" => lane.parent = {}
  BY DEF RootedWorldlines
<1>4. Resolved(catalog) = U
  BY DEF Builds, Declared, Ids
<1> HIDE DEF catalog, n
<1>5. PICK reach :
        /\ reach[0] = {lane.id : lane \in {l \in ToSet(catalog) : l.kind = "WORLDLINE"}}
        /\ \A k \in 1 .. n : reach[k] = reach[k - 1] \cup BroughtBy(catalog, reach[k - 1])
        /\ Resolved(catalog) = reach[n]
  BY <1>1, ResolvedIs DEF n
<1> DEFINE When(id) == {k \in 0 .. n : id \in reach[k]}
           rank == [id \in U |-> Min(When(id))]
<1>6. \A k, l \in ToSet(catalog) : k.id = l.id => k = l
  BY <1>1 DEF ToSet
<1>7. \A lane \in ToSet(catalog) : lane.id \in U
  BY DEF Ids
<1>8. ASSUME NEW id \in U
      PROVE  /\ rank[id] \in 0 .. n /\ id \in reach[rank[id]]
             /\ \A k \in 0 .. n : id \in reach[k] => rank[id] <= k
  <2> DEFINE I == When(id)
  <2>1. n \in I /\ I \in SUBSET Nat
    BY <1>1, <1>4, <1>5
  <2>2. rank[id] = Min(I)
    OBVIOUS
  <2>3. I = {k \in 0 .. n : id \in reach[k]}
    OBVIOUS
  <2> HIDE DEF I, rank
  <2>4. Min(I) \in I /\ \A i \in I : Min(I) <= i
    BY <2>1, MinIsLeast
  <2> QED
    BY <2>2, <2>3, <2>4
<1>9. rank \in [U -> Nat]
  <2>1. \A id \in U : rank[id] \in Nat
    <3> HIDE DEF rank
    <3> QED
      BY <1>1, <1>8
  <2> QED
    BY <2>1
<1> HIDE DEF rank, U
<1>10. ASSUME NEW lane \in ToSet(catalog), lane.kind = "WORLDLINE"
       PROVE  lane.parent = {} /\ rank[lane.id] = 0
  <2>1. lane.id \in reach[0]
    BY <1>5, <1>10
  <2>2. 0 \in 0 .. n
    BY <1>1
  <2>3. rank[lane.id] <= 0 /\ rank[lane.id] \in Nat
    BY <1>7, <1>8, <1>9, <2>1, <2>2
  <2> QED
    BY <1>3, <1>10, <2>3
<1>11. ASSUME NEW lane \in ToSet(catalog), lane.kind # "WORLDLINE"
       PROVE  \E p \in U : lane.parent = {p} /\ rank[lane.id] = rank[p] + 1
  <2> DEFINE m == rank[lane.id]
  <2>1. /\ m \in 0 .. n /\ lane.id \in reach[m]
        /\ \A k \in 0 .. n : lane.id \in reach[k] => m <= k
    BY <1>7, <1>8
  <2>2. lane.id \notin reach[0]
    BY <1>5, <1>6, <1>11
  <2> HIDE DEF m
  <2>3. m \in 1 .. n /\ m - 1 \in 0 .. n /\ ~(m <= m - 1)
    BY <1>1, <2>1, <2>2
  <2>4. lane.id \in BroughtBy(catalog, reach[m - 1])
    BY <1>5, <2>1, <2>3
  <2>5. PICK p \in lane.parent : p \in reach[m - 1]
    BY <1>6, <2>4 DEF BroughtBy
  <2>6. lane.parent = {p}
    BY <1>2, <2>5
  <2>7. \A k \in 0 .. n : reach[k] \subseteq U
    <3> DEFINE T == {k \in 0 .. n : reach[k] \subseteq U}
    <3>1. 0 \in T
      BY <1>1, <1>5, <1>7
    <3>2. ASSUME NEW k \in Nat, k < n, k \in T
          PROVE  k + 1 \in T
      <4> DEFINE h == k + 1
      <4>1. h \in 1 .. n /\ h \in 0 .. n /\ h - 1 = k
        BY <1>1, <3>2
      <4> HIDE DEF h
      <4>2. reach[h] = reach[k] \cup BroughtBy(catalog, reach[k])
        BY <1>5, <4>1
      <4>3. BroughtBy(catalog, reach[k]) \subseteq U
        BY <1>7 DEF BroughtBy
      <4>4. h \in T
        BY <3>2, <4>1, <4>2, <4>3
      <4> QED
        BY <4>4 DEF h
    <3> HIDE DEF T
    <3>3. \A k \in 0 .. n : k \in T
      BY <1>1, <3>1, <3>2, UpTo
    <3> QED
      BY <3>3 DEF T
  <2>8. p \in U
    BY <2>3, <2>5, <2>7
  <2> DEFINE j == rank[p]
  <2>9. j \in 0 .. n /\ p \in reach[j] /\ j <= m - 1
    BY <1>8, <2>3, <2>5, <2>8
  <2> HIDE DEF j
  <2> DEFINE h == j + 1
  <2>10. h \in 1 .. n /\ h \in 0 .. n /\ h - 1 = j
    BY <1>1, <2>3, <2>9
  <2> HIDE DEF h
  <2>11. reach[h] = reach[j] \cup BroughtBy(catalog, reach[j])
    BY <1>5, <2>10
  <2>12. lane.id \in BroughtBy(catalog, reach[j])
    BY <2>5, <2>9 DEF BroughtBy
  <2>13. m <= h
    BY <2>1, <2>10, <2>11, <2>12
  <2>14. m = j + 1
    BY <2>3, <2>9, <2>13 DEF h
  <2> QED
    BY <2>6, <2>8, <2>14 DEF m, j
<1>12. \A lane \in ToSet(catalog) :
         \/ lane.parent = {} /\ rank[lane.id] = 0
         \/ \E p \in U : lane.parent = {p} /\ rank[lane.id] = rank[p] + 1
  BY <1>10, <1>11
<1>13. IsForest(catalog, rank)
  BY <1>1, <1>9, <1>12 DEF IsForest, U
<1>14. Drawable(catalog)
  BY <1>2, <1>13 DEF Drawable
<1> QED
  BY <1>14 DEF catalog

LEMMA HistoryDrawable ==
  ASSUME NEW given \in Hosts, NEW past \in Histories(given),
         given.kind = "SCENARIO" => RootedWorldlines(given)
  PROVE  Drawable(past.lanes)
<1>1. CASE IsGraph(given) /\ past = GitWarpHistory(given)
  <2>1. past.lanes = GitWarpLanes(given.strands)
    BY <1>1, GraphFrames
  <2> QED
    BY <1>1, <2>1, GraphDrawable
<1>2. CASE IsScenario(given) /\ Builds(given) /\ past = ScenarioHistory(given)
  <2>1. past.lanes = given.lanes
    BY <1>2, ScenarioFrames
  <2>2. given.kind = "SCENARIO"
    BY <1>2 DEF IsScenario
  <2> QED
    BY <1>2, <2>1, <2>2, ScenarioDrawable
<1>3. CASE past = EchoHistory
  BY <1>3, EchoFrames, EchoDrawable
<1> QED
  BY <1>1, <1>2, <1>3, HistoryOf

----------------------------------------------------------------------------
(* The columns of the lanes and the rows of a history *)

LEMMA MaxIsMost ==
  ASSUME NEW n \in Nat, NEW I \in SUBSET (1 .. n), I # {}
  PROVE  Max(I) \in I /\ \A i \in I : i <= Max(I)
<1> DEFINE J == {n - i : i \in I}
<1>1. J \in SUBSET Nat /\ J # {}
  <2>1. \A i \in I : i \in Int /\ n - i \in Nat
    OBVIOUS
  <2>2. \E i : i \in I
    OBVIOUS
  <2> QED
    BY <2>1, <2>2
<1>2. Min(J) \in J /\ \A j \in J : Min(J) <= j
  <2> HIDE DEF J
  <2> QED
    BY <1>1, MinIsLeast
<1>3. PICK m \in I : Min(J) = n - m
  BY <1>2
<1>4. ASSUME NEW i \in I
      PROVE  i <= m
  <2>1. n - i \in J
    OBVIOUS
  <2>2. n - m <= n - i
    BY <1>2, <1>3, <2>1
  <2> QED
    BY <2>2
<1>5. m \in I /\ \A i \in I : m >= i
  BY <1>4
<1>6. Max(I) \in I /\ \A i \in I : Max(I) >= i
  BY <1>5 DEF Max
<1> QED
  BY <1>6

LEMMA OfTwo ==
  ASSUME NEW a \in Nat, NEW b \in Nat
  PROVE  /\ Min({a, b}) = IF a <= b THEN a ELSE b
         /\ Max({a, b}) = IF a <= b THEN b ELSE a
<1>1. Min({a, b}) \in {a, b} /\ \A i \in {a, b} : Min({a, b}) <= i
  <2>1. {a, b} \in SUBSET Nat /\ {a, b} # {}
    OBVIOUS
  <2> QED
    BY <2>1, MinIsLeast
<1>2. \E m \in {a, b} : \A i \in {a, b} : m >= i
  OBVIOUS
<1>3. Max({a, b}) \in {a, b} /\ \A i \in {a, b} : Max({a, b}) >= i
  BY <1>2 DEF Max
<1> DEFINE least == Min({a, b})
           most  == Max({a, b})
<1>4. least \in {a, b} /\ least <= a /\ least <= b
  BY <1>1
<1>5. most \in {a, b} /\ most >= a /\ most >= b
  BY <1>3
<1> HIDE DEF least, most
<1>6. least = (IF a <= b THEN a ELSE b) /\ most = (IF a <= b THEN b ELSE a)
  BY <1>4, <1>5
<1> QED
  BY <1>6 DEF least, most

\* Every lane has one column.
IsColumns(columns, catalog) ==
  /\ IsSequence(columns)
  /\ \A c \in DOMAIN columns : columns[c] \in ToSet(catalog)
  /\ \A lane \in ToSet(catalog) : \E c \in DOMAIN columns : columns[c] = lane
  /\ \A c, d \in DOMAIN columns : columns[c].id = columns[d].id => c = d

LEMMA ColumnsAre ==
  ASSUME NEW catalog, Drawable(catalog)
  PROVE  IsColumns(AssignColumns(catalog), catalog)
<1> DEFINE W == {i \in DOMAIN catalog : catalog[i].kind = "WORLDLINE"}
           T == {i \in DOMAIN catalog : catalog[i].kind = "STRAND"}
           worldlines == Picked(catalog, W)
           strands    == Picked(catalog, T)
           columns    == worldlines \o strands
<1>1. /\ IsSequence(catalog)
      /\ \A i, j \in DOMAIN catalog : catalog[i].id = catalog[j].id => i = j
  BY DEF Drawable, IsForest
<1>2. \A i \in DOMAIN catalog : i \in W \/ i \in T
  BY DEF Drawable, ToSet
<1>3. \A i \in W : i \notin T
  OBVIOUS
<1>4. AssignColumns(catalog) = columns
  BY DEF AssignColumns, Where
<1>5. W \in SUBSET DOMAIN catalog /\ T \in SUBSET DOMAIN catalog
  OBVIOUS
<1> HIDE DEF W, T
<1>6. /\ IsSequence(worldlines)
      /\ \A k \in DOMAIN worldlines : \E i \in W : worldlines[k] = catalog[i]
      /\ \A i \in W : \E k \in DOMAIN worldlines : worldlines[k] = catalog[i]
      /\ \A k, l \in DOMAIN worldlines : worldlines[k].id = worldlines[l].id => k = l
  BY <1>1, <1>5, PickedIs, PickedOnce
<1>7. /\ IsSequence(strands)
      /\ \A k \in DOMAIN strands : \E i \in T : strands[k] = catalog[i]
      /\ \A i \in T : \E k \in DOMAIN strands : strands[k] = catalog[i]
      /\ \A k, l \in DOMAIN strands : strands[k].id = strands[l].id => k = l
  BY <1>1, <1>5, PickedIs, PickedOnce
<1> HIDE DEF worldlines, strands
<1> DEFINE w == Len(worldlines)
<1>8. worldlines \in Seq(ToSet(catalog)) /\ strands \in Seq(ToSet(catalog))
  <2>1. \A i \in DOMAIN catalog : catalog[i] \in ToSet(catalog)
    BY DEF ToSet
  <2>2. \A k \in DOMAIN worldlines : worldlines[k] \in ToSet(catalog)
    BY <1>5, <1>6, <2>1
  <2>3. \A k \in DOMAIN strands : strands[k] \in ToSet(catalog)
    BY <1>5, <1>7, <2>1
  <2> QED
    BY <1>6, <1>7, <2>2, <2>3, SequenceOf
<1>9. /\ columns \in Seq(ToSet(catalog))
      /\ \A j \in DOMAIN worldlines : j \in DOMAIN columns /\ columns[j] = worldlines[j]
      /\ \A j \in DOMAIN strands : w + j \in DOMAIN columns /\ columns[w + j] = strands[j]
      /\ \A j \in DOMAIN columns : j \in DOMAIN worldlines \/ \E i \in DOMAIN strands : j = w + i
  BY <1>8, ConcatIs, ConcatProperties
<1> HIDE DEF columns, w
<1>10. IsSequence(columns) /\ \A c \in DOMAIN columns : columns[c] \in ToSet(catalog)
  BY <1>9, SequencesAre
<1>11. ASSUME NEW lane \in ToSet(catalog)
       PROVE  \E c \in DOMAIN columns : columns[c] = lane
  <2>1. PICK i \in DOMAIN catalog : lane = catalog[i]
    BY DEF ToSet
  <2>2. CASE i \in W
    <3>1. PICK k \in DOMAIN worldlines : worldlines[k] = catalog[i]
      BY <1>6, <2>2
    <3> QED
      BY <1>9, <2>1, <3>1
  <2>3. CASE i \in T
    <3>1. PICK k \in DOMAIN strands : strands[k] = catalog[i]
      BY <1>7, <2>3
    <3> QED
      BY <1>9, <2>1, <3>1
  <2> QED
    BY <1>2, <2>2, <2>3
<1>12. \A k \in DOMAIN worldlines, l \in DOMAIN strands : worldlines[k].id # strands[l].id
  <2> SUFFICES ASSUME NEW k \in DOMAIN worldlines, NEW l \in DOMAIN strands,
                      worldlines[k].id = strands[l].id
               PROVE  FALSE
    OBVIOUS
  <2>1. PICK i \in W : worldlines[k] = catalog[i]
    BY <1>6
  <2>2. PICK j \in T : strands[l] = catalog[j]
    BY <1>7
  <2>3. i = j
    BY <1>1, <1>5, <2>1, <2>2
  <2> QED
    BY <1>3, <2>3
<1>13. ASSUME NEW c \in DOMAIN columns, NEW d \in DOMAIN columns, columns[c].id = columns[d].id
       PROVE  c = d
  <2>1. CASE c \in DOMAIN worldlines /\ d \in DOMAIN worldlines
    BY <1>6, <1>9, <1>13, <2>1
  <2>2. CASE c \in DOMAIN worldlines /\ \E i \in DOMAIN strands : d = w + i
    BY <1>9, <1>12, <1>13, <2>2
  <2>3. CASE d \in DOMAIN worldlines /\ \E i \in DOMAIN strands : c = w + i
    BY <1>9, <1>12, <1>13, <2>3
  <2>4. CASE (\E i \in DOMAIN strands : c = w + i) /\ \E i \in DOMAIN strands : d = w + i
    <3>1. PICK i \in DOMAIN strands : c = w + i
      BY <2>4
    <3>2. PICK j \in DOMAIN strands : d = w + j
      BY <2>4
    <3>3. columns[c] = strands[i] /\ columns[d] = strands[j]
      BY <1>9, <3>1, <3>2
    <3> QED
      BY <1>7, <1>13, <3>1, <3>2, <3>3
  <2> QED
    BY <1>9, <2>1, <2>2, <2>3, <2>4
<1>14. IsColumns(columns, catalog)
  BY <1>10, <1>11, <1>13 DEF IsColumns
<1> QED
  BY <1>4, <1>14

LEMMA ColumnIs ==
  ASSUME NEW catalog, NEW columns, IsColumns(columns, catalog)
  PROVE  /\ \A c \in DOMAIN columns : Column(columns, columns[c].id) = c
         /\ \A id : Column(columns, id) # 0 =>
              Column(columns, id) \in DOMAIN columns /\ columns[Column(columns, id)].id = id
<1> DEFINE I(id) == {c \in 1 .. Len(columns) : columns[c].id = id}
<1>1. DOMAIN columns = 1 .. Len(columns) /\ Len(columns) \in Nat
  BY DEF IsColumns, IsSequence
<1>2. \A id : Column(columns, id) = IF I(id) # {} THEN Min(I(id)) ELSE 0
  BY DEF Column, SelectInSeq
<1>3. ASSUME NEW id, I(id) # {}
      PROVE  Column(columns, id) \in I(id)
  <2> DEFINE J == I(id)
  <2>1. J \in SUBSET Nat /\ J # {}
    BY <1>3
  <2>2. Column(columns, id) = Min(J)
    BY <1>2, <1>3
  <2> HIDE DEF J
  <2>3. Column(columns, id) \in J
    BY <2>1, <2>2, MinIsLeast
  <2> QED
    BY <2>3 DEF J
<1>4. ASSUME NEW c \in DOMAIN columns
      PROVE  Column(columns, columns[c].id) = c
  <2>1. c \in I(columns[c].id)
    BY <1>1
  <2>2. Column(columns, columns[c].id) \in I(columns[c].id)
    BY <1>3, <2>1
  <2> QED
    BY <1>1, <2>2 DEF IsColumns
<1>5. ASSUME NEW id, Column(columns, id) # 0
      PROVE  Column(columns, id) \in DOMAIN columns /\ columns[Column(columns, id)].id = id
  BY <1>1, <1>2, <1>3, <1>5
<1> QED
  BY <1>4, <1>5

\* The newest frame comes first, and the last of the rows is that of the start.
IsHistory(rows, last) ==
  /\ IsSequence(rows) /\ Len(rows) = last + 1 /\ DOMAIN rows = 1 .. last + 1
  /\ \A j \in 1 .. last + 1 : rows[j].frame = last + 1 - j /\ IsSequence(rows[j].active)

LEMMA ActiveIs ==
  ASSUME NEW frame, IsSequence(frame.lanes), NEW catalog
  PROVE  IsSequence(FrameToTickRow(frame, catalog).active)
<1> DEFINE I == {i \in DOMAIN frame.lanes : frame.lanes[i].changed}
<1>1. FrameToTickRow(frame, catalog).active = LaneIds(Picked(frame.lanes, I))
  BY DEF FrameToTickRow, Where
<1>2. I \in SUBSET DOMAIN frame.lanes
  OBVIOUS
<1> HIDE DEF I
<1>3. IsSequence(Picked(frame.lanes, I))
  BY <1>2, PickedIs
<1>4. IsSequence(LaneIds(Picked(frame.lanes, I)))
  BY <1>3, LaneIdsAre
<1> QED
  BY <1>1, <1>4

LEMMA HistoryRowsAre ==
  ASSUME Listed(history), NEW last \in Nat, DOMAIN history.frames = 0 .. last
  PROVE  IsHistory(TickRows(Timeline(history), history.lanes), last)
<1> DEFINE frames == [i \in 1 .. last + 1 |-> [frame    |-> i - 1,
                                               lanes    |-> history.frames[i - 1],
                                               receipts |-> history.receipts[i - 1]]]
           some == {i \in DOMAIN frames : frames[i].lanes # <<>>}
           made == [i \in DOMAIN frames |-> FrameToTickRow(frames[i], history.lanes)]
<1>1. Timeline(history) = frames
  BY TimelineIs
<1>2. \A i \in 1 .. last + 1 :
        frames[i].frame = i - 1 /\ frames[i].lanes # <<>> /\ IsSequence(frames[i].lanes)
  <2>1. ASSUME NEW i \in 1 .. last + 1
        PROVE  frames[i].frame = i - 1 /\ frames[i].lanes # <<>> /\ IsSequence(frames[i].lanes)
    <3>1. frames[i].frame = i - 1 /\ frames[i].lanes = history.frames[i - 1]
      OBVIOUS
    <3>2. i - 1 \in DOMAIN history.frames
      OBVIOUS
    <3>3. Len(history.frames[i - 1]) = Len(history.lanes) /\ IsSequence(history.frames[i - 1])
      BY <3>2 DEF Listed
    <3>4. IsSequence(history.lanes) /\ history.lanes # <<>>
      BY DEF Listed
    <3>5. Len(history.lanes) # 0
      BY <3>4 DEF IsSequence
    <3>6. history.frames[i - 1] # <<>>
      BY <3>3, <3>5
    <3> HIDE DEF frames
    <3> QED
      BY <3>1, <3>3, <3>6
  <2> HIDE DEF frames
  <2> QED
    BY <2>1
<1>3. DOMAIN frames = 1 .. last + 1 /\ frames = [i \in 1 .. last + 1 |-> frames[i]]
  OBVIOUS
<1> HIDE DEF frames
<1>4. IsSequence(frames)
  BY <1>3, ListIs
<1>5. some = DOMAIN frames
  BY <1>2, <1>3
<1>6. Picked(frames, some) = frames
  BY <1>4, <1>5, PickedAll
<1>7. TickRows(frames, history.lanes) = Reverse(made)
  <2>1. TickRows(frames, history.lanes) =
          Reverse([i \in DOMAIN Picked(frames, some) |->
                     FrameToTickRow(Picked(frames, some)[i], history.lanes)])
    BY DEF TickRows, Where
  <2> QED
    BY <2>1, <1>6
<1>8. \A i \in 1 .. last + 1 : made[i] = FrameToTickRow(frames[i], history.lanes)
  BY <1>3
<1>9. DOMAIN made = 1 .. last + 1 /\ made = [i \in 1 .. last + 1 |-> made[i]]
  BY <1>3
<1> HIDE DEF made, some
<1>10. \A i \in 1 .. last + 1 : made[i].frame = i - 1 /\ IsSequence(made[i].active)
  BY <1>2, <1>8, RowOf, ActiveIs
<1>11. IsSequence(made) /\ Len(made) = last + 1
  BY <1>9, ListIs
<1> DEFINE rows == [j \in 1 .. last + 1 |-> made[last + 1 - j + 1]]
<1>12. Reverse(made) = rows
  BY <1>11 DEF Reverse
<1>13. rows = [j \in 1 .. last + 1 |-> rows[j]]
  OBVIOUS
<1>14. ASSUME NEW j \in 1 .. last + 1
       PROVE  rows[j].frame = last + 1 - j /\ IsSequence(rows[j].active)
  <2>1. last + 1 - j + 1 \in 1 .. last + 1 /\ last + 1 - j + 1 - 1 = last + 1 - j
    OBVIOUS
  <2>2. rows[j] = made[last + 1 - j + 1]
    OBVIOUS
  <2> HIDE DEF rows
  <2> QED
    BY <2>1, <2>2, <1>10
<1> HIDE DEF rows
<1>15. IsSequence(rows) /\ Len(rows) = last + 1 /\ DOMAIN rows = 1 .. last + 1
  <2> DEFINE n == last + 1
  <2>1. n \in Nat /\ rows = [j \in 1 .. n |-> rows[j]]
    BY <1>13
  <2> HIDE DEF n
  <2>2. IsSequence(rows) /\ Len(rows) = n /\ DOMAIN rows = 1 .. n
    BY <2>1, ListIs
  <2> QED
    BY <2>2 DEF n
<1>16. IsHistory(rows, last)
  BY <1>14, <1>15 DEF IsHistory
<1> QED
  BY <1>1, <1>7, <1>12, <1>16

\* The row of the head is as far from the newest as the head is.
LEMMA CursorIs ==
  ASSUME NEW last \in Nat, NEW rows, IsHistory(rows, last), head \in 0 .. last
  PROVE  SelectInSeq(rows, LAMBDA row : row.frame = head) = last + 1 - head
<1> DEFINE I == {j \in 1 .. Len(rows) : rows[j].frame = head}
<1>1. SelectInSeq(rows, LAMBDA row : row.frame = head) = IF I # {} THEN Min(I) ELSE 0
  BY DEF SelectInSeq
<1>2. I = {last + 1 - head}
  BY DEF IsHistory
<1>3. Min({last + 1 - head}) = last + 1 - head
  BY MinIsLeast
<1> HIDE DEF I
<1> QED
  BY <1>1, <1>2, <1>3

\* A window of any size has the row of the cursor.
LEMMA WindowHolds ==
  ASSUME NEW length \in Nat, NEW cursor \in 0 .. length - 1, NEW size \in 1 .. length
  PROVE  cursor - ScrollOffset(length, cursor, size) \in 0 .. size - 1
<1> DEFINE half     == size \div 2
           centered == cursor - half
<1>1. half \in Nat /\ 2 * half <= size /\ size <= 2 * half + 1
  OBVIOUS
<1>2. ScrollOffset(length, cursor, size) =
        CASE length <= size -> 0
          [] length > size /\ centered < 0 -> 0
          [] length > size /\ centered > length - size -> length - size
          [] length > size /\ centered \in 0 .. length - size -> centered
  BY DEF ScrollOffset
<1> DEFINE offset == ScrollOffset(length, cursor, size)
<1> HIDE DEF half
<1>3. centered \in Int
  BY <1>1
<1> HIDE DEF offset
<1>4. CASE length <= size
  <2>1. offset = 0
    BY <1>2, <1>3, <1>4 DEF offset
  <2> QED
    BY <1>4, <2>1 DEF offset
<1>5. CASE length > size /\ centered < 0
  <2>1. offset = 0
    BY <1>2, <1>3, <1>5 DEF offset
  <2> QED
    BY <1>1, <1>5, <2>1 DEF offset
<1>6. CASE length > size /\ centered > length - size
  <2>1. offset = length - size
    BY <1>2, <1>3, <1>6 DEF offset
  <2> QED
    BY <1>1, <1>6, <2>1 DEF offset
<1>7. CASE length > size /\ centered \in 0 .. length - size
  <2>1. offset = centered
    BY <1>2, <1>3, <1>7 DEF offset
  <2> QED
    BY <1>1, <1>7, <2>1 DEF offset
<1> QED
  BY <1>3, <1>4, <1>5, <1>6, <1>7

----------------------------------------------------------------------------
(* The graph beside the rows *)

IsStrand(catalog, id) == \E lane \in ToSet(catalog) : lane.id = id /\ lane.kind = "STRAND"

\* A strand that is active in a row and in none that is older.
ForksAt(rows, catalog, k, id) ==
  /\ Contains(rows[k].active, id) /\ IsStrand(catalog, id)
  /\ \A older \in k + 1 .. Len(rows) : ~Contains(rows[older].active, id)

LEMMA ForksAre ==
  ASSUME NEW rows, NEW catalog, NEW k, IsSequence(rows[k].active), NEW id
  PROVE  /\ Contains(DetectForks(rows, catalog, k), id) <=> ForksAt(rows, catalog, k, id)
         /\ id \in ToSet(DetectForks(rows, catalog, k)) <=> ForksAt(rows, catalog, k, id)
<1> DEFINE active == rows[k].active
           forks  == DetectForks(rows, catalog, k)
           New(x) == /\ IsStrand(catalog, x)
                     /\ \A older \in k + 1 .. Len(rows) : ~Contains(rows[older].active, x)
           I      == {i \in DOMAIN active : New(active[i])}
<1>1. forks = Picked(active, I)
  BY DEF DetectForks, Where, IsStrand
<1>2. I \in SUBSET DOMAIN active
  OBVIOUS
<1>3. \A i \in DOMAIN active : i \in I <=> New(active[i])
  OBVIOUS
<1>4. ForksAt(rows, catalog, k, id) <=> Contains(active, id) /\ New(id)
  BY DEF ForksAt
<1> HIDE DEF active, forks, New, I
<1>5. IsSequence(active)
  BY DEF active
<1>6. /\ IsSequence(forks)
      /\ \A j \in DOMAIN forks : \E i \in I : forks[j] = active[i]
      /\ \A i \in I : \E j \in DOMAIN forks : forks[j] = active[i]
  BY <1>1, <1>2, <1>5, PickedIs
<1>7. \A s : IsSequence(s) => (Contains(s, id) <=> \E i \in DOMAIN s : s[i] = id)
  BY DEF IsSequence, Contains
<1>8. Contains(active, id) /\ New(id) <=> \E j \in DOMAIN forks : forks[j] = id
  <2>1. ASSUME Contains(active, id), New(id)
        PROVE  \E j \in DOMAIN forks : forks[j] = id
    BY <1>3, <1>5, <1>6, <1>7, <2>1
  <2>2. ASSUME NEW j \in DOMAIN forks, forks[j] = id
        PROVE  Contains(active, id) /\ New(id)
    BY <1>2, <1>3, <1>5, <1>6, <1>7, <2>2
  <2> QED
    BY <2>1, <2>2
<1>9. Contains(forks, id) <=> ForksAt(rows, catalog, k, id)
  BY <1>4, <1>6, <1>7, <1>8
<1>10. id \in ToSet(forks) <=> ForksAt(rows, catalog, k, id)
  BY <1>4, <1>8 DEF ToSet
<1> QED
  BY <1>9, <1>10 DEF forks

\* What is drawn of a lane in a row.
LEMMA CellsAre ==
  ASSUME NEW rows, NEW catalog, NEW k, IsSequence(rows[k].active),
         NEW columns, columns = AssignColumns(catalog), NEW c \in DOMAIN columns
  PROVE  LET cell == GutterCells(rows, catalog, k)[c]
             id   == columns[c].id
         IN  /\ cell.char = "fork" <=> ForksAt(rows, catalog, k, id)
             /\ cell.char \in {"fork", "active"} <=> Contains(rows[k].active, id)
             /\ cell.line <=> \E fork : ForksAt(rows, catalog, k, fork) /\ c \in ForkRange(columns, fork)
<1> DEFINE cell  == GutterCells(rows, catalog, k)[c]
           id    == columns[c].id
           forks == DetectForks(rows, catalog, k)
<1>1. /\ cell.char = Glyph(rows, k, id, forks)
      /\ cell.line = \E fork \in ToSet(forks) : c \in ForkRange(columns, fork)
  BY DEF GutterCells
<1>2. \A x : /\ Contains(forks, x) <=> ForksAt(rows, catalog, k, x)
             /\ x \in ToSet(forks) <=> ForksAt(rows, catalog, k, x)
  BY ForksAre
<1>3. ForksAt(rows, catalog, k, id) => Contains(rows[k].active, id)
  BY DEF ForksAt
<1> DEFINE on == Contains(rows[k].active, id)
           forked == Contains(forks, id)
<1>4. Glyph(rows, k, id, forks) =
        CASE on /\ forked  -> "fork"
          [] on /\ ~forked -> "active"
          [] ~on /\ id \in AliveLanes(rows) -> "pass"
          [] OTHER -> "blank"
  BY DEF Glyph
<1> HIDE DEF cell, id, forks, on, forked
<1>5. /\ cell.char = "fork" <=> on /\ forked
      /\ cell.char \in {"fork", "active"} <=> on
  <2>1. CASE on /\ forked
    BY <1>1, <1>4, <2>1
  <2>2. CASE on /\ ~forked
    BY <1>1, <1>4, <2>2
  <2>3. CASE ~on
    <3>1. Glyph(rows, k, id, forks) \in {"pass", "blank"}
      BY <1>4, <2>3
    <3> QED
      BY <1>1, <2>3, <3>1
  <2> QED
    BY <2>1, <2>2, <2>3
<1>6. cell.char = "fork" <=> ForksAt(rows, catalog, k, id)
  BY <1>2, <1>3, <1>5 DEF on, forked
<1>7. cell.line <=> \E fork : ForksAt(rows, catalog, k, fork) /\ c \in ForkRange(columns, fork)
  BY <1>1, <1>2
<1> QED
  BY <1>5, <1>6, <1>7 DEF cell, id, on

LEMMA ForkRangeIs ==
  ASSUME NEW catalog, NEW columns, IsColumns(columns, catalog), NEW fork, NEW d
  PROVE  /\ d \in ForkRange(columns, fork) =>
              \E c \in DOMAIN columns : columns[c].id = fork
         /\ \A c \in DOMAIN columns : \A other \in DOMAIN columns :
              /\ columns[c].id = fork
              /\ columns[other].id \in columns[c].parent
              /\ d \in Min({c, other}) .. Max({c, other}) - 1
              => d \in ForkRange(columns, fork)
<1> DEFINE own == Column(columns, fork)
           Between(parent) == Min({own, parent}) .. Max({own, parent}) - 1
<1>1. ForkRange(columns, fork) =
        IF own = 0 THEN {}
        ELSE UNION {Between(Column(columns, id)) : id \in
               {parent \in columns[own].parent : Column(columns, parent) # 0}}
  BY DEF ForkRange
<1>2. 0 \notin DOMAIN columns
  BY DEF IsColumns, IsSequence
<1>3. ASSUME d \in ForkRange(columns, fork)
      PROVE  \E c \in DOMAIN columns : columns[c].id = fork
  <2>1. own # 0
    BY <1>1, <1>3
  <2> QED
    BY <2>1, ColumnIs
<1>4. ASSUME NEW c \in DOMAIN columns, NEW other \in DOMAIN columns,
             columns[c].id = fork, columns[other].id \in columns[c].parent,
             d \in Min({c, other}) .. Max({c, other}) - 1
      PROVE  d \in ForkRange(columns, fork)
  <2> DEFINE parent == columns[other].id
  <2>1. own = c /\ Column(columns, parent) = other /\ own # 0 /\ other # 0
    BY <1>2, <1>4, ColumnIs
  <2> HIDE DEF parent, own
  <2>2. parent \in columns[own].parent
    BY <1>4, <2>1 DEF parent
  <2>3. d \in Between(Column(columns, parent))
    BY <1>4, <2>1
  <2> HIDE DEF Between
  <2>4. d \in UNION {Between(Column(columns, id)) : id \in
                       {p \in columns[own].parent : Column(columns, p) # 0}}
    BY <2>1, <2>2, <2>3
  <2> QED
    BY <1>1, <2>1, <2>4
<1> QED
  BY <1>3, <1>4

\* A strand's fork is in the oldest row it is active in and nowhere else.
LEMMA ForkedOnce ==
  ASSUME NEW last, NEW rows, IsHistory(rows, last), last \in Nat,
         NEW catalog, Drawable(catalog),
         NEW columns, columns = AssignColumns(catalog), NEW c \in DOMAIN columns
  PROVE  LET active  == {k \in DOMAIN rows : Contains(rows[k].active, columns[c].id)}
             forked  == {k \in DOMAIN rows : GutterCells(rows, catalog, k)[c].char = "fork"}
             present == {k \in DOMAIN rows :
                           GutterCells(rows, catalog, k)[c].char \in {"fork", "active"}}
         IN  /\ forked = IF columns[c].kind = "STRAND" /\ active # {} THEN {Max(active)} ELSE {}
             /\ present = active
<1> DEFINE id      == columns[c].id
           active  == {k \in DOMAIN rows : Contains(rows[k].active, id)}
           forked  == {k \in DOMAIN rows : GutterCells(rows, catalog, k)[c].char = "fork"}
           present == {k \in DOMAIN rows :
                         GutterCells(rows, catalog, k)[c].char \in {"fork", "active"}}
<1>1. /\ DOMAIN rows = 1 .. last + 1 /\ Len(rows) = last + 1
      /\ \A k \in DOMAIN rows : IsSequence(rows[k].active)
  BY DEF IsHistory
<1>2. IsColumns(columns, catalog)
  BY ColumnsAre
<1>3. IsStrand(catalog, id) <=> columns[c].kind = "STRAND"
  <2>1. columns[c] \in ToSet(catalog)
    BY <1>2 DEF IsColumns
  <2>2. ASSUME NEW lane \in ToSet(catalog), lane.id = id
        PROVE  lane = columns[c]
    <3>1. PICK d \in DOMAIN columns : columns[d] = lane
      BY <1>2 DEF IsColumns
    <3>2. d = c
      BY <1>2, <2>2, <3>1 DEF IsColumns
    <3> QED
      BY <3>1, <3>2
  <2> QED
    BY <2>1, <2>2 DEF IsStrand
<1>4. \A k \in DOMAIN rows :
        /\ GutterCells(rows, catalog, k)[c].char = "fork" <=> ForksAt(rows, catalog, k, id)
        /\ GutterCells(rows, catalog, k)[c].char \in {"fork", "active"} <=>
             Contains(rows[k].active, id)
  BY <1>1, CellsAre
<1>5. \A k \in DOMAIN rows : k \in forked <=> ForksAt(rows, catalog, k, id)
  BY <1>4
<1>6. \A k \in DOMAIN rows : k \in active <=> Contains(rows[k].active, id)
  OBVIOUS
<1>7. \A k \in DOMAIN rows : k \in present <=> Contains(rows[k].active, id)
  BY <1>4
<1>8. forked \subseteq DOMAIN rows /\ active \subseteq DOMAIN rows /\ present \subseteq DOMAIN rows
  OBVIOUS
<1> HIDE DEF id, active, forked, present
<1>9. present = active
  BY <1>6, <1>7, <1>8
<1>10. \A k \in DOMAIN rows :
         k \in forked <=> /\ k \in active /\ IsStrand(catalog, id)
                          /\ \A older \in k + 1 .. last + 1 : older \notin active
  <2>1. \A k \in DOMAIN rows : k + 1 .. last + 1 \subseteq DOMAIN rows
    BY <1>1
  <2> QED
    BY <1>1, <1>5, <1>6, <2>1 DEF ForksAt
<1>11. CASE ~(columns[c].kind = "STRAND" /\ active # {})
  <2>1. forked = {}
    BY <1>3, <1>8, <1>10, <1>11
  <2> QED
    BY <1>9, <1>11, <2>1 DEF forked, present, active, id
<1>12. CASE columns[c].kind = "STRAND" /\ active # {}
  <2> DEFINE most == Max(active)
  <2>1. most \in active /\ \A k \in active : k <= most
    <3> DEFINE n == last + 1
    <3>1. n \in Nat /\ active \in SUBSET (1 .. n) /\ active # {}
      BY <1>1, <1>8, <1>12
    <3> HIDE DEF n
    <3> QED
      BY <3>1, MaxIsMost
  <2> HIDE DEF most
  <2>2. most \in 1 .. last + 1 /\ active \subseteq 1 .. last + 1
    BY <1>1, <1>8, <2>1
  <2>3. most \in forked
    <3>1. \A older \in most + 1 .. last + 1 : older \notin active
      BY <2>1, <2>2
    <3> QED
      BY <1>1, <1>3, <1>10, <1>12, <2>1, <2>2, <3>1
  <2>4. ASSUME NEW k \in forked
        PROVE  k = most
    <3>1. k \in 1 .. last + 1 /\ k \in active /\ \A older \in k + 1 .. last + 1 : older \notin active
      BY <1>1, <1>8, <1>10
    <3>2. k <= most
      BY <2>1, <3>1
    <3>3. ~(k < most)
      BY <2>1, <2>2, <3>1
    <3> QED
      BY <2>2, <3>1, <3>2, <3>3
  <2>5. forked = {most}
    BY <2>3, <2>4
  <2> QED
    BY <1>9, <1>12, <2>5 DEF most, forked, present, active, id
<1> QED
  BY <1>11, <1>12

\* A fork is joined to the column of its parent, and there is no line without one.
LEMMA ForksJoined ==
  ASSUME NEW last, NEW rows, IsHistory(rows, last),
         NEW catalog, Drawable(catalog),
         NEW columns, columns = AssignColumns(catalog), NEW k \in DOMAIN rows,
         NEW cells, cells = GutterCells(rows, catalog, k)
  PROVE  /\ \A c \in DOMAIN columns : \A parent \in columns[c].parent :
              cells[c].char = "fork" =>
                LET other == Column(columns, parent)
                IN  \A d \in Min({c, other}) .. Max({c, other}) - 1 : cells[d].line
         /\ (\E c \in DOMAIN columns : cells[c].line) =>
              \E c \in DOMAIN columns : cells[c].char = "fork"
<1>1. IsSequence(rows[k].active)
  BY DEF IsHistory
<1>2. IsColumns(columns, catalog)
  BY ColumnsAre
<1>3. DOMAIN columns = 1 .. Len(columns) /\ Len(columns) \in Nat
  BY <1>2 DEF IsColumns, IsSequence
<1>4. \A c \in DOMAIN columns :
        /\ cells[c].char = "fork" <=> ForksAt(rows, catalog, k, columns[c].id)
        /\ cells[c].line <=>
             \E fork : ForksAt(rows, catalog, k, fork) /\ c \in ForkRange(columns, fork)
  BY <1>1, CellsAre
<1>5. ASSUME NEW c \in DOMAIN columns, NEW parent \in columns[c].parent,
             cells[c].char = "fork",
             NEW d \in Min({c, Column(columns, parent)}) .. Max({c, Column(columns, parent)}) - 1
      PROVE  cells[d].line
  <2>1. PICK rank : IsForest(catalog, rank)
    BY DEF Drawable
  <2>2. columns[c] \in ToSet(catalog)
    BY <1>2 DEF IsColumns
  <2>3. parent \in Ids(catalog)
    BY <1>5, <2>1, <2>2 DEF IsForest
  <2>4. PICK lane \in ToSet(catalog) : lane.id = parent
    BY <2>3 DEF Ids
  <2>5. PICK other \in DOMAIN columns : columns[other] = lane
    BY <1>2 DEF IsColumns
  <2>6. Column(columns, parent) = other
    BY <1>2, <2>4, <2>5, ColumnIs
  <2>7. d \in Min({c, other}) .. Max({c, other}) - 1
    BY <2>6
  <2>8. d \in DOMAIN columns
    <3>1. /\ Min({c, other}) = IF c <= other THEN c ELSE other
          /\ Max({c, other}) = IF c <= other THEN other ELSE c
      <4>1. c \in Nat /\ other \in Nat
        BY <1>3
      <4> QED
        BY <4>1, OfTwo
    <3> DEFINE least == Min({c, other})
               most  == Max({c, other})
    <3>2. least \in 1 .. Len(columns) /\ most \in 1 .. Len(columns) /\ d \in least .. most - 1
      BY <1>3, <2>7, <3>1
    <3> HIDE DEF least, most
    <3> QED
      BY <1>3, <3>2
  <2>9. d \in ForkRange(columns, columns[c].id)
    BY <1>2, <1>5, <2>4, <2>5, <2>7, ForkRangeIs
  <2> QED
    BY <1>4, <1>5, <2>8, <2>9
<1>6. ASSUME NEW d \in DOMAIN columns, cells[d].line
      PROVE  \E c \in DOMAIN columns : cells[c].char = "fork"
  <2>1. PICK fork : ForksAt(rows, catalog, k, fork) /\ d \in ForkRange(columns, fork)
    BY <1>4, <1>6
  <2>2. PICK c \in DOMAIN columns : columns[c].id = fork
    BY <1>2, <2>1, ForkRangeIs
  <2> QED
    BY <1>4, <2>1, <2>2
<1> QED
  BY <1>5, <1>6

\* The lanes that take part in a neighborhood are lanes of the host.
LEMMA ParticipantsAre ==
  ASSUME Listed(history), head \in DOMAIN history.frames
  PROVE  ToSet(core.participating) \subseteq Ids(history.lanes)
<1>1. IsFrame(lanes, receipts, emissions)
  BY FrameIs
<1>2. ToSet(Participating(lanes, receipts, emissions)) \subseteq LaneSet(lanes)
  BY <1>1, ParticipatingIs
<1>3. core.participating = Participating(lanes, receipts, emissions)
  BY DEF core, Core
<1>4. LaneSet(lanes) \subseteq Ids(history.lanes)
  <2>1. /\ IsSequence(lanes) /\ Len(lanes) = Len(history.lanes) /\ IsSequence(history.lanes)
        /\ \A i \in DOMAIN history.lanes : lanes[i].lane = history.lanes[i].id
    BY DEF Listed, lanes
  <2>2. DOMAIN lanes = DOMAIN history.lanes
    BY <2>1 DEF IsSequence
  <2> QED
    BY <2>1, <2>2 DEF LaneSet, Ids, ToSet
<1> QED
  BY <1>2, <1>3, <1>4

LEMMA ShownDrawable ==
  ASSUME NEW catalog, Drawable(catalog),
         NEW participating, ToSet(participating) \subseteq Ids(catalog)
  PROVE  /\ Drawable(DisplayCatalog(catalog, participating))
         /\ ToSet(participating) \subseteq Ids(DisplayCatalog(catalog, participating))
<1> DEFINE shown == DisplayCatalog(catalog, participating)
<1>1. PICK rank : IsForest(catalog, rank)
  BY DEF Drawable
<1>2. /\ \E r : IsForest(shown, r)
      /\ ToSet(shown) \subseteq ToSet(catalog)
      /\ ToSet(participating) \subseteq Ids(shown)
  BY <1>1, DisplayForest
<1> HIDE DEF shown
<1>3. Drawable(shown)
  BY <1>2 DEF Drawable
<1> QED
  BY <1>2, <1>3 DEF shown

\* All that is drawn of the frame the head is on.
LEMMA DrawnInv == HeadInv /\ WorldlinesAreRoots => WorldlineDrawn
<1> SUFFICES ASSUME HeadInv, WorldlinesAreRoots
             PROVE  WorldlineDrawn
  OBVIOUS
<1>1. Listed(history) /\ head \in DOMAIN history.frames
  BY HostsListed DEF HeadInv
<1>2. Drawable(history.lanes)
  BY HistoryDrawable DEF HeadInv, WorldlinesAreRoots, RootedWorldlines
<1>3. PICK last \in Nat : DOMAIN history.frames = 0 .. last
  BY <1>1 DEF Listed
<1> DEFINE shown   == DisplayCatalog(history.lanes, core.participating)
           tree    == LaneTreeLines(shown)
           rows    == TickRows(Timeline(history), history.lanes)
           cursor  == SelectInSeq(rows, LAMBDA row : row.frame = head)
           columns == AssignColumns(shown)
           cells   == [k \in DOMAIN rows |-> GutterCells(rows, shown, k)]
           lines   == LaneLines(history.lanes, MaxLanes)
<1>4. Drawable(shown) /\ ToSet(core.participating) \subseteq Ids(shown)
  BY <1>1, <1>2, ParticipantsAre, ShownDrawable
<1>5. IsHistory(rows, last)
  BY <1>1, <1>3, HistoryRowsAre
<1>6. Len(lines.visible) + lines.more = Len(history.lanes)
  <2>1. PICK rank : IsForest(history.lanes, rank)
    BY <1>2 DEF Drawable
  <2> QED
    BY <2>1, LinesCount, MaxLanesAssumption
<1> HIDE DEF shown
<1>7. /\ {line.lane : line \in ToSet(tree)} = Ids(shown)
      /\ Len(tree) = Len(shown)
      /\ \A k \in DOMAIN tree : tree[k].lane = LaneTree(shown)[k].id
      /\ \A lane \in ToSet(shown) : \A parent \in lane.parent :
           /\ Position(tree, parent) \in 1 .. Position(tree, lane.id) - 1
           /\ tree[Position(tree, lane.id)].depth = tree[Position(tree, parent)].depth + 1
  <2>1. PICK rank : IsForest(shown, rank)
    BY <1>4 DEF Drawable
  <2> QED
    BY <2>1, TreeDrawn
<1> HIDE DEF tree
<1>8. ToSet(core.participating) \subseteq {line.lane : line \in ToSet(tree)}
  BY <1>4, <1>7
<1>9. [k \in DOMAIN tree |-> tree[k].lane] = [k \in DOMAIN tree |-> LaneTree(shown)[k].id]
  BY <1>7
<1> HIDE DEF rows
<1>10. cursor = last + 1 - head /\ head \in 0 .. last
  BY <1>1, <1>3, <1>5, CursorIs
<1> HIDE DEF cursor
<1>11. \A size \in 1 .. Len(rows) :
         cursor - 1 - ScrollOffset(Len(rows), cursor - 1, size) \in 0 .. size - 1
  <2> DEFINE length == Len(rows)
             place  == cursor - 1
  <2>1. length \in Nat /\ place \in 0 .. length - 1
    BY <1>5, <1>10 DEF IsHistory
  <2> HIDE DEF length, place
  <2>2. \A size \in 1 .. length : place - ScrollOffset(length, place, size) \in 0 .. size - 1
    BY <2>1, WindowHolds
  <2> QED
    BY <2>2 DEF length, place
<1>12. \A k \in DOMAIN rows : cells[k] = GutterCells(rows, shown, k)
  OBVIOUS
<1>13. \A k \in DOMAIN rows :
         /\ \A c \in DOMAIN columns : \A parent \in columns[c].parent :
              cells[k][c].char = "fork" =>
                LET other == Column(columns, parent)
                IN  \A d \in Min({c, other}) .. Max({c, other}) - 1 : cells[k][d].line
         /\ (\E c \in DOMAIN columns : cells[k][c].line) =>
              \E c \in DOMAIN columns : cells[k][c].char = "fork"
  BY <1>4, <1>5, <1>12, ForksJoined
<1>14. ASSUME NEW c \in DOMAIN columns
       PROVE  LET active == {k \in DOMAIN rows : Contains(rows[k].active, columns[c].id)}
              IN  /\ {k \in DOMAIN rows : cells[k][c].char = "fork"} =
                       IF columns[c].kind = "STRAND" /\ active # {} THEN {Max(active)} ELSE {}
                  /\ {k \in DOMAIN rows : cells[k][c].char \in {"fork", "active"}} = active
  <2>1. /\ {k \in DOMAIN rows : cells[k][c].char = "fork"} =
             {k \in DOMAIN rows : GutterCells(rows, shown, k)[c].char = "fork"}
        /\ {k \in DOMAIN rows : cells[k][c].char \in {"fork", "active"}} =
             {k \in DOMAIN rows : GutterCells(rows, shown, k)[c].char \in {"fork", "active"}}
    BY <1>12
  <2>2. LET active == {k \in DOMAIN rows : Contains(rows[k].active, columns[c].id)}
        IN  /\ {k \in DOMAIN rows : GutterCells(rows, shown, k)[c].char = "fork"} =
                 IF columns[c].kind = "STRAND" /\ active # {} THEN {Max(active)} ELSE {}
            /\ {k \in DOMAIN rows : GutterCells(rows, shown, k)[c].char \in {"fork", "active"}} =
                 active
    BY <1>4, <1>5, ForkedOnce
  <2> HIDE DEF cells, columns
  <2> QED
    BY <2>1, <2>2
<1> HIDE DEF columns, cells, lines
<1>15. \A c \in DOMAIN columns :
         LET strand == columns[c]
             active == {k \in DOMAIN rows : Contains(rows[k].active, strand.id)}
         IN  /\ {k \in DOMAIN rows : cells[k][c].char = "fork"} =
                  IF strand.kind = "STRAND" /\ active # {} THEN {Max(active)} ELSE {}
             /\ {k \in DOMAIN rows : cells[k][c].char \in {"fork", "active"}} = active
             /\ \A k \in DOMAIN rows, parent \in strand.parent :
                  cells[k][c].char = "fork" =>
                    LET other == Column(columns, parent)
                    IN  \A d \in Min({c, other}) .. Max({c, other}) - 1 : cells[k][d].line
  BY <1>13, <1>14
<1> QED
  BY <1>6, <1>7, <1>8, <1>9, <1>11, <1>13, <1>15, Zenon
  DEF WorldlineDrawn, shown, tree, rows, cursor, columns, cells, lines

\* The lanes drawn for a neighborhood hang together: each of them, and each lane it
\* descends from, is in the tree once and below its parent; a strand's fork is drawn in
\* the oldest row it is active in and nowhere else, joined to its parent's column; and the
\* row of the head is on show in a window of any size: on every frame of every host whose
\* worldlines descend from nothing (buildDisplayCatalog, buildLaneTreeLines,
\* buildLaneTree, detectForks, buildForkRanges, scrollWindow).
THEOREM LanesDrawnWhole ==
  ASSUME WorldlinesAreRoots
  PROVE  Spec => []WorldlineDrawn
<1>1. HeadInv => WorldlineDrawn
  BY DrawnInv
<1> QED
  BY <1>1, HeadInvariant, PTL
=============================================================================
