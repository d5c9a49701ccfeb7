--------------------------- MODULE DepGraphProofs ---------------------------
(***************************************************************************)
(* Proofs about BuildDepGraph for any number of requests, any variables    *)
(* and any collections.                                                    *)
(***************************************************************************)
EXTENDS DepGraph, FiniteSetTheorems, TLAPS

(* A nonempty set of naturals has a least element.  The strict subset      *)
(* ordering of the intervals 0..k is well founded, so one is minimal.      *)
LEMMA LeastElement ==
    ASSUME NEW S \in SUBSET Nat, S # {}
    PROVE  \E x \in S : \A y \in S : x <= y
<1> DEFINE T == {0..k : k \in S}
<1>1. IsWellFoundedOn(StrictSubsetOrdering(Nat), FiniteSubsetsOf(Nat))
  BY FS_StrictSubsetOrderingWellFounded
<1>2. T \subseteq FiniteSubsetsOf(Nat)
  <2> SUFFICES ASSUME NEW k \in S PROVE 0..k \in FiniteSubsetsOf(Nat)
    OBVIOUS
  <2>1. k \in Int /\ 0 \in Int
    OBVIOUS
  <2>2. IsFiniteSet(0..k)
    BY <2>1, FS_Interval
  <2>3. 0..k \in SUBSET Nat
    OBVIOUS
  <2> QED
    BY <2>2, <2>3 DEF FiniteSubsetsOf
<1>3. T # {}
  OBVIOUS
<1>4. PICK m \in T : \A i \in T : <<i, m>> \notin StrictSubsetOrdering(Nat)
  <2> HIDE DEF T
  <2> QED
    BY <1>1, <1>2, <1>3, WFMin
<1>5. PICK x \in S : m = 0..x
  BY <1>4
<1>6. ASSUME NEW y \in S, y < x PROVE FALSE
  <2>1. 0..y \in T /\ 0..y \in SUBSET Nat /\ 0..x \in SUBSET Nat
    BY <1>6
  <2>2. x \in 0..x /\ x \notin 0..y
    BY <1>6
  <2>3. 0..y \subseteq 0..x /\ 0..y # 0..x
    BY <2>2, <1>6
  <2>4. <<0..y, 0..x>> \in StrictSubsetOrdering(Nat)
    BY <2>1, <2>3 DEF StrictSubsetOrdering
  <2> QED
    BY <2>1, <2>4, <1>4, <1>5
<1> QED
  BY <1>6

-----------------------------------------------------------------------------
(* The shape of the state. *)

LEMMA CollectionFields ==
    ASSUME NEW c \in Collections
    PROVE  /\ c.kept \subseteq Requests
           /\ c.seeds \subseteq VarNames
           /\ \A r \in Requests : Consumed(c, r) \subseteq VarNames /\ Produced(c, r) \subseteq VarNames
BY CollectionsAssumption DEF CollectionType, Consumed, Produced

(* A turn of the loop keeps the types.                                     *)
LEMMA TypeInductive == ASSUME TypeOK, [Next]_vars PROVE TypeOK'
<1> USE DEF TypeOK
<1>1. CASE AddLevel
  <2>1. Ready \in SUBSET coll.kept
    BY DEF Ready
  <2>2. UNION {Produced(coll, r) : r \in Ready} \subseteq VarNames
    BY <2>1, CollectionFields
  <2> QED
    BY <1>1, <2>1, <2>2 DEF AddLevel
<1>2. CASE SerializeNext
  BY <1>2 DEF SerializeNext
<1>3. CASE UNCHANGED vars
  BY <1>3 DEF vars
<1> QED
  BY <1>1, <1>2, <1>3 DEF Next, GraphNext, Done

(* Type correctness of the construction. *)
THEOREM TypeCorrect == Spec => []TypeOK
<1>1. Init => TypeOK
  BY CollectionFields DEF Init, GraphInit, TypeOK
<1> QED
  BY <1>1, TypeInductive, PTL DEF Spec

-----------------------------------------------------------------------------
(* Appending a nonempty set of remaining requests, as both actions do. *)

LEMMA AppendLevel ==
    ASSUME TypeOK, PlannedOnce, NEW L \in SUBSET remaining,
           levels' = Append(levels, L), remaining' = remaining \ L, coll' = coll
    PROVE  /\ DOMAIN levels' = DOMAIN levels \cup {Len(levels) + 1}
           /\ \A i \in DOMAIN levels : levels'[i] = levels[i] /\ i \in 1..Len(levels)
           /\ levels'[Len(levels) + 1] = L
           /\ Planned' = Planned \cup L
           /\ PlannedOnce'
<1>1. /\ levels \in Seq(SUBSET coll.kept)
      /\ L \in SUBSET coll.kept
      /\ Len(levels) \in Nat
      /\ DOMAIN levels = 1..Len(levels)
  BY DEF TypeOK
<1>2. /\ DOMAIN levels' = DOMAIN levels \cup {Len(levels) + 1}
      /\ \A i \in DOMAIN levels : levels'[i] = levels[i]
      /\ levels'[Len(levels) + 1] = L
  BY <1>1
<1>3. Planned' = Planned \cup L
  BY <1>2 DEF Planned
<1>4. PlannedOnce'
  <2>1. Planned' = coll'.kept \ remaining'
    BY <1>3, <1>1 DEF PlannedOnce, TypeOK
  <2>2. \A i \in DOMAIN levels : levels[i] \cap L = {}
    BY DEF PlannedOnce, Planned
  <2>3. \A i \in DOMAIN levels : i # Len(levels) + 1
    BY <1>1
  <2>4. \A i, j \in DOMAIN levels' : i # j => levels'[i] \cap levels'[j] = {}
    BY <1>2, <2>2, <2>3 DEF PlannedOnce
  <2> QED
    BY <2>1, <2>4 DEF PlannedOnce
<1> QED
  BY <1>1, <1>2, <1>3, <1>4

(* A turn of the loop plans what was not planned.                          *)
LEMMA PlannedOnceInductive == ASSUME TypeOK, PlannedOnce, [Next]_vars PROVE PlannedOnce'
<1>1. CASE AddLevel
  <2>1. Ready \in SUBSET remaining
    BY DEF Ready
  <2> QED
    BY <1>1, <2>1, AppendLevel DEF AddLevel
<1>2. CASE SerializeNext
  <2>1. PICK r \in remaining : levels' = Append(levels, {r}) /\ remaining' = remaining \ {r}
    BY <1>2 DEF SerializeNext
  <2>2. {r} \in SUBSET remaining /\ coll' = coll
    BY <1>2 DEF SerializeNext
  <2> QED
    BY <2>1, <2>2, AppendLevel
<1>3. CASE UNCHANGED vars
  BY <1>3 DEF vars, PlannedOnce, Planned
<1> QED
  BY <1>1, <1>2, <1>3 DEF Next, GraphNext, Done

(* Every kept request is planned exactly once. *)
THEOREM PlannedOnceCorrect == Spec => []PlannedOnce
<1>1. Init => PlannedOnce
  BY DEF Init, GraphInit, PlannedOnce, Planned
<1> QED
  BY <1>1, PlannedOnceInductive, TypeCorrect, PTL DEF Spec

-----------------------------------------------------------------------------
(* What the set of available names stands for. *)

AvailableExplained ==
    /\ coll.seeds \subseteq available
    /\ \A v \in available : v \in coll.seeds \/ \E p \in Planned : v \in Produced(coll, p)

(* A ready request has the only source of what it refers to planned. *)
LEMMA ReadySourcePlanned ==
    ASSUME AvailableExplained, PlannedOnce, NEW r \in Ready, NEW p \in coll.kept,
           Needs(coll, r, p)
    PROVE  p \in Planned
<1>1. PICK v \in Consumed(coll, r) : OnlySource(coll, p, v)
  BY DEF Needs
<1>2. v \in available
  BY DEF Ready, Satisfied
<1>3. PICK q \in Planned : v \in Produced(coll, q)
  BY <1>1, <1>2 DEF AvailableExplained, OnlySource
<1>4. q \in coll.kept
  BY DEF PlannedOnce
<1> QED
  BY <1>1, <1>3, <1>4 DEF OnlySource

(* A request that comes first among the remaining has every request above  *)
(* it planned already.                                                     *)
LEMMA FirstAbovePlanned ==
    ASSUME TypeOK, PlannedOnce, NEW r, IsFirst(r), NEW p \in coll.kept, p < r
    PROVE  p \in Planned
<1>1. r \in Nat /\ p \in Nat
  BY CollectionFields, NAssumption DEF IsFirst, TypeOK, Requests
<1> QED
  BY <1>1 DEF IsFirst, PlannedOnce

(* One step keeps the available names explained. *)
LEMMA AvailableInductive ==
    ASSUME TypeOK, PlannedOnce, AvailableExplained, [Next]_vars
    PROVE  AvailableExplained'
<1>1. CASE AddLevel
  <2>1. Ready \in SUBSET remaining
    BY DEF Ready
  <2>2. Planned' = Planned \cup Ready
    BY <1>1, <2>1, AppendLevel DEF AddLevel
  <2> QED
    BY <1>1, <2>2 DEF AddLevel, AvailableExplained
<1>2. CASE SerializeNext
  <2>1. PICK r \in remaining : levels' = Append(levels, {r}) /\ remaining' = remaining \ {r}
    BY <1>2 DEF SerializeNext
  <2>2. {r} \in SUBSET remaining /\ coll' = coll /\ available' = available
    BY <1>2 DEF SerializeNext
  <2>3. Planned' = Planned \cup {r}
    BY <2>1, <2>2, AppendLevel
  <2> QED
    BY <2>2, <2>3 DEF AvailableExplained
<1>3. CASE UNCHANGED vars
  BY <1>3 DEF vars, AvailableExplained, Planned
<1> QED
  BY <1>1, <1>2, <1>3 DEF Next, GraphNext, Done

(* Every available name is seeded or produced by a planned request. *)
THEOREM AvailableCorrect == Spec => []AvailableExplained
<1>1. Init => AvailableExplained
  BY DEF Init, GraphInit, AvailableExplained
<1> QED
  BY <1>1, AvailableInductive, TypeCorrect, PlannedOnceCorrect, PTL DEF Spec

-----------------------------------------------------------------------------
(* A request planned next to others, or serialised, finds the only source  *)
(* of what it refers to in a level before its own.                         *)
LEMMA SourceInEarlierLevelInductive ==
    ASSUME TypeOK, PlannedOnce, AvailableExplained, SourceInEarlierLevel, [Next]_vars
    PROVE  SourceInEarlierLevel'
<1>1. ASSUME NEW L \in SUBSET remaining,
             levels' = Append(levels, L), remaining' = remaining \ L, coll' = coll,
             \A r \in L, p \in coll.kept : p < r /\ Needs(coll, r, p) => p \in Planned
      PROVE  SourceInEarlierLevel'
  <2>1. /\ DOMAIN levels' = DOMAIN levels \cup {Len(levels) + 1}
        /\ \A i \in DOMAIN levels : levels'[i] = levels[i] /\ i \in 1..Len(levels)
        /\ levels'[Len(levels) + 1] = L
    BY <1>1, AppendLevel
  <2>2. Len(levels) \in Nat /\ DOMAIN levels = 1..Len(levels)
    BY DEF TypeOK
  <2>3. SUFFICES ASSUME NEW i \in DOMAIN levels', NEW r \in levels'[i], NEW p \in coll.kept,
                        p < r, Needs(coll, r, p)
                 PROVE  \E j \in 1..(i - 1) : p \in levels'[j]
    BY <1>1 DEF SourceInEarlierLevel, Needs, OnlySource
  <2>4. CASE i \in DOMAIN levels
    <3>1. PICK j \in 1..(i - 1) : p \in levels[j]
      BY <2>1, <2>3, <2>4 DEF SourceInEarlierLevel
    <3>2. j \in DOMAIN levels
      BY <2>2, <2>4
    <3> QED
      BY <2>1, <3>1, <3>2
  <2>5. CASE i = Len(levels) + 1
    <3>1. p \in Planned
      BY <1>1, <2>1, <2>3, <2>5
    <3>2. PICK j \in DOMAIN levels : p \in levels[j]
      BY <3>1 DEF Planned
    <3>3. j \in 1..(i - 1)
      BY <2>2, <2>5
    <3> QED
      BY <2>1, <3>2, <3>3
  <2> QED
    BY <2>1, <2>4, <2>5
<1>2. CASE AddLevel
  <2>1. Ready \in SUBSET remaining
    BY DEF Ready
  <2> QED
    BY <1>1, <1>2, <2>1, ReadySourcePlanned DEF AddLevel
<1>3. CASE SerializeNext
  <2>1. PICK r \in remaining : /\ IsFirst(r)
                               /\ levels' = Append(levels, {r})
                               /\ remaining' = remaining \ {r}
    BY <1>3 DEF SerializeNext
  <2>2. {r} \in SUBSET remaining /\ coll' = coll
    BY <1>3 DEF SerializeNext
  <2> QED
    BY <1>1, <2>1, <2>2, FirstAbovePlanned
<1>4. CASE UNCHANGED vars
  BY <1>4 DEF vars, SourceInEarlierLevel, Needs, OnlySource
<1> QED
  BY <1>2, <1>3, <1>4 DEF Next, GraphNext, Done

(* BuildDepGraph never plans a request before the only source above it.    *)
THEOREM SourceInEarlierLevelCorrect == Spec => []SourceInEarlierLevel
<1>1. Init => SourceInEarlierLevel
  BY DEF Init, GraphInit, SourceInEarlierLevel
<1> QED
  BY <1>1, SourceInEarlierLevelInductive, AvailableCorrect, TypeCorrect,
     PlannedOnceCorrect, PTL DEF Spec

(* The start and the turns of the loop, for an engine that goes on with    *)
(* the levels.                                                             *)
LEMMA GraphStarts ==
    ASSUME coll \in Collections, GraphInit
    PROVE  TypeOK /\ PlannedOnce /\ AvailableExplained /\ SourceInEarlierLevel
BY CollectionFields
DEF GraphInit, TypeOK, PlannedOnce, Planned, AvailableExplained, SourceInEarlierLevel

LEMMA GraphTurns ==
    ASSUME TypeOK, PlannedOnce, AvailableExplained, SourceInEarlierLevel, GraphNext
    PROVE  (TypeOK /\ PlannedOnce /\ AvailableExplained /\ SourceInEarlierLevel)'
BY TypeInductive, PlannedOnceInductive, AvailableInductive, SourceInEarlierLevelInductive DEF Next

-----------------------------------------------------------------------------
(* No race inside a level.                                                 *)

(* One step adds no level that holds a request and its only source. *)
LEMMA NeverBesideInductive ==
    ASSUME TypeOK, PlannedOnce, AvailableExplained, NeverBesideItsSource, [Next]_vars
    PROVE  NeverBesideItsSource'
<1>1. ASSUME NEW L \in SUBSET remaining,
             levels' = Append(levels, L), remaining' = remaining \ L, coll' = coll,
             \A r, p \in L : p # r => ~Needs(coll, r, p)
      PROVE  NeverBesideItsSource'
  <2>1. /\ DOMAIN levels' = DOMAIN levels \cup {Len(levels) + 1}
        /\ \A i \in DOMAIN levels : levels'[i] = levels[i]
        /\ levels'[Len(levels) + 1] = L
    BY <1>1, AppendLevel
  <2>2. \A r, p : Needs(coll, r, p)' <=> Needs(coll, r, p)
    BY <1>1 DEF Needs, OnlySource
  <2>3. SUFFICES ASSUME NEW i \in DOMAIN levels', NEW r \in levels'[i], NEW p \in levels'[i],
                        p # r
                 PROVE  ~Needs(coll, r, p)'
    BY DEF NeverBesideItsSource
  <2>5. CASE i \in DOMAIN levels
    BY <2>1, <2>2, <2>3, <2>5 DEF NeverBesideItsSource
  <2>6. CASE i = Len(levels) + 1
    BY <1>1, <2>1, <2>2, <2>3, <2>6
  <2> QED
    BY <2>1, <2>3, <2>5, <2>6
<1>2. CASE AddLevel
  <2>1. Ready \in SUBSET remaining /\ Ready \in SUBSET coll.kept
    BY DEF Ready, TypeOK
  <2>2. ASSUME NEW r \in Ready, NEW p \in Ready, Needs(coll, r, p)
        PROVE  FALSE
    BY <2>1, <2>2, ReadySourcePlanned DEF PlannedOnce
  <2> QED
    BY <1>1, <1>2, <2>1, <2>2 DEF AddLevel
<1>3. CASE SerializeNext
  <2>1. PICK r \in remaining : levels' = Append(levels, {r}) /\ remaining' = remaining \ {r}
    BY <1>3 DEF SerializeNext
  <2>2. {r} \in SUBSET remaining /\ coll' = coll
    BY <1>3 DEF SerializeNext
  <2> QED
    BY <1>1, <2>1, <2>2
<1>4. CASE UNCHANGED vars
  BY <1>4 DEF vars, NeverBesideItsSource, Needs, OnlySource
<1> QED
  BY <1>2, <1>3, <1>4 DEF Next, GraphNext, Done

(* BuildDepGraph never plans a request beside its only source. *)
THEOREM NeverBesideItsSourceCorrect == Spec => []NeverBesideItsSource
<1>1. Init => NeverBesideItsSource
  BY DEF Init, GraphInit, NeverBesideItsSource
<1> QED
  BY <1>1, NeverBesideInductive, AvailableCorrect, TypeCorrect, PlannedOnceCorrect, PTL DEF Spec

-----------------------------------------------------------------------------
(* A well-ordered collection never reaches the fallback: the first         *)
(* remaining request is always ready.  The argument needs that everything  *)
(* planned has been made available, which only the fallback breaks.        *)

SourcesAvailable ==
    WellOrdered(coll) => \A p \in Planned : Produced(coll, p) \subseteq available

(* In a well-ordered collection the first remaining request is ready. *)
LEMMA FirstIsReady ==
    ASSUME TypeOK, PlannedOnce, AvailableExplained, SourcesAvailable, WellOrdered(coll),
           remaining # {}
    PROVE  Ready # {}
<1>1. remaining \in SUBSET Nat
  BY CollectionFields, NAssumption DEF TypeOK, Requests
<1>2. PICK r \in remaining : \A q \in remaining : r <= q
  BY <1>1, LeastElement
<1>3. ASSUME NEW v \in Consumed(coll, r) PROVE v \in available
  <2>1. CASE v \in coll.seeds
    BY <2>1 DEF AvailableExplained
  <2>2. CASE \E p \in coll.kept : p < r /\ v \in Produced(coll, p)
    <3>1. PICK p \in coll.kept : p < r /\ v \in Produced(coll, p)
      BY <2>2
    <3>2. p \in Planned
      BY <1>2, <3>1, FirstAbovePlanned DEF IsFirst
    <3> QED
      BY <3>1, <3>2 DEF SourcesAvailable
  <2>3. r \in coll.kept
    BY DEF TypeOK
  <2> QED
    BY <2>1, <2>2, <2>3 DEF WellOrdered
<1>4. r \in Ready
  BY <1>3 DEF Ready, Satisfied
<1> QED
  BY <1>4

(* One step keeps what planned requests produce available. *)
LEMMA SourcesAvailableInductive ==
    ASSUME TypeOK, PlannedOnce, AvailableExplained, SourcesAvailable, [Next]_vars
    PROVE  SourcesAvailable'
<1>1. CASE AddLevel
  <2>1. Ready \in SUBSET remaining
    BY DEF Ready
  <2>2. Planned' = Planned \cup Ready
    BY <1>1, <2>1, AppendLevel DEF AddLevel
  <2> QED
    BY <1>1, <2>2 DEF AddLevel, SourcesAvailable
<1>2. CASE SerializeNext
  <2>1. ~WellOrdered(coll) /\ coll' = coll
    BY <1>2, FirstIsReady DEF SerializeNext
  <2> QED
    BY <2>1 DEF SourcesAvailable, WellOrdered
<1>3. CASE UNCHANGED vars
  BY <1>3 DEF vars, SourcesAvailable, Planned
<1> QED
  BY <1>1, <1>2, <1>3 DEF Next, GraphNext, Done

(* A collection that runs top to bottom never reaches the fallback. *)
THEOREM WellOrderedNeverStuckCorrect == Spec => []WellOrderedNeverStuck
<1>1. Init => SourcesAvailable
  BY DEF Init, GraphInit, SourcesAvailable, Planned
<1>2. Spec => []SourcesAvailable
  BY <1>1, SourcesAvailableInductive, AvailableCorrect, TypeCorrect,
     PlannedOnceCorrect, PTL DEF Spec
<1>3. TypeOK /\ PlannedOnce /\ AvailableExplained /\ SourcesAvailable => WellOrderedNeverStuck
  BY FirstIsReady DEF WellOrderedNeverStuck
<1> QED
  BY <1>2, <1>3, AvailableCorrect, TypeCorrect, PlannedOnceCorrect, PTL

-----------------------------------------------------------------------------
(* Levels are filled as early as they can be. *)

(* A name that r refers to and that only level i - 1 or a later one gives. *)
WaitsFor(r, i) ==
    \E v \in Consumed(coll, r) :
        /\ v \notin coll.seeds
        /\ \A j \in 1..(i - 2) : \A p \in levels[j] : v \notin Produced(coll, p)

(* What remains was not ready for the level planned last. *)
RemainingWaits ==
    WellOrdered(coll) =>
        /\ \A i \in DOMAIN levels : \A r \in levels[i] : i > 1 => WaitsFor(r, i)
        /\ levels # <<>> => \A r \in remaining : WaitsFor(r, Len(levels) + 1)

LEMMA WaitsInductive ==
    ASSUME TypeOK, PlannedOnce, AvailableExplained, SourcesAvailable, RemainingWaits, [Next]_vars
    PROVE  RemainingWaits'
<1>1. CASE AddLevel /\ WellOrdered(coll)
  <2>1. /\ Ready \in SUBSET remaining /\ coll' = coll /\ remaining' = remaining \ Ready
        /\ levels' = Append(levels, Ready)
    BY <1>1 DEF AddLevel, Ready
  <2>2. /\ DOMAIN levels' = DOMAIN levels \cup {Len(levels) + 1}
        /\ \A i \in DOMAIN levels : levels'[i] = levels[i] /\ i \in 1..Len(levels)
        /\ levels'[Len(levels) + 1] = Ready
    BY <2>1, AppendLevel
  <2>3. /\ levels \in Seq(SUBSET coll.kept) /\ Len(levels) \in Nat
        /\ DOMAIN levels = 1..Len(levels) /\ Len(levels') = Len(levels) + 1
    BY <2>1 DEF TypeOK
  <2>4. ASSUME NEW r \in remaining \ Ready PROVE WaitsFor(r, Len(levels) + 1)'
    <3>1. PICK v \in Consumed(coll, r) : v \notin available
      BY <2>4 DEF Ready, Satisfied
    <3>2. v \notin coll.seeds
      BY <3>1 DEF AvailableExplained
    <3>3. \A j \in DOMAIN levels : \A p \in levels[j] : v \notin Produced(coll, p)
      BY <1>1, <3>1 DEF SourcesAvailable, Planned
    <3>4. \A j \in DOMAIN levels : \A p \in levels'[j] : v \notin Produced(coll', p)
      BY <2>1, <2>2, <3>3
    <3>5. (Len(levels') + 1) - 2 = Len(levels)
      BY <2>3
    <3>6. 1..((Len(levels') + 1) - 2) = DOMAIN levels
      BY <2>3, <3>5
    <3>7. v \in Consumed(coll', r) /\ v \notin coll'.seeds
      BY <2>1, <3>1, <3>2
    <3> QED
      BY <3>4, <3>6, <3>7 DEF WaitsFor
  <2>5. ASSUME NEW i \in 1..(Len(levels) + 1), NEW r, WaitsFor(r, i) PROVE WaitsFor(r, i)'
    <3>1. \A j \in 1..(i - 2) : levels'[j] = levels[j]
      BY <2>2, <2>3
    <3> QED
      BY <2>1, <2>5, <3>1 DEF WaitsFor, Consumed, Produced
  <2>6. ASSUME NEW i \in DOMAIN levels', NEW r \in levels'[i], i > 1 PROVE WaitsFor(r, i)'
    <3>1. CASE i \in DOMAIN levels
      BY <1>1, <2>2, <2>3, <2>5, <2>6, <3>1 DEF RemainingWaits
    <3>2. CASE i = Len(levels) + 1
      <4>1. levels # <<>> /\ r \in remaining
        BY <2>1, <2>2, <2>3, <2>6, <3>2
      <4> QED
        BY <1>1, <2>3, <2>5, <3>2, <4>1 DEF RemainingWaits
    <3> QED
      BY <2>2, <3>1, <3>2
  <2>7. \A r \in remaining' : WaitsFor(r, Len(levels) + 1)'
    BY <2>1, <2>4
  <2>8. \A i \in DOMAIN levels' : \A r \in levels'[i] : i > 1 => WaitsFor(r, i)'
    BY <2>6
  <2> QED
    BY <2>7, <2>8 DEF RemainingWaits
<1>2. CASE AddLevel /\ ~WellOrdered(coll)
  BY <1>2 DEF AddLevel, RemainingWaits, WellOrdered
<1>3. CASE SerializeNext
  <2>1. ~WellOrdered(coll) /\ coll' = coll
    BY <1>3, FirstIsReady DEF SerializeNext
  <2> QED
    BY <2>1 DEF RemainingWaits, WellOrdered
<1>4. CASE UNCHANGED vars
  BY <1>4 DEF vars, RemainingWaits, WaitsFor
<1> QED
  BY <1>1, <1>2, <1>3, <1>4 DEF Next, GraphNext, Done

(* No request of a well-ordered collection waits longer than it has to.    *)
THEOREM LevelsAreEagerCorrect == Spec => []LevelsAreEager
<1>1. Init => SourcesAvailable /\ RemainingWaits
  BY DEF Init, GraphInit, SourcesAvailable, Planned, RemainingWaits
<1>2. RemainingWaits => LevelsAreEager
  BY DEF RemainingWaits, LevelsAreEager, WaitsFor
<1> QED
  BY <1>1, <1>2, SourcesAvailableInductive, WaitsInductive, AvailableCorrect, TypeCorrect,
     PlannedOnceCorrect, PTL DEF Spec
=============================================================================
