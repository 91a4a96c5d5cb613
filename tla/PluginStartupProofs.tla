------------------------- MODULE PluginStartupProofs -------------------------
(***************************************************************************)
(* For every scan, profile and dependency graph: the start plan is a start *)
(* plan.  The argument is Kahn's: an indegree counts exactly the startable *)
(* dependencies that have not been relaxed yet (CountsUnmet), and a plugin *)
(* sits in the queue or in the order exactly when that count is zero       *)
(* (ZeroMeansQueued).                                                      *)
(***************************************************************************)
EXTENDS PluginStartup, FiniteSetTheorems, SequenceTheorems, WellFoundedInduction, TLAPS

Planning == phase \in {"seed", "pop", "relax", "done"}

\* The dependencies of n that the loop has already discounted.
Relaxed(n) == \E i \in 1..(k - 1) : i <= Len(selected) /\ selected[i].name = n

Met(n) == IF phase = "relax" /\ ~Relaxed(n) THEN Range(ordered) \ {Current}
                                            ELSE Range(ordered)

Unmet(n) == (DepsOf(n) \cap Candidates) \ Met(n)

NoRepeats(s) == \A i, j \in 1..Len(s) : s[i] = s[j] => i = j

DistinctSelection ==
    \A i, j \in 1..Len(selected) : selected[i].name = selected[j].name => i = j

Untouched == phase \in {"filter", "walk", "unique", "graph"}
                => ordered = <<>> /\ ready = <<>> /\ cyclic = {} /\ missing = {}

CountsUnmet ==
    Planning => /\ missing = Missing
                /\ \A n \in Candidates : indegree[n] = Cardinality(Unmet(n))

QueuesDistinct ==
    /\ NoRepeats(ready)
    /\ NoRepeats(ordered)
    /\ Range(ready) \cap Range(ordered) = {}
    /\ Range(ready) \cup Range(ordered) \subseteq Candidates

QueuedMeansZero ==
    Planning => \A n \in Range(ready) \cup Range(ordered) : indegree[n] = 0

ZeroMeansQueued ==
    phase \in {"pop", "relax", "done"} =>
        \A n \in Candidates : indegree[n] = 0 => n \in Range(ready) \cup Range(ordered)

SeededSoFar ==
    phase = "seed" =>
        /\ ordered = <<>>
        /\ \A n \in Range(ready) : Relaxed(n)
        /\ \A n \in Candidates : Relaxed(n) /\ indegree[n] = 0 => n \in Range(ready)

RelaxingOne == phase = "relax" => ordered # <<>>

VerdictOfDone ==
    phase = "done" => ready = <<>> /\ cyclic = {n \in DOMAIN indegree : indegree[n] > 0}

IInv ==
    /\ TypeOK
    /\ DistinctSelection
    /\ Untouched
    /\ CountsUnmet
    /\ QueuesDistinct
    /\ QueuedMeansZero
    /\ ZeroMeansQueued
    /\ SeededSoFar
    /\ RelaxingOne
    /\ VerdictOfDone
    /\ DependenciesFirst

-----------------------------------------------------------------------------
(* Sequences and finite sets                                               *)

\* Appending an element adds it to the range.
LEMMA RangeAppend ==
    ASSUME NEW S, NEW s \in Seq(S), NEW e \in S
    PROVE  /\ Append(s, e) \in Seq(S)
           /\ Len(Append(s, e)) = Len(s) + 1
           /\ \A i \in 1..Len(s) : Append(s, e)[i] = s[i]
           /\ Append(s, e)[Len(s) + 1] = e
           /\ Range(Append(s, e)) = Range(s) \cup {e}
<1>1. /\ Append(s, e) \in Seq(S)
      /\ Len(Append(s, e)) = Len(s) + 1
      /\ \A i \in 1..Len(s) : Append(s, e)[i] = s[i]
      /\ Append(s, e)[Len(s) + 1] = e
  BY AppendProperties
<1>2. Range(s) = {s[i] : i \in 1..Len(s)}
  BY RangeEquality
<1>3. Range(Append(s, e)) = {Append(s, e)[i] : i \in 1..Len(Append(s, e))}
  BY <1>1, RangeEquality
<1>4. Len(s) \in Nat
  BY LenProperties
<1>5. 1..Len(Append(s, e)) = 1..Len(s) \cup {Len(s) + 1}
  BY <1>1, <1>4
<1> QED
  BY <1>1, <1>2, <1>3, <1>5

\* Taking the head off a queue without repeats takes it out of the range.
LEMMA RangeTail ==
    ASSUME NEW S, NEW s \in Seq(S), s # <<>>, NoRepeats(s)
    PROVE  /\ Tail(s) \in Seq(S)
           /\ Head(s) \in Range(s)
           /\ Range(Tail(s)) = Range(s) \ {Head(s)}
           /\ NoRepeats(Tail(s))
<1>1. /\ Tail(s) \in Seq(S)
      /\ Len(Tail(s)) = Len(s) - 1
      /\ \A i \in 1..Len(Tail(s)) : Tail(s)[i] = s[i + 1]
  BY HeadTailProperties
<1>2. Len(s) \in Nat \ {0}
  BY EmptySeq
<1>3. Head(s) = s[1]
  BY DEF Head
<1>4. Range(s) = {s[i] : i \in 1..Len(s)}
  BY RangeEquality
<1>5. Range(Tail(s)) = {Tail(s)[i] : i \in 1..Len(Tail(s))}
  BY <1>1, RangeEquality
<1>6. Head(s) \in Range(s)
  BY <1>2, <1>3, <1>4
<1>7. ASSUME NEW x \in Range(Tail(s)) PROVE x \in Range(s) \ {Head(s)}
  <2>1. PICK i \in 1..Len(Tail(s)) : x = Tail(s)[i]
    BY <1>5
  <2>2. x = s[i + 1] /\ i + 1 \in 1..Len(s) /\ i + 1 # 1 /\ 1 \in 1..Len(s)
    BY <1>1, <1>2, <2>1
  <2> QED
    BY <1>3, <1>4, <2>2 DEF NoRepeats
<1>8. ASSUME NEW x \in Range(s) \ {Head(s)} PROVE x \in Range(Tail(s))
  <2>1. PICK i \in 1..Len(s) : x = s[i]
    BY <1>4
  <2>2. i # 1
    BY <1>3, <2>1
  <2>3. i - 1 \in 1..Len(Tail(s)) /\ Tail(s)[i - 1] = s[i]
    BY <1>1, <1>2, <2>2
  <2> QED
    BY <1>5, <2>1, <2>3
<1>9. NoRepeats(Tail(s))
  BY <1>1, <1>2 DEF NoRepeats
<1> QED
  BY <1>1, <1>6, <1>7, <1>8, <1>9

\* The names of a plugin list form a finite set.
LEMMA NamesFinite ==
    ASSUME NEW s \in Seq(Descriptor)
    PROVE  /\ IsFiniteSet(NamesIn(s))
           /\ NamesIn(s) \subseteq Names
           /\ \A n \in NamesIn(s) : \E i \in 1..Len(s) : s[i].name = n
           /\ \A i \in 1..Len(s) : s[i].name \in NamesIn(s)
<1>1. DOMAIN s = 1..Len(s) /\ Len(s) \in Nat /\ \A i \in 1..Len(s) : s[i] \in Descriptor
  BY LenProperties, ElementOfSeq
<1> DEFINE f == [i \in 1..Len(s) |-> s[i].name]
<1>2. f \in Surjection(1..Len(s), NamesIn(s))
  BY <1>1 DEF NamesIn, Surjection
<1>3. IsFiniteSet(1..Len(s))
  BY <1>1, FS_Interval
<1>4. IsFiniteSet(NamesIn(s))
  BY <1>2, <1>3, FS_Surjection
<1> QED
  BY <1>1, <1>4 DEF NamesIn, Descriptor

-----------------------------------------------------------------------------
(* The candidates are finitely many, so indegrees are natural numbers.     *)
LEMMA CandidatesFinite ==
    ASSUME TypeOK
    PROVE  /\ IsFiniteSet(Candidates)
           /\ Candidates \subseteq Names
           /\ \A n \in Candidates : \E i \in 1..Len(selected) : selected[i].name = n
           /\ \A n : IsFiniteSet(Unmet(n)) /\ Cardinality(Unmet(n)) \in Nat
<1>1. selected \in Seq(Descriptor)
  BY DEF TypeOK
<1>2. Candidates \subseteq NamesIn(selected)
  BY DEF Candidates, SelectedNames
<1>3. IsFiniteSet(Candidates)
  BY <1>1, <1>2, NamesFinite, FS_Subset
<1>4. ASSUME NEW n PROVE IsFiniteSet(Unmet(n)) /\ Cardinality(Unmet(n)) \in Nat
  <2>1. Unmet(n) \subseteq Candidates
    BY DEF Unmet
  <2> QED
    BY <1>3, <2>1, FS_Subset, FS_CardinalityType
<1> QED
  BY <1>1, <1>2, <1>3, <1>4, NamesFinite

\* Init establishes the inductive invariant.
LEMMA InitInvariant == Init => IInv
<1> SUFFICES ASSUME Init PROVE IInv
  OBVIOUS
<1>1. TypeOK
  BY ScansAssumption, ProfilesAssumption DEF Init, TypeOK, Phases
<1>2. Range(ready) = {} /\ Range(ordered) = {}
  BY DEF Init, Range
<1> QED
  BY <1>1, <1>2 DEF Init, IInv, DistinctSelection, Untouched, CountsUnmet, QueuesDistinct,
     QueuedMeansZero, ZeroMeansQueued, SeededSoFar, RelaxingOne, VerdictOfDone,
     DependenciesFirst, NoRepeats, Planning

-----------------------------------------------------------------------------
\* Before the graph is built only the selection can change, one new name at a time.
Before == phase \in {"filter", "walk", "unique", "graph"}

(* A step that stays before the graph keeps the invariant if it keeps the  *)
(* type and the selection distinct.                                        *)
LEMMA StayBefore ==
    ASSUME IInv, Before, Before', TypeOK', DistinctSelection', UNCHANGED planVars
    PROVE  IInv'
<1>1. ready = <<>> /\ ordered = <<>> /\ cyclic = {} /\ missing = {}
  BY DEF IInv, Untouched, Before
<1>2. ready' = <<>> /\ ordered' = <<>> /\ cyclic' = {} /\ missing' = {}
  BY <1>1 DEF planVars
<1>3. Range(ready') = {} /\ Range(ordered') = {}
  BY <1>2 DEF Range
<1> QED
  BY <1>2, <1>3 DEF IInv, Before, Untouched, CountsUnmet, QueuesDistinct,
     QueuedMeansZero, ZeroMeansQueued, SeededSoFar, RelaxingOne, VerdictOfDone,
     DependenciesFirst, NoRepeats, Planning

LEMMA FilterStep ==
    ASSUME IInv, SelectAll \/ RequestNamed \/ TakePending \/ FinishWalk \/ FinishUnique
    PROVE  IInv'
<1> USE DEF IInv, Before, Phases
<1>1. CASE SelectAll
  <2>1. NamesIn(discovered) \subseteq Names
    BY NamesFinite DEF TypeOK
  <2>2. TypeOK' /\ DistinctSelection' /\ Before'
    BY <1>1, <2>1 DEF TypeOK, DistinctSelection, SelectAll, inputs, planVars
  <2> QED
    BY <1>1, <2>2, StayBefore DEF SelectAll
<1>2. CASE RequestNamed
  <2>1. profile \in Seq(Names)
    <3>1. profile \in Seq(Range(profile))
      BY SeqOfRange DEF TypeOK
    <3>2. Range(profile) \subseteq Names
      BY <1>2, RangeOfSeq DEF TypeOK, RequestNamed
    <3> QED
      BY <3>1, <3>2, SeqMonotonic
  <2>2. TypeOK' /\ DistinctSelection' /\ Before'
    BY <1>2, <2>1 DEF TypeOK, DistinctSelection, RequestNamed, inputs, planVars
  <2> QED
    BY <1>2, <2>2, StayBefore DEF RequestNamed
<1>3. CASE TakePending
  <2> DEFINE n == Head(pending)
  <2>1. n \in Names /\ Tail(pending) \in Seq(Names)
    BY <1>3, HeadTailProperties DEF TypeOK, TakePending
  <2>2. pending' \in Seq(Names) /\ selectedNames' \subseteq Names
    <3>1. CASE n \in selectedNames \/ n \notin NamesIn(discovered)
      BY <1>3, <2>1, <3>1 DEF TakePending, TypeOK
    <3>2. CASE ~(n \in selectedNames \/ n \notin NamesIn(discovered))
      <4> DEFINE new == NewDependencies(n)
                 first == Cardinality(new)
      <4>1. selectedNames' = selectedNames \cup {n}
        BY <1>3, <3>2 DEF TakePending
      <4>2. PICK order \in [1..first -> new] : pending' = Tail(pending) \o order
        BY <1>3, <3>2 DEF TakePending
      <4>3. new \subseteq NamesIn(discovered) /\ NamesIn(discovered) \subseteq Names
            /\ IsFiniteSet(NamesIn(discovered))
        BY NamesFinite DEF NewDependencies, TypeOK
      <4>4. IsFiniteSet(new)
        BY <4>3, FS_Subset
      <4>5. first \in Nat
        BY <4>4, FS_CardinalityType
      <4>6. order \in Seq(Names)
        BY <4>2, <4>3, <4>5 DEF Seq
      <4> QED
        BY <2>1, <4>1, <4>2, <4>6, ConcatProperties DEF TypeOK
    <3> QED
      BY <3>1, <3>2
  <2>3. TypeOK' /\ DistinctSelection' /\ Before'
    BY <1>3, <2>2 DEF TypeOK, DistinctSelection, TakePending, inputs, planVars
  <2> QED
    BY <1>3, <2>3, StayBefore DEF TakePending
<1>4. CASE FinishWalk
  <2>1. TypeOK' /\ DistinctSelection' /\ Before'
    BY <1>4 DEF TypeOK, DistinctSelection, FinishWalk, inputs, planVars, filterVars
  <2> QED
    BY <1>4, <2>1, StayBefore DEF FinishWalk
<1>5. CASE FinishUnique
  <2>1. TypeOK' /\ DistinctSelection' /\ Before'
    BY <1>5 DEF TypeOK, DistinctSelection, FinishUnique, inputs, planVars, filterVars
  <2> QED
    BY <1>5, <2>1, StayBefore DEF FinishUnique
<1> QED
  BY <1>1, <1>2, <1>3, <1>4, <1>5

LEMMA KeepFirstStep ==
    ASSUME IInv, KeepFirst
    PROVE  IInv'
<1> DEFINE d == discovered[k]
<1>1. d \in Descriptor
  BY ElementOfSeq DEF IInv, TypeOK, KeepFirst
<1>2. selected' \in Seq(Descriptor)
  BY <1>1, RangeAppend DEF IInv, TypeOK, KeepFirst
<1>3. TypeOK'
  BY <1>2 DEF IInv, TypeOK, KeepFirst, inputs, planVars, filterVars, Phases
<1>4. DistinctSelection'
  <2>1. CASE selected' = selected
    BY <2>1 DEF IInv, DistinctSelection
  <2>2. CASE selected' = Append(selected, d) /\ d.name \notin SelectedNames
    <3>1. \A i \in 1..Len(selected) : selected[i].name # d.name
      BY <2>2, NamesFinite DEF SelectedNames, IInv, TypeOK
    <3>2. /\ Len(selected') = Len(selected) + 1
          /\ \A i \in 1..Len(selected) : selected'[i] = selected[i]
          /\ selected'[Len(selected) + 1] = d
          /\ Len(selected) \in Nat
      BY <1>1, <2>2, RangeAppend, LenProperties DEF IInv, TypeOK
    <3>3. \A i \in 1..Len(selected') : i \in 1..Len(selected) \/ i = Len(selected) + 1
      BY <3>2
    <3> QED
      BY <3>1, <3>2, <3>3 DEF IInv, DistinctSelection
  <2> QED
    BY <2>1, <2>2 DEF KeepFirst
<1>5. Before /\ Before' /\ UNCHANGED planVars
  BY DEF Before, KeepFirst
<1> QED
  BY <1>3, <1>4, <1>5, StayBefore

-----------------------------------------------------------------------------
\* While the plan is built the selection is fixed, and so is its graph.
LEMMA SelectionFixed ==
    ASSUME selected' = selected
    PROVE  /\ Candidates' = Candidates
           /\ Missing' = Missing
           /\ SelectedNames' = SelectedNames
           /\ \A n : DepsOf(n)' = DepsOf(n)
BY DEF Candidates, Missing, SelectedNames, DepsOf

LEMMA BuildGraphStep ==
    ASSUME IInv, BuildGraph
    PROVE  IInv'
<1> USE DEF IInv
<1>1. /\ ready = <<>> /\ ordered = <<>> /\ cyclic = {}
      /\ ready' = <<>> /\ ordered' = <<>> /\ cyclic' = {}
      /\ selected' = selected /\ k' = 1 /\ phase' = "seed"
  BY DEF BuildGraph, Untouched
<1>2. Range(ready') = {} /\ Range(ordered') = {}
  BY <1>1 DEF Range
<1>3. \A n \in Candidates : Unmet(n)' = DepsOf(n) \cap Candidates
  BY <1>1, <1>2, SelectionFixed DEF Unmet, Met
<1>4. \A n \in Candidates : Unmet(n) = DepsOf(n) \cap Candidates
  BY <1>1 DEF Unmet, Met, Range, BuildGraph
<1>5. indegree' = [n \in Candidates |-> Cardinality(Unmet(n))]
  BY <1>4 DEF BuildGraph
<1>6. missing' = Missing /\ missing' \subseteq Names
  BY NamesFinite DEF BuildGraph, Missing, SelectedNames, TypeOK
<1>10. indegree' \in [Candidates' -> Nat]
  BY <1>1, <1>5, CandidatesFinite, SelectionFixed
<1>11. UNCHANGED <<discovered, profile, pending, selectedNames, selected>>
  BY DEF BuildGraph, inputs, filterVars
<1>12. /\ <<>> \in Seq(Names) /\ {} \subseteq Names /\ phase' \in Phases
       /\ k' \in Nat \ {0}
  BY <1>1 DEF Phases
<1>7. TypeOK'
  BY <1>1, <1>6, <1>10, <1>11, <1>12 DEF TypeOK
<1>8. CountsUnmet'
  BY <1>1, <1>3, <1>4, <1>5, <1>6, SelectionFixed DEF CountsUnmet
<1>9. ~ \E n : Relaxed(n)'
  BY <1>1 DEF Relaxed
<1> QED
  BY <1>1, <1>2, <1>7, <1>8, <1>9 DEF DistinctSelection, Untouched, QueuesDistinct,
     QueuedMeansZero, ZeroMeansQueued, SeededSoFar, RelaxingOne, VerdictOfDone,
     DependenciesFirst, NoRepeats

LEMMA SeedReadyStep ==
    ASSUME IInv, SeedReady
    PROVE  IInv'
<1> USE DEF IInv
<1> DEFINE n == selected[k].name
           enqueue == n \in DOMAIN indegree /\ indegree[n] = 0
<1>0. /\ phase = "seed" /\ phase' = "seed" /\ k' = k + 1 /\ k \in 1..Len(selected)
      /\ selected' = selected /\ ordered' = ordered /\ ordered = <<>>
      /\ indegree' = indegree /\ missing' = missing /\ cyclic' = cyclic
      /\ Len(selected) \in Nat /\ k \in Nat
  BY LenProperties DEF SeedReady, SeededSoFar, TypeOK
<1>1. /\ DOMAIN indegree = Candidates
      /\ Candidates \subseteq Names
      /\ ready \in Seq(Names)
  BY <1>0, CandidatesFinite DEF TypeOK
<1>2. ready' = IF enqueue THEN Append(ready, n) ELSE ready
  BY DEF SeedReady
<1>3. ~Relaxed(n) /\ n \notin Range(ready)
  BY <1>0 DEF Relaxed, DistinctSelection, SeededSoFar
<1>4. \A m : Relaxed(m)' <=> Relaxed(m) \/ m = n
  <2>1. \A i : i \in 1..(k' - 1) <=> i \in 1..(k - 1) \/ i = k
    BY <1>0
  <2> QED
    BY <1>0, <2>1 DEF Relaxed
<1>5. /\ ready' \in Seq(Names)
      /\ Range(ready') = IF enqueue THEN Range(ready) \cup {n} ELSE Range(ready)
      /\ NoRepeats(ready')
  <2>1. CASE enqueue
    <3>1. n \in Names
      BY <1>1, <2>1
    <3>2. /\ Append(ready, n) \in Seq(Names)
          /\ Len(Append(ready, n)) = Len(ready) + 1
          /\ \A i \in 1..Len(ready) : Append(ready, n)[i] = ready[i]
          /\ Append(ready, n)[Len(ready) + 1] = n
          /\ Range(Append(ready, n)) = Range(ready) \cup {n}
      BY <1>1, <3>1, RangeAppend
    <3>3. Len(ready) \in Nat /\ \A i \in 1..Len(ready) : ready[i] \in Range(ready)
      BY <1>1, LenProperties, RangeEquality
    <3>4. NoRepeats(Append(ready, n))
      BY <1>3, <3>2, <3>3 DEF NoRepeats, QueuesDistinct
    <3> QED
      BY <1>2, <2>1, <3>2, <3>4
  <2>2. CASE ~enqueue
    BY <1>1, <1>2, <2>2 DEF QueuesDistinct
  <2> QED
    BY <2>1, <2>2
<1>6. TypeOK'
  BY <1>0, <1>5, SelectionFixed DEF TypeOK, SeedReady, inputs, filterVars, Phases
<1>7. \A m : Unmet(m)' = Unmet(m)
  BY <1>0, SelectionFixed DEF Unmet, Met
<1>8. CountsUnmet'
  BY <1>0, <1>7, SelectionFixed DEF CountsUnmet, Planning
<1>9. QueuesDistinct'
  <2>1. Range(ordered') = Range(ordered) /\ Range(ordered) = {}
    BY <1>0 DEF Range
  <2>2. Range(ready') \subseteq Candidates
    BY <1>1, <1>5 DEF QueuesDistinct
  <2>3. NoRepeats(ordered')
    BY <1>0 DEF QueuesDistinct
  <2> QED
    BY <1>0, <1>5, <2>1, <2>2, <2>3, SelectionFixed DEF QueuesDistinct
<1>10. QueuedMeansZero'
  BY <1>0, <1>5 DEF QueuedMeansZero, Planning
<1>11. SeededSoFar'
  BY <1>0, <1>1, <1>4, <1>5, SelectionFixed DEF SeededSoFar
<1>12. DependenciesFirst'
  BY <1>0, SelectionFixed DEF DependenciesFirst
<1> QED
  BY <1>0, <1>6, <1>8, <1>9, <1>10, <1>11, <1>12
     DEF DistinctSelection, Untouched, ZeroMeansQueued, RelaxingOne, VerdictOfDone

LEMMA FinishSeedStep ==
    ASSUME IInv, FinishSeed
    PROVE  IInv'
<1> USE DEF IInv
<1>0. /\ phase = "seed" /\ phase' = "pop" /\ k > Len(selected) /\ k' = k
      /\ UNCHANGED <<selected, missing, indegree, ready, ordered, cyclic>>
      /\ Len(selected) \in Nat /\ k \in Nat /\ ordered = <<>>
  BY LenProperties DEF FinishSeed, planVars, TypeOK, SeededSoFar
<1>1. TypeOK'
  BY <1>0, SelectionFixed DEF TypeOK, FinishSeed, inputs, filterVars, planVars, Phases
<1>2. \A n \in Candidates : Relaxed(n)
  BY <1>0, CandidatesFinite DEF Relaxed
<1>3. \A n : Unmet(n)' = Unmet(n)
  BY <1>0, SelectionFixed DEF Unmet, Met
<1>4. CountsUnmet' /\ QueuesDistinct' /\ QueuedMeansZero'
  BY <1>0, <1>3, SelectionFixed DEF CountsUnmet, QueuesDistinct, QueuedMeansZero, Planning
<1>5. ZeroMeansQueued'
  BY <1>0, <1>2, SelectionFixed DEF ZeroMeansQueued, SeededSoFar
<1>6. DependenciesFirst'
  BY <1>0, SelectionFixed DEF DependenciesFirst
<1> QED
  BY <1>0, <1>1, <1>4, <1>5, <1>6
     DEF DistinctSelection, Untouched, SeededSoFar, RelaxingOne, VerdictOfDone

LEMMA PopReadyStep ==
    ASSUME IInv, PopReady
    PROVE  IInv'
<1> USE DEF IInv
<1> DEFINE n == Head(ready)
<1>0. /\ phase = "pop" /\ phase' = "relax" /\ k' = 1 /\ ready # <<>>
      /\ ready' = Tail(ready) /\ ordered' = Append(ordered, n)
      /\ UNCHANGED <<selected, missing, indegree, cyclic>>
      /\ ready \in Seq(Names) /\ ordered \in Seq(Names)
  BY DEF PopReady, TypeOK
<1>1. /\ ready' \in Seq(Names)
      /\ n \in Range(ready)
      /\ Range(ready') = Range(ready) \ {n}
      /\ NoRepeats(ready')
  BY <1>0, RangeTail DEF QueuesDistinct
<1>2. n \in Candidates /\ n \in Names /\ n \notin Range(ordered) /\ indegree[n] = 0
  BY <1>0, <1>1, CandidatesFinite DEF QueuesDistinct, QueuedMeansZero, Planning
<1>3. /\ ordered' \in Seq(Names)
      /\ Len(ordered') = Len(ordered) + 1
      /\ \A i \in 1..Len(ordered) : ordered'[i] = ordered[i]
      /\ ordered'[Len(ordered) + 1] = n
      /\ Range(ordered') = Range(ordered) \cup {n}
  BY <1>0, <1>2, RangeAppend
<1>4. /\ Len(ordered) \in Nat
      /\ \A i \in 1..Len(ordered) : ordered[i] \in Range(ordered)
      /\ \A d \in Range(ordered) : \E j \in 1..Len(ordered) : ordered[j] = d
      /\ \A i \in 1..Len(ordered') : i \in 1..Len(ordered) \/ i = Len(ordered) + 1
  <2>1. Len(ordered) \in Nat /\ Range(ordered) = {ordered[i] : i \in 1..Len(ordered)}
    BY <1>0, LenProperties, RangeEquality
  <2>2. \A i \in 1..Len(ordered') : i \in 1..Len(ordered) \/ i = Len(ordered) + 1
    BY <1>3, <2>1
  <2> QED
    BY <2>1, <2>2
<1>5. NoRepeats(ordered')
  BY <1>2, <1>3, <1>4 DEF NoRepeats, QueuesDistinct
<1>6. TypeOK'
  BY <1>0, <1>1, <1>3, SelectionFixed DEF TypeOK, PopReady, inputs, filterVars, Phases
<1>7. \A m : Unmet(m)' = Unmet(m)
  <2>1. Current' = n
    BY <1>3, <1>4 DEF Current
  <2>2. \A m : ~Relaxed(m)'
    BY <1>0 DEF Relaxed
  <2>3. \A m : Met(m)' = Range(ordered') \ {n}
    BY <1>0, <2>1, <2>2 DEF Met
  <2>4. \A m : Met(m)' = Met(m)
    BY <1>0, <1>2, <1>3, <2>3 DEF Met
  <2> QED
    BY <1>0, <2>4, SelectionFixed DEF Unmet
<1>8. CountsUnmet'
  BY <1>0, <1>7, SelectionFixed DEF CountsUnmet, Planning
<1>9. QueuesDistinct'
  BY <1>0, <1>1, <1>2, <1>3, <1>5, SelectionFixed DEF QueuesDistinct
<1>10. QueuedMeansZero' /\ ZeroMeansQueued'
  BY <1>0, <1>1, <1>2, <1>3, SelectionFixed DEF QueuedMeansZero, ZeroMeansQueued, Planning
<1>11. ordered' # <<>>
  BY <1>0, <1>2, AppendProperties
<1>12. DependenciesFirst'
  <2>1. DepsOf(n) \cap Candidates \subseteq Range(ordered)
    <3>1. Cardinality(Unmet(n)) = 0
      BY <1>0, <1>2 DEF CountsUnmet, Planning
    <3>2. Unmet(n) = {}
      BY <3>1, CandidatesFinite, FS_EmptySet
    <3> QED
      BY <1>0, <3>2 DEF Unmet, Met
  <2>2. SUFFICES ASSUME NEW i \in 1..Len(ordered'),
                        NEW d \in DepsOf(ordered'[i]) \cap Candidates
                 PROVE  \E j \in 1..(i - 1) : ordered'[j] = d
    <3>1. Candidates' = Candidates /\ \A m : DepsOf(m)' = DepsOf(m)
      BY <1>0, SelectionFixed
    <3> QED
      BY <3>1, Zenon DEF DependenciesFirst
  <2>3. CASE i \in 1..Len(ordered)
    <3>1. PICK j \in 1..(i - 1) : ordered[j] = d
      BY <1>3, <2>3 DEF DependenciesFirst
    <3>2. j \in 1..Len(ordered)
      BY <1>4, <2>3
    <3> QED
      BY <1>3, <3>1, <3>2
  <2>4. CASE i = Len(ordered) + 1
    <3>1. PICK j \in 1..Len(ordered) : ordered[j] = d
      BY <1>3, <1>4, <2>1, <2>4
    <3> QED
      BY <1>3, <1>4, <2>4, <3>1
  <2> QED
    BY <1>4, <2>3, <2>4
<1> QED
  BY <1>0, <1>6, <1>8, <1>9, <1>10, <1>11, <1>12
     DEF DistinctSelection, Untouched, SeededSoFar, RelaxingOne, VerdictOfDone

LEMMA RelaxDependentStep ==
    ASSUME IInv, RelaxDependent
    PROVE  IInv'
<1> USE DEF IInv
<1> DEFINE n == selected[k].name
           depends == n \in DOMAIN indegree /\ Current \in DepsOf(n)
<1>0. /\ phase = "relax" /\ phase' = "relax" /\ k' = k + 1 /\ k \in 1..Len(selected)
      /\ UNCHANGED <<selected, missing, ordered, cyclic>>
      /\ Len(selected) \in Nat /\ k \in Nat
      /\ ready \in Seq(Names) /\ ordered \in Seq(Names) /\ ordered # <<>>
      /\ DOMAIN indegree = Candidates /\ indegree \in [Candidates -> Nat]
  <2>1. /\ phase = "relax" /\ phase' = "relax" /\ k' = k + 1 /\ k <= Len(selected)
        /\ UNCHANGED <<selected, missing, ordered, cyclic>>
    BY DEF RelaxDependent
  <2>2. /\ selected \in Seq(Descriptor) /\ k \in Nat \ {0}
        /\ ready \in Seq(Names) /\ ordered \in Seq(Names) /\ ordered # <<>>
    BY <2>1 DEF TypeOK, RelaxingOne
  <2>3. indegree \in [Candidates -> Nat]
    BY <2>1 DEF TypeOK
  <2>4. Len(selected) \in Nat
    BY <2>2, LenProperties
  <2> QED
    BY <2>1, <2>2, <2>3, <2>4
<1>1. IF depends
      THEN /\ indegree' = [indegree EXCEPT ![n] = @ - 1]
           /\ ready' = IF indegree[n] - 1 = 0 THEN Append(ready, n) ELSE ready
      ELSE UNCHANGED <<indegree, ready>>
  BY DEF RelaxDependent
<1>2. Current \in Range(ordered) /\ Current' = Current /\ Current \in Candidates
  BY <1>0, LenProperties, EmptySeq, RangeEquality DEF Current, QueuesDistinct
<1>3. ~Relaxed(n) /\ \A m : Relaxed(m)' <=> Relaxed(m) \/ m = n
  <2>1. ~Relaxed(n)
    BY <1>0 DEF Relaxed, DistinctSelection
  <2>2. \A i : i \in 1..(k' - 1) <=> i \in 1..(k - 1) \/ i = k
    BY <1>0
  <2> QED
    BY <1>0, <2>1, <2>2 DEF Relaxed
<1>4. \A m : Unmet(m)' = IF m = n THEN Unmet(m) \ {Current} ELSE Unmet(m)
  BY <1>0, <1>2, <1>3, SelectionFixed DEF Unmet, Met
<1>5. Current \in Unmet(n) <=> Current \in DepsOf(n)
  BY <1>0, <1>2, <1>3 DEF Unmet, Met
<1>6. \A m \in Candidates : IsFiniteSet(Unmet(m)) /\ indegree[m] = Cardinality(Unmet(m))
  BY <1>0, CandidatesFinite DEF CountsUnmet, Planning
<1>7. \A m \in Candidates : Cardinality(Unmet(m)')
          = IF m = n /\ Current \in DepsOf(n) THEN indegree[m] - 1 ELSE indegree[m]
  BY <1>4, <1>5, <1>6, FS_RemoveElement
<1>8. /\ DOMAIN indegree' = Candidates
      /\ \A m \in Candidates : indegree'[m] = Cardinality(Unmet(m)')
  BY <1>0, <1>1, <1>7
<1>9. depends => indegree[n] \in Nat \ {0} /\ n \notin Range(ready) \cup Range(ordered)
  <2>1. depends => Unmet(n) # {} /\ n \in Candidates
    BY <1>0, <1>5
  <2>2. depends => indegree[n] # 0
    BY <1>6, <2>1, FS_EmptySet
  <2> QED
    BY <1>0, <2>1, <2>2 DEF QueuedMeansZero, Planning
<1>10. indegree' \in [Candidates -> Nat]
  BY <1>0, <1>1, <1>9
<1> DEFINE enqueue == depends /\ indegree[n] - 1 = 0
<1>11. /\ ready' \in Seq(Names)
       /\ Range(ready') = IF enqueue THEN Range(ready) \cup {n} ELSE Range(ready)
       /\ NoRepeats(ready')
  <2>1. CASE enqueue
    <3>1. n \in Names /\ ready' = Append(ready, n) /\ n \notin Range(ready)
      BY <1>0, <1>1, <1>9, <2>1, CandidatesFinite
    <3>2. /\ Append(ready, n) \in Seq(Names)
          /\ Len(Append(ready, n)) = Len(ready) + 1
          /\ \A i \in 1..Len(ready) : Append(ready, n)[i] = ready[i]
          /\ Append(ready, n)[Len(ready) + 1] = n
          /\ Range(Append(ready, n)) = Range(ready) \cup {n}
      BY <1>0, <3>1, RangeAppend
    <3>3. Len(ready) \in Nat /\ \A i \in 1..Len(ready) : ready[i] \in Range(ready)
      BY <1>0, LenProperties, RangeEquality
    <3>4. NoRepeats(Append(ready, n))
      BY <3>1, <3>2, <3>3 DEF NoRepeats, QueuesDistinct
    <3> QED
      BY <2>1, <3>1, <3>2, <3>4
  <2>2. CASE ~enqueue
    BY <1>0, <1>1, <2>2 DEF QueuesDistinct
  <2> QED
    BY <2>1, <2>2
<1>12. TypeOK'
  BY <1>0, <1>10, <1>11, SelectionFixed DEF TypeOK, RelaxDependent, inputs, filterVars, Phases
<1>13. CountsUnmet'
  BY <1>0, <1>8, SelectionFixed DEF CountsUnmet, Planning
<1>14. QueuesDistinct'
  <2>1. Range(ordered') = Range(ordered) /\ NoRepeats(ordered')
    BY <1>0 DEF QueuesDistinct
  <2> QED
    BY <1>0, <1>9, <1>11, <2>1, SelectionFixed DEF QueuesDistinct
<1>15. QueuedMeansZero'
  <2>1. Range(ordered') = Range(ordered)
    BY <1>0
  <2>2. ASSUME NEW m \in Range(ready) \cup Range(ordered) PROVE indegree'[m] = 0
    BY <1>0, <1>1, <1>9, <2>2 DEF QueuedMeansZero, QueuesDistinct, Planning
  <2>3. enqueue => indegree'[n] = 0
    BY <1>0, <1>1
  <2> QED
    BY <1>0, <1>11, <2>1, <2>2, <2>3 DEF QueuedMeansZero, Planning
<1>16. ZeroMeansQueued'
  <2>1. Range(ordered') = Range(ordered)
    BY <1>0
  <2>2. ASSUME NEW m \in Candidates, indegree'[m] = 0
        PROVE  m \in Range(ready') \cup Range(ordered)
    BY <1>0, <1>1, <1>11, <2>2 DEF ZeroMeansQueued
  <2> QED
    BY <1>0, <2>1, <2>2, SelectionFixed DEF ZeroMeansQueued
<1>17. DependenciesFirst'
  BY <1>0, SelectionFixed DEF DependenciesFirst
<1> QED
  BY <1>0, <1>12, <1>13, <1>14, <1>15, <1>16, <1>17
     DEF DistinctSelection, Untouched, SeededSoFar, RelaxingOne, VerdictOfDone

LEMMA FinishRelaxStep ==
    ASSUME IInv, FinishRelax
    PROVE  IInv'
<1> USE DEF IInv
<1>0. /\ phase = "relax" /\ phase' = "pop" /\ k > Len(selected) /\ k' = k
      /\ UNCHANGED <<selected, missing, indegree, ready, ordered, cyclic>>
      /\ Len(selected) \in Nat /\ k \in Nat
  BY LenProperties DEF FinishRelax, planVars, TypeOK
<1>1. TypeOK'
  BY <1>0, SelectionFixed DEF TypeOK, FinishRelax, inputs, filterVars, planVars, Phases
<1>2. \A n \in Candidates : Relaxed(n)
  BY <1>0, CandidatesFinite DEF Relaxed
<1>3. \A n \in Candidates : Unmet(n)' = Unmet(n)
  BY <1>0, <1>2, SelectionFixed DEF Unmet, Met
<1>4. CountsUnmet' /\ QueuesDistinct' /\ QueuedMeansZero' /\ ZeroMeansQueued'
  BY <1>0, <1>3, SelectionFixed
     DEF CountsUnmet, QueuesDistinct, QueuedMeansZero, ZeroMeansQueued, Planning
<1>5. DependenciesFirst'
  BY <1>0, SelectionFixed DEF DependenciesFirst
<1> QED
  BY <1>0, <1>1, <1>4, <1>5
     DEF DistinctSelection, Untouched, SeededSoFar, RelaxingOne, VerdictOfDone

LEMMA ReportCycleStep ==
    ASSUME IInv, ReportCycle
    PROVE  IInv'
<1> USE DEF IInv
<1>0. /\ phase = "pop" /\ phase' = "done" /\ k' = k /\ ready = <<>>
      /\ UNCHANGED <<selected, missing, indegree, ready, ordered>>
      /\ DOMAIN indegree = Candidates /\ Candidates \subseteq Names
      /\ cyclic' = {n \in DOMAIN indegree : indegree[n] > 0}
  BY CandidatesFinite DEF ReportCycle, TypeOK
<1>1. cyclic' \subseteq Names
  BY <1>0
<1>2. TypeOK'
  BY <1>0, <1>1, SelectionFixed DEF TypeOK, ReportCycle, inputs, filterVars, Phases
<1>3. \A n : Unmet(n)' = Unmet(n)
  BY <1>0, SelectionFixed DEF Unmet, Met
<1>4. CountsUnmet' /\ QueuesDistinct' /\ QueuedMeansZero' /\ ZeroMeansQueued'
  BY <1>0, <1>3, SelectionFixed
     DEF CountsUnmet, QueuesDistinct, QueuedMeansZero, ZeroMeansQueued, Planning
<1>5. DependenciesFirst'
  BY <1>0, SelectionFixed DEF DependenciesFirst
<1> QED
  BY <1>0, <1>2, <1>4, <1>5
     DEF DistinctSelection, Untouched, SeededSoFar, RelaxingOne, VerdictOfDone

LEMMA StutterStep ==
    ASSUME IInv, UNCHANGED vars
    PROVE  IInv'
<1>1. \A n : Unmet(n)' = Unmet(n)
  BY SelectionFixed DEF vars, Unmet, Met, Relaxed, Current
<1>2. \A n : Relaxed(n)' <=> Relaxed(n)
  BY DEF vars, Relaxed
<1> QED
  BY <1>1, <1>2, SelectionFixed DEF vars, IInv, TypeOK, DistinctSelection, Untouched,
     CountsUnmet, QueuesDistinct, QueuedMeansZero, ZeroMeansQueued, SeededSoFar,
     RelaxingOne, VerdictOfDone, DependenciesFirst, Planning

(* The invariant holds throughout start-up, for every set of names, every  *)
(* scan and every profile.                                                 *)
THEOREM StartupInvariant == Spec => []IInv
<1>1. Init => IInv
  BY InitInvariant
<1>2. IInv /\ [Next]_vars => IInv'
  <2> SUFFICES ASSUME IInv, [Next]_vars PROVE IInv'
    OBVIOUS
  <2>1. CASE SelectAll \/ RequestNamed \/ TakePending \/ FinishWalk \/ FinishUnique
    BY <2>1, FilterStep
  <2>2. CASE KeepFirst
    BY <2>2, KeepFirstStep
  <2>3. CASE BuildGraph
    BY <2>3, BuildGraphStep
  <2>4. CASE SeedReady
    BY <2>4, SeedReadyStep
  <2>5. CASE FinishSeed
    BY <2>5, FinishSeedStep
  <2>6. CASE PopReady
    BY <2>6, PopReadyStep
  <2>7. CASE RelaxDependent
    BY <2>7, RelaxDependentStep
  <2>8. CASE FinishRelax
    BY <2>8, FinishRelaxStep
  <2>9. CASE ReportCycle
    BY <2>9, ReportCycleStep
  <2>10. CASE UNCHANGED vars
    BY <2>10, StutterStep
  <2> QED
    BY <2>1, <2>2, <2>3, <2>4, <2>5, <2>6, <2>7, <2>8, <2>9, <2>10 DEF Next
<1> QED
  BY <1>1, <1>2, PTL DEF Spec

\* Type correctness of the start-up planning of PluginManager.
THEOREM StartupTypeCorrect == Spec => []TypeOK
<1>1. IInv => TypeOK
  BY DEF IInv
<1> QED
  BY <1>1, StartupInvariant, PTL

(* buildStartPlan never orders a plugin before a startable dependency of   *)
(* it, whatever the graph.                                                 *)
THEOREM StartOrderRespectsDependencies == Spec => []DependenciesFirst
<1>1. IInv => DependenciesFirst
  BY DEF IInv
<1> QED
  BY <1>1, StartupInvariant, PTL

(* When buildStartPlan returns, its result is a start plan: each plugin of *)
(* the selection is ordered exactly once after its dependencies, or is     *)
(* blocked for a missing dependency, or waits on another blocked one.      *)
THEOREM StartPlanIsCorrect == Spec => []PlanIsStartPlan
<1>1. ASSUME IInv PROVE PlanIsStartPlan
  <2> SUFFICES ASSUME phase = "done"
               PROVE  IsStartPlan(SelectedNames, [n \in SelectedNames |-> DepsOf(n)],
                                  ordered, missing, cyclic)
    BY DEF PlanIsStartPlan
  <2> DEFINE deps == [n \in SelectedNames |-> DepsOf(n)]
  <2>1. Candidates = {n \in SelectedNames : deps[n] \subseteq SelectedNames}
    BY DEF Candidates, Missing
  <2>2. missing = SelectedNames \ Candidates
    BY <1>1 DEF IInv, CountsUnmet, Planning, Candidates, Missing
  <2>3. Range(ready) = {} /\ ready = <<>>
    BY <1>1 DEF IInv, VerdictOfDone, Range
  <2>4. Range(ordered) \subseteq Candidates
    BY <1>1 DEF IInv, QueuesDistinct
  <2>5. indegree \in [Candidates -> Nat]
    BY <1>1 DEF IInv, TypeOK
  <2>6. cyclic = Candidates \ Range(ordered)
    <3>1. cyclic = {n \in Candidates : indegree[n] > 0}
      BY <1>1, <2>5 DEF IInv, VerdictOfDone
    <3>2. \A n \in Candidates : indegree[n] > 0 <=> n \notin Range(ordered)
      BY <1>1, <2>3, <2>5 DEF IInv, QueuedMeansZero, ZeroMeansQueued, Planning
    <3> QED
      BY <3>1, <3>2
  <2>7. \A i, j \in 1..Len(ordered) : ordered[i] = ordered[j] => i = j
    BY <1>1 DEF IInv, QueuesDistinct, NoRepeats
  <2>8. \A i \in 1..Len(ordered) : ordered[i] \in SelectedNames
    <3>1. \A i \in 1..Len(ordered) : ordered[i] \in Range(ordered)
      BY <1>1, RangeEquality DEF IInv, TypeOK
    <3> QED
      BY <2>4, <3>1 DEF Candidates
  <2>9. \A i \in 1..Len(ordered) : \A d \in deps[ordered[i]] \cap Candidates :
            \E j \in 1..(i - 1) : ordered[j] = d
    BY <1>1, <2>8 DEF IInv, DependenciesFirst
  <2>10. ASSUME NEW n \in cyclic PROVE \E d \in cyclic : d \in deps[n]
    <3>1. n \in Candidates /\ n \in SelectedNames /\ indegree[n] # 0
      BY <1>1, <2>5, <2>6 DEF IInv, VerdictOfDone, Candidates
    <3>2. Cardinality(Unmet(n)) # 0
      BY <1>1, <3>1 DEF IInv, CountsUnmet, Planning
    <3>3. Unmet(n) # {}
      BY <3>2, FS_EmptySet
    <3> QED
      BY <2>6, <3>1, <3>3 DEF Unmet, Met
  <2> QED
    BY <2>1, <2>2, <2>4, <2>6, <2>7, <2>9, <2>10 DEF IsStartPlan
<1> QED
  BY <1>1, StartupInvariant, PTL

-----------------------------------------------------------------------------
(* What the filter selects, and what is refused: the invariant of the two  *)
(* loops in front of the planning.                                         *)

Scanned == NamesIn(discovered)
Wanted == IF LoadAll \in Range(profile) THEN Scanned ELSE Scanned \cap Range(profile)
Needs(n) == LastNamed(discovered, n).deps \cap Scanned

\* Each name that is wanted, or needed by a selected one, is selected or
\* queued, and nothing else is.
WalkInv ==
    /\ phase = "filter" => selectedNames = {}
    /\ phase = "walk" =>
           /\ Wanted \subseteq selectedNames \cup Range(pending)
           /\ \A n \in selectedNames : Needs(n) \subseteq selectedNames \cup Range(pending)
           /\ selectedNames \subseteq RequestClosure
           /\ Range(pending) \cap Scanned \subseteq RequestClosure
    /\ phase \notin {"filter", "walk"} => selectedNames = RequestClosure

\* The names the second loop has passed are selected if the filter chose them.
PassedNames == {discovered[i].name : i \in 1..(k - 1)}
UniqueInv ==
    /\ phase \in {"filter", "walk", "unique"} =>
           /\ k <= Len(discovered) + 1
           /\ SelectedNames = PassedNames \cap selectedNames
    /\ phase \in {"filter", "walk"} => k = 1
    /\ phase \notin {"filter", "walk", "unique"} => SelectedNames = selectedNames
    /\ \A i \in 1..Len(selected) : \E j \in 1..Len(discovered) : selected[i] = discovered[j]

FilterInv == WalkInv /\ UniqueInv

\* The closure is the least set that is closed under what is needed.
LEMMA ClosureIsLeast ==
    /\ RequestClosure \subseteq Scanned
    /\ Wanted \subseteq RequestClosure
    /\ \A n \in RequestClosure : Needs(n) \subseteq RequestClosure
    /\ \A S \in SUBSET Scanned :
           Wanted \subseteq S /\ (\A n \in S : Needs(n) \subseteq S) => RequestClosure \subseteq S
<1>1. RequestClosure = {n \in Scanned : \A S \in SUBSET Scanned :
          Wanted \subseteq S /\ (\A m \in S : Needs(m) \subseteq S) => n \in S}
  BY DEF RequestClosure, Wanted, Needs, Scanned
<1>2. Wanted \subseteq Scanned /\ \A n : Needs(n) \subseteq Scanned
  BY DEF Wanted, Needs
<1>. QED BY <1>1, <1>2

\* A queue is its head and its tail.
LEMMA RangeHeadTail ==
    ASSUME NEW S, NEW s \in Seq(S), s # <<>>
    PROVE  Range(s) = {Head(s)} \cup Range(Tail(s))
<1>1. /\ Tail(s) \in Seq(S)
      /\ Len(Tail(s)) = Len(s) - 1
      /\ \A i \in 1..Len(Tail(s)) : Tail(s)[i] = s[i + 1]
  BY HeadTailProperties
<1>2. Len(s) \in Nat \ {0}
  BY EmptySeq
<1>3. Head(s) = s[1]
  BY DEF Head
<1>4. Range(s) = {s[i] : i \in 1..Len(s)}
  BY RangeEquality
<1>5. Range(Tail(s)) = {Tail(s)[i] : i \in 1..Len(Tail(s))}
  BY <1>1, RangeEquality
<1>6. ASSUME NEW x \in Range(Tail(s)) PROVE x \in Range(s)
  <2>1. PICK i \in 1..Len(Tail(s)) : x = Tail(s)[i]
    BY <1>5
  <2>. QED BY <1>1, <1>2, <1>4, <2>1
<1>7. ASSUME NEW x \in Range(s), x # Head(s) PROVE x \in Range(Tail(s))
  <2>1. PICK i \in 1..Len(s) : x = s[i]
    BY <1>4
  <2>2. i - 1 \in 1..Len(Tail(s)) /\ Tail(s)[i - 1] = x
    BY <1>1, <1>2, <1>3, <1>7, <2>1
  <2>. QED BY <1>5, <2>2
<1>8. Head(s) \in Range(s)
  BY <1>2, <1>3, <1>4
<1>. QED BY <1>6, <1>7, <1>8

LEMMA FilterInitially == Init => FilterInv
<1> SUFFICES ASSUME Init PROVE FilterInv
  OBVIOUS
<1>1. discovered \in Seq(Descriptor) /\ Len(discovered) \in Nat
  BY ScansAssumption, LenProperties DEF Init
<1>2. SelectedNames = {} /\ PassedNames = {}
  BY DEF Init, SelectedNames, NamesIn, PassedNames
<1>. QED BY <1>1, <1>2 DEF Init, FilterInv, WalkInv, UniqueInv

\* A step of the walk changes neither what was scanned nor what was asked for.
LEMMA InputsFixed ==
    ASSUME UNCHANGED inputs
    PROVE  /\ Scanned' = Scanned /\ Wanted' = Wanted /\ RequestClosure' = RequestClosure
           /\ \A n : Needs(n)' = Needs(n)
BY DEF inputs, Scanned, Wanted, RequestClosure, Needs

LEMMA SelectAllFilters == ASSUME IInv, FilterInv, SelectAll PROVE FilterInv'
<1>1. UNCHANGED inputs /\ UNCHANGED <<selected, k>> /\ phase = "filter" /\ phase' = "unique"
      /\ selectedNames' = Scanned
  BY DEF SelectAll, Scanned
<1>2. Wanted = Scanned
  BY DEF SelectAll, Wanted, Scanned, NamesIn
<1>3. RequestClosure = Scanned
  BY <1>2, ClosureIsLeast
<1>4. k = 1 /\ SelectedNames = {} /\ PassedNames = {} /\ Len(discovered) \in Nat
  BY <1>1, LenProperties DEF FilterInv, WalkInv, UniqueInv, PassedNames, IInv, TypeOK
<1>5. WalkInv'
  BY <1>1, <1>3, InputsFixed DEF WalkInv
<1>6. UniqueInv'
  BY <1>1, <1>4 DEF FilterInv, UniqueInv, inputs, SelectedNames, PassedNames
<1>. QED BY <1>5, <1>6 DEF FilterInv

LEMMA RequestNamedFilters == ASSUME IInv, FilterInv, RequestNamed PROVE FilterInv'
<1>1. UNCHANGED inputs /\ UNCHANGED <<selected, selectedNames, k>>
      /\ phase = "filter" /\ phase' = "walk" /\ pending' = profile
      /\ LoadAll \notin Range(profile)
  BY DEF RequestNamed
<1>2. selectedNames = {} /\ Wanted = Scanned \cap Range(profile)
  BY <1>1 DEF FilterInv, WalkInv, Wanted
<1>3. WalkInv'
  BY <1>1, <1>2, ClosureIsLeast, InputsFixed DEF WalkInv
<1>4. UniqueInv'
  BY <1>1 DEF FilterInv, UniqueInv, inputs, SelectedNames, PassedNames
<1>. QED BY <1>3, <1>4 DEF FilterInv

LEMMA TakePendingFilters == ASSUME IInv, FilterInv, TakePending PROVE FilterInv'
<1> DEFINE n == Head(pending)
           rest == Range(Tail(pending))
<1>1. UNCHANGED inputs /\ UNCHANGED <<selected, k, phase>> /\ phase = "walk" /\ pending # <<>>
  BY DEF TakePending
<1>2. pending \in Seq(Names) /\ Tail(pending) \in Seq(Names) /\ Range(pending) = {n} \cup rest
  BY <1>1, RangeHeadTail, HeadTailProperties DEF IInv, TypeOK
<1>3. /\ Wanted \subseteq selectedNames \cup Range(pending)
      /\ \A m \in selectedNames : Needs(m) \subseteq selectedNames \cup Range(pending)
      /\ selectedNames \subseteq RequestClosure
      /\ Range(pending) \cap Scanned \subseteq RequestClosure
  BY <1>1 DEF FilterInv, WalkInv
<1>4. /\ Wanted \subseteq selectedNames' \cup Range(pending')
      /\ \A m \in selectedNames' : Needs(m) \subseteq selectedNames' \cup Range(pending')
      /\ selectedNames' \subseteq RequestClosure
      /\ Range(pending') \cap Scanned \subseteq RequestClosure
  <2>1. CASE n \in selectedNames \/ n \notin Scanned
    <3>1. pending' = Tail(pending) /\ selectedNames' = selectedNames
      BY <2>1 DEF TakePending, Scanned
    <3>2. Wanted \subseteq Scanned /\ \A m : Needs(m) \subseteq Scanned
      BY DEF Wanted, Needs
    <3>. QED BY <1>2, <1>3, <2>1, <3>1, <3>2
  <2>2. CASE n \notin selectedNames /\ n \in Scanned
    <3> DEFINE new == NewDependencies(n)
    <3>1. selectedNames' = selectedNames \cup {n}
      BY <2>2 DEF TakePending, Scanned
    <3>2. PICK order \in [1..Cardinality(new) -> new] :
              Range(order) = new /\ pending' = Tail(pending) \o order
      BY <2>2 DEF TakePending, Scanned
    <3>3. new = Needs(n) \ (selectedNames \cup {n} \cup rest)
      BY DEF NewDependencies, Needs, Scanned
    <3>4. new \subseteq Names /\ order \in Seq(Names)
      <4>1. new \subseteq NamesIn(discovered) /\ NamesIn(discovered) \subseteq Names
            /\ IsFiniteSet(NamesIn(discovered))
        BY NamesFinite DEF NewDependencies, IInv, TypeOK
      <4>2. Cardinality(new) \in Nat
        BY <4>1, FS_Subset, FS_CardinalityType
      <4>. QED BY <4>1, <4>2 DEF Seq
    <3>5. Range(pending') = rest \cup new
      <4>1. Tail(pending) \in Seq(Names)
        BY <1>2
      <4>2. Range(Tail(pending) \o order) = Range(Tail(pending)) \cup Range(order)
        BY <3>4, <4>1, RangeConcatenation
      <4>. QED BY <3>2, <4>2
    <3>6. n \in RequestClosure /\ Needs(n) \subseteq RequestClosure
      BY <1>2, <1>3, <2>2, ClosureIsLeast
    <3>. HIDE DEF n, rest, new
    <3>. QED BY <1>2, <1>3, <3>1, <3>3, <3>5, <3>6
  <2>. QED BY <2>1, <2>2
<1>5. WalkInv'
  BY <1>1, <1>4, InputsFixed DEF WalkInv
<1>6. SelectedNames = {} /\ k = 1 /\ PassedNames = {}
  BY <1>1 DEF FilterInv, UniqueInv, PassedNames
<1>7. UniqueInv'
  BY <1>1, <1>6 DEF FilterInv, UniqueInv, inputs, SelectedNames, PassedNames
<1>. QED BY <1>5, <1>7 DEF FilterInv

LEMMA FinishWalkFilters == ASSUME IInv, FilterInv, FinishWalk PROVE FilterInv'
<1>1. UNCHANGED inputs /\ UNCHANGED <<selected, selectedNames, k>>
      /\ phase = "walk" /\ phase' = "unique" /\ pending = <<>>
  BY DEF FinishWalk, filterVars
<1>2. Range(pending) = {}
  BY <1>1 DEF Range
<1>3. selectedNames = RequestClosure
  BY <1>1, <1>2, ClosureIsLeast DEF FilterInv, WalkInv
<1>4. WalkInv'
  BY <1>1, <1>3, InputsFixed DEF WalkInv
<1>5. UniqueInv'
  BY <1>1 DEF FilterInv, UniqueInv, inputs, SelectedNames, PassedNames
<1>. QED BY <1>4, <1>5 DEF FilterInv

LEMMA KeepFirstFilters == ASSUME IInv, FilterInv, KeepFirst PROVE FilterInv'
<1> DEFINE d == discovered[k]
<1>1. UNCHANGED inputs /\ UNCHANGED <<selectedNames, phase>> /\ phase = "unique"
      /\ k' = k + 1 /\ k \in 1..Len(discovered) /\ Len(discovered) \in Nat
  BY LenProperties DEF KeepFirst, filterVars, IInv, TypeOK
<1>2. d \in Descriptor
  BY <1>1, ElementOfSeq DEF IInv, TypeOK
<1>3. selected' = IF d.name \in selectedNames /\ d.name \notin SelectedNames
                  THEN Append(selected, d) ELSE selected
  BY DEF KeepFirst
<1>4. PassedNames' = PassedNames \cup {d.name}
  <2>1. 1..(k' - 1) = 1..(k - 1) \cup {k}
    BY <1>1
  <2>. QED BY <1>1, <2>1 DEF PassedNames, inputs
<1>5. SelectedNames = PassedNames \cap selectedNames
  BY <1>1 DEF FilterInv, UniqueInv
<1>6. selected \in Seq(Descriptor)
  BY DEF IInv, TypeOK
<1>7. CASE d.name \in selectedNames /\ d.name \notin SelectedNames
  <2>1. /\ selected' = Append(selected, d) /\ Len(selected') = Len(selected) + 1
        /\ \A i \in 1..Len(selected) : selected'[i] = selected[i]
        /\ selected'[Len(selected) + 1] = d
        /\ Len(selected) \in Nat /\ selected' \in Seq(Descriptor)
    BY <1>2, <1>3, <1>6, <1>7, AppendProperties, LenProperties
  <2>2. \A i \in 1..Len(selected') : i \in 1..Len(selected) \/ i = Len(selected) + 1
    BY <2>1
  <2>3. SelectedNames' = SelectedNames \cup {d.name}
    <3>1. /\ SelectedNames = {selected[i].name : i \in 1..Len(selected)}
          /\ SelectedNames' = {selected'[i].name : i \in 1..Len(selected')}
      BY <1>6, <2>1, LenProperties DEF SelectedNames, NamesIn
    <3>. QED BY <2>1, <2>2, <3>1
  <2>4. \A i \in 1..Len(selected') : \E j \in 1..Len(discovered) : selected'[i] = discovered[j]
    BY <1>1, <2>1, <2>2 DEF FilterInv, UniqueInv
  <2>5. UniqueInv'
    BY <1>1, <1>4, <1>5, <1>7, <2>3, <2>4 DEF UniqueInv, inputs
  <2>. QED BY <1>1, <2>5, InputsFixed DEF FilterInv, WalkInv
<1>8. CASE ~(d.name \in selectedNames /\ d.name \notin SelectedNames)
  <2>1. selected' = selected
    BY <1>3, <1>8
  <2>2. SelectedNames' = SelectedNames
    BY <2>1, SelectionFixed
  <2>3. UniqueInv'
    BY <1>1, <1>4, <1>5, <1>8, <2>1, <2>2 DEF FilterInv, UniqueInv, inputs
  <2>. QED BY <1>1, <2>3, InputsFixed DEF FilterInv, WalkInv
<1>. QED BY <1>7, <1>8

LEMMA FinishUniqueFilters == ASSUME IInv, FilterInv, FinishUnique PROVE FilterInv'
<1>1. UNCHANGED inputs /\ UNCHANGED <<selected, selectedNames, k>>
      /\ phase = "unique" /\ phase' = "graph" /\ k > Len(discovered)
  BY DEF FinishUnique, filterVars
<1>2. discovered \in Seq(Descriptor) /\ Len(discovered) \in Nat /\ k \in Nat
  BY LenProperties DEF IInv, TypeOK
<1>3. k - 1 = Len(discovered)
  BY <1>1, <1>2 DEF FilterInv, UniqueInv
<1>4. PassedNames = Scanned
  BY <1>2, <1>3, LenProperties DEF PassedNames, Scanned, NamesIn
<1>5. SelectedNames = selectedNames
  BY <1>1, <1>4, ClosureIsLeast DEF FilterInv, WalkInv, UniqueInv
<1>6. SelectedNames' = SelectedNames
  BY <1>1, SelectionFixed
<1>7. UniqueInv'
  BY <1>1, <1>5, <1>6 DEF FilterInv, UniqueInv, inputs
<1>. QED BY <1>1, <1>7, InputsFixed DEF FilterInv, WalkInv

\* While the plan is built nothing of this changes.
LEMMA PlanningFilters ==
    ASSUME FilterInv, phase \notin {"filter", "walk", "unique"},
           phase' \notin {"filter", "walk", "unique"},
           UNCHANGED inputs, UNCHANGED <<selected, selectedNames>>
    PROVE  FilterInv'
BY InputsFixed, SelectionFixed DEF FilterInv, WalkInv, UniqueInv, inputs

LEMMA FilterStays == ASSUME FilterInv, UNCHANGED vars PROVE FilterInv'
BY InputsFixed, SelectionFixed DEF FilterInv, WalkInv, UniqueInv, vars, inputs, PassedNames

THEOREM FilterInvariant == Spec => []FilterInv
<1>1. IInv /\ FilterInv /\ [Next]_vars => FilterInv'
  <2> SUFFICES ASSUME IInv, FilterInv, [Next]_vars PROVE FilterInv'
    OBVIOUS
  <2>1. CASE BuildGraph \/ SeedReady \/ FinishSeed \/ PopReady \/ RelaxDependent
             \/ FinishRelax \/ ReportCycle
    BY <2>1, PlanningFilters DEF BuildGraph, SeedReady, FinishSeed, PopReady, RelaxDependent,
       FinishRelax, ReportCycle, filterVars
  <2>. QED BY <2>1, SelectAllFilters, RequestNamedFilters, TakePendingFilters,
              FinishWalkFilters, KeepFirstFilters, FinishUniqueFilters, FilterStays DEF Next
<1>. QED BY FilterInitially, <1>1, StartupInvariant, PTL DEF Spec

(* The filter selects what the profile asks for and, transitively, what    *)
(* that depends on, and nothing else, whatever is scanned.                 *)
THEOREM SelectionIsClosure == Spec => []SelectionIsRequestClosure
<1>1. FilterInv => SelectionIsRequestClosure
  BY DEF FilterInv, WalkInv, UniqueInv, SelectionIsRequestClosure
<1>. QED BY <1>1, FilterInvariant, PTL

-----------------------------------------------------------------------------
\* Every set of numbers has a least one.
LEMMA LeastNumber ==
    ASSUME NEW S \in SUBSET Nat, S # {}
    PROVE  \E n \in S : \A m \in S : n <= m
<1> DEFINE T == {1..n : n \in S}
           R == StrictSubsetOrdering(Nat)
<1>1. \A n \in Nat : 1..n \in FiniteSubsetsOf(Nat)
  BY FS_Interval DEF FiniteSubsetsOf
<1>2. T \subseteq FiniteSubsetsOf(Nat) /\ T # {}
  BY <1>1
<1>3. IsWellFoundedOn(R, FiniteSubsetsOf(Nat))
  BY FS_StrictSubsetOrderingWellFounded
<1> HIDE DEF T, R
<1>4. \E x \in T : \A y \in T : ~ (<<y, x>> \in R)
  BY <1>2, <1>3, WFMin
<1>5. PICK n \in S : \A m \in S : ~ (<<1..m, 1..n>> \in R)
  BY <1>4 DEF T
<1>6. ASSUME NEW m \in S, m < n PROVE FALSE
  <2>1. 1..m \in SUBSET Nat /\ 1..n \in SUBSET Nat /\ 1..m \subseteq 1..n
        /\ n \in 1..n /\ n \notin 1..m
    BY <1>6
  <2>2. <<1..m, 1..n>> \in R
    BY <2>1 DEF R, StrictSubsetOrdering
  <2>. QED BY <1>5, <2>2
<1>. QED BY <1>6

(* Of a set in which everybody waits for somebody nobody can be ordered:   *)
(* the first to be ordered would have waited in vain.                      *)
LEMMA CycleIsNeverOrdered ==
    ASSUME IInv, NEW S \in SUBSET Candidates, \A m \in S : DepsOf(m) \cap S # {}
    PROVE  S \cap Range(ordered) = {}
<1> SUFFICES ASSUME S \cap Range(ordered) # {} PROVE FALSE
  OBVIOUS
<1> DEFINE places == {i \in 1..Len(ordered) : ordered[i] \in S}
<1>1. ordered \in Seq(Names) /\ Len(ordered) \in Nat
  BY LenProperties DEF IInv, TypeOK
<1>2. Range(ordered) = {ordered[i] : i \in 1..Len(ordered)}
  BY <1>1, RangeEquality
<1>3. places # {} /\ places \in SUBSET Nat
  BY <1>1, <1>2
<1>4. PICK i \in places : \A j \in places : i <= j
  BY <1>3, LeastNumber
<1>5. PICK d \in Candidates : d \in DepsOf(ordered[i]) /\ d \in S
  BY <1>4
<1>6. PICK j \in 1..(i - 1) : ordered[j] = d
  BY <1>4, <1>5 DEF IInv, DependenciesFirst
<1>7. j \in places /\ j < i
  BY <1>1, <1>4, <1>5, <1>6
<1>. QED BY <1>3, <1>4, <1>7

\* With one descriptor for each name there is no question which one counts.
LEMMA OnlyNamed ==
    ASSUME NEW s, NEW i \in DOMAIN s, i \in Nat,
           \A j \in DOMAIN s : s[j].name = s[i].name => j = i
    PROVE  LastNamed(s, s[i].name) = s[i]
BY DEF LastNamed

LEMMA RefusedForAbsent == ASSUME IInv, FilterInv PROVE OnlyAbsentDependenciesBlock
<1> SUFFICES ASSUME phase = "done",
                    \A i, j \in DOMAIN discovered :
                        discovered[i].name = discovered[j].name => i = j,
                    NEW n \in missing, DepsOf(n) \subseteq Scanned
             PROVE  FALSE
  BY DEF OnlyAbsentDependenciesBlock, Scanned
<1>1. n \in SelectedNames /\ ~(DepsOf(n) \subseteq SelectedNames)
  BY DEF IInv, CountsUnmet, Planning, Missing
<1>2. SelectedNames = RequestClosure
  BY DEF FilterInv, WalkInv, UniqueInv
<1>3. PICK i \in 1..Len(selected) : selected[i].name = n
  BY <1>1, NamesFinite DEF SelectedNames, IInv, TypeOK
<1>4. DOMAIN selected = 1..Len(selected) /\ DOMAIN discovered = 1..Len(discovered)
      /\ Len(selected) \in Nat /\ Len(discovered) \in Nat
  BY LenProperties DEF IInv, TypeOK
<1>5. LastNamed(selected, n) = selected[i]
  BY <1>3, <1>4, OnlyNamed DEF IInv, DistinctSelection
<1>6. PICK j \in 1..Len(discovered) : selected[i] = discovered[j]
  BY DEF FilterInv, UniqueInv
<1>7. LastNamed(discovered, n) = discovered[j]
  BY <1>3, <1>4, <1>6, OnlyNamed
<1>8. DepsOf(n) = Needs(n)
  BY <1>5, <1>6, <1>7 DEF DepsOf, Needs
<1>. QED BY <1>1, <1>2, <1>8, ClosureIsLeast

(* Whatever the graph: "dependency_cycle" is reported for the plugins that *)
(* reach a cycle of startable ones and for no other, and "missing          *)
(* dependency", with names that are not repeated, only for what is absent. *)
THEOREM BlockVerdictsAreRight == Spec => []BlockVerdictsAreExact
<1>1. ASSUME IInv, PlanIsStartPlan PROVE CycleVerdictIsExact
  <2> SUFFICES ASSUME phase = "done" PROVE cyclic = {n \in Candidates : ReachesCycle(n)}
    BY DEF CycleVerdictIsExact
  <2> DEFINE deps == [n \in SelectedNames |-> DepsOf(n)]
  <2>1. IsStartPlan(SelectedNames, deps, ordered, missing, cyclic)
    BY <1>1 DEF PlanIsStartPlan
  <2>2. Candidates = {n \in SelectedNames : deps[n] \subseteq SelectedNames}
    BY DEF Candidates, Missing
  <2>3. cyclic = Candidates \ Range(ordered) /\ \A n \in cyclic : \E d \in cyclic : d \in deps[n]
    BY <2>1, <2>2 DEF IsStartPlan
  <2>4. \A n \in cyclic : DepsOf(n) \cap cyclic # {}
    BY <2>2, <2>3
  <2>5. \A n \in cyclic : ReachesCycle(n)
    BY <2>3, <2>4 DEF ReachesCycle
  <2>6. ASSUME NEW n \in Candidates, ReachesCycle(n) PROVE n \in cyclic
    <3>1. PICK S \in SUBSET Candidates : n \in S /\ \A m \in S : DepsOf(m) \cap S # {}
      BY <2>6 DEF ReachesCycle
    <3>. QED BY <1>1, <2>3, <3>1, CycleIsNeverOrdered
  <2>. QED BY <2>3, <2>5, <2>6
<1>2. IInv /\ FilterInv /\ PlanIsStartPlan => BlockVerdictsAreExact
  BY <1>1, RefusedForAbsent DEF BlockVerdictsAreExact
<1>. QED BY <1>2, StartupInvariant, FilterInvariant, StartPlanIsCorrect, PTL
=============================================================================
