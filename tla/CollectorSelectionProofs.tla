----------------------- MODULE CollectorSelectionProofs -----------------------
(***************************************************************************)
(* The selection of collectors, for any registry and any command line.     *)
(* Both loops of collector_selector.go are folds: the first lemmas give    *)
(* the results of a fold turn by turn, by an induction that speaks of a    *)
(* set instead of a predicate and rests on the well-foundedness of <.      *)
(***************************************************************************)
EXTENDS CollectorSelection, WellFoundedInduction, TLAPS

(* Every set of natural numbers has a least element.                       *)
LEMMA LeastNatural ==
    ASSUME NEW T, T \subseteq Nat, T # {}
    PROVE  \E x \in T : \A y \in T : x <= y
  <1>1. IsWellFoundedOn({ss \in Nat \X Nat : ss[1] < ss[2]}, Nat)
    BY NatLessThanWellFounded DEF OpToRel
  <1>2. PICK x \in T : \A y \in T : ~ (<<y, x>> \in {ss \in Nat \X Nat : ss[1] < ss[2]})
    BY <1>1, WFMin
  <1>3. \A y \in T : ~ (y < x)
    BY <1>2
  <1> QED
    BY <1>3

(* A set that 0 is in, and every successor, has all natural numbers.       *)
LEMMA SetInduction ==
    ASSUME NEW S, 0 \in S, \A n \in Nat : n \in S => n + 1 \in S
    PROVE  Nat \subseteq S
  <1> SUFFICES ASSUME Nat \ S # {} PROVE FALSE
    OBVIOUS
  <1>1. PICK x \in Nat \ S : \A y \in Nat \ S : x <= y
    BY LeastNatural
  <1>2. x # 0 /\ x - 1 \in Nat
    OBVIOUS
  <1>3. x - 1 \in S
    BY <1>1, <1>2
  <1> QED
    BY <1>1, <1>2, <1>3

(* The same up to a number.                                                *)
LEMMA SetInductionTo ==
    ASSUME NEW n \in Nat, NEW S, 0 \in S, \A k \in 1..n : k - 1 \in S => k \in S
    PROVE  0..n \subseteq S
  <1> DEFINE U == {k \in Nat : k \in 0..n => k \in S}
  <1>1. 0 \in U
    OBVIOUS
  <1>2. ASSUME NEW k \in Nat, k \in U PROVE k + 1 \in U
    <2>1. CASE k + 1 \in 1..n
      <3>1. (k + 1) - 1 = k /\ k \in 0..n
        BY <2>1
      <3> QED
        BY <1>2, <2>1, <3>1
    <2>2. CASE k + 1 \notin 1..n
      BY <2>2
    <2> QED
      BY <2>1, <2>2
  <1> HIDE DEF U
  <1>3. Nat \subseteq U
    BY <1>1, <1>2, SetInduction
  <1> QED
    BY <1>3 DEF U

(* What a fold splits off last.                                            *)
LEMMA MaxIsLast ==
    ASSUME NEW k \in Nat, NEW s, s \subseteq 1..k, k \in s
    PROVE  Max(s) = k
  <1>1. \A x \in s : x >= k => x = k
    OBVIOUS
  <1>2. \A x \in s : k >= x
    OBVIOUS
  <1> QED
    BY <1>1, <1>2 DEF Max

(* The equations of a fold over the indices 1..n; step tells what to make  *)
(* of the result so far at an index.                                       *)
Folds(g, n, base, step) ==
    \A s \in SUBSET (1..n) :
        g[s] = IF s = {} THEN base ELSE step[<<g[s \ {Max(s)}], Max(s)>>]

(* They have a solution.                                                   *)
LEMMA FoldExists ==
    ASSUME NEW n \in Nat, NEW V, NEW base \in V, NEW step \in [V \X (1..n) -> V]
    PROVE  \E g \in [SUBSET (1..n) -> V] : Folds(g, n, base, step)
  <1> DEFINE Solutions(k) == {g \in [SUBSET (1..k) -> V] : Folds(g, k, base, step)}
             Reached == {k \in 0..n : Solutions(k) # {}}
  <1>1. 0 \in Reached
    <2>1. SUBSET (1..0) = {{}}
      OBVIOUS
    <2>2. [s \in SUBSET (1..0) |-> base] \in Solutions(0)
      BY <2>1 DEF Folds
    <2> HIDE DEF Solutions
    <2> QED
      BY <2>2
  <1>2. ASSUME NEW k \in 1..n, k - 1 \in Reached PROVE k \in Reached
    <2>1. PICK g \in [SUBSET (1..(k - 1)) -> V] : Folds(g, k - 1, base, step)
      BY <1>2
    <2> DEFINE h == [s \in SUBSET (1..k) |->
                        IF k \in s THEN step[<<g[s \ {k}], k>>] ELSE g[s]]
    <2>2. \A s \in SUBSET (1..k) : s \ {k} \in SUBSET (1..(k - 1))
      OBVIOUS
    <2>3. \A s \in SUBSET (1..k) : k \notin s => s \in SUBSET (1..(k - 1))
      OBVIOUS
    <2>4. h \in [SUBSET (1..k) -> V]
      <3>1. \A s \in SUBSET (1..k) : step[<<g[s \ {k}], k>>] \in V
        BY <2>2
      <3> QED
        BY <2>3, <3>1
    <2>5. ASSUME NEW s \in SUBSET (1..k)
          PROVE  h[s] = IF s = {} THEN base ELSE step[<<h[s \ {Max(s)}], Max(s)>>]
      <3>1. CASE k \in s
        <4>1. Max(s) = k
          <5>1. k \in Nat /\ s \subseteq 1..k
            OBVIOUS
          <5> QED
            BY <3>1, <5>1, MaxIsLast
        <4>2. h[s \ {k}] = g[s \ {k}]
          OBVIOUS
        <4>3. h[s] = step[<<g[s \ {k}], k>>]
          BY <3>1
        <4> QED
          BY <3>1, <4>1, <4>2, <4>3
      <3>2. CASE k \notin s
        <4>1. h[s] = g[s] /\ h[s \ {Max(s)}] = g[s \ {Max(s)}]
          BY <3>2
        <4> QED
          BY <2>1, <2>3, <3>2, <4>1 DEF Folds
      <3> QED
        BY <3>1, <3>2
    <2> HIDE DEF h
    <2>6. h \in Solutions(k)
      BY <2>4, <2>5 DEF Folds
    <2> HIDE DEF Solutions
    <2> QED
      BY <2>6
  <1> HIDE DEF Reached
  <1>3. n \in Reached
    BY <1>1, <1>2, SetInductionTo
  <1> QED
    BY <1>3 DEF Reached

(* What a fold splits off is an index, and leaves a set of indices.        *)
LEMMA MaxIsIn ==
    ASSUME NEW n \in Nat, NEW s, s \subseteq 1..n, s # {}
    PROVE  Max(s) \in s /\ s \ {Max(s)} \subseteq 1..n
  <1> DEFINE T == {n - y : y \in s}
  <1>1. PICK x \in T : \A z \in T : x <= z
    <2>1. \A y \in s : n - y \in Nat
      OBVIOUS
    <2>2. T \subseteq Nat /\ T # {}
      BY <2>1
    <2> HIDE DEF T
    <2> QED
      BY <2>2, LeastNatural
  <1>2. n - x \in s /\ \A y \in s : n - x >= y
    BY <1>1
  <1> QED
    BY <1>2 DEF Max

(* A fold of which it is not known yet that its results are in V.          *)
Unfolds(fold, n, V, base, step) ==
    /\ fold[{}] = base
    /\ \A s \in SUBSET (1..n) :
          s # {} /\ fold[s \ {Max(s)}] \in V =>
              fold[s] = step[<<fold[s \ {Max(s)}], Max(s)>>]

(* What the fold has come to after each of its turns.                      *)
TurnsOf(fold, r, n, base, step) ==
    /\ r[0] = base
    /\ \A k \in 1..n : r[k] = step[<<r[k - 1], k>>]
    /\ r[n] = fold[1..n]

(* A fold whose steps stay in V has such results.                          *)
LEMMA FoldTurns ==
    ASSUME NEW n \in Nat, NEW V, NEW base \in V, NEW step \in [V \X (1..n) -> V],
           NEW fold, Unfolds(fold, n, V, base, step)
    PROVE  \E r \in [0..n -> V] : TurnsOf(fold, r, n, base, step)
  <1> DEFINE r == [k \in 0..n |-> fold[1..k]]
             Typed == {k \in 0..n : r[k] \in V}
  <1>1. r[0] = base
    <2>1. 1..0 = {}
      OBVIOUS
    <2> QED
      BY <2>1 DEF Unfolds
  <1>2. r[n] = fold[1..n]
    OBVIOUS
  <1>3. ASSUME NEW k \in 1..n, r[k - 1] \in V
        PROVE  r[k] = step[<<r[k - 1], k>>]
    <2>1. 1..k \in SUBSET (1..n) /\ 1..k # {}
      OBVIOUS
    <2>2. (1..k) \ {k} = 1..(k - 1)
      OBVIOUS
    <2>3. Max(1..k) = k
      BY MaxIsLast
    <2>4. r[k] = fold[1..k] /\ r[k - 1] = fold[1..(k - 1)]
      OBVIOUS
    <2> HIDE DEF r
    <2> QED
      BY <1>3, <2>1, <2>2, <2>3, <2>4 DEF Unfolds
  <1> HIDE DEF r
  <1>4. 0..n \subseteq Typed
    <2>1. 0 \in Typed
      BY <1>1
    <2>2. ASSUME NEW k \in 1..n, k - 1 \in Typed PROVE k \in Typed
      <3>1. r[k - 1] \in V /\ k \in 0..n
        BY <2>2
      <3> QED
        BY <1>3, <3>1
    <2> HIDE DEF Typed
    <2> QED
      BY <2>1, <2>2, SetInductionTo
  <1>5. r \in [0..n -> V]
    BY <1>4 DEF r
  <1>6. \A k \in 1..n : r[k] = step[<<r[k - 1], k>>]
    BY <1>3, <1>4
  <1> QED
    BY <1>1, <1>2, <1>5, <1>6 DEF TurnsOf

-----------------------------------------------------------------------------
\* The names of the registry.
Names == Required \cup Optional

(* One turn of the loop keeps to the names of the registry.                *)
LEMMA AddSelectedNames ==
    ASSUME SelectionNames, NEW names \in Seq(Names), NEW s \in Spelling
    PROVE  AddSelected(names, s) \in Seq(Names)
  <1>1. OptionalCollectorNames \in Seq(Names)
    BY DEF SelectionNames, Optional, Names
  <1>2. s.name \in Optional => Append(names, s.name) \in Seq(Names)
    BY DEF Names
  <1> QED
    BY <1>1, <1>2 DEF AddSelected

(* The selected names, after each turn of the loop over the command line.  *)
LEMMA SelectionTurns ==
    ASSUME SelectionNames, NEW selection \in Seq(Spelling)
    PROVE  \E r \in [0..Len(selection) -> Seq(Names)] :
              /\ r[0] = RequiredCollectorNames
              /\ \A k \in 1..Len(selection) : r[k] = AddSelected(r[k - 1], selection[k])
              /\ FoldLeft(AddSelected, RequiredCollectorNames, selection) = r[Len(selection)]
  <1> DEFINE n == Len(selection)
             V == Seq(Names)
             base == RequiredCollectorNames
             step == [p \in V \X (1..n) |-> AddSelected(p[1], selection[p[2]])]
             IsFold(g) == g = [s \in SUBSET (1..n) |->
                                 IF s = {} THEN base
                                 ELSE AddSelected(g[s \ {Max(s)}], selection[Max(s)])]
             fold == CHOOSE g : IsFold(g)
  <1>1. n \in Nat
    OBVIOUS
  <1>2. DOMAIN selection = 1..n /\ \A i \in 1..n : selection[i] \in Spelling
    OBVIOUS
  <1>3. FoldLeft(AddSelected, RequiredCollectorNames, selection) = fold[1..n]
    BY <1>2 DEF FoldLeft, MapThenFoldSet
  <1> HIDE DEF n, V
  <1>4. base \in V
    BY DEF SelectionNames, Required, Names, V
  <1>5. \A p \in V \X (1..n) : AddSelected(p[1], selection[p[2]]) \in V
    BY <1>2, AddSelectedNames DEF V
  <1>6. step \in [V \X (1..n) -> V]
    BY <1>5
  <1>7. \A names \in V, i \in 1..n : step[<<names, i>>] = AddSelected(names, selection[i])
    OBVIOUS
  <1> HIDE DEF base, step
  <1>8. PICK g \in [SUBSET (1..n) -> V] : Folds(g, n, base, step)
    BY <1>1, <1>4, <1>6, FoldExists
  <1>9. \A s \in SUBSET (1..n) :
            s # {} => Max(s) \in 1..n /\ s \ {Max(s)} \in SUBSET (1..n)
    BY <1>1, MaxIsIn
  <1>10. IsFold(g)
    BY <1>7, <1>8, <1>9 DEF Folds
  <1>11. IsFold(fold)
    BY <1>10
  <1> HIDE DEF fold
  <1>12. fold[{}] = base
    BY <1>11
  <1>13. Unfolds(fold, n, V, base, step)
    BY <1>7, <1>9, <1>11, <1>12 DEF Unfolds
  <1>14. PICK r \in [0..n -> V] : TurnsOf(fold, r, n, base, step)
    BY <1>1, <1>4, <1>6, <1>13, FoldTurns
  <1>15. \A k \in 1..n : step[<<r[k - 1], k>>] = AddSelected(r[k - 1], selection[k])
    BY <1>1, <1>7
  <1> QED
    BY <1>3, <1>14, <1>15 DEF TurnsOf, n, V, base

(* The set of a sequence's elements, as the loops make it grow.            *)
LEMMA ToSetFacts ==
    ASSUME NEW S, NEW s \in Seq(S)
    PROVE  /\ \A e \in S : ToSet(Append(s, e)) = ToSet(s) \cup {e}
           /\ \A t \in Seq(S) : ToSet(s \o t) = ToSet(s) \cup ToSet(t)
           /\ \A e : Contains(s, e) <=> e \in ToSet(s)
           /\ ToSet(s) \subseteq S
  <1>1. \A e \in S : ToSet(Append(s, e)) = ToSet(s) \cup {e}
    <2> TAKE e \in S
    <2>1. ToSet(s) \cup {e} \subseteq ToSet(Append(s, e))
      <3>1. \A i \in DOMAIN s : i \in DOMAIN Append(s, e) /\ Append(s, e)[i] = s[i]
        OBVIOUS
      <3>2. Len(s) + 1 \in DOMAIN Append(s, e) /\ Append(s, e)[Len(s) + 1] = e
        OBVIOUS
      <3> QED
        BY <3>1, <3>2 DEF ToSet
    <2>2. ToSet(Append(s, e)) \subseteq ToSet(s) \cup {e}
      BY DEF ToSet
    <2> QED
      BY <2>1, <2>2
  <1>2. \A t \in Seq(S) : ToSet(s \o t) = ToSet(s) \cup ToSet(t)
    <2> TAKE t \in Seq(S)
    <2>1. ToSet(s) \cup ToSet(t) \subseteq ToSet(s \o t)
      <3>1. \A i \in DOMAIN s : i \in DOMAIN (s \o t) /\ (s \o t)[i] = s[i]
        OBVIOUS
      <3>2. \A i \in DOMAIN t : /\ Len(s) + i \in DOMAIN (s \o t)
                                /\ (s \o t)[Len(s) + i] = t[i]
        OBVIOUS
      <3> QED
        BY <3>1, <3>2 DEF ToSet
    <2>2. ToSet(s \o t) \subseteq ToSet(s) \cup ToSet(t)
      <3>1. ASSUME NEW i \in DOMAIN (s \o t) PROVE (s \o t)[i] \in ToSet(s) \cup ToSet(t)
        <4>1. CASE i \in DOMAIN s
          BY <4>1 DEF ToSet
        <4>2. CASE i \notin DOMAIN s
          <5>1. i - Len(s) \in DOMAIN t /\ (s \o t)[i] = t[i - Len(s)]
            BY <4>2
          <5> QED
            BY <5>1 DEF ToSet
        <4> QED
          BY <4>1, <4>2
      <3> QED
        BY <3>1 DEF ToSet
    <2> QED
      BY <2>1, <2>2
  <1>3. \A e : Contains(s, e) <=> e \in ToSet(s)
    BY DEF Contains, ToSet
  <1>4. ToSet(s) \subseteq S
    BY DEF ToSet
  <1> QED
    BY <1>1, <1>2, <1>3, <1>4

(* "all" and "defaults" are names of no collector.                         *)
LEMMA GroupsAreNoNames == ASSUME SelectionNames PROVE Groups \cap Names = {}
  <1>1. /\ RequiredCollectorNames \in Seq(Names)
        /\ OptionalCollectorNames \in Seq(Names)
    BY DEF SelectionNames, Required, Optional, Names
  <1>2. ToSet(RequiredCollectorNames \o OptionalCollectorNames) = Names
    BY <1>1, ToSetFacts DEF Required, Optional, Names
  <1> QED
    BY <1>2 DEF SelectionNames, Groups

-----------------------------------------------------------------------------
\* One turn of the loop of RemoveDuplicates.
AddNew(res, name) == IF Contains(res, name) THEN res ELSE Append(res, name)

(* The names kept, after each turn of the loop of RemoveDuplicates.        *)
LEMMA RemovalTurns ==
    ASSUME NEW names \in Seq(Names)
    PROVE  \E r \in [0..Len(names) -> Seq(Names)] :
              /\ r[0] = <<>>
              /\ \A k \in 1..Len(names) : r[k] = AddNew(r[k - 1], names[k])
              /\ RemoveDuplicates(names) = r[Len(names)]
  <1> DEFINE n == Len(names)
             V == Seq(Names)
             base == << >>
             step == [p \in V \X (1..n) |-> AddNew(p[1], names[p[2]])]
             IsFold(g) == g = [s \in SUBSET (1..n) |->
                                 IF s = {} THEN base
                                 ELSE AddNew(g[s \ {Max(s)}], names[Max(s)])]
             fold == CHOOSE g : IsFold(g)
  <1>1. n \in Nat
    OBVIOUS
  <1>2. DOMAIN names = 1..n /\ \A i \in 1..n : names[i] \in Names
    OBVIOUS
  <1>3. RemoveDuplicates(names) = fold[1..n]
    BY <1>2 DEF RemoveDuplicates, FoldLeft, MapThenFoldSet, AddNew
  <1>4. base \in V
    OBVIOUS
  <1>5. \A p \in V \X (1..n) : AddNew(p[1], names[p[2]]) \in V
    <2>1. ASSUME NEW res \in V, NEW i \in 1..n PROVE AddNew(res, names[i]) \in V
      BY <1>2 DEF AddNew
    <2> QED
      BY <2>1
  <1> HIDE DEF n, V
  <1>6. step \in [V \X (1..n) -> V]
    BY <1>5
  <1>7. \A res \in V, i \in 1..n : step[<<res, i>>] = AddNew(res, names[i])
    OBVIOUS
  <1> HIDE DEF base, step
  <1>8. PICK g \in [SUBSET (1..n) -> V] : Folds(g, n, base, step)
    BY <1>1, <1>4, <1>6, FoldExists
  <1>9. \A s \in SUBSET (1..n) :
            s # {} => Max(s) \in 1..n /\ s \ {Max(s)} \in SUBSET (1..n)
    BY <1>1, MaxIsIn
  <1>10. IsFold(g)
    BY <1>7, <1>8, <1>9 DEF Folds
  <1>11. IsFold(fold)
    BY <1>10
  <1> HIDE DEF fold
  <1>12. fold[{}] = base
    BY <1>11
  <1>13. Unfolds(fold, n, V, base, step)
    BY <1>7, <1>9, <1>11, <1>12 DEF Unfolds
  <1>14. PICK r \in [0..n -> V] : TurnsOf(fold, r, n, base, step)
    BY <1>1, <1>4, <1>6, <1>13, FoldTurns
  <1>15. \A k \in 1..n : step[<<r[k - 1], k>>] = AddNew(r[k - 1], names[k])
    BY <1>1, <1>7
  <1> QED
    BY <1>3, <1>14, <1>15 DEF TurnsOf, n, V, base

(* RemoveDuplicates keeps every name, and keeps it once.                   *)
LEMMA NoDuplicates ==
    ASSUME NEW names \in Seq(Names)
    PROVE  /\ ToSet(RemoveDuplicates(names)) = ToSet(names)
           /\ IsInjective(RemoveDuplicates(names))
  <1>1. PICK r \in [0..Len(names) -> Seq(Names)] :
              /\ r[0] = <<>>
              /\ \A k \in 1..Len(names) : r[k] = AddNew(r[k - 1], names[k])
              /\ RemoveDuplicates(names) = r[Len(names)]
    BY RemovalTurns
  <1> DEFINE n == Len(names)
             Kept == {k \in 0..n : /\ ToSet(r[k]) = {names[i] : i \in 1..k}
                                   /\ IsInjective(r[k])}
  <1>2. n \in Nat /\ names \in [1..n -> Names]
    OBVIOUS
  <1>3. 0 \in Kept
    BY <1>1 DEF ToSet, IsInjective
  <1>4. ASSUME NEW k \in 1..n, k - 1 \in Kept PROVE k \in Kept
    <2> DEFINE res == r[k - 1]
               name == names[k]
    <2>1. res \in Seq(Names) /\ name \in Names
      BY <1>1, <1>2
    <2>2. r[k] = AddNew(res, name)
      BY <1>1
    <2>3. {names[i] : i \in 1..k} = {names[i] : i \in 1..(k - 1)} \cup {name}
      BY <1>2
    <2>4. ToSet(res) = {names[i] : i \in 1..(k - 1)} /\ IsInjective(res)
      BY <1>4
    <2> HIDE DEF res, name
    <2>5. ToSet(r[k]) = ToSet(res) \cup {name}
      BY <2>1, <2>2, ToSetFacts DEF AddNew
    <2>6. IsInjective(r[k])
      <3>1. CASE Contains(res, name)
        BY <2>2, <2>4, <3>1 DEF AddNew
      <3>2. CASE ~ Contains(res, name)
        <4>1. r[k] = Append(res, name)
          BY <2>2, <3>2 DEF AddNew
        <4>2. \A i \in 1..Len(res) : res[i] # name
          BY <3>2 DEF Contains
        <4> QED
          BY <2>1, <2>4, <4>1, <4>2 DEF IsInjective
      <3> QED
        BY <3>1, <3>2
    <2> QED
      BY <2>3, <2>4, <2>5, <2>6
  <1> HIDE DEF Kept
  <1>5. n \in Kept
    <2> HIDE DEF n
    <2> QED
      BY <1>2, <1>3, <1>4, SetInductionTo
  <1>6. ToSet(names) = {names[i] : i \in 1..n}
    BY DEF ToSet
  <1> QED
    BY <1>1, <1>5, <1>6 DEF Kept

(* The loop over the command line selects, with the required collectors,   *)
(* the optional ones that a name or a group on it stands for.              *)
LEMMA SelectionIsAsNamed ==
    ASSUME SelectionNames, NEW selection \in Seq(Spelling)
    PROVE  /\ FoldLeft(AddSelected, RequiredCollectorNames, selection) \in Seq(Names)
           /\ ToSet(FoldLeft(AddSelected, RequiredCollectorNames, selection)) =
                Required \cup {name \in Optional :
                    \E i \in DOMAIN selection :
                        \/ selection[i].name \in Groups
                        \/ selection[i].name = name /\ selection[i].exact}
  <1>1. PICK r \in [0..Len(selection) -> Seq(Names)] :
              /\ r[0] = RequiredCollectorNames
              /\ \A k \in 1..Len(selection) : r[k] = AddSelected(r[k - 1], selection[k])
              /\ FoldLeft(AddSelected, RequiredCollectorNames, selection) = r[Len(selection)]
    BY SelectionTurns
  <1> DEFINE n == Len(selection)
             NamedBy(i) == {name \in Optional :
                                \/ selection[i].name \in Groups
                                \/ selection[i].name = name /\ selection[i].exact}
             Named(k) == UNION {NamedBy(i) : i \in 1..k}
             AsNamed == {k \in 0..n : ToSet(r[k]) = Required \cup Named(k)}
  <1>2. n \in Nat /\ selection \in [1..n -> Spelling]
    OBVIOUS
  <1>3. 0 \in AsNamed
    BY <1>1 DEF Required
  <1>4. ASSUME NEW k \in 1..n, k - 1 \in AsNamed PROVE k \in AsNamed
    <2> DEFINE names == r[k - 1]
               s == selection[k]
    <2>1. names \in Seq(Names) /\ s \in Spelling
      BY <1>1, <1>2
    <2>2. r[k] = AddSelected(names, s)
      BY <1>1
    <2>3. Named(k) = Named(k - 1) \cup NamedBy(k)
      <3>1. 1..k = 1..(k - 1) \cup {k}
        OBVIOUS
      <3> HIDE DEF NamedBy
      <3> QED
        BY <3>1
    <2>4. ToSet(names) = Required \cup Named(k - 1)
      BY <1>4
    <2>5. NamedBy(k) = {name \in Optional : \/ s.name \in Groups
                                            \/ s.name = name /\ s.exact}
      OBVIOUS
    <2> HIDE DEF names, s, Named, NamedBy
    <2>6. ToSet(r[k]) = ToSet(names) \cup NamedBy(k)
      <3>1. CASE s.name \in Groups
        <4>1. r[k] = names \o OptionalCollectorNames
          BY <2>2, <3>1, GroupsAreNoNames DEF AddSelected, Names
        <4>2. OptionalCollectorNames \in Seq(Names)
          BY DEF SelectionNames, Optional, Names
        <4> QED
          <5>1. ToSet(r[k]) = ToSet(names) \cup Optional
            BY <2>1, <4>1, <4>2, ToSetFacts DEF Optional
          <5>2. NamedBy(k) = Optional
            BY <2>5, <3>1
          <5> QED
            BY <5>1, <5>2
      <3>2. CASE s.name \notin Groups /\ s.exact /\ s.name \in Optional \ ToSet(names)
        <4>1. r[k] = Append(names, s.name)
          BY <2>2, <3>2 DEF AddSelected
        <4>2. s.name \in Names
          BY <3>2 DEF Names
        <4>3. ToSet(r[k]) = ToSet(names) \cup {s.name}
          BY <2>1, <4>1, <4>2, ToSetFacts
        <4>4. NamedBy(k) = {s.name}
          BY <2>5, <3>2
        <4> QED
          BY <4>3, <4>4
      <3>3. CASE s.name \notin Groups /\ ~ (s.exact /\ s.name \in Optional \ ToSet(names))
        <4>1. r[k] = names
          BY <2>2, <3>3 DEF AddSelected
        <4>2. NamedBy(k) \subseteq ToSet(names)
          BY <2>5, <3>3
        <4> QED
          BY <4>1, <4>2
      <3> QED
        BY <3>1, <3>2, <3>3
    <2> QED
      BY <2>3, <2>4, <2>6
  <1> HIDE DEF AsNamed
  <1>5. n \in AsNamed
    <2> HIDE DEF n
    <2> QED
      BY <1>2, <1>3, <1>4, SetInductionTo
  <1>6. Named(n) = {name \in Optional :
                    \E i \in DOMAIN selection :
                        \/ selection[i].name \in Groups
                        \/ selection[i].name = name /\ selection[i].exact}
    BY <1>2
  <1>7. r[n] \in Seq(Names)
    BY <1>2
  <1> HIDE DEF Named
  <1> QED
    BY <1>1, <1>5, <1>6, <1>7 DEF AsNamed

(* GetCollectorsToRun: what is to run is what was selected, each collector *)
(* once, for every registry and list of names.                             *)
THEOREM SelectionIsHonoured == SelectionNames => (Spec => []SelectionHonoured)
  <1> DEFINE Typed == SelectionNames /\ selected \in Seq(Spelling)
  <1>1. SelectionNames /\ Init => Typed
    BY DEF Init
  <1>2. Typed /\ [Next]_selected => Typed'
    <2>1. SelectionNames => SelectionNames'
      BY DEF SelectionNames
    <2> QED
      BY <2>1 DEF Next, Select
  <1>3. Typed => SelectionHonoured
    <2> HAVE Typed
    <2> DEFINE names == FoldLeft(AddSelected, RequiredCollectorNames, selected)
    <2>1. names \in Seq(Names)
      BY SelectionIsAsNamed
    <2>2. ToSet(names) = Required \cup {name \in Optional : NamedExactly(name)}
      BY SelectionIsAsNamed DEF NamedExactly
    <2>3. GetCollectorsToRun(selected) = RemoveDuplicates(names)
      BY DEF GetCollectorsToRun
    <2>4. \A name : NamedExactly(name) => NamedInAnyCase(name)
      BY DEF NamedExactly, NamedInAnyCase
    <2> HIDE DEF names
    <2>5. /\ ToSet(RemoveDuplicates(names)) = ToSet(names)
          /\ IsInjective(RemoveDuplicates(names))
      BY <2>1, NoDuplicates
    <2> QED
      BY <2>2, <2>3, <2>4, <2>5 DEF SelectionHonoured
  <1> QED
    BY <1>1, <1>2, <1>3, PTL DEF Spec
===============================================================================
