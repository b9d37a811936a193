--------------------------- MODULE LogFollowerProofs ---------------------------
(***************************************************************************)
(* That the log collector writes the log: its file is a prefix of the log  *)
(* at all times and holds every line gone past when CleanUp() is over, for *)
(* any numbers of polls, lines and generations and any channel sizes, as   *)
(* long as no stream broke off before the moment it was opened at and no   *)
(* slice came out of turn (regular).                                       *)
(*                                                                         *)
(* Lines are numbers, so what a poll reads is a window of them.  The proof *)
(* goes from windows (what DedupAB makes of two), to chains of them (what  *)
(* DedupLineSlices makes of a list), to generations (what flush() makes of *)
(* the store), to the invariant on what the polls and the store hold.      *)
(*                                                                         *)
(* And that merging keeps what was read, beyond what these steps need      *)
(* (LogWindows): any windows without gaps that end in the order they       *)
(* begin, and two of which one has gaps.                                   *)
(***************************************************************************)
EXTENDS LogFollower, LogWindows, FiniteSetTheorems, FunctionTheorems, WellFoundedInduction, TLAPS

(* Windows of a log without gaps: the lines after a up to b.               *)
Window(a, b) == [i \in 1..b - a |-> a + i]

\* The element at i of a window is the line a + i.
LEMMA WindowIs ==
    ASSUME NEW a \in Nat, NEW b \in Nat, a <= b
    PROVE  /\ Window(a, b) \in Seq(Nat) /\ Len(Window(a, b)) = b - a
           /\ DOMAIN Window(a, b) = 1..b - a
           /\ \A i \in 1..b - a : Window(a, b)[i] = a + i
  <1>1. b - a \in Nat /\ \A i \in 1..b - a : a + i \in Nat
    OBVIOUS
  <1>2. Window(a, b) \in [1..b - a -> Nat]
    BY <1>1 DEF Window
  <1> QED
    BY <1>1, <1>2 DEF Window

\* Two lists of the same length with the same elements.
LEMMA SameLists ==
    ASSUME NEW V, NEW s \in Seq(V), NEW t \in Seq(V), Len(s) = Len(t),
           \A i \in 1..Len(s) : s[i] = t[i]
    PROVE  s = t
  OBVIOUS

\* No line lies after a up to a.
LEMMA WindowEmpty == ASSUME NEW a \in Nat PROVE Window(a, a) = << >>
  <1>1. Window(a, a) \in Seq(Nat) /\ Len(Window(a, a)) = 0
    BY WindowIs
  <1> QED
    BY <1>1

\* Two windows that touch join to one.
LEMMA WindowsJoin ==
    ASSUME NEW a \in Nat, NEW b \in Nat, NEW c \in Nat, a <= b, b <= c
    PROVE  Window(a, b) \o Window(b, c) = Window(a, c)
  <1> DEFINE s == Window(a, b)
             t == Window(b, c)
             u == Window(a, c)
  <1>1. s \in Seq(Nat) /\ Len(s) = b - a /\ \A i \in 1..b - a : s[i] = a + i
    BY WindowIs
  <1>2. t \in Seq(Nat) /\ Len(t) = c - b /\ \A i \in 1..c - b : t[i] = b + i
    BY WindowIs
  <1>3. u \in Seq(Nat) /\ Len(u) = c - a /\ \A i \in 1..c - a : u[i] = a + i
    BY WindowIs
  <1> HIDE DEF s, t, u
  <1>4. s \o t \in Seq(Nat) /\ Len(s \o t) = c - a
    BY <1>1, <1>2
  <1>5. ASSUME NEW i \in 1..c - a PROVE (s \o t)[i] = u[i]
    <2>1. CASE i <= b - a
      <3>1. (s \o t)[i] = s[i]
        BY <1>1, <1>2, <2>1
      <3> QED
        BY <1>1, <1>3, <2>1, <3>1
    <2>2. CASE i > b - a
      <3>1. (s \o t)[i] = t[i - (b - a)]
        BY <1>1, <1>2, <2>2
      <3>2. i - (b - a) \in 1..c - b
        BY <2>2
      <3>3. t[i - (b - a)] = b + (i - (b - a))
        BY <1>2, <3>2
      <3> QED
        BY <1>3, <3>1, <3>3
    <2>3. i <= b - a \/ i > b - a
      OBVIOUS
    <2> QED
      BY <2>1, <2>2, <2>3
  <1> QED
    BY <1>3, <1>4, <1>5, SameLists DEF s, t, u

\* Cutting a window at a line leaves the windows before and after it.
LEMMA WindowSplits ==
    ASSUME NEW a \in Nat, NEW b \in Nat, NEW c \in Nat, a <= c, c <= b
    PROVE  /\ Before(Window(a, b), c - a + 1) = Window(a, c)
           /\ From(Window(a, b), c - a + 1) = Window(c, b)
  <1> DEFINE s == Window(a, b)
             t == Window(a, c)
             u == Window(c, b)
  <1>1. s \in Seq(Nat) /\ Len(s) = b - a /\ \A i \in 1..b - a : s[i] = a + i
    BY WindowIs
  <1>2. t \in Seq(Nat) /\ Len(t) = c - a /\ \A i \in 1..c - a : t[i] = a + i
    BY WindowIs
  <1>3. u \in Seq(Nat) /\ Len(u) = b - c /\ \A i \in 1..b - c : u[i] = c + i
    BY WindowIs
  <1> HIDE DEF s, t, u
  <1>4. SubSeq(s, 1, c - a) = t
    <2>1. SubSeq(s, 1, c - a) \in Seq(Nat) /\ Len(SubSeq(s, 1, c - a)) = c - a
      BY <1>1
    <2>2. \A i \in 1..c - a : SubSeq(s, 1, c - a)[i] = s[i]
      BY <1>1
    <2>3. \A i \in 1..c - a : SubSeq(s, 1, c - a)[i] = t[i]
      BY <1>1, <1>2, <2>2
    <2> QED
      BY <1>2, <2>1, <2>3, SameLists
  <1>5. SubSeq(s, c - a + 1, b - a) = u
    <2>1. SubSeq(s, c - a + 1, b - a) \in Seq(Nat) /\ Len(SubSeq(s, c - a + 1, b - a)) = b - c
      BY <1>1
    <2>2. \A i \in 1..b - c : SubSeq(s, c - a + 1, b - a)[i] = s[c - a + i]
      BY <1>1
    <2>3. \A i \in 1..b - c : SubSeq(s, c - a + 1, b - a)[i] = u[i]
      BY <1>1, <1>3, <2>2
    <2> QED
      BY <1>3, <2>1, <2>3, SameLists
  <1>6. c - a + 1 - 1 = c - a
    OBVIOUS
  <1> QED
    BY <1>1, <1>4, <1>5, <1>6 DEF s, t, u, Before, From

-----------------------------------------------------------------------------
(* Merging windows without gaps.                                           *)

\* A line of a window is found at its distance from the start, another is not.
LEMMA FoundAt ==
    ASSUME NEW a \in Nat, NEW b \in Nat, NEW l \in Nat, a <= b
    PROVE  /\ l \in a + 1..b => FindLineIndex(l, Window(a, b)) = l - a
           /\ l \notin a + 1..b => FindLineIndex(l, Window(a, b)) = 0
  <1> DEFINE I == {i \in 1..Len(Window(a, b)) : Window(a, b)[i] = l}
  <1>1. FindLineIndex(l, Window(a, b)) = IF I # {} THEN Min(I) ELSE 0
    BY DEF FindLineIndex, SelectInSeq
  <1>2. I = {i \in 1..b - a : a + i = l}
    BY WindowIs
  <1> HIDE DEF I
  <1>3. ASSUME l \in a + 1..b
        PROVE  FindLineIndex(l, Window(a, b)) = l - a
    <2>1. I = {l - a}
      BY <1>2, <1>3
    <2>2. Min(I) = l - a
      BY <2>1 DEF Min
    <2> QED
      BY <1>1, <2>1, <2>2
  <1>4. ASSUME l \notin a + 1..b
        PROVE  FindLineIndex(l, Window(a, b)) = 0
    <2>1. I = {}
      BY <1>2, <1>4
    <2> QED
      BY <1>1, <2>1
  <1> QED
    BY <1>3, <1>4

\* Windows with the same start agree as far as both go.
LEMMA NoIssue ==
    ASSUME NEW a \in Nat, NEW b \in Nat, NEW c \in Nat, a <= b, a <= c
    PROVE  FindFirstIssueIndex(Window(a, b), Window(a, c)) = 0
  <1>1. \A i \in DOMAIN Window(a, b) \cap DOMAIN Window(a, c) :
           Window(a, b)[i] = Window(a, c)[i]
    <2>1. DOMAIN Window(a, b) = 1..b - a /\ \A i \in 1..b - a : Window(a, b)[i] = a + i
      BY WindowIs
    <2>2. DOMAIN Window(a, c) = 1..c - a /\ \A i \in 1..c - a : Window(a, c)[i] = a + i
      BY WindowIs
    <2> QED
      BY <2>1, <2>2
  <1> QED
    BY <1>1 DEF FindFirstIssueIndex

(* Of two windows that overlap or touch, the earlier one is cut where the  *)
(* later one begins.                                                       *)
LEMMA WindowsMerge ==
    ASSUME NEW a \in Nat, NEW b \in Nat, NEW c \in Nat, NEW d \in Nat,
           a <= c, c <= b, a < b, c < d
    PROVE  DedupAB(Window(a, b), Window(c, d)) = Merged(Window(a, c), Window(c, d))
  <1> DEFINE x == Window(a, b)
             y == Window(c, d)
             first == FindLineIndex(y[1], x)
  <1>1. /\ y \in Seq(Nat) /\ Len(y) = d - c /\ y # << >> /\ y[1] = c + 1
        /\ x \in Seq(Nat) /\ Len(x) = b - a /\ x # << >> /\ x[Len(x)] = b
    <2>1. y \in Seq(Nat) /\ Len(y) = d - c /\ \A i \in 1..d - c : y[i] = c + i
      BY WindowIs
    <2>2. x \in Seq(Nat) /\ Len(x) = b - a /\ \A i \in 1..b - a : x[i] = a + i
      BY WindowIs
    <2> HIDE DEF x, y
    <2>3. 1 \in 1..d - c /\ b - a \in 1..b - a /\ Len(y) # 0 /\ Len(x) # 0
      BY <2>1, <2>2
    <2> QED
      BY <2>1, <2>2, <2>3
  <1>2. CASE c < b
    <2>1. first = c - a + 1
      <3>1. FindLineIndex(c + 1, x) = c + 1 - a
        BY <1>2, FoundAt
      <3> QED
        BY <1>1, <3>1
    <2>2. Before(x, first) = Window(a, c) /\ From(x, first) = Window(c, b)
      BY <2>1, WindowSplits
    <2>3. FindFirstIssueIndex(From(x, first), y) = 0
      BY <1>2, <2>2, NoIssue
    <2>4. first # 0
      BY <2>1
    <2> HIDE DEF x, y, first
    <2>5. Dedup(x, y, DedupAgain) = Merged(Before(x, first), y)
      BY <1>1, <2>3, <2>4 DEF Dedup, first
    <2> QED
      BY <2>2, <2>5 DEF DedupAB, x, y
  <1>3. CASE c = b
    <2>1. first = 0
      <3>1. FindLineIndex(c + 1, x) = 0
        BY <1>3, FoundAt
      <3> QED
        BY <1>1, <3>1
    <2>2. FindLineIndex(Last(x), y) = 0
      <3>1. Last(x) = b
        BY <1>1 DEF Last
      <3>2. b \notin c + 1..d
        BY <1>3
      <3> QED
        BY <3>1, <3>2, FoundAt
    <2> HIDE DEF x, y, first
    <2>3. Dedup(x, y, DedupAgain) = Merged(x, y)
      BY <1>1, <2>1, <2>2 DEF Dedup, first
    <2> QED
      BY <1>3, <2>3 DEF DedupAB, x, y
  <1> QED
    BY <1>2, <1>3

-----------------------------------------------------------------------------
(* Sorting by rank.                                                        *)

\* The elements of S that come before x, and how many.
Smaller(S, R, x) == {y \in S : <<y, x>> \in R}
Rank(S, R, x) == Cardinality(Smaller(S, R, x))

\* R orders S, strictly and totally.
StrictOrder(S, R) ==
    /\ \A x \in S : <<x, x>> \notin R
    /\ \A x, y \in S : x # y => <<x, y>> \in R \/ <<y, x>> \in R
    /\ \A x, y, z \in S : <<x, y>> \in R /\ <<y, z>> \in R => <<x, z>> \in R

\* An earlier element has a smaller rank.
LEMMA RankGrows ==
    ASSUME NEW S, IsFiniteSet(S), NEW R, StrictOrder(S, R),
           NEW x \in S, NEW y \in S, <<x, y>> \in R
    PROVE  Rank(S, R, x) < Rank(S, R, y)
  <1> DEFINE A == Smaller(S, R, x)
             B == Smaller(S, R, y)
  <1>1. A \subseteq B
    BY DEF StrictOrder, Smaller
  <1>2. x \in B /\ x \notin A
    BY DEF StrictOrder, Smaller
  <1>3. B \in SUBSET S
    BY DEF Smaller
  <1> HIDE DEF A, B
  <1>4. IsFiniteSet(B)
    BY <1>3, FS_Subset
  <1>5. IsFiniteSet(A) /\ Cardinality(A) <= Cardinality(B) /\ Cardinality(A) # Cardinality(B)
    BY <1>1, <1>2, <1>4, FS_Subset
  <1>6. Cardinality(A) \in Nat /\ Cardinality(B) \in Nat
    BY <1>4, <1>5, FS_CardinalityType
  <1>7. Cardinality(A) < Cardinality(B)
    BY <1>5, <1>6
  <1> QED
    BY <1>7 DEF Rank, A, B

\* Every place up to n is the rank of exactly one element.
Ranked(S, R, n) ==
    /\ \A x \in S : Rank(S, R, x) \in Nat /\ Rank(S, R, x) + 1 \in 1..n
    /\ \A x, y \in S : Rank(S, R, x) = Rank(S, R, y) => x = y
    /\ \A x, y \in S : Rank(S, R, x) < Rank(S, R, y) => <<x, y>> \in R
    /\ \A k \in 1..n : \E x \in S : Rank(S, R, x) = k - 1

\* The ranks of a finite set number its elements in order.
LEMMA RanksAre ==
    ASSUME NEW S, IsFiniteSet(S), NEW R, StrictOrder(S, R)
    PROVE  Ranked(S, R, Cardinality(S))
  <1> DEFINE n == Cardinality(S)
             f == [x \in S |-> Rank(S, R, x) + 1]
  <1>1. n \in Nat
    BY FS_CardinalityType
  <1>2. \A x \in S : Rank(S, R, x) \in Nat
    <2> TAKE x \in S
    <2>1. Smaller(S, R, x) \in SUBSET S
      BY DEF Smaller
    <2> QED
      BY <2>1, FS_Subset, FS_CardinalityType DEF Rank
  <1>3. \A x \in S : Rank(S, R, x) < n
    <2> TAKE x \in S
    <2>1. Smaller(S, R, x) \in SUBSET S /\ Smaller(S, R, x) # S
      BY DEF Smaller, StrictOrder
    <2>2. Cardinality(Smaller(S, R, x)) <= n /\ Cardinality(Smaller(S, R, x)) # n
      BY <2>1, FS_Subset
    <2> HIDE DEF n
    <2> QED
      BY <1>1, <1>2, <2>2 DEF Rank
  <1>4. \A x, y \in S : x # y => \/ (Rank(S, R, x) < Rank(S, R, y) /\ <<x, y>> \in R)
                                 \/ (Rank(S, R, y) < Rank(S, R, x) /\ <<y, x>> \in R)
    <2>1. \A x, y \in S : <<x, y>> \in R => Rank(S, R, x) < Rank(S, R, y)
      BY RankGrows
    <2>2. \A x, y \in S : x # y => <<x, y>> \in R \/ <<y, x>> \in R
      BY DEF StrictOrder
    <2> QED
      BY <2>1, <2>2
  <1>5. ASSUME NEW x \in S, NEW y \in S, Rank(S, R, x) = Rank(S, R, y) PROVE x = y
    <2> DEFINE rx == Rank(S, R, x)
               ry == Rank(S, R, y)
    <2>1. rx \in Nat /\ ry \in Nat /\ rx = ry
      BY <1>2, <1>5
    <2>2. x # y => rx < ry \/ ry < rx
      BY <1>4
    <2> HIDE DEF rx, ry
    <2> QED
      BY <2>1, <2>2
  <1>6. ASSUME NEW x \in S, NEW y \in S, Rank(S, R, x) < Rank(S, R, y)
        PROVE  <<x, y>> \in R
    <2> DEFINE rx == Rank(S, R, x)
               ry == Rank(S, R, y)
    <2>1. rx \in Nat /\ ry \in Nat /\ rx < ry
      BY <1>2, <1>6
    <2>2. x # y
      BY <2>1
    <2>3. (rx < ry /\ <<x, y>> \in R) \/ (ry < rx /\ <<y, x>> \in R)
      BY <1>4, <2>2
    <2> HIDE DEF rx, ry
    <2> QED
      BY <2>1, <2>3
  <1>7. \A k \in 1..n : \E x \in S : Rank(S, R, x) = k - 1
    <2>1. f \in [S -> 1..n]
      <3> HIDE DEF n
      <3> QED
        BY <1>1, <1>2, <1>3
    <2>2. \A x, y \in S : f[x] = f[y] => x = y
      BY <1>2, <1>5
    <2>3. f \in Injection(S, 1..n)
      <3> HIDE DEF f, n
      <3> QED
        BY <2>1, <2>2, Fun_IsInj
    <2>4. IsFiniteSet(1..n) /\ Cardinality(1..n) = n
      <3> HIDE DEF n
      <3>1. 1 \in Int /\ n \in Int
        BY <1>1
      <3>2. IsFiniteSet(1..n) /\ Cardinality(1..n) = IF 1 > n THEN 0 ELSE n - 1 + 1
        BY <3>1, FS_Interval
      <3> QED
        BY <1>1, <3>2
    <2>5. f \in Surjection(S, 1..n)
      <3> HIDE DEF f
      <3> QED
        BY <2>3, <2>4, FS_Injection
    <2>6. \A k \in 1..n : \E x \in S : f[x] = k
      <3> HIDE DEF f, n
      <3> QED
        BY <2>5, Fun_SurjectionProperties
    <2> TAKE k \in 1..n
    <2>7. PICK x \in S : f[x] = k
      BY <2>6
    <2>8. Rank(S, R, x) + 1 = k
      BY <2>7
    <2>9. Rank(S, R, x) \in Nat
      BY <1>2
    <2> QED
      BY <2>8, <2>9
  <1>8. \A x \in S : Rank(S, R, x) \in Nat /\ Rank(S, R, x) + 1 \in 1..n
    <2> HIDE DEF n
    <2> QED
      BY <1>1, <1>2, <1>3
  <1> HIDE DEF n
  <1>9. Ranked(S, R, n)
    BY <1>5, <1>6, <1>7, <1>8 DEF Ranked
  <1> QED
    BY <1>9 DEF n

-----------------------------------------------------------------------------
(* Slices of windows without gaps.                                         *)

\* Slices whose lines are a window that is not empty.
WindowSlices ==
    {s \in [lines : Seq(Nat), gen : Nat] :
        \E a, b \in Nat : a < b /\ s.lines = Window(a, b)}
\* The line before the first of a slice, and its last.
Since(s) == s.lines[1] - 1
End(s) == s.lines[Len(s.lines)]

\* A slice of a window is known by its two ends and its generation.
LEMMA SliceIs ==
    ASSUME NEW s \in WindowSlices
    PROVE  /\ Since(s) \in Nat /\ End(s) \in Nat /\ s.gen \in Nat /\ Since(s) < End(s)
           /\ s.lines = Window(Since(s), End(s)) /\ s.lines # << >>
           /\ s.lines[1] = Since(s) + 1 /\ Last(s.lines) = End(s)
           /\ s = Slice(Window(Since(s), End(s)), s.gen)
  <1>1. PICK a \in Nat, b \in Nat : a < b /\ s.lines = Window(a, b)
    BY DEF WindowSlices
  <1>2. Len(s.lines) = b - a /\ \A i \in 1..b - a : s.lines[i] = a + i
    <2>1. Len(Window(a, b)) = b - a /\ \A i \in 1..b - a : Window(a, b)[i] = a + i
      BY <1>1, WindowIs
    <2> QED
      BY <1>1, <2>1
  <1>3. 1 \in 1..b - a /\ b - a \in 1..b - a
    BY <1>1
  <1>4. s.lines[1] = a + 1 /\ s.lines[Len(s.lines)] = b
    BY <1>2, <1>3
  <1>5. Since(s) = a /\ End(s) = b
    BY <1>4 DEF Since, End
  <1>6. s.lines # << >>
    <2>1. s.lines \in Seq(Nat) /\ Len(s.lines) # 0
      BY <1>1, <1>2 DEF WindowSlices
    <2> QED
      BY <2>1
  <1>7. s = [lines |-> s.lines, gen |-> s.gen] /\ s.gen \in Nat
    BY DEF WindowSlices
  <1>8. s = Slice(Window(a, b), s.gen)
    BY <1>1, <1>7 DEF Slice
  <1>9. Last(s.lines) = b
    BY <1>4 DEF Last
  <1> QED
    BY <1>1, <1>4, <1>5, <1>6, <1>7, <1>8, <1>9

\* The ends of a slice made from a window are those of the window.
LEMMA SliceOf ==
    ASSUME NEW a \in Nat, NEW b \in Nat, a < b, NEW g \in Nat
    PROVE  /\ Slice(Window(a, b), g) \in WindowSlices
           /\ Slice(Window(a, b), g).gen = g
           /\ Since(Slice(Window(a, b), g)) = a /\ End(Slice(Window(a, b), g)) = b
  <1> DEFINE s == Slice(Window(a, b), g)
  <1>1. /\ Window(a, b) \in Seq(Nat) /\ Len(Window(a, b)) = b - a
        /\ \A i \in 1..b - a : Window(a, b)[i] = a + i
    BY WindowIs
  <1>2. s.lines = Window(a, b) /\ s.gen = g /\ s \in [lines : Seq(Nat), gen : Nat]
    BY <1>1 DEF Slice
  <1> HIDE DEF s
  <1>3. s \in WindowSlices
    BY <1>2 DEF WindowSlices
  <1>4. 1 \in 1..b - a /\ b - a \in 1..b - a
    OBVIOUS
  <1>5. s.lines[1] = a + 1 /\ s.lines[Len(s.lines)] = b
    BY <1>1, <1>2, <1>4
  <1>6. Since(s) = a /\ End(s) = b
    BY <1>5 DEF Since, End
  <1> QED
    BY <1>2, <1>3, <1>6 DEF s

\* Slices in the order that they are merged in.
SlicesInOrder(list) ==
    \A i, j \in DOMAIN list : i < j =>
        \/ Since(list[i]) < Since(list[j])
        \/ Since(list[i]) = Since(list[j]) /\ End(list[i]) <= End(list[j])

\* Sorting puts the elements in order by moving them about.
Rearranges(p, n, list, sorted) ==
    /\ \A i \in 1..n : \E k \in 1..n : p[k] = i
    /\ sorted = [k \in 1..n |-> list[p[k]]]
    /\ SlicesInOrder(sorted)

\* Sorted puts every slice of the list at one place, in order.
LEMMA SortedIs ==
    ASSUME NEW n \in Nat, NEW list \in [1..n -> WindowSlices]
    PROVE  \E p \in [1..n -> 1..n] : Rearranges(p, n, list, Sorted(list))
  <1> DEFINE S == 1..n
             R == {ss \in S \X S : Precedes(list, ss[1], ss[2])}
             p == [k \in S |-> CHOOSE i \in S : Rank(S, R, i) = k - 1]
  <1>1. \A i \in S : list[i] \in WindowSlices
    OBVIOUS
  <1>2. \A i \in S : Since(list[i]) \in Nat /\ End(list[i]) \in Nat
    BY <1>1, SliceIs
  <1>3. \A i, j \in S : StartsEarlier(list[i], list[j]) <=>
                           \/ Since(list[i]) < Since(list[j])
                           \/ /\ Since(list[i]) = Since(list[j])
                              /\ End(list[i]) < End(list[j])
    <2> TAKE i, j \in S
    <2>1. /\ list[i].lines[1] = Since(list[i]) + 1 /\ list[j].lines[1] = Since(list[j]) + 1
          /\ Last(list[i].lines) = End(list[i]) /\ Last(list[j].lines) = End(list[j])
      BY <1>1, SliceIs
    <2>2. /\ Since(list[i]) \in Nat /\ End(list[i]) \in Nat
          /\ Since(list[j]) \in Nat /\ End(list[j]) \in Nat
      BY <1>2
    <2> QED
      BY <2>1, <2>2 DEF StartsEarlier
  <1>4. \A i, j \in S : <<i, j>> \in R <=>
                           \/ Since(list[i]) < Since(list[j])
                           \/ /\ Since(list[i]) = Since(list[j])
                              /\ \/ End(list[i]) < End(list[j])
                                 \/ End(list[i]) = End(list[j]) /\ i < j
    <2> TAKE i, j \in S
    <2>1. <<i, j>> \in R <=> Precedes(list, i, j)
      OBVIOUS
    <2> HIDE DEF R
    <2>2. /\ Since(list[i]) \in Nat /\ End(list[i]) \in Nat
          /\ Since(list[j]) \in Nat /\ End(list[j]) \in Nat
      BY <1>2
    <2>3. Precedes(list, i, j) <=>
             StartsEarlier(list[i], list[j]) \/ (~StartsEarlier(list[j], list[i]) /\ i < j)
      BY DEF Precedes
    <2> QED
      BY <1>3, <2>1, <2>2, <2>3
  <1> HIDE DEF R
  <1>5. StrictOrder(S, R)
    <2>1. \A i \in S : <<i, i>> \notin R
      BY <1>2, <1>4
    <2>2. \A i, j \in S : i # j => <<i, j>> \in R \/ <<j, i>> \in R
      <3> TAKE i, j \in S
      <3>1. /\ Since(list[i]) \in Nat /\ End(list[i]) \in Nat
            /\ Since(list[j]) \in Nat /\ End(list[j]) \in Nat
        BY <1>2
      <3> QED
        BY <1>4, <3>1
    <2>3. \A i, j, k \in S : <<i, j>> \in R /\ <<j, k>> \in R => <<i, k>> \in R
      <3> TAKE i, j, k \in S
      <3>1. /\ Since(list[i]) \in Nat /\ End(list[i]) \in Nat
            /\ Since(list[j]) \in Nat /\ End(list[j]) \in Nat
            /\ Since(list[k]) \in Nat /\ End(list[k]) \in Nat
        BY <1>2
      <3> QED
        BY <1>4, <3>1
    <2> HIDE DEF S
    <2> QED
      BY <2>1, <2>2, <2>3 DEF StrictOrder
  <1>6. IsFiniteSet(S) /\ Cardinality(S) = n
    <2>1. 1 \in Int /\ n \in Int
      OBVIOUS
    <2>2. IsFiniteSet(1..n) /\ Cardinality(1..n) = IF 1 > n THEN 0 ELSE n - 1 + 1
      BY <2>1, FS_Interval
    <2> QED
      BY <2>2
  <1>7. /\ \A x \in S : Rank(S, R, x) \in Nat /\ Rank(S, R, x) + 1 \in 1..n
        /\ \A x, y \in S : Rank(S, R, x) = Rank(S, R, y) => x = y
        /\ \A x, y \in S : Rank(S, R, x) < Rank(S, R, y) => <<x, y>> \in R
        /\ \A k \in 1..n : \E x \in S : Rank(S, R, x) = k - 1
    <2> HIDE DEF S
    <2>1. Ranked(S, R, n)
      BY <1>5, <1>6, RanksAre
    <2> QED
      BY <2>1 DEF Ranked
  <1>8. \A k \in S : p[k] \in S /\ Rank(S, R, p[k]) = k - 1
    <2> TAKE k \in S
    <2>1. \E x \in S : Rank(S, R, x) = k - 1
      BY <1>7
    <2> QED
      BY <2>1
  <1>9. Sorted(list) = [k \in S |-> list[p[k]]]
    <2>1. \A i \in S : Cardinality({j \in S : Precedes(list, j, i)}) = Rank(S, R, i)
      <3> TAKE i \in S
      <3>1. {j \in S : Precedes(list, j, i)} = {j \in S : <<j, i>> \in R}
        BY DEF R
      <3> QED
        BY <3>1 DEF Rank, Smaller
    <2>2. \A k \in S : (CHOOSE i \in S : Cardinality({j \in S : Precedes(list, j, i)}) = k - 1)
                          = p[k]
      <3> HIDE DEF R
      <3> QED
        BY <2>1
    <2>3. Sorted(list) =
            [k \in S |-> list[CHOOSE i \in S :
                                  Cardinality({j \in S : Precedes(list, j, i)}) = k - 1]]
      BY DEF Sorted
    <2> HIDE DEF p
    <2> QED
      BY <2>2, <2>3
  <1>10. p \in [S -> S]
    <2> HIDE DEF S, R
    <2>1. \A k \in S : (CHOOSE i \in S : Rank(S, R, i) = k - 1) \in S
      BY <1>8
    <2> QED
      BY <2>1
  <1> HIDE DEF p
  <1>12. \A i \in S : \E k \in S : p[k] = i
    <2> TAKE i \in S
    <2> DEFINE r == Rank(S, R, i)
    <2>1. r \in Nat /\ r + 1 \in S
      BY <1>7
    <2>2. r + 1 - 1 = r
      <3> HIDE DEF r
      <3> QED
        BY <2>1
    <2>3. Rank(S, R, p[r + 1]) = r /\ p[r + 1] \in S
      <3> HIDE DEF r
      <3> QED
        BY <1>8, <2>1, <2>2
    <2>4. p[r + 1] = i
      BY <1>7, <2>3
    <2> QED
      BY <2>1, <2>4
  <1>13. SlicesInOrder(Sorted(list))
    <2> SUFFICES ASSUME NEW i \in S, NEW j \in S, i < j
                 PROVE  \/ Since(list[p[i]]) < Since(list[p[j]])
                        \/ /\ Since(list[p[i]]) = Since(list[p[j]])
                           /\ End(list[p[i]]) <= End(list[p[j]])
      BY <1>9 DEF SlicesInOrder
    <2>1. Rank(S, R, p[i]) = i - 1 /\ Rank(S, R, p[j]) = j - 1 /\ p[i] \in S /\ p[j] \in S
      BY <1>8
    <2>2. Rank(S, R, p[i]) < Rank(S, R, p[j])
      BY <2>1
    <2>3. <<p[i], p[j]>> \in R
      BY <1>7, <2>1, <2>2
    <2>4. End(list[p[i]]) \in Nat /\ End(list[p[j]]) \in Nat
      BY <1>2, <2>1
    <2> QED
      BY <1>4, <2>1, <2>3, <2>4
  <1>14. Rearranges(p, n, list, Sorted(list))
    BY <1>9, <1>12, <1>13 DEF Rearranges
  <1> QED
    BY <1>10, <1>14

-----------------------------------------------------------------------------
\* Induction up to n, over a set.
LEMMA InductionTo ==
    ASSUME NEW n \in Nat, NEW S, 0 \in S, \A k \in 1..n : k - 1 \in S => k \in S
    PROVE  0..n \subseteq S
  <1> DEFINE Less == {ss \in Nat \X Nat : ss[1] < ss[2]}
             Bad == (0..n) \ S
  <1> SUFFICES ASSUME Bad # {} PROVE FALSE
    OBVIOUS
  <1>1. IsWellFoundedOn(Less, Nat)
    BY NatLessThanWellFounded DEF OpToRel
  <1>2. Bad \subseteq Nat
    OBVIOUS
  <1>3. PICK k \in Bad : \A j \in Bad : ~ (<<j, k>> \in Less)
    <2> HIDE DEF Less, Bad
    <2> QED
      BY <1>1, <1>2, WFMin
  <1>4. \A j \in Bad : ~ (j < k)
    <2> HIDE DEF Bad
    <2> QED
      BY <1>2, <1>3
  <1>5. k \in 1..n /\ k - 1 \in 0..n /\ k - 1 < k
    OBVIOUS
  <1> QED
    BY <1>4, <1>5

\* Slices in order, none of which begins after the end of the one before it.
Chain(q, n) ==
    /\ SlicesInOrder(q)
    /\ \A i \in 1..n - 1 : Since(q[i + 1]) <= End(q[i])

\* What merging the slices from the i-th on comes to.
ChainFrom(q, n, i) ==
    [result |-> Window(Since(q[i]), Since(q[n])), last |-> q[n].lines,
     reference |-> Window(Since(q[i]), End(q[n])), panics |-> FALSE]

\* The bounds of two neighbours in a chain.
LEMMA ChainSlices ==
    ASSUME NEW n \in Nat \ {0}, NEW q \in [1..n -> WindowSlices], Chain(q, n), NEW i \in 1..n - 1
    PROVE  /\ q[i] \in WindowSlices /\ q[i + 1] \in WindowSlices /\ q[n] \in WindowSlices
           /\ Since(q[i]) \in Nat /\ End(q[i]) \in Nat /\ Since(q[i + 1]) \in Nat
           /\ Since(q[n]) \in Nat /\ End(q[n]) \in Nat
           /\ Since(q[i]) <= Since(q[i + 1]) /\ Since(q[i + 1]) <= End(q[i])
           /\ Since(q[i]) < End(q[i]) /\ Since(q[i + 1]) <= Since(q[n])
           /\ Since(q[n]) < End(q[n])
  <1>1. i \in 1..n /\ i + 1 \in 1..n /\ n \in 1..n /\ i < i + 1
    OBVIOUS
  <1>2. q[i] \in WindowSlices /\ q[i + 1] \in WindowSlices /\ q[n] \in WindowSlices
    BY <1>1
  <1>3. /\ Since(q[i]) \in Nat /\ End(q[i]) \in Nat /\ Since(q[i]) < End(q[i])
        /\ Since(q[i + 1]) \in Nat
        /\ Since(q[n]) \in Nat /\ End(q[n]) \in Nat /\ Since(q[n]) < End(q[n])
    BY <1>2, SliceIs
  <1>4. \A j, k \in 1..n : j < k =>
           \/ Since(q[j]) < Since(q[k])
           \/ Since(q[j]) = Since(q[k]) /\ End(q[j]) <= End(q[k])
    BY DEF Chain, SlicesInOrder
  <1>5. Since(q[i]) <= Since(q[i + 1])
    BY <1>1, <1>3, <1>4
  <1>6. Since(q[i + 1]) <= Since(q[n])
    <2>1. CASE i + 1 = n
      BY <1>3, <2>1
    <2>2. CASE i + 1 # n
      <3>1. i + 1 < n
        BY <2>2
      <3> QED
        BY <1>1, <1>3, <1>4, <3>1
    <2> QED
      BY <2>1, <2>2
  <1> QED
    BY <1>2, <1>3, <1>5, <1>6 DEF Chain

\* One step of MergeSorted, with what the later slices came to.
MergeStep(q, n, i, next) ==
    IF i = n - 1 THEN LastTwo(DedupAB(q[i].lines, q[n].lines))
    ELSE MergeEarlier(DedupAB(q[i].lines, next.reference), next)
MergesAs(q, n, f) == f = [i \in 1..n - 1 |-> MergeStep(q, n, i, f[i + 1])]

\* Merging one more slice in front of a result without an issue.
LEMMA EarlierMerged ==
    ASSUME NEW x, NEW y, NEW result, NEW last, NEW reference
    PROVE  MergeEarlier(Merged(x, y), [result |-> result, last |-> last,
                                       reference |-> reference, panics |-> FALSE])
             = [result |-> x \o result, last |-> last, reference |-> x \o y, panics |-> FALSE]
  <1>1. Merged(x, y).panics = FALSE /\ Merged(x, y).a = x /\ Merged(x, y).b = y
    BY DEF Merged
  <1>2. (FALSE \/ Merged(x, y).panics) = FALSE
    BY <1>1
  <1> QED
    BY <1>1, <1>2 DEF MergeEarlier

\* One step of the merge keeps to the chain.
LEMMA ChainStep ==
    ASSUME NEW n \in Nat \ {0}, NEW q \in [1..n -> WindowSlices], Chain(q, n), NEW i \in 1..n - 1,
           NEW next, i # n - 1 => next = ChainFrom(q, n, i + 1)
    PROVE  MergeStep(q, n, i, next) = ChainFrom(q, n, i)
  <1> DEFINE a == Since(q[i])
             b == End(q[i])
             c == Since(q[i + 1])
             s == Since(q[n])
             e == End(q[n])
  <1>1. /\ a \in Nat /\ b \in Nat /\ c \in Nat /\ s \in Nat /\ e \in Nat
        /\ a <= c /\ c <= b /\ a < b /\ c <= s /\ s < e
    BY ChainSlices
  <1>2. q[i].lines = Window(a, b) /\ q[n].lines = Window(s, e)
    BY ChainSlices, SliceIs
  <1>3. CASE i = n - 1
    <2>1. c = s
      <3>1. i + 1 = n
        BY <1>3
      <3> QED
        BY <3>1
    <2> HIDE DEF a, b, c, s, e
    <2>2. DedupAB(Window(a, b), Window(s, e)) = Merged(Window(a, s), Window(s, e))
      BY <1>1, <2>1, WindowsMerge
    <2>3. LastTwo(Merged(Window(a, s), Window(s, e)))
            = [result |-> Window(a, s), last |-> Window(s, e),
               reference |-> Window(a, s) \o Window(s, e), panics |-> FALSE]
      BY DEF LastTwo, Merged
    <2>4. Window(a, s) \o Window(s, e) = Window(a, e)
      <3>1. a <= s /\ s <= e
        BY <1>1, <2>1
      <3> QED
        BY <1>1, <3>1, WindowsJoin
    <2>5. MergeStep(q, n, i, next) = LastTwo(DedupAB(q[i].lines, q[n].lines))
      BY <1>3 DEF MergeStep
    <2>6. ChainFrom(q, n, i) = [result |-> Window(a, s), last |-> Window(s, e),
                                reference |-> Window(a, e), panics |-> FALSE]
      BY <1>2 DEF ChainFrom, a, s, e
    <2> QED
      BY <1>2, <2>2, <2>3, <2>4, <2>5, <2>6
  <1>4. CASE i # n - 1
    <2>1. next = [result |-> Window(c, s), last |-> Window(s, e),
                  reference |-> Window(c, e), panics |-> FALSE]
      BY <1>2, <1>4 DEF ChainFrom
    <2> HIDE DEF a, b, c, s, e
    <2>2. DedupAB(Window(a, b), Window(c, e)) = Merged(Window(a, c), Window(c, e))
      <3>1. c < e
        BY <1>1
      <3> QED
        BY <1>1, <3>1, WindowsMerge
    <2>3. MergeEarlier(Merged(Window(a, c), Window(c, e)), next)
            = [result |-> Window(a, c) \o Window(c, s), last |-> Window(s, e),
               reference |-> Window(a, c) \o Window(c, e), panics |-> FALSE]
      BY <2>1, EarlierMerged
    <2>4. Window(a, c) \o Window(c, s) = Window(a, s)
      BY <1>1, WindowsJoin
    <2>5. Window(a, c) \o Window(c, e) = Window(a, e)
      <3>1. c <= e
        BY <1>1
      <3> QED
        BY <1>1, <3>1, WindowsJoin
    <2>6. MergeStep(q, n, i, next) = MergeEarlier(DedupAB(q[i].lines, next.reference), next)
      BY <1>4 DEF MergeStep
    <2>7. ChainFrom(q, n, i) = [result |-> Window(a, s), last |-> Window(s, e),
                                reference |-> Window(a, e), panics |-> FALSE]
      BY <1>2 DEF ChainFrom, a, s, e
    <2>8. next.reference = Window(c, e)
      BY <2>1
    <2> QED
      BY <1>2, <2>2, <2>3, <2>4, <2>5, <2>6, <2>7, <2>8
  <1> QED
    BY <1>3, <1>4

(* A chain merges into the window from its first slice to its last.        *)
LEMMA ChainMerges ==
    ASSUME NEW n \in Nat \ {0}, NEW q \in [1..n -> WindowSlices], Chain(q, n), n > 1
    PROVE  MergeSorted(q) = ChainFrom(q, n, 1)
  <1> DEFINE sol == [i \in 1..n - 1 |-> ChainFrom(q, n, i)]
             F == CHOOSE f : MergesAs(q, n, f)
  <1>1. Len(q) = n
    OBVIOUS
  <1>2. MergeSorted(q) = F[1]
    BY <1>1 DEF MergeSorted, MergesAs, MergeStep
  <1>3. MergesAs(q, n, sol)
    <2>1. \A i \in 1..n - 1 : MergeStep(q, n, i, sol[i + 1]) = ChainFrom(q, n, i)
      <3> TAKE i \in 1..n - 1
      <3>1. i # n - 1 => sol[i + 1] = ChainFrom(q, n, i + 1)
        OBVIOUS
      <3> HIDE DEF sol
      <3> QED
        BY <3>1, ChainStep
    <2> QED
      BY <2>1 DEF MergesAs
  <1>4. MergesAs(q, n, F)
    BY <1>3
  <1> HIDE DEF F
  <1> DEFINE Good == {k \in 0..n - 2 : F[n - 1 - k] = ChainFrom(q, n, n - 1 - k)}
  <1>5. \A i \in 1..n - 1 : F[i] = MergeStep(q, n, i, F[i + 1])
    BY <1>4 DEF MergesAs
  <1>6. 0 \in Good
    <2>1. n - 1 \in 1..n - 1 /\ 0 \in 0..n - 2 /\ n - 1 - 0 = n - 1
      OBVIOUS
    <2>2. MergeStep(q, n, n - 1, F[n - 1 + 1]) = ChainFrom(q, n, n - 1)
      BY <2>1, ChainStep
    <2> QED
      BY <1>5, <2>1, <2>2
  <1>7. \A k \in 1..n - 2 : k - 1 \in Good => k \in Good
    <2> SUFFICES ASSUME NEW k \in 1..n - 2, k - 1 \in Good PROVE k \in Good
      OBVIOUS
    <2> DEFINE i == n - 1 - k
    <2>1. i \in 1..n - 1 /\ i # n - 1 /\ i + 1 = n - 1 - (k - 1) /\ k \in 0..n - 2
      OBVIOUS
    <2>2. F[i + 1] = ChainFrom(q, n, i + 1)
      BY <2>1
    <2> HIDE DEF i
    <2>3. MergeStep(q, n, i, F[i + 1]) = ChainFrom(q, n, i)
      BY <2>1, <2>2, ChainStep
    <2>4. F[i] = ChainFrom(q, n, i)
      BY <1>5, <2>1, <2>3
    <2> QED
      BY <2>1, <2>4 DEF i
  <1>8. n - 2 \in Nat
    OBVIOUS
  <1>9. 0..n - 2 \subseteq Good
    <2> HIDE DEF Good
    <2> QED
      BY <1>6, <1>7, <1>8, InductionTo
  <1>10. n - 2 \in 0..n - 2 /\ n - 1 - (n - 2) = 1
    OBVIOUS
  <1>11. F[1] = ChainFrom(q, n, 1)
    BY <1>9, <1>10
  <1> QED
    BY <1>2, <1>11

\* Deduplicating a chain leaves its window up to the start of the last slice,
\* which is kept apart.
LEMMA ChainDedup ==
    ASSUME NEW n \in Nat \ {0}, NEW q \in [1..n -> WindowSlices], Chain(q, n)
    PROVE  /\ DedupSorted(q).earlier.lines = Window(Since(q[1]), Since(q[n]))
           /\ DedupSorted(q).last = q[n]
           /\ DedupSorted(q).panics = FALSE
  <1>1. Len(q) = n /\ q \in Seq(WindowSlices)
    OBVIOUS
  <1>2. n \in 1..n /\ q[n] \in WindowSlices
    OBVIOUS
  <1>3. CASE n = 1
    <2>1. DedupSorted(q) = [earlier |-> Slice(<< >>, 0), last |-> q[1], panics |-> FALSE]
      BY <1>1, <1>3 DEF DedupSorted
    <2>2. Window(Since(q[1]), Since(q[1])) = << >>
      BY <1>2, <1>3, SliceIs, WindowEmpty
    <2> QED
      BY <1>3, <2>1, <2>2 DEF Slice
  <1>4. CASE n # 1
    <2>1. n > 1
      BY <1>4
    <2>2. MergeSorted(q) = ChainFrom(q, n, 1)
      BY <2>1, ChainMerges
    <2>3. DedupSorted(q) = TwoSlices(q, ChainFrom(q, n, 1))
      BY <1>1, <1>4, <2>2 DEF DedupSorted
    <2>4. Last(q) = q[n]
      BY <1>1 DEF Last
    <2>5. /\ ChainFrom(q, n, 1).result = Window(Since(q[1]), Since(q[n]))
          /\ ChainFrom(q, n, 1).last = q[n].lines
          /\ ChainFrom(q, n, 1).panics = FALSE
      BY DEF ChainFrom
    <2>6. DedupSorted(q).earlier.lines = Window(Since(q[1]), Since(q[n]))
      BY <2>3, <2>5 DEF TwoSlices, Slice
    <2>7. DedupSorted(q).last = Slice(q[n].lines, q[n].gen)
      BY <2>3, <2>4, <2>5 DEF TwoSlices
    <2>8. DedupSorted(q).panics = FALSE
      BY <2>3, <2>5 DEF TwoSlices
    <2>9. q[n] = Slice(q[n].lines, q[n].gen)
      BY <1>2 DEF Slice, WindowSlices
    <2> QED
      BY <2>6, <2>7, <2>8, <2>9
  <1> QED
    BY <1>3, <1>4

-----------------------------------------------------------------------------
(* Loops.  FixAll and DedupAgain call themselves: that such a function is   *)
(* there is shown for any loop, by its runs.                                *)

(* Every set of natural numbers has a least element.                       *)
LEMMA LeastNatural ==
    ASSUME NEW T, T \subseteq Nat, T # {}
    PROVE  \E x \in T : \A y \in T : x <= y
  <1>1. IsWellFoundedOn({ss \in Nat \X Nat : ss[1] < ss[2]}, Nat)
    BY NatLessThanWellFounded DEF OpToRel
  <1>2. PICK x \in T : \A y \in T : ~ (<<y, x>> \in {ss \in Nat \X Nat : ss[1] < ss[2]})
    BY <1>1, WFMin
  <1>3. \A y \in T : ~ (y < x)
    BY <1>2
  <1> QED
    BY <1>3

\* The least of a set.
LEMMA MinIs ==
    ASSUME NEW T, T \subseteq Nat, T # {}
    PROVE  Min(T) \in T /\ \A y \in T : Min(T) <= y
  <1>1. \E x \in T : \A y \in T : x <= y
    BY LeastNatural
  <1> QED
    BY <1>1 DEF Min

(* A loop: at the ends E it has the outcome out, elsewhere that of next.   *)
(* Where it does not end, any outcome will do.                             *)
LoopRun(D, V, E, out, next, R) ==
    /\ \A w \in E : <<w, out[w]>> \in R
    /\ \A w \in D \ E, v \in V : <<next[w], v>> \in R => <<w, v>> \in R
LoopOf(D, E, out, next, f) ==
    \A w \in D : f[w] = IF w \in E THEN out[w] ELSE f[next[w]]

\* A loop that is left at E, or never, has an outcome for every start.
LEMMA LoopExists ==
    ASSUME NEW D, NEW V, NEW E \in SUBSET D, NEW out \in [E -> V], NEW next \in [D \ E -> D], V # {}
    PROVE  \E f \in [D -> V] : LoopOf(D, E, out, next, f)
  <1> DEFINE Closed(S) == LoopRun(D, V, E, out, next, S)
             R == {p \in D \X V : \A S \in SUBSET (D \X V) : Closed(S) => p \in S}
             Outcomes(w) == {v \in V : <<w, v>> \in R}
             any == CHOOSE v : v \in V
             f == [w \in D |-> IF Outcomes(w) = {} THEN any ELSE CHOOSE v : v \in Outcomes(w)]
  <1>1. \A w \in E : out[w] \in V /\ w \in D
    OBVIOUS
  <1>2. \A w \in D \ E : next[w] \in D
    OBVIOUS
  <1>3. Closed(R)
    <2>1. ASSUME NEW w \in E PROVE <<w, out[w]>> \in R
      BY <1>1 DEF LoopRun
    <2>2. ASSUME NEW w \in D \ E, NEW v \in V, <<next[w], v>> \in R PROVE <<w, v>> \in R
      BY <2>2 DEF LoopRun
    <2> HIDE DEF R
    <2> QED
      BY <2>1, <2>2 DEF LoopRun
  <1>4. R \subseteq D \X V /\ \A S \in SUBSET (D \X V) : Closed(S) => R \subseteq S
    OBVIOUS
  <1> HIDE DEF R
  <1>5. ASSUME NEW w \in E, NEW v \in V, <<w, v>> \in R PROVE v = out[w]
    <2> SUFFICES ASSUME v # out[w] PROVE FALSE
      OBVIOUS
    <2> DEFINE S == R \ {<<w, v>>}
    <2>1. S \in SUBSET (D \X V)
      BY <1>4
    <2>2. \A u \in E : <<u, out[u]>> \in S
      BY <1>3 DEF LoopRun
    <2>3. \A u \in D \ E, z \in V : <<next[u], z>> \in S => <<u, z>> \in S
      BY <1>3 DEF LoopRun
    <2> HIDE DEF S
    <2>4. Closed(S)
      BY <2>2, <2>3 DEF LoopRun
    <2>5. R \subseteq S
      BY <1>4, <2>1, <2>4
    <2> QED
      BY <1>5, <2>5 DEF S
  <1>6. ASSUME NEW w \in D \ E, NEW v \in V, <<w, v>> \in R PROVE <<next[w], v>> \in R
    <2> SUFFICES ASSUME <<next[w], v>> \notin R PROVE FALSE
      OBVIOUS
    <2> DEFINE S == R \ {<<w, v>>}
    <2>1. S \in SUBSET (D \X V)
      BY <1>4
    <2>2. \A u \in E : <<u, out[u]>> \in S
      BY <1>3 DEF LoopRun
    <2>3. \A u \in D \ E, z \in V : <<next[u], z>> \in S => <<u, z>> \in S
      BY <1>3 DEF LoopRun
    <2> HIDE DEF S
    <2>4. Closed(S)
      BY <2>2, <2>3 DEF LoopRun
    <2>5. R \subseteq S
      BY <1>4, <2>1, <2>4
    <2> QED
      BY <1>6, <2>5 DEF S
  <1>7. \A w \in E : Outcomes(w) = {out[w]}
    BY <1>1, <1>3, <1>5 DEF LoopRun
  <1>8. \A w \in D \ E : Outcomes(w) = Outcomes(next[w])
    BY <1>3, <1>6 DEF LoopRun
  <1>9. \A w \in D : Outcomes(w) \subseteq V
    OBVIOUS
  <1>10. any \in V
    OBVIOUS
  <1> HIDE DEF Outcomes, any
  <1>11. f \in [D -> V]
    BY <1>9, <1>10
  <1>12. ASSUME NEW w \in E PROVE f[w] = out[w]
    <2>1. f[w] = CHOOSE v : v \in {out[w]}
      BY <1>1, <1>7
    <2> QED
      BY <2>1
  <1>13. ASSUME NEW w \in D \ E PROVE f[w] = f[next[w]]
    <2>1. f[w] = IF Outcomes(w) = {} THEN any ELSE CHOOSE v : v \in Outcomes(w)
      OBVIOUS
    <2>2. f[next[w]] = IF Outcomes(next[w]) = {} THEN any ELSE CHOOSE v : v \in Outcomes(next[w])
      BY <1>2
    <2>3. Outcomes(w) = Outcomes(next[w])
      BY <1>8
    <2> HIDE DEF f
    <2> QED
      BY <2>1, <2>2, <2>3
  <1> HIDE DEF f
  <1>14. LoopOf(D, E, out, next, f)
    BY <1>12, <1>13 DEF LoopOf
  <1> QED
    BY <1>11, <1>14

-----------------------------------------------------------------------------
(* Where lines are, and where windows differ.                              *)

\* A line is found where it first is, or not at all.
FoundIn(l, s, i) ==
    /\ i \in 0..Len(s)
    /\ i # 0 => s[i] = l /\ \A k \in 1..i - 1 : s[k] # l
    /\ i = 0 => \A k \in 1..Len(s) : s[k] # l

\* findLineIndex gives the first place of a line.
LEMMA FindLine ==
    ASSUME NEW s \in Seq(Nat), NEW l
    PROVE  FoundIn(l, s, FindLineIndex(l, s))
  <1> DEFINE I == {i \in 1..Len(s) : s[i] = l}
  <1>1. FindLineIndex(l, s) = IF I # {} THEN Min(I) ELSE 0
    BY DEF FindLineIndex, SelectInSeq
  <1>2. CASE I = {}
    <2>1. \A k \in 1..Len(s) : s[k] # l
      BY <1>2
    <2>2. FindLineIndex(l, s) = 0
      BY <1>1, <1>2
    <2> QED
      BY <2>1, <2>2 DEF FoundIn
  <1>3. CASE I # {}
    <2> DEFINE m == Min(I)
    <2>0. I \subseteq Nat
      OBVIOUS
    <2>1. m \in I /\ \A y \in I : m <= y
      <3> HIDE DEF I
      <3> QED
        BY <1>3, <2>0, MinIs
    <2>2. FindLineIndex(l, s) = m
      BY <1>1, <1>3
    <2> HIDE DEF m
    <2>3. m \in 1..Len(s) /\ s[m] = l
      BY <2>1
    <2>4. \A k \in 1..m - 1 : s[k] # l
      BY <2>1, <2>3
    <2> QED
      BY <2>2, <2>3, <2>4 DEF FoundIn
  <1> QED
    BY <1>2, <1>3

\* The first place where two windows differ, if there is one.
IssueOf(x, y, i) ==
    /\ i \in 0..Len(x) /\ i \in 0..Len(y)
    /\ i # 0 => x[i] # y[i] /\ \A k \in 1..i - 1 : x[k] = y[k]
    /\ i = 0 => \A k \in 1..Len(x) : k <= Len(y) => x[k] = y[k]

\* findFirstIssueIndex gives the first place where the windows differ.
LEMMA FirstIssue ==
    ASSUME NEW x \in Seq(Nat), NEW y \in Seq(Nat)
    PROVE  IssueOf(x, y, FindFirstIssueIndex(x, y))
  <1> DEFINE I == {i \in DOMAIN x \cap DOMAIN y : x[i] # y[i]}
  <1>1. FindFirstIssueIndex(x, y) = IF I = {} THEN 0 ELSE Min(I)
    BY DEF FindFirstIssueIndex
  <1>2. DOMAIN x = 1..Len(x) /\ DOMAIN y = 1..Len(y)
    OBVIOUS
  <1>3. CASE I = {}
    <2>1. \A k \in 1..Len(x) : k <= Len(y) => x[k] = y[k]
      BY <1>2, <1>3
    <2>2. FindFirstIssueIndex(x, y) = 0
      BY <1>1, <1>3
    <2> QED
      BY <2>1, <2>2 DEF IssueOf
  <1>4. CASE I # {}
    <2> DEFINE m == Min(I)
    <2>0. I \subseteq Nat
      BY <1>2
    <2>1. m \in I /\ \A z \in I : m <= z
      <3> HIDE DEF I
      <3> QED
        BY <1>4, <2>0, MinIs
    <2>2. FindFirstIssueIndex(x, y) = m
      BY <1>1, <1>4
    <2> HIDE DEF m
    <2>3. m \in 1..Len(x) /\ m \in 1..Len(y) /\ x[m] # y[m]
      BY <1>2, <2>1
    <2>4. \A k \in 1..m - 1 : x[k] = y[k]
      <3> TAKE k \in 1..m - 1
      <3>1. k \in DOMAIN x \cap DOMAIN y /\ ~ (m <= k)
        BY <1>2, <2>3
      <3> QED
        BY <2>1, <3>1
    <2> QED
      BY <2>2, <2>3, <2>4 DEF IssueOf
  <1> QED
    BY <1>3, <1>4

\* There is one such place only.
LEMMA IssueIsOne ==
    ASSUME NEW x \in Seq(Nat), NEW y \in Seq(Nat), NEW i, NEW j, IssueOf(x, y, i), IssueOf(x, y, j)
    PROVE  i = j
  <1>1. i \in Nat /\ j \in Nat
    BY DEF IssueOf
  <1>2. i # 0 => i \in 1..Len(x) /\ i <= Len(y)
    BY DEF IssueOf
  <1>3. j # 0 => j \in 1..Len(x) /\ j <= Len(y)
    BY DEF IssueOf
  <1>4. ~ (i # 0 /\ i < j)
    <2> SUFFICES ASSUME i # 0, i < j PROVE FALSE
      OBVIOUS
    <2>1. i \in 1..j - 1 /\ j # 0
      BY <1>1
    <2> QED
      BY <2>1 DEF IssueOf
  <1>5. ~ (j # 0 /\ j < i)
    <2> SUFFICES ASSUME j # 0, j < i PROVE FALSE
      OBVIOUS
    <2>1. j \in 1..i - 1 /\ i # 0
      BY <1>1
    <2> QED
      BY <2>1 DEF IssueOf
  <1>6. ~ (i = 0 /\ j # 0)
    BY <1>3 DEF IssueOf
  <1>7. ~ (j = 0 /\ i # 0)
    BY <1>2 DEF IssueOf
  <1> QED
    BY <1>1, <1>4, <1>5, <1>6, <1>7

\* So any such place is the one that findFirstIssueIndex gives.
LEMMA IssueIs ==
    ASSUME NEW x \in Seq(Nat), NEW y \in Seq(Nat), NEW i, IssueOf(x, y, i)
    PROVE  FindFirstIssueIndex(x, y) = i
  BY FirstIssue, IssueIsOne

\* The lines of a from the i-th on.
LEMMA FromIs ==
    ASSUME NEW a \in Seq(Nat), NEW i \in 1..Len(a) + 1
    PROVE  /\ From(a, i) \in Seq(Nat) /\ Len(From(a, i)) = Len(a) - i + 1
           /\ \A k \in 1..Len(a) - i + 1 : From(a, i)[k] = a[i + k - 1]
  BY DEF From

\* The lines of a before the i-th.
LEMMA BeforeIs ==
    ASSUME NEW a \in Seq(Nat), NEW i \in 1..Len(a) + 1
    PROVE  /\ Before(a, i) \in Seq(Nat) /\ Len(Before(a, i)) = i - 1
           /\ \A k \in 1..i - 1 : Before(a, i)[k] = a[k]
  BY DEF Before

-----------------------------------------------------------------------------
(* What fixLines puts where.                                               *)

\* The lines of a up to the next one that b has too, at d in b.
NextIs(a, b, o, d) ==
    /\ o \in 1..Len(a) /\ d \in 0..Len(b)
    /\ \A k \in 2..o, j \in 1..Len(b) : a[k] # b[j]
    /\ d = 0 => o = Len(a)
    /\ d # 0 => o < Len(a) /\ a[o + 1] = b[d]

\* findNextMatching gives that.
LEMMA NextMatching ==
    ASSUME NEW a \in Seq(Nat), NEW b \in Seq(Nat), Len(a) > 0
    PROVE  NextIs(a, b, FindNextMatching(a, b).offset, FindNextMatching(a, b).index)
  <1> DEFINE common == {k \in 2..Len(a) : FindLineIndex(a[k], b) # 0}
  <1>1. FindNextMatching(a, b) =
          IF common = {} THEN [offset |-> Len(a), index |-> 0]
          ELSE [offset |-> Min(common) - 1, index |-> FindLineIndex(a[Min(common)], b)]
    BY DEF FindNextMatching
  <1>2. ASSUME NEW k \in 2..Len(a), k \notin common PROVE \A j \in 1..Len(b) : a[k] # b[j]
    <2>1. FindLineIndex(a[k], b) = 0
      BY <1>2
    <2> QED
      BY <2>1, FindLine DEF FoundIn
  <1>3. common \subseteq Nat /\ common \subseteq 2..Len(a)
    OBVIOUS
  <1>4. \A k \in common : FindLineIndex(a[k], b) # 0
    OBVIOUS
  <1> HIDE DEF common
  <1>5. CASE common = {}
    <2>1. FindNextMatching(a, b).offset = Len(a) /\ FindNextMatching(a, b).index = 0
      BY <1>1, <1>5
    <2>2. \A k \in 2..Len(a), j \in 1..Len(b) : a[k] # b[j]
      BY <1>2, <1>5
    <2>3. Len(a) \in 1..Len(a) /\ 0 \in 0..Len(b)
      OBVIOUS
    <2> QED
      BY <2>1, <2>2, <2>3 DEF NextIs
  <1>6. CASE common # {}
    <2> DEFINE m == Min(common)
               d == FindLineIndex(a[m], b)
    <2>1. m \in common /\ \A k \in common : m <= k
      BY <1>3, <1>6, MinIs
    <2>2. FindNextMatching(a, b).offset = m - 1 /\ FindNextMatching(a, b).index = d
      BY <1>1, <1>6
    <2>3. FoundIn(a[m], b, d) /\ d # 0
      BY <1>4, <2>1, FindLine
    <2> HIDE DEF m, d
    <2>4. m \in 2..Len(a) /\ m - 1 \in 1..Len(a) /\ m - 1 < Len(a) /\ m - 1 + 1 = m
      BY <1>3, <2>1
    <2>5. d \in 0..Len(b) /\ a[m] = b[d]
      BY <2>3 DEF FoundIn
    <2>6. \A k \in 2..m - 1, j \in 1..Len(b) : a[k] # b[j]
      <3> TAKE k \in 2..m - 1
      <3>1. k \in 2..Len(a) /\ k \notin common
        BY <2>1, <2>4
      <3> QED
        BY <1>2, <3>1
    <2> QED
      BY <2>2, <2>3, <2>4, <2>5, <2>6 DEF NextIs
  <1> QED
    BY <1>5, <1>6

\* Two lists after each other.
LEMMA JoinIs ==
    ASSUME NEW a \in Seq(Nat), NEW b \in Seq(Nat)
    PROVE  /\ a \o b \in Seq(Nat) /\ Len(a \o b) = Len(a) + Len(b)
           /\ \A k \in 1..Len(a) : (a \o b)[k] = a[k]
           /\ \A k \in Len(a) + 1..Len(a) + Len(b) : (a \o b)[k] = b[k - Len(a)]
  OBVIOUS

\* What Stitch makes of x: o lines of y in the place of d - 1 of its own.
StitchedAs(x, y, i, o, d, s) ==
    /\ o \in 1..Len(y) - i + 1 /\ d \in 0..Len(x) - i + 1
    /\ s \in Seq(Nat) /\ Len(s) = Len(x) + o - d + 1
    /\ \A k \in 1..i - 1 : s[k] = x[k]
    /\ \A k \in i..i + o - 1 : s[k] = y[k]
    /\ \A k \in i + o..Len(s) : s[k] = x[k - o + d - 1]
    /\ \A k \in i + 1..i + o - 1, j \in i..Len(x) : y[k] # x[j]
    /\ d = 0 => o = Len(y) - i + 1
    /\ d # 0 => i + o <= Len(y) /\ y[i + o] = x[i + d - 1]

\* Stitch does so when it does not panic.
LEMMA StitchIs ==
    ASSUME NEW x \in Seq(Nat), NEW y \in Seq(Nat), NEW i \in 1..Len(x), i <= Len(y),
           ~ StitchPanics(x, y, i)
    PROVE  \E o, d \in Nat : StitchedAs(x, y, i, o, d, Stitch(x, y, i))
  <1> DEFINE u == From(y, i)
             v == From(x, i)
             next == FindNextMatching(u, v)
             o == next.offset
             d == next.index
             A == Before(x, i)
             B == SubSeq(y, i, i + o - 1)
             C == From(x, i + d - 1)
             s == Stitch(x, y, i)
  <1>1. /\ u \in Seq(Nat) /\ Len(u) = Len(y) - i + 1 /\ \A k \in 1..Len(y) - i + 1 : u[k] = y[i + k - 1]
        /\ v \in Seq(Nat) /\ Len(v) = Len(x) - i + 1 /\ \A k \in 1..Len(x) - i + 1 : v[k] = x[i + k - 1]
    <2>1. i \in 1..Len(y) + 1 /\ i \in 1..Len(x) + 1
      OBVIOUS
    <2> QED
      BY <2>1, FromIs
  <1>2. NextIs(u, v, o, d)
    <2> HIDE DEF u, v
    <2>1. Len(u) > 0
      BY <1>1
    <2> QED
      BY <1>1, <2>1, NextMatching
  <1>3. ~ (i = 1 /\ d = 0)
    <2>1. i = 1 => u = y /\ v = x
      BY DEF From
    <2> QED
      BY <2>1 DEF StitchPanics
  <1>4. s = A \o B \o C
    BY DEF Stitch
  <1> HIDE DEF s, u, v, next
  <1> HIDE DEF o, d
  <1>5. o \in 1..Len(y) - i + 1 /\ d \in 0..Len(x) - i + 1 /\ i + d - 1 \in 1..Len(x) + 1
    <2>1. o \in 1..Len(u) /\ d \in 0..Len(v)
      BY <1>2 DEF NextIs
    <2>2. o \in 1..Len(y) - i + 1 /\ d \in 0..Len(x) - i + 1
      BY <1>1, <2>1
    <2>3. Len(x) \in Nat /\ i \in Nat /\ i >= 1 /\ i <= Len(x)
      OBVIOUS
    <2>4. i + d - 1 \in 1..Len(x) + 1
      <3> HIDE DEF o
      <3> QED
        BY <1>3, <2>2, <2>3
    <2> QED
      BY <2>2, <2>4
  <1>6. A \in Seq(Nat) /\ Len(A) = i - 1 /\ \A k \in 1..i - 1 : A[k] = x[k]
    BY BeforeIs
  <1>7. B \in Seq(Nat) /\ Len(B) = o /\ \A k \in 1..o : B[k] = y[i + k - 1]
    <2>1. i \in 1..Len(y) + 1 /\ i + o - 1 \in i - 1..Len(y)
      BY <1>5
    <2>2. B \in Seq(Nat) /\ Len(B) = o
      BY <1>5, <2>1
    <2>3. \A k \in 1..o : B[k] = y[i + k - 1]
      <3>1. o \in Nat /\ y \in Seq(Nat) /\ i \in 1..Len(y) + 1
        BY <1>5, <2>1
      <3> TAKE k \in 1..o
      <3>2. k \in 1..(i + o - 1) - i + 1
        BY <3>1
      <3> QED
        BY <2>1, <3>1, <3>2
    <2> QED
      BY <2>2, <2>3
  <1>8. C \in Seq(Nat) /\ Len(C) = Len(x) - i - d + 2 /\ \A k \in 1..Len(x) - i - d + 2 : C[k] = x[i + d - 1 + k - 1]
    <2>1. Len(x) - (i + d - 1) + 1 = Len(x) - i - d + 2
      BY <1>5
    <2> QED
      BY <1>5, <2>1, FromIs
  <1> HIDE DEF A, B, C
  <1>0. Len(x) \in Nat /\ Len(y) \in Nat /\ i \in Nat /\ o \in Nat /\ d \in Nat /\ i >= 1 /\ o >= 1
    BY <1>5
  <1> DEFINE AB == A \o B
  <1>9. /\ AB \in Seq(Nat) /\ Len(AB) = i - 1 + o
        /\ \A k \in 1..i - 1 : AB[k] = A[k]
        /\ \A k \in i..i + o - 1 : AB[k] = B[k - (i - 1)]
    <2>1. /\ A \o B \in Seq(Nat) /\ Len(A \o B) = Len(A) + Len(B)
          /\ \A k \in 1..Len(A) : (A \o B)[k] = A[k]
          /\ \A k \in Len(A) + 1..Len(A) + Len(B) : (A \o B)[k] = B[k - Len(A)]
      BY <1>6, <1>7, JoinIs
    <2>2. Len(A) + 1 = i /\ Len(A) + Len(B) = i + o - 1 /\ i - 1 + o = i + o - 1
      BY <1>0, <1>6, <1>7
    <2>3. \A k \in i..i + o - 1 : (A \o B)[k] = B[k - (i - 1)]
      BY <1>6, <2>1, <2>2
    <2> QED
      BY <1>6, <2>1, <2>2, <2>3
  <1>10. /\ s \in Seq(Nat) /\ Len(s) = Len(AB) + Len(C)
         /\ \A k \in 1..Len(AB) : s[k] = AB[k]
         /\ \A k \in Len(AB) + 1..Len(AB) + Len(C) : s[k] = C[k - Len(AB)]
    <2>1. s = AB \o C
      BY <1>4
    <2> HIDE DEF AB
    <2> QED
      BY <1>8, <1>9, <2>1, JoinIs
  <1> HIDE DEF AB
  <1>19. s \in Seq(Nat) /\ Len(s) = Len(x) + o - d + 1
    BY <1>0, <1>8, <1>9, <1>10
  <1>11. \A k \in 1..i - 1 : s[k] = x[k]
    <2> TAKE k \in 1..i - 1
    <2>1. k \in 1..Len(AB)
      BY <1>0, <1>9
    <2> QED
      BY <1>6, <1>9, <1>10, <2>1
  <1>12. \A k \in i..i + o - 1 : s[k] = y[k]
    <2> TAKE k \in i..i + o - 1
    <2>4. k \in Nat /\ i <= k /\ k <= i + o - 1
      BY <1>0
    <2>5. k - (i - 1) \in 1..o /\ i + (k - (i - 1)) - 1 = k
      BY <1>0, <2>4
    <2>6. k \in 1..i - 1 + o
      BY <1>0, <2>4
    <2>1. k - (i - 1) \in 1..o /\ k \in 1..Len(AB) /\ i + (k - (i - 1)) - 1 = k
      BY <1>9, <2>5, <2>6
    <2>2. s[k] = AB[k] /\ AB[k] = B[k - (i - 1)]
      BY <1>9, <1>10, <2>1
    <2>3. B[k - (i - 1)] = y[k]
      BY <1>7, <2>1
    <2> QED
      BY <2>2, <2>3
  <1>13. \A k \in i + o..Len(s) : s[k] = x[k - o + d - 1]
    <2> TAKE k \in i + o..Len(s)
    <2> DEFINE j == k - Len(AB)
    <2>1. /\ j \in 1..Len(x) - i - d + 2 /\ i + d - 1 + j - 1 = k - o + d - 1
          /\ k \in Len(AB) + 1..Len(AB) + Len(C)
      BY <1>0, <1>8, <1>9, <1>10
    <2>2. s[k] = C[j]
      BY <1>10, <2>1
    <2> QED
      BY <1>8, <2>1, <2>2
  <1>14. \A k \in i + 1..i + o - 1, j \in i..Len(x) : y[k] # x[j]
    <2> TAKE k \in i + 1..i + o - 1, j \in i..Len(x)
    <2>1. /\ k - i + 1 \in 2..o /\ j - i + 1 \in 1..Len(x) - i + 1
          /\ i + (k - i + 1) - 1 = k /\ i + (j - i + 1) - 1 = j /\ k - i + 1 \in 1..Len(y) - i + 1
      BY <1>5
    <2>2. u[k - i + 1] # v[j - i + 1]
      BY <1>1, <1>2, <2>1 DEF NextIs
    <2> QED
      BY <1>1, <2>1, <2>2
  <1>15. d = 0 => o = Len(y) - i + 1
    BY <1>1, <1>2 DEF NextIs
  <1>16. d # 0 => i + o <= Len(y) /\ y[i + o] = x[i + d - 1]
    <2> SUFFICES ASSUME d # 0 PROVE i + o <= Len(y) /\ y[i + o] = x[i + d - 1]
      OBVIOUS
    <2>1. o < Len(u) /\ u[o + 1] = v[d]
      BY <1>2 DEF NextIs
    <2>3. o < Len(y) - i + 1
      BY <1>1, <2>1
    <2>2. o + 1 \in 1..Len(y) - i + 1 /\ d \in 1..Len(x) - i + 1 /\ i + (o + 1) - 1 = i + o /\ i + o <= Len(y)
      BY <1>0, <1>5, <2>3
    <2> QED
      BY <1>1, <2>1, <2>2
  <1>17. StitchedAs(x, y, i, o, d, s)
    BY <1>5, <1>19, <1>11, <1>12, <1>13, <1>14, <1>15, <1>16 DEF StitchedAs
  <1>18. o \in Nat /\ d \in Nat
    BY <1>5
  <1> QED
    BY <1>17, <1>18 DEF s

-----------------------------------------------------------------------------
(* The loop of processOverlap: where fixLines changes x, or y, and what it *)
(* leaves to do.                                                           *)
Issue(w) == FindFirstIssueIndex(w[1], w[2])
FixesFirst(w) == Issue(w) # 0 /\ FindLineIndex(w[2][Issue(w)], From(w[1], Issue(w))) = 0
FixesSecond(w) ==
    /\ Issue(w) # 0 /\ ~ FixesFirst(w)
    /\ FindLineIndex(w[1][Issue(w)], From(w[2], Issue(w))) = 0
Fixable ==
    {w \in WindowPairs : \/ FixesFirst(w) /\ ~ StitchPanics(w[1], w[2], Issue(w))
                         \/ FixesSecond(w) /\ ~ StitchPanics(w[2], w[1], Issue(w))}
Fixed == [w \in Fixable |->
            IF FixesFirst(w) THEN <<Stitch(w[1], w[2], Issue(w)), w[2]>>
            ELSE <<w[1], Stitch(w[2], w[1], Issue(w))>>]
LeftAs == [w \in WindowPairs \ Fixable |->
            IF FixesFirst(w) \/ FixesSecond(w) THEN Panic ELSE Merged(w[1], w[2])]
Merges == [a : Seq(Nat), b : Seq(Nat), panics : BOOLEAN]
\* A bound on the calls of fixLines to come.
Todo(w) == IF Issue(w) = 0 THEN 0 ELSE Len(w[1]) + Len(w[2]) - 2 * Issue(w) + 1

\* Two windows, their first issue and the bound on the calls to come.
LEMMA PairIs ==
    ASSUME NEW w \in WindowPairs
    PROVE  /\ w[1] \in Seq(Nat) /\ w[2] \in Seq(Nat) /\ w = <<w[1], w[2]>>
           /\ IssueOf(w[1], w[2], Issue(w)) /\ Todo(w) \in Nat
           /\ Issue(w) # 0 => /\ Issue(w) \in 1..Len(w[1]) /\ Issue(w) <= Len(w[2])
                              /\ Issue(w) \in 1..Len(w[2]) /\ Issue(w) <= Len(w[1])
                              /\ Todo(w) = Len(w[1]) + Len(w[2]) - 2 * Issue(w) + 1
  <1>1. w[1] \in Seq(Nat) /\ w[2] \in Seq(Nat) /\ w = <<w[1], w[2]>>
    BY DEF WindowPairs
  <1>2. IssueOf(w[1], w[2], Issue(w))
    BY <1>1, FirstIssue DEF Issue
  <1> DEFINE i == Issue(w)
  <1>3. i \in 0..Len(w[1]) /\ i \in 0..Len(w[2])
    BY <1>2 DEF IssueOf
  <1>4. Len(w[1]) \in Nat /\ Len(w[2]) \in Nat
    BY <1>1
  <1>5. i # 0 => i \in 1..Len(w[1]) /\ i <= Len(w[2]) /\ i \in 1..Len(w[2]) /\ i <= Len(w[1])
    <2> HIDE DEF i
    <2> QED
      BY <1>3, <1>4
  <1>6. Todo(w) = IF i = 0 THEN 0 ELSE Len(w[1]) + Len(w[2]) - 2 * i + 1
    BY DEF Todo
  <1> HIDE DEF i
  <1>7. Todo(w) \in Nat
    <2> DEFINE m == Len(w[1])
               n == Len(w[2])
    <2>1. m \in Nat /\ n \in Nat /\ i \in Nat /\ i <= m /\ i <= n
      BY <1>3, <1>4
    <2>2. Todo(w) = IF i = 0 THEN 0 ELSE m + n - 2 * i + 1
      BY <1>6
    <2> HIDE DEF m, n
    <2>3. m + n - 2 * i + 1 \in Nat
      BY <2>1
    <2> QED
      BY <2>2, <2>3
  <1> QED
    BY <1>1, <1>2, <1>5, <1>6, <1>7 DEF i

\* fixLines leaves a later issue, or none.
LEMMA StitchHelps ==
    ASSUME NEW x \in Seq(Nat), NEW y \in Seq(Nat), NEW i, i # 0, IssueOf(x, y, i),
           NEW o \in Nat, NEW d \in Nat, NEW s, StitchedAs(x, y, i, o, d, s),
           NEW j, IssueOf(s, y, j), j # 0
    PROVE  /\ d # 0 /\ i + o <= j /\ j > 1
           /\ Len(s) + Len(y) - 2 * j < Len(x) + Len(y) - 2 * i
  <1>1. /\ i \in Nat /\ i >= 1 /\ o >= 1 /\ Len(x) \in Nat /\ Len(y) \in Nat
        /\ s \in Seq(Nat) /\ Len(s) = Len(x) + o - d + 1
    <2>1. Len(x) \in Nat /\ Len(y) \in Nat
      OBVIOUS
    <2>2. i \in 0..Len(x)
      BY DEF IssueOf
    <2>3. i \in Nat /\ i >= 1
      BY <2>1, <2>2
    <2>4. o \in 1..Len(y) - i + 1 /\ s \in Seq(Nat) /\ Len(s) = Len(x) + o - d + 1
      BY DEF StitchedAs
    <2>5. o >= 1
      BY <2>4
    <2> QED
      BY <2>1, <2>3, <2>4, <2>5
  <1>2. \A k \in 1..i + o - 1 : s[k] = y[k]
    <2> TAKE k \in 1..i + o - 1
    <2>1. CASE k < i
      <3>1. k \in 1..i - 1
        BY <1>1, <2>1
      <3> QED
        BY <3>1 DEF StitchedAs, IssueOf
    <2>2. CASE ~ (k < i)
      <3>1. k \in i..i + o - 1
        BY <1>1, <2>2
      <3> QED
        BY <3>1 DEF StitchedAs
    <2> QED
      BY <2>1, <2>2
  <1>3. j \in Nat /\ j <= Len(y) /\ j >= 1 /\ s[j] # y[j]
    BY <1>1 DEF IssueOf
  <1>4. i + o <= j
    BY <1>1, <1>2, <1>3
  <1>5. d # 0
    <2> SUFFICES ASSUME d = 0 PROVE FALSE
      OBVIOUS
    <2>1. o = Len(y) - i + 1
      BY DEF StitchedAs
    <2> QED
      BY <1>1, <1>3, <1>4, <2>1
  <1>6. Len(s) + Len(y) - 2 * j < Len(x) + Len(y) - 2 * i
    <2>1. Len(s) <= Len(x) + o
      BY <1>1, <1>5
    <2>2. Len(s) \in Nat
      BY <1>1
    <2> QED
      BY <1>1, <1>3, <1>4, <2>1, <2>2
  <1> QED
    BY <1>1, <1>3, <1>4, <1>5, <1>6

\* The same for a call of fixLines in the loop.
LEMMA FixedIs ==
    ASSUME NEW w \in Fixable
    PROVE  /\ w \in WindowPairs /\ Fixed[w] \in WindowPairs /\ Todo(Fixed[w]) < Todo(w)
           /\ FixesFirst(w) => /\ Fixed[w] = <<Stitch(w[1], w[2], Issue(w)), w[2]>>
                               /\ \E o, d \in Nat :
                                     StitchedAs(w[1], w[2], Issue(w), o, d, Fixed[w][1])
           /\ ~ FixesFirst(w) => /\ Fixed[w] = <<w[1], Stitch(w[2], w[1], Issue(w))>>
                                 /\ \E o, d \in Nat :
                                       StitchedAs(w[2], w[1], Issue(w), o, d, Fixed[w][2])
           /\ Issue(w) # 0 /\ Issue(Fixed[w]) # 1
  <1> DEFINE i == Issue(w)
             x == w[1]
             y == w[2]
  <1>1. w \in WindowPairs /\ i # 0
    BY DEF Fixable, FixesFirst, FixesSecond
  <1>2. /\ x \in Seq(Nat) /\ y \in Seq(Nat) /\ i \in 1..Len(x) /\ i <= Len(y)
        /\ i \in 1..Len(y) /\ i <= Len(x)
        /\ IssueOf(x, y, i) /\ Todo(w) = Len(x) + Len(y) - 2 * i + 1 /\ Todo(w) \in Nat
    BY <1>1, PairIs
  <1>3. CASE FixesFirst(w)
    <2>1. ~ StitchPanics(x, y, i)
      BY <1>3 DEF Fixable, FixesSecond
    <2> DEFINE s == Stitch(x, y, i)
    <2>2. Fixed[w] = <<s, y>>
      BY <1>3 DEF Fixed
    <2> HIDE DEF i, x, y
    <2>3. PICK o \in Nat, d \in Nat : StitchedAs(x, y, i, o, d, s)
      BY <1>2, <2>1, StitchIs
    <2> HIDE DEF s
    <2>4. s \in Seq(Nat)
      BY <2>3 DEF StitchedAs
    <2>5. <<s, y>> \in WindowPairs /\ <<s, y>>[1] = s /\ <<s, y>>[2] = y
      BY <1>2, <2>4 DEF WindowPairs
    <2> DEFINE j == Issue(<<s, y>>)
    <2>6. IssueOf(s, y, j) /\ Todo(<<s, y>>) \in Nat
          /\ (j # 0 => Todo(<<s, y>>) = Len(s) + Len(y) - 2 * j + 1)
      BY <2>5, PairIs
    <2>7. j # 0 => j > 1 /\ Len(s) + Len(y) - 2 * j < Len(x) + Len(y) - 2 * i
      <3> HIDE DEF j
      <3> QED
        BY <1>1, <1>2, <2>3, <2>6, StitchHelps
    <2>8. Todo(<<s, y>>) < Todo(w) /\ j # 1
      <3>1. CASE j = 0
        <4>1. Todo(<<s, y>>) = 0
          BY <3>1 DEF Todo
        <4>2. Todo(w) > 0
          <5>1. Len(x) \in Nat /\ Len(y) \in Nat /\ i \in Nat
            BY <1>2
          <5> QED
            BY <1>2, <5>1
        <4> QED
          BY <3>1, <4>1, <4>2
      <3>2. CASE j # 0
        <4> HIDE DEF j
        <4>1. Len(x) \in Nat /\ Len(y) \in Nat /\ i \in Nat /\ Len(s) \in Nat /\ j \in Nat
          BY <1>2, <2>4, <2>6 DEF IssueOf
        <4> QED
          BY <1>2, <2>6, <2>7, <3>2, <4>1
      <3> QED
        BY <3>1, <3>2
    <2> QED
      BY <1>1, <1>3, <2>2, <2>3, <2>5, <2>8 DEF i, x, y, s
  <1>4. CASE ~ FixesFirst(w)
    <2>1. ~ StitchPanics(y, x, i)
      BY <1>4 DEF Fixable
    <2> DEFINE s == Stitch(y, x, i)
    <2>2. Fixed[w] = <<x, s>>
      BY <1>4 DEF Fixed
    <2> HIDE DEF i, x, y
    <2>3. PICK o \in Nat, d \in Nat : StitchedAs(y, x, i, o, d, s)
      BY <1>2, <2>1, StitchIs
    <2> HIDE DEF s
    <2>4. s \in Seq(Nat)
      BY <2>3 DEF StitchedAs
    <2>5. <<x, s>> \in WindowPairs /\ <<x, s>>[1] = x /\ <<x, s>>[2] = s
      BY <1>2, <2>4 DEF WindowPairs
    <2> DEFINE j == Issue(<<x, s>>)
    <2>6. IssueOf(x, s, j) /\ Todo(<<x, s>>) \in Nat
          /\ (j # 0 => Todo(<<x, s>>) = Len(x) + Len(s) - 2 * j + 1)
      BY <2>5, PairIs
    <2>9. IssueOf(s, x, j) /\ IssueOf(y, x, i)
      <3> HIDE DEF j
      <3>1. IssueOf(y, x, i)
        BY <1>2 DEF IssueOf
      <3>2. IssueOf(s, x, j)
        BY <2>4, <2>6 DEF IssueOf
      <3> QED
        BY <3>1, <3>2
    <2>7. j # 0 => j > 1 /\ Len(s) + Len(x) - 2 * j < Len(y) + Len(x) - 2 * i
      <3> HIDE DEF j
      <3> QED
        BY <1>1, <1>2, <2>3, <2>9, StitchHelps
    <2>8. Todo(<<x, s>>) < Todo(w) /\ j # 1
      <3>1. CASE j = 0
        <4>1. Todo(<<x, s>>) = 0
          BY <3>1 DEF Todo
        <4>2. Todo(w) > 0
          <5>1. Len(x) \in Nat /\ Len(y) \in Nat /\ i \in Nat
            BY <1>2
          <5> QED
            BY <1>2, <5>1
        <4> QED
          BY <3>1, <4>1, <4>2
      <3>2. CASE j # 0
        <4> HIDE DEF j
        <4>1. Len(x) \in Nat /\ Len(y) \in Nat /\ i \in Nat /\ Len(s) \in Nat /\ j \in Nat
          BY <1>2, <2>4, <2>6 DEF IssueOf
        <4> QED
          BY <1>2, <2>6, <2>7, <3>2, <4>1
      <3> QED
        BY <3>1, <3>2
    <2> QED
      BY <1>1, <1>4, <2>2, <2>3, <2>5, <2>8 DEF i, x, y, s
  <1> QED
    BY <1>3, <1>4

\* What the loop does with two windows: it ends or goes on with what it fixed.
LEMMA FixFromIs ==
    ASSUME NEW w \in WindowPairs, NEW f
    PROVE  FixFrom(w[1], w[2], FindFirstIssueIndex(w[1], w[2]), f)
             = IF w \in WindowPairs \ Fixable THEN LeftAs[w] ELSE f[Fixed[w]]
  <1> DEFINE i == Issue(w)
             F == FixFrom(w[1], w[2], i, f)
  <1>0. FindFirstIssueIndex(w[1], w[2]) = i
    BY DEF Issue
  <1>1. CASE i = 0
    <2>1. ~ FixesFirst(w) /\ ~ FixesSecond(w)
      BY <1>1 DEF FixesFirst, FixesSecond
    <2>2. w \notin Fixable
      BY <2>1 DEF Fixable
    <2>3. LeftAs[w] = Merged(w[1], w[2])
      BY <2>1, <2>2 DEF LeftAs
    <2>4. F = Merged(w[1], w[2])
      BY <1>1 DEF FixFrom
    <2> QED
      BY <1>0, <2>2, <2>3, <2>4
  <1>2. CASE FixesFirst(w)
    <2>1. i # 0 /\ FindLineIndex(w[2][i], From(w[1], i)) = 0
      BY <1>2 DEF FixesFirst
    <2>2. ~ FixesSecond(w)
      BY <1>2 DEF FixesSecond
    <2>3. CASE StitchPanics(w[1], w[2], i)
      <3>1. w \notin Fixable
        BY <2>2, <2>3 DEF Fixable
      <3>2. LeftAs[w] = Panic
        BY <1>2, <3>1 DEF LeftAs
      <3>3. F = Panic
        BY <2>1, <2>3 DEF FixFrom
      <3> QED
        BY <1>0, <3>1, <3>2, <3>3
    <2>4. CASE ~ StitchPanics(w[1], w[2], i)
      <3>1. w \in Fixable
        BY <1>2, <2>4 DEF Fixable
      <3>2. Fixed[w] = <<Stitch(w[1], w[2], i), w[2]>>
        BY <1>2, <3>1 DEF Fixed
      <3>3. F = f[<<Stitch(w[1], w[2], i), w[2]>>]
        BY <2>1, <2>4 DEF FixFrom
      <3> QED
        BY <1>0, <3>1, <3>2, <3>3
    <2> QED
      BY <2>3, <2>4
  <1>3. CASE FixesSecond(w)
    <2>1. i # 0 /\ ~ FixesFirst(w) /\ FindLineIndex(w[1][i], From(w[2], i)) = 0
      BY <1>3 DEF FixesSecond
    <2>2. FindLineIndex(w[2][i], From(w[1], i)) # 0
      BY <2>1 DEF FixesFirst
    <2>3. CASE StitchPanics(w[2], w[1], i)
      <3>1. w \notin Fixable
        BY <2>1, <2>3 DEF Fixable
      <3>2. LeftAs[w] = Panic
        BY <1>3, <3>1 DEF LeftAs
      <3>3. F = Panic
        BY <2>1, <2>2, <2>3 DEF FixFrom
      <3> QED
        BY <1>0, <3>1, <3>2, <3>3
    <2>4. CASE ~ StitchPanics(w[2], w[1], i)
      <3>1. w \in Fixable
        BY <1>3, <2>4 DEF Fixable
      <3>2. Fixed[w] = <<w[1], Stitch(w[2], w[1], i)>>
        BY <2>1, <3>1 DEF Fixed
      <3>3. F = f[<<w[1], Stitch(w[2], w[1], i)>>]
        BY <2>1, <2>2, <2>4 DEF FixFrom
      <3> QED
        BY <1>0, <3>1, <3>2, <3>3
    <2> QED
      BY <2>3, <2>4
  <1>4. CASE i # 0 /\ ~ FixesFirst(w) /\ ~ FixesSecond(w)
    <2>1. FindLineIndex(w[2][i], From(w[1], i)) # 0
      BY <1>4 DEF FixesFirst
    <2>2. FindLineIndex(w[1][i], From(w[2], i)) # 0
      BY <1>4 DEF FixesSecond
    <2>3. w \notin Fixable
      BY <1>4 DEF Fixable
    <2>4. LeftAs[w] = Merged(w[1], w[2])
      BY <1>4, <2>3 DEF LeftAs
    <2>5. F = Merged(w[1], w[2])
      BY <1>4, <2>1, <2>2 DEF FixFrom
    <2> QED
      BY <1>0, <2>3, <2>4, <2>5
  <1> QED
    BY <1>1, <1>2, <1>3, <1>4

\* The loop ends with two windows, or in a panic.
LEMMA LeftAsTyped == LeftAs \in [WindowPairs \ Fixable -> Merges]
  <1> SUFFICES ASSUME NEW w \in WindowPairs \ Fixable PROVE LeftAs[w] \in Merges
    BY DEF LeftAs
  <1>1. w[1] \in Seq(Nat) /\ w[2] \in Seq(Nat)
    BY PairIs
  <1>2. Panic \in Merges /\ Merged(w[1], w[2]) \in Merges
    BY <1>1 DEF Panic, Merged, Merges
  <1> QED
    BY <1>2 DEF LeftAs

\* FixAll is that loop.
LEMMA FixAllTurns ==
    ASSUME NEW w \in WindowPairs
    PROVE  FixAll[w] = IF w \in WindowPairs \ Fixable THEN LeftAs[w] ELSE FixAll[Fixed[w]]
  <1> DEFINE Turn(f) == [u \in WindowPairs |->
                           FixFrom(u[1], u[2], FindFirstIssueIndex(u[1], u[2]), f)]
  <1>1. FixAll = CHOOSE f : f = Turn(f)
    BY DEF FixAll
  <1>2. PICK f \in [WindowPairs -> Merges] :
           LoopOf(WindowPairs, WindowPairs \ Fixable, LeftAs, Fixed, f)
    <2>1. Fixed \in [WindowPairs \ (WindowPairs \ Fixable) -> WindowPairs]
      <3>1. WindowPairs \ (WindowPairs \ Fixable) = Fixable
        BY DEF Fixable
      <3>2. \A u \in Fixable : Fixed[u] \in WindowPairs
        BY FixedIs
      <3>3. Fixed = [u \in Fixable |-> Fixed[u]]
        BY DEF Fixed
      <3> QED
        BY <3>1, <3>2, <3>3
    <2>2. Panic \in Merges
      BY DEF Panic, Merges
    <2> QED
      BY <2>1, <2>2, LeftAsTyped, LoopExists
  <1>3. f = Turn(f)
    <2>1. \A u \in WindowPairs : f[u] = FixFrom(u[1], u[2], FindFirstIssueIndex(u[1], u[2]), f)
      BY <1>2, FixFromIs DEF LoopOf
    <2>2. f = [u \in WindowPairs |-> f[u]]
      BY <1>2
    <2> QED
      BY <2>1, <2>2
  <1>4. FixAll = Turn(FixAll)
    <2> HIDE DEF Turn
    <2> QED
      BY <1>1, <1>3
  <1>5. FixAll[w] = FixFrom(w[1], w[2], FindFirstIssueIndex(w[1], w[2]), FixAll)
    BY <1>4
  <1> QED
    BY <1>5, FixFromIs

\* and it ends so wherever it starts.
LEMMA FixAllTyped ==
    ASSUME NEW u \in WindowPairs
    PROVE  FixAll[u] \in Merges
  <1> DEFINE Bad == {w \in WindowPairs : FixAll[w] \notin Merges}
             Sizes == {Todo(w) : w \in Bad}
  <1> SUFFICES ASSUME Bad # {} PROVE FALSE
    OBVIOUS
  <1>1. Sizes \subseteq Nat /\ Sizes # {}
    BY PairIs
  <1>2. PICK m \in Sizes : \A n \in Sizes : m <= n
    <2> HIDE DEF Sizes
    <2> QED
      BY <1>1, LeastNatural
  <1>3. PICK w \in Bad : m = Todo(w)
    BY <1>2
  <1>4. w \in Fixable
    <2> SUFFICES ASSUME w \in WindowPairs \ Fixable PROVE FALSE
      OBVIOUS
    <2>1. FixAll[w] = LeftAs[w] /\ LeftAs[w] \in Merges
      BY FixAllTurns, LeftAsTyped
    <2> QED
      BY <2>1
  <1>5. FixAll[w] = FixAll[Fixed[w]]
    BY <1>4, FixAllTurns
  <1>6. Fixed[w] \in WindowPairs /\ Todo(Fixed[w]) < Todo(w)
    BY <1>4, FixedIs
  <1>7. Fixed[w] \in Bad
    BY <1>5, <1>6
  <1>8. Todo(w) <= Todo(Fixed[w])
    BY <1>2, <1>3, <1>7
  <1>9. Todo(w) \in Nat /\ Todo(Fixed[w]) \in Nat
    BY <1>6, PairIs
  <1> QED
    BY <1>6, <1>8, <1>9

-----------------------------------------------------------------------------
(* DedupAB calls itself once an overlap was fixed.                         *)
Overlapping(a, b) ==
    /\ b # << >>
    /\ LET first == FindLineIndex(b[1], a)
       IN  /\ first = 0 => a # << >> /\ FindLineIndex(Last(a), b) # 0
           /\ first # 0 => FindFirstIssueIndex(From(a, first), b) # 0
SplitUp(m) ==
    IF FindFirstIssueIndex(m.a, m.b) = 0 THEN <<m.a, m.b>>
    ELSE <<Before(m.a, FindFirstIssueIndex(m.a, m.b)), From(m.b, FindFirstIssueIndex(m.a, m.b))>>
Repeats == {w \in WindowPairs : Overlapping(w[1], w[2]) /\ ~ FixAll[<<w[1], w[2]>>].panics}
Repeated == [w \in Repeats |-> SplitUp(FixAll[<<w[1], w[2]>>])]
MergedAs == [w \in WindowPairs \ Repeats |-> Dedup(w[1], w[2], FixAll)]

\* Overlapping windows are fixed and merged again,
LEMMA OverlapHandled ==
    ASSUME NEW a, NEW b, Overlapping(a, b), NEW f
    PROVE  Dedup(a, b, f) = IF FixAll[<<a, b>>].panics THEN Panic ELSE f[SplitUp(FixAll[<<a, b>>])]
  <1> DEFINE m == FixAll[<<a, b>>]
             first == FindLineIndex(b[1], a)
  <1>1. /\ b # << >>
        /\ first = 0 => a # << >> /\ FindLineIndex(Last(a), b) # 0
        /\ first # 0 => FindFirstIssueIndex(From(a, first), b) # 0
    BY DEF Overlapping
  <1>2. Dedup(a, b, f) = HandleIncompleteOverlap(a, b, f)
    <2> HIDE DEF first
    <2>1. Dedup(a, b, f) =
            IF b = << >> THEN Panic
            ELSE IF first = 0 /\ a = << >> THEN Panic
            ELSE IF first = 0 /\ FindLineIndex(Last(a), b) = 0 THEN Merged(a, b)
            ELSE IF first = 0 \/ FindFirstIssueIndex(From(a, first), b) # 0
                 THEN HandleIncompleteOverlap(a, b, f)
            ELSE Merged(Before(a, first), b)
      BY DEF Dedup, first
    <2> QED
      BY <1>1, <2>1
  <1>3. HandleIncompleteOverlap(a, b, f) = DedupFixed(m, FindFirstIssueIndex(m.a, m.b), f)
    BY DEF HandleIncompleteOverlap, SplitAtIssue
  <1> HIDE DEF m
  <1>4. DedupFixed(m, FindFirstIssueIndex(m.a, m.b), f) = IF m.panics THEN Panic ELSE f[SplitUp(m)]
    BY DEF DedupFixed, SplitUp
  <1> QED
    BY <1>2, <1>3, <1>4 DEF m

\* the others are not,
LEMMA ApartHandled ==
    ASSUME NEW a, NEW b, ~ Overlapping(a, b), NEW f, NEW g
    PROVE  Dedup(a, b, f) = Dedup(a, b, g)
  <1> DEFINE first == FindLineIndex(b[1], a)
  <1>1. ~ (/\ b # << >>
           /\ first = 0 => a # << >> /\ FindLineIndex(Last(a), b) # 0
           /\ first # 0 => FindFirstIssueIndex(From(a, first), b) # 0)
    BY DEF Overlapping
  <1>2. \A h : Dedup(a, b, h) =
          IF b = << >> THEN Panic
          ELSE IF first = 0 /\ a = << >> THEN Panic
          ELSE IF first = 0 /\ FindLineIndex(Last(a), b) = 0 THEN Merged(a, b)
          ELSE IF first = 0 \/ FindFirstIssueIndex(From(a, first), b) # 0
               THEN HandleIncompleteOverlap(a, b, h)
          ELSE Merged(Before(a, first), b)
    BY DEF Dedup
  <1> HIDE DEF first
  <1>3. \A h : Dedup(a, b, h) =
          IF b = << >> THEN Panic
          ELSE IF first = 0 /\ a = << >> THEN Panic
          ELSE IF first = 0 /\ FindLineIndex(Last(a), b) = 0 THEN Merged(a, b)
          ELSE Merged(Before(a, first), b)
    BY <1>1, <1>2
  <1> QED
    BY <1>3

\* so that DedupAB is a loop over pairs of windows as well.
LEMMA DedupIs ==
    ASSUME NEW w \in WindowPairs, NEW f
    PROVE  Dedup(w[1], w[2], f)
             = IF w \in WindowPairs \ Repeats THEN MergedAs[w] ELSE f[Repeated[w]]
  <1>1. CASE w \in Repeats
    <2>1. Dedup(w[1], w[2], f) = f[SplitUp(FixAll[<<w[1], w[2]>>])]
      BY <1>1, OverlapHandled DEF Repeats
    <2>2. Repeated[w] = SplitUp(FixAll[<<w[1], w[2]>>])
      BY <1>1 DEF Repeated
    <2> QED
      BY <1>1, <2>1, <2>2
  <1>2. CASE w \notin Repeats
    <2>1. Dedup(w[1], w[2], f) = Dedup(w[1], w[2], FixAll)
      <3>1. CASE Overlapping(w[1], w[2])
        <4>1. FixAll[<<w[1], w[2]>>].panics = TRUE
          <5>1. <<w[1], w[2]>> \in WindowPairs /\ FixAll[<<w[1], w[2]>>].panics
            BY <1>2, <3>1, PairIs DEF Repeats
          <5>2. FixAll[<<w[1], w[2]>>] \in Merges
            BY <5>1, FixAllTyped
          <5>3. FixAll[<<w[1], w[2]>>].panics \in BOOLEAN
            BY <5>2 DEF Merges
          <5> QED
            BY <5>1, <5>3
        <4>2. Dedup(w[1], w[2], f) = Panic /\ Dedup(w[1], w[2], FixAll) = Panic
          BY <3>1, <4>1, OverlapHandled
        <4> QED
          BY <4>2
      <3>2. CASE ~ Overlapping(w[1], w[2])
        BY <3>2, ApartHandled
      <3> QED
        BY <3>1, <3>2
    <2>2. MergedAs[w] = Dedup(w[1], w[2], FixAll)
      BY <1>2 DEF MergedAs
    <2> QED
      BY <1>2, <2>1, <2>2
  <1> QED
    BY <1>1, <1>2

\* DedupAgain is that loop.
LEMMA DedupAgainTurns ==
    ASSUME NEW w \in WindowPairs
    PROVE  DedupAgain[w] = Dedup(w[1], w[2], DedupAgain)
  <1> DEFINE Turn(f) == [u \in WindowPairs |-> Dedup(u[1], u[2], f)]
             V == {MergedAs[u] : u \in WindowPairs \ Repeats} \cup {Panic}
  <1>1. DedupAgain = CHOOSE f : f = Turn(f)
    BY DEF DedupAgain
  <1>2. PICK f \in [WindowPairs -> V] :
           LoopOf(WindowPairs, WindowPairs \ Repeats, MergedAs, Repeated, f)
    <2>1. Repeated \in [WindowPairs \ (WindowPairs \ Repeats) -> WindowPairs]
      <3>1. WindowPairs \ (WindowPairs \ Repeats) = Repeats
        BY DEF Repeats
      <3>2. ASSUME NEW u \in Repeats PROVE Repeated[u] \in WindowPairs
        <4> DEFINE m == FixAll[<<u[1], u[2]>>]
        <4>1. Repeated[u] = SplitUp(m)
          BY DEF Repeated
        <4>2. u \in WindowPairs
          BY DEF Repeats
        <4>3. m \in Merges
          BY <4>2, PairIs, FixAllTyped
        <4> HIDE DEF m
        <4>4. m.a \in Seq(Nat) /\ m.b \in Seq(Nat)
          BY <4>3 DEF Merges
        <4> DEFINE i == FindFirstIssueIndex(m.a, m.b)
        <4>5. IssueOf(m.a, m.b, i)
          BY <4>4, FirstIssue
        <4> HIDE DEF i
        <4>6. CASE i = 0
          <5>1. SplitUp(m) = <<m.a, m.b>>
            BY <4>6 DEF SplitUp, i
          <5> QED
            BY <4>1, <4>4, <5>1 DEF WindowPairs
        <4>7. CASE i # 0
          <5>1. SplitUp(m) = <<Before(m.a, i), From(m.b, i)>>
            BY <4>7 DEF SplitUp, i
          <5>2. i \in 1..Len(m.a) + 1 /\ i \in 1..Len(m.b) + 1
            BY <4>4, <4>5, <4>7 DEF IssueOf
          <5>3. Before(m.a, i) \in Seq(Nat) /\ From(m.b, i) \in Seq(Nat)
            BY <4>4, <5>2, BeforeIs, FromIs
          <5> QED
            BY <4>1, <5>1, <5>3 DEF WindowPairs
        <4> QED
          BY <4>6, <4>7
      <3>3. Repeated = [u \in Repeats |-> Repeated[u]]
        BY DEF Repeated
      <3> QED
        BY <3>1, <3>2, <3>3
    <2>2. MergedAs \in [WindowPairs \ Repeats -> V]
      <3>1. MergedAs = [u \in WindowPairs \ Repeats |-> MergedAs[u]]
        BY DEF MergedAs
      <3> QED
        BY <3>1
    <2>3. V # {}
      OBVIOUS
    <2> HIDE DEF V
    <2> QED
      BY <2>1, <2>2, <2>3, LoopExists
  <1> HIDE DEF V
  <1>3. f = Turn(f)
    <2>1. \A u \in WindowPairs : f[u] = Dedup(u[1], u[2], f)
      BY <1>2, DedupIs DEF LoopOf
    <2>2. f = [u \in WindowPairs |-> f[u]]
      BY <1>2
    <2> QED
      BY <2>1, <2>2
  <1>4. DedupAgain = Turn(DedupAgain)
    <2> HIDE DEF Turn
    <2> QED
      BY <1>1, <1>3
  <1> QED
    BY <1>4

-----------------------------------------------------------------------------
(* Windows of a log: their lines are in order.                             *)
Increasing(s) == \A i, j \in 1..Len(s) : i < j => s[i] < s[j]
InCommon(x, y) == \E i \in 1..Len(x), j \in 1..Len(y) : x[i] = y[j]

\* A common line further on keeps the order.
LEMMA StitchInOrder ==
    ASSUME NEW x \in Seq(Nat), NEW y \in Seq(Nat), Increasing(x), Increasing(y),
           NEW i, i # 0, IssueOf(x, y, i),
           NEW o \in Nat, NEW d \in Nat, NEW s, StitchedAs(x, y, i, o, d, s), d # 0
    PROVE  Increasing(s)
  <1>1. Len(x) \in Nat /\ Len(y) \in Nat
    OBVIOUS
  <1>2. i \in 1..Len(x) /\ i \in 1..Len(y)
    BY <1>1 DEF IssueOf
  <1>3. o \in 1..Len(y) - i + 1 /\ s \in Seq(Nat) /\ Len(s) = Len(x) + o - d + 1
    BY DEF StitchedAs
  <1>4. i \in Nat /\ i >= 1 /\ o >= 1 /\ i + o <= Len(y) /\ y[i + o] = x[i + d - 1]
    BY <1>2, <1>3 DEF StitchedAs
  <1>5. \A k \in 1..i + o - 1 : s[k] = y[k] /\ k \in 1..Len(y)
    <2> TAKE k \in 1..i + o - 1
    <2>1. CASE k < i
      <3>1. k \in 1..i - 1
        BY <1>4, <2>1
      <3> QED
        BY <1>1, <1>4, <3>1 DEF StitchedAs, IssueOf
    <2>2. CASE ~ (k < i)
      <3>1. k \in i..i + o - 1
        BY <1>4, <2>2
      <3> QED
        <4>1. s[k] = y[k]
          BY <3>1 DEF StitchedAs
        <4>2. k \in 1..Len(y)
          BY <1>1, <1>4, <3>1
        <4> QED
          BY <4>1, <4>2
    <2> QED
      BY <2>1, <2>2
  <1>6. \A k \in i + o..Len(s) : s[k] = x[k - o + d - 1]
    BY DEF StitchedAs
  <1>7. \A k \in i + o..Len(s) : k - o + d - 1 \in 1..Len(x) /\ i + d - 1 <= k - o + d - 1 /\ i + d - 1 \in 1..Len(x)
    <2> TAKE k \in i + o..Len(s)
    <2>1. k \in Nat /\ i + o <= k /\ k <= Len(x) + o - d + 1
      BY <1>3, <1>4
    <2> QED
      BY <1>1, <1>4, <2>1
  <1>8. \A k \in 1..Len(x) : x[k] \in Nat
    OBVIOUS
  <1>9. \A k \in 1..Len(y) : y[k] \in Nat
    OBVIOUS
  <1>10. SUFFICES ASSUME NEW p \in 1..Len(s), NEW q \in 1..Len(s), p < q PROVE s[p] < s[q]
    BY DEF Increasing
  <1>11. p \in Nat /\ q \in Nat /\ p >= 1 /\ p <= Len(s) /\ q <= Len(s)
    BY <1>3
  <1>12. CASE q < i + o
    <2>1. p \in 1..i + o - 1 /\ q \in 1..i + o - 1
      BY <1>4, <1>10, <1>11, <1>12
    <2> QED
      BY <1>5, <1>10, <2>1 DEF Increasing
  <1>13. CASE p < i + o /\ ~ (q < i + o)
    <2>1. p \in 1..i + o - 1 /\ q \in i + o..Len(s) /\ i + o \in 1..Len(y)
      BY <1>1, <1>4, <1>11, <1>13
    <2>2. s[p] = y[p] /\ p \in 1..Len(y) /\ s[q] = x[q - o + d - 1]
      BY <1>5, <1>6, <2>1
    <2>3. y[p] < y[i + o]
      BY <1>13, <2>1, <2>2 DEF Increasing
    <2>4. y[i + o] <= x[q - o + d - 1]
      <3> DEFINE a == i + d - 1
                 b == q - o + d - 1
      <3>1. a \in 1..Len(x) /\ b \in 1..Len(x) /\ a <= b
        BY <1>7, <2>1
      <3>2. x[a] \in Nat /\ x[b] \in Nat
        BY <1>8, <3>1
      <3> HIDE DEF a, b
      <3>3. x[a] <= x[b]
        BY <3>1, <3>2 DEF Increasing
      <3> QED
        BY <1>4, <3>3 DEF a, b
    <2>5. y[p] \in Nat /\ y[i + o] \in Nat /\ x[q - o + d - 1] \in Nat
      BY <1>7, <1>8, <1>9, <2>1, <2>2
    <2> QED
      BY <2>2, <2>3, <2>4, <2>5
  <1>14. CASE ~ (p < i + o)
    <2>1. p \in i + o..Len(s) /\ q \in i + o..Len(s)
      BY <1>4, <1>10, <1>11, <1>14
    <2>2. p - o + d - 1 < q - o + d - 1
      BY <1>10, <1>11, <1>3
    <2>3. x[p - o + d - 1] < x[q - o + d - 1]
      BY <1>7, <2>1, <2>2 DEF Increasing
    <2> QED
      BY <1>6, <2>1, <2>3
  <1> QED
    BY <1>11, <1>4, <1>12, <1>13, <1>14

\* Without an issue, or one that can be fixed.
Sound(w) ==
    /\ w \in WindowPairs /\ w[1] # << >> /\ w[2] # << >>
    /\ Issue(w) # 0 => /\ Increasing(w[1]) /\ Increasing(w[2])
                       /\ Issue(w) = 1 => InCommon(w[1], w[2])

\* The next line of the other window that is not further on is missing.
LEMMA MissingLine ==
    ASSUME NEW x \in Seq(Nat), NEW y \in Seq(Nat), Increasing(x),
           NEW i \in 1..Len(x), i \in 1..Len(y), y[i] < x[i]
    PROVE  FindLineIndex(y[i], From(x, i)) = 0
  <1> DEFINE v == From(x, i)
             l == y[i]
             k == FindLineIndex(l, v)
  <1>0. i \in 1..Len(x) + 1
    OBVIOUS
  <1>1. v \in Seq(Nat) /\ Len(v) = Len(x) - i + 1 /\ \A j \in 1..Len(x) - i + 1 : v[j] = x[i + j - 1]
    BY <1>0, FromIs
  <1> HIDE DEF v
  <1>2. FoundIn(l, v, k)
    BY <1>1, FindLine
  <1>3. SUFFICES ASSUME k # 0 PROVE FALSE
    BY DEF v
  <1> HIDE DEF k
  <1>4. k \in 1..Len(x) - i + 1 /\ v[k] = l
    BY <1>1, <1>2, <1>3 DEF FoundIn
  <1>5. x[i + k - 1] = y[i] /\ i + k - 1 \in 1..Len(x) /\ i <= i + k - 1
    BY <1>1, <1>4
  <1>6. x[i] \in Nat /\ y[i] \in Nat /\ x[i + k - 1] \in Nat
    BY <1>5
  <1>7. x[i] <= x[i + k - 1]
    <2> DEFINE j == i + k - 1
    <2>1. j \in 1..Len(x) /\ i <= j /\ x[j] \in Nat
      BY <1>5, <1>6
    <2> HIDE DEF j
    <2>2. x[i] <= x[j]
      BY <1>6, <2>1 DEF Increasing
    <2> QED
      BY <2>2 DEF j
  <1> QED
    BY <1>5, <1>6, <1>7

\* Of windows with a common line, the head can be fixed.
LEMMA HeadStitches ==
    ASSUME NEW x \in Seq(Nat), NEW y \in Seq(Nat), NEW i, i \in 1..Len(x), i \in 1..Len(y),
           FindLineIndex(y[i], From(x, i)) = 0, i = 1 => InCommon(x, y)
    PROVE  ~ StitchPanics(x, y, i)
  <1> SUFFICES ASSUME i = 1, FindNextMatching(y, x).index = 0 PROVE FALSE
    BY DEF StitchPanics
  <1>1. From(x, i) = x
    BY DEF From
  <1>2. \A j \in 1..Len(x) : x[j] # y[1]
    BY <1>1, FindLine DEF FoundIn
  <1>3. Len(y) > 0
    OBVIOUS
  <1>4. NextIs(y, x, FindNextMatching(y, x).offset, FindNextMatching(y, x).index)
    BY <1>3, NextMatching
  <1>5. \A k \in 2..Len(y), j \in 1..Len(x) : y[k] # x[j]
    BY <1>4 DEF NextIs
  <1>6. PICK p \in 1..Len(x), q \in 1..Len(y) : x[p] = y[q]
    BY DEF InCommon
  <1>7. q = 1 \/ q \in 2..Len(y)
    OBVIOUS
  <1> QED
    BY <1>2, <1>5, <1>6, <1>7

\* Fixing two such windows, which can be done, leaves two such windows.
LEMMA SoundFixed ==
    ASSUME NEW w, Sound(w), Issue(w) # 0
    PROVE  w \in Fixable /\ Sound(Fixed[w])
  <1> DEFINE i == Issue(w)
             x == w[1]
             y == w[2]
  <1>1. /\ w \in WindowPairs /\ x # << >> /\ y # << >> /\ Increasing(x) /\ Increasing(y)
        /\ i = 1 => InCommon(x, y)
    BY DEF Sound
  <1>2. /\ x \in Seq(Nat) /\ y \in Seq(Nat) /\ i \in 1..Len(x) /\ i \in 1..Len(y)
        /\ IssueOf(x, y, i)
    BY <1>1, PairIs
  <1>3. x[i] # y[i] /\ x[i] \in Nat /\ y[i] \in Nat
    <2> HIDE DEF i, x, y
    <2>1. i # 0
      BY DEF i
    <2> QED
      BY <1>2, <2>1 DEF IssueOf
  <1>4. i = 1 => InCommon(y, x)
    BY <1>1 DEF InCommon
  <1>5. FixesFirst(w) \/ FixesSecond(w)
    <2>1. CASE y[i] < x[i]
      <3>1. FindLineIndex(y[i], From(x, i)) = 0
        <4> HIDE DEF i, x, y
        <4> QED
          BY <1>1, <1>2, <2>1, MissingLine
      <3> QED
        BY <3>1 DEF FixesFirst
    <2>2. CASE x[i] < y[i]
      <3>1. FindLineIndex(x[i], From(y, i)) = 0
        <4> HIDE DEF i, x, y
        <4> QED
          BY <1>1, <1>2, <2>2, MissingLine
      <3> QED
        BY <3>1 DEF FixesSecond
    <2> HIDE DEF i, x, y
    <2> QED
      BY <1>3, <2>1, <2>2
  <1>6. w \in Fixable
    <2>1. CASE FixesFirst(w)
      <3>1. FindLineIndex(y[i], From(x, i)) = 0
        BY <2>1 DEF FixesFirst
      <3>2. ~ StitchPanics(x, y, i)
        <4> HIDE DEF i, x, y
        <4> QED
          BY <1>1, <1>2, <3>1, HeadStitches
      <3> QED
        BY <1>1, <2>1, <3>2 DEF Fixable
    <2>2. CASE FixesSecond(w)
      <3>1. FindLineIndex(x[i], From(y, i)) = 0
        BY <2>2 DEF FixesSecond
      <3>2. ~ StitchPanics(y, x, i)
        <4> HIDE DEF i, x, y
        <4> QED
          BY <1>2, <1>4, <3>1, HeadStitches
      <3> QED
        BY <1>1, <2>2, <3>2 DEF Fixable
    <2> QED
      BY <1>5, <2>1, <2>2
  <1>7. Fixed[w] \in WindowPairs /\ Issue(Fixed[w]) # 1
    BY <1>6, FixedIs
  <1>8. Sound(Fixed[w])
    <2>1. CASE FixesFirst(w)
      <3> DEFINE s == Fixed[w][1]
      <3>1. Fixed[w][2] = y
        BY <1>6, <2>1, FixedIs
      <3>2. PICK o \in Nat, d \in Nat : StitchedAs(x, y, i, o, d, s)
        BY <1>6, <2>1, FixedIs
      <3>3. s \in Seq(Nat) /\ IssueOf(s, y, Issue(Fixed[w]))
        BY <1>7, <3>1, PairIs
      <3> HIDE DEF s, x, y, i
      <3>4. i # 0
        BY DEF i
      <3>5. s # << >>
        <4>1. o \in 1..Len(y) - i + 1 /\ d \in 0..Len(x) - i + 1 /\ Len(s) = Len(x) + o - d + 1
          BY <3>2 DEF StitchedAs
        <4>2. Len(s) > 0
          BY <1>2, <4>1
        <4> QED
          BY <4>2
      <3>6. Issue(Fixed[w]) # 0 => Increasing(s)
        <4> SUFFICES ASSUME Issue(Fixed[w]) # 0 PROVE Increasing(s)
          OBVIOUS
        <4>1. d # 0
          BY <1>2, <3>2, <3>3, <3>4, StitchHelps
        <4> QED
          BY <1>1, <1>2, <3>2, <3>4, <4>1, StitchInOrder
      <3> QED
        BY <1>1, <1>7, <3>1, <3>5, <3>6 DEF Sound, s
    <2>2. CASE ~ FixesFirst(w)
      <3> DEFINE s == Fixed[w][2]
      <3>1. Fixed[w][1] = x
        BY <1>6, <2>2, FixedIs
      <3>2. PICK o \in Nat, d \in Nat : StitchedAs(y, x, i, o, d, s)
        BY <1>6, <2>2, FixedIs
      <3>3. s \in Seq(Nat) /\ IssueOf(x, s, Issue(Fixed[w]))
        BY <1>7, <3>1, PairIs
      <3> HIDE DEF s, x, y, i
      <3>4. i # 0
        BY DEF i
      <3>7. IssueOf(s, x, Issue(Fixed[w])) /\ IssueOf(y, x, i)
        BY <1>2, <3>3 DEF IssueOf
      <3>5. s # << >>
        <4>1. o \in 1..Len(x) - i + 1 /\ d \in 0..Len(y) - i + 1 /\ Len(s) = Len(y) + o - d + 1
          BY <3>2 DEF StitchedAs
        <4>2. Len(s) > 0
          BY <1>2, <4>1
        <4> QED
          BY <4>2
      <3>6. Issue(Fixed[w]) # 0 => Increasing(s)
        <4> SUFFICES ASSUME Issue(Fixed[w]) # 0 PROVE Increasing(s)
          OBVIOUS
        <4>1. d # 0
          BY <1>2, <3>2, <3>3, <3>4, <3>7, StitchHelps
        <4> QED
          BY <1>1, <1>2, <3>2, <3>4, <3>7, <4>1, StitchInOrder
      <3> QED
        BY <1>1, <1>7, <3>1, <3>5, <3>6 DEF Sound, s
    <2> QED
      BY <2>1, <2>2
  <1> QED
    BY <1>6, <1>8

\* The windows are fixed, with nothing left to fix.
Mended(m) ==
    /\ m.panics = FALSE /\ m.a \in Seq(Nat) /\ m.b \in Seq(Nat) /\ m.a # << >> /\ m.b # << >>
    /\ FindFirstIssueIndex(m.a, m.b) = 0

\* The loop mends windows that can be fixed.
LEMMA FixMends ==
    ASSUME NEW u, Sound(u)
    PROVE  Mended(FixAll[u])
  <1> DEFINE Bad == {w \in WindowPairs : Sound(w) /\ ~ Mended(FixAll[w])}
             Sizes == {Todo(w) : w \in Bad}
  <1>0. u \in WindowPairs
    BY DEF Sound
  <1> SUFFICES ASSUME Bad # {} PROVE FALSE
    BY <1>0
  <1>1. Sizes \subseteq Nat /\ Sizes # {}
    BY PairIs
  <1>2. PICK m \in Sizes : \A n \in Sizes : m <= n
    <2> HIDE DEF Sizes
    <2> QED
      BY <1>1, LeastNatural
  <1>3. PICK w \in Bad : m = Todo(w)
    BY <1>2
  <1>4. Issue(w) # 0
    <2> SUFFICES ASSUME Issue(w) = 0 PROVE FALSE
      OBVIOUS
    <2>1. ~ FixesFirst(w) /\ ~ FixesSecond(w)
      BY DEF FixesFirst, FixesSecond
    <2>2. w \in WindowPairs \ Fixable
      BY <2>1 DEF Fixable
    <2>3. FixAll[w] = Merged(w[1], w[2])
      BY <2>1, <2>2, FixAllTurns DEF LeftAs
    <2>4. FixAll[w].a = w[1] /\ FixAll[w].b = w[2] /\ FixAll[w].panics = FALSE
      BY <2>3 DEF Merged
    <2>5. w[1] \in Seq(Nat) /\ w[2] \in Seq(Nat)
      BY <2>2, PairIs
    <2>6. Mended(FixAll[w])
      BY <2>4, <2>5 DEF Mended, Sound, Issue
    <2> QED
      BY <2>6
  <1>5. w \in Fixable /\ Sound(Fixed[w])
    BY <1>4, SoundFixed
  <1>6. FixAll[w] = FixAll[Fixed[w]]
    BY <1>5, FixAllTurns
  <1>7. Fixed[w] \in WindowPairs /\ Todo(Fixed[w]) < Todo(w)
    BY <1>5, FixedIs
  <1>8. Fixed[w] \in Bad
    BY <1>5, <1>6, <1>7
  <1>9. Todo(w) <= Todo(Fixed[w])
    BY <1>2, <1>3, <1>8
  <1>10. Todo(w) \in Nat /\ Todo(Fixed[w]) \in Nat
    BY <1>7, PairIs
  <1> QED
    BY <1>7, <1>9, <1>10

\* Two windows that start alike and agree are one: the first is dropped.
LEMMA MendedMerges ==
    ASSUME NEW m, Mended(m)
    PROVE  DedupAgain[<<m.a, m.b>>] = Merged(<< >>, m.b)
  <1> DEFINE w == <<m.a, m.b>>
             a == m.a
             b == m.b
             first == FindLineIndex(b[1], a)
  <1>1. a \in Seq(Nat) /\ b \in Seq(Nat) /\ a # << >> /\ b # << >> /\ FindFirstIssueIndex(a, b) = 0
    BY DEF Mended
  <1>2. w \in WindowPairs /\ w[1] = a /\ w[2] = b
    BY <1>1 DEF WindowPairs
  <1>3. DedupAgain[w] = Dedup(a, b, DedupAgain)
    BY <1>2, DedupAgainTurns
  <1> HIDE DEF a, b, w
  <1>4. 1 \in 1..Len(a) /\ 1 \in 1..Len(b)
    BY <1>1
  <1>5. a[1] = b[1]
    <2>1. IssueOf(a, b, 0)
      BY <1>1, FirstIssue
    <2>2. 1 <= Len(b)
      BY <1>1, <1>4
    <2> QED
      BY <1>4, <2>1, <2>2 DEF IssueOf
  <1>6. first = 1
    <2>1. FoundIn(b[1], a, first)
      BY <1>1, FindLine
    <2> HIDE DEF first
    <2>2. first # 0
      BY <1>4, <1>5, <2>1 DEF FoundIn
    <2>3. ~ (1 \in 1..first - 1)
      BY <1>5, <2>1 DEF FoundIn
    <2>4. first \in 0..Len(a) /\ Len(a) \in Nat
      BY <1>1, <2>1 DEF FoundIn
    <2> QED
      BY <2>2, <2>3, <2>4
  <1>7. From(a, 1) = a /\ Before(a, 1) = << >>
    BY <1>1 DEF From, Before
  <1>8. Dedup(a, b, DedupAgain) = Merged(<< >>, b)
    BY <1>1, <1>6, <1>7 DEF Dedup
  <1> QED
    BY <1>3, <1>8 DEF a, b, w

\* Overlapping windows are mended, and the second one is the result.
LEMMA OverlapMends ==
    ASSUME NEW a \in Seq(Nat), NEW b \in Seq(Nat), a # << >>, b # << >>,
           Increasing(a), Increasing(b), InCommon(a, b), Overlapping(a, b)
    PROVE  /\ Sound(<<a, b>>) /\ Mended(FixAll[<<a, b>>])
           /\ DedupAB(a, b) = Merged(<< >>, FixAll[<<a, b>>].b)
  <1> DEFINE w == <<a, b>>
             m == FixAll[w]
  <1>1. w \in WindowPairs /\ w[1] = a /\ w[2] = b
    BY DEF WindowPairs
  <1>2. Sound(w)
    BY <1>1 DEF Sound
  <1>3. Mended(m)
    BY <1>2, FixMends
  <1>4. DedupAB(a, b) = DedupAgain[SplitUp(m)]
    <2>1. m.panics = FALSE
      BY <1>3 DEF Mended
    <2> HIDE DEF m
    <2>2. DedupAB(a, b) = Dedup(a, b, DedupAgain)
      BY DEF DedupAB
    <2>3. Dedup(a, b, DedupAgain) = IF m.panics THEN Panic ELSE DedupAgain[SplitUp(m)]
      BY OverlapHandled DEF m, w
    <2> QED
      BY <2>1, <2>2, <2>3
  <1> HIDE DEF m
  <1>5. SplitUp(m) = <<m.a, m.b>>
    BY <1>3 DEF Mended, SplitUp
  <1>6. DedupAB(a, b) = Merged(<< >>, m.b)
    BY <1>3, <1>4, <1>5, MendedMerges
  <1> QED
    BY <1>2, <1>3, <1>6 DEF m, w

\* Windows that need no repair: what is left of the first.
LEMMA ApartMerges ==
    ASSUME NEW a \in Seq(Nat), NEW b \in Seq(Nat), a # << >>, b # << >>, ~ Overlapping(a, b)
    PROVE  DedupAB(a, b) = IF FindLineIndex(b[1], a) = 0 THEN Merged(a, b)
                           ELSE Merged(Before(a, FindLineIndex(b[1], a)), b)
  <1> DEFINE first == FindLineIndex(b[1], a)
  <1>1. ~ (/\ first = 0 => a # << >> /\ FindLineIndex(Last(a), b) # 0
           /\ first # 0 => FindFirstIssueIndex(From(a, first), b) # 0)
    BY DEF Overlapping
  <1>2. DedupAB(a, b) =
          IF b = << >> THEN Panic
          ELSE IF first = 0 /\ a = << >> THEN Panic
          ELSE IF first = 0 /\ FindLineIndex(Last(a), b) = 0 THEN Merged(a, b)
          ELSE IF first = 0 \/ FindFirstIssueIndex(From(a, first), b) # 0
               THEN HandleIncompleteOverlap(a, b, DedupAgain)
          ELSE Merged(Before(a, first), b)
    BY DEF DedupAB, Dedup
  <1> HIDE DEF first
  <1> QED
    BY <1>1, <1>2 DEF first

\* Overlapping windows have a line in common.
LEMMA OverlapInCommon ==
    ASSUME NEW a \in Seq(Nat), NEW b \in Seq(Nat), a # << >>, Overlapping(a, b)
    PROVE  InCommon(a, b)
  <1> DEFINE first == FindLineIndex(b[1], a)
             last == FindLineIndex(Last(a), b)
  <1>1. b # << >> /\ (first = 0 => last # 0)
    BY DEF Overlapping
  <1>2. 1 \in 1..Len(b) /\ Len(a) \in 1..Len(a) /\ Last(a) = a[Len(a)]
    BY <1>1 DEF Last
  <1>3. FoundIn(b[1], a, first) /\ FoundIn(Last(a), b, last)
    BY FindLine
  <1> HIDE DEF first, last
  <1>4. CASE first # 0
    <2>1. first \in 1..Len(a) /\ a[first] = b[1]
      BY <1>3, <1>4 DEF FoundIn
    <2> QED
      BY <1>2, <2>1 DEF InCommon
  <1>5. CASE first = 0
    <2>1. last \in 1..Len(b) /\ b[last] = a[Len(a)]
      BY <1>1, <1>2, <1>3, <1>5 DEF FoundIn
    <2> QED
      BY <1>2, <2>1 DEF InCommon
  <1> QED
    BY <1>4, <1>5

\* No two windows make the merge run out of range.
LEMMA MergeIsSafe ==
    ASSUME NEW a \in Seq(Nat), NEW b \in Seq(Nat), a # << >>, b # << >>, Increasing(a), Increasing(b)
    PROVE  DedupAB(a, b).panics = FALSE
  <1>1. CASE Overlapping(a, b)
    <2>1. InCommon(a, b)
      BY <1>1, OverlapInCommon
    <2>2. DedupAB(a, b) = Merged(<< >>, FixAll[<<a, b>>].b)
      BY <1>1, <2>1, OverlapMends
    <2> QED
      BY <2>2 DEF Merged
  <1>2. CASE ~ Overlapping(a, b)
    <2>1. \/ DedupAB(a, b) = Merged(a, b)
          \/ DedupAB(a, b) = Merged(Before(a, FindLineIndex(b[1], a)), b)
      BY <1>2, ApartMerges
    <2> QED
      BY <2>1 DEF Merged
  <1> QED
    BY <1>1, <1>2

-----------------------------------------------------------------------------
(* Windows with gaps: what is merged keeps the lines of both.              *)

\* s has the line l, and the last line of s.
In(l, s) == \E k \in 1..Len(s) : s[k] = l
Latest(s) == s[Len(s)]

\* Between two lines that one window has and the other has not, either way
\* round, there is one that both have.
NoCrossing(x, y) ==
    \A l, m \in Nat :
        In(l, x) /\ ~ In(l, y) /\ In(m, y) /\ ~ In(m, x) /\ m < Latest(x)
            => \E c \in Nat : In(c, x) /\ In(c, y) /\ ((l < c /\ c < m) \/ (m < c /\ c < l))
GapsApart(w) ==
    /\ w \in WindowPairs /\ w[1] # << >> /\ w[2] # << >> /\ Increasing(w[1]) /\ Increasing(w[2])
    /\ In(Latest(w[1]), w[2]) /\ NoCrossing(w[1], w[2])

\* A line that is not further on is nowhere.
LEMMA MissingEverywhere ==
    ASSUME NEW x \in Seq(Nat), NEW y \in Seq(Nat), Increasing(y),
           NEW i, IssueOf(x, y, i), i # 0, FindLineIndex(y[i], From(x, i)) = 0
    PROVE  ~ In(y[i], x)
  <1>1. i \in 1..Len(x) /\ i \in 1..Len(y) /\ i \in Nat
    BY DEF IssueOf
  <1>2. SUFFICES ASSUME NEW k \in 1..Len(x), x[k] = y[i] PROVE FALSE
    BY DEF In
  <1>3. CASE k < i
    <2>1. k \in 1..i - 1 /\ k \in 1..Len(y)
      BY <1>1, <1>3
    <2>2. x[k] = y[k]
      BY <2>1 DEF IssueOf
    <2>3. y[k] < y[i] /\ y[k] \in Nat /\ y[i] \in Nat
      BY <1>1, <1>3, <2>1 DEF Increasing
    <2> QED
      BY <1>2, <2>2, <2>3
  <1>4. CASE ~ (k < i)
    <2>0. i \in 1..Len(x) + 1
      BY <1>1
    <2>1. From(x, i) \in Seq(Nat) /\ Len(From(x, i)) = Len(x) - i + 1
          /\ \A j \in 1..Len(x) - i + 1 : From(x, i)[j] = x[i + j - 1]
      BY <2>0, FromIs
    <2>2. \A j \in 1..Len(x) - i + 1 : From(x, i)[j] # y[i]
      BY <2>1, FindLine DEF FoundIn
    <2>3. k - i + 1 \in 1..Len(x) - i + 1 /\ i + (k - i + 1) - 1 = k
      BY <1>1, <1>4
    <2> QED
      BY <1>2, <2>1, <2>2, <2>3
  <1> QED
    BY <1>3, <1>4

\* Of an issue between such windows, one line is in both.
LEMMA OtherInBoth ==
    ASSUME NEW x \in Seq(Nat), NEW y \in Seq(Nat), Increasing(x), Increasing(y),
           In(Latest(x), y), NoCrossing(x, y),
           NEW i, IssueOf(x, y, i), i # 0, ~ In(y[i], x)
    PROVE  In(x[i], y)
  <1>1. i \in 1..Len(x) /\ i \in 1..Len(y) /\ i \in Nat /\ Len(x) \in Nat /\ Len(x) \in 1..Len(x)
    BY DEF IssueOf
  <1>2. SUFFICES ASSUME ~ In(x[i], y) PROVE FALSE
    OBVIOUS
  <1>3. x[i] \in Nat /\ y[i] \in Nat /\ In(x[i], x) /\ In(y[i], y) /\ Latest(x) \in Nat
        /\ Latest(x) = x[Len(x)]
    BY <1>1 DEF In, Latest
  <1>4. y[i] < Latest(x)
    <2> SUFFICES ASSUME ~ (y[i] < Latest(x)) PROVE FALSE
      OBVIOUS
    <2>1. y[i] # Latest(x)
      BY <1>1, <1>3 DEF In
    <2>2. PICK k \in 1..Len(y) : y[k] = Latest(x)
      BY DEF In
    <2>3. k < i
      <3>1. y[k] < y[i]
        BY <1>3, <2>1, <2>2
      <3>2. ~ (i < k) /\ i # k
        BY <1>1, <1>3, <3>1, <2>2 DEF Increasing
      <3> QED
        BY <1>1, <3>2
    <2>4. k \in 1..i - 1 /\ k \in 1..Len(x) /\ k < Len(x)
      BY <1>1, <2>3
    <2>5. x[k] = y[k]
      BY <2>4 DEF IssueOf
    <2>6. x[k] < x[Len(x)] /\ x[k] \in Nat
      BY <1>1, <2>4 DEF Increasing
    <2> QED
      BY <1>3, <2>2, <2>5, <2>6
  <1>5. PICK c \in Nat : In(c, x) /\ In(c, y) /\ ((x[i] < c /\ c < y[i]) \/ (y[i] < c /\ c < x[i]))
    BY <1>2, <1>3, <1>4 DEF NoCrossing
  <1>6. CASE x[i] < c /\ c < y[i]
    <2>1. PICK r \in 1..Len(y) : y[r] = c
      BY <1>5 DEF In
    <2>2. r < i
      <3>1. ~ (i < r) /\ i # r
        BY <1>1, <1>3, <1>6, <2>1 DEF Increasing
      <3> QED
        BY <1>1, <3>1
    <2>3. r \in 1..i - 1 /\ r \in 1..Len(x)
      BY <1>1, <2>2
    <2>4. x[r] = c
      BY <2>1, <2>3 DEF IssueOf
    <2>5. x[r] < x[i]
      BY <1>1, <2>2, <2>3 DEF Increasing
    <2> QED
      BY <1>3, <1>6, <2>4, <2>5
  <1>7. CASE y[i] < c /\ c < x[i]
    <2>1. PICK p \in 1..Len(x) : x[p] = c
      BY <1>5 DEF In
    <2>2. p < i
      <3>1. ~ (i < p) /\ i # p
        BY <1>1, <1>3, <1>7, <2>1 DEF Increasing
      <3> QED
        BY <1>1, <3>1
    <2>3. p \in 1..i - 1 /\ p \in 1..Len(y)
      BY <1>1, <2>2
    <2>4. y[p] = c
      BY <2>1, <2>3 DEF IssueOf
    <2>5. y[p] < y[i]
      BY <1>1, <2>2, <2>3 DEF Increasing
    <2> QED
      BY <1>3, <1>7, <2>4, <2>5
  <1> QED
    BY <1>5, <1>6, <1>7

\* Then the missing lines go in before that one, and none of x goes out.
LEMMA NextIsNext ==
    ASSUME NEW x \in Seq(Nat), NEW y \in Seq(Nat), Increasing(x), Increasing(y),
           NEW i, IssueOf(x, y, i), i # 0, In(x[i], y),
           NEW o \in Nat, NEW d \in Nat, NEW s, StitchedAs(x, y, i, o, d, s)
    PROVE  d = 1
  <1>1. i \in 1..Len(x) /\ i \in 1..Len(y) /\ i \in Nat /\ Len(x) \in Nat /\ Len(y) \in Nat
    BY DEF IssueOf
  <1>2. PICK r \in 1..Len(y) : y[r] = x[i]
    BY DEF In
  <1>3. r > i
    <2>1. r # i
      BY <1>2 DEF IssueOf
    <2>2. ~ (r < i)
      <3> SUFFICES ASSUME r < i PROVE FALSE
        OBVIOUS
      <3>1. r \in 1..i - 1 /\ r \in 1..Len(x)
        BY <1>1
      <3>2. x[r] = y[r] /\ x[r] < x[i] /\ x[r] \in Nat /\ x[i] \in Nat
        BY <1>1, <3>1 DEF IssueOf, Increasing
      <3> QED
        BY <1>2, <3>2
    <2> QED
      BY <1>1, <2>1, <2>2
  <1>4. o \in 1..Len(y) - i + 1 /\ d \in 0..Len(x) - i + 1
    BY DEF StitchedAs
  <1>5. i + o <= r
    <2> SUFFICES ASSUME ~ (i + o <= r) PROVE FALSE
      OBVIOUS
    <2>1. r \in i + 1..i + o - 1 /\ i \in i..Len(x)
      BY <1>1, <1>3
    <2>2. y[r] # x[i]
      BY <2>1 DEF StitchedAs
    <2> QED
      BY <1>2, <2>2
  <1>6. d # 0
    <2> SUFFICES ASSUME d = 0 PROVE FALSE
      OBVIOUS
    <2>1. o = Len(y) - i + 1
      BY DEF StitchedAs
    <2> QED
      BY <1>1, <1>5, <2>1
  <1>7. i + o <= Len(y) /\ y[i + o] = x[i + d - 1]
    BY <1>6 DEF StitchedAs
  <1>8. i + o \in 1..Len(y) /\ i + d - 1 \in 1..Len(x)
    BY <1>1, <1>4, <1>6, <1>7
  <1>9. y[i + o] <= y[r]
    <2> DEFINE j == i + o
    <2>1. j \in 1..Len(y) /\ j <= r
      BY <1>5, <1>8
    <2> HIDE DEF j
    <2>3. y[j] \in Nat /\ y[r] \in Nat
      BY <2>1
    <2>2. y[j] <= y[r]
      BY <2>1, <2>3 DEF Increasing
    <2> QED
      BY <2>2 DEF j
  <1>10. ~ (i < i + d - 1)
    <2> SUFFICES ASSUME i < i + d - 1 PROVE FALSE
      OBVIOUS
    <2>1. x[i] < x[i + d - 1]
      BY <1>1, <1>8 DEF Increasing
    <2> DEFINE j == i + d - 1
    <2>2. j \in 1..Len(x)
      BY <1>8
    <2> HIDE DEF j
    <2>3. x[i] \in Nat /\ x[j] \in Nat
      BY <1>1, <2>2
    <2>4. x[i] < x[j] /\ x[j] <= x[i]
      BY <1>2, <1>7, <1>9, <2>1 DEF j
    <2> QED
      BY <2>3, <2>4
  <1> QED
    BY <1>1, <1>4, <1>6, <1>10

\* Putting lines of y into x, in the place of none, loses none and keeps the
\* last.
LEMMA StitchedLines ==
    ASSUME NEW x \in Seq(Nat), NEW y \in Seq(Nat), NEW i, IssueOf(x, y, i), i # 0,
           NEW o \in Nat, NEW s, StitchedAs(x, y, i, o, 1, s)
    PROVE  /\ \A l : In(l, s) => In(l, x) \/ In(l, y)
           /\ \A l : In(l, x) => In(l, s)
           /\ Latest(s) = Latest(x)
  <1>1. i \in 1..Len(x) /\ i \in 1..Len(y) /\ i \in Nat /\ Len(x) \in Nat /\ Len(y) \in Nat
    BY DEF IssueOf
  <1>2. /\ o \in 1..Len(y) - i + 1 /\ s \in Seq(Nat) /\ Len(s) = Len(x) + o - 1 + 1
        /\ \A k \in 1..i - 1 : s[k] = x[k]
        /\ \A k \in i..i + o - 1 : s[k] = y[k]
        /\ \A k \in i + o..Len(s) : s[k] = x[k - o + 1 - 1]
    BY DEF StitchedAs
  <1>3. Len(s) = Len(x) + o /\ o >= 1 /\ \A k \in i + o..Len(x) + o : s[k] = x[k - o]
    <2>1. Len(s) = Len(x) + o /\ o >= 1
      BY <1>1, <1>2
    <2>2. \A k \in i + o..Len(x) + o : k - o + 1 - 1 = k - o
      BY <1>1
    <2> QED
      BY <1>2, <2>1, <2>2
  <1>4. ASSUME NEW l, In(l, s) PROVE In(l, x) \/ In(l, y)
    <2>1. PICK k \in 1..Len(x) + o : s[k] = l
      BY <1>3, <1>4 DEF In
    <2>2. CASE k < i
      <3>1. k \in 1..i - 1 /\ k \in 1..Len(x)
        BY <1>1, <2>2
      <3> QED
        BY <1>2, <2>1, <3>1 DEF In
    <2>3. CASE ~ (k < i) /\ k < i + o
      <3>1. k \in i..i + o - 1 /\ k \in 1..Len(y)
        BY <1>1, <1>2, <2>3
      <3> QED
        BY <1>2, <2>1, <3>1 DEF In
    <2>4. CASE ~ (k < i + o)
      <3>1. k \in i + o..Len(x) + o /\ k - o \in 1..Len(x)
        BY <1>1, <2>4
      <3> QED
        BY <1>3, <2>1, <3>1 DEF In
    <2> QED
      BY <1>1, <2>2, <2>3, <2>4
  <1>5. ASSUME NEW l, In(l, x) PROVE In(l, s)
    <2>1. PICK k \in 1..Len(x) : x[k] = l
      BY <1>5 DEF In
    <2>2. CASE k < i
      <3>1. k \in 1..i - 1 /\ k \in 1..Len(s)
        BY <1>1, <1>3, <2>2
      <3> QED
        BY <1>2, <2>1, <3>1 DEF In
    <2>3. CASE ~ (k < i)
      <3>1. k + o \in i + o..Len(x) + o /\ k + o \in 1..Len(s) /\ k + o - o = k
        BY <1>1, <1>3, <2>3
      <3>2. s[k + o] = x[k]
        BY <1>3, <3>1
      <3> QED
        BY <2>1, <3>1, <3>2 DEF In
    <2> QED
      BY <2>2, <2>3
  <1>6. Latest(s) = Latest(x)
    <2>1. Len(x) + o \in i + o..Len(x) + o /\ Len(x) + o - o = Len(x)
      BY <1>1
    <2> QED
      BY <1>3, <2>1 DEF Latest
  <1> QED
    BY <1>4, <1>5, <1>6

\* The lines of s are those of x and those of y.
LinesOf(s, x, y) == \A l : In(l, s) <=> In(l, x) \/ In(l, y)

\* An issue is one whichever window comes first.
LEMMA IssueOfEitherWay ==
    ASSUME NEW x, NEW y, NEW i, IssueOf(x, y, i)
    PROVE  IssueOf(y, x, i)
  <1>1. ASSUME i # 0 PROVE y[i] # x[i] /\ \A k \in 1..i - 1 : y[k] = x[k]
    BY <1>1 DEF IssueOf
  <1>2. ASSUME i = 0, NEW k \in 1..Len(y), k <= Len(x) PROVE y[k] = x[k]
    <2>1. k \in 1..Len(x) /\ k <= Len(y)
      BY <1>2
    <2>2. \A j \in 1..Len(x) : j <= Len(y) => x[j] = y[j]
      BY <1>2 DEF IssueOf
    <2> QED
      BY <2>1, <2>2
  <1>3. i \in 0..Len(x) /\ i \in 0..Len(y)
    BY DEF IssueOf
  <1> QED
    BY <1>1, <1>2, <1>3 DEF IssueOf

\* Windows whose gaps are apart can be fixed.
LEMMA ApartIsSound ==
    ASSUME NEW w, GapsApart(w)
    PROVE  Sound(w)
  <1>1. w \in WindowPairs /\ w[1] # << >> /\ w[2] # << >> /\ Increasing(w[1]) /\ Increasing(w[2])
        /\ In(Latest(w[1]), w[2]) /\ w[1] \in Seq(Nat)
    BY PairIs DEF GapsApart
  <1>2. Len(w[1]) \in 1..Len(w[1])
    BY <1>1
  <1>3. InCommon(w[1], w[2])
    BY <1>1, <1>2 DEF In, Latest, InCommon
  <1> QED
    BY <1>1, <1>3 DEF Sound

\* What a call of fixLines does to the one window, for either one.
LEMMA StitchFills ==
    ASSUME NEW x \in Seq(Nat), NEW y \in Seq(Nat), Increasing(x), Increasing(y),
           NEW i, IssueOf(x, y, i), i # 0, In(x[i], y),
           NEW o \in Nat, NEW d \in Nat, NEW s, StitchedAs(x, y, i, o, d, s)
    PROVE  /\ s \in Seq(Nat) /\ s # << >> /\ Increasing(s)
           /\ \A l : In(l, s) => In(l, x) \/ In(l, y)
           /\ \A l : In(l, x) => In(l, s)
           /\ Latest(s) = Latest(x)
  <1>1. d = 1
    BY NextIsNext
  <1>2. StitchedAs(x, y, i, o, 1, s)
    BY <1>1
  <1>3. Increasing(s)
    BY <1>1, StitchInOrder
  <1>4. s \in Seq(Nat)
    BY DEF StitchedAs
  <1>5. /\ \A l : In(l, s) => In(l, x) \/ In(l, y)
        /\ \A l : In(l, x) => In(l, s)
        /\ Latest(s) = Latest(x)
    BY <1>2, StitchedLines
  <1>6. s # << >>
    <2>1. i \in 1..Len(x)
      BY DEF IssueOf
    <2>2. In(x[i], s)
      BY <1>5, <2>1 DEF In
    <2> QED
      BY <2>2 DEF In
  <1> QED
    BY <1>3, <1>4, <1>5, <1>6

\* A call of fixLines keeps the gaps apart and all lines of the two windows.
LEMMA GapsApartFixed ==
    ASSUME NEW w, GapsApart(w), Issue(w) # 0
    PROVE  /\ w \in Fixable /\ GapsApart(Fixed[w])
           /\ \A l : In(l, Fixed[w][1]) \/ In(l, Fixed[w][2]) <=> In(l, w[1]) \/ In(l, w[2])
  <1> DEFINE x == w[1]
             y == w[2]
             i == Issue(w)
  <1>1. /\ w \in WindowPairs /\ x # << >> /\ y # << >> /\ Increasing(x) /\ Increasing(y)
        /\ In(Latest(x), y) /\ NoCrossing(x, y)
    BY DEF GapsApart
  <1>2. Sound(w) /\ w \in Fixable
    BY ApartIsSound, SoundFixed
  <1>3. x \in Seq(Nat) /\ y \in Seq(Nat) /\ IssueOf(x, y, i) /\ i # 0
    BY <1>1, PairIs
  <1>4. Fixed[w] \in WindowPairs
    BY <1>2, FixedIs
  <1>5. i \in 1..Len(x) /\ i \in 1..Len(y)
    BY <1>3 DEF IssueOf
  <1>6. CASE FixesFirst(w)
    <2>1. Fixed[w] = <<Stitch(x, y, i), y>>
      BY <1>2, <1>6, FixedIs
    <2>2. PICK o \in Nat, d \in Nat : StitchedAs(x, y, i, o, d, Fixed[w][1])
      BY <1>2, <1>6, FixedIs
    <2>3. FindLineIndex(y[i], From(x, i)) = 0
      BY <1>6 DEF FixesFirst
    <2> DEFINE s == Fixed[w][1]
    <2>4. Fixed[w][2] = y
      BY <2>1
    <2> HIDE DEF x, y, i
    <2>5. ~ In(y[i], x)
      BY <1>1, <1>3, <2>3, MissingEverywhere
    <2>6. In(x[i], y)
      BY <1>1, <1>3, <2>5, OtherInBoth
    <2>7. StitchedAs(x, y, i, o, d, s)
      BY <2>2
    <2> HIDE DEF s
    <2>8. /\ s \in Seq(Nat) /\ s # << >> /\ Increasing(s)
          /\ \A l : In(l, s) => In(l, x) \/ In(l, y)
          /\ \A l : In(l, x) => In(l, s)
          /\ Latest(s) = Latest(x)
      BY <1>1, <1>3, <2>6, <2>7, StitchFills
    <2>9. NoCrossing(s, y)
      <3> SUFFICES ASSUME NEW l \in Nat, NEW m \in Nat, In(l, s), ~ In(l, y), In(m, y), ~ In(m, s),
                          m < Latest(s)
                   PROVE  \E c \in Nat : In(c, s) /\ In(c, y) /\ ((l < c /\ c < m) \/ (m < c /\ c < l))
        BY DEF NoCrossing
      <3>1. In(l, x) /\ ~ In(m, x) /\ m < Latest(x)
        BY <2>8
      <3>2. PICK c \in Nat : In(c, x) /\ In(c, y) /\ ((l < c /\ c < m) \/ (m < c /\ c < l))
        BY <1>1, <3>1 DEF NoCrossing
      <3> QED
        BY <2>8, <3>2
    <2>10. GapsApart(Fixed[w])
      BY <1>1, <1>4, <2>4, <2>8, <2>9 DEF GapsApart, s
    <2>11. \A l : In(l, s) \/ In(l, y) <=> In(l, x) \/ In(l, y)
      BY <2>8
    <2> QED
      BY <1>2, <2>4, <2>10, <2>11 DEF s, x, y
  <1>7. CASE ~ FixesFirst(w)
    <2>1. Fixed[w] = <<x, Stitch(y, x, i)>>
      BY <1>2, <1>7, FixedIs
    <2>2. PICK o \in Nat, d \in Nat : StitchedAs(y, x, i, o, d, Fixed[w][2])
      BY <1>2, <1>7, FixedIs
    <2>3. FindLineIndex(y[i], From(x, i)) # 0
      BY <1>3, <1>7 DEF FixesFirst
    <2> DEFINE s == Fixed[w][2]
    <2>4. Fixed[w][1] = x
      BY <2>1
    <2> HIDE DEF x, y, i
    <2>5. In(y[i], x)
      <3> DEFINE k == FindLineIndex(y[i], From(x, i))
      <3>1. i \in 1..Len(x) + 1
        BY <1>3, <1>5
      <3>2. From(x, i) \in Seq(Nat) /\ Len(From(x, i)) = Len(x) - i + 1
            /\ \A j \in 1..Len(x) - i + 1 : From(x, i)[j] = x[i + j - 1]
        BY <1>3, <3>1, FromIs
      <3>3. FoundIn(y[i], From(x, i), k)
        BY <3>2, FindLine
      <3>4. k # 0
        BY <2>3
      <3> HIDE DEF k
      <3>5. k \in 1..Len(x) - i + 1 /\ From(x, i)[k] = y[i]
        BY <3>2, <3>3, <3>4 DEF FoundIn
      <3>6. x[i + k - 1] = y[i]
        BY <3>2, <3>5
      <3>7. i + k - 1 \in 1..Len(x)
        BY <1>3, <1>5, <3>5
      <3> QED
        BY <3>6, <3>7 DEF In
    <2>6. IssueOf(y, x, i)
      BY <1>3, IssueOfEitherWay
    <2>7. StitchedAs(y, x, i, o, d, s)
      BY <2>2
    <2> HIDE DEF s
    <2>8. /\ s \in Seq(Nat) /\ s # << >> /\ Increasing(s)
          /\ \A l : In(l, s) => In(l, y) \/ In(l, x)
          /\ \A l : In(l, y) => In(l, s)
          /\ Latest(s) = Latest(y)
      BY <1>1, <1>3, <2>5, <2>6, <2>7, StitchFills
    <2>9. NoCrossing(x, s)
      <3> SUFFICES ASSUME NEW l \in Nat, NEW m \in Nat, In(l, x), ~ In(l, s), In(m, s), ~ In(m, x),
                          m < Latest(x)
                   PROVE  \E c \in Nat : In(c, x) /\ In(c, s) /\ ((l < c /\ c < m) \/ (m < c /\ c < l))
        BY DEF NoCrossing
      <3>1. ~ In(l, y) /\ In(m, y)
        BY <2>8
      <3>2. PICK c \in Nat : In(c, x) /\ In(c, y) /\ ((l < c /\ c < m) \/ (m < c /\ c < l))
        BY <1>1, <3>1 DEF NoCrossing
      <3> QED
        BY <2>8, <3>2
    <2>10. In(Latest(x), s)
      BY <1>1, <2>8
    <2>11. GapsApart(Fixed[w])
      BY <1>1, <1>4, <2>4, <2>8, <2>9, <2>10 DEF GapsApart, s
    <2>12. \A l : In(l, x) \/ In(l, s) <=> In(l, x) \/ In(l, y)
      BY <2>8
    <2> QED
      BY <1>2, <2>4, <2>11, <2>12 DEF s, x, y
  <1> QED
    BY <1>6, <1>7

\* With no issue left, the first window is the head of the second.
LEMMA NoIssueLeft ==
    ASSUME NEW x \in Seq(Nat), NEW y \in Seq(Nat), x # << >>, Increasing(x),
           In(Latest(x), y), IssueOf(x, y, 0)
    PROVE  \A l : In(l, x) => In(l, y)
  <1>1. Len(x) \in Nat /\ Len(y) \in Nat /\ Len(x) \in 1..Len(x)
    OBVIOUS
  <1>2. Len(x) <= Len(y)
    <2> SUFFICES ASSUME ~ (Len(x) <= Len(y)) PROVE FALSE
      OBVIOUS
    <2>1. PICK k \in 1..Len(y) : y[k] = x[Len(x)]
      BY DEF In, Latest
    <2>2. k \in 1..Len(x) /\ k <= Len(y) /\ k < Len(x)
      BY <1>1
    <2>3. x[k] = y[k]
      BY <2>2 DEF IssueOf
    <2>4. x[k] < x[Len(x)] /\ x[k] \in Nat /\ x[Len(x)] \in Nat
      BY <1>1, <2>2 DEF Increasing
    <2> QED
      BY <2>1, <2>3, <2>4
  <1>3. ASSUME NEW l, In(l, x) PROVE In(l, y)
    <2>1. PICK k \in 1..Len(x) : x[k] = l
      BY <1>3 DEF In
    <2>2. k \in 1..Len(y) /\ k <= Len(y)
      BY <1>1, <1>2
    <2>3. x[k] = y[k]
      BY <2>2 DEF IssueOf
    <2> QED
      BY <2>1, <2>2, <2>3 DEF In
  <1> QED
    BY <1>3

\* What the loop leaves of windows whose gaps are apart: all lines of both.
Filled(w, m) ==
    /\ m.panics = FALSE /\ m.a \in Seq(Nat) /\ m.b \in Seq(Nat) /\ Increasing(m.b)
    /\ LinesOf(m.b, w[1], w[2])

\* So the loop ends with every line of both in the second window.
LEMMA GapsFilled ==
    ASSUME NEW u, GapsApart(u)
    PROVE  Filled(u, FixAll[u])
  <1> DEFINE Bad == {w \in WindowPairs : GapsApart(w) /\ ~ Filled(w, FixAll[w])}
             T == {Todo(w) : w \in Bad}
  <1>1. SUFFICES ASSUME ~ Filled(u, FixAll[u]) PROVE FALSE
    OBVIOUS
  <1>2. u \in Bad
    BY <1>1 DEF GapsApart
  <1>3. T \subseteq Nat /\ T # {}
    BY <1>2, PairIs
  <1>4. PICK t \in T : \A s \in T : t <= s
    BY <1>3, LeastNatural
  <1>5. PICK w \in Bad : t = Todo(w)
    BY <1>4
  <1>6. w \in WindowPairs /\ GapsApart(w) /\ ~ Filled(w, FixAll[w])
    BY <1>5
  <1>7. FixAll[w] = IF w \in WindowPairs \ Fixable THEN LeftAs[w] ELSE FixAll[Fixed[w]]
    BY <1>6, FixAllTurns
  <1>8. CASE Issue(w) # 0
    <2>1. /\ w \in Fixable /\ GapsApart(Fixed[w])
          /\ \A l : In(l, Fixed[w][1]) \/ In(l, Fixed[w][2]) <=> In(l, w[1]) \/ In(l, w[2])
      BY <1>6, <1>8, GapsApartFixed
    <2>2. Fixed[w] \in WindowPairs /\ Todo(Fixed[w]) < Todo(w)
      BY <2>1, FixedIs
    <2>3. Fixed[w] \notin Bad
      <3> SUFFICES ASSUME Fixed[w] \in Bad PROVE FALSE
        OBVIOUS
      <3>1. Todo(Fixed[w]) \in T /\ Todo(w) \in T
        BY <1>5
      <3>2. Todo(w) <= Todo(Fixed[w])
        BY <1>4, <1>5, <3>1
      <3>3. Todo(Fixed[w]) \in Nat /\ Todo(w) \in Nat
        BY <1>3, <3>1
      <3> QED
        BY <2>2, <3>2, <3>3
    <2>4. Filled(Fixed[w], FixAll[Fixed[w]])
      BY <2>1, <2>2, <2>3
    <2>5. FixAll[w] = FixAll[Fixed[w]]
      BY <1>7, <2>1
    <2> DEFINE m == FixAll[w]
    <2>6. Filled(Fixed[w], m)
      BY <2>4, <2>5
    <2> HIDE DEF m
    <2>7. Filled(w, m)
      BY <2>1, <2>6 DEF Filled, LinesOf
    <2> QED
      BY <1>6, <2>7 DEF m
  <1>9. CASE Issue(w) = 0
    <2>1. w \notin Fixable /\ ~ FixesFirst(w) /\ ~ FixesSecond(w)
      BY <1>9 DEF Fixable, FixesFirst, FixesSecond
    <2>2. FixAll[w] = LeftAs[w]
      BY <1>6, <1>7, <2>1
    <2>3. LeftAs[w] = Merged(w[1], w[2])
      BY <1>6, <2>1 DEF LeftAs
    <2>4. w[1] \in Seq(Nat) /\ w[2] \in Seq(Nat) /\ IssueOf(w[1], w[2], 0)
      BY <1>6, <1>9, PairIs
    <2>5. \A l : In(l, w[1]) => In(l, w[2])
      BY <1>6, <2>4, NoIssueLeft DEF GapsApart
    <2>6. Filled(w, Merged(w[1], w[2]))
      BY <1>6, <2>4, <2>5 DEF Filled, LinesOf, Merged, GapsApart
    <2> QED
      BY <1>6, <2>2, <2>3, <2>6
  <1> QED
    BY <1>8, <1>9

\* Of the lines between the first of b and the last of a, one of the two
\* windows has all that the other has.
OneSided(a, b) ==
    \/ \A l \in Nat : In(l, a) /\ b[1] <= l /\ l <= Latest(a) => In(l, b)
    \/ \A l \in Nat : In(l, b) /\ b[1] <= l /\ l <= Latest(a) => In(l, a)
AllKept(d, a, b) ==
    /\ d.panics = FALSE /\ d.a \o d.b \in Seq(Nat)
    /\ Increasing(d.a \o d.b) /\ LinesOf(d.a \o d.b, a, b)

\* The first and the last line of a list in order bound the others.
LEMMA EdgesOf ==
    ASSUME NEW s \in Seq(Nat), s # << >>, Increasing(s)
    PROVE  /\ 1 \in 1..Len(s) /\ Len(s) \in 1..Len(s) /\ s[1] \in Nat /\ Latest(s) \in Nat
           /\ In(s[1], s) /\ In(Latest(s), s)
           /\ \A l : In(l, s) => l \in Nat /\ s[1] <= l /\ l <= Latest(s)
  <1>1. Len(s) \in Nat /\ 1 \in 1..Len(s) /\ Len(s) \in 1..Len(s)
    OBVIOUS
  <1>2. s[1] \in Nat /\ s[Len(s)] \in Nat
    BY <1>1
  <1>3. ASSUME NEW l, In(l, s) PROVE l \in Nat /\ s[1] <= l /\ l <= s[Len(s)]
    <2>1. PICK k \in 1..Len(s) : s[k] = l
      BY <1>3 DEF In
    <2>2. s[k] \in Nat
      OBVIOUS
    <2>3. k = 1 \/ 1 < k
      BY <1>1
    <2>4. k = Len(s) \/ k < Len(s)
      BY <1>1
    <2>5. s[1] <= s[k]
      BY <1>1, <1>2, <2>2, <2>3 DEF Increasing
    <2>6. s[k] <= s[Len(s)]
      BY <1>1, <1>2, <2>2, <2>4 DEF Increasing
    <2> QED
      BY <2>1, <2>2, <2>5, <2>6
  <1> QED
    BY <1>1, <1>2, <1>3 DEF In, Latest

\* A list before another one.
LEMMA JoinInOrder ==
    ASSUME NEW a \in Seq(Nat), NEW b \in Seq(Nat), Increasing(a), Increasing(b),
           \A l, m \in Nat : In(l, a) /\ In(m, b) => l < m
    PROVE  /\ a \o b \in Seq(Nat) /\ Increasing(a \o b) /\ LinesOf(a \o b, a, b)
  <1> DEFINE s == a \o b
  <1>1. /\ s \in Seq(Nat) /\ Len(s) = Len(a) + Len(b) /\ Len(a) \in Nat /\ Len(b) \in Nat
        /\ \A k \in 1..Len(a) : s[k] = a[k]
        /\ \A k \in Len(a) + 1..Len(a) + Len(b) : s[k] = b[k - Len(a)]
    BY JoinIs
  <1> HIDE DEF s
  <1>2. ASSUME NEW k \in 1..Len(s)
        PROVE  \/ k \in 1..Len(a) /\ s[k] = a[k]
               \/ k \in Len(a) + 1..Len(a) + Len(b) /\ k - Len(a) \in 1..Len(b) /\ s[k] = b[k - Len(a)]
    <2>1. k \in 1..Len(a) \/ (k \in Len(a) + 1..Len(a) + Len(b) /\ k - Len(a) \in 1..Len(b))
      BY <1>1, <1>2
    <2> QED
      BY <1>1, <2>1
  <1>3. ASSUME NEW i \in 1..Len(s), NEW j \in 1..Len(s), i < j PROVE s[i] < s[j]
    <2>1. CASE j \in 1..Len(a)
      <3>1. i \in 1..Len(a)
        BY <1>1, <1>3, <2>1
      <3> QED
        BY <1>1, <1>3, <2>1, <3>1 DEF Increasing
    <2>2. CASE i \in Len(a) + 1..Len(a) + Len(b)
      <3>1. j \in Len(a) + 1..Len(a) + Len(b)
        BY <1>1, <1>3, <2>2
      <3>2. i - Len(a) \in 1..Len(b) /\ j - Len(a) \in 1..Len(b) /\ i - Len(a) < j - Len(a)
        BY <1>1, <1>3, <2>2, <3>1
      <3>3. s[i] = b[i - Len(a)] /\ s[j] = b[j - Len(a)]
        BY <1>1, <2>2, <3>1
      <3>4. b[i - Len(a)] < b[j - Len(a)]
        BY <3>2 DEF Increasing
      <3> QED
        BY <3>3, <3>4
    <2>3. CASE i \in 1..Len(a) /\ j \in Len(a) + 1..Len(a) + Len(b)
      <3>1. j - Len(a) \in 1..Len(b)
        BY <1>1, <2>3
      <3>2. s[i] = a[i] /\ s[j] = b[j - Len(a)]
        BY <1>1, <2>3
      <3>3. a[i] \in Nat /\ b[j - Len(a)] \in Nat /\ In(a[i], a) /\ In(b[j - Len(a)], b)
        BY <2>3, <3>1 DEF In
      <3> QED
        BY <3>2, <3>3
    <2> QED
      BY <1>2, <2>1, <2>2, <2>3
  <1>4. ASSUME NEW l, In(l, s) PROVE In(l, a) \/ In(l, b)
    <2>1. PICK k \in 1..Len(s) : s[k] = l
      BY <1>4 DEF In
    <2> QED
      BY <1>2, <2>1 DEF In
  <1>5. ASSUME NEW l, In(l, a) PROVE In(l, s)
    <2>1. PICK k \in 1..Len(a) : a[k] = l
      BY <1>5 DEF In
    <2>2. k \in 1..Len(s)
      BY <1>1
    <2> QED
      BY <1>1, <2>1, <2>2 DEF In
  <1>6. ASSUME NEW l, In(l, b) PROVE In(l, s)
    <2>1. PICK k \in 1..Len(b) : b[k] = l
      BY <1>6 DEF In
    <2>2. k + Len(a) \in 1..Len(s) /\ k + Len(a) \in Len(a) + 1..Len(a) + Len(b) /\ k + Len(a) - Len(a) = k
      BY <1>1
    <2> DEFINE j == k + Len(a)
    <2>4. j \in Len(a) + 1..Len(a) + Len(b) /\ j - Len(a) = k
      BY <2>2
    <2> HIDE DEF j
    <2>5. s[j] = b[k]
      BY <1>1, <2>4
    <2>3. s[k + Len(a)] = b[k]
      BY <2>5 DEF j
    <2> QED
      BY <2>1, <2>2, <2>3 DEF In
  <1> QED
    BY <1>1, <1>3, <1>4, <1>5, <1>6 DEF Increasing, LinesOf, s

\* One list, split.
LEMMA SplitInOrder ==
    ASSUME NEW a \in Seq(Nat), Increasing(a), NEW i \in 1..Len(a)
    PROVE  /\ Before(a, i) \in Seq(Nat) /\ From(a, i) \in Seq(Nat)
           /\ Increasing(Before(a, i)) /\ Increasing(From(a, i)) /\ From(a, i) # << >>
           /\ LinesOf(a, Before(a, i), From(a, i)) /\ From(a, i)[1] = a[i]
           /\ Latest(From(a, i)) = Latest(a)
           /\ \A l \in Nat : In(l, Before(a, i)) => l < a[i]
  <1> DEFINE x == Before(a, i)
             y == From(a, i)
  <1>0. Len(a) \in Nat /\ i \in 1..Len(a) + 1 /\ i \in Nat
    OBVIOUS
  <1>1. x \in Seq(Nat) /\ Len(x) = i - 1 /\ \A k \in 1..i - 1 : x[k] = a[k]
    BY <1>0, BeforeIs
  <1>2. y \in Seq(Nat) /\ Len(y) = Len(a) - i + 1 /\ \A k \in 1..Len(a) - i + 1 : y[k] = a[i + k - 1]
    BY <1>0, FromIs
  <1> HIDE DEF x, y
  <1>3. ASSUME NEW j \in 1..Len(x), NEW k \in 1..Len(x), j < k PROVE x[j] < x[k]
    <2>1. j \in 1..Len(a) /\ k \in 1..Len(a) /\ j \in 1..i - 1 /\ k \in 1..i - 1
      BY <1>0, <1>1
    <2> QED
      BY <1>1, <1>3, <2>1 DEF Increasing
  <1>4. ASSUME NEW j \in 1..Len(y), NEW k \in 1..Len(y), j < k PROVE y[j] < y[k]
    <2>3. j \in 1..Len(a) - i + 1 /\ k \in 1..Len(a) - i + 1 /\ j < k
      BY <1>2, <1>4
    <2>1. /\ i + j - 1 \in 1..Len(a) /\ i + k - 1 \in 1..Len(a) /\ i + j - 1 < i + k - 1
          /\ j \in 1..Len(a) - i + 1 /\ k \in 1..Len(a) - i + 1
      BY <1>0, <2>3
    <2>2. a[i + j - 1] < a[i + k - 1]
      BY <2>1 DEF Increasing
    <2> QED
      BY <1>2, <2>1, <2>2
  <1>5. 1 \in 1..Len(a) - i + 1 /\ i + 1 - 1 = i /\ y # << >> /\ y[1] = a[i]
    <2>1. 1 \in 1..Len(a) - i + 1 /\ i + 1 - 1 = i
      BY <1>0
    <2> QED
      BY <1>2, <2>1
  <1>6. Latest(y) = Latest(a)
    <2>1. Len(y) \in 1..Len(a) - i + 1 /\ i + Len(y) - 1 = Len(a)
      BY <1>0, <1>2
    <2> QED
      BY <1>2, <2>1 DEF Latest
  <1>7. ASSUME NEW l, In(l, a) PROVE In(l, x) \/ In(l, y)
    <2>1. PICK k \in 1..Len(a) : a[k] = l
      BY <1>7 DEF In
    <2>2. CASE k < i
      <3>1. k \in 1..i - 1 /\ k \in 1..Len(x)
        BY <1>0, <1>1, <2>2
      <3> QED
        BY <1>1, <2>1, <3>1 DEF In
    <2>3. CASE ~ (k < i)
      <3>1. k - i + 1 \in 1..Len(a) - i + 1 /\ k - i + 1 \in 1..Len(y) /\ i + (k - i + 1) - 1 = k
        BY <1>0, <1>2, <2>3
      <3>2. y[k - i + 1] = a[k]
        BY <1>2, <3>1
      <3> QED
        BY <2>1, <3>1, <3>2 DEF In
    <2> QED
      BY <2>2, <2>3
  <1>8. ASSUME NEW l, In(l, x) PROVE In(l, a) /\ l < a[i]
    <2>1. PICK k \in 1..Len(x) : x[k] = l
      BY <1>8 DEF In
    <2>2. k \in 1..i - 1 /\ k \in 1..Len(a) /\ k < i
      BY <1>0, <1>1
    <2>3. a[k] = l /\ a[k] < a[i]
      BY <1>1, <2>1, <2>2 DEF Increasing
    <2> QED
      BY <2>2, <2>3 DEF In
  <1>9. ASSUME NEW l, In(l, y) PROVE In(l, a)
    <2>1. PICK k \in 1..Len(y) : y[k] = l
      BY <1>9 DEF In
    <2>2. i + k - 1 \in 1..Len(a) /\ k \in 1..Len(a) - i + 1
      BY <1>0, <1>2
    <2>3. y[k] = a[i + k - 1]
      BY <1>2, <2>2
    <2> QED
      BY <2>1, <2>2, <2>3 DEF In
  <1> QED
    BY <1>1, <1>2, <1>3, <1>4, <1>5, <1>6, <1>7, <1>8, <1>9 DEF Increasing, LinesOf, x, y

\* When only one window misses lines of the overlap, the gaps are apart: the
\* first line of b is between.
LEMMA OneSidedApart ==
    ASSUME NEW a \in Seq(Nat), NEW b \in Seq(Nat), a # << >>, b # << >>, Increasing(a), Increasing(b),
           In(b[1], a), In(Latest(a), b), OneSided(a, b)
    PROVE  GapsApart(<<a, b>>)
  <1>1. NoCrossing(a, b)
    <2> SUFFICES ASSUME NEW l \in Nat, NEW m \in Nat, In(l, a), ~ In(l, b), In(m, b), ~ In(m, a),
                        m < Latest(a)
                 PROVE  \E c \in Nat : In(c, a) /\ In(c, b) /\ ((l < c /\ c < m) \/ (m < c /\ c < l))
      BY DEF NoCrossing
    <2>1. b[1] \in Nat /\ In(b[1], b) /\ b[1] <= m /\ Latest(a) \in Nat /\ l <= Latest(a)
      BY EdgesOf
    <2>2. b[1] < m /\ m <= Latest(a) /\ b[1] <= m
      <3>1. b[1] # m
        OBVIOUS
      <3> QED
        BY <2>1, <3>1
    <2>3. \A k \in Nat : In(k, a) /\ b[1] <= k /\ k <= Latest(a) => In(k, b)
      BY <2>2 DEF OneSided
    <2>4. ~ (b[1] <= l)
      BY <2>1, <2>3
    <2>5. l < b[1]
      BY <2>1, <2>4
    <2> QED
      BY <2>1, <2>2, <2>5
  <1>2. <<a, b>> \in WindowPairs /\ <<a, b>>[1] = a /\ <<a, b>>[2] = b
    BY DEF WindowPairs
  <1> QED
    BY <1>1, <1>2 DEF GapsApart

\* DedupAB keeps all the lines of windows with gaps on one side.
LEMMA OneSidedMerges ==
    ASSUME NEW a \in Seq(Nat), NEW b \in Seq(Nat), a # << >>, b # << >>, Increasing(a), Increasing(b),
           In(b[1], a), In(Latest(a), b), OneSided(a, b)
    PROVE  AllKept(DedupAB(a, b), a, b)
  <1> DEFINE d == DedupAB(a, b)
             first == FindLineIndex(b[1], a)
  <1>1. FoundIn(b[1], a, first)
    BY FindLine
  <1>2. first \in 1..Len(a) /\ a[first] = b[1] /\ first # 0
    BY <1>1 DEF FoundIn, In
  <1>3. CASE Overlapping(a, b)
    <2> DEFINE w == <<a, b>>
               m == FixAll[w]
    <2>1. GapsApart(w) /\ w[1] = a /\ w[2] = b
      BY OneSidedApart
    <2>2. Filled(w, m)
      BY <2>1, GapsFilled
    <2>3. InCommon(a, b)
      BY <1>3, OverlapInCommon
    <2>4. d = Merged(<< >>, m.b)
      BY <1>3, <2>3, OverlapMends
    <2> HIDE DEF m, d
    <2>5. m.b \in Seq(Nat) /\ Increasing(m.b) /\ LinesOf(m.b, a, b)
      BY <2>1, <2>2 DEF Filled
    <2>6. d.panics = FALSE /\ d.a \o d.b = m.b
      BY <2>4, <2>5 DEF Merged
    <2>7. AllKept(d, a, b)
      BY <2>5, <2>6 DEF AllKept
    <2> QED
      BY <2>7 DEF d
  <1>4. CASE ~ Overlapping(a, b)
    <2>1. d = Merged(Before(a, first), b)
      BY <1>2, <1>4, ApartMerges
    <2>2. FindFirstIssueIndex(From(a, first), b) = 0
      BY <1>2, <1>4 DEF Overlapping
    <2> HIDE DEF first, d
    <2> DEFINE x == Before(a, first)
               y == From(a, first)
    <2>3. /\ x \in Seq(Nat) /\ y \in Seq(Nat)
          /\ Increasing(x) /\ Increasing(y) /\ y # << >>
          /\ LinesOf(a, x, y) /\ Latest(y) = Latest(a)
          /\ \A l \in Nat : In(l, x) => l < a[first]
      BY <1>2, SplitInOrder
    <2>4. FindFirstIssueIndex(y, b) = 0
      BY <2>2
    <2>5. d = Merged(x, b)
      BY <2>1
    <2> HIDE DEF x, y
    <2>6. IssueOf(y, b, 0)
      BY <2>3, <2>4, FirstIssue
    <2>7. \A l : In(l, y) => In(l, b)
      BY <2>3, <2>6, NoIssueLeft
    <2>8. ASSUME NEW l \in Nat, NEW m \in Nat, In(l, x), In(m, b) PROVE l < m
      <3>1. b[1] <= m /\ b[1] \in Nat
        BY <2>8, EdgesOf
      <3>2. l < b[1]
        BY <1>2, <2>3, <2>8
      <3> QED
        BY <3>1, <3>2
    <2>9. x \o b \in Seq(Nat) /\ Increasing(x \o b) /\ LinesOf(x \o b, x, b)
      BY <2>3, <2>8, JoinInOrder
    <2>10. LinesOf(x \o b, a, b)
      BY <2>3, <2>7, <2>9 DEF LinesOf
    <2>11. d.panics = FALSE /\ d.a \o d.b = x \o b
      BY <2>5 DEF Merged
    <2>12. AllKept(d, a, b)
      BY <2>9, <2>10, <2>11 DEF AllKept
    <2> QED
      BY <2>12 DEF d
  <1> QED
    BY <1>3, <1>4

-----------------------------------------------------------------------------
(* Windows without gaps, as long as the later ones end no earlier.         *)

\* A list in order that starts with the window from s to e.
Starts(y, s, e) ==
    /\ y \in Seq(Nat) /\ Increasing(y)
    /\ e - s <= Len(y) /\ \A k \in 1..e - s : y[k] = s + k

\* A window starts with itself, and has the lines after s up to e.
LEMMA WindowStarts ==
    ASSUME NEW s \in Nat, NEW e \in Nat, s < e
    PROVE  /\ Starts(Window(s, e), s, e) /\ Window(s, e) # << >>
           /\ \A l : In(l, Window(s, e)) <=> l \in Nat /\ s < l /\ l <= e
  <1> DEFINE w == Window(s, e)
  <1>1. w \in Seq(Nat) /\ Len(w) = e - s /\ \A i \in 1..e - s : w[i] = s + i
    BY WindowIs
  <1> HIDE DEF w
  <1>2. ASSUME NEW i \in 1..Len(w), NEW j \in 1..Len(w), i < j PROVE w[i] < w[j]
    <2>1. i \in 1..e - s /\ j \in 1..e - s
      BY <1>1
    <2>2. w[i] = s + i /\ w[j] = s + j
      BY <1>1, <2>1
    <2> QED
      BY <1>2, <2>1, <2>2
  <1>3. ASSUME NEW l PROVE In(l, w) <=> l \in Nat /\ s < l /\ l <= e
    <2>1. ASSUME In(l, w) PROVE l \in Nat /\ s < l /\ l <= e
      <3>1. PICK k \in 1..Len(w) : w[k] = l
        BY <2>1 DEF In
      <3>2. k \in 1..e - s
        BY <1>1
      <3>3. l = s + k
        BY <1>1, <3>1, <3>2
      <3> QED
        BY <3>2, <3>3
    <2>2. ASSUME l \in Nat, s < l, l <= e PROVE In(l, w)
      <3>1. l - s \in 1..e - s /\ s + (l - s) = l /\ l - s \in 1..Len(w)
        BY <1>1, <2>2
      <3> DEFINE k == l - s
      <3> HIDE DEF k
      <3>2. w[k] = l
        BY <1>1, <3>1 DEF k
      <3> QED
        BY <3>1, <3>2 DEF In, k
    <2> QED
      BY <2>1, <2>2
  <1>4. 1 \in 1..e - s /\ Len(w) # 0
    BY <1>1
  <1>5. w # << >>
    BY <1>1, <1>4
  <1> QED
    BY <1>1, <1>2, <1>3, <1>5 DEF Starts, Increasing, w

\* A window before such a list that begins and ends no earlier.
LEMMA WindowBefore ==
    ASSUME NEW s \in Nat, NEW e \in Nat, NEW t \in Nat, NEW f \in Nat, NEW y,
           s < e, s <= t, e <= f, t < f, Starts(y, t, f)
    PROVE  DedupAB(Window(s, e), y) = Merged(Window(s, IF t < e THEN t ELSE e), y)
  <1> DEFINE x == Window(s, e)
             first == FindLineIndex(y[1], x)
  <1>1. /\ x \in Seq(Nat) /\ Len(x) = e - s /\ x # << >> /\ x[Len(x)] = e
    <2>3. s <= e
      OBVIOUS
    <2>1. x \in Seq(Nat) /\ Len(x) = e - s /\ \A i \in 1..e - s : x[i] = s + i
      BY <2>3, WindowIs
    <2> HIDE DEF x
    <2>2. e - s \in 1..e - s /\ Len(x) # 0
      BY <2>1
    <2> QED
      BY <2>1, <2>2
  <1>2. y \in Seq(Nat) /\ Increasing(y) /\ y # << >> /\ y[1] = t + 1
    <2>1. y \in Seq(Nat) /\ f - t <= Len(y) /\ Increasing(y) /\ \A k \in 1..f - t : y[k] = t + k
      BY DEF Starts
    <2>2. 1 \in 1..f - t /\ Len(y) # 0
      BY <2>1
    <2> QED
      BY <2>1, <2>2
  <1>3. CASE t < e
    <2>1. first = t - s + 1
      <3>1. FindLineIndex(t + 1, x) = t + 1 - s
        BY <1>3, FoundAt
      <3> QED
        BY <1>2, <3>1
    <2>2. Before(x, first) = Window(s, t) /\ From(x, first) = Window(t, e)
      <3>1. s <= t /\ t <= e
        BY <1>3
      <3> QED
        BY <2>1, <3>1, WindowSplits
    <2>3. FindFirstIssueIndex(Window(t, e), y) = 0
      <3> DEFINE z == Window(t, e)
      <3>1. z \in Seq(Nat) /\ Len(z) = e - t /\ \A i \in 1..e - t : z[i] = t + i
        <4>1. t <= e
          BY <1>3
        <4> QED
          BY <4>1, WindowIs
      <3> HIDE DEF z
      <3>2. ASSUME NEW k \in 1..Len(z), k <= Len(y) PROVE z[k] = y[k]
        <4>1. k \in 1..e - t /\ k \in 1..f - t
          BY <3>1
        <4> QED
          BY <3>1, <4>1 DEF Starts
      <3>3. IssueOf(z, y, 0)
        BY <1>2, <3>1, <3>2 DEF IssueOf
      <3>4. FindFirstIssueIndex(z, y) = 0
        BY <1>2, <3>1, <3>3, IssueIs
      <3> QED
        BY <3>4 DEF z
    <2>4. first # 0
      BY <1>3, <2>1
    <2> HIDE DEF x, first
    <2>5. Dedup(x, y, DedupAgain) = Merged(Before(x, first), y)
      BY <1>1, <1>2, <2>2, <2>3, <2>4 DEF Dedup, first
    <2> QED
      BY <1>3, <2>2, <2>5 DEF DedupAB, x
  <1>4. CASE ~ (t < e)
    <2>1. first = 0
      <3>1. t + 1 \notin s + 1..e /\ t + 1 \in Nat
        BY <1>4
      <3>2. FindLineIndex(t + 1, x) = 0
        BY <3>1, FoundAt
      <3> QED
        BY <1>2, <3>2
    <2>2. FindLineIndex(Last(x), y) = 0
      <3>1. Last(x) = e
        BY <1>1 DEF Last
      <3> DEFINE k == FindLineIndex(e, y)
      <3>2. FoundIn(e, y, k)
        BY <1>2, FindLine
      <3> HIDE DEF k
      <3> SUFFICES ASSUME k # 0 PROVE FALSE
        BY <3>1 DEF k
      <3>3. In(e, y)
        BY <3>2 DEF FoundIn, In
      <3>4. y[1] <= e
        BY <1>2, <3>3, EdgesOf
      <3> QED
        BY <1>2, <1>4, <3>4
    <2> HIDE DEF x, first
    <2>3. Dedup(x, y, DedupAgain) = Merged(x, y)
      BY <1>1, <1>2, <2>1, <2>2 DEF Dedup, first
    <2> QED
      BY <1>4, <2>3 DEF DedupAB, x
  <1> QED
    BY <1>3, <1>4

\* The two together start with that window, and have all lines of both.
LEMMA WindowInFront ==
    ASSUME NEW s \in Nat, NEW e \in Nat, NEW t \in Nat, NEW f \in Nat, NEW y,
           s < e, s <= t, e <= f, t < f, Starts(y, t, f),
           NEW x, x = Window(s, IF t < e THEN t ELSE e)
    PROVE  x \in Seq(Nat) /\ Starts(x \o y, s, e) /\ LinesOf(x \o y, Window(s, e), y)
  <1> DEFINE c == IF t < e THEN t ELSE e
             z == x \o y
  <1>1. c \in Nat /\ s <= c /\ c <= e /\ c <= t /\ (t < e => c = t) /\ (~ (t < e) => c = e)
    OBVIOUS
  <1>2. x \in Seq(Nat) /\ Len(x) = c - s /\ \A k \in 1..c - s : x[k] = s + k
    <2>0. x = Window(s, c)
      OBVIOUS
    <2> HIDE DEF c
    <2>1. s <= c /\ c \in Nat
      BY <1>1
    <2>2. /\ Window(s, c) \in Seq(Nat) /\ Len(Window(s, c)) = c - s
          /\ \A k \in 1..c - s : Window(s, c)[k] = s + k
      BY <2>1, WindowIs
    <2> QED
      BY <2>0, <2>2
  <1>3. y \in Seq(Nat) /\ Increasing(y) /\ y # << >> /\ y[1] = t + 1
        /\ f - t <= Len(y) /\ Len(y) \in Nat /\ \A k \in 1..f - t : y[k] = t + k
    <2>1. y \in Seq(Nat) /\ f - t <= Len(y) /\ Increasing(y) /\ \A k \in 1..f - t : y[k] = t + k
      BY DEF Starts
    <2>2. 1 \in 1..f - t /\ Len(y) # 0 /\ Len(y) \in Nat
      BY <2>1
    <2> QED
      BY <2>1, <2>2
  <1> HIDE DEF c
  <1>4. \A l : In(l, x) <=> l \in Nat /\ s < l /\ l <= c
    <2>1. ASSUME NEW l, In(l, x) PROVE l \in Nat /\ s < l /\ l <= c
      <3>1. PICK k \in 1..Len(x) : x[k] = l
        BY <2>1 DEF In
      <3>2. k \in 1..c - s
        BY <1>1, <1>2
      <3>3. l = s + k
        BY <1>2, <3>1, <3>2
      <3> QED
        BY <1>1, <3>2, <3>3
    <2>2. ASSUME NEW l \in Nat, s < l, l <= c PROVE In(l, x)
      <3> DEFINE k == l - s
      <3>1. k \in 1..c - s /\ s + k = l /\ k \in 1..Len(x)
        BY <1>1, <1>2, <2>2
      <3> HIDE DEF k
      <3>2. x[k] = l
        BY <1>2, <3>1
      <3> QED
        BY <3>1, <3>2 DEF In
    <2> QED
      BY <2>1, <2>2
  <1>5. ASSUME NEW i \in 1..Len(x), NEW j \in 1..Len(x), i < j PROVE x[i] < x[j]
    <2>1. i \in 1..c - s /\ j \in 1..c - s
      BY <1>1, <1>2
    <2>2. x[i] = s + i /\ x[j] = s + j
      BY <1>2, <2>1
    <2> QED
      BY <1>5, <2>1, <2>2
  <1>6. ASSUME NEW l \in Nat, NEW m \in Nat, In(l, x), In(m, y) PROVE l < m
    <2>1. t + 1 <= m
      BY <1>3, <1>6, EdgesOf
    <2>2. l <= c
      BY <1>4, <1>6
    <2> QED
      BY <1>1, <2>1, <2>2
  <1>7. z \in Seq(Nat) /\ Increasing(z) /\ LinesOf(z, x, y)
    BY <1>2, <1>3, <1>5, <1>6, JoinInOrder DEF Increasing
  <1>8. /\ Len(z) = Len(x) + Len(y)
        /\ \A k \in 1..Len(x) : z[k] = x[k]
        /\ \A k \in Len(x) + 1..Len(x) + Len(y) : z[k] = y[k - Len(x)]
    BY <1>2, <1>3, JoinIs
  <1> HIDE DEF z
  <1>9. CASE t < e
    <2>1. c = t /\ Len(x) = t - s
      BY <1>1, <1>2, <1>9
    <2>2. e - s <= Len(z)
      BY <1>3, <1>8, <2>1
    <2>3. ASSUME NEW k \in 1..e - s PROVE z[k] = s + k
      <3>1. CASE k <= t - s
        <4>1. k \in 1..Len(x) /\ k \in 1..c - s
          BY <2>1, <3>1
        <4> QED
          BY <1>2, <1>8, <4>1
      <3>2. CASE ~ (k <= t - s)
        <4> DEFINE j == k - Len(x)
        <4>1. k \in Len(x) + 1..Len(x) + Len(y) /\ j \in 1..f - t /\ t + j = s + k
          BY <1>3, <2>1, <3>2
        <4>2. z[k] = y[j]
          BY <1>8, <4>1
        <4> HIDE DEF j
        <4> QED
          BY <1>3, <4>1, <4>2
      <3> QED
        BY <3>1, <3>2
    <2>4. Starts(z, s, e)
      BY <1>7, <2>2, <2>3 DEF Starts
    <2>5. \A l : In(l, Window(s, e)) => In(l, x) \/ In(l, y)
      <3> SUFFICES ASSUME NEW l, In(l, Window(s, e)), ~ In(l, x) PROVE In(l, y)
        OBVIOUS
      <3>1. l \in Nat /\ s < l /\ l <= e
        BY WindowStarts
      <3>2. ~ (l <= t)
        BY <1>4, <2>1, <3>1
      <3> DEFINE j == l - t
      <3>3. j \in 1..f - t /\ t + j = l /\ j \in 1..Len(y)
        BY <1>3, <3>1, <3>2
      <3> HIDE DEF j
      <3>4. y[j] = l
        BY <1>3, <3>3
      <3> QED
        BY <3>3, <3>4 DEF In
    <2>6. \A l : In(l, x) => In(l, Window(s, e))
      <3> SUFFICES ASSUME NEW l, In(l, x) PROVE In(l, Window(s, e))
        OBVIOUS
      <3>1. l \in Nat /\ s < l /\ l <= e
        BY <1>1, <1>4
      <3> QED
        BY <3>1, WindowStarts
    <2>7. LinesOf(z, Window(s, e), y)
      BY <1>7, <2>5, <2>6 DEF LinesOf
    <2> QED
      BY <1>2, <2>4, <2>7 DEF z
  <1>10. CASE ~ (t < e)
    <2>1. x = Window(s, e) /\ Len(x) = e - s /\ c = e
      BY <1>1, <1>2, <1>10 DEF c
    <2>2. e - s <= Len(z)
      BY <1>3, <1>8, <2>1
    <2>3. ASSUME NEW k \in 1..e - s PROVE z[k] = s + k
      <3>1. k \in 1..Len(x) /\ k \in 1..c - s
        BY <2>1
      <3> QED
        BY <1>2, <1>8, <3>1
    <2>4. Starts(z, s, e)
      BY <1>7, <2>2, <2>3 DEF Starts
    <2> QED
      BY <1>2, <1>7, <2>1, <2>4 DEF z
  <1> QED
    BY <1>9, <1>10

\* Slices that begin and end no earlier than the ones before them.
EndingLater(q) ==
    \A i, j \in DOMAIN q : i < j => Since(q[i]) <= Since(q[j]) /\ End(q[i]) <= End(q[j])
ReadFrom(l, q, i, n) == \E j \in i..n : In(l, q[j].lines)

\* A list z of lines before the last slice has what was read from the i-th
\* slice on, and starts with that slice.
HoldsFrom(z, q, i, n) ==
    /\ z \in Seq(Nat) /\ Starts(z \o q[n].lines, Since(q[i]), End(q[i]))
    /\ \A l : In(l, z \o q[n].lines) <=> ReadFrom(l, q, i, n)
AsMerged(z, last) ==
    [result |-> z, last |-> last, reference |-> z \o last, panics |-> FALSE]
MergedFrom(r, q, i, n) ==
    \E z : HoldsFrom(z, q, i, n) /\ r = AsMerged(z, q[n].lines)

\* Of three lists, it does not matter which two are joined first.
LEMMA JoinJoined ==
    ASSUME NEW u \in Seq(Nat), NEW z \in Seq(Nat), NEW v \in Seq(Nat)
    PROVE  (u \o z) \o v = u \o (z \o v)
  OBVIOUS

\* The last slice itself is what was read from it on.
LEMMA HoldsLast ==
    ASSUME NEW n \in Nat \ {0}, NEW q \in [1..n -> WindowSlices]
    PROVE  HoldsFrom(<< >>, q, n, n)
  <1>1. q[n] \in WindowSlices /\ n \in 1..n
    OBVIOUS
  <1>2. /\ Since(q[n]) \in Nat /\ End(q[n]) \in Nat /\ Since(q[n]) < End(q[n])
        /\ q[n].lines = Window(Since(q[n]), End(q[n])) /\ q[n].lines \in Seq(Nat)
    BY <1>1, SliceIs DEF WindowSlices
  <1>3. Starts(q[n].lines, Since(q[n]), End(q[n]))
    BY <1>2, WindowStarts
  <1>4. << >> \o q[n].lines = q[n].lines
    BY <1>2
  <1>5. \A l : ReadFrom(l, q, n, n) <=> In(l, q[n].lines)
    <2>1. \A j \in n..n : j = n
      OBVIOUS
    <2>2. n \in n..n
      OBVIOUS
    <2> QED
      BY <2>1, <2>2 DEF ReadFrom
  <1> QED
    BY <1>3, <1>4, <1>5 DEF HoldsFrom

\* An earlier slice merged in front of it gives what was read from there on.
LEMMA HoldsOneMore ==
    ASSUME NEW n \in Nat \ {0}, NEW q \in [1..n -> WindowSlices], EndingLater(q), NEW i \in 1..n - 1,
           NEW z, HoldsFrom(z, q, i + 1, n)
    PROVE  \E x \in Seq(Nat) :
             /\ DedupAB(q[i].lines, z \o q[n].lines) = Merged(x, z \o q[n].lines)
             /\ HoldsFrom(x \o z, q, i, n)
             /\ x \o (z \o q[n].lines) = (x \o z) \o q[n].lines
  <1> DEFINE s == Since(q[i])
             e == End(q[i])
             t == Since(q[i + 1])
             f == End(q[i + 1])
             y == z \o q[n].lines
             x == Window(s, IF t < e THEN t ELSE e)
  <1>1. i \in 1..n /\ i + 1 \in 1..n /\ n \in 1..n /\ i < i + 1
    OBVIOUS
  <1>2. q[i] \in WindowSlices /\ q[i + 1] \in WindowSlices /\ q[n] \in WindowSlices
    BY <1>1
  <1>3. s \in Nat /\ e \in Nat /\ s < e /\ q[i].lines = Window(s, e)
    BY <1>2, SliceIs
  <1>4. t \in Nat /\ f \in Nat /\ t < f
    BY <1>2, SliceIs
  <1>5. s <= t /\ e <= f
    BY <1>1 DEF EndingLater
  <1>6. Starts(y, t, f) /\ z \in Seq(Nat) /\ \A l : In(l, y) <=> ReadFrom(l, q, i + 1, n)
    BY DEF HoldsFrom
  <1>7. q[n].lines \in Seq(Nat)
    BY <1>2 DEF WindowSlices
  <1> HIDE DEF s, e, t, f, y
  <1>8. DedupAB(Window(s, e), y) = Merged(x, y)
    BY <1>3, <1>4, <1>5, <1>6, WindowBefore
  <1>9. PICK u : u = x
    OBVIOUS
  <1>10. u = Window(s, IF t < e THEN t ELSE e)
    BY <1>9
  <1>11. u \in Seq(Nat) /\ Starts(u \o y, s, e) /\ LinesOf(u \o y, Window(s, e), y)
    BY <1>3, <1>4, <1>5, <1>6, <1>10, WindowInFront
  <1>12. DedupAB(q[i].lines, y) = Merged(u, y)
    BY <1>3, <1>8, <1>9
  <1>13. u \o y = (u \o z) \o q[n].lines
    <2> DEFINE v == q[n].lines
    <2>1. u \in Seq(Nat) /\ z \in Seq(Nat) /\ v \in Seq(Nat)
      BY <1>6, <1>7, <1>11
    <2> HIDE DEF v
    <2>2. (u \o z) \o v = u \o (z \o v)
      BY <2>1, JoinJoined
    <2> QED
      BY <2>2 DEF y, v
  <1>14. \A l : In(l, u \o y) <=> ReadFrom(l, q, i, n)
    <2>1. \A j \in i..n : j = i \/ j \in i + 1..n
      OBVIOUS
    <2>2. i \in i..n /\ \A j \in i + 1..n : j \in i..n
      BY <1>1
    <2>3. \A l : ReadFrom(l, q, i, n) <=> In(l, q[i].lines) \/ ReadFrom(l, q, i + 1, n)
      BY <2>1, <2>2 DEF ReadFrom
    <2> QED
      BY <1>3, <1>6, <1>11, <2>3 DEF LinesOf
  <1>15. u \o z \in Seq(Nat)
    BY <1>6, <1>11
  <1>16. HoldsFrom(u \o z, q, i, n)
    BY <1>11, <1>13, <1>14, <1>15 DEF HoldsFrom, s, e
  <1> QED
    BY <1>11, <1>12, <1>13, <1>16 DEF y

\* That is what a step of MergeSorted does,
LEMMA AscendingStep ==
    ASSUME NEW n \in Nat \ {0}, NEW q \in [1..n -> WindowSlices], EndingLater(q), NEW i \in 1..n - 1,
           NEW next, i # n - 1 => MergedFrom(next, q, i + 1, n)
    PROVE  MergedFrom(MergeStep(q, n, i, next), q, i, n)
  <1>0. q[n] \in WindowSlices
    OBVIOUS
  <1>1. q[n].lines \in Seq(Nat)
    BY <1>0 DEF WindowSlices
  <1>2. CASE i = n - 1
    <2>1. i + 1 = n
      BY <1>2
    <2>2. HoldsFrom(<< >>, q, i + 1, n)
      BY <2>1, HoldsLast
    <2>3. PICK x \in Seq(Nat) :
             /\ DedupAB(q[i].lines, << >> \o q[n].lines) = Merged(x, << >> \o q[n].lines)
             /\ HoldsFrom(x \o << >>, q, i, n)
             /\ x \o (<< >> \o q[n].lines) = (x \o << >>) \o q[n].lines
      BY <2>2, HoldsOneMore
    <2>4. << >> \o q[n].lines = q[n].lines /\ x \o << >> = x
      BY <1>1
    <2>5. DedupAB(q[i].lines, q[n].lines) = Merged(x, q[n].lines) /\ HoldsFrom(x, q, i, n)
      BY <2>3, <2>4
    <2>6. MergeStep(q, n, i, next) = LastTwo(DedupAB(q[i].lines, q[n].lines))
      BY <1>2 DEF MergeStep
    <2>7. LastTwo(Merged(x, q[n].lines)) = AsMerged(x, q[n].lines)
      BY DEF LastTwo, Merged, AsMerged
    <2> QED
      BY <2>5, <2>6, <2>7 DEF MergedFrom
  <1>3. CASE i # n - 1
    <2>1. PICK z : HoldsFrom(z, q, i + 1, n) /\ next = AsMerged(z, q[n].lines)
      BY <1>3 DEF MergedFrom
    <2>2. PICK x \in Seq(Nat) :
             /\ DedupAB(q[i].lines, z \o q[n].lines) = Merged(x, z \o q[n].lines)
             /\ HoldsFrom(x \o z, q, i, n)
             /\ x \o (z \o q[n].lines) = (x \o z) \o q[n].lines
      BY <2>1, HoldsOneMore
    <2>3. MergeStep(q, n, i, next) = MergeEarlier(DedupAB(q[i].lines, next.reference), next)
      BY <1>3 DEF MergeStep
    <2>4. next.reference = z \o q[n].lines
      BY <2>1 DEF AsMerged
    <2>5. MergeEarlier(Merged(x, z \o q[n].lines), AsMerged(z, q[n].lines))
            = [result |-> x \o z, last |-> q[n].lines,
               reference |-> x \o (z \o q[n].lines), panics |-> FALSE]
      BY EarlierMerged DEF AsMerged
    <2>6. MergeStep(q, n, i, next) = AsMerged(x \o z, q[n].lines)
      BY <2>1, <2>2, <2>3, <2>4, <2>5 DEF AsMerged
    <2> QED
      BY <2>2, <2>6 DEF MergedFrom
  <1> QED
    BY <1>2, <1>3

\* MergeSorted defines its steps: they can be taken one after the other.
LEMMA StepsExist ==
    ASSUME NEW n \in Nat \ {0}, NEW q, n > 1
    PROVE  \E f : MergesAs(q, n, f)
  <1> DEFINE Part(k, f) == f = [i \in n - 1 - k..n - 1 |-> MergeStep(q, n, i, f[i + 1])]
             Good == {k \in 0..n - 2 : \E f : Part(k, f)}
  <1>1. 0 \in Good
    <2> DEFINE f == [i \in n - 1 - 0..n - 1 |-> LastTwo(DedupAB(q[i].lines, q[n].lines))]
    <2>1. \A i \in n - 1 - 0..n - 1 : i = n - 1
      OBVIOUS
    <2>2. \A i \in n - 1 - 0..n - 1 : MergeStep(q, n, i, f[i + 1]) = LastTwo(DedupAB(q[i].lines, q[n].lines))
      BY <2>1 DEF MergeStep
    <2>3. f = [i \in n - 1 - 0..n - 1 |-> MergeStep(q, n, i, f[i + 1])]
      BY <2>2
    <2>4. 0 \in 0..n - 2
      OBVIOUS
    <2> HIDE DEF f
    <2>5. Part(0, f)
      BY <2>3
    <2> QED
      BY <2>4, <2>5
  <1>2. \A k \in 1..n - 2 : k - 1 \in Good => k \in Good
    <2> SUFFICES ASSUME NEW k \in 1..n - 2, k - 1 \in Good PROVE k \in Good
      OBVIOUS
    <2>1. PICK f : Part(k - 1, f)
      OBVIOUS
    <2> DEFINE m == n - 1 - k
               g == [i \in m..n - 1 |-> IF i = m THEN MergeStep(q, n, m, f[m + 1]) ELSE f[i]]
    <2>2. m \in 1..n - 1 /\ m # n - 1 /\ m + 1 = n - 1 - (k - 1) /\ k \in 0..n - 2 /\ m + 1 \in m..n - 1
          /\ m + 1 # m /\ m \in m..n - 1
      OBVIOUS
    <2>3. f = [i \in m + 1..n - 1 |-> MergeStep(q, n, i, f[i + 1])]
      BY <2>1, <2>2
    <2>4. m = n - 1 - k
      OBVIOUS
    <2> HIDE DEF m
    <2>5. \A i \in m..n - 1 : i # m => i \in m + 1..n - 1 /\ g[i] = f[i]
      BY <2>2
    <2>6. \A i \in m..n - 1 : i # n - 1 => i + 1 \in m..n - 1 /\ i + 1 # m
      BY <2>2
    <2>7. g[m] = MergeStep(q, n, m, f[m + 1])
      BY <2>2
    <2>8. g \in [m..n - 1 -> {g[i] : i \in m..n - 1}] /\ DOMAIN g = m..n - 1
      OBVIOUS
    <2>9. g = [i \in m..n - 1 |-> g[i]]
      OBVIOUS
    <2> HIDE DEF g
    <2>10. ASSUME NEW i \in m..n - 1 PROVE g[i] = MergeStep(q, n, i, g[i + 1])
      <3>1. CASE i = m
        <4>1. g[m + 1] = f[m + 1]
          BY <2>2, <2>5
        <4> QED
          BY <2>7, <3>1, <4>1
      <3>2. CASE i # m
        <4>1. g[i] = f[i] /\ f[i] = MergeStep(q, n, i, f[i + 1])
          BY <2>3, <2>5, <3>2
        <4>2. CASE i = n - 1
          <5>1. MergeStep(q, n, i, f[i + 1]) = MergeStep(q, n, i, g[i + 1])
            BY <4>2 DEF MergeStep
          <5> QED
            BY <4>1, <5>1
        <4>3. CASE i # n - 1
          <5>1. g[i + 1] = f[i + 1]
            BY <2>5, <2>6, <4>3
          <5> QED
            BY <4>1, <5>1
        <4> QED
          BY <4>2, <4>3
      <3> QED
        BY <3>1, <3>2
    <2>11. g = [i \in m..n - 1 |-> MergeStep(q, n, i, g[i + 1])]
      BY <2>9, <2>10
    <2>12. Part(k, g)
      BY <2>4, <2>11
    <2> QED
      BY <2>2, <2>12
  <1>3. n - 2 \in Nat
    OBVIOUS
  <1>4. 0..n - 2 \subseteq Good
    <2> HIDE DEF Good
    <2> QED
      BY <1>1, <1>2, <1>3, InductionTo
  <1>5. n - 2 \in 0..n - 2 /\ n - 1 - (n - 2) = 1
    OBVIOUS
  <1>6. PICK f : Part(n - 2, f)
    BY <1>4, <1>5
  <1>7. f = [i \in 1..n - 1 |-> MergeStep(q, n, i, f[i + 1])]
    BY <1>5, <1>6
  <1> QED
    BY <1>7 DEF MergesAs

\* so that all its steps come to the lines of all slices.
LEMMA AscendingMerges ==
    ASSUME NEW n \in Nat \ {0}, NEW q \in [1..n -> WindowSlices], EndingLater(q), n > 1
    PROVE  MergedFrom(MergeSorted(q), q, 1, n)
  <1> DEFINE F == CHOOSE f : MergesAs(q, n, f)
  <1>1. Len(q) = n
    OBVIOUS
  <1>2. MergeSorted(q) = F[1]
    BY <1>1 DEF MergeSorted, MergesAs, MergeStep
  <1>3. MergesAs(q, n, F)
    BY StepsExist
  <1> HIDE DEF F
  <1> DEFINE Good == {k \in 0..n - 2 : MergedFrom(F[n - 1 - k], q, n - 1 - k, n)}
  <1>4. \A i \in 1..n - 1 : F[i] = MergeStep(q, n, i, F[i + 1])
    BY <1>3 DEF MergesAs
  <1>5. 0 \in Good
    <2>1. n - 1 \in 1..n - 1 /\ 0 \in 0..n - 2 /\ n - 1 - 0 = n - 1
      OBVIOUS
    <2>2. MergedFrom(MergeStep(q, n, n - 1, F[n - 1 + 1]), q, n - 1, n)
      BY <2>1, AscendingStep
    <2> QED
      BY <1>4, <2>1, <2>2
  <1>6. \A k \in 1..n - 2 : k - 1 \in Good => k \in Good
    <2> SUFFICES ASSUME NEW k \in 1..n - 2, k - 1 \in Good PROVE k \in Good
      OBVIOUS
    <2> DEFINE i == n - 1 - k
    <2>1. i \in 1..n - 1 /\ i + 1 = n - 1 - (k - 1) /\ k \in 0..n - 2
      OBVIOUS
    <2>2. MergedFrom(F[i + 1], q, i + 1, n)
      BY <2>1
    <2> HIDE DEF i
    <2>3. MergedFrom(MergeStep(q, n, i, F[i + 1]), q, i, n)
      BY <2>1, <2>2, AscendingStep
    <2>4. MergedFrom(F[i], q, i, n)
      BY <1>4, <2>1, <2>3
    <2> QED
      BY <2>1, <2>4 DEF i
  <1>7. n - 2 \in Nat
    OBVIOUS
  <1>8. 0..n - 2 \subseteq Good
    <2> HIDE DEF Good
    <2> QED
      BY <1>5, <1>6, <1>7, InductionTo
  <1>9. n - 2 \in 0..n - 2 /\ n - 1 - (n - 2) = 1
    OBVIOUS
  <1> QED
    BY <1>2, <1>8, <1>9

\* The two slices that come of it hold every line read, in order.
LEMMA AscendingDedup ==
    ASSUME NEW n \in Nat \ {0}, NEW q \in [1..n -> WindowSlices], EndingLater(q)
    PROVE  /\ DedupSorted(q).panics = FALSE
           /\ HoldsFrom(DedupSorted(q).earlier.lines, q, 1, n)
           /\ DedupSorted(q).last.lines = q[n].lines
  <1>1. Len(q) = n /\ q \in Seq(WindowSlices) /\ n \in 1..n
    OBVIOUS
  <1>2. CASE n = 1
    <2>1. DedupSorted(q) = [earlier |-> Slice(<< >>, 0), last |-> q[1], panics |-> FALSE]
      BY <1>1, <1>2 DEF DedupSorted
    <2>2. HoldsFrom(<< >>, q, 1, n)
      BY <1>2, HoldsLast
    <2> QED
      BY <1>2, <2>1, <2>2 DEF Slice
  <1>3. CASE n # 1
    <2>1. n > 1
      BY <1>3
    <2>2. PICK z : HoldsFrom(z, q, 1, n) /\ MergeSorted(q) = AsMerged(z, q[n].lines)
      BY <2>1, AscendingMerges DEF MergedFrom
    <2>3. DedupSorted(q) = TwoSlices(q, AsMerged(z, q[n].lines))
      BY <1>1, <1>3, <2>2 DEF DedupSorted
    <2>4. /\ DedupSorted(q).earlier.lines = z /\ DedupSorted(q).last.lines = q[n].lines
          /\ DedupSorted(q).panics = FALSE
      BY <2>3 DEF TwoSlices, Slice, AsMerged
    <2> QED
      BY <2>2, <2>4
  <1> QED
    BY <1>2, <1>3

\* Slices that sort into such a list are merged into every line read.
ReadAll(d, list, n) ==
    /\ d.panics = FALSE
    /\ d.earlier.lines \o d.last.lines \in Seq(Nat) /\ Increasing(d.earlier.lines \o d.last.lines)
    /\ \A l : In(l, d.earlier.lines \o d.last.lines) <=> ReadFrom(l, list, 1, n)

\* DedupLineSlices merges all slices when they sort into such a list.
LEMMA ListMerges ==
    ASSUME NEW n \in Nat \ {0}, NEW list \in [1..n -> WindowSlices], NEW p \in [1..n -> 1..n],
           Rearranges(p, n, list, Sorted(list)), EndingLater(Sorted(list))
    PROVE  ReadAll(DedupLineSlices(list), list, n)
  <1> DEFINE q == Sorted(list)
             d == DedupLineSlices(list)
  <1>1. d = DedupSorted(q)
    BY DEF DedupLineSlices
  <1>2. q = [k \in 1..n |-> list[p[k]]] /\ \A i \in 1..n : \E k \in 1..n : p[k] = i
    BY DEF Rearranges
  <1>3. EndingLater(q)
    OBVIOUS
  <1> HIDE DEF q, d
  <1>4. q \in [1..n -> WindowSlices]
    BY <1>2
  <1>5. /\ d.panics = FALSE /\ HoldsFrom(d.earlier.lines, q, 1, n)
        /\ d.last.lines = q[n].lines
    BY <1>1, <1>3, <1>4, AscendingDedup
  <1>6. \A l : ReadFrom(l, q, 1, n) <=> ReadFrom(l, list, 1, n)
    BY <1>2 DEF ReadFrom
  <1>7. ReadAll(d, list, n)
    BY <1>5, <1>6 DEF ReadAll, HoldsFrom, Starts
  <1> QED
    BY <1>7 DEF d

\* Slices that already begin and end no earlier than the ones before them, and
\* slices that begin alike, are sorted into such a list.
SlicesMonotone(list) ==
    \A i, j \in DOMAIN list : i < j => Since(list[i]) <= Since(list[j]) /\ End(list[i]) <= End(list[j])
SlicesAlike(list) == \A i, j \in DOMAIN list : Since(list[i]) = Since(list[j])

\* They do when they are so already or begin alike.
LEMMA SortedLater ==
    ASSUME NEW n \in Nat \ {0}, NEW list \in [1..n -> WindowSlices], NEW p \in [1..n -> 1..n],
           Rearranges(p, n, list, Sorted(list)), SlicesMonotone(list) \/ SlicesAlike(list)
    PROVE  EndingLater(Sorted(list))
  <1> DEFINE q == Sorted(list)
  <1>1. q = [k \in 1..n |-> list[p[k]]] /\ SlicesInOrder(q)
    BY DEF Rearranges
  <1> HIDE DEF q
  <1>2. DOMAIN q = 1..n /\ DOMAIN list = 1..n
    BY <1>1
  <1> SUFFICES ASSUME NEW i \in 1..n, NEW j \in 1..n, i < j
               PROVE  Since(q[i]) <= Since(q[j]) /\ End(q[i]) <= End(q[j])
    BY <1>2 DEF EndingLater, q
  <1>3. q[i] = list[p[i]] /\ q[j] = list[p[j]] /\ p[i] \in 1..n /\ p[j] \in 1..n
    BY <1>1
  <1>4. /\ Since(q[i]) \in Nat /\ End(q[i]) \in Nat
        /\ Since(q[j]) \in Nat /\ End(q[j]) \in Nat
    BY <1>3, SliceIs
  <1>5. \/ Since(q[i]) < Since(q[j])
        \/ Since(q[i]) = Since(q[j]) /\ End(q[i]) <= End(q[j])
    BY <1>1, <1>2 DEF SlicesInOrder
  <1> DEFINE si == Since(q[i])
             sj == Since(q[j])
             ei == End(q[i])
             ej == End(q[j])
  <1>6. /\ si \in Nat /\ sj \in Nat /\ ei \in Nat /\ ej \in Nat
        /\ si < sj \/ (si = sj /\ ei <= ej)
    BY <1>4, <1>5
  <1> SUFFICES si <= sj /\ ei <= ej
    OBVIOUS
  <1>7. CASE SlicesMonotone(list)
    <2>1. CASE p[i] < p[j]
      BY <1>2, <1>3, <1>7, <2>1 DEF SlicesMonotone
    <2>2. CASE p[j] < p[i]
      <3>1. sj <= si
        BY <1>2, <1>3, <1>7, <2>2 DEF SlicesMonotone
      <3> HIDE DEF si, sj, ei, ej
      <3> QED
        BY <1>6, <3>1
    <2>3. CASE p[i] = p[j]
      BY <1>3, <1>4, <2>3
    <2> QED
      BY <1>3, <2>1, <2>2, <2>3
  <1>8. CASE SlicesAlike(list)
    <2>1. si = sj
      BY <1>2, <1>3, <1>8 DEF SlicesAlike
    <2> HIDE DEF si, sj, ei, ej
    <2> QED
      BY <1>6, <2>1
  <1> QED
    BY <1>7, <1>8

-----------------------------------------------------------------------------
(* The windows that are read.                                              *)

ReadInv == windows \in Seq(Windows)

\* What is read are windows, whatever they are.
LEMMA ReadsWindows == Reading => []ReadInv
  <1>1. NothingRead => ReadInv
    BY DEF NothingRead, ReadInv
  <1>2. ReadInv /\ [ReadWindow]_windows => ReadInv'
    <2> SUFFICES ASSUME ReadInv, [ReadWindow]_windows PROVE ReadInv'
      OBVIOUS
    <2>1. CASE ReadWindow
      <3>1. PICK w \in Windows : windows' = Append(windows, w)
        BY <2>1 DEF ReadWindow
      <3> QED
        BY <3>1 DEF ReadInv
    <2>2. CASE windows' = windows
      BY <2>2 DEF ReadInv
    <2> QED
      BY <2>1, <2>2
  <1> QED
    BY <1>1, <1>2, PTL DEF Reading

\* The lines of a window are in order.
LEMMA WindowsAre ==
    ASSUME NEW w \in Windows
    PROVE  w \in Seq(Nat) /\ w # << >> /\ Increasing(w) /\ (\A i \in 1..Len(w) : w[i] # 0)
  <1>1. PICK n \in 1..MaxLine : w \in [1..n -> 1..MaxLine] /\ InOrder(w)
    BY DEF Windows
  <1>2. MaxLine \in Nat /\ n \in Nat \ {0}
    BY WindowBounds
  <1>3. w \in [1..n -> Nat] /\ \A i \in 1..n : w[i] # 0
    BY <1>1, <1>2
  <1>4. w \in Seq(Nat) /\ Len(w) = n
    BY <1>2, <1>3
  <1>5. w # << >>
    BY <1>2, <1>4
  <1>6. ASSUME NEW i \in 1..n, NEW j \in 1..n, i < j PROVE w[i] < w[j]
    <2> DEFINE S == {k \in 0..n : i < k /\ k <= n => w[i] < w[k]}
    <2>1. 0 \in S
      BY <1>2
    <2>2. ASSUME NEW k \in 1..n, k - 1 \in S PROVE k \in S
      <3>1. SUFFICES ASSUME i < k PROVE w[i] < w[k]
        BY <1>2
      <3>2. k - 1 \in 1..Len(w) - 1 /\ k - 1 + 1 = k /\ k - 1 \in 1..n /\ i <= k - 1
        BY <1>2, <1>4, <3>1
      <3>3. w[k - 1] < w[k]
        BY <1>1, <3>2 DEF InOrder
      <3>4. w[i] \in Nat /\ w[k] \in Nat
        BY <1>3
      <3>5. w[k - 1] \in Nat
        BY <1>3, <3>2
      <3>6. i = k - 1 \/ i < k - 1
        BY <3>2
      <3>7. w[i] <= w[k - 1]
        BY <1>2, <2>2, <3>2, <3>4, <3>5, <3>6
      <3> QED
        BY <3>3, <3>4, <3>5, <3>7
    <2> HIDE DEF S
    <2>3. 0..n \subseteq S
      BY <1>2, <2>1, <2>2, InductionTo
    <2>4. j \in S
      BY <1>2, <2>3
    <2> QED
      BY <1>2, <1>6, <2>4 DEF S
  <1> QED
    BY <1>3, <1>4, <1>5, <1>6 DEF Increasing

\* Windows without gaps are the lines from one to another.
LEMMA ContiguousIs ==
    ASSUME NEW w \in Windows, Contiguous(w)
    PROVE  \E a, b \in Nat : a < b /\ w = Window(a, b)
  <1>1. w \in Seq(Nat) /\ w # << >> /\ (\A i \in 1..Len(w) : w[i] # 0)
    BY WindowsAre
  <1>2. PICK n \in Nat : n = Len(w)
    BY <1>1
  <1>3. n # 0 /\ 1 \in 1..n /\ w[1] \in Nat \ {0}
    BY <1>1, <1>2
  <1>4. PICK a \in Nat : a = w[1] - 1
    BY <1>3
  <1> DEFINE S == {k \in 0..n : k # 0 => w[k] = a + k}
  <1>5. 0 \in S
    OBVIOUS
  <1>6. ASSUME NEW k \in 1..n, k - 1 \in S PROVE k \in S
    <2>1. CASE k = 1
      BY <1>3, <1>4, <2>1
    <2>2. CASE k # 1
      <3>1. k - 1 \in 1..Len(w) - 1 /\ k - 1 + 1 = k /\ k - 1 # 0
        BY <1>2, <2>2
      <3>2. w[k] = w[k - 1] + 1
        BY <3>1 DEF Contiguous
      <3>3. w[k - 1] = a + (k - 1)
        BY <1>6, <3>1
      <3> QED
        BY <3>2, <3>3
    <2> QED
      BY <2>1, <2>2
  <1> HIDE DEF S
  <1>7. 0..n \subseteq S
    BY <1>5, <1>6, InductionTo
  <1>8. \A k \in 1..n : w[k] = a + k
    BY <1>7 DEF S
  <1>9. a + n \in Nat /\ a < a + n /\ a <= a + n /\ a + n - a = n
    BY <1>3
  <1> DEFINE b == a + n
             u == Window(a, b)
  <1>10. u \in Seq(Nat) /\ Len(u) = n /\ \A i \in 1..n : u[i] = a + i
    BY <1>9, WindowIs
  <1> HIDE DEF u, b
  <1>11. w = u
    BY <1>1, <1>2, <1>8, <1>10, SameLists
  <1> QED
    BY <1>9, <1>11 DEF u, b

\* A slice of one of them.
LEMMA SlicesAre ==
    ASSUME ReadInv, NoGaps, windows # << >>
    PROVE  \E n \in Nat \ {0} :
             /\ Len(windows) = n /\ DOMAIN windows = 1..n /\ Slices \in [1..n -> WindowSlices]
             /\ \A i \in 1..n : /\ Slices[i].lines = windows[i] /\ windows[i] \in Windows
                                /\ Since(Slices[i]) = windows[i][1] - 1 /\ windows[i][1] \in Nat
                                /\ End(Slices[i]) = Last(windows[i])
  <1>1. windows \in Seq(Windows)
    BY DEF ReadInv
  <1>2. PICK n \in Nat \ {0} : Len(windows) = n /\ DOMAIN windows = 1..n
    BY <1>1
  <1>3. ASSUME NEW i \in 1..n
        PROVE  /\ Slice(windows[i], i) \in WindowSlices /\ windows[i] \in Windows
               /\ windows[i][1] \in Nat
    <2>1. windows[i] \in Windows /\ Contiguous(windows[i]) /\ i \in Nat
      BY <1>1, <1>2 DEF NoGaps
    <2>2. PICK a \in Nat, b \in Nat : a < b /\ windows[i] = Window(a, b)
      BY <2>1, ContiguousIs
    <2>3. windows[i] \in Seq(Nat) /\ windows[i] # << >>
      BY <2>1, WindowsAre
    <2>4. windows[i][1] \in Nat
      BY <2>3
    <2>5. Slice(Window(a, b), i) \in WindowSlices
      BY <2>1, <2>2, SliceOf
    <2> QED
      BY <2>1, <2>2, <2>4, <2>5
  <1>4. Slices = [i \in 1..n |-> Slice(windows[i], i)]
    BY <1>2 DEF Slices
  <1>5. Slices \in [1..n -> WindowSlices]
    BY <1>3, <1>4
  <1>6. ASSUME NEW i \in 1..n
        PROVE  /\ Slices[i].lines = windows[i] /\ Since(Slices[i]) = windows[i][1] - 1
               /\ End(Slices[i]) = Last(windows[i])
    <2>1. Slices[i].lines = windows[i]
      BY <1>4 DEF Slice
    <2> QED
      BY <2>1 DEF Since, End, Last
  <1> QED
    BY <1>2, <1>3, <1>5, <1>6

\* The set of the lines of a list.
LEMMA ToSetIs ==
    ASSUME NEW s \in Seq(Nat), NEW l
    PROVE  l \in ToSet(s) <=> In(l, s)
  <1>1. DOMAIN s = 1..Len(s)
    OBVIOUS
  <1> QED
    BY <1>1 DEF ToSet, In

\* Lines in order are so from each to the next.
LEMMA InOrderIs ==
    ASSUME NEW s \in Seq(Nat), Increasing(s)
    PROVE  InOrder(s)
  <1> SUFFICES ASSUME NEW i \in 1..Len(s) - 1 PROVE s[i] < s[i + 1]
    BY DEF InOrder
  <1>1. i \in 1..Len(s) /\ i + 1 \in 1..Len(s) /\ i < i + 1
    OBVIOUS
  <1> QED
    BY <1>1 DEF Increasing

\* Exactly the lines read.
LEMMA ExactlyRead ==
    ASSUME ReadInv, NEW y \in Seq(Nat), Increasing(y),
           \A l : In(l, y) <=> \E i \in 1..Len(windows) : In(l, windows[i])
    PROVE  Exactly(y, Read)
  <1>1. windows \in Seq(Windows) /\ DOMAIN windows = 1..Len(windows)
    BY DEF ReadInv
  <1>2. \A i \in 1..Len(windows) : windows[i] \in Seq(Nat)
    BY <1>1, WindowsAre
  <1>3. \A l : l \in Read <=> \E i \in 1..Len(windows) : l \in ToSet(windows[i])
    BY <1>1 DEF Read
  <1>4. \A l : l \in Read <=> \E i \in 1..Len(windows) : In(l, windows[i])
    BY <1>2, <1>3, ToSetIs
  <1>5. \A l : l \in ToSet(y) <=> l \in Read
    BY <1>4, ToSetIs
  <1>6. ToSet(y) = Read
    BY <1>5
  <1> QED
    BY <1>6, InOrderIs DEF Exactly

\* The list that was read is merged when it sorts well.
LEMMA ReadMerges ==
    ASSUME ReadInv, NoGaps, windows # << >>, SlicesMonotone(Slices) \/ SlicesAlike(Slices)
    PROVE  /\ DedupLineSlices(Slices).panics = FALSE
           /\ Exactly(DedupLineSlices(Slices).earlier.lines \o DedupLineSlices(Slices).last.lines, Read)
  <1>1. PICK n \in Nat \ {0} :
             /\ Len(windows) = n /\ DOMAIN windows = 1..n /\ Slices \in [1..n -> WindowSlices]
             /\ \A i \in 1..n : Slices[i].lines = windows[i]
    BY SlicesAre
  <1> DEFINE d == DedupLineSlices(Slices)
             y == d.earlier.lines \o d.last.lines
  <1>2. PICK p \in [1..n -> 1..n] : Rearranges(p, n, Slices, Sorted(Slices))
    BY <1>1, SortedIs
  <1>3. EndingLater(Sorted(Slices))
    BY <1>1, <1>2, SortedLater
  <1>4. ReadAll(d, Slices, n)
    BY <1>1, <1>2, <1>3, ListMerges
  <1> HIDE DEF d
  <1>5. d.panics = FALSE /\ y \in Seq(Nat) /\ Increasing(y) /\ \A l : In(l, y) <=> ReadFrom(l, Slices, 1, n)
    BY <1>4 DEF ReadAll
  <1> HIDE DEF y
  <1>6. \A l : In(l, y) <=> \E i \in 1..Len(windows) : In(l, windows[i])
    BY <1>1, <1>5 DEF ReadFrom
  <1>7. Exactly(y, Read)
    BY <1>5, <1>6, ExactlyRead
  <1> QED
    BY <1>5, <1>7 DEF y, d

\* DedupLineSlices: of any number of windows without gaps, of any log, each
\* ending no earlier than those that begin before it, exactly the lines read
\* are left.
THEOREM MonotoneWindowsAreMerged == Reading => []MonotoneWindowsMerge
  <1>1. ReadInv => MonotoneWindowsMerge
    <2> SUFFICES ASSUME ReadInv, Monotone, windows # << >>, NoGaps
                 PROVE  /\ ~ DedupLineSlices(Slices).panics
                        /\ Exactly(DedupLineSlices(Slices).earlier.lines
                                     \o DedupLineSlices(Slices).last.lines, Read)
      BY DEF MonotoneWindowsMerge
    <2>1. SlicesMonotone(Slices)
      <3>1. PICK n \in Nat \ {0} :
             /\ DOMAIN windows = 1..n /\ Slices \in [1..n -> WindowSlices]
             /\ \A i \in 1..n : /\ Since(Slices[i]) = windows[i][1] - 1 /\ windows[i][1] \in Nat
                                /\ End(Slices[i]) = Last(windows[i])
        BY SlicesAre
      <3> SUFFICES ASSUME NEW i \in 1..n, NEW j \in 1..n, i < j
                   PROVE  Since(Slices[i]) <= Since(Slices[j]) /\ End(Slices[i]) <= End(Slices[j])
        BY <3>1 DEF SlicesMonotone
      <3>2. windows[i][1] <= windows[j][1] /\ Last(windows[i]) <= Last(windows[j])
        BY <3>1 DEF Monotone
      <3> QED
        BY <3>1, <3>2
    <2> QED
      BY <2>1, ReadMerges
  <1> QED
    BY <1>1, ReadsWindows, PTL

\* DedupGeneration: so they are of windows that begin alike, in any order.
THEOREM GenerationsAreMerged == Reading => []GenerationMerges
  <1>1. ReadInv => GenerationMerges
    <2> SUFFICES ASSUME ReadInv, windows # << >>, NoGaps,
                        \A i \in DOMAIN windows : windows[i][1] = windows[1][1]
                 PROVE  /\ ~ DedupGeneration(Slices).panics
                        /\ Exactly(DedupGeneration(Slices).slice.lines, Read)
      BY DEF GenerationMerges
    <2>1. SlicesAlike(Slices)
      <3>1. PICK n \in Nat \ {0} :
             /\ DOMAIN windows = 1..n /\ Slices \in [1..n -> WindowSlices]
             /\ \A i \in 1..n : Since(Slices[i]) = windows[i][1] - 1
        BY SlicesAre
      <3> QED
        BY <3>1 DEF SlicesAlike
    <2> DEFINE d == DedupLineSlices(Slices)
    <2>2. d.panics = FALSE /\ Exactly(d.earlier.lines \o d.last.lines, Read)
      BY <2>1, ReadMerges
    <2>3. DedupGeneration(Slices) = OneSlice(d)
      BY DEF DedupGeneration
    <2> HIDE DEF d
    <2>4. OneSlice(d).panics = d.panics /\ OneSlice(d).slice.lines = d.earlier.lines \o d.last.lines
      BY DEF OneSlice, Slice
    <2> QED
      BY <2>2, <2>3, <2>4
  <1> QED
    BY <1>1, ReadsWindows, PTL

\* DedupAB: two windows are merged into the lines of both when only one misses
\* lines of the other in the overlap, however many and wherever they are.
THEOREM OneSidedGapsAreFilled == Reading => []GapsOfOneSideMerge
  <1>1. ReadInv => GapsOfOneSideMerge
    <2> SUFFICES ASSUME ReadInv, IsPair, Second[1] \in ToSet(First), Last(First) \in ToSet(Second),
                        Common(First) \subseteq Common(Second) \/ Common(Second) \subseteq Common(First)
                 PROVE  /\ ~ DedupAB(First, Second).panics
                        /\ Exactly(DedupAB(First, Second).a \o DedupAB(First, Second).b, Read)
      BY DEF GapsOfOneSideMerge
    <2>1. windows \in Seq(Windows) /\ Len(windows) = 2
      BY DEF ReadInv, IsPair
    <2>2. First \in Windows /\ Second \in Windows /\ First = windows[1] /\ Second = windows[2]
      <3>1. First = windows[1] /\ Second = windows[2]
        BY DEF First, Second
      <3>2. windows[1] \in Windows /\ windows[2] \in Windows
        BY <2>1
      <3> QED
        BY <3>1, <3>2
    <2> DEFINE a == First
               b == Second
               d == DedupAB(a, b)
               y == d.a \o d.b
    <2>3. a \in Seq(Nat) /\ b \in Seq(Nat) /\ a # << >> /\ b # << >> /\ Increasing(a) /\ Increasing(b)
      BY <2>2, WindowsAre
    <2>4. In(b[1], a) /\ In(Last(a), b)
      BY <2>3, ToSetIs
    <2>5. Last(a) = Latest(a)
      BY DEF Last, Latest
    <2>6. \/ \A l \in Nat : In(l, a) /\ b[1] <= l /\ l <= Latest(a) => In(l, b)
          \/ \A l \in Nat : In(l, b) /\ b[1] <= l /\ l <= Latest(a) => In(l, a)
      <3>1. \A l : l \in Common(a) <=> In(l, a) /\ b[1] <= l /\ l <= Latest(a)
        BY <2>3, <2>5, ToSetIs DEF Common
      <3>2. \A l : l \in Common(b) <=> In(l, b) /\ b[1] <= l /\ l <= Latest(a)
        BY <2>3, <2>5, ToSetIs DEF Common
      <3>3. CASE Common(a) \subseteq Common(b)
        BY <3>1, <3>2, <3>3
      <3>4. CASE Common(b) \subseteq Common(a)
        BY <3>1, <3>2, <3>4
      <3> QED
        BY <3>3, <3>4
    <2> HIDE DEF a, b
    <2>7. OneSided(a, b)
      BY <2>6 DEF OneSided
    <2>8. AllKept(d, a, b)
      BY <2>3, <2>4, <2>5, <2>7, OneSidedMerges
    <2> HIDE DEF d
    <2>9. d.panics = FALSE /\ y \in Seq(Nat) /\ Increasing(y) /\ LinesOf(y, a, b)
      BY <2>8 DEF AllKept
    <2> HIDE DEF y
    <2>10. \A l : In(l, y) <=> \E i \in 1..Len(windows) : In(l, windows[i])
      <3>1. \A i \in 1..2 : i = 1 \/ i = 2
        OBVIOUS
      <3>2. 1 \in 1..2 /\ 2 \in 1..2
        OBVIOUS
      <3> QED
        BY <2>1, <2>2, <2>9, <3>1, <3>2 DEF LinesOf, a, b
    <2>11. Exactly(y, Read)
      BY <2>9, <2>10, ExactlyRead
    <2> QED
      BY <2>9, <2>11 DEF y, d, a, b
  <1> QED
    BY <1>1, ReadsWindows, PTL

\* DedupAB indexes no window out of its range, whatever gaps the two have.
THEOREM MergesNeverPanic == Reading => []MergeNeverPanics
  <1>1. ReadInv => MergeNeverPanics
    <2> SUFFICES ASSUME ReadInv, Len(windows) = 2 PROVE ~ DedupAB(First, Second).panics
      BY DEF MergeNeverPanics
    <2>1. First \in Windows /\ Second \in Windows
      BY DEF First, Second, ReadInv
    <2> DEFINE a == First
               b == Second
    <2>2. a \in Seq(Nat) /\ b \in Seq(Nat) /\ a # << >> /\ b # << >> /\ Increasing(a) /\ Increasing(b)
      BY <2>1, WindowsAre
    <2> HIDE DEF a, b
    <2>3. DedupAB(a, b).panics = FALSE
      BY <2>2, MergeIsSafe
    <2> QED
      BY <2>3 DEF a, b
  <1> QED
    BY <1>1, ReadsWindows, PTL

-----------------------------------------------------------------------------
(* The store: its generations as a list, and what flush() makes of them.   *)

\* A finite set as a list: each element has a place.
LEMMA SetAsList ==
    ASSUME NEW S, IsFiniteSet(S)
    PROVE  /\ SetToSeq(S) \in [1..Cardinality(S) -> S]
           /\ \A x \in S : \E k \in 1..Cardinality(S) : SetToSeq(S)[k] = x
  <1> DEFINE n == Cardinality(S)
             f == SetToSeq(S)
  <1>1. n \in Nat /\ ExistsBijection(1..n, S)
    BY FS_CardinalityType
  <1>2. PICK b : b \in Bijection(1..n, S)
    BY <1>1 DEF ExistsBijection
  <1>3. b \in [1..n -> S] /\ IsInjective(b)
    BY <1>2, Fun_BijectionProperties DEF Injection
  <1>4. f \in [1..n -> S] /\ IsInjective(f)
    BY <1>3 DEF SetToSeq
  <1>5. f \in Injection(1..n, S)
    BY <1>4 DEF Injection
  <1>6. Cardinality(1..n) = n
    <2> HIDE DEF n
    <2>1. 1 \in Int /\ n \in Int
      BY <1>1
    <2>2. Cardinality(1..n) = IF 1 > n THEN 0 ELSE n - 1 + 1
      BY <2>1, FS_Interval
    <2> QED
      BY <1>1, <2>2
  <1>7. f \in Surjection(1..n, S)
    <2> HIDE DEF f
    <2> QED
      BY <1>5, <1>6, FS_Injection
  <1>8. \A x \in S : \E k \in 1..n : f[k] = x
    <2> HIDE DEF f, n
    <2> QED
      BY <1>7 DEF Surjection
  <1> QED
    BY <1>4, <1>8

\* A set with an element has a size of one at least.
LEMMA NotEmpty ==
    ASSUME NEW S, IsFiniteSet(S), S # {}
    PROVE  Cardinality(S) \in Nat \ {0}
  BY FS_CardinalityType, FS_EmptySet

(* The slices of one generation begin alike: the longest one is left.      *)

\* Of two slices of windows, the one is no earlier than the other when neither
\* its ends nor its generation are.
LEMMA NoEarlierIs ==
    ASSUME NEW s \in WindowSlices, NEW t \in WindowSlices
    PROVE  NoEarlier(s, t) <=> /\ Since(t) <= Since(s) /\ End(t) <= End(s)
                               /\ t.gen <= s.gen
  <1>1. /\ Since(s) \in Nat /\ End(s) \in Nat /\ s.gen \in Nat
        /\ s.lines[1] = Since(s) + 1 /\ Last(s.lines) = End(s)
    BY SliceIs
  <1>2. /\ Since(t) \in Nat /\ End(t) \in Nat /\ t.gen \in Nat
        /\ t.lines[1] = Since(t) + 1 /\ Last(t.lines) = End(t)
    BY SliceIs
  <1>3. Head(s.lines) = Since(s) + 1 /\ Head(t.lines) = Since(t) + 1
    BY <1>1, <1>2
  <1> QED
    BY <1>1, <1>2, <1>3 DEF NoEarlier

\* Of any two slices, one is no earlier than the other.
Ordered(X) == \A s, t \in X : NoEarlier(s, t) \/ NoEarlier(t, s)
\* Where a slice begins after another, one that begins before goes on to there.
Joined(X) ==
    \A s, t \in X : Since(s) < Since(t) =>
        \E y \in X : Since(y) < Since(t) /\ Since(t) <= End(y)
\* The slices merged: from the first line of any of them, the last one apart.
MergesTo(d, X) ==
    /\ d.panics = FALSE /\ d.last \in X
    /\ \A s \in X : End(s) <= End(d.last)
    /\ \E x \in X : /\ \A s \in X : Since(x) <= Since(s)
                    /\ d.earlier.lines = Window(Since(x), Since(d.last))

\* A list of ordered and joined slices is merged without a gap or a panic.
LEMMA ListMerged ==
    ASSUME NEW X \in SUBSET WindowSlices, NEW n \in Nat \ {0}, NEW list \in [1..n -> X],
           \A x \in X : \E k \in 1..n : list[k] = x, Ordered(X), Joined(X)
    PROVE  MergesTo(DedupLineSlices(list), X)
  <1> DEFINE q == Sorted(list)
             d == DedupSorted(q)
  <1>1. DedupLineSlices(list) = d
    BY DEF DedupLineSlices
  <1>2. list \in [1..n -> WindowSlices]
    OBVIOUS
  <1>3. PICK p \in [1..n -> 1..n] : Rearranges(p, n, list, q)
    BY <1>2, SortedIs
  <1> HIDE DEF q
  <1>4. q \in [1..n -> X] /\ \A k \in 1..n : q[k] = list[p[k]]
    BY <1>3 DEF Rearranges
  <1>5. ASSUME NEW x \in X
        PROVE  \E k \in 1..n : q[k] = x
    <2>1. PICK i \in 1..n : list[i] = x
      BY <1>5
    <2>2. PICK k \in 1..n : p[k] = i
      BY <1>3 DEF Rearranges
    <2> QED
      BY <1>4, <2>1, <2>2
  <1>6. q \in [1..n -> WindowSlices] /\ SlicesInOrder(q) /\ DOMAIN q = 1..n
    BY <1>3, <1>4 DEF Rearranges
  <1>7. \A i \in 1..n : /\ q[i] \in X /\ q[i] \in WindowSlices
                        /\ Since(q[i]) \in Nat /\ End(q[i]) \in Nat /\ Since(q[i]) < End(q[i])
    <2> TAKE i \in 1..n
    <2>1. q[i] \in X /\ q[i] \in WindowSlices
      BY <1>4
    <2> QED
      BY <2>1, SliceIs
  <1>8. ASSUME NEW i \in 1..n, NEW j \in 1..n, i <= j
        PROVE  Since(q[i]) <= Since(q[j]) /\ End(q[i]) <= End(q[j])
    <2>1. i = j \/ i < j
      BY <1>8
    <2> DEFINE a == Since(q[i])
               b == End(q[i])
               s == Since(q[j])
               e == End(q[j])
    <2>4. a \in Nat /\ b \in Nat /\ s \in Nat /\ e \in Nat
      BY <1>7
    <2>2. CASE i = j
      <3>1. a = s /\ b = e
        BY <2>2
      <3> HIDE DEF a, b, s, e
      <3>2. a <= s /\ b <= e
        BY <2>4, <3>1
      <3> QED
        BY <3>2 DEF a, b, s, e
    <2>3. CASE i < j
      <3>1. \/ Since(q[i]) < Since(q[j])
            \/ Since(q[i]) = Since(q[j]) /\ End(q[i]) <= End(q[j])
        BY <1>6, <2>3 DEF SlicesInOrder
      <3>2. NoEarlier(q[i], q[j]) \/ NoEarlier(q[j], q[i])
        BY <1>7 DEF Ordered
      <3>3. NoEarlier(q[i], q[j]) => Since(q[j]) <= Since(q[i]) /\ End(q[j]) <= End(q[i])
        BY <1>7, NoEarlierIs
      <3>4. NoEarlier(q[j], q[i]) => Since(q[i]) <= Since(q[j]) /\ End(q[i]) <= End(q[j])
        BY <1>7, NoEarlierIs
      <3>5. /\ a < s \/ (a = s /\ b <= e)
            /\ (s <= a /\ e <= b) \/ (a <= s /\ b <= e)
        BY <3>1, <3>2, <3>3, <3>4
      <3> HIDE DEF a, b, s, e
      <3>6. a <= s /\ b <= e
        BY <2>4, <3>5
      <3> QED
        BY <3>6 DEF a, b, s, e
    <2> QED
      BY <2>1, <2>2, <2>3
  <1>9. ASSUME NEW i \in 1..n - 1
        PROVE  Since(q[i + 1]) <= End(q[i])
    <2>1. i \in 1..n /\ i + 1 \in 1..n /\ i <= i + 1
      OBVIOUS
    <2>2. Since(q[i]) <= Since(q[i + 1])
      BY <1>8, <2>1
    <2>3. CASE Since(q[i]) = Since(q[i + 1])
      BY <1>7, <2>1, <2>3
    <2>4. CASE Since(q[i]) < Since(q[i + 1])
      <3>1. PICK y \in X : Since(y) < Since(q[i + 1]) /\ Since(q[i + 1]) <= End(y)
        BY <1>7, <2>1, <2>4 DEF Joined
      <3>2. PICK k \in 1..n : q[k] = y
        BY <1>5
      <3>3. ~ (i + 1 <= k)
        <4>1. i + 1 <= k => Since(q[i + 1]) <= Since(q[k])
          BY <1>8, <2>1
        <4>2. Since(q[i + 1]) \in Nat /\ Since(q[k]) \in Nat /\ Since(q[k]) < Since(q[i + 1])
          BY <1>7, <2>1, <3>1, <3>2
        <4>3. ~ (Since(q[i + 1]) <= Since(q[k]))
          BY <4>2
        <4> QED
          BY <4>1, <4>3
      <3>4. k <= i
        BY <3>3
      <3>5. End(q[k]) <= End(q[i])
        BY <1>8, <2>1, <3>4
      <3>6. /\ Since(q[i + 1]) \in Nat /\ End(q[k]) \in Nat /\ End(q[i]) \in Nat
            /\ Since(q[i + 1]) <= End(q[k])
        BY <1>7, <2>1, <3>1, <3>2
      <3> QED
        BY <3>5, <3>6
    <2> QED
      BY <1>7, <2>1, <2>2, <2>3, <2>4
  <1>10. Chain(q, n)
    BY <1>6, <1>9 DEF Chain
  <1>11. /\ d.earlier.lines = Window(Since(q[1]), Since(q[n]))
         /\ d.last = q[n] /\ d.panics = FALSE
    BY <1>6, <1>10, ChainDedup
  <1> HIDE DEF d
  <1>12. 1 \in 1..n /\ n \in 1..n
    OBVIOUS
  <1>13. \A s \in X : Since(q[1]) <= Since(s) /\ End(s) <= End(q[n])
    <2> TAKE s \in X
    <2>1. PICK k \in 1..n : q[k] = s
      BY <1>5
    <2>2. 1 <= k /\ k <= n
      OBVIOUS
    <2> QED
      BY <1>8, <1>12, <2>1, <2>2
  <1>14. q[1] \in X /\ q[n] \in X
    BY <1>7, <1>12
  <1> QED
    BY <1>1, <1>11, <1>13, <1>14 DEF MergesTo

\* The window of z is that of all the slices in X together, which are of the
\* generation of z.
Spans(z, X) ==
    /\ z \in WindowSlices
    /\ \A s \in X : Since(z) <= Since(s) /\ End(s) <= End(z) /\ s.gen = z.gen
    /\ \E s \in X : Since(s) = Since(z)
    /\ \E s \in X : End(s) = End(z)

(* The slices of one generation, merged on their own.                      *)
LEMMA GenerationMerged ==
    ASSUME NEW X \in SUBSET WindowSlices, IsFiniteSet(X), X # {},
           NEW g \in Nat, \A s \in X : s.gen = g, Ordered(X), Joined(X)
    PROVE  /\ DedupGeneration(SetToSeq(X)).panics = FALSE
           /\ Spans(DedupGeneration(SetToSeq(X)).slice, X)
           /\ DedupGeneration(SetToSeq(X)).slice.gen = g
  <1> DEFINE n == Cardinality(X)
             list == SetToSeq(X)
             d == DedupLineSlices(list)
             z == Slice(d.earlier.lines \o d.last.lines, d.last.gen)
  <1>1. n \in Nat \ {0}
    BY NotEmpty
  <1>2. list \in [1..n -> X] /\ \A x \in X : \E k \in 1..n : list[k] = x
    BY SetAsList
  <1>3. DedupGeneration(list) = [slice |-> z, panics |-> d.panics]
    BY DEF DedupGeneration, OneSlice
  <1> HIDE DEF n, list
  <1>4. MergesTo(d, X)
    BY <1>1, <1>2, ListMerged
  <1> HIDE DEF d
  <1>5. PICK l \in X : l = d.last
    BY <1>4 DEF MergesTo
  <1>6. PICK x \in X : /\ \A s \in X : Since(x) <= Since(s)
                       /\ d.earlier.lines = Window(Since(x), Since(l))
    BY <1>4, <1>5 DEF MergesTo
  <1>7. l \in WindowSlices /\ x \in WindowSlices
    BY <1>5, <1>6
  <1>8. /\ Since(x) \in Nat /\ Since(l) \in Nat /\ End(l) \in Nat /\ Since(l) < End(l)
        /\ l.lines = Window(Since(l), End(l))
    BY <1>7, SliceIs
  <1>9. Since(x) <= Since(l) /\ Since(x) < End(l) /\ Since(l) <= End(l)
    BY <1>6, <1>8
  <1>10. d.earlier.lines \o d.last.lines = Window(Since(x), End(l))
    <2>1. Window(Since(x), Since(l)) \o Window(Since(l), End(l)) = Window(Since(x), End(l))
      BY <1>8, <1>9, WindowsJoin
    <2> QED
      BY <1>5, <1>6, <1>8, <2>1
  <1>11. z = Slice(Window(Since(x), End(l)), g)
    BY <1>5, <1>10
  <1> HIDE DEF z
  <1>12. z \in WindowSlices /\ z.gen = g /\ Since(z) = Since(x) /\ End(z) = End(l)
    BY <1>8, <1>9, <1>11, SliceOf
  <1>13. Spans(z, X)
    <2>1. \A s \in X : End(s) <= End(l)
      BY <1>4, <1>5 DEF MergesTo
    <2> QED
      BY <1>6, <1>12, <2>1 DEF Spans
  <1>14. d.panics = FALSE
    BY <1>4 DEF MergesTo
  <1> QED
    BY <1>3, <1>12, <1>13, <1>14 DEF list

-----------------------------------------------------------------------------
\* A line past F lies in a slice of X that begins before it.
Reaches(X, F, t) == t <= F \/ \E y \in X : Since(y) < t /\ t <= End(y)

\* What flush() can merge, F being the last line that was sent.
FlushReady(F, gens) ==
    /\ store \in SUBSET WindowSlices /\ IsFiniteSet(store) /\ Ordered(store)
    /\ F \in Nat
    /\ \A s \in store : F <= Since(s) /\ Reaches(store, F, Since(s))
    /\ gens # {} /\ gens \subseteq StoredGenerations
    /\ \A g \in StoredGenerations, h \in gens : g < h => g \in gens

\* The lines from there to where the last slice begins, which spans all those of
\* its generation and goes on as far as any that is flushed.
FlushesTo(F, gens, d) ==
    /\ d.panics = FALSE /\ d.last.gen \in gens
    /\ Spans(d.last, InGeneration(d.last.gen))
    /\ F <= Since(d.last) /\ d.earlier.lines = Window(F, Since(d.last))
    /\ \A s \in store : s.gen \in gens => End(s) <= End(d.last)

\* A slice of a later generation is no earlier than what an earlier one spans.
LEMMA LaterThanSpan ==
    ASSUME NEW X \in SUBSET WindowSlices, Ordered(X), NEW Y \in SUBSET X, NEW z, Spans(z, Y),
           NEW s \in X, z.gen < s.gen
    PROVE  Since(z) <= Since(s) /\ End(z) <= End(s) /\ NoEarlier(s, z)
  <1>1. z \in WindowSlices /\ s \in WindowSlices
    BY DEF Spans
  <1>2. z.gen \in Nat /\ s.gen \in Nat
    BY <1>1, SliceIs
  <1>3. ASSUME NEW y \in Y
        PROVE  Since(y) <= Since(s) /\ End(y) <= End(s)
    <2>1. y \in WindowSlices /\ y.gen = z.gen
      BY DEF Spans
    <2>2. NoEarlier(s, y) \/ NoEarlier(y, s)
      BY DEF Ordered
    <2>3. ~ (s.gen <= y.gen)
      BY <1>2, <2>1
    <2>4. ~ NoEarlier(y, s)
      BY <1>1, <2>1, <2>3, NoEarlierIs
    <2> QED
      BY <1>1, <2>1, <2>2, <2>4, NoEarlierIs
  <1>4. Since(z) <= Since(s)
    <2>1. PICK y \in Y : Since(y) = Since(z)
      BY DEF Spans
    <2> QED
      BY <1>3, <2>1
  <1>5. End(z) <= End(s)
    <2>1. PICK y \in Y : End(y) = End(z)
      BY DEF Spans
    <2> QED
      BY <1>3, <2>1
  <1>6. z.gen <= s.gen
    BY <1>2
  <1> QED
    BY <1>1, <1>4, <1>5, <1>6, NoEarlierIs

\* Within a generation, the slices are joined without the help of others.
LEMMA GenerationJoined ==
    ASSUME NEW F, NEW gens, FlushReady(F, gens), NEW g
    PROVE  Joined(InGeneration(g))
  <1> SUFFICES ASSUME NEW s \in InGeneration(g), NEW t \in InGeneration(g), Since(s) < Since(t)
               PROVE  \E y \in InGeneration(g) : Since(y) < Since(t) /\ Since(t) <= End(y)
    BY DEF Joined
  <1>1. s \in store /\ t \in store /\ s.gen = g /\ t.gen = g
    BY DEF InGeneration
  <1>2. s \in WindowSlices /\ t \in WindowSlices
    BY <1>1 DEF FlushReady
  <1>3. /\ Since(s) \in Nat /\ End(s) \in Nat /\ Since(t) \in Nat /\ g \in Nat
    BY <1>1, <1>2, SliceIs
  <1>4. F \in Nat /\ F <= Since(s) /\ Reaches(store, F, Since(t))
    BY <1>1 DEF FlushReady
  <1>5. ~ (Since(t) <= F)
    BY <1>3, <1>4
  <1>6. PICK y \in store : Since(y) < Since(t) /\ Since(t) <= End(y)
    BY <1>4, <1>5 DEF Reaches
  <1>7. y \in WindowSlices
    BY DEF FlushReady
  <1>8. Since(y) \in Nat /\ End(y) \in Nat /\ y.gen \in Nat
    BY <1>7, SliceIs
  <1>9. CASE y.gen = g
    BY <1>6, <1>9 DEF InGeneration
  <1>10. CASE y.gen < g
    <2>1. NoEarlier(s, y) \/ NoEarlier(y, s)
      BY <1>1 DEF FlushReady, Ordered
    <2>2. ~ (s.gen <= y.gen)
      BY <1>1, <1>3, <1>8, <1>10
    <2>3. End(y) <= End(s)
      BY <1>2, <1>7, <2>1, <2>2, NoEarlierIs
    <2>4. Since(t) <= End(s)
      BY <1>3, <1>6, <1>8, <2>3
    <2> QED
      BY <2>4
  <1>11. CASE g < y.gen
    <2>1. NoEarlier(t, y) \/ NoEarlier(y, t)
      BY <1>1 DEF FlushReady, Ordered
    <2>2. ~ (y.gen <= t.gen)
      BY <1>1, <1>3, <1>8, <1>11
    <2>3. Since(t) <= Since(y)
      BY <1>2, <1>7, <2>1, <2>2, NoEarlierIs
    <2> QED
      BY <1>3, <1>6, <1>8, <2>3
  <1> QED
    BY <1>3, <1>8, <1>9, <1>10, <1>11

\* Finitely many slices have finitely many generations.
LEMMA GenerationsFinite ==
    ASSUME IsFiniteSet(store)
    PROVE  IsFiniteSet(StoredGenerations)
  <1> DEFINE f == [s \in store |-> s.gen]
  <1>1. f \in Surjection(store, StoredGenerations)
    BY DEF Surjection, StoredGenerations
  <1> HIDE DEF f
  <1> QED
    BY <1>1, FS_Surjection

\* Ascending lists every generation, the smaller ones first.
LEMMA AscendingList ==
    ASSUME NEW gens \in SUBSET Nat, IsFiniteSet(gens)
    PROVE  /\ Ascending(gens) \in [1..Cardinality(gens) -> gens]
           /\ \A g \in gens : \E k \in 1..Cardinality(gens) : Ascending(gens)[k] = g
  <1> DEFINE n == Cardinality(gens)
             R == {gg \in gens \X gens : gg[1] < gg[2]}
  <1>1. StrictOrder(gens, R)
    BY DEF StrictOrder
  <1>2. Ranked(gens, R, n)
    <2> HIDE DEF R
    <2> QED
      BY <1>1, RanksAre
  <1>3. \A g \in gens : Cardinality({h \in gens : h < g}) = Rank(gens, R, g)
    <2> TAKE g \in gens
    <2>1. {h \in gens : h < g} = {h \in gens : <<h, g>> \in R}
      OBVIOUS
    <2> QED
      BY <2>1 DEF Rank, Smaller
  <1> HIDE DEF R, n
  <1>4. Ascending(gens) = [k \in 1..n |-> CHOOSE g \in gens : Rank(gens, R, g) = k - 1]
    <2>1. \A k \in 1..n : (CHOOSE g \in gens : Cardinality({h \in gens : h < g}) = k - 1)
                           = (CHOOSE g \in gens : Rank(gens, R, g) = k - 1)
      BY <1>3
    <2>2. Ascending(gens) =
            [k \in 1..n |-> CHOOSE g \in gens : Cardinality({h \in gens : h < g}) = k - 1]
      BY DEF Ascending, n
    <2> QED
      BY <2>1, <2>2
  <1>5. \A k \in 1..n : \E g \in gens : Rank(gens, R, g) = k - 1
    BY <1>2 DEF Ranked
  <1>6. \A k \in 1..n : Ascending(gens)[k] \in gens /\ Rank(gens, R, Ascending(gens)[k]) = k - 1
    BY <1>4, <1>5
  <1>7. \A g \in gens : \E k \in 1..n : Ascending(gens)[k] = g
    <2> TAKE g \in gens
    <2> DEFINE r == Rank(gens, R, g)
    <2>1. r \in Nat /\ r + 1 \in 1..n
      BY <1>2 DEF Ranked
    <2>2. r + 1 - 1 = r
      <3> HIDE DEF r
      <3> QED
        BY <2>1
    <2>3. Ascending(gens)[r + 1] \in gens /\ Rank(gens, R, Ascending(gens)[r + 1]) = r
      <3> HIDE DEF r
      <3> QED
        BY <1>6, <2>1, <2>2
    <2>4. Ascending(gens)[r + 1] = g
      BY <1>2, <2>3 DEF Ranked
    <2> QED
      BY <2>1, <2>4
  <1> QED
    BY <1>4, <1>6, <1>7 DEF n

\* The slices that flush() gets of the generations, each merged on its own.
MergedSlices(m, gens) == {m[g].slice : g \in gens}
\* Each of them spans its generation.
EachSpans(m, gens) ==
    \A g \in gens : /\ Spans(m[g].slice, InGeneration(g)) /\ m[g].slice.gen = g
                    /\ m[g].panics = FALSE

\* They are ordered and joined, from F on.
LEMMA SlicesMerged ==
    ASSUME NEW F, NEW gens, FlushReady(F, gens), NEW m, EachSpans(m, gens)
    PROVE  /\ MergedSlices(m, gens) \in SUBSET WindowSlices
           /\ Ordered(MergedSlices(m, gens)) /\ Joined(MergedSlices(m, gens))
           /\ \E x \in MergedSlices(m, gens) : Since(x) = F
           /\ \A x \in MergedSlices(m, gens) : F <= Since(x)
           /\ \A s \in store : s.gen \in gens =>
                 \E x \in MergedSlices(m, gens) : End(s) <= End(x)
  <1> DEFINE X == MergedSlices(m, gens)
  <1>1. \A s \in store : s \in WindowSlices /\ s.gen \in Nat /\ Since(s) \in Nat /\ End(s) \in Nat
    <2> TAKE s \in store
    <2>1. s \in WindowSlices
      BY DEF FlushReady
    <2> QED
      BY <2>1, SliceIs
  <1>2. \A g \in gens : g \in Nat
    BY <1>1 DEF FlushReady, StoredGenerations
  <1>3. \A g \in gens : /\ m[g].slice \in WindowSlices /\ m[g].slice.gen = g /\ m[g].slice \in X
                        /\ Since(m[g].slice) \in Nat /\ End(m[g].slice) \in Nat
    <2> TAKE g \in gens
    <2>1. m[g].slice \in WindowSlices /\ m[g].slice.gen = g /\ m[g].slice \in X
      BY DEF EachSpans, Spans, MergedSlices
    <2> QED
      BY <2>1, SliceIs
  <1>4. X \in SUBSET WindowSlices /\ \A x \in X : \E g \in gens : x = m[g].slice
    BY <1>3 DEF MergedSlices
  <1> HIDE DEF X
  <1>5. \A g \in gens : InGeneration(g) \in SUBSET store
    BY DEF InGeneration
  <1>6. ASSUME NEW g \in gens, NEW s \in store, g < s.gen
        PROVE  Since(m[g].slice) <= Since(s) /\ End(m[g].slice) <= End(s)
    <2>1. store \in SUBSET WindowSlices /\ Ordered(store)
      BY DEF FlushReady
    <2>2. Spans(m[g].slice, InGeneration(g)) /\ m[g].slice.gen < s.gen
      BY <1>6 DEF EachSpans
    <2> QED
      BY <1>5, <2>1, <2>2, LaterThanSpan
  <1>7. ASSUME NEW g \in gens, NEW h \in gens, g < h
        PROVE  NoEarlier(m[h].slice, m[g].slice)
    <2>1. PICK y \in InGeneration(h) : Since(y) = Since(m[h].slice)
      BY DEF EachSpans, Spans
    <2>2. PICK e \in InGeneration(h) : End(e) = End(m[h].slice)
      BY DEF EachSpans, Spans
    <2>3. y \in store /\ e \in store /\ y.gen = h /\ e.gen = h
      BY DEF InGeneration
    <2>4. Since(m[g].slice) <= Since(y) /\ End(m[g].slice) <= End(e)
      BY <1>6, <1>7, <2>3
    <2>5. m[g].slice.gen <= m[h].slice.gen
      BY <1>2, <1>3, <1>7
    <2> QED
      BY <1>3, <2>1, <2>2, <2>4, <2>5, NoEarlierIs
  <1>8. Ordered(X)
    <2> SUFFICES ASSUME NEW x \in X, NEW y \in X
                 PROVE  NoEarlier(x, y) \/ NoEarlier(y, x)
      BY DEF Ordered
    <2>1. PICK g \in gens : x = m[g].slice
      BY <1>4
    <2>2. PICK h \in gens : y = m[h].slice
      BY <1>4
    <2>3. g < h \/ h < g \/ g = h
      BY <1>2
    <2>4. CASE g = h
      <3>1. x = y /\ x \in WindowSlices
        BY <1>3, <2>1, <2>2, <2>4
      <3>2. Since(x) \in Nat /\ End(x) \in Nat /\ x.gen \in Nat
        BY <3>1, SliceIs
      <3>3. Since(x) <= Since(x) /\ End(x) <= End(x) /\ x.gen <= x.gen
        BY <3>2
      <3> QED
        BY <3>1, <3>3, NoEarlierIs
    <2> QED
      BY <1>7, <2>1, <2>2, <2>3, <2>4
  \* A slice before t, that goes on to it, is in one merged slice.
  <1>9. ASSUME NEW h \in gens, NEW t \in store, t.gen = h, NEW y \in store,
               Since(y) < Since(t), Since(t) <= End(y)
        PROVE  \E x \in X : Since(x) < Since(t) /\ Since(t) <= End(x)
    <2>1. NoEarlier(t, y) \/ NoEarlier(y, t)
      BY DEF FlushReady, Ordered
    <2>2. ~ (Since(t) <= Since(y))
      BY <1>1, <1>9
    <2>3. y.gen <= t.gen
      BY <1>1, <2>1, <2>2, NoEarlierIs
    <2>4. y.gen \in StoredGenerations
      BY DEF StoredGenerations
    <2>5. y.gen \in gens
      <3>1. y.gen = h \/ y.gen < h
        BY <1>1, <1>2, <1>9, <2>3
      <3> QED
        BY <2>4, <3>1 DEF FlushReady
    <2> DEFINE x == m[y.gen].slice
    <2>6. Since(x) <= Since(y) /\ End(y) <= End(x)
      BY <2>5 DEF EachSpans, Spans, InGeneration
    <2>7. x \in X /\ Since(x) \in Nat /\ End(x) \in Nat
      BY <1>3, <2>5
    <2> HIDE DEF x
    <2>8. Since(x) < Since(t) /\ Since(t) <= End(x)
      BY <1>1, <1>9, <2>6, <2>7
    <2> QED
      BY <2>7, <2>8
  <1>10. ASSUME NEW x \in X
         PROVE  /\ F \in Nat /\ F <= Since(x) /\ Since(x) \in Nat
                /\ Since(x) = F \/ \E y \in X : Since(y) < Since(x) /\ Since(x) <= End(y)
    <2>1. PICK h \in gens : x = m[h].slice
      BY <1>4
    <2>2. PICK t \in InGeneration(h) : Since(t) = Since(x)
      BY <2>1 DEF EachSpans, Spans
    <2>3. t \in store /\ t.gen = h
      BY DEF InGeneration
    <2>4. F \in Nat /\ F <= Since(t) /\ Reaches(store, F, Since(t)) /\ Since(t) \in Nat
      BY <1>1, <2>3 DEF FlushReady
    <2>5. CASE Since(t) <= F
      BY <2>2, <2>4, <2>5
    <2>6. CASE ~ (Since(t) <= F)
      <3>1. PICK y \in store : Since(y) < Since(t) /\ Since(t) <= End(y)
        BY <2>4, <2>6 DEF Reaches
      <3>2. \E z \in X : Since(z) < Since(t) /\ Since(t) <= End(z)
        BY <1>9, <2>3, <3>1
      <3> QED
        BY <2>2, <2>4, <3>2
    <2> QED
      BY <2>5, <2>6
  <1>11. Joined(X)
    <2> SUFFICES ASSUME NEW s \in X, NEW t \in X, Since(s) < Since(t)
                 PROVE  \E y \in X : Since(y) < Since(t) /\ Since(t) <= End(y)
      BY DEF Joined
    <2>1. F <= Since(s) /\ Since(s) \in Nat /\ Since(t) \in Nat /\ F \in Nat
      BY <1>10
    <2>2. Since(t) # F
      BY <2>1
    <2> QED
      BY <1>10, <2>2
  <1>12. \E x \in X : Since(x) = F
    <2> DEFINE T == {Since(x) : x \in X}
    <2>1. T \subseteq Nat
      BY <1>10
    <2>2. T # {}
      BY <1>3 DEF FlushReady
    <2>3. PICK a \in T : \A b \in T : a <= b
      <3> HIDE DEF T
      <3> QED
        BY <2>1, <2>2, LeastNatural
    <2>4. PICK x \in X : Since(x) = a
      OBVIOUS
    <2>5. \A y \in X : Since(x) <= Since(y) /\ Since(y) \in Nat
      BY <1>10, <2>3, <2>4
    <2>6. ~ \E y \in X : Since(y) < Since(x)
      BY <2>5
    <2> QED
      BY <1>10, <2>6
  <1>13. \A s \in store : s.gen \in gens => \E x \in X : End(s) <= End(x)
    <2> SUFFICES ASSUME NEW s \in store, s.gen \in gens
                 PROVE  \E x \in X : End(s) <= End(x)
      OBVIOUS
    <2>1. End(s) <= End(m[s.gen].slice)
      BY DEF EachSpans, Spans, InGeneration
    <2> QED
      BY <1>3, <2>1
  <1> QED
    BY <1>4, <1>8, <1>10, <1>11, <1>12, <1>13 DEF X

(* flush() merges the generations without a gap or a panic.                *)
LEMMA FlushMerges ==
    ASSUME NEW F, NEW gens, FlushReady(F, gens)
    PROVE  FlushesTo(F, gens, FlushGenerations(gens))
  <1> DEFINE m == [g \in gens |-> DedupGeneration(SetToSeq(InGeneration(g)))]
             n == Cardinality(gens)
             order == Ascending(gens)
             list == [i \in DOMAIN order |-> m[order[i]].slice]
             d == DedupLineSlices(list)
             X == MergedSlices(m, gens)
  <1>1. gens \in SUBSET Nat /\ IsFiniteSet(gens) /\ gens # {}
    <2>1. \A s \in store : s \in WindowSlices /\ s.gen \in Nat
      <3> TAKE s \in store
      <3>1. s \in WindowSlices
        BY DEF FlushReady
      <3> QED
        BY <3>1, SliceIs
    <2>2. StoredGenerations \in SUBSET Nat
      BY <2>1 DEF StoredGenerations
    <2> QED
      BY <2>2, GenerationsFinite, FS_Subset DEF FlushReady
  <1>2. n \in Nat \ {0}
    BY <1>1, NotEmpty
  <1>3. order \in [1..n -> gens] /\ \A g \in gens : \E k \in 1..n : order[k] = g
    BY <1>1, AscendingList
  <1>4. ASSUME NEW g \in gens
        PROVE  /\ m[g].panics = FALSE /\ Spans(m[g].slice, InGeneration(g))
               /\ m[g].slice.gen = g
    <2> DEFINE Y == InGeneration(g)
    <2>1. Y \in SUBSET WindowSlices /\ Y # {} /\ Y \in SUBSET store /\ \A s \in Y : s.gen = g
      BY DEF InGeneration, FlushReady, StoredGenerations
    <2>2. IsFiniteSet(Y)
      BY <2>1, FS_Subset DEF FlushReady
    <2>3. g \in Nat
      BY <1>1
    <2>4. Ordered(Y)
      BY <2>1 DEF Ordered, FlushReady
    <2>5. Joined(Y)
      BY GenerationJoined
    <2>6. m[g] = DedupGeneration(SetToSeq(Y))
      OBVIOUS
    <2> HIDE DEF Y, m
    <2>7. m[g].panics = FALSE /\ Spans(m[g].slice, Y) /\ m[g].slice.gen = g
      BY <2>1, <2>2, <2>3, <2>4, <2>5, <2>6, GenerationMerged
    <2> QED
      BY <2>7 DEF Y
  <1>5. EachSpans(m, gens) /\ DOMAIN m = gens
    <2>1. DOMAIN m = gens
      OBVIOUS
    <2> HIDE DEF m
    <2> QED
      BY <1>4, <2>1 DEF EachSpans
  <1>6. FlushGenerations(gens) =
          [earlier |-> d.earlier, last |-> d.last,
           panics |-> d.panics \/ \E g \in DOMAIN m : m[g].panics]
    BY DEF FlushGenerations, MergeGenerations
  <1> HIDE DEF m, n, order
  <1>7. /\ X \in SUBSET WindowSlices /\ Ordered(X) /\ Joined(X)
        /\ \E x \in X : Since(x) = F
        /\ \A x \in X : F <= Since(x)
        /\ \A s \in store : s.gen \in gens => \E x \in X : End(s) <= End(x)
    BY <1>5, SlicesMerged
  <1>8. list \in [1..n -> X]
    BY <1>3 DEF MergedSlices
  <1>9. \A x \in X : \E k \in 1..n : list[k] = x
    <2> TAKE x \in X
    <2>1. PICK g \in gens : x = m[g].slice
      BY DEF MergedSlices
    <2>2. PICK k \in 1..n : order[k] = g
      BY <1>3
    <2> QED
      BY <1>3, <2>1, <2>2
  <1> HIDE DEF list
  <1>10. \A x \in X : \E g \in gens : x = m[g].slice
    BY DEF MergedSlices
  <1> HIDE DEF X
  <1>11. MergesTo(d, X)
    BY <1>2, <1>7, <1>8, <1>9, ListMerged
  <1> HIDE DEF d
  <1>12. PICK z \in X : z = d.last
    BY <1>11 DEF MergesTo
  <1>13. PICK g \in gens : z = m[g].slice
    BY <1>10
  <1>14. z.gen = g /\ Spans(z, InGeneration(z.gen))
    BY <1>4, <1>13
  <1>15. PICK x \in X : /\ \A s \in X : Since(x) <= Since(s)
                        /\ d.earlier.lines = Window(Since(x), Since(z))
    BY <1>11, <1>12 DEF MergesTo
  <1>16. \A s \in X : s \in WindowSlices /\ Since(s) \in Nat /\ End(s) \in Nat
    <2> TAKE s \in X
    <2>1. s \in WindowSlices
      BY <1>7
    <2> QED
      BY <2>1, SliceIs
  <1>17. Since(x) = F
    <2>1. PICK y \in X : Since(y) = F
      BY <1>7
    <2>2. Since(x) <= F /\ F <= Since(x) /\ Since(x) \in Nat /\ F \in Nat
      BY <1>7, <1>15, <1>16, <2>1
    <2> QED
      BY <2>2
  <1>18. \A s \in store : s.gen \in gens => End(s) <= End(z)
    <2> SUFFICES ASSUME NEW s \in store, s.gen \in gens PROVE End(s) <= End(z)
      OBVIOUS
    <2>1. PICK y \in X : End(s) <= End(y)
      BY <1>7
    <2>2. End(y) <= End(z) /\ End(y) \in Nat /\ End(z) \in Nat
      BY <1>11, <1>12, <1>16 DEF MergesTo
    <2>3. s \in WindowSlices
      BY DEF FlushReady
    <2>4. End(s) \in Nat
      BY <2>3, SliceIs
    <2> QED
      BY <2>1, <2>2, <2>4
  <1> DEFINE D == FlushGenerations(gens)
  <1>19. D.panics = FALSE
    <2>1. (\E h \in DOMAIN m : m[h].panics) = FALSE
      BY <1>4, <1>5
    <2>2. D.panics = (d.panics \/ \E h \in DOMAIN m : m[h].panics)
      BY <1>6
    <2>3. d.panics = FALSE
      BY <1>11 DEF MergesTo
    <2> QED
      BY <2>1, <2>2, <2>3
  <1>20. D.last = z /\ D.earlier.lines = Window(F, Since(z))
    BY <1>6, <1>12, <1>15, <1>17
  <1> HIDE DEF D
  <1>21. F <= Since(z)
    BY <1>7
  <1>22. FlushesTo(F, gens, D)
    BY <1>13, <1>14, <1>18, <1>19, <1>20, <1>21 DEF FlushesTo
  <1> QED
    BY <1>22 DEF D

-----------------------------------------------------------------------------
(* Where the goroutines are: what the signals and the WaitGroup ensure,    *)
(* whatever the polls read and whenever their slices come.                 *)
Goroutines(pc) == IF pc \in {"new", "ended"} THEN 0 ELSE 1

\* The states of the goroutines and of CleanUp.
Places ==
    /\ slicerPc \in SlicerStates /\ writerPc \in WriterStates
    /\ dumperPc \in DumperStates /\ cleanUp \in CleanUpStates
\* The WaitGroup counts the goroutines that were started and have not ended.
GroupCounts == wg = Goroutines(slicerPc) + Goroutines(writerPc)
\* CleanUp goes on only when the quit signal was taken.
QuitHandedOver ==
    /\ cleanUp \in {"running", "sendQuit"} => slicerPc \in {"new", "select"}
    /\ cleanUp \notin {"running", "sendQuit"} => slicerPc \in {"clearing", "sendingAll", "ended"}
    /\ slicerPc = "ended" <=> writerPc \in {"draining", "ended"}
\* A goroutine ends with nothing left in its hands.
NothingLeft ==
    /\ slicerPc \in {"new", "clearing", "ended"} => sending = << >>
    /\ slicerPc \in {"sendingAll", "ended"} => slices = << >>
    /\ writerPc = "ended" => lines = << >>
\* No poll is left when CleanUp begins.
PollsOver == cleanUp # "running" => \A p \in Polls : poll[p].pc = "idle"

\* The control invariant.
StopInv ==
    /\ Places /\ GroupCounts /\ QuitHandedOver /\ NothingLeft /\ PollsOver
    /\ CleanUpOutlastsWriter

\* Nothing has been started yet.
LEMMA StopInit == Init => StopInv
  BY DEF Init, IdlePoll, PollAt, StopInv, Places, GroupCounts, QuitHandedOver, NothingLeft, PollsOver,
         CleanUpOutlastsWriter, Goroutines, SlicerStates, WriterStates, DumperStates, CleanUpStates

\* A poll step leaves the goroutines where they are allowed to be.
LEMMA StopPoll ==
    ASSUME StopInv, NEW p \in Polls, PollStep(p)
    PROVE  StopInv'
  <1>1. UNCHANGED <<sending, lines, stopVars>>
    BY DEF PollStep, BeginPoll, PollFails, PollOpens, PollReadsGeneration,
           PollSends, PollReadsNothing, PollUpdates,
           UnchangedByPoll, outputVars
  <1>2. cleanUp = "running"
    BY DEF StopInv, PollsOver, PollStep, BeginPoll, PollFails, PollOpens, PollReadsGeneration,
           PollSends,
           PollReadsNothing, PollUpdates
  <1>3. Places' /\ GroupCounts' /\ QuitHandedOver' /\ CleanUpOutlastsWriter' /\ PollsOver'
    BY <1>1, <1>2 DEF stopVars, StopInv, Places, GroupCounts, QuitHandedOver, CleanUpOutlastsWriter,
                      PollsOver
  <1>4. NothingLeft'
    BY <1>1, <1>2 DEF stopVars, StopInv, QuitHandedOver, NothingLeft
  <1> QED
    BY <1>3, <1>4 DEF StopInv

\* So does a step of the goroutine that stores and flushes the slices.
LEMMA StopSlicer ==
    ASSUME StopInv, SlicerStep
    PROVE  StopInv'
  <1> USE DEF StopInv, Places, GroupCounts, QuitHandedOver, NothingLeft, PollsOver,
              CleanUpOutlastsWriter, Goroutines, SlicerStates, WriterStates, DumperStates,
              CleanUpStates, UnchangedBySlicer, pollVars, storeVars
  <1>1. CASE SlicerStarts
    BY <1>1 DEF SlicerStarts
  <1>2. CASE SlicerAdds
    BY <1>2 DEF SlicerAdds, AddSlice
  <1>3. CASE SlicerFlushes
    BY <1>3 DEF SlicerFlushes
  <1>4. CASE SlicerSends
    BY <1>4 DEF SlicerSends
  <1>5. CASE SlicerQuits
    BY <1>5 DEF SlicerQuits
  <1>6. CASE SlicerFlushesAll
    BY <1>6 DEF SlicerFlushesAll
  <1>7. CASE SlicerEnds
    BY <1>7 DEF SlicerEnds, outputVars
  <1> QED
    BY <1>1, <1>2, <1>3, <1>4, <1>5, <1>6, <1>7 DEF SlicerStep

\* So does every step.
LEMMA StopStep ==
    ASSUME StopInv, [Next]_vars
    PROVE  StopInv'
  <1> USE DEF StopInv, Places, GroupCounts, QuitHandedOver, NothingLeft, PollsOver,
              CleanUpOutlastsWriter, Goroutines, SlicerStates, WriterStates, DumperStates,
              CleanUpStates
  <1>1. CASE LogGrows
    BY <1>1 DEF LogGrows, pollVars, outputVars, stopVars
  <1>2. CASE RunnerWaits \/ RunnerResumes
    BY <1>2 DEF RunnerWaits, RunnerResumes, UnchangedByPoll, outputVars, stopVars
  <1>3. CASE WriterStep
    <2>1. CASE WriterStarts
      BY <1>3, <2>1 DEF WriterStarts, UnchangedByWriter, pollVars
    <2>2. CASE WriterWrites
      BY <1>3, <2>2 DEF WriterWrites, UnchangedByWriter, pollVars
    <2>3. CASE WriterEnds
      BY <1>3, <2>3 DEF WriterEnds, UnchangedByWriter, pollVars
    <2> QED
      BY <1>3, <2>1, <2>2, <2>3 DEF WriterStep
  <1>4. CASE DumperStep
    BY <1>4 DEF DumperStep, DumperDumps, DumperEnds, UnchangedByDumper, pollVars, outputVars
  <1>5. CASE CleanUpBegins \/ CleanUpStep
    BY <1>5 DEF CleanUpBegins, CleanUpStep, CleanUpWaited, StopDumper, CleanUpEnds,
                UnchangedByCleanUp, pollVars, outputVars
  <1>6. CASE UNCHANGED vars
    BY <1>6 DEF vars, pollVars, outputVars, stopVars
  <1> QED
    BY <1>1, <1>2, <1>3, <1>4, <1>5, <1>6, StopPoll, StopSlicer DEF Next, Ended

\* CleanUp() returns only after the goroutine that writes the file has ended
\* (logsCollector.wg.Wait before the file is closed), however slow the polls are.
THEOREM CleanUpOutlasts == Spec => []CleanUpOutlastsWriter
  <1>1. Init => StopInv
    BY StopInit
  <1>2. StopInv /\ [Next]_vars => StopInv'
    BY StopStep
  <1>3. StopInv => CleanUpOutlastsWriter
    BY DEF StopInv
  <1> QED
    BY <1>1, <1>2, <1>3, PTL DEF Spec

-----------------------------------------------------------------------------
(* What the polls, the channel of slices and the store hold.               *)

\* All slices that wait to be flushed.
Received == store \cup {slices[i] : i \in 1..Len(slices)}

\* The numbers the collector keeps, in their order.
Numbers ==
    /\ log \in Nat /\ second \in Nat /\ lastSince \in Nat
    /\ lastSince <= second /\ second <= log /\ log <= MaxLines
    /\ opened \in Nat /\ lastTime \in Nat /\ lastGen \in Nat
    /\ lastGen <= lastTime /\ lastTime <= opened /\ opened <= MaxStreams
    /\ latest \in Nat /\ oldest \in Nat /\ latest <= lastGen /\ oldest <= lastGen
\* A poll asks for lines before the second in which its stream is opened.
PollFits(r) ==
    /\ r \in PollRecord /\ r.since <= second /\ r.from <= second
    /\ r.at <= opened /\ r.gen <= lastGen
    /\ r.pc \in {"opened", "streaming"} => r.since <= r.from
PollsFit == poll \in [Polls -> PollRecord] /\ \A p \in Polls : PollFits(poll[p])
\* A slice is a window of the log, of a generation that has begun; those in the
\* store came in turn.
SlicesFit ==
    /\ slices \in Seq(WindowSlices) /\ Len(slices) <= SliceChanLength
    /\ store \in SUBSET WindowSlices /\ IsFiniteSet(store) /\ Ordered(store)
    /\ \A s \in Received : s.gen <= lastGen /\ End(s) <= log
\* The oldest generation is in the store from the first slice on.
Kept ==
    /\ store # {} => oldest \in StoredGenerations
    /\ store = {} => oldest = 0
    /\ store = {} /\ slices # << >> => slices[1].gen = 0
    /\ Received = {} => lastGen = 0 /\ \A p \in Polls : poll[p].pc # "updating"
\* Where a poll goes on from, or will have the others go on from, has been
\* reached by the output or by a slice.
PollReads(X, F, r) == Reaches(X, F, r.since) /\ (r.pc = "updating" => Reaches(X, F, r.from))
\* So has where any slice begins, and where the next poll will.
Reached(F) ==
    /\ Reaches(Received, F, lastSince)
    /\ \A p \in Polls : PollReads(Received, F, poll[p])
    /\ \A s \in Received : Reaches(Received, F, Since(s))

coreVars == <<log, second, opened, lastPoll, poll, slices, store, latest, oldest>>
\* F is the last line that was written, is on its way to the writer or is to be
\* sent.
Core(F) == F \in Nat /\ Numbers /\ PollsFit /\ SlicesFit /\ Kept /\ Reached(F)

\* With more slices or further output, what was reached still is.
LEMMA ReachesMore ==
    ASSUME NEW X, NEW Y, X \subseteq Y, NEW F \in Nat, NEW G \in Nat, F <= G, NEW t \in Nat,
           Reaches(X, F, t)
    PROVE  Reaches(Y, G, t)
  <1>1. t <= F => t <= G
    OBVIOUS
  <1> QED
    BY <1>1 DEF Reaches

\* What is known of the slices received.
LEMMA ReceivedSlices ==
    ASSUME NEW F, Core(F)
    PROVE  /\ \A s \in Received : /\ s \in WindowSlices /\ s.gen \in Nat /\ s.gen <= lastGen
                                  /\ Since(s) \in Nat /\ End(s) \in Nat /\ Since(s) < End(s)
                                  /\ End(s) <= log
           /\ store \subseteq Received /\ Received \in SUBSET WindowSlices
           /\ Len(slices) \in Nat /\ \A i \in 1..Len(slices) : slices[i] \in Received
  <1>1. slices \in Seq(WindowSlices) /\ Len(slices) \in Nat
    BY DEF Core, SlicesFit
  <1>2. Received \in SUBSET WindowSlices
    BY <1>1 DEF Received, Core, SlicesFit
  <1>3. ASSUME NEW s \in Received
        PROVE  /\ s \in WindowSlices /\ s.gen \in Nat /\ s.gen <= lastGen
               /\ Since(s) \in Nat /\ End(s) \in Nat /\ Since(s) < End(s) /\ End(s) <= log
    <2>1. s \in WindowSlices
      BY <1>2
    <2>2. s.gen <= lastGen /\ End(s) <= log
      BY DEF Core, SlicesFit
    <2> QED
      BY <2>1, <2>2, SliceIs
  <1> QED
    BY <1>1, <1>2, <1>3 DEF Received

\* The bounds of the numbers a poll keeps.
LEMMA PollNumbers ==
    ASSUME NEW F, Core(F), NEW p \in Polls
    PROVE  /\ PollFits(poll[p]) /\ PollReads(Received, F, poll[p])
           /\ poll[p].pc \in PollStates /\ poll[p].since \in Nat /\ poll[p].at \in Nat
           /\ poll[p].from \in Nat /\ poll[p].gen \in Nat
           /\ MaxLines \in Nat /\ MaxStreams \in Nat
  <1>1. MaxLines \in Nat /\ MaxStreams \in Nat
    BY FollowerBounds
  <1>2. PollFits(poll[p]) /\ poll[p] \in PollRecord /\ PollReads(Received, F, poll[p])
    BY DEF Core, PollsFit, PollFits, Reached
  <1> QED
    BY <1>1, <1>2 DEF PollRecord

\* The record of a poll is one when its parts are in their ranges.
LEMMA PollTyped ==
    ASSUME NEW pc \in PollStates, NEW since \in 0..MaxLines, NEW at \in 0..MaxStreams,
           NEW from \in 0..MaxLines, NEW gen \in 0..MaxStreams
    PROVE  /\ PollAt(pc, since, at, from, gen) \in PollRecord
           /\ PollAt(pc, since, at, from, gen).pc = pc
           /\ PollAt(pc, since, at, from, gen).since = since
           /\ PollAt(pc, since, at, from, gen).at = at
           /\ PollAt(pc, since, at, from, gen).from = from
           /\ PollAt(pc, since, at, from, gen).gen = gen
  BY DEF PollAt, PollRecord

\* What is read of the log is not touched by the writer or CleanUp.
LEMMA CoreUnchanged ==
    ASSUME NEW F, Core(F), UNCHANGED coreVars
    PROVE  Core(F)'
  <1> USE DEF coreVars, lastPoll
  <1>1. Received' = Received
    BY DEF Received
  <1>2. Numbers' /\ PollsFit'
    BY DEF Core, Numbers, PollsFit, PollFits
  <1>3. SlicesFit'
    BY <1>1 DEF Core, SlicesFit
  <1>4. Kept'
    BY <1>1 DEF Core, Kept, StoredGenerations
  <1>5. Reached(F)'
    BY <1>1 DEF Core, Reached
  <1> QED
    BY <1>2, <1>3, <1>4, <1>5 DEF Core

\* A line more disturbs nothing.
LEMMA TimeKeeps ==
    ASSUME NEW F, Core(F), LogGrows
    PROVE  Core(F)'
  <1>1. /\ UNCHANGED <<second, opened, lastTime, lastSince, lastGen, poll, slices, store, latest,
                       oldest>>
        /\ log < MaxLines /\ log' = log + 1
    BY DEF LogGrows, pollVars, lastPoll, storeVars
  <1>2. MaxLines \in Nat
    BY FollowerBounds
  <1>3. /\ log \in Nat /\ second \in Nat /\ lastSince \in Nat /\ lastSince <= second
        /\ second <= log /\ log <= MaxLines
    BY DEF Core, Numbers
  <1>4. /\ log' \in Nat /\ second <= log' /\ log' <= MaxLines /\ log <= log'
    BY <1>1, <1>2, <1>3
  <1>5. Numbers'
    BY <1>1, <1>4 DEF Core, Numbers
  <1>6. Received' = Received
    BY <1>1 DEF Received
  <1>7. PollsFit'
    <2>1. ASSUME NEW p \in Polls PROVE PollFits(poll[p])'
      BY <1>1, PollNumbers DEF PollFits
    <2> QED
      BY <1>1, <2>1 DEF Core, PollsFit
  <1>8. SlicesFit'
    <2>1. \A s \in Received : End(s) <= log'
      BY <1>3, <1>4, ReceivedSlices
    <2> QED
      BY <1>1, <1>6, <2>1 DEF Core, SlicesFit
  <1>9. Kept'
    BY <1>1, <1>6 DEF Core, Kept, StoredGenerations
  <1>10. Reached(F)'
    BY <1>1, <1>6 DEF Core, Reached
  <1> QED
    BY <1>5, <1>7, <1>8, <1>9, <1>10 DEF Core

(* A poll begins, fails, opens its stream or is over: no window is read.   *)
LEMMA PollMoves ==
    ASSUME NEW F, Core(F), NEW p \in Polls, NEW r, PollFits(r)', PollReads(Received, F, r),
           r.pc # "updating", poll' = [poll EXCEPT ![p] = r],
           opened' \in Nat, opened <= opened', opened' <= MaxStreams,
           second' \in Nat, second <= second', second' <= log,
           UNCHANGED <<log, lastTime, lastSince, lastGen, slices, store, latest, oldest>>
    PROVE  Core(F)'
  <1>1. poll \in [Polls -> PollRecord] /\ r \in PollRecord
    BY DEF Core, PollsFit, PollFits
  <1>2. poll'[p] = r /\ \A q \in Polls : q # p => poll'[q] = poll[q]
    BY <1>1
  <1>3. /\ opened \in Nat /\ lastTime \in Nat /\ lastTime <= opened
        /\ second \in Nat /\ lastSince \in Nat /\ lastSince <= second
    BY DEF Core, Numbers
  <1>4. Numbers'
    <2>1. lastTime <= opened' /\ lastSince <= second'
      BY <1>3
    <2> QED
      BY <2>1 DEF Core, Numbers
  <1>5. Received' = Received
    BY DEF Received
  <1>6. PollsFit'
    <2>1. ASSUME NEW q \in Polls PROVE PollFits(poll[q])'
      <3>1. CASE q = p
        BY <1>2, <3>1 DEF PollFits
      <3>2. CASE q # p
        <4>1. /\ poll[q].at <= opened /\ poll[q].at \in Nat
              /\ poll[q].since <= second /\ poll[q].since \in Nat
              /\ poll[q].from <= second /\ poll[q].from \in Nat
          BY PollNumbers DEF PollFits
        <4>2. poll[q].at <= opened' /\ poll[q].since <= second' /\ poll[q].from <= second'
          BY <1>3, <4>1
        <4>3. poll'[q] = poll[q]
          BY <1>2, <3>2
        <4> QED
          BY <4>2, <4>3, PollNumbers DEF PollFits
      <3> QED
        BY <3>1, <3>2
    <2> QED
      BY <1>1, <2>1 DEF PollsFit
  <1>7. SlicesFit'
    BY <1>5 DEF Core, SlicesFit
  <1>8. Kept'
    <2>1. \A q \in Polls : poll'[q].pc = "updating" => poll[q].pc = "updating"
      BY <1>2
    <2> QED
      BY <1>5, <2>1 DEF Core, Kept, StoredGenerations
  <1>9. Reached(F)'
    <2>1. ASSUME NEW q \in Polls PROVE PollReads(Received, F, poll'[q])
      <3>1. poll'[q] = r \/ poll'[q] = poll[q]
        BY <1>2
      <3> QED
        BY <3>1, PollNumbers
    <2> QED
      BY <1>5, <2>1 DEF Core, Reached
  <1> QED
    BY <1>4, <1>6, <1>7, <1>8, <1>9 DEF Core

\* The steps of a poll that bring no slice.
LEMMA PollWithoutSlice ==
    ASSUME NEW F, Core(F), NEW p \in Polls,
           \/ BeginPoll(p) \/ PollFails(p) \/ PollOpens(p) \/ PollReadsGeneration(p)
           \/ PollReadsNothing(p)
    PROVE  Core(F)'
  <1>1. UNCHANGED <<log, lastTime, lastSince, lastGen, slices, store, latest, oldest>>
    BY DEF BeginPoll, PollFails, PollOpens, PollReadsGeneration, PollReadsNothing,
           UnchangedByPoll, storeVars, lastPoll
  <1>2. /\ MaxLines \in Nat /\ MaxStreams \in Nat /\ F \in Nat
        /\ log \in Nat /\ second \in Nat /\ lastSince \in Nat /\ lastSince <= second
        /\ second <= log /\ log <= MaxLines
        /\ opened \in Nat /\ lastTime \in Nat /\ lastGen \in Nat
        /\ lastGen <= lastTime /\ lastTime <= opened /\ opened <= MaxStreams
    BY FollowerBounds DEF Core, Numbers
  <1>9. second' \in Nat /\ second <= second' /\ second' <= log
    <2>1. CASE PollOpens(p)
      <3>1. second' \in second..log
        BY <2>1 DEF PollOpens
      <3> QED
        BY <1>2, <3>1
    <2>2. CASE ~ PollOpens(p)
      <3>1. second' = second
        BY <2>2 DEF BeginPoll, PollFails, PollReadsGeneration, PollReadsNothing, UnchangedByPoll
      <3> QED
        BY <1>2, <3>1
    <2> QED
      BY <2>1, <2>2
  <1>3. Reaches(Received, F, 0)
    BY <1>2 DEF Reaches
  <1>4. /\ poll[p].since \in Nat /\ poll[p].from \in Nat /\ poll[p].at \in Nat
        /\ poll[p].since <= second /\ poll[p].from <= second /\ poll[p].at <= opened
        /\ poll[p].pc = "opened" => poll[p].since <= poll[p].from
        /\ Reaches(Received, F, poll[p].since)
    BY PollNumbers DEF PollFits, PollReads
  <1>5. CASE PollFails(p) \/ PollReadsNothing(p)
    <2>1. poll' = [poll EXCEPT ![p] = IdlePoll] /\ opened' = opened
      BY <1>5 DEF PollFails, PollReadsNothing
    <2>2. "idle" \in PollStates /\ 0 \in 0..MaxLines /\ 0 \in 0..MaxStreams
      BY <1>2 DEF PollStates
    <2>3. /\ IdlePoll \in PollRecord /\ IdlePoll.pc = "idle" /\ IdlePoll.since = 0
          /\ IdlePoll.at = 0 /\ IdlePoll.from = 0 /\ IdlePoll.gen = 0
      BY <2>2, PollTyped DEF IdlePoll
    <2>4. 0 <= second' /\ 0 <= opened /\ 0 <= lastGen
      BY <1>2, <1>9
    <2>5. PollFits(IdlePoll)'
      BY <1>1, <2>1, <2>3, <2>4 DEF PollFits
    <2>6. PollReads(Received, F, IdlePoll)
      BY <1>3, <2>3 DEF PollReads
    <2>7. opened' \in Nat /\ opened <= opened' /\ opened' <= MaxStreams
      BY <1>2, <2>1
    <2> QED
      BY <1>1, <2>1, <2>3, <2>5, <2>6, <2>7, <1>9, PollMoves
  <1>6. CASE BeginPoll(p)
    <2> DEFINE r == PollAt("opening", lastSince, 0, 0, 0)
    <2>1. poll' = [poll EXCEPT ![p] = r] /\ opened' = opened
      BY <1>6 DEF BeginPoll
    <2>2. /\ "opening" \in PollStates /\ lastSince \in 0..MaxLines
          /\ 0 \in 0..MaxLines /\ 0 \in 0..MaxStreams
      BY <1>2 DEF PollStates
    <2>3. /\ r \in PollRecord /\ r.pc = "opening" /\ r.since = lastSince
          /\ r.at = 0 /\ r.from = 0 /\ r.gen = 0
      BY <2>2, PollTyped
    <2>4. PICK z : z = r
      OBVIOUS
    <2> HIDE DEF r
    <2>5. 0 <= second' /\ lastSince <= second' /\ 0 <= opened /\ 0 <= lastGen
      BY <1>2, <1>9
    <2>6. PollFits(z)'
      BY <1>1, <1>2, <2>1, <2>3, <2>4, <2>5 DEF PollFits
    <2>7. PollReads(Received, F, z)
      BY <2>3, <2>4 DEF PollReads, Core, Reached
    <2>8. opened' \in Nat /\ opened <= opened' /\ opened' <= MaxStreams
      BY <1>2, <2>1
    <2> QED
      BY <1>1, <2>1, <2>3, <2>4, <2>6, <2>7, <2>8, <1>9, PollMoves
  <1>7. CASE PollOpens(p)
    <2> DEFINE r == PollAt("opened", poll[p].since, opened + 1, second', 0)
    <2>1. poll' = [poll EXCEPT ![p] = r] /\ opened' = opened + 1 /\ opened < MaxStreams
      BY <1>7 DEF PollOpens
    <2>2. /\ "opened" \in PollStates /\ poll[p].since \in 0..MaxLines /\ second' \in 0..MaxLines
          /\ opened + 1 \in 0..MaxStreams /\ 0 \in 0..MaxStreams
      BY <1>2, <1>4, <1>9, <2>1 DEF PollStates
    <2>3. /\ r \in PollRecord /\ r.pc = "opened" /\ r.since = poll[p].since
          /\ r.at = opened + 1 /\ r.from = second' /\ r.gen = 0
      BY <2>2, PollTyped
    <2>4. PICK z : z = r
      OBVIOUS
    <2> HIDE DEF r
    <2>5. /\ opened + 1 <= opened' /\ second' <= second' /\ 0 <= lastGen
          /\ poll[p].since <= second'
      BY <1>2, <1>4, <1>9, <2>1
    <2>6. PollFits(z)'
      BY <1>1, <1>4, <2>1, <2>3, <2>4, <2>5 DEF PollFits
    <2>7. PollReads(Received, F, z)
      BY <1>4, <2>3, <2>4 DEF PollReads
    <2>8. opened' \in Nat /\ opened <= opened' /\ opened' <= MaxStreams
      BY <1>2, <2>1
    <2> QED
      BY <1>1, <2>1, <2>3, <2>4, <2>6, <2>7, <2>8, <1>9, PollMoves
  <1>8. CASE PollReadsGeneration(p)
    <2> DEFINE r == PollAt("streaming", poll[p].since, poll[p].at, poll[p].from, lastGen)
    <2>1. /\ poll' = [poll EXCEPT ![p] = r] /\ opened' = opened /\ poll[p].pc = "opened"
      BY <1>8 DEF PollReadsGeneration
    <2>2. /\ "streaming" \in PollStates /\ poll[p].since \in 0..MaxLines
          /\ poll[p].from \in 0..MaxLines /\ poll[p].at \in 0..MaxStreams
          /\ lastGen \in 0..MaxStreams
      BY <1>2, <1>4 DEF PollStates
    <2>3. /\ r \in PollRecord /\ r.pc = "streaming" /\ r.since = poll[p].since
          /\ r.at = poll[p].at /\ r.from = poll[p].from /\ r.gen = lastGen
      BY <2>2, PollTyped
    <2>4. PICK z : z = r
      OBVIOUS
    <2> HIDE DEF r
    <2>5. lastGen <= lastGen /\ poll[p].since <= second' /\ poll[p].from <= second'
      BY <1>2, <1>4, <1>9, <1>9
    <2>6. PollFits(z)'
      BY <1>1, <1>4, <2>1, <2>3, <2>4, <2>5 DEF PollFits
    <2>7. PollReads(Received, F, z)
      BY <1>4, <2>3, <2>4 DEF PollReads
    <2>8. opened' \in Nat /\ opened <= opened' /\ opened' <= MaxStreams
      BY <1>2, <2>1
    <2> QED
      BY <1>1, <2>1, <2>3, <2>4, <2>6, <2>7, <2>8, <1>9, PollMoves
  <1> QED
    BY <1>5, <1>6, <1>7, <1>8

\* A slice that is sent is one more of those received.
LEMMA SentReceived ==
    ASSUME slices \in Seq(WindowSlices), NEW s \in WindowSlices,
           slices' = Append(slices, s), store' = store
    PROVE  /\ Received' = Received \cup {s} /\ slices' \in Seq(WindowSlices)
           /\ Len(slices') = Len(slices) + 1
           /\ slices # << >> => slices'[1] = slices[1]
           /\ slices = << >> => slices'[1] = s
  <1>1. PICK n \in Nat : n = Len(slices)
    OBVIOUS
  <1>2. /\ Len(slices') = n + 1 /\ slices' \in Seq(WindowSlices)
        /\ slices'[n + 1] = s /\ \A i \in 1..n : slices'[i] = slices[i]
    BY <1>1
  <1>3. {slices'[i] : i \in 1..n + 1} = {slices[i] : i \in 1..n} \cup {s}
    BY <1>2
  <1>4. Received' = Received \cup {s}
    BY <1>1, <1>2, <1>3 DEF Received
  <1>5. slices # << >> => slices'[1] = slices[1]
    <2> SUFFICES ASSUME slices # << >> PROVE slices'[1] = slices[1]
      OBVIOUS
    <2>1. n # 0
      BY <1>1
    <2>2. 1 \in 1..n
      BY <2>1
    <2> QED
      BY <1>2, <2>2
  <1>6. slices = << >> => slices'[1] = s
    <2> SUFFICES ASSUME slices = << >> PROVE slices'[1] = s
      OBVIOUS
    <2>1. n = 0
      BY <1>1
    <2>2. n + 1 = 1
      BY <2>1
    <2> QED
      BY <1>2, <2>2
  <1> QED
    BY <1>1, <1>2, <1>4, <1>5, <1>6

\* What a poll sends goes on from what was reached, and up to the second in
\* which its stream was opened.
LEMMA PollSendsKeeps ==
    ASSUME NEW F, Core(F), NEW p \in Polls, PollSends(p), regular'
    PROVE  Core(F)'
  <1>1. /\ UNCHANGED <<log, second, opened, lastTime, lastSince, lastGen, store, latest, oldest>>
        /\ poll[p].pc = "streaming" /\ Len(slices) < SliceChanLength
    BY DEF PollSends, UnchangedByPoll, storeVars, lastPoll
  <1>2. PICK since \in Nat, from \in Nat, at \in Nat, gen \in Nat :
           since = poll[p].since /\ from = poll[p].from /\ at = poll[p].at /\ gen = poll[p].gen
    BY PollNumbers
  <1>3. /\ MaxLines \in Nat /\ MaxStreams \in Nat /\ F \in Nat /\ log \in Nat /\ second \in Nat
        /\ second <= log /\ log <= MaxLines /\ lastGen \in Nat /\ opened \in Nat
        /\ opened <= MaxStreams
    BY FollowerBounds DEF Core, Numbers
  <1>4. /\ since <= second /\ from <= second /\ at <= opened /\ gen <= lastGen /\ since <= from
        /\ Reaches(Received, F, since)
    BY <1>1, <1>2, PollNumbers DEF PollFits, PollReads
  <1>5. PICK end \in since + 1..log :
           /\ slices' = Append(slices, Slice([i \in 1..end - since |-> since + i], gen))
           /\ regular' = (regular /\ end >= from)
    BY <1>2 DEF PollSends
  <1>6. end \in Nat /\ since < end /\ end <= log /\ from <= end
    <2>1. end >= from
      BY <1>5, Zenon
    <2>2. end \in since + 1..log
      OBVIOUS
    <2> QED
      BY <1>2, <1>3, <2>1, <2>2
  <1> DEFINE r == PollAt("updating", 0, at, from, 0)
  <1>7. poll' = [poll EXCEPT ![p] = r]
    BY <1>2 DEF PollSends
  <1>8. /\ "updating" \in PollStates /\ 0 \in 0..MaxLines /\ from \in 0..MaxLines
        /\ at \in 0..MaxStreams /\ 0 \in 0..MaxStreams
    BY <1>3, <1>4 DEF PollStates
  <1>9. /\ r \in PollRecord /\ r.pc = "updating" /\ r.since = 0
        /\ r.at = at /\ r.from = from /\ r.gen = 0
    BY <1>8, PollTyped
  <1>10. PICK z : z = r
    OBVIOUS
  <1>11. /\ z \in PollRecord /\ z.pc = "updating" /\ z.since = 0
         /\ z.at = at /\ z.from = from /\ z.gen = 0 /\ poll' = [poll EXCEPT ![p] = z]
    BY <1>7, <1>9, <1>10
  <1> HIDE DEF r
  <1> DEFINE w == Slice(Window(since, end), gen)
  <1>12. PICK s : s = w
    OBVIOUS
  <1>13. /\ s \in WindowSlices /\ s.gen = gen /\ Since(s) = since /\ End(s) = end
         /\ slices' = Append(slices, s)
    <2>1. slices' = Append(slices, w)
      BY <1>5 DEF Window
    <2>2. w \in WindowSlices /\ w.gen = gen /\ Since(w) = since /\ End(w) = end
      BY <1>6, SliceOf
    <2> HIDE DEF w
    <2> QED
      BY <1>12, <2>1, <2>2
  <1> HIDE DEF w
  <1>14. slices \in Seq(WindowSlices) /\ poll \in [Polls -> PollRecord]
    BY DEF Core, SlicesFit, PollsFit
  <1>15. poll'[p] = z /\ \A q \in Polls : q # p => poll'[q] = poll[q]
    BY <1>11, <1>14
  <1>16. /\ Received' = Received \cup {s} /\ slices' \in Seq(WindowSlices)
         /\ Len(slices') = Len(slices) + 1
         /\ slices # << >> => slices'[1] = slices[1]
         /\ slices = << >> => slices'[1] = s
    BY <1>1, <1>13, <1>14, SentReceived
  <1>17. Numbers'
    BY <1>1 DEF Core, Numbers
  <1>18. PollsFit'
    <2>1. 0 <= second /\ 0 <= lastGen
      BY <1>3
    <2>2. PollFits(z)'
      BY <1>1, <1>4, <1>11, <2>1 DEF PollFits
    <2>3. ASSUME NEW q \in Polls PROVE PollFits(poll[q])'
      <3>2. CASE q = p
        BY <1>15, <2>2, <3>2 DEF PollFits
      <3>3. CASE q # p
        BY <1>1, <1>15, <3>3, PollNumbers DEF PollFits
      <3> QED
        BY <3>2, <3>3
    <2>4. poll' \in [Polls -> PollRecord]
      BY <1>11, <1>14
    <2> QED
      BY <2>3, <2>4 DEF PollsFit
  <1>19. SlicesFit'
    <2>1. Len(slices') <= SliceChanLength
      <3>1. Len(slices) \in Nat /\ SliceChanLength \in Nat
        BY <1>14, FollowerBounds
      <3> QED
        BY <1>1, <1>16, <3>1
    <2>2. \A t \in Received' : t.gen <= lastGen /\ End(t) <= log
      BY <1>4, <1>6, <1>13, <1>16, ReceivedSlices
    <2> QED
      BY <1>1, <1>16, <2>1, <2>2 DEF Core, SlicesFit
  <1>20. Kept'
    <2>1. Received' # {}
      BY <1>16
    <2>2. store = {} => slices'[1].gen = 0
      <3> SUFFICES ASSUME store = {} PROVE slices'[1].gen = 0
        OBVIOUS
      <3>1. CASE slices # << >>
        BY <1>16, <3>1 DEF Core, Kept
      <3>2. CASE slices = << >>
        <4>1. Received = {}
          BY <3>2 DEF Received
        <4>2. lastGen = 0
          BY <4>1 DEF Core, Kept
        <4>3. s.gen = 0
          BY <1>4, <1>13, <4>2
        <4> QED
          BY <1>16, <3>2, <4>3
      <3> QED
        BY <3>1, <3>2
    <2> QED
      BY <1>1, <2>1, <2>2 DEF Core, Kept, StoredGenerations
  <1>21. ASSUME NEW t \in Nat, Reaches(Received, F, t)
         PROVE  Reaches(Received', F, t)
    <2>1. Received \subseteq Received' /\ F <= F
      BY <1>3, <1>16
    <2> QED
      BY <1>3, <1>21, <2>1, ReachesMore
  <1>22. Reaches(Received', F, from)
    <2>1. CASE since = from
      BY <1>4, <1>21, <2>1
    <2>2. CASE since # from
      <3>1. Since(s) < from /\ from <= End(s) /\ s \in Received'
        BY <1>4, <1>6, <1>13, <1>16, <2>2
      <3> QED
        BY <3>1 DEF Reaches
    <2> QED
      BY <2>1, <2>2
  <1>23. Reached(F)'
    <2>1. Reaches(Received', F, lastSince)
      BY <1>21 DEF Core, Reached, Numbers
    <2>2. ASSUME NEW q \in Polls PROVE PollReads(Received', F, poll'[q])
      <3>1. CASE q = p
        <4>1. Reaches(Received', F, 0)
          BY <1>3 DEF Reaches
        <4> QED
          BY <1>11, <1>15, <1>22, <3>1, <4>1 DEF PollReads
      <3>2. CASE q # p
        <4>1. poll'[q] = poll[q]
          BY <1>15, <3>2
        <4>2. poll[q].since \in Nat /\ poll[q].from \in Nat /\ PollReads(Received, F, poll[q])
          BY PollNumbers
        <4> QED
          BY <1>21, <4>1, <4>2 DEF PollReads
      <3> QED
        BY <3>1, <3>2
    <2>3. ASSUME NEW t \in Received' PROVE Reaches(Received', F, Since(t))
      <3>1. CASE t \in Received
        BY <1>21, <3>1, ReceivedSlices DEF Core, Reached
      <3>2. CASE t = s
        BY <1>4, <1>13, <1>21, <3>2
      <3> QED
        BY <1>16, <3>1, <3>2
    <2> QED
      BY <1>1, <2>1, <2>2, <2>3 DEF Reached
  <1> QED
    BY <1>3, <1>17, <1>18, <1>19, <1>20, <1>23 DEF Core

\* SetLastPoll: the next poll goes on from where an updating one has reached.
LEMMA PollUpdatesKeeps ==
    ASSUME NEW F, Core(F), NEW p \in Polls, PollUpdates(p)
    PROVE  Core(F)'
  <1>1. /\ UNCHANGED <<log, second, opened, slices, store, latest, oldest>>
        /\ poll[p].pc = "updating" /\ poll' = [poll EXCEPT ![p] = IdlePoll]
    BY DEF PollUpdates, UnchangedByPoll, storeVars
  <1>2. PICK from \in Nat, at \in Nat : from = poll[p].from /\ at = poll[p].at
    BY PollNumbers
  <1>3. \/ at > lastTime /\ lastTime' = at /\ lastSince' = from /\ lastGen' = lastGen + 1
        \/ lastTime' = lastTime /\ lastSince' = lastSince /\ lastGen' = lastGen
    BY <1>2 DEF PollUpdates, lastPoll
  <1>4. /\ MaxLines \in Nat /\ MaxStreams \in Nat /\ F \in Nat
        /\ log \in Nat /\ second \in Nat /\ lastSince \in Nat /\ lastSince <= second
        /\ opened \in Nat /\ lastTime \in Nat /\ lastGen \in Nat
        /\ lastGen <= lastTime /\ lastTime <= opened /\ opened <= MaxStreams
        /\ latest \in Nat /\ oldest \in Nat /\ latest <= lastGen /\ oldest <= lastGen
    BY FollowerBounds DEF Core, Numbers
  <1>5. from <= second /\ at <= opened /\ Reaches(Received, F, from)
    BY <1>1, <1>2, PollNumbers DEF PollFits, PollReads
  <1>6. /\ lastTime' \in Nat /\ lastSince' \in Nat /\ lastGen' \in Nat
        /\ lastSince' <= second /\ lastGen' <= lastTime' /\ lastTime' <= opened
        /\ lastGen <= lastGen'
    BY <1>2, <1>3, <1>4, <1>5
  <1>7. latest <= lastGen' /\ oldest <= lastGen'
    BY <1>4, <1>6
  <1>8. Numbers'
    BY <1>1, <1>6, <1>7 DEF Core, Numbers
  <1>9. poll \in [Polls -> PollRecord]
    BY DEF Core, PollsFit
  <1>10. poll'[p] = IdlePoll /\ \A q \in Polls : q # p => poll'[q] = poll[q]
    BY <1>1, <1>9
  <1>11. "idle" \in PollStates /\ 0 \in 0..MaxLines /\ 0 \in 0..MaxStreams
    BY <1>4 DEF PollStates
  <1>12. /\ IdlePoll \in PollRecord /\ IdlePoll.pc = "idle" /\ IdlePoll.since = 0
         /\ IdlePoll.at = 0 /\ IdlePoll.from = 0 /\ IdlePoll.gen = 0
    BY <1>11, PollTyped DEF IdlePoll
  <1>13. PollsFit'
    <2>1. 0 <= second /\ 0 <= opened /\ 0 <= lastGen'
      BY <1>4, <1>6
    <2>2. PollFits(IdlePoll)'
      BY <1>1, <1>12, <2>1 DEF PollFits
    <2>3. ASSUME NEW q \in Polls PROVE PollFits(poll[q])'
      <3>1. CASE q = p
        BY <1>10, <2>2, <3>1 DEF PollFits
      <3>2. CASE q # p
        <4>1. poll[q].gen <= lastGen /\ poll[q].gen \in Nat
          BY PollNumbers DEF PollFits
        <4>2. poll[q].gen <= lastGen'
          BY <1>4, <1>6, <4>1
        <4> QED
          BY <1>1, <1>10, <3>2, <4>2, PollNumbers DEF PollFits
      <3> QED
        BY <3>1, <3>2
    <2>4. poll' \in [Polls -> PollRecord]
      BY <1>1, <1>9, <1>12
    <2> QED
      BY <2>3, <2>4 DEF PollsFit
  <1>14. Received' = Received /\ Received # {}
    <2>1. Received' = Received
      BY <1>1 DEF Received
    <2>2. Received # {}
      BY <1>1 DEF Core, Kept
    <2> QED
      BY <2>1, <2>2
  <1>15. SlicesFit'
    <2>1. \A s \in Received : s.gen <= lastGen' /\ End(s) <= log
      BY <1>4, <1>6, ReceivedSlices
    <2> QED
      BY <1>1, <1>14, <2>1 DEF Core, SlicesFit
  <1>16. Kept'
    BY <1>1, <1>14 DEF Core, Kept, StoredGenerations
  <1>17. Reached(F)'
    <2>1. Reaches(Received, F, lastSince')
      BY <1>3, <1>5 DEF Core, Reached
    <2>2. ASSUME NEW q \in Polls PROVE PollReads(Received, F, poll'[q])
      <3>1. CASE q = p
        <4>1. Reaches(Received, F, 0)
          BY <1>4 DEF Reaches
        <4> QED
          BY <1>10, <1>12, <3>1, <4>1 DEF PollReads
      <3>2. CASE q # p
        BY <1>10, <3>2, PollNumbers
      <3> QED
        BY <3>1, <3>2
    <2> QED
      BY <1>14, <2>1, <2>2 DEF Core, Reached
  <1> QED
    BY <1>4, <1>8, <1>13, <1>15, <1>16, <1>17 DEF Core

-----------------------------------------------------------------------------
\* Appending the next line extends a window.
LEMMA WindowNext ==
    ASSUME NEW a \in Nat, NEW b \in Nat, a <= b
    PROVE  Append(Window(a, b), b + 1) = Window(a, b + 1)
  <1> DEFINE s == Window(a, b)
             t == Window(a, b + 1)
  <1>1. s \in Seq(Nat) /\ Len(s) = b - a /\ \A i \in 1..b - a : s[i] = a + i
    BY WindowIs
  <1>2. t \in Seq(Nat) /\ Len(t) = b + 1 - a /\ \A i \in 1..b + 1 - a : t[i] = a + i
    <2>1. b + 1 \in Nat /\ a <= b + 1
      OBVIOUS
    <2> QED
      BY <2>1, WindowIs
  <1> HIDE DEF s, t
  <1>3. Append(s, b + 1) \in Seq(Nat) /\ Len(Append(s, b + 1)) = b + 1 - a
    BY <1>1
  <1>4. \A i \in 1..b + 1 - a : Append(s, b + 1)[i] = t[i]
    <2> TAKE i \in 1..b + 1 - a
    <2>1. CASE i \in 1..b - a
      BY <1>1, <1>2, <2>1
    <2>2. CASE i = b - a + 1
      BY <1>1, <1>2, <2>2
    <2>3. i \in 1..b - a \/ i = b - a + 1
      OBVIOUS
    <2> QED
      BY <2>1, <2>2, <2>3
  <1> QED
    BY <1>2, <1>3, <1>4, SameLists DEF s, t

\* Taking the first line off a window.
LEMMA WindowHead ==
    ASSUME NEW a \in Nat, NEW b \in Nat, a <= b, Window(a, b) # << >>
    PROVE  a < b /\ Head(Window(a, b)) = a + 1 /\ Tail(Window(a, b)) = Window(a + 1, b)
  <1> DEFINE s == Window(a, b)
             t == Window(a + 1, b)
  <1>1. s \in Seq(Nat) /\ Len(s) = b - a /\ \A i \in 1..b - a : s[i] = a + i
    BY WindowIs
  <1>2. a < b
    <2>1. a # b
      BY WindowEmpty
    <2> QED
      BY <2>1
  <1>3. t \in Seq(Nat) /\ Len(t) = b - (a + 1) /\ \A i \in 1..b - (a + 1) : t[i] = a + 1 + i
    <2>1. a + 1 \in Nat /\ a + 1 <= b
      BY <1>2
    <2> QED
      BY <2>1, WindowIs
  <1> HIDE DEF s, t
  <1>4. Head(s) = a + 1 /\ Tail(s) \in Seq(Nat) /\ Len(Tail(s)) = b - (a + 1)
    BY <1>1, <1>2
  <1>5. \A i \in 1..b - (a + 1) : Tail(s)[i] = t[i]
    <2> TAKE i \in 1..b - (a + 1)
    <2>1. i + 1 \in 1..b - a
      BY <1>2
    <2>2. Tail(s)[i] = s[i + 1]
      BY <1>1, <1>2
    <2> QED
      BY <1>1, <1>3, <2>1, <2>2
  <1>6. Tail(s) = t
    BY <1>3, <1>4, <1>5, SameLists
  <1> QED
    BY <1>2, <1>4, <1>6 DEF s, t

-----------------------------------------------------------------------------
(* What has been written, is on its way to the writer, or is to be sent.   *)
WrittenTo(n) ==
    \E a, b \in Nat : /\ a <= b /\ b <= n
                      /\ file = Window(0, a) /\ lines = Window(a, b) /\ sending = Window(b, n)
\* Before CleanUp has flushed, the output goes up to where a slice begins that
\* is still stored; afterwards to all that a poll has gone past.
Output(F) ==
    /\ F <= log /\ WrittenTo(F)
    /\ IF slicerPc \in {"sendingAll", "ended"} THEN lastSince <= F
       ELSE \A s \in store : F <= Since(s)
\* The rest of the state, with no panic of a merge.
SideTyped ==
    /\ full \in BOOLEAN /\ panicked = FALSE
    /\ toDump \in 0..DumpChannelSize /\ Len(lines) <= LineChanLength

\* The inductive invariant: as long as the streams and slices are regular, the
\* output goes up to some line, from which the slices go on.
FollowInv ==
    /\ StopInv /\ regular \in BOOLEAN
    /\ regular => SideTyped /\ \E F \in Nat : Core(F) /\ Output(F)

\* Sending a line to the writer moves it from one window to the next,
LEMMA SendKeeps ==
    ASSUME NEW n \in Nat, WrittenTo(n), SlicerSends
    PROVE  WrittenTo(n)'
  <1>1. PICK a \in Nat, b \in Nat :
           /\ a <= b /\ b <= n
           /\ file = Window(0, a) /\ lines = Window(a, b) /\ sending = Window(b, n)
    BY DEF WrittenTo
  <1>2. /\ sending # << >> /\ lines' = Append(lines, Head(sending)) /\ sending' = Tail(sending)
        /\ file' = file
    BY DEF SlicerSends, UnchangedBySlicer
  <1>3. b < n /\ Head(sending) = b + 1 /\ sending' = Window(b + 1, n)
    BY <1>1, <1>2, WindowHead
  <1>4. lines' = Window(a, b + 1)
    BY <1>1, <1>2, <1>3, WindowNext
  <1>5. b + 1 \in Nat /\ a <= b + 1 /\ b + 1 <= n
    BY <1>1, <1>3
  <1> QED
    BY <1>1, <1>2, <1>3, <1>4, <1>5 DEF WrittenTo

\* and so does writing it.
LEMMA WriteKeeps ==
    ASSUME NEW n \in Nat, WrittenTo(n), WriterWrites
    PROVE  WrittenTo(n)'
  <1>1. PICK a \in Nat, b \in Nat :
           /\ a <= b /\ b <= n
           /\ file = Window(0, a) /\ lines = Window(a, b) /\ sending = Window(b, n)
    BY DEF WrittenTo
  <1>2. /\ lines # << >> /\ file' = Append(file, Head(lines)) /\ lines' = Tail(lines)
        /\ sending' = sending
    BY DEF WriterWrites, UnchangedByWriter
  <1>3. a < b /\ Head(lines) = a + 1 /\ lines' = Window(a + 1, b)
    BY <1>1, <1>2, WindowHead
  <1>4. file' = Window(0, a + 1)
    <2>1. 0 \in Nat /\ 0 <= a
      OBVIOUS
    <2>2. Append(Window(0, a), a + 1) = Window(0, a + 1)
      BY <2>1, WindowNext
    <2> QED
      BY <1>1, <1>2, <1>3, <2>2
  <1>5. a + 1 \in Nat /\ a + 1 <= b
    BY <1>1, <1>3
  <1> QED
    BY <1>1, <1>2, <1>3, <1>4, <1>5 DEF WrittenTo

\* With nothing left to send, more lines to send continue the output.
LEMMA MoreToSend ==
    ASSUME NEW n \in Nat, NEW m \in Nat, n <= m, WrittenTo(n), sending = << >>,
           sending' = Window(n, m), UNCHANGED <<file, lines>>
    PROVE  WrittenTo(m)'
  <1>1. PICK a \in Nat, b \in Nat :
           /\ a <= b /\ b <= n
           /\ file = Window(0, a) /\ lines = Window(a, b) /\ sending = Window(b, n)
    BY DEF WrittenTo
  <1>2. b = n
    <2>1. Len(Window(b, n)) = n - b /\ Len(sending) = 0
      BY <1>1, WindowIs
    <2> QED
      BY <1>1, <2>1
  <1>3. b <= m
    BY <1>2
  <1> QED
    BY <1>1, <1>2, <1>3 DEF WrittenTo

\* Steps that touch none of the three lists leave them joined.
LEMMA WrittenStays ==
    ASSUME NEW n, WrittenTo(n), UNCHANGED <<file, lines, sending>>
    PROVE  WrittenTo(n)'
  BY DEF WrittenTo

\* The lines of a window up to m are lines of the log.
LEMMA WindowTyped ==
    ASSUME NEW a \in Nat, NEW b \in Nat, NEW m \in Nat, a <= b, b <= m
    PROVE  Window(a, b) \in Seq(1..m)
  <1>1. b - a \in Nat /\ \A i \in 1..b - a : a + i \in 1..m
    OBVIOUS
  <1>2. Window(a, b) \in [1..b - a -> 1..m]
    BY <1>1 DEF Window
  <1> QED
    BY <1>1, <1>2

\* All lines on their way are lines of the log.
LEMMA OutputTyped ==
    ASSUME NEW F, Core(F), Output(F)
    PROVE  /\ sending \in Seq(1..MaxLines) /\ lines \in Seq(1..MaxLines)
           /\ file \in Seq(1..MaxLines)
  <1>1. F \in Nat /\ F <= MaxLines /\ MaxLines \in Nat
    <2>1. F \in Nat /\ F <= log /\ log <= MaxLines /\ log \in Nat /\ MaxLines \in Nat
      BY FollowerBounds DEF Core, Numbers, Output
    <2> QED
      BY <2>1
  <1>2. PICK a \in Nat, b \in Nat :
           /\ a <= b /\ b <= F
           /\ file = Window(0, a) /\ lines = Window(a, b) /\ sending = Window(b, F)
    BY DEF WrittenTo, Output
  <1>3. b <= MaxLines /\ a <= MaxLines /\ 0 \in Nat /\ 0 <= a
    BY <1>1, <1>2
  <1>4. Window(0, a) \in Seq(1..MaxLines)
    BY <1>1, <1>3, WindowTyped
  <1>5. Window(a, b) \in Seq(1..MaxLines) /\ Window(b, F) \in Seq(1..MaxLines)
    BY <1>1, <1>2, <1>3, WindowTyped
  <1> QED
    BY <1>2, <1>4, <1>5

\* With nothing left to send, the file and the lines to write are the output.
LEMMA OutputLength ==
    ASSUME NEW F \in Nat, WrittenTo(F), sending = << >>
    PROVE  Len(file) + Len(lines) = F
  <1>1. PICK a \in Nat, b \in Nat :
           /\ a <= b /\ b <= F
           /\ file = Window(0, a) /\ lines = Window(a, b) /\ sending = Window(b, F)
    BY DEF WrittenTo
  <1>2. Len(Window(b, F)) = F - b /\ Len(Window(a, b)) = b - a
    BY <1>1, WindowIs
  <1>3. Len(Window(0, a)) = a - 0
    <2>1. 0 \in Nat /\ 0 <= a
      OBVIOUS
    <2> QED
      BY <2>1, WindowIs
  <1>4. Len(sending) = 0
    OBVIOUS
  <1> QED
    BY <1>1, <1>2, <1>3, <1>4

\* Steps that touch nothing of the output keep it.
LEMMA OutputStays ==
    ASSUME NEW F, Output(F), UNCHANGED <<file, lines, sending, slicerPc, store, lastSince, log>>
    PROVE  Output(F)'
  BY WrittenStays DEF Output

\* A slice taken from the channel is in the store instead.
LEMMA AddedReceived ==
    ASSUME slices \in Seq(WindowSlices), slices # << >>, slices' = Tail(slices),
           NEW s, s = Head(slices), store' = store \cup {s}
    PROVE  /\ Received' = Received /\ slices' \in Seq(WindowSlices)
           /\ Len(slices') <= Len(slices) /\ s = slices[1] /\ 1 \in 1..Len(slices)
  <1>1. PICK n \in Nat : n = Len(slices)
    OBVIOUS
  <1>2. /\ Len(slices') = n - 1 /\ n - 1 \in Nat /\ slices' \in Seq(WindowSlices)
        /\ \A i \in 1..n - 1 : slices'[i] = slices[i + 1]
        /\ s = slices[1] /\ 1 \in 1..n
    BY <1>1
  <1>3. \A i \in 1..n : i = 1 \/ (i - 1 \in 1..n - 1 /\ slices[i] = slices'[i - 1])
    <2> TAKE i \in 1..n
    <2>1. i # 1 => i - 1 \in 1..n - 1 /\ i - 1 + 1 = i
      BY <1>2
    <2> QED
      BY <1>2, <2>1
  <1>4. \A i \in 1..n - 1 : i + 1 \in 1..n
    BY <1>2
  <1>5. Received \subseteq Received'
    <2> SUFFICES ASSUME NEW u \in Received PROVE u \in Received'
      OBVIOUS
    <2>1. CASE u \in store
      BY <2>1 DEF Received
    <2>2. CASE u \notin store
      <3>1. PICK i \in 1..n : u = slices[i]
        BY <1>1, <2>2 DEF Received
      <3>2. CASE i = 1
        BY <1>2, <3>1, <3>2 DEF Received
      <3>3. CASE i # 1
        <4>1. i - 1 \in 1..n - 1 /\ slices[i] = slices'[i - 1]
          BY <1>3, <3>3
        <4> QED
          BY <1>2, <3>1, <4>1 DEF Received
      <3> QED
        BY <3>2, <3>3
    <2> QED
      BY <2>1, <2>2
  <1>6. Received' \subseteq Received
    <2> SUFFICES ASSUME NEW u \in Received' PROVE u \in Received
      OBVIOUS
    <2>1. CASE u \in store
      BY <2>1 DEF Received
    <2>2. CASE u = s
      BY <1>1, <1>2, <2>2 DEF Received
    <2>3. CASE u \notin store /\ u # s
      <3>1. PICK i \in 1..n - 1 : u = slices'[i]
        BY <1>2, <2>3 DEF Received
      <3>2. u = slices[i + 1] /\ i + 1 \in 1..n
        BY <1>2, <1>4, <3>1
      <3> QED
        BY <1>1, <3>2 DEF Received
    <2> QED
      BY <2>1, <2>2, <2>3
  <1>7. Len(slices') <= Len(slices)
    BY <1>1, <1>2
  <1> QED
    BY <1>1, <1>2, <1>5, <1>6, <1>7

\* A slice that comes in turn is stored with its lines still to be sent.
LEMMA SlicerAddsKeeps ==
    ASSUME NEW F, Core(F), Output(F), SlicerAdds, regular'
    PROVE  Core(F)' /\ Output(F)'
  <1>1. /\ UNCHANGED <<log, second, opened, lastTime, lastSince, lastGen, poll, oldest,
                       slicerPc, file, lines, sending>>
        /\ slicerPc \in {"select", "clearing"} /\ sending = << >>
    BY DEF SlicerAdds, AddSlice, UnchangedBySlicer, pollVars, lastPoll
  <1>2. slices \in Seq(WindowSlices) /\ slices # << >>
    BY DEF Core, SlicesFit, SlicerAdds, AddSlice
  <1>3. PICK s : s = Head(slices)
    OBVIOUS
  <1>4. /\ slices' = Tail(slices) /\ store' = store \cup {s}
        /\ latest' = (IF latest < s.gen THEN s.gen ELSE latest)
    BY <1>3 DEF SlicerAdds, AddSlice
  <1>5. InTurn(s)
    BY <1>3 DEF SlicerAdds, AddSlice
  <1>6. /\ Received' = Received /\ slices' \in Seq(WindowSlices)
        /\ Len(slices') <= Len(slices) /\ s = slices[1] /\ 1 \in 1..Len(slices)
    BY <1>2, <1>3, <1>4, AddedReceived
  <1>7. /\ s \in Received /\ s \in WindowSlices /\ s.gen \in Nat /\ s.gen <= lastGen
        /\ Since(s) \in Nat /\ s.lines[1] = Since(s) + 1
    <2>1. s \in Received
      BY <1>6, ReceivedSlices
    <2> QED
      BY <2>1, ReceivedSlices, SliceIs
  <1>8. F <= Since(s)
    <2>1. Head(s.lines) = Since(s) + 1
      <3>1. s.lines \in Seq(Nat) /\ s.lines # << >>
        BY <1>7, SliceIs DEF WindowSlices
      <3> QED
        BY <1>7, <3>1
    <2>2. Head(s.lines) > Len(file) + Len(lines)
      BY <1>5 DEF InTurn
    <2>3. F \in Nat /\ Len(file) + Len(lines) = F
      BY <1>1, OutputLength DEF Core, Output
    <2> QED
      BY <1>7, <2>1, <2>2, <2>3
  <1>9. Numbers'
    <2>1. latest \in Nat /\ latest <= lastGen
      BY DEF Core, Numbers
    <2>2. latest' \in Nat /\ latest' <= lastGen
      BY <1>4, <1>7, <2>1
    <2> QED
      BY <1>1, <2>2 DEF Core, Numbers
  <1>10. PollsFit'
    BY <1>1 DEF Core, PollsFit, PollFits
  <1>11. SlicesFit'
    <2>1. IsFiniteSet(store \cup {s})
      BY FS_AddElement DEF Core, SlicesFit
    <2>2. Ordered(store')
      <3> SUFFICES ASSUME NEW u \in store', NEW v \in store'
                   PROVE  NoEarlier(u, v) \/ NoEarlier(v, u)
        BY DEF Ordered
      <3>1. NoEarlier(s, s)
        <4>1. Since(s) <= Since(s) /\ End(s) <= End(s) /\ s.gen <= s.gen
          BY <1>7, ReceivedSlices
        <4> QED
          BY <1>7, <4>1, NoEarlierIs
      <3>2. \A t \in store : NoEarlier(s, t) \/ NoEarlier(t, s)
        BY <1>5 DEF InTurn
      <3>3. (u \in store \/ u = s) /\ (v \in store \/ v = s)
        BY <1>4
      <3> QED
        BY <3>1, <3>2, <3>3 DEF Core, SlicesFit, Ordered
    <2>3. Len(slices') <= SliceChanLength
      <3>1. Len(slices) \in Nat /\ Len(slices') \in Nat /\ SliceChanLength \in Nat
            /\ Len(slices) <= SliceChanLength
        BY <1>2, <1>6, FollowerBounds DEF Core, SlicesFit
      <3> QED
        BY <1>6, <3>1
    <2> QED
      BY <1>1, <1>4, <1>6, <1>7, <2>1, <2>2, <2>3 DEF Core, SlicesFit
  <1>12. Kept'
    <2>1. store' # {} /\ Received' # {}
      BY <1>4, <1>6, <1>7
    <2>2. oldest \in {u.gen : u \in store'}
      <3>1. CASE store = {}
        <4>1. oldest = 0 /\ s.gen = 0
          BY <1>2, <1>6, <3>1 DEF Core, Kept
        <4> QED
          BY <1>4, <4>1
      <3>2. CASE store # {}
        BY <1>4, <3>2 DEF Core, Kept, StoredGenerations
      <3> QED
        BY <3>1, <3>2
    <2> QED
      BY <1>1, <2>1, <2>2 DEF Kept, StoredGenerations
  <1>13. Reached(F)'
    BY <1>1, <1>6 DEF Core, Reached
  <1>14. Core(F)'
    BY <1>9, <1>10, <1>11, <1>12, <1>13 DEF Core
  <1>15. Output(F)'
    <2>1. WrittenTo(F)'
      BY <1>1, WrittenStays DEF Output
    <2>2. \A u \in store' : F <= Since(u)
      <3>1. \A u \in store : F <= Since(u)
        BY <1>1 DEF Output
      <3> QED
        BY <1>4, <1>8, <3>1
    <2> QED
      BY <1>1, <2>1, <2>2 DEF Output
  <1> QED
    BY <1>14, <1>15

\* With no slice in the channel, generations can be flushed along with all
\* earlier ones.
LEMMA CanFlush ==
    ASSUME NEW F, Core(F), slices = << >>, \A s \in store : F <= Since(s),
           NEW gens \in SUBSET StoredGenerations, gens # {},
           \A g \in StoredGenerations, h \in gens : g < h => g \in gens
    PROVE  FlushReady(F, gens) /\ Received = store
  <1>1. Received = store
    <2>1. Len(slices) = 0 /\ {slices[i] : i \in 1..0} = {}
      OBVIOUS
    <2> QED
      BY <2>1 DEF Received
  <1>2. \A s \in store : Reaches(store, F, Since(s))
    BY <1>1 DEF Core, Reached
  <1> QED
    BY <1>1, <1>2 DEF FlushReady, Core, SlicesFit

(* Flush sends the lines up to where the last slice begins, and leaves it  *)
(* to stand for its generation.                                            *)
LEMMA FlushKeeps ==
    ASSUME NEW F, Core(F), Output(F), SlicerFlushes
    PROVE  panicked' = FALSE /\ \E G \in Nat : Core(G)' /\ Output(G)'
  <1> DEFINE gens == {g \in StoredGenerations : g <= oldest + KeepGenerations}
  <1>1. /\ slices = << >> /\ ShouldFlush /\ Flush /\ slicerPc = "select" /\ sending = << >>
        /\ UNCHANGED <<log, second, opened, lastTime, lastSince, lastGen, poll, slices, latest,
                       slicerPc, file, lines>>
    BY DEF SlicerFlushes, Flush, UnchangedBySlicer, pollVars, lastPoll
  <1>2. /\ KeepGenerations \in Nat /\ oldest \in Nat /\ lastGen \in Nat /\ F \in Nat
        /\ log \in Nat
    BY FollowerBounds DEF Core, Numbers
  <1>3. Cardinality(StoredGenerations) > KeepGenerations
    BY <1>1 DEF ShouldFlush
  <1>4. store # {}
    <2> SUFFICES ASSUME store = {} PROVE FALSE
      OBVIOUS
    <2>1. StoredGenerations = {}
      BY DEF StoredGenerations
    <2>2. Cardinality(StoredGenerations) = 0
      BY <2>1, FS_EmptySet
    <2> QED
      BY <1>2, <1>3, <2>2
  <1>5. oldest \in gens
    <2>1. oldest \in StoredGenerations
      BY <1>4 DEF Core, Kept
    <2> QED
      BY <1>2, <2>1
  <1>6. \A g \in StoredGenerations : g \in Nat /\ g <= lastGen
    BY ReceivedSlices DEF StoredGenerations
  <1>7. \A g \in StoredGenerations, h \in gens : g < h => g \in gens
    BY <1>2, <1>6
  <1>8. \A s \in store : F <= Since(s)
    BY <1>1 DEF Output
  <1>9. FlushReady(F, gens) /\ Received = store
    <2>1. gens \in SUBSET StoredGenerations /\ gens # {}
      BY <1>5
    <2> HIDE DEF gens
    <2> QED
      BY <1>1, <1>7, <1>8, <2>1, CanFlush
  <1> DEFINE d == FlushGenerations(gens)
  <1>10. FlushesTo(F, gens, d)
    <2> HIDE DEF gens
    <2> QED
      BY <1>9, FlushMerges
  <1>11. PICK z : z = d.last
    OBVIOUS
  <1>12. /\ sending' = d.earlier.lines /\ store' = {s \in store : s.gen > z.gen} \cup {z}
         /\ oldest' = z.gen /\ panicked' = d.panics
    BY <1>1, <1>11 DEF Flush
  <1>13. /\ d.panics = FALSE /\ z.gen \in gens /\ Spans(z, InGeneration(z.gen))
         /\ F <= Since(z) /\ d.earlier.lines = Window(F, Since(z))
         /\ \A s \in store : s.gen \in gens => End(s) <= End(z)
    BY <1>10, <1>11 DEF FlushesTo
  <1> HIDE DEF d
  <1>14. z.gen \in Nat /\ z.gen <= lastGen /\ z.gen \in StoredGenerations
    BY <1>6, <1>13
  <1>15. z \in WindowSlices /\ Since(z) \in Nat /\ End(z) \in Nat /\ Since(z) < End(z)
    BY <1>13, SliceIs DEF Spans
  <1>16. End(z) <= log
    <2>1. PICK y \in InGeneration(z.gen) : End(y) = End(z)
      BY <1>13 DEF Spans
    <2>2. y \in Received
      BY <1>9 DEF InGeneration
    <2> QED
      BY <2>1, <2>2, ReceivedSlices
  <1>17. PICK G \in Nat : G = Since(z) /\ F <= G /\ G <= log
    <2>1. Since(z) \in Nat /\ F <= Since(z) /\ Since(z) <= log
      BY <1>2, <1>13, <1>15, <1>16
    <2> QED
      BY <2>1
  <1> HIDE DEF gens
  <1>18. \A s \in store : /\ s \in WindowSlices /\ s.gen \in Nat /\ s.gen <= lastGen
                          /\ Since(s) \in Nat /\ End(s) \in Nat /\ End(s) <= log
    BY <1>9, ReceivedSlices
  <1> DEFINE Y == {s \in store : z.gen < s.gen} \cup {z}
  <1>19. store' = Y
    BY <1>12, <1>14, <1>18
  <1>20. z \in Y /\ \A s \in Y : s = z \/ (s \in store /\ z.gen < s.gen)
    OBVIOUS
  <1>21. \A s \in store : z.gen < s.gen => s \in Y
    OBVIOUS
  <1>22. Y \in SUBSET WindowSlices /\ IsFiniteSet(Y)
    <2>1. {s \in store : z.gen < s.gen} \in SUBSET store /\ IsFiniteSet(store)
      BY DEF Core, SlicesFit
    <2>2. IsFiniteSet({s \in store : z.gen < s.gen})
      BY <2>1, FS_Subset
    <2>3. IsFiniteSet(Y)
      BY <2>2, FS_AddElement
    <2> QED
      BY <1>15, <1>18, <2>3
  <1> HIDE DEF Y
  <1>23. ASSUME NEW s \in store, z.gen < s.gen
         PROVE  G <= Since(s) /\ End(z) <= End(s) /\ NoEarlier(s, z)
    <2>1. store \in SUBSET WindowSlices /\ Ordered(store)
      BY DEF Core, SlicesFit
    <2>2. InGeneration(z.gen) \in SUBSET store
      BY DEF InGeneration
    <2> QED
      BY <1>13, <1>17, <1>23, <2>1, <2>2, LaterThanSpan
  <1>24. Ordered(Y)
    <2> SUFFICES ASSUME NEW u \in Y, NEW v \in Y
                 PROVE  NoEarlier(u, v) \/ NoEarlier(v, u)
      BY DEF Ordered
    <2>1. NoEarlier(z, z)
      <3>1. Since(z) <= Since(z) /\ End(z) <= End(z) /\ z.gen <= z.gen
        BY <1>14, <1>15
      <3> QED
        BY <1>15, <3>1, NoEarlierIs
    <2>2. Ordered(store)
      BY DEF Core, SlicesFit
    <2> QED
      BY <1>20, <1>23, <2>1, <2>2 DEF Ordered
  <1>25. Received' = Y
    <2>1. Len(slices') = 0 /\ {slices'[i] : i \in 1..0} = {}
      BY <1>1
    <2> QED
      BY <1>19, <2>1 DEF Received
  <1>26. ASSUME NEW t \in Nat, Reaches(store, F, t)
         PROVE  Reaches(Y, G, t)
    <2>1. CASE t <= F
      BY <1>2, <1>17, <2>1 DEF Reaches
    <2>2. CASE ~ (t <= F)
      <3>1. PICK y \in store : Since(y) < t /\ t <= End(y)
        BY <1>26, <2>2 DEF Reaches
      <3>2. CASE z.gen < y.gen
        BY <1>21, <3>1, <3>2 DEF Reaches
      <3>3. CASE ~ (z.gen < y.gen)
        <4>1. y.gen \in StoredGenerations
          BY DEF StoredGenerations
        <4>2. y.gen = z.gen \/ y.gen < z.gen
          BY <1>14, <1>18, <3>3
        <4>3. y.gen \in gens
          BY <1>7, <1>13, <4>1, <4>2 DEF gens
        <4>4. t <= End(z)
          BY <1>13, <1>15, <1>18, <3>1, <4>3
        <4>5. t <= G \/ G < t
          BY <1>17
        <4> QED
          BY <1>17, <1>20, <4>4, <4>5 DEF Reaches
      <3> QED
        BY <3>2, <3>3
    <2> QED
      BY <2>1, <2>2
  <1>27. Numbers'
    BY <1>1, <1>12, <1>14 DEF Core, Numbers
  <1>28. PollsFit'
    BY <1>1 DEF Core, PollsFit, PollFits
  <1>29. SlicesFit'
    <2>1. \A s \in Y : s.gen <= lastGen /\ End(s) <= log
      BY <1>14, <1>16, <1>18, <1>20
    <2> QED
      BY <1>1, <1>19, <1>22, <1>24, <1>25, <2>1 DEF Core, SlicesFit
  <1>30. Kept'
    <2>1. store' # {} /\ Received' # {} /\ oldest' \in {s.gen : s \in store'}
      BY <1>12, <1>19, <1>20, <1>25
    <2> QED
      BY <2>1 DEF Kept, StoredGenerations
  <1>31. Reached(G)'
    <2>1. Reaches(Y, G, lastSince)
      BY <1>9, <1>26 DEF Core, Reached, Numbers
    <2>2. ASSUME NEW q \in Polls PROVE PollReads(Y, G, poll[q])
      <3>1. poll[q].since \in Nat /\ poll[q].from \in Nat /\ PollReads(store, F, poll[q])
        BY <1>9, PollNumbers
      <3> QED
        BY <1>26, <3>1 DEF PollReads
    <2>3. ASSUME NEW s \in Y PROVE Reaches(Y, G, Since(s))
      <3>1. CASE s = z
        <4>1. Since(z) <= G
          BY <1>15, <1>17
        <4> QED
          BY <3>1, <4>1 DEF Reaches
      <3>2. CASE s \in store
        <4>1. Reaches(store, F, Since(s))
          BY <1>9, <3>2 DEF Core, Reached
        <4> QED
          BY <1>18, <1>26, <3>2, <4>1
      <3> QED
        BY <1>20, <3>1, <3>2
    <2> QED
      BY <1>1, <1>25, <2>1, <2>2, <2>3 DEF Reached
  <1>32. Core(G)'
    BY <1>27, <1>28, <1>29, <1>30, <1>31 DEF Core
  <1>33. Output(G)'
    <2>1. WrittenTo(G)'
      <3>1. sending' = Window(F, G) /\ WrittenTo(F)
        BY <1>12, <1>13, <1>17 DEF Output
      <3> QED
        BY <1>1, <1>2, <1>17, <3>1, MoreToSend
    <2>2. \A s \in Y : G <= Since(s)
      <3>1. G <= Since(z)
        BY <1>17
      <3> QED
        BY <1>20, <1>23, <3>1
    <2> QED
      BY <1>1, <1>17, <1>19, <2>1, <2>2 DEF Output
  <1>34. panicked' = FALSE
    BY <1>12, <1>13
  <1> QED
    BY <1>32, <1>33, <1>34

\* FlushAll sends all there is, which is what the polls have gone past.
LEMMA FlushAllKeeps ==
    ASSUME NEW F, Core(F), Output(F), SlicerFlushesAll, panicked = FALSE, sending = << >>
    PROVE  panicked' = FALSE /\ \E G \in Nat : Core(G)' /\ Output(G)'
  <1>1. /\ slices = << >> /\ FlushAll /\ slicerPc = "clearing" /\ slicerPc' = "sendingAll"
        /\ UNCHANGED <<log, second, opened, lastTime, lastSince, lastGen, poll, slices, store,
                       latest, oldest, file, lines>>
    BY DEF SlicerFlushesAll, FlushAll, UnchangedBySlicer, pollVars, lastPoll
  <1>2. F \in Nat /\ log \in Nat /\ F <= log /\ WrittenTo(F) /\ lastSince \in Nat
    BY DEF Core, Numbers, Output
  <1>3. \A s \in store : F <= Since(s)
    BY <1>1 DEF Output
  <1>4. Reaches(Received, F, lastSince)
    BY DEF Core, Reached
  <1>5. PICK G \in Nat : /\ F <= G /\ G <= log /\ lastSince <= G
                         /\ sending' = Window(F, G) /\ panicked' = FALSE
    <2>1. CASE store = {}
      <3>1. Received = {}
        <4>1. Len(slices) = 0 /\ {slices[i] : i \in 1..0} = {}
          BY <1>1
        <4> QED
          BY <2>1, <4>1 DEF Received
      <3>2. lastSince <= F
        BY <1>4, <3>1 DEF Reaches
      <3>3. sending' = << >> /\ panicked' = FALSE
        BY <1>1, <2>1 DEF FlushAll
      <3>4. Window(F, F) = << >> /\ F <= F
        BY <1>2, WindowEmpty
      <3> QED
        BY <1>2, <3>2, <3>3, <3>4
    <2>2. CASE store # {}
      <3> DEFINE d == FlushGenerations(StoredGenerations)
      <3>1. FlushReady(F, StoredGenerations) /\ Received = store
        <4>1. StoredGenerations # {}
          BY <2>2 DEF StoredGenerations
        <4> QED
          BY <1>1, <1>3, <4>1, CanFlush
      <3>2. FlushesTo(F, StoredGenerations, d)
        BY <3>1, FlushMerges
      <3>3. sending' = d.earlier.lines \o d.last.lines /\ panicked' = d.panics
        BY <1>1, <2>2 DEF FlushAll
      <3> HIDE DEF d
      <3>4. PICK z : z = d.last
        OBVIOUS
      <3>5. /\ d.panics = FALSE /\ Spans(z, InGeneration(z.gen))
            /\ F <= Since(z) /\ d.earlier.lines = Window(F, Since(z))
            /\ \A s \in store : End(s) <= End(z)
        BY <3>2, <3>4 DEF FlushesTo, StoredGenerations
      <3>6. /\ Since(z) \in Nat /\ End(z) \in Nat /\ Since(z) < End(z)
            /\ z.lines = Window(Since(z), End(z))
        BY <3>5, SliceIs DEF Spans
      <3>7. End(z) <= log
        <4>1. PICK y \in InGeneration(z.gen) : End(y) = End(z)
          BY <3>5 DEF Spans
        <4>2. y \in Received
          BY <3>1 DEF InGeneration
        <4> QED
          BY <4>1, <4>2, ReceivedSlices
      <3>8. F <= End(z) /\ Since(z) <= End(z)
        BY <1>2, <3>5, <3>6
      <3>9. lastSince <= End(z)
        <4>1. CASE lastSince <= F
          BY <1>2, <3>6, <3>8, <4>1
        <4>2. CASE ~ (lastSince <= F)
          <5>1. PICK y \in store : lastSince <= End(y)
            BY <1>4, <3>1, <4>2 DEF Reaches
          <5>2. End(y) <= End(z) /\ End(y) \in Nat
            BY <3>1, <3>5, ReceivedSlices
          <5> QED
            BY <1>2, <3>6, <5>1, <5>2
        <4> QED
          BY <4>1, <4>2
      <3>10. sending' = Window(F, End(z))
        <4>1. Window(F, Since(z)) \o Window(Since(z), End(z)) = Window(F, End(z))
          BY <1>2, <3>5, <3>6, <3>8, WindowsJoin
        <4> QED
          BY <3>3, <3>4, <3>5, <3>6, <4>1
      <3> QED
        BY <3>3, <3>5, <3>6, <3>7, <3>8, <3>9, <3>10
    <2> QED
      BY <2>1, <2>2
  <1>6. WrittenTo(G)'
    BY <1>1, <1>2, <1>5, MoreToSend
  <1>7. Output(G)'
    BY <1>1, <1>5, <1>6 DEF Output
  <1>8. Core(F)'
    <2>1. UNCHANGED coreVars
      BY <1>1 DEF coreVars, lastPoll
    <2> QED
      BY <2>1, CoreUnchanged
  <1>9. Core(G)'
    <2>2. Received' = Received
      BY <1>1 DEF Received
    <2>3. ASSUME NEW t \in Nat, Reaches(Received, F, t)
          PROVE  Reaches(Received, G, t)
      BY <1>2, <1>5, <2>3, ReachesMore
    <2>4. ASSUME NEW q \in Polls PROVE PollReads(Received, G, poll[q])
      <3>1. poll[q].since \in Nat /\ poll[q].from \in Nat /\ PollReads(Received, F, poll[q])
        BY PollNumbers
      <3> QED
        BY <2>3, <3>1 DEF PollReads
    <2>5. ASSUME NEW s \in Received PROVE Reaches(Received, G, Since(s))
      BY <2>3, ReceivedSlices DEF Core, Reached
    <2>6. Reaches(Received, G, lastSince)
      BY <1>2, <1>4, <2>3
    <2>7. Reached(G)'
      BY <1>1, <2>2, <2>4, <2>5, <2>6 DEF Reached
    <2> QED
      BY <1>8, <2>7 DEF Core
  <1> QED
    BY <1>5, <1>7, <1>9

\* The invariant holds at the start, with nothing read or written.
LEMMA FollowInit == Init => FollowInv
  <1> SUFFICES ASSUME Init PROVE FollowInv
    OBVIOUS
  <1>1. StopInv
    BY StopInit
  <1>2. /\ MaxLines \in Nat /\ MaxStreams \in Nat /\ SliceChanLength \in Nat
        /\ LineChanLength \in Nat /\ DumpChannelSize \in Nat
    BY FollowerBounds
  <1>3. Len(<< >>) = 0 /\ << >> \in Seq(WindowSlices)
    OBVIOUS
  <1>4. SideTyped
    <2>1. 0 \in 0..DumpChannelSize /\ 0 <= LineChanLength
      BY <1>2
    <2> QED
      BY <1>3, <2>1 DEF Init, SideTyped
  <1>5. "idle" \in PollStates /\ 0 \in 0..MaxLines /\ 0 \in 0..MaxStreams
    BY <1>2 DEF PollStates
  <1>6. /\ IdlePoll \in PollRecord /\ IdlePoll.pc = "idle" /\ IdlePoll.since = 0
        /\ IdlePoll.at = 0 /\ IdlePoll.from = 0 /\ IdlePoll.gen = 0
    BY <1>5, PollTyped DEF IdlePoll
  <1>7. Received = {} /\ store = {} /\ slices = << >>
    <2>1. Len(slices) = 0 /\ {slices[i] : i \in 1..0} = {} /\ store = {} /\ slices = << >>
      BY <1>3 DEF Init
    <2> QED
      BY <2>1 DEF Received
  <1>8. Numbers
    <2>1. 0 \in Nat /\ 0 <= 0 /\ 0 <= MaxLines /\ 0 <= MaxStreams
      BY <1>2
    <2> QED
      BY <2>1 DEF Init, Numbers
  <1>9. PollsFit
    <2>1. \A p \in Polls : poll[p] = IdlePoll
      BY DEF Init
    <2>2. second = 0 /\ opened = 0 /\ lastGen = 0 /\ 0 <= 0
      BY DEF Init
    <2>3. PollFits(IdlePoll)
      BY <1>6, <2>2 DEF PollFits
    <2>4. poll \in [Polls -> PollRecord]
      BY <1>6 DEF Init
    <2> QED
      BY <2>1, <2>3, <2>4 DEF PollsFit
  <1>10. SlicesFit
    <2>1. IsFiniteSet({}) /\ Ordered({}) /\ 0 <= SliceChanLength
      BY <1>2, FS_EmptySet DEF Ordered
    <2> QED
      BY <1>3, <1>7, <2>1 DEF SlicesFit
  <1>11. Kept
    BY <1>6, <1>7 DEF Init, Kept
  <1>12. Reached(0)
    <2>1. Reaches(Received, 0, 0)
      BY DEF Reaches
    <2> QED
      BY <1>6, <1>7, <2>1 DEF Init, Reached, PollReads
  <1>13. Core(0)
    BY <1>8, <1>9, <1>10, <1>11, <1>12 DEF Core
  <1>14. Output(0)
    <2>1. Window(0, 0) = << >> /\ 0 <= 0
      BY WindowEmpty
    <2>2. WrittenTo(0)
      BY <2>1 DEF Init, WrittenTo
    <2> QED
      BY <1>7, <2>1, <2>2 DEF Init, Output
  <1>15. 0 \in Nat /\ regular \in BOOLEAN
    BY DEF Init
  <1> QED
    BY <1>1, <1>4, <1>13, <1>14, <1>15 DEF FollowInv

\* What came out of turn stays so.
LEMMA RegularBefore ==
    ASSUME [Next]_vars, regular \in BOOLEAN
    PROVE  regular' \in BOOLEAN /\ (regular' => regular)
  <1>1. CASE LogGrows \/ RunnerWaits \/ RunnerResumes
    BY <1>1 DEF LogGrows, RunnerWaits, RunnerResumes
  <1>2. ASSUME NEW p \in Polls, PollStep(p)
        PROVE  regular' \in BOOLEAN /\ (regular' => regular)
    <2>1. CASE PollSends(p)
      BY <2>1 DEF PollSends
    <2>2. CASE ~ PollSends(p)
      BY <1>2, <2>2 DEF PollStep, BeginPoll, PollFails, PollOpens, PollReadsGeneration,
                        PollReadsNothing, PollUpdates
    <2> QED
      BY <2>1, <2>2
  <1>3. CASE SlicerStep
    <2>1. CASE SlicerAdds
      BY <2>1 DEF SlicerAdds, AddSlice
    <2>2. CASE ~ SlicerAdds
      BY <1>3, <2>2 DEF SlicerStep, SlicerStarts, SlicerFlushes, SlicerSends, SlicerQuits,
                        SlicerFlushesAll, SlicerEnds
    <2> QED
      BY <2>1, <2>2
  <1>4. CASE WriterStep \/ DumperStep
    BY <1>4 DEF WriterStep, WriterStarts, WriterWrites, WriterEnds, UnchangedByWriter,
                DumperStep, DumperDumps, DumperEnds, UnchangedByDumper
  <1>5. CASE CleanUpBegins \/ CleanUpStep \/ UNCHANGED vars
    BY <1>5 DEF CleanUpBegins, CleanUpStep, CleanUpWaited, StopDumper, CleanUpEnds,
                UnchangedByCleanUp, vars
  <1> QED
    BY <1>1, <1>2, <1>3, <1>4, <1>5 DEF Next, Ended

\* A poll step keeps the data,
LEMMA FollowPoll ==
    ASSUME NEW F, Core(F), Output(F), StopInv, SideTyped, NEW p \in Polls, PollStep(p), regular'
    PROVE  Core(F)' /\ Output(F)' /\ SideTyped'
  <1>1. UNCHANGED <<file, lines, sending, slicerPc, store, log, full, panicked, toDump>>
    BY DEF PollStep, BeginPoll, PollFails, PollOpens, PollReadsGeneration, PollSends,
           PollReadsNothing, PollUpdates, UnchangedByPoll, outputVars, stopVars, storeVars
  <1>2. cleanUp = "running"
    BY DEF StopInv, PollsOver, PollStep, BeginPoll, PollFails, PollOpens, PollReadsGeneration,
           PollSends, PollReadsNothing, PollUpdates
  <1>3. slicerPc \notin {"sendingAll", "ended"}
    BY <1>2 DEF StopInv, QuitHandedOver
  <1>4. Core(F)'
    BY PollWithoutSlice, PollSendsKeeps, PollUpdatesKeeps DEF PollStep
  <1>5. Output(F)'
    BY <1>1, <1>3, WrittenStays DEF Output
  <1> QED
    BY <1>1, <1>4, <1>5 DEF SideTyped

\* and so do storing, flushing and sending,
LEMMA FollowSlicer ==
    ASSUME NEW F, Core(F), Output(F), StopInv, SideTyped, SlicerStep, regular'
    PROVE  SideTyped' /\ \E G \in Nat : Core(G)' /\ Output(G)'
  <1>0. F \in Nat
    BY DEF Core
  <1>1. CASE SlicerStarts \/ SlicerQuits \/ SlicerEnds
    <2>1. UNCHANGED <<coreVars, outputVars, full, panicked, toDump>>
      BY <1>1 DEF SlicerStarts, SlicerQuits, SlicerEnds, UnchangedBySlicer, coreVars, pollVars,
                  lastPoll, storeVars, outputVars
    <2>2. Core(F)'
      BY <2>1, CoreUnchanged
    <2>3. SideTyped'
      BY <2>1 DEF SideTyped, outputVars
    <2>4. slicerPc \in {"sendingAll", "ended"} <=> slicerPc' \in {"sendingAll", "ended"}
      BY <1>1 DEF SlicerStarts, SlicerQuits, SlicerEnds
    <2>5. Output(F)'
      BY <2>1, <2>4, WrittenStays DEF Output, coreVars, lastPoll, outputVars
    <2> QED
      BY <1>0, <2>2, <2>3, <2>5
  <1>2. CASE SlicerAdds
    <2>1. UNCHANGED <<lines, full, panicked>>
      BY <1>2 DEF SlicerAdds, AddSlice, UnchangedBySlicer, pollVars
    <2>2. Core(F)' /\ Output(F)'
      BY <1>2, SlicerAddsKeeps
    <2>3. toDump' \in 0..DumpChannelSize
      <3>1. toDump < DumpChannelSize /\ toDump' = toDump + 1
        BY <1>2 DEF SlicerAdds, AddSlice
      <3>2. toDump \in 0..DumpChannelSize /\ DumpChannelSize \in Nat
        BY FollowerBounds DEF SideTyped
      <3> QED
        BY <3>1, <3>2
    <2>4. SideTyped'
      BY <2>1, <2>3 DEF SideTyped
    <2> QED
      BY <1>0, <2>2, <2>4
  <1>3. CASE SlicerFlushes
    <2>1. UNCHANGED <<lines, full, toDump>>
      BY <1>3 DEF SlicerFlushes, UnchangedBySlicer, pollVars
    <2>2. panicked' = FALSE /\ \E G \in Nat : Core(G)' /\ Output(G)'
      BY <1>3, FlushKeeps
    <2>3. SideTyped'
      BY <2>1, <2>2 DEF SideTyped
    <2> QED
      BY <2>2, <2>3
  <1>4. CASE SlicerSends
    <2>1. UNCHANGED <<coreVars, full, panicked, toDump, slicerPc>>
      BY <1>4 DEF SlicerSends, UnchangedBySlicer, coreVars, pollVars, lastPoll, storeVars
    <2>2. Core(F)'
      BY <2>1, CoreUnchanged
    <2>3. Output(F)'
      <3>1. WrittenTo(F)'
        BY <1>0, <1>4, SendKeeps DEF Output
      <3> QED
        BY <2>1, <3>1 DEF Output, coreVars, lastPoll
    <2>4. Len(lines') <= LineChanLength
      <3>1. lines \in Seq(1..MaxLines) /\ LineChanLength \in Nat
        BY OutputTyped, FollowerBounds
      <3>2. lines' = Append(lines, Head(sending)) /\ Len(lines) < LineChanLength
        BY <1>4 DEF SlicerSends
      <3>3. Len(Append(lines, Head(sending))) = Len(lines) + 1 /\ Len(lines) \in Nat
        BY <3>1
      <3> QED
        BY <3>1, <3>2, <3>3
    <2>5. SideTyped'
      BY <2>1, <2>4 DEF SideTyped
    <2> QED
      BY <1>0, <2>2, <2>3, <2>5
  <1>5. CASE SlicerFlushesAll
    <2>1. UNCHANGED <<lines, full, toDump>> /\ slicerPc = "clearing"
      BY <1>5 DEF SlicerFlushesAll, UnchangedBySlicer, pollVars
    <2>2. sending = << >> /\ panicked = FALSE
      BY <2>1 DEF StopInv, NothingLeft, SideTyped
    <2>3. panicked' = FALSE /\ \E G \in Nat : Core(G)' /\ Output(G)'
      BY <1>5, <2>2, FlushAllKeeps
    <2>4. SideTyped'
      BY <2>1, <2>3 DEF SideTyped
    <2> QED
      BY <2>3, <2>4
  <1> QED
    BY <1>1, <1>2, <1>3, <1>4, <1>5 DEF SlicerStep

\* and writing,
LEMMA FollowWriter ==
    ASSUME NEW F, Core(F), Output(F), SideTyped, WriterStep
    PROVE  Core(F)' /\ Output(F)' /\ SideTyped'
  <1>1. UNCHANGED <<coreVars, full, panicked, toDump, slicerPc>>
    BY DEF WriterStep, WriterStarts, WriterWrites, WriterEnds, UnchangedByWriter, coreVars,
           pollVars, lastPoll, storeVars
  <1>2. Core(F)'
    BY <1>1, CoreUnchanged
  <1>3. CASE WriterStarts \/ WriterEnds
    <2>1. UNCHANGED <<file, lines, sending>>
      BY <1>3 DEF WriterStarts, WriterEnds, UnchangedByWriter
    <2>2. Output(F)'
      BY <1>1, <2>1, OutputStays DEF coreVars, lastPoll
    <2> QED
      BY <1>1, <1>2, <2>1, <2>2 DEF SideTyped
  <1>4. CASE WriterWrites
    <2>1. Output(F)'
      <3>1. WrittenTo(F)'
        BY <1>4, WriteKeeps DEF Output, Core
      <3> QED
        BY <1>1, <3>1 DEF Output, coreVars, lastPoll
    <2>2. Len(lines') <= LineChanLength
      <3>1. lines \in Seq(1..MaxLines) /\ LineChanLength \in Nat
        BY OutputTyped, FollowerBounds
      <3>2. lines' = Tail(lines) /\ lines # << >> /\ Len(lines) <= LineChanLength
        BY <1>4 DEF WriterWrites, SideTyped
      <3>3. Len(Tail(lines)) = Len(lines) - 1 /\ Len(lines) \in Nat
        BY <3>1, <3>2
      <3> QED
        BY <3>1, <3>2, <3>3
    <2> QED
      BY <1>1, <1>2, <2>1, <2>2 DEF SideTyped
  <1> QED
    BY <1>3, <1>4 DEF WriterStep

\* and the growth of the log.
LEMMA FollowTime ==
    ASSUME NEW F, Core(F), Output(F), SideTyped, LogGrows
    PROVE  Core(F)' /\ Output(F)' /\ SideTyped'
  <1>1. /\ UNCHANGED <<file, lines, sending, slicerPc, store, lastSince, full, panicked, toDump>>
        /\ log' = log + 1
    BY DEF LogGrows, pollVars, lastPoll, storeVars, outputVars, stopVars
  <1>2. F <= log'
    <2>1. F \in Nat /\ log \in Nat /\ F <= log
      BY DEF Core, Numbers, Output
    <2> QED
      BY <1>1, <2>1
  <1>3. Output(F)'
    BY <1>1, <1>2, WrittenStays DEF Output
  <1> QED
    BY <1>1, <1>3, TimeKeeps DEF SideTyped

\* Every step keeps the invariant.
LEMMA FollowStep ==
    ASSUME FollowInv, [Next]_vars
    PROVE  FollowInv'
  <1>1. StopInv' /\ regular' \in BOOLEAN /\ (regular' => regular)
    BY StopStep, RegularBefore DEF FollowInv
  <1> SUFFICES ASSUME regular'
               PROVE  SideTyped' /\ \E G \in Nat : Core(G)' /\ Output(G)'
    BY <1>1 DEF FollowInv
  <1>2. StopInv /\ SideTyped
    BY <1>1 DEF FollowInv
  <1>3. PICK F \in Nat : Core(F) /\ Output(F)
    BY <1>1 DEF FollowInv
  <1>4. CASE LogGrows
    BY <1>2, <1>3, <1>4, FollowTime
  <1>5. ASSUME NEW p \in Polls, PollStep(p)
        PROVE  SideTyped' /\ \E G \in Nat : Core(G)' /\ Output(G)'
    BY <1>2, <1>3, <1>5, FollowPoll
  <1>6. CASE SlicerStep
    BY <1>2, <1>3, <1>6, FollowSlicer
  <1>7. CASE WriterStep
    BY <1>2, <1>3, <1>7, FollowWriter
  <1>8. CASE \/ RunnerWaits \/ RunnerResumes \/ DumperStep \/ CleanUpBegins \/ CleanUpStep
             \/ UNCHANGED vars
    <2>1. UNCHANGED <<coreVars, file, lines, sending, slicerPc, panicked>>
      BY <1>8 DEF RunnerWaits, RunnerResumes, UnchangedByPoll, DumperStep, DumperDumps, DumperEnds,
                  UnchangedByDumper, CleanUpBegins, CleanUpStep, CleanUpWaited, StopDumper,
                  CleanUpEnds, UnchangedByCleanUp, coreVars, pollVars, lastPoll, storeVars,
                  outputVars, stopVars, vars
    <2>2. Core(F)'
      BY <1>3, <2>1, CoreUnchanged
    <2>3. Output(F)'
      BY <1>3, <2>1, OutputStays DEF coreVars, lastPoll
    <2>4. toDump' \in 0..DumpChannelSize /\ full' \in BOOLEAN
      <3>1. toDump \in 0..DumpChannelSize /\ DumpChannelSize \in Nat /\ full \in BOOLEAN
        BY <1>2, FollowerBounds DEF SideTyped
      <3>2. CASE RunnerWaits \/ RunnerResumes
        BY <3>1, <3>2 DEF RunnerWaits, RunnerResumes, UnchangedByPoll
      <3>3. CASE DumperStep
        <4>1. full' = full
          BY <3>3 DEF DumperStep, DumperDumps, DumperEnds, UnchangedByDumper, pollVars
        <4>2. CASE DumperDumps
          <5>1. toDump > 0 /\ toDump' = toDump - 1
            BY <4>2 DEF DumperDumps
          <5>2. toDump' \in 0..DumpChannelSize
            BY <3>1, <5>1
          <5> QED
            BY <3>1, <4>1, <5>2
        <4>3. CASE DumperEnds
          <5>1. toDump' = toDump
            BY <4>3 DEF DumperEnds
          <5> QED
            BY <3>1, <4>1, <5>1
        <4> QED
          BY <3>3, <4>2, <4>3 DEF DumperStep
      <3>4. CASE CleanUpBegins \/ CleanUpStep \/ UNCHANGED vars
        BY <3>1, <3>4 DEF CleanUpBegins, CleanUpStep, CleanUpWaited, StopDumper, CleanUpEnds,
                          UnchangedByCleanUp, pollVars, vars
      <3> QED
        BY <1>8, <3>2, <3>3, <3>4
    <2>5. SideTyped'
      BY <1>2, <2>1, <2>4 DEF SideTyped
    <2> QED
      BY <2>2, <2>3, <2>5
  <1> QED
    BY <1>4, <1>5, <1>6, <1>7, <1>8 DEF Next, Ended

\* The inductive invariant holds in every state.
THEOREM InvariantFollowInv == Spec => []FollowInv
  <1>1. Init => FollowInv
    BY FollowInit
  <1>2. FollowInv /\ [Next]_vars => FollowInv'
    BY FollowStep
  <1> QED
    BY <1>1, <1>2, PTL DEF Spec

\* The invariant has the types of all variables in it.
LEMMA FollowerTyped ==
    ASSUME FollowInv, regular
    PROVE  TypeOK
  <1>1. PICK F \in Nat : Core(F) /\ Output(F)
    BY DEF FollowInv
  <1>2. /\ SideTyped /\ Places /\ regular \in BOOLEAN
    BY DEF FollowInv, StopInv
  <1>3. /\ log \in Nat /\ second \in Nat /\ lastSince \in Nat
        /\ lastSince <= second /\ second <= log /\ log <= MaxLines
        /\ opened \in Nat /\ lastTime \in Nat /\ lastGen \in Nat
        /\ lastGen <= lastTime /\ lastTime <= opened /\ opened <= MaxStreams
        /\ latest \in Nat /\ oldest \in Nat /\ latest <= lastGen /\ oldest <= lastGen
        /\ MaxLines \in Nat /\ MaxStreams \in Nat
    BY <1>1, FollowerBounds DEF Core, Numbers
  <1>4. log \in 0..MaxLines /\ second \in 0..MaxLines /\ lastSince \in 0..MaxLines
    BY <1>3
  <1>5. /\ opened \in 0..MaxStreams /\ lastTime \in 0..MaxStreams /\ lastGen \in 0..MaxStreams
        /\ latest \in 0..MaxStreams /\ oldest \in 0..MaxStreams
    BY <1>3
  <1>6. ASSUME NEW s \in Received PROVE IsSlice(s)
    <2>1. /\ s \in WindowSlices /\ s.gen \in Nat /\ s.gen <= lastGen
          /\ Since(s) \in Nat /\ End(s) \in Nat /\ Since(s) < End(s) /\ End(s) <= log
      BY <1>1, ReceivedSlices
    <2>2. s.lines = Window(Since(s), End(s))
      BY <2>1, SliceIs
    <2>3. Since(s) <= End(s) /\ End(s) <= MaxLines /\ s.gen \in 0..MaxStreams
      BY <1>3, <2>1
    <2>4. s.lines \in Seq(1..MaxLines)
      BY <1>3, <2>1, <2>2, <2>3, WindowTyped
    <2> QED
      BY <2>3, <2>4 DEF IsSlice
  <1>7. (\A i \in DOMAIN slices : IsSlice(slices[i])) /\ \A s \in store : IsSlice(s)
    <2>1. slices \in Seq(WindowSlices)
      BY <1>1 DEF Core, SlicesFit
    <2>2. DOMAIN slices = 1..Len(slices)
      BY <2>1
    <2> QED
      BY <1>1, <1>6, <2>2, ReceivedSlices
  <1>8. wg \in 0..2
    BY DEF FollowInv, StopInv, GroupCounts, Goroutines
  <1>9. poll \in [Polls -> PollRecord] /\ Len(slices) <= SliceChanLength
    BY <1>1 DEF Core, PollsFit, SlicesFit
  <1>10. /\ sending \in Seq(1..MaxLines) /\ lines \in Seq(1..MaxLines)
         /\ file \in Seq(1..MaxLines)
    BY <1>1, OutputTyped
  <1>11. panicked \in BOOLEAN
    BY <1>2 DEF SideTyped
  <1> QED
    BY <1>2, <1>4, <1>5, <1>7, <1>8, <1>9, <1>10, <1>11 DEF TypeOK, SideTyped, Places

\* While no stream broke off early and no slice came out of turn, every variable
\* of the log collector keeps its type.
THEOREM TypeCorrect == Spec => [](regular => TypeOK)
  <1>1. FollowInv => (regular => TypeOK)
    BY FollowerTyped
  <1> QED
    BY <1>1, InvariantFollowInv, PTL

\* The file is the log up to some line: nothing is doubled, missing or out of
\* order in it, until a stream breaks off early or a slice comes out of turn.
THEOREM FileStaysPrefix == Spec => []FileIsPrefix
  <1>1. ASSUME FollowInv PROVE FileIsPrefix
    <2> SUFFICES ASSUME regular PROVE \A i \in DOMAIN file : file[i] = i
      BY DEF FileIsPrefix
    <2>1. PICK F \in Nat : Core(F) /\ Output(F)
      BY <1>1 DEF FollowInv
    <2>2. PICK a \in Nat : file = Window(0, a)
      BY <2>1 DEF WrittenTo, Output
    <2>3. 0 \in Nat /\ 0 <= a
      OBVIOUS
    <2>4. DOMAIN file = 1..a - 0 /\ \A i \in 1..a - 0 : file[i] = 0 + i
      BY <2>2, <2>3, WindowIs
    <2> QED
      BY <2>4
  <1>2. FollowInv => FileIsPrefix
    BY <1>1
  <1> QED
    BY <1>2, InvariantFollowInv, PTL

\* Once CleanUp() has waited, the file has every line that a poll has gone past.
THEOREM NoPassedLineLost == Spec => []PassedLinesWritten
  <1>1. ASSUME FollowInv PROVE PassedLinesWritten
    <2> SUFFICES ASSUME regular, cleanUp \in {"stopDumper", "waitDumper", "done"}
                 PROVE  Len(file) >= lastSince
      BY DEF PassedLinesWritten
    <2>1. PICK F \in Nat : Core(F) /\ Output(F)
      BY <1>1 DEF FollowInv
    <2>2. slicerPc = "ended" /\ writerPc = "ended" /\ sending = << >> /\ lines = << >>
      BY <1>1 DEF FollowInv, StopInv, CleanUpOutlastsWriter, NothingLeft
    <2>3. lastSince <= F /\ WrittenTo(F) /\ lastSince \in Nat
      BY <2>1, <2>2 DEF Output, Core, Numbers
    <2>4. Len(file) + Len(lines) = F
      BY <2>2, <2>3, OutputLength
    <2>5. Len(lines) = 0
      BY <2>2
    <2>6. file \in Seq(1..MaxLines)
      BY <2>1, OutputTyped
    <2>7. Len(file) = F
      BY <2>4, <2>5, <2>6
    <2> QED
      BY <2>3, <2>7
  <1>2. FollowInv => PassedLinesWritten
    BY <1>1
  <1> QED
    BY <1>2, InvariantFollowInv, PTL

\* No merge reaches past the end of a slice while the slices come in turn.
THEOREM FlushNeverPanics == Spec => [](regular => NeverPanics)
  <1>1. FollowInv => (regular => NeverPanics)
    BY DEF FollowInv, SideTyped, NeverPanics
  <1> QED
    BY <1>1, InvariantFollowInv, PTL
================================================================================
