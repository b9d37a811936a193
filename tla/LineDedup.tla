------------------------------ MODULE LineDedup ------------------------------
(***************************************************************************)
(* The merging of overlapping windows of a log (pkg/loglines/dedup.go).  A *)
(* line is a number, its place in the log, which stands for its text and   *)
(* its timestamp; a window is a sequence of lines.  Indices count from 1,  *)
(* and 0 stands for the code's -1.  An index out of range, where the code  *)
(* panics, makes the result Panic.                                         *)
(***************************************************************************)
EXTENDS Integers, Sequences, SequencesExt, FiniteSets, TLC

From(lines, i) == SubSeq(lines, i, Len(lines))
Before(lines, i) == SubSeq(lines, 1, i - 1)

WindowPairs == Seq(Nat) \X Seq(Nat)

Panic == [a |-> <<>>, b |-> <<>>, panics |-> TRUE]
Merged(x, y) == [a |-> x, b |-> y, panics |-> FALSE]

FindLineIndex(needle, list) == SelectInSeq(list, LAMBDA line : line = needle)

\* The first index at which x and y both have a line, and not the same one.
FindFirstIssueIndex(x, y) ==
    LET issues == {i \in DOMAIN x \cap DOMAIN y : x[i] # y[i]}
    IN  IF issues = {} THEN 0 ELSE Min(issues)

\* Broken: the next matching line is counted as missing.
FindNextMatchingOffByOne(a, b) ==
    LET common == {k \in 2..Len(a) : FindLineIndex(a[k], b) # 0}
    IN  IF common = {} THEN [offset |-> Len(a), index |-> 0]
        ELSE [offset |-> Min(common),
              index |-> FindLineIndex(a[Min(common)], b)]

\* How many lines at the head of a are missing in b (its first one is), and
\* where in b the next one is.
FindNextMatching(a, b) ==
    LET common == {k \in 2..Len(a) : FindLineIndex(a[k], b) # 0}
    IN  IF common = {} THEN [offset |-> Len(a), index |-> 0]
        ELSE [offset |-> Min(common) - 1,
              index |-> FindLineIndex(a[Min(common)], b)]

\* The lines of y from the issue on that are missing in x, put into x in the
\* place of x's own lines up to the next common one.  When no later line of
\* y is in x, index is 0 and x goes on one line before the issue.
Stitch(x, y, issue) ==
    LET next == FindNextMatching(From(y, issue), From(x, issue))
    IN  Before(x, issue) \o SubSeq(y, issue, issue + next.offset - 1)
          \o From(x, issue + next.index - 1)

\* There is no line before an issue at the first one.
StitchPanics(x, y, issue) ==
    issue = 1 /\ FindNextMatching(y, x).index = 0

\* The loop of processOverlap over fixLines, until no issue is left or
\* fixLines changes nothing, each line being further on in the other window.
FixFrom(x, y, issue, fixAll) ==
    IF issue = 0 THEN Merged(x, y)
    ELSE IF FindLineIndex(y[issue], From(x, issue)) = 0 THEN
        IF StitchPanics(x, y, issue) THEN Panic
        ELSE fixAll[<<Stitch(x, y, issue), y>>]
    ELSE IF FindLineIndex(x[issue], From(y, issue)) = 0 THEN
        IF StitchPanics(y, x, issue) THEN Panic
        ELSE fixAll[<<x, Stitch(y, x, issue)>>]
    ELSE Merged(x, y)
FixAll[w \in WindowPairs] ==
    FixFrom(w[1], w[2], FindFirstIssueIndex(w[1], w[2]), FixAll)

\* a and b have an issue here, at their first lines or where DedupAB found one.
\* They are fixed and merged once more, or split at the issue that is left.
DedupFixed(fixed, issue, dedup) ==
    IF fixed.panics THEN Panic
    ELSE IF issue = 0 THEN dedup[<<fixed.a, fixed.b>>]
    ELSE dedup[<<Before(fixed.a, issue), From(fixed.b, issue)>>]
SplitAtIssue(fixed, dedup) ==
    DedupFixed(fixed, FindFirstIssueIndex(fixed.a, fixed.b), dedup)
HandleIncompleteOverlap(a, b, dedup) == SplitAtIssue(FixAll[<<a, b>>], dedup)

\* DedupAB's steps; it is called again, as dedup, after an overlap was fixed.
Dedup(a, b, dedup) ==
    LET first == FindLineIndex(b[1], a)
    IN  IF b = <<>> THEN Panic
        ELSE IF first = 0 /\ a = <<>> THEN Panic
        ELSE IF first = 0 /\ FindLineIndex(Last(a), b) = 0 THEN Merged(a, b)
        ELSE IF first = 0 \/ FindFirstIssueIndex(From(a, first), b) # 0
             THEN HandleIncompleteOverlap(a, b, dedup)
        ELSE Merged(Before(a, first), b)
DedupAgain[w \in WindowPairs] == Dedup(w[1], w[2], DedupAgain)

\* Broken: windows without a common line are taken for overlapping ones.
DedupABNeverApart(a, b) ==
    LET first == FindLineIndex(b[1], a)
    IN  IF b = <<>> THEN Panic
        ELSE IF first = 0 /\ a = <<>> THEN Panic
        ELSE IF first = 0 \/ FindFirstIssueIndex(From(a, first), b) # 0
             THEN HandleIncompleteOverlap(a, b, DedupAgain)
        ELSE Merged(Before(a, first), b)

\* DedupAB returns a without the lines that b, returned with it, repeats.
DedupAB(a, b) == Dedup(a, b, DedupAgain)

-----------------------------------------------------------------------------
(* Slices: a window with the generation it was read in.                    *)

Slice(lines, generation) == [lines |-> lines, gen |-> generation]

\* Broken: of two slices that begin alike, any is the earlier one.
StartsEarlierOnly(s, t) == s.lines[1] < t.lines[1]

\* By the first line; of two that begin alike, by the last.
StartsEarlier(s, t) ==
    \/ s.lines[1] < t.lines[1]
    \/ s.lines[1] = t.lines[1] /\ Last(s.lines) < Last(t.lines)

\* sort.Slice: the place of a slice is given by the number of those before it.
\* Which of two that begin and end alike comes first is left open by the code.
Precedes(slices, j, i) ==
    \/ StartsEarlier(slices[j], slices[i])
    \/ ~StartsEarlier(slices[i], slices[j]) /\ j < i
Sorted(slices) ==
    [k \in DOMAIN slices |->
        slices[CHOOSE i \in DOMAIN slices :
                  Cardinality({j \in DOMAIN slices : Precedes(slices, j, i)}) = k - 1]]

\* An earlier slice is merged with all the later ones.  What a merge puts into
\* the reference stays there: the result only takes what each slice is left
\* with.
MergeEarlier(d, merged) ==
    [result |-> d.a \o merged.result, last |-> merged.last,
     reference |-> d.a \o d.b, panics |-> merged.panics \/ d.panics]

\* Broken: the earlier slices are merged with the last one only.
LastTwoForgotten(d) ==
    [result |-> d.a, last |-> d.b, reference |-> d.b, panics |-> d.panics]

LastTwo(d) ==
    [result |-> d.a, last |-> d.b, reference |-> d.a \o d.b, panics |-> d.panics]

\* From the last slice backwards.
MergeSorted(sorted) ==
    LET n == Len(sorted)
        from[i \in 1..n - 1] ==
            IF i = n - 1 THEN LastTwo(DedupAB(sorted[i].lines, sorted[n].lines))
            ELSE MergeEarlier(DedupAB(sorted[i].lines, from[i + 1].reference), from[i + 1])
    IN  from[1]

TwoSlices(sorted, merged) ==
    [earlier |-> Slice(merged.result, Last(Front(sorted)).gen),
     last |-> Slice(merged.last, Last(sorted).gen),
     panics |-> merged.panics]

DedupSorted(sorted) ==
    IF Len(sorted) = 1
    THEN [earlier |-> Slice(<<>>, 0), last |-> sorted[1], panics |-> FALSE]
    ELSE TwoSlices(sorted, MergeSorted(sorted))

DedupLineSlices(slices) == DedupSorted(Sorted(slices))

OneSlice(d) ==
    [slice |-> Slice(d.earlier.lines \o d.last.lines, d.last.gen),
     panics |-> d.panics]

\* All the windows read in one generation, as one slice.
DedupGeneration(slices) == OneSlice(DedupLineSlices(slices))
==============================================================================
