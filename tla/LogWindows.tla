----------------------------- MODULE LogWindows -----------------------------
(***************************************************************************)
(* Windows of a log as the polls of the log collector read them, and what  *)
(* merging them with LineDedup keeps of the log.  The state is the list of *)
(* windows read so far; the properties say what becomes of them.           *)
(***************************************************************************)
EXTENDS LineDedup, FiniteSets

CONSTANTS
    MaxLine,      \* bound on the lines of the log
    MaxWindows,   \* bound on the windows read
    MaxGappy      \* bound on the windows read when one misses lines in between

ASSUME WindowBounds ==
    /\ MaxLine \in Nat \ {0}
    /\ MaxWindows \in Nat \ {0}
    /\ MaxGappy \in 0..MaxWindows

VARIABLE windows

InOrder(lines) == \A i \in 1..Len(lines) - 1 : lines[i] < lines[i + 1]
Contiguous(w) == \A i \in 1..Len(w) - 1 : w[i + 1] = w[i] + 1

Windows == {w \in UNION {[1..n -> 1..MaxLine] : n \in 1..MaxLine} : InOrder(w)}

NoGaps == \A i \in DOMAIN windows : Contiguous(windows[i])

NothingRead == windows = <<>>

ReadWindow ==
    /\ Len(windows) < MaxWindows
    /\ \E w \in Windows : windows' = Append(windows, w)
    /\ NoGaps' \/ Len(windows) < MaxGappy

Reading == NothingRead /\ [][ReadWindow]_windows

-----------------------------------------------------------------------------
Slices == [i \in DOMAIN windows |-> Slice(windows[i], i)]
Read == UNION {ToSet(windows[i]) : i \in DOMAIN windows}

\* lines is every line that was read, once and in the order of the log.
Exactly(lines, read) == InOrder(lines) /\ ToSet(lines) = read

\* Later windows begin and end no earlier.
Monotone ==
    \A i, j \in DOMAIN windows :
        i < j => windows[i][1] <= windows[j][1] /\ Last(windows[i]) <= Last(windows[j])

\* DedupLineSlices: windows without gaps, each ending no earlier than those
\* that begin before it, are merged into exactly the lines read, whatever
\* overlaps whatever and whether or not they touch at all.
MonotoneWindowsMerge ==
    Monotone /\ windows # <<>> /\ NoGaps =>
        LET d == DedupLineSlices(Slices)
        IN  ~d.panics /\ Exactly(d.earlier.lines \o d.last.lines, Read)

\* dedupGeneration: the windows of one generation begin at the same line, in
\* whatever order they end and arrive; the merged slice is the longest one.
GenerationMerges ==
    (/\ windows # <<>> /\ NoGaps
     /\ \A i \in DOMAIN windows : windows[i][1] = windows[1][1]) =>
        LET d == DedupGeneration(Slices)
        IN  ~d.panics /\ Exactly(d.slice.lines, Read)

IsPair == Len(windows) = 2 /\ Monotone
First == windows[1]
Second == windows[2]
Common(w) == {l \in ToSet(w) : Second[1] <= l /\ l <= Last(First)}

\* DedupAB, fixLines: when one of two overlapping windows misses lines of the
\* other, and not the first and last of the overlap, the merge restores them.
GapsOfOneSideMerge ==
    (/\ IsPair
     /\ Second[1] \in ToSet(First) /\ Last(First) \in ToSet(Second)
     /\ Common(First) \subseteq Common(Second) \/ Common(Second) \subseteq Common(First)) =>
        LET d == DedupAB(First, Second)
        IN  ~d.panics /\ Exactly(d.a \o d.b, Read)

\* DedupAB indexes the windows without checking: no windows of a log, in
\* any order and with any gaps, make it run out of range.
MergeNeverPanics == Len(windows) = 2 => ~DedupAB(First, Second).panics

\* "insert sequental lines missing in either x or y" (dedup.go:65): the merge
\* of two overlapping windows keeps every line.  It does not when each misses
\* a line of the other between the same two lines: one of the two is dropped.
\* No run checks this statement.
GapsOfBothSidesMerge ==
    (/\ IsPair
     /\ Second[1] \in ToSet(First) /\ Last(First) \in ToSet(Second)) =>
        LET d == DedupAB(First, Second)
        IN  ToSet(d.a \o d.b) = Read
==============================================================================
