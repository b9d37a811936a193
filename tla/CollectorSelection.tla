-------------------------- MODULE CollectorSelection --------------------------
(***************************************************************************)
(* Which collectors a run has: what the user names on the command line     *)
(* (pkg/cmd/collect.go) and GetCollectorsToRun                             *)
(* (pkg/runner/collector_selector.go) makes of it.  A spelling is a name   *)
(* and whether its case is that of the registry ("all" is all lower case   *)
(* there).  The state is the list of spellings; the properties say what it *)
(* selects.                                                                *)
(***************************************************************************)
EXTENDS Naturals, Sequences, SequencesExt

CONSTANTS
    RequiredCollectorNames,   \* in the order of their registration
    OptionalCollectorNames,
    LogsCollectorName,        \* one of the optional ones
    All, Defaults,            \* the names for all the optional ones
    Unknown,                  \* a name of no collector
    MaxSelected               \* bound on the names on the command line

\* The registry has every name once, and none of the other names.
SelectionNames ==
    /\ RequiredCollectorNames \in Seq(ToSet(RequiredCollectorNames))
    /\ OptionalCollectorNames \in Seq(ToSet(OptionalCollectorNames))
    /\ IsInjective(RequiredCollectorNames \o OptionalCollectorNames)
    /\ LogsCollectorName \in ToSet(OptionalCollectorNames)
    /\ {All, Defaults, Unknown} \cap
         ToSet(RequiredCollectorNames \o OptionalCollectorNames) = {}
    /\ MaxSelected \in Nat

VARIABLE selected

Required == ToSet(RequiredCollectorNames)
Optional == ToSet(OptionalCollectorNames)
Groups == {All, Defaults}

Spelling ==
    [name : Required \cup Optional \cup Groups \cup {Unknown}, exact : BOOLEAN]

Init == selected = <<>>

Select ==
    /\ Len(selected) < MaxSelected
    /\ \E s \in Spelling : selected' = Append(selected, s)

Next == Select

Spec == Init /\ [][Next]_selected

-----------------------------------------------------------------------------
RemoveDuplicates(names) ==
    FoldLeft(LAMBDA res, name : IF Contains(res, name) THEN res
                                ELSE Append(res, name), <<>>, names)

\* One turn of the loop.  The groups are named in any case; a name selected
\* before, and an unknown one, adds nothing.
AddSelected(names, s) ==
    CASE s.name \in Groups -> names \o OptionalCollectorNames
      [] s.exact /\ s.name \in Optional \ ToSet(names) -> Append(names, s.name)
      [] OTHER -> names

GetCollectorsToRun(selection) ==
    RemoveDuplicates(FoldLeft(AddSelected, RequiredCollectorNames, selection))

\* collect refuses to run without a log output file.
NeedsLogsOutput(selection) ==
    \E i \in DOMAIN selection :
        selection[i].exact /\ selection[i].name \in {LogsCollectorName, All}

-----------------------------------------------------------------------------
NamedInAnyCase(name) ==
    \E i \in DOMAIN selected : selected[i].name \in Groups \cup {name}
NamedExactly(name) ==
    \E i \in DOMAIN selected :
        \/ selected[i].name \in Groups
        \/ selected[i].name = name /\ selected[i].exact

\* GetCollectorsToRun: every required collector runs, and every optional one
\* that is named as the registry spells it, or by a group, in whatever order,
\* however often, and with whatever unknown names in between; no other one runs
\* unless it is named at all, and the runner builds none of them twice.
SelectionHonoured ==
    LET toRun == ToSet(GetCollectorsToRun(selected))
    IN  /\ Required \subseteq toRun
        /\ {name \in Optional : NamedExactly(name)} \subseteq toRun
        /\ toRun \subseteq Required \cup {name \in Optional : NamedInAnyCase(name)}
        /\ IsInjective(GetCollectorsToRun(selected))

-----------------------------------------------------------------------------
(* Statements of the sources that the code does not keep.                  *)

\* "the collectors you wish to run (case-insensitive)" (collect.go:136): the
\* case of a name makes no difference.  It does for a collector's own name,
\* which isIn compares exactly.
InAnyCase(selection) ==
    [i \in DOMAIN selection |-> [selection[i] EXCEPT !.exact = TRUE]]
CaseInsensitive ==
    ToSet(GetCollectorsToRun(selected)) =
        ToSet(GetCollectorsToRun(InAnyCase(selected)))

\* "This is required when using the logs collector" (collect.go:147, of the
\* log output file): whenever the logs collector is to run, the file is asked
\* for.  It is not when the collector comes in with "defaults" or "ALL".  No
\* run checks this statement.
LogsOutputRequired ==
    Contains(GetCollectorsToRun(selected), LogsCollectorName) =>
        NeedsLogsOutput(selected)
===============================================================================
