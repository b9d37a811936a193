------------------------------ MODULE DeviceFetch ------------------------------
(***************************************************************************)
(* How a record about a device is fetched (pkg/fetcher, clients/command.go *)
(* and the readers in pkg/collectors/devices): one shell script runs the   *)
(* commands of a fetcher, each one's output is cut out of what it prints,  *)
(* a post-processor parses it, and reflection copies the results into the  *)
(* fields of a struct whose types they must have.  A fetcher is built, with *)
(* its post-processor, before anybody polls it: by an init of its package, *)
(* by a constructor or by Start.                                           *)
(*                                                                         *)
(* An output is abstracted to what the parsers tell apart: none at all,    *)
(* odd (the parser refuses it, an empty line as well), or good.            *)
(***************************************************************************)
EXTENDS Naturals, Sequences, SequencesExt

CONSTANTS
    Polls,          \* the polls that may fetch at once
    MaxEntries      \* the entries of a netlink dump

VARIABLES
    fetcher,        \* the fetcher the polls use
    pc,             \* where each poll is
    stdout,         \* the output of each command, as the poll has it in hand
    dump,           \* the entries its netlink output parses to
    record,         \* the struct it has filled
    error,          \* why its last fetch failed
    crashed         \* whether the process has panicked

ASSUME EntriesBound == MaxEntries \in Nat

local == <<stdout, dump, record, error>>
vars == <<fetcher, pc, local, crashed>>

-----------------------------------------------------------------------------
(* The fetchers, their commands, what their post-processors yield and the  *)
(* tagged fields of their structs with their types.                        *)

Commands ==
    [devInfo     |-> {"date", "gnss", "devID", "vendorID", "ethtoolOut"},
     gpsVer      |-> {"UBXMonVer", "UBXVersion", "GPSDVersion", "GNSSDevices"},
     gpsNav      |-> {"GPS"},
     pmc         |-> {"date", "PMC"},
     dpllFS      |-> {"date", "dpll_0_state", "dpll_1_state", "dpll_1_offset"},
     dpllNetlink |-> {"date", "dpll-netlink"},
     clockID     |-> {"date", "dpll-netlink-serial-number"}]

Fetchers == DOMAIN Commands

GMTexts == {"timeSource", "clockAccuracy", "offsetScaledLogVariance"}
GMNumbers == {"clockClass", "currentUtcOffset", "leap61", "leap59", "ptpTimescale",
              "currentUtcOffsetValid", "timeTraceable", "frequencyTraceable"}

Typed(fields, type) == [f \in fields |-> type]

\* The entries of one map written over those of another; TLC's @@, which the
\* prover does not know.
Over(f, g) == [k \in DOMAIN f \cup DOMAIN g |-> IF k \in DOMAIN f THEN f[k] ELSE g[k]]

Yields ==
    [devInfo     |-> Over(Typed({"driverVersion", "firmwareVersion"}, "string"),
                          Typed({"timeOffset"}, "Duration")),
     gpsVer      |-> Over(Typed({"timestamp", "firmwareVersion", "protocolVersion",
                                 "module", "UBXVersion", "GPSDVersion"}, "string"),
                          Typed({"GNSSDevices"}, "[]string")),
     gpsNav      |-> [navStatus |-> "GPSNavStatus", navClock |-> "GPSNavClock",
                      antennaDetails |-> "[]*GPSAntennaDetails"],
     pmc         |-> Over(Typed(GMTexts, "string"), Typed(GMNumbers, "int")),
     dpllFS      |-> [dpll_1_offset |-> "float64"],
     dpllNetlink |-> <<>>,
     clockID     |-> [clockID |-> "Int"]]

Fields ==
    [devInfo     |-> Over(Typed({"date", "vendorID", "devID", "gnss", "firmwareVersion",
                                 "driverVersion"}, "string"),
                          Typed({"timeOffset"}, "Duration")),
     gpsVer      |-> Over(Typed({"timestamp", "firmwareVersion", "protocolVersion",
                                 "module", "UBXVersion", "GPSDVersion"}, "string"),
                          Typed({"GNSSDevices"}, "[]string")),
     gpsNav      |-> [navStatus |-> "GPSNavStatus", navClock |-> "GPSNavClock",
                      antennaDetails |-> "[]*GPSAntennaDetails"],
     pmc         |-> Over(Typed({"date"} \cup GMTexts, "string"),
                          Typed(GMNumbers, "int")),
     dpllFS      |-> Over(Typed({"date", "dpll_0_state", "dpll_1_state"}, "string"),
                          Typed({"dpll_1_offset"}, "float64")),
     dpllNetlink |-> Typed({"date", "eec", "pps"}, "string"),
     clockID     |-> Over(Typed({"date"}, "string"), Typed({"clockID"}, "Int"))]

\* The outputs that are parsed; nobody looks into the others.
Parsed == {"date", "ethtoolOut", "UBXMonVer", "UBXVersion", "GPSDVersion", "GPS",
           "PMC", "dpll_1_offset", "dpll-netlink", "dpll-netlink-serial-number"}

\* An offset may be NaN, and a time accuracy have too many digits for an int.
Outputs(k) ==
    {"none", "good"} \cup (IF k \in Parsed THEN {"odd"} ELSE {})
    \cup (IF k = "dpll_1_offset" THEN {"nan"} ELSE {})
    \cup (IF k = "GPS" THEN {"overlong"} ELSE {})

\* A netlink dump has entries of this clock and of others, or without one.
Entries == [clock : {"own", "other", "nil"}, type : {"eec", "pps"},
            status : {"locked", "odd"}]

Dumps(s) == IF fetcher = "dpllNetlink" /\ s["dpll-netlink"] = "good"
            THEN SeqOf(Entries, MaxEntries) ELSE {<<>>}

-----------------------------------------------------------------------------
(* What a fetch makes of the outputs.                                      *)

Value(type, is) == [type |-> type, is |-> is]

\* Broken: a command without a result is passed over.
ExtractableUnlessNone(k, output) == k = "date" => output # "odd"

\* Without any output the markers around it do not match; only the date's
\* output processor can fail.
Extractable(k, output) == output # "none" /\ (k = "date" => output # "odd")

ExtractResult(s) ==
    [k \in {k \in DOMAIN s : s[k] # "none"} |-> Value("string", s[k])]

\* The post-processors parse the results they need.  The date was written by
\* its output processor, and netlink output is not refused: its entries are
\* those that could be read, none if it cannot be parsed.
PostProcesses(raw) ==
    \A k \in (Commands[fetcher] \cap Parsed) \ {"date", "dpll-netlink"} :
        k \in DOMAIN raw /\ raw[k].is # "odd"

\* Broken: the clock of an entry is not looked at.
OfAnyClock(entry) == TRUE

OfThisClock(entry) == entry.clock = "own"

StateOf(status) == IF status = "locked" THEN "2" ELSE "-1"

AddState(states, e) ==
    IF OfThisClock(e)
    THEN Over([type \in {e.type} |-> Value("string", StateOf(e.status))], states)
    ELSE states

EntryStates(entries) ==
    LET after[k \in 0..Len(entries)] ==
            IF k = 0 THEN <<>> ELSE AddState(after[k - 1], entries[k])
    IN  after[Len(entries)]

Processed(raw, entries) ==
    IF fetcher = "dpllNetlink" THEN EntryStates(entries)
    ELSE [f \in DOMAIN Yields[fetcher] |->
            Value(Yields[fetcher][f],
                  IF f \in DOMAIN raw THEN raw[f].is ELSE "good")]

\* Broken: the raw results replace the processed ones of the same name.
MergedRawLast(raw, processed) == Over(raw, processed)

Merged(raw, processed) == Over(processed, raw)

Panics(raw, entries) ==
    \/ "GPS" \in DOMAIN raw /\ raw["GPS"].is = "overlong"
    \/ \E i \in DOMAIN entries : entries[i].clock = "nil"

Result(p) ==
    LET raw == ExtractResult(stdout[p]) IN Merged(raw, Processed(raw, dump[p]))

TypesFit(result) ==
    \A f \in DOMAIN Fields[fetcher] \cap DOMAIN result :
        result[f].type = Fields[fetcher][f]

-----------------------------------------------------------------------------
Init ==
    /\ fetcher \in Fetchers
    /\ pc = [p \in Polls |-> "idle"]
    /\ stdout = [p \in Polls |-> <<>>] /\ dump = [p \in Polls |-> <<>>]
    /\ record = [p \in Polls |-> <<>>] /\ error = [p \in Polls |-> "none"]
    /\ crashed = FALSE

Goto(p, from, to) ==
    /\ ~crashed /\ UNCHANGED <<crashed, fetcher>>
    /\ pc[p] = from /\ pc' = [pc EXCEPT ![p] = to]

\* Validations, and Start for the clock ID, fetch one after the other.
Serial == fetcher \in {"gpsVer", "clockID"}

Begin(p) ==
    /\ Goto(p, "idle", "run")
    /\ Serial => \A q \in Polls : pc[q] = "idle"
    /\ error' = [error EXCEPT ![p] = "none"]
    /\ UNCHANGED <<stdout, dump, record>>

Fail(p, from, why) ==
    /\ Goto(p, from, "idle")
    /\ error' = [error EXCEPT ![p] = why]
    /\ stdout' = [stdout EXCEPT ![p] = <<>>] /\ dump' = [dump EXCEPT ![p] = <<>>]
    /\ record' = [record EXCEPT ![p] = <<>>]

ExecFails(p) == Fail(p, "run", "exec")

ExtractFails(p) ==
    /\ \E k \in Commands[fetcher] : \E output \in Outputs(k) : ~Extractable(k, output)
    /\ Fail(p, "run", "extract")

Extract(p) ==
    /\ Goto(p, "run", "process")
    /\ \E s \in [Commands[fetcher] -> UNION {Outputs(k) : k \in Commands[fetcher]}] :
           /\ \A k \in DOMAIN s : s[k] \in Outputs(k) /\ Extractable(k, s[k])
           /\ stdout' = [stdout EXCEPT ![p] = s]
           /\ \E entries \in Dumps(s) : dump' = [dump EXCEPT ![p] = entries]
    /\ UNCHANGED <<record, error>>

PostProcessFails(p) ==
    /\ pc[p] = "process" => ~PostProcesses(ExtractResult(stdout[p]))
    /\ Fail(p, "process", "post")

Panic(p) ==
    /\ ~crashed /\ crashed' = TRUE
    /\ pc[p] = "process"
    /\ Panics(ExtractResult(stdout[p]), dump[p])
    /\ UNCHANGED <<fetcher, pc, local>>

PastPostProcessor(p) ==
    /\ PostProcesses(ExtractResult(stdout[p]))
    /\ ~Panics(ExtractResult(stdout[p]), dump[p])

Fill(p) ==
    /\ Goto(p, "process", "have")
    /\ record' = [record EXCEPT ![p] =
           [f \in DOMAIN Fields[fetcher] \cap DOMAIN Result(p) |-> Result(p)[f].is]]
    /\ UNCHANGED <<stdout, dump, error>>

Unmarshal(p) ==
    /\ pc[p] = "process" => PastPostProcessor(p)
    /\ IF pc[p] = "process" /\ TypesFit(Result(p))
       THEN Fill(p) ELSE Fail(p, "process", "types")

Unwritable(p) == \E f \in DOMAIN record[p] : record[p][f] = "nan"

\* JSON has no NaN.
CallFails(p) ==
    /\ Unwritable(p)
    /\ Fail(p, "have", "call")

\* The callback writes the record, or a validation takes it.
Call(p) ==
    /\ ~Unwritable(p)
    /\ Fail(p, "have", "none")

Next ==
    \E p \in Polls :
        \/ Begin(p) \/ ExecFails(p) \/ ExtractFails(p) \/ Extract(p)
        \/ PostProcessFails(p) \/ Panic(p) \/ Unmarshal(p)
        \/ CallFails(p) \/ Call(p)

Spec == Init /\ [][Next]_vars

-----------------------------------------------------------------------------
\* A record that a poll has in hand has every tagged field, but for the states
\* of a netlink dump: a field without a result would silently keep its zero
\* (unmarshal, line 34).  A missing output fails the fetch before.
RecordsAreWhole ==
    \A p \in Polls :
        pc[p] = "have" => DOMAIN Fields[fetcher] \ {"eec", "pps"} \subseteq DOMAIN record[p]

\* What the commands and the post-processors yield has the types of the fields,
\* whatever the outputs: a processed result replaces the raw one of its name,
\* which is text, and no fetch fails for a type (setValueOnField).
TypesAlwaysFit == \A p \in Polls : error[p] # "types"

\* The states in a record are those of this interface's clock: the last such
\* entry of the type, and nothing if there is none, whatever the entries of
\* other clocks before and after say.
StatesAreOwn ==
    \A p \in Polls : pc[p] = "have" /\ fetcher = "dpllNetlink" =>
        \A type \in {"eec", "pps"} :
            LET own == {i \in DOMAIN dump[p] : dump[p][i].clock = "own"
                                               /\ dump[p][i].type = type}
            IN  /\ type \in DOMAIN record[p] <=> own # {}
                /\ \A i \in own : (\A j \in own : j <= i)
                                    => record[p][type] = StateOf(dump[p][i].status)

(* The next three are stated for what the code does not keep; no run       *)
(* checks them.                                                            *)

\* No output stops the tool: an entry without a clock ID does (line 94 of
\* dpll_netlink.go), and so does a number out of range, for which the message
\* of the error indexes a group that the pattern does not have (gps_ubx.go:172).
NeverCrashes == ~crashed

\* Netlink output that cannot be parsed is an error; it is logged, and a
\* record without states is written (dpll_netlink.go:88).
UnparsedIsError ==
    \A p \in Polls : pc[p] = "have" /\ fetcher = "dpllNetlink"
                        => stdout[p]["dpll-netlink"] # "odd"

\* That a node has no GNSS device leaves the other versions (gps_ubx_ver.go:90
\* "so we just get an empty string if there is nothing"); an empty output
\* fails the whole fetch.
EmptyListingIsNoError == Extractable("GNSSDevices", "none")
=================================================================================
