------------------------------- MODULE EnvVerify -------------------------------
(***************************************************************************)
(* "env verify" (pkg/verify, pkg/validations): getValidations gathers the  *)
(* data of the thirteen checks, NewValidationResult judges each, report    *)
(* prints them and chooses the exit status.                                *)
(*                                                                         *)
(* An error is the chain of what it wraps, outermost first, the empty one  *)
(* being nil; "error" is one without a type of this program.  What a check *)
(* judges is a number: a version's place (Unparsable < below < Minimum <   *)
(* InTree), or how many antennas, devices, profiles... are as they should. *)
(***************************************************************************)
EXTENDS Integers, Sequences, SequencesExt, FiniteSets

CONSTANTS
    MaxOdd,       \* bound on the checks, antenna and fix aside, with odd data
    MaxUnwritten  \* bound on the results that cannot be written

ASSUME VerifyBounds == {MaxOdd, MaxUnwritten} \subseteq Nat

antPowerRetries == 3

FetchError == -1   \* the check holds the error of fetching its data
Unparsable == 0
Minimum == 2       \* MinVersion of the check
InTree == 3        \* minInTreeDriverVersion, above the driver's MinVersion

DevInfoChecks == <<"deviceDetails", "deviceFirmware", "deviceDriver">>
GPSVersionChecks ==
    <<"gnssVersion", "gpsdVersion", "hasGNSSDevices", "gnssModule", "gnssProt">>
ClusterChecks == <<"grandMaster", "operatorVersion", "clusterVersion">>

\* The constants of common.go, in ascending order.
Ordering ==
    <<"clusterVersion", "operatorVersion", "gpsdVersion", "deviceDetails",
      "deviceDriver", "deviceFirmware", "gnssModule", "gnssVersion", "gnssProt",
      "hasGNSSDevices", "antStatus", "navStatus", "grandMaster">>
Names == ToSet(Ordering)
GetOrder(name) == CHOOSE i \in DOMAIN Ordering : Ordering[i] = name

VersionChecks ==
    {"deviceFirmware", "gnssVersion", "gpsdVersion", "gnssProt",
     "operatorVersion", "clusterVersion"}

\* A list without devices never gets here: the fetch fails before
\* (EmptyListingIsNoError in DeviceFetch).
DataOf(name) ==
    (IF name \in VersionChecks THEN Unparsable..Minimum
     ELSE IF name = "deviceDriver" THEN Unparsable..InTree
     ELSE IF name = "hasGNSSDevices" THEN {1} ELSE 0..1)
    \cup (IF name \in ToSet(ClusterChecks) THEN {FetchError} ELSE {})
Expected(name) ==
    IF name \in VersionChecks THEN Minimum
    ELSE IF name = "deviceDriver" THEN InTree ELSE 1

-----------------------------------------------------------------------------
NoError == <<>>
Error == <<"error">>
Wrap(type, err) == <<type>> \o err          \* %w, or an Unwrap method
NewInvalidEnvError(err) == Wrap("InvalidEnv", err)
NewMissingInputError(err) == Wrap("MissingInput", err)
As(err, type) == Contains(err, type)        \* errors.As

CheckError(err) ==
    IF As(err, "InvalidEnv") THEN "InvalidEnv"
    ELSE IF As(err, "MissingInput") THEN "MissingInput" ELSE "NotHandled"

\* Only the messages of the errors are kept.
MakeCompositeError(errs) == Error

\* Broken: the composite is not an InvalidEnvError any more.
MakeCompositeInvalidEnvErrorPlain(errs) == MakeCompositeError(errs)
MakeCompositeInvalidEnvError(errs) == NewInvalidEnvError(MakeCompositeError(errs))

\* Verify of VersionCheck,
VerifyVersion(version) ==
    IF version <= Unparsable THEN Error
    ELSE IF version < Minimum THEN NewInvalidEnvError(Error) ELSE NoError

\* of a driver, whose Error is set below InTree, and which cannot be parsed
\* by VersionCheck where NewDeviceDriver could not,
VerifyDriver(version) == IF version < InTree THEN Error ELSE VerifyVersion(version)

\* and of the checks that look for something.
VerifyFound(number) ==
    IF number > 0 THEN NoError ELSE NewInvalidEnvError(Error)

\* Broken: the error of fetching is forgotten.
VerifyUnfetched(check) ==
    IF check.name \in VersionChecks THEN VerifyVersion(check.data)
    ELSE IF check.name = "deviceDriver" THEN VerifyDriver(check.data)
    ELSE VerifyFound(check.data)

Verify(check) ==
    IF check.data = FetchError THEN Error ELSE VerifyUnfetched(check)

\* NewValidationResult.
ResType(err) ==
    IF err = NoError THEN "success"
    ELSE IF As(err, "InvalidEnv") THEN "failure" ELSE "unknown"

NewValidationResult(check) ==
    [name |-> check.name, err |-> Verify(check), resType |-> ResType(Verify(check))]

-----------------------------------------------------------------------------
VARIABLES
    pc,
    useAnalyserJSON,
    checks,       \* gathered so far
    reads,        \* how often GetGPSNav was called: i, in the loop
    antCheck, gpsDetails, err,
    connected,    \* history: some read showed a connected antenna
    results,      \* in the order of the JSON report
    called,       \* for how many of them its callback was called
    anyHasFailed,
    unwritten,    \* history: the checks whose results could not be written
    output,       \* what was printed
    exit          \* the exit status

loop == <<reads, antCheck, gpsDetails, err, connected>>
writes == <<results, called, anyHasFailed, unwritten>>
vars == <<pc, useAnalyserJSON, checks, loop, writes, output, exit>>

NoAntCheck == [read |-> 0, antennas |-> -1]     \* nil
NoDetails == [antennas |-> 0, fix |-> 0]        \* GPSDetails{}

Init ==
    /\ pc = "clientset" /\ useAnalyserJSON \in BOOLEAN
    /\ checks = <<>> /\ output = <<>> /\ exit = "none"
    /\ results = <<>> /\ called = 0 /\ anyHasFailed = FALSE /\ unwritten = {}
    /\ reads = 0 /\ antCheck = NoAntCheck /\ err = NoError /\ connected = FALSE
    /\ gpsDetails = [read |-> 0, is |-> NoDetails]

\* IfErrorExitOrPanic of an error, or the end of main.
Exits(e) == exit' = IF e = NoError THEN "Success" ELSE CheckError(e)

\* Before there is anything to report.
Fails(at, e) ==
    /\ pc = at /\ pc' = "failed" /\ Exits(e)
    /\ UNCHANGED <<useAnalyserJSON, checks, output, loop, writes>>

GetClientset ==
    /\ pc = "clientset" /\ pc' = "devInfo"
    /\ UNCHANGED <<useAnalyserJSON, checks, output, exit, loop, writes>>

ClientsetFails == Fails("clientset", NewMissingInputError(Error))

\* One fetch gives the data of several checks.
Odd(list) ==
    Cardinality({i \in DOMAIN list : /\ list[i].data # Expected(list[i].name)
                                     /\ list[i].name \notin {"antStatus", "navStatus"}})
Gathers(at, names, next) ==
    /\ pc = at /\ pc' = next
    /\ \E data \in [DOMAIN names -> FetchError..InTree] :
        /\ \A i \in DOMAIN names : data[i] \in DataOf(names[i])
        /\ checks' = checks \o [i \in DOMAIN names |->
                                   [name |-> names[i], data |-> data[i]]]
    /\ Odd(checks') <= MaxOdd
    /\ UNCHANGED <<useAnalyserJSON, output, exit, loop, writes>>

GetDevInfoValidations == Gathers("devInfo", DevInfoChecks, "gpsVersion")
GetGPSVersionValidations == Gathers("gpsVersion", GPSVersionChecks, "gpsNav")
NewClusterChecks == Gathers("cluster", ClusterChecks, "report")

\* No context, a failed fetch, or a constructor that indexes past a version
\* without a blank (gnss_firmware_version.go:25) or an empty one
\* (device_driver.go:28).
GatheringFails ==
    reads = 0 /\ \E at \in {"devInfo", "gpsVersion", "gpsNav"} : Fails(at, Error)

ReadGPSNav(details, e) ==
    /\ pc = "gpsNav" /\ reads < antPowerRetries
    /\ reads' = reads + 1 /\ err' = e
    /\ gpsDetails' = [read |-> reads + 1, is |-> details]
    /\ UNCHANGED <<useAnalyserJSON, checks, output, exit, writes>>

\* Broken: all the reads are made.
GPSNavConnectedGoesOn ==
    /\ \E fix \in 0..1 : ReadGPSNav([antennas |-> 1, fix |-> fix], NoError)
    /\ antCheck' = [read |-> reads + 1, antennas |-> 1]
    /\ connected' = TRUE /\ pc' = pc

\* The antenna is connected: no more reads are needed.
GPSNavConnected ==
    /\ \E fix \in 0..1 : ReadGPSNav([antennas |-> 1, fix |-> fix], NoError)
    /\ antCheck' = [read |-> reads + 1, antennas |-> 1]
    /\ connected' = TRUE /\ pc' = "gpsStatus"

\* It is not: the next read follows after a second.
GPSNavDisconnected ==
    /\ \E fix \in 0..1 : ReadGPSNav([antennas |-> 0, fix |-> fix], NoError)
    /\ antCheck' = [read |-> reads + 1, antennas |-> 0]
    /\ UNCHANGED <<connected, pc>>

GPSNavFails ==
    /\ ReadGPSNav(NoDetails, Error)
    /\ UNCHANGED <<antCheck, connected, pc>>

RetriesOver ==
    /\ pc = "gpsNav" /\ reads = antPowerRetries /\ pc' = "gpsStatus"
    /\ UNCHANGED <<useAnalyserJSON, checks, output, exit, loop, writes>>

\* Broken: the error of the last read is dropped.
GetGPSStatusRegardless ==
    /\ pc = "gpsStatus" /\ pc' = "cluster"
    /\ checks' = checks \o <<[name |-> "antStatus", data |-> antCheck.antennas],
                             [name |-> "navStatus", data |-> gpsDetails.is.fix]>>
    /\ UNCHANGED <<useAnalyserJSON, output, exit, loop, writes>>

\* After the loop only the last read counts.
GetGPSStatusValidation ==
    /\ pc = "gpsStatus" /\ err = NoError /\ pc' = "cluster"
    /\ checks' = checks \o <<[name |-> "antStatus", data |-> antCheck.antennas],
                             [name |-> "navStatus", data |-> gpsDetails.is.fix]>>
    /\ UNCHANGED <<useAnalyserJSON, output, exit, loop, writes>>

LastReadFailed == err # NoError /\ Fails("gpsStatus", err)

-----------------------------------------------------------------------------
Results == [i \in DOMAIN checks |-> NewValidationResult(checks[i])]

\* The results of a type, appended in turn.
OfType(list, resType) ==
    LET after[k \in 0..Len(list)] ==
            IF k = 0 THEN <<>>
            ELSE IF list[k].resType = resType THEN Append(after[k - 1], list[k])
            ELSE after[k - 1]
    IN  after[Len(list)]

Before(r, s) == GetOrder(r.name) < GetOrder(s.name)

\* sort.Slice, of results no two of which have the same order: the place of a
\* result is given by the number of those before it.
Sorted(list) ==
    [k \in DOMAIN list |->
        list[CHOOSE i \in DOMAIN list :
                Cardinality({j \in DOMAIN list : Before(list[j], list[i])}) = k - 1]]

\* reportAnalyserJSON sorts the results, and calls the callback for each.
SortResults ==
    /\ pc = "report" /\ useAnalyserJSON /\ pc' = "write"
    /\ results' = Sorted(Results)
    /\ UNCHANGED <<useAnalyserJSON, checks, loop, called, anyHasFailed, unwritten,
                   output, exit>>

CallsBack ==
    /\ pc = "write" /\ called < Len(results) /\ called' = called + 1
    /\ anyHasFailed' = (anyHasFailed \/ results[called + 1].resType = "failure")
    /\ UNCHANGED <<pc, useAnalyserJSON, checks, loop, results, exit>>

CallWrites ==
    /\ CallsBack
    /\ output' = Append(output, results[called + 1])
    /\ UNCHANGED unwritten

\* Broken: the results that follow are not written either.
WriteFailsGivesUp ==
    /\ pc = "write" /\ called < Len(results) /\ called' = Len(results)
    /\ Cardinality(unwritten) < MaxUnwritten
    /\ unwritten' = unwritten \cup {results[called + 1].name}
    /\ UNCHANGED <<pc, useAnalyserJSON, checks, loop, results, anyHasFailed, output, exit>>

\* A result that cannot be written is logged and left out, and the next is tried.
WriteFails ==
    /\ CallsBack
    /\ Cardinality(unwritten) < MaxUnwritten
    /\ unwritten' = unwritten \cup {results[called + 1].name}
    /\ UNCHANGED output

\* The status is that of all the results.
ReportEnds ==
    /\ pc = "write" /\ called = Len(results) /\ pc' = "done"
    /\ Exits(IF anyHasFailed THEN NewInvalidEnvError(Error) ELSE NoError)
    /\ UNCHANGED <<useAnalyserJSON, checks, loop, writes, output>>

\* Successes are not printed.
ReportText ==
    /\ pc = "report" /\ ~useAnalyserJSON /\ pc' = "done"
    /\ \E failures \in {OfType(Results, "failure")} :
          /\ output' = OfType(Results, "unknown") \o failures
          /\ Exits(IF failures = <<>> THEN NoError
                   ELSE MakeCompositeInvalidEnvError(failures))
    /\ UNCHANGED <<useAnalyserJSON, checks, loop, writes>>

Next ==
    \/ GetClientset \/ ClientsetFails
    \/ GetDevInfoValidations \/ GetGPSVersionValidations \/ GatheringFails
    \/ GPSNavConnected \/ GPSNavDisconnected \/ GPSNavFails \/ RetriesOver
    \/ GetGPSStatusValidation \/ LastReadFailed
    \/ NewClusterChecks
    \/ SortResults \/ CallWrites \/ WriteFails \/ ReportEnds
    \/ ReportText

Spec == Init /\ [][Next]_vars

-----------------------------------------------------------------------------
Gathered == pc \in {"cluster", "report", "write", "done"}
ResultOf(name) ==
    NewValidationResult(checks[CHOOSE i \in DOMAIN checks : checks[i].name = name])

\* The list of checks never holds the nil antCheck of a loop without a
\* successful read (Verify would dereference it), nor data of another type.
TypeOK ==
    /\ pc \in {"clientset", "devInfo", "gpsVersion", "gpsNav", "gpsStatus",
               "cluster", "report", "write", "done", "failed"}
    /\ useAnalyserJSON \in BOOLEAN /\ connected \in BOOLEAN
    /\ checks \in Seq([name : Names, data : Int])
    /\ \A i \in DOMAIN checks : checks[i].data \in DataOf(checks[i].name)
    /\ reads \in 0..antPowerRetries
    /\ antCheck \in [read : 0..antPowerRetries, antennas : -1..1]
    /\ gpsDetails.is.fix \in 0..1
    /\ err \in {NoError, Error}
    /\ exit \in {"none", "Success", "InvalidEnv", "MissingInput", "NotHandled"}

\* The details are those of the last read; antCheck is older just when that
\* read failed, and nil when every read did.
ReadsInStep ==
    /\ gpsDetails.read = reads
    /\ reads > 0 /\ err = NoError => antCheck.read = reads
    /\ antCheck.antennas = -1 <=> antCheck.read = 0

\* Only what the last read left without an error goes further, and a connected
\* antenna ends the loop.
LoopEnds ==
    /\ pc = "gpsStatus" => reads > 0
    /\ Gathered => reads > 0 /\ err = NoError
    /\ connected => /\ pc \notin {"clientset", "devInfo", "gpsVersion", "gpsNav"}
                    /\ err = NoError /\ antCheck.antennas = 1

\* The inductive invariant of the antenna's loop.
IInv == TypeOK /\ ReadsInStep /\ LoopEnds

\* getGPSStatusValidation: whatever reads failed in between, the antenna and
\* the navigation status that are reported were read together, and last.
StatusOfLastRead ==
    Gathered => antCheck.read = reads /\ gpsDetails.read = reads

\* An antenna that was found connected by any of the reads is reported so: no
\* later read takes it back.
FoundAntennaReported ==
    Gathered /\ connected => ResultOf("antStatus").resType = "success"

\* From the data to the exit status: both formats exit with InvalidEnv just
\* when the data of some check was fetched, could be understood and is not as
\* it should be, whatever the order of the results and whatever was written of
\* them.  The driver is never among those: NewDeviceDriver's Error for any
\* version below InTree hides the verdict on its MinVersion.
KnownBad(check) ==
    /\ check.name # "deviceDriver" /\ check.data # FetchError
    /\ check.name \in VersionChecks => check.data # Unparsable
    /\ check.data < Expected(check.name)
ExitTellsFailures ==
    pc = "done" =>
        exit = IF \E i \in DOMAIN checks : KnownBad(checks[i])
               THEN "InvalidEnv" ELSE "Success"

\* The JSON report has every check but those whose results could not be written,
\* wherever in the list they are, each once and in the order of common.go; the
\* text names every check that is not a success.
ReportComplete ==
    pc = "done" =>
        IF useAnalyserJSON
        THEN /\ \A i, j \in DOMAIN output : i < j => Before(output[i], output[j])
             /\ {output[i].name : i \in DOMAIN output} = Names \ unwritten
        ELSE {output[i].name : i \in DOMAIN output} =
                {checks[i].name : i \in {j \in DOMAIN checks :
                                            Verify(checks[j]) # NoError}}
=============================================================================
