---------------------------- MODULE EnvVerifyProofs ----------------------------
(***************************************************************************)
(* What "env verify" reports of the antenna, for any bound on odd data.    *)
(***************************************************************************)
EXTENDS EnvVerify, FiniteSetTheorems, FunctionTheorems, WellFoundedInduction, TLAPS

Checks == [name : Names, data : Int]

LEMMA NamesAre ==
    Names = {"clusterVersion", "operatorVersion", "gpsdVersion", "deviceDetails",
             "deviceDriver", "deviceFirmware", "gnssModule", "gnssVersion",
             "gnssProt", "hasGNSSDevices", "antStatus", "navStatus", "grandMaster"}
  BY SMTT(60) DEF Names, Ordering, ToSet

\* Lists written out.
LEMMA ListOf2 ==
    ASSUME NEW S, NEW a \in S, NEW b \in S
    PROVE  <<a, b>> \in Seq(S)
  OBVIOUS

LEMMA ListOf3 ==
    ASSUME NEW S, NEW a \in S, NEW b \in S, NEW c \in S
    PROVE  <<a, b, c>> \in Seq(S)
  OBVIOUS

LEMMA ListOf5 ==
    ASSUME NEW S, NEW a \in S, NEW b \in S, NEW c \in S, NEW d \in S, NEW e \in S
    PROVE  <<a, b, c, d, e>> \in Seq(S)
  OBVIOUS

\* The checks of two lists are those of their concatenation.
LEMMA ConcatTyped ==
    ASSUME NEW s \in Seq(Checks), NEW t \in Seq(Checks),
           \A i \in DOMAIN s : s[i].data \in DataOf(s[i].name),
           \A i \in DOMAIN t : t[i].data \in DataOf(t[i].name)
    PROVE  /\ s \o t \in Seq(Checks)
           /\ \A i \in DOMAIN (s \o t) :
                 (s \o t)[i].data \in DataOf((s \o t)[i].name)
  <1>1. s \o t \in Seq(Checks)
    OBVIOUS
  <1>2. ASSUME NEW i \in DOMAIN (s \o t)
        PROVE  (s \o t)[i].data \in DataOf((s \o t)[i].name)
    <2>1. \/ i \in DOMAIN s /\ (s \o t)[i] = s[i]
          \/ i - Len(s) \in DOMAIN t /\ (s \o t)[i] = t[i - Len(s)]
      OBVIOUS
    <2> QED
      BY <2>1
  <1> QED
    BY <1>1, <1>2

LEMMA InitIInv == Init => IInv
  <1> SUFFICES ASSUME Init PROVE IInv
    OBVIOUS
  <1>1. TypeOK
    <2>1. checks \in Seq(Checks) /\ DOMAIN checks = {}
      BY DEF Init
    <2>2. reads \in 0..antPowerRetries
      BY DEF Init, antPowerRetries
    <2>3. antCheck \in [read : 0..antPowerRetries, antennas : -1..1]
      BY DEF Init, NoAntCheck, antPowerRetries
    <2>4. gpsDetails.is.fix \in 0..1
      <3>1. gpsDetails.is = NoDetails
        BY DEF Init
      <3> QED
        BY <3>1 DEF NoDetails
    <2> QED
      BY <2>1, <2>2, <2>3, <2>4 DEF Init, TypeOK, Checks
  <1>2. ReadsInStep
    BY DEF Init, ReadsInStep, NoAntCheck
  <1>3. LoopEnds
    BY DEF Init, LoopEnds, Gathered
  <1> QED
    BY <1>1, <1>2, <1>3 DEF IInv

\* Data gathered is of its check's type.
LEMMA GathersTyped ==
    ASSUME IInv, NEW at, NEW names \in Seq(Names), NEW next,
           Gathers(at, names, next), next \in {"gpsVersion", "gpsNav", "report"}
    PROVE  TypeOK'
  <1>1. PICK data \in [DOMAIN names -> FetchError..InTree] :
            /\ \A i \in DOMAIN names : data[i] \in DataOf(names[i])
            /\ checks' = checks \o [i \in DOMAIN names |->
                                       [name |-> names[i], data |-> data[i]]]
    BY DEF Gathers
  <1> DEFINE new == [i \in DOMAIN names |-> [name |-> names[i], data |-> data[i]]]
  <1>2. new \in Seq(Checks)
    <2>1. DOMAIN names = 1..Len(names) /\ Len(names) \in Nat
      OBVIOUS
    <2>2. FetchError..InTree \subseteq Int
      BY DEF FetchError, InTree
    <2>3. \A i \in DOMAIN names : names[i] \in Names
      OBVIOUS
    <2>4. \A i \in DOMAIN names : new[i] \in Checks
      BY <1>1, <2>2, <2>3 DEF Checks
    <2>5. new \in [1..Len(names) -> Checks]
      BY <2>1, <2>4
    <2> HIDE DEF new
    <2> QED
      BY <2>1, <2>5
  <1>3. \A i \in DOMAIN new : new[i].data \in DataOf(new[i].name)
    BY <1>1
  <1>4. /\ checks \in Seq(Checks)
        /\ \A i \in DOMAIN checks : checks[i].data \in DataOf(checks[i].name)
    BY DEF IInv, TypeOK, Checks
  <1> HIDE DEF new
  <1>5. /\ checks' \in Seq(Checks)
        /\ \A i \in DOMAIN checks' : checks'[i].data \in DataOf(checks'[i].name)
    BY <1>1, <1>2, <1>3, <1>4, ConcatTyped DEF new
  <1> QED
    BY <1>5 DEF Gathers, loop, IInv, TypeOK, Checks

\* An exit status is one of errors.go.
LEMMA ExitStatus ==
    ASSUME NEW e, Exits(e)
    PROVE  exit' \in {"none", "Success", "InvalidEnv", "MissingInput", "NotHandled"}
  BY DEF Exits, CheckError

\* The loop's variables, and what was gathered, are left alone.
LEMMA LoopKept ==
    ASSUME IInv, UNCHANGED <<loop, useAnalyserJSON, checks>>,
           pc' \in {"devInfo", "gpsStatus", "write", "done", "failed"},
           exit' \in {"none", "Success", "InvalidEnv", "MissingInput", "NotHandled"}
    PROVE  TypeOK' /\ ReadsInStep'
  BY DEF IInv, TypeOK, ReadsInStep, loop

\* A read in the loop: what it yields is of its type and in step.
LEMMA ReadStep ==
    ASSUME IInv, NEW details, NEW e \in {NoError, Error}, ReadGPSNav(details, e),
           details.fix \in 0..1, connected' \in BOOLEAN,
           pc' \in {"gpsNav", "gpsStatus"},
           \/ e = Error /\ antCheck' = antCheck
           \/ \E n \in 0..1 : antCheck' = [read |-> reads + 1, antennas |-> n]
    PROVE  TypeOK' /\ ReadsInStep' /\ reads' > 0
  <1>1. /\ reads \in Nat /\ reads + 1 \in 0..antPowerRetries
        /\ reads' = reads + 1 /\ err' = e
    BY DEF IInv, TypeOK, ReadGPSNav, antPowerRetries
  <1>3. gpsDetails'.read = reads + 1 /\ gpsDetails'.is = details
    BY DEF ReadGPSNav
  <1>4. /\ antCheck' \in [read : 0..antPowerRetries, antennas : -1..1]
        /\ antCheck'.antennas = -1 <=> antCheck'.read = 0
        /\ e = NoError => antCheck'.read = reads + 1
    <2>1. CASE e = Error /\ antCheck' = antCheck
      BY <2>1 DEF IInv, TypeOK, ReadsInStep, NoError, Error
    <2>2. CASE \E n \in 0..1 : antCheck' = [read |-> reads + 1, antennas |-> n]
      BY <1>1, <2>2
    <2> QED
      BY <2>1, <2>2
  <1>5. TypeOK'
    BY <1>1, <1>3, <1>4 DEF IInv, TypeOK, ReadGPSNav
  <1>6. ReadsInStep'
    BY <1>1, <1>3, <1>4 DEF ReadsInStep
  <1> QED
    BY <1>1, <1>5, <1>6

\* What goes on to the checks was read last, and without an error.
LEMMA StatusTyped ==
    ASSUME IInv, GetGPSStatusValidation
    PROVE  TypeOK'
  <1> DEFINE new == <<[name |-> "antStatus", data |-> antCheck.antennas],
                      [name |-> "navStatus", data |-> gpsDetails.is.fix]>>
  <1>1. antCheck.read = reads /\ reads > 0 /\ reads # 0
    BY DEF IInv, TypeOK, ReadsInStep, LoopEnds, GetGPSStatusValidation, antPowerRetries
  <1>2. antCheck.antennas \in 0..1
    <2>1. antCheck.antennas \in -1..1 /\ antCheck.antennas # -1
      BY <1>1 DEF IInv, TypeOK, ReadsInStep
    <2> QED
      BY <2>1
  <1>3. gpsDetails.is.fix \in 0..1
    BY DEF IInv, TypeOK
  <1>4. new \in Seq(Checks)
    <2>1. /\ [name |-> "antStatus", data |-> antCheck.antennas] \in Checks
          /\ [name |-> "navStatus", data |-> gpsDetails.is.fix] \in Checks
      BY <1>2, <1>3, NamesAre DEF Checks
    <2> QED
      BY <2>1, ListOf2
  <1>5. \A i \in DOMAIN new : new[i].data \in 0..1
                              /\ new[i].name \in {"antStatus", "navStatus"}
    BY <1>2, <1>3
  <1>6. \A name \in {"antStatus", "navStatus"} : 0..1 \subseteq DataOf(name)
    BY DEF DataOf, VersionChecks
  <1>7. \A i \in DOMAIN new : new[i].data \in DataOf(new[i].name)
    BY <1>5, <1>6
  <1>8. /\ checks \in Seq(Checks)
        /\ \A i \in DOMAIN checks : checks[i].data \in DataOf(checks[i].name)
    BY DEF IInv, TypeOK, Checks
  <1>9. checks' = checks \o new
    BY DEF GetGPSStatusValidation
  <1> HIDE DEF new
  <1>10. /\ checks' \in Seq(Checks)
         /\ \A i \in DOMAIN checks' : checks'[i].data \in DataOf(checks'[i].name)
    BY <1>4, <1>7, <1>8, <1>9, ConcatTyped
  <1> QED
    BY <1>10 DEF GetGPSStatusValidation, loop, IInv, TypeOK, Checks

\* Every step keeps the invariant.
LEMMA NextIInv == IInv /\ [Next]_vars => IInv'
  <1> SUFFICES ASSUME IInv, [Next]_vars PROVE IInv'
    OBVIOUS
  <1>1. CASE GetClientset
    <2>1. TypeOK' /\ ReadsInStep'
      <3>1. exit' \in {"none", "Success", "InvalidEnv", "MissingInput", "NotHandled"}
        BY <1>1 DEF GetClientset, IInv, TypeOK
      <3> QED
        BY <1>1, <3>1, LoopKept DEF GetClientset
    <2>2. LoopEnds'
      BY <1>1 DEF GetClientset, IInv, LoopEnds, Gathered, loop
    <2> QED
      BY <2>1, <2>2 DEF IInv
  <1>2. ASSUME NEW at \in {"clientset", "devInfo", "gpsVersion", "gpsNav", "gpsStatus"},
               NEW e, Fails(at, e)
        PROVE  IInv'
    <2>1. UNCHANGED <<loop, useAnalyserJSON, checks>> /\ Exits(e)
      BY <1>2 DEF Fails
    <2>2. TypeOK' /\ ReadsInStep' /\ pc' = "failed"
      BY <1>2, <2>1, ExitStatus, LoopKept DEF Fails
    <2>3. LoopEnds'
      BY <1>2, <2>2 DEF Fails, IInv, LoopEnds, Gathered, loop
    <2> QED
      BY <2>2, <2>3 DEF IInv
  <1>3. CASE ClientsetFails \/ GatheringFails \/ LastReadFailed
    BY <1>2, <1>3 DEF ClientsetFails, GatheringFails, LastReadFailed
  <1>4. ASSUME NEW at \in {"devInfo", "gpsVersion", "cluster"},
               NEW names \in Seq(Names),
               NEW next \in {"gpsVersion", "gpsNav", "report"},
               next = "report" <=> at = "cluster", Gathers(at, names, next)
        PROVE  IInv'
    <2>1. TypeOK'
      BY <1>4, GathersTyped
    <2>2. pc = at /\ pc' = next /\ UNCHANGED <<output, loop>>
      BY <1>4 DEF Gathers
    <2>3. ReadsInStep' /\ LoopEnds'
      BY <1>4, <2>2 DEF IInv, ReadsInStep, LoopEnds, Gathered, loop
    <2> QED
      BY <2>1, <2>3 DEF IInv
  <1>5. CASE GetDevInfoValidations \/ GetGPSVersionValidations \/ NewClusterChecks
    <2>1. DevInfoChecks \in Seq(Names)
      BY ListOf3, NamesAre DEF DevInfoChecks
    <2>2. GPSVersionChecks \in Seq(Names)
      BY ListOf5, NamesAre DEF GPSVersionChecks
    <2>3. ClusterChecks \in Seq(Names)
      BY ListOf3, NamesAre DEF ClusterChecks
    <2> QED
      BY <1>4, <1>5, <2>1, <2>2, <2>3
      DEF GetDevInfoValidations, GetGPSVersionValidations, NewClusterChecks
  <1>6. CASE GPSNavConnected
    <2>1. PICK fix \in 0..1 : ReadGPSNav([antennas |-> 1, fix |-> fix], NoError)
      BY <1>6 DEF GPSNavConnected
    <2>2. /\ antCheck' = [read |-> reads + 1, antennas |-> 1]
          /\ connected' = TRUE /\ pc' = "gpsStatus"
      BY <1>6 DEF GPSNavConnected
    <2>3. TypeOK' /\ ReadsInStep' /\ reads' > 0
      BY <2>1, <2>2, ReadStep
    <2>4. err' = NoError /\ output' = output /\ antCheck'.antennas = 1
      BY <2>1, <2>2 DEF ReadGPSNav
    <2>5. LoopEnds'
      BY <2>2, <2>3, <2>4 DEF LoopEnds, Gathered
    <2> QED
      BY <2>3, <2>5 DEF IInv
  <1>7. CASE GPSNavDisconnected
    <2>1. PICK fix \in 0..1 : ReadGPSNav([antennas |-> 0, fix |-> fix], NoError)
      BY <1>7 DEF GPSNavDisconnected
    <2>2. /\ antCheck' = [read |-> reads + 1, antennas |-> 0]
          /\ UNCHANGED <<connected, pc>> /\ pc = "gpsNav"
      BY <1>7, <2>1 DEF GPSNavDisconnected, ReadGPSNav
    <2>3. TypeOK' /\ ReadsInStep' /\ reads' > 0
      <3>1. connected' \in BOOLEAN /\ pc' \in {"gpsNav", "gpsStatus"}
        BY <2>2 DEF IInv, TypeOK
      <3> QED
        BY <2>1, <2>2, <3>1, ReadStep
    <2>4. output' = output /\ ~connected'
      BY <2>1, <2>2 DEF ReadGPSNav, IInv, LoopEnds
    <2>5. LoopEnds'
      BY <2>2, <2>3, <2>4 DEF LoopEnds, Gathered
    <2> QED
      BY <2>3, <2>5 DEF IInv
  <1>8. CASE GPSNavFails
    <2>1. ReadGPSNav(NoDetails, Error) /\ UNCHANGED <<antCheck, connected, pc>>
      BY <1>8 DEF GPSNavFails
    <2>2. pc = "gpsNav" /\ NoDetails.fix \in 0..1
      BY <2>1 DEF ReadGPSNav, NoDetails
    <2>3. TypeOK' /\ ReadsInStep' /\ reads' > 0
      <3>1. connected' \in BOOLEAN /\ pc' \in {"gpsNav", "gpsStatus"}
        BY <2>1, <2>2 DEF IInv, TypeOK
      <3> QED
        BY <2>1, <2>2, <3>1, ReadStep
    <2>4. output' = output /\ ~connected'
      BY <2>1, <2>2 DEF ReadGPSNav, IInv, LoopEnds
    <2>5. LoopEnds'
      BY <2>1, <2>2, <2>3, <2>4 DEF LoopEnds, Gathered
    <2> QED
      BY <2>3, <2>5 DEF IInv
  <1>9. CASE RetriesOver
    <2>1. TypeOK' /\ ReadsInStep'
      <3>1. exit' \in {"none", "Success", "InvalidEnv", "MissingInput", "NotHandled"}
        BY <1>9 DEF RetriesOver, IInv, TypeOK
      <3> QED
        BY <1>9, <3>1, LoopKept DEF RetriesOver
    <2>2. LoopEnds'
      BY <1>9 DEF RetriesOver, IInv, LoopEnds, Gathered, loop, antPowerRetries
    <2> QED
      BY <2>1, <2>2 DEF IInv
  <1>10. CASE GetGPSStatusValidation
    <2>1. TypeOK'
      BY <1>10, StatusTyped
    <2>2. /\ pc = "gpsStatus" /\ pc' = "cluster" /\ err = NoError
          /\ UNCHANGED <<output, loop>>
      BY <1>10 DEF GetGPSStatusValidation
    <2>3. ReadsInStep' /\ LoopEnds'
      BY <2>2 DEF IInv, ReadsInStep, LoopEnds, Gathered, loop
    <2> QED
      BY <2>1, <2>3 DEF IInv
  <1>11. ASSUME UNCHANGED <<useAnalyserJSON, checks, loop>>,
                pc \in {"report", "write"}, pc' \in {"write", "done"},
                exit' = exit \/ \E e : Exits(e)
         PROVE  IInv'
    <2>1. exit' \in {"none", "Success", "InvalidEnv", "MissingInput", "NotHandled"}
      <3>1. CASE exit' = exit
        BY <3>1 DEF IInv, TypeOK
      <3>2. CASE \E e : Exits(e)
        BY <3>2, ExitStatus
      <3> QED
        BY <1>11, <3>1, <3>2
    <2>2. TypeOK' /\ ReadsInStep'
      BY <1>11, <2>1, LoopKept
    <2>3. LoopEnds'
      BY <1>11 DEF IInv, LoopEnds, Gathered, loop
    <2> QED
      BY <2>2, <2>3 DEF IInv
  <1>13. CASE SortResults \/ CallWrites \/ WriteFails
    BY <1>11, <1>13 DEF SortResults, CallWrites, WriteFails, CallsBack
  <1>14. CASE ReportEnds \/ ReportText
    <2>1. \E e : Exits(e)
      BY <1>14 DEF ReportEnds, ReportText
    <2> QED
      BY <1>11, <1>14, <2>1 DEF ReportEnds, ReportText
  <1>12. CASE UNCHANGED vars
    BY <1>12 DEF vars, loop, IInv, TypeOK, ReadsInStep, LoopEnds, Gathered
  <1> QED
    BY <1>1, <1>3, <1>5, <1>6, <1>7, <1>8, <1>9, <1>10, <1>12, <1>13, <1>14 DEF Next

\* The list of checks only holds data of their types, never that of a nil
\* antenna check; the details are those of the last read, and only a last read
\* without an error goes further (getGPSStatusValidation).
THEOREM InvariantIInv == Spec => []IInv
  BY InitIInv, NextIInv, PTL DEF Spec

\* What is reported of the antenna and of the navigation status was read
\* together, and last.
THEOREM StatusIsOfLastRead == Spec => []StatusOfLastRead
  <1>1. IInv => StatusOfLastRead
    BY DEF IInv, ReadsInStep, LoopEnds, StatusOfLastRead
  <1> QED
    BY <1>1, InvariantIInv, PTL

-----------------------------------------------------------------------------
(* The lists and orders of the report.                                     *)

(* Induction up to a number; of a set, as a predicate cannot be a          *)
(* parameter, and from the well-foundedness of <.                          *)
LEMMA InductionTo ==
    ASSUME NEW n \in Nat, NEW S, 0 \in S, \A k \in 1..n : k - 1 \in S => k \in S
    PROVE  0..n \subseteq S
  <1> DEFINE Less == {ss \in Nat \X Nat : ss[1] < ss[2]}
             Bad == (0..n) \ S
  <1> SUFFICES ASSUME Bad # {} PROVE FALSE
    OBVIOUS
  <1>1. IsWellFoundedOn(Less, Nat)
    BY NatLessThanWellFounded DEF OpToRel
  <1>2. Bad \subseteq Nat
    OBVIOUS
  <1>3. PICK k \in Bad : \A j \in Bad : ~ (<<j, k>> \in Less)
    <2> HIDE DEF Less, Bad
    <2> QED
      BY <1>1, <1>2, WFMin
  <1>4. \A j \in Bad : ~ (j < k)
    <2> HIDE DEF Bad
    <2> QED
      BY <1>2, <1>3
  <1>5. k \in 1..n /\ k - 1 \in 0..n /\ k - 1 < k
    OBVIOUS
  <1> QED
    BY <1>4, <1>5

\* The results of a loop: step tells what to make of the result so far in a turn.
Turns(r, n, base, step) == r[0] = base /\ \A k \in 1..n : r[k] = step[<<r[k - 1], k>>]

(* A loop whose steps stay in V has results.                               *)
LEMMA ResultsExist ==
    ASSUME NEW n \in Nat, NEW V, NEW base \in V, NEW step \in [V \X (1..n) -> V]
    PROVE  \E r \in [0..n -> V] : Turns(r, n, base, step)
  <1> DEFINE Solved == {k \in 0..n : \E r \in [0..k -> V] : Turns(r, k, base, step)}
  <1>1. 0 \in Solved
    <2>1. [k \in 0..0 |-> base] \in [0..0 -> V]
      OBVIOUS
    <2>2. Turns([k \in 0..0 |-> base], 0, base, step)
      BY DEF Turns
    <2> QED
      BY <2>1, <2>2
  <1>2. ASSUME NEW k \in 1..n, k - 1 \in Solved PROVE k \in Solved
    <2>1. PICK r \in [0..(k - 1) -> V] : Turns(r, k - 1, base, step)
      BY <1>2
    <2> DEFINE new == [j \in 0..k |-> IF j = k THEN step[<<r[k - 1], k>>] ELSE r[j]]
    <2>2. step[<<r[k - 1], k>>] \in V
      BY <2>1
    <2>3. new \in [0..k -> V]
      BY <2>1, <2>2
    <2>4. \A j \in 0..(k - 1) : new[j] = r[j]
      OBVIOUS
    <2>5. new[k] = step[<<r[k - 1], k>>]
      OBVIOUS
    <2> HIDE DEF new
    <2>6. \A j \in 1..k : new[j] = step[<<new[j - 1], j>>]
      <3> TAKE j \in 1..k
      <3>1. CASE j = k
        BY <2>4, <2>5, <3>1
      <3>2. CASE j # k
        <4>1. j \in 1..(k - 1) /\ j - 1 \in 0..(k - 1) /\ j \in 0..(k - 1)
          BY <3>2
        <4> QED
          BY <2>1, <2>4, <4>1 DEF Turns
      <3> QED
        BY <3>1, <3>2
    <2>7. Turns(new, k, base, step)
      BY <2>1, <2>4, <2>6 DEF Turns
    <2> QED
      BY <2>3, <2>7
  <1> HIDE DEF Solved
  <1>3. n \in Solved
    BY <1>1, <1>2, InductionTo
  <1> QED
    BY <1>3 DEF Solved

\* The checks in the order they are gathered in, and the places they have in
\* Ordering, and back.
InGathering ==
    <<"deviceDetails", "deviceFirmware", "deviceDriver",
      "gnssVersion", "gpsdVersion", "hasGNSSDevices", "gnssModule", "gnssProt",
      "antStatus", "navStatus", "grandMaster", "operatorVersion", "clusterVersion">>
PlaceOf == <<4, 6, 5, 8, 3, 10, 7, 9, 11, 12, 13, 2, 1>>
GatheredAt == <<13, 12, 5, 1, 3, 2, 7, 4, 8, 6, 9, 10, 11>>

LEMMA Places ==
    /\ DOMAIN Ordering = 1..13 /\ Len(Ordering) = 13
    /\ \A i \in 1..13 : /\ PlaceOf[i] \in 1..13 /\ GatheredAt[PlaceOf[i]] = i
                        /\ Ordering[PlaceOf[i]] = InGathering[i]
    /\ \A k \in 1..13 : /\ GatheredAt[k] \in 1..13 /\ PlaceOf[GatheredAt[k]] = k
                        /\ InGathering[GatheredAt[k]] = Ordering[k]
  <1>1. DOMAIN Ordering = 1..13 /\ Len(Ordering) = 13
    BY DEF Ordering
  <1>2. \A i \in 1..13 : /\ PlaceOf[i] \in 1..13 /\ GatheredAt[PlaceOf[i]] = i
                         /\ Ordering[PlaceOf[i]] = InGathering[i]
    BY SMTT(60) DEF Ordering, PlaceOf, GatheredAt, InGathering
  <1>3. \A k \in 1..13 : /\ GatheredAt[k] \in 1..13 /\ PlaceOf[GatheredAt[k]] = k
                         /\ InGathering[GatheredAt[k]] = Ordering[k]
    BY SMTT(60) DEF Ordering, PlaceOf, GatheredAt, InGathering
  <1> QED
    BY <1>1, <1>2, <1>3

\* No two checks have the same order.
LEMMA Orders == \A i \in 1..13 : GetOrder(InGathering[i]) = PlaceOf[i]
  <1>1. \A j, k \in 1..13 : Ordering[j] = Ordering[k] => j = k
    BY SMTT(60) DEF Ordering
  <1> QED
    BY <1>1, Places DEF GetOrder

\* Sorted, the results are in the order of Ordering, and the same.
LEMMA SortedInOrder ==
    ASSUME NEW list, DOMAIN list = 1..13,
           \A i \in 1..13 : list[i].name = InGathering[i]
    PROVE  Sorted(list) = [k \in 1..13 |-> list[GatheredAt[k]]]
  <1> DEFINE Earlier(i) == {j \in 1..13 : Before(list[j], list[i])}
  <1>1. ASSUME NEW i \in 1..13
        PROVE  Cardinality(Earlier(i)) = PlaceOf[i] - 1
    <2> DEFINE f == [k \in 1..(PlaceOf[i] - 1) |-> GatheredAt[k]]
    <2>1. PlaceOf[i] \in 1..13
      BY Places
    <2>2. Earlier(i) = {j \in 1..13 : PlaceOf[j] < PlaceOf[i]}
      BY Orders DEF Before
    <2> HIDE DEF Earlier
    <2>3. \A k \in 1..(PlaceOf[i] - 1) : k \in 1..13 /\ f[k] = GatheredAt[k]
      BY <2>1
    <2>4. f \in [1..(PlaceOf[i] - 1) -> Earlier(i)]
      <3>1. \A k \in 1..(PlaceOf[i] - 1) : GatheredAt[k] \in Earlier(i)
        BY <2>1, <2>2, Places
      <3> QED
        BY <3>1
    <2> HIDE DEF f
    <2>5. \A k, l \in 1..(PlaceOf[i] - 1) : f[k] = f[l] => k = l
      BY <2>3, Places
    <2>6. \A j \in Earlier(i) : \E k \in 1..(PlaceOf[i] - 1) : f[k] = j
      <3> TAKE j \in Earlier(i)
      <3>1. PlaceOf[j] \in 1..(PlaceOf[i] - 1) /\ j \in 1..13
        BY <2>1, <2>2, Places
      <3>2. f[PlaceOf[j]] = j
        BY <2>3, <3>1, Places
      <3> QED
        BY <3>1, <3>2
    <2>7. f \in Bijection(1..(PlaceOf[i] - 1), Earlier(i))
      BY <2>4, <2>5, <2>6, Fun_IsBij
    <2>8. ExistsBijection(1..(PlaceOf[i] - 1), Earlier(i))
      BY <2>7 DEF ExistsBijection
    <2> QED
      BY <2>1, <2>8, FS_CountingElements
  <1>2. \A k \in 1..13 :
           (CHOOSE i \in 1..13 : Cardinality(Earlier(i)) = k - 1) = GatheredAt[k]
    <2> HIDE DEF Earlier
    <2> TAKE k \in 1..13
    <2>1. \A i \in 1..13 : Cardinality(Earlier(i)) = k - 1 <=> PlaceOf[i] = k
      <3> TAKE i \in 1..13
      <3>1. PlaceOf[i] \in 1..13
        BY Places
      <3>2. Cardinality(Earlier(i)) = PlaceOf[i] - 1
        BY <1>1
      <3> QED
        BY <3>1, <3>2
    <2>2. \A i \in 1..13 : PlaceOf[i] = k <=> i = GatheredAt[k]
      BY Places
    <2>3. GatheredAt[k] \in 1..13
      BY Places
    <2> QED
      BY <2>1, <2>2, <2>3
  <1>3. Sorted(list) =
          [k \in 1..13 |->
              list[CHOOSE i \in 1..13 : Cardinality(Earlier(i)) = k - 1]]
    BY DEF Sorted
  <1> HIDE DEF Earlier
  <1> QED
    BY <1>2, <1>3

\* The results of a type, and what a list of some holds.
ResultsOf(list, resType) ==
    {list[j] : j \in {i \in DOMAIN list : list[i].resType = resType}}
Listed(list) == {list[i] : i \in DOMAIN list}

\* What is gathered in turn of a type is all of it.
LEMMA OfTypeIs ==
    ASSUME NEW V, NEW list \in Seq(V), NEW resType
    PROVE  /\ OfType(list, resType) \in Seq(V)
           /\ Listed(OfType(list, resType)) = ResultsOf(list, resType)
  <1> DEFINE n == Len(list)
             Turn(kept, k) == IF list[k].resType = resType
                              THEN Append(kept, list[k]) ELSE kept
             IsLoop(g) == g = [k \in 0..n |-> IF k = 0 THEN <<>>
                                              ELSE IF list[k].resType = resType
                                                   THEN Append(g[k - 1], list[k])
                                              ELSE g[k - 1]]
             after == CHOOSE g : IsLoop(g)
             step == [p \in Seq(V) \X (1..n) |-> Turn(p[1], p[2])]
  <1>1. n \in Nat /\ DOMAIN list = 1..n /\ \A k \in 1..n : list[k] \in V
    OBVIOUS
  <1>2. OfType(list, resType) = after[n]
    BY DEF OfType
  <1> HIDE DEF n
  <1>3. step \in [Seq(V) \X (1..n) -> Seq(V)]
    <2>1. \A kept \in Seq(V), k \in 1..n : Turn(kept, k) \in Seq(V)
      BY <1>1
    <2> HIDE DEF Turn
    <2> QED
      BY <2>1
  <1>4. \A kept \in Seq(V), k \in 1..n : step[<<kept, k>>] = Turn(kept, k)
    OBVIOUS
  <1>5. << >> \in Seq(V)
    OBVIOUS
  <1> HIDE DEF step
  <1>6. PICK r \in [0..n -> Seq(V)] : Turns(r, n, << >>, step)
    BY <1>1, <1>3, <1>5, ResultsExist
  <1>7. \A k \in 1..n : r[k - 1] \in Seq(V) /\ r[k] = Turn(r[k - 1], k)
    <2> TAKE k \in 1..n
    <2>1. k - 1 \in 0..n
      BY <1>1
    <2> QED
      BY <1>4, <1>6, <2>1 DEF Turns
  <1>8. r[0] = << >>
    BY <1>6 DEF Turns
  <1>9. IsLoop(r)
    <2>1. \A k \in 0..n : r[k] = IF k = 0 THEN << >> ELSE Turn(r[k - 1], k)
      <3> HIDE DEF Turn
      <3> QED
        BY <1>1, <1>7, <1>8
    <2> QED
      BY <2>1
  <1>10. IsLoop(after)
    BY <1>9
  <1> HIDE DEF after
  <1>11. after = r
    <2> DEFINE Same == {k \in 0..n : after[k] = r[k]}
    <2>1. 0 \in Same
      BY <1>1, <1>8, <1>10
    <2>2. ASSUME NEW k \in 1..n, k - 1 \in Same PROVE k \in Same
      <3>1. k \in 0..n /\ k # 0
        BY <1>1
      <3>2. after[k] = Turn(after[k - 1], k)
        BY <1>10, <3>1
      <3> QED
        BY <1>7, <2>2, <3>1, <3>2
    <2> HIDE DEF Same
    <2>3. 0..n \subseteq Same
      BY <1>1, <2>1, <2>2, InductionTo
    <2> QED
      BY <1>6, <1>10, <2>3 DEF Same
  <1>12. r[n] \in Seq(V) /\ {r[n][i] : i \in DOMAIN r[n]}
            = {list[j] : j \in {i \in 1..n : list[i].resType = resType}}
    <2> DEFINE Kept(k) == {list[j] : j \in {i \in 1..k : list[i].resType = resType}}
               Right == {k \in 0..n : {r[k][i] : i \in DOMAIN r[k]} = Kept(k)}
    <2>1. 0 \in Right
      <3>1. {r[0][i] : i \in DOMAIN r[0]} = {}
        BY <1>8
      <3>2. Kept(0) = {}
        OBVIOUS
      <3>3. 0 \in 0..n
        BY <1>1
      <3> HIDE DEF Kept
      <3> QED
        BY <3>1, <3>2, <3>3
    <2>2. ASSUME NEW k \in 1..n, k - 1 \in Right PROVE k \in Right
      <3>1. r[k - 1] \in Seq(V) /\ r[k] = Turn(r[k - 1], k) /\ list[k] \in V
        BY <1>1, <1>7
      <3>2. \A i \in 1..k : i = k \/ i \in 1..(k - 1)
        BY <1>1
      <3>3. 1..(k - 1) \subseteq 1..k /\ k \in 1..k /\ k \in 0..n
        BY <1>1
      <3>4. CASE list[k].resType # resType
        <4>1. Kept(k) = Kept(k - 1)
          BY <3>2, <3>3, <3>4
        <4> QED
          BY <2>2, <3>1, <3>3, <3>4, <4>1
      <3>5. CASE list[k].resType = resType
        <4>1. Kept(k) = Kept(k - 1) \cup {list[k]}
          BY <3>2, <3>3, <3>5
        <4>2. r[k] = Append(r[k - 1], list[k])
          BY <3>1, <3>5
        <4>3. DOMAIN r[k] = DOMAIN r[k - 1] \cup {Len(r[k - 1]) + 1}
          BY <3>1, <4>2
        <4>4. \A i \in DOMAIN r[k - 1] : r[k][i] = r[k - 1][i]
          BY <3>1, <4>2
        <4>5. r[k][Len(r[k - 1]) + 1] = list[k]
          BY <3>1, <4>2
        <4>6. {r[k][i] : i \in DOMAIN r[k]}
                = {r[k - 1][i] : i \in DOMAIN r[k - 1]} \cup {list[k]}
          BY <4>3, <4>4, <4>5
        <4> HIDE DEF Kept
        <4> QED
          BY <2>2, <3>3, <4>1, <4>6
      <3> QED
        BY <3>4, <3>5
    <2> HIDE DEF Right
    <2>3. n \in Right
      <3>1. 0..n \subseteq Right
        BY <1>1, <2>1, <2>2, InductionTo
      <3>2. n \in 0..n
        BY <1>1
      <3> QED
        BY <3>1, <3>2
    <2> QED
      BY <1>1, <1>6, <2>3 DEF Right
  <1> QED
    BY <1>1, <1>2, <1>11, <1>12 DEF Listed, ResultsOf

\* A check fails just when it is known to be bad.
LEMMA Verdicts ==
    ASSUME NEW check \in Checks, check.data \in DataOf(check.name)
    PROVE  /\ ResType(Verify(check)) = "failure" <=> KnownBad(check)
           /\ ResType(Verify(check)) = "success" <=> Verify(check) = NoError
           /\ ResType(Verify(check)) \in {"success", "failure", "unknown"}
  <1>1. /\ ~ As(Error, "InvalidEnv") /\ Error # NoError
        /\ As(NewInvalidEnvError(Error), "InvalidEnv")
        /\ NewInvalidEnvError(Error) # NoError
    BY DEF As, Contains, Error, NoError, NewInvalidEnvError, Wrap
  <1>2. Verify(check) \in {NoError, Error, NewInvalidEnvError(Error)}
    BY DEF Verify, VerifyUnfetched, VerifyVersion, VerifyDriver, VerifyFound
  <1>3. Verify(check) = NewInvalidEnvError(Error) <=> KnownBad(check)
    <2>1. check.data \in Int
      BY DEF Checks
    <2>2. CASE check.data = FetchError
      BY <1>1, <2>2 DEF Verify, KnownBad
    <2>3. CASE check.data # FetchError /\ check.name \in VersionChecks
      BY <1>1, <2>1, <2>3
      DEF Verify, VerifyUnfetched, VerifyVersion, KnownBad, Expected, VersionChecks,
          Unparsable, Minimum, DataOf, FetchError
    <2>4. CASE check.data # FetchError /\ check.name = "deviceDriver"
      BY <1>1, <2>1, <2>4
      DEF Verify, VerifyUnfetched, VerifyVersion, VerifyDriver, KnownBad, Expected,
          VersionChecks, Unparsable, Minimum, InTree, FetchError
    <2>5. CASE /\ check.data # FetchError /\ check.name \notin VersionChecks
               /\ check.name # "deviceDriver"
      BY <1>1, <2>1, <2>5
      DEF Verify, VerifyUnfetched, VerifyFound, KnownBad, Expected
    <2> QED
      BY <2>2, <2>3, <2>4, <2>5
  <1> QED
    BY <1>1, <1>2, <1>3 DEF ResType

-----------------------------------------------------------------------------
(* What is gathered, and when.                                             *)

GatheredIn(at) ==
    CASE at \in {"clientset", "devInfo"} -> 0
      [] at = "gpsVersion" -> 3
      [] at \in {"gpsNav", "gpsStatus"} -> 8
      [] at = "cluster" -> 10
      [] OTHER -> 13

\* The checks are gathered in their order, all of them before anything is
\* reported, and that of the antenna holds what was read last.
ChecksInOrder ==
    /\ Len(checks) \in 0..13
    /\ \A i \in DOMAIN checks : checks[i].name = InGathering[i]
    /\ pc # "failed" => Len(checks) = GatheredIn(pc)
    /\ Len(checks) >= 10 => checks[9].data = antCheck.antennas

Follows(at, next) ==
    \/ at = "devInfo" /\ next = "gpsVersion"
    \/ at = "gpsVersion" /\ next = "gpsNav"
    \/ at = "gpsStatus" /\ next = "cluster"
    \/ at = "cluster" /\ next = "report"

\* What the JSON report has come to, when the results are in their order.
WritesInStep ==
    pc = "write" \/ (pc = "done" /\ useAnalyserJSON) =>
        /\ called \in 0..13
        /\ results = [k \in 1..13 |-> Results[GatheredAt[k]]]
        /\ anyHasFailed \in BOOLEAN
        /\ anyHasFailed <=> \E k \in 1..called : results[k].resType = "failure"
        /\ output \in Seq({results[k] : k \in 1..called})
        /\ \A i, j \in DOMAIN output : i < j => Before(output[i], output[j])
        /\ unwritten \subseteq {Ordering[k] : k \in 1..called}
        /\ {output[i].name : i \in DOMAIN output}
             = {Ordering[k] : k \in 1..called} \ unwritten

NothingWritten ==
    pc \notin {"write", "done", "failed"} =>
        called = 0 /\ anyHasFailed = FALSE /\ unwritten = {} /\ output = <<>>

JSONWrites == pc = "write" => useAnalyserJSON

\* The invariant of the report.
ReportInv ==
    /\ IInv /\ ChecksInOrder /\ NothingWritten /\ WritesInStep /\ JSONWrites
    /\ ExitTellsFailures /\ ReportComplete

LEMMA InitReportInv == Init => ReportInv
  <1> SUFFICES ASSUME Init PROVE ReportInv
    OBVIOUS
  <1>1. ChecksInOrder
    BY DEF Init, ChecksInOrder, GatheredIn
  <1>2. NothingWritten /\ WritesInStep /\ JSONWrites /\ ExitTellsFailures /\ ReportComplete
    BY DEF Init, JSONWrites, NothingWritten, WritesInStep, ExitTellsFailures, ReportComplete
  <1> QED
    BY <1>1, <1>2, InitIInv DEF ReportInv

LEMMA ConcatAt ==
    ASSUME NEW V, NEW s \in Seq(V), NEW t \in Seq(V)
    PROVE  /\ \A i \in 1..Len(s) : (s \o t)[i] = s[i]
           /\ \A i \in 1..Len(t) : (s \o t)[Len(s) + i] = t[i]
  OBVIOUS

LEMMA WrittenAsList ==
    ASSUME NEW n \in Nat, NEW V, NEW f \in [1..n -> V]
    PROVE  f \in Seq(V)
  OBVIOUS

LEMMA ElementsOf ==
    ASSUME NEW V, NEW s \in Seq(V)
    PROVE  \A i \in DOMAIN s : s[i] \in V
  OBVIOUS

\* A step that gathers the next checks of the list.
LEMMA GathersInOrder ==
    ASSUME ReportInv, IInv', NEW at \in {"devInfo", "gpsVersion", "gpsStatus", "cluster"},
           NEW next, pc = at, pc' = next, Follows(at, next),
           NEW new \in Seq(Checks), checks' = checks \o new,
           GatheredIn(next) = GatheredIn(at) + Len(new),
           \A i \in DOMAIN new : new[i].name = InGathering[GatheredIn(at) + i],
           at = "gpsStatus" => new[1].data = antCheck.antennas,
           UNCHANGED <<output, antCheck, writes>>
    PROVE  ReportInv'
  <1>1. checks \in Seq(Checks) /\ pc # "failed"
    BY DEF ReportInv, IInv, TypeOK, Checks
  <1>2. Len(checks) = GatheredIn(at) /\ GatheredIn(at) \in {0, 3, 8, 10}
    BY <1>1 DEF ReportInv, ChecksInOrder, GatheredIn
  <1>3. Len(checks') = GatheredIn(next) /\ GatheredIn(next) \in {3, 8, 10, 13}
    <2>1. Len(checks') = Len(checks) + Len(new)
      BY <1>1
    <2>2. GatheredIn(next) \in {3, 8, 10, 13}
      BY DEF GatheredIn, Follows
    <2> QED
      BY <1>2, <2>1, <2>2
  <1>4. \A i \in DOMAIN checks' : checks'[i].name = InGathering[i]
    <2> TAKE i \in DOMAIN checks'
    <2>1. \/ i \in DOMAIN checks /\ checks'[i] = checks[i]
          \/ /\ i - Len(checks) \in DOMAIN new /\ checks'[i] = new[i - Len(checks)]
             /\ i \in Int
      BY <1>1
    <2>2. CASE i \in DOMAIN checks /\ checks'[i] = checks[i]
      BY <2>2 DEF ReportInv, ChecksInOrder
    <2>3. CASE /\ i - Len(checks) \in DOMAIN new /\ checks'[i] = new[i - Len(checks)]
               /\ i \in Int
      <3>1. GatheredIn(at) + (i - Len(checks)) = i
        BY <1>2, <2>3
      <3> QED
        BY <2>3, <3>1
    <2> QED
      BY <2>1, <2>2, <2>3
  <1>5. Len(checks') >= 10 => checks'[9].data = antCheck'.antennas
    <2>1. CASE at \in {"devInfo", "gpsVersion"}
      <3>1. GatheredIn(next) \in {3, 8}
        BY <2>1 DEF GatheredIn, Follows
      <3> QED
        BY <1>3, <3>1
    <2>2. CASE at = "gpsStatus"
      <3>1. Len(checks) = 8 /\ Len(checks') = 10
        BY <1>2, <1>3, <2>2 DEF GatheredIn, Follows
      <3>2. 1 \in 1..Len(new) /\ Len(checks) + 1 = 9
        BY <1>2, <1>3, <2>2, <3>1 DEF GatheredIn
      <3>3. checks'[9] = new[1]
        BY <1>1, <3>2, ConcatAt
      <3> QED
        BY <2>2, <3>3
    <2>3. CASE at = "cluster"
      <3>1. Len(checks) = 10
        BY <1>2, <2>3 DEF GatheredIn
      <3>2. checks'[9] = checks[9]
        <4>1. 9 \in 1..Len(checks)
          BY <3>1
        <4> QED
          BY <1>1, <4>1, ConcatAt
      <3> QED
        BY <3>1, <3>2 DEF ReportInv, ChecksInOrder
    <2> QED
      BY <2>1, <2>2, <2>3
  <1>6. ChecksInOrder'
    <2>1. GatheredIn(next) = GatheredIn(pc)'
      BY DEF GatheredIn
    <2> QED
      BY <1>3, <1>4, <1>5, <2>1 DEF ChecksInOrder
  <1>7. pc' \in {"gpsVersion", "gpsNav", "cluster", "report"}
    BY DEF Follows
  <1>8. NothingWritten'
    BY DEF NothingWritten, ReportInv, writes
  <1>9. WritesInStep' /\ JSONWrites' /\ ExitTellsFailures' /\ ReportComplete'
    BY <1>7 DEF WritesInStep, JSONWrites, ExitTellsFailures, ReportComplete
  <1> QED
    BY <1>6, <1>8, <1>9 DEF ReportInv

\* A step that reports nothing and leaves the list alone.
LEMMA NothingReported ==
    ASSUME ReportInv, IInv', UNCHANGED <<checks, output, writes>>,
           pc \in {"clientset", "devInfo", "gpsVersion", "gpsNav", "gpsStatus"},
           pc' = "failed" \/ (GatheredIn(pc') = GatheredIn(pc)
                                /\ pc' \notin {"report", "write", "done", "failed"}),
           antCheck' = antCheck \/ pc = "gpsNav"
    PROVE  ReportInv'
  <1>1. checks \in Seq(Checks)
    BY DEF ReportInv, IInv, TypeOK, Checks
  <1>2. Len(checks) = GatheredIn(pc) /\ GatheredIn(pc) \in {0, 3, 8}
    BY DEF ReportInv, ChecksInOrder, GatheredIn
  <1>3. ChecksInOrder'
    <2>1. pc' # "failed" => Len(checks') = GatheredIn(pc)'
      <3>1. GatheredIn(pc)' = GatheredIn(pc')
        BY DEF GatheredIn
      <3> QED
        BY <1>2, <3>1
    <2> QED
      BY <1>2, <2>1 DEF ReportInv, ChecksInOrder
  <1>4. pc' \notin {"report", "write", "done"}
    OBVIOUS
  <1>5. NothingWritten' /\ WritesInStep' /\ JSONWrites' /\ ExitTellsFailures' /\ ReportComplete'
    BY <1>4 DEF ReportInv, NothingWritten, JSONWrites, WritesInStep, ExitTellsFailures, ReportComplete,
                writes
  <1> QED
    BY <1>3, <1>5 DEF ReportInv

\* The exit status of an error.
LEMMA ExitsWith ==
    /\ Exits(NoError) => exit' = "Success"
    /\ Exits(NewInvalidEnvError(Error)) => exit' = "InvalidEnv"
  <1>1. /\ As(NewInvalidEnvError(Error), "InvalidEnv")
        /\ NewInvalidEnvError(Error) # NoError
    BY DEF As, Contains, Error, NoError, NewInvalidEnvError, Wrap
  <1> QED
    BY <1>1 DEF Exits, CheckError

\* The results at the time of the report.
LEMMA ResultsAre ==
    ASSUME ReportInv, pc \in {"report", "write"}
    PROVE  /\ Len(checks) = 13 /\ checks \in Seq(Checks)
           /\ DOMAIN Results = 1..13 /\ DOMAIN checks = 1..13
           /\ Results \in Seq({Results[i] : i \in 1..13})
           /\ \A i \in 1..13 :
                 /\ Results[i].name = InGathering[i] /\ checks[i].name = InGathering[i]
                 /\ Results[i].resType = ResType(Verify(checks[i]))
                 /\ Results[i].resType = "failure" <=> KnownBad(checks[i])
                 /\ Results[i].resType = "success" <=> Verify(checks[i]) = NoError
                 /\ Results[i].resType \in {"success", "failure", "unknown"}
  <1>0. checks \in Seq(Checks)
    BY DEF ReportInv, IInv, TypeOK, Checks
  <1>1. \A i \in DOMAIN checks : checks[i].data \in DataOf(checks[i].name)
    BY DEF ReportInv, IInv, TypeOK
  <1>2. Len(checks) = 13
    BY DEF ReportInv, ChecksInOrder, GatheredIn
  <1>3. DOMAIN checks = 1..13 /\ \A i \in 1..13 : checks[i] \in Checks
    <2>1. DOMAIN checks = 1..13
      BY <1>0, <1>2
    <2>2. \A i \in DOMAIN checks : checks[i] \in Checks
      BY <1>0, ElementsOf
    <2> QED
      BY <2>1, <2>2
  <1>4. DOMAIN Results = 1..13
    BY <1>3 DEF Results
  <1>5. \A i \in 1..13 : /\ checks[i].name = InGathering[i]
                         /\ Results[i].name = checks[i].name
                         /\ Results[i].resType = ResType(Verify(checks[i]))
    BY <1>3 DEF Results, NewValidationResult, ReportInv, ChecksInOrder
  <1>6. \A i \in 1..13 : /\ Results[i].resType = "failure" <=> KnownBad(checks[i])
                         /\ Results[i].resType = "success" <=> Verify(checks[i]) = NoError
                         /\ Results[i].resType \in {"success", "failure", "unknown"}
    BY <1>1, <1>3, <1>5, Verdicts
  <1>7. Results \in Seq({Results[i] : i \in 1..13})
    <2> DEFINE V == {Results[i] : i \in 1..13}
    <2>1. Results = [i \in 1..13 |-> Results[i]]
      BY <1>3 DEF Results
    <2>2. Results \in [1..13 -> V]
      BY <2>1
    <2> HIDE DEF V
    <2>3. 13 \in Nat
      OBVIOUS
    <2>4. Results \in Seq(V)
      BY <2>2, <2>3, WrittenAsList
    <2> QED
      BY <2>4 DEF V
  <1> QED
    BY <1>0, <1>2, <1>3, <1>4, <1>5, <1>6, <1>7

\* While the report is made, the list of checks stays as it is.
LEMMA ChecksStay ==
    ASSUME ReportInv, pc \in {"report", "write"}, pc' \in {"write", "done"},
           UNCHANGED <<checks, antCheck>>
    PROVE  ChecksInOrder' /\ NothingWritten' /\ Results' = Results
  <1>1. Len(checks) = 13
    BY ResultsAre
  <1>2. GatheredIn(pc)' = 13
    BY DEF GatheredIn
  <1>3. ChecksInOrder'
    BY <1>1, <1>2 DEF ReportInv, ChecksInOrder
  <1> QED
    BY <1>3 DEF NothingWritten, Results

\* The results in the order of the JSON report.
LEMMA InOrder ==
    ASSUME ReportInv, pc \in {"report", "write"}, NEW list,
           list = [k \in 1..13 |-> Results[GatheredAt[k]]]
    PROVE  /\ Len(list) = 13
           /\ \A k \in 1..13 : list[k].name = Ordering[k] /\ list[k] = Results[GatheredAt[k]]
           /\ (\E k \in 1..13 : list[k].resType = "failure")
                <=> \E i \in 1..13 : KnownBad(checks[i])
  <1>1. \A k \in 1..13 : list[k] = Results[GatheredAt[k]] /\ GatheredAt[k] \in 1..13
    BY Places
  <1>2. \A j \in 1..13 : Results[j].name = InGathering[j]
    BY ResultsAre
  <1>3. \A k \in 1..13 : list[k].name = Ordering[k]
    BY <1>1, <1>2, Places
  <1>4. ASSUME NEW k \in 1..13, list[k].resType = "failure"
        PROVE  \E i \in 1..13 : KnownBad(checks[i])
    BY <1>1, <1>4, ResultsAre
  <1>5. ASSUME NEW i \in 1..13, KnownBad(checks[i])
        PROVE  \E k \in 1..13 : list[k].resType = "failure"
    <2>1. PlaceOf[i] \in 1..13 /\ GatheredAt[PlaceOf[i]] = i
      BY Places
    <2>2. list[PlaceOf[i]] = Results[i]
      BY <1>1, <2>1
    <2> QED
      BY <1>5, <2>1, <2>2, ResultsAre
  <1>6. Len(list) = 13
    OBVIOUS
  <1> QED
    BY <1>1, <1>3, <1>4, <1>5, <1>6

\* The places of the names.
LEMMA OrderOf == \A k \in 1..13 : GetOrder(Ordering[k]) = k
  <1>1. \A i, j \in 1..13 : Ordering[i] = Ordering[j] => i = j
    BY SMTT(60) DEF Ordering
  <1> QED
    BY <1>1, Places DEF GetOrder

\* The results are sorted.
LEMMA SortReports ==
    ASSUME ReportInv, IInv', SortResults
    PROVE  ReportInv'
  <1>1. /\ pc = "report" /\ pc' = "write"
        /\ UNCHANGED <<useAnalyserJSON, checks, antCheck, called, anyHasFailed, unwritten,
                       output>>
        /\ results' = Sorted(Results)
    BY DEF SortResults, loop
  <1>2. ChecksInOrder' /\ NothingWritten' /\ Results' = Results
    BY <1>1, ChecksStay
  <1>3. results' = [k \in 1..13 |-> Results[GatheredAt[k]]]
    BY <1>1, ResultsAre, SortedInOrder
  <1>4. called' = 0 /\ anyHasFailed' = FALSE /\ unwritten' = {} /\ output' = <<>>
    BY <1>1 DEF ReportInv, NothingWritten
  <1>5. WritesInStep'
    <2>1. 1..called' = {} /\ DOMAIN output' = {}
      BY <1>4
    <2>2. results' = [k \in 1..13 |-> Results'[GatheredAt[k]]]
      BY <1>2, <1>3
    <2>3. anyHasFailed' <=> \E k \in 1..called' : results'[k].resType = "failure"
      BY <1>4, <2>1
    <2>4. /\ called' \in 0..13 /\ anyHasFailed' \in BOOLEAN
          /\ \A i, j \in DOMAIN output' : i < j => Before(output'[i], output'[j])
          /\ unwritten' \subseteq {Ordering[k] : k \in 1..called'}
      <3>1. anyHasFailed' \in BOOLEAN
        BY <1>4
      <3>4. called' \in 0..13
        BY <1>4
      <3>2. \A i, j \in DOMAIN output' : i < j => Before(output'[i], output'[j])
        BY <2>1
      <3>3. unwritten' \subseteq {Ordering[k] : k \in 1..called'}
        BY <1>4
      <3> QED
        BY <3>1, <3>2, <3>3, <3>4
    <2>5. /\ {output'[i].name : i \in DOMAIN output'} = {}
          /\ {Ordering[k] : k \in 1..called'} = {}
      BY <2>1
    <2>6. output' \in Seq({results'[k] : k \in 1..called'})
      <3> DEFINE S == {results'[k] : k \in 1..called'}
      <3> HIDE DEF S
      <3>1. << >> \in Seq(S)
        OBVIOUS
      <3> QED
        BY <1>4, <3>1 DEF S
    <2> QED
      BY <1>1, <2>2, <2>3, <2>4, <2>5, <2>6 DEF WritesInStep
  <1>7. JSONWrites'
    BY <1>1 DEF SortResults, JSONWrites
  <1>6. ExitTellsFailures' /\ ReportComplete'
    BY <1>1 DEF ExitTellsFailures, ReportComplete
  <1> QED
    BY <1>2, <1>5, <1>6, <1>7 DEF ReportInv

\* The next result is written, or left out.
LEMMA CallReports ==
    ASSUME ReportInv, IInv', CallWrites \/ WriteFails
    PROVE  ReportInv'
  <1>1. /\ pc = "write" /\ pc' = "write" /\ results' = results
        /\ UNCHANGED <<useAnalyserJSON, checks, antCheck>>
        /\ called < Len(results) /\ called' = called + 1
        /\ anyHasFailed' = (anyHasFailed \/ results[called + 1].resType = "failure")
    BY DEF CallWrites, WriteFails, CallsBack, loop
  <1>2. ChecksInOrder' /\ NothingWritten' /\ Results' = Results
    BY <1>1, ChecksStay
  <1>3. /\ called \in 0..13
        /\ results = [k \in 1..13 |-> Results[GatheredAt[k]]]
        /\ anyHasFailed \in BOOLEAN
        /\ anyHasFailed <=> \E k \in 1..called : results[k].resType = "failure"
        /\ output \in Seq({results[k] : k \in 1..called})
        /\ \A i, j \in DOMAIN output : i < j => Before(output[i], output[j])
        /\ unwritten \subseteq {Ordering[k] : k \in 1..called}
        /\ {output[i].name : i \in DOMAIN output}
             = {Ordering[k] : k \in 1..called} \ unwritten
    BY <1>1 DEF ReportInv, WritesInStep
  <1> DEFINE m == called + 1
             new == results[called + 1]
             Had == {Ordering[k] : k \in 1..called}
             Have == {Ordering[k] : k \in 1..m}
  <1>4. Len(results) = 13 /\ \A k \in 1..13 : results[k].name = Ordering[k]
    BY <1>1, <1>3, InOrder
  <1>5. m \in 1..13 /\ new.name = Ordering[m] /\ m = called + 1 /\ called \in Nat
    <2>1. called \in 0..13 /\ called < 13
      BY <1>1, <1>3, <1>4
    <2>2. called \in Nat /\ called + 1 \in 1..13
      BY <2>1
    <2> QED
      BY <1>4, <2>2
  <1>6. Have = Had \cup {new.name} /\ new.name \notin Had
    <2>1. 1..m = 1..called \cup {m}
      BY <1>5
    <2>2. \A i, j \in 1..13 : Ordering[i] = Ordering[j] => i = j
      BY OrderOf
    <2>3. \A k \in 1..called : k \in 1..13 /\ k # m
      BY <1>5
    <2> HIDE DEF m, new
    <2> QED
      BY <1>5, <2>1, <2>2, <2>3
  <1>7. anyHasFailed' <=> \E k \in 1..m : results[k].resType = "failure"
    <2>1. 1..m = 1..called \cup {m}
      BY <1>5
    <2> QED
      BY <1>1, <1>3, <2>1
  <1>8. /\ output' \in Seq({results[k] : k \in 1..m})
        /\ \A i, j \in DOMAIN output' : i < j => Before(output'[i], output'[j])
        /\ unwritten' \subseteq Have
        /\ {output'[i].name : i \in DOMAIN output'} = Have \ unwritten'
    <2> DEFINE V == {results[k] : k \in 1..called}
               W == {results[k] : k \in 1..m}
    <2>1. V \subseteq W /\ new \in W
      BY <1>5
    <2>2. output \in Seq(V)
      BY <1>3
    <2>3. \A i \in DOMAIN output : output[i] \in V
      <3> HIDE DEF V
      <3> QED
        BY <2>2
    <2>4. \A i \in DOMAIN output : Before(output[i], new)
      <3> TAKE i \in DOMAIN output
      <3>1. PICK k \in 1..called : output[i] = results[k]
        BY <2>3
      <3>2. k \in 1..13 /\ k < m
        BY <1>5
      <3>3. GetOrder(output[i].name) = k
        BY <1>4, <3>1, <3>2, OrderOf
      <3>4. GetOrder(new.name) = m
        BY <1>5, OrderOf
      <3> HIDE DEF m, new
      <3> QED
        BY <3>2, <3>3, <3>4 DEF Before
    <2> HIDE DEF V, W, Have, Had, m
    <2>5. output \in Seq(W)
      BY <2>1, <2>2
    <2>6. CASE WriteFails
      <3>1. output' = output /\ unwritten' = unwritten \cup {new.name}
        BY <2>6 DEF WriteFails
      <3>2. {output[i].name : i \in DOMAIN output} = Had \ unwritten /\ unwritten \subseteq Had
        BY <1>3 DEF Had
      <3> HIDE DEF new
      <3>3. Had \ unwritten = Have \ unwritten'
        BY <1>6, <3>1
      <3>4. unwritten' \subseteq Have
        BY <1>6, <3>1, <3>2
      <3> QED
        BY <1>3, <2>5, <3>1, <3>2, <3>3, <3>4 DEF W
    <2>7. CASE CallWrites
      <3>1. output' = Append(output, new) /\ unwritten' = unwritten
        BY <2>7 DEF CallWrites
      <3>2. {output[i].name : i \in DOMAIN output} = Had \ unwritten /\ unwritten \subseteq Had
        BY <1>3 DEF Had
      <3> HIDE DEF new
      <3>3. output' \in Seq(W)
        BY <2>1, <2>5, <3>1
      <3>4. /\ DOMAIN output' = DOMAIN output \cup {Len(output) + 1}
            /\ \A i \in DOMAIN output : output'[i] = output[i] /\ i < Len(output) + 1
            /\ output'[Len(output) + 1] = new /\ Len(output) \in Nat
            /\ DOMAIN output \subseteq Nat
        BY <2>5, <3>1
      <3> DEFINE z == Len(output) + 1
      <3>5. ASSUME NEW i \in DOMAIN output', NEW j \in DOMAIN output', i < j
            PROVE  Before(output'[i], output'[j])
        <4>1. CASE j \in DOMAIN output
          <5>1. i \in DOMAIN output
            BY <2>5, <3>4, <3>5, <4>1
          <5> QED
            BY <1>3, <3>4, <3>5, <4>1, <5>1
        <4>2. CASE j \notin DOMAIN output
          <5>1. j = Len(output) + 1 /\ i \in DOMAIN output
            BY <3>4, <3>5, <4>2
          <5> QED
            BY <2>4, <3>4, <5>1
        <4> QED
          BY <4>1, <4>2
      <3>6. {output'[i].name : i \in DOMAIN output'}
               = {output[i].name : i \in DOMAIN output} \cup {new.name}
        BY <3>4
      <3>7. (Had \ unwritten) \cup {new.name} = Have \ unwritten'
        BY <1>6, <3>1, <3>2
      <3>8. unwritten' \subseteq Have
        BY <1>6, <3>1, <3>2
      <3> QED
        BY <3>2, <3>3, <3>5, <3>6, <3>7, <3>8 DEF W
    <2> QED
      BY <2>6, <2>7
  <1>9. WritesInStep'
    <2>1. anyHasFailed' \in BOOLEAN
      BY <1>1
    <2>2. results' = [k \in 1..13 |-> Results'[GatheredAt[k]]]
      BY <1>1, <1>2, <1>3
    <2>3. /\ called' = m /\ m \in 0..13 /\ \A k : results'[k] = results[k]
          /\ {results[k] : k \in 1..m} = {results'[k] : k \in 1..m}
      BY <1>1, <1>5
    <2> HIDE DEF m
    <2>4. /\ called' \in 0..13
          /\ anyHasFailed' <=> \E k \in 1..called' : results'[k].resType = "failure"
          /\ output' \in Seq({results'[k] : k \in 1..called'})
          /\ \A i, j \in DOMAIN output' : i < j => Before(output'[i], output'[j])
          /\ unwritten' \subseteq {Ordering[k] : k \in 1..called'}
          /\ {output'[i].name : i \in DOMAIN output'}
               = {Ordering[k] : k \in 1..called'} \ unwritten'
      BY <1>7, <1>8, <2>3
    <2> QED
      BY <1>1, <2>1, <2>2, <2>4 DEF WritesInStep
  <1>10. JSONWrites' /\ ExitTellsFailures' /\ ReportComplete'
    BY <1>1 DEF ReportInv, JSONWrites, ExitTellsFailures, ReportComplete
  <1> QED
    BY <1>2, <1>9, <1>10 DEF ReportInv

\* The JSON report ends.
LEMMA EndReports ==
    ASSUME ReportInv, IInv', ReportEnds
    PROVE  ReportInv'
  <1>1. /\ pc = "write" /\ pc' = "done" /\ called = Len(results)
        /\ UNCHANGED <<useAnalyserJSON, checks, antCheck, writes, output>>
        /\ Exits(IF anyHasFailed THEN NewInvalidEnvError(Error) ELSE NoError)
    BY DEF ReportEnds, loop
  <1>2. ChecksInOrder' /\ NothingWritten' /\ Results' = Results
    BY <1>1, ChecksStay
  <1>3. /\ results = [k \in 1..13 |-> Results[GatheredAt[k]]]
        /\ anyHasFailed <=> \E k \in 1..called : results[k].resType = "failure"
        /\ \A i, j \in DOMAIN output : i < j => Before(output[i], output[j])
        /\ {output[i].name : i \in DOMAIN output}
             = {Ordering[k] : k \in 1..called} \ unwritten
    BY <1>1 DEF ReportInv, WritesInStep
  <1>4. /\ Len(results) = 13
        /\ (\E k \in 1..13 : results[k].resType = "failure")
             <=> \E i \in 1..13 : KnownBad(checks[i])
    BY <1>1, <1>3, InOrder
  <1>5. ExitTellsFailures'
    <2>1. anyHasFailed <=> \E i \in 1..13 : KnownBad(checks[i])
      BY <1>1, <1>3, <1>4
    <2>2. exit' = IF \E i \in 1..13 : KnownBad(checks[i]) THEN "InvalidEnv" ELSE "Success"
      <3>1. CASE anyHasFailed
        BY <1>1, <2>1, <3>1, ExitsWith
      <3>2. CASE ~anyHasFailed
        BY <1>1, <2>1, <3>2, ExitsWith
      <3> QED
        BY <3>1, <3>2
    <2>3. DOMAIN checks' = 1..13 /\ \A i \in 1..13 : KnownBad(checks'[i]) <=> KnownBad(checks[i])
      BY <1>1, ResultsAre
    <2> QED
      BY <1>1, <2>2, <2>3 DEF ExitTellsFailures
  <1>6. Names = {Ordering[k] : k \in 1..13}
    BY Places DEF Names, ToSet
  <1>7. WritesInStep' /\ JSONWrites'
    <2>1. /\ called' = called /\ results' = results /\ anyHasFailed' = anyHasFailed
          /\ output' = output /\ unwritten' = unwritten
      BY <1>1 DEF writes
    <2> QED
      BY <1>1, <1>2, <2>1 DEF ReportInv, WritesInStep, JSONWrites
  <1>8. ReportComplete'
    <2>1. {output[i].name : i \in DOMAIN output} = Names \ unwritten
      BY <1>1, <1>3, <1>4, <1>6
    <2>2. useAnalyserJSON
      BY <1>1 DEF ReportInv, JSONWrites
    <2> QED
      BY <1>1, <1>3, <2>1, <2>2 DEF ReportComplete, writes
  <1> QED
    BY <1>2, <1>5, <1>7, <1>8 DEF ReportInv

\* The text report.
LEMMA TextReports ==
    ASSUME ReportInv, IInv', ReportText
    PROVE  ReportInv'
  <1> DEFINE failures == OfType(Results, "failure")
             unknown == OfType(Results, "unknown")
             V == {Results[i] : i \in 1..13}
             Are(resType) == {Results[j] : j \in {i \in 1..13 : Results[i].resType = resType}}
  <1>1. /\ pc = "report" /\ ~useAnalyserJSON /\ UNCHANGED <<useAnalyserJSON, checks, antCheck>>
        /\ pc' = "done"
    BY DEF ReportText, loop
  <1>2. output' = unknown \o failures
    BY DEF ReportText
  <1>3. Exits(IF failures = <<>> THEN NoError ELSE MakeCompositeInvalidEnvError(failures))
    BY DEF ReportText
  <1>4. Results \in Seq(V) /\ DOMAIN Results = 1..13
    BY <1>1, ResultsAre
  <1>5. failures \in Seq(V) /\ {failures[i] : i \in DOMAIN failures} = Are("failure")
    <2> HIDE DEF V
    <2>1. /\ failures \in Seq(V)
          /\ Listed(failures) = ResultsOf(Results, "failure")
      BY <1>4, OfTypeIs
    <2>2. /\ failures \in Seq(V)
          /\ {failures[i] : i \in DOMAIN failures}
               = {Results[j] : j \in {i \in DOMAIN Results : Results[i].resType = "failure"}}
      BY <2>1 DEF Listed, ResultsOf
    <2> HIDE DEF failures
    <2> QED
      BY <1>4, <2>2
  <1>6. unknown \in Seq(V) /\ {unknown[i] : i \in DOMAIN unknown} = Are("unknown")
    <2> HIDE DEF V
    <2>1. /\ unknown \in Seq(V)
          /\ Listed(unknown) = ResultsOf(Results, "unknown")
      BY <1>4, OfTypeIs
    <2>2. /\ unknown \in Seq(V)
          /\ {unknown[i] : i \in DOMAIN unknown}
               = {Results[j] : j \in {i \in DOMAIN Results : Results[i].resType = "unknown"}}
      BY <2>1 DEF Listed, ResultsOf
    <2> HIDE DEF unknown
    <2> QED
      BY <1>4, <2>2
  <1> HIDE DEF failures, unknown, V
  <1>8. ChecksInOrder' /\ NothingWritten'
    BY <1>1, ChecksStay
  <1>9. ExitTellsFailures'
    <2>1. failures = <<>> <=> ~ \E i \in 1..13 : KnownBad(checks[i])
      <3>1. failures = <<>> <=> DOMAIN failures = {}
        BY <1>5
      <3>2. DOMAIN failures = {} <=> Are("failure") = {}
        BY <1>5
      <3>3. Are("failure") = {} <=> ~ \E i \in 1..13 : Results[i].resType = "failure"
        OBVIOUS
      <3>4. \A i \in 1..13 : Results[i].resType = "failure" <=> KnownBad(checks[i])
        BY <1>1, ResultsAre
      <3> HIDE DEF Are
      <3> QED
        BY <3>1, <3>2, <3>3, <3>4
    <2>2. exit' = IF \E i \in 1..13 : KnownBad(checks[i]) THEN "InvalidEnv" ELSE "Success"
      BY <1>3, <2>1, ExitsWith DEF MakeCompositeInvalidEnvError, MakeCompositeError
    <2>3. DOMAIN checks' = 1..13 /\ \A i \in 1..13 : KnownBad(checks'[i]) <=> KnownBad(checks[i])
      BY <1>1, ResultsAre
    <2> QED
      BY <1>1, <2>2, <2>3 DEF ExitTellsFailures
  <1>10. ReportComplete'
    <2> DEFINE Reported == {i \in 1..13 : Verify(checks[i]) # NoError}
    <2>1. \A i \in 1..13 : i \in Reported <=> Results[i].resType \in {"unknown", "failure"}
      BY <1>1, ResultsAre
    <2>2. {output'[i] : i \in DOMAIN output'}
            = {unknown[i] : i \in DOMAIN unknown} \cup {failures[i] : i \in DOMAIN failures}
      <3>1. DOMAIN output' = 1..(Len(unknown) + Len(failures))
        BY <1>2, <1>5, <1>6
      <3>2. \A i \in DOMAIN unknown : i \in DOMAIN output' /\ output'[i] = unknown[i]
        BY <1>2, <1>5, <1>6
      <3>3. \A i \in DOMAIN failures : /\ Len(unknown) + i \in DOMAIN output'
                                       /\ output'[Len(unknown) + i] = failures[i]
        BY <1>2, <1>5, <1>6
      <3>4. \A i \in DOMAIN output' : i \in DOMAIN unknown \/ i - Len(unknown) \in DOMAIN failures
        BY <3>1, <1>5, <1>6
      <3>5. \A i \in DOMAIN output' :
               \/ i \in DOMAIN unknown /\ output'[i] = unknown[i]
               \/ /\ i - Len(unknown) \in DOMAIN failures
                  /\ output'[i] = failures[i - Len(unknown)]
        BY <1>2, <1>5, <1>6, <3>4
      <3> QED
        BY <3>2, <3>3, <3>5
    <2>3. {output'[i] : i \in DOMAIN output'} = {Results[j] : j \in Reported}
      <3> HIDE DEF Reported
      <3>1. Are("unknown") \cup Are("failure") = {Results[j] : j \in {i \in 1..13 :
                                        Results[i].resType \in {"unknown", "failure"}}}
        OBVIOUS
      <3>2. Reported = {i \in 1..13 : Results[i].resType \in {"unknown", "failure"}}
        BY <2>1 DEF Reported
      <3> QED
        BY <1>5, <1>6, <2>2, <3>1, <3>2
    <2>4. \A i \in 1..13 : Results[i].name = checks[i].name
      BY <1>1, ResultsAre
    <2>5. {output'[i].name : i \in DOMAIN output'} = {checks[i].name : i \in Reported}
      <3>1. ASSUME NEW i \in DOMAIN output'
            PROVE  \E j \in Reported : output'[i].name = checks[j].name
        <4>1. output'[i] \in {Results[j] : j \in Reported}
          BY <2>3
        <4>2. PICK j \in Reported : output'[i] = Results[j]
          BY <4>1
        <4> QED
          BY <2>4, <4>2
      <3>2. ASSUME NEW j \in Reported
            PROVE  \E i \in DOMAIN output' : output'[i].name = checks[j].name
        <4>1. Results[j] \in {output'[i] : i \in DOMAIN output'}
          BY <2>3
        <4>2. PICK i \in DOMAIN output' : output'[i] = Results[j]
          BY <4>1
        <4> QED
          BY <2>4, <4>2
      <3> HIDE DEF Reported
      <3> QED
        BY <3>1, <3>2
    <2>6. DOMAIN checks' = 1..13 /\ checks' = checks
      BY <1>1, ResultsAre
    <2> QED
      BY <1>1, <2>5, <2>6 DEF ReportComplete
  <1>11. WritesInStep' /\ JSONWrites'
    BY <1>1 DEF WritesInStep, JSONWrites
  <1> QED
    BY <1>8, <1>9, <1>10, <1>11 DEF ReportInv

\* Every step keeps the invariant.
LEMMA NextReportInv == ReportInv /\ [Next]_vars => ReportInv'
  <1> SUFFICES ASSUME ReportInv, [Next]_vars PROVE ReportInv'
    OBVIOUS
  <1>1. IInv'
    BY NextIInv DEF ReportInv
  <1>2. checks \in Seq(Checks) /\ pc \in {"clientset", "devInfo", "gpsVersion", "gpsNav",
                                          "gpsStatus", "cluster", "report", "write",
                                          "done", "failed"}
    BY DEF ReportInv, IInv, TypeOK, Checks
  <1>3. CASE GetClientset \/ RetriesOver
    <2>1. /\ UNCHANGED <<checks, output, antCheck, writes>>
          /\ \/ pc = "clientset" /\ pc' = "devInfo"
             \/ pc = "gpsNav" /\ pc' = "gpsStatus"
      BY <1>3 DEF GetClientset, RetriesOver, loop
    <2>2. GatheredIn(pc') = GatheredIn(pc) /\ pc' \in {"devInfo", "gpsStatus"}
      BY <2>1 DEF GatheredIn
    <2> QED
      BY <1>1, <2>1, <2>2, NothingReported
  <1>4. CASE ClientsetFails \/ GatheringFails \/ LastReadFailed
    <2>1. PICK at, e : Fails(at, e) /\ at \in {"clientset", "devInfo", "gpsVersion",
                                              "gpsNav", "gpsStatus"}
      BY <1>4 DEF ClientsetFails, GatheringFails, LastReadFailed
    <2>2. /\ UNCHANGED <<checks, output, antCheck, writes>>
          /\ pc = at /\ pc' = "failed"
      BY <2>1 DEF Fails, loop
    <2> QED
      BY <1>1, <2>1, <2>2, NothingReported
  <1>5. CASE GPSNavConnected \/ GPSNavDisconnected \/ GPSNavFails
    <2>1. PICK details, e : ReadGPSNav(details, e) /\ pc' \in {pc, "gpsStatus"}
      BY <1>5 DEF GPSNavConnected, GPSNavDisconnected, GPSNavFails
    <2>2. UNCHANGED <<checks, output, writes>> /\ pc = "gpsNav"
      BY <2>1 DEF ReadGPSNav
    <2>3. pc' \in {"gpsNav", "gpsStatus"} /\ GatheredIn(pc') = GatheredIn(pc)
      BY <2>1, <2>2 DEF GatheredIn
    <2> QED
      BY <1>1, <2>2, <2>3, NothingReported
  <1>6. ASSUME NEW at \in {"devInfo", "gpsVersion", "cluster"}, NEW names \in Seq(Names),
               NEW next, Gathers(at, names, next),
               Follows(at, next),
               GatheredIn(next) = GatheredIn(at) + Len(names),
               \A i \in 1..Len(names) : names[i] = InGathering[GatheredIn(at) + i]
        PROVE  ReportInv'
    <2>1. PICK data \in [DOMAIN names -> FetchError..InTree] :
             checks' = checks \o [i \in DOMAIN names |->
                                    [name |-> names[i], data |-> data[i]]]
      BY <1>6 DEF Gathers
    <2> DEFINE new == [i \in DOMAIN names |-> [name |-> names[i], data |-> data[i]]]
    <2>2. DOMAIN names = 1..Len(names) /\ Len(names) \in Nat
      OBVIOUS
    <2>3. \A i \in 1..Len(names) : new[i] \in Checks /\ new[i].name = names[i]
      <3>1. FetchError..InTree \subseteq Int
        BY DEF FetchError, InTree
      <3>2. \A i \in 1..Len(names) : names[i] \in Names /\ data[i] \in Int
        BY <2>2, <3>1
      <3> QED
        BY <2>2, <3>2 DEF Checks
    <2>4. new \in [1..Len(names) -> Checks]
      BY <2>2, <2>3
    <2>5. checks' = checks \o new
      BY <2>1
    <2> HIDE DEF new
    <2>6. new \in Seq(Checks) /\ Len(new) = Len(names) /\ DOMAIN new = 1..Len(names)
      BY <2>2, <2>4
    <2>7. pc = at /\ pc' = next /\ UNCHANGED <<output, antCheck, writes>>
      BY <1>6 DEF Gathers, loop
    <2> QED
      BY <1>1, <1>6, <2>3, <2>5, <2>6, <2>7, GathersInOrder
  <1>7. CASE GetDevInfoValidations
    <2>1. DevInfoChecks \in Seq(Names) /\ Len(DevInfoChecks) = 3
      BY ListOf3, NamesAre DEF DevInfoChecks
    <2>2. \A i \in 1..3 : DevInfoChecks[i] = InGathering[0 + i]
      BY DEF DevInfoChecks, InGathering
    <2>3. GatheredIn("devInfo") = 0 /\ GatheredIn("gpsVersion") = 3
      BY DEF GatheredIn
    <2>4. Follows("devInfo", "gpsVersion")
      BY DEF Follows
    <2>5. GatheredIn("gpsVersion") = GatheredIn("devInfo") + Len(DevInfoChecks)
      BY <2>1, <2>3
    <2>6. \A i \in 1..Len(DevInfoChecks) : DevInfoChecks[i] = InGathering[GatheredIn("devInfo") + i]
      BY <2>1, <2>2, <2>3
    <2>7. Gathers("devInfo", DevInfoChecks, "gpsVersion")
      BY <1>7 DEF GetDevInfoValidations
    <2> QED
      BY <1>6, <2>1, <2>4, <2>5, <2>6, <2>7
  <1>8. CASE GetGPSVersionValidations
    <2>1. GPSVersionChecks \in Seq(Names) /\ Len(GPSVersionChecks) = 5
      BY ListOf5, NamesAre DEF GPSVersionChecks
    <2>2. \A i \in 1..5 : GPSVersionChecks[i] = InGathering[3 + i]
      BY DEF GPSVersionChecks, InGathering
    <2>3. GatheredIn("gpsVersion") = 3 /\ GatheredIn("gpsNav") = 8
      BY DEF GatheredIn
    <2>4. Follows("gpsVersion", "gpsNav")
      BY DEF Follows
    <2>5. GatheredIn("gpsNav") = GatheredIn("gpsVersion") + Len(GPSVersionChecks)
      BY <2>1, <2>3
    <2>6. \A i \in 1..Len(GPSVersionChecks) : GPSVersionChecks[i] = InGathering[GatheredIn("gpsVersion") + i]
      BY <2>1, <2>2, <2>3
    <2>7. Gathers("gpsVersion", GPSVersionChecks, "gpsNav")
      BY <1>8 DEF GetGPSVersionValidations
    <2> QED
      BY <1>6, <2>1, <2>4, <2>5, <2>6, <2>7
  <1>9. CASE NewClusterChecks
    <2>1. ClusterChecks \in Seq(Names) /\ Len(ClusterChecks) = 3
      BY ListOf3, NamesAre DEF ClusterChecks
    <2>2. \A i \in 1..3 : ClusterChecks[i] = InGathering[10 + i]
      BY DEF ClusterChecks, InGathering
    <2>3. GatheredIn("cluster") = 10 /\ GatheredIn("report") = 13
      BY DEF GatheredIn
    <2>4. Follows("cluster", "report")
      BY DEF Follows
    <2>5. GatheredIn("report") = GatheredIn("cluster") + Len(ClusterChecks)
      BY <2>1, <2>3
    <2>6. \A i \in 1..Len(ClusterChecks) : ClusterChecks[i] = InGathering[GatheredIn("cluster") + i]
      BY <2>1, <2>2, <2>3
    <2>7. Gathers("cluster", ClusterChecks, "report")
      BY <1>9 DEF NewClusterChecks
    <2> QED
      BY <1>6, <2>1, <2>4, <2>5, <2>6, <2>7
  <1>10. CASE GetGPSStatusValidation
    <2> DEFINE new == <<[name |-> "antStatus", data |-> antCheck.antennas],
                        [name |-> "navStatus", data |-> gpsDetails.is.fix]>>
    <2>1. antCheck.antennas \in Int /\ gpsDetails.is.fix \in Int
      BY DEF ReportInv, IInv, TypeOK
    <2>2. /\ [name |-> "antStatus", data |-> antCheck.antennas] \in Checks
          /\ [name |-> "navStatus", data |-> gpsDetails.is.fix] \in Checks
      BY <2>1, NamesAre DEF Checks
    <2>3. new \in Seq(Checks) /\ Len(new) = 2 /\ DOMAIN new = 1..2
      BY <2>2, ListOf2
    <2>4. \A i \in 1..2 : new[i].name = InGathering[8 + i]
      BY DEF InGathering
    <2>5. new[1].data = antCheck.antennas
      OBVIOUS
    <2>6. /\ pc = "gpsStatus" /\ pc' = "cluster" /\ UNCHANGED <<output, antCheck, writes>>
          /\ checks' = checks \o new
      BY <1>10 DEF GetGPSStatusValidation, loop
    <2>7. GatheredIn("gpsStatus") = 8 /\ GatheredIn("cluster") = 10
      BY DEF GatheredIn
    <2>8. Follows("gpsStatus", "cluster")
      BY DEF Follows
    <2>9. GatheredIn("cluster") = GatheredIn("gpsStatus") + Len(new)
      BY <2>3, <2>7
    <2>10. \A i \in DOMAIN new : new[i].name = InGathering[GatheredIn("gpsStatus") + i]
      <3> HIDE DEF new
      <3> QED
        BY <2>3, <2>4, <2>7
    <2> HIDE DEF new
    <2> QED
      BY <1>1, <2>3, <2>5, <2>6, <2>8, <2>9, <2>10, GathersInOrder
  <1>11. CASE SortResults \/ CallWrites \/ WriteFails \/ ReportEnds
    BY <1>1, <1>11, SortReports, CallReports, EndReports
  <1>12. CASE ReportText
    BY <1>1, <1>12, TextReports
  <1>13. CASE UNCHANGED vars
    <2>1. /\ UNCHANGED <<pc, useAnalyserJSON, checks, antCheck, output, exit>>
          /\ UNCHANGED <<results, called, anyHasFailed, unwritten>>
      BY <1>13 DEF vars, loop, writes
    <2>2. ChecksInOrder' /\ NothingWritten' /\ JSONWrites'
      BY <2>1 DEF ReportInv, ChecksInOrder, NothingWritten, JSONWrites
    <2>3. WritesInStep'
      <3>1. Results' = Results
        BY <2>1 DEF Results
      <3> QED
        BY <2>1, <3>1 DEF ReportInv, WritesInStep
    <2>4. ExitTellsFailures' /\ ReportComplete'
      BY <2>1 DEF ReportInv, ExitTellsFailures, ReportComplete
    <2> QED
      BY <1>1, <2>2, <2>3, <2>4 DEF ReportInv
  <1> QED
    BY <1>3, <1>4, <1>5, <1>7, <1>8, <1>9, <1>10, <1>11, <1>12, <1>13 DEF Next

\* What is gathered in order is reported, for any data of the checks.
THEOREM InvariantReportInv == Spec => []ReportInv
  BY InitReportInv, NextReportInv, PTL DEF Spec

\* Both formats exit with InvalidEnv just when some check's data was fetched,
\* understood and not as it should be (reportAnalyserJSON, report).
THEOREM ExitTellsTheFailures == Spec => []ExitTellsFailures
  <1>1. ReportInv => ExitTellsFailures
    BY DEF ReportInv
  <1> QED
    BY <1>1, InvariantReportInv, PTL

\* The JSON report has every check but those that could not be written, each once
\* and in the order of common.go (reportAnalyserJSON), and the text names every
\* check that is not a success (report).
THEOREM ReportsAreComplete == Spec => []ReportComplete
  <1>1. ReportInv => ReportComplete
    BY DEF ReportInv
  <1> QED
    BY <1>1, InvariantReportInv, PTL

\* No later read takes back that the antenna was found connected
\* (getGPSStatusValidation).
THEOREM FoundAntennaIsReported == Spec => []FoundAntennaReported
  <1>1. ReportInv => FoundAntennaReported
    <2> SUFFICES ASSUME ReportInv, Gathered, connected
                 PROVE  ResultOf("antStatus").resType = "success"
      BY DEF FoundAntennaReported
    <2>1. (Len(checks) = 10 \/ Len(checks) = 13) /\ checks \in Seq(Checks)
      BY DEF ReportInv, ChecksInOrder, Gathered, GatheredIn, IInv, TypeOK, Checks
    <2>2. DOMAIN checks = 1..Len(checks) /\ 9 \in DOMAIN checks /\ DOMAIN checks \subseteq 1..13
      BY <2>1
    <2>3. checks[9].data = 1
      <3>1. antCheck.antennas = 1
        BY DEF ReportInv, IInv, LoopEnds
      <3>2. Len(checks) >= 10
        <4>1. CASE Len(checks) = 10
          BY <4>1
        <4>2. CASE Len(checks) = 13
          BY <4>2
        <4> QED
          BY <2>1, <4>1, <4>2
      <3> QED
        BY <3>1, <3>2 DEF ReportInv, ChecksInOrder
    <2>4. \A i \in 1..13 : InGathering[i] = "antStatus" <=> i = 9
      BY DEF InGathering
    <2>5. \A i \in DOMAIN checks : checks[i].name = "antStatus" <=> i = 9
      BY <2>2, <2>4 DEF ReportInv, ChecksInOrder
    <2>6. (CHOOSE i \in DOMAIN checks : checks[i].name = "antStatus") = 9
      BY <2>2, <2>5
    <2>7. ResultOf("antStatus").resType = ResType(Verify(checks[9]))
      BY <2>6 DEF ResultOf, NewValidationResult
    <2>8. checks[9].name = "antStatus"
      BY <2>2, <2>5
    <2>9. Verify(checks[9]) = NoError
      BY <2>3, <2>8 DEF Verify, VerifyUnfetched, VerifyFound, VersionChecks, FetchError
    <2> QED
      BY <2>7, <2>9 DEF ResType
  <1> QED
    BY <1>1, InvariantReportInv, PTL
===============================================================================
