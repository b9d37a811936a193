--------------------------- MODULE DevInfoStoreProofs ---------------------------
(***************************************************************************)
(* Proofs about DevInfoStore, for any set of polls and any bounds: the     *)
(* inductive invariant, what an answer is, and when the store goes back.   *)
(***************************************************************************)
EXTENDS DevInfoStore, TLAPS

LEMMA InitIInv == Init => IInv
<1> SUFFICES ASSUME Init PROVE IInv
    OBVIOUS
<1>1. 0 \in 0..MaxChanges /\ 0 \in 0..MaxFailures /\ 0 \in 0..QueueSize
    BY StoreBounds
<1>2. TypeOK
    BY <1>1 DEF Init, TypeOK, Versions
<1>3. KnownIsPast /\ FetchedAfterRequest /\ StoreBeforeRequest /\ OnlyFetchesStore
    BY DEF Init, KnownIsPast, FetchedAfterRequest, StoreBeforeRequest, Fetching,
           OnlyFetchesStore
<1> QED
    BY <1>2, <1>3 DEF IInv

(* What ends a poll leaves the others as they were.                        *)
LEMMA ForgetKeepsIInv ==
    ASSUME IInv, NEW p \in Polls, NEW from, Goto(p, from, pc'[p]), Forget(p),
           pc'[p] \in {"idle", "failed"},
           unanswered' \in BOOLEAN, failures' \in 0..MaxFailures,
           UNCHANGED <<device, devInfo, requiresFetch, errored, monitor>>
    PROVE  IInv'
<1> USE StoreBounds DEF IInv, Versions
<1>1. /\ pc' = [pc EXCEPT ![p] = pc'[p]]
      /\ \A q \in Polls \ {p} : pc'[q] = pc[q]
    BY DEF Goto, TypeOK
<1>2. TypeOK'
    BY <1>1 DEF TypeOK, Forget
<1>3. KnownIsPast'
    BY DEF TypeOK, KnownIsPast, Forget
<1>4. FetchedAfterRequest'
    BY <1>1 DEF TypeOK, FetchedAfterRequest, Forget
<1>5. StoreBeforeRequest'
    BY <1>1 DEF TypeOK, StoreBeforeRequest, Fetching, Forget
<1>6. OnlyFetchesStore'
    BY <1>1 DEF TypeOK, OnlyFetchesStore, Forget
<1> QED
    BY <1>2, <1>3, <1>4, <1>5, <1>6

LEMMA FaultStays == ASSUME TypeOK, Fault PROVE failures' \in 0..MaxFailures
BY StoreBounds DEF TypeOK, Fault

(* The steps that only hand over errors, or change nothing but the device, *)
(* leave what the polls and the store have.                                *)
LEMMA HandOverKeepsIInv ==
    ASSUME IInv, TypeOK', device <= device',
           UNCHANGED <<devInfo, pc, local, since, took, overtaken>>
    PROVE  IInv'
<1>1. KnownIsPast'
    BY StoreBounds DEF IInv, KnownIsPast, TypeOK, Versions
<1> QED
    BY <1>1 DEF IInv, FetchedAfterRequest, StoreBeforeRequest, Fetching,
                OnlyFetchesStore

LEMMA NextIInv == IInv /\ [Next]_vars => IInv'
<1> SUFFICES ASSUME IInv, [Next]_vars PROVE IInv'
    OBVIOUS
<1> USE StoreBounds DEF IInv, Versions
<1>1. ASSUME NEW p \in Polls, BeginPoll(p) PROVE IInv'
    BY <1>1 DEF BeginPoll, Goto, code, history, TypeOK, KnownIsPast,
                FetchedAfterRequest, StoreBeforeRequest, Fetching, OnlyFetchesStore
<1>2. ASSUME NEW p \in Polls, TakeFetch(p) PROVE IInv'
    <2>1. TypeOK'
        BY <1>2 DEF TakeFetch, Goto, TypeOK
    <2>2. KnownIsPast'
        BY <1>2 DEF TakeFetch, Goto, TypeOK, KnownIsPast
    <2>3. FetchedAfterRequest'
        BY <1>2 DEF TakeFetch, Goto, TypeOK, FetchedAfterRequest
    <2>4. StoreBeforeRequest'
        BY <1>2 DEF TakeFetch, Goto, TypeOK, KnownIsPast, StoreBeforeRequest, Fetching
    <2>5. OnlyFetchesStore'
        BY <1>2 DEF TakeFetch, Goto, TypeOK, OnlyFetchesStore
    <2> QED
        BY <2>1, <2>2, <2>3, <2>4, <2>5
<1>3. ASSUME NEW p \in Polls, UseStored(p) PROVE IInv'
    <2>1. p \notin took /\ \A q \in Polls \ {p} : local'[q] = local[q] /\ pc'[q] = pc[q]
        BY <1>3 DEF UseStored, Goto, TypeOK, OnlyFetchesStore
    <2>2. TypeOK'
        BY <1>3 DEF UseStored, Goto, code, history, TypeOK
    <2>3. KnownIsPast'
        BY <1>3 DEF UseStored, Goto, code, history, TypeOK, KnownIsPast
    <2>4. FetchedAfterRequest'
        BY <1>3, <2>1 DEF UseStored, code, history, TypeOK, FetchedAfterRequest
    <2>5. StoreBeforeRequest'
        BY <1>3, <2>1 DEF UseStored, Goto, code, history, TypeOK,
                          StoreBeforeRequest, Fetching
    <2>6. OnlyFetchesStore'
        BY <1>3, <2>1 DEF UseStored, Goto, code, history, TypeOK, OnlyFetchesStore
    <2> QED
        BY <2>2, <2>3, <2>4, <2>5, <2>6
<1>4. ASSUME NEW p \in Polls, ReadDevice(p) PROVE IInv'
    BY <1>4 DEF ReadDevice, Goto, code, history, TypeOK, KnownIsPast,
                FetchedAfterRequest, StoreBeforeRequest, Fetching, OnlyFetchesStore
<1>5. ASSUME NEW p \in Polls, Store(p) PROVE IInv'
    <2>1. TypeOK'
        BY <1>5 DEF Store, Goto, TypeOK
    <2>2. KnownIsPast'
        BY <1>5 DEF Store, Goto, TypeOK, KnownIsPast
    <2>3. FetchedAfterRequest'
        BY <1>5 DEF Store, Goto, TypeOK, FetchedAfterRequest
    <2>4. StoreBeforeRequest'
        BY <1>5 DEF Store, Goto, TypeOK, StoreBeforeRequest, Fetching
    <2>5. OnlyFetchesStore'
        BY <1>5 DEF Store, Goto, TypeOK, OnlyFetchesStore
    <2> QED
        BY <2>1, <2>2, <2>3, <2>4, <2>5
<1>6. ASSUME NEW p \in Polls, Announce(p) PROVE IInv'
    <2>1. Goto(p, "announce", pc'[p]) /\ pc'[p] = "idle"
        BY <1>6 DEF Announce, Goto, TypeOK
    <2>2. unanswered' \in BOOLEAN
        BY <1>6 DEF Announce, TypeOK
    <2> QED
        BY <1>6, <2>1, <2>2, ForgetKeepsIInv DEF Announce, code, TypeOK
<1>7. ASSUME NEW p \in Polls, FetchFails(p) \/ CallFails(p) PROVE IInv'
    <2>1. PICK from \in {"fetching", "announce"} : Goto(p, from, "failed")
        BY <1>7 DEF FetchFails, CallFails
    <2>2. Goto(p, from, pc'[p]) /\ pc'[p] = "failed"
        BY <2>1 DEF Goto, TypeOK
    <2>3. failures' \in 0..MaxFailures
        BY <1>7, FaultStays DEF FetchFails, CallFails
    <2> QED
        BY <1>7, <2>2, <2>3, ForgetKeepsIInv DEF FetchFails, CallFails, TypeOK
<1>8. ASSUME NEW p \in Polls, ReportError(p) PROVE IInv'
    <2>1. TypeOK'
        BY <1>8 DEF ReportError, Reports, Goto, TypeOK
    <2> QED
        BY <1>8, <2>1 DEF ReportError, Reports, Goto, TypeOK, KnownIsPast,
                FetchedAfterRequest, StoreBeforeRequest, Fetching, OnlyFetchesStore
<1>9. CASE OtherPollFails
    <2>1. failures' \in 0..MaxFailures
        BY <1>9, FaultStays DEF OtherPollFails
    <2>2. TypeOK'
        BY <1>9, <2>1 DEF OtherPollFails, Reports, TypeOK
    <2> QED
        BY <1>9, <2>2, HandOverKeepsIInv DEF OtherPollFails, Reports, TypeOK
<1>10. CASE MonitorStep
    <2>1. errored' \in 0..QueueSize
        BY <1>10 DEF MonitorStep, MonitorReceives, MonitorSends, TypeOK
    <2>2. monitor' \in {"receive", "send"} /\ requiresFetch' \in BOOLEAN
        BY <1>10 DEF MonitorStep, MonitorReceives, MonitorSends, TypeOK
    <2>3. TypeOK'
        BY <1>10, <2>1, <2>2
        DEF MonitorStep, MonitorReceives, MonitorSends, history, TypeOK
    <2> QED
        BY <1>10, <2>3, HandOverKeepsIInv
        DEF MonitorStep, MonitorReceives, MonitorSends, history, TypeOK
<1>11. CASE DeviceChanges
    <2>1. TypeOK'
        BY <1>11 DEF DeviceChanges, history, TypeOK
    <2> QED
        BY <1>11, <2>1, HandOverKeepsIInv DEF DeviceChanges, history, TypeOK
<1>12. CASE UNCHANGED vars
    BY <1>12 DEF vars, TypeOK, KnownIsPast, FetchedAfterRequest,
                 StoreBeforeRequest, Fetching, OnlyFetchesStore
<1> QED
    BY <1>1, <1>2, <1>3, <1>4, <1>5, <1>6, <1>7, <1>8, <1>9, <1>10, <1>11, <1>12
    DEF Next, PollStep

(* The inductive invariant holds in every reachable state, for any set of  *)
(* polls, however long the hand-over of errors takes.                      *)
THEOREM InformationPlaced == Spec => []IInv
<1> QED
    BY InitIInv, NextIInv, PTL DEF Spec

(* A poll asked to fetch announces nothing older than its request: what it *)
(* has in hand is its own (poll, line 82).                                 *)
THEOREM AnswersAreFresh == Spec => FreshAnswer
<1>1. IInv /\ [Next]_vars =>
        [\A p \in took : pc[p] = "announce" /\ pc'[p] = "idle"
                            => Announced(p) >= since[p]]_vars
    BY StoreBounds DEF IInv, TypeOK, Versions, FetchedAfterRequest, Announced
<1> QED
    BY <1>1, InformationPlaced, PTL DEF Spec, FreshAnswer

(* The store goes back only when a fetch stores that another one's store    *)
(* fell into, and not behind what the device had when that fetch was asked *)
(* for: without an overlap of fetches it never does.                       *)
THEOREM OlderOnlyByOverlaps == Spec => OlderOnlyByOverlap
<1>1. IInv /\ [Next]_vars =>
        [devInfo' < devInfo =>
            \E p \in took \cap overtaken :
                pc[p] = "fetched" /\ devInfo' = local[p] /\ devInfo' >= since[p]]_vars
    <2> SUFFICES ASSUME IInv, Next, devInfo' < devInfo
                 PROVE  \E p \in took \cap overtaken :
                            /\ pc[p] = "fetched" /\ devInfo' = local[p]
                            /\ devInfo' >= since[p]
        BY DEF vars
    <2> USE StoreBounds DEF IInv, Versions
    <2>1. devInfo' # devInfo
        BY DEF TypeOK
    <2>2. PICK p \in Polls : Store(p)
        BY <2>1 DEF Next, PollStep, MonitorStep, BeginPoll, TakeFetch, UseStored,
                    ReadDevice, FetchFails, Announce, CallFails, ReportError,
                    OtherPollFails, Reports, MonitorReceives, MonitorSends,
                    DeviceChanges, code
    <2>3. p \in took /\ pc[p] = "fetched" /\ devInfo' = local[p]
        BY <2>2 DEF Store, Goto, OnlyFetchesStore
    <2>4. since[p] <= local[p]
        BY <2>3 DEF FetchedAfterRequest
    <2>5. p \in overtaken
        BY <2>3, <2>4 DEF StoreBeforeRequest, Fetching, TypeOK
    <2>6. devInfo' >= since[p]
        BY <2>3, <2>4 DEF TypeOK
    <2> QED
        BY <2>3, <2>5, <2>6
<1> QED
    BY <1>1, InformationPlaced, PTL DEF Spec, OlderOnlyByOverlap
=================================================================================
