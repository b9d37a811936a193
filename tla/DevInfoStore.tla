----------------------------- MODULE DevInfoStore -----------------------------
(***************************************************************************)
(* What the polls of the DevInfo collector store and announce              *)
(* (pkg/collectors/dev_info_collector.go).  Up to three of them run at     *)
(* once and share the stored information without a lock: a poll that finds *)
(* a fetch required fetches, stores and announces what it fetched, another *)
(* one announces what is stored.  An error of any poll, of DevInfo's own   *)
(* as well, is handed to the error monitor, which requires the next fetch. *)
(*                                                                         *)
(* The device is the environment: its information is a number that grows   *)
(* with every change.  The hand-over of errors is one bounded queue here   *)
(* (CollectorRunner has the channels and the main loop it is made of), and *)
(* the polling goes on: nothing is said of its end.                        *)
(***************************************************************************)
EXTENDS Integers

CONSTANTS
    Polls,          \* the polls that run at once: maxRunningPolls of them
    QueueSize,      \* the errors on their way to the monitor
    MaxChanges,     \* bound on the changes of the device
    MaxFailures     \* bound on the polls that fail

ASSUME StoreBounds ==
    QueueSize \in Nat \ {0} /\ MaxChanges \in Nat /\ MaxFailures \in Nat

VARIABLES
    device,         \* the information the device would give now
    devInfo,        \* the information stored
    requiresFetch,  \* whether the channel's one place is taken
    errored,        \* how many errors are on their way to the monitor
    monitor,        \* whether the monitor is about to send
    pc,             \* where each poll is
    local,          \* the devInfo each poll has in hand
    failures        \* how many polls have failed

VARIABLES           \* history
    took,           \* the polls that took a request to fetch
    since,          \* what the device had when they did
    overtaken,      \* those of them that others stored after meanwhile
    answering,      \* those that took theirs after the last error
    unanswered      \* no announcement has answered the last error

code == <<device, devInfo, requiresFetch, errored, monitor, failures>>
history == <<took, since, overtaken, answering, unanswered>>
vars == <<device, devInfo, requiresFetch, errored, monitor, pc, local,
          failures, took, since, overtaken, answering, unanswered>>

Versions == 0..MaxChanges

\* NewDevInfoCollector has fetched and stored the information.
Init ==
    /\ device = 0 /\ devInfo = 0
    /\ requiresFetch = FALSE /\ errored = 0 /\ monitor = "receive"
    /\ pc = [p \in Polls |-> "idle"]
    /\ local = [p \in Polls |-> 0] /\ since = [p \in Polls |-> 0]
    /\ took = {} /\ overtaken = {} /\ answering = {}
    /\ failures = 0 /\ unanswered = FALSE

Goto(p, from, to) ==
    /\ pc[p] = from
    /\ pc' = [pc EXCEPT ![p] = to]

Fault == failures < MaxFailures /\ failures' = failures + 1

\* The poller starts a poll.
BeginPoll(p) ==
    /\ Goto(p, "idle", "select")
    /\ UNCHANGED <<code, local, history>>

TakeFetch(p) ==
    /\ Goto(p, "select", "fetching")
    /\ requiresFetch /\ requiresFetch' = FALSE
    /\ took' = took \cup {p} /\ answering' = answering \cup {p}
    /\ since' = [since EXCEPT ![p] = device]
    /\ UNCHANGED <<device, devInfo, errored, monitor, local, failures, overtaken,
                   unanswered>>

\* Broken: what was read from the store is stored again.
UseStoredWritesBack(p) ==
    /\ Goto(p, "select", "fetched")
    /\ ~requiresFetch
    /\ local' = [local EXCEPT ![p] = devInfo]
    /\ UNCHANGED <<code, history>>

UseStored(p) ==
    /\ Goto(p, "select", "announce")
    /\ ~requiresFetch
    /\ local' = [local EXCEPT ![p] = devInfo]
    /\ UNCHANGED <<code, history>>

\* Some time during the fetch the command reads the device.
ReadDevice(p) ==
    /\ Goto(p, "fetching", "fetched")
    /\ local' = [local EXCEPT ![p] = device]
    /\ UNCHANGED <<code, history>>

\* What is known of a poll until it ends or fails.
Forget(p) ==
    /\ local' = [local EXCEPT ![p] = 0] /\ since' = [since EXCEPT ![p] = 0]
    /\ took' = took \ {p} /\ overtaken' = overtaken \ {p}
    /\ answering' = answering \ {p}

FetchFails(p) ==
    /\ Goto(p, "fetching", "failed")
    /\ Fault /\ Forget(p)
    /\ UNCHANGED <<device, devInfo, requiresFetch, errored, monitor, unanswered>>

Fetching(p) == p \in took /\ pc[p] \in {"fetching", "fetched"}

Store(p) ==
    /\ Goto(p, "fetched", "announce")
    /\ devInfo' = local[p]
    /\ overtaken' = overtaken \cup {q \in Polls \ {p} : Fetching(q)}
    /\ UNCHANGED <<device, requiresFetch, errored, monitor, local, failures,
                   took, since, answering, unanswered>>

\* Broken: what is announced is read from the store again.
AnnouncedFromStore(p) == devInfo

Announced(p) == local[p]

\* callback.Call writes the record; the poll then reports no error.
Announce(p) ==
    /\ Goto(p, "announce", "idle")
    /\ unanswered' = (unanswered /\ p \notin answering)
    /\ Forget(p)
    /\ UNCHANGED code

CallFails(p) ==
    /\ Goto(p, "announce", "failed")
    /\ Fault /\ Forget(p)
    /\ UNCHANGED <<device, devInfo, requiresFetch, errored, monitor, unanswered>>

Reports ==
    /\ errored < QueueSize /\ errored' = errored + 1
    /\ unanswered' = TRUE /\ answering' = {}
    /\ UNCHANGED <<device, devInfo, requiresFetch, monitor, local, took, since,
                   overtaken>>

\* The poll's error is on its way, once there is room for it.
ReportError(p) ==
    /\ Goto(p, "failed", "idle")
    /\ Reports
    /\ UNCHANGED failures

\* Another collector's poll has failed: its error goes the same way.
OtherPollFails ==
    /\ Fault
    /\ Reports
    /\ UNCHANGED pc

\* Broken: no fetch is required while one is under way.
MonitorReceivesUnlessFetching ==
    /\ monitor = "receive" /\ errored > 0
    /\ errored' = errored - 1
    /\ monitor' = IF requiresFetch \/ \E p \in Polls : Fetching(p)
                  THEN "receive" ELSE "send"
    /\ UNCHANGED <<device, devInfo, requiresFetch, pc, local, failures, history>>

\* An error while a fetch is required already is dropped.
MonitorReceives ==
    /\ monitor = "receive" /\ errored > 0
    /\ errored' = errored - 1
    /\ monitor' = IF requiresFetch THEN "receive" ELSE "send"
    /\ UNCHANGED <<device, devInfo, requiresFetch, pc, local, failures, history>>

MonitorSends ==
    /\ monitor = "send" /\ monitor' = "receive"
    /\ ~requiresFetch /\ requiresFetch' = TRUE
    /\ UNCHANGED <<device, devInfo, errored, pc, local, failures, history>>

DeviceChanges ==
    /\ device < MaxChanges /\ device' = device + 1
    /\ UNCHANGED <<devInfo, requiresFetch, errored, monitor, pc, local, failures,
                   history>>

PollStep(p) ==
    \/ BeginPoll(p) \/ TakeFetch(p) \/ UseStored(p) \/ ReadDevice(p)
    \/ Store(p) \/ Announce(p) \/ ReportError(p)

MonitorStep == MonitorReceives \/ MonitorSends

Next ==
    \/ \E p \in Polls : PollStep(p) \/ FetchFails(p) \/ CallFails(p)
    \/ OtherPollFails
    \/ MonitorStep
    \/ DeviceChanges

Spec == Init /\ [][Next]_vars

\* Polls go on and end, the monitor runs; no fetch need succeed, but failures
\* are bounded.  A poll that waits for room in the queue gets it in turn, as
\* senders on a channel do.
FairSpec ==
    /\ Spec
    /\ \A p \in Polls : WF_vars(PollStep(p)) /\ SF_vars(ReportError(p))
    /\ WF_vars(MonitorStep)

-----------------------------------------------------------------------------
TypeOK ==
    /\ device \in Versions /\ devInfo \in Versions
    /\ requiresFetch \in BOOLEAN /\ unanswered \in BOOLEAN
    /\ errored \in 0..QueueSize /\ failures \in 0..MaxFailures
    /\ monitor \in {"receive", "send"}
    /\ pc \in [Polls -> {"idle", "select", "fetching", "fetched", "announce",
                         "failed"}]
    /\ local \in [Polls -> Versions] /\ since \in [Polls -> Versions]
    /\ took \subseteq Polls /\ overtaken \subseteq Polls
    /\ answering \subseteq Polls

\* Nothing is known that the device has not had yet.
KnownIsPast ==
    /\ devInfo <= device
    /\ \A p \in Polls : local[p] <= device /\ since[p] <= device

\* What a poll has fetched is no older than its request.
FetchedAfterRequest ==
    \A p \in took : pc[p] \in {"fetched", "announce"} => since[p] <= local[p]

\* While nobody else stores, the store is no newer than the request.
StoreBeforeRequest ==
    \A p \in Polls \ overtaken : Fetching(p) => devInfo <= since[p]

\* Only a poll that took a request has something to store, and it is done
\* with the request when it ends.
OnlyFetchesStore ==
    \A p \in Polls : /\ pc[p] \in {"fetching", "fetched"} => p \in took
                     /\ pc[p] \in {"idle", "select", "failed"} => p \notin took

\* The inductive invariant: every poll's information is placed between what
\* the device had at its request and what it has now.
IInv == TypeOK /\ KnownIsPast /\ FetchedAfterRequest /\ StoreBeforeRequest
                /\ OnlyFetchesStore

\* A poll that was asked to fetch announces what the device had when it was
\* asked, or something newer, although another poll with older information
\* may store between its own storing and its announcement (poll: devInfo is
\* the poll's own, line 82, and not read back from the collector).
FreshAnswer ==
    [][\A p \in took : pc[p] = "announce" /\ pc'[p] = "idle"
                          => Announced(p) >= since[p]]_vars

\* The store goes back to older information only when two fetches overlap:
\* one of them stores between the request of the other and that one's own
\* store, be the other the one that was asked for earlier or the one that read
\* the device earlier.  It does not go back behind what the device had at
\* that request, and fetches one after the other never go back, however many
\* polls announce in between.
OlderOnlyByOverlap ==
    [][devInfo' < devInfo =>
         \E p \in took \cap overtaken :
            pc[p] = "fetched" /\ devInfo' = local[p] /\ devInfo' >= since[p]]_vars

\* After the last error there is an announcement of information that was
\* fetched after it, unless errors follow without end: no error is lost
\* between the polls that are under way, the one place of requiresFetch and
\* the monitor.
ErrorIsAnswered == unanswered ~> ~unanswered

\* Two fetches at once may leave the older information in the store, and it
\* is announced until the next error.  No run checks this statement.
NeverOlder == [][devInfo' >= devInfo]_vars
===============================================================================
