--------------------------- MODULE CollectorRunner ---------------------------
(***************************************************************************)
(* CollectorRunner.Run (pkg/runner/runner.go) from start() on: the main    *)
(* goroutine, one poller goroutine per collector, the goroutines running   *)
(* Poll, and the DevInfo collector's error monitor                         *)
(* (pkg/collectors/dev_info_collector.go).  They share two bounded         *)
(* channels (pollResults, erroredPolls), the WaitGroupCounts of            *)
(* pkg/utils/utils.go and one quit channel per poller.                     *)
(***************************************************************************)
EXTENDS Naturals, Sequences, FiniteSets, FiniteSetsExt

CONSTANTS
    Plain,                \* the collectors that are not announcers
    DevInfo,              \* the DevInfo collector: required, the only announcer
    Callback,             \* the callback that Run closes last
    Fallible,             \* whose Start or CleanUp may return an error
    MaxRunningPolls,      \* maxRunningPolls
    PollResultsQueueSize, \* pollResultsQueueSize, of both channels
    MaxSignals,           \* bound on the signals the process receives
    MaxLeaving            \* bound on the polls of one collector that are
                          \* between the two steps of their Done()

ASSUME InstancesAssumption ==
    /\ IsFiniteSet(Plain)
    /\ DevInfo \notin Plain
    /\ Callback \notin Plain \cup {DevInfo}
    /\ Fallible \subseteq Plain \cup {Callback}
ASSUME BoundsAssumption ==
    /\ MaxRunningPolls \in Nat \ {0}
    /\ PollResultsQueueSize \in Nat \ {0}
    /\ MaxSignals \in Nat
    /\ MaxLeaving \in Nat \ {0}

Instances == Plain \cup {DevInfo}
Groups == {"collectors", "announcers"}
Group(c) == IF c = DevInfo THEN "announcers" ELSE "collectors"

MainStates == {"starting", "loop", "select", "sendErrored", "forward",
               "waitCollectors", "waitAnnouncers", "cleanUp", "closing",
               "done", "panicked"}
PollerStates == {"none", "check", "full", "select", "default", "drain",
                 "counted", "ended"}
PollStates == {"choosing", "polling", "returning", "leaving"}
Outcomes == {"ok", "err"}
\* Where a Poll goroutine begins: DevInfo's first looks at requiresFetch.
FirstState(c) == IF c = DevInfo THEN "choosing" ELSE "polling"
MonitorStates == {"off", "select", "send"}

VARIABLES
    mainPc,        \* where the main goroutine is
    started,       \* collectors registered by start()
    toForward,     \* quit channels the signal is still to be sent on
    cleaned,       \* collectors whose CleanUp has returned
    pollerPc,      \* where each poller goroutine is
    collQuit,      \* signals in each poller's quit channel
    polls,         \* the poll goroutines of each collector, by progress
    pollCount,     \* runningPolls.count of each poller
    pollWG,        \* runningPolls.WaitGroup of each poller
    groupCount,    \* runningCollectorsWG.count and runningAnnouncersWG.count
    groupWG,       \* their WaitGroups
    results,       \* pollResults
    errored,       \* len(erroredPolls)
    requiresFetch, \* len(requiresFetch)
    monitorPc,     \* where monitorErroredPolls is
    quitSig,       \* len(runner.quit)
    signals,       \* signals received so far (bounded by MaxSignals)
    expired,       \* endTime has passed
    refetchOwed    \* history: an error was reported to the monitor and no
                   \* DevInfo poll has taken up a fetch since

mainVars   == <<mainPc, started, toForward, cleaned>>
pollVars   == <<polls, pollCount, pollWG>>
groupVars  == <<groupCount, groupWG>>
errorVars  == <<errored, requiresFetch, monitorPc, refetchOwed>>
envVars    == <<quitSig, signals, expired>>
vars == <<mainVars, pollerPc, collQuit, pollVars, groupVars, results,
          errorVars, envVars>>

OnlyMainMoves ==
    UNCHANGED <<started, toForward, cleaned, pollerPc, collQuit, pollVars,
                groupVars, results, errorVars, envVars>>

NoPolls == [p \in PollStates |-> 0]

\* Run has built the instances and is about to call start().
Init ==
    /\ mainPc = "starting"
    /\ started = {}
    /\ toForward = {}
    /\ cleaned = {}
    /\ pollerPc = [c \in Instances |-> "none"]
    /\ collQuit = [c \in Instances |-> 0]
    /\ polls = [c \in Instances |-> NoPolls]
    /\ pollCount = [c \in Instances |-> 0]
    /\ pollWG = [c \in Instances |-> 0]
    /\ groupCount = [g \in Groups |-> 0]
    /\ groupWG = [g \in Groups |-> 0]
    /\ results = <<>>
    /\ errored = 0
    /\ requiresFetch = 0
    /\ monitorPc = "off"
    /\ quitSig = 0
    /\ signals = 0
    /\ expired = FALSE
    /\ refetchOwed = FALSE

-----------------------------------------------------------------------------
(* The main goroutine: start().                                            *)

\* Broken: DevInfo's Start without its `go monitorErroredPolls()`.
StartCollectorUnmonitored(c) ==
    /\ mainPc = "starting"
    /\ c \notin started
    /\ started' = started \cup {c}
    /\ pollerPc' = [pollerPc EXCEPT ![c] = "check"]
    /\ groupCount' = [groupCount EXCEPT ![Group(c)] = @ + 1]
    /\ groupWG' = [groupWG EXCEPT ![Group(c)] = @ + 1]
    /\ UNCHANGED <<mainPc, toForward, cleaned, collQuit, pollVars, results,
                   errorVars, envVars>>

\* Start one collector, in the order of a map: any order.  The poller
\* goroutine runs at once, while the others are still being started.
StartCollector(c) ==
    /\ mainPc = "starting"
    /\ c \notin started
    /\ started' = started \cup {c}
    /\ pollerPc' = [pollerPc EXCEPT ![c] = "check"]
    /\ groupCount' = [groupCount EXCEPT ![Group(c)] = @ + 1]
    /\ groupWG' = [groupWG EXCEPT ![Group(c)] = @ + 1]
    /\ monitorPc' = IF c = DevInfo THEN "select" ELSE monitorPc
    /\ UNCHANGED <<mainPc, toForward, cleaned, collQuit, pollVars, results,
                   errored, requiresFetch, refetchOwed, envVars>>

\* Start returns an error: IfErrorExitOrPanic ends the process.
StartFails(c) ==
    /\ mainPc = "starting"
    /\ c \in Fallible \ started
    /\ mainPc' = "panicked"
    /\ OnlyMainMoves

AllStarted ==
    /\ mainPc = "starting"
    /\ started = Instances
    /\ mainPc' = "loop"
    /\ OnlyMainMoves

-----------------------------------------------------------------------------
(* The main goroutine: the loop of Run.                                    *)

\* Broken: the loop forgets the announcers.
MainCheckCollectors ==
    /\ mainPc = "loop"
    /\ mainPc' = IF groupCount["collectors"] > 0 THEN "select" ELSE "cleanUp"
    /\ OnlyMainMoves

\* Counts only fall once every collector is started, and the collectors'
\* count is read first, so reading both in one step loses no outcome.
MainCheck ==
    /\ mainPc = "loop"
    /\ mainPc' = IF groupCount["collectors"] + groupCount["announcers"] > 0
                 THEN "select" ELSE "cleanUp"
    /\ OnlyMainMoves

\* Broken: the announcers' quit channels are left out.
MainTakeSignalForCollectors ==
    /\ mainPc = "select"
    /\ quitSig = 1
    /\ quitSig' = 0
    /\ toForward' = started \ {DevInfo}
    /\ mainPc' = "forward"
    /\ UNCHANGED <<started, cleaned, pollerPc, collQuit, pollVars, groupVars,
                   results, errorVars, signals, expired>>

\* select picks any case that is ready.
MainTakeSignal ==
    /\ mainPc = "select"
    /\ quitSig = 1
    /\ quitSig' = 0
    /\ toForward' = started
    /\ mainPc' = "forward"
    /\ UNCHANGED <<started, cleaned, pollerPc, collQuit, pollVars, groupVars,
                   results, errorVars, signals, expired>>

MainTakeResult ==
    /\ mainPc = "select"
    /\ results # <<>>
    /\ results' = Tail(results)
    /\ mainPc' = IF Head(results) = "err" THEN "sendErrored" ELSE "loop"
    /\ UNCHANGED <<started, toForward, cleaned, pollerPc, collQuit, pollVars,
                   groupVars, errorVars, envVars>>

MainIdle ==
    /\ mainPc = "select"
    /\ quitSig = 0
    /\ results = <<>>
    /\ mainPc' = "loop"
    /\ OnlyMainMoves

\* Blocks while erroredPolls is full.
MainSendErrored ==
    /\ mainPc = "sendErrored"
    /\ errored < PollResultsQueueSize
    /\ errored' = errored + 1
    /\ mainPc' = "loop"
    /\ UNCHANGED <<started, toForward, cleaned, pollerPc, collQuit, pollVars,
                   groupVars, results, requiresFetch, monitorPc, refetchOwed,
                   envVars>>

\* Blocks while the signal sent before is still in that channel.
MainForward(c) ==
    /\ mainPc = "forward"
    /\ c \in toForward
    /\ collQuit[c] = 0
    /\ collQuit' = [collQuit EXCEPT ![c] = 1]
    /\ toForward' = toForward \ {c}
    /\ UNCHANGED <<mainPc, started, cleaned, pollerPc, pollVars, groupVars,
                   results, errorVars, envVars>>

MainForwarded ==
    /\ mainPc = "forward"
    /\ toForward = {}
    /\ mainPc' = "waitCollectors"
    /\ OnlyMainMoves

\* Broken: after a signal, only the collectors are waited for.
MainWaitedForCollectors ==
    /\ mainPc = "waitCollectors"
    /\ groupWG["collectors"] = 0
    /\ mainPc' = "loop"
    /\ OnlyMainMoves

\* The main goroutine receives no poll results while it waits.
MainWaited ==
    /\ \/ /\ mainPc = "waitCollectors"
          /\ groupWG["collectors"] = 0
          /\ mainPc' = "waitAnnouncers"
       \/ /\ mainPc = "waitAnnouncers"
          /\ groupWG["announcers"] = 0
          /\ mainPc' = "loop"
    /\ OnlyMainMoves

-----------------------------------------------------------------------------
(* The main goroutine: cleanUpAll() and callback.CleanUp().                *)

\* In the order of a map.  DevInfo's CleanUp hands os.Kill to the monitor
\* over an unbuffered channel and waits for it to return.
CleanUpCollector(c) ==
    /\ mainPc = "cleanUp"
    /\ c \notin cleaned
    /\ c = DevInfo => monitorPc = "select"
    /\ cleaned' = cleaned \cup {c}
    /\ monitorPc' = IF c = DevInfo THEN "off" ELSE monitorPc
    /\ UNCHANGED <<mainPc, started, toForward, pollerPc, collQuit, pollVars,
                   groupVars, results, errored, requiresFetch, refetchOwed,
                   envVars>>

CleanUpFails(c) ==
    /\ mainPc = "cleanUp"
    /\ c \in Fallible \ cleaned
    /\ mainPc' = "panicked"
    /\ OnlyMainMoves

AllCleaned ==
    /\ mainPc = "cleanUp"
    /\ cleaned = Instances
    /\ mainPc' = "closing"
    /\ OnlyMainMoves

CloseCallback ==
    /\ mainPc = "closing"
    /\ \/ mainPc' = "done"
       \/ Callback \in Fallible /\ mainPc' = "panicked"
    /\ OnlyMainMoves

MainStep ==
    \/ \E c \in Instances :
          \/ StartCollector(c) \/ StartFails(c)
          \/ MainForward(c)
          \/ CleanUpCollector(c) \/ CleanUpFails(c)
    \/ AllStarted
    \/ MainCheck \/ MainTakeSignal \/ MainTakeResult \/ MainIdle
    \/ MainSendErrored
    \/ MainForwarded \/ MainWaited
    \/ AllCleaned \/ CloseCallback

-----------------------------------------------------------------------------
(* The poller goroutine of collector c.                                    *)

\* Broken: an announcer does not notice that it is alone.
ShouldKeepPollingCounted(c) ==
    IF c = DevInfo
    THEN groupCount["collectors"] + groupCount["announcers"] > 0
    ELSE ~expired

\* An announcer polls for as long as some collector does; every other
\* collector, and an announcer on its own, until endTime.
ShouldKeepPolling(c) ==
    IF c = DevInfo /\ Plain # {} THEN groupCount["collectors"] > 0 ELSE ~expired

UnchangedByPoller ==
    UNCHANGED <<mainVars, results, errorVars, envVars>>

\* Broken: one poll more than the limit.
PollerCheckOffByOne(c) ==
    /\ pollerPc[c] = "check"
    /\ pollerPc' = [pollerPc EXCEPT ![c] =
                      IF ~ShouldKeepPolling(c) THEN "drain"
                      ELSE IF pollCount[c] > MaxRunningPolls THEN "full"
                      ELSE "select"]
    /\ UNCHANGED <<collQuit, pollVars, groupVars>>
    /\ UnchangedByPoller

\* The loop condition, and the test for too many running polls.
PollerCheck(c) ==
    /\ pollerPc[c] = "check"
    /\ pollerPc' = [pollerPc EXCEPT ![c] =
                      IF ~ShouldKeepPolling(c) THEN "drain"
                      ELSE IF pollCount[c] >= MaxRunningPolls THEN "full"
                      ELSE "select"]
    /\ UNCHANGED <<collQuit, pollVars, groupVars>>
    /\ UnchangedByPoller

\* Broken: the full poller does not wait.
PollerUnblockedAtOnce(c) ==
    /\ pollerPc[c] = "full"
    /\ pollerPc' = [pollerPc EXCEPT ![c] = "select"]
    /\ UNCHANGED <<collQuit, pollVars, groupVars>>
    /\ UnchangedByPoller

\* runningPolls.Wait() waits for all of them, not for a free place.
PollerUnblocked(c) ==
    /\ pollerPc[c] = "full"
    /\ pollWG[c] = 0
    /\ pollerPc' = [pollerPc EXCEPT ![c] = "select"]
    /\ UNCHANGED <<collQuit, pollVars, groupVars>>
    /\ UnchangedByPoller

PollerQuit(c) ==
    /\ pollerPc[c] = "select"
    /\ collQuit[c] = 1
    /\ collQuit' = [collQuit EXCEPT ![c] = 0]
    /\ pollerPc' = [pollerPc EXCEPT ![c] = "drain"]
    /\ UNCHANGED <<pollVars, groupVars>>
    /\ UnchangedByPoller

\* The quit channel is looked at once a turn: a signal forwarded from here on
\* does not keep the poller from beginning one more poll.
PollerDefault(c) ==
    /\ pollerPc[c] = "select"
    /\ collQuit[c] = 0
    /\ pollerPc' = [pollerPc EXCEPT ![c] = "default"]
    /\ UNCHANGED <<collQuit, pollVars, groupVars>>
    /\ UnchangedByPoller

\* A poll is due: lastPoll is zero, or the poll interval has elapsed.
PollerSpawn(c) ==
    /\ pollerPc[c] = "default"
    /\ pollCount' = [pollCount EXCEPT ![c] = @ + 1]
    /\ pollWG' = [pollWG EXCEPT ![c] = @ + 1]
    /\ polls' = [polls EXCEPT ![c][FirstState(c)] = @ + 1]
    /\ pollerPc' = [pollerPc EXCEPT ![c] = "check"]
    /\ UNCHANGED <<collQuit, groupVars>>
    /\ UnchangedByPoller

\* No poll is due yet.
PollerIdle(c) ==
    /\ pollerPc[c] = "default"
    /\ pollerPc' = [pollerPc EXCEPT ![c] = "check"]
    /\ UNCHANGED <<collQuit, pollVars, groupVars>>
    /\ UnchangedByPoller

\* Broken: the poller ends without waiting for its polls,
PollerDrainedAtOnce(c) ==
    /\ pollerPc[c] = "drain"
    /\ groupCount' = [groupCount EXCEPT ![Group(c)] = @ - 1]
    /\ pollerPc' = [pollerPc EXCEPT ![c] = "counted"]
    /\ UNCHANGED <<collQuit, pollVars, groupWG>>
    /\ UnchangedByPoller

\* or leaves the count of running pollers alone.
PollerDrainedUncounted(c) ==
    /\ pollerPc[c] = "drain"
    /\ pollWG[c] = 0
    /\ pollerPc' = [pollerPc EXCEPT ![c] = "counted"]
    /\ UNCHANGED <<collQuit, pollVars, groupVars>>
    /\ UnchangedByPoller

\* The last runningPolls.Wait(), then the deferred wg.Done(): first the
\* count, then the WaitGroup.
PollerDrained(c) ==
    /\ pollerPc[c] = "drain"
    /\ pollWG[c] = 0
    /\ groupCount' = [groupCount EXCEPT ![Group(c)] = @ - 1]
    /\ pollerPc' = [pollerPc EXCEPT ![c] = "counted"]
    /\ UNCHANGED <<collQuit, pollVars, groupWG>>
    /\ UnchangedByPoller

PollerEnded(c) ==
    /\ pollerPc[c] = "counted"
    /\ groupWG' = [groupWG EXCEPT ![Group(c)] = @ - 1]
    /\ pollerPc' = [pollerPc EXCEPT ![c] = "ended"]
    /\ UNCHANGED <<collQuit, pollVars, groupCount>>
    /\ UnchangedByPoller

PollerStep(c) ==
    \/ PollerCheck(c) \/ PollerUnblocked(c)
    \/ PollerQuit(c) \/ PollerDefault(c)
    \/ PollerSpawn(c) \/ PollerIdle(c)
    \/ PollerDrained(c) \/ PollerEnded(c)

-----------------------------------------------------------------------------
(* The goroutines running Poll for collector c.                            *)

MovePoll(c, from, to) ==
    /\ polls[c][from] > 0
    /\ polls' = [polls EXCEPT ![c][from] = @ - 1, ![c][to] = @ + 1]

UnchangedByPoll ==
    UNCHANGED <<mainVars, pollerPc, collQuit, groupVars, envVars>>

\* The select of DevInfo's poll(): take up a fetch that is asked for, use the
\* stored device information when none is.
DevInfoTakesFetch ==
    /\ requiresFetch = 1
    /\ MovePoll(DevInfo, "choosing", "polling")
    /\ requiresFetch' = 0
    /\ refetchOwed' = FALSE
    /\ UNCHANGED <<pollCount, pollWG, results, errored, monitorPc>>
    /\ UnchangedByPoll

\* Broken: the stored information is used whether a fetch is asked for or not.
DevInfoUsesStoredAlways ==
    /\ MovePoll(DevInfo, "choosing", "polling")
    /\ UNCHANGED <<pollCount, pollWG, results, errorVars>>
    /\ UnchangedByPoll

DevInfoUsesStored ==
    /\ requiresFetch = 0
    /\ MovePoll(DevInfo, "choosing", "polling")
    /\ UNCHANGED <<pollCount, pollWG, results, errorVars>>
    /\ UnchangedByPoll

\* poll() has fetched and called the callback, with an error or without.
\* resultsChan <- PollResult blocks while pollResults is full.
PollReports(c) ==
    /\ Len(results) < PollResultsQueueSize
    /\ MovePoll(c, "polling", "returning")
    /\ \E outcome \in Outcomes : results' = Append(results, outcome)
    /\ UNCHANGED <<pollCount, pollWG, errorVars>>
    /\ UnchangedByPoll

\* The deferred wg.Done(): first the count, then the WaitGroup.  Without the
\* bound a poller could begin any number of polls before the second step of
\* the first.
PollUncounted(c) ==
    /\ polls[c]["leaving"] < MaxLeaving
    /\ MovePoll(c, "returning", "leaving")
    /\ pollCount' = [pollCount EXCEPT ![c] = @ - 1]
    /\ UNCHANGED <<pollWG, results, errorVars>>
    /\ UnchangedByPoll

PollLeaves(c) ==
    /\ polls[c]["leaving"] > 0
    /\ polls' = [polls EXCEPT ![c]["leaving"] = @ - 1]
    /\ pollWG' = [pollWG EXCEPT ![c] = @ - 1]
    /\ UNCHANGED <<pollCount, results, errorVars>>
    /\ UnchangedByPoll

PollStep(c) ==
    \/ c = DevInfo /\ (DevInfoTakesFetch \/ DevInfoUsesStored)
    \/ PollReports(c)
    \/ PollUncounted(c) \/ PollLeaves(c)

-----------------------------------------------------------------------------
(* DevInfo's monitorErroredPolls.                                          *)

UnchangedByMonitor ==
    UNCHANGED <<mainVars, pollerPc, collQuit, pollVars, groupVars, results,
                envVars>>

\* Broken: the length of requiresFetch is not looked at,
MonitorReceivesBlindly ==
    /\ monitorPc = "select"
    /\ errored > 0
    /\ errored' = errored - 1
    /\ monitorPc' = "send"
    /\ refetchOwed' = TRUE
    /\ UNCHANGED requiresFetch
    /\ UnchangedByMonitor

\* or looked at the wrong way round.
MonitorReceivesInverted ==
    /\ monitorPc = "select"
    /\ errored > 0
    /\ errored' = errored - 1
    /\ monitorPc' = IF requiresFetch = 0 THEN "select" ELSE "send"
    /\ refetchOwed' = TRUE
    /\ UNCHANGED requiresFetch
    /\ UnchangedByMonitor

\* Errors reported while a fetch is asked for already are dropped.
MonitorReceives ==
    /\ monitorPc = "select"
    /\ errored > 0
    /\ errored' = errored - 1
    /\ monitorPc' = IF requiresFetch = 0 THEN "send" ELSE "select"
    /\ refetchOwed' = TRUE
    /\ UNCHANGED requiresFetch
    /\ UnchangedByMonitor

\* requiresFetch <- true blocks while its one place is taken.
MonitorSends ==
    /\ monitorPc = "send"
    /\ requiresFetch = 0
    /\ requiresFetch' = 1
    /\ monitorPc' = "select"
    /\ UNCHANGED <<errored, refetchOwed>>
    /\ UnchangedByMonitor

MonitorStep == MonitorReceives \/ MonitorSends

-----------------------------------------------------------------------------
(* The end of the requested duration, and the signals sent to the process. *)

UnchangedByWorld ==
    UNCHANGED <<mainVars, pollerPc, collQuit, pollVars, groupVars, results,
                errorVars>>

Expire ==
    /\ ~expired
    /\ expired' = TRUE
    /\ UNCHANGED <<quitSig, signals>>
    /\ UnchangedByWorld

\* signal.Notify drops a signal when the channel is full.
Signal ==
    /\ signals < MaxSignals
    /\ signals' = signals + 1
    /\ quitSig' = 1
    /\ UNCHANGED <<expired>>
    /\ UnchangedByWorld

Running == mainPc \notin {"done", "panicked"}

\* Every goroutine ends with the process.
Ended == ~Running /\ UNCHANGED vars

Next ==
    \/ MainStep
    \/ Running /\ \E c \in Instances : PollerStep(c) \/ PollStep(c)
    \/ Running /\ (MonitorStep \/ Expire \/ Signal)
    \/ Ended

Spec == Init /\ [][Next]_vars

-----------------------------------------------------------------------------
(* Fairness: the Go scheduler runs every goroutine that can run, a command *)
(* run in the cluster returns, poll intervals elapse, a select that finds  *)
(* its signal case ready again and again takes it in the end, and senders  *)
(* blocked on a channel are served in the order they came.                 *)

Fairness ==
    /\ WF_vars(MainStep)
    /\ SF_vars(MainTakeSignal)
    /\ WF_vars(Running /\ MonitorStep)
    /\ \A c \in Instances :
          /\ WF_vars(Running /\ PollerStep(c))
          /\ SF_vars(Running /\ PollerSpawn(c))
          /\ WF_vars(Running /\ PollStep(c))
          /\ SF_vars(Running /\ PollReports(c))

FairSpec == Spec /\ Fairness

-----------------------------------------------------------------------------
(* Properties.                                                             *)

Unsent(c) == polls[c]["choosing"] + polls[c]["polling"]

TypeOK ==
    /\ mainPc \in MainStates
    /\ started \subseteq Instances
    /\ toForward \subseteq Instances
    /\ cleaned \subseteq Instances
    /\ pollerPc \in [Instances -> PollerStates]
    /\ collQuit \in [Instances -> 0..1]
    /\ polls \in [Instances -> [PollStates -> Nat]]
    /\ pollCount \in [Instances -> 0..MaxRunningPolls]
    /\ pollWG \in [Instances -> Nat]
    /\ groupCount \in [Groups -> Nat]
    /\ groupWG \in [Groups -> Nat]
    /\ results \in Seq(Outcomes)
    /\ Len(results) <= PollResultsQueueSize
    /\ errored \in 0..PollResultsQueueSize
    /\ requiresFetch \in 0..1
    /\ monitorPc \in MonitorStates
    /\ quitSig \in 0..1
    /\ signals \in 0..MaxSignals
    /\ expired \in BOOLEAN
    /\ refetchOwed \in BOOLEAN

\* When Run cleans the collectors up, no poll goroutine of any collector is
\* left (runner.go, the runningPolls.Wait() of poller and the counts the loop
\* of Run reads): the two steps of each Done() leave no gap for one.
NoPollOutlivesCleanUp ==
    mainPc \in {"cleanUp", "closing", "done"} =>
        \A c \in Instances : polls[c] = NoPolls

\* monitorErroredPolls never blocks on requiresFetch (dev_info_collector.go,
\* the comment on a potential deadlock): the length it read is still right
\* when it sends.
MonitorNeverBlocks == monitorPc = "send" => requiresFetch = 0

\* An error reported to the monitor is never forgotten: until a DevInfo poll
\* takes up a fetch, one is asked for or about to be.
FetchNotForgotten == refetchOwed => requiresFetch = 1 \/ monitorPc = "send"

\* Forwarding a signal to the pollers never blocks Run, even when some of
\* them have ended and never read their channel.
ForwardingNeverBlocks ==
    mainPc = "forward" => \A c \in toForward : collQuit[c] = 0

\* The inductive invariant behind the four properties above.  The counts of a
\* poller stand for its poll goroutines, and one below the limit is left to
\* begin another with;
PollsCounted ==
    \A c \in Instances :
        /\ pollCount[c] = Unsent(c) + polls[c]["returning"]
        /\ pollWG[c] = pollCount[c] + polls[c]["leaving"]
        /\ pollerPc[c] \in {"select", "default"} => pollCount[c] < MaxRunningPolls
        /\ pollerPc[c] \in {"none", "counted", "ended"} => pollWG[c] = 0

\* the counts of a group stand for its poller goroutines;
PollersIn(pcs, g, states) ==
    {c \in Instances : Group(c) = g /\ pcs[c] \in states}
Live == {"check", "full", "select", "default", "drain"}
Waited == Live \cup {"counted"}

PollersCounted ==
    \A g \in Groups :
        /\ groupCount[g] = Cardinality(PollersIn(pollerPc, g, Live))
        /\ groupWG[g] = Cardinality(PollersIn(pollerPc, g, Waited))

\* every collector has a poller from its start on, and Run gets to clean-up
\* only when none is counted;
RunOrdered ==
    /\ \A c \in Instances : c \in started <=> pollerPc[c] # "none"
    /\ DevInfo \notin started => monitorPc = "off"
    /\ mainPc \notin {"starting", "panicked"} => started = Instances
    /\ mainPc \in {"cleanUp", "closing", "done"} =>
          \A g \in Groups : groupCount[g] = 0
    /\ mainPc \in {"closing", "done"} => cleaned = Instances
    /\ mainPc \in MainStates \ {"cleanUp", "closing", "done", "panicked"} =>
          cleaned = {}

\* a signal is forwarded once: afterwards Run waits until every poller has
\* ended, so it never gets to take a second one.
ForwardedOnce ==
    /\ mainPc \in {"starting", "select", "sendErrored"} =>
          \A c \in Instances : collQuit[c] = 0
    /\ mainPc = "loop" => \/ \A c \in Instances : collQuit[c] = 0
                          \/ \A g \in Groups : groupWG[g] = 0
    /\ mainPc = "waitAnnouncers" => groupWG["collectors"] = 0

IInv ==
    /\ TypeOK
    /\ PollsCounted
    /\ PollersCounted
    /\ RunOrdered
    /\ ForwardedOnce
    /\ MonitorNeverBlocks
    /\ FetchNotForgotten
    /\ ForwardingNeverBlocks

\* The run implements the abstract life cycle of CollectionLifecycle.
Phase ==
    CASE mainPc \in {"cleanUp", "closing"} -> "closing"
      [] mainPc = "done" -> "closed"
      [] mainPc = "panicked" -> "aborted"
      [] OTHER -> "collecting"

Lifecycle == INSTANCE CollectionLifecycle WITH
    Collectors <- Instances,
    MaxInFlight <- MaxRunningPolls,
    phase <- Phase,
    acquired <- started,
    inFlight <- pollCount,
    released <- cleaned

\* A collector is polled only between its Start and its clean-up, never by
\* more than maxRunningPolls goroutines, and all of them are cleaned up once,
\* after the last poll of any of them (Run, start, poller and cleanUpAll).
LifecycleSpec == Lifecycle!LifecycleSpec

\* Without signals and failures, Run returns once the duration has passed.
RunEnds == expired ~> mainPc = "done" \/ signals > 0

\* Handing an error to the monitor never blocks the main loop for good (the
\* comments on erroredPolls in runner.go and dev_info_collector.go).
ErrorsNeverBlockMain == mainPc = "sendErrored" ~> mainPc = "loop"

\* An error leads to the device information being fetched anew, unless
\* DevInfo stops polling first or a signal comes.
ErrorLeadsToFetch ==
    refetchOwed ~> \/ ~refetchOwed \/ signals > 0
                   \/ pollerPc[DevInfo] \in {"drain", "counted", "ended"}

\* The results of collector c that are still to be sent once a signal has been
\* forwarded: a poller that had passed its select may begin one more poll.
StillToCome(c) == Unsent(c) + IF pollerPc[c] = "default" THEN 1 ELSE 0

\* A shutdown completes when the results still to come fit in pollResults,
\* which the main goroutine no longer reads.
ShutdownEndsWhenResultsFit ==
    (/\ mainPc = "waitCollectors"
     /\ Len(results) + MapThenSumSet(StillToCome, Instances)
           <= PollResultsQueueSize)
    ~> mainPc = "done"

-----------------------------------------------------------------------------
(* Statements of the sources that the code does not keep.                  *)

\* "Allow ourselves to handle shut down gracefully" (runner.go:28): a signal
\* ends the run.  It does not when the running polls have more results than
\* pollResults has room for, as Run waits without receiving any.
SignalEndsRun == quitSig = 1 ~> mainPc = "done"

\* "finally cleans up the collectors when exiting" (runner.go:219): when the
\* process ends, every collector that was started was cleaned up.  It is not
\* when another collector's Start or CleanUp fails.  No run checks this
\* statement.
ExitCleansUp == ~Running => started \subseteq cleaned

\* "interval at which to emit the device info summary" (collect.go:126): the
\* announcer keeps polling while a collector does, unless a signal came.  It
\* stops at once when the map order of start() puts it before the collectors.
\* No run checks this statement.
AnnouncerOutlivesCollectors ==
    (signals = 0 /\ pollerPc[DevInfo] \in {"drain", "counted", "ended"}) =>
        \A c \in Plain : pollerPc[c] \notin Live \ {"drain"}
==============================================================================
