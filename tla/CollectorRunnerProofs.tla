----------------------- MODULE CollectorRunnerProofs -----------------------
(* Proofs about CollectorRunner, for every value of its constants.         *)
EXTENDS CollectorRunner, FiniteSetTheorems, TLAPS

(* A poll that moves on leaves one place and takes another.                *)
LEMMA MovePollMoves ==
    ASSUME NEW c \in Instances, NEW from \in PollStates, NEW to \in PollStates,
           from # to, polls \in [Instances -> [PollStates -> Nat]],
           MovePoll(c, from, to)
    PROVE  /\ polls' \in [Instances -> [PollStates -> Nat]]
           /\ polls[c][from] > 0
           /\ polls'[c][from] = polls[c][from] - 1
           /\ polls'[c][to] = polls[c][to] + 1
           /\ \A s \in PollStates \ {from, to} : polls'[c][s] = polls[c][s]
           /\ \A d \in Instances \ {c} : polls'[d] = polls[d]
BY DEF MovePoll

LEMMA InitIInv == Init => IInv
<1> SUFFICES ASSUME Init PROVE IInv
    OBVIOUS
<1> USE InstancesAssumption, BoundsAssumption
<1>1. TypeOK
    <2>1. /\ mainPc \in MainStates /\ started \subseteq Instances
          /\ toForward \subseteq Instances /\ cleaned \subseteq Instances
          /\ monitorPc \in MonitorStates
        BY DEF Init, MainStates, MonitorStates
    <2>2. /\ pollerPc \in [Instances -> PollerStates]
          /\ collQuit \in [Instances -> 0..1]
          /\ polls \in [Instances -> [PollStates -> Nat]]
          /\ pollCount \in [Instances -> 0..MaxRunningPolls]
          /\ pollWG \in [Instances -> Nat]
          /\ groupCount \in [Groups -> Nat] /\ groupWG \in [Groups -> Nat]
        BY DEF Init, PollerStates, NoPolls
    <2>3. results \in Seq(Outcomes) /\ Len(results) <= PollResultsQueueSize
        BY DEF Init
    <2>4. /\ errored \in 0..PollResultsQueueSize /\ requiresFetch \in 0..1
          /\ quitSig \in 0..1 /\ signals \in 0..MaxSignals
        BY DEF Init
    <2>5. expired \in BOOLEAN /\ refetchOwed \in BOOLEAN
        BY Zenon DEF Init
    <2> QED
        BY <2>1, <2>2, <2>3, <2>4, <2>5 DEF TypeOK
<1>2. PollsCounted
    BY DEF Init, PollsCounted, Unsent, NoPolls, PollStates
<1>3. PollersCounted
    <2> SUFFICES ASSUME NEW g \in Groups
                 PROVE  /\ groupCount[g] = Cardinality(PollersIn(pollerPc, g, Live))
                        /\ groupWG[g] = Cardinality(PollersIn(pollerPc, g, Waited))
        BY DEF PollersCounted
    <2>1. PollersIn(pollerPc, g, Live) = {} /\ PollersIn(pollerPc, g, Waited) = {}
        BY DEF Init, PollersIn, Live, Waited
    <2> QED
        BY <2>1, FS_EmptySet DEF Init
<1>4. RunOrdered /\ ForwardedOnce
    BY DEF Init, RunOrdered, ForwardedOnce
<1>5. MonitorNeverBlocks /\ FetchNotForgotten /\ ForwardingNeverBlocks
    BY DEF Init, MonitorNeverBlocks, FetchNotForgotten, ForwardingNeverBlocks
<1> QED
    BY <1>1, <1>2, <1>3, <1>4, <1>5 DEF IInv

-----------------------------------------------------------------------------
(* Steps of the main goroutine.                                            *)

LEMMA PollsCountedUnchanged ==
    ASSUME PollsCounted, UNCHANGED <<pollerPc, pollVars>>
    PROVE  PollsCounted'
BY DEF PollsCounted, pollVars, Unsent

LEMMA PollersCountedUnchanged ==
    ASSUME PollersCounted, UNCHANGED <<pollerPc, groupVars>>
    PROVE  PollersCounted'
BY DEF PollersCounted, PollersIn, groupVars

(* A step that moves only the main goroutine disturbs only what relates    *)
(* mainPc to the rest.                                                     *)
LEMMA OnlyMainMovesIInv ==
    ASSUME IInv, OnlyMainMoves, mainPc' \in MainStates,
           RunOrdered', ForwardedOnce', ForwardingNeverBlocks'
    PROVE  IInv'
<1>1. TypeOK'
    BY DEF IInv, TypeOK, OnlyMainMoves, pollVars, groupVars, errorVars, envVars
<1>2. PollsCounted' /\ PollersCounted'
    BY PollsCountedUnchanged, PollersCountedUnchanged DEF IInv, OnlyMainMoves
<1>3. MonitorNeverBlocks' /\ FetchNotForgotten'
    BY DEF IInv, MonitorNeverBlocks, FetchNotForgotten, OnlyMainMoves, errorVars
<1> QED
    BY <1>1, <1>2, <1>3 DEF IInv

(* The quit channels are empty, or every poller has ended, when Run checks *)
(* its counts; a count of zero comes first.                                *)
LEMMA CountedAreWaitedFor ==
    ASSUME TypeOK, PollersCounted, NEW g \in Groups, groupWG[g] = 0
    PROVE  groupCount[g] = 0
<1> DEFINE L == PollersIn(pollerPc, g, Live)
           W == PollersIn(pollerPc, g, Waited)
<1>1. IsFiniteSet(W) /\ L \subseteq W
    BY InstancesAssumption, FS_Subset, FS_Singleton, FS_Union
       DEF PollersIn, Instances, Live, Waited
<1>2. Cardinality(L) <= Cardinality(W) /\ Cardinality(L) \in Nat
    BY <1>1, FS_Subset, FS_CardinalityType
<1> QED
    BY <1>2 DEF PollersCounted, TypeOK

LEMMA MainOnlyStepIInv ==
    ASSUME IInv,
           \/ \E c \in Instances : StartFails(c) \/ CleanUpFails(c)
           \/ AllStarted \/ MainCheck \/ MainIdle \/ MainForwarded
           \/ MainWaited \/ AllCleaned \/ CloseCallback
    PROVE  IInv'
<1> DEFINE Goal == mainPc' \in MainStates /\ RunOrdered' /\ ForwardedOnce'
                   /\ ForwardingNeverBlocks'
<1>0. SUFFICES Goal
    <2>1. OnlyMainMoves
        BY DEF StartFails, CleanUpFails, AllStarted, MainCheck, MainIdle,
               MainForwarded, MainWaited, AllCleaned, CloseCallback
    <2> QED
        BY <2>1, OnlyMainMovesIInv
<1> USE DEF IInv, MainStates, RunOrdered, ForwardedOnce, ForwardingNeverBlocks,
            OnlyMainMoves, groupVars, errorVars
<1>1. ASSUME NEW c \in Instances, StartFails(c) \/ CleanUpFails(c)
      PROVE  Goal
    BY <1>1 DEF StartFails, CleanUpFails
<1>2. CASE AllStarted
    BY <1>2 DEF AllStarted
<1>3. CASE MainCheck
    <2>1. CASE groupCount["collectors"] + groupCount["announcers"] > 0
        <3>1. mainPc' = "select"
            BY <1>3, <2>1 DEF MainCheck
        <3>2. ~\A g \in Groups : groupWG[g] = 0
            BY <2>1, CountedAreWaitedFor DEF Groups
        <3>3. \A c \in Instances : collQuit[c] = 0
            BY <1>3, <3>2 DEF MainCheck
        <3> QED
            BY <1>3, <3>1, <3>3 DEF MainCheck
    <2>2. CASE ~(groupCount["collectors"] + groupCount["announcers"] > 0)
        <3>1. \A g \in Groups : groupCount[g] = 0
            BY <2>2 DEF Groups, TypeOK
        <3> QED
            BY <1>3, <2>2, <3>1 DEF MainCheck
    <2> QED
        BY <2>1, <2>2
<1>4. CASE MainIdle
    BY <1>4 DEF MainIdle
<1>5. CASE MainForwarded
    BY <1>5 DEF MainForwarded
<1>6. CASE MainWaited
    BY <1>6 DEF MainWaited, Groups
<1>7. CASE AllCleaned
    BY <1>7 DEF AllCleaned
<1>8. CASE CloseCallback
    BY <1>8 DEF CloseCallback
<1> QED
    <2> HIDE DEF Goal
    <2> QED
        BY <1>1, <1>2, <1>3, <1>4, <1>5, <1>6, <1>7, <1>8

LEMMA GroupType == \A c : Group(c) \in Groups
BY DEF Group, Groups

LEMMA PollersInFinite ==
    ASSUME NEW pcs, NEW g, NEW states
    PROVE  /\ IsFiniteSet(PollersIn(pcs, g, states))
           /\ Cardinality(PollersIn(pcs, g, states)) \in Nat
<1>1. IsFiniteSet(PollersIn(pcs, g, states))
    BY InstancesAssumption, FS_Subset, FS_Singleton, FS_Union
       DEF PollersIn, Instances
<1> QED
    BY <1>1, FS_CardinalityType

(* The pollers of a group when that of c changes its state: another group, *)
(* or no change;                                                           *)
LEMMA PollersInStay ==
    ASSUME NEW pcs, NEW next, NEW c \in Instances, NEW g, NEW states,
           \A d \in Instances \ {c} : next[d] = pcs[d],
           Group(c) # g \/ (pcs[c] \in states <=> next[c] \in states)
    PROVE  PollersIn(next, g, states) = PollersIn(pcs, g, states)
BY DEF PollersIn

(* one more;                                                               *)
LEMMA PollersInGain ==
    ASSUME NEW pcs, NEW next, NEW c \in Instances, NEW g, NEW states,
           \A d \in Instances \ {c} : next[d] = pcs[d],
           Group(c) = g, pcs[c] \notin states, next[c] \in states
    PROVE  Cardinality(PollersIn(next, g, states))
             = Cardinality(PollersIn(pcs, g, states)) + 1
<1>1. /\ PollersIn(next, g, states) = PollersIn(pcs, g, states) \cup {c}
      /\ c \notin PollersIn(pcs, g, states)
    BY DEF PollersIn
<1> QED
    BY <1>1, PollersInFinite, FS_AddElement

(* one less.                                                               *)
LEMMA PollersInLose ==
    ASSUME NEW pcs, NEW next, NEW c \in Instances, NEW g, NEW states,
           \A d \in Instances \ {c} : next[d] = pcs[d],
           Group(c) = g, pcs[c] \in states, next[c] \notin states
    PROVE  Cardinality(PollersIn(pcs, g, states))
             = Cardinality(PollersIn(next, g, states)) + 1
BY PollersInGain

LEMMA StartCollectorIInv ==
    ASSUME IInv, NEW c \in Instances, StartCollector(c)
    PROVE  IInv'
<1>1. TypeOK'
    <2>1. /\ pollerPc' \in [Instances -> PollerStates]
          /\ groupCount' \in [Groups -> Nat] /\ groupWG' \in [Groups -> Nat]
        BY GroupType DEF IInv, TypeOK, StartCollector, PollerStates
    <2>2. monitorPc' \in MonitorStates
        BY DEF IInv, TypeOK, StartCollector, MonitorStates
    <2> QED
        BY <2>1, <2>2 DEF IInv, TypeOK, StartCollector, pollVars, envVars
<1>2. /\ pollerPc[c] = "none" /\ pollerPc'[c] = "check"
      /\ \A d \in Instances \ {c} : pollerPc'[d] = pollerPc[d]
    BY DEF IInv, TypeOK, RunOrdered, StartCollector
<1>3. PollsCounted'
    BY <1>2 DEF IInv, TypeOK, PollsCounted, Unsent, StartCollector, pollVars
<1>4. PollersCounted'
    <2> SUFFICES ASSUME NEW g \in Groups
                 PROVE  /\ groupCount'[g] = Cardinality(PollersIn(pollerPc', g, Live))
                        /\ groupWG'[g]
                              = Cardinality(PollersIn(pollerPc', g, Waited))
        BY DEF PollersCounted
    <2>1. /\ "none" \notin Live /\ "none" \notin Waited
          /\ "check" \in Live /\ "check" \in Waited
        BY DEF Live, Waited
    <2>2. /\ groupCount[g] = Cardinality(PollersIn(pollerPc, g, Live))
          /\ groupWG[g] = Cardinality(PollersIn(pollerPc, g, Waited))
        BY DEF IInv, PollersCounted
    <2>3. CASE g = Group(c)
        <3>1. /\ groupCount'[g] = groupCount[g] + 1
              /\ groupWG'[g] = groupWG[g] + 1
            BY <2>3, GroupType DEF IInv, TypeOK, StartCollector
        <3>2. /\ Cardinality(PollersIn(pollerPc', g, Live))
                    = Cardinality(PollersIn(pollerPc, g, Live)) + 1
              /\ Cardinality(PollersIn(pollerPc', g, Waited))
                    = Cardinality(PollersIn(pollerPc, g, Waited)) + 1
            BY <1>2, <2>1, <2>3, PollersInGain
        <3> QED
            BY <2>2, <3>1, <3>2
    <2>4. CASE g # Group(c)
        <3>1. /\ groupCount'[g] = groupCount[g]
              /\ groupWG'[g] = groupWG[g]
            BY <2>4, GroupType DEF IInv, TypeOK, StartCollector
        <3>2. /\ Cardinality(PollersIn(pollerPc', g, Live))
                    = Cardinality(PollersIn(pollerPc, g, Live))
              /\ Cardinality(PollersIn(pollerPc', g, Waited))
                    = Cardinality(PollersIn(pollerPc, g, Waited))
            BY <1>2, <2>4, PollersInStay
        <3> QED
            BY <2>2, <3>1, <3>2
    <2> QED
        BY <2>3, <2>4
<1>5. RunOrdered'
    BY <1>2 DEF IInv, TypeOK, RunOrdered, StartCollector, MainStates
<1>6. ForwardedOnce' /\ ForwardingNeverBlocks'
    BY DEF IInv, ForwardedOnce, ForwardingNeverBlocks, StartCollector
<1>7. MonitorNeverBlocks' /\ FetchNotForgotten'
    BY DEF IInv, RunOrdered, MonitorNeverBlocks, FetchNotForgotten,
           StartCollector
<1> QED
    BY <1>1, <1>3, <1>4, <1>5, <1>6, <1>7 DEF IInv

LEMMA MainTakeSignalIInv == IInv /\ MainTakeSignal => IInv'
<1> SUFFICES ASSUME IInv, MainTakeSignal PROVE IInv'
    OBVIOUS
<1> USE DEF MainTakeSignal
<1>1. TypeOK'
    BY DEF IInv, TypeOK, MainStates, pollVars, groupVars, errorVars
<1>2. PollsCounted' /\ PollersCounted'
    BY PollsCountedUnchanged, PollersCountedUnchanged DEF IInv
<1>3. RunOrdered'
    BY DEF IInv, RunOrdered, MainStates, groupVars, errorVars
<1>4. ForwardedOnce' /\ ForwardingNeverBlocks'
    BY DEF IInv, TypeOK, ForwardedOnce, ForwardingNeverBlocks
<1>5. MonitorNeverBlocks' /\ FetchNotForgotten'
    BY DEF IInv, MonitorNeverBlocks, FetchNotForgotten, errorVars
<1> QED
    BY <1>1, <1>2, <1>3, <1>4, <1>5 DEF IInv

LEMMA MainQueuesIInv == IInv /\ (MainTakeResult \/ MainSendErrored) => IInv'
<1> SUFFICES ASSUME IInv, MainTakeResult \/ MainSendErrored PROVE IInv'
    OBVIOUS
<1> USE DEF MainTakeResult, MainSendErrored
<1>1. TypeOK'
    <2>1. results' \in Seq(Outcomes) /\ Len(results') <= PollResultsQueueSize
        <3>1. CASE MainTakeResult
            BY <3>1, BoundsAssumption DEF IInv, TypeOK
        <3>2. CASE MainSendErrored
            BY <3>2 DEF IInv, TypeOK
        <3> QED
            BY <3>1, <3>2
    <2>2. errored' \in 0..PollResultsQueueSize
        BY BoundsAssumption DEF IInv, TypeOK, errorVars
    <2> QED
        BY <2>1, <2>2
           DEF IInv, TypeOK, MainStates, pollVars, groupVars, errorVars, envVars
<1>2. PollsCounted' /\ PollersCounted'
    BY PollsCountedUnchanged, PollersCountedUnchanged DEF IInv
<1>3. RunOrdered'
    BY DEF IInv, RunOrdered, MainStates, groupVars, errorVars
<1>4. ForwardedOnce' /\ ForwardingNeverBlocks'
    BY DEF IInv, ForwardedOnce, ForwardingNeverBlocks
<1>5. MonitorNeverBlocks' /\ FetchNotForgotten'
    BY DEF IInv, MonitorNeverBlocks, FetchNotForgotten, errorVars
<1> QED
    BY <1>1, <1>2, <1>3, <1>4, <1>5 DEF IInv

LEMMA MainForwardIInv ==
    ASSUME IInv, NEW c \in Instances, MainForward(c)
    PROVE  IInv'
<1> USE DEF MainForward
<1>1. TypeOK'
    BY DEF IInv, TypeOK, pollVars, groupVars, errorVars, envVars
<1>2. PollsCounted' /\ PollersCounted'
    BY PollsCountedUnchanged, PollersCountedUnchanged DEF IInv
<1>3. RunOrdered'
    BY DEF IInv, RunOrdered, groupVars, errorVars
<1>4. ForwardedOnce' /\ ForwardingNeverBlocks'
    BY DEF IInv, TypeOK, ForwardedOnce, ForwardingNeverBlocks
<1>5. MonitorNeverBlocks' /\ FetchNotForgotten'
    BY DEF IInv, MonitorNeverBlocks, FetchNotForgotten, errorVars
<1> QED
    BY <1>1, <1>2, <1>3, <1>4, <1>5 DEF IInv

LEMMA CleanUpCollectorIInv ==
    ASSUME IInv, NEW c \in Instances, CleanUpCollector(c)
    PROVE  IInv'
<1> USE DEF CleanUpCollector
<1>1. TypeOK'
    BY DEF IInv, TypeOK, MonitorStates, pollVars, groupVars, envVars
<1>2. PollsCounted' /\ PollersCounted'
    BY PollsCountedUnchanged, PollersCountedUnchanged DEF IInv
<1>3. RunOrdered'
    BY DEF IInv, RunOrdered, groupVars, MainStates
<1>4. ForwardedOnce' /\ ForwardingNeverBlocks'
    BY DEF IInv, ForwardedOnce, ForwardingNeverBlocks
<1>5. MonitorNeverBlocks' /\ FetchNotForgotten'
    BY DEF IInv, MonitorNeverBlocks, FetchNotForgotten
<1> QED
    BY <1>1, <1>2, <1>3, <1>4, <1>5 DEF IInv

LEMMA MainStepIInv == IInv /\ MainStep => IInv'
BY MainOnlyStepIInv, StartCollectorIInv, MainTakeSignalIInv, MainQueuesIInv,
   MainForwardIInv, CleanUpCollectorIInv DEF MainStep

-----------------------------------------------------------------------------
(* Steps of a poller goroutine.                                            *)

LEMMA MonitorUnchanged ==
    ASSUME MonitorNeverBlocks, FetchNotForgotten, UNCHANGED errorVars
    PROVE  MonitorNeverBlocks' /\ FetchNotForgotten'
BY DEF MonitorNeverBlocks, FetchNotForgotten, errorVars

(* The steps in the loop: the poller stays counted, so what does not       *)
(* concern its polls is kept.                                              *)
LEMMA PollerInLoop ==
    ASSUME IInv, NEW c \in Instances,
           pollerPc[c] \in Live, pollerPc'[c] \in Live,
           pollerPc' \in [Instances -> PollerStates],
           \A d \in Instances \ {c} : pollerPc'[d] = pollerPc[d],
           \A d \in Instances : collQuit'[d] = collQuit[d] \/ collQuit'[d] = 0,
           UNCHANGED groupVars, UnchangedByPoller,
           TypeOK', PollsCounted'
    PROVE  IInv'
<1>1. PollersCounted'
    <2>1. \A g \in Groups :
             /\ PollersIn(pollerPc', g, Live) = PollersIn(pollerPc, g, Live)
             /\ PollersIn(pollerPc', g, Waited) = PollersIn(pollerPc, g, Waited)
        BY PollersInStay DEF Waited
    <2> QED
        BY <2>1 DEF IInv, PollersCounted, groupVars
<1>2. RunOrdered'
    BY DEF IInv, TypeOK, RunOrdered, Live, UnchangedByPoller, mainVars,
           groupVars, errorVars
<1>3. ForwardedOnce' /\ ForwardingNeverBlocks'
    BY DEF IInv, TypeOK, ForwardedOnce, ForwardingNeverBlocks,
           UnchangedByPoller, mainVars, groupVars
<1>4. MonitorNeverBlocks' /\ FetchNotForgotten'
    BY MonitorUnchanged DEF IInv, UnchangedByPoller
<1> QED
    BY <1>1, <1>2, <1>3, <1>4 DEF IInv

LEMMA PollerSpawnIInv ==
    ASSUME IInv, NEW c \in Instances, PollerSpawn(c)
    PROVE  IInv'
<1>1. pollCount[c] < MaxRunningPolls
    BY DEF IInv, PollsCounted, PollerSpawn
<1>2. /\ pollCount'[c] = pollCount[c] + 1
      /\ pollWG'[c] = pollWG[c] + 1
      /\ polls'[c][FirstState(c)] = polls[c][FirstState(c)] + 1
      /\ \A s \in PollStates \ {FirstState(c)} : polls'[c][s] = polls[c][s]
      /\ \A d \in Instances \ {c} : /\ pollCount'[d] = pollCount[d]
                                   /\ pollWG'[d] = pollWG[d]
                                   /\ polls'[d] = polls[d]
    BY DEF IInv, TypeOK, PollerSpawn, FirstState, PollStates
<1>3. /\ pollerPc[c] \in Live /\ pollerPc'[c] = "check"
      /\ pollerPc' \in [Instances -> PollerStates]
      /\ \A d \in Instances \ {c} : pollerPc'[d] = pollerPc[d]
    BY DEF IInv, TypeOK, PollerSpawn, PollerStates, Live
<1>4. TypeOK'
    <2>1. FirstState(c) \in PollStates
        BY DEF FirstState, PollStates
    <2>2. /\ polls' \in [Instances -> [PollStates -> Nat]]
          /\ pollCount' \in [Instances -> 0..MaxRunningPolls]
          /\ pollWG' \in [Instances -> Nat]
        BY <1>1, <2>1, BoundsAssumption DEF IInv, TypeOK, PollerSpawn
    <2> QED
        BY <1>3, <2>2
           DEF IInv, TypeOK, PollerSpawn, UnchangedByPoller, mainVars,
               groupVars, errorVars, envVars
<1>5. PollsCounted'
    <2> SUFFICES ASSUME NEW d \in Instances
                 PROVE  /\ pollCount'[d] = Unsent(d)' + polls'[d]["returning"]
                        /\ pollWG'[d] = pollCount'[d] + polls'[d]["leaving"]
                        /\ pollerPc'[d] \in {"select", "default"} =>
                              pollCount'[d] < MaxRunningPolls
                        /\ pollerPc'[d] \in {"none", "counted", "ended"} =>
                              pollWG'[d] = 0
        BY DEF PollsCounted
    <2>1. CASE d = c
        <3>1. /\ polls[c] \in [PollStates -> Nat]
              /\ pollCount[c] \in Nat /\ pollWG[c] \in Nat
            BY BoundsAssumption DEF IInv, TypeOK
        <3>2. /\ pollCount[c] = Unsent(c) + polls[c]["returning"]
              /\ pollWG[c] = pollCount[c] + polls[c]["leaving"]
            BY DEF IInv, PollsCounted
        <3>3. CASE FirstState(c) = "choosing"
            BY <1>2, <1>3, <2>1, <3>1, <3>2, <3>3 DEF Unsent, PollStates
        <3>4. CASE FirstState(c) = "polling"
            BY <1>2, <1>3, <2>1, <3>1, <3>2, <3>4 DEF Unsent, PollStates
        <3> QED
            BY <3>3, <3>4 DEF FirstState
    <2>2. CASE d # c
        BY <1>2, <1>3, <2>2 DEF IInv, PollsCounted, Unsent
    <2> QED
        BY <2>1, <2>2
<1> QED
    BY <1>3, <1>4, <1>5, PollerInLoop DEF PollerSpawn, Live

LEMMA PollerLoopsIInv ==
    ASSUME IInv, NEW c \in Instances,
           \/ PollerCheck(c) \/ PollerUnblocked(c)
           \/ PollerQuit(c) \/ PollerDefault(c) \/ PollerIdle(c)
    PROVE  IInv'
<1>1. /\ pollerPc[c] \in Live /\ pollerPc'[c] \in Live
      /\ pollerPc' \in [Instances -> PollerStates]
      /\ \A d \in Instances \ {c} : pollerPc'[d] = pollerPc[d]
      /\ UNCHANGED groupVars /\ UNCHANGED pollVars /\ UnchangedByPoller
    BY DEF IInv, TypeOK, Live, PollerStates, PollerCheck, PollerUnblocked,
           PollerQuit, PollerDefault, PollerIdle
<1>2. /\ collQuit' \in [Instances -> 0..1]
      /\ \A d \in Instances : collQuit'[d] = collQuit[d] \/ collQuit'[d] = 0
    <2>1. CASE PollerQuit(c)
        BY <2>1 DEF IInv, TypeOK, PollerQuit
    <2>2. CASE collQuit' = collQuit
        BY <2>2 DEF IInv, TypeOK
    <2> QED
        BY <2>1, <2>2 DEF PollerCheck, PollerUnblocked, PollerDefault,
                             PollerIdle
<1>3. TypeOK'
    BY <1>1, <1>2
       DEF IInv, TypeOK, UnchangedByPoller, mainVars, pollVars, groupVars,
           errorVars, envVars
<1>4. pollerPc'[c] \in {"select", "default"} => pollCount[c] < MaxRunningPolls
    <2>1. CASE PollerCheck(c)
        BY <2>1, BoundsAssumption DEF IInv, TypeOK, PollerCheck
    <2>2. CASE PollerUnblocked(c)
        <3>1. pollCount[c] = 0
            BY <2>2
               DEF IInv, TypeOK, PollsCounted, Unsent, PollStates, PollerUnblocked
        <3> QED
            BY <3>1, BoundsAssumption
    <2>3. CASE PollerQuit(c) \/ PollerIdle(c)
        BY <2>3 DEF IInv, TypeOK, PollerQuit, PollerIdle
    <2>4. CASE PollerDefault(c)
        BY <2>4 DEF IInv, PollsCounted, PollerDefault
    <2> QED
        BY <2>1, <2>2, <2>3, <2>4
<1>5. PollsCounted'
    BY <1>1, <1>4 DEF IInv, TypeOK, PollsCounted, Unsent, pollVars, Live
<1> QED
    BY <1>1, <1>2, <1>3, <1>5, PollerInLoop

(* Its last Wait and the two steps of its Done.                            *)
LEMMA PollerLeavesIInv ==
    ASSUME IInv, NEW c \in Instances, PollerDrained(c) \/ PollerEnded(c)
    PROVE  IInv'
<1>1. /\ \A d \in Instances \ {c} : pollerPc'[d] = pollerPc[d]
      /\ pollerPc' \in [Instances -> PollerStates]
      /\ UNCHANGED collQuit /\ UNCHANGED pollVars /\ UnchangedByPoller
    BY DEF IInv, TypeOK, PollerStates, PollerDrained, PollerEnded
<1>2. \/ pollerPc[c] = "drain" /\ pollerPc'[c] = "counted" /\ pollWG[c] = 0
      \/ pollerPc[c] = "counted" /\ pollerPc'[c] = "ended"
    BY DEF IInv, TypeOK, PollerStates, PollerDrained, PollerEnded
<1>3. PollsCounted'
    BY <1>1, <1>2 DEF IInv, TypeOK, PollsCounted, Unsent, pollVars
<1>4. \A g \in Groups :
         /\ groupCount'[g] = Cardinality(PollersIn(pollerPc', g, Live))
         /\ groupWG'[g] = Cardinality(PollersIn(pollerPc', g, Waited))
         /\ groupCount'[g] <= groupCount[g]
         /\ groupWG'[g] <= groupWG[g]
    <2> SUFFICES
            ASSUME NEW g \in Groups
            PROVE  /\ groupCount'[g] = Cardinality(PollersIn(pollerPc', g, Live))
                   /\ groupWG'[g] = Cardinality(PollersIn(pollerPc', g, Waited))
                   /\ groupCount'[g] <= groupCount[g]
                   /\ groupWG'[g] <= groupWG[g]
        OBVIOUS
    <2>1. /\ groupCount[g] = Cardinality(PollersIn(pollerPc, g, Live))
          /\ groupWG[g] = Cardinality(PollersIn(pollerPc, g, Waited))
          /\ groupCount[g] \in Nat /\ groupWG[g] \in Nat
        BY DEF IInv, TypeOK, PollersCounted
    <2>2. /\ "drain" \in Live /\ "counted" \notin Live /\ "ended" \notin Live
          /\ "drain" \in Waited /\ "counted" \in Waited /\ "ended" \notin Waited
        BY DEF Live, Waited
    <2>3. CASE g # Group(c)
        <3>1. groupCount'[g] = groupCount[g] /\ groupWG'[g] = groupWG[g]
            BY <2>3 DEF IInv, TypeOK, PollerDrained, PollerEnded
        <3>2. /\ PollersIn(pollerPc', g, Live) = PollersIn(pollerPc, g, Live)
              /\ PollersIn(pollerPc', g, Waited) = PollersIn(pollerPc, g, Waited)
            BY <1>1, <2>3, PollersInStay
        <3> QED
            BY <2>1, <3>1, <3>2
    <2>4. CASE g = Group(c) /\ PollerDrained(c)
        <3>1. groupCount'[g] = groupCount[g] - 1 /\ groupWG'[g] = groupWG[g]
            BY <2>4 DEF IInv, TypeOK, PollerDrained
        <3>2. pollerPc[c] = "drain" /\ pollerPc'[c] = "counted"
            BY <2>4 DEF IInv, TypeOK, PollerDrained
        <3>3. Cardinality(PollersIn(pollerPc, g, Live))
                = Cardinality(PollersIn(pollerPc', g, Live)) + 1
            <4>1. /\ \A d \in Instances \ {c} : pollerPc'[d] = pollerPc[d]
                  /\ Group(c) = g
                  /\ pollerPc[c] \in Live /\ pollerPc'[c] \notin Live
                BY <1>1, <2>2, <2>4, <3>2
            <4> QED
                BY <4>1, PollersInLose
        <3>4. PollersIn(pollerPc', g, Waited) = PollersIn(pollerPc, g, Waited)
            BY <1>1, <2>2, <3>2, PollersInStay
        <3> QED
            BY <2>1, <3>1, <3>3, <3>4, PollersInFinite
    <2>5. CASE g = Group(c) /\ PollerEnded(c)
        <3>1. groupCount'[g] = groupCount[g] /\ groupWG'[g] = groupWG[g] - 1
            BY <2>5 DEF IInv, TypeOK, PollerEnded
        <3>2. pollerPc[c] = "counted" /\ pollerPc'[c] = "ended"
            BY <2>5 DEF IInv, TypeOK, PollerEnded
        <3>3. Cardinality(PollersIn(pollerPc, g, Waited))
                = Cardinality(PollersIn(pollerPc', g, Waited)) + 1
            <4>1. /\ \A d \in Instances \ {c} : pollerPc'[d] = pollerPc[d]
                  /\ Group(c) = g
                  /\ pollerPc[c] \in Waited /\ pollerPc'[c] \notin Waited
                BY <1>1, <2>2, <2>5, <3>2
            <4> QED
                BY <4>1, PollersInLose
        <3>4. PollersIn(pollerPc', g, Live) = PollersIn(pollerPc, g, Live)
            BY <1>1, <2>2, <3>2, PollersInStay
        <3> QED
            BY <2>1, <3>1, <3>3, <3>4, PollersInFinite
    <2> QED
        BY <2>3, <2>4, <2>5
<1>5. PollersCounted'
    BY <1>4 DEF PollersCounted
<1>6. groupCount' \in [Groups -> Nat] /\ groupWG' \in [Groups -> Nat]
    <2>1. \A g \in Groups : groupCount'[g] \in Nat /\ groupWG'[g] \in Nat
        BY <1>4, PollersInFinite
    <2>2. CASE PollerDrained(c)
        BY <2>1, <2>2 DEF IInv, TypeOK, PollerDrained
    <2>3. CASE PollerEnded(c)
        BY <2>1, <2>3 DEF IInv, TypeOK, PollerEnded
    <2> QED
        BY <2>2, <2>3
<1>7. TypeOK'
    BY <1>1, <1>6
       DEF IInv, TypeOK, UnchangedByPoller, mainVars, pollVars, errorVars,
           envVars
<1>8. \A g \in Groups : /\ groupCount[g] = 0 => groupCount'[g] = 0
                        /\ groupWG[g] = 0 => groupWG'[g] = 0
    <2> TAKE g \in Groups
    <2>1. groupCount'[g] \in Nat /\ groupWG'[g] \in Nat
        BY <1>6
    <2>2. groupCount'[g] <= groupCount[g] /\ groupWG'[g] <= groupWG[g]
        BY <1>4
    <2> QED
        BY <2>1, <2>2
<1>9. RunOrdered'
    <2>1. \A d \in Instances : pollerPc[d] # "none" <=> pollerPc'[d] # "none"
        BY <1>1, <1>2
    <2>2. UNCHANGED <<mainPc, started, cleaned, monitorPc>>
        BY <1>1 DEF UnchangedByPoller, mainVars, errorVars
    <2>3. mainPc \in {"cleanUp", "closing", "done"} =>
              \A g \in Groups : groupCount'[g] = 0
        BY <1>8 DEF IInv, RunOrdered
    <2> QED
        BY <2>1, <2>2, <2>3 DEF IInv, RunOrdered
<1>10. ForwardedOnce' /\ ForwardingNeverBlocks'
    <2>1. UNCHANGED <<mainPc, toForward, collQuit>>
        BY <1>1 DEF UnchangedByPoller, mainVars
    <2>2. mainPc = "loop" => \/ \A d \in Instances : collQuit[d] = 0
                            \/ \A g \in Groups : groupWG'[g] = 0
        BY <1>8 DEF IInv, ForwardedOnce
    <2>3. mainPc = "waitAnnouncers" => groupWG'["collectors"] = 0
        BY <1>8 DEF IInv, ForwardedOnce, Groups
    <2> QED
        BY <2>1, <2>2, <2>3 DEF IInv, ForwardedOnce, ForwardingNeverBlocks
<1>11. MonitorNeverBlocks' /\ FetchNotForgotten'
    BY <1>1, MonitorUnchanged DEF IInv, UnchangedByPoller
<1> QED
    BY <1>3, <1>5, <1>7, <1>9, <1>10, <1>11 DEF IInv

LEMMA PollerStepIInv ==
    ASSUME IInv, NEW c \in Instances, PollerStep(c)
    PROVE  IInv'
BY PollerSpawnIInv, PollerLoopsIInv, PollerLeavesIInv DEF PollerStep

-----------------------------------------------------------------------------
(* Steps of a Poll goroutine.                                              *)

(* Whatever a Poll goroutine does, its poller, the groups and the main     *)
(* goroutine stay where they are.                                          *)
LEMMA PollFrame ==
    ASSUME IInv, UnchangedByPoll, TypeOK', PollsCounted', MonitorNeverBlocks',
           FetchNotForgotten', monitorPc' = monitorPc
    PROVE  IInv'
<1>1. PollersCounted'
    BY PollersCountedUnchanged DEF IInv, UnchangedByPoll
<1>2. RunOrdered' /\ ForwardedOnce' /\ ForwardingNeverBlocks'
    BY DEF IInv, RunOrdered, ForwardedOnce, ForwardingNeverBlocks,
           UnchangedByPoll, mainVars, groupVars
<1> QED
    BY <1>1, <1>2 DEF IInv

LEMMA TypeOKPoll ==
    ASSUME IInv, UnchangedByPoll,
           polls' \in [Instances -> [PollStates -> Nat]],
           pollCount' \in [Instances -> 0..MaxRunningPolls],
           pollWG' \in [Instances -> Nat],
           results' \in Seq(Outcomes), Len(results') <= PollResultsQueueSize,
           requiresFetch' \in 0..1, refetchOwed' \in BOOLEAN,
           UNCHANGED <<errored, monitorPc>>
    PROVE  TypeOK'
BY DEF IInv, TypeOK, UnchangedByPoll, mainVars, groupVars, envVars

(* A poll that moves between two of the counted states.                    *)
LEMMA PollsCountedMove ==
    ASSUME IInv, NEW c \in Instances,
           NEW from \in PollStates \ {"leaving"}, NEW to \in PollStates \ {"leaving"},
           from # to, MovePoll(c, from, to), UNCHANGED <<pollCount, pollWG>>,
           UnchangedByPoll
    PROVE  polls' \in [Instances -> [PollStates -> Nat]] /\ PollsCounted'
<1>1. polls \in [Instances -> [PollStates -> Nat]]
    BY DEF IInv, TypeOK
<1>2. /\ polls' \in [Instances -> [PollStates -> Nat]]
      /\ polls'[c][from] = polls[c][from] - 1
      /\ polls'[c][to] = polls[c][to] + 1
      /\ \A s \in PollStates \ {from, to} : polls'[c][s] = polls[c][s]
      /\ \A d \in Instances \ {c} : polls'[d] = polls[d]
    BY <1>1, MovePollMoves
<1>3. /\ Unsent(c)' + polls'[c]["returning"] = Unsent(c) + polls[c]["returning"]
      /\ polls'[c]["leaving"] = polls[c]["leaving"]
    BY <1>1, <1>2 DEF Unsent, PollStates
<1>4. \A d \in Instances \ {c} : Unsent(d)' = Unsent(d)
    BY <1>2 DEF Unsent
<1>5. PollsCounted'
    BY <1>2, <1>3, <1>4 DEF IInv, PollsCounted, UnchangedByPoll
<1> QED
    BY <1>2, <1>5

LEMMA DevInfoChoosesIInv ==
    ASSUME IInv, DevInfoTakesFetch \/ DevInfoUsesStored
    PROVE  IInv'
<1>1. /\ MovePoll(DevInfo, "choosing", "polling") /\ UnchangedByPoll
      /\ UNCHANGED <<pollCount, pollWG, results, errored, monitorPc>>
      /\ \/ requiresFetch = 1 /\ requiresFetch' = 0 /\ refetchOwed' = FALSE
         \/ UNCHANGED <<requiresFetch, refetchOwed>>
    BY DEF DevInfoTakesFetch, DevInfoUsesStored, errorVars
<1>2. /\ DevInfo \in Instances
      /\ "choosing" \in PollStates \ {"leaving"} /\ "polling" \in PollStates \ {"leaving"}
      /\ "choosing" # "polling"
    BY DEF Instances, PollStates
<1>3. /\ MovePoll(DevInfo, "choosing", "polling") /\ UnchangedByPoll
      /\ UNCHANGED <<pollCount, pollWG>>
    BY <1>1
<1>4. polls' \in [Instances -> [PollStates -> Nat]] /\ PollsCounted'
    BY <1>2, <1>3, PollsCountedMove
<1>5. requiresFetch \in 0..1 /\ refetchOwed \in BOOLEAN
    BY DEF IInv, TypeOK
<1>6. requiresFetch' = 0 \/ requiresFetch' = requiresFetch
    BY <1>1
<1>7. requiresFetch' \in 0..1
    BY <1>5, <1>6
<1>8. refetchOwed' \in BOOLEAN
    BY <1>1, <1>5, Zenon
<1>9. requiresFetch' \in 0..1 /\ refetchOwed' \in BOOLEAN
    BY <1>7, <1>8
<1>10. TypeOK'
    BY <1>1, <1>4, <1>9, TypeOKPoll DEF IInv, TypeOK
<1>11. MonitorNeverBlocks' /\ FetchNotForgotten'
    BY <1>1 DEF IInv, MonitorNeverBlocks, FetchNotForgotten
<1> QED
    BY <1>1, <1>4, <1>10, <1>11, PollFrame

LEMMA PollReportsIInv ==
    ASSUME IInv, NEW c \in Instances, PollReports(c)
    PROVE  IInv'
<1> USE DEF PollReports
<1>1. polls' \in [Instances -> [PollStates -> Nat]] /\ PollsCounted'
    <2>1. /\ "polling" \in PollStates \ {"leaving"}
          /\ "returning" \in PollStates \ {"leaving"}
        BY DEF PollStates
    <2>2. MovePoll(c, "polling", "returning") /\ UnchangedByPoll
          /\ UNCHANGED <<pollCount, pollWG>>
        OBVIOUS
    <2> QED
        BY <2>1, <2>2, PollsCountedMove
<1>2. results' \in Seq(Outcomes) /\ Len(results') <= PollResultsQueueSize
    BY BoundsAssumption DEF IInv, TypeOK
<1>3. TypeOK'
    BY <1>1, <1>2, TypeOKPoll DEF IInv, TypeOK, errorVars
<1>4. MonitorNeverBlocks' /\ FetchNotForgotten'
    BY MonitorUnchanged DEF IInv
<1> QED
    BY <1>1, <1>3, <1>4, PollFrame DEF errorVars

LEMMA PollUncountedIInv ==
    ASSUME IInv, NEW c \in Instances, PollUncounted(c)
    PROVE  IInv'
<1> USE DEF PollUncounted
<1>1. polls \in [Instances -> [PollStates -> Nat]]
    BY DEF IInv, TypeOK
<1>2. /\ polls' \in [Instances -> [PollStates -> Nat]]
      /\ polls[c]["returning"] > 0
      /\ polls'[c]["returning"] = polls[c]["returning"] - 1
      /\ polls'[c]["leaving"] = polls[c]["leaving"] + 1
      /\ \A s \in {"choosing", "polling"} : polls'[c][s] = polls[c][s]
      /\ \A d \in Instances \ {c} : polls'[d] = polls[d]
    BY <1>1, MovePollMoves DEF PollStates
<1>3. /\ Unsent(c)' = Unsent(c) /\ Unsent(c) \in Nat
      /\ \A d \in Instances \ {c} : Unsent(d)' = Unsent(d)
    BY <1>1, <1>2 DEF Unsent, PollStates
<1>4. /\ pollCount[c] = Unsent(c) + polls[c]["returning"]
      /\ pollWG[c] = pollCount[c] + polls[c]["leaving"]
      /\ pollCount[c] \in 0..MaxRunningPolls /\ pollWG[c] \in Nat
    BY DEF IInv, TypeOK, PollsCounted
<1>5. /\ pollCount'[c] = pollCount[c] - 1
      /\ \A d \in Instances \ {c} : pollCount'[d] = pollCount[d]
      /\ pollWG' = pollWG
    BY DEF IInv, TypeOK
<1>6. pollCount' \in [Instances -> 0..MaxRunningPolls]
    <2>1. pollCount[c] - 1 \in 0..MaxRunningPolls
        BY <1>1, <1>2, <1>3, <1>4, BoundsAssumption DEF PollStates
    <2> QED
        BY <2>1 DEF IInv, TypeOK
<1>7. PollsCounted'
    <2>1. \A d \in Instances \ {c} :
              /\ pollCount'[d] = Unsent(d)' + polls'[d]["returning"]
              /\ pollWG'[d] = pollCount'[d] + polls'[d]["leaving"]
              /\ pollerPc'[d] \in {"select", "default"} => pollCount'[d] < MaxRunningPolls
              /\ pollerPc'[d] \in {"none", "counted", "ended"} => pollWG'[d] = 0
        BY <1>2, <1>3, <1>5 DEF IInv, PollsCounted, UnchangedByPoll
    <2>2. /\ pollCount'[c] = Unsent(c)' + polls'[c]["returning"]
          /\ pollWG'[c] = pollCount'[c] + polls'[c]["leaving"]
        BY <1>1, <1>2, <1>3, <1>4, <1>5 DEF PollStates
    <2>3. /\ pollerPc'[c] \in {"select", "default"} => pollCount'[c] < MaxRunningPolls
          /\ pollerPc'[c] \in {"none", "counted", "ended"} => pollWG'[c] = 0
        BY <1>4, <1>5, BoundsAssumption DEF IInv, PollsCounted, UnchangedByPoll
    <2> QED
        BY <2>1, <2>2, <2>3 DEF PollsCounted
<1>8. TypeOK'
    BY <1>2, <1>6, TypeOKPoll DEF IInv, TypeOK, errorVars
<1>9. MonitorNeverBlocks' /\ FetchNotForgotten'
    BY MonitorUnchanged DEF IInv
<1> QED
    BY <1>7, <1>8, <1>9, PollFrame DEF errorVars

LEMMA PollLeavesIInv ==
    ASSUME IInv, NEW c \in Instances, PollLeaves(c)
    PROVE  IInv'
<1> USE DEF PollLeaves
<1>1. polls[c] \in [PollStates -> Nat] /\ polls[c]["leaving"] > 0
    BY DEF IInv, TypeOK
<1>2. /\ polls' \in [Instances -> [PollStates -> Nat]]
      /\ polls'[c]["leaving"] = polls[c]["leaving"] - 1
      /\ \A s \in PollStates \ {"leaving"} : polls'[c][s] = polls[c][s]
      /\ \A d \in Instances \ {c} : polls'[d] = polls[d]
    BY <1>1 DEF IInv, TypeOK, PollStates
<1>3. \A d \in Instances : Unsent(d)' = Unsent(d)
    BY <1>2 DEF Unsent, PollStates
<1>4. /\ pollCount[c] = Unsent(c) + polls[c]["returning"]
      /\ pollWG[c] = pollCount[c] + polls[c]["leaving"]
      /\ pollCount[c] \in Nat /\ pollWG[c] \in Nat
    BY BoundsAssumption DEF IInv, TypeOK, PollsCounted
<1>5. /\ pollWG'[c] = pollWG[c] - 1
      /\ \A d \in Instances \ {c} : pollWG'[d] = pollWG[d]
      /\ pollCount' = pollCount
    BY DEF IInv, TypeOK
<1>6. pollWG' \in [Instances -> Nat]
    <2>1. pollWG[c] - 1 \in Nat
        BY <1>1, <1>4 DEF PollStates
    <2> QED
        BY <2>1 DEF IInv, TypeOK
<1>7. PollsCounted'
    <2>1. \A d \in Instances \ {c} :
              /\ pollCount'[d] = Unsent(d)' + polls'[d]["returning"]
              /\ pollWG'[d] = pollCount'[d] + polls'[d]["leaving"]
              /\ pollerPc'[d] \in {"select", "default"} => pollCount'[d] < MaxRunningPolls
              /\ pollerPc'[d] \in {"none", "counted", "ended"} => pollWG'[d] = 0
        BY <1>2, <1>3, <1>5 DEF IInv, PollsCounted, UnchangedByPoll
    <2>2. /\ pollCount'[c] = Unsent(c)' + polls'[c]["returning"]
          /\ pollWG'[c] = pollCount'[c] + polls'[c]["leaving"]
        BY <1>1, <1>2, <1>3, <1>4, <1>5 DEF PollStates
    <2>3. /\ pollerPc'[c] \in {"select", "default"} => pollCount'[c] < MaxRunningPolls
          /\ pollerPc'[c] \notin {"none", "counted", "ended"}
        BY <1>1, <1>4, <1>5 DEF IInv, PollsCounted, UnchangedByPoll, PollStates
    <2> QED
        BY <2>1, <2>2, <2>3 DEF PollsCounted
<1>8. TypeOK'
    BY <1>2, <1>6, TypeOKPoll DEF IInv, TypeOK, errorVars
<1>9. MonitorNeverBlocks' /\ FetchNotForgotten'
    BY MonitorUnchanged DEF IInv
<1> QED
    BY <1>7, <1>8, <1>9, PollFrame DEF errorVars

LEMMA PollStepIInv ==
    ASSUME IInv, NEW c \in Instances, PollStep(c)
    PROVE  IInv'
BY DevInfoChoosesIInv, PollReportsIInv, PollUncountedIInv, PollLeavesIInv
   DEF PollStep

-----------------------------------------------------------------------------
(* Steps of the monitor and of the world.                                  *)

LEMMA MonitorStepIInv == IInv /\ MonitorStep => IInv'
<1> SUFFICES ASSUME IInv, MonitorStep PROVE IInv'
    OBVIOUS
<1>1. /\ errored' \in 0..PollResultsQueueSize /\ requiresFetch' \in 0..1
      /\ monitorPc' \in MonitorStates /\ monitorPc # "off"
    BY BoundsAssumption
       DEF IInv, TypeOK, MonitorStep, MonitorReceives, MonitorSends, MonitorStates
<1>2. refetchOwed' \in BOOLEAN
    BY DEF IInv, TypeOK, MonitorStep, MonitorReceives, MonitorSends
<1>3. UnchangedByMonitor
    BY DEF MonitorStep, MonitorReceives, MonitorSends
<1>4. TypeOK'
    BY <1>1, <1>2, <1>3
       DEF IInv, TypeOK, UnchangedByMonitor, mainVars, pollVars, groupVars, envVars
<1>5. PollsCounted' /\ PollersCounted'
    BY <1>3, PollsCountedUnchanged, PollersCountedUnchanged
       DEF IInv, UnchangedByMonitor
<1>6. RunOrdered' /\ ForwardedOnce' /\ ForwardingNeverBlocks'
    BY <1>1, <1>3 DEF IInv, RunOrdered, ForwardedOnce, ForwardingNeverBlocks,
                      UnchangedByMonitor, mainVars, groupVars
<1>7. MonitorNeverBlocks' /\ FetchNotForgotten'
    BY DEF IInv, TypeOK, MonitorNeverBlocks, FetchNotForgotten, MonitorStep,
           MonitorReceives, MonitorSends
<1> QED
    BY <1>4, <1>5, <1>6, <1>7 DEF IInv

LEMMA WorldStepIInv == IInv /\ (Expire \/ Signal) => IInv'
<1> SUFFICES ASSUME IInv, Expire \/ Signal PROVE IInv'
    OBVIOUS
<1>1. UnchangedByWorld
    BY DEF Expire, Signal
<1>2. quitSig' \in 0..1 /\ signals' \in 0..MaxSignals
    BY BoundsAssumption DEF IInv, TypeOK, Expire, Signal
<1>3. expired' \in BOOLEAN
    BY DEF IInv, TypeOK, Expire, Signal
<1>4. TypeOK'
    BY <1>1, <1>2, <1>3 DEF IInv, TypeOK, UnchangedByWorld, mainVars, pollVars,
                            groupVars, errorVars
<1>5. PollsCounted' /\ PollersCounted'
    BY <1>1, PollsCountedUnchanged, PollersCountedUnchanged
       DEF IInv, UnchangedByWorld
<1>6. RunOrdered' /\ ForwardedOnce' /\ ForwardingNeverBlocks'
    BY <1>1 DEF IInv, RunOrdered, ForwardedOnce, ForwardingNeverBlocks,
                UnchangedByWorld, mainVars, groupVars, errorVars
<1>7. MonitorNeverBlocks' /\ FetchNotForgotten'
    BY <1>1, MonitorUnchanged DEF IInv, UnchangedByWorld
<1> QED
    BY <1>4, <1>5, <1>6, <1>7 DEF IInv

LEMMA StutterIInv == IInv /\ UNCHANGED vars => IInv'
<1> SUFFICES ASSUME IInv, UNCHANGED vars PROVE IInv'
    OBVIOUS
<1>1. OnlyMainMoves /\ mainPc' = mainPc
    BY DEF vars, OnlyMainMoves, mainVars, pollVars, groupVars, errorVars, envVars
<1>2. /\ mainPc' \in MainStates /\ RunOrdered' /\ ForwardedOnce'
      /\ ForwardingNeverBlocks'
    BY <1>1 DEF IInv, TypeOK, RunOrdered, ForwardedOnce, ForwardingNeverBlocks,
                OnlyMainMoves, groupVars, errorVars
<1> QED
    BY <1>1, <1>2, OnlyMainMovesIInv

LEMMA NextIInv == IInv /\ [Next]_vars => IInv'
BY MainStepIInv, PollerStepIInv, PollStepIInv, MonitorStepIInv, WorldStepIInv,
   StutterIInv DEF Next, Ended

(* IInv is an invariant of the runner.                                     *)
THEOREM InvariantIInv == Spec => []IInv
BY InitIInv, NextIInv, PTL DEF Spec

(* Every variable keeps to its range; in particular no collector has more  *)
(* than maxRunningPolls polls counted, and neither channel overflows.      *)
THEOREM TypeCorrect == Spec => []TypeOK
<1>1. IInv => TypeOK
    BY DEF IInv
<1> QED
    BY <1>1, InvariantIInv, PTL

LEMMA NatSumZero ==
    ASSUME NEW i \in Nat, NEW j \in Nat, NEW k \in Nat, NEW l \in Nat,
           (i + j + k) + l = 0
    PROVE  i = 0 /\ j = 0 /\ k = 0 /\ l = 0
OBVIOUS

(* Run cleans the collectors up only when no poll goroutine is left: the   *)
(* counts it reads are zero, so no poller is counted, and a poller gives   *)
(* up its count only after waiting for the last step of every poll's Done. *)
THEOREM CleanUpFindsNoPolls == Spec => []NoPollOutlivesCleanUp
<1>1. IInv => NoPollOutlivesCleanUp
    <2> SUFFICES ASSUME IInv, mainPc \in {"cleanUp", "closing", "done"},
                        NEW c \in Instances
                 PROVE  polls[c] = NoPolls
        BY DEF NoPollOutlivesCleanUp
    <2>1. PollersIn(pollerPc, Group(c), Live) = {}
        <3>1. Cardinality(PollersIn(pollerPc, Group(c), Live)) = 0
            BY GroupType DEF IInv, RunOrdered, PollersCounted
        <3> QED
            BY <3>1, PollersInFinite, FS_EmptySet
    <2>2. pollerPc[c] \in {"none", "counted", "ended"}
        BY <2>1 DEF PollersIn, Live, IInv, TypeOK, PollerStates
    <2>3. /\ pollWG[c] = 0
          /\ pollCount[c] = Unsent(c) + polls[c]["returning"]
          /\ pollWG[c] = pollCount[c] + polls[c]["leaving"]
        BY <2>2 DEF IInv, PollsCounted
    <2>4. polls[c] \in [PollStates -> Nat]
        BY DEF IInv, TypeOK
    <2>5. /\ polls[c]["choosing"] \in Nat /\ polls[c]["polling"] \in Nat
          /\ polls[c]["returning"] \in Nat /\ polls[c]["leaving"] \in Nat
        BY <2>4 DEF PollStates
    <2>6. (polls[c]["choosing"] + polls[c]["polling"] + polls[c]["returning"])
             + polls[c]["leaving"] = 0
        BY <2>3 DEF Unsent
    <2>7. /\ polls[c]["choosing"] = 0 /\ polls[c]["polling"] = 0
          /\ polls[c]["returning"] = 0 /\ polls[c]["leaving"] = 0
        BY <2>5, <2>6, NatSumZero
    <2>8. \A s \in PollStates : polls[c][s] = 0
        BY <2>7 DEF PollStates
    <2>9. polls[c] = [s \in PollStates |-> 0]
        BY <2>4, <2>8
    <2> QED
        BY <2>9 DEF NoPolls
<1> QED
    BY <1>1, InvariantIInv, PTL

(* The monitor never blocks on requiresFetch.                              *)
THEOREM MonitorIsNeverBlocked == Spec => []MonitorNeverBlocks
<1>1. IInv => MonitorNeverBlocks
    BY DEF IInv
<1> QED
    BY <1>1, InvariantIInv, PTL

(* An error the monitor received stays owed a fetch until one is taken up. *)
THEOREM NoErrorForgotten == Spec => []FetchNotForgotten
<1>1. IInv => FetchNotForgotten
    BY DEF IInv
<1> QED
    BY <1>1, InvariantIInv, PTL

(* Forwarding a signal never blocks on a quit channel.                     *)
THEOREM ForwardingIsNeverBlocked == Spec => []ForwardingNeverBlocks
<1>1. IInv => ForwardingNeverBlocks
    BY DEF IInv
<1> QED
    BY <1>1, InvariantIInv, PTL

-----------------------------------------------------------------------------
(***************************************************************************)
(* CollectorRunner implements CollectionLifecycle: under the mapping of    *)
(* CollectorRunner!Lifecycle every step of the runner is a step of the     *)
(* life cycle or leaves it alone.                                          *)
(***************************************************************************)

\* The mapped variables, and a step that leaves them alone.
MappedStutter == UNCHANGED <<Phase, started, pollCount, cleaned>>

MappedStep == Lifecycle!LifecycleNext \/ MappedStutter

LEMMA InitMaps == Init => Lifecycle!LifecycleInit
BY DEF Init, Lifecycle!LifecycleInit, Phase

LEMMA PhaseUnchanged == mainPc' = mainPc => Phase' = Phase
BY DEF Phase

LEMMA CollectingPhase ==
    mainPc \notin {"cleanUp", "closing", "done", "panicked"} =>
        Phase = "collecting"
BY DEF Phase

(* With both counts at zero no poll of any collector is in flight.         *)
LEMMA NoneCounted ==
    ASSUME IInv, \A g \in Groups : groupCount[g] = 0, NEW c \in Instances
    PROVE  pollCount[c] = 0
<1>1. PollersIn(pollerPc, Group(c), Live) = {}
    <2>1. Cardinality(PollersIn(pollerPc, Group(c), Live)) = 0
        BY GroupType DEF IInv, PollersCounted
    <2> QED
        BY <2>1, PollersInFinite, FS_EmptySet
<1>2. pollerPc[c] \in {"none", "counted", "ended"}
    BY <1>1 DEF PollersIn, Live, IInv, TypeOK, PollerStates
<1>3. /\ pollCount[c] + polls[c]["leaving"] = 0
      /\ pollCount[c] \in Nat /\ polls[c]["leaving"] \in Nat
    BY <1>2, BoundsAssumption DEF IInv, TypeOK, PollsCounted, PollStates
<1> QED
    BY <1>3

(* A poller that may still begin a poll is counted, so Run still collects. *)
LEMMA LivePollerCollecting ==
    ASSUME IInv, Running, NEW c \in Instances, pollerPc[c] \in Live
    PROVE  mainPc \notin {"cleanUp", "closing", "done", "panicked"}
<1>1. ASSUME \A g \in Groups : groupCount[g] = 0
      PROVE  FALSE
    <2>1. Cardinality(PollersIn(pollerPc, Group(c), Live)) = 0
        BY <1>1, GroupType DEF IInv, PollersCounted
    <2>2. PollersIn(pollerPc, Group(c), Live) = {}
        BY <2>1, PollersInFinite, FS_EmptySet
    <2> QED
        BY <2>2 DEF PollersIn
<1> QED
    BY <1>1 DEF IInv, RunOrdered, Running

LEMMA MainStepMaps == ASSUME IInv, MainStep PROVE MappedStep
<1> USE DEF MappedStep, MappedStutter
<1>1. ASSUME NEW c \in Instances, StartCollector(c)
      PROVE  Lifecycle!LifecycleNext
    <2>1. Phase = "collecting" /\ Phase' = "collecting"
        BY <1>1 DEF StartCollector, Phase
    <2>2. Lifecycle!Acquire(c)
        BY <1>1, <2>1 DEF StartCollector, Lifecycle!Acquire, pollVars
    <2> QED
        BY <2>2 DEF Lifecycle!LifecycleNext
<1>2. ASSUME NEW c \in Instances, StartFails(c) \/ CleanUpFails(c)
      PROVE  Lifecycle!LifecycleNext
    <2>1. Phase \in {"collecting", "closing"} /\ Phase' = "aborted"
        BY <1>2 DEF StartFails, CleanUpFails, Phase
    <2>2. Lifecycle!Abort
        BY <1>2, <2>1 DEF StartFails, CleanUpFails, OnlyMainMoves, pollVars,
                          Lifecycle!Abort
    <2> QED
        BY <2>2 DEF Lifecycle!LifecycleNext
<1>3. ASSUME NEW c \in Instances, MainForward(c)
      PROVE  MappedStutter
    BY <1>3, PhaseUnchanged DEF MainForward, pollVars
<1>4. ASSUME NEW c \in Instances, CleanUpCollector(c)
      PROVE  Lifecycle!LifecycleNext
    <2>1. Phase = "closing" /\ Phase' = "closing"
        BY <1>4 DEF CleanUpCollector, Phase
    <2>2. Lifecycle!Release(c)
        BY <1>4, <2>1 DEF CleanUpCollector, pollVars, Lifecycle!Release
    <2> QED
        BY <2>2 DEF Lifecycle!LifecycleNext
<1>5. CASE MainCheck
    <2>1. Phase = "collecting" /\ mainPc' \in {"select", "cleanUp"}
        BY <1>5 DEF MainCheck, Phase
    <2>2. CASE mainPc' = "select"
        BY <1>5, <2>1, <2>2 DEF MainCheck, OnlyMainMoves, pollVars, Phase
    <2>3. CASE mainPc' = "cleanUp"
        <3>1. \A g \in Groups : groupCount[g] = 0
            <4>1. ~(groupCount["collectors"] + groupCount["announcers"] > 0)
                BY <1>5, <2>3 DEF MainCheck
            <4>2. groupCount["collectors"] \in Nat /\ groupCount["announcers"] \in Nat
                BY DEF IInv, TypeOK, Groups
            <4>3. groupCount["collectors"] = 0 /\ groupCount["announcers"] = 0
                BY <4>1, <4>2
            <4> QED
                BY <4>3 DEF Groups
        <3>2. \A c \in Instances : pollCount[c] = 0
            BY <3>1, NoneCounted
        <3>3. started = Instances
            BY <1>5 DEF MainCheck, IInv, RunOrdered
        <3>4. Phase' = "closing"
            BY <2>3 DEF Phase
        <3>5. Lifecycle!StartClosing
            BY <1>5, <2>1, <3>2, <3>3, <3>4
               DEF MainCheck, OnlyMainMoves, pollVars, Lifecycle!StartClosing
        <3> QED
            BY <3>5 DEF Lifecycle!LifecycleNext
    <2> QED
        BY <2>1, <2>2, <2>3
<1>6. CASE CloseCallback
    <2>1. Phase = "closing" /\ cleaned = Instances
        BY <1>6 DEF CloseCallback, Phase, IInv, RunOrdered
    <2>2. UNCHANGED <<started, pollCount, cleaned>>
        BY <1>6 DEF CloseCallback, OnlyMainMoves, pollVars
    <2>3. Phase' \in {"closed", "aborted"}
        BY <1>6 DEF CloseCallback, Phase
    <2>4. Lifecycle!Close \/ Lifecycle!Abort
        BY <2>1, <2>2, <2>3 DEF Lifecycle!Close, Lifecycle!Abort
    <2> QED
        BY <2>4 DEF Lifecycle!LifecycleNext
<1>7. CASE \/ AllStarted \/ MainTakeSignal \/ MainTakeResult \/ MainIdle
           \/ MainSendErrored \/ MainForwarded \/ MainWaited
    <2>1. Phase = "collecting" /\ Phase' = "collecting"
        BY <1>7 DEF AllStarted, MainTakeSignal, MainTakeResult, MainIdle,
                    MainSendErrored, MainForwarded, MainWaited, Phase
    <2>2. UNCHANGED <<started, pollCount, cleaned>>
        BY <1>7 DEF AllStarted, MainTakeSignal, MainTakeResult, MainIdle,
                    MainSendErrored, MainForwarded, MainWaited, OnlyMainMoves,
                    pollVars
    <2> QED
        BY <2>1, <2>2
<1>8. CASE AllCleaned
    BY <1>8 DEF AllCleaned, OnlyMainMoves, pollVars, Phase
<1> QED
    BY <1>1, <1>2, <1>3, <1>4, <1>5, <1>6, <1>7, <1>8 DEF MainStep

LEMMA PollerStepMaps ==
    ASSUME IInv, Running, NEW c \in Instances, PollerStep(c)
    PROVE  MappedStep
<1> USE DEF MappedStep, MappedStutter
<1>1. CASE PollerSpawn(c)
    <2>1. pollerPc[c] = "default" /\ mainPc' = mainPc
        BY <1>1 DEF PollerSpawn, UnchangedByPoller, mainVars
    <2>2. Phase = "collecting" /\ Phase' = "collecting"
        BY <2>1, LivePollerCollecting, CollectingPhase, PhaseUnchanged DEF Live
    <2>3. c \in started /\ pollCount[c] < MaxRunningPolls
        BY <2>1 DEF IInv, RunOrdered, PollsCounted
    <2>4. Lifecycle!BeginPoll(c)
        BY <1>1, <2>2, <2>3 DEF PollerSpawn, UnchangedByPoller, mainVars,
                                Lifecycle!BeginPoll
    <2> QED
        BY <2>4 DEF Lifecycle!LifecycleNext
<1>2. CASE \/ PollerCheck(c) \/ PollerUnblocked(c) \/ PollerQuit(c)
           \/ PollerDefault(c) \/ PollerIdle(c)
           \/ PollerDrained(c) \/ PollerEnded(c)
    <2>1. UNCHANGED <<mainPc, started, pollCount, cleaned>>
        BY <1>2 DEF PollerCheck, PollerUnblocked, PollerQuit, PollerDefault,
                   PollerIdle,
                    PollerDrained, PollerEnded, UnchangedByPoller, mainVars,
                    pollVars
    <2> QED
        BY <2>1, PhaseUnchanged
<1> QED
    BY <1>1, <1>2 DEF PollerStep

LEMMA PollStepMaps ==
    ASSUME IInv, NEW c \in Instances, PollStep(c)
    PROVE  MappedStep
<1> USE DEF MappedStep, MappedStutter
<1>1. CASE PollUncounted(c)
    <2>1. UNCHANGED <<mainPc, started, cleaned>> /\ Phase' = Phase
        BY <1>1, PhaseUnchanged DEF PollUncounted, UnchangedByPoll, mainVars
    <2>2. pollCount[c] > 0
        <3>1. polls[c]["returning"] > 0
            BY <1>1 DEF PollUncounted, MovePoll
        <3>2. /\ pollCount[c] = (polls[c]["choosing"] + polls[c]["polling"])
                                  + polls[c]["returning"]
              /\ polls[c] \in [PollStates -> Nat]
            BY DEF IInv, TypeOK, PollsCounted, Unsent
        <3>3. /\ polls[c]["choosing"] \in Nat /\ polls[c]["polling"] \in Nat
              /\ polls[c]["returning"] \in Nat
            BY <3>2 DEF PollStates
        <3> QED
            BY <3>1, <3>2, <3>3
    <2>3. Lifecycle!EndPoll(c)
        BY <1>1, <2>1, <2>2 DEF PollUncounted, Lifecycle!EndPoll
    <2> QED
        BY <2>3 DEF Lifecycle!LifecycleNext
<1>2. CASE DevInfoTakesFetch \/ DevInfoUsesStored \/ PollReports(c) \/ PollLeaves(c)
    <2>1. UNCHANGED <<mainPc, started, pollCount, cleaned>>
        BY <1>2 DEF DevInfoTakesFetch, DevInfoUsesStored, PollReports,
                    PollLeaves, UnchangedByPoll, mainVars
    <2> QED
        BY <2>1, PhaseUnchanged
<1> QED
    BY <1>1, <1>2 DEF PollStep

LEMMA RestMaps ==
    ASSUME \/ MonitorStep \/ Expire \/ Signal \/ UNCHANGED vars
    PROVE  MappedStutter
<1>1. UNCHANGED <<mainPc, started, pollCount, cleaned>>
    BY DEF MonitorStep, MonitorReceives, MonitorSends, UnchangedByMonitor,
           Expire, Signal, UnchangedByWorld, mainVars, pollVars, vars
<1> QED
    BY <1>1, PhaseUnchanged DEF MappedStutter

LEMMA NextMaps ==
    IInv /\ [Next]_vars =>
        [Lifecycle!LifecycleNext]_(Lifecycle!lifecycleVars)
<1> SUFFICES ASSUME IInv, [Next]_vars
             PROVE  MappedStep
    BY DEF MappedStep, MappedStutter, Lifecycle!lifecycleVars
<1>1. CASE MainStep
    BY <1>1, MainStepMaps
<1>2. CASE Running /\ \E c \in Instances : PollerStep(c) \/ PollStep(c)
    BY <1>2, PollerStepMaps, PollStepMaps
<1>3. CASE \/ Running /\ (MonitorStep \/ Expire \/ Signal)
           \/ Ended \/ UNCHANGED vars
    BY <1>3, RestMaps DEF MappedStep, Ended
<1> QED
    BY <1>1, <1>2, <1>3 DEF Next

(* The runner implements the life cycle: a collector is polled only after  *)
(* its Start and before its clean-up, by at most maxRunningPolls           *)
(* goroutines, and clean-up begins when none of any collector is left.     *)
THEOREM ImplementsLifecycle == Spec => LifecycleSpec
<1>1. Init => Lifecycle!LifecycleInit
    BY InitMaps
<1>2. IInv /\ [Next]_vars =>
          [Lifecycle!LifecycleNext]_(Lifecycle!lifecycleVars)
    BY NextMaps
<1> QED
    BY <1>1, <1>2, InvariantIInv, PTL
       DEF Spec, LifecycleSpec, Lifecycle!LifecycleSpec
=============================================================================
