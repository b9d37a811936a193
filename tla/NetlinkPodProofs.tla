--------------------------- MODULE NetlinkPodProofs ---------------------------
(***************************************************************************)
(* The invariant of the debug pod, for any number of invocations, Starts,  *)
(* failing calls and evictions, and what follows from it.                  *)
(***************************************************************************)
EXTENDS NetlinkPod, TLAPS

Pods == [owner : Tools, running : BOOLEAN, going : BOOLEAN]

RunningPod == [pod EXCEPT !.running = TRUE]

(* A pod created is the creator's, neither running nor going.              *)
LEMMA NewPodFacts ==
    ASSUME NEW t \in Tools
    PROVE  /\ NewPod(t) \in Pods /\ NewPod(t) # NoPod
           /\ NewPod(t) \in [owner : {t}, running : BOOLEAN, going : {FALSE}]
           /\ NewPod(t).owner = t /\ ~NewPod(t).going
  <1>1. NewPod(t) \in Pods
    BY DEF Pods, NewPod
  <1>2. NewPod(t) \in [owner : {t}, running : BOOLEAN, going : {FALSE}]
    BY DEF NewPod
  <1>3. NewPod(t).owner = t /\ ~NewPod(t).going
    BY DEF NewPod
  <1>4. NoPod \notin Pods
    BY NetlinkBounds DEF Pods
  <1> QED
    BY <1>1, <1>2, <1>3, <1>4

(* What the cluster makes of a pod is a pod of the same owner.             *)
LEMMA PodFacts ==
    ASSUME pod \in Pods
    PROVE  /\ pod # NoPod /\ pod.owner \in Tools
           /\ Going \in Pods /\ Going # NoPod /\ Going.owner = pod.owner
           /\ RunningPod \in Pods /\ RunningPod # NoPod
           /\ RunningPod.owner = pod.owner
           /\ RunningPod.running /\ (RunningPod.going <=> pod.going)
  <1>1. pod.owner \in Tools
    BY DEF Pods
  <1>2. Going \in Pods
    BY DEF Pods, Going
  <1>3. Going.owner = pod.owner
    BY DEF Pods, Going
  <1>4. RunningPod \in Pods
    BY DEF Pods, RunningPod
  <1>5. RunningPod.owner = pod.owner
    BY DEF Pods, RunningPod
  <1>6. RunningPod.running
    BY DEF Pods, RunningPod
  <1>7. RunningPod.going <=> pod.going
    BY DEF Pods, RunningPod
  <1>8. NoPod \notin Pods
    BY NetlinkBounds DEF Pods
  <1> QED
    BY <1>1, <1>2, <1>3, <1>4, <1>5, <1>6, <1>7, <1>8

(* A tool's step that leaves the pod, the starts and the evictions alone.  *)
Moves(t) ==
    \/ CheckRunning(t) \/ PodStarted(t) \/ StartTimeout(t) \/ GetClockID(t)
    \/ CleanUp(t) \/ PodDeleted(t) \/ DeletionTimeout(t) \/ Killed(t)

LEMMA TypeCorrectStep ==
    ASSUME IInv, [Next]_vars
    PROVE  TypeOK' /\ HoldersHold'
  <1> USE DEF IInv, TypeOK, HoldersHold, Holding, States, InStart, InCleanUp,
              Stopped, Goto
  <1>1. ASSUME NEW t \in Tools, Start(t) PROVE TypeOK' /\ HoldersHold'
    <2>1. starts' \in [Tools -> 0..MaxStarts]
      BY <1>1, NetlinkBounds DEF Start
    <2> QED
      BY <1>1, <2>1 DEF Start, AfterStart
  <1>2. ASSUME NEW t \in Tools, Moves(t) PROVE TypeOK' /\ HoldersHold'
    <2>1. CASE CheckRunning(t) BY <2>1 DEF CheckRunning
    <2>2. CASE PodStarted(t) BY <2>2 DEF PodStarted
    <2>3. CASE StartTimeout(t) BY <2>3 DEF StartTimeout
    <2>4. CASE GetClockID(t) BY <2>4 DEF GetClockID
    <2>5. CASE CleanUp(t) BY <2>5 DEF CleanUp
    <2>6. CASE PodDeleted(t) BY <2>6 DEF PodDeleted
    <2>7. CASE DeletionTimeout(t) BY <2>7 DEF DeletionTimeout
    <2>8. CASE Killed(t) BY <2>8 DEF Killed
    <2> QED BY <1>2, <2>1, <2>2, <2>3, <2>4, <2>5, <2>6, <2>7, <2>8 DEF Moves
  <1>3. ASSUME NEW t \in Tools, CreatePod(t) PROVE TypeOK' /\ HoldersHold'
    <2>1. pod' \in Pods \cup {NoPod}
      BY <1>3, NewPodFacts DEF CreatePod, Pods
    <2> QED
      BY <1>3, <2>1 DEF CreatePod, Pods
  <1>4. ASSUME NEW t \in Tools, ToolFails(t) PROVE TypeOK' /\ HoldersHold'
    <2>1. CASE CreatePodAnswerLost(t)
      <3>1. pod' \in Pods
        BY <2>1, NewPodFacts DEF CreatePodAnswerLost
      <3>2. faults' \in 0..MaxFaults
        BY <2>1, NetlinkBounds DEF CreatePodAnswerLost, Fault
      <3> QED
        BY <2>1, <3>1, <3>2 DEF CreatePodAnswerLost, Pods
    <2>2. CASE DeletePodAnswerLost(t)
      <3>1. pod' \in Pods
        BY <2>2, PodFacts DEF DeletePodAnswerLost, Pods
      <3>2. faults' \in 0..MaxFaults
        BY <2>2, NetlinkBounds DEF DeletePodAnswerLost, Fault
      <3> QED
        BY <2>2, <3>1, <3>2 DEF DeletePodAnswerLost, Pods
    <2>3. CASE CallFails(t)
      <3>1. faults' \in 0..MaxFaults
        BY <2>3, NetlinkBounds DEF CallFails, Fault
      <3> QED
        BY <2>3, <3>1 DEF CallFails
    <2> QED
      BY <1>4, <2>1, <2>2, <2>3 DEF ToolFails
  <1>5. ASSUME NEW t \in Tools, DeletePod(t) PROVE TypeOK' /\ HoldersHold'
    <2>1. pod' \in Pods \cup {NoPod}
      BY <1>5, PodFacts DEF DeletePod, Pods
    <2> QED
      BY <1>5, <2>1 DEF DeletePod, Pods
  <1>6. CASE KubeletStarts \/ KubeletRemoves \/ Evicted
    <2>1. pod' \in Pods \cup {NoPod}
      BY <1>6, PodFacts DEF KubeletStarts, KubeletRemoves, Evicted, Pods, RunningPod
    <2>2. evicted' \subseteq Tools /\ evictions' \in 0..MaxEvictions
      BY <1>6, PodFacts, NetlinkBounds
      DEF KubeletStarts, KubeletRemoves, Evicted, Pods
    <2> QED
      BY <1>6, <2>1, <2>2 DEF KubeletStarts, KubeletRemoves, Evicted, Pods
  <1>7. CASE UNCHANGED vars
    BY <1>7 DEF vars
  <1> QED
    BY <1>1, <1>2, <1>3, <1>4, <1>5, <1>6, <1>7 DEF Next, TimedStep, Moves

(* Only a create lets one hold the pod, and it follows a Start.            *)
LEMMA HeldSinceStartStep ==
    ASSUME IInv, [Next]_vars
    PROVE  HeldSinceStart'
  <1> SUFFICES ASSUME NEW u \in Tools
               PROVE  /\ u \in held' \/ pc'[u] = "create" => starts'[u] >= 1
                      /\ pc'[u] = "check" => starts'[u] >= 2
    BY DEF HeldSinceStart
  <1>0. /\ starts[u] \in Nat
        /\ u \in held \/ pc[u] = "create" => starts[u] >= 1
        /\ pc[u] = "check" => starts[u] >= 2
    BY NetlinkBounds DEF IInv, TypeOK, HeldSinceStart
  <1>1. ASSUME NEW t \in Tools, Start(t)
        PROVE  /\ u \in held' \/ pc'[u] = "create" => starts'[u] >= 1
               /\ pc'[u] = "check" => starts'[u] >= 2
    <2>1. starts'[u] = IF u = t THEN starts[u] + 1 ELSE starts[u]
      BY <1>1 DEF IInv, TypeOK, Start
    <2>2. /\ pc'[u] = "check" => IF u = t THEN u \in held ELSE pc[u] = "check"
          /\ pc'[u] = "create" => u = t \/ pc[u] = "create"
      BY <1>1 DEF IInv, TypeOK, Start, Goto, AfterStart
    <2>3. held' = held
      BY <1>1 DEF Start
    <2> QED
      BY <1>0, <2>1, <2>2, <2>3
  <1>2. CASE ~\E t \in Tools : Start(t)
    <2>1. starts' = starts
      BY <1>2 DEF Next, vars, TimedStep, ToolFails, CheckRunning, CreatePod,
         PodStarted, StartTimeout, GetClockID, CleanUp, DeletePod, PodDeleted,
         DeletionTimeout, CreatePodAnswerLost, DeletePodAnswerLost, CallFails,
         Killed, KubeletStarts, KubeletRemoves, Evicted
    <2>2. pc'[u] = "check" => pc[u] = "check"
      BY <1>2 DEF IInv, TypeOK, Next, vars, TimedStep, ToolFails, CheckRunning,
         CreatePod, PodStarted, StartTimeout, GetClockID, CleanUp, DeletePod,
         PodDeleted, DeletionTimeout, CreatePodAnswerLost, DeletePodAnswerLost,
         CallFails, Killed, KubeletStarts, KubeletRemoves, Evicted, Goto
    <2>3. u \in held' \/ pc'[u] = "create" =>
              u \in held \/ pc[u] \in {"create", "check"}
      BY <1>2 DEF IInv, TypeOK, Next, vars, TimedStep, ToolFails, CheckRunning,
         CreatePod, PodStarted, StartTimeout, GetClockID, CleanUp, DeletePod,
         PodDeleted, DeletionTimeout, CreatePodAnswerLost, DeletePodAnswerLost,
         CallFails, Killed, KubeletStarts, KubeletRemoves, Evicted, Goto
    <2> QED
      BY <1>0, <2>1, <2>2, <2>3
  <1> QED
    BY <1>1, <1>2

(* With first Starts only nobody checks a pod found, and the pod belongs   *)
(* to the one who waits for it, asks it or is about to delete it.          *)
LEMMA OwnersFacts ==
    ASSUME IInv, FirstStarts, evicted = {}, NEW u \in Tools
    PROVE  /\ pc[u] # "check"
           /\ pc[u] \in {"wait", "clockID", "started", "delete"} =>
                  pod \in Pods /\ pod.owner = u /\ ~pod.going
           /\ pc[u] \in {"clockID", "started", "delete"} => pod.running
  <1>1. pc[u] # "check"
    BY NetlinkBounds DEF IInv, TypeOK, HeldSinceStart, FirstStarts
  <1>2. pc[u] = "wait" => pod \in Pods /\ pod.owner = u /\ ~pod.going
    BY DEF IInv, OnOwnPod, Pods
  <1>3. pc[u] \in {"clockID", "started", "delete"} =>
            pod = [owner |-> u, running |-> TRUE, going |-> FALSE]
    BY DEF IInv, OnOwnPod
  <1>4. pod = [owner |-> u, running |-> TRUE, going |-> FALSE] =>
            pod \in Pods /\ pod.owner = u /\ ~pod.going /\ pod.running
    BY DEF Pods
  <1> QED
    BY <1>1, <1>2, <1>3, <1>4

(* What is said of first Starts was true before if it is now.              *)
LEMMA FirstStartsBefore ==
    ASSUME IInv, [Next]_vars
    PROVE  /\ FirstStarts' => FirstStarts
           /\ evicted' = {} => evicted = {} /\ ~Evicted
  <1>1. ASSUME NEW u \in Tools PROVE starts'[u] <= 1 => starts[u] <= 1
    <2>1. starts[u] \in Nat
      BY NetlinkBounds DEF IInv, TypeOK
    <2>2. starts'[u] = starts[u] \/ starts'[u] = starts[u] + 1
      BY DEF IInv, TypeOK, Next, vars, TimedStep, ToolFails, Start, CheckRunning,
         CreatePod, PodStarted, StartTimeout, GetClockID, CleanUp, DeletePod,
         PodDeleted, DeletionTimeout, CreatePodAnswerLost, DeletePodAnswerLost,
         CallFails, Killed, KubeletStarts, KubeletRemoves, Evicted
    <2> QED
      BY <2>1, <2>2
  <1>2. evicted' = evicted \/ Evicted
    BY DEF Next, vars, TimedStep, ToolFails, Start, CheckRunning, CreatePod,
       PodStarted, StartTimeout, GetClockID, CleanUp, DeletePod, PodDeleted,
       DeletionTimeout, CreatePodAnswerLost, DeletePodAnswerLost, CallFails,
       Killed, KubeletStarts, KubeletRemoves, Evicted
  <1>3. Evicted => evicted' # {}
    BY DEF Evicted
  <1>4. evicted' = {} => evicted = {} /\ ~Evicted
    BY <1>2, <1>3
  <1> QED
    BY <1>1, <1>4 DEF FirstStarts

Asking == {"wait", "clockID", "started", "delete"}

(* Nobody's step makes another one's pod go, or replaces it.               *)
LEMMA OnOwnPodStep ==
    ASSUME IInv, [Next]_vars
    PROVE  OnOwnPod'
  <1> SUFFICES ASSUME FirstStarts', evicted' = {}, NEW u \in Tools,
                      pc'[u] \in Asking
               PROVE  /\ pc'[u] = "wait" =>
                          pod' \in [owner : {u}, running : BOOLEAN, going : {FALSE}]
                      /\ pc'[u] # "wait" =>
                          pod' = [owner |-> u, running |-> TRUE, going |-> FALSE]
    BY DEF OnOwnPod, Asking
  <1> DEFINE Own == /\ pc'[u] = "wait" =>
                          pod' \in [owner : {u}, running : BOOLEAN, going : {FALSE}]
                    /\ pc'[u] # "wait" =>
                          pod' = [owner |-> u, running |-> TRUE, going |-> FALSE]
  <1>1. FirstStarts /\ evicted = {} /\ ~Evicted
    BY FirstStartsBefore
  <1>2. /\ pc[u] # "check"
        /\ pc[u] \in Asking => pod \in Pods /\ pod.owner = u /\ ~pod.going
        /\ pc[u] \in {"clockID", "started", "delete"} => pod.running
    BY <1>1, OwnersFacts DEF Asking
  <1>3. /\ pc[u] = "wait" =>
               pod \in [owner : {u}, running : BOOLEAN, going : {FALSE}]
        /\ pc[u] \in {"clockID", "started", "delete"} =>
               pod = [owner |-> u, running |-> TRUE, going |-> FALSE]
    BY <1>1 DEF IInv, OnOwnPod
  <1>4. ASSUME pod' = pod, pc'[u] = pc[u] PROVE Own
    BY <1>3, <1>4 DEF Asking
  <1>5. ASSUME NEW t \in Tools, Start(t) \/ Moves(t) \/ CallFails(t) PROVE Own
    <2>1. pod' = pod
      BY <1>5 DEF Start, Moves, CheckRunning, PodStarted, StartTimeout, GetClockID,
         CleanUp, PodDeleted, DeletionTimeout, Killed, CallFails
    <2>2. \/ pc'[u] = pc[u]
          \/ pc[u] = "wait" /\ pc'[u] = "clockID" /\ (pod # NoPod => pod.running)
          \/ pc[u] = "clockID" /\ pc'[u] = "started"
          \/ pc[u] = "started" /\ pc'[u] = "delete"
      BY <1>2, <1>5 DEF IInv, TypeOK, Asking, Start, AfterStart, Moves, CheckRunning,
         PodStarted, StartTimeout, GetClockID, CleanUp, PodDeleted, DeletionTimeout,
         Killed, CallFails, Goto
    <2>3. CASE pc'[u] = pc[u]
      BY <1>4, <2>1, <2>3
    <2>4. CASE pc[u] = "wait" /\ pc'[u] = "clockID" /\ (pod # NoPod => pod.running)
      <3>1. pod \in Pods /\ pod # NoPod /\ pod.owner = u /\ ~pod.going
        BY <1>2, <2>4, PodFacts DEF Asking
      <3>2. pod.running
        BY <2>4, <3>1
      <3>3. pod = [owner |-> u, running |-> TRUE, going |-> FALSE]
        BY <3>1, <3>2 DEF Pods
      <3> QED
        BY <2>1, <2>4, <3>3
    <2>5. CASE pc[u] = "clockID" /\ pc'[u] = "started"
      BY <1>3, <2>1, <2>5
    <2>6. CASE pc[u] = "started" /\ pc'[u] = "delete"
      BY <1>3, <2>1, <2>6
    <2> QED
      BY <2>2, <2>3, <2>4, <2>5, <2>6
  <1>6. ASSUME NEW t \in Tools, CreatePod(t) \/ CreatePodAnswerLost(t) PROVE Own
    <2>1. CASE pod = NoPod
      <3>1. u = t /\ CreatePod(t)
        <4>1. pc[u] \notin Asking
          BY <1>2, <2>1, PodFacts
        <4> QED
          BY <1>6, <4>1 DEF IInv, TypeOK, CreatePod, CreatePodAnswerLost, Goto, Asking
      <3>2. pc'[u] = "wait" /\ pod' = NewPod(u)
        BY <2>1, <3>1 DEF IInv, TypeOK, CreatePod, Goto
      <3> QED
        BY <3>2, NewPodFacts
    <2>2. CASE pod # NoPod
      <3>1. pod' = pod /\ pc'[u] = pc[u]
        BY <1>6, <2>2 DEF IInv, TypeOK, CreatePod, CreatePodAnswerLost, Goto, Asking
      <3> QED
        BY <1>4, <3>1
    <2> QED
      BY <2>1, <2>2
  <1>7. ASSUME NEW t \in Tools, DeletePod(t) \/ DeletePodAnswerLost(t) PROVE Own
    <2>1. pc[t] = "delete"
      BY <1>7 DEF DeletePod, DeletePodAnswerLost, Goto
    <2>2. pod.owner = t
      BY <1>1, <2>1, OwnersFacts
    <2>3. u # t /\ pc'[u] = pc[u]
      BY <1>7, <2>1 DEF IInv, TypeOK, DeletePod, DeletePodAnswerLost, Goto, Asking
    <2> QED
      BY <1>2, <2>2, <2>3
  <1>8. CASE KubeletStarts \/ KubeletRemoves
    <2>1. pc'[u] = pc[u]
      BY <1>8 DEF KubeletStarts, KubeletRemoves
    <2>2. KubeletStarts /\ pc[u] = "wait"
      BY <1>2, <1>8, <2>1 DEF KubeletStarts, KubeletRemoves, Asking
    <2>3. pod \in Pods /\ pod.owner = u /\ ~pod.going
      BY <1>2, <2>2 DEF Asking
    <2>4. RunningPod \in Pods /\ RunningPod.owner = u /\ ~RunningPod.going
      BY <2>3, PodFacts
    <2>5. pod' = RunningPod
      BY <2>2 DEF KubeletStarts, RunningPod
    <2>6. pod' \in [owner : {u}, running : BOOLEAN, going : {FALSE}]
      BY <2>4, <2>5 DEF Pods
    <2> QED
      BY <2>1, <2>2, <2>6
  <1>9. CASE UNCHANGED vars
    BY <1>4, <1>9 DEF vars
  <1> QED
    BY <1>1, <1>5, <1>6, <1>7, <1>8, <1>9 DEF Next, TimedStep, ToolFails, Moves

(* A pod is created for one who waits for it, and kept by nobody idle.     *)
LEMMA CleanedUpStep ==
    ASSUME IInv, [Next]_vars
    PROVE  CleanedUpLeavesNothing'
  <1> SUFFICES ASSUME NEW u \in Tools, pc'[u] = "idle", pod' # NoPod
               PROVE  pod'.owner # u
    BY DEF CleanedUpLeavesNothing
  <1>1. pc[u] = "idle" /\ pod # NoPod => pod.owner # u
    BY DEF IInv, CleanedUpLeavesNothing
  <1>2. pod # NoPod => pod \in Pods
    BY DEF IInv, TypeOK, Pods
  <1>3. ASSUME NEW t \in Tools, Start(t) \/ Moves(t) \/ CallFails(t)
        PROVE  pod'.owner # u
    <2>1. pod' = pod
      BY <1>3 DEF Start, Moves, CheckRunning, PodStarted, StartTimeout, GetClockID,
         CleanUp, PodDeleted, DeletionTimeout, Killed, CallFails
    <2>2. pc[u] = "idle" \/ pod = NoPod
      BY <1>3 DEF IInv, TypeOK, Start, AfterStart, Moves, CheckRunning, PodStarted,
         StartTimeout, GetClockID, CleanUp, PodDeleted, DeletionTimeout, Killed,
         CallFails, Goto
    <2> QED
      BY <1>1, <2>1, <2>2
  <1>4. ASSUME NEW t \in Tools, CreatePod(t) \/ CreatePodAnswerLost(t)
        PROVE  pod'.owner # u
    <2>1. u # t /\ pc[u] = "idle"
      BY <1>4 DEF IInv, TypeOK, CreatePod, CreatePodAnswerLost, Goto
    <2>2. (pod' = pod /\ pod # NoPod) \/ pod' = NewPod(t)
      BY <1>4 DEF CreatePod, CreatePodAnswerLost
    <2> QED
      BY <1>1, <2>1, <2>2, NewPodFacts
  <1>5. ASSUME NEW t \in Tools, DeletePod(t) \/ DeletePodAnswerLost(t)
        PROVE  pod'.owner # u
    <2>1. pc[u] = "idle"
      BY <1>5 DEF IInv, TypeOK, DeletePod, DeletePodAnswerLost, Goto
    <2>2. pod # NoPod /\ pod' = Going
      BY <1>5 DEF DeletePod, DeletePodAnswerLost
    <2> QED
      BY <1>1, <1>2, <2>1, <2>2, PodFacts
  <1>6. CASE KubeletStarts \/ KubeletRemoves \/ Evicted
    <2>1. pc[u] = "idle" /\ pod # NoPod /\ pod' \in {RunningPod, Going}
      BY <1>6 DEF KubeletStarts, KubeletRemoves, Evicted, RunningPod
    <2> QED
      BY <1>1, <1>2, <2>1, PodFacts
  <1>7. CASE UNCHANGED vars
    BY <1>1, <1>7 DEF vars
  <1> QED
    BY <1>3, <1>4, <1>5, <1>6, <1>7 DEF Next, TimedStep, ToolFails, Moves

(* The pod's invariant: types, who holds it, whose it is.                  *)
THEOREM InvariantIInv == Spec => []IInv
  <1>1. Init => IInv
    <2> SUFFICES ASSUME Init PROVE IInv
      OBVIOUS
    <2>1. TypeOK
      BY NetlinkBounds DEF Init, TypeOK, States, InCleanUp
    <2>2. HoldersHold /\ HeldSinceStart
      BY DEF Init, HoldersHold, HeldSinceStart, Holding, InCleanUp
    <2>3. OnOwnPod
      BY DEF Init, OnOwnPod
    <2>4. CleanedUpLeavesNothing
      BY DEF Init, CleanedUpLeavesNothing
    <2> QED
      BY <2>1, <2>2, <2>3, <2>4 DEF IInv
  <1>2. IInv /\ [Next]_vars => IInv'
    BY TypeCorrectStep, HeldSinceStartStep, OnOwnPodStep, CleanedUpStep DEF IInv
  <1> QED
    BY <1>1, <1>2, PTL DEF Spec

(* A collector that has started is on its own, running pod.                *)
THEOREM StartsOnOwnPod == Spec => []StartedOnOwnPod
  <1>1. IInv => StartedOnOwnPod
    BY DEF IInv, OnOwnPod, StartedOnOwnPod
  <1> QED
    BY <1>1, InvariantIInv, PTL

(* A CleanUp that returned left no pod of its collector.                   *)
THEOREM CleanUpLeavesNothing == Spec => []CleanedUpLeavesNothing
  <1>1. IInv => CleanedUpLeavesNothing
    BY DEF IInv
  <1> QED
    BY <1>1, InvariantIInv, PTL

(* No invocation removes or replaces what a stopped one left behind.       *)
LEMMA LeftoverStep ==
    ASSUME IInv, [Next]_vars, Leftover, evicted' = {}, FirstStarts
    PROVE  Leftover'
  <1>1. evicted = {} /\ ~Evicted
    BY FirstStartsBefore
  <1>2. pod # NoPod /\ pod \in Pods /\ ~pod.going
    BY DEF IInv, TypeOK, Leftover, Pods
  <1>3. pod.owner \in Tools /\ pc[pod.owner] \in Stopped
    BY <1>2, PodFacts DEF Leftover
  <1>4. ASSUME NEW t \in Tools PROVE ~DeletePod(t) /\ ~DeletePodAnswerLost(t)
    BY <1>1, <1>3, OwnersFacts DEF DeletePod, DeletePodAnswerLost, Goto, Stopped
  <1>5. ~KubeletRemoves
    BY <1>2 DEF KubeletRemoves
  <1>6. pc'[pod.owner] = pc[pod.owner]
    BY <1>1, <1>3, <1>4, <1>5 DEF IInv, TypeOK, Next, vars, TimedStep, ToolFails, Start,
       CheckRunning, CreatePod, PodStarted, StartTimeout, GetClockID, CleanUp,
       PodDeleted, DeletionTimeout, CreatePodAnswerLost, CallFails, Killed,
       KubeletStarts, Goto, Stopped, InStart, InCleanUp
  <1>7. pod' = pod \/ pod' = RunningPod
    BY <1>1, <1>2, <1>4, <1>5 DEF Next, vars, TimedStep, ToolFails, Start,
       CheckRunning, CreatePod, PodStarted, StartTimeout, GetClockID, CleanUp,
       PodDeleted, DeletionTimeout, CreatePodAnswerLost, CallFails, Killed,
       KubeletStarts, RunningPod
  <1>8. pod'.owner = pod.owner /\ pod' # NoPod /\ ~pod'.going
    BY <1>2, <1>7, PodFacts
  <1> QED
    BY <1>3, <1>6, <1>8 DEF Leftover

(* What a stopped invocation left stays while nobody outside the tool       *)
(* deletes it: no createPod or deletePod of another's first Start takes it. *)
THEOREM LeftoversStay == Spec => LeftoverStays
  <1>1. IInv /\ [Next]_vars =>
            [Leftover /\ evicted' = {} /\ FirstStarts => Leftover']_vars
    BY LeftoverStep
  <1> QED
    BY <1>1, InvariantIInv, PTL DEF Spec, LeftoverStays
===============================================================================
