------------------------- MODULE DaemonContextProofs -------------------------
(* Proofs about DaemonContext, for any set of polls and any number of      *)
(* restarts.                                                               *)
EXTENDS DaemonContext, FiniteSetTheorems, TLAPS

(* FindPodNameFromPrefix either has no answer or the oldest listed pod, it *)
(* being the only one.                                                     *)
LEMMA FoundIsOldest ==
    ASSUME TypeOK
    PROVE  /\ FindPodNameFromPrefix \in listed \cup {Unknown}
           /\ NotNewerThanListed(FindPodNameFromPrefix)
<1> USE DaemonBounds DEF Pods, Unknown
<1>1. listed \subseteq Nat /\ IsFiniteSet(listed)
    <2>1. 1 \in Int /\ MaxRestarts + 1 \in Int
        OBVIOUS
    <2>2. IsFiniteSet(1..(MaxRestarts + 1))
        BY <2>1, FS_Interval
    <2>3. listed \in SUBSET (1..(MaxRestarts + 1))
        BY DEF TypeOK
    <2>4. IsFiniteSet(listed)
        BY <2>2, <2>3, FS_Subset, Zenon
    <2> QED
        BY <2>3, <2>4
<1>2. CASE Cardinality(listed) = 1
    <2>1. PICK n : listed = {n}
        BY <1>1, <1>2, FS_Singleton
    <2>2. FindPodNameFromPrefix = n
        BY <1>2, <2>1 DEF FindPodNameFromPrefix
    <2> QED
        BY <1>1, <2>1, <2>2 DEF NotNewerThanListed
<1>3. CASE Cardinality(listed) # 1
    BY <1>1, <1>3 DEF FindPodNameFromPrefix, NotNewerThanListed
<1> QED
    BY <1>2, <1>3

LEMMA InitIInv == Init => IInv
BY DaemonBounds DEF Init, IInv, TypeOK, Pods, Idle, Unknown, NamesWereCreated,
                    NoOlderPodListed, NotNewerThanListed

(* What a poll that moves on leaves as it was.                             *)
LEMMA MovesKeepsTypes ==
    ASSUME TypeOK, NEW p \in Polls, NEW from,
           NEW to \in {"idle", "request", "refresh", "found"},
           NEW name \in Pods \cup {Unknown}, Moves(p, from, to, name)
    PROVE  /\ polls' \in [Polls -> [at : {"idle", "request", "refresh", "found"},
                                    name : Pods \cup {Unknown}]]
           /\ polls'[p] = [at |-> to, name |-> name]
           /\ \A q \in Polls \ {p} : polls'[q] = polls[q]
BY DEF TypeOK, Moves

(* A poll that moves to "found" only with an old enough name, and with one *)
(* that was created, keeps the invariant, the rest being unchanged.        *)
LEMMA MovesKeepsIInv ==
    ASSUME IInv, NEW p \in Polls, NEW from,
           NEW to \in {"idle", "request", "refresh", "found"},
           NEW name \in Pods \cup {Unknown}, Moves(p, from, to, name),
           name <= newest, to = "found" => NotNewerThanListed(name),
           UNCHANGED <<podName, listed, newest>>
    PROVE  IInv'
<1>1. TypeOK
    BY DEF IInv
<1>2. /\ polls' \in [Polls -> [at : {"idle", "request", "refresh", "found"},
                               name : Pods \cup {Unknown}]]
      /\ polls'[p] = [at |-> to, name |-> name]
      /\ \A q \in Polls \ {p} : polls'[q] = polls[q]
    BY <1>1, MovesKeepsTypes
<1>3. TypeOK'
    BY <1>1, <1>2 DEF TypeOK, Pods
<1>4. NamesWereCreated'
    BY <1>2 DEF IInv, NamesWereCreated
<1>5. NoOlderPodListed'
    BY <1>2 DEF IInv, NoOlderPodListed, NotNewerThanListed
<1> QED
    BY <1>3, <1>4, <1>5 DEF IInv

LEMMA NextIInv == IInv /\ [Next]_vars => IInv'
<1> SUFFICES ASSUME IInv, [Next]_vars PROVE IInv'
    OBVIOUS
<1> USE DaemonBounds
<1>1. TypeOK /\ NamesWereCreated /\ NoOlderPodListed
    BY DEF IInv
<1>2. podName \in Pods /\ newest \in Pods /\ Unknown <= newest /\ newest \in Nat
    BY <1>1 DEF TypeOK, Pods, Unknown
<1>3. ASSUME NEW p \in Polls, BuildRequest(p) PROVE IInv'
    BY <1>1, <1>2, <1>3, MovesKeepsIInv DEF BuildRequest, NamesWereCreated
<1>4. ASSUME NEW p \in Polls, CommandRuns(p) PROVE IInv'
    BY <1>2, <1>4, MovesKeepsIInv DEF CommandRuns
<1>5. ASSUME NEW p \in Polls, NotFound(p) PROVE IInv'
    BY <1>2, <1>5, MovesKeepsIInv DEF NotFound
<1>6. ASSUME NEW p \in Polls, ListPods(p) PROVE IInv'
    <2>1. /\ FindPodNameFromPrefix \in listed \cup {Unknown}
          /\ NotNewerThanListed(FindPodNameFromPrefix)
        BY <1>1, FoundIsOldest
    <2>2. /\ FindPodNameFromPrefix \in Pods \cup {Unknown}
          /\ FindPodNameFromPrefix <= newest
        BY <1>1, <1>2, <2>1 DEF TypeOK, NamesWereCreated
    <2> QED
        BY <1>6, <2>1, <2>2, MovesKeepsIInv DEF ListPods
<1>7. ASSUME NEW p \in Polls, ListFails(p) PROVE IInv'
    <2>1. NotNewerThanListed(Unknown)
        BY <1>1 DEF TypeOK, Pods, Unknown, NotNewerThanListed
    <2> QED
        BY <1>2, <1>7, <2>1, MovesKeepsIInv DEF ListFails
<1>8. ASSUME NEW p \in Polls, Refresh(p) PROVE IInv'
    <2>1. /\ polls' \in [Polls -> [at : {"idle", "request", "refresh", "found"},
                                   name : Pods \cup {Unknown}]]
          /\ polls'[p] = [at |-> "idle", name |-> Unknown]
          /\ \A q \in Polls \ {p} : polls'[q] = polls[q]
        BY <1>1, <1>8, MovesKeepsTypes DEF Refresh
    <2>2. /\ podName' \in Pods /\ podName' <= newest
          /\ NotNewerThanListed(podName')
        BY <1>1, <1>2, <1>8
        DEF Refresh, Moves, TypeOK, NamesWereCreated, NoOlderPodListed
    <2>3. listed' = listed /\ newest' = newest
        BY <1>8 DEF Refresh
    <2>4. TypeOK'
        BY <1>1, <2>1, <2>2, <2>3 DEF TypeOK, Pods
    <2>5. NamesWereCreated'
        BY <1>1, <1>2, <2>1, <2>2, <2>3 DEF NamesWereCreated
    <2>6. NoOlderPodListed'
        BY <1>1, <2>1, <2>2, <2>3 DEF NoOlderPodListed, NotNewerThanListed
    <2> QED
        BY <2>4, <2>5, <2>6 DEF IInv
<1>9. ASSUME NEW n \in listed, PodGone(n) PROVE IInv'
    <2>1. /\ listed' \subseteq listed
          /\ podName' = podName /\ newest' = newest /\ polls' = polls
        BY <1>9 DEF PodGone
    <2> QED
        BY <1>1, <2>1
        DEF IInv, TypeOK, Pods, NamesWereCreated, NoOlderPodListed, NotNewerThanListed
<1>10. CASE PodComes
    <2>1. /\ listed' = listed \cup {newest'} /\ newest' = newest + 1
          /\ newest' \in Pods /\ podName' = podName /\ polls' = polls
        BY <1>10 DEF PodComes
    <2>2. \A m \in Pods \cup {Unknown} : m <= newest => m <= newest'
        BY <1>2, <2>1 DEF Pods, Unknown
    <2>3. TypeOK'
        BY <1>1, <2>1 DEF TypeOK, Pods
    <2>4. NamesWereCreated'
        <3>1. podName' <= newest' /\ \A n \in listed' : n <= newest'
            BY <1>1, <1>2, <2>1, <2>2 DEF TypeOK, NamesWereCreated, Pods
        <3>2. \A p \in Polls : polls[p].name \in Pods \cup {Unknown}
            BY <1>1 DEF TypeOK
        <3>3. \A p \in Polls : polls'[p].name <= newest'
            BY <1>1, <2>1, <2>2, <3>2 DEF NamesWereCreated
        <3> QED
            BY <3>1, <3>3 DEF NamesWereCreated
    <2>5. NoOlderPodListed'
        BY <1>1, <2>1, <2>2
        DEF TypeOK, NamesWereCreated, NoOlderPodListed, NotNewerThanListed
    <2> QED
        BY <2>3, <2>4, <2>5 DEF IInv
<1>11. CASE UNCHANGED vars
    BY <1>1, <1>11
    DEF vars, IInv, TypeOK, Pods, NamesWereCreated, NoOlderPodListed, NotNewerThanListed
<1> QED
    BY <1>3, <1>4, <1>5, <1>6, <1>7, <1>8, <1>9, <1>10, <1>11 DEF Next, PollStep

(* Nobody uses, or is about to store, the name of a pod when an older one  *)
(* is still listed.                                                        *)
THEOREM NoOlderPodIsListed == Spec => []IInv
<1> QED
    BY InitIInv, NextIInv, PTL DEF Spec

(* When a slow lookup takes the context back to an older pod, that pod is  *)
(* gone, so that the next command notices.                                 *)
THEOREM FallsBackOnlyToAGone == Spec => FallsBackOnlyToAGonePod
<1>1. IInv /\ [Next]_vars => [podName' < podName => podName' \notin listed']_vars
    <2> SUFFICES ASSUME IInv, Next, podName' < podName
                 PROVE  podName' \notin listed'
        BY DEF vars
    <2> USE DaemonBounds
    <2>1. PICK p \in Polls : Refresh(p)
        BY DEF Next, PollStep, BuildRequest, CommandRuns, NotFound, ListPods,
               ListFails, PodGone, PodComes, IInv, TypeOK, Pods
    <2>2. listed' = listed /\ NotNewerThanListed(podName) /\ podName \in Nat
        BY <2>1 DEF Refresh, IInv, TypeOK, Pods, NoOlderPodListed
    <2>3. podName' \in Nat
        BY <2>1 DEF Refresh, Moves, IInv, TypeOK, Pods, Unknown
    <2> QED
        BY <2>2, <2>3 DEF NotNewerThanListed
<1> QED
    BY <1>1, NoOlderPodIsListed, PTL DEF Spec, FallsBackOnlyToAGonePod
=============================================================================
