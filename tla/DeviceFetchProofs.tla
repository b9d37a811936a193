--------------------------- MODULE DeviceFetchProofs ---------------------------
(***************************************************************************)
(* The fetching of records, for any number of polls and any dump: what the *)
(* tables of fetchers, results and fields have to agree on, what becomes   *)
(* of the entries of a dump, and the invariant of the polls.               *)
(***************************************************************************)
EXTENDS DeviceFetch, WellFoundedInduction, TLAPS

(* Induction up to a number; of a set, as a predicate cannot be a          *)
(* parameter, and from the well-foundedness of <.                          *)
LEMMA InductionTo ==
    ASSUME NEW n \in Nat, NEW S, 0 \in S, \A k \in 1..n : k - 1 \in S => k \in S
    PROVE  0..n \subseteq S
  <1> DEFINE Less == {ss \in Nat \X Nat : ss[1] < ss[2]}
             Bad == (0..n) \ S
  <1> SUFFICES ASSUME Bad # {} PROVE FALSE
    OBVIOUS
  <1>1. IsWellFoundedOn(Less, Nat)
    BY NatLessThanWellFounded DEF OpToRel
  <1>2. Bad \subseteq Nat
    OBVIOUS
  <1>3. PICK k \in Bad : \A j \in Bad : ~ (<<j, k>> \in Less)
    <2> HIDE DEF Less, Bad
    <2> QED
      BY <1>1, <1>2, WFMin
  <1>4. \A j \in Bad : ~ (j < k)
    <2> HIDE DEF Bad
    <2> QED
      BY <1>2, <1>3
  <1>5. k \in 1..n /\ k - 1 \in 0..n /\ k - 1 < k
    OBVIOUS
  <1> QED
    BY <1>4, <1>5

\* The results of a loop: step tells what to make of the result so far in a turn.
Results(r, n, base, step) == r[0] = base /\ \A k \in 1..n : r[k] = step[<<r[k - 1], k>>]

(* A loop whose steps stay in V has results.                               *)
LEMMA ResultsExist ==
    ASSUME NEW n \in Nat, NEW V, NEW base \in V, NEW step \in [V \X (1..n) -> V]
    PROVE  \E r \in [0..n -> V] : Results(r, n, base, step)
  <1> DEFINE Solved == {k \in 0..n : \E r \in [0..k -> V] : Results(r, k, base, step)}
  <1>1. 0 \in Solved
    <2>1. [k \in 0..0 |-> base] \in [0..0 -> V]
      OBVIOUS
    <2>2. Results([k \in 0..0 |-> base], 0, base, step)
      BY DEF Results
    <2> QED
      BY <2>1, <2>2
  <1>2. ASSUME NEW k \in 1..n, k - 1 \in Solved PROVE k \in Solved
    <2>1. PICK r \in [0..(k - 1) -> V] : Results(r, k - 1, base, step)
      BY <1>2
    <2> DEFINE new == [j \in 0..k |-> IF j = k THEN step[<<r[k - 1], k>>] ELSE r[j]]
    <2>2. step[<<r[k - 1], k>>] \in V
      BY <2>1
    <2>3. new \in [0..k -> V]
      BY <2>1, <2>2
    <2>4. \A j \in 0..(k - 1) : new[j] = r[j]
      OBVIOUS
    <2>5. new[k] = step[<<r[k - 1], k>>]
      OBVIOUS
    <2> HIDE DEF new
    <2>6. \A j \in 1..k : new[j] = step[<<new[j - 1], j>>]
      <3> TAKE j \in 1..k
      <3>1. CASE j = k
        BY <2>4, <2>5, <3>1
      <3>2. CASE j # k
        <4>1. j \in 1..(k - 1) /\ j - 1 \in 0..(k - 1) /\ j \in 0..(k - 1)
          BY <3>2
        <4> QED
          BY <2>1, <2>4, <4>1 DEF Results
      <3> QED
        BY <3>1, <3>2
    <2>7. Results(new, k, base, step)
      BY <2>1, <2>4, <2>6 DEF Results
    <2> QED
      BY <2>3, <2>7
  <1> HIDE DEF Solved
  <1>3. n \in Solved
    BY <1>1, <1>2, InductionTo
  <1> QED
    BY <1>3 DEF Solved

-----------------------------------------------------------------------------
(* The states that the entries of a dump leave.                            *)
StateNames == {"eec", "pps"}
StateValues == [type : {"string"}, is : {"2", "-1"}]
StateMaps == UNION {[D -> StateValues] : D \in SUBSET StateNames}

Own(entries, type) ==
    {i \in DOMAIN entries : entries[i].clock = "own" /\ entries[i].type = type}

OwnState(e) == Value("string", StateOf(e.status))

(* One turn of the loop over the entries.                                  *)
LEMMA AddStateFacts ==
    ASSUME NEW states \in StateMaps, NEW e \in Entries
    PROVE  /\ AddState(states, e) \in StateMaps
           /\ e.clock # "own" => AddState(states, e) = states
           /\ e.clock = "own" =>
                /\ DOMAIN AddState(states, e) = DOMAIN states \cup {e.type}
                /\ AddState(states, e)[e.type] = OwnState(e)
                /\ \A t \in DOMAIN states \ {e.type} : AddState(states, e)[t] = states[t]
  <1> DEFINE new == [type \in {e.type} |-> OwnState(e)]
  <1>1. e.type \in StateNames /\ OwnState(e) \in StateValues
    BY DEF Entries, StateNames, StateValues, OwnState, Value, StateOf
  <1>2. CASE e.clock # "own"
    BY <1>2 DEF AddState, OfThisClock
  <1>3. CASE e.clock = "own"
    <2>1. AddState(states, e) = Over(new, states)
      BY <1>3 DEF AddState, OfThisClock, OwnState
    <2>2. PICK D \in SUBSET StateNames : states \in [D -> StateValues]
      BY DEF StateMaps
    <2>3. DOMAIN new = {e.type} /\ new[e.type] = OwnState(e)
      OBVIOUS
    <2> HIDE DEF new
    <2>4. Over(new, states) \in [D \cup {e.type} -> StateValues]
      BY <1>1, <2>2, <2>3 DEF Over
    <2>5. Over(new, states) \in StateMaps
      BY <1>1, <2>4 DEF StateMaps
    <2>6. DOMAIN Over(new, states) = DOMAIN states \cup {e.type}
      BY <2>3 DEF Over
    <2>7. Over(new, states)[e.type] = OwnState(e)
      BY <2>3 DEF Over
    <2>8. \A t \in DOMAIN states \ {e.type} : Over(new, states)[t] = states[t]
      BY <2>3 DEF Over
    <2> QED
      BY <1>3, <2>1, <2>5, <2>6, <2>7, <2>8
  <1> QED
    BY <1>2, <1>3

(* The states after each turn of the loop.                                 *)
LEMMA StateTurns ==
    ASSUME NEW entries \in Seq(Entries)
    PROVE  \E r \in [0..Len(entries) -> StateMaps] :
              /\ r[0] = <<>>
              /\ \A k \in 1..Len(entries) : r[k] = AddState(r[k - 1], entries[k])
              /\ EntryStates(entries) = r[Len(entries)]
  <1> DEFINE n == Len(entries)
             V == StateMaps
             base == << >>
             step == [p \in V \X (1..n) |-> AddState(p[1], entries[p[2]])]
             IsLoop(g) == g = [k \in 0..n |->
                                 IF k = 0 THEN base ELSE AddState(g[k - 1], entries[k])]
             after == CHOOSE g : IsLoop(g)
  <1>1. n \in Nat
    OBVIOUS
  <1>2. \A i \in 1..n : entries[i] \in Entries
    OBVIOUS
  <1>3. EntryStates(entries) = after[n]
    BY DEF EntryStates
  <1>4. base \in V
    <2>1. base \in [{} -> StateValues]
      OBVIOUS
    <2> HIDE DEF base
    <2> QED
      BY <2>1 DEF StateMaps
  <1> HIDE DEF n, V
  <1>5. \A p \in V \X (1..n) : AddState(p[1], entries[p[2]]) \in V
    BY <1>2, AddStateFacts DEF V
  <1>6. step \in [V \X (1..n) -> V]
    BY <1>5
  <1>7. \A res \in V, i \in 1..n : step[<<res, i>>] = AddState(res, entries[i])
    OBVIOUS
  <1> HIDE DEF base, step
  <1>8. PICK r \in [0..n -> V] : Results(r, n, base, step)
    BY <1>1, <1>4, <1>6, ResultsExist
  <1>9. \A k \in 1..n : r[k] = AddState(r[k - 1], entries[k])
    <2> TAKE k \in 1..n
    <2>1. k - 1 \in 0..n
      BY <1>1
    <2> QED
      BY <1>7, <1>8, <2>1 DEF Results
  <1>10. IsLoop(r)
    <2>1. \A k \in 0..n : r[k] = IF k = 0 THEN base ELSE AddState(r[k - 1], entries[k])
      BY <1>1, <1>8, <1>9 DEF Results
    <2> QED
      BY <2>1
  <1>11. IsLoop(after)
    BY <1>10
  <1> HIDE DEF after
  <1>12. after = r
    <2> DEFINE Same == {k \in 0..n : after[k] = r[k]}
    <2>1. 0 \in Same
      BY <1>1, <1>10, <1>11
    <2>2. ASSUME NEW k \in 1..n, k - 1 \in Same PROVE k \in Same
      <3>1. k \in 0..n /\ k # 0
        BY <1>1
      <3>2. after[k] = AddState(after[k - 1], entries[k])
        BY <1>11, <3>1
      <3> QED
        BY <1>9, <2>2, <3>1, <3>2
    <2> HIDE DEF Same
    <2>3. 0..n \subseteq Same
      BY <1>1, <2>1, <2>2, InductionTo
    <2> QED
      BY <1>8, <1>11, <2>3 DEF Same
  <1> QED
    BY <1>3, <1>8, <1>9, <1>12 DEF Results, n, V, base

(* The loop over a dump: a state for each type that an entry of this clock *)
(* has, and the state of the last such entry.                              *)
LEMMA StatesOfADump ==
    ASSUME NEW entries \in Seq(Entries)
    PROVE  /\ EntryStates(entries) \in StateMaps
           /\ \A type \in StateNames :
                /\ type \in DOMAIN EntryStates(entries) <=> Own(entries, type) # {}
                /\ \A i \in Own(entries, type) :
                      (\A j \in Own(entries, type) : j <= i)
                        => EntryStates(entries)[type] = OwnState(entries[i])
  <1>1. PICK r \in [0..Len(entries) -> StateMaps] :
              /\ r[0] = <<>>
              /\ \A k \in 1..Len(entries) : r[k] = AddState(r[k - 1], entries[k])
              /\ EntryStates(entries) = r[Len(entries)]
    BY StateTurns
  <1> DEFINE n == Len(entries)
             OwnTo(k, type) == {i \in Own(entries, type) : i <= k}
             Right == {k \in 0..n : \A type \in StateNames :
                        /\ type \in DOMAIN r[k] <=> OwnTo(k, type) # {}
                        /\ \A i \in OwnTo(k, type) :
                              (\A j \in OwnTo(k, type) : j <= i)
                                => r[k][type] = OwnState(entries[i])}
  <1>2. n \in Nat /\ entries \in [1..n -> Entries]
    OBVIOUS
  <1>3. 0 \in Right
    <2>1. \A type : OwnTo(0, type) = {}
      BY <1>2 DEF Own
    <2> HIDE DEF OwnTo
    <2> QED
      BY <1>1, <1>2, <2>1
  <1>4. ASSUME NEW k \in 1..n, k - 1 \in Right PROVE k \in Right
    <2> DEFINE states == r[k - 1]
               e == entries[k]
    <2>1. states \in StateMaps /\ e \in Entries /\ k \in 0..n
      BY <1>1, <1>2
    <2>2. r[k] = AddState(states, e)
      BY <1>1
    <2>3. ASSUME NEW type \in StateNames
          PROVE  /\ type \in DOMAIN states <=> OwnTo(k - 1, type) # {}
                 /\ \A i \in OwnTo(k - 1, type) :
                       (\A j \in OwnTo(k - 1, type) : j <= i)
                         => states[type] = OwnState(entries[i])
      BY <1>4
    <2>4. ASSUME NEW type \in StateNames
          PROVE  /\ OwnTo(k, type) =
                      IF e.clock = "own" /\ e.type = type
                      THEN OwnTo(k - 1, type) \cup {k} ELSE OwnTo(k - 1, type)
                 /\ \A i \in OwnTo(k - 1, type) : i \in Nat /\ i < k
      BY <1>2 DEF Own
    <2> HIDE DEF states, e, OwnTo
    <2>5. ASSUME NEW type \in StateNames
          PROVE  type \in DOMAIN r[k] <=> OwnTo(k, type) # {}
      <3>1. CASE e.clock = "own" /\ e.type = type
        <4>1. type \in DOMAIN r[k]
          <5>1. DOMAIN AddState(states, e) = DOMAIN states \cup {e.type}
            BY <2>1, <3>1, AddStateFacts
          <5> QED
            BY <2>2, <3>1, <5>1
        <4>2. k \in OwnTo(k, type)
          BY <2>4, <3>1
        <4> QED
          BY <4>1, <4>2
      <3>2. CASE ~ (e.clock = "own" /\ e.type = type)
        <4>1. OwnTo(k, type) = OwnTo(k - 1, type)
          BY <2>4, <3>2
        <4>2. type \in DOMAIN r[k] <=> type \in DOMAIN states
          BY <2>1, <2>2, <3>2, AddStateFacts
        <4> QED
          BY <2>3, <4>1, <4>2
      <3> QED
        BY <3>1, <3>2
    <2>6. ASSUME NEW type \in StateNames, NEW i \in OwnTo(k, type),
                 \A j \in OwnTo(k, type) : j <= i
          PROVE  r[k][type] = OwnState(entries[i])
      <3>1. CASE e.clock = "own" /\ e.type = type
        <4>1. i = k
          BY <2>4, <2>6, <3>1
        <4>2. r[k][e.type] = OwnState(e)
          <5>1. AddState(states, e)[e.type] = OwnState(e)
            BY <2>1, <3>1, AddStateFacts
          <5> QED
            BY <2>2, <5>1
        <4>3. e = entries[i]
          BY <4>1 DEF e
        <4> QED
          BY <3>1, <4>2, <4>3
      <3>2. CASE ~ (e.clock = "own" /\ e.type = type)
        <4>1. OwnTo(k, type) = OwnTo(k - 1, type)
          BY <2>4, <3>2
        <4>2. states[type] = OwnState(entries[i]) /\ type \in DOMAIN states
          BY <2>3, <2>6, <4>1
        <4>3. r[k][type] = states[type]
          BY <2>1, <2>2, <3>2, <4>2, AddStateFacts
        <4> QED
          BY <4>2, <4>3
      <3> QED
        BY <3>1, <3>2
    <2> QED
      BY <2>1, <2>5, <2>6
  <1> HIDE DEF Right
  <1>5. n \in Right
    <2> HIDE DEF n
    <2> QED
      BY <1>2, <1>3, <1>4, InductionTo
  <1>6. \A type : OwnTo(n, type) = Own(entries, type)
    BY <1>2 DEF Own
  <1>7. r[n] \in StateMaps /\ EntryStates(entries) = r[n]
    BY <1>1, <1>2
  <1> HIDE DEF OwnTo, n
  <1> QED
    BY <1>5, <1>6, <1>7 DEF Right

-----------------------------------------------------------------------------
(* What the tables of a fetcher have to agree on: every field of the       *)
(* struct is a result or an output, and of the field's type.               *)
Agrees(f) ==
    /\ DOMAIN Fields[f] \ StateNames \subseteq DOMAIN Yields[f] \cup Commands[f]
    /\ \A x \in DOMAIN Fields[f] \cap DOMAIN Yields[f] : Yields[f][x] = Fields[f][x]
    /\ \A x \in (DOMAIN Fields[f] \cap Commands[f]) \ DOMAIN Yields[f] :
          Fields[f][x] = "string"

(* They do, fetcher by fetcher.                                            *)
LEMMA TablesAgree == \A f \in Fetchers : Agrees(f)
  <1>1. Agrees("devInfo")
    BY DEF Agrees, Fields, Yields, Commands, Typed, Over, StateNames
  <1>2. Agrees("gpsVer")
    BY DEF Agrees, Fields, Yields, Commands, Typed, Over, StateNames
  <1>3. Agrees("gpsNav")
    BY DEF Agrees, Fields, Yields, Commands, Typed, Over, StateNames
  <1>4. Agrees("pmc")
    BY DEF Agrees, Fields, Yields, Commands, Typed, Over, StateNames, GMTexts, GMNumbers
  <1>5. Agrees("dpllFS")
    BY DEF Agrees, Fields, Yields, Commands, Typed, Over, StateNames
  <1>6. Agrees("dpllNetlink")
    BY DEF Agrees, Fields, Yields, Commands, Typed, Over, StateNames
  <1>7. Agrees("clockID")
    BY DEF Agrees, Fields, Yields, Commands, Typed, Over, StateNames
  <1> QED
    BY <1>1, <1>2, <1>3, <1>4, <1>5, <1>6, <1>7 DEF Fetchers, Commands

(* The struct of the netlink fetcher, which no output fills.               *)
LEMMA NetlinkFields ==
    /\ DOMAIN Fields["dpllNetlink"] = {"date"} \cup StateNames
    /\ \A type \in StateNames : Fields["dpllNetlink"][type] = "string"
    /\ Commands["dpllNetlink"] \cap StateNames = {}
  BY DEF Fields, Commands, Typed, StateNames

-----------------------------------------------------------------------------
\* A poll whose commands have run.
HasOutput(p) ==
    /\ DOMAIN stdout[p] = Commands[fetcher]
    /\ \A k \in DOMAIN stdout[p] : stdout[p][k] # "none"
    /\ dump[p] \in Seq(Entries)

Raw(p) == ExtractResult(stdout[p])
Post(p) == Processed(Raw(p), dump[p])

(* The raw results: the outputs of all commands, as strings.               *)
LEMMA RawFacts ==
    ASSUME NEW p \in Polls, HasOutput(p)
    PROVE  /\ DOMAIN Raw(p) = Commands[fetcher]
           /\ \A k \in DOMAIN Raw(p) : Raw(p)[k].type = "string"
  BY DEF HasOutput, Raw, ExtractResult, Value

(* What the post-processor makes of the raw results.                       *)
LEMMA ResultFacts ==
    ASSUME NEW p \in Polls
    PROVE  /\ DOMAIN Result(p) = DOMAIN Post(p) \cup DOMAIN Raw(p)
           /\ \A k \in DOMAIN Post(p) : Result(p)[k] = Post(p)[k]
           /\ \A k \in DOMAIN Raw(p) \ DOMAIN Post(p) : Result(p)[k] = Raw(p)[k]
  <1>1. Result(p) = Over(Post(p), Raw(p))
    BY DEF Result, Merged, Raw, Post
  <1> QED
    BY <1>1 DEF Over

(* The results of the netlink fetcher are the states.                      *)
LEMMA StateResults ==
    ASSUME NEW p \in Polls, HasOutput(p), fetcher = "dpllNetlink"
    PROVE  /\ DOMAIN Result(p) = DOMAIN EntryStates(dump[p]) \cup {"date", "dpll-netlink"}
           /\ DOMAIN EntryStates(dump[p]) \subseteq StateNames
           /\ \A type \in StateNames :
                /\ type \in DOMAIN Result(p) <=> type \in DOMAIN EntryStates(dump[p])
                /\ type \in DOMAIN Result(p) =>
                      Result(p)[type] = EntryStates(dump[p])[type]
           /\ \A k \in DOMAIN Result(p) : Result(p)[k].type = "string"
  <1>1. Post(p) = EntryStates(dump[p])
    BY DEF Post, Processed
  <1>2. DOMAIN Raw(p) = {"date", "dpll-netlink"}
    BY RawFacts DEF Commands
  <1>3. EntryStates(dump[p]) \in StateMaps
    BY StatesOfADump DEF HasOutput
  <1>4. /\ DOMAIN EntryStates(dump[p]) \subseteq StateNames
        /\ \A k \in DOMAIN EntryStates(dump[p]) : EntryStates(dump[p])[k].type = "string"
    BY <1>3 DEF StateMaps, StateValues
  <1>5. DOMAIN Result(p) = DOMAIN EntryStates(dump[p]) \cup {"date", "dpll-netlink"}
    BY <1>1, <1>2, ResultFacts
  <1>6. \A k \in DOMAIN EntryStates(dump[p]) : Result(p)[k] = EntryStates(dump[p])[k]
    BY <1>1, ResultFacts
  <1>7. \A k \in DOMAIN Result(p) : Result(p)[k].type = "string"
    <2> TAKE k \in DOMAIN Result(p)
    <2>1. CASE k \in DOMAIN EntryStates(dump[p])
      BY <1>4, <1>6, <2>1
    <2>2. CASE k \notin DOMAIN EntryStates(dump[p])
      <3>1. k \in DOMAIN Raw(p) \ DOMAIN Post(p)
        BY <1>1, <1>2, <1>5, <2>2
      <3>2. Result(p)[k] = Raw(p)[k]
        BY <3>1, ResultFacts
      <3> QED
        BY <3>1, <3>2, RawFacts
    <2> QED
      BY <2>1, <2>2
  <1>8. StateNames \cap {"date", "dpll-netlink"} = {}
    BY DEF StateNames
  <1> QED
    BY <1>4, <1>5, <1>6, <1>7, <1>8

(* Reflection finds every field among the results, with its type.          *)
LEMMA ResultsFit ==
    ASSUME NEW p \in Polls, fetcher \in Fetchers, HasOutput(p)
    PROVE  /\ TypesFit(Result(p))
           /\ DOMAIN Fields[fetcher] \ StateNames \subseteq DOMAIN Result(p)
  <1>1. Agrees(fetcher)
    BY TablesAgree
  <1>2. CASE fetcher = "dpllNetlink"
    <2>1. DOMAIN Fields[fetcher] \ StateNames \subseteq DOMAIN Result(p)
      <3>1. DOMAIN Fields[fetcher] = {"date"} \cup StateNames
        BY <1>2, NetlinkFields
      <3>2. "date" \in DOMAIN Result(p)
        BY <1>2, StateResults
      <3> QED
        BY <3>1, <3>2
    <2>2. ASSUME NEW k \in DOMAIN Fields[fetcher] PROVE Fields[fetcher][k] = "string"
      BY <1>2 DEF Fields, Typed
    <2>3. \A k \in DOMAIN Result(p) : Result(p)[k].type = "string"
      BY <1>2, StateResults
    <2> QED
      BY <2>1, <2>2, <2>3 DEF TypesFit
  <1>3. CASE fetcher # "dpllNetlink"
    <2>1. /\ DOMAIN Post(p) = DOMAIN Yields[fetcher]
          /\ \A k \in DOMAIN Post(p) : Post(p)[k].type = Yields[fetcher][k]
      BY <1>3 DEF Post, Processed, Value
    <2>2. DOMAIN Result(p) = DOMAIN Yields[fetcher] \cup Commands[fetcher]
      BY <2>1, ResultFacts, RawFacts
    <2>3. DOMAIN Fields[fetcher] \ StateNames \subseteq DOMAIN Result(p)
      BY <1>1, <2>2 DEF Agrees
    <2>4. ASSUME NEW k \in DOMAIN Fields[fetcher] \cap DOMAIN Result(p)
          PROVE  Result(p)[k].type = Fields[fetcher][k]
      <3>1. CASE k \in DOMAIN Yields[fetcher]
        <4>1. Result(p)[k] = Post(p)[k]
          BY <2>1, <3>1, ResultFacts
        <4> QED
          BY <1>1, <2>1, <3>1, <4>1 DEF Agrees
      <3>2. CASE k \notin DOMAIN Yields[fetcher]
        <4>1. k \in DOMAIN Raw(p) \ DOMAIN Post(p)
          BY <2>1, <2>2, <3>2, RawFacts
        <4>2. Result(p)[k] = Raw(p)[k] /\ k \in Commands[fetcher]
          BY <4>1, ResultFacts, RawFacts
        <4>3. Result(p)[k].type = "string"
          BY <4>1, <4>2, RawFacts
        <4>4. Fields[fetcher][k] = "string"
          BY <1>1, <3>2, <4>2 DEF Agrees
        <4> QED
          BY <4>3, <4>4
      <3> QED
        BY <3>1, <3>2
    <2> QED
      BY <2>3, <2>4 DEF TypesFit
  <1> QED
    BY <1>2, <1>3

-----------------------------------------------------------------------------
(* The invariant.                                                          *)

Stages == {"idle", "run", "process", "have"}

TypeOK ==
    /\ fetcher \in Fetchers
    /\ pc \in [Polls -> Stages]
    /\ DOMAIN stdout = Polls /\ DOMAIN dump = Polls
    /\ DOMAIN record = Polls /\ DOMAIN error = Polls

Fetched ==
    \A p \in Polls : pc[p] \in {"process", "have"} => HasOutput(p)

IInv == TypeOK /\ Fetched /\ RecordsAreWhole /\ StatesAreOwn /\ TypesAlwaysFit

(* What the steps of a poll come to.                                       *)
Crashes == UNCHANGED <<fetcher, pc, local>>

Ends(p) ==
    \E from \in {"run", "process", "have"},
       why \in {"none", "exec", "extract", "post", "types", "call"} :
        /\ Fail(p, from, why)
        /\ why = "types" => ~TypesFit(Result(p))
        /\ why = "types" => from = "process"

Acts(p) == Begin(p) \/ Extract(p) \/ Fill(p) \/ Ends(p) \/ Crashes

(* Every step is one of these.                                             *)
LEMMA NextActs == Next => \E p \in Polls : Acts(p)
  <1> SUFFICES ASSUME NEW p \in Polls,
                      \/ Begin(p) \/ ExecFails(p) \/ ExtractFails(p) \/ Extract(p)
                      \/ PostProcessFails(p) \/ Panic(p) \/ Unmarshal(p)
                      \/ CallFails(p) \/ Call(p)
               PROVE  Acts(p)
    BY DEF Next
  <1>1. CASE Panic(p)
    BY <1>1 DEF Panic, Acts, Crashes
  <1>2. CASE ExecFails(p) \/ ExtractFails(p) \/ PostProcessFails(p)
             \/ CallFails(p) \/ Call(p)
    BY <1>2 DEF ExecFails, ExtractFails, PostProcessFails, CallFails, Call, Acts, Ends
  <1>3. CASE Unmarshal(p)
    <2>1. CASE Fill(p)
      BY <2>1 DEF Acts
    <2>2. CASE ~Fill(p)
      <3>1. Fail(p, "process", "types")
        BY <1>3, <2>2 DEF Unmarshal
      <3>2. pc[p] = "process"
        BY <3>1 DEF Fail, Goto
      <3>3. ~TypesFit(Result(p))
        BY <1>3, <2>2, <3>2 DEF Unmarshal
      <3> QED
        BY <3>1, <3>3 DEF Acts, Ends
    <2> QED
      BY <2>1, <2>2
  <1>4. CASE Begin(p) \/ Extract(p)
    BY <1>4 DEF Acts
  <1> QED
    BY <1>1, <1>2, <1>3, <1>4

(* Only the poll that steps changes.                                       *)
LEMMA OnlyOne ==
    ASSUME TypeOK, NEW p \in Polls, Acts(p)
    PROVE  /\ fetcher' = fetcher
           /\ \A q \in Polls \ {p} :
                /\ pc'[q] = pc[q] /\ stdout'[q] = stdout[q]
                /\ dump'[q] = dump[q] /\ record'[q] = record[q] /\ error'[q] = error[q]
  <1> USE DEF TypeOK, Stages, local
  <1>1. CASE Begin(p)
    BY <1>1 DEF Begin, Goto
  <1>2. CASE Extract(p)
    BY <1>2 DEF Extract, Goto
  <1>3. CASE Fill(p)
    BY <1>3 DEF Fill, Goto
  <1>4. CASE Ends(p)
    BY <1>4 DEF Ends, Fail, Goto
  <1>5. CASE Crashes
    BY <1>5 DEF Crashes
  <1> QED
    BY <1>1, <1>2, <1>3, <1>4, <1>5 DEF Acts

(* TypeOK, step by step.                                                   *)
LEMMA TypesAreKept ==
    ASSUME TypeOK, NEW p \in Polls, Acts(p)
    PROVE  TypeOK'
  <1> USE DEF TypeOK, Stages, local
  <1>1. CASE Begin(p)
    BY <1>1 DEF Begin, Goto
  <1>2. CASE Extract(p)
    BY <1>2 DEF Extract, Goto
  <1>3. CASE Fill(p)
    BY <1>3 DEF Fill, Goto
  <1>4. CASE Ends(p)
    BY <1>4 DEF Ends, Fail, Goto
  <1>5. CASE Crashes
    BY <1>5 DEF Crashes
  <1> QED
    BY <1>1, <1>2, <1>3, <1>4, <1>5 DEF Acts

\* What a poll has in hand.
Holding(p) == <<fetcher, pc[p], stdout[p], dump[p], record[p]>>

(* What a poll has in hand comes from Extract, then from Fill.             *)
LEMMA StepsOfHolders ==
    ASSUME TypeOK, NEW p \in Polls, Acts(p), NEW q \in Polls,
           pc'[q] \in {"process", "have"}
    PROVE  \/ Holding(q)' = Holding(q)
           \/ q = p /\ Extract(p)
           \/ q = p /\ Fill(p)
  <1>1. CASE q # p
    BY <1>1, OnlyOne DEF Holding
  <1>2. CASE q = p
    <2>1. CASE Begin(p)
      BY <1>2, <2>1 DEF Begin, Goto, TypeOK
    <2>2. CASE Ends(p)
      BY <1>2, <2>2 DEF Ends, Fail, Goto, TypeOK
    <2>3. CASE Crashes
      BY <2>3 DEF Crashes, local, Holding
    <2> QED
      BY <1>2, <2>1, <2>2, <2>3 DEF Acts
  <1> QED
    BY <1>1, <1>2

(* A poll past its commands has the output of each.                        *)
LEMMA FetchedIsKept ==
    ASSUME TypeOK, Fetched, NEW p \in Polls, Acts(p)
    PROVE  Fetched'
  <1> SUFFICES ASSUME NEW q \in Polls, pc'[q] \in {"process", "have"}
               PROVE  HasOutput(q)'
    BY DEF Fetched
  <1>1. CASE Holding(q)' = Holding(q)
    <2>1. /\ fetcher' = fetcher /\ pc'[q] = pc[q] /\ stdout'[q] = stdout[q]
          /\ dump'[q] = dump[q]
      BY <1>1 DEF Holding
    <2>2. HasOutput(q)
      BY <2>1 DEF Fetched
    <2> QED
      BY <2>1, <2>2 DEF HasOutput
  <1>2. CASE q = p /\ Extract(p)
    <2>1. PICK s \in [Commands[fetcher] -> UNION {Outputs(k) : k \in Commands[fetcher]}] :
              /\ \A k \in DOMAIN s : s[k] \in Outputs(k) /\ Extractable(k, s[k])
              /\ stdout' = [stdout EXCEPT ![p] = s]
              /\ \E entries \in Dumps(s) : dump' = [dump EXCEPT ![p] = entries]
      BY <1>2 DEF Extract
    <2>2. PICK entries \in Dumps(s) : dump' = [dump EXCEPT ![p] = entries]
      BY <2>1
    <2>3. stdout'[p] = s /\ dump'[p] = entries /\ fetcher' = fetcher
      BY <1>2, <2>1, <2>2 DEF Extract, Goto, TypeOK
    <2>4. DOMAIN s = Commands[fetcher]
      BY <2>1
    <2>5. \A k \in DOMAIN s : s[k] # "none"
      BY <2>1 DEF Extractable
    <2>6. entries \in Seq(Entries)
      <3>1. \A m \in 0..MaxEntries : [1..m -> Entries] \subseteq Seq(Entries)
        BY EntriesBound
      <3>2. SeqOf(Entries, MaxEntries) \subseteq Seq(Entries)
        BY <3>1 DEF SeqOf
      <3>3. <<>> \in Seq(Entries)
        OBVIOUS
      <3> QED
        BY <2>2, <3>2, <3>3 DEF Dumps
    <2> QED
      BY <1>2, <2>3, <2>4, <2>5, <2>6 DEF HasOutput
  <1>3. CASE q = p /\ Fill(p)
    <2>1. HasOutput(q)
      BY <1>3 DEF Fill, Goto, Fetched
    <2>2. fetcher' = fetcher /\ stdout' = stdout /\ dump' = dump
      BY <1>3 DEF Fill, Goto
    <2> QED
      BY <2>1, <2>2 DEF HasOutput
  <1> QED
    BY <1>1, <1>2, <1>3, StepsOfHolders

(* The record that is filled.                                              *)
LEMMA NewRecord ==
    ASSUME TypeOK, Fetched, NEW p \in Polls, Fill(p)
    PROVE  /\ HasOutput(p) /\ fetcher' = fetcher /\ dump' = dump
           /\ DOMAIN record'[p] = DOMAIN Fields[fetcher] \cap DOMAIN Result(p)
           /\ \A f \in DOMAIN record'[p] : record'[p][f] = Result(p)[f].is
  <1>1. pc[p] = "process"
    BY DEF Fill, Goto
  <1>2. HasOutput(p)
    BY <1>1 DEF Fetched
  <1>3. record'[p] = [f \in DOMAIN Fields[fetcher] \cap DOMAIN Result(p) |-> Result(p)[f].is]
    BY DEF Fill, TypeOK
  <1>4. fetcher' = fetcher /\ dump' = dump
    BY DEF Fill, Goto
  <1> QED
    BY <1>2, <1>3, <1>4

(* RecordsAreWhole, step by step.                                          *)
LEMMA RecordsStayWhole ==
    ASSUME TypeOK, Fetched, RecordsAreWhole, NEW p \in Polls, Acts(p)
    PROVE  RecordsAreWhole'
  <1> SUFFICES ASSUME NEW q \in Polls, pc'[q] = "have"
               PROVE  DOMAIN Fields[fetcher'] \ StateNames \subseteq DOMAIN record'[q]
    BY DEF RecordsAreWhole, StateNames
  <1>1. CASE Holding(q)' = Holding(q)
    BY <1>1 DEF Holding, RecordsAreWhole, StateNames
  <1>2. CASE q = p /\ Extract(p)
    BY <1>2 DEF Extract, Goto, TypeOK
  <1>3. CASE q = p /\ Fill(p)
    <2>1. /\ HasOutput(p) /\ fetcher' = fetcher
          /\ DOMAIN record'[p] = DOMAIN Fields[fetcher] \cap DOMAIN Result(p)
      BY <1>3, NewRecord
    <2>2. DOMAIN Fields[fetcher] \ StateNames \subseteq DOMAIN Result(p)
      BY <2>1, ResultsFit DEF TypeOK
    <2> QED
      BY <1>3, <2>1, <2>2
  <1> QED
    BY <1>1, <1>2, <1>3, StepsOfHolders

\* StatesAreOwn of one poll.
OwnStates(p) ==
    \A type \in StateNames :
        /\ type \in DOMAIN record[p] <=> Own(dump[p], type) # {}
        /\ \A i \in Own(dump[p], type) :
              (\A j \in Own(dump[p], type) : j <= i)
                => record[p][type] = StateOf(dump[p][i].status)

(* StatesAreOwn, poll by poll.                                             *)
LEMMA StatesByPoll ==
    StatesAreOwn <=>
        \A p \in Polls : pc[p] = "have" /\ fetcher = "dpllNetlink" => OwnStates(p)
  BY DEF StatesAreOwn, OwnStates, Own, StateNames

(* StatesAreOwn, step by step.                                             *)
LEMMA StatesStayOwn ==
    ASSUME TypeOK, Fetched, StatesAreOwn, NEW p \in Polls, Acts(p)
    PROVE  StatesAreOwn'
  <1> SUFFICES ASSUME NEW q \in Polls, pc'[q] = "have", fetcher' = "dpllNetlink"
               PROVE  OwnStates(q)'
    BY DEF StatesAreOwn, OwnStates, Own, StateNames
  <1>1. CASE Holding(q)' = Holding(q)
    <2>1. /\ fetcher = "dpllNetlink" /\ pc[q] = "have"
          /\ dump'[q] = dump[q] /\ record'[q] = record[q]
      BY <1>1 DEF Holding
    <2>2. OwnStates(q)
      BY <2>1, StatesByPoll
    <2> QED
      BY <2>1, <2>2 DEF OwnStates
  <1>2. CASE q = p /\ Extract(p)
    BY <1>2 DEF Extract, Goto, TypeOK
  <1>3. CASE q = p /\ Fill(p)
    <2>1. /\ HasOutput(p) /\ fetcher = "dpllNetlink" /\ dump' = dump
          /\ DOMAIN record'[p] = DOMAIN Fields[fetcher] \cap DOMAIN Result(p)
          /\ \A f \in DOMAIN record'[p] : record'[p][f] = Result(p)[f].is
      BY <1>3, NewRecord
    <2> DEFINE entries == dump[p]
    <2>2. entries \in Seq(Entries)
      BY <2>1 DEF HasOutput
    <2>3. ASSUME NEW type \in StateNames
          PROVE  /\ type \in DOMAIN record'[p] <=> type \in DOMAIN EntryStates(entries)
                 /\ type \in DOMAIN record'[p] =>
                       record'[p][type] = EntryStates(entries)[type].is
      <3>1. type \in DOMAIN Fields[fetcher]
        BY <2>1, NetlinkFields
      <3>2. /\ type \in DOMAIN Result(p) <=> type \in DOMAIN EntryStates(entries)
            /\ type \in DOMAIN Result(p) => Result(p)[type] = EntryStates(entries)[type]
        BY <2>1, StateResults
      <3> QED
        BY <2>1, <3>1, <3>2
    <2>4. dump'[p] = entries
      BY <2>1
    <2> HIDE DEF entries
    <2>5. ASSUME NEW type \in StateNames
          PROVE  /\ type \in DOMAIN record'[p] <=> Own(entries, type) # {}
                 /\ \A i \in Own(entries, type) :
                       (\A j \in Own(entries, type) : j <= i)
                         => record'[p][type] = StateOf(entries[i].status)
      <3>1. type \in DOMAIN record'[p] <=> Own(entries, type) # {}
        BY <2>2, <2>3, StatesOfADump
      <3>2. ASSUME NEW i \in Own(entries, type), \A j \in Own(entries, type) : j <= i
            PROVE  record'[p][type] = StateOf(entries[i].status)
        <4>1. EntryStates(entries)[type] = OwnState(entries[i])
          BY <2>2, <3>2, StatesOfADump
        <4>2. record'[p][type] = EntryStates(entries)[type].is
          BY <2>3, <3>1
        <4> QED
          BY <4>1, <4>2 DEF OwnState, Value
      <3> QED
        BY <3>1, <3>2
    <2> QED
      BY <1>3, <2>4, <2>5 DEF OwnStates
  <1> QED
    BY <1>1, <1>2, <1>3, StepsOfHolders

(* TypesAlwaysFit, step by step.                                           *)
LEMMA TypesGoOnFitting ==
    ASSUME TypeOK, Fetched, TypesAlwaysFit, NEW p \in Polls, Acts(p)
    PROVE  TypesAlwaysFit'
  <1> SUFFICES ASSUME NEW q \in Polls, error'[q] = "types" PROVE FALSE
    BY DEF TypesAlwaysFit
  <1>1. error[q] # "types"
    BY DEF TypesAlwaysFit
  <1>2. q = p
    BY <1>1, OnlyOne
  <1>3. Ends(p)
    <2>1. ~ (Extract(p) \/ Fill(p) \/ Crashes)
      BY <1>1 DEF Extract, Fill, Crashes, local
    <2>2. ~ Begin(p)
      BY <1>2 DEF Begin, TypeOK
    <2> QED
      BY <2>1, <2>2 DEF Acts
  <1>4. PICK from \in {"run", "process", "have"},
             why \in {"none", "exec", "extract", "post", "types", "call"} :
                /\ Fail(p, from, why)
                /\ why = "types" => ~TypesFit(Result(p))
                /\ why = "types" => from = "process"
    BY <1>3 DEF Ends
  <1>5. why = "types"
    BY <1>2, <1>4 DEF Fail, TypeOK
  <1>6. pc[p] = "process"
    BY <1>4, <1>5 DEF Fail, Goto
  <1>7. HasOutput(p) /\ fetcher \in Fetchers
    BY <1>6 DEF Fetched, TypeOK
  <1> QED
    BY <1>4, <1>5, <1>7, ResultsFit

(* The invariant holds at first.                                           *)
LEMMA InitIInv == Init => IInv
  <1> SUFFICES ASSUME Init PROVE IInv
    OBVIOUS
  <1> USE DEF Init
  <1>1. TypeOK
    BY DEF TypeOK, Stages, Fetchers
  <1>2. Fetched /\ RecordsAreWhole /\ StatesAreOwn /\ TypesAlwaysFit
    BY DEF Fetched, RecordsAreWhole, StatesAreOwn, TypesAlwaysFit
  <1> QED
    BY <1>1, <1>2 DEF IInv

(* No step breaks the invariant.                                           *)
LEMMA NextIInv == IInv /\ [Next]_vars => IInv'
  <1> SUFFICES ASSUME IInv, [Next]_vars PROVE IInv'
    OBVIOUS
  <1>1. CASE Next
    <2>1. PICK p \in Polls : Acts(p)
      BY <1>1, NextActs
    <2> QED
      BY <2>1, TypesAreKept, FetchedIsKept, RecordsStayWhole, StatesStayOwn,
         TypesGoOnFitting DEF IInv
  <1>2. CASE UNCHANGED vars
    BY <1>2 DEF vars, local, IInv, TypeOK, Fetched, HasOutput,
                RecordsAreWhole, StatesAreOwn, TypesAlwaysFit
  <1> QED
    BY <1>1, <1>2

(* Hence it always holds.                                                  *)
LEMMA Invariance == Spec => []IInv
  BY InitIInv, NextIInv, PTL DEF Spec

(* unmarshal: a record in hand has every tagged field, whichever fetcher   *)
(* filled it and whatever its commands said.                               *)
THEOREM RecordsAreAlwaysWhole == Spec => []RecordsAreWhole
  <1>1. IInv => RecordsAreWhole
    BY DEF IInv
  <1> QED
    BY <1>1, Invariance, PTL

(* buildPostProcessDPLLNetlink: the states of a record are those of this   *)
(* interface's clock, the last such entry of a type, whatever the dump.     *)
THEOREM StatesAreAlwaysOwn == Spec => []StatesAreOwn
  <1>1. IInv => StatesAreOwn
    BY DEF IInv
  <1> QED
    BY <1>1, Invariance, PTL

(* setValueOnField: no fetch fails for the type of a field, as the results *)
(* of every fetcher have the types of its struct's fields.                 *)
THEOREM NoTypeEverFails == Spec => []TypesAlwaysFit
  <1>1. IInv => TypesAlwaysFit
    BY DEF IInv
  <1> QED
    BY <1>1, Invariance, PTL

===============================================================================
