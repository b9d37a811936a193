----------------------------- MODULE LogFollower -----------------------------
(***************************************************************************)
(* The log collector (pkg/collectors/log_follower.go) with the generations *)
(* of windows it keeps (pkg/loglines/lines.go): polls that each read a     *)
(* window of the log, the goroutine processSlices that collects the        *)
(* windows and merges them with LineDedup, the goroutine writeToLogFile,   *)
(* the generation dumper, and CleanUp, which stops the three.              *)
(* A line of the log is its number.  A moment at which a stream is opened  *)
(* is the number of streams opened so far.                                 *)
(***************************************************************************)
EXTENDS LineDedup, FiniteSets

CONSTANTS
    Polls,            \* the goroutines that may run Poll at once
    MaxLines,         \* bound on the lines of the log
    MaxStreams,       \* bound on the streams opened
    KeepGenerations,  \* keepGenerations
    SliceChanLength,  \* lineSliceChanLength
    LineChanLength,   \* lineChanLength
    DumpChannelSize   \* dumpChannelSize

ASSUME FollowerBounds ==
    /\ IsFiniteSet(Polls)
    /\ {MaxLines, MaxStreams, KeepGenerations, SliceChanLength,
        LineChanLength, DumpChannelSize} \subseteq Nat \ {0}

PollStates == {"idle", "opening", "opened", "streaming", "updating"}
SlicerStates == {"new", "select", "clearing", "sendingAll", "ended"}
WriterStates == {"new", "select", "draining", "ended"}
DumperStates == {"select", "draining", "ended"}
CleanUpStates == {"running", "sendQuit", "wait", "stopDumper", "waitDumper",
                  "done"}

VARIABLES
    log,        \* the number of lines of the log so far
    second,     \* the lines it had when the second of the last stream began
    opened,     \* the streams opened so far
    lastTime,   \* lastPoll.time
    lastSince,  \* the lines of the log before the second of lastPoll.time
    lastGen,    \* lastPoll.generation
    poll,       \* the goroutines running poll()
    full,       \* the runner waits for all of them to end
    slices,     \* slices
    store,      \* the slices of generations.Store
    latest,     \* generations.Latest
    oldest,     \* generations.Oldest
    sending,    \* merged lines that processSlices is still to send
    lines,      \* lines
    file,       \* the output file
    toDump,     \* len(Dumper.toDump)
    slicerPc,   \* where processSlices is
    writerPc,   \* where writeToLogFile is
    dumperPc,   \* where dumpProcessor is
    wg,         \* wg
    cleanUp,    \* where CleanUp is
    panicked,   \* a merge ran out of range
    regular     \* no stream has broken off early, no slice came out of turn

lastPoll   == <<lastTime, lastSince, lastGen>>
pollVars   == <<opened, lastPoll, poll, full>>
storeVars  == <<store, latest, oldest, panicked>>
outputVars == <<sending, lines, file>>
stopVars   == <<slicerPc, writerPc, dumperPc, wg, cleanUp>>
vars == <<log, second, pollVars, slices, storeVars, outputVars, toDump,
          stopVars, regular>>

\* A poll asks for the lines after since; its stream was opened at the moment
\* at, from being the lines before that second.
PollAt(pc, since, at, from, gen) ==
    [pc |-> pc, since |-> since, at |-> at, from |-> from, gen |-> gen]
IdlePoll == PollAt("idle", 0, 0, 0, 0)

\* Start has been called: the goroutines are about to run.
Init ==
    /\ log = 0
    /\ second = 0
    /\ opened = 0
    /\ lastTime = 0
    /\ lastSince = 0
    /\ lastGen = 0
    /\ poll = [p \in Polls |-> IdlePoll]
    /\ full = FALSE
    /\ slices = <<>>
    /\ store = {}
    /\ latest = 0
    /\ oldest = 0
    /\ sending = <<>>
    /\ lines = <<>>
    /\ file = <<>>
    /\ toDump = 0
    /\ slicerPc = "new"
    /\ writerPc = "new"
    /\ dumperPc = "select"
    /\ wg = 0
    /\ cleanUp = "running"
    /\ panicked = FALSE
    /\ regular = TRUE

LogGrows ==
    /\ log < MaxLines
    /\ log' = log + 1
    /\ UNCHANGED <<second, pollVars, slices, storeVars, outputVars, toDump,
                   stopVars, regular>>

-----------------------------------------------------------------------------
(* poll(), and the part of the runner's poller that limits it.             *)

UnchangedByPoll ==
    UNCHANGED <<log, second, storeVars, outputVars, toDump, stopVars>>

\* poll() asks for the lines since lastPoll; SinceTime is sent in whole
\* seconds.
BeginPoll(p) ==
    /\ cleanUp = "running"
    /\ ~full
    /\ poll[p].pc = "idle"
    /\ poll' = [poll EXCEPT ![p] = PollAt("opening", lastSince, 0, 0, 0)]
    /\ UNCHANGED <<opened, lastPoll, full, slices, regular>>
    /\ UnchangedByPoll

\* No pod, or no stream of its log.
PollFails(p) ==
    /\ poll[p].pc = "opening"
    /\ poll' = [poll EXCEPT ![p] = IdlePoll]
    /\ UNCHANGED <<opened, lastPoll, full, slices, regular>>
    /\ UnchangedByPoll

\* The stream is open: start := time.Now().  Only now does it matter which
\* second it is: the one of the stream before, or one that began later.
PollOpens(p) ==
    /\ poll[p].pc = "opening"
    /\ opened < MaxStreams
    /\ opened' = opened + 1
    /\ second' \in second..log
    /\ poll' = [poll EXCEPT ![p] =
          PollAt("opened", poll[p].since, opened + 1, second', 0)]
    /\ UNCHANGED <<lastPoll, full, slices, regular>>
    /\ UNCHANGED <<log, storeVars, outputVars, toDump, stopVars>>

\* Only now is the generation read; another poll may have updated it since.
PollReadsGeneration(p) ==
    /\ poll[p].pc = "opened"
    /\ poll' = [poll EXCEPT ![p] =
          PollAt("streaming", poll[p].since, poll[p].at, poll[p].from, lastGen)]
    /\ UNCHANGED <<opened, lastPoll, full, slices, regular>>
    /\ UnchangedByPoll

\* processStream returns the lines after since, up to the first one after the
\* expected end, which may be any moment from now on, or to where the stream
\* breaks off or times out: an error that ends scanner.Scan() is not looked
\* at.  slices <- blocks while the channel is full.
PollSends(p) ==
    /\ poll[p].pc = "streaming"
    /\ Len(slices) < SliceChanLength
    /\ \E end \in poll[p].since + 1..log :
          /\ slices' = Append(slices,
                Slice([i \in 1..end - poll[p].since |-> poll[p].since + i],
                      poll[p].gen))
          /\ regular' = (regular /\ end >= poll[p].from)
    /\ poll' = [poll EXCEPT ![p] =
          PollAt("updating", 0, poll[p].at, poll[p].from, 0)]
    /\ UNCHANGED <<opened, lastPoll, full>>
    /\ UnchangedByPoll

\* Without a line there is no slice, and lastPoll stays.
PollReadsNothing(p) ==
    /\ poll[p].pc = "streaming"
    /\ poll' = [poll EXCEPT ![p] = IdlePoll]
    /\ UNCHANGED <<opened, lastPoll, full, slices, regular>>
    /\ UnchangedByPoll

\* SetLastPoll(start), which only ever advances.
PollUpdates(p) ==
    /\ poll[p].pc = "updating"
    /\ IF poll[p].at > lastTime
       THEN /\ lastTime' = poll[p].at
            /\ lastSince' = poll[p].from
            /\ lastGen' = lastGen + 1
       ELSE UNCHANGED lastPoll
    /\ poll' = [poll EXCEPT ![p] = IdlePoll]
    /\ UNCHANGED <<opened, full, slices, regular>>
    /\ UnchangedByPoll

\* With as many polls as may run at once, the runner waits for all of them.
RunnerWaits ==
    /\ ~full /\ \A p \in Polls : poll[p].pc # "idle"
    /\ full' = TRUE
    /\ UNCHANGED <<opened, lastPoll, poll, slices, regular>>
    /\ UnchangedByPoll

RunnerResumes ==
    /\ full /\ \A p \in Polls : poll[p].pc = "idle"
    /\ full' = FALSE
    /\ UNCHANGED <<opened, lastPoll, poll, slices, regular>>
    /\ UnchangedByPoll

PollStep(p) ==
    \/ BeginPoll(p) \/ PollFails(p) \/ PollOpens(p) \/ PollReadsGeneration(p)
    \/ PollSends(p) \/ PollReadsNothing(p) \/ PollUpdates(p)

-----------------------------------------------------------------------------
(* generations: Add, ShouldFlush, Flush and FlushAll.                      *)

InGeneration(g) == {s \in store : s.gen = g}
StoredGenerations == {s.gen : s \in store}

\* The merged slices of the generations, merged in turn.
MergeGenerations(merged, order) ==
    LET Slices == [i \in DOMAIN order |-> merged[order[i]].slice]
        AnyPanics == \E g \in DOMAIN merged : merged[g].panics
        Both(d) == [earlier |-> d.earlier, last |-> d.last,
                    panics |-> d.panics \/ AnyPanics]
    IN  Both(DedupLineSlices(Slices))

Ascending(gens) ==
    [k \in 1..Cardinality(gens) |->
        CHOOSE g \in gens : Cardinality({h \in gens : h < g}) = k - 1]

\* flush(): each generation on its own first, the earliest one first.  Equal
\* slices merge into one, so a set of them loses nothing.
FlushGenerations(gens) ==
    MergeGenerations([g \in gens |-> DedupGeneration(SetToSeq(InGeneration(g)))],
                     Ascending(gens))

ShouldFlush ==
    /\ latest - oldest > KeepGenerations
    /\ Cardinality(StoredGenerations) > KeepGenerations

\* Broken: the last slice is kept to be flushed, and flushed already.
FlushWithLast ==
    \E d \in {FlushGenerations({g \in StoredGenerations : g <= oldest + KeepGenerations})} :
        /\ sending' = d.earlier.lines \o d.last.lines
        /\ store' = {s \in store : s.gen > d.last.gen} \cup {d.last}
        /\ oldest' = d.last.gen
        /\ panicked' = d.panics
        /\ UNCHANGED latest

\* The generations up to Oldest + keepGenerations are merged.  Their lines
\* are sent but for the last slice, which stands for its generation from now
\* on.
Flush ==
    \E d \in {FlushGenerations({g \in StoredGenerations : g <= oldest + KeepGenerations})} :
        /\ sending' = d.earlier.lines
        /\ store' = {s \in store : s.gen > d.last.gen} \cup {d.last}
        /\ oldest' = d.last.gen
        /\ panicked' = d.panics
        /\ UNCHANGED latest

\* All that is left.
FlushAll ==
    /\ IF store = {} THEN sending' = <<>> /\ UNCHANGED panicked
       ELSE \E d \in {FlushGenerations(StoredGenerations)} :
                /\ sending' = d.earlier.lines \o d.last.lines
                /\ panicked' = d.panics
    /\ UNCHANGED <<store, latest, oldest>>

\* s is a window like t or a later one: it neither begins nor ends before t,
\* and its generation is no earlier one.
NoEarlier(s, t) ==
    /\ Head(s.lines) >= Head(t.lines)
    /\ Last(s.lines) >= Last(t.lines)
    /\ s.gen >= t.gen

\* s comes while all its lines are still to be sent, and of it and a slice
\* that waits to be flushed, one is no earlier than the other.
InTurn(s) ==
    /\ Head(s.lines) > Len(file) + Len(lines)
    /\ \A t \in store : NoEarlier(s, t) \/ NoEarlier(t, s)

\* Broken: the channel of the dumper has no limit.
AddSliceUnbounded ==
    /\ slices # <<>>
    /\ slices' = Tail(slices)
    /\ store' = store \cup {Head(slices)}
    /\ latest' = IF latest < Head(slices).gen THEN Head(slices).gen ELSE latest
    /\ toDump' = toDump + 1
    /\ regular' = (regular /\ InTurn(Head(slices)))
    /\ UNCHANGED <<oldest, panicked>>

\* Add hands the slice to the dumper too, and waits for room in its channel.
AddSlice ==
    /\ slices # <<>>
    /\ toDump < DumpChannelSize
    /\ slices' = Tail(slices)
    /\ store' = store \cup {Head(slices)}
    /\ latest' = IF latest < Head(slices).gen THEN Head(slices).gen ELSE latest
    /\ toDump' = toDump + 1
    /\ regular' = (regular /\ InTurn(Head(slices)))
    /\ UNCHANGED <<oldest, panicked>>

-----------------------------------------------------------------------------
(* processSlices.                                                          *)

UnchangedBySlicer ==
    UNCHANGED <<log, second, pollVars, writerPc, dumperPc, file>>

\* wg.Add(1) is the goroutine's own first step.
SlicerStarts ==
    /\ slicerPc = "new"
    /\ slicerPc' = "select"
    /\ wg' = wg + 1
    /\ UNCHANGED <<slices, storeVars, sending, lines, toDump, cleanUp, regular>>
    /\ UnchangedBySlicer

SlicerAdds ==
    /\ slicerPc \in {"select", "clearing"}
    /\ sending = <<>>
    /\ AddSlice
    /\ UNCHANGED <<slicerPc, wg, sending, lines, cleanUp>>
    /\ UnchangedBySlicer

\* The default case, when no slice and no signal is there.
SlicerFlushes ==
    /\ slicerPc = "select"
    /\ sending = <<>>
    /\ slices = <<>> /\ cleanUp # "sendQuit"
    /\ ShouldFlush
    /\ Flush
    /\ UNCHANGED <<slices, slicerPc, wg, lines, toDump, cleanUp, regular>>
    /\ UnchangedBySlicer

\* lines <- blocks while the channel is full.
SlicerSends ==
    /\ sending # <<>>
    /\ Len(lines) < LineChanLength
    /\ lines' = Append(lines, Head(sending))
    /\ sending' = Tail(sending)
    /\ UNCHANGED <<slices, storeVars, slicerPc, wg, toDump, cleanUp, regular>>
    /\ UnchangedBySlicer

\* CleanUp's signal, over the unbuffered sliceQuit.
SlicerQuits ==
    /\ slicerPc = "select"
    /\ sending = <<>>
    /\ cleanUp = "sendQuit"
    /\ slicerPc' = "clearing"
    /\ cleanUp' = "wait"
    /\ UNCHANGED <<slices, storeVars, sending, lines, wg, toDump, regular>>
    /\ UnchangedBySlicer

SlicerFlushesAll ==
    /\ slicerPc = "clearing"
    /\ slices = <<>>
    /\ FlushAll
    /\ slicerPc' = "sendingAll"
    /\ UNCHANGED <<slices, lines, wg, toDump, cleanUp, regular>>
    /\ UnchangedBySlicer

\* Broken: writeQuit has room for the signal, so it is not waited for.
SlicerEndsUnheard ==
    /\ slicerPc = "sendingAll"
    /\ sending = <<>>
    /\ slicerPc' = "ended"
    /\ writerPc' = IF writerPc = "select" THEN "draining" ELSE writerPc
    /\ wg' = wg - 1
    /\ UNCHANGED <<log, second, pollVars, slices, storeVars, outputVars, toDump,
                   dumperPc, cleanUp, regular>>

\* The signal is passed on over the unbuffered writeQuit; then wg.Done().
SlicerEnds ==
    /\ slicerPc = "sendingAll"
    /\ sending = <<>>
    /\ writerPc = "select"
    /\ slicerPc' = "ended"
    /\ writerPc' = "draining"
    /\ wg' = wg - 1
    /\ UNCHANGED <<log, second, pollVars, slices, storeVars, outputVars, toDump,
                   dumperPc, cleanUp, regular>>

SlicerStep ==
    \/ SlicerStarts \/ SlicerAdds \/ SlicerFlushes \/ SlicerSends
    \/ SlicerQuits \/ SlicerFlushesAll \/ SlicerEnds

-----------------------------------------------------------------------------
(* writeToLogFile.                                                         *)

UnchangedByWriter ==
    UNCHANGED <<log, second, pollVars, slices, storeVars, sending, toDump,
                slicerPc, dumperPc, cleanUp, regular>>

WriterStarts ==
    /\ writerPc = "new"
    /\ writerPc' = "select"
    /\ wg' = wg + 1
    /\ UNCHANGED <<lines, file>>
    /\ UnchangedByWriter

WriterWrites ==
    /\ writerPc \in {"select", "draining"}
    /\ lines # <<>>
    /\ file' = Append(file, Head(lines))
    /\ lines' = Tail(lines)
    /\ UNCHANGED <<writerPc, wg>>
    /\ UnchangedByWriter

\* Broken: the writer ends on the signal without the lines left.
WriterEndsAtOnce ==
    /\ writerPc = "draining"
    /\ writerPc' = "ended"
    /\ wg' = wg - 1
    /\ UNCHANGED <<lines, file>>
    /\ UnchangedByWriter

WriterEnds ==
    /\ writerPc = "draining"
    /\ lines = <<>>
    /\ writerPc' = "ended"
    /\ wg' = wg - 1
    /\ UNCHANGED <<lines, file>>
    /\ UnchangedByWriter

WriterStep == WriterStarts \/ WriterWrites \/ WriterEnds

-----------------------------------------------------------------------------
(* dumpProcessor.                                                          *)

UnchangedByDumper ==
    UNCHANGED <<log, second, pollVars, slices, storeVars, outputVars,
                slicerPc, writerPc, wg, cleanUp, regular>>

\* Broken: the dumper waits for its signal before it writes any slice.
DumperDumpsAtEnd ==
    /\ dumperPc = "draining"
    /\ toDump > 0
    /\ toDump' = toDump - 1
    /\ UNCHANGED dumperPc
    /\ UnchangedByDumper

DumperDumps ==
    /\ dumperPc \in {"select", "draining"}
    /\ toDump > 0
    /\ toDump' = toDump - 1
    /\ UNCHANGED dumperPc
    /\ UnchangedByDumper

DumperEnds ==
    /\ dumperPc = "draining"
    /\ toDump = 0
    /\ dumperPc' = "ended"
    /\ UNCHANGED toDump
    /\ UnchangedByDumper

DumperStep == DumperDumps \/ DumperEnds

-----------------------------------------------------------------------------
(* CleanUp.                                                                *)

UnchangedByCleanUp ==
    UNCHANGED <<log, second, pollVars, slices, storeVars, outputVars, toDump,
                slicerPc, writerPc, wg, regular>>

\* The runner calls CleanUp when no poll of the collector is left
\* (CollectorRunner!NoPollOutlivesCleanUp).
CleanUpBegins ==
    /\ cleanUp = "running"
    /\ \A p \in Polls : poll[p].pc = "idle"
    /\ cleanUp' = "sendQuit"
    /\ UNCHANGED dumperPc
    /\ UnchangedByCleanUp

\* wg.Wait()
CleanUpWaited ==
    /\ cleanUp = "wait"
    /\ wg = 0
    /\ cleanUp' = "stopDumper"
    /\ UNCHANGED dumperPc
    /\ UnchangedByCleanUp

\* Dumper.Stop() sends its signal over an unbuffered channel, then waits.
StopDumper ==
    /\ cleanUp = "stopDumper"
    /\ dumperPc = "select"
    /\ dumperPc' = "draining"
    /\ cleanUp' = "waitDumper"
    /\ UnchangedByCleanUp

CleanUpEnds ==
    /\ cleanUp = "waitDumper"
    /\ dumperPc = "ended"
    /\ cleanUp' = "done"
    /\ UNCHANGED dumperPc
    /\ UnchangedByCleanUp

CleanUpStep == CleanUpWaited \/ StopDumper \/ CleanUpEnds

-----------------------------------------------------------------------------
Ended == cleanUp = "done" /\ UNCHANGED vars

Next ==
    \/ LogGrows
    \/ \E p \in Polls : PollStep(p)
    \/ RunnerWaits \/ RunnerResumes
    \/ SlicerStep \/ WriterStep \/ DumperStep
    \/ CleanUpBegins \/ CleanUpStep
    \/ Ended

Spec == Init /\ [][Next]_vars

\* ENABLED SlicerStep, spelled out as TLC would merge every time to find out,
\* but for SlicerFlushes, which nothing that must happen waits for.
SlicerReady ==
    \/ slicerPc = "new"
    \/ sending # <<>> /\ Len(lines) < LineChanLength
    \/ /\ slicerPc \in {"select", "clearing"} /\ sending = <<>>
       /\ slices # <<>> /\ toDump < DumpChannelSize
    \/ slicerPc = "select" /\ sending = <<>> /\ cleanUp = "sendQuit"
    \/ slicerPc = "clearing" /\ slices = <<>>
    \/ slicerPc = "sendingAll" /\ sending = <<>> /\ writerPc = "select"

\* A step of processSlices, told by what no other goroutine does.
SlicerMoves ==
    \/ <<slicerPc, sending, storeVars>> # <<slicerPc, sending, storeVars>>'
    \/ toDump' > toDump

\* The Go scheduler runs every goroutine that can run (the first conjunct is
\* WF_vars(SlicerStep), weakened by what SlicerReady leaves out).
Fairness ==
    /\ []<>~SlicerReady \/ []<><<SlicerMoves>>_vars
    /\ WF_vars(WriterStep)
    /\ WF_vars(DumperStep)
    /\ WF_vars(CleanUpStep)

FairSpec == Spec /\ Fairness

-----------------------------------------------------------------------------
(* Properties.                                                             *)

PollRecord ==
    [pc : PollStates, since : 0..MaxLines, at : 0..MaxStreams,
     from : 0..MaxLines, gen : 0..MaxStreams]
IsSlice(s) == s.lines \in Seq(1..MaxLines) /\ s.gen \in 0..MaxStreams

TypeOK ==
    /\ {log, second, lastSince} \subseteq 0..MaxLines
    /\ {opened, lastTime, lastGen, latest, oldest} \subseteq 0..MaxStreams
    /\ poll \in [Polls -> PollRecord]
    /\ full \in BOOLEAN /\ panicked \in BOOLEAN /\ regular \in BOOLEAN
    /\ \A i \in DOMAIN slices : IsSlice(slices[i])
    /\ Len(slices) <= SliceChanLength
    /\ \A s \in store : IsSlice(s)
    /\ sending \in Seq(1..MaxLines) /\ file \in Seq(1..MaxLines)
    /\ lines \in Seq(1..MaxLines) /\ Len(lines) <= LineChanLength
    /\ toDump \in 0..DumpChannelSize
    /\ slicerPc \in SlicerStates /\ writerPc \in WriterStates
    /\ dumperPc \in DumperStates /\ cleanUp \in CleanUpStates
    /\ wg \in 0..2

\* The output file is the log from its first line on, no line twice, none
\* missing and none out of order, as long as no stream broke off before the
\* moment it was opened at and no slice came out of turn: however many polls
\* overlap, share a generation or read lines ahead of their generation, and
\* whenever the generations are flushed (log_follower.go, the comment on
\* Overlap).
FileIsPrefix == regular => \A i \in DOMAIN file : file[i] = i

\* Nor is a line that the polls have gone past, so that none will read it
\* again, missing in the file that CleanUp leaves behind (processSlices and
\* writeToLogFile: "Consume the rest of the lines so we don't miss lines").
PassedLinesWritten ==
    regular /\ cleanUp \in {"stopDumper", "waitDumper", "done"} =>
        Len(file) >= lastSince

\* wg.Wait() in CleanUp outlasts both goroutines, though it is they who call
\* wg.Add(1): the writer may not even have begun when CleanUp is called.
CleanUpOutlastsWriter ==
    cleanUp \in {"stopDumper", "waitDumper", "done"} =>
        slicerPc = "ended" /\ writerPc = "ended"

\* No merge reaches out of the range of its windows, which would end the tool
\* (dedup.go:85): not even when a stream broke off or a slice came out of turn.
NeverPanics == ~panicked

\* CleanUp returns: no goroutine waits for a channel that nobody serves.
CleanUpReturns == cleanUp = "sendQuit" ~> cleanUp = "done"

\* "they are de-duplicated and written to an output file"
\* (log_follower.go:42): no line is written twice.  One is when its slice
\* comes after the lines of its generation were flushed.
NoLineTwice == IsInjective(file)

\* "Consume the rest of the lines so we don't miss lines"
\* (log_follower.go:147): PassedLinesWritten without its condition.  A poll
\* that asks early and reads the generation late has a slice out of turn, and
\* the merge drops what a longer slice of the generation before had read; so
\* it does for a stream that broke off.  No run checks this statement.
NoLineMissed ==
    cleanUp \in {"stopDumper", "waitDumper", "done"} => 1..lastSince \subseteq ToSet(file)
==============================================================================
