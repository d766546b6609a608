---------------------------- MODULE CaptureHandoff ----------------------------
(***************************************************************************)
(* How captured audio becomes a turn: audio.Capturer and Fanout,           *)
(* wake.Pipeline with its ring, consumeWakeEvents, and the sample          *)
(* arithmetic of turnCoordinator.  The wake pipeline and the coordinator   *)
(* read the same frames through channels of their own, each at its own     *)
(* pace and each losing what its channel has no room for; a detection      *)
(* names its audio by position, and the coordinator joins frames to it.    *)
(* A sample is its position in what was captured, from 1, and a number of  *)
(* samples is in a unit of which a wake step has a few.  TurnCoordinator   *)
(* has the interleavings of the same goroutines with disconnects, done and *)
(* the locks; here a session is up and capture goes on, and Trigger is one *)
(* step.                                                                   *)
(***************************************************************************)
EXTENDS AudioRing

CONSTANTS
    StepSamples,   \* of a capture step and a wake step alike
    WakeDepth, TurnDepth,  \* capacities of the subscriptions, 8 and 32 in the code
    PreRolls,      \* configured pre-rolls; the ring grows to what is asked for
    turnHandoffHistorySamples,
    MaxOffset,     \* bound on captured samples
    MaxFinishes    \* bound on goroutines in finish that are counted

ASSUME HandoffAssumption ==
    /\ StepSamples \in Nat \ {0} /\ WakeDepth \in Nat \ {0} /\ TurnDepth \in Nat \ {0}
    /\ PreRolls \subseteq Nat /\ turnHandoffHistorySamples \in Nat
    /\ MaxOffset \in Nat /\ MaxFinishes \in Nat \ {0}

VARIABLES
    offset,                    \* local of Capturer.Run
    wakeFrames, turnFrames,    \* the channels of the two subscriptions
    overrun,                   \* of the active turn: turnSub.Dropped() # t.dropped
    step, ring, processed,     \* Pipeline.Run's step buffer, Ring, samplesProcessed
    event,                     \* the event the pipeline is sending
    button,                    \* the offset a TriggerButton has read
    active, nextOffset, history,
    queued,                    \* pending, and the one request it stands for
    listening,                 \* the endpoint controller has a turn of its own
    finishes,                  \* goroutines that have to take the lock in finish
    pcm,                       \* t.turn.PCM of the active turn
    \* History, read by properties only:
    written,     \* all samples the ring was written
    kept,        \* how many of the latest of them had room at every write since
    turn,        \* of the active turn: where it begins, whether it was positioned before a
                 \* loss, and whether there was a hole in what was observed before it
    gap,         \* a frame the controller still wanted for the turn did not join
    forgotten    \* a frame was dropped, or observed and is not in history (any more)

fanout == <<offset, wakeFrames, turnFrames, overrun>>
pipeline == <<step, ring, processed, event, written, kept>>
collecting == <<active, nextOffset, listening, pcm, turn, gap>>
coordinator == <<queued, history, finishes, forgotten, collecting>>
vars == <<fanout, pipeline, button, coordinator>>

NoRequest == [offset |-> 0, preRoll |-> <<>>, exact |-> FALSE]
NoTurn == [begin |-> 0, exact |-> FALSE, hole |-> FALSE]
NoOffset == MaxOffset + 1

\* The samples of a frame, without the first n.
Samples(f, n) == [i \in 1..(f.length - n) |-> f.offset + n + i]
End(f) == f.offset + f.length

Init ==
    /\ offset = 0
    /\ wakeFrames = <<>> /\ turnFrames = <<>> /\ overrun = FALSE
    /\ step = <<>> /\ processed = 0 /\ event = NoRequest /\ written = <<>> /\ kept = 0
    /\ \E n \in PreRolls : ring = NewRing(n)
    /\ button = NoOffset
    /\ queued = NoRequest /\ history = <<>> /\ finishes = 0
    /\ forgotten = FALSE
    /\ active = FALSE /\ nextOffset = 0 /\ listening = FALSE
    /\ pcm = <<>> /\ turn = NoTurn /\ gap = FALSE
-----------------------------------------------------------------------------
(* Capturer.Run, and the callback of Fanout.Run.                           *)

\* The frame of a read of n samples, up to one step.
Captured(n) == [offset |-> offset, length |-> n]

\* Each subscriber gets the frame or loses it.
Emit(n) ==
    /\ offset + n <= MaxOffset /\ offset' = End(Captured(n))
    /\ wakeFrames' = IF Len(wakeFrames) < WakeDepth
                       THEN Append(wakeFrames, Captured(n)) ELSE wakeFrames
    /\ IF Len(turnFrames) < TurnDepth
         THEN turnFrames' = Append(turnFrames, Captured(n)) /\ UNCHANGED <<overrun, forgotten>>
         ELSE turnFrames' = turnFrames /\ overrun' = active /\ forgotten' = TRUE
    /\ UNCHANGED <<pipeline, button, queued, history, finishes, collecting>>
-----------------------------------------------------------------------------
(* Pipeline.Run, which waits while an event is being received.             *)

ReceiveFrame ==
    /\ event = NoRequest /\ Len(step) < StepSamples
    /\ wakeFrames # <<>>
    /\ step' = step \o Samples(Head(wakeFrames), 0)
    /\ wakeFrames' = Tail(wakeFrames)
    /\ UNCHANGED <<offset, turnFrames, overrun, ring, processed, event, written, kept, button,
                   coordinator>>

\* Whether nothing is missing from samples that were read.
IsWhole(s) == s = [i \in 1..Len(s) |-> i]

\* processStep.  A detection is at the number of samples processed so far,
\* with what the ring holds up to there.
ProcessStep ==
    LET chunk == SubSeq(step, 1, StepSamples) IN
    /\ event = NoRequest /\ Len(step) >= StepSamples
    /\ step' = SubSeq(step, StepSamples + 1, Len(step))
    /\ ring' = Write(ring, chunk) /\ written' = written \o chunk
    /\ kept' = Smaller(kept + StepSamples, Capacity(ring))
    /\ processed' = processed + StepSamples
    /\ \/ event' = NoRequest
       \/ \E n \in PreRolls :
            LET preRoll == LatestSamples(ring', n) IN
            event' = [offset |-> processed' - Len(preRoll), preRoll |-> preRoll,
                      exact |-> IsWhole(written')]
    /\ UNCHANGED <<fanout, button, coordinator>>

\* A configuration change asks for a longer pre-roll (ensurePreRoll).
GrowRing(n) ==
    /\ ring' = EnsureDuration(ring, n)
    /\ UNCHANGED <<fanout, step, processed, event, written, kept, button, coordinator>>
-----------------------------------------------------------------------------
(* The callers of Trigger.                                                 *)

\* Trigger refuses a request while a turn is active or another is pending.
Trigger(r) ==
    /\ queued' = IF active \/ queued # NoRequest THEN queued ELSE r
    /\ UNCHANGED <<fanout, history, finishes, forgotten, collecting>>

\* consumeWakeEvents, as soon as it has received an event.
TriggerWake ==
    /\ event # NoRequest /\ Trigger(event)
    /\ event' = NoRequest
    /\ UNCHANGED <<step, ring, processed, written, kept, button>>

\* TriggerButton reads where the audio is and unlocks ...
ReadOffset ==
    /\ button = NoOffset /\ button' = nextOffset
    /\ UNCHANGED <<fanout, pipeline, coordinator>>

\* ... before it calls Trigger.
TriggerButton ==
    /\ button # NoOffset /\ Trigger([offset |-> button, preRoll |-> <<>>, exact |-> TRUE])
    /\ button' = NoOffset /\ UNCHANGED pipeline
-----------------------------------------------------------------------------
(* turnCoordinator.                                                        *)

\* Mutant: an overlapping frame is appended whole.
appendWholeFrame(t, f) ==
    IF End(f) <= t.next THEN t
    ELSE IF f.offset > t.next THEN [t EXCEPT !.stop = "gap"]
    ELSE [t EXCEPT !.pcm = @ \o Samples(f, 0), !.next = End(f)]

\* appendFrame on what a turn has so far: a frame behind nextOffset is
\* skipped, one that overlaps it is trimmed, one in front of it is a gap.
appendFrame(t, f) ==
    IF End(f) <= t.next THEN t
    ELSE IF f.offset > t.next THEN [t EXCEPT !.stop = "gap"]
    ELSE [t EXCEPT !.pcm = @ \o Samples(f, t.next - f.offset), !.next = End(f)]

\* A round of start's loop over the remembered frames: it has broken at a gap,
\* or does so at the controller's verdict on a frame that joins.
ReplayFrame(t, f, completes) ==
    LET joined == appendFrame(t, f) IN
    IF t.stop # "none" THEN t
    ELSE IF completes /\ joined.next # t.next THEN [joined EXCEPT !.stop = "verdict"] ELSE joined

\* The loop; a verdict comes with frame number `verdict` if at all.
Replay(t, verdict) ==
    LET after[n \in 0..Len(history)] ==
          IF n = 0 THEN t ELSE ReplayFrame(after[n - 1], history[n], n = verdict)
    IN  after[Len(history)]

Spawn(n) == finishes' = Smaller(finishes + n, MaxFinishes)
Ends(t) == IF t.stop = "none" THEN 0 ELSE 1

StartRefused ==
    /\ queued # NoRequest
    /\ active \/ listening
    /\ queued' = NoRequest
    /\ UNCHANGED <<fanout, pipeline, button, history, finishes, forgotten, collecting>>

Start ==
    /\ queued # NoRequest
    /\ ~active /\ ~listening
    /\ queued' = NoRequest /\ active' = TRUE /\ overrun' = FALSE
    /\ turn' = [begin |-> queued.offset, exact |-> queued.exact, hole |-> forgotten]
    /\ \E verdict \in 0..Len(history) :
         LET t == Replay([pcm |-> queued.preRoll, next |-> queued.offset + Len(queued.preRoll),
                          stop |-> "none"], verdict) IN
         /\ pcm' = t.pcm /\ nextOffset' = t.next
         /\ gap' = (t.stop = "gap") /\ listening' = (t.stop # "verdict")
         /\ Spawn(Ends(t))
    /\ UNCHANGED <<offset, wakeFrames, turnFrames, pipeline, button, history, forgotten>>

HistorySize(h) ==
    LET size[n \in 0..Len(h)] == IF n = 0 THEN 0 ELSE size[n - 1] + h[n].length
    IN  size[Len(h)]

\* remember keeps the latest frames that fit.
remember(f) ==
    LET all == Append(history, f)
        Fits(k) == HistorySize(SubSeq(all, k, Len(all))) <= turnHandoffHistorySamples
        k == CHOOSE k \in 1..(Len(all) + 1) : Fits(k) /\ \A j \in 1..(k - 1) : ~Fits(j)
    IN  history' = SubSeq(all, k, Len(all)) /\ forgotten' = (forgotten \/ k > 1)

TakesFrame ==
    /\ turnFrames # <<>>
    /\ turnFrames' = Tail(turnFrames)
    /\ UNCHANGED <<offset, wakeFrames, overrun, pipeline, button, queued, active, turn>>

\* Mutant: frames are remembered by the controller only.
ObserveIdleForgets ==
    /\ ~active /\ TakesFrame
    /\ nextOffset' = End(Head(turnFrames))
    /\ UNCHANGED <<history, forgotten>>
    /\ listening' \in {listening, FALSE}
    /\ UNCHANGED <<finishes, pcm, gap>>

\* observe without a turn; the controller may complete one of its own that an
\* overrun left behind.
ObserveIdle ==
    /\ ~active /\ TakesFrame
    /\ nextOffset' = End(Head(turnFrames))
    /\ remember(Head(turnFrames))
    /\ listening' \in {listening, FALSE}
    /\ UNCHANGED <<finishes, pcm, gap>>

\* observe in a turn since whose start a frame was dropped.
ObserveOverrun ==
    /\ active /\ overrun /\ TakesFrame
    /\ Spawn(1)
    /\ forgotten' = TRUE
    /\ UNCHANGED <<nextOffset, history, listening, pcm, gap>>

\* observe in a turn: a frame that joins may complete it.
ObserveTurn ==
    LET t == appendFrame([pcm |-> pcm, next |-> nextOffset, stop |-> "none"], Head(turnFrames)) IN
    /\ active /\ ~overrun /\ TakesFrame
    /\ pcm' = t.pcm /\ nextOffset' = t.next
    /\ \/ Spawn(Ends(t)) /\ listening' = listening
       \/ listening /\ t.next # nextOffset /\ listening' = FALSE /\ Spawn(1)
    /\ gap' = (gap \/ (listening /\ t.stop = "gap"))
    /\ forgotten' = TRUE /\ history' = history

\* finish: whichever turn is active ends.
finish ==
    /\ finishes > 0 /\ finishes' = finishes - 1
    /\ active' = FALSE /\ overrun' = FALSE /\ pcm' = <<>> /\ gap' = FALSE /\ turn' = NoTurn
    /\ UNCHANGED <<offset, wakeFrames, turnFrames, pipeline, button, queued, history, forgotten,
                   nextOffset, listening>>
-----------------------------------------------------------------------------
Next ==
    \/ \E n \in 1..StepSamples : Emit(n)
    \/ ReceiveFrame \/ ProcessStep \/ \E n \in PreRolls : GrowRing(n)
    \/ TriggerWake \/ ReadOffset \/ TriggerButton
    \/ StartRefused \/ Start
    \/ ObserveIdle \/ ObserveOverrun \/ ObserveTurn
    \/ finish

\* Safety only: capture may stop at any moment.
Spec == Init /\ [][Next]_vars
-----------------------------------------------------------------------------
Frames == [offset : 0..MaxOffset, length : 1..StepSamples]
Requests == [offset : 0..MaxOffset, preRoll : Seq(1..MaxOffset), exact : BOOLEAN]

TypeOK ==
    /\ offset \in 0..MaxOffset
    /\ wakeFrames \in Seq(Frames) /\ Len(wakeFrames) <= WakeDepth
    /\ turnFrames \in Seq(Frames) /\ Len(turnFrames) <= TurnDepth
    /\ overrun \in BOOLEAN
    /\ step \in Seq(1..MaxOffset) /\ processed \in 0..MaxOffset /\ written \in Seq(1..MaxOffset)
    /\ Capacity(ring) \in PreRolls /\ ring.length \in 0..Capacity(ring)
    /\ event \in Requests /\ queued \in Requests
    /\ button \in 0..NoOffset /\ nextOffset \in 0..MaxOffset
    /\ active \in BOOLEAN /\ listening \in BOOLEAN
    /\ history \in Seq(Frames) /\ HistorySize(history) <= turnHandoffHistorySamples
    /\ finishes \in 0..MaxFinishes
    /\ pcm \in Seq(1..MaxOffset) /\ gap \in BOOLEAN /\ forgotten \in BOOLEAN
    /\ turn \in [begin : 0..MaxOffset, exact : BOOLEAN, hole : BOOLEAN]

\* The circular array is a window on the past: whatever it was written in which
\* portions, Tail gives the latest samples in their order, as many as had room
\* when they were written and ever since; a growth loses none of them, old or new
\* ("pre-roll ring capacity grows without discarding history").
RingHoldsLatest == \A n \in PreRolls : LatestSamples(ring, n) = LastOf(written, Smaller(n, kept))

\* "Guarantee no sample gap between the event position/pre-roll and live
\* frames": a turn that was positioned before the wake subscription lost a
\* frame is the captured audio from there on, every sample once and none left
\* out, and its next offset is where it ends; in whatever portions the two
\* readers got the audio, however late the request and whatever the turn's
\* own subscription dropped.
TurnIsSeamless ==
    active /\ turn.exact =>
        /\ pcm = [i \in 1..Len(pcm) |-> turn.begin + i]
        /\ nextOffset = turn.begin + Len(pcm)

\* "bounded, offset-aware handoff history fills frames consumed by the turn
\* subscriber before a delayed wake event arrives": if every frame of the turn
\* subscription was observed and remembered until the turn began, no frame
\* fails to join it, however late it began.  What is dropped during the turn
\* shows in the count first.
GapsHaveACause == gap /\ turn.exact => turn.hole
-----------------------------------------------------------------------------
\* "The coordinator must trim it, rather than duplicate or leave a sample gap":
\* nor does a turn after a loss repeat audio.  But Pipeline counts the samples
\* it was handed, not those captured, so every frame its subscription ever
\* lost moves the following pre-rolls' positions back by as much.
NoDuplicates == active => \A i \in 2..Len(pcm) : pcm[i] > pcm[i - 1]

\* The handoff as a whole: what a turn has of the audio before and after its
\* trigger, whichever subscription lost frames.
HandoffInvariant == TypeOK /\ TurnIsSeamless /\ GapsHaveACause
=============================================================================
