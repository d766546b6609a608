------------------------------- MODULE WakeGate -------------------------------
(***************************************************************************)
(* One wake step after the other: the voice activity of the last steps,    *)
(* the score of the wake engine, the gate with its refractory time, the    *)
(* statistics and the event.  The configuration may be another at every    *)
(* step.                                                                   *)
(***************************************************************************)
EXTENDS Naturals, Sequences, FiniteSets, FiniteSetsExt, SequencesExt

CONSTANTS
    Configs,     \* sets of Config; lookback is in steps
    Window,      \* timingWindowSize
    MaxSteps, MaxDelay, MaxChanges  \* bounds

Config == [wake : Nat, vad : Nat, vadEnabled : BOOLEAN, lookback : Nat, interval : Nat,
           always : BOOLEAN]
Scores == 0..1  \* below and not below the thresholds of a configuration
Never == 0

VARIABLES
    config,                 \* what ConfigSource gives
    now, pc,                \* the clock; Pipeline.Run: "step", "send" or over
    vadScores, lastAccepted,\* of Pipeline and Gate
    steps, wakeCount, rejected, timings, next, count,  \* Stats and its durationWindow
    changes,
    \* History, read by properties only: what each step saw, and what was sent
    log, sent

stats == <<steps, wakeCount, rejected, timings, next, count>>
vars == <<config, now, pc, vadScores, lastAccepted, stats, changes, log, sent>>

Init ==
    /\ config \in Configs /\ now = 1 /\ pc = "step"
    /\ vadScores = <<>> /\ lastAccepted = Never
    /\ steps = 0 /\ wakeCount = 0 /\ rejected = 0
    /\ timings = [i \in 0..Window - 1 |-> 0] /\ next = 0 /\ count = 0
    /\ changes = 0 /\ log = <<>> /\ sent = 0

\* Mutant: the window keeps the scores of the lookback and one more.
observeVADLonger(score) ==
    LET all == Append(vadScores, score)
        keep == config.lookback + 2
    IN  IF Len(all) > keep THEN SubSeq(all, Len(all) - keep + 1, Len(all)) ELSE all

\* observeVAD: the current step and those whose start is inside the lookback.
observeVAD(score) ==
    LET all == Append(vadScores, score)
        keep == config.lookback + 1
    IN  IF Len(all) > keep THEN SubSeq(all, Len(all) - keep + 1, Len(all)) ELSE all
Effective(scores) == Max(ToSet(scores))

\* Mutant: a changed configuration comes with a new gate.
DecideAnew(score, effective) ==
    IF score < config.wake THEN "below_wake"
    ELSE IF config.vadEnabled /\ effective < config.vad THEN "low_vad"
    ELSE IF /\ lastAccepted # Never /\ now - lastAccepted < config.interval
            /\ log # <<>> /\ Last(log).config = config THEN "refractory"
    ELSE "accepted"

\* Gate.Decide.
Decide(score, effective) ==
    IF score < config.wake THEN "below_wake"
    ELSE IF config.vadEnabled /\ effective < config.vad THEN "low_vad"
    ELSE IF lastAccepted # Never /\ now - lastAccepted < config.interval THEN "refractory"
    ELSE "accepted"

\* Mutant: the window of timings is not circular.
AddFirst ==
    /\ timings' = [timings EXCEPT ![next] = steps + 1]
    /\ next' = IF next + 1 < Window THEN next + 1 ELSE next
    /\ count' = IF count < Window THEN count + 1 ELSE Window

\* durationWindow.add; a timing is known by its step.
Add ==
    /\ timings' = [timings EXCEPT ![next] = steps + 1]
    /\ next' = (next + 1) % Window
    /\ count' = IF count < Window THEN count + 1 ELSE Window

\* Mutant: an event counts when it was taken.
ObserveUncounted(decision) ==
    /\ steps' = steps + 1 /\ UNCHANGED wakeCount
    /\ rejected' = rejected + (IF decision = "low_vad" THEN 1 ELSE 0)

\* Stats.Observe.
Observe(decision) ==
    /\ steps' = steps + 1
    /\ wakeCount' = wakeCount + (IF decision = "accepted" THEN 1 ELSE 0)
    /\ rejected' = rejected + (IF decision = "low_vad" THEN 1 ELSE 0)

\* processStep.  An engine that need not be scored hears nothing of the step.
ProcessStep(vad, wake) ==
    LET scores == observeVAD(vad)
        effective == Effective(scores)
        measured == config.always \/ ~config.vadEnabled \/ effective >= config.vad
        decision == IF measured THEN Decide(wake, effective) ELSE "below_wake"
    IN  /\ pc = "step" /\ steps < MaxSteps
        /\ vadScores' = scores
        /\ IF measured THEN Add ELSE UNCHANGED <<timings, next, count>>
        /\ Observe(decision)
        /\ lastAccepted' = IF decision = "accepted" THEN now ELSE lastAccepted
        /\ \E d \in 1..MaxDelay : now' = now + d
        /\ pc' = IF decision = "accepted" THEN "send" ELSE "step"
        /\ log' = Append(log, [at |-> now, vad |-> vad, wake |-> wake, config |-> config,
                               measured |-> measured, decision |-> decision])
        /\ UNCHANGED <<config, changes, sent>>

\* A score that is none ends the pipeline.
ScoreFails ==
    /\ pc = "step" /\ pc' = "failed"
    /\ UNCHANGED <<config, now, vadScores, lastAccepted, stats, changes, log, sent>>
\* The event is taken, or the context ends first.
Deliver ==
    /\ pc = "send"
    /\ \/ pc' = "step" /\ sent' = sent + 1
       \/ pc' = "over" /\ UNCHANGED sent
    /\ UNCHANGED <<config, now, vadScores, lastAccepted, stats, changes, log>>
\* The gateway's desired state.
Change ==
    /\ pc = "step" /\ changes < MaxChanges /\ changes' = changes + 1 /\ config' \in Configs \ {config}
    /\ UNCHANGED <<now, pc, vadScores, lastAccepted, stats, log, sent>>

Next ==
    \/ \E vad, wake \in Scores : ProcessStep(vad, wake)
    \/ ScoreFails \/ Deliver \/ Change
Spec == Init /\ [][Next]_vars

-----------------------------------------------------------------------------
Accepted == {i \in DOMAIN log : log[i].decision = "accepted"}

\* The steps whose voice activity step n may count: those that no lookback in
\* force since was too short for.
Covered(n) == {j \in 1..n : \A i \in j..n : i - j <= log[i].config.lookback}
Heard(n) == Max({log[j].vad : j \in Covered(n)})

\* A wake is accepted, and one turned down for its voice activity, by the
\* largest score of the lookback, however the lookback has changed.
DecisionsFollowLookback ==
    \A n \in DOMAIN log : LET c == log[n].config
                          IN  /\ log[n].decision = "accepted" /\ c.vadEnabled => Heard(n) >= c.vad
                              /\ log[n].decision = "low_vad" => Heard(n) < c.vad
                              /\ ~log[n].measured => Heard(n) < c.vad

\* "recreating it here would silently disable refractory time": two accepted
\* wakes are apart by the interval in force at the second, across changes of
\* the configuration.
AcceptedIsSpaced ==
    \A i, j \in Accepted : i < j => log[j].at - log[i].at >= log[j].config.interval

\* The statistics count every accepted wake once, the one whose event the end
\* of the pipeline swallowed too.
StatsAddUp ==
    /\ wakeCount = Cardinality(Accepted)
    /\ wakeCount - sent = (IF pc \in {"send", "over"} THEN 1 ELSE 0)

Measured == {i \in DOMAIN log : log[i].measured}
Later(i) == {j \in Measured : j > i}

\* The percentiles are taken of the latest measurements and of no others.
TimingsAreLatest ==
    {timings[i] : i \in 0..count - 1} = {i \in Measured : Cardinality(Later(i)) < Window}

\* Not so when an engine need not be scored: what it scores is the audio that
\* precedes the end of the step.
EngineHearsEverything ==
    \A n \in DOMAIN log : log[n].measured => \A i \in 1..n : log[i].measured

\* What changes of the configuration between two steps leave as it should be:
\* the lookback, the refractory time, the timings and the counts.
GateInvariant == DecisionsFollowLookback /\ AcceptedIsSpaced /\ TimingsAreLatest /\ StatsAddUp
=============================================================================
