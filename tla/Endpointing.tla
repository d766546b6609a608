----------------------------- MODULE Endpointing -----------------------------
(***************************************************************************)
(* The device-local command endpoint detector: endpointing.Controller of   *)
(* internal/device/endpointing.  A turn starts on a trigger, is fed the    *)
(* captured frames and ends with the reason that goes on the wire.  The    *)
(* detector is abstracted to the score it reports after a frame, a frame   *)
(* to that score and its duration, and milliseconds to small naturals.     *)
(* Every method runs under the controller's mutex: one action per call.    *)
(***************************************************************************)
EXTENDS Naturals, Sequences

CONSTANTS
    Candidates,   \* revisions a caller may hand to StageConfig, valid or not
    NoConfig,     \* the nil pending pointer
    MaxScore,     \* the score 1.0
    FrameLengths, \* durations of the frames a turn is fed
    PreRolls      \* durations of the pre-roll audio a trigger carries

\* The shape of protocol.EndpointingConfig; thresholds share the scores' scale.
EndpointingConfig ==
    [threshold : Nat, onset : Nat, silence : Nat, noSpeech : Nat, maxTurn : Nat]

\* EndpointingConfig.Validate: a threshold in [0, 1] and positive durations.
\* Nothing relates the durations to each other.
Validate(c) ==
    /\ c.threshold <= MaxScore
    /\ \A f \in {"onset", "silence", "noSpeech", "maxTurn"} : c[f] > 0

Configs == {c \in Candidates : Validate(c)}

Scores == 0..MaxScore

VARIABLES
    state,    \* Controller.state
    config,   \* Controller.config, what the next Start snapshots
    pending,  \* Controller.pending
    turn,     \* Controller.turn, the snapshot of the current turn
    elapsed, onset, silence,
    \* History, read by properties only:
    latest,   \* the revision the last successful stage call delivered
    asked,    \* latest when the current turn started
    preRoll,  \* pre-roll of the current turn
    heard,    \* frames of the current turn
    stop      \* how the last turn ended; "none" before that and during a turn

code == <<state, config, pending, turn, elapsed, onset, silence>>
history == <<latest, asked, preRoll, heard, stop>>
vars == <<code, history>>

Active == state \in {"WaitingForSpeech", "InSpeech"}
idleLocked == state \in {"Idle", "Completed"}

Init ==
    /\ state = "Idle"
    /\ config \in Configs
    /\ turn = config
    /\ pending = NoConfig
    /\ elapsed = 0 /\ onset = 0 /\ silence = 0
    /\ latest = config /\ asked = config
    /\ preRoll = 0 /\ heard = <<>> /\ stop = "none"

\* Mutant: a completed controller is not taken for an idle one.
StageOnlyWhenFresh(c) ==
    /\ IF state = "Idle"
         THEN config' = c /\ pending' = NoConfig
         ELSE config' = config /\ pending' = c
    /\ latest' = c
    /\ UNCHANGED <<state, turn, elapsed, onset, silence, asked, preRoll, heard, stop>>

\* A validated revision replaces config at the idle boundary and is held for
\* the next turn otherwise.
StageValidatedConfig(c) ==
    /\ IF idleLocked
         THEN config' = c /\ pending' = NoConfig
         ELSE config' = config /\ pending' = c
    /\ latest' = c
    /\ UNCHANGED <<state, turn, elapsed, onset, silence, asked, preRoll, heard, stop>>

\* An invalid revision is returned as an error before anything changes.
StageConfig(c) == Validate(c) /\ StageValidatedConfig(c)

\* Start fails with ErrActiveTurn while a turn is active.
Start(p) ==
    /\ idleLocked
    /\ state' = "WaitingForSpeech"
    /\ turn' = config
    /\ elapsed' = p
    /\ onset' = 0 /\ silence' = 0
    /\ preRoll' = p /\ heard' = <<>> /\ stop' = "none" /\ asked' = latest
    /\ UNCHANGED <<config, pending, latest>>

\* Mutant: a held revision stays held when the turn ends.
FinishWithoutPromotion ==
    /\ state' = IF Active THEN "Completed" ELSE state
    /\ UNCHANGED <<config, pending>>

\* The shared tail of complete and Cancel: the held revision becomes current.
finish ==
    /\ state' = IF Active THEN "Completed" ELSE state
    /\ config' = IF pending # NoConfig THEN pending ELSE config
    /\ pending' = NoConfig

complete(reason) == finish /\ stop' = reason

Continue == stop' = stop /\ UNCHANGED <<config, pending>>

\* A frame scored below the threshold.
ObserveSilence(d) ==
    IF state = "WaitingForSpeech"
      THEN /\ onset' = 0
           /\ silence' = silence
           /\ IF elapsed' >= turn.noSpeech
                THEN complete("no_speech")
                ELSE Continue /\ state' = state
      ELSE /\ onset' = onset
           /\ silence' = silence + d
           /\ IF silence' >= turn.silence
                THEN complete("endpointed")
                ELSE Continue /\ state' = state

\* Mutant: speech inside a command does not restart the trailing silence.
ObserveSpeechNoReset(d) ==
    IF state = "WaitingForSpeech"
      THEN /\ onset' = onset + d
           /\ silence' = silence
           /\ IF onset' >= turn.onset
                THEN Continue /\ state' = "InSpeech"
                ELSE IF elapsed' >= turn.noSpeech
                       THEN complete("no_speech")
                       ELSE Continue /\ state' = state
      ELSE /\ onset' = onset
           /\ silence' = silence
           /\ Continue /\ state' = state

\* A frame scored at or above the threshold.
ObserveSpeech(d) ==
    IF state = "WaitingForSpeech"
      THEN /\ onset' = onset + d
           /\ IF onset' >= turn.onset
                THEN Continue /\ state' = "InSpeech" /\ silence' = 0
                ELSE /\ silence' = silence
                     /\ IF elapsed' >= turn.noSpeech
                          THEN complete("no_speech")
                          ELSE Continue /\ state' = state
      ELSE /\ onset' = onset
           /\ silence' = 0
           /\ Continue /\ state' = state

\* Mutant: the hard limit is tested with > instead of >=.
ObserveLateLimit(score, d) ==
    /\ Active
    /\ elapsed' = elapsed + d
    /\ heard' = Append(heard, [score |-> score, length |-> d])
    /\ IF elapsed' > turn.maxTurn
         THEN complete("timeout") /\ UNCHANGED <<onset, silence>>
         ELSE IF score >= turn.threshold THEN ObserveSpeech(d) ELSE ObserveSilence(d)
    /\ UNCHANGED <<turn, latest, asked, preRoll>>

\* Mutant: the early return forgets that InSpeech is part of a turn.
ObserveBeforeSpeechOnly(score, d) ==
    /\ state = "WaitingForSpeech"
    /\ ObserveLateLimit(score, d)

\* Outside a turn a frame only warms the detector.
Observe(score, d) ==
    /\ Active
    /\ elapsed' = elapsed + d
    /\ heard' = Append(heard, [score |-> score, length |-> d])
    /\ IF elapsed' >= turn.maxTurn
         THEN complete("timeout") /\ UNCHANGED <<onset, silence>>
         ELSE IF score >= turn.threshold THEN ObserveSpeech(d) ELSE ObserveSilence(d)
    /\ UNCHANGED <<turn, latest, asked, preRoll>>

\* The capture ended.
EOF ==
    /\ Active
    /\ complete("eof")
    /\ UNCHANGED <<turn, elapsed, onset, silence, latest, asked, preRoll, heard>>

\* Cancel reports no reason and may be called at any time.
Cancel ==
    /\ finish
    /\ stop' = IF Active THEN "cancelled" ELSE stop
    /\ UNCHANGED <<turn, elapsed, onset, silence, latest, asked, preRoll, heard>>

ObserveFrame == \E score \in Scores, d \in FrameLengths : Observe(score, d)

Next ==
    \/ \E c \in Candidates : StageConfig(c)
    \/ \E p \in PreRolls : Start(p)
    \/ ObserveFrame
    \/ EOF
    \/ Cancel

\* The capture thread keeps delivering frames to the coordinator while a turn
\* is active; nothing obliges a trigger, a revision, EOF or a cancellation.
Fairness == WF_vars(ObserveFrame)

Spec == Init /\ [][Next]_vars /\ Fairness
-----------------------------------------------------------------------------
Frames == [score : Scores, length : FrameLengths]

TypeOK ==
    /\ state \in {"Idle", "WaitingForSpeech", "InSpeech", "Completed"}
    /\ config \in Configs /\ turn \in Configs
    /\ pending \in Configs \cup {NoConfig}
    /\ elapsed \in Nat /\ onset \in Nat /\ silence \in Nat
    /\ latest \in Configs /\ asked \in Configs
    /\ preRoll \in PreRolls \cup {0}
    /\ heard \in Seq(Frames)
    /\ stop \in {"none", "timeout", "endpointed", "no_speech", "eof", "cancelled"}

\* However stage calls, turns and cancellations interleave, the revision the
\* next Start would snapshot once the current turn ends is the one delivered
\* last: no revision is lost at the idle boundary and none outlives a newer
\* one (StageValidatedConfig, finish).
LatestRevisionIsNext ==
    /\ latest = IF pending # NoConfig THEN pending ELSE config
    /\ idleLocked => pending = NoConfig

\* A running turn decides by the revision that was in force when it started
\* ("A configuration is copied at Start, so config delivery cannot alter an
\* active voice turn").
TurnKeepsItsRevision == Active => turn = asked

\* Once a turn was fed a frame it is still running only below every limit of
\* its own revision: the hard limit always, the no-speech limit before speech,
\* the onset while waiting and the trailing silence during speech.  A limit
\* that is tested late or against a stale counter lets a turn overrun it.
RunningTurnIsWithinLimits ==
    Active /\ heard # <<>> =>
        /\ elapsed < asked.maxTurn
        /\ state = "WaitingForSpeech" => elapsed < asked.noSpeech /\ onset < asked.onset
        /\ state = "InSpeech" => silence < asked.silence

-----------------------------------------------------------------------------
(* The reference the incremental counters are checked against: a           *)
(* declarative reading of a turn's whole frame history.                    *)

\* The total length of the first n frames of the turn, and of frames i..j.
Total[n \in 0..Len(heard)] == IF n = 0 THEN 0 ELSE Total[n - 1] + heard[n].length
LengthOf(i, j) == Total[j] - Total[i - 1]

IsSpeech(k) == heard[k].score >= asked.threshold

\* Within the first n frames some unbroken run of speech reached the onset.
SpeechBegan(n) ==
    \E i \in 1..n : \E j \in i..n :
        (\A k \in i..j : IsSpeech(k)) /\ LengthOf(i, j) >= asked.onset

\* The first n frames end in an unbroken run of silence, all of it after
\* speech began, that reached the trailing silence.
SilenceTrails(n) ==
    \E i \in 1..n :
        /\ \A k \in i..n : ~IsSpeech(k)
        /\ LengthOf(i, n) >= asked.silence
        /\ SpeechBegan(i - 1)

\* What the n-th frame must end the turn with.
ReasonAt(n) ==
    IF preRoll + LengthOf(1, n) >= asked.maxTurn THEN "timeout"
    ELSE IF SilenceTrails(n) THEN "endpointed"
    ELSE IF ~SpeechBegan(n) /\ preRoll + LengthOf(1, n) >= asked.noSpeech THEN "no_speech"
    ELSE "none"

\* The counters of Observe give, frame by frame, the verdict of the reference
\* on everything heard since the trigger: a turn runs on exactly while the
\* reference has no reason to stop it and stops with the reference's reason.
ReasonMatchesHistory ==
    /\ Active \/ stop \in {"eof", "cancelled"} =>
           \A n \in 1..Len(heard) : ReasonAt(n) = "none"
    /\ stop \in {"timeout", "endpointed", "no_speech"} =>
           /\ ReasonAt(Len(heard)) = stop
           /\ \A n \in 1..(Len(heard) - 1) : ReasonAt(n) = "none"
-----------------------------------------------------------------------------
\* While frames keep arriving every turn ends, whatever they contain: the hard
\* limit bounds it.
TurnEnds == Active ~> ~Active

\* What holds in every state of the controller, whatever is staged, heard or
\* cancelled in whichever order; it is inductive as it stands.
ControllerInvariant ==
    TypeOK /\ LatestRevisionIsNext /\ TurnKeepsItsRevision /\ RunningTurnIsWithinLimits
=============================================================================
