------------------------------ MODULE Listening ------------------------------
(***************************************************************************)
(* What a device makes of the audio it captures, one of four parts at a    *)
(* time: the handoff of frames to the wake pipeline and to a turn, the     *)
(* gate that decides a wake step, the engine that scores it, the           *)
(* controller that says when a turn is over.  The parts share no state:    *)
(* what one makes of the audio is an arbitrary input of the next.          *)
(***************************************************************************)
EXTENDS CaptureHandoff

CONSTANTS
    WakeConfigs, Window, MaxSteps, MaxDelay, MaxChanges,                \* of WakeGate
    Chains, Rows, EngineFrames, EngineSteps,                            \* of WakeEngine
    Candidates, NoConfig, MaxScore, FrameLengths, TriggerPreRolls       \* of Endpointing

VARIABLES
    wakeConfig, now, pc, vadScores, lastAccepted, gsteps, wakeCount, rejected, timings, next, count,
    changes, log, sent,
    chain, window, held, ering, score, failed, heard, embeddings, steps,
    state, config, pending, eturn, elapsed, onset, silence, latest, asked, preRoll, eheard, stop

Gate == INSTANCE WakeGate WITH Configs <- WakeConfigs, config <- wakeConfig, steps <- gsteps
Engine == INSTANCE WakeEngine WITH
    Frames <- EngineFrames, MaxSteps <- EngineSteps, pending <- held, ring <- ering
Endpoint == INSTANCE Endpointing WITH PreRolls <- TriggerPreRolls, turn <- eturn, heard <- eheard

\* A window of timings has room, and the fields of a configuration are what
\* wake.Config.Validate lets through.
ASSUME GateAssumption == Window \in Nat \ {0} /\ WakeConfigs \subseteq Gate!Config

\* A revision has the shape of protocol.EndpointingConfig and is not the nil
\* pointer; frames are not empty.
ASSUME EndpointAssumption ==
    /\ Candidates \subseteq Endpoint!EndpointingConfig /\ NoConfig \notin Candidates
    /\ MaxScore \in Nat /\ FrameLengths \subseteq Nat \ {0} /\ TriggerPreRolls \subseteq Nat

\* The dilation of an operator is positive in a TFLite model; everything else that
\* could go wrong with a chain NewStream looks for.
ASSUME EngineAssumption ==
    /\ Chains \subseteq Seq(Engine!Operator)
    /\ Rows \in Nat \ {0} /\ EngineFrames \in Nat

gate == <<wakeConfig, now, pc, vadScores, lastAccepted, gsteps, wakeCount, rejected, timings, next,
          count, changes, log, sent>>
engine == <<chain, window, held, ering, score, failed, heard, embeddings, steps>>
endpoint == <<state, config, pending, eturn, elapsed, onset, silence, latest, asked, preRoll, eheard,
              stop>>

-----------------------------------------------------------------------------
\* The properties of the parts, stated in their modules.

\* WakeGate: the kept state survives changes of the configuration.
GateInvariant == Gate!GateInvariant
\* WakeEngine: incremental inference is inference on whole windows.
InferenceIsIncremental == Engine!InferenceIsIncremental
\* Endpointing: revisions switch at turn boundaries, a turn is within its limits.
ControllerInvariant == Endpoint!ControllerInvariant
\* Endpointing: counters give the verdict of the whole history.
ReasonMatchesHistory == Endpoint!ReasonMatchesHistory
\* Endpointing: a turn ends.
TurnEnds == Endpoint!TurnEnds
=============================================================================
