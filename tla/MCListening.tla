----------------------------- MODULE MCListening -----------------------------
\* Instances of Listening for TLC.
EXTENDS Listening

CONSTANT Parts  \* those a run is about
VARIABLE part   \* and the one that runs

\* Thresholds that a score of 1 reaches and one of 0 does not.
MCWakeConfigs ==
    {[wake |-> 1, vad |-> 1, vadEnabled |-> TRUE, lookback |-> 1, interval |-> 3, always |-> TRUE],
     [wake |-> 1, vad |-> 1, vadEnabled |-> TRUE, lookback |-> 0, interval |-> 0, always |-> FALSE],
     [wake |-> 1, vad |-> 1, vadEnabled |-> FALSE, lookback |-> 2, interval |-> 2, always |-> FALSE]}

\* Operators that NewStream accepts, and some that it does not.
MCStages == [need : 1..3, stride : 0..3, dilation : 1..2, pad : BOOLEAN, table : {FALSE}]
            \cup {[need |-> 1, stride |-> 1, dilation |-> 1, pad |-> FALSE, table |-> TRUE]}
MCChains == {<<a>> : a \in MCStages} \cup {<<a, b>> : a, b \in MCStages}
            \cup {<<a, b, a>> : a, b \in {c \in MCStages : c.need = 2 /\ c.stride > 0 /\ ~c.pad}}
OneStage == [need |-> 1, stride |-> 1, dilation |-> 1, pad |-> FALSE, table |-> FALSE]

Revision(threshold, on, sil, no, max) ==
    [threshold |-> threshold, onset |-> on, silence |-> sil, noSpeech |-> no, maxTurn |-> max]

\* An ordinary revision, one whose onset cannot be reached by one frame, one
\* whose hard limit is the tightest, and one Validate refuses.
MCCandidates ==
    { Revision(1, 1, 2, 3, 6), Revision(2, 2, 1, 4, 5), Revision(1, 3, 1, 5, 2), Revision(1, 1, 0, 2, 4) }

MCInit ==
    /\ part \in Parts
    /\ Init /\ Gate!Init /\ Engine!Init /\ Endpoint!Init
    /\ part # "handoff" => ring = NewRing(CHOOSE n \in PreRolls : TRUE)
    /\ part # "gate" => wakeConfig = CHOOSE c \in WakeConfigs : TRUE
    /\ part # "engine" => chain = <<OneStage, OneStage>>
    /\ part # "endpoint" => config = CHOOSE c \in Endpoint!Configs : TRUE
MCNext ==
    \/ part = "handoff" /\ Next /\ UNCHANGED <<part, gate, engine, endpoint>>
    \/ part = "gate" /\ Gate!Next /\ UNCHANGED <<part, vars, engine, endpoint>>
    \/ part = "engine" /\ Engine!Next /\ UNCHANGED <<part, vars, gate, endpoint>>
    \/ part = "endpoint" /\ Endpoint!Next /\ UNCHANGED <<part, vars, gate, engine>>
MCSpec ==
    /\ MCInit /\ [][MCNext]_<<part, vars, gate, engine, endpoint>>
    \* Endpointing's fairness; the other parts may stop at any moment.
    /\ WF_endpoint(part = "endpoint" /\ Endpoint!ObserveFrame /\ UNCHANGED <<part, vars, gate, engine>>)
=============================================================================
