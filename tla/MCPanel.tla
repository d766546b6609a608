-------------------------------- MODULE MCPanel --------------------------------
\* What echod and echoctl do with the buttons and the ring, one of three parts at
\* a time: the ring of a connected device, a button watcher, the wake feedback.
\* The parts that are not started are in a state in which none of their actions
\* can be taken.
EXTENDS Panel

VARIABLES
    feedback, farmed, fired, closed, err, indicator, flashes, ffaults

Feedback == INSTANCE WakeFeedback WITH
    MaxFlashes <- 3, MaxFaults <- 1, shown <- feedback, armed <- farmed, faults <- ffaults

flashing == <<feedback, farmed, fired, closed, err, indicator, flashes, ffaults>>

IndicatorIdle ==
    /\ connected = FALSE /\ hasConnected = FALSE /\ booting = TRUE /\ timer = "done"
    /\ session = "down" /\ active = FALSE
    /\ trigger = [t \in Triggers |-> "none"] /\ idler = [i \in Idlers |-> "none"]
    /\ state = "thinking" /\ off = FALSE /\ changed = TRUE
    /\ target = "dark" /\ steps = 0 /\ frame = "dark" /\ run = "failed"
    /\ shown = "dark" /\ cached = "nothing"
    /\ sessions = MaxSessions /\ triggers = MaxTriggers /\ faults = MaxFaults
    /\ said = "thinking" /\ stray = FALSE
WatcherIdle ==
    /\ down = [k \in Watch!Keys |-> 0] /\ presses = 0 /\ old = {} /\ stream = <<>> /\ run_ = "eof"
    /\ out = <<>> /\ after = [key |-> "none"]
    /\ pressed = [k \in Watch!Keys |-> [press |-> 0, hold |-> FALSE]] /\ gen = [k \in Watch!Keys |-> 0]
    /\ armed = {} /\ due = <<>> /\ cancelled = TRUE /\ log = [p \in Watch!Ids |-> <<>>]
FeedbackIdle ==
    /\ feedback = "dark" /\ farmed = 0 /\ fired = {} /\ closed = TRUE /\ err = FALSE
    /\ indicator = "cleared" /\ flashes = 3 /\ ffaults = 0

MCInit ==
    \/ Init /\ WatcherIdle /\ FeedbackIdle
    \/ IndicatorIdle /\ Watch!Init /\ FeedbackIdle
    \/ IndicatorIdle /\ WatcherIdle /\ Feedback!Init
MCNext ==
    \/ Next /\ UNCHANGED <<watcher, flashing>>
    \/ Watch!Next /\ UNCHANGED <<vars, flashing>>
    \/ Feedback!Next /\ UNCHANGED <<vars, watcher>>
MCSpec ==
    /\ MCInit /\ [][MCNext]_<<vars, watcher, flashing>>
    /\ Fairness /\ Watch!Fairness /\ Feedback!Fairness

\* The properties of the parts, stated in their modules.

\* Buttons: a release is reported, a hold too, and cancellation ends it all.
PressesAreReported == Watch!PressesAreReported
\* WakeFeedback: no flash outlives its test or its time.
FlashEnds == Feedback!FlashEnds
=============================================================================
