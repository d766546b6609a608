-------------------------------- MODULE Daemon --------------------------------
(***************************************************************************)
(* What an echod process takes and gives back: the microphone-cut GPIO,    *)
(* the light ring, the microphone and the wake engine.  It prepares the    *)
(* device, sets up one piece after the other with a deferred call for what *)
(* has to be undone, runs workers until the first of them ends or a signal *)
(* comes, and undoes everything in reverse.  The animator of the connected *)
(* mode is no worker: it runs on the signal's context and nobody waits for *)
(* it.                                                                     *)
(***************************************************************************)
EXTENDS Naturals, Sequences

CONSTANT MaxToggles  \* bound on the changes of the GPIO by others

Workers == {"capture", "rest", "led"}
Devices == {"prepare", "test", "animator"}  \* the led.Devices, each with a cache
Calls == {"led", "test", "mic", "engine", "nothing"}

VARIABLES
    o,          \* options: wake-only, from a file; and whether there is a ring
    pc, steps, deferred,  \* prepareDeviceStartup, run, runConnected or runWakeOnly
    gpio,       \* GPIO 444: not "exported", or its value
    observed,   \* the value Prepare found
    ring, cached,
    mic, engine,
    worker,     \* what each worker does, or that its result was taken
    stopped,    \* the signal's context is done
    cancelled,  \* the workers' context is done
    anim, hand, want, ticking, tick,  \* Animator.Run, its frame, the display asked for, the ticker
    toggles,
    \* History, read by properties only:
    failed, claimed, late

device == <<gpio, ring>>
main == <<pc, steps, deferred>>
work == <<worker, cancelled>>
animator == <<anim, hand, tick>>
history == <<failed, claimed, late>>
vars == <<o, main, device, observed, cached, mic, engine, work, stopped, animator, want, ticking,
          toggles, history>>

Options == {x \in [wakeOnly : BOOLEAN, file : BOOLEAN, led : BOOLEAN] : x.file \/ x.led}
Alive == pc # "exit"

\* What runConnected and runWakeOnly do up to their workers, each step by what
\* may go wrong in it.
Setup(x) ==
    CASE ~x.wakeOnly -> <<"identity", "led", "state", "mic", "parts", "engine", "client", "buttons">>
      [] x.wakeOnly /\ x.file -> <<"identity", "engine", "mic", "parts", "led", "buttons">>
      [] x.wakeOnly /\ ~x.file -> <<"identity", "engine", "test", "mic", "parts", "buttons">>

\* A process starts on a device as its predecessor left it, which may have been
\* killed at any time.
Init ==
    /\ o \in Options /\ gpio \in {"unexported", "0", "1"} /\ ring \in {"lit", "dark"}
    /\ pc = (IF o.file THEN "setup" ELSE "snapshot")
    /\ steps = Setup(o) /\ deferred = <<>> /\ observed = "none"
    /\ cached = [d \in Devices |-> "nothing"] /\ mic = "closed" /\ engine = "none"
    /\ worker = [w \in Workers |-> "none"] /\ stopped = FALSE /\ cancelled = FALSE
    /\ anim = "none" /\ hand = "dark" /\ want = "lit" /\ ticking = FALSE /\ tick = FALSE
    /\ toggles = 0 /\ failed = {} /\ claimed = FALSE /\ late = FALSE

-----------------------------------------------------------------------------
\* Device.WriteFrame: the cached frame is not written again; a lit frame may be
\* another than the lit one before it.
Writes(d, frame) ==
    \/ cached[d] = frame /\ UNCHANGED <<ring, cached, failed>>
    \/ /\ cached[d] # frame \/ frame = "lit"
       /\ ring' = frame /\ cached' = [cached EXCEPT ![d] = frame] /\ UNCHANGED failed
Fails(d, frame) ==
    /\ cached[d] # frame \/ frame = "lit"
    /\ failed' = failed \cup {"ring"} /\ UNCHANGED <<ring, cached>>

\* ensureMuteGPIO and the check of what it read; an export that fails half way
\* leaves the GPIO exported.
Snapshot ==
    /\ pc = "snapshot"
    /\ \/ /\ gpio' = IF gpio = "unexported" THEN "0" ELSE gpio
          /\ observed' = gpio' /\ pc' = "services" /\ claimed' = TRUE
       \/ /\ gpio' \in {gpio, IF gpio = "unexported" THEN "0" ELSE gpio}
          /\ pc' = "exit" /\ UNCHANGED <<observed, claimed>>
    /\ UNCHANGED <<o, steps, deferred, ring, cached, mic, engine, work, stopped, animator, want,
                   ticking, toggles, failed, late>>

\* The services and the boot animation, then the ring, which shows whatever it
\* was left with; the first error goes on with the cleanup.
Prepare ==
    /\ pc = "services"
    /\ \/ Writes("prepare", "dark") /\ pc' = "setup"
       \/ Fails("prepare", "dark") /\ pc' = "cleanup"
       \/ pc' = "cleanup" /\ UNCHANGED <<ring, cached, failed>>
    /\ UNCHANGED <<o, steps, deferred, gpio, observed, mic, engine, work, stopped, animator, want,
                   ticking, toggles, claimed, late>>

\* startWakeOnlyTestIndicator: an error of the ring leaves it as it is, one of
\* the cue clears it.
TestIndicator ==
    \/ ring' = "lit" /\ cached' = [cached EXCEPT !["test"] = "lit"]
       /\ deferred' = <<"test">> \o deferred /\ steps' = Tail(steps) /\ UNCHANGED <<pc, failed>>
    \/ /\ ring' \in {ring, "lit", "dark"} /\ failed' = failed \cup {"ring"}
       /\ pc' = "unwind" /\ UNCHANGED <<cached, deferred, steps>>
    \/ ring' = "dark" /\ pc' = "unwind" /\ UNCHANGED <<cached, deferred, steps, failed>>

\* One step of the setup; what it opens is put on the deferred calls.
SetUp ==
    /\ pc = "setup" /\ steps # <<>> /\ Head(steps) # "test"
    /\ LET step == Head(steps)
       IN  \/ /\ steps' = Tail(steps) /\ UNCHANGED pc
              /\ deferred' = IF step \in {"engine", "mic"} \/ (step = "led" /\ o.led)
                             THEN <<step>> \o deferred ELSE deferred
              /\ engine' = IF step = "engine" THEN "open" ELSE engine
              /\ mic' = IF step = "mic" THEN "open" ELSE mic
              /\ anim' = IF step = "led" /\ o.led /\ ~o.wakeOnly THEN "render" ELSE anim
              /\ ticking' = (ticking \/ (step = "led" /\ o.led))
              /\ claimed' = (claimed \/ (step = "led" /\ o.led))
           \/ pc' = "unwind" /\ UNCHANGED <<steps, deferred, engine, mic, anim, ticking, claimed>>
    /\ UNCHANGED <<o, device, observed, cached, work, stopped, hand, tick, want, toggles,
                   failed, late>>
StartTest ==
    /\ pc = "setup" /\ steps # <<>> /\ Head(steps) = "test" /\ TestIndicator
    /\ UNCHANGED <<o, gpio, observed, mic, engine, work, stopped, animator, want, ticking, toggles, claimed, late>>

-----------------------------------------------------------------------------
\* runWakeWorkers.  The wake-only mode gives the microphone away: its deferred
\* call does nothing.
StartWorkers ==
    /\ pc = "setup" /\ steps = <<>> /\ pc' = "running"
    /\ worker' = [w \in Workers |-> IF w = "led" /\ ~ticking THEN "taken" ELSE "running"]
    /\ anim' = IF o.wakeOnly /\ ticking THEN "render" ELSE anim
    /\ deferred' = [i \in DOMAIN deferred |->
                        IF o.wakeOnly /\ deferred[i] = "mic" THEN "nothing" ELSE deferred[i]]
    /\ UNCHANGED <<o, steps, device, observed, cached, mic, engine, cancelled, stopped, hand, tick,
                   want, ticking, toggles, history>>
Take(w) == worker[w] = "returned" /\ worker' = [worker EXCEPT ![w] = "taken"]
FirstResult ==
    /\ pc = "running" /\ pc' = "close" /\ cancelled' = TRUE
    /\ (\E w \in Workers : Take(w)) \/ (stopped /\ UNCHANGED worker)
    /\ UNCHANGED <<o, steps, deferred, device, observed, cached, mic, engine, stopped, animator, want,
                   ticking, toggles, history>>

\* Mutant: the microphone is left to the deferred call.
CloseNothing ==
    /\ pc = "close" /\ pc' = "join"
    /\ UNCHANGED <<o, steps, deferred, device, observed, cached, mic, engine, work, stopped, animator,
                   want, ticking, toggles, history>>

\* closeOncePCMSource.
Closed == IF mic = "open" THEN "closed" ELSE mic
CloseSource ==
    /\ pc = "close" /\ pc' = "join" /\ mic' = Closed
    /\ UNCHANGED <<o, steps, deferred, device, observed, cached, engine, work, stopped, animator,
                   want, ticking, toggles, history>>

\* Mutant: one result is enough.
JoinOne ==
    /\ pc = "join"
    /\ \/ (\E w \in Workers : Take(w)) /\ UNCHANGED pc
       \/ (\E w \in Workers : worker[w] = "taken") /\ pc' = "unwind" /\ UNCHANGED worker
    /\ UNCHANGED <<o, steps, deferred, device, observed, cached, mic, engine, cancelled, stopped,
                   animator, want, ticking, toggles, history>>

Join ==
    /\ pc = "join"
    /\ \/ (\E w \in Workers : Take(w)) /\ UNCHANGED pc
       \/ (\A w \in Workers : worker[w] = "taken") /\ pc' = "unwind" /\ UNCHANGED worker
    /\ UNCHANGED <<o, steps, deferred, device, observed, cached, mic, engine, cancelled, stopped,
                   animator, want, ticking, toggles, history>>

\* A worker ends by itself, or because its context did.  Of the capture only a
\* closed microphone is sure to end the read it is in.
WorkerEnds(w) ==
    /\ worker[w] = "running" /\ Alive
    /\ w = "led" => anim = "done" \/ (cancelled /\ ~o.wakeOnly)
    /\ worker' = [worker EXCEPT ![w] = "returned"]
    /\ UNCHANGED <<o, main, device, observed, cached, mic, engine, cancelled, stopped, animator, want,
                   ticking, toggles, history>>
MustEnd(w) ==
    /\ CASE w = "capture" -> mic # "open"
         [] w = "rest" -> cancelled
         [] OTHER -> TRUE
    /\ WorkerEnds(w)

-----------------------------------------------------------------------------
\* Animator.Run, on its own context.
AnimatorStops == anim = "tick" /\ (IF o.wakeOnly THEN cancelled ELSE stopped) /\ anim' = "done"
                 /\ UNCHANGED <<hand, tick, ring, cached, failed>>
Animates ==
    /\ Alive
    /\ \/ anim = "render" /\ hand' = want /\ anim' = "write"
          /\ UNCHANGED <<tick, ring, cached, failed>>
       \/ /\ anim = "write" /\ UNCHANGED <<hand, tick>>
          /\ \/ Writes("animator", hand) /\ anim' = "tick"
             \/ Fails("animator", hand) /\ anim' = "done"
       \/ anim = "tick" /\ tick /\ tick' = FALSE /\ anim' = "render"
          /\ UNCHANGED <<hand, ring, cached, failed>>
       \/ AnimatorStops
    /\ UNCHANGED <<o, main, gpio, observed, mic, engine, work, stopped, want, ticking, toggles, claimed, late>>
TickerFires ==
    /\ Alive /\ ticking /\ ~tick /\ anim # "done" /\ tick' = TRUE
    /\ UNCHANGED <<o, main, device, observed, cached, mic, engine, work, stopped, anim, hand, want,
                   ticking, toggles, history>>
\* Turns, buttons, sessions and the boot timer ask for another display.
Command ==
    /\ Alive /\ ticking /\ want' \in {"lit", "dark"} \ {want}
    /\ UNCHANGED <<o, main, device, observed, cached, mic, engine, work, stopped, animator, ticking,
                   toggles, history>>

-----------------------------------------------------------------------------
\* A frame that may still be written after the ring is cleared.
InHand == anim \in {"render", "write"} \/ (anim = "tick" /\ tick)

\* Mutant: closing the service of the ring only stops its ticker.
UnwindStopsOnly ==
    /\ pc = "unwind" /\ deferred # <<>>
    /\ LET call == Head(deferred)
       IN  /\ engine' = IF call = "engine" THEN "closed" ELSE engine
           /\ mic' = IF call = "mic" THEN Closed ELSE mic
           /\ ticking' = (ticking /\ call # "led")
           /\ late' = (late \/ (call = "led" /\ InHand))
           /\ IF call = "test" THEN Writes("test", "dark") \/ Fails("test", "dark")
              ELSE UNCHANGED <<ring, cached, failed>>
    /\ deferred' = Tail(deferred)
    /\ UNCHANGED <<o, pc, steps, gpio, observed, work, stopped, animator, want, toggles, claimed>>

\* The deferred calls: Service.Close and the test indicator's clear, the
\* microphone's close, the engine's.
Unwind ==
    /\ pc = "unwind" /\ deferred # <<>>
    /\ LET call == Head(deferred)
           dev == IF call = "led" THEN "animator" ELSE "test"
       IN  /\ engine' = IF call = "engine" THEN "closed" ELSE engine
           /\ mic' = IF call = "mic" THEN Closed ELSE mic
           /\ ticking' = (ticking /\ call # "led")
           /\ late' = (late \/ (call = "led" /\ InHand))
           /\ IF call \in {"led", "test"} THEN Writes(dev, "dark") \/ Fails(dev, "dark")
              ELSE UNCHANGED <<ring, cached, failed>>
    /\ deferred' = Tail(deferred)
    /\ UNCHANGED <<o, pc, steps, gpio, observed, work, stopped, animator, want, toggles, claimed>>
Unwound ==
    /\ pc = "unwind" /\ deferred = <<>> /\ pc' = IF o.file THEN "exit" ELSE "cleanup"
    /\ UNCHANGED <<o, steps, deferred, device, observed, cached, mic, engine, work, stopped, animator,
                   want, ticking, toggles, history>>

\* Mutant: the GPIO is restored only when the ring was cleared.
CleanupInOrder ==
    /\ pc = "cleanup"
    /\ \/ Writes("prepare", "dark") /\ pc' = "restore"
       \/ Fails("prepare", "dark") /\ pc' = "exit"
    /\ UNCHANGED <<o, steps, deferred, gpio, observed, mic, engine, work, stopped, animator, want,
                   ticking, toggles, claimed, late>>

\* Prepare's cleanup: the ring, then the GPIO whatever came of the ring.
Cleanup ==
    /\ pc = "cleanup" /\ pc' = "restore"
    /\ Writes("prepare", "dark") \/ Fails("prepare", "dark")
    /\ UNCHANGED <<o, steps, deferred, gpio, observed, mic, engine, work, stopped, animator, want,
                   ticking, toggles, claimed, late>>
Restore ==
    /\ pc = "restore" /\ pc' = "exit"
    /\ \/ gpio' = observed /\ UNCHANGED failed
       \/ failed' = failed \cup {"gpio"} /\ UNCHANGED gpio
    /\ UNCHANGED <<o, steps, deferred, ring, observed, cached, mic, engine, work, stopped, animator,
                   want, ticking, toggles, claimed, late>>

-----------------------------------------------------------------------------
Signal ==
    /\ Alive /\ ~stopped /\ stopped' = TRUE
    /\ UNCHANGED <<o, main, device, observed, cached, mic, engine, work, animator, want, ticking,
                   toggles, history>>
\* The firmware changes the GPIO under the daemon.
Toggle ==
    /\ Alive /\ gpio # "unexported" /\ toggles < MaxToggles /\ toggles' = toggles + 1
    /\ pc # "snapshot" /\ gpio' \in {"0", "1"} \ {gpio}
    /\ UNCHANGED <<o, main, ring, observed, cached, mic, engine, work, stopped, animator, want,
                   ticking, history>>

Main == Snapshot \/ Prepare \/ SetUp \/ StartTest \/ StartWorkers \/ FirstResult \/ CloseSource
        \/ Join \/ Unwind \/ Unwound \/ Cleanup \/ Restore
Next ==
    \/ Main \/ (\E w \in Workers : WorkerEnds(w)) \/ Animates \/ TickerFires \/ Command
    \/ Signal \/ Toggle

\* The goroutines go on; a cancelled worker returns, the capture when its
\* microphone is closed.
Fairness ==
    /\ WF_vars(Main) /\ WF_vars(Animates) /\ \A w \in Workers : WF_vars(MustEnd(w))
    /\ SF_vars(Animates /\ AnimatorStops)
Spec == Init /\ [][Next]_vars /\ Fairness

-----------------------------------------------------------------------------
TypeOK ==
    /\ o \in Options /\ gpio \in {"unexported", "0", "1"} /\ observed \in {"none", "0", "1"}
    /\ ring \in {"lit", "dark"} /\ mic \in {"closed", "open"}
    /\ engine \in {"none", "open", "closed"}
    /\ anim \in {"none", "render", "write", "tick", "done"}
    /\ \A w \in Workers : worker[w] \in {"none", "running", "returned", "taken"}
    /\ deferred \in Seq(Calls) /\ failed \subseteq {"ring", "gpio"}

\* "cleanup restores the value observed before setup began": whatever failed on
\* the way up or down, and the ring not being cleared in particular.
MuteIsRestored ==
    pc = "exit" /\ observed # "none" => gpio = observed \/ "gpio" \in failed

\* "callers must Clear or deliberately render a final state during shutdown":
\* a process that ends leaves the ring dark, unless a write failed or the
\* animator had a frame in hand when its service was closed; the cleanup does
\* not help then, because its own device remembers a dark ring.
RingIsLeftDark ==
    pc = "exit" /\ claimed => ring = "dark" \/ late \/ "ring" \in failed

\* Nothing that was opened is left open, and nobody works with an engine that
\* was closed.
NothingIsLeftOpen ==
    /\ pc \in {"exit", "restore", "cleanup"} => mic # "open" /\ engine # "open"
    /\ engine = "closed" => \A w \in Workers : worker[w] # "running"

\* A signal or the end of any worker ends the process, though the capture hangs
\* in a read and the others wait for each other's channels.
ShutdownReturns ==
    (stopped \/ \E w \in Workers : worker[w] = "returned") ~> ~Alive

\* Not so: "Close stops rendering and clears project-owned LEDs".
CloseLeavesRingDark == pc = "exit" /\ claimed => ring = "dark" \/ "ring" \in failed

\* What the process took is given back, wherever setup, work or cleanup failed.
DaemonInvariant == TypeOK /\ MuteIsRestored /\ RingIsLeftDark /\ NothingIsLeftOpen
=============================================================================
