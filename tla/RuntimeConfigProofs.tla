------------------------- MODULE RuntimeConfigProofs -------------------------
(***************************************************************************)
(* No held revision is stranded, no engine leaks and none is scored after  *)
(* it was closed, and what runs is one revision: for any number of         *)
(* revisions, engines and idle callers, across failures of Save, crashes   *)
(* and restarts.                                                           *)
(***************************************************************************)
EXTENDS RuntimeConfig, TLAPS

\* What the holder of the mutex may rely on at each point of its body.
HolderShape ==
    /\ lock = "free" <=> pc = "none"
    /\ pc = "none" => job = NoJob
    /\ pc = "hold" => lock = "apply" /\ (active \/ idlers > 0)
    /\ pc # "none" => job.candidate \in Revisions /\ job.engine \in Engines
    /\ pc \in {"hold", "save", "swap"} => job.previous = NoEngine /\ job.engine # live
    /\ pc = "publish" => job.engine = live /\ job.previous \in Engines \ {live, pendingEngine}
    /\ lock = "apply" => job.engine # pendingEngine
    /\ lock = "idle" =>
         /\ pending # NoRevision /\ idlers > 0
         /\ job.candidate = pending /\ job.engine = pendingEngine

\* Who holds which engine: a Score call is only ever inside the live one.
EngineShape ==
    /\ EnginesAreAccountedFor
    /\ scoring \in {NoEngine, live}
    /\ pendingEngine = live => pc = "publish"

\* The inductive invariant.
IInv == TypeOK /\ HolderShape /\ EngineShape /\ HeldRevisionIsOwed

\* The records the holder keeps have the fields they were built from.
LEMMA JobFields ==
    ASSUME NEW c, NEW e
    PROVE  Job(c, e).candidate = c /\ Job(c, e).engine = e /\ Job(c, e).previous = NoEngine
  BY DEF Job

\* A new engine gets a handle nobody holds.
LEMMA HandleIsFree ==
    ASSUME NEW free, free # {}
    PROVE  Handle(free) \in free
  BY DEF Handle

\* A started process satisfies the invariant.
LEMMA InitInv == Init => IInv
<1> SUFFICES ASSUME Init PROVE IInv
  OBVIOUS
<1> USE RuntimeAssumption, JobFields DEF Init, Turns!Init
<1>1. NoResult \in Results
  BY DEF NoResult, Results
<1>2. NoJob \in [candidate : Revisions \cup {NoRevision}, engine : Engines \cup {NoEngine},
                 previous : Engines \cup {NoEngine}]
  BY DEF NoJob, Job
<1>0. live \in Engines
  BY HandleIsFree
<1>3. TypeOK
  BY <1>0, <1>1, <1>2 DEF TypeOK
<1>4. HolderShape /\ HeldRevisionIsOwed
  BY DEF HolderShape, HeldRevisionIsOwed
<1>5. EngineShape
  BY <1>0 DEF EngineShape, EnginesAreAccountedFor, NoJob
<1> QED
  BY <1>3, <1>4, <1>5 DEF IInv

\* A result about a revision is well formed.
LEMMA ResultType ==
    ASSUME NEW c \in Revisions, NEW st \in {"pending", "applied", "rejected"}
    PROVE  Result(c, st) \in Results
  BY RuntimeAssumption DEF Result, Results, Revisions

\* So is what the holder keeps.
LEMMA JobType ==
    ASSUME NEW c \in Revisions \cup {NoRevision}, NEW e \in Engines \cup {NoEngine}
    PROVE  Job(c, e) \in [candidate : Revisions \cup {NoRevision}, engine : Engines \cup {NoEngine},
                          previous : Engines \cup {NoEngine}]
  BY DEF Job

\* Steps that leave the configuration, its holder, the engines and the turns
\* alone preserve everything but, possibly, the types of what they write.
LEMMA AsideInv ==
    ASSUME IInv, TypeOK',
           UNCHANGED <<settings, pending, pendingEngine, lock, pc, job, live, open, active, idlers>>,
           scoring' \in {NoEngine, live}
    PROVE  IInv'
  BY DEF IInv, HolderShape, EngineShape, EnginesAreAccountedFor, HeldRevisionIsOwed

\* Apply answering at once, the reader queueing an answer, wake inference and
\* damage to the disk preserve the invariant.
LEMMA QuietInv ==
    ASSUME IInv,
           \/ \E c \in Revisions : ApplyRejected(c) \/ ApplyAgain(c)
           \/ QueueResult \/ ScoreBegins \/ ScoreEnds \/ DiskFails
    PROVE  IInv'
<1> USE DEF IInv
<1>1. ASSUME NEW c \in Revisions, ApplyRejected(c) \/ ApplyAgain(c)
      PROVE  IInv'
  <2>1. reply' \in Results
    BY <1>1, ResultType DEF ApplyRejected, ApplyAgain, Answer
  <2>2. TypeOK'
    BY <1>1, <2>1 DEF TypeOK, ApplyRejected, ApplyAgain, Answer, config, wake, turns
  <2> QED
    BY <1>1, <2>2, AsideInv DEF ApplyRejected, ApplyAgain, config, wake, turns, EngineShape
<1>2. CASE QueueResult
  <2>1. NoResult \in Results
    BY RuntimeAssumption DEF NoResult, Results
  <2>2. TypeOK'
    BY <1>2, <2>1 DEF TypeOK, QueueResult, config, wake, turns
  <2> QED
    BY <1>2, <2>2, AsideInv DEF QueueResult, config, wake, turns, EngineShape
<1>3. CASE ScoreBegins \/ ScoreEnds
  <2>1. TypeOK'
    BY <1>3 DEF TypeOK, ScoreBegins, ScoreEnds, Others, config, results, turns
  <2> QED
    BY <1>3, <2>1, AsideInv DEF ScoreBegins, ScoreEnds, Others, config, results, turns
<1>4. CASE DiskFails
  <2>1. TypeOK'
    BY <1>4 DEF TypeOK, DiskFails, config, wake, results, turns
  <2> QED
    BY <1>4, <2>1, AsideInv DEF DiskFails, config, wake, results, turns, EngineShape
<1> QED
  BY <1>1, <1>2, <1>3, <1>4

\* A turn that begins, ends or loses its trigger preserves the invariant: what
\* is held stays owed because the end of a turn adds a caller.
LEMMA TurnInv ==
    ASSUME IInv, TurnBegins \/ TurnStops \/ TriggerDiscarded
    PROVE  IInv'
<1> USE DEF IInv, Others, config, results, TurnBegins, TurnStops, TriggerDiscarded,
            Turns!Begin, Turns!End, Turns!DiscardTrigger
<1>0. active' \in BOOLEAN /\ idlers' \in Nat
  <2>1. active' = TRUE \/ active' = FALSE
    BY Zenon
  <2>2. idlers' = idlers \/ idlers' = idlers + 1
    BY Zenon
  <2>3. idlers \in Nat
    BY DEF TypeOK
  <2>4. active' \in BOOLEAN
    BY <2>1, Zenon
  <2>5. idlers' \in Nat
    BY <2>2, <2>3
  <2> QED
    BY <2>4, <2>5
<1>1. TypeOK'
  BY <1>0 DEF TypeOK
<1>2. active' \/ idlers' > 0
  BY DEF TypeOK
<1>3. lock = "idle" => idlers' > 0
  BY DEF TypeOK, HolderShape
<1>4. HolderShape'
  BY <1>2, <1>3 DEF HolderShape
<1>5. EngineShape'
  BY DEF EngineShape, EnginesAreAccountedFor
<1> QED
  BY <1>1, <1>2, <1>4, <1>5 DEF HeldRevisionIsOwed

\* Apply taking the mutex with a newer revision preserves the invariant.
LEMMA ApplyPreparedInv ==
    ASSUME IInv, NEW c \in Revisions, ApplyPrepared(c)
    PROVE  IInv'
<1> USE DEF IInv
<1>1. PICK e \in Engines \ open :
        /\ open' = open \cup {e} /\ madeFor' = [madeFor EXCEPT ![e] = c]
        /\ job' = Job(c, e)
  BY HandleIsFree DEF ApplyPrepared
<1>2. job = NoJob /\ lock = "free" /\ pc = "none"
  BY DEF ApplyPrepared, Receives, HolderShape
<1>3. job'.candidate = c /\ job'.engine = e /\ job'.previous = NoEngine
  BY <1>1, JobFields
<1>4. e # live /\ e # pendingEngine /\ e # NoEngine
  BY <1>1, RuntimeAssumption DEF EngineShape, EnginesAreAccountedFor, TypeOK
<1>5. TypeOK'
  BY <1>1, JobType DEF ApplyPrepared, TypeOK, config, results, turns
<1>6. HolderShape'
  BY <1>3, <1>4, <1>5 DEF ApplyPrepared, HolderShape, config, turns, TypeOK
<1>7. open = {live, pendingEngine} \ {NoEngine}
  BY <1>2, JobFields DEF EngineShape, EnginesAreAccountedFor, NoJob
<1>8. EngineShape'
  BY <1>1, <1>2, <1>3, <1>4, <1>7 DEF ApplyPrepared, EngineShape, EnginesAreAccountedFor, config
<1> QED
  BY <1>5, <1>6, <1>8 DEF ApplyPrepared, HeldRevisionIsOwed, config, turns

\* Holding a revision preserves the invariant: the turn that was active when
\* Apply asked may have ended since, but then its idle caller is outstanding.
LEMMA ApplyHoldInv ==
    ASSUME IInv, ApplyHold
    PROVE  IInv'
<1> USE DEF IInv
<1>1. /\ pc = "hold" /\ lock = "apply" /\ (active \/ idlers > 0)
      /\ job.candidate \in Revisions /\ job.engine \in Engines
      /\ job.previous = NoEngine /\ job.engine # live /\ job.engine # pendingEngine
  BY DEF ApplyHold, HolderShape
<1>2. /\ lock' = "free" /\ pc' = "none" /\ job' = NoJob
      /\ pending' = job.candidate /\ pendingEngine' = job.engine
      /\ UNCHANGED <<live, scoring, active, idlers>>
  BY DEF ApplyHold, Release, turns
<1>3. TypeOK'
  BY <1>1, <1>2, JobType, ResultType DEF ApplyHold, Answer, TypeOK, NoJob, turns
<1>4. HolderShape'
  BY <1>2 DEF HolderShape
<1>5. pendingEngine # live
  BY <1>1 DEF EngineShape
<1>6. open' = {live, job.engine}
  BY <1>1, <1>5, RuntimeAssumption DEF ApplyHold, EngineShape, EnginesAreAccountedFor, TypeOK
<1>7. EngineShape'
  BY <1>1, <1>2, <1>6, JobFields, RuntimeAssumption
     DEF EngineShape, EnginesAreAccountedFor, NoJob, TypeOK
<1> QED
  BY <1>1, <1>2, <1>3, <1>4, <1>7 DEF HeldRevisionIsOwed

\* applyPending entering or returning preserves the invariant.
LEMMA IdleInv ==
    ASSUME IInv, Idle
    PROVE  IInv'
<1> USE DEF IInv
<1>1. CASE IdleReturns
  <2>1. idlers' \in Nat /\ active' = active /\ (pending = NoRevision \/ active)
    BY <1>1 DEF IdleReturns, Turns!OnIdle, TypeOK
  <2>2. lock = "free" /\ pc = "none"
    BY <1>1 DEF IdleReturns, HolderShape
  <2>3. TypeOK'
    BY <1>1, <2>1 DEF IdleReturns, TypeOK, config, wake, results
  <2> QED
    BY <1>1, <2>1, <2>2, <2>3 DEF IdleReturns, HolderShape, EngineShape, EnginesAreAccountedFor,
       HeldRevisionIsOwed, config, wake
<1>2. CASE IdleApplies
  <2>1. /\ lock = "free" /\ pc = "none" /\ job = NoJob
        /\ pending \in Revisions /\ pendingEngine \in Engines /\ idlers > 0
    BY <1>2 DEF IdleApplies, HolderShape, EngineShape, EnginesAreAccountedFor, TypeOK
  <2>2. job'.candidate = pending /\ job'.engine = pendingEngine /\ job'.previous = NoEngine
    BY <1>2, JobFields DEF IdleApplies
  <2>3. TypeOK'
    BY <1>2, <2>1, JobType DEF IdleApplies, TypeOK, config, wake, results, turns
  <2>4. pendingEngine # live
    BY <2>1 DEF EngineShape
  <2>5. HolderShape'
    BY <1>2, <2>1, <2>2, <2>4 DEF IdleApplies, HolderShape, config, wake, turns
  <2>6. EngineShape'
    BY <1>2, <2>1, <2>2, <2>4, JobFields, RuntimeAssumption
       DEF IdleApplies, EngineShape, EnginesAreAccountedFor, config, wake, NoJob
  <2> QED
    BY <1>2, <2>3, <2>5, <2>6 DEF IdleApplies, HeldRevisionIsOwed, config, turns
<1> QED
  BY <1>1, <1>2 DEF Idle

\* Save, whatever its outcome, preserves the invariant.
LEMMA SaveInv ==
    ASSUME IInv, SaveSucceeds \/ SaveFails
    PROVE  IInv'
<1> USE DEF IInv
<1>1. /\ pc = "save" /\ lock \in {"apply", "idle"}
      /\ job.candidate \in Revisions /\ job.engine \in Engines
      /\ job.previous = NoEngine /\ job.engine # live
  BY DEF SaveSucceeds, SaveFails, HolderShape, TypeOK
<1>2. CASE SaveSucceeds
  <2>1. TypeOK'
    BY <1>1, <1>2 DEF SaveSucceeds, TypeOK, config, wake, results, turns
  <2> QED
    BY <1>1, <1>2, <2>1 DEF SaveSucceeds, HolderShape, EngineShape, EnginesAreAccountedFor,
       HeldRevisionIsOwed, config, wake, turns
<1>3. CASE SaveFails
  <2>1. /\ lock' = "free" /\ pc' = "none" /\ job' = NoJob
        /\ open' = open \ {job.engine} /\ UNCHANGED <<live, scoring>>
    BY <1>3 DEF SaveFails, Release
  <2>2. \/ UNCHANGED <<pending, pendingEngine, active, idlers>> /\ lock = "apply"
        \/ /\ pending' = NoRevision /\ pendingEngine' = NoEngine /\ lock = "idle"
           /\ active' = active /\ idlers' \in Nat
    BY <1>1, <1>3 DEF SaveFails, Forget, Turns!OnIdle, turns, TypeOK
  <2>3. reply' \in Results /\ sent' \in Results
    BY <1>1, <1>3, ResultType DEF SaveFails, Answer, Report, TypeOK
  <2>4. TypeOK'
    BY <1>1, <1>3, <2>1, <2>2, <2>3, JobType DEF SaveFails, TypeOK, NoJob
  <2>5. HolderShape'
    BY <2>1 DEF HolderShape
  <2>6. pendingEngine # live
    BY <1>1 DEF EngineShape
  <2>7. open' = {live, pendingEngine'} \ {NoEngine}
    BY <1>1, <2>1, <2>2, <2>6, RuntimeAssumption
       DEF EngineShape, EnginesAreAccountedFor, HolderShape, TypeOK
  <2>8. EngineShape'
    BY <1>1, <2>1, <2>2, <2>6, <2>7, JobFields, RuntimeAssumption
       DEF EngineShape, EnginesAreAccountedFor, NoJob, TypeOK
  <2> QED
    BY <2>2, <2>4, <2>5, <2>8 DEF HeldRevisionIsOwed
<1> QED
  BY <1>2, <1>3

\* Swapping the wake engine preserves the invariant: with no Score call inside
\* the old engine, it passes from live to the holder's previous.
LEMMA SwapInv ==
    ASSUME IInv, Swap
    PROVE  IInv'
<1> USE DEF IInv
<1>1. /\ pc = "swap" /\ lock \in {"apply", "idle"} /\ scoring = NoEngine
      /\ job.candidate \in Revisions /\ job.engine \in Engines
      /\ job.previous = NoEngine /\ job.engine # live
  BY DEF Swap, HolderShape, TypeOK
<1>2. job'.candidate = job.candidate /\ job'.engine = job.engine /\ job'.previous = live
  BY DEF Swap, TypeOK
<1>3. TypeOK'
  BY <1>1 DEF Swap, TypeOK, config, results, turns
<1>4. pendingEngine # live
  BY <1>1 DEF EngineShape
<1>5. HolderShape'
  BY <1>1, <1>2, <1>3, <1>4 DEF Swap, HolderShape, config, turns, TypeOK
<1>6. EngineShape'
  BY <1>1, <1>2, <1>4, RuntimeAssumption
     DEF Swap, EngineShape, EnginesAreAccountedFor, HolderShape, config, TypeOK
<1> QED
  BY <1>3, <1>5, <1>6 DEF Swap, HeldRevisionIsOwed, config, turns

\* Publishing preserves the invariant: the closed engine is nobody's.
LEMMA PublishInv ==
    ASSUME IInv, Publish
    PROVE  IInv'
<1> USE DEF IInv
<1>1. /\ pc = "publish" /\ lock \in {"apply", "idle"}
      /\ job.candidate \in Revisions /\ job.engine = live
      /\ job.previous \in Engines \ {live, pendingEngine}
  BY DEF Publish, HolderShape, TypeOK
<1>2. /\ lock' = "free" /\ pc' = "none" /\ job' = NoJob
      /\ open' = open \ {job.previous} /\ UNCHANGED <<live, scoring>>
  BY DEF Publish, Release
<1>3. \/ UNCHANGED <<pending, pendingEngine, active, idlers>> /\ lock = "apply"
      \/ /\ pending' = NoRevision /\ pendingEngine' = NoEngine /\ lock = "idle"
         /\ active' = active /\ idlers' \in Nat
  BY <1>1 DEF Publish, Forget, Turns!OnIdle, turns, TypeOK
<1>4. reply' \in Results /\ sent' \in Results
  BY <1>1, ResultType DEF Publish, Answer, Report, TypeOK
<1>5. TypeOK'
  BY <1>1, <1>2, <1>3, <1>4, JobType DEF Publish, TypeOK, NoJob
<1>6. HolderShape'
  BY <1>2 DEF HolderShape
<1>7. open' = {live, pendingEngine'} \ {NoEngine}
  BY <1>1, <1>2, <1>3, RuntimeAssumption
     DEF EngineShape, EnginesAreAccountedFor, HolderShape, TypeOK
<1>8. pendingEngine' # live
  BY <1>1, <1>3, RuntimeAssumption DEF EngineShape, HolderShape, TypeOK
<1>9. EngineShape'
  BY <1>1, <1>2, <1>3, <1>7, <1>8, JobFields, RuntimeAssumption
     DEF EngineShape, EnginesAreAccountedFor, NoJob, TypeOK
<1> QED
  BY <1>3, <1>5, <1>6, <1>9 DEF HeldRevisionIsOwed

\* A restart re-establishes the invariant.
LEMMA RestartInv ==
    ASSUME IInv, Restart
    PROVE  IInv'
<1> DEFINE r == IF stored = NoRevision \/ disk # "good" THEN Bootstrap ELSE stored
<1>1. r \in Revisions \cup {Bootstrap}
  BY DEF IInv, TypeOK
<1>2. Fresh(r)
  BY DEF Restart
<1>3. PICK e \in Engines : live' = e /\ open' = {e} /\ madeFor' = [madeFor EXCEPT ![e] = r]
  BY <1>2, HandleIsFree, RuntimeAssumption DEF Fresh
<1>4. NoResult \in Results
  BY RuntimeAssumption DEF NoResult, Results
<1>5. TypeOK'
  <2>1. up' \in BOOLEAN /\ UNCHANGED <<stored, disk, unsynced>>
    BY DEF Restart
  <2>2. madeFor' \in [Engines -> Revisions \cup {Bootstrap}]
    BY <1>1, <1>3 DEF IInv, TypeOK
  <2> HIDE DEF r
  <2> QED
    BY <1>1, <1>2, <1>3, <1>4, <2>1, <2>2, JobType DEF Fresh, IInv, TypeOK, NoJob
<1>6. /\ lock' = "free" /\ pc' = "none" /\ job' = NoJob /\ scoring' = NoEngine
      /\ pending' = NoRevision /\ pendingEngine' = NoEngine
  BY <1>2 DEF Fresh
<1>7. HolderShape' /\ HeldRevisionIsOwed'
  BY <1>6 DEF HolderShape, HeldRevisionIsOwed
<1>8. EngineShape'
  BY <1>3, <1>6, JobFields, RuntimeAssumption DEF EngineShape, EnginesAreAccountedFor, NoJob
<1> QED
  BY <1>5, <1>7, <1>8 DEF IInv

\* Every step preserves the invariant.
LEMMA NextInv == IInv /\ [Next]_vars => IInv'
<1> SUFFICES ASSUME IInv, [Next]_vars PROVE IInv'
  OBVIOUS
<1>1. CASE UNCHANGED vars
  BY <1>1 DEF vars, config, wake, turns, results, IInv, TypeOK, HolderShape, EngineShape,
     EnginesAreAccountedFor, HeldRevisionIsOwed
<1>2. CASE Next
  BY <1>2, QuietInv, TurnInv, ApplyPreparedInv, ApplyHoldInv, IdleInv, SaveInv, SwapInv, PublishInv,
     RestartInv DEF Next, ApplyLocked
<1> QED
  BY <1>1, <1>2

\* The invariant holds throughout.
LEMMA Invariance == Spec => []IInv
  BY InitInv, NextInv, PTL DEF Spec

\* Every reachable state is well typed: in particular no nil revision is ever
\* saved, staged or published.
THEOREM TypeCorrect == Spec => []TypeOK
<1>1. IInv => TypeOK
  BY DEF IInv
<1> QED
  BY <1>1, Invariance, PTL

\* A revision held for the idle boundary always has an active turn or an
\* outstanding onIdle call to apply it, whichever way Apply, applyPending and
\* the turns interleave.
THEOREM NeverStranded == Spec => []HeldRevisionIsOwed
<1>1. IInv => HeldRevisionIsOwed
  BY DEF IInv
<1> QED
  BY <1>1, Invariance, PTL

\* No prepared engine is leaked or shared, and none is scored once closed.
THEOREM EnginesSafe == Spec => [](EnginesAreAccountedFor /\ ScoresOpenEngine)
<1>1. IInv => EnginesAreAccountedFor /\ ScoresOpenEngine
  <2> SUFFICES ASSUME IInv PROVE ScoresOpenEngine
    BY DEF IInv, EngineShape
  <2>1. live \in open
    BY RuntimeAssumption DEF IInv, TypeOK, EngineShape, EnginesAreAccountedFor
  <2> QED
    BY <2>1 DEF IInv, EngineShape, ScoresOpenEngine
<1> QED
  BY <1>1, Invariance, PTL

\* Together they are what the run checks of every state.
THEOREM RuntimeSafe == Spec => []RuntimeInvariant
<1>1. TypeOK /\ HeldRevisionIsOwed /\ EnginesAreAccountedFor /\ ScoresOpenEngine => RuntimeInvariant
  BY DEF RuntimeInvariant
<1> QED
  BY <1>1, TypeCorrect, NeverStranded, EnginesSafe, PTL
-----------------------------------------------------------------------------
(* What runs is one revision.                                              *)

\* What the state file says is to run.
Saved == IF stored = NoRevision THEN Bootstrap ELSE stored

\* Engines belong to the revision they go with, a revision on its way to being
\* held is newer than the one it will replace, and how far applyLocked has got
\* says which of the four copies of the revision are the new one.
CoherentShape ==
    /\ pc # "none" => madeFor[job.engine] = job.candidate
    /\ pending # NoRevision => madeFor[pendingEngine] = pending
    /\ pc = "hold" /\ pending # NoRevision => job.candidate.version > pending.version
    /\ pc \in {"none", "hold", "save"} =>
         /\ madeFor[live] = settings /\ endpoint = settings
         /\ disk = "good" /\ ~unsynced => settings = Saved
    /\ pc \in {"swap", "publish"} => endpoint = job.candidate /\ stored = job.candidate

\* A started process runs the bootstrap revision.
LEMMA InitCoherent == Init => CoherentShape
  BY HandleIsFree, RuntimeAssumption DEF Init, CoherentShape, Saved

\* Steps that touch neither revisions nor engines preserve the shape.
LEMMA AsideCoherent ==
    ASSUME CoherentShape, UNCHANGED <<settings, pending, pendingEngine, pc, job, endpoint, live,
                                      madeFor, stored, unsynced>>,
           disk' = disk \/ disk' # "good"
    PROVE  CoherentShape'
  BY DEF CoherentShape, Saved

\* A newly prepared engine disturbs neither the live nor the held one.
LEMMA ApplyPreparedCoherent ==
    ASSUME IInv, CoherentShape, NEW c \in Revisions, ApplyPrepared(c)
    PROVE  CoherentShape'
<1>1. PICK e \in Engines \ open :
        /\ madeFor' = [madeFor EXCEPT ![e] = c] /\ job' = Job(c, e)
  BY HandleIsFree DEF ApplyPrepared
<1>2. job'.candidate = c /\ job'.engine = e
  BY <1>1, JobFields
<1>3. e # live /\ e # pendingEngine
  BY <1>1, RuntimeAssumption DEF IInv, EngineShape, EnginesAreAccountedFor, TypeOK
<1>4. /\ madeFor'[e] = c /\ madeFor'[live] = madeFor[live]
      /\ pending # NoRevision => madeFor'[pendingEngine] = madeFor[pendingEngine]
  BY <1>1, <1>3 DEF IInv, TypeOK, EngineShape, EnginesAreAccountedFor
<1>5. pc = "none" /\ pc' \in {"hold", "save"}
  BY DEF ApplyPrepared, Receives, IInv, HolderShape
<1>6. pending # NoRevision => c.version > pending.version
  BY DEF ApplyPrepared, Newer, current
<1> QED
  BY <1>2, <1>4, <1>5, <1>6 DEF ApplyPrepared, CoherentShape, Saved, config

\* Holding a revision passes its engine on with it.
LEMMA ApplyHoldCoherent ==
    ASSUME IInv, CoherentShape, ApplyHold
    PROVE  CoherentShape'
  BY DEF IInv, HolderShape, ApplyHold, Release, CoherentShape, Saved

\* applyPending takes over the held revision and its engine.
LEMMA IdleCoherent ==
    ASSUME IInv, CoherentShape, Idle
    PROVE  CoherentShape'
<1>1. CASE IdleReturns
  BY <1>1, AsideCoherent DEF IdleReturns, config, wake
<1>2. CASE IdleApplies
  <2>1. job'.candidate = pending /\ job'.engine = pendingEngine /\ pc = "none"
    BY <1>2, JobFields DEF IdleApplies, IInv, HolderShape
  <2> QED
    BY <1>2, <2>1 DEF IdleApplies, CoherentShape, Saved, config, wake
<1> QED
  BY <1>1, <1>2 DEF Idle

\* The steps of applyLocked: the file and the controller come first, then the
\* engine, then the settings; a failed Save has changed none that runs.
LEMMA LockedCoherent ==
    ASSUME IInv, CoherentShape, ApplyLocked
    PROVE  CoherentShape'
<1>1. CASE SaveSucceeds
  BY <1>1 DEF SaveSucceeds, CoherentShape, Saved, config, wake
<1>2. CASE SaveFails
  <2>1. /\ pc = "save" /\ pc' = "none"
        /\ UNCHANGED <<settings, endpoint, live, madeFor>>
        /\ disk' = "good" /\ ~unsynced' => disk = "good" /\ ~unsynced /\ stored' = stored
    BY <1>2 DEF SaveFails, Release
  <2>2. UNCHANGED <<pending, pendingEngine>> \/ pending' = NoRevision
    BY <1>2 DEF SaveFails, Forget
  <2> QED
    BY <2>1, <2>2 DEF CoherentShape, Saved
<1>3. CASE Swap
  <2>1. job'.candidate = job.candidate /\ job'.engine = job.engine
    BY <1>3 DEF Swap, IInv, TypeOK
  <2> QED
    BY <1>3, <2>1 DEF Swap, CoherentShape, Saved, config
<1>4. CASE Publish
  <2>1. /\ pc = "publish" /\ job.candidate \in Revisions /\ job.engine = live
    BY <1>4 DEF Publish, IInv, HolderShape
  <2>2. UNCHANGED <<pending, pendingEngine>> \/ pending' = NoRevision
    BY <1>4 DEF Publish, Forget
  <2>3. settings' = job.candidate /\ stored = job.candidate /\ stored # NoRevision
    BY <1>4, <2>1, RuntimeAssumption DEF Publish, CoherentShape
  <2> QED
    BY <1>4, <2>1, <2>2, <2>3 DEF Publish, Release, CoherentShape, Saved
<1> QED
  BY <1>1, <1>2, <1>3, <1>4 DEF ApplyLocked

\* A restart runs what the file holds, if it is sound.
LEMMA RestartCoherent ==
    ASSUME IInv, Restart
    PROVE  CoherentShape'
<1> DEFINE r == IF stored = NoRevision \/ disk # "good" THEN Bootstrap ELSE stored
<1>1. Fresh(r) /\ UNCHANGED <<stored, disk, unsynced>>
  BY DEF Restart
<1>2. PICK e \in Engines : live' = e /\ madeFor' = [madeFor EXCEPT ![e] = r]
  BY <1>1, HandleIsFree, RuntimeAssumption DEF Fresh
<1>3. madeFor'[live'] = r
  BY <1>2 DEF IInv, TypeOK
<1> QED
  BY <1>1, <1>3 DEF Fresh, CoherentShape, Saved

\* Every step preserves the shape.
LEMMA NextCoherent == IInv /\ CoherentShape /\ [Next]_vars => CoherentShape'
<1> SUFFICES ASSUME IInv, CoherentShape, [Next]_vars PROVE CoherentShape'
  OBVIOUS
<1>1. CASE \/ UNCHANGED vars
           \/ \E c \in Revisions : ApplyRejected(c) \/ ApplyAgain(c)
           \/ QueueResult \/ ScoreBegins \/ ScoreEnds
           \/ TurnBegins \/ TurnStops \/ TriggerDiscarded \/ DiskFails
  <2>1. /\ UNCHANGED <<settings, pending, pendingEngine, pc, job, endpoint, live, madeFor, stored,
                       unsynced>>
        /\ disk' = disk \/ disk' # "good"
    BY <1>1 DEF vars, ApplyRejected, ApplyAgain, QueueResult, ScoreBegins, ScoreEnds, TurnBegins,
       TurnStops, TriggerDiscarded, DiskFails, Others, config, wake
  <2> QED
    BY <2>1, AsideCoherent
<1>2. CASE \/ \E c \in Revisions : ApplyPrepared(c)
           \/ ApplyHold \/ Idle \/ ApplyLocked \/ Restart
  BY <1>2, ApplyPreparedCoherent, ApplyHoldCoherent, IdleCoherent, LockedCoherent, RestartCoherent
<1> QED
  BY <1>1, <1>2 DEF Next

\* Both shapes hold throughout.
LEMMA Coherence == Spec => [](IInv /\ CoherentShape)
<1>1. Init => CoherentShape
  BY InitCoherent
<1>2. IInv /\ IInv' /\ CoherentShape /\ [Next]_vars => CoherentShape'
  BY NextCoherent
<1> QED
  BY <1>1, <1>2, Invariance, PTL DEF Spec

\* Whenever the mutex is free, settings, the wake engine, the endpoint
\* configuration and the sound state file are one revision, whatever failed,
\* crashed or was held on the way.
THEOREM OneRevisionRuns == Spec => []RuntimeIsCoherent
<1>1. IInv /\ CoherentShape => RuntimeIsCoherent
  BY DEF IInv, HolderShape, CoherentShape, Saved, RuntimeIsCoherent
<1> QED
  BY <1>1, Coherence, PTL

\* A held revision is only ever replaced by a newer one, although Apply
\* compares when it takes the mutex and replaces at its end.
THEOREM HeldAdvances == Spec => HeldRevisionOnlyAdvances
<1> DEFINE Advances == NoRevision \notin {pending, pending'} /\ pending' # pending
                         => pending'.version > pending.version
<1>1. IInv /\ CoherentShape /\ [Next]_vars => [Advances]_vars
  <2> SUFFICES ASSUME IInv, CoherentShape, Next PROVE Advances
    OBVIOUS
  <2>1. CASE ApplyHold
    BY <2>1 DEF ApplyHold, CoherentShape
  <2>2. CASE ~ApplyHold
    <3>1. pending' \in {pending, NoRevision}
      BY <2>2 DEF Next, ApplyRejected, ApplyAgain, ApplyPrepared, QueueResult, Idle, IdleReturns,
         IdleApplies, ApplyLocked, SaveSucceeds, SaveFails, Swap, Publish, Forget, ScoreBegins,
         ScoreEnds, TurnBegins, TurnStops, TriggerDiscarded, DiskFails, Restart, Fresh, Others,
         config
    <3> QED
      BY <3>1
  <2> QED
    BY <2>1, <2>2
<1> QED
  BY <1>1, Coherence, PTL DEF Spec, HeldRevisionOnlyAdvances
=============================================================================
