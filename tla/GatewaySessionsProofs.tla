------------------------ MODULE GatewaySessionsProofs ------------------------
(***************************************************************************)
(* The registry is live, a reload is delivered, versions never regress and *)
(* the files of every turn are whole: for any number of devices,           *)
(* connections, profile versions and turns, with every interleaving of the *)
(* handlers, the reload loop and those that close a session.               *)
(***************************************************************************)
EXTENDS GatewaySessions, TLAPS

-----------------------------------------------------------------------------
(* Connections.                                                            *)

\* The handlers that have not registered their session yet.
Early == {"none", "hello", "welcome", "register"}

\* Those whom the registry, a successor or the loop may know.
Known(h) ==
    \/ h \in targets \/ h \in owed \/ victim = h
    \/ \E n \in Conns : old[n] = h

ConnShape ==
    \A h \in Conns :
        /\ handler[h] \in Early => ~Known(h) /\ once[h] = "open"
        /\ once[h] # "open" => ~conn[h]
        /\ frame[h] # "none" => handler[h] = "reading"

\* Every session that serves, or will, is registered or somebody is there who
\* closes it.
RegistryShape ==
    /\ \A d \in Devices : sessions[d] # NoConn =>
           device[sessions[d]] = d /\ handler[sessions[d]] \in {"replacing", "reading", "leaving"}
    /\ \A h \in Conns : handler[h] \in {"replacing", "reading"} /\ once[h] = "open" =>
           \/ sessions[device[h]] = h
           \/ \E n \in Conns : handler[n] = "replacing" /\ old[n] = h

\* Nobody is ahead of the store, and who has not been welcomed has nothing.
VersionShape ==
    \A h \in Conns :
        /\ got[h] <= store /\ config[h] <= store
        /\ handler[h] \in {"none", "hello", "welcome"} => got[h] = 0

\* What the loop still owes those who were registered when it began.
Served(h) == got[h] = store \/ ~conn[h]
LoopShape ==
    /\ loop \in {"listed", "loaded"} => \A h \in owed : device[h] \in listed
    /\ loop = "pushing" =>
           \A h \in owed : h \in Registered /\ once[h] = "open" =>
               Served(h) \/ h \in targets \/ victim = h
    /\ ReloadIsDelivered

-----------------------------------------------------------------------------
(* Turns.                                                                  *)

\* The receiver of a turn and the turn's files, at any time ...
Sound(a, f) ==
    /\ a.file => a.stage /\ a.open /\ Directory /\ f.data = a.bytes /\ ~f.final
    /\ a.open /\ a.stage => a.file
    /\ f.staged => a.stage
    /\ f.final => ~a.open /\ f.header = a.bytes /\ f.data = a.bytes

\* ... and while its session may handle another frame.
Serving(a, f) ==
    /\ Sound(a, f) /\ ~f.final
    /\ a.stage => a.open
    /\ IF a.open THEN a.file = Directory ELSE f.data = a.bytes

\* Who has which turn.
OwnerShape ==
    /\ \A h \in Conns : active[h] # NoTurn =>
           /\ active[h] <= begun /\ active[h] \notin completed
           /\ handler[h] \in {"reading", "leaving", "ended", "gone"}
    /\ \A h, g \in Conns : active[h] = active[g] /\ active[h] # NoTurn => h = g
    /\ \A t \in completed : t <= begun
    /\ \A t \in Turns : t > begun => receiver[t] = Begin /\ files[t] = Nothing
    /\ \A h \in Conns : once[h] = "closed" /\ active[h] # NoTurn => frame[h] = "none"

\* The state of the turns themselves.
TurnShape ==
    /\ \A t \in Turns : Sound(receiver[t], files[t])
    /\ \A h \in Conns : active[h] # NoTurn /\ handler[h] = "reading" =>
           Serving(receiver[active[h]], files[active[h]])
    /\ \A t \in Turns : receiver[t].stage => \E h \in Conns : active[h] = t /\ once[h] # "closed"
    /\ \A t \in completed : files[t].final = Directory /\ ~files[t].staged

\* The inductive invariant.
IInv ==
    /\ TypeOK
    /\ ConnShape /\ RegistryShape /\ VersionShape /\ LoopShape
    /\ OwnerShape /\ TurnShape

-----------------------------------------------------------------------------
(* The receiver's methods.                                                 *)

\* Abort leaves nothing staged and takes nothing back that is published.
LEMMA AbortOutcome ==
    ASSUME NEW a \in Receivers, NEW f \in Files, Sound(a, f)
    PROVE  /\ Abort(a, f).active \in Receivers /\ Abort(a, f).files \in Files
           /\ Sound(Abort(a, f).active, Abort(a, f).files)
           /\ ~Abort(a, f).active.stage /\ ~Abort(a, f).files.staged
  BY DEF Sound, Abort, Unstage, Nothing, Receivers, Files

\* StartAudio that succeeds leaves a window that records if it is to, one that
\* fails nothing that is staged.
LEMMA StartAudioOutcome ==
    ASSUME NEW a \in Receivers, NEW f \in Files, Serving(a, f), NEW o \in StartAudio(a, f)
    PROVE  /\ o.active \in Receivers /\ o.files \in Files /\ o.ok \in BOOLEAN
           /\ Sound(o.active, o.files)
           /\ o.ok => Serving(o.active, o.files)
<1> DEFINE opened == [a EXCEPT !.open = TRUE]
           staged == [opened EXCEPT !.file = TRUE, !.stage = TRUE]
           named == [f EXCEPT !.staged = TRUE]
<1>1. /\ opened \in Receivers /\ opened.open /\ opened.file = a.file
      /\ opened.stage = a.stage /\ opened.bytes = a.bytes
  BY DEF Receivers
<1>2. /\ staged \in Receivers /\ staged.open /\ staged.file /\ staged.stage
      /\ staged.bytes = a.bytes
  BY DEF Receivers
<1>3. /\ named \in Files /\ named.staged /\ named.final = f.final
      /\ named.data = f.data /\ named.header = f.header
  BY DEF Files
<1> HIDE DEF opened, staged, named
<1>4. CASE o = Refused(a, f)
  <2>1. o.active = a /\ o.files = f /\ ~o.ok /\ o.ok \in BOOLEAN
    BY <1>4 DEF Outcome, Refused
  <2> QED
    BY <1>4, <2>1 DEF Serving
<1>5. CASE ~a.open /\ Directory /\ o = Refused(opened, f)
  <2>1. o.active = opened /\ o.files = f /\ ~o.ok /\ o.ok \in BOOLEAN
    BY <1>5 DEF Outcome, Refused
  <2> QED
    BY <1>1, <1>5, <2>1 DEF Serving, Sound
<1>6. CASE ~a.open /\ Directory /\ o = Outcome(staged, named, TRUE)
  <2>1. o.active = staged /\ o.files = named /\ o.ok /\ o.ok \in BOOLEAN
    BY <1>6 DEF Outcome
  <2> QED
    BY <1>2, <1>3, <1>6, <2>1 DEF Serving, Sound
<1>7. CASE ~a.open /\ ~Directory /\ o = Outcome(opened, f, TRUE)
  <2>1. o.active = opened /\ o.files = f /\ o.ok /\ o.ok \in BOOLEAN
    BY <1>7 DEF Outcome
  <2>2. opened.file = FALSE /\ Directory = FALSE
    BY <1>1, <1>7, DirectoryAssumption DEF Serving, Sound, Receivers
  <2> QED
    BY <1>1, <1>7, <2>1, <2>2 DEF Serving, Sound
<1> QED
  BY <1>4, <1>5, <1>6, <1>7 DEF StartAudio, opened, staged, named

\* Write counts the same frame in the receiver and, if there is one, in the file.
LEMMA WriteOutcome ==
    ASSUME NEW a \in Receivers, NEW f \in Files, Serving(a, f), a.open, NEW o \in Write(a, f)
    PROVE  /\ o.active \in Receivers /\ o.files \in Files /\ o.ok \in BOOLEAN
           /\ Serving(o.active, o.files)
<1> DEFINE longer == [a EXCEPT !.bytes = @ + 1]
           more == [f EXCEPT !.data = @ + 1]
<1>0. a.bytes \in Nat
  BY DEF Receivers
<1>1. longer \in Receivers /\ longer.bytes = a.bytes + 1
  BY <1>0 DEF Receivers
<1>6. longer.open = a.open /\ longer.file = a.file /\ longer.stage = a.stage
  BY DEF Receivers
<1>2. /\ more \in Files /\ more.data = f.data + 1 /\ more.header = f.header
      /\ more.staged = f.staged /\ more.final = f.final
  BY DEF Files
<1> HIDE DEF longer, more
<1>3. CASE o = Refused(a, f)
  <2>1. o.active = a /\ o.files = f /\ ~o.ok /\ o.ok \in BOOLEAN
    BY <1>3 DEF Outcome, Refused
  <2> QED
    BY <1>3, <2>1
<1>4. CASE a.file /\ o = Outcome(longer, more, TRUE)
  <2>1. o.active = longer /\ o.files = more /\ o.ok /\ o.ok \in BOOLEAN
    BY <1>4 DEF Outcome
  <2> QED
    BY <1>1, <1>2, <1>4, <1>6, <2>1 DEF Serving, Sound
<1>5. CASE ~a.file /\ o = Outcome(longer, f, TRUE)
  <2>1. o.active = longer /\ o.files = f /\ o.ok /\ o.ok \in BOOLEAN
    BY <1>5 DEF Outcome
  <2> QED
    BY <1>1, <1>5, <1>6, <2>1 DEF Serving, Sound
<1> QED
  BY <1>3, <1>4, <1>5 DEF Write, longer, more

\* Stop publishes the whole window or fails, and when it fails what is staged
\* is still known to the receiver.
LEMMA StopOutcome ==
    ASSUME NEW a \in Receivers, NEW f \in Files, Serving(a, f), NEW o \in Stop(a, f)
    PROVE  /\ o.active \in Receivers /\ o.files \in Files /\ o.ok \in BOOLEAN
           /\ Sound(o.active, o.files)
           /\ o.ok => ~o.active.stage /\ o.files.final = Directory /\ ~o.files.staged
<1> DEFINE closed == [a EXCEPT !.open = FALSE]
           aborted == Abort(closed, f)
           finalized == [f EXCEPT !.header = a.bytes]
           linked == [finalized EXCEPT !.final = TRUE]
           handed == [closed EXCEPT !.file = FALSE]
           released == [handed EXCEPT !.stage = FALSE]
<1>1. /\ closed \in Receivers /\ ~closed.open /\ closed.file = a.file
      /\ closed.stage = a.stage /\ closed.bytes = a.bytes
  BY DEF Receivers
<1>2. /\ handed \in Receivers /\ ~handed.open /\ ~handed.file
      /\ handed.stage = a.stage /\ handed.bytes = a.bytes
  BY DEF Receivers
<1>3. released \in Receivers /\ ~released.file /\ ~released.stage
      /\ ~released.open /\ released.bytes = a.bytes
  BY DEF Receivers
<1>4. /\ finalized \in Files /\ finalized.header = a.bytes /\ finalized.data = f.data
      /\ finalized.final = f.final /\ finalized.staged = f.staged
  BY DEF Receivers, Files
<1>5. /\ linked \in Files /\ linked.header = a.bytes /\ linked.data = f.data
      /\ linked.final /\ linked.staged = f.staged
  BY DEF Receivers, Files
<1>6. /\ Unstage(linked) \in Files /\ Unstage(linked).header = a.bytes
      /\ Unstage(linked).data = f.data /\ Unstage(linked).final /\ ~Unstage(linked).staged
  BY <1>5 DEF Unstage, Files
<1>7. ~f.final => Unstage(finalized) = Nothing
  BY <1>4 DEF Unstage
<1>8. Nothing \in Files /\ ~Nothing.staged /\ ~Nothing.final
  BY DEF Nothing, Files
<1>9. a.open => Abort(closed, f).active = released /\ Abort(closed, f).files = IF a.stage THEN Unstage(f) ELSE f
  BY DEF Abort, Receivers
<1>10. ~f.final => Unstage(f) = Nothing
  BY DEF Unstage
<1> HIDE DEF closed, aborted, finalized, linked, handed, released
<1>11. CASE o = Refused(a, f)
  <2>1. o.active = a /\ o.files = f /\ ~o.ok /\ o.ok \in BOOLEAN
    BY <1>11 DEF Outcome, Refused
  <2> QED
    BY <1>11, <2>1 DEF Serving
<1>12. CASE a.open /\ ~a.file /\ o = Outcome(closed, f, TRUE)
  <2>1. o.active = closed /\ o.files = f /\ o.ok /\ o.ok \in BOOLEAN
    BY <1>12 DEF Outcome
  <2> QED
    BY <1>1, <1>12, <2>1, DirectoryAssumption DEF Serving, Sound, Files
<1>13. CASE a.open /\ a.file /\ o = Refused(aborted.active, aborted.files)
  <2>1. aborted.active = released /\ aborted.files = Nothing
    BY <1>9, <1>10, <1>13 DEF Serving, Sound, aborted
  <2>2. o.active = aborted.active /\ o.files = aborted.files /\ ~o.ok /\ o.ok \in BOOLEAN
    BY <1>13 DEF Outcome, Refused
  <2> QED
    BY <1>3, <1>8, <2>1, <2>2 DEF Sound
<1>14. CASE a.open /\ a.file /\ o = Refused(handed, Unstage(finalized))
  <2>1. o.active = handed /\ o.files = Unstage(finalized) /\ ~o.ok /\ o.ok \in BOOLEAN
    BY <1>14 DEF Outcome, Refused
  <2> QED
    BY <1>2, <1>7, <1>8, <1>14, <2>1 DEF Serving, Sound
<1>15. CASE a.open /\ a.file /\ o = Refused(handed, linked)
  <2>1. o.active = handed /\ o.files = linked /\ ~o.ok /\ o.ok \in BOOLEAN
    BY <1>15 DEF Outcome, Refused
  <2> QED
    BY <1>2, <1>5, <1>15, <2>1 DEF Serving, Sound
<1>16. CASE a.open /\ a.file /\ o = Refused(handed, Unstage(linked))
  <2>1. o.active = handed /\ o.files = Unstage(linked) /\ ~o.ok /\ o.ok \in BOOLEAN
    BY <1>16 DEF Outcome, Refused
  <2> QED
    BY <1>2, <1>6, <1>16, <2>1 DEF Serving, Sound
<1>17. CASE a.open /\ a.file /\ o = Outcome(released, Unstage(linked), TRUE)
  <2>1. o.active = released /\ o.files = Unstage(linked) /\ o.ok /\ o.ok \in BOOLEAN
    BY <1>17 DEF Outcome
  <2> QED
    BY <1>3, <1>6, <1>17, <2>1, DirectoryAssumption DEF Serving, Sound, Files
<1> QED
  BY <1>11, <1>12, <1>13, <1>14, <1>15, <1>16, <1>17
  DEF Stop, closed, aborted, finalized, linked, handed, released

-----------------------------------------------------------------------------
(* What a frame or a close does to the active turn of a session.           *)

Keeps(h, a, f) ==
    /\ UNCHANGED <<active, completed>>
    /\ handler'[h] = "reading" => Serving(a, f)
    /\ once[h] # "closed"
Aborts(h, a, f) ==
    /\ active' = [active EXCEPT ![h] = NoTurn] /\ completed' = completed
    /\ ~a.stage
Completes(h, a, f) ==
    /\ active' = [active EXCEPT ![h] = NoTurn] /\ completed' = completed \cup {active[h]}
    /\ ~a.stage /\ f.final = Directory /\ ~f.staged
TurnStep(h) ==
    /\ active[h] # NoTurn
    /\ \E a \in Receivers, f \in Files :
        /\ Sound(a, f)
        /\ receiver' = [receiver EXCEPT ![active[h]] = a]
        /\ files' = [files EXCEPT ![active[h]] = f]
        /\ Keeps(h, a, f) \/ Aborts(h, a, f) \/ Completes(h, a, f)
NoTurnStep == UNCHANGED <<active, receiver, files, completed>>

\* The handler goes on reading or is on its way out.
GoesOn(h) ==
    \/ UNCHANGED <<handler, conn>>
    \/ handler' = [handler EXCEPT ![h] = "leaving"] /\ conn' = [conn EXCEPT ![h] = FALSE]

\* The frames of an active turn, whether they are taken or refused.
LEMMA FrameStep ==
    ASSUME IInv, NEW h \in Conns,
           Binary(h) \/ AudioStart(h) \/ AudioStop(h) \/ OtherFrame(h)
    PROVE  /\ handler[h] = "reading" /\ frame[h] # "none"
           /\ frame' = [frame EXCEPT ![h] = "none"]
           /\ UNCHANGED <<registry, once, reload, got, begun>>
           /\ GoesOn(h)
           /\ TurnStep(h) \/ NoTurnStep
<1> USE DEF IInv
<1> DEFINE t == active[h]
<1>1. /\ frame[h] \in FrameKinds /\ frame' = [frame EXCEPT ![h] = "none"]
      /\ UNCHANGED <<registry, once, reload, got>>
  BY DEF Binary, AudioStart, AudioStop, OtherFrame, Handles, FrameKinds
<1>2. handler[h] = "reading" /\ frame[h] # "none"
  BY <1>1 DEF ConnShape, FrameKinds
<1>3. t # NoTurn => /\ t \in Turns /\ Serving(receiver[t], files[t]) /\ once[h] # "closed"
                    /\ receiver[t] \in Receivers /\ files[t] \in Files
  BY <1>2 DEF TypeOK, TurnShape, OwnerShape
<1>4. ASSUME Rejects(h)
      PROVE  GoesOn(h) /\ handler'[h] # "reading"
  BY <1>2, <1>4 DEF Rejects, Goes, GoesOn, TypeOK
<1>5. Continues => GoesOn(h)
  BY DEF Continues, GoesOn
<1>6. CASE Binary(h)
  <2>1. CASE t = NoTurn \/ ~receiver[t].open
    BY <1>1, <1>2, <1>5, <1>6, <2>1 DEF Binary, NoTurnChanges, NoTurnStep
  <2>2. CASE t # NoTurn /\ receiver[t].open
    <3>1. PICK o \in Write(receiver[t], files[t]) :
              IF o.ok THEN SetTurn(t, o) /\ active' = active /\ Continues
                      ELSE /\ SetTurn(t, Abort(o.active, o.files))
                           /\ active' = [active EXCEPT ![h] = NoTurn] /\ Rejects(h)
      BY <1>6, <2>2 DEF Binary
    <3>2. completed' = completed /\ begun' = begun
      BY <1>6 DEF Binary
    <3>3. o.active \in Receivers /\ o.files \in Files /\ Serving(o.active, o.files)
      BY <1>3, <2>2, WriteOutcome
    <3>4. Sound(o.active, o.files)
      BY <3>3 DEF Serving
    <3>5. CASE o.ok
      <4>1. Keeps(h, o.active, o.files)
        BY <1>3, <2>2, <3>1, <3>2, <3>3, <3>5 DEF Keeps
      <4>2. TurnStep(h)
        BY <2>2, <3>1, <3>3, <3>4, <3>5, <4>1 DEF TurnStep, SetTurn
      <4> QED
        BY <1>1, <1>2, <1>5, <3>1, <3>2, <3>5, <4>2
    <3>6. CASE ~o.ok
      <4> DEFINE p == Abort(o.active, o.files)
      <4>1. p.active \in Receivers /\ p.files \in Files /\ Sound(p.active, p.files) /\ ~p.active.stage
        BY <3>3, <3>4, AbortOutcome
      <4>2. SetTurn(t, p) /\ active' = [active EXCEPT ![h] = NoTurn] /\ Rejects(h)
        BY <3>1, <3>6
      <4> HIDE DEF p
      <4>3. Aborts(h, p.active, p.files)
        BY <3>2, <4>1, <4>2 DEF Aborts
      <4>4. TurnStep(h)
        BY <2>2, <4>1, <4>2, <4>3 DEF TurnStep, SetTurn
      <4> QED
        BY <1>1, <1>2, <1>4, <3>2, <4>2, <4>4
    <3> QED
      BY <3>5, <3>6
  <2> QED
    BY <2>1, <2>2
<1>7. CASE AudioStart(h)
  <2>1. CASE t = NoTurn
    BY <1>1, <1>2, <1>4, <1>7, <2>1 DEF AudioStart, NoTurnChanges, NoTurnStep
  <2>2. CASE t # NoTurn
    <3>1. PICK o \in StartAudio(receiver[t], files[t]) :
              SetTurn(t, o) /\ IF o.ok THEN Continues ELSE Rejects(h)
      BY <1>7, <2>2 DEF AudioStart
    <3>2. active' = active /\ completed' = completed /\ begun' = begun
      BY <1>7 DEF AudioStart
    <3>3. /\ o.active \in Receivers /\ o.files \in Files /\ Sound(o.active, o.files)
          /\ o.ok => Serving(o.active, o.files)
      BY <1>3, <2>2, StartAudioOutcome
    <3>4. GoesOn(h) /\ (handler'[h] = "reading" => o.ok)
      BY <1>4, <1>5, <3>1
    <3>5. Keeps(h, o.active, o.files)
      BY <1>3, <2>2, <3>2, <3>3, <3>4 DEF Keeps
    <3>6. TurnStep(h)
      BY <2>2, <3>1, <3>3, <3>5 DEF TurnStep, SetTurn
    <3> QED
      BY <1>1, <1>2, <3>2, <3>4, <3>6
  <2> QED
    BY <2>1, <2>2
<1>8. CASE AudioStop(h)
  <2>1. CASE t = NoTurn
    BY <1>1, <1>2, <1>4, <1>8, <2>1 DEF AudioStop, NoTurnChanges, NoTurnStep
  <2>2. CASE t # NoTurn
    <3>1. PICK o \in Stop(receiver[t], files[t]) :
              /\ SetTurn(t, o)
              /\ IF o.ok THEN /\ active' = [active EXCEPT ![h] = NoTurn]
                              /\ completed' = completed \cup {t} /\ Continues
                         ELSE Rejects(h) /\ UNCHANGED <<active, completed>>
      BY <1>8, <2>2 DEF AudioStop
    <3>2. begun' = begun
      BY <1>8 DEF AudioStop
    <3>3. /\ o.active \in Receivers /\ o.files \in Files /\ Sound(o.active, o.files)
          /\ o.ok => ~o.active.stage /\ o.files.final = Directory /\ ~o.files.staged
      BY <1>3, <2>2, StopOutcome
    <3>4. GoesOn(h)
      BY <1>4, <1>5, <3>1
    <3>5. CASE o.ok
      <4>1. Completes(h, o.active, o.files)
        BY <3>1, <3>3, <3>5 DEF Completes
      <4>2. TurnStep(h)
        BY <2>2, <3>1, <3>3, <4>1 DEF TurnStep, SetTurn
      <4> QED
        BY <1>1, <1>2, <3>2, <3>4, <4>2
    <3>6. CASE ~o.ok
      <4>1. Keeps(h, o.active, o.files)
        BY <1>3, <1>4, <2>2, <3>1, <3>6 DEF Keeps
      <4>2. TurnStep(h)
        BY <2>2, <3>1, <3>3, <4>1 DEF TurnStep, SetTurn
      <4> QED
        BY <1>1, <1>2, <3>2, <3>4, <4>2
    <3> QED
      BY <3>5, <3>6
  <2> QED
    BY <2>1, <2>2
<1>9. CASE OtherFrame(h)
  BY <1>1, <1>2, <1>4, <1>5, <1>9 DEF OtherFrame, turns, NoTurnStep
<1> QED
  BY <1>6, <1>7, <1>8, <1>9

\* The critical section of close is a step of the turn that it aborts.
LEMMA CloseTurnStep ==
    ASSUME IInv, NEW h \in Conns, CloseTurn(h)
    PROVE  /\ once[h] = "closing" /\ once' = [once EXCEPT ![h] = "closed"]
           /\ UNCHANGED <<registry, handler, conn, frame, begun, reload, got>>
           /\ active'[h] = NoTurn
           /\ TurnStep(h) \/ NoTurnStep
<1> USE DEF IInv
<1> DEFINE t == active[h]
<1>1. /\ once[h] = "closing" /\ once' = [once EXCEPT ![h] = "closed"]
      /\ UNCHANGED <<registry, handler, conn, frame, begun, completed, reload, got>>
      /\ active' = [active EXCEPT ![h] = NoTurn]
  BY DEF CloseTurn
<1>2. active \in [Conns -> Turns \cup {NoTurn}]
  BY DEF TypeOK
<1>3. CASE t = NoTurn
  <2>1. active' = active
    BY <1>1, <1>2, <1>3
  <2> QED
    BY <1>1, <1>2, <1>3, <2>1 DEF CloseTurn, NoTurnChanges, NoTurnStep
<1>4. CASE t # NoTurn
  <2> DEFINE p == Abort(receiver[t], files[t])
  <2>1. receiver[t] \in Receivers /\ files[t] \in Files /\ Sound(receiver[t], files[t])
    BY <1>2, <1>4 DEF TypeOK, TurnShape
  <2>2. p.active \in Receivers /\ p.files \in Files /\ Sound(p.active, p.files) /\ ~p.active.stage
    BY <2>1, AbortOutcome
  <2>3. SetTurn(t, p)
    BY <1>4 DEF CloseTurn
  <2> HIDE DEF p
  <2>4. Aborts(h, p.active, p.files)
    BY <1>1, <2>2 DEF Aborts
  <2>5. TurnStep(h)
    BY <1>4, <2>2, <2>3, <2>4 DEF TurnStep, SetTurn
  <2> QED
    BY <1>1, <1>2, <2>5
<1> QED
  BY <1>3, <1>4

-----------------------------------------------------------------------------
(* The inductive invariant.                                                *)

\* A gateway that starts satisfies it: no connection, no turn, the first version.
LEMMA InitInv == Init => IInv
<1> SUFFICES ASSUME Init PROVE IInv
  OBVIOUS
<1> USE GatewayAssumption DEF Init, Conns, Turns, NoConn, NoTurn
<1>1. Begin \in Receivers /\ Nothing \in Files
  BY DEF Begin, Nothing, Receivers, Files
<1>2. TypeOK
  BY <1>1 DEF TypeOK, FrameKinds
<1>3. ConnShape
  BY DEF ConnShape, Known, Early
<1>4. RegistryShape /\ VersionShape
  BY DEF RegistryShape, VersionShape
<1>5. LoopShape
  BY DEF LoopShape, ReloadIsDelivered
<1>6. OwnerShape
  BY DEF OwnerShape
<1>7. TurnShape
  BY DEF TurnShape, Sound, Begin, Nothing
<1> QED
  BY <1>2, <1>3, <1>4, <1>5, <1>6, <1>7 DEF IInv

\* Opening, serving and closing a connection preserve the types of what they write ...
LEMMA HandlerTypes ==
    ASSUME TypeOK, NEW h \in Conns,
           \/ \E d \in Devices : Authenticate(h, d)
           \/ ReadConfig(h) \/ WriteWelcome(h) \/ register(h) \/ Replaced(h)
           \/ unregister(h) \/ Returns(h) \/ Read(h) \/ ReadFails(h) \/ CloseConn(h)
    PROVE  TypeOK'
<1> USE GatewayAssumption DEF TypeOK, Goes, registry, transport, turns, reload, Conns, NoConn
<1>0. store \in 0..MaxVersion /\ 0 \in 0..MaxVersion
  OBVIOUS
<1>1. CASE \E d \in Devices : Authenticate(h, d)
  BY <1>1 DEF Authenticate
<1>2. CASE ReadConfig(h)
  <2>1. config' \in [Conns -> 0..MaxVersion]
    BY <1>0, <1>2 DEF ReadConfig
  <2> QED
    BY <1>2, <2>1 DEF ReadConfig
<1>3. CASE WriteWelcome(h)
  <2>1. config' \in [Conns -> 0..MaxVersion] /\ got' \in [Conns -> 0..MaxVersion]
    BY <1>0, <1>3, SMTT(30) DEF WriteWelcome
  <2> QED
    BY <1>3, <2>1, ZenonT(40) DEF WriteWelcome
<1>4. CASE register(h)
  BY <1>4, ZenonT(40) DEF register
<1>5. CASE Replaced(h)
  BY <1>5 DEF Replaced
<1>6. CASE unregister(h)
  BY <1>6 DEF unregister
<1>7. CASE Returns(h)
  BY <1>7 DEF Returns
<1>8. CASE Read(h)
  BY <1>8 DEF Read
<1>9. CASE ReadFails(h)
  BY <1>9 DEF ReadFails
<1>10. CASE CloseConn(h)
  BY <1>10 DEF CloseConn
<1> QED
  BY <1>1, <1>2, <1>3, <1>4, <1>5, <1>6, <1>7, <1>8, <1>9, <1>10

\* ... as the loop does ...
LEMMA LoopTypes ==
    ASSUME TypeOK, Loop
    PROVE  TypeOK'
<1> USE GatewayAssumption DEF TypeOK, registry, transport, turns, reload, Conns, NoConn
<1>1. CASE DeviceIDs
  BY <1>1 DEF DeviceIDs, Registered
<1>2. CASE Reload
  <2>1. store' \in 1..MaxVersion
    BY <1>2 DEF Reload
  <2> QED
    BY <1>2, <2>1 DEF Reload
<1>3. CASE PushConfig
  BY <1>3 DEF PushConfig
<1>4. CASE VictimClosed
  BY <1>4 DEF VictimClosed
<1>5. CASE Pushed
  BY <1>5 DEF Pushed
<1>6. CASE Close
  BY <1>6 DEF Close, Registered
<1>7. ASSUME NEW h \in Conns, Push(h)
      PROVE  TypeOK'
  <2>1. store \in 0..MaxVersion
    OBVIOUS
  <2>2. got' \in [Conns -> 0..MaxVersion]
    <3>1. got' = [got EXCEPT ![h] = store] \/ got' = got
      BY <1>7 DEF Push
    <3> QED
      BY <2>1, <3>1
  <2> QED
    BY <1>7, <2>2 DEF Push
<1>8. ASSUME NEW h \in Conns, CloseNext(h)
      PROVE  TypeOK'
  BY <1>8 DEF CloseNext
<1> QED
  BY <1>1, <1>2, <1>3, <1>4, <1>5, <1>6, <1>7, <1>8 DEF Loop

\* ... and so do turns.
LEMMA TurnTypes ==
    ASSUME TypeOK, NEW h \in Conns, TurnStep(h) \/ NoTurnStep
    PROVE  /\ active' \in [Conns -> Turns \cup {NoTurn}] /\ completed' \subseteq Turns
           /\ receiver' \in [Turns -> Receivers] /\ files' \in [Turns -> Files]
  BY DEF TypeOK, TurnStep, NoTurnStep, Keeps, Aborts, Completes

\* Every step preserves the types.
LEMMA TypeInv ==
    ASSUME IInv, [Next]_vars
    PROVE  TypeOK'
<1>1. TypeOK
  BY DEF IInv
<1>2. ASSUME NEW h \in Conns, Binary(h) \/ AudioStart(h) \/ AudioStop(h) \/ OtherFrame(h)
      PROVE  TypeOK'
  <2>1. /\ active' \in [Conns -> Turns \cup {NoTurn}] /\ completed' \subseteq Turns
        /\ receiver' \in [Turns -> Receivers] /\ files' \in [Turns -> Files]
    BY <1>1, <1>2, FrameStep, TurnTypes
  <2>2. /\ handler[h] = "reading" /\ frame' = [frame EXCEPT ![h] = "none"]
        /\ UNCHANGED <<registry, once, reload, got, begun>> /\ GoesOn(h)
    BY <1>2, FrameStep
  <2> QED
    BY <1>1, <2>1, <2>2 DEF TypeOK, GoesOn, registry, reload
<1>3. ASSUME NEW h \in Conns, TurnStart(h)
      PROVE  TypeOK'
  <2> USE <1>1 DEF TypeOK, TurnStart, Handles, NoTurnChanges
  <2>1. begun' \in 0..MaxTurns /\ active' \in [Conns -> Turns \cup {NoTurn}]
    <3>1. \/ begun' = begun /\ active' = active
          \/ /\ begun < MaxTurns /\ begun' = begun + 1
             /\ active' = [active EXCEPT ![h] = begun + 1]
      BY <1>3
    <3>2. begun < MaxTurns => begun + 1 \in Turns /\ begun + 1 \in 0..MaxTurns
      BY GatewayAssumption DEF Turns
    <3> QED
      BY <3>1, <3>2
  <2>2. handler' \in [Conns -> {"none", "hello", "welcome", "register", "replacing", "reading",
                              "leaving", "ended", "gone"}]
        /\ conn' \in [Conns -> BOOLEAN]
        /\ \A g \in Conns : handler'[g] = "none" <=> handler[g] = "none"
    BY <1>3 DEF Rejects, Continues, Goes
  <2> QED
    BY <1>3, <2>1, <2>2 DEF registry, reload
<1>4. ASSUME NEW h \in Conns, CloseTurn(h)
      PROVE  TypeOK'
  <2>1. /\ active' \in [Conns -> Turns \cup {NoTurn}] /\ completed' \subseteq Turns
        /\ receiver' \in [Turns -> Receivers] /\ files' \in [Turns -> Files]
    BY <1>1, <1>4, CloseTurnStep, TurnTypes
  <2> QED
    BY <1>1, <1>4, <2>1, CloseTurnStep DEF TypeOK, CloseTurn, registry, reload
<1>5. CASE UNCHANGED vars
  BY <1>1, <1>5 DEF TypeOK, vars, registry, transport, turns, reload
<1> QED
  BY <1>1, <1>2, <1>3, <1>4, <1>5, HandlerTypes, LoopTypes DEF Next, Serve, CloseSession

\* What every frame leaves alone.
LEMMA FrameQuiet ==
    ASSUME IInv, NEW h \in Conns,
           Binary(h) \/ TurnStart(h) \/ AudioStart(h) \/ AudioStop(h) \/ OtherFrame(h)
    PROVE  /\ handler[h] = "reading" /\ frame' = [frame EXCEPT ![h] = "none"]
           /\ UNCHANGED <<registry, once, reload, got>>
           /\ GoesOn(h)
<1>1. CASE TurnStart(h)
  <2>1. handler[h] = "reading"
    BY <1>1 DEF IInv, ConnShape, TurnStart, Handles
  <2> QED
    BY <1>1, <2>1 DEF TurnStart, Handles, Continues, Rejects, Goes, GoesOn
<1> QED
  BY <1>1, FrameStep

\* A frame preserves what is known of connections and of the loop.
LEMMA FrameConnInv ==
    ASSUME IInv, TypeOK', NEW h \in Conns,
           Binary(h) \/ TurnStart(h) \/ AudioStart(h) \/ AudioStop(h) \/ OtherFrame(h)
    PROVE  ConnShape' /\ RegistryShape' /\ VersionShape' /\ LoopShape'
<1> USE DEF IInv, TypeOK, registry, reload, GoesOn
<1>1. /\ handler[h] = "reading" /\ frame' = [frame EXCEPT ![h] = "none"]
      /\ UNCHANGED <<registry, once, reload, got>> /\ GoesOn(h)
  BY FrameQuiet
<1>2. ConnShape'
  BY <1>1 DEF ConnShape, Known, Early
<1>3. RegistryShape'
  BY <1>1 DEF RegistryShape
<1>4. VersionShape'
  BY <1>1 DEF VersionShape
<1>5. LoopShape'
  BY <1>1 DEF LoopShape, ReloadIsDelivered, Served, Registered
<1> QED
  BY <1>2, <1>3, <1>4, <1>5

\* So does a handler on its way to its first frame ...
LEMMA OpeningInv ==
    ASSUME IInv, TypeOK', NEW h \in Conns,
           \/ \E d \in Devices : Authenticate(h, d)
           \/ ReadConfig(h) \/ WriteWelcome(h)
    PROVE  ConnShape' /\ RegistryShape' /\ VersionShape' /\ LoopShape'
<1> USE GatewayAssumption DEF IInv, TypeOK, transport, reload, turns, Goes
<1>1. CASE \E d \in Devices : Authenticate(h, d)
  <2> USE <1>1 DEF Authenticate
  <2>1. ConnShape' /\ VersionShape'
    BY DEF ConnShape, Known, Early, VersionShape
  <2>2. RegistryShape'
    BY DEF RegistryShape
  <2>3. LoopShape'
    BY DEF LoopShape, ReloadIsDelivered, Served, Registered, ConnShape, Known, Early
  <2> QED
    BY <2>1, <2>2, <2>3
<1>2. CASE ReadConfig(h)
  <2> USE <1>2 DEF ReadConfig
  <2>1. ConnShape' /\ VersionShape'
    BY DEF ConnShape, Known, Early, VersionShape
  <2>2. RegistryShape'
    BY DEF RegistryShape
  <2>3. LoopShape'
    BY DEF LoopShape, ReloadIsDelivered, Served, Registered
  <2> QED
    BY <2>1, <2>2, <2>3
<1>3. CASE WriteWelcome(h)
  <2> USE <1>3 DEF WriteWelcome
  <2>1. ConnShape' /\ VersionShape'
    BY DEF ConnShape, Known, Early, VersionShape
  <2>2. RegistryShape'
    BY DEF RegistryShape
  <2>3. LoopShape'
    BY DEF LoopShape, ReloadIsDelivered, Served, Registered, ConnShape, Known, Early
  <2> QED
    BY <2>1, <2>2, <2>3
<1> QED
  BY <1>1, <1>2, <1>3

\* ... and one that registers, for which the predecessor is noted before the
\* entry is overwritten.
LEMMA RegisterInv ==
    ASSUME IInv, TypeOK', NEW h \in Conns, register(h) \/ Replaced(h)
    PROVE  ConnShape' /\ RegistryShape' /\ VersionShape' /\ LoopShape'
<1> USE GatewayAssumption DEF IInv, TypeOK, transport, reload, turns, Goes
<1>1. CASE register(h)
  <2> USE <1>1 DEF register
  <2>0. device[h] \in Devices
    OBVIOUS
  <2>1. ConnShape'
    <3> DEFINE before == sessions[device[h]]
    <3>1. before # NoConn => before \in Conns /\ handler[before] \notin Early
      BY <2>0 DEF RegistryShape, Early
    <3>2. old' = [old EXCEPT ![h] = before]
      OBVIOUS
    <3> HIDE DEF before
    <3>3. \A g \in Conns : Known(g)' => Known(g) \/ before = g
      BY <3>2 DEF Known
    <3> QED
      BY <3>1, <3>3 DEF ConnShape, Early, NoConn, Conns
  <2>2. VersionShape'
    BY DEF VersionShape
  <2>3. RegistryShape'
    BY <2>0 DEF RegistryShape, NoConn, Conns
  <2>4. \A g \in Conns : g # h /\ g \in Registered' => g \in Registered
    BY <2>0 DEF Registered
  <2>5. LoopShape'
    BY <2>4 DEF LoopShape, ReloadIsDelivered, Served, ConnShape, Known, Early
  <2> QED
    BY <2>1, <2>2, <2>3, <2>5
<1>2. CASE Replaced(h)
  <2> USE <1>2 DEF Replaced
  <2>1. ConnShape'
    BY DEF ConnShape, Known, Early, NoConn, Conns
  <2>2. VersionShape'
    BY DEF VersionShape
  <2>3. RegistryShape'
    <3>1. ASSUME NEW g \in Conns, handler'[g] \in {"replacing", "reading"}, once[g] = "open",
                 sessions[device[g]] # g
          PROVE  \E n \in Conns : handler'[n] = "replacing" /\ old'[n] = g
      <4>1. handler[g] \in {"replacing", "reading"}
        BY <3>1
      <4>2. PICK n \in Conns : handler[n] = "replacing" /\ old[n] = g
        BY <3>1, <4>1 DEF RegistryShape
      <4>3. n # h
        BY <3>1, <4>2 DEF NoConn, Conns
      <4> QED
        BY <4>2, <4>3
    <3>2. \A d \in Devices : sessions[d] # NoConn =>
              handler'[sessions[d]] \in {"replacing", "reading", "leaving"}
      BY DEF RegistryShape
    <3> QED
      BY <3>1, <3>2 DEF RegistryShape
  <2>4. LoopShape'
    BY DEF LoopShape, ReloadIsDelivered, Served, Registered
  <2> QED
    BY <2>1, <2>2, <2>3, <2>4
<1> QED
  BY <1>1, <1>2

\* So does one that reads, fails, leaves or returns ...
LEMMA LeavingInv ==
    ASSUME IInv, TypeOK', NEW h \in Conns,
           Read(h) \/ ReadFails(h) \/ unregister(h) \/ Returns(h)
    PROVE  ConnShape' /\ RegistryShape' /\ VersionShape' /\ LoopShape'
<1> USE GatewayAssumption DEF IInv, TypeOK, registry, transport, reload, turns, Goes
<1>1. CASE Read(h)
  <2> USE <1>1 DEF Read
  <2>1. ConnShape'
    BY DEF ConnShape, Known, Early
  <2>2. RegistryShape' /\ VersionShape'
    BY DEF RegistryShape, VersionShape
  <2>3. LoopShape'
    BY DEF LoopShape, ReloadIsDelivered, Served, Registered
  <2> QED
    BY <2>1, <2>2, <2>3
<1>2. CASE ReadFails(h)
  <2> USE <1>2 DEF ReadFails
  <2>1. ConnShape'
    BY DEF ConnShape, Known, Early
  <2>2. RegistryShape' /\ VersionShape'
    BY DEF RegistryShape, VersionShape
  <2>3. LoopShape'
    BY DEF LoopShape, ReloadIsDelivered, Served, Registered
  <2> QED
    BY <2>1, <2>2, <2>3
<1>3. CASE unregister(h)
  <2> USE <1>3 DEF unregister
  <2>1. ConnShape' /\ VersionShape'
    BY DEF ConnShape, Known, Early, VersionShape
  <2>2. RegistryShape'
    BY DEF RegistryShape, NoConn, Conns
  <2>3. Registered' \subseteq Registered
    BY DEF Registered, NoConn, Conns
  <2>4. LoopShape'
    BY <2>3 DEF LoopShape, ReloadIsDelivered, Served
  <2> QED
    BY <2>1, <2>2, <2>4
<1>4. CASE Returns(h)
  <2> USE <1>4 DEF Returns
  <2>1. ConnShape'
    BY DEF ConnShape, Known, Early
  <2>2. RegistryShape' /\ VersionShape'
    BY DEF RegistryShape, VersionShape
  <2>3. LoopShape'
    BY DEF LoopShape, ReloadIsDelivered, Served, Registered
  <2> QED
    BY <2>1, <2>2, <2>3
<1> QED
  BY <1>1, <1>2, <1>3, <1>4

\* ... and whoever closes a session: it was known to somebody, so it is past
\* its registration.
LEMMA CloseInv ==
    ASSUME IInv, TypeOK', NEW h \in Conns, CloseSession(h)
    PROVE  ConnShape' /\ RegistryShape' /\ VersionShape' /\ LoopShape'
<1> USE GatewayAssumption DEF IInv, TypeOK, registry, reload, turns
<1>1. CASE CloseConn(h)
  <2> USE <1>1 DEF CloseConn
  <2>1. ConnShape'
    BY DEF ConnShape, Known, Early, Closing
  <2>2. RegistryShape' /\ VersionShape'
    BY DEF RegistryShape, VersionShape
  <2>3. LoopShape'
    BY DEF LoopShape, ReloadIsDelivered, Served, Registered
  <2> QED
    BY <2>1, <2>2, <2>3
<1>2. CASE CloseTurn(h)
  <2>0. /\ once[h] = "closing" /\ once' = [once EXCEPT ![h] = "closed"]
        /\ UNCHANGED <<registry, handler, conn, frame, reload, got>>
    BY <1>2 DEF CloseTurn
  <2>1. ConnShape'
    BY <2>0 DEF ConnShape, Known, Early
  <2>2. RegistryShape' /\ VersionShape'
    BY <2>0 DEF RegistryShape, VersionShape
  <2>3. LoopShape'
    BY <2>0 DEF LoopShape, ReloadIsDelivered, Served, Registered
  <2> QED
    BY <2>1, <2>2, <2>3
<1> QED
  BY <1>1, <1>2 DEF CloseSession

\* The loop: whom it knows is registered when it looks, and a version it pushes
\* is the newest.
LEMMA LoopInv ==
    ASSUME IInv, TypeOK', Loop
    PROVE  ConnShape' /\ RegistryShape' /\ VersionShape' /\ LoopShape'
<1> USE GatewayAssumption DEF IInv, TypeOK, registry, transport, turns
<1>0. Registered \subseteq {h \in Conns : handler[h] \notin Early}
  <2> SUFFICES ASSUME NEW h \in Registered
               PROVE  h \in Conns /\ handler[h] \notin Early
    OBVIOUS
  <2>1. PICK d \in Devices : sessions[d] = h
    BY DEF Registered
  <2>2. h \in Conns /\ h # NoConn
    BY DEF Registered, NoConn, Conns
  <2> QED
    BY <2>1, <2>2 DEF RegistryShape, Early
<1>1. RegistryShape'
  BY DEF RegistryShape, Loop, DeviceIDs, Reload, PushConfig, VictimClosed, Pushed, Close, Push, CloseNext
<1>2. CASE DeviceIDs
  <2> USE <1>2 DEF DeviceIDs
  <2>1. ConnShape'
    BY <1>0 DEF ConnShape, Known
  <2>2. VersionShape'
    BY DEF VersionShape
  <2>3. \A h \in owed' : device[h] \in listed'
    <3> TAKE h \in owed'
    <3>1. PICK d \in Devices : sessions[d] = h
      BY DEF Registered
    <3>2. h # NoConn
      BY DEF Registered, NoConn, Conns
    <3> QED
      BY <3>1, <3>2 DEF RegistryShape
  <2>4. LoopShape'
    BY <2>3 DEF LoopShape, ReloadIsDelivered
  <2> QED
    BY <1>1, <2>1, <2>2, <2>4
<1>3. CASE Reload
  <2> USE <1>3 DEF Reload
  <2>1. ConnShape'
    BY DEF ConnShape, Known
  <2>2. store' \in Nat /\ store' >= store
    OBVIOUS
  <2>3. VersionShape'
    BY <2>2 DEF VersionShape
  <2>4. LoopShape'
    BY DEF LoopShape, ReloadIsDelivered
  <2> QED
    BY <1>1, <2>1, <2>3, <2>4
<1>4. CASE PushConfig
  <2> USE <1>4 DEF PushConfig
  <2>1. targets' \subseteq Registered
    BY DEF Registered, NoConn, Conns
  <2>2. ConnShape'
    BY <1>0, <2>1 DEF ConnShape, Known
  <2>3. VersionShape'
    BY DEF VersionShape
  <2>4. \A h \in owed : h \in Registered => h \in targets'
    BY DEF LoopShape, Registered, RegistryShape, NoConn, Conns
  <2>5. LoopShape'
    BY <2>4 DEF LoopShape, ReloadIsDelivered, Registered
  <2> QED
    BY <1>1, <2>2, <2>3, <2>5
<1>5. CASE VictimClosed
  <2> USE <1>5 DEF VictimClosed
  <2>1. ConnShape'
    BY DEF ConnShape, Known, NoConn, Conns
  <2>2. VersionShape'
    BY DEF VersionShape
  <2>3. LoopShape'
    BY DEF LoopShape, ReloadIsDelivered, Served, Registered
  <2> QED
    BY <1>1, <2>1, <2>2, <2>3
<1>6. CASE Pushed
  <2> USE <1>6 DEF Pushed
  <2>1. ConnShape' /\ VersionShape'
    BY DEF ConnShape, Known, VersionShape
  <2>2. LoopShape'
    BY DEF LoopShape, ReloadIsDelivered, Served, Registered, NoConn, Conns
  <2> QED
    BY <1>1, <2>1, <2>2
<1>7. CASE Close
  <2> USE <1>7 DEF Close
  <2>1. ConnShape'
    BY <1>0 DEF ConnShape, Known
  <2>2. VersionShape'
    BY DEF VersionShape
  <2>3. LoopShape'
    BY DEF LoopShape, ReloadIsDelivered
  <2> QED
    BY <1>1, <2>1, <2>2, <2>3
<1>8. ASSUME NEW h \in Conns, Push(h)
      PROVE  ConnShape' /\ VersionShape' /\ LoopShape'
  <2> USE <1>8 DEF Push
  <2>0. Known(h) /\ handler[h] \notin Early
    BY DEF ConnShape, Known
  <2>1. ConnShape'
    BY <2>0 DEF ConnShape, Known, NoConn, Conns
  <2>2. VersionShape'
    BY <2>0 DEF VersionShape, Early
  <2>3. ASSUME NEW g \in owed, g \in Registered, once[g] = "open"
        PROVE  Served(g)' \/ g \in targets' \/ victim' = g
    <3>1. Served(g) \/ g \in targets
      BY <2>3 DEF LoopShape, NoConn, Conns
    <3> QED
      BY <2>3, <3>1 DEF Served
  <2>4. LoopShape'
    BY <2>3 DEF LoopShape, ReloadIsDelivered, Registered
  <2> QED
    BY <2>1, <2>2, <2>4
<1>9. ASSUME NEW h \in Conns, CloseNext(h)
      PROVE  ConnShape' /\ VersionShape' /\ LoopShape'
  <2> USE <1>9 DEF CloseNext
  <2>1. ConnShape' /\ VersionShape'
    BY DEF ConnShape, Known, VersionShape, NoConn, Conns
  <2>2. LoopShape'
    BY DEF LoopShape, ReloadIsDelivered
  <2> QED
    BY <2>1, <2>2
<1> QED
  BY <1>1, <1>2, <1>3, <1>4, <1>5, <1>6, <1>7, <1>8, <1>9 DEF Loop

\* Steps that touch no turn, give no session a frame while a turn of a closed
\* one is left, and let nobody with a turn read again preserve what is known of
\* the turns.
LEMMA AsideInv ==
    ASSUME IInv, NoTurnStep, begun' = begun,
           \A h \in Conns :
               active[h] # NoTurn =>
                   /\ handler'[h] \in {"reading", "leaving", "ended", "gone"}
                   /\ handler'[h] = "reading" => handler[h] = "reading"
                   /\ once'[h] = "closed" => once[h] = "closed" /\ frame'[h] = "none"
    PROVE  OwnerShape' /\ TurnShape'
<1>1. OwnerShape'
  BY DEF IInv, OwnerShape, NoTurnStep
<1>2. TurnShape'
  <2> USE DEF IInv, TypeOK, NoTurnStep
  <2>1. \A u \in Turns : Sound(receiver'[u], files'[u])
    BY DEF TurnShape
  <2>2. \A h \in Conns : active'[h] # NoTurn /\ handler'[h] = "reading" =>
            Serving(receiver'[active'[h]], files'[active'[h]])
    BY DEF TurnShape
  <2>3. ASSUME NEW u \in Turns, receiver'[u].stage
        PROVE  \E h \in Conns : active'[h] = u /\ once'[h] # "closed"
    <3>1. PICK h \in Conns : active[h] = u /\ once[h] # "closed"
      BY <2>3 DEF TurnShape
    <3>2. u # NoTurn
      BY GatewayAssumption DEF Turns, NoTurn
    <3> QED
      BY <3>1, <3>2
  <2>4. \A u \in completed' : files'[u].final = Directory /\ ~files'[u].staged
    BY DEF TurnShape
  <2> QED
    BY <2>1, <2>2, <2>3, <2>4 DEF TurnShape
<1> QED
  BY <1>1, <1>2

\* A step of the active turn of one session preserves what is known of all.
LEMMA TurnStepInv ==
    ASSUME IInv, NEW h \in Conns, TurnStep(h), begun' = begun,
           \A g \in Conns \ {h} :
               handler'[g] = handler[g] /\ once'[g] = once[g] /\ frame'[g] = frame[g],
           handler'[h] \in {"reading", "leaving", "ended", "gone"},
           once'[h] = once[h] \/ (once'[h] = "closed" /\ active'[h] = NoTurn),
           frame'[h] = "none" \/ active'[h] = NoTurn
    PROVE  OwnerShape' /\ TurnShape'
<1> DEFINE t == active[h]
<1> USE GatewayAssumption DEF IInv, TypeOK, Turns, NoTurn
<1>1. PICK a \in Receivers, f \in Files :
          /\ Sound(a, f)
          /\ receiver' = [receiver EXCEPT ![t] = a] /\ files' = [files EXCEPT ![t] = f]
          /\ Keeps(h, a, f) \/ Aborts(h, a, f) \/ Completes(h, a, f)
  BY DEF TurnStep
<1>2. /\ t \in Turns /\ t <= begun /\ t \notin completed
      /\ \A g \in Conns \ {h} : active[g] # t
  BY DEF TurnStep, OwnerShape
<1>3. /\ receiver'[t] = a /\ files'[t] = f
      /\ \A u \in Turns \ {t} : receiver'[u] = receiver[u] /\ files'[u] = files[u]
  BY <1>1, <1>2
<1>4. /\ \A g \in Conns \ {h} : active'[g] = active[g]
      /\ active'[h] \in {t, NoTurn}
      /\ completed' \subseteq completed \cup {t}
      /\ active'[h] = t => completed' = completed
  BY <1>1, <1>2 DEF Keeps, Aborts, Completes
<1>5. OwnerShape'
  <2>1. \A g \in Conns : active'[g] # NoTurn =>
            /\ active'[g] <= begun /\ active'[g] \notin completed'
            /\ handler'[g] \in {"reading", "leaving", "ended", "gone"}
    <3> TAKE g \in Conns
    <3>1. CASE g = h
      BY <1>2, <1>4, <3>1
    <3>2. CASE g # h
      <4>1. active'[g] = active[g] /\ active[g] # t /\ handler'[g] = handler[g]
        BY <1>2, <1>4, <3>2
      <4> QED
        BY <1>4, <4>1 DEF OwnerShape
    <3> QED
      BY <3>1, <3>2
  <2>2. \A g, k \in Conns : active'[g] = active'[k] /\ active'[g] # NoTurn => g = k
    <3> TAKE g, k \in Conns
    <3>1. active'[g] = active'[k] /\ active'[g] # NoTurn => active'[g] = active[g] /\ active'[k] = active[k]
      BY <1>4
    <3> QED
      BY <3>1 DEF OwnerShape
  <2>3. \A u \in completed' : u <= begun
    BY <1>2, <1>4 DEF OwnerShape
  <2>4. \A u \in Turns : u > begun => receiver'[u] = Begin /\ files'[u] = Nothing
    BY <1>2, <1>3 DEF OwnerShape
  <2>5. \A g \in Conns : once'[g] = "closed" /\ active'[g] # NoTurn => frame'[g] = "none"
    BY <1>4 DEF OwnerShape
  <2> QED
    BY <2>1, <2>2, <2>3, <2>4, <2>5 DEF OwnerShape
<1>6. TurnShape'
  <2>1. \A u \in Turns : Sound(receiver'[u], files'[u])
    BY <1>1, <1>2, <1>3 DEF TurnShape
  <2>2. ASSUME NEW g \in Conns, active'[g] # NoTurn, handler'[g] = "reading"
        PROVE  Serving(receiver'[active'[g]], files'[active'[g]])
    <3>1. CASE g = h
      <4>1. Keeps(h, a, f)
        BY <1>1, <2>2, <3>1 DEF Aborts, Completes
      <4> QED
        BY <1>3, <2>2, <3>1, <4>1 DEF Keeps
    <3>2. CASE g # h
      <4>1. active'[g] = active[g] /\ active[g] \in Turns \ {t} /\ handler[g] = "reading"
        BY <1>2, <1>4, <2>2, <3>2
      <4>2. Serving(receiver[active[g]], files[active[g]])
        BY <4>1 DEF TurnShape
      <4> QED
        BY <1>3, <4>1, <4>2
    <3> QED
      BY <3>1, <3>2
  <2>3. ASSUME NEW u \in Turns, receiver'[u].stage
        PROVE  \E g \in Conns : active'[g] = u /\ once'[g] # "closed"
    <3>1. CASE u = t
      <4>1. Keeps(h, a, f)
        BY <1>1, <1>3, <2>3, <3>1 DEF Aborts, Completes
      <4>2. active'[h] = t /\ once[h] # "closed"
        BY <4>1 DEF Keeps
      <4>3. once'[h] # "closed"
        BY <1>2, <4>2
      <4> QED
        BY <3>1, <4>2, <4>3
    <3>2. CASE u # t
      <4>1. PICK g \in Conns : active[g] = u /\ once[g] # "closed"
        BY <1>3, <2>3, <3>2 DEF TurnShape
      <4> QED
        BY <1>4, <3>2, <4>1
    <3> QED
      BY <3>1, <3>2
  <2>4. ASSUME NEW u \in completed'
        PROVE  files'[u].final = Directory /\ ~files'[u].staged
    <3>1. CASE u = t
      <4>1. Completes(h, a, f)
        BY <1>1, <1>2, <2>4, <3>1 DEF Aborts, Keeps
      <4> QED
        BY <1>3, <3>1, <4>1 DEF Completes
    <3>2. CASE u # t
      <4>1. u \in completed /\ u \in Turns
        BY <1>4, <2>4, <3>2
      <4> QED
        BY <1>3, <3>2, <4>1 DEF TurnShape
    <3> QED
      BY <3>1, <3>2
  <2> QED
    BY <2>1, <2>2, <2>3, <2>4 DEF TurnShape
<1> QED
  BY <1>5, <1>6

\* Handlers between frames, the loop and the beginning of a close leave the
\* turns alone.
LEMMA NoTurnInv ==
    ASSUME IInv,
           \/ \E h \in Conns :
                 \/ \E d \in Devices : Authenticate(h, d)
                 \/ ReadConfig(h) \/ WriteWelcome(h) \/ register(h) \/ Replaced(h)
                 \/ unregister(h) \/ Returns(h) \/ Read(h) \/ ReadFails(h) \/ CloseConn(h)
           \/ Loop
    PROVE  OwnerShape' /\ TurnShape'
<1> USE DEF IInv, TypeOK, registry, transport, reload, turns, Goes, NoTurnStep
<1>1. ASSUME NEW g \in Conns,
             \/ \E d \in Devices : Authenticate(g, d)
             \/ ReadConfig(g) \/ WriteWelcome(g) \/ register(g) \/ Replaced(g)
      PROVE  OwnerShape' /\ TurnShape'
  <2>1. /\ NoTurnStep /\ begun' = begun /\ once' = once /\ frame' = frame
        /\ handler[g] \in Early \cup {"replacing"}
        /\ \A h \in Conns \ {g} : handler'[h] = handler[h]
    BY <1>1 DEF Authenticate, ReadConfig, WriteWelcome, register, Replaced, Early
  <2>2. active[g] = NoTurn
    BY <2>1 DEF OwnerShape, Early
  <2> QED
    BY <2>1, <2>2, AsideInv DEF OwnerShape
<1>2. ASSUME NEW g \in Conns, unregister(g) \/ Returns(g) \/ ReadFails(g)
      PROVE  OwnerShape' /\ TurnShape'
  <2>1. /\ NoTurnStep /\ begun' = begun /\ once' = once /\ frame' = frame
        /\ handler'[g] \in {"leaving", "ended", "gone"}
        /\ \A h \in Conns \ {g} : handler'[h] = handler[h]
    BY <1>2 DEF unregister, Returns, ReadFails
  <2> QED
    BY <2>1, AsideInv DEF OwnerShape
<1>3. ASSUME NEW g \in Conns, Read(g)
      PROVE  OwnerShape' /\ TurnShape'
  <2>1. /\ NoTurnStep /\ begun' = begun /\ once' = once /\ handler' = handler
        /\ once[g] = "open"
        /\ \A h \in Conns \ {g} : frame'[h] = frame[h]
    BY <1>3 DEF Read, ConnShape
  <2> QED
    BY <2>1, AsideInv DEF OwnerShape
<1>4. ASSUME NEW g \in Conns, CloseConn(g)
      PROVE  OwnerShape' /\ TurnShape'
  <2>1. /\ NoTurnStep /\ begun' = begun /\ handler' = handler /\ frame' = frame
        /\ \A h \in Conns : once'[h] = "closed" => once[h] = "closed"
    BY <1>4 DEF CloseConn
  <2> QED
    BY <2>1, AsideInv DEF OwnerShape
<1>5. CASE Loop
  <2>1. NoTurnStep /\ UNCHANGED <<begun, handler, once, frame>>
    BY <1>5 DEF Loop, DeviceIDs, Reload, PushConfig, VictimClosed, Pushed, Close, Push, CloseNext
  <2> QED
    BY <2>1, AsideInv DEF OwnerShape
<1> QED
  BY <1>1, <1>2, <1>3, <1>4, <1>5

\* A turn that begins has a number nobody had, a fresh receiver and no file.
LEMMA TurnStartInv ==
    ASSUME IInv, NEW h \in Conns, TurnStart(h)
    PROVE  OwnerShape' /\ TurnShape'
<1> USE GatewayAssumption DEF IInv, TypeOK, Turns, NoTurn
<1>0. handler[h] = "reading" /\ frame' = [frame EXCEPT ![h] = "none"] /\ once' = once /\ GoesOn(h)
  BY FrameQuiet
<1>1. UNCHANGED <<receiver, files, completed>>
  BY DEF TurnStart, NoTurnChanges
<1>2. CASE UNCHANGED <<active, begun>>
  <2>1. /\ NoTurnStep
        /\ \A g \in Conns : active[g] # NoTurn =>
               /\ handler'[g] \in {"reading", "leaving", "ended", "gone"}
               /\ handler'[g] = "reading" => handler[g] = "reading"
               /\ once'[g] = "closed" => once[g] = "closed" /\ frame'[g] = "none"
    BY <1>0, <1>1, <1>2 DEF NoTurnStep, GoesOn, OwnerShape
  <2> QED
    BY <1>2, <2>1, AsideInv
<1>3. CASE /\ active[h] = NoTurn /\ begun < MaxTurns /\ begun' = begun + 1
           /\ active' = [active EXCEPT ![h] = begun + 1] /\ Continues
  <2> DEFINE t == begun + 1
  <2>1. t \in Turns /\ t # NoTurn /\ t \notin completed /\ \A g \in Conns : active[g] # t
    <3>1. t \in Turns /\ t # NoTurn /\ ~(t <= begun)
      BY <1>3
    <3>2. \A g \in Conns : active[g] # NoTurn => active[g] <= begun
      BY DEF OwnerShape
    <3>3. \A u \in completed : u <= begun
      BY DEF OwnerShape
    <3> HIDE DEF t
    <3> QED
      BY <3>1, <3>2, <3>3
  <2>2. receiver[t] = Begin /\ files[t] = Nothing
    BY <1>3, <2>1 DEF OwnerShape
  <2>3. /\ active'[h] = t
        /\ \A g \in Conns \ {h} : active'[g] = active[g] /\ frame'[g] = frame[g]
        /\ frame'[h] = "none" /\ handler' = handler
    BY <1>0, <1>3 DEF Continues
  <2>4. OwnerShape'
    <3>1. \A g \in Conns : active'[g] # NoTurn =>
              /\ active'[g] <= begun' /\ active'[g] \notin completed'
              /\ handler'[g] \in {"reading", "leaving", "ended", "gone"}
      <4> TAKE g \in Conns
      <4>1. CASE g = h
        BY <1>0, <1>1, <1>3, <2>1, <2>3, <4>1
      <4>2. CASE g # h
        <5>1. active'[g] = active[g] /\ active[g] \in 0..MaxTurns
          BY <2>3, <4>2
        <5>2. active[g] # NoTurn => active[g] <= begun
          BY DEF OwnerShape
        <5> QED
          BY <1>1, <1>3, <2>3, <4>2, <5>1, <5>2 DEF OwnerShape
      <4> QED
        BY <4>1, <4>2
    <3>2. \A g, k \in Conns : active'[g] = active'[k] /\ active'[g] # NoTurn => g = k
      <4> TAKE g, k \in Conns
      <4>1. active[g] # t /\ active[k] # t
        BY <2>1
      <4>2. active[g] = active[k] /\ active[g] # NoTurn => g = k
        BY DEF OwnerShape
      <4> HIDE DEF t
      <4> QED
        BY <2>3, <4>1, <4>2
    <3>3. \A u \in completed' : u <= begun'
      <4>1. completed' = completed /\ \A u \in completed : u <= begun /\ u \in Nat
        BY <1>1 DEF OwnerShape
      <4> QED
        BY <1>3, <4>1
    <3>4. \A u \in Turns : u > begun' => receiver'[u] = Begin /\ files'[u] = Nothing
      <4>1. \A u \in Turns : u > begun' => u > begun
        BY <1>3
      <4> QED
        BY <1>1, <4>1 DEF OwnerShape
    <3>5. \A g \in Conns : once'[g] = "closed" /\ active'[g] # NoTurn => frame'[g] = "none"
      BY <1>0, <2>3 DEF OwnerShape
    <3> QED
      BY <3>1, <3>2, <3>3, <3>4, <3>5 DEF OwnerShape
  <2>5. TurnShape'
    <3>1. Serving(Begin, Nothing)
      BY DEF Serving, Sound, Begin, Nothing
    <3>2. ASSUME NEW g \in Conns, active'[g] # NoTurn, handler'[g] = "reading"
          PROVE  Serving(receiver'[active'[g]], files'[active'[g]])
      BY <1>1, <2>2, <2>3, <3>1, <3>2 DEF TurnShape
    <3>3. ASSUME NEW u \in Turns, receiver[u].stage
          PROVE  \E g \in Conns : active'[g] = u /\ once'[g] # "closed"
      <4>1. PICK g \in Conns : active[g] = u /\ once[g] # "closed"
        BY <3>3 DEF TurnShape
      <4>2. g # h
        BY <1>3, <4>1
      <4> QED
        BY <1>0, <2>3, <4>1, <4>2
    <3> QED
      BY <1>1, <3>2, <3>3 DEF TurnShape
  <2> QED
    BY <2>4, <2>5
<1> QED
  BY <1>2, <1>3 DEF TurnStart

\* Every step preserves what is known of the turns.
LEMMA TurnInv ==
    ASSUME IInv, [Next]_vars
    PROVE  OwnerShape' /\ TurnShape'
<1> USE DEF IInv
<1>1. ASSUME NEW h \in Conns, Binary(h) \/ AudioStart(h) \/ AudioStop(h) \/ OtherFrame(h)
      PROVE  OwnerShape' /\ TurnShape'
  <2>1. /\ handler[h] = "reading" /\ frame' = [frame EXCEPT ![h] = "none"]
        /\ once' = once /\ begun' = begun /\ GoesOn(h)
        /\ TurnStep(h) \/ NoTurnStep
    BY <1>1, FrameStep
  <2>2. /\ frame'[h] = "none" /\ handler'[h] \in {"reading", "leaving"}
        /\ \A g \in Conns \ {h} : handler'[g] = handler[g] /\ frame'[g] = frame[g]
    BY <2>1 DEF GoesOn, TypeOK
  <2>3. CASE TurnStep(h)
    BY <2>1, <2>2, <2>3, TurnStepInv
  <2>4. CASE NoTurnStep
    <3>1. \A g \in Conns : active[g] # NoTurn =>
              /\ handler'[g] \in {"reading", "leaving", "ended", "gone"}
              /\ handler'[g] = "reading" => handler[g] = "reading"
              /\ once'[g] = "closed" => once[g] = "closed" /\ frame'[g] = "none"
      BY <2>1, <2>2 DEF OwnerShape
    <3> QED
      BY <2>1, <2>4, <3>1, AsideInv
  <2> QED
    BY <2>1, <2>3, <2>4
<1>2. ASSUME NEW h \in Conns, CloseTurn(h)
      PROVE  OwnerShape' /\ TurnShape'
  <2>1. /\ once[h] = "closing" /\ once' = [once EXCEPT ![h] = "closed"] /\ active'[h] = NoTurn
        /\ UNCHANGED <<handler, frame, begun>> /\ (TurnStep(h) \/ NoTurnStep)
    BY <1>2, CloseTurnStep DEF CloseTurn
  <2>2. once'[h] = "closed" /\ \A g \in Conns \ {h} : once'[g] = once[g]
    BY <2>1 DEF TypeOK
  <2>3. CASE TurnStep(h)
    <3>1. handler[h] \in {"reading", "leaving", "ended", "gone"}
      BY <2>3 DEF TurnStep, OwnerShape
    <3> QED
      BY <2>1, <2>2, <2>3, <3>1, TurnStepInv
  <2>4. CASE NoTurnStep
    <3>1. active[h] = NoTurn
      BY <2>1, <2>4 DEF NoTurnStep
    <3> QED
      BY <2>1, <2>2, <2>4, <3>1, AsideInv DEF OwnerShape
  <2> QED
    BY <2>1, <2>3, <2>4
<1>3. CASE UNCHANGED vars
  BY <1>3, AsideInv DEF vars, registry, transport, turns, reload, NoTurnStep, OwnerShape
<1> QED
  BY <1>1, <1>2, <1>3, TurnStartInv, NoTurnInv DEF Next, Serve, CloseSession

\* Every step preserves what is known of connections and of the loop.
LEMMA ConnInv ==
    ASSUME IInv, TypeOK', [Next]_vars
    PROVE  ConnShape' /\ RegistryShape' /\ VersionShape' /\ LoopShape'
<1>1. CASE UNCHANGED vars
  BY <1>1 DEF IInv, vars, registry, transport, turns, reload, ConnShape, Known, RegistryShape,
              VersionShape, LoopShape, ReloadIsDelivered, Served, Registered
<1> QED
  BY <1>1, FrameConnInv, OpeningInv, RegisterInv, LeavingInv, CloseInv, LoopInv DEF Next, Serve

\* Every step preserves the invariant.
LEMMA NextInv == IInv /\ [Next]_vars => IInv'
  BY TypeInv, TurnInv, ConnInv DEF IInv

\* The inductive invariant holds always.
LEMMA Invariance == Spec => []IInv
  BY InitInv, NextInv, PTL DEF Spec

-----------------------------------------------------------------------------
\* Server.register, unregister and session.close: the registry never keeps a
\* handler that returned, and a session that serves frames is the registered
\* one of its device or its successor is waiting to close it, for any number of
\* connections of any number of devices.
THEOREM RegistrySafe == Spec => []GatewayInvariant
<1>1. IInv => GatewayInvariant
  BY DEF IInv, GatewayInvariant, RegistryShape, RegistryIsLive
<1> QED
  BY <1>1, Invariance, PTL

\* cmd/gateway's reload loop and Server.PushConfig: a session that was registered
\* when a reload began and still is has the new version or a connection that
\* is closed, whoever registered, left or replaced another in between.
THEOREM ReloadDelivered == Spec => []ReloadIsDelivered
<1>1. IInv => ReloadIsDelivered
  BY DEF IInv, LoopShape
<1> QED
  BY <1>1, Invariance, PTL

\* turns.Receiver under the session's mutex: what is staged belongs to the active
\* turn of a session that is not closed, what is published is whole, for any
\* number of turns and however close, frames and disk errors interleave.
THEOREM TurnFilesSafe == Spec => []TurnFilesAreWhole
<1>1. IInv => TurnFilesAreWhole
  <2> SUFFICES ASSUME IInv PROVE StagesAreOwned /\ PublishedIsComplete
    BY DEF TurnFilesAreWhole
  <2>1. StagesAreOwned
    BY DEF IInv, TurnShape, Sound, StagesAreOwned
  <2>2. PublishedIsComplete
    BY DEF IInv, TurnShape, Sound, PublishedIsComplete
  <2> QED
    BY <2>1, <2>2
<1> QED
  BY <1>1, Invariance, PTL

\* The welcome of a handler and the pushes of the loop: the versions one
\* connection is sent never decrease.
THEOREM VersionsMonotone == Spec => VersionsNeverRegress
<1>1. IInv /\ [Next]_vars => [\A h \in Conns : got'[h] >= got[h]]_got
  <2> SUFFICES ASSUME IInv, [Next]_vars, got' # got
               PROVE  \A h \in Conns : got'[h] >= got[h]
    OBVIOUS
  <2> USE GatewayAssumption DEF IInv, TypeOK
  <2>1. ASSUME NEW g \in Conns, WriteWelcome(g)
        PROVE  \A h \in Conns : got'[h] >= got[h]
    BY <2>1 DEF WriteWelcome, Goes, VersionShape
  <2>2. ASSUME NEW g \in Conns, Push(g)
        PROVE  \A h \in Conns : got'[h] >= got[h]
    BY <2>2 DEF Push, VersionShape
  <2>3. \/ \E g \in Conns : WriteWelcome(g) \/ Push(g)
        \/ got' = got
    <3>1. ASSUME NEW g \in Conns,
                 Binary(g) \/ TurnStart(g) \/ AudioStart(g) \/ AudioStop(g) \/ OtherFrame(g)
          PROVE  got' = got
      BY <3>1, FrameQuiet
    <3>2. ASSUME NEW g \in Conns,
                 \/ \E d \in Devices : Authenticate(g, d)
                 \/ ReadConfig(g) \/ register(g) \/ Replaced(g) \/ unregister(g) \/ Returns(g)
                 \/ Read(g) \/ ReadFails(g) \/ CloseConn(g) \/ CloseTurn(g) \/ CloseNext(g)
          PROVE  got' = got
      BY <3>2 DEF Authenticate, ReadConfig, register, Replaced, unregister, Returns, Read,
                  ReadFails, CloseConn, CloseTurn, CloseNext
    <3>3. DeviceIDs \/ Reload \/ PushConfig \/ VictimClosed \/ Pushed \/ Close => got' = got
      BY DEF DeviceIDs, Reload, PushConfig, VictimClosed, Pushed, Close
    <3>4. UNCHANGED vars => got' = got
      BY DEF vars
    <3> QED
      BY <3>1, <3>2, <3>3, <3>4 DEF Next, Serve, CloseSession, Loop
  <2> QED
    BY <2>1, <2>2, <2>3
<1> QED
  BY <1>1, Invariance, PTL DEF Spec, VersionsNeverRegress
=============================================================================
