----------------------------- MODULE PanelProofs -----------------------------
(***************************************************************************)
(* What the ring shows and what the presses of the buttons are reported    *)
(* as: for any number of sessions, triggers, turns, keys, presses and      *)
(* repeats, however long an animation takes, and whenever timers fire.     *)
(***************************************************************************)
EXTENDS Panel, SequenceTheorems, TLAPS

-----------------------------------------------------------------------------
(* The ring.                                                               *)

RingTypes ==
    /\ TypeOK
    /\ trigger \in [Triggers -> {"none", "show"}]
    /\ idler \in [Idlers -> {"none", "connection", "booting", "off"}]

\* The indicator hears of a session after it began and after it ended, and with
\* a session its turn has ended.  Before the next one the ring is right.
LinkShape ==
    /\ connected <=> session \in {"up", "leaving"}
    /\ session \in {"up", "leaving"} => hasConnected
    /\ active => Connected
    /\ session = "down" => Requested = said \/ stray \/ booting

\* The frame is or becomes f: the last request, or a step of the way there.
Heading(f) == f = Requested \/ (steps > 0 /\ ~off /\ f = "blend")
\* What the animator knows of the request it has seen.
FrameShape ==
    /\ ~changed => target = Requested /\ (steps > 0 => ~off)
    /\ run = "write" /\ ~changed => Heading(frame)
    /\ cached \in {"nothing", shown}

RingIInv == RingTypes /\ IndicatorIsRight /\ RingIsCurrent /\ MisleadingHasACause /\ LinkShape /\ FrameShape

-----------------------------------------------------------------------------
(* The buttons.                                                            *)

Actions == {"tap", "repeat", "hold-start", "hold-end"}
Happened == [key : Watch!Keys, value : {0, 1, 2}, press : Nat, long : BOOLEAN]
Marks == [key : {"other"}, value : {1}, press : Nat, long : BOOLEAN]
         \cup [key : {"end"}, value : {"eof", "error"}, press : Nat, long : BOOLEAN]
Timers == [key : Watch!Keys, gen : Nat, press : Nat]

PressTypes ==
    /\ run_ \in {"select", "sending", "stopped", "eof", "error"} /\ old \subseteq 1..presses
    /\ down \in [Watch!Keys -> 0..MaxPresses] /\ presses \in 0..MaxPresses
    /\ stream \in Seq(Happened \cup Marks)
    /\ out \in Seq([key : Watch!Keys, press : 1..presses, action : Actions])
    /\ after \in Timers \cup {Watch!NoTimer}
    /\ pressed \in [Watch!Keys -> [press : 0..presses, hold : BOOLEAN]]
    /\ gen \in [Watch!Keys -> Nat] /\ armed \subseteq Timers /\ due \in Seq(Timers)
    /\ log \in [Watch!Ids -> Seq(Actions)]
    /\ run_ = "select" => out = <<>> /\ after = Watch!NoTimer

\* A key goes down and up in turn, so a press is read when the recognizer has
\* the key up: between two presses in the stream, before one and after one there
\* is a release.
Spots == DOMAIN stream
PressAt(i, k) == stream[i].key = k /\ stream[i].value = 1
ReleaseAt(i, k) == stream[i].key = k /\ stream[i].value = 0
Lifted(k) == pressed[k] = Watch!Up
KeyShape ==
    \A k \in Watch!Keys :
        /\ pressed[k].press = 0 => Lifted(k)
        /\ \A i, j \in Spots : PressAt(i, k) /\ PressAt(j, k) /\ i < j =>
               \E m \in Spots : i < m /\ m < j /\ ReleaseAt(m, k)
        /\ \A i \in Spots : PressAt(i, k) => Lifted(k) \/ \E m \in Spots : m < i /\ ReleaseAt(m, k)
        /\ down[k] = 0 =>
            /\ \A i \in Spots : PressAt(i, k) => \E m \in Spots : i < m /\ ReleaseAt(m, k)
            /\ Lifted(k) \/ \E m \in Spots : ReleaseAt(m, k)

\* Nothing has been said of a press that was not read.
Unread(p) == log[p] = <<>> /\ (\A i \in DOMAIN out : out[i].press # p) /\ \A k \in Watch!Keys : pressed[k].press # p
PressShape ==
    /\ \A p \in Watch!Ids : p > presses => Unread(p)
    /\ \A k \in Watch!Keys, i \in Spots : PressAt(i, k) => stream[i].press \in 1..presses /\ Unread(stream[i].press)
    /\ \A k, l \in Watch!Keys, i, j \in Spots :
        PressAt(i, k) /\ PressAt(j, l) /\ stream[i].press = stream[j].press => i = j
    /\ \A k, l \in Watch!Keys : pressed[k].press = pressed[l].press /\ pressed[k].press # 0 => k = l

\* A timer is obsolete or the only one of the press under way, be it running,
\* in its channel or about to be started again.
Current(t) == t.gen = gen[t.key]
Mine(t) == t.gen \in 1..gen[t.key] /\ t.press \in 1..presses /\ (Current(t) => t.press = pressed[t.key].press)
TimerShape ==
    /\ \A t \in armed : Mine(t) /\ Current(t) /\ \A u \in armed : u.key = t.key => u = t
    /\ \A i \in DOMAIN due : Mine(due[i])
    /\ \A i, j \in DOMAIN due : Current(due[i]) /\ Current(due[j]) /\ due[i].key = due[j].key => i = j
    /\ \A i \in DOMAIN due, t \in armed : Current(due[i]) => due[i].key # t.key
    /\ after # Watch!NoTimer =>
        /\ after.press = pressed[after.key].press /\ after.press # 0
        /\ after.gen # 0 =>
            /\ Current(after) /\ after.key \in Repeating
            /\ \A t \in armed : t.key # after.key
            /\ \A i \in DOMAIN due : Current(due[i]) => due[i].key # after.key

\* What has been said of a press and what is about to be.
Volume(s) == s # <<>> /\ s[1] = "tap" /\ \A i \in 2..Len(s) : s[i] = "repeat"
Says1(p, s) == Len(out) = 1 /\ out[1].press = p /\ out[1].action = s
SaysHold(p) == Len(out) = 2 /\ out[1].press = p /\ out[2].press = p
               /\ out[1].action = "hold-start" /\ out[2].action = "hold-end"
OutShape ==
    out = <<>> \/
    \E p \in 1..presses :
        \/ Says1(p, "tap") /\ log[p] \in {<<>>, <<"hold-start">>}
        \/ Says1(p, "repeat") /\ Volume(log[p])
        \/ Says1(p, "hold-start") /\ log[p] = <<>>
        \/ Says1(p, "hold-end") /\ log[p] = <<"hold-start">>
        \/ SaysHold(p) /\ log[p] = <<>>
HoldSaid(k) ==
    LET p == pressed[k].press
    IN  p # 0 => IF pressed[k].hold
                 THEN \/ log[p] = <<"hold-start">> /\ \A i \in DOMAIN out : out[i].press # p
                      \/ log[p] = <<>> /\ Says1(p, "hold-start")
                 ELSE log[p] = <<>> /\ \A i \in DOMAIN out : out[i].press # p
VolumeSaid(k) ==
    LET p == pressed[k].press
    IN  p # 0 => Volume(log[p]) \/ (log[p] = <<>> /\ Says1(p, "tap"))
GestureShape ==
    /\ OutShape /\ Watch!GestureIsWellFormed
    /\ \A k \in Holdable : HoldSaid(k)
    /\ \A k \in Repeating : VolumeSaid(k)

PressIInv == PressTypes /\ KeyShape /\ PressShape /\ TimerShape /\ GestureShape

-----------------------------------------------------------------------------
(* The ring: each step keeps each part of the invariant.                   *)

\* The ring starts well: as dark as the animator thinks, with the boot
\* animation requested and not yet seen.
LEMMA RingStarts == Init => RingIInv
<1> SUFFICES ASSUME Init PROVE RingIInv
  OBVIOUS
<1> USE PanelAssumption DEF Init
<1>1. RingTypes
  BY DEF RingTypes, TypeOK, States, Triggers
<1>2. IndicatorIsRight /\ RingIsCurrent /\ MisleadingHasACause
  BY DEF IndicatorIsRight, RingIsCurrent, MisleadingHasACause
<1>3. LinkShape /\ FrameShape
  BY DEF LinkShape, Connected, FrameShape
<1> QED
  BY <1>1, <1>2, <1>3 DEF RingIInv

\* The steps of the world and of the goroutines that command the ring.
Commands ==
    \/ TimerFires \/ BootEnds \/ Joins \/ SetConnected \/ Leaves \/ SetDisconnected
    \/ \E t \in Triggers : Trigger(t) \/ ShowListening(t)
    \/ \E i \in Idlers : TurnEnds(i) \/ OnIdleAsks(i) \/ OnIdle(i)
Animates == Render \/ WriteFrame \/ WriteFails \/ Tick

\* A command is seen as a change, or there was none.
LEMMA CommandIsSeen ==
    ASSUME Commands
    PROVE  /\ changed' \/ UNCHANGED request
           /\ UNCHANGED renderer
  BY DEF Commands, TimerFires, BootEnds, Joins, SetConnected, Leaves, SetDisconnected, Trigger, ShowListening,
         TurnEnds, OnIdleAsks, OnIdle, Says, Set, Off, request, renderer, bounds, turns, link

\* Commands leave everything in its range.
LEMMA CommandTypes ==
    ASSUME RingTypes, Commands
    PROVE  RingTypes'
<1> USE DEF RingTypes, TypeOK, States, request, renderer, bounds, turns, link, Says, Set, Off
<1>1. CASE TimerFires \/ BootEnds
  BY <1>1 DEF TimerFires, BootEnds
<1>2. CASE Joins \/ SetConnected
  BY <1>2 DEF Joins, SetConnected
<1>3. CASE Leaves \/ SetDisconnected
  BY <1>3 DEF Leaves, SetDisconnected
<1>4. ASSUME NEW t \in Triggers, Trigger(t) \/ ShowListening(t) PROVE RingTypes'
  BY <1>4 DEF Trigger, ShowListening
<1>5. ASSUME NEW i \in Idlers, TurnEnds(i) \/ OnIdleAsks(i) \/ OnIdle(i) PROVE RingTypes'
  BY <1>5 DEF TurnEnds, OnIdleAsks, OnIdle
<1> QED
  BY <1>1, <1>2, <1>3, <1>4, <1>5 DEF Commands

\* The animation does not notice a command before its next round.
LEMMA CommandFrames ==
    ASSUME RingIsCurrent, FrameShape, Commands
    PROVE  RingIsCurrent' /\ FrameShape'
  BY CommandIsSeen DEF RingIsCurrent, FrameShape, Heading, Requested, request, renderer

\* What the indicator says it says for the connection, and what misleads after
\* a command has its cause.
LEMMA CommandIsRight ==
    ASSUME RingTypes, IndicatorIsRight, MisleadingHasACause, LinkShape, Commands
    PROVE  IndicatorIsRight' /\ MisleadingHasACause' /\ LinkShape'
<1> USE DEF RingTypes, IndicatorIsRight, MisleadingHasACause, LinkShape, Connected, Requested,
            request, renderer, bounds, turns, link, Says, Set, Off
<1>1. CASE TimerFires
  BY <1>1 DEF TimerFires
<1>2. CASE BootEnds
  BY <1>2 DEF BootEnds
<1>3. CASE Joins
  BY <1>3 DEF Joins
<1>4. CASE SetConnected
  BY <1>4 DEF SetConnected
<1>5. CASE Leaves
  BY <1>5 DEF Leaves
<1>6. CASE SetDisconnected
  BY <1>6 DEF SetDisconnected
<1>7. ASSUME NEW t \in Triggers, Trigger(t) PROVE IndicatorIsRight' /\ MisleadingHasACause' /\ LinkShape'
  BY <1>7 DEF Trigger
<1>8. ASSUME NEW t \in Triggers, ShowListening(t) PROVE IndicatorIsRight' /\ MisleadingHasACause' /\ LinkShape'
  BY <1>8 DEF ShowListening
<1>9. ASSUME NEW i \in Idlers, TurnEnds(i) PROVE IndicatorIsRight' /\ MisleadingHasACause' /\ LinkShape'
  BY <1>9 DEF TurnEnds
<1>10. ASSUME NEW i \in Idlers, OnIdleAsks(i) PROVE IndicatorIsRight' /\ MisleadingHasACause' /\ LinkShape'
  <2>1. \A j \in Idlers : idler'[j] # "none" \/ idler[j] = "none" \/ ~Connected \/ booting
    BY <1>10 DEF OnIdleAsks
  <2>2. UNCHANGED <<link, active, trigger, request, stray>>
    BY <1>10 DEF OnIdleAsks
  <2>3. IndicatorIsRight' /\ LinkShape'
    BY <2>2
  <2>4. CASE \E j \in Idlers : idler[j] # "none" /\ idler'[j] = "none"
    <3>1. session \in {"down", "leaving"} \/ booting
      BY <2>1, <2>4 DEF TypeOK
    <3> QED
      BY <2>2, <2>3, <3>1
  <2>5. CASE \A j \in Idlers : idler[j] # "none" => idler'[j] # "none"
    BY <2>2, <2>3, <2>5
  <2> QED
    BY <2>3, <2>4, <2>5
<1>11. ASSUME NEW i \in Idlers, OnIdle(i) PROVE IndicatorIsRight' /\ MisleadingHasACause' /\ LinkShape'
  BY <1>11 DEF OnIdle
<1> QED
  BY <1>1, <1>2, <1>3, <1>4, <1>5, <1>6, <1>7, <1>8, <1>9, <1>10, <1>11 DEF Commands

\* The animator changes nothing but what it has rendered, written and seen.
LEMMA AnimatorMinds ==
    ASSUME Animates
    PROVE  UNCHANGED <<link, turns, state, off, stray>>
  BY DEF Animates, Render, WriteFrame, WriteFails, Tick, request, bounds

\* A round of the animator renders what was requested before it, or a step of
\* the way there, and an equal frame that is not written is on the ring already.
LEMMA AnimatorFrames ==
    ASSUME RingTypes, RingIsCurrent, FrameShape, Animates
    PROVE  RingTypes' /\ RingIsCurrent' /\ FrameShape'
<1> USE PanelAssumption DEF Requested, Heading
<1>0. UNCHANGED <<link, turns, state, off, stray>>
  BY AnimatorMinds
<1>1. CASE Render
  <2> DEFINE left == IF changed THEN (IF off THEN 0 ELSE TransitionFrames) ELSE steps
  <2>1. /\ run = "render" /\ run' = "write" /\ changed' = FALSE
        /\ target' = (IF changed THEN Requested ELSE target)
        /\ frame' = (IF left > 1 THEN "blend" ELSE IF left = 0 /\ ~off THEN state ELSE target')
        /\ steps' = (IF left > 0 THEN left - 1 ELSE 0)
        /\ UNCHANGED <<shown, cached>>
    BY <1>1 DEF Render
  <2>2. left \in 0..TransitionFrames /\ (left > 0 => ~off)
    BY DEF RingTypes, TypeOK, FrameShape
  <2> HIDE DEF left
  <2>3. target' = Requested'
    BY <1>0, <2>1 DEF FrameShape
  <2>4. steps' \in 0..TransitionFrames /\ (steps' > 0 => ~off' /\ frame' = "blend")
        /\ (steps' = 0 => frame' = Requested')
    BY <1>0, <2>1, <2>2, <2>3
  <2>5. FrameShape' /\ RingIsCurrent'
    <3>1. cached' \in {"nothing", shown'} /\ run' # "tick"
      BY <2>1 DEF FrameShape
    <3>2. Heading(frame)'
      BY <2>4
    <3> QED
      BY <2>3, <2>4, <3>1, <3>2 DEF FrameShape, RingIsCurrent
  <2>6. RingTypes'
    BY <1>0, <2>1, <2>3, <2>4 DEF RingTypes, TypeOK, link, turns, States
  <2> QED
    BY <2>5, <2>6
<1>2. CASE WriteFrame
  <2>1. shown' = frame /\ cached' \in {"nothing", shown'} /\ run' = "tick" /\ UNCHANGED <<request, target, steps, frame>>
    BY <1>2 DEF WriteFrame, FrameShape, RingTypes, TypeOK, States
  <2>2. cached' \in {cached, frame}
    BY <1>2 DEF WriteFrame
  <2> QED
    BY <1>0, <1>2, <2>1, <2>2 DEF WriteFrame, FrameShape, RingIsCurrent, RingTypes, TypeOK, request, link, turns, States
<1>3. CASE WriteFails \/ Tick
  BY <1>0, <1>3 DEF WriteFails, Tick, FrameShape, RingIsCurrent, RingTypes, TypeOK, request, link, turns
<1> QED
  BY <1>1, <1>2, <1>3 DEF Animates

\* RingIInv is inductive.
LEMMA RingContinues == RingIInv /\ [Next]_vars => RingIInv'
<1> SUFFICES ASSUME RingIInv, [Next]_vars PROVE RingIInv'
  OBVIOUS
<1> USE DEF RingIInv
<1>1. CASE Commands
  BY <1>1, CommandTypes, CommandFrames, CommandIsRight
<1>2. CASE Animates
  <2>1. IndicatorIsRight' /\ MisleadingHasACause' /\ LinkShape'
    BY <1>2, AnimatorMinds DEF IndicatorIsRight, MisleadingHasACause, LinkShape, Requested, Connected, link, turns
  <2> QED
    BY <1>2, <2>1, AnimatorFrames
<1>3. CASE UNCHANGED vars
  BY <1>3 DEF vars, link, turns, request, renderer, bounds, RingTypes, TypeOK, IndicatorIsRight, RingIsCurrent,
              MisleadingHasACause, LinkShape, FrameShape, Heading, Requested, Connected
<1> QED
  BY <1>1, <1>2, <1>3 DEF Next, Commands, Animates

\* The indicator's last command is the one for the connection, the animator
\* shows the last command when its round is over, and outside of turns the ring
\* misleads for known causes only: however the boot timer, sessions, turns,
\* buttons and idle calls interleave.
THEOREM RingSafe == Spec => []RingInvariant
<1>1. RingIInv => RingInvariant
  BY DEF RingIInv, RingTypes, RingInvariant
<1> QED
  BY RingStarts, RingContinues, <1>1, PTL DEF Spec
-----------------------------------------------------------------------------
(* The buttons: lemmas on the sequences the watcher works with.            *)

\* What is left of a sequence is what came after its first element.
LEMMA TailIsRest ==
    ASSUME NEW S, NEW s \in Seq(S), s # <<>>
    PROVE  /\ Head(s) = s[1] /\ s[1] \in S /\ Tail(s) \in Seq(S) /\ Len(Tail(s)) = Len(s) - 1
           /\ DOMAIN Tail(s) = 1..(Len(s) - 1) /\ DOMAIN s = 1..Len(s)
           /\ \A i \in 1..(Len(s) - 1) : Tail(s)[i] = s[i + 1]
  OBVIOUS

\* A sequence and what is appended to it.
LEMMA AppendIsLast ==
    ASSUME NEW S, NEW s \in Seq(S), NEW e \in S
    PROVE  /\ Append(s, e) \in Seq(S) /\ Len(Append(s, e)) = Len(s) + 1 /\ Len(s) \in Nat
           /\ DOMAIN Append(s, e) = 1..(Len(s) + 1) /\ DOMAIN s = 1..Len(s)
           /\ \A i \in 1..Len(s) : Append(s, e)[i] = s[i]
           /\ Append(s, e)[Len(s) + 1] = e
  OBVIOUS

\* A sequence of elements of a set is one of any larger set.
LEMMA SeqIsMonotonic ==
    ASSUME NEW A, NEW B, A \subseteq B, NEW s \in Seq(A)
    PROVE  s \in Seq(B)
  OBVIOUS

\* RemoveAt leaves the other elements in their order.
Before(i, j) == IF j < i THEN j ELSE j + 1
LEMMA RemoveAtLeaves ==
    ASSUME NEW S, NEW s \in Seq(S), NEW i \in DOMAIN s
    PROVE  LET r == Watch!RemoveAt(s, i)
           IN  /\ r \in Seq(S) /\ DOMAIN r = 1..(Len(s) - 1)
               /\ \A j \in DOMAIN r : Before(i, j) \in DOMAIN s \ {i} /\ r[j] = s[Before(i, j)]
<1> DEFINE a == SubSeq(s, 1, i - 1)
           b == SubSeq(s, i + 1, Len(s))
<1>1. i \in 1..Len(s) /\ Len(s) \in Nat
  OBVIOUS
<1>2. a \in Seq(S) /\ Len(a) = i - 1 /\ \A j \in 1..(i - 1) : a[j] = s[j]
  BY <1>1
<1>3. b \in Seq(S) /\ Len(b) = Len(s) - i /\ \A j \in 1..(Len(s) - i) : b[j] = s[j + i]
  BY <1>1
<1> HIDE DEF a, b
<1>4. a \o b \in Seq(S) /\ Len(a \o b) = Len(s) - 1 /\ DOMAIN (a \o b) = 1..(Len(s) - 1)
  BY <1>1, <1>2, <1>3
<1>5. \A j \in 1..(Len(s) - 1) : (a \o b)[j] = s[Before(i, j)] /\ Before(i, j) \in DOMAIN s \ {i}
  <2> TAKE j \in 1..(Len(s) - 1)
  <2>1. CASE j < i
    <3>1. j \in 1..(i - 1)
      BY <1>1, <2>1
    <3> QED
      BY <1>1, <1>2, <1>3, <2>1, <3>1 DEF Before
  <2>2. CASE ~(j < i)
    <3>1. j - (i - 1) \in 1..(Len(s) - i) /\ (j - (i - 1)) + i = j + 1
      BY <1>1, <2>2
    <3>2. (a \o b)[j] = b[j - (i - 1)]
      <4>1. (a \o b)[j] = b[j - Len(a)]
        BY <1>1, <1>2, <1>3, <2>2, ConcatProperties, SMTT(30)
      <4> QED
        BY <1>2, <4>1
    <3>3. b[j - (i - 1)] = s[j + 1]
      BY <1>3, <3>1
    <3> QED
      BY <1>1, <2>2, <3>2, <3>3 DEF Before
  <2> QED
    BY <2>1, <2>2
<1> QED
  BY <1>4, <1>5 DEF a, b, Watch!RemoveAt

\* What is said of a press grows from one gesture to the next.
LEMMA GesturesGrow ==
    /\ \A a : Append(<<>>, a) = <<a>>
    /\ \A a, b \in Actions : Append(<<a>>, b) = <<a, b>>
    /\ Volume(<<"tap">>)
    /\ \A s \in Seq(Actions) : Volume(s) => Volume(Append(s, "repeat"))
<1>1. \A a : Append(<<>>, a) = <<a>>
  OBVIOUS
<1>2. \A a, b \in Actions : Append(<<a>>, b) = <<a, b>>
  <2> TAKE a, b \in Actions
  <2>1. <<a>> \in Seq(Actions) /\ Len(<<a>>) = 1 /\ <<a>>[1] = a
    OBVIOUS
  <2>2. <<a, b>> \in Seq(Actions) /\ Len(<<a, b>>) = 2 /\ <<a, b>>[1] = a /\ <<a, b>>[2] = b
    OBVIOUS
  <2>3. Append(<<a>>, b) \in Seq(Actions) /\ Len(Append(<<a>>, b)) = 2
        /\ Append(<<a>>, b)[1] = a /\ Append(<<a>>, b)[2] = b
    BY <2>1, AppendIsLast
  <2>4. \A i \in 1..2 : Append(<<a>>, b)[i] = <<a, b>>[i]
    BY <2>2, <2>3
  <2> QED
    BY <2>2, <2>3, <2>4, SeqEqual
<1>3. Volume(<<"tap">>)
  BY DEF Volume
<1>4. ASSUME NEW s \in Seq(Actions), Volume(s) PROVE Volume(Append(s, "repeat"))
  BY <1>4 DEF Volume, Actions
<1> QED
  BY <1>1, <1>2, <1>3, <1>4

\* Keys, watched and not, are told apart.
LEMMA KeysApart ==
    /\ Watch!Keys = Holdable \cup Repeating /\ Holdable \cap Repeating = {}
    /\ \A k \in Watch!Keys : k \notin {"none", "end", "other"}
    /\ \A t \in Timers : t # Watch!NoTimer
    /\ Watch!NoTimer \notin Timers
<1>1. \A k \in Watch!Keys : k \notin {"none", "end", "other"}
  BY PanelAssumption
<1>2. Watch!NoTimer.key = "none"
  BY DEF Watch!NoTimer
<1>3. \A t \in Timers : t.key \in Watch!Keys
  BY DEF Timers
<1> QED
  BY <1>1, <1>2, <1>3, PanelAssumption DEF Watch!Keys
-----------------------------------------------------------------------------
(* The buttons: what each step comes to.                                   *)

\* Whatever is running for a key becomes obsolete.
Moves(k) == gen' = [gen EXCEPT ![k] = @ + 1] /\ armed' = {t \in armed : t.key # k}
Rests == UNCHANGED <<gen, armed>>
Begins(k, p) ==
    /\ pressed' = [pressed EXCEPT ![k] = [press |-> p, hold |-> FALSE]] /\ Rests
    /\ out' = (IF k \in Holdable THEN <<>> ELSE <<Watch!Does(k, p, "tap")>>)
    /\ after' = [key |-> k, gen |-> 0, press |-> p]
Ends(k) ==
    LET Is(action) == Watch!Does(k, pressed[k].press, action)
    IN  /\ pressed' = [pressed EXCEPT ![k] = Watch!Up] /\ Moves(k) /\ after' = Watch!NoTimer
        /\ \/ out' = <<>> /\ (k \in Repeating \/ Lifted(k))
           \/ k \in Holdable /\ ~Lifted(k) /\ out' = <<Is("tap")>>
           \/ k \in Holdable /\ ~Lifted(k) /\ pressed[k].hold /\ out' = <<Is("hold-end")>>
           \/ k \in Holdable /\ ~Lifted(k) /\ ~pressed[k].hold /\ out' = <<Is("hold-start"), Is("hold-end")>>
Goes(k) ==
    /\ UNCHANGED pressed /\ after' = Watch!NoTimer
    /\ \/ k \in Holdable /\ Rests /\ out' = <<>>
       \/ k \in Repeating /\ Moves(k) /\ Lifted(k) /\ out' = <<>>
       \/ /\ k \in Repeating /\ Moves(k) /\ ~Lifted(k)
          /\ out' = <<Watch!Does(k, pressed[k].press, "repeat")>>

\* An event of the stream is one of a key that goes down, comes up or is held,
\* or of nobody's concern.
LEMMA EventOutcome ==
    ASSUME PressTypes, Watch!handleEvent
    PROVE  LET e == Head(stream)
           IN  /\ stream # <<>> /\ stream' = Tail(stream) /\ e = stream[1] /\ out = <<>>
               /\ after = Watch!NoTimer /\ UNCHANGED <<down, old, presses, due, log>>
               /\ \/ e.key \notin Watch!Keys /\ UNCHANGED <<run_, out, after, pressed, gen, armed>>
                  \/ /\ e \in Happened /\ run_' = "sending"
                     /\ \/ e.value = 1 /\ Begins(e.key, e.press)
                        \/ e.value = 0 /\ Ends(e.key)
                        \/ e.value = 2 /\ Goes(e.key)
<1> DEFINE e == Head(stream)
           k == e.key
<1>1. /\ stream # <<>> /\ stream' = Tail(stream) /\ out = <<>> /\ after = Watch!NoTimer
      /\ UNCHANGED <<down, old, presses, due, log>>
  BY DEF PressTypes, Watch!handleEvent, Watch!input
<1>2. e = stream[1] /\ e \in Happened \cup Marks
  BY <1>1, TailIsRest DEF PressTypes
<1>3. CASE k \notin Watch!Keys
  BY <1>1, <1>2, <1>3 DEF Watch!handleEvent
<1>4. CASE k \in Watch!Keys
  <2>1. e \in Happened
    BY <1>2, <1>4, KeysApart DEF Marks
  <2> HIDE DEF e
  <2>2. /\ IF Watch!Interrupts(e) THEN gen' = [gen EXCEPT ![k] = @ + 1] /\ armed' = Watch!Stopped(k) ELSE Rests
        /\ pressed' = [pressed EXCEPT ![k] = Watch!Feed(e).state] /\ out' = Watch!Feed(e).out /\ run_' = "sending"
        /\ after' = IF e.value = 1 THEN [key |-> k, gen |-> 0, press |-> e.press] ELSE Watch!NoTimer
    BY <1>4 DEF Watch!handleEvent, Watch!Sends, e, Rests
  <2>3. Watch!Stopped(k) = {t \in armed : t.key # k}
    BY DEF Watch!Stopped
  <2>4. e.value \in {0, 1, 2} /\ k \in Holdable \cup Repeating /\ ~(k \in Holdable /\ k \in Repeating)
    BY <1>4, <2>1, KeysApart DEF Happened
  <2>5. CASE e.value = 1
    <3>1. ~Watch!Interrupts(e)
      BY <2>5 DEF Watch!Interrupts
    <3> DEFINE fresh == [press |-> e.press, hold |-> FALSE]
    <3>2. e.value # 0 /\ e.value # 2
      BY <2>5
    <3>3. ASSUME k \in Holdable PROVE Begins(k, e.press)
      <4>1. Watch!Feed(e) = [state |-> fresh, out |-> <<>>]
        BY <2>5, <3>2, <3>3, Zenon DEF Watch!Feed, Watch!feedTapHold
      <4> HIDE DEF fresh
      <4>2. Watch!Feed(e).state = fresh /\ Watch!Feed(e).out = <<>>
        BY <4>1
      <4> QED
        BY <2>2, <2>5, <3>1, <3>3, <4>2 DEF Begins, Rests, fresh
    <3>4. ASSUME k \in Repeating PROVE Begins(k, e.press)
      <4>1. Watch!Feed(e) = [state |-> fresh, out |-> <<Watch!Does(k, e.press, "tap")>>]
        BY <2>4, <2>5, <3>2, <3>4, Zenon DEF Watch!Feed, Watch!feedVolume
      <4> HIDE DEF fresh
      <4>2. Watch!Feed(e).state = fresh /\ Watch!Feed(e).out = <<Watch!Does(k, e.press, "tap")>>
        BY <4>1
      <4> QED
        BY <2>2, <2>4, <2>5, <3>1, <3>4, <4>2 DEF Begins, Rests, fresh
    <3>5. Begins(k, e.press)
      BY <2>4, <3>3, <3>4
    <3> QED
      BY <1>1, <1>2, <2>1, <2>2, <2>5, <3>5 DEF e
  <2>6. CASE e.value = 0
    <3>1. Watch!Interrupts(e)
      BY <2>6 DEF Watch!Interrupts
    <3>2. Moves(k) /\ after' = Watch!NoTimer
      BY <2>2, <2>3, <2>6, <3>1 DEF Moves
    <3>3. CASE k \in Repeating
      <4>1. Watch!Feed(e).state = Watch!Up /\ Watch!Feed(e).out = <<>>
        BY <2>4, <2>6, <3>3 DEF Watch!Feed, Watch!feedVolume
      <4>2. Ends(k)
        BY <2>2, <3>2, <3>3, <4>1 DEF Ends
      <4> QED
        BY <1>1, <1>2, <2>1, <2>2, <2>6, <4>2 DEF e
    <3>4. CASE k \in Holdable /\ Lifted(k)
      <4>1. Watch!Feed(e).state = Watch!Up /\ Watch!Feed(e).out = <<>>
        BY <2>4, <2>6, <3>4 DEF Watch!Feed, Watch!feedTapHold, Lifted
      <4>2. Ends(k)
        BY <2>2, <3>2, <3>4, <4>1 DEF Ends
      <4> QED
        BY <1>1, <1>2, <2>1, <2>2, <2>6, <4>2 DEF e
    <3>5. CASE k \in Holdable /\ ~Lifted(k)
      <4> DEFINE Is(action) == Watch!Does(k, pressed[k].press, action)
      <4>1. /\ Watch!Feed(e).state = Watch!Up
            /\ Watch!Feed(e).out = IF ~e.long THEN <<Is("tap")>>
                                   ELSE IF pressed[k].hold THEN <<Is("hold-end")>>
                                   ELSE <<Is("hold-start"), Is("hold-end")>>
        BY <2>6, <3>5 DEF Watch!Feed, Watch!feedTapHold, Lifted
      <4>2. Ends(k)
        BY <2>2, <3>2, <3>5, <4>1 DEF Ends
      <4> QED
        BY <1>1, <1>2, <2>1, <2>2, <2>6, <4>2 DEF e
    <3> QED
      BY <2>4, <3>3, <3>4, <3>5
  <2>7. CASE e.value = 2
    <3>1. Watch!Interrupts(e) <=> k \in Repeating
      BY <2>7 DEF Watch!Interrupts
    <3>2. Watch!Feed(e).state = pressed[k]
          /\ Watch!Feed(e).out = IF k \in Holdable \/ Lifted(k) THEN <<>>
                                 ELSE <<Watch!Does(k, pressed[k].press, "repeat")>>
      BY <2>4, <2>7 DEF Watch!Feed, Watch!feedTapHold, Watch!feedVolume, Lifted
    <3>3. UNCHANGED pressed /\ after' = Watch!NoTimer
      BY <1>4, <2>2, <2>7, <3>2 DEF PressTypes
    <3>4. Goes(k)
      BY <2>2, <2>3, <2>4, <3>1, <3>2, <3>3 DEF Goes, Moves, Rests
    <3> QED
      BY <1>1, <1>2, <2>1, <2>2, <2>7, <3>4 DEF e
  <2> QED
    BY <2>4, <2>5, <2>6, <2>7
<1> QED
  BY <1>3, <1>4

\* A hold that begins is said unless it was before; its timer is spent.
HoldBegins(i) ==
    LET k == due[i].key
    IN  /\ k \in Holdable /\ Current(due[i]) /\ due' = Watch!RemoveAt(due, i) /\ after' = Watch!NoTimer
        /\ pressed' = [pressed EXCEPT ![k].hold = TRUE]
        /\ out' = IF pressed[k].hold THEN <<>> ELSE <<Watch!Does(k, pressed[k].press, "hold-start")>>
LEMMA HoldOutcome ==
    ASSUME PressTypes, TimerShape, NEW i \in DOMAIN due, Watch!handleHold(i)
    PROVE  /\ HoldBegins(i) /\ ~Lifted(due[i].key) /\ run_' = "sending" /\ out = <<>> /\ after = Watch!NoTimer
           /\ UNCHANGED <<down, old, presses, stream, gen, armed, log>>
<1> DEFINE k == due[i].key
<1>1. /\ k \in Holdable /\ Current(due[i]) /\ due' = Watch!RemoveAt(due, i) /\ after' = Watch!NoTimer
      /\ run_' = "sending" /\ out = <<>> /\ after = Watch!NoTimer /\ UNCHANGED <<down, old, presses, stream, gen, armed, log>>
      /\ pressed' = [pressed EXCEPT ![k].hold = @ \/ pressed[k] # Watch!Up]
      /\ out' = IF pressed[k] = Watch!Up \/ pressed[k].hold THEN <<>>
                ELSE <<Watch!Does(k, pressed[k].press, "hold-start")>>
  BY DEF Watch!handleHold, Watch!Sends, Watch!Taken, Watch!input, Current, PressTypes
<1>2. pressed[k].press # 0
  BY <1>1 DEF TimerShape, Mine, PressTypes
<1>3. ~Lifted(k)
  BY <1>2 DEF Lifted, Watch!Up
<1>4. (pressed[k].hold \/ pressed[k] # Watch!Up) = TRUE
  BY <1>3, Zenon DEF Lifted
<1>5. pressed' = [pressed EXCEPT ![k].hold = TRUE]
  <2> DEFINE h == pressed[k].hold \/ pressed[k] # Watch!Up
  <2>1. pressed' = [pressed EXCEPT ![k].hold = h]
    BY <1>1, Zenon
  <2> HIDE DEF h
  <2> QED
    BY <1>4, <2>1 DEF h
<1> QED
  BY <1>1, <1>3, <1>5 DEF HoldBegins, Lifted

\* A repeat is said of the press under way and starts its timer again.
RepeatGoesOn(i) ==
    LET k == due[i].key
    IN  /\ k \in Repeating /\ Current(due[i]) /\ due' = Watch!RemoveAt(due, i) /\ after' = due[i]
        /\ out' = <<Watch!Does(k, pressed[k].press, "repeat")>>
LEMMA RepeatOutcome ==
    ASSUME PressTypes, TimerShape, NEW i \in DOMAIN due, Watch!handleRepeat(i)
    PROVE  /\ RepeatGoesOn(i) /\ ~Lifted(due[i].key) /\ run_' = "sending" /\ out = <<>> /\ after = Watch!NoTimer
           /\ UNCHANGED <<down, old, presses, stream, pressed, gen, armed, log>>
<1> DEFINE k == due[i].key
<1>1. /\ k \in Repeating /\ Current(due[i]) /\ due' = Watch!RemoveAt(due, i)
      /\ run_' = "sending" /\ out = <<>> /\ after = Watch!NoTimer
      /\ UNCHANGED <<down, old, presses, stream, pressed, gen, armed, log>>
      /\ IF pressed[k] = Watch!Up THEN out' = <<>> /\ after' = Watch!NoTimer
         ELSE out' = <<Watch!Does(k, pressed[k].press, "repeat")>> /\ after' = due[i]
  BY DEF Watch!handleRepeat, Watch!Sends, Watch!Taken, Watch!input, Current, PressTypes
<1>2. pressed[k].press # 0
  BY <1>1 DEF TimerShape, Mine, PressTypes
<1>3. ~Lifted(k)
  BY <1>2 DEF Lifted, Watch!Up
<1> QED
  BY <1>1, <1>3 DEF RepeatGoesOn, Lifted

\* What the keyboard adds to the stream: a key that was up goes down, a key comes
\* up, or the event says nothing of a press.
Types(e) ==
    /\ e \in Happened \cup Marks /\ stream' = Append(stream, e)
    /\ \/ /\ e.key \in Watch!Keys /\ e.value = 1 /\ down[e.key] = 0
          /\ presses < MaxPresses /\ presses' = presses + 1 /\ e.press = presses'
          /\ down' = [down EXCEPT ![e.key] = presses']
       \/ /\ e.key \in Watch!Keys /\ e.value = 0 /\ UNCHANGED presses
          /\ down' = [down EXCEPT ![e.key] = 0]
       \/ /\ \A k \in Watch!Keys : e.key = k => e.value = 2
          /\ UNCHANGED down /\ presses' \in {presses, presses + 1} /\ presses' <= MaxPresses
Watches == UNCHANGED <<run_, out, after, pressed, gen, armed, due, log>>
LEMMA KeyboardOutcome ==
    ASSUME PressTypes, Watch!Keyboard
    PROVE  /\ Watches
           /\ \/ UNCHANGED <<down, stream, presses>> /\ old' \subseteq 1..presses'
              \/ UNCHANGED old /\ \E e \in Happened \cup Marks : Types(e)
<1> USE DEF Watch!Watcher, Watch!input, Watches
<1>1. ASSUME NEW k \in Watch!Keys, Watch!Press(k)
      PROVE  UNCHANGED old /\ Watches /\ \E e \in Happened \cup Marks : Types(e)
  <2> DEFINE e == Watch!Event(k, 1, presses + 1, FALSE)
  <2>1. e \in Happened /\ e.key = k /\ e.value = 1 /\ e.press = presses + 1
    BY <1>1 DEF Watch!Event, Happened, PressTypes
  <2>2. /\ stream' = Append(stream, e) /\ presses' = presses + 1 /\ down[k] = 0 /\ presses < MaxPresses
        /\ down' = [down EXCEPT ![k] = presses + 1] /\ UNCHANGED old /\ Watches
    BY <1>1 DEF Watch!Press
  <2> HIDE DEF e
  <2> QED
    BY <2>1, <2>2 DEF Types
<1>2. ASSUME NEW k \in Watch!Keys, Watch!Release(k)
      PROVE  UNCHANGED old /\ Watches /\ \E e \in Happened \cup Marks : Types(e)
  <2> DEFINE long == down[k] \in old
             e == Watch!Event(k, 0, down[k], long)
  <2>1. long \in BOOLEAN
    OBVIOUS
  <2>2. /\ stream' = Append(stream, e) /\ UNCHANGED presses
        /\ down' = [down EXCEPT ![k] = 0] /\ UNCHANGED old /\ Watches
    BY <1>2 DEF Watch!Release
  <2> HIDE DEF long
  <2>3. e \in Happened /\ e.key = k /\ e.value = 0
    BY <1>2, <2>1 DEF Watch!Event, Happened, PressTypes
  <2> HIDE DEF e
  <2> QED
    BY <2>2, <2>3 DEF Types
<1>3. ASSUME NEW k \in Watch!Keys, Watch!KernelRepeat(k)
      PROVE  UNCHANGED old /\ Watches /\ \E e \in Happened \cup Marks : Types(e)
  <2> DEFINE e == Watch!Event(k, 2, down[k], FALSE)
  <2>1. e \in Happened /\ e.key = k /\ e.value = 2
    BY <1>3 DEF Watch!Event, Happened, PressTypes
  <2>2. stream' = Append(stream, e) /\ UNCHANGED <<presses, down, old>> /\ Watches
    BY <1>3 DEF Watch!KernelRepeat
  <2> HIDE DEF e
  <2> QED
    BY <2>1, <2>2, SMTT(30) DEF Types, PressTypes
<1>4. ASSUME Watch!Foreign
      PROVE  UNCHANGED old /\ Watches /\ \E e \in Happened \cup Marks : Types(e)
  <2> DEFINE e == Watch!Event("other", 1, presses + 1, FALSE)
  <2>1. e \in Marks /\ e.key = "other"
    BY <1>4 DEF Watch!Event, Marks, PressTypes
  <2>2. stream' = Append(stream, e) /\ presses' = presses + 1 /\ presses < MaxPresses /\ UNCHANGED <<down, old>> /\ Watches
    BY <1>4 DEF Watch!Foreign
  <2> HIDE DEF e
  <2> QED
    BY <2>1, <2>2, KeysApart, PanelAssumption DEF Types, PressTypes
<1>5. ASSUME NEW how \in {"eof", "error"}, Watch!Unplug(how)
      PROVE  UNCHANGED old /\ Watches /\ \E e \in Happened \cup Marks : Types(e)
  <2> DEFINE e == Watch!Event("end", how, 0, FALSE)
  <2>1. e \in Marks /\ e.key = "end"
    BY <1>5 DEF Watch!Event, Marks
  <2>2. stream' = Append(stream, e) /\ UNCHANGED <<presses, down, old>> /\ Watches
    BY <1>5 DEF Watch!Unplug
  <2> HIDE DEF e
  <2> QED
    BY <2>1, <2>2, KeysApart DEF Types, PressTypes
<1>6. ASSUME NEW p \in Watch!Ids, Watch!Ages(p)
      PROVE  Watches /\ UNCHANGED <<down, stream, presses>> /\ old' \subseteq 1..presses'
  BY <1>6 DEF Watch!Ages, PressTypes
<1> QED
  BY <1>1, <1>2, <1>3, <1>4, <1>5, <1>6 DEF Watch!Keyboard

\* What the consumer has taken is said of its press.
LEMMA SendOutcome ==
    ASSUME PressTypes, Watch!sendPress
    PROVE  LET h == out[1]
           IN  /\ out # <<>> /\ out' = Tail(out) /\ h.press \in 1..presses /\ h.press \in Watch!Ids /\ h.action \in Actions
               /\ log' = [log EXCEPT ![h.press] = Append(log[h.press], h.action)]
               /\ UNCHANGED <<down, old, presses, stream, run_, after, pressed, gen, armed, due>> /\ run_ = "sending"
<1>1. /\ out # <<>> /\ out' = Tail(out) /\ run_ = "sending"
      /\ log' = [log EXCEPT ![Head(out).press] = Append(log[Head(out).press], Head(out).action)]
      /\ UNCHANGED <<down, old, presses, stream, run_, after, pressed, gen, armed, due>>
  BY DEF Watch!sendPress, Watch!input
<1>2. Head(out) = out[1] /\ out[1] \in [key : Watch!Keys, press : 1..presses, action : Actions]
  BY <1>1, TailIsRest DEF PressTypes
<1>3. 1..presses \subseteq Watch!Ids
  BY PanelAssumption DEF PressTypes, Watch!Ids
<1> QED
  BY <1>1, <1>2, <1>3

-----------------------------------------------------------------------------
(* The buttons: the keys and their events.                                 *)

\* An event at the end of the stream.
LEMMA StreamGrows ==
    ASSUME PressTypes, NEW e \in Happened \cup Marks, Types(e)
    PROVE  /\ Spots' = 1..(Len(stream) + 1) /\ Spots = 1..Len(stream) /\ Len(stream) \in Nat
           /\ \A i \in Spots : stream'[i] = stream[i]
           /\ stream'[Len(stream) + 1] = e
  BY AppendIsLast DEF PressTypes, Types, Spots

\* The event at its head is read.
LEMMA StreamShrinks ==
    ASSUME PressTypes, stream # <<>>, stream' = Tail(stream)
    PROVE  /\ Spots' = 1..(Len(stream) - 1) /\ Spots = 1..Len(stream) /\ Len(stream) \in Nat \ {0}
           /\ \A i \in Spots' : i + 1 \in Spots /\ stream'[i] = stream[i + 1]
           /\ \A i \in Spots : i = 1 \/ (i - 1 \in Spots' /\ stream'[i - 1] = stream[i])
  BY TailIsRest, SMTT(30) DEF PressTypes, Spots

\* The keyboard keeps its events in turn.
LEMMA KeysAreTyped ==
    ASSUME PressTypes, KeyShape, UNCHANGED pressed, NEW e \in Happened \cup Marks, Types(e)
    PROVE  KeyShape'
<1>0. PICK n : n = Len(stream) + 1
  OBVIOUS
<1>1. /\ Spots' = 1..n /\ Spots = 1..(n - 1) /\ n \in Nat /\ n \notin Spots /\ n \in Spots'
      /\ \A i \in Spots : i \in Spots' /\ i < n /\ stream'[i] = stream[i]
      /\ stream'[n] = e
  BY <1>0, StreamGrows
<1>2. \A i \in Spots' : i \in Spots \/ i = n
  BY <1>1
<1> SUFFICES ASSUME NEW k \in Watch!Keys
             PROVE  /\ pressed'[k].press = 0 => Lifted(k)'
                    /\ \A i, j \in Spots' : PressAt(i, k)' /\ PressAt(j, k)' /\ i < j =>
                           \E m \in Spots' : i < m /\ m < j /\ ReleaseAt(m, k)'
                    /\ \A i \in Spots' : PressAt(i, k)' => Lifted(k)' \/ \E m \in Spots' : m < i /\ ReleaseAt(m, k)'
                    /\ down'[k] = 0 =>
                        /\ \A i \in Spots' : PressAt(i, k)' => \E m \in Spots' : i < m /\ ReleaseAt(m, k)'
                        /\ Lifted(k)' \/ \E m \in Spots' : ReleaseAt(m, k)'
  BY DEF KeyShape
<1>3. /\ \A i \in Spots : (PressAt(i, k)' <=> PressAt(i, k)) /\ (ReleaseAt(i, k)' <=> ReleaseAt(i, k))
      /\ PressAt(n, k)' <=> e.key = k /\ e.value = 1
      /\ ReleaseAt(n, k)' <=> e.key = k /\ e.value = 0
      /\ Lifted(k)' <=> Lifted(k)
  BY <1>1 DEF PressAt, ReleaseAt, Lifted
<1>4. PressAt(n, k)' => down[k] = 0 /\ down'[k] # 0
  BY <1>3 DEF Types, PressTypes
<1>5. down'[k] = 0 => down[k] = 0 \/ ReleaseAt(n, k)'
  BY <1>3 DEF Types, PressTypes
<1>6. pressed'[k].press = 0 => Lifted(k)'
  BY <1>3 DEF KeyShape
<1>7. ASSUME NEW i \in Spots', NEW j \in Spots', PressAt(i, k)', PressAt(j, k)', i < j
      PROVE  \E m \in Spots' : i < m /\ m < j /\ ReleaseAt(m, k)'
  <2>1. i \in Spots
    BY <1>1, <1>2, <1>7
  <2>2. CASE j \in Spots
    BY <1>1, <1>3, <1>7, <2>1, <2>2 DEF KeyShape
  <2>3. CASE j = n
    BY <1>1, <1>3, <1>4, <1>7, <2>1, <2>3 DEF KeyShape
  <2> QED
    BY <1>2, <2>2, <2>3
<1>8. ASSUME NEW i \in Spots', PressAt(i, k)'
      PROVE  Lifted(k)' \/ \E m \in Spots' : m < i /\ ReleaseAt(m, k)'
  <2>1. CASE i \in Spots
    BY <1>1, <1>3, <1>8, <2>1 DEF KeyShape
  <2>2. CASE i = n
    BY <1>1, <1>3, <1>4, <1>8, <2>2 DEF KeyShape
  <2> QED
    BY <1>2, <2>1, <2>2
<1>9. ASSUME down'[k] = 0
      PROVE  /\ \A i \in Spots' : PressAt(i, k)' => \E m \in Spots' : i < m /\ ReleaseAt(m, k)'
             /\ Lifted(k)' \/ \E m \in Spots' : ReleaseAt(m, k)'
  <2>1. \A i \in Spots' : PressAt(i, k)' => i \in Spots /\ PressAt(i, k)
    BY <1>2, <1>3, <1>4, <1>9
  <2>2. CASE ReleaseAt(n, k)'
    BY <1>1, <2>1, <2>2
  <2>3. CASE down[k] = 0
    BY <1>1, <1>3, <2>1, <2>3 DEF KeyShape
  <2> QED
    BY <1>5, <1>9, <2>2, <2>3
<1> QED
  BY <1>6, <1>7, <1>8, <1>9

\* The recognizer follows the events in turn.
LEMMA KeysAreRead ==
    ASSUME PressTypes, KeyShape, PressShape, Watch!handleEvent
    PROVE  KeyShape'
<1> DEFINE e == Head(stream)
<1>1. /\ stream # <<>> /\ stream' = Tail(stream) /\ e = stream[1] /\ UNCHANGED down
      /\ \/ e.key \notin Watch!Keys /\ UNCHANGED pressed
         \/ /\ e \in Happened
            /\ \/ e.value = 1 /\ Begins(e.key, e.press)
               \/ e.value = 0 /\ Ends(e.key)
               \/ e.value = 2 /\ Goes(e.key)
  BY EventOutcome
<1> HIDE DEF e
<1>2. /\ 1 \in Spots /\ \A i \in Spots' : i \in Int /\ 0 < i /\ i + 1 \in Spots /\ stream'[i] = stream[i + 1]
      /\ \A i \in Spots : i \in Int /\ (i = 1 \/ (i - 1 \in Spots' /\ stream'[i - 1] = stream[i]))
  BY <1>1, StreamShrinks
<1> SUFFICES ASSUME NEW k \in Watch!Keys
             PROVE  /\ pressed'[k].press = 0 => Lifted(k)'
                    /\ \A i, j \in Spots' : PressAt(i, k)' /\ PressAt(j, k)' /\ i < j =>
                           \E m \in Spots' : i < m /\ m < j /\ ReleaseAt(m, k)'
                    /\ \A i \in Spots' : PressAt(i, k)' => Lifted(k)' \/ \E m \in Spots' : m < i /\ ReleaseAt(m, k)'
                    /\ down'[k] = 0 =>
                        /\ \A i \in Spots' : PressAt(i, k)' => \E m \in Spots' : i < m /\ ReleaseAt(m, k)'
                        /\ Lifted(k)' \/ \E m \in Spots' : ReleaseAt(m, k)'
  BY DEF KeyShape
<1>3. /\ \A i \in Spots' : (PressAt(i, k)' => PressAt(i + 1, k)) /\ (ReleaseAt(i, k)' <=> ReleaseAt(i + 1, k))
      /\ \A i \in Spots : i # 1 => i - 1 \in Spots' /\ (ReleaseAt(i, k) => ReleaseAt(i - 1, k)')
  BY <1>2 DEF PressAt, ReleaseAt
<1>4. /\ PressAt(1, k) <=> e.key = k /\ e.value = 1
      /\ ReleaseAt(1, k) <=> e.key = k /\ e.value = 0
  BY <1>1, <1>2 DEF PressAt, ReleaseAt
<1>5. PressAt(1, k) => pressed'[k].press # 0
  BY <1>1, <1>2, <1>4 DEF Begins, PressShape, PressTypes
<1>6. ReleaseAt(1, k) => Lifted(k)'
  BY <1>1, <1>4 DEF Ends, PressTypes, Lifted
<1>7. ~PressAt(1, k) /\ ~ReleaseAt(1, k) => pressed'[k] = pressed[k]
  BY <1>1, <1>4 DEF Begins, Ends, Goes, PressTypes
<1>8. pressed'[k].press = 0 => Lifted(k)'
  BY <1>5, <1>6, <1>7 DEF KeyShape, Lifted
<1>9. ASSUME NEW i \in Spots', NEW j \in Spots', PressAt(i, k)', PressAt(j, k)', i < j
      PROVE  \E m \in Spots' : i < m /\ m < j /\ ReleaseAt(m, k)'
  <2>1. PICK m \in Spots : i + 1 < m /\ m < j + 1 /\ ReleaseAt(m, k)
    BY <1>2, <1>3, <1>9 DEF KeyShape
  <2>2. m - 1 \in Spots' /\ i < m - 1 /\ m - 1 < j /\ ReleaseAt(m - 1, k)'
    BY <1>2, <1>3, <2>1
  <2> QED
    BY <2>2
<1>10. ASSUME NEW i \in Spots', PressAt(i, k)'
       PROVE  Lifted(k)' \/ \E m \in Spots' : m < i /\ ReleaseAt(m, k)'
  <2>1. CASE ReleaseAt(1, k)
    BY <1>6, <2>1
  <2>2. ASSUME NEW m \in Spots, m < i + 1, m # 1, ReleaseAt(m, k)
        PROVE  m - 1 \in Spots' /\ m - 1 < i /\ ReleaseAt(m - 1, k)'
    BY <1>2, <1>3, <2>2
  <2>3. CASE PressAt(1, k)
    <3>1. 1 < i + 1 /\ PressAt(i + 1, k) /\ i + 1 \in Spots
      BY <1>2, <1>3, <1>10
    <3>2. PICK m \in Spots : 1 < m /\ m < i + 1 /\ ReleaseAt(m, k)
      BY <1>2, <2>3, <3>1 DEF KeyShape
    <3> QED
      BY <2>2, <3>2
  <2>4. CASE ~PressAt(1, k) /\ ~ReleaseAt(1, k)
    <3>1. PressAt(i + 1, k) /\ i + 1 \in Spots
      BY <1>2, <1>3, <1>10
    <3>2. Lifted(k) \/ \E m \in Spots : m < i + 1 /\ m # 1 /\ ReleaseAt(m, k)
      BY <2>4, <3>1 DEF KeyShape
    <3> QED
      BY <1>7, <2>2, <2>4, <3>2 DEF Lifted
  <2> QED
    BY <2>1, <2>3, <2>4
<1>11. ASSUME down'[k] = 0
       PROVE  /\ \A i \in Spots' : PressAt(i, k)' => \E m \in Spots' : i < m /\ ReleaseAt(m, k)'
              /\ Lifted(k)' \/ \E m \in Spots' : ReleaseAt(m, k)'
  <2>1. down[k] = 0
    BY <1>1, <1>11
  <2>2. ASSUME NEW i \in Spots', PressAt(i, k)'
        PROVE  \E m \in Spots' : i < m /\ ReleaseAt(m, k)'
    <3>1. PICK m \in Spots : i + 1 < m /\ ReleaseAt(m, k)
      BY <1>2, <1>3, <2>1, <2>2 DEF KeyShape
    <3>2. m - 1 \in Spots' /\ i < m - 1 /\ ReleaseAt(m - 1, k)'
      BY <1>2, <1>3, <2>2, <3>1
    <3> QED
      BY <3>2
  <2>3. Lifted(k)' \/ \E m \in Spots' : ReleaseAt(m, k)'
    <3>1. CASE ReleaseAt(1, k)
      BY <1>6, <3>1
    <3>2. CASE PressAt(1, k)
      <4>1. PICK m \in Spots : 1 < m /\ ReleaseAt(m, k)
        BY <1>2, <2>1, <3>2 DEF KeyShape
      <4> QED
        BY <1>2, <1>3, <4>1
    <3>3. CASE ~PressAt(1, k) /\ ~ReleaseAt(1, k)
      <4>1. Lifted(k) \/ \E m \in Spots : m # 1 /\ ReleaseAt(m, k)
        BY <2>1, <3>3 DEF KeyShape
      <4> QED
        BY <1>3, <1>7, <3>3, <4>1 DEF Lifted
    <3> QED
      BY <3>1, <3>2, <3>3
  <2> QED
    BY <2>2, <2>3
<1> QED
  BY <1>8, <1>9, <1>10, <1>11

\* A step that neither reads nor types, and lifts no key and presses none.
LEMMA KeysAreLeft ==
    ASSUME KeyShape, UNCHANGED <<stream, down>>,
           \A k \in Watch!Keys : pressed'[k].press = pressed[k].press /\ (Lifted(k) <=> Lifted(k)')
    PROVE  KeyShape'
  BY DEF KeyShape, Spots, PressAt, ReleaseAt

-----------------------------------------------------------------------------
(* The buttons: presses and what is said of them.                          *)

\* A new press is a number not used before, and no other event is a press.
LEMMA PressesAreTyped ==
    ASSUME PressTypes, PressShape, Watches, NEW e \in Happened \cup Marks, Types(e)
    PROVE  PressShape'
<1>0. PICK n : n = Len(stream) + 1
  OBVIOUS
<1>1. /\ \A i \in Spots : stream'[i] = stream[i]
      /\ \A i \in Spots' : i \in Spots \/ i = n
      /\ stream'[n] = e /\ n \notin Spots
  BY <1>0, StreamGrows
<1>2. \A p : Unread(p)' <=> Unread(p)
  BY DEF Unread, Watches
<1>3. presses \in Nat /\ presses' \in Nat /\ presses <= presses' /\ presses' <= MaxPresses
  <2>1. presses \in 0..MaxPresses
    BY DEF PressTypes
  <2>2. presses' \in {presses, presses + 1} /\ (presses' = presses \/ presses < MaxPresses \/ presses' <= MaxPresses)
    BY DEF Types
  <2> QED
    BY <2>1, <2>2, PanelAssumption
<1>4. \A k \in Watch!Keys : PressAt(n, k)' => e.press = presses + 1 /\ presses' = presses + 1
  BY <1>1 DEF PressAt, Types
<1>5. \A k \in Watch!Keys, i \in Spots : PressAt(i, k)' => PressAt(i, k) /\ stream'[i].press \in 1..presses
  BY <1>1 DEF PressAt, PressShape
<1>6. \A p \in Watch!Ids : p > presses' => Unread(p)'
  BY <1>2, <1>3 DEF PressShape, Watch!Ids
<1>7. ASSUME NEW k \in Watch!Keys, NEW i \in Spots', PressAt(i, k)'
      PROVE  stream'[i].press \in 1..presses' /\ Unread(stream[i].press)'
  <2>1. CASE i \in Spots
    BY <1>1, <1>2, <1>3, <1>5, <1>7, <2>1 DEF PressShape
  <2>2. CASE i = n
    <3>1. stream'[i].press = presses + 1 /\ presses' = presses + 1
      BY <1>1, <1>4, <1>7, <2>2
    <3>2. presses + 1 \in Watch!Ids
      BY <1>3, <3>1, PanelAssumption DEF Watch!Ids
    <3> QED
      BY <1>2, <1>3, <3>1, <3>2 DEF PressShape
  <2> QED
    BY <1>1, <2>1, <2>2
<1>8. ASSUME NEW k \in Watch!Keys, NEW l \in Watch!Keys, NEW i \in Spots', NEW j \in Spots',
             PressAt(i, k)', PressAt(j, l)', stream'[i].press = stream'[j].press
      PROVE  i = j
  <2>1. CASE i \in Spots /\ j \in Spots
    BY <1>1, <1>5, <1>8, <2>1 DEF PressShape
  <2>2. CASE i = n \/ j = n
    BY <1>1, <1>3, <1>4, <1>5, <1>8, <2>2
  <2> QED
    BY <1>1, <2>1, <2>2
<1>9. \A k, l \in Watch!Keys : pressed'[k].press = pressed'[l].press /\ pressed'[k].press # 0 => k = l
  BY DEF Watches, PressShape
<1> QED
  BY <1>6, <1>7, <1>8, <1>9 DEF PressShape

\* A step that reads a press or none, and says something of the press it reads or
\* of one read before, or nothing.
Tells(p) == \A i \in DOMAIN out' : out'[i].press = p
LEMMA PressesAreRead ==
    ASSUME PressTypes, PressShape, Watch!handleEvent
    PROVE  PressShape'
<1> DEFINE e == Head(stream)
           k == e.key
<1>1. /\ stream # <<>> /\ stream' = Tail(stream) /\ e = stream[1] /\ UNCHANGED <<presses, log>> /\ out = <<>>
      /\ \/ e.key \notin Watch!Keys /\ UNCHANGED <<pressed, out>>
         \/ /\ e \in Happened
            /\ \/ e.value = 1 /\ Begins(e.key, e.press)
               \/ e.value = 0 /\ Ends(e.key)
               \/ e.value = 2 /\ Goes(e.key)
  BY EventOutcome
<1> HIDE DEF e
<1>2. /\ 1 \in Spots
      /\ \A i \in Spots' : i \in Int /\ 0 < i /\ i + 1 \in Spots /\ stream'[i] = stream[i + 1]
  BY <1>1, StreamShrinks
<1>3. \A i \in Spots', l \in Watch!Keys : PressAt(i, l)' => PressAt(i + 1, l)
  BY <1>2 DEF PressAt
<1>4. \A p : (Unread(p) /\ (\A l \in Watch!Keys : pressed'[l].press # p) /\ (\A i \in DOMAIN out' : out'[i].press # p))
             => Unread(p)'
  BY <1>1 DEF Unread
<1>5. \/ /\ k \in Watch!Keys /\ PressAt(1, k) /\ Tells(e.press)
         /\ pressed'[k].press = e.press /\ \A l \in Watch!Keys : l # k => pressed'[l] = pressed[l]
      \/ /\ \A l \in Watch!Keys : pressed'[l].press \in {0, pressed[l].press}
         /\ \E l \in Watch!Keys : out' = <<>> \/ (Tells(pressed[l].press) /\ ~Lifted(l))
      \/ UNCHANGED <<pressed, out>>
  <2>1. CASE e \in Happened /\ e.value = 1 /\ Begins(k, e.press)
    <3>1. k \in Watch!Keys /\ e.press \in Nat
      BY <2>1 DEF Happened
    <3>2. Tells(e.press)
      BY <2>1 DEF Tells, Begins, Watch!Does
    <3>3. pressed'[k].press = e.press /\ \A l \in Watch!Keys : l # k => pressed'[l] = pressed[l]
      BY <2>1, <3>1 DEF Begins, PressTypes
    <3> QED
      BY <1>1, <2>1, <3>1, <3>2, <3>3 DEF PressAt
  <2>2. CASE e \in Happened /\ e.value = 0 /\ Ends(k)
    <3>1. k \in Watch!Keys
      BY <2>2 DEF Happened
    <3>2. \A l \in Watch!Keys : pressed'[l].press \in {0, pressed[l].press}
      BY <2>2, <3>1 DEF Ends, PressTypes, Watch!Up
    <3>3. out' = <<>> \/ (Tells(pressed[k].press) /\ ~Lifted(k))
      BY <2>2 DEF Ends, Tells, Watch!Does
    <3> QED
      BY <3>1, <3>2, <3>3
  <2>3. CASE e \in Happened /\ e.value = 2 /\ Goes(k)
    <3>1. k \in Watch!Keys
      BY <2>3 DEF Happened
    <3>2. out' = <<>> \/ (Tells(pressed[k].press) /\ ~Lifted(k))
      BY <2>3 DEF Goes, Tells, Watch!Does
    <3> QED
      BY <2>3, <3>1, <3>2 DEF Goes
  <2> QED
    BY <1>1, <2>1, <2>2, <2>3
<1>6. ASSUME NEW p, Unread(p), \A i \in Spots, l \in Watch!Keys : PressAt(i, l) => stream[i].press # p \/ i # 1, p # 0
      PROVE  Unread(p)'
  <2>1. \A l \in Watch!Keys : pressed[l].press # p
    BY <1>6 DEF Unread
  <2>2. \A i \in DOMAIN out' : out'[i].press # p
    BY <1>1, <1>2, <1>5, <1>6, <2>1 DEF Tells, PressAt
  <2>3. \A l \in Watch!Keys : pressed'[l].press # p
    BY <1>1, <1>2, <1>5, <1>6, <2>1
  <2> QED
    BY <1>4, <1>6, <2>2, <2>3
<1>7. \A p \in Watch!Ids : p > presses' => Unread(p)'
  <2> SUFFICES ASSUME NEW p \in Watch!Ids, p > presses' PROVE Unread(p)'
    OBVIOUS
  <2>1. Unread(p) /\ p # 0
    BY <1>1 DEF PressShape, Watch!Ids
  <2>2. \A i \in Spots, l \in Watch!Keys : PressAt(i, l) => stream[i].press # p
    BY <1>1 DEF PressShape, PressTypes, Watch!Ids
  <2> QED
    BY <1>6, <2>1, <2>2
<1>8. ASSUME NEW l \in Watch!Keys, NEW i \in Spots', PressAt(i, l)'
      PROVE  stream'[i].press \in 1..presses' /\ Unread(stream[i].press)'
  <2>0. PICK p : p = stream[i + 1].press
    OBVIOUS
  <2>1. i + 1 \in Spots /\ i + 1 # 1 /\ PressAt(i + 1, l) /\ stream'[i].press = p
    BY <1>2, <1>3, <1>8, <2>0
  <2>2. p \in 1..presses /\ Unread(p) /\ p # 0
    BY <2>0, <2>1 DEF PressShape, PressTypes
  <2>3. \A j \in Spots, m \in Watch!Keys : PressAt(j, m) => stream[j].press # p \/ j # 1
    BY <2>0, <2>1 DEF PressShape
  <2>4. Unread(p)'
    BY <1>6, <2>2, <2>3
  <2> QED
    BY <1>1, <2>1, <2>2, <2>4
<1>9. ASSUME NEW l \in Watch!Keys, NEW m \in Watch!Keys, NEW i \in Spots', NEW j \in Spots',
             PressAt(i, l)', PressAt(j, m)', stream'[i].press = stream'[j].press
      PROVE  i = j
  BY <1>2, <1>3, <1>9 DEF PressShape
<1>10. ASSUME NEW l \in Watch!Keys, NEW m \in Watch!Keys, pressed'[l].press = pressed'[m].press, pressed'[l].press # 0
       PROVE  l = m
  <2>1. k \in Watch!Keys /\ PressAt(1, k) => \A o \in Watch!Keys : pressed[o].press # e.press
    BY <1>1, <1>2 DEF PressShape, Unread
  <2> QED
    BY <1>5, <1>10, <2>1 DEF PressShape
<1> QED
  BY <1>7, <1>8, <1>9, <1>10 DEF PressShape

\* A step that types and reads nothing says something of presses that were read.
LEMMA PressesAreLeft ==
    ASSUME PressTypes, PressShape, UNCHANGED <<stream, presses>>,
           \A k \in Watch!Keys : pressed'[k].press = pressed[k].press,
           \A p : Unread(p) => log'[p] = <<>> /\ \A i \in DOMAIN out' : out'[i].press # p
    PROVE  PressShape'
<1>1. \A p : Unread(p) => Unread(p)'
  BY DEF Unread
<1> QED
  BY <1>1 DEF PressShape, Spots, PressAt

-----------------------------------------------------------------------------
(* The buttons: the timers.                                                *)

\* What was current stays current, or no timer of its key is any more.
Outdates(k) ==
    /\ gen' = [gen EXCEPT ![k] = @ + 1] /\ armed' = {t \in armed : t.key # k}
    /\ \A l \in Watch!Keys : l # k => pressed'[l].press = pressed[l].press

\* A new generation makes all timers of its key obsolete.
LEMMA OutdatedTimers ==
    ASSUME PressTypes, TimerShape, UNCHANGED <<due, presses>>, NEW k \in Watch!Keys, Outdates(k)
    PROVE  /\ \A t \in armed' : t \in armed /\ Mine(t)' /\ Current(t)' /\ t.key # k
           /\ \A i \in DOMAIN due' : Mine(due[i])' /\ due'[i] = due[i]
           /\ \A i \in DOMAIN due' : Current(due[i])' => Current(due[i]) /\ due[i].key # k
<1>1. gen'[k] = gen[k] + 1 /\ gen[k] \in Nat /\ \A l \in Watch!Keys : l # k => gen'[l] = gen[l]
  BY DEF Outdates, PressTypes
<1>2. ASSUME NEW t \in Timers, Mine(t)
      PROVE  Mine(t)' /\ (Current(t)' => Current(t) /\ t.key # k) /\ (Current(t) /\ t.key # k => Current(t)')
  BY <1>1, <1>2 DEF Mine, Current, Timers, Outdates
<1>3. \A i \in DOMAIN due : due[i] \in Timers
  BY DEF PressTypes
<1> QED
  BY <1>2, <1>3 DEF TimerShape, Outdates, PressTypes

\* A press is read when no timer of its key is current; what ends or interrupts
\* it makes them all obsolete.
LEMMA TimersHearEvents ==
    ASSUME PressTypes, KeyShape, PressShape, TimerShape, Watch!handleEvent
    PROVE  TimerShape'
<1> DEFINE e == Head(stream)
           k == e.key
<1>1. /\ stream # <<>> /\ e = stream[1] /\ UNCHANGED <<presses, due>> /\ after = Watch!NoTimer
      /\ \/ k \notin Watch!Keys /\ UNCHANGED <<after, pressed, gen, armed>>
         \/ /\ e \in Happened
            /\ \/ e.value = 1 /\ Begins(k, e.press)
               \/ e.value = 0 /\ Ends(k)
               \/ e.value = 2 /\ Goes(k)
  BY EventOutcome
<1> HIDE DEF e
<1>2. 1 \in Spots /\ \A m \in Spots : ~(m < 1)
  BY <1>1, TailIsRest DEF Spots, PressTypes
<1>3. \A i \in DOMAIN due : due[i] \in Timers
  BY DEF PressTypes
<1>4. CASE UNCHANGED <<after, pressed, gen, armed>>
  BY <1>1, <1>4 DEF TimerShape, Mine, Current
<1>5. CASE e \in Happened /\ e.value = 1 /\ Begins(k, e.press)
  <2>1. k \in Watch!Keys /\ PressAt(1, k)
    BY <1>1, <1>5 DEF Happened, PressAt
  <2>2. Lifted(k) /\ pressed[k].press = 0
    BY <1>2, <2>1 DEF KeyShape, Lifted, Watch!Up
  <2>3. UNCHANGED <<gen, armed>> /\ pressed' = [pressed EXCEPT ![k] = [press |-> e.press, hold |-> FALSE]]
        /\ after' = [key |-> k, gen |-> 0, press |-> e.press]
    BY <1>5 DEF Begins, Rests
  <2>4. pressed'[k].press = e.press /\ e.press # 0 /\ \A l \in Watch!Keys : l # k => pressed'[l] = pressed[l]
    BY <1>1, <1>2, <2>1, <2>3, SMTT(30) DEF PressTypes, PressShape
  <2>5. \A t \in Timers : Mine(t) => Mine(t)' /\ (Current(t)' <=> Current(t))
    <3> TAKE t \in Timers
    <3>1. CASE t.key = k
      BY <1>1, <2>2, <2>3, <3>1 DEF Mine, Current, PressTypes
    <3>2. CASE t.key # k
      BY <1>1, <2>3, <2>4, <3>2 DEF Mine, Current, Timers
    <3> QED
      BY <3>1, <3>2
  <2>6. after'.key = k /\ after'.press = e.press /\ after'.gen = 0
    BY <2>3
  <2> QED
    BY <1>1, <1>3, <2>3, <2>4, <2>5, <2>6 DEF TimerShape, PressTypes
<1>6. CASE e \in Happened /\ after' = Watch!NoTimer /\ Outdates(k)
  <2>1. k \in Watch!Keys
    BY <1>6 DEF Happened
  <2> QED
    BY <1>1, <1>6, <2>1, OutdatedTimers DEF TimerShape
<1>7. CASE e \in Happened /\ e.value = 0 /\ Ends(k)
  <2>1. \A l \in Watch!Keys : l # k => pressed'[l].press = pressed[l].press
    BY <1>7 DEF Ends, PressTypes
  <2> QED
    BY <1>6, <1>7, <2>1 DEF Ends, Moves, Outdates
<1>8. CASE e \in Happened /\ e.value = 2 /\ Goes(k)
  <2>1. CASE Rests
    BY <1>1, <1>8, <2>1 DEF Goes, Rests, TimerShape, Mine, Current
  <2>2. CASE Moves(k)
    BY <1>6, <1>8, <2>2 DEF Goes, Moves, Outdates
  <2> QED
    BY <1>8, <2>1, <2>2 DEF Goes
<1> QED
  BY <1>1, <1>4, <1>5, <1>7, <1>8

\* Timers that were taken from their channel leave the others as they are.
LEMMA TimersAreTaken ==
    ASSUME PressTypes, TimerShape, NEW i \in DOMAIN due, due' = Watch!RemoveAt(due, i),
           UNCHANGED <<presses, gen, armed>>, \A k \in Watch!Keys : pressed'[k].press = pressed[k].press,
           after' \in {Watch!NoTimer, due[i]}, after' = due[i] => Current(due[i]) /\ due[i].key \in Repeating
    PROVE  TimerShape'
<1>1. \A t \in Timers : (Mine(t) <=> Mine(t)') /\ (Current(t) <=> Current(t)')
  BY DEF Mine, Current, Timers
<1>2. /\ due' \in Seq(Timers)
      /\ \A j \in DOMAIN due' : Before(i, j) \in DOMAIN due \ {i} /\ due'[j] = due[Before(i, j)] /\ j \in Nat
  <2>1. due \in Seq(Timers)
    BY DEF PressTypes
  <2>2. /\ due' \in Seq(Timers) /\ DOMAIN due' = 1..(Len(due) - 1)
        /\ \A j \in DOMAIN due' : Before(i, j) \in DOMAIN due \ {i} /\ due'[j] = due[Before(i, j)]
    BY <2>1, RemoveAtLeaves
  <2> QED
    BY <2>1, <2>2
<1>3. \A j \in DOMAIN due : due[j] \in Timers
  BY DEF PressTypes
<1>4. \A t \in armed' : Mine(t)' /\ Current(t)' /\ \A u \in armed' : u.key = t.key => u = t
  BY <1>1 DEF TimerShape, PressTypes
<1>5. \A j \in DOMAIN due' : Mine(due[j])'
  BY <1>1, <1>2, <1>3 DEF TimerShape
<1>6. ASSUME NEW j \in DOMAIN due', NEW m \in DOMAIN due', Current(due[j])', Current(due[m])', due'[j].key = due'[m].key
      PROVE  j = m
  <2>1. Before(i, j) = Before(i, m)
    BY <1>1, <1>2, <1>3, <1>6 DEF TimerShape
  <2>2. i \in Nat
    BY DEF PressTypes
  <2> QED
    BY <1>2, <2>1, <2>2 DEF Before
<1>7. \A j \in DOMAIN due', t \in armed' : Current(due[j])' => due'[j].key # t.key
  BY <1>1, <1>2, <1>3 DEF TimerShape
<1>8. CASE after' = Watch!NoTimer
  BY <1>4, <1>5, <1>6, <1>7, <1>8 DEF TimerShape
<1>9. CASE after' = due[i]
  <2>1. Mine(due[i]) /\ Current(due[i]) /\ due[i] \in Timers /\ due[i].key \in Repeating
    BY <1>3, <1>9 DEF TimerShape
  <2>2. after'.press = pressed'[after'.key].press /\ after'.press # 0 /\ Current(after)'
    <3>1. due[i].key \in Watch!Keys /\ due[i].press = pressed[due[i].key].press /\ due[i].press # 0
      BY <2>1 DEF Mine, Timers, PressTypes
    <3>2. Current(after)'
      BY <1>9, <2>1 DEF Current
    <3> QED
      BY <1>9, <3>1, <3>2
  <2>3. \A t \in armed' : t.key # after'.key
    BY <1>9, <2>1 DEF TimerShape
  <2>4. \A j \in DOMAIN due' : Current(due[j])' => due'[j].key # after'.key
    BY <1>1, <1>2, <1>3, <1>9, <2>1 DEF TimerShape
  <2> QED
    BY <1>4, <1>5, <1>6, <1>7, <1>9, <2>1, <2>2, <2>3, <2>4 DEF TimerShape
<1> QED
  BY <1>8, <1>9

\* A press gets the first timer of its generation, a repeat the next of its own.
LEMMA TimersAreStarted ==
    ASSUME PressTypes, TimerShape, Watch!Resume
    PROVE  TimerShape'
<1>1. /\ UNCHANGED <<presses, due, pressed>> /\ after' = Watch!NoTimer
      /\ IF after = Watch!NoTimer THEN UNCHANGED <<gen, armed>>
         ELSE LET next == IF after.gen = 0 THEN gen[after.key] + 1 ELSE after.gen
              IN  /\ gen' = [gen EXCEPT ![after.key] = next]
                  /\ armed' = (IF after.gen = 0 THEN Watch!Stopped(after.key) ELSE armed)
                              \cup {[after EXCEPT !.gen = next]}
  BY DEF Watch!Resume, Watch!input
<1>2. CASE after = Watch!NoTimer
  BY <1>1, <1>2 DEF TimerShape, Mine, Current
<1>3. CASE after # Watch!NoTimer /\ after.gen = 0
  <2> DEFINE k == after.key
             rest == {t \in armed : t.key # k}
  <2>0. PICK u : u = [after EXCEPT !.gen = gen[k] + 1]
    OBVIOUS
  <2>1. after \in Timers /\ k \in Watch!Keys /\ gen[k] \in Nat
    BY <1>3 DEF PressTypes, Timers
  <2>2. gen' = [gen EXCEPT ![k] = gen[k] + 1] /\ armed' = rest \cup {u}
    BY <1>1, <1>3, <2>0 DEF Watch!Stopped
  <2>3. u.key = k /\ u.gen = gen[k] + 1 /\ u.press = after.press
    BY <2>0, <2>1 DEF Timers
  <2> HIDE DEF rest
  <2>4. gen'[k] = gen[k] + 1 /\ \A l \in Watch!Keys : l # k => gen'[l] = gen[l]
    BY <2>1, <2>2 DEF PressTypes
  <2>5. ASSUME NEW t \in Timers, Mine(t)
        PROVE  Mine(t)' /\ (Current(t)' <=> Current(t) /\ t.key # k)
    BY <1>1, <2>1, <2>4, <2>5 DEF Mine, Current, Timers
  <2>6. after.press = pressed[k].press /\ after.press # 0 /\ pressed[k].press \in 0..presses
    BY <1>3, <2>1 DEF TimerShape, PressTypes
  <2>7. Mine(u)' /\ Current(u)'
    <3>1. u.gen = gen'[u.key] /\ u.gen \in 1..u.gen /\ u.press = pressed'[u.key].press
      BY <1>1, <2>1, <2>3, <2>4, <2>6
    <3>2. u.press \in 1..presses'
      BY <1>1, <2>3, <2>6 DEF PressTypes
    <3> QED
      BY <3>1, <3>2 DEF Mine, Current
  <2>8. \A i \in DOMAIN due : due[i] \in Timers
    BY DEF PressTypes
  <2>9. \A t \in armed' : t = u \/ (t \in armed /\ t.key # k /\ t \in Timers)
    BY <2>2 DEF rest, PressTypes
  <2> QED
    BY <1>1, <2>3, <2>5, <2>7, <2>8, <2>9 DEF TimerShape
<1>4. CASE after # Watch!NoTimer /\ after.gen # 0
  <2>1. after \in Timers /\ after.key \in Watch!Keys /\ Current(after)
        /\ after.press = pressed[after.key].press /\ after.press # 0
    BY <1>4 DEF TimerShape, PressTypes, Timers
  <2>2. gen' = gen
    BY <1>1, <1>4, <2>1 DEF Current, PressTypes
  <2>3. [after EXCEPT !.gen = after.gen] = after
    BY <2>1 DEF Timers
  <2>4. armed' = armed \cup {after}
    BY <1>1, <1>4, <2>3
  <2>5. \A t : (Mine(t)' <=> Mine(t)) /\ (Current(t)' <=> Current(t))
    BY <1>1, <2>2 DEF Mine, Current
  <2>6. Mine(after)
    BY <1>4, <2>1 DEF Mine, Current, PressTypes, Timers
  <2>7. /\ \A t \in armed : t.key # after.key
        /\ \A i \in DOMAIN due : Current(due[i]) => due[i].key # after.key
    BY <1>4 DEF TimerShape
  <2> QED
    BY <1>1, <2>1, <2>4, <2>5, <2>6, <2>7 DEF TimerShape
<1> QED
  BY <1>2, <1>3, <1>4

\* A timer that fires is due and no longer running.
LEMMA TimersFire ==
    ASSUME PressTypes, TimerShape, NEW t \in armed, Watch!Fire(t)
    PROVE  TimerShape'
<1>1. UNCHANGED <<presses, pressed, gen, after>> /\ armed' = armed \ {t} /\ due' = Append(due, t)
  BY DEF Watch!Fire, Watch!input
<1>2. \A u : (Mine(u)' <=> Mine(u)) /\ (Current(u)' <=> Current(u))
  BY <1>1 DEF Mine, Current
<1> DEFINE n == Len(due) + 1
<1>3. t \in Timers
  BY DEF PressTypes
<1>4. DOMAIN due' = 1..n /\ DOMAIN due = 1..(n - 1) /\ n \in Nat \ {0} /\ due'[n] = t
      /\ \A i \in DOMAIN due : due'[i] = due[i]
  BY <1>1, <1>3, AppendIsLast, SMTT(30) DEF PressTypes
<1> HIDE DEF n
<1>5. \A i \in DOMAIN due' : i = n \/ i \in DOMAIN due
  BY <1>4
<1>6. \A i \in DOMAIN due' : IF i = n THEN due'[i] = t ELSE i \in DOMAIN due /\ due'[i] = due[i]
  BY <1>4, <1>5
<1>7. Mine(t) /\ Current(t) /\ \A u \in armed' : u.key # t.key /\ u \in armed
  BY <1>1 DEF TimerShape
<1>8. \A i \in DOMAIN due' : Mine(due[i])'
  BY <1>2, <1>6, <1>7 DEF TimerShape
<1>9. \A i, j \in DOMAIN due' : Current(due[i])' /\ Current(due[j])' /\ due'[i].key = due'[j].key => i = j
  BY <1>2, <1>6, <1>7 DEF TimerShape
<1>10. \A i \in DOMAIN due', u \in armed' : Current(due[i])' => due'[i].key # u.key
  BY <1>2, <1>6, <1>7 DEF TimerShape
<1>11. after' # Watch!NoTimer =>
        /\ after'.press = pressed'[after'.key].press /\ after'.press # 0
        /\ after'.gen # 0 =>
            /\ Current(after)' /\ after'.key \in Repeating
            /\ \A u \in armed' : u.key # after'.key
            /\ \A i \in DOMAIN due' : Current(due[i])' => due'[i].key # after'.key
  BY <1>1, <1>2, <1>6, <1>7 DEF TimerShape
<1> QED
  BY <1>2, <1>7, <1>8, <1>9, <1>10, <1>11 DEF TimerShape

-----------------------------------------------------------------------------
(* The buttons: everything stays in its range.                             *)

\* The keyboard numbers its presses on.
LEMMA TypesAreTyped ==
    ASSUME PressTypes, Watch!Keyboard
    PROVE  PressTypes'
<1>1. Watches
  BY KeyboardOutcome
<1>2. presses \in 0..MaxPresses /\ MaxPresses \in Nat
  BY PanelAssumption DEF PressTypes
<1>3. CASE UNCHANGED <<down, stream, presses>> /\ old' \subseteq 1..presses'
  BY <1>1, <1>3 DEF PressTypes, Watches
<1>4. ASSUME NEW e \in Happened \cup Marks, Types(e), UNCHANGED old
      PROVE  PressTypes'
  <2>1. presses' \in 0..MaxPresses /\ presses <= presses'
    <3>1. presses' \in {presses, presses + 1} /\ (presses' = presses \/ presses < MaxPresses \/ presses' <= MaxPresses)
      BY <1>4 DEF Types
    <3> QED
      BY <1>2, <3>1
  <2>2. down' \in [Watch!Keys -> 0..MaxPresses]
    <3>1. down \in [Watch!Keys -> 0..MaxPresses]
      BY DEF PressTypes
    <3>2. down' = down \/ \E k \in Watch!Keys : down' \in {[down EXCEPT ![k] = 0], [down EXCEPT ![k] = presses']}
      BY <1>4 DEF Types
    <3> QED
      BY <1>2, <2>1, <3>1, <3>2
  <2>3. stream' \in Seq(Happened \cup Marks)
    BY <1>4 DEF Types, PressTypes
  <2>4. 0..presses \subseteq 0..presses' /\ 1..presses \subseteq 1..presses'
    BY <1>2, <2>1
  <2>5. pressed' \in [Watch!Keys -> [press : 0..presses', hold : BOOLEAN]]
    <3>1. pressed' \in [Watch!Keys -> [press : 0..presses, hold : BOOLEAN]]
      BY <1>1 DEF PressTypes, Watches
    <3>2. [press : 0..presses, hold : BOOLEAN] \subseteq [press : 0..presses', hold : BOOLEAN]
      BY <2>4
    <3> QED
      BY <3>1, <3>2
  <2>6. out' \in Seq([key : Watch!Keys, press : 1..presses', action : Actions])
    <3>1. out' \in Seq([key : Watch!Keys, press : 1..presses, action : Actions])
      BY <1>1 DEF PressTypes, Watches
    <3>2. [key : Watch!Keys, press : 1..presses, action : Actions] \subseteq [key : Watch!Keys, press : 1..presses', action : Actions]
      BY <2>4
    <3> QED
      BY <3>1, <3>2, SeqIsMonotonic
  <2> QED
    BY <1>1, <1>4, <2>1, <2>2, <2>3, <2>4, <2>5, <2>6 DEF PressTypes, Watches
<1> QED
  BY <1>1, <1>3, <1>4, KeyboardOutcome

\* What the recognizer is told and tells is in range.
LEMMA TypesAreRead ==
    ASSUME PressTypes, KeyShape, PressShape, Watch!handleEvent
    PROVE  PressTypes'
<1> DEFINE e == Head(stream)
           k == e.key
           Presses == [key : Watch!Keys, press : 1..presses, action : Actions]
           States0 == [press : 0..presses, hold : BOOLEAN]
<1>1. /\ stream # <<>> /\ stream' = Tail(stream) /\ e = stream[1] /\ out = <<>>
      /\ UNCHANGED <<down, old, presses, due, log>>
      /\ \/ k \notin Watch!Keys /\ UNCHANGED <<run_, out, after, pressed, gen, armed>>
         \/ /\ e \in Happened /\ run_' = "sending"
            /\ \/ e.value = 1 /\ Begins(k, e.press)
               \/ e.value = 0 /\ Ends(k)
               \/ e.value = 2 /\ Goes(k)
  BY EventOutcome
<1> HIDE DEF e
<1>2. 1 \in Spots /\ stream' \in Seq(Happened \cup Marks)
  BY <1>1, TailIsRest DEF Spots, PressTypes
<1>3. /\ \A a \in Actions, l \in Watch!Keys, p \in 1..presses : Watch!Does(l, p, a) \in Presses
      /\ pressed \in [Watch!Keys -> States0] /\ presses \in Nat /\ Watch!Up \in States0
  BY DEF Watch!Does, PressTypes, Watch!Up
<1>4. k \in Watch!Keys /\ (Moves(k) \/ Rests) => gen' \in [Watch!Keys -> Nat] /\ armed' \subseteq Timers
  <2>1. gen \in [Watch!Keys -> Nat] /\ armed \subseteq Timers
    BY DEF PressTypes
  <2>2. k \in Watch!Keys /\ Moves(k) => gen' \in [Watch!Keys -> Nat] /\ armed' \subseteq Timers
    BY <2>1 DEF Moves
  <2> QED
    BY <2>1, <2>2 DEF Rests
<1>5. CASE k \notin Watch!Keys /\ UNCHANGED <<run_, out, after, pressed, gen, armed>>
  BY <1>1, <1>2, <1>5 DEF PressTypes
<1>6. ASSUME k \in Watch!Keys, run_' = "sending", after' \in Timers \cup {Watch!NoTimer}, Moves(k) \/ Rests,
             pressed' \in [Watch!Keys -> States0], out' \in Seq(Presses)
      PROVE  PressTypes'
  BY <1>1, <1>2, <1>4, <1>6 DEF PressTypes
<1>7. CASE e \in Happened /\ run_' = "sending" /\ e.value = 1 /\ Begins(k, e.press)
  <2>1. k \in Watch!Keys /\ e.press \in 1..presses
    BY <1>1, <1>2, <1>7 DEF Happened, PressAt, PressShape
  <2>2. after' \in Timers
    BY <1>3, <1>7, <2>1 DEF Begins, Timers
  <2>3. out' \in Seq(Presses)
    <3>1. Watch!Does(k, e.press, "tap") \in Presses
      BY <1>3, <2>1 DEF Actions
    <3> HIDE DEF Presses
    <3> QED
      BY <1>7, <3>1 DEF Begins
  <2>4. pressed' \in [Watch!Keys -> States0]
    <3>1. [press |-> e.press, hold |-> FALSE] \in States0
      BY <2>1
    <3> HIDE DEF States0
    <3> QED
      BY <1>3, <1>7, <2>1, <3>1 DEF Begins
  <2> QED
    BY <1>6, <1>7, <2>1, <2>2, <2>3, <2>4 DEF Begins
<1>8. ASSUME k \in Watch!Keys, ~Lifted(k), NEW a \in Actions, NEW b \in Actions
      PROVE  /\ <<Watch!Does(k, pressed[k].press, a)>> \in Seq(Presses)
             /\ <<Watch!Does(k, pressed[k].press, a), Watch!Does(k, pressed[k].press, b)>> \in Seq(Presses)
  <2>1. pressed[k].press \in 1..presses
    BY <1>3, <1>8 DEF KeyShape
  <2>2. Watch!Does(k, pressed[k].press, a) \in Presses /\ Watch!Does(k, pressed[k].press, b) \in Presses
    BY <1>3, <1>8, <2>1
  <2> HIDE DEF Presses
  <2> QED
    BY <2>2
<1>9. CASE e \in Happened /\ run_' = "sending" /\ e.value = 0 /\ Ends(k)
  <2>1. k \in Watch!Keys
    BY <1>9 DEF Happened
  <2>2. out' \in Seq(Presses)
    <3>1. out' = <<>> \/ \E a, b \in Actions :
             /\ ~Lifted(k)
             /\ \/ out' = <<Watch!Does(k, pressed[k].press, a)>>
                \/ out' = <<Watch!Does(k, pressed[k].press, a), Watch!Does(k, pressed[k].press, b)>>
      BY <1>9 DEF Ends, Actions
    <3> HIDE DEF Presses
    <3>2. CASE out' = <<>>
      BY <3>2
    <3>3. CASE out' # <<>>
      BY <1>8, <2>1, <3>1, <3>3, Zenon
    <3> QED
      BY <3>2, <3>3
  <2>3. pressed' \in [Watch!Keys -> States0]
    <3> HIDE DEF States0
    <3> QED
      BY <1>3, <1>9, <2>1 DEF Ends
  <2> QED
    BY <1>6, <1>9, <2>1, <2>2, <2>3 DEF Ends
<1>10. CASE e \in Happened /\ run_' = "sending" /\ e.value = 2 /\ Goes(k)
  <2>1. k \in Watch!Keys
    BY <1>10 DEF Happened
  <2>2. out' \in Seq(Presses)
    <3>1. out' = <<>> \/ \E a \in Actions : ~Lifted(k) /\ out' = <<Watch!Does(k, pressed[k].press, a)>>
      BY <1>10 DEF Goes, Actions
    <3> HIDE DEF Presses
    <3>2. CASE out' = <<>>
      BY <3>2
    <3>3. CASE out' # <<>>
      BY <1>8, <2>1, <3>1, <3>3, Zenon
    <3> QED
      BY <3>2, <3>3
  <2>3. pressed' \in [Watch!Keys -> States0]
    BY <1>3, <1>10 DEF Goes
  <2> QED
    BY <1>6, <1>10, <2>1, <2>2, <2>3 DEF Goes
<1> QED
  BY <1>1, <1>5, <1>7, <1>9, <1>10

\* So is what a timer that was due says.
LEMMA TypesAreHeld ==
    ASSUME PressTypes, KeyShape, TimerShape, NEW i \in DOMAIN due, Watch!handleHold(i) \/ Watch!handleRepeat(i)
    PROVE  PressTypes'
<1> DEFINE k == due[i].key
           Presses == [key : Watch!Keys, press : 1..presses, action : Actions]
           States0 == [press : 0..presses, hold : BOOLEAN]
<1>1. /\ run_' = "sending" /\ UNCHANGED <<down, old, presses, stream, gen, armed, log>> /\ ~Lifted(k)
      /\ due' = Watch!RemoveAt(due, i) /\ after' \in {Watch!NoTimer, due[i]}
      /\ pressed' \in {pressed, [pressed EXCEPT ![k].hold = TRUE]}
      /\ \/ out' = <<>>
         \/ \E a \in Actions : out' = <<Watch!Does(k, pressed[k].press, a)>>
  <2>1. CASE Watch!handleHold(i)
    BY <2>1, HoldOutcome DEF HoldBegins, Actions
  <2>2. CASE Watch!handleRepeat(i)
    BY <2>2, RepeatOutcome DEF RepeatGoesOn, Actions
  <2> QED
    BY <2>1, <2>2
<1>2. due \in Seq(Timers) /\ due[i] \in Timers /\ k \in Watch!Keys
      /\ pressed \in [Watch!Keys -> States0]
  <2>1. due \in Seq(Timers) /\ pressed \in [Watch!Keys -> States0]
    BY DEF PressTypes
  <2>2. due[i] \in Timers
    BY <2>1
  <2> QED
    BY <2>1, <2>2 DEF Timers
<1>3. due' \in Seq(Timers)
  BY <1>1, <1>2, RemoveAtLeaves
<1>4. pressed' \in [Watch!Keys -> States0]
  BY <1>1, <1>2
<1>5. out' \in Seq(Presses)
  <2>1. pressed[k].press \in 1..presses
    BY <1>1, <1>2 DEF KeyShape, PressTypes
  <2>2. \A a \in Actions : Watch!Does(k, pressed[k].press, a) \in Presses
    BY <1>2, <2>1 DEF Watch!Does
  <2> HIDE DEF Presses
  <2>3. \A a \in Actions : <<Watch!Does(k, pressed[k].press, a)>> \in Seq(Presses)
    BY <2>2
  <2>4. CASE out' = <<>>
    BY <2>4
  <2>5. CASE out' # <<>>
    BY <1>1, <2>3, <2>5, Zenon
  <2> QED
    BY <2>4, <2>5
<1> QED
  BY <1>1, <1>2, <1>3, <1>4, <1>5 DEF PressTypes

\* A press that was taken leaves the others, and is said once.
LEMMA TypesAreSent ==
    ASSUME PressTypes, Watch!sendPress
    PROVE  PressTypes'
<1> DEFINE h == out[1]
           Presses == [key : Watch!Keys, press : 1..presses, action : Actions]
<1>1. /\ out # <<>> /\ out' = Tail(out) /\ h.press \in Watch!Ids /\ h.action \in Actions
      /\ log' = [log EXCEPT ![h.press] = Append(log[h.press], h.action)]
      /\ UNCHANGED <<down, old, presses, stream, run_, after, pressed, gen, armed, due>> /\ run_ = "sending"
  BY SendOutcome
<1>2. out' \in Seq(Presses)
  <2>1. out \in Seq(Presses)
    BY DEF PressTypes
  <2> HIDE DEF Presses
  <2> QED
    BY <1>1, <2>1
<1>3. log' \in [Watch!Ids -> Seq(Actions)]
  <2>1. log \in [Watch!Ids -> Seq(Actions)]
    BY DEF PressTypes
  <2>2. Append(log[h.press], h.action) \in Seq(Actions)
    BY <1>1, <2>1
  <2> HIDE DEF h
  <2> QED
    BY <1>1, <2>1, <2>2
<1> QED
  BY <1>1, <1>2, <1>3 DEF PressTypes

\* Timers that start, fire or stop are timers.
LEMMA TypesAreTimed ==
    ASSUME PressTypes, TimerShape,
           \/ Watch!Resume \/ Watch!Return \/ Watch!Cancel
           \/ \E i \in DOMAIN due : Watch!Obsolete(i)
           \/ \E t \in armed : Watch!Fire(t)
    PROVE  PressTypes'
<1>1. CASE Watch!Cancel
  BY <1>1 DEF Watch!Cancel, Watch!input, PressTypes
<1>2. CASE Watch!Return
  <2>1. /\ run_' \in {"stopped", "eof", "error"} /\ armed' = {}
        /\ UNCHANGED <<Watch!input, stream, out, after, pressed, gen, due, log>>
    <3>1. CASE cancelled /\ run_' = "stopped"
      BY <1>2, <3>1 DEF Watch!Return
    <3>2. CASE /\ stream # <<>> /\ Head(stream).key = "end"
               /\ run_' = IF cancelled THEN "stopped" ELSE Head(stream).value
      <4>1. Head(stream) \in Happened \cup Marks
        BY <3>2, TailIsRest DEF PressTypes
      <4>2. Head(stream) \in Marks
        BY <3>2, <4>1, KeysApart DEF Happened
      <4> QED
        BY <1>2, <3>2, <4>2 DEF Watch!Return, Marks
    <3> QED
      BY <1>2, <3>1, <3>2 DEF Watch!Return
  <2> QED
    BY <2>1 DEF Watch!input, PressTypes
<1>3. ASSUME NEW i \in DOMAIN due, Watch!Obsolete(i) PROVE PressTypes'
  <2>1. due' \in Seq(Timers)
    BY <1>3, RemoveAtLeaves DEF Watch!Obsolete, Watch!Taken, PressTypes
  <2> QED
    BY <1>3, <2>1 DEF Watch!Obsolete, Watch!input, PressTypes
<1>4. ASSUME NEW t \in armed, Watch!Fire(t) PROVE PressTypes'
  <2>1. t \in Timers /\ due' = Append(due, t) /\ armed' = armed \ {t}
    BY <1>4 DEF Watch!Fire, PressTypes
  <2>2. due' \in Seq(Timers)
    BY <2>1, AppendIsLast DEF PressTypes
  <2> QED
    BY <1>4, <2>1, <2>2 DEF Watch!Fire, Watch!input, PressTypes
<1>5. CASE Watch!Resume
  <2> DEFINE next == IF after.gen = 0 THEN gen[after.key] + 1 ELSE after.gen
  <2>1. /\ run_' = "select" /\ out = <<>> /\ after' = Watch!NoTimer
        /\ UNCHANGED <<down, old, presses, stream, out, pressed, due, log>>
        /\ IF after = Watch!NoTimer THEN UNCHANGED <<gen, armed>>
           ELSE /\ gen' = [gen EXCEPT ![after.key] = next]
                /\ armed' \subseteq armed \cup {[after EXCEPT !.gen = next]}
    BY <1>5 DEF Watch!Resume, Watch!input, Watch!Stopped
  <2>2. gen' \in [Watch!Keys -> Nat] /\ armed' \subseteq Timers
    <3>1. CASE after = Watch!NoTimer
      BY <2>1, <3>1 DEF PressTypes
    <3>2. CASE after # Watch!NoTimer
      <4>1. after \in Timers /\ gen \in [Watch!Keys -> Nat] /\ armed \subseteq Timers
        BY <3>2 DEF PressTypes
      <4>2. next \in Nat
        BY <4>1 DEF Timers
      <4> HIDE DEF next
      <4>3. [after EXCEPT !.gen = next] \in Timers
        BY <4>1, <4>2 DEF Timers
      <4> QED
        BY <2>1, <3>2, <4>1, <4>2, <4>3
    <3> QED
      BY <3>1, <3>2
  <2> QED
    BY <2>1, <2>2 DEF PressTypes
<1> QED
  BY <1>1, <1>2, <1>3, <1>4, <1>5

-----------------------------------------------------------------------------
(* The buttons: what is said of a press.                                   *)

\* A step that says nothing and hears nothing changes nothing of that.
LEMMA GesturesAreLeft ==
    ASSUME PressTypes, GestureShape, UNCHANGED <<out, log, pressed>>, presses' \in Nat, presses <= presses'
    PROVE  GestureShape'
<1>1. OutShape'
  <2>1. presses \in Nat /\ 1..presses \subseteq 1..presses'
    BY DEF PressTypes
  <2> QED
    BY <2>1 DEF GestureShape, OutShape, Says1, SaysHold
<1> QED
  BY <1>1 DEF GestureShape, HoldSaid, VolumeSaid, Says1, Watch!GestureIsWellFormed

\* When all that was to say has been said, a press under way is a hold that has
\* started, or nothing yet, or a tap and its repeats.
Settled ==
    /\ \A k \in Holdable : pressed[k].press # 0 =>
           log[pressed[k].press] = IF pressed[k].hold THEN <<"hold-start">> ELSE <<>>
    /\ \A k \in Repeating : pressed[k].press # 0 => Volume(log[pressed[k].press])
LEMMA SilenceSettles ==
    ASSUME GestureShape, out = <<>>
    PROVE  Settled
<1>1. \A p, s : ~Says1(p, s)
  BY DEF Says1
<1> QED
  BY <1>1 DEF GestureShape, HoldSaid, VolumeSaid, Settled

\* What is told of one press does not concern the presses of other keys.
LEMMA OthersKeepQuiet ==
    ASSUME Settled, UNCHANGED log, NEW p, Tells(p), NEW k, NEW l \in Watch!Keys, l # k,
           pressed'[l] = pressed[l], pressed[l].press \in {0} \/ pressed[l].press # p
    PROVE  /\ l \in Holdable => HoldSaid(l)'
           /\ l \in Repeating => VolumeSaid(l)'
  BY DEF Settled, Tells, HoldSaid, VolumeSaid

\* A sentence of one word, and one of two.
LEMMA Words ==
    ASSUME NEW l, NEW p, NEW a, NEW b, out' \in {<<>>, <<Watch!Does(l, p, a)>>, <<Watch!Does(l, p, a), Watch!Does(l, p, b)>>}
    PROVE  /\ Tells(p)
           /\ out' = <<Watch!Does(l, p, a)>> => Says1(p, a)'
           /\ out' = <<Watch!Does(l, p, a), Watch!Does(l, p, b)>> /\ a = "hold-start" /\ b = "hold-end" => SaysHold(p)'
  BY DEF Tells, Says1, SaysHold, Watch!Does

\* The recognizer says of a press what is left to say.
LEMMA GesturesAreHeard ==
    ASSUME PressTypes, KeyShape, PressShape, GestureShape, Watch!handleEvent
    PROVE  GestureShape'
<1> DEFINE e == Head(stream)
<1>0. PICK k : k = e.key
  OBVIOUS
<1>1. /\ stream # <<>> /\ e = stream[1] /\ e.key = k /\ UNCHANGED <<presses, log>> /\ out = <<>>
      /\ \/ k \notin Watch!Keys /\ UNCHANGED <<out, pressed>>
         \/ /\ e \in Happened
            /\ \/ e.value = 1 /\ Begins(k, e.press)
               \/ e.value = 0 /\ Ends(k)
               \/ e.value = 2 /\ Goes(k)
  BY <1>0, EventOutcome
<1> HIDE DEF e
<1>2. 1 \in Spots
  BY <1>1, TailIsRest DEF Spots, PressTypes
<1>3. Settled /\ Watch!GestureIsWellFormed'
  BY <1>1, SilenceSettles DEF GestureShape, Watch!GestureIsWellFormed
<1>4. presses \in Nat /\ pressed \in [Watch!Keys -> [press : 0..presses, hold : BOOLEAN]]
  BY DEF PressTypes
<1>5. CASE UNCHANGED <<out, pressed>>
  BY <1>1, <1>4, <1>5, GesturesAreLeft
<1>6. CASE e \in Happened /\ e.value = 1 /\ Begins(k, e.press)
  <2>0. PICK p : p = e.press
    OBVIOUS
  <2>1. k \in Watch!Keys /\ PressAt(1, k)
    BY <1>1, <1>6 DEF Happened, PressAt
  <2>2. p \in 1..presses /\ log'[p] = <<>> /\ \A l \in Watch!Keys : pressed[l].press # p
    BY <1>1, <1>2, <2>0, <2>1 DEF PressShape, Unread
  <2>3. /\ pressed' = [pressed EXCEPT ![k] = [press |-> p, hold |-> FALSE]]
        /\ out' = IF k \in Holdable THEN <<>> ELSE <<Watch!Does(k, p, "tap")>>
    BY <1>6, <2>0 DEF Begins
  <2>4. pressed'[k].press = p /\ pressed'[k].hold = FALSE /\ \A l \in Watch!Keys : l # k => pressed'[l] = pressed[l]
    BY <1>4, <2>1, <2>3
  <2>5. Tells(p) /\ (k \notin Holdable => Says1(p, "tap")')
    BY <2>3, Words
  <2>6. OutShape'
    BY <1>1, <2>2, <2>3, <2>5 DEF OutShape
  <2>7. ASSUME NEW l \in Watch!Keys, l # k PROVE (l \in Holdable => HoldSaid(l)') /\ (l \in Repeating => VolumeSaid(l)')
    <3>1. pressed[l].press \in {0} \/ pressed[l].press # p
      BY <2>2
    <3>2. pressed'[l] = pressed[l] /\ Tells(p) /\ UNCHANGED log
      BY <1>1, <2>4, <2>5, <2>7
    <3> QED
      BY <1>3, <2>7, <3>1, <3>2, OthersKeepQuiet
  <2>8. k \in Holdable => HoldSaid(k)'
    BY <2>2, <2>3, <2>4 DEF HoldSaid
  <2>9. k \in Repeating => VolumeSaid(k)'
    BY <2>2, <2>4, <2>5, KeysApart DEF VolumeSaid
  <2> QED
    BY <1>3, <2>6, <2>7, <2>8, <2>9, KeysApart DEF GestureShape
<1>7. CASE e \in Happened /\ e.value = 0 /\ Ends(k)
  <2>0. PICK p : p = pressed[k].press
    OBVIOUS
  <2>1. k \in Watch!Keys
    BY <1>1, <1>7 DEF Happened
  <2>2. pressed' = [pressed EXCEPT ![k] = Watch!Up]
    BY <1>7 DEF Ends
  <2>3. /\ pressed'[k].press = 0 /\ \A l \in Watch!Keys : l # k => pressed'[l] = pressed[l]
    BY <1>4, <2>1, <2>2 DEF Watch!Up
  <2>4. \/ out' = <<>>
        \/ /\ k \in Holdable /\ ~Lifted(k)
           /\ \/ out' = <<Watch!Does(k, p, "tap")>>
              \/ pressed[k].hold /\ out' = <<Watch!Does(k, p, "hold-end")>>
              \/ ~pressed[k].hold /\ out' = <<Watch!Does(k, p, "hold-start"), Watch!Does(k, p, "hold-end")>>
    BY <1>7, <2>0 DEF Ends
  <2>5. Tells(p)
    BY <2>4, Words
  <2>6. OutShape'
    <3>1. CASE out' = <<>>
      BY <3>1 DEF OutShape
    <3>2. CASE k \in Holdable /\ ~Lifted(k)
      <4>1. p \in 1..presses' /\ log'[p] = IF pressed[k].hold THEN <<"hold-start">> ELSE <<>>
        BY <1>1, <1>3, <1>4, <2>0, <2>1, <3>2 DEF KeyShape, Settled
      <4>2. CASE out' = <<Watch!Does(k, p, "tap")>>
        <5>1. Says1(p, "tap")'
          BY <4>2, Words
        <5> QED
          BY <4>1, <5>1 DEF OutShape
      <4>3. CASE pressed[k].hold /\ out' = <<Watch!Does(k, p, "hold-end")>>
        <5>1. Says1(p, "hold-end")'
          BY <4>3, Words
        <5> QED
          BY <4>1, <4>3, <5>1 DEF OutShape
      <4>4. CASE ~pressed[k].hold /\ out' = <<Watch!Does(k, p, "hold-start"), Watch!Does(k, p, "hold-end")>>
        <5>1. SaysHold(p)'
          BY <4>4, Words
        <5> QED
          BY <4>1, <4>4, <5>1 DEF OutShape
      <4> QED
        BY <2>4, <3>1, <4>2, <4>3, <4>4
    <3> QED
      BY <2>4, <3>1, <3>2
  <2>7. ASSUME NEW l \in Watch!Keys, l # k PROVE (l \in Holdable => HoldSaid(l)') /\ (l \in Repeating => VolumeSaid(l)')
    <3>1. pressed[l].press \in {0} \/ pressed[l].press # p
      BY <2>0, <2>1, <2>7 DEF PressShape
    <3> QED
      BY <1>1, <1>3, <2>3, <2>5, <2>7, <3>1, OthersKeepQuiet
  <2>8. HoldSaid(k)' /\ VolumeSaid(k)'
    BY <2>3 DEF HoldSaid, VolumeSaid
  <2> QED
    BY <1>3, <2>6, <2>7, <2>8, KeysApart DEF GestureShape
<1>8. CASE e \in Happened /\ e.value = 2 /\ Goes(k)
  <2>0. PICK p : p = pressed[k].press
    OBVIOUS
  <2>1. k \in Watch!Keys /\ UNCHANGED pressed
    BY <1>1, <1>8 DEF Happened, Goes
  <2>2. CASE out' = <<>>
    BY <1>1, <1>4, <2>1, <2>2, GesturesAreLeft
  <2>3. CASE k \in Repeating /\ ~Lifted(k) /\ out' = <<Watch!Does(k, p, "repeat")>>
    <3>1. p \in 1..presses /\ Volume(log'[p])
      BY <1>1, <1>3, <1>4, <2>0, <2>1, <2>3 DEF KeyShape, Settled
    <3>2. Tells(p) /\ Says1(p, "repeat")'
      BY <2>3, Words
    <3>3. OutShape'
      BY <1>1, <3>1, <3>2 DEF OutShape
    <3>4. ASSUME NEW l \in Watch!Keys, l # k PROVE (l \in Holdable => HoldSaid(l)') /\ (l \in Repeating => VolumeSaid(l)')
      <4>1. pressed[l].press \in {0} \/ pressed[l].press # p
        BY <2>0, <2>1, <3>4 DEF PressShape
      <4> QED
        BY <1>1, <1>3, <2>1, <3>2, <3>4, <4>1, OthersKeepQuiet
    <3>5. VolumeSaid(k)'
      BY <2>0, <2>1, <3>1 DEF VolumeSaid
    <3> QED
      BY <1>3, <2>3, <3>3, <3>4, <3>5, KeysApart DEF GestureShape
  <2> QED
    BY <1>8, <2>0, <2>2, <2>3 DEF Goes
<1> QED
  BY <1>1, <1>5, <1>6, <1>7, <1>8

\* So does a timer: the start of a hold of a press of which nothing was said, or
\* one more repeat.
LEMMA GesturesAreHeld ==
    ASSUME PressTypes, KeyShape, PressShape, TimerShape, GestureShape, NEW i \in DOMAIN due,
           Watch!handleHold(i) \/ Watch!handleRepeat(i)
    PROVE  GestureShape'
<1>k. PICK k : k = due[i].key
  OBVIOUS
<1>0. PICK p : p = pressed[k].press
  OBVIOUS
<1>1. /\ out = <<>> /\ UNCHANGED <<presses, log>> /\ ~Lifted(k)
      /\ \/ /\ k \in Holdable /\ pressed' = [pressed EXCEPT ![k].hold = TRUE]
            /\ out' = IF pressed[k].hold THEN <<>> ELSE <<Watch!Does(k, p, "hold-start")>>
         \/ k \in Repeating /\ UNCHANGED pressed /\ out' = <<Watch!Does(k, p, "repeat")>>
  BY <1>k, <1>0, HoldOutcome, RepeatOutcome DEF HoldBegins, RepeatGoesOn
<1>2. Settled /\ Watch!GestureIsWellFormed'
  BY <1>1, SilenceSettles DEF GestureShape, Watch!GestureIsWellFormed
<1>3. presses \in Nat /\ pressed \in [Watch!Keys -> [press : 0..presses, hold : BOOLEAN]]
  BY DEF PressTypes
<1>4. k \in Watch!Keys
  <2>1. due \in Seq(Timers)
    BY DEF PressTypes
  <2>2. due[i] \in Timers
    BY <2>1
  <2> QED
    BY <1>k, <2>2 DEF Timers
<1>5. p \in 1..presses'
  BY <1>0, <1>1, <1>3, <1>4 DEF KeyShape
<1>6. pressed'[k].press = p /\ \A l \in Watch!Keys : l # k => pressed'[l] = pressed[l]
  BY <1>0, <1>1, <1>3, <1>4
<1>7. Tells(p)
  BY <1>1, Words
<1>8. ASSUME NEW l \in Watch!Keys, l # k PROVE (l \in Holdable => HoldSaid(l)') /\ (l \in Repeating => VolumeSaid(l)')
  <2>1. pressed[l].press \in {0} \/ pressed[l].press # p
    BY <1>0, <1>4, <1>8 DEF PressShape
  <2> QED
    BY <1>1, <1>2, <1>6, <1>7, <1>8, <2>1, OthersKeepQuiet
<1>9. CASE k \in Holdable
  <2>1. log'[p] = IF pressed[k].hold THEN <<"hold-start">> ELSE <<>>
    BY <1>0, <1>1, <1>2, <1>3, <1>5, <1>9 DEF Settled
  <2>2. pressed'[k].hold
    <3>1. pressed' = [pressed EXCEPT ![k].hold = TRUE]
      BY <1>1, <1>9, KeysApart
    <3> QED
      BY <1>3, <1>4, <3>1
  <2>3. CASE pressed[k].hold
    <3>1. out' = <<>>
      BY <1>1, <1>9, <2>3, KeysApart
    <3>2. OutShape' /\ HoldSaid(k)'
      BY <1>6, <2>1, <2>2, <2>3, <3>1 DEF OutShape, HoldSaid
    <3> QED
      BY <1>2, <1>8, <1>9, <3>2, KeysApart DEF GestureShape
  <2>4. CASE ~pressed[k].hold
    <3>1. Says1(p, "hold-start")'
      BY <1>1, <1>9, <2>4, KeysApart, Words
    <3>2. OutShape' /\ HoldSaid(k)'
      BY <1>5, <1>6, <2>1, <2>2, <2>4, <3>1 DEF OutShape, HoldSaid
    <3> QED
      BY <1>2, <1>8, <1>9, <3>2, KeysApart DEF GestureShape
  <2> QED
    BY <2>3, <2>4
<1>10. CASE k \in Repeating
  <2>1. Says1(p, "repeat")' /\ Volume(log'[p])
    <3>1. out' = <<Watch!Does(k, p, "repeat")>>
      BY <1>1, <1>10, KeysApart
    <3>2. Says1(p, "repeat")'
      BY <3>1, Words
    <3> QED
      BY <1>0, <1>1, <1>2, <1>3, <1>5, <1>10, <3>2 DEF Settled
  <2>2. OutShape' /\ VolumeSaid(k)'
    BY <1>5, <1>6, <2>1 DEF OutShape, VolumeSaid
  <2> QED
    BY <1>2, <1>8, <1>10, <2>2, KeysApart DEF GestureShape
<1> QED
  BY <1>1, <1>9, <1>10

\* What the consumer takes is the next word of its press, and all of it is a
\* gesture.
LEMMA GesturesAreSent ==
    ASSUME PressTypes, GestureShape, Watch!sendPress
    PROVE  GestureShape'
<1>p. PICK p, a, n : p = out[1].press /\ a = out[1].action /\ n = Len(out)
  OBVIOUS
<1>1. /\ out # <<>> /\ out' = Tail(out) /\ p \in 1..presses /\ p \in Watch!Ids /\ a \in Actions
      /\ log' = [log EXCEPT ![p] = Append(log[p], a)]
      /\ UNCHANGED <<presses, pressed>>
  BY <1>p, SendOutcome
<1>2. /\ log'[p] = Append(log[p], a) /\ log[p] \in Seq(Actions)
      /\ \A q : q # p => log'[q] = log[q]
  <2>1. log \in [Watch!Ids -> Seq(Actions)]
    BY DEF PressTypes
  <2>2. log'[p] = Append(log[p], a) /\ log[p] \in Seq(Actions)
    BY <1>1, <2>1
  <2>3. \A q : q # p => log'[q] = log[q]
    BY <1>1, <2>1
  <2> QED
    BY <2>2, <2>3
<1>3. /\ n \in Nat \ {0} /\ Len(out') = n - 1 /\ DOMAIN out = 1..n /\ DOMAIN out' = 1..(n - 1)
      /\ \A i \in DOMAIN out' : i + 1 \in DOMAIN out /\ out'[i] = out[i + 1]
  <2>1. out \in Seq([key : Watch!Keys, press : 1..presses, action : Actions])
    BY DEF PressTypes
  <2> QED
    BY <1>p, <1>1, <2>1, TailIsRest
<1>4. \A q : (\A i \in DOMAIN out : out[i].press # q) => q # p /\ \A i \in DOMAIN out' : out'[i].press # q
  BY <1>p, <1>3
<1>5. \A q, s : Says1(q, s) => q = p /\ s = a /\ n = 1
  BY <1>p DEF Says1
<1>6. n = 1 => out' = <<>>
  BY <1>1, <1>3
<1>7. /\ ~Volume(<<>>) /\ ~Volume(<<"hold-start">>)
      /\ <<"tap">> \in Watch!Gestures /\ <<"hold-start">> \in Watch!Gestures
      /\ <<"hold-start", "tap">> \in Watch!Gestures /\ <<"hold-start", "hold-end">> \in Watch!Gestures
  BY DEF Volume, Watch!Gestures
<1>8. \/ n = 1 /\ a = "tap" /\ log[p] = <<>> /\ log'[p] = <<"tap">> /\ Volume(log'[p])
      \/ n = 1 /\ a = "tap" /\ log[p] = <<"hold-start">> /\ log'[p] = <<"hold-start", "tap">>
      \/ n = 1 /\ a = "repeat" /\ Volume(log[p]) /\ Volume(log'[p])
      \/ n = 1 /\ a = "hold-start" /\ log[p] = <<>> /\ log'[p] = <<"hold-start">>
      \/ n = 1 /\ a = "hold-end" /\ log[p] = <<"hold-start">> /\ log'[p] = <<"hold-start", "hold-end">>
      \/ SaysHold(p) /\ a = "hold-start" /\ log[p] = <<>> /\ log'[p] = <<"hold-start">>
  <2>1. PICK q \in 1..presses :
            \/ Says1(q, "tap") /\ log[q] \in {<<>>, <<"hold-start">>}
            \/ Says1(q, "repeat") /\ Volume(log[q])
            \/ Says1(q, "hold-start") /\ log[q] = <<>>
            \/ Says1(q, "hold-end") /\ log[q] = <<"hold-start">>
            \/ SaysHold(q) /\ log[q] = <<>>
    BY <1>1 DEF GestureShape, OutShape
  <2>2. "tap" \in Actions /\ "hold-start" \in Actions /\ "hold-end" \in Actions
    BY DEF Actions
  <2>3. CASE Says1(q, "tap") /\ log[q] \in {<<>>, <<"hold-start">>}
    <3>1. q = p /\ a = "tap" /\ n = 1
      BY <1>5, <2>3
    <3>2. CASE log[p] = <<>>
      BY <1>2, <3>1, <3>2, GesturesGrow
    <3>3. CASE log[p] = <<"hold-start">>
      BY <1>2, <2>2, <3>1, <3>3, GesturesGrow
    <3> QED
      BY <2>3, <3>1, <3>2, <3>3
  <2>4. CASE Says1(q, "repeat") /\ Volume(log[q])
    BY <1>2, <1>5, <2>4, GesturesGrow
  <2>5. CASE Says1(q, "hold-start") /\ log[q] = <<>>
    BY <1>2, <1>5, <2>5, GesturesGrow
  <2>6. CASE Says1(q, "hold-end") /\ log[q] = <<"hold-start">>
    BY <1>2, <1>5, <2>2, <2>6, GesturesGrow
  <2>7. CASE SaysHold(q) /\ log[q] = <<>>
    <3>1. q = p /\ a = "hold-start"
      BY <1>p, <2>7 DEF SaysHold
    <3> QED
      BY <1>2, <2>7, <3>1, GesturesGrow
  <2> QED
    BY <2>1, <2>3, <2>4, <2>5, <2>6, <2>7
<1>9. SaysHold(p) => Says1(p, "hold-end")'
  BY <1>p, <1>3 DEF SaysHold, Says1
<1>10. OutShape'
  <2>1. CASE n = 1
    BY <1>6, <2>1 DEF OutShape
  <2>2. CASE SaysHold(p) /\ log'[p] = <<"hold-start">>
    BY <1>1, <1>9, <2>2 DEF OutShape
  <2> QED
    BY <1>8, <2>1, <2>2
<1>11. Watch!GestureIsWellFormed'
  <2>1. log'[p] \in Watch!Gestures \/ Volume(log'[p])
    BY <1>7, <1>8
  <2>2. \A q \in Watch!Ids : log'[q] \in Watch!Gestures
                             \/ (log'[q][1] = "tap" /\ \A i \in 2..Len(log'[q]) : log'[q][i] = "repeat")
    <3> TAKE q \in Watch!Ids
    <3>1. CASE q = p
      BY <2>1, <3>1 DEF Volume
    <3>2. CASE q # p
      BY <1>2, <3>2 DEF GestureShape, Watch!GestureIsWellFormed
    <3> QED
      BY <3>1, <3>2
  <2> QED
    BY <2>2 DEF Watch!GestureIsWellFormed
<1>12. ASSUME NEW k \in Holdable PROVE HoldSaid(k)'
  <2>1. PICK q : q = pressed[k].press
    OBVIOUS
  <2>2. HoldSaid(k)
    BY DEF GestureShape
  <2>3. CASE q = 0
    BY <1>1, <2>1, <2>3 DEF HoldSaid
  <2>4. CASE q # 0 /\ \A i \in DOMAIN out : out[i].press # q
    <3>1. log'[q] = log[q] /\ \A i \in DOMAIN out' : out'[i].press # q
      BY <1>2, <1>4, <2>4
    <3>2. log[q] = IF pressed[k].hold THEN <<"hold-start">> ELSE <<>>
      <4>1. ~Says1(q, "hold-start")
        BY <1>3, <2>4 DEF Says1
      <4> QED
        BY <2>1, <2>2, <2>4, <4>1 DEF HoldSaid
    <3> QED
      BY <1>1, <2>1, <3>1, <3>2 DEF HoldSaid
  <2>5. CASE q # 0 /\ pressed[k].hold /\ log[q] = <<>> /\ Says1(q, "hold-start")
    <3>1. q = p /\ a = "hold-start" /\ n = 1 /\ out' = <<>>
      BY <1>5, <1>6, <2>5
    <3>2. log'[q] = <<"hold-start">>
      BY <1>2, <2>5, <3>1, GesturesGrow
    <3> QED
      BY <1>1, <2>1, <2>5, <3>1, <3>2 DEF HoldSaid
  <2> QED
    BY <2>1, <2>2, <2>3, <2>4, <2>5 DEF HoldSaid
<1>13. ASSUME NEW k \in Repeating PROVE VolumeSaid(k)'
  <2>1. PICK q : q = pressed[k].press
    OBVIOUS
  <2>2. VolumeSaid(k)
    BY DEF GestureShape
  <2>3. q # 0 => Volume(log[q]) \/ (log[q] = <<>> /\ Says1(q, "tap"))
    BY <2>1, <2>2 DEF VolumeSaid
  <2>4. q # 0 => Volume(log'[q])
    <3>1. CASE q # p
      BY <1>2, <1>5, <2>3, <3>1
    <3>2. CASE q = p
      BY <1>5, <1>7, <1>8, <2>3, <3>2
    <3> QED
      BY <3>1, <3>2
  <2> QED
    BY <1>1, <2>1, <2>4 DEF VolumeSaid
<1> QED
  BY <1>10, <1>11, <1>12, <1>13 DEF GestureShape

-----------------------------------------------------------------------------
(* The buttons: all of it.                                                 *)

\* A watcher starts with a key down or none, and has said nothing.
LEMMA WatcherStarts == Watch!Init => PressIInv
<1> SUFFICES ASSUME Watch!Init PROVE PressIInv
  OBVIOUS
<1>1. /\ old = {} /\ stream = <<>> /\ run_ = "select" /\ out = <<>> /\ after = Watch!NoTimer
      /\ pressed = [k \in Watch!Keys |-> Watch!Up] /\ gen = [k \in Watch!Keys |-> 0]
      /\ armed = {} /\ due = <<>> /\ log = [p \in Watch!Ids |-> <<>>]
  BY DEF Watch!Init
<1>2. presses \in 0..MaxPresses /\ down \in [Watch!Keys -> 0..MaxPresses]
  <2>1. CASE down = [k \in Watch!Keys |-> 0] /\ presses = 0
    BY <2>1, PanelAssumption
  <2>2. ASSUME NEW key \in Watch!Keys, down = [k \in Watch!Keys |-> IF k = key THEN 1 ELSE 0], presses = 1
        PROVE  presses \in 0..MaxPresses /\ down \in [Watch!Keys -> 0..MaxPresses]
    BY <2>2, PanelAssumption
  <2> QED
    BY <2>1, <2>2 DEF Watch!Init
<1>3. PressTypes
  BY <1>1, <1>2 DEF PressTypes, Watch!Up
<1>4. Spots = {} /\ \A k \in Watch!Keys : Lifted(k) /\ pressed[k].press = 0
  BY <1>1 DEF Spots, Lifted, Watch!Up
<1>5. KeyShape
  BY <1>4 DEF KeyShape
<1>6. PressShape
  <2>1. \A p \in Watch!Ids : p > presses => Unread(p)
    BY <1>1, <1>2, <1>4 DEF Unread
  <2> QED
    BY <1>4, <2>1 DEF PressShape
<1>7. TimerShape
  BY <1>1 DEF TimerShape
<1>8. GestureShape
  <2>1. Watch!GestureIsWellFormed
    BY <1>1 DEF Watch!GestureIsWellFormed, Watch!Gestures
  <2>2. \A k \in Watch!Keys : HoldSaid(k) /\ VolumeSaid(k)
    BY <1>4 DEF HoldSaid, VolumeSaid
  <2> QED
    BY <1>1, <2>1, <2>2, KeysApart DEF GestureShape, OutShape
<1> QED
  BY <1>3, <1>5, <1>6, <1>7, <1>8 DEF PressIInv

\* Most steps say, read and type nothing.
LEMMA RestIsLeft ==
    ASSUME PressTypes, KeyShape, PressShape, GestureShape, UNCHANGED <<down, stream, presses, pressed, out, log>>
    PROVE  KeyShape' /\ PressShape' /\ GestureShape'
<1>1. KeyShape'
  BY KeysAreLeft DEF Lifted
<1>2. PressShape'
  BY PressesAreLeft DEF Unread
<1>3. GestureShape'
  BY GesturesAreLeft DEF PressTypes
<1> QED
  BY <1>1, <1>2, <1>3

\* PressIInv is inductive.
LEMMA PressContinues == PressIInv /\ [Watch!Next]_Watch!vars => PressIInv'
<1> SUFFICES ASSUME PressIInv, [Watch!Next]_Watch!vars PROVE PressIInv'
  OBVIOUS
<1>0. PressTypes /\ KeyShape /\ PressShape /\ TimerShape /\ GestureShape
  BY DEF PressIInv
<1>1. CASE Watch!Keyboard
  <2>1. Watches /\ PressTypes'
    BY <1>0, <1>1, KeyboardOutcome, TypesAreTyped
  <2>2. presses \in Nat /\ presses' \in Nat /\ presses <= presses'
    <3>1. presses \in Nat /\ presses' \in Nat
      BY <1>0, <2>1 DEF PressTypes
    <3>2. presses' = presses \/ \E e \in Happened \cup Marks : Types(e)
      BY <1>0, <1>1, KeyboardOutcome
    <3>3. presses' \in {presses, presses + 1}
      BY <3>2 DEF Types
    <3> QED
      BY <3>1, <3>3
  <2>3. TimerShape'
    BY <1>0, <2>1, <2>2 DEF TimerShape, Mine, Current, Watches
  <2>4. GestureShape'
    BY <1>0, <2>1, <2>2, GesturesAreLeft DEF Watches
  <2>5. KeyShape' /\ PressShape'
    <3>1. CASE UNCHANGED <<down, stream, presses>>
      BY <1>0, <2>1, <3>1, RestIsLeft DEF Watches
    <3>2. ASSUME NEW e \in Happened \cup Marks, Types(e) PROVE KeyShape' /\ PressShape'
      <4>1. UNCHANGED pressed
        BY <2>1 DEF Watches
      <4> QED
        BY <1>0, <2>1, <3>2, <4>1, KeysAreTyped, PressesAreTyped
    <3> QED
      BY <1>0, <1>1, <3>1, <3>2, KeyboardOutcome
  <2> QED
    BY <2>1, <2>3, <2>4, <2>5 DEF PressIInv
<1>2. CASE Watch!Cancel
  <2>1. UNCHANGED <<down, stream, presses, pressed, out, log, gen, armed, due, after>>
    BY <1>2 DEF Watch!Cancel, Watch!input
  <2>2. TimerShape'
    BY <1>0, <2>1 DEF TimerShape, Mine, Current
  <2> QED
    BY <1>0, <1>2, <2>1, <2>2, TypesAreTimed, RestIsLeft DEF PressIInv
<1>3. CASE Watch!handleEvent
  BY <1>0, <1>3, TypesAreRead, KeysAreRead, PressesAreRead, TimersHearEvents, GesturesAreHeard DEF PressIInv
<1>4. CASE Watch!sendPress
  <2>1. /\ UNCHANGED <<down, stream, presses, pressed, gen, armed, due, after>> /\ out # <<>> /\ out' = Tail(out)
        /\ log' = [log EXCEPT ![out[1].press] = Append(log[out[1].press], out[1].action)]
    BY <1>0, <1>4, SendOutcome
  <2>2. out \in Seq([key : Watch!Keys, press : 1..presses, action : Actions]) /\ log \in [Watch!Ids -> Seq(Actions)]
    BY <1>0 DEF PressTypes
  <2>3. /\ 1 \in DOMAIN out
        /\ \A i \in DOMAIN out' : i + 1 \in DOMAIN out /\ out'[i] = out[i + 1]
    BY <2>1, <2>2, TailIsRest
  <2>4. \A p : Unread(p) => log'[p] = <<>> /\ \A i \in DOMAIN out' : out'[i].press # p
    BY <2>1, <2>2, <2>3 DEF Unread
  <2>5. KeyShape' /\ PressShape'
    BY <1>0, <2>1, <2>4, KeysAreLeft, PressesAreLeft DEF Lifted
  <2>6. TimerShape'
    BY <1>0, <2>1 DEF TimerShape, Mine, Current
  <2> QED
    BY <1>0, <1>4, <2>5, <2>6, TypesAreSent, GesturesAreSent DEF PressIInv
<1>5. CASE Watch!Resume
  <2>1. UNCHANGED <<down, stream, presses, pressed, out, log>>
    BY <1>5 DEF Watch!Resume, Watch!input
  <2> QED
    BY <1>0, <1>5, <2>1, TypesAreTimed, RestIsLeft, TimersAreStarted DEF PressIInv
<1>6. CASE Watch!Return
  <2>1. UNCHANGED <<down, stream, presses, pressed, out, log, gen, due, after>> /\ armed' = {}
    BY <1>6 DEF Watch!Return, Watch!input
  <2>2. TimerShape'
    BY <1>0, <2>1 DEF TimerShape, Mine, Current
  <2> QED
    BY <1>0, <1>6, <2>1, <2>2, TypesAreTimed, RestIsLeft DEF PressIInv
<1>7. ASSUME NEW i \in DOMAIN due, Watch!Obsolete(i) PROVE PressIInv'
  <2>1. UNCHANGED <<down, stream, presses, pressed, out, log, gen, armed, after>> /\ due' = Watch!RemoveAt(due, i)
        /\ after = Watch!NoTimer
    BY <1>0, <1>7 DEF Watch!Obsolete, Watch!Taken, Watch!input, PressTypes
  <2>2. due[i] # Watch!NoTimer
    <3>1. due \in Seq(Timers)
      BY <1>0 DEF PressTypes
    <3> QED
      BY <3>1, KeysApart
  <2>3. TimerShape'
    BY <1>0, <2>1, <2>2, TimersAreTaken
  <2> QED
    BY <1>0, <1>7, <2>1, <2>3, TypesAreTimed, RestIsLeft DEF PressIInv
<1>8. ASSUME NEW i \in DOMAIN due, Watch!handleHold(i) \/ Watch!handleRepeat(i) PROVE PressIInv'
  <2>k. PICK k : k = due[i].key
    OBVIOUS
  <2>1. /\ UNCHANGED <<down, stream, presses, log, gen, armed>> /\ due' = Watch!RemoveAt(due, i) /\ ~Lifted(k)
        /\ after' \in {Watch!NoTimer, due[i]} /\ (after' = Watch!NoTimer \/ (Current(due[i]) /\ k \in Repeating))
        /\ pressed' \in {pressed, [pressed EXCEPT ![k].hold = TRUE]}
        /\ out' = <<>> \/ \E a : out' = <<Watch!Does(k, pressed[k].press, a)>>
    <3>1. CASE Watch!handleHold(i)
      BY <1>0, <2>k, <3>1, HoldOutcome DEF HoldBegins
    <3>2. CASE Watch!handleRepeat(i)
      BY <1>0, <2>k, <3>2, RepeatOutcome DEF RepeatGoesOn
    <3> QED
      BY <1>8, <3>1, <3>2
  <2>2. k \in Watch!Keys /\ due[i] # Watch!NoTimer
    <3>1. due \in Seq(Timers)
      BY <1>0 DEF PressTypes
    <3>2. due[i] \in Timers
      BY <3>1
    <3> QED
      BY <2>k, <3>2, KeysApart DEF Timers
  <2>3. pressed \in [Watch!Keys -> [press : 0..presses, hold : BOOLEAN]]
    BY <1>0 DEF PressTypes
  <2>4. pressed[k].press # 0
    BY <1>0, <2>1, <2>2 DEF KeyShape
  <2>5. \A l \in Watch!Keys : pressed'[l].press = pressed[l].press /\ (l # k => pressed'[l] = pressed[l])
    BY <2>1, <2>2, <2>3
  <2>6. \A l \in Watch!Keys : Lifted(l) <=> Lifted(l)'
    <3> TAKE l \in Watch!Keys
    <3>1. CASE l = k
      BY <2>1, <2>4, <2>5, <3>1 DEF Lifted, Watch!Up
    <3>2. CASE l # k
      BY <2>5, <3>2 DEF Lifted
    <3> QED
      BY <3>1, <3>2
  <2>7. KeyShape'
    BY <1>0, <2>1, <2>5, <2>6, KeysAreLeft
  <2>8. PressShape'
    <3>1. ASSUME NEW p, Unread(p) PROVE log'[p] = <<>> /\ \A j \in DOMAIN out' : out'[j].press # p
      <4>1. log'[p] = <<>> /\ pressed[k].press # p
        BY <2>1, <2>2, <3>1 DEF Unread
      <4>2. Tells(pressed[k].press)
        BY <2>1, Words
      <4> QED
        BY <4>1, <4>2 DEF Tells
    <3> QED
      BY <1>0, <2>1, <2>5, <3>1, PressesAreLeft
  <2>9. TimerShape'
    BY <1>0, <2>k, <2>1, <2>2, <2>5, TimersAreTaken
  <2> QED
    BY <1>0, <1>8, <2>7, <2>8, <2>9, TypesAreHeld, GesturesAreHeld DEF PressIInv
<1>9. ASSUME NEW t \in armed, Watch!Fire(t) PROVE PressIInv'
  <2>1. UNCHANGED <<down, stream, presses, pressed, out, log>>
    BY <1>9 DEF Watch!Fire, Watch!input
  <2> QED
    BY <1>0, <1>9, <2>1, TypesAreTimed, RestIsLeft, TimersFire DEF PressIInv
<1>10. CASE UNCHANGED Watch!vars
  <2>1. UNCHANGED <<down, old, stream, presses, run_, pressed, out, log, gen, armed, due, after>>
    BY <1>10 DEF Watch!vars, Watch!input
  <2>2. TimerShape' /\ PressTypes'
    BY <1>0, <2>1 DEF TimerShape, Mine, Current, PressTypes
  <2> QED
    BY <1>0, <2>1, <2>2, RestIsLeft DEF PressIInv
<1> QED
  BY <1>1, <1>2, <1>3, <1>4, <1>5, <1>6, <1>7, <1>8, <1>9, <1>10 DEF Watch!Next, Watch!Work

\* What a press is reported as is one gesture, and a running timer is the only one
\* of its key and that of the press under way: in whichever order releases, timers,
\* the consumer and the end of the context come.
THEOREM GesturesSafe == Watch!Spec => []GestureInvariant
<1>1. PressIInv => GestureInvariant
  <2> SUFFICES ASSUME PressIInv PROVE GestureInvariant
    OBVIOUS
  <2>1. PressTypes /\ TimerShape /\ GestureShape
    BY DEF PressIInv
  <2>2. Watch!TypeOK
    <3>1. \A t \in armed \cup Watch!Range(due) : t.key \in Watch!Keys /\ Mine(t)
      <4>1. due \in Seq(Timers) /\ armed \subseteq Timers
        BY <2>1 DEF PressTypes
      <4>2. \A t \in Watch!Range(due) : \E i \in DOMAIN due : t = due[i]
        BY DEF Watch!Range
      <4>3. \A t \in armed \cup Watch!Range(due) : t \in Timers /\ Mine(t)
        BY <2>1, <4>1, <4>2 DEF TimerShape
      <4> QED
        BY <4>3 DEF Timers
    <3>2. Len(out) <= 2
      <4>1. out = <<>> \/ Len(out) = 1 \/ Len(out) = 2
        BY <2>1 DEF GestureShape, OutShape, Says1, SaysHold
      <4>2. CASE out = <<>>
        BY <4>2
      <4>3. CASE Len(out) = 1
        BY <4>3
      <4>4. CASE Len(out) = 2
        BY <4>4
      <4> QED
        BY <4>1, <4>2, <4>3, <4>4
    <3>3. \A k \in Watch!Keys : down[k] \in 0..MaxPresses /\ pressed[k].press \in 0..presses
      BY <2>1 DEF PressTypes
    <3>4. run_ \in {"select", "sending", "stopped", "eof", "error"} /\ old \subseteq 1..presses
      BY <2>1 DEF PressTypes
    <3> QED
      BY <3>1, <3>2, <3>3, <3>4 DEF Watch!TypeOK, Mine
  <2>3. Watch!TimerIsOfThisPress
    BY <2>1 DEF TimerShape, Mine, Current, Watch!TimerIsOfThisPress
  <2> QED
    BY <2>1, <2>2, <2>3 DEF GestureShape, GestureInvariant, Watch!GestureInvariant
<1> QED
  BY WatcherStarts, PressContinues, <1>1, PTL DEF Watch!Spec
=============================================================================
