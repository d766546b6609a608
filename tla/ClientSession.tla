---------------------------- MODULE ClientSession ----------------------------
(***************************************************************************)
(* The reconnecting gateway client of internal/device/client: Run and      *)
(* runOnce drive one session after another; in each a writer, a reader and *)
(* a turn forwarder share the bounded queue `high` and the log queue,      *)
(* while goroutines outside the session report configuration results.      *)
(* Payloads are abstracted away: a frame is its kind and, for the frames   *)
(* of a turn, the number of the turn.                                      *)
(* The connection checks of the reader and of the forwarder are part of    *)
(* their sends: c.conn is cleared only after both have returned.           *)
(***************************************************************************)
EXTENDS Naturals, Sequences, SequencesExt, FiniteSets

CONSTANTS
    HighCap,      \* capacity of the high queue, 64 in the code
    LogCap,       \* capacity of the log queue, maxLogRecords
    MaxBackoff,   \* 30 s in units of the first delay of 500 ms
    MaxTurns,     \* bound on turns
    MaxFrames,    \* bound on PCM frames of a turn
    Reporters,    \* goroutines outside the session that report results
    LongPreRoll   \* the configured pre-roll may exceed one 64 KiB frame

ASSUME ClientAssumption ==
    /\ HighCap \in Nat /\ HighCap >= 3
    /\ LogCap \in Nat /\ MaxBackoff \in Nat \ {0}
    /\ MaxTurns \in Nat /\ MaxFrames \in Nat
    /\ LongPreRoll \in BOOLEAN

VARIABLES
    phase,       \* where Run and runOnce are
    cancelled,   \* the context of Run
    backoff, usePairing,
    conn,        \* c.conn # nil
    errs,        \* errors of writer and reader not taken from errCh
    high, logs, active,
    writer, reader, sender,  \* where the workers are
    left,        \* PCM frames SendTurn has still to queue
    held,        \* a revision waits for the idle boundary (RuntimeConfig)
    reporter,    \* where the reporters are in ReportConfigResult
    \* History, read by properties only:
    turn,        \* number of the last turn SendTurn accepted
    first,       \* the first turn number of this session
    size,        \* how many PCM frames the turns have
    wire,        \* the last turn frames the gateway of this session was sent
    told         \* the turns TurnSent was called for in this session

run == <<phase, cancelled, backoff, usePairing, conn>>
forward == <<sender, left, active, turn, size>>
sent == <<wire, told>>
reports == <<held, reporter>>
vars == <<run, errs, high, logs, forward, writer, reader, reports, first, sent>>

Done == cancelled \/ phase = "closing"
Stopped == writer = "stopped" /\ reader = "stopped" /\ sender = "stopped"

Init ==
    /\ phase = "resolving" /\ cancelled = FALSE
    /\ backoff = 1 /\ usePairing = TRUE /\ conn = FALSE /\ errs = 0
    /\ high = <<>> /\ logs = 0 /\ active = FALSE
    /\ writer = "stopped" /\ reader = "stopped" /\ sender = "stopped"
    /\ left = 0 /\ held = FALSE /\ reporter = [r \in Reporters |-> "none"]
    /\ turn = 0 /\ first = 1 /\ size = [t \in 1..MaxTurns |-> 0]
    /\ wire = <<>> /\ told = {}
-----------------------------------------------------------------------------
(* Run and runOnce.                                                        *)

Workers == <<errs, high, logs, forward, writer, reader, reports, first, sent>>

\* The end of runOnce: Run returns if it was cancelled, waits otherwise.
Ended == phase' = IF cancelled THEN "stopped" ELSE "backoff"

\* Resolve, token, dial or handshake fails: the next attempt may not trust
\* the paired address.
AttemptFails ==
    /\ phase = "resolving"
    /\ Ended /\ usePairing' = FALSE
    /\ UNCHANGED <<cancelled, backoff, conn, Workers>>

\* handshake returns: hello was written, the welcome read, its configuration
\* applied and answered and the pairing saved, all on the bare connection.
\* Run resets the delay and the pairing when runOnce returns; nobody reads
\* them until then, so they are reset here.
handshake ==
    /\ phase = "resolving"
    /\ phase' = "welcomed" /\ backoff' = 1 /\ usePairing' = TRUE
    /\ UNCHANGED <<cancelled, conn, Workers>>

\* c.conn is published before SessionChanged(true) is called.
PublishConn ==
    /\ phase = "welcomed"
    /\ conn' = TRUE /\ phase' = "announcing"
    /\ UNCHANGED <<cancelled, backoff, usePairing, Workers>>

StartWorkers ==
    /\ phase = "announcing"
    /\ phase' = "up"
    /\ writer' = "poll" /\ reader' = "reading" /\ sender' = "next"
    /\ errs' = 0 /\ first' = turn + 1
    /\ UNCHANGED <<cancelled, backoff, usePairing, conn, high, logs, left, active, turn, size,
                   reports, sent>>

\* The first error: the session context is cancelled, the connection closed.
TakeError ==
    /\ phase = "up" /\ errs > 0
    /\ errs' = errs - 1 /\ phase' = "closing"
    /\ UNCHANGED <<cancelled, backoff, usePairing, conn, high, logs, forward, writer, reader,
                   reports, first, sent>>

\* The histories are those of one session.
Forgotten == wire' = <<>> /\ told' = {} /\ size' = [t \in 1..MaxTurns |-> 0]

\* Mutant: what the session left in the queue is not drained.
WaitWithoutDrain ==
    /\ phase = "closing" /\ Stopped
    /\ phase' = "notify" /\ Forgotten
    /\ UNCHANGED <<cancelled, backoff, usePairing, conn, errs, high, logs, sender, left, active,
                   turn, writer, reader, reports, first>>

\* workers.Wait.
Wait ==
    /\ phase = "closing" /\ Stopped
    /\ phase' = "drain" /\ Forgotten
    /\ UNCHANGED <<cancelled, backoff, usePairing, conn, errs, high, logs, sender, left, active,
                   turn, writer, reader, reports, first>>

\* drainHigh, one round of its loop.
drainHigh ==
    /\ phase = "drain"
    /\ IF high = <<>>
         THEN phase' = "notify" /\ high' = high
         ELSE phase' = phase /\ high' = Tail(high)
    /\ UNCHANGED <<cancelled, backoff, usePairing, conn, errs, logs, forward, writer, reader,
                   reports, first, sent>>

Reply == [kind |-> "reply", turn |-> 0]

\* The deferred SessionChanged(false).  It may be this call that reaches the
\* idle boundary and reports a result: it is queued, behind the drain, because
\* the connection is still published.
SessionChanged ==
    /\ phase = "notify"
    /\ phase' = "disconnecting"
    /\ \/ UNCHANGED <<high, held>>
       \/ /\ held /\ held' = FALSE
          /\ high' = IF Len(high) < HighCap THEN Append(high, Reply) ELSE high
    /\ UNCHANGED <<cancelled, backoff, usePairing, conn, errs, logs, forward, writer, reader,
                   reporter, first, sent>>

disconnect ==
    /\ phase = "disconnecting"
    /\ conn' = FALSE
    /\ Ended
    /\ UNCHANGED <<cancelled, backoff, usePairing, Workers>>

\* The jittered sleep and the doubling after it.
Sleep ==
    /\ phase = "backoff"
    /\ phase' = IF cancelled THEN "stopped" ELSE "resolving"
    /\ backoff' = IF 2 * backoff > MaxBackoff THEN MaxBackoff ELSE 2 * backoff
    /\ UNCHANGED <<cancelled, usePairing, conn, Workers>>

Cancel ==
    /\ ~cancelled /\ cancelled' = TRUE
    /\ UNCHANGED <<phase, backoff, usePairing, conn, Workers>>
-----------------------------------------------------------------------------
(* writer.                                                                 *)

\* The history of a session starts again with a turn that follows a closed one.
Restarts(m) ==
    /\ m.kind = "turn.start" /\ wire # <<>>
    /\ Last(wire).kind = "audio.stop" /\ Last(wire).turn < m.turn
Delivered(m) ==
    /\ wire' = CASE m.turn = 0 -> wire
                 [] Restarts(m) -> <<m>>
                 [] OTHER -> Append(wire, m)
    /\ told' = CASE m.kind = "audio.stop" -> told \cup {m.turn}
                 [] Restarts(m) -> {}
                 [] OTHER -> told

\* writeOutbound: the frame is on the connection, then its done callback runs.
writeOutbound ==
    /\ high # <<>> /\ ~Done
    /\ high' = Tail(high)
    /\ Delivered(Head(high))

writerIdle == UNCHANGED <<run, errs, forward, reader, reports, first>>

\* The optimistic poll at the head of the loop.
WriterPoll ==
    /\ writer = "poll"
    /\ \/ writeOutbound /\ writer' = "poll"
       \/ high = <<>> /\ writer' = "select" /\ UNCHANGED <<high, sent>>
    /\ logs' = logs /\ writerIdle

\* The blocking select with a frame or a log record ready.
WriterSelect ==
    /\ writer = "select"
    /\ \/ writeOutbound /\ writer' = "poll" /\ logs' = logs
       \/ logs > 0 /\ logs' = logs - 1 /\ writer' = "recheck" /\ UNCHANGED <<high, sent>>
    /\ writerIdle

\* Mutant: a log record is committed without looking at the queue again, and
\* the loop goes on at the blocking select.
WriterPrefersLogs ==
    /\ writer = "recheck" /\ ~Done
    /\ writer' = "select"
    /\ UNCHANGED <<high, sent, logs>> /\ writerIdle

\* The record waits for a frame that came in between, and is lost if the log
\* queue is full by now; otherwise it is written.
WriterRecheck ==
    /\ writer = "recheck" /\ writer' = "poll"
    /\ \/ writeOutbound /\ logs' = IF logs < LogCap THEN logs + 1 ELSE logs
       \/ high = <<>> /\ ~Done /\ UNCHANGED <<high, sent, logs>>
    /\ writerIdle

\* A write or the heartbeat fails, or the context is done.
WriterStops ==
    /\ writer # "stopped"
    /\ writer' = "stopped" /\ errs' = errs + 1
    /\ \/ high' = high
       \/ high # <<>> /\ high' = Tail(high)
    /\ UNCHANGED <<run, logs, forward, reader, reports, first, sent>>

\* Log, from anywhere and at any time.
Log ==
    /\ logs < LogCap /\ logs' = logs + 1
    /\ UNCHANGED <<run, errs, high, forward, writer, reader, reports, first, sent>>
-----------------------------------------------------------------------------
(* reader, and ReportConfigResult.                                         *)

\* A ping, or a config frame, whose Apply takes its time and may hold the
\* revision.
ReaderReceives ==
    /\ reader = "reading" /\ ~Done
    /\ reader' = "replying"
    /\ held' \in {held, TRUE}
    /\ UNCHANGED <<run, errs, high, logs, forward, writer, reporter, first, sent>>

\* The config.result or pong is queued; a full queue ends the session.
ReaderReplies ==
    /\ reader = "replying"
    /\ IF Len(high) < HighCap
         THEN high' = Append(high, Reply) /\ reader' = "reading" /\ errs' = errs
         ELSE high' = high /\ reader' = "stopped" /\ errs' = errs + 1
    /\ UNCHANGED <<run, logs, forward, writer, reports, first, sent>>

\* A read error, or a frame the client does not accept.
ReaderStops ==
    /\ reader = "reading"
    /\ reader' = "stopped" /\ errs' = errs + 1
    /\ UNCHANGED <<run, high, logs, forward, writer, reports, first, sent>>

\* The held revision is resolved and its result reported: enqueue looks at
\* the connection under the lock, and gives up without one ...
ReportCheck(r) ==
    /\ reporter[r] = "none" /\ held
    /\ held' = FALSE
    /\ reporter' = [reporter EXCEPT ![r] = IF conn THEN "checked" ELSE "none"]
    /\ UNCHANGED <<run, errs, high, logs, forward, writer, reader, first, sent>>

\* ... and sends after it, when the session may be gone.
ReportSend(r) ==
    /\ reporter[r] = "checked"
    /\ reporter' = [reporter EXCEPT ![r] = "none"]
    /\ high' = IF Len(high) < HighCap THEN Append(high, Reply) ELSE high
    /\ UNCHANGED <<run, errs, logs, forward, writer, reader, held, first, sent>>
-----------------------------------------------------------------------------
(* forwardTurns and SendTurn.                                              *)

Frame(kind) == [kind |-> kind, turn |-> turn]
Sending == sender \in {"turn.start", "audio.start", "pcm", "audio.stop"}
forwarderOnly == UNCHANGED <<run, errs, logs, writer, reader, reports, first, sent>>

\* Mutant: an early return keeps the turn flag.
ReturnLeaves == sender' = "next" /\ left' = 0 /\ active' = (sender # "audio.stop")

\* SendTurn returns, with or without an error.
Return == sender' = "next" /\ active' = FALSE /\ left' = 0

Fails == Return /\ high' = high

\* A turn of n frames is accepted if the queue has room for its three control
\* frames; otherwise it is discarded, which changes nothing.
SendTurn(n) ==
    /\ sender = "next" /\ ~Done /\ turn < MaxTurns
    /\ ~active /\ HighCap - Len(high) >= 3
    /\ active' = TRUE /\ sender' = "turn.start" /\ left' = n
    /\ turn' = turn + 1 /\ size' = [size EXCEPT ![turn + 1] = n]
    /\ high' = high /\ forwarderOnly

\* turn.start and audio.start do not wait for room.
SendStart ==
    /\ sender \in {"turn.start", "audio.start"}
    /\ IF Len(high) < HighCap
         THEN /\ high' = Append(high, Frame(sender))
              /\ sender' = CASE sender = "turn.start" -> "audio.start"
                             [] sender = "audio.start" /\ left > 0 -> "pcm"
                             [] OTHER -> "audio.stop"
              /\ UNCHANGED <<active, left>>
         ELSE Fails
    /\ UNCHANGED <<turn, size>> /\ forwarderOnly

\* Mutant: a blocked PCM frame does not watch the context.
SendPCMUncancelled ==
    /\ sender = "pcm"
    /\ Len(high) < HighCap /\ high' = Append(high, Frame("pcm"))
    /\ left' = left - 1 /\ active' = active
    /\ sender' = IF left = 1 THEN "audio.stop" ELSE "pcm"
    /\ UNCHANGED <<turn, size>> /\ forwarderOnly

\* Mutant: a PCM frame that finds the queue full is dropped.
SendPCMUnlessFull ==
    /\ sender = "pcm"
    /\ high' = IF Len(high) < HighCap THEN Append(high, Frame("pcm")) ELSE high
    /\ left' = left - 1 /\ active' = active
    /\ sender' = IF left = 1 THEN "audio.stop" ELSE "pcm"
    /\ UNCHANGED <<turn, size>> /\ forwarderOnly

\* PCM waits for room or for the end of the session.
SendPCM ==
    /\ sender = "pcm"
    /\ \/ /\ Len(high) < HighCap /\ high' = Append(high, Frame("pcm"))
          /\ left' = left - 1 /\ active' = active
          /\ sender' = IF left = 1 THEN "audio.stop" ELSE "pcm"
       \/ Done /\ Fails
    /\ UNCHANGED <<turn, size>> /\ forwarderOnly

\* The pre-roll, one frame in front of the others, is larger than 64 KiB: the
\* configuration puts no bound on it.
SendOversized ==
    /\ LongPreRoll /\ sender = "pcm" /\ left = size[turn]
    /\ Fails
    /\ UNCHANGED <<turn, size>> /\ forwarderOnly

\* Mutant: audio.stop is sent by itself, in front of the queue.
SendStopFirst ==
    /\ sender = "audio.stop"
    /\ high' = IF Len(high) < HighCap THEN <<Frame("audio.stop")>> \o high ELSE high
    /\ Return
    /\ UNCHANGED <<turn, size>> /\ forwarderOnly

\* audio.stop does not wait for room either: in a full queue it is lost.
SendStop ==
    /\ sender = "audio.stop"
    /\ high' = IF Len(high) < HighCap THEN Append(high, Frame("audio.stop")) ELSE high
    /\ Return
    /\ UNCHANGED <<turn, size>> /\ forwarderOnly

\* Next returns when the session context is done.
ForwarderStops ==
    /\ sender = "next" /\ Done
    /\ sender' = "stopped"
    /\ UNCHANGED <<high, left, active, turn, size>> /\ forwarderOnly
-----------------------------------------------------------------------------
Driver ==
    \/ AttemptFails \/ handshake \/ PublishConn \/ StartWorkers \/ TakeError
    \/ Wait \/ drainHigh \/ SessionChanged \/ disconnect \/ Sleep
Writer == WriterPoll \/ WriterSelect \/ WriterRecheck
Reader == ReaderReceives \/ ReaderReplies \/ ReaderStops
Forwarder == SendStart \/ SendStop \/ ForwarderStops

Next ==
    \/ Driver \/ Cancel
    \/ Writer \/ WriterStops \/ Log
    \/ Reader
    \/ \E r \in Reporters : ReportCheck(r) \/ ReportSend(r)
    \/ Forwarder \/ SendPCM \/ SendOversized
    \/ \E n \in 0..MaxFrames : SendTurn(n)

\* Goroutines that can run do run.  Writes end, if need be by the timeout of
\* TCP; a read does once the context is done, but an idle connection may say
\* nothing for ever.  No frame has to be oversized.  SendPCM is strongly fair:
\* a send that waits on a channel is handed the next free slot before any
\* later sender sees it.
Fairness ==
    /\ WF_vars(Driver) /\ WF_vars(Writer) /\ WF_vars(Done /\ WriterStops)
    /\ WF_vars(ReaderReplies) /\ WF_vars(Done /\ ReaderStops)
    /\ WF_vars(Forwarder) /\ SF_vars(SendPCM)
    /\ \A r \in Reporters : WF_vars(ReportSend(r))

Spec == Init /\ [][Next]_vars /\ Fairness
-----------------------------------------------------------------------------
TurnKinds == {"turn.start", "audio.start", "pcm", "audio.stop"}
Frames == [kind : TurnKinds, turn : 1..MaxTurns]

TypeOK ==
    /\ phase \in {"resolving", "welcomed", "announcing", "up", "closing", "drain", "notify",
                  "disconnecting", "backoff", "stopped"}
    /\ cancelled \in BOOLEAN /\ usePairing \in BOOLEAN /\ conn \in BOOLEAN
    /\ backoff \in 1..MaxBackoff
    /\ errs \in 0..2
    /\ high \in Seq(Frames \cup {Reply}) /\ Len(high) <= HighCap
    /\ logs \in 0..LogCap
    /\ active \in BOOLEAN /\ left \in 0..MaxFrames
    /\ writer \in {"stopped", "poll", "select", "recheck"}
    /\ reader \in {"stopped", "reading", "replying"}
    /\ sender \in {"stopped", "next"} \cup TurnKinds
    /\ held \in BOOLEAN /\ reporter \in [Reporters -> {"none", "checked"}]
    /\ turn \in 0..MaxTurns /\ first \in 1..(MaxTurns + 1)
    /\ size \in [1..MaxTurns -> 0..MaxFrames]
    /\ wire \in Seq(Frames) /\ told \subseteq 1..MaxTurns

\* No frame of a turn outlives its session: when the writer of a session can
\* take it, it belongs to a turn of this session ("stale turn frames surviving
\* reconnect ... fixed with per-session cancellation/waiting and queue
\* draining"), although the forwarder may be anywhere when the session ends.
TurnFramesStayInSession ==
    phase = "up" => \A i \in DOMAIN high : high[i].turn # 0 => high[i].turn >= first

\* m may come right after p in a stream of turn frames.
Follows(p, m) ==
    CASE m.kind = "turn.start" -> p.turn < m.turn
      [] m.kind = "audio.start" -> p = [kind |-> "turn.start", turn |-> m.turn]
      [] OTHER -> p.turn = m.turn /\ p.kind \in {"audio.start", "pcm"}

\* "all control framing precedes/follows PCM": whatever fails and whoever else
\* queues frames, the gateway of a session sees turns one after the other,
\* each opened by turn.start and audio.start and with nothing after its
\* audio.stop.
FramesInOrder ==
    /\ wire # <<>> => wire[1].kind = "turn.start"
    /\ \A i \in 2..Len(wire) : Follows(wire[i - 1], wire[i])

\* How often m is in the stream s.
Count(s, m) == Cardinality({i \in DOMAIN s : s[i] = m})

\* TurnSent speaks the truth: it runs for a turn all of whose frames reached
\* the connection ("runs after the terminal audio.stop frame for a local turn
\* has reached the connection ... without racing queued PCM writes").
TurnSentIsTrue ==
    \A t \in told :
        /\ Count(wire, [kind |-> "pcm", turn |-> t]) = size[t]
        /\ \E i \in DOMAIN wire : wire[i] = [kind |-> "audio.stop", turn |-> t]

\* The flag that refuses overlapping turns is held by a SendTurn in progress
\* and by nothing else: no failed turn keeps the client busy for ever.
TurnFlagIsReleased == active <=> Sending

\* SendTurn returns, however logs and replies press and whenever the session
\* ends ("Log pressure drops and counts records; it cannot block audio").
SendTurnReturns == Sending ~> ~Sending

\* A session that lost its connection is torn down completely: no worker
\* waits for another one, and the client tries again or stops.
TeardownCompletes == phase = "closing" ~> phase \in {"backoff", "stopped"}
-----------------------------------------------------------------------------
\* "preflight turn queue capacity validation" fixed "partial framing after
\* high-queue exhaustion", "Reserve room for turn.start, audio.start, and
\* audio.stop": within a session a turn is closed before the next one opens.
TurnsAreClosed ==
    \A i \in 2..Len(wire) : wire[i].kind = "turn.start" => wire[i - 1].kind = "audio.stop"

\* What the gateway of a session and the source of a turn may rely on, across
\* lost connections, full queues and cancelled contexts.
SessionInvariant ==
    /\ TypeOK /\ TurnFramesStayInSession /\ FramesInOrder
    /\ TurnSentIsTrue /\ TurnFlagIsReleased
=============================================================================
