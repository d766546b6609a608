------------------------- MODULE ClientSessionProofs -------------------------
(***************************************************************************)
(* What a gateway is sent in a session and what the source of a turn is    *)
(* told: for any number of turns, any capacity of the queue from three on, *)
(* and every interleaving of writer, reader, forwarder and reporters with  *)
(* lost connections and cancelled contexts.                                *)
(***************************************************************************)
EXTENDS ClientSession, FiniteSetTheorems, TLAPS

-----------------------------------------------------------------------------
(* The stream of turn frames: what is on the connection (w), what is in    *)
(* the queue (q) between other frames, and the frame of kind s of turn t   *)
(* the sender is about to queue, if s is a frame of a turn at all.         *)

Item(s, t) == [kind |-> s, turn |-> t]
Queued == Frames \cup {Reply}
Turns(q) == {i \in DOMAIN q : q[i].turn # 0}

\* p may come before m, somewhere, in a stream.
Before(p, m) == p.turn <= m.turn /\ (p.kind = "audio.stop" => p.turn < m.turn)

\* The sender may go on after p ...
Due(p, s, t) ==
    /\ p.turn <= t
    /\ s \in TurnKinds => Before(p, Item(s, t))
    /\ s = "turn.start" => p.turn < t
\* ... and its next frame may come right after p.
NextInLine(p, s, t) == s \in TurnKinds => Follows(p, Item(s, t))

\* m may come right after w.
Continues(w, m) == IF w = <<>> THEN m.kind = "turn.start" ELSE Follows(Last(w), m)

\* The frames in the queue, as the sender left them.
QueueOf(q, s, t) ==
    /\ \A i, j \in Turns(q) : i < j => Before(q[i], q[j])
    /\ \A i, j \in Turns(q) :
           i < j /\ (\A k \in Turns(q) : ~(i < k /\ k < j)) => Follows(q[i], q[j])
    /\ \A i \in Turns(q) : Due(q[i], s, t)
    /\ \A i \in Turns(q) : (\A k \in Turns(q) : k <= i) => NextInLine(q[i], s, t)

\* The frames on the connection.
WireOf(w, s, t) ==
    /\ w # <<>> => w[1].kind = "turn.start"
    /\ \A i \in 2..Len(w) : Follows(w[i - 1], w[i])
    /\ \A i, j \in DOMAIN w : i < j => Before(w[i], w[j])
    /\ \A i \in DOMAIN w : Due(w[i], s, t)

\* The queue goes on where the connection is.
Linked(w, q, s, t) ==
    /\ \A i \in DOMAIN w, j \in Turns(q) : Before(w[i], q[j])
    /\ \A j \in Turns(q) : (\A k \in Turns(q) : j <= k) => Continues(w, q[j])
    /\ Turns(q) = {} /\ s \in TurnKinds => Continues(w, Item(s, t))

\* Every PCM frame of a turn is on the connection, in the queue or to be
\* queued: l of them; the turns have z.
PCM(t) == Item("pcm", t)
Owed(w, q, s, t, l, z) ==
    /\ s \in TurnKinds => Count(w, PCM(t)) + Count(q, PCM(t)) + l = z[t]
    /\ \A i \in DOMAIN q : q[i].kind = "audio.stop" =>
           Count(w, PCM(q[i].turn)) + Count(q, PCM(q[i].turn)) = z[q[i].turn]

\* The turns of d are on the connection as they were accepted.
Told(w, d, z) ==
    \A t \in d :
        /\ Count(w, PCM(t)) = z[t]
        /\ \E i \in DOMAIN w : w[i] = Item("audio.stop", t)

-----------------------------------------------------------------------------
(* The inductive invariant.                                                *)

\* Where the workers are and what is left of their queues, by phase.
Between == {"resolving", "welcomed", "announcing", "notify", "disconnecting", "backoff", "stopped"}
WorkerShape ==
    /\ phase \notin {"up", "closing"} => Stopped /\ wire = <<>> /\ told = {}
    /\ phase \in Between => Turns(high) = {}
    /\ writer # "stopped" => errs <= 1
    /\ reader # "stopped" => errs <= 1
    /\ writer # "stopped" /\ reader # "stopped" => errs = 0
    /\ sender = "pcm" => left > 0
    /\ sender = "audio.stop" => left = 0
    /\ Sending => turn > 0
    /\ TurnFlagIsReleased

\* Turns of this session only.
SessionShape ==
    /\ first <= turn + 1
    /\ phase = "up" => \A i \in Turns(high) : high[i].turn >= first
    /\ phase = "up" /\ Sending => turn >= first

\* The streams; a writer that stops may have taken a frame from the queue
\* that never reaches the connection.
StreamShape ==
    /\ QueueOf(high, sender, turn)
    /\ WireOf(wire, sender, turn)
    /\ writer # "stopped" =>
           /\ Linked(wire, high, sender, turn)
           /\ Owed(wire, high, sender, turn, left, size)
    /\ Told(wire, told, size)

IInv == TypeOK /\ WorkerShape /\ SessionShape /\ StreamShape

-----------------------------------------------------------------------------
(* Queues and how often a frame is in one.                                 *)

\* Append adds one frame at the end ...
LEMMA AppendedFrames ==
    ASSUME NEW S, NEW q \in Seq(S), NEW m \in S
    PROVE  LET a == Append(q, m) IN
           /\ a \in Seq(S) /\ Len(a) = Len(q) + 1 /\ DOMAIN a = 1..(Len(q) + 1)
           /\ a[Len(q) + 1] = m /\ a # <<>>
           /\ Len(q) \in Nat /\ DOMAIN q = 1..Len(q)
           /\ \A i \in DOMAIN q : i \in DOMAIN a /\ a[i] = q[i]
  OBVIOUS

\* ... and Tail takes the first one off, the others move up.
LEMMA RemainingFrames ==
    ASSUME NEW S, NEW q \in Seq(S), q # <<>>
    PROVE  /\ Tail(q) \in Seq(S) /\ DOMAIN Tail(q) = 1..(Len(q) - 1)
           /\ Len(q) \in Nat \ {0} /\ DOMAIN q = 1..Len(q) /\ Len(Tail(q)) = Len(q) - 1
           /\ Head(q) = q[1] /\ q[1] \in S
           /\ \A i \in DOMAIN Tail(q) : i + 1 \in DOMAIN q /\ Tail(q)[i] = q[i + 1]
           /\ \A i \in DOMAIN q : i # 1 => i - 1 \in DOMAIN Tail(q) /\ Tail(q)[i - 1] = q[i]
<1>1. /\ Tail(q) \in Seq(S) /\ Len(q) \in Nat \ {0} /\ DOMAIN q = 1..Len(q)
      /\ Len(Tail(q)) = Len(q) - 1 /\ Head(q) = q[1]
  OBVIOUS
<1>2. DOMAIN Tail(q) = 1..(Len(q) - 1)
  BY <1>1
<1>3. ASSUME NEW i \in DOMAIN Tail(q)
      PROVE  i + 1 \in DOMAIN q /\ Tail(q)[i] = q[i + 1]
  <2>1. i \in 1..Len(Tail(q)) /\ i + 1 \in 1..Len(q)
    BY <1>1, <1>2
  <2>q. QED
    BY <2>1, <1>1
<1>4. ASSUME NEW i \in DOMAIN q, i # 1
      PROVE  i - 1 \in DOMAIN Tail(q) /\ Tail(q)[i - 1] = q[i]
  <2>1. i \in 1..Len(q) /\ i - 1 \in 1..Len(Tail(q)) /\ (i - 1) + 1 = i
    BY <1>1, <1>4
  <2>2. i - 1 \in DOMAIN Tail(q)
    BY <2>1, <1>1, <1>2
  <2>q. QED
    BY <2>1, <2>2, <1>3
<1>q. QED
  BY <1>1, <1>2, <1>3, <1>4

\* The places of the frames of turns, after an Append ...
LEMMA TurnsAppended ==
    ASSUME NEW q \in Seq(Queued), NEW m \in Queued
    PROVE  /\ m.turn = 0 => Turns(Append(q, m)) = Turns(q)
           /\ m.turn # 0 => Turns(Append(q, m)) = Turns(q) \cup {Len(q) + 1}
           /\ \A i \in Turns(q) : i \in 1..Len(q) /\ Append(q, m)[i] = q[i]
  BY AppendedFrames DEF Turns

\* ... and after a Tail.
LEMMA TurnsRemaining ==
    ASSUME NEW q \in Seq(Queued), q # <<>>
    PROVE  /\ \A i \in Turns(Tail(q)) :
                  i \in Nat \ {0} /\ i + 1 \in Turns(q) /\ Tail(q)[i] = q[i + 1]
           /\ \A i \in Turns(q) : i # 1 => i - 1 \in Turns(Tail(q)) /\ Tail(q)[i - 1] = q[i]
           /\ Turns(q) \subseteq Nat \ {0}
           /\ 1 \in Turns(q) <=> q[1].turn # 0
  BY RemainingFrames DEF Turns

\* The places where a frame is are finitely many.
LEMMA CountType ==
    ASSUME NEW S, NEW q \in Seq(S), NEW m
    PROVE  IsFiniteSet({i \in DOMAIN q : q[i] = m}) /\ Count(q, m) \in Nat
<1>1. Len(q) \in Nat /\ DOMAIN q = 1..Len(q)
  OBVIOUS
<1>2. IsFiniteSet(1..Len(q))
  BY <1>1, FS_Interval
<1>3. IsFiniteSet({i \in DOMAIN q : q[i] = m})
  BY <1>1, <1>2, FS_Subset
<1>q. QED
  BY <1>3, FS_CardinalityType DEF Count

LEMMA CountNone ==
    ASSUME NEW S, NEW q \in Seq(S), NEW m, \A i \in DOMAIN q : q[i] # m
    PROVE  Count(q, m) = 0
<1>1. {i \in DOMAIN q : q[i] = m} = {}
  OBVIOUS
<1>q. QED
  BY <1>1, FS_EmptySet DEF Count

LEMMA CountAppended ==
    ASSUME NEW S, NEW q \in Seq(S), NEW e \in S, NEW m
    PROVE  Count(Append(q, e), m) = Count(q, m) + (IF e = m THEN 1 ELSE 0)
<1> DEFINE a == Append(q, e)
           here == {i \in DOMAIN q : q[i] = m}
<1>1. Len(q) + 1 \notin here /\ Len(q) \in Nat
  BY AppendedFrames
<1>2. IsFiniteSet(here) /\ Cardinality(here) \in Nat
  BY CountType, FS_CardinalityType
<1>3. CASE e = m
  <2>1. {i \in DOMAIN a : a[i] = m} = here \cup {Len(q) + 1}
    BY <1>3, AppendedFrames
  <2>2. Cardinality(here \cup {Len(q) + 1}) = Cardinality(here) + 1
    BY <1>1, <1>2, FS_AddElement
  <2>q. QED
    BY <2>1, <2>2, <1>3 DEF Count
<1>4. CASE e # m
  <2>1. {i \in DOMAIN a : a[i] = m} = here
    BY <1>4, AppendedFrames
  <2>q. QED
    BY <2>1, <1>2, <1>4, Cardinality(here) + 0 = Cardinality(here) DEF Count
<1>q. QED
  BY <1>3, <1>4

LEMMA CountRemaining ==
    ASSUME NEW S, NEW q \in Seq(S), q # <<>>, NEW m
    PROVE  Count(q, m) = Count(Tail(q), m) + (IF Head(q) = m THEN 1 ELSE 0)
<1> DEFINE here == {i \in DOMAIN q : q[i] = m}
           later == {i \in DOMAIN Tail(q) : Tail(q)[i] = m}
           rest == here \ {1}
           up == [i \in later |-> i + 1]
<1>1. /\ IsFiniteSet(here) /\ IsFiniteSet(later)
      /\ Cardinality(here) \in Nat /\ Cardinality(later) \in Nat
  <2>1. Tail(q) \in Seq(S)
    BY RemainingFrames
  <2>q. QED
    BY <2>1, CountType, FS_CardinalityType
<1>2. up \in Bijection(later, rest)
  <2>1. later \subseteq Nat /\ \A i \in later : i + 1 \in rest
    BY RemainingFrames
  <2>2. \A i \in rest : i - 1 \in later /\ i = (i - 1) + 1
    BY RemainingFrames
  <2>3. up \in Injection(later, rest)
    BY <2>1 DEF Injection, IsInjective
  <2>4. \A j \in rest : \E i \in later : up[i] = j
    <3> TAKE j \in rest
    <3>1. j - 1 \in later /\ up[j - 1] = j
      BY <2>2
    <3>q. QED
      BY <3>1
  <2>5. up \in Surjection(later, rest)
    BY <2>1, <2>4 DEF Surjection
  <2>q. QED
    BY <2>3, <2>5 DEF Bijection
<1>3. Cardinality(rest) = Cardinality(later)
  BY <1>1, <1>2, FS_Bijection, ZenonT(40) DEF ExistsBijection
<1>4. /\ Cardinality(rest) = IF 1 \in here THEN Cardinality(here) - 1 ELSE Cardinality(here)
  BY <1>1, FS_RemoveElement
<1>5. 1 \in here <=> Head(q) = m
  BY RemainingFrames
<1>6. Count(q, m) = Cardinality(here) /\ Count(Tail(q), m) = Cardinality(later)
  BY DEF Count
<1> HIDE DEF here, later, rest, up
<1>q. QED
  BY <1>1, <1>3, <1>4, <1>5, <1>6

-----------------------------------------------------------------------------
(* What happens to the stream.                                             *)

\* A frame of a turn.
LEMMA ItemType ==
    ASSUME NEW s \in TurnKinds, NEW t \in 1..MaxTurns
    PROVE  /\ Item(s, t) \in Frames /\ Item(s, t) \in Queued
           /\ Item(s, t).kind = s /\ Item(s, t).turn = t /\ t # 0
  BY DEF Item, Frames, Queued

LEMMA ReplyType == Reply \in Queued /\ Reply.turn = 0 /\ Reply.kind = "reply"
  BY DEF Reply, Queued

LEMMA QueuedType ==
    ASSUME NEW m \in Queued
    PROVE  /\ m.turn \in Nat /\ (m.turn # 0 => m \in Frames)
           /\ m.kind = "audio.stop" => m.turn # 0
           /\ m \in Frames => m.turn \in 1..MaxTurns /\ m.kind \in TurnKinds
                              /\ m = Item(m.kind, m.turn)
  BY DEF Queued, Frames, Reply, TurnKinds, Item

\* The kind of the frame after one of kind s: u.
Goes(s, u) ==
    \/ s = "turn.start" /\ u = "audio.start"
    \/ s \in {"audio.start", "pcm"} /\ u \in {"pcm", "audio.stop"}
    \/ s = "audio.stop" /\ u = "next"

\* The frame of kind s itself precedes what the sender does next.
LEMMA ItemDue ==
    ASSUME NEW s, NEW u, NEW t \in Nat, Goes(s, u)
    PROVE  Due(Item(s, t), u, t) /\ NextInLine(Item(s, t), u, t)
  BY DEF Goes, Due, NextInLine, Before, Follows, Item, TurnKinds

\* What may precede the frame of kind s may precede the one after it.
LEMMA StillDue ==
    ASSUME NEW s, NEW u, NEW t \in Nat, Goes(s, u), NEW p, p.turn \in Nat, Due(p, s, t)
    PROVE  Due(p, u, t) /\ Before(p, Item(s, t))
  BY DEF Goes, Due, Before, Item, TurnKinds

\* The queue takes the sender's frame.
LEMMA QueueSends ==
    ASSUME NEW q \in Seq(Queued), NEW s \in TurnKinds, NEW u, NEW t \in 1..MaxTurns,
           Goes(s, u), QueueOf(q, s, t)
    PROVE  QueueOf(Append(q, Item(s, t)), u, t)
<1> DEFINE a == Append(q, Item(s, t))
           n == Len(q) + 1
<1>1. /\ Turns(a) = Turns(q) \cup {n} /\ a[n] = Item(s, t) /\ n \in Nat
      /\ \A i \in Turns(q) : i \in Nat /\ i < n /\ a[i] = q[i] /\ q[i].turn \in Nat
  <2>1. \A i \in Turns(q) : q[i] \in Queued
    BY DEF Turns
  <2>q. QED
    BY <2>1, TurnsAppended, AppendedFrames, ItemType, QueuedType
<1> HIDE DEF a, n
<1>2. \A i, j \in Turns(a) : i < j => Before(a[i], a[j])
  <2> TAKE i, j \in Turns(a)
  <2> HAVE i < j
  <2>1. i \in Turns(q)
    BY <1>1
  <2>2. CASE j \in Turns(q)
    BY <1>1, <2>1, <2>2 DEF QueueOf
  <2>3. CASE j = n
    BY <1>1, <2>1, <2>3, StillDue DEF QueueOf
  <2>q. QED
    BY <1>1, <2>2, <2>3
<1>3. \A i, j \in Turns(a) :
          i < j /\ (\A k \in Turns(a) : ~(i < k /\ k < j)) => Follows(a[i], a[j])
  <2> TAKE i, j \in Turns(a)
  <2> HAVE i < j /\ (\A k \in Turns(a) : ~(i < k /\ k < j))
  <2>1. i \in Turns(q) /\ \A k \in Turns(q) : ~(i < k /\ k < j)
    BY <1>1
  <2>2. CASE j \in Turns(q)
    BY <1>1, <2>1, <2>2 DEF QueueOf
  <2>3. CASE j = n
    <3>1. ASSUME NEW k \in Turns(q)
          PROVE  k <= i
      <4>1. k < j /\ k \in Nat /\ i \in Nat /\ ~(i < k /\ k < j)
        BY <1>1, <2>1, <2>3
      <4>q. QED
        BY <4>1
    <3>q. QED
      BY <3>1, <1>1, <2>1, <2>3 DEF QueueOf, NextInLine
  <2>q. QED
    BY <1>1, <2>2, <2>3
<1>4. \A i \in Turns(a) : Due(a[i], u, t)
  BY <1>1, StillDue, ItemDue DEF QueueOf
<1>5. \A i \in Turns(a) : (\A k \in Turns(a) : k <= i) => NextInLine(a[i], u, t)
  <2>1. \A i \in Turns(q) : ~(n <= i)
    BY <1>1
  <2>q. QED
    BY <1>1, <2>1, ItemDue
<1>q. QED
  BY <1>2, <1>3, <1>4, <1>5 DEF QueueOf, a

\* The queue takes a frame that belongs to no turn.
LEMMA QueueReplies ==
    ASSUME NEW q \in Seq(Queued), NEW s, NEW t, QueueOf(q, s, t)
    PROVE  QueueOf(Append(q, Reply), s, t) /\ Turns(Append(q, Reply)) = Turns(q)
<1> DEFINE a == Append(q, Reply)
<1>1. Turns(a) = Turns(q) /\ \A i \in Turns(q) : a[i] = q[i]
  BY TurnsAppended, ReplyType
<1> HIDE DEF a
<1>2. QueueOf(a, s, t)
  BY <1>1 DEF QueueOf
<1>q. QED
  BY <1>1, <1>2 DEF a

\* The first frame is taken from the queue.
LEMMA QueueShrinks ==
    ASSUME NEW q \in Seq(Queued), q # <<>>, NEW s, NEW t, QueueOf(q, s, t)
    PROVE  QueueOf(Tail(q), s, t)
<1> DEFINE a == Tail(q)
<1>1. /\ \A i \in Turns(a) : i \in Nat \ {0} /\ i + 1 \in Turns(q) /\ a[i] = q[i + 1]
      /\ \A i \in Turns(q) : i \in Nat \ {0} /\ (i # 1 => i - 1 \in Turns(a))
  BY TurnsRemaining
<1> HIDE DEF a
<1>2. \A i, j \in Turns(a) : i < j => Before(a[i], a[j])
  <2> TAKE i, j \in Turns(a)
  <2>1. i < j => i + 1 < j + 1
    BY <1>1
  <2>q. QED
    BY <1>1, <2>1 DEF QueueOf
<1>3. \A i, j \in Turns(a) :
          i < j /\ (\A k \in Turns(a) : ~(i < k /\ k < j)) => Follows(a[i], a[j])
  <2> TAKE i, j \in Turns(a)
  <2> HAVE i < j /\ (\A k \in Turns(a) : ~(i < k /\ k < j))
  <2>1. i + 1 < j + 1 /\ i + 1 \in Turns(q) /\ j + 1 \in Turns(q)
    BY <1>1
  <2>2. ASSUME NEW k \in Turns(q), i + 1 < k, k < j + 1
        PROVE  FALSE
    <3>1. k - 1 \in Turns(a) /\ i < k - 1 /\ k - 1 < j
      BY <1>1, <2>2
    <3>q. QED
      BY <3>1
  <2>3. Follows(q[i + 1], q[j + 1])
    BY <2>1, <2>2 DEF QueueOf
  <2>q. QED
    BY <1>1, <2>3
<1>4. \A i \in Turns(a) : Due(a[i], s, t)
  BY <1>1 DEF QueueOf
<1>5. \A i \in Turns(a) : (\A k \in Turns(a) : k <= i) => NextInLine(a[i], s, t)
  <2> TAKE i \in Turns(a)
  <2> HAVE \A k \in Turns(a) : k <= i
  <2>1. \A k \in Turns(q) : k <= i + 1
    <3> TAKE k \in Turns(q)
    <3>1. CASE k = 1
      BY <1>1, <3>1
    <3>2. CASE k # 1
      <4>1. k - 1 \in Turns(a) /\ k \in Nat
        BY <1>1, <3>2
      <4>2. k - 1 <= i
        BY <4>1
      <4>q. QED
        BY <1>1, <4>1, <4>2
    <3>q. QED
      BY <3>1, <3>2
  <2>q. QED
    BY <1>1, <2>1 DEF QueueOf
<1>q. QED
  BY <1>2, <1>3, <1>4, <1>5 DEF QueueOf, a

\* The sender's frame goes on where queue and connection are.
LEMMA LinkSends ==
    ASSUME NEW w \in Seq(Frames), NEW q \in Seq(Queued),
           NEW s \in TurnKinds, NEW u, NEW t \in 1..MaxTurns,
           Goes(s, u), WireOf(w, s, t)
    PROVE  /\ WireOf(w, u, t)
           /\ Linked(w, q, s, t) => Linked(w, Append(q, Item(s, t)), u, t)
<1> DEFINE a == Append(q, Item(s, t))
           n == Len(q) + 1
<1>1. /\ Turns(a) = Turns(q) \cup {n} /\ a[n] = Item(s, t) /\ n \in Nat
      /\ \A i \in Turns(q) : i \in Nat /\ i < n /\ a[i] = q[i]
  BY TurnsAppended, AppendedFrames, ItemType
<1>2. \A i \in DOMAIN w : Due(w[i], u, t) /\ Before(w[i], Item(s, t))
  <2> TAKE i \in DOMAIN w
  <2>1. w[i] \in Frames
    OBVIOUS
  <2>2. w[i].turn \in Nat
    BY <2>1, QueuedType DEF Queued
  <2>3. Due(w[i], s, t)
    BY DEF WireOf
  <2>q. QED
    BY <2>2, <2>3, StillDue
<1>3. WireOf(w, u, t)
  BY <1>2 DEF WireOf
<1> HIDE DEF a, n
<1>4. ASSUME Linked(w, q, s, t)
      PROVE  Linked(w, a, u, t)
  <2>1. \A i \in DOMAIN w, j \in Turns(a) : Before(w[i], a[j])
    BY <1>1, <1>2, <1>4 DEF Linked
  <2>2. ASSUME NEW j \in Turns(a), \A k \in Turns(a) : j <= k
        PROVE  Continues(w, a[j])
    <3>1. CASE j \in Turns(q)
      BY <3>1, <1>1, <1>4, <2>2 DEF Linked
    <3>2. CASE j = n
      <4>1. Turns(q) = {}
        <5>1. ASSUME NEW k \in Turns(q)
              PROVE  FALSE
          <6>1. k \in Turns(a) /\ k \in Nat /\ n \in Nat /\ k < n
            BY <1>1
          <6>2. n <= k
            BY <6>1, <2>2, <3>2
          <6>q. QED
            BY <6>1, <6>2
        <5>q. QED
          BY <5>1
      <4>q. QED
        BY <4>1, <3>2, <1>1, <1>4 DEF Linked
    <3>q. QED
      BY <1>1, <3>1, <3>2
  <2>3. Turns(a) # {}
    BY <1>1
  <2>q. QED
    BY <2>1, <2>2, <2>3 DEF Linked
<1>q. QED
  BY <1>3, <1>4 DEF a

\* A frame that belongs to no turn does not come between, when it is queued ...
LEMMA LinkReplies ==
    ASSUME NEW q \in Seq(Queued), NEW w, NEW s, NEW t, Linked(w, q, s, t)
    PROVE  Linked(w, Append(q, Reply), s, t)
<1> DEFINE a == Append(q, Reply)
<1>1. Turns(a) = Turns(q) /\ \A i \in Turns(q) : a[i] = q[i]
  BY TurnsAppended, ReplyType
<1> HIDE DEF a
<1>2. Linked(w, a, s, t)
  BY <1>1 DEF Linked
<1>q. QED
  BY <1>2 DEF a

\* ... and when it is written.
LEMMA LinkPasses ==
    ASSUME NEW q \in Seq(Queued), q # <<>>, q[1].turn = 0,
           NEW w, NEW s, NEW t, Linked(w, q, s, t)
    PROVE  Linked(w, Tail(q), s, t)
<1> DEFINE a == Tail(q)
<1>1. /\ \A i \in Turns(a) : i \in Nat \ {0} /\ i + 1 \in Turns(q) /\ a[i] = q[i + 1]
      /\ \A i \in Turns(q) : i \in Nat \ {0} /\ i # 1 /\ i - 1 \in Turns(a)
  BY TurnsRemaining
<1> HIDE DEF a
<1>2. \A i \in DOMAIN w, j \in Turns(a) : Before(w[i], a[j])
  BY <1>1 DEF Linked
<1>3. ASSUME NEW j \in Turns(a), \A k \in Turns(a) : j <= k
      PROVE  Continues(w, a[j])
  <2>1. ASSUME NEW k \in Turns(q)
        PROVE  j + 1 <= k
    <3>1. k - 1 \in Turns(a) /\ k \in Nat /\ j \in Nat
      BY <1>1
    <3>2. j <= k - 1
      BY <3>1, <1>3
    <3>q. QED
      BY <3>1, <3>2
  <2>q. QED
    BY <1>1, <1>3, <2>1 DEF Linked
<1>4. Turns(a) = {} => Turns(q) = {}
  BY <1>1
<1>q. QED
  BY <1>2, <1>3, <1>4 DEF Linked, a

\* What follows the first frame of the queue, if it is one of a turn.
LEMMA HeadFollowed ==
    ASSUME NEW q \in Seq(Queued), q # <<>>, q[1].turn # 0, NEW s, NEW t, QueueOf(q, s, t)
    PROVE  /\ q[1] \in Frames /\ Due(q[1], s, t)
           /\ \A j \in Turns(Tail(q)) : Before(q[1], Tail(q)[j])
           /\ \A j \in Turns(Tail(q)) :
                  (\A k \in Turns(Tail(q)) : j <= k) => Follows(q[1], Tail(q)[j])
           /\ Turns(Tail(q)) = {} => NextInLine(q[1], s, t)
<1> DEFINE a == Tail(q)
<1>1. /\ \A i \in Turns(a) : i \in Nat \ {0} /\ i + 1 \in Turns(q) /\ a[i] = q[i + 1]
      /\ \A i \in Turns(q) : i \in Nat \ {0} /\ (i # 1 => i - 1 \in Turns(a))
      /\ 1 \in Turns(q)
  BY TurnsRemaining
<1>2. q[1] \in Frames
  BY RemainingFrames, QueuedType
<1> HIDE DEF a
<1>3. Due(q[1], s, t)
  BY <1>1 DEF QueueOf
<1>4. \A j \in Turns(a) : Before(q[1], a[j])
  <2> TAKE j \in Turns(a)
  <2>1. 1 < j + 1 /\ j + 1 \in Turns(q)
    BY <1>1
  <2>q. QED
    BY <1>1, <2>1 DEF QueueOf
<1>5. ASSUME NEW j \in Turns(a), \A k \in Turns(a) : j <= k
      PROVE  Follows(q[1], a[j])
  <2>1. 1 < j + 1 /\ j + 1 \in Turns(q)
    BY <1>1
  <2>2. ASSUME NEW k \in Turns(q), 1 < k, k < j + 1
        PROVE  FALSE
    <3>1. k - 1 \in Turns(a) /\ k \in Nat /\ j \in Nat
      BY <1>1, <2>2
    <3>2. j <= k - 1
      BY <3>1, <1>5
    <3>q. QED
      BY <3>1, <3>2, <2>2
  <2>q. QED
    BY <1>1, <2>1, <2>2 DEF QueueOf
<1>6. ASSUME Turns(a) = {}
      PROVE  NextInLine(q[1], s, t)
  <2>1. \A k \in Turns(q) : k <= 1
    BY <1>1, <1>6
  <2>q. QED
    BY <2>1, <1>1 DEF QueueOf
<1>q. QED
  BY <1>2, <1>3, <1>4, <1>5, <1>6 DEF a

\* The frame is written behind those that are on the connection.
LEMMA FrameWritten ==
    ASSUME NEW w \in Seq(Frames), NEW q \in Seq(Queued), q # <<>>, q[1].turn # 0,
           NEW s, NEW t, QueueOf(q, s, t), WireOf(w, s, t), Linked(w, q, s, t)
    PROVE  /\ WireOf(Append(w, q[1]), s, t)
           /\ Linked(Append(w, q[1]), Tail(q), s, t)
<1> DEFINE v == Append(w, q[1])
           a == Tail(q)
           n == Len(w) + 1
<1>1. /\ q[1] \in Frames /\ Due(q[1], s, t)
      /\ \A j \in Turns(a) : Before(q[1], a[j])
      /\ \A j \in Turns(a) : (\A k \in Turns(a) : j <= k) => Follows(q[1], a[j])
      /\ Turns(a) = {} => NextInLine(q[1], s, t)
  BY HeadFollowed
<1>2. /\ v \in Seq(Frames) /\ Len(v) = n /\ n \in Nat \ {0} /\ DOMAIN v = 1..n
      /\ v[n] = q[1] /\ v # <<>> /\ Last(v) = q[1]
      /\ DOMAIN w = 1..(n - 1) /\ Len(w) = n - 1
      /\ \A i \in DOMAIN w : v[i] = w[i]
  BY <1>1, AppendedFrames DEF Last
<1>3. \A j \in Turns(a) : j + 1 \in Turns(q) /\ a[j] = q[j + 1]
  BY TurnsRemaining
<1>4. 1 \in Turns(q) /\ \A k \in Turns(q) : 1 <= k
  BY TurnsRemaining
<1>5. /\ Continues(w, q[1])
      /\ \A i \in DOMAIN w : Before(w[i], q[1])
  BY <1>4 DEF Linked
<1>6. w = <<>> <=> n = 1
  BY <1>2
<1> HIDE DEF a, v, n
<1>7. v[1].kind = "turn.start"
  <2>1. CASE n = 1
    BY <2>1, <1>2, <1>5, <1>6 DEF Continues
  <2>2. CASE n # 1
    <3>1. 1 \in DOMAIN w /\ w # <<>>
      BY <2>2, <1>2, <1>6
    <3>q. QED
      BY <3>1, <1>2 DEF WireOf
  <2>q. QED
    BY <2>1, <2>2
<1>8. ASSUME NEW i \in 2..Len(v)
      PROVE  Follows(v[i - 1], v[i])
  <2>1. CASE i = n
    <3>1. w # <<>> /\ Last(w) = w[n - 1] /\ n - 1 \in DOMAIN w
      BY <2>1, <1>2, <1>6 DEF Last
    <3>q. QED
      BY <2>1, <3>1, <1>2, <1>5 DEF Continues
  <2>2. CASE i # n
    <3>1. i \in 2..Len(w) /\ i \in DOMAIN w /\ i - 1 \in DOMAIN w
      BY <1>2, <2>2
    <3>q. QED
      BY <3>1, <1>2 DEF WireOf
  <2>q. QED
    BY <2>1, <2>2
<1>9. ASSUME NEW i \in DOMAIN v, NEW j \in DOMAIN v, i < j
      PROVE  Before(v[i], v[j])
  <2>1. i \in DOMAIN w
    BY <1>2, <1>9
  <2>2. CASE j = n
    BY <2>1, <2>2, <1>2, <1>5
  <2>3. CASE j # n
    <3>1. j \in DOMAIN w
      BY <2>3, <1>2
    <3>q. QED
      BY <2>1, <3>1, <1>2, <1>9 DEF WireOf
  <2>q. QED
    BY <2>2, <2>3
<1>10. ASSUME NEW i \in DOMAIN v
       PROVE  Due(v[i], s, t) /\ \A j \in Turns(a) : Before(v[i], a[j])
  <2>1. CASE i = n
    BY <2>1, <1>1, <1>2
  <2>2. CASE i # n
    <3>1. i \in DOMAIN w /\ v[i] = w[i]
      BY <2>2, <1>2
    <3>q. QED
      BY <3>1, <1>3 DEF WireOf, Linked
  <2>q. QED
    BY <2>1, <2>2
<1>11. WireOf(v, s, t)
  BY <1>7, <1>8, <1>9, <1>10 DEF WireOf
<1>12. Linked(v, a, s, t)
  BY <1>1, <1>2, <1>10 DEF Linked, Continues, NextInLine
<1>q. QED
  BY <1>11, <1>12 DEF v, a

\* The frame opens a turn after a closed one: the history starts with it.
LEMMA FrameRestarts ==
    ASSUME NEW q \in Seq(Queued), q # <<>>, q[1].kind = "turn.start", q[1].turn # 0,
           NEW s, NEW t, QueueOf(q, s, t)
    PROVE  /\ <<q[1]>> \in Seq(Frames)
           /\ WireOf(<<q[1]>>, s, t)
           /\ Linked(<<q[1]>>, Tail(q), s, t)
<1> DEFINE v == <<q[1]>>
           a == Tail(q)
<1>1. /\ q[1] \in Frames /\ Due(q[1], s, t)
      /\ \A j \in Turns(a) : Before(q[1], a[j])
      /\ \A j \in Turns(a) : (\A k \in Turns(a) : j <= k) => Follows(q[1], a[j])
      /\ Turns(a) = {} => NextInLine(q[1], s, t)
  BY HeadFollowed
<1>2. v \in Seq(Frames) /\ Len(v) = 1 /\ DOMAIN v = {1} /\ v[1] = q[1] /\ v # <<>> /\ Last(v) = q[1]
  BY <1>1 DEF Last
<1> HIDE DEF v, a
<1>3. WireOf(v, s, t)
  BY <1>1, <1>2 DEF WireOf
<1>4. Linked(v, a, s, t)
  BY <1>1, <1>2 DEF Linked, Continues, NextInLine
<1>q. QED
  BY <1>2, <1>3, <1>4 DEF v, a

-----------------------------------------------------------------------------
(* How many frames there are.                                              *)

\* The queue takes the sender's frame.
LEMMA CountSends ==
    ASSUME NEW w \in Seq(Frames), NEW q \in Seq(Queued), NEW z,
           NEW s \in TurnKinds, NEW u, NEW t \in 1..MaxTurns, NEW l \in Nat, NEW m \in Nat,
           Goes(s, u), QueueOf(q, s, t), Owed(w, q, s, t, l, z),
           s = "pcm" => l = m + 1, s # "pcm" => l = m, s = "audio.stop" => l = 0
    PROVE  Owed(w, Append(q, Item(s, t)), u, t, m, z)
<1> DEFINE a == Append(q, Item(s, t))
<1>1. \A x : /\ Count(w, x) \in Nat /\ Count(q, x) \in Nat
             /\ Count(a, x) = Count(q, x) + (IF Item(s, t) = x THEN 1 ELSE 0)
  <2> TAKE x
  <2>1. Count(w, x) \in Nat /\ Count(q, x) \in Nat
    BY CountType
  <2>2. Item(s, t) \in Queued
    BY ItemType
  <2>q. QED
    BY <2>1, <2>2, CountAppended
<1>2. \A T : Item(s, t) = PCM(T) <=> s = "pcm" /\ t = T
  BY DEF Item, PCM
<1>3. Count(w, PCM(t)) + Count(q, PCM(t)) + l = z[t]
  BY DEF Owed
<1>4. Count(w, PCM(t)) + Count(a, PCM(t)) + m = z[t]
  <2>1. CASE s = "pcm"
    BY <2>1, <1>1, <1>2, <1>3, SMTT(30)
  <2>2. CASE s # "pcm"
    BY <2>2, <1>1, <1>2, <1>3
  <2>q. QED
    BY <2>1, <2>2
<1>5. ASSUME NEW i \in DOMAIN a, a[i].kind = "audio.stop"
      PROVE  Count(w, PCM(a[i].turn)) + Count(a, PCM(a[i].turn)) = z[a[i].turn]
  <2>1. CASE i \in DOMAIN q
    <3>1. a[i] = q[i] /\ q[i] \in Queued
      BY <2>1, AppendedFrames, ItemType
    <3>2. i \in Turns(q) /\ q[i].turn \in Nat
      BY <2>1, <3>1, <1>5, QueuedType DEF Turns
    <3>3. q[i].turn < t
      <4>1. Before(q[i], Item(s, t))
        BY <3>2 DEF QueueOf, Due
      <4>q. QED
        BY <4>1, <3>1, <1>5, ItemType DEF Before
    <3>4. Item(s, t) # PCM(q[i].turn)
      BY <3>2, <3>3, <1>2
    <3>5. Count(a, PCM(q[i].turn)) = Count(q, PCM(q[i].turn))
      BY <3>4, <1>1
    <3>q. QED
      BY <2>1, <3>1, <3>5, <1>5 DEF Owed
  <2>2. CASE i \notin DOMAIN q
    <3>1. a[i] = Item(s, t)
      BY <2>2, AppendedFrames, ItemType
    <3>2. s = "audio.stop" /\ a[i].turn = t /\ m = 0
      BY <3>1, <1>5, ItemType
    <3>q. QED
      BY <3>2, <1>1, <1>4, SMTT(30)
  <2>q. QED
    BY <2>1, <2>2
<1>q. QED
  BY <1>4, <1>5 DEF Owed

\* A frame that belongs to no turn is no PCM frame.
LEMMA CountReplies ==
    ASSUME NEW q \in Seq(Queued), NEW w, NEW s, NEW t, NEW l, NEW z, Owed(w, q, s, t, l, z)
    PROVE  Owed(w, Append(q, Reply), s, t, l, z)
<1> DEFINE a == Append(q, Reply)
<1>1. ASSUME NEW T
      PROVE  Count(a, PCM(T)) = Count(q, PCM(T))
  <2>1. Reply # PCM(T)
    BY ReplyType DEF PCM, Item
  <2>2. Count(q, PCM(T)) \in Nat
    BY CountType
  <2>q. QED
    BY <2>1, <2>2, CountAppended, ReplyType
<1>2. \A i \in DOMAIN a : a[i].kind = "audio.stop" => i \in DOMAIN q /\ a[i] = q[i]
  BY AppendedFrames, ReplyType
<1> HIDE DEF a
<1>3. Owed(w, a, s, t, l, z)
  BY <1>1, <1>2 DEF Owed
<1>q. QED
  BY <1>3 DEF a

LEMMA CountPasses ==
    ASSUME NEW q \in Seq(Queued), q # <<>>, q[1].turn = 0,
           NEW w, NEW s, NEW t, NEW l, NEW z, Owed(w, q, s, t, l, z)
    PROVE  Owed(w, Tail(q), s, t, l, z)
<1> DEFINE a == Tail(q)
<1>0. a \in Seq(Queued) /\ Head(q) = q[1] /\ q[1] \in Queued
  BY RemainingFrames
<1>1. ASSUME NEW T
      PROVE  Count(a, PCM(T)) = Count(q, PCM(T))
  <2>1. q[1] # PCM(T)
    BY <1>0 DEF PCM, Item, Queued, Frames, Reply, TurnKinds
  <2>2. Count(a, PCM(T)) \in Nat
    BY <1>0, CountType
  <2>q. QED
    BY <2>1, <2>2, <1>0, CountRemaining
<1>2. \A i \in DOMAIN a : i + 1 \in DOMAIN q /\ a[i] = q[i + 1]
  BY RemainingFrames
<1> HIDE DEF a
<1>3. Owed(w, a, s, t, l, z)
  BY <1>1, <1>2 DEF Owed
<1>q. QED
  BY <1>3 DEF a

\* What is written leaves the queue.
LEMMA CountWritten ==
    ASSUME NEW w \in Seq(Frames), NEW q \in Seq(Queued), q # <<>>, q[1] \in Frames,
           NEW s, NEW t, NEW l, NEW z, Owed(w, q, s, t, l, z)
    PROVE  Owed(Append(w, q[1]), Tail(q), s, t, l, z)
<1> DEFINE v == Append(w, q[1])
           a == Tail(q)
<1>0. a \in Seq(Queued) /\ Head(q) = q[1]
  BY RemainingFrames
<1>1. ASSUME NEW x
      PROVE  Count(v, x) + Count(a, x) = Count(w, x) + Count(q, x)
  <2>1. Count(w, x) \in Nat /\ Count(a, x) \in Nat
    BY <1>0, CountType
  <2>2. Count(v, x) = Count(w, x) + (IF q[1] = x THEN 1 ELSE 0)
    BY CountAppended
  <2>3. Count(q, x) = Count(a, x) + (IF q[1] = x THEN 1 ELSE 0)
    BY <1>0, CountRemaining
  <2>q. QED
    BY <2>1, <2>2, <2>3
<1>2. \A i \in DOMAIN a : i + 1 \in DOMAIN q /\ a[i] = q[i + 1]
  BY RemainingFrames
<1> HIDE DEF a, v
<1>3. Owed(v, a, s, t, l, z)
  BY <1>1, <1>2 DEF Owed
<1>q. QED
  BY <1>3 DEF a, v

\* Nothing of the turns to come was on the connection when the history starts
\* again.
LEMMA CountRestarts ==
    ASSUME NEW w \in Seq(Frames), NEW q \in Seq(Queued), q # <<>>, q[1] \in Frames,
           q[1].kind = "turn.start", \A i \in DOMAIN w : w[i].turn < q[1].turn,
           NEW s, NEW t, NEW l, NEW z, QueueOf(q, s, t), Owed(w, q, s, t, l, z)
    PROVE  Owed(<<q[1]>>, Tail(q), s, t, l, z)
<1> DEFINE v == <<q[1]>>
           a == Tail(q)
<1>0. /\ a \in Seq(Queued) /\ Head(q) = q[1] /\ v \in Seq(Frames)
      /\ q[1].turn \in Nat /\ q[1].turn # 0
  BY RemainingFrames, QueuedType DEF Frames
<1>1. ASSUME NEW T, q[1].turn <= T
      PROVE  Count(v, PCM(T)) + Count(a, PCM(T)) = Count(w, PCM(T)) + Count(q, PCM(T))
  <2>1. Count(w, PCM(T)) \in Nat /\ Count(a, PCM(T)) \in Nat
    BY <1>0, CountType
  <2>2. Count(w, PCM(T)) = 0
    <3>1. \A i \in DOMAIN w : w[i] # PCM(T)
      <4> TAKE i \in DOMAIN w
      <4>1. w[i].turn \in Nat /\ w[i].turn < q[1].turn
        BY QueuedType DEF Queued
      <4>2. PCM(T).turn = T
        BY DEF PCM, Item
      <4>3. CASE w[i] = PCM(T)
        BY <4>1, <4>2, <4>3, <1>0, <1>1
      <4>q. QED
        BY <4>3
    <3>q. QED
      BY <3>1, CountNone
  <2>3. q[1] # PCM(T)
    BY DEF PCM, Item
  <2>4. Count(v, PCM(T)) = 0
    <3>1. \A i \in DOMAIN v : v[i] # PCM(T)
      BY <2>3
    <3>q. QED
      BY <3>1, <1>0, CountNone
  <2>5. Count(q, PCM(T)) = Count(a, PCM(T)) + 0
    BY <1>0, <2>3, CountRemaining
  <2>q. QED
    BY <2>1, <2>2, <2>4, <2>5
<1>2. \A i \in DOMAIN a : i + 1 \in DOMAIN q /\ a[i] = q[i + 1] /\ a[i] \in Queued
  BY RemainingFrames
<1>3. s \in TurnKinds => q[1].turn <= t
  BY <1>0, HeadFollowed DEF Due
<1>4. \A i \in DOMAIN a : a[i].kind = "audio.stop" => q[1].turn <= a[i].turn
  <2> TAKE i \in DOMAIN a
  <2> HAVE a[i].kind = "audio.stop"
  <2>1. i \in Turns(a)
    BY <1>2, QueuedType DEF Turns
  <2>q. QED
    BY <2>1, <1>0, HeadFollowed DEF Before
<1> HIDE DEF a, v
<1>5. Owed(v, a, s, t, l, z)
  BY <1>1, <1>2, <1>3, <1>4 DEF Owed
<1>q. QED
  BY <1>5 DEF a, v

\* A turn of which TurnSent is told is on the connection.
LEMMA ToldWritten ==
    ASSUME NEW w \in Seq(Frames), NEW q \in Seq(Queued), q # <<>>, q[1] \in Frames,
           NEW s, NEW t, NEW l, NEW z, NEW d,
           QueueOf(q, s, t), Linked(w, q, s, t), Owed(w, q, s, t, l, z), Told(w, d, z)
    PROVE  Told(Append(w, q[1]), IF q[1].kind = "audio.stop" THEN d \cup {q[1].turn} ELSE d, z)
<1> DEFINE v == Append(w, q[1])
           m == q[1]
<1>0. /\ m.turn \in Nat /\ m.turn # 0 /\ m = Item(m.kind, m.turn) /\ Head(q) = m
      /\ Len(w) + 1 \in DOMAIN v /\ v[Len(w) + 1] = m
      /\ \A i \in DOMAIN w : i \in DOMAIN v /\ v[i] = w[i]
  BY AppendedFrames, RemainingFrames, QueuedType DEF Frames
<1>1. ASSUME NEW T, m # PCM(T)
      PROVE  Count(v, PCM(T)) = Count(w, PCM(T))
  <2>1. Count(w, PCM(T)) \in Nat
    BY CountType
  <2>2. Count(v, PCM(T)) = Count(w, PCM(T)) + 0
    BY <1>1, CountAppended
  <2>q. QED
    BY <2>1, <2>2
<1>2. ASSUME NEW T \in d
      PROVE  Count(v, PCM(T)) = z[T] /\ \E i \in DOMAIN v : v[i] = Item("audio.stop", T)
  <2>1. PICK i \in DOMAIN w : w[i] = Item("audio.stop", T)
    BY DEF Told
  <2>2. w[i].turn = T /\ w[i].kind = "audio.stop"
    BY <2>1 DEF Item
  <2>3. w[i].turn \in Nat
    BY QueuedType DEF Queued
  <2>4. Before(w[i], m)
    <3>1. 1 \in Turns(q)
      BY <1>0, TurnsRemaining
    <3>q. QED
      BY <3>1 DEF Linked
  <2>5. T < m.turn
    BY <2>2, <2>4 DEF Before
  <2>6. m # PCM(T)
    <3>1. PCM(T).turn = T /\ T \in Nat
      BY <2>2, <2>3 DEF PCM, Item
    <3>q. QED
      BY <3>1, <2>5, <1>0
  <2>q. QED
    BY <2>1, <2>6, <1>0, <1>1 DEF Told
<1>3. ASSUME m.kind = "audio.stop"
      PROVE  /\ Count(v, PCM(m.turn)) = z[m.turn]
             /\ \E i \in DOMAIN v : v[i] = Item("audio.stop", m.turn)
  <2>1. m # PCM(m.turn)
    BY <1>3 DEF PCM, Item
  <2>2. Count(q, PCM(m.turn)) = 0
    <3>1. \A i \in DOMAIN q : q[i] # PCM(m.turn)
      <4> TAKE i \in DOMAIN q
      <4>1. CASE i # 1 /\ q[i] = PCM(m.turn)
        <5>1. q[i].turn = m.turn
          BY <4>1 DEF PCM, Item
        <5>2. i \in Turns(q) /\ 1 \in Turns(q) /\ 1 < i
          BY <5>1, <4>1, <1>0, TurnsRemaining, RemainingFrames DEF Turns
        <5>3. Before(m, q[i])
          BY <5>2 DEF QueueOf
        <5>q. QED
          BY <5>1, <5>3, <1>0, <1>3 DEF Before
      <4>q. QED
        BY <4>1, <2>1
    <3>q. QED
      BY <3>1, CountNone
  <2>3. 1 \in DOMAIN q
    BY RemainingFrames
  <2>4. Count(w, PCM(m.turn)) + Count(q, PCM(m.turn)) = z[m.turn]
    BY <2>3, <1>3 DEF Owed
  <2>5. Count(w, PCM(m.turn)) \in Nat
    BY CountType
  <2>q. QED
    BY <2>1, <2>2, <2>4, <2>5, <1>0, <1>1, <1>3
<1>q. QED
  BY <1>2, <1>3 DEF Told

-----------------------------------------------------------------------------
(* The sender's other steps.                                               *)

\* A sender that is about to send nothing asks nothing of the stream.
LEMMA SenderRests ==
    ASSUME NEW w, NEW q, NEW s, NEW t, NEW u, u \notin TurnKinds
    PROVE  /\ QueueOf(q, s, t) => QueueOf(q, u, t)
           /\ WireOf(w, s, t) => WireOf(w, u, t)
           /\ Linked(w, q, s, t) => Linked(w, q, u, t)
           /\ \A l, m, z : Owed(w, q, s, t, l, z) => Owed(w, q, u, t, m, z)
<1>1. /\ u # "turn.start"
      /\ \A p : Due(p, s, t) => Due(p, u, t)
      /\ \A p : NextInLine(p, u, t)
  BY DEF TurnKinds, Due, NextInLine
<1>2. QueueOf(q, s, t) => QueueOf(q, u, t)
  BY <1>1 DEF QueueOf
<1>3. WireOf(w, s, t) => WireOf(w, u, t)
  BY <1>1 DEF WireOf
<1>4. Linked(w, q, s, t) => Linked(w, q, u, t)
  BY DEF Linked
<1>5. \A l, m, z : Owed(w, q, s, t, l, z) => Owed(w, q, u, t, m, z)
  BY DEF Owed
<1>q. QED
  BY <1>2, <1>3, <1>4, <1>5

\* A turn of n frames begins: nothing of it is anywhere yet.
LEMMA TurnBegins ==
    ASSUME NEW w \in Seq(Frames), NEW q \in Seq(Queued), NEW s, NEW t \in Nat,
           s \notin TurnKinds, t + 1 \in 1..MaxTurns,
           NEW z, NEW y, NEW n \in Nat,
           y[t + 1] = n, \A i \in 1..MaxTurns : i # t + 1 => y[i] = z[i],
           QueueOf(q, s, t), WireOf(w, s, t)
    PROVE  /\ QueueOf(q, "turn.start", t + 1) /\ WireOf(w, "turn.start", t + 1)
           /\ Linked(w, q, s, t) => Linked(w, q, "turn.start", t + 1)
           /\ \A l : Owed(w, q, s, t, l, z) => Owed(w, q, "turn.start", t + 1, n, y)
           /\ \A d : Told(w, d, z) => Told(w, d, y)
<1>1. \A i \in DOMAIN w : w[i] \in Frames /\ w[i].turn \in 1..MaxTurns /\ w[i].turn <= t
  <2> TAKE i \in DOMAIN w
  <2>1. w[i] \in Frames /\ Due(w[i], s, t)
    BY DEF WireOf
  <2>q. QED
    BY <2>1, QueuedType DEF Due, Queued
<1>2. \A i \in Turns(q) : q[i] \in Frames /\ q[i].turn \in 1..MaxTurns /\ q[i].turn <= t
  <2> TAKE i \in Turns(q)
  <2>1. q[i] \in Queued /\ q[i].turn # 0 /\ Due(q[i], s, t)
    BY DEF QueueOf, Turns
  <2>q. QED
    BY <2>1, QueuedType DEF Due
<1>3. ASSUME NEW p, p.turn \in 1..MaxTurns, p.turn <= t
      PROVE  Due(p, "turn.start", t + 1) /\ NextInLine(p, "turn.start", t + 1)
             /\ Follows(p, Item("turn.start", t + 1))
  <2>1. p.turn < t + 1 /\ p.turn <= t + 1
    BY <1>3
  <2>q. QED
    BY <2>1 DEF Due, NextInLine, Follows, Before, Item
<1>4. QueueOf(q, "turn.start", t + 1)
  BY <1>2, <1>3 DEF QueueOf
<1>5. WireOf(w, "turn.start", t + 1)
  BY <1>1, <1>3 DEF WireOf
<1>6. ASSUME Linked(w, q, s, t)
      PROVE  Linked(w, q, "turn.start", t + 1)
  <2>1. Continues(w, Item("turn.start", t + 1))
    <3>1. CASE w = <<>>
      BY <3>1 DEF Continues, Item
    <3>2. CASE w # <<>>
      <4>1. Len(w) \in DOMAIN w /\ Last(w) = w[Len(w)]
        BY <3>2 DEF Last
      <4>q. QED
        BY <3>2, <4>1, <1>1, <1>3 DEF Continues
    <3>q. QED
      BY <3>1, <3>2
  <2>q. QED
    BY <1>6, <2>1 DEF Linked
<1>7. ASSUME NEW x \in Nat, x > t
      PROVE  Count(w, PCM(x)) = 0 /\ Count(q, PCM(x)) = 0
  <2>1. PCM(x).turn = x /\ x # 0
    BY <1>7 DEF PCM, Item
  <2>2. \A i \in DOMAIN w : w[i] # PCM(x)
    <3> TAKE i \in DOMAIN w
    <3>1. w[i].turn # x
      BY <1>1, <1>7
    <3>q. QED
      BY <3>1, <2>1
  <2>3. \A i \in DOMAIN q : q[i] # PCM(x)
    <3> TAKE i \in DOMAIN q
    <3>1. q[i].turn # x
      <4>1. CASE i \in Turns(q)
        BY <4>1, <1>2, <1>7
      <4>2. CASE i \notin Turns(q)
        BY <4>2, <2>1 DEF Turns
      <4>q. QED
        BY <4>1, <4>2
    <3>q. QED
      BY <3>1, <2>1
  <2>q. QED
    BY <2>2, <2>3, CountNone
<1>8. ASSUME NEW l, Owed(w, q, s, t, l, z)
      PROVE  Owed(w, q, "turn.start", t + 1, n, y)
  <2>1. Count(w, PCM(t + 1)) + Count(q, PCM(t + 1)) + n = y[t + 1]
    BY <1>7
  <2>2. ASSUME NEW i \in DOMAIN q, q[i].kind = "audio.stop"
        PROVE  Count(w, PCM(q[i].turn)) + Count(q, PCM(q[i].turn)) = y[q[i].turn]
    <3>1. q[i] \in Queued /\ i \in Turns(q)
      BY <2>2, QueuedType DEF Turns
    <3>2. y[q[i].turn] = z[q[i].turn]
      BY <3>1, <1>2
    <3>q. QED
      BY <2>2, <3>2, <1>8 DEF Owed
  <2>q. QED
    BY <2>1, <2>2 DEF Owed
<1>9. ASSUME NEW d, Told(w, d, z)
      PROVE  Told(w, d, y)
  <2> SUFFICES ASSUME NEW x \in d
               PROVE  y[x] = z[x]
    BY <1>9 DEF Told
  <2>1. PICK i \in DOMAIN w : w[i] = Item("audio.stop", x)
    BY <1>9 DEF Told
  <2>2. w[i].turn = x
    BY <2>1 DEF Item
  <2>q. QED
    BY <2>2, <1>1
<1>q. QED
  BY <1>4, <1>5, <1>6, <1>8, <1>9

-----------------------------------------------------------------------------
(* The steps of the client.                                                *)

\* What the stream lemmas need to know of the state.
LEMMA StreamType ==
    ASSUME TypeOK
    PROVE  /\ wire \in Seq(Frames) /\ high \in Seq(Queued) /\ left \in Nat
           /\ turn \in Nat /\ (turn # 0 => turn \in 1..MaxTurns)
           /\ Len(high) \in 0..HighCap
           /\ \A i \in DOMAIN high : high[i] \in Queued
  <1>1. wire \in Seq(Frames) /\ high \in Seq(Queued)
    BY DEF TypeOK, Queued
  <1>2. left \in Nat /\ turn \in Nat /\ (turn # 0 => turn \in 1..MaxTurns)
    BY ClientAssumption DEF TypeOK
  <1>3. Len(high) \in 0..HighCap
    BY <1>1, ClientAssumption DEF TypeOK
  <1>q. QED
    BY <1>1, <1>2, <1>3

\* Nothing happens to the stream.
LEMMA StreamStays ==
    ASSUME IInv, UNCHANGED <<high, sender, turn, wire, told, size, left>>,
           writer' # "stopped" => writer # "stopped"
    PROVE  StreamShape'
  BY DEF IInv, StreamShape

\* A reply is queued, or finds no room.
LEMMA StreamReplies ==
    ASSUME IInv, UNCHANGED <<sender, turn, wire, told, size, left, writer>>,
           high' = IF Len(high) < HighCap THEN Append(high, Reply) ELSE high
    PROVE  /\ StreamShape' /\ Turns(high') = Turns(high)
           /\ \A i \in Turns(high) : high'[i] = high[i]
           /\ high' \in Seq(Queued) /\ Len(high') \in 0..HighCap
<1>0. wire \in Seq(Frames) /\ high \in Seq(Queued) /\ Len(high) \in 0..HighCap
  BY StreamType DEF IInv
<1>1. CASE Len(high) < HighCap
  <2>1. high' = Append(high, Reply)
    BY <1>1
  <2>2. QueueOf(high', sender', turn') /\ Turns(high') = Turns(high)
    BY <1>0, <2>1, QueueReplies DEF IInv, StreamShape
  <2>3. \A i \in Turns(high) : high'[i] = high[i]
    BY <1>0, <2>1, TurnsAppended, ReplyType
  <2>4. WireOf(wire', sender', turn') /\ Told(wire', told', size')
    BY DEF IInv, StreamShape
  <2>5. ASSUME writer' # "stopped"
        PROVE  /\ Linked(wire', high', sender', turn')
               /\ Owed(wire', high', sender', turn', left', size')
    BY <1>0, <2>1, <2>5, LinkReplies, CountReplies DEF IInv, StreamShape
  <2>6. high' \in Seq(Queued) /\ Len(high') \in 0..HighCap
    BY <1>0, <1>1, <2>1, AppendedFrames, ReplyType, ClientAssumption
  <2>q. QED
    BY <2>2, <2>3, <2>4, <2>5, <2>6 DEF StreamShape
<1>2. CASE ~(Len(high) < HighCap)
  <2>1. high' = high
    BY <1>2
  <2>2. StreamShape'
    BY <2>1, StreamStays
  <2>q. QED
    BY <2>1, <2>2, <1>0
<1>q. QED
  BY <1>1, <1>2

\* A frame is taken from the queue and not written.
LEMMA StreamDrops ==
    ASSUME IInv, UNCHANGED <<sender, turn, wire, told, size, left>>,
           high # <<>>, high' = Tail(high), writer' = "stopped"
    PROVE  /\ StreamShape' /\ high' \in Seq(Queued) /\ Len(high') \in 0..HighCap
           /\ \A i \in Turns(high') : i + 1 \in Turns(high) /\ high'[i] = high[i + 1]
<1>0. high \in Seq(Queued) /\ Len(high) \in 0..HighCap
  BY StreamType DEF IInv
<1>1. QueueOf(high', sender', turn')
  BY <1>0, QueueShrinks DEF IInv, StreamShape
<1>2. WireOf(wire', sender', turn') /\ Told(wire', told', size')
  BY DEF IInv, StreamShape
<1>3. high' \in Seq(Queued) /\ Len(high') \in 0..HighCap
  BY <1>0, RemainingFrames, ClientAssumption
<1>4. \A i \in Turns(high') : i + 1 \in Turns(high) /\ high'[i] = high[i + 1]
  BY <1>0, TurnsRemaining
<1>q. QED
  BY <1>1, <1>2, <1>3, <1>4 DEF StreamShape

\* A frame is taken from the queue and written.
LEMMA StreamWrites ==
    ASSUME IInv, UNCHANGED <<sender, turn, size, left>>, writer # "stopped", writeOutbound
    PROVE  /\ StreamShape' /\ high' \in Seq(Queued) /\ Len(high') \in 0..HighCap
           /\ \A i \in Turns(high') : i + 1 \in Turns(high) /\ high'[i] = high[i + 1]
           /\ wire' \in Seq(Frames) /\ told' \subseteq 1..MaxTurns
<1>0. /\ high \in Seq(Queued) /\ Len(high) \in 0..HighCap /\ wire \in Seq(Frames)
      /\ high # <<>> /\ high' = Tail(high) /\ Head(high) = high[1] /\ high[1] \in Queued
      /\ Delivered(high[1]) /\ told \subseteq 1..MaxTurns
  <2>1. high \in Seq(Queued) /\ Len(high) \in 0..HighCap /\ wire \in Seq(Frames)
    BY StreamType DEF IInv
  <2>2. high # <<>> /\ high' = Tail(high) /\ Delivered(Head(high))
    BY DEF writeOutbound
  <2>3. told \subseteq 1..MaxTurns
    BY DEF IInv, TypeOK
  <2>q. QED
    BY <2>1, <2>2, <2>3, RemainingFrames
<1>1. QueueOf(high', sender', turn')
  BY <1>0, QueueShrinks DEF IInv, StreamShape
<1>2. high' \in Seq(Queued) /\ Len(high') \in 0..HighCap
  BY <1>0, RemainingFrames, ClientAssumption
<1>3. \A i \in Turns(high') : i + 1 \in Turns(high) /\ high'[i] = high[i + 1]
  BY <1>0, TurnsRemaining
<1>4. /\ QueueOf(high, sender, turn) /\ WireOf(wire, sender, turn)
      /\ Linked(wire, high, sender, turn) /\ Owed(wire, high, sender, turn, left, size)
      /\ Told(wire, told, size)
  BY DEF IInv, StreamShape
<1>5. CASE high[1].turn = 0
  <2>1. high[1].kind # "audio.stop" /\ high[1].kind # "turn.start"
    BY <1>0, <1>5 DEF Queued, Frames, Reply
  <2>2. wire' = wire
    BY <1>0, <1>5, <2>1 DEF Delivered, Restarts
  <2>3. told' = told
    BY <1>0, <2>1 DEF Delivered, Restarts
  <2>4. Linked(wire', high', sender', turn')
    BY <1>0, <1>4, <1>5, <2>2, LinkPasses
  <2>5. Owed(wire', high', sender', turn', left', size')
    BY <1>0, <1>4, <1>5, <2>2, CountPasses
  <2>q. QED
    BY <1>0, <1>1, <1>2, <1>3, <1>4, <2>2, <2>3, <2>4, <2>5 DEF StreamShape
<1>6. CASE high[1].turn # 0 /\ ~Restarts(high[1])
  <2>0. high[1] \in Frames /\ high[1].turn \in 1..MaxTurns
    BY <1>0, <1>6, QueuedType
  <2>1. wire' = Append(wire, high[1])
    BY <1>0, <1>6 DEF Delivered
  <2>2. told' = IF high[1].kind = "audio.stop" THEN told \cup {high[1].turn} ELSE told
    BY <1>0, <1>6 DEF Delivered
  <2>3. WireOf(wire', sender', turn') /\ Linked(wire', high', sender', turn')
    BY <1>0, <1>4, <1>6, <2>1, FrameWritten
  <2>4. Owed(wire', high', sender', turn', left', size')
    BY <1>0, <1>4, <2>0, <2>1, CountWritten
  <2>5. Told(wire', told', size')
    BY <1>0, <1>4, <2>0, <2>1, <2>2, ToldWritten
  <2>6. wire' \in Seq(Frames) /\ told' \subseteq 1..MaxTurns
    BY <1>0, <2>0, <2>1, <2>2, AppendedFrames
  <2>q. QED
    BY <1>1, <1>2, <1>3, <2>3, <2>4, <2>5, <2>6 DEF StreamShape
<1>7. CASE high[1].turn # 0 /\ Restarts(high[1])
  <2>0. high[1] \in Frames /\ high[1].turn \in 1..MaxTurns /\ high[1].kind = "turn.start"
    BY <1>0, <1>7, QueuedType DEF Restarts
  <2>1. wire' = <<high[1]>> /\ told' = {}
    BY <1>0, <1>7, <2>0 DEF Delivered
  <2>2. \A i \in DOMAIN wire : wire[i].turn < high[1].turn
    <3> TAKE i \in DOMAIN wire
    <3>1. /\ Len(wire) \in DOMAIN wire /\ Last(wire) = wire[Len(wire)]
          /\ i <= Len(wire) /\ i \in Nat /\ Len(wire) \in Nat
      BY <1>0 DEF Last
    <3>2. wire[Len(wire)].turn < high[1].turn
      BY <3>1, <1>7 DEF Restarts
    <3>3. i < Len(wire) => wire[i].turn <= wire[Len(wire)].turn
      BY <3>1, <1>4 DEF WireOf, Before
    <3>4. wire[i].turn \in Nat /\ wire[Len(wire)].turn \in Nat
      <4>1. wire[i] \in Queued /\ wire[Len(wire)] \in Queued
        BY <3>1, <1>0 DEF Queued
      <4>q. QED
        BY <4>1, QueuedType
    <3>q. QED
      BY <3>1, <3>2, <3>3, <3>4, <2>0
  <2>3. /\ wire' \in Seq(Frames)
        /\ WireOf(wire', sender', turn') /\ Linked(wire', high', sender', turn')
    BY <1>0, <1>4, <1>7, <2>0, <2>1, FrameRestarts
  <2>4. Owed(wire', high', sender', turn', left', size')
    BY <1>0, <1>4, <2>0, <2>1, <2>2, CountRestarts
  <2>5. Told(wire', told', size')
    BY <2>1 DEF Told
  <2>6. told' \subseteq 1..MaxTurns
    BY <2>1
  <2>q. QED
    BY <1>1, <1>2, <1>3, <2>3, <2>4, <2>5, <2>6 DEF StreamShape
<1>q. QED
  BY <1>5, <1>6, <1>7

\* The sender gives up.
LEMMA StreamRests ==
    ASSUME IInv, UNCHANGED <<high, turn, wire, told, size, writer>>, sender' \notin TurnKinds
    PROVE  StreamShape'
  BY SenderRests DEF IInv, StreamShape

\* The sender queues its frame.
LEMMA StreamSends ==
    ASSUME IInv, UNCHANGED <<turn, wire, told, size, writer>>,
           Sending, Len(high) < HighCap, high' = Append(high, Frame(sender)),
           Goes(sender, sender'),
           left' \in Nat, sender = "pcm" => left = left' + 1,
           sender \notin {"pcm", "audio.stop"} => left' = left, sender = "audio.stop" => left' = 0
    PROVE  /\ StreamShape' /\ high' \in Seq(Queued) /\ Len(high') \in 0..HighCap
           /\ Turns(high') = Turns(high) \cup {Len(high) + 1}
           /\ \A i \in Turns(high) : high'[i] = high[i]
           /\ high'[Len(high) + 1].turn = turn
<1>0. /\ wire \in Seq(Frames) /\ high \in Seq(Queued) /\ left \in Nat
      /\ Len(high) \in 0..HighCap /\ turn \in 1..MaxTurns
      /\ (sender = "audio.stop" => left = 0)
  BY StreamType DEF IInv, WorkerShape
<1>1. /\ sender \in TurnKinds /\ Frame(sender) = Item(sender, turn)
      /\ Item(sender, turn) \in Queued /\ Item(sender, turn).turn = turn /\ turn # 0
  BY <1>0, ItemType DEF Sending, TurnKinds, Frame, Item
<1>2. /\ QueueOf(high, sender, turn) /\ WireOf(wire, sender, turn)
      /\ Told(wire, told, size)
  BY DEF IInv, StreamShape
<1>3. QueueOf(high', sender', turn')
  BY <1>0, <1>1, <1>2, QueueSends
<1>4. WireOf(wire', sender', turn')
  BY <1>0, <1>1, <1>2, LinkSends
<1>5. ASSUME writer' # "stopped"
      PROVE  /\ Linked(wire', high', sender', turn')
             /\ Owed(wire', high', sender', turn', left', size')
  <2>1. Linked(wire, high, sender, turn) /\ Owed(wire, high, sender, turn, left, size)
    BY <1>5 DEF IInv, StreamShape
  <2>2. Linked(wire, Append(high, Item(sender, turn)), sender', turn)
    BY <1>0, <1>1, <1>2, <2>1, LinkSends
  <2>3. sender # "pcm" => left = left'
    BY <1>0
  <2>4. Owed(wire, Append(high, Item(sender, turn)), sender', turn, left', size)
    BY <1>0, <1>1, <1>2, <2>1, <2>3, CountSends
  <2>q. QED
    BY <1>1, <2>2, <2>4
<1>6. high' \in Seq(Queued) /\ Len(high') \in 0..HighCap
  BY <1>0, <1>1, AppendedFrames, ClientAssumption
<1>7. /\ Turns(high') = Turns(high) \cup {Len(high) + 1}
      /\ \A i \in Turns(high) : high'[i] = high[i]
  BY <1>0, <1>1, TurnsAppended
<1>8. high'[Len(high) + 1].turn = turn
  BY <1>0, <1>1, AppendedFrames
<1>q. QED
  BY <1>2, <1>3, <1>4, <1>5, <1>6, <1>7, <1>8 DEF StreamShape

\* The initial states.
LEMMA InitInv == Init => IInv
<1> SUFFICES ASSUME Init
             PROVE  IInv
  OBVIOUS
<1>1. TypeOK
  <2>1. 1 \in 1..MaxBackoff /\ 0 \in 0..LogCap /\ 0 \in 0..MaxFrames /\ 0 \in 0..MaxTurns
        /\ 1 \in 1..(MaxTurns + 1) /\ 0 <= HighCap
    BY ClientAssumption
  <2>2. size \in [1..MaxTurns -> 0..MaxFrames]
    BY <2>1 DEF Init
  <2>3. /\ high \in Seq(Frames \cup {Reply}) /\ Len(high) = 0 /\ wire \in Seq(Frames)
        /\ told \subseteq 1..MaxTurns /\ reporter \in [Reporters -> {"none", "checked"}]
    BY DEF Init
  <2>q. QED
    <3>1. /\ logs \in 0..LogCap /\ left \in 0..MaxFrames /\ errs \in 0..2
          /\ backoff \in 1..MaxBackoff /\ turn \in 0..MaxTurns /\ first \in 1..(MaxTurns + 1)
          /\ Len(high) <= HighCap
      BY <2>1, <2>3 DEF Init
    <3>2. /\ phase = "resolving" /\ cancelled \in BOOLEAN /\ usePairing \in BOOLEAN
          /\ conn \in BOOLEAN /\ active \in BOOLEAN /\ held \in BOOLEAN
          /\ writer = "stopped" /\ reader = "stopped" /\ sender = "stopped"
      BY DEF Init
    <3>q. QED
      BY <2>2, <2>3, <3>1, <3>2 DEF TypeOK
<1>2. Turns(high) = {} /\ DOMAIN high = {} /\ DOMAIN wire = {} /\ Len(wire) = 0
  BY DEF Init, Turns
<1>3. ~Sending /\ sender = "stopped" /\ sender \notin TurnKinds
  BY DEF Init, Sending, TurnKinds
<1>4. WorkerShape
  BY <1>2, <1>3 DEF Init, WorkerShape, Stopped, TurnFlagIsReleased
<1>5. SessionShape
  BY <1>2, <1>3 DEF Init, SessionShape
<1>6. QueueOf(high, sender, turn) /\ WireOf(wire, sender, turn) /\ Told(wire, told, size)
  BY <1>2 DEF Init, QueueOf, WireOf, Told
<1>7. writer = "stopped"
  BY DEF Init
<1>q. QED
  BY <1>1, <1>4, <1>5, <1>6, <1>7 DEF IInv, StreamShape

\* The driver, where it leaves the stream alone.
LEMMA PhaseInv ==
    ASSUME IInv,
           AttemptFails \/ handshake \/ PublishConn \/ TakeError \/ disconnect \/ Sleep \/ Cancel
    PROVE  IInv'
<1>1. TypeOK'
  <2>1. backoff' \in 1..MaxBackoff
    <3>1. CASE Sleep
      BY <3>1, ClientAssumption DEF IInv, TypeOK, Sleep
    <3>2. CASE ~Sleep
      BY <3>2, ClientAssumption DEF IInv, TypeOK, AttemptFails, handshake, PublishConn, TakeError,
         disconnect, Cancel
    <3>q. QED
      BY <3>1, <3>2
  <2>2. /\ UNCHANGED <<high, logs, forward, writer, reader, reports, first, sent>>
        /\ phase' \in {"resolving", "welcomed", "announcing", "up", "closing", "drain", "notify",
                       "disconnecting", "backoff", "stopped"}
        /\ cancelled' \in BOOLEAN /\ usePairing' \in BOOLEAN /\ conn' \in BOOLEAN
        /\ errs' \in 0..2
    <3>1. CASE TakeError
      BY <3>1 DEF IInv, TypeOK, TakeError
    <3>2. CASE ~TakeError
      BY <3>2 DEF IInv, TypeOK, AttemptFails, handshake, PublishConn, disconnect, Sleep, Cancel,
         Ended, Workers
    <3>q. QED
      BY <3>1, <3>2
  <2>q. QED
    BY <2>1, <2>2 DEF IInv, TypeOK, forward, reports, sent
<1>2. UNCHANGED <<high, sender, turn, wire, told, size, left, writer, reader, active, first>>
  BY DEF AttemptFails, handshake, PublishConn, TakeError, disconnect, Sleep, Cancel, Workers,
     forward, sent
<1>3. /\ errs' \in {errs, errs - 1} /\ errs' \in 0..2 /\ errs \in 0..2
      /\ phase' # phase => (phase' \in {"up", "closing"} <=> phase \in {"up", "closing"})
      /\ phase' # phase => (phase' \in Between <=> phase \in Between)
      /\ phase' = "up" => phase = "up"
  BY <1>1 DEF IInv, TypeOK, AttemptFails, handshake, PublishConn, TakeError, disconnect, Sleep,
     Cancel, Workers, Ended, Between
<1>4. WorkerShape'
  BY <1>2, <1>3 DEF IInv, WorkerShape, Stopped, TurnFlagIsReleased, Sending
<1>5. SessionShape'
  BY <1>2, <1>3 DEF IInv, SessionShape, Sending
<1>6. StreamShape'
  BY <1>2, StreamStays
<1>q. QED
  BY <1>1, <1>4, <1>5, <1>6 DEF IInv

\* A session begins with no frame of a turn in the queue.
LEMMA StartInv ==
    ASSUME IInv, StartWorkers
    PROVE  IInv'
<1>0. /\ wire = <<>> /\ told = {} /\ Turns(high) = {} /\ sender = "stopped"
      /\ high \in Seq(Queued) /\ turn \in Nat
  BY StreamType DEF IInv, WorkerShape, Stopped, StartWorkers, Between
<1>1. TypeOK'
  BY <1>0, ClientAssumption DEF IInv, TypeOK, StartWorkers, reports, sent
<1>2. ~Sending' /\ sender' \notin TurnKinds /\ ~Sending
  BY <1>0 DEF StartWorkers, Sending, TurnKinds
<1>3. WorkerShape'
  BY <1>0, <1>2 DEF IInv, WorkerShape, StartWorkers, TurnFlagIsReleased, Stopped, Between
<1>4. SessionShape'
  BY <1>0, <1>2 DEF SessionShape, StartWorkers
<1>5. \A i \in DOMAIN high : high[i].kind # "audio.stop"
  <2> TAKE i \in DOMAIN high
  <2>1. high[i] \in Queued /\ high[i].turn = 0
    BY <1>0 DEF Turns
  <2>q. QED
    BY <2>1, QueuedType
<1>6. UNCHANGED <<high, turn, wire, told, size>>
  BY DEF StartWorkers, sent
<1>7. Linked(wire', high', sender', turn') /\ Owed(wire', high', sender', turn', left', size')
  BY <1>0, <1>2, <1>5, <1>6 DEF Linked, Owed
<1>8. /\ QueueOf(high', sender', turn') /\ WireOf(wire', sender', turn')
      /\ Told(wire', told', size')
  BY <1>2, <1>6, SenderRests DEF IInv, StreamShape
<1>q. QED
  BY <1>1, <1>3, <1>4, <1>7, <1>8 DEF IInv, StreamShape

\* The workers have returned: the session is over.
LEMMA WaitInv ==
    ASSUME IInv, Wait
    PROVE  IInv'
<1>1. TypeOK'
  BY ClientAssumption DEF IInv, TypeOK, Wait, Forgotten, reports, sent
<1>2. /\ UNCHANGED <<high, sender, turn, left, writer, reader, active, first, errs>>
      /\ writer = "stopped" /\ reader = "stopped" /\ sender = "stopped"
      /\ phase' = "drain" /\ wire' = <<>> /\ told' = {}
  BY DEF Wait, Forgotten, Stopped, reports, sent
<1>3. WorkerShape'
  BY <1>2 DEF IInv, WorkerShape, Stopped, TurnFlagIsReleased, Sending, Between
<1>4. SessionShape'
  BY <1>2 DEF IInv, SessionShape, Sending
<1>5. WireOf(wire', sender', turn') /\ Told(wire', told', size')
  <2>1. DOMAIN wire' = {} /\ Len(wire') = 0
    BY <1>2
  <2>q. QED
    BY <1>2, <2>1 DEF WireOf, Told
<1>6. StreamShape'
  BY <1>2, <1>5 DEF IInv, StreamShape
<1>q. QED
  BY <1>1, <1>3, <1>4, <1>6 DEF IInv

\* drainHigh ends when nothing is left.
LEMMA DrainInv ==
    ASSUME IInv, drainHigh
    PROVE  IInv'
<1>1. /\ UNCHANGED <<sender, turn, wire, told, size, left, writer, reader, active, first, errs>>
      /\ phase = "drain" /\ Stopped /\ wire = <<>> /\ told = {} /\ ~Sending
  BY DEF IInv, WorkerShape, drainHigh, forward, sent, Stopped, Sending
<1>2. CASE high = <<>>
  <2>1. high' = high /\ phase' = "notify" /\ Turns(high) = {}
    BY <1>2 DEF drainHigh, Turns
  <2>2. TypeOK'
    BY <1>1, <2>1 DEF IInv, TypeOK, drainHigh, reports
  <2>3. WorkerShape' /\ SessionShape'
    BY <1>1, <2>1 DEF IInv, WorkerShape, SessionShape, Stopped, TurnFlagIsReleased, Sending
  <2>4. StreamShape'
    BY <1>1, <2>1, StreamStays
  <2>q. QED
    BY <2>2, <2>3, <2>4 DEF IInv
<1>3. CASE high # <<>>
  <2>1. high' = Tail(high) /\ phase' = "drain" /\ writer' = "stopped"
    BY <1>1, <1>3 DEF drainHigh, Stopped
  <2>2. StreamShape' /\ high' \in Seq(Queued) /\ Len(high') \in 0..HighCap
    BY <1>1, <1>3, <2>1, StreamDrops
  <2>3. TypeOK'
    BY <1>1, <2>1, <2>2, ClientAssumption DEF IInv, TypeOK, drainHigh, reports, Queued
  <2>4. WorkerShape' /\ SessionShape'
    BY <1>1, <2>1 DEF IInv, WorkerShape, SessionShape, Stopped, TurnFlagIsReleased, Sending, Between
  <2>q. QED
    BY <2>2, <2>3, <2>4 DEF IInv
<1>q. QED
  BY <1>2, <1>3

\* Whoever queues a reply or none, and whoever changes nothing but who reports
\* what, what is logged and where the reader is.
LEMMA AsideInv ==
    ASSUME IInv,
           SessionChanged \/ Log \/ ReaderReceives \/ ReaderReplies \/ ReaderStops
             \/ \E r \in Reporters : ReportCheck(r) \/ ReportSend(r)
    PROVE  IInv'
<1>1. /\ UNCHANGED <<sender, turn, wire, told, size, left, writer, active, first>>
      /\ high' = high \/ high' = IF Len(high) < HighCap THEN Append(high, Reply) ELSE high
      /\ phase' = phase \/ (phase = "notify" /\ phase' = "disconnecting")
  <2>1. CASE SessionChanged
    BY <2>1 DEF SessionChanged, forward, sent
  <2>2. CASE Log \/ ReaderReceives \/ ReaderStops
    BY <2>2 DEF Log, ReaderReceives, ReaderStops, forward, sent, run
  <2>3. CASE ReaderReplies
    BY <2>3 DEF ReaderReplies, forward, sent, run
  <2>4. ASSUME NEW r \in Reporters, ReportCheck(r) \/ ReportSend(r)
        PROVE  /\ UNCHANGED <<forward, sent, writer, first, run>>
               /\ high' = high \/ high' = IF Len(high) < HighCap THEN Append(high, Reply) ELSE high
    BY <2>4 DEF ReportCheck, ReportSend
  <2>q. QED
    BY <2>1, <2>2, <2>3, <2>4 DEF forward, sent, run
<1>2. /\ StreamShape' /\ Turns(high') = Turns(high)
      /\ \A i \in Turns(high) : high'[i] = high[i]
      /\ high' \in Seq(Queued) /\ Len(high') \in 0..HighCap
  <2>1. CASE high' = high
    BY <1>1, <2>1, StreamStays, StreamType DEF IInv
  <2>2. CASE high' = IF Len(high) < HighCap THEN Append(high, Reply) ELSE high
    BY <1>1, <2>2, StreamReplies
  <2>q. QED
    BY <1>1, <2>1, <2>2
<1>3. /\ errs' \in 0..2 /\ reader' \in {"stopped", "reading", "replying"}
      /\ writer' # "stopped" => errs' <= 1
      /\ reader' # "stopped" => errs' <= 1
      /\ writer' # "stopped" /\ reader' # "stopped" => errs' = 0
      /\ phase' \notin {"up", "closing"} => reader' = "stopped"
  <2>0. /\ errs \in 0..2 /\ reader \in {"stopped", "reading", "replying"}
        /\ writer # "stopped" => errs <= 1
        /\ reader # "stopped" => errs <= 1
        /\ writer # "stopped" /\ reader # "stopped" => errs = 0
        /\ phase \notin {"up", "closing"} => reader = "stopped"
    BY DEF IInv, TypeOK, WorkerShape, Stopped
  <2>1. \/ reader' = reader /\ errs' = errs
        \/ reader # "stopped" /\ reader' \in {"reading", "replying"} /\ errs' = errs
        \/ reader # "stopped" /\ reader' = "stopped" /\ errs' = errs + 1
    <3>1. CASE SessionChanged \/ Log \/ ReaderReceives \/ ReaderReplies \/ ReaderStops
      BY <3>1 DEF SessionChanged, Log, ReaderReceives, ReaderReplies, ReaderStops
    <3>2. ASSUME NEW r \in Reporters, ReportCheck(r) \/ ReportSend(r)
          PROVE  reader' = reader /\ errs' = errs
      BY <3>2 DEF ReportCheck, ReportSend
    <3>q. QED
      BY <3>1, <3>2
  <2>q. QED
    BY <1>1, <2>0, <2>1
<1>4. /\ UNCHANGED <<cancelled, backoff, usePairing, conn>>
      /\ logs' \in 0..LogCap /\ held' \in BOOLEAN
      /\ reporter' \in [Reporters -> {"none", "checked"}]
  <2>0. TypeOK
    BY DEF IInv
  <2>1. CASE SessionChanged \/ Log \/ ReaderReceives \/ ReaderReplies \/ ReaderStops
    <3>1. UNCHANGED <<cancelled, backoff, usePairing, conn, reporter>>
      BY <2>1 DEF SessionChanged, Log, ReaderReceives, ReaderReplies, ReaderStops, reports, run
    <3>2. logs' \in 0..LogCap
      <4>1. logs' \in {logs, logs + 1} /\ (logs' # logs => logs < LogCap)
        BY <2>1 DEF SessionChanged, Log, ReaderReceives, ReaderReplies, ReaderStops
      <4>q. QED
        BY <2>0, <4>1, ClientAssumption DEF TypeOK
    <3>3. held' \in BOOLEAN
      BY <2>0, <2>1 DEF TypeOK, SessionChanged, Log, ReaderReceives, ReaderReplies, ReaderStops,
         reports
    <3>q. QED
      BY <2>0, <3>1, <3>2, <3>3 DEF TypeOK
  <2>2. ASSUME NEW r \in Reporters, ReportCheck(r) \/ ReportSend(r)
        PROVE  /\ UNCHANGED <<cancelled, backoff, usePairing, conn, logs>>
               /\ held' \in BOOLEAN /\ reporter' \in [Reporters -> {"none", "checked"}]
    BY <2>0, <2>2 DEF TypeOK, ReportCheck, ReportSend, run
  <2>q. QED
    BY <2>0, <2>1, <2>2 DEF TypeOK
<1>5. TypeOK'
  BY <1>1, <1>2, <1>3, <1>4 DEF IInv, TypeOK, Queued
<1>6. WorkerShape'
  BY <1>1, <1>2, <1>3 DEF IInv, WorkerShape, Stopped, TurnFlagIsReleased, Sending, Between
<1>7. SessionShape'
  BY <1>1, <1>2 DEF IInv, SessionShape, Sending
<1>q. QED
  BY <1>2, <1>5, <1>6, <1>7 DEF IInv

\* The writer goes on: with a frame, with a log record, or to wait.
LEMMA WriterInv ==
    ASSUME IInv, Writer
    PROVE  IInv'
<1>1. /\ UNCHANGED <<run, errs, forward, reader, reports, first>>
      /\ writer # "stopped" /\ writer' \in {"poll", "select", "recheck"}
      /\ writeOutbound \/ UNCHANGED <<high, sent>>
  BY DEF Writer, WriterPoll, WriterSelect, WriterRecheck, writerIdle
<1>2. logs' \in 0..LogCap
  <2>1. logs \in 0..LogCap
    BY DEF IInv, TypeOK
  <2>2. logs' \in {logs, logs + 1, logs - 1} /\ (logs' = logs + 1 => logs < LogCap)
        /\ (logs' = logs - 1 => logs > 0)
    BY <2>1 DEF Writer, WriterPoll, WriterSelect, WriterRecheck
  <2>q. QED
    BY <2>1, <2>2, ClientAssumption
<1>3. /\ StreamShape' /\ high' \in Seq(Queued) /\ Len(high') \in 0..HighCap
      /\ wire' \in Seq(Frames) /\ told' \subseteq 1..MaxTurns
      /\ high' = high \/ \A i \in Turns(high') : i + 1 \in Turns(high) /\ high'[i] = high[i + 1]
  <2>1. UNCHANGED <<sender, turn, size, left>>
    BY <1>1 DEF forward
  <2>2. CASE writeOutbound
    BY <1>1, <2>1, <2>2, StreamWrites
  <2>3. CASE UNCHANGED <<high, sent>>
    <3>1. UNCHANGED <<high, wire, told>>
      BY <2>3 DEF sent
    <3>2. told \subseteq 1..MaxTurns
      BY DEF IInv, TypeOK
    <3>q. QED
      BY <1>1, <2>1, <3>1, <3>2, StreamStays, StreamType DEF IInv
  <2>q. QED
    BY <1>1, <2>2, <2>3
<1>4. TypeOK'
  BY <1>1, <1>2, <1>3 DEF IInv, TypeOK, run, forward, reports, Queued
<1>5. /\ UNCHANGED <<phase, errs, sender, left, active, turn, reader, first>>
      /\ phase \in {"up", "closing"} /\ phase \notin Between
  BY <1>1 DEF IInv, WorkerShape, Stopped, run, forward, Between
<1>6. WorkerShape'
  BY <1>1, <1>5 DEF IInv, WorkerShape, Stopped, TurnFlagIsReleased, Sending
<1>7. SessionShape'
  BY <1>3, <1>5 DEF IInv, SessionShape, Sending
<1>q. QED
  BY <1>3, <1>4, <1>6, <1>7 DEF IInv

\* The writer fails, with or without a frame in its hands.
LEMMA WriterStopsInv ==
    ASSUME IInv, WriterStops
    PROVE  IInv'
<1>1. /\ UNCHANGED <<run, logs, forward, reader, reports, first, sent>>
      /\ writer # "stopped" /\ writer' = "stopped" /\ errs' = errs + 1
      /\ high' = high \/ (high # <<>> /\ high' = Tail(high))
  BY DEF WriterStops
<1>2. UNCHANGED <<phase, sender, left, active, turn, size, reader, first, wire, told>>
  BY <1>1 DEF run, forward, sent
<1>3. /\ StreamShape' /\ high' \in Seq(Queued) /\ Len(high') \in 0..HighCap
      /\ high' = high \/ \A i \in Turns(high') : i + 1 \in Turns(high) /\ high'[i] = high[i + 1]
  <2>1. CASE high' = high
    BY <1>1, <1>2, <2>1, StreamStays, StreamType DEF IInv
  <2>2. CASE high # <<>> /\ high' = Tail(high)
    BY <1>1, <1>2, <2>2, StreamDrops
  <2>q. QED
    BY <1>1, <2>1, <2>2
<1>4. /\ phase \in {"up", "closing"} /\ phase \notin Between
      /\ errs' \in 0..2 /\ errs' <= 2 /\ (reader # "stopped" => errs' <= 1)
  BY <1>1 DEF IInv, TypeOK, WorkerShape, Stopped, Between
<1>5. TypeOK'
  BY <1>1, <1>3, <1>4 DEF IInv, TypeOK, run, forward, reports, sent, Queued
<1>6. WorkerShape'
  BY <1>1, <1>2, <1>4 DEF IInv, WorkerShape, Stopped, TurnFlagIsReleased, Sending
<1>7. SessionShape'
  BY <1>2, <1>3 DEF IInv, SessionShape, Sending
<1>q. QED
  BY <1>3, <1>5, <1>6, <1>7 DEF IInv

\* The sender returns, or the forwarder does.
LEMMA RestsInv ==
    ASSUME IInv,
           \/ Sending /\ Fails /\ UNCHANGED <<turn, size>> /\ forwarderOnly
           \/ ForwarderStops
    PROVE  IInv'
<1>1. /\ UNCHANGED <<run, errs, logs, writer, reader, reports, first, sent, high, turn, size>>
      /\ sender' \in {"next", "stopped"} /\ left' \in {left, 0}
      /\ active' = FALSE /\ sender # "stopped"
  BY DEF Fails, Return, ForwarderStops, forwarderOnly, IInv, TypeOK, WorkerShape, Sending,
     TurnFlagIsReleased
<1>2. sender' \notin TurnKinds /\ ~Sending'
  BY <1>1 DEF TurnKinds, Sending
<1>3. UNCHANGED <<phase, errs, writer, reader, turn, first, wire, told, high, size>>
  BY <1>1 DEF run, sent
<1>4. StreamShape'
  BY <1>2, <1>3, StreamRests
<1>5. TypeOK'
  <2>1. left' \in 0..MaxFrames
    BY <1>1, ClientAssumption DEF IInv, TypeOK
  <2>2. TypeOK
    BY DEF IInv
  <2>3. UNCHANGED <<phase, cancelled, backoff, usePairing, conn, errs, logs, writer, reader,
                    held, reporter, first, wire, told, turn, size, high>>
    BY <1>1 DEF run, reports, sent
  <2>4. sender' \in {"stopped", "next"} \cup TurnKinds /\ active' \in BOOLEAN
    BY <1>1
  <2>q. QED
    BY <2>1, <2>2, <2>3, <2>4 DEF TypeOK
<1>6. WorkerShape'
  BY <1>1, <1>2, <1>3 DEF IInv, WorkerShape, Stopped, TurnFlagIsReleased
<1>7. SessionShape'
  BY <1>2, <1>3 DEF IInv, SessionShape
<1>q. QED
  BY <1>4, <1>5, <1>6, <1>7 DEF IInv

\* The sender queues a frame.
LEMMA SendsInv ==
    ASSUME IInv, UNCHANGED <<turn, size>>, forwarderOnly,
           Sending, Len(high) < HighCap, high' = Append(high, Frame(sender)),
           Goes(sender, sender'), left' \in 0..MaxFrames,
           sender = "pcm" => left = left' + 1,
           sender \notin {"pcm", "audio.stop"} => left' = left, sender = "audio.stop" => left' = 0,
           active' = (sender' # "next"), sender' = "pcm" => left' > 0,
           sender' = "audio.stop" => left' = 0
    PROVE  IInv'
<1>1. /\ UNCHANGED <<run, errs, logs, writer, reader, reports, first, sent>>
      /\ UNCHANGED <<phase, wire, told>>
  BY DEF forwarderOnly, run, sent
<1>2. left' \in Nat
  BY ClientAssumption
<1>3. /\ StreamShape' /\ high' \in Seq(Queued) /\ Len(high') \in 0..HighCap
      /\ Turns(high') = Turns(high) \cup {Len(high) + 1}
      /\ \A i \in Turns(high) : high'[i] = high[i]
      /\ high'[Len(high) + 1].turn = turn
  BY <1>1, <1>2, StreamSends
<1>4. sender # "stopped" /\ sender' # "stopped" /\ sender' \in {"next"} \cup TurnKinds
      /\ (Sending' <=> sender' # "next")
  BY DEF Sending, Goes, TurnKinds
<1>5. TypeOK'
  <2>1. /\ Len(high') <= HighCap /\ high' \in Seq(Frames \cup {Reply})
        /\ sender' \in {"stopped", "next"} \cup TurnKinds
    BY <1>3, <1>4, ClientAssumption DEF Queued
  <2>2. active' \in BOOLEAN
    OBVIOUS
  <2>3. TypeOK
    BY DEF IInv
  <2>4. /\ UNCHANGED <<phase, cancelled, backoff, usePairing, conn, errs, logs, writer, reader,
                       held, reporter, first, wire, told, turn, size>>
    BY <1>1 DEF run, reports, sent
  <2>q. QED
    BY <2>1, <2>2, <2>3, <2>4 DEF TypeOK
<1>6. phase \in {"up", "closing"} /\ phase \notin Between
  BY <1>4 DEF IInv, WorkerShape, Stopped, Between
<1>7. WorkerShape'
  BY <1>1, <1>4, <1>6 DEF IInv, WorkerShape, Stopped, TurnFlagIsReleased
<1>8. SessionShape'
  BY <1>1, <1>3, <1>4 DEF IInv, SessionShape
<1>q. QED
  BY <1>3, <1>5, <1>7, <1>8 DEF IInv

\* SendTurn, frame after frame.
LEMMA ForwarderInv ==
    ASSUME IInv, Forwarder \/ SendPCM \/ SendOversized
    PROVE  IInv'
<1>0. left \in 0..MaxFrames /\ MaxFrames \in Nat /\ left \in Nat
      /\ (sender = "pcm" => left > 0) /\ (sender = "audio.stop" => left = 0)
      /\ (Sending => active = TRUE)
  BY ClientAssumption DEF IInv, TypeOK, WorkerShape, TurnFlagIsReleased
<1>1. CASE SendStart
  <2>1. CASE Len(high) < HighCap
    <3>1. /\ Sending /\ high' = Append(high, Frame(sender)) /\ Goes(sender, sender')
          /\ UNCHANGED <<active, left, turn, size>> /\ forwarderOnly
          /\ sender \in {"turn.start", "audio.start"}
          /\ sender' \in {"audio.start", "pcm", "audio.stop"}
          /\ (sender' = "pcm" => left > 0) /\ (sender' = "audio.stop" => ~(left > 0))
      <4>1. /\ sender \in {"turn.start", "audio.start"}
            /\ high' = Append(high, Frame(sender))
            /\ UNCHANGED <<active, left, turn, size>> /\ forwarderOnly
            /\ sender' = CASE sender = "turn.start" -> "audio.start"
                           [] sender = "audio.start" /\ left > 0 -> "pcm"
                           [] OTHER -> "audio.stop"
        BY <1>1, <2>1 DEF SendStart
      <4>2. CASE sender = "turn.start"
        BY <4>1, <4>2 DEF Sending, Goes
      <4>3. CASE sender = "audio.start"
        BY <4>1, <4>3 DEF Sending, Goes
      <4>q. QED
        BY <4>1, <4>2, <4>3
    <3>2. left' \in 0..MaxFrames /\ (sender' = "audio.stop" => left' = 0)
      BY <1>0, <3>1
    <3>q. QED
      BY <1>0, <2>1, <3>1, <3>2, SendsInv
  <2>2. CASE ~(Len(high) < HighCap)
    BY <1>1, <2>2, RestsInv DEF SendStart, Sending
  <2>q. QED
    BY <2>1, <2>2
<1>2. CASE SendPCM
  <2>1. CASE Len(high) < HighCap /\ high' = Append(high, Frame("pcm"))
             /\ left' = left - 1 /\ active' = active
             /\ sender' = IF left = 1 THEN "audio.stop" ELSE "pcm"
    <3>1. /\ Sending /\ high' = Append(high, Frame(sender)) /\ Goes(sender, sender')
          /\ UNCHANGED <<turn, size>> /\ forwarderOnly /\ sender = "pcm"
      BY <1>2, <2>1 DEF SendPCM, Sending, Goes
    <3>2. left' \in 0..MaxFrames /\ left = left' + 1
          /\ (sender' = "audio.stop" => left' = 0) /\ (sender' = "pcm" => left' > 0)
      BY <1>0, <2>1, <3>1
    <3>3. active' = (sender' # "next")
      BY <1>0, <2>1, <3>1
    <3>q. QED
      BY <2>1, <3>1, <3>2, <3>3, SendsInv
  <2>2. CASE Done /\ Fails
    BY <1>2, <2>2, RestsInv DEF SendPCM, Sending
  <2>q. QED
    BY <1>2, <2>1, <2>2 DEF SendPCM
<1>3. CASE SendOversized
  BY <1>3, RestsInv DEF SendOversized, Sending
<1>4. CASE SendStop
  <2>1. CASE Len(high) < HighCap
    <3>1. /\ Sending /\ high' = Append(high, Frame(sender)) /\ Goes(sender, sender')
          /\ UNCHANGED <<turn, size>> /\ forwarderOnly /\ sender = "audio.stop"
          /\ sender' = "next" /\ left' = 0 /\ active' = FALSE
      BY <1>4, <2>1 DEF SendStop, Sending, Goes, Return
    <3>2. left' \in 0..MaxFrames
      BY <1>0, <3>1
    <3>q. QED
      BY <2>1, <3>1, <3>2, SendsInv
  <2>2. CASE ~(Len(high) < HighCap)
    BY <1>4, <2>2, RestsInv DEF SendStop, Sending, Fails
  <2>q. QED
    BY <2>1, <2>2
<1>5. CASE ForwarderStops
  BY <1>5, RestsInv
<1>q. QED
  BY <1>1, <1>2, <1>3, <1>4, <1>5 DEF Forwarder

\* A turn is accepted: all turns before it came before.
LEMMA SendTurnInv ==
    ASSUME IInv, NEW n \in 0..MaxFrames, SendTurn(n)
    PROVE  IInv'
<1>0. /\ wire \in Seq(Frames) /\ high \in Seq(Queued) /\ turn \in Nat /\ n \in Nat
      /\ size \in [1..MaxTurns -> 0..MaxFrames] /\ Len(high) \in 0..HighCap
  BY StreamType, ClientAssumption DEF IInv, TypeOK
<1>1. /\ UNCHANGED <<run, errs, logs, writer, reader, reports, first, sent, high>>
      /\ UNCHANGED <<phase, wire, told>>
      /\ sender = "next" /\ sender \notin TurnKinds /\ ~Done /\ turn < MaxTurns
      /\ active' = TRUE /\ sender' = "turn.start" /\ left' = n
      /\ turn' = turn + 1 /\ size' = [size EXCEPT ![turn + 1] = n]
  BY DEF SendTurn, forwarderOnly, run, sent, TurnKinds
<1>2. turn + 1 \in 1..MaxTurns /\ turn' \in 0..MaxTurns
  BY <1>0, <1>1, ClientAssumption
<1>3. /\ size'[turn + 1] = n /\ \A i \in 1..MaxTurns : i # turn + 1 => size'[i] = size[i]
      /\ size' \in [1..MaxTurns -> 0..MaxFrames]
  BY <1>0, <1>1, <1>2
<1>4. QueueOf(high, sender, turn) /\ WireOf(wire, sender, turn) /\ Told(wire, told, size)
  BY DEF IInv, StreamShape
<1>5. /\ QueueOf(high, "turn.start", turn + 1) /\ WireOf(wire, "turn.start", turn + 1)
      /\ Linked(wire, high, sender, turn) => Linked(wire, high, "turn.start", turn + 1)
      /\ Owed(wire, high, sender, turn, left, size)
           => Owed(wire, high, "turn.start", turn + 1, n, size')
      /\ Told(wire, told, size')
  <2> DEFINE y == size'
  <2>1. y[turn + 1] = n /\ \A i \in 1..MaxTurns : i # turn + 1 => y[i] = size[i]
    BY <1>3
  <2> HIDE DEF y
  <2>2. /\ QueueOf(high, "turn.start", turn + 1) /\ WireOf(wire, "turn.start", turn + 1)
        /\ Linked(wire, high, sender, turn) => Linked(wire, high, "turn.start", turn + 1)
        /\ \A l : Owed(wire, high, sender, turn, l, size)
               => Owed(wire, high, "turn.start", turn + 1, n, y)
        /\ \A d : Told(wire, d, size) => Told(wire, d, y)
    BY <1>0, <1>1, <1>2, <1>4, <2>1, TurnBegins, ZenonT(40)
  <2>q. QED
    BY <1>4, <2>2 DEF y
<1>6. StreamShape'
  BY <1>1, <1>5 DEF IInv, StreamShape
<1>7. TypeOK'
  BY <1>1, <1>2, <1>3 DEF IInv, TypeOK, run, reports, sent, TurnKinds
<1>8. phase \in {"up", "closing"} /\ phase \notin Between
  BY <1>1 DEF IInv, WorkerShape, Stopped, Between
<1>9. Sending' /\ turn' > 0
  BY <1>0, <1>1 DEF Sending
<1>10. WorkerShape'
  BY <1>1, <1>8, <1>9 DEF IInv, WorkerShape, Stopped, TurnFlagIsReleased
<1>11. SessionShape'
  <2>1. first \in Nat
    BY ClientAssumption DEF IInv, TypeOK
  <2>q. QED
    BY <1>0, <1>1, <1>9, <2>1 DEF IInv, SessionShape
<1>q. QED
  BY <1>6, <1>7, <1>10, <1>11 DEF IInv

LEMMA NextInv == IInv /\ [Next]_vars => IInv'
<1> SUFFICES ASSUME IInv, [Next]_vars
             PROVE  IInv'
  OBVIOUS
<1>1. CASE Driver \/ Cancel
  BY <1>1, PhaseInv, StartInv, WaitInv, DrainInv, AsideInv DEF Driver
<1>2. CASE Writer \/ WriterStops \/ Log \/ Reader
  BY <1>2, WriterInv, WriterStopsInv, AsideInv DEF Reader
<1>3. CASE \E r \in Reporters : ReportCheck(r) \/ ReportSend(r)
  BY <1>3, AsideInv
<1>4. CASE Forwarder \/ SendPCM \/ SendOversized
  BY <1>4, ForwarderInv
<1>5. CASE \E n \in 0..MaxFrames : SendTurn(n)
  BY <1>5, SendTurnInv
<1>6. CASE UNCHANGED vars
  <2>1. /\ UNCHANGED <<high, sender, turn, wire, told, size, left, writer>>
        /\ UNCHANGED <<run, errs, logs, reader, reports, first, active, phase>>
    BY <1>6 DEF vars, run, forward, sent
  <2>2. StreamShape'
    BY <2>1, StreamStays
  <2>3. TypeOK'
    BY <2>1 DEF IInv, TypeOK, run, reports
  <2>4. WorkerShape' /\ SessionShape'
    BY <2>1 DEF IInv, WorkerShape, SessionShape, Stopped, TurnFlagIsReleased, Sending
  <2>q. QED
    BY <2>2, <2>3, <2>4 DEF IInv
<1>q. QED
  BY <1>1, <1>2, <1>3, <1>4, <1>5, <1>6 DEF Next

THEOREM Invariance == Spec => []IInv
<1>1. Init => IInv
  BY InitInv
<1>2. IInv /\ [Next]_vars => IInv'
  BY NextInv
<1>q. QED
  BY <1>1, <1>2, PTL DEF Spec

-----------------------------------------------------------------------------
\* No frame of a turn outlives its session, the gateway sees whole turns one
\* after the other, TurnSent speaks the truth and the turn flag is held by a
\* SendTurn in progress only (SendTurn, writer, writeOutbound, drainHigh).
THEOREM SessionSafe == Spec => []SessionInvariant
<1>1. IInv => SessionInvariant
  <2> SUFFICES ASSUME IInv
               PROVE  SessionInvariant
    OBVIOUS
  <2>1. TypeOK /\ TurnFlagIsReleased
    BY DEF IInv, WorkerShape
  <2>2. TurnFramesStayInSession
    BY DEF IInv, SessionShape, Turns, TurnFramesStayInSession
  <2>3. FramesInOrder
    BY DEF IInv, StreamShape, WireOf, FramesInOrder
  <2>4. TurnSentIsTrue
    BY DEF IInv, StreamShape, Told, PCM, Item, TurnSentIsTrue
  <2>q. QED
    BY <2>1, <2>2, <2>3, <2>4 DEF SessionInvariant
<1>q. QED
  BY <1>1, Invariance, PTL

=============================================================================
