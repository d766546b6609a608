--------------------------- MODULE ListeningProofs ---------------------------
(***************************************************************************)
(* Safety of what a device makes of the audio it captures: of the wake     *)
(* gate for any configurations and however they change, of the endpoint    *)
(* controller for any revisions, frames and pre-rolls, of the inference    *)
(* engine for any chain of operators.                                      *)
(***************************************************************************)
EXTENDS Listening, FiniteSetTheorems, WellFoundedInduction, TLAPS

-----------------------------------------------------------------------------
(* What is defined from its value at the previous place.                   *)

\* Every set of naturals that is not empty has a least element.
LEMMA NatMin ==
    ASSUME NEW T \in SUBSET Nat, T # {}
    PROVE  \E n \in T : \A m \in T : n <= m
<1> DEFINE R == {ss \in Nat \X Nat : ss[1] < ss[2]}
<1>1. IsWellFoundedOn(R, Nat)
  BY NatLessThanWellFounded DEF OpToRel
<1>2. \A x, y \in Nat : x < y => <<x, y>> \in R
  OBVIOUS
<1> HIDE DEF R
<1>3. \E x \in T : \A y \in T : ~ (<<y, x>> \in R)
  BY <1>1, WFMin
<1>4. PICK x \in T : \A y \in T : ~ (<<y, x>> \in R)
  BY <1>3
<1>5. \A y \in T : x <= y
  <2> TAKE y \in T
  <2>1. x \in Nat /\ y \in Nat /\ ~(y < x)
    BY <1>2, <1>4
  <2> QED
    BY <2>1
<1> QED
  BY <1>5

Recursion(f, N, S, base, by) ==
    f \in [0..N -> S] /\ f[0] = base /\ \A n \in 1..N : f[n] = by[n][f[n - 1]]

\* What is defined from its value at the previous place exists.
LEMMA RecursiveFunction ==
    ASSUME NEW N \in Nat, NEW S, NEW base \in S, NEW by \in [1..N -> [S -> S]]
    PROVE  \E f : Recursion(f, N, S, base, by)
<1> USE DEF Recursion
<1> DEFINE Upto(m) == \E f \in [0..m -> S] : f[0] = base /\ \A n \in 1..m : f[n] = by[n][f[n - 1]]
           Bad == {m \in 0..N : ~Upto(m)}
<1>1. SUFFICES Bad = {}
  <2>1. SUFFICES ASSUME Bad = {} PROVE Upto(N)
    OBVIOUS
  <2>2. N \in 0..N /\ N \notin Bad
    <3> HIDE DEF Bad
    <3> QED
      BY <2>1
  <2> QED
    BY <2>2
<1>2. SUFFICES ASSUME Bad # {} PROVE FALSE
  OBVIOUS
<1>3. PICK m \in Bad : \A k \in Bad : m <= k
  <2>1. Bad \in SUBSET Nat
    OBVIOUS
  <2> HIDE DEF Bad
  <2> QED
    BY <1>2, <2>1, NatMin
<1>4. CASE m = 0
  <2>1. PICK f : f = [n \in 0..0 |-> base]
    OBVIOUS
  <2>0. f \in [0..0 -> S] /\ f[0] = base /\ \A n \in 1..0 : f[n] = by[n][f[n - 1]]
    BY <2>1
  <2>2. Upto(0)
    BY <2>0
  <2> QED
    BY <1>4, <2>2
<1>5. CASE m # 0
  <2>0. m \in 1..N /\ m - 1 \in 0..N /\ m - 1 < m
    BY <1>5
  <2>1. m \in 1..N /\ m - 1 \in 0..N /\ m - 1 \notin Bad
    <3> HIDE DEF Bad
    <3> QED
      BY <1>3, <2>0
  <2>2. Upto(m - 1)
    BY <2>1
  <2>3. PICK f \in [0..m - 1 -> S] : f[0] = base /\ \A n \in 1..m - 1 : f[n] = by[n][f[n - 1]]
    BY <2>2
  <2>4. PICK g : g = [n \in 0..m |-> IF n = m THEN by[m][f[m - 1]] ELSE f[n]]
    OBVIOUS
  <2>5. by[m][f[m - 1]] \in S
    BY <2>1
  <2>6. g \in [0..m -> S]
    BY <2>1, <2>4, <2>5
  <2>7. g[0] = base
    BY <2>1, <2>3, <2>4
  <2>8. ASSUME NEW n \in 1..m PROVE g[n] = by[n][g[n - 1]]
    BY <2>1, <2>3, <2>4
  <2>9. Upto(m)
    BY <2>6, <2>7, <2>8
  <2> QED
    BY <2>9
<1> QED
  BY <1>4, <1>5

\* What holds at 0 and at every place if it holds at the one before it.
LEMMA Upwards ==
    ASSUME NEW N \in Nat, NEW T \in SUBSET (0..N), 0 \in T, \A n \in 1..N : n - 1 \in T => n \in T
    PROVE  T = 0..N
<1> SUFFICES ASSUME (0..N) \ T # {} PROVE FALSE
  OBVIOUS
<1>1. (0..N) \ T \in SUBSET Nat
  OBVIOUS
<1>2. PICK n \in (0..N) \ T : \A m \in (0..N) \ T : n <= m
  <2> DEFINE D == (0..N) \ T
  <2> HIDE DEF D
  <2>1. D \in SUBSET Nat /\ D # {}
    BY <1>1 DEF D
  <2>2. \E n \in D : \A m \in D : n <= m
    BY <2>1, NatMin
  <2> QED
    BY <2>2 DEF D
<1>3. n \in 1..N /\ n - 1 \in 0..N
  BY <1>2
<1>4. n - 1 \in T
  BY <1>2, <1>3
<1> QED
  BY <1>2, <1>3, <1>4

-----------------------------------------------------------------------------
(* The gate.                                                               *)

Entries ==
    [at : Nat \ {0}, vad : 0..1, wake : 0..1, config : WakeConfigs, measured : BOOLEAN,
     decision : {"below_wake", "low_vad", "refractory", "accepted"}]

GateTypes ==
    /\ wakeConfig \in WakeConfigs /\ now \in Nat \ {0}
    /\ vadScores \in Seq(0..1) /\ lastAccepted \in Nat
    /\ wakeCount \in Nat /\ sent \in Nat /\ gsteps = Len(log)
    /\ timings \in [0..Window - 1 -> Nat] /\ next \in 0..Window - 1 /\ count \in 0..Window
    /\ log \in Seq(Entries)

\* The kept scores are those of the steps that the last one may count.
ScoresAreKept ==
    /\ Len(vadScores) <= Len(log)
    /\ Gate!Covered(Len(log)) = (Len(log) - Len(vadScores) + 1)..Len(log)
    /\ \A k \in 1..Len(vadScores) : vadScores[k] = log[Len(log) - Len(vadScores) + k].vad

\* The gate knows the last wake it accepted.
LastIsKept ==
    /\ lastAccepted < now
    /\ \A i \in Gate!Accepted : log[i].at <= lastAccepted

\* A timing in the window is as old as the place it has.
Age(i) == IF i < next THEN next - 1 - i ELSE next - 1 - i + Window
TimingsAreAged ==
    /\ count < Window => next = count
    /\ \A i \in 0..count - 1 :
           timings[i] \in Gate!Measured /\ Cardinality(Gate!Later(timings[i])) = Age(i)
    /\ \A m \in Gate!Measured :
           Cardinality(Gate!Later(m)) < Window => \E i \in 0..count - 1 : timings[i] = m

GateIInv ==
    /\ GateTypes /\ ScoresAreKept /\ LastIsKept /\ TimingsAreAged
    /\ Gate!DecisionsFollowLookback /\ Gate!AcceptedIsSpaced /\ Gate!StatsAddUp

\* The gate counts as everybody does.
LEMMA SameCardinality == \A S : Gate!Cardinality(S) = Cardinality(S)
  BY DEF Gate!Cardinality, Cardinality

\* A configuration's fields.
LEMMA WakeConfigFields ==
    ASSUME NEW c \in WakeConfigs
    PROVE  /\ c.wake \in Nat /\ c.vad \in Nat /\ c.lookback \in Nat /\ c.interval \in Nat
           /\ c.vadEnabled \in BOOLEAN /\ c.always \in BOOLEAN
  BY GateAssumption DEF Gate!Config

\* What the log says of the steps before the last one stays.
LEMMA LoggedStep ==
    ASSUME GateTypes, NEW e \in Entries, log' = Append(log, e)
    PROVE  /\ log' \in Seq(Entries) /\ Len(log') = Len(log) + 1 /\ Len(log) \in Nat
           /\ \A i \in 1..Len(log) : log'[i] = log[i]
           /\ log'[Len(log) + 1] = e
           /\ Gate!Accepted' = Gate!Accepted \cup (IF e.decision = "accepted" THEN {Len(log) + 1} ELSE {})
           /\ Gate!Measured' = Gate!Measured \cup (IF e.measured THEN {Len(log) + 1} ELSE {})
           /\ \A m \in 1..Len(log) : Gate!Covered(m)' = Gate!Covered(m) /\ Gate!Heard(m)' = Gate!Heard(m)
<1>1. log \in Seq(Entries) /\ Len(log) \in Nat /\ DOMAIN log = 1..Len(log)
  BY DEF GateTypes
<1>2. /\ log' \in Seq(Entries) /\ Len(log') = Len(log) + 1 /\ DOMAIN log' = 1..(Len(log) + 1)
      /\ \A i \in 1..Len(log) : log'[i] = log[i]
      /\ log'[Len(log) + 1] = e
  BY <1>1
<1>3. Gate!Accepted' = Gate!Accepted \cup (IF e.decision = "accepted" THEN {Len(log) + 1} ELSE {})
  BY <1>1, <1>2 DEF Gate!Accepted
<1>4. Gate!Measured' = Gate!Measured \cup (IF e.measured THEN {Len(log) + 1} ELSE {})
  BY <1>1, <1>2 DEF Gate!Measured
<1>5. ASSUME NEW m \in 1..Len(log)
      PROVE  Gate!Covered(m)' = Gate!Covered(m) /\ Gate!Heard(m)' = Gate!Heard(m)
  <2>1. \A i \in 1..m : log'[i] = log[i]
    BY <1>1, <1>2
  <2>2. Gate!Covered(m)' = Gate!Covered(m)
    BY <1>1, <2>1 DEF Gate!Covered
  <2>3. {log'[j].vad : j \in Gate!Covered(m)} = {log[j].vad : j \in Gate!Covered(m)}
    <3>1. \A j \in Gate!Covered(m) : log'[j] = log[j]
      BY <2>1 DEF Gate!Covered
    <3> QED
      BY <3>1
  <2> QED
    BY <2>2, <2>3 DEF Gate!Heard
<1> QED
  BY <1>1, <1>2, <1>3, <1>4, <1>5

\* How many scores observeVAD keeps of l and one more.
Kept(l, b) == IF l > b THEN b + 1 ELSE l + 1
\* The steps that the window of voice activity covers after a step: the window
\* is the previous one and the step, or as much of it as the lookback admits.
LEMMA ScoresFollowLookback ==
    ASSUME GateTypes, ScoresAreKept, NEW vad \in 0..1, NEW e \in Entries,
           e.vad = vad, e.config = wakeConfig,
           vadScores' = Gate!observeVAD(vad), log' = Append(log, e), NEW n \in Nat, Len(log) = n
    PROVE  /\ vadScores' \in Seq(0..1) /\ ScoresAreKept'
           /\ Gate!Heard(n + 1)' = Gate!Effective(vadScores')
           /\ Gate!Effective(vadScores') \in 0..1
<1>1. /\ log \in Seq(Entries) /\ vadScores \in Seq(0..1) /\ Len(vadScores) <= n
      /\ wakeConfig \in WakeConfigs /\ wakeConfig.lookback \in Nat
  BY WakeConfigFields DEF GateTypes, ScoresAreKept
<1>2. /\ log' \in Seq(Entries) /\ Len(log') = n + 1 /\ log'[n + 1] = e
      /\ \A i \in 1..n : log'[i] = log[i]
  BY LoggedStep
<1>3. PICK l \in Nat, b \in Nat : Len(vadScores) = l /\ wakeConfig.lookback = b /\ l <= n
  BY <1>1
<1>4. PICK m \in 1..(n + 1) : Kept(l, b) = m
  BY <1>3 DEF Kept
<1>5. /\ vadScores' \in Seq(0..1) /\ Len(vadScores') = m /\ vadScores'[m] = vad
      /\ \A k \in 1..m - 1 : l + 1 - m + k \in 1..l /\ vadScores'[k] = vadScores[l + 1 - m + k]
  <2>0. PICK r : Gate!observeVAD(vad) = r /\ vadScores' = r
    OBVIOUS
  <2>1. PICK all : Append(vadScores, vad) = all
    OBVIOUS
  <2>2. all \in Seq(0..1) /\ Len(all) = l + 1 /\ all[l + 1] = vad /\ \A k \in 1..l : all[k] = vadScores[k]
    <3>1. vadScores \in Seq(0..1) /\ vad \in 0..1 /\ DOMAIN vadScores = 1..l /\ Len(vadScores) = l
      BY <1>1, <1>3
    <3>2. all \in Seq(0..1) /\ Len(all) = l + 1
      BY <2>1, <3>1
    <3>3. all[l + 1] = vad /\ \A k \in 1..l : all[k] = vadScores[k]
      BY <2>1, <3>1
    <3> QED
      BY <3>2, <3>3
  <2>3. (IF Len(all) > b + 1 THEN SubSeq(all, Len(all) - (b + 1) + 1, Len(all)) ELSE all) = r
    BY <1>3, <2>0, <2>1 DEF Gate!observeVAD
  <2>4. CASE l > b
    <3>1. SubSeq(all, l + 1 - b, l + 1) = r /\ l + 1 - b \in 1..(l + 1)
      <4>1. Len(all) > b + 1 /\ Len(all) - (b + 1) + 1 = l + 1 - b
        BY <2>2, <2>4
      <4> QED
        BY <2>2, <2>3, <2>4, <4>1
    <3>2. r \in Seq(0..1) /\ Len(r) = b + 1 /\ \A k \in 1..(b + 1) : r[k] = all[l - b + k]
      <4>1. PICK p \in 1..(l + 1) : l + 1 - b = p
        BY <3>1
      <4>2. /\ SubSeq(all, p, l + 1) \in Seq(0..1) /\ Len(SubSeq(all, p, l + 1)) = l + 1 - p + 1
            /\ \A k \in 1..(l + 1 - p + 1) : SubSeq(all, p, l + 1)[k] = all[p + k - 1]
        BY <2>2
      <4>3. l + 1 - p + 1 = b + 1 /\ \A k \in 1..(b + 1) : p + k - 1 = l - b + k
        BY <4>1
      <4>4. SubSeq(all, p, l + 1) = r
        BY <3>1, <4>1
      <4> QED
        BY <4>2, <4>3, <4>4
    <3>3. m = b + 1
      BY <1>4, <2>4 DEF Kept
    <3> QED
      BY <2>0, <2>2, <2>4, <3>2, <3>3
  <2>5. CASE ~(l > b)
    <3>1. m = l + 1 /\ all = r
      BY <1>4, <2>2, <2>3, <2>5 DEF Kept
    <3> QED
      BY <2>0, <2>2, <3>1
  <2> QED
    BY <2>4, <2>5
<1>6. Gate!Covered(n) = (n - l + 1)..n /\ \A k \in 1..l : vadScores[k] = log[n - l + k].vad
  BY <1>3 DEF ScoresAreKept
<1>7. Gate!Covered(n + 1)' = (n + 1 - m + 1)..(n + 1)
  <2>1. Gate!Covered(n + 1)' = {j \in 1..(n + 1) : \A i \in j..(n + 1) : i - j <= log'[i].config.lookback}
    BY DEF Gate!Covered
  <2>2. Gate!Covered(n) = {j \in 1..n : \A i \in j..n : i - j <= log[i].config.lookback}
    BY DEF Gate!Covered
  <2>3. ASSUME NEW j \in 1..n
        PROVE  (\A i \in j..(n + 1) : i - j <= log'[i].config.lookback)
               <=> j \in Gate!Covered(n) /\ n + 1 - j <= b
    <3>1. (\A i \in j..(n + 1) : i - j <= log'[i].config.lookback)
          <=> (\A i \in j..n : i - j <= log'[i].config.lookback) /\ n + 1 - j <= log'[n + 1].config.lookback
      BY SMTT(30)
    <3>2. \A i \in j..n : log'[i] = log[i]
      BY <1>2
    <3> QED
      BY <1>2, <1>3, <2>2, <3>1, <3>2
  <2>4. ASSUME NEW j \in 1..(n + 1)
        PROVE  (\A i \in j..(n + 1) : i - j <= log'[i].config.lookback) <=> j \in (n + 1 - m + 1)..(n + 1)
    <3>1. CASE j = n + 1
      <4>1. \A i \in j..(n + 1) : i = n + 1 /\ i - j = 0
        BY <3>1
      <4> QED
        BY <1>2, <1>3, <3>1, <4>1
    <3>2. CASE j \in 1..n
      <4>1. j \in Gate!Covered(n) /\ n + 1 - j <= b <=> j \in (n + 1 - m + 1)..(n + 1)
        BY <1>3, <1>4, <1>6, <3>2 DEF Kept
      <4> QED
        BY <2>3, <3>2, <4>1
    <3> QED
      BY <3>1, <3>2
  <2>5. (n + 1 - m + 1)..(n + 1) \subseteq 1..(n + 1)
    OBVIOUS
  <2> QED
    BY <2>1, <2>4, <2>5
<1>8. ASSUME NEW k \in 1..m PROVE vadScores'[k] = log'[n + 1 - m + k].vad
  <2>1. CASE k = m
    BY <1>2, <1>5, <2>1
  <2>2. CASE k # m
    <3>1. l + 1 - m + k \in 1..l /\ vadScores'[k] = vadScores[l + 1 - m + k]
      BY <1>5, <2>2
    <3>2. vadScores'[k] = log[n - l + (l + 1 - m + k)].vad
      BY <1>6, <3>1
    <3>3. n - l + (l + 1 - m + k) = n + 1 - m + k /\ n + 1 - m + k \in 1..n
      BY <1>3, <3>1
    <3> QED
      BY <1>2, <3>2, <3>3
  <2> QED
    BY <2>1, <2>2
<1>9. ScoresAreKept'
  <2>1. Len(vadScores') = m /\ Len(log') = n + 1
    BY <1>2, <1>5
  <2>2. Gate!Covered(n + 1)' = (n + 1 - m + 1)..(n + 1)
    BY <1>7
  <2>3. \A c : Len(log') = c => Gate!Covered(Len(log))' = Gate!Covered(c)'
    OBVIOUS
  <2>4. Gate!Covered(Len(log))' = (n + 1 - m + 1)..(n + 1)
    BY <2>1, <2>2, <2>3
  <2>5. m <= n + 1
    OBVIOUS
  <2> QED
    <3>1. Len(vadScores') <= Len(log')
      BY <2>1, <2>5
    <3>2. Gate!Covered(Len(log))' = (Len(log') - Len(vadScores') + 1)..Len(log')
      BY <2>1, <2>4
    <3>3. \A k \in 1..Len(vadScores') : vadScores'[k] = log'[Len(log') - Len(vadScores') + k].vad
      <4> TAKE k \in 1..Len(vadScores')
      <4>1. k \in 1..m /\ Len(log') - Len(vadScores') + k = n + 1 - m + k
        BY <2>1
      <4> QED
        BY <1>8, <4>1
    <3> QED
      BY <3>1, <3>2, <3>3 DEF ScoresAreKept
<1>10. {log'[j].vad : j \in Gate!Covered(n + 1)'} = {vadScores'[k] : k \in 1..m}
  <2>1. ASSUME NEW j \in (n + 1 - m + 1)..(n + 1)
        PROVE  j - (n + 1 - m) \in 1..m /\ log'[j].vad = vadScores'[j - (n + 1 - m)]
    <3>1. j - (n + 1 - m) \in 1..m /\ n + 1 - m + (j - (n + 1 - m)) = j
      OBVIOUS
    <3> QED
      BY <1>8, <3>1
  <2>2. ASSUME NEW k \in 1..m
        PROVE  n + 1 - m + k \in (n + 1 - m + 1)..(n + 1) /\ vadScores'[k] = log'[n + 1 - m + k].vad
    <3>1. n + 1 - m + k \in (n + 1 - m + 1)..(n + 1)
      OBVIOUS
    <3> QED
      BY <1>8, <3>1
  <2>3. PICK C : Gate!Covered(n + 1)' = C
    OBVIOUS
  <2>4. C = (n + 1 - m + 1)..(n + 1)
    BY <1>7, <2>3
  <2>5. {log'[j].vad : j \in C} \subseteq {vadScores'[k] : k \in 1..m}
    BY <2>1, <2>4
  <2>6. {vadScores'[k] : k \in 1..m} \subseteq {log'[j].vad : j \in C}
    BY <2>2, <2>4, SMTT(30)
  <2> QED
    BY <2>3, <2>5, <2>6
<1>11. DOMAIN vadScores' = 1..m
  BY <1>5
<1>12. Gate!Heard(n + 1)' = Gate!Effective(vadScores')
  BY <1>10, <1>11 DEF Gate!Heard, Gate!Effective, Gate!ToSet, Gate!Max
<1>13. Gate!Effective(vadScores') \in 0..1
  <2>1. PICK T : {vadScores'[k] : k \in 1..m} = T
    OBVIOUS
  <2>2. T \subseteq 0..1 /\ T # {}
    <3>1. 1 \in 1..m /\ \A k \in 1..m : vadScores'[k] \in 0..1
      BY <1>5
    <3> QED
      BY <2>1, <3>1
  <2>3. \E x \in T : \A y \in T : x >= y
    <3>1. CASE 1 \in T
      BY <2>2, <3>1
    <3>2. CASE 1 \notin T
      <4>1. PICK x \in T : TRUE
        BY <2>2
      <4> QED
        BY <2>2, <3>2, <4>1
    <3> QED
      BY <3>1, <3>2
  <2>4. Gate!Effective(vadScores') = CHOOSE x \in T : \A y \in T : x >= y
    BY <1>11, <2>1 DEF Gate!Effective, Gate!ToSet, Gate!Max
  <2>5. Gate!Effective(vadScores') \in T
    BY <2>3, <2>4
  <2> QED
    BY <2>2, <2>5
<1> QED
  BY <1>5, <1>9, <1>12, <1>13

\* The place after the last one in a circular window is the first.
LEMMA NextPlace ==
    ASSUME NEW i \in 0..Window - 1
    PROVE  (i + 1) % Window = IF i + 1 < Window THEN i + 1 ELSE 0
  BY GateAssumption

\* A measured step is the youngest timing and makes the others one older.
LEMMA LaterSteps ==
    ASSUME GateTypes, NEW e \in Entries, log' = Append(log, e), e.measured, NEW n \in Nat, Len(log) = n
    PROVE  /\ Gate!Measured \subseteq 1..n /\ Gate!Measured' = Gate!Measured \cup {n + 1}
           /\ Cardinality(Gate!Later(n + 1)') = 0
           /\ \A m \in Gate!Measured : /\ Cardinality(Gate!Later(m)) \in Nat
                                       /\ Cardinality(Gate!Later(m)') = Cardinality(Gate!Later(m)) + 1
<1>1. Gate!Measured \subseteq 1..n
  BY DEF GateTypes, Gate!Measured
<1>2. Gate!Measured' = Gate!Measured \cup {n + 1}
  BY LoggedStep
<1>3. Gate!Later(n + 1)' = {}
  <2>1. \A j \in Gate!Measured' : ~(j > n + 1)
    BY <1>1, <1>2
  <2> QED
    BY <2>1 DEF Gate!Later
<1>4. ASSUME NEW m \in Gate!Measured
      PROVE  /\ Cardinality(Gate!Later(m)) \in Nat
             /\ Cardinality(Gate!Later(m)') = Cardinality(Gate!Later(m)) + 1
  <2>1. Gate!Later(m)' = Gate!Later(m) \cup {n + 1}
    BY <1>1, <1>2 DEF Gate!Later
  <2>2. Gate!Later(m) \subseteq 1..n
    BY <1>1 DEF Gate!Later
  <2>3. IsFiniteSet(Gate!Later(m)) /\ n + 1 \notin Gate!Later(m)
    <3>1. IsFiniteSet(1..n)
      BY FS_Interval
    <3>2. n + 1 \notin 1..n
      OBVIOUS
    <3> QED
      BY <2>2, <3>1, <3>2, FS_Subset
  <2> QED
    BY <2>1, <2>3, FS_AddElement, FS_CardinalityType
<1> QED
  BY <1>1, <1>2, <1>3, <1>4, FS_EmptySet

\* Every place of the window of timings but the one written next keeps its
\* timing and grows older by one.
LEMMA TimingsAge ==
    ASSUME GateTypes, TimingsAreAged, NEW e \in Entries, log' = Append(log, e), e.measured, Gate!Add
    PROVE  /\ timings' \in [0..Window - 1 -> Nat] /\ next' \in 0..Window - 1 /\ count' \in 0..Window
           /\ TimingsAreAged'
<1>1. PICK n \in Nat : Len(log) = n
  BY DEF GateTypes
<1>2. PICK k \in 0..Window - 1, c \in 0..Window : next = k /\ count = c
  BY DEF GateTypes
<1>3. Window \in Nat \ {0} /\ gsteps = n /\ timings \in [0..Window - 1 -> Nat]
  BY <1>1, GateAssumption DEF GateTypes
<1>4. /\ next' = (IF k + 1 < Window THEN k + 1 ELSE 0)
      /\ count' = (IF c < Window THEN c + 1 ELSE Window)
      /\ timings' = [timings EXCEPT ![k] = n + 1]
  BY <1>2, <1>3, NextPlace DEF Gate!Add
<1>5. /\ Gate!Measured \subseteq 1..n /\ Gate!Measured' = Gate!Measured \cup {n + 1}
      /\ Cardinality(Gate!Later(n + 1)') = 0
      /\ \A m \in Gate!Measured : /\ Cardinality(Gate!Later(m)) \in Nat
                                  /\ Cardinality(Gate!Later(m)') = Cardinality(Gate!Later(m)) + 1
  BY <1>1, LaterSteps
<1>6. c < Window => k = c
  BY <1>2 DEF TimingsAreAged
<1>7. ASSUME NEW i \in 0..c - 1
      PROVE  /\ timings[i] \in Gate!Measured
             /\ Cardinality(Gate!Later(timings[i])) = IF i < k THEN k - 1 - i ELSE k - 1 - i + Window
  BY <1>2 DEF TimingsAreAged, Age
<1>8. ASSUME NEW m \in Gate!Measured, Cardinality(Gate!Later(m)) < Window
      PROVE  \E i \in 0..c - 1 : timings[i] = m
  BY <1>2, <1>8 DEF TimingsAreAged
<1>9. PICK d \in 0..Window, q \in 0..Window - 1 :
          /\ count' = d /\ (IF c < Window THEN c + 1 ELSE Window) = d
          /\ next' = q /\ (IF k + 1 < Window THEN k + 1 ELSE 0) = q
  <2>1. (IF c < Window THEN c + 1 ELSE Window) \in 0..Window
    BY <1>3
  <2>2. (IF k + 1 < Window THEN k + 1 ELSE 0) \in 0..Window - 1
    BY <1>3
  <2> QED
    BY <1>4, <2>1, <2>2
<1>10. timings' \in [0..Window - 1 -> Nat]
  BY <1>3, <1>4
<1>11. timings'[k] = n + 1 /\ \A i \in 0..Window - 1 : i # k => timings'[i] = timings[i]
  BY <1>3, <1>4
<1>12. d < Window => q = d
  BY <1>3, <1>6, <1>9
<1>13. ASSUME NEW i \in 0..d - 1
       PROVE  /\ timings'[i] \in Gate!Measured'
              /\ Cardinality(Gate!Later(timings[i])') = IF i < q THEN q - 1 - i ELSE q - 1 - i + Window
  <2>1. PICK x : timings'[i] = x
    OBVIOUS
  <2>2. Gate!Later(timings[i])' = Gate!Later(x)'
    BY <2>1
  <2>3. CASE i = k
    <3>1. x = n + 1
      BY <1>11, <2>1, <2>3
    <3>2. 0 = IF i < q THEN q - 1 - i ELSE q - 1 - i + Window
      BY <1>3, <1>9, <2>3
    <3> QED
      BY <1>5, <2>1, <2>2, <3>1, <3>2
  <2>4. CASE i # k
    <3>1. i \in 0..c - 1 /\ i \in 0..Window - 1
      BY <1>3, <1>6, <1>9, <2>4
    <3>2. timings[i] = x /\ x \in Gate!Measured
      BY <1>7, <1>11, <2>1, <2>4, <3>1
    <3>3. Cardinality(Gate!Later(x)) = IF i < k THEN k - 1 - i ELSE k - 1 - i + Window
      BY <1>7, <3>1, <3>2
    <3>4. Cardinality(Gate!Later(x)') = Cardinality(Gate!Later(x)) + 1
      BY <1>5, <3>2
    <3>5. (IF i < k THEN k - 1 - i ELSE k - 1 - i + Window) + 1
          = IF i < q THEN q - 1 - i ELSE q - 1 - i + Window
      BY <1>3, <1>6, <1>9, <2>4, <3>1
    <3> QED
      BY <1>5, <2>1, <2>2, <3>2, <3>3, <3>4, <3>5
  <2> QED
    BY <2>3, <2>4
<1>14. ASSUME NEW m \in Gate!Measured', Cardinality(Gate!Later(m)') < Window
       PROVE  \E i \in 0..d - 1 : timings'[i] = m
  <2>1. CASE m = n + 1
    <3>1. k \in 0..d - 1
      BY <1>3, <1>6, <1>9
    <3> QED
      BY <1>11, <2>1, <3>1
  <2>2. CASE m # n + 1
    <3>1. /\ m \in Gate!Measured /\ Cardinality(Gate!Later(m)) \in Nat
          /\ Cardinality(Gate!Later(m)') = Cardinality(Gate!Later(m)) + 1
      BY <1>5, <2>2
    <3>2. Cardinality(Gate!Later(m)) < Window - 1
      BY <1>3, <1>14, <3>1
    <3>3. PICK i \in 0..c - 1 : timings[i] = m
      BY <1>3, <1>8, <3>1, <3>2, SMTT(30)
    <3>4. Cardinality(Gate!Later(m)) = IF i < k THEN k - 1 - i ELSE k - 1 - i + Window
      BY <1>7, <3>3
    <3>5. i # k /\ i \in 0..d - 1 /\ i \in 0..Window - 1
      BY <1>3, <1>6, <1>9, <3>2, <3>4
    <3> QED
      BY <1>11, <3>3, <3>5
  <2> QED
    BY <2>1, <2>2
<1>15. TimingsAreAged'
  BY <1>9, <1>12, <1>13, <1>14 DEF TimingsAreAged, Age
<1> QED
  BY <1>9, <1>10, <1>15

\* One wake step, whatever is heard and whatever the configuration has become.
LEMMA GateSteps ==
    ASSUME GateIInv, NEW vad \in 0..1, NEW wake \in 0..1, Gate!ProcessStep(vad, wake)
    PROVE  GateIInv'
<1> DEFINE measured == \/ wakeConfig.always \/ ~wakeConfig.vadEnabled
                       \/ Gate!Effective(Gate!observeVAD(vad)) >= wakeConfig.vad
           decided == IF measured THEN Gate!Decide(wake, Gate!Effective(Gate!observeVAD(vad))) ELSE "below_wake"
           entry == [at |-> now, vad |-> vad, wake |-> wake, config |-> wakeConfig,
                     measured |-> measured, decision |-> decided]
<1>1. PICK n \in Nat : Len(log) = n
  BY DEF GateIInv, GateTypes
<1>2. GateTypes /\ now \in Nat \ {0} /\ wakeConfig \in WakeConfigs /\ log \in Seq(Entries)
  BY DEF GateIInv, GateTypes
<1>3. decided \in {"below_wake", "low_vad", "refractory", "accepted"}
  BY DEF Gate!Decide
<1>4. entry \in Entries
  BY <1>2, <1>3, Zenon DEF Entries
<1>5. /\ entry.vad = vad /\ entry.config = wakeConfig /\ entry.decision = decided /\ entry.at = now
      /\ entry.measured = measured
  OBVIOUS
<1>6. PICK e \in Entries : e = entry /\ log' = Append(log, e)
  BY <1>4 DEF Gate!ProcessStep
<1>7. /\ vadScores' = Gate!observeVAD(vad)
      /\ IF measured THEN Gate!Add ELSE UNCHANGED <<timings, next, count>>
      /\ Gate!Observe(decided)
      /\ lastAccepted' = (IF decided = "accepted" THEN now ELSE lastAccepted)
      /\ \E d \in 1..MaxDelay : now' = now + d
      /\ pc = "step" /\ pc' = (IF decided = "accepted" THEN "send" ELSE "step")
      /\ UNCHANGED <<wakeConfig, sent>>
  BY DEF Gate!ProcessStep
<1>8. /\ e.vad = vad /\ e.config = wakeConfig /\ e.decision = decided /\ e.at = now
      /\ e.measured <=> measured
  BY <1>5, <1>6
<1>9. PICK f \in 0..1 : Gate!Effective(Gate!observeVAD(vad)) = f /\ Gate!Heard(n + 1)' = f
  BY <1>1, <1>2, <1>6, <1>7, <1>8, ScoresFollowLookback DEF GateIInv
<1>10. /\ wakeConfig.wake \in Nat /\ wakeConfig.vad \in Nat /\ wakeConfig.interval \in Nat
  BY <1>2, WakeConfigFields
<1>11. /\ decided = "accepted" =>
             /\ wakeConfig.vadEnabled => f >= wakeConfig.vad
             /\ lastAccepted # 0 => ~(now - lastAccepted < wakeConfig.interval)
       /\ decided = "low_vad" => f < wakeConfig.vad
       /\ ~measured => f < wakeConfig.vad
  BY <1>9, <1>10 DEF Gate!Decide, Gate!Never
<1> HIDE DEF measured, decided, entry
<1>12. /\ log' \in Seq(Entries) /\ Len(log') = n + 1 /\ log'[n + 1] = e
       /\ \A i \in 1..n : log'[i] = log[i]
       /\ Gate!Accepted' = Gate!Accepted \cup (IF e.decision = "accepted" THEN {n + 1} ELSE {})
       /\ Gate!Measured' = Gate!Measured \cup (IF e.measured THEN {n + 1} ELSE {})
       /\ \A m \in 1..n : Gate!Covered(m)' = Gate!Covered(m) /\ Gate!Heard(m)' = Gate!Heard(m)
  BY <1>1, <1>2, <1>6, LoggedStep
<1>13. vadScores' \in Seq(0..1) /\ ScoresAreKept'
  BY <1>1, <1>2, <1>6, <1>7, <1>8, ScoresFollowLookback DEF GateIInv
<1>14. /\ timings' \in [0..Window - 1 -> Nat] /\ next' \in 0..Window - 1 /\ count' \in 0..Window
       /\ TimingsAreAged'
  <2>1. CASE measured
    BY <1>2, <1>6, <1>7, <1>8, <2>1, TimingsAge DEF GateIInv
  <2>2. CASE ~measured
    <3>1. Gate!Measured' = Gate!Measured
      BY <1>8, <1>12, <2>2
    <3>2. \A m : Gate!Later(m)' = Gate!Later(m)
      BY <3>1 DEF Gate!Later
    <3>3. UNCHANGED <<timings, next, count>>
      BY <1>7, <2>2
    <3> QED
      BY <1>2, <3>1, <3>2, <3>3 DEF GateIInv, GateTypes, TimingsAreAged, Age
  <2> QED
    BY <2>1, <2>2
<1>15. GateTypes'
  <2>1. now' \in Nat \ {0} /\ lastAccepted' \in Nat
    BY <1>2, <1>7 DEF GateTypes
  <2>2. wakeCount' \in Nat /\ sent' \in Nat /\ gsteps' = n + 1
    BY <1>1, <1>2, <1>7 DEF GateTypes, Gate!Observe
  <2> QED
    BY <1>2, <1>7, <1>12, <1>13, <1>14, <2>1, <2>2 DEF GateTypes
<1>16. Gate!Accepted \subseteq 1..n /\ Gate!Accepted' \subseteq 1..(n + 1)
  BY <1>1, <1>2, <1>12 DEF Gate!Accepted
<1>17. LastIsKept'
  <2>1. now' > now /\ now > lastAccepted /\ lastAccepted \in Nat
    BY <1>2, <1>7 DEF GateIInv, GateTypes, LastIsKept
  <2>2. ASSUME NEW i \in Gate!Accepted' PROVE log'[i].at <= lastAccepted'
    <3>1. CASE i = n + 1
      <4>1. e.decision = "accepted"
        BY <1>12, <1>16, <2>2, <3>1
      <4> QED
        BY <1>2, <1>7, <1>8, <1>12, <3>1, <4>1
    <3>2. CASE i # n + 1
      <4>1. i \in Gate!Accepted /\ i \in 1..n
        BY <1>12, <1>16, <2>2, <3>2
      <4>2. log[i].at <= lastAccepted /\ log[i].at \in Nat
        <5>1. log[i] \in Entries
          BY <1>1, <1>2, <4>1
        <5> QED
          BY <4>1, <5>1 DEF GateIInv, LastIsKept, Entries
      <4> QED
        BY <1>2, <1>7, <1>12, <2>1, <4>1, <4>2
    <3> QED
      BY <3>1, <3>2
  <2> QED
    BY <1>2, <1>7, <2>1, <2>2 DEF LastIsKept
<1>18. Gate!AcceptedIsSpaced'
  <2>1. ASSUME NEW i \in Gate!Accepted', NEW j \in Gate!Accepted', i < j
        PROVE  log'[j].at - log'[i].at >= log'[j].config.interval
    <3>1. i \in Gate!Accepted /\ i \in 1..n
      BY <1>12, <1>16, <2>1
    <3>2. CASE j = n + 1
      <4>1. decided = "accepted"
        BY <1>8, <1>12, <1>16, <3>2
      <4>2. log[i].at <= lastAccepted /\ log[i].at \in Nat \ {0} /\ lastAccepted \in Nat
        <5>1. log[i] \in Entries
          BY <1>1, <1>2, <3>1
        <5> QED
          BY <1>2, <3>1, <5>1 DEF GateIInv, GateTypes, LastIsKept, Entries
      <4>3. now - lastAccepted >= wakeConfig.interval
        BY <1>2, <1>10, <1>11, <4>1, <4>2
      <4>4. PICK a \in Nat, l \in Nat, g \in Nat, w \in Nat :
                log[i].at = a /\ lastAccepted = l /\ wakeConfig.interval = g /\ now = w
        BY <1>2, <1>10, <4>2
      <4>5. w - a >= g
        BY <4>2, <4>3, <4>4
      <4>6. log'[j].at = w /\ log'[j].config.interval = g /\ log'[i].at = a
        BY <1>8, <1>12, <3>1, <3>2, <4>4
      <4> QED
        BY <4>5, <4>6
    <3>3. CASE j # n + 1
      <4>1. j \in Gate!Accepted /\ j \in 1..n
        BY <1>12, <1>16, <3>3
      <4> QED
        BY <1>12, <2>1, <3>1, <4>1 DEF GateIInv, Gate!AcceptedIsSpaced
    <3> QED
      BY <3>2, <3>3
  <2> QED
    BY <2>1 DEF Gate!AcceptedIsSpaced
<1>19. Gate!DecisionsFollowLookback'
  <2>1. DOMAIN log' = 1..(n + 1)
    BY <1>12
  <2>2. ASSUME NEW m \in 1..(n + 1)
        PROVE  /\ log'[m].decision = "accepted" /\ log'[m].config.vadEnabled => Gate!Heard(m)' >= log'[m].config.vad
               /\ log'[m].decision = "low_vad" => Gate!Heard(m)' < log'[m].config.vad
               /\ ~log'[m].measured => Gate!Heard(m)' < log'[m].config.vad
    <3>1. CASE m = n + 1
      <4>1. Gate!Heard(m)' = f
        BY <1>9, <3>1
      <4> QED
        BY <1>8, <1>11, <1>12, <3>1, <4>1
    <3>2. CASE m \in 1..n
      <4>1. Gate!Heard(m)' = Gate!Heard(m) /\ log'[m] = log[m] /\ m \in DOMAIN log
        BY <1>1, <1>2, <1>12, <3>2
      <4> QED
        BY <4>1 DEF GateIInv, Gate!DecisionsFollowLookback
    <3> QED
      BY <3>1, <3>2
  <2> QED
    BY <2>1, <2>2 DEF Gate!DecisionsFollowLookback
<1>20. Gate!StatsAddUp'
  <2>1. wakeCount = Cardinality(Gate!Accepted) /\ wakeCount - sent = 0 /\ wakeCount \in Nat /\ sent \in Nat
    <3>1. wakeCount \in Nat /\ sent \in Nat
      BY <1>2 DEF GateTypes
    <3>2. pc \notin {"send", "over"}
      BY <1>7
    <3> QED
      BY <3>1, <3>2, SameCardinality DEF GateIInv, Gate!StatsAddUp
  <2>2. IsFiniteSet(Gate!Accepted)
    <3>1. IsFiniteSet(1..n)
      BY FS_Interval
    <3> QED
      BY <1>16, <3>1, FS_Subset
  <2>3. CASE decided = "accepted"
    <3>1. Gate!Accepted' = Gate!Accepted \cup {n + 1} /\ n + 1 \notin Gate!Accepted
      BY <1>8, <1>12, <1>16, <2>3
    <3>2. Cardinality(Gate!Accepted') = wakeCount + 1
      BY <2>1, <2>2, <3>1, FS_AddElement
    <3>3. wakeCount' = wakeCount + 1 /\ sent' = sent /\ pc' = "send"
      BY <1>7, <2>3 DEF Gate!Observe
    <3>4. wakeCount' - sent' = 1
      BY <2>1, <3>3
    <3> QED
      BY <2>1, <3>2, <3>3, <3>4, SameCardinality DEF Gate!StatsAddUp
  <2>4. CASE decided # "accepted"
    <3>1. Gate!Accepted' = Gate!Accepted
      BY <1>8, <1>12, <2>4
    <3>2. wakeCount' = wakeCount /\ sent' = sent /\ pc' = "step"
      BY <1>7, <2>1, <2>4 DEF Gate!Observe
    <3> QED
      BY <2>1, <3>1, <3>2, SameCardinality DEF Gate!StatsAddUp
  <2> QED
    BY <2>3, <2>4
<1> QED
  BY <1>13, <1>14, <1>15, <1>17, <1>18, <1>19, <1>20 DEF GateIInv

\* Nothing is heard yet.
LEMMA GateInit == Gate!Init => GateIInv
<1> SUFFICES ASSUME Gate!Init PROVE GateIInv
  OBVIOUS
<1>1. GateTypes
  BY GateAssumption DEF Gate!Init, GateTypes, Gate!Never
<1>2. Gate!Accepted = {} /\ Gate!Measured = {} /\ Gate!Covered(0) = {} /\ Len(log) = 0 /\ DOMAIN log = {}
  BY DEF Gate!Init, Gate!Accepted, Gate!Measured, Gate!Covered
<1>3. ScoresAreKept
  <2>1. vadScores = <<>> /\ Len(vadScores) = 0 /\ (0 - 0 + 1)..0 = {}
    BY DEF Gate!Init
  <2> QED
    BY <1>2, <2>1 DEF ScoresAreKept
<1>4. LastIsKept /\ TimingsAreAged
  BY <1>2 DEF Gate!Init, Gate!Never, LastIsKept, TimingsAreAged
<1>5. Gate!DecisionsFollowLookback /\ Gate!AcceptedIsSpaced
  BY <1>2 DEF Gate!DecisionsFollowLookback, Gate!AcceptedIsSpaced
<1>6. Gate!StatsAddUp
  BY <1>2, FS_EmptySet, SameCardinality DEF Gate!Init, Gate!StatsAddUp
<1> QED
  BY <1>1, <1>3, <1>4, <1>5, <1>6 DEF GateIInv

\* Every step of the gate keeps what it knows of the steps before.
LEMMA GateNext == GateIInv /\ [Gate!Next]_Gate!vars => GateIInv'
<1> SUFFICES ASSUME GateIInv, [Gate!Next]_Gate!vars PROVE GateIInv'
  OBVIOUS
<1>1. ASSUME NEW vad \in Gate!Scores, NEW wake \in Gate!Scores, Gate!ProcessStep(vad, wake)
      PROVE  GateIInv'
  BY <1>1, GateSteps DEF Gate!Scores
<1>2. ASSUME UNCHANGED <<vadScores, lastAccepted, gsteps, wakeCount, rejected, timings, next, count, log>>,
             now' = now, wakeConfig' \in WakeConfigs, sent' \in Nat, Gate!StatsAddUp'
      PROVE  GateIInv'
  <2>1. Gate!Accepted' = Gate!Accepted /\ Gate!Measured' = Gate!Measured
    BY <1>2 DEF Gate!Accepted, Gate!Measured
  <2>2. \A m : Gate!Covered(m)' = Gate!Covered(m) /\ Gate!Later(m)' = Gate!Later(m)
    BY <1>2, <2>1 DEF Gate!Covered, Gate!Later
  <2>3. \A m : Gate!Heard(m)' = Gate!Heard(m)
    BY <1>2, <2>2 DEF Gate!Heard
  <2>4. GateTypes'
    BY <1>2 DEF GateIInv, GateTypes
  <2>5. ScoresAreKept'
    BY <1>2, <2>2 DEF GateIInv, ScoresAreKept
  <2>6. LastIsKept' /\ TimingsAreAged'
    BY <1>2, <2>1, <2>2 DEF GateIInv, LastIsKept, TimingsAreAged, Age
  <2>7. Gate!DecisionsFollowLookback'
    BY <1>2, <2>3 DEF GateIInv, Gate!DecisionsFollowLookback
  <2>8. Gate!AcceptedIsSpaced'
    BY <1>2, <2>1 DEF GateIInv, Gate!AcceptedIsSpaced
  <2> QED
    BY <1>2, <2>4, <2>5, <2>6, <2>7, <2>8 DEF GateIInv
<1> USE DEF Gate!stats
<1>3. CASE Gate!ScoreFails
  <2>1. Gate!Accepted' = Gate!Accepted
    BY <1>3 DEF Gate!ScoreFails, Gate!Accepted
  <2>2. Gate!StatsAddUp'
    BY <1>3, <2>1 DEF GateIInv, Gate!ScoreFails, Gate!StatsAddUp
  <2> QED
    BY <1>2, <1>3, <2>2 DEF GateIInv, GateTypes, Gate!ScoreFails
<1>4. CASE Gate!Deliver
  <2>1. Gate!Accepted' = Gate!Accepted /\ UNCHANGED wakeCount /\ pc = "send"
    BY <1>4 DEF Gate!Deliver, Gate!Accepted
  <2>2. wakeCount = Cardinality(Gate!Accepted) /\ wakeCount - sent = 1 /\ wakeCount \in Nat /\ sent \in Nat
    BY <2>1, SameCardinality DEF GateIInv, GateTypes, Gate!StatsAddUp
  <2>3. \/ sent' = sent + 1 /\ pc' = "step"
        \/ sent' = sent /\ pc' = "over"
    BY <1>4 DEF Gate!Deliver
  <2>4. Gate!StatsAddUp' /\ sent' \in Nat
    <3>1. CASE sent' = sent + 1 /\ pc' = "step"
      <4>1. wakeCount' - sent' = 0
        BY <2>1, <2>2, <3>1
      <4> QED
        BY <2>1, <2>2, <3>1, <4>1, SameCardinality DEF Gate!StatsAddUp
    <3>2. CASE sent' = sent /\ pc' = "over"
      BY <2>1, <2>2, <3>2, SameCardinality DEF Gate!StatsAddUp
    <3> QED
      BY <2>3, <3>1, <3>2
  <2> QED
    BY <1>2, <1>4, <2>4 DEF GateIInv, GateTypes, Gate!Deliver
<1>5. CASE Gate!Change
  <2>1. Gate!Accepted' = Gate!Accepted
    BY <1>5 DEF Gate!Change, Gate!Accepted
  <2>2. Gate!StatsAddUp'
    BY <1>5, <2>1 DEF GateIInv, Gate!Change, Gate!StatsAddUp
  <2> QED
    BY <1>2, <1>5, <2>2 DEF GateIInv, GateTypes, Gate!Change
<1>6. CASE UNCHANGED Gate!vars
  <2>1. Gate!Accepted' = Gate!Accepted
    BY <1>6 DEF Gate!vars, Gate!Accepted
  <2>2. Gate!StatsAddUp'
    BY <1>6, <2>1 DEF GateIInv, Gate!vars, Gate!StatsAddUp
  <2> QED
    BY <1>2, <1>6, <2>2 DEF GateIInv, GateTypes, Gate!vars
<1> QED
  BY <1>1, <1>3, <1>4, <1>5, <1>6 DEF Gate!Next

\* The window of timings holds the latest measurements, for each has its age.
LEMMA AgedAreLatest == GateIInv => Gate!TimingsAreLatest
<1> SUFFICES ASSUME GateIInv PROVE Gate!TimingsAreLatest
  OBVIOUS
<1>1. /\ Window \in Nat \ {0} /\ next \in 0..Window - 1 /\ count \in 0..Window
      /\ count < Window => next = count
  BY GateAssumption DEF GateIInv, GateTypes, TimingsAreAged
<1>2. \A i \in 0..count - 1 : timings[i] \in Gate!Measured /\ Cardinality(Gate!Later(timings[i])) < Window
  <2> TAKE i \in 0..count - 1
  <2>1. timings[i] \in Gate!Measured /\ Cardinality(Gate!Later(timings[i])) = Age(i)
    BY DEF GateIInv, TimingsAreAged
  <2>2. Age(i) < Window
    BY <1>1 DEF Age
  <2> QED
    BY <2>1, <2>2
<1>3. \A m \in Gate!Measured : Cardinality(Gate!Later(m)) < Window => \E i \in 0..count - 1 : timings[i] = m
  BY DEF GateIInv, TimingsAreAged
<1> QED
  BY <1>2, <1>3, SameCardinality DEF Gate!TimingsAreLatest

\* However the configuration changes between steps, decisions follow the voice
\* activity of the lookback, accepted wakes are apart, the percentiles are of
\* the latest measurements and the counts add up.
THEOREM GateSafe == Gate!Spec => []GateInvariant
<1>1. GateIInv => GateInvariant
  BY AgedAreLatest DEF GateIInv, GateInvariant, Gate!GateInvariant
<1> QED
  BY <1>1, GateInit, GateNext, PTL DEF Gate!Spec

-----------------------------------------------------------------------------
(* The endpoint controller.                                                *)

\* A revision that passed Validate has the shape of EndpointingConfig and
\* positive limits.
LEMMA ConfigLimits ==
    ASSUME NEW c \in Endpoint!Configs
    PROVE  /\ c.threshold \in Nat
           /\ c.onset \in Nat \ {0} /\ c.silence \in Nat \ {0}
           /\ c.noSpeech \in Nat \ {0} /\ c.maxTurn \in Nat \ {0}
  BY EndpointAssumption DEF Endpoint!Configs, Endpoint!Validate, Endpoint!EndpointingConfig

\* No revision is the nil pointer.
LEMMA ConfigIsNotNil == NoConfig \notin Endpoint!Configs
  BY EndpointAssumption DEF Endpoint!Configs

\* Every state of the controller is well typed: in particular only validated
\* revisions are ever staged, promoted or snapshotted.
THEOREM EndpointTypes == Endpoint!Spec => []Endpoint!TypeOK
<1>1. Endpoint!Init => Endpoint!TypeOK
  BY DEF Endpoint!Init, Endpoint!TypeOK
<1>2. Endpoint!TypeOK /\ [Endpoint!Next]_Endpoint!vars => Endpoint!TypeOK'
  <2> SUFFICES ASSUME Endpoint!TypeOK, [Endpoint!Next]_Endpoint!vars PROVE Endpoint!TypeOK'
    OBVIOUS
  <2> USE DEF Endpoint!TypeOK
  <2>1. ASSUME NEW c \in Candidates, Endpoint!StageConfig(c) PROVE Endpoint!TypeOK'
    BY <2>1 DEF Endpoint!StageConfig, Endpoint!StageValidatedConfig, Endpoint!Configs
  <2>2. ASSUME NEW p \in TriggerPreRolls, Endpoint!Start(p) PROVE Endpoint!TypeOK'
    BY <2>2, EndpointAssumption DEF Endpoint!Start
  <2>3. ASSUME NEW sc \in Endpoint!Scores, NEW d \in FrameLengths, Endpoint!Observe(sc, d)
        PROVE  Endpoint!TypeOK'
    <3>1. d \in Nat
      BY EndpointAssumption
    <3>2. eheard' \in Seq(Endpoint!Frames)
      BY <2>3 DEF Endpoint!Observe, Endpoint!Frames
    <3>3. elapsed' \in Nat
      BY <2>3, <3>1 DEF Endpoint!Observe
    <3>4. CASE elapsed' >= eturn.maxTurn
      BY <2>3, <3>2, <3>3, <3>4 DEF Endpoint!Observe, Endpoint!complete, Endpoint!finish
    <3>5. CASE ~(elapsed' >= eturn.maxTurn) /\ sc >= eturn.threshold
      BY <2>3, <3>1, <3>2, <3>3, <3>5 DEF Endpoint!Observe, Endpoint!ObserveSpeech,
         Endpoint!complete, Endpoint!finish, Endpoint!Continue
    <3>6. CASE ~(elapsed' >= eturn.maxTurn) /\ ~(sc >= eturn.threshold)
      BY <2>3, <3>1, <3>2, <3>3, <3>6 DEF Endpoint!Observe, Endpoint!ObserveSilence,
         Endpoint!complete, Endpoint!finish, Endpoint!Continue
    <3> QED
      BY <3>4, <3>5, <3>6
  <2>4. CASE Endpoint!EOF
    BY <2>4 DEF Endpoint!EOF, Endpoint!complete, Endpoint!finish
  <2>5. CASE Endpoint!Cancel
    BY <2>5 DEF Endpoint!Cancel, Endpoint!finish
  <2>6. CASE UNCHANGED Endpoint!vars
    BY <2>6 DEF Endpoint!vars, Endpoint!code, Endpoint!history
  <2> QED
    BY <2>1, <2>2, <2>3, <2>4, <2>5, <2>6 DEF Endpoint!Next, Endpoint!ObserveFrame
<1> QED
  BY <1>1, <1>2, PTL DEF Endpoint!Spec

\* An observed frame of a typed controller takes one of four ways out: the
\* turn goes on waiting, goes on or begins in speech, or completes; each with
\* the limits that were tested on that way.
LEMMA ObserveOutcome ==
    ASSUME Endpoint!TypeOK, NEW sc \in Endpoint!Scores, NEW d \in FrameLengths,
           Endpoint!Observe(sc, d)
    PROVE  /\ Endpoint!Active
           /\ UNCHANGED <<eturn, asked, latest>>
           /\ \/ state' = "Completed" /\ Endpoint!finish
              \/ /\ state' = "WaitingForSpeech" /\ UNCHANGED <<config, pending>>
                 /\ elapsed' < eturn.maxTurn /\ elapsed' < eturn.noSpeech /\ onset' < eturn.onset
              \/ /\ state' = "InSpeech" /\ UNCHANGED <<config, pending>>
                 /\ elapsed' < eturn.maxTurn
                 /\ silence' = 0 \/ silence' < eturn.silence
<1> USE DEF Endpoint!TypeOK
<1>1. d \in Nat /\ elapsed' \in Nat
  BY EndpointAssumption DEF Endpoint!Observe
<1>2. /\ eturn.onset \in Nat \ {0} /\ eturn.silence \in Nat \ {0}
      /\ eturn.noSpeech \in Nat \ {0} /\ eturn.maxTurn \in Nat \ {0}
  BY ConfigLimits
<1>3. CASE elapsed' >= eturn.maxTurn
  BY <1>3 DEF Endpoint!Observe, Endpoint!complete, Endpoint!finish, Endpoint!Active
<1>4. CASE ~(elapsed' >= eturn.maxTurn) /\ sc >= eturn.threshold
  BY <1>1, <1>2, <1>4 DEF Endpoint!Observe, Endpoint!ObserveSpeech, Endpoint!complete,
     Endpoint!finish, Endpoint!Continue, Endpoint!Active
<1>5. CASE ~(elapsed' >= eturn.maxTurn) /\ ~(sc >= eturn.threshold)
  BY <1>1, <1>2, <1>5 DEF Endpoint!Observe, Endpoint!ObserveSilence, Endpoint!complete,
     Endpoint!finish, Endpoint!Continue, Endpoint!Active
<1> QED
  BY <1>3, <1>4, <1>5

\* Whatever interleaving of stage calls, turns and cancellations the callers
\* produce, the last delivered revision is the next one used, a running turn
\* keeps the revision it started with and stays within that revision's limits.
THEOREM ControllerSafe == Endpoint!Spec => []ControllerInvariant
<1>1. Endpoint!Init => Endpoint!ControllerInvariant
  BY ConfigIsNotNil DEF Endpoint!Init, Endpoint!ControllerInvariant, Endpoint!TypeOK,
     Endpoint!LatestRevisionIsNext,
     Endpoint!TurnKeepsItsRevision,
     Endpoint!RunningTurnIsWithinLimits, Endpoint!Active, Endpoint!idleLocked
<1>2. Endpoint!ControllerInvariant /\ Endpoint!TypeOK' /\ [Endpoint!Next]_Endpoint!vars
      => Endpoint!ControllerInvariant'
  <2> SUFFICES ASSUME Endpoint!ControllerInvariant, Endpoint!TypeOK', [Endpoint!Next]_Endpoint!vars
               PROVE  Endpoint!ControllerInvariant'
    OBVIOUS
  <2> USE DEF Endpoint!ControllerInvariant
  <2>1. ASSUME NEW c \in Candidates, Endpoint!StageConfig(c) PROVE Endpoint!ControllerInvariant'
    <3>1. c # NoConfig
      BY <2>1, EndpointAssumption
    <3> QED
      BY <2>1, <3>1 DEF Endpoint!StageConfig, Endpoint!StageValidatedConfig,
         Endpoint!LatestRevisionIsNext,
         Endpoint!TurnKeepsItsRevision, Endpoint!RunningTurnIsWithinLimits, Endpoint!Active,
            Endpoint!idleLocked
  <2>2. ASSUME NEW p \in TriggerPreRolls, Endpoint!Start(p) PROVE Endpoint!ControllerInvariant'
    BY <2>2 DEF Endpoint!Start, Endpoint!LatestRevisionIsNext, Endpoint!TurnKeepsItsRevision,
       Endpoint!RunningTurnIsWithinLimits, Endpoint!Active, Endpoint!idleLocked
  <2>3. ASSUME NEW sc \in Endpoint!Scores, NEW d \in FrameLengths, Endpoint!Observe(sc, d)
        PROVE  Endpoint!ControllerInvariant'
    <3>1. Endpoint!LatestRevisionIsNext'
      BY <2>3, ObserveOutcome, ConfigIsNotNil DEF Endpoint!LatestRevisionIsNext, Endpoint!TypeOK,
         Endpoint!finish, Endpoint!Active, Endpoint!idleLocked
    <3>2. Endpoint!TurnKeepsItsRevision'
      BY <2>3, ObserveOutcome DEF Endpoint!TurnKeepsItsRevision, Endpoint!Active
    <3>3. Endpoint!RunningTurnIsWithinLimits'
      <4>1. eturn.silence \in Nat \ {0} /\ eturn = asked
        BY <2>3, ObserveOutcome, ConfigLimits DEF Endpoint!TypeOK, Endpoint!TurnKeepsItsRevision
      <4> QED
        BY <2>3, <4>1, ObserveOutcome DEF Endpoint!RunningTurnIsWithinLimits, Endpoint!Active
    <3> QED
      BY <3>1, <3>2, <3>3
  <2>4. CASE Endpoint!EOF
    BY <2>4, ConfigIsNotNil DEF Endpoint!EOF, Endpoint!complete, Endpoint!finish, Endpoint!TypeOK,
       Endpoint!LatestRevisionIsNext,
       Endpoint!TurnKeepsItsRevision, Endpoint!RunningTurnIsWithinLimits, Endpoint!Active,
          Endpoint!idleLocked
  <2>5. CASE Endpoint!Cancel
    BY <2>5, ConfigIsNotNil DEF Endpoint!Cancel, Endpoint!finish, Endpoint!TypeOK,
       Endpoint!LatestRevisionIsNext,
       Endpoint!TurnKeepsItsRevision, Endpoint!RunningTurnIsWithinLimits, Endpoint!Active,
          Endpoint!idleLocked
  <2>6. CASE UNCHANGED Endpoint!vars
    BY <2>6 DEF Endpoint!vars, Endpoint!code, Endpoint!history, Endpoint!LatestRevisionIsNext,
       Endpoint!TurnKeepsItsRevision,
       Endpoint!RunningTurnIsWithinLimits, Endpoint!Active, Endpoint!idleLocked
  <2> QED
    BY <2>1, <2>2, <2>3, <2>4, <2>5, <2>6 DEF Endpoint!Next, Endpoint!ObserveFrame
<1>3. Endpoint!ControllerInvariant => ControllerInvariant
  BY DEF ControllerInvariant
<1> QED
  BY <1>1, <1>2, <1>3, EndpointTypes, PTL DEF Endpoint!Spec

\* What the counters of a running turn say of the frames it was fed: the time
\* that has passed; the speech, or in speech the silence, that the frames end
\* in, the frame before it being of the other kind.
WaitsForSpeech ==
    /\ ~Endpoint!SpeechBegan(Len(eheard))
    /\ \E i \in 0..Len(eheard) :
           /\ \A k \in i + 1..Len(eheard) : Endpoint!IsSpeech(k)
           /\ i = 0 \/ ~Endpoint!IsSpeech(i)
           /\ onset = Endpoint!Total[Len(eheard)] - Endpoint!Total[i]
HearsSpeech ==
    \E i \in 1..Len(eheard) :
        /\ \A k \in i + 1..Len(eheard) : ~Endpoint!IsSpeech(k)
        /\ Endpoint!IsSpeech(i) /\ Endpoint!SpeechBegan(i)
        /\ silence = Endpoint!Total[Len(eheard)] - Endpoint!Total[i]
CountersFollowFrames ==
    /\ Endpoint!Active => stop = "none" /\ elapsed = preRoll + Endpoint!Total[Len(eheard)]
    /\ state = "WaitingForSpeech" => WaitsForSpeech
    /\ state = "InSpeech" => HearsSpeech

\* t gives the total length of the first frames of h.
Totals(t, h) ==
    /\ t \in [0..Len(h) -> Nat] /\ t[0] = 0
    /\ \A n \in 1..Len(h) : t[n] = t[n - 1] + h[n].length

\* The frames' totals exist.
LEMMA TotalExists == Endpoint!TypeOK => Totals(Endpoint!Total, eheard)
<1> SUFFICES ASSUME Endpoint!TypeOK PROVE Totals(Endpoint!Total, eheard)
  OBVIOUS
<1>1. PICK h \in Seq(Endpoint!Frames) : eheard = h
  BY DEF Endpoint!TypeOK
<1> DEFINE N == Len(h)
           by == [n \in 1..N |-> [x \in Nat |-> x + h[n].length]]
           sum == [n \in 0..N |-> IF n = 0 THEN 0 ELSE Endpoint!Total[n - 1] + h[n].length]
<1>2. N \in Nat /\ \A n \in 1..N : h[n].length \in Nat
  <2>1. ASSUME NEW n \in 1..N PROVE h[n].length \in Nat
    <3>1. h[n] \in Endpoint!Frames
      OBVIOUS
    <3> QED
      BY <3>1, EndpointAssumption DEF Endpoint!Frames
  <2> QED
    BY <2>1
<1>3. by \in [1..N -> [Nat -> Nat]] /\ \A n \in 1..N, x \in Nat : by[n][x] = x + h[n].length
  BY <1>2
<1> HIDE DEF by
<1>4. PICK f : Recursion(f, N, Nat, 0, by)
  <2> HIDE DEF N
  <2>1. 0 \in Nat
    OBVIOUS
  <2> QED
    BY <1>2, <1>3, <2>1, RecursiveFunction
<1>5. f \in [0..N -> Nat] /\ f[0] = 0 /\ \A n \in 1..N : f[n] = by[n][f[n - 1]]
  BY <1>4 DEF Recursion
<1>6. f = [n \in 0..N |-> IF n = 0 THEN 0 ELSE f[n - 1] + h[n].length]
  <2>1. ASSUME NEW n \in 0..N PROVE f[n] = IF n = 0 THEN 0 ELSE f[n - 1] + h[n].length
    <3>1. CASE n = 0
      BY <1>5, <3>1
    <3>2. CASE n # 0
      <4>1. n \in 1..N /\ n - 1 \in 0..N
        BY <1>2, <3>2
      <4>2. f[n - 1] \in Nat
        BY <1>5, <4>1
      <4> QED
        BY <1>3, <1>5, <3>2, <4>1, <4>2
    <3> QED
      BY <3>1, <3>2
  <2> HIDE DEF N
  <2> QED
    BY <1>5, <2>1
<1>7. Endpoint!Total = sum
  BY <1>1, <1>6 DEF Endpoint!Total
<1>8. PICK t : Endpoint!Total = t
  OBVIOUS
<1>9. /\ DOMAIN t = 0..N /\ t = [n \in DOMAIN t |-> t[n]] /\ t[0] = 0
      /\ \A n \in 1..N : t[n] = t[n - 1] + h[n].length
  BY <1>2, <1>7, <1>8
<1> DEFINE Bad == {n \in 0..N : t[n] \notin Nat}
<1>10. Bad = {}
  <2> SUFFICES ASSUME Bad # {} PROVE FALSE
    OBVIOUS
  <2>1. Bad \in SUBSET Nat
    BY <1>2
  <2>2. PICK n \in Bad : \A m \in Bad : n <= m
    <3> HIDE DEF Bad
    <3> QED
      BY <2>1, NatMin
  <2>3. n \in 1..N /\ n - 1 \in 0..N /\ n - 1 < n
    BY <1>2, <1>9
  <2>4. t[n - 1] \in Nat
    <3>1. n - 1 \notin Bad
      <4> HIDE DEF Bad
      <4> QED
        BY <2>2, <2>3
    <3> QED
      BY <2>3, <3>1
  <2> QED
    BY <1>2, <1>9, <2>3, <2>4
<1>11. t \in [0..N -> Nat]
  BY <1>9, <1>10
<1> QED
  BY <1>1, <1>8, <1>9, <1>11 DEF Totals

\* Frames have no negative length.
LEMMA TotalsGrow ==
    ASSUME NEW h \in Seq(Endpoint!Frames), NEW t, Totals(t, h), NEW i \in 0..Len(h), NEW j \in i..Len(h)
    PROVE  t[i] <= t[j]
<1>1. PICK N \in Nat : Len(h) = N
  OBVIOUS
<1>2. /\ t \in [0..N -> Nat]
      /\ \A n \in 1..N : t[n] = t[n - 1] + h[n].length /\ h[n].length \in Nat
  <2>1. ASSUME NEW n \in 1..N PROVE h[n].length \in Nat
    <3>1. h[n] \in Endpoint!Frames
      BY <1>1
    <3> QED
      BY <3>1, EndpointAssumption DEF Endpoint!Frames
  <2> QED
    BY <1>1, <2>1 DEF Totals
<1>3. \A n \in 1..N : t[n - 1] <= t[n]
  <2> TAKE n \in 1..N
  <2>0. n - 1 \in 0..N
    BY <1>1
  <2>1. PICK a \in Nat : t[n - 1] = a
    BY <1>2, <2>0
  <2>2. PICK b \in Nat : h[n].length = b
    BY <1>2
  <2>3. t[n] = a + b
    BY <1>2, <2>1, <2>2
  <2> QED
    BY <2>1, <2>3
<1> DEFINE Bad == {k \in i..N : ~(t[i] <= t[k])}
<1>4. Bad = {}
  <2> SUFFICES ASSUME Bad # {} PROVE FALSE
    OBVIOUS
  <2>1. Bad \in SUBSET Nat
    BY <1>1
  <2>2. PICK k \in Bad : \A m \in Bad : k <= m
    <3> HIDE DEF Bad
    <3> QED
      BY <2>1, NatMin
  <2>3. k # i
    BY <1>1, <1>2
  <2>4. k - 1 \in i..N /\ k \in 1..N /\ k - 1 < k /\ k - 1 \in 0..N /\ i \in 0..N
    BY <1>1, <2>3
  <2>5. t[i] <= t[k - 1]
    <3>1. k - 1 \notin Bad
      <4> HIDE DEF Bad
      <4> QED
        BY <2>2, <2>4
    <3> QED
      BY <2>4, <3>1
  <2>6. t[i] \in Nat /\ t[k - 1] \in Nat /\ t[k] \in Nat
    BY <1>2, <2>4
  <2>7. t[i] <= t[k]
    BY <1>3, <2>4, <2>5, <2>6
  <2> QED
    BY <2>7
<1> QED
  BY <1>1, <1>4

\* The totals of the frames heard before do not depend on a later frame.
LEMMA TotalsAgree ==
    ASSUME NEW h \in Seq(Endpoint!Frames), NEW g, NEW t, NEW u, Totals(t, h), Totals(u, g),
           Len(g) \in Nat, Len(h) <= Len(g), \A n \in 1..Len(h) : g[n] = h[n], NEW j \in 0..Len(h)
    PROVE  u[j] = t[j]
<1>1. PICK N \in Nat, M \in Nat : Len(h) = N /\ Len(g) = M /\ N <= M
  OBVIOUS
<1>2. /\ t[0] = 0 /\ u[0] = 0
      /\ \A n \in 1..N : t[n] = t[n - 1] + h[n].length /\ u[n] = u[n - 1] + h[n].length
  BY <1>1, SMTT(30) DEF Totals
<1> DEFINE Bad == {k \in 0..N : u[k] # t[k]}
<1>4. Bad = {}
  <2> SUFFICES ASSUME Bad # {} PROVE FALSE
    OBVIOUS
  <2>1. Bad \in SUBSET Nat
    BY <1>1
  <2>2. PICK k \in Bad : \A m \in Bad : k <= m
    <3> HIDE DEF Bad
    <3> QED
      BY <2>1, NatMin
  <2>3. k # 0
    BY <1>2
  <2>4. k - 1 \in 0..N /\ k \in 1..N /\ k - 1 < k
    BY <1>1, <2>3
  <2>5. u[k - 1] = t[k - 1]
    <3>1. k - 1 \notin Bad
      <4> HIDE DEF Bad
      <4> QED
        BY <2>2, <2>4
    <3> QED
      BY <2>4, <3>1
  <2> QED
    BY <1>2, <2>4, <2>5
<1> QED
  BY <1>1, <1>4

\* Some run in K that ends at n is long enough.
EndsInRun(n, u, K, o) == \E a \in 1..n : a..n \subseteq K /\ u[n] - u[a - 1] >= o

\* Of the runs that end at n, the longest is long enough if any is.
LEMMA LongestRun ==
    ASSUME NEW n \in Nat, NEW u \in [0..n -> Nat], \A a, b \in 0..n : a <= b => u[a] <= u[b],
           NEW K, NEW i \in 0..n, i + 1..n \subseteq K, i = 0 \/ i \notin K, NEW o \in Nat \ {0}
    PROVE  EndsInRun(n, u, K, o) <=> u[n] - u[i] >= o
<1>1. ASSUME NEW a \in 1..n, a..n \subseteq K, u[n] - u[a - 1] >= o PROVE u[n] - u[i] >= o
  <2>1. i <= a - 1 /\ a - 1 \in 0..n
    BY <1>1
  <2>2. u[i] <= u[a - 1] /\ u[i] \in Nat /\ u[a - 1] \in Nat /\ u[n] \in Nat
    BY <2>1
  <2> QED
    BY <1>1, <2>2
<1>2. ASSUME u[n] - u[i] >= o
      PROVE  \E a \in 1..n : a..n \subseteq K /\ u[n] - u[a - 1] >= o
  <2>1. i # n
    BY <1>2
  <2>2. i + 1 \in 1..n /\ (i + 1) - 1 = i
    BY <2>1
  <2> QED
    BY <1>2, <2>2
<1> QED
  BY <1>1, <1>2 DEF EndsInRun

\* What was said of the frames before the last one stays.
LEMMA HeardStep ==
    ASSUME Endpoint!TypeOK, Endpoint!TypeOK', NEW sc \in Endpoint!Scores, NEW d \in FrameLengths,
           Endpoint!Observe(sc, d), NEW n \in Nat, Len(eheard) = n
    PROVE  /\ Len(eheard') = n + 1 /\ d \in Nat
           /\ Endpoint!Total \in [0..n -> Nat] /\ Endpoint!Total' \in [0..n + 1 -> Nat]
           /\ \A a, b \in 0..n + 1 : a <= b => Endpoint!Total'[a] <= Endpoint!Total'[b]
           /\ \A j \in 0..n : Endpoint!Total'[j] = Endpoint!Total[j]
           /\ Endpoint!Total'[n + 1] = Endpoint!Total[n] + d /\ Endpoint!Total'[0] = 0
           /\ \A k \in 1..n : Endpoint!IsSpeech(k)' <=> Endpoint!IsSpeech(k)
           /\ Endpoint!IsSpeech(n + 1)' <=> sc >= asked.threshold
           /\ \A m \in 0..n : Endpoint!SpeechBegan(m)' <=> Endpoint!SpeechBegan(m)
           /\ \A m \in 1..n : Endpoint!ReasonAt(m)' = Endpoint!ReasonAt(m)
<1>1. PICK h \in Seq(Endpoint!Frames), g \in Seq(Endpoint!Frames) : eheard = h /\ eheard' = g
  BY DEF Endpoint!TypeOK
<1>2. d \in Nat /\ UNCHANGED <<asked, preRoll>>
  BY EndpointAssumption DEF Endpoint!Observe
<1>3. /\ Len(h) = n /\ Len(g) = n + 1 /\ g[n + 1].length = d /\ g[n + 1].score = sc
      /\ \A k \in 1..n : g[k] = h[k]
  <2>1. g = Append(h, [score |-> sc, length |-> d])
    BY <1>1 DEF Endpoint!Observe
  <2> QED
    BY <1>1, <2>1
<1>4. PICK t, u : Endpoint!Total = t /\ Endpoint!Total' = u
  OBVIOUS
<1>5. Totals(t, h) /\ Totals(u, g)
  <2>1. Totals(Endpoint!Total, eheard)
    BY TotalExists
  <2>2. (Endpoint!TypeOK => Totals(Endpoint!Total, eheard))'
    BY TotalExists, PTL
  <2>3. Totals(Endpoint!Total', eheard')
    BY <2>2 DEF Totals
  <2> QED
    BY <1>1, <1>4, <2>1, <2>3
<1>6. /\ t \in [0..n -> Nat] /\ u \in [0..n + 1 -> Nat]
      /\ t[0] = 0 /\ u[0] = 0 /\ u[n + 1] = u[n] + g[n + 1].length
  BY <1>3, <1>5 DEF Totals
<1>7. \A a, b \in 0..n + 1 : a <= b => u[a] <= u[b]
  <2> TAKE a, b \in 0..n + 1
  <2> HAVE a <= b
  <2>1. a \in 0..Len(g) /\ b \in a..Len(g)
    BY <1>3
  <2> QED
    BY <1>5, <2>1, TotalsGrow
<1>8. \A j \in 0..n : u[j] = t[j]
  <2> TAKE j \in 0..n
  <2>1. j \in 0..Len(h) /\ Len(g) \in Nat /\ Len(h) <= Len(g) /\ \A k \in 1..Len(h) : g[k] = h[k]
    BY <1>3
  <2> QED
    BY <1>5, <2>1, TotalsAgree
<1>9. \A k \in 1..n : Endpoint!IsSpeech(k)' <=> Endpoint!IsSpeech(k)
  BY <1>1, <1>2, <1>3 DEF Endpoint!IsSpeech
<1>10. Endpoint!IsSpeech(n + 1)' <=> sc >= asked.threshold
  BY <1>1, <1>2, <1>3 DEF Endpoint!IsSpeech
<1>11. \A i \in 1..n + 1, j \in 0..n : Endpoint!LengthOf(i, j)' = Endpoint!LengthOf(i, j)
  <2> TAKE i \in 1..n + 1, j \in 0..n
  <2>1. u[j] = t[j] /\ u[i - 1] = t[i - 1]
    BY <1>8
  <2> QED
    BY <1>4, <2>1 DEF Endpoint!LengthOf
<1>12. \A m \in 0..n : Endpoint!SpeechBegan(m)' <=> Endpoint!SpeechBegan(m)
  <2> TAKE m \in 0..n
  <2>1. ASSUME NEW i \in 1..m, NEW j \in i..m
        PROVE  /\ (\A k \in i..j : Endpoint!IsSpeech(k)') <=> \A k \in i..j : Endpoint!IsSpeech(k)
               /\ Endpoint!LengthOf(i, j)' = Endpoint!LengthOf(i, j)
    BY <1>9, <1>11
  <2> QED
    BY <1>2, <2>1 DEF Endpoint!SpeechBegan
<1>13. \A m \in 1..n : Endpoint!SilenceTrails(m)' <=> Endpoint!SilenceTrails(m)
  <2> TAKE m \in 1..n
  <2>1. ASSUME NEW i \in 1..m
        PROVE  /\ (\A k \in i..m : ~Endpoint!IsSpeech(k)') <=> \A k \in i..m : ~Endpoint!IsSpeech(k)
               /\ Endpoint!LengthOf(i, m)' = Endpoint!LengthOf(i, m)
               /\ Endpoint!SpeechBegan(i - 1)' <=> Endpoint!SpeechBegan(i - 1)
    BY <1>9, <1>11, <1>12
  <2> QED
    BY <1>2, <2>1 DEF Endpoint!SilenceTrails
<1>14. \A m \in 1..n : Endpoint!ReasonAt(m)' = Endpoint!ReasonAt(m)
  <2> TAKE m \in 1..n
  <2>1. Endpoint!LengthOf(1, m)' = Endpoint!LengthOf(1, m)
    BY <1>11
  <2> QED
    BY <1>2, <1>12, <1>13, <2>1 DEF Endpoint!ReasonAt
<1> QED
  BY <1>1, <1>2, <1>3, <1>4, <1>6, <1>7, <1>8, <1>9, <1>10, <1>12, <1>14

\* What the reference makes of one more frame is what the counters say of it.
LEMMA VerdictStep ==
    ASSUME Endpoint!TypeOK, Endpoint!TypeOK', NEW sc \in Endpoint!Scores, NEW d \in FrameLengths,
           Endpoint!Observe(sc, d), CountersFollowFrames, NEW n \in Nat, Len(eheard) = n
    PROVE  /\ elapsed' = preRoll + Endpoint!LengthOf(1, n + 1)'
           /\ elapsed' = preRoll + Endpoint!Total'[n + 1]
           /\ state = "WaitingForSpeech" =>
                  /\ ~Endpoint!SilenceTrails(n + 1)'
                  /\ Endpoint!SpeechBegan(n + 1)' <=> sc >= asked.threshold /\ onset + d >= asked.onset
           /\ state = "InSpeech" =>
                  /\ Endpoint!SpeechBegan(n + 1)'
                  /\ Endpoint!SilenceTrails(n + 1)'
                     <=> ~(sc >= asked.threshold) /\ silence + d >= asked.silence
<1>1. PICK t \in [0..n -> Nat], u \in [0..n + 1 -> Nat] : Endpoint!Total = t /\ Endpoint!Total' = u
  BY HeardStep
<1>2. /\ d \in Nat /\ u[n + 1] = t[n] + d /\ u[0] = 0 /\ \A j \in 0..n : u[j] = t[j]
      /\ \A a, b \in 0..n + 1 : a <= b => u[a] <= u[b]
  BY <1>1, HeardStep
<1>3. /\ \A k \in 1..n : Endpoint!IsSpeech(k)' <=> Endpoint!IsSpeech(k)
      /\ Endpoint!IsSpeech(n + 1)' <=> sc >= asked.threshold
      /\ \A m \in 0..n : Endpoint!SpeechBegan(m)' <=> Endpoint!SpeechBegan(m)
  BY HeardStep
<1>4. /\ elapsed = preRoll + t[n]
      /\ state = "WaitingForSpeech" => WaitsForSpeech
      /\ state = "InSpeech" => HearsSpeech
  BY <1>1 DEF CountersFollowFrames, Endpoint!Observe
<1>5. UNCHANGED <<asked, preRoll>> /\ elapsed' = elapsed + d
  BY DEF Endpoint!Observe
<1>6. PICK o \in Nat \ {0}, q \in Nat \ {0} : asked.onset = o /\ asked.silence = q
  BY ConfigLimits DEF Endpoint!TypeOK
<1>7. \A a \in 1..n + 1, b \in 0..n + 1 : Endpoint!LengthOf(a, b)' = u[b] - u[a - 1]
  BY <1>1 DEF Endpoint!LengthOf
<1>8. elapsed' = preRoll + Endpoint!LengthOf(1, n + 1)' /\ elapsed' = preRoll + u[n + 1]
  <2>1. PICK p \in Nat : preRoll = p
    BY EndpointAssumption DEF Endpoint!TypeOK
  <2>2. t[n] \in Nat /\ u[n + 1] \in Nat
    BY <1>1
  <2>3. elapsed' = p + u[n + 1]
    BY <1>2, <1>4, <1>5, <2>1, <2>2
  <2>4. Endpoint!LengthOf(1, n + 1)' = u[n + 1]
    <3>1. 1 \in 1..n + 1 /\ n + 1 \in 0..n + 1 /\ 1 - 1 = 0
      OBVIOUS
    <3>2. Endpoint!LengthOf(1, n + 1)' = u[n + 1] - u[1 - 1]
      BY <1>7, <3>1
    <3> QED
      BY <1>2, <2>2, <3>1, <3>2
  <2> QED
    BY <2>1, <2>3, <2>4
<1>9. PICK K : K = {k \in 1..n + 1 : Endpoint!IsSpeech(k)'}
  OBVIOUS
<1>10. PICK Q : Q = (1..n + 1) \ K
  OBVIOUS
<1>11. Endpoint!SpeechBegan(n + 1)'
       <=> \/ Endpoint!SpeechBegan(n)
           \/ \E a \in 1..n + 1 : a..n + 1 \subseteq K /\ u[n + 1] - u[a - 1] >= o
  <2>1. \A a \in 1..n + 1, b \in 0..n + 1 :
            (\A k \in a..b : Endpoint!IsSpeech(k)') <=> a..b \subseteq K
    BY <1>9
  <2>2. \A m \in 0..n + 1 :
            Endpoint!SpeechBegan(m)'
            <=> \E a \in 1..m : \E b \in a..m : a..b \subseteq K /\ u[b] - u[a - 1] >= o
    <3> TAKE m \in 0..n + 1
    <3>1. ASSUME NEW a \in 1..m, NEW b \in a..m
          PROVE  /\ (\A k \in a..b : Endpoint!IsSpeech(k)') <=> a..b \subseteq K
                 /\ Endpoint!LengthOf(a, b)' = u[b] - u[a - 1]
      <4>1. a \in 1..n + 1 /\ b \in 0..n + 1
        OBVIOUS
      <4> QED
        BY <1>7, <2>1, <4>1
    <3> QED
      BY <1>5, <1>6, <3>1 DEF Endpoint!SpeechBegan
  <2>3. Endpoint!SpeechBegan(n)
        <=> \E a \in 1..n : \E b \in a..n : a..b \subseteq K /\ u[b] - u[a - 1] >= o
    BY <1>3, <2>2
  <2>4. n + 1 \in 0..n + 1 /\ \A a \in 1..n + 1 : a..n + 1 = (a..n) \cup {n + 1}
    OBVIOUS
  <2>5. ASSUME NEW a \in 1..n + 1, NEW b \in a..n + 1 PROVE b = n + 1 \/ (a \in 1..n /\ b \in a..n)
    OBVIOUS
  <2>6. ASSUME NEW a \in 1..n, NEW b \in a..n PROVE a \in 1..n + 1 /\ b \in a..n + 1
    OBVIOUS
  <2>7. ASSUME NEW a \in 1..n + 1 PROVE n + 1 \in a..n + 1
    OBVIOUS
  <2>8. Endpoint!SpeechBegan(n + 1)'
        <=> \E a \in 1..n + 1 : \E b \in a..n + 1 : a..b \subseteq K /\ u[b] - u[a - 1] >= o
    BY <2>2, <2>4
  <2> QED
    BY <2>3, <2>5, <2>6, <2>7, <2>8
<1>12. Endpoint!SilenceTrails(n + 1)'
       <=> \E a \in 1..n + 1 : /\ a..n + 1 \subseteq Q /\ u[n + 1] - u[a - 1] >= q
                               /\ Endpoint!SpeechBegan(a - 1)
  <2>1. ASSUME NEW a \in 1..n + 1
        PROVE  /\ (\A k \in a..n + 1 : ~Endpoint!IsSpeech(k)') <=> a..n + 1 \subseteq Q
               /\ Endpoint!LengthOf(a, n + 1)' = u[n + 1] - u[a - 1]
               /\ Endpoint!SpeechBegan(a - 1)' <=> Endpoint!SpeechBegan(a - 1)
    <3>1. n + 1 \in 0..n + 1 /\ a - 1 \in 0..n
      OBVIOUS
    <3>2. (\A k \in a..n + 1 : ~Endpoint!IsSpeech(k)') <=> a..n + 1 \subseteq Q
      BY <1>9, <1>10
    <3> QED
      BY <1>3, <1>7, <3>1, <3>2
  <2> QED
    BY <1>5, <1>6, <2>1 DEF Endpoint!SilenceTrails
<1>13. \A a, b \in 0..n : a <= b /\ Endpoint!SpeechBegan(a) => Endpoint!SpeechBegan(b)
  BY SMTT(30) DEF Endpoint!SpeechBegan
<1>14. n + 1 \in K <=> sc >= asked.threshold
  BY <1>3, <1>9
<1>15. ASSUME state = "WaitingForSpeech"
       PROVE  /\ ~Endpoint!SilenceTrails(n + 1)'
              /\ Endpoint!SpeechBegan(n + 1)' <=> sc >= asked.threshold /\ onset + d >= asked.onset
  <2>1. ~Endpoint!SpeechBegan(n)
    BY <1>4, <1>15 DEF WaitsForSpeech
  <2>2. PICK i \in 0..n : /\ \A k \in i + 1..n : Endpoint!IsSpeech(k)
                          /\ i = 0 \/ ~Endpoint!IsSpeech(i)
                          /\ onset = t[n] - t[i]
    BY <1>1, <1>4, <1>15 DEF WaitsForSpeech
  <2>3. ~Endpoint!SilenceTrails(n + 1)'
    <3>1. \A a \in 1..n + 1 : a - 1 \in 0..n /\ a - 1 <= n
      OBVIOUS
    <3> QED
      BY <1>12, <1>13, <2>1, <3>1
  <2>4. CASE ~(sc >= asked.threshold)
    <3>1. \A a \in 1..n + 1 : n + 1 \in a..n + 1
      OBVIOUS
    <3> QED
      BY <1>11, <1>14, <2>1, <2>3, <2>4, <3>1
  <2>5. CASE sc >= asked.threshold
    <3>1. i \in 0..n + 1 /\ i + 1..n + 1 \subseteq K /\ (i = 0 \/ i \notin K)
      <4>1. ASSUME NEW k \in i + 1..n + 1 PROVE k \in K
        <5>1. CASE k = n + 1
          BY <1>14, <2>5, <5>1
        <5>2. CASE k # n + 1
          <6>1. k \in i + 1..n /\ k \in 1..n /\ k \in 1..n + 1
            BY <5>2
          <6> QED
            BY <1>3, <1>9, <2>2, <6>1
        <5> QED
          BY <5>1, <5>2
      <4>2. i = 0 \/ i \notin K
        BY <1>3, <1>9, <2>2
      <4> QED
        BY <4>1, <4>2
    <3>2. (\E a \in 1..n + 1 : a..n + 1 \subseteq K /\ u[n + 1] - u[a - 1] >= o) <=> u[n + 1] - u[i] >= o
      <4>1. EndsInRun(n + 1, u, K, o) <=> u[n + 1] - u[i] >= o
        <5>1. PICK M \in Nat : n + 1 = M
          OBVIOUS
        <5>2. /\ u \in [0..M -> Nat] /\ \A a, b \in 0..M : a <= b => u[a] <= u[b]
              /\ i \in 0..M /\ i + 1..M \subseteq K /\ (i = 0 \/ i \notin K)
          BY <1>2, <3>1, <5>1
        <5>3. EndsInRun(M, u, K, o) <=> u[M] - u[i] >= o
          BY <5>2, LongestRun
        <5> QED
          BY <5>1, <5>3
      <4> QED
        BY <4>1 DEF EndsInRun
    <3>3. u[n + 1] - u[i] = onset + d
      <4>1. u[i] = t[i] /\ t[i] \in Nat /\ t[n] \in Nat
        BY <1>2
      <4> QED
        BY <1>2, <2>2, <4>1
    <3> QED
      BY <1>6, <1>11, <2>1, <2>3, <2>5, <3>2, <3>3
  <2> QED
    BY <2>4, <2>5
<1>16. ASSUME state = "InSpeech"
       PROVE  /\ Endpoint!SpeechBegan(n + 1)'
              /\ Endpoint!SilenceTrails(n + 1)'
                 <=> ~(sc >= asked.threshold) /\ silence + d >= asked.silence
  <2>1. PICK i \in 1..n : /\ \A k \in i + 1..n : ~Endpoint!IsSpeech(k)
                          /\ Endpoint!IsSpeech(i) /\ Endpoint!SpeechBegan(i)
                          /\ silence = t[n] - t[i]
    BY <1>1, <1>4, <1>16 DEF HearsSpeech
  <2>2. Endpoint!SpeechBegan(n + 1)'
    BY <1>11, <1>13, <2>1
  <2>3. CASE sc >= asked.threshold
    <3>1. \A a \in 1..n + 1 : n + 1 \in a..n + 1
      OBVIOUS
    <3> QED
      BY <1>10, <1>12, <1>14, <2>2, <2>3, <3>1
  <2>4. CASE ~(sc >= asked.threshold)
    <3>1. i \in 0..n + 1 /\ i + 1..n + 1 \subseteq Q /\ i \notin Q
      <4>1. ASSUME NEW k \in i + 1..n + 1 PROVE k \in Q
        <5>1. CASE k = n + 1
          BY <1>10, <1>14, <2>4, <5>1
        <5>2. CASE k # n + 1
          <6>1. k \in i + 1..n /\ k \in 1..n /\ k \in 1..n + 1
            BY <5>2
          <6> QED
            BY <1>3, <1>9, <1>10, <2>1, <6>1
        <5> QED
          BY <5>1, <5>2
      <4>2. i \notin Q
        BY <1>3, <1>9, <1>10, <2>1
      <4> QED
        BY <4>1, <4>2
    <3>2. (\E a \in 1..n + 1 : a..n + 1 \subseteq Q /\ u[n + 1] - u[a - 1] >= q) <=> u[n + 1] - u[i] >= q
      <4>1. EndsInRun(n + 1, u, Q, q) <=> u[n + 1] - u[i] >= q
        <5>1. PICK M \in Nat : n + 1 = M
          OBVIOUS
        <5>2. /\ u \in [0..M -> Nat] /\ \A a, b \in 0..M : a <= b => u[a] <= u[b]
              /\ i \in 0..M /\ i + 1..M \subseteq Q /\ (i = 0 \/ i \notin Q)
          BY <1>2, <3>1, <5>1
        <5>3. EndsInRun(M, u, Q, q) <=> u[M] - u[i] >= q
          BY <5>2, LongestRun
        <5> QED
          BY <5>1, <5>3
      <4> QED
        BY <4>1 DEF EndsInRun
    <3>3. u[n + 1] - u[i] = silence + d
      <4>1. u[i] = t[i] /\ t[i] \in Nat /\ t[n] \in Nat
        BY <1>2
      <4> QED
        BY <1>2, <2>1, <4>1
    <3>4. ASSUME NEW a \in 1..n + 1, a..n + 1 \subseteq Q
          PROVE  Endpoint!SpeechBegan(a - 1)
      <4>1. i < a /\ a - 1 \in 0..n /\ i \in 0..n /\ i <= a - 1
        BY <3>1, <3>4
      <4> QED
        BY <1>13, <2>1, <4>1
    <3> QED
      BY <1>6, <1>12, <2>2, <2>4, <3>2, <3>3, <3>4
  <2> QED
    BY <2>3, <2>4
<1> QED
  BY <1>1, <1>8, <1>15, <1>16

\* A frame leaves a running turn with counters that follow its frames, or ends
\* it with the reason that the reference has for its frames and for no fewer.
LEMMA ObserveFollows ==
    ASSUME Endpoint!TypeOK, Endpoint!TypeOK', Endpoint!TurnKeepsItsRevision, CountersFollowFrames,
           Endpoint!ReasonMatchesHistory, NEW sc \in Endpoint!Scores, NEW d \in FrameLengths,
           Endpoint!Observe(sc, d)
    PROVE  CountersFollowFrames' /\ Endpoint!ReasonMatchesHistory'
<1>1. PICK n \in Nat : Len(eheard) = n
  BY DEF Endpoint!TypeOK
<1>2. PICK t \in [0..n -> Nat], u \in [0..n + 1 -> Nat] : Endpoint!Total = t /\ Endpoint!Total' = u
  BY <1>1, HeardStep
<1>3. d \in Nat /\ Len(eheard') = n + 1 /\ u[n + 1] = t[n] + d /\ \A j \in 0..n : u[j] = t[j]
  BY <1>1, <1>2, HeardStep
<1>4. /\ \A k \in 1..n : Endpoint!IsSpeech(k)' <=> Endpoint!IsSpeech(k)
      /\ Endpoint!IsSpeech(n + 1)' <=> sc >= asked.threshold
      /\ \A m \in 0..n : Endpoint!SpeechBegan(m)' <=> Endpoint!SpeechBegan(m)
      /\ \A m \in 1..n : Endpoint!ReasonAt(m)' = Endpoint!ReasonAt(m)
  BY <1>1, HeardStep
<1>5. /\ Endpoint!Active /\ eturn = asked /\ stop = "none" /\ UNCHANGED <<asked, preRoll>>
      /\ elapsed' \in Nat
  BY <1>3 DEF Endpoint!Observe, Endpoint!TurnKeepsItsRevision, CountersFollowFrames, Endpoint!TypeOK
<1>6. /\ elapsed' = preRoll + Endpoint!LengthOf(1, n + 1)'
      /\ elapsed' = preRoll + u[n + 1]
      /\ state = "WaitingForSpeech" =>
             /\ ~Endpoint!SilenceTrails(n + 1)'
             /\ Endpoint!SpeechBegan(n + 1)' <=> sc >= asked.threshold /\ onset + d >= asked.onset
      /\ state = "InSpeech" =>
             /\ Endpoint!SpeechBegan(n + 1)'
             /\ Endpoint!SilenceTrails(n + 1)' <=> ~(sc >= asked.threshold) /\ silence + d >= asked.silence
  BY <1>1, <1>2, VerdictStep
<1>7. \A m \in 1..n : Endpoint!ReasonAt(m)' = "none"
  BY <1>1, <1>4, <1>5 DEF Endpoint!ReasonMatchesHistory
<1>8. Endpoint!ReasonAt(n + 1)'
      = IF elapsed' >= asked.maxTurn THEN "timeout"
        ELSE IF Endpoint!SilenceTrails(n + 1)' THEN "endpointed"
        ELSE IF ~Endpoint!SpeechBegan(n + 1)' /\ elapsed' >= asked.noSpeech THEN "no_speech"
        ELSE "none"
  <2>1. preRoll' + Endpoint!LengthOf(1, n + 1)' = elapsed' /\ asked' = asked
    BY <1>5, <1>6
  <2> QED
    BY <2>1 DEF Endpoint!ReasonAt
<1>9. ASSUME state' = "Completed", stop' = Endpoint!ReasonAt(n + 1)',
             stop' \in {"timeout", "endpointed", "no_speech"}
      PROVE  CountersFollowFrames' /\ Endpoint!ReasonMatchesHistory'
  <2>1. CountersFollowFrames'
    BY <1>9 DEF CountersFollowFrames, Endpoint!Active
  <2>2. Endpoint!ReasonAt(Len(eheard))' = Endpoint!ReasonAt(n + 1)'
    BY <1>3 DEF Endpoint!ReasonAt, Endpoint!LengthOf, Endpoint!SilenceTrails, Endpoint!SpeechBegan
  <2>3. \A m \in 1..(Len(eheard') - 1) : Endpoint!ReasonAt(m)' = "none"
    BY <1>3, <1>7
  <2> QED
    BY <1>9, <2>1, <2>2, <2>3 DEF Endpoint!ReasonMatchesHistory, Endpoint!Active
<1>10. ASSUME (state' = "WaitingForSpeech" /\ WaitsForSpeech') \/ (state' = "InSpeech" /\ HearsSpeech'),
              stop' = stop, Endpoint!ReasonAt(n + 1)' = "none"
       PROVE  CountersFollowFrames' /\ Endpoint!ReasonMatchesHistory'
  <2>1. elapsed' = preRoll' + Endpoint!Total'[Len(eheard')]
    BY <1>2, <1>3, <1>5, <1>6
  <2>2. \A m \in 1..Len(eheard') : Endpoint!ReasonAt(m)' = "none"
    <3> TAKE m \in 1..Len(eheard')
    <3>1. m = n + 1 \/ m \in 1..n
      BY <1>3
    <3> QED
      BY <1>7, <1>10, <3>1
  <2>3. CountersFollowFrames'
    BY <1>5, <1>10, <2>1 DEF CountersFollowFrames
  <2>4. Endpoint!ReasonMatchesHistory'
    BY <1>5, <1>10, <2>2 DEF Endpoint!ReasonMatchesHistory
  <2> QED
    BY <2>3, <2>4
<1>11. ASSUME Endpoint!IsSpeech(n + 1)', Endpoint!SpeechBegan(n + 1)', silence' = 0
       PROVE  HearsSpeech'
  <2>1. /\ n + 1 \in 1..Len(eheard') /\ \A k \in n + 1 + 1..Len(eheard') : FALSE
        /\ u[Len(eheard')] - u[n + 1] = 0
    BY <1>3
  <2> QED
    BY <1>2, <1>11, <2>1 DEF HearsSpeech
<1>12. CASE elapsed' >= eturn.maxTurn
  BY <1>5, <1>8, <1>9, <1>12 DEF Endpoint!Observe, Endpoint!complete, Endpoint!finish
<1>13. CASE ~(elapsed' >= eturn.maxTurn) /\ sc >= eturn.threshold /\ state = "WaitingForSpeech"
  <2>1. Endpoint!ObserveSpeech(d)
    BY <1>13 DEF Endpoint!Observe
  <2>2. onset' = onset + d /\ (Endpoint!SpeechBegan(n + 1)' <=> onset' >= asked.onset)
    BY <1>5, <1>6, <1>13, <2>1 DEF Endpoint!ObserveSpeech
  <2>3. CASE onset' >= asked.onset
    <3>1. state' = "InSpeech" /\ stop' = stop /\ silence' = 0
      BY <1>5, <1>13, <2>1, <2>3 DEF Endpoint!ObserveSpeech, Endpoint!Continue
    <3>2. Endpoint!ReasonAt(n + 1)' = "none"
      BY <1>5, <1>6, <1>8, <1>13, <2>2, <2>3
    <3> QED
      BY <1>4, <1>5, <1>10, <1>11, <1>13, <2>2, <2>3, <3>1, <3>2
  <2>4. CASE ~(onset' >= asked.onset) /\ elapsed' >= asked.noSpeech
    <3>1. state' = "Completed" /\ stop' = "no_speech"
      BY <1>5, <1>13, <2>1, <2>4 DEF Endpoint!ObserveSpeech, Endpoint!complete, Endpoint!finish
    <3>2. Endpoint!ReasonAt(n + 1)' = "no_speech"
      BY <1>5, <1>6, <1>8, <1>13, <2>2, <2>4
    <3> QED
      BY <1>9, <3>1, <3>2
  <2>5. CASE ~(onset' >= asked.onset) /\ ~(elapsed' >= asked.noSpeech)
    <3>1. state' = "WaitingForSpeech" /\ stop' = stop
      BY <1>5, <1>13, <2>1, <2>5 DEF Endpoint!ObserveSpeech, Endpoint!Continue
    <3>2. Endpoint!ReasonAt(n + 1)' = "none"
      BY <1>5, <1>6, <1>8, <1>13, <2>2, <2>5
    <3>3. PICK i \in 0..n : /\ \A k \in i + 1..n : Endpoint!IsSpeech(k)
                            /\ i = 0 \/ ~Endpoint!IsSpeech(i)
                            /\ onset = t[n] - t[i]
      BY <1>1, <1>2, <1>13 DEF CountersFollowFrames, WaitsForSpeech
    <3>4. WaitsForSpeech'
      <4>1. ~Endpoint!SpeechBegan(Len(eheard))'
        <5>1. ~Endpoint!SpeechBegan(n + 1)'
          BY <2>2, <2>5
        <5> QED
          BY <1>3, <5>1 DEF Endpoint!SpeechBegan
      <4>2. \A k \in i + 1..Len(eheard') : Endpoint!IsSpeech(k)'
        <5> TAKE k \in i + 1..Len(eheard')
        <5>1. k = n + 1 \/ (k \in i + 1..n /\ k \in 1..n)
          BY <1>3
        <5> QED
          BY <1>4, <1>5, <1>13, <3>3, <5>1
      <4>3. i \in 0..Len(eheard') /\ (i = 0 \/ ~Endpoint!IsSpeech(i)')
        BY <1>3, <1>4, <3>3
      <4>4. onset' = u[Len(eheard')] - u[i]
        <5>1. u[i] = t[i] /\ t[i] \in Nat /\ t[n] \in Nat
          BY <1>3
        <5> QED
          BY <1>3, <2>2, <3>3, <5>1
      <4> QED
        BY <1>2, <4>1, <4>2, <4>3, <4>4 DEF WaitsForSpeech
    <3> QED
      BY <1>10, <3>1, <3>2, <3>4
  <2> QED
    BY <2>3, <2>4, <2>5
<1>14. CASE ~(elapsed' >= eturn.maxTurn) /\ ~(sc >= eturn.threshold) /\ state = "WaitingForSpeech"
  <2>1. Endpoint!ObserveSilence(d)
    BY <1>14 DEF Endpoint!Observe
  <2>2. ~Endpoint!SpeechBegan(n + 1)' /\ ~Endpoint!SilenceTrails(n + 1)'
    BY <1>5, <1>6, <1>14
  <2>3. CASE elapsed' >= asked.noSpeech
    <3>1. state' = "Completed" /\ stop' = "no_speech"
      BY <1>5, <1>14, <2>1, <2>3 DEF Endpoint!ObserveSilence, Endpoint!complete, Endpoint!finish
    <3> QED
      BY <1>5, <1>8, <1>9, <1>14, <2>2, <2>3, <3>1
  <2>4. CASE ~(elapsed' >= asked.noSpeech)
    <3>1. state' = "WaitingForSpeech" /\ stop' = stop /\ onset' = 0
      BY <1>5, <1>14, <2>1, <2>4 DEF Endpoint!ObserveSilence, Endpoint!Continue
    <3>2. WaitsForSpeech'
      <4>1. ~Endpoint!SpeechBegan(Len(eheard))'
        BY <1>3, <2>2 DEF Endpoint!SpeechBegan
      <4>2. /\ n + 1 \in 0..Len(eheard') /\ \A k \in n + 1 + 1..Len(eheard') : FALSE
            /\ u[Len(eheard')] - u[n + 1] = 0
        BY <1>3
      <4>3. ~Endpoint!IsSpeech(n + 1)'
        BY <1>4, <1>5, <1>14
      <4> QED
        BY <1>2, <3>1, <4>1, <4>2, <4>3 DEF WaitsForSpeech
    <3>3. Endpoint!ReasonAt(n + 1)' = "none"
      BY <1>5, <1>8, <1>14, <2>2, <2>4
    <3> QED
      BY <1>10, <3>1, <3>2, <3>3
  <2> QED
    BY <2>3, <2>4
<1>15. CASE ~(elapsed' >= eturn.maxTurn) /\ sc >= eturn.threshold /\ state = "InSpeech"
  <2>1. state' = "InSpeech" /\ stop' = stop /\ silence' = 0
    BY <1>15 DEF Endpoint!Observe, Endpoint!ObserveSpeech, Endpoint!Continue
  <2>2. Endpoint!ReasonAt(n + 1)' = "none"
    BY <1>5, <1>6, <1>8, <1>15
  <2>3. HearsSpeech'
    BY <1>4, <1>5, <1>6, <1>11, <1>15, <2>1
  <2> QED
    BY <1>10, <2>1, <2>2, <2>3
<1>16. CASE ~(elapsed' >= eturn.maxTurn) /\ ~(sc >= eturn.threshold) /\ state = "InSpeech"
  <2>1. Endpoint!ObserveSilence(d)
    BY <1>16 DEF Endpoint!Observe
  <2>2. silence' = silence + d /\ (Endpoint!SilenceTrails(n + 1)' <=> silence' >= asked.silence)
    BY <1>5, <1>6, <1>16, <2>1 DEF Endpoint!ObserveSilence
  <2>3. CASE silence' >= asked.silence
    <3>1. state' = "Completed" /\ stop' = "endpointed"
      BY <1>5, <1>16, <2>1, <2>3 DEF Endpoint!ObserveSilence, Endpoint!complete, Endpoint!finish
    <3> QED
      BY <1>5, <1>8, <1>9, <1>16, <2>2, <2>3, <3>1
  <2>4. CASE ~(silence' >= asked.silence)
    <3>1. state' = "InSpeech" /\ stop' = stop
      BY <1>5, <1>16, <2>1, <2>4 DEF Endpoint!ObserveSilence, Endpoint!Continue
    <3>2. PICK i \in 1..n : /\ \A k \in i + 1..n : ~Endpoint!IsSpeech(k)
                            /\ Endpoint!IsSpeech(i) /\ Endpoint!SpeechBegan(i)
                            /\ silence = t[n] - t[i]
      BY <1>1, <1>2, <1>16 DEF CountersFollowFrames, HearsSpeech
    <3>3. HearsSpeech'
      <4>1. \A k \in i + 1..Len(eheard') : ~Endpoint!IsSpeech(k)'
        <5> TAKE k \in i + 1..Len(eheard')
        <5>1. k = n + 1 \/ (k \in i + 1..n /\ k \in 1..n)
          BY <1>3
        <5> QED
          BY <1>4, <1>5, <1>16, <3>2, <5>1
      <4>2. i \in 1..Len(eheard') /\ Endpoint!IsSpeech(i)' /\ Endpoint!SpeechBegan(i)'
        BY <1>3, <1>4, <3>2
      <4>3. silence' = u[Len(eheard')] - u[i]
        <5>1. u[i] = t[i] /\ t[i] \in Nat /\ t[n] \in Nat
          BY <1>3
        <5> QED
          BY <1>3, <2>2, <3>2, <5>1
      <4> QED
        BY <1>2, <4>1, <4>2, <4>3 DEF HearsSpeech
    <3>4. Endpoint!ReasonAt(n + 1)' = "none"
      BY <1>5, <1>6, <1>8, <1>16, <2>2, <2>4
    <3> QED
      BY <1>10, <3>1, <3>3, <3>4
  <2> QED
    BY <2>3, <2>4
<1> QED
  BY <1>5, <1>12, <1>13, <1>14, <1>15, <1>16 DEF Endpoint!Active

HistoryIInv == CountersFollowFrames /\ Endpoint!ReasonMatchesHistory

\* The reason a turn ends with is the one that its frames, taken together, give
\* it; as long as they give none it runs on.  The counters tell no more of the
\* frames than the run they end in, and that is enough.
THEOREM ReasonSafe == Endpoint!Spec => []ReasonMatchesHistory
<1>1. Endpoint!Init => HistoryIInv
  <2> SUFFICES ASSUME Endpoint!Init PROVE HistoryIInv
    OBVIOUS
  <2>1. stop = "none" /\ state = "Idle" /\ Len(eheard) = 0
    BY DEF Endpoint!Init
  <2> QED
    BY <2>1 DEF HistoryIInv, Endpoint!Active, CountersFollowFrames, Endpoint!ReasonMatchesHistory
<1>2. Endpoint!TypeOK /\ Endpoint!TypeOK' /\ Endpoint!ControllerInvariant /\ HistoryIInv
      /\ [Endpoint!Next]_Endpoint!vars => HistoryIInv'
  <2> SUFFICES ASSUME Endpoint!TypeOK, Endpoint!TypeOK', Endpoint!ControllerInvariant,
                      HistoryIInv, [Endpoint!Next]_Endpoint!vars
               PROVE  HistoryIInv'
    OBVIOUS
  <2>0. ASSUME UNCHANGED <<eheard, asked, preRoll>>
        PROVE  /\ Endpoint!Total' = Endpoint!Total
               /\ \A m : Endpoint!IsSpeech(m)' <=> Endpoint!IsSpeech(m)
               /\ \A m : Endpoint!SpeechBegan(m)' <=> Endpoint!SpeechBegan(m)
               /\ \A m : Endpoint!ReasonAt(m)' = Endpoint!ReasonAt(m)
    BY <2>0 DEF Endpoint!Total, Endpoint!IsSpeech, Endpoint!SpeechBegan, Endpoint!LengthOf,
       Endpoint!SilenceTrails, Endpoint!ReasonAt
  <2>10. PICK n \in Nat : Len(eheard) = n
    BY DEF Endpoint!TypeOK
  <2>11. /\ \A m : Len(eheard) = m => (Endpoint!SpeechBegan(Len(eheard)) <=> Endpoint!SpeechBegan(m))
         /\ \A m : Len(eheard') = m => (Endpoint!SpeechBegan(Len(eheard))' <=> Endpoint!SpeechBegan(m)')
         /\ \A m : Len(eheard) = m => Endpoint!ReasonAt(Len(eheard)) = Endpoint!ReasonAt(m)
         /\ \A m : Len(eheard') = m => Endpoint!ReasonAt(Len(eheard))' = Endpoint!ReasonAt(m)'
    OBVIOUS
  <2>1. ASSUME UNCHANGED <<onset, silence, eheard, asked, preRoll>>
        PROVE  /\ WaitsForSpeech => WaitsForSpeech'
               /\ HearsSpeech => HearsSpeech'
               /\ Endpoint!Total'[Len(eheard')] = Endpoint!Total[Len(eheard)]
    BY <2>0, <2>1, <2>10, <2>11 DEF WaitsForSpeech, HearsSpeech
  <2>2. ASSUME UNCHANGED <<state, stop, elapsed, onset, silence, eheard, asked, preRoll>>
        PROVE  HistoryIInv'
    <3>1. CountersFollowFrames'
      BY <2>1, <2>2 DEF HistoryIInv, CountersFollowFrames, Endpoint!Active
    <3>2. Endpoint!ReasonMatchesHistory'
      BY <2>0, <2>2, <2>10, <2>11 DEF HistoryIInv, Endpoint!ReasonMatchesHistory, Endpoint!Active
    <3> QED
      BY <3>1, <3>2 DEF HistoryIInv
  <2>3. ASSUME UNCHANGED <<elapsed, onset, silence, eheard, asked, preRoll>>,
               Endpoint!Active, state' = "Completed", stop' \in {"eof", "cancelled"}
        PROVE  HistoryIInv'
    <3>1. CountersFollowFrames'
      BY <2>3 DEF CountersFollowFrames, Endpoint!Active
    <3>2. Endpoint!ReasonMatchesHistory'
      BY <2>0, <2>3, <2>10, <2>11 DEF HistoryIInv, Endpoint!ReasonMatchesHistory, Endpoint!Active
    <3> QED
      BY <3>1, <3>2 DEF HistoryIInv
  <2>4. ASSUME NEW c \in Candidates, Endpoint!StageConfig(c) PROVE HistoryIInv'
    BY <2>2, <2>4 DEF Endpoint!StageConfig, Endpoint!StageValidatedConfig
  <2>5. ASSUME NEW p \in TriggerPreRolls, Endpoint!Start(p) PROVE HistoryIInv'
    <3>1. /\ state' = "WaitingForSpeech" /\ stop' = "none" /\ elapsed' = p /\ preRoll' = p
          /\ onset' = 0 /\ Len(eheard') = 0
      BY <2>5 DEF Endpoint!Start
    <3>2. (Endpoint!TypeOK => Totals(Endpoint!Total, eheard))'
      BY TotalExists, PTL
    <3>3. Endpoint!Total'[0] = 0
      BY <3>2 DEF Totals
    <3>4. p \in Nat
      BY EndpointAssumption
    <3>5. WaitsForSpeech'
      <4>1. ~Endpoint!SpeechBegan(Len(eheard))'
        BY <3>1 DEF Endpoint!SpeechBegan
      <4>2. /\ 0 \in 0..Len(eheard') /\ \A k \in 0 + 1..Len(eheard') : FALSE
            /\ onset' = Endpoint!Total'[Len(eheard')] - Endpoint!Total'[0]
        BY <3>1, <3>3
      <4> QED
        BY <4>1, <4>2 DEF WaitsForSpeech
    <3>6. CountersFollowFrames'
      BY <3>1, <3>3, <3>4, <3>5 DEF CountersFollowFrames
    <3> QED
      BY <3>1, <3>6 DEF HistoryIInv, Endpoint!ReasonMatchesHistory
  <2>6. ASSUME NEW sc \in Endpoint!Scores, NEW d \in FrameLengths, Endpoint!Observe(sc, d)
        PROVE  HistoryIInv'
    BY <2>6, ObserveFollows DEF HistoryIInv, Endpoint!ControllerInvariant
  <2>7. CASE Endpoint!EOF
    BY <2>3, <2>7 DEF Endpoint!EOF, Endpoint!complete, Endpoint!finish
  <2>8. CASE Endpoint!Cancel
    <3>1. CASE Endpoint!Active
      BY <2>3, <2>8, <3>1 DEF Endpoint!Cancel, Endpoint!finish
    <3>2. CASE ~Endpoint!Active
      BY <2>2, <2>8, <3>2 DEF Endpoint!Cancel, Endpoint!finish
    <3> QED
      BY <3>1, <3>2
  <2>9. CASE UNCHANGED Endpoint!vars
    BY <2>2, <2>9 DEF Endpoint!vars, Endpoint!code, Endpoint!history
  <2> QED
    BY <2>4, <2>5, <2>6, <2>7, <2>8, <2>9 DEF Endpoint!Next, Endpoint!ObserveFrame
<1>3. HistoryIInv => ReasonMatchesHistory
  BY DEF HistoryIInv, ReasonMatchesHistory
<1>4. ControllerInvariant => Endpoint!ControllerInvariant /\ Endpoint!TypeOK
  BY DEF ControllerInvariant, Endpoint!ControllerInvariant
<1> QED
  BY <1>1, <1>2, <1>3, <1>4, ControllerSafe, PTL DEF Endpoint!Spec

-----------------------------------------------------------------------------
(* The ring.                                                               *)

\* A ring of n samples that has the latest of the first l of w.
IsWindow(r, n, w, l) ==
    /\ r \in [samples : [0..n - 1 -> Nat], start : Nat, length : 0..n]
    /\ n = 0 \/ r.start < n
    /\ r.length <= l
    /\ \A i \in 0..r.length - 1 : r.samples[(r.start + i) % n] = w[l - r.length + i + 1]

\* Indices go around once.
LEMMA Around ==
    ASSUME NEW n \in Nat \ {0}, NEW i \in Nat, i < n + n
    PROVE  i % n = IF i < n THEN i ELSE i - n
<1>1. CASE i < n
  BY <1>1
<1>2. CASE i >= n
  <2>1. PICK j \in 0..n - 1 : i = j + n
    BY <1>2
  <2>2. (j + n) % n = j
    BY <2>1
  <2> QED
    BY <1>2, <2>1, <2>2
<1> QED
  BY <1>1, <1>2

\* Indices are where they are.
LEMMA AtItself ==
    ASSUME NEW n \in Nat, NEW i \in 0..n - 1
    PROVE  (0 + i) % n = i
  OBVIOUS

\* Sums of indices do.
LEMMA AroundFrom ==
    ASSUME NEW n \in Nat \ {0}, NEW s \in 0..n - 1, NEW i \in 0..n
    PROVE  (s + i) % n = IF s + i < n THEN s + i ELSE s + i - n
<1>1. PICK p \in Nat : s + i = p
  OBVIOUS
<1>2. p < n + n
  BY <1>1
<1>3. p % n = IF p < n THEN p ELSE p - n
  BY <1>2, Around
<1> QED
  BY <1>1, <1>3

\* A ring's capacity is the size of its array.
LEMMA CapacityIs ==
    ASSUME NEW n \in Nat, NEW r, DOMAIN r.samples = 0..n - 1
    PROVE  Capacity(r) = n
<1>1. Cardinality(0..n - 1) = n
  BY FS_Interval
<1> QED
  BY <1>1 DEF Capacity

\* A sample that is written is the latest, whether the ring was full or not.
LEMMA WriteSampleWindow ==
    ASSUME NEW n \in Nat \ {0}, NEW w \in Seq(Nat), NEW l \in Nat, l + 1 <= Len(w), NEW r, IsWindow(r, n, w, l)
    PROVE  /\ IsWindow(WriteSample(r, w[l + 1]), n, w, l + 1)
           /\ WriteSample(r, w[l + 1]).length = Smaller(r.length + 1, n)
<1>1. PICK s \in 0..n - 1 : r.start = s
  BY DEF IsWindow
<1>2. PICK k \in 0..n : r.length = k
  BY DEF IsWindow
<1>3. PICK arr \in [0..n - 1 -> Nat] : r.samples = arr
  BY DEF IsWindow
<1>4. PICK x \in Nat : w[l + 1] = x
  OBVIOUS
<1>5. k <= l /\ \A i \in 0..k - 1 : arr[(s + i) % n] = w[l - k + i + 1]
  BY <1>1, <1>2, <1>3 DEF IsWindow
<1>6. \A i \in 0..n : (s + i) % n = IF s + i < n THEN s + i ELSE s + i - n
  BY AroundFrom
<1>7. Capacity(r) = n
  BY <1>3, CapacityIs
<1>8. PICK a : (s + k) % n = a
  OBVIOUS
<1>9. a = IF s + k < n THEN s + k ELSE s + k - n
  BY <1>6, <1>8
<1>10. PICK m : [arr EXCEPT ![a] = x] = m
  OBVIOUS
<1>11. a \in 0..n - 1
  BY <1>9
<1>12. m \in [0..n - 1 -> Nat] /\ m[a] = x /\ \A i \in 0..n - 1 : i # a => m[i] = arr[i]
  BY <1>10, <1>11
<1>13. PICK t \in Nat : l + 1 = t
  OBVIOUS
<1>15. CASE k = n
  <2>1. WriteSample(r, x) = [samples |-> m, start |-> (s + 1) % n, length |-> n]
    BY <1>1, <1>2, <1>3, <1>7, <1>8, <1>10, <1>15 DEF WriteSample
  <2>2. PICK b : (s + 1) % n = b
    OBVIOUS
  <2>3. b = IF s + 1 < n THEN s + 1 ELSE 0
    <3>1. b = IF s + 1 < n THEN s + 1 ELSE s + 1 - n
      BY <1>6, <2>2
    <3> QED
      BY <3>1
  <2>4. b \in 0..n - 1 /\ a = s
    BY <1>9, <1>15, <2>3
  <2>5. ASSUME NEW i \in 0..n - 1 PROVE m[(b + i) % n] = w[t - n + i + 1]
    <3>1. (b + i) % n = IF b + i < n THEN b + i ELSE b + i - n
      BY <2>4, AroundFrom
    <3>2. CASE i = n - 1
      <4>1. (b + i) % n = a
        BY <2>3, <2>4, <3>1, <3>2
      <4>2. t - n + i + 1 = l + 1
        BY <1>13, <3>2
      <4> QED
        BY <1>4, <1>12, <4>1, <4>2
    <3>3. CASE i < n - 1
      <4>1. i + 1 \in 0..k - 1
        BY <1>15, <3>3
      <4>5. PICK j : i + 1 = j
        OBVIOUS
      <4>9. j \in 1..n - 1
        BY <3>3, <4>5
      <4>2. (s + j) % n = IF s + j < n THEN s + j ELSE s + j - n
        <5>1. j \in 0..n
          BY <4>9
        <5> QED
          BY <5>1, AroundFrom
      <4>10. PICK q : (b + i) % n = q
        OBVIOUS
      <4>11. q = IF b + i < n THEN b + i ELSE b + i - n
        BY <3>1, <4>10
      <4>12. q = IF s + j < n THEN s + j ELSE s + j - n
        BY <2>3, <4>5, <4>9, <4>11
      <4>3. (b + i) % n = (s + j) % n
        BY <4>2, <4>10, <4>12
      <4>4. q # a /\ q \in 0..n - 1
        BY <2>4, <4>9, <4>12
      <4>6. arr[(s + j) % n] = w[l - n + j + 1]
        BY <1>5, <1>15, <4>1, <4>5
      <4>7. l - n + j + 1 = t - n + i + 1
        BY <1>13, <4>5, <4>9
      <4>8. m[(b + i) % n] = w[l - n + j + 1]
        BY <1>12, <4>3, <4>4, <4>6, <4>10
      <4> QED
        BY <4>7, <4>8
    <3> QED
      BY <3>2, <3>3
  <2>6. Smaller(k + 1, n) = n
    BY <1>15 DEF Smaller
  <2>7. n <= t
    BY <1>5, <1>13, <1>15
  <2>8. IsWindow([samples |-> m, start |-> b, length |-> n], n, w, t)
    <3>1. PICK u : u = [samples |-> m, start |-> b, length |-> n]
      OBVIOUS
    <3>2. u.samples = m /\ u.start = b /\ u.length = n
      BY <3>1
    <3>3. u \in [samples : [0..n - 1 -> Nat], start : Nat, length : 0..n]
      BY <1>12, <2>4, <3>1, SMTT(30)
    <3>4. b < n /\ n <= t
      BY <2>4, <2>7
    <3>5. \A i \in 0..n - 1 : m[(b + i) % n] = w[t - n + i + 1]
      BY <2>5
    <3>6. IsWindow(u, n, w, t)
      BY <3>2, <3>3, <3>4, <3>5 DEF IsWindow
    <3> QED
      BY <3>1, <3>6
  <2> QED
    BY <1>2, <1>4, <1>13, <2>1, <2>2, <2>6, <2>8
<1>16. CASE k < n
  <2>1. WriteSample(r, x) = [samples |-> m, start |-> s, length |-> k + 1]
    <3>1. k # n
      BY <1>16
    <3> QED
      BY <1>1, <1>2, <1>3, <1>7, <1>8, <1>10, <3>1 DEF WriteSample
  <2>2. ASSUME NEW i \in 0..k PROVE m[(s + i) % n] = w[t - (k + 1) + i + 1]
    <3>1. (s + i) % n = IF s + i < n THEN s + i ELSE s + i - n
      <4>1. i \in 0..n
        OBVIOUS
      <4> QED
        BY <4>1, AroundFrom
    <3>2. CASE i = k
      <4>1. t - (k + 1) + i + 1 = l + 1
        BY <1>13, <3>2
      <4> QED
        BY <1>4, <1>8, <1>12, <3>2, <4>1
    <3>3. CASE i < k
      <4>1. i \in 0..k - 1
        BY <3>3
      <4>5. PICK q : (s + i) % n = q
        OBVIOUS
      <4>6. q = IF s + i < n THEN s + i ELSE s + i - n
        BY <3>1, <4>5
      <4>7. q # a /\ q \in 0..n - 1
        BY <1>9, <1>16, <3>3, <4>6
      <4>2. (s + i) % n # a /\ (s + i) % n \in 0..n - 1
        BY <4>5, <4>7
      <4>3. l - k + i + 1 = t - (k + 1) + i + 1
        BY <1>13
      <4>4. m[(s + i) % n] = w[l - k + i + 1]
        BY <1>5, <1>12, <4>1, <4>2
      <4> QED
        BY <4>3, <4>4
    <3> QED
      BY <3>2, <3>3
  <2>3. Smaller(k + 1, n) = k + 1
    BY <1>16 DEF Smaller
  <2>4. PICK o : k + 1 = o
    OBVIOUS
  <2>5. o \in 0..n /\ 0..o - 1 = 0..k /\ o <= t
    <3>1. o \in Int /\ o = k + 1 /\ k + 1 <= n /\ k + 1 <= l + 1
      BY <1>5, <1>16, <2>4
    <3>2. o <= t
      BY <1>13, <3>1
    <3>3. o \in 0..n /\ o - 1 = k
      BY <3>1
    <3> QED
      BY <3>2, <3>3
  <2>6. IsWindow([samples |-> m, start |-> s, length |-> o], n, w, t)
    <3>1. PICK u : u = [samples |-> m, start |-> s, length |-> o]
      OBVIOUS
    <3>2. u.samples = m /\ u.start = s /\ u.length = o
      BY <3>1
    <3>3. u \in [samples : [0..n - 1 -> Nat], start : Nat, length : 0..n]
      BY <1>12, <2>5, <3>1, SMTT(30)
    <3>4. s < n /\ o <= t
      BY <2>5
    <3>5. \A i \in 0..o - 1 : m[(s + i) % n] = w[t - o + i + 1]
      BY <2>2, <2>4, <2>5
    <3>6. IsWindow(u, n, w, t)
      BY <3>2, <3>3, <3>4, <3>5 DEF IsWindow
    <3> QED
      BY <3>1, <3>6
  <2> QED
    BY <1>2, <1>4, <1>13, <2>1, <2>3, <2>4, <2>6
<1> QED
  BY <1>15, <1>16

\* Rings of n samples.
Rings(n) == [samples : [0..n - 1 -> Nat], start : Nat, length : 0..n]

\* Sequences joined.
LEMMA Joined ==
    ASSUME NEW S, NEW w \in Seq(S), NEW c \in Seq(S)
    PROVE  /\ w \o c \in Seq(S) /\ Len(w \o c) = Len(w) + Len(c)
           /\ \A i \in 1..Len(w) : (w \o c)[i] = w[i]
           /\ \A i \in 1..Len(c) : (w \o c)[Len(w) + i] = c[i]
  OBVIOUS

\* Functions on a range.
LEMMA SequenceIs ==
    ASSUME NEW S, NEW m \in Nat, NEW s \in [1..m -> S]
    PROVE  s \in Seq(S) /\ Len(s) = m
  OBVIOUS

\* Samples that are written one by one are the latest.
LEMMA WriteEachWindow ==
    ASSUME NEW n \in Nat \ {0}, NEW w \in Seq(Nat), NEW chunk \in Seq(Nat), NEW r, IsWindow(r, n, w, Len(w))
    PROVE  /\ IsWindow(WriteEach(r, chunk), n, w \o chunk, Len(w) + Len(chunk))
           /\ WriteEach(r, chunk).length = Smaller(r.length + Len(chunk), n)
<1>1. PICK N \in Nat : Len(chunk) = N
  OBVIOUS
<1> DEFINE S == {u \in Rings(n) : u.start < n}
<1>2. \A u \in S, x \in Nat : WriteSample(u, x) \in S
  <2>1. ASSUME NEW u \in S, NEW x \in Nat PROVE WriteSample(u, x) \in S
    <3>0. u \in Rings(n) /\ u.start < n
      OBVIOUS
    <3>1. Capacity(u) = n
      BY <3>0, CapacityIs DEF Rings
    <3>2. PICK a : (u.start + u.length) % n = a
      OBVIOUS
    <3>3. a \in 0..n - 1 /\ (u.start + 1) % n \in 0..n - 1
      <4>1. PICK s \in 0..n - 1 : u.start = s
        BY <3>0 DEF Rings
      <4>2. PICK k \in 0..n : u.length = k
        BY <3>0 DEF Rings
      <4>3. (s + k) % n = IF s + k < n THEN s + k ELSE s + k - n
        BY AroundFrom
      <4>4. (s + 1) % n = IF s + 1 < n THEN s + 1 ELSE s + 1 - n
        <5>1. 1 \in 0..n
          OBVIOUS
        <5> QED
          BY <5>1, AroundFrom
      <4> QED
        BY <3>2, <4>1, <4>2, <4>3, <4>4
    <3>4. PICK m \in [0..n - 1 -> Nat] : [u.samples EXCEPT ![a] = x] = m
      BY <3>0 DEF Rings
    <3>5. CASE u.length = n
      <4>1. WriteSample(u, x) = [samples |-> m, start |-> (u.start + 1) % n, length |-> n]
        BY <3>1, <3>2, <3>4, <3>5 DEF WriteSample
      <4>2. PICK b \in 0..n - 1 : (u.start + 1) % n = b
        BY <3>3
      <4>3. n \in 0..n
        OBVIOUS
      <4> QED
        BY <4>1, <4>2, <4>3, SMTT(30) DEF Rings
    <3>6. CASE u.length # n
      <4>1. WriteSample(u, x) = [samples |-> m, start |-> u.start, length |-> u.length + 1]
        BY <3>1, <3>2, <3>4, <3>6 DEF WriteSample
      <4>2. PICK k \in 0..n : u.length = k
        BY <3>0 DEF Rings
      <4>3. PICK j \in 0..n : u.length + 1 = j
        BY <3>6, <4>2
      <4>4. PICK s \in Nat : u.start = s /\ s < n
        BY <3>0 DEF Rings
      <4>5. WriteSample(u, x) = [samples |-> m, start |-> s, length |-> j]
        BY <4>1, <4>3, <4>4
      <4> QED
        BY <4>4, <4>5 DEF Rings
    <3> QED
      BY <3>5, <3>6
  <2> QED
    BY <2>1
<1>3. \A i \in 1..N : chunk[i] \in Nat
  BY <1>1
<1>4. PICK by : by = [i \in 1..N |-> [u \in S |-> WriteSample(u, chunk[i])]]
  OBVIOUS
<1>5. by \in [1..N -> [S -> S]] /\ \A i \in 1..N, u \in S : by[i][u] = WriteSample(u, chunk[i])
  <2> HIDE DEF S
  <2> QED
    BY <1>2, <1>3, <1>4
<1>6. r \in S /\ r.length \in 0..n
  BY DEF IsWindow, Rings
<1>7. PICK f : Recursion(f, N, S, r, by)
  <2> HIDE DEF S
  <2> QED
    BY <1>5, <1>6, RecursiveFunction
<1>8. f \in [0..N -> S] /\ f[0] = r /\ \A i \in 1..N : f[i] = by[i][f[i - 1]]
  BY <1>7 DEF Recursion
<1>9. \A i \in 1..N : i - 1 \in 0..N /\ f[i] = WriteSample(f[i - 1], chunk[i])
  <2> HIDE DEF S
  <2> QED
    BY <1>5, <1>8
<1>10. f = [i \in 0..N |-> IF i = 0 THEN r ELSE WriteSample(f[i - 1], chunk[i])]
  <2>1. ASSUME NEW i \in 0..N PROVE f[i] = IF i = 0 THEN r ELSE WriteSample(f[i - 1], chunk[i])
    BY <1>8, <1>9
  <2> HIDE DEF S
  <2> QED
    BY <1>8, <2>1
<1>11. PICK g : g = [i \in 0..N |-> IF i = 0 THEN r ELSE WriteSample(g[i - 1], chunk[i])]
                /\ WriteEach(r, chunk) = g[N]
  <2> HIDE DEF S
  <2> QED
    BY <1>1, <1>10 DEF WriteEach
<1>12. PICK v : w \o chunk = v
  OBVIOUS
<1>13. PICK l \in Nat : Len(w) = l
  OBVIOUS
<1>14. /\ w \o chunk \in Seq(Nat) /\ Len(w \o chunk) = Len(w) + Len(chunk)
       /\ \A i \in 1..Len(w) : (w \o chunk)[i] = w[i]
       /\ \A i \in 1..Len(chunk) : (w \o chunk)[Len(w) + i] = chunk[i]
  BY Joined
<1>15. v \in Seq(Nat) /\ Len(v) = l + N /\ \A i \in 1..l : v[i] = w[i]
  BY <1>1, <1>12, <1>13, <1>14
<1>16. \A i \in 1..N : v[l + i] = chunk[i]
  BY <1>1, <1>12, <1>13, <1>14
<1>17. IsWindow(r, n, v, l)
  <2>1. IsWindow(r, n, w, l)
    BY <1>13
  <2>2. ASSUME NEW i \in 0..r.length - 1 PROVE v[l - r.length + i + 1] = w[l - r.length + i + 1]
    <3>1. PICK k \in 0..n : r.length = k
      BY <1>6
    <3>2. k <= l
      BY <2>1, <3>1 DEF IsWindow
    <3>3. PICK j : l - k + i + 1 = j
      OBVIOUS
    <3>4. j \in 1..l
      BY <3>1, <3>2, <3>3
    <3> QED
      BY <1>15, <3>1, <3>3, <3>4
  <2> QED
    BY <2>1, <2>2 DEF IsWindow
<1>18. PICK k \in 0..n : r.length = k
  BY <1>6
<1> DEFINE T == {i \in 0..N : IsWindow(g[i], n, v, l + i) /\ g[i].length = Smaller(k + i, n)}
<1>19. 0 \in T
  <2>1. g[0] = r
    BY <1>11
  <2>2. Smaller(k + 0, n) = k /\ l + 0 = l
    BY DEF Smaller
  <2> QED
    BY <1>17, <1>18, <2>1, <2>2
<1>20. ASSUME NEW i \in 1..N, i - 1 \in T PROVE i \in T
  <2>1. PICK j \in 0..N : i - 1 = j
    OBVIOUS
  <2>2. IsWindow(g[j], n, v, l + j) /\ g[j].length = Smaller(k + j, n)
    BY <1>20, <2>1
  <2>3. PICK q \in Nat : l + j = q
    OBVIOUS
  <2>4. q + 1 <= Len(v) /\ q + 1 = l + i
    BY <1>15, <2>1, <2>3
  <2>5. g[i] = WriteSample(g[j], chunk[i])
    BY <1>11, <2>1
  <2>6. v[q + 1] = chunk[i]
    BY <1>16, <2>4
  <2>7. /\ IsWindow(WriteSample(g[j], v[q + 1]), n, v, q + 1)
        /\ WriteSample(g[j], v[q + 1]).length = Smaller(g[j].length + 1, n)
    <3>1. IsWindow(g[j], n, v, q)
      BY <2>2, <2>3
    <3>2. q + 1 <= Len(v) /\ v \in Seq(Nat)
      BY <1>15, <2>4
    <3> QED
      BY <3>1, <3>2, WriteSampleWindow
  <2>8. Smaller(Smaller(k + j, n) + 1, n) = Smaller(k + i, n)
    BY <2>1 DEF Smaller
  <2> QED
    BY <2>2, <2>4, <2>5, <2>6, <2>7, <2>8
<1>21. T = 0..N
  <2> DEFINE D == T
  <2> HIDE DEF T
  <2>1. T \in SUBSET (0..N)
    BY DEF T
  <2> QED
    BY <1>19, <1>20, <2>1, Upwards
<1>22. N \in T
  <2>1. N \in 0..N
    OBVIOUS
  <2> HIDE DEF T
  <2> QED
    BY <1>21, <2>1
<1> QED
  BY <1>1, <1>11, <1>12, <1>13, <1>18, <1>22

\* However much is written at a time (Write), what the ring has is the latest.
LEMMA WriteWindow ==
    ASSUME NEW n \in Nat, NEW w \in Seq(Nat), NEW chunk \in Seq(Nat), NEW r, IsWindow(r, n, w, Len(w))
    PROVE  /\ IsWindow(Write(r, chunk), n, w \o chunk, Len(w) + Len(chunk))
           /\ Write(r, chunk).length = Smaller(r.length + Len(chunk), n)
<1>1. PICK N \in Nat : Len(chunk) = N
  OBVIOUS
<1>2. PICK l \in Nat : Len(w) = l
  OBVIOUS
<1>3. PICK v : w \o chunk = v
  OBVIOUS
<1>4. /\ w \o chunk \in Seq(Nat) /\ Len(w \o chunk) = Len(w) + Len(chunk)
      /\ \A i \in 1..Len(w) : (w \o chunk)[i] = w[i]
      /\ \A i \in 1..Len(chunk) : (w \o chunk)[Len(w) + i] = chunk[i]
  BY Joined
<1>5. v \in Seq(Nat) /\ Len(v) = l + N /\ (\A i \in 1..l : v[i] = w[i])
      /\ (\A i \in 1..N : v[l + i] = chunk[i])
  BY <1>1, <1>2, <1>3, <1>4
<1>6. r.samples \in [0..n - 1 -> Nat] /\ r.length \in 0..n /\ r.start \in Nat
  BY DEF IsWindow
<1>7. Capacity(r) = n
  BY <1>6, CapacityIs
<1>8. PICK k \in 0..n : r.length = k
  BY <1>6
<1>9. CASE n = 0
  <2>1. Write(r, chunk) = r
    BY <1>7, <1>9 DEF Write
  <2>2. k = 0 /\ Smaller(k + N, n) = 0
    BY <1>9 DEF Smaller
  <2>3. IsWindow(r, n, v, l + N)
    BY <1>6, <1>8, <1>9, <2>2 DEF IsWindow
  <2> QED
    BY <1>1, <1>2, <1>3, <1>8, <2>1, <2>2, <2>3
<1>10. CASE n # 0 /\ chunk = <<>>
  <2>1. Write(r, chunk) = r
    BY <1>10 DEF Write
  <2>2. w \o chunk = w /\ Len(chunk) = 0
    BY <1>10
  <2>3. Smaller(k + 0, n) = k
    BY DEF Smaller
  <2> QED
    BY <1>2, <1>8, <2>1, <2>2, <2>3
<1>11. CASE n # 0 /\ chunk # <<>> /\ N >= n
  <2>1. PICK m : m = [i \in 0..(n - 1) |-> chunk[N - n + i + 1]]
    OBVIOUS
  <2>2. PICK u : u = [samples |-> m, start |-> 0, length |-> n]
    OBVIOUS
  <2>3. Write(r, chunk) = u
    BY <1>1, <1>7, <1>11, <2>1, <2>2 DEF Write
  <2>4. ASSUME NEW i \in 0..n - 1
        PROVE  m[i] \in Nat /\ m[(0 + i) % n] = v[l + N - n + i + 1]
    <3>1. PICK j : N - n + i + 1 = j
      OBVIOUS
    <3>2. j \in 1..N
      BY <1>11, <3>1
    <3>3. chunk[j] \in Nat /\ v[l + j] = chunk[j]
      BY <1>1, <1>5, <3>2
    <3>4. l + N - n + i + 1 = l + j
      BY <3>1
    <3>5. (0 + i) % n = i
      BY AtItself
    <3>6. m[i] = chunk[j]
      BY <2>1, <3>1
    <3> QED
      BY <3>3, <3>4, <3>5, <3>6
  <2>5. m \in [0..n - 1 -> Nat]
    BY <2>1, <2>4
  <2>6. Smaller(k + N, n) = n /\ n <= l + N
    BY <1>11 DEF Smaller
  <2>7. u \in [samples : [0..n - 1 -> Nat], start : Nat, length : 0..n]
    <3>1. n \in 0..n /\ 0 \in Nat
      OBVIOUS
    <3> QED
      BY <2>2, <2>5, <3>1
  <2>8. u.samples = m /\ u.start = 0 /\ u.length = n
    BY <2>2
  <2>9. \A i \in 0..n - 1 : m[(0 + i) % n] = v[l + N - n + i + 1]
    BY <2>4
  <2>10. IsWindow(u, n, v, l + N)
    <3>1. 0 < n
      BY <1>11
    <3>2. PICK t : l + N = t
      OBVIOUS
    <3> QED
      BY <2>6, <2>7, <2>8, <2>9, <3>1, <3>2 DEF IsWindow
  <2> QED
    BY <1>1, <1>2, <1>3, <1>8, <2>3, <2>6, <2>8, <2>10
<1>12. CASE n # 0 /\ chunk # <<>> /\ N < n
  <2>1. Write(r, chunk) = WriteEach(r, chunk)
    BY <1>1, <1>7, <1>12 DEF Write
  <2> QED
    BY <1>12, <2>1, WriteEachWindow
<1> QED
  BY <1>9, <1>10, <1>11, <1>12

Larger(a, b) == IF a < b THEN b ELSE a

\* It grows without losing any (EnsureDuration).
LEMMA GrownWindow ==
    ASSUME NEW n \in Nat, NEW w, NEW l \in Nat, NEW r, IsWindow(r, n, w, l), NEW p \in Nat
    PROVE  IsWindow(EnsureDuration(r, p), Larger(n, p), w, l) /\ EnsureDuration(r, p).length = r.length
<1>1. r.samples \in [0..n - 1 -> Nat] /\ r.length \in 0..n /\ r.start \in Nat /\ r.length <= l
      /\ \A i \in 0..r.length - 1 : r.samples[(r.start + i) % n] = w[l - r.length + i + 1]
  BY DEF IsWindow
<1>2. Capacity(r) = n
  BY <1>1, CapacityIs
<1>3. CASE p <= n
  <2>1. EnsureDuration(r, p) = r
    BY <1>2, <1>3 DEF EnsureDuration
  <2>2. Larger(n, p) = n
    BY <1>3 DEF Larger
  <2> QED
    BY <2>1, <2>2
<1>4. CASE p > n
  <2>1. PICK k \in 0..n : r.length = k
    BY <1>1
  <2>2. PICK s \in Nat : r.start = s
    BY <1>1
  <2>3. PICK arr \in [0..n - 1 -> Nat] : r.samples = arr
    BY <1>1
  <2>4. PICK m : m = [i \in 0..(p - 1) |-> IF i < k THEN arr[(s + i) % n] ELSE 0]
    OBVIOUS
  <2>5. PICK u : u = [samples |-> m, start |-> 0, length |-> k]
    OBVIOUS
  <2>6. EnsureDuration(r, p) = u
    BY <1>2, <1>4, <2>1, <2>2, <2>3, <2>4, <2>5 DEF EnsureDuration
  <2>7. ASSUME NEW i \in 0..k - 1 PROVE m[(0 + i) % p] = w[l - k + i + 1]
    <3>1. i \in 0..p - 1 /\ (0 + i) % p = i
      BY <1>4
    <3>2. m[i] = arr[(s + i) % n]
      BY <2>4, <3>1
    <3> QED
      BY <1>1, <2>1, <2>2, <2>3, <3>1, <3>2
  <2>8. ASSUME NEW i \in 0..p - 1 PROVE m[i] \in Nat
    <3>1. CASE i < k
      <4>1. (s + i) % n \in 0..n - 1
        BY <3>1
      <4>2. PICK j \in 0..n - 1 : (s + i) % n = j
        BY <4>1
      <4> QED
        BY <2>4, <3>1, <4>2
    <3>2. CASE ~(i < k)
      BY <2>4, <3>2
    <3> QED
      BY <3>1, <3>2
  <2>9. m \in [0..p - 1 -> Nat]
    BY <2>4, <2>8
  <2>10. u \in [samples : [0..p - 1 -> Nat], start : Nat, length : 0..p]
    <3>1. k \in 0..p /\ 0 \in Nat
      BY <1>4
    <3> QED
      BY <2>5, <2>9, <3>1
  <2>11. u.samples = m /\ u.start = 0 /\ u.length = k
    BY <2>5
  <2>12. k <= l /\ 0 < p
    BY <1>1, <1>4, <2>1
  <2>13. IsWindow(u, p, w, l)
    BY <2>7, <2>10, <2>11, <2>12 DEF IsWindow
  <2>14. Larger(n, p) = p
    BY <1>4 DEF Larger
  <2> QED
    BY <2>1, <2>6, <2>11, <2>13, <2>14
<1> QED
  BY <1>3, <1>4

\* The last c elements of w.
IsLatest(t, c, w) == t \in Seq(Nat) /\ Len(t) = c /\ \A i \in 1..c : t[i] = w[Len(w) - c + i]

\* Tail reads the latest samples in their order.
LEMMA LatestAreLast ==
    ASSUME NEW n \in Nat, NEW w \in Seq(Nat), NEW r, IsWindow(r, n, w, Len(w)), NEW p \in Nat
    PROVE  IsLatest(LatestSamples(r, p), Smaller(p, r.length), w)
<1>1. r.samples \in [0..n - 1 -> Nat] /\ r.length \in 0..n /\ r.start \in Nat /\ r.length <= Len(w)
      /\ \A i \in 0..r.length - 1 : r.samples[(r.start + i) % n] = w[Len(w) - r.length + i + 1]
  BY DEF IsWindow
<1>2. PICK k \in 0..n : r.length = k
  BY <1>1
<1>3. PICK s \in Nat : r.start = s
  BY <1>1
<1>4. PICK arr \in [0..n - 1 -> Nat] : r.samples = arr
  BY <1>1
<1>5. PICK l \in Nat : Len(w) = l
  OBVIOUS
<1>6. PICK c \in 0..k : Smaller(p, k) = c
  BY DEF Smaller
<1>7. Capacity(r) = n
  BY <1>1, CapacityIs
<1>8. PICK t : t = [i \in 1..c |-> arr[(s + k - c + i - 1) % n]]
  OBVIOUS
<1>9. LatestSamples(r, p) = t
  BY <1>2, <1>3, <1>4, <1>6, <1>7, <1>8 DEF LatestSamples
<1>10. ASSUME NEW i \in 1..c PROVE t[i] = w[l - c + i] /\ t[i] \in Nat
  <2>1. PICK j : k - c + i - 1 = j
    OBVIOUS
  <2>2. j \in 0..k - 1 /\ s + k - c + i - 1 = s + j /\ l - k + j + 1 = l - c + i
    BY <2>1
  <2>3. arr[(s + j) % n] = w[l - k + j + 1]
    BY <1>1, <1>2, <1>3, <1>4, <1>5, <2>2
  <2>4. t[i] = arr[(s + j) % n]
    BY <1>8, <2>2
  <2>5. l - c + i \in 1..l
    BY <1>1, <1>2, <1>5
  <2>6. w[l - c + i] \in Nat
    BY <1>5, <2>5
  <2> QED
    BY <2>2, <2>3, <2>4, <2>6
<1>11. t \in [1..c -> Nat]
  BY <1>8, <1>10
<1>12. t \in Seq(Nat) /\ Len(t) = c
  BY <1>11
<1> QED
  BY <1>2, <1>5, <1>6, <1>9, <1>10, <1>12 DEF IsLatest

-----------------------------------------------------------------------------
(* Frames and what a turn has of them.                                     *)

\* Frames within what may be captured.
CapturedFrames == {f \in Frames : End(f) <= MaxOffset}

\* Frames of the audio from a to b, one after the other, with holes between
\* them ...
InOrder(s, a, b) ==
    /\ a <= b
    /\ \A i \in 1..Len(s) : a <= s[i].offset /\ End(s[i]) <= b
    /\ \A i, j \in 1..Len(s) : i < j => End(s[i]) <= s[j].offset

\* ... and without.
Seamless(s, a, b) ==
    /\ s = <<>> => a = b
    /\ s # <<>> => s[1].offset = a /\ End(s[Len(s)]) = b
    /\ \A i \in 1..Len(s) : i > 1 => s[i].offset = End(s[i - 1])

\* The samples that follow position b.
IsFrom(s, b) == \A i \in 1..Len(s) : s[i] = b + i

\* What a turn has so far, and where it begins.
SoFar == [pcm : Seq(1..MaxOffset), next : 0..MaxOffset, stop : {"none", "gap", "verdict"}]
Placed(t, b) == IsFrom(t.pcm, b) /\ t.next = b + Len(t.pcm)

\* A frame's fields.
LEMMA FrameFields ==
    ASSUME NEW f \in CapturedFrames
    PROVE  /\ f.offset \in 0..MaxOffset /\ f.length \in 1..StepSamples /\ f.length \in Nat \ {0}
           /\ End(f) = f.offset + f.length /\ End(f) \in 1..MaxOffset
<1>1. f.offset \in 0..MaxOffset /\ f.length \in 1..StepSamples /\ f.offset + f.length <= MaxOffset
  BY DEF CapturedFrames, Frames, End
<1> QED
  BY <1>1, HandoffAssumption DEF End

\* The samples of a frame behind a position that is not behind it.
LEMMA FrameSamples ==
    ASSUME NEW f \in CapturedFrames, NEW n \in 0..f.length
    PROVE  /\ Samples(f, n) \in Seq(1..MaxOffset) /\ Len(Samples(f, n)) = f.length - n
           /\ IsFrom(Samples(f, n), f.offset + n)
<1>1. PICK a \in 0..MaxOffset : f.offset = a
  BY FrameFields
<1>2. PICK l \in Nat \ {0} : f.length = l
  BY FrameFields
<1>3. a + l <= MaxOffset
  BY <1>1, <1>2, FrameFields
<1>4. PICK m \in Nat : l - n = m
  BY <1>2
<1>5. PICK s : s = [i \in 1..m |-> a + n + i]
  OBVIOUS
<1>6. Samples(f, n) = s
  BY <1>1, <1>2, <1>4, <1>5 DEF Samples
<1>7. ASSUME NEW i \in 1..m PROVE a + n + i \in 1..MaxOffset
  <2>1. i <= l - n /\ a + n + i <= a + l
    BY <1>2, <1>4
  <2> QED
    BY <1>3, <2>1, HandoffAssumption
<1>8. s \in [1..m -> 1..MaxOffset]
  BY <1>5, <1>7
<1>9. s \in Seq(1..MaxOffset) /\ Len(s) = m
  BY <1>8, SequenceIs
<1>10. IsFrom(s, a + n)
  BY <1>5, <1>9 DEF IsFrom
<1> QED
  BY <1>1, <1>2, <1>4, <1>6, <1>9, <1>10

\* Samples joined to those before them follow a position too.
LEMMA FromJoined ==
    ASSUME NEW s \in Seq(1..MaxOffset), NEW c \in Seq(1..MaxOffset), NEW b \in Nat,
           IsFrom(s, b), IsFrom(c, b + Len(s))
    PROVE  IsFrom(s \o c, b)
<1>1. PICK k \in Nat : Len(s) = k
  OBVIOUS
<1>2. PICK l \in Nat : Len(c) = l
  OBVIOUS
<1>3. PICK v : s \o c = v
  OBVIOUS
<1>4. /\ s \o c \in Seq(1..MaxOffset) /\ Len(s \o c) = Len(s) + Len(c)
      /\ \A i \in 1..Len(s) : (s \o c)[i] = s[i]
      /\ \A i \in 1..Len(c) : (s \o c)[Len(s) + i] = c[i]
  BY Joined
<1>5. Len(v) = k + l /\ (\A i \in 1..k : v[i] = b + i) /\ (\A i \in 1..l : v[k + i] = b + k + i)
  BY <1>1, <1>2, <1>3, <1>4 DEF IsFrom
<1>6. ASSUME NEW i \in 1..k + l PROVE v[i] = b + i
  <2>1. CASE i <= k
    BY <1>5, <2>1
  <2>2. CASE i > k
    <3>1. PICK j \in 1..l : k + j = i
      BY <2>2
    <3>2. v[k + j] = b + k + j
      BY <1>5
    <3>3. b + k + j = b + i
      BY <3>1
    <3> QED
      BY <3>1, <3>2, <3>3
  <2> QED
    BY <2>1, <2>2
<1> QED
  BY <1>3, <1>5, <1>6 DEF IsFrom

\* A frame behind what a turn has changes nothing, one that overlaps or
\* follows extends it, one beyond is a gap.
LEMMA AppendFrameOutcome ==
    ASSUME NEW t \in SoFar, NEW f \in CapturedFrames
    PROVE  /\ appendFrame(t, f) \in SoFar
           /\ appendFrame(t, f).next = t.next \/ appendFrame(t, f).next = End(f)
           /\ f.offset <= t.next =>
                  /\ appendFrame(t, f).stop = t.stop /\ End(f) <= appendFrame(t, f).next
                  /\ t.next <= appendFrame(t, f).next
           /\ f.offset > t.next => appendFrame(t, f).stop = "gap"
           /\ \A b \in Nat : Placed(t, b) => Placed(appendFrame(t, f), b)
<1>1. PICK s \in Seq(1..MaxOffset) : t.pcm = s
  BY DEF SoFar
<1>2. PICK n \in 0..MaxOffset : t.next = n
  BY DEF SoFar
<1>3. PICK e : End(f) = e
  OBVIOUS
<1>4. PICK a \in 0..MaxOffset : f.offset = a
  BY FrameFields
<1>5. PICK l \in Nat \ {0} : f.length = l
  BY FrameFields
<1>6. e = a + l /\ e \in 1..MaxOffset
  BY <1>3, <1>4, <1>5, FrameFields
<1>7. PICK u : appendFrame(t, f) = u
  OBVIOUS
<1>8. CASE e <= n
  <2>1. u = t
    BY <1>2, <1>3, <1>7, <1>8 DEF appendFrame
  <2>2. a <= n
    BY <1>6, <1>8
  <2> QED
    BY <1>2, <1>3, <1>4, <1>7, <1>8, <2>1, <2>2
<1>9. CASE e > n /\ a > n
  <2>1. u = [t EXCEPT !.stop = "gap"]
    BY <1>2, <1>3, <1>4, <1>6, <1>7, <1>9 DEF appendFrame
  <2>2. u \in SoFar /\ u.pcm = t.pcm /\ u.next = t.next /\ u.stop = "gap"
    BY <2>1 DEF SoFar
  <2>3. ~(a <= n)
    BY <1>9
  <2> QED
    BY <1>2, <1>4, <1>7, <2>2, <2>3 DEF Placed
<1>10. CASE e > n /\ a <= n
  <2>1. u = [t EXCEPT !.pcm = @ \o Samples(f, n - a), !.next = e]
    BY <1>2, <1>3, <1>4, <1>6, <1>7, <1>10 DEF appendFrame
  <2>2. PICK m \in 0..f.length : n - a = m
    BY <1>5, <1>6, <1>10
  <2>3. PICK c : Samples(f, m) = c
    OBVIOUS
  <2>4. c \in Seq(1..MaxOffset) /\ Len(c) = l - m /\ IsFrom(c, a + m)
    BY <1>4, <1>5, <2>3, FrameSamples
  <2>5. s \o c \in Seq(1..MaxOffset) /\ Len(s \o c) = Len(s) + Len(c)
    BY <2>4, Joined
  <2>6. u = [t EXCEPT !.pcm = s \o c, !.next = e]
    BY <1>1, <2>1, <2>2, <2>3
  <2>7. u.pcm = s \o c /\ u.next = e /\ u.stop = t.stop
    BY <2>6 DEF SoFar
  <2>8. u \in SoFar
    <3>1. e \in 0..MaxOffset
      BY <1>6
    <3> QED
      BY <2>5, <2>6, <3>1 DEF SoFar
  <2>9. ASSUME NEW b \in Nat, Placed(t, b) PROVE Placed(u, b)
    <3>1. IsFrom(s, b) /\ n = b + Len(s)
      BY <1>1, <1>2, <2>9 DEF Placed
    <3>2. a + m = b + Len(s)
      BY <2>2, <3>1
    <3>3. IsFrom(s \o c, b)
      BY <2>4, <3>1, <3>2, FromJoined
    <3>4. PICK k \in Nat : Len(s) = k
      OBVIOUS
    <3>5. e = b + (k + (l - m))
      BY <1>6, <2>2, <3>2, <3>4
    <3>6. e = b + Len(s \o c)
      BY <2>4, <2>5, <3>4, <3>5
    <3> QED
      BY <2>7, <3>3, <3>6 DEF Placed
  <2>10. n <= e /\ ~(a > n)
    BY <1>6, <1>10
  <2> QED
    <3>1. u.next = End(f) /\ u.stop = t.stop /\ End(f) <= u.next /\ t.next <= u.next
      BY <1>2, <1>3, <1>6, <2>7, <2>10
    <3>2. ~(f.offset > t.next)
      BY <1>2, <1>4, <2>10
    <3> QED
      BY <1>7, <2>8, <2>9, <3>1, <3>2
<1> QED
  BY <1>6, <1>8, <1>9, <1>10

\* A round of the replay.
LEMMA ReplayFrameOutcome ==
    ASSUME NEW t \in SoFar, NEW f \in CapturedFrames, NEW c \in BOOLEAN
    PROVE  /\ ReplayFrame(t, f, c) \in SoFar
           /\ t.stop # "none" => ReplayFrame(t, f, c) = t
           /\ t.stop = "none" /\ f.offset <= t.next =>
                  ReplayFrame(t, f, c).stop # "gap" /\ End(f) <= ReplayFrame(t, f, c).next
           /\ \A b \in Nat : Placed(t, b) => Placed(ReplayFrame(t, f, c), b)
<1>1. PICK u : appendFrame(t, f) = u
  OBVIOUS
<1>2. /\ u \in SoFar
      /\ f.offset <= t.next => u.stop = t.stop /\ End(f) <= u.next
      /\ \A b \in Nat : Placed(t, b) => Placed(u, b)
  BY <1>1, AppendFrameOutcome
<1>3. CASE t.stop # "none"
  <2>1. ReplayFrame(t, f, c) = t
    BY <1>3 DEF ReplayFrame
  <2> QED
    BY <1>3, <2>1
<1>4. CASE t.stop = "none" /\ c /\ u.next # t.next
  <2>1. PICK v : v = [u EXCEPT !.stop = "verdict"]
    OBVIOUS
  <2>2. ReplayFrame(t, f, c) = v
    BY <1>1, <1>4, <2>1 DEF ReplayFrame
  <2>3. v \in SoFar /\ v.pcm = u.pcm /\ v.next = u.next /\ v.stop = "verdict"
    BY <1>2, <2>1 DEF SoFar
  <2>4. \A b \in Nat : Placed(t, b) => Placed(v, b)
    BY <1>2, <2>3 DEF Placed
  <2> QED
    BY <1>2, <1>4, <2>2, <2>3, <2>4
<1>5. CASE t.stop = "none" /\ ~(c /\ u.next # t.next)
  <2>1. ReplayFrame(t, f, c) = u
    BY <1>1, <1>5 DEF ReplayFrame
  <2> QED
    BY <1>2, <1>5, <2>1
<1> QED
  BY <1>3, <1>4, <1>5

\* What a replay makes of what a turn has: the request's position stays, and
\* frames without a hole from the first one on leave no gap behind.
LEMMA ReplayOutcome ==
    ASSUME history \in Seq(CapturedFrames), NEW t \in SoFar, t.stop = "none", NEW d \in Nat
    PROVE  /\ Replay(t, d) \in SoFar
           /\ \A b \in Nat : Placed(t, b) => Placed(Replay(t, d), b)
           /\ \A h \in Nat : Seamless(history, 0, h) =>
                  /\ Replay(t, d).stop # "gap"
                  /\ Replay(t, d).stop = "none" => h <= Replay(t, d).next
<1>2. PICK N \in Nat : Len(history) = N
  OBVIOUS
<1>3. \A i \in 1..N : history[i] \in CapturedFrames
  BY <1>2
<1>4. PICK by : by = [i \in 1..N |-> [u \in SoFar |-> ReplayFrame(u, history[i], i = d)]]
  OBVIOUS
<1>5. by \in [1..N -> [SoFar -> SoFar]] /\ \A i \in 1..N, u \in SoFar : by[i][u] = ReplayFrame(u, history[i], i = d)
  <2>1. ASSUME NEW i \in 1..N, NEW u \in SoFar PROVE ReplayFrame(u, history[i], i = d) \in SoFar
    <3>1. (i = d) \in BOOLEAN /\ history[i] \in CapturedFrames
      BY <1>3
    <3> QED
      BY <3>1, ReplayFrameOutcome
  <2> QED
    BY <1>4, <2>1
<1>6. PICK f : Recursion(f, N, SoFar, t, by)
  BY <1>5, RecursiveFunction
<1>7. f \in [0..N -> SoFar] /\ f[0] = t /\ \A i \in 1..N : f[i] = by[i][f[i - 1]]
  BY <1>6 DEF Recursion
<1>8. \A i \in 1..N : i - 1 \in 0..N /\ f[i] = ReplayFrame(f[i - 1], history[i], i = d)
  BY <1>5, <1>7
<1>9. f = [i \in 0..N |-> IF i = 0 THEN t ELSE ReplayFrame(f[i - 1], history[i], i = d)]
  <2>1. ASSUME NEW i \in 0..N PROVE f[i] = IF i = 0 THEN t ELSE ReplayFrame(f[i - 1], history[i], i = d)
    BY <1>7, <1>8
  <2> QED
    BY <1>7, <2>1
<1>10. PICK g : g = [i \in 0..N |-> IF i = 0 THEN t ELSE ReplayFrame(g[i - 1], history[i], i = d)]
                /\ Replay(t, d) = g[N]
  BY <1>2, <1>9 DEF Replay
<1>11. g[0] = t
  BY <1>10
<1>12. \A i \in 1..N : g[i] = ReplayFrame(g[i - 1], history[i], i = d)
  BY <1>10
<1>13. ASSUME NEW i \in 1..N, g[i - 1] \in SoFar
       PROVE  /\ g[i] \in SoFar /\ (g[i - 1].stop # "none" => g[i] = g[i - 1])
              /\ g[i - 1].stop = "none" /\ history[i].offset <= g[i - 1].next =>
                     g[i].stop # "gap" /\ End(history[i]) <= g[i].next
              /\ \A b \in Nat : Placed(g[i - 1], b) => Placed(g[i], b)
  <2>1. PICK u : g[i - 1] = u
    OBVIOUS
  <2>2. PICK c \in BOOLEAN : c = (i = d)
    OBVIOUS
  <2>3. u \in SoFar /\ history[i] \in CapturedFrames
    BY <1>3, <1>13, <2>1
  <2>4. g[i] = ReplayFrame(u, history[i], c)
    BY <1>12, <2>1, <2>2
  <2> QED
    BY <2>1, <2>3, <2>4, ReplayFrameOutcome
<1> DEFINE T == {i \in 0..N : g[i] \in SoFar /\ \A b \in Nat : Placed(t, b) => Placed(g[i], b)}
<1>15. T = 0..N
  <2>1. 0 \in T
    BY <1>11
  <2>2. ASSUME NEW i \in 1..N, i - 1 \in T PROVE i \in T
    <3>1. g[i - 1] \in SoFar /\ \A b \in Nat : Placed(t, b) => Placed(g[i - 1], b)
      BY <2>2
    <3> QED
      BY <1>13, <3>1
  <2>3. T \in SUBSET (0..N)
    OBVIOUS
  <2> HIDE DEF T
  <2> QED
    BY <2>1, <2>2, <2>3, Upwards
<1>16. \A i \in 0..N : g[i] \in SoFar
  BY <1>15
<1>17. ASSUME NEW h \in Nat, Seamless(history, 0, h)
       PROVE  g[N].stop # "gap" /\ (g[N].stop = "none" => h <= g[N].next)
  <2> DEFINE U == {i \in 0..N : /\ g[i].stop # "gap"
                                /\ i > 0 /\ g[i].stop = "none" => End(history[i]) <= g[i].next}
  <2>1. 0 \in U
    BY <1>11
  <2>2. ASSUME NEW i \in 1..N, i - 1 \in U PROVE i \in U
    <3>1. PICK j \in 0..N : i - 1 = j
      OBVIOUS
    <3>2. g[j] \in SoFar /\ g[j].stop # "gap" /\ (j > 0 /\ g[j].stop = "none" => End(history[j]) <= g[j].next)
      BY <1>16, <2>2, <3>1
    <3>3. CASE g[j].stop # "none"
      <4>1. g[i] = g[j]
        BY <1>13, <3>1, <3>2, <3>3
      <4> QED
        BY <3>2, <3>3, <4>1
    <3>4. CASE g[j].stop = "none"
      <4>1. history[i].offset <= g[j].next
        <5>1. CASE j = 0
          <6>1. history # <<>> /\ i = 1
            BY <1>2, <3>1, <5>1
          <6>2. history[i].offset = 0
            BY <1>17, <6>1 DEF Seamless
          <6>3. g[j].next \in Nat
            BY <3>2 DEF SoFar
          <6> QED
            BY <6>2, <6>3
        <5>2. CASE j > 0
          <6>1. history[i].offset = End(history[j])
            <7>1. i > 1 /\ i \in 1..Len(history)
              BY <1>2, <3>1, <5>2
            <7>2. history[i].offset = End(history[i - 1])
              BY <1>17, <7>1 DEF Seamless
            <7> QED
              BY <3>1, <7>2
          <6> QED
            BY <3>2, <3>4, <5>2, <6>1
        <5> QED
          BY <5>1, <5>2
      <4>2. g[i].stop # "gap" /\ End(history[i]) <= g[i].next
        BY <1>13, <3>1, <3>2, <3>4, <4>1
      <4> QED
        BY <4>2
    <3> QED
      BY <3>3, <3>4
  <2>3. U \in SUBSET (0..N)
    OBVIOUS
  <2>4. N \in 0..N
    OBVIOUS
  <2>5. N \in U
    <3> HIDE DEF U
    <3> QED
      BY <2>1, <2>2, <2>3, <2>4, Upwards
  <2>6. CASE N = 0
    <3>1. history = <<>>
      BY <1>2, <2>6
    <3>2. h = 0
      BY <1>17, <3>1 DEF Seamless
    <3>3. g[N].next \in Nat
      BY <1>16, <2>4 DEF SoFar
    <3> QED
      BY <2>5, <3>2, <3>3
  <2>7. CASE N > 0
    <3>1. history # <<>>
      BY <1>2, <2>7
    <3>2. h = End(history[N])
      BY <1>2, <1>17, <3>1 DEF Seamless
    <3> QED
      BY <2>5, <2>7, <3>2
  <2> QED
    BY <2>6, <2>7
<1>18. g[N] \in SoFar /\ \A b \in Nat : Placed(t, b) => Placed(g[N], b)
  <2>1. N \in T
    <3>1. N \in 0..N
      OBVIOUS
    <3> HIDE DEF T
    <3> QED
      BY <1>15, <3>1
  <2> QED
    BY <2>1
<1> QED
  BY <1>10, <1>17, <1>18

\* A sequence with one more.
LEMMA AppendedIs ==
    ASSUME NEW S, NEW s \in Seq(S), NEW x \in S
    PROVE  Append(s, x) \in Seq(S)
  OBVIOUS

\* No frames have no size.
LEMMA NoFrames == HistorySize(<<>>) = 0
<1>1. PICK g : g = [n \in 0..0 |-> 0]
  OBVIOUS
<1>2. g = [n \in 0..0 |-> IF n = 0 THEN 0 ELSE g[n - 1] + (<<>>)[n].length]
  BY <1>1
<1>3. Len(<<>>) = 0
  OBVIOUS
<1>4. \E h : h = [n \in 0..0 |-> IF n = 0 THEN 0 ELSE h[n - 1] + (<<>>)[n].length] /\ HistorySize(<<>>) = h[0]
  BY <1>2, <1>3 DEF HistorySize
<1> QED
  BY <1>4

\* What remember keeps is bounded, and all there was unless it is said that
\* something was forgotten.
LEMMA RememberOutcome ==
    ASSUME history \in Seq(CapturedFrames), NEW f \in CapturedFrames, remember(f)
    PROVE  /\ history' \in Seq(CapturedFrames)
           /\ HistorySize(history') <= turnHandoffHistorySamples
           /\ forgotten' \in BOOLEAN
           /\ ~forgotten' => ~forgotten /\ history' = Append(history, f)
<1>1. PICK all \in Seq(CapturedFrames) : Append(history, f) = all
  BY AppendedIs
<1>2. PICK N \in Nat : Len(all) = N
  OBVIOUS
<1> DEFINE Fits(k) == HistorySize(SubSeq(all, k, Len(all))) <= turnHandoffHistorySamples
           K == {k \in 1..(Len(all) + 1) : Fits(k)}
<1>3. K # {}
  <2>1. SubSeq(all, N + 1, N) = <<>>
    BY <1>2
  <2>2. HistorySize(<<>>) = 0
    BY NoFrames
  <2>3. Fits(N + 1)
    <3>1. HistorySize(SubSeq(all, N + 1, Len(all))) = 0
      BY <1>2, <2>1, <2>2
    <3> QED
      BY <3>1, HandoffAssumption
  <2>4. N + 1 \in 1..(Len(all) + 1)
    BY <1>2
  <2> QED
    BY <2>3, <2>4
<1>4. PICK o : o = CHOOSE k \in 1..(Len(all) + 1) : Fits(k) /\ \A j \in 1..(k - 1) : ~Fits(j)
  OBVIOUS
<1>5. o \in 1..(Len(all) + 1) /\ Fits(o)
  <2>1. \E m \in K : \A j \in K : m <= j
    <3>1. K \in SUBSET Nat
      BY <1>2
    <3> HIDE DEF K
    <3> QED
      BY <1>3, <3>1, NatMin
  <2>2. PICK m \in K : \A j \in K : m <= j
    BY <2>1
  <2>3. \A j \in 1..(m - 1) : ~Fits(j)
    <3>1. ASSUME NEW j \in 1..(m - 1), Fits(j) PROVE FALSE
      <4>1. j \in 1..(Len(all) + 1) /\ ~(m <= j)
        BY <1>2, <2>2
      <4>2. j \in K
        BY <3>1, <4>1
      <4> QED
        BY <2>2, <4>1, <4>2
    <3> QED
      BY <3>1
  <2>4. m \in 1..(Len(all) + 1) /\ Fits(m) /\ \A j \in 1..(m - 1) : ~Fits(j)
    BY <2>2, <2>3
  <2> HIDE DEF Fits
  <2> QED
    BY <1>4, <2>4
<1>6. history' = SubSeq(all, o, Len(all)) /\ forgotten' = (forgotten \/ o > 1)
  BY <1>1, <1>4 DEF remember
<1>7. SubSeq(all, o, N) \in Seq(CapturedFrames)
  BY <1>2, <1>5
<1>8. o = 1 => SubSeq(all, o, N) = all
  BY <1>2
<1>9. ~(o > 1) => o = 1
  BY <1>2, <1>5
<1> QED
  BY <1>1, <1>2, <1>5, <1>6, <1>7, <1>8, <1>9

\* The fields of the frames of a sequence.
LEMMA FramesFields ==
    ASSUME NEW s \in Seq(CapturedFrames), NEW i \in 1..Len(s)
    PROVE  /\ s[i] \in CapturedFrames /\ s[i].offset \in Nat /\ End(s[i]) \in Nat
           /\ s[i].offset <= End(s[i])
<1>1. s[i] \in CapturedFrames
  OBVIOUS
<1> QED
  BY <1>1, FrameFields

\* Frames without a hole between them, and one more.
LEMMA MoreSeamless ==
    ASSUME NEW s \in Seq(CapturedFrames), NEW f \in CapturedFrames, NEW a, Seamless(s, a, f.offset)
    PROVE  Seamless(Append(s, f), a, End(f))
<1>1. PICK N \in Nat : Len(s) = N
  OBVIOUS
<1>2. PICK v : Append(s, f) = v
  OBVIOUS
<1>3. v # <<>> /\ Len(v) = N + 1 /\ v[N + 1] = f /\ \A i \in 1..N : v[i] = s[i]
  BY <1>1, <1>2
<1>4. v[1].offset = a
  <2>1. CASE N = 0
    <3>1. s = <<>>
      BY <1>1, <2>1
    <3>2. a = f.offset
      BY <3>1 DEF Seamless
    <3> QED
      BY <1>3, <2>1, <3>2
  <2>2. CASE N # 0
    <3>1. s # <<>> /\ 1 \in 1..N
      BY <1>1, <2>2
    <3> QED
      BY <1>3, <3>1 DEF Seamless
  <2> QED
    BY <2>1, <2>2
<1>5. ASSUME NEW i \in 1..N + 1, i > 1 PROVE v[i].offset = End(v[i - 1])
  <2>1. i - 1 \in 1..N
    BY <1>5
  <2>2. CASE i = N + 1
    <3>1. s # <<>> /\ i - 1 = N
      BY <1>1, <2>1, <2>2
    <3>2. f.offset = End(s[N])
      BY <1>1, <3>1 DEF Seamless
    <3> QED
      BY <1>3, <2>1, <2>2, <3>1, <3>2
  <2>3. CASE i # N + 1
    <3>1. i \in 1..N
      BY <2>3
    <3>2. s[i].offset = End(s[i - 1])
      BY <1>1, <1>5, <3>1 DEF Seamless
    <3> QED
      BY <1>3, <2>1, <3>1, <3>2
  <2> QED
    BY <2>2, <2>3
<1> QED
  BY <1>2, <1>3, <1>4, <1>5 DEF Seamless

\* What is left of such frames when the first is taken.
LEMMA LessSeamless ==
    ASSUME NEW s \in Seq(CapturedFrames), s # <<>>, NEW a, NEW b, Seamless(s, a, b)
    PROVE  Head(s).offset = a /\ Seamless(Tail(s), End(Head(s)), b)
<1>1. PICK N \in Nat : Len(s) = N
  OBVIOUS
<1>2. PICK v : Tail(s) = v
  OBVIOUS
<1>3. N > 0 /\ Len(v) = N - 1 /\ (\A i \in 1..N - 1 : v[i] = s[i + 1]) /\ Head(s) = s[1] /\ v \in Seq(CapturedFrames)
  BY <1>1, <1>2
<1>4. s[1].offset = a /\ End(s[N]) = b /\ \A i \in 1..N : i > 1 => s[i].offset = End(s[i - 1])
  BY <1>1 DEF Seamless
<1>5. v = <<>> => End(s[1]) = b
  <2>1. v = <<>> => N = 1
    BY <1>3
  <2> QED
    BY <1>4, <2>1
<1>6. v # <<>> => v[1].offset = End(s[1]) /\ End(v[N - 1]) = b
  <2>1. SUFFICES ASSUME v # <<>> PROVE v[1].offset = End(s[1]) /\ End(v[N - 1]) = b
    OBVIOUS
  <2>2. N - 1 # 0
    BY <1>3, <2>1
  <2>3. 1 \in 1..N - 1 /\ N - 1 \in 1..N - 1 /\ 2 \in 1..N
    BY <1>3, <2>2
  <2>4. v[1] = s[2] /\ v[N - 1] = s[N]
    <3>1. v[1] = s[1 + 1] /\ v[N - 1] = s[N - 1 + 1]
      BY <1>3, <2>3
    <3> QED
      BY <3>1
  <2>5. s[2].offset = End(s[1])
    <3>1. s[2].offset = End(s[2 - 1])
      BY <1>4, <2>3
    <3> QED
      BY <3>1
  <2> QED
    BY <1>4, <2>4, <2>5
<1>7. ASSUME NEW i \in 1..N - 1, i > 1 PROVE v[i].offset = End(v[i - 1])
  <2>1. PICK j : i + 1 = j
    OBVIOUS
  <2>2. PICK h : i - 1 = h
    OBVIOUS
  <2>3. j \in 1..N /\ j > 1 /\ j - 1 = i /\ h \in 1..N - 1 /\ h + 1 = i
    BY <1>7, <2>1, <2>2
  <2>4. v[i] = s[j] /\ v[h] = s[i]
    BY <1>3, <2>1, <2>3
  <2>5. s[j].offset = End(s[i])
    BY <1>4, <2>3
  <2> QED
    BY <2>2, <2>4, <2>5
<1> QED
  BY <1>2, <1>3, <1>4, <1>5, <1>6, <1>7 DEF Seamless

\* The same where there are holes between frames.
LEMMA MoreInOrder ==
    ASSUME NEW s \in Seq(CapturedFrames), NEW f \in CapturedFrames, NEW a \in Nat,
           InOrder(s, a, f.offset)
    PROVE  InOrder(Append(s, f), a, End(f))
<1>1. PICK N \in Nat : Len(s) = N
  OBVIOUS
<1>2. PICK v : Append(s, f) = v
  OBVIOUS
<1>3. Len(v) = N + 1 /\ v[N + 1] = f /\ \A i \in 1..N : v[i] = s[i]
  BY <1>1, <1>2
<1>4. f.offset \in Nat /\ End(f) \in Nat /\ f.offset <= End(f)
  BY FrameFields
<1>5. \A i \in 1..N : s[i].offset \in Nat /\ End(s[i]) \in Nat
  BY <1>1, FramesFields
<1>6. a <= End(f)
  BY <1>4 DEF InOrder
<1>7. ASSUME NEW i \in 1..N + 1 PROVE a <= v[i].offset /\ End(v[i]) <= End(f)
  <2>1. CASE i = N + 1
    BY <1>3, <1>4, <2>1 DEF InOrder
  <2>2. CASE i \in 1..N
    <3>1. a <= s[i].offset /\ End(s[i]) <= f.offset
      BY <1>1, <2>2 DEF InOrder
    <3> QED
      BY <1>3, <1>4, <1>5, <2>2, <3>1
  <2> QED
    BY <2>1, <2>2
<1>8. ASSUME NEW i \in 1..N + 1, NEW j \in 1..N + 1, i < j PROVE End(v[i]) <= v[j].offset
  <2>1. i \in 1..N
    BY <1>8
  <2>2. CASE j = N + 1
    BY <1>1, <1>3, <2>1, <2>2 DEF InOrder
  <2>3. CASE j \in 1..N
    BY <1>1, <1>3, <1>8, <2>1, <2>3 DEF InOrder
  <2> QED
    BY <2>2, <2>3
<1> QED
  BY <1>2, <1>3, <1>6, <1>7, <1>8 DEF InOrder

\* What is left of them.
LEMMA LessInOrder ==
    ASSUME NEW s \in Seq(CapturedFrames), s # <<>>, NEW a \in Nat, NEW b, InOrder(s, a, b)
    PROVE  a <= Head(s).offset /\ InOrder(Tail(s), End(Head(s)), b)
<1>1. PICK N \in Nat : Len(s) = N
  OBVIOUS
<1>2. PICK v : Tail(s) = v
  OBVIOUS
<1>3. N > 0 /\ Len(v) = N - 1 /\ (\A i \in 1..N - 1 : v[i] = s[i + 1]) /\ Head(s) = s[1]
  BY <1>1, <1>2
<1>4. 1 \in 1..N
  BY <1>3
<1>5. a <= s[1].offset /\ End(s[1]) <= b
  BY <1>1, <1>4 DEF InOrder
<1>6. ASSUME NEW i \in 1..N - 1 PROVE End(s[1]) <= v[i].offset /\ End(v[i]) <= b
  <2>1. PICK j : i + 1 = j
    OBVIOUS
  <2>2. j \in 1..N /\ 1 < j /\ v[i] = s[j]
    BY <1>3, <2>1
  <2> QED
    BY <1>1, <1>4, <2>2 DEF InOrder
<1>7. ASSUME NEW i \in 1..N - 1, NEW j \in 1..N - 1, i < j PROVE End(v[i]) <= v[j].offset
  <2>1. PICK k : i + 1 = k
    OBVIOUS
  <2>2. PICK l : j + 1 = l
    OBVIOUS
  <2>3. k \in 1..N /\ l \in 1..N /\ k < l /\ v[i] = s[k] /\ v[j] = s[l]
    BY <1>3, <1>7, <2>1, <2>2
  <2> QED
    BY <1>1, <2>3 DEF InOrder
<1> QED
  BY <1>2, <1>3, <1>5, <1>6, <1>7 DEF InOrder

-----------------------------------------------------------------------------
(* The handoff.                                                            *)

\* Whatever the channels and the coordinator hold was captured.
HandoffTypes ==
    /\ TypeOK
    /\ wakeFrames \in Seq(CapturedFrames) /\ turnFrames \in Seq(CapturedFrames)
    /\ history \in Seq(CapturedFrames)

\* The pipeline reads frames in order, some of them lost, and counts what it
\* was handed; its ring has the latest of that, as many as had room.
PipelineShape ==
    /\ Len(written) = processed /\ InOrder(wakeFrames, processed + Len(step), offset)
    /\ IsWindow(ring, Capacity(ring), written, Len(written))
    /\ ring.length = kept

\* A request stays in what was captured, and one placed before a loss is what
\* was captured there.
IsRequest(r) == r.offset + Len(r.preRoll) <= MaxOffset /\ (r.exact => IsFrom(r.preRoll, r.offset))
RequestShape == IsRequest(event) /\ IsRequest(queued)

\* Such a turn is what was captured from its position on.
TurnShape ==
    /\ ~active => ~turn.exact
    /\ active /\ turn.exact => IsFrom(pcm, turn.begin) /\ nextOffset = turn.begin + Len(pcm)

\* What was observed and waits to be is everything, as long as nothing was
\* forgotten; then what waits for a turn is everything behind its end, as long
\* as nothing is dropped.
NothingIsMissing ==
    /\ ~forgotten =>
           \E h \in 0..MaxOffset : Seamless(history, 0, h) /\ Seamless(turnFrames, h, offset)
    /\ active /\ listening /\ turn.exact /\ ~turn.hole /\ ~overrun =>
           \E h \in 0..MaxOffset : h <= nextOffset /\ Seamless(turnFrames, h, offset)

HandoffIInv ==
    /\ HandoffTypes /\ PipelineShape /\ RequestShape /\ TurnShape /\ NothingIsMissing /\ GapsHaveACause

\* The parts of the types that are flags, and those that are not.
FlagTypes ==
    overrun \in BOOLEAN /\ active \in BOOLEAN /\ listening \in BOOLEAN /\ gap \in BOOLEAN /\ forgotten \in BOOLEAN
ChannelTypes ==
    /\ offset \in 0..MaxOffset
    /\ wakeFrames \in Seq(CapturedFrames) /\ Len(wakeFrames) <= WakeDepth
    /\ turnFrames \in Seq(CapturedFrames) /\ Len(turnFrames) <= TurnDepth
PipelineTypes ==
    /\ step \in Seq(1..MaxOffset) /\ processed \in 0..MaxOffset /\ written \in Seq(1..MaxOffset)
    /\ Capacity(ring) \in PreRolls /\ ring.length \in 0..Capacity(ring)
RequestTypes == event \in Requests /\ queued \in Requests /\ button \in 0..NoOffset
TurnTypes ==
    /\ nextOffset \in 0..MaxOffset /\ finishes \in 0..MaxFinishes /\ pcm \in Seq(1..MaxOffset)
    /\ history \in Seq(CapturedFrames) /\ HistorySize(history) <= turnHandoffHistorySamples
    /\ turn \in [begin : 0..MaxOffset, exact : BOOLEAN, hole : BOOLEAN]

\* Together they are the types.
LEMMA TypesAre == HandoffTypes <=> FlagTypes /\ ChannelTypes /\ PipelineTypes /\ RequestTypes /\ TurnTypes
<1>1. Seq(CapturedFrames) \subseteq Seq(Frames)
  <2>1. CapturedFrames \subseteq Frames
    BY DEF CapturedFrames
  <2> HIDE DEF CapturedFrames
  <2> QED
    BY <2>1
<1>2. HandoffTypes => FlagTypes
  BY DEF HandoffTypes, TypeOK, FlagTypes
<1>3. HandoffTypes => ChannelTypes
  BY DEF HandoffTypes, TypeOK, ChannelTypes
<1>4. HandoffTypes => PipelineTypes
  BY DEF HandoffTypes, TypeOK, PipelineTypes
<1>5. HandoffTypes => RequestTypes
  BY DEF HandoffTypes, TypeOK, RequestTypes
<1>6. HandoffTypes => TurnTypes
  BY DEF HandoffTypes, TypeOK, TurnTypes
<1>7. FlagTypes /\ ChannelTypes /\ PipelineTypes /\ RequestTypes /\ TurnTypes => HandoffTypes
  BY <1>1 DEF HandoffTypes, TypeOK, FlagTypes, ChannelTypes, PipelineTypes, RequestTypes, TurnTypes
<1> QED
  BY <1>2, <1>3, <1>4, <1>5, <1>6, <1>7

\* A sequence whose elements are of another set is one of that set.
LEMMA Retyped ==
    ASSUME NEW S, NEW U, NEW s \in Seq(S), \A i \in 1..Len(s) : s[i] \in U
    PROVE  s \in Seq(U)
<1>1. PICK n \in Nat : Len(s) = n
  OBVIOUS
<1>2. s \in [1..n -> S]
  BY <1>1
<1>3. s \in [1..n -> U]
  BY <1>1, <1>2
<1> QED
  BY <1>3, SequenceIs

\* Positions are numbers.
LEMMA Positions == ASSUME NEW s \in Seq(1..MaxOffset) PROVE s \in Seq(Nat)
<1>1. ASSUME NEW S, NEW u \in Seq(S), NEW i \in 1..Len(u) PROVE u[i] \in S
  OBVIOUS
<1>2. ASSUME NEW i \in 1..Len(s) PROVE s[i] \in Nat
  <2>1. s[i] \in 1..MaxOffset
    BY <1>1
  <2> QED
    BY <2>1
<1> QED
  BY <1>2, Retyped

\* Wider bounds.
LEMMA WiderInOrder ==
    ASSUME NEW s \in Seq(CapturedFrames), NEW a \in Nat, NEW b \in Nat, NEW c \in Nat, NEW d \in Nat,
           InOrder(s, a, b), c <= a, b <= d
    PROVE  InOrder(s, c, d)
<1>1. c <= d
  BY DEF InOrder
<1>2. ASSUME NEW i \in 1..Len(s) PROVE c <= s[i].offset /\ End(s[i]) <= d
  <2>1. a <= s[i].offset /\ End(s[i]) <= b /\ s[i].offset \in Nat /\ End(s[i]) \in Nat
    BY FramesFields DEF InOrder
  <2> QED
    BY <2>1
<1> QED
  BY <1>1, <1>2 DEF InOrder

\* Nothing is requested.
LEMMA NoRequestIsOne == NoRequest \in Requests /\ IsRequest(NoRequest)
<1>1. NoRequest \in Requests
  BY HandoffAssumption DEF NoRequest, Requests
<1>2. NoRequest.offset = 0 /\ NoRequest.preRoll = <<>> /\ NoRequest.exact = FALSE
  BY DEF NoRequest
<1>3. IsRequest(NoRequest)
  BY <1>2, HandoffAssumption DEF IsRequest
<1> QED
  BY <1>1, <1>3

\* Nothing was captured yet.
LEMMA HandoffInit == Init => HandoffIInv
<1> SUFFICES ASSUME Init PROVE HandoffIInv
  OBVIOUS
<1>1. PICK n \in PreRolls : ring = NewRing(n)
  BY DEF Init
<1>2. n \in Nat
  BY HandoffAssumption
<1>3. /\ ring.samples = [i \in 0..(n - 1) |-> 0] /\ ring.start = 0 /\ ring.length = 0
      /\ ring \in [samples : [0..n - 1 -> Nat], start : Nat, length : 0..n]
  BY <1>1, <1>2 DEF NewRing
<1>4. Capacity(ring) = n
  BY <1>2, <1>3, CapacityIs
<1>5. written = <<>> /\ Len(written) = 0 /\ wakeFrames = <<>> /\ turnFrames = <<>> /\ history = <<>> /\ step = <<>>
  BY DEF Init
<1>6. FlagTypes
  BY DEF Init, FlagTypes
<1>7. ChannelTypes
  BY HandoffAssumption DEF Init, ChannelTypes
<1>8. PipelineTypes
  BY <1>2, <1>3, <1>4, HandoffAssumption DEF Init, PipelineTypes
<1>9. RequestTypes
  BY NoRequestIsOne, HandoffAssumption DEF Init, RequestTypes, NoOffset
<1>10. TurnTypes
  <2>1. NoTurn \in [begin : 0..MaxOffset, exact : BOOLEAN, hole : BOOLEAN]
    BY HandoffAssumption DEF NoTurn
  <2> QED
    BY <2>1, NoFrames, HandoffAssumption DEF Init, TurnTypes
<1>11. HandoffTypes
  BY <1>6, <1>7, <1>8, <1>9, <1>10, TypesAre
<1>12. IsWindow(ring, n, written, 0)
  BY <1>2, <1>3, <1>5 DEF IsWindow
<1>13. InOrder(<<>>, 0, 0)
  BY DEF InOrder
<1>14. PipelineShape
  <2>1. ring.length = kept
    BY <1>3 DEF Init
  <2>2. processed + Len(step) = 0 /\ offset = 0 /\ processed = 0
    BY DEF Init
  <2> QED
    BY <1>4, <1>5, <1>12, <1>13, <2>1, <2>2 DEF PipelineShape
<1>15. RequestShape
  BY NoRequestIsOne DEF Init, RequestShape
<1>16. TurnShape
  BY DEF Init, TurnShape, NoTurn
<1>17. NothingIsMissing
  <2>1. Seamless(<<>>, 0, 0) /\ 0 \in 0..MaxOffset
    BY HandoffAssumption DEF Seamless
  <2> QED
    BY <1>5, <2>1 DEF Init, NothingIsMissing
<1>18. GapsHaveACause
  BY DEF Init, GapsHaveACause
<1> QED
  BY <1>11, <1>14, <1>15, <1>16, <1>17, <1>18 DEF HandoffIInv

\* What does not read the audio leaves the pipeline's shape alone.
LEMMA PipelineRests ==
    ASSUME PipelineShape, UNCHANGED <<written, kept, processed, wakeFrames, step, offset, ring>>
    PROVE  PipelineShape'
  BY DEF PipelineShape

\* Requests stay.
LEMMA RequestsRest == ASSUME RequestShape, UNCHANGED <<event, queued>> PROVE RequestShape'
  BY DEF RequestShape

\* The turn stays.
LEMMA TurnRests == ASSUME TurnShape, UNCHANGED <<active, turn, pcm, nextOffset>> PROVE TurnShape'
  BY DEF TurnShape

\* The frames that wait stay.
LEMMA FramesRest ==
    ASSUME NothingIsMissing,
           UNCHANGED <<forgotten, history, turnFrames, offset, active, listening, turn, overrun, nextOffset>>
    PROVE  NothingIsMissing'
  BY DEF NothingIsMissing

\* The gap and its cause stay.
LEMMA GapRests == ASSUME GapsHaveACause, UNCHANGED <<gap, turn>> PROVE GapsHaveACause'
  BY DEF GapsHaveACause

\* A frame is captured.
LEMMA EmitKeeps == ASSUME HandoffIInv, NEW n \in 1..StepSamples, Emit(n) PROVE HandoffIInv'
<1>1. /\ FlagTypes /\ ChannelTypes /\ PipelineTypes /\ RequestTypes /\ TurnTypes
      /\ PipelineShape /\ RequestShape /\ TurnShape /\ NothingIsMissing /\ GapsHaveACause
  BY TypesAre DEF HandoffIInv
<1>2. /\ UNCHANGED <<step, ring, processed, event, written, kept, button, queued, history, finishes>>
      /\ UNCHANGED <<active, nextOffset, listening, pcm, turn, gap>>
  BY DEF Emit, pipeline, collecting
<1>3. PICK f : Captured(n) = f
  OBVIOUS
<1>4. f \in CapturedFrames /\ f.offset = offset /\ End(f) = offset + n
  <2>1. offset + n <= MaxOffset /\ offset \in 0..MaxOffset
    BY <1>1 DEF Emit, ChannelTypes
  <2>2. f = [offset |-> offset, length |-> n]
    BY <1>3 DEF Captured
  <2>3. f.offset = offset /\ End(f) = offset + n
    BY <2>2 DEF End
  <2>4. f \in Frames
    BY <2>1, <2>2 DEF Frames
  <2> QED
    BY <2>1, <2>3, <2>4 DEF CapturedFrames
<1>5. /\ offset' = End(f)
      /\ wakeFrames' = IF Len(wakeFrames) < WakeDepth THEN Append(wakeFrames, f) ELSE wakeFrames
  BY <1>3 DEF Emit
<1>6. \/ /\ Len(turnFrames) < TurnDepth /\ turnFrames' = Append(turnFrames, f)
         /\ overrun' = overrun /\ forgotten' = forgotten
      \/ turnFrames' = turnFrames /\ overrun' = active /\ forgotten' = TRUE
  BY <1>3 DEF Emit
<1>7. offset' \in 0..MaxOffset /\ offset <= offset'
  BY <1>1, <1>4, <1>5, FrameFields DEF ChannelTypes
<1>8. ChannelTypes'
  <2>1. wakeFrames' \in Seq(CapturedFrames) /\ Len(wakeFrames') <= WakeDepth
    <3>1. CASE Len(wakeFrames) < WakeDepth
      <4>1. wakeFrames' = Append(wakeFrames, f)
        BY <1>5, <3>1
      <4> QED
        BY <1>1, <1>4, <3>1, <4>1, HandoffAssumption DEF ChannelTypes
    <3>2. CASE ~(Len(wakeFrames) < WakeDepth)
      BY <1>1, <1>5, <3>2 DEF ChannelTypes
    <3> QED
      BY <3>1, <3>2
  <2>2. turnFrames' \in Seq(CapturedFrames) /\ Len(turnFrames') <= TurnDepth
    <3>1. CASE Len(turnFrames) < TurnDepth /\ turnFrames' = Append(turnFrames, f)
      BY <1>1, <1>4, <3>1, HandoffAssumption DEF ChannelTypes
    <3>2. CASE turnFrames' = turnFrames
      BY <1>1, <3>2 DEF ChannelTypes
    <3> QED
      BY <1>6, <3>1, <3>2
  <2> QED
    BY <1>7, <2>1, <2>2 DEF ChannelTypes
<1>9. FlagTypes'
  BY <1>1, <1>2, <1>6 DEF FlagTypes
<1>10. PipelineTypes'
  BY <1>1, <1>2 DEF PipelineTypes
<1>11. RequestTypes'
  BY <1>1, <1>2 DEF RequestTypes
<1>12. TurnTypes'
  BY <1>1, <1>2 DEF TurnTypes
<1>13. HandoffTypes'
  <2>1. (FlagTypes /\ ChannelTypes /\ PipelineTypes /\ RequestTypes /\ TurnTypes => HandoffTypes)'
    BY TypesAre, PTL
  <2> QED
    BY <1>8, <1>9, <1>10, <1>11, <1>12, <2>1
<1>14. PipelineShape'
  <2>1. processed + Len(step) \in Nat /\ offset \in Nat /\ offset' \in Nat
    BY <1>1, <1>7 DEF PipelineTypes, ChannelTypes
  <2>2. InOrder(wakeFrames', processed + Len(step), offset')
    <3>1. CASE wakeFrames' = Append(wakeFrames, f)
      BY <1>1, <1>4, <1>5, <2>1, <3>1, MoreInOrder DEF PipelineShape, ChannelTypes
    <3>2. CASE wakeFrames' = wakeFrames
      <4>1. wakeFrames \in Seq(CapturedFrames) /\ InOrder(wakeFrames, processed + Len(step), offset)
        BY <1>1 DEF PipelineShape, ChannelTypes
      <4>2. PICK a \in Nat : processed + Len(step) = a
        BY <2>1
      <4>3. InOrder(wakeFrames, a, offset')
        BY <1>7, <2>1, <4>1, <4>2, WiderInOrder
      <4> QED
        BY <3>2, <4>2, <4>3
    <3> QED
      BY <1>5, <3>1, <3>2
  <2> QED
    BY <1>1, <1>2, <2>2 DEF PipelineShape
<1>15. RequestShape' /\ TurnShape' /\ GapsHaveACause'
  BY <1>1, <1>2, RequestsRest, TurnRests, GapRests
<1>16. NothingIsMissing'
  <2>1. ASSUME NEW a, Seamless(turnFrames, a, offset), turnFrames' = Append(turnFrames, f)
        PROVE  Seamless(turnFrames', a, offset')
    BY <1>1, <1>4, <1>5, <2>1, MoreSeamless DEF ChannelTypes
  <2>2. CASE turnFrames' = Append(turnFrames, f) /\ overrun' = overrun /\ forgotten' = forgotten
    BY <1>1, <1>2, <2>1, <2>2 DEF NothingIsMissing
  <2>3. CASE turnFrames' = turnFrames /\ overrun' = active /\ forgotten' = TRUE
    BY <1>2, <2>3 DEF NothingIsMissing
  <2> QED
    BY <1>6, <2>2, <2>3
<1> QED
  BY <1>13, <1>14, <1>15, <1>16 DEF HandoffIInv

\* The parts of the invariant ...
LEMMA HandoffParts ==
    HandoffIInv => /\ FlagTypes /\ ChannelTypes /\ PipelineTypes /\ RequestTypes /\ TurnTypes
                   /\ PipelineShape /\ RequestShape /\ TurnShape /\ NothingIsMissing /\ GapsHaveACause
  BY TypesAre DEF HandoffIInv

\* ... are all of it.
LEMMA AllHandoffParts ==
    /\ FlagTypes /\ ChannelTypes /\ PipelineTypes /\ RequestTypes /\ TurnTypes
    /\ PipelineShape /\ RequestShape /\ TurnShape /\ NothingIsMissing /\ GapsHaveACause
    => HandoffIInv
  BY TypesAre DEF HandoffIInv

\* The parts in the next state.
LEMMA NextHandoffParts ==
    /\ FlagTypes' /\ ChannelTypes' /\ PipelineTypes' /\ RequestTypes' /\ TurnTypes'
    /\ PipelineShape' /\ RequestShape' /\ TurnShape' /\ NothingIsMissing' /\ GapsHaveACause'
    => HandoffIInv'
<1>1. (/\ FlagTypes /\ ChannelTypes /\ PipelineTypes /\ RequestTypes /\ TurnTypes
       /\ PipelineShape /\ RequestShape /\ TurnShape /\ NothingIsMissing /\ GapsHaveACause
       => HandoffIInv)'
  BY AllHandoffParts, PTL
<1> QED
  BY <1>1

\* The pipeline takes a frame.
LEMMA ReceiveFrameKeeps == ASSUME HandoffIInv, ReceiveFrame PROVE HandoffIInv'
<1>1. /\ FlagTypes /\ ChannelTypes /\ PipelineTypes /\ RequestTypes /\ TurnTypes
      /\ PipelineShape /\ RequestShape /\ TurnShape /\ NothingIsMissing /\ GapsHaveACause
  BY HandoffParts
<1>2. /\ UNCHANGED <<offset, turnFrames, overrun, ring, processed, event, written, kept, button>>
      /\ UNCHANGED <<queued, history, finishes, forgotten, active, nextOffset, listening, pcm, turn, gap>>
  BY DEF ReceiveFrame, coordinator, collecting
<1>3. wakeFrames # <<>> /\ wakeFrames \in Seq(CapturedFrames) /\ wakeFrames' = Tail(wakeFrames)
  BY <1>1 DEF ReceiveFrame, ChannelTypes
<1>4. PICK f \in CapturedFrames : Head(wakeFrames) = f
  BY <1>3
<1>5. PICK c : Samples(f, 0) = c
  OBVIOUS
<1>6. c \in Seq(1..MaxOffset) /\ Len(c) = f.length
  <2>1. 0 \in 0..f.length /\ f.length \in Nat
    BY FrameFields
  <2>2. f.length - 0 = f.length
    BY <2>1
  <2> QED
    BY <1>5, <2>1, <2>2, FrameSamples
<1>7. step' = step \o c
  BY <1>4, <1>5 DEF ReceiveFrame
<1>8. step' \in Seq(1..MaxOffset) /\ Len(step') = Len(step) + f.length
  <2>1. step \in Seq(1..MaxOffset) /\ c \in Seq(1..MaxOffset)
    BY <1>1, <1>6 DEF PipelineTypes
  <2>2. step \o c \in Seq(1..MaxOffset) /\ Len(step \o c) = Len(step) + Len(c)
    BY <2>1, Joined
  <2> QED
    BY <1>6, <1>7, <2>2
<1>9. processed \in Nat /\ Len(step) \in Nat /\ f.length \in Nat /\ offset \in Nat /\ f.offset \in Nat
      /\ End(f) = f.offset + f.length
  BY <1>1, FrameFields DEF PipelineTypes, ChannelTypes
<1>10. processed + Len(step) <= f.offset /\ InOrder(wakeFrames', End(f), offset)
  <2>1. PICK a \in Nat : processed + Len(step) = a
    BY <1>9
  <2>2. InOrder(wakeFrames, a, offset)
    BY <1>1, <2>1 DEF PipelineShape
  <2> QED
    BY <1>3, <1>4, <2>1, <2>2, LessInOrder
<1>11. wakeFrames' \in Seq(CapturedFrames) /\ Len(wakeFrames') <= WakeDepth
  <2>1. Len(wakeFrames') = Len(wakeFrames) - 1 /\ wakeFrames' \in Seq(CapturedFrames) /\ Len(wakeFrames) \in Nat
    BY <1>3
  <2> QED
    BY <1>1, <2>1, HandoffAssumption DEF ChannelTypes
<1>12. PipelineShape'
  <2>1. PICK a \in Nat : processed + Len(step') = a
    BY <1>8, <1>9
  <2>2. a <= End(f) /\ End(f) \in Nat
    BY <1>8, <1>9, <1>10, <2>1
  <2>3. InOrder(wakeFrames', a, offset)
    BY <1>9, <1>10, <1>11, <2>2, WiderInOrder
  <2>4. (processed + Len(step))' = a
    BY <1>2, <2>1
  <2> QED
    BY <1>1, <1>2, <2>3, <2>4 DEF PipelineShape
<1>13. ChannelTypes' /\ PipelineTypes'
  BY <1>1, <1>2, <1>8, <1>11 DEF ChannelTypes, PipelineTypes
<1>14. FlagTypes'
  BY <1>1, <1>2 DEF FlagTypes
<1>15. RequestTypes' /\ TurnTypes'
  BY <1>1, <1>2 DEF RequestTypes, TurnTypes
<1>16. RequestShape' /\ TurnShape' /\ NothingIsMissing' /\ GapsHaveACause'
  BY <1>1, <1>2, RequestsRest, TurnRests, FramesRest, GapRests
<1> QED
  BY <1>12, <1>13, <1>14, <1>15, <1>16, NextHandoffParts

\* A sequence in two.
LEMMA Divided ==
    ASSUME NEW S, NEW s \in Seq(S), NEW n \in Nat, n <= Len(s)
    PROVE  /\ SubSeq(s, 1, n) \in Seq(S) /\ Len(SubSeq(s, 1, n)) = n
           /\ SubSeq(s, n + 1, Len(s)) \in Seq(S) /\ Len(SubSeq(s, n + 1, Len(s))) = Len(s) - n
<1>1. PICK N \in Nat : Len(s) = N
  OBVIOUS
<1>2. SubSeq(s, 1, n) \in Seq(S) /\ Len(SubSeq(s, 1, n)) = n
  BY <1>1
<1>3. SubSeq(s, n + 1, N) \in Seq(S) /\ Len(SubSeq(s, n + 1, N)) = N - n
  BY <1>1
<1> QED
  BY <1>1, <1>2, <1>3

\* A detection's request is placed where its pre-roll is, and exactly if
\* nothing is missing from what the pipeline was handed.
LEMMA DetectionIsRequest ==
    ASSUME NEW C \in Nat, NEW w \in Seq(1..MaxOffset), NEW r, IsWindow(r, C, w, Len(w)), Len(w) <= MaxOffset,
           NEW n \in Nat, NEW e,
           e = [offset |-> Len(w) - Len(LatestSamples(r, n)), preRoll |-> LatestSamples(r, n), exact |-> IsWhole(w)]
    PROVE  e \in Requests /\ IsRequest(e)
<1>1. PICK l \in Nat : Len(w) = l
  OBVIOUS
<1>2. PICK k \in 0..C : r.length = k /\ k <= l
  BY <1>1 DEF IsWindow
<1>3. PICK c \in 0..k : Smaller(n, k) = c
  BY DEF Smaller
<1>4. PICK p : LatestSamples(r, n) = p
  OBVIOUS
<1>5. p \in Seq(Nat) /\ Len(p) = c /\ \A i \in 1..c : p[i] = w[l - c + i]
  <2>1. w \in Seq(Nat)
    BY Positions
  <2>2. IsLatest(LatestSamples(r, n), Smaller(n, r.length), w)
    BY <2>1, LatestAreLast
  <2>3. IsLatest(p, c, w)
    BY <1>2, <1>3, <1>4, <2>2
  <2> QED
    BY <1>1, <2>3 DEF IsLatest
<1>6. ASSUME NEW i \in 1..c PROVE l - c + i \in 1..l
  BY <1>2, <1>3
<1>7. ASSUME NEW i \in 1..c PROVE p[i] \in 1..MaxOffset
  <2>1. \A j \in 1..l : w[j] \in 1..MaxOffset
    <3>1. ASSUME NEW S, NEW u \in Seq(S), NEW j \in 1..Len(u) PROVE u[j] \in S
      OBVIOUS
    <3> QED
      BY <1>1, <3>1
  <2> QED
    BY <1>5, <1>6, <2>1
<1>8. p \in Seq(1..MaxOffset)
  BY <1>5, <1>7, Retyped
<1>9. PICK o \in 0..MaxOffset : l - c = o
  BY <1>1, <1>2, <1>3, HandoffAssumption
<1>10. PICK b \in BOOLEAN : IsWhole(w) = b
  BY DEF IsWhole
<1>11. e = [offset |-> o, preRoll |-> p, exact |-> b]
  BY <1>1, <1>4, <1>5, <1>9, <1>10
<1>12. e \in Requests
  BY <1>8, <1>11 DEF Requests
<1>13. e.offset = o /\ e.preRoll = p /\ e.exact = b
  BY <1>11
<1>14. ASSUME b PROVE IsFrom(p, o)
  <2>1. w = [i \in 1..l |-> i]
    BY <1>1, <1>10, <1>14 DEF IsWhole
  <2>2. ASSUME NEW i \in 1..c PROVE p[i] = o + i
    <3>1. PICK j \in 1..l : l - c + i = j
      BY <1>6
    <3>2. p[i] = w[j] /\ w[j] = j
      BY <1>5, <2>1, <3>1
    <3> QED
      BY <1>9, <3>1, <3>2
  <2> QED
    BY <1>5, <2>2 DEF IsFrom
<1>15. o + Len(p) <= MaxOffset
  BY <1>1, <1>5, <1>9
<1> QED
  BY <1>12, <1>13, <1>14, <1>15 DEF IsRequest

\* The pipeline processes a step.
LEMMA ProcessStepKeeps == ASSUME HandoffIInv, ProcessStep PROVE HandoffIInv'
<1>1. /\ FlagTypes /\ ChannelTypes /\ PipelineTypes /\ RequestTypes /\ TurnTypes
      /\ PipelineShape /\ RequestShape /\ TurnShape /\ NothingIsMissing /\ GapsHaveACause
  BY HandoffParts
<1>2. /\ UNCHANGED <<offset, wakeFrames, turnFrames, overrun, button>>
      /\ UNCHANGED <<queued, history, finishes, forgotten, active, nextOffset, listening, pcm, turn, gap>>
  BY DEF ProcessStep, fanout, coordinator, collecting
<1>3. PICK N \in Nat \ {0} : StepSamples = N
  BY HandoffAssumption
<1>4. PICK chunk : SubSeq(step, 1, N) = chunk
  OBVIOUS
<1>5. /\ Len(step) >= N /\ step' = SubSeq(step, N + 1, Len(step))
      /\ ring' = Write(ring, chunk) /\ written' = written \o chunk /\ processed' = processed + N
  BY <1>3, <1>4 DEF ProcessStep
<1>6. \/ event' = NoRequest
      \/ \E n \in PreRolls :
              event' = [offset |-> processed' - Len(LatestSamples(ring', n)),
                        preRoll |-> LatestSamples(ring', n), exact |-> IsWhole(written')]
  BY <1>3, <1>4 DEF ProcessStep
<1>7. step \in Seq(1..MaxOffset) /\ written \in Seq(1..MaxOffset) /\ processed \in 0..MaxOffset
      /\ offset \in 0..MaxOffset
  BY <1>1 DEF PipelineTypes, ChannelTypes
<1>8. /\ chunk \in Seq(1..MaxOffset) /\ Len(chunk) = N
      /\ step' \in Seq(1..MaxOffset) /\ Len(step') = Len(step) - N
  <2>1. N <= Len(step)
    BY <1>5, <1>7
  <2>2. /\ SubSeq(step, 1, N) \in Seq(1..MaxOffset) /\ Len(SubSeq(step, 1, N)) = N
        /\ SubSeq(step, N + 1, Len(step)) \in Seq(1..MaxOffset)
        /\ Len(SubSeq(step, N + 1, Len(step))) = Len(step) - N
    BY <1>7, <2>1, Divided
  <2> QED
    BY <1>4, <1>5, <2>2
<1>9. written' \in Seq(1..MaxOffset) /\ Len(written') = Len(written) + N
  <2>1. written \o chunk \in Seq(1..MaxOffset) /\ Len(written \o chunk) = Len(written) + Len(chunk)
    BY <1>7, <1>8, Joined
  <2> QED
    BY <1>5, <1>8, <2>1
<1>10. Len(step) >= N /\ processed' = processed + N /\ Len(step') = Len(step) - N /\ Len(written') = Len(written) + N
  BY <1>5, <1>8, <1>9
<1>11. Len(written') = processed' /\ processed' + Len(step') = processed + Len(step)
  <2>1. Len(written) = processed /\ Len(step) \in Nat
    BY <1>1, <1>7 DEF PipelineShape
  <2> QED
    BY <1>7, <1>10, <2>1
<1>12. processed' \in 0..MaxOffset
  <2>1. processed + Len(step) <= offset /\ Len(step) \in Nat
    BY <1>1, <1>7 DEF PipelineShape, InOrder
  <2> QED
    BY <1>7, <1>10, <2>1, HandoffAssumption
<1>13. PICK C \in Nat : Capacity(ring) = C /\ C \in PreRolls
  BY <1>1, HandoffAssumption DEF PipelineTypes
<1>14. /\ IsWindow(ring', C, written', Len(written'))
       /\ ring'.length = Smaller(ring.length + N, C)
  <2>1. written \in Seq(Nat) /\ chunk \in Seq(Nat)
    BY <1>7, <1>8, Positions
  <2>2. IsWindow(ring, C, written, Len(written))
    BY <1>1, <1>13 DEF PipelineShape
  <2>3. /\ IsWindow(Write(ring, chunk), C, written \o chunk, Len(written) + Len(chunk))
        /\ Write(ring, chunk).length = Smaller(ring.length + Len(chunk), C)
    BY <2>1, <2>2, WriteWindow
  <2> QED
    BY <1>5, <1>8, <1>9, <2>3
<1>15. Capacity(ring') = C
  <2>1. DOMAIN ring'.samples = 0..C - 1
    BY <1>14 DEF IsWindow
  <2> QED
    BY <2>1, CapacityIs
<1>16. ring'.length \in 0..C
  BY <1>14 DEF IsWindow
<1>17. PipelineShape'
  <2>1. kept' = Smaller(kept + N, C) /\ ring.length = kept
    BY <1>1, <1>3, <1>13 DEF ProcessStep, PipelineShape
  <2>2. ring'.length = kept'
    BY <1>14, <2>1
  <2>3. InOrder(wakeFrames', processed' + Len(step'), offset')
    BY <1>1, <1>2, <1>11 DEF PipelineShape
  <2> QED
    BY <1>11, <1>14, <1>15, <2>2, <2>3 DEF PipelineShape
<1>18. event' \in Requests /\ IsRequest(event')
  <2>1. CASE event' = NoRequest
    BY <2>1, NoRequestIsOne
  <2>2. ASSUME NEW n \in PreRolls,
               event' = [offset |-> processed' - Len(LatestSamples(ring', n)),
                         preRoll |-> LatestSamples(ring', n), exact |-> IsWhole(written')]
        PROVE  event' \in Requests /\ IsRequest(event')
    <3>1. PICK e : event' = e
      OBVIOUS
    <3>2. PICK w \in Seq(1..MaxOffset) : written' = w
      BY <1>9
    <3>3. PICK r : ring' = r
      OBVIOUS
    <3>4. n \in Nat /\ Len(w) <= MaxOffset /\ IsWindow(r, C, w, Len(w))
      BY <1>11, <1>12, <1>14, <3>2, <3>3, HandoffAssumption
    <3>5. e = [offset |-> Len(w) - Len(LatestSamples(r, n)), preRoll |-> LatestSamples(r, n), exact |-> IsWhole(w)]
      BY <1>11, <2>2, <3>1, <3>2, <3>3
    <3>6. e \in Requests /\ IsRequest(e)
      BY <3>4, <3>5, DetectionIsRequest
    <3> QED
      BY <3>1, <3>6
  <2> QED
    BY <1>6, <2>1, <2>2
<1>19. PipelineTypes'
  BY <1>8, <1>9, <1>12, <1>13, <1>15, <1>16 DEF PipelineTypes
<1>20. ChannelTypes' /\ FlagTypes' /\ TurnTypes'
  <2>1. ChannelTypes'
    BY <1>1, <1>2 DEF ChannelTypes
  <2>2. FlagTypes'
    BY <1>1, <1>2 DEF FlagTypes
  <2>3. TurnTypes'
    BY <1>1, <1>2 DEF TurnTypes
  <2> QED
    BY <2>1, <2>2, <2>3
<1>21. RequestTypes' /\ RequestShape'
  BY <1>1, <1>2, <1>18 DEF RequestTypes, RequestShape
<1>22. TurnShape' /\ NothingIsMissing' /\ GapsHaveACause'
  BY <1>1, <1>2, TurnRests, FramesRest, GapRests
<1> QED
  BY <1>17, <1>19, <1>20, <1>21, <1>22, NextHandoffParts

\* The ring grows.
LEMMA GrowRingKeeps == ASSUME HandoffIInv, NEW p \in PreRolls, GrowRing(p) PROVE HandoffIInv'
<1>1. /\ FlagTypes /\ ChannelTypes /\ PipelineTypes /\ RequestTypes /\ TurnTypes
      /\ PipelineShape /\ RequestShape /\ TurnShape /\ NothingIsMissing /\ GapsHaveACause
  BY HandoffParts
<1>2. /\ UNCHANGED <<offset, wakeFrames, turnFrames, overrun, button, step, processed, event, written, kept>>
      /\ UNCHANGED <<queued, history, finishes, forgotten, active, nextOffset, listening, pcm, turn, gap>>
      /\ ring' = EnsureDuration(ring, p)
  BY DEF GrowRing, fanout, coordinator, collecting
<1>3. PICK C \in Nat : Capacity(ring) = C /\ C \in PreRolls
  BY <1>1, HandoffAssumption DEF PipelineTypes
<1>4. PICK q : Larger(C, p) = q /\ IsWindow(ring', q, written, Len(written)) /\ ring'.length = ring.length
  <2>1. IsWindow(ring, C, written, Len(written)) /\ Len(written) \in Nat /\ p \in Nat
    BY <1>1, <1>3, HandoffAssumption DEF PipelineShape, PipelineTypes
  <2>2. IsWindow(EnsureDuration(ring, p), Larger(C, p), written, Len(written))
        /\ EnsureDuration(ring, p).length = ring.length
    BY <2>1, GrownWindow
  <2> QED
    BY <1>2, <2>2
<1>5. q \in PreRolls /\ q \in Nat /\ C <= q
  <2>1. p \in Nat
    BY HandoffAssumption
  <2> QED
    BY <1>3, <1>4, <2>1 DEF Larger
<1>6. Capacity(ring') = q
  <2>1. DOMAIN ring'.samples = 0..q - 1
    BY <1>4 DEF IsWindow
  <2> QED
    BY <1>5, <2>1, CapacityIs
<1>7. ring'.length \in 0..q
  BY <1>4 DEF IsWindow
<1>8. PipelineTypes'
  BY <1>1, <1>2, <1>5, <1>6, <1>7 DEF PipelineTypes
<1>9. PipelineShape'
  BY <1>1, <1>2, <1>4, <1>6 DEF PipelineShape
<1>10. ChannelTypes' /\ RequestTypes'
  BY <1>1, <1>2 DEF ChannelTypes, RequestTypes
<1>11. FlagTypes'
  BY <1>1, <1>2 DEF FlagTypes
<1>12. TurnTypes'
  BY <1>1, <1>2 DEF TurnTypes
<1>13. RequestShape' /\ TurnShape' /\ NothingIsMissing' /\ GapsHaveACause'
  BY <1>1, <1>2, RequestsRest, TurnRests, FramesRest, GapRests
<1> QED
  BY <1>8, <1>9, <1>10, <1>11, <1>12, <1>13, NextHandoffParts

\* What concerns requests only.
LEMMA RequestKeeps ==
    ASSUME HandoffIInv, UNCHANGED <<fanout, step, ring, processed, written, kept, history, finishes, forgotten, collecting>>,
           RequestTypes', RequestShape'
    PROVE  HandoffIInv'
<1>1. /\ FlagTypes /\ ChannelTypes /\ PipelineTypes /\ RequestTypes /\ TurnTypes
      /\ PipelineShape /\ RequestShape /\ TurnShape /\ NothingIsMissing /\ GapsHaveACause
  BY HandoffParts
<1>2. /\ UNCHANGED <<offset, wakeFrames, turnFrames, overrun, step, ring, processed, written, kept>>
      /\ UNCHANGED <<history, finishes, forgotten, active, nextOffset, listening, pcm, turn, gap>>
  BY DEF fanout, collecting
<1>3. ChannelTypes' /\ PipelineTypes'
  BY <1>1, <1>2 DEF ChannelTypes, PipelineTypes
<1>4. FlagTypes'
  BY <1>1, <1>2 DEF FlagTypes
<1>5. TurnTypes'
  BY <1>1, <1>2 DEF TurnTypes
<1>6. PipelineShape' /\ TurnShape' /\ NothingIsMissing' /\ GapsHaveACause'
  BY <1>1, <1>2, PipelineRests, TurnRests, FramesRest, GapRests
<1> QED
  BY <1>3, <1>4, <1>5, <1>6, NextHandoffParts

\* A detection is handed to the coordinator.
LEMMA TriggerWakeKeeps == ASSUME HandoffIInv, TriggerWake PROVE HandoffIInv'
<1>1. RequestTypes /\ RequestShape
  BY HandoffParts
<1>2. /\ UNCHANGED <<fanout, step, ring, processed, written, kept, history, finishes, forgotten, collecting>>
      /\ event' = NoRequest /\ button' = button /\ (queued' = queued \/ queued' = event)
  BY DEF TriggerWake, Trigger
<1>3. RequestTypes' /\ RequestShape'
  BY <1>1, <1>2, NoRequestIsOne DEF RequestTypes, RequestShape
<1> QED
  BY <1>2, <1>3, RequestKeeps

\* The button's handler reads where the audio is.
LEMMA ReadOffsetKeeps == ASSUME HandoffIInv, ReadOffset PROVE HandoffIInv'
<1>1. RequestTypes /\ RequestShape /\ TurnTypes
  BY HandoffParts
<1>2. /\ UNCHANGED <<fanout, step, ring, processed, written, kept, history, finishes, forgotten, collecting>>
      /\ event' = event /\ queued' = queued /\ button' = nextOffset
  BY DEF ReadOffset, pipeline, coordinator
<1>3. button' \in 0..NoOffset
  <2>1. nextOffset \in 0..MaxOffset
    BY <1>1 DEF TurnTypes
  <2> QED
    BY <1>2, <2>1, HandoffAssumption DEF NoOffset
<1>4. RequestTypes' /\ RequestShape'
  BY <1>1, <1>2, <1>3 DEF RequestTypes, RequestShape
<1> QED
  BY <1>2, <1>4, RequestKeeps

\* It requests a turn without a pre-roll.
LEMMA TriggerButtonKeeps == ASSUME HandoffIInv, TriggerButton PROVE HandoffIInv'
<1>1. RequestTypes /\ RequestShape
  BY HandoffParts
<1>2. PICK r : r = [offset |-> button, preRoll |-> <<>>, exact |-> TRUE]
  OBVIOUS
<1>3. /\ UNCHANGED <<fanout, step, ring, processed, written, kept, history, finishes, forgotten, collecting>>
      /\ event' = event /\ button' = NoOffset /\ (queued' = queued \/ queued' = r)
  BY <1>2 DEF TriggerButton, Trigger, pipeline
<1>4. button \in 0..MaxOffset
  <2>1. button \in 0..NoOffset /\ button # NoOffset
    BY <1>1 DEF TriggerButton, RequestTypes
  <2> QED
    BY <2>1, HandoffAssumption DEF NoOffset
<1>5. r \in Requests /\ IsRequest(r)
  <2>1. r \in Requests
    BY <1>2, <1>4 DEF Requests
  <2>2. r.offset = button /\ r.preRoll = <<>>
    BY <1>2
  <2>3. r.offset + Len(r.preRoll) <= MaxOffset
    BY <1>4, <2>2, HandoffAssumption
  <2>4. IsFrom(r.preRoll, r.offset)
    BY <2>2 DEF IsFrom
  <2> QED
    BY <2>1, <2>3, <2>4 DEF IsRequest
<1>6. NoOffset \in 0..NoOffset
  BY HandoffAssumption DEF NoOffset
<1>7. RequestTypes' /\ RequestShape'
  BY <1>1, <1>3, <1>5, <1>6 DEF RequestTypes, RequestShape
<1> QED
  BY <1>3, <1>7, RequestKeeps

\* The coordinator refuses a request.
LEMMA StartRefusedKeeps == ASSUME HandoffIInv, StartRefused PROVE HandoffIInv'
<1>1. RequestTypes /\ RequestShape
  BY HandoffParts
<1>2. /\ UNCHANGED <<fanout, step, ring, processed, written, kept, history, finishes, forgotten, collecting>>
      /\ event' = event /\ button' = button /\ queued' = NoRequest
  BY DEF StartRefused, pipeline
<1>3. RequestTypes' /\ RequestShape'
  BY <1>1, <1>2, NoRequestIsOne DEF RequestTypes, RequestShape
<1> QED
  BY <1>2, <1>3, RequestKeeps

\* Goroutines that were started are counted up to the bound.
LEMMA SpawnIsBounded ==
    ASSUME finishes \in 0..MaxFinishes, NEW n \in Nat, Spawn(n)
    PROVE  finishes' \in 0..MaxFinishes
<1>1. finishes' = Smaller(finishes + n, MaxFinishes)
  BY DEF Spawn
<1> QED
  BY <1>1, HandoffAssumption DEF Smaller

\* A turn starts.
LEMMA StartKeeps == ASSUME HandoffIInv, Start PROVE HandoffIInv'
<1>1. /\ FlagTypes /\ ChannelTypes /\ PipelineTypes /\ RequestTypes /\ TurnTypes
      /\ PipelineShape /\ RequestShape /\ TurnShape /\ NothingIsMissing /\ GapsHaveACause
  BY HandoffParts
<1>2. /\ UNCHANGED <<offset, wakeFrames, turnFrames, step, ring, processed, event, written, kept, button, history, forgotten>>
      /\ queued' = NoRequest /\ active' = TRUE /\ overrun' = FALSE
      /\ turn' = [begin |-> queued.offset, exact |-> queued.exact, hole |-> forgotten]
  BY DEF Start, pipeline
<1>3. PICK q \in Requests : queued = q
  BY <1>1 DEF RequestTypes
<1>4. PICK p \in Seq(1..MaxOffset) : q.preRoll = p
  BY DEF Requests
<1>5. PICK o \in 0..MaxOffset : q.offset = o
  BY DEF Requests
<1>6. PICK x \in BOOLEAN : q.exact = x
  BY DEF Requests
<1>7. PICK k \in Nat : Len(p) = k
  OBVIOUS
<1>8. o + k <= MaxOffset /\ (x => IsFrom(p, o))
  BY <1>1, <1>3, <1>4, <1>5, <1>6, <1>7 DEF RequestShape, IsRequest
<1>9. PICK t0 : t0 = [pcm |-> p, next |-> o + k, stop |-> "none"]
  OBVIOUS
<1>10. t0 \in SoFar /\ t0.stop = "none" /\ t0.pcm = p /\ t0.next = o + k
  <2>1. o + k \in 0..MaxOffset
    BY <1>8, HandoffAssumption
  <2> QED
    BY <1>9, <2>1 DEF SoFar
<1>11. PICK d \in 0..Len(history) :
         /\ pcm' = Replay(t0, d).pcm /\ nextOffset' = Replay(t0, d).next
         /\ gap' = (Replay(t0, d).stop = "gap") /\ listening' = (Replay(t0, d).stop # "verdict")
         /\ Spawn(Ends(Replay(t0, d)))
  BY <1>3, <1>4, <1>5, <1>7, <1>9 DEF Start
<1>12. PICK t : Replay(t0, d) = t
  OBVIOUS
<1>13. history \in Seq(CapturedFrames) /\ d \in Nat
  BY <1>1 DEF TurnTypes
<1>14. /\ t \in SoFar
       /\ \A b \in Nat : Placed(t0, b) => Placed(t, b)
       /\ \A h \in Nat : Seamless(history, 0, h) => t.stop # "gap" /\ (t.stop = "none" => h <= t.next)
  BY <1>10, <1>12, <1>13, ReplayOutcome
<1>15. /\ pcm' = t.pcm /\ nextOffset' = t.next /\ gap' = (t.stop = "gap") /\ listening' = (t.stop # "verdict")
       /\ Spawn(Ends(t))
  BY <1>11, <1>12
<1>16. turn' = [begin |-> o, exact |-> x, hole |-> forgotten]
  BY <1>2, <1>3, <1>5, <1>6
<1>17. PICK y \in BOOLEAN : forgotten = y
  BY <1>1 DEF FlagTypes
<1>18. /\ turn' \in [begin : 0..MaxOffset, exact : BOOLEAN, hole : BOOLEAN]
       /\ turn'.begin = o /\ turn'.exact = x /\ turn'.hole = y
  <2>1. turn' = [begin |-> o, exact |-> x, hole |-> y]
    BY <1>16, <1>17
  <2> QED
    BY <2>1, Zenon
<1>19. x => IsFrom(t.pcm, o) /\ t.next = o + Len(t.pcm)
  <2>1. x => Placed(t0, o)
    BY <1>7, <1>8, <1>10 DEF Placed
  <2> QED
    BY <1>14, <2>1 DEF Placed
<1>20. ASSUME ~y
       PROVE  \E h \in 0..MaxOffset : /\ Seamless(turnFrames, h, offset) /\ t.stop # "gap"
                                      /\ t.stop = "none" => h <= t.next
  <2>1. PICK h \in 0..MaxOffset : Seamless(history, 0, h) /\ Seamless(turnFrames, h, offset)
    BY <1>1, <1>17, <1>20 DEF NothingIsMissing
  <2>2. t.stop # "gap" /\ (t.stop = "none" => h <= t.next)
    BY <1>14, <2>1
  <2> QED
    BY <2>1, <2>2
<1>21. TurnShape'
  BY <1>2, <1>15, <1>18, <1>19 DEF TurnShape
<1>22. NothingIsMissing'
  <2>1. ~forgotten' =>
           \E h \in 0..MaxOffset : Seamless(history', 0, h) /\ Seamless(turnFrames', h, offset')
    BY <1>1, <1>2 DEF NothingIsMissing
  <2>2. ASSUME listening', ~turn'.hole
        PROVE  \E h \in 0..MaxOffset : h <= nextOffset' /\ Seamless(turnFrames', h, offset')
    <3>1. t.stop # "verdict" /\ ~y
      BY <1>15, <1>18, <2>2
    <3>2. PICK h \in 0..MaxOffset : Seamless(turnFrames, h, offset) /\ t.stop # "gap"
                                    /\ (t.stop = "none" => h <= t.next)
      BY <1>20, <3>1
    <3>3. t.stop = "none"
      BY <1>14, <3>1, <3>2 DEF SoFar
    <3> QED
      BY <1>2, <1>15, <3>2, <3>3
  <2> QED
    BY <2>1, <2>2 DEF NothingIsMissing
<1>23. GapsHaveACause'
  <2>1. ~y => t.stop # "gap"
    BY <1>20
  <2> QED
    BY <1>15, <1>18, <2>1 DEF GapsHaveACause
<1>24. TurnTypes'
  <2>1. finishes \in 0..MaxFinishes
    BY <1>1 DEF TurnTypes
  <2>2. finishes' \in 0..MaxFinishes
    <3>1. PICK n \in Nat : Ends(t) = n
      BY DEF Ends
    <3> QED
      BY <1>15, <2>1, <3>1, SpawnIsBounded
  <2>3. nextOffset' \in 0..MaxOffset /\ pcm' \in Seq(1..MaxOffset)
    BY <1>14, <1>15 DEF SoFar
  <2> QED
    BY <1>1, <1>2, <1>18, <2>2, <2>3 DEF TurnTypes
<1>25. FlagTypes'
  <2>1. gap' \in BOOLEAN /\ listening' \in BOOLEAN
    BY <1>15
  <2> QED
    BY <1>1, <1>2, <2>1 DEF FlagTypes
<1>26. ChannelTypes' /\ PipelineTypes'
  BY <1>1, <1>2 DEF ChannelTypes, PipelineTypes
<1>27. RequestTypes' /\ RequestShape'
  BY <1>1, <1>2, NoRequestIsOne DEF RequestTypes, RequestShape
<1>28. PipelineShape'
  BY <1>1, <1>2, PipelineRests
<1> QED
  BY <1>21, <1>22, <1>23, <1>24, <1>25, <1>26, <1>27, <1>28, NextHandoffParts

\* What concerns the turn and its frames only.
LEMMA ObserveKeeps ==
    ASSUME HandoffIInv, UNCHANGED <<offset, wakeFrames, pipeline, button, queued>>,
           turnFrames' \in Seq(CapturedFrames), Len(turnFrames') <= TurnDepth,
           FlagTypes', TurnTypes', TurnShape', NothingIsMissing', GapsHaveACause'
    PROVE  HandoffIInv'
<1>1. /\ ChannelTypes /\ PipelineTypes /\ RequestTypes
      /\ PipelineShape /\ RequestShape
  BY HandoffParts
<1>2. UNCHANGED <<offset, wakeFrames, step, ring, processed, written, kept, event, button, queued>>
  BY DEF pipeline
<1>3. ChannelTypes' /\ PipelineTypes' /\ RequestTypes'
  BY <1>1, <1>2 DEF ChannelTypes, PipelineTypes, RequestTypes
<1>4. PipelineShape' /\ RequestShape'
  BY <1>1, <1>2, PipelineRests, RequestsRest
<1> QED
  BY <1>3, <1>4, NextHandoffParts

\* The frame that is taken is the next that was captured.
LEMMA TakenFrame ==
    ASSUME ChannelTypes, TakesFrame
    PROVE  /\ turnFrames # <<>> /\ turnFrames' = Tail(turnFrames) /\ Head(turnFrames) \in CapturedFrames
           /\ turnFrames' \in Seq(CapturedFrames) /\ Len(turnFrames') <= TurnDepth
<1>1. turnFrames # <<>> /\ turnFrames \in Seq(CapturedFrames) /\ Len(turnFrames) <= TurnDepth
      /\ turnFrames' = Tail(turnFrames)
  BY DEF ChannelTypes, TakesFrame
<1>2. Head(turnFrames) \in CapturedFrames
  BY <1>1
<1>3. Len(turnFrames') = Len(turnFrames) - 1 /\ turnFrames' \in Seq(CapturedFrames) /\ Len(turnFrames) \in Nat
  BY <1>1
<1>4. Len(turnFrames') <= TurnDepth
  BY <1>1, <1>3, HandoffAssumption
<1> QED
  BY <1>1, <1>2, <1>3, <1>4

\* A frame is observed without a turn.
LEMMA ObserveIdleKeeps == ASSUME HandoffIInv, ObserveIdle PROVE HandoffIInv'
<1>1. /\ FlagTypes /\ ChannelTypes /\ PipelineTypes /\ RequestTypes /\ TurnTypes
      /\ PipelineShape /\ RequestShape /\ TurnShape /\ NothingIsMissing /\ GapsHaveACause
  BY HandoffParts
<1>2. /\ UNCHANGED <<offset, wakeFrames, overrun, pipeline, button, queued, active, turn, finishes, pcm, gap>>
      /\ ~active /\ TakesFrame
      /\ nextOffset' = End(Head(turnFrames)) /\ remember(Head(turnFrames))
      /\ listening' \in {listening, FALSE}
  BY DEF ObserveIdle, TakesFrame
<1>3. /\ turnFrames # <<>> /\ turnFrames' = Tail(turnFrames) /\ Head(turnFrames) \in CapturedFrames
      /\ turnFrames' \in Seq(CapturedFrames) /\ Len(turnFrames') <= TurnDepth
  BY <1>1, <1>2, TakenFrame
<1>4. PICK f \in CapturedFrames : Head(turnFrames) = f
  BY <1>3
<1>5. turnFrames \in Seq(CapturedFrames) /\ history \in Seq(CapturedFrames)
  BY <1>1 DEF ChannelTypes, TurnTypes
<1>6. /\ history' \in Seq(CapturedFrames)
      /\ HistorySize(history') <= turnHandoffHistorySamples
      /\ forgotten' \in BOOLEAN
      /\ ~forgotten' => ~forgotten /\ history' = Append(history, f)
  <2>1. remember(f)
    BY <1>2, <1>4
  <2> QED
    BY <1>5, <2>1, RememberOutcome
<1>7. nextOffset' \in 0..MaxOffset
  <2>1. End(f) \in 1..MaxOffset
    BY FrameFields
  <2> QED
    BY <1>2, <1>4, <2>1
<1>8. FlagTypes'
  BY <1>1, <1>2, <1>6 DEF FlagTypes
<1>9. TurnTypes'
  BY <1>1, <1>2, <1>6, <1>7 DEF TurnTypes
<1>10. TurnShape'
  <2>1. ~turn.exact
    BY <1>1, <1>2 DEF TurnShape
  <2> QED
    BY <1>2, <2>1 DEF TurnShape
<1>11. NothingIsMissing'
  <2>1. ASSUME ~forgotten'
        PROVE  \E h \in 0..MaxOffset : Seamless(history', 0, h) /\ Seamless(turnFrames', h, offset')
    <3>1. PICK h \in 0..MaxOffset : Seamless(history, 0, h) /\ Seamless(turnFrames, h, offset)
      BY <1>1, <1>6, <2>1 DEF NothingIsMissing
    <3>2. f.offset = h /\ Seamless(turnFrames', End(f), offset)
      <4>1. Head(turnFrames).offset = h /\ Seamless(Tail(turnFrames), End(Head(turnFrames)), offset)
        BY <1>3, <1>5, <3>1, LessSeamless
      <4> QED
        BY <1>3, <1>4, <4>1
    <3>3. Seamless(Append(history, f), 0, End(f))
      <4>1. Seamless(history, 0, f.offset)
        BY <3>1, <3>2
      <4> QED
        BY <1>5, <4>1, MoreSeamless
    <3>4. End(f) \in 0..MaxOffset
      BY <1>2, <1>4, <1>7
    <3>5. PICK e \in 0..MaxOffset : End(f) = e
      BY <3>4
    <3>6. Seamless(history', 0, e) /\ Seamless(turnFrames', e, offset')
      BY <1>2, <1>6, <2>1, <3>2, <3>3, <3>5
    <3> QED
      BY <3>6
  <2>2. ~active'
    BY <1>2
  <2> QED
    BY <2>1, <2>2 DEF NothingIsMissing
<1>12. GapsHaveACause'
  BY <1>1, <1>2, GapRests
<1>13. UNCHANGED <<offset, wakeFrames, pipeline, button, queued>>
  BY <1>2
<1> QED
  BY <1>3, <1>8, <1>9, <1>10, <1>11, <1>12, <1>13, ObserveKeeps

\* A frame is observed in a turn that has lost one.
LEMMA ObserveOverrunKeeps == ASSUME HandoffIInv, ObserveOverrun PROVE HandoffIInv'
<1>1. /\ FlagTypes /\ ChannelTypes /\ PipelineTypes /\ RequestTypes /\ TurnTypes
      /\ PipelineShape /\ RequestShape /\ TurnShape /\ NothingIsMissing /\ GapsHaveACause
  BY HandoffParts
<1>2. /\ UNCHANGED <<offset, wakeFrames, overrun, pipeline, button, queued, active, turn>>
      /\ UNCHANGED <<nextOffset, history, listening, pcm, gap>>
      /\ overrun /\ TakesFrame /\ Spawn(1) /\ forgotten' = TRUE
  BY DEF ObserveOverrun, TakesFrame
<1>3. turnFrames' \in Seq(CapturedFrames) /\ Len(turnFrames') <= TurnDepth
  BY <1>1, <1>2, TakenFrame
<1>4. FlagTypes'
  BY <1>1, <1>2 DEF FlagTypes
<1>5. finishes' \in 0..MaxFinishes
  <2>1. finishes \in 0..MaxFinishes
    BY <1>1 DEF TurnTypes
  <2> QED
    BY <1>2, <2>1, SpawnIsBounded
<1>6. TurnTypes'
  BY <1>1, <1>2, <1>5 DEF TurnTypes
<1>7. TurnShape' /\ GapsHaveACause'
  BY <1>1, <1>2, TurnRests, GapRests
<1>8. NothingIsMissing'
  BY <1>2 DEF NothingIsMissing
<1>9. UNCHANGED <<offset, wakeFrames, pipeline, button, queued>>
  BY <1>2
<1> QED
  BY <1>3, <1>4, <1>6, <1>7, <1>8, <1>9, ObserveKeeps

\* A frame is observed in a turn.
LEMMA ObserveTurnKeeps == ASSUME HandoffIInv, ObserveTurn PROVE HandoffIInv'
<1>1. /\ FlagTypes /\ ChannelTypes /\ PipelineTypes /\ RequestTypes /\ TurnTypes
      /\ PipelineShape /\ RequestShape /\ TurnShape /\ NothingIsMissing /\ GapsHaveACause
  BY HandoffParts
<1>2. /\ UNCHANGED <<offset, wakeFrames, overrun, pipeline, button, queued, active, turn, history>>
      /\ active /\ ~overrun /\ TakesFrame /\ forgotten' = TRUE
  BY DEF ObserveTurn, TakesFrame
<1>3. /\ turnFrames # <<>> /\ turnFrames' = Tail(turnFrames) /\ Head(turnFrames) \in CapturedFrames
      /\ turnFrames' \in Seq(CapturedFrames) /\ Len(turnFrames') <= TurnDepth
  BY <1>1, <1>2, TakenFrame
<1>4. PICK f \in CapturedFrames : Head(turnFrames) = f
  BY <1>3
<1>5. turnFrames \in Seq(CapturedFrames) /\ pcm \in Seq(1..MaxOffset) /\ nextOffset \in 0..MaxOffset
      /\ finishes \in 0..MaxFinishes
  BY <1>1 DEF ChannelTypes, TurnTypes
<1>6. PICK t0 : t0 = [pcm |-> pcm, next |-> nextOffset, stop |-> "none"]
  OBVIOUS
<1>7. t0 \in SoFar /\ t0.pcm = pcm /\ t0.next = nextOffset /\ t0.stop = "none"
  BY <1>5, <1>6 DEF SoFar
<1>8. PICK t : appendFrame(t0, f) = t
  OBVIOUS
<1>9. /\ t \in SoFar
      /\ f.offset <= t0.next => t.stop = t0.stop /\ End(f) <= t.next
      /\ \A b \in Nat : Placed(t0, b) => Placed(t, b)
  BY <1>7, <1>8, AppendFrameOutcome
<1>10. /\ pcm' = t.pcm /\ nextOffset' = t.next
       /\ gap' = (gap \/ (listening /\ t.stop = "gap"))
  BY <1>4, <1>6, <1>8 DEF ObserveTurn
<1>11. /\ listening' = listening \/ listening' = FALSE
       /\ Spawn(Ends(t)) \/ Spawn(1)
  BY <1>4, <1>6, <1>8 DEF ObserveTurn
<1>12. ASSUME listening, turn.exact, ~turn.hole
       PROVE  /\ t.stop # "gap"
              /\ \E h \in 0..MaxOffset : h <= nextOffset' /\ Seamless(turnFrames', h, offset')
  <2>1. PICK h \in 0..MaxOffset : h <= nextOffset /\ Seamless(turnFrames, h, offset)
    BY <1>1, <1>2, <1>12 DEF NothingIsMissing
  <2>2. f.offset = h /\ Seamless(turnFrames', End(f), offset)
    <3>1. Head(turnFrames).offset = h /\ Seamless(Tail(turnFrames), End(Head(turnFrames)), offset)
      BY <1>3, <1>5, <2>1, LessSeamless
    <3> QED
      BY <1>3, <1>4, <3>1
  <2>3. t.stop = "none" /\ End(f) <= nextOffset'
    BY <1>7, <1>9, <1>10, <2>1, <2>2
  <2>4. PICK e \in 0..MaxOffset : End(f) = e
    <3>1. End(f) \in 1..MaxOffset
      BY FrameFields
    <3> QED
      BY <3>1
  <2>5. e <= nextOffset' /\ Seamless(turnFrames', e, offset')
    BY <1>2, <2>2, <2>3, <2>4
  <2> QED
    BY <2>3, <2>5
<1>13. TurnShape'
  <2>1. ASSUME turn.exact PROVE IsFrom(t.pcm, turn.begin) /\ t.next = turn.begin + Len(t.pcm)
    <3>1. turn.begin \in Nat
      BY <1>1 DEF TurnTypes
    <3>2. Placed(t0, turn.begin)
      BY <1>1, <1>2, <1>7, <2>1 DEF TurnShape, Placed
    <3>3. Placed(t, turn.begin)
      BY <1>9, <3>1, <3>2
    <3> QED
      BY <3>3 DEF Placed
  <2> QED
    BY <1>2, <1>10, <2>1 DEF TurnShape
<1>14. NothingIsMissing'
  BY <1>2, <1>11, <1>12 DEF NothingIsMissing
<1>15. GapsHaveACause'
  <2>1. gap /\ turn.exact => turn.hole
    BY <1>1 DEF GapsHaveACause
  <2> QED
    BY <1>2, <1>10, <1>12, <2>1 DEF GapsHaveACause
<1>16. TurnTypes'
  <2>1. finishes' \in 0..MaxFinishes
    <3>1. PICK n \in Nat : Ends(t) = n
      BY DEF Ends
    <3>2. Spawn(n) \/ Spawn(1)
      BY <1>11, <3>1
    <3> QED
      BY <1>5, <3>2, SpawnIsBounded
  <2>2. nextOffset' \in 0..MaxOffset /\ pcm' \in Seq(1..MaxOffset)
    BY <1>9, <1>10 DEF SoFar
  <2> QED
    BY <1>1, <1>2, <2>1, <2>2 DEF TurnTypes
<1>17. FlagTypes'
  <2>1. gap' \in BOOLEAN
    BY <1>10
  <2> QED
    BY <1>1, <1>2, <1>11, <2>1 DEF FlagTypes
<1>18. UNCHANGED <<offset, wakeFrames, pipeline, button, queued>>
  BY <1>2
<1> QED
  BY <1>3, <1>13, <1>14, <1>15, <1>16, <1>17, <1>18, ObserveKeeps

\* The active turn ends.
LEMMA finishKeeps == ASSUME HandoffIInv, finish PROVE HandoffIInv'
<1>1. /\ FlagTypes /\ ChannelTypes /\ PipelineTypes /\ RequestTypes /\ TurnTypes
      /\ PipelineShape /\ RequestShape /\ TurnShape /\ NothingIsMissing /\ GapsHaveACause
  BY HandoffParts
<1>2. /\ UNCHANGED <<offset, wakeFrames, turnFrames, pipeline, button, queued, history, forgotten, nextOffset, listening>>
      /\ finishes > 0 /\ finishes' = finishes - 1
      /\ active' = FALSE /\ overrun' = FALSE /\ pcm' = <<>> /\ gap' = FALSE /\ turn' = NoTurn
  BY DEF finish
<1>3. NoTurn \in [begin : 0..MaxOffset, exact : BOOLEAN, hole : BOOLEAN] /\ ~NoTurn.exact
  BY HandoffAssumption DEF NoTurn
<1>4. FlagTypes'
  BY <1>1, <1>2 DEF FlagTypes
<1>5. TurnTypes'
  <2>1. finishes' \in 0..MaxFinishes
    BY <1>1, <1>2, HandoffAssumption DEF TurnTypes
  <2> QED
    BY <1>1, <1>2, <1>3, <2>1 DEF TurnTypes
<1>6. TurnShape' /\ GapsHaveACause'
  BY <1>2, <1>3 DEF TurnShape, GapsHaveACause
<1>7. NothingIsMissing'
  BY <1>1, <1>2 DEF NothingIsMissing
<1>8. turnFrames' \in Seq(CapturedFrames) /\ Len(turnFrames') <= TurnDepth
  BY <1>1, <1>2 DEF ChannelTypes
<1>9. UNCHANGED <<offset, wakeFrames, pipeline, button, queued>>
  BY <1>2
<1> QED
  BY <1>4, <1>5, <1>6, <1>7, <1>8, <1>9, ObserveKeeps

\* No step breaks the invariant.
LEMMA HandoffNext == ASSUME HandoffIInv, [Next]_vars PROVE HandoffIInv'
<1>1. ASSUME UNCHANGED vars PROVE HandoffIInv'
  <2>1. /\ FlagTypes /\ ChannelTypes /\ PipelineTypes /\ RequestTypes /\ TurnTypes
        /\ PipelineShape /\ RequestShape /\ TurnShape /\ NothingIsMissing /\ GapsHaveACause
    BY HandoffParts
  <2>2. UNCHANGED <<fanout, step, ring, processed, written, kept, history, finishes, forgotten, collecting>>
        /\ UNCHANGED <<event, button, queued>>
    BY <1>1 DEF vars, pipeline, coordinator
  <2>3. RequestTypes' /\ RequestShape'
    BY <2>1, <2>2 DEF RequestTypes, RequestShape
  <2> QED
    BY <2>2, <2>3, RequestKeeps
<1>2. CASE \E n \in 1..StepSamples : Emit(n)
  BY <1>2, EmitKeeps
<1>3. CASE ReceiveFrame \/ ProcessStep \/ \E n \in PreRolls : GrowRing(n)
  BY <1>3, ReceiveFrameKeeps, ProcessStepKeeps, GrowRingKeeps
<1>4. CASE TriggerWake \/ ReadOffset \/ TriggerButton
  BY <1>4, TriggerWakeKeeps, ReadOffsetKeeps, TriggerButtonKeeps
<1>5. CASE StartRefused \/ Start
  BY <1>5, StartRefusedKeeps, StartKeeps
<1>6. CASE ObserveIdle \/ ObserveOverrun \/ ObserveTurn \/ finish
  BY <1>6, ObserveIdleKeeps, ObserveOverrunKeeps, ObserveTurnKeeps, finishKeeps
<1> QED
  BY <1>1, <1>2, <1>3, <1>4, <1>5, <1>6 DEF Next

\* A sequence is a function.
LEMMA FunctionIs == ASSUME NEW S, NEW s \in Seq(S) PROVE s \in [1..Len(s) -> S]
  OBVIOUS

\* Sequences with the same elements are the same.
LEMMA SameSequences ==
    ASSUME NEW S, NEW s \in Seq(S), NEW t \in Seq(S), Len(s) = Len(t), \A i \in 1..Len(s) : s[i] = t[i]
    PROVE  s = t
<1>1. PICK k \in Nat : Len(s) = k
  OBVIOUS
<1>2. s \in [1..k -> S] /\ t \in [1..k -> S]
  BY <1>1, FunctionIs
<1>3. \A i \in 1..k : s[i] = t[i]
  BY <1>1
<1> QED
  BY <1>2, <1>3

\* The last elements of a sequence.
LEMMA LastAre ==
    ASSUME NEW S, NEW w \in Seq(S), NEW l \in Nat, Len(w) = l, NEW c \in 0..l
    PROVE  /\ SubSeq(w, l - c + 1, l) \in Seq(S) /\ Len(SubSeq(w, l - c + 1, l)) = c
           /\ \A i \in 1..c : SubSeq(w, l - c + 1, l)[i] = w[l - c + i]
<1>1. PICK a \in 1..l + 1 : l - c + 1 = a
  OBVIOUS
<1>2. l - a + 1 = c /\ a <= l + 1
  BY <1>1
<1>3. SubSeq(w, a, l) \in Seq(S) /\ Len(SubSeq(w, a, l)) = l - a + 1
  BY <1>1
<1>4. \A i \in 1..(l - a + 1) : SubSeq(w, a, l)[i] = w[a + i - 1]
  BY <1>1
<1>5. \A i \in 1..c : a + i - 1 = l - c + i
  BY <1>1
<1> QED
  BY <1>1, <1>2, <1>3, <1>4, <1>5

\* The invariant gives the one that is checked: a sequence whose elements are
\* known is the function.
LEMMA HandoffIInvImplies == HandoffIInv => HandoffInvariant
<1> SUFFICES ASSUME HandoffIInv PROVE HandoffInvariant
  OBVIOUS
<1>1. TypeOK /\ GapsHaveACause
  BY DEF HandoffIInv, HandoffTypes
<1>2. TurnIsSeamless
  <2>1. TurnTypes /\ TurnShape
    BY HandoffParts
  <2>2. SUFFICES ASSUME active, turn.exact
        PROVE  pcm = [i \in 1..Len(pcm) |-> turn.begin + i] /\ nextOffset = turn.begin + Len(pcm)
    BY DEF TurnIsSeamless
  <2>3. IsFrom(pcm, turn.begin) /\ nextOffset = turn.begin + Len(pcm)
    BY <2>1, <2>2 DEF TurnShape
  <2>4. PICK k \in Nat : Len(pcm) = k
    BY <2>1 DEF TurnTypes
  <2>5. pcm \in [1..k -> 1..MaxOffset]
    <3>1. pcm \in Seq(1..MaxOffset)
      BY <2>1 DEF TurnTypes
    <3> QED
      BY <2>4, <3>1, FunctionIs
  <2>6. pcm = [i \in 1..k |-> turn.begin + i]
    BY <2>3, <2>4, <2>5 DEF IsFrom
  <2> QED
    BY <2>3, <2>4, <2>6
<1> QED
  BY <1>1, <1>2 DEF HandoffInvariant

\* What the ring holds is what was written last.
LEMMA HandoffIInvImpliesRing == HandoffIInv => RingHoldsLatest
<1> SUFFICES ASSUME HandoffIInv PROVE RingHoldsLatest
  OBVIOUS
<1>1. PipelineTypes /\ PipelineShape
  BY HandoffParts
<1>2. PICK C \in Nat : Capacity(ring) = C
  BY <1>1, HandoffAssumption DEF PipelineTypes
<1>3. IsWindow(ring, C, written, Len(written)) /\ written \in Seq(Nat)
  BY <1>1, <1>2, Positions DEF PipelineShape, PipelineTypes
<1>4. PICK l \in Nat : Len(written) = l
  BY <1>3
<1>5. PICK k \in 0..C : ring.length = k /\ k <= l
  BY <1>3, <1>4 DEF IsWindow
<1>6. ASSUME NEW n \in PreRolls
      PROVE  LatestSamples(ring, n) = LastOf(written, Smaller(n, kept))
  <2>1. n \in Nat
    BY HandoffAssumption
  <2>2. PICK c \in 0..k : Smaller(n, k) = c
    BY <2>1 DEF Smaller
  <2>3. PICK t : LatestSamples(ring, n) = t
    OBVIOUS
  <2>4. IsLatest(t, c, written)
    BY <1>3, <1>5, <2>1, <2>2, <2>3, LatestAreLast
  <2>5. t \in Seq(Nat) /\ Len(t) = c /\ \A i \in 1..c : t[i] = written[l - c + i]
    BY <1>4, <2>4 DEF IsLatest
  <2>6. PICK u : SubSeq(written, l - c + 1, l) = u
    OBVIOUS
  <2>7. LastOf(written, Smaller(n, kept)) = u
    <3>1. Smaller(c, l) = c
      BY <1>5 DEF Smaller
    <3>2. kept = k
      BY <1>1, <1>5 DEF PipelineShape
    <3> QED
      BY <1>4, <2>2, <2>6, <3>1, <3>2 DEF LastOf
  <2>8. u \in Seq(Nat) /\ Len(u) = c /\ \A i \in 1..c : u[i] = written[l - c + i]
    <3>1. c \in 0..l
      BY <1>5
    <3>2. /\ SubSeq(written, l - c + 1, l) \in Seq(Nat) /\ Len(SubSeq(written, l - c + 1, l)) = c
          /\ \A i \in 1..c : SubSeq(written, l - c + 1, l)[i] = written[l - c + i]
      BY <1>3, <1>4, <3>1, LastAre
    <3> QED
      BY <2>6, <3>2
  <2>9. t = u
    <3>1. Len(t) = Len(u) /\ \A i \in 1..Len(t) : t[i] = u[i]
      BY <2>5, <2>8
    <3> QED
      BY <2>5, <2>8, <3>1, SameSequences
  <2> QED
    BY <2>3, <2>7, <2>9
<1> QED
  BY <1>6 DEF RingHoldsLatest

\* HandoffInvariant: a turn that was placed before the wake subscription lost
\* a frame is the captured audio from its position on, every sample once and
\* none left out, and a frame that does not join it has a cause; for all sizes
\* of steps, channels, pre-rolls and history (turnCoordinator.start, observe,
\* appendFrame and remember with Pipeline.processStep and Fanout.Run).
THEOREM HandoffSafe == Spec => []HandoffInvariant
<1>1. Init => HandoffIInv
  BY HandoffInit
<1>2. HandoffIInv /\ [Next]_vars => HandoffIInv'
  BY HandoffNext
<1> QED
  BY <1>1, <1>2, HandoffIInvImplies, PTL DEF Spec

\* RingHoldsLatest: Ring.Tail gives the latest samples in their order, as many as
\* had room since they were written, whatever portions Write was given and however
\* often EnsureDuration grew the array, which loses none of them.
THEOREM RingIsWindow == Spec => []RingHoldsLatest
<1>1. Init => HandoffIInv
  BY HandoffInit
<1>2. HandoffIInv /\ [Next]_vars => HandoffIInv'
  BY HandoffNext
<1> QED
  BY <1>1, <1>2, HandoffIInvImpliesRing, PTL DEF Spec

-----------------------------------------------------------------------------

-----------------------------------------------------------------------------
(* The engine: counting windows.                                           *)

\* Division by what an operator retires.
LEMMA Quotient ==
    ASSUME NEW n \in Nat, NEW s \in Nat \ {0}
    PROVE  /\ n \div s \in Nat /\ (n \div s) * s <= n /\ n < (n \div s + 1) * s
  OBVIOUS

\* Products with the same factor are in the order of the others.
LEMMA Ordered ==
    ASSUME NEW s \in Nat, NEW a \in Nat, NEW b \in Nat
    PROVE  /\ a * s \in Nat /\ (a <= b => a * s <= b * s) /\ (a * s < b * s => a < b)
           /\ (a + b) * s = a * s + b * s /\ (a + 1) * s = a * s + s
  OBVIOUS

\* How many windows of so many rows there are in n rows when each begins s rows
\* behind the one before it.
Fits(s, width, n) == IF n < width THEN 0 ELSE (n - width) \div s + 1

\* The k-th window is there when its last row is.
LEMMA FitsIs ==
    ASSUME NEW s \in Nat \ {0}, NEW width \in Nat \ {0}, NEW n \in Nat
    PROVE  /\ Fits(s, width, n) \in Nat
           /\ \A k \in Nat \ {0} : k <= Fits(s, width, n) <=> (k - 1) * s + width <= n
<1>1. CASE n < width
  <2>1. Fits(s, width, n) = 0
    BY <1>1 DEF Fits
  <2>2. ASSUME NEW k \in Nat \ {0} PROVE ~((k - 1) * s + width <= n)
    <3>1. k - 1 \in Nat
      OBVIOUS
    <3>2. (k - 1) * s \in Nat
      BY <3>1
    <3> QED
      BY <1>1, <3>2
  <2> QED
    BY <2>1, <2>2
<1>2. CASE n >= width
  <2>1. PICK m \in Nat : n = m + width
    <3>1. n - width \in Nat /\ n = (n - width) + width
      BY <1>2
    <3> QED
      BY <3>1
  <2>2. PICK q \in Nat : m \div s = q /\ q * s <= m /\ m < (q + 1) * s
    BY Quotient
  <2>3. Fits(s, width, n) = q + 1
    <3>1. ~(n < width) /\ n - width = m
      BY <1>2, <2>1
    <3> QED
      BY <2>2, <3>1 DEF Fits
  <2>4. ASSUME NEW k \in Nat \ {0} PROVE k <= q + 1 <=> (k - 1) * s + width <= n
    <3>1. PICK j \in Nat : k - 1 = j
      OBVIOUS
    <3>2. k <= q + 1 <=> j <= q
      BY <3>1
    <3>3. j <= q => j * s <= m
      <4>1. j * s \in Nat /\ q * s \in Nat /\ (j <= q => j * s <= q * s)
        BY Ordered
      <4> QED
        BY <2>2, <4>1
    <3>4. j * s <= m => j <= q
      <4>1. j * s \in Nat /\ (q + 1) * s \in Nat /\ (j * s < (q + 1) * s => j < q + 1)
        BY Ordered
      <4> QED
        BY <2>2, <4>1
    <3>5. (k - 1) * s + width <= n <=> j * s <= m
      <4>1. j * s \in Nat
        BY Ordered
      <4> QED
        BY <2>1, <3>1, <4>1
    <3> QED
      BY <3>2, <3>3, <3>4, <3>5
  <2> QED
    BY <2>3, <2>4
<1> QED
  BY <1>1, <1>2

\* A number is known by the numbers up to it.
LEMMA SameCount ==
    ASSUME NEW a \in Nat, NEW b \in Nat, \A k \in Nat \ {0} : k <= a <=> k <= b
    PROVE  a = b
<1>1. CASE a < b
  <2>1. b \in Nat \ {0} /\ b <= b
    BY <1>1
  <2>2. b <= a
    BY <2>1
  <2> QED
    BY <1>1, <2>2
<1>2. CASE b < a
  <2>1. a \in Nat \ {0} /\ a <= a
    BY <1>2
  <2>2. a <= b
    BY <2>1
  <2> QED
    BY <1>2, <2>2
<1> QED
  BY <1>1, <1>2

\* Windows that come with more rows are those that begin behind the windows that
\* were there before.
Grows(s, width, n, more, c) ==
    \E o \in Nat : c * s = o /\ o <= n /\ Fits(s, width, n + more) = c + Fits(s, width, n + more - o)
LEMMA FitsGrow ==
    ASSUME NEW s \in Nat \ {0}, NEW width \in Nat \ {0}, s <= width, NEW n \in Nat, NEW more \in Nat,
           NEW c \in Nat, Fits(s, width, n) = c
    PROVE  Grows(s, width, n, more, c)
<1>2. \A k \in Nat \ {0} : k <= c <=> (k - 1) * s + width <= n
  BY FitsIs
<1>3. c * s \in Nat /\ c * s <= n
  <2>1. c * s \in Nat
    BY Ordered
  <2>2. CASE c = 0
    <3>1. c * s = 0
      BY <2>2
    <3> QED
      BY <2>1, <3>1
  <2>3. CASE c # 0
    <3>1. PICK d \in Nat : c = d + 1
      <4>1. c - 1 \in Nat /\ c = (c - 1) + 1
        BY <2>3
      <4> QED
        BY <4>1
    <3>2. c \in Nat \ {0} /\ c <= c /\ c - 1 = d
      BY <2>3, <3>1
    <3>3. (c - 1) * s + width <= n
      BY <1>2, <3>2
    <3>4. d * s + width <= n
      BY <3>2, <3>3
    <3>5. (d + 1) * s = d * s + s /\ d * s \in Nat
      BY Ordered
    <3> QED
      BY <2>1, <3>1, <3>4, <3>5
  <2> QED
    BY <2>2, <2>3
<1>4. PICK m \in Nat : n + more - c * s = m
  BY <1>3
<1>5. PICK e \in Nat : Fits(s, width, m) = e
  BY FitsIs
<1>6. \A k \in Nat \ {0} : k <= e <=> (k - 1) * s + width <= m
  BY <1>5, FitsIs
<1>7. PICK f \in Nat : Fits(s, width, n + more) = f
  <2>1. n + more \in Nat
    OBVIOUS
  <2> QED
    BY <2>1, FitsIs
<1>8. \A k \in Nat \ {0} : k <= f <=> (k - 1) * s + width <= n + more
  <2>1. n + more \in Nat
    OBVIOUS
  <2> QED
    BY <1>7, <2>1, FitsIs
<1>9. \A k \in Nat \ {0} : k <= f <=> k <= c + e
  <2> TAKE k \in Nat \ {0}
  <2>1. CASE k <= c
    <3>1. (k - 1) * s + width <= n
      BY <1>2, <2>1
    <3>2. PICK j \in Nat : k - 1 = j
      OBVIOUS
    <3>3. j * s \in Nat
      BY Ordered
    <3>4. (k - 1) * s + width <= n + more
      BY <3>1, <3>2, <3>3
    <3> QED
      BY <1>8, <2>1, <3>4
  <2>2. CASE ~(k <= c)
    <3>1. PICK j \in Nat : k = c + j + 1
      <4>1. k - c - 1 \in Nat /\ k = c + (k - c - 1) + 1
        BY <2>2
      <4> QED
        BY <4>1
    <3>2. (k - 1) * s = c * s + j * s /\ j * s \in Nat
      <4>1. k - 1 = c + j
        BY <3>1
      <4>2. (c + j) * s = c * s + j * s /\ j * s \in Nat
        BY Ordered
      <4> QED
        BY <4>1, <4>2
    <3>3. (k - 1) * s + width <= n + more <=> j * s + width <= m
      <4>1. m + c * s = n + more
        BY <1>3, <1>4
      <4> QED
        BY <1>3, <3>2, <4>1
    <3>4. j + 1 <= e <=> j * s + width <= m
      <4>1. j + 1 \in Nat \ {0} /\ (j + 1) - 1 = j
        OBVIOUS
      <4> QED
        BY <1>6, <4>1
    <3>5. k <= c + e <=> j + 1 <= e
      BY <3>1
    <3> QED
      BY <1>8, <3>3, <3>4, <3>5
  <2> QED
    BY <2>1, <2>2
<1>10. f = c + e
  <2>1. c + e \in Nat
    OBVIOUS
  <2> QED
    BY <1>9, <2>1, SameCount
<1>11. PICK o \in Nat : c * s = o /\ o <= n /\ n + more - o = m
  BY <1>3, <1>4
<1>12. Fits(s, width, n + more) = c + Fits(s, width, n + more - o)
  BY <1>5, <1>7, <1>10, <1>11
<1> QED
  BY <1>11, <1>12 DEF Grows


-----------------------------------------------------------------------------
(* The engine: what a kernel computes of the rows it is given.             *)

\* What NewStream lets through of an operator.
Accepted(st) ==
  st \in Engine!Operator /\ st.stride \in 1..st.need /\ ~st.table /\ (st.pad => st.need = 1)

Effective(st) == (st.need - 1) * st.dilation + 1

\* The k-th row an operator makes of a stream.
Row(st, x, k) == [i \in 1..st.need |-> x[(k - 1) * st.stride + (i - 1) * st.dilation + 1]]

\* The numbers of an accepted operator.
LEMMA OperatorFields ==
    ASSUME NEW st, Accepted(st)
    PROVE  /\ st.need \in Nat \ {0} /\ st.stride \in Nat \ {0} /\ st.dilation \in Nat \ {0}
           /\ st.stride <= st.need /\ Effective(st) \in Nat \ {0} /\ Effective(st) >= st.need
           /\ st.pad \in BOOLEAN /\ ~st.table /\ (st.pad => st.need = 1 /\ st.stride = 1 /\ Effective(st) = 1)
<1>1. /\ st.need \in Nat \ {0} /\ st.stride \in Nat \ {0} /\ st.dilation \in Nat \ {0}
      /\ st.stride <= st.need /\ st.pad \in BOOLEAN /\ ~st.table /\ (st.pad => st.need = 1 /\ st.stride = 1)
  BY DEF Accepted, Engine!Operator
<1>2. PICK a \in Nat : st.need = a + 1
  <2>1. st.need - 1 \in Nat /\ st.need = (st.need - 1) + 1
    BY <1>1
  <2> QED
    BY <2>1
<1>3. PICK d \in Nat : st.dilation = d + 1
  <2>1. st.dilation - 1 \in Nat /\ st.dilation = (st.dilation - 1) + 1
    BY <1>1
  <2> QED
    BY <2>1
<1>4. Effective(st) = a * st.dilation + 1
  <2>1. st.need - 1 = a
    BY <1>2
  <2> QED
    BY <2>1 DEF Effective
<1>5. a * st.dilation \in Nat /\ a * st.dilation >= a
  <2>1. a * (d + 1) = a * d + a /\ a * d \in Nat
    OBVIOUS
  <2> QED
    BY <1>3, <2>1
<1>6. a = 0 => a * st.dilation = 0
  BY <1>1
<1>7. Effective(st) \in Nat \ {0} /\ Effective(st) >= st.need
  BY <1>2, <1>4, <1>5
<1>8. st.pad => Effective(st) = 1
  BY <1>1, <1>2, <1>4, <1>6
<1> QED
  BY <1>1, <1>7, <1>8

\* A window lies within the rows.
LEMMA ReadsWithin ==
    ASSUME NEW st, Accepted(st), NEW n \in Nat, NEW k \in 1..Fits(st.stride, Effective(st), n),
           NEW i \in 1..st.need
    PROVE  /\ (k - 1) * st.stride \in Nat /\ (i - 1) * st.dilation \in Nat
           /\ (k - 1) * st.stride + (i - 1) * st.dilation + 1 \in 1..n
<1>1. PICK s \in Nat \ {0}, d \in Nat \ {0}, need \in Nat \ {0}, eff \in Nat \ {0} :
        st.stride = s /\ st.dilation = d /\ st.need = need /\ Effective(st) = eff
  BY OperatorFields
<1>2. eff = (need - 1) * d + 1
  BY <1>1 DEF Effective
<1>3. Fits(s, eff, n) \in Nat /\ \A j \in Nat \ {0} : j <= Fits(s, eff, n) <=> (j - 1) * s + eff <= n
  BY FitsIs
<1>4. k \in Nat \ {0} /\ k <= Fits(s, eff, n)
  BY <1>1, <1>3
<1>5. (k - 1) * s + eff <= n
  BY <1>3, <1>4
<1>6. k - 1 \in Nat /\ i - 1 \in Nat /\ need - 1 \in Nat /\ i - 1 <= need - 1
  BY <1>1, <1>4
<1>7. (k - 1) * s \in Nat
  BY <1>6, Ordered
<1>8. (i - 1) * d \in Nat /\ (need - 1) * d \in Nat /\ (i - 1) * d <= (need - 1) * d
  <2>1. PICK a \in Nat, b \in Nat : i - 1 = a /\ need - 1 = b
    BY <1>6
  <2>2. a * d \in Nat /\ b * d \in Nat /\ (a <= b => a * d <= b * d)
    BY Ordered
  <2> QED
    BY <1>6, <2>1, <2>2
<1>9. (k - 1) * s + (i - 1) * d + 1 \in 1..n
  BY <1>2, <1>5, <1>7, <1>8
<1> QED
  BY <1>1, <1>7, <1>8, <1>9

\* A sequence with nothing behind it.
LEMMA NothingBehind ==
    ASSUME NEW S, NEW x \in Seq(S)
    PROVE  x \o <<>> = x
  OBVIOUS

\* An accepted operator reads windows, without padding.
LEMMA KernelIs ==
    ASSUME NEW st, Accepted(st), NEW S, NEW x \in Seq(S)
    PROVE  Engine!Kernel(st, x) = [k \in 1..Fits(st.stride, Effective(st), Len(x)) |-> Row(st, x, k)]
<1>1. PICK n \in Nat : Len(x) = n
  OBVIOUS
<1>2. PICK out \in Nat : Fits(st.stride, Effective(st), n) = out
  BY OperatorFields, FitsIs
<1>3. Engine!outputSize(st, n) = out
  <2>1. CASE st.pad
    <3>1. st.stride = 1 /\ Effective(st) = 1
      BY <2>1, OperatorFields
    <3>2. Engine!outputSize(st, n) = (n + 1 - 1) \div 1
      BY <2>1, <3>1 DEF Engine!outputSize
    <3>3. (n + 1 - 1) \div 1 = n
      OBVIOUS
    <3>4. Fits(1, 1, n) = n
      <4>1. CASE n = 0
        BY <4>1 DEF Fits
      <4>2. CASE n # 0
        <5>1. (n - 1) \div 1 = n - 1
          BY <4>2
        <5> QED
          BY <4>2, <5>1 DEF Fits
      <4> QED
        BY <4>1, <4>2
    <3> QED
      BY <1>2, <3>1, <3>2, <3>3, <3>4
  <2>2. CASE ~st.pad
    BY <1>2, <2>2 DEF Engine!outputSize, Fits, Effective
  <2> QED
    BY <2>1, <2>2
<1>4. Engine!padFor(st, n, out) = 0
  <2>1. CASE st.pad
    <3>1. st.stride = 1 /\ Effective(st) = 1 /\ st.need = 1
      BY <2>1, OperatorFields
    <3>2. out = n
      BY <1>3, <2>1, <3>1 DEF Engine!outputSize
    <3>3. (out - 1) * st.stride + (st.need - 1) * st.dilation + 1 = n
      <4>1. (out - 1) * 1 = out - 1
        OBVIOUS
      <4>2. (st.need - 1) * st.dilation + 1 = 1
        BY <3>1 DEF Effective
      <4>3. (st.need - 1) * st.dilation = 0
        BY <3>1, OperatorFields
      <4> QED
        BY <3>1, <3>2, <4>1, <4>3
    <3> QED
      BY <3>3 DEF Engine!padFor
  <2>2. CASE ~st.pad
    BY <2>2 DEF Engine!padFor
  <2> QED
    BY <2>1, <2>2
<1> DEFINE Reads(k, i) == LET at == (k - 1) * st.stride + (i - 1) * st.dilation + 1
                          IN  IF at > 0 /\ at - 0 <= n THEN x[at - 0] ELSE Engine!ZeroRow
<1>5. Engine!Kernel(st, x) =
        [k \in 1..out |-> [i \in 1..st.need |-> Reads(k, i)] \o (IF st.table THEN <<k>> ELSE <<>>)]
  BY <1>1, <1>3, <1>4 DEF Engine!Kernel
<1>6. ASSUME NEW k \in 1..out
      PROVE  [i \in 1..st.need |-> Reads(k, i)] \o (IF st.table THEN <<k>> ELSE <<>>) = Row(st, x, k)
  <2>1. ASSUME NEW i \in 1..st.need
        PROVE  Reads(k, i) = x[(k - 1) * st.stride + (i - 1) * st.dilation + 1]
    <3>1. PICK at : (k - 1) * st.stride + (i - 1) * st.dilation + 1 = at
      OBVIOUS
    <3>2. at \in 1..n
      BY <1>2, <3>1, ReadsWithin
    <3>3. Reads(k, i) = IF at > 0 /\ at - 0 <= n THEN x[at - 0] ELSE Engine!ZeroRow
      BY <3>1
    <3> QED
      BY <3>1, <3>2, <3>3
  <2>2. [i \in 1..st.need |-> Reads(k, i)] = Row(st, x, k)
    BY <2>1 DEF Row
  <2>3. PICK T : Row(st, x, k) \in Seq(T)
    <3>1. PICK m \in Nat : st.need = m
      BY OperatorFields
    <3>2. PICK T : T = {x[(k - 1) * st.stride + (i - 1) * st.dilation + 1] : i \in 1..m}
      OBVIOUS
    <3>3. Row(st, x, k) \in [1..m -> T]
      BY <3>1, <3>2 DEF Row
    <3> QED
      BY <3>3, SequenceIs
  <2>4. (IF st.table THEN <<k>> ELSE <<>>) = <<>>
    BY OperatorFields
  <2> HIDE DEF Reads
  <2> QED
    BY <2>2, <2>3, <2>4, NothingBehind
<1> QED
  BY <1>1, <1>2, <1>5, <1>6


-----------------------------------------------------------------------------
(* The engine: one stage of a stream.                                      *)

\* Sequences with the same elements are the same.
LEMMA SameElements ==
    ASSUME NEW S, NEW T, NEW s \in Seq(S), NEW t \in Seq(T), Len(s) = Len(t),
           \A i \in 1..Len(s) : s[i] = t[i]
    PROVE  s = t
  OBVIOUS

\* A part of a sequence.
LEMMA PartIs ==
    ASSUME NEW S, NEW x \in Seq(S), NEW p \in Nat, NEW q \in Nat, p <= q, q <= Len(x)
    PROVE  /\ SubSeq(x, p + 1, q) \in Seq(S) /\ Len(SubSeq(x, p + 1, q)) = q - p
           /\ \A i \in 1..q - p : SubSeq(x, p + 1, q)[i] = x[p + i]
  BY SMTT(30)

\* A part of a part.
LEMMA PartOfPart ==
    ASSUME NEW S, NEW x \in Seq(S), NEW p \in Nat, NEW q \in Nat, p <= q, q <= Len(x),
           NEW a \in Nat, NEW b \in Nat, a <= b, b <= q - p
    PROVE  SubSeq(SubSeq(x, p + 1, q), a + 1, b) = SubSeq(x, p + a + 1, p + b)
<1>1. PICK y \in Seq(S) : SubSeq(x, p + 1, q) = y /\ Len(y) = q - p /\ \A i \in 1..q - p : y[i] = x[p + i]
  <2>1. /\ SubSeq(x, p + 1, q) \in Seq(S) /\ Len(SubSeq(x, p + 1, q)) = q - p
        /\ \A i \in 1..q - p : SubSeq(x, p + 1, q)[i] = x[p + i]
    BY PartIs
  <2> QED
    BY <2>1
<1>2. \A i \in 1..q - p : y[i] = x[p + i]
  BY <1>1
<1>3. /\ SubSeq(y, a + 1, b) \in Seq(S) /\ Len(SubSeq(y, a + 1, b)) = b - a
      /\ \A i \in 1..b - a : SubSeq(y, a + 1, b)[i] = y[a + i]
  BY <1>1, PartIs
<1>4. PICK c \in Nat, d \in Nat : p + a = c /\ p + b = d /\ c <= d /\ d <= Len(x) /\ d - c = b - a
  <2>1. Len(x) \in Nat
    OBVIOUS
  <2> QED
    BY <2>1
<1>5. /\ SubSeq(x, c + 1, d) \in Seq(S) /\ Len(SubSeq(x, c + 1, d)) = d - c
      /\ \A i \in 1..d - c : SubSeq(x, c + 1, d)[i] = x[c + i]
  BY <1>4, PartIs
<1>6. \A i \in 1..b - a : y[a + i] = x[c + i]
  <2> TAKE i \in 1..b - a
  <2>1. a + i \in 1..q - p /\ p + (a + i) = c + i
    BY <1>4
  <2> QED
    BY <1>2, <2>1
<1>7. SubSeq(y, a + 1, b) = SubSeq(x, c + 1, d)
  <2>1. PICK u, v : SubSeq(y, a + 1, b) = u /\ SubSeq(x, c + 1, d) = v
    OBVIOUS
  <2>2. u \in Seq(S) /\ v \in Seq(S) /\ Len(u) = Len(v) /\ Len(u) = b - a
    BY <1>3, <1>4, <1>5, <2>1
  <2>3. \A i \in 1..b - a : u[i] = v[i]
    BY <1>3, <1>4, <1>5, <1>6, <2>1
  <2>4. u = v
    BY <2>2, <2>3, SameElements
  <2> QED
    BY <2>1, <2>4
<1> QED
  BY <1>1, <1>4, <1>7

\* A part of rows that are followed by others, at their end.
EndOf(x, p) == SubSeq(x, p + 1, Len(x))
LEMMA EndIsJoined ==
    ASSUME NEW S, NEW x \in Seq(S), NEW r \in Seq(S), NEW p \in Nat, p <= Len(x)
    PROVE  EndOf(x, p) \o r = EndOf(x \o r, p)
<1> SUFFICES SubSeq(x, p + 1, Len(x)) \o r = SubSeq(x \o r, p + 1, Len(x \o r))
  BY DEF EndOf
<1>1. PICK n \in Nat, m \in Nat : Len(x) = n /\ Len(r) = m
  OBVIOUS
<1>2. PICK y : /\ SubSeq(x, p + 1, n) = y /\ y \in Seq(S) /\ Len(y) = n - p
               /\ \A i \in 1..n - p : y[i] = x[p + i]
  <2>1. p <= n /\ n <= Len(x)
    BY <1>1
  <2>2. /\ SubSeq(x, p + 1, n) \in Seq(S) /\ Len(SubSeq(x, p + 1, n)) = n - p
        /\ \A i \in 1..n - p : SubSeq(x, p + 1, n)[i] = x[p + i]
    BY <2>1, PartIs
  <2> HIDE <1>1
  <2>3. PICK y : SubSeq(x, p + 1, n) = y
    OBVIOUS
  <2> QED
    BY <2>2, <2>3
<1>3. PICK z : /\ x \o r = z /\ z \in Seq(S) /\ Len(z) = n + m /\ \A i \in 1..n : z[i] = x[i]
               /\ \A i \in 1..m : z[n + i] = r[i]
  <2>1. /\ x \o r \in Seq(S) /\ Len(x \o r) = Len(x) + Len(r)
        /\ \A i \in 1..Len(x) : (x \o r)[i] = x[i]
        /\ \A i \in 1..Len(r) : (x \o r)[Len(x) + i] = r[i]
    BY Joined
  <2> QED
    BY <1>1, <2>1
<1>0. p <= n
  BY <1>1
<1>4. PICK u : /\ y \o r = u /\ u \in Seq(S) /\ Len(u) = n - p + m /\ \A i \in 1..n - p : u[i] = y[i]
               /\ \A i \in 1..m : u[n - p + i] = r[i]
  <2>1. /\ y \o r \in Seq(S) /\ Len(y \o r) = Len(y) + Len(r)
        /\ \A i \in 1..Len(y) : (y \o r)[i] = y[i]
        /\ \A i \in 1..Len(r) : (y \o r)[Len(y) + i] = r[i]
    <3>1. y \in Seq(S)
      BY <1>2
    <3> QED
      BY <3>1, Joined
  <2>2. PICK u : y \o r = u
    OBVIOUS
  <2>3. Len(y) = n - p /\ Len(r) = m
    BY <1>1, <1>2
  <2>4. /\ u \in Seq(S) /\ Len(u) = n - p + m /\ \A i \in 1..n - p : u[i] = y[i]
        /\ \A i \in 1..m : u[n - p + i] = r[i]
    BY <2>1, <2>2, <2>3
  <2> QED
    BY <2>2, <2>4
<1>5. PICK w \in Nat : n + m = w
  OBVIOUS
<1>6. PICK v : SubSeq(z, p + 1, w) = v
  OBVIOUS
<1>7. v \in Seq(S) /\ Len(v) = w - p /\ \A i \in 1..w - p : v[i] = z[p + i]
  <2>1. p <= w /\ w <= Len(z) /\ z \in Seq(S)
    BY <1>0, <1>1, <1>3, <1>5
  <2>2. /\ SubSeq(z, p + 1, w) \in Seq(S) /\ Len(SubSeq(z, p + 1, w)) = w - p
        /\ \A i \in 1..w - p : SubSeq(z, p + 1, w)[i] = z[p + i]
    BY <2>1, PartIs
  <2> QED
    BY <1>6, <2>2
<1>8. \A i \in 1..w - p : u[i] = v[i]
  <2> TAKE i \in 1..w - p
  <2>1. CASE i <= n - p
    <3>1. i \in 1..n - p /\ p + i \in 1..n
      BY <1>1, <2>1
    <3> QED
      BY <1>2, <1>3, <1>4, <1>7, <3>1, SMTT(30)
  <2>2. CASE ~(i <= n - p)
    <3>1. PICK j \in 1..m : i = n - p + j
      <4>1. i - (n - p) \in 1..m /\ i = n - p + (i - (n - p))
        BY <1>1, <1>0, <1>5, <2>2
      <4> QED
        BY <4>1
    <3>2. p + i = n + j
      BY <1>1, <3>1
    <3>3. u[i] = r[j]
      BY <1>4, <3>1
    <3>4. z[p + i] = r[j]
      BY <1>3, <3>2
    <3> QED
      BY <1>7, <3>3, <3>4
  <2> QED
    BY <2>1, <2>2
<1>9. Len(u) = w - p
  BY <1>1, <1>4, <1>5
<1>10. u = v
  <2>1. u \in Seq(S) /\ v \in Seq(S) /\ Len(u) = Len(v)
    BY <1>4, <1>7, <1>9
  <2>2. \A i \in 1..Len(u) : u[i] = v[i]
    BY <1>8, <1>9
  <2> QED
    BY <2>1, <2>2, SameElements
<1>11. Len(z) = w
  BY <1>3, <1>5
<1> QED
  <2>1. SubSeq(x, p + 1, Len(x)) = y /\ x \o r = z /\ y \o r = u
    BY <1>1, <1>2, <1>3, <1>4
  <2>2. SubSeq(x \o r, p + 1, Len(x \o r)) = v
    BY <1>6, <1>11, <2>1
  <2> QED
    BY <1>10, <2>1, <2>2

\* How many rows a stage has passed on when it was given n, those it passes on
\* and those it holds back, and whether the kernel reads the window it is given.
Emitted(st, n) == Fits(st.stride, st.need, n)
Outputs(st, x) == [k \in 1..Emitted(st, Len(x)) |-> Row(st, x, k)]
Rest(st, x) == SubSeq(x, Emitted(st, Len(x)) * st.stride + 1, Len(x))
Dense(st) == Effective(st) = st.need
Runs(st, x) == Dense(st) \/ Len(x) < st.need

\* What a stage passes on is a sequence.
LEMMA OutputsAre ==
    ASSUME NEW st, Accepted(st), NEW S, NEW x \in Seq(S)
    PROVE  /\ Emitted(st, Len(x)) \in Nat
           /\ \E T : Outputs(st, x) \in Seq(T)
           /\ Len(Outputs(st, x)) = Emitted(st, Len(x))
           /\ \A k \in 1..Emitted(st, Len(x)) : Outputs(st, x)[k] = Row(st, x, k)
<1>1. PICK c \in Nat : Emitted(st, Len(x)) = c
  <2>1. PICK s \in Nat \ {0}, w \in Nat \ {0}, n \in Nat : st.stride = s /\ st.need = w /\ Len(x) = n
    BY OperatorFields
  <2>2. Fits(s, w, n) \in Nat
    BY FitsIs
  <2> QED
    BY <2>1, <2>2 DEF Emitted
<1>2. PICK T : T = {Row(st, x, k) : k \in 1..c}
  OBVIOUS
<1>3. Outputs(st, x) \in [1..c -> T] /\ \A k \in 1..c : Outputs(st, x)[k] = Row(st, x, k)
  BY <1>1, <1>2 DEF Outputs
<1> QED
  BY <1>1, <1>3, SequenceIs

\* Rows do not change by what comes behind them.
LEMMA RowsStay ==
    ASSUME NEW st, Accepted(st), NEW S, NEW x \in Seq(S), NEW r \in Seq(S),
           NEW k \in 1..Fits(st.stride, Effective(st), Len(x))
    PROVE  Row(st, x \o r, k) = Row(st, x, k)
<1>1. PICK n \in Nat : Len(x) = n
  OBVIOUS
<1>2. \A i \in 1..st.need : (k - 1) * st.stride + (i - 1) * st.dilation + 1 \in 1..n
  BY <1>1, ReadsWithin
<1>3. \A j \in 1..n : (x \o r)[j] = x[j]
  BY <1>1, Joined
<1> QED
  BY <1>2, <1>3 DEF Row

\* The rows made of a part are rows of the whole.
LEMMA RowsMove ==
    ASSUME NEW st, Accepted(st), NEW S, NEW x \in Seq(S), NEW p \in Nat, NEW q \in Nat,
           p * st.stride <= q, q <= Len(x),
           NEW k \in 1..Fits(st.stride, Effective(st), q - p * st.stride)
    PROVE  Row(st, SubSeq(x, p * st.stride + 1, q), k) = Row(st, x, p + k)
<1>1. PICK s \in Nat \ {0} : st.stride = s
  BY OperatorFields
<1>2. PICK o \in Nat : p * s = o
  <2>1. p * s \in Nat
    BY Ordered
  <2> QED
    BY <2>1
<1>3. PICK y : SubSeq(x, o + 1, q) = y
  OBVIOUS
<1>4. o <= q /\ \A i \in 1..q - o : y[i] = x[o + i]
  <2>1. o <= q
    BY <1>1, <1>2
  <2> QED
    BY <1>3, <2>1, PartIs
<1>5. Fits(s, Effective(st), q - o) \in Nat /\ q - o \in Nat
  <2>1. PICK w \in Nat \ {0}, n \in Nat : Effective(st) = w /\ q - o = n
    BY <1>4, OperatorFields
  <2>2. Fits(s, w, n) \in Nat
    BY FitsIs
  <2> QED
    BY <2>1, <2>2
<1>6. k \in 1..Fits(s, Effective(st), q - o)
  BY <1>1, <1>2
<1>7. k - 1 \in Nat /\ p + k - 1 \in Nat
  BY <1>5, <1>6
<1>8. (p + k - 1) * s = o + (k - 1) * s /\ (k - 1) * s \in Nat
  <2>1. PICK a \in Nat : k - 1 = a
    BY <1>7
  <2>2. p + k - 1 = p + a
    BY <1>7, <2>1
  <2>3. (p + a) * s = p * s + a * s /\ a * s \in Nat
    BY Ordered
  <2> QED
    BY <1>2, <2>1, <2>2, <2>3
<1>9. ASSUME NEW i \in 1..st.need
      PROVE  y[(k - 1) * s + (i - 1) * st.dilation + 1] = x[(p + k - 1) * s + (i - 1) * st.dilation + 1]
  <2>1. PICK b \in Nat : (i - 1) * st.dilation = b /\ (k - 1) * s + b + 1 \in 1..q - o
    BY <1>1, <1>5, <1>6, ReadsWithin
  <2>2. y[(k - 1) * s + b + 1] = x[o + ((k - 1) * s + b + 1)]
    BY <1>4, <2>1
  <2>3. o + ((k - 1) * s + b + 1) = (p + k - 1) * s + b + 1
    BY <1>8
  <2> QED
    BY <2>1, <2>2, <2>3
<1>10. PICK y2 : SubSeq(x, p * st.stride + 1, q) = y2 /\ y2 = y
  BY <1>1, <1>2, <1>3
<1>11. [i \in 1..st.need |-> y[(k - 1) * s + (i - 1) * st.dilation + 1]]
       = [i \in 1..st.need |-> x[(p + k - 1) * s + (i - 1) * st.dilation + 1]]
  BY <1>9
<1>12. Row(st, y, k) = Row(st, x, p + k)
  BY <1>1, <1>11 DEF Row
<1> QED
  BY <1>10, <1>12


\* So many rows are so many windows, of those that are wider fewer.
Exactly(s, width, c, wider, n) ==
  (c - 1) * s + width = n /\ Fits(s, width, n) = c /\ (wider > width => Fits(s, wider, n) # c)

\* The last of so many windows ends with the rows.
LEMMA FitsExactly ==
    ASSUME NEW s \in Nat \ {0}, NEW width \in Nat \ {0}, NEW c \in Nat \ {0}, NEW wider \in Nat \ {0}
    PROVE  \E n \in Nat : Exactly(s, width, c, wider, n)
<1>1. PICK d \in Nat : c - 1 = d
  OBVIOUS
<1>2. PICK o \in Nat : d * s = o
  <2>1. d * s \in Nat
    BY Ordered
  <2> QED
    BY <2>1
<1>3. PICK f \in Nat : Fits(s, width, o + width) = f /\ \A k \in Nat \ {0} : k <= f <=> (k - 1) * s + width <= o + width
  <2>1. o + width \in Nat
    OBVIOUS
  <2> QED
    BY <2>1, FitsIs
<1>4. \A k \in Nat \ {0} : k <= f <=> k <= c
  <2> TAKE k \in Nat \ {0}
  <2>1. PICK j \in Nat : k - 1 = j
    OBVIOUS
  <2>2. j * s \in Nat /\ (j <= d => j * s <= d * s) /\ (d * s < j * s => d < j)
    BY Ordered
  <2>3. j * s <= o => j <= d
    <3>1. SUFFICES ASSUME d < j PROVE ~(j * s <= o)
      OBVIOUS
    <3>2. (d + 1) * s = d * s + s /\ (d + 1 <= j => (d + 1) * s <= j * s)
      <4>1. d + 1 \in Nat
        OBVIOUS
      <4> QED
        BY <4>1, Ordered
    <3> QED
      BY <1>2, <2>2, <3>1, <3>2
  <2>4. k <= f <=> j * s <= o
    <3>1. k <= f <=> j * s + width <= o + width
      BY <1>3, <2>1
    <3>2. PICK i \in Nat : j * s = i
      BY <2>2
    <3> QED
      BY <3>1, <3>2
  <2>5. k <= c <=> j <= d
    BY <1>1, <2>1
  <2> QED
    BY <1>2, <2>2, <2>3, <2>4, <2>5
<1>5. f = c
  BY <1>4, SameCount
<1>6. ASSUME wider > width
      PROVE  Fits(s, wider, o + width) # c
  <2>1. PICK g \in Nat : Fits(s, wider, o + width) = g /\ \A k \in Nat \ {0} : k <= g <=> (k - 1) * s + wider <= o + width
    <3>1. o + width \in Nat
      OBVIOUS
    <3> QED
      BY <3>1, FitsIs
  <2>2. ~(c <= g)
    BY <1>1, <1>2, <1>6, <2>1
  <2> QED
    BY <2>1, <2>2
<1>7. o + width \in Nat /\ (c - 1) * s \in Nat /\ (c - 1) * s + width = o + width
  BY <1>1, <1>2
<1>8. Exactly(s, width, c, wider, o + width)
  BY <1>3, <1>5, <1>6, <1>7 DEF Exactly
<1> QED
  BY <1>7, <1>8

\* What holds back more rows than an operator needs has a window.
LEMMA FitsSome ==
    ASSUME NEW s \in Nat \ {0}, NEW width \in Nat \ {0}, NEW n \in Nat
    PROVE  /\ n < width => Fits(s, width, n) = 0
           /\ n >= width => /\ Fits(s, width, n) \in Nat \ {0} /\ Fits(s, width, n) = (n - width) \div s + 1
                            /\ (Fits(s, width, n) - 1) * s + width <= n
<1>1. n < width => Fits(s, width, n) = 0
  BY DEF Fits
<1>2. ASSUME n >= width
      PROVE  /\ Fits(s, width, n) \in Nat \ {0} /\ Fits(s, width, n) = (n - width) \div s + 1
             /\ (Fits(s, width, n) - 1) * s + width <= n
  <2>1. Fits(s, width, n) = (n - width) \div s + 1
    BY <1>2 DEF Fits
  <2>2. n - width \in Nat
    BY <1>2
  <2>3. PICK q \in Nat : (n - width) \div s = q
    BY <2>2, Quotient
  <2>4. PICK f : Fits(s, width, n) = f
    OBVIOUS
  <2>5. f \in Nat \ {0} /\ f <= f
    BY <2>1, <2>3, <2>4
  <2>6. \A k \in Nat \ {0} : k <= f <=> (k - 1) * s + width <= n
    BY <2>4, FitsIs
  <2> QED
    BY <2>1, <2>4, <2>5, <2>6
<1> QED
  BY <1>1, <1>2

\* The windows there are in what is held back, the rows they read together and
\* those they retire.
Held(s, need, eff, a, f, used, v) ==
  /\ f \in Nat \ {0} /\ used \in Nat /\ v \in Nat
  /\ Fits(s, need, a) = f /\ (a - need) \div s + 1 = f
  /\ need + (f - 1) * s = used /\ used <= a /\ f * s = v /\ v <= a
  /\ (Fits(s, eff, used) = f <=> eff = need)
LEMMA WindowsHeld ==
    ASSUME NEW s \in Nat \ {0}, NEW need \in Nat \ {0}, NEW eff \in Nat \ {0}, NEW a \in Nat,
           s <= need, need <= eff, need <= a
    PROVE  \E f, used, v : Held(s, need, eff, a, f, used, v)
<1>1. PICK f \in Nat \ {0} : Fits(s, need, a) = f /\ (a - need) \div s + 1 = f /\ (f - 1) * s + need <= a
  <2>1. a >= need
    OBVIOUS
  <2>2. /\ Fits(s, need, a) \in Nat \ {0} /\ Fits(s, need, a) = (a - need) \div s + 1
        /\ (Fits(s, need, a) - 1) * s + need <= a
    BY <2>1, FitsSome
  <2> QED
    BY <2>2
<1>2. PICK used \in Nat : /\ (f - 1) * s + need = used /\ Fits(s, need, used) = f
                          /\ (eff > need => Fits(s, eff, used) # f)
  <2>1. PICK n \in Nat : Exactly(s, need, f, eff, n)
    BY FitsExactly
  <2> QED
    BY <2>1 DEF Exactly
<1>3. PICK h \in Nat : (f - 1) * s = h
  <2>1. PICK d \in Nat : f - 1 = d
    OBVIOUS
  <2>2. d * s \in Nat
    BY Ordered
  <2> QED
    BY <2>1, <2>2
<1>4. PICK v \in Nat : f * s = v /\ v = h + s
  <2>1. PICK d \in Nat : f - 1 = d /\ f = d + 1
    OBVIOUS
  <2>2. (d + 1) * s = d * s + s
    BY Ordered
  <2> QED
    BY <1>3, <2>1, <2>2
<1>5. v <= a /\ used <= a /\ need + (f - 1) * s = used
  BY <1>1, <1>2, <1>3, <1>4
<1>6. Fits(s, eff, used) = f <=> eff = need
  BY <1>2
<1> QED
  <2>1. Held(s, need, eff, a, f, used, v)
    BY <1>1, <1>4, <1>5, <1>6 DEF Held
  <2> QED
    BY <2>1

\* A stage that is given more rows passes on what the whole stream has in addition,
\* or fails because the window it waits for is not the one its kernel reads.
LEMMA RunIs ==
    ASSUME NEW st, Accepted(st), NEW S, NEW x \in Seq(S), NEW r \in Seq(S), Runs(st, x),
           NEW done, Engine!run(st, Rest(st, x), r) = done
    PROVE  /\ done.ok => /\ done.pending = Rest(st, x \o r)
                         /\ Outputs(st, x \o r) = Outputs(st, x) \o done.rows
                         /\ \E T : done.rows \in Seq(T)
                         /\ Runs(st, x \o r)
           /\ ~done.ok => done.rows = <<>>
<1>1. PICK s \in Nat \ {0}, need \in Nat \ {0}, eff \in Nat \ {0}, n \in Nat, m \in Nat :
        st.stride = s /\ st.need = need /\ Effective(st) = eff /\ Len(x) = n /\ Len(r) = m /\ s <= need /\ need <= eff
  BY OperatorFields
<1>2. PICK e \in Nat : Fits(s, need, n) = e
  BY FitsIs
<1>3. PICK o \in Nat : e * s = o /\ o <= n /\ Fits(s, need, n + m) = e + Fits(s, need, n + m - o)
  <2>1. s <= need
    BY <1>1
  <2>2. Grows(s, need, n, m, e)
    BY <1>2, <2>1, FitsGrow
  <2> QED
    BY <2>2 DEF Grows
<1>4. PICK a \in Nat, w \in Nat : n + m = w /\ w - o = a
  BY <1>3
<1>5. PICK f \in Nat : Fits(s, need, a) = f
  BY FitsIs
<1>6. Fits(s, need, w) = e + f /\ o <= w
  BY <1>3, <1>4, <1>5
<1>7. PICK z : x \o r = z /\ z \in Seq(S) /\ Len(z) = w
  <2>1. x \o r \in Seq(S) /\ Len(x \o r) = Len(x) + Len(r)
    BY Joined
  <2> QED
    BY <1>1, <1>4, <2>1
<1>8. PICK all : /\ SubSeq(z, o + 1, w) = all /\ all \in Seq(S) /\ Len(all) = a
                 /\ \A i \in 1..a : all[i] = z[o + i]
  <2>1. /\ SubSeq(z, o + 1, w) \in Seq(S) /\ Len(SubSeq(z, o + 1, w)) = w - o
        /\ \A i \in 1..w - o : SubSeq(z, o + 1, w)[i] = z[o + i]
    BY <1>6, <1>7, PartIs
  <2> QED
    BY <1>4, <2>1
<1>9. Rest(st, x) \o r = all
  <2>1. Rest(st, x) = SubSeq(x, o + 1, Len(x))
    BY <1>1, <1>2, <1>3 DEF Rest, Emitted
  <2>2. SubSeq(x, o + 1, Len(x)) \o r = SubSeq(x \o r, o + 1, Len(x \o r))
    <3>1. o <= Len(x)
      BY <1>1, <1>3
    <3>2. EndOf(x, o) \o r = EndOf(x \o r, o)
      BY <1>3, <3>1, EndIsJoined
    <3> QED
      BY <3>2 DEF EndOf
  <2> QED
    BY <1>7, <1>8, <2>1, <2>2
<1>10. Rest(st, z) = SubSeq(z, (e + f) * s + 1, w)
  BY <1>1, <1>6, <1>7 DEF Rest, Emitted
<1>11. Outputs(st, x) = [k \in 1..e |-> Row(st, x, k)] /\ Outputs(st, z) = [k \in 1..e + f |-> Row(st, z, k)]
  BY <1>1, <1>2, <1>6, <1>7 DEF Outputs, Emitted
<1>12. \A k \in 1..e : Row(st, z, k) = Row(st, x, k)
  <2>1. CASE Dense(st)
    <3>1. e = Fits(st.stride, Effective(st), Len(x))
      BY <1>1, <1>2, <2>1 DEF Dense
    <3> QED
      BY <1>7, <3>1, RowsStay
  <2>2. CASE n < need
    <3>1. e = 0
      BY <1>2, <2>2, FitsSome
    <3> QED
      BY <3>1
  <2> QED
    BY <1>1, <2>1, <2>2 DEF Runs
<1>13. CASE a < need
  <2>1. done = [pending |-> all, rows |-> <<>>, ok |-> TRUE]
    BY <1>1, <1>8, <1>9, <1>13 DEF Engine!run
  <2>2. f = 0
    BY <1>5, <1>13, FitsSome
  <2>3. all = Rest(st, z)
    BY <1>3, <1>8, <1>10, <2>2
  <2>4. Outputs(st, z) = Outputs(st, x)
    <3>1. e + f = e
      BY <2>2
    <3> QED
      BY <1>11, <1>12, <3>1
  <2>5. Outputs(st, x) \o <<>> = Outputs(st, x)
    BY OutputsAre, NothingBehind
  <2>6. Runs(st, z)
    <3>1. CASE Dense(st)
      BY <3>1 DEF Runs
    <3>2. CASE n < need
      <4>1. e = 0
        BY <1>2, <3>2, FitsSome
      <4>2. o = 0
        BY <1>3, <4>1
      <4> QED
        BY <1>1, <1>4, <1>7, <1>13, <4>2 DEF Runs
    <3> QED
      BY <1>1, <3>1, <3>2 DEF Runs
  <2>7. <<>> \in Seq({})
    OBVIOUS
  <2>8. done.ok = TRUE /\ done.pending = Rest(st, z) /\ done.rows = <<>>
    BY <2>1, <2>3
  <2>9. Outputs(st, z) = Outputs(st, x) \o done.rows
    BY <2>4, <2>5, <2>8
  <2>10. \E T : done.rows \in Seq(T)
    BY <2>7, <2>8
  <2> QED
    BY <1>7, <2>6, <2>8, <2>9, <2>10
<1>14. CASE ~(a < need)
  <2>1. PICK used \in Nat, v \in Nat :
          /\ f # 0 /\ (a - need) \div s + 1 = f /\ need + (f - 1) * s = used /\ used <= a
          /\ f * s = v /\ v <= a /\ (Fits(s, eff, used) = f <=> eff = need)
    <3>1. s <= need /\ need <= eff /\ need <= a
      BY <1>1, <1>14
    <3>2. PICK c, used, v : Held(s, need, eff, a, c, used, v)
      BY <3>1, WindowsHeld
    <3>3. c = f
      BY <1>5, <3>2 DEF Held
    <3> QED
      BY <3>2, <3>3 DEF Held
  <2>3. used <= a
    BY <2>1
  <2>4. PICK y : /\ SubSeq(all, 1, used) = y /\ y \in Seq(S) /\ Len(y) = used
                 /\ y = SubSeq(z, o + 1, o + used)
    <3>1. /\ SubSeq(all, 0 + 1, used) \in Seq(S) /\ Len(SubSeq(all, 0 + 1, used)) = used - 0
      BY <1>8, <2>3, PartIs
    <3>2. SubSeq(SubSeq(z, o + 1, w), 0 + 1, used) = SubSeq(z, o + 0 + 1, o + used)
      <4>1. used <= w - o /\ w <= Len(z)
        BY <1>4, <1>7, <2>3
      <4> QED
        BY <1>6, <1>7, <4>1, PartOfPart
    <3>3. 0 + 1 = 1 /\ o + 0 + 1 = o + 1 /\ used - 0 = used
      OBVIOUS
    <3> QED
      BY <1>8, <3>1, <3>2, <3>3
  <2>5. PICK g \in Nat : Fits(s, eff, used) = g
    BY FitsIs
  <2>6. Engine!Kernel(st, y) = [k \in 1..g |-> Row(st, y, k)]
    <3>1. y \in Seq(S) /\ Fits(st.stride, Effective(st), Len(y)) = g
      BY <1>1, <2>4, <2>5
    <3>2. Engine!Kernel(st, y) = [k \in 1..Fits(st.stride, Effective(st), Len(y)) |-> Row(st, y, k)]
      BY <3>1, KernelIs
    <3> QED
      BY <3>1, <3>2
  <2>7. PICK out : Engine!Kernel(st, y) = out
    OBVIOUS
  <2>8. Len(out) = g /\ \E T : out \in Seq(T)
    <3>1. PICK T : T = {Row(st, y, k) : k \in 1..g}
      OBVIOUS
    <3>2. out \in [1..g -> T]
      BY <2>6, <2>7, <3>1
    <3> QED
      BY <3>2, SequenceIs
  <2>9. done = IF Len(out) # f THEN [pending |-> all, rows |-> <<>>, ok |-> FALSE]
               ELSE [pending |-> SubSeq(all, f * s + 1, a), rows |-> out, ok |-> TRUE]
    BY <1>1, <1>8, <1>9, <1>14, <2>1, <2>4, <2>7 DEF Engine!run
  <2>10. CASE Dense(st)
    <3>1. g = f
      <4>1. eff = need
        BY <1>1, <2>10 DEF Dense
      <4> QED
        BY <2>1, <2>5, <4>1
    <3>2. done = [pending |-> SubSeq(all, f * s + 1, a), rows |-> out, ok |-> TRUE]
      BY <2>8, <2>9, <3>1
    <3>3. f * s = v /\ v <= a
      BY <2>1
    <3>5. SubSeq(all, v + 1, a) = Rest(st, z)
      <4>1. SubSeq(SubSeq(z, o + 1, w), v + 1, a) = SubSeq(z, o + v + 1, o + a)
        <5>1. a <= w - o /\ w <= Len(z)
          BY <1>4, <1>7
        <5> QED
          BY <1>6, <1>7, <3>3, <5>1, PartOfPart
      <4>2. (e + f) * s = o + v
        BY <1>3, <3>3, Ordered
      <4>3. o + a = w
        BY <1>4
      <4> QED
        BY <1>8, <1>10, <4>1, <4>2, <4>3
    <3>6. ASSUME NEW k \in 1..f PROVE out[k] = Row(st, z, e + k)
      <4>1. out[k] = Row(st, y, k)
        BY <2>6, <2>7, <3>1
      <4>2. PICK q \in Nat : o + used = q /\ q - o = used
        OBVIOUS
      <4>3. q <= Len(z)
        BY <1>4, <1>7, <2>3, <4>2
      <4>4. k \in 1..Fits(st.stride, Effective(st), q - e * st.stride)
        BY <1>1, <1>3, <2>5, <3>1, <4>2
      <4>5. e * st.stride <= q
        BY <1>1, <1>3, <4>2
      <4>6. Row(st, SubSeq(z, e * st.stride + 1, q), k) = Row(st, z, e + k)
        BY <1>7, <4>3, <4>4, <4>5, RowsMove
      <4>7. SubSeq(z, e * st.stride + 1, q) = y
        BY <1>1, <1>3, <2>4, <4>2
      <4> QED
        BY <4>1, <4>6, <4>7
    <3>7. Outputs(st, z) = Outputs(st, x) \o out
      <4>1. PICK U : Outputs(st, x) \in Seq(U) /\ out \in Seq(U)
        <5>1. PICK A : Outputs(st, x) \in Seq(A)
          BY OutputsAre
        <5>2. PICK B : out \in Seq(B)
          BY <2>8
        <5>3. Outputs(st, x) \in Seq(A \cup B) /\ out \in Seq(A \cup B)
          BY <5>1, <5>2
        <5> QED
          BY <5>3
      <4>2. PICK V : Outputs(st, z) \in Seq(V)
        BY <1>7, OutputsAre
      <4>3. PICK p : Outputs(st, x) = p
        OBVIOUS
      <4>4. Len(p) = e /\ \A k \in 1..e : p[k] = Row(st, x, k)
        BY <1>1, <1>2, <4>3, OutputsAre DEF Emitted
      <4>5. Len(Outputs(st, z)) = e + f /\ \A k \in 1..e + f : Outputs(st, z)[k] = Row(st, z, k)
        BY <1>1, <1>6, <1>7, OutputsAre DEF Emitted
      <4>6. /\ p \o out \in Seq(U) /\ Len(p \o out) = e + f
            /\ \A i \in 1..e : (p \o out)[i] = p[i]
            /\ \A i \in 1..f : (p \o out)[e + i] = out[i]
        <5>1. Len(out) = f
          BY <2>8, <3>1
        <5>2. p \in Seq(U) /\ out \in Seq(U)
          BY <4>1, <4>3
        <5>3. /\ p \o out \in Seq(U) /\ Len(p \o out) = Len(p) + Len(out)
              /\ \A i \in 1..Len(p) : (p \o out)[i] = p[i]
              /\ \A i \in 1..Len(out) : (p \o out)[Len(p) + i] = out[i]
          BY <5>2, Joined
        <5> QED
          BY <4>4, <5>1, <5>3
      <4>7. \A k \in 1..e + f : Outputs(st, z)[k] = (p \o out)[k]
        <5> TAKE k \in 1..e + f
        <5>1. CASE k <= e
          BY <1>12, <4>4, <4>5, <4>6, <5>1
        <5>2. CASE ~(k <= e)
          <6>1. PICK j \in 1..f : k = e + j
            <7>1. k - e \in 1..f /\ k = e + (k - e)
              BY <5>2
            <7> QED
              BY <7>1
          <6> QED
            BY <3>6, <4>5, <4>6, <6>1
        <5> QED
          BY <5>1, <5>2
      <4> QED
        BY <4>2, <4>3, <4>5, <4>6, <4>7, SameElements
    <3>8. Runs(st, z)
      BY <2>10 DEF Runs
    <3> QED
      BY <1>7, <2>8, <3>2, <3>3, <3>5, <3>7, <3>8
  <2>11. CASE ~Dense(st)
    <3>1. eff > need
      BY <1>1, <2>11 DEF Dense
    <3>2. g # f
      BY <2>1, <2>5, <3>1
    <3>3. done = [pending |-> all, rows |-> <<>>, ok |-> FALSE]
      BY <2>8, <2>9, <3>2
    <3> QED
      BY <3>3
  <2> QED
    BY <2>10, <2>11
<1> QED
  BY <1>13, <1>14


-----------------------------------------------------------------------------
(* The engine: stage after stage.                                          *)

\* Stream.Write is one pass after the other.
LEMMA WriteIs ==
    ASSUME NEW L \in Nat, Len(chain) = L, NEW rows
    PROVE  \E g : /\ g[0] = [pending |-> held, rows |-> rows, ok |-> TRUE]
                  /\ \A i \in 1..L : g[i] = Engine!Pass(i, g[i - 1])
                  /\ Engine!Write(rows) = g[L]
<1>1. PICK base : [pending |-> held, rows |-> rows, ok |-> TRUE] = base
  OBVIOUS
<1> DEFINE Upto(m) == \E f : f = [i \in 0..m |-> IF i = 0 THEN base ELSE Engine!Pass(i, f[i - 1])]
           T == {m \in 0..L : Upto(m)}
<1>2. Upto(0)
  <2>1. PICK f : f = [i \in 0..0 |-> base]
    OBVIOUS
  <2>2. f = [i \in 0..0 |-> IF i = 0 THEN base ELSE Engine!Pass(i, f[i - 1])]
    BY <2>1
  <2> QED
    BY <2>2
<1>3. ASSUME NEW m \in 1..L, Upto(m - 1) PROVE Upto(m)
  <2>1. PICK f : f = [i \in 0..m - 1 |-> IF i = 0 THEN base ELSE Engine!Pass(i, f[i - 1])]
    BY <1>3
  <2>2. PICK g : g = [i \in 0..m |-> IF i = m THEN Engine!Pass(m, f[m - 1]) ELSE f[i]]
    OBVIOUS
  <2>3. ASSUME NEW i \in 0..m
        PROVE  g[i] = IF i = 0 THEN base ELSE Engine!Pass(i, g[i - 1])
    <3>1. CASE i = m
      <4>1. m - 1 \in 0..m /\ m - 1 # m /\ i # 0
        BY <3>1
      <4>2. g[m - 1] = f[m - 1] /\ g[i] = Engine!Pass(m, f[m - 1])
        BY <2>2, <3>1, <4>1
      <4> QED
        BY <3>1, <4>1, <4>2
    <3>2. CASE i # m
      <4>1. i \in 0..m - 1 /\ g[i] = f[i]
        BY <2>2, <3>2
      <4>2. f[i] = IF i = 0 THEN base ELSE Engine!Pass(i, f[i - 1])
        BY <2>1, <4>1
      <4>3. i # 0 => g[i - 1] = f[i - 1]
        <5>1. i # 0 => i - 1 \in 0..m /\ i - 1 # m
          BY <4>1
        <5> QED
          BY <2>2, <5>1
      <4> QED
        BY <4>1, <4>2, <4>3
    <3> QED
      BY <3>1, <3>2
  <2>4. DOMAIN g = 0..m
    BY <2>2
  <2>5. g = [i \in 0..m |-> IF i = 0 THEN base ELSE Engine!Pass(i, g[i - 1])]
    <3>1. g = [i \in 0..m |-> g[i]]
      BY <2>2, <2>4
    <3> QED
      BY <2>3, <3>1
  <2> QED
    BY <2>5
<1>4. T = 0..L
  <2>1. T \in SUBSET (0..L) /\ 0 \in T /\ \A n \in 1..L : n - 1 \in T => n \in T
    <3> HIDE DEF Upto
    <3> QED
      BY <1>2, <1>3
  <2> HIDE DEF T
  <2> QED
    BY <2>1, Upwards
<1>5. Upto(L)
  <2> HIDE DEF Upto
  <2>1. L \in T
    <3> HIDE DEF T
    <3> QED
      BY <1>4
  <2> QED
    BY <2>1
<1>6. PICK g : g = [i \in 0..L |-> IF i = 0 THEN base ELSE Engine!Pass(i, g[i - 1])] /\ Engine!Write(rows) = g[L]
  BY <1>1, <1>5 DEF Engine!Write
<1>7. g[0] = base
  BY <1>6
<1>8. \A i \in 1..L : g[i] = Engine!Pass(i, g[i - 1])
  BY <1>6
<1> QED
  BY <1>1, <1>6, <1>7, <1>8

\* The whole model is one kernel after the other.
LEMMA WindowedIs ==
    ASSUME NEW L \in Nat, Len(chain) = L, NEW rows
    PROVE  \E g : /\ g[0] = rows
                  /\ \A i \in 1..L : g[i] = Engine!Kernel(chain[i], g[i - 1])
                  /\ Engine!Windowed(rows) = g[L]
<1> DEFINE Upto(m) == \E f : f = [i \in 0..m |-> IF i = 0 THEN rows ELSE Engine!Kernel(chain[i], f[i - 1])]
           T == {m \in 0..L : Upto(m)}
<1>2. Upto(0)
  <2>1. PICK f : f = [i \in 0..0 |-> rows]
    OBVIOUS
  <2>2. f = [i \in 0..0 |-> IF i = 0 THEN rows ELSE Engine!Kernel(chain[i], f[i - 1])]
    BY <2>1
  <2> QED
    BY <2>2
<1>3. ASSUME NEW m \in 1..L, Upto(m - 1) PROVE Upto(m)
  <2>1. PICK f : f = [i \in 0..m - 1 |-> IF i = 0 THEN rows ELSE Engine!Kernel(chain[i], f[i - 1])]
    BY <1>3
  <2>2. PICK g : g = [i \in 0..m |-> IF i = m THEN Engine!Kernel(chain[m], f[m - 1]) ELSE f[i]]
    OBVIOUS
  <2>3. ASSUME NEW i \in 0..m
        PROVE  g[i] = IF i = 0 THEN rows ELSE Engine!Kernel(chain[i], g[i - 1])
    <3>1. CASE i = m
      <4>1. m - 1 \in 0..m /\ m - 1 # m /\ i # 0
        BY <3>1
      <4>2. g[m - 1] = f[m - 1] /\ g[i] = Engine!Kernel(chain[m], f[m - 1])
        BY <2>2, <3>1, <4>1
      <4> QED
        BY <3>1, <4>1, <4>2
    <3>2. CASE i # m
      <4>1. i \in 0..m - 1 /\ g[i] = f[i]
        BY <2>2, <3>2
      <4>2. f[i] = IF i = 0 THEN rows ELSE Engine!Kernel(chain[i], f[i - 1])
        BY <2>1, <4>1
      <4>3. i # 0 => g[i - 1] = f[i - 1]
        <5>1. i # 0 => i - 1 \in 0..m /\ i - 1 # m
          BY <4>1
        <5> QED
          BY <2>2, <5>1
      <4> QED
        BY <4>1, <4>2, <4>3
    <3> QED
      BY <3>1, <3>2
  <2>4. DOMAIN g = 0..m
    BY <2>2
  <2>5. g = [i \in 0..m |-> IF i = 0 THEN rows ELSE Engine!Kernel(chain[i], g[i - 1])]
    <3>1. g = [i \in 0..m |-> g[i]]
      BY <2>2, <2>4
    <3> QED
      BY <2>3, <3>1
  <2> QED
    BY <2>5
<1>4. T = 0..L
  <2>1. T \in SUBSET (0..L) /\ 0 \in T /\ \A n \in 1..L : n - 1 \in T => n \in T
    <3> HIDE DEF Upto
    <3> QED
      BY <1>2, <1>3
  <2> HIDE DEF T
  <2> QED
    BY <2>1, Upwards
<1>5. Upto(L)
  <2> HIDE DEF Upto
  <2>1. L \in T
    <3> HIDE DEF T
    <3> QED
      BY <1>4
  <2> QED
    BY <2>1
<1>6. PICK g : g = [i \in 0..L |-> IF i = 0 THEN rows ELSE Engine!Kernel(chain[i], g[i - 1])] /\ Engine!Windowed(rows) = g[L]
  BY <1>5 DEF Engine!Windowed
<1>7. g[0] = rows
  BY <1>6
<1>8. \A i \in 1..L : g[i] = Engine!Kernel(chain[i], g[i - 1])
  BY <1>6
<1> QED
  BY <1>6, <1>7, <1>8

\* The chain is one that NewStream accepted.
ChainIs(L) == L \in Nat /\ Len(chain) = L /\ \A i \in 1..L : Accepted(chain[i])

\* How far the windows of the last n operators reach, and how far they move.
Reach(L, reads, moves) ==
  /\ reads[0] = 1 /\ moves[0] = 1
  /\ \A n \in 1..L :
       /\ reads[n] = (reads[n - 1] - 1) * chain[L + 1 - n].stride + Effective(chain[L + 1 - n])
       /\ moves[n] = moves[n - 1] * chain[L + 1 - n].stride
  /\ \A n \in 0..L : reads[n] \in Nat \ {0} /\ moves[n] \in Nat \ {0}

\* The arithmetic of one operator more.
LEMMA ReachGrows ==
    ASSUME NEW s \in Nat \ {0}, NEW eff \in Nat \ {0}, NEW u \in Nat \ {0}, NEW t \in Nat \ {0}
    PROVE  (u - 1) * s + eff \in Nat \ {0} /\ t * s \in Nat \ {0}
<1>1. PICK a \in Nat : u - 1 = a
  OBVIOUS
<1>2. a * s \in Nat
  BY Ordered
<1>3. t * s \in Nat /\ 1 * s <= t * s
  BY Ordered
<1>4. 1 * s = s
  OBVIOUS
<1> QED
  BY <1>1, <1>2, <1>3, <1>4

\* What the properties count with.
LEMMA ReachIs ==
    ASSUME NEW L, ChainIs(L)
    PROVE  \E reads, moves : Reach(L, reads, moves) /\ Engine!Receptive = reads[L] /\ Engine!Stride = moves[L]
<1>0. L \in Nat /\ Len(chain) = L
  BY DEF ChainIs
<1> DEFINE P == Nat \ {0}
<1>1. PICK st : st = [n \in 1..L |-> chain[L + 1 - n]]
  OBVIOUS
<1>2. \A n \in 1..L : /\ st[n] = chain[L + 1 - n] /\ Engine!FromEnd(n) = st[n] /\ Accepted(st[n])
                      /\ st[n].stride \in P /\ Effective(st[n]) \in P
  <2> TAKE n \in 1..L
  <2>1. L + 1 - n \in 1..L
    BY <1>0
  <2>2. st[n] = chain[L + 1 - n] /\ Accepted(st[n])
    BY <1>1, <2>1 DEF ChainIs
  <2>3. Engine!FromEnd(n) = chain[L + 1 - n]
    BY <1>0 DEF Engine!FromEnd
  <2> QED
    BY <2>2, <2>3, OperatorFields
<1>3. PICK by : by = [n \in 1..L |-> [u \in P |-> (u - 1) * st[n].stride + Effective(st[n])]]
  OBVIOUS
<1>4. PICK bm : bm = [n \in 1..L |-> [t \in P |-> t * st[n].stride]]
  OBVIOUS
<1>5. ASSUME NEW n \in 1..L, NEW u \in P
      PROVE  /\ by[n][u] = (u - 1) * st[n].stride + Effective(st[n]) /\ by[n][u] \in P
             /\ bm[n][u] = u * st[n].stride /\ bm[n][u] \in P
  <2>1. PICK s \in P, e \in P : st[n].stride = s /\ Effective(st[n]) = e
    BY <1>2
  <2>2. (u - 1) * s + e \in P /\ u * s \in P
    BY ReachGrows
  <2>3. by[n][u] = (u - 1) * st[n].stride + Effective(st[n]) /\ bm[n][u] = u * st[n].stride
    BY <1>3, <1>4
  <2> QED
    BY <2>1, <2>2, <2>3
<1>6. by \in [1..L -> [P -> P]] /\ bm \in [1..L -> [P -> P]]
  <2>1. \A n \in 1..L : by[n] = [u \in P |-> by[n][u]] /\ bm[n] = [u \in P |-> bm[n][u]]
    BY <1>3, <1>4
  <2>2. \A n \in 1..L : by[n] \in [P -> P] /\ bm[n] \in [P -> P]
    <3> HIDE DEF P
    <3> QED
      BY <1>5, <2>1
  <2>3. by = [n \in 1..L |-> by[n]] /\ bm = [n \in 1..L |-> bm[n]]
    BY <1>3, <1>4
  <2> HIDE DEF P
  <2> QED
    BY <2>2, <2>3
<1>7. 1 \in P
  OBVIOUS
<1>8. PICK reads : Recursion(reads, L, P, 1, by)
  <2> HIDE DEF P
  <2> QED
    BY <1>0, <1>6, <1>7, RecursiveFunction
<1>9. PICK moves : Recursion(moves, L, P, 1, bm)
  <2> HIDE DEF P
  <2> QED
    BY <1>0, <1>6, <1>7, RecursiveFunction
<1>10. /\ reads \in [0..L -> P] /\ reads[0] = 1 /\ \A n \in 1..L : reads[n] = by[n][reads[n - 1]]
       /\ moves \in [0..L -> P] /\ moves[0] = 1 /\ \A n \in 1..L : moves[n] = bm[n][moves[n - 1]]
  BY <1>8, <1>9 DEF Recursion
<1>11. ASSUME NEW n \in 1..L
       PROVE  /\ reads[n] = (reads[n - 1] - 1) * st[n].stride + Effective(st[n])
              /\ moves[n] = moves[n - 1] * st[n].stride
  <2>1. n - 1 \in 0..L
    BY <1>0
  <2>2. reads[n - 1] \in P /\ moves[n - 1] \in P
    <3> HIDE DEF P
    <3> QED
      BY <1>10, <2>1
  <2>3. reads[n] = by[n][reads[n - 1]] /\ moves[n] = bm[n][moves[n - 1]]
    BY <1>10
  <2> HIDE DEF P
  <2> QED
    BY <1>5, <2>2, <2>3
<1>12. ASSUME NEW n \in 1..L
       PROVE  reads[n] = (reads[n - 1] - 1) * Engine!FromEnd(n).stride
                           + (Engine!FromEnd(n).need - 1) * Engine!FromEnd(n).dilation + 1
  <2>1. PICK o : Engine!FromEnd(n) = o /\ Accepted(o) /\ reads[n] = (reads[n - 1] - 1) * o.stride + Effective(o)
    BY <1>2, <1>11
  <2>2. PICK s \in Nat, w \in Nat \ {0}, d \in Nat : o.stride = s /\ o.need = w /\ o.dilation = d
    BY <2>1, OperatorFields
  <2>3. PICK a \in Nat, b \in Nat : reads[n - 1] - 1 = a /\ w - 1 = b
    <3>1. n - 1 \in 0..L
      BY <1>0
    <3>2. reads[n - 1] \in P
      <4> HIDE DEF P
      <4> QED
        BY <1>10, <3>1
    <3>3. PICK c \in Nat \ {0} : reads[n - 1] = c
      BY <3>2
    <3> QED
      BY <3>3
  <2>4. PICK e \in Nat, f \in Nat : a * s = e /\ b * d = f
    <3>1. a * s \in Nat /\ b * d \in Nat
      BY Ordered
    <3> QED
      BY <3>1
  <2>5. Effective(o) = f + 1
    BY <2>2, <2>3, <2>4 DEF Effective
  <2>6. reads[n] = e + (f + 1)
    BY <2>1, <2>2, <2>3, <2>4, <2>5
  <2>7. (reads[n - 1] - 1) * o.stride + (o.need - 1) * o.dilation + 1 = e + f + 1
    BY <2>2, <2>3, <2>4
  <2> QED
    BY <2>1, <2>6, <2>7
<1>13. reads = [n \in 0..L |-> IF n = 0 THEN 1
                               ELSE (reads[n - 1] - 1) * Engine!FromEnd(n).stride
                                      + (Engine!FromEnd(n).need - 1) * Engine!FromEnd(n).dilation + 1]
  <2>1. reads = [n \in 0..L |-> reads[n]]
    <3> HIDE DEF P
    <3> QED
      BY <1>10
  <2>2. \A n \in 0..L : reads[n] = IF n = 0 THEN 1
                               ELSE (reads[n - 1] - 1) * Engine!FromEnd(n).stride
                                      + (Engine!FromEnd(n).need - 1) * Engine!FromEnd(n).dilation + 1
    <3> TAKE n \in 0..L
    <3>1. CASE n = 0
      BY <1>10, <3>1
    <3>2. CASE n # 0
      <4>1. n \in 1..L
        BY <1>0, <3>2
      <4> QED
        BY <1>12, <3>2, <4>1
    <3> QED
      BY <3>1, <3>2
  <2> QED
    BY <2>1, <2>2
<1>14. moves = [n \in 0..L |-> IF n = 0 THEN 1 ELSE moves[n - 1] * Engine!FromEnd(n).stride]
  <2>1. moves = [n \in 0..L |-> moves[n]]
    <3> HIDE DEF P
    <3> QED
      BY <1>10
  <2>2. \A n \in 0..L : moves[n] = IF n = 0 THEN 1 ELSE moves[n - 1] * Engine!FromEnd(n).stride
    <3> TAKE n \in 0..L
    <3>1. CASE n = 0
      BY <1>10, <3>1
    <3>2. CASE n # 0
      <4>1. n \in 1..L
        BY <1>0, <3>2
      <4> QED
        BY <1>2, <1>11, <3>2, <4>1
    <3> QED
      BY <3>1, <3>2
  <2> QED
    BY <2>1, <2>2
<1>15. PICK g : /\ g = [n \in 0..L |-> IF n = 0 THEN 1
                               ELSE (g[n - 1] - 1) * Engine!FromEnd(n).stride
                                      + (Engine!FromEnd(n).need - 1) * Engine!FromEnd(n).dilation + 1]
                /\ Engine!Receptive = g[L]
  BY <1>0, <1>13 DEF Engine!Receptive
<1>16. PICK h : /\ h = [n \in 0..L |-> IF n = 0 THEN 1 ELSE h[n - 1] * Engine!FromEnd(n).stride]
                /\ Engine!Stride = h[L]
  BY <1>0, <1>14 DEF Engine!Stride
<1>17. \A n \in 0..L : g[n] = reads[n] /\ h[n] = moves[n]
  <2> DEFINE T == {n \in 0..L : g[n] = reads[n] /\ h[n] = moves[n]}
  <2>1. 0 \in T
    <3>1. g[0] = 1 /\ h[0] = 1
      BY <1>0, <1>15, <1>16
    <3> QED
      BY <1>0, <1>10, <3>1
  <2>2. ASSUME NEW n \in 1..L, n - 1 \in T PROVE n \in T
    <3>1. n \in 0..L /\ n # 0 /\ g[n - 1] = reads[n - 1] /\ h[n - 1] = moves[n - 1]
      BY <1>0, <2>2
    <3>2. g[n] = (g[n - 1] - 1) * Engine!FromEnd(n).stride
                   + (Engine!FromEnd(n).need - 1) * Engine!FromEnd(n).dilation + 1
      BY <1>15, <3>1
    <3>3. h[n] = h[n - 1] * Engine!FromEnd(n).stride
      BY <1>16, <3>1
    <3>4. moves[n] = moves[n - 1] * Engine!FromEnd(n).stride
      BY <1>2, <1>11
    <3> QED
      BY <1>12, <3>1, <3>2, <3>3, <3>4
  <2>3. T = 0..L
    <3>1. T \in SUBSET (0..L)
      OBVIOUS
    <3> HIDE DEF T
    <3> QED
      BY <1>0, <2>1, <2>2, <3>1, Upwards
  <2>4. ASSUME NEW n \in 0..L PROVE g[n] = reads[n] /\ h[n] = moves[n]
    <3>1. n \in T
      <4> HIDE DEF T
      <4> QED
        BY <2>3
    <3> QED
      BY <3>1
  <2> QED
    BY <2>4
<1>18. L \in 0..L
  BY <1>0
<1>19. Engine!Receptive = reads[L] /\ Engine!Stride = moves[L]
  BY <1>15, <1>16, <1>17, <1>18
<1>20. \A n \in 0..L : reads[n] \in P /\ moves[n] \in P
  <2> HIDE DEF P
  <2> QED
    BY <1>10
<1>21. \A n \in 1..L : /\ reads[n] = (reads[n - 1] - 1) * chain[L + 1 - n].stride + Effective(chain[L + 1 - n])
                       /\ moves[n] = moves[n - 1] * chain[L + 1 - n].stride
  BY <1>2, <1>11
<1>22. Reach(L, reads, moves)
  BY <1>10, <1>20, <1>21 DEF Reach
<1> QED
  BY <1>19, <1>22


\* What every stage was given and passes on: the rows of the stream since it began.
Streams(L, X) ==
  /\ \E S : X[0] \in Seq(S)
  /\ \A i \in 1..L : X[i] = Outputs(chain[i], X[i - 1]) /\ Runs(chain[i], X[i - 1])

LEMMA StreamsAre ==
    ASSUME NEW L, ChainIs(L), NEW X, Streams(L, X)
    PROVE  \A i \in 0..L : \E S : X[i] \in Seq(S)
<1>0. L \in Nat
  BY DEF ChainIs
<1> DEFINE T == {i \in 0..L : \E S : X[i] \in Seq(S)}
<1>1. 0 \in T
  BY <1>0 DEF Streams
<1>2. ASSUME NEW i \in 1..L, i - 1 \in T PROVE i \in T
  <2>1. PICK S, x : X[i - 1] = x /\ x \in Seq(S)
    BY <1>2
  <2>2. PICK st : chain[i] = st /\ Accepted(st)
    BY DEF ChainIs
  <2>3. X[i] = Outputs(st, x)
    BY <2>1, <2>2 DEF Streams
  <2>4. \E S2 : Outputs(st, x) \in Seq(S2)
    BY <2>1, <2>2, OutputsAre
  <2>5. i \in 0..L
    BY <1>0
  <2> QED
    BY <2>3, <2>4, <2>5
<1>3. T \in SUBSET (0..L)
  OBVIOUS
<1>4. T = 0..L
  <2> HIDE DEF T
  <2> QED
    BY <1>0, <1>1, <1>2, <1>3, Upwards
<1> QED
  BY <1>4

\* The windows of one operator more.
LEMMA WindowsNest ==
    ASSUME NEW s \in Nat \ {0}, NEW t \in Nat \ {0}, NEW u \in Nat \ {0}, NEW k \in Nat \ {0}
    PROVE  \E o, p, q \in Nat : /\ (k - 1) * t = o /\ o * s = p /\ (u - 1) * s = q
                                /\ (k - 1) * (t * s) = p /\ (o + u - 1) * s = p + q
<1>1. PICK a \in Nat, b \in Nat : k - 1 = a /\ u - 1 = b
  OBVIOUS
<1>2. PICK o \in Nat : a * t = o
  <2>1. a * t \in Nat
    BY Ordered
  <2> QED
    BY <2>1
<1>3. PICK p \in Nat, q \in Nat : o * s = p /\ b * s = q
  <2>1. o * s \in Nat /\ b * s \in Nat
    BY Ordered
  <2> QED
    BY <2>1
<1>4. a * (t * s) = (a * t) * s
  OBVIOUS
<1>5. (o + b) * s = o * s + b * s
  BY Ordered
<1>6. o + u - 1 = o + b
  BY <1>1
<1> QED
  BY <1>1, <1>2, <1>3, <1>4, <1>5, <1>6

\* The stream has a row for every window of frames that is there.
LEMMA Counts ==
    ASSUME NEW L, ChainIs(L), NEW X, Streams(L, X), NEW reads, NEW moves, Reach(L, reads, moves),
           NEW k \in Nat \ {0}
    PROVE  \A n \in 0..L : k <= Len(X[L]) <=> (k - 1) * moves[n] + reads[n] <= Len(X[L - n])
<1>0. L \in Nat
  BY DEF ChainIs
<1> DEFINE T == {n \in 0..L : k <= Len(X[L]) <=> (k - 1) * moves[n] + reads[n] <= Len(X[L - n])}
<1>1. 0 \in T
  <2>1. PICK c \in Nat : Len(X[L]) = c
    <3>1. L \in 0..L
      BY <1>0
    <3>2. PICK S, x : X[L] = x /\ x \in Seq(S)
      BY <3>1, StreamsAre
    <3> QED
      BY <3>2
  <2>2. moves[0] = 1 /\ reads[0] = 1 /\ L - 0 = L /\ 0 \in 0..L
    BY <1>0 DEF Reach
  <2>3. k <= c <=> (k - 1) * 1 + 1 <= c
    OBVIOUS
  <2> QED
    BY <2>1, <2>2, <2>3
<1>2. ASSUME NEW n \in 1..L, n - 1 \in T PROVE n \in T
  <2>1. PICK i \in 1..L : L + 1 - n = i /\ L - (n - 1) = i /\ L - n = i - 1
    BY <1>0
  <2>2. n \in 0..L /\ n - 1 \in 0..L /\ i - 1 \in 0..L
    BY <1>0, <2>1
  <2>3. PICK st : chain[i] = st /\ Accepted(st)
    BY DEF ChainIs
  <2>4. PICK S, x : X[i - 1] = x /\ x \in Seq(S)
    BY <2>2, StreamsAre
  <2>5. PICK s \in Nat \ {0}, w \in Nat \ {0}, eff \in Nat \ {0}, m \in Nat :
          st.stride = s /\ st.need = w /\ Effective(st) = eff /\ Len(x) = m /\ w <= eff
    BY <2>3, <2>4, OperatorFields
  <2>6. PICK t \in Nat \ {0}, u \in Nat \ {0} : moves[n - 1] = t /\ reads[n - 1] = u
    BY <2>2 DEF Reach
  <2>7. moves[n] = t * s /\ reads[n] = (u - 1) * s + eff
    BY <2>1, <2>3, <2>5, <2>6 DEF Reach
  <2>8. PICK o, p, q \in Nat : /\ (k - 1) * t = o /\ o * s = p /\ (u - 1) * s = q
                               /\ (k - 1) * (t * s) = p /\ (o + u - 1) * s = p + q
    BY WindowsNest
  <2>9. PICK j \in Nat \ {0} : o + u = j /\ o + u - 1 = j - 1
    OBVIOUS
  <2>10. PICK f \in Nat : Fits(s, w, m) = f /\ (j <= f <=> (j - 1) * s + w <= m)
    BY FitsIs
  <2>11. Len(X[i]) = f
    <3>1. X[i] = Outputs(st, x)
      BY <2>3, <2>4 DEF Streams
    <3>2. Len(Outputs(st, x)) = Emitted(st, Len(x))
      BY <2>3, <2>4, OutputsAre
    <3> QED
      BY <2>5, <2>10, <3>1, <3>2 DEF Emitted
  <2>12. k <= Len(X[L]) <=> j <= f
    <3>1. k <= Len(X[L]) <=> (k - 1) * moves[n - 1] + reads[n - 1] <= Len(X[L - (n - 1)])
      BY <1>2
    <3> QED
      BY <2>1, <2>6, <2>8, <2>9, <2>11, <3>1
  <2>13. j <= f <=> p + q + w <= m
    BY <2>8, <2>9, <2>10
  <2>14. p + q + w <= m <=> p + (q + eff) <= m
    <3>1. Dense(st) \/ m < w
      BY <2>3, <2>4, <2>5 DEF Streams, Runs
    <3>2. Dense(st) => eff = w
      BY <2>5 DEF Dense
    <3> QED
      BY <2>5, <3>1, <3>2
  <2>15. (k - 1) * moves[n] + reads[n] = p + (q + eff)
    BY <2>7, <2>8
  <2>16. Len(X[L - n]) = m
    BY <2>1, <2>4, <2>5
  <2> QED
    BY <2>2, <2>12, <2>13, <2>14, <2>15, <2>16
<1>3. T \in SUBSET (0..L)
  OBVIOUS
<1>4. T = 0..L
  <2> HIDE DEF T
  <2> QED
    BY <1>0, <1>1, <1>2, <1>3, Upwards
<1> QED
  BY <1>4

\* Behind p rows of its stream an operator reads q rows, and makes of them u rows
\* behind the o it has made before.
Behind(st, x, o, u, p, q) ==
  /\ o * st.stride = p /\ (u - 1) * st.stride + Effective(st) = q
  /\ p + q <= Len(x) /\ o + u <= Len(Outputs(st, x))

\* An operator makes of its part of the stream the part it makes of it in the stream.
LEMMA KernelOfPart ==
    ASSUME NEW st, Accepted(st), NEW S, NEW x \in Seq(S), NEW o \in Nat, NEW u \in Nat \ {0},
           NEW p \in Nat, NEW q \in Nat, Behind(st, x, o, u, p, q)
    PROVE  Engine!Kernel(st, SubSeq(x, p + 1, p + q)) = SubSeq(Outputs(st, x), o + 1, o + u)
<1> USE DEF Behind
<1>0. PICK s \in Nat \ {0}, eff \in Nat \ {0} : st.stride = s /\ Effective(st) = eff
  BY OperatorFields
<1>1. PICK e \in Nat : p + q = e /\ e - p = q /\ e <= Len(x) /\ p <= e
  OBVIOUS
<1>2. PICK y : SubSeq(x, p + 1, e) = y /\ y \in Seq(S) /\ Len(y) = q
  <2>1. SubSeq(x, p + 1, e) \in Seq(S) /\ Len(SubSeq(x, p + 1, e)) = e - p
    BY <1>1, PartIs
  <2> QED
    BY <1>1, <2>1
<1>3. Fits(st.stride, Effective(st), q) = u
  <2>1. PICK n \in Nat : Exactly(s, eff, u, eff, n)
    BY FitsExactly
  <2>2. n = q
    BY <1>0, <2>1 DEF Exactly
  <2> QED
    BY <1>0, <2>1, <2>2 DEF Exactly
<1>4. Engine!Kernel(st, y) = [j \in 1..u |-> Row(st, y, j)]
  <2>1. Engine!Kernel(st, y) = [j \in 1..Fits(st.stride, Effective(st), Len(y)) |-> Row(st, y, j)]
    <3>1. y \in Seq(S)
      BY <1>2
    <3> QED
      BY <3>1, KernelIs
  <2> QED
    BY <1>2, <1>3, <2>1
<1>5. PICK A, z : Outputs(st, x) = z /\ z \in Seq(A)
  BY OutputsAre
<1>6. \A j \in 1..u : z[o + j] = Row(st, x, o + j)
  <2> TAKE j \in 1..u
  <2>1. PICK c \in Nat : Emitted(st, Len(x)) = c /\ Len(z) = c /\ \A i \in 1..c : z[i] = Row(st, x, i)
    BY <1>5, OutputsAre
  <2>2. o + j \in 1..c
    BY <1>5, <2>1
  <2> QED
    BY <2>1, <2>2
<1>7. \A j \in 1..u : Row(st, y, j) = Row(st, x, o + j)
  <2> TAKE j \in 1..u
  <2>1. o * st.stride = p /\ j \in 1..Fits(st.stride, Effective(st), e - o * st.stride)
    BY <1>1, <1>3
  <2>2. Row(st, SubSeq(x, o * st.stride + 1, e), j) = Row(st, x, o + j)
    <3>1. o * st.stride <= e /\ e <= Len(x) /\ e \in Nat
      BY <1>1, <2>1
    <3> QED
      BY <2>1, <3>1, RowsMove
  <2> QED
    BY <1>2, <2>1, <2>2
<1>8. PICK v : SubSeq(z, o + 1, o + u) = v /\ v \in Seq(A) /\ Len(v) = u /\ \A j \in 1..u : v[j] = z[o + j]
  <2>1. PICK h \in Nat : o + u = h /\ o <= h /\ h - o = u
    OBVIOUS
  <2>2. h <= Len(z) /\ z \in Seq(A)
    BY <1>5, <2>1
  <2>3. /\ SubSeq(z, o + 1, h) \in Seq(A) /\ Len(SubSeq(z, o + 1, h)) = h - o
        /\ \A j \in 1..h - o : SubSeq(z, o + 1, h)[j] = z[o + j]
    BY <2>1, <2>2, PartIs
  <2> QED
    BY <2>1, <2>3
<1>9. PICK w : Engine!Kernel(st, y) = w
  OBVIOUS
<1>10. Len(w) = u /\ (\E B : w \in Seq(B)) /\ \A j \in 1..u : w[j] = v[j]
  <2>1. \A j \in 1..u : w[j] = Row(st, y, j)
    BY <1>4, <1>9
  <2>2. PICK B : B = {Row(st, y, j) : j \in 1..u}
    OBVIOUS
  <2>3. w \in [1..u -> B]
    BY <1>4, <1>9, <2>2
  <2> QED
    BY <1>6, <1>7, <1>8, <2>1, <2>3, SequenceIs
<1>11. w = v
  <2>1. PICK B : w \in Seq(B)
    BY <1>10
  <2>2. v \in Seq(A) /\ Len(w) = Len(v) /\ \A j \in 1..Len(w) : w[j] = v[j]
    BY <1>8, <1>10
  <2> QED
    BY <2>1, <2>2, SameElements
<1> QED
  BY <1>1, <1>2, <1>5, <1>8, <1>9, <1>11

\* One element of a sequence.
LEMMA OneOf ==
    ASSUME NEW S, NEW x \in Seq(S), NEW k \in 1..Len(x)
    PROVE  SubSeq(x, k, k) = <<x[k]>>
<1>1. PICK p \in Nat : k = p + 1 /\ p <= k /\ k - p = 1
  <2>1. k - 1 \in Nat /\ k = (k - 1) + 1
    OBVIOUS
  <2> QED
    BY <2>1
<1>2. /\ SubSeq(x, p + 1, k) \in Seq(S) /\ Len(SubSeq(x, p + 1, k)) = k - p
      /\ \A i \in 1..k - p : SubSeq(x, p + 1, k)[i] = x[p + i]
  BY <1>1, PartIs
<1>3. <<x[k]>> \in Seq(S) /\ Len(<<x[k]>>) = 1 /\ <<x[k]>>[1] = x[k]
  OBVIOUS
<1>4. PICK y : SubSeq(x, p + 1, k) = y
  OBVIOUS
<1>5. y \in Seq(S) /\ Len(y) = 1 /\ y[1] = x[k]
  <2>1. y \in Seq(S) /\ Len(y) = k - p /\ \A i \in 1..k - p : y[i] = x[p + i]
    BY <1>2, <1>4
  <2>2. 1 \in 1..k - p
    BY <1>1
  <2>3. y[1] = x[p + 1]
    BY <2>1, <2>2
  <2> QED
    BY <1>1, <2>1, <2>3
<1>6. y = <<x[k]>>
  BY <1>3, <1>5, SameElements
<1> QED
  BY <1>1, <1>4, <1>6

\* The whole model has of a window of frames what the stream has there.
LEMMA WindowIs ==
    ASSUME NEW L, ChainIs(L), NEW X, Streams(L, X), NEW reads, NEW moves, Reach(L, reads, moves),
           NEW k \in Nat \ {0}, k <= Len(X[L])
    PROVE  Engine!Windowed(SubSeq(X[0], (k - 1) * moves[L] + 1, (k - 1) * moves[L] + reads[L])) = <<X[L][k]>>
<1>0. L \in Nat /\ Len(chain) = L
  BY DEF ChainIs
<1> DEFINE Part(i) == SubSeq(X[i], (k - 1) * moves[L - i] + 1, (k - 1) * moves[L - i] + reads[L - i])
<1>1. PICK g : /\ g[0] = Part(0)
               /\ \A i \in 1..L : g[i] = Engine!Kernel(chain[i], g[i - 1])
               /\ Engine!Windowed(Part(0)) = g[L]
  <2> HIDE DEF Part
  <2> QED
    BY <1>0, WindowedIs
<1> DEFINE T == {i \in 0..L : g[i] = Part(i)}
<1>2. 0 \in T
  BY <1>0, <1>1
<1>3. ASSUME NEW i \in 1..L, i - 1 \in T PROVE i \in T
  <2>1. PICK n \in 1..L : L + 1 - i = n /\ L - i = n - 1 /\ L - (i - 1) = n /\ L + 1 - n = i /\ L - (n - 1) = i /\ L - n = i - 1
    BY <1>0
  <2>2. i \in 0..L /\ n \in 0..L /\ n - 1 \in 0..L /\ i - 1 \in 0..L
    BY <1>0, <2>1
  <2>3. PICK st : chain[i] = st /\ Accepted(st)
    BY DEF ChainIs
  <2>4. PICK S, x : X[i - 1] = x /\ x \in Seq(S)
    BY <2>2, StreamsAre
  <2>5. PICK s \in Nat \ {0}, eff \in Nat \ {0} : st.stride = s /\ Effective(st) = eff
    BY <2>3, OperatorFields
  <2>6. PICK t \in Nat \ {0}, u \in Nat \ {0} : moves[n - 1] = t /\ reads[n - 1] = u
    BY <2>2 DEF Reach
  <2>7. moves[n] = t * s /\ reads[n] = (u - 1) * s + eff
    BY <2>1, <2>3, <2>5, <2>6 DEF Reach
  <2>8. PICK o, p, q \in Nat : /\ (k - 1) * t = o /\ o * s = p /\ (u - 1) * s + eff = q
                               /\ (k - 1) * (t * s) = p
    <3>1. PICK o, p, q \in Nat : /\ (k - 1) * t = o /\ o * s = p /\ (u - 1) * s = q
                                 /\ (k - 1) * (t * s) = p /\ (o + u - 1) * s = p + q
      BY WindowsNest
    <3>2. (u - 1) * s + eff = q + eff /\ q + eff \in Nat
      BY <3>1
    <3> QED
      BY <3>1, <3>2
  <2>9. X[i] = Outputs(st, x)
    BY <2>3, <2>4 DEF Streams
  <2>10. o + u <= Len(Outputs(st, x))
    <3>1. (k - 1) * moves[n - 1] + reads[n - 1] <= Len(X[L - (n - 1)])
      BY <2>2, Counts
    <3> QED
      BY <2>1, <2>6, <2>8, <2>9, <3>1
  <2>11. p + q <= Len(x)
    <3>1. (k - 1) * moves[n] + reads[n] <= Len(X[L - n])
      BY <2>2, Counts
    <3> QED
      BY <2>1, <2>4, <2>7, <2>8, <3>1
  <2>12. g[i - 1] = SubSeq(x, p + 1, p + q)
    <3>1. g[i - 1] = SubSeq(X[i - 1], (k - 1) * moves[L - (i - 1)] + 1, (k - 1) * moves[L - (i - 1)] + reads[L - (i - 1)])
      BY <1>3
    <3> QED
      BY <2>1, <2>4, <2>7, <2>8, <3>1
  <2>13. Engine!Kernel(st, SubSeq(x, p + 1, p + q)) = SubSeq(Outputs(st, x), o + 1, o + u)
    <3>1. Behind(st, x, o, u, p, q)
      BY <2>5, <2>8, <2>10, <2>11 DEF Behind
    <3> QED
      BY <2>3, <2>4, <3>1, KernelOfPart
  <2>14. Part(i) = SubSeq(Outputs(st, x), o + 1, o + u)
    BY <2>1, <2>6, <2>8, <2>9
  <2>15. g[i] = Part(i)
    <3>1. g[i] = Engine!Kernel(st, g[i - 1])
      BY <1>1, <2>3
    <3> HIDE DEF Part
    <3> QED
      BY <2>12, <2>13, <2>14, <3>1
  <2> HIDE DEF Part
  <2> QED
    BY <2>2, <2>15
<1>4. T \in SUBSET (0..L)
  OBVIOUS
<1>5. T = 0..L
  <2> HIDE DEF T
  <2> QED
    BY <1>0, <1>2, <1>3, <1>4, Upwards
<1>6. L \in 0..L
  BY <1>0
<1>7. g[L] = Part(L)
  <2>1. L \in T
    <3> HIDE DEF T
    <3> QED
      BY <1>5, <1>6
  <2> HIDE DEF Part
  <2> QED
    BY <2>1
<1>8. Part(L) = <<X[L][k]>>
  <2>1. PICK S, x : X[L] = x /\ x \in Seq(S)
    BY <1>6, StreamsAre
  <2>2. L - L = 0 /\ moves[0] = 1 /\ reads[0] = 1
    BY <1>0 DEF Reach
  <2>3. (k - 1) * 1 + 1 = k
    OBVIOUS
  <2>4. Part(L) = SubSeq(x, k, k)
    BY <2>1, <2>2, <2>3
  <2>5. k \in 1..Len(x)
    BY <2>1
  <2>6. SubSeq(x, k, k) = <<x[k]>>
    BY <2>1, <2>5, OneOf
  <2> QED
    BY <2>1, <2>4, <2>6
<1>9. L - 0 = L
  BY <1>0
<1>10. Part(0) = SubSeq(X[0], (k - 1) * moves[L] + 1, (k - 1) * moves[L] + reads[L])
  BY <1>9
<1> HIDE DEF Part
<1> QED
  BY <1>1, <1>7, <1>8, <1>10

\* The stream and the model on one window after the other have the same rows.
LEMMA StreamIs ==
    ASSUME NEW L, ChainIs(L), NEW X, Streams(L, X)
    PROVE  LET fit == Fits(Engine!Stride, Engine!Receptive, Len(X[0]))
           IN  /\ Len(X[L]) = fit
               /\ \A k \in 1..fit :
                   Engine!Windowed(SubSeq(X[0], (k - 1) * Engine!Stride + 1, (k - 1) * Engine!Stride + Engine!Receptive))
                     = <<X[L][k]>>
<1>0. L \in Nat /\ L \in 0..L /\ 0 \in 0..L /\ L - L = 0
  BY DEF ChainIs
<1>1. PICK reads, moves : Reach(L, reads, moves) /\ Engine!Receptive = reads[L] /\ Engine!Stride = moves[L]
  BY ReachIs
<1>2. PICK t \in Nat \ {0}, u \in Nat \ {0} : moves[L] = t /\ reads[L] = u
  BY <1>0, <1>1 DEF Reach
<1>3. PICK c \in Nat, m \in Nat : Len(X[L]) = c /\ Len(X[0]) = m
  <2>1. PICK S, x : X[L] = x /\ x \in Seq(S)
    BY <1>0, StreamsAre
  <2>2. PICK S2, y : X[0] = y /\ y \in Seq(S2)
    BY <1>0, StreamsAre
  <2> QED
    BY <2>1, <2>2
<1>4. PICK f \in Nat : Fits(t, u, m) = f /\ \A k \in Nat \ {0} : k <= f <=> (k - 1) * t + u <= m
  BY FitsIs
<1>5. \A k \in Nat \ {0} : k <= c <=> (k - 1) * t + u <= m
  <2> TAKE k \in Nat \ {0}
  <2>1. k <= Len(X[L]) <=> (k - 1) * moves[L] + reads[L] <= Len(X[L - L])
    BY <1>0, <1>1, Counts
  <2> QED
    BY <1>0, <1>2, <1>3, <2>1
<1>6. c = f
  <2>1. \A k \in Nat \ {0} : k <= c <=> k <= f
    BY <1>4, <1>5
  <2> QED
    BY <2>1, SameCount
<1>7. ASSUME NEW k \in 1..f
      PROVE  Engine!Windowed(SubSeq(X[0], (k - 1) * t + 1, (k - 1) * t + u)) = <<X[L][k]>>
  <2>1. k \in Nat \ {0} /\ k <= Len(X[L])
    BY <1>3, <1>6
  <2>2. Engine!Windowed(SubSeq(X[0], (k - 1) * moves[L] + 1, (k - 1) * moves[L] + reads[L])) = <<X[L][k]>>
    BY <1>1, <2>1, WindowIs
  <2> QED
    BY <1>2, <2>2
<1> QED
  BY <1>1, <1>2, <1>3, <1>4, <1>6, <1>7


\* What the stages hold back of their streams.
HeldIs(L, X, p) == DOMAIN p = 1..L /\ \A i \in 1..L : p[i] = Rest(chain[i], X[i - 1])

\* What is true of a write that has come to the n-th stage.
Written(L, Y, n, acc) ==
  /\ acc.ok => /\ \E S : acc.rows \in Seq(S)
               /\ DOMAIN acc.pending = 1..L
               /\ \A j \in 1..L : j <= n => /\ acc.pending[j] = Rest(chain[j], Y[j - 1])
                                            /\ Y[j] = Outputs(chain[j], Y[j - 1]) /\ Runs(chain[j], Y[j - 1])
               /\ \A j \in 1..L : j > n => acc.pending[j] = held[j]
  /\ ~acc.ok => acc.rows = <<>>

\* One stage of a write.
LEMMA PassWrites ==
    ASSUME NEW L, ChainIs(L), NEW X, Streams(L, X), HeldIs(L, X, held), NEW Y, NEW n \in 1..L,
           NEW acc, Written(L, Y, n - 1, acc), acc.ok => Y[n - 1] = X[n - 1] \o acc.rows,
           Engine!Pass(n, acc).ok => Y[n] = X[n] \o Engine!Pass(n, acc).rows
    PROVE  Written(L, Y, n, Engine!Pass(n, acc))
<1>0. L \in Nat /\ n - 1 \in 0..L /\ n \in 0..L
  BY DEF ChainIs
<1>1. PICK st : chain[n] = st /\ Accepted(st)
  BY DEF ChainIs
<1>2. PICK A, x : X[n - 1] = x /\ x \in Seq(A)
  BY <1>0, StreamsAre
<1>3. X[n] = Outputs(st, x) /\ Runs(st, x) /\ held[n] = Rest(st, x)
  BY <1>1, <1>2 DEF Streams, HeldIs
<1>4. PICK B, z : X[n] = z /\ z \in Seq(B)
  BY <1>0, StreamsAre
<1>5. CASE acc.rows = <<>>
  <2>1. Engine!Pass(n, acc) = acc
    BY <1>5 DEF Engine!Pass
  <2>2. ASSUME acc.ok
        PROVE  /\ acc.pending[n] = Rest(st, Y[n - 1]) /\ Y[n] = Outputs(st, Y[n - 1]) /\ Runs(st, Y[n - 1])
    <3>1. Y[n - 1] = x
      <4>1. x \o <<>> = x
        BY <1>2, NothingBehind
      <4> QED
        BY <1>2, <1>5, <2>2, <4>1
    <3>2. Y[n] = z
      <4>1. z \o <<>> = z
        BY <1>4, NothingBehind
      <4> QED
        BY <1>4, <1>5, <2>1, <2>2, <4>1
    <3>3. acc.pending[n] = held[n]
      <4>1. n > n - 1
        BY <1>0
      <4> QED
        BY <2>2, <4>1 DEF Written
    <3> QED
      BY <1>3, <1>4, <3>1, <3>2, <3>3
  <2>3. \A j \in 1..L : (j <= n <=> j <= n - 1 \/ j = n) /\ (j > n => j > n - 1)
    BY <1>0
  <2> QED
    BY <1>1, <2>1, <2>2, <2>3 DEF Written
<1>6. CASE acc.rows # <<>>
  <2>1. acc.ok
    BY <1>6 DEF Written
  <2>2. PICK C, r : acc.rows = r /\ r \in Seq(C)
    BY <2>1 DEF Written
  <2>3. Y[n - 1] = x \o r
    BY <1>2, <2>1, <2>2
  <2>4. acc.pending[n] = Rest(st, x)
    <3>1. n > n - 1
      BY <1>0
    <3> QED
      BY <1>3, <2>1, <3>1 DEF Written
  <2>5. PICK done : Engine!run(st, Rest(st, x), r) = done
    OBVIOUS
  <2>6. Engine!Pass(n, acc) = [pending |-> [acc.pending EXCEPT ![n] = done.pending], rows |-> done.rows, ok |-> done.ok]
    BY <1>1, <1>6, <2>2, <2>4, <2>5 DEF Engine!Pass
  <2>7. /\ done.ok => /\ done.pending = Rest(st, x \o r)
                      /\ Outputs(st, x \o r) = Outputs(st, x) \o done.rows
                      /\ \E T : done.rows \in Seq(T)
                      /\ Runs(st, x \o r)
        /\ ~done.ok => done.rows = <<>>
    <3>1. PICK D : x \in Seq(D) /\ r \in Seq(D)
      <4>1. x \in Seq(A \cup C) /\ r \in Seq(A \cup C)
        BY <1>2, <2>2
      <4> QED
        BY <4>1
    <3> QED
      <4>1. Accepted(st) /\ Runs(st, x)
        BY <1>1, <1>3
      <4>2. \A d : Engine!run(st, Rest(st, x), r) = d =>
              /\ d.ok => /\ d.pending = Rest(st, x \o r)
                         /\ Outputs(st, x \o r) = Outputs(st, x) \o d.rows
                         /\ \E T : d.rows \in Seq(T)
                         /\ Runs(st, x \o r)
              /\ ~d.ok => d.rows = <<>>
        BY <3>1, <4>1, RunIs, SMTT(30)
      <4> QED
        BY <2>5, <4>2
  <2>8. PICK after : Engine!Pass(n, acc) = after
    OBVIOUS
  <2>9. after.ok = done.ok /\ after.rows = done.rows /\ after.pending = [acc.pending EXCEPT ![n] = done.pending]
    BY <2>6, <2>8
  <2>10. ASSUME after.ok
         PROVE  /\ \E S : after.rows \in Seq(S)
                /\ DOMAIN after.pending = 1..L
                /\ \A j \in 1..L : j <= n => /\ after.pending[j] = Rest(chain[j], Y[j - 1])
                                             /\ Y[j] = Outputs(chain[j], Y[j - 1]) /\ Runs(chain[j], Y[j - 1])
                /\ \A j \in 1..L : j > n => after.pending[j] = held[j]
    <3>1. done.ok /\ \E S : after.rows \in Seq(S)
      BY <2>7, <2>9, <2>10
    <3>2. DOMAIN acc.pending = 1..L
      BY <2>1 DEF Written
    <3>3. /\ DOMAIN after.pending = 1..L /\ after.pending[n] = done.pending
          /\ \A j \in 1..L : j # n => after.pending[j] = acc.pending[j]
      BY <2>9, <3>2
    <3>4. Y[n] = Outputs(st, Y[n - 1]) /\ Runs(st, Y[n - 1]) /\ after.pending[n] = Rest(st, Y[n - 1])
      <4>1. Y[n] = X[n] \o done.rows
        BY <2>8, <2>9, <2>10
      <4> QED
        BY <1>3, <2>3, <2>7, <3>1, <3>3, <4>1
    <3>5. \A j \in 1..L : (j <= n <=> j <= n - 1 \/ j = n) /\ (j > n => j > n - 1 /\ j # n) /\ (j <= n - 1 => j # n)
      BY <1>0
    <3>6. \A j \in 1..L : j <= n => /\ after.pending[j] = Rest(chain[j], Y[j - 1])
                                    /\ Y[j] = Outputs(chain[j], Y[j - 1]) /\ Runs(chain[j], Y[j - 1])
      BY <1>1, <2>1, <3>3, <3>4, <3>5 DEF Written
    <3>7. \A j \in 1..L : j > n => after.pending[j] = held[j]
      BY <2>1, <3>3, <3>5 DEF Written
    <3> QED
      BY <3>1, <3>3, <3>6, <3>7
  <2>11. ~after.ok => after.rows = <<>>
    BY <2>7, <2>9
  <2> QED
    BY <2>8, <2>10, <2>11 DEF Written
<1> QED
  BY <1>5, <1>6

\* A write that fails nowhere leaves the stages what they would have of the stream
\* with the new rows behind it.
LEMMA StreamGrows ==
    ASSUME NEW L, ChainIs(L), NEW X, Streams(L, X), HeldIs(L, X, held), NEW R, NEW rows \in Seq(R),
           NEW done, Engine!Write(rows) = done, done.ok
    PROVE  \E Y : /\ Streams(L, Y) /\ HeldIs(L, Y, done.pending)
                  /\ Y[0] = X[0] \o rows /\ Y[L] = X[L] \o done.rows
                  /\ \E S : done.rows \in Seq(S)
<1>0. L \in Nat /\ Len(chain) = L /\ 0 \in 0..L /\ L \in 0..L
  BY DEF ChainIs
<1>1. PICK g : /\ g[0] = [pending |-> held, rows |-> rows, ok |-> TRUE]
               /\ \A i \in 1..L : g[i] = Engine!Pass(i, g[i - 1])
               /\ Engine!Write(rows) = g[L]
  BY <1>0, WriteIs
<1>2. PICK Y : Y = [i \in 0..L |-> X[i] \o g[i].rows]
  OBVIOUS
<1>3. \A i \in 0..L : Y[i] = X[i] \o g[i].rows
  BY <1>2
<1> DEFINE T == {i \in 0..L : Written(L, Y, i, g[i])}
<1>4. 0 \in T
  <2>1. g[0].ok = TRUE /\ g[0].rows = rows /\ g[0].pending = held
    BY <1>1
  <2>2. DOMAIN held = 1..L
    BY DEF HeldIs
  <2>3. \A j \in 1..L : ~(j <= 0)
    BY <1>0
  <2>4. Written(L, Y, 0, g[0])
    BY <2>1, <2>2, <2>3 DEF Written
  <2> QED
    BY <1>0, <2>4
<1>5. ASSUME NEW i \in 1..L, i - 1 \in T PROVE i \in T
  <2>1. i \in 0..L /\ i - 1 \in 0..L
    BY <1>0
  <2>2. PICK acc : g[i - 1] = acc
    OBVIOUS
  <2>3. Written(L, Y, i - 1, acc) /\ Y[i - 1] = X[i - 1] \o acc.rows
    BY <1>3, <1>5, <2>1, <2>2
  <2>4. g[i] = Engine!Pass(i, acc) /\ Y[i] = X[i] \o g[i].rows
    BY <1>1, <1>3, <2>1, <2>2
  <2>5. Written(L, Y, i, Engine!Pass(i, acc))
    BY <2>3, <2>4, PassWrites
  <2> QED
    BY <2>1, <2>4, <2>5
<1>6. T \in SUBSET (0..L)
  OBVIOUS
<1>7. T = 0..L
  <2> HIDE DEF T
  <2> QED
    BY <1>0, <1>4, <1>5, <1>6, Upwards
<1>8. Written(L, Y, L, done)
  <2>1. L \in T
    <3> HIDE DEF T
    <3> QED
      BY <1>0, <1>7
  <2> QED
    BY <1>1, <2>1
<1>9. \A j \in 1..L : j <= L
  BY <1>0
<1>10. HeldIs(L, Y, done.pending)
  BY <1>8, <1>9 DEF Written, HeldIs
<1>11. Y[0] = X[0] \o rows /\ Y[L] = X[L] \o done.rows
  <2>1. Y[0] = X[0] \o g[0].rows /\ Y[L] = X[L] \o g[L].rows
    BY <1>0, <1>3
  <2> QED
    BY <1>1, <2>1
<1>12. \E S : Y[0] \in Seq(S)
  <2>1. PICK A, x : X[0] = x /\ x \in Seq(A)
    BY DEF Streams
  <2>2. x \in Seq(A \cup R) /\ rows \in Seq(A \cup R)
    BY <2>1
  <2>3. x \o rows \in Seq(A \cup R)
    BY <2>2, Joined
  <2> QED
    BY <1>11, <2>1, <2>3
<1>13. Streams(L, Y)
  BY <1>8, <1>9, <1>12 DEF Written, Streams
<1>14. \E S : done.rows \in Seq(S)
  BY <1>8 DEF Written
<1> QED
  BY <1>10, <1>11, <1>13, <1>14


-----------------------------------------------------------------------------
(* The engine: the frames it has made, the newest of its embeddings.       *)

\* The frame of the j-th place.
FrameAt(h, j) ==
  LET n == (j - 1) \div Rows + 1
  IN  Engine!Mel(IF n = 1 THEN Engine!Silence ELSE h[n - 1], h[n])[((j - 1) % Rows) + 1]
FramesOf(h) == [j \in 1..Rows * Len(h) |-> FrameAt(h, j)]

\* The places of the frames of a step.
Places(R, h, N) ==
    /\ R * h = N /\ R * (h + 1) = N + R
    /\ \A j \in 1..N : (j - 1) \div R + 1 \in 1..h /\ ((j - 1) % R) + 1 \in 1..R
    /\ \A i \in 1..R : (N + i - 1) \div R + 1 = h + 1 /\ ((N + i - 1) % R) + 1 = i
LEMMA FramePlaces ==
    ASSUME NEW R \in Nat \ {0}, NEW h \in Nat
    PROVE  \E N \in Nat : Places(R, h, N)
<1>1. R * h \in Nat /\ R * (h + 1) = R * h + R
  OBVIOUS
<1>2. ASSUME NEW j \in 1..R * h
      PROVE  (j - 1) \div R + 1 \in 1..h /\ ((j - 1) % R) + 1 \in 1..R
  <2>1. PICK a \in Nat : j - 1 = a
    BY <1>1
  <2>2. PICK q \in Nat : a \div R = q /\ q * R <= a
    BY Quotient
  <2>3. q < h
    <3>1. a < h * R
      BY <1>1, <2>1
    <3>2. q * R < h * R => q < h
      BY Ordered
    <3>3. q * R \in Nat /\ h * R \in Nat
      BY Ordered
    <3> QED
      BY <2>2, <3>1, <3>2, <3>3
  <2>4. a % R \in 0..R - 1
    OBVIOUS
  <2> QED
    BY <2>1, <2>2, <2>3, <2>4
<1>3. ASSUME NEW i \in 1..R
      PROVE  (R * h + i - 1) \div R + 1 = h + 1 /\ ((R * h + i - 1) % R) + 1 = i
  <2>1. PICK b \in 0..R - 1 : i - 1 = b
    OBVIOUS
  <2>2. PICK a \in Nat : R * h + b = a
    BY <1>1
  <2>3. a \div R = h /\ a % R = b
    BY <2>2
  <2>4. R * h + i - 1 = a
    BY <1>1, <2>1, <2>2
  <2> QED
    BY <2>1, <2>3, <2>4
<1>4. PICK N \in Nat : R * h = N /\ R * (h + 1) = N + R
  BY <1>1
<1>5. /\ \A j \in 1..N : (j - 1) \div R + 1 \in 1..h /\ ((j - 1) % R) + 1 \in 1..R
      /\ \A i \in 1..R : (N + i - 1) \div R + 1 = h + 1 /\ ((N + i - 1) % R) + 1 = i
  BY <1>2, <1>3, <1>4
<1> QED
  BY <1>4, <1>5 DEF Places

\* Every step has its frames behind those of the steps before it.
LEMMA FramesGrow ==
    ASSUME NEW h \in Seq(Nat), NEW v \in Nat, NEW w, w = IF h = <<>> THEN Engine!Silence ELSE h[Len(h)]
    PROVE  /\ \E S : FramesOf(h) \in Seq(S)
           /\ \E S : Engine!Mel(w, v) \in Seq(S)
           /\ FramesOf(Append(h, v)) = FramesOf(h) \o Engine!Mel(w, v)
<1>1. PICK R \in Nat \ {0} : Rows = R
  BY EngineAssumption
<1>2. PICK n \in Nat : Len(h) = n
  OBVIOUS
<1>0. PICK N \in Nat : Places(R, n, N)
  BY FramePlaces
<1>3. R * n = N /\ R * (n + 1) = N + R
  BY <1>0 DEF Places
<1>4. \A j \in 1..N : (j - 1) \div R + 1 \in 1..n /\ ((j - 1) % R) + 1 \in 1..R
  BY <1>0 DEF Places
<1>5. \A i \in 1..R : (N + i - 1) \div R + 1 = n + 1 /\ ((N + i - 1) % R) + 1 = i
  BY <1>0 DEF Places
<1>6. PICK k : /\ Append(h, v) = k /\ Len(k) = n + 1 /\ k[n + 1] = v /\ \A i \in 1..n : k[i] = h[i]
  <2>1. /\ Len(Append(h, v)) = Len(h) + 1 /\ Append(h, v)[Len(h) + 1] = v
        /\ \A i \in 1..Len(h) : Append(h, v)[i] = h[i]
    OBVIOUS
  <2>2. PICK k : Append(h, v) = k
    OBVIOUS
  <2>3. Len(k) = n + 1 /\ k[n + 1] = v /\ \A i \in 1..n : k[i] = h[i]
    BY <1>2, <2>1, <2>2
  <2> QED
    BY <2>2, <2>3
<1>7. PICK x : FramesOf(h) = x
  OBVIOUS
<1>8. PICK A : x \in Seq(A) /\ Len(x) = N /\ \A j \in 1..N : x[j] = FrameAt(h, j)
  <2>1. x = [j \in 1..N |-> FrameAt(h, j)]
    BY <1>1, <1>2, <1>3, <1>7 DEF FramesOf
  <2>2. PICK A : A = {FrameAt(h, j) : j \in 1..N}
    OBVIOUS
  <2>3. x \in [1..N -> A] /\ \A j \in 1..N : x[j] = FrameAt(h, j)
    BY <2>1, <2>2
  <2> QED
    BY <2>3, SequenceIs
<1>9. PICK y : Engine!Mel(w, v) = y
  OBVIOUS
<1>10. PICK B : y \in Seq(B) /\ Len(y) = R
  <2>1. y = [i \in 1..R |-> <<w, v, i>>]
    BY <1>1, <1>9 DEF Engine!Mel
  <2>2. PICK B : B = {<<w, v, i>> : i \in 1..R}
    OBVIOUS
  <2>3. y \in [1..R -> B]
    BY <2>1, <2>2
  <2> QED
    BY <2>3, SequenceIs
<1>11. PICK z : FramesOf(k) = z
  OBVIOUS
<1>12. PICK C : z \in Seq(C) /\ Len(z) = N + R /\ \A j \in 1..N + R : z[j] = FrameAt(k, j)
  <2>1. z = [j \in 1..N + R |-> FrameAt(k, j)]
    BY <1>1, <1>3, <1>6, <1>11 DEF FramesOf
  <2>2. PICK C : C = {FrameAt(k, j) : j \in 1..N + R}
    OBVIOUS
  <2>3. N + R \in Nat
    OBVIOUS
  <2>4. z \in [1..N + R -> C] /\ \A j \in 1..N + R : z[j] = FrameAt(k, j)
    BY <2>1, <2>2
  <2> QED
    BY <2>3, <2>4, SequenceIs
<1>13. PICK D, u : /\ x \o y = u /\ u \in Seq(D) /\ Len(u) = N + R
                   /\ \A j \in 1..N : u[j] = x[j]
                   /\ \A i \in 1..R : u[N + i] = y[i]
  <2>1. x \in Seq(A \cup B) /\ y \in Seq(A \cup B)
    BY <1>8, <1>10
  <2>2. /\ x \o y \in Seq(A \cup B) /\ Len(x \o y) = Len(x) + Len(y)
        /\ \A j \in 1..Len(x) : (x \o y)[j] = x[j]
        /\ \A i \in 1..Len(y) : (x \o y)[Len(x) + i] = y[i]
    BY <2>1, Joined
  <2>3. PICK u : x \o y = u
    OBVIOUS
  <2>4. /\ u \in Seq(A \cup B) /\ Len(u) = N + R
        /\ \A j \in 1..N : u[j] = x[j]
        /\ \A i \in 1..R : u[N + i] = y[i]
    BY <1>8, <1>10, <2>2, <2>3
  <2>5. \E D, b : /\ x \o y = b /\ b \in Seq(D) /\ Len(b) = N + R
                  /\ \A j \in 1..N : b[j] = x[j]
                  /\ \A i \in 1..R : b[N + i] = y[i]
    <3> DEFINE D == A \cup B
    <3>1. u \in Seq(D)
      BY <2>4
    <3> HIDE DEF D
    <3> WITNESS D, u
    <3> QED
      BY <2>3, <2>4, <3>1
  <2> QED
    BY <2>5
<1>14. ASSUME NEW j \in 1..N PROVE FrameAt(k, j) = FrameAt(h, j)
  <2>1. PICK q \in 1..n : (j - 1) \div R + 1 = q
    BY <1>4
  <2>2. k[q] = h[q]
    BY <1>6
  <2>3. q # 1 => k[q - 1] = h[q - 1]
    <3>1. q # 1 => q - 1 \in 1..n
      OBVIOUS
    <3> QED
      BY <1>6, <3>1
  <2> QED
    BY <1>1, <2>1, <2>2, <2>3, SMTT(30) DEF FrameAt
<1>15. ASSUME NEW i \in 1..R PROVE FrameAt(k, N + i) = y[i]
  <2>1. (N + i - 1) \div R + 1 = n + 1 /\ ((N + i - 1) % R) + 1 = i
    BY <1>5
  <2>2. w = IF n + 1 = 1 THEN Engine!Silence ELSE k[n]
    <3>1. CASE n = 0
      <4>1. h = <<>>
        BY <1>2, <3>1
      <4> QED
        BY <3>1, <4>1
    <3>2. CASE n # 0
      <4>1. h # <<>> /\ n \in 1..n /\ n + 1 # 1
        BY <1>2, <3>2
      <4>2. k[n] = h[n]
        BY <1>6, <4>1
      <4> QED
        BY <1>2, <4>1, <4>2
    <3> QED
      BY <3>1, <3>2
  <2>3. (n + 1) - 1 = n
    OBVIOUS
  <2>4. FrameAt(k, N + i) = Engine!Mel(w, k[n + 1])[i]
    BY <1>1, <2>1, <2>2, <2>3, SMTT(30) DEF FrameAt
  <2> QED
    BY <1>6, <1>9, <2>4
<1>16. \A j \in 1..N + R : z[j] = u[j]
  <2> TAKE j \in 1..N + R
  <2>1. CASE j <= N
    BY <1>8, <1>12, <1>13, <1>14, <2>1
  <2>2. CASE ~(j <= N)
    <3>1. PICK i \in 1..R : j = N + i
      <4>1. j - N \in 1..R /\ j = N + (j - N)
        BY <2>2
      <4> QED
        BY <4>1
    <3> QED
      BY <1>12, <1>13, <1>15, <3>1
  <2> QED
    BY <2>1, <2>2
<1>17. z = u
  <2>1. z \in Seq(C) /\ u \in Seq(D) /\ Len(z) = Len(u) /\ \A j \in 1..Len(z) : z[j] = u[j]
    BY <1>12, <1>13, <1>16
  <2> QED
    BY <2>1, SameElements
<1> QED
  <2>1. FramesOf(Append(h, v)) = FramesOf(h) \o Engine!Mel(w, v)
    BY <1>6, <1>7, <1>9, <1>11, <1>13, <1>17
  <2> QED
    BY <1>7, <1>8, <1>9, <1>10, <2>1

\* The newest of the newest and what follows them are the newest.
LEMMA NewestGrow ==
    ASSUME NEW S, NEW x \in Seq(S), NEW r \in Seq(S), NEW F \in Nat, F <= Len(x)
    PROVE  Engine!Newest(Engine!Newest(x, F) \o r, F) = Engine!Newest(x \o r, F)
<1>1. PICK n \in Nat, m \in Nat : Len(x) = n /\ Len(r) = m
  OBVIOUS
<1>2. PICK p \in Nat : n - F = p /\ n = p + F /\ p <= n
  BY <1>1
<1>3. PICK z : x \o r = z /\ z \in Seq(S) /\ Len(z) = n + m
  <2>1. x \o r \in Seq(S) /\ Len(x \o r) = Len(x) + Len(r)
    BY Joined
  <2> QED
    BY <1>1, <2>1
<1>4. Engine!Newest(x, F) = SubSeq(x, p + 1, Len(x))
  BY <1>1, <1>2 DEF Engine!Newest
<1>5. PICK e \in Nat : n + m = e /\ p <= e /\ e - p = F + m
  BY <1>2
<1>6. SubSeq(x, p + 1, Len(x)) \o r = SubSeq(z, p + 1, e)
  <2>1. p <= Len(x)
    BY <1>1, <1>2
  <2>2. SubSeq(x, p + 1, Len(x)) \o r = SubSeq(x \o r, p + 1, Len(x \o r))
    <3>1. EndOf(x, p) \o r = EndOf(x \o r, p)
      BY <2>1, EndIsJoined
    <3> QED
      BY <3>1 DEF EndOf
  <2> QED
    BY <1>3, <1>5, <2>2
<1>7. Len(SubSeq(z, p + 1, e)) = F + m
  <2>1. e <= Len(z)
    BY <1>3, <1>5
  <2>2. Len(SubSeq(z, p + 1, e)) = e - p
    BY <1>3, <1>5, <2>1, PartIs
  <2> QED
    BY <1>5, <2>2
<1>8. SubSeq(SubSeq(z, p + 1, e), m + 1, F + m) = SubSeq(z, p + m + 1, p + (F + m))
  <2>1. e <= Len(z) /\ F + m <= e - p /\ m <= F + m /\ F + m \in Nat
    BY <1>3, <1>5
  <2> QED
    BY <1>3, <1>5, <2>1, PartOfPart
<1>9. Engine!Newest(SubSeq(z, p + 1, e), F) = SubSeq(SubSeq(z, p + 1, e), m + 1, F + m)
  <2>1. (F + m) - F + 1 = m + 1
    OBVIOUS
  <2> QED
    BY <1>7, <2>1 DEF Engine!Newest
<1>10. Engine!Newest(z, F) = SubSeq(z, p + m + 1, p + (F + m))
  <2>1. (n + m) - F + 1 = p + m + 1 /\ n + m = p + (F + m)
    BY <1>2
  <2> QED
    BY <1>3, <2>1 DEF Engine!Newest
<1> QED
  BY <1>3, <1>4, <1>6, <1>8, <1>9, <1>10

\* The rows before the first embedding.
LEMMA ZerosAre == Engine!Zeros \in Seq({Engine!ZeroRow}) /\ Len(Engine!Zeros) = EngineFrames
<1>1. PICK F \in Nat : EngineFrames = F
  BY EngineAssumption
<1>2. Engine!Zeros \in [1..F -> {Engine!ZeroRow}]
  BY <1>1 DEF Engine!Zeros
<1> QED
  BY <1>1, <1>2, SequenceIs

\* What is behind silence.
LEMMA RingGrows ==
    ASSUME NEW A, NEW e \in Seq(A), NEW B, NEW r \in Seq(B)
    PROVE  Engine!Newest(Engine!Newest(Engine!Zeros \o e, EngineFrames) \o r, EngineFrames)
             = Engine!Newest(Engine!Zeros \o (e \o r), EngineFrames)
<1>1. PICK F \in Nat : EngineFrames = F
  BY EngineAssumption
<1>2. PICK C : Engine!Zeros \in Seq(C) /\ e \in Seq(C) /\ r \in Seq(C)
  <2>1. PICK z : Engine!Zeros = z /\ z \in Seq({Engine!ZeroRow})
    BY ZerosAre
  <2>2. z \in Seq({Engine!ZeroRow} \cup A \cup B) /\ e \in Seq({Engine!ZeroRow} \cup A \cup B)
        /\ r \in Seq({Engine!ZeroRow} \cup A \cup B)
    BY <2>1
  <2> QED
    BY <2>1, <2>2
<1>3. PICK z : Engine!Zeros = z /\ z \in Seq(C) /\ Len(z) = F
  BY <1>1, <1>2, ZerosAre
<1>4. z \o e \in Seq(C) /\ F <= Len(z \o e)
  <2>1. z \o e \in Seq(C) /\ Len(z \o e) = Len(z) + Len(e)
    BY <1>2, <1>3, Joined
  <2> QED
    BY <1>2, <1>3, <2>1
<1>5. (z \o e) \o r = z \o (e \o r)
  BY <1>2, <1>3
<1>6. Engine!Newest(Engine!Newest(z \o e, F) \o r, F) = Engine!Newest((z \o e) \o r, F)
  BY <1>2, <1>4, NewestGrow
<1> QED
  BY <1>1, <1>3, <1>5, <1>6


\* What is appended is last.
LEMMA AppendIs ==
    ASSUME NEW h \in Seq(Nat), NEW v \in Nat
    PROVE  \E k : Append(h, v) = k /\ k \in Seq(Nat) /\ k # <<>> /\ k[Len(k)] = v
<1>1. /\ Append(h, v) \in Seq(Nat) /\ Len(Append(h, v)) = Len(h) + 1 /\ Append(h, v)[Len(h) + 1] = v
  OBVIOUS
<1>2. PICK k : Append(h, v) = k
  OBVIOUS
<1>3. k \in Seq(Nat) /\ Len(k) = Len(h) + 1 /\ k[Len(k)] = v
  BY <1>1, <1>2
<1>4. k # <<>>
  BY <1>3
<1> QED
  BY <1>2, <1>3, <1>4


-----------------------------------------------------------------------------
(* The engine: its steps.                                                  *)

EngineShape ==
  /\ chain \in Chains /\ Engine!NewStream(chain)
  /\ heard \in Seq(Nat) /\ steps \in Nat
  /\ window = IF heard = <<>> THEN Engine!Silence ELSE heard[Len(heard)]
\* What the stages hold back belongs to a stream whose first rows are the frames of
\* the steps and whose last are the embeddings.
StreamIsWhole ==
  \E X : /\ Streams(Len(chain), X) /\ HeldIs(Len(chain), X, held)
         /\ X[0] = FramesOf(heard) /\ X[Len(chain)] = embeddings
RingIsNewest == Engine!ScoreIsOfLatest

EngineIInv == ~failed => EngineShape /\ StreamIsWhole /\ RingIsNewest

\* NewStream's checks are those the kernels need.
LEMMA ChainAccepted ==
    ASSUME chain \in Chains, Engine!NewStream(chain)
    PROVE  ChainIs(Len(chain))
<1>1. chain \in Seq(Engine!Operator)
  BY EngineAssumption
<1>2. PICK L \in Nat : Len(chain) = L
  BY <1>1
<1>3. ASSUME NEW i \in 1..L PROVE Accepted(chain[i])
  <2>1. PICK st : chain[i] = st /\ st \in Engine!Operator
    BY <1>1, <1>2
  <2>2. i \in DOMAIN chain
    BY <1>1, <1>2
  <2>3. ~(st.pad /\ st.need > 1) /\ ~st.table /\ st.stride >= 1 /\ st.stride <= st.need
    BY <2>1, <2>2 DEF Engine!NewStream
  <2>4. st.need \in Nat /\ st.stride \in Nat
    BY <2>1 DEF Engine!Operator
  <2>5. st.stride \in 1..st.need /\ (st.pad => st.need = 1)
    BY <2>3, <2>4
  <2> QED
    BY <2>1, <2>3, <2>5 DEF Accepted
<1> QED
  BY <1>2, <1>3 DEF ChainIs

\* A stream that has begun.
LEMMA StreamBegins ==
    ASSUME NEW L, ChainIs(L), NEW p, p = [i \in 1..L |-> <<>>]
    PROVE  \E X : Streams(L, X) /\ HeldIs(L, X, p) /\ X[0] = <<>> /\ X[L] = <<>>
<1>0. L \in Nat
  BY DEF ChainIs
<1>1. PICK X : X = [i \in 0..L |-> <<>>]
  OBVIOUS
<1>2. \A i \in 0..L : X[i] = <<>>
  BY <1>1
<1>3. ASSUME NEW i \in 1..L
      PROVE  X[i] = Outputs(chain[i], X[i - 1]) /\ Runs(chain[i], X[i - 1]) /\ p[i] = Rest(chain[i], X[i - 1])
  <2>1. i \in 0..L /\ i - 1 \in 0..L
    BY <1>0
  <2>2. PICK st : chain[i] = st /\ Accepted(st)
    BY DEF ChainIs
  <2>3. PICK x : x = <<>> /\ X[i] = x /\ X[i - 1] = x /\ p[i] = x
    BY <1>2, <2>1
  <2>4. Len(x) = 0 /\ x \in Seq({})
    BY <2>3
  <2>5. PICK s \in Nat \ {0}, w \in Nat \ {0} : st.stride = s /\ st.need = w
    BY <2>2, OperatorFields
  <2>6. Emitted(st, 0) = 0
    <3>1. 0 < w
      OBVIOUS
    <3>2. Fits(s, w, 0) = 0
      BY <3>1, FitsSome
    <3> QED
      BY <2>5, <3>2 DEF Emitted
  <2>7. Outputs(st, x) = x
    <3>1. PICK T, y : Outputs(st, x) = y /\ y \in Seq(T) /\ Len(y) = 0
      BY <2>2, <2>4, <2>6, OutputsAre
    <3>2. \A j \in 1..Len(y) : y[j] = x[j]
      BY <3>1
    <3>3. y = x
      BY <2>4, <3>1, <3>2, SameElements
    <3> QED
      BY <3>1, <3>3
  <2>8. Runs(st, x)
    BY <2>4, <2>5 DEF Runs
  <2>9. Rest(st, x) = x
    <3>1. Rest(st, x) = SubSeq(x, 0 * st.stride + 1, 0)
      BY <2>4, <2>6 DEF Rest
    <3>2. 0 * s + 1 = 0 + 1
      BY <2>5
    <3>3. PICK y : SubSeq(x, 0 + 1, 0) = y /\ y \in Seq({}) /\ Len(y) = 0
      <4>1. SubSeq(x, 0 + 1, 0) \in Seq({}) /\ Len(SubSeq(x, 0 + 1, 0)) = 0 - 0
        BY <2>4, PartIs
      <4>2. PICK y : SubSeq(x, 0 + 1, 0) = y
        OBVIOUS
      <4>3. y \in Seq({}) /\ Len(y) = 0
        BY <4>1, <4>2
      <4> QED
        BY <4>2, <4>3
    <3>4. \A j \in 1..Len(y) : y[j] = x[j]
      BY <3>3
    <3>5. y = x
      BY <2>4, <3>3, <3>4, SameElements
    <3> QED
      BY <2>5, <3>1, <3>2, <3>3, <3>5
  <2> QED
    BY <2>2, <2>3, <2>7, <2>8, <2>9
<1>4. 0 \in 0..L /\ L \in 0..L
  BY <1>0
<1>5. X[0] = <<>> /\ X[L] = <<>>
  BY <1>2, <1>4
<1>6. X[0] \in Seq({})
  BY <1>5
<1>7. Streams(L, X)
  BY <1>3, <1>6 DEF Streams
<1>8. HeldIs(L, X, p)
  BY <1>3 DEF HeldIs
<1> QED
  BY <1>5, <1>7, <1>8

\* What the property reads of the frames.
LEMMA AllFramesAre == heard \in Seq(Nat) => Engine!AllFrames = FramesOf(heard)
  BY DEF Engine!AllFrames, FramesOf, FrameAt

\* No step, no frame.
LEMMA NoFramesYet == FramesOf(<<>>) = <<>>
<1>1. PICK R \in Nat : Rows = R
  BY EngineAssumption
<1>2. R * Len(<<>>) = 0
  <2>1. Len(<<>>) = 0
    OBVIOUS
  <2>2. R * 0 = 0
    OBVIOUS
  <2> QED
    BY <2>1, <2>2
<1>3. PICK h : h = <<>>
  OBVIOUS
<1>4. PICK A : A = {FrameAt(h, j) : j \in 1..0}
  OBVIOUS
<1>5. FramesOf(h) = [j \in 1..0 |-> FrameAt(h, j)]
  BY <1>1, <1>2, <1>3 DEF FramesOf
<1>6. PICK f : FramesOf(h) = f /\ f \in [1..0 -> A]
  BY <1>4, <1>5
<1>7. f \in Seq(A) /\ Len(f) = 0
  BY <1>6, SequenceIs
<1>8. f = <<>>
  BY <1>7
<1> QED
  BY <1>3, <1>6, <1>8

\* The ring is silent at first.
LEMMA RingBegins == Engine!Newest(Engine!Zeros \o <<>>, EngineFrames) = Engine!Zeros
<1>1. PICK F \in Nat : EngineFrames = F
  BY EngineAssumption
<1>2. PICK S, z : Engine!Zeros = z /\ z \in Seq(S) /\ Len(z) = F
  BY <1>1, ZerosAre
<1>3. z \o <<>> = z
  BY <1>2, NothingBehind
<1>4. Engine!Newest(z, F) = SubSeq(z, 0 + 1, F)
  <2>1. F - F + 1 = 0 + 1
    OBVIOUS
  <2> QED
    BY <1>2, <2>1 DEF Engine!Newest
<1>5. PICK y : SubSeq(z, 0 + 1, F) = y
  OBVIOUS
<1>6. y \in Seq(S) /\ Len(y) = F /\ \A i \in 1..F : y[i] = z[i]
  <2>1. /\ SubSeq(z, 0 + 1, F) \in Seq(S) /\ Len(SubSeq(z, 0 + 1, F)) = F - 0
        /\ \A i \in 1..F - 0 : SubSeq(z, 0 + 1, F)[i] = z[0 + i]
    <3>1. 0 <= F /\ F <= Len(z)
      BY <1>2
    <3> QED
      BY <1>2, <3>1, PartIs
  <2> QED
    BY <1>5, <2>1
<1>7. y = z
  BY <1>2, <1>6, SameElements
<1> QED
  BY <1>1, <1>2, <1>3, <1>4, <1>5, <1>7

LEMMA EngineInit == Engine!Init => EngineIInv
<1> SUFFICES ASSUME Engine!Init PROVE EngineShape /\ StreamIsWhole /\ RingIsNewest
  BY DEF EngineIInv
<1>1. /\ chain \in Chains /\ Engine!NewStream(chain)
      /\ window = Engine!Silence /\ held = [i \in DOMAIN chain |-> <<>>] /\ ering = Engine!Zeros
      /\ score = <<>> /\ heard = <<>> /\ embeddings = <<>> /\ steps = 0
  BY DEF Engine!Init
<1>2. EngineShape
  BY <1>1 DEF EngineShape
<1>3. StreamIsWhole
  <2>1. PICK L : Len(chain) = L /\ ChainIs(L)
    BY <1>1, ChainAccepted
  <2>2. held = [i \in 1..L |-> <<>>]
    <3>1. DOMAIN chain = 1..L
      BY <1>1, <2>1, EngineAssumption
    <3> QED
      BY <1>1, <3>1
  <2>3. PICK X : Streams(L, X) /\ HeldIs(L, X, held) /\ X[0] = <<>> /\ X[L] = <<>>
    BY <2>1, <2>2, StreamBegins
  <2> QED
    BY <1>1, <2>1, <2>3, NoFramesYet DEF StreamIsWhole
<1>4. RingIsNewest
  BY <1>1, RingBegins DEF RingIsNewest, Engine!ScoreIsOfLatest
<1> QED
  BY <1>2, <1>3, <1>4

\* A Reset begins a new stream.
LEMMA ResetKeeps ==
    ASSUME EngineIInv, Engine!Reset
    PROVE  EngineIInv'
<1>1. /\ ~failed /\ window' = Engine!Silence /\ held' = [i \in DOMAIN chain |-> <<>>] /\ ering' = Engine!Zeros
      /\ heard' = <<>> /\ embeddings' = <<>> /\ chain' = chain /\ score' = score /\ steps' = steps
  BY DEF Engine!Reset
<1>2. EngineShape
  BY <1>1 DEF EngineIInv
<1>3. EngineShape'
  <2>1. Engine!NewStream(chain)' = Engine!NewStream(chain)
    BY <1>1 DEF Engine!NewStream
  <2> QED
    BY <1>1, <1>2, <2>1 DEF EngineShape
<1>4. StreamIsWhole'
  <2>1. PICK L : Len(chain) = L /\ ChainIs(L)
    BY <1>2, ChainAccepted DEF EngineShape
  <2>2. held' = [i \in 1..L |-> <<>>]
    <3>1. DOMAIN chain = 1..L
      BY <1>2, <2>1, EngineAssumption DEF EngineShape
    <3> QED
      BY <1>1, <3>1
  <2>3. PICK X : Streams(L, X) /\ HeldIs(L, X, held') /\ X[0] = <<>> /\ X[L] = <<>>
    BY <2>1, <2>2, StreamBegins
  <2>4. Streams(L, X)' /\ HeldIs(L, X, held)'
    BY <1>1, <2>3 DEF Streams, HeldIs
  <2> QED
    BY <1>1, <2>1, <2>3, <2>4, NoFramesYet DEF StreamIsWhole
<1>5. RingIsNewest'
  BY <1>1, RingBegins DEF RingIsNewest, Engine!ScoreIsOfLatest
<1> QED
  BY <1>3, <1>4, <1>5 DEF EngineIInv

\* A step that the stream gets through.
LEMMA ScoreKeeps ==
    ASSUME EngineIInv, Engine!Score
    PROVE  EngineIInv'
<1>1. PICK done : /\ Engine!Write(Engine!Mel(window, steps + 1)) = done
                  /\ ~failed /\ steps' = steps + 1 /\ window' = steps + 1 /\ held' = done.pending
                  /\ chain' = chain
                  /\ IF done.ok
                     THEN /\ ering' = Engine!Newest(ering \o done.rows, EngineFrames)
                          /\ score' = IF done.rows = <<>> THEN <<>> ELSE ering'
                          /\ embeddings' = embeddings \o done.rows /\ heard' = Append(heard, steps + 1)
                          /\ failed' = failed
                     ELSE failed' = TRUE
  BY DEF Engine!Score
<1>2. EngineShape /\ StreamIsWhole /\ RingIsNewest
  BY <1>1 DEF EngineIInv
<1>3. CASE ~done.ok
  <2>1. failed' = TRUE
    BY <1>1, <1>3
  <2> QED
    BY <2>1 DEF EngineIInv
<1>4. CASE done.ok
  <2>1. /\ ering' = Engine!Newest(ering \o done.rows, EngineFrames)
        /\ score' = IF done.rows = <<>> THEN <<>> ELSE ering'
        /\ embeddings' = embeddings \o done.rows /\ heard' = Append(heard, steps + 1)
    BY <1>1, <1>4
  <2>2. PICK L : Len(chain) = L /\ ChainIs(L)
    BY <1>2, ChainAccepted DEF EngineShape
  <2>3. PICK v \in Nat : steps + 1 = v
    BY <1>2 DEF EngineShape
  <2>4. PICK h \in Seq(Nat) : heard = h
    BY <1>2 DEF EngineShape
  <2>5. /\ \E S : FramesOf(h) \in Seq(S)
        /\ \E S : Engine!Mel(window, v) \in Seq(S)
        /\ FramesOf(Append(h, v)) = FramesOf(h) \o Engine!Mel(window, v)
    <3>1. window = IF h = <<>> THEN Engine!Silence ELSE h[Len(h)]
      BY <1>2, <2>4 DEF EngineShape
    <3> QED
      BY <3>1, FramesGrow
  <2>6. EngineShape'
    <3>1. Engine!NewStream(chain)' = Engine!NewStream(chain)
      BY <1>1 DEF Engine!NewStream
    <3>2. PICK k : /\ Append(h, v) = k /\ k \in Seq(Nat) /\ k # <<>> /\ k[Len(k)] = v
      BY AppendIs
    <3>3. heard' = k /\ window' = v /\ steps' = v
      BY <1>1, <2>1, <2>3, <2>4, <3>2
    <3> QED
      BY <1>1, <1>2, <3>1, <3>2, <3>3 DEF EngineShape
  <2>7. PICK X : Streams(L, X) /\ HeldIs(L, X, held) /\ X[0] = FramesOf(h) /\ X[L] = embeddings
    BY <1>2, <2>2, <2>4 DEF StreamIsWhole
  <2>8. PICK R, mel : Engine!Mel(window, v) = mel /\ mel \in Seq(R)
    BY <2>5
  <2>9. PICK Y : /\ Streams(L, Y) /\ HeldIs(L, Y, done.pending)
                 /\ Y[0] = X[0] \o mel /\ Y[L] = X[L] \o done.rows
                 /\ \E S : done.rows \in Seq(S)
    <3>1. ChainIs(L) /\ Streams(L, X) /\ HeldIs(L, X, held) /\ mel \in Seq(R)
      BY <2>2, <2>7, <2>8
    <3>2. Engine!Write(mel) = done
      BY <1>1, <2>3, <2>8
    <3> QED
      <4>1. \A d : Engine!Write(mel) = d /\ d.ok =>
              \E Y : /\ Streams(L, Y) /\ HeldIs(L, Y, d.pending)
                     /\ Y[0] = X[0] \o mel /\ Y[L] = X[L] \o d.rows
                     /\ \E S : d.rows \in Seq(S)
        BY <3>1, StreamGrows
      <4> QED
        BY <1>4, <3>2, <4>1
  <2>10. StreamIsWhole'
    <3>1. Streams(L, Y)' /\ HeldIs(L, Y, held)'
      BY <1>1, <2>9 DEF Streams, HeldIs
    <3>2. Y[0] = FramesOf(heard') /\ Y[L] = embeddings'
      BY <2>1, <2>3, <2>4, <2>5, <2>7, <2>8, <2>9
    <3> QED
      BY <1>1, <2>2, <3>1, <3>2 DEF StreamIsWhole
  <2>11. RingIsNewest'
    <3>1. ering = Engine!Newest(Engine!Zeros \o embeddings, EngineFrames)
      BY <1>1, <1>2 DEF RingIsNewest, Engine!ScoreIsOfLatest
    <3>2. PICK A : embeddings \in Seq(A)
      <4>1. L \in 0..L
        BY <2>2 DEF ChainIs
      <4> QED
        BY <2>2, <2>7, <4>1, StreamsAre
    <3>3. PICK B : done.rows \in Seq(B)
      BY <2>9
    <3>4. Engine!Newest(Engine!Newest(Engine!Zeros \o embeddings, EngineFrames) \o done.rows, EngineFrames)
            = Engine!Newest(Engine!Zeros \o (embeddings \o done.rows), EngineFrames)
      BY <3>2, <3>3, RingGrows
    <3>5. ering' = Engine!Newest(Engine!Zeros \o embeddings', EngineFrames)
      BY <2>1, <3>1, <3>4
    <3>6. score' # <<>> => score' = ering'
      BY <2>1
    <3> QED
      BY <3>5, <3>6 DEF RingIsNewest, Engine!ScoreIsOfLatest
  <2> QED
    BY <2>6, <2>10, <2>11 DEF EngineIInv
<1> QED
  BY <1>3, <1>4

LEMMA EngineNext == EngineIInv /\ [Engine!Next]_(Engine!vars) => EngineIInv'
<1> SUFFICES ASSUME EngineIInv, [Engine!Next]_(Engine!vars) PROVE EngineIInv'
  OBVIOUS
<1>1. CASE Engine!Score
  BY <1>1, ScoreKeeps
<1>2. CASE Engine!Reset
  BY <1>2, ResetKeeps
<1>3. CASE UNCHANGED Engine!vars
  <2>1. /\ chain' = chain /\ window' = window /\ held' = held /\ ering' = ering /\ score' = score
        /\ failed' = failed /\ heard' = heard /\ embeddings' = embeddings /\ steps' = steps
    BY <1>3 DEF Engine!vars
  <2>2. EngineShape' = EngineShape
    BY <2>1 DEF EngineShape, Engine!NewStream
  <2>3. ASSUME NEW L, NEW X PROVE Streams(L, X)' = Streams(L, X) /\ HeldIs(L, X, held)' = HeldIs(L, X, held)
    BY <2>1 DEF Streams, HeldIs
  <2>4. StreamIsWhole' = StreamIsWhole
    BY <2>1, <2>3 DEF StreamIsWhole
  <2>5. RingIsNewest' = RingIsNewest
    BY <2>1 DEF RingIsNewest, Engine!ScoreIsOfLatest
  <2> QED
    BY <2>1, <2>2, <2>4, <2>5 DEF EngineIInv
<1> QED
  BY <1>1, <1>2, <1>3 DEF Engine!Next

\* What the inductive invariant says of the stream is the property.
LEMMA EngineIInvImplies == EngineIInv => InferenceIsIncremental
<1> SUFFICES ASSUME EngineIInv, ~failed PROVE InferenceIsIncremental
  BY DEF InferenceIsIncremental, Engine!InferenceIsIncremental, Engine!StreamMatchesWindowed, Engine!ScoreIsOfLatest
<1>1. EngineShape /\ StreamIsWhole /\ RingIsNewest
  BY DEF EngineIInv
<1>2. PICK L : Len(chain) = L /\ ChainIs(L)
  BY <1>1, ChainAccepted DEF EngineShape
<1>3. PICK X : Streams(L, X) /\ X[0] = FramesOf(heard) /\ X[L] = embeddings
  BY <1>1, <1>2 DEF StreamIsWhole
<1>4. Engine!AllFrames = X[0]
  BY <1>1, <1>3, AllFramesAre DEF EngineShape
<1>5. LET fit == Fits(Engine!Stride, Engine!Receptive, Len(X[0]))
      IN  /\ Len(X[L]) = fit
          /\ \A k \in 1..fit :
              Engine!Windowed(SubSeq(X[0], (k - 1) * Engine!Stride + 1, (k - 1) * Engine!Stride + Engine!Receptive))
                = <<X[L][k]>>
  BY <1>2, <1>3, StreamIs
<1>6. Engine!StreamMatchesWindowed
  BY <1>3, <1>4, <1>5 DEF Engine!StreamMatchesWindowed, Fits
<1> QED
  BY <1>1, <1>6 DEF InferenceIsIncremental, Engine!InferenceIsIncremental, RingIsNewest

\* Whatever chain of operators NewStream accepted, none of them with a constant of
\* less than four dimensions that has several rows, and whatever steps and resets it
\* was given, as long as its stream does not fail the engine has of the audio since
\* its last Reset the embeddings the whole model would have, and its classifier is
\* given the newest of them.
THEOREM InferenceSafe == Engine!Spec => []InferenceIsIncremental
<1> QED
  BY EngineInit, EngineNext, EngineIInvImplies, PTL DEF Engine!Spec

=============================================================================
