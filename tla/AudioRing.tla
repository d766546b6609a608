------------------------------ MODULE AudioRing ------------------------------
(***************************************************************************)
(* audio.Ring of internal/device/audio: the pre-roll buffer, a circular    *)
(* array that overwrites its oldest sample.  Every method runs under the   *)
(* ring's mutex, so it is an operator on the record of its fields; a       *)
(* duration is the number of samples it lasts.                             *)
(***************************************************************************)
EXTENDS SequencesExt, Naturals

\* The fields of Ring; samples is indexed from 0 as in the code.
Capacity(r) == Cardinality(DOMAIN r.samples)

\* NewRing; the array is zeroed.
NewRing(n) == [samples |-> [i \in 0..(n - 1) |-> 0], start |-> 0, length |-> 0]

Smaller(a, b) == IF a < b THEN a ELSE b

\* The last n elements of s, all of them if there are fewer.
LastOf(s, n) == SubSeq(s, Len(s) - Smaller(n, Len(s)) + 1, Len(s))

\* Mutant: a full ring is written at its start, but start stays.
WriteSampleInPlace(r, x) ==
    LET n == Capacity(r)
        written == [r.samples EXCEPT ![(r.start + r.length) % n] = x]
    IN  [samples |-> written, start |-> r.start, length |-> Smaller(r.length + 1, n)]

\* One round of Write's loop.
WriteSample(r, x) ==
    LET n == Capacity(r)
        written == [r.samples EXCEPT ![(r.start + r.length) % n] = x]
    IN  IF r.length = n
          THEN [samples |-> written, start |-> (r.start + 1) % n, length |-> n]
          ELSE [samples |-> written, start |-> r.start, length |-> r.length + 1]

\* The loop, over all of s.
WriteEach(r, s) ==
    LET after[n \in 0..Len(s)] == IF n = 0 THEN r ELSE WriteSample(after[n - 1], s[n])
    IN  after[Len(s)]

Write(r, s) ==
    LET n == Capacity(r) IN
    IF n = 0 \/ s = <<>> THEN r
    ELSE IF Len(s) >= n
           THEN [samples |-> [i \in 0..(n - 1) |-> s[Len(s) - n + i + 1]], start |-> 0, length |-> n]
           ELSE WriteEach(r, s)

\* Tail, which Sequences has another one of.
LatestSamples(r, n) ==
    LET wanted == Smaller(n, r.length)
        first == r.start + r.length - wanted
    IN  [i \in 1..wanted |-> r.samples[(first + i - 1) % Capacity(r)]]

\* Mutant: the larger array is given the newest sample only.
EnsureDurationNewest(r, n) ==
    IF n <= Capacity(r) \/ r.length = 0 THEN r
    ELSE [samples |-> [i \in 0..(n - 1) |-> IF i = 0 THEN r.samples[(r.start + r.length - 1) % Capacity(r)] ELSE 0],
          start |-> 0, length |-> 1]

\* EnsureDuration only ever grows the array.
EnsureDuration(r, n) ==
    IF n <= Capacity(r) THEN r
    ELSE [samples |-> [i \in 0..(n - 1) |->
                         IF i < r.length THEN r.samples[(r.start + i) % Capacity(r)] ELSE 0],
          start |-> 0, length |-> r.length]
=============================================================================
