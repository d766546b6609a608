------------------------------ MODULE WakeEngine ------------------------------
(***************************************************************************)
(* The openWakeWord engine: every step of audio becomes mel frames, a      *)
(* stream of operators turns frames into embeddings as soon as their       *)
(* windows are full, and a classifier scores the newest embeddings.        *)
(* Values are terms: what a kernel computes is the tuple of the rows it    *)
(* reads.                                                                  *)
(***************************************************************************)
EXTENDS Naturals, Sequences

CONSTANTS
    Chains,     \* chains of operators
    Rows,       \* embedStride: the mel frames of a step
    Frames,     \* the embeddings a classifier reads
    MaxSteps    \* bound

Silence == 0      \* the step before the first
ZeroRow == <<>>

VARIABLES
    chain,      \* Stream.stages
    window,     \* Features.window: the step whose end the next one sees
    pending,    \* the rows a stage holds back
    ring,       \* Classifier.ring
    score, failed,
    \* History, read by properties only: the steps since the last Reset and what
    \* became of them; and the steps in all
    heard, embeddings, steps

\* What NewStream reads of an operator of the graph.  A table is a constant of four
\* dimensions with several rows; NewStream does not look at the rows of others, and
\* no operator here has one with several.
Operator == [need : Nat, stride : Nat, dilation : Nat \ {0}, pad : BOOLEAN, table : BOOLEAN]

vars == <<chain, window, pending, ring, score, failed, heard, embeddings, steps>>

\* What a history of n embeddings keeps.
Newest(seq, n) == SubSeq(seq, Len(seq) - n + 1, Len(seq))
Zeros == [i \in 1..Frames |-> ZeroRow]

-----------------------------------------------------------------------------
\* What a kernel computes of the rows it is given: dilated windows, zero padding
\* on both sides, constants that differ from row to row.
outputSize(st, in) ==
    LET effective == (st.need - 1) * st.dilation + 1
    IN  IF st.pad THEN (in + st.stride - 1) \div st.stride
        ELSE IF in < effective THEN 0 ELSE (in - effective) \div st.stride + 1
padFor(st, in, out) ==
    LET wanted == (out - 1) * st.stride + (st.need - 1) * st.dilation + 1
    IN  IF st.pad /\ wanted > in THEN (wanted - in) \div 2 ELSE 0
Kernel(st, rows) ==
    LET out == outputSize(st, Len(rows))
        before == padFor(st, Len(rows), out)
        Read(k, i) == LET at == (k - 1) * st.stride + (i - 1) * st.dilation + 1
                      IN  IF at > before /\ at - before <= Len(rows) THEN rows[at - before] ELSE ZeroRow
    IN  [k \in 1..out |-> [i \in 1..st.need |-> Read(k, i)] \o (IF st.table THEN <<k>> ELSE <<>>)]

\* Mutant: an operator may pad along time.
NewStreamPadded(stages) ==
    stages # <<>> /\ \A i \in DOMAIN stages : /\ stages[i].stride >= 1 /\ stages[i].stride <= stages[i].need
                                              /\ ~stages[i].table

\* NewStream accepts a chain of operators: no padding along time, no table,
\* and never more rows retired than read.
NewStream(stages) ==
    stages # <<>> /\ \A i \in DOMAIN stages : LET st == stages[i]
                                              IN  /\ ~(st.pad /\ st.need > 1) /\ ~st.table
                                                  /\ st.stride >= 1 /\ st.stride <= st.need

\* stage.run on new rows: [pending, rows, ok].
run(st, held, rows) ==
    LET all == held \o rows
        emit == (Len(all) - st.need) \div st.stride + 1
        used == st.need + (emit - 1) * st.stride
        out == Kernel(st, SubSeq(all, 1, used))
    IN  IF Len(all) < st.need THEN [pending |-> all, rows |-> <<>>, ok |-> TRUE]
        ELSE IF Len(out) # emit THEN [pending |-> all, rows |-> <<>>, ok |-> FALSE]
        ELSE [pending |-> SubSeq(all, emit * st.stride + 1, Len(all)), rows |-> out, ok |-> TRUE]

\* Stream.Write: stage after stage, until one has nothing to pass on.
Pass(i, acc) ==
    IF acc.rows = <<>> THEN acc
    ELSE LET done == run(chain[i], acc.pending[i], acc.rows)
         IN  [pending |-> [acc.pending EXCEPT ![i] = done.pending], rows |-> done.rows, ok |-> done.ok]
Write(rows) ==
    LET after[i \in 0..Len(chain)] ==
            IF i = 0 THEN [pending |-> pending, rows |-> rows, ok |-> TRUE] ELSE Pass(i, after[i - 1])
    IN  after[Len(chain)]

\* The mel model reads the step and the end of the one before.
Mel(previous, step) == [i \in 1..Rows |-> <<previous, step, i>>]

-----------------------------------------------------------------------------
Init ==
    /\ chain \in Chains /\ NewStream(chain)
    /\ window = Silence /\ pending = [i \in DOMAIN chain |-> <<>>] /\ ring = Zeros
    /\ score = <<>> /\ failed = FALSE
    /\ heard = <<>> /\ embeddings = <<>> /\ steps = 0

\* Mutant: of the embeddings of a step only the last enters the ring.
ScoreLast ==
    LET done == Write(Mel(window, steps + 1))
    IN  /\ ~failed /\ steps < MaxSteps /\ steps' = steps + 1
        /\ window' = steps + 1 /\ pending' = done.pending
        /\ IF done.ok
           THEN /\ ring' = IF done.rows = <<>> THEN ring ELSE Newest(Append(ring, done.rows[Len(done.rows)]), Frames)
                /\ score' = IF done.rows = <<>> THEN <<>> ELSE ring'
                /\ embeddings' = embeddings \o done.rows /\ heard' = Append(heard, steps + 1)
                /\ UNCHANGED failed
           ELSE failed' = TRUE /\ UNCHANGED <<ring, score, embeddings, heard>>
        /\ UNCHANGED chain

\* Engine.Score.  A step that completes no embedding scores 0; one that completes
\* several has the score of the last.
Score ==
    LET done == Write(Mel(window, steps + 1))
    IN  /\ ~failed /\ steps < MaxSteps /\ steps' = steps + 1
        /\ window' = steps + 1 /\ pending' = done.pending
        /\ IF done.ok
           THEN /\ ring' = Newest(ring \o done.rows, Frames)
                /\ score' = IF done.rows = <<>> THEN <<>> ELSE ring'
                /\ embeddings' = embeddings \o done.rows /\ heard' = Append(heard, steps + 1)
                /\ UNCHANGED failed
           ELSE failed' = TRUE /\ UNCHANGED <<ring, score, embeddings, heard>>
        /\ UNCHANGED chain

\* Engine.Reset.
Reset ==
    /\ ~failed /\ heard # <<>>
    /\ window' = Silence /\ pending' = [i \in DOMAIN chain |-> <<>>] /\ ring' = Zeros
    /\ heard' = <<>> /\ embeddings' = <<>> /\ UNCHANGED <<chain, score, failed, steps>>

Next == Score \/ Reset
Spec == Init /\ [][Next]_vars

-----------------------------------------------------------------------------
\* The whole model on a window of frames, as it was built to be evaluated.
Windowed(rows) ==
    LET after[i \in 0..Len(chain)] == IF i = 0 THEN rows ELSE Kernel(chain[i], after[i - 1])
    IN  after[Len(chain)]

\* The rows the last n operators read for one result, and how many of them
\* they retire for it.
FromEnd(n) == chain[Len(chain) + 1 - n]
Receptive ==
    LET reads[n \in 0..Len(chain)] ==
            IF n = 0 THEN 1
            ELSE (reads[n - 1] - 1) * FromEnd(n).stride + (FromEnd(n).need - 1) * FromEnd(n).dilation + 1
    IN  reads[Len(chain)]
Stride ==
    LET moves[n \in 0..Len(chain)] == IF n = 0 THEN 1 ELSE moves[n - 1] * FromEnd(n).stride
    IN  moves[Len(chain)]

\* The frames of all steps since the last Reset, one after the other.
AllFrames ==
    [j \in 1..Rows * Len(heard) |->
        LET n == (j - 1) \div Rows + 1
        IN  Mel(IF n = 1 THEN Silence ELSE heard[n - 1], heard[n])[((j - 1) % Rows) + 1]]

\* "feeding rows through per-stage carry buffers computes the same dot products
\* as running the whole window": the embeddings since the last Reset are those
\* the whole model has of one window after the other, none missing, and none of
\* audio from before the Reset.
StreamMatchesWindowed ==
    ~failed =>
        LET frames == AllFrames
            fit == IF Len(frames) < Receptive THEN 0 ELSE (Len(frames) - Receptive) \div Stride + 1
        IN  /\ Len(embeddings) = fit
            /\ \A k \in 1..fit :
                Windowed(SubSeq(frames, (k - 1) * Stride + 1, (k - 1) * Stride + Receptive)) = <<embeddings[k]>>

\* The classifier is given the newest embeddings, consecutive ones, and silence
\* before the first.
ScoreIsOfLatest ==
    ~failed => ring = Newest(Zeros \o embeddings, Frames) /\ (score # <<>> /\ heard # <<>> => score = ring)

\* Not so: a model whose stream fails does so with the first full window, long
\* after it was accepted.
AcceptedStreamRuns == ~failed

\* Step by step the engine computes what the whole models would of the audio
\* heard since its last Reset.
InferenceIsIncremental == StreamMatchesWindowed /\ ScoreIsOfLatest
=============================================================================
