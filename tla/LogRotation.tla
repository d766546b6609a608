----------------------------- MODULE LogRotation -----------------------------
(***************************************************************************)
(* system.RotatingWriter, the file the commands log to: generation 0 is    *)
(* appended to until it is full, then every generation moves up by one and *)
(* the oldest goes.  The process may be killed and started again with      *)
(* other limits.  The bytes written are numbered.                          *)
(***************************************************************************)
EXTENDS Naturals, Sequences, SequencesExt

CONSTANTS
    Limits,              \* the [count, bytes] a writer may be started with
    MaxBytes, MaxStarts, MaxFaults  \* bounds

\* As many as the largest count.
Generations == 0..3

VARIABLES
    file,         \* the generations, and files of older counts: bytes, none where there is no file
    limit, pc,    \* of the writer; pc is "none" when no process runs
    current, open, next,  \* w.current, whether w.file is open, the generation rotate renames next
    written, starts, faults,
    \* History, read by properties only:
    shortened,    \* a file was truncated to a lower limit
    disturbed     \* other limits, a kill or an error inside a rotation

writer == <<limit, pc, current, open, next>>
vars == <<file, writer, written, starts, faults, shortened, disturbed>>

Init ==
    /\ file = [g \in Generations |-> <<>>]
    /\ limit \in Limits /\ pc = "none" /\ current = 0 /\ open = FALSE /\ next = 0
    /\ written = 0 /\ starts = 0 /\ faults = 0 /\ shortened = FALSE /\ disturbed = FALSE

Kept(l) == {g \in Generations : g < l.count}
Long(l) == {g \in Kept(l) : Len(file[g]) > l.bytes}
\* enforceExistingLimit: what is too long keeps its oldest bytes.
Enforced(l) ==
    [g \in Generations |-> CASE g \notin Kept(l) -> <<>>
                             [] g \in Long(l) -> SubSeq(file[g], 1, l.bytes)
                             [] OTHER -> file[g]]

-----------------------------------------------------------------------------
\* Mutant: generations of an older, larger count stay.
NewKeepsStale(l) ==
    LET f == [g \in Generations |-> IF g \in Kept(l) THEN Enforced(l)[g] ELSE file[g]]
    IN  /\ pc = "none" /\ starts < MaxStarts /\ starts' = starts + 1
        /\ limit' = l /\ pc' = "ready" /\ open' = TRUE
        /\ file' = f /\ current' = Len(f[0])
        /\ shortened' = (shortened \/ Long(l) # {}) /\ disturbed' = (disturbed \/ l # limit)
        /\ UNCHANGED <<next, written, faults>>
\* Mutant: the newest generation is opened anew.
NewTruncates(l) ==
    /\ pc = "none" /\ starts < MaxStarts /\ starts' = starts + 1
    /\ limit' = l /\ pc' = "ready" /\ open' = TRUE
    /\ file' = [Enforced(l) EXCEPT ![0] = <<>>] /\ current' = 0
    /\ shortened' = (shortened \/ Long(l) # {}) /\ disturbed' = (disturbed \/ l # limit)
    /\ UNCHANGED <<next, written, faults>>

\* NewRotatingWriter: the files that are there are bounded and the newest is
\* appended to.
NewRotatingWriter(l) ==
    LET f == Enforced(l)
    IN  /\ pc = "none" /\ starts < MaxStarts /\ starts' = starts + 1
        /\ limit' = l /\ pc' = "ready" /\ open' = TRUE
        /\ file' = f /\ current' = Len(f[0])
        /\ shortened' = (shortened \/ Long(l) # {}) /\ disturbed' = (disturbed \/ l # limit)
        /\ UNCHANGED <<next, written, faults>>

\* Write, byte by byte.
WriteByte ==
    /\ pc = "ready" /\ current < limit.bytes /\ open /\ written < MaxBytes
    /\ written' = written + 1 /\ current' = current + 1
    /\ file' = [file EXCEPT ![0] = Append(@, written')]
    /\ UNCHANGED <<limit, pc, open, next, starts, faults, shortened, disturbed>>

\* rotate, when the file is full: closing it a second time is an error, so a
\* writer whose rotation failed writes no more.
CloseFull ==
    /\ pc = "ready" /\ current = limit.bytes /\ open /\ written < MaxBytes
    /\ open' = FALSE /\ pc' = "remove"
    /\ UNCHANGED <<file, limit, current, next, written, starts, faults, shortened, disturbed>>
RemoveOldest ==
    /\ pc = "remove" /\ pc' = "rename" /\ next' = limit.count - 1
    /\ file' = [file EXCEPT ![limit.count - 1] = <<>>]
    /\ UNCHANGED <<limit, current, open, written, starts, faults, shortened, disturbed>>

\* Mutant: the newest is renamed first.
RenameUpwards ==
    /\ pc = "rename"
    /\ LET from == limit.count - 1 - next
       IN  IF next = 0 THEN pc' = "create" /\ UNCHANGED <<file, next>>
           ELSE /\ next' = next - 1 /\ UNCHANGED pc
                /\ file' = IF file[from] # <<>>
                           THEN [file EXCEPT ![from] = <<>>, ![from + 1] = file[from]] ELSE file
    /\ UNCHANGED <<limit, current, open, written, starts, faults, shortened, disturbed>>

\* A file that is missing is left out; no file is renamed when it is empty.
Rename ==
    /\ pc = "rename"
    /\ IF next = 0 THEN pc' = "create" /\ UNCHANGED <<file, next>>
       ELSE /\ next' = next - 1 /\ UNCHANGED pc
            /\ file' = IF file[next - 1] # <<>>
                       THEN [file EXCEPT ![next - 1] = <<>>, ![next] = file[next - 1]] ELSE file
    /\ UNCHANGED <<limit, current, open, written, starts, faults, shortened, disturbed>>
Create ==
    /\ pc = "create" /\ pc' = "ready" /\ open' = TRUE /\ current' = 0
    /\ file' = [file EXCEPT ![0] = <<>>]
    /\ UNCHANGED <<limit, next, written, starts, faults, shortened, disturbed>>

\* An error of the file system inside rotate.
Fault ==
    /\ pc \in {"remove", "rename", "create"} /\ faults < MaxFaults /\ faults' = faults + 1
    /\ pc' = "ready" /\ disturbed' = TRUE
    /\ UNCHANGED <<file, limit, current, open, next, written, starts, shortened>>
\* The process ends, or is killed.
Stop ==
    /\ pc # "none" /\ pc' = "none" /\ open' = FALSE /\ next' = 0 /\ current' = 0
    /\ disturbed' = (disturbed \/ pc # "ready")
    /\ UNCHANGED <<file, limit, written, starts, faults, shortened>>

Next ==
    \/ \E l \in Limits : NewRotatingWriter(l)
    \/ WriteByte \/ CloseFull \/ RemoveOldest \/ Rename \/ Create \/ Fault \/ Stop
Spec == Init /\ [][Next]_vars

-----------------------------------------------------------------------------
\* The log as an operator reads it, the oldest generation first.
Log == file[3] \o file[2] \o file[1] \o file[0]

\* "NeverExceedsConfiguredTotalBytes", in any state of a rotation and after a
\* start with other limits.
TotalIsBounded == pc # "none" => Len(Log) <= limit.count * limit.bytes

\* "RetainsNewestBytesAcrossFiles": the log has no holes and ends with the last
\* byte written, across restarts, kills and errors inside a rotation and changed
\* limits, but for a limit per file that was lowered: enforceExistingLimit cuts
\* the newest bytes off each file.
NewestBytesAreKept ==
    shortened \/ \A i \in 1..Len(Log) : Log[i] = written - Len(Log) + i

\* A rotation that is not disturbed costs the oldest generation and no other.
GenerationsAreKept ==
    LET full == (limit.count - 1) * limit.bytes
    IN  disturbed \/ Len(Log) >= (IF written < full THEN written ELSE full)

\* Not so: a writer whose rotation failed can write when the cause has gone.
WriterRecovers == pc = "ready" => open

\* The log across rotations that fail or are killed, and starts with other limits.
LogInvariant == TotalIsBounded /\ NewestBytesAreKept /\ GenerationsAreKept
=============================================================================
