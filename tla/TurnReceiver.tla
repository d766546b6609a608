----------------------------- MODULE TurnReceiver -----------------------------
(***************************************************************************)
(* turns.Receiver of internal/gateway/turns: the gateway's side of one     *)
(* command-audio window, and the optional diagnostic WAV that is staged in *)
(* a file of its own and published under its final name by a hard link.    *)
(* The session calls every method under its mutex, so a method is an       *)
(* operator here: the set of outcomes it can have, each a record of the    *)
(* receiver, of the turn's files and of whether an error was returned.     *)
(* Sample counts are abstracted to numbers of frames.  os.Remove may fail  *)
(* where its error is looked at; where the code ignores the error it is    *)
(* taken to work, as no later step would make up for it.                   *)
(***************************************************************************)
EXTENDS Naturals

CONSTANT Directory  \* diagnostics are enabled

ASSUME DirectoryAssumption == Directory \in BOOLEAN

\* turns.Active, without the metadata it only carries: `file` stands for the
\* open handle and `stage` for a path that is not empty.
Receivers == [open : BOOLEAN, file : BOOLEAN, stage : BOOLEAN, bytes : Nat]

\* The turn's names in the directory; the staged and the published one are
\* links to the same file, which holds data and a header that announces it.
Files == [staged : BOOLEAN, final : BOOLEAN, data : Nat, header : Nat]

Nothing == [staged |-> FALSE, final |-> FALSE, data |-> 0, header |-> 0]

Outcome(a, f, ok) == [active |-> a, files |-> f, ok |-> ok]
Refused(a, f) == Outcome(a, f, FALSE)

\* Begin accepts a turn with an id and a known trigger.
Begin == [open |-> FALSE, file |-> FALSE, stage |-> FALSE, bytes |-> 0]

\* The staged name is removed, and the file with its last name.
Unstage(f) == IF f.final THEN [f EXCEPT !.staged = FALSE] ELSE Nothing

\* Abort closes and removes what was staged.
Abort(a, f) ==
    [active |-> [a EXCEPT !.file = FALSE, !.stage = FALSE],
     files |-> IF a.stage THEN Unstage(f) ELSE f]

\* StartAudio.  The window is open before the file is created: an error that
\* comes from the file leaves it so.
StartAudio(a, f) ==
    LET opened == [a EXCEPT !.open = TRUE]
        staged == [opened EXCEPT !.file = TRUE, !.stage = TRUE]
    IN  {Refused(a, f)} \cup
        (IF a.open THEN {}
         ELSE IF Directory THEN {Refused(opened, f), Outcome(staged, [f EXCEPT !.staged = TRUE], TRUE)}
         ELSE {Outcome(opened, f, TRUE)})

\* Write: a frame that is uneven or cannot be stored is an error.
Write(a, f) ==
    LET longer == [a EXCEPT !.bytes = @ + 1]
    IN  {Refused(a, f),
         Outcome(longer, IF a.file THEN [f EXCEPT !.data = @ + 1] ELSE f, TRUE)}

\* Mutant: the file is published before its header is completed.
StopLinksFirst(a, f) ==
    LET closed == [a EXCEPT !.open = FALSE]
        linked == [f EXCEPT !.final = TRUE]
        done == Unstage([linked EXCEPT !.header = a.bytes])
    IN  {Refused(a, f)} \cup
        (IF ~a.open THEN {}
         ELSE IF ~a.file THEN {Outcome(closed, f, TRUE)}
         ELSE {Refused(Abort(closed, linked).active, Abort(closed, linked).files),
               Outcome([closed EXCEPT !.file = FALSE, !.stage = FALSE], done, TRUE)})

\* Stop: the header is completed and synced, the file linked to its final
\* name, the staged name removed and the directory synced.  Any of the four
\* may fail; the last two leave the published name behind with an error.
Stop(a, f) ==
    LET closed == [a EXCEPT !.open = FALSE]
        aborted == Abort(closed, f)
        finalized == [f EXCEPT !.header = a.bytes]
        linked == [finalized EXCEPT !.final = TRUE]
        handed == [closed EXCEPT !.file = FALSE]
    IN  {Refused(a, f)} \cup
        (IF ~a.open THEN {}
         ELSE IF ~a.file THEN {Outcome(closed, f, TRUE)}
         ELSE {Refused(aborted.active, aborted.files),
               Refused(handed, Unstage(finalized)),
               Refused(handed, linked),
               Refused(handed, Unstage(linked)),
               Outcome([handed EXCEPT !.stage = FALSE], Unstage(linked), TRUE)})
=============================================================================
