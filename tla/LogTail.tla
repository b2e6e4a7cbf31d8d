------------------------------- MODULE LogTail -------------------------------
(***************************************************************************)
(* `tunli-server logs` (cli.ts) beside the process that writes the log     *)
(* (Logger.ts).  The tail keeps the position up to which it has printed,   *)
(* compares it with the file's size at every change that watchFile         *)
(* reports, and reads the difference in the background.  Meanwhile the     *)
(* file grows, is truncated or is moved away and made again.               *)
(***************************************************************************)
EXTENDS Integers, Sequences

CONSTANTS
    MaxLines,      \* bound on the lines that are logged
    MaxRotations   \* bound on truncations and removals

ASSUME TailAssumption == MaxLines \in Nat /\ MaxRotations \in Nat

None == [from |-> 0, size |-> -1]

VARIABLES
    file,      \* its lines, numbered as they were logged, and whether it is there
    change,    \* number of changes to the file, which is what watchFile compares
    gen,       \* number of truncations and removals
    logged,    \* lines that were logged
    attached,  \* the logger's stream is open on the file that has the name
    running,   \* the tail runs
    pos, reading,   \* cli.ts; reading is None or the range that is being read
    fetched,   \* whether the read stream has printed its range
    seen,      \* watchFile: the change it knows; -1 before its first look
    printed,   \* what the tail has printed
    posGen,    \* history: the generation that pos was compared with
    torn,      \* history: the file was cut under a read
    fooled,    \* history: it was cut and grew beyond pos before anybody looked
    missed     \* history: lines between the first read and the first look

tailVars == <<file, change, gen, logged, attached, running, pos, reading, fetched, seen,
              printed, posGen, torn, fooled, missed>>
logger == <<file, change, gen, logged, attached, torn>>

TailInit ==
    /\ file = [lines |-> <<>>, exists |-> FALSE]
    /\ change = 0 /\ gen = 0 /\ logged = 0
    /\ attached = FALSE /\ running = FALSE
    /\ pos = 0 /\ reading = None /\ fetched = FALSE
    /\ seen = -1 /\ printed = <<>>
    /\ posGen = 0 /\ torn = FALSE /\ fooled = FALSE /\ missed = {}

Size == Len(file.lines)

-----------------------------------------------------------------------------
(* Logger.ts, and whoever rotates the log *)

\* The logger opens the file to append, when its process starts.
OpenLog ==
    /\ ~attached
    /\ attached' = TRUE
    /\ file' = [file EXCEPT !.exists = TRUE]
    /\ change' = IF file.exists THEN change ELSE change + 1
    /\ UNCHANGED <<gen, logged, running, pos, reading, fetched, seen, printed, posGen, torn,
                   fooled, missed>>

\* A file that was moved away takes the line with it.
Log ==
    /\ logged < MaxLines
    /\ logged' = logged + 1
    /\ IF attached
       THEN file' = [file EXCEPT !.lines = Append(@, logged')] /\ change' = change + 1
       ELSE UNCHANGED <<file, change>>
    /\ UNCHANGED <<gen, attached, running, pos, reading, fetched, seen, printed, posGen, torn,
                   fooled, missed>>

Cut(exists) ==
    /\ file.exists /\ gen < MaxRotations
    /\ file' = [lines |-> <<>>, exists |-> exists]
    /\ change' = change + 1 /\ gen' = gen + 1
    /\ torn' = (torn \/ reading # None)
    /\ UNCHANGED <<logged, running, pos, reading, fetched, seen, printed, posGen, fooled, missed>>

Truncate == Cut(TRUE) /\ UNCHANGED attached

MoveAway == Cut(FALSE) /\ attached' = FALSE

-----------------------------------------------------------------------------
(* The tail *)

Idle == reading = None

\* readNew on a file that is there: one that is shorter than the position was cut.
Look(position) ==
    LET from == IF Size < position THEN 0 ELSE position
    IN  /\ pos' = from
        /\ reading' = IF Size = from THEN None ELSE [from |-> from, size |-> Size]
        /\ posGen' = gen
        /\ fooled' = (fooled \/ (gen # posGen /\ position \in 1 .. Size))

\* readNew, when nothing is being read, with the position its caller leaves it.
ReadNew(position) ==
    IF file.exists THEN Look(position)
    ELSE pos' = position /\ reading' = None /\ UNCHANGED <<posGen, fooled>>

\* The file is made sure of and read, then watched.
Start ==
    /\ ~running
    /\ running' = TRUE
    /\ file' = [file EXCEPT !.exists = TRUE]
    /\ change' = IF file.exists THEN change ELSE change + 1
    /\ Look(0)
    /\ UNCHANGED <<gen, logged, attached, fetched, seen, printed, torn, missed>>

\* Mutant: the read is not stopped at the size that was seen.
FetchToEnd ==
    /\ reading # None /\ ~fetched
    /\ fetched' = TRUE
    /\ printed' = printed \o SubSeq(file.lines, reading.from + 1, Size)
    /\ UNCHANGED <<logger, running, pos, reading, seen, posGen, fooled, missed>>

\* The range is read from the file as it is by then.
Fetch ==
    /\ reading # None /\ ~fetched
    /\ fetched' = TRUE
    /\ printed' = printed \o SubSeq(file.lines, reading.from + 1,
                                    IF reading.size < Size THEN reading.size ELSE Size)
    /\ UNCHANGED <<logger, running, pos, reading, seen, posGen, fooled, missed>>

\* Mutant: what came during the read waits for the next change.
CloseOnly ==
    /\ reading # None /\ fetched
    /\ fetched' = FALSE
    /\ pos' = reading.size /\ reading' = None
    /\ UNCHANGED <<logger, running, seen, printed, posGen, fooled, missed>>

\* 'close', after the end or an error.
Close ==
    /\ reading # None /\ fetched
    /\ fetched' = FALSE
    /\ ReadNew(reading.size)
    /\ UNCHANGED <<logger, running, seen, printed, missed>>

\* watchFile looks for the first time, and tells nobody.  What was written since
\* readNew looked is not read before the next change.
FirstLook ==
    /\ running /\ seen = -1
    /\ seen' = change
    /\ missed' = {file.lines[i] : i \in {j \in 1 .. Size :
                      Idle /\ (gen = posGen => j > pos)}}
    /\ UNCHANGED <<logger, running, pos, reading, fetched, printed, posGen, fooled>>

\* watchFile sees a change.
Poll ==
    /\ seen \notin {-1, change}
    /\ seen' = change
    /\ IF Idle THEN ReadNew(pos) ELSE UNCHANGED <<pos, reading, posGen, fooled>>
    /\ UNCHANGED <<logger, running, fetched, printed, missed>>

TailNext ==
    \/ OpenLog \/ Log \/ Truncate \/ MoveAway
    \/ Start \/ Fetch \/ Close \/ FirstLook \/ Poll

\* The tail's own steps happen; nobody has to log or rotate.
TailFairness == WF_tailVars(Fetch) /\ WF_tailVars(Close) /\ WF_tailVars(FirstLook \/ Poll)

TailSpec == TailInit /\ [][TailNext]_tailVars /\ TailFairness

-----------------------------------------------------------------------------
(* Properties *)

Lines == {file.lines[i] : i \in 1 .. Size}
Printed == {printed[i] : i \in 1 .. Len(printed)}

\* Lines are printed once and in their order, through growth, truncation and
\* removal, as long as the file was not cut under a read.
TailFaithful ==
    torn \/ \A i, j \in 1 .. Len(printed) : i < j => printed[i] < printed[j]

\* A line in the log is printed sooner or later while it is there: none is lost to
\* a read that was under way.  Two cases escape the tail: a file that outgrew its
\* old size unnoticed, and a line between the first read and watchFile's first look.
TailComplete ==
    \A i \in 1 .. MaxLines :
        running /\ i \in Lines ~> i \in Printed \/ i \notin Lines \/ fooled \/ i \in missed
=============================================================================
