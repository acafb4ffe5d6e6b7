--------------------------------- MODULE Audit ---------------------------------
(***************************************************************************)
(* AuditLogger (audit/audit.go): the log file and its rotation, with the   *)
(* failures of the file system and restarts of the process in between.     *)
(***************************************************************************)
EXTENDS Naturals, Sequences, FiniteSets

CONSTANTS
    bufferSize,
    MaxEvents,   \* bound: events logged
    MaxStarts,   \* bound: loggers made on the file
    MaxTime      \* bound: the clock, in seconds

VARIABLES
    now,
    starts,
    logger,      \* "none" | "open" | "stuck" (every Encode fails) | "closed"
    file,        \* the events in the file at the configured path
    rotated,     \* second -> the events in the file rotated then
    sizes,       \* [rotate: rotateSize, current: currentSize], in events
    buffer,
    made,        \* events given to Log
    logged,      \* history: those Log returned nil for, since they were made
    movedAt,     \* history: event -> the second in which its file was rotated
    rotations    \* history: the seconds of all rotations, as a sequence

vars == <<now, starts, logger, file, rotated, sizes, buffer, made, logged, movedAt, rotations>>

Events == 1 .. MaxEvents

TypeOK ==
    /\ now \in 0 .. MaxTime /\ starts \in 0 .. MaxStarts /\ made \in 0 .. MaxEvents
    /\ logger \in {"none", "open", "stuck", "closed"}
    /\ file \subseteq Events /\ logged \subseteq 1 .. made
    /\ DOMAIN rotated \subseteq 0 .. MaxTime
    /\ sizes \in [rotate : 0 .. MaxEvents, current : 0 .. MaxEvents]
    /\ buffer \in Seq(Events) /\ Len(buffer) <= bufferSize
    /\ DOMAIN movedAt \subseteq Events /\ rotations \in Seq(0 .. MaxTime)

Init ==
    /\ now = 0 /\ starts = 0 /\ logger = "none" /\ made = 0 /\ buffer = <<>>
    /\ file = {} /\ rotated = <<>> /\ sizes = [rotate |-> 0, current |-> 0]
    /\ logged = {} /\ movedAt = <<>> /\ rotations = <<>>

-----------------------------------------------------------------------------

\* mutant: the file is opened without O_APPEND and loses what it held
OpenedTruncated == {}
Opened == file

(* NewAuditLogger: rotateSize is not the configured one but the size the file has, so
   a new file is never rotated, and an old one when as much again has been written. *)
NewAuditLogger ==
    /\ logger \in {"none", "closed"} /\ starts < MaxStarts
    /\ starts' = starts + 1 /\ logger' = "open" /\ buffer' = <<>>
    /\ file' = Opened /\ sizes' = [rotate |-> Cardinality(Opened), current |-> 0]
    /\ UNCHANGED <<now, rotated, made, logged, movedAt, rotations>>

Buffered(e) ==
    LET all == Append(buffer, e)
    IN  IF Len(all) > bufferSize THEN Tail(all) ELSE all

(* rotate closes the file, renames it over whatever was rotated in the same second,
   and opens a new one; when the rename or the open fails the encoder keeps the closed
   file, and Log does not look at the error. *)
Rotated(written, outcome) ==
    IF outcome = "renameFailed"
    THEN file' = written /\ logger' = "stuck" /\ UNCHANGED <<rotated, movedAt, rotations>>
    ELSE /\ file' = {} /\ logger' = IF outcome = "openFailed" THEN "stuck" ELSE logger
         /\ rotated' = [t \in DOMAIN rotated \cup {now} |-> IF t = now THEN written ELSE rotated[t]]
         /\ movedAt' = [e \in DOMAIN movedAt \cup written |->
                          IF e \in DOMAIN movedAt THEN movedAt[e] ELSE now]
         /\ rotations' = Append(rotations, now)

Log(outcome) ==
    LET e == made + 1
        full == sizes.rotate > 0 /\ sizes.current + 1 >= sizes.rotate
    IN  /\ logger = "open" /\ made < MaxEvents
        /\ made' = e /\ logged' = logged \cup {e} /\ buffer' = Buffered(e)
        /\ IF full
           THEN /\ Rotated(file \cup {e}, outcome)
                /\ sizes' = [sizes EXCEPT !.current = IF outcome = "rotated" THEN 0 ELSE @ + 1]
           ELSE /\ outcome = "rotated" /\ file' = file \cup {e}
                /\ sizes' = [sizes EXCEPT !.current = @ + 1]
                /\ UNCHANGED <<logger, rotated, movedAt, rotations>>
        /\ UNCHANGED <<now, starts>>

(* The encoder keeps the error of a write that failed and returns it for every later
   event, though the file would take them again. *)
EncodeFails ==
    /\ logger # "none" /\ made < MaxEvents /\ made' = made + 1
    /\ logger' = IF logger = "open" THEN "stuck" ELSE logger
    /\ UNCHANGED <<now, starts, file, rotated, sizes, buffer, logged, movedAt, rotations>>

Close ==
    /\ logger \in {"open", "stuck"} /\ logger' = "closed"
    /\ UNCHANGED <<now, starts, file, rotated, sizes, buffer, made, logged, movedAt, rotations>>

Tick ==
    /\ now < MaxTime /\ now' = now + 1
    /\ UNCHANGED <<starts, logger, file, rotated, sizes, buffer, made, logged, movedAt, rotations>>

Next ==
    \/ NewAuditLogger \/ EncodeFails \/ Close \/ Tick
    \/ \E o \in {"rotated", "renameFailed", "openFailed"} : Log(o)

Spec == Init /\ [][Next]_vars

-----------------------------------------------------------------------------

RotatedIn(t) == Cardinality({i \in DOMAIN rotations : rotations[i] = t})

(* An event that Log took is in the log file or in a rotated one, through failures and
   restarts, unless its file was rotated in a second that saw another rotation. *)
LoggedIsKept ==
    \A e \in logged :
       \/ e \in file \/ \E t \in DOMAIN rotated : e \in rotated[t]
       \/ e \in DOMAIN movedAt /\ RotatedIn(movedAt[e]) > 1
=============================================================================
