------------------------------- MODULE Journal -------------------------------
(***************************************************************************)
(* messages.log (logMessage, internal/logfile, TailJSONL): handlers rotate *)
(* and append to it without a lock, each file operation a step, while the  *)
(* inspect API reads its tail.  A file keeps its identity when it is       *)
(* renamed, and a handle on it stays good: files are numbered as they are  *)
(* created, and slot tells which one a path leads to.                      *)
(***************************************************************************)
EXTENDS Naturals, Sequences, FiniteSets, SequencesExt

CONSTANTS
    Writer,      \* handlers
    Backups,     \* MessagesLogBackups
    MaxLines,    \* MessagesLogMaxBytes, in records
    LastN,       \* n of TailJSONL
    Overlong,    \* records longer than the buffer of TailJSONL's scanner
    MaxRecords,  \* bound: messages logged
    MaxErrors    \* bound: file operations that fail

ASSUME JournalAssumption ==
    /\ IsFiniteSet(Writer)
    /\ Backups \in Nat \ {0}
    /\ MaxLines \in Nat
    /\ LastN \in Nat \ {0}
    /\ Overlong \subseteq Nat
    /\ MaxRecords \in Nat
    /\ MaxErrors \in Nat

VARIABLES
    slot,     \* 0: messages.log, i: messages.log.i -> the file there, or NoFile
    lines,    \* file -> its lines
    wpc,      \* where a writer is in logMessage
    shift,    \* i of Rotate's loop
    handle,   \* the file a writer has opened
    logged,   \* records handlers started to log
    record,   \* the record a writer is logging
    rpc,      \* where the reader is in TailJSONL
    rfile,    \* the file it has opened
    rpos,     \* lines it has read
    ring,     \* its ring buffer
    idx,      \* where the next record goes
    filled,   \* records in the ring
    errors

disk == <<slot, lines>>
writers == <<wpc, shift, handle, logged, record>>
reader == <<rpc, rfile, rpos, ring, idx, filled>>
journalVars == <<disk, writers, reader, errors>>

----------------------------------------------------------------------------
NoFile == 0
File == 1 .. Len(lines)

(* A line is a record, or what a failed write left of one: Torn lacks its  *)
(* newline, Bad is a torn line that another record was appended to.        *)
Torn == 0
Bad == MaxRecords + 1
Readable(l) == l \in 1 .. MaxRecords

(* O_APPEND: one write at the end of the file. *)
Extend(f, l) ==
    LET s == lines[f] IN
    lines' = [lines EXCEPT ![f] =
                 IF s # <<>> /\ Last(s) = Torn
                 THEN Append(Front(s), IF l = Torn THEN Torn ELSE Bad)
                 ELSE Append(s, l)]

Err == errors < MaxErrors /\ errors' = errors + 1

WGoto(w, l) == wpc' = [wpc EXCEPT ![w] = l]

JournalInit ==
    /\ slot = [i \in 0 .. Backups |-> NoFile]
    /\ lines = <<>>
    /\ wpc = [w \in Writer |-> "idle"]
    /\ shift = [w \in Writer |-> 0]
    /\ handle = [w \in Writer |-> NoFile]
    /\ logged = 0
    /\ record = [w \in Writer |-> Torn]
    /\ rpc = "idle"
    /\ rfile = NoFile
    /\ rpos = 0
    /\ ring = [i \in 0 .. LastN - 1 |-> Torn]
    /\ idx = 0
    /\ filled = 0
    /\ errors = 0

----------------------------------------------------------------------------
(* logMessage; its errors are swallowed. *)

LogRecord(w) ==
    /\ wpc[w] = "idle" /\ logged < MaxRecords
    /\ logged' = logged + 1
    /\ record' = [record EXCEPT ![w] = logged']
    /\ WGoto(w, "stat")
    /\ UNCHANGED <<disk, shift, handle, reader, errors>>

Oversized == slot[0] # NoFile /\ Len(lines[slot[0]]) > MaxLines

(* Mutant: the size is not looked at. *)
StatNothing(w) ==
    /\ wpc[w] = "stat"
    /\ WGoto(w, "open")
    /\ UNCHANGED <<disk, shift, handle, logged, record, reader, errors>>

Stat(w) ==
    /\ wpc[w] = "stat"
    /\ WGoto(w, IF Oversized THEN "drop" ELSE "open")
    /\ shift' = [shift EXCEPT ![w] = Backups]
    /\ UNCHANGED <<disk, handle, logged, record, reader, errors>>

(* Rotate removes the last backup, then renames from the last to the first.*)
DropOldest(w) ==
    /\ wpc[w] = "drop"
    /\ slot' = [slot EXCEPT ![Backups] = NoFile]
    /\ WGoto(w, "shift")
    /\ UNCHANGED <<lines, shift, handle, logged, record, reader, errors>>

ShiftDone(w) ==
    /\ wpc[w] = "shift"
    /\ shift' = [shift EXCEPT ![w] = @ - 1]
    /\ WGoto(w, IF shift[w] = 1 THEN "open" ELSE "shift")
    /\ UNCHANGED <<lines, handle, logged, record, reader>>

(* Mutant: the log itself becomes the last backup. *)
ShiftFromLog(w) ==
    LET i == shift[w]
        prev == IF i = Backups THEN 0 ELSE i - 1
    IN
    /\ ShiftDone(w)
    /\ slot' = IF slot[prev] = NoFile THEN slot
               ELSE [slot EXCEPT ![i] = slot[prev], ![prev] = NoFile]
    /\ UNCHANGED errors

(* os.Rename replaces what the new path led to; ENOENT is ignored.         *)
Shift(w) ==
    LET i == shift[w] IN
    /\ ShiftDone(w)
    /\ slot' = IF slot[i - 1] = NoFile THEN slot
               ELSE [slot EXCEPT ![i] = slot[i - 1], ![i - 1] = NoFile]
    /\ UNCHANGED errors

(* The stat, the removal or a rename fails, and rotation goes on (a failed *)
(* stat ends it).                                                          *)
StatFails(w) ==
    /\ wpc[w] = "stat" /\ Err
    /\ WGoto(w, "open")
    /\ UNCHANGED <<disk, shift, handle, logged, record, reader>>

DropFails(w) ==
    /\ wpc[w] = "drop" /\ Err
    /\ WGoto(w, "shift")
    /\ UNCHANGED <<disk, shift, handle, logged, record, reader>>

ShiftFails(w) ==
    /\ ShiftDone(w) /\ Err
    /\ UNCHANGED slot

(* AppendJSONL: open or create, then write, to the file opened. *)
OpenLog(w) ==
    /\ wpc[w] = "open"
    /\ IF slot[0] = NoFile
       THEN /\ lines' = Append(lines, <<>>)
            /\ slot' = [slot EXCEPT ![0] = Len(lines')]
       ELSE UNCHANGED disk
    /\ handle' = [handle EXCEPT ![w] = slot'[0]]
    /\ WGoto(w, "write")
    /\ UNCHANGED <<shift, logged, record, reader, errors>>

OpenLogFails(w) ==
    /\ wpc[w] = "open" /\ Err
    /\ WGoto(w, "idle")
    /\ UNCHANGED <<disk, shift, handle, logged, record, reader>>

WriteRecord(w) ==
    /\ wpc[w] = "write"
    /\ Extend(handle[w], record[w])
    /\ WGoto(w, "idle")
    /\ UNCHANGED <<slot, shift, handle, logged, record, reader, errors>>

(* A full disk takes nothing of a record, or a part. *)
WriteRecordFails(w) ==
    /\ wpc[w] = "write" /\ Err
    /\ UNCHANGED lines \/ Extend(handle[w], Torn)
    /\ WGoto(w, "idle")
    /\ UNCHANGED <<slot, shift, handle, logged, record, reader>>

----------------------------------------------------------------------------
(* TailJSONL *)

(* A missing file has an empty tail. *)
OpenTail ==
    /\ rpc \in {"idle", "done", "failed"}
    /\ rfile' = slot[0]
    /\ rpos' = 0
    /\ ring' = [i \in 0 .. LastN - 1 |-> Torn]
    /\ idx' = 0
    /\ filled' = 0
    /\ rpc' = IF slot[0] = NoFile THEN "done" ELSE "scan"
    /\ UNCHANGED <<disk, writers, errors>>

AtEnd == rpos = Len(lines[rfile])

(* Mutant: lines that are skipped move the ring on as well. *)
TakeAny(l) ==
    /\ ring' = [ring EXCEPT ![idx] = IF Readable(l) THEN l ELSE @]
    /\ idx' = (idx + 1) % LastN
    /\ filled' = IF filled < LastN THEN filled + 1 ELSE filled

(* Mutant: the count of records in the ring is not capped. *)
TakeUncapped(l) ==
    IF Readable(l)
    THEN /\ ring' = [ring EXCEPT ![idx] = l]
         /\ idx' = (idx + 1) % LastN
         /\ filled' = filled + 1
    ELSE UNCHANGED <<ring, idx, filled>>

(* A line that is no record is skipped. *)
Take(l) ==
    IF Readable(l)
    THEN /\ ring' = [ring EXCEPT ![idx] = l]
         /\ idx' = (idx + 1) % LastN
         /\ filled' = IF filled < LastN THEN filled + 1 ELSE filled
    ELSE UNCHANGED <<ring, idx, filled>>

(* A line that does not fit the buffer is an error, and one without its    *)
(* newline the end of the file.                                            *)
Scan ==
    /\ rpc = "scan" /\ ~AtEnd
    /\ rpos' = rpos + 1
    /\ LET l == lines[rfile][rpos'] IN
       \/ /\ l \in Overlong
          /\ rpc' = "failed"
          /\ UNCHANGED <<ring, idx, filled>>
       \/ /\ l \notin Overlong
          /\ rpc' = IF l = Torn THEN "done" ELSE "scan"
          /\ Take(l)
    /\ UNCHANGED <<disk, writers, errors, rfile>>

ScanEnds ==
    /\ rpc = "scan" /\ AtEnd
    /\ rpc' = "done"
    /\ UNCHANGED <<disk, writers, errors, rfile, rpos, ring, idx, filled>>

(* What TailJSONL returns. *)
TailOut ==
    LET start == IF idx < filled THEN idx + LastN - filled ELSE idx - filled
    IN  [i \in 1 .. filled |-> ring[(start + i - 1) % LastN]]

----------------------------------------------------------------------------
Rotate(w) == Stat(w) \/ StatFails(w) \/ DropOldest(w) \/ DropFails(w) \/ Shift(w) \/ ShiftFails(w)

AppendJSONL(w) == OpenLog(w) \/ OpenLogFails(w) \/ WriteRecord(w) \/ WriteRecordFails(w)

TailJSONL == OpenTail \/ Scan \/ ScanEnds

JournalNext ==
    \/ \E w \in Writer : LogRecord(w) \/ Rotate(w) \/ AppendJSONL(w)
    \/ TailJSONL

JournalSpec == JournalInit /\ [][JournalNext]_journalVars

----------------------------------------------------------------------------
JournalTypeOK ==
    /\ slot \in [0 .. Backups -> Nat]
    /\ lines \in Seq(Seq(0 .. MaxRecords + 1))
    /\ \A i \in 0 .. Backups : slot[i] <= Len(lines)
    /\ wpc \in [Writer -> {"idle", "stat", "drop", "shift", "open", "write"}]
    /\ shift \in [Writer -> 0 .. Backups]
    /\ handle \in [Writer -> 0 .. Len(lines)]
    /\ logged \in 0 .. MaxRecords
    /\ record \in [Writer -> 0 .. MaxRecords]
    /\ rpc \in {"idle", "scan", "done", "failed"}
    /\ rfile \in 0 .. Len(lines)
    /\ rpos \in Nat
    /\ ring \in [0 .. LastN - 1 -> 0 .. MaxRecords]
    /\ idx \in 0 .. LastN - 1
    /\ filled \in 0 .. LastN
    /\ errors \in 0 .. MaxErrors

(* However the rotations of several handlers interleave, and whatever      *)
(* fails, a backup with a higher number is an older file, and no file is   *)
(* at two paths (Rotate).                                                  *)
BackupsAreInOrder ==
    \A i, j \in 0 .. Backups :
        i < j /\ slot[i] # NoFile /\ slot[j] # NoFile => slot[j] < slot[i]

(* Unsynchronised handlers overshoot the limit by a record each at most,   *)
(* and by one for each operation that failed (Rotate, logMessage).         *)
FilesAreBounded ==
    \A f \in File : Len(lines[f]) <= MaxLines + Cardinality(Writer) + errors

(* The lines of a file, of the first n, that are records; and how many of  *)
(* them come after line i.                                                 *)
Records(f, n) == {i \in 1 .. n : Readable(lines[f][i])}

After(S, i) == Cardinality({j \in S : i < j})

(* A tail that ends well is the last n records of the file it was opened   *)
(* on, as that is when its end is reached, whatever other handlers append  *)
(* to it, tear or rename meanwhile (TailJSONL): a record with k others     *)
(* after it is the one before the last k of the tail.                      *)
TailIsLatest ==
    [][rpc = "scan" /\ rpc' = "done" =>
          LET good == Records(rfile, Len(lines[rfile]))
              size == IF Cardinality(good) <= LastN THEN Cardinality(good) ELSE LastN
          IN  /\ DOMAIN TailOut' = 1 .. size
              /\ \A i \in good : After(good, i) < LastN =>
                    TailOut'[size - After(good, i)] = lines[rfile][i]]_journalVars

(* Rotate drops the oldest backup: no file is lost while an older one is   *)
(* kept.                                                                   *)
OnDisk == {slot[i] : i \in 0 .. Backups} \ {NoFile}

RotationDropsOldest ==
    [][\A f \in OnDisk \ OnDisk' : \A g \in OnDisk' : f < g]_journalVars
============================================================================
