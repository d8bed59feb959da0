---------------------------- MODULE JournalProofs ----------------------------
(***************************************************************************)
(* The backups stay in order and no file grows beyond its bound, for any   *)
(* number of handlers, backups, records and failures.                      *)
(***************************************************************************)
EXTENDS Journal, SequenceTheorems, FiniteSetTheorems, TLAPS

Line == 0 .. MaxRecords + 1

(* Types of what the handlers share and of where they are. *)
DiskType ==
    /\ slot \in [0 .. Backups -> Nat]
    /\ lines \in Seq(Seq(Line))
    /\ \A i \in 0 .. Backups : slot[i] <= Len(lines)

WriterType ==
    /\ wpc \in [Writer -> {"idle", "stat", "drop", "shift", "open", "write"}]
    /\ shift \in [Writer -> 0 .. Backups]
    /\ handle \in [Writer -> Nat]
    /\ record \in [Writer -> 0 .. MaxRecords]
    /\ logged \in 0 .. MaxRecords
    /\ errors \in Nat
    /\ \A w \in Writer :
          /\ wpc[w] \in {"drop", "shift"} => shift[w] # 0
          /\ wpc[w] = "write" => handle[w] \in 1 .. Len(lines)

JournalTypes == DiskType /\ WriterType

----------------------------------------------------------------------------
(* A write makes one file longer by a line at most, and leaves the others. *)
LEMMA Extending ==
    ASSUME DiskType, JournalAssumption, NEW f \in 1 .. Len(lines), NEW l \in Line, Extend(f, l)
    PROVE  /\ lines' \in Seq(Seq(Line))
           /\ Len(lines') = Len(lines)
           /\ \A g \in 1 .. Len(lines) : g # f => lines'[g] = lines[g]
           /\ Len(lines'[f]) <= Len(lines[f]) + 1
<1> DEFINE s == lines[f]
           t == IF s # <<>> /\ Last(s) = Torn
                THEN Append(Front(s), IF l = Torn THEN Torn ELSE Bad)
                ELSE Append(s, l)
<1>1. s \in Seq(Line)
    BY ElementOfSeq DEF DiskType
<1>2. t \in Seq(Line) /\ Len(t) <= Len(s) + 1
  <2>1. CASE s # <<>> /\ Last(s) = Torn
    <3>1. Len(s) \in Nat \ {0} /\ \A i \in 1 .. Len(s) - 1 : s[i] \in Line
        BY <1>1, <2>1, EmptySeq, ElementOfSeq
    <3>2. Front(s) \in Seq(Line) /\ Len(Front(s)) <= Len(s)
        BY <3>1, SubSeqProperties DEF Front
    <3>3. (IF l = Torn THEN Torn ELSE Bad) \in Line
        BY JournalAssumption DEF Line, Torn, Bad
    <3> QED
        BY <2>1, <3>1, <3>2, <3>3
  <2>2. CASE ~(s # <<>> /\ Last(s) = Torn)
      BY <1>1, <2>2
  <2> QED
      BY <2>1, <2>2
<1>3. lines' = [lines EXCEPT ![f] = t]
    BY DEF Extend
<1> HIDE DEF s, t
<1>4. /\ lines' \in Seq(Seq(Line))
      /\ Len(lines') = Len(lines)
      /\ \A g \in 1 .. Len(lines) : lines'[g] = IF g = f THEN t ELSE lines[g]
    BY <1>2, <1>3, ExceptSeq DEF DiskType
<1> QED
    BY <1>2, <1>4 DEF s

(* A new file is the last one, and empty. *)
LEMMA Creating ==
    ASSUME DiskType, lines' = Append(lines, <<>>)
    PROVE  /\ lines' \in Seq(Seq(Line))
           /\ Len(lines') = Len(lines) + 1
           /\ \A g \in 1 .. Len(lines) : lines'[g] = lines[g]
           /\ lines'[Len(lines) + 1] = <<>>
BY EmptySeq DEF DiskType

LEMMA DiskTypeStep == JournalTypes /\ [JournalNext]_journalVars => DiskType'
<1> SUFFICES ASSUME JournalTypes, [JournalNext]_journalVars PROVE DiskType'
    OBVIOUS
<1> USE JournalAssumption DEF JournalTypes
<1>1. CASE UNCHANGED disk
    BY <1>1 DEF disk, DiskType
<1>2. ASSUME NEW w \in Writer, DropOldest(w) PROVE DiskType'
    BY <1>2 DEF DropOldest, DiskType, NoFile
<1>3. ASSUME NEW w \in Writer, Shift(w) PROVE DiskType'
  <2> DEFINE i == shift[w]
  <2>1. i \in 1 .. Backups /\ i - 1 \in 0 .. Backups
      BY <1>3 DEF Shift, ShiftDone, WriterType
  <2>2. /\ lines' = lines
        /\ slot' \in {slot, [slot EXCEPT ![i] = slot[i - 1], ![i - 1] = 0]}
      BY <1>3 DEF Shift, ShiftDone, NoFile
  <2> HIDE DEF i
  <2>3. slot' \in [0 .. Backups -> Nat]
    <3>1. slot \in [0 .. Backups -> Nat] /\ slot[i - 1] \in Nat
        BY <2>1 DEF DiskType
    <3>2. CASE slot' = slot
        BY <3>1, <3>2
    <3>3. CASE slot' = [slot EXCEPT ![i] = slot[i - 1], ![i - 1] = 0]
        BY <3>1, <3>3
    <3> QED
        BY <2>2, <3>2, <3>3
  <2>4. ASSUME NEW j \in 0 .. Backups PROVE slot'[j] <= Len(lines)
    <3>1. slot'[j] \in {slot[j], slot[i - 1], 0}
        BY <2>1, <2>2 DEF DiskType
    <3>2. Len(lines) \in Nat
        BY LenProperties DEF DiskType
    <3> QED
        BY <2>1, <3>1, <3>2 DEF DiskType
  <2> QED
      BY <2>2, <2>3, <2>4 DEF DiskType
<1>4. ASSUME NEW w \in Writer, OpenLog(w), slot[0] = NoFile PROVE DiskType'
  <2>1. /\ lines' = Append(lines, <<>>)
        /\ slot' = [slot EXCEPT ![0] = Len(lines')]
      BY <1>4 DEF OpenLog
  <2>2. lines' \in Seq(Seq(Line)) /\ Len(lines') = Len(lines) + 1 /\ Len(lines) \in Nat
      BY <2>1, Creating, LenProperties DEF DiskType
  <2> QED
      BY <2>1, <2>2 DEF DiskType
<1>5. ASSUME NEW w \in Writer, WriteRecord(w) \/ WriteRecordFails(w) PROVE DiskType'
  <2>1. handle[w] \in 1 .. Len(lines) /\ record[w] \in Line /\ Torn \in Line
      BY <1>5 DEF WriteRecord, WriteRecordFails, Line, Torn, WriterType
  <2>2. slot' = slot /\ (lines' = lines \/ Extend(handle[w], record[w]) \/ Extend(handle[w], Torn))
      BY <1>5 DEF WriteRecord, WriteRecordFails
  <2>3. lines' \in Seq(Seq(Line)) /\ Len(lines') = Len(lines)
      BY <2>1, <2>2, Extending DEF DiskType
  <2> QED
      BY <2>2, <2>3 DEF DiskType
<1> QED
    BY <1>1, <1>2, <1>3, <1>4, <1>5
       DEF JournalNext, Rotate, AppendJSONL, TailJSONL, journalVars, disk, LogRecord, Stat,
           StatFails, DropFails, ShiftFails, ShiftDone, OpenLog, OpenLogFails, OpenTail, Scan,
           ScanEnds

LEMMA WriterTypeStep == JournalTypes /\ [JournalNext]_journalVars => WriterType'
<1> SUFFICES ASSUME JournalTypes, [JournalNext]_journalVars PROVE WriterType'
    OBVIOUS
<1> USE JournalAssumption DEF JournalTypes, WriterType, WGoto
<1>1. CASE UNCHANGED <<disk, writers, errors>>
    BY <1>1 DEF disk, writers
<1>2. ASSUME NEW w \in Writer, LogRecord(w) PROVE WriterType'
    BY <1>2 DEF LogRecord, disk
<1>3. ASSUME NEW w \in Writer, Stat(w) PROVE WriterType'
    BY <1>3 DEF Stat, disk
<1>4. ASSUME NEW w \in Writer, StatFails(w) PROVE WriterType'
    BY <1>4 DEF StatFails, Err, disk
<1>5. ASSUME NEW w \in Writer, DropOldest(w) PROVE WriterType'
    BY <1>5 DEF DropOldest
<1>6. ASSUME NEW w \in Writer, DropFails(w) PROVE WriterType'
    BY <1>6 DEF DropFails, Err, disk
<1>7. ASSUME NEW w \in Writer, ShiftDone(w), errors' \in Nat PROVE WriterType'
  <2>1. /\ lines' = lines /\ handle' = handle /\ record' = record /\ logged' = logged
        /\ shift[w] \in 1 .. Backups
        /\ shift' = [shift EXCEPT ![w] = shift[w] - 1]
        /\ wpc' = [wpc EXCEPT ![w] = IF shift[w] = 1 THEN "open" ELSE "shift"]
      BY <1>7 DEF ShiftDone
  <2> QED
      BY <1>7, <2>1
<1>8. ASSUME NEW w \in Writer, OpenLog(w) PROVE WriterType'
  <2>1. slot'[0] \in 1 .. Len(lines') /\ Len(lines) <= Len(lines')
    <3>1. CASE slot[0] = NoFile
      <4>1. Len(lines) \in Nat /\ Len(lines') = Len(lines) + 1
          BY <1>8, <3>1, Creating, LenProperties DEF OpenLog, DiskType
      <4> QED
          BY <1>8, <3>1, <4>1 DEF OpenLog, DiskType
    <3>2. CASE slot[0] # NoFile
      <4>1. Len(lines) \in Nat
          BY LenProperties DEF DiskType
      <4> QED
          BY <1>8, <3>2, <4>1 DEF OpenLog, DiskType, disk, NoFile
    <3> QED
        BY <3>1, <3>2
  <2>2. /\ shift' = shift /\ record' = record /\ logged' = logged /\ errors' = errors
        /\ handle' = [handle EXCEPT ![w] = slot'[0]]
        /\ wpc' = [wpc EXCEPT ![w] = "write"]
      BY <1>8 DEF OpenLog
  <2>3. Len(lines) \in Nat /\ Len(lines') \in Nat
      BY DiskTypeStep, LenProperties DEF DiskType
  <2> QED
      BY <2>1, <2>2, <2>3
<1>9. ASSUME NEW w \in Writer, OpenLogFails(w) PROVE WriterType'
    BY <1>9 DEF OpenLogFails, Err, disk
<1>10. ASSUME NEW w \in Writer, WriteRecord(w) \/ WriteRecordFails(w) PROVE WriterType'
  <2>1. handle[w] \in 1 .. Len(lines) /\ record[w] \in Line /\ Torn \in Line
      BY <1>10 DEF WriteRecord, WriteRecordFails, Line, Torn
  <2>2. lines' = lines \/ Extend(handle[w], record[w]) \/ Extend(handle[w], Torn)
      BY <1>10 DEF WriteRecord, WriteRecordFails
  <2>3. Len(lines') = Len(lines)
      BY <2>1, <2>2, Extending
  <2>4. errors' \in Nat
      BY <1>10 DEF WriteRecord, WriteRecordFails, Err
  <2>5. /\ shift' = shift /\ record' = record /\ logged' = logged /\ handle' = handle
        /\ wpc' = [wpc EXCEPT ![w] = "idle"]
      BY <1>10 DEF WriteRecord, WriteRecordFails
  <2> QED
      BY <2>3, <2>4, <2>5
<1>11. ASSUME NEW w \in Writer, Shift(w) \/ ShiftFails(w) PROVE WriterType'
  <2>1. ShiftDone(w) /\ (errors' = errors \/ errors' = errors + 1)
      BY <1>11 DEF Shift, ShiftFails, Err
  <2> QED
      BY <1>7, <2>1
<1> HIDE DEF JournalTypes, WriterType, WGoto
<1> QED
    BY <1>1, <1>2, <1>3, <1>4, <1>5, <1>6, <1>8, <1>9, <1>10, <1>11
       DEF JournalNext, Rotate, AppendJSONL, TailJSONL, OpenTail, Scan, ScanEnds, journalVars

----------------------------------------------------------------------------
(* Backups in order: a rename moves a file up to a path all lower ones are *)
(* newer than, and a file that is created is newer than all.               *)
LEMMA OrderStep ==
    JournalTypes /\ BackupsAreInOrder /\ [JournalNext]_journalVars => BackupsAreInOrder'
<1> SUFFICES ASSUME JournalTypes, BackupsAreInOrder, [JournalNext]_journalVars
             PROVE  BackupsAreInOrder'
    OBVIOUS
<1>1. CASE UNCHANGED slot
    BY <1>1 DEF BackupsAreInOrder
<1>2. ASSUME NEW w \in Writer, DropOldest(w) PROVE BackupsAreInOrder'
  <2>1. slot' = [slot EXCEPT ![Backups] = NoFile] /\ slot \in [0 .. Backups -> Nat]
      BY <1>2 DEF DropOldest, JournalTypes, DiskType
  <2> QED
      BY <2>1 DEF BackupsAreInOrder
<1>3. ASSUME NEW w \in Writer, Shift(w) PROVE BackupsAreInOrder'
  <2>1. PICK i \in 1 .. Backups : slot' \in {slot, [slot EXCEPT ![i] = slot[i - 1], ![i - 1] = 0]}
    <3>1. shift[w] \in 1 .. Backups
        BY <1>3, JournalAssumption DEF Shift, ShiftDone, JournalTypes, WriterType
    <3>2. slot' \in {slot, [slot EXCEPT ![shift[w]] = slot[shift[w] - 1], ![shift[w] - 1] = 0]}
        BY <1>3 DEF Shift, NoFile
    <3> QED
        BY <3>1, <3>2
  <2>2. CASE slot' = slot
      BY <2>2 DEF BackupsAreInOrder
  <2>3. CASE slot' = [slot EXCEPT ![i] = slot[i - 1], ![i - 1] = 0]
    <3>1. i - 1 \in 0 .. Backups /\ i \in 0 .. Backups /\ Backups \in Nat
        BY JournalAssumption
    <3>2. \A j \in 0 .. Backups :
             slot'[j] = IF j = i - 1 THEN 0 ELSE IF j = i THEN slot[i - 1] ELSE slot[j]
        BY <2>3, <3>1 DEF JournalTypes, DiskType
    <3>3. SUFFICES ASSUME NEW j \in 0 .. Backups, NEW k \in 0 .. Backups,
                          j < k, slot'[j] # 0, slot'[k] # 0
                   PROVE  slot'[k] < slot'[j]
        BY DEF BackupsAreInOrder, NoFile
    <3>4. j # i - 1 /\ k # i - 1
        BY <3>2, <3>3
    <3>5. CASE j = i
        BY <3>1, <3>2, <3>3, <3>4, <3>5 DEF BackupsAreInOrder, NoFile
    <3>6. CASE k = i
        BY <3>1, <3>2, <3>3, <3>4, <3>6 DEF BackupsAreInOrder, NoFile
    <3>7. CASE j # i /\ k # i
        BY <3>2, <3>3, <3>4, <3>7 DEF BackupsAreInOrder, NoFile
    <3> QED
        BY <3>5, <3>6, <3>7
  <2> QED
      BY <2>1, <2>2, <2>3
<1>4. ASSUME NEW w \in Writer, OpenLog(w), slot[0] = NoFile PROVE BackupsAreInOrder'
  <2>1. /\ lines' = Append(lines, <<>>)
        /\ slot' = [slot EXCEPT ![0] = Len(lines')]
      BY <1>4 DEF OpenLog
  <2>2. Len(lines') = Len(lines) + 1 /\ Len(lines) \in Nat
      BY <2>1, Creating, LenProperties DEF DiskType, JournalTypes
  <2>3. \A j \in 0 .. Backups : slot'[j] = IF j = 0 THEN Len(lines) + 1 ELSE slot[j]
      BY <2>1, <2>2 DEF JournalTypes, DiskType
  <2>4. \A j \in 0 .. Backups : slot[j] \in Nat /\ slot[j] <= Len(lines)
      BY DEF JournalTypes, DiskType
  <2> QED
      BY <2>2, <2>3, <2>4 DEF BackupsAreInOrder
<1> QED
    BY <1>1, <1>2, <1>3, <1>4
       DEF JournalNext, Rotate, AppendJSONL, TailJSONL, journalVars, disk, LogRecord, Stat,
           StatFails, DropFails, ShiftFails, ShiftDone, OpenLog, OpenLogFails, WriteRecord,
           WriteRecordFails, OpenTail, Scan, ScanEnds

LEMMA JournalStart == JournalInit => JournalTypes /\ BackupsAreInOrder
<1> SUFFICES ASSUME JournalInit PROVE JournalTypes /\ BackupsAreInOrder
    OBVIOUS
<1>1. DiskType
    BY JournalAssumption, EmptySeq DEF JournalInit, DiskType, NoFile
<1>2. WriterType
    BY JournalAssumption DEF JournalInit, WriterType, NoFile, Torn
<1>3. BackupsAreInOrder
    BY DEF JournalInit, BackupsAreInOrder
<1> QED
    BY <1>1, <1>2, <1>3 DEF JournalTypes

(* However the rotations of any number of handlers interleave, and whatever*)
(* fails, the backups stay in order (Rotate).                              *)
THEOREM BackupsStayInOrder == JournalSpec => []BackupsAreInOrder
<1>1. JournalTypes /\ BackupsAreInOrder /\ [JournalNext]_journalVars
        => (JournalTypes /\ BackupsAreInOrder)'
    BY DiskTypeStep, WriterTypeStep, OrderStep DEF JournalTypes
<1> QED
    BY JournalStart, <1>1, PTL DEF JournalSpec

----------------------------------------------------------------------------
(* Files are bounded.  A handler that has found the log small enough owes  *)
(* it a record until it has written; room is kept for what is owed, and a  *)
(* handler that an error sent on brings an error of its own.               *)
Pending(f) == {w \in Writer : \/ wpc[w] = "write" /\ handle[w] = f
                              \/ wpc[w] = "open" /\ slot[0] = f}

Room(f) == Len(lines[f]) + Cardinality(Pending(f)) <= MaxLines + Cardinality(Writer) + errors

Bounded == \A f \in File : Room(f)

LEMMA Owed ==
    ASSUME JournalTypes, NEW f
    PROVE  /\ IsFiniteSet(Pending(f)) /\ IsFiniteSet(Pending(f)')
           /\ Cardinality(Pending(f)) \in Nat /\ Cardinality(Pending(f)') \in Nat
           /\ Cardinality(Writer) \in Nat /\ Cardinality(Pending(f)') <= Cardinality(Writer)
<1>1. Pending(f) \subseteq Writer /\ Pending(f)' \subseteq Writer /\ IsFiniteSet(Writer)
    BY JournalAssumption DEF Pending
<1> QED
    BY <1>1, FS_Subset, FS_CardinalityType

LEMMA Lengths ==
    ASSUME DiskType, NEW f \in File PROVE Len(lines[f]) \in Nat /\ lines[f] \in Seq(Line)
<1>1. lines[f] \in Seq(Line)
    BY ElementOfSeq DEF DiskType, File
<1> QED
    BY <1>1, LenProperties

(* Ways a step may leave room in a file. *)
LEMMA Steady ==
    ASSUME JournalTypes, JournalTypes', NEW f \in File, f \in File', Room(f),
           Pending(f)' \subseteq Pending(f), Len(lines'[f]) = Len(lines[f]), errors' >= errors
    PROVE  Room(f)'
<1>1. Cardinality(Pending(f)') <= Cardinality(Pending(f))
    BY Owed, FS_Subset
<1>2. /\ Len(lines[f]) \in Nat /\ errors \in Nat /\ errors' \in Nat
    BY Lengths DEF JournalTypes, WriterType
<1>3. /\ Cardinality(Pending(f)) \in Nat /\ Cardinality(Pending(f)') \in Nat
      /\ Cardinality(Writer) \in Nat /\ Cardinality(Pending(f)') <= Cardinality(Writer)
      /\ MaxLines \in Nat
    BY Owed, JournalAssumption
<1> QED
    BY <1>1, <1>2, <1>3 DEF Room

LEMMA Spared ==
    ASSUME JournalTypes, JournalTypes', NEW f \in File, f \in File', Room(f), NEW w \in Writer,
           Pending(f)' \subseteq Pending(f) \cup {w}, lines' = lines, errors' = errors + 1
    PROVE  Room(f)'
<1>1. /\ IsFiniteSet(Pending(f) \cup {w})
      /\ Cardinality(Pending(f) \cup {w}) <= Cardinality(Pending(f)) + 1
      /\ Cardinality(Pending(f) \cup {w}) \in Nat
  <2>1. IsFiniteSet(Pending(f)) /\ Cardinality(Pending(f)) \in Nat
      BY Owed
  <2>2. /\ IsFiniteSet(Pending(f) \cup {w})
        /\ Cardinality(Pending(f) \cup {w})
              \in {Cardinality(Pending(f)), Cardinality(Pending(f)) + 1}
      BY <2>1, FS_AddElement
  <2> QED
      BY <2>1, <2>2
<1>2. Cardinality(Pending(f)') <= Cardinality(Pending(f) \cup {w})
    BY <1>1, FS_Subset
<1>3. /\ Len(lines[f]) \in Nat /\ errors \in Nat
    BY Lengths DEF JournalTypes, WriterType
<1>4. /\ Cardinality(Pending(f)) \in Nat /\ Cardinality(Pending(f)') \in Nat
      /\ Cardinality(Writer) \in Nat /\ Cardinality(Pending(f)') <= Cardinality(Writer)
      /\ MaxLines \in Nat
    BY Owed, JournalAssumption
<1> QED
    BY <1>1, <1>2, <1>3, <1>4 DEF Room

LEMMA Small ==
    ASSUME JournalTypes, JournalTypes', NEW f, f \in File', Len(lines'[f]) <= MaxLines
    PROVE  Room(f)'
<1>1. Len(lines'[f]) \in Nat /\ errors' \in Nat
  <2>1. lines'[f] \in Seq(Line)
      BY ElementOfSeq DEF DiskType, File, JournalTypes
  <2> QED
      BY <2>1, LenProperties DEF JournalTypes, WriterType
<1>2. /\ Cardinality(Pending(f)) \in Nat /\ Cardinality(Pending(f)') \in Nat
      /\ Cardinality(Writer) \in Nat /\ Cardinality(Pending(f)') <= Cardinality(Writer)
      /\ MaxLines \in Nat
    BY Owed, JournalAssumption
<1> QED
    BY <1>1, <1>2 DEF Room

LEMMA Written ==
    ASSUME JournalTypes, JournalTypes', NEW f \in File, f \in File', Room(f), NEW w \in Pending(f),
           Pending(f)' \subseteq Pending(f) \ {w}, Len(lines'[f]) <= Len(lines[f]) + 1,
           errors' >= errors
    PROVE  Room(f)'
<1>1. /\ IsFiniteSet(Pending(f) \ {w})
      /\ Cardinality(Pending(f) \ {w}) = Cardinality(Pending(f)) - 1
    BY Owed, FS_RemoveElement
<1>2. Cardinality(Pending(f)') <= Cardinality(Pending(f)) - 1
    BY <1>1, FS_Subset
<1>3. /\ Len(lines[f]) \in Nat /\ errors \in Nat /\ errors' \in Nat
    BY Lengths DEF JournalTypes, WriterType
<1>4. Len(lines'[f]) \in Nat
  <2>1. lines'[f] \in Seq(Line)
      BY ElementOfSeq DEF DiskType, File, JournalTypes
  <2> QED
      BY <2>1, LenProperties
<1>5. /\ Cardinality(Pending(f)) \in Nat /\ Cardinality(Pending(f)') \in Nat
      /\ Cardinality(Writer) \in Nat /\ Cardinality(Pending(f)') <= Cardinality(Writer)
      /\ MaxLines \in Nat
    BY Owed, JournalAssumption
<1>6. Len(lines[f]) + Cardinality(Pending(f)) <= MaxLines + Cardinality(Writer) + errors
    BY DEF Room
<1>7. Len(lines'[f]) + Cardinality(Pending(f)') <= MaxLines + Cardinality(Writer) + errors'
  <2>1. ASSUME NEW m \in Nat, NEW n \in Nat, NEW p \in Nat, NEW q \in Nat, NEW c \in Nat,
               NEW d \in Nat, NEW e \in Nat,
               m <= n + 1, q <= p - 1, n + p <= c + d, d <= e
        PROVE  m + q <= c + e
      BY <2>1
  <2>2. /\ MaxLines + Cardinality(Writer) \in Nat
        /\ Len(lines'[f]) <= Len(lines[f]) + 1 /\ errors <= errors'
      BY <1>3, <1>5
  <2> QED
      BY <1>2, <1>3, <1>4, <1>5, <1>6, <2>1, <2>2
<1> QED
    BY <1>7 DEF Room

LEMMA BoundedStep ==
    JournalTypes /\ JournalTypes' /\ Bounded /\ [JournalNext]_journalVars => Bounded'
<1> SUFFICES ASSUME JournalTypes, JournalTypes', Bounded, [JournalNext]_journalVars,
                    NEW f \in File'
             PROVE  Room(f)'
    BY DEF Bounded
<1>1. ASSUME lines' = lines PROVE f \in File /\ Room(f) /\ Len(lines'[f]) = Len(lines[f])
    BY <1>1 DEF Bounded, File
<1>2. errors \in Nat
    BY DEF JournalTypes, WriterType
<1>3. CASE UNCHANGED <<disk, writers, errors>>
    BY <1>1, <1>2, <1>3, Steady DEF disk, writers, Pending
<1>4. ASSUME NEW w \in Writer, LogRecord(w) PROVE Room(f)'
  <2>1. /\ wpc' = [wpc EXCEPT ![w] = "stat"]
        /\ lines' = lines /\ slot' = slot /\ handle' = handle /\ errors' = errors
      BY <1>4 DEF LogRecord, WGoto, disk
  <2>2. Pending(f)' \subseteq Pending(f)
      BY <2>1 DEF Pending, JournalTypes, WriterType
  <2> QED
      BY <1>1, <1>2, <2>1, <2>2, Steady
<1>5. ASSUME NEW w \in Writer, Stat(w) PROVE Room(f)'
  <2>1. /\ wpc' = [wpc EXCEPT ![w] = IF Oversized THEN "drop" ELSE "open"]
        /\ lines' = lines /\ slot' = slot /\ handle' = handle /\ errors' = errors
      BY <1>5 DEF Stat, WGoto, disk
  <2>2. CASE slot[0] = f /\ ~Oversized
    <3>1. Len(lines[f]) \in Nat /\ f # 0
        BY <1>1, <2>1, Lengths DEF JournalTypes, File
    <3>2. Len(lines'[f]) <= MaxLines
        BY <2>1, <2>2, <3>1, JournalAssumption DEF Oversized, NoFile
    <3> QED
        BY <3>2, Small
  <2>3. CASE slot[0] # f \/ Oversized
    <3>1. Pending(f)' \subseteq Pending(f)
        BY <2>1, <2>3 DEF Pending, JournalTypes, WriterType
    <3> QED
        BY <1>1, <1>2, <2>1, <3>1, Steady
  <2> QED
      BY <2>2, <2>3
<1>6. ASSUME NEW w \in Writer, DropOldest(w) PROVE Room(f)'
  <2>1. /\ wpc' = [wpc EXCEPT ![w] = "shift"] /\ slot' = [slot EXCEPT ![Backups] = 0]
        /\ lines' = lines /\ handle' = handle /\ errors' = errors
      BY <1>6 DEF DropOldest, WGoto, NoFile
  <2>2. slot'[0] = slot[0]
      BY <2>1, JournalAssumption DEF JournalTypes, DiskType
  <2>3. Pending(f)' \subseteq Pending(f)
      BY <2>1, <2>2 DEF Pending, JournalTypes, WriterType
  <2> QED
      BY <1>1, <1>2, <2>1, <2>3, Steady
<1>7. ASSUME NEW w \in Writer, Shift(w) PROVE Room(f)'
  <2>1. /\ wpc' = [wpc EXCEPT ![w] = IF shift[w] = 1 THEN "open" ELSE "shift"]
        /\ lines' = lines /\ handle' = handle /\ errors' = errors
      BY <1>7 DEF Shift, ShiftDone, WGoto
  <2>2. slot'[0] \in {slot[0], 0} /\ (shift[w] = 1 => slot'[0] = 0)
    <3>1. shift[w] \in 1 .. Backups
        BY <1>7, JournalAssumption DEF Shift, ShiftDone, JournalTypes, WriterType
    <3>2. slot' = IF slot[shift[w] - 1] = 0 THEN slot
                  ELSE [slot EXCEPT ![shift[w]] = slot[shift[w] - 1], ![shift[w] - 1] = 0]
        BY <1>7 DEF Shift, NoFile
    <3>3. CASE slot[shift[w] - 1] = 0
        BY <3>1, <3>2, <3>3
    <3>4. CASE slot[shift[w] - 1] # 0
        BY <3>1, <3>2, <3>4, JournalAssumption DEF JournalTypes, DiskType
    <3> QED
        BY <3>3, <3>4
  <2>3. f # 0
      BY DEF File
  <2>4. Pending(f)' \subseteq Pending(f)
      BY <2>1, <2>2, <2>3 DEF Pending, JournalTypes, WriterType
  <2> QED
      BY <1>1, <1>2, <2>1, <2>4, Steady
<1>8. ASSUME NEW w \in Writer, StatFails(w) \/ DropFails(w) \/ ShiftFails(w) \/ OpenLogFails(w)
      PROVE  Room(f)'
  <2>1. /\ \E l : wpc' = [wpc EXCEPT ![w] = l]
        /\ lines' = lines /\ slot' = slot /\ handle' = handle /\ errors' = errors + 1
      BY <1>8 DEF StatFails, DropFails, ShiftFails, ShiftDone, OpenLogFails, WGoto, Err, disk
  <2>2. Pending(f)' \subseteq Pending(f) \cup {w}
      BY <2>1 DEF Pending, JournalTypes, WriterType
  <2> QED
      BY <1>1, <2>1, <2>2, Spared
<1>9. ASSUME NEW w \in Writer, OpenLog(w) PROVE Room(f)'
  <2>1. /\ wpc[w] = "open" /\ wpc' = [wpc EXCEPT ![w] = "write"]
        /\ handle' = [handle EXCEPT ![w] = slot'[0]] /\ errors' = errors
      BY <1>9 DEF OpenLog, WGoto
  <2>2. CASE slot[0] # 0
    <3>1. lines' = lines /\ slot' = slot
        BY <1>9, <2>2 DEF OpenLog, NoFile, disk
    <3>2. Pending(f)' \subseteq Pending(f)
        BY <2>1, <3>1 DEF Pending, JournalTypes, WriterType
    <3> QED
        BY <1>1, <1>2, <2>1, <3>1, <3>2, Steady
  <2>3. CASE slot[0] = 0
    <3>1. lines' = Append(lines, <<>>) /\ slot' = [slot EXCEPT ![0] = Len(lines')]
        BY <1>9, <2>3 DEF OpenLog, NoFile
    <3>2. /\ Len(lines) \in Nat /\ Len(lines') = Len(lines) + 1
          /\ \A g \in 1 .. Len(lines) : lines'[g] = lines[g]
          /\ lines'[Len(lines) + 1] = <<>>
        BY <3>1, Creating, LenProperties DEF JournalTypes, DiskType
    <3>3. slot'[0] = Len(lines) + 1
        BY <3>1, <3>2, JournalAssumption DEF JournalTypes, DiskType
    <3>4. CASE f = Len(lines) + 1
      <4>1. Len(lines'[f]) <= MaxLines
          BY <3>2, <3>4, EmptySeq, JournalAssumption
      <4> QED
          BY <4>1, Small
    <3>5. CASE f \in 1 .. Len(lines)
      <4>1. Pending(f)' \subseteq Pending(f)
          BY <2>1, <3>2, <3>3, <3>5 DEF Pending, JournalTypes, WriterType
      <4>2. f \in File /\ Room(f) /\ Len(lines'[f]) = Len(lines[f])
          BY <3>2, <3>5 DEF Bounded, File
      <4> QED
          BY <1>2, <2>1, <4>1, <4>2, Steady
    <3> QED
        BY <3>2, <3>4, <3>5 DEF File
  <2> QED
      BY <2>2, <2>3
<1>10. ASSUME NEW w \in Writer, WriteRecord(w) \/ WriteRecordFails(w) PROVE Room(f)'
  <2>1. /\ wpc[w] = "write" /\ wpc' = [wpc EXCEPT ![w] = "idle"]
        /\ slot' = slot /\ handle' = handle /\ (errors' = errors \/ errors' = errors + 1)
        /\ lines' = lines \/ Extend(handle[w], record[w]) \/ Extend(handle[w], Torn)
      BY <1>10 DEF WriteRecord, WriteRecordFails, WGoto, Err
  <2>2. handle[w] \in 1 .. Len(lines) /\ record[w] \in Line /\ Torn \in Line
      BY <2>1, JournalAssumption DEF JournalTypes, WriterType, Line, Torn
  <2>3. /\ Len(lines') = Len(lines)
        /\ \A g \in 1 .. Len(lines) : g # handle[w] => lines'[g] = lines[g]
        /\ Len(lines'[handle[w]]) <= Len(lines[handle[w]]) + 1
    <3>1. CASE lines' = lines
      <4>1. Len(lines[handle[w]]) \in Nat
          BY <2>2, Lengths DEF JournalTypes, File
      <4> QED
          BY <3>1, <4>1
    <3>2. CASE lines' # lines
        BY <2>1, <2>2, <3>2, Extending, JournalAssumption DEF JournalTypes
    <3> QED
        BY <3>1, <3>2
  <2>4. f \in File /\ Room(f)
      BY <2>3 DEF Bounded, File
  <2>5. Pending(f)' \subseteq Pending(f) \ {w}
      BY <2>1 DEF Pending, JournalTypes, WriterType
  <2>6. errors' >= errors
      BY <1>2, <2>1
  <2>7. CASE f = handle[w]
    <3>1. w \in Pending(f)
        BY <2>1, <2>7 DEF Pending
    <3> QED
        BY <2>3, <2>4, <2>5, <2>6, <2>7, <3>1, Written
  <2>8. CASE f # handle[w]
      BY <2>3, <2>4, <2>5, <2>6, <2>8, Steady DEF File
  <2> QED
      BY <2>7, <2>8
<1> QED
    BY <1>3, <1>4, <1>5, <1>6, <1>7, <1>8, <1>9, <1>10
       DEF JournalNext, Rotate, AppendJSONL, TailJSONL, OpenTail, Scan, ScanEnds, journalVars

(* Handlers that look at the log's size without a lock make it longer than *)
(* its limit by a record each at most, and by one for each operation that  *)
(* failed, whatever their number (Rotate, logMessage).                     *)
THEOREM FilesStayBounded == JournalSpec => []FilesAreBounded
<1>1. JournalInit => Bounded
    BY EmptySeq DEF JournalInit, Bounded, File
<1>2. JournalTypes /\ Bounded /\ [JournalNext]_journalVars => (JournalTypes /\ Bounded)'
    BY DiskTypeStep, WriterTypeStep, BoundedStep DEF JournalTypes
<1>3. JournalTypes /\ Bounded => FilesAreBounded
  <2> SUFFICES ASSUME JournalTypes, Bounded, NEW f \in File
               PROVE  Len(lines[f]) <= MaxLines + Cardinality(Writer) + errors
      BY DEF FilesAreBounded
  <2>1. Len(lines[f]) \in Nat /\ Cardinality(Pending(f)) \in Nat /\ Cardinality(Writer) \in Nat
      BY Lengths, Owed DEF JournalTypes
  <2>2. Room(f) /\ errors \in Nat
      BY DEF Bounded, JournalTypes, WriterType
  <2> QED
      BY <2>1, <2>2, JournalAssumption DEF Room
<1> QED
    BY JournalStart, <1>1, <1>2, <1>3, PTL DEF JournalSpec

----------------------------------------------------------------------------
(* The tail.  Only the last line of a file can be torn, so that a line the *)
(* reader has gone past is what it was. *)
TornIsLast == \A f \in File : \A i \in 1 .. Len(lines[f]) - 1 : lines[f][i] # Torn

LEMMA ExtendingKeeps ==
    ASSUME DiskType, TornIsLast, JournalAssumption,
           NEW f \in File, NEW l \in Line, Extend(f, l)
    PROVE  /\ Len(lines'[f]) >= Len(lines[f])
           /\ \A i \in 1 .. Len(lines[f]) : lines[f][i] # Torn => lines'[f][i] = lines[f][i]
           /\ \A i \in 1 .. Len(lines'[f]) - 1 : lines'[f][i] # Torn
<1> DEFINE s == lines[f]
           x == IF l = Torn THEN Torn ELSE Bad
           t == IF s # <<>> /\ Last(s) = Torn THEN Append(Front(s), x) ELSE Append(s, l)
<1>1. s \in Seq(Line) /\ Len(s) \in Nat /\ x \in Line
    BY ElementOfSeq, LenProperties, JournalAssumption DEF DiskType, File, Line, Torn, Bad
<1>2. \A i \in 1 .. Len(s) - 1 : s[i] # Torn
    BY DEF TornIsLast
<1>3. lines'[f] = t
    BY DEF Extend, DiskType, File
<1> HIDE DEF x
<1>4. CASE s # <<>> /\ Last(s) = Torn
  <2>1. Len(s) > 0 /\ s[Len(s)] = Torn
      BY <1>1, <1>4, EmptySeq DEF Last
  <2>2. /\ Front(s) \in Seq(Line) /\ Len(Front(s)) = Len(s) - 1
        /\ \A i \in 1 .. Len(s) - 1 : Front(s)[i] = s[i]
    <3>1. \A i \in 1 .. Len(s) - 1 : s[i] \in Line
        BY <1>1, ElementOfSeq
    <3> QED
        BY <1>1, <2>1, <3>1, SubSeqProperties DEF Front
  <2>3. /\ t = Append(Front(s), x) /\ Len(t) = Len(s)
        /\ \A i \in 1 .. Len(s) - 1 : t[i] = s[i]
      BY <1>1, <1>4, <2>1, <2>2, AppendProperties
  <2> HIDE DEF s, t
  <2>4. /\ Len(t) >= Len(s)
        /\ \A i \in 1 .. Len(s) : s[i] # Torn => t[i] = s[i]
        /\ \A i \in 1 .. Len(t) - 1 : t[i] # Torn
      BY <1>1, <1>2, <2>1, <2>3
  <2> QED
      BY <1>3, <2>4 DEF s
<1>5. CASE ~(s # <<>> /\ Last(s) = Torn)
  <2>1. /\ t = Append(s, l) /\ Len(t) = Len(s) + 1
        /\ \A i \in 1 .. Len(s) : t[i] = s[i]
      BY <1>1, <1>5, AppendProperties
  <2>2. \A i \in 1 .. Len(s) : s[i] # Torn
    <3>1. Len(s) > 0 => s[Len(s)] # Torn
        BY <1>1, <1>5, EmptySeq DEF Last
    <3> HIDE DEF s
    <3> QED
        BY <1>1, <1>2, <3>1
  <2> HIDE DEF s, t
  <2> QED
      BY <1>1, <1>3, <2>1, <2>2 DEF s
<1> QED
    BY <1>4, <1>5

(* Whatever the handlers do, a file only grows, and but for a torn end *)
(* keeps its lines. *)
Keeps(f) ==
    /\ Len(lines[f]) \in Nat /\ Len(lines'[f]) \in Nat
    /\ Len(lines[f]) <= Len(lines'[f])
    /\ \A i \in 1 .. Len(lines[f]) : lines[f][i] # Torn => lines'[f][i] = lines[f][i]

LEMMA FilesKeepLines ==
    ASSUME JournalTypes, JournalTypes', TornIsLast, [JournalNext]_journalVars
    PROVE  /\ TornIsLast'
           /\ Len(lines) \in Nat /\ Len(lines') \in Nat /\ Len(lines) <= Len(lines')
           /\ \A f \in File : Keeps(f)
<1>1. /\ Len(lines) \in Nat /\ Len(lines') \in Nat
      /\ \A f \in File : Len(lines[f]) \in Nat
      /\ \A f \in File' : Len(lines'[f]) \in Nat
    BY Lengths, LenProperties DEF JournalTypes, DiskType, File
<1>2. CASE UNCHANGED lines
    BY <1>1, <1>2 DEF TornIsLast, File, Keeps
<1>3. ASSUME NEW w \in Writer, OpenLog(w), slot[0] = NoFile
      PROVE  TornIsLast' /\ Len(lines) <= Len(lines') /\ \A f \in File : Keeps(f)
  <2>1. /\ Len(lines') = Len(lines) + 1
        /\ \A f \in File : lines'[f] = lines[f]
        /\ lines'[Len(lines) + 1] = <<>>
      BY <1>3, Creating DEF OpenLog, JournalTypes, File
  <2>2. TornIsLast'
    <3> SUFFICES ASSUME NEW f \in File', NEW i \in 1 .. Len(lines'[f]) - 1
                 PROVE  lines'[f][i] # Torn
        BY DEF TornIsLast
    <3>1. f \in File
        BY <1>1, <2>1, EmptySeq DEF File
    <3> QED
        BY <2>1, <3>1 DEF TornIsLast
  <2> QED
      BY <1>1, <2>1, <2>2 DEF Keeps, File
<1>4. ASSUME NEW w \in Writer, WriteRecord(w) \/ WriteRecordFails(w)
      PROVE  TornIsLast' /\ Len(lines) <= Len(lines') /\ \A f \in File : Keeps(f)
  <2>1. CASE UNCHANGED lines
      BY <1>1, <2>1 DEF TornIsLast, File, Keeps
  <2>2. CASE ~UNCHANGED lines
    <3> DEFINE h == handle[w]
    <3>1. PICK l \in Line : Extend(h, l)
        BY <1>4, <2>2, JournalAssumption
           DEF WriteRecord, WriteRecordFails, JournalTypes, WriterType, Line, Torn
    <3>2. h \in File
        BY <1>4 DEF WriteRecord, WriteRecordFails, JournalTypes, WriterType, File
    <3> HIDE DEF h
    <3>3. Len(lines') = Len(lines) /\ \A g \in File : g # h => lines'[g] = lines[g]
        BY <3>1, <3>2, Extending, JournalAssumption DEF JournalTypes, File
    <3>4. /\ Len(lines'[h]) >= Len(lines[h])
          /\ \A i \in 1 .. Len(lines[h]) : lines[h][i] # Torn => lines'[h][i] = lines[h][i]
          /\ \A i \in 1 .. Len(lines'[h]) - 1 : lines'[h][i] # Torn
        BY <3>1, <3>2, ExtendingKeeps, JournalAssumption DEF JournalTypes
    <3>5. TornIsLast'
      <4> SUFFICES ASSUME NEW f \in File' PROVE (\A i \in 1 .. Len(lines[f]) - 1 : lines[f][i] # Torn)'
          BY DEF TornIsLast
      <4>1. f \in File
          BY <3>3 DEF File
      <4>2. CASE f = h
          BY <3>4, <4>2
      <4>3. CASE f # h
          BY <3>3, <4>1, <4>3 DEF TornIsLast
      <4> QED
          BY <4>2, <4>3
    <3>6. ASSUME NEW f \in File PROVE Keeps(f)
      <4>1. Len(lines[f]) \in Nat /\ Len(lines'[f]) \in Nat
          BY <1>1, <3>3 DEF File
      <4>2. CASE f = h
          BY <3>4, <4>1, <4>2 DEF Keeps
      <4>3. CASE f # h
        <5>1. lines'[f] = lines[f]
            BY <3>3, <4>3
        <5> QED
            BY <4>1, <5>1 DEF Keeps
      <4> QED
          BY <4>2, <4>3
    <3> QED
        BY <1>1, <3>3, <3>5, <3>6
  <2> QED
      BY <2>1, <2>2
<1> QED
    BY <1>1, <1>2, <1>3, <1>4
       DEF JournalNext, Rotate, AppendJSONL, TailJSONL, journalVars, disk, LogRecord, Stat,
           StatFails, DropOldest, DropFails, Shift, ShiftFails, ShiftDone, OpenLog, OpenLogFails,
           OpenTail, Scan, ScanEnds

(* What the reader has. *)
ReaderType ==
    /\ rpc \in {"idle", "scan", "done", "failed"}
    /\ rfile \in 0 .. Len(lines)
    /\ rpos \in Nat
    /\ ring \in [0 .. LastN - 1 -> 0 .. MaxRecords]
    /\ idx \in 0 .. LastN - 1
    /\ filled \in 0 .. LastN

Seen == Records(rfile, rpos)

Size(S) == IF Cardinality(S) <= LastN THEN Cardinality(S) ELSE LastN

(* The place in the ring of the record that k were put in after, when the  *)
(* next goes to n. *)
Place(n, k) == IF k < n THEN n - 1 - k ELSE n + LastN - 1 - k

RingHolds ==
    \A i \in Seen : After(Seen, i) < LastN => ring[Place(idx, After(Seen, i))] = lines[rfile][i]

(* The ring has the latest records of those the reader has gone past. *)
RingHoldsLatest ==
    rpc = "scan" =>
        /\ rfile # NoFile /\ rpos <= Len(lines[rfile])
        /\ \A i \in 1 .. rpos : lines[rfile][i] # Torn
        /\ filled = Size(Seen)
        /\ RingHolds

TailInv == JournalTypes /\ TornIsLast /\ ReaderType /\ RingHoldsLatest

LEMMA RecordsAreFinite ==
    ASSUME NEW f, NEW n \in Nat
    PROVE  /\ IsFiniteSet(Records(f, n)) /\ Cardinality(Records(f, n)) \in Nat
           /\ \A i \in Records(f, n) : /\ After(Records(f, n), i) \in Nat
                                      /\ After(Records(f, n), i) < Cardinality(Records(f, n))
<1> DEFINE S == Records(f, n)
<1>1. S \subseteq 1 .. n
    BY DEF Records
<1>2. IsFiniteSet(S) /\ Cardinality(S) \in Nat
  <2>1. IsFiniteSet(1 .. n)
      BY FS_Interval
  <2> HIDE DEF S
  <2> QED
      BY <1>1, <2>1, FS_Subset, FS_CardinalityType
<1>3. ASSUME NEW i \in S PROVE After(S, i) \in Nat /\ After(S, i) < Cardinality(S)
  <2> DEFINE T == {j \in S : i < j}
  <2>1. T \subseteq S \ {i}
      BY <1>1
  <2>2. IsFiniteSet(S \ {i}) /\ Cardinality(S \ {i}) = Cardinality(S) - 1
      BY <1>2, <1>3, FS_RemoveElement
  <2>3. Cardinality(T) \in Nat /\ Cardinality(T) <= Cardinality(S \ {i})
      BY <2>1, <2>2, FS_Subset, FS_CardinalityType
  <2> QED
      BY <1>2, <2>2, <2>3 DEF After
<1> QED
    BY <1>2, <1>3

(* A record is put after all that are there. *)
LEMMA OneMore ==
    ASSUME NEW f, NEW n \in Nat, Readable(lines[f][n + 1])
    PROVE  LET S == Records(f, n)  T == Records(f, n + 1) IN
           /\ T = S \cup {n + 1} /\ Cardinality(T) = Cardinality(S) + 1
           /\ After(T, n + 1) = 0
           /\ \A i \in S : After(T, i) = After(S, i) + 1
<1> DEFINE S == Records(f, n)
           T == Records(f, n + 1)
<1>1. T = S \cup {n + 1} /\ n + 1 \notin S /\ S \subseteq 1 .. n
    BY DEF Records
<1>2. IsFiniteSet(S)
    BY RecordsAreFinite
<1> HIDE DEF S, T
<1>3. Cardinality(T) = Cardinality(S) + 1
    BY <1>1, <1>2, FS_AddElement
<1>4. After(T, n + 1) = 0
  <2>1. \A j \in T : j \in Int /\ j <= n + 1
      BY <1>1
  <2>2. {j \in T : n + 1 < j} = {}
      BY <2>1
  <2> QED
      BY <2>2, FS_EmptySet DEF After
<1>5. ASSUME NEW i \in S PROVE After(T, i) = After(S, i) + 1
  <2> DEFINE A == {j \in S : i < j}
  <2>1. {j \in T : i < j} = A \cup {n + 1} /\ n + 1 \notin A /\ A \subseteq S
      BY <1>1, <1>5
  <2>2. IsFiniteSet(A)
      BY <1>2, <2>1, FS_Subset
  <2>3. Cardinality(A \cup {n + 1}) = Cardinality(A) + 1
      BY <2>1, <2>2, FS_AddElement
  <2> QED
      BY <2>1, <2>3 DEF After
<1> QED
    BY <1>1, <1>3, <1>4, <1>5 DEF S, T

LEMMA Wraps ==
    ASSUME NEW n \in Nat, NEW k \in Nat
    PROVE  /\ k < n => k % n = k
           /\ n # 0 => (k < n => (k + n) % n = k) /\ n % n = 0
OBVIOUS

(* A record that is put in takes the place of the one that is oldest. *)
LEMMA TakeKeeps ==
    ASSUME ReaderType, JournalAssumption, rfile' = rfile, lines' = lines, rpos' = rpos + 1,
           NEW l, l = lines[rfile][rpos + 1], Readable(l), Take(l), filled = Size(Seen), RingHolds
    PROVE  filled' = Size(Seen)' /\ RingHolds'
<1> DEFINE n == rpos + 1
           S == Records(rfile, rpos)
           T == Records(rfile, n)
<1>1. Seen = S /\ Seen' = T
    BY DEF Seen, Records
<1>2. /\ T = S \cup {n} /\ Cardinality(T) = Cardinality(S) + 1
      /\ After(T, n) = 0
      /\ \A i \in S : After(T, i) = After(S, i) + 1
    BY OneMore DEF ReaderType
<1>3. /\ Cardinality(S) \in Nat
      /\ \A i \in S : After(S, i) \in Nat
    BY RecordsAreFinite DEF ReaderType
<1>4. /\ ring' = [ring EXCEPT ![idx] = l]
      /\ idx' = (idx + 1) % LastN
      /\ filled' = IF filled < LastN THEN filled + 1 ELSE filled
    BY DEF Take
<1>5. l = lines[rfile][n]
    OBVIOUS
<1> HIDE DEF n, S, T
<1>6. filled' = Size(Seen)'
  <2>1. filled = IF Cardinality(S) <= LastN THEN Cardinality(S) ELSE LastN
      BY <1>1 DEF Size
  <2>2. Size(Seen)' = IF Cardinality(T) <= LastN THEN Cardinality(T) ELSE LastN
      BY <1>1 DEF Size
  <2> QED
      BY <1>2, <1>3, <1>4, <2>1, <2>2, JournalAssumption
<1>7. idx' = IF idx + 1 = LastN THEN 0 ELSE idx + 1
  <2>1. idx \in Nat /\ LastN \in Nat /\ idx + 1 <= LastN
      BY JournalAssumption DEF ReaderType
  <2>2. CASE idx + 1 = LastN
      BY <1>4, <2>1, <2>2, Wraps
  <2>3. CASE idx + 1 < LastN
      BY <1>4, <2>1, <2>3, Wraps
  <2> QED
      BY <2>1, <2>2, <2>3
<1>8. ring'[idx] = l /\ \A p \in 0 .. LastN - 1 : p # idx => ring'[p] = ring[p]
    BY <1>4 DEF ReaderType
<1>9. Place(idx', 0) = idx
    BY <1>7, JournalAssumption DEF Place, ReaderType
<1>10. ASSUME NEW k \in Nat, k + 1 < LastN
       PROVE  ring'[Place(idx', k + 1)] = ring[Place(idx, k)]
  <2>1. /\ Place(idx', k + 1) = Place(idx, k)
        /\ Place(idx, k) \in 0 .. LastN - 1 /\ Place(idx, k) # idx
      BY <1>7, <1>10, JournalAssumption DEF Place, ReaderType
  <2> QED
      BY <1>8, <2>1
<1>11. ASSUME NEW i \in T, After(T, i) < LastN
       PROVE  ring'[Place(idx', After(T, i))] = lines[rfile][i]
  <2>1. CASE i = n
      BY <1>2, <1>5, <1>8, <1>9, <2>1
  <2>2. CASE i \in S
    <3>1. After(S, i) \in Nat /\ After(T, i) = After(S, i) + 1
        BY <1>2, <1>3, <2>2
    <3>2. After(S, i) + 1 < LastN
        BY <1>11, <3>1
    <3>3. ring'[Place(idx', After(S, i) + 1)] = ring[Place(idx, After(S, i))]
        BY <1>10, <3>1, <3>2
    <3>4. ring[Place(idx, After(S, i))] = lines[rfile][i]
        BY <1>1, <2>2, <3>1, <3>2, JournalAssumption DEF RingHolds
    <3> QED
        BY <3>1, <3>3, <3>4
  <2> QED
      BY <1>2, <2>1, <2>2
<1>12. RingHolds'
    BY <1>1, <1>11 DEF RingHolds
<1> QED
    BY <1>6, <1>12

LEMMA ReaderTypeStep ==
    ASSUME TailInv, JournalTypes', [JournalNext]_journalVars
    PROVE  ReaderType'
<1>1. Len(lines) \in Nat /\ Len(lines') \in Nat /\ Len(lines) <= Len(lines')
    BY FilesKeepLines DEF TailInv
<1>2. CASE UNCHANGED reader
    BY <1>1, <1>2 DEF reader, TailInv, ReaderType
<1>3. CASE OpenTail
  <2>1. slot[0] \in 0 .. Len(lines)
      BY <1>1, JournalAssumption DEF TailInv, JournalTypes, DiskType
  <2> QED
      BY <1>1, <1>3, <2>1, JournalAssumption DEF OpenTail, disk, Torn, ReaderType
<1>4. CASE Scan
  <2>1. /\ rpc' \in {"scan", "done", "failed"} /\ rfile' = rfile /\ rpos' = rpos + 1
        /\ lines' = lines
      BY <1>4 DEF Scan, disk
  <2>2. UNCHANGED <<ring, idx, filled>> \/ \E l : Readable(l) /\ Take(l)
      BY <1>4 DEF Scan, Take
  <2>3. ASSUME NEW l, Readable(l), Take(l)
        PROVE  /\ ring' \in [0 .. LastN - 1 -> 0 .. MaxRecords]
               /\ idx' \in 0 .. LastN - 1 /\ filled' \in 0 .. LastN
    <3>1. /\ ring' = [ring EXCEPT ![idx] = l] /\ l \in 0 .. MaxRecords
          /\ idx' = (idx + 1) % LastN
          /\ filled' = IF filled < LastN THEN filled + 1 ELSE filled
        BY <2>3 DEF Take, Readable
    <3>2. ring' \in [0 .. LastN - 1 -> 0 .. MaxRecords]
        BY <3>1 DEF TailInv, ReaderType
    <3>3. idx' \in 0 .. LastN - 1
        BY <3>1, JournalAssumption DEF TailInv, ReaderType
    <3>4. filled' \in 0 .. LastN
        BY <3>1, JournalAssumption DEF TailInv, ReaderType
    <3> QED
        BY <3>2, <3>3, <3>4
  <2>4. rfile \in 0 .. Len(lines) /\ rpos + 1 \in Nat
      BY DEF TailInv, ReaderType
  <2>5. /\ ring' \in [0 .. LastN - 1 -> 0 .. MaxRecords]
        /\ idx' \in 0 .. LastN - 1 /\ filled' \in 0 .. LastN
      BY <2>2, <2>3 DEF TailInv, ReaderType
  <2> QED
      BY <2>1, <2>4, <2>5 DEF ReaderType
<1>5. CASE ScanEnds
    BY <1>5 DEF ScanEnds, disk, TailInv, ReaderType
<1> QED
    BY <1>2, <1>3, <1>4, <1>5
       DEF JournalNext, Rotate, AppendJSONL, TailJSONL, journalVars, LogRecord, Stat,
           StatFails, DropOldest, DropFails, Shift, ShiftFails, ShiftDone, OpenLog, OpenLogFails,
           WriteRecord, WriteRecordFails

LEMMA RingStep ==
    ASSUME TailInv, JournalTypes', [JournalNext]_journalVars
    PROVE  RingHoldsLatest'
<1>1. /\ Len(lines) \in Nat /\ Len(lines') \in Nat /\ Len(lines) <= Len(lines')
      /\ \A f \in File : Keeps(f)
    BY FilesKeepLines DEF TailInv
<1>2. CASE UNCHANGED reader
  <2> SUFFICES ASSUME rpc = "scan" PROVE RingHoldsLatest'
      BY <1>2 DEF RingHoldsLatest, reader
  <2>1. /\ rfile \in File /\ rpos \in Nat /\ rpos <= Len(lines[rfile])
        /\ \A i \in 1 .. rpos : lines[rfile][i] # Torn
        /\ filled = Size(Seen) /\ RingHolds
      BY <1>1 DEF TailInv, ReaderType, RingHoldsLatest, File, NoFile
  <2>2. /\ Len(lines[rfile]) \in Nat /\ Len(lines'[rfile]) \in Nat
        /\ rpos <= Len(lines'[rfile])
        /\ \A i \in 1 .. rpos : lines'[rfile][i] = lines[rfile][i]
      BY <1>1, <2>1 DEF Keeps
  <2>3. /\ rpc' = rpc /\ rfile' = rfile /\ rpos' = rpos /\ ring' = ring /\ idx' = idx
        /\ filled' = filled
      BY <1>2 DEF reader
  <2>4. Seen' = Seen
      BY <2>2, <2>3 DEF Seen, Records
  <2>5. RingHolds'
    <3> SUFFICES ASSUME NEW i \in Seen, After(Seen, i) < LastN
                 PROVE  ring[Place(idx, After(Seen, i))] = lines'[rfile][i]
        BY <2>3, <2>4 DEF RingHolds
    <3>1. i \in 1 .. rpos
        BY DEF Seen, Records
    <3> QED
        BY <2>1, <2>2, <3>1 DEF RingHolds
  <2>6. filled' = Size(Seen)'
      BY <2>1, <2>3, <2>4 DEF Size
  <2> QED
      BY <2>1, <2>2, <2>3, <2>5, <2>6 DEF RingHoldsLatest, File, NoFile
<1>3. CASE OpenTail
  <2> SUFFICES ASSUME rpc' = "scan" PROVE RingHoldsLatest'
      BY DEF RingHoldsLatest
  <2>1. /\ rfile' = slot[0] /\ slot[0] # NoFile /\ rpos' = 0 /\ filled' = 0 /\ lines' = lines
      BY <1>3 DEF OpenTail, disk
  <2>2. rfile' \in File /\ Len(lines[rfile']) \in Nat
    <3>1. slot[0] \in Nat /\ slot[0] <= Len(lines)
        BY JournalAssumption DEF TailInv, JournalTypes, DiskType
    <3>2. slot[0] \in File
        BY <1>1, <2>1, <3>1 DEF File, NoFile
    <3> QED
        BY <2>1, <3>2, Lengths DEF TailInv, JournalTypes
  <2>3. Seen' = {}
      BY <2>1 DEF Seen, Records
  <2>4. Size(Seen)' = 0
      BY <2>3, FS_EmptySet, JournalAssumption DEF Size
  <2> QED
      BY <2>1, <2>2, <2>3, <2>4 DEF RingHoldsLatest, RingHolds
<1>4. CASE Scan
  <2> SUFFICES ASSUME rpc' = "scan" PROVE RingHoldsLatest'
      BY DEF RingHoldsLatest
  <2> DEFINE l == lines[rfile][rpos + 1]
  <2>1. /\ rpc = "scan" /\ ~AtEnd /\ rfile' = rfile /\ rpos' = rpos + 1 /\ lines' = lines
        /\ l # Torn /\ Take(l)
      BY <1>4 DEF Scan, disk
  <2>2. /\ rfile \in File /\ rpos \in Nat /\ rpos <= Len(lines[rfile])
        /\ \A i \in 1 .. rpos : lines[rfile][i] # Torn
        /\ filled = Size(Seen) /\ RingHolds
      BY <1>1, <2>1 DEF TailInv, ReaderType, RingHoldsLatest, File, NoFile
  <2>3. Len(lines[rfile]) \in Nat /\ rpos + 1 <= Len(lines[rfile])
      BY <1>1, <2>1, <2>2 DEF AtEnd, Keeps
  <2>4. filled' = Size(Seen)' /\ RingHolds'
    <3>1. CASE Readable(l)
        BY <2>1, <2>2, <3>1, TakeKeeps, JournalAssumption DEF TailInv
    <3>2. CASE ~Readable(l)
      <4>1. ring' = ring /\ idx' = idx /\ filled' = filled
          BY <2>1, <3>2 DEF Take
      <4>2. Seen' = Seen
          BY <2>1, <2>2, <3>2 DEF Seen, Records
      <4> QED
          BY <2>1, <2>2, <4>1, <4>2 DEF Size, RingHolds
    <3> QED
        BY <3>1, <3>2
  <2>5. \A i \in 1 .. rpos + 1 : lines[rfile][i] # Torn
      BY <2>1, <2>2
  <2> QED
      BY <2>1, <2>2, <2>3, <2>4, <2>5 DEF RingHoldsLatest, File, NoFile
<1>5. CASE ScanEnds
    BY <1>5 DEF ScanEnds, RingHoldsLatest
<1> QED
    BY <1>2, <1>3, <1>4, <1>5
       DEF JournalNext, Rotate, AppendJSONL, TailJSONL, journalVars, LogRecord, Stat,
           StatFails, DropOldest, DropFails, Shift, ShiftFails, ShiftDone, OpenLog, OpenLogFails,
           WriteRecord, WriteRecordFails

(* While the reader scans, its ring has the latest of the records it has   *)
(* gone past, and none of these changes any more (TailJSONL).              *)
THEOREM TailInvariant == JournalSpec => []TailInv
<1>1. JournalInit => TailInv
  <2> SUFFICES ASSUME JournalInit PROVE TailInv
      OBVIOUS
  <2>1. TornIsLast /\ Len(lines) = 0
      BY EmptySeq DEF JournalInit, TornIsLast, File
  <2>2. ReaderType
      BY <2>1, JournalAssumption DEF JournalInit, ReaderType, NoFile, Torn
  <2>3. RingHoldsLatest
      BY DEF JournalInit, RingHoldsLatest
  <2> QED
      BY <2>1, <2>2, <2>3, JournalStart DEF TailInv
<1>2. TailInv /\ [JournalNext]_journalVars => TailInv'
  <2> SUFFICES ASSUME TailInv, [JournalNext]_journalVars PROVE TailInv'
      OBVIOUS
  <2>1. JournalTypes'
      BY DiskTypeStep, WriterTypeStep DEF TailInv, JournalTypes
  <2> QED
      BY <2>1, FilesKeepLines, ReaderTypeStep, RingStep DEF TailInv
<1> QED
    BY <1>1, <1>2, PTL DEF JournalSpec

(* What TailJSONL returns is the ring from the oldest record on. *)
LEMMA TailOutIs ==
    ASSUME ReaderType, JournalAssumption, filled = Size(Seen), NEW i \in Seen,
           After(Seen, i) < LastN
    PROVE  TailOut[filled - After(Seen, i)] = ring[Place(idx, After(Seen, i))]
<1> DEFINE k == After(Seen, i)
           start == IF idx < filled THEN idx + LastN - filled ELSE idx - filled
<1>1. k \in Nat /\ k < Cardinality(Seen) /\ Cardinality(Seen) \in Nat
    BY RecordsAreFinite DEF Seen, ReaderType
<1> HIDE DEF k
<1>2. k < filled /\ k < LastN
    BY <1>1, JournalAssumption DEF k, Size
<1>3. idx \in Nat /\ idx < LastN /\ filled \in Nat /\ filled <= LastN /\ LastN \in Nat
    BY JournalAssumption DEF ReaderType
<1>4. TailOut[filled - k] = ring[(start + (filled - k) - 1) % LastN]
    BY <1>1, <1>2, <1>3 DEF TailOut
<1>5. (start + (filled - k) - 1) % LastN = Place(idx, k)
  <2>1. CASE idx < filled
    <3>1. start + (filled - k) - 1 = idx + LastN - 1 - k
        BY <1>1, <1>3, <2>1
    <3>2. CASE k < idx
      <4>1. idx - 1 - k \in Nat /\ idx - 1 - k < LastN
          BY <1>1, <1>3, <3>2
      <4>2. idx + LastN - 1 - k = (idx - 1 - k) + LastN
          BY <1>1, <1>3
      <4> QED
          BY <1>3, <3>1, <3>2, <4>1, <4>2, Wraps DEF Place
    <3>3. CASE ~(k < idx)
      <4>1. idx + LastN - 1 - k \in Nat /\ idx + LastN - 1 - k < LastN
          BY <1>1, <1>2, <1>3, <3>3
      <4> QED
          BY <1>3, <3>1, <3>3, <4>1, Wraps DEF Place
    <3> QED
        BY <3>2, <3>3
  <2>2. CASE ~(idx < filled)
    <3>1. /\ start + (filled - k) - 1 = idx - 1 - k /\ k < idx
          /\ idx - 1 - k \in Nat /\ idx - 1 - k < LastN
        BY <1>1, <1>2, <1>3, <2>2
    <3> QED
        BY <1>3, <3>1, Wraps DEF Place
  <2> QED
      BY <2>1, <2>2
<1> QED
    BY <1>4, <1>5 DEF k

(* A tail that ends well is the last n records of the file it was opened   *)
(* on, for any n, any number of handlers that append to it, tear it or     *)
(* rename it meanwhile, and any of its lines that are no records           *)
(* (TailJSONL).                                                            *)
THEOREM TailsAreLatest == JournalSpec => TailIsLatest
<1> DEFINE good == Records(rfile, Len(lines[rfile]))
           size == IF Cardinality(good) <= LastN THEN Cardinality(good) ELSE LastN
<1>1. ASSUME TailInv, [JournalNext]_journalVars, rpc = "scan", rpc' = "done"
      PROVE  /\ DOMAIN TailOut' = 1 .. size
             /\ \A i \in good : After(good, i) < LastN =>
                  TailOut'[size - After(good, i)] = lines[rfile][i]
  <2>1. /\ rfile \in File /\ rpos \in Nat /\ rpos <= Len(lines[rfile])
        /\ filled = Size(Seen) /\ RingHolds /\ Len(lines[rfile]) \in Nat
    <3>1. rfile \in File
        BY <1>1 DEF TailInv, ReaderType, RingHoldsLatest, File, NoFile
    <3> QED
        BY <1>1, <3>1, Lengths DEF TailInv, JournalTypes, ReaderType, RingHoldsLatest
  <2>2. ring' = ring /\ idx' = idx /\ filled' = filled /\ good = Seen
    <3>1. CASE ScanEnds
        BY <2>1, <3>1 DEF ScanEnds, AtEnd, Seen
    <3>2. CASE Scan
      <4>1. /\ lines[rfile][rpos + 1] = Torn /\ ~AtEnd /\ Take(Torn)
          BY <1>1, <3>2 DEF Scan
      <4>2. ring' = ring /\ idx' = idx /\ filled' = filled
          BY <4>1 DEF Take, Readable, Torn
      <4>3. Len(lines[rfile]) = rpos + 1
          BY <1>1, <2>1, <4>1 DEF AtEnd, TailInv, TornIsLast
      <4>4. good = Seen
          BY <2>1, <4>1, <4>3 DEF Seen, Records, Readable, Torn
      <4> QED
          BY <4>2, <4>4
    <3> QED
        BY <1>1, <3>1, <3>2
           DEF JournalNext, Rotate, AppendJSONL, TailJSONL, journalVars, reader, LogRecord, Stat,
               StatFails, DropOldest, DropFails, Shift, ShiftFails, ShiftDone, OpenLog,
               OpenLogFails, WriteRecord, WriteRecordFails, OpenTail
  <2>3. TailOut' = TailOut /\ size = filled /\ DOMAIN TailOut = 1 .. filled
    <3>1. TailOut' = TailOut
        BY <2>2 DEF TailOut
    <3>2. size = filled
        BY <2>1, <2>2 DEF Size
    <3>3. DOMAIN TailOut = 1 .. filled
        BY DEF TailOut
    <3> QED
        BY <3>1, <3>2, <3>3
  <2>4. ASSUME NEW i \in Seen, After(Seen, i) < LastN
        PROVE  TailOut[filled - After(Seen, i)] = lines[rfile][i]
    <3>1. TailOut[filled - After(Seen, i)] = ring[Place(idx, After(Seen, i))]
        BY <1>1, <2>1, <2>4, TailOutIs, JournalAssumption DEF TailInv
    <3> QED
        BY <2>1, <2>4, <3>1 DEF RingHolds
  <2> HIDE DEF good, size
  <2> QED
      BY <2>2, <2>3, <2>4
<1>2. TailInv /\ [JournalNext]_journalVars =>
        [rpc = "scan" /\ rpc' = "done" =>
            /\ DOMAIN TailOut' = 1 .. size
            /\ \A i \in good : After(good, i) < LastN =>
                 TailOut'[size - After(good, i)] = lines[rfile][i]]_journalVars
    BY <1>1
<1> QED
    BY <1>2, TailInvariant, PTL DEF JournalSpec, TailIsLatest

----------------------------------------------------------------------------
(* Handles lead to files there are, and no more fails than may. *)
HandlesLead == errors <= MaxErrors /\ \A w \in Writer : handle[w] <= Len(lines)

LEMMA HandlesStep ==
    ASSUME JournalTypes, JournalTypes', HandlesLead, [JournalNext]_journalVars
    PROVE  HandlesLead'
<1> USE JournalAssumption DEF HandlesLead
<1>1. CASE UNCHANGED <<lines, handle, errors>>
    BY <1>1
<1>2. ASSUME NEW w \in Writer, LogRecord(w) \/ Rotate(w) \/ OpenLogFails(w) PROVE HandlesLead'
  <2>1. lines' = lines /\ handle' = handle /\ (errors' = errors \/ Err)
      BY <1>2 DEF LogRecord, Rotate, Stat, StatFails, DropOldest, DropFails, Shift, ShiftFails,
                  ShiftDone, OpenLogFails, disk
  <2>2. errors \in Nat
      BY DEF JournalTypes, WriterType
  <2> QED
      BY <2>1, <2>2 DEF Err
<1>3. ASSUME NEW w \in Writer, OpenLog(w) PROVE HandlesLead'
  <2>1. handle' = [handle EXCEPT ![w] = slot'[0]] /\ errors' = errors
      BY <1>3 DEF OpenLog
  <2>2. /\ Len(lines) \in Nat /\ Len(lines') \in Nat /\ Len(lines) <= Len(lines')
        /\ slot'[0] <= Len(lines')
    <3>1. slot'[0] <= Len(lines') /\ Len(lines) \in Nat /\ Len(lines') \in Nat
        BY LenProperties DEF JournalTypes, DiskType
    <3>2. lines' = lines \/ lines' = Append(lines, <<>>)
        BY <1>3 DEF OpenLog, disk
    <3>3. Len(lines') \in {Len(lines), Len(lines) + 1}
        BY <3>2, Creating DEF JournalTypes
    <3> QED
        BY <3>1, <3>3
  <2> QED
      BY <2>1, <2>2 DEF JournalTypes, WriterType
<1>4. ASSUME NEW w \in Writer, WriteRecord(w) \/ WriteRecordFails(w) PROVE HandlesLead'
  <2>1. handle' = handle /\ (errors' = errors \/ Err)
      BY <1>4 DEF WriteRecord, WriteRecordFails
  <2>2. lines' = lines \/ \E l \in Line : Extend(handle[w], l)
      BY <1>4 DEF WriteRecord, WriteRecordFails, JournalTypes, WriterType, Line, Torn
  <2>3. handle[w] \in 1 .. Len(lines)
      BY <1>4 DEF WriteRecord, WriteRecordFails, JournalTypes, WriterType
  <2>4. Len(lines') = Len(lines)
      BY <2>2, <2>3, Extending DEF JournalTypes
  <2> QED
      BY <2>1, <2>4 DEF Err, JournalTypes, WriterType
<1> QED
    BY <1>1, <1>2, <1>3, <1>4
       DEF JournalNext, AppendJSONL, TailJSONL, journalVars, disk, writers, OpenTail, Scan,
           ScanEnds

(* The files, the handlers and the reader keep their types. *)
THEOREM JournalTypeCorrect == JournalSpec => []JournalTypeOK
<1>1. JournalInit => HandlesLead
    BY EmptySeq, JournalAssumption DEF JournalInit, HandlesLead, NoFile
<1>2. JournalTypes /\ JournalTypes' /\ HandlesLead /\ [JournalNext]_journalVars => HandlesLead'
    BY HandlesStep
<1>3. TailInv => JournalTypes
    BY DEF TailInv
<1>4. TailInv /\ HandlesLead => JournalTypeOK
  <2> SUFFICES ASSUME TailInv, HandlesLead PROVE JournalTypeOK
      OBVIOUS
  <2>1. Len(lines) \in Nat
      BY LenProperties DEF TailInv, JournalTypes, DiskType
  <2>2. handle \in [Writer -> 0 .. Len(lines)] /\ errors \in 0 .. MaxErrors
      BY <2>1, JournalAssumption DEF TailInv, JournalTypes, WriterType, HandlesLead
  <2> QED
      BY <2>2 DEF TailInv, JournalTypes, DiskType, WriterType, ReaderType, JournalTypeOK, Line
<1> QED
    BY <1>1, <1>2, <1>3, <1>4, TailInvariant, PTL DEF JournalSpec
============================================================================
