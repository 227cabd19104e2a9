--------------------- MODULE CsvCacheSampleLoggerProofs ---------------------
(***************************************************************************)
(* Machine-checked proofs about CsvCacheSampleLogger: what a crash loses,  *)
(* what the file holds after failed writes, when rows are forgotten, and   *)
(* that the logger implements RowLog, for any flush threshold and any      *)
(* number of samples.                                                      *)
(*                                                                         *)
(* The inductive invariant locates every row: while the stream is good the *)
(* file, the put area and what is left of the pending rows follow each     *)
(* other; of a stream that failed it knows the place of the short write.   *)
(***************************************************************************)
EXTENDS CsvCacheSampleLogger, SequenceTheorems, TLAPS

(* What the lifecycle says of the rest.                                    *)
LifeInv ==
  /\ lifecycle \in {"new", "rejected"} =>
       /\ rowCount = 0 /\ pendingRows = <<>> /\ putArea = <<>> /\ file = <<>>
       /\ ~streamBad /\ ~closing
  /\ flushing => lifecycle = "open" /\ insertIdx <= Len(pendingRows) + 1
  /\ lifecycle = "open" => FlushSampleCount > 0
  /\ lifecycle = "killed" => pendingRows = <<>> /\ putArea = <<>>

(* The pending rows are the last ones that were logged.                    *)
PendingInv ==
  /\ Len(pendingRows) <= rowCount
  /\ \A i \in 1 .. Len(pendingRows) :
       pendingRows[i] = rowCount - Len(pendingRows) + i

(* How many rows were inserted in the stream.                              *)
Inserted ==
  rowCount - Len(pendingRows) + (IF flushing THEN insertIdx - 1 ELSE 0)

(* While the stream is good nothing is missing: the put area continues the *)
(* file up to the row inserted last, and is empty between flushes.         *)
GoodInv ==
  ~streamBad =>
    /\ shortRows = 0
    /\ \A i \in 1 .. Len(file) : file[i] = i
    /\ \A i \in 1 .. Len(putArea) : putArea[i] = Len(file) + i
    /\ Len(file) <= rowCount
    /\ lifecycle # "killed" => Len(file) + Len(putArea) = Inserted
    /\ ~flushing => putArea = <<>>
    /\ rowCount - Len(file) <= FlushSampleCount
    /\ Ready => Len(pendingRows) < FlushSampleCount
    /\ ~flushing /\ (closing \/ lifecycle = "closed") => pendingRows = <<>>

(* The failed write began after row g and saved shortRows rows; the put    *)
(* area still begins with the row after g, or was written once more.       *)
ShortWriteAfter(g) ==
  /\ g + shortRows <= Len(file)
  /\ \A i \in 1 .. Len(file) :
       file[i] = IF i <= g + shortRows THEN i ELSE i - shortRows
  /\ g + shortRows <= rowCount
  /\ Len(file) > g + shortRows =>
       Len(file) - shortRows \in g + shortRows .. rowCount
  /\ putArea # <<>> => Len(file) = g + shortRows /\ shortRows <= Len(putArea)
  /\ g + Len(putArea) <= rowCount
  /\ \A i \in 1 .. Len(putArea) : putArea[i] = g + i

BadInv == streamBad => \E g \in 0 .. rowCount : ShortWriteAfter(g)

LoggerInv == LoggerTypeOK /\ LifeInv /\ PendingInv /\ GoodInv /\ BadInv

-----------------------------------------------------------------------------
(* The numbers the constants stand for.                                    *)
LEMMA LoggerBounds == FlushSampleCount \in Nat /\ MaxRows \in Nat
BY LoggerAssumption

(* The invariant's facts about the areas, with the lengths as numbers.     *)
LEMMA Areas ==
  ASSUME LoggerTypeOK
  PROVE  /\ rowCount \in Nat /\ rowCount <= MaxRows
         /\ insertIdx \in Nat /\ shortRows \in Nat
         /\ Len(pendingRows) \in Nat /\ Len(putArea) \in Nat
         /\ Len(file) \in Nat
         /\ \A i \in 1 .. Len(pendingRows) : pendingRows[i] \in Row
         /\ \A i \in 1 .. Len(putArea) : putArea[i] \in Row
         /\ \A i \in 1 .. Len(file) : file[i] \in Row
         /\ \A s \in Seq(Row) : Len(s) = 0 => s = <<>>
BY LoggerBounds, LenProperties, ElementOfSeq, EmptySeq DEF LoggerTypeOK

(* A logger that was not made yet has nothing anywhere.                    *)
LEMMA LoggerInitEstablishes == LoggerInit => LoggerInv
<1> SUFFICES ASSUME LoggerInit PROVE LoggerInv
  OBVIOUS
<1>1. /\ lifecycle = "new" /\ rowCount = 0 /\ insertIdx = 1 /\ shortRows = 0
      /\ pendingRows = <<>> /\ putArea = <<>> /\ file = <<>>
      /\ ~streamBad /\ ~flushing /\ ~closing
  BY DEF LoggerInit
<1>2. {streamBad, flushing, closing} \subseteq BOOLEAN
  BY DEF LoggerInit
<1>3. /\ rowCount \in 0 .. MaxRows /\ shortRows \in 0 .. MaxRows
      /\ insertIdx \in 1 .. MaxRows + 1
      /\ pendingRows \in Seq(Row) /\ putArea \in Seq(Row) /\ file \in Seq(Row)
  BY <1>1, LoggerBounds
<1>4. LoggerTypeOK
  BY <1>1, <1>2, <1>3 DEF LoggerTypeOK
<1>5. LifeInv /\ PendingInv /\ BadInv
  BY <1>1 DEF LifeInv, PendingInv, BadInv
<1>6. GoodInv
  <2>1. Len(file) = 0 /\ Len(putArea) = 0 /\ Len(pendingRows) = 0
    BY <1>1
  <2>2. ~Ready /\ ~flushing /\ rowCount = 0
    BY <1>1 DEF Ready
  <2>3. Inserted = 0 /\ rowCount - Len(file) = 0
    BY <2>1, <2>2 DEF Inserted
  <2> QED
    BY <1>1, <2>1, <2>2, <2>3, LoggerBounds DEF GoodInv
<1> QED
  BY <1>4, <1>5, <1>6 DEF LoggerInv

(* create, whatever its outcome.                                           *)
LEMMA CreateKeeps ==
  ASSUME LoggerInv, Create \/ CreateFails
  PROVE  LoggerInv'
<1> USE LoggerBounds DEF LoggerInv, Create, CreateFails, streamVars, flushVars
<1>1. LoggerTypeOK'
  BY DEF LoggerTypeOK
<1>2. ~flushing /\ ~closing /\ ~streamBad
  BY DEF LifeInv
<1>3. LifeInv' /\ PendingInv' /\ BadInv'
  BY <1>2 DEF LifeInv, PendingInv, BadInv
<1>4. GoodInv'
  BY <1>2 DEF GoodInv, LifeInv, Inserted, Ready, LoggerTypeOK
<1> QED
  BY <1>1, <1>3, <1>4

(* logTargetExit and the destructor only begin a flush.                    *)
LEMMA CallFlushKeeps ==
  ASSUME LoggerInv, LogTargetExit \/ Destroy
  PROVE  LoggerInv'
<1> USE LoggerBounds DEF LoggerInv, LogTargetExit, Destroy, CallFlush, Ready,
          streamVars
<1>1. {streamBad', flushing', closing'} \subseteq BOOLEAN
  BY DEF LoggerTypeOK
<1>2. insertIdx' \in 1 .. MaxRows + 1
  OBVIOUS
<1>3. LoggerTypeOK'
  BY <1>1, <1>2 DEF LoggerTypeOK
<1>4. LifeInv' /\ PendingInv'
  BY Areas DEF LifeInv, PendingInv
<1>5. BadInv'
  BY DEF BadInv, ShortWriteAfter
<1>6. GoodInv'
  BY Areas DEF GoodInv, Inserted, LifeInv
<1> QED
  BY <1>3, <1>4, <1>5, <1>6

(* A sample is handed to the logger.                                       *)
LEMMA LogSampleKeeps ==
  ASSUME LoggerInv, LogSample
  PROVE  LoggerInv'
<1> USE LoggerBounds DEF LoggerInv, LogSample, TakeRow, Ready, streamVars
<1>1. {streamBad', flushing', closing'} \subseteq BOOLEAN
  BY DEF LoggerTypeOK, Due
<1>2. rowCount + 1 \in Row /\ pendingRows \in Seq(Row)
  BY Areas DEF Row, LoggerTypeOK
<1>3. /\ pendingRows' \in Seq(Row)
      /\ Len(pendingRows') = Len(pendingRows) + 1
      /\ \A i \in 1 .. Len(pendingRows) : pendingRows'[i] = pendingRows[i]
      /\ pendingRows'[Len(pendingRows) + 1] = rowCount + 1
  BY <1>2, AppendProperties
<1>4. rowCount' \in 0 .. MaxRows /\ insertIdx' \in 1 .. MaxRows + 1
  BY Areas
<1>5. LoggerTypeOK'
  BY <1>1, <1>3, <1>4 DEF LoggerTypeOK
<1>6. PendingInv'
  BY <1>3, Areas DEF PendingInv
<1>7. LifeInv'
  BY <1>3, Areas DEF LifeInv
<1>8. BadInv'
  <2> SUFFICES ASSUME streamBad'
               PROVE  \E g \in 0 .. rowCount' : ShortWriteAfter(g)'
    BY DEF BadInv
  <2>1. PICK g \in 0 .. rowCount : ShortWriteAfter(g)
    BY DEF BadInv
  <2>2. ShortWriteAfter(g)'
    BY <2>1, Areas DEF ShortWriteAfter
  <2> QED
    BY <2>2, Areas
<1>9. GoodInv'
  <2> SUFFICES ASSUME ~streamBad' PROVE GoodInv'
    BY DEF GoodInv
  <2>1. flushing' \/ Len(pendingRows') < FlushSampleCount
    <3>1. CASE Due
      BY <3>1
    <3>2. CASE ~Due
      BY <1>3, <3>2, Areas DEF Due
    <3> QED
      BY <3>1, <3>2
  <2> QED
    BY <1>3, <2>1, Areas DEF GoodInv, Inserted, LifeInv
<1> QED
  BY <1>5, <1>6, <1>7, <1>8, <1>9
(* The file only ever grows at its end.                                    *)
FileGrows ==
  /\ Len(file) <= Len(file')
  /\ \A i \in 1 .. Len(file) : file'[i] = file[i]

StreamTypes ==
  /\ putArea \in Seq(Row) /\ file \in Seq(Row) /\ shortRows \in 0 .. MaxRows

(* What a whole write does to the file.                                    *)
LEMMA WriteOutEffect ==
  ASSUME LoggerTypeOK, NEW rows \in Seq(Row), WriteOut(rows)
  PROVE  /\ file' \in Seq(Row) /\ putArea' \in Seq(Row)
         /\ Len(putArea') = 0
         /\ Len(rows) \in Nat
         /\ Len(file') = Len(file) + Len(putArea) + Len(rows)
         /\ FileGrows
         /\ \A i \in 1 .. Len(file') : i > Len(file) =>
              file'[i] = IF i <= Len(file) + Len(putArea)
                           THEN putArea[i - Len(file)]
                           ELSE rows[i - (Len(file) + Len(putArea))]
<1> DEFINE both == file \o putArea
<1>1. file \in Seq(Row) /\ putArea \in Seq(Row)
  BY DEF LoggerTypeOK
<1>2. /\ Len(file) \in Nat /\ Len(putArea) \in Nat /\ Len(rows) \in Nat
  BY <1>1, LenProperties
<1>3. /\ both \in Seq(Row)
      /\ Len(both) = Len(file) + Len(putArea)
      /\ \A i \in 1 .. Len(file) + Len(putArea) :
           both[i] = IF i <= Len(file) THEN file[i] ELSE putArea[i - Len(file)]
  BY <1>1, ConcatProperties
<1> HIDE DEF both
<1>4. /\ both \o rows \in Seq(Row)
      /\ Len(both \o rows) = Len(both) + Len(rows)
      /\ \A i \in 1 .. Len(both) + Len(rows) :
           (both \o rows)[i] = IF i <= Len(both) THEN both[i]
                                                 ELSE rows[i - Len(both)]
  <2>1. both \in Seq(Row)
    BY <1>3
  <2> QED
    BY <2>1, ConcatProperties
<1>5. file' = both \o rows
  BY DEF WriteOut, both
<1>6. putArea' \in Seq(Row) /\ Len(putArea') = 0
  BY EmptySeq DEF WriteOut
<1> QED
  BY <1>2, <1>3, <1>4, <1>5, <1>6 DEF FileGrows

(* ... and when nothing follows the put area.                              *)
LEMMA WriteOutAll ==
  ASSUME LoggerTypeOK, WriteOut(<<>>)
  PROVE  /\ file' \in Seq(Row) /\ putArea' \in Seq(Row)
         /\ Len(putArea') = 0
         /\ Len(file') = Len(file) + Len(putArea)
         /\ FileGrows
         /\ \A i \in 1 .. Len(file') :
              i > Len(file) => file'[i] = putArea[i - Len(file)]
<1>1. PICK none \in Seq(Row) : none = <<>>
  BY EmptySeq
<1>2. WriteOut(none) /\ Len(none) = 0
  BY <1>1, EmptySeq
<1>3. /\ file' \in Seq(Row) /\ putArea' \in Seq(Row)
      /\ Len(putArea') = 0
      /\ Len(file') = Len(file) + Len(putArea) + Len(none)
      /\ FileGrows
      /\ \A i \in 1 .. Len(file') : i > Len(file) =>
           file'[i] = IF i <= Len(file) + Len(putArea)
                        THEN putArea[i - Len(file)]
                        ELSE none[i - (Len(file) + Len(putArea))]
  BY <1>2, WriteOutEffect
<1> QED
  BY <1>2, <1>3, Areas

(* A write that fails leaves the logger where BadInv says.                 *)
LEMMA WriteShortEffect ==
  ASSUME LoggerTypeOK, GoodInv, ~streamBad, rowCount' = rowCount,
         Len(file) + Len(putArea) <= rowCount,
         NEW k \in 0 .. Len(putArea), WriteShort(k)
  PROVE  StreamTypes' /\ streamBad' /\ FileGrows /\ BadInv'
<1> DEFINE part == SubSeq(putArea, 1, k)
<1>1. file \in Seq(Row) /\ putArea \in Seq(Row)
  BY DEF LoggerTypeOK
<1>2. /\ Len(file) \in Nat /\ Len(putArea) \in Nat /\ k \in Nat
      /\ k <= Len(putArea)
      /\ rowCount \in Nat /\ rowCount <= MaxRows
  BY Areas
<1>3. /\ part \in Seq(Row) /\ Len(part) = k
      /\ \A i \in 1 .. k : part[i] = putArea[i]
  <2>1. \A i \in 1 .. k : putArea[i] \in Row
    BY <1>2, Areas
  <2> QED
    BY <1>2, <2>1, SubSeqProperties
<1> HIDE DEF part
<1>4. /\ file \o part \in Seq(Row)
      /\ Len(file \o part) = Len(file) + k
      /\ \A i \in 1 .. Len(file) + k :
           (file \o part)[i] = IF i <= Len(file) THEN file[i]
                                                 ELSE part[i - Len(file)]
  BY <1>1, <1>3, ConcatProperties
<1>5. /\ file' = file \o part /\ putArea' = putArea /\ shortRows' = k
      /\ streamBad'
  BY DEF WriteShort, part
<1>6. StreamTypes'
  BY <1>1, <1>2, <1>4, <1>5, LoggerBounds DEF StreamTypes
<1>7. FileGrows
  BY <1>2, <1>4, <1>5 DEF FileGrows
<1>8. PICK g \in 0 .. rowCount' : g = Len(file)
  BY <1>2
<1>9. ShortWriteAfter(g)'
  <2>1. /\ \A i \in 1 .. g : file[i] = i
        /\ \A i \in 1 .. Len(putArea) : putArea[i] = g + i
    BY <1>8 DEF GoodInv
  <2>2. Len(file') = g + k
    BY <1>4, <1>5, <1>8
  <2>3. ASSUME NEW i \in 1 .. Len(file') PROVE file'[i] = i
    <3>1. CASE i <= g
      BY <1>2, <1>4, <1>5, <1>8, <2>1, <2>2, <3>1
    <3>2. CASE i > g
      <4>1. i - g \in 1 .. k /\ i \in 1 .. g + k
        BY <1>2, <1>8, <2>2, <3>2
      <4>2. file'[i] = part[i - g]
        BY <1>2, <1>4, <1>5, <1>8, <3>2, <4>1
      <4>3. part[i - g] = g + (i - g)
        BY <1>2, <1>3, <2>1, <4>1
      <4> QED
        BY <1>2, <1>8, <4>1, <4>2, <4>3
    <3> QED
      BY <1>2, <1>8, <2>2, <3>1, <3>2
  <2> QED
    BY <1>2, <1>5, <1>8, <2>1, <2>2, <2>3 DEF ShortWriteAfter
<1> QED
  BY <1>5, <1>6, <1>7, <1>8, <1>9 DEF BadInv

(* A failed stream that is synchronised again stays where BadInv says.     *)
LEMMA WriteAgainEffect ==
  ASSUME LoggerTypeOK, BadInv, streamBad, WriteAgain,
         UNCHANGED <<rowCount, streamBad, shortRows>>
  PROVE  StreamTypes' /\ FileGrows /\ BadInv'
<1>1. /\ file \in Seq(Row) /\ putArea \in Seq(Row)
      /\ shortRows \in 0 .. MaxRows
  BY DEF LoggerTypeOK
<1>2. CASE UNCHANGED <<putArea, file>>
  BY <1>1, <1>2, Areas DEF StreamTypes, FileGrows, BadInv, ShortWriteAfter
<1>3. CASE WriteOut(<<>>)
  <2>1. /\ file' \in Seq(Row) /\ putArea' \in Seq(Row)
        /\ Len(putArea') = 0
        /\ Len(file') = Len(file) + Len(putArea)
        /\ FileGrows
        /\ \A i \in 1 .. Len(file') :
             i > Len(file) => file'[i] = putArea[i - Len(file)]
    BY <1>3, WriteOutAll
  <2>2. StreamTypes'
    BY <1>1, <2>1 DEF StreamTypes
  <2>3. PICK g \in 0 .. rowCount : ShortWriteAfter(g)
    BY DEF BadInv
  <2>4. /\ g \in Nat /\ shortRows \in Nat /\ rowCount \in Nat
        /\ Len(file) \in Nat /\ Len(putArea) \in Nat
    BY <2>3, Areas
  <2>5. CASE Len(putArea) = 0
    <3>1. Len(file') = Len(file) /\ putArea' = <<>>
      BY <2>1, <2>4, <2>5, <1>3 DEF WriteOut
    <3>2. \A i \in 1 .. Len(file) : file'[i] = file[i]
      BY <2>1 DEF FileGrows
    <3>3. ShortWriteAfter(g)'
      BY <2>1, <2>3, <2>4, <2>5, <3>1, <3>2 DEF ShortWriteAfter
    <3> QED
      BY <2>1, <2>2, <2>3, <3>3 DEF BadInv
  <2>6. CASE Len(putArea) > 0
    <3>1. Len(file) = g + shortRows /\ shortRows <= Len(putArea)
      BY <2>3, <2>6, EmptySeq DEF ShortWriteAfter
    <3>2. ASSUME NEW i \in 1 .. Len(file')
          PROVE  file'[i] = IF i <= g + shortRows THEN i ELSE i - shortRows
      <4>1. CASE i <= Len(file)
        BY <2>1, <2>3, <2>4, <3>1, <4>1 DEF FileGrows, ShortWriteAfter
      <4>2. CASE i > Len(file)
        <5>1. i - Len(file) \in 1 .. Len(putArea)
          BY <2>1, <2>4, <4>2
        <5>2. file'[i] = g + (i - Len(file))
          BY <2>1, <2>3, <2>4, <4>2, <5>1 DEF ShortWriteAfter
        <5> QED
          BY <2>4, <3>1, <4>2, <5>2
      <4> QED
        BY <2>1, <2>4, <4>1, <4>2
    <3>3. g + Len(putArea) <= rowCount
      BY <2>3 DEF ShortWriteAfter
    <3>4. putArea' = <<>>
      BY <1>3 DEF WriteOut
    <3>5. ShortWriteAfter(g)'
      BY <2>1, <2>3, <2>4, <3>1, <3>2, <3>3, <3>4 DEF ShortWriteAfter
    <3> QED
      BY <2>1, <2>2, <2>3, <3>5 DEF BadInv
  <2> QED
    BY <2>4, <2>5, <2>6
<1> QED
  BY <1>2, <1>3 DEF WriteAgain

(* flushPendingRows inserts one row.                                       *)
LEMMA InsertRowKeeps ==
  ASSUME LoggerInv, InsertRow
  PROVE  LoggerInv' /\ FileGrows
<1> USE LoggerBounds DEF LoggerInv
<1> DEFINE row == pendingRows[insertIdx]
<1>1. /\ rowCount \in Nat /\ rowCount <= MaxRows /\ insertIdx \in Nat
      /\ Len(pendingRows) \in Nat /\ Len(putArea) \in Nat /\ Len(file) \in Nat
      /\ insertIdx >= 1
  BY Areas DEF LoggerTypeOK
<1>2. /\ flushing /\ flushing' /\ lifecycle = "open" /\ lifecycle' = "open"
      /\ UNCHANGED <<rowCount, pendingRows, closing>>
      /\ insertIdx' = insertIdx + 1 /\ insertIdx <= Len(pendingRows)
      /\ Len(pendingRows) <= rowCount
  BY DEF InsertRow, LifeInv, PendingInv
<1>3. /\ row \in Row /\ row \in Nat
      /\ row = rowCount - Len(pendingRows) + insertIdx
  <2>1. insertIdx \in 1 .. Len(pendingRows)
    BY <1>1, <1>2
  <2>2. row = rowCount - Len(pendingRows) + insertIdx
    BY <2>1 DEF PendingInv
  <2> QED
    BY <1>1, <1>2, <2>1, <2>2, Areas
<1>4. LifeInv' /\ PendingInv'
  BY <1>1, <1>2 DEF LifeInv, PendingInv
<1> HIDE DEF row
<1>5. ~streamBad => Len(file) + Len(putArea) = row - 1
  BY <1>1, <1>2, <1>3 DEF GoodInv, Inserted
<1>6. Inserted' = row
  BY <1>1, <1>2, <1>3 DEF Inserted
<1>7. ~streamBad => /\ \A i \in 1 .. Len(file) : file[i] = i
                    /\ \A i \in 1 .. Len(putArea) : putArea[i] = Len(file) + i
                    /\ shortRows = 0
                    /\ rowCount - Len(file) <= FlushSampleCount
  BY DEF GoodInv
<1>8. /\ StreamTypes' /\ streamBad' \in BOOLEAN
      /\ FileGrows /\ GoodInv' /\ BadInv'
  <2>1. CASE /\ ~streamBad
             /\ putArea' = Append(putArea, row)
             /\ UNCHANGED <<file, streamBad, shortRows>>
    <3>1. putArea \in Seq(Row)
      BY DEF LoggerTypeOK
    <3>2. /\ putArea' \in Seq(Row) /\ Len(putArea') = Len(putArea) + 1
          /\ \A i \in 1 .. Len(putArea) : putArea'[i] = putArea[i]
          /\ putArea'[Len(putArea) + 1] = row
      BY <1>3, <2>1, <3>1, AppendProperties
    <3>3. StreamTypes' /\ FileGrows
      BY <1>1, <2>1, <3>2 DEF StreamTypes, FileGrows, LoggerTypeOK
    <3>4. \A i \in 1 .. Len(putArea') : putArea'[i] = Len(file') + i
      <4>1. ASSUME NEW i \in 1 .. Len(putArea) + 1
            PROVE  putArea'[i] = Len(file) + i
        <5>1. CASE i \in 1 .. Len(putArea)
          BY <1>7, <2>1, <3>2, <5>1
        <5>2. CASE i = Len(putArea) + 1
          BY <1>1, <1>3, <1>5, <2>1, <3>2, <5>2
        <5> QED
          BY <1>1, <5>1, <5>2
      <4> QED
        BY <2>1, <3>2, <4>1
    <3>5. Len(file') + Len(putArea') = Inserted'
      BY <1>1, <1>3, <1>5, <1>6, <2>1, <3>2
    <3>6. GoodInv'
      BY <1>1, <1>2, <2>1, <3>4, <3>5 DEF GoodInv, Ready
    <3>7. streamBad' \in BOOLEAN /\ BadInv'
      BY <2>1 DEF BadInv, LoggerTypeOK
    <3> QED
      BY <3>3, <3>6, <3>7
  <2>2. CASE /\ ~streamBad
             /\ WriteOut(<<row>>)
             /\ UNCHANGED <<streamBad, shortRows>>
    <3>1. PICK rows \in Seq(Row) : /\ rows = <<row>> /\ Len(rows) = 1
                                   /\ rows[1] = row
      <4>1. <<row>> \in Seq(Row) /\ Len(<<row>>) = 1 /\ <<row>>[1] = row
        BY <1>3
      <4> QED
        BY <4>1
    <3>2. WriteOut(rows)
      BY <2>2, <3>1
    <3>3. /\ file' \in Seq(Row) /\ putArea' \in Seq(Row)
          /\ Len(putArea') = 0
          /\ Len(file') = Len(file) + Len(putArea) + Len(rows)
          /\ FileGrows
          /\ \A i \in 1 .. Len(file') : i > Len(file) =>
               file'[i] = IF i <= Len(file) + Len(putArea)
                            THEN putArea[i - Len(file)]
                            ELSE rows[i - (Len(file) + Len(putArea))]
      BY <3>2, WriteOutEffect
    <3>4. StreamTypes'
      BY <2>2, <3>3 DEF StreamTypes, LoggerTypeOK
    <3>5. Len(file') = row /\ row <= rowCount
      BY <1>1, <1>2, <1>3, <1>5, <2>2, <3>1, <3>3
    <3>6. ASSUME NEW i \in 1 .. Len(file') PROVE file'[i] = i
      <4>1. CASE i <= Len(file)
        BY <1>1, <1>7, <2>2, <3>3, <4>1 DEF FileGrows
      <4>2. CASE i > Len(file) /\ i <= Len(file) + Len(putArea)
        <5>1. i - Len(file) \in 1 .. Len(putArea)
          BY <1>1, <3>3, <3>5, <4>2
        <5>2. file'[i] = putArea[i - Len(file)]
          BY <3>3, <4>2
        <5>3. putArea[i - Len(file)] = Len(file) + (i - Len(file))
          BY <1>7, <2>2, <5>1
        <5> QED
          BY <1>1, <5>2, <5>3
      <4>3. CASE i > Len(file) + Len(putArea)
        <5>1. i = row /\ i - (Len(file) + Len(putArea)) = 1
          BY <1>1, <1>3, <1>5, <2>2, <3>5, <4>3
        <5> QED
          BY <1>1, <3>1, <3>3, <4>3, <5>1
      <4> QED
        BY <1>1, <4>1, <4>2, <4>3
    <3>7. Len(file') + Len(putArea') = Inserted'
      BY <1>3, <1>6, <3>3, <3>5
    <3>8. GoodInv'
      BY <1>1, <1>2, <1>3, <2>2, <3>3, <3>5, <3>6, <3>7 DEF GoodInv, Ready
    <3>9. streamBad' \in BOOLEAN /\ BadInv'
      BY <2>2 DEF BadInv, LoggerTypeOK
    <3> QED
      BY <3>3, <3>4, <3>8, <3>9
  <2>3. CASE ~streamBad /\ \E k \in 0 .. Len(putArea) : WriteShort(k)
    <3>1. Len(file) + Len(putArea) <= rowCount
      BY <1>1, <1>2, <1>3, <1>5, <2>3
    <3>2. StreamTypes' /\ streamBad' /\ FileGrows /\ BadInv'
      BY <1>2, <2>3, <3>1, WriteShortEffect
    <3>3. streamBad' \in BOOLEAN
      BY <2>3 DEF WriteShort
    <3> QED
      BY <3>2, <3>3 DEF GoodInv
  <2>4. CASE streamBad /\ UNCHANGED streamVars
    <3>1. streamBad' \in BOOLEAN /\ GoodInv' /\ StreamTypes'
      BY <2>4 DEF GoodInv, LoggerTypeOK, StreamTypes, streamVars
    <3>2. FileGrows /\ BadInv'
      BY <1>1, <1>2, <2>4 DEF FileGrows, BadInv, ShortWriteAfter, streamVars
    <3> QED
      BY <3>1, <3>2
  <2> QED
    BY <2>1, <2>2, <2>3, <2>4 DEF InsertRow, row
<1>9. flushing' \in BOOLEAN /\ closing' \in BOOLEAN
  BY <1>2 DEF LoggerTypeOK
<1>10. insertIdx' \in 1 .. MaxRows + 1
  BY <1>1, <1>2
<1>11. LoggerTypeOK'
  BY <1>2, <1>8, <1>9, <1>10 DEF LoggerTypeOK, StreamTypes
<1> QED
  BY <1>4, <1>8, <1>11

(* A file of as many rows as were logged, in order, holds the logged rows. *)
LEMMA AllLogged ==
  ASSUME NEW f \in Seq(Row), rowCount \in Nat, Len(f) = rowCount,
         \A i \in 1 .. Len(f) : f[i] = i
  PROVE  f = LoggedRows
BY LenProperties DEF LoggedRows

(* flush() on a good stream that stays good: everything that was logged is *)
(* in the file.                                                            *)
LEMMA GoodFlushEffect ==
  ASSUME LoggerInv, flushing, insertIdx > Len(pendingRows), ~streamBad,
         WriteOut(<<>>)
  PROVE  /\ file' \in Seq(Row) /\ Len(file') = rowCount
         /\ \A i \in 1 .. Len(file') : file'[i] = i
         /\ file' = LoggedRows
<1> USE DEF LoggerInv
<1>1. /\ rowCount \in Nat /\ insertIdx \in Nat /\ Len(pendingRows) \in Nat
      /\ Len(putArea) \in Nat /\ Len(file) \in Nat
  BY Areas
<1>2. Len(file) + Len(putArea) = rowCount
  BY <1>1 DEF GoodInv, Inserted, LifeInv
<1>3. /\ file' \in Seq(Row)
      /\ Len(file') = Len(file) + Len(putArea)
      /\ FileGrows
      /\ \A i \in 1 .. Len(file') :
           i > Len(file) => file'[i] = putArea[i - Len(file)]
  BY WriteOutAll
<1>4. ASSUME NEW i \in 1 .. Len(file') PROVE file'[i] = i
  <2>1. CASE i <= Len(file)
    <3>1. i \in 1 .. Len(file)
      BY <1>1, <2>1
    <3> QED
      BY <1>3, <3>1 DEF FileGrows, GoodInv
  <2>2. CASE i > Len(file)
    <3>1. i - Len(file) \in 1 .. Len(putArea)
      BY <1>1, <1>3, <2>2
    <3>2. file'[i] = putArea[i - Len(file)]
      BY <1>3, <2>2
    <3>3. putArea[i - Len(file)] = Len(file) + (i - Len(file))
      BY <3>1 DEF GoodInv
    <3> QED
      BY <1>1, <3>2, <3>3
  <2> QED
    BY <1>1, <1>3, <2>1, <2>2
<1> QED
  BY <1>1, <1>2, <1>3, <1>4, AllLogged

(* The end of flushPendingRows.                                            *)
LEMMA FlushKeeps ==
  ASSUME LoggerInv, Flush
  PROVE  LoggerInv' /\ FileGrows
<1> USE LoggerBounds DEF LoggerInv
<1>1. /\ rowCount \in Nat /\ rowCount <= MaxRows /\ Len(pendingRows) \in Nat
      /\ Len(putArea) \in Nat /\ Len(file) \in Nat /\ insertIdx \in Nat
  BY Areas
<1>2. /\ flushing /\ ~flushing' /\ lifecycle = "open" /\ lifecycle' = "open"
      /\ UNCHANGED <<rowCount, closing>> /\ insertIdx > Len(pendingRows)
      /\ insertIdx' = 1 /\ FlushSampleCount > 0
      /\ pendingRows' = IF streamBad' THEN pendingRows ELSE <<>>
      /\ insertIdx <= Len(pendingRows) + 1
  BY DEF Flush, FlushKeeping, LifeInv
<1>3. LifeInv'
  BY <1>2 DEF LifeInv
<1>4. PendingInv'
  <2>1. CASE pendingRows' = pendingRows
    BY <1>2, <2>1 DEF PendingInv
  <2>2. CASE pendingRows' = <<>>
    <3>1. Len(pendingRows') = 0
      BY <2>2
    <3>2. rowCount' \in Nat
      BY <1>1, <1>2
    <3> QED
      BY <3>1, <3>2 DEF PendingInv
  <2> QED
    BY <1>2, <2>1, <2>2
<1>5. /\ StreamTypes' /\ streamBad' \in BOOLEAN
      /\ FileGrows /\ GoodInv' /\ BadInv'
  <2>1. CASE /\ ~streamBad
             /\ WriteOut(<<>>)
             /\ UNCHANGED <<streamBad, shortRows>>
    <3>1. /\ file' \in Seq(Row) /\ Len(file') = rowCount
          /\ \A i \in 1 .. Len(file') : file'[i] = i
      BY <1>2, <2>1, GoodFlushEffect
    <3>2. /\ putArea' \in Seq(Row) /\ Len(putArea') = 0 /\ FileGrows
          /\ putArea' = <<>>
      BY <2>1, WriteOutAll DEF WriteOut
    <3>3. StreamTypes' /\ streamBad' \in BOOLEAN /\ BadInv'
      BY <2>1, <3>1, <3>2 DEF StreamTypes, BadInv, LoggerTypeOK
    <3>4. pendingRows' = <<>> /\ Len(pendingRows') = 0
      BY <1>2, <2>1
    <3>5. shortRows' = 0
      BY <2>1 DEF GoodInv
    <3>6. Inserted' = rowCount
      BY <1>1, <1>2, <3>4 DEF Inserted
    <3>7. GoodInv'
      BY <1>1, <1>2, <3>1, <3>2, <3>4, <3>5, <3>6 DEF GoodInv, Ready
    <3> QED
      BY <3>2, <3>3, <3>7
  <2>2. CASE ~streamBad /\ \E k \in 0 .. Len(putArea) : WriteShort(k)
    <3>1. Len(file) + Len(putArea) <= rowCount
      BY <1>1, <1>2, <2>2 DEF GoodInv, Inserted
    <3>2. StreamTypes' /\ streamBad' /\ FileGrows /\ BadInv'
      BY <1>2, <2>2, <3>1, WriteShortEffect
    <3>3. streamBad' \in BOOLEAN
      BY <2>2 DEF WriteShort
    <3> QED
      BY <3>2, <3>3 DEF GoodInv
  <2>3. CASE /\ streamBad
             /\ WriteAgain
             /\ UNCHANGED <<streamBad, shortRows>>
    <3>1. StreamTypes' /\ FileGrows /\ BadInv'
      BY <1>2, <2>3, WriteAgainEffect
    <3>2. streamBad' \in BOOLEAN /\ GoodInv'
      BY <2>3 DEF LoggerTypeOK, GoodInv
    <3> QED
      BY <3>1, <3>2
  <2> QED
    BY <2>1, <2>2, <2>3 DEF Flush, FlushKeeping
<1>6. flushing' \in BOOLEAN /\ closing' \in BOOLEAN
  BY DEF LoggerTypeOK, Flush, FlushKeeping
<1>7. pendingRows' \in Seq(Row)
  BY <1>2, EmptySeq DEF LoggerTypeOK
<1>8. LoggerTypeOK'
  BY <1>1, <1>2, <1>5, <1>6, <1>7 DEF LoggerTypeOK, StreamTypes
<1> QED
  BY <1>3, <1>4, <1>5, <1>8

(* The stream is destroyed.                                                *)
LEMMA CloseKeeps ==
  ASSUME LoggerInv, Close
  PROVE  LoggerInv' /\ FileGrows
<1> USE LoggerBounds DEF LoggerInv
<1>1. /\ lifecycle = "open" /\ lifecycle' = "closed" /\ closing /\ ~flushing
      /\ closing' = closing /\ flushing' = flushing /\ insertIdx' = insertIdx
      /\ UNCHANGED <<rowCount, pendingRows, streamBad, shortRows>>
  BY DEF Close, flushVars
<1>2. LifeInv' /\ PendingInv'
  BY <1>1 DEF LifeInv, PendingInv
<1>3. StreamTypes' /\ FileGrows /\ GoodInv' /\ BadInv'
  <2>1. CASE streamBad /\ WriteAgain
    <3>1. StreamTypes' /\ FileGrows /\ BadInv'
      BY <1>1, <2>1, WriteAgainEffect
    <3> QED
      BY <1>1, <2>1, <3>1 DEF GoodInv
  <2>2. CASE ~streamBad /\ UNCHANGED <<putArea, file>>
    <3>1. StreamTypes' /\ BadInv' /\ FileGrows
      BY <1>1, <2>2, Areas
         DEF StreamTypes, LoggerTypeOK, BadInv, FileGrows
    <3>2. Inserted' = Inserted
      BY <1>1 DEF Inserted
    <3>3. GoodInv'
      BY <1>1, <2>2, <3>2 DEF GoodInv, Ready
    <3> QED
      BY <3>1, <3>3
  <2> QED
    BY <2>1, <2>2 DEF Close
<1>4. LoggerTypeOK'
  BY <1>1, <1>3 DEF LoggerTypeOK, StreamTypes
<1> QED
  BY <1>2, <1>3, <1>4

(* The process is killed: both memory areas are gone.                      *)
LEMMA KillKeeps ==
  ASSUME LoggerInv, Kill
  PROVE  LoggerInv'
<1> USE LoggerBounds DEF LoggerInv
<1>1. /\ lifecycle' = "killed" /\ pendingRows' = <<>> /\ putArea' = <<>>
      /\ ~flushing' /\ insertIdx' = 1
      /\ UNCHANGED <<rowCount, file, streamBad, shortRows>>
      /\ closing' = closing
  BY DEF Kill
<1>2. Len(pendingRows') = 0 /\ Len(putArea') = 0
  BY <1>1
<1>3. flushing' \in BOOLEAN
  BY DEF Kill
<1>4. LoggerTypeOK'
  BY <1>1, <1>3, EmptySeq DEF LoggerTypeOK
<1>5. PendingInv'
  BY <1>1, <1>2, Areas DEF PendingInv
<1>6. LifeInv'
  BY <1>1 DEF LifeInv
<1>7. GoodInv'
  BY <1>1, <1>2 DEF GoodInv, Ready
<1>8. BadInv'
  BY <1>1, <1>2, Areas DEF BadInv, ShortWriteAfter
<1> QED
  BY <1>4, <1>5, <1>6, <1>7, <1>8

(* What a step leaves unchanged is unchanged.                              *)
LEMMA LoggerStutterKeeps ==
  ASSUME LoggerInv, UNCHANGED loggerVars
  PROVE  LoggerInv'
BY DEF LoggerInv, LoggerTypeOK, LifeInv, PendingInv, GoodInv, BadInv,
     ShortWriteAfter, Inserted, Ready, loggerVars, streamVars, flushVars

(* The invariant is inductive, whoever calls the logger.                   *)
LEMMA LoggerStepKeeps ==
  ASSUME LoggerInv, [LoggerNext]_loggerVars
  PROVE  LoggerInv'
<1>1. CASE Create \/ CreateFails
  BY <1>1, CreateKeeps
<1>2. CASE LogSample
  BY <1>2, LogSampleKeeps
<1>3. CASE LogTargetExit \/ Destroy
  BY <1>3, CallFlushKeeps
<1>4. CASE InsertRow
  BY <1>4, InsertRowKeeps
<1>5. CASE Flush
  BY <1>5, FlushKeeps
<1>6. CASE Close
  BY <1>6, CloseKeeps
<1>7. CASE Kill
  BY <1>7, KillKeeps
<1>8. CASE Gone \/ UNCHANGED loggerVars
  BY <1>8, LoggerStutterKeeps DEF Gone
<1> QED
  BY <1>1, <1>2, <1>3, <1>4, <1>5, <1>6, <1>7, <1>8
     DEF LoggerNext, Call, Step

(* Through early and short writes, retries and kills, every logged row is  *)
(* where LoggerInv says.                                                   *)
THEOREM LoggerInvariant == LoggerSpec => []LoggerInv
<1>1. LoggerInit => LoggerInv
  BY LoggerInitEstablishes
<1>2. LoggerInv /\ [LoggerNext]_loggerVars => LoggerInv'
  BY LoggerStepKeeps
<1> QED
  BY <1>1, <1>2, PTL DEF LoggerSpec

(* The logger's variables keep their types; so the loop of                 *)
(* flushPendingRows stays within the pending rows.                         *)
THEOREM LoggerTypesOK == LoggerSpec => []LoggerTypeOK
<1>1. LoggerInv => LoggerTypeOK
  BY DEF LoggerInv
<1> QED
  BY <1>1, LoggerInvariant, PTL

(* What the flush threshold bounds.                                        *)
LEMMA LossIsBounded == LoggerInv => LossBounded
<1> SUFFICES ASSUME LoggerInv, ~streamBad PROVE
       /\ rowCount - Len(file) <= FlushSampleCount
       /\ Ready => rowCount - Len(file) < FlushSampleCount
       /\ lifecycle = "closed" => Len(file) = rowCount
  BY DEF LossBounded
<1> USE DEF LoggerInv
<1>1. /\ rowCount \in Nat /\ Len(pendingRows) \in Nat
      /\ Len(putArea) \in Nat /\ Len(file) \in Nat
  BY Areas
<1>2. rowCount - Len(file) <= FlushSampleCount
  BY DEF GoodInv
<1>3. ASSUME Ready PROVE rowCount - Len(file) < FlushSampleCount
  <2>1. ~flushing /\ lifecycle # "killed"
    BY <1>3 DEF Ready
  <2>2. putArea = <<>> /\ Len(file) + Len(putArea) = Inserted
    BY <2>1 DEF GoodInv
  <2>3. Len(putArea) = 0
    BY <2>2
  <2>4. Len(file) = rowCount - Len(pendingRows)
    BY <1>1, <2>1, <2>2, <2>3 DEF Inserted
  <2>5. Len(pendingRows) < FlushSampleCount
    BY <1>3 DEF GoodInv
  <2> QED
    BY <1>1, <2>4, <2>5, LoggerBounds
<1>4. ASSUME lifecycle = "closed" PROVE Len(file) = rowCount
  <2>1. ~flushing /\ lifecycle # "killed"
    BY <1>4 DEF LifeInv
  <2>2. /\ putArea = <<>> /\ pendingRows = <<>>
        /\ Len(file) + Len(putArea) = Inserted
    BY <1>4, <2>1 DEF GoodInv
  <2>3. Len(putArea) = 0 /\ Len(pendingRows) = 0
    BY <2>2
  <2> QED
    BY <1>1, <2>1, <2>2, <2>3 DEF Inserted
<1> QED
  BY <1>2, <1>3, <1>4

(* While the stream is good, a crash loses fewer rows than make up one     *)
(* flush, and at most that many if it strikes during one, and a destructor *)
(* none: for every --csv-flush-samples.                                    *)
THEOREM CrashLosesLessThanAFlush == LoggerSpec => []LossBounded
BY LossIsBounded, LoggerInvariant, PTL

-----------------------------------------------------------------------------
(* The rows that were logged are a sequence of their own numbers.          *)
LEMMA LoggedRowsAreRows ==
  ASSUME LoggerTypeOK
  PROVE  /\ LoggedRows \in Seq(Row) /\ Len(LoggedRows) = rowCount
         /\ \A i \in 1 .. rowCount : LoggedRows[i] = i
<1>1. rowCount \in Nat /\ rowCount <= MaxRows
  BY Areas
<1>2. LoggedRows \in [1 .. rowCount -> Row]
  BY <1>1, LoggerBounds DEF LoggedRows, Row
<1>3. LoggedRows \in Seq(Row)
  BY <1>1, <1>2, SeqDef
<1>4. /\ Len(LoggedRows) \in Nat
      /\ DOMAIN LoggedRows = 1 .. Len(LoggedRows)
  BY <1>3, LenProperties
<1>5. 1 .. Len(LoggedRows) = 1 .. rowCount
  BY <1>2, <1>4
<1>6. ASSUME NEW m \in Nat, NEW n \in Nat, 1 .. m = 1 .. n
      PROVE  m = n
  <2>1. m > 0 => m \in 1 .. n
    BY <1>6
  <2>2. n > 0 => n \in 1 .. m
    BY <1>6
  <2> QED
    BY <2>1, <2>2
<1>7. Len(LoggedRows) = rowCount
  BY <1>1, <1>4, <1>5, <1>6
<1> QED
  BY <1>3, <1>7 DEF LoggedRows

(* A shorter sequence of the same numbers is a prefix of it.               *)
LEMMA PrefixOfLogged ==
  ASSUME LoggerTypeOK, NEW w \in Seq(Row), Len(w) <= rowCount,
         \A i \in 1 .. Len(w) : w[i] = i
  PROVE  IsPrefix(w, LoggedRows)
<1> DEFINE head == SubSeq(LoggedRows, 1, Len(w))
<1>1. Len(w) \in Nat /\ rowCount \in Nat
  BY Areas, LenProperties
<1>2. \A i \in 1 .. Len(w) : LoggedRows[i] \in Row /\ LoggedRows[i] = i
  BY <1>1, LoggedRowsAreRows, ElementOfSeq
<1>3. /\ head \in Seq(Row) /\ Len(head) = Len(w)
      /\ \A i \in 1 .. Len(w) : head[i] = i
  BY <1>1, <1>2, SubSeqProperties
<1> HIDE DEF head
<1>4. head = w
  BY <1>3, SeqEqual
<1>5. SubSeq(w, 1, Len(w)) = w
  BY SubSeqFull
<1> QED
  BY <1>4, <1>5, LoggedRowsAreRows DEF IsPrefix, head

(* A sequence without the k members after the i-th.                        *)
LEMMA WithoutProperties ==
  ASSUME NEW S, NEW s \in Seq(S), NEW i \in Nat, NEW k \in Nat,
         i + k <= Len(s)
  PROVE  /\ Without(s, i, k) \in Seq(S)
         /\ Len(Without(s, i, k)) = Len(s) - k
         /\ \A j \in 1 .. Len(s) - k :
              Without(s, i, k)[j] = IF j <= i THEN s[j] ELSE s[j + k]
<1> DEFINE front == SubSeq(s, 1, i)
           back == SubSeq(s, i + k + 1, Len(s))
<1>1. Len(s) \in Nat /\ \A j \in 1 .. Len(s) : s[j] \in S
  BY LenProperties, ElementOfSeq
<1>2. /\ front \in Seq(S) /\ Len(front) = i
      /\ \A j \in 1 .. i : front[j] = s[j]
  <2>1. \A j \in 1 .. i : s[j] \in S
    BY <1>1
  <2> QED
    BY <2>1, SubSeqProperties
<1>3. /\ back \in Seq(S) /\ Len(back) = Len(s) - i - k
      /\ \A j \in 1 .. Len(s) - i - k : back[j] = s[i + k + j]
  <2>1. i + k + 1 \in Int /\ Len(s) \in Int
    BY <1>1
  <2>2. \A j \in i + k + 1 .. Len(s) : s[j] \in S
    BY <1>1
  <2>3. /\ back \in Seq(S)
        /\ Len(back) = IF i + k + 1 <= Len(s) THEN Len(s) - (i + k + 1) + 1
                                              ELSE 0
        /\ \A j \in 1 .. Len(s) - (i + k + 1) + 1 :
             back[j] = s[(i + k + 1) + j - 1]
    BY <2>1, <2>2, SubSeqProperties
  <2> QED
    BY <1>1, <2>3
<1> HIDE DEF front, back
<1>4. /\ front \o back \in Seq(S)
      /\ Len(front \o back) = Len(front) + Len(back)
      /\ \A j \in 1 .. Len(front) + Len(back) :
           (front \o back)[j] = IF j <= Len(front) THEN front[j]
                                                   ELSE back[j - Len(front)]
  BY <1>2, <1>3, ConcatProperties
<1>5. Without(s, i, k) = front \o back
  BY DEF Without, front, back
<1>6. ASSUME NEW j \in 1 .. Len(s) - k
      PROVE  (front \o back)[j] = IF j <= i THEN s[j] ELSE s[j + k]
  <2>1. CASE j <= i
    BY <1>1, <1>2, <1>3, <1>4, <2>1
  <2>2. CASE j > i
    <3>1. j - i \in 1 .. Len(s) - i - k /\ j \in 1 .. Len(front) + Len(back)
      BY <1>1, <1>2, <1>3, <2>2
    <3>2. (front \o back)[j] = back[j - i]
      BY <1>2, <1>4, <2>2, <3>1
    <3>3. back[j - i] = s[i + k + (j - i)]
      BY <1>3, <3>1
    <3>4. i + k + (j - i) = j + k
      BY <1>1
    <3> QED
      BY <2>2, <3>2, <3>3, <3>4
  <2>3. j <= i \/ j > i
    BY <1>1
  <2> QED
    BY <2>1, <2>2, <2>3
<1>7. Len(front) + Len(back) = Len(s) - k
  BY <1>1, <1>2, <1>3
<1> QED
  BY <1>4, <1>5, <1>6, <1>7

(* The gap of a file is the block that a short write had saved.            *)
LEMMA FileKeepsOrder == LoggerInv => FileIsPrefix
<1> SUFFICES ASSUME LoggerInv PROVE FileIsPrefix
  OBVIOUS
<1> USE DEF LoggerInv
<1>1. /\ file \in Seq(Row) /\ Len(file) \in Nat /\ rowCount \in Nat
      /\ shortRows \in Nat
  BY Areas DEF LoggerTypeOK
<1>2. PICK g \in 0 .. rowCount :
        /\ g + shortRows <= Len(file)
        /\ Len(file) - shortRows <= rowCount
        /\ \A i \in 1 .. Len(file) :
             file[i] = IF i <= g + shortRows THEN i ELSE i - shortRows
  <2>1. CASE streamBad
    <3>1. PICK g \in 0 .. rowCount : ShortWriteAfter(g)
      BY <2>1 DEF BadInv
    <3>2. Len(file) - shortRows <= rowCount
      BY <1>1, <3>1 DEF ShortWriteAfter
    <3> QED
      BY <3>1, <3>2 DEF ShortWriteAfter
  <2>2. CASE ~streamBad
    <3>1. /\ shortRows = 0 /\ Len(file) <= rowCount
          /\ \A i \in 1 .. Len(file) : file[i] = i
      BY <2>2 DEF GoodInv
    <3>2. \A i \in 1 .. Len(file) : i - 0 = i
      BY <1>1
    <3> QED
      BY <1>1, <3>1, <3>2
  <2> QED
    BY <2>1, <2>2
<1> DEFINE kept == Without(file, g, shortRows)
<1>3. /\ kept \in Seq(Row) /\ Len(kept) = Len(file) - shortRows
      /\ \A j \in 1 .. Len(file) - shortRows :
           kept[j] = IF j <= g THEN file[j] ELSE file[j + shortRows]
  BY <1>1, <1>2, WithoutProperties
<1> HIDE DEF kept
<1>4. ASSUME NEW j \in 1 .. Len(kept) PROVE kept[j] = j
  <2>1. CASE j <= g
    BY <1>1, <1>2, <1>3, <2>1
  <2>2. CASE j > g
    <3>1. j + shortRows \in 1 .. Len(file) /\ j + shortRows > g + shortRows
      BY <1>1, <1>2, <1>3, <2>2
    <3>2. file[j + shortRows] = j
      BY <1>1, <1>2, <3>1
    <3> QED
      BY <1>3, <2>2, <3>2
  <2> QED
    BY <1>1, <1>2, <1>3, <2>1, <2>2
<1>5. IsPrefix(kept, LoggedRows)
  BY <1>2, <1>3, <1>4, PrefixOfLogged
<1> QED
  BY <1>1, <1>2, <1>5 DEF FileIsPrefix, kept

(* Whatever fails and is tried again, the file holds the logged rows in    *)
(* order, without a gap and without a row of another place, but for the    *)
(* one block a short write had saved.                                      *)
THEOREM FileIsInOrder == LoggerSpec => []FileIsPrefix
BY FileKeepsOrder, LoggerInvariant, PTL

(* flushPendingRows forgets rows only when all of them are in the file.    *)
THEOREM NothingForgottenUnsaved == LoggerSpec => ForgottenRowsAreSaved
<1>1. ASSUME LoggerInv, [LoggerNext]_loggerVars,
             Len(pendingRows') < Len(pendingRows), lifecycle' # "killed"
      PROVE  file' = LoggedRows
  <2>1. Len(pendingRows) \in Nat
    BY <1>1, Areas DEF LoggerInv
  <2>2. pendingRows' # pendingRows
    BY <1>1, <2>1
  <2>3. ~LogSample
    <3>1. ASSUME LogSample PROVE FALSE
      <4>1. pendingRows \in Seq(Row) /\ rowCount + 1 \in Row
        BY <1>1, <3>1, Areas, LoggerBounds
           DEF LoggerInv, LoggerTypeOK, LogSample, TakeRow, Row
      <4>2. Len(pendingRows') = Len(pendingRows) + 1
        BY <3>1, <4>1, AppendProperties DEF LogSample, TakeRow
      <4> QED
        BY <1>1, <2>1, <4>2
    <3> QED
      BY <3>1
  <2>4. Flush
    BY <1>1, <2>2, <2>3
       DEF LoggerNext, Call, Step, Create, CreateFails, LogTargetExit,
           Destroy, CallFlush, InsertRow, Close, Kill, Gone, loggerVars
  <2>5. ~streamBad'
    BY <2>2, <2>4 DEF Flush, FlushKeeping
  <2>6. /\ flushing /\ insertIdx > Len(pendingRows) /\ ~streamBad
        /\ WriteOut(<<>>)
    BY <2>4, <2>5 DEF Flush, FlushKeeping, WriteShort
  <2> QED
    BY <1>1, <2>6, GoodFlushEffect
<1>2. LoggerInv /\ [LoggerNext]_loggerVars
        => [Len(pendingRows') < Len(pendingRows) /\ lifecycle' # "killed"
              => file' = LoggedRows]_loggerVars
  BY <1>1
<1> QED
  BY <1>2, LoggerInvariant, PTL DEF LoggerSpec, ForgottenRowsAreSaved

-----------------------------------------------------------------------------
(* The value of SavedRows: what RowLog sees of the file.                   *)
SavedRowsKnown ==
  /\ SavedRows \in 0 .. rowCount
  /\ \A i \in 1 .. Len(file) : file[i] <= SavedRows
  /\ SavedRows = 0 \/ \E i \in 1 .. Len(file) : file[i] = SavedRows

(* The largest row of a file is the one that is as large as any.           *)
LEMMA LargestRow ==
  ASSUME NEW m \in Nat, LoggerTypeOK,
         \A i \in 1 .. Len(file) : file[i] <= m,
         m = 0 \/ \E i \in 1 .. Len(file) : file[i] = m
  PROVE  SavedRows = m
<1> DEFINE rows == {0} \cup Range(file)
<1>1. Range(file) = {file[i] : i \in 1 .. Len(file)}
  BY LenProperties DEF Range, LoggerTypeOK
<1>2. \A i \in 1 .. Len(file) : file[i] \in Nat
  BY Areas, LoggerBounds DEF Row
<1>3. m \in rows /\ \A y \in rows : y \in Nat /\ m >= y
  BY <1>1, <1>2
<1> HIDE DEF rows
<1>4. \A x \in rows : (\A y \in rows : x >= y) => x = m
  BY <1>3
<1>5. Max(rows) = m
  BY <1>3, <1>4 DEF Max
<1> QED
  BY <1>5 DEF SavedRows, rows

(* The invariant says which row that is, failed writes included.           *)
LEMMA SavedRowsAreKnown == LoggerInv => SavedRowsKnown
<1> SUFFICES ASSUME LoggerInv PROVE SavedRowsKnown
  OBVIOUS
<1> USE DEF LoggerInv
<1>1. rowCount \in Nat /\ Len(file) \in Nat /\ shortRows \in Nat
  BY Areas
<1>2. \E m \in 0 .. rowCount :
        /\ \A i \in 1 .. Len(file) : file[i] <= m
        /\ m = 0 \/ \E i \in 1 .. Len(file) : file[i] = m
  <2>1. CASE ~streamBad
    <3>1. Len(file) \in 0 .. rowCount /\ \A i \in 1 .. Len(file) : file[i] = i
      BY <1>1, <2>1 DEF GoodInv
    <3>2. Len(file) = 0 \/ Len(file) \in 1 .. Len(file)
      BY <1>1
    <3> QED
      BY <1>1, <3>1, <3>2
  <2>2. CASE streamBad
    <3>1. PICK g \in 0 .. rowCount : ShortWriteAfter(g)
      BY <2>2 DEF BadInv
    <3>2. \A i \in 1 .. Len(file) :
            file[i] = IF i <= g + shortRows THEN i ELSE i - shortRows
      BY <3>1 DEF ShortWriteAfter
    <3>3. CASE Len(file) = g + shortRows
      <4>1. Len(file) \in 0 .. rowCount
        BY <1>1, <3>1, <3>3 DEF ShortWriteAfter
      <4>2. \A i \in 1 .. Len(file) : file[i] = i
        BY <1>1, <3>2, <3>3
      <4>3. Len(file) = 0 \/ Len(file) \in 1 .. Len(file)
        BY <1>1
      <4> QED
        BY <1>1, <4>1, <4>2, <4>3
    <3>4. CASE Len(file) > g + shortRows
      <4> DEFINE m == Len(file) - shortRows
      <4>1. m \in 0 .. rowCount /\ m >= g + shortRows
        BY <1>1, <3>1, <3>4 DEF ShortWriteAfter
      <4>2. \A i \in 1 .. Len(file) : file[i] <= m
        BY <1>1, <3>2, <4>1
      <4>3. Len(file) \in 1 .. Len(file) /\ file[Len(file)] = m
        BY <1>1, <3>2, <3>4
      <4> QED
        BY <4>1, <4>2, <4>3
    <3> QED
      BY <1>1, <3>1, <3>3, <3>4 DEF ShortWriteAfter
  <2> QED
    BY <2>1, <2>2
<1>3. PICK m \in 0 .. rowCount :
        /\ \A i \in 1 .. Len(file) : file[i] <= m
        /\ m = 0 \/ \E i \in 1 .. Len(file) : file[i] = m
  BY <1>2
<1>4. SavedRows = m
  BY <1>1, <1>3, LargestRow
<1> QED
  BY <1>3, <1>4 DEF SavedRowsKnown

(* On a good stream all rows of the file are saved, one after the other.   *)
LEMMA SavedOnGoodStream ==
  LoggerInv /\ ~streamBad => SavedRows = Len(file)
<1> SUFFICES ASSUME LoggerInv, ~streamBad PROVE SavedRows = Len(file)
  OBVIOUS
<1>1. SavedRowsKnown
  BY SavedRowsAreKnown
<1>2. Len(file) \in Nat /\ rowCount \in Nat
  BY Areas DEF LoggerInv
<1>3. \A i \in 1 .. Len(file) : file[i] = i
  BY DEF LoggerInv, GoodInv
<1>4. Len(file) <= SavedRows
  <2>1. Len(file) = 0 \/ Len(file) \in 1 .. Len(file)
    BY <1>2
  <2> QED
    BY <1>1, <1>2, <1>3, <2>1 DEF SavedRowsKnown
<1>5. SavedRows <= Len(file)
  BY <1>1, <1>2, <1>3 DEF SavedRowsKnown
<1> QED
  BY <1>1, <1>2, <1>4, <1>5 DEF SavedRowsKnown

(* The file is a sequence, before a step and after it.                     *)
LEMMA FileLength == LoggerInv => Len(file) \in Nat
BY Areas DEF LoggerInv

(* A file that grows at its end saves rows and loses none.                 *)
LEMMA SavedRowsGrow ==
  ASSUME LoggerInv, LoggerInv', FileGrows, rowCount' = rowCount
  PROVE  SavedRows' \in SavedRows .. rowCount
<1>1. SavedRowsKnown
  BY SavedRowsAreKnown
<1>2. (LoggerInv => SavedRowsKnown)'
  BY SavedRowsAreKnown, PTL
<1>3. SavedRowsKnown'
  BY <1>2
<1>4. /\ rowCount \in Nat /\ Len(file) \in Nat
      /\ \A i \in 1 .. Len(file) : file[i] \in Nat
  BY Areas, LoggerBounds DEF LoggerInv, Row
<1>5. (LoggerInv => Len(file) \in Nat)'
  BY FileLength, PTL
<1>6. SavedRows \in 0 .. rowCount /\ SavedRows' \in 0 .. rowCount
  BY <1>1, <1>3 DEF SavedRowsKnown
<1>7. SavedRows <= SavedRows'
  <2>1. CASE SavedRows = 0
    BY <1>4, <1>6, <2>1
  <2>2. CASE SavedRows # 0
    <3>1. PICK i \in 1 .. Len(file) : file[i] = SavedRows
      BY <1>1, <2>2 DEF SavedRowsKnown
    <3>2. i \in 1 .. Len(file') /\ file'[i] = SavedRows
      BY <1>4, <1>5, <3>1 DEF FileGrows
    <3> QED
      BY <1>3, <3>2 DEF SavedRowsKnown
  <2> QED
    BY <2>1, <2>2
<1> QED
  BY <1>4, <1>6, <1>7

(* A new logger is a new RowLog.                                           *)
LEMMA RefinesRowLogInit == LoggerInit => Promise!LogInit
<1> SUFFICES ASSUME LoggerInit PROVE Promise!LogInit
  OBVIOUS
<1>1. LoggerInv /\ ~streamBad /\ Len(file) = 0 /\ rowCount = 0
  BY LoggerInitEstablishes DEF LoggerInit
<1>2. SavedRows = 0
  BY <1>1, SavedOnGoodStream
<1> QED
  BY <1>1, <1>2 DEF LoggerInit, Promise!LogInit, LogState

(* Every step of the logger is one of RowLog, or invisible to it.          *)
LEMMA RefinesRowLogStep ==
  ASSUME LoggerInv, LoggerInv', [LoggerNext]_loggerVars
  PROVE  [Promise!LogNext]_(Promise!logVars)
<1>1. ASSUME file' = file PROVE SavedRows' = SavedRows
  BY <1>1 DEF SavedRows
<1>2. CASE Create \/ CreateFails
  <2>1. Promise!Open
    BY <1>1, <1>2
       DEF Create, CreateFails, Promise!Open, LogState, streamVars
  <2> QED
    BY <2>1 DEF Promise!LogNext
<1>3. CASE LogSample
  <2>1. LossBounded /\ Ready
    BY <1>3, LossIsBounded DEF LogSample, TakeRow
  <2>2. streamBad \/ rowCount - SavedRows < FlushSampleCount
    BY <2>1, SavedOnGoodStream DEF LossBounded
  <2>3. Promise!Log
    BY <1>1, <1>3, <2>2
       DEF LogSample, TakeRow, Ready, Promise!Log, LogState, streamVars
  <2> QED
    BY <2>3 DEF Promise!LogNext
<1>4. CASE LogTargetExit \/ Destroy
  BY <1>1, <1>4
     DEF LogTargetExit, Destroy, CallFlush, Promise!logVars, LogState,
         streamVars
<1>5. CASE InsertRow \/ Flush
  <2>1. SavedRows' \in SavedRows .. rowCount
    BY <1>5, InsertRowKeeps, FlushKeeps, SavedRowsGrow
       DEF InsertRow, Flush, FlushKeeping
  <2>2. lifecycle = "open" /\ lifecycle' = "open" /\ rowCount' = rowCount
    BY <1>5 DEF InsertRow, Flush, FlushKeeping, LoggerInv, LifeInv
  <2>3. streamBad' = streamBad \/ streamBad' = TRUE
    BY <1>5
       DEF InsertRow, Flush, FlushKeeping, WriteShort, streamVars
  <2>4. Promise!Save
    BY <2>1, <2>2, <2>3 DEF Promise!Save, LogState
  <2> QED
    BY <2>4 DEF Promise!LogNext
<1>6. CASE Close
  <2>1. SavedRows' \in SavedRows .. rowCount
    BY <1>6, CloseKeeps, SavedRowsGrow DEF Close
  <2>2. streamBad \/ SavedRows' = rowCount
    <3>1. SUFFICES ASSUME ~streamBad PROVE SavedRows' = rowCount
      OBVIOUS
    <3>2. /\ pendingRows = <<>> /\ putArea = <<>> /\ file' = file
          /\ Len(file) + Len(putArea) = Inserted /\ ~flushing
      BY <1>6, <3>1 DEF Close, LoggerInv, GoodInv
    <3>3. Len(pendingRows) = 0 /\ Len(putArea) = 0
      BY <3>2
    <3>4. Len(file) = rowCount
      <4>1. Len(file) \in Nat /\ rowCount \in Nat
        BY Areas DEF LoggerInv
      <4>2. ~flushing /\ Len(file) + Len(putArea) = Inserted
        BY <3>2
      <4> QED
        BY <3>3, <4>1, <4>2 DEF Inserted
    <3> QED
      BY <1>1, <3>1, <3>2, <3>4, SavedOnGoodStream
  <2>3. Promise!Close
    BY <1>6, <2>1, <2>2 DEF Close, Promise!Close, LogState
  <2> QED
    BY <2>3 DEF Promise!LogNext
<1>7. CASE Kill
  <2>1. Promise!Kill
    BY <1>1, <1>7 DEF Kill, Promise!Kill, LogState
  <2> QED
    BY <2>1 DEF Promise!LogNext
<1>8. CASE Gone \/ UNCHANGED loggerVars
  BY <1>1, <1>8 DEF Gone, loggerVars, streamVars, Promise!logVars, LogState
<1> QED
  BY <1>2, <1>3, <1>4, <1>5, <1>6, <1>7, <1>8 DEF LoggerNext, Call, Step

(* The logger implements RowLog, for every flush threshold: rows are saved *)
(* in order and never lost again, fewer than FlushSampleCount of them are  *)
(* unsaved when the next one comes, and none after a close that worked.    *)
THEOREM LoggerRefinesRowLog == LoggerSpec => ImplementsRowLog
<1>1. LoggerInit => Promise!LogInit
  BY RefinesRowLogInit
<1>2. LoggerInv /\ LoggerInv' /\ [LoggerNext]_loggerVars
        => [Promise!LogNext]_(Promise!logVars)
  BY RefinesRowLogStep
<1> QED
  BY <1>1, <1>2, LoggerInvariant, PTL
     DEF LoggerSpec, ImplementsRowLog, Promise!LogSpec
=============================================================================
