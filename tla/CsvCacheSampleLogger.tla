------------------------ MODULE CsvCacheSampleLogger ------------------------
(***************************************************************************)
(* The buffered CSV logger, CsvCacheSampleLogger.cpp: rows wait in memory  *)
(* until flushSampleCount of them are pending, then all of them are        *)
(* written through an std::ofstream and forgotten if the stream is still   *)
(* good.                                                                   *)
(*                                                                         *)
(* A row goes through three places: _pendingRows, the put area of the      *)
(* stream's buffer, and the file.  The stream may hand its put area to the *)
(* file early, a write may fail after part of it, a stream that failed     *)
(* stays failed (nothing clears its state), and the process may be killed  *)
(* at any point, which loses both memory areas.  The i-th sample handed to *)
(* the logger is row i.                                                    *)
(***************************************************************************)
EXTENDS Integers, SequencesExt

CONSTANTS
  FlushSampleCount,  (* --csv-flush-samples                                *)
  MaxRows,           (* bound: samples handed to the logger                *)
  WriteMayFail       (* whether a write to the file may fail               *)

ASSUME LoggerAssumption ==
  /\ FlushSampleCount \in Nat
  /\ MaxRows \in Nat
  /\ WriteMayFail \in BOOLEAN

VARIABLES
  lifecycle,    (* of the logger object: "new" before create, "open",      *)
                (* "rejected" by create, "closed", or "killed"             *)
  rowCount,     (* how many samples the logger was handed                  *)
  pendingRows,  (* _pendingRows                                            *)
  putArea,      (* rows inserted in the stream, not written yet            *)
  file,         (* rows in the CSV file, after its header                  *)
  streamBad,    (* the error state of _outputFileStream                    *)
  flushing,     (* flushPendingRows is running                             *)
  insertIdx,    (* its loop: the pending row inserted next                 *)
  closing,      (* ... and it was called by the destructor                 *)
  shortRows     (* history: how many rows of the put area were in the file *)
                (* when the write of it failed                             *)

streamVars == <<putArea, file, streamBad, shortRows>>
flushVars == <<flushing, insertIdx, closing>>
loggerVars == <<lifecycle, rowCount, pendingRows, streamVars, flushVars>>

Row == 1 .. MaxRows

(* All rows handed to the logger, in order.                                *)
LoggedRows == [i \in 1 .. rowCount |-> i]

LoggerTypeOK ==
  /\ lifecycle \in {"new", "open", "rejected", "closed", "killed"}
  /\ rowCount \in 0 .. MaxRows
  /\ pendingRows \in Seq(Row)
  /\ putArea \in Seq(Row)
  /\ file \in Seq(Row)
  /\ streamBad \in BOOLEAN
  /\ flushing \in BOOLEAN
  /\ insertIdx \in 1 .. MaxRows + 1
  /\ closing \in BOOLEAN
  /\ shortRows \in 0 .. MaxRows

LoggerInit ==
  /\ lifecycle = "new"
  /\ rowCount = 0
  /\ pendingRows = <<>>
  /\ putArea = <<>>
  /\ file = <<>>
  /\ streamBad = FALSE
  /\ flushing = FALSE
  /\ insertIdx = 1
  /\ closing = FALSE
  /\ shortRows = 0

-----------------------------------------------------------------------------
(* The stream.                                                             *)

(* The put area and what follows it reach the file.                        *)
WriteOut(rows) ==
  /\ file' = file \o putArea \o rows
  /\ putArea' = <<>>

(* Only the first k rows of the put area reach the file; it keeps them.    *)
WriteShort(k) ==
  /\ WriteMayFail
  /\ file' = file \o SubSeq(putArea, 1, k)
  /\ streamBad' = TRUE
  /\ shortRows' = k
  /\ UNCHANGED putArea

(* A failed stream is synchronised or closed once more: its put area is    *)
(* written as if nothing of it had been.                                   *)
WriteAgain ==
  \/ UNCHANGED <<putArea, file>>
  \/ WriteOut(<<>>)

-----------------------------------------------------------------------------
(* create: the directory, the file and the flushed header may each fail.   *)
Create ==
  /\ lifecycle = "new"
  /\ FlushSampleCount # 0
  /\ lifecycle' = "open"
  /\ UNCHANGED <<rowCount, pendingRows, streamVars, flushVars>>

CreateFails ==
  /\ lifecycle = "new"
  /\ FlushSampleCount = 0 \/ WriteMayFail
  /\ lifecycle' = "rejected"
  /\ UNCHANGED <<rowCount, pendingRows, streamVars, flushVars>>

(* The caller may use the logger: it is open and no call is under way.     *)
Ready == lifecycle = "open" /\ ~flushing /\ ~closing

(* A sample is counted, its row is pending, and a flush is called if due.  *)
TakeRow(row, due) ==
  /\ Ready
  /\ rowCount < MaxRows
  /\ rowCount' = rowCount + 1
  /\ pendingRows' = Append(pendingRows, row)
  /\ flushing' = due
  /\ insertIdx' = 1
  /\ UNCHANGED <<lifecycle, streamVars, closing>>

Due == Len(pendingRows) + 1 >= FlushSampleCount

(* Mutants: the flush is due one row late; the row gets the old count.     *)
LogSampleFlushingLate ==
  TakeRow(rowCount + 1, Len(pendingRows) + 1 > FlushSampleCount)
LogSampleBeforeCounting == TakeRow(rowCount, Due)

(* logSample, up to the end of its call of flushPendingRows if it is due.  *)
LogSample == TakeRow(rowCount + 1, Due)

(* logTargetExit and the destructor flush whatever is pending.             *)
CallFlush(flush, close) ==
  /\ Ready
  /\ flushing' = flush
  /\ insertIdx' = 1
  /\ closing' = close
  /\ UNCHANGED <<lifecycle, rowCount, pendingRows, streamVars>>

LogTargetExit == CallFlush(TRUE, FALSE)

(* Mutant: the destructor forgets to flush.                                *)
DestroyWithoutFlush == CallFlush(FALSE, TRUE)

Destroy == CallFlush(TRUE, TRUE)

(* flushPendingRows, its loop: the row is kept in the put area, or written *)
(* with it, or refused by a stream that failed or fails now.               *)
InsertRow ==
  /\ flushing
  /\ insertIdx <= Len(pendingRows)
  /\ insertIdx' = insertIdx + 1
  /\ LET row == pendingRows[insertIdx] IN
     \/ /\ ~streamBad
        /\ putArea' = Append(putArea, row)
        /\ UNCHANGED <<file, streamBad, shortRows>>
     \/ /\ ~streamBad
        /\ WriteOut(<<row>>)
        /\ UNCHANGED <<streamBad, shortRows>>
     \/ /\ ~streamBad
        /\ \E k \in 0 .. Len(putArea) : WriteShort(k)
     \/ /\ streamBad
        /\ UNCHANGED streamVars
  /\ UNCHANGED <<lifecycle, rowCount, pendingRows, flushing, closing>>

(* flush(), after which `kept` is what stays pending.                      *)
FlushKeeping(kept) ==
  /\ flushing
  /\ insertIdx > Len(pendingRows)
  /\ \/ /\ ~streamBad
        /\ WriteOut(<<>>)
        /\ UNCHANGED <<streamBad, shortRows>>
     \/ /\ ~streamBad
        /\ \E k \in 0 .. Len(putArea) : WriteShort(k)
     \/ /\ streamBad
        /\ WriteAgain
        /\ UNCHANGED <<streamBad, shortRows>>
  /\ pendingRows' = kept
  /\ flushing' = FALSE
  /\ insertIdx' = 1
  /\ UNCHANGED <<lifecycle, rowCount, closing>>

(* Mutants: rows are forgotten before the stream is looked at, or never.   *)
FlushForgettingFirst == FlushKeeping(<<>>)
FlushKeepingRows == FlushKeeping(pendingRows)

(* flushPendingRows, flush() and what follows: the pending rows are        *)
(* forgotten only if the stream is good after it.                          *)
Flush == FlushKeeping(IF streamBad' THEN pendingRows ELSE <<>>)

(* The destructor goes on to destroy the stream, which closes the file.    *)
Close ==
  /\ lifecycle = "open"
  /\ closing
  /\ ~flushing
  /\ lifecycle' = "closed"
  /\ IF streamBad THEN WriteAgain ELSE UNCHANGED <<putArea, file>>
  /\ UNCHANGED <<rowCount, pendingRows, streamBad, shortRows, flushVars>>

(* SIGKILL, or a crash: what was in memory is gone.                        *)
Kill ==
  /\ lifecycle = "open"
  /\ lifecycle' = "killed"
  /\ pendingRows' = <<>>
  /\ putArea' = <<>>
  /\ flushing' = FALSE
  /\ insertIdx' = 1
  /\ UNCHANGED <<rowCount, file, streamBad, closing, shortRows>>

-----------------------------------------------------------------------------
Call == Create \/ CreateFails \/ LogSample \/ LogTargetExit \/ Destroy

Step == InsertRow \/ Flush \/ Close

(* Nothing is left to do: the logger is gone, or was never made.           *)
Gone ==
  /\ lifecycle \in {"rejected", "closed", "killed"}
  /\ UNCHANGED loggerVars

LoggerNext == Call \/ Step \/ Kill \/ Gone

LoggerSpec == LoggerInit /\ [][LoggerNext]_loggerVars

-----------------------------------------------------------------------------
Without(s, i, k) == SubSeq(s, 1, i) \o SubSeq(s, i + k + 1, Len(s))

(* Through failed writes, retries by close and kills, the file holds the   *)
(* logged rows in order with no gap and no repetition, but for one block:  *)
(* what a short write had saved when the same put area is written again.   *)
FileIsPrefix ==
  \E i \in 0 .. Len(file) :
    IsPrefix(Without(file, i, shortRows), LoggedRows)

(* While the stream is good, a crash loses fewer rows than make up one     *)
(* flush, and no more than that many if it strikes during the flush; a     *)
(* logger that was destroyed has lost none.                                *)
LossBounded ==
  ~streamBad =>
    /\ rowCount - Len(file) <= FlushSampleCount
    /\ Ready => rowCount - Len(file) < FlushSampleCount
    /\ lifecycle = "closed" => Len(file) = rowCount

(* Rows are forgotten by the logger only when they are all in the file,    *)
(* except by a kill.                                                       *)
ForgottenRowsAreSaved ==
  [][Len(pendingRows') < Len(pendingRows) /\ lifecycle' # "killed"
       => file' = LoggedRows]_loggerVars

(* The logger implements RowLog: `saved` is the last row in the file.      *)
SavedRows == Max({0} \cup Range(file))
LogState == IF lifecycle = "rejected" THEN "closed" ELSE lifecycle

Promise == INSTANCE RowLog WITH
  Limit <- FlushSampleCount, state <- LogState, logged <- rowCount,
  saved <- SavedRows, broken <- streamBad

(* Through early writes, short writes, retries by close and kills, what    *)
(* the logger does to the file is what RowLog allows: rows are saved in    *)
(* order and never lost again, fewer than FlushSampleCount of them are     *)
(* unsaved when the next one comes, and none after a close.                *)
ImplementsRowLog == Promise!LogSpec
=============================================================================
