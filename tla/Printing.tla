------------------------------ MODULE Printing ------------------------------
(* The log on variables of its own.  What its outputs get, and what comes out of a command, is    *)
(* proved in SequenceProofs.                                                                      *)
EXTENDS Integers

CONSTANTS LogSize, LogTxSize, LogBudget, LogLoads

\* The longest piece, of two, fits the log buffer: _initBuffer() takes none that is smaller than
\* PIECE_MAX (core/pif_log.c:1034).
ASSUME LogAssumption == LogSize \in Nat /\ LogSize >= 2

VARIABLES
  logPieces, logTail, logSinks, logPos, logDrops, logTx, logTrigger, logPc, logCur, logCopy,
  logLeft, logStatus, logCmdDone, logTodo, logQueued, logDump, logLoad, logPrinted, logCommands,
  logRefused, logChanged, logSince, logGot, logMade, logShown

logVars ==
  <<logPieces, logTail, logSinks, logPos, logDrops, logTx, logTrigger, logPc, logCur, logCopy,
    logLeft, logStatus, logCmdDone, logTodo, logQueued, logDump, logLoad, logPrinted, logCommands,
    logRefused, logChanged, logSince, logGot, logMade, logShown>>

Logging == INSTANCE Log WITH
  Size <- LogSize, TxSize <- LogTxSize, Budget <- LogBudget, Loads <- LogLoads,
  log <- logPieces, tail <- logTail, sinks <- logSinks, pos <- logPos, drops <- logDrops,
  tx <- logTx, trigger <- logTrigger, pc <- logPc, cur <- logCur, copy <- logCopy,
  budget <- logLeft, status <- logStatus, cmdDone <- logCmdDone, todo <- logTodo,
  queued <- logQueued, dump <- logDump, load <- logLoad, printed <- logPrinted,
  commands <- logCommands, refusals <- logRefused, changes <- logChanged, since <- logSince,
  got <- logGot, made <- logMade, shown <- logShown

-----------------------------------------------------------------------------
\* Log: every output gets the pieces in order, each once or counted as lost, and what a command
\* prints comes out in order with its prompt last.
LogKept == Logging!PiecesKept /\ Logging!CommandInOrder
=============================================================================
