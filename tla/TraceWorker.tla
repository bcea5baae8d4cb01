------------------------------ MODULE TraceWorker ------------------------------
(***************************************************************************)
(* Tracing to VCD files with a worker thread (VerilatedTrace, VerilatedVcd  *)
(* with VL_TRACE_THREADED).  The simulation puts the values of the signals  *)
(* into trace buffers, the worker compares them with the old values and     *)
(* prints what changed into the write buffer, which goes to the file when   *)
(* it is nearly full.  A full dump, a flush, a new file and the end are the *)
(* simulation's own work, for which the worker has to be quiet.             *)
(*                                                                         *)
(* m_mutex lets one call in at a time, so the simulation is one actor.  What *)
(* is left of its call is the sequence of steps `todo`; a step is what it    *)
(* does with one queue, or what it does while the worker must be quiet.      *)
(***************************************************************************)
EXTENDS Naturals, Sequences, FiniteSets, SequencesExt, TLC

CONSTANTS
  Signals,         \* the codes of the signals
  Values,          \* what they can be together: functions on Signals
  Times,           \* times of dumps
  MaxTraceBuffers, \* buffers that exist at the most; 8 in the code
  m_rolloverMB,    \* size of a file after which the next one is begun, or 0
  m_wrFlush,       \* size of the write buffer after which it goes to the file
  MaxFiles,        \* bound: no file is opened after that many
  CallsAfterClose  \* calls that are made although no worker runs

VARIABLES
  m_timeLastDump,
  m_fullDump,
  m_sigs_oldvalp,
  m_isOpen,
  m_wrBuf,             \* what is printed and not in a file yet
  m_wroteBytes,
  files,               \* the files, by age, each a sequence of records
  m_numTraceBuffers,
  buffer,              \* the commands in each trace buffer
  m_buffersToWorker,
  m_buffersFromWorker,
  bufferp,             \* the simulation's buffer, 0 if it has none
  stash,               \* waitForBuffer
  todo,                \* what is left of the simulation's call
  values,              \* the signals, at the latest dump()
  worker,              \* the worker thread: where it is
  wbuf,                \* its buffer, 0 if it has none
  readp                \* its position in it

fileVars == <<m_isOpen, m_wrBuf, m_wroteBytes, files>>
queueVars == <<m_numTraceBuffers, m_buffersToWorker, m_buffersFromWorker, bufferp, stash>>
workerVars == <<worker, wbuf, readp>>
dumpVars == <<m_timeLastDump, m_fullDump, m_sigs_oldvalp, values>>
vars == <<fileVars, queueVars, workerVars, dumpVars, buffer, todo>>

Buffers == 1 .. MaxTraceBuffers

ASSUME TraceAssumption ==
  /\ IsFiniteSet(Signals)
  /\ MaxTraceBuffers \in Nat \ {0}
  /\ Times \subseteq Nat
  /\ m_rolloverMB \in Nat /\ m_wrFlush \in Nat /\ MaxFiles \in Nat
  /\ CallsAfterClose \subseteq {"flush", "dump"}

-----------------------------------------------------------------------------
(* Records of a file, and commands of a buffer.                             *)

HeaderRecord == <<"header">>
TimeRecord(t) == <<"time", t>>
ValueRecord(s, v) == <<"value", s, v>>

Codes == SetToSeq(Signals)

\* fullCbs of the model: all signals.
ValueRecords(v) == [i \in DOMAIN Codes |-> ValueRecord(Codes[i], v[Codes[i]])]

\* TIME_CHANGE and CHG_*: of the signals in the chgCbs, whether they changed is
\* for the worker to find out.
ChangeCommands(t, v) == <<TimeRecord(t)>> \o ValueRecords(v)

END == <<"end">>
SHUTDOWN == <<"shutdown">>

-----------------------------------------------------------------------------
(* The write buffer.  `out` stands for the fields printing changes.          *)

Out == [buf |-> m_wrBuf, wrote |-> m_wroteBytes, files |-> files]

\* bufferFlush
Flushed(out) ==
  IF m_isOpen
  THEN [buf |-> <<>>,
        wrote |-> out.wrote + Len(out.buf),
        files |-> [out.files EXCEPT ![Len(out.files)] = @ \o out.buf]]
  ELSE out

\* A record, with bufferCheck.
Printed(out, record) ==
  LET printed == [out EXCEPT !.buf = Append(@, record)]
  IN IF Len(printed.buf) > m_wrFlush THEN Flushed(printed) ELSE printed

PrintedAll(out, records) ==
  LET after[i \in 0 .. Len(records)] ==
        IF i = 0 THEN out ELSE Printed(after[i - 1], records[i])
  IN after[Len(records)]

Output(out) == m_wrBuf' = out.buf /\ m_wroteBytes' = out.wrote /\ files' = out.files

-----------------------------------------------------------------------------
(* What the calls consist of.                                               *)

\* (mutant) the buffer is handed over and not waited for.
flushBase_NoWait == <<"get", "end">>

flushBase == <<"get", "end", "wait">>

closePrev == IF m_isOpen THEN flushBase \o <<"bufferFlush", "close">> ELSE <<>>

\* openNextImp, called with an open file or none.
openNextImp == closePrev \o <<"open">>

\* shutdownWorker and closeBase
closeBase ==
  (IF worker = "none" THEN <<>> ELSE <<"get", "shutdown", "wait", "join">>) \o <<"delete">>

\* (mutant) what is in the write buffer is written before the worker has added to it.
flush_Early == <<"bufferFlush">> \o flushBase

flush == flushBase \o <<"bufferFlush">>

Then(steps) == todo' = steps \o Tail(todo)
At(step) == todo # <<>> /\ Head(todo) = step
Idle == todo = <<>>

-----------------------------------------------------------------------------
Init ==
  /\ m_timeLastDump = 0 /\ m_fullDump = TRUE /\ m_isOpen = FALSE
  /\ m_sigs_oldvalp \in Values                       \* allocated, not initialised
  /\ m_wrBuf = <<>> /\ m_wroteBytes = 0 /\ files = <<>>
  /\ m_numTraceBuffers = 0
  /\ buffer = [b \in Buffers |-> <<>>]
  /\ m_buffersToWorker = <<>> /\ m_buffersFromWorker = <<>>
  /\ bufferp = 0 /\ stash = <<>>
  /\ todo = <<>>
  /\ values = CHOOSE v \in Values : TRUE           \* not read before dump()
  /\ worker = "none" /\ wbuf = 0 /\ readp = 0

-----------------------------------------------------------------------------
(* Calls of the simulation.  After a file could not be opened on the way,    *)
(* with the worker running, it goes on with openNext() or the destructor and *)
(* not with open(), which would start a second worker.                       *)

\* The code does not ask whether there is a worker.
MayCall(name) == worker # "none" \/ name \in CallsAfterClose

Open ==
  /\ Idle /\ ~m_isOpen /\ worker = "none"
  /\ todo' = <<"open", "dumpHeader">>
  /\ UNCHANGED <<fileVars, queueVars, workerVars, dumpVars, buffer>>

OpenNext ==
  /\ Idle /\ worker # "none"
  /\ Len(files) < MaxFiles
  /\ todo' = openNextImp
  /\ UNCHANGED <<fileVars, queueVars, workerVars, dumpVars, buffer>>

Dump(t, v) ==
  /\ Idle
  /\ ~(m_timeLastDump # 0 /\ t <= m_timeLastDump)
  /\ m_timeLastDump' = t
  /\ values' = v
  /\ LET over == ~m_fullDump /\ m_rolloverMB # 0 /\ m_wroteBytes > m_rolloverMB
     IN /\ over => MayCall("dump")
        /\ todo' = (IF over THEN openNextImp ELSE <<>>) \o <<"dump">>
  /\ UNCHANGED <<fileVars, queueVars, workerVars, m_fullDump, m_sigs_oldvalp, buffer>>

Flush ==
  /\ Idle /\ MayCall("flush")
  /\ todo' = flush \o <<"return">>
  /\ UNCHANGED <<fileVars, queueVars, workerVars, dumpVars, buffer>>

Close ==
  /\ Idle /\ m_isOpen
  /\ todo' = closePrev \o closeBase \o <<"return">>
  /\ UNCHANGED <<fileVars, queueVars, workerVars, dumpVars, buffer>>

\* ~VerilatedVcd and ~VerilatedTrace: the buffers are freed between close(), which
\* does nothing if no file is open, and the destructor's own closeBase.
Destroy ==
  /\ Idle
  /\ todo' = IF m_isOpen THEN closePrev \o closeBase \o <<"free", "delete", "gone">>
                         ELSE <<"free">> \o closeBase \o <<"gone">>
  /\ UNCHANGED <<fileVars, queueVars, workerVars, dumpVars, buffer>>

-----------------------------------------------------------------------------
(* Steps on the buffers and queues.                                          *)

MayAllocate == m_buffersFromWorker = <<>> /\ m_numTraceBuffers < MaxTraceBuffers

\* getTraceBuffer; blocks with all buffers under way.
GetTraceBuffer ==
  /\ At("get")
  /\ \/ /\ m_buffersFromWorker # <<>>
        /\ bufferp' = Head(m_buffersFromWorker)
        /\ m_buffersFromWorker' = Tail(m_buffersFromWorker)
        /\ UNCHANGED m_numTraceBuffers
     \/ /\ MayAllocate
        /\ m_numTraceBuffers' = m_numTraceBuffers + 1
        /\ bufferp' = m_numTraceBuffers + 1
        /\ UNCHANGED m_buffersFromWorker
  /\ Then(<<>>)
  /\ UNCHANGED <<fileVars, workerVars, dumpVars, buffer, m_buffersToWorker, stash>>

\* A buffer is filled and handed to the worker.
Put(commands) ==
  /\ buffer' = [buffer EXCEPT ![bufferp] = commands]
  /\ m_buffersToWorker' = Append(m_buffersToWorker, bufferp)
  /\ UNCHANGED <<fileVars, workerVars, dumpVars, m_numTraceBuffers, m_buffersFromWorker, stash>>

PutEnd == At("end") /\ Put(<<END>>) /\ Then(<<>>) /\ UNCHANGED bufferp

PutShutdown == At("shutdown") /\ Put(<<SHUTDOWN>>) /\ Then(<<>>) /\ UNCHANGED bufferp

\* chgCbs
PutChanges ==
  /\ At("change")
  /\ Put(ChangeCommands(m_timeLastDump, values) \o <<END>>)
  /\ bufferp' = 0
  /\ Then(<<>>)

\* waitForBuffer, collecting
WaitForBuffer ==
  /\ At("wait")
  /\ m_buffersFromWorker # <<>>
  /\ stash' = Append(stash, Head(m_buffersFromWorker))
  /\ m_buffersFromWorker' = Tail(m_buffersFromWorker)
  /\ IF Head(m_buffersFromWorker) = bufferp THEN Then(<<"putBack">>) /\ bufferp' = 0
                                            ELSE UNCHANGED <<todo, bufferp>>
  /\ UNCHANGED <<fileVars, workerVars, dumpVars, buffer, m_numTraceBuffers, m_buffersToWorker>>

\* (mutant) only the buffer that was waited for is put back.
Unstashed_One == <<>>

Unstashed == Front(stash)

\* waitForBuffer, putting back
PutBack ==
  /\ At("putBack")
  /\ m_buffersFromWorker' = <<Last(stash)>> \o m_buffersFromWorker
  /\ stash' = Unstashed
  /\ IF stash' = <<>> THEN Then(<<>>) ELSE UNCHANGED todo
  /\ UNCHANGED <<fileVars, workerVars, dumpVars, buffer, m_numTraceBuffers, m_buffersToWorker,
                 bufferp>>

Join ==
  /\ At("join") /\ worker = "exited"
  /\ worker' = "none"
  /\ Then(<<>>)
  /\ UNCHANGED <<fileVars, queueVars, wbuf, readp, dumpVars, buffer>>

\* closeBase, the loop
Delete ==
  /\ At("delete")
  /\ IF m_numTraceBuffers = 0
     THEN Then(<<>>) /\ UNCHANGED <<m_buffersFromWorker, m_numTraceBuffers>>
     ELSE /\ m_buffersFromWorker # <<>>
          /\ m_buffersFromWorker' = Tail(m_buffersFromWorker)
          /\ m_numTraceBuffers' = m_numTraceBuffers - 1
          /\ UNCHANGED todo
  /\ UNCHANGED <<fileVars, workerVars, dumpVars, buffer, m_buffersToWorker, bufferp, stash>>

-----------------------------------------------------------------------------
(* Steps that want the worker quiet.                                         *)

BufferFlush ==
  /\ At("bufferFlush")
  /\ Output(Flushed(Out))
  /\ Then(<<>>)
  /\ UNCHANGED <<m_isOpen, queueVars, workerVars, dumpVars, buffer>>

CloseFile ==
  /\ At("close")
  /\ m_isOpen' = FALSE
  /\ Then(<<>>)
  /\ UNCHANGED <<m_wrBuf, m_wroteBytes, files, queueVars, workerVars, dumpVars, buffer>>

\* (mutant) the first dump to a new file is like any other.
FirstDump_Change == m_fullDump

FirstDump == TRUE

\* openNextImp, after closePrev; may fail, which ends open() and openNext().
OpenFile ==
  /\ At("open")
  /\ \/ /\ Len(files) < MaxFiles
        /\ m_isOpen' = TRUE
        /\ files' = Append(files, <<>>)
        /\ m_fullDump' = FirstDump
        /\ m_wroteBytes' = 0
        /\ Then(<<>>)
     \/ /\ m_isOpen' = FALSE
        /\ todo' = IF Tail(todo) = <<"dumpHeader">> THEN <<>> ELSE Tail(todo)
        /\ UNCHANGED <<files, m_fullDump, m_wroteBytes>>
  /\ UNCHANGED <<m_wrBuf, queueVars, workerVars, m_timeLastDump, m_sigs_oldvalp, values, buffer>>

\* dumpHeader, and open() after it.  traceInit in it starts the worker.
DumpHeader ==
  /\ At("dumpHeader")
  /\ Output(Printed(Out, HeaderRecord))
  /\ worker' = "get"
  /\ Then(IF m_rolloverMB # 0 THEN openNextImp ELSE <<>>)
  /\ UNCHANGED <<m_isOpen, queueVars, wbuf, readp, dumpVars, buffer>>

\* dump(), after preChangeDump: m_fullDump is looked at again.
GoOnDumping ==
  /\ At("dump")
  /\ Then(IF ~m_isOpen THEN <<>>
          ELSE IF m_fullDump THEN flushBase \o <<"full">>
          ELSE <<"get", "change">>)
  /\ UNCHANGED <<fileVars, queueVars, workerVars, dumpVars, buffer>>

\* emitTimeChange and the fullCbs
FullDump ==
  /\ At("full")
  /\ m_fullDump' = FALSE
  /\ m_sigs_oldvalp' = values
  /\ Output(PrintedAll(Out, ChangeCommands(m_timeLastDump, values)))
  /\ Then(<<>>)
  /\ UNCHANGED <<m_isOpen, queueVars, workerVars, m_timeLastDump, values, buffer>>

\* m_wrBufp, then m_sigs_oldvalp
Free ==
  /\ At("free")
  /\ m_wrBuf' = <<>>
  /\ Then(<<>>)
  /\ UNCHANGED <<m_isOpen, m_wroteBytes, files, queueVars, workerVars, dumpVars, buffer>>

Return ==
  /\ At("return")
  /\ Then(<<>>)
  /\ UNCHANGED <<fileVars, queueVars, workerVars, dumpVars, buffer>>

-----------------------------------------------------------------------------
(* The worker thread.                                                        *)

WorkerGet ==
  /\ worker = "get"
  /\ m_buffersToWorker # <<>>
  /\ wbuf' = Head(m_buffersToWorker)
  /\ m_buffersToWorker' = Tail(m_buffersToWorker)
  /\ readp' = 1
  /\ worker' = "read"
  /\ UNCHANGED <<fileVars, m_numTraceBuffers, m_buffersFromWorker, bufferp, stash, dumpVars,
                 buffer, todo>>

Command == buffer[wbuf][readp]

ReadTimeChange ==
  /\ worker = "read" /\ Command[1] = "time"
  /\ Output(Printed(Out, Command))
  /\ readp' = readp + 1
  /\ UNCHANGED <<m_isOpen, queueVars, worker, wbuf, dumpVars, buffer, todo>>

\* chg*Impl: the old value is what the file has, only another one is printed.
ReadChange ==
  /\ worker = "read" /\ Command[1] = "value"
  /\ LET s == Command[2]
         newval == Command[3]
     IN IF m_sigs_oldvalp[s] = newval
        THEN UNCHANGED <<m_sigs_oldvalp, m_wrBuf, m_wroteBytes, files>>
        ELSE /\ m_sigs_oldvalp' = [m_sigs_oldvalp EXCEPT ![s] = newval]
             /\ Output(Printed(Out, Command))
  /\ readp' = readp + 1
  /\ UNCHANGED <<m_isOpen, queueVars, worker, wbuf, m_timeLastDump, m_fullDump, values,
                 buffer, todo>>

\* (mutant) the worker leaves with the buffer that told it to.
Returned_NotLast == IF Command = SHUTDOWN THEN m_buffersFromWorker
                                          ELSE Append(m_buffersFromWorker, wbuf)

Returned == Append(m_buffersFromWorker, wbuf)

\* END and SHUTDOWN
ReadEnd ==
  /\ worker = "read" /\ Command \in {END, SHUTDOWN}
  /\ m_buffersFromWorker' = Returned
  /\ worker' = IF Command = SHUTDOWN THEN "exited" ELSE "get"
  /\ wbuf' = 0 /\ readp' = 0
  /\ UNCHANGED <<fileVars, m_numTraceBuffers, m_buffersToWorker, bufferp, stash, dumpVars,
                 buffer, todo>>

-----------------------------------------------------------------------------
Call ==
  \/ Open \/ OpenNext \/ Flush \/ Close \/ Destroy
  \/ \E t \in Times, v \in Values : Dump(t, v)

ClientStep ==
  \/ GetTraceBuffer \/ PutEnd \/ PutShutdown \/ PutChanges \/ WaitForBuffer \/ PutBack
  \/ Join \/ Delete \/ BufferFlush \/ CloseFile \/ OpenFile \/ DumpHeader \/ GoOnDumping
  \/ FullDump \/ Free \/ Return

WorkerStep == WorkerGet \/ ReadTimeChange \/ ReadChange \/ ReadEnd

Next == Call \/ ClientStep \/ WorkerStep

\* A call goes on and the worker works whenever they can; nobody has to call.
Fairness == WF_vars(ClientStep) /\ WF_vars(WorkerStep)

Spec == Init /\ [][Next]_vars /\ Fairness

-----------------------------------------------------------------------------
\* Every allocated buffer is with exactly one of the queues, the simulation
\* and the worker, so closeBase deletes each of them once and misses none.
BuffersAccounted ==
  LET own == IF bufferp # 0 /\ todo # <<>> /\ Head(todo) \in {"end", "shutdown", "change"}
             THEN <<bufferp>> ELSE <<>>
      everywhere == m_buffersToWorker \o (IF wbuf = 0 THEN <<>> ELSE <<wbuf>>)
                      \o m_buffersFromWorker \o stash \o own
  IN /\ IsInjective(everywhere)
     /\ Len(everywhere) = m_numTraceBuffers
     /\ worker = "none" => m_buffersToWorker = <<>>

\* What the worker has still to read.
Pending ==
  LET rest[i \in 0 .. Len(m_buffersToWorker)] ==
        IF i = 0 THEN IF wbuf = 0 THEN <<>> ELSE SubSeq(buffer[wbuf], readp, Len(buffer[wbuf]))
                 ELSE rest[i - 1] \o buffer[m_buffersToWorker[i]]
  IN rest[Len(m_buffersToWorker)]

\* What it has still to read in one of the buffers that are on their way.
Unread(b) == SubSeq(buffer[b], IF b = wbuf THEN readp ELSE 1, Len(buffer[b]))

OnTheirWay == Range(m_buffersToWorker) \cup ({wbuf} \ {0})

NothingToPrint == \A b \in OnTheirWay : Range(Unread(b)) \subseteq {END, SHUTDOWN}

\* The write buffer, the file, the old values and m_isOpen have no lock: while
\* the simulation works on them, and once they are freed, the worker has
\* nothing left to print.
WorkerQuiet ==
  LET freed == todo # <<>> /\ Last(todo) = "gone" /\ "free" \notin Range(todo)
      touching == todo # <<>> /\ Head(todo) \in {"bufferFlush", "close", "open", "dumpHeader",
                                                 "full", "free"}
  IN touching \/ freed => NothingToPrint

\* When flush() or close() returns, all that was dumped is in the file.
FlushedIsWritten ==
  At("return") => m_wrBuf = <<>> /\ NothingToPrint

\* To its reader a file is a sequence of snapshots.
ReadRecord(log, record) ==
  CASE record[1] = "time" ->
         Append(log, [time |-> record[2],
                      values |-> IF log = <<>> THEN <<>> ELSE Last(log).values])
    [] record[1] = "value" ->
         [log EXCEPT ![Len(log)].values = (record[2] :> record[3]) @@ @]
    [] OTHER -> log

Read(records) ==
  LET log[i \in 0 .. Len(records)] ==
        IF i = 0 THEN <<>> ELSE ReadRecord(log[i - 1], records[i])
  IN log[Len(records)]

\* The files as they will be once the worker and the write buffer are empty.
Logs ==
  [i \in DOMAIN files |->
     Read(IF i = Len(files) /\ m_isOpen THEN files[i] \o m_wrBuf \o Pending ELSE files[i])]

Log == INSTANCE TraceLog WITH
  open <- m_isOpen,
  last <- m_timeLastDump,
  due <- \E step \in {"dump", "full", "change"} : step \in Range(todo),
  logs <- Logs

LogSpec == Log!Spec

\* Every call returns: the worker is never waited for in vain.
CallsReturn == ~Idle ~> Idle \/ todo = <<"gone">>
=============================================================================
