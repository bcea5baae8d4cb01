--------------------------- MODULE TraceWorkerProofs ---------------------------
(***************************************************************************)
(* Tracing with a worker, for all signals, times, numbers of buffers and    *)
(* sizes of files.  The theorems assume that nothing is called after close, *)
(* since flush() then waits for a worker that is gone.                      *)
(*                                                                         *)
(* The inductive invariant is TraceInv.  Its parts:                         *)
(*   Control    what may be left of a call, with the file open or closed    *)
(*              and the worker at work, not yet started or gone;            *)
(*   BufferInv  each buffer is with one of the two queues, the simulation   *)
(*              and the worker;                                             *)
(*   Rests      where the worker must keep quiet, no buffer is with it;     *)
(*   WaitedFor  a buffer the simulation waits for is the last on its way;   *)
(*   Readable   what is on its way ends in END or SHUTDOWN, the latter only *)
(*              while the worker is being joined;                           *)
(*   Written    a closed file has left nothing in the write buffer.         *)
(***************************************************************************)
EXTENDS TraceWorker, SequenceTheorems, FiniteSetTheorems, TLAPS

-----------------------------------------------------------------------------
(* Sequences.                                                               *)

LEMMA EmptyBefore == ASSUME NEW S, NEW s \in Seq(S) PROVE <<>> \o s = s
BY ConcatEmptySeq

LEMMA AppendOnce ==
  ASSUME NEW S, NEW s \in Seq(S), NEW e \in S
  PROVE  /\ Append(s, e) \in Seq(S) /\ Len(Append(s, e)) = Len(s) + 1
         /\ Range(Append(s, e)) = Range(s) \cup {e}
         /\ IsInjective(s) /\ e \notin Range(s) => IsInjective(Append(s, e))
         /\ Last(Append(s, e)) = e
<1> DEFINE t == Append(s, e)
<1>1. t \in Seq(S) /\ Len(t) = Len(s) + 1 /\ DOMAIN t = 1 .. Len(s) + 1 /\ DOMAIN s = 1 .. Len(s)
      /\ Len(s) \in Nat
  BY AppendProperties, LenProperties
<1>2. t[Len(s) + 1] = e /\ \A i \in 1 .. Len(s) : t[i] = s[i]
  BY AppendProperties
<1>3. \A n \in Nat : \A i \in 1 .. n + 1 : i = n + 1 \/ i \in 1 .. n
  OBVIOUS
<1>4. Range(t) = Range(s) \cup {e}
  <2>1. \A i \in DOMAIN t : t[i] \in Range(s) \cup {e}
    BY <1>1, <1>2, <1>3 DEF Range
  <2>2. \A x \in Range(s) \cup {e} : \E i \in DOMAIN t : t[i] = x
    BY <1>1, <1>2 DEF Range
  <2> QED BY <2>1, <2>2 DEF Range
<1>5. IsInjective(s) /\ e \notin Range(s) => IsInjective(t)
  BY <1>1, <1>2, <1>3 DEF IsInjective, Range
<1> QED BY <1>1, <1>2, <1>4, <1>5 DEF Last

LEMMA TailOnce ==
  ASSUME NEW S, NEW s \in Seq(S), s # <<>>
  PROVE  /\ Head(s) \in S /\ Tail(s) \in Seq(S) /\ Len(Tail(s)) = Len(s) - 1
         /\ Range(s) = Range(Tail(s)) \cup {Head(s)}
         /\ IsInjective(s) => IsInjective(Tail(s)) /\ Head(s) \notin Range(Tail(s))
         /\ IF Tail(s) = <<>> THEN Last(s) = Head(s) ELSE Last(Tail(s)) = Last(s)
<1> DEFINE t == Tail(s)
<1>1. t \in Seq(S) /\ Len(t) = Len(s) - 1 /\ DOMAIN t = 1 .. Len(t) /\ DOMAIN s = 1 .. Len(s)
      /\ Len(s) \in Nat \ {0} /\ Head(s) = s[1] /\ Head(s) \in S
  BY HeadTailProperties, LenProperties, EmptySeq
<1>2. \A i \in 1 .. Len(t) : t[i] = s[i + 1] /\ i + 1 \in DOMAIN s
  BY <1>1, HeadTailProperties
<1>3. \A i \in DOMAIN s : i = 1 \/ (i - 1 \in 1 .. Len(t) /\ t[i - 1] = s[i])
  <2> SUFFICES ASSUME NEW i \in DOMAIN s, i # 1
               PROVE  i - 1 \in 1 .. Len(t) /\ t[i - 1] = s[i]
    OBVIOUS
  <2>1. i - 1 \in 1 .. Len(t) /\ (i - 1) + 1 = i
    BY <1>1
  <2> QED BY <2>1, <1>2
<1>4. Range(s) = Range(t) \cup {Head(s)}
  <2>1. \A i \in DOMAIN s : s[i] \in Range(t) \cup {Head(s)}
    BY <1>1, <1>3 DEF Range
  <2>2. \A i \in DOMAIN t : t[i] \in Range(s)
    BY <1>1, <1>2 DEF Range
  <2>3. Head(s) \in Range(s)
    BY <1>1 DEF Range
  <2> QED BY <2>1, <2>2, <2>3 DEF Range
<1>5. IsInjective(s) => IsInjective(t) /\ Head(s) \notin Range(t)
  BY <1>1, <1>2 DEF IsInjective, Range
<1> HIDE DEF t
<1>6. IF t = <<>> THEN Last(s) = Head(s) ELSE Last(t) = Last(s)
  <2>1. CASE t = <<>>
    <3>1. Len(t) = 0
      BY <2>1, EmptySeq
    <3>2. Len(s) = 1
      BY <1>1, <3>1
    <3> QED BY <1>1, <2>1, <3>2 DEF Last
  <2>2. CASE t # <<>>
    <3>1. Len(t) \in Nat \ {0}
      BY <1>1, <2>2, EmptySeq
    <3>2. Len(t) \in 1 .. Len(t) /\ Len(t) + 1 = Len(s)
      BY <1>1, <3>1
    <3> QED BY <1>2, <2>2, <3>2 DEF Last
  <2> QED BY <2>1, <2>2
<1> QED BY <1>1, <1>4, <1>5, <1>6 DEF t

LEMMA PrependOnce ==
  ASSUME NEW S, NEW s \in Seq(S), NEW e \in S
  PROVE  /\ <<e>> \o s \in Seq(S) /\ Len(<<e>> \o s) = Len(s) + 1 /\ <<e>> \o s # <<>>
         /\ Head(<<e>> \o s) = e /\ Tail(<<e>> \o s) = s
         /\ Range(<<e>> \o s) = Range(s) \cup {e}
         /\ IsInjective(s) /\ e \notin Range(s) => IsInjective(<<e>> \o s)
<1> DEFINE t == <<e>> \o s
<1>1. <<e>> \in Seq(S) /\ Len(<<e>>) = 1 /\ <<e>>[1] = e
  OBVIOUS
<1>2. t \in Seq(S) /\ Len(t) = 1 + Len(s)
      /\ \A i \in 1 .. 1 + Len(s) : t[i] = IF i <= 1 THEN <<e>>[i] ELSE s[i - 1]
  BY <1>1, ConcatProperties
<1>3. DOMAIN t = 1 .. Len(t) /\ DOMAIN s = 1 .. Len(s) /\ Len(s) \in Nat
  BY <1>2, LenProperties
<1>4. t[1] = e /\ \A i \in 1 .. Len(s) : i + 1 \in DOMAIN t /\ t[i + 1] = s[i]
  <2>1. t[1] = e
    BY <1>1, <1>2, <1>3
  <2>2. ASSUME NEW i \in 1 .. Len(s) PROVE i + 1 \in DOMAIN t /\ t[i + 1] = s[i]
    <3>1. i + 1 \in 1 .. 1 + Len(s) /\ ~(i + 1 <= 1) /\ (i + 1) - 1 = i
      BY <1>3
    <3> QED BY <1>2, <1>3, <3>1
  <2> QED BY <2>1, <2>2
<1>5. \A i \in DOMAIN t : i = 1 \/ (i - 1 \in 1 .. Len(s) /\ t[i] = s[i - 1])
  <2> SUFFICES ASSUME NEW i \in DOMAIN t, i # 1
               PROVE  i - 1 \in 1 .. Len(s) /\ t[i] = s[i - 1]
    OBVIOUS
  <2>1. i - 1 \in 1 .. Len(s) /\ (i - 1) + 1 = i
    BY <1>2, <1>3
  <2> QED BY <2>1, <1>4
<1>6. t # <<>>
  BY <1>2, <1>3, EmptySeq
<1>7. Head(t) = e /\ Tail(t) = s
  <2>1. Head(t) = t[1] /\ Tail(t) \in Seq(S) /\ Len(Tail(t)) = Len(s)
        /\ \A i \in 1 .. Len(Tail(t)) : Tail(t)[i] = t[i + 1]
    BY <1>2, <1>3, <1>6, HeadTailProperties
  <2>2. \A i \in 1 .. Len(Tail(t)) : Tail(t)[i] = s[i]
    BY <1>4, <2>1
  <2> QED BY <1>4, <2>1, <2>2, SeqEqual
<1>8. Range(t) = Range(s) \cup {e}
  <2>1. \A i \in DOMAIN t : t[i] \in Range(s) \cup {e}
    BY <1>3, <1>4, <1>5 DEF Range
  <2>2. e \in Range(t)
    BY <1>2, <1>3, <1>4 DEF Range
  <2>3. \A i \in DOMAIN s : s[i] \in Range(t)
    BY <1>3, <1>4 DEF Range
  <2> QED BY <2>1, <2>2, <2>3 DEF Range
<1>9. IsInjective(s) /\ e \notin Range(s) => IsInjective(t)
  <2> HAVE IsInjective(s) /\ e \notin Range(s)
  <2> SUFFICES ASSUME NEW i \in DOMAIN t, NEW j \in DOMAIN t, t[i] = t[j] PROVE i = j
    BY DEF IsInjective
  <2>1. i = 1 <=> j = 1
    BY <1>3, <1>4, <1>5 DEF Range
  <2>2. ASSUME i # 1 PROVE i = j
    <3>1. i - 1 = j - 1
      BY <1>3, <1>5, <2>1, <2>2 DEF IsInjective
    <3> QED BY <3>1, <1>2, <1>3
  <2> QED BY <2>1, <2>2
<1> QED BY <1>2, <1>3, <1>6, <1>7, <1>8, <1>9

LEMMA FrontOnce ==
  ASSUME NEW S, NEW s \in Seq(S), s # <<>>
  PROVE  /\ Last(s) \in S /\ Front(s) \in Seq(S) /\ Len(Front(s)) = Len(s) - 1
         /\ Range(s) = Range(Front(s)) \cup {Last(s)}
         /\ IsInjective(s) => IsInjective(Front(s)) /\ Last(s) \notin Range(Front(s))
<1> PICK t \in Seq(S), e \in S : s = Append(t, e)
  BY SequenceEmptyOrAppend
<1>1. Len(s) = Len(t) + 1 /\ Len(t) \in Nat /\ s[Len(s)] = e
      /\ \A i \in 1 .. Len(t) : s[i] = t[i]
  BY AppendProperties, LenProperties
<1>2. Front(s) = t
  <2>1. \A i \in 1 .. Len(t) : s[i] \in S
    BY <1>1, ElementOfSeq
  <2>2. 1 \in Int /\ Len(t) \in Int /\ Len(t) - 1 + 1 = Len(t)
        /\ (IF 1 <= Len(t) THEN Len(t) - 1 + 1 ELSE 0) = Len(t)
    BY <1>1
  <2> DEFINE f == SubSeq(s, 1, Len(t))
  <2>3. f \in Seq(S) /\ Len(f) = (IF 1 <= Len(t) THEN Len(t) - 1 + 1 ELSE 0)
        /\ \A i \in 1 .. Len(t) - 1 + 1 : f[i] = s[1 + i - 1]
    BY <2>1, <2>2, SubSeqProperties
  <2>4. \A i \in 1 .. Len(t) : 1 + i - 1 = i
    BY <1>1
  <2>5. \A i \in 1 .. Len(t) : f[i] = t[i]
    BY <1>1, <2>2, <2>3, <2>4
  <2> HIDE DEF f
  <2>6. f = t
    BY <2>2, <2>3, <2>5, SeqEqual
  <2>7. Len(s) - 1 = Len(t)
    BY <1>1
  <2> QED BY <2>6, <2>7 DEF Front, f
<1>3. Last(s) = e
  BY <1>1 DEF Last
<1>4. Range(s) = Range(t) \cup {e}
  BY AppendOnce
<1>5. DOMAIN s = 1 .. Len(s) /\ DOMAIN t = 1 .. Len(t)
  BY LenProperties
<1>6. IsInjective(s) => IsInjective(t) /\ e \notin Range(t)
  BY <1>1, <1>5 DEF IsInjective, Range
<1> QED BY <1>1, <1>2, <1>3, <1>4, <1>6

LEMMA ConcatOnce ==
  ASSUME NEW S, NEW s \in Seq(S), NEW t \in Seq(S),
         IsInjective(s), IsInjective(t), Range(s) \cap Range(t) = {}
  PROVE  s \o t \in Seq(S) /\ IsInjective(s \o t) /\ Range(s \o t) = Range(s) \cup Range(t)
         /\ Len(s \o t) = Len(s) + Len(t)
<1> DEFINE u == s \o t
<1>1. u \in Seq(S) /\ Len(u) = Len(s) + Len(t)
      /\ \A i \in 1 .. Len(s) + Len(t) : u[i] = IF i <= Len(s) THEN s[i] ELSE t[i - Len(s)]
  BY ConcatProperties
<1>2. DOMAIN u = 1 .. Len(s) + Len(t) /\ DOMAIN s = 1 .. Len(s) /\ DOMAIN t = 1 .. Len(t)
      /\ Len(s) \in Nat /\ Len(t) \in Nat
  BY <1>1, LenProperties
<1>3. \A m, n \in Nat : \A i \in 1 .. m + n : IF i <= m THEN i \in 1 .. m ELSE i - m \in 1 .. n
  OBVIOUS
<1>4. \A m, n \in Nat : \A i, j \in 1 .. m + n : i - m = j - m => i = j
  OBVIOUS
<1>5. ASSUME NEW i \in DOMAIN u, NEW j \in DOMAIN u, u[i] = u[j] PROVE i = j
  <2>1. CASE i <= Len(s) /\ j <= Len(s)
    BY <1>1, <1>2, <1>3, <1>5, <2>1 DEF IsInjective
  <2>2. CASE ~(i <= Len(s)) /\ ~(j <= Len(s))
    <3>1. i - Len(s) = j - Len(s)
      BY <1>1, <1>2, <1>3, <1>5, <2>2 DEF IsInjective
    <3> QED BY <1>2, <1>4, <3>1
  <2>3. CASE i <= Len(s) /\ ~(j <= Len(s))
    BY <1>1, <1>2, <1>3, <1>5, <2>3 DEF Range
  <2>4. CASE ~(i <= Len(s)) /\ j <= Len(s)
    BY <1>1, <1>2, <1>3, <1>5, <2>4 DEF Range
  <2> QED BY <2>1, <2>2, <2>3, <2>4
<1>6. Range(u) = Range(s) \cup Range(t)
  BY RangeConcatenation
<1> QED BY <1>1, <1>5, <1>6 DEF IsInjective

-----------------------------------------------------------------------------
(* What may be left of a call.  Step(a, R): the step a, then one of R.       *)

Steps == {"open", "dumpHeader", "dump", "get", "end", "shutdown", "change", "wait", "putBack",
          "full", "bufferFlush", "close", "join", "delete", "free", "return", "gone"}

Step(a, R) == {s \in Seq(Steps) : s # <<>> /\ Head(s) = a /\ Tail(s) \in R}

Nothing == {<<>>}
Wait(R) == Step("wait", R) \cup Step("putBack", R)

\* flushBase, or what is left of it, before R.
FromEnd(R) == Step("end", Step("wait", R))
FromGet(R) == Step("get", FromEnd(R))
Flushing(R) == FromGet(R) \cup FromEnd(R) \cup Wait(R)

Returning == Step("return", Nothing)
Going == Step("gone", Nothing)
Freeing == Step("free", Step("delete", Going))

\* shutdownWorker and closeBase, before R
Joining(R) == Step("join", Step("delete", R))
FromShutdown(R) == Step("shutdown", Step("wait", Joining(R)))
ClosingBase(R) == Step("get", FromShutdown(R))
AfterClosing == Returning \cup Freeing \cup Going

Stopping == ClosingBase(AfterClosing) \cup FromShutdown(AfterClosing)
Ending == Wait(Joining(AfterClosing))
Destroying == Step("free", ClosingBase(Going))

Continuing == Step("dump", Nothing)
Opening == Step("open", Nothing \cup Continuing)
FirstOpening == Step("open", Step("dumpHeader", Nothing))
ClosingFile == Step("close", Opening \cup ClosingBase(Returning \cup Freeing))
Writing == Step("bufferFlush", ClosingFile)

Heading == Step("dumpHeader", Nothing)
Changing == Step("change", Nothing)
Dumping == Step("full", Nothing)
Syncing == Step("bufferFlush", Returning)

WhileOpen ==
  Flushing(Writing) \cup Writing \cup ClosingFile \cup Flushing(Dumping) \cup Dumping
    \cup Step("get", Changing) \cup Changing

WhileClosed == Opening \cup Stopping \cup Destroying

Stopped == Step("delete", AfterClosing) \cup Freeing \cup Going

Alive == worker \in {"get", "read"}

\* A call works on an open file or on none, with a worker or without one.
Control ==
  /\ m_isOpen \in BOOLEAN
  /\ worker \in {"none", "get", "read", "exited"}
  /\ \/ todo \in WhileOpen /\ m_isOpen /\ Alive
     \/ todo \in WhileClosed /\ ~m_isOpen /\ Alive
     \/ todo \in Ending \cup Joining(AfterClosing) /\ ~m_isOpen /\ worker # "none"
     \/ todo \in FirstOpening \cup Stopped /\ ~m_isOpen /\ worker = "none"
     \/ todo \in Heading /\ m_isOpen /\ worker = "none"
     \/ todo \in Flushing(Syncing) /\ Alive
     \/ /\ todo \in Nothing \cup Continuing \cup Syncing \cup Returning
        /\ worker # "exited" /\ (m_isOpen => Alive)

LEMMA Stepping ==
  \A a, R, s : s \in Step(a, R) <=> s \in Seq(Steps) /\ s # <<>> /\ Head(s) = a /\ Tail(s) \in R
BY DEF Step

LEMMA Finished == \A s : s \in Nothing <=> s = <<>>
BY DEF Nothing

LEMMA Left == Control => todo \in Seq(Steps)
<1> HAVE Control
<1>1. todo \in Nothing \/ todo \in Seq(Steps)
  BY Stepping
  DEF Control, WhileOpen, WhileClosed, Ending, Joining, FirstOpening, Stopped, Heading, Flushing,
      FromGet, FromEnd, Wait, Continuing, Syncing, Returning, Writing, ClosingFile,
      Dumping, Changing, Opening, Stopping, Destroying, ClosingBase, FromShutdown, Freeing, Going
<1>2. <<>> \in Seq(Steps)
  BY EmptySeq
<1> QED BY <1>1, <1>2, Finished

\* Where each step is taken, and what comes after it.

LEMMA AtGet ==
  ASSUME Control, At("get")
  PROVE  /\ Alive
         /\ \/ Tail(todo) \in FromEnd(Writing) \cup FromEnd(Dumping) \cup Changing /\ m_isOpen
            \/ Tail(todo) \in FromEnd(Syncing)
            \/ Tail(todo) \in FromShutdown(AfterClosing) /\ ~m_isOpen
BY Stepping, Finished
DEF Control, At, WhileOpen, WhileClosed, Ending, Joining, FirstOpening, Stopped, Heading, Flushing,
    FromGet, FromEnd, Wait, Continuing, Syncing, Returning, Writing, ClosingFile, Dumping,
    Changing, Opening, Stopping, Destroying, ClosingBase, FromShutdown, Freeing, Going

LEMMA AtEnd ==
  ASSUME Control, At("end")
  PROVE  /\ Alive
         /\ \/ Tail(todo) \in Step("wait", Writing) \cup Step("wait", Dumping) /\ m_isOpen
            \/ Tail(todo) \in Step("wait", Syncing)
BY Stepping, Finished
DEF Control, At, WhileOpen, WhileClosed, Ending, Joining, FirstOpening, Stopped, Heading, Flushing,
    FromGet, FromEnd, Wait, Continuing, Syncing, Returning, Writing, ClosingFile, Dumping,
    Changing, Opening, Stopping, Destroying, ClosingBase, FromShutdown, Freeing, Going

LEMMA AtShutdown ==
  ASSUME Control, At("shutdown")
  PROVE  /\ Alive /\ ~m_isOpen
         /\ Tail(todo) \in Step("wait", Joining(AfterClosing))
BY Stepping, Finished
DEF Control, At, WhileOpen, WhileClosed, Ending, Joining, FirstOpening, Stopped, Heading, Flushing,
    FromGet, FromEnd, Wait, Continuing, Syncing, Returning, Writing, ClosingFile, Dumping,
    Changing, Opening, Stopping, Destroying, ClosingBase, FromShutdown, Freeing, Going

LEMMA AtChange ==
  ASSUME Control, At("change")
  PROVE  /\ Alive /\ m_isOpen
         /\ Tail(todo) \in Nothing
BY Stepping, Finished
DEF Control, At, WhileOpen, WhileClosed, Ending, Joining, FirstOpening, Stopped, Heading, Flushing,
    FromGet, FromEnd, Wait, Continuing, Syncing, Returning, Writing, ClosingFile, Dumping,
    Changing, Opening, Stopping, Destroying, ClosingBase, FromShutdown, Freeing, Going

LEMMA AtWaitOrPutBack ==
  ASSUME Control, At("wait") \/ At("putBack")
  PROVE  \/ Tail(todo) \in Writing \cup Dumping /\ m_isOpen /\ Alive
         \/ Tail(todo) \in Syncing /\ Alive
         \/ Tail(todo) \in Joining(AfterClosing) /\ ~m_isOpen /\ worker # "none"
BY Stepping, Finished
DEF Control, At, WhileOpen, WhileClosed, Ending, Joining, FirstOpening, Stopped, Heading, Flushing,
    FromGet, FromEnd, Wait, Continuing, Syncing, Returning, Writing, ClosingFile, Dumping,
    Changing, Opening, Stopping, Destroying, ClosingBase, FromShutdown, Freeing, Going

LEMMA AtJoin ==
  ASSUME Control, At("join")
  PROVE  /\ worker # "none" /\ ~m_isOpen
         /\ Tail(todo) \in Step("delete", AfterClosing)
BY Stepping, Finished
DEF Control, At, WhileOpen, WhileClosed, Ending, Joining, FirstOpening, Stopped, Heading, Flushing,
    FromGet, FromEnd, Wait, Continuing, Syncing, Returning, Writing, ClosingFile, Dumping,
    Changing, Opening, Stopping, Destroying, ClosingBase, FromShutdown, Freeing, Going

LEMMA AtDelete ==
  ASSUME Control, At("delete")
  PROVE  /\ worker = "none" /\ ~m_isOpen
         /\ Tail(todo) \in AfterClosing
BY Stepping, Finished
DEF Control, At, WhileOpen, WhileClosed, Ending, Joining, FirstOpening, Stopped, Heading, Flushing,
    FromGet, FromEnd, Wait, Continuing, Syncing, Returning, Writing, ClosingFile, Dumping,
    Changing, Opening, Stopping, Destroying, ClosingBase, FromShutdown, Freeing, Going

LEMMA AtBufferFlush ==
  ASSUME Control, At("bufferFlush")
  PROVE  \/ Tail(todo) \in ClosingFile /\ m_isOpen /\ Alive
         \/ Tail(todo) \in Returning /\ worker # "exited" /\ (m_isOpen => Alive)
BY Stepping, Finished
DEF Control, At, WhileOpen, WhileClosed, Ending, Joining, FirstOpening, Stopped, Heading, Flushing,
    FromGet, FromEnd, Wait, Continuing, Syncing, Returning, Writing, ClosingFile, Dumping,
    Changing, Opening, Stopping, Destroying, ClosingBase, FromShutdown, Freeing, Going

LEMMA AtClose ==
  ASSUME Control, At("close")
  PROVE  /\ Alive /\ m_isOpen
         /\ Tail(todo) \in Opening \cup ClosingBase(Returning \cup Freeing)
BY Stepping, Finished
DEF Control, At, WhileOpen, WhileClosed, Ending, Joining, FirstOpening, Stopped, Heading, Flushing,
    FromGet, FromEnd, Wait, Continuing, Syncing, Returning, Writing, ClosingFile, Dumping,
    Changing, Opening, Stopping, Destroying, ClosingBase, FromShutdown, Freeing, Going

LEMMA AtOpen ==
  ASSUME Control, At("open")
  PROVE  /\ ~m_isOpen
         /\ \/ Tail(todo) \in Nothing \cup Continuing /\ Alive
            \/ Tail(todo) \in Heading /\ worker = "none"
BY Stepping, Finished
DEF Control, At, WhileOpen, WhileClosed, Ending, Joining, FirstOpening, Stopped, Heading, Flushing,
    FromGet, FromEnd, Wait, Continuing, Syncing, Returning, Writing, ClosingFile, Dumping,
    Changing, Opening, Stopping, Destroying, ClosingBase, FromShutdown, Freeing, Going

LEMMA AtFree ==
  ASSUME Control, At("free")
  PROVE  /\ ~m_isOpen
         /\ \/ Tail(todo) \in Step("delete", Going) /\ worker = "none"
            \/ Tail(todo) \in ClosingBase(Going) /\ Alive
BY Stepping, Finished
DEF Control, At, WhileOpen, WhileClosed, Ending, Joining, FirstOpening, Stopped, Heading, Flushing,
    FromGet, FromEnd, Wait, Continuing, Syncing, Returning, Writing, ClosingFile, Dumping,
    Changing, Opening, Stopping, Destroying, ClosingBase, FromShutdown, Freeing, Going

LEMMA AtFull ==
  ASSUME Control, At("full")
  PROVE  /\ Alive /\ m_isOpen
         /\ Tail(todo) \in Nothing
BY Stepping, Finished
DEF Control, At, WhileOpen, WhileClosed, Ending, Joining, FirstOpening, Stopped, Heading, Flushing,
    FromGet, FromEnd, Wait, Continuing, Syncing, Returning, Writing, ClosingFile, Dumping,
    Changing, Opening, Stopping, Destroying, ClosingBase, FromShutdown, Freeing, Going

LEMMA AtDumpHeader ==
  ASSUME Control, At("dumpHeader")
  PROVE  /\ worker = "none" /\ m_isOpen
         /\ Tail(todo) \in Nothing
BY Stepping, Finished
DEF Control, At, WhileOpen, WhileClosed, Ending, Joining, FirstOpening, Stopped, Heading, Flushing,
    FromGet, FromEnd, Wait, Continuing, Syncing, Returning, Writing, ClosingFile, Dumping,
    Changing, Opening, Stopping, Destroying, ClosingBase, FromShutdown, Freeing, Going

LEMMA AtDump ==
  ASSUME Control, At("dump")
  PROVE  /\ worker # "exited" /\ (m_isOpen => Alive)
         /\ Tail(todo) \in Nothing
BY Stepping, Finished
DEF Control, At, WhileOpen, WhileClosed, Ending, Joining, FirstOpening, Stopped, Heading, Flushing,
    FromGet, FromEnd, Wait, Continuing, Syncing, Returning, Writing, ClosingFile, Dumping,
    Changing, Opening, Stopping, Destroying, ClosingBase, FromShutdown, Freeing, Going

LEMMA AtReturn ==
  ASSUME Control, At("return")
  PROVE  /\ worker # "exited" /\ (m_isOpen => Alive)
         /\ Tail(todo) \in Nothing
BY Stepping, Finished
DEF Control, At, WhileOpen, WhileClosed, Ending, Joining, FirstOpening, Stopped, Heading, Flushing,
    FromGet, FromEnd, Wait, Continuing, Syncing, Returning, Writing, ClosingFile, Dumping,
    Changing, Opening, Stopping, Destroying, ClosingBase, FromShutdown, Freeing, Going

LEMMA AtRest ==
  ASSUME Control, Idle
  PROVE  worker # "exited" /\ (m_isOpen => Alive)
BY Stepping, Finished
DEF Control, Idle, WhileOpen, WhileClosed, Ending, Joining, FirstOpening, Stopped, Heading, Flushing,
    FromGet, FromEnd, Wait, Continuing, Syncing, Returning, Writing, ClosingFile, Dumping,
    Changing, Opening, Stopping, Destroying, ClosingBase, FromShutdown, Freeing, Going

-----------------------------------------------------------------------------
(* What the calls begin with.                                                *)

LEMMA HeadTailConcat ==
  ASSUME NEW S, NEW s \in Seq(S), NEW t \in Seq(S), s # <<>>
  PROVE  s \o t \in Seq(S) /\ s \o t # <<>> /\ Head(s \o t) = Head(s) /\ Tail(s \o t) = Tail(s) \o t
<1> DEFINE u == s \o t
           v == Tail(s) \o t
<1>1. u \in Seq(S) /\ Len(u) = Len(s) + Len(t)
      /\ \A i \in 1 .. Len(s) + Len(t) : u[i] = IF i <= Len(s) THEN s[i] ELSE t[i - Len(s)]
  BY ConcatProperties
<1>2. /\ Tail(s) \in Seq(S) /\ Len(Tail(s)) = Len(s) - 1 /\ Len(s) \in Nat \ {0} /\ Len(t) \in Nat
      /\ Head(s) = s[1] /\ \A i \in 1 .. Len(Tail(s)) : Tail(s)[i] = s[i + 1]
  BY HeadTailProperties, LenProperties, EmptySeq
<1>3. v \in Seq(S) /\ Len(v) = (Len(s) - 1) + Len(t)
      /\ \A i \in 1 .. (Len(s) - 1) + Len(t) :
           v[i] = IF i <= Len(s) - 1 THEN Tail(s)[i] ELSE t[i - (Len(s) - 1)]
  BY <1>2, ConcatProperties
<1> HIDE DEF u, v
<1>4. u # <<>>
  BY <1>1, <1>2, EmptySeq
<1>5. Tail(u) \in Seq(S) /\ Len(Tail(u)) = Len(u) - 1 /\ Head(u) = u[1]
      /\ \A i \in 1 .. Len(Tail(u)) : Tail(u)[i] = u[i + 1]
  BY <1>1, <1>4, HeadTailProperties
<1>6. \A m \in Nat \ {0}, n \in Nat :
        /\ (m - 1) + n = (m + n) - 1 /\ 1 \in 1 .. m + n /\ 1 <= m
        /\ \A i \in 1 .. (m - 1) + n :
             /\ i + 1 \in 1 .. m + n /\ (i <= m - 1 <=> i + 1 <= m) /\ i - (m - 1) = (i + 1) - m
             /\ i <= m - 1 => i \in 1 .. m - 1
  OBVIOUS
<1>7. Len(Tail(u)) = Len(v)
  BY <1>1, <1>2, <1>3, <1>5, <1>6
<1>8. Head(u) = Head(s)
  BY <1>1, <1>2, <1>5, <1>6
<1>9. ASSUME NEW i \in 1 .. Len(v) PROVE Tail(u)[i] = v[i]
  <2>1. /\ i \in 1 .. (Len(s) - 1) + Len(t) /\ i + 1 \in 1 .. Len(s) + Len(t)
        /\ i <= Len(s) - 1 <=> i + 1 <= Len(s)
        /\ i - (Len(s) - 1) = (i + 1) - Len(s)
        /\ i <= Len(s) - 1 => i \in 1 .. Len(s) - 1
    BY <1>2, <1>3, <1>6
  <2>2. Tail(u)[i] = u[i + 1]
    BY <1>5, <1>7
  <2>3. u[i + 1] = IF i + 1 <= Len(s) THEN s[i + 1] ELSE t[(i + 1) - Len(s)]
    BY <1>1, <2>1
  <2>4. v[i] = IF i <= Len(s) - 1 THEN Tail(s)[i] ELSE t[i - (Len(s) - 1)]
    BY <1>3, <2>1
  <2>5. i <= Len(s) - 1 => Tail(s)[i] = s[i + 1]
    BY <1>2, <2>1
  <2> QED BY <2>1, <2>2, <2>3, <2>4, <2>5
<1>10. Tail(u) = v
  BY <1>3, <1>5, <1>7, <1>9, SeqEqual
<1> QED BY <1>1, <1>4, <1>8, <1>10 DEF u, v

LEMMA FirstStep ==
  ASSUME NEW s \in Seq(Steps), NEW t \in Seq(Steps), NEW R, s # <<>>, Tail(s) \o t \in R
  PROVE  s \o t \in Step(Head(s), R)
<1> DEFINE u == s \o t
<1>1. u \in Seq(Steps) /\ u # <<>> /\ Head(u) = Head(s) /\ Tail(u) = Tail(s) \o t
  BY HeadTailConcat
<1>2. Tail(u) \in R
  BY <1>1
<1> HIDE DEF u
<1>3. u \in Step(Head(s), R)
  BY <1>1, <1>2 DEF Step
<1> QED BY <1>3 DEF u

LEMMA OneStep ==
  ASSUME NEW a \in Steps PROVE <<a>> \in Step(a, Nothing)
<1>1. <<a>> \in Seq(Steps) /\ <<a>> # <<>> /\ Head(<<a>>) = a /\ Tail(<<a>>) = <<>>
  OBVIOUS
<1> QED BY <1>1, Stepping, Finished

LEMMA StepBefore ==
  ASSUME NEW a \in Steps, NEW R, NEW r \in Seq(Steps), r \in R
  PROVE  <<a>> \o r \in Step(a, R)
<1> DEFINE u == <<a>> \o r
<1>1. u \in Seq(Steps) /\ u # <<>> /\ Head(u) = a /\ Tail(u) = r
  BY PrependOnce
<1> HIDE DEF u
<1>2. u \in Step(a, R)
  BY <1>1 DEF Step
<1> QED BY <1>2 DEF u

LEMMA FlushingBefore ==
  ASSUME NEW R, NEW r \in Seq(Steps), r \in R
  PROVE  flushBase \in Seq(Steps) /\ flushBase \o r \in FromGet(R)
<1>1. flushBase \in Seq(Steps) /\ <<"end", "wait">> \in Seq(Steps) /\ <<"wait">> \in Seq(Steps)
  BY DEF flushBase, Steps
<1>2. <<"wait">> \o r \in Step("wait", R)
  BY StepBefore DEF Steps
<1>3. <<"end", "wait">> \o r \in FromEnd(R)
  <2>1. Tail(<<"end", "wait">>) = <<"wait">> /\ Head(<<"end", "wait">>) = "end" /\ <<"end", "wait">> # <<>>
    OBVIOUS
  <2> QED BY <1>1, <1>2, <2>1, FirstStep DEF FromEnd
<1>4. flushBase \o r \in FromGet(R)
  <2>1. Tail(flushBase) = <<"end", "wait">> /\ Head(flushBase) = "get" /\ flushBase # <<>>
    BY DEF flushBase
  <2> QED BY <1>1, <1>3, <2>1, FirstStep DEF FromGet
<1> QED BY <1>1, <1>4

LEMMA ClosingBefore ==
  ASSUME NEW r \in Seq(Steps), r \in Opening \cup ClosingBase(Returning \cup Freeing), m_isOpen
  PROVE  closePrev \in Seq(Steps) /\ closePrev \o r \in FromGet(Writing)
<1>1. <<"bufferFlush", "close">> \in Seq(Steps) /\ <<"close">> \in Seq(Steps)
  BY DEF Steps
<1>2. <<"close">> \o r \in ClosingFile
  BY StepBefore DEF Steps, ClosingFile
<1>3. <<"bufferFlush", "close">> \o r \in Writing
  <2>1. /\ Tail(<<"bufferFlush", "close">>) = <<"close">>
        /\ Head(<<"bufferFlush", "close">>) = "bufferFlush" /\ <<"bufferFlush", "close">> # <<>>
    OBVIOUS
  <2> QED BY <1>1, <1>2, <2>1, FirstStep DEF Writing
<1>4. <<"bufferFlush", "close">> \o r \in Seq(Steps)
  BY <1>1, ConcatProperties
<1>5. flushBase \in Seq(Steps) /\ flushBase \o (<<"bufferFlush", "close">> \o r) \in FromGet(Writing)
  BY <1>3, <1>4, FlushingBefore
<1>6. closePrev = flushBase \o <<"bufferFlush", "close">>
  BY DEF closePrev
<1>7. closePrev \in Seq(Steps)
  BY <1>1, <1>5, <1>6, ConcatProperties
<1>8. closePrev \o r = flushBase \o (<<"bufferFlush", "close">> \o r)
  BY <1>1, <1>5, <1>6, ConcatAssociative
<1> QED BY <1>5, <1>7, <1>8

LEMMA ReopeningBefore ==
  ASSUME NEW r \in Seq(Steps), r \in Nothing \cup Continuing
  PROVE  /\ openNextImp \in Seq(Steps)
         /\ openNextImp \o r \in IF m_isOpen THEN FromGet(Writing) ELSE Opening
<1>1. <<"open">> \in Seq(Steps)
  BY DEF Steps
<1>2. <<"open">> \o r \in Opening /\ <<"open">> \o r \in Seq(Steps)
  BY <1>1, StepBefore, ConcatProperties DEF Steps, Opening
<1>3. CASE m_isOpen
  <2>1. closePrev \in Seq(Steps) /\ closePrev \o (<<"open">> \o r) \in FromGet(Writing)
    BY <1>2, <1>3, ClosingBefore
  <2>2. openNextImp \o r = closePrev \o (<<"open">> \o r)
    BY <1>1, <2>1, ConcatAssociative DEF openNextImp
  <2> QED BY <1>1, <1>3, <2>1, <2>2, ConcatProperties DEF openNextImp
<1>4. CASE ~m_isOpen
  <2>1. closePrev = <<>>
    BY <1>4 DEF closePrev
  <2>2. openNextImp = <<"open">>
    BY <1>1, <2>1, EmptyBefore DEF openNextImp
  <2> QED BY <1>1, <1>2, <1>4, <2>2
<1> QED BY <1>3, <1>4

LEMMA ClosingBaseBefore ==
  ASSUME NEW R, NEW r \in Seq(Steps), r \in R
  PROVE  /\ closeBase \in Seq(Steps)
         /\ closeBase \o r \in IF worker = "none" THEN Step("delete", R) ELSE ClosingBase(R)
<1>1. <<"delete">> \in Seq(Steps) /\ <<"get", "shutdown", "wait", "join">> \in Seq(Steps)
  BY DEF Steps
<1>2. <<"delete">> \o r \in Step("delete", R) /\ <<"delete">> \o r \in Seq(Steps)
  BY <1>1, StepBefore, ConcatProperties DEF Steps
<1>3. CASE worker = "none"
  <2>1. closeBase = <<"delete">>
    BY <1>1, <1>3, EmptyBefore DEF closeBase
  <2> QED BY <1>1, <1>2, <1>3, <2>1
<1>4. CASE worker # "none"
  <2> DEFINE stop == <<"get", "shutdown", "wait", "join">>
             q == <<"delete">> \o r
  <2>1. closeBase = stop \o <<"delete">>
    BY <1>4 DEF closeBase
  <2>2. closeBase \in Seq(Steps) /\ closeBase \o r = stop \o q
    BY <1>1, <2>1, ConcatProperties, ConcatAssociative
  <2>3. <<"join">> \o q \in Joining(R)
    BY <1>2, StepBefore DEF Steps, Joining
  <2>4. <<"wait", "join">> \o q \in Step("wait", Joining(R))
    <3>1. /\ Tail(<<"wait", "join">>) = <<"join">> /\ Head(<<"wait", "join">>) = "wait"
          /\ <<"wait", "join">> # <<>> /\ <<"wait", "join">> \in Seq(Steps)
      BY DEF Steps
    <3> QED BY <1>2, <2>3, <3>1, FirstStep
  <2>5. <<"shutdown", "wait", "join">> \o q \in FromShutdown(R)
    <3>1. /\ Tail(<<"shutdown", "wait", "join">>) = <<"wait", "join">>
          /\ Head(<<"shutdown", "wait", "join">>) = "shutdown"
          /\ <<"shutdown", "wait", "join">> # <<>> /\ <<"shutdown", "wait", "join">> \in Seq(Steps)
      BY DEF Steps
    <3> QED BY <1>2, <2>4, <3>1, FirstStep DEF FromShutdown
  <2>6. stop \o q \in ClosingBase(R)
    <3>1. Tail(stop) = <<"shutdown", "wait", "join">> /\ Head(stop) = "get" /\ stop # <<>>
      OBVIOUS
    <3> QED BY <1>1, <1>2, <2>5, <3>1, FirstStep DEF ClosingBase
  <2> QED BY <1>4, <2>2, <2>6
<1> QED BY <1>3, <1>4

LEMMA MakeStep ==
  ASSUME NEW s \in Seq(Steps), NEW R, s # <<>>, Tail(s) \in R PROVE s \in Step(Head(s), R)
BY DEF Step

LEMMA Beginnings ==
  /\ <<"open", "dumpHeader">> \in FirstOpening
  /\ <<"get", "change">> \in Step("get", Changing) /\ <<"get", "change">> \in Seq(Steps)
  /\ <<"free", "delete", "gone">> \in Freeing /\ <<"free", "delete", "gone">> \in Seq(Steps)
  /\ <<"gone">> \in Going /\ <<"return">> \in Returning /\ <<"dump">> \in Continuing
  /\ <<"full">> \in Dumping
  /\ <<"gone">> \in Seq(Steps) /\ <<"return">> \in Seq(Steps) /\ <<"dump">> \in Seq(Steps)
  /\ <<"full">> \in Seq(Steps) /\ <<"bufferFlush">> \in Seq(Steps)
<1>1. /\ <<"dumpHeader">> \in Heading /\ <<"change">> \in Changing /\ <<"gone">> \in Going
      /\ <<"return">> \in Returning /\ <<"dump">> \in Continuing /\ <<"full">> \in Dumping
  BY OneStep DEF Steps, Heading, Changing, Going, Returning, Continuing, Dumping
<1>2. <<"open", "dumpHeader">> \in FirstOpening
  <2>1. /\ <<"open", "dumpHeader">> \in Seq(Steps) /\ <<"open", "dumpHeader">> # <<>>
        /\ Head(<<"open", "dumpHeader">>) = "open" /\ Tail(<<"open", "dumpHeader">>) = <<"dumpHeader">>
    BY DEF Steps
  <2> QED BY <1>1, <2>1, MakeStep DEF FirstOpening, Heading
<1>3. <<"get", "change">> \in Step("get", Changing) /\ <<"get", "change">> \in Seq(Steps)
  <2>1. /\ <<"get", "change">> \in Seq(Steps) /\ <<"get", "change">> # <<>>
        /\ Head(<<"get", "change">>) = "get" /\ Tail(<<"get", "change">>) = <<"change">>
    BY DEF Steps
  <2> QED BY <1>1, <2>1, MakeStep
<1>4. <<"delete", "gone">> \in Step("delete", Going)
  <2>1. /\ <<"delete", "gone">> \in Seq(Steps) /\ <<"delete", "gone">> # <<>>
        /\ Head(<<"delete", "gone">>) = "delete" /\ Tail(<<"delete", "gone">>) = <<"gone">>
    BY DEF Steps
  <2> QED BY <1>1, <2>1, MakeStep
<1>5. <<"free", "delete", "gone">> \in Freeing /\ <<"free", "delete", "gone">> \in Seq(Steps)
  <2>1. /\ <<"free", "delete", "gone">> \in Seq(Steps) /\ <<"free", "delete", "gone">> # <<>>
        /\ Head(<<"free", "delete", "gone">>) = "free"
        /\ Tail(<<"free", "delete", "gone">>) = <<"delete", "gone">>
    BY DEF Steps
  <2> QED BY <1>4, <2>1, MakeStep DEF Freeing
<1>6. /\ <<"gone">> \in Seq(Steps) /\ <<"return">> \in Seq(Steps) /\ <<"dump">> \in Seq(Steps)
      /\ <<"full">> \in Seq(Steps) /\ <<"bufferFlush">> \in Seq(Steps)
  BY DEF Steps
<1> QED BY <1>1, <1>2, <1>3, <1>5, <1>6

LEMMA GoingOn ==
  ASSUME Control, todo # <<>>, Then(<<>>)
  PROVE  todo' = Tail(todo)
<1>1. Tail(todo) \in Seq(Steps)
  BY Left, HeadTailProperties
<1> QED BY <1>1, EmptyBefore DEF Then

LEMMA ClosingBaseMore == ClosingBase(Returning \cup Freeing) \cup ClosingBase(Going) \subseteq Stopping
BY Stepping DEF ClosingBase, FromShutdown, Joining, AfterClosing, Stopping

\* A call begins with the worker at work, or with no file.
Begun == FromGet(Writing) \cup FromGet(Syncing) \cup Continuing
BegunClosed == Opening \cup FirstOpening \cup Freeing \cup Destroying

LEMMA CallsControl ==
  ASSUME Control, Call, CallsAfterClose = {}
  PROVE  Control' /\ Idle /\ (todo' \in Begun \/ (todo' \in BegunClosed /\ ~m_isOpen))
<1> DEFINE Goal == Control' /\ Idle /\ (todo' \in Begun \/ (todo' \in BegunClosed /\ ~m_isOpen))
<1>0. Idle => worker # "exited" /\ (m_isOpen => Alive)
  BY AtRest
<1> SUFFICES Goal
  OBVIOUS
<1> USE DEF Alive, Begun, BegunClosed
<1>1. CASE Open
  BY <1>1, Beginnings DEF Control, Open, fileVars, workerVars
<1>2. CASE OpenNext
  <2>1. <<>> \in Seq(Steps) /\ <<>> \in Nothing
    BY EmptySeq, Finished
  <2>2. openNextImp \in IF m_isOpen THEN FromGet(Writing) ELSE Opening
    BY <2>1, ReopeningBefore, ConcatEmptySeq
  <2> QED BY <1>0, <1>2, <2>2 DEF Control, OpenNext, fileVars, workerVars, WhileOpen, WhileClosed, Flushing
<1>3. ASSUME NEW t \in Times, NEW v \in Values, Dump(t, v) PROVE Goal
  <2> DEFINE over == ~m_fullDump /\ m_rolloverMB # 0 /\ m_wroteBytes > m_rolloverMB
  <2>1. /\ todo' = (IF over THEN openNextImp ELSE <<>>) \o <<"dump">>
        /\ over => worker # "none"
        /\ Idle /\ m_isOpen' = m_isOpen /\ worker' = worker
    BY <1>3 DEF Dump, MayCall, fileVars, workerVars
  <2> HIDE DEF over
  <2>2. openNextImp \o <<"dump">> \in IF m_isOpen THEN FromGet(Writing) ELSE Opening
    BY Beginnings, ReopeningBefore
  <2>3. <<>> \o <<"dump">> \in Continuing
    BY Beginnings, EmptyBefore
  <2>4. CASE over
    BY <1>0, <2>1, <2>2, <2>4 DEF Control, WhileOpen, WhileClosed, Flushing
  <2>5. CASE ~over
    BY <1>0, <2>1, <2>3, <2>5 DEF Control
  <2> QED BY <2>4, <2>5
<1>4. CASE Flush
  <2>1. <<"bufferFlush">> \o <<"return">> \in Syncing /\ <<"bufferFlush">> \o <<"return">> \in Seq(Steps)
    BY Beginnings, StepBefore, ConcatProperties DEF Steps, Syncing
  <2>2. flushBase \o (<<"bufferFlush">> \o <<"return">>) \in FromGet(Syncing) /\ flushBase \in Seq(Steps)
    BY <2>1, FlushingBefore
  <2>3. flush \o <<"return">> = flushBase \o (<<"bufferFlush">> \o <<"return">>)
    BY <2>2, Beginnings, ConcatAssociative DEF flush
  <2> QED BY <1>0, <1>4, <2>2, <2>3 DEF Control, Flush, MayCall, fileVars, workerVars, Flushing
<1>5. CASE Close
  <2>1. worker # "none" /\ m_isOpen
    BY <1>0, <1>5 DEF Close
  <2>2. closeBase \o <<"return">> \in ClosingBase(Returning \cup Freeing) /\ closeBase \in Seq(Steps)
    BY <2>1, Beginnings, ClosingBaseBefore
  <2>3. closeBase \o <<"return">> \in Seq(Steps)
    BY <2>2, Beginnings, ConcatProperties
  <2>4. closePrev \o (closeBase \o <<"return">>) \in FromGet(Writing) /\ closePrev \in Seq(Steps)
    BY <2>1, <2>2, <2>3, ClosingBefore
  <2>5. closePrev \o closeBase \o <<"return">> = closePrev \o (closeBase \o <<"return">>)
    BY <2>2, <2>4, Beginnings, ConcatAssociative
  <2> QED BY <1>0, <1>5, <2>1, <2>4, <2>5 DEF Control, Close, fileVars, workerVars, WhileOpen, Flushing
<1>6. CASE Destroy /\ m_isOpen
  <2>1. worker # "none"
    BY <1>0, <1>6 DEF Destroy
  <2> DEFINE rest == <<"free", "delete", "gone">>
  <2>2. rest \in Freeing /\ rest \in Seq(Steps)
    BY Beginnings
  <2> HIDE DEF rest
  <2>3. closeBase \o rest \in ClosingBase(Returning \cup Freeing) /\ closeBase \in Seq(Steps)
    BY <2>1, <2>2, ClosingBaseBefore
  <2>4. closeBase \o rest \in Seq(Steps)
    BY <2>2, <2>3, ConcatProperties
  <2>5. closePrev \o (closeBase \o rest) \in FromGet(Writing) /\ closePrev \in Seq(Steps)
    BY <1>6, <2>3, <2>4, ClosingBefore
  <2>6. closePrev \o closeBase \o rest = closePrev \o (closeBase \o rest)
    BY <2>2, <2>3, <2>5, ConcatAssociative
  <2>7. todo' = closePrev \o closeBase \o rest /\ m_isOpen' = m_isOpen /\ worker' = worker /\ Idle
    BY <1>6 DEF Destroy, rest, fileVars, workerVars
  <2> QED BY <1>0, <1>6, <2>5, <2>6, <2>7 DEF Control, WhileOpen, Flushing
<1>7. CASE Destroy /\ ~m_isOpen
  <2>1. closeBase \o <<"gone">> \in (IF worker = "none" THEN Step("delete", Going) ELSE ClosingBase(Going))
        /\ closeBase \in Seq(Steps)
    BY Beginnings, ClosingBaseBefore
  <2> DEFINE rest == closeBase \o <<"gone">>
  <2>2. rest \in Seq(Steps) /\ <<"free">> \in Seq(Steps)
    BY <2>1, Beginnings, ConcatProperties DEF Steps
  <2>3. todo' = <<"free">> \o rest /\ m_isOpen' = m_isOpen /\ worker' = worker /\ Idle
    <3>1. <<"free">> \o closeBase \o <<"gone">> = <<"free">> \o rest
      BY <2>1, <2>2, Beginnings, ConcatAssociative
    <3> QED BY <1>7, <3>1 DEF Destroy, fileVars, workerVars
  <2>4. rest \in IF worker = "none" THEN Step("delete", Going) ELSE ClosingBase(Going)
    BY <2>1
  <2> HIDE DEF rest
  <2>5. IF worker = "none" THEN <<"free">> \o rest \in Freeing ELSE <<"free">> \o rest \in Destroying
    BY <2>2, <2>4, StepBefore DEF Steps, Freeing, Destroying
  <2> QED BY <1>0, <1>7, <2>3, <2>5 DEF Control, WhileClosed, Stopped
<1> QED BY <1>1, <1>2, <1>3, <1>4, <1>5, <1>6, <1>7 DEF Call

LEMMA StepsControl ==
  ASSUME Control, ClientStep
  PROVE  Control'
<1>0. \A step : At(step) => todo # <<>> /\ Head(todo) = step
  BY DEF At
<1> USE DEF Alive
<1>1. CASE GetTraceBuffer
  <2>1. At("get") /\ todo' = Tail(todo) /\ m_isOpen' = m_isOpen /\ worker' = worker
    BY <1>0, <1>1, GoingOn DEF GetTraceBuffer, fileVars, workerVars
  <2> QED BY <2>1, AtGet DEF Control, WhileOpen, WhileClosed, Flushing, Stopping
<1>2. CASE PutEnd
  <2>1. At("end") /\ todo' = Tail(todo) /\ m_isOpen' = m_isOpen /\ worker' = worker
    BY <1>0, <1>2, GoingOn DEF PutEnd, Put, fileVars, workerVars
  <2> QED BY <2>1, AtEnd DEF Control, WhileOpen, Flushing, Wait
<1>3. CASE PutShutdown
  <2>1. At("shutdown") /\ todo' = Tail(todo) /\ m_isOpen' = m_isOpen /\ worker' = worker
    BY <1>0, <1>3, GoingOn DEF PutShutdown, Put, fileVars, workerVars
  <2> QED BY <2>1, AtShutdown DEF Control, Ending, Wait
<1>4. CASE PutChanges
  <2>1. At("change") /\ todo' = Tail(todo) /\ m_isOpen' = m_isOpen /\ worker' = worker
    BY <1>0, <1>4, GoingOn DEF PutChanges, Put, fileVars, workerVars
  <2> QED BY <2>1, AtChange DEF Control
<1>5. CASE WaitForBuffer
  <2>1. At("wait") /\ m_isOpen' = m_isOpen /\ worker' = worker
        /\ (todo' = <<"putBack">> \o Tail(todo) \/ todo' = todo)
    BY <1>5 DEF WaitForBuffer, Then, fileVars, workerVars
  <2>2. Tail(todo) \in Seq(Steps)
    BY <1>0, <2>1, Left, HeadTailProperties
  <2>3. \A R : Tail(todo) \in R => <<"putBack">> \o Tail(todo) \in Step("putBack", R)
    BY <2>2, StepBefore DEF Steps
  <2>4. CASE todo' = todo
    BY <2>1, <2>4 DEF Control
  <2>5. CASE todo' = <<"putBack">> \o Tail(todo)
    <3>1. CASE Tail(todo) \in Writing /\ m_isOpen /\ Alive
      BY <2>1, <2>3, <2>5, <3>1 DEF Control, WhileOpen, Flushing, Wait
    <3>2. CASE Tail(todo) \in Dumping /\ m_isOpen /\ Alive
      BY <2>1, <2>3, <2>5, <3>2 DEF Control, WhileOpen, Flushing, Wait
    <3>3. CASE Tail(todo) \in Syncing /\ Alive
      BY <2>1, <2>3, <2>5, <3>3 DEF Control, Flushing, Wait
    <3>4. CASE Tail(todo) \in Joining(AfterClosing) /\ ~m_isOpen /\ worker # "none"
      BY <2>1, <2>3, <2>5, <3>4 DEF Control, Ending, Wait
    <3> QED BY <2>1, <3>1, <3>2, <3>3, <3>4, AtWaitOrPutBack
  <2> QED BY <2>1, <2>4, <2>5
<1>6. CASE PutBack
  <2>1. At("putBack") /\ m_isOpen' = m_isOpen /\ worker' = worker
        /\ (todo' = Tail(todo) \/ todo' = todo)
    BY <1>0, <1>6, GoingOn DEF PutBack, fileVars, workerVars
  <2>2. CASE todo' = todo
    BY <2>1, <2>2 DEF Control
  <2>3. CASE todo' = Tail(todo)
    BY <2>1, <2>3, AtWaitOrPutBack DEF Control, WhileOpen
  <2> QED BY <2>1, <2>2, <2>3
<1>7. CASE Join
  <2>1. At("join") /\ todo' = Tail(todo) /\ m_isOpen' = m_isOpen /\ worker' = "none"
    BY <1>0, <1>7, GoingOn DEF Join, fileVars
  <2> QED BY <2>1, AtJoin DEF Control, Stopped
<1>8. CASE Delete
  <2>1. At("delete") /\ m_isOpen' = m_isOpen /\ worker' = worker
        /\ (todo' = Tail(todo) \/ todo' = todo)
    BY <1>0, <1>8, GoingOn DEF Delete, fileVars, workerVars
  <2> QED BY <2>1, AtDelete DEF Control, AfterClosing, Stopped
<1>9. CASE BufferFlush
  <2>1. At("bufferFlush") /\ todo' = Tail(todo) /\ m_isOpen' = m_isOpen /\ worker' = worker
    BY <1>0, <1>9, GoingOn DEF BufferFlush, workerVars
  <2> QED BY <2>1, AtBufferFlush DEF Control, WhileOpen
<1>10. CASE CloseFile
  <2>1. At("close") /\ todo' = Tail(todo) /\ m_isOpen' = FALSE /\ worker' = worker
    BY <1>0, <1>10, GoingOn DEF CloseFile, workerVars
  <2> QED BY <2>1, AtClose, ClosingBaseMore DEF Control, WhileClosed
<1>11. CASE OpenFile
  <2>1. At("open") /\ worker' = worker
        /\ \/ m_isOpen' = TRUE /\ todo' = Tail(todo)
           \/ m_isOpen' = FALSE /\ todo' = IF Tail(todo) = <<"dumpHeader">> THEN <<>> ELSE Tail(todo)
    BY <1>0, <1>11, GoingOn DEF OpenFile, workerVars
  <2>2. \A s \in Heading : s = <<"dumpHeader">>
    <3> SUFFICES ASSUME NEW s \in Heading PROVE s = <<"dumpHeader">>
      OBVIOUS
    <3>1. s \in Seq(Steps) /\ s # <<>> /\ Head(s) = "dumpHeader" /\ Tail(s) \in Nothing
      BY Stepping DEF Heading
    <3>2. Len(s) = 1 /\ s[1] = "dumpHeader"
      <4>1. Tail(s) = <<>> /\ Len(Tail(s)) = Len(s) - 1 /\ Len(s) \in Nat \ {0} /\ Len(<<>>) = 0
        BY <3>1, Finished, HeadTailProperties, EmptySeq
      <4>2. Len(s) - 1 = 0
        BY <4>1
      <4>3. Len(s) = 1
        BY <4>1, <4>2
      <4> QED BY <3>1, <4>3
    <3>3. <<"dumpHeader">> \in Seq(Steps) /\ Len(<<"dumpHeader">>) = 1 /\ <<"dumpHeader">>[1] = "dumpHeader"
      BY DEF Steps
    <3> QED BY <3>1, <3>2, <3>3, SeqEqual
  <2>3. \A s \in Continuing : s # <<"dumpHeader">>
    BY Stepping DEF Continuing
  <2>4. <<>> # <<"dumpHeader">>
    OBVIOUS
  <2> QED BY <2>1, <2>2, <2>3, <2>4, AtOpen, Finished DEF Control
<1>12. CASE DumpHeader
  <2>1. At("dumpHeader") /\ worker' = "get" /\ m_isOpen' = m_isOpen
        /\ todo' = (IF m_rolloverMB # 0 THEN openNextImp ELSE <<>>) \o Tail(todo)
    BY <1>12 DEF DumpHeader, Then
  <2>2. Tail(todo) = <<>> /\ m_isOpen
    BY <2>1, AtDumpHeader, Finished
  <2>3. <<>> \in Seq(Steps) /\ <<>> \in Nothing /\ <<>> \o <<>> = <<>>
    BY EmptySeq, Finished, ConcatEmptySeq
  <2>4. openNextImp \o <<>> \in FromGet(Writing)
    BY <2>2, <2>3, ReopeningBefore
  <2>5. CASE m_rolloverMB # 0
    BY <2>1, <2>2, <2>4, <2>5 DEF Control, WhileOpen, Flushing
  <2>6. CASE m_rolloverMB = 0
    BY <2>1, <2>2, <2>3, <2>6 DEF Control
  <2> QED BY <2>5, <2>6
<1>13. CASE GoOnDumping
  <2> DEFINE first == IF ~m_isOpen THEN <<>>
                      ELSE IF m_fullDump THEN flushBase \o <<"full">> ELSE <<"get", "change">>
  <2>1. At("dump") /\ m_isOpen' = m_isOpen /\ worker' = worker /\ todo' = first \o Tail(todo)
    BY <1>13 DEF GoOnDumping, Then, fileVars, workerVars
  <2>2. flushBase \o <<"full">> \in FromGet(Dumping) /\ flushBase \o <<"full">> \in Seq(Steps)
    BY Beginnings, FlushingBefore, ConcatProperties
  <2>3. first \in Seq(Steps)
    BY <2>2, Beginnings, EmptySeq
  <2>4. todo' = first
    <3>1. Tail(todo) = <<>>
      BY <2>1, AtDump, Finished
    <3> HIDE DEF first
    <3>2. first \o <<>> = first
      BY <2>3, ConcatEmptySeq
    <3> QED BY <2>1, <3>1, <3>2
  <2> QED BY <2>1, <2>2, <2>4, AtDump, Beginnings, Finished DEF Control, WhileOpen, Flushing
<1>14. CASE FullDump
  <2>1. At("full") /\ todo' = Tail(todo) /\ m_isOpen' = m_isOpen /\ worker' = worker
    BY <1>0, <1>14, GoingOn DEF FullDump, workerVars
  <2> QED BY <2>1, AtFull DEF Control
<1>15. CASE Free
  <2>1. At("free") /\ todo' = Tail(todo) /\ m_isOpen' = m_isOpen /\ worker' = worker
    BY <1>0, <1>15, GoingOn DEF Free, workerVars
  <2>2. Step("delete", Going) \subseteq Step("delete", AfterClosing)
    BY Stepping DEF AfterClosing
  <2> QED BY <2>1, <2>2, AtFree, ClosingBaseMore DEF Control, Stopped, WhileClosed
<1>16. CASE Return
  <2>1. At("return") /\ todo' = Tail(todo) /\ m_isOpen' = m_isOpen /\ worker' = worker
    BY <1>0, <1>16, GoingOn DEF Return, fileVars, workerVars
  <2> QED BY <2>1, AtReturn DEF Control
<1> QED BY <1>1, <1>2, <1>3, <1>4, <1>5, <1>6, <1>7, <1>8, <1>9, <1>10, <1>11, <1>12, <1>13, <1>14,
           <1>15, <1>16 DEF ClientStep

LEMMA AtEnding ==
  ASSUME Control, todo \in Ending
  PROVE  ~m_isOpen /\ worker # "none"
<1>1. (At("wait") \/ At("putBack")) /\ Tail(todo) \in Joining(AfterClosing)
  BY Stepping DEF Ending, Wait, At
<1>2. Tail(todo) \notin Writing \cup Dumping \cup Syncing
  BY <1>1, Stepping DEF Joining, Writing, Dumping, Syncing
<1> QED BY <1>1, <1>2, AtWaitOrPutBack

LEMMA WorkerControl ==
  ASSUME Control, WorkerStep, ReadEnd /\ Command = SHUTDOWN => todo \in Ending
  PROVE  Control'
<1> USE DEF Alive
<1>1. CASE WorkerGet
  BY <1>1 DEF WorkerGet, Control, fileVars
<1>2. CASE ReadTimeChange \/ ReadChange
  BY <1>2 DEF ReadTimeChange, ReadChange, Control
<1>3. CASE ReadEnd
  BY <1>3, AtEnding DEF ReadEnd, Control, fileVars
<1> QED BY <1>1, <1>2, <1>3 DEF WorkerStep

AtOneOf(steps) == todo # <<>> /\ Head(todo) \in steps

\* The simulation has a buffer to fill.
Hand == {"end", "shutdown", "change"}

Quiet == {"putBack", "bufferFlush", "close", "open", "dumpHeader", "full", "free", "return",
          "join", "delete", "gone"}

LEMMA AfterCall ==
  ASSUME todo' \in Begun \cup BegunClosed
  PROVE  /\ todo' # <<>>
         /\ todo' \in Begun => Head(todo') \in {"get", "dump"}
         /\ todo' \in BegunClosed => Head(todo') \in {"open", "free"}
BY Stepping DEF Begun, BegunClosed, FromGet, Continuing, Opening, FirstOpening, Freeing, Destroying

LEMMA AfterStep ==
  ASSUME Control, ClientStep
  PROVE  /\ GetTraceBuffer => At("get") /\ todo' # <<>> /\ Head(todo') \in Hand
         /\ PutEnd => At("end") /\ todo' # <<>> /\ Head(todo') = "wait"
         /\ PutShutdown => At("shutdown") /\ todo' # <<>> /\ Head(todo') = "wait"
         /\ PutChanges => At("change") /\ todo' = <<>> /\ m_isOpen
         /\ WaitForBuffer =>
              At("wait") /\ (todo' = todo \/ (todo' # <<>> /\ Head(todo') = "putBack"))
         /\ PutBack => /\ At("putBack")
                       /\ todo' = todo \/ (todo' # <<>> /\ Head(todo') \in {"bufferFlush", "full", "join"})
         /\ Join => At("join") /\ todo' # <<>> /\ Head(todo') = "delete"
         /\ Delete => /\ At("delete") /\ ~m_isOpen
                      /\ todo' = todo \/ (todo' # <<>> /\ Head(todo') \in {"return", "free", "gone"})
         /\ BufferFlush => At("bufferFlush") /\ todo' # <<>> /\ Head(todo') \in {"close", "return"}
         /\ CloseFile => At("close") /\ todo' # <<>> /\ Head(todo') \in {"open", "get"}
         /\ OpenFile => /\ At("open") /\ ~m_isOpen
                        /\ todo' = <<>> \/ (todo' # <<>> /\ Head(todo') \in {"dump", "dumpHeader"})
         /\ DumpHeader => At("dumpHeader") /\ (todo' = <<>> \/ (todo' # <<>> /\ Head(todo') = "get"))
         /\ GoOnDumping => At("dump") /\ (todo' = <<>> \/ (todo' # <<>> /\ Head(todo') = "get"))
         /\ FullDump => At("full") /\ todo' = <<>>
         /\ Free => At("free") /\ ~m_isOpen /\ todo' # <<>> /\ Head(todo') \in {"delete", "get"}
         /\ Return => At("return") /\ todo' = <<>>
<1>0. \A step : At(step) => todo # <<>> /\ Head(todo) = step
  BY DEF At
<1>1. ASSUME GetTraceBuffer PROVE At("get") /\ todo' # <<>> /\ Head(todo') \in Hand
  <2>1. At("get") /\ todo' = Tail(todo)
    BY <1>0, <1>1, GoingOn DEF GetTraceBuffer
  <2> QED BY <2>1, AtGet, Stepping DEF FromEnd, Changing, FromShutdown, Hand
<1>2. ASSUME PutEnd PROVE At("end") /\ todo' # <<>> /\ Head(todo') = "wait"
  <2>1. At("end") /\ todo' = Tail(todo)
    BY <1>0, <1>2, GoingOn DEF PutEnd
  <2> QED BY <2>1, AtEnd, Stepping
<1>3. ASSUME PutShutdown PROVE At("shutdown") /\ todo' # <<>> /\ Head(todo') = "wait"
  <2>1. At("shutdown") /\ todo' = Tail(todo)
    BY <1>0, <1>3, GoingOn DEF PutShutdown
  <2> QED BY <2>1, AtShutdown, Stepping
<1>4. ASSUME PutChanges PROVE At("change") /\ todo' = <<>> /\ m_isOpen
  BY <1>0, <1>4, GoingOn, AtChange, Finished DEF PutChanges
<1>5. ASSUME WaitForBuffer
      PROVE  At("wait") /\ (todo' = todo \/ (todo' # <<>> /\ Head(todo') = "putBack"))
  <2>1. At("wait") /\ (todo' = <<"putBack">> \o Tail(todo) \/ todo' = todo)
    BY <1>5 DEF WaitForBuffer, Then
  <2>2. Tail(todo) \in Seq(Steps)
    BY <1>0, <2>1, Left, HeadTailProperties
  <2>3. <<"putBack">> \o Tail(todo) # <<>> /\ Head(<<"putBack">> \o Tail(todo)) = "putBack"
    BY <2>2, PrependOnce DEF Steps
  <2> QED BY <2>1, <2>3
<1>6. ASSUME PutBack
      PROVE  /\ At("putBack")
             /\ todo' = todo \/ (todo' # <<>> /\ Head(todo') \in {"bufferFlush", "full", "join"})
  <2>1. At("putBack") /\ (todo' = Tail(todo) \/ todo' = todo)
    BY <1>0, <1>6, GoingOn DEF PutBack
  <2>2. Tail(todo) \in Writing \cup Dumping \cup Syncing \cup Joining(AfterClosing)
    BY <2>1, AtWaitOrPutBack
  <2>3. Tail(todo) # <<>> /\ Head(Tail(todo)) \in {"bufferFlush", "full", "join"}
    BY <2>2, Stepping DEF Writing, Dumping, Syncing, Joining
  <2> QED BY <2>1, <2>3
<1>7. ASSUME Join PROVE At("join") /\ todo' # <<>> /\ Head(todo') = "delete"
  <2>1. At("join") /\ todo' = Tail(todo)
    BY <1>0, <1>7, GoingOn DEF Join
  <2> QED BY <2>1, AtJoin, Stepping
<1>8. ASSUME Delete
      PROVE  /\ At("delete") /\ ~m_isOpen
             /\ todo' = todo \/ (todo' # <<>> /\ Head(todo') \in {"return", "free", "gone"})
  <2>1. At("delete") /\ (todo' = Tail(todo) \/ todo' = todo)
    BY <1>0, <1>8, GoingOn DEF Delete
  <2>2. Tail(todo) \in AfterClosing /\ ~m_isOpen
    BY <2>1, AtDelete
  <2>3. Tail(todo) # <<>> /\ Head(Tail(todo)) \in {"return", "free", "gone"}
    <3>1. CASE Tail(todo) \in Returning
      BY <3>1, Stepping DEF Returning
    <3>2. CASE Tail(todo) \in Freeing
      BY <3>2, Stepping DEF Freeing
    <3>3. CASE Tail(todo) \in Going
      BY <3>3, Stepping DEF Going
    <3> QED BY <2>2, <3>1, <3>2, <3>3 DEF AfterClosing
  <2> QED BY <2>1, <2>2, <2>3
<1>9. ASSUME BufferFlush
      PROVE  At("bufferFlush") /\ todo' # <<>> /\ Head(todo') \in {"close", "return"}
  <2>1. At("bufferFlush") /\ todo' = Tail(todo)
    BY <1>0, <1>9, GoingOn DEF BufferFlush
  <2>2. Tail(todo) \in ClosingFile \cup Returning
    BY <2>1, AtBufferFlush
  <2>3. CASE Tail(todo) \in ClosingFile
    BY <2>1, <2>3, Stepping DEF ClosingFile
  <2>4. CASE Tail(todo) \in Returning
    BY <2>1, <2>4, Stepping DEF Returning
  <2> QED BY <2>2, <2>3, <2>4
<1>10. ASSUME CloseFile PROVE At("close") /\ todo' # <<>> /\ Head(todo') \in {"open", "get"}
  <2>1. At("close") /\ todo' = Tail(todo)
    BY <1>0, <1>10, GoingOn DEF CloseFile
  <2> QED BY <2>1, AtClose, Stepping DEF Opening, ClosingBase
<1>11. ASSUME OpenFile
       PROVE  /\ At("open") /\ ~m_isOpen
              /\ todo' = <<>> \/ (todo' # <<>> /\ Head(todo') \in {"dump", "dumpHeader"})
  <2>1. At("open") /\ (todo' = Tail(todo) \/ todo' = <<>>)
    BY <1>0, <1>11, GoingOn DEF OpenFile
  <2>2. ~m_isOpen /\ Tail(todo) \in Nothing \cup Continuing \cup Heading
    BY <2>1, AtOpen
  <2>3. Tail(todo) = <<>> \/ (Tail(todo) # <<>> /\ Head(Tail(todo)) \in {"dump", "dumpHeader"})
    BY <2>2, Stepping, Finished DEF Continuing, Heading
  <2> QED BY <2>1, <2>2, <2>3
<1>12. ASSUME DumpHeader
       PROVE  At("dumpHeader") /\ (todo' = <<>> \/ (todo' # <<>> /\ Head(todo') = "get"))
  <2>1. At("dumpHeader") /\ todo' = (IF m_rolloverMB # 0 THEN openNextImp ELSE <<>>) \o Tail(todo)
    BY <1>12 DEF DumpHeader, Then
  <2>2. Tail(todo) = <<>> /\ m_isOpen
    BY <2>1, AtDumpHeader, Finished
  <2>3. <<>> \in Seq(Steps) /\ <<>> \in Nothing /\ <<>> \o <<>> = <<>>
    BY EmptySeq, Finished, ConcatEmptySeq
  <2>4. openNextImp \o <<>> \in FromGet(Writing)
    BY <2>2, <2>3, ReopeningBefore
  <2> QED BY <2>1, <2>2, <2>3, <2>4, Stepping DEF FromGet
<1>13. ASSUME GoOnDumping
       PROVE  At("dump") /\ (todo' = <<>> \/ (todo' # <<>> /\ Head(todo') = "get"))
  <2> DEFINE first == IF ~m_isOpen THEN <<>>
                      ELSE IF m_fullDump THEN flushBase \o <<"full">> ELSE <<"get", "change">>
  <2>1. At("dump") /\ todo' = first \o Tail(todo)
    BY <1>13 DEF GoOnDumping, Then
  <2>2. flushBase \o <<"full">> \in FromGet(Dumping) /\ flushBase \o <<"full">> \in Seq(Steps)
    BY Beginnings, FlushingBefore, ConcatProperties
  <2>3. first \in Seq(Steps)
    BY <2>2, Beginnings, EmptySeq
  <2>4. first = <<>> \/ (first # <<>> /\ Head(first) = "get")
    BY <2>2, Beginnings, Stepping DEF FromGet
  <2>5. Tail(todo) = <<>>
    BY <2>1, AtDump, Finished
  <2> HIDE DEF first
  <2> QED BY <2>1, <2>3, <2>4, <2>5, ConcatEmptySeq
<1>14. ASSUME FullDump PROVE At("full") /\ todo' = <<>>
  BY <1>0, <1>14, GoingOn, AtFull, Finished DEF FullDump
<1>15. ASSUME Free
       PROVE  At("free") /\ ~m_isOpen /\ todo' # <<>> /\ Head(todo') \in {"delete", "get"}
  <2>1. At("free") /\ todo' = Tail(todo)
    BY <1>0, <1>15, GoingOn DEF Free
  <2> QED BY <2>1, AtFree, Stepping DEF ClosingBase
<1>16. ASSUME Return PROVE At("return") /\ todo' = <<>>
  BY <1>0, <1>16, GoingOn, AtReturn, Finished DEF Return
<1> QED BY <1>1, <1>2, <1>3, <1>4, <1>5, <1>6, <1>7, <1>8, <1>9, <1>10, <1>11, <1>12, <1>13, <1>14,
           <1>15, <1>16

-----------------------------------------------------------------------------
(* Who has which buffer.                                                     *)

Own == IF AtOneOf(Hand) THEN {bufferp} ELSE {}
Reading == {wbuf} \ {0}

One(S) == IF S = {} THEN 0 ELSE 1

QueueTypes ==
  /\ m_numTraceBuffers \in 0 .. MaxTraceBuffers
  /\ DOMAIN buffer = Buffers
  /\ bufferp \in 0 .. MaxTraceBuffers /\ wbuf \in 0 .. MaxTraceBuffers
  /\ m_buffersToWorker \in Seq(Buffers)
  /\ m_buffersFromWorker \in Seq(Buffers)
  /\ stash \in Seq(Buffers)

Held ==
  /\ AtOneOf(Hand) \/ At("wait") => bufferp # 0
  /\ At("putBack") => stash # <<>>

EachOnce ==
  /\ IsInjective(m_buffersToWorker) /\ IsInjective(m_buffersFromWorker) /\ IsInjective(stash)
  /\ Range(m_buffersToWorker) \cap Range(m_buffersFromWorker) = {}
  /\ Range(m_buffersToWorker) \cap Range(stash) = {}
  /\ Range(m_buffersFromWorker) \cap Range(stash) = {}
  /\ \A b \in Range(m_buffersToWorker) \cup Range(m_buffersFromWorker) \cup Range(stash) :
       b \notin Own /\ b \notin Reading
  /\ Own \cap Reading = {}

AllCounted ==
  Len(m_buffersToWorker) + Len(m_buffersFromWorker) + Len(stash) + One(Own) + One(Reading)
    = m_numTraceBuffers

\* Until they are deleted, the buffers are numbered.
Numbered ==
  \/ At("delete")
  \/ \A b \in Range(m_buffersToWorker) \cup Range(m_buffersFromWorker) \cup Range(stash)
                \cup Own \cup Reading : b \in 1 .. m_numTraceBuffers

BufferInv == QueueTypes /\ Held /\ EachOnce /\ AllCounted /\ Numbered

LEMMA Lengths ==
  ASSUME NEW S PROVE \A s \in Seq(S) : Len(s) \in Nat /\ (s # <<>> => Len(s) # 0)
BY LenProperties, EmptySeq

LEMMA BuffersUnmoved ==
  ASSUME BufferInv, UNCHANGED <<queueVars, wbuf>>, DOMAIN buffer' = Buffers,
         Own' = Own, At("wait")' => At("wait"), At("putBack")' => At("putBack"),
         AtOneOf(Hand)' => AtOneOf(Hand),
         At("delete") => At("delete")'
  PROVE  BufferInv'
<1>1. QueueTypes'
  BY DEF BufferInv, QueueTypes, queueVars
<1>2. Held'
  BY DEF BufferInv, Held, queueVars
<1>3. EachOnce'
  BY DEF BufferInv, EachOnce, Reading, queueVars
<1>4. AllCounted'
  BY DEF BufferInv, AllCounted, Reading, queueVars
<1>5. Numbered'
  BY DEF BufferInv, Numbered, Reading, queueVars
<1> QED BY <1>1, <1>2, <1>3, <1>4, <1>5 DEF BufferInv

LEMMA GetBuffers ==
  ASSUME BufferInv, Control, GetTraceBuffer
  PROVE  BufferInv'
<1>1. At("get") /\ todo' # <<>> /\ Head(todo') \in Hand
  BY AfterStep DEF ClientStep
<1>2. Own = {} /\ Own' = {bufferp'} /\ ~At("wait")' /\ ~At("putBack")' /\ ~At("delete") /\ ~At("delete")'
  BY <1>1 DEF Own, At, AtOneOf, Hand
<1>3. UNCHANGED <<m_buffersToWorker, stash, wbuf, buffer>> /\ Reading' = Reading
  BY DEF GetTraceBuffer, Reading, workerVars
<1>4. One({}) = 0 /\ One({bufferp'}) = 1
  BY DEF One
<1>5. CASE m_buffersFromWorker # <<>> /\ bufferp' = Head(m_buffersFromWorker)
           /\ m_buffersFromWorker' = Tail(m_buffersFromWorker) /\ UNCHANGED m_numTraceBuffers
  <2>1. /\ bufferp' \in Buffers /\ m_buffersFromWorker' \in Seq(Buffers)
        /\ Len(m_buffersFromWorker') = Len(m_buffersFromWorker) - 1
        /\ Range(m_buffersFromWorker) = Range(m_buffersFromWorker') \cup {bufferp'}
        /\ IsInjective(m_buffersFromWorker) =>
             IsInjective(m_buffersFromWorker') /\ bufferp' \notin Range(m_buffersFromWorker')
    BY <1>5, TailOnce DEF BufferInv, QueueTypes
  <2>2. QueueTypes'
    BY <1>3, <1>5, <2>1 DEF BufferInv, QueueTypes, Buffers
  <2>3. Held'
    BY <1>2, <2>1 DEF Held, Buffers
  <2>4. EachOnce'
    BY <1>2, <1>3, <2>1 DEF BufferInv, EachOnce
  <2>5. AllCounted'
    <3>1. Len(m_buffersFromWorker) \in Nat /\ Len(m_buffersToWorker) \in Nat /\ Len(stash) \in Nat
      BY Lengths DEF BufferInv, QueueTypes
    <3>2. One(Reading) \in Nat
      BY DEF One
    <3>3. Len(m_buffersToWorker) + Len(m_buffersFromWorker) + Len(stash) + 0 + One(Reading)
            = m_numTraceBuffers
      BY <1>2, <1>4 DEF BufferInv, AllCounted
    <3>4. Len(m_buffersToWorker) + (Len(m_buffersFromWorker) - 1) + Len(stash) + 1 + One(Reading)
            = m_numTraceBuffers
      BY <3>1, <3>2, <3>3
    <3> QED BY <1>2, <1>3, <1>4, <1>5, <2>1, <3>4 DEF AllCounted
  <2>6. Numbered'
    BY <1>2, <1>3, <1>5, <2>1 DEF BufferInv, Numbered
  <2> QED BY <2>2, <2>3, <2>4, <2>5, <2>6 DEF BufferInv
<1>6. CASE m_numTraceBuffers < MaxTraceBuffers /\ m_numTraceBuffers' = m_numTraceBuffers + 1
           /\ bufferp' = m_numTraceBuffers + 1 /\ UNCHANGED m_buffersFromWorker
  <2>1. bufferp' \in Buffers /\ m_numTraceBuffers' \in 0 .. MaxTraceBuffers /\ bufferp' # 0
        /\ bufferp' \in 0 .. MaxTraceBuffers
        /\ bufferp' \notin 1 .. m_numTraceBuffers /\ bufferp' \in 1 .. m_numTraceBuffers'
        /\ 1 .. m_numTraceBuffers \subseteq 1 .. m_numTraceBuffers'
    BY <1>6, TraceAssumption DEF BufferInv, QueueTypes, Buffers
  <2>2. QueueTypes'
    BY <1>3, <1>6, <2>1 DEF BufferInv, QueueTypes
  <2>3. Held'
    BY <1>2, <2>1 DEF Held
  <2>4. \A b \in Range(m_buffersToWorker) \cup Range(m_buffersFromWorker) \cup Range(stash)
                   \cup Reading : b # bufferp' /\ b \in 1 .. m_numTraceBuffers'
    BY <1>2, <2>1 DEF BufferInv, Numbered
  <2>5. EachOnce'
    BY <1>2, <1>3, <1>6, <2>4 DEF BufferInv, EachOnce
  <2>6. AllCounted'
    <3>1. Len(m_buffersFromWorker) \in Nat /\ Len(m_buffersToWorker) \in Nat /\ Len(stash) \in Nat
      BY Lengths DEF BufferInv, QueueTypes
    <3>2. One(Reading) \in Nat
      BY DEF One
    <3>3. Len(m_buffersToWorker) + Len(m_buffersFromWorker) + Len(stash) + 0 + One(Reading)
            = m_numTraceBuffers
      BY <1>2, <1>4 DEF BufferInv, AllCounted
    <3>4. Len(m_buffersToWorker) + Len(m_buffersFromWorker) + Len(stash) + 1 + One(Reading)
            = m_numTraceBuffers + 1
      BY <3>1, <3>2, <3>3
    <3> QED BY <1>2, <1>3, <1>4, <1>6, <3>4 DEF AllCounted
  <2>7. Numbered'
    BY <1>2, <1>3, <1>6, <2>1, <2>4 DEF Numbered
  <2> QED BY <2>2, <2>3, <2>5, <2>6, <2>7 DEF BufferInv
<1> QED BY <1>5, <1>6 DEF GetTraceBuffer, MayAllocate

\* What is handed over was the simulation's own.
LEMMA PutBuffers ==
  ASSUME BufferInv, Control, PutEnd \/ PutShutdown \/ PutChanges
  PROVE  BufferInv'
<1>1. AtOneOf(Hand) /\ (todo' = <<>> \/ (todo' # <<>> /\ Head(todo') = "wait"))
      /\ (todo' # <<>> => bufferp' = bufferp) /\ bufferp' \in {bufferp, 0}
  BY AfterStep DEF ClientStep, At, AtOneOf, Hand, PutEnd, PutShutdown, PutChanges
<1>2. Own = {bufferp} /\ Own' = {} /\ ~At("putBack")' /\ ~At("delete") /\ ~At("delete")' /\ ~AtOneOf(Hand)'
  BY <1>1 DEF Own, At, AtOneOf, Hand
<1>3. UNCHANGED <<m_buffersFromWorker, stash, wbuf, m_numTraceBuffers>> /\ Reading' = Reading
      /\ m_buffersToWorker' = Append(m_buffersToWorker, bufferp)
      /\ DOMAIN buffer' = DOMAIN buffer
  BY DEF PutEnd, PutShutdown, PutChanges, Put, Reading, workerVars
<1>4. bufferp \in Buffers /\ bufferp # 0
  BY <1>1 DEF BufferInv, Held, QueueTypes, Buffers
<1>5. /\ m_buffersToWorker' \in Seq(Buffers) /\ Len(m_buffersToWorker') = Len(m_buffersToWorker) + 1
      /\ Range(m_buffersToWorker') = Range(m_buffersToWorker) \cup {bufferp}
      /\ bufferp \notin Range(m_buffersToWorker) /\ IsInjective(m_buffersToWorker) =>
           IsInjective(m_buffersToWorker')
  BY <1>3, <1>4, AppendOnce DEF BufferInv, QueueTypes
<1>6. QueueTypes'
  BY <1>1, <1>3, <1>5, TraceAssumption DEF BufferInv, QueueTypes
<1>7. Held'
  BY <1>1, <1>2, <1>4 DEF Held, At
<1>8. EachOnce'
  BY <1>2, <1>3, <1>5 DEF BufferInv, EachOnce
<1>9. AllCounted'
  <2>1. Len(m_buffersFromWorker) \in Nat /\ Len(m_buffersToWorker) \in Nat /\ Len(stash) \in Nat
    BY Lengths DEF BufferInv, QueueTypes
  <2>2. One(Reading) \in Nat /\ One({}) = 0 /\ One({bufferp}) = 1
    BY DEF One
  <2>3. Len(m_buffersToWorker) + Len(m_buffersFromWorker) + Len(stash) + 1 + One(Reading)
          = m_numTraceBuffers
    BY <1>2, <2>2 DEF BufferInv, AllCounted
  <2>4. (Len(m_buffersToWorker) + 1) + Len(m_buffersFromWorker) + Len(stash) + 0 + One(Reading)
          = m_numTraceBuffers
    BY <2>1, <2>2, <2>3
  <2> QED BY <1>2, <1>3, <1>5, <2>2, <2>4 DEF AllCounted
<1>10. Numbered'
  BY <1>2, <1>3, <1>5 DEF BufferInv, Numbered
<1> QED BY <1>6, <1>7, <1>8, <1>9, <1>10 DEF BufferInv

LEMMA WaitBuffers ==
  ASSUME BufferInv, Control, WaitForBuffer
  PROVE  BufferInv'
<1> DEFINE first == Head(m_buffersFromWorker)
<1>1. At("wait") /\ (todo' = todo \/ (todo' # <<>> /\ Head(todo') = "putBack"))
  BY AfterStep DEF ClientStep
<1>2. Own = {} /\ Own' = {} /\ ~At("delete") /\ ~At("delete")' /\ ~AtOneOf(Hand)'
  BY <1>1 DEF Own, At, AtOneOf, Hand
<1>3. /\ UNCHANGED <<m_buffersToWorker, wbuf, m_numTraceBuffers, buffer>> /\ Reading' = Reading
      /\ m_buffersFromWorker # <<>> /\ m_buffersFromWorker' = Tail(m_buffersFromWorker)
      /\ stash' = Append(stash, first)
      /\ bufferp' \in {bufferp, 0} /\ (todo' = todo \/ bufferp' = 0)
      /\ first # bufferp => bufferp' = bufferp /\ todo' = todo
      /\ first = bufferp => todo' = <<"putBack">> \o Tail(todo)
  BY DEF WaitForBuffer, Reading, Then, workerVars
<1>4. /\ first \in Buffers /\ m_buffersFromWorker' \in Seq(Buffers)
      /\ Len(m_buffersFromWorker') = Len(m_buffersFromWorker) - 1
      /\ Range(m_buffersFromWorker) = Range(m_buffersFromWorker') \cup {first}
      /\ IsInjective(m_buffersFromWorker) =>
           IsInjective(m_buffersFromWorker') /\ first \notin Range(m_buffersFromWorker')
  BY <1>3, TailOnce DEF BufferInv, QueueTypes
<1>5. /\ stash' \in Seq(Buffers) /\ Len(stash') = Len(stash) + 1 /\ stash' # <<>>
      /\ Range(stash') = Range(stash) \cup {first}
      /\ first \notin Range(stash) /\ IsInjective(stash) => IsInjective(stash')
  BY <1>3, <1>4, AppendOnce, AppendProperties DEF BufferInv, QueueTypes
<1> HIDE DEF first
<1>6. QueueTypes'
  BY <1>3, <1>4, <1>5, TraceAssumption DEF BufferInv, QueueTypes
<1>7. Held'
  <2>1. CASE first = bufferp
    <3>1. Tail(todo) \in Seq(Steps)
      BY <1>1, Left, HeadTailProperties DEF At
    <3>2. Head(todo') = "putBack"
      BY <1>3, <2>1, <3>1, PrependOnce DEF Steps
    <3> QED BY <1>2, <1>5, <3>2 DEF Held, At
  <2>2. CASE first # bufferp
    BY <1>1, <1>2, <1>3, <1>5, <2>2 DEF BufferInv, Held, At
  <2> QED BY <2>1, <2>2
<1>8. EachOnce'
  BY <1>2, <1>3, <1>4, <1>5 DEF BufferInv, EachOnce
<1>9. AllCounted'
  <2>1. Len(m_buffersFromWorker) \in Nat /\ Len(m_buffersToWorker) \in Nat /\ Len(stash) \in Nat
    BY Lengths DEF BufferInv, QueueTypes
  <2>2. One(Reading) \in Nat /\ One({}) = 0
    BY DEF One
  <2>3. Len(m_buffersToWorker) + Len(m_buffersFromWorker) + Len(stash) + 0 + One(Reading)
          = m_numTraceBuffers
    BY <1>2, <2>2 DEF BufferInv, AllCounted
  <2>4. Len(m_buffersToWorker) + (Len(m_buffersFromWorker) - 1) + (Len(stash) + 1) + 0 + One(Reading)
          = m_numTraceBuffers
    BY <2>1, <2>2, <2>3
  <2> QED BY <1>2, <1>3, <1>4, <1>5, <2>2, <2>4 DEF AllCounted
<1>10. Numbered'
  BY <1>2, <1>3, <1>4, <1>5 DEF BufferInv, Numbered
<1> QED BY <1>6, <1>7, <1>8, <1>9, <1>10 DEF BufferInv

LEMMA PutBackBuffers ==
  ASSUME BufferInv, Control, PutBack
  PROVE  BufferInv'
<1> DEFINE last == Last(stash)
<1>1. At("putBack")
      /\ (todo' = todo \/ (todo' # <<>> /\ Head(todo') \in {"bufferFlush", "full", "join"}))
  BY AfterStep DEF ClientStep
<1>2. Own = {} /\ Own' = {} /\ ~At("delete") /\ ~At("delete")' /\ ~AtOneOf(Hand)' /\ ~At("wait")'
  BY <1>1 DEF Own, At, AtOneOf, Hand
<1>3. UNCHANGED <<m_buffersToWorker, wbuf, m_numTraceBuffers, buffer, bufferp>> /\ Reading' = Reading
      /\ stash' = Front(stash) /\ m_buffersFromWorker' = <<last>> \o m_buffersFromWorker
      /\ (stash' # <<>> => todo' = todo) /\ (stash' = <<>> => todo' = <<>> \o Tail(todo))
  BY DEF PutBack, Unstashed, Reading, Then, workerVars
<1>4. /\ last \in Buffers /\ stash' \in Seq(Buffers) /\ Len(stash') = Len(stash) - 1
      /\ Range(stash) = Range(stash') \cup {last}
      /\ IsInjective(stash) => IsInjective(stash') /\ last \notin Range(stash')
  BY <1>1, <1>3, FrontOnce DEF BufferInv, QueueTypes, Held
<1>5. /\ m_buffersFromWorker' \in Seq(Buffers)
      /\ Len(m_buffersFromWorker') = Len(m_buffersFromWorker) + 1
      /\ Range(m_buffersFromWorker') = Range(m_buffersFromWorker) \cup {last}
      /\ last \notin Range(m_buffersFromWorker) /\ IsInjective(m_buffersFromWorker) =>
           IsInjective(m_buffersFromWorker')
  BY <1>3, <1>4, PrependOnce DEF BufferInv, QueueTypes
<1> HIDE DEF last
<1>6. QueueTypes'
  BY <1>3, <1>4, <1>5 DEF BufferInv, QueueTypes
<1>7. Held'
  <2>1. At("putBack")' => stash' # <<>>
    <3> SUFFICES ASSUME stash' = <<>> PROVE ~At("putBack")'
      OBVIOUS
    <3>1. todo # <<>> /\ Tail(todo) \in Seq(Steps) /\ Tail(todo) \in Writing \cup Dumping \cup Syncing \cup Joining(AfterClosing)
      BY <1>1, Left, HeadTailProperties, AtWaitOrPutBack DEF At
    <3>2. todo' = Tail(todo)
      BY <1>3, <3>1, EmptyBefore
    <3>3. Head(Tail(todo)) # "putBack"
      BY <3>1, Stepping DEF Writing, Dumping, Syncing, Joining
    <3> QED BY <3>2, <3>3 DEF At
  <2> QED BY <1>2, <2>1 DEF Held
<1>8. EachOnce'
  BY <1>2, <1>3, <1>4, <1>5 DEF BufferInv, EachOnce
<1>9. AllCounted'
  <2>1. Len(m_buffersFromWorker) \in Nat /\ Len(m_buffersToWorker) \in Nat /\ Len(stash) \in Nat
    BY Lengths DEF BufferInv, QueueTypes
  <2>2. One(Reading) \in Nat /\ One({}) = 0
    BY DEF One
  <2>3. Len(m_buffersToWorker) + Len(m_buffersFromWorker) + Len(stash) + 0 + One(Reading)
          = m_numTraceBuffers
    BY <1>2, <2>2 DEF BufferInv, AllCounted
  <2>4. Len(m_buffersToWorker) + (Len(m_buffersFromWorker) + 1) + (Len(stash) - 1) + 0 + One(Reading)
          = m_numTraceBuffers
    BY <2>1, <2>2, <2>3
  <2> QED BY <1>2, <1>3, <1>4, <1>5, <2>2, <2>4 DEF AllCounted
<1>10. Numbered'
  BY <1>2, <1>3, <1>4, <1>5 DEF BufferInv, Numbered
<1> QED BY <1>6, <1>7, <1>8, <1>9, <1>10 DEF BufferInv

\* When all are counted off, none is left anywhere.
LEMMA DeleteBuffers ==
  ASSUME BufferInv, Control, Delete
  PROVE  BufferInv'
<1>1. At("delete") /\ (todo' = todo \/ (todo' # <<>> /\ Head(todo') \in {"return", "free", "gone"}))
  BY AfterStep DEF ClientStep
<1>2. Own = {} /\ Own' = {} /\ ~AtOneOf(Hand)' /\ ~At("wait")' /\ ~At("putBack")'
  BY <1>1 DEF Own, At, AtOneOf, Hand
<1>3. UNCHANGED <<m_buffersToWorker, wbuf, buffer, bufferp, stash>> /\ Reading' = Reading
  BY DEF Delete, Reading, workerVars
<1>4. Held'
  BY <1>2 DEF Held
<1>5. Len(m_buffersFromWorker) \in Nat /\ Len(m_buffersToWorker) \in Nat /\ Len(stash) \in Nat
  BY Lengths DEF BufferInv, QueueTypes
<1>6. One(Reading) \in Nat /\ One({}) = 0
  BY DEF One
<1>7. Len(m_buffersToWorker) + Len(m_buffersFromWorker) + Len(stash) + 0 + One(Reading)
          = m_numTraceBuffers
  BY <1>2, <1>6 DEF BufferInv, AllCounted
<1>8. CASE m_numTraceBuffers = 0 /\ UNCHANGED <<m_buffersFromWorker, m_numTraceBuffers>>
  <2>1. Len(m_buffersToWorker) = 0 /\ Len(m_buffersFromWorker) = 0 /\ Len(stash) = 0 /\ One(Reading) = 0
    BY <1>5, <1>6, <1>7, <1>8
  <2>2. m_buffersToWorker = <<>> /\ m_buffersFromWorker = <<>> /\ stash = <<>> /\ Reading = {}
    BY <2>1, Lengths DEF BufferInv, QueueTypes, One
  <2>3. Range(m_buffersToWorker) = {} /\ Range(m_buffersFromWorker) = {} /\ Range(stash) = {}
    <3>1. Range(<<>>) = {}
      BY DEF Range
    <3> QED BY <2>2, <3>1
  <2>4. Numbered'
    BY <1>2, <1>3, <1>8, <2>2, <2>3 DEF Numbered
  <2>5. QueueTypes' /\ EachOnce' /\ AllCounted'
    BY <1>2, <1>3, <1>8 DEF BufferInv, QueueTypes, EachOnce, AllCounted
  <2> QED BY <1>4, <2>4, <2>5 DEF BufferInv
<1>9. CASE m_buffersFromWorker # <<>> /\ m_buffersFromWorker' = Tail(m_buffersFromWorker)
           /\ m_numTraceBuffers' = m_numTraceBuffers - 1 /\ m_numTraceBuffers # 0 /\ UNCHANGED todo
  <2>1. /\ m_buffersFromWorker' \in Seq(Buffers)
        /\ Len(m_buffersFromWorker') = Len(m_buffersFromWorker) - 1
        /\ Range(m_buffersFromWorker') \subseteq Range(m_buffersFromWorker)
        /\ IsInjective(m_buffersFromWorker) => IsInjective(m_buffersFromWorker')
    BY <1>9, TailOnce DEF BufferInv, QueueTypes
  <2>2. m_numTraceBuffers' \in 0 .. MaxTraceBuffers
    BY <1>9, TraceAssumption DEF BufferInv, QueueTypes
  <2>3. QueueTypes'
    BY <1>3, <2>1, <2>2 DEF BufferInv, QueueTypes
  <2>4. EachOnce'
    BY <1>2, <1>3, <2>1 DEF BufferInv, EachOnce
  <2>5. AllCounted'
    <3>1. Len(m_buffersToWorker) + (Len(m_buffersFromWorker) - 1) + Len(stash) + 0 + One(Reading)
            = m_numTraceBuffers - 1
      BY <1>5, <1>6, <1>7
    <3> QED BY <1>2, <1>3, <1>6, <1>9, <2>1, <3>1 DEF AllCounted
  <2>6. Numbered'
    BY <1>1, <1>9 DEF Numbered, At
  <2> QED BY <1>4, <2>3, <2>4, <2>5, <2>6 DEF BufferInv
<1> QED BY <1>8, <1>9 DEF Delete

LEMMA WorkerBuffers ==
  ASSUME BufferInv, worker = "read" <=> wbuf # 0, WorkerGet \/ ReadEnd
  PROVE  BufferInv'
<1>1. UNCHANGED <<todo, bufferp, stash, m_numTraceBuffers, buffer>>
  BY DEF WorkerGet, ReadEnd
<1>2. Own' = Own /\ Held' /\ (At("delete") <=> At("delete")')
  BY <1>1 DEF Own, Held, BufferInv, At, AtOneOf
<1>3. Len(m_buffersFromWorker) \in Nat /\ Len(m_buffersToWorker) \in Nat /\ Len(stash) \in Nat
  BY Lengths DEF BufferInv, QueueTypes
<1>4. One(Own) \in Nat /\ One({}) = 0 /\ (\A b : One({b}) = 1)
  BY DEF One
<1>5. Len(m_buffersToWorker) + Len(m_buffersFromWorker) + Len(stash) + One(Own) + One(Reading)
          = m_numTraceBuffers
  BY DEF BufferInv, AllCounted
<1>6. CASE WorkerGet
  <2>1. /\ wbuf = 0 /\ wbuf' = Head(m_buffersToWorker) /\ m_buffersToWorker # <<>>
        /\ m_buffersToWorker' = Tail(m_buffersToWorker) /\ UNCHANGED m_buffersFromWorker
    BY <1>6 DEF WorkerGet
  <2>2. /\ wbuf' \in Buffers /\ m_buffersToWorker' \in Seq(Buffers)
        /\ Len(m_buffersToWorker') = Len(m_buffersToWorker) - 1
        /\ Range(m_buffersToWorker) = Range(m_buffersToWorker') \cup {wbuf'}
        /\ IsInjective(m_buffersToWorker) =>
             IsInjective(m_buffersToWorker') /\ wbuf' \notin Range(m_buffersToWorker')
    BY <2>1, TailOnce DEF BufferInv, QueueTypes
  <2>3. Reading = {} /\ Reading' = {wbuf'}
    BY <2>1, <2>2 DEF Reading, Buffers
  <2>4. QueueTypes'
    BY <1>1, <2>1, <2>2 DEF BufferInv, QueueTypes, Buffers
  <2>5. EachOnce'
    BY <1>1, <1>2, <2>1, <2>2, <2>3 DEF BufferInv, EachOnce
  <2>6. AllCounted'
    <3>1. (Len(m_buffersToWorker) - 1) + Len(m_buffersFromWorker) + Len(stash) + One(Own) + 1
            = m_numTraceBuffers
      BY <1>3, <1>4, <1>5, <2>3
    <3> QED BY <1>1, <1>2, <1>4, <2>1, <2>2, <2>3, <3>1 DEF AllCounted
  <2>7. Numbered'
    BY <1>1, <1>2, <2>1, <2>2, <2>3 DEF BufferInv, Numbered
  <2> QED BY <1>2, <2>4, <2>5, <2>6, <2>7 DEF BufferInv
<1>7. CASE ReadEnd
  <2>1. /\ wbuf # 0 /\ wbuf' = 0 /\ UNCHANGED m_buffersToWorker
        /\ m_buffersFromWorker' = Append(m_buffersFromWorker, wbuf)
    BY <1>7 DEF ReadEnd, Returned
  <2>2. wbuf \in Buffers
    BY <2>1 DEF BufferInv, QueueTypes, Buffers
  <2>3. /\ m_buffersFromWorker' \in Seq(Buffers)
        /\ Len(m_buffersFromWorker') = Len(m_buffersFromWorker) + 1
        /\ Range(m_buffersFromWorker') = Range(m_buffersFromWorker) \cup {wbuf}
        /\ wbuf \notin Range(m_buffersFromWorker) /\ IsInjective(m_buffersFromWorker) =>
             IsInjective(m_buffersFromWorker')
    BY <2>1, <2>2, AppendOnce DEF BufferInv, QueueTypes
  <2>4. Reading = {wbuf} /\ Reading' = {}
    BY <2>1 DEF Reading
  <2>5. QueueTypes'
    BY <1>1, <2>1, <2>3, TraceAssumption DEF BufferInv, QueueTypes
  <2>6. EachOnce'
    BY <1>1, <1>2, <2>1, <2>3, <2>4 DEF BufferInv, EachOnce
  <2>7. AllCounted'
    <3>1. Len(m_buffersToWorker) + (Len(m_buffersFromWorker) + 1) + Len(stash) + One(Own) + 0
            = m_numTraceBuffers
      <4>1. One(Reading) = 1
        BY <1>4, <2>4
      <4> QED BY <1>3, <1>4, <1>5, <4>1
    <3> QED BY <1>1, <1>2, <1>4, <2>1, <2>3, <2>4, <3>1 DEF AllCounted
  <2>8. Numbered'
    BY <1>1, <1>2, <2>1, <2>3, <2>4 DEF BufferInv, Numbered
  <2> QED BY <1>2, <2>5, <2>6, <2>7, <2>8 DEF BufferInv
<1> QED BY <1>6, <1>7

-----------------------------------------------------------------------------
(* Where the worker is, and what it has to read.                             *)

Drained == m_buffersToWorker = <<>> /\ wbuf = 0

\* The worker has nothing to do when it has to be quiet.
Rests ==
  /\ worker = "read" <=> wbuf # 0
  /\ worker = "none" => Drained
  /\ AtOneOf(Quiet) => Drained
  /\ ~m_isOpen /\ ~At("wait") => Drained

\* Nothing is handed over after the buffer that is waited for, and without a file
\* nothing else.
WaitedFor ==
  At("wait") =>
    /\ buffer[bufferp] \in {<<END>>, <<SHUTDOWN>>}
    /\ IF m_buffersToWorker = <<>> THEN wbuf \in {0, bufferp} ELSE Last(m_buffersToWorker) = bufferp
    /\ ~m_isOpen => OnTheirWay \subseteq {bufferp}

Ended(q) == Len(q) \in Nat \ {0} /\ \A i \in 1 .. Len(q) : q[i] \in {END, SHUTDOWN} <=> i = Len(q)

\* Every buffer ends with END, or SHUTDOWN if it is the last.
Readable ==
  /\ \A b \in OnTheirWay : Ended(buffer[b]) /\ (Last(buffer[b]) = SHUTDOWN => todo \in Ending)
  /\ wbuf # 0 => readp \in 1 .. Len(buffer[wbuf])

\* The write buffer is empty at the end of what a file is told.
Written == ~m_isOpen \/ AtOneOf({"close", "return"}) => m_wrBuf = <<>>

LEMMA EndMarks ==
  /\ END # SHUTDOWN /\ END[1] = "end" /\ SHUTDOWN[1] = "shutdown"
  /\ Ended(<<END>>) /\ Ended(<<SHUTDOWN>>) /\ Last(<<END>>) = END /\ Last(<<SHUTDOWN>>) = SHUTDOWN
<1>1. END # SHUTDOWN /\ END[1] = "end" /\ SHUTDOWN[1] = "shutdown"
  BY DEF END, SHUTDOWN
<1>2. \A x : Len(<<x>>) = 1 /\ <<x>>[1] = x
  OBVIOUS
<1>3. \A i \in 1 .. 1 : i = 1
  OBVIOUS
<1> QED BY <1>1, <1>2, <1>3 DEF Ended, Last

LEMMA ChangesEnd ==
  ASSUME NEW t, NEW v
  PROVE  Ended(ChangeCommands(t, v) \o <<END>>) /\ Last(ChangeCommands(t, v) \o <<END>>) = END
<1> DEFINE n == Cardinality(Signals)
           values_ == ValueRecords(v)
           S == {TimeRecord(t), END} \cup {values_[i] : i \in 1 .. n}
<1>1. n \in Nat /\ ExistsBijection(1 .. n, Signals)
  BY FS_CardinalityType, TraceAssumption
<1>2. Codes \in [1 .. n -> Signals]
  <2>1. \E f \in [1 .. n -> Signals] : IsInjective(f)
    BY <1>1 DEF ExistsBijection, Bijection, Injection, IsInjective
  <2> QED BY <2>1 DEF Codes, SetToSeq
<1>3. values_ \in Seq(S) /\ \A i \in 1 .. Len(values_) : values_[i][1] = "value"
  <2>1. values_ \in [1 .. n -> S]
    BY <1>2 DEF ValueRecords
  <2>2. values_ \in Seq(S) /\ Len(values_) = n
    BY <1>1, <2>1
  <2>3. \A i \in 1 .. n : values_[i] = ValueRecord(Codes[i], v[Codes[i]])
    BY <1>2 DEF ValueRecords
  <2> QED BY <2>2, <2>3 DEF ValueRecord
<1>4. <<TimeRecord(t)>> \in Seq(S) /\ Len(<<TimeRecord(t)>>) = 1 /\ <<TimeRecord(t)>>[1][1] = "time"
      /\ <<END>> \in Seq(S) /\ Len(<<END>>) = 1 /\ <<END>>[1] = END
  BY DEF TimeRecord
<1> DEFINE c == ChangeCommands(t, v)
           q == c \o <<END>>
<1> HIDE DEF S, values_, n
<1>5. c \in Seq(S) /\ Len(c) = 1 + Len(values_)
      /\ \A i \in 1 .. 1 + Len(values_) :
           c[i] = IF i <= 1 THEN <<TimeRecord(t)>>[i] ELSE values_[i - 1]
  BY <1>3, <1>4, ConcatProperties DEF ChangeCommands, values_
<1>6. Len(values_) \in Nat
  BY <1>3, LenProperties
<1>7. \A i \in 1 .. Len(c) : c[i] \notin {END, SHUTDOWN}
  <2> SUFFICES ASSUME NEW i \in 1 .. 1 + Len(values_) PROVE c[i] \notin {END, SHUTDOWN}
    BY <1>5
  <2>1. CASE i = 1
    <3>1. c[i] = <<TimeRecord(t)>>[1]
      BY <1>5, <2>1
    <3> QED BY <1>4, <3>1, EndMarks
  <2>2. CASE i # 1
    <3>1. i - 1 \in 1 .. Len(values_) /\ ~(i <= 1)
      BY <1>6, <2>2
    <3>2. c[i] = values_[i - 1]
      BY <1>5, <3>1
    <3>3. c[i][1] = "value"
      BY <1>3, <3>1, <3>2
    <3> QED BY <3>3, EndMarks
  <2> QED BY <2>1, <2>2
<1> HIDE DEF c
<1>8. q \in Seq(S) /\ Len(q) = Len(c) + 1
      /\ \A i \in 1 .. Len(c) + 1 : q[i] = IF i <= Len(c) THEN c[i] ELSE <<END>>[i - Len(c)]
  BY <1>4, <1>5, ConcatProperties
<1>9. \A m \in Nat : \A i \in 1 .. m + 1 : (i <= m /\ i \in 1 .. m /\ i # m + 1) \/ (~(i <= m) /\ i = m + 1 /\ i - m = 1)
  OBVIOUS
<1>10. Len(c) \in Nat /\ Len(c) + 1 \in 1 .. Len(c) + 1 /\ Len(c) + 1 \in Nat \ {0}
  BY <1>5, <1>6
<1> HIDE DEF q
<1>11. \A i \in 1 .. Len(q) : q[i] \in {END, SHUTDOWN} <=> i = Len(q)
  BY <1>4, <1>7, <1>8, <1>9, <1>10
<1>12. q[Len(q)] = END
  BY <1>4, <1>8, <1>9, <1>10
<1>13. Ended(q) /\ Last(q) = END
  BY <1>8, <1>10, <1>11, <1>12 DEF Ended, Last
<1> QED BY <1>13 DEF q, c

LEMMA OnTheWay ==
  ASSUME BufferInv PROVE OnTheirWay \subseteq Buffers /\ (Drained <=> OnTheirWay = {})
<1>1. Range(m_buffersToWorker) \subseteq Buffers /\ wbuf \in {0} \cup Buffers
  <2>1. Range(m_buffersToWorker) \subseteq Buffers
    BY RangeOfSeq DEF BufferInv, QueueTypes
  <2>2. wbuf \in {0} \cup Buffers
    BY TraceAssumption DEF BufferInv, QueueTypes, Buffers
  <2> QED BY <2>1, <2>2
<1>2. m_buffersToWorker = <<>> <=> Range(m_buffersToWorker) = {}
  <2>1. Range(<<>>) = {}
    BY DEF Range
  <2>2. m_buffersToWorker # <<>> => Head(m_buffersToWorker) \in Range(m_buffersToWorker)
    BY TailOnce DEF BufferInv, QueueTypes
  <2> QED BY <2>1, <2>2
<1>3. 0 \notin Buffers
  BY DEF Buffers
<1> QED BY <1>1, <1>2, <1>3 DEF OnTheirWay, Drained

TraceInv == Control /\ BufferInv /\ Rests /\ WaitedFor /\ Readable /\ Written

\* What a step of the simulation does that neither hands a buffer over nor waits.
Elsewhere ==
  \/ GetTraceBuffer \/ PutBack \/ Join \/ Delete \/ BufferFlush \/ CloseFile \/ OpenFile
  \/ DumpHeader \/ GoOnDumping \/ FullDump \/ Free \/ Return

LEMMA ElsewhereFacts ==
  ASSUME Control, Elsewhere
  PROVE  /\ UNCHANGED <<m_buffersToWorker, wbuf, readp, buffer>>
         /\ ~At("wait") /\ ~At("wait")'
         /\ \/ AtOneOf(Quiet)
            \/ At("get") /\ ~AtOneOf(Quiet)' /\ m_isOpen' = m_isOpen /\ worker' = worker
            \/ At("dump") /\ ~AtOneOf(Quiet)' /\ m_isOpen' = m_isOpen /\ worker' = worker
         /\ worker' = worker \/ DumpHeader \/ Join
<1>1. ClientStep
  BY DEF Elsewhere, ClientStep
<1>2. UNCHANGED <<m_buffersToWorker, wbuf, readp, buffer>>
  BY DEF Elsewhere, GetTraceBuffer, PutBack, Join, Delete, BufferFlush, CloseFile, OpenFile,
         DumpHeader, GoOnDumping, FullDump, Free, Return, queueVars, workerVars
<1>3. worker' = worker \/ DumpHeader \/ Join
  BY DEF Elsewhere, GetTraceBuffer, PutBack, Delete, BufferFlush, CloseFile, OpenFile,
         GoOnDumping, FullDump, Free, Return, workerVars
<1>4. ~At("wait") /\ ~At("wait")'
  BY <1>1, AfterStep DEF Elsewhere, At, Hand
<1>5. GetTraceBuffer => /\ At("get") /\ ~AtOneOf(Quiet)' /\ m_isOpen' = m_isOpen /\ worker' = worker
  BY <1>1, AfterStep DEF AtOneOf, Hand, Quiet, GetTraceBuffer, fileVars, workerVars
<1>6. GoOnDumping => /\ At("dump") /\ ~AtOneOf(Quiet)' /\ m_isOpen' = m_isOpen /\ worker' = worker
  BY <1>1, AfterStep DEF AtOneOf, Hand, Quiet, GoOnDumping, fileVars, workerVars
<1>7. Elsewhere /\ ~GetTraceBuffer /\ ~GoOnDumping => AtOneOf(Quiet)
  BY <1>1, AfterStep DEF Elsewhere, At, AtOneOf, Quiet
<1> QED BY <1>2, <1>3, <1>4, <1>5, <1>6, <1>7

LEMMA CallFacts ==
  ASSUME Control, Call, CallsAfterClose = {}
  PROVE  /\ UNCHANGED <<fileVars, queueVars, workerVars, buffer>>
         /\ Idle /\ ~AtOneOf(Hand)' /\ ~At("wait") /\ ~At("wait")' /\ ~At("delete")
         /\ ~At("putBack")' /\ ~AtOneOf({"close", "return"})'
         /\ AtOneOf(Quiet)' => ~m_isOpen
<1>1. UNCHANGED <<fileVars, queueVars, workerVars, buffer>>
  BY DEF Call, Open, OpenNext, Flush, Close, Destroy, Dump
<1>2. Idle /\ (todo' \in Begun \/ (todo' \in BegunClosed /\ ~m_isOpen))
  BY CallsControl
<1>3. /\ todo' # <<>> /\ Head(todo') \in {"get", "dump", "open", "free"}
      /\ m_isOpen => Head(todo') \in {"get", "dump"}
  BY <1>2, AfterCall
<1> QED BY <1>1, <1>2, <1>3 DEF Idle, At, AtOneOf, Hand, Quiet

\* The buffer that is waited for and comes back is the last.
LEMMA WaitedForDrained ==
  ASSUME BufferInv, WaitedFor, At("wait"), m_buffersFromWorker # <<>>,
         Head(m_buffersFromWorker) = bufferp
  PROVE  Drained
<1>1. bufferp \in Range(m_buffersFromWorker) /\ bufferp # 0
  BY TailOnce DEF BufferInv, QueueTypes, Held
<1>2. bufferp \notin Range(m_buffersToWorker) /\ wbuf # bufferp
  BY <1>1 DEF BufferInv, EachOnce, Reading
<1>3. m_buffersToWorker # <<>> => Last(m_buffersToWorker) \in Range(m_buffersToWorker)
  <2> SUFFICES ASSUME m_buffersToWorker # <<>>
               PROVE  Last(m_buffersToWorker) \in Range(m_buffersToWorker)
    OBVIOUS
  <2>1. m_buffersToWorker \in Seq(Buffers)
    BY DEF BufferInv, QueueTypes
  <2>2. Range(m_buffersToWorker) = Range(Front(m_buffersToWorker)) \cup {Last(m_buffersToWorker)}
    BY <2>1, FrontOnce
  <2> QED BY <2>2
<1> QED BY <1>2, <1>3 DEF WaitedFor, Drained

\* While it has to be quiet, and with no file, the worker has nothing to print.
LEMMA NotPrinting ==
  ASSUME BufferInv, Rests, WaitedFor, Readable, worker = "read",
         AtOneOf(Quiet) \/ ~m_isOpen
  PROVE  ~m_isOpen /\ At("wait") /\ Command \in {END, SHUTDOWN}
<1>1. wbuf # 0 /\ ~Drained
  BY DEF Rests, Drained
<1>2. ~m_isOpen /\ At("wait")
  BY <1>1 DEF Rests
<1>3. wbuf = bufferp /\ buffer[wbuf] \in {<<END>>, <<SHUTDOWN>>}
  BY <1>1, <1>2 DEF WaitedFor, OnTheirWay
<1>4. readp \in 1 .. Len(buffer[wbuf])
  BY <1>1 DEF Readable
<1>5. Len(<<END>>) = 1 /\ Len(<<SHUTDOWN>>) = 1 /\ <<END>>[1] = END /\ <<SHUTDOWN>>[1] = SHUTDOWN
  OBVIOUS
<1>6. readp = 1
  <2>1. Len(buffer[wbuf]) = 1
    BY <1>3, <1>5
  <2> QED BY <1>4, <2>1
<1>7. buffer[wbuf][1] \in {END, SHUTDOWN}
  BY <1>3, <1>5
<1> QED BY <1>2, <1>6, <1>7 DEF Command

LEMMA RestsPreserved ==
  ASSUME TraceInv, Next, CallsAfterClose = {}
  PROVE  Rests'
<1> USE DEF TraceInv
<1>1. CASE Call
  BY <1>1, CallFacts DEF Rests, Drained, fileVars, queueVars, workerVars, Idle, At
<1>2. CASE Elsewhere
  <2>1. CASE AtOneOf(Quiet)
    <3>1. Drained /\ wbuf' = wbuf /\ m_buffersToWorker' = m_buffersToWorker
      BY <1>2, <2>1, ElsewhereFacts DEF Rests
    <3>2. worker # "read" /\ (worker' = worker \/ worker' = "get" \/ worker' = "none")
      BY <1>2, <3>1, ElsewhereFacts DEF Rests, Drained, DumpHeader, Join
    <3> QED BY <3>1, <3>2 DEF Rests, Drained
  <2>2. CASE ~AtOneOf(Quiet)
    BY <1>2, <2>2, ElsewhereFacts DEF Rests, Drained
  <2> QED BY <2>1, <2>2
<1>3. CASE PutEnd \/ PutShutdown \/ PutChanges
  <2>1. UNCHANGED <<wbuf, worker, m_isOpen>>
    BY <1>3 DEF PutEnd, PutShutdown, PutChanges, Put, workerVars, fileVars
  <2>2. worker # "none"
    BY <1>3, AtEnd, AtShutdown, AtChange DEF PutEnd, PutShutdown, PutChanges, Alive
  <2>3. \/ At("wait")' /\ ~AtOneOf(Quiet)'
        \/ m_isOpen /\ ~AtOneOf(Quiet)'
    BY <1>3, AfterStep DEF ClientStep, At, AtOneOf, Quiet
  <2> QED BY <2>1, <2>2, <2>3 DEF Rests
<1>4. CASE WaitForBuffer
  <2>1. UNCHANGED <<m_buffersToWorker, wbuf, worker, m_isOpen>> /\ At("wait") /\ m_buffersFromWorker # <<>>
    BY <1>4 DEF WaitForBuffer, workerVars, fileVars
  <2>2. CASE Head(m_buffersFromWorker) = bufferp
    BY <2>1, <2>2, WaitedForDrained DEF Rests, Drained
  <2>3. CASE Head(m_buffersFromWorker) # bufferp
    <3>1. todo' = todo
      BY <1>4, <2>3 DEF WaitForBuffer
    <3> QED BY <2>1, <3>1 DEF Rests, Drained, At, AtOneOf
  <2> QED BY <2>2, <2>3
<1>5. CASE WorkerGet
  <2>1. UNCHANGED <<todo, m_isOpen>> /\ worker' = "read" /\ wbuf' = Head(m_buffersToWorker)
        /\ m_buffersToWorker # <<>>
    BY <1>5 DEF WorkerGet, fileVars
  <2>2. wbuf' # 0
    <3>1. m_buffersToWorker \in Seq(Buffers)
      BY DEF BufferInv, QueueTypes
    <3>2. Head(m_buffersToWorker) \in Buffers
      BY <2>1, <3>1, TailOnce
    <3> QED BY <2>1, <3>2 DEF Buffers
  <2>3. ~Drained
    BY <2>1 DEF Drained
  <2> QED BY <2>1, <2>2, <2>3 DEF Rests, At, AtOneOf
<1>6. CASE ReadTimeChange \/ ReadChange
  <2>1. UNCHANGED <<todo, m_isOpen, worker, wbuf, m_buffersToWorker>>
    BY <1>6 DEF ReadTimeChange, ReadChange, queueVars
  <2> QED BY <2>1 DEF Rests, Drained, At, AtOneOf
<1>7. CASE ReadEnd
  <2>1. UNCHANGED <<todo, m_isOpen>> /\ worker' \in {"exited", "get"} /\ wbuf' = 0 /\ worker = "read"
    BY <1>7 DEF ReadEnd, fileVars
  <2>2. ~Drained
    BY <2>1 DEF Rests, Drained
  <2> QED BY <2>1, <2>2 DEF Rests, At, AtOneOf
<1> QED BY <1>1, <1>2, <1>3, <1>4, <1>5, <1>6, <1>7 DEF Next, ClientStep, WorkerStep, Elsewhere

\* What a hand-over changes.
LEMMA PutFacts ==
  ASSUME BufferInv, Control, NEW commands, Put(commands), At("end") \/ At("shutdown") \/ At("change")
  PROVE  /\ bufferp # 0 /\ bufferp \notin OnTheirWay /\ wbuf # bufferp
         /\ OnTheirWay' = OnTheirWay \cup {bufferp}
         /\ buffer'[bufferp] = commands
         /\ \A b \in OnTheirWay : buffer'[b] = buffer[b]
         /\ m_buffersToWorker' # <<>> /\ Last(m_buffersToWorker') = bufferp
         /\ UNCHANGED <<wbuf, readp, m_isOpen, m_wrBuf, worker>>
         /\ wbuf # 0 => buffer'[wbuf] = buffer[wbuf]
<1>1. AtOneOf(Hand)
  BY DEF At, AtOneOf, Hand
<1>2. bufferp \in Buffers /\ bufferp # 0 /\ DOMAIN buffer = Buffers
  BY <1>1 DEF BufferInv, Held, QueueTypes, Buffers
<1>3. bufferp \notin Range(m_buffersToWorker) /\ wbuf # bufferp
  BY <1>1, <1>2 DEF BufferInv, EachOnce, Own, Reading
<1>4. buffer' = [buffer EXCEPT ![bufferp] = commands]
      /\ m_buffersToWorker' = Append(m_buffersToWorker, bufferp)
      /\ UNCHANGED <<wbuf, readp, m_isOpen, m_wrBuf, worker>>
  BY DEF Put, workerVars, fileVars
<1>5. /\ Range(m_buffersToWorker') = Range(m_buffersToWorker) \cup {bufferp}
      /\ Last(m_buffersToWorker') = bufferp /\ m_buffersToWorker' # <<>>
  <2>1. m_buffersToWorker \in Seq(Buffers)
    BY DEF BufferInv, QueueTypes
  <2> QED BY <1>2, <1>4, <2>1, AppendOnce, AppendProperties
<1>6. OnTheirWay \subseteq Buffers
  BY OnTheWay
<1>7. buffer'[bufferp] = commands /\ \A b \in Buffers \ {bufferp} : buffer'[b] = buffer[b]
  BY <1>2, <1>4
<1> QED BY <1>2, <1>3, <1>4, <1>5, <1>6, <1>7 DEF OnTheirWay

LEMMA GetFacts ==
  ASSUME BufferInv, WorkerGet, wbuf = 0
  PROVE  /\ OnTheirWay' = OnTheirWay /\ wbuf' \in OnTheirWay
         /\ IF m_buffersToWorker' = <<>> THEN wbuf' = Last(m_buffersToWorker)
                                         ELSE Last(m_buffersToWorker') = Last(m_buffersToWorker)
         /\ readp' = 1 /\ m_buffersToWorker # <<>>
         /\ UNCHANGED <<buffer, bufferp, todo, m_isOpen, m_wrBuf>>
<1>1. m_buffersToWorker \in Seq(Buffers)
  BY DEF BufferInv, QueueTypes
<1>2. /\ wbuf' = Head(m_buffersToWorker) /\ m_buffersToWorker' = Tail(m_buffersToWorker)
      /\ m_buffersToWorker # <<>>
      /\ readp' = 1 /\ UNCHANGED <<buffer, bufferp, todo, m_isOpen, m_wrBuf>>
  BY DEF WorkerGet, fileVars
<1>3. /\ wbuf' \in Buffers
      /\ Range(m_buffersToWorker) = Range(m_buffersToWorker') \cup {wbuf'}
      /\ IF m_buffersToWorker' = <<>> THEN wbuf' = Last(m_buffersToWorker)
                                      ELSE Last(m_buffersToWorker') = Last(m_buffersToWorker)
  BY <1>1, <1>2, TailOnce
<1>4. wbuf' # 0
  BY <1>3 DEF Buffers
<1> QED BY <1>2, <1>3, <1>4 DEF OnTheirWay

LEMMA WaitedForPreserved ==
  ASSUME TraceInv, Next, CallsAfterClose = {}
  PROVE  WaitedFor'
<1> USE DEF TraceInv
<1> SUFFICES ASSUME At("wait")'
             PROVE  /\ buffer'[bufferp'] \in {<<END>>, <<SHUTDOWN>>}
                    /\ IF m_buffersToWorker' = <<>> THEN wbuf' \in {0, bufferp'}
                                                    ELSE Last(m_buffersToWorker') = bufferp'
                    /\ ~m_isOpen' => OnTheirWay' \subseteq {bufferp'}
  BY DEF WaitedFor
<1>1. ~Call /\ ~Elsewhere /\ ~PutChanges
  BY CallFacts, ElsewhereFacts, AfterStep DEF ClientStep, At
<1>2. CASE PutEnd \/ PutShutdown
  <2>1. PICK commands \in {<<END>>, <<SHUTDOWN>>} :
          Put(commands) /\ (At("end") \/ At("shutdown")) /\ bufferp' = bufferp
    BY <1>2 DEF PutEnd, PutShutdown
  <2>2. /\ buffer'[bufferp] = commands /\ m_buffersToWorker' # <<>> /\ Last(m_buffersToWorker') = bufferp
        /\ OnTheirWay' = OnTheirWay \cup {bufferp} /\ m_isOpen' = m_isOpen
    BY <2>1, PutFacts
  <2>3. ~m_isOpen => OnTheirWay = {}
    BY <2>1, OnTheWay DEF Rests, At
  <2> QED BY <2>1, <2>2, <2>3
<1>3. CASE WaitForBuffer
  <2>1. /\ UNCHANGED <<m_buffersToWorker, wbuf, m_isOpen, buffer>>
        /\ Head(m_buffersFromWorker) # bufferp => bufferp' = bufferp /\ todo' = todo
        /\ At("wait") /\ m_buffersFromWorker # <<>>
        /\ Head(m_buffersFromWorker) = bufferp => todo' = <<"putBack">> \o Tail(todo)
    BY <1>3 DEF WaitForBuffer, workerVars, fileVars, Then
  <2>2. Head(m_buffersFromWorker) # bufferp
    <3> SUFFICES ASSUME Head(m_buffersFromWorker) = bufferp PROVE FALSE
      OBVIOUS
    <3>1. Tail(todo) \in Seq(Steps)
      BY <2>1, Left, HeadTailProperties DEF At
    <3>2. Head(todo') = "putBack"
      BY <2>1, <3>1, PrependOnce DEF Steps
    <3> QED BY <3>2 DEF At
  <2> QED BY <2>1, <2>2 DEF WaitedFor, OnTheirWay
<1>4. CASE WorkerGet
  <2>1. wbuf = 0
    BY <1>4 DEF Rests, WorkerGet
  <2>2. /\ OnTheirWay' = OnTheirWay
        /\ IF m_buffersToWorker' = <<>> THEN wbuf' = Last(m_buffersToWorker)
                                        ELSE Last(m_buffersToWorker') = Last(m_buffersToWorker)
        /\ m_buffersToWorker # <<>> /\ UNCHANGED <<buffer, bufferp, todo, m_isOpen>>
    BY <1>4, <2>1, GetFacts
  <2> QED BY <2>2 DEF WaitedFor, At
<1>5. CASE ReadTimeChange \/ ReadChange
  <2>1. UNCHANGED <<todo, m_isOpen, wbuf, m_buffersToWorker, buffer, bufferp>>
    BY <1>5 DEF ReadTimeChange, ReadChange, queueVars
  <2> QED BY <2>1 DEF WaitedFor, OnTheirWay, At
<1>6. CASE ReadEnd
  <2>1. UNCHANGED <<todo, m_isOpen, m_buffersToWorker, buffer, bufferp>> /\ wbuf' = 0
    BY <1>6 DEF ReadEnd, fileVars
  <2> QED BY <2>1 DEF WaitedFor, OnTheirWay, At
<1> QED BY <1>1, <1>2, <1>3, <1>4, <1>5, <1>6 DEF Next, ClientStep, WorkerStep, Elsewhere

LEMMA ReadableKept ==
  ASSUME Readable, OnTheirWay' \subseteq OnTheirWay, UNCHANGED <<buffer, wbuf, readp>>,
         todo \in Ending /\ OnTheirWay # {} => todo' \in Ending
  PROVE  Readable'
BY DEF Readable

LEMMA ReadablePreserved ==
  ASSUME TraceInv, Next, CallsAfterClose = {}
  PROVE  Readable'
<1> USE DEF TraceInv
<1>0. todo \in Ending => At("wait") \/ At("putBack")
  BY Stepping DEF Ending, Wait, At
<1>1. CASE Call
  <2>1. UNCHANGED <<queueVars, workerVars, buffer>> /\ Idle
    BY <1>1, CallFacts
  <2>2. todo \notin Ending
    BY <1>0, <2>1 DEF Idle, At
  <2>3. UNCHANGED <<buffer, wbuf, readp>> /\ OnTheirWay' = OnTheirWay
    BY <2>1 DEF OnTheirWay, queueVars, workerVars
  <2> QED BY <2>2, <2>3, ReadableKept
<1>2. CASE Elsewhere
  <2>1. UNCHANGED <<m_buffersToWorker, wbuf, readp, buffer>> /\ ~At("wait")
    BY <1>2, ElsewhereFacts
  <2>2. todo \in Ending => OnTheirWay = {}
    BY <1>0, <2>1, OnTheWay DEF Rests, AtOneOf, At, Quiet
  <2>3. OnTheirWay' = OnTheirWay
    BY <2>1 DEF OnTheirWay
  <2> QED BY <2>1, <2>2, <2>3, ReadableKept
<1>3. CASE PutEnd \/ PutShutdown \/ PutChanges
  <2>1. PICK commands :
          /\ Put(commands) /\ (At("end") \/ At("shutdown") \/ At("change"))
          /\ Ended(commands)
          /\ Last(commands) = SHUTDOWN => PutShutdown
    BY <1>3, EndMarks, ChangesEnd DEF PutEnd, PutShutdown, PutChanges
  <2>2. /\ bufferp # 0 /\ bufferp \notin OnTheirWay /\ wbuf # bufferp
        /\ OnTheirWay' = OnTheirWay \cup {bufferp}
        /\ buffer'[bufferp] = commands
        /\ \A b \in OnTheirWay : buffer'[b] = buffer[b]
        /\ UNCHANGED <<wbuf, readp>>
        /\ wbuf # 0 => buffer'[wbuf] = buffer[wbuf]
    BY <2>1, PutFacts
  <2>3. PutShutdown => todo' \in Ending
    <3> SUFFICES ASSUME PutShutdown PROVE todo' \in Ending
      OBVIOUS
    <3>1. At("shutdown") /\ todo' = Tail(todo)
      BY GoingOn DEF PutShutdown, At
    <3> QED BY <3>1, AtShutdown DEF Ending, Wait
  <2>4. todo \notin Ending
    BY <1>0, <2>1 DEF At
  <2>5. \A b \in OnTheirWay' : Ended(buffer'[b]) /\ (Last(buffer'[b]) = SHUTDOWN => todo' \in Ending)
    BY <2>1, <2>2, <2>3, <2>4 DEF Readable
  <2>6. wbuf' # 0 => readp' \in 1 .. Len(buffer'[wbuf'])
    BY <2>2 DEF Readable
  <2> QED BY <2>5, <2>6 DEF Readable
<1>4. CASE WaitForBuffer
  <2>1. UNCHANGED <<m_buffersToWorker, wbuf, readp, buffer>> /\ At("wait") /\ m_buffersFromWorker # <<>>
        /\ (Head(m_buffersFromWorker) # bufferp => todo' = todo)
    BY <1>4 DEF WaitForBuffer, workerVars
  <2>2. Head(m_buffersFromWorker) = bufferp => OnTheirWay = {}
    BY <2>1, WaitedForDrained, OnTheWay
  <2>3. OnTheirWay' = OnTheirWay
    BY <2>1 DEF OnTheirWay
  <2> QED BY <2>1, <2>2, <2>3, ReadableKept
<1>5. CASE WorkerGet
  <2>1. wbuf = 0
    BY <1>5 DEF Rests, WorkerGet
  <2>2. /\ OnTheirWay' = OnTheirWay /\ wbuf' \in OnTheirWay /\ readp' = 1
        /\ UNCHANGED <<buffer, todo>>
    BY <1>5, <2>1, GetFacts
  <2>3. Len(buffer[wbuf']) \in Nat \ {0}
    BY <2>2 DEF Readable, Ended
  <2>4. 1 \in 1 .. Len(buffer[wbuf'])
    BY <2>3
  <2> QED BY <2>2, <2>4 DEF Readable
<1>6. CASE ReadTimeChange \/ ReadChange
  <2>1. /\ UNCHANGED <<todo, wbuf, m_buffersToWorker, buffer>> /\ readp' = readp + 1
        /\ worker = "read" /\ Command[1] \in {"time", "value"}
    BY <1>6 DEF ReadTimeChange, ReadChange, queueVars
  <2>2. Command \notin {END, SHUTDOWN}
    BY <2>1, EndMarks
  <2>3. wbuf # 0 /\ wbuf \in OnTheirWay
    BY <2>1 DEF Rests, OnTheirWay
  <2>4. Ended(buffer[wbuf]) /\ readp \in 1 .. Len(buffer[wbuf])
    BY <2>3 DEF Readable
  <2>5. readp # Len(buffer[wbuf]) /\ Len(buffer[wbuf]) \in Nat
    BY <2>2, <2>4 DEF Ended, Command
  <2>6. readp + 1 \in 1 .. Len(buffer[wbuf])
    BY <2>4, <2>5
  <2>7. OnTheirWay' = OnTheirWay
    BY <2>1 DEF OnTheirWay
  <2> QED BY <2>1, <2>6, <2>7 DEF Readable
<1>7. CASE ReadEnd
  <2>1. UNCHANGED <<todo, m_buffersToWorker, buffer>> /\ wbuf' = 0
    BY <1>7 DEF ReadEnd
  <2>2. OnTheirWay' \subseteq OnTheirWay
    BY <2>1 DEF OnTheirWay
  <2> QED BY <2>1, <2>2 DEF Readable
<1> QED BY <1>1, <1>2, <1>3, <1>4, <1>5, <1>6, <1>7 DEF Next, ClientStep, WorkerStep, Elsewhere

LEMMA WrittenPreserved ==
  ASSUME TraceInv, Next, CallsAfterClose = {}
  PROVE  Written'
<1> USE DEF TraceInv
<1> DEFINE Closing == AtOneOf({"close", "return"})
<1>0. Closing => AtOneOf(Quiet)
  BY DEF AtOneOf, Quiet
<1>1. CASE Call
  <2>1. UNCHANGED <<m_isOpen, m_wrBuf>> /\ ~Closing'
    BY <1>1, CallFacts DEF fileVars
  <2> QED BY <2>1 DEF Written
<1>2. CASE GetTraceBuffer \/ PutEnd \/ PutShutdown \/ PutChanges \/ GoOnDumping \/ PutBack \/ Join
  <2>1. UNCHANGED <<m_isOpen, m_wrBuf>>
    BY <1>2 DEF GetTraceBuffer, PutEnd, PutShutdown, PutChanges, Put, GoOnDumping, PutBack, Join, fileVars
  <2>2. ~Closing'
    BY <1>2, AfterStep DEF ClientStep, AtOneOf, At, Hand
  <2> QED BY <2>1, <2>2 DEF Written
<1>3. CASE WaitForBuffer
  <2>1. UNCHANGED <<m_isOpen, m_wrBuf>>
    BY <1>3 DEF WaitForBuffer, fileVars
  <2>2. ~Closing'
    BY <1>3, AfterStep DEF ClientStep, AtOneOf, At
  <2> QED BY <2>1, <2>2 DEF Written
<1>4. CASE Delete
  <2>1. UNCHANGED <<m_isOpen, m_wrBuf>>
    BY <1>4 DEF Delete, fileVars
  <2>2. ~m_isOpen
    BY <1>4, AfterStep DEF ClientStep
  <2> QED BY <2>1, <2>2 DEF Written
<1>5. CASE BufferFlush
  <2>1. m_isOpen' = m_isOpen /\ m_wrBuf' = IF m_isOpen THEN <<>> ELSE m_wrBuf
    BY <1>5 DEF BufferFlush, Output, Flushed, Out
  <2> QED BY <2>1 DEF Written
<1>6. CASE CloseFile \/ Free
  <2>1. m_wrBuf' = m_wrBuf \/ m_wrBuf' = <<>>
    BY <1>6 DEF CloseFile, Free
  <2>2. AtOneOf({"close", "return"}) \/ ~m_isOpen
    BY <1>6, AfterStep DEF ClientStep, At, AtOneOf
  <2> QED BY <2>1, <2>2 DEF Written
<1>7. CASE OpenFile
  <2>1. m_wrBuf' = m_wrBuf /\ ~m_isOpen
    BY <1>7, AfterStep DEF ClientStep, OpenFile
  <2> QED BY <2>1 DEF Written
<1>8. CASE DumpHeader \/ FullDump
  <2>1. m_isOpen' = m_isOpen /\ m_isOpen
    BY <1>8, AtDumpHeader, AtFull DEF DumpHeader, FullDump
  <2>2. ~Closing'
    BY <1>8, AfterStep DEF ClientStep, AtOneOf
  <2> QED BY <2>1, <2>2 DEF Written
<1>9. CASE Return
  <2>1. UNCHANGED <<m_isOpen, m_wrBuf>> /\ At("return")
    BY <1>9 DEF Return, fileVars
  <2>2. m_wrBuf = <<>>
    BY <2>1 DEF Written, At, AtOneOf
  <2> QED BY <2>1, <2>2 DEF Written
<1>10. CASE WorkerGet \/ ReadEnd
  <2>1. UNCHANGED <<m_isOpen, m_wrBuf, todo>>
    BY <1>10 DEF WorkerGet, ReadEnd, fileVars
  <2> QED BY <2>1 DEF Written, AtOneOf
<1>11. CASE ReadTimeChange \/ ReadChange
  <2>1. worker = "read" /\ Command[1] \in {"time", "value"} /\ UNCHANGED <<m_isOpen, todo>>
    BY <1>11 DEF ReadTimeChange, ReadChange
  <2>2. ~AtOneOf(Quiet) /\ m_isOpen
    BY <2>1, NotPrinting, EndMarks
  <2> QED BY <1>0, <2>1, <2>2 DEF Written, AtOneOf
<1> QED BY <1>1, <1>2, <1>3, <1>4, <1>5, <1>6, <1>7, <1>8, <1>9, <1>10, <1>11
        DEF Next, ClientStep, WorkerStep

LEMMA ControlPreserved ==
  ASSUME TraceInv, Next, CallsAfterClose = {}
  PROVE  Control'
<1> USE DEF TraceInv
<1>1. ReadEnd /\ Command = SHUTDOWN => todo \in Ending
  <2> SUFFICES ASSUME ReadEnd, Command = SHUTDOWN PROVE todo \in Ending
    OBVIOUS
  <2>1. wbuf # 0 /\ wbuf \in OnTheirWay
    BY DEF ReadEnd, Rests, OnTheirWay
  <2>2. Ended(buffer[wbuf]) /\ readp \in 1 .. Len(buffer[wbuf])
    BY <2>1 DEF Readable
  <2>3. Last(buffer[wbuf]) = SHUTDOWN
    BY <2>2 DEF Ended, Last, Command
  <2> QED BY <2>1, <2>3 DEF Readable
<1> QED BY <1>1, CallsControl, StepsControl, WorkerControl DEF Next

LEMMA BuffersPreserved ==
  ASSUME TraceInv, Next, CallsAfterClose = {}
  PROVE  BufferInv'
<1> USE DEF TraceInv
<1>1. CASE Call
  <2>1. /\ UNCHANGED <<queueVars, workerVars, buffer>>
        /\ Idle /\ ~AtOneOf(Hand)' /\ ~At("wait")' /\ ~At("delete") /\ ~At("putBack")'
    BY <1>1, CallFacts
  <2>2. Own = {} /\ Own' = {} /\ DOMAIN buffer' = Buffers /\ wbuf' = wbuf
    BY <2>1 DEF Own, Idle, AtOneOf, BufferInv, QueueTypes, workerVars
  <2> QED BY <2>1, <2>2, BuffersUnmoved
<1>2. CASE GetTraceBuffer \/ PutEnd \/ PutShutdown \/ PutChanges \/ WaitForBuffer \/ PutBack \/ Delete
  BY <1>2, GetBuffers, PutBuffers, WaitBuffers, PutBackBuffers, DeleteBuffers
<1>3. CASE \/ Join \/ BufferFlush \/ CloseFile \/ OpenFile \/ DumpHeader \/ GoOnDumping \/ FullDump
           \/ Free \/ Return
  <2>1. UNCHANGED <<queueVars, wbuf, buffer>>
    BY <1>3 DEF Join, BufferFlush, CloseFile, OpenFile, DumpHeader, GoOnDumping, FullDump, Free,
                Return, workerVars
  <2>2. /\ ~AtOneOf(Hand) /\ ~AtOneOf(Hand)' /\ ~At("wait")' /\ ~At("delete") /\ ~At("putBack")'
    BY <1>3, AfterStep DEF ClientStep, At, AtOneOf, Hand
  <2>3. Own = {} /\ Own' = {} /\ DOMAIN buffer' = Buffers
    BY <2>1, <2>2 DEF Own, BufferInv, QueueTypes
  <2> QED BY <2>1, <2>2, <2>3, BuffersUnmoved
<1>4. CASE WorkerGet \/ ReadEnd
  BY <1>4, WorkerBuffers DEF Rests
<1>5. CASE ReadTimeChange \/ ReadChange
  <2>1. UNCHANGED <<queueVars, wbuf, buffer, todo>>
    BY <1>5 DEF ReadTimeChange, ReadChange
  <2>2. Own' = Own /\ DOMAIN buffer' = Buffers
    BY <2>1 DEF Own, AtOneOf, BufferInv, QueueTypes, queueVars
  <2> QED BY <2>1, <2>2, BuffersUnmoved DEF At, AtOneOf
<1> QED BY <1>1, <1>2, <1>3, <1>4, <1>5 DEF Next, ClientStep, WorkerStep

LEMMA TraceInitial == Init => TraceInv
<1> SUFFICES ASSUME Init PROVE TraceInv
  OBVIOUS
<1>1. /\ todo = <<>> /\ m_isOpen = FALSE /\ worker = "none" /\ wbuf = 0 /\ readp = 0
      /\ m_wrBuf = <<>> /\ m_buffersToWorker = <<>> /\ m_buffersFromWorker = <<>> /\ stash = <<>>
      /\ bufferp = 0 /\ m_numTraceBuffers = 0 /\ DOMAIN buffer = Buffers
  BY DEF Init
<1>2. Control
  BY <1>1, Finished DEF Control
<1>3. Range(<<>>) = {} /\ Len(<<>>) = 0 /\ IsInjective(<<>>) /\ <<>> \in Seq(Buffers)
  BY DEF Range, IsInjective
<1>4. Own = {} /\ Reading = {} /\ One({}) = 0 /\ OnTheirWay = {}
  BY <1>1, <1>3 DEF Own, Reading, One, OnTheirWay, AtOneOf
<1>5. QueueTypes
  BY <1>1, <1>3, TraceAssumption DEF QueueTypes
<1>6. Held /\ EachOnce /\ Numbered
  BY <1>1, <1>3, <1>4 DEF Held, EachOnce, Numbered, At, AtOneOf
<1>7. AllCounted
  BY <1>1, <1>3, <1>4 DEF AllCounted
<1>8. Rests /\ WaitedFor /\ Readable /\ Written
  BY <1>1, <1>4 DEF Rests, WaitedFor, Readable, Written, Drained, At, AtOneOf
<1> QED BY <1>2, <1>5, <1>6, <1>7, <1>8 DEF TraceInv, BufferInv

LEMMA TraceInductive ==
  ASSUME CallsAfterClose = {}, TraceInv, [Next]_vars
  PROVE  TraceInv'
<1>1. CASE Next
  BY <1>1, ControlPreserved, BuffersPreserved, RestsPreserved, WaitedForPreserved,
     ReadablePreserved, WrittenPreserved DEF TraceInv
<1>2. CASE UNCHANGED vars
  <2>1. UNCHANGED <<m_isOpen, worker, todo, wbuf, readp, buffer, bufferp, m_wrBuf, m_numTraceBuffers,
                    m_buffersToWorker, m_buffersFromWorker, stash>>
    BY <1>2 DEF vars, fileVars, queueVars, workerVars
  <2>2. Control' /\ OnTheirWay' = OnTheirWay /\ Own' = Own /\ Reading' = Reading
    BY <2>1 DEF TraceInv, Control, Alive, OnTheirWay, Own, Reading, AtOneOf
  <2>3. BufferInv'
    BY <2>1, <2>2 DEF TraceInv, BufferInv, QueueTypes, Held, EachOnce, AllCounted, Numbered, At, AtOneOf
  <2>4. Rests' /\ WaitedFor' /\ Readable' /\ Written'
    BY <2>1, <2>2 DEF TraceInv, Rests, WaitedFor, Readable, Written, Drained, At, AtOneOf
  <2> QED BY <2>2, <2>3, <2>4 DEF TraceInv
<1> QED BY <1>1, <1>2

LEMMA TraceInvariant ==
  ASSUME CallsAfterClose = {} PROVE Spec => []TraceInv
<1>1. TraceInv /\ [Next]_vars => TraceInv'
  BY TraceInductive
<1> QED BY <1>1, TraceInitial, PTL DEF Spec

-----------------------------------------------------------------------------
\* Whatever the calls, the buffers and the turns of the two threads, as long as
\* nothing is called once the worker is gone: each buffer that was allocated is
\* with one of the two queues, the simulation and the worker, never with two and
\* never lost (getTraceBuffer, waitForBuffer, workerThreadMain), and the queue to
\* a worker that has been joined is empty.
THEOREM NoBufferLost ==
  ASSUME CallsAfterClose = {} PROVE Spec => []BuffersAccounted
<1>1. TraceInv => BuffersAccounted
  <2> SUFFICES ASSUME TraceInv PROVE BuffersAccounted
    OBVIOUS
  <2> DEFINE own == IF bufferp # 0 /\ todo # <<>> /\ Head(todo) \in {"end", "shutdown", "change"}
                    THEN <<bufferp>> ELSE <<>>
             reading == IF wbuf = 0 THEN <<>> ELSE <<wbuf>>
  <2>1. \A b \in Buffers : <<b>> \in Seq(Buffers) /\ Range(<<b>>) = {b} /\ IsInjective(<<b>>) /\ Len(<<b>>) = 1
    <3> TAKE b \in Buffers
    <3>1. DOMAIN <<b>> = 1 .. 1 /\ <<b>>[1] = b /\ \A i \in 1 .. 1 : i = 1
      OBVIOUS
    <3>2. Range(<<b>>) = {b} /\ IsInjective(<<b>>)
      BY <3>1 DEF Range, IsInjective
    <3> QED BY <3>2
  <2>2. <<>> \in Seq(Buffers) /\ Range(<<>>) = {} /\ IsInjective(<<>>) /\ Len(<<>>) = 0
    BY DEF Range, IsInjective
  <2>3. reading \in Seq(Buffers) /\ Range(reading) = Reading /\ IsInjective(reading)
        /\ Len(reading) = One(Reading)
    <3>1. CASE wbuf = 0
      BY <2>2, <3>1 DEF Reading, One
    <3>2. CASE wbuf # 0
      <4>1. wbuf \in Buffers
        BY <3>2 DEF TraceInv, BufferInv, QueueTypes, Buffers
      <4>2. Reading = {wbuf} /\ One({wbuf}) = 1
        BY <3>2 DEF Reading, One
      <4> QED BY <2>1, <3>2, <4>1, <4>2
    <3> QED BY <3>1, <3>2
  <2>4. own \in Seq(Buffers) /\ Range(own) = Own /\ IsInjective(own) /\ Len(own) = One(Own)
    <3>1. CASE ~AtOneOf(Hand)
      <4>1. own = <<>> /\ Own = {} /\ One({}) = 0
        BY <3>1 DEF Own, One, AtOneOf, Hand
      <4> QED BY <2>2, <4>1
    <3>2. CASE AtOneOf(Hand)
      <4>1. bufferp # 0 /\ bufferp \in Buffers
        BY <3>2 DEF TraceInv, BufferInv, QueueTypes, Held, Buffers
      <4>2. own = <<bufferp>> /\ Own = {bufferp} /\ One({bufferp}) = 1
        BY <3>2, <4>1 DEF Own, One, AtOneOf, Hand
      <4> QED BY <2>1, <4>1, <4>2
    <3> QED BY <3>1, <3>2
  <2> DEFINE everywhere == m_buffersToWorker \o reading \o m_buffersFromWorker \o stash \o own
  <2> HIDE DEF own, reading
  <2>5. /\ m_buffersToWorker \in Seq(Buffers) /\ m_buffersFromWorker \in Seq(Buffers)
        /\ stash \in Seq(Buffers)
        /\ IsInjective(m_buffersToWorker) /\ IsInjective(m_buffersFromWorker) /\ IsInjective(stash)
    BY DEF TraceInv, BufferInv, QueueTypes, EachOnce
  <2> DEFINE two == m_buffersToWorker \o reading
             three == two \o m_buffersFromWorker
             four == three \o stash
  <2>6. /\ two \in Seq(Buffers) /\ IsInjective(two) /\ Len(two) = Len(m_buffersToWorker) + Len(reading)
        /\ Range(two) = Range(m_buffersToWorker) \cup Reading
    <3>1. Range(m_buffersToWorker) \cap Range(reading) = {}
      BY <2>3 DEF TraceInv, BufferInv, EachOnce
    <3>2. m_buffersToWorker \in Seq(Buffers) /\ IsInjective(m_buffersToWorker)
      BY <2>5
    <3>3. reading \in Seq(Buffers) /\ IsInjective(reading)
      BY <2>3
    <3>4. /\ two \in Seq(Buffers) /\ IsInjective(two) /\ Len(two) = Len(m_buffersToWorker) + Len(reading)
          /\ Range(two) = Range(m_buffersToWorker) \cup Range(reading)
      BY <3>1, <3>2, <3>3, ConcatOnce
    <3> QED BY <2>3, <3>4
  <2> HIDE DEF two
  <2>7. /\ three \in Seq(Buffers) /\ IsInjective(three) /\ Len(three) = Len(two) + Len(m_buffersFromWorker)
        /\ Range(three) = Range(two) \cup Range(m_buffersFromWorker)
    <3>1. Range(two) \cap Range(m_buffersFromWorker) = {}
      BY <2>6 DEF TraceInv, BufferInv, EachOnce
    <3> QED BY <2>5, <2>6, <3>1, ConcatOnce
  <2> HIDE DEF three
  <2>8. /\ four \in Seq(Buffers) /\ IsInjective(four) /\ Len(four) = Len(three) + Len(stash)
        /\ Range(four) = Range(three) \cup Range(stash)
    <3>1. Range(three) \cap Range(stash) = {}
      BY <2>6, <2>7 DEF TraceInv, BufferInv, EachOnce
    <3>2. stash \in Seq(Buffers) /\ IsInjective(stash)
      BY <2>5
    <3>3. three \in Seq(Buffers) /\ IsInjective(three)
      BY <2>7
    <3> QED BY <3>1, <3>2, <3>3, ConcatOnce
  <2> HIDE DEF four
  <2>9. IsInjective(four \o own) /\ Len(four \o own) = Len(four) + Len(own)
    <3>1. Range(four) \cap Range(own) = {}
      BY <2>4, <2>6, <2>7, <2>8 DEF TraceInv, BufferInv, EachOnce
    <3> QED BY <2>4, <2>8, <3>1, ConcatOnce
  <2>10. Len(four) + Len(own) = m_numTraceBuffers
    <3>1. Len(m_buffersToWorker) \in Nat /\ Len(m_buffersFromWorker) \in Nat /\ Len(stash) \in Nat
      BY <2>5, Lengths
    <3>2. Len(own) \in Nat /\ Len(reading) \in Nat
      BY <2>3, <2>4, Lengths
    <3>3. Len(m_buffersToWorker) + Len(m_buffersFromWorker) + Len(stash) + Len(own) + Len(reading)
            = m_numTraceBuffers
      BY <2>3, <2>4 DEF TraceInv, BufferInv, AllCounted
    <3> QED BY <2>6, <2>7, <2>8, <3>1, <3>2, <3>3
  <2>11. everywhere = four \o own
    BY DEF two, three, four
  <2>12. worker = "none" => m_buffersToWorker = <<>>
    BY DEF TraceInv, Rests, Drained
  <2> HIDE DEF everywhere
  <2>13. IsInjective(everywhere) /\ Len(everywhere) = m_numTraceBuffers
    BY <2>9, <2>10, <2>11
  <2> QED BY <2>12, <2>13 DEF BuffersAccounted, everywhere, own, reading
<1> QED BY <1>1, TraceInvariant, PTL

LEMMA NothingOnTheWay ==
  ASSUME TraceInv, Drained \/ (At("wait") /\ ~m_isOpen) PROVE NothingToPrint
<1> USE DEF TraceInv
<1>1. CASE Drained
  BY <1>1, OnTheWay DEF NothingToPrint
<1>2. CASE At("wait") /\ ~m_isOpen
  <2> SUFFICES ASSUME NEW b \in OnTheirWay PROVE Range(Unread(b)) \subseteq {END, SHUTDOWN}
    BY DEF NothingToPrint
  <2>1. buffer[b] \in {<<END>>, <<SHUTDOWN>>}
    BY <1>2 DEF WaitedFor
  <2>2. Len(buffer[b]) = 1 /\ buffer[b][1] \in {END, SHUTDOWN}
    BY <2>1
  <2>3. (IF b = wbuf THEN readp ELSE 1) = 1
    <3>1. b = wbuf => readp \in 1 .. Len(buffer[b])
      BY OnTheWay DEF Readable, Buffers
    <3> QED BY <2>2, <3>1
  <2>4. Unread(b) = SubSeq(buffer[b], 1, 1)
    BY <2>2, <2>3 DEF Unread
  <2>5. /\ SubSeq(buffer[b], 1, 1) \in Seq({END, SHUTDOWN})
    <3>1. \A i \in 1 .. 1 : buffer[b][i] \in {END, SHUTDOWN}
      BY <2>2
    <3>2. 1 \in Int
      OBVIOUS
    <3> QED BY <3>1, <3>2, SubSeqProperties
  <2> QED BY <2>4, <2>5, RangeOfSeq
<1> QED BY <1>1, <1>2

\* A call that has freed the buffers works on no file.
NotFreed == {s \in Seq(Steps) : s # <<>> /\ Last(s) = "gone" => "free" \in Range(s)}

LEMMA FreeFirst ==
  ASSUME NEW a \in Steps, NEW R, a = "free" \/ (a # "gone" /\ R \subseteq NotFreed)
  PROVE  Step(a, R) \subseteq NotFreed
<1> SUFFICES ASSUME NEW s \in Step(a, R), Last(s) = "gone" PROVE "free" \in Range(s)
  BY Stepping DEF NotFreed
<1>1. s \in Seq(Steps) /\ s # <<>> /\ Head(s) = a /\ Tail(s) \in R
  BY Stepping
<1>2. /\ Range(s) = Range(Tail(s)) \cup {a}
      /\ IF Tail(s) = <<>> THEN Last(s) = a ELSE Last(Tail(s)) = Last(s)
  BY <1>1, TailOnce
<1> QED BY <1>1, <1>2 DEF NotFreed

LEMMA FreedClosed ==
  ASSUME Control, todo # <<>>, Last(todo) = "gone", "free" \notin Range(todo)
  PROVE  ~m_isOpen
<1> USE FreeFirst DEF Steps
<1>1. Nothing \subseteq NotFreed
  <2>1. <<>> \in Seq(Steps)
    BY EmptySeq
  <2>2. <<>> \in NotFreed
    BY <2>1 DEF NotFreed
  <2> QED BY <2>2, Finished
<1>2. Returning \subseteq NotFreed /\ Freeing \subseteq NotFreed /\ Continuing \subseteq NotFreed
      /\ Changing \subseteq NotFreed /\ Dumping \subseteq NotFreed /\ Heading \subseteq NotFreed
  BY <1>1 DEF Returning, Freeing, Continuing, Changing, Dumping, Heading
<1>3. Syncing \subseteq NotFreed
  BY <1>2 DEF Syncing
<1>4. ClosingBase(Returning \cup Freeing) \subseteq NotFreed
  <2>1. Returning \cup Freeing \subseteq NotFreed
    BY <1>2
  <2>2. Joining(Returning \cup Freeing) \subseteq NotFreed
    BY <2>1 DEF Joining
  <2>3. FromShutdown(Returning \cup Freeing) \subseteq NotFreed
    BY <2>2 DEF FromShutdown
  <2> QED BY <2>3 DEF ClosingBase
<1>5. Opening \subseteq NotFreed
  BY <1>1, <1>2 DEF Opening
<1>6. ClosingFile \subseteq NotFreed
  BY <1>4, <1>5 DEF ClosingFile
<1>7. Writing \subseteq NotFreed
  BY <1>6 DEF Writing
<1>8. \A R : R \subseteq NotFreed => Flushing(R) \subseteq NotFreed
  <2> SUFFICES ASSUME NEW R, R \subseteq NotFreed PROVE Flushing(R) \subseteq NotFreed
    OBVIOUS
  <2>1. Step("wait", R) \subseteq NotFreed /\ Step("putBack", R) \subseteq NotFreed
    OBVIOUS
  <2>2. FromEnd(R) \subseteq NotFreed
    BY <2>1 DEF FromEnd
  <2>3. FromGet(R) \subseteq NotFreed
    BY <2>2 DEF FromGet
  <2> QED BY <2>1, <2>2, <2>3 DEF Flushing, Wait
<1>9. Step("get", Changing) \subseteq NotFreed
  BY <1>2
<1>10. todo \notin NotFreed
  BY DEF NotFreed
<1>11. todo \notin WhileOpen
  BY <1>2, <1>6, <1>7, <1>8, <1>9, <1>10 DEF WhileOpen
<1> QED BY <1>1, <1>2, <1>3, <1>8, <1>10, <1>11 DEF Control

\* While the simulation works on the write buffer, the file and the old values,
\* which have no lock, and once it has freed them, the worker has nothing left to
\* print (flushBase, closePrev, closeBase, ~VerilatedVcd), whatever the calls, as
\* long as nothing is called once the worker is gone.
THEOREM WorkerKeepsOut ==
  ASSUME CallsAfterClose = {} PROVE Spec => []WorkerQuiet
<1>1. TraceInv => WorkerQuiet
  <2> SUFFICES ASSUME TraceInv PROVE WorkerQuiet
    OBVIOUS
  <2> DEFINE freed == todo # <<>> /\ Last(todo) = "gone" /\ "free" \notin Range(todo)
             touching == todo # <<>> /\ Head(todo) \in {"bufferFlush", "close", "open", "dumpHeader",
                                                        "full", "free"}
  <2>1. touching => Drained
    BY DEF TraceInv, Rests, AtOneOf, Quiet
  <2>2. freed => Drained \/ (At("wait") /\ ~m_isOpen)
    BY FreedClosed DEF TraceInv, Rests
  <2>3. touching \/ freed => NothingToPrint
    BY <2>1, <2>2, NothingOnTheWay
  <2> QED BY <2>3 DEF WorkerQuiet
<1> QED BY <1>1, TraceInvariant, PTL

\* When flush() or close() returns, the write buffer is empty and the worker has
\* nothing to add to it: all that was dumped is in the file.
THEOREM FlushReachesFile ==
  ASSUME CallsAfterClose = {} PROVE Spec => []FlushedIsWritten
<1>1. TraceInv => FlushedIsWritten
  <2> SUFFICES ASSUME TraceInv, At("return") PROVE m_wrBuf = <<>> /\ NothingToPrint
    BY DEF FlushedIsWritten
  <2>1. m_wrBuf = <<>>
    BY DEF TraceInv, Written, At, AtOneOf
  <2>2. Drained
    BY DEF TraceInv, Rests, At, AtOneOf, Quiet
  <2> QED BY <2>1, <2>2, NothingOnTheWay
<1> QED BY <1>1, TraceInvariant, PTL
=============================================================================
