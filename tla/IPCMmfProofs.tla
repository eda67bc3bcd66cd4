---------------------------- MODULE IPCMmfProofs ----------------------------
(***************************************************************************)
(* Proofs about the shared-memory channel, for every number of senders,     *)
(* every size of the section and every set of message sizes.                *)
(***************************************************************************)
EXTENDS IPCMmf, TLAPS

(* DWORD arithmetic.                                                         *)

\* A DWORD sum is a DWORD.
LEMMA Add32Type ==
  ASSUME NEW a \in Nat, NEW b \in Nat
  PROVE  Add32(a, b) \in 0..(DwordMod - 1)
BY SizeAssumption DEF Add32

\* The sum that WriteDataInternal compares and stores does not wrap: senders pass
\* messages that are small compared with a DWORD.
LEMMA Add32Exact ==
  ASSUME NEW a \in Nat, NEW b \in Nat, a + b < DwordMod
  PROVE  Add32(a, b) = a + b
BY SizeAssumption DEF Add32

-----------------------------------------------------------------------------
(* The inductive invariant, in parts.                                        *)

\* A thread past `idle' has its message; threads past the test of the view have a
\* view; the reader has copied at most what it set out to copy.
Calls ==
  /\ \A s \in Senders : wpc[s] # "idle" => wmsg[s] \in Messages
  /\ \A s \in Senders : wpc[s] \in {"addr", "copy", "store"} => view[s]
  /\ \A s \in Senders : wpc[s] = "copy" => wcnt[s] <= wmsg[s].len
  /\ \A s \in Senders : wpc[s] # "copy" => wcnt[s] = 0
  /\ rpc \in {"alloc", "len", "copy", "zero"} => view[Reader]
  /\ rpc \in {"wait", "check", "alloc", "len", "got"} => rbuf = <<>>
  /\ rpc = "copy" => Len(rbuf) <= rlen
  /\ rpc = "zero" => Len(rbuf) = rlen

\* The threads between WaitForSingleObject and their return.
Holds(p) == IF p = Reader THEN rpc \in {"check", "alloc", "len", "copy", "zero", "release"}
                          ELSE wpc[p] \in {"check", "addr", "copy", "store", "release"}

\* With a mutex only its owner is between the two calls.
Owned == hMutex => \A p \in Procs : Holds(p) => owner = p

\* The range check stays valid after the counter has been read again.
Checked ==
  OneWriter => \A s \in Senders :
    /\ wpc[s] \in {"addr", "copy"} => cur + wmsg[s].len <= MmfSize
    /\ wpc[s] \in {"copy", "store"} => wreg[s] + wmsg[s].len <= MmfSize

\* As long as nothing has overlapped there is one thread in the section.
Alone == ~overlap => \A p, q \in Procs : Inside(p) /\ Inside(q) => p = q

\* Then the area holds the unread bytes, followed by what the writer has copied.
Area ==
  ~overlap =>
    /\ cur = Len(unread) /\ cur <= MmfSize
    /\ \A i \in 1..cur : mem[i - 1] = unread[i]
    /\ \A s \in Senders :
         /\ wpc[s] \in {"addr", "copy", "store"} => cur + wmsg[s].len <= MmfSize
         /\ wpc[s] \in {"copy", "store"} => wreg[s] = cur

\* And the reader's three readings of the counter agree.
Copied ==
  ~overlap =>
    /\ rpc \in {"alloc", "len", "copy", "zero"} => cur > 0
    /\ rpc \in {"len", "copy", "zero"} => ralloc = cur + 1
    /\ rpc \in {"copy", "zero"} => rlen = cur
    /\ rpc \in {"copy", "zero"} => \A i \in 1..Len(rbuf) : rbuf[i] = unread[i]
    /\ rpc = "zero" => dwSize = cur

\* What the writer has copied so far is in the area, behind the unread bytes.
Written ==
  ~overlap => \A s \in Senders :
    /\ wpc[s] = "copy" => \A j \in 1..wcnt[s] : mem[cur + j - 1] = BytesOf(wmsg[s])[j]
    /\ wpc[s] = "store" => \A j \in 1..wmsg[s].len : mem[cur + j - 1] = BytesOf(wmsg[s])[j]

IInv == /\ TypeOK /\ Calls /\ Owned /\ MutualExclusion /\ WritesStayInside /\ Checked
        /\ Alone /\ Area /\ Copied /\ Written

\* With one writer the reader's three readings ascend, below the counter: from its test
\* on the counter is not zero, and the value a sender is about to add to is the counter,
\* or one the reader has reset since, and then ReadData finds nothing to read.
Reading == rpc \in {"alloc", "len", "copy", "zero"}
Ascending ==
  OneWriter =>
    /\ Reading => cur > 0
    /\ rpc = "len" => ralloc <= cur + 1
    /\ rpc \in {"copy", "zero"} => ralloc <= rlen + 1 /\ rlen <= cur
    /\ rpc = "zero" => rlen <= dwSize /\ dwSize <= cur
    /\ \A s \in Senders : wpc[s] = "store" => wreg[s] = cur \/ (cur = 0 /\ ~Reading)

-----------------------------------------------------------------------------
(* Facts about messages.                                                     *)

\* A message is at least its header and never so long that a sum with it wraps.
LEMMA MessageLength ==
  ASSUME NEW m \in Messages
  PROVE  m.len \in Nat /\ m.len > 0 /\ MmfSize + m.len < DwordMod
<1>1. PICK d \in DataLens : m.len = Add32(HeaderLen, d)
  BY DEF Messages
<1>2. d \in Nat /\ HeaderLen + d < DwordMod /\ MmfSize + (HeaderLen + d) < DwordMod
  BY <1>1, SizeAssumption
<1>3. m.len = HeaderLen + d
  BY <1>1, <1>2, Add32Exact, SizeAssumption
<1> QED
  BY <1>2, <1>3, SizeAssumption

\* Within the section the range check of line 95 is the intended one.
LEMMA FitsExact ==
  ASSUME NEW m \in Messages, NEW c \in Nat, c <= MmfSize
  PROVE  Fits(c, m.len) <=> c + m.len <= MmfSize /\ Add32(c, m.len) = c + m.len
<1>1. m.len \in Nat /\ c + m.len < DwordMod
  BY MessageLength, SizeAssumption
<1> QED
  BY <1>1, Add32Exact DEF Fits

\* The bytes of a message.
LEMMA BytesType ==
  ASSUME NEW m \in Messages
  PROVE  /\ BytesOf(m) \in Seq(Bytes) /\ Len(BytesOf(m)) = m.len
         /\ \A i \in 1..m.len : BytesOf(m)[i] \in Bytes
<1>1. m.len \in Nat
  BY MessageLength
<1>2. \A i \in 1..m.len : [msg |-> m, off |-> i - 1] \in Bytes
  BY <1>1 DEF Bytes
<1>3. BytesOf(m) \in [1..m.len -> Bytes]
  BY <1>2 DEF BytesOf
<1> QED
  BY <1>1, <1>3

\* SendMsgToMmf builds a message.
LEMMA NewMessage ==
  ASSUME TypeOK, NEW s \in Senders, NEW e \in EventTypes, NEW d \in DataLens, nsent < MaxSend
  PROVE  [from |-> s, num |-> nsent + 1, evt |-> e, len |-> Add32(HeaderLen, d)] \in Messages
<1>1. nsent + 1 \in 1..MaxSend
  BY SizeAssumption DEF TypeOK
<1> QED
  BY <1>1 DEF Messages

-----------------------------------------------------------------------------
(* The parts are preserved by every step.                                    *)

\* What a thread has at hand at each place in the code.
LEMMA CallsPreserved ==
  ASSUME TypeOK, Calls, [Next]_vars
  PROVE  Calls'
<1>1. ASSUME NEW s \in Senders, NEW e \in EventTypes, NEW d \in DataLens, SendMsgToMmf(s, e, d)
      PROVE  Calls'
  BY <1>1, NewMessage
  DEF SendMsgToMmf, TypeOK, Calls, Procs, shared, setup, writer, reader, history
<1>2. ASSUME NEW s \in Senders, SendMsgRejected(s)
      PROVE  Calls'
  BY <1>2
  DEF SendMsgRejected, TypeOK, Calls, Procs, shared, setup, writer, reader, history
<1>3. ASSUME NEW s \in Senders, WriteWait(s)
      PROVE  Calls'
  BY <1>3
  DEF WriteWait, Acquire, CanAcquire, Enter, TypeOK, Calls, Procs, shared, setup, writer, reader, history
<1>4. ASSUME NEW s \in Senders, WriteFail(s)
      PROVE  Calls'
  BY <1>4
  DEF WriteFail, ReturnWithoutRelease, WriteReturn, TypeOK, Calls, Procs, shared, setup, writer, reader, history
<1>5. ASSUME NEW s \in Senders, WriteCheck(s)
      PROVE  Calls'
  BY <1>5, MessageLength
  DEF WriteCheck, TypeOK, Calls, Procs, shared, setup, writer, reader, history
<1>6. ASSUME NEW s \in Senders, WriteAddr(s)
      PROVE  Calls'
  BY <1>6, MessageLength
  DEF WriteAddr, TypeOK, Calls, Procs, shared, setup, writer, reader, history
<1>7. ASSUME NEW s \in Senders, WriteCopy(s)
      PROVE  Calls'
  <2>1. wmsg[s] \in Messages /\ wmsg[s].len \in Nat /\ wcnt[s] \in Nat
    BY <1>7, MessageLength DEF WriteCopy, TypeOK, Calls
  <2>2. wcnt'[s] = wcnt[s] + 1 /\ wcnt[s] + 1 <= wmsg[s].len
    BY <1>7, <2>1 DEF WriteCopy, TypeOK
  <2> QED
    BY <1>7, <2>1, <2>2 DEF WriteCopy, TypeOK, Calls, shared, setup, writer, reader, history
<1>8. ASSUME NEW s \in Senders, WriteLoad(s)
      PROVE  Calls'
  BY <1>8, MessageLength
  DEF WriteLoad, TypeOK, Calls, Procs, shared, setup, writer, reader, history
<1>9. ASSUME NEW s \in Senders, WriteStore(s)
      PROVE  Calls'
  BY <1>9
  DEF WriteStore, TypeOK, Calls, Procs, shared, setup, writer, reader, history
<1>10. ASSUME NEW s \in Senders, WriteRelease(s)
      PROVE  Calls'
  BY <1>10
  DEF WriteRelease, Release, WriteReturn, TypeOK, Calls, Procs, shared, setup, writer, reader, history
<1>11. CASE ReadWait
  BY <1>11
  DEF ReadWait, Acquire, CanAcquire, Enter, TypeOK, Calls, Procs, shared, setup, writer, reader, history
<1>12. CASE ReadFail
  BY <1>12
  DEF ReadFail, ReturnWithoutRelease, TypeOK, Calls, Procs, shared, setup, writer, reader, history
<1>13. CASE ReadNoView
  BY <1>13
  DEF ReadNoView, ReturnWithoutRelease, TypeOK, Calls, Procs, shared, setup, writer, reader, history
<1>14. CASE ReadCheck
  BY <1>14
  DEF ReadCheck, TypeOK, Calls, Procs, shared, setup, writer, reader, history
<1>15. CASE ReadAlloc
  BY <1>15
  DEF ReadAlloc, TypeOK, Calls, Procs, shared, setup, writer, reader, history
<1>16. CASE ReadLen
  BY <1>16
  DEF ReadLen, TypeOK, Calls, Procs, shared, setup, writer, reader, history
<1>17. CASE ReadCopy
  BY <1>17
  DEF ReadCopy, TypeOK, Calls, Procs, shared, setup, writer, reader, history
<1>18. CASE ReadSize
  BY <1>18
  DEF ReadSize, TypeOK, Calls, Procs, shared, setup, writer, reader, history
<1>19. CASE ReadZero
  BY <1>19
  DEF ReadZero, TypeOK, Calls, Procs, shared, setup, writer, reader, history
<1>20. CASE ReadRelease
  BY <1>20
  DEF ReadRelease, Release, TypeOK, Calls, Procs, shared, setup, writer, reader, history
<1>21. CASE ReadAgain
  BY <1>21
  DEF ReadAgain, TypeOK, Calls, Procs, shared, setup, writer, reader, history
<1>22. CASE UNCHANGED vars
  BY <1>22
  DEF TypeOK, Calls, Procs, vars, shared, setup, writer, reader, history
<1> QED
  BY <1>1, <1>2, <1>3, <1>4, <1>5, <1>6, <1>7, <1>8, <1>9, <1>10, <1>11, <1>12, <1>13, <1>14, <1>15, <1>16, <1>17, <1>18, <1>19, <1>20, <1>21, <1>22 DEF Next, SenderStep, ReadDataStep

\* Types.
LEMMA TypePreserved ==
  ASSUME TypeOK, Calls, [Next]_vars
  PROVE  TypeOK'
<1>1. ASSUME NEW s \in Senders, NEW e \in EventTypes, NEW d \in DataLens, SendMsgToMmf(s, e, d)
      PROVE  TypeOK'
  BY <1>1, SizeAssumption, NewMessage
  DEF SendMsgToMmf, TypeOK, Procs, shared, setup, writer, reader, history
<1>2. ASSUME NEW s \in Senders, SendMsgRejected(s)
      PROVE  TypeOK'
  BY <1>2, SizeAssumption
  DEF SendMsgRejected, TypeOK, Procs, shared, setup, writer, reader, history
<1>3. ASSUME NEW s \in Senders, WriteWait(s)
      PROVE  TypeOK'
  BY <1>3, SizeAssumption
  DEF WriteWait, Acquire, CanAcquire, Enter, TypeOK, Procs, shared, setup, writer, reader, history
<1>4. ASSUME NEW s \in Senders, WriteFail(s)
      PROVE  TypeOK'
  BY <1>4, SizeAssumption
  DEF WriteFail, ReturnWithoutRelease, WriteReturn, Calls, TypeOK, Procs, shared, setup, writer, reader, history
<1>5. ASSUME NEW s \in Senders, WriteCheck(s)
      PROVE  TypeOK'
  BY <1>5, SizeAssumption
  DEF WriteCheck, TypeOK, Procs, shared, setup, writer, reader, history
<1>6. ASSUME NEW s \in Senders, WriteAddr(s)
      PROVE  TypeOK'
  BY <1>6, SizeAssumption
  DEF WriteAddr, TypeOK, Procs, shared, setup, writer, reader, history
<1>7. ASSUME NEW s \in Senders, WriteCopy(s)
      PROVE  TypeOK'
  <2>1. wmsg[s] \in Messages /\ wmsg[s].len \in Nat /\ wcnt[s] \in Nat /\ wreg[s] \in Nat
    BY <1>7, MessageLength DEF WriteCopy, TypeOK, Calls
  <2>2. BytesOf(wmsg[s])[wcnt[s] + 1] \in Bytes
    BY <1>7, <2>1, BytesType DEF WriteCopy
  <2>3. mem' \in [0..(MmfSize - 1) -> Bytes \cup {NoByte}]
    BY <1>7, <2>1, <2>2 DEF WriteCopy, TypeOK
  <2>4. wcnt' \in [Senders -> Nat]
    BY <1>7, <2>1 DEF WriteCopy, TypeOK
  <2> QED
    BY <1>7, <2>3, <2>4 DEF WriteCopy, TypeOK, shared, setup, writer, reader, history
<1>8. ASSUME NEW s \in Senders, WriteLoad(s)
      PROVE  TypeOK'
  BY <1>8, SizeAssumption
  DEF WriteLoad, TypeOK, Procs, shared, setup, writer, reader, history
<1>9. ASSUME NEW s \in Senders, WriteStore(s)
      PROVE  TypeOK'
  <2>1. wmsg[s] \in Messages /\ wmsg[s].len \in Nat /\ wreg[s] \in Nat
    BY <1>9, MessageLength DEF WriteStore, TypeOK, Calls
  <2>2. cur' \in 0..(DwordMod - 1)
    BY <1>9, <2>1, Add32Type DEF WriteStore
  <2>3. unread' \in Seq(Bytes)
    BY <1>9, <2>1, BytesType DEF WriteStore, TypeOK
  <2> QED
    BY <1>9, <2>2, <2>3 DEF WriteStore, TypeOK, shared, setup, writer, reader, history
<1>10. ASSUME NEW s \in Senders, WriteRelease(s)
      PROVE  TypeOK'
  BY <1>10, SizeAssumption
  DEF WriteRelease, Release, WriteReturn, Calls, TypeOK, Procs, shared, setup, writer, reader, history
<1>11. CASE ReadWait
  BY <1>11, SizeAssumption
  DEF ReadWait, Acquire, CanAcquire, Enter, TypeOK, Procs, shared, setup, writer, reader, history
<1>12. CASE ReadFail
  BY <1>12, SizeAssumption
  DEF ReadFail, ReturnWithoutRelease, TypeOK, Procs, shared, setup, writer, reader, history
<1>13. CASE ReadNoView
  BY <1>13, SizeAssumption
  DEF ReadNoView, ReturnWithoutRelease, TypeOK, Procs, shared, setup, writer, reader, history
<1>14. CASE ReadCheck
  BY <1>14, SizeAssumption
  DEF ReadCheck, TypeOK, Procs, shared, setup, writer, reader, history
<1>15. CASE ReadAlloc
  <2>1. cur \in Nat
    BY SizeAssumption DEF TypeOK
  <2>2. ralloc' \in Nat
    BY <1>15, <2>1, Add32Type, SizeAssumption DEF ReadAlloc
  <2> QED
    BY <1>15, <2>2 DEF ReadAlloc, TypeOK, shared, setup, writer, reader, history
<1>16. CASE ReadLen
  BY <1>16, SizeAssumption
  DEF ReadLen, TypeOK, Procs, shared, setup, writer, reader, history
<1>17. CASE ReadCopy
  BY <1>17, SizeAssumption
  DEF ReadCopy, TypeOK, Procs, shared, setup, writer, reader, history
<1>18. CASE ReadSize
  BY <1>18, SizeAssumption
  DEF ReadSize, TypeOK, Procs, shared, setup, writer, reader, history
<1>19. CASE ReadZero
  BY <1>19, SizeAssumption
  DEF ReadZero, Calls, Batch, BatchMessages, TypeOK, Procs, shared, setup, writer, reader, history
<1>20. CASE ReadRelease
  BY <1>20, SizeAssumption
  DEF ReadRelease, Release, TypeOK, Procs, shared, setup, writer, reader, history
<1>21. CASE ReadAgain
  BY <1>21, SizeAssumption
  DEF ReadAgain, TypeOK, Procs, shared, setup, writer, reader, history
<1>22. CASE UNCHANGED vars
  BY <1>22, SizeAssumption
  DEF TypeOK, Procs, vars, shared, setup, writer, reader, history
<1> QED
  BY <1>1, <1>2, <1>3, <1>4, <1>5, <1>6, <1>7, <1>8, <1>9, <1>10, <1>11, <1>12, <1>13, <1>14, <1>15, <1>16, <1>17, <1>18, <1>19, <1>20, <1>21, <1>22 DEF Next, SenderStep, ReadDataStep

\* With a mutex, entering needs it and only its owner leaves.
LEMMA OwnedPreserved ==
  ASSUME TypeOK, Owned, [Next]_vars
  PROVE  Owned'
<1>1. ASSUME NEW s \in Senders, NEW e \in EventTypes, NEW d \in DataLens, SendMsgToMmf(s, e, d)
      PROVE  Owned'
  BY <1>1, ReaderAssumption
  DEF SendMsgToMmf, TypeOK, Owned, Holds, Procs, shared, setup, writer, reader, history
<1>2. ASSUME NEW s \in Senders, SendMsgRejected(s)
      PROVE  Owned'
  BY <1>2, ReaderAssumption
  DEF SendMsgRejected, TypeOK, Owned, Holds, Procs, shared, setup, writer, reader, history
<1>3. ASSUME NEW s \in Senders, WriteWait(s)
      PROVE  Owned'
  BY <1>3, ReaderAssumption
  DEF WriteWait, Acquire, CanAcquire, Enter, TypeOK, Owned, Holds, Procs, shared, setup, writer, reader, history
<1>4. ASSUME NEW s \in Senders, WriteFail(s)
      PROVE  Owned'
  BY <1>4, ReaderAssumption
  DEF WriteFail, ReturnWithoutRelease, WriteReturn, TypeOK, Owned, Holds, Procs, shared, setup, writer, reader, history
<1>5. ASSUME NEW s \in Senders, WriteCheck(s)
      PROVE  Owned'
  BY <1>5, ReaderAssumption
  DEF WriteCheck, TypeOK, Owned, Holds, Procs, shared, setup, writer, reader, history
<1>6. ASSUME NEW s \in Senders, WriteAddr(s)
      PROVE  Owned'
  BY <1>6, ReaderAssumption
  DEF WriteAddr, TypeOK, Owned, Holds, Procs, shared, setup, writer, reader, history
<1>7. ASSUME NEW s \in Senders, WriteCopy(s)
      PROVE  Owned'
  BY <1>7, ReaderAssumption
  DEF WriteCopy, TypeOK, Owned, Holds, Procs, shared, setup, writer, reader, history
<1>8. ASSUME NEW s \in Senders, WriteLoad(s)
      PROVE  Owned'
  BY <1>8, ReaderAssumption
  DEF WriteLoad, TypeOK, Owned, Holds, Procs, shared, setup, writer, reader, history
<1>9. ASSUME NEW s \in Senders, WriteStore(s)
      PROVE  Owned'
  BY <1>9, ReaderAssumption
  DEF WriteStore, TypeOK, Owned, Holds, Procs, shared, setup, writer, reader, history
<1>10. ASSUME NEW s \in Senders, WriteRelease(s)
      PROVE  Owned'
  BY <1>10, ReaderAssumption
  DEF WriteRelease, Release, WriteReturn, TypeOK, Owned, Holds, Procs, shared, setup, writer, reader, history
<1>11. CASE ReadWait
  BY <1>11, ReaderAssumption
  DEF ReadWait, Acquire, CanAcquire, Enter, TypeOK, Owned, Holds, Procs, shared, setup, writer, reader, history
<1>12. CASE ReadFail
  BY <1>12, ReaderAssumption
  DEF ReadFail, ReturnWithoutRelease, TypeOK, Owned, Holds, Procs, shared, setup, writer, reader, history
<1>13. CASE ReadNoView
  BY <1>13, ReaderAssumption
  DEF ReadNoView, ReturnWithoutRelease, TypeOK, Owned, Holds, Procs, shared, setup, writer, reader, history
<1>14. CASE ReadCheck
  BY <1>14, ReaderAssumption
  DEF ReadCheck, TypeOK, Owned, Holds, Procs, shared, setup, writer, reader, history
<1>15. CASE ReadAlloc
  BY <1>15, ReaderAssumption
  DEF ReadAlloc, TypeOK, Owned, Holds, Procs, shared, setup, writer, reader, history
<1>16. CASE ReadLen
  BY <1>16, ReaderAssumption
  DEF ReadLen, TypeOK, Owned, Holds, Procs, shared, setup, writer, reader, history
<1>17. CASE ReadCopy
  BY <1>17, ReaderAssumption
  DEF ReadCopy, TypeOK, Owned, Holds, Procs, shared, setup, writer, reader, history
<1>18. CASE ReadSize
  BY <1>18, ReaderAssumption
  DEF ReadSize, TypeOK, Owned, Holds, Procs, shared, setup, writer, reader, history
<1>19. CASE ReadZero
  BY <1>19, ReaderAssumption
  DEF ReadZero, TypeOK, Owned, Holds, Procs, shared, setup, writer, reader, history
<1>20. CASE ReadRelease
  BY <1>20, ReaderAssumption
  DEF ReadRelease, Release, TypeOK, Owned, Holds, Procs, shared, setup, writer, reader, history
<1>21. CASE ReadAgain
  BY <1>21, ReaderAssumption
  DEF ReadAgain, TypeOK, Owned, Holds, Procs, shared, setup, writer, reader, history
<1>22. CASE UNCHANGED vars
  BY <1>22, ReaderAssumption
  DEF TypeOK, Owned, Holds, Procs, vars, shared, setup, writer, reader, history
<1> QED
  BY <1>1, <1>2, <1>3, <1>4, <1>5, <1>6, <1>7, <1>8, <1>9, <1>10, <1>11, <1>12, <1>13, <1>14, <1>15, <1>16, <1>17, <1>18, <1>19, <1>20, <1>21, <1>22 DEF Next, SenderStep, ReadDataStep

\* A thread enters with the mutex: nobody else is in the section then.
LEMMA ExclusionPreserved ==
  ASSUME TypeOK, Owned, MutualExclusion, [Next]_vars
  PROVE  MutualExclusion'
<1>1. ASSUME NEW s \in Senders, NEW e \in EventTypes, NEW d \in DataLens, SendMsgToMmf(s, e, d)
      PROVE  MutualExclusion'
  BY <1>1
  DEF SendMsgToMmf, MutualExclusion, shared, setup, writer, reader, history
<1>2. ASSUME NEW s \in Senders, SendMsgRejected(s)
      PROVE  MutualExclusion'
  BY <1>2
  DEF SendMsgRejected, MutualExclusion, shared, setup, writer, reader, history
<1>3. ASSUME NEW s \in Senders, WriteWait(s)
      PROVE  MutualExclusion'
  BY <1>3, ReaderAssumption
  DEF WriteWait, Acquire, CanAcquire, Enter, TypeOK, Owned, Holds, Inside, WriterInside, ReaderInside, Procs, MutualExclusion, shared, setup, writer, reader, history
<1>4. ASSUME NEW s \in Senders, WriteFail(s)
      PROVE  MutualExclusion'
  BY <1>4
  DEF WriteFail, ReturnWithoutRelease, WriteReturn, MutualExclusion, shared, setup, writer, reader, history
<1>5. ASSUME NEW s \in Senders, WriteCheck(s)
      PROVE  MutualExclusion'
  BY <1>5
  DEF WriteCheck, MutualExclusion, shared, setup, writer, reader, history
<1>6. ASSUME NEW s \in Senders, WriteAddr(s)
      PROVE  MutualExclusion'
  BY <1>6
  DEF WriteAddr, MutualExclusion, shared, setup, writer, reader, history
<1>7. ASSUME NEW s \in Senders, WriteCopy(s)
      PROVE  MutualExclusion'
  BY <1>7
  DEF WriteCopy, MutualExclusion, shared, setup, writer, reader, history
<1>8. ASSUME NEW s \in Senders, WriteLoad(s)
      PROVE  MutualExclusion'
  BY <1>8
  DEF WriteLoad, MutualExclusion, shared, setup, writer, reader, history
<1>9. ASSUME NEW s \in Senders, WriteStore(s)
      PROVE  MutualExclusion'
  BY <1>9
  DEF WriteStore, MutualExclusion, shared, setup, writer, reader, history
<1>10. ASSUME NEW s \in Senders, WriteRelease(s)
      PROVE  MutualExclusion'
  BY <1>10
  DEF WriteRelease, Release, WriteReturn, MutualExclusion, shared, setup, writer, reader, history
<1>11. CASE ReadWait
  BY <1>11, ReaderAssumption
  DEF ReadWait, Acquire, CanAcquire, Enter, TypeOK, Owned, Holds, Inside, WriterInside, ReaderInside, Procs, MutualExclusion, shared, setup, writer, reader, history
<1>12. CASE ReadFail
  BY <1>12
  DEF ReadFail, ReturnWithoutRelease, MutualExclusion, shared, setup, writer, reader, history
<1>13. CASE ReadNoView
  BY <1>13
  DEF ReadNoView, ReturnWithoutRelease, MutualExclusion, shared, setup, writer, reader, history
<1>14. CASE ReadCheck
  BY <1>14
  DEF ReadCheck, MutualExclusion, shared, setup, writer, reader, history
<1>15. CASE ReadAlloc
  BY <1>15
  DEF ReadAlloc, MutualExclusion, shared, setup, writer, reader, history
<1>16. CASE ReadLen
  BY <1>16
  DEF ReadLen, MutualExclusion, shared, setup, writer, reader, history
<1>17. CASE ReadCopy
  BY <1>17
  DEF ReadCopy, MutualExclusion, shared, setup, writer, reader, history
<1>18. CASE ReadSize
  BY <1>18
  DEF ReadSize, MutualExclusion, shared, setup, writer, reader, history
<1>19. CASE ReadZero
  BY <1>19
  DEF ReadZero, MutualExclusion, shared, setup, writer, reader, history
<1>20. CASE ReadRelease
  BY <1>20
  DEF ReadRelease, Release, MutualExclusion, shared, setup, writer, reader, history
<1>21. CASE ReadAgain
  BY <1>21
  DEF ReadAgain, MutualExclusion, shared, setup, writer, reader, history
<1>22. CASE UNCHANGED vars
  BY <1>22
  DEF MutualExclusion, vars, shared, setup, writer, reader, history
<1> QED
  BY <1>1, <1>2, <1>3, <1>4, <1>5, <1>6, <1>7, <1>8, <1>9, <1>10, <1>11, <1>12, <1>13, <1>14, <1>15, <1>16, <1>17, <1>18, <1>19, <1>20, <1>21, <1>22 DEF Next, SenderStep, ReadDataStep

\* The bytes copied and the counter stored are within the area the check has granted.
LEMMA InsidePreserved ==
  ASSUME TypeOK, Calls, Checked, WritesStayInside, [Next]_vars
  PROVE  WritesStayInside'
<1>1. ASSUME NEW s \in Senders, NEW e \in EventTypes, NEW d \in DataLens, SendMsgToMmf(s, e, d)
      PROVE  WritesStayInside'
  BY <1>1, SizeAssumption
  DEF SendMsgToMmf, WritesStayInside, OneWriter, shared, setup, writer, reader, history
<1>2. ASSUME NEW s \in Senders, SendMsgRejected(s)
      PROVE  WritesStayInside'
  BY <1>2, SizeAssumption
  DEF SendMsgRejected, WritesStayInside, OneWriter, shared, setup, writer, reader, history
<1>3. ASSUME NEW s \in Senders, WriteWait(s)
      PROVE  WritesStayInside'
  BY <1>3, SizeAssumption
  DEF WriteWait, Acquire, CanAcquire, Enter, WritesStayInside, OneWriter, shared, setup, writer, reader, history
<1>4. ASSUME NEW s \in Senders, WriteFail(s)
      PROVE  WritesStayInside'
  BY <1>4, SizeAssumption
  DEF WriteFail, ReturnWithoutRelease, WriteReturn, WritesStayInside, OneWriter, shared, setup, writer, reader, history
<1>5. ASSUME NEW s \in Senders, WriteCheck(s)
      PROVE  WritesStayInside'
  BY <1>5, SizeAssumption
  DEF WriteCheck, WritesStayInside, OneWriter, shared, setup, writer, reader, history
<1>6. ASSUME NEW s \in Senders, WriteAddr(s)
      PROVE  WritesStayInside'
  BY <1>6, SizeAssumption
  DEF WriteAddr, WritesStayInside, OneWriter, shared, setup, writer, reader, history
<1>7. ASSUME NEW s \in Senders, WriteCopy(s)
      PROVE  WritesStayInside'
  <2> SUFFICES ASSUME OneWriter PROVE ~overrun' /\ cur' <= MmfSize
    BY <1>7 DEF WritesStayInside, OneWriter, WriteCopy, setup
  <2>1. wmsg[s].len \in Nat /\ wcnt[s] \in Nat /\ wreg[s] \in Nat
    BY <1>7, MessageLength DEF WriteCopy, TypeOK, Calls
  <2>2. wreg[s] + wcnt[s] < MmfSize
    BY <1>7, <2>1, SizeAssumption DEF WriteCopy, Checked
  <2> QED
    BY <1>7, <2>1, <2>2, SizeAssumption DEF WriteCopy, WritesStayInside, TypeOK
<1>8. ASSUME NEW s \in Senders, WriteLoad(s)
      PROVE  WritesStayInside'
  BY <1>8, SizeAssumption
  DEF WriteLoad, WritesStayInside, OneWriter, shared, setup, writer, reader, history
<1>9. ASSUME NEW s \in Senders, WriteStore(s)
      PROVE  WritesStayInside'
  <2> SUFFICES ASSUME OneWriter PROVE ~overrun' /\ cur' <= MmfSize
    BY <1>9 DEF WritesStayInside, OneWriter, WriteStore, setup
  <2>1. wmsg[s] \in Messages /\ wmsg[s].len \in Nat /\ wreg[s] \in Nat
    BY <1>9, MessageLength DEF WriteStore, TypeOK, Calls
  <2>2. wreg[s] + wmsg[s].len <= MmfSize
    BY <1>9 DEF WriteStore, Checked
  <2>3. cur' = wreg[s] + wmsg[s].len
    BY <1>9, <2>1, <2>2, MessageLength, Add32Exact, SizeAssumption DEF WriteStore
  <2> QED
    BY <1>9, <2>2, <2>3 DEF WriteStore, WritesStayInside
<1>10. ASSUME NEW s \in Senders, WriteRelease(s)
      PROVE  WritesStayInside'
  BY <1>10, SizeAssumption
  DEF WriteRelease, Release, WriteReturn, WritesStayInside, OneWriter, shared, setup, writer, reader, history
<1>11. CASE ReadWait
  BY <1>11, SizeAssumption
  DEF ReadWait, Acquire, CanAcquire, Enter, WritesStayInside, OneWriter, shared, setup, writer, reader, history
<1>12. CASE ReadFail
  BY <1>12, SizeAssumption
  DEF ReadFail, ReturnWithoutRelease, WritesStayInside, OneWriter, shared, setup, writer, reader, history
<1>13. CASE ReadNoView
  BY <1>13, SizeAssumption
  DEF ReadNoView, ReturnWithoutRelease, WritesStayInside, OneWriter, shared, setup, writer, reader, history
<1>14. CASE ReadCheck
  BY <1>14, SizeAssumption
  DEF ReadCheck, WritesStayInside, OneWriter, shared, setup, writer, reader, history
<1>15. CASE ReadAlloc
  BY <1>15, SizeAssumption
  DEF ReadAlloc, WritesStayInside, OneWriter, shared, setup, writer, reader, history
<1>16. CASE ReadLen
  BY <1>16, SizeAssumption
  DEF ReadLen, WritesStayInside, OneWriter, shared, setup, writer, reader, history
<1>17. CASE ReadCopy
  BY <1>17, SizeAssumption
  DEF ReadCopy, WritesStayInside, OneWriter, shared, setup, writer, reader, history
<1>18. CASE ReadSize
  BY <1>18, SizeAssumption
  DEF ReadSize, WritesStayInside, OneWriter, shared, setup, writer, reader, history
<1>19. CASE ReadZero
  BY <1>19, SizeAssumption
  DEF ReadZero, WritesStayInside, OneWriter, shared, setup, writer, reader, history
<1>20. CASE ReadRelease
  BY <1>20, SizeAssumption
  DEF ReadRelease, Release, WritesStayInside, OneWriter, shared, setup, writer, reader, history
<1>21. CASE ReadAgain
  BY <1>21, SizeAssumption
  DEF ReadAgain, WritesStayInside, OneWriter, shared, setup, writer, reader, history
<1>22. CASE UNCHANGED vars
  BY <1>22, SizeAssumption
  DEF WritesStayInside, OneWriter, vars, shared, setup, writer, reader, history
<1> QED
  BY <1>1, <1>2, <1>3, <1>4, <1>5, <1>6, <1>7, <1>8, <1>9, <1>10, <1>11, <1>12, <1>13, <1>14, <1>15, <1>16, <1>17, <1>18, <1>19, <1>20, <1>21, <1>22 DEF Next, SenderStep, ReadDataStep

\* The counter can only become smaller between a sender's check and its store:
\* the reader resets it, and no other sender is between them.
LEMMA CheckedPreserved ==
  ASSUME TypeOK, Calls, Owned, WritesStayInside, Checked, [Next]_vars
  PROVE  Checked'
<1>1. ASSUME NEW s \in Senders, NEW e \in EventTypes, NEW d \in DataLens, SendMsgToMmf(s, e, d)
      PROVE  Checked'
  BY <1>1
  DEF SendMsgToMmf, TypeOK, Checked, OneWriter, shared, setup, writer, reader, history
<1>2. ASSUME NEW s \in Senders, SendMsgRejected(s)
      PROVE  Checked'
  BY <1>2
  DEF SendMsgRejected, TypeOK, Checked, OneWriter, shared, setup, writer, reader, history
<1>3. ASSUME NEW s \in Senders, WriteWait(s)
      PROVE  Checked'
  BY <1>3
  DEF WriteWait, Acquire, CanAcquire, Enter, TypeOK, Checked, OneWriter, shared, setup, writer, reader, history
<1>4. ASSUME NEW s \in Senders, WriteFail(s)
      PROVE  Checked'
  BY <1>4
  DEF WriteFail, ReturnWithoutRelease, WriteReturn, TypeOK, Checked, OneWriter, shared, setup, writer, reader, history
<1>5. ASSUME NEW s \in Senders, WriteCheck(s)
      PROVE  Checked'
  <2> SUFFICES ASSUME OneWriter, NEW t \in Senders
               PROVE  (/\ wpc[t] \in {"addr", "copy"} => cur + wmsg[t].len <= MmfSize
                       /\ wpc[t] \in {"copy", "store"} => wreg[t] + wmsg[t].len <= MmfSize)'
    BY <1>5 DEF Checked, OneWriter, WriteCheck, setup
  <2>1. wmsg[s] \in Messages /\ cur \in Nat /\ cur <= MmfSize
    BY <1>5, SizeAssumption DEF WriteCheck, TypeOK, Calls, WritesStayInside
  <2>2. cur + wmsg[s].len <= MmfSize
    BY <1>5, <2>1, FitsExact DEF WriteCheck
  <2> QED
    BY <1>5, <2>2 DEF WriteCheck, Checked, TypeOK, shared, setup
<1>6. ASSUME NEW s \in Senders, WriteAddr(s)
      PROVE  Checked'
  BY <1>6
  DEF WriteAddr, TypeOK, Checked, OneWriter, shared, setup, writer, reader, history
<1>7. ASSUME NEW s \in Senders, WriteCopy(s)
      PROVE  Checked'
  BY <1>7
  DEF WriteCopy, TypeOK, Checked, OneWriter, shared, setup, writer, reader, history
<1>8. ASSUME NEW s \in Senders, WriteLoad(s)
      PROVE  Checked'
  BY <1>8
  DEF WriteLoad, TypeOK, Checked, OneWriter, shared, setup, writer, reader, history
<1>9. ASSUME NEW s \in Senders, WriteStore(s)
      PROVE  Checked'
  <2> SUFFICES ASSUME OneWriter, NEW t \in Senders
               PROVE  (/\ wpc[t] \in {"addr", "copy"} => cur + wmsg[t].len <= MmfSize
                       /\ wpc[t] \in {"copy", "store"} => wreg[t] + wmsg[t].len <= MmfSize)'
    BY <1>9 DEF Checked, OneWriter, WriteStore, setup
  <2>1. CASE t = s
    BY <1>9, <2>1 DEF WriteStore, TypeOK
  <2>2. CASE t # s
    <3>1. hMutex /\ owner = s
      BY <1>9, <2>2, ReaderAssumption DEF WriteStore, OneWriter, Owned, Holds, Procs
    <3>2. wpc[t] \notin {"addr", "copy", "store"}
      BY <3>1, <2>2, ReaderAssumption DEF Owned, Holds, Procs
    <3> QED
      BY <1>9, <2>2, <3>2 DEF WriteStore, TypeOK
  <2> QED
    BY <2>1, <2>2
<1>10. ASSUME NEW s \in Senders, WriteRelease(s)
      PROVE  Checked'
  BY <1>10
  DEF WriteRelease, Release, WriteReturn, TypeOK, Checked, OneWriter, shared, setup, writer, reader, history
<1>11. CASE ReadWait
  BY <1>11
  DEF ReadWait, Acquire, CanAcquire, Enter, TypeOK, Checked, OneWriter, shared, setup, writer, reader, history
<1>12. CASE ReadFail
  BY <1>12
  DEF ReadFail, ReturnWithoutRelease, TypeOK, Checked, OneWriter, shared, setup, writer, reader, history
<1>13. CASE ReadNoView
  BY <1>13
  DEF ReadNoView, ReturnWithoutRelease, TypeOK, Checked, OneWriter, shared, setup, writer, reader, history
<1>14. CASE ReadCheck
  BY <1>14
  DEF ReadCheck, TypeOK, Checked, OneWriter, shared, setup, writer, reader, history
<1>15. CASE ReadAlloc
  BY <1>15
  DEF ReadAlloc, TypeOK, Checked, OneWriter, shared, setup, writer, reader, history
<1>16. CASE ReadLen
  BY <1>16
  DEF ReadLen, TypeOK, Checked, OneWriter, shared, setup, writer, reader, history
<1>17. CASE ReadCopy
  BY <1>17
  DEF ReadCopy, TypeOK, Checked, OneWriter, shared, setup, writer, reader, history
<1>18. CASE ReadSize
  BY <1>18
  DEF ReadSize, TypeOK, Checked, OneWriter, shared, setup, writer, reader, history
<1>19. CASE ReadZero
  <2> SUFFICES ASSUME OneWriter, NEW t \in Senders
               PROVE  (/\ wpc[t] \in {"addr", "copy"} => cur + wmsg[t].len <= MmfSize
                       /\ wpc[t] \in {"copy", "store"} => wreg[t] + wmsg[t].len <= MmfSize)'
    BY <1>19 DEF Checked, OneWriter, ReadZero, setup
  <2>1. wpc[t] \in {"addr", "copy"} => wmsg[t].len \in Nat /\ cur \in Nat /\ cur + wmsg[t].len <= MmfSize
    BY MessageLength, SizeAssumption DEF TypeOK, Calls, Checked
  <2> QED
    BY <1>19, <2>1, SizeAssumption DEF ReadZero, Checked, writer
<1>20. CASE ReadRelease
  BY <1>20
  DEF ReadRelease, Release, TypeOK, Checked, OneWriter, shared, setup, writer, reader, history
<1>21. CASE ReadAgain
  BY <1>21
  DEF ReadAgain, TypeOK, Checked, OneWriter, shared, setup, writer, reader, history
<1>22. CASE UNCHANGED vars
  BY <1>22
  DEF TypeOK, Checked, OneWriter, vars, shared, setup, writer, reader, history
<1> QED
  BY <1>1, <1>2, <1>3, <1>4, <1>5, <1>6, <1>7, <1>8, <1>9, <1>10, <1>11, <1>12, <1>13, <1>14, <1>15, <1>16, <1>17, <1>18, <1>19, <1>20, <1>21, <1>22 DEF Next, SenderStep, ReadDataStep

\* A thread that enters while another one is in the section marks the overlap.
LEMMA AlonePreserved ==
  ASSUME TypeOK, Alone, [Next]_vars
  PROVE  Alone'
<1>1. ASSUME NEW s \in Senders, NEW e \in EventTypes, NEW d \in DataLens, SendMsgToMmf(s, e, d)
      PROVE  Alone'
  BY <1>1, ReaderAssumption
  DEF SendMsgToMmf, TypeOK, Alone, Procs, Inside, WriterInside, ReaderInside, shared, setup, writer, reader, history
<1>2. ASSUME NEW s \in Senders, SendMsgRejected(s)
      PROVE  Alone'
  BY <1>2, ReaderAssumption
  DEF SendMsgRejected, TypeOK, Alone, Procs, Inside, WriterInside, ReaderInside, shared, setup, writer, reader, history
<1>3. ASSUME NEW s \in Senders, WriteWait(s)
      PROVE  Alone'
  BY <1>3, ReaderAssumption
  DEF WriteWait, Acquire, CanAcquire, Enter, TypeOK, Alone, Procs, Inside, WriterInside, ReaderInside, shared, setup, writer, reader, history
<1>4. ASSUME NEW s \in Senders, WriteFail(s)
      PROVE  Alone'
  BY <1>4, ReaderAssumption
  DEF WriteFail, ReturnWithoutRelease, WriteReturn, TypeOK, Alone, Procs, Inside, WriterInside, ReaderInside, shared, setup, writer, reader, history
<1>5. ASSUME NEW s \in Senders, WriteCheck(s)
      PROVE  Alone'
  BY <1>5, ReaderAssumption
  DEF WriteCheck, TypeOK, Alone, Procs, Inside, WriterInside, ReaderInside, shared, setup, writer, reader, history
<1>6. ASSUME NEW s \in Senders, WriteAddr(s)
      PROVE  Alone'
  BY <1>6, ReaderAssumption
  DEF WriteAddr, TypeOK, Alone, Procs, Inside, WriterInside, ReaderInside, shared, setup, writer, reader, history
<1>7. ASSUME NEW s \in Senders, WriteCopy(s)
      PROVE  Alone'
  BY <1>7, ReaderAssumption
  DEF WriteCopy, TypeOK, Alone, Procs, Inside, WriterInside, ReaderInside, shared, setup, writer, reader, history
<1>8. ASSUME NEW s \in Senders, WriteLoad(s)
      PROVE  Alone'
  BY <1>8, ReaderAssumption
  DEF WriteLoad, TypeOK, Alone, Procs, Inside, WriterInside, ReaderInside, shared, setup, writer, reader, history
<1>9. ASSUME NEW s \in Senders, WriteStore(s)
      PROVE  Alone'
  BY <1>9, ReaderAssumption
  DEF WriteStore, TypeOK, Alone, Procs, Inside, WriterInside, ReaderInside, shared, setup, writer, reader, history
<1>10. ASSUME NEW s \in Senders, WriteRelease(s)
      PROVE  Alone'
  BY <1>10, ReaderAssumption
  DEF WriteRelease, Release, WriteReturn, TypeOK, Alone, Procs, Inside, WriterInside, ReaderInside, shared, setup, writer, reader, history
<1>11. CASE ReadWait
  BY <1>11, ReaderAssumption
  DEF ReadWait, Acquire, CanAcquire, Enter, TypeOK, Alone, Procs, Inside, WriterInside, ReaderInside, shared, setup, writer, reader, history
<1>12. CASE ReadFail
  BY <1>12, ReaderAssumption
  DEF ReadFail, ReturnWithoutRelease, TypeOK, Alone, Procs, Inside, WriterInside, ReaderInside, shared, setup, writer, reader, history
<1>13. CASE ReadNoView
  BY <1>13, ReaderAssumption
  DEF ReadNoView, ReturnWithoutRelease, TypeOK, Alone, Procs, Inside, WriterInside, ReaderInside, shared, setup, writer, reader, history
<1>14. CASE ReadCheck
  BY <1>14, ReaderAssumption
  DEF ReadCheck, TypeOK, Alone, Procs, Inside, WriterInside, ReaderInside, shared, setup, writer, reader, history
<1>15. CASE ReadAlloc
  BY <1>15, ReaderAssumption
  DEF ReadAlloc, TypeOK, Alone, Procs, Inside, WriterInside, ReaderInside, shared, setup, writer, reader, history
<1>16. CASE ReadLen
  BY <1>16, ReaderAssumption
  DEF ReadLen, TypeOK, Alone, Procs, Inside, WriterInside, ReaderInside, shared, setup, writer, reader, history
<1>17. CASE ReadCopy
  BY <1>17, ReaderAssumption
  DEF ReadCopy, TypeOK, Alone, Procs, Inside, WriterInside, ReaderInside, shared, setup, writer, reader, history
<1>18. CASE ReadSize
  BY <1>18, ReaderAssumption
  DEF ReadSize, TypeOK, Alone, Procs, Inside, WriterInside, ReaderInside, shared, setup, writer, reader, history
<1>19. CASE ReadZero
  BY <1>19, ReaderAssumption
  DEF ReadZero, TypeOK, Alone, Procs, Inside, WriterInside, ReaderInside, shared, setup, writer, reader, history
<1>20. CASE ReadRelease
  BY <1>20, ReaderAssumption
  DEF ReadRelease, Release, TypeOK, Alone, Procs, Inside, WriterInside, ReaderInside, shared, setup, writer, reader, history
<1>21. CASE ReadAgain
  BY <1>21, ReaderAssumption
  DEF ReadAgain, TypeOK, Alone, Procs, Inside, WriterInside, ReaderInside, shared, setup, writer, reader, history
<1>22. CASE UNCHANGED vars
  BY <1>22, ReaderAssumption
  DEF TypeOK, Alone, Procs, Inside, WriterInside, ReaderInside, vars, shared, setup, writer, reader, history
<1> QED
  BY <1>1, <1>2, <1>3, <1>4, <1>5, <1>6, <1>7, <1>8, <1>9, <1>10, <1>11, <1>12, <1>13, <1>14, <1>15, <1>16, <1>17, <1>18, <1>19, <1>20, <1>21, <1>22 DEF Next, SenderStep, ReadDataStep

\* The area holds the unread bytes: the writer copies behind them and then appends;
\* the reader takes them all.
LEMMA AreaPreserved ==
  ASSUME TypeOK, Calls, Alone, Area, Written, [Next]_vars
  PROVE  Area'
<1>1. ASSUME NEW s \in Senders, NEW e \in EventTypes, NEW d \in DataLens, SendMsgToMmf(s, e, d)
      PROVE  Area'
  BY <1>1
  DEF SendMsgToMmf, TypeOK, Area, shared, setup, writer, reader, history
<1>2. ASSUME NEW s \in Senders, SendMsgRejected(s)
      PROVE  Area'
  BY <1>2
  DEF SendMsgRejected, TypeOK, Area, shared, setup, writer, reader, history
<1>3. ASSUME NEW s \in Senders, WriteWait(s)
      PROVE  Area'
  BY <1>3
  DEF WriteWait, Acquire, CanAcquire, Enter, Calls, TypeOK, Area, shared, setup, writer, reader, history
<1>4. ASSUME NEW s \in Senders, WriteFail(s)
      PROVE  Area'
  BY <1>4
  DEF WriteFail, ReturnWithoutRelease, WriteReturn, TypeOK, Area, shared, setup, writer, reader, history
<1>5. ASSUME NEW s \in Senders, WriteCheck(s)
      PROVE  Area'
  <2> SUFFICES ASSUME ~overlap PROVE Area'
    BY <1>5 DEF WriteCheck, Area, history
  <2>1. wmsg[s] \in Messages /\ cur \in Nat /\ cur <= MmfSize
    BY <1>5, SizeAssumption DEF WriteCheck, TypeOK, Calls, Area
  <2>2. cur + wmsg[s].len <= MmfSize
    BY <1>5, <2>1, FitsExact DEF WriteCheck
  <2> QED
    BY <1>5, <2>2 DEF WriteCheck, Area, TypeOK, shared, setup, history
<1>6. ASSUME NEW s \in Senders, WriteAddr(s)
      PROVE  Area'
  BY <1>6, SizeAssumption
  DEF WriteAddr, TypeOK, Area, shared, setup, writer, reader, history
<1>7. ASSUME NEW s \in Senders, WriteCopy(s)
      PROVE  Area'
  <2> SUFFICES ASSUME ~overlap PROVE Area'
    BY <1>7 DEF WriteCopy, Area
  <2>1. wcnt[s] \in Nat /\ cur \in Nat
    BY SizeAssumption DEF TypeOK
  <2>2. wreg[s] = cur
    BY <1>7 DEF WriteCopy, Area
  <2>3. ASSUME NEW i \in 1..cur
        PROVE  mem'[i - 1] = mem[i - 1]
    <3>1. i - 1 # wreg[s] + wcnt[s] /\ i - 1 \in 0..(MmfSize - 1)
      BY <2>1, <2>2, SizeAssumption DEF Area
    <3>2. mem \in [0..(MmfSize - 1) -> Bytes \cup {NoByte}]
      BY DEF TypeOK
    <3> QED
      BY <1>7, <3>1, <3>2 DEF WriteCopy
  <2> QED
    BY <1>7, <2>3 DEF WriteCopy, Area, TypeOK
<1>8. ASSUME NEW s \in Senders, WriteLoad(s)
      PROVE  Area'
  BY <1>8
  DEF WriteLoad, TypeOK, Area, shared, setup, writer, reader, history
<1>9. ASSUME NEW s \in Senders, WriteStore(s)
      PROVE  Area'
  <2> SUFFICES ASSUME ~overlap PROVE Area'
    BY <1>9 DEF WriteStore, Area
  <2>1. wmsg[s] \in Messages /\ wmsg[s].len \in Nat /\ wreg[s] = cur /\ cur \in Nat
        /\ cur = Len(unread) /\ cur + wmsg[s].len <= MmfSize
    BY <1>9, MessageLength, SizeAssumption DEF WriteStore, TypeOK, Calls, Area
  <2>2. cur' = cur + wmsg[s].len
    BY <1>9, <2>1, MessageLength, Add32Exact, SizeAssumption DEF WriteStore
  <2>3. BytesOf(wmsg[s]) \in Seq(Bytes) /\ Len(BytesOf(wmsg[s])) = wmsg[s].len
    BY <2>1, BytesType
  <2>4. Len(unread') = cur'
    BY <1>9, <2>1, <2>2, <2>3 DEF WriteStore, TypeOK
  <2>5. ASSUME NEW i \in 1..cur'
        PROVE  mem'[i - 1] = unread'[i]
    <3>1. CASE i <= cur
      BY <1>9, <2>1, <2>3, <3>1 DEF WriteStore, TypeOK, Area
    <3>2. CASE i > cur
      <4> DEFINE j == i - cur
      <4>1. j \in 1..wmsg[s].len /\ cur + j - 1 = i - 1
        BY <2>1, <2>2, <3>2
      <4>2. mem[cur + j - 1] = BytesOf(wmsg[s])[j]
        BY <1>9, <4>1 DEF WriteStore, Written
      <4>3. unread'[i] = BytesOf(wmsg[s])[j]
        BY <1>9, <2>1, <2>2, <2>3, <3>2 DEF WriteStore, TypeOK
      <4> QED
        BY <1>9, <4>1, <4>2, <4>3 DEF WriteStore
    <3> QED
      BY <2>1, <2>2, <3>1, <3>2
  <2>6. ASSUME NEW t \in Senders
        PROVE  wpc'[t] \notin {"addr", "copy", "store"}
    BY <1>9, ReaderAssumption DEF WriteStore, TypeOK, Calls, Alone, Inside, WriterInside, Procs
  <2> QED
    BY <1>9, <2>1, <2>2, <2>4, <2>5, <2>6 DEF Area, WriteStore
<1>10. ASSUME NEW s \in Senders, WriteRelease(s)
      PROVE  Area'
  BY <1>10
  DEF WriteRelease, Release, WriteReturn, TypeOK, Area, shared, setup, writer, reader, history
<1>11. CASE ReadWait
  BY <1>11
  DEF ReadWait, Acquire, CanAcquire, Enter, Calls, TypeOK, Area, shared, setup, writer, reader, history
<1>12. CASE ReadFail
  BY <1>12
  DEF ReadFail, ReturnWithoutRelease, TypeOK, Area, shared, setup, writer, reader, history
<1>13. CASE ReadNoView
  BY <1>13
  DEF ReadNoView, ReturnWithoutRelease, TypeOK, Area, shared, setup, writer, reader, history
<1>14. CASE ReadCheck
  BY <1>14
  DEF ReadCheck, TypeOK, Area, shared, setup, writer, reader, history
<1>15. CASE ReadAlloc
  BY <1>15
  DEF ReadAlloc, TypeOK, Area, shared, setup, writer, reader, history
<1>16. CASE ReadLen
  BY <1>16
  DEF ReadLen, TypeOK, Area, shared, setup, writer, reader, history
<1>17. CASE ReadCopy
  BY <1>17
  DEF ReadCopy, TypeOK, Area, shared, setup, writer, reader, history
<1>18. CASE ReadSize
  BY <1>18
  DEF ReadSize, TypeOK, Area, shared, setup, writer, reader, history
<1>19. CASE ReadZero
  <2> SUFFICES ASSUME ~overlap PROVE Area'
    BY <1>19 DEF ReadZero, Area
  <2>1. ASSUME NEW t \in Senders
        PROVE  wpc'[t] \notin {"addr", "copy", "store"}
    BY <1>19, ReaderAssumption DEF ReadZero, TypeOK, Calls, Alone, Inside, WriterInside, ReaderInside, Procs, writer
  <2> QED
    BY <1>19, <2>1, SizeAssumption DEF ReadZero, Area
<1>20. CASE ReadRelease
  BY <1>20
  DEF ReadRelease, Release, TypeOK, Area, shared, setup, writer, reader, history
<1>21. CASE ReadAgain
  BY <1>21
  DEF ReadAgain, TypeOK, Area, shared, setup, writer, reader, history
<1>22. CASE UNCHANGED vars
  BY <1>22
  DEF TypeOK, Area, vars, shared, setup, writer, reader, history
<1> QED
  BY <1>1, <1>2, <1>3, <1>4, <1>5, <1>6, <1>7, <1>8, <1>9, <1>10, <1>11, <1>12, <1>13, <1>14, <1>15, <1>16, <1>17, <1>18, <1>19, <1>20, <1>21, <1>22 DEF Next, SenderStep, ReadDataStep

\* memcpy extends what is behind the unread bytes, one byte at a time.
LEMMA WrittenPreserved ==
  ASSUME TypeOK, Calls, Alone, Area, Written, [Next]_vars
  PROVE  Written'
<1>1. ASSUME NEW s \in Senders, NEW e \in EventTypes, NEW d \in DataLens, SendMsgToMmf(s, e, d)
      PROVE  Written'
  BY <1>1
  DEF SendMsgToMmf, TypeOK, Written, shared, setup, writer, reader, history
<1>2. ASSUME NEW s \in Senders, SendMsgRejected(s)
      PROVE  Written'
  BY <1>2
  DEF SendMsgRejected, TypeOK, Written, shared, setup, writer, reader, history
<1>3. ASSUME NEW s \in Senders, WriteWait(s)
      PROVE  Written'
  BY <1>3
  DEF WriteWait, Acquire, CanAcquire, Enter, TypeOK, Written, shared, setup, writer, reader, history
<1>4. ASSUME NEW s \in Senders, WriteFail(s)
      PROVE  Written'
  BY <1>4
  DEF WriteFail, ReturnWithoutRelease, WriteReturn, TypeOK, Written, shared, setup, writer, reader, history
<1>5. ASSUME NEW s \in Senders, WriteCheck(s)
      PROVE  Written'
  BY <1>5
  DEF WriteCheck, TypeOK, Written, shared, setup, writer, reader, history
<1>6. ASSUME NEW s \in Senders, WriteAddr(s)
      PROVE  Written'
  BY <1>6
  DEF WriteAddr, Calls, TypeOK, Written, shared, setup, writer, reader, history
<1>7. ASSUME NEW s \in Senders, WriteCopy(s)
      PROVE  Written'
  <2> SUFFICES ASSUME ~overlap, NEW t \in Senders
               PROVE  (/\ wpc[t] = "copy" => \A j \in 1..wcnt[t] : mem[cur + j - 1] = BytesOf(wmsg[t])[j]
                       /\ wpc[t] = "store" => \A j \in 1..wmsg[t].len : mem[cur + j - 1] = BytesOf(wmsg[t])[j])'
    BY <1>7 DEF WriteCopy, Written, history
  <2>1. wmsg[s].len \in Nat /\ wcnt[s] \in Nat /\ wreg[s] = cur /\ cur \in Nat
        /\ cur + wmsg[s].len <= MmfSize
    BY <1>7, MessageLength, SizeAssumption DEF WriteCopy, TypeOK, Calls, Area
  <2>2. CASE t = s
    <3>1. mem' = [mem EXCEPT ![cur + wcnt[s]] = BytesOf(wmsg[s])[wcnt[s] + 1]] /\ wcnt'[s] = wcnt[s] + 1
      <4>1. wreg[s] + wcnt[s] = cur + wcnt[s] /\ cur + wcnt[s] < MmfSize
        BY <1>7, <2>1, SizeAssumption DEF WriteCopy
      <4>2. mem' = [mem EXCEPT ![cur + wcnt[s]] = BytesOf(wmsg[s])[wcnt[s] + 1]]
        BY <1>7, <4>1 DEF WriteCopy
      <4> QED
        BY <1>7, <4>2 DEF WriteCopy, TypeOK
    <3>2. ASSUME NEW j \in 1..(wcnt[s] + 1)
          PROVE  mem'[cur + j - 1] = BytesOf(wmsg[s])[j]
      <4>1. CASE j = wcnt[s] + 1
        <5>1. cur + j - 1 = cur + wcnt[s] /\ cur + wcnt[s] \in 0..(MmfSize - 1)
          BY <1>7, <2>1, <4>1, SizeAssumption DEF WriteCopy
        <5> QED
          BY <3>1, <4>1, <5>1 DEF TypeOK
      <4>2. CASE j # wcnt[s] + 1
        <5>1. j \in 1..wcnt[s] /\ cur + j - 1 # cur + wcnt[s] /\ cur + j - 1 \in 0..(MmfSize - 1)
          BY <1>7, <2>1, <4>2, SizeAssumption DEF WriteCopy
        <5> QED
          BY <1>7, <3>1, <5>1 DEF TypeOK, Written, WriteCopy
      <4> QED
        BY <4>1, <4>2
    <3> QED
      BY <1>7, <2>2, <3>1, <3>2 DEF WriteCopy
  <2>3. CASE t # s
    <3>1. wpc[t] \notin {"copy", "store"}
      BY <1>7, <2>3, ReaderAssumption DEF WriteCopy, TypeOK, Calls, Alone, Inside, WriterInside, Procs
    <3> QED
      BY <1>7, <3>1 DEF WriteCopy
  <2> QED
    BY <2>2, <2>3
<1>8. ASSUME NEW s \in Senders, WriteLoad(s)
      PROVE  Written'
  <2> SUFFICES ASSUME ~overlap, NEW t \in Senders
               PROVE  (/\ wpc[t] = "copy" => \A j \in 1..wcnt[t] : mem[cur + j - 1] = BytesOf(wmsg[t])[j]
                       /\ wpc[t] = "store" => \A j \in 1..wmsg[t].len : mem[cur + j - 1] = BytesOf(wmsg[t])[j])'
    BY <1>8 DEF WriteLoad, Written, history
  <2>1. wmsg[s].len \in Nat /\ wcnt[s] = wmsg[s].len
    BY <1>8, MessageLength DEF WriteLoad, TypeOK, Calls
  <2>2. CASE t = s
    BY <1>8, <2>1, <2>2 DEF WriteLoad, Written, TypeOK, shared
  <2>3. CASE t # s
    BY <1>8, <2>3 DEF WriteLoad, Written, TypeOK, shared
  <2> QED
    BY <2>2, <2>3
<1>9. ASSUME NEW s \in Senders, WriteStore(s)
      PROVE  Written'
  <2> SUFFICES ASSUME ~overlap, NEW t \in Senders
               PROVE  (/\ wpc[t] = "copy" => \A j \in 1..wcnt[t] : mem[cur + j - 1] = BytesOf(wmsg[t])[j]
                       /\ wpc[t] = "store" => \A j \in 1..wmsg[t].len : mem[cur + j - 1] = BytesOf(wmsg[t])[j])'
    BY <1>9 DEF WriteStore, Written, history
  <2>1. wpc'[t] \notin {"copy", "store"}
    BY <1>9, ReaderAssumption DEF WriteStore, TypeOK, Calls, Alone, Inside, WriterInside, Procs
  <2> QED
    BY <2>1
<1>10. ASSUME NEW s \in Senders, WriteRelease(s)
      PROVE  Written'
  BY <1>10
  DEF WriteRelease, Release, WriteReturn, TypeOK, Written, shared, setup, writer, reader, history
<1>11. CASE ReadWait
  BY <1>11
  DEF ReadWait, Acquire, CanAcquire, Enter, TypeOK, Written, shared, setup, writer, reader, history
<1>12. CASE ReadFail
  BY <1>12
  DEF ReadFail, ReturnWithoutRelease, TypeOK, Written, shared, setup, writer, reader, history
<1>13. CASE ReadNoView
  BY <1>13
  DEF ReadNoView, ReturnWithoutRelease, TypeOK, Written, shared, setup, writer, reader, history
<1>14. CASE ReadCheck
  BY <1>14
  DEF ReadCheck, TypeOK, Written, shared, setup, writer, reader, history
<1>15. CASE ReadAlloc
  BY <1>15
  DEF ReadAlloc, TypeOK, Written, shared, setup, writer, reader, history
<1>16. CASE ReadLen
  BY <1>16
  DEF ReadLen, TypeOK, Written, shared, setup, writer, reader, history
<1>17. CASE ReadCopy
  BY <1>17
  DEF ReadCopy, TypeOK, Written, shared, setup, writer, reader, history
<1>18. CASE ReadSize
  BY <1>18
  DEF ReadSize, TypeOK, Written, shared, setup, writer, reader, history
<1>19. CASE ReadZero
  <2> SUFFICES ASSUME ~overlap, NEW t \in Senders
               PROVE  (/\ wpc[t] = "copy" => \A j \in 1..wcnt[t] : mem[cur + j - 1] = BytesOf(wmsg[t])[j]
                       /\ wpc[t] = "store" => \A j \in 1..wmsg[t].len : mem[cur + j - 1] = BytesOf(wmsg[t])[j])'
    BY <1>19 DEF ReadZero, Written, history
  <2>1. wpc'[t] \notin {"copy", "store"}
    BY <1>19, ReaderAssumption
    DEF ReadZero, TypeOK, Calls, Alone, Inside, WriterInside, ReaderInside, Procs, writer
  <2> QED
    BY <2>1
<1>20. CASE ReadRelease
  BY <1>20
  DEF ReadRelease, Release, TypeOK, Written, shared, setup, writer, reader, history
<1>21. CASE ReadAgain
  BY <1>21
  DEF ReadAgain, TypeOK, Written, shared, setup, writer, reader, history
<1>22. CASE UNCHANGED vars
  BY <1>22
  DEF TypeOK, Written, vars, shared, setup, writer, reader, history
<1> QED
  BY <1>1, <1>2, <1>3, <1>4, <1>5, <1>6, <1>7, <1>8, <1>9, <1>10, <1>11, <1>12, <1>13, <1>14, <1>15, <1>16, <1>17, <1>18, <1>19, <1>20, <1>21, <1>22 DEF Next, SenderStep, ReadDataStep

\* Nobody changes the counter or the unread bytes while the reader is in the section.
LEMMA CopiedPreserved ==
  ASSUME TypeOK, Calls, Alone, Area, Copied, [Next]_vars
  PROVE  Copied'
<1>1. ASSUME NEW s \in Senders, NEW e \in EventTypes, NEW d \in DataLens, SendMsgToMmf(s, e, d)
      PROVE  Copied'
  BY <1>1
  DEF SendMsgToMmf, TypeOK, Copied, shared, setup, writer, reader, history
<1>2. ASSUME NEW s \in Senders, SendMsgRejected(s)
      PROVE  Copied'
  BY <1>2
  DEF SendMsgRejected, TypeOK, Copied, shared, setup, writer, reader, history
<1>3. ASSUME NEW s \in Senders, WriteWait(s)
      PROVE  Copied'
  BY <1>3
  DEF WriteWait, Acquire, CanAcquire, Enter, TypeOK, Copied, shared, setup, writer, reader, history
<1>4. ASSUME NEW s \in Senders, WriteFail(s)
      PROVE  Copied'
  BY <1>4
  DEF WriteFail, ReturnWithoutRelease, WriteReturn, TypeOK, Copied, shared, setup, writer, reader, history
<1>5. ASSUME NEW s \in Senders, WriteCheck(s)
      PROVE  Copied'
  BY <1>5
  DEF WriteCheck, TypeOK, Copied, shared, setup, writer, reader, history
<1>6. ASSUME NEW s \in Senders, WriteAddr(s)
      PROVE  Copied'
  BY <1>6
  DEF WriteAddr, TypeOK, Copied, shared, setup, writer, reader, history
<1>7. ASSUME NEW s \in Senders, WriteCopy(s)
      PROVE  Copied'
  BY <1>7
  DEF WriteCopy, TypeOK, Copied, shared, setup, writer, reader, history
<1>8. ASSUME NEW s \in Senders, WriteLoad(s)
      PROVE  Copied'
  BY <1>8
  DEF WriteLoad, TypeOK, Copied, shared, setup, writer, reader, history
<1>9. ASSUME NEW s \in Senders, WriteStore(s)
      PROVE  Copied'
  <2> SUFFICES ASSUME ~overlap PROVE Copied'
    BY <1>9 DEF WriteStore, Copied
  <2>1. rpc \notin {"alloc", "len", "copy", "zero"}
    BY <1>9, ReaderAssumption
    DEF WriteStore, TypeOK, Calls, Alone, Inside, WriterInside, ReaderInside, Procs
  <2> QED
    BY <1>9, <2>1 DEF WriteStore, Copied, reader
<1>10. ASSUME NEW s \in Senders, WriteRelease(s)
      PROVE  Copied'
  BY <1>10
  DEF WriteRelease, Release, WriteReturn, TypeOK, Copied, shared, setup, writer, reader, history
<1>11. CASE ReadWait
  BY <1>11
  DEF ReadWait, Acquire, CanAcquire, Enter, TypeOK, Copied, shared, setup, writer, reader, history
<1>12. CASE ReadFail
  BY <1>12
  DEF ReadFail, ReturnWithoutRelease, TypeOK, Copied, shared, setup, writer, reader, history
<1>13. CASE ReadNoView
  BY <1>13
  DEF ReadNoView, ReturnWithoutRelease, TypeOK, Copied, shared, setup, writer, reader, history
<1>14. CASE ReadCheck
  BY <1>14, SizeAssumption
  DEF ReadCheck, TypeOK, Copied, shared, setup, writer, reader, history
<1>15. CASE ReadAlloc
  <2> SUFFICES ASSUME ~overlap PROVE Copied'
    BY <1>15 DEF ReadAlloc, Copied, history
  <2>1. cur \in Nat /\ cur + 1 < DwordMod
    BY <1>15, SizeAssumption DEF ReadAlloc, TypeOK, Area
  <2>2. ralloc' = cur + 1
    BY <1>15, <2>1, Add32Exact DEF ReadAlloc
  <2> QED
    BY <1>15, <2>2 DEF ReadAlloc, Copied, TypeOK, shared, history
<1>16. CASE ReadLen
  BY <1>16
  DEF ReadLen, Calls, TypeOK, Copied, shared, setup, writer, reader, history
<1>17. CASE ReadCopy
  <2> SUFFICES ASSUME ~overlap PROVE Copied'
    BY <1>17 DEF ReadCopy, Copied, history
  <2>1. /\ Len(rbuf) \in Nat /\ Len(rbuf) < cur /\ rlen = cur /\ cur <= MmfSize /\ cur \in Nat
        /\ rbuf \in Seq(Bytes \cup {NoByte})
    BY <1>17, SizeAssumption DEF ReadCopy, TypeOK, Copied, Area
  <2>2. mem[Len(rbuf)] = unread[Len(rbuf) + 1]
    <3>1. Len(rbuf) + 1 \in 1..cur /\ (Len(rbuf) + 1) - 1 = Len(rbuf)
      BY <2>1
    <3> QED
      BY <3>1 DEF Area
  <2>3. rbuf' = Append(rbuf, mem[Len(rbuf)])
    BY <1>17, <2>1, SizeAssumption DEF ReadCopy
  <2>4. \A i \in 1..Len(rbuf') : rbuf'[i] = unread[i]
    BY <1>17, <2>1, <2>2, <2>3 DEF ReadCopy, Copied
  <2> QED
    BY <1>17, <2>4 DEF ReadCopy, Copied, shared, history
<1>18. CASE ReadSize
  BY <1>18
  DEF ReadSize, Calls, TypeOK, Copied, shared, setup, writer, reader, history
<1>19. CASE ReadZero
  BY <1>19
  DEF ReadZero, TypeOK, Copied, shared, setup, writer, reader, history
<1>20. CASE ReadRelease
  BY <1>20
  DEF ReadRelease, Release, TypeOK, Copied, shared, setup, writer, reader, history
<1>21. CASE ReadAgain
  BY <1>21
  DEF ReadAgain, TypeOK, Copied, shared, setup, writer, reader, history
<1>22. CASE UNCHANGED vars
  BY <1>22
  DEF TypeOK, Copied, vars, shared, setup, writer, reader, history
<1> QED
  BY <1>1, <1>2, <1>3, <1>4, <1>5, <1>6, <1>7, <1>8, <1>9, <1>10, <1>11, <1>12, <1>13, <1>14, <1>15, <1>16, <1>17, <1>18, <1>19, <1>20, <1>21, <1>22 DEF Next, SenderStep, ReadDataStep

-----------------------------------------------------------------------------
(* The theorems.                                                             *)

\* The invariant holds at the start ...
LEMMA InitInvariant ==
  ASSUME Init PROVE IInv
<1> USE DEF Init
<1>1. TypeOK
  <2>1. /\ cur \in 0..(DwordMod - 1) /\ nsent \in 0..MaxSend
        /\ ralloc \in Nat /\ rlen \in Nat /\ dwSize \in Nat
    BY SizeAssumption
  <2>2. mem \in [0..(MmfSize - 1) -> Bytes \cup {NoByte}]
    OBVIOUS
  <2>3. hMutex \in BOOLEAN /\ view \in [Procs -> BOOLEAN]
    BY EnvironmentAssumption
  <2>4. /\ wpc \in [Senders -> {"idle", "wait", "check", "addr", "copy", "store", "release"}]
        /\ wmsg \in [Senders -> Messages \cup {NoMsg}]
        /\ wreg \in [Senders -> Nat] /\ wcnt \in [Senders -> Nat]
    OBVIOUS
  <2>5. /\ rbuf \in Seq(Bytes \cup {NoByte})
        /\ unread \in Seq(Bytes) /\ taken \in Seq(Bytes \cup {NoByte})
    OBVIOUS
  <2> QED
    BY <2>1, <2>2, <2>3, <2>4, <2>5 DEF TypeOK
<1>2. Calls /\ Owned /\ MutualExclusion /\ WritesStayInside /\ Checked
  BY SizeAssumption DEF Calls, Owned, Holds, Procs, MutualExclusion, WritesStayInside, Checked
<1>3. Alone /\ Area /\ Copied /\ Written
  BY SizeAssumption DEF Alone, Inside, WriterInside, ReaderInside, Procs, Area, Copied, Written
<1> QED
  BY <1>1, <1>2, <1>3 DEF IInv

\* ... and every step of a sender or of the reader preserves it.
LEMMA StepInvariant ==
  ASSUME IInv, [Next]_vars PROVE IInv'
BY CallsPreserved, TypePreserved, OwnedPreserved, ExclusionPreserved, InsidePreserved,
   CheckedPreserved, AlonePreserved, AreaPreserved, WrittenPreserved, CopiedPreserved
DEF IInv

\* The inductive invariant holds in every reachable state.
THEOREM Invariance == Spec => []IInv
<1>1. Init => IInv
  BY InitInvariant
<1>2. IInv /\ [Next]_vars => IInv'
  BY StepInvariant
<1> QED
  BY <1>1, <1>2, PTL DEF Spec

\* Every variable of the channel keeps its type.
THEOREM TypeCorrect == Spec => []TypeOK
BY Invariance, PTL DEF IInv

\* A named mutex, if there is one, keeps WriteData and ReadData apart, whatever their
\* error returns leak.
THEOREM Exclusion == Spec => []MutualExclusion
BY Invariance, PTL DEF IInv

\* With a mutex or a single sender the range check of WriteDataInternal protects every
\* byte memcpy writes and the counter, although each reads the counter anew.
THEOREM WritesInside == Spec => []WritesStayInside
BY Invariance, PTL DEF IInv

\* Until two accesses overlap, pCurDataSize is the number of unread bytes and the area
\* holds them in order.
THEOREM CounterCorrect == Spec => []CounterIsUnreadBytes
<1>1. IInv => CounterIsUnreadBytes
  BY DEF IInv, Area, CounterIsUnreadBytes
<1> QED
  BY <1>1, Invariance, PTL

\* The three readings ascend in every step.
LEMMA AscendingPreserved ==
  ASSUME IInv, Ascending, [Next]_vars
  PROVE  Ascending'
<1> USE DEF IInv
<1> SUFFICES ASSUME OneWriter'
             PROVE  /\ Reading' => cur' > 0
                    /\ rpc' = "len" => ralloc' <= cur' + 1
                    /\ rpc' \in {"copy", "zero"} => ralloc' <= rlen' + 1 /\ rlen' <= cur'
                    /\ rpc' = "zero" => rlen' <= dwSize' /\ dwSize' <= cur'
                    /\ \A s \in Senders : wpc'[s] = "store" => wreg'[s] = cur' \/ (cur' = 0 /\ ~Reading')
  BY DEF Ascending
<1>2. OneWriter
  <2>1. hMutex' = hMutex
    BY DEF Next, SenderStep, ReadDataStep, SendMsgToMmf, SendMsgRejected, WriteWait, WriteFail,
           WriteCheck, WriteAddr, WriteCopy, WriteLoad, WriteStore, WriteRelease, ReadWait,
           ReadFail, ReadNoView, ReadCheck, ReadAlloc, ReadLen, ReadCopy, ReadSize, ReadZero,
           ReadRelease, ReadAgain, setup, vars
  <2> QED
    BY <2>1 DEF OneWriter
<1>1. /\ Reading => cur > 0
      /\ rpc = "len" => ralloc <= cur + 1
      /\ rpc \in {"copy", "zero"} => ralloc <= rlen + 1 /\ rlen <= cur
      /\ rpc = "zero" => rlen <= dwSize /\ dwSize <= cur
      /\ \A s \in Senders : wpc[s] = "store" => wreg[s] = cur \/ (cur = 0 /\ ~Reading)
  BY <1>2 DEF Ascending
<1>3. cur \in Nat /\ cur <= MmfSize /\ cur < DwordMod /\ cur + 1 < DwordMod /\ Add32(cur, 1) = cur + 1
  <2>1. cur \in Nat /\ cur <= MmfSize /\ cur + 1 < DwordMod
    BY <1>2, SizeAssumption DEF TypeOK, WritesStayInside
  <2>2. PICK c \in Nat : c = cur
    BY <2>1
  <2>3. Add32(c, 1) = c + 1
    BY <2>1, <2>2, Add32Exact
  <2> QED
    BY <2>1, <2>2, <2>3, SizeAssumption
<1>4. ASSUME UNCHANGED <<cur, rpc, ralloc, rlen, dwSize>>,
             \A s \in Senders : wpc'[s] = "store" => wpc[s] = "store" /\ wreg'[s] = wreg[s]
      PROVE  Ascending'
  BY <1>1, <1>4 DEF Ascending, Reading
<1>5. ASSUME NEW s \in Senders, SenderStep(s), ~WriteLoad(s), ~WriteStore(s)
      PROVE  Ascending'
  <2>1. UNCHANGED <<cur, rpc, ralloc, rlen, dwSize>>
    BY <1>5 DEF SenderStep, SendMsgToMmf, SendMsgRejected, WriteWait, WriteFail, WriteCheck,
                WriteAddr, WriteCopy, WriteRelease, shared, reader
  <2>2. \A u \in Senders : wpc'[u] = "store" => wpc[u] = "store" /\ wreg'[u] = wreg[u]
    BY <1>5 DEF SenderStep, SendMsgToMmf, SendMsgRejected, WriteWait, WriteFail, WriteCheck,
                WriteReturn, WriteAddr, WriteCopy, WriteRelease, TypeOK
  <2> QED
    BY <1>4, <2>1, <2>2
<1>6. ASSUME NEW s \in Senders, WriteLoad(s)
      PROVE  Ascending'
  <2>1. UNCHANGED <<cur, rpc, ralloc, rlen, dwSize>>
    BY <1>6 DEF WriteLoad, shared, reader
  <2>2. \A u \in Senders : wpc'[u] = "store" => wreg'[u] = cur \/ (cur = 0 /\ ~Reading)
    BY <1>1, <1>6 DEF WriteLoad, TypeOK
  <2> QED
    BY <1>1, <2>1, <2>2 DEF Ascending, Reading
<1>7. ASSUME NEW s \in Senders, WriteStore(s)
      PROVE  Ascending'
  <2>1. wmsg[s].len \in Nat /\ wreg[s] \in Nat /\ wreg[s] + wmsg[s].len < DwordMod
    BY <1>2, <1>7, MessageLength, SizeAssumption DEF WriteStore, TypeOK, Calls, Checked
  <2>2. cur' = wreg[s] + wmsg[s].len /\ UNCHANGED <<rpc, ralloc, rlen, dwSize>>
    BY <1>7, <2>1, Add32Exact DEF WriteStore, reader
  <2>3. cur' >= cur /\ (Reading => cur' > 0)
    BY <1>1, <1>3, <1>7, <2>1, <2>2 DEF WriteStore
  <2>4. \A u \in Senders : wpc'[u] # "store"
    <3> SUFFICES ASSUME NEW u \in Senders, wpc'[u] = "store"
                 PROVE  FALSE
      OBVIOUS
    <3>1. u # s /\ wpc[u] = "store" /\ wpc[s] = "store"
      BY <1>7 DEF WriteStore, TypeOK
    <3>2. hMutex
      BY <1>2, <3>1 DEF OneWriter
    <3> QED
      BY <3>1, <3>2, ReaderAssumption DEF Owned, Holds, Procs
  <2>5. ralloc \in Nat /\ rlen \in Nat /\ dwSize \in Nat /\ cur' \in Nat
    BY <2>1, <2>2 DEF TypeOK
  <2>6. rpc = "len" => ralloc <= cur' + 1
    <3>1. \A a, c, d \in Nat : a <= c + 1 /\ d >= c => a <= d + 1
      OBVIOUS
    <3> QED
      BY <1>1, <1>3, <2>3, <2>5, <3>1
  <2>7. rpc \in {"copy", "zero"} => rlen <= cur'
    BY <1>1, <1>3, <2>3, <2>5
  <2>8. rpc = "zero" => dwSize <= cur'
    BY <1>1, <1>3, <2>3, <2>5
  <2> QED
    BY <1>1, <2>2, <2>3, <2>4, <2>6, <2>7, <2>8 DEF Ascending, Reading
<1>8. ASSUME UNCHANGED <<cur, wpc, wreg>>, ~Reading'
      PROVE  Ascending'
  <2>1. rpc' \notin {"len", "copy", "zero"}
    BY <1>8 DEF Reading
  <2>2. \A s \in Senders : wpc'[s] = "store" => wreg'[s] = cur' \/ (cur' = 0 /\ ~Reading')
    BY <1>1, <1>8
  <2> QED
    BY <1>8, <2>1, <2>2 DEF Ascending
<1>9. CASE ReadWait \/ ReadFail \/ ReadNoView \/ ReadRelease \/ ReadAgain
  <2>1. UNCHANGED <<cur, wpc, wreg>> /\ ~Reading'
    BY <1>9 DEF ReadWait, ReadFail, ReadNoView, ReadRelease, ReadAgain, Reading, shared, writer
  <2> QED
    BY <1>8, <2>1 DEF Ascending
<1>10. CASE ReadCheck
  BY <1>1, <1>3, <1>10 DEF ReadCheck, Reading, shared, writer
<1>11. CASE ReadAlloc
  BY <1>1, <1>3, <1>11 DEF ReadAlloc, Reading, shared, writer
<1>12. CASE ReadLen
  BY <1>1, <1>3, <1>12 DEF ReadLen, Reading, shared, writer
<1>13. CASE ReadCopy
  BY <1>1, <1>13 DEF ReadCopy, Reading, shared, writer
<1>14. CASE ReadSize
  BY <1>1, <1>3, <1>14 DEF ReadSize, Reading, shared, writer
<1>15. CASE ReadZero
  BY <1>1, <1>15 DEF ReadZero, Reading, writer
<1>16. CASE UNCHANGED vars
  BY <1>1, <1>16 DEF vars, shared, reader, writer, Reading
<1> QED
  BY <1>5, <1>6, <1>7, <1>9, <1>10, <1>11, <1>12, <1>13, <1>14, <1>15, <1>16
  DEF Next, ReadDataStep, Ascending

\* With a mutex or a single sender, in every interleaving with it: what ReadDataInternal
\* counts when it allocates it copies, what it copies lies in the area and is handed out,
\* and it hands out no more than it resets.
THEOREM ReadBufferCorrect == Spec => []ReadsAscend
<1>1. Init => Ascending
  BY DEF Init, Ascending, Reading
<1>2. IInv /\ Ascending /\ [Next]_vars => Ascending'
  BY AscendingPreserved
<1>3. IInv /\ Ascending => ReadsAscend
  BY SizeAssumption DEF IInv, TypeOK, WritesStayInside, Ascending, ReadsAscend
<1> QED
  BY <1>1, <1>2, <1>3, Invariance, PTL DEF Spec

\* Without an overlap the batch that ReadData hands out is what was unread.
LEMMA BatchIsUnread ==
  ASSUME IInv, ~overlap, rpc = "zero"
  PROVE  Batch = unread /\ unread # <<>>
<1>1. /\ dwSize = Len(unread) /\ rlen = Len(unread) /\ Len(rbuf) = Len(unread) /\ Len(unread) > 0
      /\ unread \in Seq(Bytes) /\ rbuf \in Seq(Bytes \cup {NoByte})
  BY DEF IInv, TypeOK, Calls, Area, Copied
<1>2. \A i \in 1..Len(unread) : Batch[i] = unread[i]
  BY <1>1 DEF IInv, Copied, Batch
<1>3. Batch \in Seq(Bytes \cup {NoByte}) /\ Len(Batch) = Len(unread)
  BY <1>1 DEF Batch
<1> QED
  BY <1>1, <1>2, <1>3

\* Each step of the channel is a step of the abstract FIFO or leaves it alone.
LEMMA StepIsFifo ==
  ASSUME IInv, [Next]_vars
  PROVE  [Fifo!Next]_(Fifo!vars)
<1>1. CASE overlap'
  BY <1>1 DEF Fifo!Next, Fifo!Chaos
<1>2. CASE ~overlap'
  <2>1. ~overlap
    BY <1>2 DEF vars, history, Next, SenderStep, ReadDataStep, Enter, SendMsgToMmf, SendMsgRejected,
       WriteWait, WriteFail, WriteCheck, WriteAddr, WriteCopy, WriteLoad, WriteStore, WriteRelease,
       ReadWait, ReadFail, ReadNoView, ReadCheck, ReadAlloc, ReadLen, ReadCopy, ReadSize, ReadZero,
       ReadRelease, ReadAgain
  <2>2. ASSUME NEW s \in Senders, WriteStore(s)
        PROVE  Fifo!Next
    <3>1. wmsg[s] \in Messages /\ Len(unread) + Len(BytesOf(wmsg[s])) <= MmfSize
      BY <2>1, <2>2, BytesType DEF WriteStore, IInv, Calls, Area
    <3>2. Fifo!Send(BytesOf(wmsg[s]))
      BY <2>2, <3>1 DEF Fifo!Send, WriteStore
    <3> QED
      BY <2>1, <3>1, <3>2 DEF Fifo!Next
  <2>3. CASE ReadZero
    BY <2>1, <2>3, BatchIsUnread DEF ReadZero, Fifo!Next, Fifo!Receive
  <2>4. CASE ReadNoView
    BY <2>1, <2>4 DEF ReadNoView, Fifo!Next, Fifo!ReceiveNothing
  <2>5. ASSUME NEW s \in Senders, SenderStep(s), ~WriteStore(s)
        PROVE  UNCHANGED <<unread, taken>>
    BY <2>5 DEF SenderStep, SendMsgToMmf, SendMsgRejected, WriteWait, WriteFail, WriteCheck,
       WriteAddr, WriteCopy, WriteLoad, WriteRelease, history
  <2>6. ASSUME ReadDataStep, ~ReadZero, ~ReadNoView
        PROVE  UNCHANGED <<unread, taken>>
    BY <2>6 DEF ReadDataStep, ReadWait, ReadFail, ReadCheck, ReadAlloc, ReadLen, ReadCopy,
       ReadSize, ReadRelease, history
  <2>7. ASSUME ReadAgain \/ UNCHANGED vars
        PROVE  UNCHANGED <<unread, taken>>
    BY <2>7 DEF ReadAgain, vars, history
  <2>8. overlap' = overlap
    BY <1>2, <2>1, StepInvariant DEF IInv, TypeOK
  <2>9. UNCHANGED <<unread, taken>> => UNCHANGED Fifo!vars
    BY <2>8 DEF Fifo!vars
  <2> QED
    BY <2>2, <2>3, <2>4, <2>5, <2>6, <2>7, <2>9 DEF Next
<1> QED
  BY <1>1, <1>2

\* The channel implements the abstract one: a bounded FIFO of whole messages until two
\* accesses overlap.
THEOREM ChannelImplementsFifo == Spec => ChannelIsFifo
<1>1. Init => Fifo!Init
  BY DEF Init, Fifo!Init
<1>2. IInv /\ [Next]_vars => [Fifo!Next]_(Fifo!vars)
  BY StepIsFifo
<1> QED
  BY <1>1, <1>2, Invariance, PTL DEF Spec, ChannelIsFifo, Fifo!Spec
=============================================================================
