------------------------------- MODULE IPCMmf -------------------------------
(***************************************************************************)
(* The shared-memory message channel: CWLIPCMmf (BaseMoudle/IPCMmf.cpp) as  *)
(* it is used by CWLMessageSender::SendMsgToMmf (BaseMoudle/MessageSender)  *)
(* in the sending processes and by CMessageHelper::GetMessageThread         *)
(* (Service/Service.cpp) in Service.exe.                                    *)
(*                                                                         *)
(* The section holds a counter called pCurDataSize and a data area.  Every read *)
(* or write of the counter and every byte copied by memcpy is a step of its *)
(* own, because the named mutex that should make the two critical sections  *)
(* atomic may not exist: the constructor calls CreateMutex only when        *)
(* OpenMutex has already succeeded.  Whether a mutex of that name exists is  *)
(* therefore a fact about the environment, fixed in Init.                   *)
(***************************************************************************)
EXTENDS Naturals, Sequences, FiniteSets

CONSTANTS Senders,     \* threads that call SendMsgToMmf
          Reader,      \* the GetMessageThread of Service.exe
          MmfSize,     \* m_dwMmfSize, the bytes of the data area
          HeaderLen,   \* IPC_MSG_DATA_HEADNER_LEN
          EventTypes,  \* the dwEventType values senders pass
          DataLens,    \* the dwDataSize values senders pass
          DwordMod,    \* 2^32: DWORD arithmetic is modulo DwordMod
          OpenMutexResults,  \* outcomes of OpenMutex considered: is there a mutex?
          MapViewResults,    \* outcomes of MapViewOfFile considered
          MaxSend,     \* bound: calls of SendMsgToMmf, by all senders together
          None         \* no owner

ASSUME ReaderAssumption == Reader \notin Senders /\ None \notin Senders \cup {Reader}
ASSUME EnvironmentAssumption ==
  OpenMutexResults \subseteq BOOLEAN /\ MapViewResults \subseteq BOOLEAN
ASSUME SizeAssumption ==
  /\ MmfSize \in Nat \ {0} /\ HeaderLen \in Nat \ {0} /\ DwordMod \in Nat \ {0}
  /\ MmfSize + HeaderLen < DwordMod /\ MaxSend \in Nat
  /\ DataLens \subseteq Nat
  /\ \A d \in DataLens : MmfSize + HeaderLen + d < DwordMod

Procs == Senders \cup {Reader}

\* DWORD addition wraps.
Add32(a, b) == (a + b) % DwordMod

\* An IPC_MSG_DATA block: who sent it, in which call, dwEventType and dwMsgSize
\* (header and data together).
Messages == [from : Senders, num : 1..MaxSend, evt : EventTypes,
             len : {Add32(HeaderLen, d) : d \in DataLens}]

\* One byte of the section: byte number off of message msg.
Bytes == [msg : Messages, off : Nat]

\* A byte nobody has written since the section was created.
NoByte == None

\* The bytes of message m, in order: what SendMsgToMmf passes to WriteData.
BytesOf(m) == [i \in 1..m.len |-> [msg |-> m, off |-> i - 1]]

VARIABLES
  \* the shared section and the mutex
  cur,       \* *pCurDataSize
  mem,       \* the data area, pCurData[0 .. MmfSize-1]
  hMutex,    \* OpenMutex found a mutex: m_hMutex # NULL (the same for everybody)
  view,      \* per process: MapViewOfFile succeeded
  owner,     \* the thread that owns the mutex
  leaked,    \* the owner has an acquisition it will never release
  \* the threads inside WriteData and ReadData
  wpc, wmsg, wreg, wcnt, nsent,
  rpc, ralloc, rlen, rbuf, dwSize,
  \* history
  overlap,   \* two threads were between check and store at the same time
  overrun,   \* memcpy has written past the end of the data area
  unread,    \* the bytes stored and not yet taken
  taken,     \* what the last ReadData handed to its caller
  reported,  \* messages for which SendMsgToMmf returned ERROR_SUCCESS
  received   \* messages that were in a batch ReadData handed out

shared  == <<cur, mem, owner, leaked>>
writer  == <<wpc, wmsg, wreg, wcnt, nsent>>
reader  == <<rpc, ralloc, rlen, rbuf, dwSize>>
setup   == <<hMutex, view>>
history == <<overlap, overrun, unread, taken, reported, received>>
vars    == <<shared, setup, writer, reader, history>>

NoMsg == None

Init ==
  /\ cur = 0
  /\ mem = [i \in 0..(MmfSize - 1) |-> NoByte]
  /\ hMutex \in OpenMutexResults
  /\ view \in [Procs -> MapViewResults]
  /\ owner = None /\ leaked = FALSE
  /\ wpc = [s \in Senders |-> "idle"] /\ wmsg = [s \in Senders |-> NoMsg]
  /\ wreg = [s \in Senders |-> 0] /\ wcnt = [s \in Senders |-> 0]
  /\ nsent = 0
  /\ rpc = "wait" /\ ralloc = 0 /\ rlen = 0 /\ rbuf = <<>> /\ dwSize = 0
  /\ overlap = FALSE /\ overrun = FALSE
  /\ unread = <<>> /\ taken = <<>> /\ reported = {} /\ received = {}

-----------------------------------------------------------------------------
(* The mutex.  WaitForSingleObject(NULL) and ReleaseMutex(NULL) fail at once *)
(* and nobody looks at the result; a mutex is recursive for its owner.       *)

\* Seeded fault: WaitForSingleObject does not wait.
CanAcquireNoWait(p) == TRUE

CanAcquire(p) == hMutex => owner \in {None, p}

Acquire(p) ==
  /\ CanAcquire(p)
  /\ owner' = IF hMutex THEN p ELSE None
  /\ UNCHANGED leaked

\* ReleaseMutex undoes one acquisition: an earlier one that was leaked stays.
Release(p) ==
  /\ owner' = IF leaked THEN owner ELSE None
  /\ UNCHANGED leaked

\* `return m_dwErrorCode' before ReleaseMutex: the acquisition is never undone.
ReturnWithoutRelease ==
  /\ leaked' = hMutex
  /\ UNCHANGED owner

\* The threads that are using the section.
WriterInside(s) == view[s] /\ wpc[s] \in {"check", "addr", "copy", "store"}
ReaderInside == view[Reader] /\ rpc \in {"check", "alloc", "len", "copy", "zero"}
Inside(p) == IF p = Reader THEN ReaderInside ELSE WriterInside(p)

\* p enters the section while somebody else is in it.
Enter(p) == overlap' = (overlap \/ (view[p] /\ \E q \in Procs \ {p} : Inside(q)))

-----------------------------------------------------------------------------
(* CWLMessageSender::SendMsgToMmf and CWLIPCMmf::WriteData, thread s.         *)

\* Seeded fault: dwMsgSize without IPC_MSG_DATA_HEADNER_LEN.
SendMsgNoHeader(s, e, d) ==
  /\ wpc[s] = "idle" /\ nsent < MaxSend
  /\ nsent' = nsent + 1
  /\ wmsg' = [wmsg EXCEPT ![s] = [from |-> s, num |-> nsent + 1, evt |-> e, len |-> d]]
  /\ wpc' = [wpc EXCEPT ![s] = "wait"]
  /\ UNCHANGED <<shared, setup, wreg, wcnt, reader, history>>

\* The message block is built; the call goes on to WriteData.
SendMsgToMmf(s, e, d) ==
  /\ wpc[s] = "idle" /\ nsent < MaxSend
  /\ nsent' = nsent + 1
  /\ wmsg' = [wmsg EXCEPT ![s] =
                [from |-> s, num |-> nsent + 1, evt |-> e, len |-> Add32(HeaderLen, d)]]
  /\ wpc' = [wpc EXCEPT ![s] = "wait"]
  /\ UNCHANGED <<shared, setup, wreg, wcnt, reader, history>>

\* ERROR_INVALID_DATA (dwDataSize > 0 without data) and ERROR_INVALID_FUNCTION
\* (an exception while building the block): the channel is not touched.
SendMsgRejected(s) ==
  /\ wpc[s] = "idle" /\ nsent < MaxSend
  /\ nsent' = nsent + 1
  /\ UNCHANGED <<shared, setup, wpc, wmsg, wreg, wcnt, reader, history>>

WriteWait(s) ==
  /\ wpc[s] = "wait"
  /\ Acquire(s)
  /\ wpc' = [wpc EXCEPT ![s] = "check"]
  /\ Enter(s)
  /\ UNCHANGED <<cur, mem, setup, wmsg, wreg, wcnt, nsent, reader,
                 overrun, unread, taken, reported, received>>

\* Seeded fault: the range check forgets the message's own length.
FitsCounterOnly(c, n) == c <= MmfSize

\* The test of WriteDataInternal that the message fits.
Fits(c, n) == Add32(c, n) <= MmfSize

\* SendMsgToMmf returns; the registers of the call are dead.
WriteReturn(s, success) ==
  /\ wpc' = [wpc EXCEPT ![s] = "idle"]
  /\ wmsg' = [wmsg EXCEPT ![s] = NoMsg]
  /\ reported' = IF success THEN reported \cup {wmsg[s]} ELSE reported

\* The two failures of WriteDataInternal, each returned without ReleaseMutex.
\* MAPVIEWOFFILE_ERROR is 0, so without a view the caller is told "success".
WriteFail(s) ==
  /\ wpc[s] = "check"
  /\ view[s] => ~Fits(cur, wmsg[s].len)
  /\ ReturnWithoutRelease
  /\ WriteReturn(s, ~view[s])
  /\ UNCHANGED <<cur, mem, setup, wreg, wcnt, nsent, reader,
                 overlap, overrun, unread, taken, received>>

WriteCheck(s) ==
  /\ wpc[s] = "check" /\ view[s] /\ Fits(cur, wmsg[s].len)
  /\ wpc' = [wpc EXCEPT ![s] = "addr"]
  /\ UNCHANGED <<shared, setup, wmsg, wreg, wcnt, nsent, reader, history>>

\* Seeded fault: memcpy(pCurData, ...) without the offset.
WriteAddrNoOffset(s) ==
  /\ wpc[s] = "addr"
  /\ wreg' = [wreg EXCEPT ![s] = 0]
  /\ wpc' = [wpc EXCEPT ![s] = "copy"]
  /\ UNCHANGED <<shared, setup, wmsg, wcnt, nsent, reader, history>>

\* pCurData + *pCurDataSize: the counter is read again.
WriteAddr(s) ==
  /\ wpc[s] = "addr"
  /\ wreg' = [wreg EXCEPT ![s] = cur]
  /\ wpc' = [wpc EXCEPT ![s] = "copy"]
  /\ UNCHANGED <<shared, setup, wmsg, wcnt, nsent, reader, history>>

\* One byte of memcpy.
WriteCopy(s) ==
  LET at == wreg[s] + wcnt[s]
  IN  /\ wpc[s] = "copy" /\ wcnt[s] < wmsg[s].len
      /\ mem' = IF at < MmfSize
                THEN [mem EXCEPT ![at] = BytesOf(wmsg[s])[wcnt[s] + 1]]
                ELSE mem
      /\ overrun' = (overrun \/ at >= MmfSize)
      /\ wcnt' = [wcnt EXCEPT ![s] = @ + 1]
      /\ UNCHANGED <<cur, owner, leaked, setup, wpc, wmsg, wreg, nsent, reader,
                     overlap, unread, taken, reported, received>>

\* *pCurDataSize += dwDataSize reads the counter ...
WriteLoad(s) ==
  /\ wpc[s] = "copy" /\ wcnt[s] = wmsg[s].len
  /\ wreg' = [wreg EXCEPT ![s] = cur]
  /\ wcnt' = [wcnt EXCEPT ![s] = 0]
  /\ wpc' = [wpc EXCEPT ![s] = "store"]
  /\ UNCHANGED <<shared, setup, wmsg, nsent, reader, history>>

\* ... and writes it.
WriteStore(s) ==
  /\ wpc[s] = "store"
  /\ cur' = Add32(wreg[s], wmsg[s].len)
  /\ wreg' = [wreg EXCEPT ![s] = 0]
  /\ unread' = unread \o BytesOf(wmsg[s])
  /\ wpc' = [wpc EXCEPT ![s] = "release"]
  /\ UNCHANGED <<mem, owner, leaked, setup, wmsg, wcnt, nsent, reader,
                 overlap, overrun, taken, reported, received>>

WriteRelease(s) ==
  /\ wpc[s] = "release"
  /\ Release(s)
  /\ WriteReturn(s, TRUE)
  /\ UNCHANGED <<cur, mem, setup, wreg, wcnt, nsent, reader,
                 overlap, overrun, unread, taken, received>>

SenderStep(s) ==
  \/ \E e \in EventTypes, d \in DataLens : SendMsgToMmf(s, e, d)
  \/ SendMsgRejected(s)
  \/ WriteWait(s) \/ WriteFail(s) \/ WriteCheck(s) \/ WriteAddr(s)
  \/ WriteCopy(s) \/ WriteLoad(s) \/ WriteStore(s) \/ WriteRelease(s)

-----------------------------------------------------------------------------
(* CWLIPCMmf::ReadData, called by GetMessageThread once per second.           *)

ReadWait ==
  /\ rpc = "wait"
  /\ Acquire(Reader)
  /\ rpc' = "check"
  /\ Enter(Reader)
  /\ UNCHANGED <<cur, mem, setup, writer, ralloc, rlen, rbuf, dwSize,
                 overrun, unread, taken, reported, received>>

\* ReadData fails, without ReleaseMutex: nothing to read, or `new' throws
\* (CATCH_ERROR).  GetMessageThread sleeps and tries again.
ReadFail ==
  /\ view[Reader]
  /\ (rpc = "check" /\ cur = 0) \/ rpc = "alloc"
  /\ ReturnWithoutRelease
  /\ rpc' = "wait"
  /\ UNCHANGED <<cur, mem, setup, writer, ralloc, rlen, rbuf, dwSize, history>>

\* Without a view ReadData returns MAPVIEWOFFILE_ERROR = 0: a successful read of
\* dwSize = 0 bytes, again without ReleaseMutex.
ReadNoView ==
  /\ rpc = "check" /\ ~view[Reader]
  /\ ReturnWithoutRelease
  /\ rpc' = "got"
  /\ taken' = <<>>
  /\ UNCHANGED <<cur, mem, setup, writer, ralloc, rlen, rbuf, dwSize,
                 overlap, overrun, unread, reported, received>>

ReadCheck ==
  /\ rpc = "check" /\ view[Reader] /\ cur # 0
  /\ rpc' = "alloc"
  /\ UNCHANGED <<shared, setup, writer, ralloc, rlen, rbuf, dwSize, history>>

\* new BYTE[*pCurDataSize + 1]
ReadAlloc ==
  /\ rpc = "alloc"
  /\ ralloc' = Add32(cur, 1)
  /\ rpc' = "len"
  /\ UNCHANGED <<shared, setup, writer, rlen, rbuf, dwSize, history>>

\* The length argument of memcpy.
ReadLen ==
  /\ rpc = "len"
  /\ rlen' = cur
  /\ rpc' = "copy"
  /\ UNCHANGED <<shared, setup, writer, ralloc, rbuf, dwSize, history>>

\* One byte of memcpy.
ReadCopy ==
  /\ rpc = "copy" /\ Len(rbuf) < rlen
  /\ rbuf' = Append(rbuf, IF Len(rbuf) < MmfSize THEN mem[Len(rbuf)] ELSE NoByte)
  /\ UNCHANGED <<shared, setup, writer, rpc, ralloc, rlen, dwSize, history>>

\* Seeded fault: the size handed out is the one that was allocated for.
ReadSizeEarly ==
  /\ rpc = "copy" /\ Len(rbuf) = rlen
  /\ dwSize' = ralloc - 1
  /\ rpc' = "zero"
  /\ UNCHANGED <<shared, setup, writer, ralloc, rlen, rbuf, history>>

\* dwDataSize = *pCurDataSize
ReadSize ==
  /\ rpc = "copy" /\ Len(rbuf) = rlen
  /\ dwSize' = cur
  /\ rpc' = "zero"
  /\ UNCHANGED <<shared, setup, writer, ralloc, rlen, rbuf, history>>

\* Seeded fault: the last byte is left out.
BatchShort == [i \in 1..dwSize |-> IF i < rlen THEN rbuf[i] ELSE NoByte]

\* What the caller can read of the buffer: dwSize bytes, of which only rlen
\* were copied (the others are whatever the heap held).
Batch == [i \in 1..dwSize |-> IF i <= rlen THEN rbuf[i] ELSE NoByte]

\* The messages that are in the batch with all their bytes.
BatchMessages == {m \in Messages : \A b \in 1..m.len : \E i \in 1..dwSize :
                                      Batch[i] = BytesOf(m)[b]}

\* *pCurDataSize = 0
ReadZero ==
  /\ rpc = "zero"
  /\ cur' = 0
  /\ rpc' = "release"
  /\ taken' = Batch
  /\ unread' = <<>>
  /\ received' = received \cup BatchMessages
  /\ UNCHANGED <<mem, owner, leaked, setup, writer, ralloc, rlen, rbuf, dwSize,
                 overlap, overrun, reported>>

ReadRelease ==
  /\ rpc = "release"
  /\ Release(Reader)
  /\ rpc' = "got"
  /\ ralloc' = 0 /\ rlen' = 0 /\ rbuf' = <<>> /\ dwSize' = 0
  /\ UNCHANGED <<cur, mem, setup, writer, history>>

\* GetMessageThread is done with the batch and calls ReadData again.
ReadAgain ==
  /\ rpc = "got"
  /\ rpc' = "wait"
  /\ UNCHANGED <<shared, setup, writer, ralloc, rlen, rbuf, dwSize, history>>

ReadDataStep ==
  \/ ReadWait \/ ReadFail \/ ReadNoView \/ ReadCheck \/ ReadAlloc \/ ReadLen
  \/ ReadCopy \/ ReadSize \/ ReadZero \/ ReadRelease

Next == (\E s \in Senders : SenderStep(s)) \/ ReadDataStep \/ ReadAgain

Spec == Init /\ [][Next]_vars

\* Threads that have started an access finish it, and GetMessageThread polls for
\* ever: all are ordinary Windows threads.  ReadAlloc needs strong fairness only
\* because `new' may throw: it does not throw every single time.
ReaderFairness ==
  /\ WF_vars(ReadWait \/ ReadCheck \/ ReadLen \/ ReadCopy \/ ReadSize \/ ReadZero
               \/ ReadRelease \/ ReadNoView \/ (ReadFail /\ rpc = "check"))
  /\ SF_vars(ReadAlloc)

SenderFairness ==
  \A s \in Senders :
    WF_vars(WriteWait(s) \/ WriteFail(s) \/ WriteCheck(s) \/ WriteAddr(s)
              \/ WriteCopy(s) \/ WriteLoad(s) \/ WriteStore(s) \/ WriteRelease(s))

FairSpec == Spec /\ ReaderFairness /\ SenderFairness /\ WF_vars(ReadAgain)

-----------------------------------------------------------------------------
(* Properties.                                                               *)

\* Every variable has its type.
TypeOK ==
  /\ cur \in 0..(DwordMod - 1)
  /\ mem \in [0..(MmfSize - 1) -> Bytes \cup {NoByte}]
  /\ hMutex \in BOOLEAN /\ view \in [Procs -> BOOLEAN]
  /\ owner \in Procs \cup {None} /\ leaked \in BOOLEAN
  /\ wpc \in [Senders -> {"idle", "wait", "check", "addr", "copy", "store", "release"}]
  /\ wmsg \in [Senders -> Messages \cup {NoMsg}]
  /\ wreg \in [Senders -> Nat] /\ wcnt \in [Senders -> Nat]
  /\ nsent \in 0..MaxSend
  /\ rpc \in {"wait", "check", "alloc", "len", "copy", "zero", "release", "got"}
  /\ ralloc \in Nat /\ rlen \in Nat /\ dwSize \in Nat
  /\ rbuf \in Seq(Bytes \cup {NoByte})
  /\ overlap \in BOOLEAN /\ overrun \in BOOLEAN
  /\ unread \in Seq(Bytes) /\ taken \in Seq(Bytes \cup {NoByte})
  /\ reported \subseteq Messages /\ received \subseteq Messages

\* If a mutex of the agreed name exists, WriteData and ReadData never overlap, in
\* spite of the acquisitions their error returns leak (IPCMmf.cpp 70-76, 149-155).
MutualExclusion == hMutex => ~overlap

\* The senders cannot overlap each other: there is a mutex or only one of them.
OneWriter == hMutex \/ \A s, t \in Senders : s = t

\* The range check of WriteDataInternal (line 95) protects the memcpy and the
\* update after it, which read the counter again: as long as senders do not
\* overlap each other no byte is written past the data area and the counter stays
\* within it, even when the reader resets the counter in between.
WritesStayInside == OneWriter => ~overrun /\ cur <= MmfSize

\* Nobody is using the section.
Quiet == \A p \in Procs : ~Inside(p)

\* `the bytes in the shared memory that have not been read' (the comment on
\* pCurDataSize, line 92): as long as no two accesses have overlapped, between
\* accesses the counter is the number of bytes sent and not read, and the area
\* holds exactly these bytes, in the order they were sent.
CounterIsUnreadBytes ==
  ~overlap /\ Quiet =>
    /\ cur = Len(unread)
    /\ \A i \in 1..cur : mem[i - 1] = unread[i]

\* ReadDataInternal reads the counter for the allocation, for the memcpy and for the
\* size it returns (lines 127, 130, 131).  A sender may store between any two of them
\* when nothing excludes it, so they may differ, but as long as senders do not overlap
\* each other they only grow: what was counted first is copied, what is copied is
\* within the area and is handed out, and what is handed out is at most what line 132
\* discards.  (Not the other way round: more may be copied than was allocated for, and
\* more handed out than was copied.)
ReadsAscend ==
  OneWriter =>
    /\ rpc \in {"copy", "zero"} => ralloc <= rlen + 1 /\ rlen <= MmfSize
    /\ rpc = "zero" => rlen <= dwSize /\ dwSize <= cur

\* The channel is a bounded FIFO of whole messages until two accesses overlap.
Fifo == INSTANCE FifoChannel WITH
          Capacity <- MmfSize, Payloads <- {BytesOf(m) : m \in Messages},
          pending <- unread, out <- taken, broken <- overlap

ChannelIsFifo == Fifo!Spec

\* `Returns ERROR_SUCCESS (0) on success' (MessageSender.h:59): a message whose
\* SendMsgToMmf reported success reaches the reader.
SuccessIsReceived ==
  \A n \in 1..MaxSend :
    (\E m \in reported : m.num = n) ~> (\E m \in received : m.num = n)
=============================================================================
