--------------------------- MODULE MessageService ---------------------------
(***************************************************************************)
(* The message pipeline of Service.exe (Service/Service.cpp) on top of the  *)
(* shared-memory channel: GetMessageThread cuts each batch it reads into    *)
(* messages and inserts them into CWLMetaDataQueue; DispatchMessageThread    *)
(* takes them out and calls the component of their event type.  Processes   *)
(* die and are started again: Main.exe's timer starts Service.exe when it   *)
(* is not running.                                                          *)
(***************************************************************************)
EXTENDS IPCMmf

CONSTANTS Components,  \* event types that belong to a component DLL
          MaxCrash,    \* bound: processes that die of themselves
          BeginThreadResults,  \* outcomes of the two _beginthreadex considered: the
                               \* threads that were started
          Garbage      \* a queue entry that points at no message header

ASSUME PipelineAssumption ==
  /\ Components \subseteq EventTypes /\ MaxCrash \in Nat
  /\ BeginThreadResults \subseteq SUBSET {"get", "dispatch"}
  /\ Garbage \notin Messages /\ None \notin Messages \cup Bytes

VARIABLES
  alive,    \* per sender: its process runs
  up,       \* Service.exe runs
  threads,  \* which of its two threads were started
  loaded,   \* g_IComponentVector: the components whose DLL was loaded
  pos,      \* dwSizeDone, the parse position in the batch
  queue,    \* CWLMetaDataQueue::m_Queue
  dpc,      \* where DispatchMessageThread is
  doing,    \* MessageData, the message being dispatched
  \* history
  handled,  \* messages dispatched, in order
  ledger,   \* messages stored in the section, but for those that died with a process
  crashes

service == <<up, threads, loaded, pos, queue, dpc, doing>>
allVars == <<vars, alive, service, handled, ledger, crashes>>

\* The values of f at the entries of seq that are in its domain, in order.
Collect(seq, f) ==
  LET got[i \in 0..Len(seq)] ==
        IF i = 0 THEN <<>>
        ELSE IF seq[i] \in DOMAIN f THEN Append(got[i - 1], f[seq[i]]) ELSE got[i - 1]
  IN  got[Len(seq)]

\* The messages whose first byte is in a sequence of bytes.
FirstBytes == [msg : Messages, off : {0}]
MessagesIn(bytes) == Collect(bytes, [b \in FirstBytes |-> b.msg])

\* The messages of a sequence without those that are gone.
Keep(seq, gone) ==
  Collect(seq, [m \in {n \in Messages : \A i \in 1..Len(gone) : gone[i] # n} |-> m])

ServiceInit ==
  /\ Init
  /\ alive = [s \in Senders |-> TRUE]
  /\ up \in BOOLEAN /\ loaded \in IF up THEN SUBSET Components ELSE {{}}
  /\ threads \in IF up THEN BeginThreadResults ELSE {{}}
  /\ pos = 0 /\ queue = <<>> /\ dpc = "poll" /\ doing = NoMsg
  /\ handled = <<>> /\ ledger = <<>> /\ crashes = 0

-----------------------------------------------------------------------------
(* The threads.                                                              *)

Runs(t) == up /\ t \in threads

Send(s) ==
  /\ alive[s]
  /\ SenderStep(s)
  /\ ledger' = IF wpc[s] = "store" THEN Append(ledger, wmsg[s]) ELSE ledger
  /\ UNCHANGED <<alive, service, handled, crashes>>

GetMessage ==
  /\ Runs("get")
  /\ ReadDataStep
  /\ UNCHANGED <<alive, service, handled, ledger, crashes>>

\* Seeded fault: dwSizeDone moves by the header only.
ParseMessageHeaderOnly ==
  LET b == taken[pos + 1]
  IN  /\ Runs("get") /\ rpc = "got" /\ pos + HeaderLen <= Len(taken)
      /\ queue' = Append(queue, IF b # NoByte /\ b.off = 0 THEN b.msg ELSE Garbage)
      /\ pos' = pos + HeaderLen
      /\ UNCHANGED <<vars, alive, up, threads, loaded, dpc, doing, handled, ledger, crashes>>

\* Seeded fault: dwSize is taken for the size of header and data.
ParseMessageTwiceHeader ==
  LET b == taken[pos + 1]
  IN  /\ Runs("get") /\ rpc = "got" /\ pos + HeaderLen <= Len(taken)
      /\ IF b # NoByte /\ b.off = 0
         THEN queue' = Append(queue, b.msg) /\ pos' = pos + HeaderLen + b.msg.len
         ELSE queue' = Append(queue, Garbage) /\ \E d \in DataLens : pos' = pos + HeaderLen + d
      /\ UNCHANGED <<vars, alive, up, threads, loaded, dpc, doing, handled, ledger, crashes>>

\* The loop over the batch: `while (dwSizeDone + HeaderLen <= dwSize)'.  The block
\* at dwSizeDone is inserted; its dwSize says where the next one starts.  Bytes
\* that are not a header say anything.
ParseMessage ==
  LET b == taken[pos + 1]
  IN  /\ Runs("get") /\ rpc = "got" /\ pos + HeaderLen <= Len(taken)
      /\ IF b # NoByte /\ b.off = 0
         THEN queue' = Append(queue, b.msg) /\ pos' = pos + b.msg.len
         ELSE queue' = Append(queue, Garbage) /\ \E d \in DataLens : pos' = pos + HeaderLen + d
      /\ UNCHANGED <<vars, alive, up, threads, loaded, dpc, doing, handled, ledger, crashes>>

\* What is left of the batch.
Rest == SubSeq(taken, pos + 1, Len(taken))

\* Insert throws (the queue cannot grow): one of the two handlers catches it outside
\* the loop, so the rest of the batch is given up.  Sleep(1000), the next ReadData.
ParseThrows ==
  /\ Runs("get") /\ rpc = "got" /\ pos + HeaderLen <= Len(taken)
  /\ pos' = 0
  /\ ledger' = Keep(ledger, MessagesIn(Rest))
  /\ ReadAgain
  /\ UNCHANGED <<alive, up, threads, loaded, queue, dpc, doing, handled, crashes>>

\* The batch is done; Sleep(1000) and the next ReadData.
ParseDone ==
  /\ Runs("get") /\ rpc = "got" /\ pos + HeaderLen > Len(taken)
  /\ pos' = 0
  /\ ReadAgain
  /\ UNCHANGED <<alive, up, threads, loaded, queue, dpc, doing, handled, ledger, crashes>>

\* Seeded fault: GetHead without GetCount.
DispatchPollUnchecked ==
  /\ Runs("dispatch") /\ dpc = "poll"
  /\ dpc' = "head"
  /\ UNCHANGED <<vars, alive, up, threads, loaded, pos, queue, doing, handled, ledger, crashes>>

\* Seeded fault: GetCount() > 1.
DispatchPollLate ==
  /\ Runs("dispatch") /\ dpc = "poll" /\ Len(queue) > 1
  /\ dpc' = "head"
  /\ UNCHANGED <<vars, alive, up, threads, loaded, pos, queue, doing, handled, ledger, crashes>>

\* GetCount() > 0 and GetHead(), each under the queue's own lock.
DispatchPoll ==
  /\ Runs("dispatch") /\ dpc = "poll" /\ Len(queue) > 0
  /\ dpc' = "head"
  /\ UNCHANGED <<vars, alive, up, threads, loaded, pos, queue, doing, handled, ledger, crashes>>

GetHead ==
  /\ Runs("dispatch") /\ dpc = "head"
  /\ doing' = Head(queue) /\ queue' = Tail(queue)
  /\ dpc' = "dispatch"
  /\ UNCHANGED <<vars, alive, up, threads, loaded, pos, handled, ledger, crashes>>

\* dwEventType as the switch reads it.
EventsOf(m) == IF m = Garbage THEN EventTypes ELSE {m.evt}

\* The switch of DispatchMessageFun: a loaded component is called, on this thread;
\* a type that is nobody's is dropped.
DispatchMessageFun ==
  /\ Runs("dispatch") /\ dpc = "dispatch"
  /\ \E e \in EventsOf(doing) : e \in Components => e \in loaded
  /\ handled' = Append(handled, doing)
  /\ doing' = NoMsg
  /\ dpc' = "call"
  /\ UNCHANGED <<vars, alive, up, threads, loaded, pos, queue, ledger, crashes>>

DispatchReturn ==
  /\ Runs("dispatch") /\ dpc = "call"
  /\ dpc' = "poll"
  /\ UNCHANGED <<vars, alive, up, threads, loaded, pos, queue, doing, handled, ledger, crashes>>

-----------------------------------------------------------------------------
(* Processes.                                                                *)

\* Seeded fault: the death of any process frees the mutex, whoever owns it.
AbandonAny(p) == owner' = None /\ leaked' = FALSE

\* The mutex of a process that dies is abandoned: the next waiter gets it.
Abandon(p) ==
  /\ owner' = IF owner = p THEN None ELSE owner
  /\ leaked' = (leaked /\ owner # p)

\* The section lives as long as one process has it open.
SectionSurvives(survivors) ==
  IF survivors
  THEN UNCHANGED <<cur, mem, unread>>
  ELSE /\ cur' = 0 /\ mem' = [i \in DOMAIN mem |-> NoByte] /\ unread' = <<>>

\* The messages Service.exe has taken from the section and not dispatched yet.
InService == (IF doing = NoMsg THEN <<>> ELSE <<doing>>) \o queue
             \o (IF rpc \in {"release", "got"} THEN MessagesIn(Rest) ELSE <<>>)

\* Service.exe dies: its threads, its queue and its reads are gone.
ServiceDies ==
  /\ up
  /\ up' = FALSE /\ threads' = {} /\ loaded' = {} /\ pos' = 0 /\ queue' = <<>> /\ dpc' = "poll" /\ doing' = NoMsg
  /\ rpc' = "wait" /\ ralloc' = 0 /\ rlen' = 0 /\ rbuf' = <<>> /\ dwSize' = 0
  /\ Abandon(Reader)
  /\ SectionSurvives(\E s \in Senders : alive[s])
  /\ ledger' = Keep(ledger, InService \o
                            (IF \E s \in Senders : alive[s] THEN <<>> ELSE MessagesIn(unread)))
  /\ UNCHANGED <<setup, writer, overlap, overrun, taken, reported, received, alive, handled>>

ServiceCrash ==
  /\ crashes < MaxCrash
  /\ ServiceDies
  /\ crashes' = crashes + 1

\* g_IComponentVector[...] has no entry for a DLL that failed to load: a null
\* pointer is dereferenced on the dispatch thread.
DispatchNull ==
  /\ dpc = "dispatch"
  /\ \E e \in EventsOf(doing) : e \in Components \ loaded
  /\ ServiceDies
  /\ UNCHANGED crashes

\* TimerRoutine of a running Main.exe finds no Service.exe and starts it; its main
\* loads the DLLs it can and starts the two threads; nobody looks at the results of
\* _beginthreadex.
StartService ==
  /\ ~up /\ \E s \in Senders : alive[s]
  /\ up' = TRUE
  /\ threads' \in BeginThreadResults /\ loaded' \in SUBSET Components
  /\ \E v \in MapViewResults : view' = [view EXCEPT ![Reader] = v]
  /\ UNCHANGED <<shared, hMutex, writer, reader, history, alive, pos, queue, dpc,
                 doing, handled, ledger, crashes>>

\* A sender's process dies, in the middle of WriteData perhaps.
SenderCrash(s) ==
  LET survivors == up \/ \E t \in Senders \ {s} : alive[t]
  IN  /\ alive[s] /\ crashes < MaxCrash
      /\ crashes' = crashes + 1
      /\ alive' = [alive EXCEPT ![s] = FALSE]
      /\ wpc' = [wpc EXCEPT ![s] = "idle"] /\ wmsg' = [wmsg EXCEPT ![s] = NoMsg]
      /\ wreg' = [wreg EXCEPT ![s] = 0] /\ wcnt' = [wcnt EXCEPT ![s] = 0]
      /\ Abandon(s)
      /\ SectionSurvives(survivors)
      /\ ledger' = IF survivors THEN ledger ELSE Keep(ledger, MessagesIn(unread))
      /\ UNCHANGED <<setup, nsent, reader, overlap, overrun, taken, reported, received,
                     service, handled>>

StartSender(s) ==
  /\ ~alive[s]
  /\ alive' = [alive EXCEPT ![s] = TRUE]
  /\ \E v \in MapViewResults : view' = [view EXCEPT ![s] = v]
  /\ UNCHANGED <<shared, hMutex, writer, reader, history, service, handled, ledger, crashes>>

ServiceNext ==
  \/ \E s \in Senders : Send(s) \/ SenderCrash(s) \/ StartSender(s)
  \/ GetMessage \/ ParseMessage \/ ParseThrows \/ ParseDone
  \/ DispatchPoll \/ GetHead \/ DispatchMessageFun \/ DispatchReturn
  \/ ServiceCrash \/ DispatchNull \/ StartService

ServiceSpec == ServiceInit /\ [][ServiceNext]_allVars

\* The threads of a running process are scheduled, `new' does not throw every time,
\* and the timer of Main.exe fires every ten minutes.  Nothing makes a sender call
\* SendMsgToMmf, die or start, and nothing makes a component call return.
ServiceFairness ==
  /\ \A s \in Senders : WF_allVars(Send(s) /\ wpc[s] # "idle")
  /\ WF_allVars(GetMessage)
  /\ SF_allVars(GetMessage /\ ReadAlloc)
  /\ WF_allVars(ParseMessage \/ ParseThrows \/ ParseDone)
  /\ WF_allVars(DispatchPoll \/ GetHead \/ DispatchMessageFun \/ DispatchNull)
  /\ WF_allVars(StartService)

FairServiceSpec == ServiceSpec /\ ServiceFairness

-----------------------------------------------------------------------------
(* Properties.                                                               *)

\* The variables this module adds have their types.
ServiceTypeOK ==
  /\ TypeOK
  /\ alive \in [Senders -> BOOLEAN] /\ up \in BOOLEAN /\ loaded \subseteq Components
  /\ threads \subseteq {"get", "dispatch"}
  /\ pos \in Nat /\ queue \in Seq(Messages \cup {Garbage})
  /\ dpc \in {"poll", "head", "dispatch", "call"}
  /\ doing \in Messages \cup {Garbage, NoMsg}
  /\ handled \in Seq(Messages \cup {Garbage}) /\ ledger \in Seq(Messages)
  /\ crashes \in 0..MaxCrash

\* Until two accesses overlap the pipeline is exact: the messages stored in the
\* section, in order, are the ones dispatched, then the one being dispatched, then
\* the queue, then the rest of the batch, then the section.  Nothing is lost,
\* repeated or reordered but in two ways, which the ledger follows: a Service.exe that
\* dies takes with it what it had taken (ReadData empties the section before the batch
\* is parsed), and an Insert that throws the rest of its batch, but not a message
\* before it or in the section (Service.cpp 52-71).  A reader or a sender that dies
\* within ReadData or WriteData takes nothing with it.
ExactlyOnceInOrder ==
  ~overlap => ledger = handled \o InService \o MessagesIn(unread)

\* The parser of GetMessageThread checks that a header fits, never that the data
\* does (Service.cpp 57-61): without an overlap it still ends on the last byte.
ParserStaysInBatch == ~overlap /\ rpc = "got" => pos <= Len(taken)

\* GetCount and GetHead lock separately (Service.cpp 97-99): front() of an empty
\* queue is never taken, also when Service.exe was restarted in between.
NeverPopsEmpty == dpc = "head" => queue # <<>>

\* What the channel promises holds with processes that die and start again, a
\* sender inside WriteData with the mutex and a reader inside ReadData included:
\* accesses exclude each other if the mutex exists, no byte is written past the
\* area, and the counter and the area are the bytes sent and not read.
ChannelSound == MutualExclusion /\ WritesStayInside /\ CounterIsUnreadBytes

InLedger(n) == \E i \in 1..Len(ledger) : ledger[i].num = n
Handled(n) == \E i \in 1..Len(handled) : handled[i] # Garbage /\ handled[i].num = n

\* Service.exe runs without one of its threads.
Lame == up /\ threads # {"get", "dispatch"}

\* A message in the section is dispatched, unless accesses overlap, an error return
\* has leaked the mutex, or the message is lost with a Service.exe or with its batch: a
\* crash before ReadData has emptied the section only delays it until Main.exe's timer
\* has started Service.exe again.  Two things stop the pipeline for good: a Service.exe
\* that got only one of its threads, which no timer replaces, and a component call
\* that does not return (Service.cpp 23-24, 100, 116).
EventuallyDispatched ==
  \A n \in 1..MaxSend :
    InLedger(n) ~> (\/ Handled(n) \/ ~InLedger(n) \/ overlap \/ leaked
                    \/ []Lame \/ [](dpc = "call"))
=============================================================================
