----------------------------- MODULE FifoChannel -----------------------------
(***************************************************************************)
(* What the shared-memory channel between the client processes and         *)
(* Service.exe is meant to be: a bounded FIFO of bytes.  A sender appends   *)
(* one whole message or nothing, the reader takes everything that is        *)
(* pending, in the order it was sent.                                       *)
(*                                                                         *)
(* The promise ends when two accesses to the section overlap: from then on  *)
(* (`broken') the channel may do anything.                                  *)
(***************************************************************************)
EXTENDS Naturals, Sequences

CONSTANTS Capacity,  \* bytes the channel holds (m_dwMmfSize)
          Payloads   \* the byte sequences a sender may append in one call

VARIABLES pending,   \* bytes sent and not yet received
          out,       \* the last batch the reader received
          broken     \* two accesses have overlapped

vars == <<pending, out, broken>>

Init == pending = <<>> /\ out = <<>> /\ broken = FALSE

Send(p) ==
  /\ Len(pending) + Len(p) <= Capacity
  /\ pending' = pending \o p
  /\ UNCHANGED <<out, broken>>

Receive ==
  /\ pending # <<>>
  /\ out' = pending
  /\ pending' = <<>>
  /\ UNCHANGED broken

\* The reader is handed an empty batch.
ReceiveNothing ==
  /\ out' = <<>>
  /\ UNCHANGED <<pending, broken>>

\* Nothing is promised once accesses have overlapped.
Chaos == broken'

Next == (~broken /\ ((\E p \in Payloads : Send(p)) \/ Receive \/ ReceiveNothing)) \/ Chaos

Spec == Init /\ [][Next]_vars
=============================================================================
