------------------------------ MODULE PacketQueue ------------------------------
(***************************************************************************)
(* What the services expect of send_simple_packet and recv_simple_packet:  *)
(* packets come out whole, once, and in the order they went in.  A reader  *)
(* that sees the end has seen every packet; one whose connection or        *)
(* allocation fails has seen a first part of them.                         *)
(***************************************************************************)
EXTENDS Sequences, Integers

CONSTANT Packets

VARIABLES
  written,    \* the packets handed over whole
  delivered,  \* the packets recv_simple_packet returned
  writer,     \* writing, or stopped
  reader      \* reading, or ended, or failed

vars == <<written, delivered, writer, reader>>

Init ==
  /\ written = <<>> /\ delivered = <<>>
  /\ writer = "writing" /\ reader = "reading"

Write(p) ==
  /\ writer = "writing"
  /\ written' = Append(written, p)
  /\ UNCHANGED <<delivered, writer, reader>>

Stop ==
  /\ writer = "writing" /\ writer' = "stopped"
  /\ UNCHANGED <<written, delivered, reader>>

Read ==
  /\ reader = "reading" /\ Len(delivered) < Len(written)
  /\ delivered' = Append(delivered, written[Len(delivered) + 1])
  /\ UNCHANGED <<written, writer, reader>>

End ==
  /\ reader = "reading" /\ writer = "stopped" /\ delivered = written
  /\ reader' = "ended"
  /\ UNCHANGED <<written, delivered, writer>>

Fail ==
  /\ reader = "reading" /\ reader' = "failed"
  /\ UNCHANGED <<written, delivered, writer>>

Next == (\E p \in Packets : Write(p)) \/ Stop \/ Read \/ End \/ Fail

Spec == Init /\ [][Next]_vars

\* A packet that was written is delivered, and the end is noticed.
FairSpec == Spec /\ WF_vars(Read) /\ WF_vars(End)
===============================================================================
