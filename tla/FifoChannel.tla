---------------------------- MODULE FifoChannel ----------------------------
(***************************************************************************)
(* What a queue between threads promises: the items come out in the order  *)
(* in which they went in, each one once, and no item is received before it *)
(* was sent.  Blocking, wake-ups and the mutex do not appear here;         *)
(* BlockingQueue is shown to implement this specification.                 *)
(***************************************************************************)
EXTENDS Naturals, Sequences

CONSTANT Items

VARIABLES
  sent,      \* every item sent so far, in order
  received   \* every item received so far, in order

Init ==
  /\ sent = <<>>
  /\ received = <<>>

Send(x) ==
  /\ sent' = Append(sent, x)
  /\ UNCHANGED received

Receive ==
  /\ Len(received) < Len(sent)
  /\ received' = Append(received, sent[Len(received) + 1])
  /\ UNCHANGED sent

Next == Receive \/ \E x \in Items : Send(x)

Spec == Init /\ [][Next]_<<sent, received>>
=============================================================================
