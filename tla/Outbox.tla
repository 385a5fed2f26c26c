------------------------------- MODULE Outbox -------------------------------
(***************************************************************************)
(* Connection of asio_lab (main.cpp): threads post messages to a strand,   *)
(* which keeps them in outbox_ and has one asynchronous write under way.   *)
(*                                                                         *)
(* The strand (external) runs the handlers posted to it one after the      *)
(* other in the order they were posted, on whatever thread of the          *)
(* io_service. async_write (external) writes from the memory of the        *)
(* message in outbox_ and then posts WriteHandler, with or without error.  *)
(***************************************************************************)
EXTENDS Naturals, Sequences, FiniteSets

CONSTANTS
  Writers,      \* threads that call Write
  MaxWrites     \* bound on the calls of each

VARIABLES
  strand,    \* handlers posted: [op |-> "write", msg] or [op |-> "handler", error]
  outbox,    \* outbox_
  writing,   \* messages async_write was started with and has not completed
  sent,      \* history: messages that completed, in order, with or without error
  posted,    \* history: messages in the order Write posted them
  broken     \* history: a write has failed

outVars == <<strand, outbox, writing, sent, posted, broken>>

Count(t) == Cardinality({k \in DOMAIN posted : posted[k][1] = t})

Write(t) ==
  /\ Count(t) < MaxWrites
  /\ LET m == <<t, Count(t) + 1>>
     IN strand' = Append(strand, [op |-> "write", msg |-> m]) /\ posted' = Append(posted, m)
  /\ UNCHANGED <<outbox, writing, sent, broken>>

\* DoWrite
DoWrite(box) == writing' = Append(writing, Head(box))

\* Variant: a second write is started while one is under way.
WriteImplEager(m) ==
  /\ outbox' = Append(outbox, m)
  /\ IF Len(outbox') > 2 THEN UNCHANGED writing ELSE DoWrite(outbox')
  /\ UNCHANGED <<sent, posted, broken>>

WriteImpl(m) ==
  /\ outbox' = Append(outbox, m)
  /\ IF Len(outbox') > 1 THEN UNCHANGED writing ELSE DoWrite(outbox')
  /\ UNCHANGED <<sent, posted, broken>>

\* After an error the rest of the outbox stays where it is.
WriteHandler(error) ==
  /\ outbox' = Tail(outbox)
  /\ IF error \/ outbox' = <<>> THEN UNCHANGED writing ELSE DoWrite(outbox')
  /\ broken' = (broken \/ error)
  /\ UNCHANGED <<sent, posted>>

RunStrand ==
  /\ strand # <<>> /\ strand' = Tail(strand)
  /\ LET h == Head(strand)
     IN IF h.op = "write" THEN WriteImpl(h.msg) ELSE WriteHandler(h.error)

WriteCompletes(error) ==
  /\ writing # <<>>
  /\ sent' = Append(sent, Head(writing)) /\ writing' = Tail(writing)
  /\ strand' = Append(strand, [op |-> "handler", error |-> error])
  /\ UNCHANGED <<outbox, posted, broken>>

OutInit == strand = <<>> /\ outbox = <<>> /\ writing = <<>> /\ sent = <<>> /\ posted = <<>> /\ broken = FALSE

OutNext ==
  \/ \E t \in Writers : Write(t)
  \/ RunStrand
  \/ \E error \in BOOLEAN : WriteCompletes(error)

OutSpec == OutInit /\ [][OutNext]_outVars

-----------------------------------------------------------------------------
\* The WriteHandlers at the strand, and the messages that wait there: what is left of it without them.
Handlers == {k \in DOMAIN strand : strand[k].op = "handler"}
Waiting ==
  IF Handlers = {} THEN [k \in DOMAIN strand |-> strand[k].msg]
  ELSE LET h == CHOOSE k \in Handlers : TRUE
       IN [k \in 1 .. Len(strand) - 1 |-> strand[IF k < h THEN k ELSE k + 1].msg]

\* The messages of the outbox that are not sent yet.
Kept == IF Handlers # {} THEN Tail(outbox) ELSE outbox

\* Whatever the threads, the strand and the socket do in between: at most one write is under way
\* or done and not handled, and its message is still in the outbox; the messages sent, in the
\* outbox and waiting at the strand are those of the calls of Write, in order, none twice and none
\* missing; and as long as no write has failed an outbox that is not empty is being written.
OutboxSound ==
  /\ Len(writing) <= 1 /\ (\A j, k \in Handlers : j = k) /\ (writing # <<>> => Handlers = {})
  /\ writing # <<>> => outbox # <<>> /\ Head(writing) = Head(outbox)
  /\ Handlers # {} => outbox # <<>>
  /\ posted = sent \o Kept \o Waiting
  /\ ~broken /\ outbox # <<>> => writing # <<>> \/ Handlers # {}
=============================================================================
