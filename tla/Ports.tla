------------------------------- MODULE Ports -------------------------------
(***************************************************************************)
(* A connected output and input port of ck_lab (Port.h): one atomic word   *)
(* of a shared State carries the pointer to a Data and three flags. Push   *)
(* and Pull exchange the port's own Data for the one in the word; the      *)
(* other calls set flags. A producer thread checks CanPush before it       *)
(* pushes, a consumer thread checks HasData before it pulls, and each call *)
(* on the word is one step. The build keeps assertions.                    *)
(***************************************************************************)
EXTENDS Integers, FiniteSets

CONSTANTS
  MaxPushes,   \* bound on the chunks pushed
  NoData       \* the null pointer, and the content of an empty Data


VARIABLES
  word,     \* State::data_: the Data it points to and the flags with it
  outData,  \* OutputPort::data_
  inData,   \* InputPort::data_
  content,  \* the chunk in each Data
  inDone,   \* InputPort::is_finished_
  checked,  \* producer: CanPush said yes; consumer: HasData said yes
  pushes,   \* chunks pushed so far
  aborted   \* the call on which an assertion or a null pointer ended the program

portVars == <<word, outData, inData, content, inDone, checked, pushes, aborted>>

Flags == {"finished", "needed", "has_data"}
DataIds == 1 .. 3

ASSUME PortAssumption == MaxPushes \in Nat /\ NoData \notin DataIds

\* State::SetFlags. The mask is negated with ! instead of ~, which makes it 0: every flag but
\* the new ones is cleared. expected starts uninitialized: when it happens to be the word
\* itself, the first exchange succeeds and stores the flags with a null pointer.
FlagsAfter(old, flags, mask) == flags
SetFlags(flags, mask) ==
  \/ word' = [data |-> word.data, flags |-> FlagsAfter(word.flags, flags, mask)]
  \/ word' = [data |-> NoData, flags |-> flags]

\* Variant: the word keeps its Data.
SwapKeeping(data, flags, mask) == [data |-> word.data, flags |-> (word.flags \ mask) \cup flags]

\* DataPtr::Swap: the word takes the port's Data and the flags outside the mask.
Swap(data, flags, mask) == [data |-> data, flags |-> (word.flags \ mask) \cup flags]

CanPush == "needed" \in word.flags /\ "has_data" \notin word.flags

-----------------------------------------------------------------------------
(* The producer *)

CheckCanPush ==
  /\ aborted = "no" /\ CanPush /\ pushes < MaxPushes
  /\ checked' = [checked EXCEPT !.out = TRUE]
  /\ UNCHANGED <<word, outData, inData, content, inDone, pushes, aborted>>

\* OutputPort::Push: the chunk goes into the port's own Data, then the exchange; the assertion
\* says there was no data in the word.
Push ==
  /\ aborted = "no" /\ checked.out
  /\ IF outData = NoData
     THEN aborted' = "Push: null" /\ UNCHANGED <<word, outData, content, checked, pushes>>
     ELSE /\ content' = [content EXCEPT ![outData] = pushes + 1]
          /\ word' = Swap(outData, {"has_data"}, {"has_data"})
          /\ outData' = word.data
          /\ pushes' = pushes + 1
          /\ checked' = [checked EXCEPT !.out = FALSE]
          /\ aborted' = IF "has_data" \in word.flags THEN "Push: data" ELSE "no"
  /\ UNCHANGED <<inData, inDone>>

Finish ==
  /\ aborted = "no"
  /\ SetFlags({"finished"}, {"finished"})
  /\ UNCHANGED <<outData, inData, content, inDone, checked, pushes, aborted>>

-----------------------------------------------------------------------------
(* The consumer *)

SetNeeded ==
  /\ aborted = "no"
  /\ SetFlags({"needed"}, {"needed"})
  /\ UNCHANGED <<outData, inData, content, inDone, checked, pushes, aborted>>

SetNotNeeded ==
  /\ aborted = "no"
  /\ SetFlags({}, {"needed"})
  /\ UNCHANGED <<outData, inData, content, inDone, checked, pushes, aborted>>

\* Port::HasData, which a consumer asks before it pulls.
CheckHasData ==
  /\ aborted = "no" /\ "has_data" \in word.flags
  /\ checked' = [checked EXCEPT !.in = TRUE]
  /\ UNCHANGED <<word, outData, inData, content, inDone, pushes, aborted>>

\* The two assertions of State::Pull. The second, flags & HAS_DATA != 0, is flags & 1 to the
\* compiler: it asks for the finished flag.
PullAsserts(flags, setNotNeeded) ==
  /\ setNotNeeded \/ "needed" \in flags
  /\ "finished" \in flags

\* InputPort::PullData: the exchange, the assertions, is_finished_, and the chunk moved out.
Pull(setNotNeeded) ==
  /\ aborted = "no" /\ checked.in
  /\ word' = Swap(inData, {}, {"has_data"} \cup IF setNotNeeded THEN {"needed"} ELSE {})
  /\ inData' = word.data
  /\ checked' = [checked EXCEPT !.in = FALSE]
  /\ IF ~PullAsserts(word.flags, setNotNeeded)
     THEN /\ aborted' = IF "has_data" \in word.flags THEN "Pull: data" ELSE "Pull: no data"
          /\ UNCHANGED <<content, inDone>>
     ELSE /\ inDone' = ("finished" \in word.flags)
          /\ IF word.data = NoData
             THEN aborted' = "Pull: null" /\ UNCHANGED content
             ELSE content' = [content EXCEPT ![word.data] = NoData] /\ UNCHANGED aborted
  /\ UNCHANGED <<outData, pushes>>

\* InputPort::IsFinished remembers what it saw.
Finished == inDone \/ ("finished" \in word.flags /\ "has_data" \notin word.flags)
IsFinished ==
  /\ aborted = "no"
  /\ inDone' = Finished
  /\ UNCHANGED <<word, outData, inData, content, checked, pushes, aborted>>

Close ==
  /\ aborted = "no"
  /\ inDone' = TRUE
  /\ UNCHANGED <<word, outData, inData, content, checked, pushes, aborted>>

Reopen ==
  /\ aborted = "no" /\ Finished
  /\ SetFlags({}, {"finished"})
  /\ inDone' = FALSE
  /\ UNCHANGED <<outData, inData, content, checked, pushes, aborted>>

\* ISink::Prepare, and NullSink::Prepare on a pipe's sink: the sink's input_ is a copy of the
\* port made before Connect, so it has no State; NullSink only closes the copy.
SinkPrepare ==
  /\ aborted = "no"
  /\ aborted' = "ISink::Prepare: null"
  /\ UNCHANGED <<word, outData, inData, content, inDone, checked, pushes>>

-----------------------------------------------------------------------------
PortInit ==
  /\ word = [data |-> 1, flags |-> {}]
  /\ outData = 2 /\ inData = 3
  /\ content = [d \in DataIds |-> NoData]
  /\ inDone = FALSE /\ checked = [out |-> FALSE, in |-> FALSE]
  /\ pushes = 0 /\ aborted = "no"

PortNext ==
  \/ CheckCanPush \/ Push \/ Finish
  \/ SetNeeded \/ SetNotNeeded \/ CheckHasData \/ IsFinished \/ Close \/ Reopen \/ SinkPrepare
  \/ \E b \in BOOLEAN : Pull(b)

PortSpec == PortInit /\ [][PortNext]_portVars

-----------------------------------------------------------------------------
\* However the flag calls of the consumer fall between the producer's CanPush and its Push: the
\* push finds the word without data, as its assertion says; a Data belongs to one of the word
\* and the two ports at a time, so the destructors free it once; and while the flag says there
\* is data, the chunk pushed last is in the word.
PortSound ==
  /\ aborted # "Push: data"
  /\ \A d \in DataIds : Cardinality({o \in {<<"word", word.data>>, <<"out", outData>>, <<"in", inData>>} : o[2] = d}) <= 1
  /\ "has_data" \in word.flags =>
       /\ pushes > 0
       /\ word.data # NoData => content[word.data] = pushes
=============================================================================
