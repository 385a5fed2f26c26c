--------------------------- MODULE RocksLabProofs ---------------------------
(***************************************************************************)
(* Proofs about two parts of rocksdb_lab. The blocking queue, for any sets *)
(* of threads and items and any capacities: type correctness, no lost      *)
(* wake-up in either direction, and the refinement of the first-in         *)
(* first-out channel. The documents (doc.cpp and advanced_doc.h), for any  *)
(* names, types and values: names, ids and fields agree, also when read    *)
(* back, and a built document is serialized completely.                    *)
(***************************************************************************)
EXTENDS BlockingQueue, Documents, AdvancedDocs, SeqLemmas, FiniteSetTheorems, TLAPS

-----------------------------------------------------------------------------
(* The blocking queue *)


\* Only threads inside a blocking call sleep, and a thread of each role only
\* makes the calls of its role.
Roles ==
  /\ \A p \in Producers : op[p] \in {"Idle", "Put"}
  /\ \A c \in Consumers : op[c] \in {"Idle", "Take"}
  /\ \A o \in Observers : op[o] \in {"Idle", "Front", "Back"}
  /\ \A t \in asleep : op[t] # "Idle"

IInv == TypeOK /\ Roles /\ NoTakerSleepsOnItem /\ NoPutterSleepsOnEmpty

\* Every step of the queue preserves the types of its state.
LEMMA TypeInductive == TypeOK /\ [Next]_vars => TypeOK'
<1> SUFFICES ASSUME TypeOK, [Next]_vars PROVE TypeOK'
  OBVIOUS
<1> USE DEF TypeOK, Ops
<1>1. ASSUME NEW p \in Producers, Put(p) PROVE TypeOK'
  <2>1. p \in Threads BY DEF Threads
  <2>2. CASE Sleep(p) BY <2>1, <2>2 DEF Sleep
  <2>3. CASE ~Sleep(p)
    <3>1. /\ queue_' = Append(queue_, arg[p])
          /\ puts' = Append(puts, arg[p])
          /\ asleep' \subseteq asleep
          /\ op' = [op EXCEPT ![p] = "Idle"]
          /\ UNCHANGED <<capacity_, arg, taken>>
      BY <1>1, <2>3 DEF Put, Return, NotifyEmpty
    <3>2. arg[p] \in Items
      OBVIOUS
    <3> QED BY <3>1, <3>2, <2>1
  <2> QED BY <2>2, <2>3
<1>2. ASSUME NEW p \in Producers, NEW x \in Items, CallPut(p, x)
      PROVE TypeOK'
  BY <1>2 DEF CallPut, Call, Threads
<1>3. ASSUME NEW c \in Consumers, CallTake(c) PROVE TypeOK'
  BY <1>3 DEF CallTake, Call, Threads
<1>4. ASSUME NEW c \in Consumers, Take(c) PROVE TypeOK'
  <2>1. c \in Threads BY DEF Threads
  <2>2. CASE Sleep(c) BY <2>1, <2>2 DEF Sleep
  <2>3. CASE ~Sleep(c)
    <3>1. /\ queue_ # <<>>
          /\ taken' = Append(taken, Head(queue_))
          /\ queue_' = Tail(queue_)
          /\ asleep' \subseteq asleep
          /\ op' = [op EXCEPT ![c] = "Idle"]
          /\ UNCHANGED <<capacity_, arg, puts>>
      BY <1>4, <2>3 DEF Take, Return, NotifyFull, Empty
    <3>2. Head(queue_) \in Items /\ Tail(queue_) \in Seq(Items)
      BY <3>1, HeadTailProperties
    <3> QED BY <3>1, <3>2, <2>1
  <2> QED BY <2>2, <2>3
<1>5. ASSUME NEW o \in Observers, CallPeek(o) PROVE TypeOK'
  BY <1>5 DEF CallPeek, Call, Threads
<1>6. ASSUME NEW o \in Observers, Peek(o) PROVE TypeOK'
  BY <1>6 DEF Peek, Sleep, Return, Threads
<1>7. ASSUME NEW n \in Capacities, SetCapacity(n) PROVE TypeOK'
  BY <1>7, CapacityAssumption DEF SetCapacity
<1>8. ASSUME NEW t \in Threads, SpuriousWakeup(t) PROVE TypeOK'
  BY <1>8 DEF SpuriousWakeup
<1>9. CASE UNCHANGED vars BY <1>9 DEF vars
<1> QED
  BY <1>1, <1>2, <1>3, <1>4, <1>5, <1>6, <1>7, <1>8, <1>9 DEF Next

\* Every queue state the code can reach is well typed; in particular
\* capacity_ never becomes 0, whatever SetCapacity is called with.
THEOREM TypeCorrect == Spec => []TypeOK
<1>1. Init => TypeOK
  BY CapacityAssumption DEF Init, TypeOK, Ops
<1>2. TypeOK /\ [Next]_vars => TypeOK'
  BY TypeInductive
<1> QED BY <1>1, <1>2, PTL DEF Spec

-----------------------------------------------------------------------------
\* Who may be asleep, and on which condition variable.
LEMMA RolesInductive == TypeOK /\ Roles /\ [Next]_vars => Roles'
<1> SUFFICES ASSUME TypeOK, Roles, [Next]_vars PROVE Roles'
  OBVIOUS
<1> USE DEF Roles
<1>0. op \in [Threads -> Ops] /\ asleep \subseteq Threads
  BY DEF TypeOK
<1>1. ASSUME NEW t \in Threads, t \notin asleep, op[t] # "Idle", Sleep(t)
      PROVE Roles'
  BY <1>0, <1>1 DEF Sleep
<1>2. ASSUME NEW t \in Threads, t \notin asleep, Return(t),
             asleep' \subseteq asleep
      PROVE Roles'
  BY <1>0, <1>2, ThreadAssumption DEF Return, Threads
<1>3. ASSUME NEW p \in Producers, Put(p) PROVE Roles'
  BY <1>1, <1>2, <1>3 DEF Put, NotifyEmpty, Threads
<1>4. ASSUME NEW c \in Consumers, Take(c) PROVE Roles'
  BY <1>1, <1>2, <1>4 DEF Take, NotifyFull, Threads
<1>5. ASSUME NEW o \in Observers, Peek(o) PROVE Roles'
  BY <1>1, <1>2, <1>5 DEF Peek, Threads
<1>6. ASSUME NEW p \in Producers, NEW x \in Items, CallPut(p, x)
      PROVE Roles'
  BY <1>0, <1>6, ThreadAssumption DEF CallPut, Call, Threads
<1>7. ASSUME NEW c \in Consumers, CallTake(c) PROVE Roles'
  BY <1>0, <1>7, ThreadAssumption DEF CallTake, Call, Threads
<1>8. ASSUME NEW o \in Observers, CallPeek(o) PROVE Roles'
  BY <1>0, <1>8, ThreadAssumption DEF CallPeek, Call, Threads
<1>9. ASSUME NEW n \in Capacities, SetCapacity(n) PROVE Roles'
  BY <1>9 DEF SetCapacity
<1>10. ASSUME NEW t \in Threads, SpuriousWakeup(t) PROVE Roles'
  BY <1>10 DEF SpuriousWakeup
<1>11. CASE UNCHANGED vars BY <1>11 DEF vars
<1> QED
  BY <1>3, <1>4, <1>5, <1>6, <1>7, <1>8, <1>9, <1>10, <1>11 DEF Next

-----------------------------------------------------------------------------
\* One step of the queue loses no wake-up.  A push wakes every taker; a take
\* finds no taker asleep (the queue was not empty) and wakes every putter.
LEMMA WakeupsInductive ==
  IInv /\ TypeOK' /\ [Next]_vars
    => NoTakerSleepsOnItem' /\ NoPutterSleepsOnEmpty'
<1> SUFFICES ASSUME IInv, TypeOK', [Next]_vars
             PROVE NoTakerSleepsOnItem' /\ NoPutterSleepsOnEmpty'
  OBVIOUS
<1> DEFINE Goal == NoTakerSleepsOnItem' /\ NoPutterSleepsOnEmpty'
<1> USE DEF IInv, NoTakerSleepsOnItem, NoPutterSleepsOnEmpty, WaitsOnFull,
            Empty
<1>0. /\ op \in [Threads -> Ops] /\ asleep \subseteq Threads
      /\ queue_ \in Seq(Items) /\ capacity_ \in Nat \ {0}
  BY DEF TypeOK
<1>1. ASSUME NEW p \in Producers, Put(p) PROVE Goal
  <2>1. CASE ~CanPut /\ Sleep(p)
    <3>1. queue_ # <<>>
      BY <1>0, <2>1 DEF CanPut, Size
    <3> QED BY <1>1, <2>1, <3>1 DEF Sleep, Put
  <2>2. CASE ~(~CanPut /\ Sleep(p))
    <3>1. /\ queue_' = Append(queue_, arg[p])
          /\ asleep' = {t \in asleep : op[t] = "Put"}
          /\ op' = [op EXCEPT ![p] = "Idle"]
          /\ p \notin asleep
      BY <1>1, <2>2 DEF Put, Return, NotifyEmpty
    <3>2. queue_' # <<>>
      <4>1. arg[p] \in Items
        BY DEF TypeOK
      <4> QED BY <1>0, <3>1, <4>1, AppendProperties
    <3>3. \A t \in asleep' : op'[t] = "Put"
      BY <1>0, <3>1
    <3> QED BY <3>2, <3>3
  <2> QED BY <1>1, <2>1, <2>2 DEF Put
<1>2. ASSUME NEW c \in Consumers, Take(c) PROVE Goal
  <2>1. CASE queue_ = <<>>
    <3>1. Sleep(c) /\ op[c] = "Take"
      BY <1>2, <2>1 DEF Take
    <3> QED BY <2>1, <3>1 DEF Sleep
  <2>2. CASE queue_ # <<>>
    <3>1. asleep' = {t \in asleep : op[t] # "Put"}
      BY <1>2, <2>2 DEF Take, NotifyFull
    <3>2. asleep' = {}
      BY <2>2, <3>1
    <3> QED BY <3>2
  <2> QED BY <2>1, <2>2
<1>3. ASSUME NEW o \in Observers, Peek(o) PROVE Goal
  <2>1. CASE queue_ = <<>>
    BY <1>3, <2>1 DEF Peek, Sleep
  <2>2. CASE queue_ # <<>>
    BY <1>0, <1>3, <2>2 DEF Peek, Return
  <2> QED BY <2>1, <2>2
<1>4. ASSUME NEW t \in Threads, NEW name \in Ops, Call(t, name),
             UNCHANGED <<queue_, asleep>>
      PROVE Goal
  <2>1. t \notin asleep
    BY <1>4 DEF Call, Roles
  <2> QED BY <1>0, <1>4, <2>1 DEF Call
<1>5. ASSUME NEW p \in Producers, NEW x \in Items, CallPut(p, x) PROVE Goal
  BY <1>4, <1>5 DEF CallPut, Threads, Ops
<1>6. ASSUME NEW c \in Consumers, CallTake(c) PROVE Goal
  BY <1>4, <1>6 DEF CallTake, Threads, Ops
<1>7. ASSUME NEW o \in Observers, CallPeek(o) PROVE Goal
  BY <1>4, <1>7 DEF CallPeek, Threads, Ops
<1>8. ASSUME NEW n \in Capacities, SetCapacity(n) PROVE Goal
  BY <1>8 DEF SetCapacity
<1>9. ASSUME NEW t \in Threads, SpuriousWakeup(t) PROVE Goal
  BY <1>9 DEF SpuriousWakeup
<1>10. CASE UNCHANGED vars BY <1>10 DEF vars
<1> QED
  BY <1>1, <1>2, <1>3, <1>5, <1>6, <1>7, <1>8, <1>9, <1>10 DEF Next

\* No wake-up is lost: while an item is queued no thread sleeps in Take,
\* Front or Back, and while the queue is empty no thread sleeps in Put.
THEOREM NoLostWakeup == Spec => []WakeupsKept
<1>1. Init => IInv
  <2>1. Init => TypeOK
    BY CapacityAssumption DEF Init, TypeOK, Ops
  <2> QED
    BY <2>1 DEF Init, IInv, Roles, NoTakerSleepsOnItem, NoPutterSleepsOnEmpty,
                Threads
<1>2. IInv /\ [Next]_vars => IInv'
  BY TypeInductive, RolesInductive, WakeupsInductive DEF IInv
<1>3. IInv => WakeupsKept
  BY DEF IInv, WakeupsKept
<1> QED BY <1>1, <1>2, <1>3, PTL DEF Spec

-----------------------------------------------------------------------------
\* What the queue has received is what it has delivered followed by what it
\* still holds.
LEMMA ConservationInductive ==
  TypeOK /\ Conservation /\ [Next]_vars => Conservation'
<1> SUFFICES ASSUME TypeOK, Conservation, [Next]_vars PROVE Conservation'
  OBVIOUS
<1> USE DEF Conservation
<1>0. queue_ \in Seq(Items) /\ taken \in Seq(Items)
  BY DEF TypeOK
<1>1. ASSUME UNCHANGED <<queue_, puts, taken>> PROVE Conservation'
  BY <1>1
<1>2. ASSUME NEW p \in Producers, Put(p) PROVE Conservation'
  <2>1. CASE Sleep(p) BY <1>1, <2>1 DEF Sleep
  <2>2. CASE ~Sleep(p)
    <3>1. /\ queue_' = Append(queue_, arg[p])
          /\ puts' = Append(puts, arg[p])
          /\ taken' = taken
      BY <1>2, <2>2 DEF Put
    <3>2. arg[p] \in Items
      BY DEF TypeOK
    <3>3. taken \o Append(queue_, arg[p]) = Append(taken \o queue_, arg[p])
      BY <1>0, <3>2, ConcatAppend
    <3> QED BY <3>1, <3>3
  <2> QED BY <2>1, <2>2
<1>3. ASSUME NEW c \in Consumers, Take(c) PROVE Conservation'
  <2>1. CASE Sleep(c) BY <1>1, <2>1 DEF Sleep
  <2>2. CASE ~Sleep(c)
    <3>1. /\ queue_ # <<>>
          /\ taken' = Append(taken, Head(queue_))
          /\ queue_' = Tail(queue_)
          /\ puts' = puts
      BY <1>3, <2>2 DEF Take, Empty
    <3> QED BY <1>0, <3>1, ConcatTake
  <2> QED BY <2>1, <2>2
<1>4. ASSUME NEW o \in Observers, CallPeek(o) \/ Peek(o) PROVE Conservation'
  BY <1>1, <1>4 DEF CallPeek, Peek, Sleep
<1>5. ASSUME NEW n \in Capacities, SetCapacity(n) PROVE Conservation'
  BY <1>1, <1>5 DEF SetCapacity
<1>6. ASSUME NEW t \in Threads, SpuriousWakeup(t) PROVE Conservation'
  BY <1>1, <1>6 DEF SpuriousWakeup
<1>7. ASSUME NEW p \in Producers, NEW x \in Items, CallPut(p, x)
      PROVE Conservation'
  BY <1>1, <1>7 DEF CallPut
<1>8. ASSUME NEW c \in Consumers, CallTake(c) PROVE Conservation'
  BY <1>1, <1>8 DEF CallTake
<1>9. CASE UNCHANGED vars BY <1>1, <1>9 DEF vars
<1> QED BY <1>2, <1>3, <1>4, <1>5, <1>6, <1>7, <1>8, <1>9 DEF Next

\* Nothing is lost, duplicated or reordered between Put and Take.
THEOREM NothingLost == Spec => []Conservation
<1>1. Init => Conservation
  BY EmptySeq, ConcatEmptySeq DEF Init, Conservation
<1>2. TypeOK /\ Conservation /\ [Next]_vars => Conservation'
  BY ConservationInductive
<1>3. Spec => []TypeOK
  BY TypeCorrect
<1> QED BY <1>1, <1>2, <1>3, PTL DEF Spec

-----------------------------------------------------------------------------
\* A step of the queue is a Send, a Receive or a stutter of the channel.
LEMMA StepRefines ==
  TypeOK /\ Conservation /\ [Next]_vars
    => [Channel!Next]_<<puts, taken>>
<1> SUFFICES ASSUME TypeOK, Conservation, [Next]_vars
             PROVE [Channel!Next]_<<puts, taken>>
  OBVIOUS
<1>0. queue_ \in Seq(Items) /\ taken \in Seq(Items)
  BY DEF TypeOK
<1> DEFINE Goal == [Channel!Next]_<<puts, taken>>
<1>1. ASSUME UNCHANGED <<puts, taken>> PROVE Goal
  BY <1>1
<1>2. ASSUME NEW p \in Producers, Put(p) PROVE Goal
  <2>1. CASE Sleep(p) BY <1>1, <2>1 DEF Sleep
  <2>2. CASE ~Sleep(p)
    <3>1. arg[p] \in Items
      BY DEF TypeOK
    <3>2. Channel!Send(arg[p])
      BY <1>2, <2>2 DEF Put, Channel!Send
    <3> QED BY <3>1, <3>2 DEF Channel!Next
  <2> QED BY <2>1, <2>2
<1>3. ASSUME NEW c \in Consumers, Take(c) PROVE Goal
  <2>1. CASE Sleep(c) BY <1>1, <2>1 DEF Sleep
  <2>2. CASE ~Sleep(c)
    <3>1. /\ queue_ # <<>>
          /\ taken' = Append(taken, Head(queue_))
          /\ puts' = puts
      BY <1>3, <2>2 DEF Take, Empty
    <3>2. /\ Len(puts) = Len(taken) + Len(queue_)
          /\ Len(queue_) > 0
          /\ Len(taken) \in Nat
      BY <1>0, <3>1, ConcatProperties, LenProperties, EmptySeq
         DEF Conservation
    <3>3. puts[Len(taken) + 1] = Head(queue_)
      <4>1. Head(queue_) = queue_[1]
        BY <1>0, <3>1, HeadTailProperties
      <4> QED
        BY <1>0, <3>2, <4>1, ConcatProperties, LenProperties DEF Conservation
    <3>4. Channel!Receive
      BY <3>1, <3>2, <3>3 DEF Channel!Receive
    <3> QED BY <3>4 DEF Channel!Next
  <2> QED BY <2>1, <2>2
<1>4. ASSUME NEW o \in Observers, CallPeek(o) \/ Peek(o) PROVE Goal
  BY <1>1, <1>4 DEF CallPeek, Peek, Sleep
<1>5. ASSUME NEW n \in Capacities, SetCapacity(n) PROVE Goal
  BY <1>1, <1>5 DEF SetCapacity
<1>6. ASSUME NEW t \in Threads, SpuriousWakeup(t) PROVE Goal
  BY <1>1, <1>6 DEF SpuriousWakeup
<1>7. ASSUME NEW p \in Producers, NEW x \in Items, CallPut(p, x) PROVE Goal
  BY <1>1, <1>7 DEF CallPut
<1>8. ASSUME NEW c \in Consumers, CallTake(c) PROVE Goal
  BY <1>1, <1>8 DEF CallTake
<1>9. CASE UNCHANGED vars BY <1>1, <1>9 DEF vars
<1> QED BY <1>2, <1>3, <1>4, <1>5, <1>6, <1>7, <1>8, <1>9 DEF Next

\* BlockingQueue implements the first-in first-out channel.
THEOREM RefinesChannel == Spec => ImplementsChannel
<1>1. Init => Channel!Init
  BY DEF Init, Channel!Init
<1>2. TypeOK /\ Conservation /\ [Next]_vars
        => [Channel!Next]_<<puts, taken>>
  BY StepRefines
<1> QED
  BY <1>1, <1>2, TypeCorrect, NothingLost, PTL
     DEF Spec, ImplementsChannel, Channel!Spec

-----------------------------------------------------------------------------
(* Documents of doc.cpp *)

\* How many names come before each.
Before(S, n) == {m \in S : m < n}
Ranks(S) == [n \in S |-> Cardinality(Before(S, n))]

\* A name comes after as many names as are smaller.
LEMMA RankFacts ==
  ASSUME NEW S, IsFiniteSet(S), S \subseteq Nat
  PROVE  /\ Cardinality(S) \in Nat /\ Ranks(S) \in [S -> 0 .. Cardinality(S) - 1]
         /\ \A m, n \in S : m < n => Ranks(S)[m] < Ranks(S)[n]
<1>1. PICK N \in Nat : N = Cardinality(S)
  BY FS_CardinalityType
<1>2. ASSUME NEW n \in S
      PROVE  IsFiniteSet(Before(S, n)) /\ Cardinality(Before(S, n)) \in 0 .. N - 1
  <2>1. PICK B : B = Before(S, n)
    OBVIOUS
  <2>2. B \in SUBSET S /\ n \notin B /\ B # S
    BY <2>1 DEF Before
  <2>3. IsFiniteSet(B) /\ Cardinality(B) <= N /\ Cardinality(B) # N /\ Cardinality(B) \in Nat
    BY <1>1, <2>2, FS_Subset, FS_CardinalityType
  <2> QED BY <2>1, <2>3
<1>3. ASSUME NEW m \in S, NEW n \in S, m < n
      PROVE  Cardinality(Before(S, m)) < Cardinality(Before(S, n))
  <2>1. PICK A, B : A = Before(S, m) /\ B = Before(S, n)
    OBVIOUS
  <2>2. m \in Nat /\ n \in Nat
    OBVIOUS
  <2>3. \A x \in A : x \in B
    <3>1. ASSUME NEW x \in A
          PROVE  x \in B
      <4>1. x \in S /\ x \in Nat /\ x < m
        BY <2>1 DEF Before
      <4>2. x < n
        BY <4>1, <2>2, <1>3
      <4> QED BY <2>1, <4>1, <4>2 DEF Before
    <3> QED BY <3>1
  <2>4. m \in B /\ m \notin A
    BY <1>3, <2>1, <2>2 DEF Before
  <2>5. IsFiniteSet(B) /\ Cardinality(B) \in Nat /\ Cardinality(A) \in Nat
    BY <1>2, <2>1
  <2>6. A \in SUBSET B /\ A # B
    BY <2>3, <2>4
  <2>7. Cardinality(A) <= Cardinality(B) /\ Cardinality(A) # Cardinality(B)
    BY <2>5, <2>6, FS_Subset
  <2> QED BY <2>1, <2>5, <2>7
<1> QED BY <1>1, <1>2, <1>3 DEF Ranks

\* The ranks are 0, 1, ...
LEMMA RankFound ==
  ASSUME NEW S, IsFiniteSet(S), S \subseteq Nat, NEW j \in 0 .. Cardinality(S) - 1
  PROVE  \E n \in S : Ranks(S)[n] = j
<1>1. PICK N \in Nat : N = Cardinality(S)
  BY FS_CardinalityType
<1>2. PICK f : f = Ranks(S)
  OBVIOUS
<1>3. f \in [S -> 0 .. N - 1] /\ \A m, n \in S : m < n => f[m] < f[n]
  BY <1>1, <1>2, RankFacts
<1>4. IsFiniteSet(0 .. N - 1) /\ Cardinality(0 .. N - 1) = N
  BY FS_Interval
<1>5. ASSUME NEW m \in S, NEW n \in S, f[m] = f[n]
      PROVE  m = n
  <2>1. m \in Nat /\ n \in Nat /\ f[m] \in Int
    BY <1>3
  <2>2. ~(m < n) /\ ~(n < m)
    BY <1>3, <1>5, <2>1
  <2> QED BY <2>1, <2>2
<1>6. f \in Injection(S, 0 .. N - 1)
  BY <1>3, <1>5 DEF Injection, IsInjective
<1>7. f \in Surjection(S, 0 .. N - 1)
  BY <1>1, <1>4, <1>6, FS_Injection
<1> QED BY <1>1, <1>2, <1>7 DEF Surjection

\* The names in their order: each once, ascending.
LEMMA OrderedFacts ==
  ASSUME NEW S, IsFiniteSet(S), S \subseteq Nat
  PROVE  /\ Cardinality(S) \in Nat /\ Ordered(S) \in Seq(S) /\ Len(Ordered(S)) = Cardinality(S) /\ Range(Ordered(S)) = S
         /\ \A i, j \in 1 .. Cardinality(S) : i < j => Ordered(S)[i] < Ordered(S)[j]
<1>1. PICK N \in Nat : N = Cardinality(S)
  BY FS_CardinalityType
<1>2. PICK f : f = Ranks(S)
  OBVIOUS
<1>3. f \in [S -> 0 .. N - 1] /\ \A m, n \in S : m < n => f[m] < f[n]
  BY <1>1, <1>2, RankFacts
<1>4. \A n \in S : f[n] = Cardinality({m \in S : m < n})
  BY <1>2 DEF Ranks, Before
<1>5. PICK names : names = Ordered(S)
  OBVIOUS
<1>6. ASSUME NEW i \in 1 .. N
      PROVE  names[i] \in S /\ f[names[i]] = i - 1
  <2>1. i - 1 \in 0 .. N - 1
    BY <1>1
  <2>2. \E n \in S : f[n] = i - 1
    BY <1>1, <1>2, <2>1, RankFound
  <2>3. names[i] = CHOOSE n \in S : Cardinality({m \in S : m < n}) = i - 1
    BY <1>1, <1>5 DEF Ordered
  <2> QED BY <1>4, <2>2, <2>3
<1>7. names \in [1 .. N -> S]
  BY <1>1, <1>5, <1>6 DEF Ordered
<1>8. ASSUME NEW i \in 1 .. N, NEW j \in 1 .. N, i < j
      PROVE  names[i] < names[j]
  <2>1. PICK a \in Nat, b \in Nat : a = names[i] /\ b = names[j] /\ a \in S /\ b \in S /\ f[a] = i - 1 /\ f[b] = j - 1
    BY <1>6
  <2>2. ~(b < a) /\ a # b
    BY <1>3, <1>8, <2>1
  <2> QED BY <2>1, <2>2
<1>9. ASSUME NEW n \in S
      PROVE  n \in Range(names)
  <2>1. PICK i \in 1 .. N : f[n] = i - 1
    <3>1. f[n] \in 0 .. N - 1
      BY <1>3
    <3>2. f[n] + 1 \in 1 .. N /\ f[n] = (f[n] + 1) - 1
      BY <3>1
    <3> QED BY <3>2
  <2>2. PICK a \in Nat, b \in Nat : a = names[i] /\ b = n /\ a \in S /\ b \in S /\ f[a] = i - 1 /\ f[b] = i - 1
    BY <1>6, <2>1
  <2>3. ~(a < b) /\ ~(b < a)
    BY <1>3, <2>2
  <2>4. a = b
    BY <2>3
  <2> QED BY <1>7, <2>2, <2>4 DEF Range
<1>10. Range(names) = S
  BY <1>7, <1>9 DEF Range
<1>11. names \in Seq(S) /\ Len(names) = N
  BY <1>7
<1> QED BY <1>1, <1>5, <1>8, <1>10, <1>11

Entries == FieldNames \X (DocValues \cup {0})

\* A schema is a record, and its fields are kept by type.
Shape(s) ==
  /\ s = [where |-> s.where, fields |-> s.fields, names |-> s.names, types |-> s.types, fixed |-> s.fixed]
  /\ s.fields \in [FieldTypes -> Seq(Entries)] /\ s.fixed \in BOOLEAN

\* Names and fields lead to each other; the ids are those of Build.
SchemaOK(s) ==
  /\ Shape(s)
  /\ IsFiniteSet(DOMAIN s.where) /\ DOMAIN s.where \subseteq FieldNames
  /\ \A n \in DOMAIN s.where : s.where[n] \in FieldTypes \X Nat /\ s.where[n][2] < Len(s.fields[s.where[n][1]])
                               /\ s.fields[s.where[n][1]][s.where[n][2] + 1][1] = n
  /\ \A t \in FieldTypes : \A k \in DOMAIN s.fields[t] :
       s.fields[t][k][1] \in DOMAIN s.where /\ s.where[s.fields[t][k][1]] = <<t, k - 1>>
  /\ ~s.fixed => s.names = <<>> /\ s.types = <<>>
  /\ s.fixed => s.names = Ordered(DOMAIN s.where) /\ s.types = [i \in DOMAIN s.names |-> s.where[s.names[i]][1]]

\* The schema that DocSchema starts with.
LEMMA EmptySchemaFacts ==
  ASSUME NEW s, s = EmptySchema
  PROVE  SchemaOK(s) /\ DOMAIN s.where = {} /\ s.fixed = FALSE
<1>1. PICK b : b = <<>>
  OBVIOUS
<1>2. b \in Seq(Entries) /\ DOMAIN b = {}
  BY <1>1
<1>3. PICK w : w = [n \in {} |-> <<0, 0>>]
  OBVIOUS
<1>4. PICK f : f = [t \in FieldTypes |-> b]
  OBVIOUS
<1>5. s = [where |-> w, fields |-> f, names |-> b, types |-> b, fixed |-> FALSE]
  BY <1>1, <1>3, <1>4 DEF EmptySchema
<1>6. s.where = w /\ s.fields = f /\ s.names = b /\ s.types = b /\ s.fixed = FALSE /\ DOMAIN w = {}
  BY <1>3, <1>5
<1>7. Shape(s)
  BY <1>2, <1>4, <1>5, <1>6 DEF Shape
<1>8. \A t \in FieldTypes : DOMAIN s.fields[t] = {}
  BY <1>2, <1>4, <1>6
<1> QED BY <1>1, <1>6, <1>7, <1>8, FS_EmptySet DEF SchemaOK

\* What AddXField changes.
GoesTo(s, n, t, v, r) ==
  /\ Shape(r) /\ r.names = s.names /\ r.types = s.types /\ r.fixed = s.fixed
  /\ r.where = [m \in DOMAIN s.where \cup {n} |-> IF m = n THEN <<t, Len(s.fields[t])>> ELSE s.where[m]]
  /\ r.fields = [s.fields EXCEPT ![t] = Append(s.fields[t], <<n, v>>)]

LEMMA AddFieldParts ==
  ASSUME NEW s, Shape(s), NEW n \in FieldNames, NEW t \in FieldTypes, NEW v \in DocValues \cup {0}, PreAddCheck(s, n),
         NEW r, r = AddField(s, n, t, v)
  PROVE  GoesTo(s, n, t, v, r)
<1>1. PICK w : w = [m \in DOMAIN s.where \cup {n} |-> IF m = n THEN <<t, Len(s.fields[t])>> ELSE s.where[m]]
  OBVIOUS
<1>2. PICK f : f = [s.fields EXCEPT ![t] = Append(s.fields[t], <<n, v>>)]
  OBVIOUS
<1>4. r = [s EXCEPT !.where = w, !.fields = f]
  BY <1>1, <1>2 DEF AddField
<1>5. r.where = w /\ r.fields = f /\ r.names = s.names /\ r.types = s.types /\ r.fixed = s.fixed
      /\ r = [where |-> w, fields |-> f, names |-> s.names, types |-> s.types, fixed |-> s.fixed]
  BY <1>4 DEF Shape
<1>6. f \in [FieldTypes -> Seq(Entries)]
  <2>1. PICK e : e = <<n, v>>
    OBVIOUS
  <2>2. e \in Entries
    BY <2>1 DEF Entries
  <2>3. Append(s.fields[t], e) \in Seq(Entries)
    BY <2>2 DEF Shape
  <2> QED BY <1>2, <2>1, <2>3 DEF Shape
<1>7. Shape(r)
  BY <1>5, <1>6 DEF Shape
<1> QED BY <1>1, <1>2, <1>5, <1>7 DEF GoesTo

\* AddXField keeps what is there; once built, it changes nothing.
LEMMA FieldAdded ==
  ASSUME NEW s, SchemaOK(s), NEW n \in FieldNames, NEW t \in FieldTypes, NEW v \in DocValues \cup {0}, NEW r, r = AddField(s, n, t, v)
  PROVE  /\ SchemaOK(r) /\ r.fixed = s.fixed /\ (s.fixed => r = s)
         /\ \A m \in DOMAIN s.where : /\ m \in DOMAIN r.where /\ r.where[m] = s.where[m]
                                      /\ r.fields[s.where[m][1]][s.where[m][2] + 1] = s.fields[s.where[m][1]][s.where[m][2] + 1]
         /\ DOMAIN r.where \subseteq DOMAIN s.where \cup {n} /\ (~s.fixed => n \in DOMAIN r.where)
<1>1. CASE ~PreAddCheck(s, n)
  <2>1. r = s
    BY <1>1 DEF AddField
  <2> QED BY <1>1, <2>1 DEF PreAddCheck
<1>2. CASE PreAddCheck(s, n)
  <2>1. PICK L \in Nat : L = Len(s.fields[t])
    BY DEF SchemaOK, Shape
  <2>2. PICK old \in Seq(Entries) : old = s.fields[t]
    BY DEF SchemaOK, Shape
  <2>3. PICK e : e = <<n, v>>
    OBVIOUS
  <2>4. PICK new : new = Append(old, e)
    OBVIOUS
  <2>5. e \in Entries /\ e[1] = n
    BY <2>3 DEF Entries
  <2>6. /\ new \in Seq(Entries) /\ Len(new) = L + 1 /\ DOMAIN new = DOMAIN old \cup {L + 1} /\ new[L + 1] = e /\ DOMAIN old = 1 .. L
        /\ \A k \in 1 .. L : new[k] = old[k]
    BY <2>1, <2>2, <2>4, <2>5
  <2>7. /\ Shape(r) /\ r.names = s.names /\ r.types = s.types /\ r.fixed = s.fixed /\ s.fixed = FALSE /\ n \notin DOMAIN s.where
        /\ r.where = [m \in DOMAIN s.where \cup {n} |-> IF m = n THEN <<t, L>> ELSE s.where[m]]
        /\ r.fields = [s.fields EXCEPT ![t] = new]
    <3>1. Shape(s) /\ ~s.fixed /\ s.fixed \in BOOLEAN /\ n \notin DOMAIN s.where
      BY <1>2 DEF PreAddCheck, SchemaOK, Shape
    <3>2. GoesTo(s, n, t, v, r)
      BY <1>2, <3>1, AddFieldParts
    <3> QED BY <2>1, <2>2, <2>3, <2>4, <3>1, <3>2 DEF GoesTo
  <2>8. /\ DOMAIN r.where = DOMAIN s.where \cup {n} /\ r.where[n] = <<t, L>> /\ \A m \in DOMAIN s.where : m # n /\ r.where[m] = s.where[m]
        /\ r.fields[t] = new /\ \A u \in FieldTypes : u # t => r.fields[u] = s.fields[u]
    BY <2>7 DEF SchemaOK, Shape
  <2>9. IsFiniteSet(DOMAIN r.where) /\ DOMAIN r.where \subseteq FieldNames
    BY <2>8, FS_AddElement DEF SchemaOK
  <2>10. ASSUME NEW m \in DOMAIN s.where
         PROVE  /\ r.where[m] = s.where[m] /\ s.where[m] \in FieldTypes \X Nat /\ s.where[m][2] < Len(r.fields[s.where[m][1]])
                /\ r.fields[s.where[m][1]][s.where[m][2] + 1] = s.fields[s.where[m][1]][s.where[m][2] + 1]
                /\ s.fields[s.where[m][1]][s.where[m][2] + 1][1] = m
    <3>1. PICK u \in FieldTypes, k \in Nat : s.where[m] = <<u, k>>
      BY DEF SchemaOK
    <3>2. s.where[m][1] = u /\ s.where[m][2] = k
      BY <3>1
    <3>3. k < Len(s.fields[u]) /\ s.fields[u][k + 1][1] = m
      BY <3>2 DEF SchemaOK
    <3>4. k < Len(r.fields[u]) /\ r.fields[u][k + 1] = s.fields[u][k + 1]
      <4>1. CASE u = t
        <5>1. k < L /\ k + 1 \in 1 .. L
          BY <3>3, <4>1, <2>1
        <5>2. k < L + 1 /\ new[k + 1] = old[k + 1]
          BY <5>1, <2>6
        <5> QED BY <5>2, <4>1, <2>2, <2>6, <2>8
      <4>2. CASE u # t
        BY <3>3, <4>2, <2>8
      <4> QED BY <4>1, <4>2
    <3> QED BY <3>1, <3>2, <3>3, <3>4, <2>8
  <2>11. /\ r.where[n] \in FieldTypes \X Nat /\ r.where[n][1] = t /\ r.where[n][2] = L /\ L < Len(r.fields[t]) /\ r.fields[t][L + 1][1] = n
    BY <2>5, <2>6, <2>8
  <2>12. \A m \in DOMAIN r.where : r.where[m] \in FieldTypes \X Nat /\ r.where[m][2] < Len(r.fields[r.where[m][1]])
                                   /\ r.fields[r.where[m][1]][r.where[m][2] + 1][1] = m
    <3>1. ASSUME NEW m \in DOMAIN s.where
          PROVE  r.where[m] \in FieldTypes \X Nat /\ r.where[m][2] < Len(r.fields[r.where[m][1]])
                 /\ r.fields[r.where[m][1]][r.where[m][2] + 1][1] = m
      <4>1. m \in DOMAIN s.where
        OBVIOUS
      <4> QED BY ONLY <2>10, <4>1
    <3>2. r.where[n] \in FieldTypes \X Nat /\ r.where[n][2] < Len(r.fields[r.where[n][1]])
          /\ r.fields[r.where[n][1]][r.where[n][2] + 1][1] = n
      BY <2>11
    <3>3. \A m \in DOMAIN r.where : m \in DOMAIN s.where \/ m = n
      BY <2>8
    <3> QED BY <3>1, <3>2, <3>3
  <2>13. ASSUME NEW u \in FieldTypes, NEW k \in DOMAIN r.fields[u]
         PROVE  r.fields[u][k][1] \in DOMAIN r.where /\ r.where[r.fields[u][k][1]] = <<u, k - 1>>
    <3>1. CASE u = t /\ k = L + 1
      BY <2>5, <2>6, <2>8, <3>1
    <3>2. CASE u = t /\ k # L + 1
      <4>1. k \in DOMAIN s.fields[t] /\ r.fields[u][k] = s.fields[t][k]
        BY <2>2, <2>6, <2>8, <3>2
      <4>2. s.fields[t][k][1] \in DOMAIN s.where /\ s.where[s.fields[t][k][1]] = <<t, k - 1>>
        BY <4>1 DEF SchemaOK
      <4> QED BY <2>8, <3>2, <4>1, <4>2
    <3>3. CASE u # t
      <4>1. k \in DOMAIN s.fields[u] /\ r.fields[u][k] = s.fields[u][k]
        BY <2>8, <3>3
      <4>2. s.fields[u][k][1] \in DOMAIN s.where /\ s.where[s.fields[u][k][1]] = <<u, k - 1>>
        BY <4>1 DEF SchemaOK
      <4> QED BY <2>8, <4>1, <4>2
    <3> QED BY <3>1, <3>2, <3>3
  <2>14. SchemaOK(r)
    BY <2>7, <2>9, <2>12, <2>13 DEF SchemaOK
  <2> QED BY <2>7, <2>8, <2>10, <2>14
<1> QED BY <1>1, <1>2

\* Build numbers the fields and nothing else.
LEMMA IdsBuilt ==
  ASSUME NEW s, SchemaOK(s), NEW r, r = BuildIds(s)
  PROVE  SchemaOK(r) /\ r.fixed = TRUE /\ r.where = s.where /\ r.fields = s.fields /\ (s.fixed => r = s)
<1>1. CASE s.fixed
  BY <1>1 DEF BuildIds, SchemaOK, Shape
<1>2. CASE ~s.fixed
  <2>1. PICK names : names = Ordered(DOMAIN s.where)
    OBVIOUS
  <2>2. PICK types : types = [i \in DOMAIN names |-> s.where[names[i]][1]]
    OBVIOUS
  <2>3. names \in Seq(DOMAIN s.where)
    BY <2>1, OrderedFacts, DocAssumption DEF SchemaOK
  <2>4. types \in Seq(FieldTypes)
    <3>1. \A i \in DOMAIN names : s.where[names[i]][1] \in FieldTypes
      BY <2>3 DEF SchemaOK
    <3>2. types \in [1 .. Len(names) -> FieldTypes]
      BY <2>2, <2>3, <3>1
    <3> QED BY <3>2, <2>3
  <2>5. s.types = <<>> /\ <<>> \o types = types
    BY <1>2, <2>4, ConcatEmptySeq DEF SchemaOK
  <2>6. r = [s EXCEPT !.names = names, !.types = types, !.fixed = TRUE]
    BY <1>2, <2>1, <2>2, <2>5 DEF BuildIds
  <2>7. /\ r.where = s.where /\ r.fields = s.fields /\ r.names = names /\ r.types = types /\ r.fixed = TRUE
        /\ r = [where |-> s.where, fields |-> s.fields, names |-> names, types |-> types, fixed |-> TRUE]
    BY <2>6 DEF SchemaOK, Shape
  <2>8. Shape(r)
    BY <2>7 DEF SchemaOK, Shape
  <2>9. r.names = Ordered(DOMAIN r.where) /\ r.types = [i \in DOMAIN r.names |-> r.where[r.names[i]][1]]
    BY <2>1, <2>2, <2>7
  <2>10. SchemaOK(r)
    <3>1. IsFiniteSet(DOMAIN r.where) /\ DOMAIN r.where \subseteq FieldNames
      BY <2>7 DEF SchemaOK
    <3>2. \A n \in DOMAIN r.where : r.where[n] \in FieldTypes \X Nat /\ r.where[n][2] < Len(r.fields[r.where[n][1]])
                                   /\ r.fields[r.where[n][1]][r.where[n][2] + 1][1] = n
      BY <2>7 DEF SchemaOK
    <3>3. \A t \in FieldTypes : \A k \in DOMAIN r.fields[t] :
            r.fields[t][k][1] \in DOMAIN r.where /\ r.where[r.fields[t][k][1]] = <<t, k - 1>>
      BY <2>7 DEF SchemaOK
    <3> QED BY ONLY <2>7, <2>8, <2>9, <3>1, <3>2, <3>3 DEF SchemaOK
  <2> QED BY <1>2, <2>7, <2>10
<1> QED BY <1>1, <1>2

\* Reading back adds the fields in the order of their names and builds: the same names and types.
LEMMA ReadBack ==
  ASSUME NEW s, SchemaOK(s), s.fixed, SizesFit(s), NEW r, r = DeserializeSchema(SerializeSchema(s))
  PROVE  r.names = s.names /\ r.types = s.types /\ r.fixed = TRUE
<1>1. /\ IsFiniteSet(DOMAIN s.where) /\ DOMAIN s.where \subseteq Nat /\ DOMAIN s.where \subseteq FieldNames
      /\ s.names = Ordered(DOMAIN s.where) /\ s.types = [i \in DOMAIN s.names |-> s.where[s.names[i]][1]]
  BY DocAssumption DEF SchemaOK
<1>2. PICK n \in Nat : n = Cardinality(DOMAIN s.where)
  BY <1>1, FS_CardinalityType
<1>3. PICK names : names = s.names
  OBVIOUS
<1>4. /\ names \in Seq(DOMAIN s.where) /\ Len(names) = n /\ Range(names) = DOMAIN s.where
      /\ \A i, j \in 1 .. n : i < j => names[i] < names[j]
  BY <1>1, <1>2, <1>3, OrderedFacts
<1>5. DOMAIN names = 1 .. n /\ \A i \in 1 .. n : names[i] \in DOMAIN s.where /\ names[i] \in FieldNames /\ s.where[names[i]][1] \in FieldTypes
  <2>1. DOMAIN names = 1 .. n /\ \A i \in 1 .. n : names[i] \in DOMAIN s.where
    BY <1>4
  <2> QED BY <1>1, <2>1 DEF SchemaOK
<1>6. n % 2^ByteBits = n
  <2>1. PICK M \in Int : M = 2^ByteBits
    BY DocAssumption
  <2>2. n < M
    BY <1>3, <1>4, <2>1 DEF SizesFit
  <2>3. n % M = n
    BY <2>2
  <2> QED BY <2>1, <2>3
<1>7. PICK bytes : bytes = SerializeSchema(s)
  OBVIOUS
<1>8. bytes.count = n /\ \A k \in 1 .. n : bytes.fields[k].name = names[k] /\ bytes.fields[k].type = s.where[names[k]][1]
  BY <1>1, <1>2, <1>3, <1>5, <1>6, <1>7 DEF SerializeSchema
<1> DEFINE Add(k, x) == AddField(x, bytes.fields[k].name, bytes.fields[k].type, 0)
           Body(g) == [k \in 0 .. n |-> IF k = 0 THEN EmptySchema ELSE Add(k, g[k - 1])]
           Upto(g, k) == DOMAIN g = 0 .. k /\ g[0] = EmptySchema /\ \A i \in 1 .. k : g[i] = Add(i, g[i - 1])
           Q == {k \in Nat : \E g : Upto(g, k)}
<1> HIDE DEF Add
<1>9. 0 \in Q
  <2>1. PICK g : g = [i \in 0 .. 0 |-> EmptySchema]
    OBVIOUS
  <2>2. Upto(g, 0)
    BY <2>1
  <2> QED BY <2>2
<1>10. ASSUME NEW k \in Nat, k \in Q
       PROVE  k + 1 \in Q
  <2>1. PICK g : Upto(g, k)
    BY <1>10
  <2>2. PICK h : h = [i \in 0 .. k + 1 |-> IF i = k + 1 THEN Add(k + 1, g[k]) ELSE g[i]]
    OBVIOUS
  <2>3. ASSUME NEW i \in 1 .. k + 1
        PROVE  h[i] = Add(i, h[i - 1])
    <3>1. CASE i = k + 1
      <4>1. h[i] = Add(k + 1, g[k]) /\ h[i - 1] = g[k]
        BY <2>2, <3>1
      <4> QED BY <3>1, <4>1
    <3>2. CASE i # k + 1
      <4>1. i \in 1 .. k /\ h[i] = g[i] /\ h[i - 1] = g[i - 1]
        BY <2>2, <3>2
      <4> QED BY <2>1, <4>1
    <3> QED BY <3>1, <3>2
  <2>4. Upto(h, k + 1)
    BY <2>1, <2>2, <2>3
  <2> QED BY <2>4
<1>11. \E g : Upto(g, n)
  <2>1. Nat \subseteq Q
    <3> HIDE DEF Q
    <3> QED BY <1>9, <1>10, SetInduction
  <2> QED BY <2>1
<1>12. \E g : g = Body(g)
  <2>1. PICK g : Upto(g, n)
    BY <1>11
  <2>2. PICK h : h = [k \in 0 .. n |-> g[k]]
    OBVIOUS
  <2>3. \A k \in 0 .. n : h[k] = IF k = 0 THEN EmptySchema ELSE Add(k, h[k - 1])
    BY <2>1, <2>2
  <2>4. h = Body(h)
    BY <2>2, <2>3
  <2> QED BY <2>4
<1>13. PICK read : read = CHOOSE g : g = Body(g)
  OBVIOUS
<1>14. read = Body(read)
  BY <1>12, <1>13
<1>15. r = BuildIds(read[n])
  <2>1. ASSUME NEW k \in 1 .. n
        PROVE  bytes.fields[k].size = NameSize[bytes.fields[k].name]
    <3>1. names[k] \in FieldNames /\ names[k] \in Range(names) /\ NameSize[names[k]] \in Nat
      BY <1>4, <1>5, DocAssumption
    <3>2. PICK z \in Nat : z = NameSize[names[k]]
      BY <3>1
    <3>3. PICK M \in Int : M = 2^ByteBits
      BY DocAssumption
    <3>4. z < M
      BY <1>3, <3>1, <3>2, <3>3 DEF SizesFit
    <3>5. z % M = z
      BY <3>4
    <3>6. bytes.fields[k].size = z % M
      BY <1>3, <1>5, <1>7, <3>2, <3>3 DEF SerializeSchema
    <3> QED BY <1>8, <3>2, <3>5, <3>6
  <2> QED BY <1>7, <1>8, <1>13, <2>1 DEF DeserializeSchema, Add
<1> DEFINE Good(k) == /\ SchemaOK(read[k]) /\ read[k].fixed = FALSE /\ DOMAIN read[k].where = {names[i] : i \in 1 .. k}
                      /\ \A i \in 1 .. k : read[k].where[names[i]][1] = s.where[names[i]][1]
           P == {k \in Nat : k <= n => Good(k)}
<1>16. 0 \in P
  <2>1. read[0] = EmptySchema
    BY <1>14
  <2>2. PICK c : c = read[0]
    OBVIOUS
  <2>3. SchemaOK(c) /\ c.fixed = FALSE /\ DOMAIN c.where = {}
    BY <2>1, <2>2, EmptySchemaFacts
  <2>4. {names[i] : i \in 1 .. 0} = {}
    OBVIOUS
  <2>5. Good(0)
    BY <2>2, <2>3, <2>4
  <2> QED BY <2>5
<1>17. ASSUME NEW k \in Nat, k \in P
       PROVE  k + 1 \in P
  <2>0. k \in Nat /\ (k <= n => Good(k))
    BY <1>17
  <2> HIDE DEF Good
  <2> SUFFICES ASSUME k + 1 <= n
               PROVE  Good(k + 1)
    OBVIOUS
  <2> USE DEF Good
  <2>1. PICK c : c = read[k]
    OBVIOUS
  <2>2. PICK m \in FieldNames, t \in FieldTypes : m = names[k + 1] /\ t = s.where[m][1]
    BY <1>5
  <2>3. PICK e : e = AddField(c, m, t, 0)
    OBVIOUS
  <2>4. read[k + 1] = e
    <3>1. read[k + 1] = Add(k + 1, read[k])
      BY <1>14
    <3> QED BY <1>8, <2>1, <2>2, <2>3, <3>1 DEF Add
  <2>5. /\ SchemaOK(c) /\ c.fixed = FALSE /\ DOMAIN c.where = {names[i] : i \in 1 .. k}
        /\ \A i \in 1 .. k : c.where[names[i]][1] = s.where[names[i]][1]
    BY <2>0, <2>1
  <2>6. m \notin DOMAIN c.where
    <3>1. ASSUME NEW i \in 1 .. k
          PROVE  names[i] # m
      <4>1. i \in 1 .. n /\ k + 1 \in 1 .. n /\ i < k + 1
        OBVIOUS
      <4>2. names[i] < m
        BY <1>4, <2>2, <4>1
      <4>3. names[i] \in Nat /\ m \in Nat
        BY <1>1, <1>5, <2>2, <4>1
      <4> QED BY <4>2, <4>3
    <3> QED BY <2>5, <3>1
  <2>7. Shape(c) /\ PreAddCheck(c, m) /\ 0 \in DocValues \cup {0}
    BY <2>5, <2>6 DEF SchemaOK, PreAddCheck
  <2>8. GoesTo(c, m, t, 0, e)
    BY <2>2, <2>3, <2>7, AddFieldParts
  <2>9. DOMAIN e.where = DOMAIN c.where \cup {m} /\ e.where[m][1] = t /\ \A x \in DOMAIN c.where : e.where[x] = c.where[x]
    BY <2>6, <2>8 DEF GoesTo
  <2>10. SchemaOK(e) /\ e.fixed = FALSE
    BY <2>2, <2>3, <2>5, <2>7, FieldAdded
  <2>11. DOMAIN e.where = {names[i] : i \in 1 .. k + 1}
    BY <2>2, <2>5, <2>9
  <2>12. ASSUME NEW i \in 1 .. k + 1
         PROVE  e.where[names[i]][1] = s.where[names[i]][1]
    <3>1. CASE i = k + 1
      BY <2>2, <2>9, <3>1
    <3>2. CASE i \in 1 .. k
      <4>1. names[i] \in DOMAIN c.where
        BY <2>5, <3>2
      <4> QED BY <2>5, <2>9, <3>2, <4>1
    <3> QED BY <3>1, <3>2
  <2> QED BY <2>4, <2>10, <2>11, <2>12
<1>18. Good(n)
  <2>1. Nat \subseteq P
    <3> HIDE DEF P
    <3> QED BY <1>16, <1>17, SetInduction
  <2> QED BY <2>1
<1>19. PICK c : c = read[n]
  OBVIOUS
<1>20. /\ SchemaOK(c) /\ c.fixed = FALSE /\ DOMAIN c.where = DOMAIN s.where
       /\ \A i \in 1 .. n : c.where[names[i]][1] = s.where[names[i]][1]
  <2>1. {names[i] : i \in 1 .. n} = DOMAIN s.where
    BY <1>4, <1>5 DEF Range
  <2> QED BY <1>18, <1>19, <2>1
<1>21. SchemaOK(r) /\ r.fixed = TRUE /\ r.where = c.where
  BY <1>15, <1>19, <1>20, IdsBuilt
<1>22. r.names = Ordered(DOMAIN r.where) /\ r.types = [i \in DOMAIN r.names |-> r.where[r.names[i]][1]]
  BY <1>21 DEF SchemaOK
<1>23. r.names = names
  BY <1>1, <1>3, <1>20, <1>21, <1>22
<1>24. r.types = s.types
  BY <1>1, <1>3, <1>5, <1>20, <1>21, <1>22, <1>23
<1> QED BY <1>3, <1>21, <1>23, <1>24
-----------------------------------------------------------------------------
\* The field a name leads to.
Own(d, n) == d.fields[d.where[n][1]][d.where[n][2] + 1]

\* s lists the fields of d whose types are in T, each once.
Lists(d, s, T) ==
  /\ s \in Seq(Entries)
  /\ \A k \in DOMAIN s : s[k][1] \in DOMAIN d.where /\ d.where[s[k][1]][1] \in T /\ s[k] = Own(d, s[k][1])
  /\ \A i, j \in DOMAIN s : s[i][1] = s[j][1] => i = j
  /\ \A n \in DOMAIN d.where : d.where[n][1] \in T => \E k \in DOMAIN s : s[k][1] = n

\* The vector of a type lists the fields of that type.
LEMMA TypeListed ==
  ASSUME NEW d, SchemaOK(d), NEW t
  PROVE  Lists(d, FieldsOfType(d, t), {t})
<1>1. CASE t \notin FieldTypes
  <2>1. PICK b : b = <<>>
    OBVIOUS
  <2>2. b \in Seq(Entries) /\ DOMAIN b = {} /\ FieldsOfType(d, t) = b
    BY <1>1, <2>1 DEF FieldsOfType
  <2>3. \A n \in DOMAIN d.where : d.where[n][1] # t
    BY <1>1 DEF SchemaOK
  <2> QED BY <2>2, <2>3 DEF Lists
<1>2. CASE t \in FieldTypes
  <2>1. PICK s \in Seq(Entries) : s = d.fields[t] /\ s = FieldsOfType(d, t)
    BY <1>2 DEF FieldsOfType, SchemaOK, Shape
  <2>2. ASSUME NEW k \in DOMAIN s
        PROVE  s[k][1] \in DOMAIN d.where /\ d.where[s[k][1]] = <<t, k - 1>> /\ k \in Nat
    <3>1. k \in Nat /\ k \in DOMAIN d.fields[t]
      BY <2>1
    <3>2. d.fields[t][k][1] \in DOMAIN d.where /\ d.where[d.fields[t][k][1]] = <<t, k - 1>>
      BY <1>2, <3>1 DEF SchemaOK
    <3> QED BY <2>1, <3>1, <3>2
  <2>3. ASSUME NEW k \in DOMAIN s
        PROVE  d.where[s[k][1]][1] \in {t} /\ s[k] = Own(d, s[k][1])
    <3>1. d.where[s[k][1]][1] = t /\ d.where[s[k][1]][2] = k - 1 /\ k - 1 + 1 = k
      BY <2>2
    <3> QED BY <2>1, <3>1 DEF Own
  <2>4. ASSUME NEW i \in DOMAIN s, NEW j \in DOMAIN s, s[i][1] = s[j][1]
        PROVE  i = j
    <3>1. <<t, i - 1>> = <<t, j - 1>> /\ i \in Nat /\ j \in Nat
      BY <2>2, <2>4
    <3> QED BY <3>1
  <2>5. ASSUME NEW n \in DOMAIN d.where, d.where[n][1] \in {t}
        PROVE  \E k \in DOMAIN s : s[k][1] = n
    <3>1. PICK k \in Nat : d.where[n] = <<t, k>>
      BY <2>5 DEF SchemaOK
    <3>2. k < Len(s) /\ s[k + 1][1] = n
      <4>1. d.where[n][1] = t /\ d.where[n][2] = k
        BY <3>1
      <4>2. d.where[n][2] < Len(d.fields[d.where[n][1]]) /\ d.fields[d.where[n][1]][d.where[n][2] + 1][1] = n
        BY DEF SchemaOK
      <4> QED BY <2>1, <4>1, <4>2
    <3>3. k + 1 \in DOMAIN s
      BY <2>1, <3>2
    <3> QED BY <3>2, <3>3
  <2> QED BY <2>1, <2>2, <2>3, <2>4, <2>5 DEF Lists
<1> QED BY <1>1, <1>2

\* So do two lists one after the other.
LEMMA ListsJoined ==
  ASSUME NEW d, NEW s, NEW u, NEW T, NEW t, t \notin T, Lists(d, s, T), Lists(d, u, {t})
  PROVE  Lists(d, s \o u, T \cup {t})
<1>1. PICK m \in Nat, n \in Nat : m = Len(s) /\ n = Len(u) /\ DOMAIN s = 1 .. m /\ DOMAIN u = 1 .. n
  BY DEF Lists
<1>2. PICK w : w = s \o u
  OBVIOUS
<1>3. /\ w \in Seq(Entries) /\ DOMAIN w = 1 .. m + n
      /\ \A k \in 1 .. m : w[k] = s[k]
      /\ \A k \in 1 .. n : w[m + k] = u[k]
  BY <1>1, <1>2 DEF Lists
<1>4. ASSUME NEW k \in DOMAIN w
      PROVE  \/ k \in 1 .. m /\ w[k] = s[k]
             \/ k - m \in 1 .. n /\ w[k] = u[k - m]
  <2>1. CASE k \in 1 .. m
    BY <2>1, <1>3
  <2>2. CASE k \notin 1 .. m
    <3>1. k - m \in 1 .. n /\ k = m + (k - m)
      BY <2>2, <1>3
    <3>2. w[m + (k - m)] = u[k - m]
      BY <3>1, <1>3
    <3> QED BY <3>1, <3>2
  <2> QED BY <2>1, <2>2
<1>5. ASSUME NEW k \in DOMAIN w
      PROVE  /\ w[k][1] \in DOMAIN d.where /\ w[k] = Own(d, w[k][1])
             /\ d.where[w[k][1]][1] \in T \cup {t}
             /\ k \in 1 .. m => d.where[w[k][1]][1] \in T
             /\ k \notin 1 .. m => d.where[w[k][1]][1] = t
  <2>1. CASE k \in 1 .. m /\ w[k] = s[k]
    BY <1>1, <2>1 DEF Lists
  <2>2. CASE k \notin 1 .. m /\ k - m \in 1 .. n /\ w[k] = u[k - m]
    BY <1>1, <2>2 DEF Lists
  <2>3. k \in 1 .. m => w[k] = s[k]
    BY <1>3
  <2> QED BY <1>4, <2>1, <2>2, <2>3
<1>6. ASSUME NEW i \in DOMAIN w, NEW j \in DOMAIN w, w[i][1] = w[j][1]
      PROVE  i = j
  <2>1. CASE i \in 1 .. m /\ j \in 1 .. m
    BY <1>1, <1>3, <1>6, <2>1 DEF Lists
  <2>2. CASE i \notin 1 .. m /\ j \notin 1 .. m
    <3>1. i - m \in 1 .. n /\ j - m \in 1 .. n /\ w[i] = u[i - m] /\ w[j] = u[j - m]
      BY <1>4, <2>2
    <3>2. i - m = j - m
      BY <1>1, <1>6, <3>1 DEF Lists
    <3>3. i \in Int /\ j \in Int
      BY <1>3
    <3> QED BY <3>2, <3>3
  <2>3. i \in 1 .. m <=> j \in 1 .. m
    BY <1>5, <1>6
  <2> QED BY <2>1, <2>2, <2>3
<1>7. ASSUME NEW x \in DOMAIN d.where, d.where[x][1] \in T \cup {t}
      PROVE  \E k \in DOMAIN w : w[k][1] = x
  <2>1. CASE d.where[x][1] \in T
    <3>1. PICK k \in 1 .. m : s[k][1] = x
      BY <1>1, <2>1 DEF Lists
    <3>2. k \in 1 .. m + n
      OBVIOUS
    <3> QED BY <1>3, <3>1, <3>2
  <2>2. CASE d.where[x][1] = t
    <3>1. PICK k \in 1 .. n : u[k][1] = x
      BY <1>1, <2>2 DEF Lists
    <3>2. m + k \in 1 .. m + n
      OBVIOUS
    <3> QED BY <1>3, <3>1, <3>2
  <2> QED BY <1>7, <2>1, <2>2
<1>8. Lists(d, w, T \cup {t})
  BY <1>3, <1>5, <1>6, <1>7 DEF Lists
<1> QED BY <1>2, <1>8

\* Serialize visits every field of a document once.
LEMMA FieldsVisited ==
  ASSUME NEW d, SchemaOK(d), NEW s, s = DocFieldSeq(d)
  PROVE  /\ s \in Seq(Entries)
         /\ \A k \in DOMAIN s : s[k][1] \in DOMAIN d.where /\ s[k] = Own(d, s[k][1])
         /\ \A i, j \in DOMAIN s : s[i][1] = s[j][1] => i = j
         /\ \A n \in DOMAIN d.where : \E k \in DOMAIN s : s[k][1] = n
<1>1. PICK a, b, c, e : a = FieldsOfType(d, 1) /\ b = FieldsOfType(d, 2) /\ c = FieldsOfType(d, 3) /\ e = FieldsOfType(d, 4)
  OBVIOUS
<1>2. Lists(d, a, {1}) /\ Lists(d, b, {2}) /\ Lists(d, c, {3}) /\ Lists(d, e, {4})
  BY <1>1, TypeListed
<1>3. PICK ab, abc : ab = a \o b /\ abc = ab \o c
  OBVIOUS
<1>4. s = abc \o e
  BY <1>1, <1>3 DEF DocFieldSeq
<1>5. Lists(d, ab, {1} \cup {2})
  <2>1. 2 \notin {1}
    OBVIOUS
  <2> QED BY ONLY <1>2, <1>3, <2>1, ListsJoined
<1>6. Lists(d, abc, ({1} \cup {2}) \cup {3})
  <2>1. 3 \notin {1} \cup {2}
    OBVIOUS
  <2> QED BY ONLY <1>2, <1>3, <1>5, <2>1, ListsJoined
<1>7. Lists(d, s, (({1} \cup {2}) \cup {3}) \cup {4})
  <2>1. 4 \notin ({1} \cup {2}) \cup {3}
    OBVIOUS
  <2> QED BY ONLY <1>2, <1>4, <1>6, <2>1, ListsJoined
<1>8. \A n \in DOMAIN d.where : d.where[n][1] \in (({1} \cup {2}) \cup {3}) \cup {4}
  <2>1. \A n \in DOMAIN d.where : d.where[n][1] \in 1 .. 4
    BY DocAssumption DEF SchemaOK
  <2> QED BY <2>1
<1> QED BY <1>7, <1>8 DEF Lists

\* The ids of a built schema are 0, 1, ..., each for one name.
LEMMA FieldIds ==
  ASSUME NEW s, SchemaOK(s), s.fixed, Len(s.names) <= 2^ByteBits
  PROVE  /\ Len(s.names) \in Nat
         /\ \A n \in DOMAIN s.where : GetFieldId(s, n) /\ FieldId(s, n) \in 0 .. Len(s.names) - 1 /\ s.names[FieldId(s, n) + 1] = n
         /\ \A i \in 0 .. Len(s.names) - 1 : s.names[i + 1] \in DOMAIN s.where /\ FieldId(s, s.names[i + 1]) = i
<1>1. /\ IsFiniteSet(DOMAIN s.where) /\ DOMAIN s.where \subseteq Nat /\ s.names = Ordered(DOMAIN s.where)
  BY DocAssumption DEF SchemaOK
<1>2. PICK N \in Nat : N = Cardinality(DOMAIN s.where)
  BY <1>1, FS_CardinalityType
<1>3. PICK names : names = s.names
  OBVIOUS
<1>4. /\ names \in Seq(DOMAIN s.where) /\ Len(names) = N /\ Range(names) = DOMAIN s.where
      /\ \A i, j \in 1 .. N : i < j => names[i] < names[j]
  BY <1>1, <1>2, <1>3, OrderedFacts
<1>5. ASSUME NEW n \in DOMAIN s.where
      PROVE  FieldId(s, n) \in 0 .. N - 1 /\ names[FieldId(s, n) + 1] = n
  <2>1. PICK i \in 1 .. N : names[i] = n
    BY <1>4 DEF Range
  <2>2. i - 1 \in 0 .. N - 1 /\ names[(i - 1) + 1] = n
    BY <2>1
  <2>3. \E j \in 0 .. N - 1 : names[j + 1] = n
    BY <2>2
  <2>4. PICK at : at = CHOOSE j \in 0 .. N - 1 : names[j + 1] = n
    OBVIOUS
  <2>5. at \in 0 .. N - 1 /\ names[at + 1] = n
    BY <2>3, <2>4
  <2>6. FieldId(s, n) = at % 2^ByteBits
    BY <1>3, <1>4, <2>4 DEF FieldId
  <2>7. PICK M \in Int : M = 2^ByteBits
    BY DocAssumption
  <2>8. at < M /\ at \in Nat
    BY <1>3, <1>4, <2>5, <2>7
  <2>9. at % M = at
    BY <2>8
  <2> QED BY <2>5, <2>6, <2>7, <2>9
<1>6. ASSUME NEW i \in 0 .. N - 1
      PROVE  names[i + 1] \in DOMAIN s.where /\ FieldId(s, names[i + 1]) = i
  <2>1. i + 1 \in 1 .. N
    OBVIOUS
  <2>2. PICK n \in DOMAIN s.where : n = names[i + 1]
    BY <1>4, <2>1
  <2>3. PICK j \in 0 .. N - 1 : j = FieldId(s, n) /\ names[j + 1] = n
    BY <1>5
  <2>4. j + 1 \in 1 .. N /\ n \in Nat
    BY <1>1
  <2>5. ~(i + 1 < j + 1) /\ ~(j + 1 < i + 1)
    BY <1>4, <2>1, <2>2, <2>3, <2>4
  <2>6. j = i
    BY <2>5
  <2> QED BY <2>2, <2>3, <2>6
<1>7. \A n \in DOMAIN s.where : GetFieldId(s, n)
  BY <1>3, <1>4 DEF GetFieldId
<1> QED BY <1>3, <1>4, <1>5, <1>6, <1>7

\* Serialize puts the value of each field under the id its name has in the schema.
HoldsFields(d, bytes) ==
  /\ DOMAIN bytes = {FieldId(schema, n) : n \in DOMAIN d.where}
  /\ \A n \in DOMAIN d.where : bytes[FieldId(schema, n)] = Own(d, n)[2]

LEMMA Serialized ==
  ASSUME SchemaOK(schema), schema.fixed, Len(schema.names) <= 2^ByteBits,
         NEW d, SchemaOK(d), DOMAIN d.where \subseteq DOMAIN schema.where,
         NEW any, NEW bytes, bytes = DocSerialize(d, any)
  PROVE  HoldsFields(d, bytes)
<1>1. PICK fs : fs = DocFieldSeq(d)
  OBVIOUS
<1>2. /\ fs \in Seq(Entries)
      /\ \A k \in DOMAIN fs : fs[k][1] \in DOMAIN d.where /\ fs[k] = Own(d, fs[k][1])
      /\ \A i, j \in DOMAIN fs : fs[i][1] = fs[j][1] => i = j
      /\ \A n \in DOMAIN d.where : \E k \in DOMAIN fs : fs[k][1] = n
  BY <1>1, FieldsVisited
<1>3. PICK n \in Nat : n = Len(fs) /\ DOMAIN fs = 1 .. n
  BY <1>2
<1>4. PICK id : id = [k \in 1 .. n |-> FieldId(schema, fs[k][1])]
  OBVIOUS
<1>5. ASSUME NEW k \in 1 .. n
      PROVE  SerializedId(fs[k][1], any) = id[k]
  <2>1. fs[k][1] \in DOMAIN schema.where
    BY <1>2, <1>3
  <2>2. GetFieldId(schema, fs[k][1])
    BY <2>1, FieldIds
  <2> QED BY <1>4, <2>2 DEF SerializedId
<1>6. ASSUME NEW i \in 1 .. n, NEW j \in 1 .. n, id[i] = id[j]
      PROVE  i = j
  <2>1. PICK x, y : x = fs[i][1] /\ y = fs[j][1]
    OBVIOUS
  <2>2. x \in DOMAIN schema.where /\ y \in DOMAIN schema.where
    BY <1>2, <1>3, <2>1
  <2>3. FieldId(schema, x) = FieldId(schema, y)
    BY <1>4, <1>6, <2>1
  <2>4. x = y
    <3>1. \A m \in DOMAIN schema.where : schema.names[FieldId(schema, m) + 1] = m
      BY FieldIds
    <3> QED BY ONLY <2>2, <2>3, <3>1
  <2>5. i \in DOMAIN fs /\ j \in DOMAIN fs /\ fs[i][1] = fs[j][1]
    BY <1>3, <2>1, <2>4
  <2> QED BY ONLY <1>2, <2>5
<1> DEFINE Add(k, x) == [i \in DOMAIN x \cup {SerializedId(fs[k][1], any)} |->
                            IF i = SerializedId(fs[k][1], any) THEN fs[k][2] ELSE x[i]]
           Nothing == [i \in {} |-> 0]
           Body(g) == [k \in 0 .. n |-> IF k = 0 THEN Nothing ELSE Add(k, g[k - 1])]
           Upto(g, k) == DOMAIN g = 0 .. k /\ g[0] = Nothing /\ \A i \in 1 .. k : g[i] = Add(i, g[i - 1])
           Q == {k \in Nat : \E g : Upto(g, k)}
<1> HIDE DEF Add, Nothing
<1>9. 0 \in Q
  <2>1. PICK g : g = [i \in 0 .. 0 |-> Nothing]
    OBVIOUS
  <2>2. Upto(g, 0)
    BY <2>1
  <2> QED BY <2>2
<1>10. ASSUME NEW k \in Nat, k \in Q
       PROVE  k + 1 \in Q
  <2>1. PICK g : Upto(g, k)
    BY <1>10
  <2>2. PICK h : h = [i \in 0 .. k + 1 |-> IF i = k + 1 THEN Add(k + 1, g[k]) ELSE g[i]]
    OBVIOUS
  <2>3. ASSUME NEW i \in 1 .. k + 1
        PROVE  h[i] = Add(i, h[i - 1])
    <3>1. CASE i = k + 1
      <4>1. h[i] = Add(k + 1, g[k]) /\ h[i - 1] = g[k]
        BY <2>2, <3>1
      <4> QED BY <3>1, <4>1
    <3>2. CASE i # k + 1
      <4>1. i \in 1 .. k /\ h[i] = g[i] /\ h[i - 1] = g[i - 1]
        BY <2>2, <3>2
      <4> QED BY <2>1, <4>1
    <3> QED BY <3>1, <3>2
  <2>4. Upto(h, k + 1)
    BY <2>1, <2>2, <2>3
  <2> QED BY <2>4
<1>11. \E g : Upto(g, n)
  <2>1. Nat \subseteq Q
    <3> HIDE DEF Q
    <3> QED BY <1>9, <1>10, SetInduction
  <2> QED BY <2>1
<1>12. \E g : g = Body(g)
  <2>1. PICK g : Upto(g, n)
    BY <1>11
  <2>2. PICK h : h = [k \in 0 .. n |-> g[k]]
    OBVIOUS
  <2>3. \A k \in 0 .. n : h[k] = IF k = 0 THEN Nothing ELSE Add(k, h[k - 1])
    BY <2>1, <2>2
  <2>4. h = Body(h)
    BY <2>2, <2>3
  <2> QED BY <2>4
<1>13. PICK put : put = CHOOSE g : g = Body(g)
  OBVIOUS
<1>14. put = Body(put)
  BY <1>12, <1>13
<1>15. bytes = put[n]
  BY <1>1, <1>3, <1>13 DEF DocSerialize, Add, Nothing
<1> DEFINE Good(k) == DOMAIN put[k] = {id[i] : i \in 1 .. k} /\ \A i \in 1 .. k : put[k][id[i]] = fs[i][2]
           P == {k \in Nat : k <= n => Good(k)}
<1>16. 0 \in P
  <2>1. put[0] = Nothing
    BY <1>14
  <2>2. DOMAIN put[0] = {} /\ {id[i] : i \in 1 .. 0} = {}
    BY <2>1 DEF Nothing
  <2>3. Good(0)
    BY <2>2
  <2> QED BY <2>3
<1>17. ASSUME NEW k \in Nat, k \in P
       PROVE  k + 1 \in P
  <2>0. k \in Nat /\ (k <= n => Good(k))
    BY <1>17
  <2> HIDE DEF Good
  <2> SUFFICES ASSUME k + 1 <= n
               PROVE  Good(k + 1)
    OBVIOUS
  <2> USE DEF Good
  <2>1. PICK c, e : c = put[k] /\ e = put[k + 1]
    OBVIOUS
  <2>2. DOMAIN c = {id[i] : i \in 1 .. k} /\ \A i \in 1 .. k : c[id[i]] = fs[i][2]
    BY <2>0, <2>1
  <2>3. PICK x : x = id[k + 1]
    OBVIOUS
  <2>4. e = [i \in DOMAIN c \cup {x} |-> IF i = x THEN fs[k + 1][2] ELSE c[i]]
    <3>1. k + 1 \in 1 .. n /\ k + 1 \in 0 .. n /\ k + 1 # 0 /\ (k + 1) - 1 = k
      OBVIOUS
    <3>2. put[k + 1] = Add(k + 1, put[k])
      BY <1>14, <3>1
    <3>3. SerializedId(fs[k + 1][1], any) = x
      BY <1>5, <2>3, <3>1
    <3> QED BY <2>1, <3>2, <3>3 DEF Add
  <2>5. DOMAIN e = {id[i] : i \in 1 .. k + 1}
    <3>1. \A i \in 1 .. k + 1 : i \in 1 .. k \/ i = k + 1
      OBVIOUS
    <3>2. \A i \in 1 .. k : i \in 1 .. k + 1
      OBVIOUS
    <3> QED BY <2>2, <2>3, <2>4, <3>1, <3>2
  <2>6. ASSUME NEW i \in 1 .. k + 1
        PROVE  e[id[i]] = fs[i][2]
    <3>1. CASE i = k + 1
      BY <2>3, <2>4, <3>1
    <3>2. CASE i \in 1 .. k
      <4>1. id[i] \in DOMAIN c
        BY <2>2, <3>2
      <4>2. i \in 1 .. n /\ k + 1 \in 1 .. n /\ i # k + 1
        BY <3>2
      <4>3. id[i] # x
        BY <1>6, <2>3, <4>2
      <4> QED BY <2>2, <2>4, <3>2, <4>1, <4>3
    <3> QED BY <3>1, <3>2
  <2> QED BY <2>1, <2>5, <2>6
<1>18. Good(n)
  <2>1. Nat \subseteq P
    <3> HIDE DEF P
    <3> QED BY <1>16, <1>17, SetInduction
  <2> QED BY <2>1
<1>19. DOMAIN bytes = {id[i] : i \in 1 .. n} /\ \A i \in 1 .. n : bytes[id[i]] = fs[i][2]
  BY <1>15, <1>18
<1>20. ASSUME NEW m \in DOMAIN d.where
       PROVE  \E i \in 1 .. n : fs[i][1] = m /\ id[i] = FieldId(schema, m) /\ fs[i] = Own(d, m)
  <2>1. PICK i \in 1 .. n : fs[i][1] = m
    BY <1>2, <1>3
  <2> QED BY <1>2, <1>3, <1>4, <2>1
<1>21. \A i \in 1 .. n : id[i] \in {FieldId(schema, m) : m \in DOMAIN d.where}
  BY <1>2, <1>3, <1>4
<1>22. DOMAIN bytes = {FieldId(schema, m) : m \in DOMAIN d.where}
  BY <1>19, <1>20, <1>21
<1>23. ASSUME NEW m \in DOMAIN d.where
       PROVE  bytes[FieldId(schema, m)] = Own(d, m)[2]
  BY <1>19, <1>20
<1> QED BY <1>22, <1>23 DEF HoldsFields

-----------------------------------------------------------------------------
\* The inductive invariant: what was made of a schema was made after Build, which nothing undoes.
DocInv ==
  /\ SchemaOK(schema) /\ PK \in DOMAIN schema.where
  /\ stored # EmptySchema =>
       /\ schema.fixed
       /\ SizesFit(schema) =>
            stored.names = schema.names /\ stored.types = schema.types /\ stored.fixed
  /\ SchemaOK(doc)
  /\ doc # EmptySchema => schema.fixed /\ PK \in DOMAIN doc.where /\ doc.where[PK] = <<1, 0>>
  /\ doc.fixed => doc # EmptySchema /\ Cardinality(DOMAIN doc.where) = Cardinality(DOMAIN schema.where)

\* A schema and a document start with the primary key as their first field.
LEMMA FirstField ==
  ASSUME NEW v \in DocValues \cup {0}, NEW r, r = AddField(EmptySchema, PK, 1, v)
  PROVE  SchemaOK(r) /\ r.fixed = FALSE /\ PK \in DOMAIN r.where /\ r.where[PK] = <<1, 0>>
<1>1. PICK s : s = EmptySchema
  OBVIOUS
<1>2. SchemaOK(s) /\ DOMAIN s.where = {} /\ s.fixed = FALSE /\ s.fields = [t \in FieldTypes |-> <<>>]
  BY <1>1, EmptySchemaFacts DEF EmptySchema
<1>3. PK \in FieldNames /\ 1 \in FieldTypes /\ Shape(s) /\ PreAddCheck(s, PK) /\ r = AddField(s, PK, 1, v)
  BY <1>1, <1>2, DocAssumption DEF PreAddCheck, SchemaOK
<1>4. GoesTo(s, PK, 1, v, r)
  BY ONLY <1>3, v \in DocValues \cup {0}, AddFieldParts
<1>5. Len(s.fields[1]) = 0
  BY <1>2, <1>3
<1>6. PK \in DOMAIN r.where /\ r.where[PK] = <<1, 0>>
  BY <1>4, <1>5 DEF GoesTo
<1>7. SchemaOK(r) /\ r.fixed = FALSE
  BY <1>2, <1>3, FieldAdded
<1> QED BY <1>6, <1>7

\* The schema changes before anything is made of it.
LEMMA SchemaChanged ==
  ASSUME NEW r, SchemaOK(r), PK \in DOMAIN r.where, schema' = r, SchemaOK(doc), ~doc.fixed,
         stored = EmptySchema, doc = EmptySchema, UNCHANGED <<stored, doc>>
  PROVE  DocInv'
<1>1. SchemaOK(schema)'
  BY ONLY SchemaOK(r), schema' = r DEF SchemaOK, Shape
<1>2. SchemaOK(doc)'
  BY ONLY SchemaOK(doc), doc' = doc DEF SchemaOK, Shape
<1>3. PK \in DOMAIN schema'.where /\ stored' = EmptySchema /\ doc' = EmptySchema /\ ~doc'.fixed /\ EmptySchema' = EmptySchema
  BY DEF EmptySchema
<1> QED BY <1>1, <1>2, <1>3 DEF DocInv

\* A built schema is read back or copied.
LEMMA StoredChanged ==
  ASSUME DocInv, schema.fixed, NEW r, stored' = r, UNCHANGED <<schema, doc>>,
         SizesFit(schema) => r.names = schema.names /\ r.types = schema.types /\ r.fixed
  PROVE  DocInv'
<1>1. SchemaOK(schema) /\ schema' = schema /\ SchemaOK(doc) /\ doc' = doc
  BY DEF DocInv
<1>2. SchemaOK(schema)'
  BY ONLY <1>1 DEF SchemaOK, Shape
<1>3. SchemaOK(doc)'
  BY ONLY <1>1 DEF SchemaOK, Shape
<1> QED BY <1>1, <1>2, <1>3 DEF DocInv

\* Nothing changes.
LEMMA DocsUnchanged ==
  ASSUME DocInv, UNCHANGED <<schema, stored, doc>>
  PROVE  DocInv'
<1>1. SchemaOK(schema) /\ schema' = schema /\ SchemaOK(doc) /\ doc' = doc
  BY DEF DocInv
<1>2. SchemaOK(schema)'
  BY ONLY <1>1 DEF SchemaOK, Shape
<1>3. SchemaOK(doc)'
  BY ONLY <1>1 DEF SchemaOK, Shape
<1> QED BY <1>1, <1>2, <1>3 DEF DocInv

\* A document changes while its schema stays.
LEMMA DocChanged ==
  ASSUME DocInv, NEW r, SchemaOK(r), doc' = r, UNCHANGED <<schema, stored>>, schema.fixed,
         PK \in DOMAIN r.where, r.where[PK] = <<1, 0>>,
         r.fixed => r # EmptySchema /\ Cardinality(DOMAIN r.where) = Cardinality(DOMAIN schema.where)
  PROVE  DocInv'
<1>1. SchemaOK(doc)'
  BY ONLY SchemaOK(r), doc' = r DEF SchemaOK, Shape
<1>2. SchemaOK(schema) /\ schema' = schema
  BY DEF DocInv
<1>3. SchemaOK(schema)'
  BY ONLY <1>2 DEF SchemaOK, Shape
<1> QED BY <1>1, <1>3 DEF DocInv

\* Every operation on a schema, its copies and its document.
LEMMA DocStep ==
  ASSUME DocInv, DocNext
  PROVE  DocInv'
<1>1. ASSUME NEW n \in FieldNames, NEW t \in FieldTypes, SchemaAdd(n, t)
      PROVE  DocInv'
  <2>1. PICK r : r = AddField(schema, n, t, 0)
    OBVIOUS
  <2>2. schema' = r /\ UNCHANGED <<stored, doc>>
    BY <1>1, <2>1 DEF SchemaAdd
  <2>3. SchemaOK(r) /\ r.fixed = schema.fixed /\ (schema.fixed => r = schema) /\ PK \in DOMAIN r.where
    <3>1. 0 \in DocValues \cup {0} /\ SchemaOK(schema) /\ PK \in DOMAIN schema.where
      BY DEF DocInv
    <3> QED BY <2>1, <3>1, FieldAdded
  <2>4. CASE schema.fixed
    <3>1. UNCHANGED <<schema, stored, doc>>
      BY <2>2, <2>3, <2>4
    <3> QED BY <3>1, DocsUnchanged
  <2>5. CASE ~schema.fixed
    <3>1. stored = EmptySchema /\ doc = EmptySchema /\ SchemaOK(doc)
      BY <2>5 DEF DocInv
    <3>2. ~doc.fixed
      BY <3>1, EmptySchemaFacts
    <3> QED BY <2>2, <2>3, <3>1, <3>2, SchemaChanged
  <2> QED BY <2>4, <2>5
<1>2. CASE SchemaBuild
  <2>1. PICK r : r = BuildIds(schema)
    OBVIOUS
  <2>2. schema' = r /\ UNCHANGED <<stored, doc>> /\ ~schema.fixed
    BY <1>2, <2>1 DEF SchemaBuild
  <2>3. SchemaOK(r) /\ r.where = schema.where
    BY <2>1, IdsBuilt DEF DocInv
  <2>4. stored = EmptySchema /\ doc = EmptySchema /\ SchemaOK(doc) /\ PK \in DOMAIN r.where
    BY <2>2, <2>3 DEF DocInv
  <2>5. ~doc.fixed
    BY <2>4, EmptySchemaFacts
  <2> QED BY <2>2, <2>3, <2>4, <2>5, SchemaChanged
<1>3. CASE SchemaStore
  <2>1. PICK r : r = DeserializeSchema(SerializeSchema(schema))
    OBVIOUS
  <2>2. stored' = r /\ UNCHANGED <<schema, doc>> /\ schema.fixed
    BY <1>3, <2>1 DEF SchemaStore
  <2>3. SizesFit(schema) => r.names = schema.names /\ r.types = schema.types /\ r.fixed
    BY <2>1, <2>2, ReadBack DEF DocInv
  <2> QED BY <2>2, <2>3, StoredChanged
<1>4. CASE SchemaCopy
  <2>1. PICK f : f = [t \in FieldTypes |-> IF t = 4 THEN <<>> ELSE schema.fields[t]]
    OBVIOUS
  <2>2. stored' = [schema EXCEPT !.fields = f] /\ UNCHANGED <<schema, doc>> /\ schema.fixed
    BY <1>4, <2>1 DEF SchemaCopy
  <2>3. PICK r : r = [schema EXCEPT !.fields = f]
    OBVIOUS
  <2>4. r.names = schema.names /\ r.types = schema.types /\ r.fixed = schema.fixed
    BY <2>3 DEF DocInv, SchemaOK, Shape
  <2> QED BY <2>2, <2>3, <2>4, StoredChanged
<1>5. ASSUME NEW v \in DocValues, NewDoc(v)
      PROVE  DocInv'
  <2>1. PICK r : r = AddField(EmptySchema, PK, 1, v)
    OBVIOUS
  <2>2. doc' = r /\ UNCHANGED <<schema, stored>> /\ schema.fixed
    BY <1>5, <2>1 DEF NewDoc
  <2>3. SchemaOK(r) /\ r.fixed = FALSE /\ PK \in DOMAIN r.where /\ r.where[PK] = <<1, 0>>
    BY <2>1, FirstField
  <2> QED BY <2>2, <2>3, DocChanged
<1>6. ASSUME NEW n \in FieldNames, NEW t \in FieldTypes, NEW v \in DocValues, AddToDoc(n, t, v)
      PROVE  DocInv'
  <2>1. PICK r : r = AddField(doc, n, t, v)
    OBVIOUS
  <2>2. (doc' = r \/ doc' = doc) /\ UNCHANGED <<schema, stored>> /\ doc # EmptySchema /\ ~doc.fixed
    BY <1>6, <2>1 DEF AddToDoc, DocAddField, DocAddFieldValue
  <2>3. SchemaOK(r) /\ r.fixed = doc.fixed /\ PK \in DOMAIN r.where /\ r.where[PK] = <<1, 0>>
    <3>1. v \in DocValues \cup {0} /\ SchemaOK(doc) /\ PK \in DOMAIN doc.where /\ doc.where[PK] = <<1, 0>>
      BY <2>2 DEF DocInv
    <3> QED BY <2>1, <3>1, FieldAdded
  <2>4. CASE doc' = r
    <3>1. schema.fixed
      BY <2>2 DEF DocInv
    <3> QED BY <2>2, <2>3, <2>4, <3>1, DocChanged
  <2>5. CASE doc' = doc
    BY <2>2, <2>5, DocsUnchanged
  <2> QED BY <2>2, <2>4, <2>5
<1>7. CASE BuildDoc
  <2>1. PICK r : r = BuildIds(doc)
    OBVIOUS
  <2>2. /\ UNCHANGED <<schema, stored>> /\ doc # EmptySchema
        /\ doc' = doc \/ (doc' = r /\ Cardinality(DOMAIN doc.where) = Cardinality(DOMAIN schema.where))
    BY <1>7, <2>1 DEF BuildDoc, DocBuild
  <2>3. SchemaOK(r) /\ r.where = doc.where /\ r.fixed = TRUE
    BY <2>1, IdsBuilt DEF DocInv
  <2>4. CASE doc' = doc
    BY <2>2, <2>4, DocsUnchanged
  <2>5. CASE doc' = r /\ Cardinality(DOMAIN doc.where) = Cardinality(DOMAIN schema.where)
    <3>1. r # EmptySchema
      BY <2>3, EmptySchemaFacts
    <3>2. schema.fixed /\ PK \in DOMAIN r.where /\ r.where[PK] = <<1, 0>>
      BY <2>2, <2>3 DEF DocInv
    <3> QED BY <2>2, <2>3, <2>5, <3>1, <3>2, DocChanged
  <2> QED BY <2>2, <2>4, <2>5
<1> QED BY <1>1, <1>2, <1>3, <1>4, <1>5, <1>6, <1>7 DEF DocNext

\* The invariant holds at first and after every step.
LEMMA DocInvInductive ==
  /\ DocInit => DocInv
  /\ DocInv /\ [DocNext]_docVars => DocInv'
<1>1. ASSUME DocInit
      PROVE  DocInv
  <2>1. SchemaOK(schema) /\ PK \in DOMAIN schema.where
    BY <1>1, FirstField DEF DocInit
  <2>2. stored = EmptySchema /\ doc = EmptySchema
    BY <1>1 DEF DocInit
  <2>3. SchemaOK(doc) /\ doc.fixed = FALSE
    BY <2>2, EmptySchemaFacts
  <2> QED BY <2>1, <2>2, <2>3 DEF DocInv
<1>2. ASSUME DocInv, UNCHANGED docVars
      PROVE  DocInv'
  BY <1>2, DocsUnchanged DEF docVars
<1>3. ASSUME DocInv, DocNext
      PROVE  DocInv'
  BY <1>3, DocStep
<1> QED BY <1>1, <1>2, <1>3

\* The invariant is what SchemaSound asks for.
LEMMA SchemasSound ==
  ASSUME DocInv
  PROVE  SchemaSound
<1>1. ASSUME NEW s, SchemaOK(s)
      PROVE  /\ \A n \in DOMAIN s.where : s.where[n][2] < Len(s.fields[s.where[n][1]]) /\ s.fields[s.where[n][1]][s.where[n][2] + 1][1] = n
             /\ s.fixed => /\ Range(s.names) = DOMAIN s.where /\ Len(s.types) = Len(s.names)
                           /\ \A i \in DOMAIN s.names : s.types[i] = s.where[s.names[i]][1]
                           /\ \A i, j \in DOMAIN s.names : i < j => s.names[i] < s.names[j]
  <2>1. \A n \in DOMAIN s.where : s.where[n][2] < Len(s.fields[s.where[n][1]]) /\ s.fields[s.where[n][1]][s.where[n][2] + 1][1] = n
    BY <1>1 DEF SchemaOK
  <2>2. ASSUME s.fixed
        PROVE  /\ Range(s.names) = DOMAIN s.where /\ Len(s.types) = Len(s.names)
               /\ \A i \in DOMAIN s.names : s.types[i] = s.where[s.names[i]][1]
               /\ \A i, j \in DOMAIN s.names : i < j => s.names[i] < s.names[j]
    <3>1. /\ IsFiniteSet(DOMAIN s.where) /\ DOMAIN s.where \subseteq Nat /\ s.names = Ordered(DOMAIN s.where)
          /\ s.types = [i \in DOMAIN s.names |-> s.where[s.names[i]][1]]
      BY <1>1, <2>2, DocAssumption DEF SchemaOK
    <3>2. PICK N \in Nat : N = Cardinality(DOMAIN s.where)
      BY <3>1, FS_CardinalityType
    <3>3. /\ s.names \in Seq(DOMAIN s.where) /\ Len(s.names) = N /\ Range(s.names) = DOMAIN s.where
          /\ \A i, j \in 1 .. N : i < j => s.names[i] < s.names[j]
      BY <3>1, <3>2, OrderedFacts
    <3>4. DOMAIN s.names = 1 .. N
      BY <3>3
    <3>5. DOMAIN s.types = 1 .. N
      BY <3>1, <3>4
    <3>6. Len(s.types) = N
      BY <3>2, <3>5
    <3> QED BY <3>1, <3>3, <3>4, <3>6
  <2> QED BY <2>1, <2>2
<1>2. FieldsLocated
  BY <1>1 DEF FieldsLocated, DocInv
<1>3. SchemaRoundTrip
  BY DEF SchemaRoundTrip, DocInv
<1> QED BY <1>2, <1>3 DEF SchemaSound

\* The invariant makes a built document complete.
LEMMA DocsComplete ==
  ASSUME DocInv
  PROVE  DocComplete
<1> SUFFICES ASSUME doc.fixed, DOMAIN doc.where \subseteq DOMAIN schema.where, Len(schema.names) <= 2^ByteBits,
                    NEW bytes, bytes = DocSerialize(doc, 0)
             PROVE  /\ DOMAIN bytes = 0 .. Len(schema.names) - 1
                    /\ \A n \in DOMAIN doc.where :
                         bytes[FieldId(schema, n)] = doc.fields[doc.where[n][1]][doc.where[n][2] + 1][2]
                    /\ bytes[FieldId(schema, PK)] = doc.fields[1][1][2]
  BY DEF DocComplete
<1>1. SchemaOK(schema) /\ schema.fixed /\ SchemaOK(doc) /\ PK \in DOMAIN doc.where /\ doc.where[PK] = <<1, 0>>
  BY DEF DocInv
<1>2. DOMAIN doc.where = DOMAIN schema.where
  <2>1. IsFiniteSet(DOMAIN schema.where) /\ Cardinality(DOMAIN doc.where) = Cardinality(DOMAIN schema.where)
    BY DEF DocInv, SchemaOK
  <2>2. DOMAIN doc.where \in SUBSET DOMAIN schema.where
    OBVIOUS
  <2> QED BY <2>1, <2>2, FS_Subset
<1>3. /\ DOMAIN bytes = {FieldId(schema, n) : n \in DOMAIN doc.where}
      /\ \A n \in DOMAIN doc.where : bytes[FieldId(schema, n)] = Own(doc, n)[2]
  <2>1. HoldsFields(doc, bytes)
    BY ONLY <1>1, DOMAIN doc.where \subseteq DOMAIN schema.where, Len(schema.names) <= 2^ByteBits, bytes = DocSerialize(doc, 0), Serialized
  <2> QED BY <2>1 DEF HoldsFields
<1>4. /\ \A n \in DOMAIN schema.where : FieldId(schema, n) \in 0 .. Len(schema.names) - 1
      /\ \A i \in 0 .. Len(schema.names) - 1 : schema.names[i + 1] \in DOMAIN schema.where /\ FieldId(schema, schema.names[i + 1]) = i
  BY <1>1, FieldIds
<1>5. DOMAIN bytes = 0 .. Len(schema.names) - 1
  BY <1>2, <1>3, <1>4
<1>6. Own(doc, PK) = doc.fields[1][1]
  BY <1>1 DEF Own
<1> QED BY <1>1, <1>3, <1>5, <1>6 DEF Own

\* A schema's names, ids and types agree, in the schema, in its copies and, when the number of fields
\* and the sizes of the names fit their bytes, in what is read back from its bytes, whatever is added
\* and when (doc.cpp), for any names, sizes of names, values and field types.
THEOREM SchemaSafe == DocSpec => []SchemaSound
<1>1. DocInv => SchemaSound
  BY SchemasSound
<1> QED BY <1>1, DocInvInductive, PTL DEF DocSpec

\* A built document of the schema's names is serialized with one value for each id of the schema,
\* its own values and the primary key among them (Doc::Build, Doc::Serialize), for any names and values.
THEOREM DocSafe == DocSpec => []DocComplete
<1>1. DocInv => DocComplete
  BY DocsComplete
<1> QED BY <1>1, DocInvInductive, PTL DEF DocSpec

-----------------------------------------------------------------------------
(* Documents of advanced_doc.h *)

NamesOf(s) == {s[i].name : i \in DOMAIN s}

\* The fields in the order of their ids are of different names, and the maps lead to them.
MapsOK(d) ==
  /\ d.byFid \in Seq(AdvFields)
  /\ DOMAIN d.fidOf = NamesOf(d.byFid) /\ DOMAIN d.byName = NamesOf(d.byFid)
  /\ \A i \in DOMAIN d.byFid : d.fidOf[d.byFid[i].name] = i - 1 /\ d.byName[d.byFid[i].name] = d.byFid[i]

\* What holds of a document also when its ids have wrapped.
NamesOK(d) ==
  /\ d.byFid \in Seq(AdvFields)
  /\ DOMAIN d.fidOf = DOMAIN d.byName
  /\ \A n \in DOMAIN d.fidOf : d.fidOf[n] \in 0 .. Len(d.byFid) - 1 /\ d.byName[n].name = n
  /\ Len(d.byFid) <= FidCount => MapsOK(d)

\* The names of a have the same ids in b.
SameIds(a, b) == \A n \in DOMAIN a.fidOf : n \in DOMAIN b.fidOf /\ a.fidOf[n] = b.fidOf[n]

\* The inductive invariant: also what a thread has checked is a field of the schema.
AdvInv ==
  /\ NamesOK(advSchema) /\ NamesOK(advDoc)
  /\ advCopy # Garbled => NamesOK(advCopy) /\ SameIds(advCopy, advSchema)
  /\ DOMAIN checked = AdvThreads
  /\ \A t \in AdvThreads : checked[t] # NoField => checked[t] \in AdvFields /\ checked[t].name \in DOMAIN advSchema.fidOf
  /\ DOMAIN advDoc.fidOf \subseteq DOMAIN advSchema.fidOf

\* A document without fields.
LEMMA EmptyMaps ==
  ASSUME NEW d, d = EmptyDoc
  PROVE  MapsOK(d) /\ NamesOK(d) /\ d.byFid = <<>> /\ DOMAIN d.fidOf = {}
<1>1. PICK b : b = <<>>
  OBVIOUS
<1>2. b \in Seq(AdvFields) /\ DOMAIN b = {} /\ d.byFid = b /\ d.fidOf = b /\ d.byName = b
  BY <1>1 DEF EmptyDoc
<1> QED BY <1>1, <1>2 DEF MapsOK, NamesOK, NamesOf

\* AddField of a new name appends the field.
LEMMA AddedNew ==
  ASSUME NEW d, MapsOK(d), NEW f \in AdvFields, f.name \notin DOMAIN d.fidOf, Len(d.byFid) % FidCount = Len(d.byFid)
  PROVE  /\ MapsOK(AdvAdd(d, f)) /\ AdvAdd(d, f).byFid = Append(d.byFid, f)
         /\ DOMAIN AdvAdd(d, f).fidOf = DOMAIN d.fidOf \cup {f.name}
<1>1. PICK e : e = AdvAdd(d, f)
  OBVIOUS
<1>2. e.fidOf = With(d.fidOf, f.name, Len(d.byFid)) /\ e.byFid = Append(d.byFid, f) /\ e.byName = With(d.byName, f.name, f)
  BY <1>1 DEF AdvAdd
<1>3. PICK s \in Seq(AdvFields) : s = d.byFid
  BY DEF MapsOK
<1>4. PICK t : t = Append(s, f)
  OBVIOUS
<1>5. /\ t \in Seq(AdvFields) /\ DOMAIN t = DOMAIN s \cup {Len(s) + 1} /\ t[Len(s) + 1] = f
      /\ \A i \in DOMAIN s : t[i] = s[i]
  BY <1>4
<1>6. NamesOf(t) = NamesOf(s) \cup {f.name}
  BY <1>5 DEF NamesOf
<1>7. DOMAIN e.fidOf = NamesOf(t) /\ DOMAIN e.byName = NamesOf(t) /\ DOMAIN d.fidOf = NamesOf(s)
  BY <1>2, <1>3, <1>6 DEF MapsOK, With
<1>8. ASSUME NEW i \in DOMAIN t
      PROVE  e.fidOf[t[i].name] = i - 1 /\ e.byName[t[i].name] = t[i]
  <2>1. CASE i \in DOMAIN s
    <3>1. s[i].name \in NamesOf(s) /\ s[i].name # f.name
      BY <2>1, <1>7 DEF NamesOf
    <3>2. e.fidOf[s[i].name] = d.fidOf[s[i].name] /\ e.byName[s[i].name] = d.byName[s[i].name]
      BY <1>2, <1>3, <3>1 DEF MapsOK, With
    <3> QED BY <2>1, <3>2, <1>3, <1>5 DEF MapsOK
  <2>2. CASE i = Len(s) + 1
    BY <1>2, <1>3, <1>5, <2>2 DEF With
  <2> QED BY <2>1, <2>2, <1>5
<1>9. e.byFid = t
  BY <1>2, <1>3, <1>4
<1>10. MapsOK(e)
  BY <1>5, <1>7, <1>8, <1>9 DEF MapsOK
<1> QED BY <1>1, <1>2, <1>3, <1>6, <1>7, <1>10

\* AddField of a name that is there replaces the field.
LEMMA AddedAgain ==
  ASSUME NEW d, MapsOK(d), NEW f \in AdvFields, f.name \in DOMAIN d.fidOf
  PROVE  /\ MapsOK(AdvAdd(d, f)) /\ DOMAIN AdvAdd(d, f).fidOf = DOMAIN d.fidOf /\ Len(AdvAdd(d, f).byFid) = Len(d.byFid)
         /\ \A i \in DOMAIN d.byFid : AdvAdd(d, f).byFid[i].name = d.byFid[i].name
<1>1. PICK e : e = AdvAdd(d, f)
  OBVIOUS
<1>2. PICK s \in Seq(AdvFields) : s = d.byFid
  BY DEF MapsOK
<1>3. PICK k \in DOMAIN s : s[k].name = f.name
  BY <1>2 DEF MapsOK, NamesOf
<1>4. d.fidOf[f.name] + 1 = k
  BY <1>2, <1>3 DEF MapsOK
<1>5. PICK t : t = [s EXCEPT ![k] = f]
  OBVIOUS
<1>6. e.fidOf = d.fidOf /\ e.byFid = t /\ e.byName = With(d.byName, f.name, f)
  BY <1>1, <1>2, <1>4, <1>5 DEF AdvAdd
<1>7. t \in Seq(AdvFields) /\ DOMAIN t = DOMAIN s /\ Len(t) = Len(s) /\ t[k] = f /\ \A i \in DOMAIN s : i # k => t[i] = s[i]
  BY <1>5
<1>8. \A i \in DOMAIN s : t[i].name = s[i].name
  BY <1>3, <1>7
<1>9. NamesOf(t) = NamesOf(s)
  BY <1>7, <1>8 DEF NamesOf
<1>10. DOMAIN d.byName = NamesOf(s) /\ f.name \in NamesOf(s) /\ DOMAIN e.byName = NamesOf(t)
  <2>1. DOMAIN d.byName = NamesOf(s) /\ f.name \in NamesOf(s)
    BY <1>2, <1>3 DEF MapsOK, NamesOf
  <2> QED BY <2>1, <1>6, <1>9 DEF With
<1>11. ASSUME NEW i \in DOMAIN t
       PROVE  e.fidOf[t[i].name] = i - 1 /\ e.byName[t[i].name] = t[i]
  <2>1. e.fidOf[t[i].name] = i - 1 /\ d.byName[s[i].name] = s[i] /\ d.fidOf[s[i].name] = i - 1
    BY <1>2, <1>6, <1>7, <1>8 DEF MapsOK
  <2>2. CASE i = k
    BY <1>6, <1>7, <2>1, <2>2 DEF With
  <2>3. CASE i # k
    <3>1. s[i].name # f.name
      BY <1>4, <1>7, <2>1, <2>3
    <3>2. s[i].name \in DOMAIN d.byName
      BY <1>7, <1>10 DEF NamesOf
    <3> QED BY <1>6, <1>7, <2>1, <2>3, <3>1, <3>2 DEF With
  <2> QED BY <2>2, <2>3
<1>12. MapsOK(e)
  BY <1>2, <1>6, <1>7, <1>9, <1>10, <1>11 DEF MapsOK
<1> QED BY <1>1, <1>2, <1>6, <1>7, <1>8, <1>12

\* While the ids do not wrap, the maps lead to the fields of their names.
LEMMA MapsName ==
  ASSUME NEW d, MapsOK(d)
  PROVE  NamesOK(d)
<1>1. ASSUME NEW n \in DOMAIN d.fidOf
      PROVE  d.fidOf[n] \in 0 .. Len(d.byFid) - 1 /\ d.byName[n].name = n
  <2>1. PICK s \in Seq(AdvFields) : s = d.byFid
    BY DEF MapsOK
  <2>2. PICK i \in DOMAIN s : s[i].name = n
    BY <1>1, <2>1 DEF MapsOK, NamesOf
  <2>3. d.fidOf[n] = i - 1 /\ d.byName[n] = s[i] /\ i \in 1 .. Len(s) /\ Len(s) \in Nat
    BY <2>1, <2>2 DEF MapsOK
  <2> QED BY <2>1, <2>2, <2>3
<1> QED BY <1>1 DEF MapsOK, NamesOK

\* AddField, whether the ids wrap or not: the names are those of before and the new one, and a name
\* that was there keeps its id.
LEMMA AddKeepsNames ==
  ASSUME NEW d, NamesOK(d), NEW f \in AdvFields
  PROVE  /\ NamesOK(AdvAdd(d, f)) /\ SameIds(d, AdvAdd(d, f))
         /\ DOMAIN AdvAdd(d, f).fidOf = DOMAIN d.fidOf \cup {f.name}
<1>1. PICK e : e = AdvAdd(d, f)
  OBVIOUS
<1>2. PICK s \in Seq(AdvFields) : s = d.byFid
  BY DEF NamesOK
<1>3. PICK L \in Nat : L = Len(s)
  OBVIOUS
<1>4. FidCount \in Nat /\ FidCount > 0
  BY AdvAssumption
<1>5. DOMAIN d.fidOf = DOMAIN d.byName /\ \A n \in DOMAIN d.fidOf : d.fidOf[n] \in 0 .. L - 1 /\ d.byName[n].name = n
  BY <1>2, <1>3 DEF NamesOK
<1>6. CASE f.name \notin DOMAIN d.fidOf
  <2>1. PICK k \in Nat : k = L % FidCount
    BY <1>3, <1>4
  <2>2. k <= L /\ (L < FidCount => k = L)
    BY <1>4, <2>1
  <2>3. e.fidOf = With(d.fidOf, f.name, k) /\ e.byFid = Append(s, f) /\ e.byName = With(d.byName, f.name, f)
    BY <1>1, <1>2, <1>3, <1>6, <2>1 DEF AdvAdd
  <2>4. Append(s, f) \in Seq(AdvFields) /\ Len(Append(s, f)) = L + 1
    BY <1>2, <1>3
  <2>5. DOMAIN e.fidOf = DOMAIN d.fidOf \cup {f.name} /\ DOMAIN e.byName = DOMAIN e.fidOf
    BY <1>5, <2>3 DEF With
  <2>6. ASSUME NEW n \in DOMAIN e.fidOf
        PROVE  e.fidOf[n] \in 0 .. L /\ e.byName[n].name = n /\ (n \in DOMAIN d.fidOf => e.fidOf[n] = d.fidOf[n])
    <3>1. CASE n = f.name
      <4>1. e.fidOf[n] = k /\ e.byName[n] = f
        BY <2>3, <3>1 DEF With
      <4> QED BY <1>6, <2>2, <3>1, <4>1
    <3>2. CASE n # f.name
      <4>1. n \in DOMAIN d.fidOf /\ n \in DOMAIN d.byName
        BY <1>5, <2>5, <3>2
      <4>2. e.fidOf[n] = d.fidOf[n] /\ e.byName[n] = d.byName[n]
        BY <2>3, <3>2, <4>1 DEF With
      <4>3. d.fidOf[n] \in 0 .. L - 1 /\ d.byName[n].name = n
        BY <1>5, <4>1
      <4> QED BY <4>2, <4>3
    <3> QED BY <3>1, <3>2
  <2>7. Len(e.byFid) <= FidCount => MapsOK(e)
    <3>1. ASSUME L + 1 <= FidCount
          PROVE  MapsOK(e)
      <4>1. L <= FidCount /\ k = L
        BY <1>4, <2>2, <3>1
      <4>2. MapsOK(d) /\ Len(d.byFid) % FidCount = Len(d.byFid)
        BY <1>2, <1>3, <2>1, <4>1 DEF NamesOK
      <4> QED BY <1>1, <1>6, <4>2, AddedNew
    <3> QED BY <2>3, <2>4, <3>1
  <2>8. SameIds(d, e)
    BY <2>5, <2>6 DEF SameIds
  <2>9. NamesOK(e)
    BY <2>3, <2>4, <2>5, <2>6, <2>7 DEF NamesOK
  <2> QED BY <1>1, <2>5, <2>8, <2>9
<1>7. CASE f.name \in DOMAIN d.fidOf
  <2>1. PICK k \in 1 .. L : k = d.fidOf[f.name] + 1
    BY <1>3, <1>5, <1>7
  <2>2. e.fidOf = d.fidOf /\ e.byFid = [s EXCEPT ![k] = f] /\ e.byName = With(d.byName, f.name, f)
    BY <1>1, <1>2, <1>7, <2>1 DEF AdvAdd
  <2>3. [s EXCEPT ![k] = f] \in Seq(AdvFields) /\ Len([s EXCEPT ![k] = f]) = L
    BY <1>3
  <2>4. DOMAIN e.byName = DOMAIN d.fidOf
    BY <1>5, <1>7, <2>2 DEF With
  <2>5. ASSUME NEW n \in DOMAIN d.fidOf
        PROVE  e.byName[n].name = n
    BY <1>5, <2>2 DEF With
  <2>6. Len(e.byFid) <= FidCount => MapsOK(e)
    BY <1>1, <1>2, <1>3, <1>7, <2>2, <2>3, AddedAgain DEF NamesOK
  <2>7. SameIds(d, e)
    BY <2>2 DEF SameIds
  <2>8. NamesOK(e)
    BY <1>5, <2>2, <2>3, <2>4, <2>5, <2>6 DEF NamesOK
  <2> QED BY <1>1, <1>7, <2>2, <2>7, <2>8
<1> QED BY <1>6, <1>7

\* Reading back in step adds the fields in their order: a schema with the same fields at the same ids.
LEMMA Rebuilt ==
  ASSUME NEW d, MapsOK(d), Len(d.byFid) < FidCount, InStep(AdvSerialize(d))
  PROVE  MapsOK(AdvDeserialize(AdvSerialize(d))) /\ AdvDeserialize(AdvSerialize(d)).byFid = d.byFid
<1>1. PICK s \in Seq(AdvFields) : s = d.byFid
  BY DEF MapsOK
<1>2. PICK n \in Nat : n = Len(s)
  OBVIOUS
<1>3. \A x \in 0 .. n : x % FidCount = x
  <2>1. PICK M \in Int : M = FidCount
    BY AdvAssumption
  <2>2. n < M
    BY <1>1, <1>2, <2>1
  <2>3. \A x \in 0 .. n : x % M = x
    BY <2>2
  <2> QED BY <2>1, <2>3
<1>4. PICK bytes : bytes = AdvSerialize(d)
  OBVIOUS
<1>5. bytes.count = n /\ \A k \in 1 .. n : bytes.fields[k].field = s[k]
  BY <1>1, <1>2, <1>3, <1>4 DEF AdvSerialize
<1> DEFINE Add(k, x) == AdvAdd(x, bytes.fields[k].field)
           Body(g) == [k \in 0 .. n |-> IF k = 0 THEN EmptyDoc ELSE Add(k, g[k - 1])]
           Upto(g, k) == DOMAIN g = 0 .. k /\ g[0] = EmptyDoc /\ \A i \in 1 .. k : g[i] = Add(i, g[i - 1])
           Q == {k \in Nat : \E g : Upto(g, k)}
<1> HIDE DEF Add
<1>6. 0 \in Q
  <2>1. PICK g : g = [i \in 0 .. 0 |-> EmptyDoc]
    OBVIOUS
  <2>2. Upto(g, 0)
    BY <2>1
  <2> QED BY <2>2
<1>7. ASSUME NEW k \in Nat, k \in Q
      PROVE  k + 1 \in Q
  <2>1. PICK g : Upto(g, k)
    BY <1>7
  <2>2. PICK h : h = [i \in 0 .. k + 1 |-> IF i = k + 1 THEN Add(k + 1, g[k]) ELSE g[i]]
    OBVIOUS
  <2>3. ASSUME NEW i \in 1 .. k + 1
        PROVE  h[i] = Add(i, h[i - 1])
    <3>1. CASE i = k + 1
      <4>1. h[i] = Add(k + 1, g[k]) /\ h[i - 1] = g[k]
        BY <2>2, <3>1
      <4> QED BY <3>1, <4>1
    <3>2. CASE i # k + 1
      <4>1. i \in 1 .. k /\ h[i] = g[i] /\ h[i - 1] = g[i - 1]
        BY <2>2, <3>2
      <4> QED BY <2>1, <4>1
    <3> QED BY <3>1, <3>2
  <2>4. Upto(h, k + 1)
    BY <2>1, <2>2, <2>3
  <2> QED BY <2>4
<1>8. \E g : Upto(g, n)
  <2>1. Nat \subseteq Q
    <3> HIDE DEF Q
    <3> QED BY <1>6, <1>7, SetInduction
  <2> QED BY <2>1
<1>9. \E g : g = Body(g)
  <2>1. PICK g : Upto(g, n)
    BY <1>8
  <2>2. PICK h : h = [k \in 0 .. n |-> g[k]]
    OBVIOUS
  <2>3. \A k \in 0 .. n : h[k] = IF k = 0 THEN EmptyDoc ELSE Add(k, h[k - 1])
    BY <2>1, <2>2
  <2>4. h = Body(h)
    BY <2>2, <2>3
  <2> QED BY <2>4
<1>10. PICK read : read = CHOOSE g : g = Body(g)
  OBVIOUS
<1>11. read = Body(read)
  BY <1>9, <1>10
<1>12. AdvDeserialize(bytes) = read[n]
  <2>1. InStep(bytes)
    BY <1>4
  <2> QED BY <1>5, <1>10, <2>1 DEF AdvDeserialize, Add
<1> DEFINE Good(k) == MapsOK(read[k]) /\ Len(read[k].byFid) = k /\ \A i \in 1 .. k : read[k].byFid[i] = s[i]
           P == {k \in Nat : k <= n => Good(k)}
<1>13. 0 \in P
  <2>1. read[0] = EmptyDoc
    BY <1>11
  <2> QED BY <2>1, EmptyMaps
<1>14. ASSUME NEW k \in Nat, k \in P
       PROVE  k + 1 \in P
  <2> SUFFICES ASSUME k + 1 <= n
               PROVE  Good(k + 1)
    OBVIOUS
  <2>1. PICK c : c = read[k]
    OBVIOUS
  <2>2. PICK f \in AdvFields : f = s[k + 1]
    BY <1>2
  <2>3. read[k + 1] = AdvAdd(c, f)
    <3>1. read[k + 1] = Add(k + 1, read[k])
      BY <1>11
    <3> QED BY <1>5, <2>1, <2>2, <3>1 DEF Add
  <2>4. MapsOK(c) /\ Len(c.byFid) = k /\ \A i \in 1 .. k : c.byFid[i] = s[i]
    BY <1>14, <2>1
  <2>5. f.name \notin DOMAIN c.fidOf
    <3>1. ASSUME NEW i \in 1 .. k
          PROVE  s[i].name # s[k + 1].name
      <4>1. i \in DOMAIN s /\ k + 1 \in DOMAIN s /\ i - 1 # (k + 1) - 1
        BY <1>2
      <4> QED BY <1>1, <4>1 DEF MapsOK
    <3>2. PICK u \in Seq(AdvFields) : u = c.byFid /\ DOMAIN c.fidOf = NamesOf(u)
      BY <2>4 DEF MapsOK
    <3>3. DOMAIN u = 1 .. k /\ \A i \in 1 .. k : u[i].name # f.name
      BY <2>2, <2>4, <3>1, <3>2
    <3> QED BY <3>2, <3>3 DEF NamesOf
  <2>6. Len(c.byFid) % FidCount = Len(c.byFid)
    BY <1>3, <2>4
  <2>7. MapsOK(AdvAdd(c, f)) /\ AdvAdd(c, f).byFid = Append(c.byFid, f)
    BY <2>4, <2>5, <2>6, AddedNew
  <2>8. PICK u \in Seq(AdvFields) : u = c.byFid
    BY <2>4 DEF MapsOK
  <2>9. PICK t : t = Append(u, f)
    OBVIOUS
  <2>10. Len(t) = k + 1 /\ \A i \in 1 .. k + 1 : t[i] = s[i]
    BY <2>2, <2>4, <2>8, <2>9
  <2> QED BY <2>3, <2>7, <2>8, <2>9, <2>10
<1>15. Good(n)
  <2>1. Nat \subseteq P
    <3> HIDE DEF P
    <3> QED BY <1>13, <1>14, SetInduction
  <2> QED BY <2>1
<1>16. read[n].byFid = s
  <2>1. PICK u \in Seq(AdvFields) : u = read[n].byFid
    BY <1>15 DEF MapsOK
  <2>2. Len(u) = n /\ \A i \in 1 .. n : u[i] = s[i]
    BY <1>15, <2>1
  <2>3. u = s
    BY <1>2, <2>2, SeqEqual
  <2> QED BY <2>1, <2>3
<1> QED BY <1>1, <1>4, <1>12, <1>15, <1>16

\* Every step of a thread.
LEMMA AdvStep ==
  ASSUME AdvInv, NEW t \in AdvThreads,
         (\E f \in AdvFields : AdvSchemaAdd(t, f) \/ AdvCheck(t, f)) \/ AdvDocAdd(t) \/ AdvSave(t)
  PROVE  AdvInv'
<1>1. ASSUME NEW f \in AdvFields, AdvSchemaAdd(t, f)
      PROVE  AdvInv'
  <2>1. PICK e : e = AdvAdd(advSchema, f)
    OBVIOUS
  <2>2. advSchema' = e /\ UNCHANGED <<advDoc, advCopy, checked>>
    BY <1>1, <2>1 DEF AdvSchemaAdd
  <2>3. NamesOK(e) /\ SameIds(advSchema, e) /\ DOMAIN advSchema.fidOf \subseteq DOMAIN e.fidOf
    BY <2>1, AddKeepsNames DEF AdvInv
  <2>4. advCopy # Garbled => SameIds(advCopy, e)
    BY <2>3 DEF AdvInv, SameIds
  <2> QED BY <2>2, <2>3, <2>4 DEF AdvInv
<1>2. ASSUME NEW f \in AdvFields, AdvCheck(t, f)
      PROVE  AdvInv'
  <2>1. UNCHANGED <<advSchema, advDoc, advCopy>> /\ checked' = [checked EXCEPT ![t] = f]
    BY <1>2 DEF AdvCheck
  <2>2. f.name \in DOMAIN advSchema.fidOf
    BY <1>2 DEF AdvCheck, GetByName, AdvInv, NamesOK
  <2> QED BY <2>1, <2>2 DEF AdvInv
<1>3. CASE AdvDocAdd(t)
  <2>1. PICK f : f = checked[t]
    OBVIOUS
  <2>2. PICK e : e = AdvAdd(advDoc, f)
    OBVIOUS
  <2>3. /\ f \in AdvFields /\ f.name \in DOMAIN advSchema.fidOf
        /\ advDoc' = e /\ checked' = [checked EXCEPT ![t] = NoField] /\ UNCHANGED <<advSchema, advCopy>>
    BY <1>3, <2>1, <2>2 DEF AdvDocAdd, AdvInv
  <2>4. NamesOK(e) /\ DOMAIN e.fidOf = DOMAIN advDoc.fidOf \cup {f.name}
    BY <2>2, <2>3, AddKeepsNames DEF AdvInv
  <2> QED BY <2>3, <2>4 DEF AdvInv
<1>4. CASE AdvSave(t)
  <2>1. PICK c : c = AdvDeserialize(AdvSerialize(advSchema))
    OBVIOUS
  <2>2. advCopy' = c /\ UNCHANGED <<advSchema, advDoc, checked>> /\ Len(advSchema.byFid) < FidCount
    BY <1>4, <2>1 DEF AdvSave
  <2>3. CASE InStep(AdvSerialize(advSchema))
    <3>1. MapsOK(advSchema)
      <4>1. Len(advSchema.byFid) \in Nat /\ FidCount \in Nat
        BY AdvAssumption DEF AdvInv, NamesOK
      <4>2. Len(advSchema.byFid) <= FidCount
        BY <2>2, <4>1
      <4> QED BY <4>2 DEF AdvInv, NamesOK
    <3>2. MapsOK(c) /\ c.byFid = advSchema.byFid
      BY <2>1, <2>2, <2>3, <3>1, Rebuilt
    <3>3. SameIds(c, advSchema)
      <4>1. ASSUME NEW n \in DOMAIN c.fidOf
            PROVE  n \in DOMAIN advSchema.fidOf /\ c.fidOf[n] = advSchema.fidOf[n]
        <5>1. PICK i \in DOMAIN c.byFid : c.byFid[i].name = n
          BY <3>2, <4>1 DEF MapsOK, NamesOf
        <5>2. n \in NamesOf(advSchema.byFid)
          BY <3>2, <5>1 DEF NamesOf
        <5>3. c.fidOf[n] = i - 1 /\ advSchema.fidOf[n] = i - 1
          BY <3>1, <3>2, <5>1 DEF MapsOK
        <5> QED BY <3>1, <5>2, <5>3 DEF MapsOK
      <4> QED BY <4>1 DEF SameIds
    <3>4. NamesOK(c)
      BY <3>2, MapsName
    <3> QED BY <2>2, <3>3, <3>4 DEF AdvInv
  <2>4. CASE ~InStep(AdvSerialize(advSchema))
    <3>1. c = Garbled
      BY <2>1, <2>4 DEF AdvDeserialize
    <3> QED BY <2>2, <3>1 DEF AdvInv
  <2> QED BY <2>3, <2>4
<1> QED BY <1>1, <1>2, <1>3, <1>4

\* The invariant is what AdvMapsAgree asks for.
LEMMA AdvInvAgrees ==
  ASSUME AdvInv
  PROVE  AdvMapsAgree
<1>1. ASSUME NEW d, MapsOK(d), NEW n \in DOMAIN d.fidOf
      PROVE  GetByFid(d, d.fidOf[n]) = GetByName(d, n)
  <2>1. PICK s \in Seq(AdvFields) : s = d.byFid
    BY <1>1 DEF MapsOK
  <2>2. PICK i \in DOMAIN s : s[i].name = n
    BY <1>1, <2>1 DEF MapsOK, NamesOf
  <2>3. d.fidOf[n] = i - 1 /\ d.byName[n] = s[i] /\ n \in DOMAIN d.byName
    BY <1>1, <2>1, <2>2 DEF MapsOK
  <2>4. GetByName(d, n) = s[i]
    BY <2>3 DEF GetByName
  <2>5. GetByFid(d, i - 1) = s[i]
    BY <2>1, <2>2 DEF GetByFid
  <2> QED BY <2>3, <2>4, <2>5
<1>2. ASSUME NEW d, NamesOK(d)
      PROVE  /\ DOMAIN d.fidOf = DOMAIN d.byName
             /\ \A n \in DOMAIN d.fidOf :
                  /\ GetByName(d, n).name = n
                  /\ Len(d.byFid) <= FidCount => GetByFid(d, d.fidOf[n]) = GetByName(d, n)
  BY <1>1, <1>2 DEF NamesOK, GetByName
<1>3. \A d \in {advSchema, advDoc, advCopy} \ {Garbled} : NamesOK(d)
  BY DEF AdvInv
<1> QED BY <1>2, <1>3 DEF AdvMapsAgree, AdvInv, SameIds

\* Whatever the threads add, replace and read back, a field is found under its name, a name keeps its
\* id, and while there are no more fields than ids the id of a name leads to its field
\* (advanced_doc.h), for any threads, names, sizes of names and fields, also past the wrap of the ids.
THEOREM AdvSafe == AdvSpec => []AdvMapsAgree
<1>1. AdvInit => AdvInv
  <2>1. ASSUME AdvInit
        PROVE  AdvInv
    <3>1. \A d \in {advSchema, advDoc, advCopy} : NamesOK(d) /\ DOMAIN d.fidOf = {}
      BY <2>1, EmptyMaps DEF AdvInit
    <3> QED BY <2>1, <3>1 DEF AdvInit, AdvInv, SameIds
  <2> QED BY <2>1
<1>2. AdvInv /\ [AdvNext]_advVars => AdvInv'
  <2>1. ASSUME AdvInv, AdvNext
        PROVE  AdvInv'
    BY <2>1, AdvStep DEF AdvNext
  <2>2. ASSUME AdvInv, UNCHANGED advVars
        PROVE  AdvInv'
    BY <2>2 DEF AdvInv, advVars
  <2> QED BY <2>1, <2>2
<1>3. AdvInv => AdvMapsAgree
  BY AdvInvAgrees
<1> QED BY <1>1, <1>2, <1>3, PTL DEF AdvSpec
=============================================================================
