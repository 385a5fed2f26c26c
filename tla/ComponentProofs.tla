-------------------------- MODULE ComponentProofs --------------------------
(***************************************************************************)
(* Proofs about the smaller concurrent components: for any number of       *)
(* threads, timers, tables and calls.                                      *)
(***************************************************************************)
EXTENDS Ports, HierarchyGuard, AsyncCalls, TracedCalls, TimerPool, Outbox, TableService, SeqLemmas, FiniteSetTheorems,
        SequenceTheorems, TLAPS

-----------------------------------------------------------------------------
(* Ports *)

PortTypeOK ==
  /\ word.data \in DataIds \cup {NoData} /\ word.flags \subseteq Flags
  /\ outData \in DataIds \cup {NoData} /\ inData \in DataIds \cup {NoData}
  /\ content \in [DataIds -> Nat \cup {NoData}]
  /\ checked \in [out : BOOLEAN, in : BOOLEAN]
  /\ pushes \in Nat

\* A Data has one place.
OnePlace ==
  /\ word.data # NoData => word.data # outData /\ word.data # inData
  /\ outData # NoData => outData # inData

\* What the producer found out stays true until its push, because only Push sets the flag; and
\* the flag goes with the chunk.
PortInv ==
  /\ PortTypeOK
  /\ OnePlace
  /\ checked.out => "has_data" \notin word.flags
  /\ aborted # "Push: data"
  /\ "has_data" \in word.flags =>
       /\ pushes > 0
       /\ word.data # NoData => content[word.data] = pushes

\* A Data in one place is owned by one of the word and the two ports.
LEMMA OnePlaceOneOwner ==
  ASSUME PortInv, NEW d \in DataIds
  PROVE  Cardinality({o \in {<<"word", word.data>>, <<"out", outData>>, <<"in", inData>>} : o[2] = d}) <= 1
<1> DEFINE owners == {o \in {<<"word", word.data>>, <<"out", outData>>, <<"in", inData>>} : o[2] = d}
<1>1. d # NoData
  BY PortAssumption
<1>2. \A o, p \in owners : o = p
  <2>1. ASSUME NEW o \in owners
        PROVE  \/ o = <<"word", word.data>> /\ word.data = d
               \/ o = <<"out", outData>> /\ outData = d
               \/ o = <<"in", inData>> /\ inData = d
    OBVIOUS
  <2> HIDE DEF owners
  <2>2. /\ word.data = d => outData # d /\ inData # d
        /\ outData = d => inData # d
    <3>1. OnePlace
      BY DEF PortInv
    <3> QED BY <1>1, <3>1 DEF OnePlace
  <2> QED BY <2>1, <2>2, Zenon
<1>3. owners = {} \/ \E o : owners = {o}
  <2>1. SUFFICES ASSUME NEW o \in owners PROVE owners = {o}
    BY Zenon
  <2> HIDE DEF owners
  <2> QED BY <1>2
<1>4. Cardinality(owners) = 0 \/ Cardinality(owners) = 1
  BY <1>3, FS_EmptySet, FS_Singleton
<1> QED BY <1>4

\* A flag call leaves the Data in the word or forgets it, and says nothing of data in the word.
LEMMA SetFlagsKeeps ==
  ASSUME PortInv, NEW flags \in SUBSET {"finished", "needed"}, NEW mask,
         SetFlags(flags, mask), UNCHANGED <<outData, inData, content, checked, pushes, aborted>>
  PROVE  PortInv'
<1>1. word' = [data |-> word.data, flags |-> flags] \/ word' = [data |-> NoData, flags |-> flags]
  BY DEF SetFlags, FlagsAfter
<1>2. flags \in SUBSET Flags /\ "has_data" \notin flags
  BY DEF Flags
<1>3. word'.data \in DataIds \cup {NoData} /\ word'.flags \subseteq Flags /\ "has_data" \notin word'.flags
      /\ word'.data \in {word.data, NoData}
  <2>1. word'.flags = flags /\ word'.data \in {word.data, NoData}
    BY <1>1
  <2> QED BY <1>2, <2>1 DEF PortInv, PortTypeOK
<1> QED BY <1>3 DEF PortInv, PortTypeOK, OnePlace

\* The consumer's flag calls cannot make a push find data, lose a Data to two owners or leave the
\* flag without its chunk: Port.h's PortSound for any number of pushes.
THEOREM PortSafe == PortSpec => []PortSound
<1>1. PortInit => PortInv
  <2> SUFFICES ASSUME PortInit PROVE PortInv
    OBVIOUS
  <2>1. word.data = 1 /\ word.flags = {} /\ outData = 2 /\ inData = 3 /\ ~checked.out /\ aborted = "no"
    BY DEF PortInit
  <2>2. {1, 2, 3} \subseteq DataIds
    BY DEF DataIds
  <2>3. PortTypeOK
    BY <2>1, <2>2 DEF PortInit, PortTypeOK
  <2>4. OnePlace
    <3>1. word.data # outData /\ word.data # inData /\ outData # inData
      BY <2>1
    <3> QED BY <3>1, Zenon DEF OnePlace
  <2>5. "has_data" \notin word.flags
    BY <2>1, Zenon
  <2> QED BY <2>1, <2>3, <2>4, <2>5 DEF PortInv
<1>2. PortInv /\ [PortNext]_portVars => PortInv'
  <2> SUFFICES ASSUME PortInv, [PortNext]_portVars PROVE PortInv'
    OBVIOUS
  <2>1. CASE CheckCanPush
    BY <2>1 DEF CheckCanPush, CanPush, PortInv, PortTypeOK, OnePlace
  <2>2. CASE Push
    <3>1. CASE outData = NoData
      BY <2>2, <3>1 DEF Push, PortInv, PortTypeOK, OnePlace
    <3>2. CASE outData # NoData
      <4>1. word' = [data |-> outData, flags |-> (word.flags \ {"has_data"}) \cup {"has_data"}]
            /\ word'.data \in DataIds \cup {NoData} /\ word'.flags \subseteq Flags
        <5>1. word' = [data |-> outData, flags |-> (word.flags \ {"has_data"}) \cup {"has_data"}]
          BY <2>2, <3>2 DEF Push, Swap
        <5>2. word'.data = outData /\ word'.flags = (word.flags \ {"has_data"}) \cup {"has_data"}
          BY <5>1
        <5>3. word'.flags \subseteq Flags
          BY <5>2 DEF Flags, PortInv, PortTypeOK
        <5> QED BY <5>1, <5>2, <5>3 DEF PortInv, PortTypeOK
      <4>2. content' \in [DataIds -> Nat \cup {NoData}] /\ content'[outData] = pushes' /\ pushes' \in Nat /\ pushes' > 0
        <5>1. outData \in DataIds /\ pushes' = pushes + 1 /\ content' = [content EXCEPT ![outData] = pushes + 1]
          BY <2>2, <3>2 DEF Push, PortInv, PortTypeOK
        <5>2. pushes \in Nat /\ content \in [DataIds -> Nat \cup {NoData}]
          BY DEF PortInv, PortTypeOK
        <5> QED BY <5>1, <5>2
      <4>3. checked' \in [out : BOOLEAN, in : BOOLEAN] /\ ~checked'.out
        BY <2>2, <3>2 DEF Push, PortInv, PortTypeOK
      <4>4. OnePlace' /\ outData' \in DataIds \cup {NoData}
        BY <2>2, <3>2, <4>1 DEF Push, PortInv, PortTypeOK, OnePlace
      <4>5. aborted' # "Push: data"
        BY <2>2, <3>2 DEF Push, PortInv
      <4> QED BY <2>2, <4>1, <4>2, <4>3, <4>4, <4>5 DEF Push, PortInv, PortTypeOK
    <3> QED BY <3>1, <3>2
  <2>3. CASE Finish
    BY <2>3, SetFlagsKeeps DEF Finish
  <2>4. CASE SetNeeded
    BY <2>4, SetFlagsKeeps DEF SetNeeded
  <2>5. CASE SetNotNeeded
    BY <2>5, SetFlagsKeeps DEF SetNotNeeded
  <2>6. CASE CheckHasData
    BY <2>6 DEF CheckHasData, PortInv, PortTypeOK, OnePlace
  <2>7. CASE IsFinished \/ Close
    BY <2>7 DEF IsFinished, Close, PortInv, PortTypeOK, OnePlace
  <2>8. CASE Reopen
    BY <2>8, SetFlagsKeeps DEF Reopen
  <2>9. CASE SinkPrepare
    BY <2>9 DEF SinkPrepare, PortInv, PortTypeOK, OnePlace
  <2>10. ASSUME NEW b \in BOOLEAN, Pull(b) PROVE PortInv'
    <3>1. word'.data = inData /\ word'.data \in DataIds \cup {NoData} /\ word'.flags \subseteq Flags
          /\ "has_data" \notin word'.flags
      BY <2>10 DEF Pull, Swap, PortInv, PortTypeOK, Flags
    <3>2. content' \in [DataIds -> Nat \cup {NoData}]
      BY <2>10 DEF Pull, PortInv, PortTypeOK
    <3>3. checked' \in [out : BOOLEAN, in : BOOLEAN] /\ checked'.out = checked.out
      BY <2>10 DEF Pull, PortInv, PortTypeOK
    <3>4. OnePlace' /\ inData' \in DataIds \cup {NoData}
      BY <2>10, <3>1 DEF Pull, PortInv, PortTypeOK, OnePlace
    <3>5. aborted' # "Push: data"
      BY <2>10 DEF Pull, PortInv
    <3> QED BY <2>10, <3>1, <3>2, <3>3, <3>4, <3>5 DEF Pull, PortInv, PortTypeOK
  <2>11. CASE UNCHANGED portVars
    BY <2>11 DEF portVars, PortInv, PortTypeOK, OnePlace
  <2> QED BY <2>1, <2>2, <2>3, <2>4, <2>5, <2>6, <2>7, <2>8, <2>9, <2>10, <2>11 DEF PortNext
<1>3. PortInv => PortSound
  BY OnePlaceOneOwner DEF PortInv, PortSound
<1> QED BY <1>1, <1>2, <1>3, PTL DEF PortSpec

-----------------------------------------------------------------------------
(* HierarchyGuard *)

GuardTypeOK ==
  /\ low \in [GuardThreads -> LowIds]
  /\ guardPc \in [GuardThreads -> {"out", "locked", "wait", "in", "left"}]
  /\ DOMAIN rel \subseteq LowIds
  /\ rel \in [DOMAIN rel -> [counter : Nat, owner : GuardThreads \cup {NoOwner}]]

\* The threads that have counted themselves into an entry.
Users(i) == {t \in GuardThreads : guardPc[t] \in {"wait", "in"} /\ low[t] = i}

\* An entry is there while it has users, counts them, and belongs to the one that is in.
EntryCounted(i) ==
  /\ i \in DOMAIN rel <=> Users(i) # {}
  /\ i \in DOMAIN rel => /\ rel[i].counter = Cardinality(Users(i))
                         /\ \A t \in GuardThreads : rel[i].owner = t <=> t \in Users(i) /\ guardPc[t] = "in"

GuardInv ==
  /\ GuardTypeOK
  /\ dangling = {}
  /\ \A i \in LowIds : EntryCounted(i)

\* Counting over the threads: finitely many use an entry, one more when t joins, one less when
\* it leaves.
LEMMA UsersFinite ==
  ASSUME NEW i
  PROVE  /\ IsFiniteSet(Users(i)) /\ Cardinality(Users(i)) \in Nat
         /\ Users(i) = {} <=> Cardinality(Users(i)) = 0
<1>1. IsFiniteSet(Users(i))
  BY GuardAssumption, FS_Subset DEF Users
<1> QED BY <1>1, FS_CardinalityType, FS_EmptySet

\* A step of thread t that leaves the users of an entry alone keeps what is known of the entry.
LEMMA EntryKept ==
  ASSUME GuardInv, GuardTypeOK', NEW i \in LowIds,
         Users(i)' = Users(i),
         i \in DOMAIN rel' <=> i \in DOMAIN rel,
         i \in DOMAIN rel => rel'[i] = rel[i],
         \A t \in Users(i) : guardPc'[t] = guardPc[t]
  PROVE  EntryCounted(i)'
<1>1. EntryCounted(i)
  BY DEF GuardInv
<1> QED BY <1>1 DEF EntryCounted

\* An entry with its counter, owner and users lives and dies with its last user, whatever the
\* threads of BaseGuard do: EntriesCounted for any finite set of threads and any ids.
THEOREM GuardSafe == GuardSpec => []EntriesCounted
<1>1. GuardInit => GuardInv
  <2> SUFFICES ASSUME GuardInit PROVE GuardInv
    OBVIOUS
  <2>1. GuardTypeOK
    BY GuardAssumption DEF GuardInit, GuardTypeOK
  <2>2. \A i \in LowIds : Users(i) = {}
    BY DEF GuardInit, Users
  <2> QED BY <2>1, <2>2 DEF GuardInit, GuardInv, EntryCounted
<1>2. GuardInv /\ [GuardNext]_guardVars => GuardInv'
  <2> SUFFICES ASSUME GuardInv, [GuardNext]_guardVars PROVE GuardInv'
    OBVIOUS
  <2> USE DEF GuardTypeOK
  <2>0. \A i \in LowIds : EntryCounted(i)
    BY DEF GuardInv
  <2>1. ASSUME NEW t \in GuardThreads, LockGuards(t) PROVE GuardInv'
    <3>1. GuardTypeOK'
      BY <2>1 DEF LockGuards, GuardInv
    <3>2. \A i \in LowIds : Users(i)' = Users(i) /\ \A u \in Users(i) : guardPc'[u] = guardPc[u]
      BY <2>1 DEF LockGuards, GuardInv, Users
    <3>3. \A i \in LowIds : EntryCounted(i)'
      BY <2>1, <3>1, <3>2, EntryKept DEF LockGuards
    <3> QED BY <2>1, <3>1, <3>3 DEF LockGuards, GuardInv
  <2>2. ASSUME NEW t \in GuardThreads, NEW id \in LowIds, Register(t, id) PROVE GuardInv'
    <3>1. GuardTypeOK'
      <4>1. DOMAIN rel' = DOMAIN rel \cup {id}
        BY <2>2 DEF Register
      <4>2. \A i \in DOMAIN rel' : rel'[i] \in [counter : Nat, owner : GuardThreads \cup {NoOwner}]
        BY <2>2, <4>1 DEF Register, GuardInv
      <4> QED BY <2>2, <4>1, <4>2 DEF Register, GuardInv
    <3>2. Users(id)' = Users(id) \cup {t} /\ t \notin Users(id)
      BY <2>2 DEF Register, GuardInv, Users
    <3>3. Cardinality(Users(id)') = Cardinality(Users(id)) + 1
      BY <3>2, UsersFinite, FS_AddElement
    <3>4. ASSUME NEW i \in LowIds, i # id
          PROVE  Users(i)' = Users(i) /\ (i \in DOMAIN rel' <=> i \in DOMAIN rel)
                 /\ (i \in DOMAIN rel => rel'[i] = rel[i]) /\ \A u \in Users(i) : guardPc'[u] = guardPc[u]
      BY <2>2, <3>4 DEF Register, GuardInv, Users
    <3>5. id \in DOMAIN rel' /\ rel'[id].counter = Cardinality(Users(id)')
          /\ \A u \in GuardThreads : rel'[id].owner = u <=> u \in Users(id)' /\ guardPc'[u] = "in"
      <4>1. CASE id \in DOMAIN rel
        <5>1. id \in DOMAIN rel' /\ rel'[id].counter = rel[id].counter + 1 /\ rel'[id].owner = rel[id].owner
          BY <2>2, <4>1 DEF Register, GuardInv
        <5>2. \A u \in GuardThreads : u \in Users(id)' /\ guardPc'[u] = "in" <=> u \in Users(id) /\ guardPc[u] = "in"
          BY <2>2, <3>2 DEF Register, GuardInv
        <5> QED BY <2>0, <3>3, <4>1, <5>1, <5>2 DEF EntryCounted
      <4>2. CASE id \notin DOMAIN rel
        <5>1. id \in DOMAIN rel' /\ rel'[id].counter = 1 /\ rel'[id].owner = NoOwner
          BY <2>2, <4>2 DEF Register
        <5>2. Users(id) = {} /\ Cardinality(Users(id)) = 0
          BY <2>0, <4>2, UsersFinite DEF EntryCounted
        <5>3. guardPc'[t] = "wait" /\ Users(id)' = {t}
          BY <2>2, <3>2, <5>2 DEF Register, GuardInv
        <5> QED BY <3>3, <5>1, <5>2, <5>3, GuardAssumption
      <4> QED BY <4>1, <4>2
    <3>6. EntryCounted(id)'
      BY <3>2, <3>5 DEF EntryCounted
    <3>7. \A i \in LowIds : EntryCounted(i)'
      BY <3>1, <3>4, <3>6, EntryKept
    <3> QED BY <2>2, <3>1, <3>7 DEF Register, GuardInv
  <2>3. ASSUME NEW t \in GuardThreads, LockEntry(t) PROVE GuardInv'
    <3>0. PICK id \in LowIds : id = low[t]
      BY DEF GuardInv
    <3>1. id \in DOMAIN rel /\ rel[id].owner = NoOwner /\ t \in Users(id)
      BY <3>0, <2>3 DEF LockEntry, GuardInv, At, Users
    <3>2. GuardTypeOK' /\ DOMAIN rel' = DOMAIN rel /\ rel'[id].owner = t /\ rel'[id].counter = rel[id].counter
          /\ \A i \in DOMAIN rel : i # id => rel'[i] = rel[i]
      BY <3>0, <2>3, <3>1 DEF LockEntry, GuardInv
    <3>3. \A i \in LowIds : Users(i)' = Users(i)
      BY <3>0, <2>3 DEF LockEntry, GuardInv, Users
    <3>4. \A u \in GuardThreads : u \in Users(id) /\ guardPc'[u] = "in" <=> u = t
      BY <2>0, <3>0, <2>3, <3>1, GuardAssumption DEF LockEntry, GuardInv, EntryCounted
    <3>5. \A i \in LowIds : i # id => \A u \in Users(i) : guardPc'[u] = guardPc[u]
      BY <3>0, <2>3 DEF LockEntry, GuardInv, Users
    <3>6. EntryCounted(id)'
      <4>1. EntryCounted(id) /\ Users(id)' = Users(id)
        BY <3>1, <3>3 DEF GuardInv
      <4> QED BY <3>1, <3>2, <3>4, <4>1 DEF EntryCounted
    <3>7. ASSUME NEW i \in LowIds, i # id PROVE EntryCounted(i)'
      BY <3>2, <3>3, <3>5, <3>7, EntryKept
    <3> QED BY <3>0, <2>3, <3>2, <3>6, <3>7 DEF LockEntry, GuardInv
  <2>4. ASSUME NEW t \in GuardThreads, Leave(t) PROVE GuardInv'
    <3>0. PICK id \in LowIds : id = low[t]
      BY DEF GuardInv
    <3>1. id \in DOMAIN rel /\ t \in Users(id) /\ rel[id].owner = t
      BY <2>0, <3>0, <2>4 DEF Leave, GuardInv, EntryCounted, Users
    <3>2. Users(id)' = Users(id) \ {t}
      BY <3>0, <2>4 DEF Leave, GuardInv, Users
    <3>3. Cardinality(Users(id)') = Cardinality(Users(id)) - 1
      <4>1. IsFiniteSet(Users(id))
        BY UsersFinite
      <4>2. Cardinality(Users(id) \ {t}) = Cardinality(Users(id)) - 1
        BY <3>1, <4>1, FS_RemoveElement
      <4> QED BY <3>2, <4>2
    <3>4. \A i \in LowIds : i # id => Users(i)' = Users(i) /\ \A u \in Users(i) : guardPc'[u] = guardPc[u]
      BY <3>0, <2>4 DEF Leave, GuardInv, Users
    <3>5. rel[id].counter = Cardinality(Users(id))
      BY <2>0, <3>1 DEF EntryCounted
    <3>6. CASE CountedOut(t)
      <4>1. Users(id)' = {}
        <5>1. Cardinality(Users(id)') = 0 /\ IsFiniteSet(Users(id)')
          BY <3>0, <3>2, <3>3, <3>5, <3>6, UsersFinite, FS_RemoveElement DEF CountedOut, At
        <5> QED BY <5>1, FS_EmptySet
      <4>2. dangling' = {}
        <5>1. {u \in GuardThreads \ {t} : guardPc[u] \in {"wait", "in"} /\ low[u] = low[t]} \subseteq Users(id)'
          BY <3>0, <2>4 DEF Leave, Users, GuardInv
        <5> QED BY <3>0, <2>4, <3>6, <4>1, <5>1 DEF Leave, GuardInv
      <4>3. GuardTypeOK' /\ DOMAIN rel' = DOMAIN rel \ {id} /\ \A i \in DOMAIN rel' : rel'[i] = rel[i]
        BY <3>0, <2>4, <3>6 DEF Leave, GuardInv, Without
      <4>4. EntryCounted(id)'
        BY <4>1, <4>3 DEF EntryCounted
      <4>5. ASSUME NEW i \in LowIds, i # id PROVE EntryCounted(i)'
        BY <3>4, <4>3, <4>5, EntryKept
      <4> QED BY <4>2, <4>3, <4>4, <4>5 DEF GuardInv
    <3>7. CASE ~CountedOut(t)
      <4>1. GuardTypeOK' /\ DOMAIN rel' = DOMAIN rel /\ rel'[id].owner = NoOwner /\ rel'[id].counter = rel[id].counter - 1
            /\ \A i \in DOMAIN rel : i # id => rel'[i] = rel[i]
        <5>1. rel' = [rel EXCEPT ![id] = [rel[id] EXCEPT !.counter = rel[id].counter - 1, !.owner = NoOwner]]
          BY <3>0, <2>4, <3>1, <3>7 DEF Leave, GuardInv
        <5>2. rel[id].counter - 1 \in Nat
          BY <3>1, <3>5, UsersFinite
        <5>3. DOMAIN rel' = DOMAIN rel /\ rel'[id].owner = NoOwner /\ rel'[id].counter = rel[id].counter - 1
              /\ (\A i \in DOMAIN rel : i # id => rel'[i] = rel[i])
          BY <3>1, <5>1 DEF GuardInv
        <5>4. \A i \in DOMAIN rel : rel'[i] \in [counter : Nat, owner : GuardThreads \cup {NoOwner}]
          BY <3>1, <5>1, <5>2 DEF GuardInv
        <5>5. rel' \in [DOMAIN rel' -> [counter : Nat, owner : GuardThreads \cup {NoOwner}]]
          BY <3>1, <5>1, <5>3, <5>4 DEF GuardInv
        <5> QED BY <3>0, <2>4, <5>3, <5>5 DEF Leave, GuardInv
      <4>2. Users(id)' # {}
        <5>1. Cardinality(Users(id)') # 0
          BY <3>0, <3>3, <3>5, <3>7, UsersFinite DEF CountedOut, At
        <5>2. CASE Users(id)' = {}
          BY <5>1, <5>2, FS_EmptySet
        <5> QED BY <5>2
      <4>3. \A u \in Users(id)' : guardPc'[u] # "in"
        <5>1. \A u \in Users(id) \ {t} : u \in GuardThreads /\ guardPc'[u] = guardPc[u]
          BY <2>4 DEF Leave, GuardInv, Users
        <5>2. \A u \in GuardThreads : u \in Users(id) /\ guardPc[u] = "in" => u = t
          BY <2>0, <3>1 DEF EntryCounted
        <5> QED BY <3>2, <5>1, <5>2
      <4>4. dangling' = {}
        BY <3>0, <2>4, <3>7 DEF Leave, GuardInv
      <4>5. EntryCounted(id)'
        BY <3>1, <3>3, <3>5, <4>1, <4>2, <4>3, GuardAssumption DEF EntryCounted
      <4>6. ASSUME NEW i \in LowIds, i # id PROVE EntryCounted(i)'
        BY <3>4, <4>1, <4>6, EntryKept
      <4> QED BY <4>1, <4>4, <4>5, <4>6 DEF GuardInv
    <3> QED BY <3>6, <3>7
  <2>5. ASSUME NEW t \in GuardThreads, UnlockGuards(t) PROVE GuardInv'
    <3>1. GuardTypeOK'
      BY <2>5 DEF UnlockGuards, GuardInv
    <3>2. \A i \in LowIds : Users(i)' = Users(i) /\ \A u \in Users(i) : guardPc'[u] = guardPc[u]
      BY <2>5 DEF UnlockGuards, GuardInv, Users
    <3>3. \A i \in LowIds : EntryCounted(i)'
      BY <2>5, <3>1, <3>2, EntryKept DEF UnlockGuards
    <3> QED BY <2>5, <3>1, <3>3 DEF UnlockGuards, GuardInv
  <2>6. CASE UNCHANGED guardVars
    <3>1. \A i \in LowIds : Users(i)' = Users(i)
      BY <2>6 DEF guardVars, Users
    <3>2. \A i \in LowIds : EntryCounted(i)'
      BY <2>0, <2>6, <3>1 DEF guardVars, EntryCounted
    <3> QED BY <2>6, <3>2 DEF guardVars, GuardInv
  <2> QED BY <2>1, <2>2, <2>3, <2>4, <2>5, <2>6 DEF GuardNext, GuardStep
<1>3. GuardInv => EntriesCounted
  <2> SUFFICES ASSUME GuardInv PROVE EntriesCounted
    OBVIOUS
  <2>1. ASSUME NEW i \in LowIds
        PROVE  LET inside == {t \in Users(i) : guardPc[t] = "in"}
               IN /\ Cardinality(inside) <= 1
                  /\ i \in DOMAIN rel => \A t \in inside : rel[i].owner = t
    <3> DEFINE inside == {t \in Users(i) : guardPc[t] = "in"}
    <3>1. \A t \in inside : i \in DOMAIN rel /\ rel[i].owner = t
      BY DEF GuardInv, EntryCounted, Users
    <3>2. inside = {} \/ \E t : inside = {t}
      <4> SUFFICES ASSUME NEW t \in inside PROVE inside = {t}
        OBVIOUS
      <4> QED BY <3>1
    <3>3. Cardinality(inside) = 0 \/ Cardinality(inside) = 1
      BY <3>2, FS_EmptySet, FS_Singleton
    <3> QED BY <3>1, <3>3
  <2> QED BY <2>1 DEF GuardInv, EntryCounted, EntriesCounted, Users
<1> QED BY <1>1, <1>2, <1>3, PTL DEF GuardSpec

-----------------------------------------------------------------------------
(* TimerPool *)

PoolTypeOK ==
  /\ queue \in Seq(Timers) /\ ready \in Seq(Timers)
  /\ terminated \in BOOLEAN
  /\ sleepers \subseteq PoolWorkers \cup {MainThread}
  /\ workerAt \in [PoolWorkers -> {"loop", "run", "exit"}]
  /\ mainAt \in {"poll", "enqueue", "notify", "ended", "terminated", "join", "destroyed"}
  /\ mainAt \in {"enqueue", "notify"} => ready # <<>>

Asleep == sleepers \cap PoolWorkers

\* While the main thread sleeps there are more handlers in the queue than workers asleep: it went
\* to sleep with a worker awake and as many handlers as workers, and each handler taken since
\* woke another worker. So the last sleeper woken is the main thread.
PoolInv ==
  /\ PoolTypeOK
  /\ mainAt # "enqueue" => MainThread \notin sleepers
  /\ ~terminated =>
       /\ queue # <<>> => mainAt = "notify" \/ \E w \in PoolWorkers : w \notin sleepers
       /\ MainThread \in sleepers => Cardinality(Asleep) < Len(queue)

\* The workers that sleep are finitely many, fewer than all when one is awake.
LEMMA AsleepBound ==
  ASSUME TRUE
  PROVE  /\ IsFiniteSet(Asleep) /\ Cardinality(Asleep) \in Nat
         /\ Cardinality(PoolWorkers) \in Nat /\ Cardinality(PoolWorkers) > 0
         /\ \A w \in PoolWorkers : w \notin sleepers => Cardinality(Asleep) < Cardinality(PoolWorkers)
<1>1. IsFiniteSet(PoolWorkers) /\ PoolWorkers # {} /\ Asleep \in SUBSET PoolWorkers
  BY TimerPoolAssumption DEF Asleep
<1>2. /\ IsFiniteSet(Asleep) /\ Cardinality(Asleep) <= Cardinality(PoolWorkers)
      /\ Cardinality(PoolWorkers) = Cardinality(Asleep) => PoolWorkers = Asleep
  BY <1>1, FS_Subset
<1>3. Cardinality(Asleep) \in Nat /\ Cardinality(PoolWorkers) \in Nat /\ Cardinality(PoolWorkers) # 0
  BY <1>1, <1>2, FS_CardinalityType, FS_EmptySet
<1>4. \A w \in PoolWorkers : w \notin sleepers => PoolWorkers # Asleep
  BY DEF Asleep
<1> QED BY <1>2, <1>3, <1>4

\* One condition variable for both ends of the queue loses no wakeup that matters as long as the
\* queue holds as many handlers as the pool has threads: PoolAwake for any such pool.
THEOREM PoolSafe == PoolSpec => []PoolAwake
<1>1. PoolInit => PoolInv
  <2> SUFFICES ASSUME PoolInit PROVE PoolInv
    OBVIOUS
  <2>1. /\ queue = <<>> /\ ready = <<>> /\ sleepers = {} /\ mainAt = "poll" /\ terminated = FALSE
        /\ workerAt = [w \in PoolWorkers |-> "loop"]
    BY DEF PoolInit
  <2>2. <<>> \in Seq(Timers)
    BY EmptySeq
  <2> QED BY <2>1, <2>2 DEF PoolInv, PoolTypeOK
<1>2. PoolInv /\ [PoolNext]_poolVars => PoolInv'
  <2> SUFFICES ASSUME PoolInv, [PoolNext]_poolVars PROVE PoolInv'
    OBVIOUS
  <2> USE DEF PoolTypeOK
  <2>1. ASSUME NEW x \in Timers, Expire(x) PROVE PoolInv'
    <3>1. ready' \in Seq(Timers) /\ ready' # <<>>
      BY <2>1, AppendProperties DEF Expire, PoolInv
    <3> QED BY <2>1, <3>1 DEF Expire, PoolInv, Asleep
  <2>2. CASE Reschedule
    BY <2>2 DEF Reschedule, PoolInv, Asleep
  <2>3. CASE Enqueue
    <3>1. CASE Full /\ sleepers' = sleepers \cup {MainThread} /\ UNCHANGED <<queue, mainAt>>
      <4>1. Len(queue) \in Nat /\ Len(queue) >= Cardinality(PoolWorkers) /\ queue # <<>>
        <5>1. Len(queue) \in Nat /\ Len(queue) >= Cardinality(PoolWorkers)
          BY <3>1, AsleepBound, TimerPoolAssumption DEF Full, PoolInv
        <5> QED BY <5>1, AsleepBound
      <4>2. \E w \in PoolWorkers : w \notin sleepers
        BY <2>3, <4>1 DEF Enqueue, PoolInv
      <4>3. Cardinality(Asleep) < Len(queue)
        BY <4>1, <4>2, AsleepBound
      <4>4. Asleep' = Asleep
        BY <3>1, TimerPoolAssumption DEF Asleep
      <4>5. \E w \in PoolWorkers : w \notin sleepers'
        BY <3>1, <4>2, TimerPoolAssumption
      <4> QED BY <2>3, <3>1, <4>3, <4>4, <4>5 DEF Enqueue, PoolInv
    <3>2. CASE ~Full /\ queue' = Append(queue, Head(ready)) /\ mainAt' = "notify" /\ UNCHANGED sleepers
      <4>1. Head(ready) \in Timers
        BY <2>3 DEF Enqueue, PoolInv
      <4>2. queue' \in Seq(Timers)
        BY <3>2, <4>1, AppendProperties DEF PoolInv
      <4> QED BY <2>3, <3>2, <4>2 DEF Enqueue, PoolInv
    <3> QED BY <2>3, <3>1, <3>2 DEF Enqueue
  <2>4. CASE NotifyAndRearm
    <3>1. ready' \in Seq(Timers) /\ MainThread \notin sleepers
      BY <2>4 DEF NotifyAndRearm, PoolInv
    <3>2. sleepers' \subseteq sleepers /\ \E w \in PoolWorkers : w \notin sleepers'
      <4>1. CASE sleepers = {}
        BY <2>4, <4>1, TimerPoolAssumption DEF NotifyAndRearm, NotifyOne
      <4>2. CASE sleepers # {}
        <5>1. PICK t \in sleepers : sleepers' = sleepers \ {t}
          BY <2>4, <4>2 DEF NotifyAndRearm, NotifyOne
        <5> QED BY <3>1, <5>1 DEF PoolInv
      <4> QED BY <4>1, <4>2
    <3> QED BY <2>4, <3>1, <3>2 DEF NotifyAndRearm, PoolInv
  <2>5. CASE RunEnds \/ Terminate \/ NotifyAll \/ JoinWorkers
    BY <2>5 DEF RunEnds, Terminate, NotifyAll, JoinWorkers, PoolInv, Asleep
  <2>6. ASSUME NEW w \in PoolWorkers, WorkThread(w) PROVE PoolInv'
    <3> DEFINE sleep == ~terminated /\ queue = <<>>
                        /\ sleepers' = sleepers \cup {w} /\ UNCHANGED <<queue, workerAt, handling>>
               exit == terminated /\ workerAt' = [workerAt EXCEPT ![w] = "exit"] /\ UNCHANGED <<queue, sleepers, handling>>
               take == ~terminated /\ queue # <<>> /\ workerAt' = [workerAt EXCEPT ![w] = "run"]
                       /\ queue' = Tail(queue) /\ NotifyOne(sleepers)
    <3>1. CASE sleep
      <4>1. MainThread \notin sleepers
        <5>1. Len(queue) = 0
          BY <3>1
        <5> QED BY <3>1, <5>1, AsleepBound DEF PoolInv
      <4> QED BY <2>6, <3>1, <4>1, TimerPoolAssumption DEF WorkThread, PoolInv
    <3>2. CASE exit
      BY <2>6, <3>2 DEF WorkThread, PoolInv, Asleep
    <3>3. CASE take
      <4>1. queue' \in Seq(Timers) /\ Len(queue') = Len(queue) - 1 /\ Len(queue) \in Nat
        BY <3>3, HeadTailProperties DEF PoolInv
      <4>2. sleepers' \subseteq sleepers /\ w \notin sleepers'
        BY <2>6, <3>3 DEF WorkThread, NotifyOne
      <4>3. ASSUME MainThread \in sleepers' PROVE Cardinality(Asleep') < Len(queue')
        <5>1. PICK t \in sleepers : sleepers' = sleepers \ {t}
          BY <3>3, <4>2, <4>3 DEF NotifyOne
        <5>2. t \in Asleep /\ Asleep' = Asleep \ {t}
          BY <4>2, <4>3, <5>1 DEF PoolInv, Asleep
        <5>3. Cardinality(Asleep \ {t}) = Cardinality(Asleep) - 1
          BY <5>2, AsleepBound, FS_RemoveElement
        <5>4. Cardinality(Asleep) < Len(queue) /\ Cardinality(Asleep) \in Nat
          BY <3>3, <4>2, <4>3, AsleepBound DEF PoolInv
        <5> QED BY <4>1, <5>2, <5>3, <5>4
      <4> QED BY <2>6, <3>3, <4>1, <4>2, <4>3 DEF WorkThread, PoolInv
    <3> QED BY <2>6, <3>1, <3>2, <3>3 DEF WorkThread
  <2>7. ASSUME NEW w \in PoolWorkers, Handle(w) PROVE PoolInv'
    BY <2>7 DEF Handle, PoolInv, Asleep
  <2>8. CASE UNCHANGED poolVars
    BY <2>8 DEF poolVars, PoolInv, Asleep
  <2> QED BY <2>1, <2>2, <2>3, <2>4, <2>5, <2>6, <2>7, <2>8 DEF PoolNext, MainStep, WorkerStep
<1>3. PoolInv => PoolAwake
  <2> SUFFICES ASSUME PoolInv, ~terminated, MainThread \in sleepers
               PROVE  \E w \in PoolWorkers : w \notin sleepers
    BY DEF PoolInv, PoolAwake
  <2>1. Cardinality(Asleep) < Len(queue) /\ mainAt = "enqueue"
    BY DEF PoolInv
  <2>2. queue # <<>>
    BY <2>1, AsleepBound
  <2> QED BY <2>1, <2>2 DEF PoolInv
<1> QED BY <1>1, <1>2, <1>3, PTL DEF PoolSpec

-----------------------------------------------------------------------------
(* TableService *)

\* A call and its locals.
Rpc == [at : {"idle", "tid", "write", "segmap", "settid", "answer", "return"},
        name : TableNames \cup {NotThere}, id : TableIds \cup {NotThere}, answer : Nat]

\* The id a process gives to the table it makes after k others when it has started with b.
Nth(b, k) == IF b + k < Top THEN b + k ELSE b + k - Top

ServiceTypeOK ==
  /\ seqKey \in [there : BOOLEAN, text : BOOLEAN, id : TableIds]
  /\ tid \in TableIds
  /\ tableOf \in [DOMAIN tableOf -> TableIds]
  /\ made \in [DOMAIN tableOf -> [start : Nat, first : TableIds, nth : Nat]]
  /\ era \in [first : TableIds, count : Nat]
  /\ segmentOf = [i \in DOMAIN segmentOf |-> <<i, 0>>]
  /\ starts \in Nat /\ lastId \in Nat /\ rpcCount \in 0 .. MaxRpcs
  /\ running \in BOOLEAN /\ overlap \in BOOLEAN
  /\ rpcs \in [RpcThreads -> Rpc]

\* What is known of the store and of each call, however calls overlap.
Recorded ==
  /\ \A a \in answers : a.name \in DOMAIN tableOf /\ a.start \in Nat /\ a.start <= starts
  /\ \A n \in DOMAIN tableOf : tableOf[n] \in DOMAIN segmentOf /\ made[n].start <= starts
  /\ DOMAIN segmap \subseteq DOMAIN segmentOf

CallRecorded(t) ==
  /\ rpcs[t].at \in {"segmap", "settid", "answer", "return"} => rpcs[t].name \in DOMAIN tableOf
  /\ rpcs[t].at = "segmap" => rpcs[t].id \in DOMAIN segmentOf
  /\ rpcs[t].at \in {"write", "segmap", "settid"} => rpcs[t].id \in TableIds
  /\ rpcs[t].at # "idle" => running

\* The tables a process makes have the ids that follow the one it has started with, in turn.
InTurn ==
  /\ \A n \in DOMAIN tableOf :
       /\ made[n].nth < MaxRpcs /\ tableOf[n] = Nth(made[n].first, made[n].nth)
       /\ made[n].start = starts => made[n].first = era.first /\ made[n].nth < era.count
  /\ \A m, n \in DOMAIN tableOf : made[m].start = made[n].start =>
       made[m].first = made[n].first /\ (made[m].nth = made[n].nth => m = n)

\* The id of the next table.
TidIsNext == tid = Nth(era.first, era.count)

\* What holds as long as no two calls have overlapped: the one call there is, if any, has tid_ as
\* its id until it has written the table, and leaves the next id as tid_ once it has ended.
OneAtATime ==
  /\ InTurn /\ era.count <= rpcCount
  /\ \A t, u \in RpcThreads : rpcs[t].at # "idle" /\ rpcs[u].at # "idle" => t = u
  /\ running /\ (\A t \in RpcThreads : rpcs[t].at \notin {"segmap", "settid"}) => TidIsNext
  /\ \A t \in RpcThreads :
       /\ rpcs[t].at \in {"tid", "write"} => era.count < rpcCount
       /\ rpcs[t].at = "write" => rpcs[t].id = tid
       /\ rpcs[t].at \in {"segmap", "settid"} => NextTid(rpcs[t].id) = Nth(era.first, era.count)
       /\ rpcs[t].at = "return" => rpcs[t].answer = lastId
  /\ \A a \in answers : a.id \in Nat /\ (a.start = starts => a.id < lastId)
  /\ \A a, b \in answers : a.start = b.start /\ a.id = b.id => a = b

ServiceInv ==
  /\ ServiceTypeOK
  /\ Recorded
  /\ \A t \in RpcThreads : CallRecorded(t)
  /\ ~overlap => OneAtATime

\* The next id is an id, the one after the largest is 0.
LEMMA NextTidIs ==
  ASSUME NEW id \in TableIds
  PROVE  NextTid(id) \in TableIds /\ NextTid(id) = IF id + 1 < Top THEN id + 1 ELSE 0
<1>1. Top \in Nat /\ Top > 0 /\ id \in Nat /\ id + 1 <= Top
  BY ServiceAssumption DEF TableIds
<1>2. CASE id + 1 < Top
  <2>1. (id + 1) % Top = id + 1
    BY <1>1, <1>2
  <2> QED BY <1>1, <1>2, <2>1 DEF NextTid, TableIds
<1>3. CASE id + 1 = Top
  <2>1. Top % Top = 0
    BY <1>1
  <2> QED BY <1>1, <1>3, <2>1 DEF NextTid, TableIds
<1> QED BY <1>1, <1>2, <1>3

\* Ids that follow one another, and a process has too few calls to come back to one.
LEMMA NthNext ==
  ASSUME NEW b \in TableIds, NEW k \in Nat, k < MaxRpcs
  PROVE  Nth(b, k) \in TableIds /\ NextTid(Nth(b, k)) = Nth(b, k + 1)
<1>1. Top \in Nat /\ b \in Nat /\ b < Top /\ k + 1 < Top
  BY ServiceAssumption DEF TableIds
<1>2. Nth(b, k) \in TableIds
  BY <1>1 DEF Nth, TableIds
<1>3. NextTid(Nth(b, k)) = IF Nth(b, k) + 1 < Top THEN Nth(b, k) + 1 ELSE 0
  BY <1>2, NextTidIs
<1> QED BY <1>1, <1>2, <1>3 DEF Nth

LEMMA NthZero ==
  ASSUME NEW b \in TableIds
  PROVE  b = Nth(b, 0)
<1>1. b \in Nat /\ Top \in Nat /\ b < Top
  BY ServiceAssumption DEF TableIds
<1> QED BY <1>1 DEF Nth

LEMMA NthDiffers ==
  ASSUME NEW b \in TableIds, NEW j \in Nat, NEW k \in Nat, j <= MaxRpcs, k <= MaxRpcs, Nth(b, j) = Nth(b, k)
  PROVE  j = k
BY ServiceAssumption DEF TableIds, Nth

\* A step of a call that leaves the store, the next ids and the answers alone.
LEMMA CallKeeps ==
  ASSUME ServiceInv, NEW t \in RpcThreads, rpcs[t].at # "idle",
         UNCHANGED <<seqKey, tableOf, segmentOf, starts, running, tid, lastId, answers, overlap, era, made, rpcCount>>,
         DOMAIN segmap' \subseteq DOMAIN segmentOf,
         NEW r \in Rpc, rpcs' = [rpcs EXCEPT ![t] = r], r.at # "idle",
         CallRecorded(t)',
         r.at \in {"tid", "write"} => rpcs[t].at \in {"tid", "write"},
         r.at = "write" => r.id = tid,
         r.at \in {"segmap", "settid"} <=> rpcs[t].at \in {"segmap", "settid"},
         r.at \in {"segmap", "settid"} => r.id = rpcs[t].id,
         r.at = "return" => r.answer = lastId
  PROVE  ServiceInv'
<1>1. rpcs'[t] = r /\ (\A u \in RpcThreads : u # t => rpcs'[u] = rpcs[u]) /\ rpcs' \in [RpcThreads -> Rpc]
  BY DEF ServiceInv, ServiceTypeOK
<1>2. ServiceTypeOK'
  BY <1>1 DEF ServiceInv, ServiceTypeOK
<1>3. Recorded' /\ \A u \in RpcThreads : CallRecorded(u)'
  BY <1>1 DEF ServiceInv, Recorded, CallRecorded
<1>4. ASSUME ~overlap PROVE OneAtATime'
  <2>1. OneAtATime
    BY <1>4 DEF ServiceInv
  <2>2. InTurn'
    BY <2>1 DEF OneAtATime, InTurn
  <2>3. TidIsNext' = TidIsNext
    BY DEF TidIsNext
  <2>4. \A u \in RpcThreads : rpcs'[u].at \in {"segmap", "settid"} <=> rpcs[u].at \in {"segmap", "settid"}
    BY <1>1
  <2>5. \A u \in RpcThreads : rpcs'[u].at # "idle" <=> rpcs[u].at # "idle"
    BY <1>1
  <2>6. \A u \in RpcThreads : rpcs'[u].at \in {"tid", "write"} => rpcs[u].at \in {"tid", "write"}
    BY <1>1
  <2> QED BY <1>1, <2>1, <2>2, <2>3, <2>4, <2>5, <2>6 DEF OneAtATime
<1> QED BY <1>2, <1>3, <1>4 DEF ServiceInv

\* Tables are recorded whatever overlaps and crashes, and without overlap no process gives an id
\* twice, whatever it has misread as its first one: TablesRecorded for any calls, names, starts
\* and sizes of ids and texts, as long as there are fewer calls than ids.
THEOREM TablesSafe == ServiceSpec => []TablesRecorded
<1>1. ServiceInit => ServiceInv
  <2> SUFFICES ASSUME ServiceInit PROVE ServiceInv
    OBVIOUS
  <2>1. 0 \in TableIds /\ 0 \in 0 .. MaxRpcs
    BY ServiceAssumption DEF TableIds
  <2>2. Idle \in Rpc /\ Idle.at = "idle"
    BY DEF Idle, Rpc
  <2>3. DOMAIN tableOf = {} /\ DOMAIN made = {} /\ DOMAIN segmentOf = {} /\ DOMAIN segmap = {}
    BY DEF ServiceInit
  <2>4. tableOf \in [DOMAIN tableOf -> TableIds] /\ made \in [DOMAIN tableOf -> [start : Nat, first : TableIds, nth : Nat]]
    BY DEF ServiceInit
  <2>5. ServiceTypeOK
    BY <2>1, <2>2, <2>3, <2>4 DEF ServiceInit, ServiceTypeOK
  <2>6. Recorded /\ \A t \in RpcThreads : CallRecorded(t)
    BY <2>2, <2>3 DEF ServiceInit, Recorded, CallRecorded
  <2>7. OneAtATime
    BY <2>2, <2>3 DEF ServiceInit, OneAtATime, InTurn
  <2> QED BY <2>5, <2>6, <2>7 DEF ServiceInv
<1>2. ServiceInv /\ [ServiceNext]_serviceVars => ServiceInv'
  <2> SUFFICES ASSUME ServiceInv, [ServiceNext]_serviceVars PROVE ServiceInv'
    OBVIOUS
  <2> USE DEF storeVars, processVars, historyVars
  <2>1. CASE Start
    <3>1. \A t \in RpcThreads : rpcs[t].at = "idle"
      BY <2>1 DEF Start, ServiceInv, ServiceTypeOK, CallRecorded, Rpc
    <3>2. 0 \in TableIds
      BY ServiceAssumption DEF TableIds
    <3>3. tid' \in TableIds /\ seqKey' \in [there : BOOLEAN, text : BOOLEAN, id : TableIds]
      <4>1. CASE ~seqKey.there
        <5>1. seqKey' = [there |-> TRUE, text |-> FALSE, id |-> 0] /\ tid' = 0
          BY <2>1, <4>1 DEF Start
        <5> QED BY <3>2, <5>1
      <4>2. CASE seqKey.there
        BY <2>1, <4>2 DEF Start, ServiceInv, ServiceTypeOK
      <4> QED BY <4>1, <4>2
    <3>4. era' = [first |-> tid', count |-> 0] /\ starts' = starts + 1 /\ starts \in Nat
      BY <2>1 DEF Start, ServiceInv, ServiceTypeOK
    <3>5. ServiceTypeOK'
      BY <2>1, <3>3, <3>4 DEF Start, ServiceInv, ServiceTypeOK
    <3>6. Recorded'
      <4>1. DOMAIN segmap' = {}
        BY <2>1 DEF Start
      <4>2. \A n \in DOMAIN tableOf : made[n].start \in Nat
        BY DEF ServiceInv, ServiceTypeOK
      <4> QED BY <2>1, <3>4, <4>1, <4>2 DEF Start, ServiceInv, Recorded
    <3>7. \A t \in RpcThreads : CallRecorded(t)'
      BY <2>1, <3>1 DEF Start, CallRecorded
    <3>8. ASSUME ~overlap PROVE OneAtATime'
      <4>1. OneAtATime
        BY <3>8 DEF ServiceInv
      <4>2. \A n \in DOMAIN tableOf : made[n].start \in Nat /\ made[n].start <= starts
        BY DEF ServiceInv, ServiceTypeOK, Recorded
      <4>3. InTurn'
        BY <2>1, <3>4, <4>1, <4>2 DEF Start, OneAtATime, InTurn
      <4>4. \A a \in answers' : a.id \in Nat /\ a.start # starts'
        BY <2>1, <3>4, <4>1 DEF Start, ServiceInv, Recorded, OneAtATime
      <4>5. TidIsNext'
        <5>1. tid' = Nth(tid', 0)
          BY <3>3, NthZero
        <5> QED BY <3>4, <5>1 DEF TidIsNext
      <4>6. era'.count <= rpcCount'
        BY <2>1, <3>4 DEF Start, ServiceInv, ServiceTypeOK
      <4> QED BY <2>1, <3>1, <4>1, <4>3, <4>4, <4>5, <4>6 DEF Start, OneAtATime
    <3> QED BY <2>1, <3>5, <3>6, <3>7, <3>8 DEF Start, ServiceInv
  <2>2. CASE Crash
    <3>1. Idle \in Rpc /\ Idle.at = "idle"
      BY DEF Idle, Rpc
    <3>2. ServiceTypeOK' /\ Recorded' /\ \A t \in RpcThreads : CallRecorded(t)'
      BY <2>2, <3>1 DEF Crash, ServiceInv, ServiceTypeOK, Recorded, CallRecorded
    <3>3. ~overlap => OneAtATime'
      BY <2>2, <3>1 DEF Crash, ServiceInv, OneAtATime, InTurn
    <3> QED BY <2>2, <3>2, <3>3 DEF Crash, ServiceInv
  <2>3. ASSUME NEW t \in RpcThreads, NEW n \in TableNames, CreateTable(t, n) PROVE ServiceInv'
    <3> DEFINE r == [Idle EXCEPT !.name = n, !.at = IF n \in DOMAIN tableOf THEN "answer" ELSE "tid"]
    <3>1. r \in Rpc /\ r.at = (IF n \in DOMAIN tableOf THEN "answer" ELSE "tid") /\ r.name = n
      BY DEF Idle, Rpc
    <3>2. rpcs' = [rpcs EXCEPT ![t] = r]
      BY <2>3 DEF CreateTable, Goes
    <3> HIDE DEF r
    <3>3. rpcs'[t] = r /\ (\A u \in RpcThreads : u # t => rpcs'[u] = rpcs[u]) /\ rpcs' \in [RpcThreads -> Rpc]
      BY <3>1, <3>2 DEF ServiceInv, ServiceTypeOK
    <3>4. ServiceTypeOK'
      <4>1. rpcCount' \in 0 .. MaxRpcs
        BY <2>3, ServiceAssumption DEF CreateTable, ServiceInv, ServiceTypeOK
      <4> QED BY <2>3, <3>3, <4>1 DEF CreateTable, ServiceInv, ServiceTypeOK
    <3>5. Recorded' /\ \A u \in RpcThreads : CallRecorded(u)'
      BY <2>3, <3>1, <3>3 DEF CreateTable, ServiceInv, Recorded, CallRecorded
    <3>6. ASSUME ~overlap' PROVE OneAtATime'
      <4>1. OneAtATime /\ \A u \in RpcThreads : rpcs[u].at = "idle"
        BY <2>3, <3>6 DEF CreateTable, ServiceInv
      <4>2. InTurn' /\ TidIsNext'
        BY <2>3, <4>1 DEF CreateTable, OneAtATime, InTurn, TidIsNext
      <4>3. era'.count < rpcCount'
        BY <2>3, <4>1 DEF CreateTable, OneAtATime, ServiceInv, ServiceTypeOK
      <4>4. era'.count <= rpcCount'
        BY <2>3, <4>1 DEF CreateTable, OneAtATime, ServiceInv, ServiceTypeOK
      <4> QED BY <2>3, <3>1, <3>3, <4>1, <4>2, <4>3, <4>4 DEF CreateTable, OneAtATime
    <3> QED BY <3>4, <3>5, <3>6 DEF ServiceInv
  <2>4. ASSUME NEW t \in RpcThreads, GetTid(t) PROVE ServiceInv'
    <3> DEFINE r == [rpcs[t] EXCEPT !.id = tid, !.at = "write"]
    <3>1. r \in Rpc /\ r.at = "write" /\ r.id = tid /\ rpcs[t].at = "tid" /\ tid \in TableIds
      BY <2>4 DEF GetTid, ServiceInv, ServiceTypeOK, Rpc
    <3>2. rpcs' = [rpcs EXCEPT ![t] = r] /\ rpcs'[t] = r
      BY <2>4, <3>1 DEF GetTid, Goes, ServiceInv, ServiceTypeOK
    <3> HIDE DEF r
    <3>3. CallRecorded(t)'
      BY <2>4, <3>1, <3>2 DEF GetTid, ServiceInv, CallRecorded
    <3>4. DOMAIN segmap' \subseteq DOMAIN segmentOf
      BY <2>4 DEF GetTid, ServiceInv, Recorded
    <3> QED BY <2>4, <3>1, <3>2, <3>3, <3>4, CallKeeps DEF GetTid
  <2>5. ASSUME NEW t \in RpcThreads, WriteTable(t) PROVE ServiceInv'
    <3> DEFINE r == [rpcs[t] EXCEPT !.at = "segmap"]
               id == rpcs[t].id
               name == rpcs[t].name
               new == [start |-> starts, first |-> era.first, nth |-> era.count]
    <3>1. id \in TableIds /\ NextTid(id) \in TableIds
      BY <2>5, NextTidIs DEF WriteTable, ServiceInv, CallRecorded
    <3>2. r \in Rpc /\ r.at = "segmap" /\ r.id = id /\ r.name = name
      BY DEF ServiceInv, ServiceTypeOK, Rpc
    <3>3. rpcs'[t] = r /\ (\A u \in RpcThreads : u # t => rpcs'[u] = rpcs[u]) /\ rpcs' \in [RpcThreads -> Rpc]
      BY <2>5, <3>2 DEF WriteTable, Goes, ServiceInv, ServiceTypeOK
    <3>4. /\ DOMAIN tableOf' = DOMAIN tableOf \cup {name} /\ tableOf'[name] = id
          /\ \A n \in DOMAIN tableOf : n # name => tableOf'[n] = tableOf[n]
      BY <2>5 DEF WriteTable, SetAt
    <3>5. DOMAIN segmentOf' = DOMAIN segmentOf \cup {id}
      BY <2>5 DEF WriteTable, SetAt
    <3>6. seqKey' = [there |-> TRUE, text |-> TRUE, id |-> NextTid(id)]
      BY <2>5 DEF WriteTable
    <3>7. /\ new \in [start : Nat, first : TableIds, nth : Nat]
          /\ new.start = starts /\ new.first = era.first /\ new.nth = era.count
      BY DEF ServiceInv, ServiceTypeOK
    <3>8. /\ DOMAIN made = DOMAIN tableOf /\ made' = SetAt(made, name, new)
          /\ era'.first = era.first /\ era'.count = era.count + 1 /\ era' \in [first : TableIds, count : Nat]
      BY <2>5 DEF WriteTable, ServiceInv, ServiceTypeOK
    <3> HIDE DEF r, new
    <3>9. /\ made'[name] = new /\ \A n \in DOMAIN tableOf : n # name => made'[n] = made[n]
          /\ made' \in [DOMAIN tableOf' -> [start : Nat, first : TableIds, nth : Nat]]
      BY <3>4, <3>7, <3>8 DEF SetAt, ServiceInv, ServiceTypeOK
    <3>10. ServiceTypeOK'
      <4>1. tableOf' \in [DOMAIN tableOf' -> TableIds]
        BY <2>5, <3>1 DEF WriteTable, SetAt, ServiceInv, ServiceTypeOK
      <4>2. segmentOf' = [i \in DOMAIN segmentOf' |-> <<i, 0>>]
        BY <2>5, <3>5 DEF WriteTable, SetAt, ServiceInv, ServiceTypeOK
      <4> QED BY <2>5, <3>1, <3>3, <3>6, <3>8, <3>9, <4>1, <4>2 DEF WriteTable, ServiceInv, ServiceTypeOK
    <3>11. Recorded'
      <4>1. \A n \in DOMAIN tableOf' : tableOf'[n] \in DOMAIN segmentOf' /\ made'[n].start <= starts
        BY <3>4, <3>5, <3>7, <3>9 DEF ServiceInv, Recorded, ServiceTypeOK
      <4> QED BY <2>5, <3>4, <3>5, <4>1 DEF WriteTable, ServiceInv, Recorded
    <3>12. \A u \in RpcThreads : CallRecorded(u)'
      BY <2>5, <3>1, <3>2, <3>3, <3>4, <3>5 DEF WriteTable, ServiceInv, CallRecorded
    <3>13. ASSUME ~overlap PROVE OneAtATime'
      <4>1. OneAtATime /\ id = tid /\ era.count < rpcCount /\ rpcs[t].at = "write"
        BY <2>5, <3>13 DEF WriteTable, ServiceInv, OneAtATime
      <4>2. \A u \in RpcThreads : u # t => rpcs[u].at = "idle"
        BY <4>1 DEF OneAtATime
      <4>3. TidIsNext /\ InTurn
        BY <4>1, <4>2 DEF OneAtATime, ServiceInv, CallRecorded
      <4>4. era.first \in TableIds /\ era.count \in Nat /\ rpcCount \in Nat /\ rpcCount <= MaxRpcs /\ MaxRpcs \in Nat
        BY ServiceAssumption DEF ServiceInv, ServiceTypeOK
      <4>5. era.count < MaxRpcs /\ era.count + 1 <= rpcCount
        BY <4>1, <4>4
      <4>6. id = Nth(era.first, era.count)
        BY <4>1, <4>3 DEF TidIsNext
      <4>7. NextTid(id) = Nth(era'.first, era'.count)
        BY <3>8, <4>4, <4>5, <4>6, NthNext
      <4>8. InTurn'
        <5>1. \A n \in DOMAIN tableOf : made[n].nth \in Nat
          BY DEF ServiceInv, ServiceTypeOK
        <5>2. ASSUME NEW n \in DOMAIN tableOf'
              PROVE  /\ made'[n].nth < MaxRpcs /\ tableOf'[n] = Nth(made'[n].first, made'[n].nth)
                     /\ made'[n].start = starts => made'[n].first = era'.first /\ made'[n].nth < era'.count
          <6>1. CASE n = name
            BY <3>4, <3>7, <3>8, <3>9, <4>4, <4>5, <4>6, <6>1
          <6>2. CASE n # name
            <7>1. n \in DOMAIN tableOf /\ made'[n] = made[n] /\ tableOf'[n] = tableOf[n]
              BY <3>4, <3>9, <6>2
            <7> QED BY <3>8, <4>3, <4>4, <5>1, <7>1 DEF InTurn
          <6> QED BY <6>1, <6>2
        <5>3. ASSUME NEW m \in DOMAIN tableOf', NEW n \in DOMAIN tableOf', made'[m].start = made'[n].start
              PROVE  made'[m].first = made'[n].first /\ (made'[m].nth = made'[n].nth => m = n)
          <6>1. \A k \in DOMAIN tableOf' : k # name =>
                  /\ k \in DOMAIN tableOf /\ made'[k] = made[k]
                  /\ made[k].start = starts => made[k].first = era.first /\ made[k].nth # era.count
            BY <3>4, <3>9, <4>3, <4>4, <5>1 DEF InTurn
          <6>2. CASE m # name /\ n # name
            BY <4>3, <5>3, <6>1, <6>2 DEF InTurn
          <6>3. CASE m = name \/ n = name
            BY <3>7, <3>9, <5>3, <6>1, <6>3
          <6> QED BY <6>2, <6>3
        <5>4. starts' = starts
          BY <2>5 DEF WriteTable
        <5> QED BY <5>2, <5>3, <5>4 DEF InTurn
      <4>9. UNCHANGED <<running, rpcCount, answers, lastId, starts>> /\ rpcs'[t].at = "segmap" /\ rpcs'[t].id = id
        BY <2>5, <3>2, <3>3 DEF WriteTable
      <4>10. era'.count <= rpcCount'
        BY <3>8, <4>5, <4>9
      <4>11. \A u \in RpcThreads : u # t => rpcs'[u].at = "idle"
        BY <3>3, <4>2
      <4> HIDE DEF id, name
      <4> QED BY <4>1, <4>7, <4>8, <4>9, <4>10, <4>11 DEF OneAtATime
    <3> QED BY <2>5, <3>10, <3>11, <3>12, <3>13 DEF WriteTable, ServiceInv
  <2>6. ASSUME NEW t \in RpcThreads, UpdateSegMap(t) PROVE ServiceInv'
    <3> DEFINE r == [rpcs[t] EXCEPT !.at = "settid"]
    <3>1. r \in Rpc /\ r.at = "settid" /\ r.id = rpcs[t].id /\ r.name = rpcs[t].name /\ rpcs[t].at = "segmap"
      BY <2>6 DEF UpdateSegMap, ServiceInv, ServiceTypeOK, Rpc
    <3>2. rpcs' = [rpcs EXCEPT ![t] = r] /\ rpcs'[t] = r
      BY <2>6, <3>1 DEF UpdateSegMap, Goes, ServiceInv, ServiceTypeOK
    <3> HIDE DEF r
    <3>3. CallRecorded(t)'
      BY <2>6, <3>1, <3>2 DEF UpdateSegMap, ServiceInv, CallRecorded
    <3>4. DOMAIN segmap' \subseteq DOMAIN segmentOf
      BY <2>6 DEF UpdateSegMap, SetAt, ServiceInv, Recorded, CallRecorded
    <3> QED BY <2>6, <3>1, <3>2, <3>3, <3>4, CallKeeps DEF UpdateSegMap
  <2>7. ASSUME NEW t \in RpcThreads, SetTid(t) PROVE ServiceInv'
    <3> DEFINE r == [rpcs[t] EXCEPT !.at = "answer"]
    <3>1. r \in Rpc /\ r.at = "answer" /\ r.name = rpcs[t].name /\ rpcs[t].at = "settid"
      BY <2>7 DEF SetTid, ServiceInv, ServiceTypeOK, Rpc
    <3>2. rpcs'[t] = r /\ (\A u \in RpcThreads : u # t => rpcs'[u] = rpcs[u]) /\ rpcs' \in [RpcThreads -> Rpc]
      BY <2>7, <3>1 DEF SetTid, Goes, ServiceInv, ServiceTypeOK
    <3> HIDE DEF r
    <3>3. tid' \in TableIds
      BY <2>7, NextTidIs DEF SetTid, ServiceInv, CallRecorded
    <3>4. ServiceTypeOK'
      BY <2>7, <3>2, <3>3 DEF SetTid, ServiceInv, ServiceTypeOK
    <3>5. Recorded' /\ \A u \in RpcThreads : CallRecorded(u)'
      BY <2>7, <3>1, <3>2 DEF SetTid, ServiceInv, Recorded, CallRecorded
    <3>6. ASSUME ~overlap PROVE OneAtATime'
      <4>1. OneAtATime
        BY <3>6 DEF ServiceInv
      <4>2. \A u \in RpcThreads : u # t => rpcs[u].at = "idle"
        BY <3>1, <4>1 DEF OneAtATime
      <4>3. InTurn'
        BY <2>7, <4>1 DEF SetTid, OneAtATime, InTurn
      <4>4. TidIsNext'
        BY <2>7, <3>1, <4>1 DEF SetTid, OneAtATime, TidIsNext
      <4> QED BY <2>7, <3>1, <3>2, <4>1, <4>2, <4>3, <4>4 DEF SetTid, OneAtATime
    <3> QED BY <2>7, <3>4, <3>5, <3>6 DEF SetTid, ServiceInv
  <2>8. ASSUME NEW t \in RpcThreads, ReadId(t) PROVE ServiceInv'
    <3> DEFINE r == [rpcs[t] EXCEPT !.answer = lastId, !.at = "return"]
    <3>1. r \in Rpc /\ r.at = "return" /\ r.answer = lastId /\ r.name = rpcs[t].name /\ rpcs[t].at = "answer"
      BY <2>8 DEF ReadId, ServiceInv, ServiceTypeOK, Rpc
    <3>2. rpcs' = [rpcs EXCEPT ![t] = r] /\ rpcs'[t] = r
      BY <2>8, <3>1 DEF ReadId, Goes, ServiceInv, ServiceTypeOK
    <3> HIDE DEF r
    <3>3. CallRecorded(t)'
      BY <2>8, <3>1, <3>2 DEF ReadId, ServiceInv, CallRecorded
    <3>4. DOMAIN segmap' \subseteq DOMAIN segmentOf
      BY <2>8 DEF ReadId, ServiceInv, Recorded
    <3> QED BY <2>8, <3>1, <3>2, <3>3, <3>4, CallKeeps DEF ReadId
  <2>9. ASSUME NEW t \in RpcThreads, Return(t) PROVE ServiceInv'
    <3>1. Idle \in Rpc /\ Idle.at = "idle" /\ rpcs[t].at = "return" /\ rpcs[t].answer \in Nat
      BY <2>9 DEF Return, Idle, Rpc, ServiceInv, ServiceTypeOK
    <3>2. rpcs'[t] = Idle /\ (\A u \in RpcThreads : u # t => rpcs'[u] = rpcs[u]) /\ rpcs' \in [RpcThreads -> Rpc]
      BY <2>9, <3>1 DEF Return, Goes, ServiceInv, ServiceTypeOK
    <3>3. PICK a : answers' = answers \cup {a} /\ a.name = rpcs[t].name /\ a.id = rpcs[t].answer /\ a.start = starts
      <4> DEFINE new == [name |-> rpcs[t].name, id |-> rpcs[t].answer, start |-> starts, nth |-> Cardinality(answers)]
      <4>1. answers' = answers \cup {new}
        BY <2>9 DEF Return
      <4>2. new.name = rpcs[t].name /\ new.id = rpcs[t].answer /\ new.start = starts
        OBVIOUS
      <4> HIDE DEF new
      <4> QED BY <4>1, <4>2
    <3>4. ServiceTypeOK'
      BY <2>9, <3>1, <3>2 DEF Return, ServiceInv, ServiceTypeOK
    <3>5. Recorded'
      BY <2>9, <3>1, <3>3 DEF Return, ServiceInv, Recorded, CallRecorded, ServiceTypeOK
    <3>6. \A u \in RpcThreads : CallRecorded(u)'
      BY <2>9, <3>1, <3>2 DEF Return, ServiceInv, CallRecorded
    <3>7. ASSUME ~overlap PROVE OneAtATime'
      <4>1. OneAtATime /\ rpcs[t].answer = lastId
        BY <3>1, <3>7 DEF ServiceInv, OneAtATime
      <4>2. \A u \in RpcThreads : rpcs'[u].at = "idle"
        BY <3>1, <3>2, <4>1 DEF OneAtATime
      <4>3. InTurn'
        BY <2>9, <4>1 DEF Return, OneAtATime, InTurn
      <4>4. \A u \in RpcThreads : rpcs[u].at \notin {"segmap", "settid"}
        BY <3>1, <4>1 DEF OneAtATime
      <4>5. TidIsNext' /\ running'
        BY <2>9, <3>1, <4>1, <4>4 DEF Return, OneAtATime, TidIsNext, ServiceInv, CallRecorded
      <4>6. lastId' = lastId + 1 /\ lastId \in Nat /\ starts' = starts
        BY <2>9, <4>1 DEF Return, ServiceInv, ServiceTypeOK
      <4>7. \A b \in answers' : b.id \in Nat /\ (b.start = starts' => b.id < lastId')
        BY <3>3, <4>1, <4>6 DEF OneAtATime
      <4>8. \A b \in answers : ~(b.start = a.start /\ b.id = a.id)
        BY <3>3, <4>1, <4>6 DEF OneAtATime
      <4>9. \A b, c \in answers' : b.start = c.start /\ b.id = c.id => b = c
        BY <3>3, <4>1, <4>8 DEF OneAtATime
      <4>10. era'.count <= rpcCount'
        BY <2>9, <4>1 DEF Return, OneAtATime
      <4> QED BY <4>2, <4>3, <4>5, <4>7, <4>9, <4>10 DEF OneAtATime
    <3> QED BY <2>9, <3>4, <3>5, <3>6, <3>7 DEF Return, ServiceInv
  <2>10. CASE UNCHANGED serviceVars
    <3>1. ServiceTypeOK' /\ Recorded' /\ \A t \in RpcThreads : CallRecorded(t)'
      BY <2>10 DEF serviceVars, ServiceInv, ServiceTypeOK, Recorded, CallRecorded
    <3>2. ~overlap => OneAtATime'
      BY <2>10 DEF serviceVars, ServiceInv, OneAtATime, InTurn, TidIsNext
    <3> QED BY <2>10, <3>1, <3>2 DEF serviceVars, ServiceInv
  <2> QED BY <2>1, <2>2, <2>3, <2>4, <2>5, <2>6, <2>7, <2>8, <2>9, <2>10 DEF ServiceNext
<1>3. ServiceInv => TablesRecorded
  <2> SUFFICES ASSUME ServiceInv PROVE TablesRecorded
    OBVIOUS
  <2>1. \A n \in DOMAIN tableOf : tableOf[n] \in DOMAIN segmentOf /\ segmentOf[tableOf[n]] = <<tableOf[n], 0>>
    BY DEF ServiceInv, Recorded, ServiceTypeOK
  <2>2. ASSUME ~overlap, NEW m \in DOMAIN tableOf, NEW n \in DOMAIN tableOf,
               made[m].start = made[n].start, tableOf[m] = tableOf[n]
        PROVE  m = n
    <3>1. InTurn
      BY <2>2 DEF ServiceInv, OneAtATime
    <3>2. /\ made[m].first \in TableIds /\ made[m].nth \in Nat /\ made[n].nth \in Nat /\ MaxRpcs \in Nat
          /\ made[n].first = made[m].first /\ made[m].nth < MaxRpcs /\ made[n].nth < MaxRpcs
      BY <2>2, <3>1, ServiceAssumption DEF InTurn, ServiceInv, ServiceTypeOK
    <3>3. Nth(made[m].first, made[m].nth) = Nth(made[m].first, made[n].nth)
      BY <2>2, <3>1, <3>2 DEF InTurn
    <3>4. made[m].nth = made[n].nth
      BY <3>2, <3>3, NthDiffers
    <3> QED BY <2>2, <3>1, <3>4 DEF InTurn
  <2>3. ASSUME ~overlap, running, \A t \in RpcThreads : rpcs[t].at = "idle",
               NEW n \in DOMAIN tableOf, made[n].start = starts, tableOf[n] = tid
        PROVE  FALSE
    <3>1. InTurn /\ TidIsNext /\ era.count <= rpcCount
      BY <2>3 DEF ServiceInv, OneAtATime
    <3>2. /\ era.first \in TableIds /\ era.count \in Nat /\ era.count <= MaxRpcs /\ MaxRpcs \in Nat
          /\ made[n].nth \in Nat /\ made[n].nth < era.count /\ made[n].first = era.first
      BY <2>3, <3>1, ServiceAssumption DEF InTurn, ServiceInv, ServiceTypeOK
    <3>3. Nth(era.first, made[n].nth) = Nth(era.first, era.count)
      BY <2>3, <3>1, <3>2 DEF InTurn, TidIsNext
    <3>4. made[n].nth = era.count
      BY <3>2, <3>3, NthDiffers
    <3> QED BY <3>2, <3>4
  <2> QED BY <2>1, <2>2, <2>3 DEF ServiceInv, Recorded, OneAtATime, TablesRecorded
<1> QED BY <1>1, <1>2, <1>3, PTL DEF ServiceSpec
-----------------------------------------------------------------------------
(* The outbox *)

Msgs == Writers \X Nat
Posts == [op : {"write"}, msg : Msgs] \cup [op : {"handler"}, error : BOOLEAN]

OutTypeOK ==
  /\ strand \in Seq(Posts) /\ broken \in BOOLEAN
  /\ outbox \in Seq(Msgs) /\ writing \in Seq(Msgs) /\ sent \in Seq(Msgs) /\ posted \in Seq(Msgs)

\* Handlers and Waiting of any content of the strand.
HandlersOf(s) == {k \in DOMAIN s : s[k].op = "handler"}
WaitingOf(s) ==
  IF HandlersOf(s) = {} THEN [k \in DOMAIN s |-> s[k].msg]
  ELSE LET h == CHOOSE k \in HandlersOf(s) : TRUE
       IN [k \in 1 .. Len(s) - 1 |-> s[IF k < h THEN k ELSE k + 1].msg]
OneHandler(s) == \A j, k \in HandlersOf(s) : j = k

\* What is posted is a message or the end of a write.
LEMMA PostIs ==
  ASSUME NEW p \in Posts
  PROVE  /\ p.op \in {"write", "handler"} /\ (p.op = "write" => p.msg \in Msgs) /\ (p.op = "handler" => p.error \in BOOLEAN)
<1>1. CASE p \in [op : {"write"}, msg : Msgs]
  BY <1>1
<1>2. CASE p \in [op : {"handler"}, error : BOOLEAN]
  BY <1>2
<1> QED BY <1>1, <1>2 DEF Posts

\* Without the one handler there may be, the strand is a sequence of messages.
LEMMA WaitingIs ==
  ASSUME NEW s \in Seq(Posts), OneHandler(s)
  PROVE  /\ WaitingOf(s) \in Seq(Msgs)
         /\ HandlersOf(s) = {} => Len(WaitingOf(s)) = Len(s) /\ \A k \in 1 .. Len(s) : WaitingOf(s)[k] = s[k].msg
         /\ \A h \in HandlersOf(s) : /\ h \in 1 .. Len(s) /\ Len(WaitingOf(s)) = Len(s) - 1
                                     /\ \A k \in 1 .. Len(s) - 1 : WaitingOf(s)[k] = s[IF k < h THEN k ELSE k + 1].msg
<1>1. /\ Len(s) \in Nat /\ DOMAIN s = 1 .. Len(s)
      /\ \A k \in 1 .. Len(s) : s[k] \in Posts
  BY ElementOfSeq, LenProperties
<1>2. \A k \in 1 .. Len(s) : k \notin HandlersOf(s) => s[k].msg \in Msgs
  BY <1>1, PostIs DEF HandlersOf
<1>3. CASE HandlersOf(s) = {}
  <2>1. WaitingOf(s) = [k \in 1 .. Len(s) |-> s[k].msg]
    BY <1>1, <1>3 DEF WaitingOf
  <2>2. \A k \in 1 .. Len(s) : s[k].msg \in Msgs
    BY <1>2, <1>3
  <2>3. WaitingOf(s) \in Seq(Msgs) /\ Len(WaitingOf(s)) = Len(s)
    BY <1>1, <2>1, <2>2, IsASeq
  <2> QED BY <1>3, <2>1, <2>3
<1>4. ASSUME NEW h \in HandlersOf(s)
      PROVE  /\ WaitingOf(s) \in Seq(Msgs) /\ h \in 1 .. Len(s) /\ Len(WaitingOf(s)) = Len(s) - 1
             /\ \A k \in 1 .. Len(s) - 1 : WaitingOf(s)[k] = s[IF k < h THEN k ELSE k + 1].msg
  <2>1. h = CHOOSE k \in HandlersOf(s) : TRUE
    BY DEF OneHandler
  <2>2. WaitingOf(s) = [k \in 1 .. Len(s) - 1 |-> s[IF k < h THEN k ELSE k + 1].msg]
    BY <2>1 DEF WaitingOf
  <2>3. h \in 1 .. Len(s) /\ \A k \in 1 .. Len(s) : k # h => k \notin HandlersOf(s)
    BY <1>1 DEF HandlersOf, OneHandler
  <2>4. \A k \in 1 .. Len(s) - 1 : s[IF k < h THEN k ELSE k + 1].msg \in Msgs
    <3> SUFFICES ASSUME NEW k \in 1 .. Len(s) - 1 PROVE s[IF k < h THEN k ELSE k + 1].msg \in Msgs
      OBVIOUS
    <3>1. PICK j : j = IF k < h THEN k ELSE k + 1
      OBVIOUS
    <3>2. j \in 1 .. Len(s) /\ j # h
      BY <1>1, <2>3, <3>1
    <3>3. s[j].msg \in Msgs
      BY <1>2, <2>3, <3>2
    <3> QED BY <3>1, <3>3
  <2>5. Len(s) - 1 \in Nat
    BY <1>1, <2>3
  <2>6. PICK n \in Nat : n = Len(s) - 1
    BY <2>5
  <2>7. PICK w : w = WaitingOf(s)
    OBVIOUS
  <2>8. w \in Seq(Msgs) /\ Len(w) = n
    BY <2>2, <2>4, <2>6, <2>7, IsASeq
  <2> QED BY <2>2, <2>3, <2>6, <2>7, <2>8
<1> QED BY <1>3, <1>4

\* A message posted is the last that waits.
LEMMA WaitingMore ==
  ASSUME NEW s \in Seq(Posts), OneHandler(s), NEW p \in Posts, p.op = "write"
  PROVE  HandlersOf(Append(s, p)) = HandlersOf(s) /\ WaitingOf(Append(s, p)) = Append(WaitingOf(s), p.msg)
<1>1. /\ Len(s) \in Nat /\ DOMAIN s = 1 .. Len(s)
      /\ Append(s, p) \in Seq(Posts) /\ Len(Append(s, p)) = Len(s) + 1 /\ DOMAIN Append(s, p) = 1 .. Len(s) + 1
      /\ \A k \in 1 .. Len(s) : Append(s, p)[k] = s[k]
      /\ Append(s, p)[Len(s) + 1] = p
  BY AppendProperties, LenProperties
<1>2. HandlersOf(Append(s, p)) = HandlersOf(s)
  BY <1>1 DEF HandlersOf
<1>3. OneHandler(Append(s, p)) /\ p.msg \in Msgs
  BY <1>2, PostIs DEF OneHandler
<1>4. PICK v : v = WaitingOf(Append(s, p))
  OBVIOUS
<1>5. PICK w : w = WaitingOf(s)
  OBVIOUS
<1>6. v \in Seq(Msgs) /\ w \in Seq(Msgs)
  BY <1>1, <1>3, <1>4, <1>5, WaitingIs
<1>7. /\ Len(w) \in Nat /\ Append(w, p.msg) \in Seq(Msgs) /\ Len(Append(w, p.msg)) = Len(w) + 1
      /\ \A k \in 1 .. Len(w) : Append(w, p.msg)[k] = w[k]
      /\ Append(w, p.msg)[Len(w) + 1] = p.msg
  BY <1>3, <1>6, AppendProperties, LenProperties
<1>8. CASE HandlersOf(s) = {}
  <2>1. Len(w) = Len(s) /\ \A k \in 1 .. Len(s) : w[k] = s[k].msg
    BY <1>5, <1>8, WaitingIs
  <2>2. Len(v) = Len(s) + 1 /\ \A k \in 1 .. Len(s) + 1 : v[k] = Append(s, p)[k].msg
    BY <1>1, <1>2, <1>3, <1>4, <1>8, WaitingIs
  <2>3. \A k \in 1 .. Len(v) : v[k] = Append(w, p.msg)[k]
    BY <1>1, <1>7, <2>1, <2>2
  <2> QED BY <1>2, <1>4, <1>5, <1>6, <1>7, <2>1, <2>2, <2>3, SeqEqual
<1>9. ASSUME NEW h \in HandlersOf(s) PROVE v = Append(w, p.msg)
  <2>1. h \in 1 .. Len(s) /\ Len(w) = Len(s) - 1 /\ \A k \in 1 .. Len(s) - 1 : w[k] = s[IF k < h THEN k ELSE k + 1].msg
    BY <1>5, WaitingIs
  <2>2. Len(v) = Len(s) /\ \A k \in 1 .. Len(s) : v[k] = Append(s, p)[IF k < h THEN k ELSE k + 1].msg
    <3>1. /\ Len(v) = Len(Append(s, p)) - 1
          /\ \A k \in 1 .. Len(Append(s, p)) - 1 : v[k] = Append(s, p)[IF k < h THEN k ELSE k + 1].msg
      BY <1>1, <1>2, <1>3, <1>4, WaitingIs
    <3>2. Len(Append(s, p)) - 1 = Len(s)
      BY <1>1
    <3> QED BY <3>1, <3>2
  <2>3. \A k \in 1 .. Len(s) - 1 : v[k] = w[k]
    <3> SUFFICES ASSUME NEW k \in 1 .. Len(s) - 1 PROVE v[k] = w[k]
      OBVIOUS
    <3>1. PICK j : j = IF k < h THEN k ELSE k + 1
      OBVIOUS
    <3>2. j \in 1 .. Len(s) /\ k \in 1 .. Len(s)
      BY <1>1, <3>1
    <3>3. v[k] = Append(s, p)[j].msg /\ w[k] = s[j].msg
      BY <2>1, <2>2, <3>1, <3>2
    <3> QED BY <1>1, <3>2, <3>3
  <2>4. v[Len(s)] = p.msg
    BY <1>1, <2>1, <2>2
  <2>5. \A k \in 1 .. Len(v) : v[k] = Append(w, p.msg)[k]
    BY <1>1, <1>7, <2>1, <2>2, <2>3, <2>4
  <2>6. Len(v) = Len(Append(w, p.msg))
    BY <1>1, <1>7, <2>1, <2>2
  <2> QED BY <1>6, <1>7, <2>5, <2>6, SeqEqual
<1> QED BY <1>2, <1>4, <1>5, <1>8, <1>9

\* The end of a write is posted when no other one is there.
LEMMA WaitingSame ==
  ASSUME NEW s \in Seq(Posts), HandlersOf(s) = {}, NEW p \in Posts, p.op = "handler"
  PROVE  HandlersOf(Append(s, p)) = {Len(s) + 1} /\ WaitingOf(Append(s, p)) = WaitingOf(s)
<1>1. /\ Len(s) \in Nat /\ DOMAIN s = 1 .. Len(s)
      /\ Append(s, p) \in Seq(Posts) /\ Len(Append(s, p)) = Len(s) + 1 /\ DOMAIN Append(s, p) = 1 .. Len(s) + 1
      /\ \A k \in 1 .. Len(s) : Append(s, p)[k] = s[k]
      /\ Append(s, p)[Len(s) + 1] = p
  BY AppendProperties, LenProperties
<1>2. HandlersOf(Append(s, p)) = {Len(s) + 1}
  BY <1>1 DEF HandlersOf
<1>3. OneHandler(Append(s, p)) /\ OneHandler(s)
  BY <1>2 DEF OneHandler
<1>4. PICK v : v = WaitingOf(Append(s, p))
  OBVIOUS
<1>5. PICK w : w = WaitingOf(s)
  OBVIOUS
<1>6. v \in Seq(Msgs) /\ w \in Seq(Msgs)
  BY <1>1, <1>3, <1>4, <1>5, WaitingIs
<1>7. Len(w) = Len(s) /\ \A k \in 1 .. Len(s) : w[k] = s[k].msg
  BY <1>3, <1>5, WaitingIs
<1>8. Len(v) = Len(s) /\ \A k \in 1 .. Len(s) : v[k] = Append(s, p)[k].msg
  <2>1. PICK h : h = Len(s) + 1
    OBVIOUS
  <2>2. /\ Len(v) = Len(Append(s, p)) - 1
        /\ \A k \in 1 .. Len(Append(s, p)) - 1 : v[k] = Append(s, p)[IF k < h THEN k ELSE k + 1].msg
    BY <1>1, <1>2, <1>3, <1>4, <2>1, WaitingIs
  <2>3. Len(Append(s, p)) - 1 = Len(s) /\ \A k \in 1 .. Len(s) : k < h
    BY <1>1, <2>1
  <2> QED BY <2>2, <2>3
<1>9. \A k \in 1 .. Len(v) : v[k] = w[k]
  BY <1>1, <1>7, <1>8
<1> QED BY <1>2, <1>4, <1>5, <1>6, <1>7, <1>8, <1>9, SeqEqual

\* The strand takes a message: the first that waits.
LEMMA WaitingTaken ==
  ASSUME NEW s \in Seq(Posts), OneHandler(s), s # <<>>, Head(s).op = "write"
  PROVE  /\ OneHandler(Tail(s)) /\ (HandlersOf(Tail(s)) = {} <=> HandlersOf(s) = {})
         /\ WaitingOf(s) # <<>> /\ Head(WaitingOf(s)) = Head(s).msg /\ Tail(WaitingOf(s)) = WaitingOf(Tail(s))
<1>1. /\ Len(s) \in Nat \ {0} /\ DOMAIN s = 1 .. Len(s) /\ Head(s) = s[1]
      /\ Tail(s) \in Seq(Posts) /\ Len(Tail(s)) = Len(s) - 1 /\ DOMAIN Tail(s) = 1 .. Len(s) - 1
      /\ \A k \in 1 .. Len(s) - 1 : Tail(s)[k] = s[k + 1]
  <2>1. Tail(s) \in Seq(Posts) /\ Len(Tail(s)) = Len(s) - 1 /\ \A k \in 1 .. Len(Tail(s)) : Tail(s)[k] = s[k + 1]
    BY HeadTailProperties
  <2> QED BY <2>1, LenProperties, RangeTake
<1>2. \A k \in 1 .. Len(s) - 1 : k \in HandlersOf(Tail(s)) <=> k + 1 \in HandlersOf(s)
  BY <1>1 DEF HandlersOf
<1>3. HandlersOf(Tail(s)) \subseteq 1 .. Len(s) - 1 /\ \A k \in HandlersOf(s) : k \in 2 .. Len(s) /\ k - 1 \in 1 .. Len(s) - 1
  BY <1>1 DEF HandlersOf
<1>4. OneHandler(Tail(s))
  <2> SUFFICES ASSUME NEW j \in HandlersOf(Tail(s)), NEW k \in HandlersOf(Tail(s)) PROVE j = k
    BY DEF OneHandler
  <2>1. j \in Nat /\ k \in Nat /\ j + 1 = k + 1
    BY <1>1, <1>2, <1>3 DEF OneHandler
  <2> QED BY <2>1
<1>5. \A h \in HandlersOf(s) : h - 1 \in HandlersOf(Tail(s))
  <2> SUFFICES ASSUME NEW h \in HandlersOf(s) PROVE h - 1 \in HandlersOf(Tail(s))
    OBVIOUS
  <2>1. PICK j : j = h - 1
    OBVIOUS
  <2>2. j \in 1 .. Len(s) - 1 /\ j + 1 = h
    BY <1>1, <1>3, <2>1
  <2> QED BY <1>2, <2>1, <2>2
<1>6. HandlersOf(Tail(s)) = {} <=> HandlersOf(s) = {}
  BY <1>2, <1>3, <1>5
<1>7. PICK v : v = WaitingOf(Tail(s))
  OBVIOUS
<1>8. PICK w : w = WaitingOf(s)
  OBVIOUS
<1>9. v \in Seq(Msgs) /\ w \in Seq(Msgs) /\ Len(v) \in Nat /\ Len(w) \in Nat
  BY <1>1, <1>4, <1>7, <1>8, WaitingIs, LenProperties
<1>10. Len(w) = Len(v) + 1 /\ w[1] = s[1].msg /\ \A k \in 1 .. Len(v) : v[k] = w[k + 1]
  <2>1. CASE HandlersOf(s) = {}
    <3>1. Len(w) = Len(s) /\ \A k \in 1 .. Len(s) : w[k] = s[k].msg
      BY <1>8, <2>1, WaitingIs
    <3>2. Len(v) = Len(s) - 1 /\ \A k \in 1 .. Len(s) - 1 : v[k] = Tail(s)[k].msg
      BY <1>1, <1>4, <1>6, <1>7, <2>1, WaitingIs
    <3> QED BY <1>1, <3>1, <3>2
  <2>2. ASSUME NEW h \in HandlersOf(s) PROVE Len(w) = Len(v) + 1 /\ w[1] = s[1].msg /\ \A k \in 1 .. Len(v) : v[k] = w[k + 1]
    <3>1. Len(w) = Len(s) - 1 /\ \A k \in 1 .. Len(s) - 1 : w[k] = s[IF k < h THEN k ELSE k + 1].msg
      BY <1>8, WaitingIs
    <3>2. PICK g : g = h - 1
      OBVIOUS
    <3>3. g \in HandlersOf(Tail(s)) /\ g \in 1 .. Len(s) - 1 /\ h = g + 1
      BY <1>1, <1>3, <1>5, <3>2
    <3>4. PICK n : n = Len(s) - 1
      OBVIOUS
    <3>5. n \in Nat /\ n >= 1 /\ Len(Tail(s)) = n
      BY <1>1, <3>3, <3>4
    <3>6. Len(v) = n - 1 /\ \A k \in 1 .. n - 1 : v[k] = Tail(s)[IF k < g THEN k ELSE k + 1].msg
      BY <1>1, <1>4, <1>7, <3>3, <3>5, WaitingIs
    <3>7. w[1] = s[1].msg
      BY <3>1, <3>3, <3>4, <3>5
    <3>8. ASSUME NEW k \in 1 .. n - 1 PROVE v[k] = w[k + 1]
      <4>1. PICK j : j = IF k < g THEN k ELSE k + 1
        OBVIOUS
      <4>2. j \in 1 .. n /\ k + 1 \in 1 .. n /\ j + 1 = IF k + 1 < h THEN k + 1 ELSE (k + 1) + 1
        BY <3>3, <3>5, <4>1
      <4>3. v[k] = Tail(s)[j].msg /\ Tail(s)[j] = s[j + 1]
        BY <1>1, <3>4, <3>6, <4>1, <4>2
      <4>4. w[k + 1] = s[j + 1].msg
        BY <3>1, <3>4, <4>2
      <4> QED BY <4>3, <4>4
    <3> QED BY <3>1, <3>4, <3>5, <3>6, <3>7, <3>8
  <2> QED BY <2>1, <2>2
<1>11. w # <<>> /\ Head(w) = w[1] /\ Tail(w) \in Seq(Msgs) /\ Len(Tail(w)) = Len(v) /\ \A k \in 1 .. Len(v) : Tail(w)[k] = w[k + 1]
  <2>1. w # <<>>
    BY <1>9, <1>10
  <2>2. Tail(w) \in Seq(Msgs) /\ Len(Tail(w)) = Len(w) - 1 /\ \A k \in 1 .. Len(Tail(w)) : Tail(w)[k] = w[k + 1]
    BY <1>9, <2>1, HeadTailProperties
  <2>3. Len(Tail(w)) = Len(v)
    BY <1>9, <1>10, <2>2
  <2> QED BY <1>9, <2>1, <2>2, <2>3
<1>12. Tail(w) = v
  BY <1>9, <1>10, <1>11, SeqEqual
<1> QED BY <1>1, <1>4, <1>6, <1>7, <1>8, <1>10, <1>11, <1>12

\* The strand takes the end of a write: no message.
LEMMA WaitingStays ==
  ASSUME NEW s \in Seq(Posts), OneHandler(s), s # <<>>, Head(s).op = "handler"
  PROVE  HandlersOf(s) # {} /\ HandlersOf(Tail(s)) = {} /\ WaitingOf(Tail(s)) = WaitingOf(s)
<1>1. /\ Len(s) \in Nat \ {0} /\ DOMAIN s = 1 .. Len(s) /\ Head(s) = s[1]
      /\ Tail(s) \in Seq(Posts) /\ Len(Tail(s)) = Len(s) - 1 /\ DOMAIN Tail(s) = 1 .. Len(s) - 1
      /\ \A k \in 1 .. Len(s) - 1 : Tail(s)[k] = s[k + 1]
  <2>1. Tail(s) \in Seq(Posts) /\ Len(Tail(s)) = Len(s) - 1 /\ \A k \in 1 .. Len(Tail(s)) : Tail(s)[k] = s[k + 1]
    BY HeadTailProperties
  <2> QED BY <2>1, LenProperties, RangeTake
<1>2. 1 \in HandlersOf(s)
  BY <1>1 DEF HandlersOf
<1>3. HandlersOf(Tail(s)) = {}
  <2> SUFFICES ASSUME NEW k \in HandlersOf(Tail(s)) PROVE FALSE
    OBVIOUS
  <2>1. k \in 1 .. Len(s) - 1 /\ k + 1 \in HandlersOf(s)
    BY <1>1 DEF HandlersOf
  <2>2. k + 1 = 1
    BY <1>2, <2>1 DEF OneHandler
  <2> QED BY <1>1, <2>1, <2>2
<1>4. OneHandler(Tail(s))
  BY <1>3 DEF OneHandler
<1>5. PICK v : v = WaitingOf(Tail(s))
  OBVIOUS
<1>6. PICK w : w = WaitingOf(s)
  OBVIOUS
<1>7. v \in Seq(Msgs) /\ w \in Seq(Msgs)
  BY <1>1, <1>4, <1>5, <1>6, WaitingIs
<1>8. Len(w) = Len(s) - 1 /\ \A k \in 1 .. Len(s) - 1 : w[k] = s[IF k < 1 THEN k ELSE k + 1].msg
  BY <1>2, <1>6, WaitingIs
<1>9. Len(v) = Len(s) - 1 /\ \A k \in 1 .. Len(s) - 1 : v[k] = Tail(s)[k].msg
  BY <1>1, <1>3, <1>4, <1>5, WaitingIs
<1>10. \A k \in 1 .. Len(v) : v[k] = w[k]
  BY <1>1, <1>8, <1>9
<1> QED BY <1>2, <1>3, <1>5, <1>6, <1>7, <1>8, <1>9, <1>10, SeqEqual

\* A state function of the model is that of the strand.
LEMMA StrandIs == /\ Handlers = HandlersOf(strand) /\ Waiting = WaitingOf(strand)
                  /\ Kept = IF HandlersOf(strand) # {} THEN Tail(outbox) ELSE outbox
BY DEF Handlers, HandlersOf, Waiting, WaitingOf, Kept

OutInv == OutTypeOK /\ OutboxSound

\* The number of calls of a thread is a number.
LEMMA CountIs ==
  ASSUME OutTypeOK, NEW t
  PROVE  Count(t) \in Nat
<1>1. IsFiniteSet(DOMAIN posted)
  <2>1. Len(posted) \in Nat /\ DOMAIN posted = 1 .. Len(posted)
    BY LenProperties DEF OutTypeOK
  <2> QED BY <2>1, FS_Interval
<1>2. IsFiniteSet({k \in DOMAIN posted : posted[k][1] = t})
  BY <1>1, FS_Subset
<1> QED BY <1>2, FS_CardinalityType DEF Count

\* Every step keeps the messages in order and one write at a time.
LEMMA OutKeeps ==
  ASSUME OutInv, [OutNext]_outVars
  PROVE  OutInv'
<1>0. /\ strand \in Seq(Posts) /\ broken \in BOOLEAN
      /\ outbox \in Seq(Msgs) /\ writing \in Seq(Msgs) /\ sent \in Seq(Msgs) /\ posted \in Seq(Msgs) /\ OutTypeOK
  BY DEF OutInv, OutTypeOK
<1>1. PICK H, W, K : H = HandlersOf(strand) /\ W = WaitingOf(strand) /\ K = IF H # {} THEN Tail(outbox) ELSE outbox
  OBVIOUS
<1>2. /\ Len(writing) <= 1 /\ (\A j, k \in H : j = k) /\ (writing # <<>> => H = {})
      /\ writing # <<>> => outbox # <<>> /\ Head(writing) = Head(outbox)
      /\ H # {} => outbox # <<>>
      /\ posted = (sent \o K) \o W
      /\ ~broken /\ outbox # <<>> => writing # <<>> \/ H # {}
      /\ OneHandler(strand)
  BY <1>1, StrandIs DEF OutInv, OutboxSound, OneHandler
<1>3. W \in Seq(Msgs) /\ K \in Seq(Msgs) /\ sent \o K \in Seq(Msgs)
  <2>1. W \in Seq(Msgs)
    BY <1>0, <1>1, <1>2, WaitingIs
  <2>2. K \in Seq(Msgs)
    BY <1>0, <1>1, <1>2, HeadTailProperties
  <2> QED BY <1>0, <2>1, <2>2, ConcatProperties
<1>4. ASSUME OutTypeOK',
             Len(writing') <= 1, \A j, k \in HandlersOf(strand') : j = k, writing' # <<>> => HandlersOf(strand') = {},
             writing' # <<>> => outbox' # <<>> /\ Head(writing') = Head(outbox'),
             HandlersOf(strand') # {} => outbox' # <<>>,
             posted' = (sent' \o (IF HandlersOf(strand') # {} THEN Tail(outbox') ELSE outbox')) \o WaitingOf(strand'),
             ~broken' /\ outbox' # <<>> => writing' # <<>> \/ HandlersOf(strand') # {}
      PROVE  OutInv'
  <2>1. /\ Handlers' = HandlersOf(strand') /\ Waiting' = WaitingOf(strand')
        /\ Kept' = IF HandlersOf(strand') # {} THEN Tail(outbox') ELSE outbox'
    BY DEF Handlers, HandlersOf, Waiting, WaitingOf, Kept
  <2> QED BY <1>4, <2>1 DEF OutInv, OutboxSound
<1>5. ASSUME NEW t \in Writers, Write(t) PROVE OutInv'
  <2>1. PICK m : m = <<t, Count(t) + 1>>
    OBVIOUS
  <2>2. PICK p : p = [op |-> "write", msg |-> m]
    OBVIOUS
  <2>3. m \in Msgs /\ p \in Posts /\ p.op = "write" /\ p.msg = m
    BY <1>0, <2>1, <2>2, CountIs DEF Msgs, Posts
  <2>4. strand' = Append(strand, p) /\ posted' = Append(posted, m) /\ UNCHANGED <<outbox, writing, sent, broken>>
    BY <1>5, <2>1, <2>2 DEF Write
  <2>5. HandlersOf(strand') = H /\ WaitingOf(strand') = Append(W, m)
    BY <1>0, <1>1, <1>2, <2>3, <2>4, WaitingMore
  <2>6. posted' = (sent \o K) \o Append(W, m)
    <3>1. (sent \o K) \o Append(W, m) = Append((sent \o K) \o W, m)
      BY <1>3, <2>3, ConcatAppend
    <3> QED BY <1>2, <2>4, <3>1
  <2>7. OutTypeOK'
    BY <1>0, <2>3, <2>4, AppendProperties DEF OutTypeOK
  <2> QED BY <1>1, <1>2, <1>4, <2>4, <2>5, <2>6, <2>7
<1>6. ASSUME RunStrand, Head(strand).op = "write" PROVE OutInv'
  <2>1. PICK m : m = Head(strand).msg
    OBVIOUS
  <2>2. strand # <<>> /\ strand' = Tail(strand) /\ outbox' = Append(outbox, m) /\ UNCHANGED <<sent, posted, broken>>
    BY <1>6, <2>1 DEF RunStrand, WriteImpl
  <2>3. m \in Msgs /\ Tail(strand) \in Seq(Posts)
    <3>1. Head(strand) \in Posts /\ Tail(strand) \in Seq(Posts)
      BY <1>0, <2>2, HeadTailProperties
    <3> QED BY <1>6, <2>1, <3>1, PostIs
  <2>4. PICK H1 : H1 = HandlersOf(strand')
    OBVIOUS
  <2>5. /\ \A j, k \in H1 : j = k
        /\ H1 = {} <=> H = {}
        /\ W # <<>> /\ Head(W) = m /\ Tail(W) = WaitingOf(strand')
    BY <1>0, <1>1, <1>2, <1>6, <2>1, <2>2, <2>4, WaitingTaken DEF OneHandler
  <2>6. PICK K1 : K1 = IF H1 # {} THEN Tail(outbox') ELSE outbox'
    OBVIOUS
  <2>7. K1 = Append(K, m)
    <3>1. outbox # <<>> => Tail(Append(outbox, m)) = Append(Tail(outbox), m)
      BY <1>0, <2>3, HeadTailAppend
    <3> QED BY <1>1, <1>2, <2>2, <2>5, <2>6, <3>1
  <2>8. posted' = (sent' \o K1) \o WaitingOf(strand')
    <3>1. Append(sent \o K, Head(W)) \o Tail(W) = (sent \o K) \o W
      BY <1>3, <2>5, ConcatTake
    <3>2. sent \o Append(K, m) = Append(sent \o K, m)
      BY <1>0, <1>3, <2>3, ConcatAppend
    <3> QED BY <1>2, <2>2, <2>5, <2>7, <3>1, <3>2
  <2>9. Len(outbox) \in Nat /\ Len(outbox') = Len(outbox) + 1 /\ (Len(outbox) = 0 <=> outbox = <<>>) /\ outbox' # <<>>
        /\ outbox' \in Seq(Msgs) /\ (outbox # <<>> => Head(outbox') = Head(outbox)) /\ (outbox = <<>> => Head(outbox') = m)
    <3>1. /\ outbox' \in Seq(Msgs) /\ Len(outbox') = Len(outbox) + 1
          /\ Head(outbox') = IF outbox = <<>> THEN m ELSE Head(outbox)
      BY <1>0, <2>2, <2>3, AppendProperties, HeadTailAppend
    <3>2. Len(outbox) \in Nat /\ (Len(outbox) = 0 <=> outbox = <<>>)
      BY <1>0, LenProperties, EmptySeq
    <3>3. outbox' # <<>>
      BY <3>1, <3>2
    <3> QED BY <3>1, <3>2, <3>3
  <2>10. CASE outbox # <<>>
    <3>1. writing' = writing
      BY <1>6, <2>9, <2>10 DEF RunStrand, WriteImpl
    <3>2. OutTypeOK'
      BY <1>0, <2>2, <2>3, <2>9, <3>1 DEF OutTypeOK
    <3> QED BY <1>2, <1>4, <2>2, <2>4, <2>5, <2>6, <2>8, <2>9, <2>10, <3>1, <3>2
  <2>11. CASE outbox = <<>>
    <3>1. writing = <<>> /\ H = {}
      BY <1>2, <2>11
    <3>2. writing' = Append(<<>>, m)
      BY <1>6, <2>9, <2>11, <3>1 DEF RunStrand, WriteImpl, DoWrite
    <3>3. writing' \in Seq(Msgs) /\ Len(writing') <= 1 /\ Head(writing') = m /\ writing' # <<>>
      BY <2>3, <3>2
    <3>4. OutTypeOK'
      BY <1>0, <2>2, <2>3, <2>9, <3>3 DEF OutTypeOK
    <3> QED BY <1>4, <2>2, <2>4, <2>5, <2>6, <2>8, <2>9, <2>11, <3>1, <3>3, <3>4
  <2> QED BY <2>10, <2>11
<1>7. ASSUME RunStrand, Head(strand).op # "write" PROVE OutInv'
  <2>1. PICK e : e = Head(strand).error
    OBVIOUS
  <2>2. /\ strand # <<>> /\ strand' = Tail(strand) /\ outbox' = Tail(outbox) /\ UNCHANGED <<sent, posted>>
        /\ IF e \/ outbox' = <<>> THEN writing' = writing ELSE writing' = Append(writing, Head(outbox'))
        /\ broken' = (broken \/ e)
    BY <1>7, <2>1 DEF RunStrand, WriteHandler, DoWrite
  <2>3. Head(strand).op = "handler" /\ e \in BOOLEAN /\ Tail(strand) \in Seq(Posts)
    <3>1. Head(strand) \in Posts /\ Tail(strand) \in Seq(Posts)
      BY <1>0, <2>2, HeadTailProperties
    <3> QED BY <1>7, <2>1, <3>1, PostIs
  <2>4. H # {} /\ HandlersOf(strand') = {} /\ WaitingOf(strand') = W
    BY <1>0, <1>1, <1>2, <2>2, <2>3, WaitingStays
  <2>5. writing = <<>> /\ outbox # <<>> /\ K = outbox' /\ outbox' \in Seq(Msgs)
    BY <1>0, <1>1, <1>2, <2>2, <2>4, HeadTailProperties
  <2>6. broken' \in BOOLEAN /\ (~broken' => ~e)
    BY <1>0, <2>2, <2>3
  <2>7. posted' = (sent' \o outbox') \o WaitingOf(strand')
    BY <1>2, <2>2, <2>4, <2>5
  <2>8. CASE e \/ outbox' = <<>>
    <3>1. writing' = <<>> /\ Len(writing') <= 1
      BY <2>2, <2>5, <2>8
    <3>2. OutTypeOK'
      BY <1>0, <2>2, <2>3, <2>5, <2>6, <3>1 DEF OutTypeOK
    <3> QED BY <1>4, <2>4, <2>6, <2>7, <2>8, <3>1, <3>2
  <2>9. CASE ~(e \/ outbox' = <<>>)
    <3>1. writing' = Append(<<>>, Head(outbox')) /\ Head(outbox') \in Msgs
      BY <2>2, <2>5, <2>9, HeadTailProperties
    <3>2. writing' \in Seq(Msgs) /\ Len(writing') <= 1 /\ Head(writing') = Head(outbox') /\ writing' # <<>>
      BY <3>1
    <3>3. OutTypeOK'
      BY <1>0, <2>2, <2>3, <2>5, <2>6, <3>2 DEF OutTypeOK
    <3> QED BY <1>4, <2>4, <2>7, <2>9, <3>2, <3>3
  <2> QED BY <2>8, <2>9
<1>8. ASSUME NEW e \in BOOLEAN, WriteCompletes(e) PROVE OutInv'
  <2>1. PICK p : p = [op |-> "handler", error |-> e]
    OBVIOUS
  <2>2. p \in Posts /\ p.op = "handler"
    BY <2>1 DEF Posts
  <2>3. /\ writing # <<>> /\ sent' = Append(sent, Head(writing)) /\ writing' = Tail(writing)
        /\ strand' = Append(strand, p) /\ UNCHANGED <<outbox, posted, broken>>
    BY <1>8, <2>1 DEF WriteCompletes
  <2>4. H = {} /\ K = outbox /\ outbox # <<>> /\ Head(writing) = Head(outbox) /\ Head(outbox) \in Msgs
    BY <1>0, <1>1, <1>2, <2>3, HeadTailProperties
  <2>5. HandlersOf(strand') = {Len(strand) + 1} /\ WaitingOf(strand') = W
    BY <1>0, <1>1, <2>2, <2>3, <2>4, WaitingSame
  <2>6. writing' \in Seq(Msgs) /\ Len(writing') <= 1 /\ writing' = <<>>
    <3>1. Tail(writing) \in Seq(Msgs) /\ Len(Tail(writing)) = Len(writing) - 1 /\ Len(writing) \in Nat \ {0}
      BY <1>0, <2>3, HeadTailProperties, LenProperties, EmptySeq
    <3>2. Len(Tail(writing)) = 0
      BY <1>2, <3>1
    <3> QED BY <2>3, <3>1, <3>2, EmptySeq
  <2>7. posted' = (sent' \o Tail(outbox)) \o WaitingOf(strand')
    <3>1. Append(sent, Head(outbox)) \o Tail(outbox) = sent \o outbox
      BY <1>0, <2>4, ConcatTake
    <3> QED BY <1>2, <2>3, <2>4, <2>5, <3>1
  <2>8. OutTypeOK'
    BY <1>0, <2>2, <2>3, <2>4, <2>6, AppendProperties DEF OutTypeOK
  <2> QED BY <1>4, <2>3, <2>4, <2>5, <2>6, <2>7, <2>8
<1>9. CASE UNCHANGED outVars
  BY <1>9 DEF outVars, OutInv, OutTypeOK, OutboxSound, Handlers, Waiting, Kept
<1> QED BY <1>5, <1>6, <1>7, <1>8, <1>9 DEF OutNext

\* For any number of threads and calls of Write: one asynchronous write at a
\* time, from memory that outbox_ still has, and every message sent once and
\* in the order of the calls.
THEOREM OutboxSafe == OutSpec => []OutboxSound
<1>1. OutInit => OutInv
  <2> SUFFICES ASSUME OutInit PROVE OutInv
    OBVIOUS
  <2>1. strand = <<>> /\ outbox = <<>> /\ writing = <<>> /\ sent = <<>> /\ posted = <<>> /\ broken = FALSE
    BY DEF OutInit
  <2>2. OutTypeOK /\ Len(writing) <= 1
    <3>1. <<>> \in Seq(Posts) /\ <<>> \in Seq(Msgs) /\ Len(<<>>) <= 1
      BY EmptySeq
    <3> QED BY <2>1, <3>1 DEF OutTypeOK
  <2>3. Handlers = {} /\ Kept = <<>> /\ Waiting = <<>>
    BY <2>1 DEF Handlers, Kept, Waiting
  <2>4. posted = (sent \o Kept) \o Waiting
    BY <2>1, <2>3
  <2> QED BY <2>1, <2>2, <2>3, <2>4 DEF OutInv, OutboxSound
<1>2. OutInv /\ [OutNext]_outVars => OutInv'
  BY OutKeeps
<1>3. OutInv => OutboxSound
  BY DEF OutInv
<1> QED BY <1>1, <1>2, <1>3, PTL DEF OutSpec

-----------------------------------------------------------------------------
(* Asynchronous calls *)

Places == {"none", "sent", "serving", "answered", "done", "failed", "gone"}
Wires == {<<>>} \cup {Query(i) : i \in Calls} \cup {Reply(QueryIndex[i]) : i \in Calls}
Asked(i) == QueryReceived(QueryClear, Query(i))
CallDataType == [status : {"PROCESS", "FINISH"}, serves : 0 .. NumCalls, request : {QueryClear} \cup {Asked(i) : i \in Calls}]

\* The client: calls are issued in order, each has its own question or answer on the wire, and its
\* response is alive until its one line is printed.
PrintedOK(i, x) == x.alive /\ (x.ok => x.reply = ReplyReceived(Reply(QueryIndex[i])))
ClientOK ==
  /\ \E k \in 0 .. NumCalls : issued = 1 .. k
  /\ call \in [Calls -> [at : Places, wire : Wires]] /\ DOMAIN dumped = Calls
  /\ responses = {i \in issued : call[i].at # "gone"}
  /\ \A i \in Calls :
       /\ call[i].at = "none" <=> i \notin issued
       /\ call[i].at = "sent" => call[i].wire = Query(i)
       /\ call[i].at \in {"answered", "done"} => call[i].wire = Reply(QueryIndex[i])
       /\ call[i].at # "gone" => dumped[i] = <<>>
       /\ call[i].at = "gone" => \E x : dumped[i] = <<x>> /\ PrintedOK(i, x)

\* The server: one CallData waits for the next request or has just been given it; every other one
\* serves a call, no two the same, and holds the question of its call.
AwaitsRequest == {c \in DOMAIN data : data[c].status = "PROCESS" /\ c # current}
CallDataOK ==
  /\ DOMAIN data \subseteq CallDatas /\ data \in [DOMAIN data -> CallDataType]
  /\ \E c \in DOMAIN data : AwaitsRequest = {c}
  /\ current # NoCallData => current \in DOMAIN data /\ data[current].status = "PROCESS" /\ data[current].serves # 0
  /\ \A c \in DOMAIN data : /\ data[c].status = "FINISH" => data[c].serves # 0
                            /\ data[c].request = IF data[c].serves = 0 THEN QueryClear ELSE Asked(data[c].serves)
                            /\ data[c].serves # 0 => call[data[c].serves].at \notin {"none", "sent"}
  /\ \A c, d \in DOMAIN data : c # d /\ data[c].serves # 0 => data[c].serves # data[d].serves

\* The tags: one per CallData, none of the one at work; a CallData that has not answered has been given a request.
TagsOK ==
  /\ events \subseteq (DOMAIN data) \X BOOLEAN
  /\ \A e \in events : e[1] # current /\ (data[e[1]].status = "PROCESS" => e[2] /\ data[e[1]].serves # 0)
  /\ \A e, f \in events : e[1] = f[1] => e = f

AsyncInv == ClientOK /\ CallDataOK /\ TagsOK

\* The question of a call reaches the server and its answer the client.
LEMMA Carried ==
  ASSUME NEW i \in Calls
  PROVE  /\ Asked(i).index_type = QueryIndex[i]
         /\ ReplyReceived(Reply(QueryIndex[i])).index_type = QueryIndex[i]
         /\ ReplyReceived(Reply(QueryIndex[i])).index_name = IndexName(QueryIndex[i])
BY CarriedAssumption DEF Asked

\* A step that leaves the server alone keeps what it knows if no call goes back.
LEMMA ServerStays ==
  ASSUME CallDataOK, TagsOK, UNCHANGED serverVars,
         \A i \in Calls : call[i].at \notin {"none", "sent"} => call'[i].at \notin {"none", "sent"}
  PROVE  CallDataOK' /\ TagsOK'
<1>1. data' = data /\ events' = events /\ current' = current
  BY DEF serverVars
<1>2. AwaitsRequest' = AwaitsRequest
  BY <1>1 DEF AwaitsRequest
<1>3. \A c \in DOMAIN data : data[c].serves # 0 => data[c].serves \in Calls
  BY CallAssumption DEF CallDataOK, CallDataType, Calls
<1>4. CallDataOK'
  BY <1>1, <1>2, <1>3 DEF CallDataOK
<1>5. TagsOK'
  BY <1>1 DEF TagsOK
<1> QED BY <1>4, <1>5

\* A call moves from one place to another.
LEMMA CallMoves ==
  ASSUME ClientOK, NEW i \in Calls, NEW to \in Places, call' = [call EXCEPT ![i].at = to]
  PROVE  /\ call' \in [Calls -> [at : Places, wire : Wires]] /\ call'[i].at = to /\ call'[i].wire = call[i].wire
         /\ \A j \in Calls : j # i => call'[j] = call[j]
<1>1. call \in [Calls -> [at : Places, wire : Wires]]
  BY DEF ClientOK
<1>2. PICK x : x = [call[i] EXCEPT !.at = to]
  OBVIOUS
<1>3. call' = [call EXCEPT ![i] = x]
  BY <1>2
<1>4. x \in [at : Places, wire : Wires] /\ x.at = to /\ x.wire = call[i].wire
  BY <1>1, <1>2
<1> QED BY <1>1, <1>3, <1>4

\* What an issued call in flight becomes, with or without another message on the wire.
LEMMA ClientSame ==
  ASSUME ClientOK, UNCHANGED clientVars, NEW i \in Calls, call[i].at \in {"sent", "serving", "answered"},
         call' \in [Calls -> [at : Places, wire : Wires]], \A j \in Calls : j # i => call'[j] = call[j],
         call'[i].at \in {"serving", "answered", "done", "failed"},
         call'[i].at \in {"answered", "done"} => call'[i].wire = Reply(QueryIndex[i])
  PROVE  ClientOK'
<1>1. issued' = issued /\ responses' = responses /\ dumped' = dumped
  BY DEF clientVars
<1>2. i \in issued
  BY DEF ClientOK
<1>3. \A j \in Calls : call'[j].at = "gone" <=> call[j].at = "gone"
  OBVIOUS
<1>4. issued \subseteq Calls
  BY CallAssumption DEF ClientOK, Calls
<1>5. responses' = {j \in issued' : call'[j].at # "gone"}
  BY <1>1, <1>3, <1>4 DEF ClientOK
<1>6. ASSUME NEW j \in Calls
      PROVE  /\ call'[j].at = "none" <=> j \notin issued'
             /\ call'[j].at = "sent" => call'[j].wire = Query(j)
             /\ call'[j].at \in {"answered", "done"} => call'[j].wire = Reply(QueryIndex[j])
             /\ call'[j].at # "gone" => dumped'[j] = <<>>
             /\ call'[j].at = "gone" => \E x : dumped'[j] = <<x>> /\ PrintedOK(j, x)
  BY <1>1, <1>2, <1>3 DEF ClientOK
<1> QED BY <1>1, <1>5, <1>6 DEF ClientOK, PrintedOK
\* The client's own step on one call.
LEMMA CompleteKeeps ==
  ASSUME AsyncInv, NEW i \in Calls, Complete(i) \/ Fail(i)
  PROVE  AsyncInv'
<1>1. PICK to \in {"done", "failed"} : call' = [call EXCEPT ![i].at = to] /\ (to = "done" => call[i].at = "answered")
  BY DEF Complete, Fail
<1>2. UNCHANGED <<clientVars, serverVars>> /\ call[i].at \in {"sent", "serving", "answered"}
  BY DEF Complete, Fail
<1>3. to \in Places
  BY DEF Places
<1>4. /\ call' \in [Calls -> [at : Places, wire : Wires]] /\ call'[i].at = to /\ call'[i].wire = call[i].wire
      /\ \A j \in Calls : j # i => call'[j] = call[j]
  BY <1>1, <1>3, CallMoves DEF AsyncInv
<1>5. to = "done" => call[i].wire = Reply(QueryIndex[i])
  BY <1>1 DEF AsyncInv, ClientOK
<1>6. ClientOK'
  <2>1. call'[i].at \in {"serving", "answered", "done", "failed"}
    BY <1>4
  <2>2. call'[i].at \in {"answered", "done"} => call'[i].wire = Reply(QueryIndex[i])
    BY <1>4, <1>5
  <2> QED BY <1>2, <1>4, <2>1, <2>2, ClientSame DEF AsyncInv
<1>7. \A j \in Calls : call[j].at \notin {"none", "sent"} => call'[j].at \notin {"none", "sent"}
  BY <1>4
<1> QED BY <1>2, <1>6, <1>7, ServerStays DEF AsyncInv

LEMMA DoRunKeeps ==
  ASSUME AsyncInv, NEW i \in Calls, DoRun(i)
  PROVE  AsyncInv'
<1>1. PICK x : /\ x.ok = (call[i].at = "done") /\ x.alive = (i \in responses)
               /\ x.reply = ReplyReceived(IF call[i].at = "done" THEN call[i].wire ELSE <<>>)
               /\ dumped' = [dumped EXCEPT ![i] = Append(@, x)]
  <2>1. PICK x : x = [ok |-> call[i].at = "done", alive |-> i \in responses,
                      reply |-> ReplyReceived(IF call[i].at = "done" THEN call[i].wire ELSE <<>>)]
    OBVIOUS
  <2>2. dumped' = [dumped EXCEPT ![i] = Append(@, x)]
    BY <2>1 DEF DoRun
  <2>3. /\ x.ok = (call[i].at = "done") /\ x.alive = (i \in responses)
        /\ x.reply = ReplyReceived(IF call[i].at = "done" THEN call[i].wire ELSE <<>>)
    BY <2>1
  <2> QED BY <2>2, <2>3
<1>2. /\ call[i].at \in {"done", "failed"} /\ responses' = responses \ {i} /\ issued' = issued
      /\ call' = [call EXCEPT ![i].at = "gone"] /\ UNCHANGED serverVars
  BY DEF DoRun
<1>3. /\ call' \in [Calls -> [at : Places, wire : Wires]] /\ call'[i].at = "gone"
      /\ \A j \in Calls : j # i => call'[j] = call[j]
  BY <1>2, CallMoves DEF AsyncInv, Places
<1>4. i \in issued /\ i \in responses /\ dumped[i] = <<>> /\ DOMAIN dumped = Calls
  BY <1>2 DEF AsyncInv, ClientOK
<1>5. dumped'[i] = <<x>> /\ DOMAIN dumped' = Calls /\ \A j \in Calls : j # i => dumped'[j] = dumped[j]
  BY <1>1, <1>4
<1>6. PrintedOK(i, x)
  BY <1>1, <1>2, <1>4 DEF PrintedOK, AsyncInv, ClientOK
<1>7. issued \subseteq Calls
  BY CallAssumption DEF AsyncInv, ClientOK, Calls
<1>8. responses' = {j \in issued' : call'[j].at # "gone"}
  BY <1>2, <1>3, <1>7 DEF AsyncInv, ClientOK
<1>9. ASSUME NEW j \in Calls
      PROVE  /\ call'[j].at = "none" <=> j \notin issued'
             /\ call'[j].at = "sent" => call'[j].wire = Query(j)
             /\ call'[j].at \in {"answered", "done"} => call'[j].wire = Reply(QueryIndex[j])
             /\ call'[j].at # "gone" => dumped'[j] = <<>>
             /\ call'[j].at = "gone" => \E y : dumped'[j] = <<y>> /\ PrintedOK(j, y)
  <2>1. CASE j = i
    BY <2>1, <1>2, <1>3, <1>4, <1>5, <1>6
  <2>2. CASE j # i
    BY <2>2, <1>2, <1>3, <1>5 DEF AsyncInv, ClientOK
  <2> QED BY <2>1, <2>2
<1>10. ClientOK'
  BY <1>2, <1>3, <1>5, <1>8, <1>9 DEF AsyncInv, ClientOK, PrintedOK
<1>11. \A j \in Calls : call[j].at \notin {"none", "sent"} => call'[j].at \notin {"none", "sent"}
  BY <1>3
<1> QED BY <1>2, <1>10, <1>11, ServerStays DEF AsyncInv

LEMMA AsyncGetIndexKeeps ==
  ASSUME AsyncInv, AsyncGetIndex
  PROVE  AsyncInv'
<1>1. PICK k \in 0 .. NumCalls : issued = 1 .. k
  BY DEF AsyncInv, ClientOK
<1>2. NumCalls \in Nat /\ k \in Nat
  BY CallAssumption
<1>3. Cardinality(issued) = k
  BY <1>1, <1>2, FS_Interval
<1>4. PICK i : i = k + 1
  OBVIOUS
<1>5. /\ i \in Calls /\ i \notin issued /\ k < NumCalls /\ issued' = issued \cup {i} /\ responses' = responses \cup {i}
      /\ call' = [call EXCEPT ![i] = [at |-> "sent", wire |-> Query(i)]] /\ dumped' = dumped /\ UNCHANGED serverVars
  <2>1. k < NumCalls /\ dumped' = dumped /\ UNCHANGED serverVars
    BY <1>3 DEF AsyncGetIndex
  <2>2. i = Cardinality(issued) + 1
    BY <1>3, <1>4
  <2>3. /\ issued' = issued \cup {i} /\ responses' = responses \cup {i}
        /\ call' = [call EXCEPT ![i] = [at |-> "sent", wire |-> Query(i)]]
    BY <2>2 DEF AsyncGetIndex
  <2>4. i \in Calls /\ i \notin issued
    BY <2>1, <1>1, <1>2, <1>4 DEF Calls
  <2> QED BY <2>1, <2>3, <2>4
<1>6. issued' = 1 .. (k + 1) /\ k + 1 \in 0 .. NumCalls
  BY <1>1, <1>2, <1>4, <1>5
<1>7. PICK m : m = [at |-> "sent", wire |-> Query(i)]
  OBVIOUS
<1>8. m \in [at : Places, wire : Wires] /\ m.at = "sent" /\ m.wire = Query(i)
  BY <1>5, <1>7 DEF Places, Wires
<1>9. /\ call' \in [Calls -> [at : Places, wire : Wires]] /\ call'[i] = m
      /\ \A j \in Calls : j # i => call'[j] = call[j]
  BY <1>5, <1>7, <1>8 DEF AsyncInv, ClientOK
<1>10. issued \subseteq Calls
  BY <1>1, <1>2 DEF Calls
<1>11. responses' = {j \in issued' : call'[j].at # "gone"}
  BY <1>5, <1>8, <1>9, <1>10 DEF AsyncInv, ClientOK
<1>12. ASSUME NEW j \in Calls
       PROVE  /\ call'[j].at = "none" <=> j \notin issued'
              /\ call'[j].at = "sent" => call'[j].wire = Query(j)
              /\ call'[j].at \in {"answered", "done"} => call'[j].wire = Reply(QueryIndex[j])
              /\ call'[j].at # "gone" => dumped'[j] = <<>>
              /\ call'[j].at = "gone" => \E y : dumped'[j] = <<y>> /\ PrintedOK(j, y)
  <2>1. CASE j = i
    <3>1. call[i].at = "none" /\ dumped[i] = <<>>
      BY <1>5 DEF AsyncInv, ClientOK
    <3> QED BY <3>1, <2>1, <1>5, <1>8, <1>9
  <2>2. CASE j # i
    BY <2>2, <1>5, <1>9 DEF AsyncInv, ClientOK
  <2> QED BY <2>1, <2>2
<1>13. ClientOK'
  <2>1. DOMAIN dumped' = Calls
    BY <1>5 DEF AsyncInv, ClientOK
  <2>2. \E l \in 0 .. NumCalls : issued' = 1 .. l
    BY <1>6
  <2> QED BY <2>1, <2>2, <1>9, <1>11, <1>12 DEF ClientOK, PrintedOK
<1>14. \A j \in Calls : call[j].at \notin {"none", "sent"} => call'[j].at \notin {"none", "sent"}
  <2>1. call[i].at = "none"
    BY <1>5 DEF AsyncInv, ClientOK
  <2> QED BY <2>1, <1>9
<1> QED BY <1>5, <1>13, <1>14, ServerStays DEF AsyncInv

LEMMA ClientEndKeeps ==
  ASSUME AsyncInv, UNCHANGED <<issued, responses, dumped, call, serverVars>>
  PROVE  AsyncInv'
<1>1. ClientOK'
  BY DEF AsyncInv, ClientOK, PrintedOK
<1> QED BY <1>1, ServerStays DEF AsyncInv
\* A call is matched with the CallData that waits: the first to serve it.
LEMMA MatchRequestKeeps ==
  ASSUME AsyncInv, NEW i \in Calls, NEW c \in DOMAIN data, MatchRequest(i, c)
  PROVE  AsyncInv'
<1>1. /\ call[i].at = "sent" /\ data[c].status = "PROCESS" /\ data[c].serves = 0
      /\ call' = [call EXCEPT ![i].at = "serving"] /\ events' = events \cup {<<c, TRUE>>}
      /\ UNCHANGED clientVars /\ current' = current
  BY DEF MatchRequest
<1>2. /\ call' \in [Calls -> [at : Places, wire : Wires]] /\ call'[i].at = "serving"
      /\ \A j \in Calls : j # i => call'[j] = call[j]
  BY <1>1, CallMoves DEF AsyncInv, Places
<1>3. ClientOK'
  BY <1>1, <1>2, ClientSame DEF AsyncInv
<1>4. data \in [DOMAIN data -> CallDataType] /\ DOMAIN data \subseteq CallDatas
  BY DEF AsyncInv, CallDataOK
<1>5. data[c].request = QueryClear /\ call[i].wire = Query(i) /\ c # current
  BY <1>1, CallAssumption DEF AsyncInv, CallDataOK, ClientOK
<1>6. PICK q, r : q = Asked(i) /\ r = [data[c] EXCEPT !.serves = i, !.request = q]
  OBVIOUS
<1>7. r \in CallDataType /\ r.status = "PROCESS" /\ r.serves = i /\ r.request = Asked(i) /\ i # 0
  <2>1. i \in 0 .. NumCalls /\ i # 0
    BY CallAssumption DEF Calls
  <2>2. PICK Q : Q = {QueryClear} \cup {Asked(j) : j \in Calls}
    OBVIOUS
  <2>3. q \in Q /\ data[c] \in [status : {"PROCESS", "FINISH"}, serves : 0 .. NumCalls, request : Q]
    BY <2>2, <1>4, <1>6 DEF CallDataType
  <2>4. /\ r \in [status : {"PROCESS", "FINISH"}, serves : 0 .. NumCalls, request : Q]
        /\ r.status = data[c].status /\ r.serves = i /\ r.request = q
    BY <2>1, <2>3, <1>6
  <2> QED BY <2>1, <2>2, <2>4, <1>1, <1>6 DEF CallDataType
<1>8. data' = [data EXCEPT ![c] = r]
  <2>1. data' = [data EXCEPT ![c].serves = i, ![c].request = QueryReceived(@, call[i].wire)]
    BY DEF MatchRequest
  <2>2. q = QueryReceived(data[c].request, call[i].wire)
    BY <1>5, <1>6 DEF Asked
  <2> QED BY <2>1, <2>2, <1>4, <1>6
<1>9. /\ DOMAIN data' = DOMAIN data /\ data' \in [DOMAIN data' -> CallDataType] /\ data'[c] = r
      /\ \A d \in DOMAIN data : d # c => data'[d] = data[d]
  BY <1>4, <1>7, <1>8
<1>10. AwaitsRequest' = AwaitsRequest
  BY <1>1, <1>7, <1>9 DEF AwaitsRequest
<1>11. \A d \in DOMAIN data : data[d].serves # i
  BY <1>1, <1>7 DEF AsyncInv, CallDataOK
<1>12. \A d \in DOMAIN data : data[d].serves # 0 => data[d].serves \in Calls
  BY <1>4, CallAssumption DEF CallDataType, Calls
<1>13. CallDataOK'
  <2>1. \E d \in DOMAIN data' : AwaitsRequest' = {d}
    BY <1>9, <1>10 DEF AsyncInv, CallDataOK
  <2>2. current' # NoCallData => current' \in DOMAIN data' /\ data'[current'].status = "PROCESS" /\ data'[current'].serves # 0
    BY <1>1, <1>5, <1>9 DEF AsyncInv, CallDataOK
  <2>3. ASSUME NEW d \in DOMAIN data'
        PROVE  /\ data'[d].status = "FINISH" => data'[d].serves # 0
               /\ data'[d].request = IF data'[d].serves = 0 THEN QueryClear ELSE Asked(data'[d].serves)
               /\ data'[d].serves # 0 => call'[data'[d].serves].at \notin {"none", "sent"}
    <3>1. CASE d = c
      BY <3>1, <1>2, <1>7, <1>9
    <3>2. CASE d # c
      BY <3>2, <1>2, <1>9, <1>11, <1>12 DEF AsyncInv, CallDataOK
    <3> QED BY <3>1, <3>2
  <2>4. \A d, e \in DOMAIN data' : d # e /\ data'[d].serves # 0 => data'[d].serves # data'[e].serves
    BY <1>7, <1>9, <1>11 DEF AsyncInv, CallDataOK
  <2>5. DOMAIN data' \subseteq CallDatas
    BY <1>4, <1>9
  <2> QED BY <2>1, <2>2, <2>3, <2>4, <2>5, <1>9 DEF CallDataOK
<1>14. \A e \in events : e[1] # c
  BY <1>1 DEF AsyncInv, TagsOK
<1>15. TagsOK'
  <2>1. PICK f : f = <<c, TRUE>>
    OBVIOUS
  <2>2. f \in (DOMAIN data) \X BOOLEAN /\ f[1] = c /\ f[2] = TRUE /\ events' = events \cup {f}
    BY <2>1, <1>1
  <2>3. \A e \in events : e \in (DOMAIN data) \X BOOLEAN /\ e[1] \in DOMAIN data /\ e[1] # c
    BY <1>14 DEF AsyncInv, TagsOK
  <2>4. events' \subseteq (DOMAIN data') \X BOOLEAN
    BY <2>2, <2>3, <1>9
  <2>5. ASSUME NEW e \in events'
        PROVE  e[1] # current' /\ (data'[e[1]].status = "PROCESS" => e[2] /\ data'[e[1]].serves # 0)
    <3>1. CASE e = f
      BY <3>1, <2>2, <1>1, <1>5, <1>7, <1>9
    <3>2. CASE e \in events
      BY <3>2, <2>3, <1>1, <1>9 DEF AsyncInv, TagsOK
    <3> QED BY <3>1, <3>2, <2>2
  <2>6. \A d, e \in events' : d[1] = e[1] => d = e
    BY <2>2, <2>3 DEF AsyncInv, TagsOK
  <2> QED BY <2>4, <2>5, <2>6 DEF TagsOK
<1> QED BY <1>3, <1>13, <1>15 DEF AsyncInv

\* The CallData at work answers its own call, if that is still there, and waits for its last tag.
LEMMA AnswerKeeps ==
  ASSUME AsyncInv, Answer
  PROVE  AsyncInv'
<1>1. current # NoCallData /\ current' = NoCallData /\ UNCHANGED clientVars
  BY DEF Answer
<1>2. PICK c : c = current
  OBVIOUS
<1>3. PICK i : i = data[c].serves
  OBVIOUS
<1>4. data \in [DOMAIN data -> CallDataType] /\ DOMAIN data \subseteq CallDatas
  BY DEF AsyncInv, CallDataOK
<1>5. /\ c \in DOMAIN data /\ data[c].status = "PROCESS" /\ i # 0 /\ data[c].request = Asked(i)
      /\ call[i].at \notin {"none", "sent"} /\ data[c] \in CallDataType /\ c # NoCallData
  BY <1>1, <1>2, <1>3, <1>4 DEF AsyncInv, CallDataOK
<1>6. i \in Calls
  BY <1>3, <1>5, CallAssumption DEF CallDataType, Calls
<1>7. data[c].request.index_type = QueryIndex[i]
  BY <1>5, <1>6, Carried
<1>8. /\ data' = [data EXCEPT ![c].status = "FINISH"]
      /\ \/ /\ call[i].at = "serving" /\ call' = [call EXCEPT ![i].at = "answered", ![i].wire = Reply(QueryIndex[i])]
            /\ events' = events \cup {<<c, TRUE>>}
         \/ \E ok \in BOOLEAN : events' = events \cup {<<c, ok>>} /\ UNCHANGED call
  BY <1>2, <1>3, <1>7 DEF Answer
<1>9. PICK ok \in BOOLEAN : events' = events \cup {<<c, ok>>}
  BY <1>8
<1>10. PICK r : r = [data[c] EXCEPT !.status = "FINISH"]
  OBVIOUS
<1>11. r \in CallDataType /\ r.status = "FINISH" /\ r.serves = i /\ r.request = Asked(i)
  BY <1>3, <1>5, <1>10 DEF CallDataType
<1>12. /\ DOMAIN data' = DOMAIN data /\ data' \in [DOMAIN data' -> CallDataType] /\ data'[c] = r
       /\ \A d \in DOMAIN data : d # c => data'[d] = data[d]
  BY <1>4, <1>5, <1>8, <1>10, <1>11
<1>13. /\ ClientOK' /\ \A j \in Calls : call[j].at \notin {"none", "sent"} => call'[j].at \notin {"none", "sent"}
  <2>1. CASE UNCHANGED call
    BY <2>1, <1>1 DEF clientVars, AsyncInv, ClientOK, PrintedOK
  <2>2. CASE call[i].at = "serving" /\ call' = [call EXCEPT ![i].at = "answered", ![i].wire = Reply(QueryIndex[i])]
    <3>1. PICK w, m : w = Reply(QueryIndex[i]) /\ m = [call[i] EXCEPT !.at = "answered", !.wire = w]
      OBVIOUS
    <3>2. call \in [Calls -> [at : Places, wire : Wires]] /\ "answered" \in Places /\ w \in Wires
      BY <3>1, <1>6 DEF AsyncInv, ClientOK, Places, Wires
    <3>3. m \in [at : Places, wire : Wires] /\ m.at = "answered" /\ m.wire = Reply(QueryIndex[i])
      BY <3>1, <3>2, <1>6
    <3>4. call' = [call EXCEPT ![i] = m]
      BY <2>2, <3>1, <3>2
    <3>5. /\ call' \in [Calls -> [at : Places, wire : Wires]] /\ call'[i] = m
          /\ \A j \in Calls : j # i => call'[j] = call[j]
      BY <3>2, <3>3, <3>4, <1>6
    <3>6. ClientOK'
      BY <2>2, <3>3, <3>5, <1>1, <1>6, ClientSame DEF AsyncInv
    <3> QED BY <3>3, <3>5, <3>6
  <2> QED BY <2>1, <2>2, <1>8
<1>14. AwaitsRequest' = AwaitsRequest
  BY <1>1, <1>2, <1>4, <1>5, <1>11, <1>12, CallAssumption DEF AwaitsRequest
<1>15. \A d \in DOMAIN data : data[d].serves # 0 => data[d].serves \in Calls
  BY <1>4, CallAssumption DEF CallDataType, Calls
<1>16. CallDataOK'
  <2>1. \E d \in DOMAIN data' : AwaitsRequest' = {d}
    BY <1>12, <1>14 DEF AsyncInv, CallDataOK
  <2>2. ASSUME NEW d \in DOMAIN data'
        PROVE  /\ data'[d].status = "FINISH" => data'[d].serves # 0
               /\ data'[d].request = IF data'[d].serves = 0 THEN QueryClear ELSE Asked(data'[d].serves)
               /\ data'[d].serves # 0 => call'[data'[d].serves].at \notin {"none", "sent"}
    <3>1. CASE d = c
      BY <3>1, <1>5, <1>6, <1>11, <1>12, <1>13
    <3>2. CASE d # c
      BY <3>2, <1>12, <1>13, <1>15 DEF AsyncInv, CallDataOK
    <3> QED BY <3>1, <3>2
  <2>3. \A d, e \in DOMAIN data' : d # e /\ data'[d].serves # 0 => data'[d].serves # data'[e].serves
    BY <1>3, <1>11, <1>12 DEF AsyncInv, CallDataOK
  <2>4. DOMAIN data' \subseteq CallDatas
    BY <1>4, <1>12
  <2> QED BY <2>1, <2>2, <2>3, <2>4, <1>1, <1>12 DEF CallDataOK
<1>17. \A e \in events : e[1] # c /\ e[1] \in DOMAIN data
  BY <1>2 DEF AsyncInv, TagsOK
<1>18. TagsOK'
  <2>1. events' \subseteq (DOMAIN data') \X BOOLEAN
    BY <1>5, <1>9, <1>12 DEF AsyncInv, TagsOK
  <2>2. \A e \in events' : e[1] # current' /\ (data'[e[1]].status = "PROCESS" => e[2] /\ data'[e[1]].serves # 0)
    <3>1. \A d \in DOMAIN data : d # NoCallData
      BY <1>4, CallAssumption
    <3> QED BY <3>1, <1>1, <1>5, <1>9, <1>11, <1>12, <1>17 DEF AsyncInv, TagsOK
  <2>3. \A e, f \in events' : e[1] = f[1] => e = f
    BY <1>9, <1>17 DEF AsyncInv, TagsOK
  <2> QED BY <2>1, <2>2, <2>3 DEF TagsOK
<1> QED BY <1>13, <1>16, <1>18 DEF AsyncInv
\* When a request is to be served there is an address for the next CallData: the live ones serve
\* different calls.
LEMMA FreeCallData ==
  ASSUME AsyncInv, NEW c \in DOMAIN data, current = NoCallData, data[c].status = "PROCESS", data[c].serves # 0
  PROVE  \E n \in CallDatas : n \notin DOMAIN data
<1>1. DOMAIN data \subseteq CallDatas /\ data \in [DOMAIN data -> CallDataType]
  BY DEF AsyncInv, CallDataOK
<1>2. \A d \in DOMAIN data : data[d].serves # 0
  <2>1. c \in AwaitsRequest
    BY <1>1, CallAssumption DEF AwaitsRequest
  <2>2. PICK w : AwaitsRequest = {w}
    BY DEF AsyncInv, CallDataOK
  <2>3. ASSUME NEW d \in DOMAIN data
        PROVE  data[d].serves # 0
    <3>1. CASE data[d].status = "FINISH"
      BY <3>1 DEF AsyncInv, CallDataOK
    <3>2. CASE data[d].status = "PROCESS"
      <4>1. d \in AwaitsRequest
        BY <3>2, <1>1, CallAssumption DEF AwaitsRequest
      <4>2. d = c
        BY <4>1, <2>1, <2>2
      <4> QED BY <4>2
    <3>3. data[d] \in CallDataType
      BY <1>1
    <3> QED BY <3>1, <3>2, <3>3 DEF CallDataType
  <2> QED BY <2>3
<1>3. PICK f : f = [d \in DOMAIN data |-> data[d].serves]
  OBVIOUS
<1>4. \A d \in DOMAIN data : data[d].serves \in Calls
  BY <1>1, <1>2, CallAssumption DEF CallDataType, Calls
<1>5. f \in Injection(DOMAIN data, Calls)
  <2>1. f \in [DOMAIN data -> Calls]
    BY <1>3, <1>4
  <2>2. \A a, b \in DOMAIN data : f[a] = f[b] => a = b
    BY <1>2, <1>3 DEF AsyncInv, CallDataOK
  <2> QED BY <2>1, <2>2 DEF Injection, IsInjective
<1>6. IsFiniteSet(Calls) /\ Cardinality(Calls) = NumCalls
  BY FS_Interval, CallAssumption DEF Calls
<1>7. Cardinality(DOMAIN data) <= NumCalls
  BY <1>5, <1>6, FS_Injection
<1>8. DOMAIN data # CallDatas
  BY <1>7, CallAssumption, FS_CardinalityType
<1> QED BY <1>1, <1>8

\* A tag is taken: a request makes the next CallData, which waits, and is then served; a CallData
\* that has answered is deleted.
LEMMA HandleRpcsKeeps ==
  ASSUME AsyncInv, NEW e \in events, HandleRpcs(e)
  PROVE  AsyncInv'
<1>1. current = NoCallData /\ events' = events \ {e} /\ UNCHANGED <<clientVars, call>>
  BY DEF HandleRpcs
<1>2. ClientOK'
  BY <1>1 DEF clientVars, AsyncInv, ClientOK, PrintedOK
<1>3. PICK c \in DOMAIN data : c = e[1] /\ c \in CallDatas
  BY DEF AsyncInv, TagsOK, CallDataOK
<1>4. data \in [DOMAIN data -> CallDataType] /\ DOMAIN data \subseteq CallDatas /\ \A d \in DOMAIN data : d # NoCallData
  BY CallAssumption DEF AsyncInv, CallDataOK
<1>5. \A f \in events' : f \in events /\ f[1] # c /\ f[1] \in DOMAIN data /\ f \in (DOMAIN data) \X BOOLEAN
  BY <1>1, <1>3 DEF AsyncInv, TagsOK
<1>6. PICK w \in DOMAIN data : AwaitsRequest = {w}
  BY DEF AsyncInv, CallDataOK
<1>7. CASE UNCHANGED <<data, current>>
  <2>1. AwaitsRequest' = AwaitsRequest
    BY <1>7 DEF AwaitsRequest
  <2>2. CallDataOK'
    BY <1>1, <1>7, <2>1 DEF AsyncInv, CallDataOK
  <2>3. TagsOK'
    BY <1>5, <1>7 DEF AsyncInv, TagsOK
  <2> QED BY <1>2, <2>2, <2>3 DEF AsyncInv
<1>8. CASE OnFinish(c)
  <2>1. data[c].status = "FINISH" /\ current' = current
    BY <1>8 DEF OnFinish
  <2>2. /\ DOMAIN data' = DOMAIN data \ {c} /\ data' \in [DOMAIN data' -> CallDataType]
        /\ \A d \in DOMAIN data' : data'[d] = data[d]
    BY <1>4, <1>8 DEF OnFinish
  <2>3. AwaitsRequest' = AwaitsRequest /\ w \in DOMAIN data'
    BY <1>6, <2>1, <2>2 DEF AwaitsRequest
  <2>4. CallDataOK'
    <3>1. \E d \in DOMAIN data' : AwaitsRequest' = {d}
      BY <1>6, <2>3
    <3>2. DOMAIN data' \subseteq CallDatas
      BY <1>4, <2>2
    <3>3. \A d \in DOMAIN data' : /\ data'[d].status = "FINISH" => data'[d].serves # 0
                                  /\ data'[d].request = IF data'[d].serves = 0 THEN QueryClear ELSE Asked(data'[d].serves)
                                  /\ data'[d].serves # 0 => call'[data'[d].serves].at \notin {"none", "sent"}
      BY <1>1, <2>2 DEF AsyncInv, CallDataOK
    <3>4. \A b, d \in DOMAIN data' : b # d /\ data'[b].serves # 0 => data'[b].serves # data'[d].serves
      BY <2>2 DEF AsyncInv, CallDataOK
    <3> QED BY <3>1, <3>2, <3>3, <3>4, <1>1, <2>1, <2>2 DEF CallDataOK
  <2>5. TagsOK'
    <3>1. events' \subseteq (DOMAIN data') \X BOOLEAN
      BY <1>5, <2>2
    <3>2. \A f \in events' : f[1] # current' /\ (data'[f[1]].status = "PROCESS" => f[2] /\ data'[f[1]].serves # 0)
      BY <1>5, <2>1, <2>2 DEF AsyncInv, TagsOK
    <3>3. \A f, g \in events' : f[1] = g[1] => f = g
      BY <1>5 DEF AsyncInv, TagsOK
    <3> QED BY <3>1, <3>2, <3>3 DEF TagsOK
  <2> QED BY <1>2, <2>4, <2>5 DEF AsyncInv
<1>9. CASE e[2] /\ OnProcess(c)
  <2>1. data[c].status = "PROCESS" /\ current' = c /\ data[c].serves # 0
    BY <1>3, <1>9 DEF OnProcess, AsyncInv, TagsOK
  <2>2. PICK n : n = CHOOSE x \in CallDatas \ DOMAIN data : TRUE
    OBVIOUS
  <2>3. n \in CallDatas /\ n \notin DOMAIN data
    <3>1. \E x \in CallDatas \ DOMAIN data : TRUE
      BY <1>1, <2>1, FreeCallData
    <3> QED BY <2>2, <3>1
  <2>4. PICK r : r = [status |-> "PROCESS", serves |-> 0, request |-> QueryClear]
    OBVIOUS
  <2>5. r \in CallDataType /\ r.status = "PROCESS" /\ r.serves = 0 /\ r.request = QueryClear
    BY <2>4, CallAssumption DEF CallDataType
  <2>6. data' = [x \in DOMAIN data \cup {n} |-> IF x = n THEN r ELSE data[x]]
    BY <1>9, <2>2, <2>4 DEF OnProcess, NewCallData
  <2>7. /\ DOMAIN data' = DOMAIN data \cup {n} /\ data' \in [DOMAIN data' -> CallDataType] /\ data'[n] = r
        /\ \A d \in DOMAIN data : data'[d] = data[d] /\ d # n
    BY <1>4, <2>3, <2>5, <2>6
  <2>8. AwaitsRequest' = {n}
    <3>1. c \in AwaitsRequest
      BY <1>1, <1>4, <2>1 DEF AwaitsRequest
    <3>2. \A d \in DOMAIN data : data[d].status = "PROCESS" => d = c
      BY <1>1, <1>4, <1>6, <3>1 DEF AwaitsRequest
    <3> QED BY <2>1, <2>5, <2>7, <3>2 DEF AwaitsRequest
  <2>9. CallDataOK'
    <3>1. \E d \in DOMAIN data' : AwaitsRequest' = {d}
      BY <2>7, <2>8
    <3>2. DOMAIN data' \subseteq CallDatas
      BY <1>4, <2>3, <2>7
    <3>3. ASSUME NEW d \in DOMAIN data'
          PROVE  /\ data'[d].status = "FINISH" => data'[d].serves # 0
                 /\ data'[d].request = IF data'[d].serves = 0 THEN QueryClear ELSE Asked(data'[d].serves)
                 /\ data'[d].serves # 0 => call'[data'[d].serves].at \notin {"none", "sent"}
      <4>1. CASE d = n
        BY <4>1, <2>5, <2>7
      <4>2. CASE d \in DOMAIN data
        BY <4>2, <1>1, <2>7 DEF AsyncInv, CallDataOK
      <4> QED BY <4>1, <4>2, <2>7
    <3>4. \A b, d \in DOMAIN data' : b # d /\ data'[b].serves # 0 => data'[b].serves # data'[d].serves
      BY <2>5, <2>7 DEF AsyncInv, CallDataOK
    <3>5. current' # NoCallData => current' \in DOMAIN data' /\ data'[current'].status = "PROCESS" /\ data'[current'].serves # 0
      BY <2>1, <2>7
    <3> QED BY <3>1, <3>2, <3>3, <3>4, <3>5, <2>7 DEF CallDataOK
  <2>10. TagsOK'
    <3>1. events' \subseteq (DOMAIN data') \X BOOLEAN
      BY <1>5, <2>7
    <3>2. \A f \in events' : f[1] # current' /\ (data'[f[1]].status = "PROCESS" => f[2] /\ data'[f[1]].serves # 0)
      BY <1>5, <2>1, <2>7 DEF AsyncInv, TagsOK
    <3>3. \A f, g \in events' : f[1] = g[1] => f = g
      BY <1>5 DEF AsyncInv, TagsOK
    <3> QED BY <3>1, <3>2, <3>3 DEF TagsOK
  <2> QED BY <1>2, <2>9, <2>10 DEF AsyncInv
<1> QED BY <1>3, <1>7, <1>8, <1>9 DEF HandleRpcs

LEMMA AsyncInvInit == AsyncInit => AsyncInv
<1> SUFFICES ASSUME AsyncInit
             PROVE  AsyncInv
  OBVIOUS
<1>1. NumCalls \in Nat
  BY CallAssumption
<1>2. ClientOK
  <2>1. issued = 1 .. 0 /\ 0 \in 0 .. NumCalls /\ responses = {} /\ issued = {}
    BY <1>1 DEF AsyncInit
  <2>2. /\ call \in [Calls -> [at : Places, wire : Wires]] /\ \A i \in Calls : call[i].at = "none" /\ dumped[i] = <<>>
        /\ DOMAIN dumped = Calls
    BY DEF AsyncInit, Places, Wires
  <2> QED BY <2>1, <2>2 DEF ClientOK
<1>3. PICK c : c = CHOOSE x \in CallDatas : TRUE
  OBVIOUS
<1>4. c \in CallDatas
  <2>1. CallDatas # {}
    BY CallAssumption, FS_EmptySet
  <2> QED BY <1>3, <2>1
<1>5. PICK r : r = [status |-> "PROCESS", serves |-> 0, request |-> QueryClear]
  OBVIOUS
<1>6. r \in CallDataType /\ r.status = "PROCESS" /\ r.serves = 0 /\ r.request = QueryClear
  BY <1>5, <1>1 DEF CallDataType
<1>7. data = [x \in {c} |-> r] /\ events = {} /\ current = NoCallData
  BY <1>3, <1>5 DEF AsyncInit, NewCallData
<1>8. AwaitsRequest = {c}
  BY <1>4, <1>6, <1>7, CallAssumption DEF AwaitsRequest
<1>9. CallDataOK
  BY <1>4, <1>6, <1>7, <1>8 DEF CallDataOK
<1>10. TagsOK
  BY <1>7 DEF TagsOK
<1> QED BY <1>2, <1>9, <1>10 DEF AsyncInv

LEMMA AsyncInvStep ==
  ASSUME AsyncInv, [AsyncNext]_asyncVars
  PROVE  AsyncInv'
<1>1. ASSUME NEW e \in events, HandleRpcs(e) PROVE AsyncInv'
  BY <1>1, HandleRpcsKeeps
<1>2. CASE Answer
  BY <1>2, AnswerKeeps
<1>3. ASSUME NEW i \in Calls, NEW c \in DOMAIN data, MatchRequest(i, c) PROVE AsyncInv'
  BY <1>3, MatchRequestKeeps
<1>4. ASSUME NEW i \in Calls, Complete(i) \/ Fail(i) PROVE AsyncInv'
  BY <1>4, CompleteKeeps
<1>5. ASSUME NEW i \in Calls, DoRun(i) PROVE AsyncInv'
  BY <1>5, DoRunKeeps
<1>6. CASE AsyncGetIndex
  BY <1>6, AsyncGetIndexKeeps
<1>7. CASE Stop \/ LoopEnds \/ Join \/ UNCHANGED asyncVars
  BY <1>7, ClientEndKeeps DEF Stop, LoopEnds, Join, asyncVars, clientVars
<1> QED BY <1>1, <1>2, <1>3, <1>4, <1>5, <1>6, <1>7 DEF AsyncNext

LEMMA AsyncInvSound == AsyncInv => AsyncCallsSound
<1> SUFFICES ASSUME AsyncInv
             PROVE  AsyncCallsSound
  OBVIOUS
<1>1. Cardinality({c \in DOMAIN data : data[c].status = "PROCESS" /\ c # current}) = 1
  <2>1. PICK w : AwaitsRequest = {w}
    BY DEF AsyncInv, CallDataOK
  <2>2. Cardinality(AwaitsRequest) = 1
    BY <2>1, FS_Singleton
  <2> QED BY <2>2 DEF AwaitsRequest
<1>2. \A e, f \in events : e[1] \in DOMAIN data /\ e[1] # current /\ (e[1] = f[1] => e = f)
  BY DEF AsyncInv, TagsOK
<1>3. responses = {i \in issued : call[i].at # "gone"}
  BY DEF AsyncInv, ClientOK
<1>4. ASSUME NEW i \in Calls
      PROVE  /\ Len(dumped[i]) <= 1
             /\ \A k \in DOMAIN dumped[i] :
                  /\ dumped[i][k].alive
                  /\ dumped[i][k].ok => /\ dumped[i][k].reply.index_type = QueryIndex[i]
                                        /\ dumped[i][k].reply.index_name = IndexName(QueryIndex[i])
  <2>1. CASE call[i].at # "gone"
    <3>1. dumped[i] = <<>>
      BY <2>1 DEF AsyncInv, ClientOK
    <3> QED BY <3>1
  <2>2. CASE call[i].at = "gone"
    <3>1. PICK x : dumped[i] = <<x>> /\ PrintedOK(i, x)
      BY <2>2 DEF AsyncInv, ClientOK
    <3>2. Len(dumped[i]) = 1 /\ DOMAIN dumped[i] = {1} /\ dumped[i][1] = x
      BY <3>1
    <3> QED BY <3>1, <3>2, Carried DEF PrintedOK
  <2> QED BY <2>1, <2>2
<1> QED BY <1>1, <1>2, <1>3, <1>4 DEF AsyncCallsSound

\* Requests, answers and failures of any number of calls are mixed, and still one CallData waits, every
\* tag is a live object and each answer goes to the call that asked, printed once.
THEOREM AsyncSafe == AsyncSpec => []AsyncCallsSound
<1>1. AsyncInit => AsyncInv
  BY AsyncInvInit
<1>2. AsyncInv /\ [AsyncNext]_asyncVars => AsyncInv'
  BY AsyncInvStep
<1>3. AsyncInv => AsyncCallsSound
  BY AsyncInvSound
<1> QED BY <1>1, <1>2, <1>3, PTL DEF AsyncSpec

-----------------------------------------------------------------------------
(* Traced calls *)

SpanType == [name : {"ClientGet", "ClientCallC", "Get"}, parent : Nat, open : BOOLEAN]
Given(c) == ResultOf(AnswerTo(QueryOf(c)))
GetRecord == [pc : {"start", "calling", "waiting", "answered", "failed"}, span : Nat, result : {IndexClear} \cup {Given(c) : c \in Clients}]
RpcType == [at : {"none", "sent", "intercepted", "answered"}, gone : BOOLEAN, context : Nat, span : Nat,
            wire : {<<>>} \cup {QueryOf(c) : c \in Clients} \cup {AnswerTo(QueryOf(c)) : c \in Clients}]
TracedType == /\ DOMAIN conf = Processes /\ spans \in Seq(SpanType)
              /\ get \in [Clients -> GetRecord] /\ rpc \in [Clients -> RpcType]
              /\ serving => conf[TheServer].state = "loaded"

\* The call of c: its span and that of the server, and what is on the wire.
InServer(c) == rpc[c].at \in {"intercepted", "answered"}
ClientSpanOK(c) ==
  /\ get[c].pc = "start" => get[c].span = NoSpan
  /\ get[c].pc # "start" => conf[c].state = "loaded"
  /\ get[c].span # NoSpan => get[c].span \in DOMAIN spans /\ spans[get[c].span].name = "ClientGet"
  /\ get[c].pc # "start" => (Traces(c) <=> get[c].span # NoSpan)
  /\ get[c].pc = "answered" => /\ rpc[c].at = "answered" /\ get[c].result = Given(c)
                               /\ get[c].span # NoSpan => ~spans[get[c].span].open
RpcOK(c) ==
  /\ get[c].pc \in {"start", "calling"} => rpc[c].at = "none" /\ ~rpc[c].gone
  /\ rpc[c].at \in {"none", "sent"} => rpc[c].span = NoSpan
  /\ rpc[c].at # "none" => rpc[c].context = get[c].span
  /\ rpc[c].at \in {"sent", "intercepted"} => rpc[c].wire = QueryOf(c)
  /\ rpc[c].at = "answered" => rpc[c].wire = AnswerTo(QueryOf(c))
  /\ InServer(c) => conf[TheServer].state = "loaded" /\ (Traces(TheServer) <=> rpc[c].span # NoSpan)
  /\ rpc[c].span # NoSpan => /\ rpc[c].span \in DOMAIN spans /\ spans[rpc[c].span].name = "Get"
                             /\ spans[rpc[c].span].parent = get[c].span
                             /\ rpc[c].at = "answered" => ~spans[rpc[c].span].open
CallOK(c) == ClientSpanOK(c) /\ RpcOK(c)

\* Every span belongs to one call, and the ones a client makes below its own have ended.
SpanOK(n) ==
  /\ spans[n].name = "ClientGet" => spans[n].parent = NoSpan
  /\ spans[n].name = "ClientCallC" => ~spans[n].open
  /\ spans[n].name = "Get" => \E c \in Clients : rpc[c].span = n
OneOwner ==
  /\ \A c, d \in Clients : c # d /\ get[c].span # NoSpan => get[c].span # get[d].span
  /\ \A c, d \in Clients : c # d /\ rpc[c].span # NoSpan => rpc[c].span # rpc[d].span

TracedInv ==
  /\ TracedType
  /\ \A c \in Clients : CallOK(c)
  /\ \A n \in DOMAIN spans : SpanOK(n)
  /\ OneOwner

\* Spans are added and ended, nothing else.
Later == /\ spans' \in Seq(SpanType) /\ DOMAIN spans \subseteq DOMAIN spans'
         /\ \A n \in DOMAIN spans : /\ spans'[n].name = spans[n].name /\ spans'[n].parent = spans[n].parent
                                    /\ ~spans[n].open => ~spans'[n].open
ConfStays == \A p \in Processes : conf[p].state = "loaded" => conf'[p] = conf[p]

\* A call that does not move keeps its part of the trace.
LEMMA CallStays ==
  ASSUME NEW c \in Clients, CallOK(c), Later, ConfStays, get'[c] = get[c], rpc'[c] = rpc[c]
  PROVE  CallOK(c)'
<1>1. c \in Processes /\ TheServer \in Processes
  BY DEF Processes
<1>2. ClientSpanOK(c)'
  BY <1>1 DEF CallOK, ClientSpanOK, Later, ConfStays, Traces
<1>3. RpcOK(c)'
  BY <1>1 DEF CallOK, RpcOK, Later, ConfStays, Traces, InServer
<1> QED BY <1>2, <1>3 DEF CallOK

\* A span that was there stays right while no call loses its server span.
LEMMA SpanStays ==
  ASSUME NEW n \in DOMAIN spans, SpanOK(n), Later, \A c \in Clients : rpc[c].span # NoSpan => rpc'[c].span = rpc[c].span, n # NoSpan
  PROVE  SpanOK(n)'
BY DEF SpanOK, Later

\* A span added at the end.
LEMMA LaterAppend ==
  ASSUME spans \in Seq(SpanType), NEW s \in SpanType, spans' = Append(spans, s)
  PROVE  /\ Later /\ Len(spans') = Len(spans) + 1 /\ DOMAIN spans' = DOMAIN spans \cup {Len(spans')}
         /\ Len(spans') \notin DOMAIN spans /\ Len(spans') # NoSpan /\ spans'[Len(spans')] = s
         /\ \A n \in DOMAIN spans : spans'[n] = spans[n] /\ n # NoSpan
BY DEF Later, NoSpan

\* A span ended.
LEMMA LaterFinished ==
  ASSUME NEW s \in Seq(SpanType), NEW n \in DOMAIN s \cup {NoSpan}
  PROVE  /\ FinishedSpan(s, n) \in Seq(SpanType) /\ DOMAIN FinishedSpan(s, n) = DOMAIN s
         /\ \A m \in DOMAIN s : /\ FinishedSpan(s, n)[m].name = s[m].name /\ FinishedSpan(s, n)[m].parent = s[m].parent
                                /\ (m = n \/ ~s[m].open) => ~FinishedSpan(s, n)[m].open
<1>1. CASE n = NoSpan
  BY <1>1 DEF FinishedSpan, NoSpan
<1>2. CASE n # NoSpan
  <2>1. n \in DOMAIN s /\ n \in 1 .. Len(s)
    BY <1>2
  <2>2. PICK x : x = [s[n] EXCEPT !.open = FALSE]
    OBVIOUS
  <2>3. s[n] \in SpanType
    BY <2>1
  <2>4. x \in SpanType /\ x.name = s[n].name /\ x.parent = s[n].parent /\ x.open = FALSE
    BY <2>2, <2>3 DEF SpanType
  <2>5. FinishedSpan(s, n) = [s EXCEPT ![n] = x]
    BY <1>2, <2>2 DEF FinishedSpan
  <2>6. [s EXCEPT ![n] = x] \in Seq(SpanType) /\ DOMAIN [s EXCEPT ![n] = x] = DOMAIN s
    BY <2>1, <2>4, ExceptSeq
  <2>7. \A m \in DOMAIN s : [s EXCEPT ![n] = x][m] = IF m = n THEN x ELSE s[m]
    BY <2>1
  <2> QED BY <2>4, <2>5, <2>6, <2>7
<1> QED BY <1>1, <1>2
LEMMA LoadConfigTraced ==
  ASSUME TracedInv, NEW p \in Processes, NEW file \in ConfigFiles, LoadConfig(p, file)
  PROVE  TracedInv'
<1>0. PICK x : x = IF file = NoFile \/ file.tracer_library = BadLibrary THEN [state |-> "failed"]
                   ELSE [state |-> "loaded", address |-> <<file.host, file.port>>,
                         tracer |-> IF file.tracer_library = <<>> THEN "noop" ELSE "real"]
  OBVIOUS
<1>1. x.state \in {"failed", "loaded"} /\ conf' = [conf EXCEPT ![p] = x]
  <2>1. conf' = [conf EXCEPT ![p] = x]
    BY <1>0 DEF LoadConfig
  <2>2. CASE file = NoFile \/ file.tracer_library = BadLibrary
    BY <1>0, <2>1, <2>2
  <2>3. CASE ~(file = NoFile \/ file.tracer_library = BadLibrary)
    BY <1>0, <2>1, <2>3
  <2> QED BY <2>2, <2>3
<1>2. /\ conf[p].state = "start" /\ UNCHANGED <<spans, get, rpc>>
      /\ serving' = IF p = TheServer THEN conf'[p].state = "loaded" ELSE serving
  BY DEF LoadConfig
<1>3. DOMAIN conf = Processes /\ spans \in Seq(SpanType)
  BY DEF TracedInv, TracedType
<1>4. DOMAIN conf' = Processes /\ conf'[p] = x /\ \A q \in Processes : q # p => conf'[q] = conf[q]
  BY <1>1, <1>3
<1>5. ConfStays
  BY <1>2, <1>4 DEF ConfStays
<1>6. Later
  BY <1>2, <1>3 DEF Later
<1>7. TracedType'
  <2>1. TheServer \in Processes
    BY DEF Processes
  <2>2. serving' => conf'[TheServer].state = "loaded"
    BY <2>1, <1>2, <1>4 DEF TracedInv, TracedType
  <2> QED BY <2>2, <1>2, <1>4 DEF TracedInv, TracedType
<1>8. ASSUME NEW c \in Clients
      PROVE  CallOK(c)'
  BY <1>2, <1>5, <1>6, CallStays DEF TracedInv
<1>9. ASSUME NEW n \in DOMAIN spans'
      PROVE  SpanOK(n)'
  BY <1>2 DEF TracedInv, SpanOK
<1>10. OneOwner'
  BY <1>2 DEF TracedInv, OneOwner
<1> QED BY <1>7, <1>8, <1>9, <1>10 DEF TracedInv

LEMMA StartGetTraced ==
  ASSUME TracedInv, NEW c \in Clients, StartGet(c)
  PROVE  TracedInv'
<1>1. get[c].pc = "start" /\ conf[c].state = "loaded" /\ UNCHANGED <<conf, rpc, serving>>
  BY DEF StartGet
<1>2. spans \in Seq(SpanType) /\ get \in [Clients -> GetRecord] /\ Len(spans) \in Nat
  BY DEF TracedInv, TracedType
<1>3. PICK k \in Nat : /\ get' = [get EXCEPT ![c].pc = "calling", ![c].span = k] /\ (Traces(c) <=> k # NoSpan)
                       /\ k # NoSpan => k \in DOMAIN spans' /\ k \notin DOMAIN spans /\ spans'[k].name = "ClientGet"
                       /\ Later
                       /\ \A n \in DOMAIN spans' : n \in DOMAIN spans \/ (spans'[n].name = "ClientGet" /\ spans'[n].parent = NoSpan)
  <2>1. CASE Traces(c)
    <3>1. PICK s : s = [name |-> "ClientGet", parent |-> NoSpan, open |-> TRUE]
      OBVIOUS
    <3>2. s \in SpanType /\ s.name = "ClientGet" /\ s.parent = NoSpan
      BY <3>1 DEF SpanType, NoSpan
    <3>3. spans' = Append(spans, s) /\ get' = [get EXCEPT ![c].pc = "calling", ![c].span = Len(spans')]
      BY <2>1, <3>1 DEF StartGet, Started
    <3>4. PICK k : k = Len(spans')
      OBVIOUS
    <3>5. /\ Later /\ k = Len(spans) + 1 /\ DOMAIN spans' = DOMAIN spans \cup {k}
          /\ k \notin DOMAIN spans /\ k # NoSpan /\ spans'[k] = s
      BY <3>2, <3>3, <3>4, <1>2, LaterAppend
    <3>6. k \in Nat
      BY <3>5, <1>2
    <3> QED BY <2>1, <3>2, <3>3, <3>4, <3>5, <3>6
  <2>2. CASE ~Traces(c)
    <3>1. spans' = spans /\ get' = [get EXCEPT ![c].pc = "calling", ![c].span = NoSpan]
      BY <2>2 DEF StartGet
    <3>2. Later
      BY <3>1, <1>2 DEF Later
    <3>3. NoSpan \in Nat
      BY DEF NoSpan
    <3> QED BY <2>2, <3>1, <3>2, <3>3
  <2> QED BY <2>1, <2>2
<1>4. PICK g : g = [get[c] EXCEPT !.pc = "calling", !.span = k]
  OBVIOUS
<1>5. get[c] \in GetRecord
  BY <1>2
<1>6. g \in GetRecord /\ g.pc = "calling" /\ g.span = k
  BY <1>4, <1>5 DEF GetRecord
<1>7. /\ get' \in [Clients -> GetRecord] /\ get'[c] = g /\ \A d \in Clients : d # c => get'[d] = get[d]
  BY <1>2, <1>3, <1>4, <1>6
<1>8. TracedType'
  BY <1>1, <1>3, <1>7 DEF TracedInv, TracedType, Later
<1>9. ConfStays
  BY <1>1 DEF ConfStays
<1>10. CallOK(c) /\ get[c].span = NoSpan
  BY <1>1 DEF TracedInv, CallOK, ClientSpanOK
<1>11. ClientSpanOK(c)'
  BY <1>1, <1>3, <1>6, <1>7 DEF ClientSpanOK, Traces
<1>12. RpcOK(c)'
  <2>1. rpc[c].at = "none" /\ ~rpc[c].gone /\ rpc[c].span = NoSpan
    BY <1>1, <1>10 DEF CallOK, RpcOK
  <2> QED BY <2>1, <1>1, <1>6, <1>7 DEF RpcOK, InServer
<1>13. ASSUME NEW d \in Clients
       PROVE  CallOK(d)'
  <2>1. CASE d = c
    BY <2>1, <1>11, <1>12 DEF CallOK
  <2>2. CASE d # c
    BY <2>2, <1>1, <1>3, <1>7, <1>9, CallStays DEF TracedInv
  <2> QED BY <2>1, <2>2
<1>14. ASSUME NEW n \in DOMAIN spans'
       PROVE  SpanOK(n)'
  <2>1. CASE n \in DOMAIN spans
    BY <2>1, <1>1, <1>2, <1>3, SpanStays DEF TracedInv, NoSpan
  <2>2. CASE n \notin DOMAIN spans
    BY <2>2, <1>3 DEF SpanOK
  <2> QED BY <2>1, <2>2
<1>15. OneOwner'
  <2>1. \A d \in Clients : get[d].span # NoSpan => get[d].span \in DOMAIN spans
    BY DEF TracedInv, CallOK, ClientSpanOK
  <2>2. ASSUME NEW d \in Clients, NEW e \in Clients, d # e, get'[d].span # NoSpan
        PROVE  get'[d].span # get'[e].span
    <3>1. CASE d = c
      BY <3>1, <2>1, <2>2, <1>3, <1>6, <1>7
    <3>2. CASE e = c
      BY <3>2, <2>1, <2>2, <1>3, <1>6, <1>7
    <3>3. CASE d # c /\ e # c
      BY <3>3, <2>2, <1>7 DEF TracedInv, OneOwner
    <3> QED BY <3>1, <3>2, <3>3
  <2> QED BY <2>2, <1>1 DEF TracedInv, OneOwner
<1> QED BY <1>8, <1>13, <1>14, <1>15 DEF TracedInv

\* What CallC appends: a span of the client that has ended.
LEMMA CallCLater ==
  ASSUME TracedInv, NEW c \in Clients
  PROVE  /\ CallC(c) \in Seq(SpanType) /\ DOMAIN spans \subseteq DOMAIN CallC(c)
         /\ \A n \in DOMAIN spans : CallC(c)[n] = spans[n]
         /\ \A n \in DOMAIN CallC(c) : n \in DOMAIN spans \/ (CallC(c)[n].name = "ClientCallC" /\ ~CallC(c)[n].open)
<1>1. spans \in Seq(SpanType) /\ get[c] \in GetRecord
  BY DEF TracedInv, TracedType
<1>2. CASE Traces(c)
  <2>1. PICK s : s = [name |-> "ClientCallC", parent |-> get[c].span, open |-> FALSE]
    OBVIOUS
  <2>2. s \in SpanType /\ s.name = "ClientCallC" /\ ~s.open
    BY <2>1, <1>1 DEF SpanType, GetRecord
  <2>3. CallC(c) = Append(spans, s)
    BY <1>2, <2>1 DEF CallC
  <2> QED BY <2>2, <2>3, <1>1
<1>3. CASE ~Traces(c)
  BY <1>1, <1>3 DEF CallC
<1> QED BY <1>2, <1>3

LEMMA SendQueryTraced ==
  ASSUME TracedInv, NEW c \in Clients, SendQuery(c)
  PROVE  TracedInv'
<1>1. get[c].pc = "calling" /\ spans' = CallC(c) /\ UNCHANGED <<conf, serving>>
  BY DEF SendQuery
<1>2. spans \in Seq(SpanType) /\ get \in [Clients -> GetRecord] /\ rpc \in [Clients -> RpcType] /\ get[c] \in GetRecord
  BY DEF TracedInv, TracedType
<1>3. /\ Later /\ \A n \in DOMAIN spans : spans'[n] = spans[n]
      /\ \A n \in DOMAIN spans' : n \in DOMAIN spans \/ (spans'[n].name = "ClientCallC" /\ ~spans'[n].open)
  BY <1>1, CallCLater DEF Later
<1>4. PICK g : g = [get[c] EXCEPT !.pc = "waiting"]
  OBVIOUS
<1>5. g \in GetRecord /\ g.pc = "waiting" /\ g.span = get[c].span
  BY <1>2, <1>4 DEF GetRecord
<1>6. /\ get' \in [Clients -> GetRecord] /\ get'[c] = g /\ \A d \in Clients : d # c => get'[d] = get[d]
  <2>1. get' = [get EXCEPT ![c] = g]
    BY <1>4 DEF SendQuery
  <2> QED BY <2>1, <1>2, <1>5
<1>7. PICK w, r : w = QueryOf(c) /\ r = [at |-> "sent", gone |-> FALSE, context |-> get[c].span, span |-> NoSpan, wire |-> w]
  OBVIOUS
<1>8. r \in RpcType /\ r.at = "sent" /\ r.context = get[c].span /\ r.span = NoSpan /\ r.wire = QueryOf(c)
  BY <1>2, <1>7 DEF RpcType, GetRecord, NoSpan
<1>9. /\ rpc' \in [Clients -> RpcType] /\ rpc'[c] = r /\ \A d \in Clients : d # c => rpc'[d] = rpc[d]
  <2>1. rpc' = [rpc EXCEPT ![c] = r]
    BY <1>7 DEF SendQuery
  <2> QED BY <2>1, <1>2, <1>8
<1>10. TracedType'
  BY <1>1, <1>3, <1>6, <1>9 DEF TracedInv, TracedType, Later
<1>11. ConfStays
  BY <1>1 DEF ConfStays
<1>12. CallOK(c) /\ rpc[c].span = NoSpan
  BY <1>1 DEF TracedInv, CallOK, RpcOK
<1>13. ClientSpanOK(c)'
  BY <1>1, <1>3, <1>5, <1>6, <1>12 DEF CallOK, ClientSpanOK, Traces, Later
<1>14. RpcOK(c)'
  BY <1>5, <1>6, <1>8, <1>9 DEF RpcOK, InServer
<1>15. ASSUME NEW d \in Clients
       PROVE  CallOK(d)'
  <2>1. CASE d = c
    BY <2>1, <1>13, <1>14 DEF CallOK
  <2>2. CASE d # c
    BY <2>2, <1>3, <1>6, <1>9, <1>11, CallStays DEF TracedInv
  <2> QED BY <2>1, <2>2
<1>16. \A d \in Clients : rpc'[d].span = rpc[d].span /\ get'[d].span = get[d].span
  BY <1>5, <1>6, <1>8, <1>9, <1>12
<1>17. ASSUME NEW n \in DOMAIN spans'
       PROVE  SpanOK(n)'
  <2>1. CASE n \in DOMAIN spans
    BY <2>1, <1>2, <1>3, <1>16, SpanStays DEF TracedInv, NoSpan
  <2>2. CASE n \notin DOMAIN spans
    BY <2>2, <1>3 DEF SpanOK
  <2> QED BY <2>1, <2>2
<1>18. OneOwner'
  BY <1>16 DEF TracedInv, OneOwner
<1> QED BY <1>10, <1>15, <1>17, <1>18 DEF TracedInv
\* How a Get ends: the spans before its own is finished, its pc and its result.
EndsAs(c, s, to, x) ==
  /\ s \in {spans, CallC(c)} /\ spans' = FinishedSpan(s, get[c].span)
  /\ to \in {"failed", "answered"} /\ (to = "answered" => rpc[c].at = "answered" /\ x = ResultOf(rpc[c].wire))
  /\ (to = "failed" => x = get[c].result)
  /\ get' = [get EXCEPT ![c] = [get[c] EXCEPT !.pc = to, !.result = x]]

LEMMA EndGetTraced ==
  ASSUME TracedInv, NEW c \in Clients, EndGet(c)
  PROVE  TracedInv'
<1>1. get[c].pc = "waiting" /\ UNCHANGED <<conf, rpc, serving>> /\ (rpc[c].gone \/ rpc[c].at = "answered")
  BY DEF EndGet
<1>2. spans \in Seq(SpanType) /\ get \in [Clients -> GetRecord] /\ get[c] \in GetRecord
  BY DEF TracedInv, TracedType
<1>3. PICK s, to, x : EndsAs(c, s, to, x)
  <2>1. CASE rpc[c].gone
    <3>1. spans' = FinishedSpan(spans, get[c].span) /\ get' = [get EXCEPT ![c].pc = "failed"]
      BY <2>1 DEF EndGet
    <3>2. PICK x : x = get[c].result
      OBVIOUS
    <3>3. [get[c] EXCEPT !.pc = "failed", !.result = x] = [get[c] EXCEPT !.pc = "failed"]
      BY <1>2, <3>2 DEF GetRecord
    <3>4. EndsAs(c, spans, "failed", x)
      BY <3>1, <3>2, <3>3 DEF EndsAs
    <3> QED BY <3>4
  <2>2. CASE ~rpc[c].gone
    <3>1. PICK x : x = ResultOf(rpc[c].wire)
      OBVIOUS
    <3>2. spans' = FinishedSpan(CallC(c), get[c].span) /\ get' = [get EXCEPT ![c].pc = "answered", ![c].result = x]
      BY <2>2, <3>1 DEF EndGet
    <3>3. get' = [get EXCEPT ![c] = [get[c] EXCEPT !.pc = "answered", !.result = x]]
      BY <3>2, <1>2
    <3>4. EndsAs(c, CallC(c), "answered", x)
      BY <2>2, <3>1, <3>2, <3>3, <1>1 DEF EndsAs
    <3> QED BY <3>4
  <2> QED BY <2>1, <2>2
<1>4. CallOK(c)
  BY DEF TracedInv
<1>5. to = "answered" => x = Given(c)
  BY <1>3, <1>4 DEF CallOK, RpcOK, Given, EndsAs
<1>6. PICK g : g = [get[c] EXCEPT !.pc = to, !.result = x]
  OBVIOUS
<1>7. g \in GetRecord /\ g.pc = to /\ g.span = get[c].span /\ g.result = x
  <2>1. PICK R : R = {IndexClear} \cup {Given(d) : d \in Clients}
    OBVIOUS
  <2>2. get[c] \in [pc : {"start", "calling", "waiting", "answered", "failed"}, span : Nat, result : R]
    BY <2>1, <1>2 DEF GetRecord
  <2>3. x \in R
    BY <2>1, <2>2, <1>3, <1>5 DEF EndsAs
  <2>4. /\ g \in [pc : {"start", "calling", "waiting", "answered", "failed"}, span : Nat, result : R]
        /\ g.pc = to /\ g.span = get[c].span /\ g.result = x
    BY <2>2, <2>3, <1>3, <1>6 DEF EndsAs
  <2> QED BY <2>1, <2>4 DEF GetRecord
<1>8. /\ get' \in [Clients -> GetRecord] /\ get'[c] = g /\ \A d \in Clients : d # c => get'[d] = get[d]
  BY <1>2, <1>3, <1>6, <1>7 DEF EndsAs
<1>9. /\ s \in Seq(SpanType) /\ DOMAIN spans \subseteq DOMAIN s /\ \A n \in DOMAIN spans : s[n] = spans[n]
      /\ \A n \in DOMAIN s : n \in DOMAIN spans \/ (s[n].name = "ClientCallC" /\ ~s[n].open)
  BY <1>2, <1>3, CallCLater DEF EndsAs
<1>10. get[c].span \in DOMAIN spans \cup {NoSpan}
  BY <1>4 DEF CallOK, ClientSpanOK
<1>11. /\ spans' \in Seq(SpanType) /\ DOMAIN spans' = DOMAIN s
       /\ \A m \in DOMAIN s : /\ spans'[m].name = s[m].name /\ spans'[m].parent = s[m].parent
                              /\ (m = get[c].span \/ ~s[m].open) => ~spans'[m].open
  <2>1. get[c].span \in DOMAIN s \cup {NoSpan}
    BY <1>9, <1>10
  <2> QED BY <2>1, <1>3, <1>9, LaterFinished DEF EndsAs
<1>12. Later
  BY <1>9, <1>11 DEF Later
<1>13. \A n \in DOMAIN spans' : n \in DOMAIN spans \/ (spans'[n].name = "ClientCallC" /\ ~spans'[n].open)
  BY <1>9, <1>11
<1>14. get[c].span # NoSpan => ~spans'[get[c].span].open
  BY <1>9, <1>10, <1>11
<1>15. TracedType'
  BY <1>1, <1>8, <1>11 DEF TracedInv, TracedType
<1>16. ConfStays
  BY <1>1 DEF ConfStays
<1>17. ClientSpanOK(c)'
  BY <1>1, <1>3, <1>4, <1>5, <1>7, <1>8, <1>12, <1>14 DEF CallOK, ClientSpanOK, Traces, Later, EndsAs
<1>18. RpcOK(c)'
  BY <1>1, <1>3, <1>4, <1>7, <1>8, <1>12 DEF CallOK, RpcOK, InServer, Traces, Later, EndsAs
<1>19. ASSUME NEW d \in Clients
       PROVE  CallOK(d)'
  <2>1. CASE d = c
    BY <2>1, <1>17, <1>18 DEF CallOK
  <2>2. CASE d # c
    BY <2>2, <1>1, <1>8, <1>12, <1>16, CallStays DEF TracedInv
  <2> QED BY <2>1, <2>2
<1>20. \A d \in Clients : rpc'[d].span = rpc[d].span /\ get'[d].span = get[d].span
  BY <1>1, <1>7, <1>8
<1>21. ASSUME NEW n \in DOMAIN spans'
       PROVE  SpanOK(n)'
  <2>1. CASE n \in DOMAIN spans
    BY <2>1, <1>2, <1>12, <1>20, SpanStays DEF TracedInv, NoSpan
  <2>2. CASE n \notin DOMAIN spans
    BY <2>2, <1>13 DEF SpanOK
  <2> QED BY <2>1, <2>2
<1>22. OneOwner'
  BY <1>20 DEF TracedInv, OneOwner
<1> QED BY <1>15, <1>19, <1>21, <1>22 DEF TracedInv

LEMMA FailRpcTraced ==
  ASSUME TracedInv, NEW c \in Clients, FailRpc(c)
  PROVE  TracedInv'
<1>1. get[c].pc = "waiting" /\ UNCHANGED <<conf, spans, get, serving>> /\ rpc' = [rpc EXCEPT ![c].gone = TRUE]
  BY DEF FailRpc
<1>2. spans \in Seq(SpanType) /\ rpc \in [Clients -> RpcType] /\ rpc[c] \in RpcType
  BY DEF TracedInv, TracedType
<1>3. PICK r : r = [rpc[c] EXCEPT !.gone = TRUE]
  OBVIOUS
<1>4. r \in RpcType /\ r.at = rpc[c].at /\ r.context = rpc[c].context /\ r.span = rpc[c].span /\ r.wire = rpc[c].wire
  <2>1. PICK W : W = {<<>>} \cup {QueryOf(d) : d \in Clients} \cup {AnswerTo(QueryOf(d)) : d \in Clients}
    OBVIOUS
  <2> QED BY <2>1, <1>2, <1>3 DEF RpcType
<1>5. /\ rpc' \in [Clients -> RpcType] /\ rpc'[c] = r /\ \A d \in Clients : d # c => rpc'[d] = rpc[d]
  BY <1>1, <1>2, <1>3, <1>4
<1>6. Later /\ ConfStays
  BY <1>1, <1>2 DEF Later, ConfStays
<1>7. TracedType'
  BY <1>1, <1>5 DEF TracedInv, TracedType
<1>8. CallOK(c)
  BY DEF TracedInv
<1>9. ClientSpanOK(c)'
  BY <1>1, <1>4, <1>5, <1>8 DEF CallOK, ClientSpanOK, Traces
<1>10. RpcOK(c)'
  BY <1>1, <1>4, <1>5, <1>8 DEF CallOK, RpcOK, InServer, Traces
<1>11. ASSUME NEW d \in Clients
       PROVE  CallOK(d)'
  <2>1. CASE d = c
    BY <2>1, <1>9, <1>10 DEF CallOK
  <2>2. CASE d # c
    BY <2>2, <1>1, <1>5, <1>6, CallStays DEF TracedInv
  <2> QED BY <2>1, <2>2
<1>12. \A d \in Clients : rpc'[d].span = rpc[d].span
  BY <1>4, <1>5
<1>13. ASSUME NEW n \in DOMAIN spans'
       PROVE  SpanOK(n)'
  BY <1>1, <1>2, <1>6, <1>12, SpanStays DEF TracedInv, NoSpan
<1>14. OneOwner'
  BY <1>1, <1>12 DEF TracedInv, OneOwner
<1> QED BY <1>7, <1>11, <1>13, <1>14 DEF TracedInv
LEMMA InterceptTraced ==
  ASSUME TracedInv, NEW c \in Clients, Intercept(c)
  PROVE  TracedInv'
<1>1. rpc[c].at = "sent" /\ serving /\ UNCHANGED <<conf, get>>
  BY DEF Intercept
<1>2. spans \in Seq(SpanType) /\ rpc \in [Clients -> RpcType] /\ rpc[c] \in RpcType /\ Len(spans) \in Nat
  BY DEF TracedInv, TracedType
<1>3. conf[TheServer].state = "loaded" /\ ConfStays
  BY <1>1 DEF TracedInv, TracedType, ConfStays
<1>4. CallOK(c)
  BY DEF TracedInv
<1>5. /\ rpc[c].span = NoSpan /\ rpc[c].context = get[c].span /\ rpc[c].wire = QueryOf(c)
      /\ get[c].pc \notin {"start", "calling", "answered"}
  BY <1>1, <1>4 DEF CallOK, RpcOK, ClientSpanOK
<1>6. CASE serving' = FALSE /\ UNCHANGED <<spans, rpc>>
  <2>1. Later
    BY <1>2, <1>6 DEF Later
  <2>2. TracedType'
    BY <1>1, <1>6 DEF TracedInv, TracedType
  <2>3. \A d \in Clients : CallOK(d)'
    BY <1>1, <1>3, <1>6, <2>1, CallStays DEF TracedInv
  <2>4. (\A n \in DOMAIN spans : SpanOK(n))'
    BY <1>6 DEF TracedInv, SpanOK
  <2>5. OneOwner'
    BY <1>1, <1>6 DEF TracedInv, OneOwner
  <2> QED BY <2>2, <2>3, <2>4, <2>5 DEF TracedInv
<1>7. CASE /\ spans' = IF Traces(TheServer) THEN Started("Get", rpc[c].context) ELSE spans
           /\ rpc' = [rpc EXCEPT ![c].at = "intercepted", ![c].span = IF Traces(TheServer) THEN Len(spans') ELSE NoSpan]
           /\ UNCHANGED serving
  <2>1. PICK k : k = IF Traces(TheServer) THEN Len(spans') ELSE NoSpan
    OBVIOUS
  <2>2. rpc' = [rpc EXCEPT ![c].at = "intercepted", ![c].span = k]
    BY <1>7, <2>1
  <2>3. /\ k \in Nat /\ (Traces(TheServer) <=> k # NoSpan) /\ Later
        /\ k # NoSpan => k \in DOMAIN spans' /\ k \notin DOMAIN spans /\ spans'[k].name = "Get" /\ spans'[k].parent = get[c].span
        /\ \A n \in DOMAIN spans' : n \in DOMAIN spans \/ n = k
    <3>1. CASE Traces(TheServer)
      <4>1. PICK s : s = [name |-> "Get", parent |-> rpc[c].context, open |-> TRUE]
        OBVIOUS
      <4>2. s \in SpanType /\ s.name = "Get" /\ s.parent = get[c].span
        BY <4>1, <1>2, <1>5 DEF SpanType, RpcType
      <4>3. spans' = Append(spans, s) /\ k = Len(spans')
        BY <1>7, <2>1, <3>1, <4>1 DEF Started
      <4>4. /\ Later /\ k = Len(spans) + 1 /\ DOMAIN spans' = DOMAIN spans \cup {k}
            /\ k \notin DOMAIN spans /\ k # NoSpan /\ spans'[k] = s
        BY <4>2, <4>3, <1>2, LaterAppend
      <4> QED BY <3>1, <4>2, <4>4, <1>2
    <3>2. CASE ~Traces(TheServer)
      <4>1. spans' = spans /\ k = NoSpan
        BY <1>7, <2>1, <3>2
      <4>2. Later
        BY <4>1, <1>2 DEF Later
      <4> QED BY <3>2, <4>1, <4>2 DEF NoSpan
    <3> QED BY <3>1, <3>2
  <2>4. PICK r : r = [rpc[c] EXCEPT !.at = "intercepted", !.span = k]
    OBVIOUS
  <2>5. r \in RpcType /\ r.at = "intercepted" /\ r.context = rpc[c].context /\ r.span = k /\ r.wire = rpc[c].wire
    <3>1. PICK W : W = {<<>>} \cup {QueryOf(d) : d \in Clients} \cup {AnswerTo(QueryOf(d)) : d \in Clients}
      OBVIOUS
    <3> QED BY <3>1, <1>2, <2>3, <2>4 DEF RpcType
  <2>6. /\ rpc' \in [Clients -> RpcType] /\ rpc'[c] = r /\ \A d \in Clients : d # c => rpc'[d] = rpc[d]
    BY <1>2, <2>2, <2>4, <2>5
  <2>7. TracedType'
    BY <1>1, <1>7, <2>3, <2>6 DEF TracedInv, TracedType, Later
  <2>8. ClientSpanOK(c)'
    BY <1>1, <1>4, <1>5, <2>3 DEF CallOK, ClientSpanOK, Traces, Later
  <2>9. RpcOK(c)'
    BY <1>1, <1>3, <1>5, <2>3, <2>5, <2>6 DEF RpcOK, InServer, Traces
  <2>10. ASSUME NEW d \in Clients
         PROVE  CallOK(d)'
    <3>1. CASE d = c
      BY <3>1, <2>8, <2>9 DEF CallOK
    <3>2. CASE d # c
      BY <3>2, <1>1, <1>3, <2>3, <2>6, CallStays DEF TracedInv
    <3> QED BY <3>1, <3>2
  <2>11. ASSUME NEW n \in DOMAIN spans'
         PROVE  SpanOK(n)'
    <3>1. CASE n \in DOMAIN spans
      BY <3>1, <1>2, <1>5, <2>3, <2>6, SpanStays DEF TracedInv, NoSpan
    <3>2. CASE n \notin DOMAIN spans
      <4>1. n = k /\ n # NoSpan
        BY <3>2, <2>3 DEF NoSpan, Later
      <4> QED BY <4>1, <2>3, <2>5, <2>6 DEF SpanOK
    <3> QED BY <3>1, <3>2
  <2>12. OneOwner'
    <3>1. \A d \in Clients : rpc[d].span # NoSpan => rpc[d].span \in DOMAIN spans
      BY DEF TracedInv, CallOK, RpcOK
    <3>2. ASSUME NEW d \in Clients, NEW e \in Clients, d # e, rpc'[d].span # NoSpan
          PROVE  rpc'[d].span # rpc'[e].span
      <4>1. CASE d = c
        BY <4>1, <3>1, <3>2, <2>3, <2>5, <2>6
      <4>2. CASE e = c
        BY <4>2, <3>1, <3>2, <2>3, <2>5, <2>6
      <4>3. CASE d # c /\ e # c
        BY <4>3, <3>2, <2>6 DEF TracedInv, OneOwner
      <4> QED BY <4>1, <4>2, <4>3
    <3> QED BY <3>2, <1>1 DEF TracedInv, OneOwner
  <2> QED BY <2>7, <2>10, <2>11, <2>12 DEF TracedInv
<1> QED BY <1>6, <1>7 DEF Intercept

LEMMA ServeTraced ==
  ASSUME TracedInv, NEW c \in Clients, Serve(c)
  PROVE  TracedInv'
<1>1. /\ rpc[c].at = "intercepted" /\ spans' = FinishedSpan(spans, rpc[c].span) /\ UNCHANGED <<conf, get, serving>>
  BY DEF Serve
<1>2. spans \in Seq(SpanType) /\ rpc \in [Clients -> RpcType] /\ rpc[c] \in RpcType
  BY DEF TracedInv, TracedType
<1>3. CallOK(c)
  BY DEF TracedInv
<1>4. rpc[c].span \in DOMAIN spans \cup {NoSpan} /\ rpc[c].wire = QueryOf(c)
  BY <1>1, <1>3 DEF CallOK, RpcOK
<1>5. /\ spans' \in Seq(SpanType) /\ DOMAIN spans' = DOMAIN spans
      /\ \A m \in DOMAIN spans : /\ spans'[m].name = spans[m].name /\ spans'[m].parent = spans[m].parent
                                 /\ (m = rpc[c].span \/ ~spans[m].open) => ~spans'[m].open
  BY <1>1, <1>2, <1>4, LaterFinished
<1>6. Later /\ ConfStays
  BY <1>1, <1>5 DEF Later, ConfStays
<1>7. PICK w, r : w = AnswerTo(QueryOf(c)) /\ r = [rpc[c] EXCEPT !.at = "answered", !.wire = w]
  OBVIOUS
<1>8. /\ r \in RpcType /\ r.at = "answered" /\ r.gone = rpc[c].gone /\ r.context = rpc[c].context /\ r.span = rpc[c].span
      /\ r.wire = AnswerTo(QueryOf(c))
  <2>1. PICK W : W = {<<>>} \cup {QueryOf(d) : d \in Clients} \cup {AnswerTo(QueryOf(d)) : d \in Clients}
    OBVIOUS
  <2>2. w \in W
    BY <2>1, <1>7
  <2>3. rpc[c] \in [at : {"none", "sent", "intercepted", "answered"}, gone : BOOLEAN, context : Nat, span : Nat, wire : W]
    BY <2>1, <1>2 DEF RpcType
  <2>4. /\ r \in [at : {"none", "sent", "intercepted", "answered"}, gone : BOOLEAN, context : Nat, span : Nat, wire : W]
        /\ r.at = "answered" /\ r.gone = rpc[c].gone /\ r.context = rpc[c].context /\ r.span = rpc[c].span /\ r.wire = w
    BY <2>2, <2>3, <1>7
  <2> QED BY <2>1, <2>4, <1>7 DEF RpcType
<1>9. /\ rpc' \in [Clients -> RpcType] /\ rpc'[c] = r /\ \A d \in Clients : d # c => rpc'[d] = rpc[d]
  <2>1. w = AnswerTo(rpc[c].wire)
    BY <1>4, <1>7
  <2>2. rpc' = [rpc EXCEPT ![c].at = "answered", ![c].wire = w]
    BY <2>1 DEF Serve
  <2> QED BY <2>2, <1>2, <1>7, <1>8
<1>10. TracedType'
  BY <1>1, <1>5, <1>9 DEF TracedInv, TracedType
<1>11. ClientSpanOK(c)'
  BY <1>1, <1>3, <1>5, <1>8, <1>9 DEF CallOK, ClientSpanOK, Traces
<1>12. RpcOK(c)'
  BY <1>1, <1>3, <1>5, <1>8, <1>9 DEF CallOK, RpcOK, InServer, Traces
<1>13. ASSUME NEW d \in Clients
       PROVE  CallOK(d)'
  <2>1. CASE d = c
    BY <2>1, <1>11, <1>12 DEF CallOK
  <2>2. CASE d # c
    BY <2>2, <1>1, <1>6, <1>9, CallStays DEF TracedInv
  <2> QED BY <2>1, <2>2
<1>14. \A d \in Clients : rpc'[d].span = rpc[d].span
  BY <1>8, <1>9
<1>15. ASSUME NEW n \in DOMAIN spans'
       PROVE  SpanOK(n)'
  BY <1>2, <1>5, <1>6, <1>14, SpanStays DEF TracedInv, NoSpan
<1>16. OneOwner'
  BY <1>1, <1>14 DEF TracedInv, OneOwner
<1> QED BY <1>10, <1>13, <1>15, <1>16 DEF TracedInv

LEMMA TracedInvInit == TracedInit => TracedInv
<1> SUFFICES ASSUME TracedInit
             PROVE  TracedInv
  OBVIOUS
<1>1. spans = <<>> /\ serving = FALSE /\ DOMAIN conf = Processes /\ spans \in Seq(SpanType) /\ DOMAIN spans = {}
  BY DEF TracedInit
<1>2. get \in [Clients -> GetRecord] /\ \A c \in Clients : get[c].pc = "start" /\ get[c].span = NoSpan
  BY DEF TracedInit, GetRecord, NoSpan
<1>3. rpc \in [Clients -> RpcType] /\ \A c \in Clients : rpc[c].at = "none" /\ rpc[c].span = NoSpan /\ ~rpc[c].gone
  BY DEF TracedInit, RpcType, NoSpan
<1>4. \A c \in Clients : CallOK(c)
  BY <1>2, <1>3 DEF CallOK, ClientSpanOK, RpcOK, InServer
<1> QED BY <1>1, <1>2, <1>3, <1>4 DEF TracedInv, TracedType, OneOwner

LEMMA TracedInvStep ==
  ASSUME TracedInv, [TracedNext]_tracedVars
  PROVE  TracedInv'
<1>1. ASSUME NEW p \in Processes, NEW file \in ConfigFiles, LoadConfig(p, file) PROVE TracedInv'
  BY <1>1, LoadConfigTraced
<1>2. ASSUME NEW c \in Clients, StartGet(c) PROVE TracedInv'
  BY <1>2, StartGetTraced
<1>3. ASSUME NEW c \in Clients, SendQuery(c) PROVE TracedInv'
  BY <1>3, SendQueryTraced
<1>4. ASSUME NEW c \in Clients, EndGet(c) PROVE TracedInv'
  BY <1>4, EndGetTraced
<1>5. ASSUME NEW c \in Clients, FailRpc(c) PROVE TracedInv'
  BY <1>5, FailRpcTraced
<1>6. ASSUME NEW c \in Clients, Intercept(c) PROVE TracedInv'
  BY <1>6, InterceptTraced
<1>7. ASSUME NEW c \in Clients, Serve(c) PROVE TracedInv'
  BY <1>7, ServeTraced
<1>8. CASE UNCHANGED tracedVars
  <2>1. conf' = conf /\ spans' = spans /\ get' = get /\ rpc' = rpc /\ serving' = serving
    BY <1>8 DEF tracedVars
  <2>2. \A c \in Clients : CallOK(c)'
    BY <2>1 DEF TracedInv, CallOK, ClientSpanOK, RpcOK, InServer, Traces
  <2>3. \A n \in DOMAIN spans' : SpanOK(n)'
    BY <2>1 DEF TracedInv, SpanOK
  <2> QED BY <2>1, <2>2, <2>3 DEF TracedInv, TracedType, OneOwner
<1> QED BY <1>1, <1>2, <1>3, <1>4, <1>5, <1>6, <1>7, <1>8 DEF TracedNext

LEMMA TracedInvNested == TracedInv => TraceNested
<1> SUFFICES ASSUME TracedInv
             PROVE  TraceNested
  OBVIOUS
<1>1. \A c \in Clients : CallOK(c)
  BY DEF TracedInv
<1>2. \A c \in Clients : rpc[c].span # NoSpan => spans[rpc[c].span].parent = get[c].span
  BY <1>1 DEF CallOK, RpcOK
<1>3. ASSUME NEW c \in Clients, get[c].pc = "answered"
      PROVE  get[c].result.index_type = GetType[c] /\ get[c].result.index_name = IndexNameOf
  BY <1>1, <1>3, GetTypeAssumption DEF CallOK, ClientSpanOK, Given
<1>4. ASSUME NEW c \in Clients, get[c].pc = "answered", Traces(c), NEW below,
             below = {n \in DOMAIN spans : spans[n].parent = get[c].span}
      PROVE  /\ \A n \in below \cup {get[c].span} : ~spans[n].open
             /\ Cardinality({n \in below : spans[n].name = "Get"}) = IF Traces(TheServer) THEN 1 ELSE 0
  <2>1. get[c].span # NoSpan /\ ~spans[get[c].span].open /\ rpc[c].at = "answered"
    BY <1>1, <1>4 DEF CallOK, ClientSpanOK
  <2>2. ASSUME NEW n \in below, spans[n].name = "Get"
        PROVE  n = rpc[c].span /\ n # NoSpan
    <3>1. PICK d \in Clients : rpc[d].span = n
      BY <1>4, <2>2 DEF TracedInv, SpanOK
    <3>2. n \in DOMAIN spans /\ spans[n].parent = get[c].span /\ n # NoSpan
      BY <1>4, <2>2 DEF TracedInv, TracedType, NoSpan
    <3>3. get[d].span = get[c].span
      BY <3>1, <3>2, <1>2
    <3>4. d = c
      BY <3>3, <2>1 DEF TracedInv, OneOwner
    <3> QED BY <3>1, <3>2, <3>4
  <2>3. ASSUME NEW n \in below
        PROVE  ~spans[n].open
    <3>1. SpanOK(n) /\ spans[n].parent = get[c].span /\ spans[n] \in SpanType
      BY <1>4 DEF TracedInv, TracedType
    <3>2. CASE spans[n].name = "Get"
      BY <3>2, <2>1, <2>2, <1>1 DEF CallOK, RpcOK
    <3>3. CASE spans[n].name # "Get"
      BY <3>1, <3>3, <2>1 DEF SpanOK, SpanType
    <3> QED BY <3>2, <3>3
  <2>4. CASE Traces(TheServer)
    <3>1. /\ rpc[c].span # NoSpan /\ rpc[c].span \in DOMAIN spans /\ spans[rpc[c].span].name = "Get"
          /\ spans[rpc[c].span].parent = get[c].span
      BY <1>1, <2>1, <2>4 DEF CallOK, RpcOK, InServer
    <3>2. {n \in below : spans[n].name = "Get"} = {rpc[c].span}
      BY <1>4, <2>2, <3>1
    <3> QED BY <2>1, <2>3, <2>4, <3>2, FS_Singleton
  <2>5. CASE ~Traces(TheServer)
    <3>1. rpc[c].span = NoSpan
      BY <1>1, <2>1, <2>5 DEF CallOK, RpcOK, InServer
    <3>2. {n \in below : spans[n].name = "Get"} = {}
      BY <2>2, <3>1
    <3> QED BY <2>1, <2>3, <2>5, <3>2, FS_EmptySet
  <2> QED BY <2>4, <2>5
<1> QED BY <1>2, <1>3, <1>4 DEF TraceNested

\* With any number of clients, some of which give up, every answered and traced call has one server span,
\* a child of its own, and everything below its span has ended.
THEOREM TraceSafe == TracedSpec => []TraceNested
<1>1. TracedInit => TracedInv
  BY TracedInvInit
<1>2. TracedInv /\ [TracedNext]_tracedVars => TracedInv'
  BY TracedInvStep
<1>3. TracedInv => TraceNested
  BY TracedInvNested
<1> QED BY <1>1, <1>2, <1>3, PTL DEF TracedSpec
=============================================================================
