---------------------------- MODULE SmsReceiverProofs ----------------------------
(***************************************************************************)
(* Theorems about SmsReceiver: what is compiled from the parts of a        *)
(* message, and what the map of unfinished messages loses, whatever the    *)
(* network does and whatever totals, indices and references headers give.  *)
(***************************************************************************)
EXTENDS SmsReceiver, FiniteSetTheorems, SequenceTheorems, TLAPS

-----------------------------------------------------------------------------
(***************************************************************************)
(* add_message and compile.                                                *)
(***************************************************************************)
\* A group of a key: its count is right, each slot has a text of the key that
\* belongs there, and one of the key's messages has given it its size.
GoodGroup(k, group) ==
    /\ group \in Groups
    /\ group.received_count = Cardinality(Filled(group))
    /\ \A p \in Filled(group) :
         LET text == group.parts[p]
         IN  KeyOf[text.msg] = k /\ TotalOf[text.msg] # Single /\ Slot(text.index) = p
    /\ \E m \in Messages :
         KeyOf[m] = k /\ TotalOf[m] # Single /\ TotalSize(group) = TotalOf[m]

LEMMA FilledSlots ==
    ASSUME NEW group \in Groups
    PROVE  /\ TotalSize(group) \in Nat
           /\ Filled(group) \subseteq 1..TotalSize(group)
           /\ IsFiniteSet(Filled(group))
           /\ Cardinality(Filled(group)) \in Nat
           /\ \A p \in Filled(group) : group.parts[p] \in Texts
  <1>1. group.parts \in Seq(Texts \cup {NoPart})
    BY DEF Groups
  <1>2. TotalSize(group) \in Nat
    BY <1>1 DEF TotalSize
  <1>3. Filled(group) \subseteq 1..TotalSize(group)
    BY DEF Filled
  <1>4. IsFiniteSet(Filled(group)) /\ Cardinality(Filled(group)) \in Nat
    <2>1. IsFiniteSet(1..TotalSize(group))
      BY <1>2, FS_Interval
    <2>2. QED
      BY <1>3, <2>1, FS_Subset, FS_CardinalityType
  <1>5. \A p \in Filled(group) : group.parts[p] \in Texts
    BY <1>1, ElementOfSeq DEF Filled, TotalSize
  <1>6. QED
    BY <1>2, <1>3, <1>4, <1>5

LEMMA WithCapacityIsEmpty ==
    ASSUME NEW total \in Nat
    PROVE  /\ WithCapacity(total) \in Groups
           /\ TotalSize(WithCapacity(total)) = total
           /\ Filled(WithCapacity(total)) = {}
           /\ WithCapacity(total).received_count = Cardinality(Filled(WithCapacity(total)))
  <1> DEFINE parts == [i \in 1..total |-> NoPart]
  <1>1. parts \in Seq(Texts \cup {NoPart}) /\ Len(parts) = total
    OBVIOUS
  <1>2. \A i \in 1..total : parts[i] = NoPart
    OBVIOUS
  <1>3. WithCapacity(total) = [parts |-> parts, received_count |-> 0, stalled |-> FALSE]
    BY DEF WithCapacity
  <1> HIDE DEF parts
  <1>4. WithCapacity(total) \in Groups /\ TotalSize(WithCapacity(total)) = total
    BY <1>1, <1>3 DEF Groups, TotalSize
  <1>5. Filled(WithCapacity(total)) = {}
    BY <1>1, <1>2, <1>3 DEF Filled, TotalSize
  <1>6. WithCapacity(total).received_count = 0
    BY <1>3
  <1>7. QED
    BY <1>4, <1>5, <1>6, FS_EmptySet

\* What a part changes of a group: nothing but its own slot, if that is empty.
LEMMA PartAdded ==
    ASSUME NEW group \in Groups, NEW text \in Texts
    PROVE  LET added == AddMessage(group, text)
               slot  == Slot(text.index)
           IN  /\ added \in Groups
               /\ TotalSize(added) = TotalSize(group)
               /\ ~added.stalled
               /\ slot \in 1..TotalSize(group) => slot \in Filled(added)
               /\ \A p \in Filled(group) : p \in Filled(added) /\ added.parts[p] = group.parts[p]
               /\ \A p \in Filled(added) \ Filled(group) : p = slot /\ added.parts[p] = text
               /\ group.received_count = Cardinality(Filled(group)) =>
                    added.received_count = Cardinality(Filled(added))
  <1> DEFINE added == AddMessage(group, text)
             slot  == Slot(text.index)
  <1>1. /\ group.parts \in Seq(Texts \cup {NoPart}) /\ group.received_count \in Nat
        /\ TotalSize(group) \in Nat /\ slot \in Nat /\ text # NoPart
    BY FilledSlots, NoPartAssumption DEF Groups, Texts, Slot
  <1>2. CASE slot \in 1..TotalSize(group) /\ group.parts[slot] = NoPart
    <2> DEFINE parts == [group.parts EXCEPT ![slot] = text]
    <2>1. added = [parts |-> parts, received_count |-> group.received_count + 1, stalled |-> FALSE]
      BY <1>2 DEF AddMessage, Groups
    <2>2. /\ parts \in Seq(Texts \cup {NoPart}) /\ Len(parts) = Len(group.parts)
          /\ \A p \in 1..Len(group.parts) : parts[p] = IF p = slot THEN text ELSE group.parts[p]
      BY <1>1, <1>2, ExceptSeq DEF TotalSize
    <2> HIDE DEF parts
    <2>3. added \in Groups /\ TotalSize(added) = TotalSize(group) /\ added.parts = parts
          /\ added.received_count = group.received_count + 1 /\ ~added.stalled
      BY <1>1, <2>1, <2>2 DEF Groups, TotalSize
    <2>4. Filled(added) = Filled(group) \cup {slot} /\ slot \notin Filled(group)
      BY <1>1, <1>2, <2>2, <2>3 DEF Filled, TotalSize
    <2>5. Cardinality(Filled(added)) = Cardinality(Filled(group)) + 1
      BY <2>4, FilledSlots, FS_AddElement
    <2>6. \A p \in Filled(group) : added.parts[p] = group.parts[p]
      BY <2>2, <2>3, <2>4 DEF Filled, TotalSize
    <2>7. added.parts[slot] = text
      BY <1>2, <2>2, <2>3 DEF TotalSize
    <2> HIDE DEF added, slot
    <2>8. QED
      BY <2>3, <2>4, <2>5, <2>6, <2>7 DEF added, slot
  <1>3. CASE ~(slot \in 1..TotalSize(group) /\ group.parts[slot] = NoPart)
    <2>1. added = [parts |-> group.parts, received_count |-> group.received_count,
                   stalled |-> FALSE]
      BY <1>3 DEF AddMessage, Groups
    <2>2. /\ added \in Groups /\ TotalSize(added) = TotalSize(group)
          /\ added.parts = group.parts /\ Filled(added) = Filled(group) /\ ~added.stalled
          /\ added.received_count = group.received_count
      BY <1>1, <2>1 DEF Groups, TotalSize, Filled
    <2>3. slot \in 1..TotalSize(group) => slot \in Filled(group)
      BY <1>3 DEF Filled
    <2> HIDE DEF added, slot
    <2>4. QED
      BY <2>2, <2>3 DEF added, slot
  <1>4. QED
    BY <1>2, <1>3

\* compile() flattens the slots: none of a complete group is empty.
LEMMA CompleteIsFull ==
    ASSUME NEW group \in Groups, group.received_count = Cardinality(Filled(group)),
           Complete(group)
    PROVE  Filled(group) = 1..TotalSize(group)
  <1>1. /\ IsFiniteSet(1..TotalSize(group))
        /\ Cardinality(1..TotalSize(group)) = TotalSize(group)
    BY FilledSlots, FS_Interval
  <1>2. Cardinality(Filled(group)) <= TotalSize(group)
    BY <1>1, FilledSlots, FS_Subset
  <1>3. Cardinality(Filled(group)) = TotalSize(group)
    BY <1>2, FilledSlots DEF Complete
  <1>4. QED
    BY <1>1, <1>3, FilledSlots, FS_Subset

-----------------------------------------------------------------------------
(***************************************************************************)
(* The inductive invariant.                                                *)
(***************************************************************************)
GroupsInv ==
    /\ DOMAIN groups \subseteq Keys
    /\ \A k \in DOMAIN groups : GoodGroup(k, groups[k]) /\ ~Complete(groups[k])

\* A part that waits in the map.
In(m, i) == KeyOf[m] \in DOMAIN groups /\ Slot(i) \in Filled(groups[KeyOf[m]])

\* What has come of a message is in the map or in a compiled text, and what is in
\* the map is in addition to what was compiled.
PartsKept(m) ==
    \A i \in PartsOf[m] :
        /\ compiled[m] + (IF In(m, i) THEN 1 ELSE 0) <= delivered[m][i]
        /\ KeyOf[m] \notin abandoned /\ delivered[m][i] > 0 => compiled[m] > 0 \/ In(m, i)

ReceiverInv ==
    /\ TypeOK
    /\ GroupsInv
    /\ EachPartInItsPlace
    /\ \A m \in Messages : Regular(m) => PartsKept(m)

-----------------------------------------------------------------------------
(***************************************************************************)
(* A part that is taken from the modem.                                    *)
(***************************************************************************)
\* The group get_incoming_sms_message adds a part to, and what becomes of it.
Base(m) == IF KeyOf[m] \in DOMAIN groups THEN groups[KeyOf[m]] ELSE WithCapacity(TotalOf[m])
Added(m, i) == AddMessage(Base(m), Text(m, i))

LEMMA KeyOfMessage ==
    ASSUME NEW m \in Messages
    PROVE  KeyOf[m] \in Keys
  BY DEF Keys

LEMMA TextOfPart ==
    ASSUME NEW m \in Messages, NEW i \in PartsOf[m]
    PROVE  Text(m, i) \in Texts /\ Text(m, i).msg = m /\ Text(m, i).index = i /\ i \in Nat
  BY PartsAssumption DEF Text, Texts

LEMMA BaseIsGood ==
    ASSUME GroupsInv, NEW m \in Messages, TotalOf[m] # Single
    PROVE  GoodGroup(KeyOf[m], Base(m))
  <1>1. CASE KeyOf[m] \in DOMAIN groups
    BY <1>1 DEF GroupsInv, Base
  <1>2. CASE KeyOf[m] \notin DOMAIN groups
    <2>1. TotalOf[m] \in Nat
      BY TotalAssumption
    <2>2. Base(m) = WithCapacity(TotalOf[m])
      BY <1>2 DEF Base
    <2>3. QED
      BY <2>1, <2>2, WithCapacityIsEmpty DEF GoodGroup
  <1>3. QED
    BY <1>1, <1>2

LEMMA AddedIsGood ==
    ASSUME GroupsInv, NEW m \in Messages, NEW i \in PartsOf[m], TotalOf[m] # Single
    PROVE  /\ GoodGroup(KeyOf[m], Added(m, i))
           /\ Slot(i) \in 1..TotalSize(Added(m, i)) => Slot(i) \in Filled(Added(m, i))
           /\ \A p \in Filled(Base(m)) : /\ p \in Filled(Added(m, i))
                                         /\ Added(m, i).parts[p] = Base(m).parts[p]
           /\ \A p \in Filled(Added(m, i)) \ Filled(Base(m)) : p = Slot(i)
           /\ KeyOf[m] \notin DOMAIN groups => Filled(Base(m)) = {}
  <1> DEFINE text  == Text(m, i)
             added == Added(m, i)
  <1>1. GoodGroup(KeyOf[m], Base(m)) /\ Base(m) \in Groups
    BY BaseIsGood DEF GoodGroup
  <1>2. text \in Texts /\ text.msg = m /\ text.index = i
    BY TextOfPart
  <1>3. /\ added \in Groups
        /\ TotalSize(added) = TotalSize(Base(m))
        /\ Slot(i) \in 1..TotalSize(Base(m)) => Slot(i) \in Filled(added)
        /\ \A p \in Filled(Base(m)) : p \in Filled(added) /\ added.parts[p] = Base(m).parts[p]
        /\ \A p \in Filled(added) \ Filled(Base(m)) : p = Slot(i) /\ added.parts[p] = text
        /\ added.received_count = Cardinality(Filled(added))
    BY <1>1, <1>2, PartAdded DEF GoodGroup, Added
  <1> HIDE DEF text, added
  <1>4. \A p \in Filled(added) :
           LET t == added.parts[p]
           IN  KeyOf[t.msg] = KeyOf[m] /\ TotalOf[t.msg] # Single /\ Slot(t.index) = p
    BY <1>1, <1>2, <1>3 DEF GoodGroup
  <1>5. GoodGroup(KeyOf[m], added)
    BY <1>1, <1>3, <1>4 DEF GoodGroup
  <1>6. KeyOf[m] \notin DOMAIN groups => Filled(Base(m)) = {}
    BY TotalAssumption, WithCapacityIsEmpty DEF Base
  <1>7. QED
    BY <1>3, <1>5, <1>6 DEF added

LEMMA CompileIsWhole ==
    ASSUME NEW k \in Keys, NEW group, GoodGroup(k, group), Complete(group)
    PROVE  LET message == Compile(k, group)
           IN  /\ IsCompiled(message) /\ message # NoMessage
               /\ message.key = k
               /\ DOMAIN message.content = 1..TotalSize(group)
               /\ \A p \in DOMAIN message.content : message.content[p] = group.parts[p]
  <1> DEFINE content == [i \in Filled(group) |-> group.parts[i]]
             n       == TotalSize(group)
  <1>1. Filled(group) = 1..n /\ n \in Nat /\ \A p \in 1..n : group.parts[p] \in Texts
    BY CompleteIsFull, FilledSlots DEF GoodGroup
  <1>2. content \in [1..n -> Texts] /\ DOMAIN content = 1..n
    BY <1>1
  <1>3. Cardinality(DOMAIN content) = n
    BY <1>1, <1>2, FS_Interval
  <1>4. \A p \in 1..n : content[p] = group.parts[p]
    BY <1>1
  <1>5. Compile(k, group) = [key |-> k, content |-> content]
    BY DEF Compile, Message
  <1> HIDE DEF content, n
  <1>6. content \in Seq(Texts)
    BY <1>1, <1>2
  <1>7. Compile(k, group) # NoMessage
    BY <1>5, <1>6, NoMessageAssumption
  <1>8. IsCompiled(Compile(k, group))
    BY <1>2, <1>3, <1>5 DEF IsCompiled
  <1>9. QED
    BY <1>2, <1>4, <1>5, <1>7, <1>8 DEF n

LEMMA SingleIsWhole ==
    ASSUME NEW m \in Messages, NEW i \in PartsOf[m]
    PROVE  LET message == Message(KeyOf[m], <<Text(m, i)>>)
           IN  /\ IsCompiled(message) /\ message # NoMessage
               /\ message.key = KeyOf[m]
               /\ DOMAIN message.content = {1} /\ message.content[1].msg = m
  <1> DEFINE content == <<Text(m, i)>>
  <1>1. /\ content \in Seq(Texts) /\ Len(content) = 1
        /\ DOMAIN content = 1..1 /\ content[1].msg = m
    <2>1. Text(m, i) \in Texts /\ Text(m, i).msg = m
      BY TextOfPart
    <2>2. QED
      BY <2>1
  <1> HIDE DEF content
  <1>2. Cardinality(1..1) = 1
    <2>1. 1..1 = {1}
      OBVIOUS
    <2>2. QED
      BY <2>1, FS_Singleton
  <1>3. content \in [1..Cardinality(DOMAIN content) -> Texts]
    <2>1. Cardinality(DOMAIN content) = 1
      BY <1>1, <1>2
    <2>2. content \in [1..Len(content) -> Texts]
      BY <1>1
    <2>3. QED
      BY <1>1, <2>1, <2>2
  <1>4. KeyOf[m] \in Keys
    BY KeyOfMessage
  <1>5. Message(KeyOf[m], content) # NoMessage
    BY <1>1, <1>4, NoMessageAssumption DEF Message
  <1>6. IsCompiled(Message(KeyOf[m], content))
    BY <1>3, <1>4 DEF Message, IsCompiled
  <1>7. DOMAIN content = {1}
    BY <1>1
  <1>8. QED
    BY <1>1, <1>5, <1>6, <1>7 DEF Message, content

\* What taking a part does: it is stored at once, or with the last part of its
\* message, or it waits with the others.
LEMMA PartTaken ==
    ASSUME ReceiverInv, NEW m \in Messages, NEW i \in PartsOf[m], HandleIncomingSms(m, i)
    PROVE  \/ /\ TotalOf[m] = Single
              /\ groups' = groups /\ storing' = Message(KeyOf[m], <<Text(m, i)>>)
           \/ /\ TotalOf[m] # Single /\ Complete(Added(m, i))
              /\ groups' = Without(KeyOf[m]) /\ storing' = Compile(KeyOf[m], Added(m, i))
           \/ /\ TotalOf[m] # Single /\ ~Complete(Added(m, i))
              /\ groups' = With(KeyOf[m], Added(m, i)) /\ storing' = NoMessage
  <1>1. CASE TotalOf[m] = Single
    BY <1>1 DEF HandleIncomingSms
  <1>2. CASE TotalOf[m] # Single
    <2>1. GetMultipart(m, i)
      BY <1>2 DEF HandleIncomingSms
    <2>2. QED
      BY <1>2, <2>1 DEF GetMultipart, Added, Base
  <1>3. QED
    BY <1>1, <1>2

LEMMA GroupsInvTaken ==
    ASSUME ReceiverInv, NEW m \in Messages, NEW i \in PartsOf[m], HandleIncomingSms(m, i)
    PROVE  GroupsInv'
  <1>1. GroupsInv /\ KeyOf[m] \in Keys
    BY KeyOfMessage DEF ReceiverInv
  <1>2. CASE groups' = groups
    BY <1>1, <1>2 DEF GroupsInv
  <1>3. CASE groups' = Without(KeyOf[m])
    BY <1>1, <1>3 DEF GroupsInv, Without
  <1>4. CASE /\ TotalOf[m] # Single /\ ~Complete(Added(m, i))
             /\ groups' = With(KeyOf[m], Added(m, i))
    <2>1. GoodGroup(KeyOf[m], Added(m, i))
      BY <1>1, <1>4, AddedIsGood
    <2>2. PICK added : added = Added(m, i)
      OBVIOUS
    <2>3. QED
      BY <1>1, <1>4, <2>1, <2>2 DEF GroupsInv, With
  <1>5. QED
    BY <1>2, <1>3, <1>4, PartTaken

LEMMA StoringTaken ==
    ASSUME ReceiverInv, NEW m \in Messages, NEW i \in PartsOf[m], HandleIncomingSms(m, i)
    PROVE  /\ storing' # NoMessage => IsCompiled(storing') /\ storing'.key = KeyOf[m]
           /\ EachPartInItsPlace'
           /\ \A o \in Messages : Holds(storing', o) => KeyOf[o] = KeyOf[m]
  <1>1. GroupsInv /\ KeyOf[m] \in Keys
    BY KeyOfMessage DEF ReceiverInv
  <1>2. CASE TotalOf[m] = Single /\ storing' = Message(KeyOf[m], <<Text(m, i)>>)
    BY <1>2, SingleIsWhole DEF EachPartInItsPlace, Holds
  <1>3. CASE /\ TotalOf[m] # Single /\ Complete(Added(m, i))
             /\ storing' = Compile(KeyOf[m], Added(m, i))
    <2> DEFINE group == Added(m, i)
    <2>1. GoodGroup(KeyOf[m], group)
      BY <1>1, <1>3, AddedIsGood
    <2>2. Filled(group) = 1..TotalSize(group)
      BY <1>3, <2>1, CompleteIsFull DEF GoodGroup
    <2>3. /\ IsCompiled(storing') /\ storing'.key = KeyOf[m]
          /\ DOMAIN storing'.content = 1..TotalSize(group)
          /\ \A p \in DOMAIN storing'.content : storing'.content[p] = group.parts[p]
      BY <1>1, <1>3, <2>1, CompileIsWhole
    <2> HIDE DEF group
    <2>4. \A p \in DOMAIN storing'.content :
             LET text == storing'.content[p]
             IN  KeyOf[text.msg] = KeyOf[m] /\ Slot(text.index) = p
      BY <2>1, <2>2, <2>3 DEF GoodGroup
    <2>5. QED
      BY <2>3, <2>4 DEF EachPartInItsPlace, Holds
  <1>4. CASE storing' = NoMessage
    BY <1>4 DEF EachPartInItsPlace, Holds
  <1>5. QED
    BY <1>2, <1>3, <1>4, PartTaken

\* What the counters say of a part: compiled and waiting, of those that came.
LEMMA PartsKeptTaken ==
    ASSUME ReceiverInv, NEW m \in Messages, NEW i \in PartsOf[m], HandleIncomingSms(m, i),
           NEW o \in Messages, Regular(o)
    PROVE  PartsKept(o)'
  <1>1. /\ GroupsInv /\ PartsKept(o)
        /\ DOMAIN delivered = Messages
        /\ \A n \in Messages : /\ DOMAIN delivered[n] = PartsOf[n] /\ compiled[n] \in Nat
                               /\ \A j \in PartsOf[n] : delivered[n][j] \in Nat
    BY DeliveriesAssumption DEF ReceiverInv, TypeOK
  <1>2. /\ delivered' = [delivered EXCEPT ![m][i] = @ + 1]
        /\ compiled' = [n \in Messages |-> compiled[n] + IF Holds(storing', n) THEN 1 ELSE 0]
        /\ abandoned' = abandoned
    BY DEF HandleIncomingSms
  <1>3. CASE KeyOf[o] # KeyOf[m]
    <2>1. compiled'[o] = compiled[o]
      BY <1>1, <1>2, <1>3, StoringTaken
    <2>2. delivered'[o] = delivered[o]
      BY <1>1, <1>2, <1>3
    <2>3. \A j : In(o, j)' <=> In(o, j)
      <3>1. \/ groups' = groups
            \/ groups' = Without(KeyOf[m])
            \/ \E group : groups' = With(KeyOf[m], group)
        BY PartTaken
      <3>2. KeyOf[o] \in DOMAIN groups' <=> KeyOf[o] \in DOMAIN groups
        BY <1>3, <3>1 DEF With, Without
      <3>3. KeyOf[o] \in DOMAIN groups => groups'[KeyOf[o]] = groups[KeyOf[o]]
        BY <1>3, <3>1 DEF With, Without
      <3>4. QED
        BY <3>2, <3>3 DEF In
    <2>4. QED
      BY <1>1, <1>2, <2>1, <2>2, <2>3 DEF PartsKept
  <1>4. CASE KeyOf[o] = KeyOf[m]
    <2>1. o = m
      BY <1>4 DEF Regular
    <2>2. \A n \in Messages : KeyOf[n] = KeyOf[m] => n = m
      BY <2>1 DEF Regular
    <2>3. \A j \in PartsOf[m] : delivered'[m][j] = IF j = i THEN delivered[m][j] + 1
                                                   ELSE delivered[m][j]
      BY <1>1, <1>2
    <2>4. CASE TotalOf[m] = Single
      <3>1. \A j \in PartsOf[m] : j = i
        BY <2>1, <2>4 DEF Regular
      <3>2. KeyOf[m] \notin DOMAIN groups /\ groups' = groups
        BY <1>1, <2>2, <2>4, PartTaken DEF GroupsInv, GoodGroup
      <3>3. Holds(storing', m)
        <4>1. storing' = Message(KeyOf[m], <<Text(m, i)>>)
          BY <2>4, PartTaken
        <4>2. /\ storing' # NoMessage
              /\ 1 \in DOMAIN storing'.content /\ storing'.content[1].msg = m
          BY <4>1, SingleIsWhole
        <4>3. QED
          BY <4>2 DEF Holds
      <3>4. compiled'[m] = compiled[m] + 1
        BY <1>2, <3>3
      <3>5. QED
        BY <1>1, <2>1, <2>3, <3>1, <3>2, <3>4 DEF PartsKept, In
    <2>5. CASE TotalOf[m] # Single
      <3> DEFINE added == Added(m, i)
                 total == TotalOf[m]
      <3>1. /\ total \in Nat /\ total > 0
            /\ PartsOf[m] = 1..total /\ \A j \in PartsOf[m] : Slot(j) = j
        BY <2>1, <2>5, TotalAssumption DEF Regular, Slot
      <3>2. GoodGroup(KeyOf[m], added) /\ TotalSize(added) = total
        BY <1>1, <2>2, <2>5, AddedIsGood DEF GoodGroup
      <3>3. i \in Filled(added)
        BY <1>1, <2>5, <3>1, <3>2, AddedIsGood
      <3>4. \A j \in PartsOf[m] \ {i} : In(m, j) <=> j \in Filled(added)
        <4>1. KeyOf[m] \in DOMAIN groups => Base(m) = groups[KeyOf[m]]
          BY DEF Base
        <4>2. QED
          BY <1>1, <2>5, <3>1, <4>1, AddedIsGood DEF In
      <3>5. CASE Complete(added)
        <4>1. groups' = Without(KeyOf[m]) /\ storing' = Compile(KeyOf[m], added)
          BY <2>5, <3>5, PartTaken
        <4>2. \A j : ~In(m, j)'
          BY <4>1 DEF In, Without
        <4>3. Filled(added) = 1..total
          BY <3>2, <3>5, CompleteIsFull DEF GoodGroup
        <4>4. Holds(storing', m)
          <5>1. /\ storing' # NoMessage /\ DOMAIN storing'.content = 1..total
                /\ storing'.content[1] = added.parts[1]
            BY <3>1, <3>2, <3>5, <4>1, CompileIsWhole, KeyOfMessage
          <5>2. added.parts[1] \in Texts /\ KeyOf[added.parts[1].msg] = KeyOf[m]
            BY <3>1, <3>2, <4>3, FilledSlots DEF GoodGroup
          <5>3. added.parts[1].msg = m
            BY <2>2, <5>2 DEF Texts
          <5>4. QED
            BY <3>1, <5>1, <5>3 DEF Holds
        <4>5. compiled'[m] = compiled[m] + 1
          BY <1>2, <4>4
        <4>6. \A j \in PartsOf[m] \ {i} : compiled[m] + 1 <= delivered[m][j]
          BY <1>1, <2>1, <3>1, <3>4, <4>3 DEF PartsKept
        <4>7. compiled[m] <= delivered[m][i]
          BY <1>1, <2>1 DEF PartsKept
        <4>8. QED
          BY <1>1, <2>1, <2>3, <4>2, <4>5, <4>6, <4>7 DEF PartsKept
      <3>6. CASE ~Complete(added)
        <4>1. groups' = With(KeyOf[m], added) /\ storing' = NoMessage
          BY <2>5, <3>6, PartTaken
        <4>2. compiled'[m] = compiled[m]
          BY <1>1, <1>2, <4>1 DEF Holds
        <4>3. PICK group : group = added
          OBVIOUS
        <4>4. \A j \in PartsOf[m] : In(m, j)' <=> j \in Filled(group)
          BY <3>1, <4>1, <4>3 DEF In, With
        <4>5. In(m, i)' /\ \A j \in PartsOf[m] \ {i} : In(m, j)' <=> In(m, j)
          BY <3>3, <3>4, <4>3, <4>4
        <4>6. compiled[m] <= delivered[m][i]
          BY <1>1, <2>1 DEF PartsKept
        <4>7. QED
          BY <1>1, <1>2, <2>1, <2>3, <4>2, <4>5, <4>6 DEF PartsKept
      <3>7. QED
        BY <3>5, <3>6
    <2>6. QED
      BY <2>4, <2>5
  <1>5. QED
    BY <1>3, <1>4

-----------------------------------------------------------------------------
(***************************************************************************)
(* The invariant is inductive.                                             *)
(***************************************************************************)
LEMMA GoodIsTyped ==
    ASSUME NEW k, NEW group, GoodGroup(k, group), ~Complete(group)
    PROVE  group \in Groups /\ group.received_count < TotalSize(group)
  <1>1. group \in Groups /\ ~(group.received_count >= TotalSize(group))
    BY DEF GoodGroup, Complete
  <1>2. TotalSize(group) \in Nat /\ group.received_count \in Nat
    BY <1>1, FilledSlots DEF Groups
  <1>3. QED
    BY <1>1, <1>2

LEMMA ReceiverInvInit == Init => ReceiverInv
  <1> SUFFICES ASSUME Init PROVE ReceiverInv
    OBVIOUS
  <1>1. DOMAIN groups = {}
    BY DEF Init
  <1>2. GroupsInv /\ EachPartInItsPlace
    BY <1>1 DEF Init, GroupsInv, EachPartInItsPlace
  <1>3. TypeOK
    BY <1>1, DeliveriesAssumption DEF Init, TypeOK
  <1>4. \A m \in Messages : PartsKept(m)
    BY <1>1, DeliveriesAssumption DEF Init, PartsKept, In
  <1>5. QED
    BY <1>2, <1>3, <1>4 DEF ReceiverInv

LEMMA ReceiverInvTaken ==
    ASSUME ReceiverInv, NEW m \in Messages, NEW i \in PartsOf[m], HandleIncomingSms(m, i)
    PROVE  ReceiverInv'
  <1>1. GroupsInv'
    BY GroupsInvTaken
  <1>2. EachPartInItsPlace' /\ (storing' # NoMessage => IsCompiled(storing'))
    BY StoringTaken
  <1>3. (\A o \in Messages : Regular(o) => PartsKept(o))'
    BY PartsKeptTaken DEF Regular
  <1>4. delivered' = [delivered EXCEPT ![m][i] = @ + 1] /\ delivered[m][i] < MaxDeliveries[m]
        /\ compiled' = [n \in Messages |-> compiled[n] + IF Holds(storing', n) THEN 1 ELSE 0]
        /\ event' = <<>> /\ abandoned' = abandoned
    BY DEF HandleIncomingSms
  <1>5. (\A o \in Messages : delivered[o] \in [PartsOf[o] -> 0..MaxDeliveries[o]])'
    <2>1. /\ delivered[m] \in [PartsOf[m] -> 0..MaxDeliveries[m]] /\ DOMAIN delivered = Messages
          /\ MaxDeliveries[m] \in Nat
      BY DeliveriesAssumption DEF ReceiverInv, TypeOK
    <2>2. [delivered[m] EXCEPT ![i] = @ + 1] \in [PartsOf[m] -> 0..MaxDeliveries[m]]
      BY <1>4, <2>1
    <2>3. \A o \in Messages : delivered'[o] = IF o = m THEN [delivered[m] EXCEPT ![i] = @ + 1]
                                              ELSE delivered[o]
      BY <1>4, <2>1
    <2>4. QED
      BY <2>2, <2>3 DEF ReceiverInv, TypeOK
  <1>6. TypeOK'
    <2>1. compiled' \in [Messages -> Nat]
      BY <1>4 DEF ReceiverInv, TypeOK
    <2>2. (DOMAIN delivered = Messages)' /\ abandoned' \subseteq Keys
      BY <1>4 DEF ReceiverInv, TypeOK
    <2>3. (/\ DOMAIN groups \subseteq Keys
           /\ \A k \in DOMAIN groups :
                groups[k] \in Groups /\ groups[k].received_count < TotalSize(groups[k]))'
      BY <1>1, GoodIsTyped DEF GroupsInv
    <2>4. QED
      BY <1>2, <1>4, <1>5, <2>1, <2>2, <2>3 DEF TypeOK
  <1>7. QED
    BY <1>1, <1>2, <1>3, <1>6 DEF ReceiverInv

LEMMA ReceiverInvNext == ReceiverInv /\ [Next]_vars => ReceiverInv'
  <1> SUFFICES ASSUME ReceiverInv, [Next]_vars PROVE ReceiverInv'
    OBVIOUS
  <1>1. ASSUME NEW m \in Messages, NEW i \in PartsOf[m], HandleIncomingSms(m, i)
        PROVE  ReceiverInv'
    BY <1>1, ReceiverInvTaken
  <1>2. CASE StoreAndAnnounce
    <2>1. /\ storing' = NoMessage
          /\ Len(event') = 1 /\ event'[1].message = storing /\ storing # NoMessage
          /\ UNCHANGED <<groups, delivered, compiled, abandoned>>
      BY <1>2 DEF StoreAndAnnounce
    <2>2. TypeOK'
      BY <2>1 DEF ReceiverInv, TypeOK
    <2>3. GroupsInv' /\ EachPartInItsPlace'
      BY <2>1 DEF ReceiverInv, GroupsInv, EachPartInItsPlace
    <2>4. (\A m \in Messages : Regular(m) => PartsKept(m))'
      BY <2>1 DEF ReceiverInv, PartsKept, In, Regular
    <2>5. QED
      BY <2>2, <2>3, <2>4 DEF ReceiverInv
  <1>3. ASSUME NEW key \in Keys, Stall(key) PROVE ReceiverInv'
    <2>1. /\ key \in DOMAIN groups /\ groups' = [groups EXCEPT ![key].stalled = TRUE]
          /\ event' = <<>> /\ UNCHANGED <<storing, delivered, compiled, abandoned>>
      BY <1>3 DEF Stall
    <2>2. PICK stalled : stalled = [groups[key] EXCEPT !.stalled = TRUE]
      OBVIOUS
    <2>3. groups[key] \in Groups
      BY <2>1 DEF ReceiverInv, GroupsInv, GoodGroup
    <2>4. /\ stalled \in Groups /\ stalled.parts = groups[key].parts
          /\ stalled.received_count = groups[key].received_count
      BY <2>2, <2>3 DEF Groups
    <2>5. Filled(stalled) = Filled(groups[key]) /\ TotalSize(stalled) = TotalSize(groups[key])
      BY <2>4 DEF Filled, TotalSize
    <2>6. /\ DOMAIN groups' = DOMAIN groups
          /\ \A k \in DOMAIN groups : groups'[k] = IF k = key THEN stalled ELSE groups[k]
      BY <2>1, <2>2
    <2>7. GoodGroup(key, stalled) /\ ~Complete(stalled)
      <3>1. GoodGroup(key, groups[key]) /\ ~Complete(groups[key])
        BY <2>1 DEF ReceiverInv, GroupsInv
      <3>2. QED
        BY <2>4, <2>5, <3>1 DEF GoodGroup, Complete
    <2>8. GroupsInv'
      BY <2>6, <2>7 DEF ReceiverInv, GroupsInv
    <2>9. TypeOK'
      <3>1. (/\ DOMAIN groups \subseteq Keys
             /\ \A k \in DOMAIN groups :
                  groups[k] \in Groups /\ groups[k].received_count < TotalSize(groups[k]))'
        BY <2>8, GoodIsTyped DEF GroupsInv
      <3>2. QED
        BY <2>1, <3>1 DEF ReceiverInv, TypeOK
    <2>10. (\A m \in Messages : Regular(m) => PartsKept(m))'
      <3>1. \A m, i : In(m, i)' <=> In(m, i)
        BY <2>5, <2>6 DEF In
      <3>2. QED
        BY <2>1, <3>1 DEF ReceiverInv, PartsKept, Regular
    <2>11. QED
      BY <2>1, <2>8, <2>9, <2>10 DEF ReceiverInv, EachPartInItsPlace
  <1>4. CASE CleanupStalledMultipart
    <2>1. PICK stalled : /\ stalled \subseteq DOMAIN groups
                         /\ groups' = [k \in DOMAIN groups \ stalled |-> groups[k]]
                         /\ abandoned' = abandoned \cup stalled
                         /\ event' = <<>> /\ UNCHANGED <<storing, delivered, compiled>>
      <3>1. WITNESS {k \in DOMAIN groups : groups[k].stalled}
      <3>2. QED
        BY <1>4 DEF CleanupStalledMultipart
    <2>2. GroupsInv'
      BY <2>1 DEF ReceiverInv, GroupsInv
    <2>3. TypeOK'
      <3>1. (/\ DOMAIN groups \subseteq Keys
             /\ \A k \in DOMAIN groups :
                  groups[k] \in Groups /\ groups[k].received_count < TotalSize(groups[k]))'
        BY <2>2, GoodIsTyped DEF GroupsInv
      <3>2. abandoned' \subseteq Keys
        BY <2>1 DEF ReceiverInv, TypeOK
      <3>3. QED
        BY <2>1, <3>1, <3>2 DEF ReceiverInv, TypeOK
    <2>4. (\A m \in Messages : Regular(m) => PartsKept(m))'
      <3>1. \A m, i : In(m, i)' => In(m, i)
        BY <2>1 DEF In
      <3>2. \A m, i : In(m, i) /\ ~In(m, i)' => KeyOf[m] \in abandoned'
        BY <2>1 DEF In
      <3>3. \A m \in Messages : /\ compiled[m] \in Nat
                                /\ \A i \in PartsOf[m] : delivered[m][i] \in Nat
        BY DeliveriesAssumption DEF ReceiverInv, TypeOK
      <3>4. QED
        BY <2>1, <3>1, <3>2, <3>3 DEF ReceiverInv, PartsKept, Regular
    <2>5. QED
      BY <2>1, <2>2, <2>3, <2>4 DEF ReceiverInv, EachPartInItsPlace
  <1>5. CASE UNCHANGED vars
    <2>1. TypeOK' /\ GroupsInv' /\ EachPartInItsPlace'
      BY <1>5 DEF vars, ReceiverInv, TypeOK, GroupsInv, EachPartInItsPlace
    <2>2. (\A m \in Messages : Regular(m) => PartsKept(m))'
      BY <1>5 DEF vars, ReceiverInv, PartsKept, In, Regular
    <2>3. QED
      BY <2>1, <2>2 DEF ReceiverInv
  <1>6. QED
    BY <1>1, <1>2, <1>3, <1>4, <1>5 DEF Next

LEMMA ReceiverInvHolds == Spec => []ReceiverInv
  BY ReceiverInvInit, ReceiverInvNext, PTL DEF Spec

-----------------------------------------------------------------------------
(***************************************************************************)
(* Theorems.                                                               *)
(***************************************************************************)
\* Every variable keeps its type; no complete group stays in the map, and what
\* is compiled has no gap.
THEOREM ReceiverTypeCorrect == Spec => []TypeOK
  <1>1. ReceiverInv => TypeOK
    BY DEF ReceiverInv
  <1>2. QED
    BY <1>1, ReceiverInvHolds, PTL

\* received_count is the number of slots that are filled, whatever indices the
\* parts have and however often each one comes.
THEOREM CountsFilledSlots == Spec => []CountIsRight
  <1>1. ReceiverInv => CountIsRight
    BY DEF ReceiverInv, GroupsInv, GoodGroup, CountIsRight
  <1>2. QED
    BY <1>1, ReceiverInvHolds, PTL

\* In a compiled message each text is in the place its header gives it, and is of
\* a message with that number and reference.
THEOREM CompilesInPlace == Spec => []EachPartInItsPlace
  <1>1. ReceiverInv => EachPartInItsPlace
    BY DEF ReceiverInv
  <1>2. QED
    BY <1>1, ReceiverInvHolds, PTL

\* A message is compiled no more often than each of its parts has come.
THEOREM DuplicatesDoNotMultiply == Spec => []NoMoreOftenThanReceived
  <1>1. ASSUME ReceiverInv PROVE NoMoreOftenThanReceived
    <2>1. SUFFICES ASSUME NEW m \in Messages, Regular(m), NEW i \in PartsOf[m]
                   PROVE  compiled[m] <= delivered[m][i]
      BY DEF NoMoreOftenThanReceived
    <2>2. compiled[m] \in Nat /\ delivered[m][i] \in Nat
      BY <1>1, DeliveriesAssumption DEF ReceiverInv, TypeOK
    <2>3. compiled[m] + (IF In(m, i) THEN 1 ELSE 0) <= delivered[m][i]
      BY <1>1, <2>1 DEF ReceiverInv, PartsKept
    <2>4. QED
      BY <2>2, <2>3
  <1>2. QED
    BY <1>1, ReceiverInvHolds, PTL

\* Once all the parts of a message have come, and no cleanup took some of them,
\* it has been compiled: none of them waits for one that is already there.
THEOREM CompilesWholeMessages == Spec => []WholeMessageCompiled
  <1>1. ASSUME ReceiverInv PROVE WholeMessageCompiled
    <2>1. SUFFICES ASSUME NEW m \in Messages, Regular(m), KeyOf[m] \notin abandoned,
                          \A i \in PartsOf[m] : delivered[m][i] > 0, ~(compiled[m] > 0)
                   PROVE  FALSE
      BY DEF WholeMessageCompiled
    <2>2. \A i \in PartsOf[m] : In(m, i)
      BY <1>1, <2>1 DEF ReceiverInv, PartsKept
    <2>3. PICK i \in PartsOf[m] : TRUE
      BY <2>1, TotalAssumption, SMTT(30) DEF Regular
    <2>4. KeyOf[m] \in DOMAIN groups
      BY <2>2, <2>3 DEF In
    <2> DEFINE group == groups[KeyOf[m]]
    <2>5. GoodGroup(KeyOf[m], group) /\ ~Complete(group)
      BY <1>1, <2>4 DEF ReceiverInv, GroupsInv
    <2>6. TotalOf[m] # Single /\ TotalSize(group) = TotalOf[m]
      BY <2>1, <2>5 DEF GoodGroup, Regular
    <2>7. PartsOf[m] = 1..TotalSize(group) /\ \A j \in PartsOf[m] : Slot(j) = j
      BY <2>1, <2>6, TotalAssumption DEF Regular, Slot
    <2>8. 1..TotalSize(group) \subseteq Filled(group)
      BY <2>2, <2>7 DEF In
    <2> HIDE DEF group
    <2>9. group.received_count = TotalSize(group) /\ TotalSize(group) \in Nat
      <3>1. group \in Groups /\ group.received_count = Cardinality(Filled(group))
        BY <2>5 DEF GoodGroup
      <3>2. Filled(group) = 1..TotalSize(group) /\ TotalSize(group) \in Nat
        BY <2>8, <3>1, FilledSlots
      <3>3. QED
        BY <3>1, <3>2, FS_Interval
    <2>10. QED
      BY <2>5, <2>9 DEF Complete
  <1>2. QED
    BY <1>1, ReceiverInvHolds, PTL

\* A part stays in the map until its message is complete or its group has stalled.
THEOREM KeepsPartsThatCame == Spec => RemovedOnlyIfStalled
  <1> DEFINE Kept(k) ==
        \/ k \in DOMAIN groups' /\ \A p \in Filled(groups[k]) :
                                      groups'[k].parts[p] = groups[k].parts[p]
        \/ groups[k].stalled /\ k \in abandoned'
        \/ storing' # storing /\ storing'.key = k
  <1>1. ASSUME ReceiverInv, [Next]_vars, NEW k \in DOMAIN groups
        PROVE  Kept(k)
    <2>1. ASSUME NEW m \in Messages, NEW i \in PartsOf[m], HandleIncomingSms(m, i)
          PROVE  Kept(k)
      <3>1. GroupsInv
        BY <1>1 DEF ReceiverInv
      <3>2. CASE groups' = groups \/ k # KeyOf[m]
        <4>1. \/ groups' = groups
              \/ groups' = Without(KeyOf[m])
              \/ \E group : groups' = With(KeyOf[m], group)
          BY <1>1, <2>1, PartTaken
        <4>2. QED
          BY <3>2, <4>1 DEF With, Without
      <3>3. CASE /\ TotalOf[m] # Single /\ Complete(Added(m, i)) /\ k = KeyOf[m]
                 /\ storing' = Compile(KeyOf[m], Added(m, i))
        <4>1. storing = NoMessage
          BY <2>1 DEF HandleIncomingSms
        <4>2. storing' # NoMessage /\ storing'.key = k
          BY <2>1, <3>1, <3>3, AddedIsGood, CompileIsWhole, KeyOfMessage
        <4>3. QED
          BY <4>1, <4>2
      <3>4. CASE /\ TotalOf[m] # Single /\ k = KeyOf[m]
                 /\ groups' = With(KeyOf[m], Added(m, i))
        <4>1. Base(m) = groups[k]
          BY <3>4 DEF Base
        <4>2. \A p \in Filled(groups[k]) : Added(m, i).parts[p] = groups[k].parts[p]
          BY <2>1, <3>1, <3>4, <4>1, AddedIsGood
        <4>3. k \in DOMAIN groups' /\ groups'[k] = Added(m, i)
          BY <3>4 DEF With
        <4>4. QED
          BY <4>2, <4>3
      <3>5. QED
        BY <1>1, <2>1, <3>2, <3>3, <3>4, PartTaken
    <2>2. CASE groups' = groups
      BY <2>2
    <2>3. ASSUME NEW key \in Keys, Stall(key) PROVE Kept(k)
      <3>1. groups[k] \in Groups
        BY <1>1 DEF ReceiverInv, TypeOK
      <3>2. k \in DOMAIN groups' /\ groups'[k].parts = groups[k].parts
        BY <2>3, <3>1 DEF Stall, Groups
      <3>3. QED
        BY <3>2
    <2>4. CASE CleanupStalledMultipart
      BY <2>4 DEF CleanupStalledMultipart
    <2>5. QED
      BY <1>1, <2>1, <2>2, <2>3, <2>4 DEF Next, vars, StoreAndAnnounce
  <1>2. ASSUME ReceiverInv, [Next]_vars
        PROVE  [\A k \in DOMAIN groups : Kept(k)]_vars
    BY <1>1, <1>2
  <1>3. QED
    BY <1>2, ReceiverInvHolds, PTL DEF Spec, RemovedOnlyIfStalled
=============================================================================
