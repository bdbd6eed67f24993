---------------------------- MODULE MsgBusProofs ----------------------------
(***************************************************************************)
(* Proofs about MsgBus: for any number of publishers, subscribers, words   *)
(* and slots, deliveries are whole, once and never lost, and the topic     *)
(* implements the one-place mailboxes of Mailbox.                          *)
(***************************************************************************)
EXTENDS MsgBus, TLAPS, FiniteSetTheorems

\* What stands in the constants' way of being confused with one another.
LEMMA ConstantFacts ==
  /\ NoThread \notin Publishers /\ NoThread \notin Subscribers
  /\ \A p \in Publishers : p \notin Subscribers
  /\ NoSlot \notin Slots
  /\ Slots \subseteq Nat
BY ThreadsAssumption, SizesAssumption DEF Threads, Slots, NoSlot

\* Messages with different numbers differ: a message has at least one word.
LEMMA MessageInjective ==
  \A m, n \in Nat : Message(m) = Message(n) => m = n
BY SizesAssumption DEF Message

-----------------------------------------------------------------------------
(* The type invariant is inductive as it stands. *)

LEMMA TypeInit == Init => TypeOK
BY ConstantFacts DEF Init, TypeOK, Threads, Message

LEMMA TypeStep == TypeOK /\ [Next]_vars => TypeOK'
<1> SUFFICES ASSUME TypeOK, [Next]_vars PROVE TypeOK'
  OBVIOUS
<1> USE DEF TypeOK
<1>1. ASSUME NEW s \in Subscribers, Subscribe(s) PROVE TypeOK'
  BY <1>1 DEF Subscribe, FirstInactive, Threads
<1>2. ASSUME NEW p \in Publishers, PublishCall(p) PROVE TypeOK'
  BY <1>2 DEF PublishCall, Threads
<1>3. ASSUME NEW p \in Publishers, PublishLock(p) PROVE TypeOK'
  BY <1>3 DEF PublishLock, Threads
<1>4. ASSUME NEW p \in Publishers, PublishDropped(p) PROVE TypeOK'
  BY <1>4 DEF PublishDropped, Threads
<1>5. ASSUME NEW p \in Publishers, NEW w \in Words, PublishWord(p, w) PROVE TypeOK'
  BY <1>5 DEF PublishWord, Threads
<1>6. ASSUME NEW p \in Publishers, PublishDone(p) PROVE TypeOK'
  BY <1>6 DEF PublishDone, Threads
<1>7. ASSUME NEW s \in Subscribers, ReadCall(s) PROVE TypeOK'
  BY <1>7 DEF ReadCall, Threads
<1>8. ASSUME NEW s \in Subscribers, ReadLock(s) PROVE TypeOK'
  BY <1>8 DEF ReadLock, Threads
<1>9. ASSUME NEW s \in Subscribers, ReadEmpty(s) PROVE TypeOK'
  BY <1>9 DEF ReadEmpty, Threads
<1>10. ASSUME NEW s \in Subscribers, ReadPending(s) PROVE TypeOK'
  BY <1>10 DEF ReadPending, Threads
<1>11. ASSUME NEW s \in Subscribers, NEW w \in Words, ReadWord(s, w) PROVE TypeOK'
  BY <1>11 DEF ReadWord, Threads
<1>12. ASSUME NEW s \in Subscribers, ReadDone(s) PROVE TypeOK'
  BY <1>12 DEF ReadDone, Threads
<1>13. CASE UNCHANGED vars
  BY <1>13 DEF vars
<1> QED
  BY <1>1, <1>2, <1>3, <1>4, <1>5, <1>6, <1>7, <1>8, <1>9, <1>10, <1>11, <1>12, <1>13
  DEF Next, PublishStep, ReadStep

\* Type correctness of the topic, for any threads, words and slots.
THEOREM TypeCorrect == Spec => []TypeOK
BY TypeInit, TypeStep, PTL DEF Spec

-----------------------------------------------------------------------------
(* The lock: whoever is inside the critical section owns it. *)

Holding == {"copying", "locked"}

\* Publishers and subscribers go through their own places only.
Roles == /\ \A p \in Publishers : pc[p] \in {"idle", "calling", "copying"}
         /\ \A s \in Subscribers : pc[s] \in {"new", "idle", "reading", "locked", "copying"}

Ownership == \A t \in Threads : pc[t] \in Holding <=> lock = t

LockInv == Roles /\ Ownership

LEMMA LockInit == Init => LockInv
BY ConstantFacts DEF Init, LockInv, Roles, Ownership, Holding, Threads

LEMMA LockStep == TypeOK /\ LockInv /\ [Next]_vars => LockInv'
<1> SUFFICES ASSUME TypeOK, LockInv, [Next]_vars PROVE LockInv'
  OBVIOUS
<1> USE ConstantFacts DEF LockInv, Roles, Ownership, Holding, Threads
<1> pc \in [Threads -> {"new", "idle", "calling", "copying", "reading", "locked"}]
  BY DEF TypeOK
<1>1. ASSUME NEW s \in Subscribers, Subscribe(s) PROVE LockInv'
  BY <1>1 DEF Subscribe
<1>2. ASSUME NEW p \in Publishers, PublishCall(p) PROVE LockInv'
  BY <1>2 DEF PublishCall
<1>3. ASSUME NEW p \in Publishers, PublishLock(p) PROVE LockInv'
  BY <1>3 DEF PublishLock
<1>4. ASSUME NEW p \in Publishers, PublishDropped(p) PROVE LockInv'
  BY <1>4 DEF PublishDropped
<1>5. ASSUME NEW p \in Publishers, NEW w \in Words, PublishWord(p, w) PROVE LockInv'
  BY <1>5 DEF PublishWord
<1>6. ASSUME NEW p \in Publishers, PublishDone(p) PROVE LockInv'
  BY <1>6 DEF PublishDone
<1>7. ASSUME NEW s \in Subscribers, ReadCall(s) PROVE LockInv'
  BY <1>7 DEF ReadCall
<1>8. ASSUME NEW s \in Subscribers, ReadLock(s) PROVE LockInv'
  BY <1>8 DEF ReadLock
<1>9. ASSUME NEW s \in Subscribers, ReadEmpty(s) PROVE LockInv'
  BY <1>9 DEF ReadEmpty
<1>10. ASSUME NEW s \in Subscribers, ReadPending(s) PROVE LockInv'
  BY <1>10 DEF ReadPending
<1>11. ASSUME NEW s \in Subscribers, NEW w \in Words, ReadWord(s, w) PROVE LockInv'
  BY <1>11 DEF ReadWord
<1>12. ASSUME NEW s \in Subscribers, ReadDone(s) PROVE LockInv'
  BY <1>12 DEF ReadDone
<1>13. CASE UNCHANGED vars
  BY <1>13 DEF vars
<1> QED
  BY <1>1, <1>2, <1>3, <1>4, <1>5, <1>6, <1>7, <1>8, <1>9, <1>10, <1>11, <1>12, <1>13
  DEF Next, PublishStep, ReadStep

-----------------------------------------------------------------------------
(* The contents: what the payload and the buffers hold half way through a copy. *)

\* Only a running memcpy has moved words.
CopiedInv == \A t \in Threads : pc[t] # "copying" => copied[t] = {}

\* The words the publisher inside has written are the next message's, the
\* others, and all of them with no publisher inside, are the last one's.
PayloadInv ==
  /\ lock \notin Publishers => \A w \in Words : payload[w] = sent
  /\ \A p \in Publishers : lock = p =>
       \A w \in Words : payload[w] = IF w \in copied[p] THEN sent + 1 ELSE sent

\* The words a reader has copied are the last message's, and its slot is flagged.
BufferInv == \A s \in Subscribers :
  /\ \A w \in copied[s] : buf[s][w] = sent
  /\ pc[s] = "copying" => slot[s] \in pending

\* Subscribers own distinct active slots.
SlotInv == \A s \in Subscribers :
  /\ pc[s] = "new" => slot[s] = NoSlot
  /\ slot[s] # NoSlot => slot[s] \in active
  /\ \A r \in Subscribers : slot[r] = slot[s] /\ r # s => slot[s] = NoSlot

ContentInv == CopiedInv /\ PayloadInv /\ BufferInv /\ SlotInv

LEMMA ContentInit == Init => ContentInv
BY ConstantFacts
DEF Init, ContentInv, CopiedInv, PayloadInv, BufferInv, SlotInv, Threads, Message

LEMMA ContentStep == TypeOK /\ LockInv /\ ContentInv /\ [Next]_vars => ContentInv'
<1> SUFFICES ASSUME TypeOK, LockInv, ContentInv, [Next]_vars PROVE ContentInv'
  OBVIOUS
<1> USE ConstantFacts
    DEF TypeOK, LockInv, Roles, Ownership, Holding, Threads,
        ContentInv, CopiedInv, PayloadInv, BufferInv, SlotInv
<1>1. ASSUME NEW s \in Subscribers, Subscribe(s) PROVE ContentInv'
  BY <1>1 DEF Subscribe, FirstInactive
<1>2. ASSUME NEW p \in Publishers, PublishCall(p) PROVE ContentInv'
  BY <1>2 DEF PublishCall
<1>3. ASSUME NEW p \in Publishers, PublishLock(p) PROVE ContentInv'
  BY <1>3 DEF PublishLock
<1>4. ASSUME NEW p \in Publishers, PublishDropped(p) PROVE ContentInv'
  BY <1>4 DEF PublishDropped
<1>5. ASSUME NEW p \in Publishers, NEW w \in Words, PublishWord(p, w) PROVE ContentInv'
  BY <1>5 DEF PublishWord
<1>6. ASSUME NEW p \in Publishers, PublishDone(p) PROVE ContentInv'
  BY <1>6 DEF PublishDone
<1>7. ASSUME NEW s \in Subscribers, ReadCall(s) PROVE ContentInv'
  BY <1>7 DEF ReadCall
<1>8. ASSUME NEW s \in Subscribers, ReadLock(s) PROVE ContentInv'
  BY <1>8 DEF ReadLock
<1>9. ASSUME NEW s \in Subscribers, ReadEmpty(s) PROVE ContentInv'
  BY <1>9 DEF ReadEmpty
<1>10. ASSUME NEW s \in Subscribers, ReadPending(s) PROVE ContentInv'
  BY <1>10 DEF ReadPending
<1>11. ASSUME NEW s \in Subscribers, NEW w \in Words, ReadWord(s, w) PROVE ContentInv'
  BY <1>11 DEF ReadWord
<1>12. ASSUME NEW s \in Subscribers, ReadDone(s) PROVE ContentInv'
  BY <1>12 DEF ReadDone
<1>13. CASE UNCHANGED vars
  BY <1>13 DEF vars
<1> QED
  BY <1>1, <1>2, <1>3, <1>4, <1>5, <1>6, <1>7, <1>8, <1>9, <1>10, <1>11, <1>12, <1>13
  DEF Next, PublishStep, ReadStep

-----------------------------------------------------------------------------
(* What is delivered.  The three delivery properties are inductive together, *)
(* given the contents.                                                       *)

JoinedInv == \A s \in Subscribers : joined[s] <= sent

DeliveryInv == JoinedInv /\ NoTornDelivery /\ PendingIsUnread /\ NothingLost

LEMMA DeliveryInit == Init => DeliveryInv
<1> SUFFICES ASSUME Init PROVE DeliveryInv
  OBVIOUS
<1>1. NoTornDelivery
  <2> 0 \in 0 .. sent
    BY DEF Init
  <2> QED
    BY DEF Init, NoTornDelivery
<1> QED
  BY <1>1, ConstantFacts DEF Init, DeliveryInv, JoinedInv, PendingIsUnread, NothingLost

\* A reader at the end of its copy holds the newest message.
LEMMA WholeCopy ==
  ASSUME TypeOK, ContentInv, NEW s \in Subscribers, copied[s] = Words
  PROVE  buf[s] = Message(sent)
<1>1. buf[s] \in [Words -> Nat]
  BY DEF TypeOK
<1>2. \A w \in Words : buf[s][w] = sent
  BY DEF ContentInv, BufferInv
<1> QED
  BY <1>1, <1>2 DEF Message

\* A subscriber's slot is its own.
LEMMA OwnSlot ==
  ASSUME TypeOK, ContentInv, NEW s \in Subscribers, NEW r \in Subscribers,
         r # s, slot[r] = slot[s]
  PROVE  slot[r] = NoSlot
BY DEF ContentInv, SlotInv

\* Nothing outside DeliveryVars matters to the delivery properties.
DeliveryVars == <<pending, slot, sent, got, joined>>

LEMMA DeliveryUntouched == DeliveryInv /\ UNCHANGED DeliveryVars => DeliveryInv'
BY DEF DeliveryInv, DeliveryVars, JoinedInv, NoTornDelivery, PendingIsUnread, NothingLost

LEMMA DeliverySubscribe ==
  ASSUME TypeOK, ContentInv, DeliveryInv, NEW s \in Subscribers, Subscribe(s)
  PROVE  DeliveryInv'
<1>1. CASE UNCHANGED <<pending, slot, joined>>
  BY <1>1, DeliveryUntouched DEF Subscribe, DeliveryVars
<1>2. ASSUME NEW i \in Slots, FirstInactive(i),
             active' = active \cup {i}, pending' = pending \ {i},
             slot' = [slot EXCEPT ![s] = i], joined' = [joined EXCEPT ![s] = sent]
      PROVE  DeliveryInv'
  <2>1. sent' = sent /\ got' = got /\ i \notin active /\ sent \in Nat
    BY <1>2 DEF Subscribe, FirstInactive, TypeOK
  <2>2. \A r \in Subscribers : joined'[r] = IF r = s THEN sent ELSE joined[r]
    BY <1>2 DEF TypeOK
  <2>3. \A r \in Subscribers : slot'[r] = IF r = s THEN i ELSE slot[r]
    BY <1>2 DEF TypeOK
  <2>4. \A r \in Subscribers : r # s => (slot[r] \in pending' <=> slot[r] \in pending)
    BY <1>2, <2>1 DEF TypeOK
  <2>5. JoinedInv'
    BY <2>1, <2>2 DEF DeliveryInv, JoinedInv
  <2>6. NoTornDelivery'
    BY <2>1 DEF DeliveryInv, NoTornDelivery
  <2>7. PendingIsUnread'
    BY <1>2, <2>1, <2>2, <2>3, <2>4 DEF DeliveryInv, PendingIsUnread
  <2>8. NothingLost'
    BY <1>2, <2>1, <2>2, <2>3, <2>4 DEF DeliveryInv, NothingLost
  <2> QED
    BY <2>5, <2>6, <2>7, <2>8 DEF DeliveryInv
<1> QED
  BY <1>1, <1>2 DEF Subscribe

LEMMA DeliveryPublish ==
  ASSUME TypeOK, ContentInv, DeliveryInv, NEW p \in Publishers, PublishDone(p)
  PROVE  DeliveryInv'
<1>1. /\ pending' = active /\ sent' = sent + 1 /\ sent \in Nat
      /\ slot' = slot /\ got' = got /\ joined' = joined /\ joined \in [Subscribers -> Nat]
  BY DEF PublishDone, TypeOK
<1>2. JoinedInv'
  BY <1>1 DEF DeliveryInv, JoinedInv
<1>3. NoTornDelivery'
  <2> SUFFICES ASSUME NEW s \in Subscribers
               PROVE  \E n \in 0 .. sent + 1 : got[s] = Message(n)
    BY <1>1 DEF NoTornDelivery
  <2>1. PICK n \in 0 .. sent : got[s] = Message(n)
    BY DEF DeliveryInv, NoTornDelivery
  <2>2. n \in 0 .. sent + 1
    BY <1>1
  <2> QED
    BY <2>1, <2>2
<1>4. PendingIsUnread'
  <2> SUFFICES ASSUME NEW s \in Subscribers
               PROVE  got[s] # Message(sent + 1) /\ joined[s] < sent + 1
    BY <1>1 DEF PendingIsUnread
  <2>1. PICK n \in 0 .. sent : got[s] = Message(n)
    BY DEF DeliveryInv, NoTornDelivery
  <2>2. Message(n) # Message(sent + 1)
    BY <1>1, MessageInjective
  <2> QED
    BY <1>1, <2>1, <2>2 DEF DeliveryInv, JoinedInv
<1>5. NothingLost'
  BY <1>1 DEF NothingLost, ContentInv, SlotInv
<1> QED
  BY <1>2, <1>3, <1>4, <1>5 DEF DeliveryInv

LEMMA DeliveryRead ==
  ASSUME TypeOK, ContentInv, DeliveryInv, NEW s \in Subscribers, ReadDone(s)
  PROVE  DeliveryInv'
<1>1. /\ pending' = pending \ {slot[s]} /\ sent' = sent /\ sent \in Nat
      /\ slot' = slot /\ joined' = joined
  BY DEF ReadDone, TypeOK
<1>2. got' = [got EXCEPT ![s] = Message(sent)]
  BY WholeCopy DEF ReadDone
<1>3. \A r \in Subscribers : got'[r] = IF r = s THEN Message(sent) ELSE got[r]
  BY <1>2 DEF TypeOK
<1>4. \A r \in Subscribers : r # s => (slot[r] \in pending' <=> slot[r] \in pending)
  BY <1>1, OwnSlot, ConstantFacts DEF TypeOK
<1>5. JoinedInv'
  BY <1>1 DEF DeliveryInv, JoinedInv
<1>6. NoTornDelivery'
  <2> SUFFICES ASSUME NEW r \in Subscribers
               PROVE  \E n \in 0 .. sent : got'[r] = Message(n)
    BY <1>1 DEF NoTornDelivery
  <2>1. sent \in 0 .. sent
    BY <1>1
  <2>2. \E n \in 0 .. sent : got[r] = Message(n)
    BY DEF DeliveryInv, NoTornDelivery
  <2> QED
    BY <1>3, <2>1, <2>2
<1>7. PendingIsUnread'
  BY <1>1, <1>3, <1>4 DEF DeliveryInv, PendingIsUnread
<1>8. NothingLost'
  BY <1>1, <1>3, <1>4 DEF DeliveryInv, NothingLost
<1> QED
  BY <1>5, <1>6, <1>7, <1>8 DEF DeliveryInv

LEMMA DeliveryStep ==
  TypeOK /\ ContentInv /\ DeliveryInv /\ [Next]_vars => DeliveryInv'
<1> SUFFICES ASSUME TypeOK, ContentInv, DeliveryInv, [Next]_vars PROVE DeliveryInv'
  OBVIOUS
<1> USE DEF DeliveryVars
<1>1. ASSUME NEW s \in Subscribers, Subscribe(s) PROVE DeliveryInv'
  BY <1>1, DeliverySubscribe
<1>2. ASSUME NEW p \in Publishers, PublishCall(p) PROVE DeliveryInv'
  BY <1>2, DeliveryUntouched DEF PublishCall
<1>3. ASSUME NEW p \in Publishers, PublishLock(p) PROVE DeliveryInv'
  BY <1>3, DeliveryUntouched DEF PublishLock
<1>4. ASSUME NEW p \in Publishers, PublishDropped(p) PROVE DeliveryInv'
  BY <1>4, DeliveryUntouched DEF PublishDropped
<1>5. ASSUME NEW p \in Publishers, NEW w \in Words, PublishWord(p, w) PROVE DeliveryInv'
  BY <1>5, DeliveryUntouched DEF PublishWord
<1>6. ASSUME NEW p \in Publishers, PublishDone(p) PROVE DeliveryInv'
  BY <1>6, DeliveryPublish
<1>7. ASSUME NEW s \in Subscribers, ReadCall(s) PROVE DeliveryInv'
  BY <1>7, DeliveryUntouched DEF ReadCall
<1>8. ASSUME NEW s \in Subscribers, ReadLock(s) PROVE DeliveryInv'
  BY <1>8, DeliveryUntouched DEF ReadLock
<1>9. ASSUME NEW s \in Subscribers, ReadEmpty(s) PROVE DeliveryInv'
  BY <1>9, DeliveryUntouched DEF ReadEmpty
<1>10. ASSUME NEW s \in Subscribers, ReadPending(s) PROVE DeliveryInv'
  BY <1>10, DeliveryUntouched DEF ReadPending
<1>11. ASSUME NEW s \in Subscribers, NEW w \in Words, ReadWord(s, w) PROVE DeliveryInv'
  BY <1>11, DeliveryUntouched DEF ReadWord
<1>12. ASSUME NEW s \in Subscribers, ReadDone(s) PROVE DeliveryInv'
  BY <1>12, DeliveryRead
<1>13. CASE UNCHANGED vars
  BY <1>13, DeliveryUntouched DEF vars
<1> QED
  BY <1>1, <1>2, <1>3, <1>4, <1>5, <1>6, <1>7, <1>8, <1>9, <1>10, <1>11, <1>12, <1>13
  DEF Next, PublishStep, ReadStep

-----------------------------------------------------------------------------
(* The inductive invariant, and what follows from it. *)

IInv == TypeOK /\ LockInv /\ ContentInv /\ DeliveryInv

THEOREM Invariant == Spec => []IInv
<1>1. Init => IInv
  BY TypeInit, LockInit, ContentInit, DeliveryInit DEF IInv
<1>2. IInv /\ [Next]_vars => IInv'
  BY TypeStep, LockStep, ContentStep, DeliveryStep DEF IInv
<1> QED
  BY <1>1, <1>2, PTL DEF Spec

\* Whatever the threads do and however many words a payload has, a read that
\* answers ok hands out one publication as a whole.
THEOREM Whole == Spec => []NoTornDelivery
<1>1. IInv => NoTornDelivery
  BY DEF IInv, DeliveryInv
<1> QED
  BY <1>1, Invariant, PTL

\* No publication reaches a subscriber twice, and none from before it joined.
THEOREM AtMostOnce == Spec => []PendingIsUnread
<1>1. IInv => PendingIsUnread
  BY DEF IInv, DeliveryInv
<1> QED
  BY <1>1, Invariant, PTL

\* A subscriber that is not flagged has had the newest publication.
THEOREM NewestKept == Spec => []NothingLost
<1>1. IInv => NothingLost
  BY DEF IInv, DeliveryInv
<1> QED
  BY <1>1, Invariant, PTL

-----------------------------------------------------------------------------
(* Refinement: a subscription that gets a slot is a Join, the end of a publish *)
(* a Send, the end of a read a Take; every other step is invisible.            *)

Members == {s \in Subscribers : slot[s] # NoSlot}
Fresh == {s \in Subscribers : slot[s] \in pending}

LEMMA RefinesInit == Init => M!Init
BY ConstantFacts DEF Init, M!Init, Message, M!Message

LEMMA SameMessage == \A n : Message(n) = M!Message(n)
BY DEF Message, M!Message

LEMMA RefinesUntouched ==
  UNCHANGED <<slot, pending, sent, got>> => UNCHANGED M!vars
BY DEF M!vars

LEMMA RefinesSubscribe ==
  ASSUME IInv, NEW s \in Subscribers, Subscribe(s)
  PROVE  M!Join(s) \/ UNCHANGED M!vars
<1>0. TypeOK /\ ContentInv
  BY DEF IInv
<1>1. CASE UNCHANGED <<pending, slot>>
  BY <1>1, RefinesUntouched DEF Subscribe
<1>2. ASSUME NEW i \in Slots, FirstInactive(i), pending' = pending \ {i},
             slot' = [slot EXCEPT ![s] = i]
      PROVE  M!Join(s)
  <2>1. sent' = sent /\ got' = got
    BY DEF Subscribe
  <2>2. \A r \in Subscribers : slot'[r] = IF r = s THEN i ELSE slot[r]
    BY <1>0, <1>2 DEF TypeOK
  <2>3. slot[s] = NoSlot
    BY <1>0 DEF ContentInv, SlotInv, Subscribe
  <2>4. i \notin pending /\ i # NoSlot /\ NoSlot \notin pending
    BY <1>0, <1>2, ConstantFacts DEF TypeOK, FirstInactive
  <2>5. Members' = Members \cup {s}
    BY <2>2, <2>3, <2>4 DEF Members
  <2>6. Fresh' = Fresh
    BY <1>2, <2>2, <2>3, <2>4 DEF Fresh
  <2>7. s \in Subscribers \ Members
    BY <2>3 DEF Members
  <2> QED
    BY <2>1, <2>5, <2>6, <2>7 DEF M!Join, Members, Fresh
<1> QED
  BY <1>1, <1>2 DEF Subscribe

LEMMA RefinesPublish ==
  ASSUME IInv, NEW p \in Publishers, PublishDone(p)
  PROVE  M!Send
<1>1. TypeOK /\ ContentInv
  BY DEF IInv
<1>2. \A s \in Subscribers : slot[s] \in active <=> slot[s] # NoSlot
  BY <1>1, ConstantFacts DEF TypeOK, ContentInv, SlotInv
<1>3. Fresh' = Members /\ Members' = Members
  BY <1>2 DEF PublishDone, Fresh, Members
<1> QED
  BY <1>3 DEF PublishDone, M!Send, Fresh, Members

LEMMA RefinesRead ==
  ASSUME IInv, NEW s \in Subscribers, ReadDone(s)
  PROVE  M!Take(s)
<1>1. TypeOK /\ ContentInv
  BY DEF IInv
<1>2. got' = [got EXCEPT ![s] = M!Message(sent)]
  BY <1>1, WholeCopy, SameMessage DEF ReadDone
<1>3. slot[s] \in pending
  BY <1>1 DEF ContentInv, BufferInv, ReadDone
<1>4. \A r \in Subscribers : r # s => slot[r] # slot[s]
  BY <1>1, <1>3, OwnSlot, ConstantFacts DEF TypeOK
<1>5. s \in Fresh /\ Fresh' = Fresh \ {s} /\ Members' = Members
  BY <1>3, <1>4 DEF ReadDone, Fresh, Members
<1> QED
  BY <1>2, <1>5 DEF ReadDone, M!Take, Fresh, Members

LEMMA RefinesStep == IInv /\ [Next]_vars => [M!Next]_(M!vars)
<1> SUFFICES ASSUME IInv, [Next]_vars PROVE M!Next \/ UNCHANGED M!vars
  OBVIOUS
<1>1. ASSUME NEW s \in Subscribers, Subscribe(s) PROVE M!Next \/ UNCHANGED M!vars
  BY <1>1, RefinesSubscribe DEF M!Next
<1>2. ASSUME NEW p \in Publishers, PublishCall(p) PROVE UNCHANGED M!vars
  BY <1>2, RefinesUntouched DEF PublishCall
<1>3. ASSUME NEW p \in Publishers, PublishLock(p) PROVE UNCHANGED M!vars
  BY <1>3, RefinesUntouched DEF PublishLock
<1>4. ASSUME NEW p \in Publishers, PublishDropped(p) PROVE UNCHANGED M!vars
  BY <1>4, RefinesUntouched DEF PublishDropped
<1>5. ASSUME NEW p \in Publishers, NEW w \in Words, PublishWord(p, w) PROVE UNCHANGED M!vars
  BY <1>5, RefinesUntouched DEF PublishWord
<1>6. ASSUME NEW p \in Publishers, PublishDone(p) PROVE M!Next
  BY <1>6, RefinesPublish DEF M!Next
<1>7. ASSUME NEW s \in Subscribers, ReadCall(s) PROVE UNCHANGED M!vars
  BY <1>7, RefinesUntouched DEF ReadCall
<1>8. ASSUME NEW s \in Subscribers, ReadLock(s) PROVE UNCHANGED M!vars
  BY <1>8, RefinesUntouched DEF ReadLock
<1>9. ASSUME NEW s \in Subscribers, ReadEmpty(s) PROVE UNCHANGED M!vars
  BY <1>9, RefinesUntouched DEF ReadEmpty
<1>10. ASSUME NEW s \in Subscribers, ReadPending(s) PROVE UNCHANGED M!vars
  BY <1>10, RefinesUntouched DEF ReadPending
<1>11. ASSUME NEW s \in Subscribers, NEW w \in Words, ReadWord(s, w) PROVE UNCHANGED M!vars
  BY <1>11, RefinesUntouched DEF ReadWord
<1>12. ASSUME NEW s \in Subscribers, ReadDone(s) PROVE M!Next
  BY <1>12, RefinesRead DEF M!Next
<1>13. CASE UNCHANGED vars
  BY <1>13, RefinesUntouched DEF vars
<1> QED
  BY <1>1, <1>2, <1>3, <1>4, <1>5, <1>6, <1>7, <1>8, <1>9, <1>10, <1>11, <1>12, <1>13
  DEF Next, PublishStep, ReadStep

\* A topic is a set of one-place mailboxes: what services may rely on without
\* knowing of locks, slots or words.
THEOREM Implementation == Spec => ImplementsMailbox
<1>1. Init => M!Init
  BY RefinesInit
<1>2. IInv /\ [Next]_vars => [M!Next]_(M!vars)
  BY RefinesStep
<1> QED
  BY <1>1, <1>2, Invariant, PTL DEF Spec, ImplementsMailbox, M!Spec

-----------------------------------------------------------------------------
(* How long the lock is held.  A step of its owner is one of the steps       *)
(* inside; one of anybody else leaves the owner where it is.                 *)

LEMMA WordCopied ==
  ASSUME NEW done \in SUBSET Words, NEW w \in Words \ done
  PROVE  StepsLeft("copying", done \cup {w}) < StepsLeft("copying", done)
<1>1. IsFiniteSet(Words \ done)
  BY SizesAssumption, FS_Subset
<1>2. Words \ (done \cup {w}) = (Words \ done) \ {w}
  OBVIOUS
<1>3. /\ Cardinality((Words \ done) \ {w}) = Cardinality(Words \ done) - 1
      /\ Cardinality(Words \ done) \in Nat
  BY <1>1, FS_RemoveElement, FS_CardinalityType
<1>4. Cardinality((Words \ done) \ {w}) + 1 < Cardinality(Words \ done) + 1
  BY <1>3
<1> QED
  BY <1>2, <1>4 DEF StepsLeft

LEMMA FlagSeen == StepsLeft("copying", {}) < StepsLeft("locked", {})
<1>1. Words \ {} = Words /\ Cardinality(Words) \in Nat
  BY SizesAssumption, FS_CardinalityType
<1>2. StepsLeft("copying", {}) = Cardinality(Words) + 1
  BY <1>1 DEF StepsLeft
<1>3. StepsLeft("locked", {}) = Cardinality(Words) + 2
  BY DEF StepsLeft
<1> QED
  BY <1>1, <1>2, <1>3

OwnerKept == lock' = lock /\ pc'[lock] = pc[lock] /\ copied'[lock] = copied[lock]

OwnerNearer == /\ lock' = lock
               /\ StepsLeft(pc'[lock], copied'[lock]) < StepsLeft(pc[lock], copied[lock])

LEMMA HeldBriefly ==
  ASSUME TypeOK, LockInv, ContentInv, [Next]_vars, lock # NoThread
  PROVE  lock' = NoThread \/ OwnerKept \/ OwnerNearer
<1>0. /\ lock \in Threads /\ pc[lock] \in Holding
      /\ \A t \in Threads : pc[t] \in Holding => t = lock
      /\ pc \in [Threads -> {"new", "idle", "calling", "copying", "reading", "locked"}]
      /\ copied \in [Threads -> SUBSET Words]
  BY DEF TypeOK, LockInv, Ownership
<1>1. ASSUME NEW t \in Threads, pc[t] \notin Holding, lock' = lock, copied' = copied,
             \E v : pc' = [pc EXCEPT ![t] = v]
      PROVE  OwnerKept
  BY <1>0, <1>1 DEF OwnerKept
<1>2. ASSUME NEW t \in Threads, NEW w \in Words, pc[t] = "copying", w \notin copied[t],
             copied' = [copied EXCEPT ![t] = @ \cup {w}], UNCHANGED <<lock, pc>>
      PROVE  OwnerNearer
  <2>1. t = lock
    BY <1>0, <1>2 DEF Holding
  <2>2. copied'[lock] = copied[lock] \cup {w} /\ pc'[lock] = "copying" /\ w \in Words \ copied[lock]
    BY <1>0, <1>2, <2>1
  <2>3. StepsLeft("copying", copied[lock] \cup {w}) < StepsLeft("copying", copied[lock])
    BY <1>0, <2>2, WordCopied
  <2> QED
    BY <1>2, <2>1, <2>2, <2>3 DEF OwnerNearer
<1>3. ASSUME NEW p \in Publishers, PublishCall(p) \/ PublishDropped(p) PROVE OwnerKept
  BY <1>1, <1>3 DEF PublishCall, PublishDropped, Threads, Holding
<1>4. ASSUME NEW s \in Subscribers, ReadCall(s) PROVE OwnerKept
  BY <1>1, <1>4 DEF ReadCall, Threads, Holding
<1>5. ASSUME NEW p \in Publishers, NEW w \in Words, PublishWord(p, w) PROVE OwnerNearer
  BY <1>2, <1>5 DEF PublishWord, Threads
<1>6. ASSUME NEW s \in Subscribers, NEW w \in Words, ReadWord(s, w) PROVE OwnerNearer
  BY <1>2, <1>6 DEF ReadWord, Threads
<1>7. ASSUME NEW s \in Subscribers, ReadPending(s) PROVE OwnerNearer
  <2>1. s = lock /\ pc[lock] = "locked" /\ pc'[lock] = "copying" /\ UNCHANGED <<lock, copied>>
    BY <1>0, <1>7 DEF ReadPending, Threads, Holding
  <2>2. copied[lock] = {}
    BY <1>0, <2>1 DEF ContentInv, CopiedInv
  <2> QED
    BY <2>1, <2>2, FlagSeen DEF OwnerNearer
<1>8. ASSUME NEW p \in Publishers, PublishDone(p) PROVE lock' = NoThread
  BY <1>8 DEF PublishDone
<1>9. ASSUME NEW s \in Subscribers, ReadEmpty(s) \/ ReadDone(s) PROVE lock' = NoThread
  BY <1>9 DEF ReadEmpty, ReadDone
<1>10. ASSUME NEW t \in Threads, PublishLock(t) \/ Subscribe(t) \/ ReadLock(t) PROVE FALSE
  BY <1>10 DEF PublishLock, Subscribe, ReadLock
<1>11. CASE UNCHANGED vars
  BY <1>11 DEF vars, OwnerKept
<1> QED
  BY <1>3, <1>4, <1>5, <1>6, <1>7, <1>8, <1>9, <1>10, <1>11
  DEF Next, PublishStep, ReadStep, Threads

\* However many threads use the topic and whichever of them only try the lock:
\* its owner has it to itself until it gives it back, after a number of its own
\* steps that the size of the payload bounds.
THEOREM HeldForBoundedSteps == Spec => LockHeldBriefly
<1>1. TypeOK /\ LockInv /\ ContentInv /\ [Next]_vars =>
        [lock # NoThread =>
           \/ lock' = NoThread
           \/ /\ lock' = lock
              /\ \/ pc'[lock] = pc[lock] /\ copied'[lock] = copied[lock]
                 \/ StepsLeft(pc'[lock], copied'[lock]) < StepsLeft(pc[lock], copied[lock])]_vars
  BY HeldBriefly DEF OwnerKept, OwnerNearer
<1> QED
  BY <1>1, Invariant, PTL DEF Spec, IInv, LockHeldBriefly
=============================================================================
