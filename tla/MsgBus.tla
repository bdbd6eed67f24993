------------------------------- MODULE MsgBus -------------------------------
(***************************************************************************)
(* One created topic of common/src/msg.cpp: a payload and up to            *)
(* max_subscribers_per_topic slots behind one std::mutex.  The calls of    *)
(* the publishing and the reading threads are split where another thread   *)
(* can come in between: entering the call, taking the lock, each word of   *)
(* the memcpy, and the release.  Everything a call does between two of     *)
(* those points touches only what the lock protects, or thread-local data. *)
(*                                                                         *)
(* The topic is already created (create<T>() has its own hazards, listed   *)
(* in the README), and the arguments pass the null and size checks: the    *)
(* templates of msg.hpp always hand over &data and sizeof(T).              *)
(***************************************************************************)
EXTENDS Naturals, FiniteSets

CONSTANTS Publishers,       \* threads that publish the topic
          Blocking,         \* the publishers that pass publish_opts{true}
          Subscribers,      \* threads that subscribe and read it
          Words,            \* the units memcpy moves the payload in
          MaxSubs,          \* max_subscribers_per_topic
          MaxPublications,  \* bound: no publish call starts beyond it
          NoThread          \* the owner of a free lock

Threads == Publishers \cup Subscribers
NoSlot == 255               \* slot_idx of subscriber::invalid(), 0xFF
Slots == 0 .. MaxSubs - 1

ASSUME ThreadsAssumption == /\ Publishers \cap Subscribers = {}
                            /\ Blocking \subseteq Publishers
                            /\ NoThread \notin Threads
ASSUME SizesAssumption == /\ IsFiniteSet(Words) /\ Words # {}
                          /\ MaxSubs \in Nat /\ MaxSubs <= NoSlot
                          /\ MaxPublications \in Nat

VARIABLES lock,     \* topic_layout::lock: its owner or NoThread
          payload,  \* topic_layout::payload_bytes, word by word
          active,   \* the slots with subscriber_slot::active
          pending,  \* the slots with subscriber_slot::pending
          slot,     \* slot_idx of the handle each subscriber holds
          pc,       \* where each thread is in its call
          copied,   \* the words a thread's running memcpy has moved
          buf,      \* the buffer each subscriber passes to read
          sent,     \* auxiliary: publications completed
          got,      \* auxiliary: what each subscriber's last ok read returned
          joined    \* auxiliary: sent, at the time of the subscription

vars == <<lock, payload, active, pending, slot, pc, copied, buf, sent, got, joined>>

\* The n-th publication carries its number in every word.
Message(n) == [w \in Words |-> n]

Init == /\ lock = NoThread
        /\ payload = Message(0)
        /\ active = {}
        /\ pending = {}
        /\ slot = [s \in Subscribers |-> NoSlot]
        /\ pc = [t \in Threads |-> IF t \in Publishers THEN "idle" ELSE "new"]
        /\ copied = [t \in Threads |-> {}]
        /\ buf = [s \in Subscribers |-> Message(0)]
        /\ sent = 0
        /\ got = [s \in Subscribers |-> Message(0)]
        /\ joined = [s \in Subscribers |-> 0]

-----------------------------------------------------------------------------
(* subscribe: a scan for the first inactive slot, all of it under the lock. *)

FirstInactive(i) == i \notin active /\ \A j \in Slots : j < i => j \in active

\* Bug: the scan that finds no slot leaves the index one past the last.
Subscribe_IndexPastEnd(s) ==
  /\ pc[s] = "new"
  /\ lock = NoThread
  /\ pc' = [pc EXCEPT ![s] = "idle"]
  /\ \/ \E i \in Slots : /\ FirstInactive(i)
                          /\ active' = active \cup {i}
                          /\ slot' = [slot EXCEPT ![s] = i]
     \/ /\ Slots \subseteq active
        /\ slot' = [slot EXCEPT ![s] = MaxSubs]
        /\ UNCHANGED active
  /\ UNCHANGED <<lock, payload, pending, copied, buf, sent, got, joined>>

Subscribe(s) ==
  /\ pc[s] = "new"
  /\ lock = NoThread
  /\ pc' = [pc EXCEPT ![s] = "idle"]
  /\ \/ \E i \in Slots :
          /\ FirstInactive(i)
          /\ active' = active \cup {i}
          /\ pending' = pending \ {i}
          /\ slot' = [slot EXCEPT ![s] = i]
          /\ joined' = [joined EXCEPT ![s] = sent]
     \/ /\ Slots \subseteq active
        /\ UNCHANGED <<active, pending, slot, joined>>
  /\ UNCHANGED <<lock, payload, copied, buf, sent, got>>

-----------------------------------------------------------------------------
(* publish *)

PublishCall(p) ==
  /\ pc[p] = "idle"
  /\ sent < MaxPublications
  /\ pc' = [pc EXCEPT ![p] = "calling"]
  /\ UNCHANGED <<lock, payload, active, pending, slot, copied, buf, sent, got, joined>>

\* Bug: the result of try_lock() is not looked at.
PublishLock_Unchecked(p) ==
  /\ pc[p] = "calling"
  /\ p \in Blocking => lock = NoThread
  /\ lock' = p
  /\ pc' = [pc EXCEPT ![p] = "copying"]
  /\ UNCHANGED <<payload, active, pending, slot, copied, buf, sent, got, joined>>

\* guard.lock(), or a guard.try_lock() that succeeds.
PublishLock(p) ==
  /\ pc[p] = "calling"
  /\ lock = NoThread
  /\ lock' = p
  /\ pc' = [pc EXCEPT ![p] = "copying"]
  /\ UNCHANGED <<payload, active, pending, slot, copied, buf, sent, got, joined>>

\* Bug: lock() whatever opts.block says.
PublishDropped_Never(p) == FALSE /\ pc[p] = "calling" /\ UNCHANGED vars

\* A try_lock() that finds the lock taken: the publication is dropped.
PublishDropped(p) ==
  /\ pc[p] = "calling"
  /\ p \notin Blocking
  /\ lock # NoThread
  /\ pc' = [pc EXCEPT ![p] = "idle"]
  /\ UNCHANGED <<lock, payload, active, pending, slot, copied, buf, sent, got, joined>>

PublishWord(p, w) ==
  /\ pc[p] = "copying"
  /\ w \notin copied[p]
  /\ payload' = [payload EXCEPT ![w] = sent + 1]
  /\ copied' = [copied EXCEPT ![p] = @ \cup {w}]
  /\ UNCHANGED <<lock, active, pending, slot, pc, buf, sent, got, joined>>

\* Bug: the loop that flags the slots starts at 1.
PublishDone_SkipsFirst(p) ==
  /\ pc[p] = "copying"
  /\ copied[p] = Words
  /\ pending' = pending \cup (active \ {0})
  /\ sent' = sent + 1
  /\ lock' = NoThread
  /\ pc' = [pc EXCEPT ![p] = "idle"]
  /\ copied' = [copied EXCEPT ![p] = {}]
  /\ UNCHANGED <<payload, active, slot, buf, got, joined>>

\* Flags every active slot and releases the lock.
PublishDone(p) ==
  /\ pc[p] = "copying"
  /\ copied[p] = Words
  /\ pending' = active
  /\ sent' = sent + 1
  /\ lock' = NoThread
  /\ pc' = [pc EXCEPT ![p] = "idle"]
  /\ copied' = [copied EXCEPT ![p] = {}]
  /\ UNCHANGED <<payload, active, slot, buf, got, joined>>

-----------------------------------------------------------------------------
(* read *)

\* A handle that got no slot answers invalid_arg and never reaches the lock.
ReadCall(s) ==
  /\ pc[s] = "idle"
  /\ slot[s] # NoSlot
  /\ pc' = [pc EXCEPT ![s] = "reading"]
  /\ UNCHANGED <<lock, payload, active, pending, slot, copied, buf, sent, got, joined>>

ReadLock(s) ==
  /\ pc[s] = "reading"
  /\ lock = NoThread
  /\ lock' = s
  /\ pc' = [pc EXCEPT ![s] = "locked"]
  /\ UNCHANGED <<payload, active, pending, slot, copied, buf, sent, got, joined>>

\* Bug: an early return that skips the unlock.
ReadEmpty_KeepsLock(s) ==
  /\ pc[s] = "locked"
  /\ slot[s] \notin pending
  /\ pc' = [pc EXCEPT ![s] = "idle"]
  /\ UNCHANGED <<lock, payload, active, pending, slot, copied, buf, sent, got, joined>>

\* Nothing pending: status::error, the buffer keeps what it had.
ReadEmpty(s) ==
  /\ pc[s] = "locked"
  /\ slot[s] \notin pending
  /\ lock' = NoThread
  /\ pc' = [pc EXCEPT ![s] = "idle"]
  /\ UNCHANGED <<payload, active, pending, slot, copied, buf, sent, got, joined>>

ReadPending(s) ==
  /\ pc[s] = "locked"
  /\ slot[s] \in pending
  /\ pc' = [pc EXCEPT ![s] = "copying"]
  /\ UNCHANGED <<lock, payload, active, pending, slot, copied, buf, sent, got, joined>>

ReadWord(s, w) ==
  /\ pc[s] = "copying"
  /\ w \notin copied[s]
  /\ buf' = [buf EXCEPT ![s][w] = payload[w]]
  /\ copied' = [copied EXCEPT ![s] = @ \cup {w}]
  /\ UNCHANGED <<lock, payload, active, pending, slot, pc, sent, got, joined>>

\* Bug: the flag stays up, the same message is delivered again.
ReadDone_KeepsPending(s) ==
  /\ pc[s] = "copying"
  /\ copied[s] = Words
  /\ got' = [got EXCEPT ![s] = buf[s]]
  /\ lock' = NoThread
  /\ pc' = [pc EXCEPT ![s] = "idle"]
  /\ copied' = [copied EXCEPT ![s] = {}]
  /\ UNCHANGED <<payload, active, pending, slot, buf, sent, joined>>

ReadDone(s) ==
  /\ pc[s] = "copying"
  /\ copied[s] = Words
  /\ pending' = pending \ {slot[s]}
  /\ got' = [got EXCEPT ![s] = buf[s]]
  /\ lock' = NoThread
  /\ pc' = [pc EXCEPT ![s] = "idle"]
  /\ copied' = [copied EXCEPT ![s] = {}]
  /\ UNCHANGED <<payload, active, slot, buf, sent, joined>>

-----------------------------------------------------------------------------
PublishStep(p) == \/ PublishLock(p) \/ PublishDropped(p) \/ PublishDone(p)
                  \/ \E w \in Words : PublishWord(p, w)

ReadStep(s) == \/ ReadLock(s) \/ ReadEmpty(s) \/ ReadPending(s) \/ ReadDone(s)
               \/ \E w \in Words : ReadWord(s, w)

Next == \/ \E p \in Publishers : PublishCall(p) \/ PublishStep(p)
        \/ \E s \in Subscribers : Subscribe(s) \/ ReadCall(s) \/ ReadStep(s)

Spec == Init /\ [][Next]_vars

\* A thread inside a call keeps running; nobody has to start a call, and the
\* mutex serves its waiters in no particular order (no strong fairness).
FairSpec == /\ Spec
            /\ \A p \in Publishers : WF_vars(PublishStep(p))
            /\ \A s \in Subscribers : WF_vars(ReadStep(s))

-----------------------------------------------------------------------------
(* Properties *)

TypeOK ==
  /\ lock \in Threads \cup {NoThread}
  /\ sent \in Nat
  /\ payload \in [Words -> Nat]
  /\ active \subseteq Slots /\ pending \subseteq active
  /\ slot \in [Subscribers -> Slots \cup {NoSlot}]
  /\ pc \in [Threads -> {"new", "idle", "calling", "copying", "reading", "locked"}]
  /\ copied \in [Threads -> SUBSET Words]
  /\ buf \in [Subscribers -> [Words -> Nat]]
  /\ got \in [Subscribers -> [Words -> Nat]]
  /\ joined \in [Subscribers -> Nat]

\* A read that answers ok hands out one publication as a whole, never words of
\* two: neither the publisher's memcpy nor the reader's runs while the other
\* does, with try_lock publishers among the threads.
NoTornDelivery ==
  \A s \in Subscribers : \E n \in 0 .. sent : got[s] = Message(n)

\* A flagged slot holds a publication its subscriber has not had: nothing is
\* delivered twice, and a subscription does not inherit an earlier flag.
PendingIsUnread ==
  \A s \in Subscribers :
    slot[s] \in pending => got[s] # Message(sent) /\ joined[s] < sent

\* A subscriber with nothing flagged has had the newest publication, or there
\* was none since it subscribed: a read racing a publish never eats the flag.
NothingLost ==
  \A s \in Subscribers :
    slot[s] \notin pending \cup {NoSlot} =>
      got[s] = Message(sent) \/ joined[s] = sent

\* The topic implements the one-place mailboxes of Mailbox: a completed publish
\* is a send, a completed read of a flagged slot a take.
M == INSTANCE Mailbox WITH
       members <- {s \in Subscribers : slot[s] # NoSlot},
       fresh <- {s \in Subscribers : slot[s] \in pending}
ImplementsMailbox == M!Spec

\* The steps a thread inside the critical section has to go: the look at its
\* flag, the words not copied yet, the release.
StepsLeft(where, done) == IF where = "locked" THEN Cardinality(Words) + 2
                          ELSE Cardinality(Words \ done) + 1

\* The lock is held for a bounded number of its owner's own steps: nobody takes
\* it away or makes the owner start again, and each step of the owner gives it
\* back or comes nearer to that.
LockHeldBriefly ==
  [][lock # NoThread =>
       \/ lock' = NoThread
       \/ /\ lock' = lock
          /\ \/ pc'[lock] = pc[lock] /\ copied'[lock] = copied[lock]
             \/ StepsLeft(pc'[lock], copied'[lock]) < StepsLeft(pc[lock], copied[lock])]_vars

\* Every path through a call, early returns included, gives the lock back.
LockReleased == lock # NoThread ~> lock = NoThread

\* A publish with block = false returns, however busy the topic is.
NonBlockingReturns ==
  \A p \in Publishers \ Blocking : pc[p] = "calling" ~> pc[p] = "idle"
=============================================================================
