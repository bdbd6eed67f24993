------------------------------- MODULE Startup -------------------------------
(***************************************************************************)
(* The life of the process: main() builds controller_app, whose members    *)
(* are the simulator link and six services, runs until a signal, and takes *)
(* them down in reverse.  A service starts its thread before its           *)
(* subscribers are built, and the eCAL handlers run from the link's        *)
(* construction on, so subscriptions, publications and the creation of     *)
(* topics inside create<T>() overlap.  create<T>() tests and sets          *)
(* storage.created without a lock; its plain loads and stores are          *)
(* interleaved here in program order.                                      *)
(***************************************************************************)
EXTENDS Naturals, Sequences

VARIABLES
  mainPc, n, k,     \* main(): its phase, the service it is at, the subscriber
  thread,           \* the thread of each service
  running,          \* controller_app::running_
  ioValid, io,      \* ecal_io: did the client start; is it open or stopped
  crashed,          \* a read through garbage memory has killed the process
  created, linked,  \* the topics with storage.created, and with handle.layout
  making,           \* the topic whose storage.created a thread has seen false
  clearing,         \* the threads that have yet to reset its slots
  active,           \* per topic, the active slots
  handle,           \* the slot of each subscriber, NoSlot if it got none
  built,            \* the subscribers main has stored
  reached           \* the awaited subscribers that a publication was flagged for

topics == <<created, linked, making, clearing, active>>
subscribers == <<handle, built, reached>>
process == <<thread, running, ioValid, io, crashed>>
vars == <<mainPc, n, k, process, topics, subscribers>>

\* Bug: the actuator is declared last and so built last.
Order_ActuatorLast == <<"ins", "command", "chassis", "log", "visualizer", "actuator">>

\* The services in the order of controller_app's members.
Order == <<"actuator", "ins", "command", "chassis", "log", "visualizer">>
Services == {Order[i] : i \in DOMAIN Order}

Subs == [actuator |-> <<"motor">>, ins |-> <<"raw">>,
         command |-> <<"pendulum", "ins", "input">>, chassis |-> <<"raw", "ins", "cmd">>,
         log |-> <<"log">>, visualizer |-> <<"log">>]
Subscribers == UNION {{<<s, Subs[s][i]>> : i \in DOMAIN Subs[s]} : s \in Services}

\* Who publishes what, and what a loop must have read before it publishes.
Handlers == {"state", "input"}
Publishes == [state |-> {"raw"}, input |-> {"input"}, ins |-> {"ins"}, command |-> {"cmd"},
              chassis |-> {"motor", "pendulum", "log"}]
Publishers == DOMAIN Publishes
Needs == [state |-> {}, input |-> {}, ins |-> {"raw"}, command |-> {},
          chassis |-> {"raw", "ins", "cmd"}]
Awaited == {b \in Subscribers : b[1] \in Publishers /\ b[2] \in Needs[b[1]]}

Topics == {"motor", "raw", "pendulum", "ins", "input", "cmd", "log"}
Creators == Publishers \cup {"main"}
None == "none"
NoSlot == 255
Slots == 0 .. 7

Init == /\ mainPc = "spawn" /\ n = 1 /\ k = 1
        /\ thread = [s \in Services |-> "none"]
        /\ running = TRUE
        /\ ioValid \in BOOLEAN /\ io = "open"
        /\ crashed = FALSE
        /\ created = {} /\ linked = {}
        /\ making = [c \in Creators |-> None] /\ clearing = {}
        /\ active = [t \in Topics |-> {}]
        /\ handle = [b \in Subscribers |-> NoSlot]
        /\ built = {} /\ reached = {}

-----------------------------------------------------------------------------
(* create<T>(): the test, the reset of the storage, the handle.  A thread    *)
(* that finds the topic created goes straight on to what it wants of it.     *)

Test(c, t) == /\ making[c] = None
              /\ t \notin created
              /\ making' = [making EXCEPT ![c] = t]
              /\ clearing' = clearing \cup {c}
              /\ UNCHANGED <<created, linked, active>>

Clear(c) == /\ ~crashed
            /\ c \in clearing
            /\ active' = [active EXCEPT ![making[c]] = {}]
            /\ created' = created \cup {making[c]}
            /\ clearing' = clearing \ {c}
            /\ UNCHANGED <<mainPc, n, k, process, linked, making, subscribers>>

Link(c) == /\ ~crashed
           /\ making[c] # None
           /\ c \notin clearing
           /\ linked' = linked \cup {making[c]}
           /\ making' = [making EXCEPT ![c] = None]
           /\ UNCHANGED <<mainPc, n, k, process, created, clearing, active, subscribers>>

-----------------------------------------------------------------------------
(* main(): a service's thread, then its subscribers one by one. *)

Service == Order[n]
Topic == Subs[Service][k]

Spawn == /\ ~crashed
         /\ mainPc = "spawn"
         /\ thread' = [thread EXCEPT ![Service] = "running"]
         /\ mainPc' = "subscribe"
         /\ UNCHANGED <<n, k, running, ioValid, io, crashed, topics, subscribers>>

\* After the last service the constructor's body clears running_ if there is
\* no link, and main() goes to its run loop.
Advance ==
  \/ /\ k < Len(Subs[Service])
     /\ k' = k + 1
     /\ UNCHANGED <<mainPc, n, running>>
  \/ /\ k = Len(Subs[Service]) /\ n < Len(Order)
     /\ n' = n + 1 /\ k' = 1 /\ mainPc' = "spawn"
     /\ UNCHANGED running
  \/ /\ k = Len(Subs[Service]) /\ n = Len(Order)
     /\ mainPc' = "run"
     /\ running' = ioValid
     /\ UNCHANGED <<n, k>>

SubscribeCreates == /\ ~crashed
                    /\ mainPc = "subscribe"
                    /\ Test("main", Topic)
                    /\ UNCHANGED <<mainPc, n, k, process, subscribers>>

FirstInactive(i) == i \notin active[Topic] /\ \A j \in Slots : j < i => j \in active[Topic]

\* With handle.layout still null the subscription is refused, for good.
Subscribe ==
  /\ ~crashed
  /\ mainPc = "subscribe"
  /\ Topic \in created /\ making["main"] = None
  /\ \/ /\ Topic \in linked
        /\ \E i \in Slots : /\ FirstInactive(i)
                            /\ active' = [active EXCEPT ![Topic] = @ \cup {i}]
                            /\ handle' = [handle EXCEPT ![<<Service, Topic>>] = i]
     \/ /\ Topic \notin linked
        /\ UNCHANGED <<active, handle>>
  /\ built' = built \cup {<<Service, Topic>>}
  /\ Advance
  /\ UNCHANGED <<thread, ioValid, io, crashed, created, linked, making, clearing, reached>>

Signal == /\ ~crashed
          /\ mainPc = "run" /\ running
          /\ running' = FALSE
          /\ UNCHANGED <<mainPc, n, k, thread, ioValid, io, crashed, topics, subscribers>>

RunEnds == /\ ~crashed
           /\ mainPc = "run" /\ ~running
           /\ mainPc' = "join"
           /\ UNCHANGED <<n, k, process, topics, subscribers>>

\* Bug: the destructor lets the thread go instead of joining it.
Join_Detaches == /\ ~crashed
                 /\ mainPc = "join"
                 /\ n' = IF n > 1 THEN n - 1 ELSE n
                 /\ mainPc' = IF n > 1 THEN "join" ELSE "stop"
                 /\ UNCHANGED <<k, process, topics, subscribers>>

\* The destructors run in the reverse order, the link's last.
Join == /\ ~crashed
        /\ mainPc = "join"
        /\ thread[Service] = "exited"
        /\ thread' = [thread EXCEPT ![Service] = "joined"]
        /\ n' = IF n > 1 THEN n - 1 ELSE n
        /\ mainPc' = IF n > 1 THEN "join" ELSE "stop"
        /\ UNCHANGED <<k, running, ioValid, io, crashed, topics, subscribers>>

Stop == /\ ~crashed
        /\ mainPc = "stop"
        /\ mainPc' = "done"
        /\ io' = "stopped"
        /\ UNCHANGED <<n, k, thread, running, ioValid, crashed, topics, subscribers>>

-----------------------------------------------------------------------------
(* The handlers and the loops *)

\* A loop reads its subscribers in every round, built or not.  Unbuilt memory
\* may hold a refused handle, which changes nothing, or a wild pointer.
EarlyRead(s) == /\ ~crashed
                /\ thread[s] = "running" /\ running
                /\ \E b \in Subscribers \ built : b[1] = s
                /\ crashed' = TRUE
                /\ UNCHANGED <<mainPc, n, k, thread, running, ioValid, io, topics, subscribers>>

\* A handler publishes while the link is up; a loop in a round in which it has
\* read what it needs.
CanPublish(p) ==
  IF p \in Handlers THEN ioValid /\ io = "open"
  ELSE thread[p] = "running" /\ \A t \in Needs[p] : <<p, t>> \in reached

PublishCreates(p) == /\ ~crashed
                     /\ CanPublish(p)
                     /\ \E t \in Publishes[p] : Test(p, t)
                     /\ UNCHANGED <<mainPc, n, k, process, subscribers>>

\* Flags the active slots; with handle.layout still null nothing is done.
Publish(p) ==
  /\ ~crashed
  /\ CanPublish(p) /\ making[p] = None
  /\ \E t \in Publishes[p] \cap created \cap linked :
       reached' = reached \cup {b \in Awaited \cap built : b[2] = t /\ handle[b] \in active[t]}
  /\ UNCHANGED <<mainPc, n, k, process, topics, handle, built>>

\* Bug: the loop waits for a message without looking at running_.
Exit_WaitsForMessage(s) ==
  /\ ~crashed
  /\ thread[s] = "running" /\ ~running
  /\ s \in Publishers => making[s] = None
  /\ \E b \in built : b[1] = s /\ handle[b] \in active[b[2]]
  /\ thread' = [thread EXCEPT ![s] = "exited"]
  /\ UNCHANGED <<mainPc, n, k, running, ioValid, io, crashed, topics, subscribers>>

\* Every loop tests running_ once a round, and every wait in it has a timeout.
Exit(s) ==
  /\ ~crashed
  /\ thread[s] = "running" /\ ~running
  /\ s \in Publishers => making[s] = None
  /\ thread' = [thread EXCEPT ![s] = "exited"]
  /\ UNCHANGED <<mainPc, n, k, running, ioValid, io, crashed, topics, subscribers>>

\* The visualizer's loop may also end at once: no socket, or port 2000 taken.
NoServer == /\ ~crashed
            /\ thread["visualizer"] = "running"
            /\ thread' = [thread EXCEPT !["visualizer"] = "exited"]
            /\ UNCHANGED <<mainPc, n, k, running, ioValid, io, crashed, topics, subscribers>>

-----------------------------------------------------------------------------
Main == Spawn \/ SubscribeCreates \/ Subscribe \/ RunEnds \/ Join \/ Stop

Next == \/ Main \/ Signal \/ NoServer
        \/ \E c \in Creators : Clear(c) \/ Link(c)
        \/ \E s \in Services : EarlyRead(s) \/ Exit(s)
        \/ \E p \in Publishers : PublishCreates(p) \/ Publish(p)

Spec == Init /\ [][Next]_vars

-----------------------------------------------------------------------------
(* Properties *)

TypeOK ==
  /\ mainPc \in {"spawn", "subscribe", "run", "join", "stop", "done"}
  /\ n \in 1 .. Len(Order) /\ k \in 1 .. Len(Subs[Service])
  /\ thread \in [Services -> {"none", "running", "exited", "joined"}]
  /\ running \in BOOLEAN /\ ioValid \in BOOLEAN /\ io \in {"open", "stopped"}
  /\ crashed \in BOOLEAN
  /\ created \subseteq Topics /\ linked \subseteq created
  /\ making \in [Creators -> Topics \cup {None}] /\ clearing \subseteq Creators
  /\ active \in [Topics -> SUBSET Slots]
  /\ handle \in [Subscribers -> Slots \cup {NoSlot}]
  /\ built \subseteq Subscribers /\ reached \subseteq built

\* A subscriber that was built owns a slot that is flagged by publications.
Kept(b) == b \in built => handle[b] \in active[b[2]]

\* The motor command and the pendulum cannot be lost to the race of create<T>():
\* both are subscribed before the only thread that publishes them exists.
MotorSlotKept == Kept(<<"actuator", "motor">>) /\ Kept(<<"command", "pendulum">>)

\* The link is taken down only after the threads that use it have ended.
IoOutlivesUsers ==
  io = "stopped" => \A s \in {"actuator", "ins"} : thread[s] = "joined"

\* Once running_ is cleared the process ends: no loop waits for ever, no join
\* waits for a thread that waits for main().
ShutsDown == ~running ~> mainPc = "done" \/ crashed

\* The topics a thread may still come to create while nobody else has.
Uncreated == {q \in Publishers \X Topics :
                q[2] \in Publishes[q[1]] \ created /\ making[q[1]] # q[2]}

\* What is left to do when running_ has been cleared: the end of the run loop and
\* of the link, for each thread its end and its join, and in between what the
\* last round of a loop or a handler may have to create.
Left == (IF mainPc = "run" THEN {<<"run", "main">>} ELSE {})
        \cup (IF mainPc # "done" THEN {<<"stop", "main">>} ELSE {})
        \cup {<<"exit", s>> : s \in {s \in Services : thread[s] = "running"}}
        \cup {<<"join", s>> : s \in {s \in Services : thread[s] # "joined"}}
        \cup ({"test", "clear", "link"} \X Uncreated)
        \cup {<<"clear", <<c, making[c]>>>> : c \in clearing}
        \cup {<<"link", <<c, making[c]>>>> : c \in {c \in Creators : making[c] # None}}

\* The shut-down is bounded: once running_ is cleared it stays so, and whoever
\* takes a step, publishing apart, has one thing less to do and nobody more.
EndsInSteps ==
  [][~running => /\ ~running'
                 /\ \/ Left' \subseteq Left /\ Left' # Left
                    \/ UNCHANGED <<mainPc, n, k, process, topics, handle, built>>]_vars

\* What the README says: "The controller reads the keyboard snapshot", so the
\* subscription to it must not be lost.
KeyboardHeard == Kept(<<"command", "input">>)
=============================================================================
