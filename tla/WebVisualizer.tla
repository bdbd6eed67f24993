---------------------------- MODULE WebVisualizer ----------------------------
(***************************************************************************)
(* web_visualizer_service: the page on port 2000 and its stream of events. *)
(* One thread accepts, answers and feeds every viewer, through sockets     *)
(* that never block: whatever the viewers do it has to come back to the    *)
(* log, drop those that are gone, and stop with the application.           *)
(*                                                                         *)
(* External: the kernel's sockets and the browsers.  A connection is a     *)
(* TCP connection; a browser that comes back is another one.  An event is  *)
(* two units of a send buffer, so that a full buffer can cut one in half.  *)
(***************************************************************************)
EXTENDS Naturals, Sequences, FiniteSets, SequencesExt, FiniteSetsExt

CONSTANTS Conns,    \* bound: the connections ever made
          NoConn,   \* none of them
          Room,     \* units a connection's send buffer takes
          Divider   \* log samples per event, 20 in the code

ASSUME WebAssumption ==
    /\ IsFiniteSet(Conns) /\ NoConn \notin Conns
    /\ Room \in Nat /\ Divider \in Nat \ {0}

VARIABLES
    pc,        \* where loop() is
    running,   \* the application's flag, cleared once
    fresh,     \* sub_log_ holds a sample not read yet
    divider,   \* publish_divider
    clients,   \* the vector of subscribed sockets
    cur,       \* the socket being answered
    at,        \* the iterator over clients
    sock,      \* what each connection is to this process
    backlog,   \* the listening socket's queue
    peer,      \* what the browser at the other end does
    asked,     \* the request that has arrived
    buf        \* units sent and not read yet

server  == <<pc, running, fresh, divider, clients, cur, at>>
network == <<sock, backlog, peer, asked, buf>>
vars    == <<pc, running, fresh, divider, clients, cur, at,
             sock, backlog, peer, asked, buf>>

EventUnits == 2

WebInit ==
    /\ pc \in {"accept", "done"}        \* "done": the port is taken
    /\ running = TRUE /\ fresh = FALSE /\ divider = 0
    /\ clients = <<>> /\ cur = NoConn /\ at = 1
    /\ sock = [c \in Conns |-> "new"]
    /\ backlog = <<>>
    /\ peer = [c \in Conns |-> "reading"]
    /\ asked = [c \in Conns |-> "nothing"]
    /\ buf = [c \in Conns |-> 0]

-----------------------------------------------------------------------------
(***************************************************************************)
(* External: browsers, the kernel, the control loop.                       *)
(***************************************************************************)
Connect(c) ==
    /\ pc # "done" /\ sock[c] = "new"
    /\ sock' = [sock EXCEPT ![c] = "queued"]
    /\ backlog' = Append(backlog, c)
    /\ UNCHANGED <<peer, asked, buf>> /\ UNCHANGED server

\* The request need not be there when the connection is.
Ask(c, what) ==
    /\ sock[c] \in {"queued", "open"} /\ asked[c] = "nothing"
    /\ peer[c] = "reading"
    /\ asked' = [asked EXCEPT ![c] = what]
    /\ UNCHANGED <<sock, backlog, peer, buf>> /\ UNCHANGED server

Stall(c) ==
    /\ sock[c] \in {"queued", "open"} /\ peer[c] \in {"reading", "stalled"}
    /\ peer' = [peer EXCEPT ![c] = IF @ = "reading" THEN "stalled" ELSE "reading"]
    /\ UNCHANGED <<sock, backlog, asked, buf>> /\ UNCHANGED server

Leave(c) ==
    /\ sock[c] \in {"queued", "open"} /\ peer[c] \in {"reading", "stalled"}
    /\ peer' = [peer EXCEPT ![c] = "left"]
    /\ UNCHANGED <<sock, backlog, asked, buf>> /\ UNCHANGED server

\* The kernel learns that nobody is there: an RST, or no answer for too long.
Reset(c) ==
    /\ peer[c] = "left"
    /\ peer' = [peer EXCEPT ![c] = "reset"]
    /\ UNCHANGED <<sock, backlog, asked, buf>> /\ UNCHANGED server

Drain(c) ==
    /\ peer[c] = "reading" /\ buf[c] > 0
    /\ buf' = [buf EXCEPT ![c] = 0]
    /\ UNCHANGED <<sock, backlog, peer, asked>> /\ UNCHANGED server

Sample ==
    /\ running /\ ~fresh
    /\ fresh' = TRUE
    /\ UNCHANGED <<pc, running, divider, clients, cur, at>> /\ UNCHANGED network

Stop ==
    /\ running
    /\ running' = FALSE
    /\ UNCHANGED <<pc, fresh, divider, clients, cur, at>> /\ UNCHANGED network

-----------------------------------------------------------------------------
(***************************************************************************)
(* send_text.                                                              *)
(***************************************************************************)
\* Mutant of SendFails: an error of send is passed over like a full buffer.
SendFails_Never(c) == FALSE

\* The only failure is a connection known to be gone: a full buffer is none,
\* and what did not fit is forgotten.
SendFails(c) == peer[c] = "reset"

Sent(c, units) == [buf EXCEPT ![c] = Min({@ + units, Room})]

Closed(c) == [sock EXCEPT ![c] = "closed"]

(***************************************************************************)
(* loop().                                                                 *)
(***************************************************************************)
Accept ==
    /\ pc = "accept" /\ backlog # <<>>
    /\ cur' = Head(backlog)
    /\ backlog' = Tail(backlog)
    /\ sock' = [sock EXCEPT ![Head(backlog)] = "open"]
    /\ pc' = "recv"
    /\ UNCHANGED <<running, fresh, divider, clients, at, peer, asked, buf>>

\* Nobody is waiting, or accept fails for another reason and leaves the queue:
\* the loop does not tell the two apart.
AcceptNone ==
    /\ pc = "accept"
    /\ pc' = "read"
    /\ UNCHANGED <<running, fresh, divider, clients, cur, at>> /\ UNCHANGED network

\* A request not there yet, or never to come, costs the connection.
Recv ==
    /\ pc = "recv"
    /\ \/ /\ asked[cur] = "nothing" \/ peer[cur] = "reset"
          /\ sock' = Closed(cur) /\ cur' = NoConn
          /\ pc' = "accept"
       \/ /\ asked[cur] # "nothing" /\ peer[cur] # "reset"
          /\ pc' = IF asked[cur] = "events" THEN "header" ELSE "page"
          /\ UNCHANGED <<sock, cur>>
    /\ UNCHANGED <<running, fresh, divider, clients, at, backlog, peer, asked, buf>>

\* Mutant of SendHeader: the socket is not closed when its header fails.
SendHeader_NoClose ==
    /\ pc = "header"
    /\ IF SendFails(cur)
       THEN UNCHANGED <<clients, buf>>
       ELSE clients' = Append(clients, cur) /\ buf' = Sent(cur, 1)
    /\ cur' = NoConn
    /\ pc' = "accept"
    /\ UNCHANGED <<running, fresh, divider, at, sock, backlog, peer, asked>>

SendHeader ==
    /\ pc = "header"
    /\ IF SendFails(cur)
       THEN sock' = Closed(cur) /\ UNCHANGED <<clients, buf>>
       ELSE /\ clients' = Append(clients, cur)
            /\ buf' = Sent(cur, 1)
            /\ UNCHANGED sock
    /\ cur' = NoConn
    /\ pc' = "accept"
    /\ UNCHANGED <<running, fresh, divider, at, backlog, peer, asked>>

SendPage ==
    /\ pc = "page"
    /\ buf' = IF SendFails(cur) THEN buf ELSE Sent(cur, Room)
    /\ sock' = Closed(cur)
    /\ cur' = NoConn
    /\ pc' = "accept"
    /\ UNCHANGED <<running, fresh, divider, clients, at, backlog, peer, asked>>

\* Bug: the count starts again when a round finds no new sample.
ReadLog_InARow ==
    /\ pc = "read"
    /\ fresh' = FALSE
    /\ IF fresh /\ divider + 1 >= Divider
       THEN divider' = 0 /\ at' = 1 /\ pc' = "send"
       ELSE /\ divider' = IF fresh THEN divider + 1 ELSE 0
            /\ pc' = "sleep"
            /\ UNCHANGED at
    /\ UNCHANGED <<running, clients, cur>> /\ UNCHANGED network

\* The divider counts the samples read, not the rounds of the loop.
ReadLog ==
    /\ pc = "read"
    /\ fresh' = FALSE
    /\ IF fresh /\ divider + 1 >= Divider
       THEN divider' = 0 /\ at' = 1 /\ pc' = "send"
       ELSE /\ divider' = IF fresh THEN divider + 1 ELSE divider
            /\ pc' = "sleep"
            /\ UNCHANGED at
    /\ UNCHANGED <<running, clients, cur>> /\ UNCHANGED network

\* Mutant of SendEvent: the socket blocks until the event fits.
SendEvent_Blocks ==
    /\ pc = "send" /\ at <= Len(clients)
    /\ LET c == clients[at]
       IN  IF SendFails(c)
           THEN /\ sock' = Closed(c)
                /\ clients' = RemoveAt(clients, at)
                /\ UNCHANGED <<at, buf>>
           ELSE /\ buf[c] + EventUnits <= Room
                /\ buf' = Sent(c, EventUnits)
                /\ at' = at + 1
                /\ UNCHANGED <<sock, clients>>
    /\ UNCHANGED <<pc, running, fresh, divider, cur, backlog, peer, asked>>

SendEvent ==
    /\ pc = "send" /\ at <= Len(clients)
    /\ LET c == clients[at]
       IN  IF SendFails(c)
           THEN /\ sock' = Closed(c)
                /\ clients' = RemoveAt(clients, at)
                /\ UNCHANGED <<at, buf>>
           ELSE /\ buf' = Sent(c, EventUnits)
                /\ at' = at + 1
                /\ UNCHANGED <<sock, clients>>
    /\ UNCHANGED <<pc, running, fresh, divider, cur, backlog, peer, asked>>

SentAll ==
    /\ pc = "send" /\ at > Len(clients)
    /\ pc' = "sleep" /\ at' = 1
    /\ UNCHANGED <<running, fresh, divider, clients, cur>> /\ UNCHANGED network

\* Bug: the loop goes on as long as somebody is watching.
Sleep_WhileWatched ==
    /\ pc = "sleep"
    /\ pc' = IF running \/ clients # <<>> THEN "accept" ELSE "close"
    /\ UNCHANGED <<running, fresh, divider, clients, cur, at>> /\ UNCHANGED network

\* sleep_until_tick, and the loop's condition after it.
Sleep ==
    /\ pc = "sleep"
    /\ pc' = IF running THEN "accept" ELSE "close"
    /\ UNCHANGED <<running, fresh, divider, clients, cur, at>> /\ UNCHANGED network

\* Closing the listening socket resets what it had not accepted.
CloseAll ==
    /\ pc = "close"
    /\ sock' = [c \in Conns |-> IF c \in Range(clients) \cup Range(backlog)
                                THEN "closed" ELSE sock[c]]
    /\ clients' = <<>> /\ backlog' = <<>>
    /\ pc' = "done"
    /\ UNCHANGED <<running, fresh, divider, cur, at, peer, asked, buf>>

Loop ==
    \/ Accept \/ AcceptNone \/ Recv \/ SendHeader \/ SendPage
    \/ ReadLog \/ SendEvent \/ SentAll \/ Sleep \/ CloseAll

Browser(c) ==
    \/ Connect(c) \/ Stall(c) \/ Leave(c) \/ Reset(c) \/ Drain(c)
    \/ \E what \in {"events", "page"} : Ask(c, what)

Next == Loop \/ Sample \/ Stop \/ (\E c \in Conns : Browser(c))

(***************************************************************************)
(* The thread is scheduled; the control loop logs while it runs; a viewer  *)
(* that reads goes on reading; the kernel finds out that a peer is gone.   *)
(***************************************************************************)
Spec == WebInit /\ [][Next]_vars

FairSpec ==
    /\ Spec
    /\ WF_vars(Loop)
    /\ WF_vars(Sample)
    /\ \A c \in Conns : WF_vars(Reset(c)) /\ WF_vars(Drain(c))

-----------------------------------------------------------------------------
(***************************************************************************)
(* Properties.                                                             *)
(***************************************************************************)

TypeOK ==
    /\ pc \in {"accept", "recv", "header", "page", "read", "send", "sleep", "close", "done"}
    /\ running \in BOOLEAN /\ fresh \in BOOLEAN
    /\ divider \in 0 .. Divider - 1
    /\ clients \in Seq(Conns) /\ backlog \in Seq(Conns)
    /\ cur \in Conns \cup {NoConn} /\ at \in Nat \ {0}
    /\ sock \in [Conns -> {"new", "queued", "open", "closed"}]
    /\ peer \in [Conns -> {"reading", "stalled", "left", "reset"}]
    /\ asked \in [Conns -> {"nothing", "events", "page"}]
    /\ buf \in [Conns -> 0 .. Room]

\* Every socket the process holds is subscribed, once, or being answered, and
\* no subscription outlives its socket: no descriptor leaks, and none is used
\* after close, when the kernel may have given its number to somebody else.
NoLeak ==
    /\ {c \in Conns : sock[c] = "open"} =
           Range(clients) \cup (IF cur = NoConn THEN {} ELSE {cur})
    /\ Cardinality(Range(clients)) = Len(clients)
    /\ cur \notin Range(clients)
    /\ (pc = "done") => \A c \in Conns : sock[c] \in {"new", "closed"}

\* A viewer that leaves costs a descriptor for a while only.
GoneDropped ==
    \A c \in Conns : (sock[c] = "open" /\ peer[c] = "left") ~> (sock[c] = "closed")

\* Whatever the viewers do, stalled and gone ones included, the thread ends
\* once the application stops: ~web_visualizer_service joins it.
Joins == ~running ~> (pc = "done")

\* The connections not accepted yet, those still to come among them.
Coming == Cardinality({c \in Conns : sock[c] \in {"new", "queued"}})

\* The clients the iterator has not come to.
Unsent == Len(clients) + 1 - at

\* The steps the thread may still have to go after the stop: three for each
\* connection, the log, an event for every client, and the way out.
StepsLeft(where, coming, unsent) ==
    LET serving == [accept |-> 0, page |-> 1, header |-> 1, recv |-> 2]
        leaving == [done |-> 0, close |-> 1, sleep |-> 2]
    IN  IF where \in DOMAIN serving THEN serving[where] + 3 * coming + Cardinality(Conns) + 5
        ELSE IF where = "read" THEN Cardinality(Conns) + 4
        ELSE IF where = "send" THEN unsent + 3
        ELSE leaving[where]

\* Once the application stops every step of the thread brings it nearer to its
\* end, and no browser sets it back: the ones that connect late are counted.
StopsSoon ==
    [][~running => \/ StepsLeft(pc', Coming', Unsent') < StepsLeft(pc, Coming, Unsent)
                   \/ UNCHANGED <<server, Coming>>]_vars

\* A subscribed viewer that keeps reading is sent events for ever, whatever
\* the other one does.
KeepsFeeding ==
    \A c \in Conns :
        <>[](c \in Range(clients) /\ peer[c] = "reading") =>
            []<><<pc = "send" /\ buf'[c] > buf[c]>>_vars
=============================================================================
