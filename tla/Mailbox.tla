------------------------------ MODULE Mailbox ------------------------------
(***************************************************************************)
(* What one topic of the message bus promises to the services: a one-place *)
(* mailbox per member.  A send replaces whatever the members had not taken *)
(* yet, a member takes each message at most once and takes it whole, and a *)
(* member sees only what is sent after it joined.  MsgBus implements this. *)
(***************************************************************************)
EXTENDS Naturals

CONSTANTS Subscribers, Words

VARIABLES members,  \* the subscribers that own a place
          sent,     \* number of messages sent: message n is the n-th one
          fresh,    \* the members whose place holds a message not yet taken
          got       \* the last message each subscriber took

vars == <<members, sent, fresh, got>>

\* Every word of the n-th message carries its number; message 0 is the
\* value-initialised payload, which nobody sends.
Message(n) == [w \in Words |-> n]

Init == /\ members = {}
        /\ sent = 0
        /\ fresh = {}
        /\ got = [s \in Subscribers |-> Message(0)]

Join(s) == /\ s \in Subscribers \ members
           /\ members' = members \cup {s}
           /\ UNCHANGED <<sent, fresh, got>>

Send == /\ sent' = sent + 1
        /\ fresh' = members
        /\ UNCHANGED <<members, got>>

Take(s) == /\ s \in fresh
           /\ got' = [got EXCEPT ![s] = Message(sent)]
           /\ fresh' = fresh \ {s}
           /\ UNCHANGED <<members, sent>>

Next == Send \/ \E s \in Subscribers : Join(s) \/ Take(s)

Spec == Init /\ [][Next]_vars
=============================================================================
