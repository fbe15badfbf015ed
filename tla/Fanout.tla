------------------------------- MODULE Fanout -------------------------------
(***************************************************************************)
(* What the realtime service promises, whatever its indexes and timers:    *)
(* a published message reaches exactly the sockets that are open and       *)
(* subscribed to its channel at the moment the service handles it, once,   *)
(* and after every message the socket received before.                     *)
(* Realtime.tla and RustRealtime.tla, the services as they are written,    *)
(* implement this module.                                                  *)
(***************************************************************************)
EXTENDS Sequences

CONSTANTS Sockets, Channels,
          Messages            \* records whose field ch is the channel

VARIABLES member,   \* member[ws]: the channels ws is subscribed to
          open,     \* the sockets a send reaches
          inbox     \* inbox[ws]: what ws was sent, in order

vars == <<member, open, inbox>>

Init == /\ member = [ws \in Sockets |-> {}]
        /\ open = {}
        /\ inbox = [ws \in Sockets |-> <<>>]

(* A connection is accepted: the socket starts with no subscription. *)
Open(ws) == /\ ws \notin open
            /\ member[ws] = {}
            /\ open' = open \union {ws}
            /\ UNCHANGED <<member, inbox>>

(* A subscription frame, possibly of a socket that is already closing. *)
Join(ws, c) == /\ member' = [member EXCEPT ![ws] = @ \union {c}]
               /\ UNCHANGED <<open, inbox>>

Leave(ws, c) == /\ member' = [member EXCEPT ![ws] = @ \ {c}]
                /\ UNCHANGED <<open, inbox>>

(* Sockets stop being reachable; some of the sockets that are not reachable *)
(* afterwards give up every subscription.                                    *)
Shut(S, T) == /\ open' = open \ S
              /\ T \intersect open' = {}
              /\ member' = [ws \in Sockets |-> IF ws \in T THEN {} ELSE member[ws]]
              /\ UNCHANGED inbox

(* The close event: the socket is gone, its name may be used again. *)
Forget(ws) == /\ ws \notin open
              /\ member' = [member EXCEPT ![ws] = {}]
              /\ inbox' = [inbox EXCEPT ![ws] = <<>>]
              /\ UNCHANGED open

(* A connection ends, and with it what it was sent. *)
Drop(ws) == /\ ws \in open
            /\ open' = open \ {ws}
            /\ inbox' = [inbox EXCEPT ![ws] = <<>>]
            /\ UNCHANGED member

Publish(m) ==
    /\ inbox' = [ws \in Sockets |->
                   IF ws \in open /\ m.ch \in member[ws]
                   THEN Append(inbox[ws], m) ELSE inbox[ws]]
    /\ UNCHANGED <<member, open>>

Next == \/ \E ws \in Sockets : Open(ws) \/ Drop(ws) \/ Forget(ws)
        \/ \E ws \in Sockets, c \in Channels : Join(ws, c) \/ Leave(ws, c)
        \/ \E S, T \in SUBSET Sockets : Shut(S, T)
        \/ \E m \in Messages : Publish(m)

Spec == Init /\ [][Next]_vars
=============================================================================
