----------------------------- MODULE EventDelivery -----------------------------
(***************************************************************************)
(* What publishing and subscribing promise.  The events of a source are    *)
(* numbered in the order they are published.  A subscription is registered *)
(* with its source once, gets every event from there on, in order and each *)
(* once, and none before it is published; it may stop at any point.        *)
(***************************************************************************)
EXTENDS Integers, SequencesExt

CONSTANTS Source, Subscription, Nobody

VARIABLES
    published,      \* [Source -> Nat], the number of the last event
    source,         \* [Subscription -> Source or Nobody]
    heard           \* [Subscription -> Seq(Nat)]: the event before its first,
                    \* and then those it has had

vars == <<published, source, heard>>

Init ==
    /\ published = [s \in Source |-> 0]
    /\ source = [c \in Subscription |-> Nobody]
    /\ heard = [c \in Subscription |-> <<>>]

Publish(s) ==
    /\ published' = [published EXCEPT ![s] = @ + 1]
    /\ UNCHANGED <<source, heard>>

(* The event that is being handed out may be its first.                    *)
Register(c, s) ==
    /\ source[c] = Nobody
    /\ source' = [source EXCEPT ![c] = s]
    /\ \E n \in {published[s] - 1, published[s]} \cap Nat :
          heard' = [heard EXCEPT ![c] = <<n>>]
    /\ UNCHANGED published

Deliver(c) ==
    /\ source[c] # Nobody
    /\ Last(heard[c]) < published[source[c]]
    /\ heard' = [heard EXCEPT ![c] = Append(@, Last(@) + 1)]
    /\ UNCHANGED <<published, source>>

Next ==
    \/ \E s \in Source : Publish(s)
    \/ \E c \in Subscription : Deliver(c) \/ \E s \in Source : Register(c, s)

Spec == Init /\ [][Next]_vars
===============================================================================
