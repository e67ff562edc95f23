------------------------------ MODULE MCDataPlane ------------------------------
(* Small instances of DataPlane for TLC.                                   *)
EXTENDS DataPlane

CONSTANTS p1, p2, p3, n1, n2, t1, t2, m1, m2

(* Whoever comes after p2 comes under its name.                             *)
SharedName == [p \in Proc |-> IF p = p1 THEN n1 ELSE n2]

Wish(p, op, arg) == [by |-> p, op |-> op, arg |-> arg]

OnePublisher ==
    {Wish(p1, "advertise", t1), Wish(p1, "publish", t1), Wish(p2, "subscribe", t1),
     Wish(p3, "subscribe", t1)} \cap [by : Proc, op : Op, arg : Topic]
(* The publisher also subscribes to its own topic.                         *)
OwnSubscriber == OnePublisher \cup {Wish(p1, "subscribe", t1)}
TwoTopics ==
    {Wish(p1, "advertise", t1), Wish(p1, "advertise", t2), Wish(p1, "publish", t1),
     Wish(p2, "subscribe", t1), Wish(p2, "subscribe", t2)}
Mutual ==
    {Wish(p1, "provide", m1), Wish(p2, "provide", m2), Wish(p1, "call", m2),
     Wish(p2, "call", m1)}
NotNested == [m \in Method |-> None]
NestedBoth == [m \in Method |-> IF m = m1 THEN m2 ELSE m1]

(* Where the run is long, the master forgets only who has ended.           *)
ForgetsEnded ==
    \A n \in Name : member[n] # None /\ member'[n] = None => proc[member[n]] = "ended"

EndedForgottenSpec == Init /\ [][Next /\ ForgetsEnded]_vars
===============================================================================
