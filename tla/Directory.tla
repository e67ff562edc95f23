------------------------------- MODULE Directory ------------------------------
(***************************************************************************)
(* What the U-Bus master promises: a directory of participants and of the  *)
(* topics and methods they own.  A name belongs to at most one member at a *)
(* time and a topic or a method to at most one owner; only a member owns   *)
(* anything, and a member that leaves loses everything it owns, and its    *)
(* name, in the same step.  Nothing passes from one owner to another       *)
(* without having been free in between.                                    *)
(***************************************************************************)
CONSTANTS Name, Conn, Topic, Method, None

VARIABLES
    member,         \* [Name -> Conn or None]
    publisher,      \* [Topic -> Conn or None]
    provider        \* [Method -> Conn or None]

vars == <<member, publisher, provider>>

Members == {c \in Conn : \E n \in Name : member[n] = c}

Init ==
    /\ member = [n \in Name |-> None]
    /\ publisher = [t \in Topic |-> None]
    /\ provider = [m \in Method |-> None]

Join(n, c) ==
    /\ member[n] = None /\ c \notin Members
    /\ member' = [member EXCEPT ![n] = c]
    /\ UNCHANGED <<publisher, provider>>

Without(owner, c) == [x \in DOMAIN owner |-> IF owner[x] = c THEN None ELSE owner[x]]

Leave(c) ==
    /\ c \in Members
    /\ member' = Without(member, c)
    /\ publisher' = Without(publisher, c)
    /\ provider' = Without(provider, c)

Publish(c, t) ==
    /\ c \in Members /\ publisher[t] = None
    /\ publisher' = [publisher EXCEPT ![t] = c]
    /\ UNCHANGED <<member, provider>>

Provide(c, m) ==
    /\ c \in Members /\ provider[m] = None
    /\ provider' = [provider EXCEPT ![m] = c]
    /\ UNCHANGED <<member, publisher>>

Next ==
    \E c \in Conn :
        \/ \E n \in Name : Join(n, c)
        \/ Leave(c)
        \/ \E t \in Topic : Publish(c, t)
        \/ \E m \in Method : Provide(c, m)

Spec == Init /\ [][Next]_vars
===============================================================================
