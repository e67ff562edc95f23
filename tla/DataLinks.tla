------------------------------- MODULE DataLinks -------------------------------
(***************************************************************************)
(* The connections participants make to each other: one per subscription,  *)
(* made by subscribe_event(), and one per method call, made by             *)
(* call_method().  Nothing in src/ closes any of them while the process    *)
(* lives, so that a link is used for one request and never again.          *)
(*                                                                         *)
(* The request is a header and a body.  What comes back is a sequence of   *)
(* chunks, one per writen(): the answer to a subscription and the events   *)
(* that follow it are written to the same link by two threads.  The kernel *)
(* keeps the order of the writes, and a write waits while the buffer is    *)
(* full (Capacity).                                                        *)
(***************************************************************************)
EXTENDS Naturals, Sequences, FiniteSets

CONSTANTS
    Proc,           \* processes that use the runtime
    Topic,          \* event topics
    Method,         \* method names
    None,           \* no process, no method
    MaxLinks,       \* bound: links made in all
    Capacity        \* chunks a link holds unread

ASSUME LinkConstants ==
    /\ None \notin Proc \cup Topic \cup Method
    /\ MaxLinks \in Nat /\ Capacity \in Nat \ {0}

Link == 1..MaxLinks

NoLink == 0

VARIABLES
    link,           \* [Link -> who connects to whom, and asks for what]
    stage,          \* [Link -> how far the thread is that made it]
    unread,         \* [Link -> chunks of the request not read by the server]
    down,           \* [Link -> Seq(Chunk)], written by the server, unread
    near,           \* [Link -> the client's end, as the server's writes find it]
    far             \* [Link -> the server's end, as the client's reads find it]

linkVars == <<link, stage, unread, down, near, far>>

(* A link is made by the application's thread or inside a callback.        *)
LinkInfo ==
    [from : Proc \cup {None}, to : Proc \cup {None}, by : {"app", "callback"},
     type : {"SUBSCRIBE", "CALL"}, arg : Topic \cup Method \cup {None}]

NoInfo == [from |-> None, to |-> None, by |-> "app", type |-> "CALL", arg |-> None]

InProgress == {"connect", "body", "wait", "content", "mixed", "granted", "push"}

(* "true" and "false" are what the call returned, "ended" that it never    *)
(* did or that the process is no more.                                     *)
Stage == InProgress \cup {"unused", "true", "false", "ended"}

(* "n" is the number of the event, or whether an answer is OK.             *)
Chunk == [part : {"header", "body"}, type : {"ANSWER", "EVENT", "RESPONSE"}, n : Nat]

Refused == 0
OK == 1

Header(type) == [part |-> "header", type |-> type, n |-> 0]
Body(type, n) == [part |-> "body", type |-> type, n |-> n]

(* The types of the links; one that is made has two ends.                  *)
LinksTypeOK ==
    /\ link \in [Link -> LinkInfo]
    /\ stage \in [Link -> Stage]
    /\ \A l \in Link : stage[l] # "unused" => {link[l].from, link[l].to} \subseteq Proc
    /\ unread \in [Link -> 0..2]
    /\ down \in [Link -> Seq(Chunk)]
    /\ \A l \in Link : Len(down[l]) <= Capacity
    /\ near \in [Link -> {"open", "closed", "reset", "broken"}]
    /\ far \in [Link -> {"open", "closed", "reset"}]

LinksInit ==
    /\ link = [l \in Link |-> NoInfo]
    /\ stage = [l \in Link |-> "unused"]
    /\ unread = [l \in Link |-> 0]
    /\ down = [l \in Link |-> <<>>]
    /\ near = [l \in Link |-> "open"]
    /\ far = [l \in Link |-> "open"]

Made == {l \in Link : stage[l] # "unused"}

(* Descriptors are handed out in order.                                    *)
Fresh == Cardinality(Made) + 1

Advance(l, s) == stage' = [stage EXCEPT ![l] = s]

(***************************************************************************)
(* A write of the server.  The first one after the client closed still     *)
(* succeeds and provokes a reset, which a later one may find (EPIPE); when *)
(* the client left with something unread the reset is already there        *)
(* (ECONNRESET), and EPIPE is next.                                        *)
(***************************************************************************)
Write(l, chunk) ==
    \/ /\ near[l] = "open" /\ Len(down[l]) < Capacity
       /\ down' = [down EXCEPT ![l] = Append(@, chunk)]
       /\ UNCHANGED near
    \/ /\ near[l] = "closed"
       /\ near' \in {near, [near EXCEPT ![l] = "broken"]}
       /\ UNCHANGED down
    \/ /\ near[l] \in {"reset", "broken"}
       /\ near' = [near EXCEPT ![l] = "broken"]
       /\ UNCHANGED down

Succeeds(l) == near[l] \in {"open", "closed"}

BrokenPipe(l) == near[l] = "broken"

(* What a read of the client takes, or what it finds instead.              *)
Take(l) == down' = [down EXCEPT ![l] = Tail(@)]

Eof(l) == down[l] = <<>> /\ far[l] = "closed"

Reset(l) == down[l] = <<>> /\ far[l] = "reset"

(***************************************************************************)
(* The ends of a process p as seen from the other side.  A socket that is  *)
(* closed with something unread in it, or before it was accepted, resets   *)
(* the connection.                                                         *)
(***************************************************************************)
EndLinks(p, unaccepted, half) ==
    /\ stage' = [l \in Link |-> IF link[l].from = p THEN "ended" ELSE stage[l]]
    /\ near' = [l \in Link |->
                  IF link[l].from = p /\ near[l] = "open"
                  THEN IF down[l] = <<>> THEN "closed" ELSE "reset"
                  ELSE near[l]]
    /\ down' = [l \in Link |-> IF link[l].from = p THEN <<>> ELSE down[l]]
    /\ far' = [l \in Link |->
                  IF link[l].to = p /\ far[l] = "open"
                  THEN IF l \in unaccepted \cup half THEN "reset" ELSE "closed"
                  ELSE far[l]]
    /\ unread' = [l \in Link |-> IF link[l].to = p THEN 0 ELSE unread[l]]
    /\ UNCHANGED link
===============================================================================
