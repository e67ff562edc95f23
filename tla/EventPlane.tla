------------------------------- MODULE EventPlane ------------------------------
(***************************************************************************)
(* Events: advertise_event(), publish_event() and subscribe_event(), the   *)
(* branch of the listening thread that takes subscriptions, and the thread *)
(* that polls the links of a subscriber (process_event_message()).         *)
(*                                                                         *)
(* pub_list_ and sub_list_ are used by two threads and nothing guards      *)
(* them.  An entry that the listening thread inserts while publish_event() *)
(* walks over the subscribers is or is not reached by the walk (the table  *)
(* is not rehashed: there are at most 13), and one that is inserted while  *)
(* the walk's dead are erased may be lost.  Whatever else such a race may  *)
(* do, or a reference to an element that was popped, ends the process.     *)
(***************************************************************************)
EXTENDS Participant

CONSTANTS
    MaxConnections, \* max_connections_, the length of poll_fd_list
    MaxEvents       \* bound: events a process publishes on one topic

ASSUME EventBounds ==
    MaxConnections \in Nat /\ MaxEvents \in Nat /\ IsFiniteSet(Topic)

VARIABLES
    pub_list,       \* [Proc -> the keys of pub_list_]
    client_map,     \* client_socket_map: [Proc -> [Topic -> [Name -> Link]]]
    walk,           \* the loop of publish_event(): who is left, in hand, dead
    count,          \* [Proc -> [Topic -> events published so far]]
    sub_list,       \* [Proc -> [Topic -> socket, NoLink if not subscribed]]
    new_q,          \* unprocessed_new_sub_events_
    slots,          \* poll_fd_list[i].fd, NoLink for -1
    revents,        \* whether poll_fd_list[i].revents has POLLIN
    ew,             \* where the thread is: pc, i, and the nfds of its poll()
    (* for the properties *)
    heard,          \* [Link -> the event before the first it is to get, then
                    \*  those its callback ran with; <<>> if not registered]
    garbage         \* the links whose callback ran with part of an event

publisherVars == <<pub_list, client_map, walk, count>>
pollVars == <<sub_list, new_q, slots, revents, ew>>
eventVars == <<publisherVars, pollVars, heard, garbage>>

Slot == 1..MaxConnections

NoWalk == [left |-> {}, at |-> None, dead |-> {}]
Drain == [pc |-> "drain", i |-> 1, nfds |-> 0]
Unlisted == [n \in Name |-> NoLink]

Walk == [left : SUBSET Name, at : Name \cup {None}, dead : SUBSET Name]
Worker == [pc : {"drain", "poll", "scan", "content"}, i : Nat, nfds : Nat]

(* The types of the event plane; a callback runs on a subscription.        *)
EventTypeOK ==
    /\ pub_list \in [Proc -> SUBSET Topic]
    /\ client_map \in [Proc -> [Topic -> [Name -> Link \cup {NoLink}]]]
    /\ walk \in [Proc -> Walk]
    /\ count \in [Proc -> [Topic -> 0..MaxEvents]]
    /\ sub_list \in [Proc -> [Topic -> Link \cup {NoLink}]]
    /\ new_q \in [Proc -> Seq(Topic)]
    /\ slots \in [Proc -> [Slot -> Link \cup {NoLink}]]
    /\ revents \in [Proc -> [Slot -> BOOLEAN]]
    /\ ew \in [Proc -> Worker]
    /\ heard \in [Link -> Seq(Nat)]
    /\ garbage \in SUBSET Link

EventInit ==
    /\ pub_list = [p \in Proc |-> {}]
    /\ client_map = [p \in Proc |-> [t \in Topic |-> Unlisted]]
    /\ walk = [p \in Proc |-> NoWalk]
    /\ count = [p \in Proc |-> [t \in Topic |-> 0]]
    /\ sub_list = [p \in Proc |-> [t \in Topic |-> NoLink]]
    /\ new_q = [p \in Proc |-> <<>>]
    /\ slots = [p \in Proc |-> [i \in Slot |-> NoLink]]
    /\ revents = [p \in Proc |-> [i \in Slot |-> FALSE]]
    /\ ew = [p \in Proc |-> Drain]
    /\ heard = [l \in Link |-> <<>>]
    /\ garbage = {}

-------------------------------------------------------------------------------
(* Publishing.                                                             *)

(* The master knows the publisher before the publisher does.               *)
Advertise(p, t) ==
    /\ Starts(p, "advertise", t)
    /\ Master!Publish(p, t)
    /\ app' = [app EXCEPT ![p] = [op |-> "advertise", arg |-> t]]
    /\ UNCHANGED <<linkVars, proc, lis, backlog, eventVars>>

Advertised(p) ==
    /\ Up(p) /\ app[p].op = "advertise"
    /\ pub_list' = [pub_list EXCEPT ![p] = @ \cup {app[p].arg}]
    /\ client_map' = [client_map EXCEPT ![p][app[p].arg] = Unlisted]
    /\ app' = [app EXCEPT ![p] = AtRest]
    /\ UNCHANGED <<linkVars, directoryVars, proc, lis, backlog, walk, count,
                   pollVars, heard, garbage>>

Subscribers(p, t) == {n \in Name : client_map[p][t][n] # NoLink}

(* publish_event() up to its loop.                                         *)
Publish(p, t) ==
    /\ Starts(p, "publish", t)
    /\ t \in pub_list[p]
    /\ count[p][t] < MaxEvents
    /\ count' = [count EXCEPT ![p][t] = @ + 1]
    /\ IF Subscribers(p, t) = {} THEN UNCHANGED <<app, walk>>
       ELSE /\ app' = [app EXCEPT ![p] = [op |-> "walk", arg |-> t]]
            /\ walk' = [walk EXCEPT ![p] = [NoWalk EXCEPT !.left = Subscribers(p, t)]]
    /\ UNCHANGED <<linkVars, directoryVars, proc, lis, backlog, pub_list,
                   client_map, pollVars, heard, garbage>>

Walking(p) == Up(p) /\ app[p].op = "walk"

(* Only EPIPE makes a subscriber dead.                                     *)
DeadAfter(p, l, n) == walk[p].dead \cup IF BrokenPipe(l) THEN {n} ELSE {}

(* Mutation: a subscriber that cannot be written to is tried again.        *)
EventHeaderAgain(p, n) ==
    LET l == client_map[p][app[p].arg][n]
    IN  /\ Walking(p) /\ walk[p].at = None /\ n \in walk[p].left
        /\ Write(l, Header("EVENT"))
        /\ walk' = [walk EXCEPT ![p] =
                      [left |-> @.left \ IF Succeeds(l) THEN {n} ELSE {},
                       at |-> IF Succeeds(l) THEN n ELSE None, dead |-> {}]]
        /\ UNCHANGED <<link, stage, unread, far, directoryVars, proc, app, lis,
                       backlog, pub_list, client_map, count, pollVars, heard,
                       garbage>>

(* The header of the event to the next subscriber, in any order.           *)
EventHeader(p, n) ==
    LET l == client_map[p][app[p].arg][n]
    IN  /\ Walking(p) /\ walk[p].at = None /\ n \in walk[p].left
        /\ Write(l, Header("EVENT"))
        /\ walk' = [walk EXCEPT ![p] =
                      [left |-> @.left \ {n},
                       at |-> IF Succeeds(l) THEN n ELSE None,
                       dead |-> DeadAfter(p, l, n)]]
        /\ UNCHANGED <<link, stage, unread, far, directoryVars, proc, app, lis,
                       backlog, pub_list, client_map, count, pollVars, heard,
                       garbage>>

EventBody(p) ==
    LET t == app[p].arg
        n == walk[p].at
        l == client_map[p][t][n]
    IN  /\ Walking(p) /\ n # None
        /\ Write(l, Body("EVENT", count[p][t]))
        /\ walk' = [walk EXCEPT ![p] = [left |-> @.left, at |-> None,
                                        dead |-> DeadAfter(p, l, n)]]
        /\ UNCHANGED <<link, stage, unread, far, directoryVars, proc, app, lis,
                       backlog, pub_list, client_map, count, pollVars, heard,
                       garbage>>

WalkEnds(p) ==
    /\ Walking(p) /\ walk[p].at = None /\ walk[p].left = {}
    /\ app' = [app EXCEPT ![p] =
                 IF walk[p].dead = {} THEN AtRest ELSE [@ EXCEPT !.op = "erase"]]
    /\ UNCHANGED <<linkVars, directoryVars, proc, lis, backlog, eventVars>>

EraseDead(p) ==
    LET t == app[p].arg
    IN  /\ Up(p) /\ app[p].op = "erase"
        /\ client_map' = [client_map EXCEPT ![p][t] =
                            [n \in Name |-> IF n \in walk[p].dead THEN NoLink ELSE @[n]]]
        /\ walk' = [walk EXCEPT ![p] = NoWalk]
        /\ app' = [app EXCEPT ![p] = AtRest]
        /\ UNCHANGED <<linkVars, directoryVars, proc, lis, backlog, pub_list, count,
                       pollVars, heard, garbage>>

-------------------------------------------------------------------------------
(* The listening thread takes a subscription.                              *)

(* Mutation: an insertion makes the walk begin anew.                       *)
EnlistAnew(p, t, n, l) ==
    /\ client_map' = [client_map EXCEPT ![p][t][n] = l]
    /\ heard' = [heard EXCEPT ![l] = <<count[p][t]>>]
    /\ walk' = [walk EXCEPT ![p].left =
                   IF app[p] = [op |-> "walk", arg |-> t] THEN Subscribers(p, t) ELSE @]

(* The first event l is to get is the next one, or the one whose walk is   *)
(* still to come to it.                                                    *)
Enlist(p, t, n, l) ==
    \/ /\ client_map' = [client_map EXCEPT ![p][t][n] = l]
       /\ heard' = [heard EXCEPT ![l] = <<count[p][t]>>]
       /\ UNCHANGED walk
    \/ /\ app[p] = [op |-> "walk", arg |-> t]
       /\ client_map' = [client_map EXCEPT ![p][t][n] = l]
       /\ heard' = [heard EXCEPT ![l] = <<count[p][t] - 1>>]
       /\ walk' = [walk EXCEPT ![p].left = @ \cup {n}]
    \/ /\ app[p] = [op |-> "erase", arg |-> t]
       /\ UNCHANGED <<client_map, heard, walk>>

(* Mutation: a name that subscribes again takes its own place.             *)
ServeReplaces(p) ==
    LET l == lis[p].link
        t == link[l].arg
        n == NameOf[link[l].from]
    IN  /\ Reads(p, "SUBSCRIBE")
        /\ IF t \in pub_list[p]
           THEN Enlist(p, t, n, l) /\ Answers(p, TRUE)
           ELSE Answers(p, FALSE) /\ UNCHANGED <<client_map, heard, walk>>
        /\ UNCHANGED <<directoryVars, proc, app, backlog, pub_list, count, pollVars,
                       garbage>>

(* Mutation: a subscriber that is refused is not told so.                  *)
ServeSilently(p) ==
    LET l == lis[p].link
        t == link[l].arg
        n == NameOf[link[l].from]
    IN  /\ Reads(p, "SUBSCRIBE")
        /\ IF t \in pub_list[p] /\ client_map[p][t][n] = NoLink
           THEN Enlist(p, t, n, l) /\ Answers(p, TRUE)
           ELSE lis' = [lis EXCEPT ![p] = Free] /\ UNCHANGED <<client_map, heard, walk>>
        /\ UNCHANGED <<directoryVars, proc, app, backlog, pub_list, count, pollVars,
                       garbage>>

ServeSubscribe(p) ==
    LET l == lis[p].link
        t == link[l].arg
        n == NameOf[link[l].from]
    IN  /\ Reads(p, "SUBSCRIBE")
        /\ IF t \in pub_list[p] /\ client_map[p][t][n] = NoLink
           THEN Enlist(p, t, n, l) /\ Answers(p, TRUE)
           ELSE Answers(p, FALSE) /\ UNCHANGED <<client_map, heard, walk>>
        /\ UNCHANGED <<directoryVars, proc, app, backlog, pub_list, count, pollVars,
                       garbage>>

-------------------------------------------------------------------------------
(* Subscribing.                                                            *)

Subscribe(p, t) ==
    /\ Starts(p, "subscribe", t)
    /\ Ask(p, "app", "SUBSCRIBE", t, publisher[t])
    /\ UNCHANGED <<directoryVars, proc, app, lis, backlog, eventVars>>

SubscribeAt(l, s) == link[l].type = "SUBSCRIBE" /\ stage[l] = s

(* The reads of the answer touch nothing but the link.                     *)
LinkOnly ==
    UNCHANGED <<link, unread, near, far, directoryVars, proc, app, lis, backlog,
                eventVars>>

(* Any header will do for the header of the answer: its type is not looked *)
(* at.  What follows the header of an event is not an answer, nor is what  *)
(* follows the header of the answer if it is an event.                     *)
ReadAnswerHeader(l) ==
    /\ SubscribeAt(l, "wait") /\ down[l] # <<>>
    /\ Advance(l, IF Head(down[l]) = Header("ANSWER") THEN "content" ELSE "mixed")
    /\ Take(l)
    /\ LinkOnly

ReadAnswer(l) ==
    /\ SubscribeAt(l, "content") /\ down[l] # <<>>
    /\ Advance(l, IF Head(down[l]) = Body("ANSWER", OK) THEN "granted" ELSE "false")
    /\ Take(l)
    /\ LinkOnly

(* Mutation: whatever comes is an OK.                                      *)
ReadMixedAsOK(l) ==
    /\ SubscribeAt(l, "mixed") /\ down[l] # <<>>
    /\ Advance(l, "granted")
    /\ Take(l)
    /\ LinkOnly

ReadMixed(l) ==
    /\ SubscribeAt(l, "mixed") /\ down[l] # <<>>
    /\ Advance(l, "false")
    /\ Take(l)
    /\ LinkOnly

(* The publisher ends before the header: that is logged, and true returned.*)
NoAnswer(l) ==
    /\ SubscribeAt(l, "wait") /\ Eof(l)
    /\ Advance(l, "true")
    /\ UNCHANGED down
    /\ LinkOnly

(* It ends before the content, or has reset the connection: the -1 of      *)
(* readn() passes for a full buffer, and what the buffer holds is no JSON  *)
(* (a length that is read from it may also end the process).               *)
AnswerLost(l) ==
    /\ link[l].type = "SUBSCRIBE"
    /\ \/ stage[l] \in {"content", "mixed"} /\ (Eof(l) \/ Reset(l))
       \/ stage[l] = "wait" /\ Reset(l)
    /\ Advance(l, "false")
    /\ UNCHANGED down
    /\ LinkOnly

(* An entry of the topic, if there is one, is overwritten.                 *)
RecordSubscription(l) ==
    /\ SubscribeAt(l, "granted")
    /\ sub_list' = [sub_list EXCEPT ![link[l].from][link[l].arg] = l]
    /\ Advance(l, "push")
    /\ UNCHANGED <<link, unread, down, near, far, directoryVars, proc, app, lis,
                   backlog, publisherVars, new_q, slots, revents, ew, heard,
                   garbage>>

PushSubscription(l) ==
    /\ SubscribeAt(l, "push")
    /\ new_q' = [new_q EXCEPT ![link[l].from] = Append(@, link[l].arg)]
    /\ Advance(l, "true")
    /\ UNCHANGED <<link, unread, down, near, far, directoryVars, proc, app, lis,
                   backlog, publisherVars, sub_list, slots, revents, ew, heard,
                   garbage>>

-------------------------------------------------------------------------------
(* The thread that polls.  Nobody fills the queue of dead subscriptions.   *)

FirstFree(p, i) == slots[p][i] = NoLink /\ \A j \in 1..(i-1) : slots[p][j] # NoLink

DrainNew(p) ==
    /\ Up(p) /\ ew[p].pc = "drain" /\ new_q[p] # <<>>
    /\ slots' = [slots EXCEPT ![p] =
                   [i \in Slot |-> IF FirstFree(p, i) THEN sub_list[p][Head(new_q[p])]
                                   ELSE @[i]]]
    /\ revents' = [revents EXCEPT ![p] = [i \in Slot |-> ~FirstFree(p, i) /\ @[i]]]
    /\ new_q' = [new_q EXCEPT ![p] = Tail(@)]
    /\ UNCHANGED <<participantVars, publisherVars, sub_list, ew, heard, garbage>>

Subscriptions(p) == {t \in Topic : sub_list[p][t] # NoLink}

(* nfds is the number of topics ever subscribed to, wherever their slots   *)
(* are.  Without any, poll() only sleeps.                                  *)
StartPoll(p) ==
    /\ Up(p) /\ ew[p].pc = "drain" /\ new_q[p] = <<>>
    /\ Subscriptions(p) # {}
    /\ ew' = [ew EXCEPT ![p].pc = "poll", ![p].nfds = Cardinality(Subscriptions(p))]
    /\ UNCHANGED <<participantVars, publisherVars, sub_list, new_q, slots, revents,
                   heard, garbage>>

PollIn(p, i) ==
    LET l == slots[p][i] IN l # NoLink /\ (down[l] # <<>> \/ far[l] # "open")

(* Mutation: the last of the nfds slots is left out.                       *)
PolledButLast(p) == {i \in Slot : i < ew[p].nfds}

Polled(p) == {i \in Slot : i <= ew[p].nfds}

Poll(p) ==
    /\ Up(p) /\ ew[p].pc = "poll"
    /\ revents' = [revents EXCEPT ![p] =
                     [i \in Slot |-> IF i \in Polled(p) THEN PollIn(p, i) ELSE @[i]]]
    /\ ew' = [ew EXCEPT ![p] = IF \E i \in Polled(p) : PollIn(p, i)
                               THEN [pc |-> "scan", i |-> 1, nfds |-> 0] ELSE Drain]
    /\ UNCHANGED <<participantVars, publisherVars, sub_list, new_q, slots, heard,
                   garbage>>

(* Slot i is the next one the scan stops at.                               *)
AtSlot(p, i) ==
    /\ Up(p) /\ ew[p].pc = "scan"
    /\ i >= ew[p].i /\ revents[p][i]
    /\ \A j \in ew[p].i..(i-1) : ~revents[p][j]

NextSlot(p, i) == ew' = [ew EXCEPT ![p] = [pc |-> "scan", i |-> i + 1, nfds |-> 0]]

ScanDone(p) ==
    /\ Up(p) /\ ew[p].pc = "scan"
    /\ \A i \in Slot : i >= ew[p].i => ~revents[p][i]
    /\ ew' = [ew EXCEPT ![p] = Drain]
    /\ UNCHANGED <<participantVars, publisherVars, sub_list, new_q, slots, revents,
                   heard, garbage>>

ReadHeader(p, i) ==
    LET l == slots[p][i]
    IN  /\ AtSlot(p, i) /\ down[l] # <<>>
        /\ Take(l)
        /\ ew' = [ew EXCEPT ![p].pc = "content", ![p].i = i]
        /\ UNCHANGED <<link, stage, unread, near, far, directoryVars, proc, app, lis,
                       backlog, publisherVars, sub_list, new_q, slots, revents,
                       heard, garbage>>

(* The slot is freed, the descriptor and the entry of sub_list_ stay.      *)
ReadEof(p, i) ==
    /\ AtSlot(p, i) /\ Eof(slots[p][i])
    /\ slots' = [slots EXCEPT ![p][i] = NoLink]
    /\ NextSlot(p, i)
    /\ UNCHANGED <<participantVars, publisherVars, sub_list, new_q, revents, heard,
                   garbage>>

(* The callback is found by the socket; a subscription that was            *)
(* overwritten has none.                                                   *)
HasCallback(p, l) == \E t \in Subscriptions(p) : sub_list[p][t] = l

RunCallback(p) ==
    LET l == slots[p][ew[p].i]
    IN  /\ Up(p) /\ ew[p].pc = "content" /\ down[l] # <<>>
        /\ heard' = [heard EXCEPT ![l] =
                      IF HasCallback(p, l) THEN Append(@, Head(down[l]).n) ELSE @]
        /\ Take(l)
        /\ NextSlot(p, ew[p].i)
        /\ UNCHANGED <<link, stage, unread, near, far, directoryVars, proc, app, lis,
                       backlog, publisherVars, sub_list, new_q, slots, revents,
                       garbage>>

(* The publisher ends within an event: what is missing is logged, and the  *)
(* callback is run with what the buffer held.                              *)
RunCallbackShort(p) ==
    LET l == slots[p][ew[p].i]
    IN  /\ Up(p) /\ ew[p].pc = "content" /\ Eof(l)
        /\ garbage' = garbage \cup {m \in {l} : HasCallback(p, m)}
        /\ NextSlot(p, ew[p].i)
        /\ UNCHANGED <<participantVars, publisherVars, sub_list, new_q, slots,
                       revents, heard>>

-------------------------------------------------------------------------------
(* What a process knew is gone with it.                                    *)
EndEvents(p) ==
    /\ pub_list' = [pub_list EXCEPT ![p] = {}]
    /\ client_map' = [client_map EXCEPT ![p] = [t \in Topic |-> Unlisted]]
    /\ walk' = [walk EXCEPT ![p] = NoWalk]
    /\ sub_list' = [sub_list EXCEPT ![p] = [t \in Topic |-> NoLink]]
    /\ new_q' = [new_q EXCEPT ![p] = <<>>]
    /\ slots' = [slots EXCEPT ![p] = [i \in Slot |-> NoLink]]
    /\ revents' = [revents EXCEPT ![p] = [i \in Slot |-> FALSE]]
    /\ ew' = [ew EXCEPT ![p] = Drain]
    /\ UNCHANGED <<count, heard, garbage>>

Publishing(p) ==
    Advertised(p) \/ (\E n \in Name : EventHeader(p, n)) \/ EventBody(p)
        \/ WalkEnds(p) \/ EraseDead(p)

Subscribing(l) ==
    ReadAnswerHeader(l) \/ ReadAnswer(l) \/ ReadMixed(l) \/ NoAnswer(l)
        \/ AnswerLost(l) \/ RecordSubscription(l) \/ PushSubscription(l)

EventWorker(p) ==
    DrainNew(p) \/ StartPoll(p) \/ Poll(p) \/ ScanDone(p)
        \/ (\E i \in Slot : ReadHeader(p, i) \/ ReadEof(p, i))
        \/ RunCallback(p) \/ RunCallbackShort(p)

EventNext(p) ==
    \/ \E t \in Topic : Advertise(p, t) \/ Publish(p, t) \/ Subscribe(p, t)
    \/ Publishing(p) \/ ServeSubscribe(p) \/ EventWorker(p)
===============================================================================
