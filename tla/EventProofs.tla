------------------------------ MODULE EventProofs -----------------------------
(***************************************************************************)
(* The streams of events, for any number of processes, topics, links and   *)
(* events: what the polling thread reads is whole frames, and each         *)
(* subscription gets its events in order and each once.                    *)
(***************************************************************************)
EXTENDS SubscriberProofs

USE DEF linkVars, directoryVars, participantVars, publisherVars, pollVars,
        eventVars, methodVars

-------------------------------------------------------------------------------
(* The invariant.                                                          *)

AnswerHead == Header("ANSWER")
AnswerOK == Body("ANSWER", OK)

(* The k-th chunk of the events that follow number base.                   *)
Event(k, base) ==
    IF k % 2 = 1 THEN Header("EVENT") ELSE Body("EVENT", base + (k \div 2))

(* The events in s follow number base.  The stream began d chunks before   *)
(* s, or begins after -d chunks of it.                                     *)
InOrder(s, d, base) ==
    \A k \in 1..Len(s) : k + d >= 1 => s[k] = Event(k + d, base)

Shift == {-2, -1, 0, 1}

(* A process has l among its subscriptions, or in a slot.                  *)
Recorded(l) ==
    \E p \in Proc : \/ \E i \in Slot : slots[p][i] = l
                    \/ \E t \in Topic : sub_list[p][t] = l

(* The answer to l has been read, and it was OK.                           *)
Got(l) == stage[l] \in {"granted", "push"} \/ Recorded(l)

(* The polling thread is between the header of an event and its content.   *)
InRead(l) == \E p \in Proc : ew[p].pc = "content" /\ slots[p][ew[p].i] = l

(* The callback runs with what is read from l, or will.                    *)
Own(l) == stage[l] \in {"wait", "content", "granted"} \/ HasCallback(link[l].from, l)

Published(l) == count[link[l].to][link[l].arg]

(* The chunks of the last event that publish_event() has yet to write.     *)
Owed(l) ==
    LET q == link[l].to
        n == NameOf[link[l].from]
    IN  IF app[q] # [op |-> "walk", arg |-> link[l].arg] THEN 0
        ELSE IF n \in walk[q].left THEN 2 ELSE IF walk[q].at = n THEN 1 ELSE 0

(* What comes on l are the events from base on: all of them but what is    *)
(* owed, unless the publisher has ended.                                   *)
Flows(l, d, base) ==
    /\ InOrder(down[l], d, base)
    /\ Len(down[l]) + d <= 2 * (Published(l) - base)
    /\ Up(link[l].to) => Len(down[l]) + d = 2 * (Published(l) - base) - Owed(l)

Streams(l, d) ==
    IF heard[l] = <<>> THEN Len(down[l]) + d = 0
    ELSE \E base \in 0..Published(l) :
            Flows(l, d, base) /\ (Own(l) => base = Last(heard[l]))

(* While a subscriber waits for its answer, an answer that comes first and *)
(* is OK; when it has it, nothing but events.                              *)
Answered(st, s, d) ==
    \/ /\ st = "wait"
       /\ \/ d = 0 /\ s = <<>>
          \/ d = -1 /\ s = <<AnswerHead>>
          \/ d = -2 /\ Len(s) >= 2 /\ s[1] = AnswerHead /\ s[2] = AnswerOK
    \/ /\ st = "content"
       /\ \/ d = 0 /\ s = <<>>
          \/ d = -1 /\ Len(s) >= 1 /\ s[1] = AnswerOK

Clean(l, d) ==
    \/ Answered(stage[l], down[l], d)
    \/ Got(l) /\ d = IF InRead(l) THEN 1 ELSE 0

ClientAt(l) ==
    link[l].type = "SUBSCRIBE" => \A d \in Shift : Clean(l, d) => Streams(l, d)

(* The wire of l: what is in it while the request is on its way, and when  *)
(* an end is closed.                                                       *)
Early == {"unused", "connect", "body"}

WireAt(l) ==
    /\ stage[l] = "ended" <=> near[l] # "open"
    /\ stage[l] \in Early => down[l] = <<>> /\ heard[l] = <<>> /\ unread[l] < 2
    /\ stage[l] \in {"unused", "connect"} => unread[l] = 0
    /\ unread[l] > 0 => down[l] = <<>> /\ heard[l] = <<>> /\ far[l] = "open"
    /\ far[l] # "open" => stage[l] # "unused" /\ proc[link[l].to] = "ended"
    /\ far[l] = "reset" => down[l] = <<>>
    /\ heard[l] # <<>> => link[l].type = "SUBSCRIBE" /\ proc[link[l].to] # "absent"

(* A link whose answer was OK, or may be, was served and is not reset.     *)
GotAt(l) ==
    /\ Got(l) => stage[l] \in {"granted", "push", "true"} /\ link[l].type = "SUBSCRIBE"
    /\ Recorded(l) => stage[l] # "granted"
    /\ far[l] = "reset" \/ unread[l] > 0 =>
          ~Got(l) /\ ~(link[l].type = "SUBSCRIBE" /\ stage[l] = "content")

(* A subscriber that lives and was entered is in the list of its topic.    *)
EntryAt(l) ==
    heard[l] # <<>> /\ near[l] = "open" /\ Up(link[l].to)
        => client_map[link[l].to][link[l].arg][NameOf[link[l].from]] = l

(* The links that wait for the listening thread are other ones.            *)
QueueAt(p) ==
    /\ \A k \in DOMAIN backlog[p] :
          /\ link[backlog[p][k]].to = p /\ unread[backlog[p][k]] > 0
          /\ backlog[p][k] # lis[p].link
    /\ \A j, k \in DOMAIN backlog[p] : j # k => backlog[p][j] # backlog[p][k]

(* Nothing in s is x.                                                      *)
Lacks(s, x) == \A k \in 1..Len(s) : s[k] # x

(* What the listening thread of p has in hand: a link whose answer nobody  *)
(* has read before it is written.                                          *)
Held(p, l, pc) ==
    /\ Up(p) /\ link[l].to = p /\ stage[l] \notin {"unused", "connect"}
    /\ pc \in {"callback", "header", "body"} => stage[l] \notin Early /\ unread[l] = 0
    /\ pc = "callback" => link[l].type = "CALL"
    /\ link[l].type = "SUBSCRIBE" =>
          /\ pc \in {"header", "body"} => ~Got(l) /\ Lacks(down[l], AnswerOK)
          /\ pc = "header" => stage[l] # "content" /\ Lacks(down[l], AnswerHead)
          /\ pc = "body" /\ stage[l] = "wait" => down[l] # <<>>

HandAt(p) == lis[p].link # NoLink => Held(p, lis[p].link, lis[p].pc)

(* Who is listed by q has asked q, and was entered.                        *)
ListsAt(q) ==
    /\ walk[q].at \notin walk[q].left
    /\ \A t \in Topic, n \in Name :
          LET l == client_map[q][t][n]
          IN  l # NoLink => /\ link[l].to = q /\ link[l].arg = t
                            /\ NameOf[link[l].from] = n /\ heard[l] # <<>>

(* What p polls is its own.                                                *)
SlotsAt(p) ==
    /\ ew[p].pc = "content" => ew[p].i \in Slot
    /\ \A i \in Slot : slots[p][i] # NoLink => link[slots[p][i]].from = p
    /\ \A t \in Topic : sub_list[p][t] # NoLink => link[sub_list[p][t]].from = p

(* What holds of each link, and of the threads of each process.            *)
LinkAt(l) == WireAt(l) /\ GotAt(l) /\ EntryAt(l) /\ ClientAt(l)

ThreadAt(p) == QueueAt(p) /\ HandAt(p) /\ ListsAt(p) /\ SlotsAt(p)

EventInv == (\A l \in Link : LinkAt(l)) /\ \A p \in Proc : ThreadAt(p)

-------------------------------------------------------------------------------
(* Streams of events.                                                      *)

(* A stream that begins an event later.                                    *)
LEMMA NextEvent ==
    ASSUME NEW k \in Nat, NEW base \in Nat
    PROVE  Event(k + 2, base) = Event(k, base + 1)
<1>1. (k + 2) % 2 = k % 2 /\ (k + 2) \div 2 = (k \div 2) + 1
  OBVIOUS
<1>2. Body("EVENT", base + ((k + 2) \div 2)) = Body("EVENT", (base + 1) + (k \div 2))
  <2>1. base + ((k + 2) \div 2) = (base + 1) + (k \div 2)
    BY <1>1
  <2>. QED
    BY <2>1
<1>3. CASE k % 2 = 1
  BY <1>1, <1>3 DEF Event
<1>4. CASE k % 2 # 1
  BY <1>1, <1>2, <1>4 DEF Event
<1>. QED
  BY <1>3, <1>4

(* The head of a stream is read.                                           *)
LEMMA OrderTail ==
    ASSUME NEW s \in Seq(Chunk), s # <<>>, NEW d \in -2..1, NEW base \in Nat,
           InOrder(s, d, base)
    PROVE  InOrder(Tail(s), d + 1, base)
<1>1. /\ Len(s) \in Nat /\ Len(Tail(s)) = Len(s) - 1
      /\ \A k \in 1..Len(Tail(s)) : Tail(s)[k] = s[k + 1]
  BY HeadTailProperties, LenProperties
<1>. SUFFICES ASSUME NEW k \in 1..Len(Tail(s)), k + (d + 1) >= 1
              PROVE  Tail(s)[k] = Event(k + (d + 1), base)
  BY DEF InOrder
<1>2. k + 1 \in 1..Len(s) /\ (k + 1) + d = k + (d + 1)
  BY <1>1
<1>. QED
  BY <1>1, <1>2 DEF InOrder

(* An event is read whole.                                                 *)
LEMMA OrderNext ==
    ASSUME NEW s \in Seq(Chunk), NEW base \in Nat, InOrder(s, 2, base)
    PROVE  InOrder(s, 0, base + 1)
<1>1. Len(s) \in Nat
  BY LenProperties
<1>. SUFFICES ASSUME NEW k \in 1..Len(s), k + 0 >= 1
              PROVE  s[k] = Event(k + 0, base + 1)
  BY DEF InOrder
<1>2. s[k] = Event(k + 2, base) /\ k \in Nat /\ k + 0 = k
  BY <1>1 DEF InOrder
<1>3. Event(k + 2, base) = Event(k, base + 1)
  BY <1>2, NextEvent
<1>4. s[k] = Event(k, base + 1)
  BY <1>2, <1>3, Zenon
<1>. QED
  BY <1>2, <1>4

(* The next chunk is written.                                              *)
LEMMA OrderAppend ==
    ASSUME NEW s \in Seq(Chunk), NEW d \in -2..1, NEW base \in Nat, NEW chunk \in Chunk,
           InOrder(s, d, base), chunk = Event(Len(s) + 1 + d, base)
    PROVE  InOrder(Append(s, chunk), d, base)
<1>1. /\ Len(s) \in Nat /\ Len(Append(s, chunk)) = Len(s) + 1
      /\ \A k \in 1..Len(s) : Append(s, chunk)[k] = s[k]
      /\ Append(s, chunk)[Len(s) + 1] = chunk
  BY AppendProperties, LenProperties
<1>. SUFFICES ASSUME NEW k \in 1..(Len(s) + 1), k + d >= 1
              PROVE  Append(s, chunk)[k] = Event(k + d, base)
  BY <1>1 DEF InOrder
<1>2. CASE k = Len(s) + 1
  BY <1>1, <1>2
<1>3. CASE k # Len(s) + 1
  <2>1. k \in 1..Len(s)
    BY <1>1, <1>3
  <2>. QED
    BY <1>1, <2>1 DEF InOrder
<1>. QED
  BY <1>2, <1>3

(* A chunk is not in what is empty, in what is left, or in what is added.  *)
LEMMA LacksChunk ==
    ASSUME NEW s \in Seq(Chunk), NEW x, Lacks(s, x)
    PROVE  /\ s # <<>> => Lacks(Tail(s), x) /\ Head(s) # x
           /\ \A chunk \in Chunk : chunk # x => Lacks(Append(s, chunk), x)
<1>0. Len(s) \in Nat
  BY LenProperties
<1>1. ASSUME s # <<>> PROVE Lacks(Tail(s), x) /\ Head(s) # x
  <2>1. /\ Len(Tail(s)) = Len(s) - 1 /\ Head(s) = s[1] /\ Len(s) >= 1
        /\ \A k \in 1..Len(Tail(s)) : Tail(s)[k] = s[k + 1]
    BY <1>0, <1>1, HeadTailProperties, EmptySeq
  <2>2. ASSUME NEW k \in 1..Len(Tail(s)) PROVE Tail(s)[k] # x
    <3>1. k + 1 \in 1..Len(s)
      BY <1>0, <2>1
    <3>. QED
      BY <2>1, <3>1 DEF Lacks
  <2>3. Head(s) # x
    BY <1>0, <2>1 DEF Lacks
  <2>. QED
    BY <2>2, <2>3 DEF Lacks
<1>2. ASSUME NEW chunk \in Chunk, chunk # x PROVE Lacks(Append(s, chunk), x)
  <2>1. /\ Len(Append(s, chunk)) = Len(s) + 1
        /\ \A k \in 1..Len(s) : Append(s, chunk)[k] = s[k]
        /\ Append(s, chunk)[Len(s) + 1] = chunk
    BY <1>0, AppendProperties
  <2>2. ASSUME NEW k \in 1..(Len(s) + 1) PROVE Append(s, chunk)[k] # x
    <3>1. CASE k = Len(s) + 1
      BY <1>2, <2>1, <3>1
    <3>2. CASE k # Len(s) + 1
      <4>1. k \in 1..Len(s)
        BY <1>0, <3>2
      <4>. QED
        BY <2>1, <4>1 DEF Lacks
    <3>. QED
      BY <3>1, <3>2
  <2>. QED
    BY <2>1, <2>2 DEF Lacks
<1>. QED
  BY <1>1, <1>2

(* How many chunks are published and not yet read or written.              *)
LEMMA ChunkCounts ==
    ASSUME NEW long \in Int, NEW last \in Int, NEW base \in Int, NEW d \in Int,
           NEW owed \in {0, 1, 2}
    PROVE  /\ long + 1 <= 2 * (last - base) => (long - 1) + 0 <= 2 * (last - (base + 1))
           /\ long + 1 = 2 * (last - base) - owed
                 => (long - 1) + 0 = 2 * (last - (base + 1)) - owed
           /\ owed # 0 /\ long + d = 2 * (last - base) - owed
                 => /\ (long + 1) + d = 2 * (last - base) - (owed - 1)
                    /\ (long + 1) + d <= 2 * (last - base)
  OBVIOUS

(* Headers and contents alternate.                                         *)
LEMMA PartsAlternate == \A k \in Nat : (k + 1) % 2 = 1 <=> k % 2 # 1
  OBVIOUS

-------------------------------------------------------------------------------
(* What a step leaves alone.                                               *)

(* Nothing happens on l.                                                   *)
Still(l) ==
    /\ link'[l] = link[l] /\ stage'[l] = stage[l] /\ unread'[l] = unread[l]
    /\ down'[l] = down[l] /\ far'[l] = far[l] /\ heard'[l] = heard[l]
    /\ near'[l] = "open" <=> near[l] = "open"

(* The subscriber polls what it polled, and does not begin to.             *)
PollStill(l) ==
    /\ Recorded(l)' => Recorded(l)
    /\ Got(l)' => Got(l)
    /\ InRead(l)' <=> InRead(l)
    /\ link[l].from \in Proc /\ HasCallback(link[l].from, l)'
          => HasCallback(link[l].from, l)

(* The publisher publishes nothing to l and keeps it in its list.          *)
PubStill(l) ==
    heard[l] # <<>> /\ near[l] = "open" =>
        /\ Published(l)' = Published(l)
        /\ Up(link[l].to)' =>
              /\ Up(link[l].to) /\ Owed(l)' = Owed(l)
              /\ client_map[link[l].to][link[l].arg][NameOf[link[l].from]] = l
                    => client_map'[link[l].to][link[l].arg][NameOf[link[l].from]] = l

(* A link is made once, and a process joins and ends once.                 *)
LinksStay == \A l \in Link : link[l] # NoInfo => link'[l] = link[l]

(* Who has ended stays so, and who has joined is not absent again.        *)
Lives ==
    \A p \in Proc : /\ proc[p] = "ended" => proc'[p] = "ended"
                    /\ proc'[p] = "absent" => proc[p] = "absent"

(* The types of a link.                                                    *)
LEMMA LinkTypes ==
    ASSUME TypeInv, NEW l \in Link
    PROVE  /\ link[l] \in LinkInfo /\ stage[l] \in Stage /\ unread[l] \in 0..2
           /\ down[l] \in Seq(Chunk) /\ heard[l] \in Seq(Nat) /\ Len(down[l]) \in Nat
           /\ near[l] \in {"open", "closed", "reset", "broken"}
           /\ far[l] \in {"open", "closed", "reset"}
           /\ stage[l] # "unused" =>
                 /\ link[l].from \in Proc /\ link[l].to \in Proc
                 /\ NameOf[link[l].from] \in Name
                 /\ link[l].type = "SUBSCRIBE" =>
                       link[l].arg \in Topic /\ Published(l) \in 0..MaxEvents
           /\ stage[l] = "unused" <=> link[l] = NoInfo
<1>1. /\ link[l] \in LinkInfo /\ stage[l] \in Stage /\ unread[l] \in 0..2
      /\ down[l] \in Seq(Chunk) /\ heard[l] \in Seq(Nat)
      /\ near[l] \in {"open", "closed", "reset", "broken"}
      /\ far[l] \in {"open", "closed", "reset"}
      /\ stage[l] # "unused" => link[l].from \in Proc /\ link[l].to \in Proc
      /\ count \in [Proc -> [Topic -> 0..MaxEvents]]
  BY DEF TypeInv, TypeOK, ParticipantTypeOK, LinksTypeOK, EventTypeOK
<1>2. stage[l] = "unused" <=> link[l] = NoInfo
  BY <1>1, LinkConstants DEF TypeInv, Unmade, NoInfo
<1>3. stage[l] # "unused" /\ link[l].type = "SUBSCRIBE" => link[l].arg \in Topic
  BY DEF TypeInv, Unmade, RightArg
<1>4. stage[l] # "unused" => NameOf[link[l].from] \in Name
  BY <1>1, ParticipantConstants
<1>. QED
  BY <1>1, <1>2, <1>3, <1>4, LenProperties DEF Published

(* The wire of a link on which nothing happens.                            *)
LEMMA WireStill ==
    ASSUME TypeInv, Lives, NEW l \in Link, WireAt(l), Still(l)
    PROVE  WireAt(l)'
<1>1. heard[l] # <<>> \/ far[l] # "open" => link[l].to \in Proc
  BY LinkTypes DEF WireAt, Early
<1>. QED
  BY <1>1 DEF WireAt, Still, Lives

(* A link that is clean is open on this side.                              *)
LEMMA CleanOpen ==
    ASSUME NEW l \in Link, WireAt(l), GotAt(l), NEW d, Clean(l, d)
    PROVE  near[l] = "open" /\ stage[l] \notin Early
<1>1. stage[l] \in {"wait", "content", "granted", "push", "true"}
  BY DEF Clean, Answered, GotAt
<1>. QED
  BY <1>1 DEF WireAt, Early

(* The stream of such a link.                                              *)
LEMMA ClientStill ==
    ASSUME TypeInv, NEW l \in Link, LinkAt(l), Still(l), PollStill(l), PubStill(l)
    PROVE  ClientAt(l)'
<1>. SUFFICES ASSUME link[l].type = "SUBSCRIBE", NEW d \in Shift, Clean(l, d)'
              PROVE  Streams(l, d)'
  BY DEF ClientAt, Still
<1>1. Clean(l, d)
  BY DEF Clean, Still, PollStill
<1>2. near[l] = "open" /\ stage[l] \notin Early /\ Streams(l, d)
  BY <1>1, CleanOpen DEF LinkAt, ClientAt
<1>3. CASE heard[l] = <<>>
  BY <1>2, <1>3 DEF Streams, Still
<1>4. CASE heard[l] # <<>>
  <2>1. PICK base \in 0..Published(l) :
           Flows(l, d, base) /\ (Own(l) => base = Last(heard[l]))
    BY <1>2, <1>4 DEF Streams
  <2>2. /\ Published(l)' = Published(l)
        /\ Up(link[l].to)' => Up(link[l].to) /\ Owed(l)' = Owed(l)
    BY <1>2, <1>4 DEF PubStill
  <2>3. Own(l)' => Own(l)
    <3>1. link[l].from \in Proc
      BY <1>2, LinkTypes DEF Early
    <3>. QED
      BY <3>1 DEF Own, Still, PollStill
  <2>4. Flows(l, d, base)'
    BY <2>1, <2>2 DEF Flows, Still
  <2>. QED
    BY <1>4, <2>1, <2>2, <2>3, <2>4 DEF Streams, Still
<1>. QED
  BY <1>3, <1>4

(* A link that no step is about keeps its invariant.                       *)
LEMMA LinkStill ==
    ASSUME TypeInv, Lives, NEW l \in Link, LinkAt(l), Still(l), PollStill(l), PubStill(l)
    PROVE  LinkAt(l)'
<1>1. WireAt(l)' /\ ClientAt(l)'
  BY WireStill, ClientStill DEF LinkAt
<1>2. GotAt(l)'
  BY DEF LinkAt, GotAt, Still, PollStill
<1>3. EntryAt(l)'
  BY DEF LinkAt, EntryAt, Still, PubStill
<1>. QED
  BY <1>1, <1>2, <1>3 DEF LinkAt

(* Whatever thread has l in hand and does nothing may go on.               *)
HandsStay(l) ==
    \A q \in Proc : lis'[q] = lis[q] => \A pc : Held(q, l, pc) => Held(q, l, pc)'

(* A link on which nothing happens.                                        *)
LEMMA HandStill ==
    ASSUME NEW l, Still(l), Got(l)' => Got(l), \A q \in Proc : Up(q) => Up(q)'
    PROVE  /\ HandsStay(l)
           /\ \A q \in Proc : \A pc : Held(q, l, pc) => Held(q, l, pc)'
  BY DEF HandsStay, Held, Still

(* The links that wait for q wait on.                                      *)
LEMMA QueueKept ==
    ASSUME TypeInv, LinksStay, NEW q \in Proc, QueueAt(q), backlog'[q] = backlog[q],
           lis'[q].link \in {lis[q].link, NoLink},
           \A l \in Link \ {lis[q].link} :
              link[l].to = q /\ unread[l] > 0 => unread'[l] > 0
    PROVE  QueueAt(q)'
<1>1. \A k \in DOMAIN backlog[q] : backlog[q][k] \in Link
  BY ElementOfSeq DEF TypeInv, TypeOK, ParticipantTypeOK
<1>2. ASSUME NEW k \in DOMAIN backlog[q]
      PROVE  /\ link'[backlog[q][k]].to = q /\ unread'[backlog[q][k]] > 0
             /\ backlog[q][k] # lis'[q].link
  <2>1. /\ link[backlog[q][k]].to = q /\ unread[backlog[q][k]] > 0
        /\ backlog[q][k] # lis[q].link
    BY DEF QueueAt
  <2>2. backlog[q][k] \in Link /\ link[backlog[q][k]] # NoInfo
    BY <1>1, <2>1, LinkConstants DEF NoInfo
  <2>. QED
    BY <2>1, <2>2 DEF LinksStay, Link, NoLink
<1>. QED
  BY <1>2 DEF QueueAt

(* What the listening thread of q has in hand, it has.                     *)
LEMMA HandKept ==
    ASSUME NEW q \in Proc, HandAt(q), lis'[q] = lis[q], TypeInv,
           \A l \in Link : HandsStay(l)
    PROVE  HandAt(q)'
<1>. SUFFICES ASSUME lis[q].link # NoLink PROVE HandAt(q)'
  BY DEF HandAt
<1>1. PICK l \in Link, pc \in {lis[q].pc} : l = lis[q].link
  BY DEF TypeInv, TypeOK, ParticipantTypeOK, Listener
<1>2. Held(q, l, pc)'
  BY <1>1 DEF HandAt, HandsStay
<1>. QED
  BY <1>1, <1>2 DEF HandAt

(* Who is listed stays listed for what it asked.                           *)
LEMMA ListsKept ==
    ASSUME TypeInv, LinksStay, NEW q \in Proc, ListsAt(q),
           client_map'[q] = client_map[q], walk'[q] = walk[q],
           \A l \in Link : heard[l] # <<>> => heard'[l] # <<>>
    PROVE  ListsAt(q)'
<1>1. client_map[q] \in [Topic -> [Name -> Link \cup {NoLink}]]
  BY DEF TypeInv, TypeOK, EventTypeOK
<1>2. ASSUME NEW t \in Topic, NEW n \in Name, NEW l \in Link, client_map[q][t][n] = l
      PROVE  /\ link'[l].to = q /\ link'[l].arg = t
             /\ NameOf[link'[l].from] = n /\ heard'[l] # <<>>
  <2>1. /\ link[l].to = q /\ link[l].arg = t
        /\ NameOf[link[l].from] = n /\ heard[l] # <<>>
    BY <1>2 DEF ListsAt, Link, NoLink
  <2>2. link[l] # NoInfo
    BY <2>1, LinkConstants DEF NoInfo
  <2>. QED
    BY <2>1, <2>2 DEF LinksStay
<1>3. ASSUME NEW t \in Topic, NEW n \in Name, client_map[q][t][n] # NoLink
      PROVE  /\ link'[client_map[q][t][n]].to = q /\ link'[client_map[q][t][n]].arg = t
             /\ NameOf[link'[client_map[q][t][n]].from] = n
             /\ heard'[client_map[q][t][n]] # <<>>
  <2>1. client_map[q][t][n] \in Link
    BY <1>1, <1>3
  <2>. QED
    BY <1>2, <2>1
<1>. QED
  BY <1>3 DEF ListsAt

(* What q polls, and a link that is recorded.                              *)
LEMMA SlotsKept ==
    ASSUME TypeInv, LinksStay, NEW q \in Proc, SlotsAt(q),
           slots'[q] = slots[q], sub_list'[q] = sub_list[q],
           ew'[q].pc = "content" => ew'[q].i \in Slot
    PROVE  SlotsAt(q)'
<1>1. /\ slots[q] \in [Slot -> Link \cup {NoLink}]
      /\ sub_list[q] \in [Topic -> Link \cup {NoLink}]
  BY DEF TypeInv, TypeOK, EventTypeOK
<1>2. \A l \in Link : link[l].from = q => link'[l].from = q
  BY LinkConstants DEF LinksStay, NoInfo
<1>3. ASSUME NEW i \in Slot, slots[q][i] # NoLink PROVE link'[slots[q][i]].from = q
  BY <1>1, <1>2, <1>3 DEF SlotsAt
<1>4. ASSUME NEW t \in Topic, sub_list[q][t] # NoLink PROVE link'[sub_list[q][t]].from = q
  BY <1>1, <1>2, <1>4 DEF SlotsAt
<1>. QED
  BY <1>3, <1>4 DEF SlotsAt

(* Nothing happens in q, and what it has in hand may go on.                *)
Sleeps(q) ==
    /\ backlog'[q] = backlog[q] /\ lis'[q] = lis[q]
    /\ client_map'[q] = client_map[q] /\ walk'[q] = walk[q]
    /\ slots'[q] = slots[q] /\ sub_list'[q] = sub_list[q] /\ ew'[q] = ew[q]

(* What the other threads need of the links.                               *)
LinksServe ==
    \A l \in Link : /\ HandsStay(l)
                    /\ heard[l] # <<>> => heard'[l] # <<>>

(* A request that waits for q still waits.                                 *)
Unanswered(q) ==
    \A l \in Link \ {lis[q].link} :
        link[l].to = q /\ unread[l] > 0 => unread'[l] > 0

(* A thread whose process does nothing keeps its part of EventInv.         *)
LEMMA ThreadKept ==
    ASSUME TypeInv, LinksStay, LinksServe, NEW q \in Proc, ThreadAt(q), Sleeps(q),
           Unanswered(q)
    PROVE  ThreadAt(q)'
<1>1. QueueAt(q)' /\ HandAt(q)' /\ ListsAt(q)'
  BY QueueKept, HandKept, ListsKept DEF ThreadAt, Sleeps, Unanswered, LinksServe
<1>2. ew'[q].pc = "content" => ew'[q].i \in Slot
  BY DEF ThreadAt, SlotsAt, Sleeps
<1>3. SlotsAt(q)'
  BY <1>2, SlotsKept DEF ThreadAt, Sleeps
<1>. QED
  BY <1>1, <1>3 DEF ThreadAt

(* The polling threads do nothing, and l is not being recorded.            *)
LEMMA PollSame ==
    ASSUME NEW l, UNCHANGED <<sub_list, slots, ew>>, link'[l] = link[l],
           stage'[l] = stage[l] \/ stage'[l] \notin {"granted", "push"}
    PROVE  PollStill(l) /\ Recorded(l)' = Recorded(l)
  BY DEF PollStill, Got, Recorded, InRead, HasCallback, Subscriptions

(* The publishers do nothing but what is not for subscribers.              *)
LEMMA PubSame ==
    ASSUME TypeInv, NEW l \in Link, WireAt(l), link'[l] = link[l],
           UNCHANGED <<client_map, walk, count>>,
           \A q \in Proc : Up(q)' /\ proc[q] # "absent" => Up(q),
           \A q \in Proc : app'[q] = app[q] \/ (app[q].op # "walk" /\ app'[q].op # "walk")
    PROVE  PubStill(l)
<1>. SUFFICES ASSUME heard[l] # <<>> PROVE PubStill(l)
  BY DEF PubStill
<1>1. link[l].to \in Proc /\ proc[link[l].to] # "absent"
  BY LinkTypes DEF WireAt, Early
<1>2. Owed(l)' = Owed(l)
  BY <1>1 DEF Owed
<1>. QED
  BY <1>1, <1>2 DEF PubStill, Published

-------------------------------------------------------------------------------
(* Steps that are about no link.                                           *)

(* A step that touches no link.                                            *)
LEMMA NoLinkStep ==
    ASSUME TypeInv, EventInv, Lives,
           UNCHANGED <<linkVars, heard, client_map, walk, slots, sub_list, ew>>,
           \A l \in Link : PubStill(l),
           \A q \in Proc : QueueAt(q)' /\ HandAt(q)'
    PROVE  EventInv'
<1>1. ASSUME NEW l \in Link PROVE LinkAt(l)'
  <2>1. Still(l)
    BY DEF Still
  <2>2. PollStill(l)
    BY PollSame
  <2>. QED
    BY <2>1, <2>2, LinkStill DEF EventInv
<1>2. ASSUME NEW q \in Proc PROVE ThreadAt(q)'
  <2>1. ListsAt(q)'
    BY ListsKept DEF EventInv, ThreadAt, LinksStay
  <2>2. SlotsAt(q)'
    BY SlotsKept DEF EventInv, ThreadAt, SlotsAt, LinksStay
  <2>. QED
    BY <2>1, <2>2 DEF ThreadAt
<1>. QED
  BY <1>1, <1>2 DEF EventInv

(* The listening threads do nothing either.                                *)
LEMMA AsideStep ==
    ASSUME TypeInv, EventInv, Lives, UNCHANGED <<lis, backlog>>,
           UNCHANGED <<linkVars, heard, client_map, walk, slots, sub_list, ew>>,
           \A l \in Link : PubStill(l),
           \A q \in Proc : Up(q) => Up(q)'
    PROVE  EventInv'
<1>1. \A l \in Link : HandsStay(l)
  <2>1. ASSUME NEW l \in Link PROVE HandsStay(l)
    <3>1. Still(l) /\ (Got(l)' => Got(l))
      BY DEF Still, Got, Recorded
    <3>. QED
      BY <3>1, HandStill
  <2>. QED
    BY <2>1
<1>2. ASSUME NEW q \in Proc PROVE QueueAt(q)' /\ HandAt(q)'
  BY <1>1, QueueKept, HandKept DEF EventInv, ThreadAt, LinksStay
<1>. QED
  BY <1>2, NoLinkStep

(* Joining, being forgotten, and what is said to the master.               *)
LEMMA MasterStill ==
    ASSUME TypeInv, EventInv, NEW p \in Proc,
           \/ (Join(p) \/ Forget(p)) /\ UNCHANGED eventVars
           \/ \E t \in Topic : Advertise(p, t)
           \/ (\E m \in Method : Provide(p, m)) /\ UNCHANGED eventVars
           \/ Provided(p) /\ UNCHANGED eventVars
    PROVE  EventInv'
<1>0. /\ proc \in [Proc -> {"absent", "up", "ended"}] /\ app \in [Proc -> Activity]
  BY DEF TypeInv, TypeOK, ParticipantTypeOK
<1>1. UNCHANGED <<linkVars, lis, backlog, eventVars>>
  BY DEF Join, Forget, Advertise, Provide, Provided
<1>2. /\ \/ proc' = proc
         \/ proc[p] = "absent" /\ proc' = [proc EXCEPT ![p] = "up"]
      /\ \A q \in Proc :
            app'[q] = app[q] \/ (app[q].op # "walk" /\ app'[q].op # "walk")
  <2>1. CASE Join(p)
    BY <2>1 DEF Join
  <2>2. CASE Forget(p)
    BY <2>2 DEF Forget
  <2>3. ASSUME NEW t \in Topic, Advertise(p, t)
        PROVE  proc' = proc /\ \A q \in Proc :
                  app'[q] = app[q] \/ (app[q].op # "walk" /\ app'[q].op # "walk")
    BY <1>0, <2>3 DEF Advertise, Starts, Idle, AtRest
  <2>4. ASSUME NEW m \in Method, Provide(p, m)
        PROVE  proc' = proc /\ \A q \in Proc :
                  app'[q] = app[q] \/ (app[q].op # "walk" /\ app'[q].op # "walk")
    BY <1>0, <2>4 DEF Provide, Starts, Idle, AtRest
  <2>5. CASE Provided(p)
    BY <1>0, <2>5 DEF Provided, AtRest
  <2>. QED
    BY <2>1, <2>2, <2>3, <2>4, <2>5
<1>4. Lives /\ \A q \in Proc : (Up(q) => Up(q)') /\ (Up(q)' /\ proc[q] # "absent" => Up(q))
  BY <1>0, <1>2 DEF Lives, Up
<1>5. ASSUME NEW l \in Link PROVE PubStill(l)
  <2>1. WireAt(l) /\ link'[l] = link[l] /\ UNCHANGED <<client_map, walk, count>>
    BY <1>1 DEF EventInv, LinkAt
  <2>2. \A q \in Proc : Up(q)' /\ proc[q] # "absent" => Up(q)
    BY <1>4
  <2>3. \A q \in Proc : app'[q] = app[q] \/ (app[q].op # "walk" /\ app'[q].op # "walk")
    BY <1>2
  <2>. QED
    BY <2>1, <2>2, <2>3, PubSame
<1>. QED
  BY <1>1, <1>4, <1>5, AsideStep

(* The listening thread listens, takes up a link, or leaves it.            *)
LEMMA ListenStill ==
    ASSUME TypeInv, EventInv, NEW p \in Proc, UNCHANGED eventVars,
           \/ Listen(p) \/ Accept(p) \/ Incomplete(p) \/ CallbackReturns(p)
    PROVE  EventInv'
<1>0. /\ lis \in [Proc -> Listener] /\ backlog \in [Proc -> Seq(Link)]
      /\ lis[p].pc \notin {"starting", "accept"} => lis[p].link # NoLink
      /\ QueueAt(p) /\ HandAt(p)
  BY DEF TypeInv, TypeOK, ParticipantTypeOK, EventInv, ThreadAt
<1>1. UNCHANGED <<linkVars, proc, app, eventVars>> /\ Up(p)
      /\ \A q \in Proc : q # p => lis'[q] = lis[q] /\ backlog'[q] = backlog[q]
  <2>1. CASE Listen(p)
    BY <1>0, <2>1 DEF Listen
  <2>2. CASE Accept(p)
    BY <1>0, <2>2 DEF Accept
  <2>3. CASE Incomplete(p)
    BY <1>0, <2>3 DEF Incomplete
  <2>4. CASE CallbackReturns(p)
    BY <1>0, <2>4 DEF CallbackReturns, InCallback, Answers
  <2>. QED
    BY <2>1, <2>2, <2>3, <2>4
<1>2. ASSUME NEW l \in Link PROVE PubStill(l)
  <2>1. WireAt(l) /\ link'[l] = link[l] /\ UNCHANGED <<client_map, walk, count>>
    BY <1>1 DEF EventInv, LinkAt
  <2>2. \A q \in Proc : Up(q)' /\ proc[q] # "absent" => Up(q)
    BY <1>1 DEF Up
  <2>3. \A q \in Proc : app'[q] = app[q] \/ (app[q].op # "walk" /\ app'[q].op # "walk")
    BY <1>1
  <2>. QED
    BY <2>1, <2>2, <2>3, PubSame
<1>3. ASSUME NEW l \in Link
      PROVE  /\ HandsStay(l)
             /\ \A q \in Proc : \A pc : Held(q, l, pc) => Held(q, l, pc)'
  <2>1. Still(l) /\ (Got(l)' => Got(l))
    BY <1>1 DEF Still, Got, Recorded
  <2>2. \A q \in Proc : Up(q) => Up(q)'
    BY <1>1 DEF Up
  <2>. QED
    BY <2>1, <2>2, HandStill
<1>4. ASSUME NEW q \in Proc, q # p PROVE QueueAt(q)' /\ HandAt(q)'
  BY <1>1, <1>3, <1>4, QueueKept, HandKept DEF EventInv, ThreadAt, LinksStay
<1>5. QueueAt(p)' /\ HandAt(p)'
  <2>1. CASE Listen(p) \/ Incomplete(p)
    <3>1. backlog' = backlog /\ lis'[p].link = NoLink
      BY <1>0, <2>1 DEF Listen, Incomplete, Free
    <3>. QED
      BY <1>0, <1>1, <3>1, QueueKept DEF HandAt, LinksStay
  <2>2. CASE Accept(p)
    <3>1. PICK s \in Seq(Link), l \in Link :
             s = backlog[p] /\ s # <<>> /\ l = Head(s) /\ l = s[1]
      BY <1>0, <2>2, HeadTailProperties DEF Accept
    <3>2. backlog'[p] = Tail(s) /\ lis'[p].link = l /\ lis'[p].pc = "read"
      BY <1>0, <2>2, <3>1 DEF Accept
    <3>3. /\ Len(s) \in Nat /\ Len(Tail(s)) = Len(s) - 1 /\ Len(s) >= 1
          /\ \A k \in 1..Len(Tail(s)) : Tail(s)[k] = s[k + 1]
          /\ DOMAIN s = 1..Len(s) /\ DOMAIN Tail(s) = 1..Len(Tail(s))
      BY <3>1, HeadTailProperties, LenProperties, EmptySeq
    <3>4. /\ \A k \in 1..Len(s) : link[s[k]].to = p /\ unread[s[k]] > 0
          /\ \A j, k \in 1..Len(s) : j # k => s[j] # s[k]
      <4>1. /\ \A k \in DOMAIN s : link[s[k]].to = p /\ unread[s[k]] > 0
            /\ \A j, k \in DOMAIN s : j # k => s[j] # s[k]
        BY <1>0, <3>1 DEF QueueAt
      <4>. QED
        BY <3>3, <4>1
    <3>5. ASSUME NEW k \in 1..Len(Tail(s))
          PROVE  k + 1 \in 1..Len(s) /\ k + 1 # 1 /\ 1 \in 1..Len(s)
      BY <3>3
    <3>6. QueueAt(p)'
      <4>1. ASSUME NEW k \in 1..Len(Tail(s))
            PROVE  /\ link[Tail(s)[k]].to = p /\ unread[Tail(s)[k]] > 0
                   /\ Tail(s)[k] # l
        BY <3>1, <3>3, <3>4, <3>5
      <4>2. ASSUME NEW j \in 1..Len(Tail(s)), NEW k \in 1..Len(Tail(s)), j # k
            PROVE  Tail(s)[j] # Tail(s)[k]
        <5>1. j + 1 # k + 1 /\ j + 1 \in 1..Len(s) /\ k + 1 \in 1..Len(s)
          BY <3>3, <4>2
        <5>. QED
          BY <3>3, <3>4, <5>1
      <4>3. link' = link /\ unread' = unread
        BY <1>1
      <4>. QED
        BY <3>2, <3>3, <4>1, <4>2, <4>3 DEF QueueAt
    <3>7. link[l].to = p /\ unread[l] > 0
      BY <3>1, <3>3, <3>4
    <3>8. stage[l] \notin {"unused", "connect"}
      BY <3>7 DEF EventInv, LinkAt, WireAt
    <3>9. Held(p, l, "read")
      BY <1>1, <3>7, <3>8 DEF Held
    <3>10. Held(p, l, "read")'
      BY <1>3, <3>9
    <3>11. HandAt(p)'
      BY <3>2, <3>10 DEF HandAt
    <3>. QED
      BY <3>6, <3>11
  <2>3. CASE CallbackReturns(p)
    <3>1. /\ lis[p].pc = "callback" /\ lis'[p].pc = "header" /\ backlog' = backlog
          /\ lis'[p].link = lis[p].link
      BY <1>0, <2>3 DEF CallbackReturns, InCallback, Answers
    <3>2. PICK l \in Link : l = lis[p].link
      BY <1>0, <3>1 DEF Listener
    <3>3. Held(p, l, "callback")
      BY <1>0, <3>1, <3>2 DEF HandAt
    <3>4. Held(p, l, "header")
      BY <3>3 DEF Held
    <3>5. Held(p, l, "header")'
      BY <1>3, <3>4
    <3>. QED
      BY <1>0, <1>1, <3>1, <3>2, <3>5, QueueKept DEF HandAt, LinksStay
  <2>. QED
    BY <2>1, <2>2, <2>3
<1>. QED
  BY <1>1, <1>2, <1>4, <1>5, NoLinkStep DEF Lives, Up

-------------------------------------------------------------------------------
(* Steps about a link.                                                     *)

(* Each link and each process is left alone, or right after the step.      *)
LEMMA StepKeeps ==
    ASSUME TypeInv, EventInv, Lives, LinksStay, \A q \in Proc : Up(q) => Up(q)',
           \A l \in Link : \/ Still(l) /\ PollStill(l) /\ PubStill(l)
                           \/ /\ LinkAt(l)' /\ HandsStay(l)
                              /\ heard[l] # <<>> => heard'[l] # <<>>,
           LinksServe => \A q \in Proc : ThreadAt(q)' \/ (Sleeps(q) /\ Unanswered(q))
    PROVE  EventInv'
<1>1. ASSUME NEW l \in Link PROVE LinkAt(l)'
  <2>1. LinkAt(l)
    BY DEF EventInv
  <2>. QED
    BY <2>1, LinkStill
<1>2. ASSUME NEW l \in Link PROVE HandsStay(l) /\ (heard[l] # <<>> => heard'[l] # <<>>)
  <2>1. CASE Still(l) /\ PollStill(l)
    BY <2>1, HandStill DEF Still, PollStill
  <2>. QED
    BY <2>1
<1>3. LinksServe
  BY <1>2 DEF LinksServe
<1>4. ASSUME NEW q \in Proc PROVE ThreadAt(q)'
  BY <1>3, ThreadKept DEF EventInv
<1>. QED
  BY <1>1, <1>4 DEF EventInv

-------------------------------------------------------------------------------
(* The thread that polls.                                                  *)

(* A link is read by the process that made it.                             *)
LEMMA ReadBy ==
    ASSUME \A q \in Proc : SlotsAt(q), NEW l \in Link, NEW p \in Proc, link[l].from = p
    PROVE  InRead(l) <=> ew[p].pc = "content" /\ slots[p][ew[p].i] = l
  BY DEF SlotsAt, InRead, Link, NoLink

(* The same after a step.                                                  *)
LEMMA ReadByNext ==
    ASSUME \A q \in Proc : SlotsAt(q)', NEW l \in Link, NEW p \in Proc, link'[l].from = p
    PROVE  InRead(l)' <=> ew'[p].pc = "content" /\ slots'[p][ew'[p].i] = l
  BY DEF SlotsAt, InRead, Link, NoLink

(* What the polling thread of p leaves alone.                              *)
WorkerShare(p) ==
    /\ UNCHANGED <<link, stage, unread, near, far, directoryVars, proc, app, lis,
                   backlog, publisherVars, sub_list>>
    /\ \A q \in Proc : q # p => slots'[q] = slots[q] /\ ew'[q] = ew[q]

(* A step of the polling thread, but for what it reads.                    *)
LEMMA WorkerKeeps ==
    ASSUME TypeInv, EventInv, NEW p \in Proc, WorkerShare(p), SlotsAt(p)',
           \A l \in Link :
              /\ Recorded(l)' => Recorded(l)
              /\ \/ Still(l) /\ (InRead(l)' <=> InRead(l))
                 \/ /\ LinkAt(l)' /\ HandsStay(l)
                    /\ heard[l] # <<>> => heard'[l] # <<>>
    PROVE  EventInv'
<1>1. Lives /\ LinksStay /\ (\A q \in Proc : Up(q) => Up(q)')
  BY DEF WorkerShare, Lives, LinksStay, Up
<1>2. ASSUME NEW l \in Link
      PROVE  \/ Still(l) /\ PollStill(l) /\ PubStill(l)
             \/ /\ LinkAt(l)' /\ HandsStay(l)
                /\ heard[l] # <<>> => heard'[l] # <<>>
  <2>1. CASE Still(l) /\ (InRead(l)' <=> InRead(l))
    <3>1. PollStill(l)
      BY <2>1 DEF PollStill, Got, Still, WorkerShare, HasCallback, Subscriptions
    <3>2. PubStill(l)
      BY DEF PubStill, Published, Owed, WorkerShare, Up
    <3>. QED
      BY <2>1, <3>1, <3>2
  <2>. QED
    BY <2>1
<1>3. ASSUME LinksServe, NEW q \in Proc PROVE ThreadAt(q)' \/ (Sleeps(q) /\ Unanswered(q))
  <2>1. Unanswered(q)
    BY DEF WorkerShare, Unanswered
  <2>2. CASE q # p
    BY <2>1, <2>2 DEF WorkerShare, Sleeps
  <2>3. CASE q = p
    <3>1. ThreadAt(q) /\ (\A l \in Link : HandsStay(l) /\ (heard[l] # <<>> => heard'[l] # <<>>))
      BY <1>3 DEF EventInv, LinksServe
    <3>2. backlog' = backlog /\ lis' = lis /\ client_map' = client_map /\ walk' = walk
      BY DEF WorkerShare
    <3>3. QueueAt(q)'
      BY <1>1, <2>1, <3>1, <3>2, QueueKept DEF ThreadAt, Unanswered
    <3>4. HandAt(q)' /\ ListsAt(q)'
      BY <1>1, <3>1, <3>2, HandKept, ListsKept DEF ThreadAt
    <3>. QED
      BY <2>3, <3>3, <3>4 DEF ThreadAt
  <2>. QED
    BY <2>2, <2>3
<1>. QED
  BY <1>1, <1>2, <1>3, StepKeeps

(* Steps of the polling thread that read nothing.                          *)
LEMMA PollStepKeeps ==
    ASSUME TypeInv, EventInv, NEW p \in Proc,
           \/ DrainNew(p) \/ StartPoll(p) \/ Poll(p) \/ ScanDone(p)
           \/ \E i \in Slot : ReadEof(p, i)
    PROVE  EventInv'
<1>0. /\ slots \in [Proc -> [Slot -> Link \cup {NoLink}]] /\ ew \in [Proc -> Worker]
      /\ sub_list \in [Proc -> [Topic -> Link \cup {NoLink}]]
      /\ new_q \in [Proc -> Seq(Topic)] /\ SlotsAt(p)
  BY DEF TypeInv, TypeOK, EventTypeOK, EventInv, ThreadAt
<1>. DEFINE Reslots == \A i \in Slot :
              \/ slots'[p][i] \in {slots[p][i], NoLink}
              \/ \E t \in Topic : slots'[p][i] = sub_list[p][t]
<1>1. /\ WorkerShare(p) /\ UNCHANGED <<down, heard>>
      /\ ew[p].pc # "content" /\ ew'[p].pc # "content" /\ Reslots
  <2>1. CASE DrainNew(p)
    <3>1. Head(new_q[p]) \in Topic
      BY <1>0, <2>1 DEF DrainNew
    <3>2. Reslots
      BY <1>0, <2>1, <3>1 DEF DrainNew
    <3>. QED
      BY <1>0, <2>1, <3>2 DEF DrainNew, WorkerShare
  <2>2. CASE StartPoll(p)
    BY <1>0, <2>2 DEF StartPoll, WorkerShare, Worker
  <2>3. CASE Poll(p)
    BY <1>0, <2>3 DEF Poll, WorkerShare, Drain
  <2>4. CASE ScanDone(p)
    BY <1>0, <2>4 DEF ScanDone, WorkerShare, Drain
  <2>5. ASSUME NEW i \in Slot, ReadEof(p, i)
        PROVE  /\ WorkerShare(p) /\ UNCHANGED <<down, heard>>
               /\ ew[p].pc # "content" /\ ew'[p].pc # "content" /\ Reslots
    BY <1>0, <2>5 DEF ReadEof, WorkerShare, AtSlot, NextSlot
  <2>. QED
    BY <2>1, <2>2, <2>3, <2>4, <2>5
<1>2. SlotsAt(p)'
  <2>1. ASSUME NEW i \in Slot, slots'[p][i] # NoLink PROVE link'[slots'[p][i]].from = p
    <3>1. link' = link
      BY <1>1 DEF WorkerShare
    <3>2. \/ slots'[p][i] = slots[p][i]
          \/ \E t \in Topic : slots'[p][i] = sub_list[p][t]
      BY <1>1, <2>1
    <3>. QED
      BY <1>0, <2>1, <3>1, <3>2 DEF SlotsAt
  <2>. QED
    BY <1>0, <1>1, <2>1 DEF SlotsAt, WorkerShare
<1>3. ASSUME NEW l \in Link
      PROVE  /\ Recorded(l)' => Recorded(l)
             /\ Still(l) /\ (InRead(l)' <=> InRead(l))
  <2>1. Recorded(l)' => Recorded(l)
    <3>1. ASSUME NEW q \in Proc, NEW i \in Slot, slots'[q][i] = l PROVE Recorded(l)
      <4>1. CASE q = p
        BY <1>1, <3>1, <4>1 DEF Recorded, Link, NoLink
      <4>2. CASE q # p
        BY <1>1, <3>1, <4>2 DEF Recorded, WorkerShare
      <4>. QED
        BY <4>1, <4>2
    <3>2. ASSUME NEW q \in Proc, NEW t \in Topic, sub_list'[q][t] = l PROVE Recorded(l)
      BY <1>1, <3>2 DEF Recorded, WorkerShare
    <3>. QED
      BY <3>1, <3>2 DEF Recorded
  <2>2. InRead(l)' <=> InRead(l)
    BY <1>1 DEF InRead, WorkerShare
  <2>3. Still(l)
    BY <1>1 DEF Still, WorkerShare
  <2>. QED
    BY <2>1, <2>2, <2>3
<1>. QED
  BY <1>1, <1>2, <1>3, WorkerKeeps

(* A link that is polled has had its answer.                               *)
LEMMA PolledClean ==
    ASSUME TypeInv, EventInv, NEW p \in Proc, NEW i \in Slot, NEW l \in Link, slots[p][i] = l
    PROVE  /\ Recorded(l) /\ Got(l) /\ stage[l] \in {"push", "true"}
           /\ link[l].from = p /\ link[l].type = "SUBSCRIBE" /\ far[l] # "reset"
           /\ near[l] = "open" /\ unread[l] = 0
           /\ Streams(l, IF InRead(l) THEN 1 ELSE 0)
<1>1. LinkAt(l) /\ SlotsAt(p) /\ unread[l] \in 0..2
  BY LinkTypes DEF EventInv, ThreadAt
<1>2. Recorded(l) /\ Got(l)
  BY DEF Recorded, Got
<1>3. /\ stage[l] \in {"push", "true"} /\ link[l].type = "SUBSCRIBE"
      /\ far[l] # "reset" /\ unread[l] = 0
  BY <1>1, <1>2 DEF LinkAt, GotAt
<1>4. near[l] = "open" /\ link[l].from = p
  BY <1>1, <1>3 DEF LinkAt, WireAt, SlotsAt, Link, NoLink
<1>5. /\ (IF InRead(l) THEN 1 ELSE 0) \in Shift
      /\ Clean(l, IF InRead(l) THEN 1 ELSE 0)
  BY <1>2 DEF Clean, Shift
<1>6. Streams(l, IF InRead(l) THEN 1 ELSE 0)
  BY <1>1, <1>3, <1>5 DEF LinkAt, ClientAt
<1>. QED
  BY <1>2, <1>3, <1>4, <1>6

(* The polling thread reads from l, or gives up on it.                     *)
LEMMA PollReadsKeep ==
    ASSUME TypeInv, EventInv, NEW p \in Proc, NEW i \in Slot, NEW l \in Link,
           slots[p][i] = l, WorkerShare(p), UNCHANGED slots,
           \A m \in Link \ {l} : down'[m] = down[m] /\ heard'[m] = heard[m],
           ew[p].i = i \/ ew[p].pc # "content", ew'[p].i = i \/ ew'[p].pc # "content",
           heard[l] # <<>> <=> heard'[l] # <<>>,
           InRead(l)' => Streams(l, 1)', ~InRead(l)' => Streams(l, 0)'
    PROVE  EventInv'
<1>1. /\ Recorded(l) /\ Got(l) /\ stage[l] \in {"push", "true"}
      /\ link[l].from = p /\ link[l].type = "SUBSCRIBE" /\ far[l] # "reset"
      /\ near[l] = "open" /\ unread[l] = 0
  BY PolledClean
<1>2. SlotsAt(p)'
  BY DEF EventInv, ThreadAt, SlotsAt, WorkerShare
<1>3. ASSUME NEW m \in Link PROVE Recorded(m)' <=> Recorded(m)
  BY DEF Recorded, WorkerShare
<1>4. ASSUME NEW m \in Link, m # l PROVE Still(m) /\ (InRead(m)' <=> InRead(m))
  <2>1. Still(m)
    BY <1>4 DEF Still, WorkerShare
  <2>2. slots[p][ew[p].i] = m /\ ew[p].pc = "content" => FALSE
    BY <1>4
  <2>3. InRead(m)' <=> InRead(m)
    BY <1>4, <2>2 DEF InRead, WorkerShare
  <2>. QED
    BY <2>1, <2>3
<1>5. LinkAt(l)
  BY DEF EventInv
<1>6. LinkAt(l)'
  <2>1. WireAt(l)'
    BY <1>1, <1>5 DEF LinkAt, WireAt, WorkerShare, Early
  <2>2. Got(l)' /\ Recorded(l)'
    BY <1>1, <1>3 DEF Got, WorkerShare
  <2>3. GotAt(l)'
    BY <1>1, <1>5, <2>2 DEF LinkAt, GotAt, WorkerShare
  <2>4. EntryAt(l)'
    BY <1>5 DEF LinkAt, EntryAt, WorkerShare, Up
  <2>5. ClientAt(l)'
    <3>1. \A d : Clean(l, d)' => d = IF InRead(l)' THEN 1 ELSE 0
      BY <1>1 DEF Clean, Answered, WorkerShare
    <3>. QED
      BY <3>1 DEF ClientAt
  <2>. QED
    BY <2>1, <2>3, <2>4, <2>5 DEF LinkAt
<1>7. HandsStay(l)
  BY <1>1 DEF HandsStay, Held, WorkerShare, Up
<1>. QED
  BY <1>2, <1>3, <1>4, <1>6, <1>7, WorkerKeeps

(* ReadHeader: the stream is then within an event.                         *)
LEMMA ReadHeaderKeeps ==
    ASSUME TypeInv, EventInv, NEW p \in Proc, NEW i \in Slot, ReadHeader(p, i)
    PROVE  EventInv'
<1>0. /\ slots \in [Proc -> [Slot -> Link \cup {NoLink}]] /\ ew \in [Proc -> Worker]
      /\ down \in [Link -> Seq(Chunk)] /\ \A q \in Proc : SlotsAt(q)
  BY DEF TypeInv, TypeOK, EventTypeOK, ParticipantTypeOK, LinksTypeOK, EventInv, ThreadAt
<1>1. /\ WorkerShare(p) /\ UNCHANGED <<slots, heard>>
      /\ ew[p].pc = "scan" /\ ew'[p].pc = "content" /\ ew'[p].i = i
      /\ down[slots[p][i]] # <<>>
      /\ down' = [down EXCEPT ![slots[p][i]] = Tail(@)]
  BY <1>0 DEF ReadHeader, AtSlot, Take, WorkerShare, Worker
<1>2. CASE slots[p][i] = NoLink
  <2>1. down' = down
    BY <1>0, <1>1, <1>2 DEF Link, NoLink
  <2>2. ASSUME NEW l \in Link
        PROVE  /\ Recorded(l)' => Recorded(l)
               /\ Still(l) /\ (InRead(l)' <=> InRead(l))
    <3>1. Recorded(l)' => Recorded(l)
      BY <1>1 DEF Recorded, WorkerShare
    <3>2. InRead(l)' <=> InRead(l)
      BY <1>1, <1>2 DEF InRead, WorkerShare, Link, NoLink
    <3>. QED
      BY <1>1, <2>1, <3>1, <3>2 DEF Still, WorkerShare
  <2>3. SlotsAt(p)'
    BY <1>0, <1>1 DEF SlotsAt, WorkerShare
  <2>. QED
    BY <1>1, <2>2, <2>3, WorkerKeeps
<1>3. CASE slots[p][i] # NoLink
  <2>1. PICK l \in Link : l = slots[p][i]
    BY <1>0, <1>3
  <2>2. /\ link[l].from = p /\ link[l].type = "SUBSCRIBE"
        /\ Streams(l, IF InRead(l) THEN 1 ELSE 0)
    BY <2>1, PolledClean
  <2>3. ~InRead(l)
    BY <1>0, <1>1, <2>2, ReadBy
  <2>4. InRead(l)'
    BY <1>1, <2>1 DEF InRead
  <2>5. /\ down[l] \in Seq(Chunk) /\ down[l] # <<>> /\ down'[l] = Tail(down[l])
        /\ Len(down[l]) \in Nat /\ Len(down'[l]) = Len(down[l]) - 1
        /\ Len(down[l]) # 0 /\ heard'[l] = heard[l]
    BY <1>0, <1>1, <2>1, HeadTailProperties, LenProperties, EmptySeq
  <2>6. Streams(l, 1)'
    <3>1. heard[l] # <<>>
      BY <2>2, <2>3, <2>5 DEF Streams
    <3>2. Published(l) \in Nat
      BY <2>2, LinkTypes, <2>1, PolledClean
    <3>3. PICK base \in 0..Published(l) :
             Flows(l, 0, base) /\ (Own(l) => base = Last(heard[l]))
      BY <2>2, <2>3, <3>1 DEF Streams
    <3>4. Published(l)' = Published(l) /\ Owed(l)' = Owed(l) /\ Own(l)' = Own(l)
      BY <1>1 DEF Published, Owed, Own, HasCallback, Subscriptions, WorkerShare
    <3>5. InOrder(down'[l], 1, base)
      <4>1. InOrder(down[l], 0, base) /\ base \in Nat
        BY <3>2, <3>3 DEF Flows
      <4>2. InOrder(Tail(down[l]), 0 + 1, base)
        BY <2>5, <4>1, OrderTail
      <4>. QED
        BY <2>5, <4>2
    <3>6. Flows(l, 1, base)'
      BY <1>1, <2>5, <3>3, <3>4, <3>5 DEF Flows, WorkerShare, Up
    <3>. QED
      BY <2>5, <3>1, <3>3, <3>4, <3>6 DEF Streams
  <2>7. \A m \in Link \ {l} : down'[m] = down[m] /\ heard'[m] = heard[m]
    BY <1>0, <1>1, <2>1
  <2>. QED
    BY <1>1, <2>1, <2>4, <2>5, <2>6, <2>7, PollReadsKeep
<1>. QED
  BY <1>2, <1>3

(* RunCallback: what it reads is the event after the last one heard.       *)
LEMMA RunCallbackKeeps ==
    ASSUME TypeInv, EventInv, NEW p \in Proc, RunCallback(p)
    PROVE  EventInv'
<1>0. /\ slots \in [Proc -> [Slot -> Link \cup {NoLink}]] /\ ew \in [Proc -> Worker]
      /\ down \in [Link -> Seq(Chunk)] /\ heard \in [Link -> Seq(Nat)]
      /\ \A q \in Proc : SlotsAt(q)
  BY DEF TypeInv, TypeOK, EventTypeOK, ParticipantTypeOK, LinksTypeOK, EventInv, ThreadAt
<1>1. PICK i \in Slot : i = ew[p].i
  BY <1>0 DEF RunCallback, SlotsAt
<1>2. /\ WorkerShare(p) /\ UNCHANGED slots
      /\ ew[p].pc = "content" /\ ew'[p].pc = "scan"
      /\ down[slots[p][i]] # <<>>
      /\ down' = [down EXCEPT ![slots[p][i]] = Tail(@)]
      /\ heard' = [heard EXCEPT ![slots[p][i]] =
                     IF HasCallback(p, slots[p][i])
                     THEN Append(@, Head(down[slots[p][i]]).n) ELSE @]
  BY <1>0, <1>1 DEF RunCallback, Take, NextSlot, WorkerShare, Worker
<1>3. CASE slots[p][i] = NoLink
  <2>1. down' = down /\ heard' = heard
    BY <1>0, <1>2, <1>3 DEF Link, NoLink
  <2>2. ASSUME NEW l \in Link
        PROVE  /\ Recorded(l)' => Recorded(l)
               /\ Still(l) /\ (InRead(l)' <=> InRead(l))
    <3>1. Recorded(l)' => Recorded(l)
      BY <1>2 DEF Recorded, WorkerShare
    <3>2. InRead(l)' <=> InRead(l)
      <4>1. \A q \in Proc : q # p => slots'[q] = slots[q] /\ ew'[q] = ew[q]
        BY <1>2 DEF WorkerShare
      <4>2. ew'[p].pc # "content" /\ slots[p][ew[p].i] # l
        BY <1>1, <1>2, <1>3 DEF Link, NoLink
      <4>. QED
        BY <4>1, <4>2, Zenon DEF InRead
    <3>. QED
      BY <1>2, <2>1, <3>1, <3>2 DEF Still, WorkerShare
  <2>3. SlotsAt(p)'
    BY <1>0, <1>2 DEF SlotsAt, WorkerShare
  <2>. QED
    BY <1>2, <2>2, <2>3, WorkerKeeps
<1>4. CASE slots[p][i] # NoLink
  <2>1. PICK l \in Link : l = slots[p][i]
    BY <1>0, <1>4
  <2>2. /\ link[l].from = p /\ link[l].type = "SUBSCRIBE" /\ stage[l] \in {"push", "true"}
        /\ Streams(l, IF InRead(l) THEN 1 ELSE 0)
    BY <2>1, PolledClean
  <2>3. InRead(l)
    BY <1>1, <1>2, <2>1 DEF InRead
  <2>4. ~InRead(l)'
    <3>1. \A q \in Proc : SlotsAt(q)'
      BY <1>0, <1>2 DEF SlotsAt, WorkerShare
    <3>2. link'[l].from = p
      BY <1>2, <2>2 DEF WorkerShare
    <3>. QED
      BY <1>2, <3>1, <3>2, ReadByNext
  <2>5. /\ down[l] \in Seq(Chunk) /\ down[l] # <<>> /\ down'[l] = Tail(down[l])
        /\ Len(down[l]) \in Nat /\ Len(down'[l]) = Len(down[l]) - 1
        /\ Len(down[l]) # 0 /\ Head(down[l]) = down[l][1] /\ Tail(down[l]) \in Seq(Chunk)
    BY <1>0, <1>2, <2>1, HeadTailProperties, LenProperties, EmptySeq
  <2>6. Published(l) \in Nat
    BY <2>2, LinkTypes
  <2>7. heard[l] # <<>>
    BY <2>2, <2>3, <2>5 DEF Streams
  <2>8. PICK base \in 0..Published(l) :
           Flows(l, 1, base) /\ (Own(l) => base = Last(heard[l]))
    BY <2>2, <2>3, <2>7 DEF Streams
  <2>9. InOrder(down[l], 1, base) /\ base \in Nat /\ base + 1 \in 0..Published(l)
    BY <2>5, <2>6, <2>8 DEF Flows
  <2>10. Head(down[l]).n = base + 1
    <3>1. down[l][1] = Event(1 + 1, base)
      BY <2>5, <2>9 DEF InOrder
    <3>2. Event(1 + 1, base) = Body("EVENT", base + 1)
      BY <2>9 DEF Event
    <3>. QED
      BY <2>5, <3>1, <3>2 DEF Body
  <2>11. /\ HasCallback(p, l) => heard'[l] = Append(heard[l], base + 1)
         /\ ~HasCallback(p, l) => heard'[l] = heard[l]
    BY <1>0, <1>2, <2>1, <2>10
  <2>12. heard'[l] # <<>> /\ (HasCallback(p, l) => Last(heard'[l]) = base + 1)
    <3>1. /\ heard[l] \in Seq(Nat) /\ Append(heard[l], base + 1) # <<>>
          /\ Last(Append(heard[l], base + 1)) = base + 1
      <4>1. PICK n \in Nat : n = base + 1
        BY <2>9
      <4>2. heard[l] \in Seq(Nat)
        BY <1>0
      <4>. QED
        BY <4>1, <4>2, AppendProperties, LenProperties, EmptySeq DEF Last
    <3>. QED
      BY <2>7, <2>11, <3>1
  <2>13. Streams(l, 0)'
    <3>1. Published(l)' = Published(l) /\ Owed(l)' = Owed(l)
      BY <1>2 DEF Published, Owed, WorkerShare
    <3>2. Own(l)' => HasCallback(p, l)
      BY <1>2, <2>2 DEF Own, HasCallback, Subscriptions, WorkerShare
    <3>3. InOrder(down'[l], 0, base + 1)
      <4>1. InOrder(Tail(down[l]), 1 + 1, base)
        BY <2>5, <2>9, OrderTail
      <4>2. InOrder(Tail(down[l]), 2, base)
        BY <4>1
      <4>3. InOrder(Tail(down[l]), 0, base + 1)
        BY <2>5, <2>9, <4>2, OrderNext
      <4>. QED
        BY <2>5, <4>3
    <3>4. Flows(l, 0, base + 1)'
      <4>1. /\ Len(down[l]) + 1 <= 2 * (Published(l) - base)
            /\ Up(link[l].to) => Len(down[l]) + 1 = 2 * (Published(l) - base) - Owed(l)
        BY <2>8 DEF Flows
      <4>2. Up(link[l].to)' = Up(link[l].to) /\ Owed(l) \in {0, 1, 2}
        BY <1>2 DEF WorkerShare, Up, Owed
      <4>3. /\ Len(down'[l]) + 0 <= 2 * (Published(l) - (base + 1))
            /\ Up(link[l].to) => Len(down'[l]) + 0 = 2 * (Published(l) - (base + 1)) - Owed(l)
        <5>1. PICK last \in Nat, long \in Nat, owed \in {0, 1, 2} :
                 last = Published(l) /\ long = Len(down[l]) /\ owed = Owed(l)
          BY <2>5, <2>6, <4>2
        <5>2. Len(down'[l]) = long - 1
          BY <2>5, <5>1
        <5>0. base \in Int /\ last \in Int /\ long \in Int
          BY <2>9, <5>1
        <5>3. (long - 1) + 0 <= 2 * (last - (base + 1))
          <6>1. long + 1 <= 2 * (last - base)
            BY <4>1, <5>1
          <6>. QED
            BY <5>0, <6>1, ChunkCounts
        <5>4. ASSUME Up(link[l].to) PROVE (long - 1) + 0 = 2 * (last - (base + 1)) - owed
          <6>1. long + 1 = 2 * (last - base) - owed
            BY <4>1, <5>1, <5>4
          <6>. QED
            BY <5>0, <6>1, ChunkCounts
        <5>. QED
          BY <5>1, <5>2, <5>3, <5>4
      <4>. QED
        BY <3>1, <3>3, <4>2, <4>3 DEF Flows
    <3>. QED
      BY <2>9, <2>12, <3>1, <3>2, <3>4 DEF Streams
  <2>14. \A m \in Link \ {l} : down'[m] = down[m] /\ heard'[m] = heard[m]
    BY <1>0, <1>2, <2>1
  <2>. QED
    BY <1>1, <1>2, <2>1, <2>4, <2>7, <2>12, <2>13, <2>14, PollReadsKeep
<1>. QED
  BY <1>3, <1>4

(* RunCallbackShort: the publisher has ended, and nothing comes any more.  *)
LEMMA RunCallbackShortKeeps ==
    ASSUME TypeInv, EventInv, NEW p \in Proc, RunCallbackShort(p)
    PROVE  EventInv'
<1>0. /\ slots \in [Proc -> [Slot -> Link \cup {NoLink}]] /\ ew \in [Proc -> Worker]
      /\ \A q \in Proc : SlotsAt(q)
  BY DEF TypeInv, TypeOK, EventTypeOK, EventInv, ThreadAt
<1>1. PICK i \in Slot : i = ew[p].i
  BY <1>0 DEF RunCallbackShort, SlotsAt
<1>2. /\ WorkerShare(p) /\ UNCHANGED <<slots, down, heard>>
      /\ ew[p].pc = "content" /\ ew'[p].pc = "scan" /\ Eof(slots[p][i])
  BY <1>0, <1>1 DEF RunCallbackShort, NextSlot, WorkerShare, Worker
<1>3. CASE slots[p][i] = NoLink
  <2>2. ASSUME NEW l \in Link
        PROVE  /\ Recorded(l)' => Recorded(l)
               /\ Still(l) /\ (InRead(l)' <=> InRead(l))
    <3>1. Recorded(l)' => Recorded(l)
      BY <1>2 DEF Recorded, WorkerShare
    <3>2. InRead(l)' <=> InRead(l)
      <4>1. \A q \in Proc : q # p => slots'[q] = slots[q] /\ ew'[q] = ew[q]
        BY <1>2 DEF WorkerShare
      <4>2. ew'[p].pc # "content" /\ slots[p][ew[p].i] # l
        BY <1>1, <1>2, <1>3 DEF Link, NoLink
      <4>. QED
        BY <4>1, <4>2, Zenon DEF InRead
    <3>. QED
      BY <1>2, <3>1, <3>2 DEF Still, WorkerShare
  <2>3. SlotsAt(p)'
    BY <1>0, <1>2 DEF SlotsAt, WorkerShare
  <2>. QED
    BY <1>2, <2>2, <2>3, WorkerKeeps
<1>4. CASE slots[p][i] # NoLink
  <2>1. PICK l \in Link : l = slots[p][i]
    BY <1>0, <1>4
  <2>2. /\ link[l].from = p /\ link[l].type = "SUBSCRIBE"
        /\ Streams(l, IF InRead(l) THEN 1 ELSE 0)
    BY <2>1, PolledClean
  <2>3. InRead(l)
    BY <1>1, <1>2, <2>1 DEF InRead
  <2>4. ~InRead(l)'
    <3>1. \A q \in Proc : SlotsAt(q)'
      BY <1>0, <1>2 DEF SlotsAt, WorkerShare
    <3>2. link'[l].from = p
      BY <1>2, <2>2 DEF WorkerShare
    <3>. QED
      BY <1>2, <3>1, <3>2, ReadByNext
  <2>5. down[l] = <<>> /\ Len(down[l]) = 0 /\ far[l] = "closed" /\ ~Up(link[l].to)
    BY <1>2, <2>1, EmptySeq DEF Eof, EventInv, LinkAt, WireAt, Up
  <2>6. Streams(l, 0)'
    <3>1. PICK base \in 0..Published(l) :
             Flows(l, 1, base) /\ (Own(l) => base = Last(heard[l])) /\ heard[l] # <<>>
      BY <2>2, <2>3, <2>5 DEF Streams
    <3>2. Published(l)' = Published(l) /\ Own(l)' = Own(l) /\ ~Up(link[l].to)'
      BY <1>2, <2>5 DEF Published, Own, HasCallback, Subscriptions, WorkerShare, Up
    <3>3. Published(l) \in Nat
      BY <2>1, <2>2, LinkTypes, PolledClean
    <3>4. InOrder(down'[l], 0, base)
      BY <1>2, <2>5 DEF InOrder
    <3>5. Len(down'[l]) + 0 <= 2 * (Published(l) - base)
      BY <1>2, <2>5, <3>1, <3>3
    <3>6. Flows(l, 0, base)'
      BY <3>2, <3>4, <3>5 DEF Flows
    <3>. QED
      BY <1>2, <3>1, <3>2, <3>6 DEF Streams
  <2>. QED
    BY <1>1, <1>2, <2>1, <2>4, <2>6, PollReadsKeep
<1>. QED
  BY <1>3, <1>4

-------------------------------------------------------------------------------
(* The thread that publishes.                                              *)

(* What publish_event() of p leaves alone.                                 *)
PublisherShare(p) ==
    /\ UNCHANGED <<link, stage, unread, far, proc, lis, backlog, sub_list, slots, ew,
                   heard>>
    /\ \A q \in Proc : q # p => /\ client_map'[q] = client_map[q] /\ walk'[q] = walk[q]
                                /\ app'[q] = app[q] /\ count'[q] = count[q]

(* A step of publish_event(), but for what it writes.                      *)
LEMMA PublisherKeeps ==
    ASSUME TypeInv, EventInv, NEW p \in Proc, PublisherShare(p), ListsAt(p)',
           \A l \in Link : \/ Still(l) /\ (link[l].to = p => PubStill(l))
                           \/ LinkAt(l)' /\ HandsStay(l)
    PROVE  EventInv'
<1>1. Lives /\ LinksStay /\ (\A q \in Proc : Up(q) => Up(q)')
  BY DEF PublisherShare, Lives, LinksStay, Up
<1>2. ASSUME NEW l \in Link
      PROVE  \/ Still(l) /\ PollStill(l) /\ PubStill(l)
             \/ /\ LinkAt(l)' /\ HandsStay(l)
                /\ heard[l] # <<>> => heard'[l] # <<>>
  <2>1. PollStill(l)
    BY PollSame DEF PublisherShare
  <2>2. CASE Still(l) /\ (link[l].to = p => PubStill(l))
    <3>1. CASE link[l].to # p
      <4>1. ASSUME heard[l] # <<>> PROVE link[l].to \in Proc
        BY <4>1, LinkTypes DEF EventInv, LinkAt, WireAt, Early
      <4>2. ASSUME heard[l] # <<>> PROVE PubStill(l)
        BY <3>1, <4>1, <4>2 DEF PubStill, Published, Owed, PublisherShare, Up
      <4>. QED
        BY <2>1, <2>2, <4>2 DEF PubStill
    <3>. QED
      BY <2>1, <2>2, <3>1
  <2>. QED
    BY <2>2 DEF PublisherShare
<1>3. ASSUME LinksServe, NEW q \in Proc PROVE ThreadAt(q)' \/ (Sleeps(q) /\ Unanswered(q))
  <2>1. Unanswered(q)
    BY DEF PublisherShare, Unanswered
  <2>2. CASE q # p
    BY <2>1, <2>2 DEF PublisherShare, Sleeps
  <2>3. CASE q = p
    <3>1. ThreadAt(q) /\ \A l \in Link : HandsStay(l)
      BY <1>3 DEF EventInv, LinksServe
    <3>2. backlog' = backlog /\ lis' = lis /\ slots' = slots /\ sub_list' = sub_list /\ ew' = ew
      BY DEF PublisherShare
    <3>3. QueueAt(q)'
      BY <1>1, <2>1, <3>1, <3>2, QueueKept DEF ThreadAt, Unanswered
    <3>4. HandAt(q)' /\ SlotsAt(q)'
      BY <1>1, <3>1, <3>2, HandKept, SlotsKept DEF ThreadAt, SlotsAt
    <3>. QED
      BY <2>3, <3>3, <3>4 DEF ThreadAt
  <2>. QED
    BY <2>2, <2>3
<1>. QED
  BY <1>1, <1>2, <1>3, StepKeeps

(* A topic that is advertised has no subscribers yet.                      *)
LEMMA AdvertisedKeeps ==
    ASSUME TypeInv, ListInv, EventInv, NEW p \in Proc, Advertised(p)
    PROVE  EventInv'
<1>0. /\ client_map \in [Proc -> [Topic -> [Name -> Link \cup {NoLink}]]]
      /\ app \in [Proc -> Activity]
  BY DEF TypeInv, TypeOK, EventTypeOK, ParticipantTypeOK
<1>1. PICK t \in Topic : t = app[p].arg /\ Grants(p, t)
  BY <1>0 DEF Advertised, TypeInv, ThreadsAt, AppAt, Grants
<1>2. \A n \in Name : client_map[p][t][n] = NoLink
  BY <1>1 DEF ListInv, PublisherAt, TopicAt
<1>3. client_map[p][t] = Unlisted
  BY <1>0, <1>2 DEF Unlisted
<1>4. client_map' = client_map
  <2>1. client_map' = [client_map EXCEPT ![p][t] = Unlisted]
    BY <1>1 DEF Advertised
  <2>. QED
    BY <1>0, <1>3, <2>1
<1>5. /\ UNCHANGED <<linkVars, lis, backlog, proc, walk, count, slots, sub_list, ew, heard>>
      /\ \A q \in Proc : app'[q] = app[q] \/ (app[q].op # "walk" /\ app'[q].op # "walk")
  BY <1>0 DEF Advertised, AtRest
<1>6. ASSUME NEW l \in Link PROVE PubStill(l)
  <2>1. WireAt(l) /\ link'[l] = link[l] /\ UNCHANGED <<client_map, walk, count>>
    BY <1>4, <1>5 DEF EventInv, LinkAt
  <2>2. \A q \in Proc : Up(q)' /\ proc[q] # "absent" => Up(q)
    BY <1>5 DEF Up
  <2>3. \A q \in Proc : app'[q] = app[q] \/ (app[q].op # "walk" /\ app'[q].op # "walk")
    BY <1>5
  <2>. QED
    BY <2>1, <2>2, <2>3, PubSame
<1>. QED
  BY <1>4, <1>5, <1>6, AsideStep DEF Lives, Up

(* publish_event() begins: who is entered is owed the event.               *)
LEMMA PublishKeeps ==
    ASSUME TypeInv, EventInv, NEW p \in Proc, NEW t \in Topic, Publish(p, t)
    PROVE  EventInv'
<1>0. /\ client_map \in [Proc -> [Topic -> [Name -> Link \cup {NoLink}]]]
      /\ app \in [Proc -> Activity] /\ walk \in [Proc -> Walk]
      /\ count \in [Proc -> [Topic -> 0..MaxEvents]]
  BY DEF TypeInv, TypeOK, EventTypeOK, ParticipantTypeOK
<1>1. /\ Up(p) /\ app[p].op = "idle" /\ UNCHANGED <<linkVars, client_map>>
      /\ PublisherShare(p)
      /\ count' = [count EXCEPT ![p][t] = @ + 1]
  BY <1>0 DEF Publish, Starts, Idle, AtRest, PublisherShare
<1>2. /\ Subscribers(p, t) = {} => app' = app /\ walk' = walk
      /\ Subscribers(p, t) # {} => /\ app'[p] = [op |-> "walk", arg |-> t]
                                   /\ walk'[p].left = Subscribers(p, t)
                                   /\ walk'[p].at = None
  BY <1>0 DEF Publish, NoWalk
<1>3. ListsAt(p)'
  <2>1. walk'[p].at \notin walk'[p].left
    BY <1>2, ParticipantConstants DEF EventInv, ThreadAt, ListsAt, Subscribers
  <2>. QED
    BY <1>1, <2>1 DEF EventInv, ThreadAt, ListsAt, PublisherShare
<1>4. ASSUME NEW l \in Link
      PROVE  \/ Still(l) /\ (link[l].to = p => PubStill(l))
             \/ LinkAt(l)' /\ HandsStay(l)
  <2>1. Still(l)
    BY <1>1 DEF Still, PublisherShare
  <2>2. LinkAt(l)
    BY DEF EventInv
  <2>3. CASE heard[l] = <<>> \/ near[l] # "open" \/ link[l].to # p
    BY <2>1, <2>3 DEF PubStill
  <2>4. CASE heard[l] # <<>> /\ near[l] = "open" /\ link[l].to = p
    <3>1. link[l].arg \in Topic /\ NameOf[link[l].from] \in Name
      BY <2>2, <2>4, LinkTypes DEF LinkAt, WireAt, Early
    <3>2. client_map[p][link[l].arg][NameOf[link[l].from]] = l
      BY <1>1, <2>2, <2>4 DEF LinkAt, EntryAt
    <3>3. Owed(l) = 0
      BY <1>1, <2>4 DEF Owed
    <3>4. CASE link[l].arg # t
      <4>1. Published(l)' = Published(l) /\ Up(p)' = Up(p)
        BY <1>0, <1>1, <2>4, <3>1, <3>4 DEF Published, PublisherShare, Up
      <4>2. app'[p] # [op |-> "walk", arg |-> link[l].arg]
        BY <1>1, <1>2, <3>4
      <4>3. Owed(l)' = 0
        BY <2>1, <2>4, <4>2 DEF Owed, Still
      <4>. QED
        BY <1>1, <2>1, <2>4, <3>3, <4>1, <4>3 DEF PubStill
    <3>5. CASE link[l].arg = t
      <4>1. NameOf[link[l].from] \in Subscribers(p, t)
        BY <3>1, <3>2, <3>5 DEF Subscribers, Link, NoLink
      <4>2. Published(l)' = Published(l) + 1 /\ Published(l) \in Nat /\ Up(p)'
        BY <1>0, <1>1, <2>4, <3>5 DEF Published, PublisherShare, Up
      <4>3. Owed(l)' = 2
        BY <1>1, <1>2, <2>4, <3>5, <4>1 DEF Owed
      <4>4. ClientAt(l)'
        <5>1. Got(l)' = Got(l) /\ InRead(l)' = InRead(l) /\ Own(l)' = Own(l)
          BY <1>1 DEF Got, Recorded, InRead, Own, HasCallback, Subscriptions,
                      PublisherShare
        <5>2. ASSUME link[l].type = "SUBSCRIBE", NEW d \in Shift, Clean(l, d)'
              PROVE  Streams(l, d)'
          <6>1. Clean(l, d)
            BY <2>1, <5>1, <5>2 DEF Clean, Still
          <6>2. PICK base \in 0..Published(l) :
                   Flows(l, d, base) /\ (Own(l) => base = Last(heard[l]))
            BY <2>2, <2>4, <5>2, <6>1 DEF LinkAt, ClientAt, Streams
          <6>3. /\ Len(down[l]) + d = 2 * (Published(l) - base) - 0
                /\ InOrder(down[l], d, base) /\ Len(down[l]) \in Nat
            BY <1>1, <2>4, <3>3, <6>2, LinkTypes DEF Flows
          <6>4. /\ Len(down[l]) + d <= 2 * ((Published(l) + 1) - base)
                /\ Len(down[l]) + d = 2 * ((Published(l) + 1) - base) - 2
                /\ base \in 0..(Published(l) + 1)
            BY <4>2, <6>3 DEF Shift
          <6>5. Flows(l, d, base)'
            BY <2>1, <4>2, <4>3, <6>3, <6>4 DEF Flows, Still
          <6>. QED
            BY <2>1, <2>4, <4>2, <5>1, <6>2, <6>4, <6>5 DEF Streams, Still
        <5>. QED
          BY <2>1, <5>2 DEF ClientAt, Still
      <4>5. WireAt(l)' /\ GotAt(l)'
        BY <1>1, <2>2 DEF LinkAt, WireAt, GotAt, Got, Recorded, PublisherShare
      <4>6. EntryAt(l)'
        BY <1>1, <2>2 DEF LinkAt, EntryAt, PublisherShare, Up
      <4>7. HandsStay(l)
        BY <1>1, <2>1, HandStill DEF Got, Recorded, PublisherShare, Up
      <4>. QED
        BY <4>4, <4>5, <4>6, <4>7 DEF LinkAt
    <3>. QED
      BY <3>4, <3>5
  <2>. QED
    BY <2>3, <2>4
<1>. QED
  BY <1>1, <1>3, <1>4, PublisherKeeps

(* The walk ends when nobody is owed anything, and the dead are erased.    *)
LEMMA WalkEndsKeeps ==
    ASSUME TypeInv, EventInv, NEW p \in Proc, WalkEnds(p)
    PROVE  EventInv'
<1>0. app \in [Proc -> Activity]
  BY DEF TypeInv, TypeOK, ParticipantTypeOK
<1>1. /\ Up(p) /\ app'[p].op # "walk" /\ walk[p].left = {} /\ walk[p].at = None
      /\ UNCHANGED <<linkVars, client_map, walk, count>>
      /\ PublisherShare(p)
  BY <1>0 DEF WalkEnds, Walking, PublisherShare, AtRest
<1>2. ListsAt(p)'
  BY <1>1 DEF EventInv, ThreadAt, ListsAt, PublisherShare
<1>3. ASSUME NEW l \in Link, link[l].to = p PROVE PubStill(l)
  <2>1. ASSUME heard[l] # <<>> PROVE NameOf[link[l].from] # None
    BY <2>1, LinkTypes, ParticipantConstants DEF EventInv, LinkAt, WireAt, Early
  <2>2. ASSUME heard[l] # <<>> PROVE Owed(l) = 0 /\ Owed(l)' = 0
    BY <1>1, <1>3, <2>1, <2>2 DEF Owed
  <2>. QED
    BY <1>1, <1>3, <2>2 DEF PubStill, Published, PublisherShare, Up
<1>4. \A l \in Link : Still(l)
  BY <1>1 DEF Still, PublisherShare
<1>. QED
  BY <1>1, <1>2, <1>3, <1>4, PublisherKeeps

(* EraseDead takes only those off the list whose process has ended.        *)
LEMMA EraseKeeps ==
    ASSUME TypeInv, ListInv, EventInv, NEW p \in Proc, EraseDead(p)
    PROVE  EventInv'
<1>0. /\ client_map \in [Proc -> [Topic -> [Name -> Link \cup {NoLink}]]]
      /\ app \in [Proc -> Activity] /\ walk \in [Proc -> Walk]
  BY DEF TypeInv, TypeOK, EventTypeOK, ParticipantTypeOK
<1>1. PICK t \in Topic : t = app[p].arg /\ Walks(p, t)
  BY <1>0 DEF EraseDead, TypeInv, ThreadsAt, AppAt, Walks
<1>2. \A n \in walk[p].dead : near[client_map[p][t][n]] # "open"
  BY <1>1 DEF ListInv, PublisherAt, TopicAt
<1>3. /\ Up(p) /\ app[p].op = "erase" /\ app'[p] = AtRest /\ walk'[p] = NoWalk
      /\ UNCHANGED <<linkVars, count>>
      /\ PublisherShare(p)
      /\ \A u \in Topic, n \in Name :
            client_map'[p][u][n] = IF u = t /\ n \in walk[p].dead THEN NoLink
                                   ELSE client_map[p][u][n]
  <2>1. client_map' = [client_map EXCEPT ![p][t] =
                          [n \in Name |-> IF n \in walk[p].dead THEN NoLink ELSE @[n]]]
    BY <1>1 DEF EraseDead
  <2>2. \A u \in Topic, n \in Name :
            client_map'[p][u][n] = IF u = t /\ n \in walk[p].dead THEN NoLink
                                   ELSE client_map[p][u][n]
    BY <1>0, <2>1
  <2>3. \A q \in Proc : q # p => client_map'[q] = client_map[q]
    BY <1>0, <2>1
  <2>. QED
    BY <1>0, <2>2, <2>3 DEF EraseDead, PublisherShare
<1>4. ListsAt(p)'
  <2>1. ASSUME NEW u \in Topic, NEW n \in Name, client_map'[p][u][n] # NoLink
        PROVE  LET l == client_map'[p][u][n]
               IN  /\ link'[l].to = p /\ link'[l].arg = u
                   /\ NameOf[link'[l].from] = n /\ heard'[l] # <<>>
    BY <1>3, <2>1 DEF EventInv, ThreadAt, ListsAt, PublisherShare
  <2>. QED
    BY <1>3, <2>1 DEF ListsAt, NoWalk
<1>5. ASSUME NEW l \in Link, link[l].to = p PROVE PubStill(l)
  <2>1. Owed(l) = 0 /\ Owed(l)' = 0 /\ Published(l)' = Published(l) /\ Up(p)' = Up(p)
    BY <1>3, <1>5 DEF Owed, Published, PublisherShare, Up, AtRest
  <2>2. ASSUME near[l] = "open", heard[l] # <<>>,
               client_map[p][link[l].arg][NameOf[link[l].from]] = l
        PROVE  client_map'[p][link[l].arg][NameOf[link[l].from]] = l
    <3>1. link[l].arg \in Topic /\ NameOf[link[l].from] \in Name
      BY <2>2, LinkTypes DEF EventInv, LinkAt, WireAt, Early
    <3>2. ~(link[l].arg = t /\ NameOf[link[l].from] \in walk[p].dead)
      BY <1>2, <2>2
    <3>. QED
      BY <1>3, <2>2, <3>1, <3>2
  <2>3. Up(p)
    BY <1>3
  <2>. QED
    BY <1>5, <2>1, <2>2, <2>3 DEF PubStill
<1>6. \A l \in Link : Still(l)
  BY <1>3 DEF Still, PublisherShare
<1>. QED
  BY <1>3, <1>4, <1>5, <1>6, PublisherKeeps

(* What a write does: it adds to a link that is open.                      *)
LEMMA WriteDoes ==
    ASSUME TypeInv, NEW l \in Link, NEW chunk \in Chunk, Write(l, chunk)
    PROVE  /\ \/ /\ near[l] = "open" /\ near' = near
                 /\ down'[l] = Append(down[l], chunk)
              \/ near[l] # "open" /\ near'[l] # "open" /\ down' = down
           /\ \A m \in Link : m # l => down'[m] = down[m] /\ near'[m] = near[m]
           /\ Append(down[l], chunk) \in Seq(Chunk) /\ Append(down[l], chunk) # <<>>
           /\ Len(Append(down[l], chunk)) = Len(down[l]) + 1
           /\ \A k \in 1..Len(down[l]) : Append(down[l], chunk)[k] = down[l][k]
           /\ Append(down[l], chunk)[Len(down[l]) + 1] = chunk
<1>1. /\ down \in [Link -> Seq(Chunk)]
      /\ near \in [Link -> {"open", "closed", "reset", "broken"}]
  BY DEF TypeInv, TypeOK, ParticipantTypeOK, LinksTypeOK
<1>2. /\ \/ /\ near[l] = "open" /\ near' = near
            /\ down'[l] = Append(down[l], chunk)
         \/ near[l] # "open" /\ near'[l] # "open" /\ down' = down
      /\ \A m \in Link : m # l => down'[m] = down[m] /\ near'[m] = near[m]
  BY <1>1 DEF Write
<1>3. /\ Append(down[l], chunk) \in Seq(Chunk)
      /\ Len(Append(down[l], chunk)) = Len(down[l]) + 1
      /\ \A k \in 1..Len(down[l]) : Append(down[l], chunk)[k] = down[l][k]
      /\ Append(down[l], chunk)[Len(down[l]) + 1] = chunk
      /\ Len(down[l]) \in Nat
  BY <1>1, AppendProperties, LenProperties
<1>4. Append(down[l], chunk) # <<>>
  BY <1>1, AppendProperties
<1>. QED
  BY <1>2, <1>3, <1>4

(* The wire of a link that is written.                                     *)
LEMMA WireWritten ==
    ASSUME NEW l \in Link, WireAt(l), stage[l] \notin Early, unread[l] = 0, far[l] # "reset",
           UNCHANGED <<link, stage, unread, far, proc, heard>>,
           near'[l] = "open" <=> near[l] = "open"
    PROVE  WireAt(l)'
  BY DEF WireAt, Early

(* An event that comes at the end does not make up an answer.              *)
LEMMA AnsweredBefore ==
    ASSUME NEW s \in Seq(Chunk), NEW chunk \in Chunk, chunk \notin {AnswerHead, AnswerOK},
           NEW st, NEW d, Answered(st, Append(s, chunk), d)
    PROVE  Answered(st, s, d)
<1>1. /\ Len(s) \in Nat /\ Len(Append(s, chunk)) = Len(s) + 1
      /\ \A k \in 1..Len(s) : Append(s, chunk)[k] = s[k]
      /\ Append(s, chunk)[Len(s) + 1] = chunk
      /\ Append(s, chunk) \in Seq(Chunk)
  BY AppendProperties, LenProperties
<1>2. PICK r : r = Append(s, chunk) /\ Answered(st, r, d) /\ r \in Seq(Chunk)
  BY <1>1
<1>3. r # <<>>
  BY <1>1, <1>2, EmptySeq
<1>4. r # <<AnswerHead>>
  <2>1. ASSUME r = <<AnswerHead>> PROVE FALSE
    <3>1. r[1] = AnswerHead /\ Len(r) = 1
      BY <2>1
    <3>2. r[Len(s) + 1] = chunk /\ Len(s) + 1 = 1
      BY <1>1, <1>2, <3>1
    <3>. QED
      BY <3>1, <3>2
  <2>. QED
    BY <2>1
<1>5. CASE d = -2 /\ st = "wait" /\ Len(r) >= 2 /\ r[1] = AnswerHead /\ r[2] = AnswerOK
  <2>1. Len(s) + 1 # 2 /\ Len(s) + 1 >= 2
    BY <1>1, <1>2, <1>5
  <2>2. Len(s) >= 2 /\ 1 \in 1..Len(s) /\ 2 \in 1..Len(s)
    BY <1>1, <2>1
  <2>3. s[1] = AnswerHead /\ s[2] = AnswerOK
    BY <1>1, <1>2, <1>5, <2>2
  <2>. QED
    BY <1>5, <2>2, <2>3 DEF Answered
<1>6. CASE d = -1 /\ st = "content" /\ Len(r) >= 1 /\ r[1] = AnswerOK
  <2>1. Len(s) + 1 # 1
    BY <1>1, <1>2, <1>6
  <2>2. Len(s) >= 1 /\ 1 \in 1..Len(s)
    BY <1>1, <2>1
  <2>3. s[1] = AnswerOK
    BY <1>1, <1>2, <1>6, <2>2
  <2>. QED
    BY <1>6, <2>2, <2>3 DEF Answered
<1>. QED
  BY <1>2, <1>3, <1>4, <1>5, <1>6 DEF Answered

(* A chunk of the event goes to the next subscriber, or to its content.    *)
LEMMA EventWriteKeeps ==
    ASSUME TypeInv, EventInv, NEW p \in Proc, NEW t \in Topic, NEW n \in Name,
           NEW l \in Link, NEW chunk \in Chunk, NEW o \in {1, 2},
           Up(p), app[p] = [op |-> "walk", arg |-> t], l = client_map[p][t][n],
           Write(l, chunk), PublisherShare(p), UNCHANGED <<client_map, app, count>>,
           walk'[p].left = walk[p].left \ {n}, walk'[p].at \in {n, None},
           walk[p].at \in {n, None}, Owed(l) = o,
           chunk = IF o = 2 THEN Header("EVENT") ELSE Body("EVENT", count[p][t]),
           near[l] = "open" => Owed(l)' = o - 1
    PROVE  EventInv'
<1>0. /\ down \in [Link -> Seq(Chunk)] /\ LinkAt(l) /\ ListsAt(p)
      /\ link[l].to = p /\ link[l].arg = t /\ NameOf[link[l].from] = n /\ heard[l] # <<>>
  BY DEF TypeInv, TypeOK, ParticipantTypeOK, LinksTypeOK, EventInv, ThreadAt, ListsAt,
         Link, NoLink
<1>1. /\ \/ /\ near[l] = "open" /\ near' = near
            /\ down'[l] = Append(down[l], chunk)
         \/ near[l] # "open" /\ near'[l] # "open" /\ down' = down
      /\ \A m \in Link : m # l => down'[m] = down[m] /\ near'[m] = near[m]
  BY WriteDoes
<1>2. ListsAt(p)'
  <2>1. walk'[p].at \notin walk'[p].left
    BY ParticipantConstants, <1>0 DEF TypeInv, TypeOK, EventTypeOK, Walk
  <2>. QED
    BY <1>0, <2>1 DEF ListsAt, PublisherShare
<1>3. ASSUME NEW m \in Link, m # l
      PROVE  Still(m) /\ (link[m].to = p => PubStill(m))
  <2>1. Still(m)
    BY <1>1, <1>3 DEF Still, PublisherShare
  <2>2. ASSUME link[m].to = p, heard[m] # <<>>, near[m] = "open" PROVE Owed(m)' = Owed(m)
    <3>1. client_map[p][link[m].arg][NameOf[link[m].from]] = m
      BY <2>2 DEF EventInv, LinkAt, EntryAt
    <3>2. ~(link[m].arg = t /\ NameOf[link[m].from] = n)
      BY <1>3, <3>1
    <3>3. NameOf[link[m].from] # None
      BY <2>2, LinkTypes, ParticipantConstants DEF EventInv, LinkAt, WireAt, Early
    <3>4. CASE link[m].arg # t
      <4>1. link'[m] = link[m] /\ app' = app
        BY <2>1 DEF Still
      <4>2. app[p] # [op |-> "walk", arg |-> link[m].arg]
        BY <3>4
      <4>. QED
        BY <2>2, <4>1, <4>2 DEF Owed
    <3>5. CASE NameOf[link[m].from] # n
      BY <2>1, <2>2, <3>3, <3>5 DEF Owed, Still
    <3>. QED
      BY <3>2, <3>4, <3>5
  <2>. QED
    BY <2>1, <2>2 DEF PubStill, Published, PublisherShare, Up
<1>4. CASE near[l] # "open"
  <2>1. Still(l) /\ PubStill(l)
    BY <1>1, <1>4 DEF Still, PubStill, PublisherShare
  <2>. QED
    BY <1>2, <1>3, <2>1, PublisherKeeps
<1>5. CASE near[l] = "open"
  <2>1. /\ near' = near /\ down'[l] = Append(down[l], chunk)
        /\ down'[l] \in Seq(Chunk) /\ down'[l] # <<>>
        /\ Len(down'[l]) = Len(down[l]) + 1 /\ Len(down[l]) \in Nat
    <3>1. /\ Append(down[l], chunk) \in Seq(Chunk) /\ Append(down[l], chunk) # <<>>
          /\ Len(Append(down[l], chunk)) = Len(down[l]) + 1
      BY WriteDoes
    <3>2. near' = near /\ down'[l] = Append(down[l], chunk) /\ Len(down[l]) \in Nat
      BY <1>0, <1>1, <1>5, LenProperties
    <3>. QED
      BY <3>1, <3>2
  <2>2. stage[l] \notin Early /\ unread[l] = 0 /\ far[l] # "reset"
    <3>1. WireAt(l) /\ unread[l] \in 0..2
      BY <1>0, LinkTypes DEF LinkAt
    <3>2. unread[l] = 0
      BY <1>0, <3>1 DEF WireAt
    <3>3. stage[l] \notin Early /\ far[l] # "reset"
      BY <1>0, <3>1 DEF WireAt, Up
    <3>. QED
      BY <3>2, <3>3
  <2>3. WireAt(l)'
    BY <1>0, <2>1, <2>2, WireWritten DEF LinkAt, PublisherShare
  <2>4. Got(l)' = Got(l) /\ Recorded(l)' = Recorded(l) /\ InRead(l)' = InRead(l)
        /\ Own(l)' = Own(l) /\ Published(l)' = Published(l)
    BY DEF Got, Recorded, InRead, Own, HasCallback, Subscriptions, Published, PublisherShare
  <2>5. GotAt(l)' /\ EntryAt(l)'
    BY <1>0, <2>1, <2>4 DEF LinkAt, GotAt, EntryAt, PublisherShare, Up
  <2>6. chunk \notin {AnswerHead, AnswerOK}
    BY DEF AnswerHead, AnswerOK, Header, Body
  <2>7. ClientAt(l)'
    <3>1. ASSUME link[l].type = "SUBSCRIBE", NEW d \in Shift, Clean(l, d)'
          PROVE  Streams(l, d)'
      <4>1. Clean(l, d)
        <5>1. CASE Answered(stage'[l], down'[l], d)
          <6>1. Answered(stage[l], Append(down[l], chunk), d)
            BY <2>1, <5>1 DEF PublisherShare
          <6>. QED
            BY <1>0, <2>6, <6>1, AnsweredBefore DEF Clean
        <5>2. CASE ~Answered(stage'[l], down'[l], d)
          BY <2>4, <3>1, <5>2 DEF Clean
        <5>. QED
          BY <5>1, <5>2
      <4>2. PICK base \in 0..Published(l) :
               Flows(l, d, base) /\ (Own(l) => base = Last(heard[l]))
        BY <1>0, <3>1, <4>1 DEF LinkAt, ClientAt, Streams
      <4>3. PICK last \in Nat, long \in Nat :
               last = Published(l) /\ long = Len(down[l]) /\ last = count[p][t]
        <5>1. stage[l] # "unused"
          BY <2>2 DEF Early
        <5>2. Published(l) \in 0..MaxEvents
          BY <3>1, <5>1, LinkTypes
        <5>3. Published(l) = count[p][t]
          BY <1>0 DEF Published
        <5>. QED
          BY <2>1, <5>2, <5>3
      <4>4. long + d = 2 * (last - base) - o /\ InOrder(down[l], d, base)
        <5>1. Up(link[l].to) /\ Owed(l) = o
          BY <1>0
        <5>2. /\ Len(down[l]) + d = 2 * (Published(l) - base) - Owed(l)
              /\ InOrder(down[l], d, base)
          BY <4>2, <5>1 DEF Flows
        <5>. QED
          BY <4>3, <5>1, <5>2
      <4>5. base \in 0..last /\ base \in Nat /\ d \in -2..1 /\ o \in 1..2
        BY <4>2, <4>3 DEF Shift
      <4>6. chunk = Event(long + 1 + d, base)
        <5>1. CASE o = 2
          <6>1. long + 1 + d = 2 * (last - base) - 1
            BY <4>4, <4>5, <5>1
          <6>2. (long + 1 + d) % 2 = 1
            BY <4>5, <6>1
          <6>. QED
            BY <5>1, <6>2 DEF Event
        <5>2. CASE o = 1
          <6>1. long + 1 + d = 2 * (last - base)
            BY <4>4, <4>5, <5>2
          <6>2. (long + 1 + d) % 2 = 0 /\ base + ((long + 1 + d) \div 2) = last
            BY <4>5, <6>1
          <6>3. Body("EVENT", base + ((long + 1 + d) \div 2)) = Body("EVENT", last)
            BY <6>2
          <6>. QED
            BY <4>3, <5>2, <6>2, <6>3 DEF Event
        <5>. QED
          BY <5>1, <5>2
      <4>7. InOrder(Append(down[l], chunk), d, base)
        BY <1>0, <4>3, <4>4, <4>5, <4>6, OrderAppend
      <4>8. /\ (long + 1) + d = 2 * (last - base) - (o - 1)
            /\ (long + 1) + d <= 2 * (last - base)
        <5>1. long + d = 2 * (last - base) - o
          BY <4>4
        <5>2. long \in Int /\ last \in Int /\ base \in Int /\ d \in Int
          BY <4>3, <4>5
        <5>3. o \in {0, 1, 2} /\ o # 0
          OBVIOUS
        <5>. QED
          BY <5>1, <5>2, <5>3, ChunkCounts
      <4>10. Flows(l, d, base)'
        BY <1>5, <2>1, <2>4, <4>3, <4>7, <4>8 DEF Flows, PublisherShare
      <4>. QED
        BY <1>0, <2>4, <4>2, <4>10 DEF Streams, PublisherShare
    <3>. QED
      BY <3>1 DEF ClientAt, PublisherShare
  <2>8. HandsStay(l)
    <3>1. ASSUME NEW x \in {AnswerHead, AnswerOK}, Lacks(down[l], x)
          PROVE  Lacks(down'[l], x)
      <4>1. down[l] \in Seq(Chunk) /\ chunk # x
        BY <1>0, <2>6
      <4>2. Lacks(Append(down[l], chunk), x)
        BY <3>1, <4>1, LacksChunk
      <4>. QED
        BY <2>1, <4>2
    <3>. QED
      BY <2>1, <2>4, <3>1 DEF HandsStay, Held, PublisherShare, Up
  <2>9. LinkAt(l)'
    BY <2>3, <2>5, <2>7 DEF LinkAt
  <2>. QED
    BY <1>2, <1>3, <2>8, <2>9, PublisherKeeps
<1>. QED
  BY <1>4, <1>5

(* EventHeader and EventBody write what is owed to the next subscriber.    *)
LEMMA EventHeaderKeeps ==
    ASSUME TypeInv, ListInv, EventInv, NEW p \in Proc,
           (\E n \in Name : EventHeader(p, n)) \/ EventBody(p)
    PROVE  EventInv'
<1>0. /\ client_map \in [Proc -> [Topic -> [Name -> Link \cup {NoLink}]]]
      /\ app \in [Proc -> Activity] /\ walk \in [Proc -> Walk]
      /\ count \in [Proc -> [Topic -> 0..MaxEvents]]
  BY DEF TypeInv, TypeOK, EventTypeOK, ParticipantTypeOK
<1>1. PICK t \in Topic : t = app[p].arg /\ Walks(p, t)
  BY <1>0 DEF EventHeader, EventBody, Walking, TypeInv, ThreadsAt, AppAt, Walks
<1>2. /\ Up(p) /\ app[p] = [op |-> "walk", arg |-> t] /\ walk[p] \in Walk
      /\ PublisherShare(p) /\ UNCHANGED <<client_map, app, count>>
      /\ count[p][t] \in Nat
  BY <1>0, <1>1 DEF EventHeader, EventBody, Walking, PublisherShare, Activity
<1>3. ASSUME NEW n \in OnWalk(p)
      PROVE  /\ n \in Name /\ client_map[p][t][n] \in Link
             /\ link[client_map[p][t][n]].to = p /\ link[client_map[p][t][n]].arg = t
             /\ NameOf[link[client_map[p][t][n]].from] = n
  <2>1. client_map[p][t][n] # NoLink
    BY <1>1 DEF ListInv, PublisherAt, TopicAt
  <2>2. n \in Name
    BY <1>2 DEF OnWalk, Walk
  <2>. QED
    BY <1>0, <2>1, <2>2 DEF EventInv, ThreadAt, ListsAt
<1>4. ASSUME NEW n \in Name, EventHeader(p, n) PROVE EventInv'
  <2>1. n \in OnWalk(p)
    BY <1>4 DEF EventHeader, OnWalk
  <2>2. PICK l \in Link : l = client_map[p][t][n] /\ Write(l, Header("EVENT"))
    BY <1>1, <1>3, <1>4, <2>1 DEF EventHeader
  <2>3. /\ walk[p].at = None /\ n \in walk[p].left
        /\ walk'[p].left = walk[p].left \ {n} /\ walk'[p].at \in {n, None}
        /\ near[l] = "open" => walk'[p].at = n
    BY <1>0, <1>1, <1>4, <2>2 DEF EventHeader, Succeeds
  <2>4. Owed(l) = 2 /\ (near[l] = "open" => Owed(l)' = 1)
    BY <1>2, <1>3, <2>1, <2>2, <2>3 DEF Owed, PublisherShare
  <2>5. Header("EVENT") \in Chunk
    BY Chunks
  <2>. QED
    BY <1>2, <2>2, <2>3, <2>4, <2>5, EventWriteKeeps
<1>5. ASSUME EventBody(p) PROVE EventInv'
  <2>1. PICK n : n = walk[p].at /\ n # None
    BY <1>5 DEF EventBody
  <2>2. n \in OnWalk(p) /\ n \notin walk[p].left
    BY <2>1 DEF OnWalk, EventInv, ThreadAt, ListsAt
  <2>3. PICK l \in Link : l = client_map[p][t][n] /\ Write(l, Body("EVENT", count[p][t]))
    BY <1>1, <1>3, <1>5, <2>1, <2>2 DEF EventBody
  <2>4. walk'[p].left = walk[p].left \ {n} /\ walk'[p].at = None
    BY <1>0, <1>5, <2>2 DEF EventBody
  <2>5. Owed(l) = 1 /\ Owed(l)' = 0
    <3>1. link[l].to = p /\ link[l].arg = t /\ NameOf[link[l].from] = n
      BY <1>3, <2>2, <2>3
    <3>2. Owed(l) = 1
      BY <1>2, <2>1, <2>2, <3>1 DEF Owed
    <3>3. link' = link /\ app' = app /\ n \notin walk'[p].left /\ walk'[p].at # n
      BY <1>2, <2>1, <2>4 DEF PublisherShare
    <3>4. Owed(l)' = 0
      BY <3>1, <3>3 DEF Owed
    <3>. QED
      BY <3>2, <3>4
  <2>6. Body("EVENT", count[p][t]) \in Chunk /\ n \in Name
    BY <1>2, <1>3, <2>2, Chunks
  <2>. QED
    BY <1>2, <2>1, <2>3, <2>4, <2>5, <2>6, EventWriteKeeps
<1>. QED
  BY <1>4, <1>5

-------------------------------------------------------------------------------
(* The thread that listens.                                                *)

(* A step of the listening thread of p with the link l it has in hand.     *)
ListenShare(p, l) ==
    /\ UNCHANGED <<link, stage, far, proc, app, backlog, sub_list, slots, ew, count>>
    /\ \A q \in Proc : q # p => /\ lis'[q] = lis[q] /\ client_map'[q] = client_map[q]
                                /\ walk'[q] = walk[q]
    /\ lis[p].link = l /\ lis'[p] # lis[p] /\ lis'[p].link \in {l, NoLink}
    /\ link[l].to = p
    /\ near'[l] = "open" <=> near[l] = "open"
    /\ \A m \in Link : m # l => /\ down'[m] = down[m] /\ near'[m] = near[m]
                                /\ unread'[m] = unread[m] /\ heard'[m] = heard[m]

(* A step of the listening thread, but for the link it has in hand.        *)
LEMMA ListenKeeps ==
    ASSUME TypeInv, EventInv, NEW p \in Proc, NEW l \in Link, ListenShare(p, l),
           \A m \in Link \ {l} : link[m].to = p => PubStill(m),
           LinkAt(l)', heard[l] # <<>> => heard'[l] # <<>>,
           HandAt(p)', ListsAt(p)'
    PROVE  EventInv'
<1>1. Lives /\ LinksStay /\ (\A q \in Proc : Up(q) => Up(q)')
  BY DEF ListenShare, Lives, LinksStay, Up
<1>2. ASSUME NEW m \in Link
      PROVE  \/ Still(m) /\ PollStill(m) /\ PubStill(m)
             \/ /\ LinkAt(m)' /\ HandsStay(m)
                /\ heard[m] # <<>> => heard'[m] # <<>>
  <2>1. CASE m = l
    <3>1. HandsStay(l)
      BY DEF HandsStay, Held, ListenShare
    <3>. QED
      BY <2>1, <3>1
  <2>2. CASE m # l
    <3>1. Still(m)
      BY <2>2 DEF Still, ListenShare
    <3>2. PollStill(m)
      BY PollSame DEF ListenShare
    <3>3. ASSUME heard[m] # <<>>, link[m].to # p PROVE PubStill(m)
      <4>1. link[m].to \in Proc
        BY <3>3, LinkTypes DEF EventInv, LinkAt, WireAt, Early
      <4>. QED
        BY <3>1, <3>3, <4>1 DEF PubStill, Published, Owed, ListenShare, Up
    <3>4. PubStill(m)
      BY <2>2, <3>3 DEF PubStill
    <3>. QED
      BY <3>1, <3>2, <3>4
  <2>. QED
    BY <2>1, <2>2
<1>3. ASSUME LinksServe, NEW q \in Proc PROVE ThreadAt(q)' \/ (Sleeps(q) /\ Unanswered(q))
  <2>1. ThreadAt(q)
    BY DEF EventInv
  <2>2. CASE q # p
    <3>1. Unanswered(q)
      BY <2>2 DEF Unanswered, ListenShare
    <3>. QED
      BY <2>2, <3>1 DEF ListenShare, Sleeps
  <2>3. CASE q = p
    <3>1. QueueAt(q)'
      <4>1. \A m \in Link \ {lis[q].link} :
               link[m].to = q /\ unread[m] > 0 => unread'[m] > 0
        BY <2>3 DEF ListenShare
      <4>2. backlog'[q] = backlog[q] /\ lis'[q].link \in {lis[q].link, NoLink}
        BY <2>3 DEF ListenShare
      <4>. QED
        BY <1>1, <2>1, <4>1, <4>2, QueueKept DEF ThreadAt
    <3>2. SlotsAt(q)'
      BY <1>1, <2>1, SlotsKept DEF ThreadAt, SlotsAt, ListenShare
    <3>. QED
      BY <2>3, <3>1, <3>2 DEF ThreadAt
  <2>. QED
    BY <2>2, <2>3
<1>. QED
  BY <1>1, <1>2, <1>3, StepKeeps

(* What the listening thread has in hand.                                  *)
LEMMA HandLink ==
    ASSUME TypeInv, EventInv, NEW p \in Proc, lis[p].pc \in {"read", "callback", "header", "body"}
    PROVE  lis[p].link \in Link /\ Held(p, lis[p].link, lis[p].pc)
<1>1. lis[p].link \in Link /\ lis[p].link # NoLink
  BY DEF TypeInv, TypeOK, ParticipantTypeOK, Listener
<1>2. HandAt(p)
  BY DEF EventInv, ThreadAt
<1>. QED
  BY <1>1, <1>2 DEF HandAt

(* A chunk of the answer takes the place of what the subscriber had to     *)
(* read before the events.                                                 *)
LEMMA AnswerShift ==
    ASSUME NEW s \in Seq(Chunk), NEW chunk \in Chunk, NEW st, NEW d \in Shift,
           Lacks(s, AnswerOK), Answered(st, Append(s, chunk), d),
           \/ chunk = AnswerHead /\ st # "content"
           \/ chunk # AnswerHead /\ (st = "wait" => s # <<>>)
    PROVE  Answered(st, s, d + 1) /\ Len(s) + (d + 1) = 0
<1>1. /\ Len(s) \in Nat /\ Len(Append(s, chunk)) = Len(s) + 1
      /\ \A k \in 1..Len(s) : Append(s, chunk)[k] = s[k]
      /\ Append(s, chunk)[Len(s) + 1] = chunk
      /\ Append(s, chunk) \in Seq(Chunk)
  BY AppendProperties, LenProperties
<1>2. PICK r : r = Append(s, chunk) /\ Answered(st, r, d) /\ r \in Seq(Chunk)
  BY <1>1
<1>3. r # <<>> /\ Len(r) = Len(s) + 1 /\ (Len(s) = 0 => s = <<>>) /\ (s = <<>> => Len(s) = 0)
  BY <1>1, <1>2, EmptySeq
<1>4. AnswerHead # AnswerOK
  BY DEF AnswerHead, AnswerOK, Header, Body
<1>5. CASE d = -1 /\ st = "wait" /\ r = <<AnswerHead>>
  <2>1. r[1] = AnswerHead /\ Len(r) = 1
    BY <1>5
  <2>2. Len(s) = 0 /\ d + 1 = 0
    BY <1>1, <1>3, <1>5, <2>1
  <2>3. s = <<>> /\ st = "wait"
    BY <1>3, <1>5, <2>2
  <2>4. Answered(st, s, 0)
    BY <2>3 DEF Answered
  <2>. QED
    BY <2>2, <2>4
<1>6. CASE d = -2 /\ st = "wait" /\ Len(r) >= 2 /\ r[1] = AnswerHead /\ r[2] = AnswerOK
  <2>1. ~(2 \in 1..Len(s))
    BY <1>1, <1>2, <1>6 DEF Lacks
  <2>2. Len(s) = 1 /\ 1 \in 1..Len(s)
    <3>1. PICK n \in Nat : n = Len(s)
      BY <1>1
    <3>2. n + 1 >= 2 /\ ~(2 \in 1..n)
      BY <1>3, <1>6, <2>1, <3>1
    <3>3. n = 1
      BY <3>2
    <3>. QED
      BY <3>1, <3>3
  <2>3. s[1] = AnswerHead
    BY <1>1, <1>2, <1>6, <2>2
  <2>4. s = <<AnswerHead>>
    BY <2>2, <2>3
  <2>5. d + 1 = -1
    BY <1>6
  <2>6. Answered(st, s, -1)
    BY <1>6, <2>4 DEF Answered
  <2>. QED
    BY <2>2, <2>5, <2>6
<1>7. CASE d = -1 /\ st = "content" /\ Len(r) >= 1 /\ r[1] = AnswerOK
  <2>1. ~(1 \in 1..Len(s))
    BY <1>1, <1>2, <1>7 DEF Lacks
  <2>2. Len(s) = 0 /\ d + 1 = 0
    BY <1>1, <1>7, <2>1
  <2>3. Answered(st, s, 0)
    BY <1>3, <1>7, <2>2 DEF Answered
  <2>. QED
    BY <2>2, <2>3
<1>. QED
  BY <1>2, <1>3, <1>5, <1>6, <1>7 DEF Answered

(* A chunk of an answer is written.                                        *)
LEMMA AnswerWriteKeeps ==
    ASSUME TypeInv, EventInv, NEW p \in Proc, NEW l \in Link, NEW chunk \in Chunk,
           Write(l, chunk), ListenShare(p, l),
           UNCHANGED <<unread, client_map, walk, heard>>, Held(p, l, lis[p].pc),
           link[l].type = "SUBSCRIBE" =>
              \/ lis[p].pc = "header" /\ chunk = AnswerHead
              \/ lis[p].pc = "body" /\ chunk # AnswerHead,
           \/ lis[p].pc = "header" /\ lis'[p].pc = "body" /\ lis'[p].link = l
           \/ lis[p].pc = "body" /\ lis'[p].link = NoLink
    PROVE  EventInv'
<1>0. /\ down \in [Link -> Seq(Chunk)] /\ LinkAt(l) /\ ThreadAt(p) /\ Len(down[l]) \in Nat
  BY LenProperties DEF TypeInv, TypeOK, ParticipantTypeOK, LinksTypeOK, EventInv
<1>1. \/ /\ near[l] = "open" /\ near' = near
         /\ down'[l] = Append(down[l], chunk)
      \/ near[l] # "open" /\ near'[l] # "open" /\ down' = down
  BY WriteDoes
<1>2. /\ Append(down[l], chunk) \in Seq(Chunk) /\ Append(down[l], chunk) # <<>>
      /\ Len(Append(down[l], chunk)) = Len(down[l]) + 1
  BY WriteDoes
<1>3. ListsAt(p)'
  BY <1>0, ListsKept DEF ThreadAt, LinksStay, ListenShare
<1>4. ASSUME NEW m \in Link, m # l PROVE PubStill(m)
  BY DEF PubStill, Published, Owed, ListenShare, Up
<1>5. /\ stage[l] \notin Early /\ unread[l] = 0 /\ far[l] = "open" /\ Up(p)
      /\ link[l].to = p
  BY <1>0, LinkTypes DEF Held, LinkAt, WireAt, Up, ListenShare
<1>6. WireAt(l)'
  BY <1>0, <1>5, WireWritten DEF LinkAt, ListenShare
<1>7. Got(l)' = Got(l) /\ Recorded(l)' = Recorded(l) /\ InRead(l)' = InRead(l)
      /\ Own(l)' = Own(l) /\ Published(l)' = Published(l) /\ Owed(l)' = Owed(l)
  BY DEF Got, Recorded, InRead, Own, HasCallback, Subscriptions, Published, Owed, ListenShare
<1>8. GotAt(l)' /\ EntryAt(l)'
  BY <1>0, <1>7 DEF LinkAt, GotAt, EntryAt, ListenShare, Up
<1>9. ClientAt(l)'
  <2>1. CASE near[l] # "open"
    <3>1. Still(l) /\ PollStill(l) /\ PubStill(l)
      BY <1>1, <1>7, <2>1 DEF Still, PollStill, PubStill, HasCallback, Subscriptions,
                              ListenShare
    <3>. QED
      BY <1>0, <3>1, ClientStill
  <2>2. CASE near[l] = "open"
    <3>1. down'[l] = Append(down[l], chunk)
      BY <1>1, <2>2
    <3>2. ASSUME link[l].type = "SUBSCRIBE", NEW d \in Shift, Clean(l, d)'
          PROVE  Streams(l, d)'
      <4>1. ~Got(l) /\ Lacks(down[l], AnswerOK)
        BY <1>7, <3>2 DEF Held
      <4>2. Answered(stage[l], Append(down[l], chunk), d)
        BY <1>7, <3>1, <3>2, <4>1 DEF Clean, ListenShare
      <4>3. \/ chunk = AnswerHead /\ stage[l] # "content"
            \/ chunk # AnswerHead /\ (stage[l] = "wait" => down[l] # <<>>)
        BY <3>2 DEF Held
      <4>4. Answered(stage[l], down[l], d + 1) /\ Len(down[l]) + (d + 1) = 0
        BY <1>0, <4>1, <4>2, <4>3, AnswerShift
      <4>5. d + 1 \in Shift /\ d \in -2..1
        BY <1>0, <4>4 DEF Shift
      <4>6. Streams(l, d + 1)
        BY <1>0, <3>2, <4>4, <4>5 DEF LinkAt, ClientAt, Clean
      <4>7. Len(down'[l]) + d = 0 /\ Len(down'[l]) \in Nat
        BY <1>0, <1>2, <3>1, <4>4, <4>5
      <4>8. CASE heard[l] = <<>>
        BY <4>7, <4>8 DEF Streams
      <4>9. CASE heard[l] # <<>>
        <5>1. PICK base \in 0..Published(l) :
                 Flows(l, d + 1, base) /\ (Own(l) => base = Last(heard[l]))
          BY <4>6, <4>9 DEF Streams
        <5>2. InOrder(down'[l], d, base)
          <6>1. ASSUME NEW k \in 1..Len(down'[l]) PROVE ~(k + d >= 1)
            BY <4>5, <4>7
          <6>. QED
            BY <6>1 DEF InOrder
        <5>3. /\ 0 <= 2 * (Published(l) - base)
              /\ Up(p) => 0 = 2 * (Published(l) - base) - Owed(l)
          BY <1>5, <4>4, <5>1 DEF Flows
        <5>4. Flows(l, d, base)'
          BY <1>5, <1>7, <4>7, <5>2, <5>3 DEF Flows, ListenShare, Up
        <5>. QED
          BY <1>7, <4>9, <5>1, <5>4 DEF Streams
      <4>. QED
        BY <4>8, <4>9
    <3>. QED
      BY <3>2 DEF ClientAt, ListenShare
  <2>. QED
    BY <2>1, <2>2
<1>10. HandAt(p)'
  <2>1. CASE lis'[p].link = NoLink
    BY <2>1 DEF HandAt
  <2>2. CASE lis[p].pc = "header" /\ lis'[p].pc = "body" /\ lis'[p].link = l
    <3>1. ASSUME link[l].type = "SUBSCRIBE"
          PROVE  /\ ~Got(l) /\ Lacks(down'[l], AnswerOK)
                 /\ stage[l] = "wait" => down'[l] # <<>>
      <4>1. ~Got(l) /\ Lacks(down[l], AnswerOK) /\ chunk # AnswerOK
        BY <2>2, <3>1 DEF Held, AnswerHead, AnswerOK, Header, Body
      <4>2. Lacks(Append(down[l], chunk), AnswerOK)
        BY <1>0, <4>1, LacksChunk
      <4>3. stage[l] = "wait" => near[l] = "open"
        BY <1>0 DEF LinkAt, WireAt
      <4>. QED
        BY <1>1, <1>2, <4>1, <4>2, <4>3
    <3>2. Held(p, l, "body")'
      BY <1>5, <1>7, <3>1 DEF Held, ListenShare, Up, Early
    <3>. QED
      BY <2>2, <3>2 DEF HandAt
  <2>. QED
    BY <2>1, <2>2
<1>11. LinkAt(l)'
  BY <1>6, <1>8, <1>9 DEF LinkAt
<1>. QED
  BY <1>3, <1>4, <1>10, <1>11, ListenKeeps

(* AnswerHeader and AnswerBody, behind or ahead of an event.               *)
LEMMA AnswerKeeps ==
    ASSUME TypeInv, EventInv, NEW p \in Proc, UNCHANGED eventVars,
           AnswerHeader(p) \/ AnswerBody(p)
    PROVE  EventInv'
<1>0. lis \in [Proc -> Listener] /\ lis[p].pc \in {"header", "body"}
  BY DEF TypeInv, TypeOK, ParticipantTypeOK, AnswerHeader, AnswerBody
<1>1. PICK l \in Link : l = lis[p].link /\ Held(p, l, lis[p].pc)
  BY <1>0, HandLink
<1>2. AnswerType(l) \in {"ANSWER", "EVENT", "RESPONSE"}
      /\ (link[l].type = "SUBSCRIBE" => AnswerType(l) = "ANSWER")
  BY DEF AnswerType
<1>3. CASE AnswerHeader(p)
  <2>1. PICK chunk \in Chunk : chunk = Header(AnswerType(l)) /\ Write(l, chunk)
    BY <1>1, <1>2, <1>3, Chunks DEF AnswerHeader
  <2>2. /\ lis[p].pc = "header" /\ lis'[p].pc = "body" /\ lis'[p].link = l
        /\ link[l].type = "SUBSCRIBE" => chunk = AnswerHead
    BY <1>0, <1>1, <1>2, <1>3, <2>1 DEF AnswerHeader, AnswerHead
  <2>3. ListenShare(p, l) /\ UNCHANGED <<unread, client_map, walk, heard>>
    <3>1. /\ UNCHANGED <<link, stage, unread, far, proc, app, backlog, eventVars>>
          /\ \A q \in Proc : q # p => lis'[q] = lis[q]
      BY <1>0, <1>3 DEF AnswerHeader
    <3>2. lis'[p].link \in {l, NoLink} /\ lis'[p] # lis[p]
      BY <2>2
    <3>3. /\ near'[l] = "open" <=> near[l] = "open"
          /\ \A m \in Link : m # l => down'[m] = down[m] /\ near'[m] = near[m]
      BY <2>1, WriteDoes
    <3>4. link[l].to = p
      BY <1>1 DEF Held
    <3>. QED
      BY <1>1, <3>1, <3>2, <3>3, <3>4 DEF ListenShare
  <2>. QED
    BY <1>1, <2>1, <2>2, <2>3, AnswerWriteKeeps
<1>4. CASE AnswerBody(p)
  <2>1. PICK n \in Nat : n = IF lis[p].ok THEN OK ELSE Refused
    BY Chunks
  <2>2. PICK chunk \in Chunk : chunk = Body(AnswerType(l), n) /\ Write(l, chunk)
    BY <1>1, <1>2, <1>4, <2>1, Chunks DEF AnswerBody
  <2>3. /\ lis[p].pc = "body" /\ lis'[p].pc = "accept" /\ lis'[p].link = NoLink
        /\ chunk # AnswerHead
    BY <1>0, <1>4, <2>2 DEF AnswerBody, AnswerHead, Free, Header, Body
  <2>4. ListenShare(p, l) /\ UNCHANGED <<unread, client_map, walk, heard>>
    BY <1>0, <1>1, <1>4, <2>2, <2>3, WriteDoes DEF AnswerBody, ListenShare, Held
  <2>. QED
    BY <1>1, <2>2, <2>3, <2>4, AnswerWriteKeeps
<1>. QED
  BY <1>3, <1>4

(* A request that is read whole: nothing has come back on its link.        *)
LEMMA RequestRead ==
    ASSUME TypeInv, EventInv, NEW p \in Proc, NEW type, Reads(p, type)
    PROVE  LET l == lis[p].link
           IN  /\ l \in Link /\ Held(p, l, "read") /\ lis[p].pc = "read"
               /\ Up(p) /\ link[l].to = p /\ link[l].type = type
               /\ stage[l] \notin Early /\ far[l] = "open" /\ ~Got(l)
               /\ type = "SUBSCRIBE" => stage[l] # "content"
               /\ down[l] = <<>> /\ heard[l] = <<>> /\ unread'[l] = 0
               /\ \A m \in Link : m # l => unread'[m] = unread[m]
               /\ UNCHANGED <<link, stage, down, near, far>>
<1>1. lis[p].link \in Link /\ Held(p, lis[p].link, lis[p].pc) /\ lis[p].pc = "read"
  BY HandLink DEF Reads
<1>2. PICK l \in Link : l = lis[p].link /\ Held(p, l, "read") /\ LinkAt(l)
  BY <1>1 DEF EventInv
<1>3. /\ link[l].type = type /\ unread[l] = 2 /\ Up(p) /\ link[l].to = p
  BY <1>2 DEF Reads, Held
<1>4. /\ stage[l] \notin Early /\ far[l] = "open" /\ down[l] = <<>> /\ heard[l] = <<>>
      /\ ~Got(l) /\ (type = "SUBSCRIBE" => stage[l] # "content")
  BY <1>2, <1>3 DEF LinkAt, WireAt, GotAt
<1>5. /\ unread'[l] = 0 /\ \A m \in Link : m # l => unread'[m] = unread[m]
      /\ UNCHANGED <<link, stage, down, near, far>>
  BY <1>2 DEF Reads, TypeInv, TypeOK, ParticipantTypeOK, LinksTypeOK
<1>. QED
  BY <1>1, <1>2, <1>3, <1>4, <1>5

(* Then there is an answer to write, or a callback to run.                 *)
LEMMA RequestHand ==
    ASSUME TypeInv, EventInv, NEW p \in Proc, NEW type, Reads(p, type),
           UNCHANGED <<proc, sub_list, slots>>, lis'[p].link = lis[p].link,
           lis'[p].pc \in {"callback", "header"},
           lis'[p].pc = "callback" => type = "CALL"
    PROVE  HandAt(p)'
<1>1. PICK l \in Link : /\ l = lis[p].link /\ Up(p) /\ link[l].to = p /\ link[l].type = type
                        /\ stage[l] \notin Early /\ ~Got(l)
                        /\ type = "SUBSCRIBE" => stage[l] # "content"
                        /\ down[l] = <<>> /\ unread'[l] = 0
                        /\ UNCHANGED <<link, stage, down, near, far>>
  BY RequestRead
<1>2. ~Got(l)'
  BY <1>1 DEF Got, Recorded
<1>3. Lacks(down'[l], AnswerOK) /\ Lacks(down'[l], AnswerHead)
  BY <1>1, EmptySeq DEF Lacks
<1>4. PICK pc : pc = lis'[p].pc
  OBVIOUS
<1>5. Held(p, l, pc)'
  BY <1>1, <1>2, <1>3, <1>4 DEF Held, Up, Early
<1>. QED
  BY <1>1, <1>4, <1>5 DEF HandAt

(* ServeCall takes a request that is no subscription.                      *)
LEMMA ServeCallKeeps ==
    ASSUME TypeInv, EventInv, NEW p \in Proc, ServeCall(p), UNCHANGED eventVars
    PROVE  EventInv'
<1>0. lis \in [Proc -> Listener] /\ unread \in [Link -> 0..2] /\ Reads(p, "CALL")
  BY DEF TypeInv, TypeOK, ParticipantTypeOK, LinksTypeOK, ServeCall
<1>1. PICK l \in Link : /\ l = lis[p].link /\ Up(p) /\ link[l].to = p /\ link[l].type = "CALL"
                        /\ stage[l] \notin Early /\ ~Got(l) /\ far[l] = "open"
                        /\ down[l] = <<>> /\ unread'[l] = 0 /\ lis[p].pc = "read"
                        /\ \A m \in Link : m # l => unread'[m] = unread[m]
                        /\ UNCHANGED <<link, stage, down, near, far>>
  BY <1>0, RequestRead
<1>2. /\ UNCHANGED <<proc, app, backlog, eventVars>>
      /\ \A q \in Proc : q # p => lis'[q] = lis[q]
      /\ lis'[p].pc \in {"callback", "header"} /\ lis'[p].link = l
  <2>1. \/ lis' = [lis EXCEPT ![p].pc = "callback"]
        \/ lis' = [lis EXCEPT ![p].pc = "header", ![p].ok = FALSE, ![p].nested = NoLink]
    BY DEF ServeCall, Answers
  <2>2. UNCHANGED <<proc, app, backlog, eventVars>>
    BY DEF ServeCall
  <2>3. /\ \A q \in Proc : q # p => lis'[q] = lis[q]
        /\ lis'[p].pc \in {"callback", "header"} /\ lis'[p].link = lis[p].link
    BY <1>0, <2>1 DEF Listener
  <2>. QED
    BY <1>1, <2>2, <2>3
<1>3. HandAt(p)'
  BY <1>0, <1>1, <1>2, RequestHand
<1>4. ListenShare(p, l)
  BY <1>0, <1>1, <1>2 DEF ListenShare
<1>5. LinkAt(l)'
  <2>1. LinkAt(l)
    BY DEF EventInv
  <2>2. Got(l)' = Got(l) /\ Recorded(l)' = Recorded(l)
    BY <1>1, <1>2 DEF Got, Recorded
  <2>3. ClientAt(l)'
    BY <1>1 DEF ClientAt
  <2>. QED
    BY <1>1, <1>2, <2>1, <2>2, <2>3 DEF LinkAt, WireAt, GotAt, EntryAt, Early, Up
<1>6. ListsAt(p)'
  BY <1>1, <1>2, ListsKept DEF EventInv, ThreadAt, LinksStay
<1>7. \A m \in Link \ {l} : PubStill(m)
  BY <1>1, <1>2 DEF PubStill, Published, Owed, Up
<1>. QED
  BY <1>3, <1>4, <1>5, <1>6, <1>7, <1>2, ListenKeeps

(* Nothing is on the way to a subscriber whose request has just been read. *)
LEMMA NothingComes ==
    ASSUME NEW st, NEW d, Answered(st, <<>>, d)
    PROVE  d = 0
  BY EmptySeq DEF Answered

(* ServeSubscribe: events flow to the link from now on.                    *)
LEMMA ServeSubscribeKeeps ==
    ASSUME TypeInv, ListInv, EventInv, NEW p \in Proc, ServeSubscribe(p)
    PROVE  EventInv'
<1>0. /\ lis \in [Proc -> Listener] /\ unread \in [Link -> 0..2] /\ Reads(p, "SUBSCRIBE")
      /\ client_map \in [Proc -> [Topic -> [Name -> Link \cup {NoLink}]]]
      /\ count \in [Proc -> [Topic -> 0..MaxEvents]] /\ walk \in [Proc -> Walk]
      /\ heard \in [Link -> Seq(Nat)]
  BY DEF TypeInv, TypeOK, EventTypeOK, ParticipantTypeOK, LinksTypeOK, ServeSubscribe
<1>1. PICK l \in Link : /\ l = lis[p].link /\ Up(p) /\ link[l].to = p
                        /\ link[l].type = "SUBSCRIBE" /\ stage[l] # "content"
                        /\ stage[l] \notin Early /\ ~Got(l) /\ far[l] = "open"
                        /\ down[l] = <<>> /\ heard[l] = <<>> /\ unread'[l] = 0
                        /\ lis[p].pc = "read"
                        /\ \A m \in Link : m # l => unread'[m] = unread[m]
                        /\ UNCHANGED <<link, stage, down, near, far>>
  BY <1>0, RequestRead
<1>2. PICK t, n : t = link[l].arg /\ n = NameOf[link[l].from]
  OBVIOUS
<1>3. t \in Topic /\ n \in Name /\ Published(l) = count[p][t] /\ n # None
  BY <1>1, <1>2, LinkTypes, ParticipantConstants DEF Early, Published
<1>4. /\ UNCHANGED <<proc, app, backlog, count, sub_list, slots, ew>>
      /\ \A q \in Proc : q # p => lis'[q] = lis[q]
      /\ lis'[p].pc = "header" /\ lis'[p].link = l
      /\ \/ UNCHANGED <<client_map, heard, walk>>
         \/ client_map[p][t][n] = NoLink /\ Enlist(p, t, n, l)
  <2>1. UNCHANGED <<proc, app, backlog, count, sub_list, slots, ew>>
    BY DEF ServeSubscribe
  <2>2. \/ /\ UNCHANGED <<client_map, heard, walk>>
           /\ Answers(p, FALSE)
        \/ /\ client_map[p][t][n] = NoLink /\ Enlist(p, t, n, l)
           /\ Answers(p, TRUE)
    BY <1>1, <1>2 DEF ServeSubscribe
  <2>3. PICK ok \in BOOLEAN :
           lis' = [lis EXCEPT ![p].pc = "header", ![p].ok = ok, ![p].nested = NoLink]
    BY <2>2 DEF Answers
  <2>4. /\ \A q \in Proc : q # p => lis'[q] = lis[q]
        /\ lis'[p].pc = "header" /\ lis'[p].link = l
    BY <1>0, <1>1, <2>3 DEF Listener
  <2>. QED
    BY <2>1, <2>2, <2>4, Zenon
<1>5. HandAt(p)'
  BY <1>0, <1>1, <1>4, RequestHand
<1>6. /\ Got(l)' = Got(l) /\ Recorded(l)' = Recorded(l) /\ LinkAt(l)
      /\ Published(l)' = Published(l)
  BY <1>1, <1>4 DEF Got, Recorded, EventInv, Published
<1>7. GotAt(l)'
  BY <1>1, <1>6 DEF LinkAt, GotAt
<1>8. CASE UNCHANGED <<client_map, heard, walk>>
  <2>1. ListenShare(p, l)
    BY <1>0, <1>1, <1>4, <1>8 DEF ListenShare
  <2>2. LinkAt(l)'
    <3>1. WireAt(l)' /\ EntryAt(l)'
      BY <1>1, <1>4, <1>6, <1>8 DEF LinkAt, WireAt, EntryAt, Early
    <3>2. \A d \in Shift : Clean(l, d)' => d = 0
      BY <1>1, <1>6, NothingComes DEF Clean
    <3>3. Streams(l, 0)'
      BY <1>1, <1>8, EmptySeq DEF Streams
    <3>4. ClientAt(l)'
      BY <3>2, <3>3 DEF ClientAt
    <3>. QED
      BY <1>7, <3>1, <3>4 DEF LinkAt
  <2>3. ListsAt(p)'
    BY <1>1, <1>4, <1>8, ListsKept DEF EventInv, ThreadAt, LinksStay
  <2>4. \A m \in Link \ {l} : PubStill(m)
    BY <1>1, <1>4, <1>8 DEF PubStill, Published, Owed, Up
  <2>. QED
    BY <1>5, <1>8, <2>1, <2>2, <2>3, <2>4, ListenKeeps
<1>9. CASE ~UNCHANGED <<client_map, heard, walk>>
  <2>1. PICK base \in 0..count[p][t] :
           /\ client_map' = [client_map EXCEPT ![p][t][n] = l]
           /\ heard' = [heard EXCEPT ![l] = <<base>>]
           /\ \/ base = count[p][t] /\ walk' = walk
              \/ /\ app[p] = [op |-> "walk", arg |-> t] /\ base = count[p][t] - 1
                 /\ walk' = [walk EXCEPT ![p].left = @ \cup {n}]
    <3>1. count[p][t] \in Nat
      BY <1>0, <1>3
    <3>2. app[p] = [op |-> "walk", arg |-> t] => count[p][t] > 0
      BY <1>3 DEF TypeInv, ThreadsAt, AppAt
    <3>3. \/ /\ client_map' = [client_map EXCEPT ![p][t][n] = l]
             /\ heard' = [heard EXCEPT ![l] = <<count[p][t]>>]
             /\ walk' = walk
          \/ /\ app[p] = [op |-> "walk", arg |-> t]
             /\ client_map' = [client_map EXCEPT ![p][t][n] = l]
             /\ heard' = [heard EXCEPT ![l] = <<count[p][t] - 1>>]
             /\ walk' = [walk EXCEPT ![p].left = @ \cup {n}]
      BY <1>4, <1>9 DEF Enlist
    <3>4. PICK c \in Nat : c = count[p][t]
      BY <3>1
    <3>5. c \in 0..c /\ (c > 0 => c - 1 \in 0..c)
      BY <3>4
    <3>. QED
      BY <3>2, <3>3, <3>4, <3>5
  <2>2. client_map[p][t][n] = NoLink /\ count[p][t] \in Nat
    BY <1>0, <1>3, <1>4, <1>9
  <2>3. /\ heard'[l] = <<base>> /\ heard'[l] # <<>> /\ Last(heard'[l]) = base
        /\ \A m \in Link : m # l => heard'[m] = heard[m]
    BY <1>0, <2>1 DEF Last
  <2>4. /\ \A u \in Topic, k \in Name :
              client_map'[p][u][k] = IF u = t /\ k = n THEN l ELSE client_map[p][u][k]
        /\ \A q \in Proc : q # p => client_map'[q] = client_map[q]
        /\ \A q \in Proc : q # p => walk'[q] = walk[q]
    BY <1>0, <1>3, <2>1
  <2>5. /\ walk'[p].at = walk[p].at
        /\ \/ base = count[p][t] /\ walk'[p].left = walk[p].left
           \/ /\ app[p] = [op |-> "walk", arg |-> t] /\ base = count[p][t] - 1
              /\ walk'[p].left = walk[p].left \cup {n}
    BY <1>0, <2>1 DEF Walk
  <2>6. app[p] = [op |-> "walk", arg |-> t] => n \notin walk[p].left /\ walk[p].at # n
    <3>1. app[p] = [op |-> "walk", arg |-> t] => n \notin OnWalk(p)
      BY <1>3, <2>2 DEF ListInv, PublisherAt, TopicAt, Walks
    <3>. QED
      BY <1>3, <3>1 DEF OnWalk
  <2>7. ListenShare(p, l)
    BY <1>0, <1>1, <1>4, <2>3, <2>4 DEF ListenShare
  <2>8. ASSUME NEW m \in Link, m # l, link[m].to = p PROVE PubStill(m)
    <3>. SUFFICES ASSUME heard[m] # <<>>, near[m] = "open" PROVE PubStill(m)
      BY DEF PubStill
    <3>1. link[m].arg \in Topic /\ NameOf[link[m].from] \in Name
      BY LinkTypes DEF EventInv, LinkAt, WireAt, Early
    <3>2. client_map[p][link[m].arg][NameOf[link[m].from]] = m
      BY <1>1, <2>8 DEF EventInv, LinkAt, EntryAt
    <3>3. ~(link[m].arg = t /\ NameOf[link[m].from] = n)
      BY <2>2, <3>2 DEF Link, NoLink
    <3>4. client_map'[p][link[m].arg][NameOf[link[m].from]] = m
      BY <2>4, <3>1, <3>2, <3>3
    <3>5. Owed(m)' = Owed(m)
      <4>1. CASE link[m].arg # t
        BY <1>1, <1>4, <2>5, <2>8, <4>1 DEF Owed
      <4>2. CASE NameOf[link[m].from] # n
        BY <1>1, <1>4, <2>5, <2>8, <4>2 DEF Owed
      <4>. QED
        BY <3>3, <4>1, <4>2
    <3>6. Published(m)' = Published(m) /\ Up(link[m].to)' = Up(link[m].to)
      BY <1>1, <1>4 DEF Published, Up
    <3>. QED
      BY <2>8, <3>4, <3>5, <3>6 DEF PubStill
  <2>9. Owed(l)' = 2 * (count[p][t] - base)
    <3>1. CASE base = count[p][t] /\ walk'[p].left = walk[p].left
      <4>1. Owed(l)' = 0
        BY <1>1, <1>2, <1>4, <2>5, <2>6, <3>1 DEF Owed
      <4>2. 2 * (count[p][t] - base) = 0
        BY <2>2, <3>1
      <4>. QED
        BY <4>1, <4>2
    <3>2. CASE /\ app[p] = [op |-> "walk", arg |-> t] /\ base = count[p][t] - 1
               /\ walk'[p].left = walk[p].left \cup {n}
      <4>1. Owed(l)' = 2
        BY <1>1, <1>2, <1>4, <2>5, <2>6, <3>2 DEF Owed
      <4>2. 2 * (count[p][t] - base) = 2
        BY <2>2, <3>2
      <4>. QED
        BY <4>1, <4>2
    <3>. QED
      BY <2>5, <3>1, <3>2
  <2>10. LinkAt(l)'
    <3>1. WireAt(l)'
      BY <1>1, <1>4, <1>6 DEF LinkAt, WireAt, Early, Up
    <3>2. EntryAt(l)'
      BY <1>1, <1>2, <1>3, <2>4 DEF EntryAt
    <3>3. \A d \in Shift : Clean(l, d)' => d = 0
      BY <1>1, <1>6, NothingComes DEF Clean
    <3>4. Streams(l, 0)'
      <4>1. Len(down'[l]) = 0 /\ InOrder(down'[l], 0, base)
        BY <1>1, EmptySeq DEF InOrder
      <4>2. Flows(l, 0, base)'
        BY <1>3, <1>6, <2>1, <2>2, <2>9, <4>1 DEF Flows
      <4>. QED
        BY <1>3, <1>6, <2>1, <2>3, <4>2 DEF Streams
    <3>5. ClientAt(l)'
      BY <3>3, <3>4 DEF ClientAt
    <3>. QED
      BY <1>7, <3>1, <3>2, <3>5 DEF LinkAt
  <2>11. ListsAt(p)'
    <3>1. walk'[p].at \notin walk'[p].left
      BY <2>5, <2>6 DEF EventInv, ThreadAt, ListsAt
    <3>2. ASSUME NEW u \in Topic, NEW k \in Name, client_map'[p][u][k] # NoLink
          PROVE  /\ link'[client_map'[p][u][k]].to = p /\ link'[client_map'[p][u][k]].arg = u
                 /\ NameOf[link'[client_map'[p][u][k]].from] = k
                 /\ heard'[client_map'[p][u][k]] # <<>>
      <4>1. CASE u = t /\ k = n
        BY <1>1, <1>2, <2>3, <2>4, <4>1
      <4>2. CASE ~(u = t /\ k = n)
        <5>1. client_map'[p][u][k] = client_map[p][u][k]
          BY <2>4, <4>2
        <5>2. client_map[p][u][k] \in Link
          BY <1>0, <3>2, <5>1
        <5>3. LET m == client_map[p][u][k]
              IN  link[m].to = p /\ link[m].arg = u /\ NameOf[link[m].from] = k /\ heard[m] # <<>>
          BY <3>2, <5>1 DEF EventInv, ThreadAt, ListsAt
        <5>. QED
          BY <1>1, <2>3, <5>1, <5>2, <5>3
      <4>. QED
        BY <4>1, <4>2
    <3>. QED
      BY <3>1, <3>2 DEF ListsAt
  <2>. QED
    BY <1>1, <1>5, <2>7, <2>8, <2>10, <2>11, ListenKeeps
<1>. QED
  BY <1>8, <1>9

-------------------------------------------------------------------------------
(* The thread that made a link.                                            *)

(* What the thread that made l leaves alone.                               *)
ClientShare(l) ==
    /\ UNCHANGED <<link, near, proc, app, lis, client_map, walk, count, slots, ew, heard>>
    /\ \A m \in Link : m # l => /\ stage'[m] = stage[m] /\ unread'[m] = unread[m]
                                /\ down'[m] = down[m] /\ far'[m] = far[m]
    /\ unread[l] > 0 => unread'[l] > 0

(* A step of the thread that made l, but for l.                            *)
LEMMA ClientStepKeeps ==
    ASSUME TypeInv, EventInv, NEW l \in Link, ClientShare(l),
           \A q \in Proc : backlog'[q] = backlog[q] \/ QueueAt(q)',
           \A q \in Proc, t \in Topic :
              \/ sub_list'[q][t] = sub_list[q][t]
              \/ sub_list'[q][t] = l /\ link[l].from = q,
           LinkAt(l)', HandsStay(l)
    PROVE  EventInv'
<1>1. Lives /\ LinksStay /\ (\A q \in Proc : Up(q) => Up(q)')
  BY DEF ClientShare, Lives, LinksStay, Up
<1>2. ASSUME NEW m \in Link, m # l
      PROVE  Still(m) /\ PollStill(m) /\ PubStill(m)
  <2>1. Still(m)
    BY <1>2 DEF Still, ClientShare
  <2>2. Recorded(m)' => Recorded(m)
    BY <1>2 DEF Recorded, ClientShare
  <2>3. link[m].from \in Proc /\ HasCallback(link[m].from, m)'
           => HasCallback(link[m].from, m)
    <3>1. ASSUME link[m].from \in Proc, NEW t \in Topic, sub_list'[link[m].from][t] # NoLink,
                 sub_list'[link[m].from][t] = m
          PROVE  sub_list[link[m].from][t] = m
      BY <1>2, <3>1
    <3>. QED
      BY <3>1 DEF HasCallback, Subscriptions, ClientShare
  <2>4. InRead(m)' <=> InRead(m)
    BY DEF InRead, ClientShare
  <2>5. PollStill(m)
    BY <2>1, <2>2, <2>3, <2>4 DEF PollStill, Got, Still
  <2>6. PubStill(m)
    BY DEF PubStill, Published, Owed, ClientShare, Up
  <2>. QED
    BY <2>1, <2>5, <2>6
<1>3. ASSUME LinksServe, NEW q \in Proc PROVE ThreadAt(q)'
  <2>1. ThreadAt(q) /\ \A m \in Link : HandsStay(m)
    BY <1>3 DEF EventInv, LinksServe
  <2>2. QueueAt(q)'
    <3>1. CASE backlog'[q] = backlog[q]
      <4>1. \A m \in Link \ {lis[q].link} :
               link[m].to = q /\ unread[m] > 0 => unread'[m] > 0
        BY DEF ClientShare
      <4>2. lis'[q].link \in {lis[q].link, NoLink}
        BY DEF ClientShare
      <4>. QED
        BY <1>1, <2>1, <3>1, <4>1, <4>2, QueueKept DEF ThreadAt
    <3>. QED
      BY <3>1
  <2>3. HandAt(q)' /\ ListsAt(q)'
    BY <1>1, <2>1, HandKept, ListsKept DEF ThreadAt, ClientShare
  <2>4. SlotsAt(q)'
    <3>1. ASSUME NEW t \in Topic, sub_list'[q][t] # NoLink
          PROVE  link'[sub_list'[q][t]].from = q
      BY <2>1, <3>1 DEF ThreadAt, SlotsAt, ClientShare
    <3>. QED
      BY <2>1, <3>1 DEF ThreadAt, SlotsAt, ClientShare
  <2>. QED
    BY <2>2, <2>3, <2>4 DEF ThreadAt
<1>4. heard[l] # <<>> => heard'[l] # <<>>
  BY DEF ClientShare
<1>. QED
  BY <1>1, <1>2, <1>3, <1>4, StepKeeps

(* The wire of a link whose answer is read.                                *)
LEMMA WireRead ==
    ASSUME NEW l \in Link, WireAt(l), ClientShare(l), stage[l] \notin Early \cup {"ended"},
           stage'[l] \notin Early \cup {"ended"}, far'[l] = far[l], unread'[l] = unread[l],
           down'[l] = down[l] \/ down[l] # <<>>, unread[l] \in Nat
    PROVE  WireAt(l)'
  BY DEF WireAt, Early, ClientShare

(* It is written by a process that lives.                                  *)
LEMMA NoHand ==
    ASSUME NEW l \in Link, WireAt(l), far[l] # "open"
    PROVE  HandsStay(l)
  BY DEF HandsStay, Held, WireAt, Up

(* One that is not granted.                                                *)
LEMMA NotGot ==
    ASSUME NEW l \in Link, EventInv, ClientShare(l), UNCHANGED sub_list,
           stage[l] \notin {"granted", "push", "true"}, stage'[l] \notin {"granted", "push"}
    PROVE  ~Got(l) /\ ~Got(l)' /\ ~Recorded(l) /\ ~Recorded(l)' /\ ~InRead(l) /\ ~InRead(l)'
<1>1. ~Got(l) /\ ~Recorded(l)
  BY DEF EventInv, LinkAt, GotAt, Got
<1>2. ~Recorded(l)'
  BY <1>1 DEF Recorded, ClientShare
<1>3. ~InRead(l) /\ ~InRead(l)'
  BY <1>1 DEF InRead, Recorded, EventInv, ThreadAt, SlotsAt, ClientShare
<1>. QED
  BY <1>1, <1>2, <1>3 DEF Got

(* The link is connected, and its request written.                         *)
LEMMA ClientKeeps ==
    ASSUME TypeInv, EventInv, NEW l \in Link, UNCHANGED <<eventVars>>,
           Connect(l) \/ ConnectRefused(l) \/ WriteBody(l)
    PROVE  EventInv'
<1>0. /\ stage \in [Link -> Stage] /\ unread \in [Link -> 0..2]
      /\ far \in [Link -> {"open", "closed", "reset"}]
      /\ backlog \in [Proc -> Seq(Link)] /\ down \in [Link -> Seq(Chunk)]
      /\ LinkAt(l) /\ stage[l] \in {"connect", "body"} /\ UNCHANGED sub_list
  BY DEF TypeInv, TypeOK, ParticipantTypeOK, LinksTypeOK, EventInv, Connect, ConnectRefused,
         WriteBody
<1>1. /\ down[l] = <<>> /\ heard[l] = <<>> /\ near[l] = "open" /\ unread[l] < 2
      /\ stage[l] = "connect" => unread[l] = 0
      /\ unread[l] > 0 => far[l] = "open"
      /\ far[l] # "open" => proc[link[l].to] = "ended"
  BY <1>0 DEF LinkAt, WireAt, Early
<1>2. CASE ConnectRefused(l)
  <2>1. ClientShare(l) /\ backlog' = backlog
    BY <1>0, <1>2 DEF ConnectRefused, ClientShare, Advance
  <2>2. /\ stage[l] = "connect" /\ stage'[l] = "false" /\ unread' = unread /\ down' = down
        /\ far' = far
    BY <1>0, <1>2 DEF ConnectRefused, Advance
  <2>3. ~Got(l)' /\ ~Recorded(l)'
    BY <1>0, <2>1, <2>2, NotGot
  <2>4. WireAt(l)' /\ GotAt(l)' /\ EntryAt(l)' /\ ClientAt(l)'
    BY <1>0, <1>1, <2>1, <2>2, <2>3 DEF LinkAt, WireAt, GotAt, EntryAt, ClientAt, Clean,
       Answered, Early, ClientShare
  <2>5. HandsStay(l)
    BY <2>2 DEF HandsStay, Held
  <2>. QED
    BY <1>0, <2>1, <2>4, <2>5, ClientStepKeeps DEF LinkAt
<1>3. CASE WriteBody(l)
  <2>1. ClientShare(l) /\ backlog' = backlog
    BY <1>0, <1>1, <1>3 DEF WriteBody, ClientShare, Advance
  <2>2. /\ stage[l] = "body" /\ stage'[l] = "wait" /\ down' = down
        /\ far[l] = "open" => unread'[l] = 2 /\ far'[l] = "open"
        /\ far[l] # "open" => unread'[l] = unread[l] /\ far'[l] = "closed"
    BY <1>0, <1>3 DEF WriteBody, Advance
  <2>3. ~Got(l)' /\ ~Recorded(l)'
    BY <1>0, <2>1, <2>2, NotGot
  <2>4. WireAt(l)' /\ GotAt(l)' /\ EntryAt(l)'
    BY <1>0, <1>1, <2>1, <2>2, <2>3 DEF LinkAt, WireAt, GotAt, EntryAt, Early, ClientShare
  <2>5. ClientAt(l)'
    <3>1. \A d : Clean(l, d)' => d = 0
      <4>1. down'[l] = <<>> /\ <<>> # <<AnswerHead>> /\ ~(Len(<<>>) >= 2)
        BY <1>1, <2>2
      <4>2. stage'[l] = "wait" /\ ~Got(l)'
        BY <2>2, <2>3
      <4>. QED
        BY <4>1, <4>2 DEF Clean, Answered
    <3>2. Streams(l, 0)'
      BY <1>1, <2>1, <2>2, EmptySeq DEF Streams, ClientShare
    <3>. QED
      BY <3>1, <3>2 DEF ClientAt
  <2>6. HandsStay(l)
    BY <2>1, <2>2 DEF HandsStay, Held, ClientShare, Up, Early
  <2>. QED
    BY <1>0, <2>1, <2>4, <2>5, <2>6, ClientStepKeeps DEF LinkAt
<1>4. CASE Connect(l)
  <2>1. /\ stage[l] = "connect" /\ stage'[l] = "body" /\ unread'[l] = 1 /\ down' = down
        /\ far' = far /\ Up(link[l].to) /\ unread[l] = 0
        /\ backlog' = [backlog EXCEPT ![link[l].to] = Append(@, l)]
    BY <1>0, <1>1, <1>4 DEF Connect, Advance, Listens
  <2>2. ClientShare(l)
    BY <1>0, <1>1, <1>4 DEF Connect, ClientShare, Advance
  <2>3. far[l] = "open"
    BY <1>0, <1>1, <2>1 DEF Up
  <2>4. ~Got(l)' /\ ~Recorded(l)'
    BY <1>0, <2>1, <2>2, NotGot
  <2>5. WireAt(l)' /\ GotAt(l)' /\ EntryAt(l)' /\ ClientAt(l)'
    BY <1>0, <1>1, <2>1, <2>2, <2>3, <2>4 DEF LinkAt, WireAt, GotAt, EntryAt, ClientAt, Clean,
       Answered, Early, ClientShare
  <2>6. HandsStay(l)
    BY <2>1 DEF HandsStay, Held
  <2>7. PICK p \in Proc : p = link[l].to
    BY <2>1, LinkTypes
  <2>8. QueueAt(p)'
    <3>1. PICK s \in Seq(Link) : s = backlog[p]
      BY <1>0
    <3>2. /\ backlog'[p] = Append(s, l) /\ Len(s) \in Nat
          /\ DOMAIN s = 1..Len(s) /\ DOMAIN Append(s, l) = 1..(Len(s) + 1)
          /\ \A k \in 1..Len(s) : Append(s, l)[k] = s[k]
          /\ Append(s, l)[Len(s) + 1] = l
      BY <1>0, <2>1, <2>7, <3>1, AppendProperties, LenProperties
    <3>3. /\ \A k \in 1..Len(s) : /\ link[s[k]].to = p /\ unread[s[k]] > 0
                                  /\ s[k] # lis[p].link /\ s[k] \in Link
          /\ \A j, k \in 1..Len(s) : j # k => s[j] # s[k]
      BY <3>1, <3>2, ElementOfSeq DEF EventInv, ThreadAt, QueueAt
    <3>4. \A k \in 1..Len(s) : s[k] # l /\ unread'[s[k]] > 0
      BY <2>1, <2>2, <3>3 DEF ClientShare
    <3>5. lis[p].link # l
      BY <2>1 DEF EventInv, ThreadAt, HandAt, Held, Link, NoLink
    <3>6. ASSUME NEW k \in 1..(Len(s) + 1)
          PROVE  /\ link[Append(s, l)[k]].to = p /\ unread'[Append(s, l)[k]] > 0
                 /\ Append(s, l)[k] # lis[p].link
      <4>1. CASE k = Len(s) + 1
        BY <2>1, <2>7, <3>2, <3>5, <4>1
      <4>2. CASE k # Len(s) + 1
        <5>1. k \in 1..Len(s)
          BY <3>2, <4>2
        <5>. QED
          BY <3>2, <3>3, <3>4, <5>1
      <4>. QED
        BY <4>1, <4>2
    <3>7. ASSUME NEW j \in 1..(Len(s) + 1), NEW k \in 1..(Len(s) + 1), j # k
          PROVE  Append(s, l)[j] # Append(s, l)[k]
      <4>1. j = Len(s) + 1 \/ j \in 1..Len(s)
        BY <3>2
      <4>2. k = Len(s) + 1 \/ k \in 1..Len(s)
        BY <3>2
      <4>. QED
        BY <3>2, <3>3, <3>4, <3>7, <4>1, <4>2
    <3>. QED
      BY <2>2, <3>2, <3>6, <3>7 DEF QueueAt, ClientShare
  <2>9. \A q \in Proc : backlog'[q] = backlog[q] \/ QueueAt(q)'
    BY <1>0, <2>1, <2>7, <2>8
  <2>. QED
    BY <1>0, <2>2, <2>5, <2>6, <2>9, ClientStepKeeps DEF LinkAt
<1>. QED
  BY <1>2, <1>3, <1>4

(* What the subscriber takes from the link in a step.                      *)
LEMMA StreamTaken ==
    ASSUME TypeInv, NEW l \in Link, NEW d \in {-1, 0}, down[l] # <<>>,
           stage[l] # "unused", link[l].type = "SUBSCRIBE",
           Streams(l, d - 1), Own(l)' => Own(l), Published(l)' = Published(l),
           Owed(l)' = Owed(l), UNCHANGED <<link, proc, heard>>,
           down'[l] = Tail(down[l])
    PROVE  Streams(l, d)'
<1>1. /\ down[l] \in Seq(Chunk) /\ Len(down[l]) \in Nat /\ Published(l) \in Nat
      /\ Len(down'[l]) = Len(down[l]) - 1
  BY LinkTypes, HeadTailProperties
<1>2. CASE heard[l] = <<>>
  BY <1>1, <1>2 DEF Streams
<1>3. CASE heard[l] # <<>>
  <2>1. PICK base \in 0..Published(l) :
           Flows(l, d - 1, base) /\ (Own(l) => base = Last(heard[l]))
    BY <1>3 DEF Streams
  <2>2. InOrder(down[l], d - 1, base) /\ base \in Nat /\ d - 1 \in -2..1 /\ (d - 1) + 1 = d
    BY <1>1, <2>1 DEF Flows
  <2>3. InOrder(Tail(down[l]), (d - 1) + 1, base)
    BY <1>1, <2>2, OrderTail
  <2>4. InOrder(down'[l], d, base)
    BY <2>2, <2>3
  <2>5. Len(down'[l]) + d = Len(down[l]) + (d - 1)
    BY <1>1
  <2>6. Flows(l, d, base)'
    BY <2>1, <2>4, <2>5 DEF Flows, Up
  <2>. QED
    BY <1>3, <2>1, <2>6 DEF Streams
<1>. QED
  BY <1>2, <1>3

(* The reads of the answer to a subscription.                              *)
LEMMA ReadAnswerKeeps ==
    ASSUME TypeInv, EventInv, NEW l \in Link,
           ReadAnswerHeader(l) \/ ReadAnswer(l) \/ ReadMixed(l)
    PROVE  EventInv'
<1>0. /\ stage \in [Link -> Stage] /\ down \in [Link -> Seq(Chunk)] /\ unread \in [Link -> 0..2]
      /\ LinkAt(l)
  BY DEF TypeInv, TypeOK, ParticipantTypeOK, LinksTypeOK, EventInv
<1>1. /\ ClientShare(l) /\ backlog' = backlog /\ sub_list' = sub_list
      /\ link[l].type = "SUBSCRIBE" /\ stage[l] \in {"wait", "content", "mixed"}
      /\ down[l] # <<>> /\ down'[l] = Tail(down[l]) /\ unread' = unread /\ far' = far
  BY <1>0 DEF ReadAnswerHeader, ReadAnswer, ReadMixed, ClientShare, SubscribeAt, Take,
              LinkOnly, Advance
<1>2. /\ stage[l] = "wait" => stage'[l] = IF Head(down[l]) = AnswerHead THEN "content" ELSE "mixed"
      /\ stage[l] = "content" => stage'[l] = IF Head(down[l]) = AnswerOK THEN "granted" ELSE "false"
      /\ stage[l] = "mixed" => stage'[l] = "false"
  <2>1. CASE ReadAnswerHeader(l)
    BY <1>0, <2>1 DEF ReadAnswerHeader, SubscribeAt, Advance, AnswerHead
  <2>2. CASE ReadAnswer(l)
    BY <1>0, <2>2 DEF ReadAnswer, SubscribeAt, Advance, AnswerOK
  <2>3. CASE ReadMixed(l)
    BY <1>0, <2>3 DEF ReadMixed, SubscribeAt, Advance
  <2>. QED
    BY <2>1, <2>2, <2>3
<1>3. /\ unread[l] = 0 /\ far[l] # "reset" /\ down[l] \in Seq(Chunk)
      /\ Len(down[l]) \in Nat /\ Len(down[l]) >= 1 /\ Len(down'[l]) = Len(down[l]) - 1
      /\ Head(down[l]) = down[l][1]
      /\ \A k \in 1..Len(down'[l]) : down'[l][k] = down[l][k + 1]
  <2>1. unread[l] = 0 /\ far[l] # "reset"
    <3>1. down[l] # <<>> /\ WireAt(l) /\ unread[l] \in 0..2
      BY <1>0, <1>1 DEF LinkAt
    <3>. QED
      BY <3>1 DEF WireAt
  <2>. QED
    BY <1>0, <1>1, <2>1, HeadTailProperties, LenProperties, EmptySeq
<1>4. WireAt(l)'
  <2>1. stage[l] \notin Early \cup {"ended"} /\ stage'[l] \notin Early \cup {"ended"}
    BY <1>1, <1>2 DEF Early
  <2>. QED
    <3>1. WireAt(l) /\ ClientShare(l) /\ unread[l] \in Nat /\ down[l] # <<>>
      BY <1>0, <1>1 DEF LinkAt
    <3>2. far'[l] = far[l] /\ unread'[l] = unread[l]
      BY <1>1
    <3>. QED
      BY <2>1, <3>1, <3>2, WireRead
<1>5. ~Got(l) /\ ~Recorded(l) /\ ~InRead(l) /\ ~Recorded(l)' /\ ~InRead(l)'
  <2>1. ~Got(l)
    BY <1>0, <1>1 DEF LinkAt, GotAt
  <2>2. ~Recorded(l) /\ ~Recorded(l)'
    BY <1>1, <2>1 DEF Got, Recorded, ClientShare
  <2>3. ~InRead(l)
    BY <2>2 DEF InRead, Recorded, EventInv, ThreadAt, SlotsAt
  <2>4. InRead(l)' = InRead(l)
    BY <1>1 DEF InRead, ClientShare
  <2>. QED
    BY <2>1, <2>2, <2>3, <2>4
<1>6. GotAt(l)' /\ EntryAt(l)'
  BY <1>0, <1>1, <1>2, <1>3, <1>5 DEF LinkAt, GotAt, EntryAt, Got, ClientShare, Up
<1>7. ClientAt(l)'
  <2>1. ASSUME NEW d \in Shift, Clean(l, d)'
        PROVE  d \in {-1, 0} /\ Clean(l, d - 1) /\ stage[l] \in {"wait", "content"}
    <3>1. CASE stage[l] = "wait"
      <4>1. stage'[l] = "content" /\ down[l][1] = AnswerHead
        BY <1>2, <1>3, <1>5, <2>1, <3>1 DEF Clean, Answered, Got
      <4>2. CASE d = 0 /\ down'[l] = <<>>
        <5>1. PICK s \in Seq(Chunk), n \in Nat : s = down[l] /\ n = Len(s)
          BY <1>3
        <5>2. n - 1 = 0
          BY <1>3, <4>2, <5>1, EmptySeq
        <5>3. Len(s) = 1 /\ s[1] = AnswerHead /\ s \in Seq(Chunk)
          BY <4>1, <5>1, <5>2
        <5>4. s = <<AnswerHead>>
          BY <5>3
        <5>. QED
          BY <3>1, <4>2, <5>1, <5>4 DEF Clean, Answered
      <4>3. CASE d = -1 /\ Len(down'[l]) >= 1 /\ down'[l][1] = AnswerOK
        <5>1. 1 \in 1..Len(down'[l]) /\ Len(down[l]) >= 2
          BY <1>3, <4>3
        <5>2. down[l][1 + 1] = AnswerOK
          BY <1>3, <4>3, <5>1
        <5>3. down[l][2] = AnswerOK /\ d - 1 = -2
          BY <4>3, <5>2
        <5>. QED
          BY <3>1, <4>1, <4>3, <5>1, <5>3 DEF Clean, Answered
      <4>. QED
        BY <1>5, <2>1, <3>1, <4>1, <4>2, <4>3 DEF Clean, Answered, Got
    <3>2. CASE stage[l] = "content"
      <4>1. stage'[l] = "granted" /\ down[l][1] = AnswerOK
        BY <1>2, <1>3, <1>5, <2>1, <3>2 DEF Clean, Answered, Got
      <4>2. d = 0
        BY <1>5, <2>1, <4>1 DEF Clean, Answered
      <4>. QED
        BY <1>3, <3>2, <4>1, <4>2 DEF Clean, Answered
    <3>3. CASE stage[l] = "mixed"
      BY <1>2, <1>5, <2>1, <3>3 DEF Clean, Answered, Got
    <3>. QED
      BY <1>1, <3>1, <3>2, <3>3
  <2>2. ASSUME NEW d \in Shift, Clean(l, d)' PROVE Streams(l, d)'
    <3>1. d \in {-1, 0} /\ d - 1 \in Shift /\ Clean(l, d - 1) /\ stage[l] \in {"wait", "content"}
      BY <2>1, <2>2 DEF Shift
    <3>2. Streams(l, d - 1)
      BY <1>0, <1>1, <3>1 DEF LinkAt, ClientAt
    <3>3. Own(l)' => Own(l)
      BY <3>1 DEF Own
    <3>4. Published(l)' = Published(l) /\ Owed(l)' = Owed(l)
      BY <1>1 DEF Published, Owed, ClientShare
    <3>. QED
      BY <1>1, <3>1, <3>2, <3>3, <3>4, StreamTaken DEF ClientShare
  <2>. QED
    BY <2>2 DEF ClientAt
<1>8. HandsStay(l)
  <2>1. ASSUME NEW x, Lacks(down[l], x) PROVE Lacks(down'[l], x) /\ Head(down[l]) # x
    BY <1>1, <1>3, <2>1, LacksChunk
  <2>2. ASSUME NEW q \in Proc, NEW pc, Held(q, l, pc) PROVE Held(q, l, pc)'
    <3>1. /\ pc \in {"header", "body"} => Lacks(down[l], AnswerOK)
          /\ pc = "header" => stage[l] # "content" /\ Lacks(down[l], AnswerHead)
          /\ pc # "callback"
      BY <1>1, <2>2 DEF Held
    <3>2. /\ pc \in {"header", "body"} => stage'[l] # "granted"
          /\ pc = "header" => stage'[l] # "content"
          /\ stage'[l] \notin {"wait", "push"}
      BY <1>1, <1>2, <2>1, <3>1
    <3>3. pc \in {"header", "body"} => ~Got(l)'
      BY <1>5, <3>2 DEF Got
    <3>4. stage'[l] \notin Early
      BY <1>1, <1>2 DEF Early
    <3>. QED
      BY <1>1, <2>1, <2>2, <3>1, <3>2, <3>3, <3>4 DEF Held, ClientShare, Up, Early
  <2>. QED
    BY <2>2 DEF HandsStay
<1>9. LinkAt(l)'
  BY <1>4, <1>6, <1>7 DEF LinkAt
<1>. QED
  BY <1>1, <1>8, <1>9, ClientStepKeeps

(* No answer comes, for the publisher has ended.                           *)
LEMMA AnswerLostKeeps ==
    ASSUME TypeInv, EventInv, NEW l \in Link, NoAnswer(l) \/ AnswerLost(l)
    PROVE  EventInv'
<1>0. stage \in [Link -> Stage] /\ unread \in [Link -> 0..2] /\ LinkAt(l)
  BY DEF TypeInv, TypeOK, ParticipantTypeOK, LinksTypeOK, EventInv
<1>1. /\ ClientShare(l) /\ backlog' = backlog /\ sub_list' = sub_list
      /\ stage[l] \in {"wait", "content", "mixed"} /\ stage'[l] \in {"true", "false"}
      /\ far[l] # "open" /\ down' = down /\ unread' = unread /\ far' = far
  BY <1>0 DEF NoAnswer, AnswerLost, ClientShare, SubscribeAt, LinkOnly, Advance, Eof, Reset
<1>2. ~Got(l)' /\ ~Recorded(l)'
  BY <1>1, NotGot
<1>3. WireAt(l)'
  BY <1>0, <1>1, WireRead DEF LinkAt, Early
<1>4. GotAt(l)' /\ EntryAt(l)' /\ ClientAt(l)'
  BY <1>0, <1>1, <1>2 DEF LinkAt, GotAt, EntryAt, ClientAt, Clean, Answered, ClientShare, Up
<1>5. HandsStay(l)
  BY <1>0, <1>1, NoHand DEF LinkAt
<1>. QED
  BY <1>1, <1>3, <1>4, <1>5, ClientStepKeeps DEF LinkAt

(* The subscription that is granted is recorded, and put on the queue.     *)
LEMMA RecordKeeps ==
    ASSUME TypeInv, EventInv, NEW l \in Link, RecordSubscription(l) \/ PushSubscription(l)
    PROVE  EventInv'
<1>0. /\ stage \in [Link -> Stage] /\ unread \in [Link -> 0..2] /\ LinkAt(l)
      /\ sub_list \in [Proc -> [Topic -> Link \cup {NoLink}]]
  BY DEF TypeInv, TypeOK, EventTypeOK, ParticipantTypeOK, LinksTypeOK, EventInv
<1>1. /\ ClientShare(l) /\ backlog' = backlog /\ Got(l) /\ stage[l] \in {"granted", "push"}
      /\ down' = down /\ unread' = unread /\ far' = far
  BY <1>0 DEF RecordSubscription, PushSubscription, ClientShare, SubscribeAt, Advance, Got
<1>2. PICK p \in Proc, t \in Topic : p = link[l].from /\ t = link[l].arg
  BY LinkTypes DEF RecordSubscription, PushSubscription, SubscribeAt
<1>3. \/ /\ stage[l] = "granted" /\ stage'[l] = "push"
         /\ sub_list' = [sub_list EXCEPT ![p][t] = l]
      \/ stage[l] = "push" /\ stage'[l] = "true" /\ sub_list' = sub_list
  BY <1>0, <1>2 DEF RecordSubscription, PushSubscription, SubscribeAt, Advance
<1>4. WireAt(l)'
  BY <1>0, <1>1, <1>3, WireRead DEF LinkAt, Early
<1>5. \A q \in Proc, u \in Topic :
         \/ sub_list'[q][u] = sub_list[q][u]
         \/ sub_list'[q][u] = l /\ link[l].from = q
  BY <1>0, <1>2, <1>3
<1>6. GotAt(l)' /\ EntryAt(l)'
  BY <1>0, <1>1, <1>3 DEF LinkAt, GotAt, EntryAt, ClientShare, Up
<1>7. InRead(l)' = InRead(l) /\ Published(l)' = Published(l) /\ Owed(l)' = Owed(l)
  BY <1>1 DEF InRead, Published, Owed, ClientShare
<1>8. Own(l)' => Own(l)
  <2>1. CASE stage[l] = "granted"
    BY <2>1 DEF Own
  <2>2. CASE stage[l] = "push"
    BY <1>1, <1>3, <2>2 DEF Own, HasCallback, Subscriptions, ClientShare
  <2>. QED
    BY <1>3, <2>1, <2>2
<1>9. ClientAt(l)'
  <2>1. ASSUME link[l].type = "SUBSCRIBE", NEW d \in Shift, Clean(l, d)' PROVE Streams(l, d)'
    <3>1. Clean(l, d)
      BY <1>1, <1>3, <1>7, <2>1 DEF Clean, Answered
    <3>2. Streams(l, d)
      BY <1>0, <2>1, <3>1 DEF LinkAt, ClientAt
    <3>3. ASSUME NEW base, Flows(l, d, base) PROVE Flows(l, d, base)'
      BY <1>1, <1>7, <3>3 DEF Flows, ClientShare, Up
    <3>. QED
      BY <1>1, <1>7, <1>8, <3>2, <3>3 DEF Streams, ClientShare
  <2>. QED
    BY <1>1, <2>1 DEF ClientAt, ClientShare
<1>10. HandsStay(l)
  <2>1. link[l].type = "SUBSCRIBE"
    BY <1>0, <1>1 DEF LinkAt, GotAt
  <2>. QED
    BY <1>1, <1>3, <2>1 DEF HandsStay, Held, ClientShare, Up, Early
<1>11. LinkAt(l)'
  BY <1>4, <1>6, <1>9 DEF LinkAt
<1>. QED
  BY <1>1, <1>5, <1>10, <1>11, ClientStepKeeps

(* A caller reads its response, or loses it.                               *)
LEMMA CallingKeeps ==
    ASSUME TypeInv, EventInv, NEW l \in Link, Calling(l), UNCHANGED eventVars
    PROVE  EventInv'
<1>0. /\ stage \in [Link -> Stage] /\ unread \in [Link -> 0..2] /\ LinkAt(l)
      /\ down \in [Link -> Seq(Chunk)]
  BY DEF TypeInv, TypeOK, ParticipantTypeOK, LinksTypeOK, EventInv
<1>1. /\ ClientShare(l) /\ backlog' = backlog /\ link[l].type = "CALL"
      /\ stage[l] \in {"wait", "content"} /\ stage'[l] \in {"content", "true", "false"}
      /\ unread' = unread /\ far' = far /\ sub_list' = sub_list
      /\ down'[l] = down[l] \/ down[l] # <<>>
  <2>1. CASE ReadResponseHeader(l)
    BY <1>0, <2>1 DEF ReadResponseHeader, CallAt, CallReads, Advance, Take, ClientShare
  <2>2. CASE ReadResponse(l)
    BY <1>0, <2>2 DEF ReadResponse, CallAt, CallReads, Advance, Take, ClientShare
  <2>3. CASE ResponseLost(l)
    BY <1>0, <2>3 DEF ResponseLost, CallAt, CallReads, Advance, ClientShare
  <2>. QED
    BY <2>1, <2>2, <2>3 DEF Calling
<1>2. ~Got(l)' /\ ~Recorded(l)'
  BY <1>1, NotGot
<1>3. WireAt(l)'
  <2>1. WireAt(l) /\ unread[l] \in Nat /\ far'[l] = far[l] /\ unread'[l] = unread[l]
    BY <1>0, <1>1 DEF LinkAt
  <2>2. stage[l] \notin Early \cup {"ended"} /\ stage'[l] \notin Early \cup {"ended"}
    BY <1>1 DEF Early
  <2>. QED
    BY <1>1, <2>1, <2>2, WireRead
<1>4. GotAt(l)' /\ EntryAt(l)' /\ ClientAt(l)'
  BY <1>0, <1>1, <1>2 DEF LinkAt, GotAt, EntryAt, ClientAt, ClientShare, Up
<1>5. HandsStay(l)
  BY <1>1 DEF HandsStay, Held, ClientShare, Up, Early
<1>. QED
  BY <1>1, <1>3, <1>4, <1>5, ClientStepKeeps DEF LinkAt

-------------------------------------------------------------------------------
(* A link is made.                                                         *)

(* A link is made, on which nothing has happened.                          *)
LEMMA AskKeeps ==
    ASSUME TypeInv, EventInv, NEW info \in LinkInfo, Fresh \in Link,
           link' = [link EXCEPT ![Fresh] = info], Advance(Fresh, "connect"),
           UNCHANGED <<unread, down, near, far, proc, app, backlog, eventVars>>,
           \A q \in Proc : lis'[q].link = lis[q].link /\ lis'[q].pc = lis[q].pc
    PROVE  EventInv'
<1>0. LinksTypeOK /\ Unmade
  BY DEF TypeInv, TypeOK, ParticipantTypeOK
<1>1. PICK f \in Link : /\ f = Fresh /\ link[f] = NoInfo /\ stage[f] = "unused"
                        /\ link' = [link EXCEPT ![f] = info]
                        /\ stage' = [stage EXCEPT ![f] = "connect"]
  BY <1>0, FreshUnused DEF Advance
<1>2. /\ stage'[f] = "connect"
      /\ \A l \in Link : l # f => link'[l] = link[l] /\ stage'[l] = stage[l]
  BY <1>0, <1>1 DEF LinksTypeOK
<1>3. Lives /\ LinksStay /\ (\A q \in Proc : Up(q) => Up(q)')
  BY <1>1, <1>2 DEF Lives, LinksStay, Up
<1>4. ASSUME NEW l \in Link, l # f PROVE Still(l) /\ PollStill(l) /\ PubStill(l)
  <2>1. Still(l) /\ PollStill(l)
    BY <1>2, <1>4, PollSame DEF Still
  <2>2. PubStill(l)
    BY <1>2, <1>4 DEF PubStill, Published, Owed, Up
  <2>. QED
    BY <2>1, <2>2
<1>5. LinkAt(f)' /\ HandsStay(f)
  <2>1. LinkAt(f) /\ ~Got(f) /\ ~Recorded(f)
    BY <1>1 DEF EventInv, LinkAt, GotAt, Got
  <2>2. ~Recorded(f)'
    BY <2>1 DEF Recorded
  <2>3. WireAt(f)'
    BY <1>1, <1>2, <2>1 DEF LinkAt, WireAt, Early
  <2>4. heard'[f] = <<>>
    BY <1>1, <2>1 DEF LinkAt, WireAt, Early
  <2>5. ~Got(f)'
    BY <1>2, <2>2 DEF Got
  <2>6. GotAt(f)' /\ EntryAt(f)' /\ ClientAt(f)'
    BY <1>2, <2>2, <2>4, <2>5 DEF GotAt, EntryAt, ClientAt, Clean, Answered
  <2>7. HandsStay(f)
    BY <1>1 DEF HandsStay, Held
  <2>. QED
    BY <2>3, <2>6, <2>7 DEF LinkAt
<1>6. ASSUME LinksServe, NEW q \in Proc PROVE ThreadAt(q)'
  <2>1. ThreadAt(q)
    BY DEF EventInv
  <2>2. QueueAt(q)'
    <3>1. /\ backlog'[q] = backlog[q] /\ lis'[q].link \in {lis[q].link, NoLink}
          /\ \A m \in Link \ {lis[q].link} :
                link[m].to = q /\ unread[m] > 0 => unread'[m] > 0
      OBVIOUS
    <3>. QED
      BY <1>3, <2>1, <3>1, QueueKept DEF ThreadAt
  <2>3. HandAt(q)'
    <3>. SUFFICES ASSUME lis[q].link # NoLink PROVE HandAt(q)'
      BY DEF HandAt
    <3>1. PICK l \in Link, pc \in {lis[q].pc} : l = lis[q].link /\ Held(q, l, pc)
      BY <2>1 DEF ThreadAt, HandAt, TypeInv, TypeOK, ParticipantTypeOK, Listener
    <3>2. l # f
      BY <1>1, <3>1 DEF Held
    <3>3. Held(q, l, pc)'
      BY <1>3, <1>4, <3>1, <3>2, HandStill DEF PollStill
    <3>. QED
      BY <3>1, <3>3 DEF HandAt
  <2>4. ListsAt(q)'
    BY <1>3, <2>1, ListsKept DEF ThreadAt
  <2>5. SlotsAt(q)'
    BY <1>3, <2>1, SlotsKept DEF ThreadAt, SlotsAt
  <2>. QED
    BY <2>2, <2>3, <2>4, <2>5 DEF ThreadAt
<1>. QED
  BY <1>3, <1>4, <1>5, <1>6, StepKeeps

(* Subscriptions and calls that begin.                                     *)
LEMMA CallsKeep ==
    ASSUME TypeInv, EventInv, NEW p \in Proc, UNCHANGED eventVars,
           \/ \E t \in Topic : Subscribe(p, t)
           \/ \E m \in Method : Call(p, m)
           \/ CallbackCalls(p)
    PROVE  EventInv'
<1>0. /\ lis \in [Proc -> Listener] /\ publisher \in [Topic -> Proc \cup {None}]
      /\ provider \in [Method -> Proc \cup {None}]
      /\ lis[p].pc = "callback" => link[lis[p].link].arg \in Method
  BY DEF TypeInv, TypeOK, ParticipantTypeOK, ThreadsAt, LisAt
<1>1. PICK by \in {"app", "callback"}, type \in {"SUBSCRIBE", "CALL"},
           arg \in Topic \cup Method, owner \in Proc \cup {None} :
         Ask(p, by, type, arg, owner)
  <2>1. CASE \E t \in Topic : Subscribe(p, t)
    BY <1>0, <2>1 DEF Subscribe
  <2>2. CASE \E m \in Method : Call(p, m)
    BY <1>0, <2>2 DEF Call
  <2>3. CASE CallbackCalls(p)
    BY <1>0, <2>3, NestedCalls DEF CallbackCalls, InCallback
  <2>. QED
    BY <2>1, <2>2, <2>3
<1>2. PICK info \in LinkInfo :
         info = [from |-> p, to |-> owner, by |-> by, type |-> type, arg |-> arg]
  BY DEF LinkInfo
<1>3. /\ Fresh \in Link /\ link' = [link EXCEPT ![Fresh] = info]
      /\ Advance(Fresh, "connect") /\ UNCHANGED <<unread, down, near, far>>
  BY <1>1, <1>2 DEF Ask
<1>4. UNCHANGED <<proc, app, backlog, eventVars>>
  BY DEF Subscribe, Call, CallbackCalls
<1>5. \A q \in Proc : lis'[q].link = lis[q].link /\ lis'[q].pc = lis[q].pc
  BY <1>0 DEF Subscribe, Call, CallbackCalls, Listener
<1>. QED
  BY <1>3, <1>4, <1>5, AskKeeps

-------------------------------------------------------------------------------
(* A process ends, and its ends of the links with it.                      *)

(* The end of a process closes its links, at whatever point they are.      *)
LEMMA EndKeeps ==
    ASSUME TypeInv, EventInv, NEW p \in Proc, End(p)
    PROVE  EventInv'
<1>0. /\ stage \in [Link -> Stage] /\ unread \in [Link -> 0..2] /\ lis \in [Proc -> Listener]
      /\ backlog \in [Proc -> Seq(Link)] /\ proc \in [Proc -> {"absent", "up", "ended"}]
      /\ app \in [Proc -> Activity]
      /\ client_map \in [Proc -> [Topic -> [Name -> Link \cup {NoLink}]]]
      /\ walk \in [Proc -> Walk] /\ ew \in [Proc -> Worker]
      /\ sub_list \in [Proc -> [Topic -> Link \cup {NoLink}]]
      /\ slots \in [Proc -> [Slot -> Link \cup {NoLink}]]
      /\ down \in [Link -> Seq(Chunk)]
      /\ near \in [Link -> {"open", "closed", "reset", "broken"}]
      /\ far \in [Link -> {"open", "closed", "reset"}]
  BY DEF TypeInv, TypeOK, EventTypeOK, ParticipantTypeOK, LinksTypeOK
<1>1. PICK half \in SUBSET {l \in {lis[p].link} \ {NoLink} :
                              lis[p].pc = "read" /\ unread[l] > 0} :
         EndLinks(p, ToSet(backlog[p]), half)
  BY DEF End, EndParticipant
<1>2. ASSUME NEW l \in Link
      PROVE  /\ link'[l] = link[l] /\ heard'[l] = heard[l]
             /\ link[l].from = p => stage'[l] = "ended" /\ near'[l] # "open" /\ down'[l] = <<>>
             /\ link[l].from # p => /\ stage'[l] = stage[l] /\ near'[l] = near[l]
                                    /\ down'[l] = down[l]
             /\ link[l].to = p => unread'[l] = 0 /\ far'[l] # "open"
             /\ link[l].to # p => unread'[l] = unread[l] /\ far'[l] = far[l]
             /\ far'[l] = "reset" => far[l] = "reset" \/ unread[l] > 0
  <2>1. /\ link'[l] = link[l] /\ heard'[l] = heard[l]
        /\ link[l].from = p => stage'[l] = "ended" /\ near'[l] # "open" /\ down'[l] = <<>>
        /\ link[l].from # p => /\ stage'[l] = stage[l] /\ near'[l] = near[l]
                               /\ down'[l] = down[l]
        /\ link[l].to = p => unread'[l] = 0 /\ far'[l] # "open"
        /\ link[l].to # p => unread'[l] = unread[l] /\ far'[l] = far[l]
    BY <1>0, <1>1 DEF EndLinks, End, EndEvents
  <2>2. far'[l] = "reset" => far[l] = "reset" \/ l \in ToSet(backlog[p]) \cup half
    BY <1>0, <1>1 DEF EndLinks
  <2>3. l \in half => unread[l] > 0
    BY <1>1
  <2>4. l \in ToSet(backlog[p]) => unread[l] > 0
    <3>1. ASSUME NEW k \in DOMAIN backlog[p] PROVE unread[backlog[p][k]] > 0
      BY DEF EventInv, ThreadAt, QueueAt
    <3>. QED
      BY <3>1 DEF ToSet
  <2>. QED
    BY <2>1, <2>2, <2>3, <2>4
<1>3. /\ proc'[p] = "ended" /\ backlog'[p] = <<>> /\ lis'[p].link = NoLink
      /\ \A t \in Topic : client_map'[p][t] = Unlisted /\ sub_list'[p][t] = NoLink
      /\ walk'[p] = NoWalk /\ ew'[p] = Drain
      /\ \A i \in Slot : slots'[p][i] = NoLink
      /\ count' = count
  BY <1>0 DEF End, EndParticipant, EndEvents, Free
<1>4. ASSUME NEW q \in Proc, q # p
      PROVE  /\ proc'[q] = proc[q] /\ backlog'[q] = backlog[q] /\ lis'[q] = lis[q]
             /\ app'[q] = app[q] /\ client_map'[q] = client_map[q] /\ walk'[q] = walk[q]
             /\ sub_list'[q] = sub_list[q] /\ ew'[q] = ew[q] /\ slots'[q] = slots[q]
  BY <1>0, <1>4 DEF End, EndParticipant, EndEvents
<1>5. LinksStay
  BY <1>2 DEF LinksStay
<1>6. ASSUME NEW l \in Link PROVE LinkAt(l)'
  <2>1. LinkAt(l) /\ (stage[l] # "unused" <=> link[l] # NoInfo)
        /\ (stage[l] # "unused" => link[l].from \in Proc /\ link[l].to \in Proc)
    BY LinkTypes DEF EventInv
  <2>2. stage[l] = "unused" => link[l].from # p /\ link[l].to # p
    BY <2>1, LinkConstants DEF NoInfo
  <2>3. WireAt(l)'
    <3>1. /\ stage'[l] = "ended" <=> near'[l] # "open"
          /\ stage'[l] \in Early => down'[l] = <<>> /\ heard'[l] = <<>> /\ unread'[l] < 2
          /\ stage'[l] \in {"unused", "connect"} => unread'[l] = 0
      BY <1>2, <2>1 DEF LinkAt, WireAt, Early
    <3>2. unread'[l] > 0 => down'[l] = <<>> /\ heard'[l] = <<>> /\ far'[l] = "open"
      BY <1>2, <2>1 DEF LinkAt, WireAt
    <3>3. far'[l] # "open" => stage'[l] # "unused" /\ proc'[link[l].to] = "ended"
      BY <1>2, <1>3, <1>4, <2>1, <2>2 DEF LinkAt, WireAt
    <3>4. far'[l] = "reset" => down'[l] = <<>>
      BY <1>2, <2>1 DEF LinkAt, WireAt
    <3>5. heard'[l] # <<>> => link[l].type = "SUBSCRIBE" /\ proc'[link[l].to] # "absent"
      BY <1>2, <1>3, <1>4, <2>1 DEF LinkAt, WireAt, Early
    <3>. QED
      BY <1>2, <3>1, <3>2, <3>3, <3>4, <3>5 DEF WireAt
  <2>4. Recorded(l)' => Recorded(l) /\ link[l].from # p
    <3>1. ASSUME NEW q \in Proc, NEW i \in Slot, slots'[q][i] = l
          PROVE  Recorded(l) /\ link[l].from # p
      BY <1>3, <1>4, <3>1 DEF Recorded, EventInv, ThreadAt, SlotsAt, Link, NoLink
    <3>2. ASSUME NEW q \in Proc, NEW t \in Topic, sub_list'[q][t] = l
          PROVE  Recorded(l) /\ link[l].from # p
      BY <1>3, <1>4, <3>2 DEF Recorded, EventInv, ThreadAt, SlotsAt, Link, NoLink
    <3>. QED
      BY <3>1, <3>2 DEF Recorded
  <2>5. Got(l)' => Got(l) /\ stage'[l] = stage[l]
    BY <1>2, <2>4 DEF Got
  <2>6. GotAt(l)'
    BY <1>2, <2>1, <2>4, <2>5 DEF LinkAt, GotAt
  <2>7. EntryAt(l)'
    <3>. SUFFICES ASSUME heard'[l] # <<>>, near'[l] = "open", Up(link[l].to)'
                  PROVE  EntryAt(l)'
      BY DEF EntryAt
    <3>1. /\ heard[l] # <<>> /\ near[l] = "open" /\ link[l].to \in Proc /\ link[l].to # p
          /\ Up(link[l].to)
      BY <1>2, <1>3, <1>4, <2>1 DEF LinkAt, WireAt, Early, Up
    <3>2. client_map[link[l].to][link[l].arg][NameOf[link[l].from]] = l
      BY <2>1, <3>1 DEF LinkAt, EntryAt
    <3>3. client_map'[link[l].to] = client_map[link[l].to] /\ link'[l] = link[l]
      BY <1>2, <1>4, <3>1
    <3>. QED
      BY <3>2, <3>3 DEF EntryAt
  <2>8. ClientAt(l)'
    <3>. SUFFICES ASSUME link[l].type = "SUBSCRIBE", NEW d \in Shift, Clean(l, d)'
                  PROVE  Streams(l, d)'
      BY <1>2 DEF ClientAt
    <3>1. link[l].from # p
      BY <1>2, <2>1, <2>5 DEF Clean, Answered, LinkAt, GotAt
    <3>2. InRead(l)' <=> InRead(l)
      <4>1. ASSUME NEW q \in Proc, q = p PROVE ~(ew[q].pc = "content" /\ slots[q][ew[q].i] = l)
        BY <3>1, <4>1 DEF EventInv, ThreadAt, SlotsAt, Link, NoLink
      <4>2. ew'[p].pc # "content"
        BY <1>3 DEF Drain
      <4>. QED
        BY <1>4, <4>1, <4>2 DEF InRead
    <3>3. Clean(l, d)
      BY <1>2, <2>5, <3>1, <3>2 DEF Clean
    <3>4. Streams(l, d) /\ stage[l] \notin Early
      BY <2>1, <3>3, CleanOpen DEF LinkAt, ClientAt
    <3>5. link[l].from \in Proc /\ link[l].to \in Proc
      BY <2>1, <3>4 DEF Early
    <3>6. Own(l)' => Own(l)
      BY <1>2, <1>4, <3>1, <3>5 DEF Own, HasCallback, Subscriptions
    <3>7. Published(l)' = Published(l)
      BY <1>2, <1>3 DEF Published
    <3>8. Up(link[l].to)' => Up(link[l].to) /\ Owed(l)' = Owed(l)
      BY <1>2, <1>3, <1>4, <3>5 DEF Up, Owed
    <3>9. ASSUME NEW base, Flows(l, d, base) PROVE Flows(l, d, base)'
      BY <1>2, <3>1, <3>7, <3>8, <3>9 DEF Flows
    <3>. QED
      BY <1>2, <3>1, <3>4, <3>6, <3>7, <3>9 DEF Streams
  <2>. QED
    BY <2>3, <2>6, <2>7, <2>8 DEF LinkAt
<1>7. ThreadAt(p)'
  <2>1. QueueAt(p)'
    BY <1>3 DEF QueueAt
  <2>2. HandAt(p)'
    BY <1>3 DEF HandAt
  <2>3. ListsAt(p)'
    BY <1>3 DEF ListsAt, NoWalk, Unlisted
  <2>4. SlotsAt(p)'
    BY <1>3 DEF SlotsAt, Drain
  <2>. QED
    BY <2>1, <2>2, <2>3, <2>4 DEF ThreadAt
<1>8. ASSUME NEW q \in Proc, q # p PROVE ThreadAt(q)'
  <2>1. ThreadAt(q)
    BY DEF EventInv
  <2>2. QueueAt(q)'
    <3>1. \A m \in Link \ {lis[q].link} :
                link[m].to = q /\ unread[m] > 0 => unread'[m] > 0
      BY <1>2, <1>8
    <3>2. backlog'[q] = backlog[q] /\ lis'[q].link \in {lis[q].link, NoLink}
      BY <1>4, <1>8
    <3>. QED
      BY <1>5, <2>1, <3>1, <3>2, QueueKept DEF ThreadAt
  <2>3. HandAt(q)'
    <3>. SUFFICES ASSUME lis[q].link # NoLink PROVE HandAt(q)'
      BY <1>4, <1>8 DEF HandAt
    <3>1. PICK l \in Link, pc \in {lis[q].pc} : l = lis[q].link /\ Held(q, l, pc)
      BY <1>0, <2>1 DEF ThreadAt, HandAt, Listener
    <3>2. /\ link'[l].to = q /\ unread'[l] = unread[l] /\ Up(q)' /\ link'[l] = link[l]
          /\ \/ stage'[l] = stage[l] /\ down'[l] = down[l]
             \/ stage'[l] = "ended" /\ down'[l] = <<>>
      BY <1>2, <1>4, <1>8, <3>1 DEF Held, Up
    <3>3. Got(l)' => Got(l)
      <4>1. ASSUME NEW r \in Proc, NEW i \in Slot, slots'[r][i] = l PROVE Recorded(l)
        BY <1>3, <1>4, <4>1 DEF Recorded, Link, NoLink
      <4>2. ASSUME NEW r \in Proc, NEW t \in Topic, sub_list'[r][t] = l PROVE Recorded(l)
        BY <1>3, <1>4, <4>2 DEF Recorded, Link, NoLink
      <4>. QED
        BY <3>2, <4>1, <4>2 DEF Got, Recorded
    <3>4. Lacks(<<>>, AnswerHead) /\ Lacks(<<>>, AnswerOK)
      BY EmptySeq DEF Lacks
    <3>5. Held(q, l, pc)'
      BY <3>1, <3>2, <3>3, <3>4 DEF Held, Early
    <3>. QED
      BY <1>4, <1>8, <3>1, <3>5 DEF HandAt
  <2>4. ListsAt(q)'
    BY <1>2, <1>4, <1>5, <1>8, <2>1, ListsKept DEF ThreadAt
  <2>5. SlotsAt(q)'
    BY <1>4, <1>5, <1>8, <2>1, SlotsKept DEF ThreadAt, SlotsAt
  <2>. QED
    BY <2>2, <2>3, <2>4, <2>5 DEF ThreadAt
<1>. QED
  BY <1>6, <1>7, <1>8 DEF EventInv

-------------------------------------------------------------------------------
(* The results.                                                            *)

(* A step in which nothing happens.                                        *)
LEMMA StutterKeeps ==
    ASSUME TypeInv, EventInv, UNCHANGED vars
    PROVE  EventInv'
<1>1. UNCHANGED <<linkVars, proc, app, lis, backlog, client_map, walk, count, slots,
                  sub_list, ew, heard>>
  BY DEF vars
<1>2. Lives /\ \A q \in Proc : Up(q) => Up(q)'
  BY <1>1 DEF Lives, Up
<1>3. ASSUME NEW l \in Link PROVE PubStill(l)
  BY <1>1 DEF PubStill, Published, Owed, Up
<1>. QED
  BY <1>1, <1>2, <1>3, AsideStep

(* Every step keeps EventInv.                                              *)
LEMMA EventStepKeeps ==
    ASSUME TypeInv, ListInv, EventInv, [Next]_vars
    PROVE  EventInv'
<1>1. CASE Shared /\ UNCHANGED <<eventVars, methodVars>>
  <2>1. UNCHANGED eventVars /\ UNCHANGED <<eventVars>>
    BY <1>1
  <2>2. ASSUME NEW p \in Proc, Join(p) \/ Forget(p) PROVE EventInv'
    BY <2>1, <2>2, MasterStill
  <2>3. ASSUME NEW p \in Proc, Listening(p) PROVE EventInv'
    BY <2>1, <2>3, ListenStill, AnswerKeeps DEF Listening
  <2>4. ASSUME NEW l \in Link, Client(l) PROVE EventInv'
    BY <2>1, <2>4, ClientKeeps DEF Client
  <2>. QED
    BY <1>1, <2>2, <2>3, <2>4 DEF Shared
<1>2. CASE Events
  <2>1. ASSUME NEW p \in Proc, NEW t \in Topic,
               Advertise(p, t) \/ Publish(p, t) \/ Subscribe(p, t)
        PROVE  EventInv'
    <3>1. CASE Advertise(p, t)
      BY <3>1, MasterStill
    <3>2. CASE Publish(p, t)
      BY <3>2, PublishKeeps
    <3>3. CASE Subscribe(p, t)
      <4>1. UNCHANGED eventVars
        BY <3>3 DEF Subscribe
      <4>. QED
        BY <3>3, <4>1, CallsKeep
    <3>. QED
      BY <2>1, <3>1, <3>2, <3>3
  <2>2. ASSUME NEW p \in Proc, Publishing(p) PROVE EventInv'
    BY <2>2, AdvertisedKeeps, EventHeaderKeeps, WalkEndsKeeps, EraseKeeps DEF Publishing
  <2>3. ASSUME NEW p \in Proc, EventWorker(p) PROVE EventInv'
    BY <2>3, PollStepKeeps, ReadHeaderKeeps, RunCallbackKeeps, RunCallbackShortKeeps
       DEF EventWorker
  <2>4. ASSUME NEW l \in Link, Subscribing(l) PROVE EventInv'
    BY <2>4, ReadAnswerKeeps, AnswerLostKeeps, RecordKeeps DEF Subscribing
  <2>. QED
    BY <1>2, <2>1, <2>2, <2>3, <2>4, ServeSubscribeKeeps DEF Events, EventNext
<1>3. CASE Methods /\ UNCHANGED eventVars
  <2>1. ASSUME NEW p \in Proc, (\E m \in Method : Provide(p, m)) \/ Provided(p)
        PROVE  EventInv'
    BY <1>3, <2>1, MasterStill
  <2>2. ASSUME NEW p \in Proc, (\E m \in Method : Call(p, m)) \/ CallbackCalls(p)
        PROVE  EventInv'
    BY <1>3, <2>2, CallsKeep
  <2>3. ASSUME NEW p \in Proc, ServeCall(p) PROVE EventInv'
    BY <1>3, <2>3, ServeCallKeeps
  <2>4. ASSUME NEW p \in Proc, CallbackReturns(p) PROVE EventInv'
    BY <1>3, <2>4, ListenStill
  <2>5. ASSUME NEW l \in Link, Calling(l) PROVE EventInv'
    BY <1>3, <2>5, CallingKeeps
  <2>. QED
    BY <1>3, <2>1, <2>2, <2>3, <2>4, <2>5 DEF Methods, MethodNext
<1>4. CASE \E p \in Proc : End(p)
  BY <1>4, EndKeeps
<1>. QED
  BY <1>1, <1>2, <1>3, <1>4, StutterKeeps DEF Next

(* At first every link is early, and nothing is listed or polled.          *)
LEMMA InitEvents == Init => EventInv
<1>. SUFFICES ASSUME Init PROVE EventInv
  OBVIOUS
<1>0. /\ ParticipantInit /\ EventInit /\ LinksInit
      /\ \A p \in Proc : proc[p] = "absent"
  BY DEF Init, ParticipantInit
<1>1. ASSUME NEW l \in Link PROVE LinkAt(l)
  <2>1. /\ link[l] = NoInfo /\ link[l].type = "CALL" /\ stage[l] = "unused"
        /\ unread[l] = 0 /\ down[l] = <<>> /\ near[l] = "open" /\ far[l] = "open"
        /\ heard[l] = <<>>
    BY <1>0 DEF LinksInit, EventInit, NoInfo
  <2>2. ~Recorded(l)
    BY <1>0 DEF Recorded, EventInit, Link, NoLink
  <2>3. ~Got(l)
    BY <2>1, <2>2 DEF Got
  <2>4. WireAt(l)
    BY <2>1 DEF WireAt, Early
  <2>5. GotAt(l)
    BY <2>1, <2>2, <2>3 DEF GotAt
  <2>6. EntryAt(l) /\ ClientAt(l)
    BY <2>1 DEF EntryAt, ClientAt
  <2>. QED
    BY <2>4, <2>5, <2>6 DEF LinkAt
<1>2. ASSUME NEW p \in Proc PROVE ThreadAt(p)
  <2>1. /\ backlog[p] = <<>> /\ lis[p].link = NoLink /\ walk[p] = NoWalk
        /\ client_map[p] = [t \in Topic |-> Unlisted]
        /\ sub_list[p] = [t \in Topic |-> NoLink]
        /\ slots[p] = [i \in Slot |-> NoLink] /\ ew[p] = Drain
    BY <1>0 DEF ParticipantInit, EventInit, Free
  <2>2. QueueAt(p)
    BY <2>1, EmptySeq DEF QueueAt
  <2>3. HandAt(p) /\ SlotsAt(p)
    BY <2>1 DEF HandAt, SlotsAt, Drain
  <2>4. ListsAt(p)
    BY <2>1 DEF ListsAt, NoWalk, Unlisted
  <2>. QED
    BY <2>2, <2>3, <2>4 DEF ThreadAt
<1>. QED
  BY <1>1, <1>2 DEF EventInv

(* The invariant.                                                          *)
LEMMA EventInvariant == Spec => [](TypeInv /\ ListInv /\ EventInv)
<1>1. TypeInv /\ ListInv /\ EventInv /\ [Next]_vars => ListInv' /\ EventInv'
  BY StepGood, EventStepKeeps DEF Good
<1>. QED
  BY <1>1, InitListed, InitEvents, TypeInvariant, PTL DEF Spec

(* What follows the d chunks of an event that are read are whole events.   *)
LEMMA WholeFrames ==
    ASSUME NEW s \in Seq(Chunk), NEW base \in Nat, NEW d \in {0, 1}, InOrder(s, d, base)
    PROVE  FramesFrom(s, IF d = 1 THEN "body" ELSE "header")
<1>. DEFINE part == IF d = 1 THEN "body" ELSE "header"
<1>1. ASSUME NEW k \in DOMAIN s
      PROVE  s[k].type = "EVENT" /\ (s[k].part = part <=> k % 2 = 1)
  <2>1. k \in 1..Len(s) /\ k \in Nat /\ k >= 1
    BY LenProperties
  <2>2. s[k] = Event(k + d, base)
    BY <2>1 DEF InOrder
  <2>3. /\ s[k].type = "EVENT"
        /\ s[k].part = IF (k + d) % 2 = 1 THEN "header" ELSE "body"
    BY <2>2 DEF Event, Header, Body
  <2>4. CASE d = 0
    BY <2>1, <2>3, <2>4
  <2>5. CASE d = 1
    <3>1. (k + 1) % 2 = 1 <=> k % 2 # 1
      BY <2>1, PartsAlternate
    <3>. QED
      BY <2>3, <2>5, <3>1
  <2>. QED
    BY <2>4, <2>5
<1>. QED
  BY <1>1 DEF FramesFrom

(* The polling thread never takes one part of a frame for the other, nor   *)
(* the -1 of a read that fails for a header, whatever the threads of the   *)
(* publisher and of the subscriber do in between.                          *)
THEOREM LinksWhole == Spec => []PolledLinksWhole
<1>1. TypeInv /\ ListInv /\ EventInv => PolledLinksWhole
  <2>. SUFFICES ASSUME TypeInv, EventInv, NEW p \in Proc,
                       NEW l \in Range(slots[p]) \ {NoLink}
                PROVE  /\ far[l] # "reset"
                       /\ IF ew[p].pc = "content" /\ slots[p][ew[p].i] = l
                          THEN FramesFrom(down[l], "body")
                          ELSE FramesFrom(down[l], "header")
    BY DEF PolledLinksWhole
  <2>1. slots[p] \in [Slot -> Link \cup {NoLink}] /\ \A q \in Proc : SlotsAt(q)
    BY DEF TypeInv, TypeOK, EventTypeOK, EventInv, ThreadAt
  <2>2. PICK i \in Slot : slots[p][i] = l
    BY <2>1 DEF Range
  <2>3. l \in Link
    BY <2>1, <2>2
  <2>4. /\ link[l].from = p /\ link[l].type = "SUBSCRIBE" /\ far[l] # "reset"
        /\ stage[l] \in {"push", "true"} /\ Streams(l, IF InRead(l) THEN 1 ELSE 0)
    BY <2>2, <2>3, PolledClean
  <2>5. InRead(l) <=> ew[p].pc = "content" /\ slots[p][ew[p].i] = l
    BY <2>1, <2>3, <2>4, ReadBy
  <2>6. down[l] \in Seq(Chunk) /\ Len(down[l]) \in Nat
    BY <2>3, LinkTypes
  <2>7. PICK d \in {0, 1} : d = IF InRead(l) THEN 1 ELSE 0
    OBVIOUS
  <2>8. PICK base \in Nat : InOrder(down[l], d, base)
    <3>1. CASE heard[l] = <<>>
      <4>1. Len(down[l]) + d = 0
        BY <2>4, <2>7, <3>1 DEF Streams
      <4>2. Len(down[l]) = 0
        BY <2>6, <4>1
      <4>3. InOrder(down[l], d, 0)
        BY <4>2 DEF InOrder
      <4>. QED
        BY <4>3
    <3>2. CASE heard[l] # <<>>
      <4>1. Published(l) \in Nat
        BY <2>3, <2>4, LinkTypes
      <4>2. \E b \in 0..Published(l) : Flows(l, d, b)
        BY <2>4, <2>7, <3>2 DEF Streams
      <4>. QED
        BY <4>1, <4>2 DEF Flows
    <3>. QED
      BY <3>1, <3>2
  <2>9. FramesFrom(down[l], IF d = 1 THEN "body" ELSE "header")
    BY <2>6, <2>8, WholeFrames
  <2>. QED
    BY <2>4, <2>5, <2>7, <2>9
<1>. QED
  BY <1>1, EventInvariant, PTL

-------------------------------------------------------------------------------
(* Events are delivered as EventDelivery promises.                         *)

(* What the step does is a step of the promise, or none.                   *)
Delivered == [Delivery!Next]_(Delivery!vars)

(* The events of p and t, and the ones l subscribes to.                    *)
Number(s) == count[s[1]][s[2]]
SourceOf(l) == IF heard[l] = <<>> THEN <<>> ELSE <<link[l].to, link[l].arg>>

(* Who is registered has a link that is made, and stays.                   *)
LEMMA SourceStays ==
    ASSUME TypeInv, EventInv, LinksStay, NEW l \in Link, heard[l] # <<>>
    PROVE  link'[l] = link[l] /\ link[l].to \in Proc /\ link[l].arg \in Topic
<1>1. /\ stage[l] # "unused" /\ link[l].type = "SUBSCRIBE"
  BY DEF EventInv, LinkAt, WireAt, Early
<1>. QED
  BY <1>1, LinkTypes DEF LinksStay

(* A step that publishes nothing and runs no callback.                     *)
LEMMA QuietDelivers ==
    ASSUME TypeInv, EventInv, LinksStay, UNCHANGED <<count, heard>>
    PROVE  Delivered
<1>1. ASSUME NEW l \in Link PROVE SourceOf(l)' = SourceOf(l)
  BY <1>1, SourceStays DEF SourceOf
<1>2. [l \in Link |-> SourceOf(l)]' = [l \in Link |-> SourceOf(l)]
  BY <1>1
<1>3. [s \in Proc \X Topic |-> Number(s)]' = [s \in Proc \X Topic |-> Number(s)]
  BY DEF Number
<1>. QED
  BY <1>2, <1>3 DEF Delivered, Delivery!vars, SourceOf, Number

(* Publish is Publish of the promise.                                      *)
LEMMA PublishDelivers ==
    ASSUME TypeInv, NEW p \in Proc, NEW t \in Topic, Publish(p, t)
    PROVE  Delivered
<1>1. /\ UNCHANGED <<link, heard>>
      /\ count' = [count EXCEPT ![p][t] = @ + 1]
  BY DEF Publish
<1>2. [l \in Link |-> SourceOf(l)]' = [l \in Link |-> SourceOf(l)]
  BY <1>1 DEF SourceOf
<1>3. [s \in Proc \X Topic |-> Number(s)]'
        = [[s \in Proc \X Topic |-> Number(s)] EXCEPT ![<<p, t>>] = @ + 1]
  <2>1. count \in [Proc -> [Topic -> 0..MaxEvents]]
    BY DEF TypeInv, TypeOK, EventTypeOK
  <2>2. \A q \in Proc, u \in Topic :
           count'[q][u] = IF q = p /\ u = t THEN count[q][u] + 1 ELSE count[q][u]
    BY <1>1, <2>1
  <2>3. ASSUME NEW s \in Proc \X Topic
        PROVE  Number(s)' = IF s = <<p, t>> THEN Number(s) + 1 ELSE Number(s)
    BY <2>2 DEF Number
  <2>. QED
    BY <2>3
<1>4. Delivery!Publish(<<p, t>>)
  BY <1>1, <1>2, <1>3 DEF Delivery!Publish, SourceOf, Number
<1>5. <<p, t>> \in Proc \X Topic
  OBVIOUS
<1>. QED
  BY <1>4, <1>5 DEF Delivered, Delivery!Next

(* What is in the stream is published.                                     *)
LEMMA NoneAhead ==
    ASSUME NEW last \in Nat, NEW long \in Nat \ {0}, NEW base \in 0..last,
           long + 1 <= 2 * (last - base)
    PROVE  base \in Nat /\ base + 1 <= last
  OBVIOUS

(* RunCallback is Deliver, if there is a callback.                         *)
LEMMA CallbackDelivers ==
    ASSUME TypeInv, EventInv, NEW p \in Proc, RunCallback(p)
    PROVE  Delivered
<1>0. /\ slots \in [Proc -> [Slot -> Link \cup {NoLink}]]
      /\ down \in [Link -> Seq(Chunk)] /\ heard \in [Link -> Seq(Nat)]
      /\ \A q \in Proc : SlotsAt(q)
      /\ UNCHANGED <<link, count>> /\ LinksStay
  BY DEF TypeInv, TypeOK, EventTypeOK, ParticipantTypeOK, LinksTypeOK, EventInv, ThreadAt,
         RunCallback, LinksStay
<1>1. PICK i \in Slot : i = ew[p].i /\ ew[p].pc = "content"
  BY <1>0 DEF RunCallback, SlotsAt
<1>2. /\ down[slots[p][i]] # <<>>
      /\ heard' = [heard EXCEPT ![slots[p][i]] =
                     IF HasCallback(p, slots[p][i])
                     THEN Append(@, Head(down[slots[p][i]]).n) ELSE @]
  BY <1>0, <1>1 DEF RunCallback
<1>3. CASE slots[p][i] = NoLink \/ ~HasCallback(p, slots[p][i])
  <2>1. heard' = heard
    BY <1>0, <1>2, <1>3 DEF Link, NoLink
  <2>. QED
    BY <1>0, <2>1, QuietDelivers
<1>4. CASE slots[p][i] # NoLink /\ HasCallback(p, slots[p][i])
  <2>1. PICK l \in Link : l = slots[p][i]
    BY <1>0, <1>4
  <2>2. /\ InRead(l) /\ link[l].from = p /\ link[l].type = "SUBSCRIBE"
        /\ stage[l] # "unused" /\ Streams(l, 1)
    <3>1. InRead(l)
      BY <1>1, <2>1 DEF InRead
    <3>. QED
      BY <2>1, <3>1, PolledClean
  <2>3. /\ down[l] \in Seq(Chunk) /\ Len(down[l]) \in Nat /\ Len(down[l]) # 0
        /\ Head(down[l]) = down[l][1]
    BY <1>0, <1>2, <2>1, HeadTailProperties, LenProperties, EmptySeq
  <2>4. Published(l) \in Nat
    BY <2>2, LinkTypes
  <2>5. heard[l] # <<>> /\ Own(l)
    BY <1>4, <2>1, <2>2, <2>3 DEF Streams, Own
  <2>6. PICK base \in 0..Published(l) : Flows(l, 1, base) /\ base = Last(heard[l])
    BY <2>2, <2>5 DEF Streams
  <2>7. base \in Nat /\ base + 1 <= Published(l) /\ InOrder(down[l], 1, base)
    <3>1. PICK last \in Nat, long \in Nat \ {0} : last = Published(l) /\ long = Len(down[l])
      BY <2>3, <2>4
    <3>2. long + 1 <= 2 * (last - base) /\ base \in 0..last /\ InOrder(down[l], 1, base)
      BY <2>6, <3>1 DEF Flows
    <3>3. base \in Nat /\ base + 1 <= last
      BY <3>2, NoneAhead
    <3>. QED
      BY <3>1, <3>2, <3>3
  <2>8. Head(down[l]).n = base + 1
    <3>1. down[l][1] = Event(1 + 1, base)
      BY <2>3, <2>7 DEF InOrder
    <3>2. Event(1 + 1, base) = Body("EVENT", base + 1)
      BY <2>7 DEF Event
    <3>. QED
      BY <2>3, <3>1, <3>2 DEF Body
  <2>9. heard' = [heard EXCEPT ![l] = Append(@, Last(@) + 1)]
    BY <1>2, <1>4, <2>1, <2>6, <2>8
  <2>10. link[l].to \in Proc /\ link[l].arg \in Topic
    BY <1>0, <2>5, SourceStays
  <2>11. /\ SourceOf(l) # <<>> /\ SourceOf(l) \in Proc \X Topic
         /\ Last(heard[l]) < Number(SourceOf(l))
    BY <2>4, <2>5, <2>6, <2>7, <2>10 DEF SourceOf, Number, Published
  <2>12. ASSUME NEW m \in Link PROVE SourceOf(m)' = SourceOf(m)
    <3>1. CASE m = l
      <4>1. Append(heard[l], Last(heard[l]) + 1) # <<>>
        <5>1. PICK n \in Nat : n = Last(heard[l]) + 1
          BY <2>6, <2>7
        <5>2. heard[l] \in Seq(Nat)
          BY <1>0
        <5>. QED
          BY <5>1, <5>2, AppendProperties, LenProperties, EmptySeq
      <4>2. heard'[l] # <<>>
        BY <1>0, <2>9, <4>1
      <4>. QED
        BY <1>0, <2>5, <3>1, <4>2 DEF SourceOf
    <3>2. CASE m # l
      BY <1>0, <2>9, <3>2 DEF SourceOf
    <3>. QED
      BY <3>1, <3>2
  <2>13. [m \in Link |-> SourceOf(m)]' = [m \in Link |-> SourceOf(m)]
    BY <2>12
  <2>14. [s \in Proc \X Topic |-> Number(s)]' = [s \in Proc \X Topic |-> Number(s)]
    BY <1>0 DEF Number
  <2>15. Delivery!Deliver(l)
    <3>1. /\ [m \in Link |-> SourceOf(m)][l] = SourceOf(l)
          /\ [s \in Proc \X Topic |-> Number(s)][SourceOf(l)] = Number(SourceOf(l))
      BY <2>11
    <3>2. Delivery!Last(heard[l]) = Last(heard[l])
      BY DEF Delivery!Last, Last
    <3>. QED
      BY <2>9, <2>11, <2>13, <2>14, <3>1, <3>2 DEF Delivery!Deliver, SourceOf, Number
  <2>. QED
    BY <2>15 DEF Delivered, Delivery!Next
<1>. QED
  BY <1>3, <1>4

(* ServeSubscribe is Register, if it enters the link.                      *)
LEMMA ServeDelivers ==
    ASSUME TypeInv, EventInv, NEW p \in Proc, ServeSubscribe(p)
    PROVE  Delivered
<1>0. /\ Reads(p, "SUBSCRIBE") /\ UNCHANGED count
      /\ count \in [Proc -> [Topic -> 0..MaxEvents]] /\ heard \in [Link -> Seq(Nat)]
  BY DEF TypeInv, TypeOK, EventTypeOK, ServeSubscribe
<1>1. PICK l \in Link : /\ l = lis[p].link /\ link[l].to = p
                        /\ link[l].type = "SUBSCRIBE" /\ stage[l] \notin Early
                        /\ heard[l] = <<>> /\ UNCHANGED link
  BY <1>0, RequestRead
<1>2. PICK t \in Topic : t = link[l].arg
  BY <1>1, LinkTypes DEF Early
<1>3. CASE heard' = heard
  BY <1>0, <1>1, <1>3, QuietDelivers DEF LinksStay
<1>4. CASE heard' # heard
  <2>1. PICK n : Enlist(p, t, n, l)
    BY <1>1, <1>2, <1>4 DEF ServeSubscribe
  <2>2. app[p] = [op |-> "walk", arg |-> t] => count[p][t] > 0
    BY <1>2 DEF TypeInv, ThreadsAt, AppAt
  <2>3. PICK base \in {count[p][t] - 1, count[p][t]} \cap Nat :
           heard' = [heard EXCEPT ![l] = <<base>>]
    <3>1. PICK c \in Nat : c = count[p][t]
      BY <1>0
    <3>2. \/ heard' = [heard EXCEPT ![l] = <<c>>]
          \/ c > 0 /\ heard' = [heard EXCEPT ![l] = <<c - 1>>]
      BY <1>4, <2>1, <2>2, <3>1 DEF Enlist
    <3>3. c \in Nat /\ (c > 0 => c - 1 \in Nat)
      BY <3>1
    <3>. QED
      BY <3>1, <3>2, <3>3
  <2>4. ASSUME NEW m \in Link
        PROVE  SourceOf(m)' = IF m = l THEN <<p, t>> ELSE SourceOf(m)
    <3>1. CASE m = l
      <4>1. heard'[l] = <<base>> /\ <<base>> # <<>>
        BY <1>0, <2>3
      <4>. QED
        BY <1>1, <1>2, <3>1, <4>1 DEF SourceOf
    <3>2. CASE m # l
      BY <1>0, <1>1, <2>3, <3>2 DEF SourceOf
    <3>. QED
      BY <3>1, <3>2
  <2>5. [m \in Link |-> SourceOf(m)]' = [[m \in Link |-> SourceOf(m)] EXCEPT ![l] = <<p, t>>]
    BY <2>4
  <2>6. [s \in Proc \X Topic |-> Number(s)]' = [s \in Proc \X Topic |-> Number(s)]
    BY <1>0 DEF Number
  <2>7. SourceOf(l) = <<>>
    BY <1>1 DEF SourceOf
  <2>8. <<p, t>> \in Proc \X Topic /\ Number(<<p, t>>) = count[p][t]
    BY DEF Number
  <2>9. Delivery!Register(l, <<p, t>>)
    BY <2>3, <2>5, <2>6, <2>7, <2>8 DEF Delivery!Register, SourceOf, Number
  <2>. QED
    BY <2>8, <2>9 DEF Delivered, Delivery!Next
<1>. QED
  BY <1>3, <1>4

(* A link that is made takes nobody else's place.                          *)
LEMMA AskStays ==
    ASSUME TypeInv, Fresh \in Link, NEW info, link' = [link EXCEPT ![Fresh] = info]
    PROVE  LinksStay
<1>1. link[Fresh] = NoInfo /\ link \in [Link -> LinkInfo]
  BY FreshUnused DEF TypeInv, TypeOK, ParticipantTypeOK, LinksTypeOK
<1>. QED
  BY <1>1 DEF LinksStay

(* Every step is one of the promise, or none.                              *)
LEMMA StepDelivers ==
    ASSUME TypeInv, EventInv, [Next]_vars
    PROVE  Delivered
<1>0. link' = link => LinksStay
  BY DEF LinksStay
<1>1. CASE UNCHANGED vars
  BY <1>0, <1>1, QuietDelivers DEF vars
<1>2. CASE Shared /\ UNCHANGED <<eventVars, methodVars>>
  <2>1. link' = link
    BY <1>2 DEF Shared, Listening, Client, Join, Forget, Listen, Accept, Incomplete,
                AnswerHeader, AnswerBody, Connect, ConnectRefused, WriteBody
  <2>. QED
    BY <1>0, <1>2, <2>1, QuietDelivers
<1>3. CASE Events
  <2>1. ASSUME NEW p \in Proc, NEW t \in Topic, Advertise(p, t) \/ Subscribe(p, t)
        PROVE  Delivered
    <3>1. UNCHANGED <<count, heard>>
      BY <2>1 DEF Advertise, Subscribe
    <3>2. LinksStay
      BY <1>0, <2>1, AskStays DEF Advertise, Subscribe, Ask
    <3>. QED
      BY <3>1, <3>2, QuietDelivers
  <2>2. ASSUME NEW p \in Proc, Publishing(p) PROVE Delivered
    <3>1. UNCHANGED <<link, count, heard>>
      BY <2>2 DEF Publishing, Advertised, EventHeader, EventBody, WalkEnds, EraseDead
    <3>. QED
      BY <1>0, <3>1, QuietDelivers
  <2>3. ASSUME NEW p \in Proc, EventWorker(p) PROVE Delivered
    <3>1. CASE RunCallback(p)
      BY <3>1, CallbackDelivers
    <3>2. CASE ~RunCallback(p)
      <4>1. UNCHANGED <<link, count, heard>>
        BY <2>3, <3>2 DEF EventWorker, DrainNew, StartPoll, Poll, ScanDone, ReadHeader,
                          ReadEof, RunCallbackShort
      <4>. QED
        BY <1>0, <4>1, QuietDelivers
    <3>. QED
      BY <3>1, <3>2
  <2>4. ASSUME NEW l \in Link, Subscribing(l) PROVE Delivered
    <3>1. UNCHANGED <<link, count, heard>>
      BY <2>4 DEF Subscribing, ReadAnswerHeader, ReadAnswer, ReadMixed, NoAnswer,
                  AnswerLost, RecordSubscription, PushSubscription, LinkOnly
    <3>. QED
      BY <1>0, <3>1, QuietDelivers
  <2>. QED
    BY <1>3, <2>1, <2>2, <2>3, <2>4, PublishDelivers, ServeDelivers DEF Events, EventNext
<1>4. CASE Methods /\ UNCHANGED eventVars
  <2>1. UNCHANGED <<count, heard>>
    BY <1>4
  <2>2. LinksStay
    <3>1. ASSUME NEW p \in Proc, (\E m \in Method : Call(p, m)) \/ CallbackCalls(p)
          PROVE  LinksStay
      BY <3>1, AskStays DEF Call, CallbackCalls, Ask
    <3>2. ASSUME NEW p \in Proc,
                 (\E m \in Method : Provide(p, m)) \/ Provided(p) \/ ServeCall(p)
                    \/ CallbackReturns(p)
          PROVE  LinksStay
      BY <1>0, <3>2 DEF Provide, Provided, ServeCall, CallbackReturns, Reads
    <3>3. ASSUME NEW l \in Link, Calling(l) PROVE LinksStay
      BY <1>0, <3>3 DEF Calling, ReadResponseHeader, ReadResponse, ResponseLost, CallReads
    <3>. QED
      BY <1>4, <3>1, <3>2, <3>3 DEF Methods, MethodNext
  <2>. QED
    BY <2>1, <2>2, QuietDelivers
<1>5. CASE \E p \in Proc : End(p)
  <2>1. UNCHANGED <<link, count, heard>>
    BY <1>5 DEF End, EndParticipant, EndEvents, EndLinks
  <2>. QED
    BY <1>0, <2>1, QuietDelivers
<1>. QED
  BY <1>1, <1>2, <1>3, <1>4, <1>5 DEF Next

(* Each subscription has the events of its publisher from the one it finds *)
(* being published, or the next one, in order and each once: the event     *)
(* plane implements EventDelivery.                                         *)
THEOREM EventsDelivered == Spec => DeliversEvents
<1>1. Init => Delivery!Init
  <2>. SUFFICES ASSUME Init PROVE Delivery!Init
    OBVIOUS
  <2>1. /\ count = [p \in Proc |-> [t \in Topic |-> 0]]
        /\ heard = [l \in Link |-> <<>>]
    BY DEF Init, EventInit
  <2>. QED
    BY <2>1 DEF Delivery!Init
<1>2. TypeInv /\ EventInv /\ [Next]_vars => [Delivery!Next]_(Delivery!vars)
  BY StepDelivers DEF Delivered
<1>. QED
  BY <1>1, <1>2, EventInvariant, PTL DEF Spec, DeliversEvents, Delivery!Spec
===============================================================================
