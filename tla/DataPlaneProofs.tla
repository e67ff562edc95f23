---------------------------- MODULE DataPlaneProofs ----------------------------
(***************************************************************************)
(* The participants, for any number of processes, topics, methods and      *)
(* links: typing, and that method calls implement RequestReply, with       *)
(* callers and providers that end at any step.                             *)
(***************************************************************************)
EXTENDS DataPlane, TLAPS, SequenceTheorems, FiniteSetTheorems

(* The groups of variables, which every UNCHANGED is made of.              *)
USE DEF linkVars, directoryVars, participantVars, publisherVars, pollVars,
        eventVars, methodVars

-------------------------------------------------------------------------------
(* Typing.                                                                 *)

(* What TypeOK needs to be inductive: a link that is not made has no ends, *)
(* and they are made in order; the argument of what the threads do is of   *)
(* the right kind.                                                         *)
RightArg(type, arg) == arg \in IF type = "SUBSCRIBE" THEN Topic ELSE Method

Unmade ==
    /\ \A l \in Link : stage[l] = "unused" => link[l] = NoInfo
    /\ \E k \in 0..MaxLinks : Made = 1..k
    /\ \A l \in Link : stage[l] # "unused" => RightArg(link[l].type, link[l].arg)

AppAt(p) ==
    /\ app[p].op \in {"advertise", "walk", "erase"} => app[p].arg \in Topic
    /\ app[p].op = "provide" => app[p].arg \in Method
    /\ app[p].op = "walk" => count[p][app[p].arg] > 0

LisAt(p) == lis[p].pc = "callback" => link[lis[p].link].arg \in Method

ThreadsAt == \A p \in Proc : AppAt(p) /\ LisAt(p)

TypeInv == TypeOK /\ Unmade /\ ThreadsAt

(* What is written is a chunk.                                             *)
LEMMA Chunks ==
    /\ \A type \in {"ANSWER", "EVENT", "RESPONSE"} :
          Header(type) \in Chunk /\ \A n \in Nat : Body(type, n) \in Chunk
    /\ OK \in Nat /\ Refused \in Nat
  BY DEF Header, Body, Chunk, OK, Refused

(* A write of the server keeps the links within their bounds.              *)
LEMMA WriteTypes ==
    ASSUME LinksTypeOK, NEW l, NEW chunk \in Chunk, Write(l, chunk)
    PROVE  /\ down' \in [Link -> Seq(Chunk)]
           /\ \A m \in Link : Len(down'[m]) <= Capacity
           /\ near' \in [Link -> {"open", "closed", "reset", "broken"}]
<1>1. l \in Link => /\ Append(down[l], chunk) \in Seq(Chunk)
                    /\ Len(Append(down[l], chunk)) = Len(down[l]) + 1
                    /\ Len(down[l]) \in Nat
  BY AppendProperties, LenProperties DEF LinksTypeOK
<1>2. CASE near[l] = "open"
  <2>1. Len(down[l]) < Capacity /\ down' = [down EXCEPT ![l] = Append(@, chunk)]
        /\ near' = near
    BY <1>2 DEF Write
  <2>2. Capacity \in Nat
    BY LinkConstants
  <2>3. CASE l \in Link
    <3>1. \A m \in Link : down'[m] = IF m = l THEN Append(down[l], chunk) ELSE down[m]
      BY <2>1 DEF LinksTypeOK
    <3>2. \A m \in Link : Len(down'[m]) <= Capacity
      BY <1>1, <2>1, <2>2, <2>3, <3>1 DEF LinksTypeOK
    <3>. QED
      BY <1>1, <2>1, <2>3, <3>2 DEF LinksTypeOK
  <2>4. CASE l \notin Link
    BY <2>1, <2>4 DEF LinksTypeOK
  <2>. QED
    BY <2>3, <2>4
<1>3. CASE near[l] # "open"
  <2>1. down' = down
    BY <1>3 DEF Write
  <2>2. near' \in [Link -> {"open", "closed", "reset", "broken"}]
    BY <1>3 DEF Write, LinksTypeOK
  <2>. QED
    BY <2>1, <2>2 DEF LinksTypeOK
<1>. QED
  BY <1>2, <1>3

(* So does a read of the client, which gets a chunk.                       *)
LEMMA TakeTypes ==
    ASSUME LinksTypeOK, NEW l, down[l] # <<>>, Take(l)
    PROVE  /\ down' \in [Link -> Seq(Chunk)]
           /\ \A m \in Link : Len(down'[m]) <= Capacity
           /\ l \in Link => Head(down[l]) \in Chunk
<1>1. l \in Link => /\ Tail(down[l]) \in Seq(Chunk) /\ Head(down[l]) \in Chunk
                    /\ Len(Tail(down[l])) = Len(down[l]) - 1
                    /\ Len(down[l]) \in Nat
  BY HeadTailProperties, LenProperties DEF LinksTypeOK
<1>2. Capacity \in Nat /\ down' = [down EXCEPT ![l] = Tail(@)]
  BY LinkConstants DEF Take
<1>3. CASE l \in Link
  <2>1. \A m \in Link : down'[m] = IF m = l THEN Tail(down[l]) ELSE down[m]
    BY <1>2 DEF LinksTypeOK
  <2>2. \A m \in Link : Len(down'[m]) <= Capacity
    BY <1>1, <1>2, <1>3, <2>1 DEF LinksTypeOK
  <2>. QED
    BY <1>1, <1>2, <1>3, <2>2 DEF LinksTypeOK
<1>4. CASE l \notin Link
  BY <1>2, <1>4 DEF LinksTypeOK
<1>. QED
  BY <1>3, <1>4

(* The next link is a number, as the links in use are finitely many.       *)
LEMMA FreshIsNat == Fresh \in Nat \ {0}
<1>1. IsFiniteSet(Made)
  <2>1. IsFiniteSet(Link)
    BY LinkConstants, FS_Interval DEF Link
  <2>. QED
    BY <2>1, FS_Subset DEF Made
<1>. QED
  BY <1>1, FS_CardinalityType DEF Fresh

(* The next link is not in use, and all before it are.                     *)
LEMMA FreshUnused ==
    ASSUME LinksTypeOK, Unmade, Fresh \in Link
    PROVE  link[Fresh] = NoInfo /\ stage[Fresh] = "unused" /\ Made = 1..(Fresh - 1)
<1>1. PICK k \in 0..MaxLinks : Made = 1..k
  BY DEF Unmade
<1>2. k \in Nat /\ Cardinality(1..k) = k
  BY <1>1, FS_Interval, LinkConstants
<1>3. Fresh = k + 1 /\ Fresh \notin Made
  BY <1>1, <1>2 DEF Fresh
<1>4. stage[Fresh] = "unused"
  BY <1>3 DEF Made
<1>. QED
  BY <1>1, <1>2, <1>3, <1>4 DEF Unmade

(* A link that is made leaves the others as they are.                      *)
LEMMA AskTypes ==
    ASSUME LinksTypeOK, Unmade, NEW p \in Proc, NEW by \in {"app", "callback"},
           NEW type \in {"SUBSCRIBE", "CALL"}, NEW arg \in Topic \cup Method,
           RightArg(type, arg),
           NEW owner \in Proc \cup {None}, Ask(p, by, type, arg, owner)
    PROVE  /\ LinksTypeOK' /\ Unmade'
           /\ \A l \in Link : link[l] = NoInfo \/ link'[l] = link[l]
<1>1. owner \in Proc /\ Fresh \in Link
  BY DEF Ask
<1>2. link' = [link EXCEPT ![Fresh] =
                  [from |-> p, to |-> owner, by |-> by, type |-> type, arg |-> arg]]
      /\ stage' = [stage EXCEPT ![Fresh] = "connect"]
      /\ UNCHANGED <<unread, down, near, far>>
  BY DEF Ask, Advance
<1>3. [from |-> p, to |-> owner, by |-> by, type |-> type, arg |-> arg] \in LinkInfo
  BY <1>1 DEF LinkInfo
<1>4. "connect" \in Stage
  BY DEF Stage, InProgress
<1>5. LinksTypeOK'
  BY <1>1, <1>2, <1>3, <1>4 DEF LinksTypeOK
<1>6. \A l \in Link : stage'[l] = "unused" => link'[l] = NoInfo
  BY <1>1, <1>2 DEF LinksTypeOK, Unmade
<1>7. \E k \in 0..MaxLinks : Made' = 1..k
  <2>1. Made' = Made \cup {Fresh}
    BY <1>1, <1>2 DEF LinksTypeOK, Made
  <2>2. Fresh \in 1..MaxLinks /\ Made = 1..(Fresh - 1)
    BY <1>1, FreshUnused DEF Link
  <2>3. Made' = 1..Fresh
    BY <2>1, <2>2, LinkConstants
  <2>. QED
    BY <2>2, <2>3, LinkConstants
<1>8. \A l \in Link : link[l] = NoInfo \/ link'[l] = link[l]
  BY <1>1, <1>2, FreshUnused DEF LinksTypeOK
<1>9. \A l \in Link : stage'[l] # "unused" => RightArg(link'[l].type, link'[l].arg)
  BY <1>1, <1>2 DEF LinksTypeOK, Unmade
<1>. QED
  BY <1>5, <1>6, <1>7, <1>8, <1>9 DEF Unmade

(* A thread that makes a call goes on to another stage of a link it made.  *)
LEMMA AdvanceTypes ==
    ASSUME LinksTypeOK, Unmade, NEW l \in Link, NEW s \in Stage \ {"unused"},
           stage[l] # "unused", Advance(l, s), UNCHANGED link
    PROVE  /\ stage' \in [Link -> Stage]
           /\ \A m \in Link : stage'[m] # "unused" => {link'[m].from, link'[m].to} \subseteq Proc
           /\ Unmade'
<1>1. stage' = [stage EXCEPT ![l] = s]
  BY DEF Advance
<1>2. Made' = Made
  BY <1>1 DEF LinksTypeOK, Made
<1>. QED
  BY <1>1, <1>2 DEF LinksTypeOK, Unmade

(* What the end of a process leaves of the links.                          *)
LEMMA EndTypes ==
    ASSUME LinksTypeOK, Unmade, NEW p \in Proc, NEW S, NEW T, EndLinks(p, S, T)
    PROVE  LinksTypeOK' /\ Unmade'
<1>1. stage' \in [Link -> Stage] /\ unread' \in [Link -> 0..2]
      /\ near' \in [Link -> {"open", "closed", "reset", "broken"}]
      /\ far' \in [Link -> {"open", "closed", "reset"}]
  BY DEF EndLinks, LinksTypeOK, Stage
<1>2. down' \in [Link -> Seq(Chunk)] /\ \A l \in Link : Len(down'[l]) <= Capacity
  BY LinkConstants, EmptySeq DEF EndLinks, LinksTypeOK
<1>3. \A l \in Link : link[l].from = p => stage[l] # "unused"
  BY LinkConstants DEF Unmade, NoInfo
<1>4. \A l \in Link : stage'[l] # "unused" => {link'[l].from, link'[l].to} \subseteq Proc
  BY <1>3 DEF EndLinks, LinksTypeOK
<1>5. Unmade'
  <2>1. Made' = Made
    BY <1>3 DEF EndLinks, Made
  <2>. QED
    BY <1>3, <2>1 DEF EndLinks, Unmade
<1>. QED
  BY <1>1, <1>2, <1>4, <1>5 DEF EndLinks, LinksTypeOK

(* The directory the participants see stays one.                           *)
DirectoryOK ==
    /\ member \in [Name -> Proc \cup {None}]
    /\ publisher \in [Topic -> Proc \cup {None}]
    /\ provider \in [Method -> Proc \cup {None}]

(* A request keeps the directory of the master typed.                      *)
LEMMA DirectoryTypes ==
    ASSUME DirectoryOK, NEW p \in Proc,
           \/ \E n \in Name : Master!Join(n, p)
           \/ Master!Leave(p)
           \/ \E t \in Topic : Master!Publish(p, t)
           \/ \E m \in Method : Master!Provide(p, m)
    PROVE  DirectoryOK'
<1>1. CASE \E n \in Name : Master!Join(n, p)
  BY <1>1 DEF DirectoryOK, Master!Join
<1>2. CASE Master!Leave(p)
  BY <1>2 DEF DirectoryOK, Master!Leave, Master!Without
<1>3. CASE \E t \in Topic : Master!Publish(p, t)
  BY <1>3 DEF DirectoryOK, Master!Publish
<1>4. CASE \E m \in Method : Master!Provide(p, m)
  BY <1>4 DEF DirectoryOK, Master!Provide
<1>. QED
  BY <1>1, <1>2, <1>3, <1>4

ThreadsOK ==
    /\ proc \in [Proc -> {"absent", "up", "ended"}]
    /\ app \in [Proc -> Activity]
    /\ lis \in [Proc -> Listener]
    /\ \A p \in Proc : lis[p].pc \notin {"starting", "accept"} => lis[p].link # NoLink
    /\ backlog \in [Proc -> Seq(Link)]

(* The type of a participant, in three parts: links, directory, threads.   *)
LEMMA ParticipantParts == ParticipantTypeOK <=> LinksTypeOK /\ DirectoryOK /\ ThreadsOK
  BY DEF ParticipantTypeOK, DirectoryOK, ThreadsOK

(* The same after a step.                                                  *)
LEMMA ParticipantPartsNext ==
    ParticipantTypeOK' <=> LinksTypeOK' /\ DirectoryOK' /\ ThreadsOK'
  BY DEF ParticipantTypeOK, DirectoryOK, ThreadsOK

(* A listening thread and the links that wait for it.                      *)
LEMMA ListenerTypes ==
    ASSUME ThreadsOK, NEW p \in Proc, NEW next \in Listener,
           next.pc \notin {"starting", "accept"} => next.link # NoLink,
           lis' = [lis EXCEPT ![p] = next], UNCHANGED <<proc, app>>,
           backlog' \in [Proc -> Seq(Link)]
    PROVE  ThreadsOK'
<1>1. lis \in [Proc -> Listener]
  BY DEF ThreadsOK
<1>2. lis' \in [Proc -> Listener]
  BY <1>1
<1>3. \A q \in Proc : lis'[q].pc \notin {"starting", "accept"} => lis'[q].link # NoLink
  BY <1>1 DEF ThreadsOK
<1>. QED
  BY <1>2, <1>3 DEF ThreadsOK

(* Actions that leave the threads and links alone but for one of them.     *)
LEMMA JoinTypes ==
    ASSUME ParticipantTypeOK, NEW p \in Proc, Join(p) \/ Forget(p)
    PROVE  ParticipantTypeOK' /\ UNCHANGED <<link, stage, app, lis>>
<1>0. LinksTypeOK /\ DirectoryOK /\ ThreadsOK
  BY ParticipantParts
<1>1. UNCHANGED <<linkVars, app, lis, backlog>>
  BY DEF Join, Forget
<1>2. DirectoryOK'
  <2>1. NameOf[p] \in Name
    BY ParticipantConstants
  <2>2. (\E n \in Name : Master!Join(n, p)) \/ Master!Leave(p)
    BY <2>1 DEF Join, Forget
  <2>. QED
    BY <1>0, <2>2, DirectoryTypes
<1>3. proc' \in [Proc -> {"absent", "up", "ended"}]
  <2>1. proc \in [Proc -> {"absent", "up", "ended"}]
    BY <1>0 DEF ThreadsOK
  <2>2. proc' = [proc EXCEPT ![p] = "up"] \/ proc' = proc
    BY DEF Join, Forget
  <2>. QED
    BY <2>1, <2>2
<1>4. ThreadsOK'
  BY <1>0, <1>1, <1>3 DEF ThreadsOK
<1>5. LinksTypeOK'
  BY <1>0, <1>1 DEF LinksTypeOK
<1>. QED
  BY <1>1, <1>2, <1>4, <1>5, ParticipantPartsNext

(* The listening thread keeps the types and lets the callbacks be.         *)
LEMMA ListeningTypes ==
    ASSUME ParticipantTypeOK, NEW p \in Proc, Listening(p)
    PROVE  /\ ParticipantTypeOK' /\ UNCHANGED <<link, stage, app>>
           /\ \A q \in Proc : LisAt(q) => LisAt(q)'
<1>0. LinksTypeOK /\ DirectoryOK /\ ThreadsOK
  BY ParticipantParts
<1>1. UNCHANGED <<link, stage, unread, far, directoryVars, proc, app>>
  BY DEF Listening, Listen, Accept, Incomplete, AnswerHeader, AnswerBody
<1>2. DirectoryOK'
  BY <1>0, <1>1 DEF DirectoryOK
<1>3. lis[p] \in Listener /\ backlog \in [Proc -> Seq(Link)]
  BY <1>0 DEF ThreadsOK
<1>threads. UNCHANGED <<proc, app>>
  BY <1>1
<1>4. ASSUME Listen(p) \/ Incomplete(p) \/ AnswerBody(p)
      PROVE  ThreadsOK'
  <2>1. lis' = [lis EXCEPT ![p] = Free]
    BY <1>4 DEF Listen, Incomplete, AnswerBody
  <2>2. Free \in Listener /\ (Free.pc \notin {"starting", "accept"} => Free.link # NoLink)
    BY DEF Free, Listener, NoLink
  <2>3. backlog' \in [Proc -> Seq(Link)]
    BY <1>3, <1>4 DEF Listen, Incomplete, AnswerBody
  <2>. QED
    BY <1>0, <1>threads, <2>1, <2>2, <2>3, ListenerTypes
<1>5. ASSUME Accept(p)
      PROVE  ThreadsOK'
  <2>1. Head(backlog[p]) \in Link /\ Tail(backlog[p]) \in Seq(Link)
    BY <1>3, <1>5, HeadTailProperties DEF Accept
  <2>2. backlog' \in [Proc -> Seq(Link)]
    BY <1>3, <1>5, <2>1 DEF Accept
  <2>. DEFINE next == [lis[p] EXCEPT !.pc = "read", !.link = Head(backlog[p])]
  <2>3. next \in Listener /\ (next.pc \notin {"starting", "accept"} => next.link # NoLink)
    <3>1. Head(backlog[p]) # NoLink
      BY <2>1 DEF NoLink, Link
    <3>2. next.link = Head(backlog[p])
      BY <1>3 DEF Listener
    <3>3. next \in Listener
      BY <1>3, <2>1 DEF Listener
    <3>. QED
      BY <3>1, <3>2, <3>3
  <2>4. lis' = [lis EXCEPT ![p] = next]
    BY <1>5 DEF Accept
  <2>. HIDE DEF next
  <2>. QED
    BY <1>0, <1>threads, <2>2, <2>3, <2>4, ListenerTypes
<1>6. ASSUME AnswerHeader(p)
      PROVE  ThreadsOK'
  <2>. DEFINE next == [lis[p] EXCEPT !.pc = "body"]
  <2>1. next \in Listener /\ (next.pc \notin {"starting", "accept"} => next.link # NoLink)
    <3>1. lis[p].link # NoLink
      BY <1>0, <1>6 DEF ThreadsOK, AnswerHeader
    <3>2. next \in Listener /\ next.link = lis[p].link
      BY <1>3 DEF Listener
    <3>. QED
      BY <3>1, <3>2
  <2>2. lis' = [lis EXCEPT ![p] = next]
    BY <1>6 DEF AnswerHeader
  <2>3. backlog' \in [Proc -> Seq(Link)]
    BY <1>3, <1>6 DEF AnswerHeader
  <2>. HIDE DEF next
  <2>. QED
    BY <1>0, <1>threads, <2>1, <2>2, <2>3, ListenerTypes
<1>7. ThreadsOK'
  BY <1>4, <1>5, <1>6 DEF Listening
<1>8. LinksTypeOK'
  <2>1. CASE AnswerHeader(p) \/ AnswerBody(p)
    <3>1. \E chunk \in Chunk : Write(lis[p].link, chunk)
      BY <2>1, Chunks DEF AnswerHeader, AnswerBody, AnswerType
    <3>. QED
      BY <1>0, <1>1, <3>1, WriteTypes DEF LinksTypeOK
  <2>2. CASE UNCHANGED linkVars
    BY <1>0, <2>2 DEF LinksTypeOK
  <2>. QED
    BY <2>1, <2>2 DEF Listening, Listen, Accept, Incomplete
<1>9. \A q \in Proc : LisAt(q) => LisAt(q)'
  <2>1. \A q \in Proc : lis'[q].pc = "callback" => lis'[q] = lis[q]
    <3>1. lis \in [Proc -> Listener]
      BY <1>0 DEF ThreadsOK
    <3>. QED
      BY <3>1 DEF Listening, Listen, Accept, Incomplete, AnswerHeader, AnswerBody,
                  Free, Listener
  <2>. QED
    BY <1>1, <2>1 DEF LisAt
<1>. QED
  BY <1>1, <1>2, <1>7, <1>8, <1>9, ParticipantPartsNext

(* So does the client of a link: connect(), the request, or neither.       *)
LEMMA ClientTypes ==
    ASSUME ParticipantTypeOK, Unmade, NEW l \in Link, Client(l)
    PROVE  ParticipantTypeOK' /\ Unmade' /\ UNCHANGED <<link, app, lis>>
<1>0. LinksTypeOK /\ DirectoryOK /\ ThreadsOK
  BY ParticipantParts
<1>1. UNCHANGED <<link, down, near, directoryVars, proc, app, lis>>
  BY DEF Client, Connect, ConnectRefused, WriteBody
<1>2. \E s \in Stage \ {"unused"} : stage[l] # "unused" /\ Advance(l, s)
  BY DEF Client, Connect, ConnectRefused, WriteBody, Stage, InProgress
<1>3. unread' \in [Link -> 0..2] /\ far' \in [Link -> {"open", "closed", "reset"}]
  <2>1. unread \in [Link -> 0..2] /\ far \in [Link -> {"open", "closed", "reset"}]
    BY <1>0 DEF LinksTypeOK
  <2>2. CASE Connect(l) \/ ConnectRefused(l)
    BY <2>1, <2>2 DEF Connect, ConnectRefused
  <2>3. CASE WriteBody(l)
    BY <2>1, <2>3 DEF WriteBody
  <2>. QED
    BY <2>2, <2>3 DEF Client
<1>4. LinksTypeOK' /\ Unmade'
  BY <1>0, <1>1, <1>2, <1>3, AdvanceTypes DEF LinksTypeOK
<1>5. backlog' \in [Proc -> Seq(Link)]
  <2>1. backlog \in [Proc -> Seq(Link)]
    BY <1>0 DEF ThreadsOK
  <2>2. \A p \in Proc : Append(backlog[p], l) \in Seq(Link)
    BY <2>1, AppendProperties
  <2>3. \/ UNCHANGED backlog
        \/ backlog' = [backlog EXCEPT ![link[l].to] = Append(@, l)]
    BY DEF Client, Connect, ConnectRefused, WriteBody
  <2>. QED
    BY <2>1, <2>2, <2>3
<1>6. ThreadsOK'
  BY <1>0, <1>1, <1>5 DEF ThreadsOK
<1>. QED
  BY <1>0, <1>1, <1>4, <1>6, ParticipantPartsNext DEF DirectoryOK

(* Steps that belong neither to events nor to methods keep the types.      *)
LEMMA SharedTypes ==
    ASSUME TypeInv, Shared, UNCHANGED <<eventVars, methodVars>>
    PROVE  TypeInv'
<1>1. EventTypeOK' /\ MethodTypeOK'
  BY DEF TypeInv, TypeOK, EventTypeOK, MethodTypeOK
<1>2. ParticipantTypeOK' /\ Unmade' /\ UNCHANGED app /\ \A q \in Proc : LisAt(q)'
  <2>. ParticipantTypeOK /\ Unmade /\ \A q \in Proc : LisAt(q)
    BY DEF TypeInv, TypeOK, ThreadsAt
  <2>1. ASSUME NEW p \in Proc, Join(p) \/ Forget(p)
        PROVE  ParticipantTypeOK' /\ UNCHANGED <<link, stage, app, lis>>
    BY <2>1, JoinTypes
  <2>2. ASSUME NEW p \in Proc, Listening(p)
        PROVE  /\ ParticipantTypeOK' /\ UNCHANGED <<link, stage, app>>
               /\ \A q \in Proc : LisAt(q)'
    BY <2>2, ListeningTypes
  <2>3. ASSUME NEW l \in Link, Client(l)
        PROVE  ParticipantTypeOK' /\ Unmade' /\ UNCHANGED <<link, app, lis>>
    BY <2>3, ClientTypes
  <2>. QED
    BY <2>1, <2>2, <2>3 DEF Shared, Unmade, Made, LisAt
<1>. QED
  BY <1>1, <1>2 DEF TypeInv, TypeOK, ThreadsAt, AppAt

(* A thread reads from a link it made, or finds nothing there.             *)
LEMMA ReadTypes ==
    ASSUME LinksTypeOK, Unmade, NEW l \in Link, NEW s \in Stage \ {"unused"},
           stage[l] # "unused", Advance(l, s),
           (down[l] # <<>> /\ Take(l)) \/ UNCHANGED down,
           UNCHANGED <<link, unread, near, far>>
    PROVE  LinksTypeOK' /\ Unmade'
<1>1. /\ stage' \in [Link -> Stage]
      /\ \A m \in Link : stage'[m] # "unused" => {link'[m].from, link'[m].to} \subseteq Proc
      /\ Unmade'
  BY AdvanceTypes
<1>2. down' \in [Link -> Seq(Chunk)] /\ \A m \in Link : Len(down'[m]) <= Capacity
  BY TakeTypes DEF LinksTypeOK
<1>. QED
  BY <1>1, <1>2 DEF LinksTypeOK

(* The listening thread has read a request.                                *)
LEMMA ReadsTypes ==
    ASSUME LinksTypeOK, Unmade, NEW p, NEW type, Reads(p, type)
    PROVE  LinksTypeOK' /\ Unmade'
<1>1. unread' = [unread EXCEPT ![lis[p].link] = 0]
      /\ UNCHANGED <<link, stage, down, near, far>>
  BY DEF Reads
<1>2. unread' \in [Link -> 0..2]
  <2>1. unread \in [Link -> 0..2]
    BY DEF LinksTypeOK
  <2>2. unread' = [l \in Link |-> IF l = lis[p].link THEN 0 ELSE unread[l]]
    BY <1>1, <2>1
  <2>. QED
    BY <2>1, <2>2
<1>. QED
  BY <1>1, <1>2 DEF LinksTypeOK, Unmade, Made

(* The thread of the application does something else.                      *)
LEMMA ActivityTypes ==
    ASSUME ThreadsOK, NEW p \in Proc, NEW next \in Activity,
           app' = [app EXCEPT ![p] = next], UNCHANGED <<proc, lis, backlog>>
    PROVE  ThreadsOK'
<1>1. app' \in [Proc -> Activity]
  BY DEF ThreadsOK
<1>. QED
  BY <1>1 DEF ThreadsOK

(* A link that is made does not disturb the callbacks that run.            *)
LEMMA SameCallbacks ==
    ASSUME ThreadsOK, ThreadsAt, UNCHANGED <<app, lis, count>>,
           \A l \in Link : link[l] = NoInfo \/ link'[l] = link[l]
    PROVE  ThreadsAt'
<1>1. ASSUME NEW p \in Proc, lis[p].pc = "callback"
      PROVE  link'[lis[p].link].arg \in Method
  <2>1. link[lis[p].link].arg \in Method
    BY <1>1 DEF ThreadsAt, LisAt
  <2>2. lis[p].link \in Link
    BY <1>1 DEF ThreadsOK, Listener
  <2>. QED
    BY <2>1, <2>2, LinkConstants DEF NoInfo
<1>. QED
  BY <1>1 DEF ThreadsAt, AppAt, LisAt

(* The caller of a method reads its response.                              *)
LEMMA CallingTypes ==
    ASSUME ParticipantTypeOK, Unmade, NEW l \in Link, Calling(l)
    PROVE  ParticipantTypeOK' /\ Unmade'
<1>0. LinksTypeOK /\ DirectoryOK /\ ThreadsOK
  BY ParticipantParts
<1>1. UNCHANGED <<link, unread, near, far>>
      /\ UNCHANGED <<directoryVars, proc, app, lis, backlog>>
  BY DEF Calling, ReadResponseHeader, ReadResponse, ResponseLost, CallReads
<1>2. /\ stage[l] # "unused"
      /\ \E s \in Stage \ {"unused"} : Advance(l, s)
      /\ (down[l] # <<>> /\ Take(l)) \/ UNCHANGED down
  BY DEF Calling, ReadResponseHeader, ReadResponse, ResponseLost, CallAt, Stage,
         InProgress
<1>3. LinksTypeOK' /\ Unmade'
  BY <1>0, <1>1, <1>2, ReadTypes
<1>. QED
  BY <1>0, <1>1, <1>3, ParticipantPartsNext DEF DirectoryOK, ThreadsOK

(* Every other step of provide_method(), call_method() and the callbacks.  *)
LEMMA MethodStepTypes ==
    ASSUME TypeInv, NEW p \in Proc, MethodNext(p), UNCHANGED eventVars
    PROVE  ParticipantTypeOK' /\ MethodTypeOK' /\ Unmade' /\ ThreadsAt'
<1>0. LinksTypeOK /\ DirectoryOK /\ ThreadsOK /\ Unmade /\ MethodTypeOK
  BY ParticipantParts DEF TypeInv, TypeOK
<1>app. app \in [Proc -> Activity] /\ ThreadsAt
  BY <1>0 DEF ThreadsOK, TypeInv
<1>lis. lis[p] \in Listener
  BY <1>0 DEF ThreadsOK
<1>1. ASSUME NEW m \in Method, Provide(p, m)
      PROVE  ParticipantTypeOK' /\ MethodTypeOK' /\ Unmade' /\ ThreadsAt'
  <2>1. DirectoryOK'
    BY <1>0, <1>1, DirectoryTypes DEF Provide
  <2>. DEFINE next == [op |-> "provide", arg |-> m]
  <2>2. next \in Activity /\ app' = [app EXCEPT ![p] = next]
    BY <1>1 DEF Activity, Provide
  <2>3. UNCHANGED <<proc, lis, backlog>> /\ UNCHANGED <<linkVars, methodVars>>
    BY <1>1 DEF Provide
  <2>4. ThreadsAt'
    BY <1>app, <2>2, <2>3 DEF ThreadsAt, AppAt, LisAt
  <2>. HIDE DEF next
  <2>5. ThreadsOK'
    BY <1>0, <2>2, <2>3, ActivityTypes
  <2>. QED
    BY <1>0, <2>1, <2>3, <2>4, <2>5, ParticipantPartsNext
       DEF LinksTypeOK, MethodTypeOK, Unmade, Made
<1>2. ASSUME Provided(p)
      PROVE  ParticipantTypeOK' /\ MethodTypeOK' /\ Unmade' /\ ThreadsAt'
  <2>1. AtRest \in Activity /\ app' = [app EXCEPT ![p] = AtRest]
    BY <1>2 DEF Activity, Provided, AtRest
  <2>2. UNCHANGED <<proc, lis, backlog>> /\ UNCHANGED <<linkVars, directoryVars, runs>>
    BY <1>2 DEF Provided
  <2>3. app[p].arg \in Method
    BY <1>2, <1>app DEF Provided, ThreadsAt, AppAt
  <2>4. MethodTypeOK'
    BY <1>0, <1>2, <2>2, <2>3 DEF MethodTypeOK, Provided
  <2>5. ThreadsAt'
    BY <1>app, <2>1, <2>2 DEF ThreadsAt, AppAt, LisAt, AtRest
  <2>6. ThreadsOK'
    BY <1>0, <2>1, <2>2, ActivityTypes
  <2>. QED
    BY <1>0, <2>2, <2>4, <2>5, <2>6, ParticipantPartsNext
       DEF LinksTypeOK, DirectoryOK, Unmade, Made
<1>3. ASSUME NEW m \in Method, Call(p, m)
      PROVE  ParticipantTypeOK' /\ MethodTypeOK' /\ Unmade' /\ ThreadsAt'
  <2>1. Ask(p, "app", "CALL", m, provider[m])
        /\ UNCHANGED <<directoryVars, proc, app, lis, backlog, methodVars>>
    BY <1>3 DEF Call
  <2>2. provider[m] \in Proc \cup {None}
    BY <1>0 DEF DirectoryOK
  <2>3. /\ LinksTypeOK' /\ Unmade'
        /\ \A l \in Link : link[l] = NoInfo \/ link'[l] = link[l]
    BY <1>0, <2>1, <2>2, AskTypes DEF RightArg
  <2>4. ThreadsAt'
    BY <1>0, <1>app, <2>1, <2>3, SameCallbacks
  <2>. QED
    BY <1>0, <2>1, <2>3, <2>4, ParticipantPartsNext
       DEF DirectoryOK, ThreadsOK, MethodTypeOK
<1>4. ASSUME ServeCall(p)
      PROVE  ParticipantTypeOK' /\ MethodTypeOK' /\ Unmade' /\ ThreadsAt'
  <2>1. Reads(p, "CALL") /\ UNCHANGED <<directoryVars, proc, app, backlog, method_list>>
    BY <1>4 DEF ServeCall
  <2>2. LinksTypeOK' /\ Unmade'
    BY <1>0, <2>1, ReadsTypes
  <2>3. runs' \in [Link -> Nat]
    <3>1. runs' = runs \/ runs' = [runs EXCEPT ![lis[p].link] = @ + 1]
      BY <1>4 DEF ServeCall
    <3>. QED
      BY <1>0, <3>1 DEF MethodTypeOK
  <2>4. PICK next \in Listener : next.link = lis[p].link /\ lis' = [lis EXCEPT ![p] = next]
    <3>1. CASE lis' = [lis EXCEPT ![p].pc = "callback"]
      <4>1. [lis[p] EXCEPT !.pc = "callback"] \in Listener
        BY <1>lis DEF Listener
      <4>. QED
        BY <1>lis, <3>1, <4>1 DEF Listener
    <3>2. CASE Answers(p, FALSE)
      <4>1. [lis[p] EXCEPT !.pc = "header", !.ok = FALSE, !.nested = NoLink] \in Listener
        BY <1>lis DEF Listener, NoLink
      <4>. QED
        BY <1>lis, <3>2, <4>1 DEF Listener, Answers
    <3>. QED
      BY <1>4, <3>1, <3>2 DEF ServeCall
  <2>5. lis[p].link # NoLink
    BY <1>0, <2>1 DEF Reads, ThreadsOK
  <2>6. backlog' \in [Proc -> Seq(Link)] /\ UNCHANGED <<proc, app>>
    BY <1>0, <2>1 DEF ThreadsOK
  <2>7. ThreadsOK'
    BY <1>0, <2>4, <2>5, <2>6, ListenerTypes
  <2>8. lis'[p].pc = "callback" => link[lis[p].link].arg \in Method
    BY <1>0, <1>4 DEF ServeCall, MethodTypeOK, Answers, ThreadsOK, Listener
  <2>9. ThreadsAt'
    BY <1>0, <1>app, <2>1, <2>4, <2>8 DEF ThreadsAt, AppAt, LisAt, ThreadsOK, Reads
  <2>. QED
    BY <1>0, <2>1, <2>2, <2>3, <2>7, <2>9, ParticipantPartsNext
       DEF DirectoryOK, MethodTypeOK
<1>5. ASSUME CallbackCalls(p)
      PROVE  ParticipantTypeOK' /\ MethodTypeOK' /\ Unmade' /\ ThreadsAt'
  <2>. DEFINE m == Nested[link[lis[p].link].arg]
  <2>1. /\ Ask(p, "callback", "CALL", m, provider[m]) /\ m # None
        /\ lis' = [lis EXCEPT ![p].nested = Fresh]
        /\ UNCHANGED <<directoryVars, proc, app, backlog, methodVars>>
        /\ lis[p].pc = "callback"
    BY <1>5 DEF CallbackCalls, InCallback
  <2>. DEFINE l == lis[p].link
  <2>2. m \in Method /\ link[l].arg \in Method
    BY <1>app, <2>1, NestedCalls DEF ThreadsAt, LisAt
  <2>3. provider[m] \in Proc \cup {None}
    BY <1>0, <2>2 DEF DirectoryOK
  <2>. HIDE DEF m
  <2>4. /\ LinksTypeOK' /\ Unmade'
        /\ \A k \in Link : link[k] = NoInfo \/ link'[k] = link[k]
    BY <1>0, <2>1, <2>2, <2>3, AskTypes DEF RightArg
  <2>. DEFINE next == [lis[p] EXCEPT !.nested = Fresh]
  <2>5. Fresh \in Link
    BY <2>1 DEF Ask
  <2>6. next \in Listener /\ next.link = l /\ next.pc = "callback"
    BY <1>lis, <2>1, <2>5 DEF Listener
  <2>7. lis' = [lis EXCEPT ![p] = next] /\ l # NoLink
    BY <1>0, <2>1 DEF ThreadsOK
  <2>8. backlog' \in [Proc -> Seq(Link)] /\ UNCHANGED <<proc, app>>
    BY <1>0, <2>1 DEF ThreadsOK
  <2>. HIDE DEF next
  <2>9. ThreadsOK'
    BY <1>0, <2>6, <2>7, <2>8, ListenerTypes
  <2>10. ASSUME NEW q \in Proc, lis'[q].pc = "callback"
         PROVE  link'[lis'[q].link].arg \in Method
    <3>1. lis[q].pc = "callback" /\ lis'[q].link = lis[q].link
      BY <1>0, <2>1, <2>6, <2>7, <2>10 DEF ThreadsOK
    <3>2. link[lis[q].link].arg \in Method /\ lis[q].link \in Link
      BY <1>0, <1>app, <3>1 DEF ThreadsAt, LisAt, ThreadsOK, Listener
    <3>. QED
      BY <2>4, <3>1, <3>2, LinkConstants DEF NoInfo
  <2>11. ThreadsAt'
    BY <1>app, <2>1, <2>10 DEF ThreadsAt, AppAt, LisAt
  <2>. QED
    BY <1>0, <2>1, <2>4, <2>9, <2>11, ParticipantPartsNext DEF DirectoryOK, MethodTypeOK
<1>6. ASSUME CallbackReturns(p)
      PROVE  ParticipantTypeOK' /\ MethodTypeOK' /\ Unmade' /\ ThreadsAt'
  <2>1. /\ Answers(p, TRUE) /\ lis[p].pc = "callback"
        /\ UNCHANGED <<linkVars, directoryVars, proc, app, backlog, methodVars>>
    BY <1>6 DEF CallbackReturns, InCallback
  <2>. DEFINE next == [lis[p] EXCEPT !.pc = "header", !.ok = TRUE, !.nested = NoLink]
  <2>2. lis' = [lis EXCEPT ![p] = next]
    BY <2>1 DEF Answers
  <2>3. next \in Listener /\ next.link = lis[p].link /\ next.pc = "header"
    BY <1>lis DEF Listener, NoLink
  <2>4. lis[p].link # NoLink
    BY <1>0, <2>1 DEF ThreadsOK
  <2>5. backlog' \in [Proc -> Seq(Link)] /\ UNCHANGED <<proc, app>>
    BY <1>0, <2>1 DEF ThreadsOK
  <2>. HIDE DEF next
  <2>6. ThreadsOK'
    BY <1>0, <2>2, <2>3, <2>4, <2>5, ListenerTypes
  <2>7. ThreadsAt'
    BY <1>0, <1>app, <2>1, <2>2, <2>3 DEF ThreadsAt, AppAt, LisAt, ThreadsOK
  <2>. QED
    BY <1>0, <2>1, <2>6, <2>7, ParticipantPartsNext
       DEF LinksTypeOK, DirectoryOK, MethodTypeOK, Unmade, Made
<1>. QED
  BY <1>1, <1>2, <1>3, <1>4, <1>5, <1>6 DEF MethodNext

-------------------------------------------------------------------------------
(* Typing of the event plane.                                              *)

PublisherOK ==
    /\ pub_list \in [Proc -> SUBSET Topic]
    /\ client_map \in [Proc -> [Topic -> [Name -> Link \cup {NoLink}]]]
    /\ walk \in [Proc -> Walk]
    /\ count \in [Proc -> [Topic -> 0..MaxEvents]]

PollOK ==
    /\ sub_list \in [Proc -> [Topic -> Link \cup {NoLink}]]
    /\ new_q \in [Proc -> Seq(Topic)]
    /\ slots \in [Proc -> [Slot -> Link \cup {NoLink}]]
    /\ revents \in [Proc -> [Slot -> BOOLEAN]]
    /\ ew \in [Proc -> Worker]

HeardOK == heard \in [Link -> Seq(Nat)] /\ garbage \in SUBSET Link

(* The type of the event plane, in three parts.                            *)
LEMMA EventParts == EventTypeOK <=> PublisherOK /\ PollOK /\ HeardOK
  BY DEF EventTypeOK, PublisherOK, PollOK, HeardOK

(* The same after a step.                                                  *)
LEMMA EventPartsNext == EventTypeOK' <=> PublisherOK' /\ PollOK' /\ HeardOK'
  BY DEF EventTypeOK, PublisherOK, PollOK, HeardOK

(* The subscriber reads its answer and records the subscription.           *)
LEMMA SubscribingTypes ==
    ASSUME TypeInv, NEW l \in Link, Subscribing(l)
    PROVE  ParticipantTypeOK' /\ EventTypeOK' /\ Unmade' /\ ThreadsAt'
<1>0. /\ LinksTypeOK /\ DirectoryOK /\ ThreadsOK /\ Unmade /\ ThreadsAt
      /\ PublisherOK /\ PollOK /\ HeardOK
  BY ParticipantParts, EventParts DEF TypeInv, TypeOK
<1>1. UNCHANGED <<link, unread, near, far>>
      /\ UNCHANGED <<directoryVars, proc, app, lis, backlog>>
      /\ UNCHANGED <<publisherVars, slots, revents, ew, heard, garbage>>
  BY DEF Subscribing, ReadAnswerHeader, ReadAnswer, ReadMixed, NoAnswer, AnswerLost,
         RecordSubscription, PushSubscription, LinkOnly
<1>2. /\ stage[l] # "unused"
      /\ \E s \in Stage \ {"unused"} : Advance(l, s)
      /\ (down[l] # <<>> /\ Take(l)) \/ UNCHANGED down
  BY DEF Subscribing, ReadAnswerHeader, ReadAnswer, ReadMixed, NoAnswer, AnswerLost,
         RecordSubscription, PushSubscription, SubscribeAt, Stage, InProgress
<1>3. LinksTypeOK' /\ Unmade'
  BY <1>0, <1>1, <1>2, ReadTypes
<1>4. sub_list' \in [Proc -> [Topic -> Link \cup {NoLink}]]
  <2>1. sub_list \in [Proc -> [Topic -> Link \cup {NoLink}]]
    BY <1>0 DEF PollOK
  <2>2. \/ UNCHANGED sub_list
        \/ sub_list' = [sub_list EXCEPT ![link[l].from][link[l].arg] = l]
    BY DEF Subscribing, ReadAnswerHeader, ReadAnswer, ReadMixed, NoAnswer, AnswerLost,
           RecordSubscription, PushSubscription, LinkOnly
  <2>. QED
    BY <2>1, <2>2
<1>5. new_q' \in [Proc -> Seq(Topic)]
  <2>1. new_q \in [Proc -> Seq(Topic)]
    BY <1>0 DEF PollOK
  <2>2. UNCHANGED new_q \/ PushSubscription(l)
    BY DEF Subscribing, ReadAnswerHeader, ReadAnswer, ReadMixed, NoAnswer, AnswerLost,
           RecordSubscription, PushSubscription, LinkOnly
  <2>3. ASSUME PushSubscription(l)
        PROVE  new_q' \in [Proc -> Seq(Topic)]
    <3>1. new_q' = [new_q EXCEPT ![link[l].from] = Append(@, link[l].arg)]
      BY <2>3 DEF PushSubscription
    <3>2. link[l].arg \in Topic
      BY <1>0, <2>3 DEF PushSubscription, SubscribeAt, Unmade, RightArg
    <3>3. \A q \in Proc : Append(new_q[q], link[l].arg) \in Seq(Topic)
      BY <2>1, <3>2, AppendProperties
    <3>. QED
      BY <2>1, <3>1, <3>3
  <2>. QED
    BY <2>1, <2>2, <2>3
<1>. QED
  BY <1>0, <1>1, <1>3, <1>4, <1>5, ParticipantPartsNext, EventPartsNext
     DEF DirectoryOK, ThreadsOK, PublisherOK, PollOK, HeardOK, ThreadsAt, AppAt, LisAt

(* The thread that polls takes chunks from links and touches nothing else  *)
(* that others use.                                                        *)
LEMMA WorkerShares ==
    ASSUME LinksTypeOK, Unmade, NEW p \in Proc, EventWorker(p)
    PROVE  /\ LinksTypeOK' /\ Unmade'
           /\ UNCHANGED <<link, stage, unread, near, far>>
           /\ UNCHANGED <<directoryVars, proc, app, lis, backlog>>
           /\ UNCHANGED <<publisherVars, sub_list>>
<1>1. /\ UNCHANGED <<link, stage, unread, near, far>>
      /\ UNCHANGED <<directoryVars, proc, app, lis, backlog>>
      /\ UNCHANGED <<publisherVars, sub_list>>
      /\ (\E l : down[l] # <<>> /\ Take(l)) \/ UNCHANGED down
  <2>1. CASE DrainNew(p) \/ StartPoll(p) \/ Poll(p) \/ ScanDone(p) \/ RunCallbackShort(p)
    BY <2>1 DEF DrainNew, StartPoll, Poll, ScanDone, RunCallbackShort
  <2>2. CASE \E i \in Slot : ReadHeader(p, i) \/ ReadEof(p, i)
    BY <2>2 DEF ReadHeader, ReadEof
  <2>3. CASE RunCallback(p)
    BY <2>3 DEF RunCallback
  <2>. QED
    BY <2>1, <2>2, <2>3 DEF EventWorker
<1>2. down' \in [Link -> Seq(Chunk)] /\ \A m \in Link : Len(down'[m]) <= Capacity
  BY <1>1, TakeTypes DEF LinksTypeOK
<1>. QED
  BY <1>1, <1>2 DEF LinksTypeOK, Unmade, Made

(* The thread that polls goes on.                                          *)
LEMMA WorkerTypes ==
    ASSUME PollOK, NEW p \in Proc, NEW next \in Worker, ew' = [ew EXCEPT ![p] = next],
           UNCHANGED <<sub_list, new_q>>,
           slots' \in [Proc -> [Slot -> Link \cup {NoLink}]],
           revents' \in [Proc -> [Slot -> BOOLEAN]]
    PROVE  PollOK'
<1>1. ew' \in [Proc -> Worker]
  BY DEF PollOK
<1>. QED
  BY <1>1 DEF PollOK

(* What a slot becomes, and what poll() or the drain says about it.        *)
LEMMA SlotTypes ==
    ASSUME PollOK, NEW p \in Proc
    PROVE  /\ \A S \in [Slot -> Link \cup {NoLink}] :
                 [slots EXCEPT ![p] = S] \in [Proc -> [Slot -> Link \cup {NoLink}]]
           /\ \A S \in [Slot -> BOOLEAN] :
                 [revents EXCEPT ![p] = S] \in [Proc -> [Slot -> BOOLEAN]]
  BY DEF PollOK

(* process_event_message() keeps the types.                                *)
LEMMA EventWorkerTypes ==
    ASSUME TypeInv, NEW p \in Proc, EventWorker(p)
    PROVE  PollOK' /\ HeardOK'
<1>0. LinksTypeOK /\ PollOK /\ HeardOK
  BY ParticipantParts, EventParts DEF TypeInv, TypeOK
<1>1. /\ slots \in [Proc -> [Slot -> Link \cup {NoLink}]]
      /\ revents \in [Proc -> [Slot -> BOOLEAN]]
      /\ ew[p] \in Worker /\ new_q \in [Proc -> Seq(Topic)]
      /\ sub_list \in [Proc -> [Topic -> Link \cup {NoLink}]]
  BY <1>0 DEF PollOK
<1>2. ASSUME DrainNew(p)
      PROVE  PollOK' /\ HeardOK'
  <2>1. /\ new_q[p] # <<>> /\ new_q' = [new_q EXCEPT ![p] = Tail(@)]
        /\ UNCHANGED <<sub_list, ew, heard, garbage>>
    BY <1>2 DEF DrainNew
  <2>2. Head(new_q[p]) \in Topic /\ Tail(new_q[p]) \in Seq(Topic)
    BY <1>1, <2>1, HeadTailProperties
  <2>3. new_q' \in [Proc -> Seq(Topic)]
    BY <1>1, <2>1, <2>2
  <2>. DEFINE S == [i \in Slot |-> IF FirstFree(p, i) THEN sub_list[p][Head(new_q[p])]
                                  ELSE slots[p][i]]
              B == [i \in Slot |-> ~FirstFree(p, i) /\ revents[p][i]]
  <2>4. slots' = [slots EXCEPT ![p] = S] /\ revents' = [revents EXCEPT ![p] = B]
    BY <1>1, <1>2 DEF DrainNew
  <2>5. S \in [Slot -> Link \cup {NoLink}] /\ B \in [Slot -> BOOLEAN]
    BY <1>1, <2>2
  <2>. HIDE DEF S, B
  <2>6. /\ slots' \in [Proc -> [Slot -> Link \cup {NoLink}]]
        /\ revents' \in [Proc -> [Slot -> BOOLEAN]]
    BY <1>0, <2>4, <2>5, SlotTypes
  <2>. QED
    BY <1>0, <2>1, <2>3, <2>6 DEF PollOK, HeardOK
<1>3. ASSUME StartPoll(p)
      PROVE  PollOK' /\ HeardOK'
  <2>1. Cardinality(Subscriptions(p)) \in Nat
    BY EventBounds, FS_Subset, FS_CardinalityType DEF Subscriptions
  <2>. DEFINE next == [ew[p] EXCEPT !.pc = "poll", !.nfds = Cardinality(Subscriptions(p))]
  <2>2. next \in Worker
    BY <1>1, <2>1 DEF Worker
  <2>3. ew' = [ew EXCEPT ![p] = next]
        /\ UNCHANGED <<sub_list, new_q, slots, revents, heard, garbage>>
    BY <1>3 DEF StartPoll
  <2>. HIDE DEF next
  <2>. QED
    BY <1>0, <1>1, <2>2, <2>3, WorkerTypes DEF HeardOK
<1>4. ASSUME Poll(p)
      PROVE  PollOK' /\ HeardOK'
  <2>. DEFINE B == [i \in Slot |-> IF i \in Polled(p) THEN PollIn(p, i) ELSE revents[p][i]]
              next == IF \E i \in Polled(p) : PollIn(p, i)
                      THEN [pc |-> "scan", i |-> 1, nfds |-> 0] ELSE Drain
  <2>1. revents' = [revents EXCEPT ![p] = B] /\ ew' = [ew EXCEPT ![p] = next]
        /\ UNCHANGED <<sub_list, new_q, slots, heard, garbage>>
    BY <1>1, <1>4 DEF Poll
  <2>2. B \in [Slot -> BOOLEAN]
    BY <1>1 DEF PollIn
  <2>3. next \in Worker
    BY DEF Worker, Drain
  <2>. HIDE DEF B, next
  <2>4. revents' \in [Proc -> [Slot -> BOOLEAN]]
    BY <1>0, <2>1, <2>2, SlotTypes
  <2>. QED
    BY <1>0, <1>1, <2>1, <2>3, <2>4, WorkerTypes DEF HeardOK
<1>5. ASSUME ScanDone(p)
      PROVE  PollOK' /\ HeardOK'
  <2>1. ew' = [ew EXCEPT ![p] = Drain] /\ Drain \in Worker
        /\ UNCHANGED <<sub_list, new_q, slots, revents, heard, garbage>>
    BY <1>5 DEF ScanDone, Worker, Drain
  <2>. QED
    BY <1>0, <1>1, <2>1, WorkerTypes DEF HeardOK
<1>6. ASSUME NEW i \in Slot, ReadHeader(p, i)
      PROVE  PollOK' /\ HeardOK'
  <2>. DEFINE next == [ew[p] EXCEPT !.pc = "content", !.i = i]
  <2>0. i \in Nat
    BY EventBounds DEF Slot
  <2>1. next \in Worker
    BY <1>1, <2>0 DEF Worker
  <2>2. ew' = [ew EXCEPT ![p] = next]
        /\ UNCHANGED <<sub_list, new_q, slots, revents, heard, garbage>>
    BY <1>6 DEF ReadHeader
  <2>. HIDE DEF next
  <2>. QED
    BY <1>0, <1>1, <2>1, <2>2, WorkerTypes DEF HeardOK
<1>7. ASSUME NEW i \in Slot, ReadEof(p, i)
      PROVE  PollOK' /\ HeardOK'
  <2>1. slots' = [slots EXCEPT ![p][i] = NoLink]
        /\ ew' = [ew EXCEPT ![p] = [pc |-> "scan", i |-> i + 1, nfds |-> 0]]
        /\ UNCHANGED <<sub_list, new_q, revents, heard, garbage>>
    BY <1>7 DEF ReadEof, NextSlot
  <2>2. slots' \in [Proc -> [Slot -> Link \cup {NoLink}]]
    BY <1>1, <2>1
  <2>3. [pc |-> "scan", i |-> i + 1, nfds |-> 0] \in Worker
    BY EventBounds DEF Worker, Slot
  <2>. QED
    BY <1>0, <1>1, <2>1, <2>2, <2>3, WorkerTypes DEF HeardOK
<1>8. ASSUME RunCallback(p) \/ RunCallbackShort(p)
      PROVE  PollOK' /\ HeardOK'
  <2>. DEFINE l == slots[p][ew[p].i]
              next == [pc |-> "scan", i |-> ew[p].i + 1, nfds |-> 0]
  <2>1. next \in Worker
    BY <1>1 DEF Worker
  <2>2. ew' = [ew EXCEPT ![p] = next] /\ UNCHANGED <<sub_list, new_q, slots, revents>>
    BY <1>8 DEF RunCallback, RunCallbackShort, NextSlot
  <2>. HIDE DEF next
  <2>3. PollOK'
    BY <1>0, <1>1, <2>1, <2>2, WorkerTypes
  <2>4. CASE RunCallback(p)
    <3>1. down[l] # <<>> /\ Take(l) /\ UNCHANGED garbage
          /\ heard' = [heard EXCEPT ![l] =
                        IF HasCallback(p, l) THEN Append(@, Head(down[l]).n) ELSE @]
      BY <2>4 DEF RunCallback
    <3>2. l \in Link => Head(down[l]).n \in Nat
      BY <1>0, <3>1, TakeTypes DEF Chunk
    <3>3. l \in Link => Append(heard[l], Head(down[l]).n) \in Seq(Nat)
      BY <1>0, <3>2, AppendProperties DEF HeardOK
    <3>4. heard' \in [Link -> Seq(Nat)]
      BY <1>0, <3>1, <3>3 DEF HeardOK
    <3>. QED
      BY <1>0, <2>3, <3>1, <3>4 DEF HeardOK
  <2>5. CASE RunCallbackShort(p)
    <3>1. garbage' = garbage \cup {m \in {l} : HasCallback(p, m)} /\ UNCHANGED heard
      BY <2>5 DEF RunCallbackShort
    <3>2. HasCallback(p, l) => l \in Link
      BY <1>1 DEF HasCallback, Subscriptions
    <3>. QED
      BY <1>0, <2>3, <3>1, <3>2 DEF HeardOK
  <2>. QED
    BY <1>8, <2>4, <2>5
<1>. QED
  BY <1>2, <1>3, <1>4, <1>5, <1>6, <1>7, <1>8 DEF EventWorker

-------------------------------------------------------------------------------
(* The publisher: the walk of its application's thread.                    *)

(* The loop of publish_event() goes on.                                    *)
LEMMA WalkTypes ==
    ASSUME PublisherOK, NEW p \in Proc, NEW next \in Walk,
           walk' = [walk EXCEPT ![p] = next], UNCHANGED <<pub_list, client_map, count>>
    PROVE  PublisherOK'
<1>1. walk' \in [Proc -> Walk]
  BY DEF PublisherOK
<1>. QED
  BY <1>1 DEF PublisherOK

(* A write of an event.                                                    *)
LEMMA EventWriteTypes ==
    ASSUME TypeInv, NEW p \in Proc, (\E n \in Name : EventHeader(p, n)) \/ EventBody(p)
    PROVE  LinksTypeOK' /\ PublisherOK'
<1>0. LinksTypeOK /\ PublisherOK /\ ThreadsAt
  BY ParticipantParts, EventParts DEF TypeInv, TypeOK
<1>1. UNCHANGED <<link, stage, unread, far, pub_list, client_map, count>>
  BY DEF EventHeader, EventBody
<1>2. walk[p] \in Walk
  BY <1>0 DEF PublisherOK
<1>3. \E l, chunk : chunk \in Chunk /\ Write(l, chunk)
  <2>1. CASE \E n \in Name : EventHeader(p, n)
    BY <2>1, Chunks DEF EventHeader
  <2>2. CASE EventBody(p)
    <3>1. app[p].arg \in Topic
      BY <1>0, <2>2 DEF EventBody, Walking, ThreadsAt, AppAt
    <3>2. count[p][app[p].arg] \in Nat
      BY <1>0, <3>1, EventBounds DEF PublisherOK
    <3>. QED
      BY <2>2, <3>2, Chunks DEF EventBody
  <2>. QED
    BY <2>1, <2>2
<1>4. LinksTypeOK'
  BY <1>0, <1>1, <1>3, WriteTypes DEF LinksTypeOK
<1>5. \E next \in Walk : walk' = [walk EXCEPT ![p] = next]
  <2>1. ASSUME NEW n \in Name, EventHeader(p, n)
        PROVE  \E next \in Walk : walk' = [walk EXCEPT ![p] = next]
    <3>. DEFINE l == client_map[p][app[p].arg][n]
                next == [left |-> walk[p].left \ {n}, at |-> IF Succeeds(l) THEN n ELSE None,
                         dead |-> DeadAfter(p, l, n)]
    <3>1. next \in Walk
      BY <1>2 DEF Walk, DeadAfter
    <3>2. walk' = [walk EXCEPT ![p] = next]
      BY <1>0, <2>1 DEF EventHeader, PublisherOK
    <3>. QED
      BY <3>1, <3>2
  <2>2. ASSUME EventBody(p)
        PROVE  \E next \in Walk : walk' = [walk EXCEPT ![p] = next]
    <3>. DEFINE n == walk[p].at
                l == client_map[p][app[p].arg][n]
                next == [left |-> walk[p].left, at |-> None, dead |-> DeadAfter(p, l, n)]
    <3>1. n \in Name
      BY <1>2, <2>2 DEF Walk, EventBody
    <3>2. next \in Walk
      BY <1>2, <3>1 DEF Walk, DeadAfter
    <3>3. walk' = [walk EXCEPT ![p] = next]
      BY <1>0, <2>2 DEF EventBody, PublisherOK
    <3>. QED
      BY <3>2, <3>3
  <2>. QED
    BY <2>1, <2>2
<1>6. PublisherOK'
  BY <1>0, <1>1, <1>5, WalkTypes
<1>. QED
  BY <1>4, <1>6

(* What the application's thread does for its topics.                      *)
LEMMA PublishingTypes ==
    ASSUME TypeInv, NEW p \in Proc, UNCHANGED methodVars,
           \/ \E t \in Topic : Advertise(p, t) \/ Publish(p, t)
           \/ Publishing(p)
    PROVE  ParticipantTypeOK' /\ EventTypeOK' /\ Unmade' /\ ThreadsAt'
<1>0. /\ LinksTypeOK /\ DirectoryOK /\ ThreadsOK /\ Unmade /\ ThreadsAt
      /\ PublisherOK /\ PollOK /\ HeardOK
  BY ParticipantParts, EventParts DEF TypeInv, TypeOK
<1>1. /\ UNCHANGED <<link, stage, unread, far, proc, lis, backlog>>
      /\ UNCHANGED <<pollVars, heard, garbage>>
  BY DEF Advertise, Publish, Publishing, Advertised, EventHeader, EventBody, WalkEnds,
         EraseDead
<1>2. app \in [Proc -> Activity] /\ walk \in [Proc -> Walk]
      /\ pub_list \in [Proc -> SUBSET Topic]
      /\ client_map \in [Proc -> [Topic -> [Name -> Link \cup {NoLink}]]]
      /\ count \in [Proc -> [Topic -> 0..MaxEvents]]
  BY <1>0 DEF ThreadsOK, PublisherOK
<1>3. Unmade' /\ PollOK' /\ HeardOK'
  BY <1>0, <1>1 DEF Unmade, Made, PollOK, HeardOK
<1>. SUFFICES LinksTypeOK' /\ DirectoryOK' /\ ThreadsOK' /\ PublisherOK' /\ ThreadsAt'
  BY <1>3, ParticipantPartsNext, EventPartsNext
<1>4. ASSUME NEW t \in Topic, Advertise(p, t)
      PROVE  LinksTypeOK' /\ DirectoryOK' /\ ThreadsOK' /\ PublisherOK' /\ ThreadsAt'
  <2>. DEFINE next == [op |-> "advertise", arg |-> t]
  <2>1. app' = [app EXCEPT ![p] = next] /\ UNCHANGED <<linkVars, publisherVars>>
    BY <1>4 DEF Advertise
  <2>2. next \in Activity
    BY DEF Activity
  <2>3. DirectoryOK'
    BY <1>0, <1>4, DirectoryTypes DEF Advertise
  <2>4. ThreadsAt'
    BY <1>0, <1>1, <1>2, <2>1 DEF ThreadsAt, AppAt, LisAt
  <2>. HIDE DEF next
  <2>5. ThreadsOK'
    BY <1>0, <1>1, <2>1, <2>2, ActivityTypes
  <2>. QED
    BY <1>0, <2>1, <2>3, <2>4, <2>5 DEF LinksTypeOK, PublisherOK
<1>5. ASSUME NEW t \in Topic, Publish(p, t)
      PROVE  LinksTypeOK' /\ DirectoryOK' /\ ThreadsOK' /\ PublisherOK' /\ ThreadsAt'
  <2>1. /\ count' = [count EXCEPT ![p][t] = @ + 1] /\ count[p][t] < MaxEvents
        /\ UNCHANGED <<linkVars, directoryVars, pub_list, client_map>>
    BY <1>5 DEF Publish
  <2>2. count' \in [Proc -> [Topic -> 0..MaxEvents]]
        /\ \A q \in Proc, s \in Topic : count'[q][s] >= count[q][s]
        /\ count'[p][t] > 0
    <3>1. count[p][t] \in 0..MaxEvents /\ count[p][t] + 1 \in 0..MaxEvents
      BY <1>2, <2>1, EventBounds
    <3>2. \A q \in Proc, s \in Topic :
             count'[q][s] = IF q = p /\ s = t THEN count[q][s] + 1 ELSE count[q][s]
      BY <1>2, <2>1
    <3>3. count' \in [Proc -> [Topic -> 0..MaxEvents]]
      BY <1>2, <2>1, <3>1
    <3>4. \A q \in Proc, s \in Topic : count[q][s] \in Int
      BY <1>2, EventBounds
    <3>. QED
      BY <3>1, <3>2, <3>3, <3>4
  <2>3. CASE UNCHANGED <<app, walk>>
    <3>1. ThreadsAt'
      BY <1>0, <1>1, <1>2, <2>2, <2>3, EventBounds DEF ThreadsAt, AppAt, LisAt
    <3>. QED
      BY <1>0, <1>1, <2>1, <2>2, <2>3, <3>1
         DEF LinksTypeOK, PublisherOK, DirectoryOK, ThreadsOK
  <2>4. CASE /\ app' = [app EXCEPT ![p] = [op |-> "walk", arg |-> t]]
             /\ walk' = [walk EXCEPT ![p] = [NoWalk EXCEPT !.left = Subscribers(p, t)]]
    <3>1. [op |-> "walk", arg |-> t] \in Activity
      BY DEF Activity
    <3>2. [NoWalk EXCEPT !.left = Subscribers(p, t)] \in Walk
      BY DEF NoWalk, Walk, Subscribers
    <3>3. walk' \in [Proc -> Walk]
      BY <1>2, <2>4, <3>2
    <3>4. ThreadsOK'
      BY <1>0, <1>1, <2>4, <3>1, ActivityTypes
    <3>5. ThreadsAt'
      BY <1>0, <1>1, <1>2, <2>2, <2>4, EventBounds DEF ThreadsAt, AppAt, LisAt
    <3>. QED
      BY <1>0, <2>1, <2>2, <3>3, <3>4, <3>5 DEF LinksTypeOK, PublisherOK, DirectoryOK
  <2>. QED
    BY <1>5, <2>3, <2>4 DEF Publish
<1>6. ASSUME Advertised(p) \/ EraseDead(p) \/ WalkEnds(p)
      PROVE  LinksTypeOK' /\ DirectoryOK' /\ ThreadsOK' /\ PublisherOK' /\ ThreadsAt'
  <2>1. UNCHANGED <<linkVars, directoryVars, count>>
    BY <1>6 DEF Advertised, EraseDead, WalkEnds
  <2>2. app[p] \in Activity /\ AtRest \in Activity
    BY <1>2 DEF AtRest, Activity
  <2>. DEFINE next == IF walk[p].dead # {} /\ WalkEnds(p) THEN [app[p] EXCEPT !.op = "erase"]
                      ELSE AtRest
  <2>3. next \in Activity
    BY <2>2 DEF Activity
  <2>4. app' = [app EXCEPT ![p] = next]
    BY <1>6 DEF Advertised, EraseDead, WalkEnds
  <2>5. ThreadsAt'
    <3>1. next.op = "idle" \/ (next.op = "erase" /\ next.arg \in Topic)
      BY <1>0, <2>2 DEF ThreadsAt, AppAt, WalkEnds, Walking, AtRest, Activity
    <3>. HIDE DEF next
    <3>2. \A q \in Proc : app'[q] = IF q = p THEN next ELSE app[q]
      BY <1>2, <2>4
    <3>3. \A q \in Proc : AppAt(q)'
      BY <1>0, <2>1, <3>1, <3>2 DEF ThreadsAt, AppAt
    <3>. QED
      BY <1>0, <1>1, <3>3 DEF ThreadsAt, LisAt
  <2>. HIDE DEF next
  <2>6. ThreadsOK'
    BY <1>0, <1>1, <2>3, <2>4, ActivityTypes
  <2>7. PublisherOK'
    <3>1. CASE Advertised(p)
      <4>1. /\ pub_list' = [pub_list EXCEPT ![p] = @ \cup {app[p].arg}]
            /\ client_map' = [client_map EXCEPT ![p][app[p].arg] = Unlisted]
            /\ UNCHANGED walk
        BY <3>1 DEF Advertised
      <4>2. app[p].arg \in Topic /\ Unlisted \in [Name -> Link \cup {NoLink}]
        BY <1>0, <3>1 DEF Advertised, ThreadsAt, AppAt, Unlisted
      <4>3. pub_list' \in [Proc -> SUBSET Topic]
        BY <1>2, <4>1, <4>2
      <4>4. client_map' \in [Proc -> [Topic -> [Name -> Link \cup {NoLink}]]]
        BY <1>2, <4>1, <4>2
      <4>. QED
        BY <1>0, <2>1, <4>1, <4>3, <4>4 DEF PublisherOK
    <3>2. CASE EraseDead(p)
      <4>. DEFINE t == app[p].arg
                  M == [n \in Name |-> IF n \in walk[p].dead THEN NoLink ELSE client_map[p][t][n]]
      <4>1. t \in Topic
        BY <1>0, <3>2 DEF EraseDead, ThreadsAt, AppAt
      <4>2. M \in [Name -> Link \cup {NoLink}]
        BY <1>2, <4>1
      <4>3. client_map' = [client_map EXCEPT ![p][t] = M]
        BY <1>2, <3>2, <4>1 DEF EraseDead
      <4>. HIDE DEF M
      <4>4. client_map' \in [Proc -> [Topic -> [Name -> Link \cup {NoLink}]]]
        BY <1>2, <4>1, <4>2, <4>3
      <4>5. walk' \in [Proc -> Walk]
        BY <1>2, <3>2 DEF EraseDead, NoWalk, Walk
      <4>. QED
        BY <1>0, <2>1, <3>2, <4>4, <4>5 DEF PublisherOK, EraseDead
    <3>3. CASE WalkEnds(p)
      BY <1>0, <3>3 DEF WalkEnds, PublisherOK
    <3>. QED
      BY <1>6, <3>1, <3>2, <3>3
  <2>. QED
    BY <1>0, <2>1, <2>5, <2>6, <2>7 DEF LinksTypeOK, DirectoryOK
<1>7. ASSUME (\E n \in Name : EventHeader(p, n)) \/ EventBody(p)
      PROVE  LinksTypeOK' /\ DirectoryOK' /\ ThreadsOK' /\ PublisherOK' /\ ThreadsAt'
  <2>1. UNCHANGED <<directoryVars, app, count>>
    BY <1>7 DEF EventHeader, EventBody
  <2>2. LinksTypeOK' /\ PublisherOK'
    BY <1>7, EventWriteTypes
  <2>. QED
    BY <1>0, <1>1, <2>1, <2>2 DEF DirectoryOK, ThreadsOK, ThreadsAt, AppAt, LisAt
<1>. QED
  BY <1>4, <1>5, <1>6, <1>7 DEF Publishing

-------------------------------------------------------------------------------
(* Subscriptions: the call, and the listening thread that serves it.       *)

(* A subscription is asked for.                                            *)
LEMMA SubscribeTypes ==
    ASSUME TypeInv, NEW p \in Proc, NEW t \in Topic, Subscribe(p, t)
    PROVE  ParticipantTypeOK' /\ EventTypeOK' /\ Unmade' /\ ThreadsAt'
<1>0. /\ LinksTypeOK /\ DirectoryOK /\ ThreadsOK /\ Unmade /\ ThreadsAt
      /\ PublisherOK /\ PollOK /\ HeardOK
  BY ParticipantParts, EventParts DEF TypeInv, TypeOK
<1>1. Ask(p, "app", "SUBSCRIBE", t, publisher[t])
      /\ UNCHANGED <<directoryVars, proc, app, lis, backlog, eventVars>>
  BY DEF Subscribe
<1>2. publisher[t] \in Proc \cup {None}
  BY <1>0 DEF DirectoryOK
<1>3. /\ LinksTypeOK' /\ Unmade'
      /\ \A l \in Link : link[l] = NoInfo \/ link'[l] = link[l]
  BY <1>0, <1>1, <1>2, AskTypes DEF RightArg
<1>4. ThreadsAt'
  BY <1>0, <1>1, <1>3, SameCallbacks
<1>. QED
  BY <1>0, <1>1, <1>3, <1>4, ParticipantPartsNext, EventPartsNext
     DEF DirectoryOK, ThreadsOK, PublisherOK, PollOK, HeardOK

(* The client of a request for a topic has a name.                         *)
LEMMA ClientNamed ==
    ASSUME LinksTypeOK, Unmade, NEW l \in Link, link[l].arg \in Topic
    PROVE  link[l].from \in Proc /\ NameOf[link[l].from] \in Name
<1>1. stage[l] # "unused"
  BY LinkConstants DEF Unmade, NoInfo
<1>. QED
  BY <1>1, ParticipantConstants DEF LinksTypeOK

(* A subscriber is entered; the event before its first is a number.        *)
LEMMA EnlistTypes ==
    ASSUME PublisherOK, HeardOK, ThreadsAt, NEW p \in Proc, NEW t \in Topic,
           NEW n \in Name, NEW l \in Link, Enlist(p, t, n, l),
           UNCHANGED <<pub_list, count, garbage>>
    PROVE  PublisherOK' /\ HeardOK'
<1>1. /\ client_map \in [Proc -> [Topic -> [Name -> Link \cup {NoLink}]]]
      /\ walk \in [Proc -> Walk] /\ count[p][t] \in Nat
      /\ heard \in [Link -> Seq(Nat)]
  BY EventBounds DEF PublisherOK, HeardOK
<1>2. client_map' \in [Proc -> [Topic -> [Name -> Link \cup {NoLink}]]]
  <2>1. client_map' = [client_map EXCEPT ![p][t] = [@ EXCEPT ![n] = l]]
        \/ UNCHANGED client_map
    BY DEF Enlist
  <2>2. [client_map[p][t] EXCEPT ![n] = l] \in [Name -> Link \cup {NoLink}]
    BY <1>1
  <2>. DEFINE M == [client_map[p][t] EXCEPT ![n] = l]
              R == [client_map[p] EXCEPT ![t] = M]
  <2>3. UNCHANGED client_map \/ client_map' = [client_map EXCEPT ![p] = R]
    BY <2>1
  <2>. HIDE DEF M
  <2>4. R \in [Topic -> [Name -> Link \cup {NoLink}]]
    BY <1>1, <2>2 DEF M
  <2>. HIDE DEF R
  <2>. QED
    BY <1>1, <2>3, <2>4
<1>3. heard' \in [Link -> Seq(Nat)]
  <2>1. \/ heard' = [heard EXCEPT ![l] = <<count[p][t]>>]
        \/ UNCHANGED heard
        \/ app[p] = [op |-> "walk", arg |-> t] /\ heard' = [heard EXCEPT ![l] = <<count[p][t] - 1>>]
    BY DEF Enlist
  <2>2. app[p] = [op |-> "walk", arg |-> t] => count[p][t] - 1 \in Nat
    BY <1>1 DEF ThreadsAt, AppAt
  <2>3. \A k \in Nat : <<k>> \in Seq(Nat)
    OBVIOUS
  <2>. QED
    BY <1>1, <2>1, <2>2, <2>3
<1>4. walk' \in [Proc -> Walk]
  <2>1. UNCHANGED walk \/ walk' = [walk EXCEPT ![p].left = @ \cup {n}]
    BY DEF Enlist
  <2>2. [walk[p] EXCEPT !.left = @ \cup {n}] \in Walk
    BY <1>1 DEF Walk
  <2>. QED
    BY <1>1, <2>1, <2>2
<1>. QED
  BY <1>2, <1>3, <1>4 DEF PublisherOK, HeardOK

(* The listening thread serves a subscription.                             *)
LEMMA ServeSubscribeTypes ==
    ASSUME TypeInv, NEW p \in Proc, ServeSubscribe(p)
    PROVE  ParticipantTypeOK' /\ EventTypeOK' /\ Unmade' /\ ThreadsAt'
<1>0. /\ LinksTypeOK /\ DirectoryOK /\ ThreadsOK /\ Unmade /\ ThreadsAt
      /\ PublisherOK /\ PollOK /\ HeardOK
  BY ParticipantParts, EventParts DEF TypeInv, TypeOK
<1>. DEFINE l == lis[p].link
            t == link[l].arg
            n == NameOf[link[l].from]
<1>1. /\ Reads(p, "SUBSCRIBE") /\ lis[p].pc = "read"
      /\ UNCHANGED <<directoryVars, proc, app, backlog, pub_list, count>>
      /\ UNCHANGED <<pollVars, garbage, link>>
  BY DEF ServeSubscribe, Reads
<1>2. LinksTypeOK' /\ Unmade'
  BY <1>0, <1>1, ReadsTypes
<1>3. lis[p] \in Listener /\ l # NoLink /\ l \in Link
  BY <1>0, <1>1 DEF ThreadsOK, Listener
<1>4. PICK ok \in BOOLEAN : Answers(p, ok)
  BY DEF ServeSubscribe
<1>. DEFINE next == [lis[p] EXCEPT !.pc = "header", !.ok = ok, !.nested = NoLink]
<1>5. next \in Listener /\ next.link = l /\ next.pc = "header"
  BY <1>3 DEF Listener, NoLink
<1>6. lis' = [lis EXCEPT ![p] = next]
  BY <1>4 DEF Answers
<1>. HIDE DEF next
<1>7. backlog' \in [Proc -> Seq(Link)] /\ UNCHANGED <<proc, app>>
  BY <1>0, <1>1 DEF ThreadsOK
<1>8. ThreadsOK'
  BY <1>0, <1>3, <1>5, <1>6, <1>7, ListenerTypes
<1>9. ThreadsAt'
  BY <1>0, <1>1, <1>5, <1>6 DEF ThreadsAt, AppAt, LisAt, ThreadsOK
<1>10. PublisherOK' /\ HeardOK'
  <2>1. CASE t \in pub_list[p] /\ Enlist(p, t, n, l)
    <3>1. t \in Topic
      BY <1>0, <2>1 DEF PublisherOK
    <3>2. n \in Name
      BY <1>0, <1>3, <3>1, ClientNamed
    <3>. QED
      BY <1>0, <1>1, <1>3, <2>1, <3>1, <3>2, EnlistTypes
  <2>2. CASE UNCHANGED <<client_map, heard, walk>>
    BY <1>0, <1>1, <2>2 DEF PublisherOK, HeardOK
  <2>. QED
    BY <2>1, <2>2 DEF ServeSubscribe
<1>. QED
  BY <1>0, <1>1, <1>2, <1>8, <1>9, <1>10, ParticipantPartsNext, EventPartsNext
     DEF DirectoryOK, PollOK

-------------------------------------------------------------------------------
(* The end of a process, and all together.                                 *)

(* A process ends.                                                         *)
LEMMA EndsTypes ==
    ASSUME TypeInv, NEW p \in Proc, End(p)
    PROVE  TypeInv'
<1>0. /\ LinksTypeOK /\ DirectoryOK /\ ThreadsOK /\ Unmade /\ ThreadsAt
      /\ PublisherOK /\ PollOK /\ HeardOK /\ MethodTypeOK
  BY ParticipantParts, EventParts DEF TypeInv, TypeOK
<1>1. LinksTypeOK' /\ Unmade'
  BY <1>0, EndTypes DEF End, EndParticipant
<1>2. UNCHANGED <<directoryVars, link, count>>
  BY DEF End, EndParticipant, EndLinks, EndEvents
<1>3. ThreadsOK'
  <2>1. [Free EXCEPT !.pc = "starting"] \in Listener
        /\ [Free EXCEPT !.pc = "starting"].pc = "starting" /\ AtRest \in Activity
    BY DEF Free, Listener, AtRest, Activity, NoLink
  <2>2. /\ proc' = [proc EXCEPT ![p] = "ended"] /\ app' = [app EXCEPT ![p] = AtRest]
        /\ lis' = [lis EXCEPT ![p] = [Free EXCEPT !.pc = "starting"]]
        /\ backlog' = [backlog EXCEPT ![p] = <<>>]
    BY DEF End, EndParticipant
  <2>3. proc' \in [Proc -> {"absent", "up", "ended"}] /\ app' \in [Proc -> Activity]
    BY <1>0, <2>1, <2>2 DEF ThreadsOK
  <2>4. backlog' \in [Proc -> Seq(Link)]
    BY <1>0, <2>2, EmptySeq DEF ThreadsOK
  <2>5. lis' \in [Proc -> Listener]
        /\ \A q \in Proc : lis'[q].pc \notin {"starting", "accept"} => lis'[q].link # NoLink
    BY <1>0, <2>1, <2>2 DEF ThreadsOK
  <2>. QED
    BY <2>3, <2>4, <2>5 DEF ThreadsOK
<1>4. ThreadsAt'
  <2>1. /\ app' = [app EXCEPT ![p] = AtRest]
        /\ lis' = [lis EXCEPT ![p] = [Free EXCEPT !.pc = "starting"]]
    BY DEF End, EndParticipant
  <2>. QED
    BY <1>0, <1>2, <2>1 DEF ThreadsOK, ThreadsAt, AppAt, LisAt, AtRest, Free
<1>5. PublisherOK'
  BY <1>0, <1>2 DEF End, EndEvents, PublisherOK, Unlisted, NoWalk, Walk
<1>6. PollOK'
  <2>1. /\ [t \in Topic |-> NoLink] \in [Topic -> Link \cup {NoLink}]
        /\ [i \in Slot |-> NoLink] \in [Slot -> Link \cup {NoLink}]
        /\ [i \in Slot |-> FALSE] \in [Slot -> BOOLEAN]
        /\ Drain \in Worker /\ <<>> \in Seq(Topic)
    BY DEF Drain, Worker
  <2>2. /\ sub_list' = [sub_list EXCEPT ![p] = [t \in Topic |-> NoLink]]
        /\ new_q' = [new_q EXCEPT ![p] = <<>>]
        /\ slots' = [slots EXCEPT ![p] = [i \in Slot |-> NoLink]]
        /\ revents' = [revents EXCEPT ![p] = [i \in Slot |-> FALSE]]
        /\ ew' = [ew EXCEPT ![p] = Drain]
    BY DEF End, EndEvents
  <2>. QED
    BY <1>0, <2>1, <2>2 DEF PollOK
<1>7. HeardOK' /\ MethodTypeOK'
  BY <1>0 DEF End, EndEvents, EndMethods, HeardOK, MethodTypeOK
<1>. QED
  BY <1>0, <1>1, <1>2, <1>3, <1>4, <1>5, <1>6, <1>7, ParticipantPartsNext, EventPartsNext
     DEF TypeInv, TypeOK, DirectoryOK

(* All steps of the event plane.                                           *)
LEMMA EventsTypes ==
    ASSUME TypeInv, Events, UNCHANGED methodVars
    PROVE  TypeInv'
<1>1. ParticipantTypeOK' /\ EventTypeOK' /\ Unmade' /\ ThreadsAt'
  <2>1. ASSUME NEW p \in Proc, EventWorker(p)
        PROVE  ParticipantTypeOK' /\ EventTypeOK' /\ Unmade' /\ ThreadsAt'
    <3>0. /\ LinksTypeOK /\ DirectoryOK /\ ThreadsOK /\ Unmade /\ ThreadsAt /\ PublisherOK
      BY ParticipantParts, EventParts DEF TypeInv, TypeOK
    <3>1. PollOK' /\ HeardOK'
      BY <2>1, EventWorkerTypes
    <3>2. /\ LinksTypeOK' /\ Unmade' /\ UNCHANGED link
          /\ UNCHANGED <<directoryVars, proc, app, lis, backlog>>
          /\ UNCHANGED <<publisherVars, sub_list>>
      BY <2>1, <3>0, WorkerShares
    <3>. QED
      BY <3>0, <3>1, <3>2, ParticipantPartsNext, EventPartsNext
         DEF DirectoryOK, ThreadsOK, PublisherOK, ThreadsAt, AppAt, LisAt
  <2>2. ASSUME NEW p \in Proc, EventNext(p)
        PROVE  ParticipantTypeOK' /\ EventTypeOK' /\ Unmade' /\ ThreadsAt'
    BY <2>1, <2>2, PublishingTypes, SubscribeTypes, ServeSubscribeTypes DEF EventNext
  <2>. QED
    BY <2>2, SubscribingTypes DEF Events
<1>. QED
  BY <1>1 DEF TypeInv, TypeOK, MethodTypeOK

(* All steps of method calls.                                              *)
LEMMA MethodsTypes ==
    ASSUME TypeInv, Methods, UNCHANGED eventVars
    PROVE  TypeInv'
<1>1. EventTypeOK'
  BY DEF TypeInv, TypeOK, EventTypeOK
<1>2. ASSUME NEW l \in Link, Calling(l)
      PROVE  ParticipantTypeOK' /\ MethodTypeOK' /\ Unmade' /\ ThreadsAt'
  <2>1. ParticipantTypeOK' /\ Unmade'
    BY <1>2, CallingTypes DEF TypeInv, TypeOK
  <2>2. UNCHANGED <<link, app, lis, methodVars>>
    BY <1>2 DEF Calling, ReadResponseHeader, ReadResponse, ResponseLost, CallReads
  <2>. QED
    BY <2>1, <2>2 DEF TypeInv, TypeOK, MethodTypeOK, ThreadsAt, AppAt, LisAt
<1>3. ParticipantTypeOK' /\ MethodTypeOK' /\ Unmade' /\ ThreadsAt'
  BY <1>2, MethodStepTypes DEF Methods
<1>. QED
  BY <1>1, <1>3 DEF TypeInv, TypeOK

(* Nothing happens.                                                        *)
LEMMA StutterTypes ==
    ASSUME TypeInv, UNCHANGED vars
    PROVE  TypeInv'
<1>1. UNCHANGED participantVars /\ UNCHANGED eventVars /\ UNCHANGED methodVars
  BY DEF vars
<1>2. ParticipantTypeOK'
  BY <1>1 DEF TypeInv, TypeOK, ParticipantTypeOK, LinksTypeOK
<1>3. EventTypeOK' /\ MethodTypeOK'
  BY <1>1 DEF TypeInv, TypeOK, EventTypeOK, MethodTypeOK
<1>4. Unmade' /\ ThreadsAt'
  BY <1>1 DEF TypeInv, Unmade, Made, ThreadsAt, AppAt, LisAt
<1>. QED
  BY <1>2, <1>3, <1>4 DEF TypeInv, TypeOK

(* The participants start typed.                                           *)
LEMMA InitTypes == Init => TypeInv
<1>. SUFFICES ASSUME Init PROVE TypeInv
  OBVIOUS
<1>1. LinksTypeOK
  BY LinkConstants, EmptySeq
     DEF Init, ParticipantInit, LinksInit, LinksTypeOK, LinkInfo, NoInfo, Stage
<1>2. DirectoryOK
  BY DEF Init, ParticipantInit, Master!Init, DirectoryOK
<1>3. ThreadsOK
  BY EmptySeq DEF Init, ParticipantInit, ThreadsOK, AtRest, Activity, Free, Listener, NoLink
<1>4. PublisherOK
  BY EventBounds DEF Init, EventInit, PublisherOK, Unlisted, NoWalk, Walk
<1>5. PollOK
  BY EmptySeq DEF Init, EventInit, PollOK, Drain, Worker
<1>6. HeardOK /\ MethodTypeOK
  BY EmptySeq DEF Init, EventInit, HeardOK, MethodInit, MethodTypeOK
<1>7. Unmade
  <2>1. Made = 1..0 /\ 0 \in 0..MaxLinks
    BY LinkConstants DEF Init, ParticipantInit, LinksInit, Made
  <2>. QED
    BY <2>1 DEF Init, ParticipantInit, LinksInit, Unmade
<1>8. ThreadsAt
  BY DEF Init, ParticipantInit, ThreadsAt, AppAt, LisAt, AtRest, Free
<1>. QED
  BY <1>1, <1>2, <1>3, <1>4, <1>5, <1>6, <1>7, <1>8, ParticipantParts, EventParts
     DEF TypeInv, TypeOK

(* TypeInv is inductive.                                                   *)
LEMMA TypeInvariant == Spec => []TypeInv
<1>1. ASSUME TypeInv, [Next]_vars
      PROVE  TypeInv'
  BY <1>1, SharedTypes, EventsTypes, MethodsTypes, EndsTypes, StutterTypes DEF Next
<1>. QED
  BY <1>1, InitTypes, PTL DEF Spec

(* Every variable stays within its type, whoever comes and goes.           *)
THEOREM ParticipantsTyped == Spec => []TypeOK
<1>1. TypeInv => TypeOK
  BY DEF TypeInv
<1>. QED
  BY <1>1, TypeInvariant, PTL
===============================================================================
