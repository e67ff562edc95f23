---------------------------- MODULE RegistryProofs ----------------------------
(***************************************************************************)
(* The registry of the master, for any number of names, sockets, topics    *)
(* and methods: typing, the inductive invariant that keeps its four tables *)
(* in step, and the directory it implements.                               *)
(***************************************************************************)
EXTENDS ControlPlane, TLAPS, SequenceTheorems, FiniteSetTheorems

(* The groups of variables, which every UNCHANGED is made of.              *)
USE DEF socketVars, infoVars, ownerVars, registryVars, pollVars, workerVars,
        acceptVars, callVars

-------------------------------------------------------------------------------
(* Typing.                                                                 *)

(* The names a tick queues are names, in some order.                       *)
LEMMA SilentQueue ==
    ASSUME NEW order \in SetToSeqs(Silent)
    PROVE  order \in Seq(Name)
<1>1. Silent \subseteq Name
  BY DEF Silent, Participants
<1>2. Cardinality(Silent) \in Nat
  BY <1>1, FiniteConstants, FS_Subset, FS_CardinalityType
<1>3. order \in [1..Cardinality(Silent) -> Silent]
  BY DEF SetToSeqs
<1>4. order \in Seq(Silent)
  BY <1>2, <1>3
<1>. QED
  BY <1>1, <1>4, SeqMonotonic

(* Reading and writing chunks keeps the streams sequences of chunks.       *)
LEMMA StreamTypes ==
    ASSUME SocketsTypeOK, NEW c
    PROVE  /\ stream[c] # <<>> /\ Consume(c) => stream' \in [Conn -> Seq(Chunk)]
           /\ \A k \in Chunk : Write(c, k) => stream' \in [Conn -> Seq(Chunk)]
           /\ \A arg : Joining(arg) => stream' \in [Conn -> Seq(Chunk)]
<1>1. ASSUME stream[c] # <<>>, Consume(c)
      PROVE  stream' \in [Conn -> Seq(Chunk)]
  <2>1. c \in Conn => Tail(stream[c]) \in Seq(Chunk)
    BY <1>1, HeadTailProperties DEF SocketsTypeOK
  <2>. QED
    BY <1>1, <2>1 DEF SocketsTypeOK, Consume
<1>2. ASSUME NEW k \in Chunk, Write(c, k)
      PROVE  stream' \in [Conn -> Seq(Chunk)]
  <2>1. c \in Conn => Append(stream[c], k) \in Seq(Chunk)
    BY AppendProperties DEF SocketsTypeOK
  <2>. QED
    BY <1>2, <2>1 DEF SocketsTypeOK, Write
<1>3. ASSUME NEW arg, Joining(arg)
      PROVE  stream' \in [Conn -> Seq(Chunk)]
  <2>1. SUFFICES ASSUME a_conn \in Conn
                 PROVE  SubSeq(stream[a_conn], 3, Len(stream[a_conn])) \in Seq(Chunk)
    BY <1>3 DEF SocketsTypeOK, Joining
  <2>2. stream[a_conn] \in Seq(Chunk) /\ Len(stream[a_conn]) \in Int
    BY <2>1, LenProperties DEF SocketsTypeOK
  <2>3. \A i \in 3..Len(stream[a_conn]) : stream[a_conn][i] \in Chunk
    BY <2>2, ElementOfSeq
  <2>. QED
    BY <2>2, <2>3, SubSeqProperties
<1>. QED
  BY <1>1, <1>2, <1>3

(* A reply leaves the sockets and the status in their types, whether it    *)
(* is delivered or meets a participant that has ended.                     *)
LEMMA SendTypes ==
    ASSUME TypeOK, NEW c, NEW r \in Reply, Send(c, r)
    PROVE  /\ status' \in {"running"} \cup Cause
           /\ peer' \in [Conn -> PeerState]
           /\ replies' \in [Conn -> Seq(Reply)]
<1>1. c \in Conn => Append(replies[c], r) \in Seq(Reply)
  BY AppendProperties DEF TypeOK, SocketsTypeOK
<1>2. replies' \in [Conn -> Seq(Reply)]
  BY <1>1 DEF TypeOK, SocketsTypeOK, Send
<1>3. peer' \in [Conn -> PeerState]
  BY DEF TypeOK, SocketsTypeOK, Send, PeerState
<1>4. status' \in {"running"} \cup Cause
  BY DEF TypeOK, MasterTypeOK, Send, Cause
<1>. QED
  BY <1>2, <1>3, <1>4

(* The end of the process changes the status and nothing else.             *)
LEMMA CrashTypes ==
    ASSUME TypeOK, NEW cause \in Cause, Crash(cause), UNCHANGED callVars
    PROVE  TypeOK'
BY DEF TypeOK, SocketsTypeOK, MasterTypeOK, ClientTypeOK, Crash, Participants

(* Before the first connection everything is typed.                        *)
LEMMA InitTypes == Init => TypeOK
BY EmptySeq DEF Init, TypeOK, SocketsInit, MasterInit, ClientInit, SocketsTypeOK, MasterTypeOK,
       ClientTypeOK, PeerState, Response, Idle, Call, FrameType, RequestType,
       Argument

(* Emptying the two queues keeps the types: a name from a queue is a key   *)
(* of participant_list_, and a slot gets the socket it leads to.           *)
LEMMA DrainTypes ==
    ASSUME TypeOK, Drain, UNCHANGED callVars
    PROVE  TypeOK'
<1>. USE DEF TypeOK, SocketsTypeOK, MasterTypeOK, ClientTypeOK
<1>1. CASE LockDead
  BY <1>1 DEF LockDead
<1>2. CASE DrainDead
  <2>1. Tail(dead_q) \in Seq(Name)
    BY <1>2, HeadTailProperties DEF DrainDead
  <2>. QED
    BY <1>2, <2>1 DEF DrainDead, ClearFirst, EraseEvents, EraseMethods, Destroy
<1>3. CASE DrainDeadUnknown
  BY <1>3, CrashTypes DEF DrainDeadUnknown, Cause
<1>4. CASE NoMoreDead
  BY <1>4 DEF NoMoreDead
<1>5. CASE DrainNew
  <2>1. Head(new_q) \in Name /\ Tail(new_q) \in Seq(Name)
    BY <1>5, HeadTailProperties DEF DrainNew
  <2>. QED
    BY <1>5, <2>1 DEF DrainNew, FirstFree
<1>6. CASE DrainNewUnknown
  BY <1>6, CrashTypes DEF DrainNewUnknown, Cause
<1>7. CASE NoMoreNew
  BY <1>7 DEF NoMoreNew
<1>. QED
  BY <1>1, <1>2, <1>3, <1>4, <1>5, <1>6, <1>7 DEF Drain

(* poll() and the end of the scan change only the slots' revents and where *)
(* the worker is.                                                          *)
LEMMA PollTypes ==
    ASSUME TypeOK, Poll \/ ScanDone, UNCHANGED callVars
    PROVE  TypeOK'
<1>. USE DEF TypeOK, SocketsTypeOK, MasterTypeOK, ClientTypeOK
<1>1. CASE Poll
  BY <1>1 DEF Poll, PollIn, Readable
<1>2. CASE ScanDone
  BY <1>2 DEF ScanDone
<1>. QED
  BY <1>1, <1>2

(* The reset of a watchdog counter keeps the counters within a uint8_t.    *)
LEMMA WatchdogTypes ==
    ASSUME MasterTypeOK, NEW c
    PROVE  [watchdog EXCEPT ![c] = 0] \in [Conn -> 0..255]
<1>1. 0 \in 0..255
  OBVIOUS
<1>. QED
  BY <1>1 DEF MasterTypeOK

(* Going on to the next slot keeps the worker's locals typed.              *)
LEMMA NextSlotTypes ==
    ASSUME NEW i \in Nat, NextSlot(i)
    PROVE  /\ w_pc' \in {"top", "dead", "new", "poll", "scan", "content"}
           /\ cursor' \in Nat
           /\ frame' \in RequestType \cup {None}
BY DEF NextSlot

(* Reading from a readable slot keeps the types, whatever read() returns.  *)
LEMMA ReadTypes ==
    ASSUME TypeOK, NEW i \in Slot, Read(i), UNCHANGED callVars
    PROVE  TypeOK'
<1>. USE DEF TypeOK, SocketsTypeOK, MasterTypeOK, ClientTypeOK
<1>1. i \in Nat /\ slots[i] \in Conn \cup {None}
  BY MasterBounds DEF Slot
<1>2. CASE ReadKeepAlive(i)
  <2>1. stream' \in [Conn -> Seq(Chunk)]
    BY <1>2, StreamTypes DEF ReadKeepAlive
  <2>2. status' \in {"running"} \cup Cause
    BY <1>2 DEF ReadKeepAlive, KnownOrNull, Cause
  <2>3. watchdog' \in [Conn -> 0..255]
    BY <1>2, WatchdogTypes DEF ReadKeepAlive
  <2>. QED
    BY <1>1, <1>2, <2>1, <2>2, <2>3, NextSlotTypes DEF ReadKeepAlive
<1>3. CASE ReadHeader(i)
  <2>1. stream' \in [Conn -> Seq(Chunk)]
    BY <1>3, StreamTypes DEF ReadHeader
  <2>. QED
    BY <1>1, <1>3, <2>1 DEF ReadHeader
<1>4. CASE ReadMisaligned(i)
  BY <1>4, CrashTypes DEF ReadMisaligned, Cause
<1>5. CASE ReadEof(i)
  BY <1>1, <1>5 DEF ReadEof, NextSlot
<1>6. CASE ReadReset(i)
  <2>1. status' \in {"running"} \cup Cause
    BY <1>6 DEF ReadReset, KnownOrNull, Cause
  <2>2. watchdog' \in [Conn -> 0..255]
    <3>1. watchdog' = watchdog \/ watchdog' = [watchdog EXCEPT ![slots[i]] = 0]
      BY <1>6 DEF ReadReset
    <3>2. [watchdog EXCEPT ![slots[i]] = 0] \in [Conn -> 0..255]
      BY WatchdogTypes
    <3>. QED
      BY <3>1, <3>2
  <2>3. peer' \in [Conn -> PeerState]
    BY <1>6 DEF ReadReset, PeerState
  <2>. QED
    BY <1>1, <1>6, <2>1, <2>2, <2>3, NextSlotTypes DEF ReadReset
<1>. QED
  BY <1>2, <1>3, <1>4, <1>5, <1>6 DEF Read

(* A tick of the watchdog keeps the counters within a uint8_t and queues   *)
(* names only.                                                             *)
LEMMA TickTypes ==
    ASSUME TypeOK, Tick, UNCHANGED callVars
    PROVE  TypeOK'
<1>. USE DEF TypeOK, SocketsTypeOK, MasterTypeOK, ClientTypeOK
<1>1. dead_q' \in Seq(Name)
  BY SilentQueue, ConcatProperties DEF Tick
<1>2. watchdog' \in [Conn -> 0..255]
  <2>1. \A k \in 0..255 : (k + 1) % 256 \in 0..255
    OBVIOUS
  <2>2. \A c \in Conn : Ticked(c) \in 0..255
    BY <2>1 DEF Ticked
  <2>. QED
    BY <2>2 DEF Tick
<1>. QED
  BY <1>1, <1>2 DEF Tick

-------------------------------------------------------------------------------
(* The handlers.                                                           *)

(* A handler that changes the two ownership tables within their types and  *)
(* then answers keeps everything typed.                                    *)
LEMMA RespondTypes ==
    ASSUME TypeOK, NEW r \in Reply, Respond(slots[cursor], r),
           stream[slots[cursor]] # <<>>,
           event_list' \in [Topic -> Conn \cup {None}],
           method_list' \in [Method -> Conn \cup {None}],
           published' \in [Conn -> SUBSET Topic],
           provided' \in [Conn -> SUBSET Method],
           UNCHANGED callVars
    PROVE  TypeOK'
<1>. DEFINE c == slots[cursor]
<1>1. Send(c, r) /\ Consume(c) /\ NextSlot(cursor)
  BY DEF Respond
<1>2. status' \in {"running"} \cup Cause /\ SocketsTypeOK'
  BY <1>1, SendTypes, StreamTypes DEF TypeOK, SocketsTypeOK
<1>3. ClientTypeOK'
  BY DEF TypeOK, ClientTypeOK
<1>4. MasterTypeOK'
  <2>1. cursor \in Nat
    BY DEF TypeOK, MasterTypeOK
  <2>. QED
    BY <1>1, <1>2, <2>1, NextSlotTypes DEF Respond, TypeOK, MasterTypeOK
<1>. QED
  BY <1>2, <1>3, <1>4 DEF TypeOK

(* Both forms of an answer are replies.                                    *)
LEMMA Answers ==
    /\ \A r \in Response : Answer(r) \in Reply
    /\ \A c \in Conn : [response |-> "OK", at |-> c] \in Reply
BY DEF Answer, Reply, Response

(* The answer to a garbled content, the rest of which is left in the       *)
(* stream from position i on.                                              *)
LeftOver(c, i) ==
    /\ i \in 2..Len(stream[c]) /\ ContentAt(c, i)
    /\ stream' = [stream EXCEPT ![c] = SubSeq(@, i, Len(@))]
    /\ Send(c, Answer("EMPTY"))
    /\ NextSlot(cursor)
    /\ UNCHANGED <<registryVars, new_q, dead_q, pollVars, acceptVars>>

(* A garbled content ends the master, or is answered like an empty one.    *)
LEMMA GarbledOutcome ==
    ASSUME GarbledContent
    PROVE  \/ Crash("parse_error")
           \/ \E i \in Nat : LeftOver(slots[cursor], i)
<1>. PICK i \in 2..Len(stream[slots[cursor]]) :
        /\ ContentAt(slots[cursor], i)
        /\ \/ /\ Send(slots[cursor], Answer("EMPTY"))
              /\ stream' = [stream EXCEPT ![slots[cursor]] = SubSeq(@, i, Len(@))]
              /\ NextSlot(cursor)
              /\ UNCHANGED <<registryVars, new_q, dead_q, pollVars, acceptVars>>
           \/ Crash("parse_error")
  BY DEF GarbledContent
<1>1. i \in Nat
  OBVIOUS
<1>. QED
  BY <1>1 DEF LeftOver

(* What is left of a stream is one.                                        *)
LEMMA LeftOverTypes ==
    ASSUME TypeOK, NEW i \in Nat, LeftOver(slots[cursor], i), UNCHANGED callVars
    PROVE  TypeOK'
<1>. DEFINE c == slots[cursor]
<1>1. Answer("EMPTY") \in Reply
  BY Answers DEF Response
<1>2. status' \in {"running"} \cup Cause /\ replies' \in [Conn -> Seq(Reply)]
      /\ peer' \in [Conn -> PeerState]
  BY <1>1, SendTypes DEF LeftOver, TypeOK, SocketsTypeOK
<1>3. stream' \in [Conn -> Seq(Chunk)]
  <2>1. ASSUME c \in Conn
        PROVE  SubSeq(stream[c], i, Len(stream[c])) \in Seq(Chunk)
    <3>1. stream[c] \in Seq(Chunk) /\ Len(stream[c]) \in Nat
      BY <2>1, LenProperties DEF TypeOK, SocketsTypeOK
    <3>2. \A j \in i..Len(stream[c]) : stream[c][j] \in Chunk
      BY <3>1, LenProperties DEF LeftOver
    <3>. QED
      BY <3>1, <3>2, SubSeqProperties
  <2>. QED
    BY <2>1 DEF LeftOver, TypeOK, SocketsTypeOK
<1>4. cursor \in Nat
  BY DEF TypeOK, MasterTypeOK
<1>. QED
  BY <1>2, <1>3, <1>4, NextSlotTypes
     DEF LeftOver, TypeOK, SocketsTypeOK, MasterTypeOK, ClientTypeOK

(* Every handler of a frame with a content keeps the types.                *)
LEMMA ServeTypes ==
    ASSUME TypeOK, Serve, UNCHANGED callVars
    PROVE  TypeOK'
<1>. DEFINE c == slots[cursor]
<1>0. /\ event_list \in [Topic -> Conn \cup {None}]
      /\ method_list \in [Method -> Conn \cup {None}]
      /\ published \in [Conn -> SUBSET Topic]
      /\ provided \in [Conn -> SUBSET Method]
      /\ socket_map \subseteq Conn
  BY DEF TypeOK, MasterTypeOK
<1>1. ASSUME NEW t \in Topic, EventRegister(t)
      PROVE  TypeOK'
  <2>1. CASE c \in socket_map
    BY <1>0, <1>1, <2>1, RespondTypes, Answers DEF EventRegister, Content, Response
  <2>2. CASE c \notin socket_map
    BY <1>1, <2>2, CrashTypes DEF EventRegister, Cause
  <2>. QED
    BY <2>1, <2>2
<1>2. ASSUME NEW t \in Topic, EventDuplicate(t)
      PROVE  TypeOK'
  BY <1>0, <1>2, RespondTypes, Answers DEF EventDuplicate, Content, Response
<1>3. ASSUME NEW t \in Topic, EventSubscribe(t)
      PROVE  TypeOK'
  BY <1>0, <1>3, RespondTypes, Answers DEF EventSubscribe, Content, Response
<1>4. ASSUME NEW m \in Method, MethodProvide(m)
      PROVE  TypeOK'
  <2>1. CASE c \in socket_map
    BY <1>0, <1>4, <2>1, RespondTypes, Answers DEF MethodProvide, Content, Response
  <2>2. CASE c \notin socket_map
    BY <1>4, <2>2, CrashTypes DEF MethodProvide, Cause
  <2>. QED
    BY <2>1, <2>2
<1>5. ASSUME NEW m \in Method, MethodDuplicate(m)
      PROVE  TypeOK'
  BY <1>0, <1>5, RespondTypes, Answers DEF MethodDuplicate, Content, Response
<1>6. ASSUME NEW m \in Method, MethodQuery(m)
      PROVE  TypeOK'
  BY <1>0, <1>6, RespondTypes, Answers DEF MethodQuery, Content, Response
<1>7. ASSUME NEW arg, DebugQuery(arg)
      PROVE  TypeOK'
  BY <1>0, <1>7, RespondTypes, Answers DEF DebugQuery, Content, Response
<1>8. CASE InvalidRequest
  BY <1>0, <1>8, RespondTypes, Answers DEF InvalidRequest, Content, Response
<1>9. CASE GarbledContent
  BY <1>9, GarbledOutcome, LeftOverTypes, CrashTypes DEF Cause
<1>10. CASE ContentEof
  <2>1. cursor \in Nat /\ <<>> \in Seq(Chunk)
    BY EmptySeq DEF TypeOK, MasterTypeOK
  <2>. QED
    BY <1>10, <2>1, NextSlotTypes
       DEF ContentEof, TypeOK, SocketsTypeOK, MasterTypeOK, ClientTypeOK
<1>. QED
  BY <1>1, <1>2, <1>3, <1>4, <1>5, <1>6, <1>7, <1>8, <1>9, <1>10 DEF Serve

-------------------------------------------------------------------------------
(* The acceptor and the participants.                                      *)

(* Every step of the acceptor keeps the types: in particular it holds a    *)
(* socket as long as it has a joining frame to read or to answer.          *)
LEMMA AcceptorTypes ==
    ASSUME TypeOK, Acceptor, UNCHANGED callVars
    PROVE  TypeOK'
<1>. USE DEF TypeOK, SocketsTypeOK, MasterTypeOK, ClientTypeOK
<1>0. "EMPTY" \in Response /\ "OK" \in Response /\ "DUPLICATE" \in Response
      /\ "VERSION_MISMATCH" \in Response /\ "INVALID" \in Response
  BY DEF Response
<1>1. ASSUME NEW c \in Conn, Accept(c)
      PROVE  TypeOK'
  BY <1>1 DEF Accept
<1>2. CASE AcceptFails
  BY <1>2, CrashTypes DEF AcceptFails, Cause
<1>3. CASE InitEof
  BY <1>0, <1>3 DEF InitEof, NextAccept
<1>4. ASSUME NEW n \in Name, Register(n)
      PROVE  TypeOK'
  <2>1. stream' \in [Conn -> Seq(Chunk)]
    BY <1>4, StreamTypes DEF Register
  <2>2. new_q' \in Seq(Name)
    BY <1>4, AppendProperties DEF Register
  <2>3. socket_map' \in SUBSET Conn /\ participant_list' \in [Name -> Conn \cup {None}]
    <3>1. a_conn \in Conn
      BY <1>4 DEF Register, Joining
    <3>. QED
      BY <1>4, <3>1 DEF Register
  <2>. QED
    BY <1>0, <1>4, <2>1, <2>2, <2>3 DEF Register, JoinAnswer
<1>5. ASSUME NEW arg, NEW r \in Response, Joining(arg), Refuse(r)
      PROVE  TypeOK'
  <2>1. stream' \in [Conn -> Seq(Chunk)]
    BY <1>5, StreamTypes
  <2>2. a_conn \in Conn
    BY <1>5 DEF Joining
  <2>. QED
    BY <1>5, <2>1, <2>2 DEF Refuse, JoinAnswer
<1>6. CASE JoinReply
  <2>1. Answer(a_response) \in Reply
    BY Answers
  <2>. QED
    BY <1>0, <1>6, <2>1, SendTypes DEF JoinReply, NextAccept
<1>. QED
  BY <1>0, <1>1, <1>2, <1>3, <1>4, <1>5, <1>6
     DEF Acceptor, RefuseDuplicate, RefuseVersion, RefuseInvalid

(* Writing the header of a request keeps the stream and the call typed.    *)
LEMMA RequestTypes ==
    ASSUME TypeOK, NEW c \in Conn, NEW type \in FrameType, NEW arg \in Argument,
           WriteHeader(c, type, arg)
    PROVE  /\ stream' \in [Conn -> Seq(Chunk)]
           /\ call' \in [Conn -> Call]
<1>1. Header(type) \in Chunk
  BY DEF Header, Chunk, Argument
<1>2. [pc |-> "body", type |-> type, arg |-> arg] \in Call
  BY DEF Call
<1>. QED
  BY <1>1, <1>2, StreamTypes DEF WriteHeader, TypeOK, ClientTypeOK

(* Reading an answer keeps the replies and the call typed.                 *)
LEMMA TakeReplyTypes ==
    ASSUME TypeOK, NEW c \in Conn, TakeReply(c)
    PROVE  /\ replies' \in [Conn -> Seq(Reply)]
           /\ call' \in [Conn -> Call]
<1>1. Tail(replies[c]) \in Seq(Reply)
  BY HeadTailProperties DEF TypeOK, SocketsTypeOK, TakeReply
<1>2. Idle \in Call
  BY DEF Idle, Call, FrameType, RequestType, Argument
<1>. QED
  BY <1>1, <1>2 DEF TakeReply, TypeOK, SocketsTypeOK, ClientTypeOK

(* No step of a participant leaves the types.                              *)
LEMMA ClientTypes ==
    ASSUME TypeOK, NEW c \in Conn, ClientNext(c), UNCHANGED masterVars
    PROVE  TypeOK'
<1>0. MasterTypeOK'
  BY DEF TypeOK, MasterTypeOK, masterVars, Participants
<1>. USE DEF TypeOK, SocketsTypeOK, ClientTypeOK, PeerState
<1>1. ASSUME NEW arg \in JoinArgs, Connect(c, arg)
      PROVE  TypeOK'
  <2>1. arg \in Argument /\ "INITIATION" \in FrameType
    BY ClientArguments DEF Argument, FrameType
  <2>. QED
    BY <1>0, <1>1, <2>1, RequestTypes DEF Connect
<1>2. ASSUME NEW r \in Requests, StartCall(c, r)
      PROVE  TypeOK'
  <2>1. r.type \in FrameType /\ r.arg \in Argument
    BY ClientArguments DEF FrameType
  <2>. QED
    BY <1>0, <1>2, <2>1, RequestTypes DEF StartCall
<1>3. CASE WriteBody(c)
  <2>1. Body(call[c].type, call[c].arg) \in Chunk
    BY DEF Body, Chunk, Call
  <2>2. stream' \in [Conn -> Seq(Chunk)]
    BY <1>3, <2>1, StreamTypes DEF WriteBody
  <2>3. call' \in [Conn -> Call]
    BY <1>3 DEF WriteBody, Call
  <2>. QED
    BY <1>0, <1>3, <2>2, <2>3 DEF WriteBody
<1>4. CASE EndJoin(c)
  BY <1>0, <1>4, TakeReplyTypes DEF EndJoin
<1>5. CASE EndCall(c)
  <2>1. call[c].arg \in Argument
    BY DEF Call
  <2>2. /\ pub_list' \in [Conn -> SUBSET Argument]
        /\ provided_list' \in [Conn -> SUBSET Argument]
    BY <1>5, <2>1 DEF EndCall, Advertised, Provided
  <2>. QED
    BY <1>0, <1>5, <2>2, TakeReplyTypes DEF EndCall
<1>6. CASE KeepAlive(c)
  <2>1. Header("KEEP_ALIVE") \in Chunk
    BY DEF Header, Chunk, FrameType, Argument
  <2>. QED
    BY <1>0, <1>6, <2>1, StreamTypes DEF KeepAlive
<1>7. CASE End(c)
  <2>1. Idle \in Call /\ <<>> \in Seq(Reply)
    BY EmptySeq DEF Idle, Call, FrameType, RequestType, Argument
  <2>. QED
    BY <1>0, <1>7, <2>1 DEF End
<1>. QED
  BY <1>1, <1>2, <1>3, <1>4, <1>5, <1>6, <1>7 DEF ClientNext

(* No step of any thread leaves the state space of the declarations.       *)
THEOREM TypeCorrect == Spec => []TypeOK
<1>1. ASSUME TypeOK, [Next]_vars
      PROVE  TypeOK'
  <2>1. CASE MasterStep
    BY <1>1, <2>1, DrainTypes, PollTypes, ReadTypes, ServeTypes, AcceptorTypes,
       TickTypes DEF MasterStep, MasterNext, Worker
  <2>2. ASSUME NEW c \in Conn, ClientStep(c)
        PROVE  TypeOK'
    BY <1>1, <2>2, ClientTypes DEF ClientStep
  <2>3. CASE UNCHANGED vars
    BY <1>1, <2>3 DEF vars, masterVars, clientVars, TypeOK, SocketsTypeOK,
       MasterTypeOK, ClientTypeOK
  <2>. QED
    BY <1>1, <2>1, <2>2, <2>3 DEF Next
<1>. QED
  BY <1>1, InitTypes, PTL DEF Spec

-------------------------------------------------------------------------------
(* The registry.  Its tables change in four actions; the others either     *)
(* leave them alone or move the acceptor from one socket to the next.      *)

tableVars == <<participant_list, socket_map, name_of, published, provided,
               event_list, method_list>>

(* The invariant of the registry depends on its tables and on the socket   *)
(* the acceptor holds, and on nothing else.                                *)
LEMMA TablesUnchanged ==
    ASSUME RegistryInvariant, UNCHANGED tableVars,
           UNCHANGED <<accepted, a_pc, a_conn>> \/ (accepted' = accepted /\ a_pc' # "read")
    PROVE  RegistryInvariant'
BY DEF tableVars, RegistryInvariant, RegistryAgrees, OwnershipAgrees,
       RecordsDestroyed, AcceptorHolds, Participants

(* The empty registry satisfies its invariant.                             *)
LEMMA InitRegistry == Init => RegistryInvariant
BY ConstantsDistinct DEF Init, MasterInit, RegistryInvariant, RegistryAgrees,
   OwnershipAgrees, RecordsDestroyed, AcceptorHolds, Participants

(* Removing a participant, with the topics and methods its record lists,   *)
(* leaves the tables in step: the lists are exactly what it owns.          *)
LEMMA DrainDeadRegistry ==
    ASSUME TypeOK, RegistryInvariant, DrainDead
    PROVE  RegistryInvariant'
<1>. DEFINE n == Head(dead_q)
            c == participant_list[n]
<1>1. n \in Name
  BY HeadTailProperties DEF DrainDead, TypeOK, MasterTypeOK
<1>2. c \in socket_map /\ c \in Conn /\ name_of[c] = n
  BY <1>1 DEF DrainDead, TypeOK, MasterTypeOK, RegistryInvariant, RegistryAgrees,
     Participants
<1>3. \A k \in Name : k # n => participant_list[k] # c
  BY <1>2, ConstantsDistinct DEF RegistryInvariant, RegistryAgrees, Participants
<1>4. /\ socket_map' = socket_map \ {c}
      /\ participant_list' = [participant_list EXCEPT ![n] = None]
      /\ name_of' = [name_of EXCEPT ![c] = None]
      /\ published' = [published EXCEPT ![c] = {}]
      /\ provided' = [provided EXCEPT ![c] = {}]
      /\ event_list' = EraseEvents(c)
      /\ method_list' = EraseMethods(c)
  BY DEF DrainDead, Destroy
<1>5. /\ event_list' = [t \in Topic |-> IF event_list[t] = c THEN None ELSE event_list[t]]
      /\ method_list' = [m \in Method |-> IF method_list[m] = c THEN None ELSE method_list[m]]
  BY <1>2, <1>4 DEF EraseEvents, EraseMethods, RegistryInvariant, OwnershipAgrees
<1>6. RegistryAgrees'
  BY <1>1, <1>2, <1>3, <1>4 DEF RegistryInvariant, RegistryAgrees, Participants,
     TypeOK, MasterTypeOK
<1>7. OwnershipAgrees'
  <2>1. /\ \A t \in Topic : event_list'[t] # None => event_list'[t] \in socket_map'
        /\ \A m \in Method : method_list'[m] # None => method_list'[m] \in socket_map'
    BY <1>4, <1>5 DEF RegistryInvariant, OwnershipAgrees
  <2>2. ASSUME NEW d \in socket_map'
        PROVE  /\ published'[d] = {t \in Topic : event_list'[t] = d}
               /\ provided'[d] = {m \in Method : method_list'[m] = d}
    <3>1. d \in socket_map /\ d # c /\ d # None
      BY <1>4, <2>2, ConstantsDistinct DEF TypeOK, MasterTypeOK
    <3>. QED
      BY <1>4, <1>5, <3>1 DEF RegistryInvariant, OwnershipAgrees, TypeOK, MasterTypeOK
  <2>. QED
    BY <2>1, <2>2 DEF OwnershipAgrees
<1>8. RecordsDestroyed'
  BY <1>2, <1>4 DEF RegistryInvariant, RecordsDestroyed, TypeOK, MasterTypeOK
<1>9. AcceptorHolds'
  BY <1>4 DEF DrainDead, RegistryInvariant, AcceptorHolds
<1>. QED
  BY <1>6, <1>7, <1>8, <1>9 DEF RegistryInvariant

(* Registering the socket the acceptor holds leaves the tables in step:    *)
(* the socket is new to both of them, and its name to the first.           *)
LEMMA RegisterRegistry ==
    ASSUME TypeOK, RegistryInvariant, NEW n \in Name, Register(n)
    PROVE  RegistryInvariant'
<1>1. /\ a_conn \in Conn \ socket_map /\ a_conn \in accepted /\ a_conn # None
      /\ participant_list[n] = None
      /\ participant_list' = [participant_list EXCEPT ![n] = a_conn]
      /\ socket_map' = socket_map \cup {a_conn}
      /\ name_of' = [name_of EXCEPT ![a_conn] = n]
      /\ UNCHANGED <<published, provided, event_list, method_list, accepted>>
      /\ a_pc' # "read"
  BY ConstantsDistinct DEF Register, Joining, JoinAnswer, TypeOK, MasterTypeOK,
     RegistryInvariant, AcceptorHolds
<1>2. RegistryAgrees'
  BY <1>1, ConstantsDistinct DEF RegistryInvariant, RegistryAgrees, Participants,
     TypeOK, MasterTypeOK
<1>3. OwnershipAgrees'
  <2>1. \A t \in Topic : event_list[t] # a_conn
    BY <1>1 DEF RegistryInvariant, OwnershipAgrees
  <2>2. \A m \in Method : method_list[m] # a_conn
    BY <1>1 DEF RegistryInvariant, OwnershipAgrees
  <2>3. published[a_conn] = {} /\ provided[a_conn] = {}
    BY <1>1 DEF RegistryInvariant, RecordsDestroyed
  <2>. QED
    BY <1>1, <2>1, <2>2, <2>3 DEF RegistryInvariant, OwnershipAgrees
<1>4. RecordsDestroyed'
  BY <1>1 DEF RegistryInvariant, RecordsDestroyed, TypeOK, MasterTypeOK
<1>5. AcceptorHolds'
  BY <1>1 DEF RegistryInvariant, AcceptorHolds
<1>. QED
  BY <1>2, <1>3, <1>4, <1>5 DEF RegistryInvariant

(* Registering a topic enters it in event_list_ and in the record of its   *)
(* publisher, or ends the process with neither.                            *)
LEMMA EventRegisterRegistry ==
    ASSUME TypeOK, RegistryInvariant, NEW t \in Topic, EventRegister(t)
    PROVE  RegistryInvariant'
<1>. DEFINE c == slots[cursor]
<1>1. CASE c \notin socket_map
  BY <1>1, TablesUnchanged DEF EventRegister, Crash, tableVars
<1>2. CASE c \in socket_map
  <2>1. /\ c \in Conn /\ event_list[t] = None
        /\ event_list' = [event_list EXCEPT ![t] = c]
        /\ published' = [published EXCEPT ![c] = @ \cup {t}]
        /\ UNCHANGED <<participant_list, socket_map, name_of, provided,
                       method_list, accepted, a_pc, a_conn>>
    BY <1>2 DEF EventRegister, Respond, TypeOK, MasterTypeOK
  <2>2. RegistryAgrees' /\ AcceptorHolds'
    BY <2>1 DEF RegistryInvariant, RegistryAgrees, AcceptorHolds, Participants
  <2>3. RecordsDestroyed'
    BY <1>2, <2>1 DEF RegistryInvariant, RecordsDestroyed, TypeOK, MasterTypeOK
  <2>4. OwnershipAgrees'
    <3>1. \A d \in socket_map : d \in Conn /\ d # None
      BY ConstantsDistinct DEF TypeOK, MasterTypeOK
    <3>. QED
      BY <1>2, <2>1, <3>1 DEF RegistryInvariant, OwnershipAgrees, TypeOK, MasterTypeOK
  <2>. QED
    BY <2>2, <2>3, <2>4 DEF RegistryInvariant
<1>. QED
  BY <1>1, <1>2

(* Registering a method enters it in method_list_ and in the record of its *)
(* provider, or ends the process with neither.                             *)
LEMMA MethodProvideRegistry ==
    ASSUME TypeOK, RegistryInvariant, NEW m \in Method, MethodProvide(m)
    PROVE  RegistryInvariant'
<1>. DEFINE c == slots[cursor]
<1>1. CASE c \notin socket_map
  BY <1>1, TablesUnchanged DEF MethodProvide, Crash, tableVars
<1>2. CASE c \in socket_map
  <2>1. /\ c \in Conn /\ method_list[m] = None
        /\ method_list' = [method_list EXCEPT ![m] = c]
        /\ provided' = [provided EXCEPT ![c] = @ \cup {m}]
        /\ UNCHANGED <<participant_list, socket_map, name_of, published,
                       event_list, accepted, a_pc, a_conn>>
    BY <1>2 DEF MethodProvide, Respond, TypeOK, MasterTypeOK
  <2>2. RegistryAgrees' /\ AcceptorHolds'
    BY <2>1 DEF RegistryInvariant, RegistryAgrees, AcceptorHolds, Participants
  <2>3. RecordsDestroyed'
    BY <1>2, <2>1 DEF RegistryInvariant, RecordsDestroyed, TypeOK, MasterTypeOK
  <2>4. OwnershipAgrees'
    <3>1. \A d \in socket_map : d \in Conn /\ d # None
      BY ConstantsDistinct DEF TypeOK, MasterTypeOK
    <3>. QED
      BY <1>2, <2>1, <3>1 DEF RegistryInvariant, OwnershipAgrees, TypeOK, MasterTypeOK
  <2>. QED
    BY <2>2, <2>3, <2>4 DEF RegistryInvariant
<1>. QED
  BY <1>1, <1>2

(* The steps that leave the tables alone.                                  *)
OtherStep ==
    \/ Drain /\ ~DrainDead
    \/ Poll \/ ScanDone \/ Tick
    \/ \E i \in Slot : Read(i)
    \/ \E t \in Topic : EventDuplicate(t) \/ EventSubscribe(t)
    \/ \E m \in Method : MethodDuplicate(m) \/ MethodQuery(m)
    \/ \E arg \in {None, Malformed} : DebugQuery(arg)
    \/ InvalidRequest \/ GarbledContent \/ ContentEof
    \/ AcceptFails \/ InitEof \/ JoinReply
    \/ \E n \in Name : RefuseDuplicate(n)
    \/ RefuseVersion \/ RefuseInvalid
    \/ \E c \in Conn : ClientStep(c)
    \/ UNCHANGED vars

(* The steps that leave the tables alone leave them in step.               *)
LEMMA OtherRegistry ==
    ASSUME RegistryInvariant, OtherStep
    PROVE  RegistryInvariant'
<1>1. ASSUME UNCHANGED <<tableVars, acceptVars>>
      PROVE  RegistryInvariant'
  BY <1>1, TablesUnchanged DEF tableVars
<1>2. CASE Drain /\ ~DrainDead
  BY <1>1, <1>2 DEF Drain, LockDead, DrainDeadUnknown, NoMoreDead, DrainNew,
     DrainNewUnknown, NoMoreNew, Crash, tableVars
<1>3. CASE Poll \/ ScanDone \/ Tick
  BY <1>1, <1>3 DEF Poll, ScanDone, Tick, tableVars
<1>4. ASSUME NEW i \in Slot, Read(i)
      PROVE  RegistryInvariant'
  BY <1>1, <1>4 DEF Read, ReadKeepAlive, ReadHeader, ReadMisaligned, ReadEof,
     ReadReset, Crash, tableVars
<1>5. CASE \/ \E t \in Topic : EventDuplicate(t) \/ EventSubscribe(t)
           \/ \E m \in Method : MethodDuplicate(m) \/ MethodQuery(m)
           \/ \E arg \in {None, Malformed} : DebugQuery(arg)
           \/ InvalidRequest
  BY <1>1, <1>5 DEF EventDuplicate, EventSubscribe, MethodDuplicate, MethodQuery,
     DebugQuery, InvalidRequest, Respond, tableVars
<1>6. CASE GarbledContent \/ ContentEof \/ AcceptFails
  BY <1>1, <1>6, GarbledOutcome DEF LeftOver, ContentEof, AcceptFails, Crash, tableVars
<1>7. CASE \/ InitEof \/ JoinReply
           \/ \E n \in Name : RefuseDuplicate(n)
           \/ RefuseVersion \/ RefuseInvalid
  BY <1>7, TablesUnchanged DEF InitEof, JoinReply, RefuseDuplicate, RefuseVersion,
     RefuseInvalid, Refuse, JoinAnswer, NextAccept, tableVars
<1>8. CASE (\E c \in Conn : ClientStep(c)) \/ UNCHANGED vars
  BY <1>1, <1>8 DEF ClientStep, vars, masterVars, tableVars
<1>. QED
  BY <1>2, <1>3, <1>4, <1>5, <1>6, <1>7, <1>8 DEF OtherStep

(* A socket that accept() returns was never registered.                    *)
LEMMA AcceptRegistry ==
    ASSUME RegistryInvariant, NEW c \in Conn, Accept(c)
    PROVE  RegistryInvariant'
<1>1. UNCHANGED tableVars /\ accepted' = accepted \cup {c} /\ a_conn' = c
      /\ c \notin accepted
  BY DEF Accept, tableVars
<1>2. AcceptorHolds'
  BY <1>1 DEF tableVars, RegistryInvariant, AcceptorHolds
<1>. QED
  BY <1>1, <1>2 DEF tableVars, RegistryInvariant, RegistryAgrees, OwnershipAgrees,
     RecordsDestroyed, Participants

(* Whatever the order in which the acceptor registers, the watchdog        *)
(* declares dead and the worker serves and erases, the four tables of the  *)
(* registry agree.                                                         *)
THEOREM RegistryCorrect == Spec => []RegistryInvariant
<1>1. ASSUME TypeOK, RegistryInvariant, [Next]_vars
      PROVE  RegistryInvariant'
  <2>1. \/ OtherStep
        \/ DrainDead
        \/ \E n \in Name : Register(n)
        \/ \E t \in Topic : EventRegister(t)
        \/ \E m \in Method : MethodProvide(m)
        \/ \E c \in Conn : Accept(c)
    BY <1>1 DEF OtherStep, Next, MasterStep, MasterNext, Worker, Drain, Serve, Acceptor
  <2>. QED
    BY <1>1, <2>1, OtherRegistry, DrainDeadRegistry, RegisterRegistry,
       EventRegisterRegistry, MethodProvideRegistry, AcceptRegistry
<1>. QED
  BY <1>1, InitRegistry, TypeCorrect, PTL DEF Spec

-------------------------------------------------------------------------------
(* The directory.                                                          *)

directoryVars == <<participant_list, event_list, method_list>>

(* The members of the directory are the keys of                            *)
(* socket_participant_mapping_.                                            *)
LEMMA MembersAreRegistered ==
    ASSUME TypeOK, RegistryInvariant
    PROVE  Registry!Members = socket_map
<1>1. ASSUME NEW c \in socket_map
      PROVE  c \in Registry!Members
  BY <1>1 DEF Registry!Members, RegistryInvariant, RegistryAgrees, TypeOK, MasterTypeOK
<1>2. ASSUME NEW c \in Registry!Members
      PROVE  c \in socket_map
  BY <1>2, ConstantsDistinct DEF Registry!Members, RegistryInvariant, RegistryAgrees,
     Participants
<1>. QED
  BY <1>1, <1>2

(* A registration is a member joining the directory.                       *)
LEMMA RegisterJoins ==
    ASSUME TypeOK, RegistryInvariant, NEW n \in Name, Register(n)
    PROVE  Registry!Join(n, a_conn) /\ a_conn \in Conn
<1>1. a_conn \in Conn /\ a_conn \notin socket_map
  BY DEF Register, Joining, TypeOK, MasterTypeOK, RegistryInvariant, AcceptorHolds
<1>. QED
  BY <1>1, MembersAreRegistered DEF Register, Registry!Join

(* Erasing by name and by the keys in the record is the member leaving     *)
(* the directory with all it owns.                                         *)
LEMMA DrainDeadLeaves ==
    ASSUME TypeOK, RegistryInvariant, DrainDead
    PROVE  \E c \in Conn : Registry!Leave(c)
<1>. DEFINE n == Head(dead_q)
            c == participant_list[n]
<1>1. n \in Name
  BY HeadTailProperties DEF DrainDead, TypeOK, MasterTypeOK
<1>2. c \in socket_map /\ c \in Conn /\ name_of[c] = n /\ c # None
  BY <1>1 DEF DrainDead, TypeOK, MasterTypeOK, RegistryInvariant, RegistryAgrees,
     Participants
<1>3. \A k \in Name : k # n => participant_list[k] # c
  BY <1>2 DEF RegistryInvariant, RegistryAgrees, Participants
<1>4. participant_list' = Registry!Without(participant_list, c)
  <2>1. participant_list' = [participant_list EXCEPT ![n] = None]
    BY DEF DrainDead
  <2>. QED
    BY <1>1, <1>3, <2>1 DEF Registry!Without, TypeOK, MasterTypeOK
<1>5. /\ event_list' = Registry!Without(event_list, c)
      /\ method_list' = Registry!Without(method_list, c)
  <2>1. event_list' = EraseEvents(c) /\ method_list' = EraseMethods(c)
    BY DEF DrainDead
  <2>2. /\ published[c] = {t \in Topic : event_list[t] = c}
        /\ provided[c] = {m \in Method : method_list[m] = c}
    BY <1>2 DEF RegistryInvariant, OwnershipAgrees
  <2>. QED
    BY <2>1, <2>2 DEF EraseEvents, EraseMethods, Registry!Without, TypeOK, MasterTypeOK
<1>. QED
  BY <1>2, <1>4, <1>5, MembersAreRegistered DEF Registry!Leave

(* Registering a topic is a member publishing it, or changes nothing.      *)
LEMMA EventRegisterPublishes ==
    ASSUME TypeOK, RegistryInvariant, NEW t \in Topic, EventRegister(t)
    PROVE  (\E c \in Conn : Registry!Publish(c, t)) \/ UNCHANGED directoryVars
<1>. DEFINE c == slots[cursor]
<1>1. CASE c \in socket_map
  <2>1. c \in Conn
    BY <1>1 DEF TypeOK, MasterTypeOK
  <2>. QED
    BY <1>1, <2>1, MembersAreRegistered DEF EventRegister, Respond, Registry!Publish
<1>2. CASE c \notin socket_map
  BY <1>2 DEF EventRegister, Crash, directoryVars
<1>. QED
  BY <1>1, <1>2

(* Registering a method is a member providing it, or changes nothing.      *)
LEMMA MethodProvideProvides ==
    ASSUME TypeOK, RegistryInvariant, NEW m \in Method, MethodProvide(m)
    PROVE  (\E c \in Conn : Registry!Provide(c, m)) \/ UNCHANGED directoryVars
<1>. DEFINE c == slots[cursor]
<1>1. CASE c \in socket_map
  <2>1. c \in Conn
    BY <1>1 DEF TypeOK, MasterTypeOK
  <2>. QED
    BY <1>1, <2>1, MembersAreRegistered DEF MethodProvide, Respond, Registry!Provide
<1>2. CASE c \notin socket_map
  BY <1>2 DEF MethodProvide, Crash, directoryVars
<1>. QED
  BY <1>1, <1>2

(* The steps that leave the tables alone are stutters of the directory.    *)
LEMMA OtherStutters ==
    ASSUME OtherStep
    PROVE  UNCHANGED directoryVars
<1>1. CASE (Drain /\ ~DrainDead) \/ Poll \/ ScanDone \/ Tick
  BY <1>1 DEF Drain, LockDead, DrainDeadUnknown, NoMoreDead, DrainNew,
     DrainNewUnknown, NoMoreNew, Poll, ScanDone, Tick, Crash, directoryVars
<1>2. CASE \E i \in Slot : Read(i)
  BY <1>2 DEF Read, ReadKeepAlive, ReadHeader, ReadMisaligned, ReadEof,
     ReadReset, Crash, directoryVars
<1>3. CASE \/ \E t \in Topic : EventDuplicate(t) \/ EventSubscribe(t)
           \/ \E m \in Method : MethodDuplicate(m) \/ MethodQuery(m)
           \/ \E arg \in {None, Malformed} : DebugQuery(arg)
           \/ InvalidRequest \/ GarbledContent \/ ContentEof
  BY <1>3, GarbledOutcome DEF EventDuplicate, EventSubscribe, MethodDuplicate,
     MethodQuery, DebugQuery, InvalidRequest, LeftOver, ContentEof, Respond, Crash,
     directoryVars
<1>4. CASE \/ AcceptFails \/ InitEof \/ JoinReply
           \/ \E n \in Name : RefuseDuplicate(n)
           \/ RefuseVersion \/ RefuseInvalid
  BY <1>4 DEF AcceptFails, InitEof, JoinReply, RefuseDuplicate, RefuseVersion,
     RefuseInvalid, Refuse, Crash, directoryVars
<1>5. CASE (\E c \in Conn : ClientStep(c)) \/ UNCHANGED vars
  BY <1>5 DEF ClientStep, vars, masterVars, directoryVars
<1>. QED
  BY <1>1, <1>2, <1>3, <1>4, <1>5 DEF OtherStep

(* The registry, read through its three lists alone, is the directory:     *)
(* whoever leaves takes all it owned along in one step, nothing is owned   *)
(* by a stranger, and nothing passes from owner to owner directly.         *)
THEOREM DirectoryImplemented == Spec => ImplementsDirectory
<1>1. Init => Registry!Init
  BY DEF Init, MasterInit, Registry!Init
<1>2. ASSUME TypeOK, RegistryInvariant, [Next]_vars
      PROVE  [Registry!Next]_(Registry!vars)
  <2>1. CASE OtherStep \/ \E c \in Conn : Accept(c)
    BY <2>1, OtherStutters DEF Accept, Registry!vars, directoryVars
  <2>2. CASE DrainDead
    BY <1>2, <2>2, DrainDeadLeaves DEF Registry!Next
  <2>3. ASSUME NEW n \in Name, Register(n)
        PROVE  [Registry!Next]_(Registry!vars)
    BY <1>2, <2>3, RegisterJoins DEF Registry!Next
  <2>4. ASSUME NEW t \in Topic, EventRegister(t)
        PROVE  [Registry!Next]_(Registry!vars)
    BY <1>2, <2>4, EventRegisterPublishes DEF Registry!Next, Registry!vars, directoryVars
  <2>5. ASSUME NEW m \in Method, MethodProvide(m)
        PROVE  [Registry!Next]_(Registry!vars)
    BY <1>2, <2>5, MethodProvideProvides DEF Registry!Next, Registry!vars, directoryVars
  <2>. QED
    BY <1>2, <2>1, <2>2, <2>3, <2>4, <2>5
       DEF OtherStep, Next, MasterStep, MasterNext, Worker, Drain, Serve, Acceptor
<1>. QED
  BY <1>1, <1>2, TypeCorrect, RegistryCorrect, PTL
     DEF Spec, ImplementsDirectory, Registry!Spec

-------------------------------------------------------------------------------
(* The answers.                                                            *)

(* When a connection has a reply more, it is the one that was sent.        *)
LEMMA SentLast ==
    ASSUME TypeOK, NEW x, NEW r \in Reply, Send(x, r), NEW c \in Conn,
           Len(replies'[c]) > Len(replies[c])
    PROVE  replies'[c][Len(replies'[c])] = r
<1>1. replies[c] \in Seq(Reply) /\ Len(replies[c]) \in Nat
  BY LenProperties DEF TypeOK, SocketsTypeOK
<1>2. replies'[c] # replies[c]
  BY <1>1
<1>3. replies'[c] = Append(replies[c], r)
  BY <1>2 DEF Send, TypeOK, SocketsTypeOK
<1>. QED
  BY <1>1, <1>3, AppendProperties

(* An answer that sends nobody anywhere is not stale.                      *)
LEMMA PlainAnswerFresh ==
    ASSUME TypeOK, NEW x, NEW response \in Response, Send(x, Answer(response)),
           NEW c \in Conn
    PROVE  FreshAnswer(c)
<1>1. Answer(response) \in Reply /\ Answer(response).at = None
  BY Answers DEF Answer
<1>. QED
  BY <1>1, SentLast DEF FreshAnswer

(* An answer that leads to a registered participant is not stale.          *)
LEMMA OwnerAnswerFresh ==
    ASSUME TypeOK, NEW x, NEW owner \in socket_map, UNCHANGED socket_map,
           Send(x, [response |-> "OK", at |-> owner]), NEW c \in Conn
    PROVE  FreshAnswer(c)
<1>1. owner \in Conn
  BY DEF TypeOK, MasterTypeOK
<1>. QED
  BY <1>1, Answers, SentLast DEF FreshAnswer

(* A step that sends nothing sends nothing stale.                          *)
LEMMA NoAnswerFresh ==
    ASSUME TypeOK, NEW c \in Conn,
           replies' = replies \/ (\E d \in Conn : TakeReply(d) \/ End(d))
    PROVE  FreshAnswer(c)
<1>1. replies[c] \in Seq(Reply) /\ Len(replies[c]) \in Nat
  BY LenProperties DEF TypeOK, SocketsTypeOK
<1>2. CASE replies' = replies
  BY <1>1, <1>2 DEF FreshAnswer
<1>3. ASSUME NEW d \in Conn, TakeReply(d)
      PROVE  FreshAnswer(c)
  <2>1. c # d => replies'[c] = replies[c]
    BY <1>3 DEF TakeReply, TypeOK, SocketsTypeOK
  <2>2. c = d => Len(replies'[c]) = Len(replies[c]) - 1
    BY <1>1, <1>3, HeadTailProperties DEF TakeReply, TypeOK, SocketsTypeOK
  <2>. QED
    BY <1>1, <2>1, <2>2 DEF FreshAnswer
<1>4. ASSUME NEW d \in Conn, End(d)
      PROVE  FreshAnswer(c)
  <2>1. replies'[c] = replies[c] \/ replies'[c] = <<>>
    BY <1>4 DEF End, TypeOK, SocketsTypeOK
  <2>. QED
    BY <1>1, <2>1 DEF FreshAnswer
<1>. QED
  BY <1>2, <1>3, <1>4

(* No handler sends a stale answer: the owner of a topic or of a method    *)
(* is registered, whatever was removed in the rounds before.               *)
LEMMA ServeFresh ==
    ASSUME TypeOK, RegistryInvariant, Serve, NEW c \in Conn
    PROVE  FreshAnswer(c)
<1>. DEFINE x == slots[cursor]
<1>0. "OK" \in Response /\ "DUPLICATE" \in Response /\ "NOT_PUBLISHED" \in Response
      /\ "INVALID" \in Response /\ "EMPTY" \in Response
  BY DEF Response
<1>1. ASSUME NEW response \in Response, Respond(x, Answer(response))
      PROVE  FreshAnswer(c)
  BY <1>1, PlainAnswerFresh DEF Respond
<1>2. ASSUME NEW owner \in socket_map, Respond(x, [response |-> "OK", at |-> owner])
      PROVE  FreshAnswer(c)
  BY <1>2, OwnerAnswerFresh DEF Respond
<1>3. ASSUME Crash("null_deref") \/ Crash("parse_error") \/ ContentEof
      PROVE  FreshAnswer(c)
  BY <1>3, NoAnswerFresh DEF Crash, ContentEof
<1>4. ASSUME NEW t \in Topic, EventRegister(t) \/ EventDuplicate(t)
      PROVE  FreshAnswer(c)
  BY <1>0, <1>1, <1>3, <1>4 DEF EventRegister, EventDuplicate
<1>5. ASSUME NEW t \in Topic, EventSubscribe(t)
      PROVE  FreshAnswer(c)
  BY <1>0, <1>1, <1>2, <1>5 DEF EventSubscribe, RegistryInvariant, OwnershipAgrees
<1>6. ASSUME NEW m \in Method, MethodProvide(m) \/ MethodDuplicate(m)
      PROVE  FreshAnswer(c)
  BY <1>0, <1>1, <1>3, <1>6 DEF MethodProvide, MethodDuplicate
<1>7. ASSUME NEW m \in Method, MethodQuery(m)
      PROVE  FreshAnswer(c)
  BY <1>0, <1>1, <1>2, <1>7 DEF MethodQuery, RegistryInvariant, OwnershipAgrees
<1>8. ASSUME NEW arg, DebugQuery(arg)
      PROVE  FreshAnswer(c)
  BY <1>0, <1>1, <1>8 DEF DebugQuery
<1>9. CASE InvalidRequest
  BY <1>0, <1>1, <1>9 DEF InvalidRequest
<1>10. CASE GarbledContent
  BY <1>0, <1>3, <1>10, GarbledOutcome, PlainAnswerFresh DEF LeftOver
<1>. QED
  BY <1>3, <1>4, <1>5, <1>6, <1>7, <1>8, <1>9, <1>10 DEF Serve

(* No subscriber and no caller is ever sent to a participant that the      *)
(* master has already removed.                                             *)
THEOREM FreshAnswers == Spec => AnswersAreFresh
<1>1. ASSUME TypeOK, RegistryInvariant, [Next]_vars, NEW c \in Conn
      PROVE  FreshAnswer(c)
  <2>1. CASE Serve
    BY <1>1, <2>1, ServeFresh
  <2>2. CASE JoinReply
    BY <1>1, <2>2, PlainAnswerFresh DEF JoinReply, TypeOK, MasterTypeOK
  <2>3. CASE Drain \/ Poll \/ ScanDone \/ Tick \/ UNCHANGED vars
    BY <1>1, <2>3, NoAnswerFresh DEF Drain, LockDead, DrainDead, DrainDeadUnknown,
       NoMoreDead, DrainNew, DrainNewUnknown, NoMoreNew, Poll, ScanDone, Tick,
       Crash, vars, clientVars
  <2>4. CASE \E i \in Slot : Read(i)
    BY <1>1, <2>4, NoAnswerFresh DEF Read, ReadKeepAlive, ReadHeader,
       ReadMisaligned, ReadEof, ReadReset, Crash
  <2>5. CASE \/ \E d \in Conn : Accept(d)
             \/ AcceptFails \/ InitEof
             \/ \E n \in Name : Register(n) \/ RefuseDuplicate(n)
             \/ RefuseVersion \/ RefuseInvalid
    BY <1>1, <2>5, NoAnswerFresh DEF Accept, AcceptFails, InitEof, Register,
       RefuseDuplicate, RefuseVersion, RefuseInvalid, Refuse, Crash
  <2>6. ASSUME NEW d \in Conn, ClientStep(d)
        PROVE  FreshAnswer(c)
    BY <1>1, <2>6, NoAnswerFresh DEF ClientStep, ClientNext, Connect, StartCall,
       WriteBody, EndJoin, EndCall, KeepAlive
  <2>. QED
    BY <1>1, <2>1, <2>2, <2>3, <2>4, <2>5, <2>6
       DEF Next, MasterStep, MasterNext, Worker, Acceptor
<1>2. TypeOK /\ RegistryInvariant /\ [Next]_vars => [\A c \in Conn : FreshAnswer(c)]_vars
  BY <1>1
<1>. QED
  BY <1>2, TypeCorrect, RegistryCorrect, PTL DEF Spec, AnswersAreFresh
===============================================================================
