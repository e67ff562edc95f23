----------------------------- MODULE TimedProofs ------------------------------
(***************************************************************************)
(* The control plane with its clocks.  A timed step is a step of the       *)
(* system, so that what is proved of ControlPlane holds here.  The rest is *)
(* about the times themselves, for any length of the second and of the     *)
(* sleep within it: how long a participant that has ended goes undeclared, *)
(* how long it stays after that, that nobody alive is declared dead, and   *)
(* when nobody gets two slots.                                             *)
(***************************************************************************)
EXTENDS ConnectionProofs, TimedControlPlane

(* The groups of variables, which every UNCHANGED is made of.              *)
USE DEF socketVars, infoVars, ownerVars, registryVars, pollVars, workerVars,
        acceptVars, callVars

-------------------------------------------------------------------------------
(* A timed step is a step of the system, or leaves all of it unchanged.    *)
LEMMA TimedStep == [TimedNext]_timedVars => [Next]_vars
<1>. SUFFICES ASSUME [TimedNext]_timedVars PROVE [Next]_vars
  OBVIOUS
<1>1. CASE UNCHANGED timedVars
  BY <1>1 DEF timedVars
<1>2. CASE WorkerSteps
  BY <1>2 DEF WorkerSteps, Next, MasterStep, MasterNext
<1>3. CASE AcceptorSteps
  BY <1>3 DEF AcceptorSteps, Next, MasterStep, MasterNext
<1>4. CASE WatchdogSteps
  BY <1>4 DEF WatchdogSteps, Next, MasterStep, MasterNext
<1>5. ASSUME NEW c \in Conn, SenderSteps(c) PROVE [Next]_vars
  <2>1. CASE Unread(c) < MaxUnread
    BY <1>5, <2>1 DEF SenderSteps, Next, ClientStep, ClientNext
  <2>2. CASE ~(Unread(c) < MaxUnread)
    BY <1>5, <2>2 DEF SenderSteps
  <2>. QED
    BY <2>1, <2>2
<1>6. ASSUME NEW c \in Conn, ApplicationSteps(c) PROVE [Next]_vars
  BY <1>6 DEF ApplicationSteps, Joins, Next, ClientStep, ClientNext
<1>7. CASE Pass
  BY <1>7 DEF Pass
<1>. QED
  BY <1>1, <1>2, <1>3, <1>4, <1>5, <1>6, <1>7 DEF TimedNext

(* The timed system is the control plane at certain moments: every safety  *)
(* property of ControlPlane is one of TimedControlPlane.                   *)
THEOREM TimedIsUntimed == TimedSpec => Spec
<1>1. TimedInit => Init
  BY DEF TimedInit
<1>. QED
  BY <1>1, TimedStep, PTL DEF TimedSpec, Spec

-------------------------------------------------------------------------------
(* The timers.                                                             *)

(* A timer that runs stays within its length.                              *)
LEMMA LessIn ==
    ASSUME NEW n \in Nat, NEW timer \in 0..n
    PROVE  Less(timer) \in 0..n
BY DEF Less

(* The clocks keep their types, whatever the lengths of the timers.        *)
LEMMA ClocksTyped == TimedSpec => []ClocksTypeOK
<1>0. LongestStay \in Nat /\ Second \in Nat /\ LoopSleep \in Nat
  BY ClockConstants, ClientArguments DEF LongestStay, SilentFor
<1>1. TimedInit => ClocksTypeOK
  BY <1>0 DEF TimedInit, ClocksTypeOK
<1>2. ClocksTypeOK /\ [TimedNext]_timedVars => ClocksTypeOK'
  <2>. SUFFICES ASSUME ClocksTypeOK, [TimedNext]_timedVars PROVE ClocksTypeOK'
    OBVIOUS
  <2>. USE <1>0 DEF ClocksTypeOK
  <2>1. CASE UNCHANGED timedVars
    BY <2>1 DEF timedVars, clocks
  <2>2. CASE WorkerSteps
    BY <2>2 DEF WorkerSteps
  <2>3. CASE AcceptorSteps
    BY <2>3 DEF AcceptorSteps, clocks
  <2>4. CASE WatchdogSteps
    BY <2>4 DEF WatchdogSteps
  <2>5. ASSUME NEW c \in Conn, SenderSteps(c) PROVE ClocksTypeOK'
    BY <2>5 DEF SenderSteps
  <2>6. ASSUME NEW c \in Conn, ApplicationSteps(c) PROVE ClocksTypeOK'
    BY <2>6 DEF ApplicationSteps, clocks
  <2>7. CASE Pass
    <3>1. tick_in' \in 0..Second /\ wake_in' \in 0..LoopSleep /\ poll_in' \in 0..Second
      BY <2>7, LessIn DEF Pass
    <3>2. send_in' \in [Conn -> 0..Second]
      <4>1. \A c \in Conn : Less(send_in[c]) \in 0..Second
        BY LessIn
      <4>. QED
        BY <2>7, <4>1 DEF Pass
    <3>3. gone_for' \in [Conn -> 0..(LongestStay + 1)]
      BY <2>7 DEF Pass
    <3>. QED
      BY <3>1, <3>2, <3>3
  <2>. QED
    BY <2>1, <2>2, <2>3, <2>4, <2>5, <2>6, <2>7 DEF TimedNext
<1>. QED
  BY <1>1, <1>2, PTL DEF TimedSpec

-------------------------------------------------------------------------------
(* What holds of the control plane, in the timed system.                   *)

(* While its clocks run the registry agrees with itself and with every     *)
(* participant that is in no call, a call has one answer, and no read      *)
(* fails in the middle of a frame.                                         *)
THEOREM TimedSafety ==
    TimedSpec => [](/\ RegistryInvariant /\ ClientsAgree /\ OneAnswerPerCall
                    /\ NoReadFailsMidFrame)
BY TimedIsUntimed, RegistryCorrect, Agreement, OneAnswer, NoFailedReads, PTL

-------------------------------------------------------------------------------
(* What a participant says once the acceptor has heard it: keep-alives.    *)

OnlyKeepAlives(c) == \A i \in DOMAIN stream[c] : stream[c][i] = Header("KEEP_ALIVE")

(* Whom the master knows, in the registry or by its slot alone.            *)
Known(c) == c \in socket_map \/ HasSlot(c)

(* One that is known was told OK, or will be, has written its joining      *)
(* frame in full, and ended with no keep-alive unread if it reset its end. *)
Talk(c) ==
    /\ call[c].pc # "body"
    /\ OnlyKeepAlives(c) /\ Len(stream[c]) <= MaxUnread
    /\ peer[c] \in {"joining", "reset"} \/ Greeting(c) => stream[c] = <<>>
    /\ peer[c] # "refused"
    /\ Greeting(c) => a_response = "OK"
    /\ peer[c] = "joining" /\ replies[c] # <<>> => Granted(c)

(* Nobody makes a call but to join.                                        *)
OnlyJoins(c) == IF peer[c] = "joining" THEN call[c].pc # "idle" ELSE call[c] = Idle

TalkInv ==
    /\ w_pc # "content"
    /\ \A c \in Conn : OnlyJoins(c)
    /\ \A c \in Conn : Known(c) => Talk(c)

(* Who is known was heard by the acceptor.                                 *)
LEMMA KnownHeard ==
    ASSUME TypeOK, RegistryInvariant, ConversationInv, NEW c \in Conn, Known(c)
    PROVE  ~Unheard(c) /\ peer[c] # "unused"
<1>1. ~Unheard(c)
  BY ConstantsDistinct DEF Known, HasSlot, Unheard, RegistryInvariant, AcceptorHolds,
     ConversationInv, SlotsHeard
<1>. QED
  BY <1>1 DEF Unheard, ConversationInv, Conversation, Opens

(* The head of a stream of keep-alives is one, and so is the rest.         *)
LEMMA KeepAliveHead ==
    ASSUME TypeOK, NEW c \in Conn, OnlyKeepAlives(c), stream[c] # <<>>
    PROVE  /\ Head(stream[c]) = Header("KEEP_ALIVE")
           /\ \A i \in DOMAIN Tail(stream[c]) : Tail(stream[c])[i] = Header("KEEP_ALIVE")
           /\ Len(stream[c]) \in Nat /\ Len(Tail(stream[c])) = Len(stream[c]) - 1
<1>. DEFINE s == stream[c]
<1>1. s \in Seq(Chunk)
  BY DEF TypeOK, SocketsTypeOK
<1>2. /\ Len(s) \in Nat \ {0} /\ DOMAIN s = 1..Len(s) /\ DOMAIN Tail(s) = 1..(Len(s) - 1)
      /\ \A i \in 1..(Len(s) - 1) : Tail(s)[i] = s[i + 1]
      /\ Head(s) = s[1] /\ Len(Tail(s)) = Len(s) - 1
  BY <1>1, LenProperties, HeadTailProperties, EmptySeq
<1>. HIDE DEF s
<1>3. \A i \in DOMAIN s : s[i] = Header("KEEP_ALIVE")
  BY DEF OnlyKeepAlives, s
<1>4. \A i \in 1..(Len(s) - 1) : i + 1 \in DOMAIN s
  BY <1>2
<1>. QED
  BY <1>2, <1>3, <1>4 DEF s

(* Of such a stream every chunk is an unread keep-alive.                   *)
LEMMA UnreadChunks ==
    ASSUME TypeOK, NEW c \in Conn
    PROVE  /\ Len(stream[c]) \in Nat
           /\ Len(stream[c]) = 0 <=> stream[c] = <<>>
           /\ OnlyKeepAlives(c) => Unread(c) = Len(stream[c])
           /\ stream[c] = <<>> => Unread(c) = 0
<1>1. stream[c] \in Seq(Chunk)
  BY DEF TypeOK, SocketsTypeOK
<1>2. Len(stream[c]) \in Nat /\ DOMAIN stream[c] = 1..Len(stream[c])
      /\ (Len(stream[c]) = 0 <=> stream[c] = <<>>)
  BY <1>1, LenProperties, EmptySeq
<1>3. Cardinality(1..Len(stream[c])) = Len(stream[c])
  BY <1>2, FS_Interval
<1>4. ASSUME OnlyKeepAlives(c) PROVE Unread(c) = Len(stream[c])
  <2>1. {i \in DOMAIN stream[c] : stream[c][i].type = "KEEP_ALIVE"} = 1..Len(stream[c])
    BY <1>2, <1>4 DEF OnlyKeepAlives, Header
  <2>. QED
    BY <1>3, <2>1 DEF Unread
<1>5. ASSUME stream[c] = <<>> PROVE OnlyKeepAlives(c)
  BY <1>2, <1>5 DEF OnlyKeepAlives
<1>. QED
  BY <1>2, <1>4, <1>5

(* Only a joining frame has a content, so that the worker reads none.      *)
LEMMA WorkerActs ==
    ASSUME TypeOK, TalkInv, Worker
    PROVE  \/ Drain \/ Poll \/ ScanDone
           \/ \E i \in Slot : ReadKeepAlive(i) \/ ReadEof(i) \/ ReadReset(i)
<1>1. ~Serve
  BY DEF TalkInv, Serve, EventRegister, EventDuplicate, EventSubscribe, MethodProvide,
     MethodDuplicate, MethodQuery, DebugQuery, InvalidRequest, GarbledContent, ContentEof,
     Serving
<1>2. ASSUME NEW i \in Slot, ReadHeader(i) \/ ReadMisaligned(i)
      PROVE  FALSE
  <2>1. slots[i] \in Conn /\ Known(slots[i]) /\ stream[slots[i]] # <<>>
    BY <1>2 DEF ReadHeader, ReadMisaligned, AtSlot, ToServe, Known, HasSlot, TypeOK,
       MasterTypeOK
  <2>2. Head(stream[slots[i]]) = Header("KEEP_ALIVE")
    BY <2>1, KeepAliveHead DEF TalkInv, Talk
  <2>. QED
    BY <1>2, <2>2 DEF ReadHeader, ReadMisaligned, Header, RequestType
<1>. QED
  BY <1>1, <1>2 DEF Worker, Read

(* Nothing that c says, or is told, changes.                               *)
SaysNothing(c) ==
    /\ peer'[c] = peer[c] /\ call'[c] = call[c]
    /\ stream'[c] = stream[c] /\ replies'[c] = replies[c]
    /\ Greeting(c)' => Greeting(c) /\ a_response' = a_response

(* A step that concerns one connection, and makes none but it known.       *)
LEMMA OneTalks ==
    ASSUME TalkInv, w_pc' # "content", NEW d,
           \A c \in Conn \ {d} : SaysNothing(c) /\ (Known(c)' => Known(c)),
           d \in Conn => OnlyJoins(d)' /\ (Known(d)' => Talk(d)')
    PROVE  TalkInv'
<1>1. ASSUME NEW c \in Conn \ {d}, Known(c)'
      PROVE  Talk(c)'
  <2>1. Talk(c) /\ SaysNothing(c)
    BY <1>1 DEF TalkInv
  <2>. QED
    BY <2>1 DEF Talk, SaysNothing, OnlyKeepAlives, Granted
<1>2. ASSUME NEW c \in Conn \ {d}
      PROVE  OnlyJoins(c)'
  BY <1>2 DEF TalkInv, OnlyJoins, SaysNothing
<1>. QED
  BY <1>1, <1>2 DEF TalkInv

(* The steps of the worker.                                                *)
LEMMA WorkerTalk ==
    ASSUME TypeOK, RegistryInvariant, ConversationInv, TalkInv, Worker,
           UNCHANGED callVars
    PROVE  TalkInv'
<1>1. CASE Drain \/ Poll \/ ScanDone
  <2>1. UNCHANGED <<peer, stream, replies, call, a_pc, a_conn, a_response>>
    BY <1>1 DEF Drain, LockDead, DrainDead, DrainDeadUnknown, NoMoreDead, DrainNew,
       DrainNewUnknown, NoMoreNew, Poll, ScanDone, Crash
  <2>2. w_pc' # "content"
    BY <1>1 DEF Drain, LockDead, DrainDead, DrainDeadUnknown, NoMoreDead, DrainNew,
       DrainNewUnknown, NoMoreNew, Poll, ScanDone, Crash, TalkInv
  <2>3. ASSUME NEW c \in Conn, Known(c)' PROVE Known(c)
    <3>1. CASE DrainNew
      <4>1. Head(new_q) \in Name
        BY <3>1, HeadTailProperties DEF DrainNew, TypeOK, MasterTypeOK
      <4>2. participant_list[Head(new_q)] = c => c \in socket_map
        BY <4>1, ConstantsDistinct DEF RegistryInvariant, RegistryAgrees, Participants
      <4>3. socket_map' = socket_map
            /\ \A i \in Slot : slots'[i] \in {slots[i], participant_list[Head(new_q)]}
        BY <3>1 DEF DrainNew
      <4>. QED
        BY <2>3, <4>2, <4>3 DEF Known, HasSlot
    <3>2. CASE DrainDead
      BY <2>3, <3>2, ConstantsDistinct DEF DrainDead, ClearFirst, Known, HasSlot
    <3>3. CASE ~DrainNew /\ ~DrainDead
      <4>1. UNCHANGED <<slots, socket_map>>
        BY <1>1, <3>3 DEF Drain, LockDead, DrainDeadUnknown, NoMoreDead, DrainNewUnknown,
           NoMoreNew, Poll, ScanDone, Crash
      <4>. QED
        BY <2>3, <4>1 DEF Known, HasSlot
    <3>. QED
      BY <3>1, <3>2, <3>3
  <2>4. \A c \in Conn : SaysNothing(c)
    BY <2>1 DEF SaysNothing, Greeting
  <2>5. None \notin Conn
    BY ConstantsDistinct
  <2>. QED
    BY <2>2, <2>3, <2>4, <2>5, OneTalks
<1>2. ASSUME NEW i \in Slot, ReadKeepAlive(i) \/ ReadEof(i) \/ ReadReset(i)
      PROVE  TalkInv'
  <2>0. PICK d \in Conn : d = slots[i]
    BY <1>2 DEF ReadKeepAlive, ReadEof, ReadReset, AtSlot, ToServe, TypeOK, MasterTypeOK
  <2>1. Known(d) /\ Talk(d) /\ ~Unheard(d)
    BY <1>2, <2>0, KnownHeard DEF ReadKeepAlive, ReadEof, ReadReset, AtSlot, ToServe, Known,
       HasSlot, TalkInv, TypeOK, MasterTypeOK
  <2>2. /\ UNCHANGED <<replies, call, a_pc, a_conn, a_response, socket_map>>
        /\ w_pc' = "scan"
        /\ slots' = slots \/ slots' = [slots EXCEPT ![i] = None]
    BY <1>2 DEF ReadKeepAlive, ReadEof, ReadReset, NextSlot
  <2>3. \A c \in Conn : Known(c)' => Known(c)
    BY <2>2, ConstantsDistinct DEF Known, HasSlot, TypeOK, MasterTypeOK
  <2>4. /\ \A c \in Conn \ {d} : peer'[c] = peer[c] /\ stream'[c] = stream[c]
        /\ peer'[d] = peer[d] \/ (peer[d] = "reset" /\ peer'[d] = "closed")
        /\ stream'[d] = stream[d] \/ (stream[d] # <<>> /\ stream'[d] = Tail(stream[d]))
    BY <1>2, <2>0 DEF ReadKeepAlive, ReadEof, ReadReset, Consume, TypeOK, SocketsTypeOK
  <2>5. OnlyKeepAlives(d)' /\ Len(stream'[d]) <= MaxUnread
        /\ (stream[d] = <<>> => stream'[d] = <<>>)
    <3>1. CASE stream'[d] = stream[d]
      BY <2>1, <3>1 DEF Talk, OnlyKeepAlives
    <3>2. CASE stream[d] # <<>> /\ stream'[d] = Tail(stream[d])
      <4>1. OnlyKeepAlives(d) /\ Len(stream[d]) <= MaxUnread
        BY <2>1 DEF Talk
      <4>2. /\ OnlyKeepAlives(d)'
            /\ Len(stream[d]) \in Nat /\ Len(stream'[d]) = Len(stream[d]) - 1
        BY <2>1, <3>2, <4>1, KeepAliveHead DEF OnlyKeepAlives
      <4>. QED
        BY <3>2, <4>1, <4>2, ClientArguments
    <3>. QED
      BY <2>4, <3>1, <3>2
  <2>6. Talk(d)'
    <3>1. Greeting(d)' = Greeting(d)
      BY <2>2 DEF Greeting
    <3>. QED
      BY <2>1, <2>2, <2>4, <2>5, <3>1 DEF Talk, Granted
  <2>7. OnlyJoins(d)'
    BY <2>1, <2>2, <2>4 DEF TalkInv, OnlyJoins
  <2>8. \A c \in Conn \ {d} : SaysNothing(c)
    BY <2>2, <2>4 DEF SaysNothing, Greeting
  <2>. QED
    BY <2>1, <2>2, <2>3, <2>6, <2>7, <2>8, OneTalks
<1>. QED
  BY <1>1, <1>2, WorkerActs

(* The joining frame that is read is all that its participant has written. *)
LEMMA JoiningFrame ==
    ASSUME TypeOK, RegistryInvariant, ConversationInv, NEW arg, Joining(arg)
    PROVE  /\ a_conn \in Conn \ socket_map /\ Unheard(a_conn)
           /\ peer[a_conn] \in {"joining", "closed"} /\ replies[a_conn] = <<>>
           /\ peer[a_conn] = "joining" => call[a_conn].pc # "body"
           /\ stream' = [stream EXCEPT ![a_conn] = <<>>]
<1>1. PICK d \in Conn : d = a_conn /\ d \in accepted \ socket_map /\ Unheard(d)
  BY DEF Joining, TypeOK, MasterTypeOK, RegistryInvariant, AcceptorHolds, Unheard
<1>2. Opens(d) /\ Len(stream[d]) >= 2
  BY <1>1 DEF Joining, ConversationInv, Conversation
<1>3. stream[d] # <<>> /\ stream[d] # HalfFrame
  <2>1. PICK n \in Nat : n = Len(stream[d]) /\ n >= 2
    BY <1>2, Counts DEF TypeOK
  <2>2. ASSUME stream[d] = HalfFrame PROVE FALSE
    <3>1. Len(stream[d]) = 1
      BY <2>2 DEF HalfFrame
    <3>. QED
      BY <2>1, <3>1
  <2>. QED
    BY <2>1, <2>2
<1>4. Len(stream[d]) = 2
  BY <1>1, <1>2, <1>3, JoinFrames DEF Opens
<1>5. SubSeq(stream[d], 3, Len(stream[d])) = <<>>
  BY <1>4, SubSeqProperties DEF TypeOK, SocketsTypeOK
<1>. QED
  BY <1>1, <1>2, <1>3, <1>5 DEF Opens, Joining

(* The steps of the acceptor.                                              *)
LEMMA AcceptorTalk ==
    ASSUME TypeOK, RegistryInvariant, ConversationInv, TalkInv, Acceptor,
           UNCHANGED callVars
    PROVE  TalkInv'
<1>0. None \notin Conn /\ w_pc # "content"
  BY ConstantsDistinct DEF TalkInv
<1>1. CASE AcceptFails \/ InitEof \/ \E c \in Conn : Accept(c)
  <2>1. /\ UNCHANGED <<peer, stream, replies, call, w_pc, slots, socket_map>>
        /\ a_pc' = "reply" => UNCHANGED <<a_pc, a_conn, a_response>>
    BY <1>1 DEF AcceptFails, InitEof, Accept, NextAccept, Crash
  <2>2. \A c \in Conn : SaysNothing(c) /\ Known(c)' = Known(c)
    BY <2>1 DEF SaysNothing, Greeting, Known, HasSlot
  <2>. QED
    BY <1>0, <2>1, <2>2, OneTalks
<1>2. ASSUME NEW arg, NEW r, Joining(arg), JoinAnswer(r),
             UNCHANGED <<peer, replies, call, w_pc, slots>>,
             socket_map' = socket_map \/ (socket_map' = socket_map \cup {a_conn} /\ r = "OK")
      PROVE  TalkInv'
  <2>1. PICK d \in Conn : d = a_conn
    BY <1>2, JoiningFrame
  <2>2. /\ d \notin socket_map /\ Unheard(d)
        /\ peer[d] \in {"joining", "closed"} /\ replies[d] = <<>>
        /\ peer[d] = "joining" => call[d].pc # "body"
        /\ stream' = [stream EXCEPT ![d] = <<>>]
    BY <1>2, <2>1, JoiningFrame
  <2>3. a_conn' = d /\ a_response' = r
    BY <1>2, <2>1 DEF JoinAnswer
  <2>4. \A c \in Conn \ {d} : SaysNothing(c) /\ (Known(c)' => Known(c))
    BY <1>2, <2>1, <2>2, <2>3 DEF SaysNothing, Greeting, Known, HasSlot, TypeOK, SocketsTypeOK
  <2>5. Known(d)' => Talk(d)'
    <3>1. SUFFICES ASSUME Known(d)' PROVE Talk(d)'
      OBVIOUS
    <3>2. ~Known(d) /\ r = "OK"
      BY <1>2, <2>1, <2>2, <3>1, KnownHeard DEF Known, HasSlot
    <3>3. stream'[d] = <<>> /\ OnlyKeepAlives(d)' /\ Len(stream'[d]) <= MaxUnread
      BY <2>2, EmptySeq, ClientArguments DEF TypeOK, SocketsTypeOK, OnlyKeepAlives
    <3>4. call'[d].pc # "body" /\ call' = call
      BY <1>2, <2>2 DEF TalkInv, OnlyJoins, Idle
    <3>. QED
      BY <1>2, <2>2, <2>3, <3>2, <3>3, <3>4 DEF Talk, Granted
  <2>6. OnlyJoins(d)'
    BY <1>2 DEF TalkInv, OnlyJoins
  <2>7. w_pc' # "content"
    BY <1>0, <1>2
  <2>. QED
    BY <2>4, <2>5, <2>6, <2>7, OneTalks
<1>3. CASE JoinReply
  <2>1. PICK d \in Conn : d = a_conn /\ Greeting(d)
    BY <1>3 DEF JoinReply, TypeOK, MasterTypeOK, Greeting
  <2>2. /\ UNCHANGED <<call, slots, socket_map, stream, w_pc>>
        /\ a_pc' = "accept" /\ Send(d, Answer(a_response))
    BY <1>3, <2>1 DEF JoinReply, NextAccept
  <2>3. replies[d] = <<>> /\ peer[d] \in {"joining", "closed"}
    BY <2>1, GreetingAlone
  <2>4. \A c \in Conn \ {d} : replies'[c] = replies[c] /\ peer'[c] = peer[c]
    BY <2>2 DEF Send, TypeOK, SocketsTypeOK
  <2>5. \A c \in Conn \ {d} : SaysNothing(c)
    BY <2>2, <2>4 DEF SaysNothing, Greeting
  <2>6. \A c \in Conn : Known(c)' => Known(c)
    BY <2>2 DEF Known, HasSlot
  <2>7. \/ peer[d] = "joining" /\ peer'[d] = "joining"
           /\ replies'[d] = Append(<<>>, Answer(a_response))
        \/ peer[d] = "closed" /\ peer'[d] = "reset" /\ replies'[d] = <<>>
    BY <2>2, <2>3 DEF Send, Ended, TypeOK, SocketsTypeOK
  <2>8. Known(d) => Talk(d)'
    <3>1. SUFFICES ASSUME Known(d) PROVE Talk(d)'
      OBVIOUS
    <3>2. Talk(d) /\ stream[d] = <<>> /\ a_response = "OK"
      BY <2>1, <3>1 DEF TalkInv, Talk
    <3>3. /\ OnlyKeepAlives(d)' /\ Len(stream'[d]) <= MaxUnread /\ stream'[d] = <<>>
          /\ call'[d].pc # "body" /\ ~Greeting(d)'
      BY <2>2, <3>2 DEF Talk, OnlyKeepAlives, Greeting
    <3>4. replies'[d] # <<>> => Granted(d)'
      <4>1. Answer("OK") \in Reply /\ Answer("OK").response = "OK"
        BY Answers DEF Response, Answer
      <4>2. Head(Append(<<>>, Answer("OK"))) = Answer("OK")
        BY <4>1, EmptySeq, AppendProperties
      <4>. QED
        BY <2>7, <3>2, <4>1, <4>2 DEF Granted
    <3>. QED
      BY <2>7, <3>3, <3>4 DEF Talk
  <2>9. OnlyJoins(d)'
    BY <2>2, <2>7 DEF TalkInv, OnlyJoins
  <2>. QED
    BY <1>0, <2>2, <2>5, <2>6, <2>8, <2>9, OneTalks
<1>4. ASSUME NEW n \in Name, Register(n) \/ RefuseDuplicate(n)
      PROVE  TalkInv'
  BY <1>2, <1>4 DEF Register, RefuseDuplicate, Refuse
<1>5. CASE RefuseVersion \/ RefuseInvalid
  BY <1>2, <1>5 DEF RefuseVersion, RefuseInvalid, Refuse
<1>. QED
  BY <1>1, <1>3, <1>4, <1>5 DEF Acceptor

(* The watchdog, and time, say nothing.                                    *)
LEMMA TickTalk ==
    ASSUME TalkInv, UNCHANGED <<socketVars, call, slots, socket_map, w_pc, acceptVars>>
    PROVE  TalkInv'
<1>1. \A c \in Conn : SaysNothing(c) /\ Known(c)' = Known(c)
  BY DEF SaysNothing, Greeting, Known, HasSlot
<1>2. None \notin Conn /\ w_pc' # "content"
  BY ConstantsDistinct DEF TalkInv
<1>. QED
  BY <1>1, <1>2, OneTalks

(* The steps of a participant.                                             *)
LEMMA ClientTalk ==
    ASSUME TypeOK, RegistryInvariant, ConversationInv, TalkInv, NEW d \in Conn,
           UNCHANGED masterVars,
           \/ KeepAlive(d) \/ WriteBody(d) \/ EndJoin(d) \/ End(d)
           \/ \E arg \in JoinArgs : Connect(d, arg)
    PROVE  TalkInv'
<1>0. UNCHANGED <<w_pc, slots, socket_map, a_pc, a_conn, a_response>>
  BY DEF masterVars
<1>1. \A c \in Conn \ {d} : SaysNothing(c)
  BY <1>0 DEF KeepAlive, WriteBody, EndJoin, End, Connect, TakeReply, WriteHeader, Write,
     SaysNothing, Greeting, TypeOK, SocketsTypeOK, ClientTypeOK
<1>2. \A c \in Conn : Known(c)' = Known(c)
  BY <1>0 DEF Known, HasSlot
<1>3. Greeting(d)' = Greeting(d)
  BY <1>0 DEF Greeting
<1>4. OnlyJoins(d)'
  BY DEF TalkInv, OnlyJoins, KeepAlive, WriteBody, EndJoin, End, Connect, TakeReply,
     WriteHeader, TypeOK, SocketsTypeOK, ClientTypeOK, Call, Idle
<1>5. Known(d) => Talk(d)'
  <2>1. SUFFICES ASSUME Known(d) PROVE Talk(d)'
    OBVIOUS
  <2>2. Talk(d) /\ ~Unheard(d) /\ peer[d] # "unused"
    BY <2>1, KnownHeard DEF TalkInv
  <2>3. CASE KeepAlive(d)
    <3>. DEFINE k == Header("KEEP_ALIVE")
    <3>1. /\ stream'[d] = Append(stream[d], k) /\ UNCHANGED <<peer, replies, call>>
          /\ peer[d] = "up" /\ Unread(d) < MaxUnread
      BY <2>3 DEF KeepAlive, Write, TypeOK, SocketsTypeOK
    <3>2. stream[d] \in Seq(Chunk) /\ k \in Chunk
      BY DEF TypeOK, SocketsTypeOK, Header, Chunk, FrameType, Argument
    <3>3. /\ Len(stream[d]) \in Nat /\ DOMAIN stream[d] = 1..Len(stream[d])
          /\ DOMAIN stream'[d] = 1..(Len(stream[d]) + 1)
          /\ Len(stream'[d]) = Len(stream[d]) + 1
          /\ \A i \in 1..Len(stream[d]) : stream'[d][i] = stream[d][i]
          /\ stream'[d][Len(stream[d]) + 1] = k
      BY <3>1, <3>2, LenProperties, AppendProperties
    <3>4. Unread(d) = Len(stream[d])
      BY <2>2, UnreadChunks DEF Talk
    <3>5. Len(stream'[d]) <= MaxUnread
      BY <3>1, <3>3, <3>4, ClientArguments
    <3>6. OnlyKeepAlives(d)'
      <4>1. ASSUME NEW i \in 1..(Len(stream[d]) + 1)
            PROVE  stream'[d][i] = k
        BY <2>2, <3>3 DEF Talk, OnlyKeepAlives
      <4>. QED
        BY <3>3, <4>1 DEF OnlyKeepAlives
    <3>7. ~Greeting(d)
      BY <3>1, GreetingAlone
    <3>. QED
      BY <1>3, <2>2, <3>1, <3>5, <3>6, <3>7 DEF Talk
  <2>4. CASE EndJoin(d)
    <3>1. /\ peer[d] = "joining" /\ replies[d] # <<>> /\ Granted(d) /\ stream' = stream
          /\ peer'[d] = "up" /\ call'[d] = Idle
      BY <2>2, <2>4 DEF EndJoin, TakeReply, Talk, TypeOK, SocketsTypeOK, ClientTypeOK
    <3>2. ~Greeting(d)
      BY <3>1, GreetingAlone
    <3>. QED
      BY <1>3, <2>2, <3>1, <3>2 DEF Talk, OnlyKeepAlives, Idle
  <2>5. CASE End(d)
    <3>1. /\ peer[d] \in {"joining", "up", "refused"} /\ stream' = stream
          /\ peer'[d] = IF replies[d] = <<>> THEN "closed" ELSE "reset"
          /\ call'[d] = Idle /\ replies'[d] = <<>>
      BY <2>5 DEF End, TypeOK, SocketsTypeOK, ClientTypeOK
    <3>2. peer[d] # "joining" => replies[d] = <<>>
      <4>1. ASSUME peer[d] # "joining" PROVE Pending(d) = 0
        BY <3>1, <4>1 DEF TalkInv, OnlyJoins, ConversationInv, Conversation, AsksOnce, Ended
      <4>2. /\ Cardinality(Sent(stream[d])) \in Nat /\ Len(replies[d]) \in Nat
            /\ Len(replies[d]) = 0 => replies[d] = <<>>
        BY Counts DEF TypeOK
      <4>. QED
        BY <4>1, <4>2 DEF Pending
    <3>. QED
      BY <1>0, <1>3, <2>2, <3>1, <3>2 DEF Talk, OnlyKeepAlives, Idle
  <2>6. ~WriteBody(d) /\ ~\E arg \in JoinArgs : Connect(d, arg)
    BY <2>2 DEF Talk, WriteBody, Connect
  <2>. QED
    BY <2>3, <2>4, <2>5, <2>6
<1>6. w_pc' # "content"
  BY <1>0 DEF TalkInv
<1>. QED
  BY <1>1, <1>2, <1>4, <1>5, <1>6, OneTalks

(* Before the first connection nobody is known, and nobody calls.          *)
LEMMA InitTalk == Init => TalkInv
BY ConstantsDistinct DEF Init, SocketsInit, MasterInit, ClientInit, TalkInv, OnlyJoins,
   Known, HasSlot

(* Every timed step keeps it.                                              *)
LEMMA NextTalk ==
    ASSUME TypeOK, RegistryInvariant, ConversationInv, TalkInv, [TimedNext]_timedVars
    PROVE  TalkInv'
<1>1. CASE UNCHANGED vars
  BY <1>1, TickTalk DEF vars, masterVars, clientVars
<1>2. CASE WorkerSteps
  BY <1>2, WorkerTalk DEF WorkerSteps
<1>3. CASE AcceptorSteps
  BY <1>3, AcceptorTalk DEF AcceptorSteps
<1>4. CASE WatchdogSteps
  BY <1>4, TickTalk DEF WatchdogSteps, Tick
<1>5. ASSUME NEW c \in Conn, SenderSteps(c) \/ ApplicationSteps(c)
      PROVE  TalkInv'
  BY <1>1, <1>5, ClientTalk DEF SenderSteps, ApplicationSteps, Joins
<1>. QED
  BY <1>1, <1>2, <1>3, <1>4, <1>5 DEF TimedNext, timedVars, Pass

(* What is known of the timed system besides its clocks.                   *)
LEMMA TimedTalk ==
    TimedSpec => [](TypeOK /\ RegistryInvariant /\ ConversationInv /\ TalkInv)
<1>1. TypeOK /\ RegistryInvariant /\ ConversationInv /\ TalkInv /\ [TimedNext]_timedVars
        => TalkInv'
  BY NextTalk
<1>2. TimedInit => TalkInv
  BY InitTalk DEF TimedInit
<1>. QED
  BY <1>1, <1>2, TimedIsUntimed, TypeCorrect, RegistryCorrect, Conversations, PTL
     DEF TimedSpec

(* What the clocks are read against.                                       *)
TimedBase ==
    TypeOK /\ RegistryInvariant /\ ConversationInv /\ TalkInv /\ ClocksTypeOK

(* A keep-alive thread has not started before its participant has joined,  *)
(* and no time passes before the acceptor has answered.                    *)
ClockInv ==
    \A c \in Conn :
        /\ peer[c] \in {"unused", "joining"} => send_in[c] = 0
        /\ ~Ended(c) \/ Unheard(c) \/ Greeting(c) => gone_for[c] = 0

(* Who has not joined had not, and who is heard was heard before.          *)
LEMMA HeardOnce ==
    ASSUME TypeOK, [Next]_vars, NEW c \in Conn
    PROVE  /\ peer'[c] \in {"unused", "joining"} => peer[c] \in {"unused", "joining"}
           /\ Unheard(c)' => Unheard(c)
           /\ Greeting(c)' => Greeting(c) \/ Unheard(c)
<1>1. ASSUME NEW x, NEW r, Send(x, r), peer'[c] \in {"unused", "joining"}
      PROVE  peer[c] \in {"unused", "joining"}
  BY <1>1 DEF Send, TypeOK, SocketsTypeOK
<1>2. ASSUME NEW d \in Conn, ClientStep(d)
      PROVE  /\ peer'[c] \in {"unused", "joining"} => peer[c] \in {"unused", "joining"}
             /\ UNCHANGED acceptVars
  BY <1>2 DEF ClientStep, ClientNext, Connect, StartCall, WriteBody, EndJoin, EndCall,
     KeepAlive, End, TakeReply, TypeOK, SocketsTypeOK, masterVars
<1>3. CASE MasterStep
  <2>1. CASE Serve
    <3>1. \/ UNCHANGED peer
          \/ \E r : Send(slots[cursor], r)
      BY <2>1, ServeAnswers DEF LeftOver, ContentEof, Crash, Respond
    <3>2. UNCHANGED acceptVars
      BY <2>1, ServeAnswers DEF LeftOver, ContentEof, Crash, Respond
    <3>. QED
      BY <1>1, <3>1, <3>2 DEF Unheard, Greeting
  <2>2. CASE Drain \/ Poll \/ ScanDone \/ Tick
    <3>1. UNCHANGED <<peer, acceptVars>>
      BY <2>2 DEF Drain, LockDead, DrainDead, DrainDeadUnknown, NoMoreDead, DrainNew,
         DrainNewUnknown, NoMoreNew, Crash, Poll, ScanDone, Tick
    <3>. QED
      BY <3>1 DEF Unheard, Greeting
  <2>3. CASE \E i \in Slot : Read(i)
    <3>1. UNCHANGED acceptVars
          /\ (peer'[c] \in {"unused", "joining"} => peer[c] \in {"unused", "joining"})
      BY <2>3 DEF Read, ReadKeepAlive, ReadHeader, ReadMisaligned, ReadEof, ReadReset,
         Crash, TypeOK, SocketsTypeOK
    <3>. QED
      BY <3>1 DEF Unheard, Greeting
  <2>4. CASE Acceptor
    <3>1. \/ UNCHANGED peer
          \/ \E r : Send(a_conn, r)
      BY <2>4 DEF Acceptor, Accept, AcceptFails, InitEof, Register, RefuseDuplicate,
         RefuseVersion, RefuseInvalid, Refuse, JoinReply, Crash
    <3>2. CASE \E d \in Conn : Accept(d)
      BY <3>2 DEF Accept, Unheard, Greeting
    <3>3. CASE AcceptFails
      BY <3>3 DEF AcceptFails, Crash, Unheard, Greeting
    <3>4. CASE InitEof \/ JoinReply
      BY <1>1, <3>1, <3>4 DEF InitEof, JoinReply, NextAccept, Unheard, Greeting
    <3>5. CASE (\E n \in Name : Register(n) \/ RefuseDuplicate(n))
               \/ RefuseVersion \/ RefuseInvalid
      <4>1. UNCHANGED <<peer, accepted, a_conn>> /\ a_pc = "read" /\ a_pc' = "reply"
        BY <3>5 DEF Register, RefuseDuplicate, RefuseVersion, RefuseInvalid, Refuse,
           Joining, JoinAnswer
      <4>. QED
        BY <4>1 DEF Unheard, Greeting
    <3>. QED
      BY <2>4, <3>2, <3>3, <3>4, <3>5 DEF Acceptor
  <2>. QED
    BY <1>3, <2>1, <2>2, <2>3, <2>4 DEF MasterStep, MasterNext, Worker
<1>4. CASE UNCHANGED vars
  BY <1>4 DEF vars, masterVars, clientVars, Unheard, Greeting
<1>. QED
  BY <1>2, <1>3, <1>4 DEF Next, Unheard, Greeting

(* Every timed step keeps it.                                              *)
LEMMA NextClock ==
    ASSUME TimedBase, ClockInv, [TimedNext]_timedVars
    PROVE  ClockInv'
<1>. SUFFICES ASSUME NEW c \in Conn
              PROVE  /\ peer'[c] \in {"unused", "joining"} => send_in'[c] = 0
                     /\ ~Ended(c)' \/ Unheard(c)' \/ Greeting(c)' => gone_for'[c] = 0
  BY DEF ClockInv
<1>1. /\ peer'[c] \in {"unused", "joining"} => peer[c] \in {"unused", "joining"}
      /\ Unheard(c)' => Unheard(c)
      /\ Greeting(c)' => Greeting(c) \/ Unheard(c)
      /\ ~Ended(c)' => ~Ended(c)
  BY TimedStep, HeardOnce, EndedStays DEF TimedBase
<1>2. /\ peer'[c] \in {"unused", "joining"} => send_in[c] = 0
      /\ ~Ended(c)' \/ Unheard(c)' \/ Greeting(c)' => gone_for[c] = 0
  BY <1>1 DEF ClockInv
<1>3. CASE Pass
  <2>1. UNCHANGED vars /\ ~Greeting(c) /\ (Unheard(c) => c \notin socket_map)
    BY <1>3 DEF Pass, AcceptorWaits, Greeting, TimedBase, RegistryInvariant,
       AcceptorHolds, Unheard
  <2>2. Ended(c)' = Ended(c) /\ Unheard(c)' = Unheard(c) /\ Greeting(c)' = Greeting(c)
    BY <2>1 DEF vars, masterVars, clientVars, Ended, Unheard, Greeting
  <2>. QED
    BY <1>1, <1>3, <2>1, <2>2 DEF Pass
<1>4. ASSUME NEW d \in Conn, SenderSteps(d)
      PROVE  /\ peer'[c] \in {"unused", "joining"} => send_in'[c] = 0
             /\ gone_for' = gone_for
  BY <1>1, <1>2, <1>4 DEF SenderSteps, TimedBase, ClocksTypeOK
<1>5. CASE UNCHANGED <<send_in, gone_for>>
  BY <1>2, <1>5
<1>. QED
  BY <1>2, <1>3, <1>4, <1>5 DEF TimedNext, timedVars, clocks, WorkerSteps, AcceptorSteps,
     WatchdogSteps, ApplicationSteps

(* The base and the clocks, in every reachable state.                      *)
LEMMA TimedBases == TimedSpec => [](TimedBase /\ ClockInv)
<1>1. TimedBase /\ ClockInv /\ [TimedNext]_timedVars => ClockInv'
  BY NextClock
<1>2. TimedInit => ClockInv
  BY DEF TimedInit, ClockInv
<1>3. TypeOK /\ RegistryInvariant /\ ConversationInv /\ TalkInv /\ ClocksTypeOK => TimedBase
  BY DEF TimedBase
<1>. QED
  BY <1>1, <1>2, <1>3, TimedTalk, ClocksTyped, PTL DEF TimedSpec

-------------------------------------------------------------------------------
(* How long a participant that has ended goes undeclared.                  *)

(* What is left to read may start the counter again that often.            *)
Resets(c) == Len(stream[c]) + IF peer[c] = "reset" THEN 1 ELSE 0
TicksLeft(c) == 2 - watchdog[c] + 2 * Resets(c)

Declared(c) == \E k \in DOMAIN dead_q : dead_q[k] = name_of[c]

(* The time that is over, and the ticks that are left, are within bounds.  *)
Counted(c) ==
    /\ watchdog[c] <= 2
    /\ Ended(c) => gone_for[c] + tick_in + TicksLeft(c) * Second <= SilentFor

DeclareInv ==
    /\ \A c \in Conn \ socket_map : watchdog[c] = 0
    /\ Running => \A c \in socket_map : Declared(c) \/ Counted(c)

(* The ticks take the longer the more there are.                           *)
LEMMA MoreTicks ==
    ASSUME NEW m \in Nat, NEW n \in Nat
    PROVE  /\ m <= n => m * Second <= n * Second
           /\ (m + 1) * Second = m * Second + Second
           /\ m * Second \in Nat
BY ClockConstants

(* The numbers in this are numbers.                                        *)
LEMMA TickCounts ==
    ASSUME TypeOK, ClocksTypeOK, NEW c \in Conn
    PROVE  /\ Resets(c) \in Nat /\ watchdog[c] \in Nat
           /\ tick_in \in 0..Second /\ gone_for[c] \in Nat
           /\ watchdog[c] <= 2 => TicksLeft(c) \in Nat /\ TicksLeft(c) * Second \in Nat
           /\ SilentFor \in Nat /\ Second \in Nat /\ MaxUnread \in Nat
<1>1. Len(stream[c]) \in Nat
  BY UnreadChunks
<1>2. watchdog[c] \in Nat /\ gone_for[c] \in Nat /\ tick_in \in 0..Second
  <2>1. watchdog[c] \in 0..255
    BY DEF TypeOK, MasterTypeOK
  <2>2. tick_in \in 0..Second /\ gone_for[c] \in 0..(LongestStay + 1)
    BY DEF ClocksTypeOK
  <2>. QED
    BY <2>1, <2>2
<1>3. Resets(c) \in Nat
  <2>1. PICK n \in Nat : n = Len(stream[c])
    BY <1>1
  <2>2. Resets(c) = n + 1 \/ Resets(c) = n + 0
    BY <2>1 DEF Resets
  <2>. QED
    BY <2>2
<1>4. watchdog[c] <= 2 => TicksLeft(c) \in Nat
  BY <1>2, <1>3 DEF TicksLeft
<1>5. SilentFor \in Nat /\ Second \in Nat /\ MaxUnread \in Nat
  BY ClockConstants, ClientArguments DEF SilentFor
<1>. QED
  BY <1>2, <1>3, <1>4, <1>5, MoreTicks

(* From the moment it ends a participant has all its keep-alives unread at *)
(* most, and the time to the next tick.                                    *)
LEMMA StartsInTime ==
    ASSUME NEW t \in 0..Second, NEW w \in 0..2, NEW r \in 0..MaxUnread
    PROVE  0 + t + (2 - w + 2 * r) * Second <= SilentFor
<1>1. 2 - w + 2 * r \in Nat /\ 2 * MaxUnread + 2 \in Nat
      /\ 2 - w + 2 * r <= 2 * MaxUnread + 2
  BY ClientArguments
<1>2. (2 - w + 2 * r) * Second <= (2 * MaxUnread + 2) * Second
      /\ (2 - w + 2 * r) * Second \in Nat
  BY <1>1, MoreTicks
<1>3. 2 * MaxUnread + 3 = (2 * MaxUnread + 2) + 1
  BY ClientArguments
<1>4. SilentFor = (2 * MaxUnread + 2) * Second + Second
  BY <1>1, <1>3, MoreTicks DEF SilentFor
<1>5. (2 * MaxUnread + 2) * Second \in Nat
  BY <1>1, MoreTicks
<1>. DEFINE p == (2 - w + 2 * r) * Second
            q == (2 * MaxUnread + 2) * Second
<1>6. p \in Nat /\ q \in Nat /\ p <= q /\ SilentFor = q + Second /\ Second \in Nat
  BY <1>2, <1>4, <1>5, ClockConstants
<1>. HIDE DEF p, q
<1>7. 0 + t + p <= SilentFor
  BY <1>6
<1>. QED
  BY <1>7 DEF p

(* Nothing happens to c that gives it more time.                           *)
LEMMA CountedKept ==
    ASSUME TypeOK, TypeOK', ClocksTypeOK, ClocksTypeOK', NEW c \in Conn,
           Declared(c) \/ Counted(c), Declared(c) => Declared(c)',
           watchdog'[c] = watchdog[c] \/ watchdog'[c] = 0,
           Ended(c)' /\ watchdog[c] <= 2 =>
                  Ended(c) /\ TicksLeft(c)' <= TicksLeft(c),
           UNCHANGED <<gone_for, tick_in>>
    PROVE  Declared(c)' \/ Counted(c)'
<1>. SUFFICES ASSUME Counted(c) PROVE Counted(c)'
  OBVIOUS
<1>1. watchdog[c] <= 2 /\ watchdog'[c] <= 2 /\ watchdog'[c] \in Nat
  <2>1. watchdog[c] \in Nat /\ watchdog[c] <= 2
    BY TickCounts DEF Counted
  <2>. QED
    BY <2>1
<1>2. SUFFICES ASSUME Ended(c)'
               PROVE  gone_for'[c] + tick_in' + TicksLeft(c)' * Second <= SilentFor
  BY <1>1 DEF Counted
<1>3. /\ gone_for[c] + tick_in + TicksLeft(c) * Second <= SilentFor
      /\ TicksLeft(c)' <= TicksLeft(c) /\ TicksLeft(c) \in Nat
  BY <1>1, <1>2, TickCounts DEF Counted
<1>4. TicksLeft(c)' \in Nat
  <2>1. (TypeOK /\ ClocksTypeOK /\ watchdog[c] <= 2 => TicksLeft(c) \in Nat)'
    BY TickCounts, PTL
  <2>. QED
    BY <1>1, <2>1
<1>. DEFINE m == TicksLeft(c)' n == TicksLeft(c)
<1>5. m * Second <= n * Second /\ m * Second \in Nat /\ n * Second \in Nat
  <2>. HIDE DEF m, n
  <2>1. m \in Nat /\ n \in Nat /\ m <= n
    BY <1>3, <1>4 DEF m, n
  <2>. QED
    BY <2>1, MoreTicks
<1>. HIDE DEF m, n
<1>6. gone_for[c] + tick_in + n * Second <= SilentFor
  BY <1>3 DEF n
<1>7. gone_for[c] + tick_in + m * Second <= SilentFor
  BY <1>5, <1>6, TickCounts
<1>. QED
  BY <1>7 DEF m

(* Who is registered, and whose end no time has passed since, is in time.  *)
LEMMA StartsCounted ==
    ASSUME TimedBase, NEW c \in Conn, c \in socket_map, gone_for[c] = 0, watchdog[c] <= 2
    PROVE  Counted(c)
<1>1. Talk(c)
  BY DEF TimedBase, TalkInv, Known
<1>2. PICK n \in Nat : n = Len(stream[c]) /\ n <= MaxUnread
  BY <1>1, UnreadChunks DEF TimedBase, Talk
<1>3. peer[c] = "reset" => n = 0
  BY <1>1, <1>2, UnreadChunks DEF TimedBase, Talk
<1>4. Resets(c) \in 0..MaxUnread
  <2>1. Resets(c) = n + 0 \/ (Resets(c) = n + 1 /\ n = 0)
    BY <1>2, <1>3 DEF Resets
  <2>. QED
    BY <1>2, <2>1, ClientArguments, KeepAlivesCount
<1>5. watchdog[c] \in 0..2 /\ tick_in \in 0..Second
  <2>1. watchdog[c] \in Nat /\ tick_in \in 0..Second
    BY TickCounts DEF TimedBase
  <2>. QED
    BY <2>1
<1>6. 0 + tick_in + (2 - watchdog[c] + 2 * Resets(c)) * Second <= SilentFor
  BY <1>4, <1>5, StartsInTime
<1>. QED
  BY <1>6 DEF Counted, TicksLeft

(* Nothing that is said of c, and nothing that c says, changes.            *)
LEMMA UncountedKept ==
    ASSUME TimedBase, TimedBase', NEW c \in Conn, Declared(c) \/ Counted(c),
           dead_q' = dead_q, name_of'[c] = name_of[c], watchdog'[c] = watchdog[c],
           stream'[c] = stream[c], peer'[c] = peer[c], UNCHANGED <<gone_for, tick_in>>
    PROVE  Declared(c)' \/ Counted(c)'
BY DEF Declared, Counted, TicksLeft, Resets, Ended

(* A keep-alive that is read, or the failure of a read, starts the counter *)
(* again, and is gone.                                                     *)
LEMMA ReadCounted ==
    ASSUME TimedBase, TimedBase', DeclareInv, NEW i \in Slot,
           ReadKeepAlive(i) \/ ReadReset(i), Running', NEW c \in socket_map,
           UNCHANGED <<gone_for, tick_in>>
    PROVE  Declared(c)' \/ Counted(c)'
<1>0. c \in Conn /\ (Declared(c) \/ Counted(c)) /\ TypeOK /\ TypeOK' /\ ClocksTypeOK /\ ClocksTypeOK'
  BY DEF TimedBase, TypeOK, MasterTypeOK, DeclareInv, ReadKeepAlive, ReadReset, AtSlot
<1>1. dead_q' = dead_q /\ name_of' = name_of
  BY DEF ReadKeepAlive, ReadReset
<1>2. CASE c # slots[i]
  <2>1. watchdog'[c] = watchdog[c] /\ stream'[c] = stream[c] /\ peer'[c] = peer[c]
    BY <1>0, <1>2 DEF ReadKeepAlive, ReadReset, Consume, TypeOK, SocketsTypeOK, MasterTypeOK
  <2>. QED
    BY <1>0, <1>1, <2>1, UncountedKept
<1>3. CASE c = slots[i]
  <2>1. /\ watchdog'[c] = watchdog[c] \/ watchdog'[c] = 0
        /\ \/ /\ watchdog'[c] = 0 /\ stream[c] # <<>> /\ stream'[c] = Tail(stream[c])
              /\ peer'[c] = peer[c]
           \/ /\ stream'[c] = stream[c] /\ peer[c] = "reset" /\ peer'[c] = "closed"
    BY <1>0, <1>3 DEF ReadKeepAlive, ReadReset, Consume, TypeOK, SocketsTypeOK, MasterTypeOK
  <2>2. Resets(c)' \in Nat /\ Resets(c) = Resets(c)' + 1
    <3>1. PICK n \in Nat : n = Len(stream[c])
      BY <1>0, UnreadChunks
    <3>2. CASE stream[c] # <<>> /\ stream'[c] = Tail(stream[c]) /\ peer'[c] = peer[c]
      <4>1. n \in Nat \ {0} /\ Len(Tail(stream[c])) = n - 1
        BY <1>0, <3>1, <3>2, HeadTailProperties, LenProperties, EmptySeq DEF TypeOK, SocketsTypeOK
      <4>2. Len(stream'[c]) = n - 1
        BY <3>2, <4>1
      <4>3. \/ Resets(c) = n + 0 /\ Resets(c)' = (n - 1) + 0
            \/ Resets(c) = n + 1 /\ Resets(c)' = (n - 1) + 1
        BY <3>1, <3>2, <4>2 DEF Resets
      <4>. QED
        BY <4>1, <4>3
    <3>3. CASE stream'[c] = stream[c] /\ peer[c] = "reset" /\ peer'[c] = "closed"
      <4>1. Resets(c) = n + 1 /\ Resets(c)' = n + 0
        BY <3>1, <3>3 DEF Resets
      <4>. QED
        BY <4>1
    <3>. QED
      BY <2>1, <3>2, <3>3
  <2>3. ASSUME watchdog[c] <= 2
        PROVE  TicksLeft(c)' <= TicksLeft(c)
    <3>1. watchdog[c] \in Nat
      BY <1>0, TickCounts
    <3>2. /\ TicksLeft(c) = 2 - watchdog[c] + 2 * (Resets(c)' + 1)
          /\ TicksLeft(c)' = 2 - watchdog'[c] + 2 * Resets(c)'
      BY <2>2 DEF TicksLeft
    <3>3. watchdog'[c] \in Nat
      BY <2>1, <3>1
    <3>. QED
      BY <2>2, <2>3, <3>1, <3>2, <3>3
  <2>4. Declared(c) => Declared(c)'
    BY <1>1 DEF Declared
  <2>5. Ended(c)' => Ended(c)
    BY <2>1 DEF Ended
  <2>. QED
    BY <1>0, <2>1, <2>3, <2>4, <2>5, CountedKept
<1>. QED
  BY <1>2, <1>3

(* The steps of the worker.                                                *)
LEMMA WorkerDeclared ==
    ASSUME TimedBase, TimedBase', DeclareInv, Worker, UNCHANGED <<gone_for, tick_in>>
    PROVE  DeclareInv'
<1>0. TypeOK /\ TypeOK' /\ ClocksTypeOK /\ ClocksTypeOK' /\ TalkInv
  BY DEF TimedBase
<1>1. CASE DrainDead
  <2>. DEFINE n == Head(dead_q)
  <2>1. PICK d \in Conn : d = participant_list[n]
    BY <1>0, <1>1, HeadTailProperties DEF DrainDead, TypeOK, MasterTypeOK
  <2>2. /\ socket_map' = socket_map \ {d} /\ dead_q' = Tail(dead_q) /\ dead_q # <<>>
        /\ watchdog'[d] = 0
        /\ \A c \in Conn \ {d} : watchdog'[c] = watchdog[c] /\ name_of'[c] = name_of[c]
        /\ UNCHANGED <<stream, peer>> /\ Running
    BY <1>0, <1>1, <2>1 DEF DrainDead, Destroy, TypeOK, MasterTypeOK
  <2>3. ASSUME NEW c \in socket_map'
        PROVE  Declared(c)' \/ Counted(c)'
    <3>1. c \in Conn \ {d} /\ c \in socket_map /\ (Declared(c) \/ Counted(c))
      BY <1>0, <2>2, <2>3 DEF TypeOK, MasterTypeOK, DeclareInv
    <3>2. participant_list[name_of[c]] = c
      BY <3>1 DEF TimedBase, RegistryInvariant, RegistryAgrees
    <3>3. /\ Len(dead_q) \in Nat /\ DOMAIN dead_q = 1..Len(dead_q) /\ n = dead_q[1]
          /\ DOMAIN dead_q' = 1..(Len(dead_q) - 1)
          /\ \A k \in 1..(Len(dead_q) - 1) : dead_q'[k] = dead_q[k + 1]
      BY <1>0, <2>2, LenProperties, HeadTailProperties, EmptySeq DEF TypeOK, MasterTypeOK
    <3>4. ASSUME Declared(c) PROVE Declared(c)'
      <4>1. PICK k \in DOMAIN dead_q : dead_q[k] = name_of[c]
        BY <3>4 DEF Declared
      <4>2. k # 1
        BY <2>1, <3>1, <3>2, <3>3, <4>1
      <4>3. k - 1 \in DOMAIN dead_q' /\ dead_q'[k - 1] = name_of[c]
        BY <3>3, <4>1, <4>2
      <4>. QED
        BY <2>2, <3>1, <4>3 DEF Declared
    <3>5. Counted(c) => Counted(c)'
      BY <2>2, <3>1 DEF Counted, TicksLeft, Resets, Ended
    <3>. QED
      BY <3>1, <3>4, <3>5
  <2>4. ASSUME NEW c \in Conn \ socket_map'
        PROVE  watchdog'[c] = 0
    BY <2>2, <2>4 DEF DeclareInv
  <2>. QED
    BY <2>3, <2>4 DEF DeclareInv
<1>2. ASSUME \/ LockDead \/ DrainDeadUnknown \/ NoMoreDead \/ DrainNew
                \/ DrainNewUnknown \/ NoMoreNew
             \/ Poll \/ ScanDone \/ \E i \in Slot : ReadEof(i)
      PROVE  DeclareInv'
  <2>1. /\ UNCHANGED <<dead_q, name_of, watchdog, stream, peer, socket_map>>
        /\ Running
    BY <1>2 DEF LockDead, DrainDeadUnknown, NoMoreDead, DrainNew, DrainNewUnknown,
       NoMoreNew, Poll, ScanDone, ReadEof, Crash, AtSlot
  <2>2. ASSUME NEW c \in socket_map PROVE Declared(c)' \/ Counted(c)'
    BY <1>0, <2>1, <2>2, UncountedKept DEF DeclareInv, TypeOK, MasterTypeOK
  <2>. QED
    BY <2>1, <2>2 DEF DeclareInv
<1>3. ASSUME NEW i \in Slot, ReadKeepAlive(i) \/ ReadReset(i)
      PROVE  DeclareInv'
  <2>1. socket_map' = socket_map
        /\ \A c \in Conn : watchdog'[c] = watchdog[c] \/ watchdog'[c] = 0
    BY <1>0, <1>3 DEF ReadKeepAlive, ReadReset, TypeOK, MasterTypeOK
  <2>2. ASSUME Running', NEW c \in socket_map PROVE Declared(c)' \/ Counted(c)'
    BY <1>3, <2>2, ReadCounted
  <2>. QED
    BY <2>1, <2>2 DEF DeclareInv
<1>. QED
  BY <1>0, <1>1, <1>2, <1>3, WorkerActs DEF Drain

(* The same of the state after a step.                                     *)
LEMMA StartsCountedNext ==
    ASSUME NEW c \in Conn
    PROVE  (TimedBase /\ c \in socket_map /\ gone_for[c] = 0 /\ watchdog[c] <= 2
                => Counted(c))'
BY StartsCounted, PTL

(* A step after which c has ended no longer than before, or just now.      *)
LEMMA StartsOrKept ==
    ASSUME TimedBase, TimedBase', ClockInv, ClockInv', NEW c \in Conn,
           c \in socket_map, c \in socket_map', Declared(c) \/ Counted(c),
           UNCHANGED <<gone_for, tick_in, dead_q>>,
           name_of'[c] = name_of[c], watchdog'[c] = watchdog[c],
           \/ stream'[c] = stream[c] /\ peer'[c] = peer[c]
           \/ ~Ended(c) \/ Greeting(c)
    PROVE  Declared(c)' \/ Counted(c)'
<1>1. CASE stream'[c] = stream[c] /\ peer'[c] = peer[c]
  BY <1>1, UncountedKept
<1>2. CASE ~Ended(c) \/ Greeting(c)
  <2>1. gone_for'[c] = 0
    BY <1>2 DEF ClockInv
  <2>2. Declared(c) => Declared(c)'
    BY DEF Declared
  <2>3. Counted(c) => watchdog'[c] <= 2
    BY DEF Counted
  <2>. QED
    BY <2>1, <2>2, <2>3, StartsCountedNext
<1>. QED
  BY <1>1, <1>2

(* The steps of the acceptor: who is registered has not ended for long.    *)
LEMMA AcceptorDeclared ==
    ASSUME TimedBase, TimedBase', ClockInv, ClockInv', DeclareInv, Acceptor,
           UNCHANGED callVars, UNCHANGED <<gone_for, tick_in>>
    PROVE  DeclareInv'
<1>0. TypeOK /\ RegistryInvariant /\ ConversationInv
  BY DEF TimedBase
<1>1. UNCHANGED <<watchdog, dead_q>> /\ Running
  BY DEF Acceptor, Accept, AcceptFails, InitEof, Register, RefuseDuplicate, RefuseVersion,
     RefuseInvalid, Refuse, JoinReply, Crash, Joining
<1>2. ASSUME NEW n \in Name, Register(n)
      PROVE  DeclareInv'
  <2>1. PICK d \in Conn \ socket_map : d = a_conn /\ Unheard(d)
    BY <1>0, <1>2, JoiningFrame DEF Register
  <2>2. /\ socket_map' = socket_map \cup {d} /\ peer' = peer
        /\ \A c \in Conn \ {d} : name_of'[c] = name_of[c] /\ stream'[c] = stream[c]
    BY <1>0, <1>2, <2>1, JoiningFrame DEF Register, TypeOK, MasterTypeOK, SocketsTypeOK
  <2>3. Counted(d)'
    <3>1. gone_for'[d] = 0 /\ watchdog'[d] = 0 /\ d \in socket_map'
      BY <1>1, <2>1, <2>2 DEF ClockInv, DeclareInv
    <3>2. d \in Conn => (TimedBase /\ d \in socket_map /\ gone_for[d] = 0 /\ watchdog[d] <= 2
                              => Counted(d))'
      BY StartsCountedNext
    <3>. QED
      BY <3>1, <3>2
  <2>4. ASSUME NEW c \in socket_map, c # d
        PROVE  Declared(c)' \/ Counted(c)'
    BY <1>0, <1>1, <2>2, <2>4, UncountedKept DEF DeclareInv, TypeOK, MasterTypeOK
  <2>. QED
    BY <1>1, <2>2, <2>3, <2>4 DEF DeclareInv
<1>3. ASSUME \A n \in Name : ~Register(n)
      PROVE  DeclareInv'
  <2>1. UNCHANGED <<socket_map, name_of>>
    BY <1>3 DEF Acceptor, Accept, AcceptFails, InitEof, RefuseDuplicate, RefuseVersion,
       RefuseInvalid, Refuse, JoinReply, Crash
  <2>2. ASSUME NEW c \in socket_map
        PROVE  Declared(c)' \/ Counted(c)'
    <3>1. c \in Conn /\ (Declared(c) \/ Counted(c))
      BY <1>0, <1>1, <2>2 DEF DeclareInv, TypeOK, MasterTypeOK
    <3>2. CASE JoinReply
      <4>1. stream' = stream /\ a_pc = "reply" /\ Send(a_conn, Answer(a_response))
        BY <3>2 DEF JoinReply
      <4>2. c # a_conn => peer'[c] = peer[c]
        BY <1>0, <3>1, <4>1 DEF Send, TypeOK, SocketsTypeOK
      <4>3. c = a_conn => Greeting(c)
        BY <4>1 DEF Greeting
      <4>. QED
        BY <1>1, <2>1, <2>2, <3>1, <4>1, <4>2, <4>3, StartsOrKept
    <3>3. CASE AcceptFails \/ InitEof \/ \E d \in Conn : Accept(d)
      <4>1. UNCHANGED <<stream, peer>>
        BY <3>3 DEF AcceptFails, InitEof, Accept, Crash
      <4>. QED
        BY <1>1, <2>1, <2>2, <3>1, <4>1, StartsOrKept
    <3>4. CASE (\E n \in Name : RefuseDuplicate(n)) \/ RefuseVersion \/ RefuseInvalid
      <4>1. \E arg : Joining(arg) /\ peer' = peer
        BY <3>4 DEF RefuseDuplicate, RefuseVersion, RefuseInvalid, Refuse
      <4>2. stream'[c] = stream[c] /\ peer' = peer
        BY <1>0, <2>2, <3>1, <4>1, JoiningFrame DEF TypeOK, SocketsTypeOK
      <4>. QED
        BY <1>1, <2>1, <2>2, <3>1, <4>2, StartsOrKept
    <3>. QED
      BY <1>3, <3>2, <3>3, <3>4 DEF Acceptor
  <2>. QED
    BY <1>1, <2>1, <2>2 DEF DeclareInv
<1>. QED
  BY <1>2, <1>3

(* Every name that is silent for the third time is in the queue now.       *)
LEMMA SilentQueued ==
    ASSUME TypeOK, NEW order \in SetToSeqs(Silent), dead_q' = dead_q \o order
    PROVE  /\ \A n \in Silent : \E k \in DOMAIN dead_q' : dead_q'[k] = n
           /\ \A k \in DOMAIN dead_q : k \in DOMAIN dead_q' /\ dead_q'[k] = dead_q[k]
<1>1. /\ Len(dead_q) \in Nat /\ Len(order) \in Nat
      /\ DOMAIN dead_q = 1..Len(dead_q) /\ DOMAIN order = 1..Len(order)
      /\ DOMAIN dead_q' = 1..(Len(dead_q) + Len(order))
      /\ \A k \in 1..Len(dead_q) : dead_q'[k] = dead_q[k]
      /\ \A k \in 1..Len(order) : dead_q'[Len(dead_q) + k] = order[k]
  BY SilentQueue, LenProperties, ConcatProperties DEF TypeOK, MasterTypeOK
<1>2. IsFiniteSet(Silent) /\ Cardinality(Silent) \in Nat
  BY FiniteConstants, FS_Subset, FS_CardinalityType DEF Silent, Participants
<1>3. order \in Injection(1..Cardinality(Silent), Silent)
      /\ DOMAIN order = 1..Cardinality(Silent)
  BY <1>2 DEF SetToSeqs, Injection, IsInjective
<1>4. order \in Surjection(1..Cardinality(Silent), Silent)
  <2>1. Cardinality(1..Cardinality(Silent)) = Cardinality(Silent)
    BY <1>2, FS_Interval
  <2>. QED
    BY <1>2, <1>3, <2>1, FS_Injection
<1>5. \A n \in Silent : \E k \in 1..Len(order) : order[k] = n
  BY <1>1, <1>3, <1>4 DEF Surjection
<1>6. ASSUME NEW n \in Silent
      PROVE  \E k \in DOMAIN dead_q' : dead_q'[k] = n
  <2>1. PICK k \in 1..Len(order) : order[k] = n
    BY <1>5
  <2>2. Len(dead_q) + k \in DOMAIN dead_q' /\ dead_q'[Len(dead_q) + k] = n
    BY <1>1, <2>1
  <2>. QED
    BY <2>2
<1>7. \A k \in DOMAIN dead_q : k \in DOMAIN dead_q' /\ dead_q'[k] = dead_q[k]
  BY <1>1
<1>. QED
  BY <1>6, <1>7

(* A tick counts everyone that is registered, and declares dead whom it    *)
(* has counted three times.                                                *)
LEMMA TickDeclared ==
    ASSUME TimedBase, TimedBase', DeclareInv, Tick, tick_in = 0, tick_in' = Second,
           gone_for' = gone_for
    PROVE  DeclareInv'
<1>0. TypeOK /\ RegistryInvariant /\ ClocksTypeOK
  BY DEF TimedBase
<1>1. /\ watchdog' = [c \in Conn |-> Ticked(c)] /\ Running
      /\ UNCHANGED <<socket_map, name_of, stream, peer>>
  BY DEF Tick
<1>2. PICK order \in SetToSeqs(Silent) : dead_q' = dead_q \o order
  BY DEF Tick
<1>3. ASSUME NEW c \in Conn \ socket_map
      PROVE  watchdog'[c] = 0
  BY <1>0, <1>1, ConstantsDistinct DEF Ticked, DeclareInv, RegistryInvariant, RegistryAgrees,
     Participants
<1>4. ASSUME NEW c \in socket_map
      PROVE  Declared(c)' \/ Counted(c)'
  <2>1. c \in Conn /\ name_of[c] \in Participants /\ participant_list[name_of[c]] = c
    BY <1>0, ConstantsDistinct DEF RegistryInvariant, RegistryAgrees, Participants, TypeOK,
       MasterTypeOK
  <2>2. watchdog'[c] = (watchdog[c] + 1) % 256
    BY <1>1, <2>1 DEF Ticked
  <2>3. CASE Declared(c)
    BY <1>0, <1>1, <1>2, <2>3, SilentQueued DEF Declared
  <2>4. CASE Counted(c)
    <3>1. watchdog[c] \in Nat /\ watchdog[c] <= 2
      BY <1>0, <2>1, <2>4, TickCounts DEF Counted
    <3>2. watchdog'[c] = watchdog[c] + 1
      BY <2>2, <3>1
    <3>3. CASE watchdog[c] = 2
      <4>1. Ticked(participant_list[name_of[c]]) >= 3
        BY <1>1, <2>1, <3>2, <3>3
      <4>2. name_of[c] \in Silent
        BY <2>1, <4>1 DEF Silent
      <4>. QED
        BY <1>0, <1>1, <1>2, <4>2, SilentQueued DEF Declared
    <3>4. CASE watchdog[c] < 2
      <4>1. watchdog'[c] <= 2
        BY <3>1, <3>2, <3>4
      <4>2. ASSUME Ended(c)
            PROVE  gone_for'[c] + tick_in' + TicksLeft(c)' * Second <= SilentFor
        <5>. DEFINE m == 2 - watchdog'[c] + 2 * Resets(c)
                    p == m * Second
        <5>1. Resets(c) \in Nat /\ gone_for[c] \in Nat /\ SilentFor \in Nat /\ Second \in Nat
          BY <1>0, <2>1, TickCounts
        <5>2. m \in Nat /\ TicksLeft(c) = m + 1 /\ TicksLeft(c)' = m
          <6>1. Resets(c)' = Resets(c)
            BY <1>1 DEF Resets
          <6>2. TicksLeft(c)' = m /\ TicksLeft(c) = 2 - watchdog[c] + 2 * Resets(c)
            BY <6>1 DEF TicksLeft
          <6>. QED
            BY <3>1, <3>2, <3>4, <5>1, <6>2
        <5>3. gone_for[c] + tick_in + TicksLeft(c) * Second <= SilentFor
          BY <2>4, <4>2 DEF Counted
        <5>. HIDE DEF m
        <5>4. TicksLeft(c) * Second = p + Second /\ p \in Nat
          BY <5>2, MoreTicks
        <5>5. TicksLeft(c)' * Second = p
          BY <5>2
        <5>. HIDE DEF p
        <5>. QED
          BY <5>1, <5>3, <5>4, <5>5
      <4>. QED
        BY <1>1, <4>1, <4>2 DEF Counted, Ended
    <3>. QED
      BY <3>1, <3>3, <3>4
  <2>. QED
    BY <1>1, <1>4, <2>3, <2>4 DEF DeclareInv
<1>. QED
  BY <1>1, <1>3, <1>4 DEF DeclareInv

(* A second that passes is one that was left to the next tick.             *)
LEMMA PassDeclared ==
    ASSUME TimedBase, TimedBase', DeclareInv, Pass
    PROVE  DeclareInv'
<1>0. TypeOK /\ ClocksTypeOK /\ UNCHANGED vars
  BY DEF TimedBase, Pass
<1>1. UNCHANGED <<dead_q, name_of, watchdog, stream, peer, socket_map, status>>
  BY <1>0 DEF vars, masterVars, clientVars
<1>2. ASSUME Running', NEW c \in socket_map
      PROVE  Declared(c)' \/ Counted(c)'
  <2>1. c \in Conn /\ (Declared(c) \/ Counted(c))
    BY <1>0, <1>1, <1>2 DEF DeclareInv, Running, TypeOK, MasterTypeOK
  <2>2. Declared(c)' = Declared(c) /\ TicksLeft(c)' = TicksLeft(c) /\ Ended(c)' = Ended(c)
    BY <1>1 DEF Declared, TicksLeft, Resets, Ended
  <2>3. ASSUME Counted(c), Ended(c)
        PROVE  gone_for'[c] + tick_in' + TicksLeft(c) * Second <= SilentFor
    <3>. DEFINE p == TicksLeft(c) * Second
    <3>1. p \in Nat /\ gone_for[c] \in Nat /\ SilentFor \in Nat /\ tick_in \in Nat
      BY <1>0, <2>1, <2>3, TickCounts DEF Counted
    <3>2. gone_for[c] + tick_in + p <= SilentFor
      BY <2>3 DEF Counted
    <3>3. tick_in > 0 /\ tick_in' = tick_in - 1
      BY <3>1 DEF Pass, Less
    <3>4. gone_for'[c] = gone_for[c] \/ gone_for'[c] = gone_for[c] + 1
      BY <1>2, <2>1, <2>3 DEF Pass
    <3>. HIDE DEF p
    <3>5. gone_for'[c] + tick_in' + p <= SilentFor
      BY <3>1, <3>2, <3>3, <3>4
    <3>. QED
      BY <3>5 DEF p
  <2>. QED
    BY <1>1, <2>1, <2>2, <2>3 DEF Counted
<1>. QED
  BY <1>1, <1>2 DEF DeclareInv

(* What a participant does: it speaks while it has not ended, and ends     *)
(* with no more than its keep-alives unread.                               *)
LEMMA ClientDeclared ==
    ASSUME TimedBase, TimedBase', ClockInv, ClockInv', DeclareInv, NEW d \in Conn,
           SenderSteps(d) \/ ApplicationSteps(d)
    PROVE  DeclareInv'
<1>0. TypeOK /\ UNCHANGED masterVars /\ UNCHANGED <<gone_for, tick_in>> /\ Running
  BY DEF TimedBase, SenderSteps, ApplicationSteps, vars, clocks
<1>1. UNCHANGED <<dead_q, name_of, watchdog, socket_map>>
  BY <1>0 DEF masterVars
<1>2. ASSUME NEW c \in socket_map
      PROVE  Declared(c)' \/ Counted(c)'
  <2>1. c \in Conn /\ (Declared(c) \/ Counted(c))
    BY <1>0, <1>2 DEF DeclareInv, TypeOK, MasterTypeOK
  <2>2. \/ stream'[c] = stream[c] /\ peer'[c] = peer[c]
        \/ ~Ended(c)
    BY <1>0, <2>1 DEF SenderSteps, ApplicationSteps, Joins, KeepAlive, WriteBody, EndJoin,
       End, Connect, TakeReply, WriteHeader, Write, Ended, TypeOK, SocketsTypeOK, vars,
       clientVars
  <2>. QED
    BY <1>0, <1>1, <1>2, <2>1, <2>2, StartsOrKept
<1>. QED
  BY <1>1, <1>2 DEF DeclareInv

(* Every timed step keeps it.                                              *)
LEMMA NextDeclared ==
    ASSUME TimedBase, TimedBase', ClockInv, ClockInv', DeclareInv, [TimedNext]_timedVars
    PROVE  DeclareInv'
<1>1. CASE UNCHANGED timedVars
  BY <1>1 DEF timedVars, vars, masterVars, clientVars, clocks, DeclareInv, Declared, Counted,
     TicksLeft, Resets, Ended, Running
<1>2. CASE WorkerSteps
  BY <1>2, WorkerDeclared DEF WorkerSteps
<1>3. CASE AcceptorSteps
  BY <1>3, AcceptorDeclared DEF AcceptorSteps, clocks
<1>4. CASE WatchdogSteps
  BY <1>4, TickDeclared DEF WatchdogSteps
<1>. QED
  BY <1>1, <1>2, <1>3, <1>4, ClientDeclared, PassDeclared DEF TimedNext

LEMMA TimedDeclares == TimedSpec => []DeclareInv
<1>1. TimedBase /\ TimedBase' /\ ClockInv /\ ClockInv' /\ DeclareInv /\ [TimedNext]_timedVars
        => DeclareInv'
  BY NextDeclared
<1>2. TimedInit => DeclareInv
  BY DEF TimedInit, Init, MasterInit, DeclareInv
<1>. QED
  BY <1>1, <1>2, TimedBases, PTL DEF TimedSpec

(* A participant that has ended is declared dead within three ticks of the *)
(* last keep-alive that is read, whatever becomes of its slot, and within  *)
(* two ticks more for each keep-alive it left unread.                      *)
THEOREM SilentDeclared == TimedSpec => []DeclaredInTime
<1>1. ASSUME TimedBase, ClockInv, DeclareInv
      PROVE  DeclaredInTime
  <2>. SUFFICES ASSUME Running, NEW c \in socket_map, gone_for[c] > SilentFor
                PROVE  Declared(c)
    BY DEF DeclaredInTime, Declared
  <2>1. c \in Conn /\ TypeOK /\ ClocksTypeOK
    BY <1>1 DEF TimedBase, TypeOK, MasterTypeOK
  <2>2. /\ gone_for[c] \in Nat /\ tick_in \in Nat /\ SilentFor \in Nat
        /\ watchdog[c] <= 2 => TicksLeft(c) * Second \in Nat
    BY <2>1, TickCounts
  <2>3. Ended(c)
    BY <1>1, <2>1, <2>2 DEF ClockInv
  <2>. QED
    BY <1>1, <2>2, <2>3 DEF DeclareInv, Counted
<1>. QED
  BY <1>1, TimedBases, TimedDeclares, PTL

-------------------------------------------------------------------------------
(* How long the worker's round takes.                                      *)

(* The worker is to read the next keep-alive of d before its round ends.   *)
Awaited(d) ==
    /\ peer[d] = "up" /\ stream[d] = <<>>
    /\ \/ w_pc = "poll"
       \/ w_pc = "scan" /\ \E i \in Slot : i >= cursor /\ slots[i] = d

(* The worker is back at its queues within time b.                         *)
RoundLeft(b) ==
    /\ w_pc = "top" => wake_in <= b
    /\ w_pc = "new" => Second + LoopSleep <= b
    /\ w_pc = "poll" => poll_in + LoopSleep <= b
    /\ w_pc = "scan" => LoopSleep <= b
    /\ \A d \in Conn : Awaited(d) => send_in[d] + LoopSleep <= b

(* Who is declared dead has the rest of a round to stay.                   *)
RemoveInv ==
    /\ RemovedInTime
    /\ Running => \A c \in socket_map :
          Declared(c) => \E b \in 0..(Second + LoopSleep) :
                             RoundLeft(b) /\ gone_for[c] + b <= LongestStay

(* The lengths are numbers.                                                *)
LEMMA Lengths ==
    /\ Second \in Nat \ {0} /\ LoopSleep \in Nat \ {0} /\ SilentFor \in Nat
    /\ LongestStay = SilentFor + Second + LoopSleep /\ LongestStay \in Nat
BY ClockConstants, ClientArguments DEF LongestStay, SilentFor

(* The timers are within their lengths.                                    *)
LEMMA Timers ==
    ASSUME ClocksTypeOK
    PROVE  /\ tick_in \in 0..Second /\ wake_in \in 0..LoopSleep /\ poll_in \in 0..Second
           /\ \A c \in Conn : send_in[c] \in 0..Second
           /\ \A c \in Conn : gone_for[c] \in Nat
BY Lengths DEF ClocksTypeOK

(* No round is longer than this.                                           *)
LEMMA WholeRound == ClocksTypeOK => RoundLeft(Second + LoopSleep)
<1>. SUFFICES ASSUME ClocksTypeOK PROVE RoundLeft(Second + LoopSleep)
  OBVIOUS
<1>1. \A d \in Conn : send_in[d] + LoopSleep <= Second + LoopSleep
  BY Timers, Lengths
<1>2. /\ wake_in <= Second + LoopSleep /\ poll_in + LoopSleep <= Second + LoopSleep
      /\ LoopSleep <= Second + LoopSleep
  BY Timers, Lengths
<1>3. Second + LoopSleep <= Second + LoopSleep
  BY Lengths
<1>. QED
  BY <1>1, <1>2, <1>3 DEF RoundLeft

LEMMA WholeRoundNext == (ClocksTypeOK => RoundLeft(Second + LoopSleep))'
BY WholeRound, PTL

(* A step of the worker brings the end of its round nearer, unless it has  *)
(* just emptied the queue of the dead: no participant holds two slots.     *)
LEMMA WorkerRound ==
    ASSUME TimedBase, TimedBase', OneSlotEach, WorkerSteps, ~NoMoreDead,
           NEW b \in Nat, RoundLeft(b)
    PROVE  RoundLeft(b)'
<1>0. TypeOK /\ TalkInv /\ ClocksTypeOK /\ ClocksTypeOK'
  BY DEF TimedBase
<1>1. /\ wake_in' = IF w_pc \in {"poll", "scan"} /\ w_pc' = "top" THEN LoopSleep ELSE 0
      /\ poll_in' = IF w_pc = "new" /\ w_pc' = "poll" THEN Second ELSE 0
      /\ send_in' = send_in /\ UNCHANGED Second /\ UNCHANGED LoopSleep
  BY DEF WorkerSteps
<1>2. \A d \in Conn : send_in[d] <= Second /\ send_in[d] \in Nat
  BY <1>0, Timers, Lengths
<1>3. Second \in Nat /\ LoopSleep \in Nat /\ poll_in \in Nat /\ wake_in \in Nat
  BY <1>0, Timers, Lengths
<1>4. CASE LockDead \/ DrainDead \/ DrainDeadUnknown \/ DrainNew \/ DrainNewUnknown
  <2>1. w_pc' \in {"dead", "new"} /\ (w_pc' = "new" => w_pc = "new")
    BY <1>4 DEF LockDead, DrainDead, DrainDeadUnknown, DrainNew, DrainNewUnknown, Crash
  <2>. QED
    BY <1>1, <2>1 DEF RoundLeft, Awaited
<1>5. CASE NoMoreNew
  <2>1. w_pc = "new" /\ w_pc' = "poll"
    BY <1>5 DEF NoMoreNew
  <2>2. Second + LoopSleep <= b /\ poll_in' = Second
    BY <1>1, <2>1 DEF RoundLeft
  <2>3. \A d \in Conn : send_in'[d] + LoopSleep <= b
    BY <1>1, <1>2, <1>3, <2>2
  <2>. QED
    BY <2>1, <2>2, <2>3 DEF RoundLeft
<1>6. CASE Poll \/ ScanDone
  <2>0. w_pc \in {"poll", "scan"} /\ w_pc' \in {"scan", "top"} /\ UNCHANGED <<peer, stream>>
    BY <1>6 DEF Poll, ScanDone
  <2>1. w_pc' = "scan" => w_pc = "poll"
    BY <1>6 DEF Poll, ScanDone
  <2>2. LoopSleep <= b
    <3>1. poll_in + LoopSleep <= b \/ LoopSleep <= b
      BY <2>0 DEF RoundLeft
    <3>. QED
      BY <1>3, <3>1
  <2>3. \A d \in Conn : Awaited(d)' => Awaited(d)
    BY <2>0, <2>1 DEF Awaited
  <2>4. w_pc' = "top" => wake_in' = LoopSleep
    BY <1>1, <2>0
  <2>. QED
    BY <1>1, <2>0, <2>2, <2>3, <2>4 DEF RoundLeft
<1>7. ASSUME NEW i \in Slot, ReadKeepAlive(i) \/ ReadEof(i) \/ ReadReset(i)
      PROVE  RoundLeft(b)'
  <2>0. w_pc = "scan" /\ w_pc' = "scan" /\ cursor' = i + 1 /\ i >= cursor
    BY <1>7 DEF ReadKeepAlive, ReadEof, ReadReset, AtSlot, ToServe, NextSlot
  <2>n. i \in Nat /\ cursor \in Nat
    BY <1>0, MasterBounds DEF TypeOK, MasterTypeOK, Slot
  <2>s. \A j \in Slot : slots'[j] # None => slots'[j] = slots[j]
    BY <1>0, <1>7 DEF ReadKeepAlive, ReadEof, ReadReset, TypeOK, MasterTypeOK
  <2>c. slots[i] \in Conn
    BY <1>0, <1>7 DEF ReadKeepAlive, ReadEof, ReadReset, AtSlot, ToServe, TypeOK, MasterTypeOK
  <2>1. /\ w_pc = "scan" /\ w_pc' = "scan" /\ cursor' = i + 1
        /\ i >= cursor /\ i \in Nat /\ cursor \in Nat
        /\ \A j \in Slot : slots'[j] # None => slots'[j] = slots[j]
        /\ slots[i] \in Conn
    BY <2>0, <2>n, <2>s, <2>c
  <2>2. ASSUME NEW d \in Conn, Awaited(d)'
        PROVE  Awaited(d)
    <3>1. PICK j \in Slot : j >= i + 1 /\ slots'[j] = d
      BY <2>1, <2>2 DEF Awaited
    <3>2. slots[j] = d /\ j >= cursor /\ j # i
      BY <2>1, <3>1, ConstantsDistinct, MasterBounds DEF Slot
    <3>3. d # slots[i]
      BY <2>1, <3>2, ConstantsDistinct DEF OneSlotEach
    <3>4. peer[d] = peer'[d] /\ stream[d] = stream'[d]
      BY <1>0, <1>7, <3>3 DEF ReadKeepAlive, ReadEof, ReadReset, Consume, TypeOK, SocketsTypeOK
    <3>. QED
      BY <2>1, <2>2, <3>2, <3>4 DEF Awaited
  <2>. QED
    BY <1>1, <2>1, <2>2 DEF RoundLeft
<1>. QED
  BY <1>0, <1>4, <1>5, <1>6, <1>7, WorkerActs DEF WorkerSteps, Drain

(* What a participant writes comes behind what it has written.             *)
LEMMA StreamWritten ==
    ASSUME TypeOK, NEW c \in Conn, NEW d \in Conn,
           Joins(c) \/ WriteBody(c) \/ EndJoin(c) \/ End(c)
    PROVE  stream'[d] = stream[d] \/ \E k \in Chunk : stream'[d] = Append(stream[d], k)
<1>1. CASE Joins(c)
  <2>1. stream' = [stream EXCEPT ![c] = Append(stream[c], Header("INITIATION"))]
    BY <1>1 DEF Joins, Connect, WriteHeader, Write
  <2>2. Header("INITIATION") \in Chunk
    BY DEF Header, Chunk, FrameType, Argument
  <2>. QED
    BY <2>1, <2>2 DEF TypeOK, SocketsTypeOK
<1>2. CASE WriteBody(c)
  <2>1. stream' = [stream EXCEPT ![c] = Append(stream[c], Body(call[c].type, call[c].arg))]
    BY <1>2 DEF WriteBody, Write
  <2>2. Body(call[c].type, call[c].arg) \in Chunk
    BY DEF Body, Chunk, TypeOK, ClientTypeOK, Call
  <2>. QED
    BY <2>1, <2>2 DEF TypeOK, SocketsTypeOK
<1>3. CASE EndJoin(c) \/ End(c)
  BY <1>3 DEF EndJoin, End
<1>. QED
  BY <1>1, <1>2, <1>3

(* What the others do keeps nobody waiting longer: a participant whose     *)
(* keep-alive thread starts now, or goes on, sends one at once.            *)
LEMMA OthersRound ==
    ASSUME TimedBase, TimedBase', ClockInv, NEW b \in Nat, RoundLeft(b),
           \/ AcceptorSteps \/ WatchdogSteps
           \/ \E c \in Conn : SenderSteps(c) \/ ApplicationSteps(c)
    PROVE  RoundLeft(b)'
<1>0. TypeOK /\ RegistryInvariant /\ ConversationInv /\ TalkInv /\ ClocksTypeOK
  BY DEF TimedBase
<1>1. UNCHANGED <<w_pc, cursor, slots, wake_in, poll_in>>
  BY DEF AcceptorSteps, WatchdogSteps, SenderSteps, ApplicationSteps, clocks, vars,
     masterVars, Acceptor, Accept, AcceptFails, InitEof, Register, RefuseDuplicate,
     RefuseVersion, RefuseInvalid, Refuse, JoinReply, Crash, Tick
<1>2. SUFFICES ASSUME NEW d \in Conn, Awaited(d)'
               PROVE  send_in'[d] + LoopSleep <= b
  BY <1>1 DEF RoundLeft
<1>3. ASSUME peer[d] = "up", stream[d] = <<>>, send_in'[d] = send_in[d]
      PROVE  send_in'[d] + LoopSleep <= b
  BY <1>1, <1>2, <1>3 DEF RoundLeft, Awaited
<1>4. peer'[d] = "up" /\ stream'[d] = <<>> /\ w_pc \in {"poll", "scan"}
  BY <1>1, <1>2 DEF Awaited
<1>5. CASE AcceptorSteps
  <2>1. CASE \E arg : Joining(arg) /\ peer' = peer
    <3>1. peer[d] = "up" /\ d # a_conn
      BY <1>0, <1>4, <2>1, JoiningFrame
    <3>2. stream[d] = <<>>
      BY <1>0, <1>4, <2>1, <3>1, JoiningFrame DEF TypeOK, SocketsTypeOK
    <3>. QED
      BY <1>3, <1>5, <3>1, <3>2 DEF AcceptorSteps, clocks
  <2>2. CASE \A arg : ~Joining(arg)
    <3>1. /\ stream' = stream
          /\ UNCHANGED peer \/ Send(a_conn, Answer(a_response))
      BY <1>5, <2>2 DEF AcceptorSteps, Acceptor, Accept, AcceptFails, InitEof, Register,
         RefuseDuplicate, RefuseVersion, RefuseInvalid, JoinReply, Crash
    <3>2. peer[d] = "up"
      BY <1>0, <1>4, <3>1 DEF Send, TypeOK, SocketsTypeOK
    <3>. QED
      BY <1>3, <1>4, <1>5, <3>1, <3>2 DEF AcceptorSteps, clocks
  <2>3. ASSUME NEW arg, Joining(arg) PROVE UNCHANGED peer
    <3>1. a_pc = "read"
      BY <2>3 DEF Joining
    <3>. QED
      BY <1>5, <3>1 DEF AcceptorSteps, Acceptor, Accept, AcceptFails, InitEof, Register,
         RefuseDuplicate, RefuseVersion, RefuseInvalid, Refuse, JoinReply
  <2>. QED
    BY <2>1, <2>2, <2>3
<1>6. CASE WatchdogSteps
  BY <1>3, <1>4, <1>6 DEF WatchdogSteps, Tick
<1>7. ASSUME NEW c \in Conn, SenderSteps(c)
      PROVE  send_in'[d] + LoopSleep <= b
  <2>1. CASE c = d
    <3>1. CASE Unread(c) < MaxUnread
      <4>1. stream'[d] = Append(stream[d], Header("KEEP_ALIVE"))
        BY <1>0, <1>7, <2>1, <3>1 DEF SenderSteps, KeepAlive, Write, TypeOK, SocketsTypeOK
      <4>2. stream[d] \in Seq(Chunk) /\ Header("KEEP_ALIVE") \in Chunk
        BY <1>0 DEF TypeOK, SocketsTypeOK, Header, Chunk, FrameType, Argument
      <4>3. stream'[d] # <<>>
        BY <4>1, <4>2, AppendProperties
      <4>. QED
        BY <1>4, <4>3
    <3>2. CASE ~(Unread(c) < MaxUnread)
      <4>1. stream[d] # <<>>
        BY <1>0, <2>1, <3>2, UnreadChunks, KeepAlivesCount
      <4>2. stream' = stream
        BY <1>7, <3>2 DEF SenderSteps, vars, clientVars
      <4>. QED
        BY <1>4, <4>1, <4>2
    <3>. QED
      BY <3>1, <3>2
  <2>2. CASE c # d
    <3>1. peer'[d] = peer[d] /\ stream'[d] = stream[d] /\ send_in'[d] = send_in[d]
      BY <1>0, <1>7, <2>2 DEF SenderSteps, KeepAlive, Write, TypeOK, SocketsTypeOK, vars,
         clientVars, ClocksTypeOK
    <3>. QED
      BY <1>3, <1>4, <3>1
  <2>. QED
    BY <2>1, <2>2
<1>8. ASSUME NEW c \in Conn, ApplicationSteps(c)
      PROVE  send_in'[d] + LoopSleep <= b
  <2>0. send_in' = send_in
    BY <1>8 DEF ApplicationSteps, clocks
  <2>1. CASE peer[d] = "up"
    <3>1. stream[d] = <<>>
      <4>1. stream'[d] = stream[d] \/ \E k \in Chunk : stream'[d] = Append(stream[d], k)
        BY <1>0, <1>8, StreamWritten DEF ApplicationSteps
      <4>2. stream[d] \in Seq(Chunk)
        BY <1>0 DEF TypeOK, SocketsTypeOK
      <4>. QED
        BY <1>4, <4>1, <4>2, AppendProperties
    <3>. QED
      BY <1>3, <2>0, <2>1, <3>1
  <2>2. CASE peer[d] # "up"
    <3>1. peer[d] = "joining"
      BY <1>0, <1>4, <1>8, <2>2 DEF ApplicationSteps, Joins, Connect, WriteBody, EndJoin, End,
         TypeOK, SocketsTypeOK
    <3>2. send_in'[d] = 0
      BY <2>0, <3>1 DEF ClockInv
    <3>3. LoopSleep <= b
      <4>1. poll_in + LoopSleep <= b \/ LoopSleep <= b
        BY <1>4 DEF RoundLeft
      <4>. QED
        BY <1>0, <4>1, Timers, Lengths
    <3>. QED
      BY <3>2, <3>3, Lengths
  <2>. QED
    BY <2>1, <2>2
<1>. QED
  BY <1>5, <1>6, <1>7, <1>8

(* When time passes, whoever is known and has not ended has its answer and *)
(* has started its keep-alive thread.                                      *)
LEMMA KnownUp ==
    ASSUME TimedBase, Pass, NEW c \in Conn, Known(c), ~Ended(c)
    PROVE  peer[c] = "up" /\ send_in[c] > 0
<1>0. TypeOK /\ RegistryInvariant /\ ConversationInv /\ TalkInv
  BY DEF TimedBase
<1>1. Talk(c) /\ OnlyJoins(c) /\ w_pc # "content"
  BY <1>0 DEF TalkInv
<1>2. peer[c] \in {"joining", "up"}
  BY <1>0, <1>1, KnownHeard DEF Talk, Ended, TypeOK, SocketsTypeOK, PeerState
<1>3. ClientWaits(c) /\ AcceptorWaits
  BY DEF Pass
<1>4. ASSUME peer[c] = "joining" PROVE FALSE
  <2>1. call[c].pc = "wait" /\ call[c] # Idle
    BY <1>0, <1>1, <1>4 DEF OnlyJoins, Talk, Idle, TypeOK, ClientTypeOK, Call
  <2>2. Pending(c) = 1
    BY <1>0, <2>1 DEF ConversationInv, Conversation, AsksOnce
  <2>3. Cardinality(Sent(stream[c])) = 0
    BY <1>0, <1>1, <1>4, SentFinite DEF Talk, TypeOK, SocketsTypeOK
  <2>4. ~InHand(c) /\ ~Greeting(c)
    BY <1>1, <1>3 DEF InHand, Greeting, AcceptorWaits
  <2>5. Len(replies[c]) = 0
    BY <1>3, <2>1, EmptySeq DEF ClientWaits
  <2>. QED
    BY <2>2, <2>3, <2>4, <2>5 DEF Pending
<1>5. peer[c] = "up"
  BY <1>2, <1>4
<1>. QED
  BY <1>3, <1>5 DEF ClientWaits

(* A second that passes is one of the worker's round, because everybody    *)
(* the worker is to read sends in time.                                    *)
LEMMA PassRound ==
    ASSUME TimedBase, NEW b \in Nat, RoundLeft(b), Pass
    PROVE  b - 1 \in Nat /\ RoundLeft(b - 1)'
<1>0. TypeOK /\ TalkInv /\ ClocksTypeOK /\ UNCHANGED vars
  BY DEF TimedBase, Pass
<1>1. UNCHANGED <<w_pc, cursor, slots, peer, stream>> /\ UNCHANGED LoopSleep /\ UNCHANGED Second
  BY <1>0 DEF vars, masterVars, clientVars
<1>2. \A d \in Conn : Awaited(d)' = Awaited(d)
  BY <1>1 DEF Awaited
<1>3. \A d \in Conn : Awaited(d) => /\ send_in[d] + LoopSleep <= b
                                    /\ send_in[d] > 0 /\ send_in'[d] = send_in[d] - 1
  BY <1>0, Timers DEF RoundLeft, Awaited, Pass, ClientWaits, Less
<1>4. /\ \A d \in Conn : send_in[d] \in Nat
      /\ LoopSleep \in Nat \ {0} /\ wake_in \in Nat /\ poll_in \in Nat /\ Second \in Nat
  BY <1>0, Timers, Lengths
<1>5. \A d \in Conn : Awaited(d)' => send_in'[d] + LoopSleep <= b - 1
  BY <1>2, <1>3, <1>4
<1>6. CASE w_pc = "top"
  <2>1. wake_in > 0 /\ wake_in <= b
    BY <1>6 DEF Pass, WorkerWaits, AtSlot, RoundLeft
  <2>2. wake_in' = wake_in - 1
    BY <1>4, <2>1 DEF Pass, Less
  <2>3. b - 1 \in Nat /\ wake_in' <= b - 1
    BY <1>4, <2>1, <2>2
  <2>. QED
    BY <1>1, <1>5, <1>6, <2>3 DEF RoundLeft
<1>7. CASE w_pc = "poll"
  <2>1. poll_in > 0 /\ poll_in + LoopSleep <= b
    BY <1>7 DEF Pass, WorkerWaits, AtSlot, RoundLeft
  <2>2. poll_in' = poll_in - 1
    BY <1>4, <2>1 DEF Pass, Less
  <2>3. b - 1 \in Nat /\ poll_in' + LoopSleep <= b - 1
    BY <1>4, <2>1, <2>2
  <2>. QED
    BY <1>1, <1>5, <1>7, <2>3 DEF RoundLeft
<1>8. CASE w_pc = "scan"
  <2>1. PICK i \in Slot : AtSlot(i) /\ NothingToRead(slots[i])
    BY <1>8 DEF Pass, WorkerWaits
  <2>2. PICK d \in Conn : d = slots[i] /\ i >= cursor
    BY <1>0, <2>1 DEF AtSlot, ToServe, TypeOK, MasterTypeOK
  <2>3. peer[d] = "up"
    BY <2>1, <2>2, KnownUp DEF Known, HasSlot, NothingToRead
  <2>4. Awaited(d)
    BY <1>8, <2>1, <2>2, <2>3 DEF Awaited, NothingToRead
  <2>5. b - 1 \in Nat /\ LoopSleep <= b - 1
    BY <1>3, <1>4, <2>4
  <2>. QED
    BY <1>1, <1>5, <1>8, <2>5 DEF RoundLeft
<1>9. w_pc \in {"top", "poll", "scan"}
  BY <1>0 DEF Pass, WorkerWaits, AtSlot, TalkInv
<1>. QED
  BY <1>6, <1>7, <1>8, <1>9

(* Nothing happens once the master has stopped, and nobody is registered   *)
(* but by the acceptor.                                                    *)
LEMMA RunningSteps ==
    ASSUME TimedBase, TimedNext
    PROVE  Running /\ \A c \in socket_map' : c \in socket_map \/ Unheard(c)
<1>0. TypeOK /\ TalkInv /\ RegistryInvariant
  BY DEF TimedBase
<1>1. CASE WorkerSteps
  <2>1. \/ Drain \/ Poll \/ ScanDone
        \/ \E i \in Slot : ReadKeepAlive(i) \/ ReadEof(i) \/ ReadReset(i)
    BY <1>0, <1>1, WorkerActs DEF WorkerSteps
  <2>. QED
    BY <2>1 DEF Drain, LockDead, DrainDead, DrainDeadUnknown, NoMoreDead, DrainNew,
       DrainNewUnknown, NoMoreNew, Crash, Poll, ScanDone, ReadKeepAlive, ReadEof, ReadReset,
       AtSlot
<1>2. CASE AcceptorSteps
  <2>1. Running
    BY <1>2 DEF AcceptorSteps, Acceptor, Accept, AcceptFails, InitEof, Register,
       RefuseDuplicate, RefuseVersion, RefuseInvalid, JoinReply, Joining
  <2>2. \/ UNCHANGED socket_map
        \/ a_pc = "read" /\ socket_map' = socket_map \cup {a_conn}
    BY <1>2 DEF AcceptorSteps, Acceptor, Accept, AcceptFails, InitEof, Register,
       RefuseDuplicate, RefuseVersion, RefuseInvalid, Refuse, JoinReply, Joining, Crash
  <2>. QED
    BY <2>1, <2>2 DEF Unheard
<1>3. CASE WatchdogSteps
  BY <1>3 DEF WatchdogSteps, Tick
<1>4. CASE Pass \/ \E c \in Conn : SenderSteps(c) \/ ApplicationSteps(c)
  BY <1>4 DEF Pass, SenderSteps, ApplicationSteps, vars, masterVars
<1>. QED
  BY <1>1, <1>2, <1>3, <1>4 DEF TimedNext

(* Who has just been declared dead has gone for no longer than the ticks.  *)
LEMMA NewlyDeclared ==
    ASSUME TimedBase, ClockInv, DeclareInv, TimedNext, ClocksTypeOK',
           NEW c \in Conn, c \in socket_map', ~(c \in socket_map /\ Declared(c)),
           gone_for' = gone_for
    PROVE  \E b \in 0..(Second + LoopSleep) :
               RoundLeft(b)' /\ gone_for'[c] + b <= LongestStay
<1>0. TypeOK /\ ClocksTypeOK /\ Running
  BY RunningSteps DEF TimedBase
<1>1. gone_for[c] \in Nat /\ SilentFor \in Nat /\ Second \in Nat /\ LoopSleep \in Nat
  BY <1>0, Timers, Lengths
<1>2. gone_for[c] <= SilentFor
  <2>1. CASE c \in socket_map /\ Ended(c)
    <3>1. watchdog[c] <= 2 /\ gone_for[c] + tick_in + TicksLeft(c) * Second <= SilentFor
      BY <1>0, <2>1 DEF DeclareInv, Counted
    <3>2. TicksLeft(c) * Second \in Nat /\ tick_in \in Nat
      BY <1>0, <3>1, TickCounts
    <3>. QED
      BY <1>1, <3>1, <3>2
  <2>2. CASE ~(c \in socket_map /\ Ended(c))
    <3>1. gone_for[c] = 0
      BY <2>2, RunningSteps DEF ClockInv
    <3>. QED
      BY <1>1, <3>1
  <2>. QED
    BY <2>1, <2>2
<1>3. RoundLeft(Second + LoopSleep)'
  BY WholeRoundNext
<1>4. PICK b \in 0..(Second + LoopSleep) : b = Second + LoopSleep
  BY <1>1
<1>5. gone_for'[c] + b <= LongestStay
  BY <1>1, <1>2, <1>4, Lengths
<1>6. RoundLeft(b)'
  BY <1>3, <1>4 DEF RoundLeft, Awaited
<1>. QED
  BY <1>5, <1>6

(* What passes is counted for those that are gone.                         *)
LEMMA PassRemoves ==
    ASSUME TimedBase, ClockInv, DeclareInv, RemoveInv, Pass
    PROVE  RemoveInv'
<1>0. TypeOK /\ ClocksTypeOK /\ UNCHANGED vars /\ Running
  BY DEF TimedBase, Pass
<1>1. /\ UNCHANGED <<dead_q, name_of, socket_map, peer, status>>
      /\ UNCHANGED LongestStay /\ UNCHANGED SilentFor
  BY <1>0 DEF vars, masterVars, clientVars, LongestStay, SilentFor
<1>2. \A c \in Conn : /\ gone_for[c] \in Nat /\ gone_for'[c] \in {0, gone_for[c], gone_for[c] + 1}
                      /\ ~(c \in socket_map /\ Ended(c)) => gone_for'[c] = 0
  BY <1>0, Timers DEF Pass
<1>3. /\ Second \in Nat /\ LoopSleep \in Nat /\ LongestStay \in Nat /\ SilentFor \in Nat
      /\ SilentFor <= LongestStay
  BY Lengths
<1>4. ASSUME NEW c \in socket_map, Declared(c)
      PROVE  \E b \in 0..(Second + LoopSleep) :
                 RoundLeft(b)' /\ gone_for'[c] + b <= LongestStay
  <2>1. c \in Conn
    BY <1>0, <1>4 DEF TypeOK, MasterTypeOK
  <2>2. PICK b \in 0..(Second + LoopSleep) : RoundLeft(b) /\ gone_for[c] + b <= LongestStay
    BY <1>0, <1>4 DEF RemoveInv
  <2>3. b \in Nat
    BY <1>3, <2>2
  <2>4. b - 1 \in Nat /\ RoundLeft(b - 1)'
    BY <2>2, <2>3, PassRound
  <2>5. PICK k \in 0..(Second + LoopSleep) : k = b - 1
    BY <1>3, <2>3, <2>4
  <2>6. gone_for'[c] + k <= LongestStay
    BY <1>2, <1>3, <2>1, <2>2, <2>3, <2>5
  <2>7. RoundLeft(k)'
    BY <2>4, <2>5 DEF RoundLeft, Awaited
  <2>. QED
    BY <2>6, <2>7
<1>5. ASSUME NEW c \in socket_map, ~Declared(c), Ended(c)
      PROVE  gone_for'[c] <= LongestStay
  <2>1. c \in Conn
    BY <1>0, <1>5 DEF TypeOK, MasterTypeOK
  <2>2. watchdog[c] <= 2 /\ gone_for[c] + tick_in + TicksLeft(c) * Second <= SilentFor
    BY <1>0, <1>5 DEF DeclareInv, Counted
  <2>3. TicksLeft(c) * Second \in Nat /\ tick_in \in Nat /\ tick_in > 0
    BY <1>0, <2>1, <2>2, TickCounts DEF Pass
  <2>. QED
    BY <1>2, <1>3, <2>1, <2>2, <2>3
<1>6. ASSUME NEW c \in socket_map, Declared(c)
      PROVE  gone_for'[c] <= LongestStay
  <2>1. c \in Conn
    BY <1>0, <1>6 DEF TypeOK, MasterTypeOK
  <2>2. PICK b \in 0..(Second + LoopSleep) : gone_for'[c] + b <= LongestStay
    BY <1>4, <1>6
  <2>3. b \in Nat /\ gone_for'[c] \in Nat
    BY <1>2, <1>3, <2>1, <2>2
  <2>. QED
    BY <1>3, <2>2, <2>3
<1>7. RemovedInTime'
  BY <1>1, <1>2, <1>3, <1>5, <1>6 DEF RemovedInTime
<1>. QED
  BY <1>1, <1>4, <1>7 DEF RemoveInv, Declared, RoundLeft, Awaited

(* Every timed step keeps it.                                              *)
LEMMA NextRemoves ==
    ASSUME TimedBase, TimedBase', ClockInv, DeclareInv, OneSlotEach, RemoveInv,
           [TimedNext]_timedVars
    PROVE  RemoveInv'
<1>0. TypeOK /\ TypeOK' /\ ClocksTypeOK'
  BY DEF TimedBase
<1>1. CASE UNCHANGED timedVars
  BY <1>1 DEF timedVars, vars, masterVars, clientVars, clocks, RemoveInv, RemovedInTime,
     Declared, RoundLeft, Awaited, Running, LongestStay, SilentFor
<1>2. CASE Pass
  BY <1>2, PassRemoves
<1>3. CASE TimedNext /\ ~Pass /\ gone_for' = gone_for
  <2>1. Running /\ UNCHANGED LongestStay
    BY <1>3, RunningSteps DEF LongestStay, SilentFor
  <2>2. RemovedInTime'
    BY <1>3, <2>1 DEF RemoveInv, RemovedInTime
  <2>3. ASSUME NEW c \in socket_map', Declared(c)'
        PROVE  \E b \in 0..(Second + LoopSleep) :
                   RoundLeft(b)' /\ gone_for'[c] + b <= LongestStay
    <3>1. c \in Conn
      BY <1>0, <2>3 DEF TypeOK, MasterTypeOK
    <3>2. CASE ~(c \in socket_map /\ Declared(c))
      BY <1>0, <1>3, <2>3, <3>1, <3>2, NewlyDeclared
    <3>3. CASE c \in socket_map /\ Declared(c)
      <4>1. PICK b \in 0..(Second + LoopSleep) : RoundLeft(b) /\ gone_for[c] + b <= LongestStay
        BY <2>1, <3>3 DEF RemoveInv
      <4>2. b \in Nat
        BY <4>1, Lengths
      <4>3. ~NoMoreDead
        BY <2>3, EmptySeq DEF NoMoreDead, Declared
      <4>4. RoundLeft(b)'
        <5>1. CASE WorkerSteps
          BY <4>1, <4>2, <4>3, <5>1, WorkerRound
        <5>2. CASE AcceptorSteps \/ WatchdogSteps
                   \/ \E d \in Conn : SenderSteps(d) \/ ApplicationSteps(d)
          BY <4>1, <4>2, <5>2, OthersRound
        <5>. QED
          BY <1>3, <5>1, <5>2 DEF TimedNext
      <4>. QED
        BY <1>3, <4>1, <4>4
    <3>. QED
      BY <3>2, <3>3
  <2>. QED
    BY <2>1, <2>2, <2>3 DEF RemoveInv
<1>4. TimedNext => Pass \/ gone_for' = gone_for
  BY DEF TimedNext, WorkerSteps, AcceptorSteps, WatchdogSteps, SenderSteps, ApplicationSteps,
     clocks
<1>. QED
  BY <1>1, <1>2, <1>3, <1>4

(* A participant that has ended is removed from the registry within a      *)
(* round of the worker from the time it is declared dead.  The hypothesis  *)
(* is about the slots: a participant in two makes the worker wait.         *)
THEOREM RemovedSoon == TimedSpec /\ []OneSlotEach => []RemovedInTime
<1>1. TimedBase /\ TimedBase' /\ ClockInv /\ DeclareInv /\ OneSlotEach /\ RemoveInv
        /\ [TimedNext]_timedVars => RemoveInv'
  BY NextRemoves
<1>2. TimedInit => RemoveInv
  BY Lengths DEF TimedInit, Init, MasterInit, RemoveInv, RemovedInTime
<1>3. RemoveInv => RemovedInTime
  BY DEF RemoveInv
<1>. QED
  BY <1>1, <1>2, <1>3, TimedBases, TimedDeclares, PTL DEF TimedSpec

-------------------------------------------------------------------------------
(* While nobody ends: a round of the worker reads a frame of everyone.     *)

(* A keep-alive of c is read within time b, or earlier.                    *)
ReadLeft(c, b) ==
    /\ w_pc = "top" /\ (stream[c] # <<>> \/ ~HasSlot(c)) => wake_in <= b
    /\ w_pc = "poll" /\ ~HasSlot(c) => poll_in + LoopSleep <= b
    /\ w_pc = "scan" => \/ LoopSleep <= b
                        \/ \E i \in Slot : slots[i] = c /\ ToServe(i)
    /\ stream[c] = <<>> => LoopSleep + send_in[c] <= b

(* That is before the third tick of the watchdog from now.                 *)
ReadInTime(c) ==
    /\ watchdog[c] <= 2
    /\ \E b \in 0..(Second + LoopSleep) :
          ReadLeft(c, b) /\ b < tick_in + (2 - watchdog[c]) * Second

(* The slots are used from the first one on, once for each participant.    *)
Compact ==
    \A i, j \in Slot :
        slots[i] # None /\ j < i => slots[j] # None /\ slots[j] # slots[i]

SlotsRegistered == \A i \in Slot : slots[i] # None => slots[i] \in socket_map

(* Whoever is queued for a slot has none, and is queued once.              *)
QueuedOnce ==
    \A k \in DOMAIN new_q :
        /\ new_q[k] \in Participants /\ ~HasSlot(participant_list[new_q[k]])
        /\ \A j \in DOMAIN new_q : j # k => new_q[j] # new_q[k]

(* The worker waits for no frame in a scan, which begins at the first slot. *)
FramesToServe ==
    /\ w_pc # "scan" => cursor = 1
    /\ w_pc = "scan" => \A i \in Slot : ToServe(i) => stream[slots[i]] # <<>>

Tidy == Compact /\ SlotsRegistered /\ QueuedOnce /\ FramesToServe

Alive ==
    /\ Running \/ Cardinality(accepted) >= FdLimit
    /\ dead_q = <<>>
    /\ Tidy
    /\ \A c \in socket_map : ReadInTime(c)

(* Everyone lives, and there is a slot for each.                           *)
AllPresent == (\A c \in Conn : ~Ended(c)) /\ Enough

AliveInv == AllPresent => Alive

(* No slot in use is beyond the participants, so that poll() sees it.      *)
LEMMA UsedPolled ==
    ASSUME TypeOK, RegistryInvariant, Compact, SlotsRegistered,
           NEW i \in Slot, slots[i] # None
    PROVE  i \in Polled
<1>. DEFINE f == [j \in 1..i |-> name_of[slots[j]]]
<1>1. i \in Nat \ {0} /\ \A j \in 1..i : j \in Slot /\ j \in Nat /\ j <= i
  BY MasterBounds DEF Slot
<1>2. \A j \in 1..i : slots[j] # None
  BY <1>1 DEF Compact
<1>3. \A j \in 1..i : slots[j] \in socket_map
  BY <1>1, <1>2 DEF SlotsRegistered
<1>4. \A j \in 1..i : f[j] \in Participants /\ participant_list[f[j]] = slots[j]
  BY <1>3, ConstantsDistinct DEF RegistryInvariant, RegistryAgrees, Participants, TypeOK,
     MasterTypeOK
<1>5. \A j, k \in 1..i : j < k => slots[j] # slots[k]
  BY <1>1, <1>2 DEF Compact
<1>6. \A j, k \in 1..i : f[j] = f[k] => j = k
  <2>1. \A j, k \in 1..i : f[j] = f[k] => slots[j] = slots[k]
    BY <1>4
  <2>. HIDE DEF f
  <2>. QED
    BY <1>1, <1>5, <2>1
<1>7. f \in Injection(1..i, Participants)
  BY <1>4, <1>6 DEF Injection, IsInjective
<1>8. IsFiniteSet(Participants)
  BY FiniteConstants, FS_Subset DEF Participants
<1>9. Cardinality(1..i) <= Cardinality(Participants)
  BY <1>7, <1>8, FS_Injection
<1>10. Cardinality(1..i) = i
  BY <1>1, FS_Interval
<1>. QED
  BY <1>9, <1>10 DEF Polled

(* No read takes longer than this to come.                                 *)
LEMMA WholeRead ==
    ASSUME NEW c \in Conn
    PROVE  ClocksTypeOK => ReadLeft(c, Second + LoopSleep)
<1>. SUFFICES ASSUME ClocksTypeOK PROVE ReadLeft(c, Second + LoopSleep)
  OBVIOUS
<1>1. LoopSleep + send_in[c] <= Second + LoopSleep
  BY Timers, Lengths
<1>2. /\ wake_in <= Second + LoopSleep /\ poll_in + LoopSleep <= Second + LoopSleep
      /\ LoopSleep <= Second + LoopSleep
  BY Timers, Lengths
<1>. QED
  BY <1>1, <1>2 DEF ReadLeft

(* A participant that was just read, or registered, has two more ticks.    *)
LEMMA StartsRead ==
    ASSUME NEW c \in Conn
    PROVE  ClocksTypeOK /\ watchdog[c] = 0 => ReadInTime(c)
<1>. SUFFICES ASSUME ClocksTypeOK, watchdog[c] = 0 PROVE ReadInTime(c)
  OBVIOUS
<1>1. /\ Second \in Nat /\ LoopSleep \in Nat /\ tick_in \in Nat /\ LoopSleep < Second
  BY Timers, Lengths, SleepsLess
<1>2. PICK b \in 0..(Second + LoopSleep) : b = Second + LoopSleep
  BY <1>1
<1>3. ReadLeft(c, b)
  BY <1>2, WholeRead
<1>4. (2 - watchdog[c]) * Second = Second + Second
  BY <1>1
<1>5. b < tick_in + (2 - watchdog[c]) * Second
  BY <1>1, <1>2, <1>4
<1>. QED
  BY <1>3, <1>5 DEF ReadInTime

LEMMA StartsReadNext ==
    ASSUME NEW c \in Conn
    PROVE  (ClocksTypeOK /\ watchdog[c] = 0 => ReadInTime(c))'
BY StartsRead, PTL

(* No step but a tick and the passing of time moves the third tick.        *)
LEMMA ReadKept ==
    ASSUME NEW c, ReadInTime(c), watchdog'[c] = watchdog[c], UNCHANGED tick_in,
           \A b \in 0..(Second + LoopSleep) : ReadLeft(c, b) => ReadLeft(c, b)'
    PROVE  ReadInTime(c)'
BY DEF ReadInTime

(* Nothing that the slots and the queue are about changes.                 *)
LEMMA TidyKept ==
    ASSUME Tidy, UNCHANGED <<slots, new_q, w_pc, cursor, participant_list>>,
           socket_map \subseteq socket_map', UNCHANGED revents,
           \A i \in Slot : slots[i] # None /\ stream[slots[i]] # <<>>
                              => stream'[slots[i]] # <<>>
    PROVE  Tidy'
<1>1. Compact' /\ SlotsRegistered' /\ QueuedOnce'
  BY DEF Tidy, Compact, SlotsRegistered, QueuedOnce, HasSlot, Participants
<1>2. FramesToServe'
  BY DEF Tidy, FramesToServe, ToServe
<1>. QED
  BY <1>1, <1>2 DEF Tidy

(* A name that is taken off the queue is queued no more, and those that    *)
(* stay have no slot yet.                                                  *)
LEMMA DrainNewQueued ==
    ASSUME TypeOK, RegistryInvariant, QueuedOnce, DrainNew
    PROVE  /\ ~HasSlot(participant_list[Head(new_q)])
           /\ participant_list[Head(new_q)] \in socket_map \ {None}
           /\ QueuedOnce'
<1>. DEFINE n == Head(new_q)  c == participant_list[n]
<1>1. /\ new_q # <<>> /\ new_q' = Tail(new_q) /\ w_pc = "new"
      /\ slots' = [i \in Slot |-> IF FirstFree(i) THEN c ELSE slots[i]]
      /\ UNCHANGED <<w_pc, cursor, participant_list, socket_map>>
  BY DEF DrainNew
<1>2. /\ Len(new_q) \in Nat \ {0} /\ DOMAIN new_q = 1..Len(new_q) /\ n = new_q[1]
      /\ DOMAIN new_q' = 1..(Len(new_q) - 1)
      /\ \A k \in 1..(Len(new_q) - 1) : new_q'[k] = new_q[k + 1]
  BY <1>1, LenProperties, HeadTailProperties, EmptySeq DEF TypeOK, MasterTypeOK
<1>3. n \in Participants /\ ~HasSlot(c) /\ 1 \in DOMAIN new_q
  BY <1>2 DEF QueuedOnce
<1>4. c # None /\ c \in socket_map
  BY <1>3 DEF Participants, RegistryInvariant, RegistryAgrees
<1>. HIDE DEF n, c
<1>5. QueuedOnce'
  <2>1. ASSUME NEW k \in DOMAIN new_q'
        PROVE  /\ new_q'[k] \in Participants'
               /\ ~HasSlot(participant_list[new_q[k]])'
               /\ \A j \in DOMAIN new_q' : j # k => new_q'[j] # new_q'[k]
    <3>1. PICK m \in DOMAIN new_q : m = k + 1 /\ new_q'[k] = new_q[m] /\ m # 1
      BY <1>2, <2>1
    <3>2. new_q[m] \in Participants /\ ~HasSlot(participant_list[new_q[m]]) /\ new_q[m] # n
      BY <1>2, <1>3, <3>1 DEF QueuedOnce
    <3>3. participant_list[new_q[m]] # c
      BY <1>3, <3>2 DEF RegistryInvariant, RegistryAgrees, c
    <3>4. ~HasSlot(participant_list[new_q[k]])'
      BY <1>1, <3>1, <3>2, <3>3 DEF HasSlot
    <3>5. ASSUME NEW j \in DOMAIN new_q', j # k
          PROVE  new_q'[j] # new_q'[k]
      <4>1. PICK l \in DOMAIN new_q : l = j + 1 /\ new_q'[j] = new_q[l]
        BY <1>2, <3>5
      <4>2. l # m
        BY <1>2, <3>1, <3>5, <4>1
      <4>. QED
        BY <3>1, <4>1, <4>2 DEF QueuedOnce
    <3>6. new_q'[k] \in Participants'
      BY <1>1, <3>1, <3>2 DEF Participants
    <3>. QED
      BY <3>4, <3>5, <3>6
  <2>. QED
    BY <2>1 DEF QueuedOnce
<1>. QED
  BY <1>3, <1>4, <1>5 DEF n, c

(* The next name of the queue gets the first slot behind those in use.     *)
LEMMA DrainNewTidy ==
    ASSUME TypeOK, TypeOK', RegistryInvariant, Tidy, DrainNew
    PROVE  Tidy'
<1>. DEFINE n == Head(new_q)  c == participant_list[n]
<1>1. /\ new_q # <<>> /\ new_q' = Tail(new_q) /\ w_pc = "new"
      /\ slots' = [i \in Slot |-> IF FirstFree(i) THEN c ELSE slots[i]]
      /\ UNCHANGED <<w_pc, cursor, participant_list, socket_map>>
  BY DEF DrainNew
<1>2. ~HasSlot(c) /\ c \in socket_map \ {None} /\ QueuedOnce'
  BY DrainNewQueued DEF Tidy
<1>. HIDE DEF n, c
<1>3. Compact'
  <2>1. \A i \in Slot : slots[i] # c
    BY <1>2 DEF HasSlot
  <2>2. ASSUME NEW i \in Slot, NEW j \in Slot, slots'[i] # None, j < i
        PROVE  slots'[j] # None /\ slots'[j] # slots'[i]
    <3>0. i \in Nat /\ j \in Nat
      BY MasterBounds DEF Slot
    <3>1. CASE FirstFree(i)
      <4>1. slots[j] # None /\ slots'[j] = slots[j] /\ slots'[i] = c
        <5>1. slots[j] # None
          BY <2>2, <3>0, <3>1, MasterBounds DEF FirstFree, Slot
        <5>. QED
          BY <1>1, <3>1, <5>1 DEF FirstFree
      <4>. QED
        BY <2>1, <4>1
    <3>2. CASE ~FirstFree(i)
      <4>1. slots'[i] = slots[i] /\ slots[i] # None
        BY <1>1, <2>2, <3>2
      <4>2. slots[j] # None /\ slots[j] # slots[i]
        BY <2>2, <4>1 DEF Tidy, Compact
      <4>3. slots'[j] = slots[j]
        BY <1>1, <4>2 DEF FirstFree
      <4>. QED
        BY <4>1, <4>2, <4>3
    <3>. QED
      BY <3>1, <3>2
  <2>. QED
    BY <2>2 DEF Compact
<1>4. SlotsRegistered'
  BY <1>1, <1>2 DEF Tidy, SlotsRegistered
<1>5. FramesToServe'
  BY <1>1 DEF Tidy, FramesToServe
<1>. QED
  BY <1>2, <1>3, <1>4, <1>5 DEF Tidy

(* The queues are emptied at once: nobody has been declared dead, and      *)
(* every name that is queued is known.                                     *)
LEMMA DrainAlive ==
    ASSUME TimedBase, TimedBase', Served, AllPresent, Alive, WorkerSteps, Drain
    PROVE  Alive'
<1>0. TypeOK /\ TypeOK' /\ RegistryInvariant
  BY DEF TimedBase
<1>1. ~DrainDead /\ ~DrainDeadUnknown
  BY DEF DrainDead, DrainDeadUnknown, Alive
<1>2. ~DrainNewUnknown
  <2>1. SUFFICES ASSUME new_q # <<>> PROVE participant_list[Head(new_q)] # None
    BY DEF DrainNewUnknown
  <2>2. 1 \in DOMAIN new_q /\ Head(new_q) = new_q[1]
    BY <1>0, <2>1, LenProperties, HeadTailProperties, EmptySeq DEF TypeOK, MasterTypeOK
  <2>. QED
    BY <2>2 DEF Alive, Tidy, QueuedOnce, Participants
<1>3. LockDead \/ NoMoreDead \/ DrainNew \/ NoMoreNew
  BY <1>1, <1>2 DEF Drain
<1>4. /\ UNCHANGED <<status, accepted, dead_q, socket_map, watchdog, stream, send_in, tick_in>>
      /\ w_pc # "scan" /\ w_pc' \in {"dead", "new", "poll"} /\ cursor' = cursor
      /\ w_pc' = "poll" => w_pc = "new" /\ new_q = <<>> /\ UNCHANGED slots
  BY <1>3 DEF WorkerSteps, LockDead, NoMoreDead, DrainNew, NoMoreNew
<1>5. Tidy'
  <2>1. CASE DrainNew
    BY <1>0, <2>1, DrainNewTidy DEF Alive
  <2>2. CASE LockDead \/ NoMoreDead \/ NoMoreNew
    <3>1. UNCHANGED <<slots, new_q, participant_list, socket_map>>
      BY <2>2 DEF LockDead, NoMoreDead, NoMoreNew
    <3>2. FramesToServe'
      BY <1>4 DEF Alive, Tidy, FramesToServe
    <3>. QED
      BY <3>1, <3>2 DEF Alive, Tidy, Compact, SlotsRegistered, QueuedOnce, HasSlot,
         Participants
  <2>. QED
    BY <1>3, <2>1, <2>2
<1>6. ASSUME NEW c \in socket_map
      PROVE  ReadInTime(c)'
  <2>1. ASSUME NEW b \in 0..(Second + LoopSleep), ReadLeft(c, b)
        PROVE  ReadLeft(c, b)'
    <3>1. w_pc' = "poll" => HasSlot(c)'
      <4>1. w_pc' = "poll" => HasSlot(c)
        BY <1>0, <1>4, EmptySeq DEF Served, AllPresent, Queued, TypeOK, MasterTypeOK
      <4>. QED
        BY <1>4, <4>1 DEF HasSlot
    <3>. QED
      BY <1>4, <2>1, <3>1 DEF ReadLeft
  <2>2. ReadInTime(c)
    BY DEF Alive
  <2>. QED
    BY <1>4, <2>1, <2>2, ReadKept
<1>. QED
  BY <1>4, <1>5, <1>6 DEF Alive, Running

(* poll() sees everyone that has spoken, and goes on without the others.   *)
LEMMA PollAlive ==
    ASSUME TimedBase, TimedBase', Served, AllPresent, Alive, WorkerSteps, Poll
    PROVE  Alive'
<1>0. TypeOK /\ RegistryInvariant /\ ClocksTypeOK /\ Tidy
  BY DEF TimedBase, Alive
<1>1. /\ UNCHANGED <<status, accepted, dead_q, socket_map, watchdog, stream, send_in, tick_in>>
      /\ UNCHANGED <<slots, new_q, participant_list, cursor>>
      /\ w_pc = "poll" /\ cursor = 1
      /\ revents' = [i \in Slot |-> IF i \in Polled THEN PollIn(i) ELSE revents[i]]
      /\ w_pc' = IF SomePollIn THEN "scan" ELSE "top"
  BY <1>0 DEF WorkerSteps, Poll, SomePollIn, Tidy, FramesToServe
<1>2. \A i \in Slot : slots[i] # None => i \in Polled
  BY <1>0, UsedPolled DEF Tidy
<1>3. \A i \in Slot : PollIn(i) <=> slots[i] # None /\ stream[slots[i]] # <<>>
  BY <1>0 DEF PollIn, Readable, AllPresent, TypeOK, MasterTypeOK
<1>4. Tidy'
  <2>1. FramesToServe'
    BY <1>1, <1>2, <1>3 DEF FramesToServe, ToServe
  <2>. QED
    BY <1>0, <1>1, <2>1 DEF Tidy, Compact, SlotsRegistered, QueuedOnce, HasSlot, Participants
<1>5. ASSUME NEW c \in socket_map
      PROVE  ReadInTime(c)'
  <2>0. c \in Conn
    BY <1>0 DEF TypeOK, MasterTypeOK
  <2>n. /\ LoopSleep \in Nat /\ poll_in \in Nat /\ send_in[c] \in Nat /\ wake_in' \in {0, LoopSleep}
    BY <1>0, <2>0, Timers, Lengths DEF WorkerSteps
  <2>1. ASSUME NEW b \in 0..(Second + LoopSleep), ReadLeft(c, b)
        PROVE  ReadLeft(c, b)'
    <3>0. b \in Nat
      BY <2>1, Lengths
    <3>1. CASE ~HasSlot(c) \/ stream[c] = <<>>
      <4>1. LoopSleep <= b
        BY <1>1, <2>1, <2>n, <3>0, <3>1 DEF ReadLeft
      <4>2. wake_in' <= b
        BY <2>n, <3>0, <4>1
      <4>. QED
        BY <1>1, <2>1, <4>1, <4>2 DEF ReadLeft
    <3>2. CASE HasSlot(c) /\ stream[c] # <<>>
      <4>1. PICK i \in Slot : slots[i] = c
        BY <3>2 DEF HasSlot
      <4>2. i \in Polled /\ PollIn(i)
        BY <1>2, <1>3, <2>0, <3>2, <4>1, ConstantsDistinct
      <4>3. w_pc' = "scan" /\ ToServe(i)'
        <5>1. i >= cursor
          BY <1>1, MasterBounds DEF Slot
        <5>. QED
          BY <1>1, <4>2, <5>1 DEF SomePollIn, ToServe, PollIn
      <4>. QED
        BY <1>1, <3>2, <4>1, <4>3 DEF ReadLeft
    <3>. QED
      BY <3>1, <3>2
  <2>2. ReadInTime(c)
    BY DEF Alive
  <2>. QED
    BY <1>1, <2>1, <2>2, ReadKept
<1>. QED
  BY <1>1, <1>4, <1>5 DEF Alive, Running

(* After the scan everyone that was polled has been read.                  *)
LEMMA ScanDoneAlive ==
    ASSUME TimedBase, TimedBase', AllPresent, Alive, WorkerSteps, ScanDone
    PROVE  Alive'
<1>0. TypeOK /\ ClocksTypeOK /\ Tidy
  BY DEF TimedBase, Alive
<1>1. /\ UNCHANGED <<status, accepted, dead_q, socket_map, watchdog, stream, send_in, tick_in>>
      /\ UNCHANGED <<slots, new_q, participant_list>>
      /\ w_pc = "scan" /\ w_pc' = "top" /\ cursor' = 1 /\ wake_in' = LoopSleep
      /\ \A i \in Slot : ~ToServe(i)
  BY DEF WorkerSteps, ScanDone
<1>2. Tidy'
  BY <1>0, <1>1 DEF Tidy, Compact, SlotsRegistered, QueuedOnce, HasSlot, Participants,
     FramesToServe
<1>3. ASSUME NEW c \in socket_map
      PROVE  ReadInTime(c)'
  <2>1. ASSUME NEW b \in 0..(Second + LoopSleep), ReadLeft(c, b)
        PROVE  ReadLeft(c, b)'
    BY <1>1, <2>1 DEF ReadLeft
  <2>2. ReadInTime(c)
    BY DEF Alive
  <2>. QED
    BY <1>1, <2>1, <2>2, ReadKept
<1>. QED
  BY <1>1, <1>2, <1>3 DEF Alive, Running

(* Who is read starts again, and the scan comes to the others.             *)
LEMMA ReadAlive ==
    ASSUME TimedBase, TimedBase', AllPresent, Alive, WorkerSteps, NEW i \in Slot,
           ReadKeepAlive(i)
    PROVE  Alive'
<1>0. TypeOK /\ TypeOK' /\ ClocksTypeOK /\ ClocksTypeOK' /\ Tidy
  BY DEF TimedBase, Alive
<1>1. PICK d \in Conn : d = slots[i]
  BY <1>0 DEF ReadKeepAlive, AtSlot, ToServe, TypeOK, MasterTypeOK
<1>2. /\ UNCHANGED <<accepted, dead_q, socket_map, send_in, tick_in>>
      /\ UNCHANGED <<slots, revents, new_q, participant_list>>
      /\ w_pc = "scan" /\ w_pc' = "scan" /\ cursor' = i + 1
      /\ watchdog' = [watchdog EXCEPT ![d] = 0] /\ stream' = [stream EXCEPT ![d] = Tail(@)]
      /\ Running /\ ToServe(i) /\ \A j \in 1..(i-1) : ~ToServe(j)
  BY <1>1 DEF WorkerSteps, ReadKeepAlive, AtSlot, NextSlot, Consume
<1>3. Running'
  BY <1>0, <1>1, <1>2, ConstantsDistinct DEF ReadKeepAlive, KnownOrNull, Running, Tidy,
     SlotsRegistered
<1>4. i \in Nat /\ cursor \in Nat /\ \A j \in Slot : j \in Nat
  BY <1>0, MasterBounds DEF TypeOK, MasterTypeOK, Slot
<1>5. Tidy'
  <2>1. ASSUME NEW j \in Slot, ToServe(j)'
        PROVE  stream'[slots[j]] # <<>>
    <3>1. j >= i + 1 /\ slots[j] # None /\ revents[j]
      BY <1>2, <2>1 DEF ToServe
    <3>2. i < j /\ ToServe(j)
      BY <1>2, <1>4, <3>1 DEF ToServe
    <3>3. slots[j] # d
      BY <1>1, <1>0, <3>1, <3>2 DEF Tidy, Compact
    <3>4. stream[slots[j]] # <<>> /\ slots[j] \in Conn
      BY <1>0, <1>2, <3>1, <3>2 DEF Tidy, FramesToServe, TypeOK, MasterTypeOK
    <3>. QED
      BY <1>0, <1>2, <3>3, <3>4 DEF TypeOK, SocketsTypeOK
  <2>2. FramesToServe'
    BY <1>2, <2>1 DEF FramesToServe
  <2>. QED
    BY <1>0, <1>2, <2>2 DEF Tidy, Compact, SlotsRegistered, QueuedOnce, HasSlot, Participants
<1>6. ASSUME NEW c \in socket_map
      PROVE  ReadInTime(c)'
  <2>0. c \in Conn /\ ReadInTime(c)
    BY <1>0 DEF TypeOK, MasterTypeOK, Alive
  <2>1. CASE c = d
    <3>1. watchdog'[c] = 0
      BY <1>0, <1>2, <2>1 DEF TypeOK, MasterTypeOK
    <3>. QED
      BY <1>0, <2>0, <3>1, StartsReadNext
  <2>2. CASE c # d
    <3>1. watchdog'[c] = watchdog[c] /\ stream'[c] = stream[c]
      BY <1>0, <1>2, <2>0, <2>2 DEF TypeOK, MasterTypeOK, SocketsTypeOK
    <3>2. ASSUME NEW j \in Slot, slots[j] = c, ToServe(j)
          PROVE  slots'[j] = c /\ ToServe(j)'
      <4>1. j \notin 1..(i - 1) /\ j # i /\ j \in Nat \ {0}
        BY <1>1, <1>2, <2>2, <3>2, MasterBounds DEF Slot
      <4>2. j >= i + 1
        BY <1>4, <4>1
      <4>. QED
        BY <1>2, <3>2, <4>2 DEF ToServe
    <3>3. ASSUME NEW b \in 0..(Second + LoopSleep), ReadLeft(c, b)
          PROVE  ReadLeft(c, b)'
      BY <1>2, <3>1, <3>2, <3>3 DEF ReadLeft
    <3>. QED
      BY <1>2, <2>0, <3>1, <3>3, ReadKept
  <2>. QED
    BY <2>1, <2>2
<1>. QED
  BY <1>2, <1>3, <1>5, <1>6 DEF Alive

(* Nobody has ended, so that the worker reads keep-alives only.            *)
LEMMA WorkerAlive ==
    ASSUME TimedBase, TimedBase', Served, AllPresent, Alive, WorkerSteps
    PROVE  Alive'
<1>1. \/ Drain \/ Poll \/ ScanDone
      \/ \E i \in Slot : ReadKeepAlive(i) \/ ReadEof(i) \/ ReadReset(i)
  BY WorkerActs DEF WorkerSteps, TimedBase
<1>2. \A i \in Slot : ~ReadEof(i) /\ ~ReadReset(i)
  BY DEF ReadEof, ReadReset, AtSlot, ToServe, AllPresent, Ended, TimedBase, TypeOK,
     MasterTypeOK
<1>. QED
  BY <1>1, <1>2, DrainAlive, PollAlive, ScanDoneAlive, ReadAlive

(* A step that does not concern the reading of c.                          *)
LEMMA UnreadKept ==
    ASSUME NEW c, ReadInTime(c), watchdog'[c] = watchdog[c], stream'[c] = stream[c],
           send_in'[c] = send_in[c],
           UNCHANGED <<slots, revents, w_pc, cursor, tick_in, wake_in, poll_in>>
    PROVE  ReadInTime(c)'
<1>1. \A b \in 0..(Second + LoopSleep) : ReadLeft(c, b) => ReadLeft(c, b)'
  BY DEF ReadLeft, HasSlot, ToServe
<1>. QED
  BY <1>1, ReadKept

(* Who joins now is queued for a slot, which it has not.                   *)
LEMMA RegisterQueued ==
    ASSUME TypeOK, RegistryInvariant, ConversationInv, QueuedOnce, NEW n \in Name,
           Register(n)
    PROVE  QueuedOnce' /\ ~HasSlot(a_conn)
<1>1. PICK d \in Conn : d = a_conn
  BY DEF Register, Joining, TypeOK, MasterTypeOK
<1>2. /\ UNCHANGED slots
      /\ participant_list' = [participant_list EXCEPT ![n] = d]
      /\ participant_list[n] = None /\ new_q' = Append(new_q, n)
  BY <1>1 DEF Register
<1>3. Unheard(d)
  BY <1>1 DEF Register, Joining, Unheard
<1>4. ~HasSlot(d)
  BY <1>3, ConstantsDistinct DEF HasSlot, ConversationInv, SlotsHeard
<1>5. QueuedOnce'
  <2>1. /\ Len(new_q) \in Nat /\ DOMAIN new_q = 1..Len(new_q)
        /\ DOMAIN new_q' = 1..(Len(new_q) + 1)
        /\ \A k \in 1..Len(new_q) : new_q'[k] = new_q[k]
        /\ new_q'[Len(new_q) + 1] = n
    BY <1>2, LenProperties, AppendProperties DEF TypeOK, MasterTypeOK
  <2>2. \A k \in DOMAIN new_q' : \/ k \in DOMAIN new_q /\ new_q'[k] = new_q[k]
                                 \/ k = Len(new_q) + 1 /\ new_q'[k] = n
    BY <2>1
  <2>3. \A k \in DOMAIN new_q : new_q[k] # n /\ new_q[k] \in Name
    BY <1>2 DEF QueuedOnce, Participants
  <2>4. n \in Participants' /\ ~HasSlot(participant_list[n])'
    <3>1. participant_list'[n] = d
      BY <1>2 DEF TypeOK, MasterTypeOK
    <3>2. ~HasSlot(participant_list[n])'
      BY <1>2, <1>4, <3>1 DEF HasSlot
    <3>. QED
      BY <3>1, <3>2, ConstantsDistinct DEF Participants
  <2>5. ASSUME NEW k \in DOMAIN new_q
        PROVE  /\ new_q[k] \in Participants'
               /\ \A i \in Slot : slots'[i] # participant_list'[new_q[k]]
    <3>1. participant_list'[new_q[k]] = participant_list[new_q[k]]
      BY <1>2, <2>3 DEF TypeOK, MasterTypeOK
    <3>2. new_q[k] \in Participants /\ ~HasSlot(participant_list[new_q[k]])
      BY DEF QueuedOnce
    <3>3. \A i \in Slot : slots'[i] # participant_list'[new_q[k]]
      BY <1>2, <3>1, <3>2 DEF HasSlot
    <3>4. new_q[k] \in Participants'
      BY <3>1, <3>2 DEF Participants
    <3>. QED
      BY <3>3, <3>4
  <2>6. \A k \in DOMAIN new_q' : \A j \in DOMAIN new_q' : j # k => new_q'[j] # new_q'[k]
    BY <2>2, <2>3 DEF QueuedOnce
  <2>7. \A k \in DOMAIN new_q' : new_q'[k] \in Participants'
    BY <2>2, <2>4, <2>5
  <2>8. ASSUME NEW k \in DOMAIN new_q'
        PROVE  \A i \in Slot : slots'[i] # participant_list'[new_q'[k]]
    BY <2>2, <2>4, <2>5 DEF HasSlot
  <2>. QED
    BY <2>6, <2>7, <2>8 DEF QueuedOnce, HasSlot
<1>. QED
  BY <1>1, <1>4, <1>5

(* And it has all its ticks.                                               *)
LEMMA RegisterAlive ==
    ASSUME TimedBase, TimedBase', DeclareInv, Alive, AcceptorSteps,
           NEW n \in Name, Register(n)
    PROVE  Alive'
<1>0. /\ TypeOK /\ RegistryInvariant /\ ConversationInv /\ ClocksTypeOK /\ ClocksTypeOK'
      /\ Tidy
  BY DEF TimedBase, Alive
<1>1. PICK d \in Conn : d = a_conn
  BY <1>0 DEF Register, Joining, TypeOK, MasterTypeOK
<1>2. /\ UNCHANGED <<status, accepted, dead_q, watchdog, slots, revents, w_pc, cursor>>
      /\ participant_list' = [participant_list EXCEPT ![n] = d]
      /\ participant_list[n] = None /\ new_q' = Append(new_q, n)
      /\ socket_map' = socket_map \cup {d}
      /\ \A c \in Conn \ {d} : stream'[c] = stream[c]
  <2>1. stream' = [stream EXCEPT ![d] = SubSeq(@, 3, Len(@))]
    BY <1>1 DEF Register, Joining
  <2>2. \A c \in Conn \ {d} : stream'[c] = stream[c]
    BY <1>0, <2>1 DEF TypeOK, SocketsTypeOK
  <2>. QED
    BY <1>1, <2>2 DEF Register, JoinAnswer
<1>3. UNCHANGED <<tick_in, wake_in, poll_in, send_in>>
  BY DEF AcceptorSteps, clocks
<1>4. Unheard(d) /\ d \notin socket_map
  BY <1>0, <1>1 DEF Register, Joining, Unheard, RegistryInvariant, AcceptorHolds
<1>5. ~HasSlot(d)
  BY <1>0, <1>1, RegisterQueued DEF Tidy
<1>6. Tidy'
  <2>1. Compact' /\ SlotsRegistered'
    BY <1>0, <1>2 DEF Tidy, Compact, SlotsRegistered
  <2>2. FramesToServe'
    <3>1. ASSUME NEW i \in Slot, ToServe(i) PROVE stream'[slots[i]] = stream[slots[i]]
      <4>1. slots[i] \in Conn \ {d}
        BY <1>0, <1>5, <3>1 DEF ToServe, HasSlot, TypeOK, MasterTypeOK
      <4>. QED
        BY <1>2, <4>1
    <3>. QED
      BY <1>0, <1>2, <3>1 DEF Tidy, FramesToServe, ToServe
  <2>3. QueuedOnce'
    BY <1>0, RegisterQueued DEF Tidy
  <2>. QED
    BY <2>1, <2>2, <2>3 DEF Tidy
<1>7. ASSUME NEW c \in socket_map'
      PROVE  ReadInTime(c)'
  <2>1. CASE c = d
    <3>1. watchdog'[c] = 0
      BY <1>2, <1>4, <2>1 DEF DeclareInv
    <3>. QED
      BY <1>0, <2>1, <3>1, StartsReadNext
  <2>2. CASE c # d
    <3>1. c \in socket_map /\ c \in Conn /\ ReadInTime(c)
      BY <1>0, <1>2, <1>7, <2>2 DEF Alive, TypeOK, MasterTypeOK
    <3>. QED
      BY <1>2, <1>3, <2>2, <3>1, UnreadKept
  <2>. QED
    BY <2>1, <2>2
<1>. QED
  BY <1>2, <1>6, <1>7 DEF Alive, Running

(* The acceptor stops the master only for want of a descriptor.            *)
LEMMA AcceptorAlive ==
    ASSUME TimedBase, TimedBase', DeclareInv, AllPresent, Alive, AcceptorSteps
    PROVE  Alive'
<1>0. TypeOK /\ RegistryInvariant /\ ConversationInv /\ Tidy
  BY DEF TimedBase, Alive
<1>1. ~InitEof
  BY <1>0 DEF InitEof, AllPresent, Ended, TypeOK, MasterTypeOK
<1>2. CASE \E n \in Name : Register(n)
  BY <1>2, RegisterAlive
<1>3. CASE (\E c \in Conn : Accept(c)) \/ AcceptFails
           \/ (\E n \in Name : RefuseDuplicate(n)) \/ RefuseVersion \/ RefuseInvalid
           \/ JoinReply
  <2>1. /\ UNCHANGED <<dead_q, watchdog, slots, revents, w_pc, cursor, new_q>>
        /\ UNCHANGED <<participant_list, socket_map>>
    BY <1>3 DEF Accept, AcceptFails, RefuseDuplicate, RefuseVersion, RefuseInvalid, Refuse,
       JoinReply, Crash
  <2>2. UNCHANGED <<tick_in, wake_in, poll_in, send_in>>
    BY DEF AcceptorSteps, clocks
  <2>3. Running' \/ Cardinality(accepted') >= FdLimit
    <3>1. CASE AcceptFails
      BY <3>1 DEF AcceptFails, Crash
    <3>2. CASE JoinReply
      BY <1>0, <3>2 DEF JoinReply, Send, AllPresent, Running, TypeOK, MasterTypeOK
    <3>. QED
      BY <1>3, <3>1, <3>2 DEF Accept, RefuseDuplicate, RefuseVersion, RefuseInvalid, Refuse,
         Joining, Running
  <2>4. \/ stream' = stream
        \/ Unheard(a_conn) /\ a_conn \in Conn /\ \A c \in Conn \ {a_conn} : stream'[c] = stream[c]
    BY <1>0, <1>3 DEF Accept, AcceptFails, RefuseDuplicate, RefuseVersion, RefuseInvalid,
       Refuse, JoinReply, Crash, Joining, Unheard, TypeOK, SocketsTypeOK, MasterTypeOK
  <2>5. \A c \in Conn : Known(c) => stream'[c] = stream[c]
    BY <1>0, <2>4, KnownHeard
  <2>6. \A i \in Slot : slots[i] # None => stream'[slots[i]] = stream[slots[i]]
    BY <1>0, <2>5 DEF Known, HasSlot, TypeOK, MasterTypeOK
  <2>7. Tidy'
    BY <1>0, <2>1, <2>6, TidyKept
  <2>8. ASSUME NEW c \in socket_map
        PROVE  ReadInTime(c)'
    <3>1. c \in Conn /\ Known(c) /\ ReadInTime(c)
      BY <1>0 DEF Known, Alive, TypeOK, MasterTypeOK
    <3>. QED
      BY <2>1, <2>2, <2>5, <3>1, UnreadKept
  <2>. QED
    BY <2>1, <2>3, <2>7, <2>8 DEF Alive, Running
<1>. QED
  BY <1>1, <1>2, <1>3 DEF AcceptorSteps, Acceptor

(* The watchdog finds nobody silent.                                       *)
LEMMA TickAlive ==
    ASSUME TimedBase, TimedBase', Alive, WatchdogSteps
    PROVE  Alive'
<1>0. TypeOK /\ TypeOK' /\ RegistryInvariant /\ ClocksTypeOK /\ Tidy
  BY DEF TimedBase, Alive
<1>1. /\ watchdog' = [c \in Conn |-> Ticked(c)] /\ tick_in = 0 /\ tick_in' = Second
      /\ UNCHANGED <<status, accepted, socket_map, participant_list, stream, send_in, new_q>>
      /\ UNCHANGED <<slots, revents, w_pc, cursor, wake_in, poll_in>>
      /\ Running
  BY DEF WatchdogSteps, Tick
<1>2. Second \in Nat \ {0} /\ LoopSleep \in Nat
  BY Lengths
<1>3. ASSUME NEW c \in socket_map
      PROVE  /\ watchdog[c] \in {0, 1} /\ watchdog'[c] = watchdog[c] + 1
             /\ c \in Conn /\ ReadInTime(c)
  <2>0. c \in Conn /\ name_of[c] \in Participants /\ participant_list[name_of[c]] = c
    BY <1>0, ConstantsDistinct DEF RegistryInvariant, RegistryAgrees, Participants, TypeOK,
       MasterTypeOK
  <2>1. watchdog[c] \in Nat /\ watchdog[c] <= 2 /\ ReadInTime(c)
    BY <1>0, <2>0, TickCounts DEF Alive, ReadInTime
  <2>2. PICK b \in 0..(Second + LoopSleep) : b < tick_in + (2 - watchdog[c]) * Second
    BY <2>1 DEF ReadInTime
  <2>3. watchdog[c] # 2
    BY <1>1, <1>2, <2>2
  <2>4. watchdog[c] \in {0, 1}
    BY <2>1, <2>3
  <2>5. watchdog'[c] = (watchdog[c] + 1) % 256
    BY <1>1, <2>0 DEF Ticked
  <2>6. watchdog'[c] = watchdog[c] + 1
    BY <2>4, <2>5
  <2>. QED
    BY <2>0, <2>1, <2>4, <2>6
<1>4. Silent = {}
  <2>1. ASSUME NEW n \in Participants
        PROVE  ~(Ticked(participant_list[n]) >= 3)
    <3>1. participant_list[n] \in socket_map
      BY <1>0 DEF RegistryInvariant, RegistryAgrees
    <3>2. PICK c \in socket_map : c = participant_list[n]
      BY <3>1
    <3>3. Ticked(c) = watchdog[c] + 1 /\ watchdog[c] \in {0, 1}
      BY <1>1, <1>3
    <3>. QED
      BY <3>2, <3>3
  <2>. QED
    BY <2>1 DEF Silent
<1>5. dead_q' = <<>>
  <2>1. PICK order \in SetToSeqs(Silent) : dead_q' = dead_q \o order
    BY DEF WatchdogSteps, Tick
  <2>2. order \in Seq(Name) /\ order \in [1..0 -> {}]
    BY <1>4, SilentQueue, FS_EmptySet DEF SetToSeqs
  <2>3. order = <<>>
    BY <2>2, EmptySeq, LenProperties
  <2>. QED
    BY <2>1, <2>3 DEF Alive
<1>6. Tidy'
  BY <1>0, <1>1, TidyKept
<1>7. ASSUME NEW c \in socket_map
      PROVE  ReadInTime(c)'
  <2>1. PICK b \in 0..(Second + LoopSleep) :
            ReadLeft(c, b) /\ b < tick_in + (2 - watchdog[c]) * Second
    BY <1>3 DEF ReadInTime
  <2>2. b < tick_in' + (2 - watchdog'[c]) * Second
    <3>1. b \in Nat
      BY <1>2, <2>1
    <3>2. CASE watchdog[c] = 0
      BY <1>1, <1>2, <1>3, <2>1, <3>1, <3>2
    <3>3. CASE watchdog[c] = 1
      BY <1>1, <1>2, <1>3, <2>1, <3>1, <3>3
    <3>. QED
      BY <1>3, <3>2, <3>3
  <2>3. ReadLeft(c, b)'
    BY <1>1, <2>1 DEF ReadLeft, HasSlot, ToServe
  <2>4. watchdog'[c] <= 2
    BY <1>3
  <2>. QED
    BY <2>2, <2>3, <2>4 DEF ReadInTime
<1>. QED
  BY <1>1, <1>5, <1>6, <1>7 DEF Alive, Running

(* What is sent while the worker sleeps is there when it wakes.            *)
LEMMA SenderAlive ==
    ASSUME TimedBase, TimedBase', Alive, NEW d \in Conn, SenderSteps(d)
    PROVE  Alive'
<1>0. TypeOK /\ ClocksTypeOK /\ Tidy
  BY DEF TimedBase, Alive
<1>1. /\ UNCHANGED masterVars /\ UNCHANGED <<tick_in, wake_in, poll_in>>
      /\ send_in' = [send_in EXCEPT ![d] = Second] /\ Running
  BY DEF SenderSteps, vars
<1>2. /\ UNCHANGED <<status, accepted, dead_q, watchdog, slots, revents, w_pc, cursor>>
      /\ UNCHANGED <<new_q, participant_list, socket_map>>
  BY <1>1 DEF masterVars
<1>3. /\ \A c \in Conn \ {d} : stream'[c] = stream[c] /\ send_in'[c] = send_in[c]
      /\ stream'[d] = stream[d] \/ stream'[d] # <<>>
      /\ OnlyKeepAlives(d) => stream'[d] # <<>>
  <2>1. CASE Unread(d) < MaxUnread
    <3>1. stream' = [stream EXCEPT ![d] = Append(stream[d], Header("KEEP_ALIVE"))]
      BY <2>1 DEF SenderSteps, KeepAlive, Write
    <3>2. stream[d] \in Seq(Chunk) /\ Header("KEEP_ALIVE") \in Chunk
      BY <1>0 DEF TypeOK, SocketsTypeOK, Header, Chunk, FrameType, Argument
    <3>3. Append(stream[d], Header("KEEP_ALIVE")) # <<>>
      BY <3>2, AppendProperties
    <3>. QED
      BY <1>0, <1>1, <3>1, <3>3 DEF TypeOK, SocketsTypeOK, ClocksTypeOK
  <2>2. CASE ~(Unread(d) < MaxUnread)
    <3>1. stream[d] # <<>>
      BY <1>0, <2>2, UnreadChunks, KeepAlivesCount
    <3>2. stream' = stream
      BY <2>2 DEF SenderSteps, vars, clientVars
    <3>. QED
      BY <1>0, <1>1, <3>1, <3>2 DEF ClocksTypeOK
  <2>. QED
    BY <2>1, <2>2
<1>4. Tidy'
  <2>1. \A i \in Slot : slots[i] # None /\ stream[slots[i]] # <<>> => stream'[slots[i]] # <<>>
    BY <1>0, <1>3 DEF TypeOK, MasterTypeOK
  <2>. QED
    BY <1>0, <1>2, <2>1, TidyKept
<1>5. ASSUME NEW c \in socket_map
      PROVE  ReadInTime(c)'
  <2>1. c \in Conn /\ ReadInTime(c)
    BY <1>0 DEF Alive, TypeOK, MasterTypeOK
  <2>2. CASE c # d
    BY <1>1, <1>2, <1>3, <2>1, <2>2, UnreadKept
  <2>3. CASE c = d
    <3>1. stream'[c] # <<>>
      BY <1>3, <1>5, <2>1, <2>3 DEF TimedBase, TalkInv, Known, Talk
    <3>2. ASSUME NEW b \in 0..(Second + LoopSleep), ReadLeft(c, b)
          PROVE  ReadLeft(c, b)'
      <4>1. /\ b \in Nat /\ wake_in \in 0..LoopSleep /\ send_in[c] \in Nat
            /\ LoopSleep \in Nat
        BY <1>0, <2>1, <3>2, Timers, Lengths
      <4>2. w_pc = "top" => wake_in <= b
        BY <3>2, <4>1 DEF ReadLeft
      <4>. QED
        BY <1>1, <1>2, <3>1, <3>2, <4>2 DEF ReadLeft, HasSlot, ToServe
    <3>. QED
      BY <1>1, <1>2, <2>1, <3>2, ReadKept
  <2>. QED
    BY <2>2, <2>3
<1>. QED
  BY <1>1, <1>2, <1>4, <1>5 DEF Alive, Running

(* An application that joins is not known before it has written its frame. *)
LEMMA ApplicationAlive ==
    ASSUME TimedBase, TimedBase', AllPresent', Alive, NEW d \in Conn, ApplicationSteps(d)
    PROVE  Alive'
<1>0. TypeOK /\ RegistryInvariant /\ ConversationInv /\ TalkInv /\ Tidy
  BY DEF TimedBase, Alive
<1>1. /\ UNCHANGED masterVars /\ UNCHANGED <<tick_in, wake_in, poll_in, send_in>> /\ Running
  BY DEF ApplicationSteps, clocks
<1>2. /\ UNCHANGED <<status, accepted, dead_q, watchdog, slots, revents, w_pc, cursor>>
      /\ UNCHANGED <<new_q, participant_list, socket_map>>
  BY <1>1 DEF masterVars
<1>3. \A c \in Conn : Known(c) => stream'[c] = stream[c]
  <2>1. CASE Joins(d)
    <3>1. ~Known(d)
      BY <1>0, <2>1, KnownHeard DEF Joins, Connect
    <3>. QED
      BY <1>0, <2>1, <3>1 DEF Joins, Connect, WriteHeader, Write, TypeOK, SocketsTypeOK
  <2>2. CASE WriteBody(d)
    <3>1. ~Known(d)
      BY <1>0, <2>2 DEF WriteBody, TalkInv, Talk
    <3>. QED
      BY <1>0, <2>2, <3>1 DEF WriteBody, Write, TypeOK, SocketsTypeOK
  <2>3. CASE EndJoin(d) \/ End(d)
    BY <2>3 DEF EndJoin, End
  <2>. QED
    BY <2>1, <2>2, <2>3 DEF ApplicationSteps
<1>4. \A i \in Slot : slots[i] # None => stream'[slots[i]] = stream[slots[i]]
  BY <1>0, <1>3 DEF Known, HasSlot, TypeOK, MasterTypeOK
<1>5. Tidy'
  BY <1>0, <1>2, <1>4, TidyKept
<1>6. ASSUME NEW c \in socket_map
      PROVE  ReadInTime(c)'
  <2>1. c \in Conn /\ Known(c) /\ ReadInTime(c)
    BY <1>0 DEF Known, Alive, TypeOK, MasterTypeOK
  <2>. QED
    BY <1>1, <1>2, <1>3, <2>1, UnreadKept
<1>. QED
  BY <1>2, <1>5, <1>6 DEF Alive, Running

(* Time passes only while everyone that has spoken is read in time.        *)
LEMMA PassAlive ==
    ASSUME TimedBase, AllPresent, Alive, Pass
    PROVE  Alive'
<1>0. TypeOK /\ RegistryInvariant /\ TalkInv /\ ClocksTypeOK /\ Tidy /\ UNCHANGED vars
  BY DEF TimedBase, Alive, Pass
<1>1. /\ UNCHANGED <<status, accepted, dead_q, watchdog, slots, revents, w_pc, cursor>>
      /\ UNCHANGED <<new_q, participant_list, socket_map, stream>>
  BY <1>0 DEF vars, masterVars, clientVars
<1>2. Tidy'
  BY <1>0, <1>1, TidyKept
<1>3. w_pc # "scan" /\ w_pc \in {"top", "poll"}
  <2>1. ~ \E i \in Slot : AtSlot(i) /\ NothingToRead(slots[i])
    BY <1>0 DEF AtSlot, NothingToRead, Tidy, FramesToServe
  <2>. QED
    BY <1>0, <2>1 DEF Pass, WorkerWaits, TalkInv
<1>4. ASSUME NEW c \in socket_map
      PROVE  ReadInTime(c)'
  <2>0. c \in Conn /\ Known(c) /\ ~Ended(c) /\ ReadInTime(c)
    BY <1>0 DEF Known, Alive, AllPresent, TypeOK, MasterTypeOK
  <2>1. PICK b \in 0..(Second + LoopSleep) :
            ReadLeft(c, b) /\ b < tick_in + (2 - watchdog[c]) * Second
    BY <2>0 DEF ReadInTime
  <2>2. peer[c] = "up" /\ send_in[c] > 0
    BY <2>0, KnownUp
  <2>3. /\ b \in Nat /\ LoopSleep \in Nat \ {0} /\ Second \in Nat
        /\ wake_in \in Nat /\ poll_in \in Nat /\ send_in[c] \in Nat /\ tick_in \in Nat
    BY <1>0, <2>0, <2>1, Timers, Lengths
  <2>4. /\ tick_in' = tick_in - 1 /\ send_in'[c] = send_in[c] - 1
        /\ w_pc = "top" => wake_in > 0 /\ wake_in' = wake_in - 1
        /\ w_pc = "poll" => poll_in > 0 /\ poll_in' = poll_in - 1 /\ ~SomePollIn
    BY <1>0, <1>3, <2>0, <2>2, <2>3 DEF Pass, Less, WorkerWaits, AtSlot
  <2>5. stream[c] = <<>> => LoopSleep + send_in[c] <= b
    BY <2>1 DEF ReadLeft
  <2>6. w_pc = "poll" /\ HasSlot(c) => stream[c] = <<>>
    <3>1. SUFFICES ASSUME w_pc = "poll", NEW i \in Slot, slots[i] = c
                   PROVE  stream[c] = <<>>
      BY DEF HasSlot
    <3>2. slots[i] # None
      BY <2>0, <3>1, ConstantsDistinct
    <3>3. i \in Polled
      BY <1>0, <3>2, UsedPolled DEF Tidy
    <3>. QED
      BY <2>4, <3>1, <3>2, <3>3 DEF SomePollIn, PollIn, Readable
  <2>7. /\ w_pc = "top" /\ (stream[c] # <<>> \/ ~HasSlot(c)) => wake_in <= b
        /\ w_pc = "poll" /\ ~HasSlot(c) => poll_in + LoopSleep <= b
    BY <2>1 DEF ReadLeft
  <2>8. b >= 1
    BY <1>3, <2>2, <2>3, <2>4, <2>5, <2>6, <2>7
  <2>9. PICK k \in 0..(Second + LoopSleep) : k = b - 1
    BY <2>1, <2>3, <2>8
  <2>10. ReadLeft(c, k)'
    <3>1. HasSlot(c)' = HasSlot(c)
      BY <1>1 DEF HasSlot
    <3>2. /\ w_pc = "top" /\ (stream[c] # <<>> \/ ~HasSlot(c)) => wake_in' <= k
          /\ w_pc = "poll" /\ ~HasSlot(c) => poll_in' + LoopSleep <= k
          /\ stream[c] = <<>> => LoopSleep + send_in'[c] <= k
      BY <2>3, <2>4, <2>5, <2>7, <2>9
    <3>. QED
      BY <1>1, <1>3, <3>1, <3>2 DEF ReadLeft
  <2>11. watchdog[c] <= 2 /\ watchdog[c] \in Nat
    BY <1>0, <2>0, TickCounts DEF ReadInTime
  <2>12. k < tick_in' + (2 - watchdog'[c]) * Second
    <3>. DEFINE p == (2 - watchdog[c]) * Second
    <3>1. p \in Int
      BY <2>3, <2>11
    <3>2. b < tick_in + p
      BY <2>1
    <3>. HIDE DEF p
    <3>3. k < tick_in' + p
      BY <2>3, <2>4, <2>9, <3>1, <3>2
    <3>. QED
      BY <1>1, <3>3 DEF p
  <2>. QED
    BY <1>1, <2>10, <2>11, <2>12 DEF ReadInTime
<1>. QED
  BY <1>1, <1>2, <1>4 DEF Alive, Running

(* Every timed step keeps it.                                              *)
LEMMA NextAlive ==
    ASSUME TimedBase, TimedBase', Served, DeclareInv, AliveInv, [TimedNext]_timedVars
    PROVE  AliveInv'
<1>1. SUFFICES ASSUME AllPresent' PROVE Alive'
  BY DEF AliveInv
<1>2. AllPresent /\ Alive
  BY <1>1, EndedStays, EnoughBefore, TimedStep DEF AllPresent, AliveInv, TimedBase
<1>3. CASE UNCHANGED timedVars
  <2>1. UNCHANGED vars /\ UNCHANGED <<tick_in, wake_in, poll_in, send_in>>
    BY <1>3 DEF timedVars, clocks
  <2>2. /\ UNCHANGED <<status, accepted, dead_q, watchdog, slots, revents, w_pc, cursor>>
        /\ UNCHANGED <<new_q, participant_list, socket_map, stream>>
    BY <2>1 DEF vars, masterVars, clientVars
  <2>3. Tidy'
    BY <1>2, <2>2, TidyKept DEF Alive
  <2>4. \A c \in socket_map : ReadInTime(c)'
    BY <1>2, <2>1, <2>2, UnreadKept DEF Alive
  <2>. QED
    BY <1>2, <2>2, <2>3, <2>4 DEF Alive, Running
<1>. QED
  BY <1>1, <1>2, <1>3, WorkerAlive, AcceptorAlive, TickAlive, SenderAlive, ApplicationAlive,
     PassAlive DEF TimedNext

(* As long as nobody ends and there is a slot for each, nobody is declared *)
(* dead, and nothing stops the master but the want of a descriptor: in any *)
(* number of participants, however long a second is, if only the worker    *)
(* sleeps for less.                                                        *)
THEOREM AllKeptAlive == TimedSpec => []KeptAlive
<1>1. TimedBase /\ TimedBase' /\ Served /\ DeclareInv /\ AliveInv /\ [TimedNext]_timedVars
        => AliveInv'
  BY NextAlive
<1>2. TimedInit => AliveInv
  <2>. SUFFICES ASSUME TimedInit PROVE Alive
    BY DEF AliveInv
  <2>1. /\ status = "running" /\ dead_q = <<>> /\ new_q = <<>> /\ w_pc = "top" /\ cursor = 1
        /\ slots = [i \in Slot |-> None] /\ socket_map = {}
    BY DEF TimedInit, Init, MasterInit
  <2>2. Tidy
    BY <2>1, EmptySeq DEF Tidy, Compact, SlotsRegistered, QueuedOnce, FramesToServe
  <2>. QED
    BY <2>1, <2>2 DEF Alive, Running
<1>3. AliveInv => KeptAlive
  BY DEF AliveInv, Alive, AllPresent, Enough, KeptAlive
<1>. QED
  BY <1>1, <1>2, <1>3, TimedBases, TimedDeclares, RoomServed, TimedIsUntimed, PTL DEF TimedSpec

-------------------------------------------------------------------------------
(* Who waits for a slot: it gets one before it can be declared dead.       *)

(* The worker comes to its queues before the third tick from now.          *)
DrainedInTime(c) ==
    /\ ~Declared(c) /\ watchdog[c] <= 2
    /\ \E b \in 0..(Second + LoopSleep) :
          /\ w_pc # "new" => RoundLeft(b)
          /\ b < tick_in + (2 - watchdog[c]) * Second

QueueInv ==
    /\ OneSlotEach /\ QueuedOnce
    /\ Running => \A c \in socket_map : Queued(c) => DrainedInTime(c)

(* Whoever is queued is registered under the name and has no slot.         *)
LEMMA QueuedWithout ==
    ASSUME TypeOK, RegistryInvariant, QueuedOnce, NEW c \in socket_map, Queued(c)
    PROVE  c \in Conn /\ ~HasSlot(c)
BY DEF Queued, QueuedOnce, RegistryInvariant, RegistryAgrees, TypeOK, MasterTypeOK

(* No step but a tick and the passing of time brings the third tick closer. *)
LEMMA DrainedKept ==
    ASSUME NEW c, DrainedInTime(c), ~Declared(c)', watchdog'[c] = watchdog[c],
           UNCHANGED tick_in,
           \A b \in Nat : RoundLeft(b) /\ w_pc # "new" /\ w_pc' # "new" => RoundLeft(b)',
           w_pc = "new" => w_pc' = "new"
    PROVE  DrainedInTime(c)'
<1>1. PICK b \in 0..(Second + LoopSleep) :
          (w_pc # "new" => RoundLeft(b)) /\ b < tick_in + (2 - watchdog[c]) * Second
  BY DEF DrainedInTime
<1>2. b \in Nat
  BY <1>1, Lengths
<1>3. w_pc' # "new" => RoundLeft(b)'
  BY <1>1, <1>2
<1>4. b < tick_in' + (2 - watchdog'[c]) * Second
  BY <1>1
<1>. QED
  BY <1>1, <1>3, <1>4 DEF DrainedInTime

(* Taking the first name off a queue leaves the others.                    *)
LEMMA TailElements ==
    ASSUME NEW S, NEW q \in Seq(S), q # <<>>
    PROVE  /\ 1 \in DOMAIN q /\ Head(q) = q[1]
           /\ \A k \in DOMAIN Tail(q) : k + 1 \in DOMAIN q /\ Tail(q)[k] = q[k + 1] /\ k + 1 # 1
<1>1. /\ Len(q) \in Nat \ {0} /\ DOMAIN q = 1..Len(q) /\ Head(q) = q[1]
      /\ DOMAIN Tail(q) = 1..(Len(q) - 1)
      /\ \A k \in 1..(Len(q) - 1) : Tail(q)[k] = q[k + 1]
  BY LenProperties, HeadTailProperties, EmptySeq
<1>. QED
  BY <1>1

(* The removal of one that is dead: nobody that waits for a slot is.       *)
LEMMA DrainDeadQueue ==
    ASSUME TypeOK, TypeOK', RegistryInvariant, QueueInv, DrainDead,
           UNCHANGED tick_in
    PROVE  QueueInv'
<1>. DEFINE n == Head(dead_q)
<1>1. PICK d \in Conn : d = participant_list[n] /\ n \in Name
  BY TailElements DEF DrainDead, TypeOK, MasterTypeOK
<1>2. /\ Running /\ w_pc = "dead" /\ dead_q # <<>> /\ d # None
      /\ slots' = ClearFirst(d) /\ dead_q' = Tail(dead_q)
      /\ participant_list' = [participant_list EXCEPT ![n] = None]
      /\ socket_map' = socket_map \ {d} /\ Destroy(d)
      /\ UNCHANGED <<status, new_q, w_pc>>
  BY <1>1 DEF DrainDead
<1>3. /\ 1 \in DOMAIN dead_q /\ n = dead_q[1]
      /\ \A k \in DOMAIN dead_q' : /\ k + 1 \in DOMAIN dead_q /\ k + 1 # 1
                                   /\ dead_q'[k] = dead_q[k + 1]
  BY <1>2, TailElements DEF TypeOK, MasterTypeOK
<1>4. d \in socket_map /\ name_of[d] = n
  BY <1>1, <1>2 DEF RegistryInvariant, RegistryAgrees, Participants
<1>5. \A i \in Slot : slots'[i] # None => slots'[i] = slots[i]
  BY <1>2 DEF ClearFirst
<1>. HIDE DEF n
<1>6. \A c \in Conn : c # d => name_of'[c] = name_of[c] /\ watchdog'[c] = watchdog[c]
  BY <1>2 DEF Destroy, TypeOK, MasterTypeOK
<1>7. ~Queued(d)
  BY <1>2, <1>3, <1>4 DEF QueueInv, DrainedInTime, Declared
<1>8. OneSlotEach'
  BY <1>5 DEF QueueInv, OneSlotEach
<1>9. QueuedOnce'
  <2>1. ASSUME NEW k \in DOMAIN new_q
        PROVE  /\ new_q[k] \in Participants' /\ participant_list'[new_q[k]] = participant_list[new_q[k]]
               /\ participant_list[new_q[k]] # None
               /\ \A i \in Slot : slots'[i] # participant_list[new_q[k]]
    <3>1. new_q[k] \in Participants /\ ~HasSlot(participant_list[new_q[k]]) /\ new_q[k] # n
      BY <1>4, <1>7 DEF QueueInv, QueuedOnce, Queued
    <3>2. new_q[k] \in Participants' /\ participant_list'[new_q[k]] = participant_list[new_q[k]]
      BY <1>2, <3>1 DEF Participants, TypeOK, MasterTypeOK
    <3>. QED
      BY <1>5, <3>1, <3>2 DEF HasSlot, Participants
  <2>. QED
    BY <1>2, <2>1 DEF QueueInv, QueuedOnce, HasSlot
<1>10. ASSUME NEW c \in socket_map', Queued(c)'
       PROVE  DrainedInTime(c)'
  <2>1. c \in socket_map /\ c # d /\ c \in Conn
    BY <1>2, <1>10 DEF TypeOK, MasterTypeOK
  <2>2. Queued(c)
    BY <1>2, <1>6, <1>10, <2>1 DEF Queued
  <2>3. DrainedInTime(c)
    BY <1>2, <2>1, <2>2 DEF QueueInv
  <2>4. ~Declared(c)'
    BY <1>3, <1>6, <2>1, <2>3 DEF DrainedInTime, Declared
  <2>5. \A b \in Nat : RoundLeft(b)'
    BY <1>2 DEF RoundLeft, Awaited
  <2>. QED
    BY <1>2, <1>6, <2>1, <2>3, <2>4, <2>5, DrainedKept
<1>. QED
  BY <1>2, <1>8, <1>9, <1>10 DEF QueueInv

(* A slot is given to one that has none.                                   *)
LEMMA DrainNewQueue ==
    ASSUME TypeOK, TypeOK', RegistryInvariant, QueueInv, DrainNew, UNCHANGED tick_in
    PROVE  QueueInv'
<1>. DEFINE d == participant_list[Head(new_q)]
<1>1. /\ Running /\ w_pc = "new" /\ w_pc' = "new" /\ new_q # <<>> /\ new_q' = Tail(new_q)
      /\ slots' = [i \in Slot |-> IF FirstFree(i) THEN d ELSE slots[i]]
      /\ UNCHANGED <<status, participant_list, socket_map, name_of, watchdog, dead_q>>
  BY DEF DrainNew
<1>2. ~HasSlot(d) /\ d # None /\ QueuedOnce'
  BY DrainNewQueued DEF QueueInv
<1>. HIDE DEF d
<1>3. OneSlotEach'
  <2>1. \A i, j \in Slot : FirstFree(i) /\ FirstFree(j) => i = j
    <3>1. \A i, j \in Slot : FirstFree(i) /\ FirstFree(j) => ~(i < j)
      BY MasterBounds DEF FirstFree, Slot
    <3>. QED
      BY <3>1, MasterBounds DEF Slot
  <2>. QED
    BY <1>1, <1>2, <2>1 DEF QueueInv, OneSlotEach, HasSlot
<1>4. ASSUME NEW c \in socket_map', Queued(c)'
      PROVE  DrainedInTime(c)'
  <2>1. Queued(c)
    <3>1. PICK k \in DOMAIN Tail(new_q) : Tail(new_q)[k] = name_of[c]
      BY <1>1, <1>4 DEF Queued
    <3>. QED
      BY <1>1, <3>1, TailElements DEF Queued, TypeOK, MasterTypeOK
  <2>2. DrainedInTime(c) /\ ~Declared(c)'
    BY <1>1, <1>4, <2>1 DEF QueueInv, DrainedInTime, Declared
  <2>. QED
    BY <1>1, <2>2, DrainedKept
<1>. QED
  BY <1>1, <1>2, <1>3, <1>4 DEF QueueInv

(* A step that leaves the queues and the registry, and fills no slot.      *)
LEMMA QueueKept ==
    ASSUME QueueInv, Running, UNCHANGED <<new_q, dead_q, participant_list, socket_map, name_of>>,
           \A i \in Slot : slots'[i] # None => slots'[i] = slots[i],
           \A c \in socket_map : Queued(c) /\ DrainedInTime(c) => DrainedInTime(c)'
    PROVE  QueueInv'
<1>1. OneSlotEach'
  BY DEF QueueInv, OneSlotEach
<1>2. QueuedOnce'
  <2>1. Participants' = Participants
    BY DEF Participants
  <2>2. \A k \in DOMAIN new_q : participant_list[new_q[k]] # None
    BY DEF QueueInv, QueuedOnce, Participants
  <2>. QED
    BY <2>1, <2>2 DEF QueueInv, QueuedOnce, HasSlot
<1>3. \A c \in socket_map : Queued(c)' => DrainedInTime(c)'
  BY DEF QueueInv, Queued
<1>. QED
  BY <1>1, <1>2, <1>3 DEF QueueInv

(* The worker takes the names off its queues in every round.               *)
LEMMA WorkerQueue ==
    ASSUME TimedBase, TimedBase', QueueInv, WorkerSteps
    PROVE  QueueInv'
<1>0. TypeOK /\ TypeOK' /\ RegistryInvariant /\ TalkInv /\ UNCHANGED tick_in
  BY DEF TimedBase, WorkerSteps
<1>1. \/ Drain \/ Poll \/ ScanDone
      \/ \E i \in Slot : ReadKeepAlive(i) \/ ReadEof(i) \/ ReadReset(i)
  BY <1>0, WorkerActs DEF WorkerSteps
<1>2. CASE DrainDeadUnknown \/ DrainNewUnknown
  <2>1. UNCHANGED <<slots, new_q, participant_list>> /\ ~Running'
    BY <1>2 DEF DrainDeadUnknown, DrainNewUnknown, Crash, Running
  <2>. QED
    BY <2>1 DEF QueueInv, OneSlotEach, QueuedOnce, Participants, HasSlot
<1>3. CASE DrainDead
  BY <1>0, <1>3, DrainDeadQueue
<1>4. CASE DrainNew
  BY <1>0, <1>4, DrainNewQueue
<1>5. CASE LockDead \/ NoMoreDead \/ NoMoreNew
  <2>1. /\ UNCHANGED <<new_q, dead_q, participant_list, socket_map, name_of, slots, watchdog>>
        /\ Running /\ (w_pc = "new" => w_pc' = "new" \/ new_q = <<>>)
        /\ w_pc' = "dead" \/ w_pc' = "new" \/ new_q = <<>>
    BY <1>5 DEF LockDead, NoMoreDead, NoMoreNew
  <2>2. \A b \in Nat : w_pc' = "dead" => RoundLeft(b)'
    BY DEF RoundLeft, Awaited
  <2>3. ASSUME NEW c \in socket_map, Queued(c), DrainedInTime(c)
        PROVE  DrainedInTime(c)'
    <3>1. new_q # <<>>
      BY <2>3, EmptySeq DEF Queued
    <3>2. ~Declared(c)'
      BY <2>1, <2>3 DEF DrainedInTime, Declared
    <3>. QED
      BY <1>0, <2>1, <2>2, <2>3, <3>1, <3>2, DrainedKept
  <2>. QED
    BY <2>1, <2>3, QueueKept
<1>6. CASE \/ Poll \/ ScanDone
           \/ \E i \in Slot : ReadKeepAlive(i) \/ ReadEof(i) \/ ReadReset(i)
  <2>1. UNCHANGED <<new_q, dead_q, participant_list, socket_map, name_of>> /\ Running
        /\ w_pc # "new"
    BY <1>6 DEF Poll, ScanDone, ReadKeepAlive, ReadEof, ReadReset, AtSlot
  <2>2. \A i \in Slot : slots'[i] # None => slots'[i] = slots[i]
    BY <1>0, <1>6 DEF Poll, ScanDone, ReadKeepAlive, ReadEof, ReadReset, TypeOK, MasterTypeOK
  <2>3. ~NoMoreDead
    BY <1>6 DEF Poll, ScanDone, ReadKeepAlive, ReadEof, ReadReset, AtSlot, NoMoreDead
  <2>4. \A b \in Nat : RoundLeft(b) => RoundLeft(b)'
    BY <2>3, WorkerRound DEF QueueInv
  <2>5. ASSUME NEW c \in socket_map, Queued(c), DrainedInTime(c)
        PROVE  DrainedInTime(c)'
    <3>1. c \in Conn /\ ~HasSlot(c)
      BY <1>0, <2>5, QueuedWithout DEF QueueInv
    <3>2. watchdog'[c] = watchdog[c]
      BY <1>0, <1>6, <3>1 DEF Poll, ScanDone, ReadKeepAlive, ReadEof, ReadReset, HasSlot,
         TypeOK, MasterTypeOK
    <3>3. ~Declared(c)'
      BY <2>1, <2>5 DEF DrainedInTime, Declared
    <3>. QED
      BY <1>0, <2>1, <2>4, <2>5, <3>2, <3>3, DrainedKept
  <2>. QED
    BY <2>1, <2>2, <2>5, QueueKept
<1>. QED
  BY <1>1, <1>2, <1>3, <1>4, <1>5, <1>6 DEF Drain

(* Who has just been queued has three ticks, if its name is a fresh one.   *)
LEMMA RegisterQueue ==
    ASSUME TimedBase, TimedBase', ClockInv, DeclareInv, QueueInv, AcceptorSteps,
           NEW n \in Name, Register(n), \A k \in DOMAIN dead_q : dead_q[k] # n
    PROVE  QueueInv'
<1>0. TypeOK /\ RegistryInvariant /\ ConversationInv /\ ClocksTypeOK' /\ UNCHANGED tick_in
  BY DEF TimedBase, AcceptorSteps, clocks
<1>1. PICK d \in Conn : d = a_conn
  BY <1>0 DEF Register, Joining, TypeOK, MasterTypeOK
<1>2. /\ UNCHANGED <<slots, dead_q, watchdog, w_pc>> /\ Running /\ w_pc # "new"
      /\ participant_list' = [participant_list EXCEPT ![n] = d]
      /\ name_of' = [name_of EXCEPT ![d] = n]
      /\ participant_list[n] = None /\ new_q' = Append(new_q, n)
      /\ socket_map' = socket_map \cup {d}
  BY <1>1 DEF Register, Joining, NewFree
<1>3. d \notin socket_map
  BY <1>0, <1>1 DEF Register, Joining, RegistryInvariant, AcceptorHolds
<1>4. OneSlotEach' /\ QueuedOnce'
  BY <1>0, <1>2, RegisterQueued DEF QueueInv, OneSlotEach
<1>5. Participants' = Participants \cup {n} /\ n \notin Participants
  BY <1>0, <1>2, ConstantsDistinct DEF Participants, TypeOK, MasterTypeOK
<1>6. DrainedInTime(d)'
  <2>1. ~Declared(d)' /\ watchdog'[d] = 0
    <3>1. name_of'[d] = n
      BY <1>0, <1>2 DEF TypeOK, MasterTypeOK
    <3>. QED
      BY <1>2, <1>3, <3>1 DEF Declared, DeclareInv
  <2>2. /\ Second \in Nat /\ LoopSleep \in Nat /\ tick_in' \in Nat /\ LoopSleep < Second
    <3>1. tick_in \in Nat
      BY Timers DEF TimedBase
    <3>. QED
      BY <1>0, <3>1, Lengths, SleepsLess
  <2>3. PICK b \in 0..(Second + LoopSleep) : b = Second + LoopSleep
    BY <2>2
  <2>4. RoundLeft(b)'
    <3>1. RoundLeft(Second + LoopSleep)'
      BY <1>0, WholeRoundNext
    <3>. QED
      BY <2>3, <3>1 DEF RoundLeft, Awaited
  <2>5. (2 - watchdog'[d]) * Second = Second + Second
    BY <2>1, <2>2
  <2>6. b < tick_in' + (2 - watchdog'[d]) * Second
    BY <2>2, <2>3, <2>5
  <2>7. watchdog'[d] <= 2
    BY <2>1
  <2>. QED
    BY <2>1, <2>4, <2>6, <2>7 DEF DrainedInTime
<1>7. ASSUME NEW c \in socket_map, Queued(c)'
      PROVE  DrainedInTime(c)'
  <2>1. c # d /\ c \in Conn /\ name_of'[c] = name_of[c] /\ name_of[c] \in Participants
    BY <1>0, <1>2, <1>3, ConstantsDistinct DEF RegistryInvariant, RegistryAgrees,
       Participants, TypeOK, MasterTypeOK
  <2>2. name_of[c] # n
    BY <1>5, <2>1
  <2>3. Queued(c)
    <3>1. /\ Len(new_q) \in Nat /\ DOMAIN new_q = 1..Len(new_q)
          /\ DOMAIN new_q' = 1..(Len(new_q) + 1)
          /\ \A k \in 1..Len(new_q) : new_q'[k] = new_q[k]
          /\ new_q'[Len(new_q) + 1] = n
      BY <1>0, <1>2, LenProperties, AppendProperties DEF TypeOK, MasterTypeOK
    <3>2. PICK k \in DOMAIN new_q' : new_q'[k] = name_of[c]
      BY <1>7, <2>1 DEF Queued
    <3>3. k \in DOMAIN new_q /\ new_q'[k] = new_q[k]
      BY <2>2, <3>1, <3>2
    <3>. QED
      BY <3>2, <3>3 DEF Queued
  <2>4. DrainedInTime(c) /\ ~Declared(c)'
    BY <1>2, <2>1, <2>3 DEF QueueInv, DrainedInTime, Declared
  <2>5. \A b \in Nat : RoundLeft(b) => RoundLeft(b)'
    BY OthersRound
  <2>. QED
    BY <1>0, <1>2, <2>4, <2>5, DrainedKept
<1>. QED
  BY <1>2, <1>4, <1>6, <1>7 DEF QueueInv

(* The acceptor else, and the participants, leave the queues.              *)
LEMMA OthersQueue ==
    ASSUME TimedBase, TimedBase', ClockInv, QueueInv, TimedNext,
           \/ AcceptorSteps /\ \A n \in Name : ~Register(n)
           \/ \E d \in Conn : SenderSteps(d) \/ ApplicationSteps(d)
    PROVE  QueueInv'
<1>1. UNCHANGED <<new_q, dead_q, participant_list, socket_map, name_of, slots, watchdog>>
      /\ UNCHANGED <<w_pc, tick_in>>
  BY DEF AcceptorSteps, SenderSteps, ApplicationSteps, clocks, vars, masterVars, Acceptor,
     Accept, AcceptFails, InitEof, RefuseDuplicate, RefuseVersion, RefuseInvalid, Refuse,
     JoinReply, Crash
<1>2. \A b \in Nat : RoundLeft(b) => RoundLeft(b)'
  BY OthersRound
<1>3. ASSUME NEW c \in socket_map, Queued(c), DrainedInTime(c)
      PROVE  DrainedInTime(c)'
  <2>1. ~Declared(c)'
    BY <1>1, <1>3 DEF DrainedInTime, Declared
  <2>. QED
    BY <1>1, <1>2, <1>3, <2>1, DrainedKept
<1>. QED
  BY <1>1, <1>3, QueueKept, RunningSteps

(* The watchdog queues the names of the silent, and nobody that waits for  *)
(* a slot is: the worker comes before the third tick.                      *)
LEMMA TickQueue ==
    ASSUME TimedBase, TimedBase', ClockInv, QueueInv, WatchdogSteps
    PROVE  QueueInv'
<1>0. TypeOK /\ RegistryInvariant /\ ClocksTypeOK
  BY DEF TimedBase
<1>1. /\ watchdog' = [c \in Conn |-> Ticked(c)] /\ tick_in = 0 /\ tick_in' = Second
      /\ UNCHANGED <<new_q, participant_list, socket_map, name_of, slots, w_pc>>
      /\ Running
  BY DEF WatchdogSteps, Tick
<1>2. PICK order \in SetToSeqs(Silent) : dead_q' = dead_q \o order
  BY DEF WatchdogSteps, Tick
<1>3. \A k \in DOMAIN dead_q' : \/ k \in DOMAIN dead_q /\ dead_q'[k] = dead_q[k]
                                \/ dead_q'[k] \in Silent
  <2>1. /\ Len(dead_q) \in Nat /\ Len(order) \in Nat
        /\ DOMAIN dead_q = 1..Len(dead_q) /\ DOMAIN order = 1..Len(order)
        /\ DOMAIN dead_q' = 1..(Len(dead_q) + Len(order))
        /\ \A k \in 1..Len(dead_q) : dead_q'[k] = dead_q[k]
        /\ \A k \in 1..Len(order) : dead_q'[Len(dead_q) + k] = order[k]
    BY <1>0, <1>2, SilentQueue, LenProperties, ConcatProperties DEF TypeOK, MasterTypeOK
  <2>2. \A k \in DOMAIN order : order[k] \in Silent
    <3>1. order \in [1..Cardinality(Silent) -> Silent]
      BY <1>2 DEF SetToSeqs
    <3>. QED
      BY <3>1
  <2>3. ASSUME NEW k \in DOMAIN dead_q', k \notin DOMAIN dead_q
        PROVE  dead_q'[k] \in Silent
    <3>1. PICK j \in 1..Len(order) : k = Len(dead_q) + j
      <4>1. k - Len(dead_q) \in 1..Len(order) /\ k = Len(dead_q) + (k - Len(dead_q))
        BY <2>1, <2>3
      <4>. QED
        BY <4>1
    <3>. QED
      BY <2>1, <2>2, <3>1
  <2>. QED
    BY <2>1, <2>3
<1>4. OneSlotEach' /\ QueuedOnce'
  BY <1>1 DEF QueueInv, OneSlotEach, QueuedOnce, Participants, HasSlot
<1>5. ASSUME NEW c \in socket_map, Queued(c)
      PROVE  DrainedInTime(c)'
  <2>1. /\ c \in Conn /\ name_of[c] \in Participants /\ participant_list[name_of[c]] = c
        /\ DrainedInTime(c)
    BY <1>0, <1>1, <1>5, ConstantsDistinct DEF QueueInv, RegistryInvariant, RegistryAgrees, Participants,
       TypeOK, MasterTypeOK
  <2>2. PICK b \in 0..(Second + LoopSleep) :
            (w_pc # "new" => RoundLeft(b)) /\ b < tick_in + (2 - watchdog[c]) * Second
    BY <2>1 DEF DrainedInTime
  <2>3. /\ Second \in Nat \ {0} /\ LoopSleep \in Nat /\ b \in Nat
        /\ watchdog[c] \in Nat /\ watchdog[c] <= 2
    <3>1. watchdog[c] \in Nat
      BY <1>0, <2>1, TickCounts
    <3>. QED
      BY <2>1, <2>2, <3>1, Lengths DEF DrainedInTime
  <2>4. watchdog[c] \in {0, 1}
    <3>1. watchdog[c] # 2
      BY <1>1, <2>2, <2>3
    <3>. QED
      BY <2>3, <3>1
  <2>5. watchdog'[c] = watchdog[c] + 1 /\ Ticked(c) = watchdog[c] + 1
    <3>1. watchdog'[c] = Ticked(c) /\ watchdog'[c] = (watchdog[c] + 1) % 256
      BY <1>1, <2>1 DEF Ticked
    <3>2. (watchdog[c] + 1) % 256 = watchdog[c] + 1
      BY <2>4
    <3>. QED
      BY <3>1, <3>2
  <2>6. ~Declared(c)'
    <3>1. name_of[c] \notin Silent
      BY <2>1, <2>4, <2>5 DEF Silent
    <3>. QED
      BY <1>1, <1>3, <2>1, <3>1 DEF DrainedInTime, Declared
  <2>7. b < tick_in' + (2 - watchdog'[c]) * Second
    <3>1. CASE watchdog[c] = 0
      BY <1>1, <2>2, <2>3, <2>5, <3>1
    <3>2. CASE watchdog[c] = 1
      BY <1>1, <2>2, <2>3, <2>5, <3>2
    <3>. QED
      BY <2>4, <3>1, <3>2
  <2>8. w_pc' # "new" => RoundLeft(b)'
    BY <1>1, <2>2, <2>3, OthersRound
  <2>9. watchdog'[c] <= 2
    BY <2>4, <2>5
  <2>. QED
    BY <2>2, <2>6, <2>7, <2>8, <2>9 DEF DrainedInTime
<1>. QED
  BY <1>1, <1>4, <1>5 DEF QueueInv, Queued

(* When time passes the worker sleeps or polls, and its round gets shorter *)
(* as the tick comes closer.                                               *)
LEMMA PassQueue ==
    ASSUME TimedBase, QueueInv, Pass
    PROVE  QueueInv'
<1>0. TypeOK /\ TalkInv /\ ClocksTypeOK /\ UNCHANGED vars /\ Running
  BY DEF TimedBase, Pass
<1>1. UNCHANGED <<new_q, dead_q, participant_list, socket_map, name_of, slots, watchdog, w_pc>>
  BY <1>0 DEF vars, masterVars
<1>2. ASSUME NEW c \in socket_map, Queued(c), DrainedInTime(c)
      PROVE  DrainedInTime(c)'
  <2>1. c \in Conn /\ ~Declared(c)' /\ watchdog[c] <= 2 /\ w_pc # "new"
    BY <1>0, <1>1, <1>2 DEF DrainedInTime, Declared, Pass, WorkerWaits, AtSlot, TypeOK,
       MasterTypeOK
  <2>2. PICK b \in 0..(Second + LoopSleep) :
            RoundLeft(b) /\ b < tick_in + (2 - watchdog[c]) * Second
    BY <1>2, <2>1 DEF DrainedInTime
  <2>3. /\ b \in Nat /\ LoopSleep \in Nat /\ Second \in Nat /\ watchdog[c] \in Nat
        /\ tick_in \in Nat /\ tick_in' = tick_in - 1
    <3>1. watchdog[c] \in Nat
      BY <1>0, <2>1, TickCounts
    <3>2. tick_in \in Nat
      BY <1>0, Timers
    <3>. QED
      BY <2>2, <3>1, <3>2, Lengths DEF Pass, Less
  <2>4. b - 1 \in Nat /\ RoundLeft(b - 1)'
    BY <2>2, <2>3, PassRound
  <2>5. PICK k \in 0..(Second + LoopSleep) : k = b - 1
    BY <2>2, <2>3, <2>4
  <2>6. RoundLeft(k)'
    BY <2>4, <2>5 DEF RoundLeft, Awaited
  <2>7. k < tick_in' + (2 - watchdog'[c]) * Second
    <3>. DEFINE p == (2 - watchdog[c]) * Second
    <3>1. p \in Int /\ b < tick_in + p
      BY <2>2, <2>3
    <3>. HIDE DEF p
    <3>2. k < tick_in' + p
      BY <2>3, <2>5, <3>1
    <3>. QED
      BY <1>1, <3>2 DEF p
  <2>. QED
    BY <1>1, <2>1, <2>6, <2>7 DEF DrainedInTime
<1>. QED
  BY <1>0, <1>1, <1>2, QueueKept

(* A step that changes nothing keeps it.                                   *)
LEMMA IdleQueue ==
    ASSUME QueueInv, UNCHANGED timedVars
    PROVE  QueueInv'
BY DEF timedVars, vars, masterVars, clientVars, clocks, QueueInv, OneSlotEach,
   QueuedOnce, Participants, HasSlot, Running, Queued, DrainedInTime, Declared, RoundLeft,
   Awaited

(* Every timed step keeps it.                                              *)
LEMMA NextQueue ==
    ASSUME TimedBase, TimedBase', ClockInv, DeclareInv, FreshName, QueueInv,
           TimedNext
    PROVE  QueueInv'
<1>1. CASE WorkerSteps
  BY <1>1, WorkerQueue
<1>2. CASE AcceptorSteps /\ \E n \in Name : Register(n)
  BY <1>2, RegisterQueue DEF FreshName
<1>3. CASE \/ AcceptorSteps /\ \A n \in Name : ~Register(n)
           \/ \E d \in Conn : SenderSteps(d) \/ ApplicationSteps(d)
  BY <1>3, OthersQueue DEF TimedNext
<1>4. CASE WatchdogSteps
  BY <1>4, TickQueue
<1>5. CASE Pass
  BY <1>5, PassQueue
<1>. QED
  BY <1>1, <1>2, <1>3, <1>4, <1>5 DEF TimedNext

(* As long as nobody takes a name that is in the queue of the dead, no     *)
(* participant gets two slots, who waits for one gets it before it can be  *)
(* declared dead, and whoever ends is removed in time, for any number of   *)
(* participants that come and go.                                          *)
THEOREM OneSlot ==
    TimedSpec /\ [][FreshName]_timedVars => [](OneSlotEach /\ QueuedInTime /\ RemovedInTime)
<1>1. TimedBase /\ TimedBase' /\ ClockInv /\ DeclareInv /\ [FreshName]_timedVars /\ QueueInv
        /\ [TimedNext]_timedVars => QueueInv'
  <2>1. ASSUME TimedBase, TimedBase', QueueInv, UNCHANGED timedVars PROVE QueueInv'
    BY <2>1, IdleQueue
  <2>. QED
    BY <2>1, NextQueue
<1>2. TimedInit => QueueInv
  <2>. SUFFICES ASSUME TimedInit PROVE QueueInv
    OBVIOUS
  <2>1. dead_q = <<>> /\ new_q = <<>> /\ slots = [i \in Slot |-> None] /\ socket_map = {}
    BY DEF TimedInit, Init, MasterInit
  <2>. QED
    BY <2>1, EmptySeq DEF QueueInv, OneSlotEach, QueuedOnce
<1>3. TimedBase /\ QueueInv => OneSlotEach /\ QueuedInTime
  <2>1. ASSUME TimedBase, QueueInv, Running, NEW k \in DOMAIN new_q
        PROVE  watchdog[participant_list[new_q[k]]] <= 2
    <3>1. participant_list[new_q[k]] \in socket_map
          /\ name_of[participant_list[new_q[k]]] = new_q[k]
      BY <2>1 DEF TimedBase, QueueInv, QueuedOnce, RegistryInvariant, RegistryAgrees
    <3>. QED
      BY <2>1, <3>1 DEF QueueInv, Queued, DrainedInTime
  <2>. QED
    BY <2>1 DEF QueueInv, QueuedInTime
<1>4. TimedSpec /\ [][FreshName]_timedVars => [](OneSlotEach /\ QueuedInTime)
  BY <1>1, <1>2, <1>3, TimedBases, TimedDeclares, PTL DEF TimedSpec
<1>. QED
  BY <1>4, RemovedSoon, PTL
===============================================================================
