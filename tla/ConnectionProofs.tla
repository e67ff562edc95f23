--------------------------- MODULE ConnectionProofs ---------------------------
(***************************************************************************)
(* The conversations on the control connections, for any number of         *)
(* participants, calls and keep-alives: each request has one answer, no    *)
(* read of the master fails within a frame, participants and registry      *)
(* agree, and who lives gets a slot, while there is one for each.          *)
(***************************************************************************)
EXTENDS RegistryProofs

(* The groups of variables, which every UNCHANGED is made of.              *)
USE DEF socketVars, infoVars, ownerVars, registryVars, pollVars, workerVars,
        acceptVars, callVars

-------------------------------------------------------------------------------
(* Requests and contents in a stream.                                      *)

IsRequest(k) == k.part = "header" /\ k.type # "KEEP_ALIVE"

Sent(s) == {i \in DOMAIN s : IsRequest(s[i])}

(* Every content in s that comes after position n is k.                    *)
Follows(s, n, k) ==
    \A j \in DOMAIN s : j > n /\ s[j].part = "body" => s[j] = k

(* Each request in s is of a type, and the contents after it are k.        *)
Carries(s, type, k) ==
    \A i \in Sent(s) : s[i].type = type /\ Follows(s, i, k)

(* A stream holds finitely many requests, none when it is empty.           *)
LEMMA SentFinite ==
    ASSUME NEW s \in Seq(Chunk)
    PROVE  /\ IsFiniteSet(Sent(s)) /\ Cardinality(Sent(s)) \in Nat
           /\ Cardinality(Sent(s)) = 0 <=> Sent(s) = {}
           /\ s = <<>> => Cardinality(Sent(s)) = 0
<1>1. DOMAIN s = 1..Len(s) /\ Len(s) \in Nat
  BY LenProperties
<1>2. IsFiniteSet(DOMAIN s)
  BY <1>1, FS_Interval
<1>3. IsFiniteSet(Sent(s))
  BY <1>2, FS_Subset DEF Sent
<1>4. s = <<>> => Sent(s) = {}
  BY <1>1 DEF Sent
<1>. QED
  BY <1>3, <1>4, FS_CardinalityType, FS_EmptySet

(* A chunk that is written counts when it is the header of a request.      *)
LEMMA SentAppend ==
    ASSUME NEW s \in Seq(Chunk), NEW k \in Chunk
    PROVE  Cardinality(Sent(Append(s, k)))
              = Cardinality(Sent(s)) + IF IsRequest(k) THEN 1 ELSE 0
<1>. DEFINE t == Append(s, k)
<1>1. /\ Len(s) \in Nat /\ DOMAIN s = 1..Len(s) /\ DOMAIN t = 1..(Len(s) + 1)
      /\ \A i \in 1..Len(s) : t[i] = s[i]
      /\ t[Len(s) + 1] = k
  BY LenProperties, AppendProperties
<1>2. Len(s) + 1 \notin Sent(s)
  BY <1>1 DEF Sent
<1>3. Sent(t) = IF IsRequest(k) THEN Sent(s) \cup {Len(s) + 1} ELSE Sent(s)
  <2>. HIDE DEF t
  <2>1. DOMAIN t = DOMAIN s \cup {Len(s) + 1}
    BY <1>1
  <2>2. \A i \in DOMAIN s : i \in DOMAIN t /\ t[i] = s[i]
    BY <1>1
  <2>. QED
    BY <1>1, <2>1, <2>2 DEF Sent
<1>4. IsFiniteSet(Sent(s)) /\ Cardinality(Sent(s)) \in Nat
  BY SentFinite
<1>5. Cardinality(Sent(s) \cup {Len(s) + 1}) = Cardinality(Sent(s)) + 1
  BY <1>2, <1>4, FS_AddElement
<1>. QED
  BY <1>3, <1>4, <1>5

(* A chunk that is read no longer counts.                                  *)
LEMMA SentTail ==
    ASSUME NEW s \in Seq(Chunk), s # <<>>
    PROVE  /\ Tail(s) \in Seq(Chunk)
           /\ Cardinality(Sent(s))
              = Cardinality(Sent(Tail(s))) + IF IsRequest(Head(s)) THEN 1 ELSE 0
           /\ \A i \in Sent(Tail(s)) : i + 1 \in Sent(s)
<1>. DEFINE t == Tail(s)
            later == Sent(s) \ {1}
            f == [i \in Sent(t) |-> i + 1]
<1>1. /\ t \in Seq(Chunk)
      /\ Len(s) \in Nat \ {0} /\ DOMAIN s = 1..Len(s) /\ DOMAIN t = 1..(Len(s) - 1)
      /\ \A i \in 1..(Len(s) - 1) : t[i] = s[i + 1]
      /\ Head(s) = s[1]
  BY LenProperties, HeadTailProperties, EmptySeq
<1>. HIDE DEF t
<1>2. \A i \in Sent(t) : i \in Nat \ {0} /\ i + 1 \in later
  BY <1>1 DEF Sent
<1>3. \A j \in later : j - 1 \in Sent(t) /\ j \in Nat
  BY <1>1 DEF Sent
<1>4. f \in Bijection(Sent(t), later)
  <2>1. f \in [Sent(t) -> later]
    BY <1>2
  <2>2. \A a, b \in Sent(t) : f[a] = f[b] => a = b
    BY <1>2
  <2>3. \A j \in later : \E i \in Sent(t) : f[i] = j
    BY <1>3
  <2>. QED
    BY <2>1, <2>2, <2>3 DEF Bijection, Injection, Surjection, IsInjective
<1>5. Cardinality(later) = Cardinality(Sent(t))
  BY <1>1, <1>4, SentFinite, FS_Bijection DEF ExistsBijection
<1>6. 1 \in Sent(s) <=> IsRequest(Head(s))
  BY <1>1 DEF Sent
<1>7. Cardinality(later)
        = IF 1 \in Sent(s) THEN Cardinality(Sent(s)) - 1 ELSE Cardinality(Sent(s))
  BY SentFinite, FS_RemoveElement
<1>8. Cardinality(Sent(s)) \in Nat
  BY SentFinite
<1>9. \A i \in Sent(t) : i + 1 \in Sent(s)
  BY <1>2
<1>. QED
  BY <1>1, <1>5, <1>6, <1>7, <1>8, <1>9 DEF t

(* What is written or read at the ends leaves the order of the contents.   *)
LEMMA FollowsKept ==
    ASSUME NEW s \in Seq(Chunk), NEW n \in Nat, NEW k, Follows(s, n, k)
    PROVE  /\ \A new \in Chunk :
                 new.part = "header" \/ new = k => Follows(Append(s, new), n, k)
           /\ s # <<>> => /\ n = 0 => Follows(Tail(s), 0, k)
                          /\ n > 0 => Follows(Tail(s), n - 1, k)
<1>1. Len(s) \in Nat /\ DOMAIN s = 1..Len(s)
  BY LenProperties
<1>2. ASSUME NEW new \in Chunk, new.part = "header" \/ new = k
      PROVE  Follows(Append(s, new), n, k)
  <2>1. /\ DOMAIN Append(s, new) = 1..(Len(s) + 1)
        /\ \A i \in 1..Len(s) : Append(s, new)[i] = s[i]
        /\ Append(s, new)[Len(s) + 1] = new
    BY LenProperties, AppendProperties
  <2>. QED
    BY <1>1, <1>2, <2>1 DEF Follows
<1>3. ASSUME s # <<>>
      PROVE  /\ n = 0 => Follows(Tail(s), 0, k)
             /\ n > 0 => Follows(Tail(s), n - 1, k)
  <2>1. /\ Len(s) \in Nat \ {0} /\ DOMAIN Tail(s) = 1..(Len(s) - 1)
        /\ \A i \in 1..(Len(s) - 1) : Tail(s)[i] = s[i + 1]
    BY <1>3, LenProperties, HeadTailProperties, EmptySeq
  <2>. QED
    BY <1>1, <2>1 DEF Follows
<1>. QED
  BY <1>2, <1>3

(* Reading a chunk, and writing a header that is no request or the content *)
(* of the call, keep what the stream carries.                              *)
LEMMA CarriesKept ==
    ASSUME NEW s \in Seq(Chunk), NEW type, NEW k, Carries(s, type, k)
    PROVE  /\ s # <<>> => Carries(Tail(s), type, k)
           /\ \A new \in Chunk :
                 (new.part = "header" /\ new.type = "KEEP_ALIVE") \/ (new.part = "body" /\ new = k)
                     => Carries(Append(s, new), type, k)
           /\ Sent(s) = {} => \A new \in Chunk :
                 IsRequest(new) /\ new.type = type => Carries(Append(s, new), type, k)
<1>1. Len(s) \in Nat /\ DOMAIN s = 1..Len(s)
  BY LenProperties
<1>2. ASSUME s # <<>>, NEW i \in Sent(Tail(s))
      PROVE  Tail(s)[i].type = type /\ Follows(Tail(s), i, k)
  <2>1. Len(s) \in Nat \ {0} /\ DOMAIN Tail(s) = 1..(Len(s) - 1)
        /\ \A j \in 1..(Len(s) - 1) : Tail(s)[j] = s[j + 1]
    BY <1>2, LenProperties, HeadTailProperties, EmptySeq
  <2>2. i \in 1..(Len(s) - 1) /\ i + 1 \in Sent(s) /\ Tail(s)[i] = s[i + 1]
    BY <1>1, <1>2, <2>1 DEF Sent
  <2>3. s[i + 1].type = type /\ Follows(s, i + 1, k)
    BY <2>2 DEF Carries
  <2>4. i + 1 \in Nat /\ i + 1 > 0 /\ (i + 1) - 1 = i
    BY <2>2
  <2>5. Follows(Tail(s), (i + 1) - 1, k)
    BY <1>2, <2>3, <2>4, FollowsKept
  <2>. QED
    BY <2>2, <2>3, <2>4, <2>5
<1>3. ASSUME NEW new \in Chunk
      PROVE  /\ DOMAIN Append(s, new) = 1..(Len(s) + 1)
             /\ \A i \in 1..Len(s) : Append(s, new)[i] = s[i]
             /\ Append(s, new)[Len(s) + 1] = new
  BY LenProperties, AppendProperties
<1>4. ASSUME NEW new \in Chunk, NEW i \in Sent(Append(s, new)),
             \/ new.part = "header" /\ new.type = "KEEP_ALIVE"
             \/ new.part = "body" /\ new = k
      PROVE  Append(s, new)[i].type = type /\ Follows(Append(s, new), i, k)
  <2>1. i \in Sent(s) /\ Append(s, new)[i] = s[i] /\ i \in Nat
    BY <1>1, <1>3, <1>4 DEF Sent, IsRequest
  <2>2. s[i].type = type /\ Follows(s, i, k)
    BY <2>1 DEF Carries
  <2>. QED
    BY <1>4, <2>1, <2>2, FollowsKept
<1>5. ASSUME NEW new \in Chunk, Sent(s) = {}, IsRequest(new), new.type = type,
             NEW i \in Sent(Append(s, new))
      PROVE  Append(s, new)[i].type = type /\ Follows(Append(s, new), i, k)
  <2>1. i = Len(s) + 1
    BY <1>1, <1>3, <1>5 DEF Sent
  <2>. QED
    BY <1>1, <1>3, <1>5, <2>1 DEF Follows
<1>. QED
  BY <1>2, <1>4, <1>5 DEF Carries

-------------------------------------------------------------------------------
(* The conversation on a connection.                                       *)

(* The worker has the header of a request of c, and not yet its content.   *)
InHand(c) == w_pc = "content" /\ slots[cursor] = c

(* The acceptor has the joining frame of c, and has not answered it.       *)
Greeting(c) == a_pc = "reply" /\ a_conn = c

(* Nobody in the master has read anything from c.                          *)
Unheard(c) == c \notin accepted \/ (a_pc = "read" /\ a_conn = c)

(* The requests of c that are on their way, in hand, or answered unread.   *)
Pending(c) ==
    Cardinality(Sent(stream[c])) + Len(replies[c])
        + (IF InHand(c) THEN 1 ELSE 0) + (IF Greeting(c) THEN 1 ELSE 0)

(* What c has written before it is heard is its joining frame.             *)
HalfFrame == <<Header("INITIATION")>>
JoinFrame(arg) == Append(HalfFrame, Body("INITIATION", arg))

(* A connection starts with the joining frame and nothing else.            *)
Opens(c) ==
    /\ Unheard(c) =>
          /\ replies[c] = <<>>
          /\ peer[c] \in {"unused", "joining", "closed"}
          /\ stream[c] \in {<<>>, HalfFrame} \cup {JoinFrame(arg) : arg \in JoinArgs}
          /\ peer[c] = "joining" /\ call[c].pc = "body" =>
                stream[c] = HalfFrame /\ call[c].arg \in JoinArgs
    /\ peer[c] = "unused" => c \notin accepted /\ stream[c] = <<>> /\ call[c] = Idle
    /\ peer[c] = "joining" => call[c].type = "INITIATION"
    /\ Greeting(c) => c \in accepted /\ peer[c] \in {"joining", "closed", "reset"}

(* One request at a time, also after c has ended; a reset tells that the   *)
(* answer to the last one was not read.                                    *)
AsksOnce(c) ==
    /\ Pending(c) <= 1
    /\ ~Ended(c) => Pending(c) = IF call[c] = Idle THEN 0 ELSE 1
    /\ peer[c] = "reset" => Pending(c) = 0

(* The content that comes after the header of the request, wherever that   *)
(* is, belongs to the call in progress; a content that a keep-alive has    *)
(* displaced comes before the header of the next request.                  *)
Matches(c) ==
    LET content == Body(call[c].type, call[c].arg)
    IN  ~Ended(c) =>
          /\ InHand(c) => frame = call[c].type /\ Follows(stream[c], 0, content)
          /\ Carries(stream[c], call[c].type, content)

(* The three together, and for every connection the inductive invariant.   *)
Conversation(c) == Opens(c) /\ AsksOnce(c) /\ Matches(c)

(* The slots hold connections that were heard, and the worker serves one.  *)
SlotsHeard ==
    /\ \A i \in Slot : slots[i] # None => ~Unheard(slots[i])
    /\ w_pc = "content" =>
          cursor \in Slot /\ slots[cursor] # None /\ frame \in RequestType

ConversationInv == SlotsHeard /\ \A c \in Conn : Conversation(c)

(* Nothing that the conversation on c is about changes.                    *)
Untouched(c) ==
    /\ peer'[c] = peer[c] /\ call'[c] = call[c]
    /\ stream'[c] = stream[c] /\ replies'[c] = replies[c]
    /\ InHand(c)' = InHand(c) /\ (InHand(c) => frame' = frame)
    /\ Greeting(c)' = Greeting(c)
    /\ Unheard(c)' = Unheard(c)
    /\ c \in accepted => c \in accepted'
    /\ c \in accepted' => c \in accepted \/ peer[c] # "unused"

(* A step that touches other connections keeps the conversation on c.      *)
LEMMA UntouchedKeeps ==
    ASSUME NEW c \in Conn, Conversation(c), Untouched(c)
    PROVE  Conversation(c)'
<1>1. Opens(c)'
  BY DEF Conversation, Opens, Untouched
<1>2. AsksOnce(c)'
  BY DEF Conversation, AsksOnce, Untouched, Pending, Ended
<1>3. Matches(c)'
  BY DEF Conversation, Matches, Untouched, Ended
<1>. QED
  BY <1>1, <1>2, <1>3 DEF Conversation

(* Before the first connection there is no conversation.                   *)
LEMMA InitConversations == Init => ConversationInv
<1>. SUFFICES ASSUME Init PROVE ConversationInv
  OBVIOUS
<1>1. SlotsHeard
  BY DEF Init, MasterInit, SlotsHeard
<1>2. ASSUME NEW c \in Conn
      PROVE  Conversation(c)
  <2>1. /\ stream[c] = <<>> /\ replies[c] = <<>> /\ peer[c] = "unused"
        /\ call[c] = Idle /\ ~InHand(c) /\ ~Greeting(c) /\ c \notin accepted
    BY DEF Init, SocketsInit, MasterInit, ClientInit, InHand, Greeting
  <2>2. Cardinality(Sent(stream[c])) = 0 /\ Sent(stream[c]) = {} /\ Len(replies[c]) = 0
    BY <2>1, SentFinite, EmptySeq
  <2>. QED
    BY <2>1, <2>2 DEF Conversation, Opens, AsksOnce, Matches, Carries, Pending, Ended
<1>. QED
  BY <1>1, <1>2 DEF ConversationInv

(* The counts of a conversation are numbers.                               *)
LEMMA Counts ==
    ASSUME SocketsTypeOK, NEW c \in Conn
    PROVE  /\ stream[c] \in Seq(Chunk) /\ replies[c] \in Seq(Reply)
           /\ Cardinality(Sent(stream[c])) \in Nat /\ Len(replies[c]) \in Nat
           /\ Cardinality(Sent(stream[c])) = 0 <=> Sent(stream[c]) = {}
           /\ Len(replies[c]) = 0 <=> replies[c] = <<>>
           /\ Pending(c) \in Nat
<1>1. stream[c] \in Seq(Chunk) /\ replies[c] \in Seq(Reply)
  BY DEF SocketsTypeOK
<1>2. Cardinality(Sent(stream[c])) \in Nat /\ Len(replies[c]) \in Nat
  BY <1>1, SentFinite, LenProperties
<1>. QED
  BY <1>1, <1>2, SentFinite, EmptySeq DEF Pending

-------------------------------------------------------------------------------
(* The steps of the master.                                                *)

(* The steps that read from nobody and answer nobody.                      *)
QuietStep ==
    \/ Drain \/ Poll \/ ScanDone \/ Tick \/ AcceptFails
    \/ \E i \in Slot : ReadMisaligned(i) \/ ReadEof(i)
    \/ \E c \in Conn : Accept(c)
    \/ \E cause \in Cause : Crash(cause)

(* A drain gives a slot only to a registered participant, whom the         *)
(* acceptor has heard; who is in a slot is not the next to be accepted.    *)
LEMMA QuietSlots ==
    ASSUME TypeOK, RegistryInvariant, SlotsHeard, QuietStep
    PROVE  SlotsHeard'
<1>1. CASE DrainNew
  <2>. DEFINE c == participant_list[Head(new_q)]
  <2>1. Head(new_q) \in Name
    BY <1>1, HeadTailProperties DEF DrainNew, TypeOK, MasterTypeOK
  <2>2. c # None => ~Unheard(c)
    BY <2>1 DEF RegistryInvariant, RegistryAgrees, AcceptorHolds, Unheard, Participants
  <2>3. \A i \in Slot : slots'[i] = slots[i] \/ slots'[i] = c
    BY <1>1 DEF DrainNew, TypeOK, MasterTypeOK
  <2>4. UNCHANGED <<accepted, a_pc, a_conn, w_pc>> /\ w_pc = "new"
    BY <1>1 DEF DrainNew
  <2>. QED
    BY <2>2, <2>3, <2>4 DEF SlotsHeard, Unheard
<1>2. CASE DrainDead
  BY <1>2 DEF DrainDead, ClearFirst, SlotsHeard, Unheard
<1>3. ASSUME NEW i \in Slot, ReadEof(i)
      PROVE  SlotsHeard'
  <2>1. \A j \in Slot : slots'[j] = None \/ slots'[j] = slots[j]
    BY <1>3 DEF ReadEof, TypeOK, MasterTypeOK
  <2>. QED
    BY <1>3, <2>1 DEF ReadEof, NextSlot, SlotsHeard, Unheard
<1>4. ASSUME NEW c \in Conn, Accept(c)
      PROVE  SlotsHeard'
  BY <1>4 DEF Accept, SlotsHeard, Unheard
<1>5. CASE LockDead \/ NoMoreDead \/ NoMoreNew \/ Poll \/ ScanDone
  BY <1>5 DEF LockDead, NoMoreDead, NoMoreNew, Poll, ScanDone, SlotsHeard, Unheard
<1>6. CASE DrainDeadUnknown \/ DrainNewUnknown \/ Tick \/ AcceptFails
           \/ (\E i \in Slot : ReadMisaligned(i)) \/ \E cause \in Cause : Crash(cause)
  BY <1>6 DEF DrainDeadUnknown, DrainNewUnknown, Tick, AcceptFails, ReadMisaligned,
     Crash, SlotsHeard, Unheard
<1>. QED
  BY <1>1, <1>2, <1>3, <1>4, <1>5, <1>6 DEF QuietStep, Drain

(* They leave every conversation as it is.                                 *)
LEMMA QuietUntouched ==
    ASSUME TypeOK, ConversationInv, QuietStep, UNCHANGED callVars, NEW c \in Conn
    PROVE  Untouched(c)
<1>1. CASE Drain
  BY <1>1 DEF Drain, LockDead, DrainDead, DrainDeadUnknown, NoMoreDead, DrainNew,
     DrainNewUnknown, NoMoreNew, Crash, Untouched, InHand, Greeting, Unheard
<1>2. CASE Poll \/ ScanDone \/ Tick
  BY <1>2 DEF Poll, ScanDone, Tick, Untouched, InHand, Greeting, Unheard
<1>3. CASE AcceptFails \/ (\E i \in Slot : ReadMisaligned(i))
           \/ \E cause \in Cause : Crash(cause)
  BY <1>3 DEF AcceptFails, ReadMisaligned, Crash, Untouched, InHand, Greeting, Unheard
<1>4. ASSUME NEW i \in Slot, ReadEof(i)
      PROVE  Untouched(c)
  BY <1>4 DEF ReadEof, AtSlot, NextSlot, Untouched, InHand, Greeting, Unheard
<1>5. ASSUME NEW d \in Conn, Accept(d)
      PROVE  Untouched(c)
  <2>1. peer[d] # "unused"
    BY <1>5 DEF Accept
  <2>. QED
    BY <1>5, <2>1 DEF Accept, Untouched, InHand, Greeting, Unheard
<1>. QED
  BY <1>1, <1>2, <1>3, <1>4, <1>5 DEF QuietStep

(* The conversation a step is about, and all the others.                   *)
LEMMA OneTouched ==
    ASSUME ConversationInv, NEW d \in Conn, SlotsHeard', Conversation(d)',
           \A c \in Conn \ {d} : Untouched(c)
    PROVE  ConversationInv'
BY UntouchedKeeps DEF ConversationInv

(* The slot the scan stops at holds a connection that was heard.           *)
LEMMA ScannedHeard ==
    ASSUME TypeOK, SlotsHeard, NEW i \in Slot, AtSlot(i)
    PROVE  /\ slots[i] \in Conn /\ ~Unheard(slots[i])
           /\ \A c \in Conn : ~InHand(c)
BY DEF AtSlot, ToServe, TypeOK, MasterTypeOK, SlotsHeard, InHand

(* A keep-alive is read: no request is.                                    *)
LEMMA KeepAliveRead ==
    ASSUME TypeOK, ConversationInv, NEW i \in Slot, ReadKeepAlive(i),
           UNCHANGED callVars
    PROVE  ConversationInv'
<1>1. PICK d \in Conn : d = slots[i] /\ ~Unheard(d) /\ ~InHand(d)
  BY ScannedHeard DEF ReadKeepAlive, ConversationInv
<1>2. /\ stream' = [stream EXCEPT ![d] = Tail(stream[d])] /\ stream[d] # <<>>
      /\ Head(stream[d]) = Header("KEEP_ALIVE")
      /\ UNCHANGED <<peer, replies, call, slots, accepted, a_pc, a_conn>>
      /\ w_pc' = "scan"
  BY <1>1 DEF ReadKeepAlive, Consume, NextSlot
<1>3. stream[d] \in Seq(Chunk) /\ stream'[d] = Tail(stream[d])
      /\ \A c \in Conn \ {d} : stream'[c] = stream[c]
  BY <1>1, <1>2 DEF TypeOK, SocketsTypeOK
<1>4. ~InHand(d)' /\ Greeting(d)' = Greeting(d) /\ Unheard(d)' = Unheard(d)
  BY <1>2 DEF InHand, Greeting, Unheard
<1>5. ASSUME NEW c \in Conn \ {d}
      PROVE  Untouched(c)
  BY <1>1, <1>2, <1>3 DEF Untouched, AtSlot, InHand, Greeting, Unheard, ReadKeepAlive
<1>6. Conversation(d)
  BY <1>1 DEF ConversationInv
<1>7. Pending(d)' = Pending(d)
  <2>1. ~IsRequest(Head(stream[d]))
    BY <1>2 DEF IsRequest, Header
  <2>2. Tail(stream[d]) \in Seq(Chunk)
    BY <1>2, <1>3, SentTail
  <2>3. Cardinality(Sent(stream'[d])) = Cardinality(Sent(stream[d]))
    <3>1. Cardinality(Sent(Tail(stream[d]))) \in Nat
      BY <2>2, SentFinite
    <3>2. Cardinality(Sent(stream[d])) = Cardinality(Sent(Tail(stream[d]))) + 0
      BY <1>2, <1>3, <2>1, SentTail
    <3>. QED
      BY <1>3, <3>1, <3>2
  <2>. QED
    BY <1>1, <1>2, <1>4, <2>3 DEF Pending
<1>8. Opens(d)'
  BY <1>1, <1>2, <1>4, <1>6 DEF Conversation, Opens
<1>9. AsksOnce(d)'
  BY <1>2, <1>6, <1>7 DEF Conversation, AsksOnce, Ended
<1>10. Matches(d)'
  BY <1>1, <1>2, <1>3, <1>4, <1>6, CarriesKept DEF Conversation, Matches, Ended
<1>11. SlotsHeard'
  BY <1>2 DEF ConversationInv, SlotsHeard, Unheard
<1>. QED
  BY <1>1, <1>5, <1>8, <1>9, <1>10, <1>11, OneTouched DEF Conversation

(* The header of a request is read: the worker has it in hand.             *)
LEMMA HeaderRead ==
    ASSUME TypeOK, ConversationInv, NEW i \in Slot, ReadHeader(i),
           UNCHANGED callVars
    PROVE  ConversationInv'
<1>1. PICK d \in Conn : d = slots[i] /\ ~Unheard(d) /\ ~InHand(d)
  BY ScannedHeard DEF ReadHeader, ConversationInv
<1>2. /\ stream' = [stream EXCEPT ![d] = Tail(stream[d])] /\ stream[d] # <<>>
      /\ Head(stream[d]).part = "header" /\ Head(stream[d]).type \in RequestType
      /\ frame' = Head(stream[d]).type
      /\ UNCHANGED <<peer, replies, call, slots, accepted, a_pc, a_conn>>
      /\ w_pc' = "content" /\ cursor' = i
  BY <1>1 DEF ReadHeader, Consume
<1>3. stream[d] \in Seq(Chunk) /\ stream'[d] = Tail(stream[d])
      /\ \A c \in Conn \ {d} : stream'[c] = stream[c]
  BY <1>1, <1>2 DEF TypeOK, SocketsTypeOK
<1>4. InHand(d)' /\ Greeting(d)' = Greeting(d) /\ Unheard(d)' = Unheard(d)
  BY <1>1, <1>2 DEF InHand, Greeting, Unheard
<1>5. ASSUME NEW c \in Conn \ {d}
      PROVE  Untouched(c)
  BY <1>1, <1>2, <1>3 DEF Untouched, AtSlot, InHand, Greeting, Unheard, ReadHeader
<1>6. Conversation(d)
  BY <1>1 DEF ConversationInv
<1>7. IsRequest(Head(stream[d])) /\ Head(stream[d]) = stream[d][1]
      /\ 1 \in Sent(stream[d])
  <2>1. IsRequest(Head(stream[d]))
    BY <1>2 DEF IsRequest, RequestType
  <2>2. Head(stream[d]) = stream[d][1] /\ 1 \in DOMAIN stream[d]
    BY <1>2, <1>3, LenProperties, HeadTailProperties, EmptySeq
  <2>. QED
    BY <2>1, <2>2 DEF Sent
<1>8. Pending(d)' = Pending(d)
  <2>1. Cardinality(Sent(stream'[d])) + 1 = Cardinality(Sent(stream[d]))
        /\ Cardinality(Sent(stream'[d])) \in Nat /\ Len(replies[d]) \in Nat
    BY <1>1, <1>2, <1>3, <1>7, SentTail, SentFinite, Counts DEF TypeOK
  <2>2. replies' = replies /\ InHand(d)' /\ ~InHand(d) /\ Greeting(d)' = Greeting(d)
    BY <1>1, <1>2, <1>4
  <2>. QED
    BY <2>1, <2>2 DEF Pending
<1>9. Opens(d)'
  BY <1>1, <1>2, <1>4, <1>6 DEF Conversation, Opens
<1>10. AsksOnce(d)'
  BY <1>2, <1>6, <1>8 DEF Conversation, AsksOnce, Ended
<1>11. Matches(d)'
  <2>. DEFINE content == Body(call[d].type, call[d].arg)
  <2>1. SUFFICES ASSUME ~Ended(d)
                 PROVE  /\ frame' = call[d].type /\ Follows(stream'[d], 0, content)
                        /\ Carries(stream'[d], call[d].type, content)
    BY <1>2, <1>4 DEF Matches, Ended
  <2>2. Carries(stream[d], call[d].type, content)
    BY <1>6, <2>1 DEF Conversation, Matches
  <2>. HIDE DEF content
  <2>3. frame' = call[d].type /\ Follows(stream[d], 1, content)
    BY <1>2, <1>7, <2>2 DEF Carries
  <2>4. Follows(Tail(stream[d]), 1 - 1, content)
    BY <1>2, <1>3, <2>3, FollowsKept
  <2>. QED
    BY <1>2, <1>3, <2>2, <2>3, <2>4, CarriesKept
<1>12. SlotsHeard'
  BY <1>1, <1>2, ConstantsDistinct DEF ConversationInv, SlotsHeard, Unheard
<1>. QED
  BY <1>1, <1>5, <1>9, <1>10, <1>11, <1>12, OneTouched DEF Conversation

(* A failing read of the header leaves a connection that has ended.        *)
LEMMA ResetRead ==
    ASSUME TypeOK, ConversationInv, NEW i \in Slot, ReadReset(i), UNCHANGED callVars
    PROVE  ConversationInv'
<1>1. PICK d \in Conn : d = slots[i] /\ ~Unheard(d) /\ ~InHand(d)
  BY ScannedHeard DEF ReadReset, ConversationInv
<1>2. /\ peer' = [peer EXCEPT ![d] = "closed"] /\ peer[d] = "reset"
      /\ UNCHANGED <<stream, replies, call, slots, accepted, a_pc, a_conn>>
      /\ w_pc' = "scan"
  BY <1>1 DEF ReadReset, NextSlot
<1>3. peer'[d] = "closed" /\ \A c \in Conn \ {d} : peer'[c] = peer[c]
  BY <1>1, <1>2 DEF TypeOK, SocketsTypeOK
<1>4. ~InHand(d)' /\ Greeting(d)' = Greeting(d) /\ Unheard(d)' = Unheard(d)
  BY <1>2 DEF InHand, Greeting, Unheard
<1>5. ASSUME NEW c \in Conn \ {d}
      PROVE  Untouched(c)
  BY <1>1, <1>2, <1>3 DEF Untouched, AtSlot, InHand, Greeting, Unheard, ReadReset
<1>6. Conversation(d)
  BY <1>1 DEF ConversationInv
<1>7. Pending(d)' = Pending(d) /\ Pending(d) = 0
  BY <1>1, <1>2, <1>4, <1>6 DEF Pending, Conversation, AsksOnce
<1>8. Conversation(d)'
  BY <1>1, <1>2, <1>3, <1>4, <1>6, <1>7
     DEF Conversation, Opens, AsksOnce, Matches, Ended
<1>9. SlotsHeard'
  BY <1>2 DEF ConversationInv, SlotsHeard, Unheard
<1>. QED
  BY <1>1, <1>5, <1>8, <1>9, OneTouched

(* While a request is in hand there is no other one, and no answer.        *)
LEMMA InHandAlone ==
    ASSUME TypeOK, ConversationInv, NEW d \in Conn, InHand(d)
    PROVE  /\ Pending(d) = 1 /\ Sent(stream[d]) = {} /\ replies[d] = <<>>
           /\ ~Greeting(d) /\ ~Unheard(d)
           /\ peer[d] # "reset"
           /\ stream[d] # <<>> => ~IsRequest(Head(stream[d]))
<1>1. AsksOnce(d) /\ SocketsTypeOK
  BY DEF ConversationInv, Conversation, TypeOK
<1>2. /\ Pending(d) = 1 /\ Sent(stream[d]) = {} /\ replies[d] = <<>>
      /\ ~Greeting(d) /\ peer[d] # "reset"
  <2>1. /\ Cardinality(Sent(stream[d])) \in Nat /\ Len(replies[d]) \in Nat
        /\ Cardinality(Sent(stream[d])) = 0 <=> Sent(stream[d]) = {}
        /\ Len(replies[d]) = 0 <=> replies[d] = <<>>
    BY <1>1, Counts
  <2>2. Pending(d) = Cardinality(Sent(stream[d])) + Len(replies[d]) + 1
                        + (IF Greeting(d) THEN 1 ELSE 0)
    BY DEF Pending
  <2>3. Pending(d) <= 1 /\ (peer[d] = "reset" => Pending(d) = 0)
    BY <1>1 DEF AsksOnce
  <2>. QED
    BY <2>1, <2>2, <2>3
<1>3. ~Unheard(d)
  BY DEF ConversationInv, SlotsHeard, InHand
<1>4. ASSUME stream[d] # <<>>
      PROVE  ~IsRequest(Head(stream[d]))
  <2>1. stream[d] \in Seq(Chunk)
    BY <1>1, Counts
  <2>2. Head(stream[d]) = stream[d][1] /\ 1 \in DOMAIN stream[d]
    BY <1>4, <2>1, LenProperties, HeadTailProperties, EmptySeq
  <2>. QED
    BY <1>2, <2>2 DEF Sent
<1>. QED
  BY <1>2, <1>3, <1>4

(* The worker serves a connection, and no other one.                       *)
LEMMA ServedInHand ==
    ASSUME TypeOK, ConversationInv, w_pc = "content"
    PROVE  \E d \in Conn : d = slots[cursor] /\ InHand(d)
BY DEF ConversationInv, SlotsHeard, InHand, TypeOK, MasterTypeOK

(* Reading what is no request leaves the number of requests as it is.      *)
LEMMA OtherRead ==
    ASSUME NEW s \in Seq(Chunk), s # <<>>, ~IsRequest(Head(s))
    PROVE  Tail(s) \in Seq(Chunk) /\ Cardinality(Sent(Tail(s))) = Cardinality(Sent(s))
<1>1. Tail(s) \in Seq(Chunk) /\ Cardinality(Sent(s)) = Cardinality(Sent(Tail(s))) + 0
  BY SentTail
<1>2. Cardinality(Sent(Tail(s))) \in Nat
  BY <1>1, SentFinite
<1>. QED
  BY <1>1, <1>2

(* The content of d, or the part of it that readn() has taken, is answered; *)
(* no request appears in its stream by that.                               *)
Replied(d, r) ==
    /\ Send(d, r)
    /\ stream' = [stream EXCEPT ![d] = stream'[d]] /\ stream'[d] \in Seq(Chunk)
    /\ Sent(stream[d]) = {} => Sent(stream'[d]) = {}
    /\ NextSlot(cursor)
    /\ UNCHANGED <<participant_list, socket_map, name_of, watchdog, new_q, dead_q,
                   pollVars, acceptVars>>

(* Both ways to answer are such.                                           *)
LEMMA RespondReplies ==
    ASSUME TypeOK, NEW d \in Conn, NEW r, Respond(d, r), stream[d] # <<>>
    PROVE  Replied(d, r)
<1>1. /\ stream[d] \in Seq(Chunk) /\ stream' = [stream EXCEPT ![d] = Tail(stream[d])]
      /\ stream'[d] = Tail(stream[d])
  BY DEF Respond, Consume, TypeOK, SocketsTypeOK
<1>2. /\ Tail(stream[d]) \in Seq(Chunk)
      /\ \A i \in Sent(Tail(stream[d])) : i + 1 \in Sent(stream[d])
  BY <1>1, SentTail
<1>3. Sent(stream[d]) = {} => Sent(stream'[d]) = {}
  BY <1>1, <1>2
<1>. QED
  BY <1>1, <1>2, <1>3 DEF Respond, Replied

LEMMA LeftOverReplies ==
    ASSUME TypeOK, NEW d \in Conn, NEW i \in Nat, LeftOver(d, i)
    PROVE  Replied(d, Answer("EMPTY"))
<1>. DEFINE s == SubSeq(stream[d], i, Len(stream[d]))
<1>1. /\ stream[d] \in Seq(Chunk) /\ Len(stream[d]) \in Nat
      /\ DOMAIN stream[d] = 1..Len(stream[d])
      /\ stream' = [stream EXCEPT ![d] = s] /\ stream'[d] = s
  BY LenProperties DEF LeftOver, TypeOK, SocketsTypeOK
<1>2. i \in 2..Len(stream[d]) /\ \A j \in i..Len(stream[d]) : stream[d][j] \in Chunk
  BY <1>1 DEF LeftOver
<1>3. /\ s \in Seq(Chunk) /\ Len(s) = Len(stream[d]) - i + 1
      /\ \A j \in 1..(Len(stream[d]) - i + 1) : s[j] = stream[d][i + j - 1]
  BY <1>1, <1>2, SubSeqProperties
<1>. HIDE DEF s
<1>4. DOMAIN s = 1..(Len(stream[d]) - i + 1)
  BY <1>3, LenProperties
<1>5. ASSUME NEW j \in Sent(s)
      PROVE  i + j - 1 \in Sent(stream[d])
  <2>1. j \in 1..(Len(stream[d]) - i + 1) /\ IsRequest(s[j])
    BY <1>4 DEF Sent
  <2>2. i + j - 1 \in 1..Len(stream[d]) /\ s[j] = stream[d][i + j - 1]
    BY <1>1, <1>2, <1>3, <2>1
  <2>. QED
    BY <1>1, <2>1, <2>2 DEF Sent
<1>6. Sent(stream[d]) = {} => Sent(stream'[d]) = {}
  BY <1>1, <1>5
<1>. QED
  BY <1>1, <1>3, <1>6 DEF LeftOver, Replied

(* The answer takes the place of the request in hand, or the connection    *)
(* has ended and nobody waits for the answer.                              *)
LEMMA Responded ==
    ASSUME TypeOK, ConversationInv, NEW r \in Reply, w_pc = "content",
           Replied(slots[cursor], r), UNCHANGED callVars
    PROVE  ConversationInv'
<1>1. PICK d \in Conn : d = slots[cursor] /\ InHand(d)
  BY ServedInHand
<1>2. /\ stream' = [stream EXCEPT ![d] = stream'[d]]
      /\ UNCHANGED <<call, slots, accepted, a_pc, a_conn>>
      /\ w_pc' = "scan" /\ Send(d, r)
  BY <1>1 DEF Replied, NextSlot
<1>3. /\ stream'[d] \in Seq(Chunk)
      /\ \A c \in Conn \ {d} : stream'[c] = stream[c] /\ replies'[c] = replies[c]
                               /\ peer'[c] = peer[c]
  BY <1>1, <1>2 DEF Replied, TypeOK, SocketsTypeOK, Send
<1>4. ~InHand(d)' /\ Greeting(d)' = Greeting(d) /\ Unheard(d)' = Unheard(d)
  BY <1>2 DEF InHand, Greeting, Unheard
<1>5. ASSUME NEW c \in Conn \ {d}
      PROVE  Untouched(c)
  BY <1>1, <1>2, <1>3 DEF Untouched, InHand, Greeting, Unheard
<1>6. Conversation(d)
  BY <1>1 DEF ConversationInv
<1>7. /\ ~Unheard(d) /\ ~Greeting(d) /\ Pending(d) = 1
      /\ replies[d] = <<>> /\ Sent(stream[d]) = {} /\ peer[d] # "reset"
  BY <1>1, InHandAlone
<1>8. Sent(stream'[d]) = {} /\ Cardinality(Sent(stream'[d])) = 0
  BY <1>1, <1>3, <1>7, SentFinite DEF Replied
<1>9. ASSUME ~Ended(d)
      PROVE  Conversation(d)'
  <2>1. peer' = peer /\ replies'[d] = Append(replies[d], r) /\ Len(replies'[d]) = 1
    BY <1>2, <1>7, <1>9, AppendProperties, EmptySeq DEF Send, TypeOK, SocketsTypeOK
  <2>2. Pending(d)' = 1
    BY <1>4, <1>7, <1>8, <2>1 DEF Pending
  <2>3. Opens(d)'
    <3>1. peer[d] # "unused"
      BY <1>6, <1>7 DEF Conversation, Opens, Unheard
    <3>. QED
      BY <1>2, <1>4, <1>6, <1>7, <2>1, <3>1 DEF Conversation, Opens
  <2>4. AsksOnce(d)'
    BY <1>2, <1>6, <1>7, <2>1, <2>2 DEF Conversation, AsksOnce, Ended
  <2>5. Matches(d)'
    BY <1>4, <1>8 DEF Matches, Carries
  <2>. QED
    BY <2>3, <2>4, <2>5 DEF Conversation
<1>10. ASSUME Ended(d)
       PROVE  Conversation(d)'
  <2>1. peer'[d] = "reset" /\ replies' = replies
    BY <1>2, <1>10 DEF Send, TypeOK, SocketsTypeOK
  <2>2. Pending(d)' = 0
    BY <1>4, <1>7, <1>8, <2>1, EmptySeq DEF Pending
  <2>3. Opens(d)'
    BY <1>2, <1>4, <1>6, <1>7, <2>1 DEF Conversation, Opens
  <2>4. AsksOnce(d)' /\ Matches(d)'
    BY <2>1, <2>2 DEF AsksOnce, Matches, Ended
  <2>. QED
    BY <2>3, <2>4 DEF Conversation
<1>11. SlotsHeard'
  BY <1>2 DEF ConversationInv, SlotsHeard, Unheard
<1>. QED
  BY <1>1, <1>5, <1>9, <1>10, <1>11, OneTouched

(* The content never comes: the connection has ended.                      *)
LEMMA ContentMissed ==
    ASSUME TypeOK, ConversationInv, ContentEof, UNCHANGED callVars
    PROVE  ConversationInv'
<1>1. PICK d \in Conn : d = slots[cursor] /\ InHand(d)
  BY ServedInHand DEF ContentEof
<1>2. /\ UNCHANGED <<peer, replies, call, slots, accepted, a_pc, a_conn>>
      /\ stream' = [stream EXCEPT ![d] = <<>>]
      /\ stream'[d] = <<>> /\ \A c \in Conn \ {d} : stream'[c] = stream[c]
      /\ w_pc' = "scan" /\ Ended(d) /\ peer[d] # "reset"
  BY <1>1 DEF ContentEof, NextSlot, Ended, TypeOK, SocketsTypeOK
<1>3. ~InHand(d)' /\ Greeting(d)' = Greeting(d) /\ Unheard(d)' = Unheard(d)
  BY <1>2 DEF InHand, Greeting, Unheard
<1>4. ASSUME NEW c \in Conn \ {d}
      PROVE  Untouched(c)
  BY <1>1, <1>2 DEF Untouched, InHand, Greeting, Unheard
<1>5. Conversation(d) /\ Pending(d) = 1
  BY <1>1, InHandAlone DEF ConversationInv
<1>6. Pending(d)' = 0
  <2>1. <<>> \in Seq(Chunk) /\ Sent(<<>>) = {}
    BY EmptySeq, SentFinite
  <2>2. Cardinality(Sent(stream'[d])) = 0 /\ replies'[d] = <<>> /\ ~Greeting(d)'
    BY <1>1, <1>2, <1>3, <2>1, SentFinite, InHandAlone
  <2>. QED
    BY <1>3, <2>2, EmptySeq DEF Pending
<1>7. Conversation(d)'
  <2>1. ~Unheard(d) /\ ~Greeting(d)
    BY <1>1, InHandAlone
  <2>. QED
    BY <1>2, <1>3, <1>5, <1>6, <2>1 DEF Conversation, Opens, AsksOnce, Matches, Ended
<1>8. SlotsHeard'
  BY <1>2 DEF ConversationInv, SlotsHeard, Unheard
<1>. QED
  BY <1>1, <1>4, <1>7, <1>8, OneTouched

(* Every handler answers, or meets the end of its connection, or ends the  *)
(* process.                                                                *)
LEMMA ServeAnswers ==
    ASSUME TypeOK, Serve
    PROVE  \/ ContentEof \/ \E cause \in Cause : Crash(cause)
           \/ /\ w_pc = "content" /\ stream[slots[cursor]] # <<>>
              /\ \E r \in Reply : Respond(slots[cursor], r)
           \/ w_pc = "content" /\ \E i \in Nat : LeftOver(slots[cursor], i)
<1>. DEFINE d == slots[cursor]
            Answered == /\ w_pc = "content" /\ stream[d] # <<>>
                        /\ \E r \in Reply : Respond(d, r)
<1>0. /\ "OK" \in Response /\ "DUPLICATE" \in Response /\ "NOT_PUBLISHED" \in Response
      /\ "INVALID" \in Response /\ "EMPTY" \in Response
      /\ "null_deref" \in Cause /\ "parse_error" \in Cause
  BY DEF Response, Cause
<1>1. /\ event_list \in [Topic -> Conn \cup {None}]
      /\ method_list \in [Method -> Conn \cup {None}]
  BY DEF TypeOK, MasterTypeOK
<1>2. ASSUME NEW t \in Topic, EventRegister(t) \/ EventDuplicate(t)
      PROVE  Answered \/ \E cause \in Cause : Crash(cause)
  BY <1>0, <1>2, Answers DEF EventRegister, EventDuplicate, Serving, Content
<1>3. ASSUME NEW t \in Topic, EventSubscribe(t)
      PROVE  Answered
  BY <1>0, <1>1, <1>3, Answers DEF EventSubscribe, Serving, Content
<1>4. ASSUME NEW m \in Method, MethodProvide(m) \/ MethodDuplicate(m)
      PROVE  Answered \/ \E cause \in Cause : Crash(cause)
  BY <1>0, <1>4, Answers DEF MethodProvide, MethodDuplicate, Serving, Content
<1>5. ASSUME NEW m \in Method, MethodQuery(m)
      PROVE  Answered
  BY <1>0, <1>1, <1>5, Answers DEF MethodQuery, Serving, Content
<1>6. ASSUME NEW arg, DebugQuery(arg)
      PROVE  Answered
  BY <1>0, <1>6, Answers DEF DebugQuery, Serving, Content
<1>7. CASE InvalidRequest
  BY <1>0, <1>7, Answers DEF InvalidRequest, Serving, Content
<1>8. CASE GarbledContent
  BY <1>0, <1>8, GarbledOutcome DEF GarbledContent
<1>. QED
  BY <1>2, <1>3, <1>4, <1>5, <1>6, <1>7, <1>8 DEF Serve

(* A joining frame is two chunks, and one request.                         *)
LEMMA JoinFrames ==
    /\ HalfFrame \in Seq(Chunk) /\ Cardinality(Sent(HalfFrame)) = 1
    /\ \A arg \in JoinArgs : /\ Len(JoinFrame(arg)) = 2
                             /\ Cardinality(Sent(JoinFrame(arg))) = 1
<1>. DEFINE h == Header("INITIATION")
<1>1. h \in Chunk /\ IsRequest(h)
  BY DEF Header, Chunk, FrameType, Argument, IsRequest
<1>2. <<>> \in Seq(Chunk) /\ HalfFrame = Append(<<>>, h) /\ HalfFrame \in Seq(Chunk)
      /\ Len(HalfFrame) = 1
  BY <1>1 DEF HalfFrame
<1>3. Cardinality(Sent(HalfFrame)) = 1
  <2>1. Cardinality(Sent(<<>>)) = 0
    BY <1>2, SentFinite
  <2>2. Cardinality(Sent(Append(<<>>, h))) = Cardinality(Sent(<<>>)) + 1
    BY <1>1, <1>2, SentAppend
  <2>. QED
    BY <1>2, <2>1, <2>2
<1>4. ASSUME NEW arg \in JoinArgs
      PROVE  Len(JoinFrame(arg)) = 2 /\ Cardinality(Sent(JoinFrame(arg))) = 1
  <2>. DEFINE k == Body("INITIATION", arg)
  <2>1. k \in Chunk /\ ~IsRequest(k)
    BY ClientArguments DEF Body, Chunk, FrameType, Argument, IsRequest
  <2>2. Cardinality(Sent(JoinFrame(arg))) = Cardinality(Sent(HalfFrame)) + 0
    BY <1>2, <2>1, SentAppend DEF JoinFrame
  <2>3. Len(JoinFrame(arg)) = Len(HalfFrame) + 1
    BY <1>2, <2>1, AppendProperties DEF JoinFrame
  <2>. QED
    BY <1>2, <1>3, <2>2, <2>3
<1>. QED
  BY <1>2, <1>3, <1>4

(* The joining frame is read: it was all that the participant had written. *)
LEMMA JoiningRead ==
    ASSUME TypeOK, RegistryInvariant, ConversationInv, NEW arg, NEW r,
           Joining(arg), JoinAnswer(r),
           UNCHANGED <<peer, replies, slots, workerVars, callVars>>
    PROVE  ConversationInv'
<1>1. PICK d \in Conn : d = a_conn /\ d \in accepted /\ Unheard(d)
  BY DEF Joining, TypeOK, MasterTypeOK, RegistryInvariant, AcceptorHolds, Unheard
<1>2. /\ stream' = [stream EXCEPT ![d] = SubSeq(stream[d], 3, Len(stream[d]))]
      /\ Len(stream[d]) >= 2 /\ a_pc = "read"
      /\ UNCHANGED <<peer, replies, call, slots, accepted, a_conn, w_pc, cursor, frame>>
      /\ a_pc' = "reply"
  BY <1>1 DEF Joining, JoinAnswer
<1>3. Conversation(d) /\ ~InHand(d)
  BY <1>1 DEF ConversationInv, SlotsHeard, InHand
<1>4. PICK a \in JoinArgs : stream[d] = JoinFrame(a)
  <2>1. stream[d] \in {<<>>, HalfFrame} \cup {JoinFrame(a) : a \in JoinArgs}
    BY <1>1, <1>3 DEF Conversation, Opens
  <2>2. PICK n \in Nat : n = Len(stream[d]) /\ n >= 2
    BY <1>2, Counts DEF TypeOK
  <2>3. stream[d] # HalfFrame
    <3>1. SUFFICES ASSUME stream[d] = HalfFrame PROVE FALSE
      OBVIOUS
    <3>2. Len(stream[d]) = 1
      BY <3>1 DEF HalfFrame
    <3>. QED
      BY <2>2, <3>2
  <2>4. stream[d] # <<>>
    BY <2>2
  <2>. QED
    BY <2>1, <2>2, <2>3, <2>4
<1>5. Len(stream[d]) = 2 /\ Cardinality(Sent(stream[d])) = 1
  BY <1>4, JoinFrames
<1>6. stream'[d] = <<>> /\ \A c \in Conn \ {d} : stream'[c] = stream[c]
  BY <1>2, <1>5, SubSeqProperties DEF TypeOK, SocketsTypeOK
<1>7. Greeting(d)' /\ ~Greeting(d) /\ ~Unheard(d)' /\ ~InHand(d)'
  BY <1>1, <1>2, <1>3 DEF InHand, Greeting, Unheard
<1>8. ASSUME NEW c \in Conn \ {d}
      PROVE  Untouched(c)
  BY <1>1, <1>2, <1>6 DEF Untouched, InHand, Greeting, Unheard
<1>9. Sent(stream'[d]) = {} /\ Cardinality(Sent(stream'[d])) = 0
  BY <1>6, SentFinite, EmptySeq
<1>10. Pending(d)' = Pending(d)
  <2>1. Len(replies[d]) \in Nat
    BY Counts DEF TypeOK
  <2>. QED
    BY <1>2, <1>3, <1>5, <1>7, <1>9, <2>1 DEF Pending
<1>11. Opens(d)'
  BY <1>1, <1>2, <1>3, <1>7 DEF Conversation, Opens
<1>12. AsksOnce(d)'
  BY <1>2, <1>3, <1>10 DEF Conversation, AsksOnce, Ended
<1>13. Matches(d)'
  BY <1>7, <1>9 DEF Matches, Carries
<1>14. SlotsHeard'
  BY <1>2 DEF ConversationInv, SlotsHeard, Unheard
<1>. QED
  BY <1>1, <1>8, <1>11, <1>12, <1>13, <1>14, OneTouched DEF Conversation

(* The joining frame never comes: the connection has ended.                *)
LEMMA JoiningMissed ==
    ASSUME TypeOK, RegistryInvariant, ConversationInv, InitEof, UNCHANGED callVars
    PROVE  ConversationInv'
<1>1. PICK d \in Conn : d = a_conn /\ d \in accepted /\ Unheard(d)
  BY DEF InitEof, TypeOK, MasterTypeOK, RegistryInvariant, AcceptorHolds, Unheard
<1>2. /\ UNCHANGED <<peer, stream, replies, call, slots, accepted, w_pc, cursor, frame>>
      /\ peer[d] = "closed" /\ a_pc = "read" /\ a_pc' = "accept"
  BY <1>1 DEF InitEof, NextAccept
<1>3. ASSUME NEW c \in Conn \ {d}
      PROVE  Untouched(c)
  BY <1>1, <1>2 DEF Untouched, InHand, Greeting, Unheard
<1>4. ~Greeting(d) /\ ~Greeting(d)' /\ ~Unheard(d)' /\ InHand(d)' = InHand(d)
  BY <1>1, <1>2 DEF InHand, Greeting, Unheard
<1>5. Pending(d)' = Pending(d) /\ Conversation(d)
  BY <1>1, <1>2, <1>4 DEF Pending, ConversationInv
<1>6. Conversation(d)'
  BY <1>2, <1>4, <1>5 DEF Conversation, Opens, AsksOnce, Matches, Ended
<1>7. SlotsHeard'
  BY <1>2 DEF ConversationInv, SlotsHeard, Unheard
<1>. QED
  BY <1>1, <1>3, <1>6, <1>7, OneTouched

(* While a joining frame is answered there is no other request.            *)
LEMMA GreetingAlone ==
    ASSUME TypeOK, ConversationInv, NEW d \in Conn, Greeting(d)
    PROVE  /\ Pending(d) = 1 /\ Sent(stream[d]) = {} /\ replies[d] = <<>>
           /\ ~InHand(d) /\ ~Unheard(d)
           /\ peer[d] \in {"joining", "closed"}
<1>1. AsksOnce(d) /\ Opens(d) /\ SocketsTypeOK
  BY DEF ConversationInv, Conversation, TypeOK
<1>2. /\ Cardinality(Sent(stream[d])) \in Nat /\ Len(replies[d]) \in Nat
      /\ Cardinality(Sent(stream[d])) = 0 <=> Sent(stream[d]) = {}
      /\ Len(replies[d]) = 0 <=> replies[d] = <<>>
  BY <1>1, Counts
<1>3. Pending(d) = Cardinality(Sent(stream[d])) + Len(replies[d])
                      + (IF InHand(d) THEN 1 ELSE 0) + 1
  BY DEF Pending
<1>4. Pending(d) <= 1 /\ (peer[d] = "reset" => Pending(d) = 0)
  BY <1>1 DEF AsksOnce
<1>5. /\ Pending(d) = 1 /\ Sent(stream[d]) = {} /\ replies[d] = <<>> /\ ~InHand(d)
      /\ peer[d] # "reset"
  BY <1>2, <1>3, <1>4
<1>. QED
  BY <1>1, <1>5 DEF Opens, Unheard, Greeting

(* The answer to a joining frame takes the place of that frame.            *)
LEMMA Greeted ==
    ASSUME TypeOK, ConversationInv, JoinReply, UNCHANGED callVars
    PROVE  ConversationInv'
<1>1. PICK d \in Conn : d = a_conn /\ Greeting(d)
  BY DEF JoinReply, TypeOK, MasterTypeOK, Greeting
<1>2. /\ UNCHANGED <<call, slots, accepted, stream, w_pc, cursor, frame>>
      /\ a_pc' = "accept" /\ a_pc = "reply" /\ Send(d, Answer(a_response))
  BY <1>1 DEF JoinReply, NextAccept
<1>3. Answer(a_response) \in Reply
  BY Answers DEF TypeOK, MasterTypeOK
<1>4. ~InHand(d)' /\ ~Greeting(d)' /\ ~Unheard(d)'
  BY <1>1, <1>2, GreetingAlone DEF InHand, Greeting, Unheard
<1>5. /\ \A c \in Conn \ {d} : replies'[c] = replies[c] /\ peer'[c] = peer[c]
  BY <1>2 DEF TypeOK, SocketsTypeOK, Send
<1>6. ASSUME NEW c \in Conn \ {d}
      PROVE  Untouched(c)
  BY <1>1, <1>2, <1>5 DEF Untouched, InHand, Greeting, Unheard
<1>7. /\ ~Unheard(d) /\ Pending(d) = 1 /\ replies[d] = <<>> /\ Sent(stream[d]) = {}
      /\ peer[d] # "reset" /\ ~InHand(d) /\ Conversation(d)
      /\ peer[d] \in {"joining", "closed"}
  BY <1>1, GreetingAlone DEF ConversationInv
<1>8. Cardinality(Sent(stream'[d])) = 0 /\ Sent(stream'[d]) = {}
  BY <1>2, <1>7, FS_EmptySet
<1>9. ASSUME ~Ended(d)
      PROVE  Conversation(d)'
  <2>1. peer' = peer /\ replies'[d] = Append(replies[d], Answer(a_response))
        /\ Len(replies'[d]) = 1
    BY <1>2, <1>3, <1>7, <1>9, AppendProperties, EmptySeq DEF Send, TypeOK, SocketsTypeOK
  <2>2. Pending(d)' = 1
    BY <1>4, <1>8, <2>1 DEF Pending
  <2>3. Opens(d)'
    BY <1>2, <1>4, <1>7, <2>1 DEF Conversation, Opens
  <2>4. AsksOnce(d)'
    BY <1>2, <1>7, <1>9, <2>1, <2>2 DEF Conversation, AsksOnce, Ended
  <2>5. Matches(d)'
    BY <1>4, <1>8 DEF Matches, Carries
  <2>. QED
    BY <2>3, <2>4, <2>5 DEF Conversation
<1>10. ASSUME Ended(d)
       PROVE  Conversation(d)'
  <2>1. peer'[d] = "reset" /\ replies' = replies
    BY <1>2, <1>10 DEF Send, TypeOK, SocketsTypeOK
  <2>2. Pending(d)' = 0
    BY <1>4, <1>7, <1>8, <2>1, EmptySeq DEF Pending
  <2>3. Opens(d)'
    BY <1>4, <2>1 DEF Opens
  <2>4. AsksOnce(d)' /\ Matches(d)'
    BY <2>1, <2>2 DEF AsksOnce, Matches, Ended
  <2>. QED
    BY <2>3, <2>4 DEF Conversation
<1>11. SlotsHeard'
  BY <1>2 DEF ConversationInv, SlotsHeard, Unheard
<1>. QED
  BY <1>1, <1>6, <1>9, <1>10, <1>11, OneTouched

-------------------------------------------------------------------------------
(* The steps of the participants.                                          *)

(* A step of one participant leaves the master, and so what the master     *)
(* reads and answers, and every other participant as they are.             *)
LEMMA ClientLocal ==
    ASSUME NEW d \in Conn, UNCHANGED masterVars
    PROVE  /\ SlotsHeard => SlotsHeard'
           /\ InHand(d)' = InHand(d) /\ Greeting(d)' = Greeting(d)
           /\ Unheard(d)' = Unheard(d) /\ accepted' = accepted /\ frame' = frame
           /\ \A c \in Conn :
                 peer'[c] = peer[c] /\ call'[c] = call[c] /\ stream'[c] = stream[c]
                     /\ replies'[c] = replies[c] => Untouched(c)
<1>1. UNCHANGED <<slots, accepted, a_pc, a_conn, w_pc, cursor, frame>>
  BY DEF masterVars
<1>2. ASSUME NEW c \in Conn, peer'[c] = peer[c], call'[c] = call[c],
             stream'[c] = stream[c], replies'[c] = replies[c]
      PROVE  Untouched(c)
  BY <1>1, <1>2 DEF Untouched, InHand, Greeting, Unheard
<1>3. SlotsHeard => SlotsHeard'
  BY <1>1 DEF SlotsHeard, Unheard
<1>4. /\ InHand(d)' = InHand(d) /\ Greeting(d)' = Greeting(d)
      /\ Unheard(d)' = Unheard(d) /\ accepted' = accepted /\ frame' = frame
  BY <1>1 DEF InHand, Greeting, Unheard
<1>. QED
  BY <1>2, <1>3, <1>4

(* Opening the connection: the header of the joining frame.                *)
LEMMA ConnectKeeps ==
    ASSUME TypeOK, ConversationInv, NEW d \in Conn, NEW arg \in JoinArgs,
           Connect(d, arg), UNCHANGED masterVars
    PROVE  Conversation(d)'
<1>1. Conversation(d) /\ peer[d] = "unused"
  BY DEF ConversationInv, Connect
<1>2. d \notin accepted /\ stream[d] = <<>> /\ replies[d] = <<>>
      /\ Unheard(d) /\ ~Greeting(d) /\ ~InHand(d)
  BY <1>1 DEF Conversation, Opens, Unheard, ConversationInv, SlotsHeard, InHand
<1>3. /\ peer'[d] = "joining" /\ replies' = replies
      /\ stream'[d] = Append(stream[d], Header("INITIATION"))
      /\ call'[d] = [pc |-> "body", type |-> "INITIATION", arg |-> arg]
  BY DEF Connect, WriteHeader, Write, TypeOK, SocketsTypeOK, ClientTypeOK
<1>4. Header("INITIATION") \in Chunk /\ IsRequest(Header("INITIATION"))
      /\ Header("INITIATION").type = "INITIATION"
  BY DEF Header, Chunk, FrameType, Argument, IsRequest
<1>5. stream'[d] = HalfFrame
  BY <1>2, <1>3 DEF HalfFrame
<1>6. Pending(d)' = 1
  <2>1. stream[d] \in Seq(Chunk) /\ Cardinality(Sent(stream[d])) = 0
    BY <1>2, SentFinite DEF TypeOK, SocketsTypeOK
  <2>2. Cardinality(Sent(stream'[d])) = 1
    <3>1. Cardinality(Sent(Append(stream[d], Header("INITIATION"))))
             = Cardinality(Sent(stream[d])) + 1
      BY <1>4, <2>1, SentAppend
    <3>. QED
      BY <1>3, <2>1, <3>1
  <2>3. Len(replies'[d]) = 0 /\ ~InHand(d)' /\ ~Greeting(d)'
    BY <1>2, <1>3, ClientLocal, EmptySeq
  <2>. QED
    BY <2>2, <2>3 DEF Pending
<1>7. Opens(d)'
  <2>1. /\ call'[d].pc = "body" /\ call'[d].type = "INITIATION"
        /\ call'[d].arg = arg /\ ~Greeting(d)' /\ replies'[d] = <<>>
    BY <1>2, <1>3, ClientLocal
  <2>. QED
    BY <1>3, <1>5, <2>1 DEF Opens
<1>8. AsksOnce(d)'
  BY <1>3, <1>6 DEF AsksOnce, Idle
<1>9. Matches(d)'
  <2>. DEFINE content == Body("INITIATION", arg)
  <2>1. Carries(<<>>, "INITIATION", content) /\ Sent(<<>>) = {} /\ <<>> \in Seq(Chunk)
    BY EmptySeq DEF Carries, Sent
  <2>2. Carries(stream'[d], "INITIATION", content)
    BY <1>2, <1>3, <1>4, <2>1, CarriesKept
  <2>. QED
    BY <1>2, <1>3, <2>2, ClientLocal DEF Matches
<1>. QED
  BY <1>7, <1>8, <1>9 DEF Conversation

(* The header of a call is written when nothing is left of the last one.   *)
LEMMA StartCallKeeps ==
    ASSUME TypeOK, ConversationInv, NEW d \in Conn, NEW r \in Requests,
           StartCall(d, r), UNCHANGED masterVars
    PROVE  Conversation(d)'
<1>1. Conversation(d) /\ call[d] = Idle /\ peer[d] \in {"up", "refused"}
  BY DEF ConversationInv, StartCall
<1>2. r.type \in RequestType /\ r.arg \in Argument
  BY ClientArguments
<1>3. /\ peer' = peer /\ replies' = replies
      /\ stream'[d] = Append(stream[d], Header(r.type))
      /\ call'[d] = [pc |-> "body", type |-> r.type, arg |-> r.arg]
  BY DEF StartCall, WriteHeader, Write, TypeOK, SocketsTypeOK, ClientTypeOK
<1>4. Header(r.type) \in Chunk /\ IsRequest(Header(r.type)) /\ Header(r.type).type = r.type
  BY <1>2 DEF Header, Chunk, FrameType, Argument, IsRequest, RequestType
<1>5. Pending(d) = 0 /\ ~Unheard(d)
  BY <1>1 DEF Conversation, AsksOnce, Opens, Ended
<1>6. /\ stream[d] \in Seq(Chunk) /\ Cardinality(Sent(stream[d])) \in Nat
      /\ Len(replies[d]) \in Nat
      /\ Cardinality(Sent(stream[d])) = 0 <=> Sent(stream[d]) = {}
  BY Counts DEF TypeOK
<1>7. Cardinality(Sent(stream[d])) = 0 /\ Len(replies[d]) = 0 /\ ~InHand(d) /\ ~Greeting(d)
  BY <1>5, <1>6 DEF Pending
<1>8. Pending(d)' = 1
  <2>1. Cardinality(Sent(stream'[d])) = 1
    BY <1>3, <1>4, <1>6, <1>7, SentAppend
  <2>. QED
    BY <1>3, <1>7, <2>1, ClientLocal DEF Pending
<1>9. Opens(d)'
  BY <1>1, <1>3, <1>5, <1>7, ClientLocal DEF Opens
<1>10. AsksOnce(d)'
  BY <1>1, <1>3, <1>8 DEF AsksOnce, Idle
<1>11. Matches(d)'
  <2>. DEFINE content == Body(r.type, r.arg)
  <2>1. Carries(stream[d], r.type, content)
    BY <1>6, <1>7 DEF Carries
  <2>2. Carries(stream'[d], r.type, content)
    BY <1>3, <1>4, <1>6, <1>7, <2>1, CarriesKept
  <2>. QED
    BY <1>3, <1>7, <2>2, ClientLocal DEF Matches
<1>. QED
  BY <1>9, <1>10, <1>11 DEF Conversation

(* The content is the one the header announced.                            *)
LEMMA WriteBodyKeeps ==
    ASSUME TypeOK, ConversationInv, NEW d \in Conn, WriteBody(d), UNCHANGED masterVars
    PROVE  Conversation(d)'
<1>. DEFINE k == Body(call[d].type, call[d].arg)
<1>1. Conversation(d) /\ ~Ended(d) /\ call[d].pc = "body"
  BY DEF ConversationInv, WriteBody
<1>2. /\ peer' = peer /\ replies' = replies
      /\ stream'[d] = Append(stream[d], k)
      /\ call'[d] = [call[d] EXCEPT !.pc = "wait"]
  BY DEF WriteBody, Write, TypeOK, SocketsTypeOK, ClientTypeOK
<1>3. call'[d].type = call[d].type /\ call'[d].arg = call[d].arg
      /\ call'[d].pc = "wait" /\ call[d] # Idle /\ call'[d] # Idle
  BY <1>1, <1>2 DEF TypeOK, ClientTypeOK, Call, Idle
<1>4. k \in Chunk /\ ~IsRequest(k) /\ k.part = "body"
  BY DEF Body, Chunk, IsRequest, TypeOK, ClientTypeOK, Call
<1>5. /\ stream[d] \in Seq(Chunk) /\ Cardinality(Sent(stream[d])) \in Nat
      /\ Len(replies[d]) \in Nat
  BY Counts DEF TypeOK
<1>6. Pending(d)' = Pending(d)
  <2>1. Cardinality(Sent(stream'[d])) = Cardinality(Sent(stream[d]))
    BY <1>2, <1>4, <1>5, SentAppend
  <2>. QED
    BY <1>2, <2>1, ClientLocal DEF Pending
<1>7. Opens(d)'
  <2>1. ASSUME Unheard(d)
        PROVE  peer[d] = "joining" /\ stream'[d] \in {JoinFrame(arg) : arg \in JoinArgs}
    <3>1. peer[d] = "joining" /\ call[d].type = "INITIATION"
      BY <1>1, <1>3, <2>1 DEF Conversation, Opens, Ended
    <3>2. stream[d] = HalfFrame /\ call[d].arg \in JoinArgs
      BY <1>1, <2>1, <3>1 DEF Conversation, Opens
    <3>3. stream'[d] = JoinFrame(call[d].arg)
      BY <1>2, <3>1, <3>2 DEF JoinFrame
    <3>. QED
      BY <3>1, <3>2, <3>3
  <2>. QED
    BY <1>1, <1>2, <1>3, <2>1, ClientLocal DEF Conversation, Opens
<1>8. AsksOnce(d)'
  BY <1>1, <1>2, <1>3, <1>6 DEF Conversation, AsksOnce, Ended
<1>9. Matches(d)'
  <2>1. Carries(stream'[d], call[d].type, k)
    BY <1>1, <1>2, <1>4, <1>5, CarriesKept DEF Conversation, Matches
  <2>2. InHand(d) => frame = call[d].type /\ Follows(stream'[d], 0, k)
    <3>1. SUFFICES ASSUME InHand(d)
                   PROVE  frame = call[d].type /\ Follows(stream'[d], 0, k)
      OBVIOUS
    <3>2. frame = call[d].type /\ Follows(stream[d], 0, k) /\ 0 \in Nat
      BY <1>1, <3>1 DEF Conversation, Matches
    <3>. HIDE DEF k
    <3>3. Follows(Append(stream[d], k), 0, k)
      BY <1>4, <1>5, <3>2, FollowsKept
    <3>. QED
      BY <1>2, <3>2, <3>3
  <2>. QED
    BY <1>2, <1>3, <2>1, <2>2, ClientLocal DEF Matches
<1>. QED
  BY <1>7, <1>8, <1>9 DEF Conversation

(* An answer that a participant has not read is the only one.              *)
LEMMA LastReply ==
    ASSUME TypeOK, ConversationInv, NEW d \in Conn, ~Ended(d), replies[d] # <<>>
    PROVE  /\ Tail(replies[d]) = <<>> /\ Pending(d) = 1
           /\ Cardinality(Sent(stream[d])) = 0 /\ ~InHand(d) /\ ~Greeting(d)
           /\ ~Unheard(d)
<1>1. /\ replies[d] \in Seq(Reply) /\ Cardinality(Sent(stream[d])) \in Nat
      /\ Len(replies[d]) \in Nat \ {0}
  BY Counts DEF TypeOK
<1>2. Pending(d) <= 1 /\ ~Unheard(d)
  BY DEF ConversationInv, Conversation, AsksOnce, Opens
<1>3. /\ Cardinality(Sent(stream[d])) = 0 /\ Len(replies[d]) <= 1 /\ Pending(d) = 1
      /\ ~InHand(d) /\ ~Greeting(d)
  BY <1>1, <1>2 DEF Pending
<1>4. Tail(replies[d]) = <<>>
  <2>1. PICK n \in Nat : n = Len(replies[d]) /\ n <= 1 /\ n > 0
    BY <1>1, <1>3
  <2>2. Len(Tail(replies[d])) = n - 1 /\ Tail(replies[d]) \in Seq(Reply)
    BY <1>1, <2>1, HeadTailProperties
  <2>3. \A k \in Nat : k <= 1 /\ k > 0 => k - 1 = 0
    OBVIOUS
  <2>4. Len(Tail(replies[d])) = 0
    BY <2>1, <2>2, <2>3, Zenon
  <2>. QED
    BY <2>2, <2>4, EmptySeq
<1>. QED
  BY <1>2, <1>3, <1>4

(* Reading the answer leaves nothing of the call.                          *)
LEMMA TakeReplyKeeps ==
    ASSUME TypeOK, ConversationInv, NEW d \in Conn, TakeReply(d),
           UNCHANGED <<stream, masterVars>>, peer'[d] \in {"up", "refused"}
    PROVE  Conversation(d)'
<1>1. /\ Conversation(d) /\ ~Ended(d) /\ call[d].pc = "wait" /\ replies[d] # <<>>
      /\ call[d] # Idle
  BY DEF ConversationInv, TakeReply, Idle
<1>2. replies'[d] = Tail(replies[d]) /\ call'[d] = Idle
  BY DEF TakeReply, TypeOK, SocketsTypeOK, ClientTypeOK
<1>3. /\ Tail(replies[d]) = <<>> /\ Cardinality(Sent(stream[d])) = 0
      /\ ~InHand(d) /\ ~Greeting(d) /\ ~Unheard(d)
  BY <1>1, LastReply
<1>4. Sent(stream[d]) = {}
  BY <1>3, Counts DEF TypeOK
<1>5. replies'[d] = <<>> /\ Len(replies'[d]) = 0
  BY <1>2, <1>3, EmptySeq
<1>6. ~InHand(d)' /\ ~Greeting(d)' /\ ~Unheard(d)' /\ stream' = stream
  BY <1>3, ClientLocal
<1>7. Pending(d)' = 0
  BY <1>3, <1>5, <1>6 DEF Pending
<1>8. Opens(d)' /\ AsksOnce(d)'
  BY <1>2, <1>6, <1>7 DEF Opens, AsksOnce
<1>9. Matches(d)'
  BY <1>4, <1>6 DEF Matches, Carries
<1>. QED
  BY <1>8, <1>9 DEF Conversation

(* A keep-alive is no request, and may be written at any moment.           *)
LEMMA KeepAliveKeeps ==
    ASSUME TypeOK, ConversationInv, NEW d \in Conn, KeepAlive(d), UNCHANGED masterVars
    PROVE  Conversation(d)'
<1>. DEFINE k == Header("KEEP_ALIVE")
<1>1. Conversation(d) /\ peer[d] = "up"
  BY DEF ConversationInv, KeepAlive
<1>2. /\ peer' = peer /\ replies' = replies /\ call' = call
      /\ stream'[d] = Append(stream[d], k)
  BY DEF KeepAlive, Write, TypeOK, SocketsTypeOK
<1>3. k \in Chunk /\ ~IsRequest(k) /\ k.part = "header" /\ k.type = "KEEP_ALIVE"
  BY DEF Header, Chunk, IsRequest, FrameType, Argument
<1>4. /\ stream[d] \in Seq(Chunk) /\ Cardinality(Sent(stream[d])) \in Nat
      /\ Len(replies[d]) \in Nat
  BY Counts DEF TypeOK
<1>. HIDE DEF k
<1>5. Pending(d)' = Pending(d)
  <2>1. Cardinality(Sent(stream'[d])) = Cardinality(Sent(stream[d]))
    BY <1>2, <1>3, <1>4, SentAppend
  <2>. QED
    BY <1>2, <2>1, ClientLocal DEF Pending
<1>6. ~Unheard(d) /\ ~Unheard(d)'
  BY <1>1, ClientLocal DEF Conversation, Opens
<1>7. Opens(d)'
  BY <1>1, <1>2, <1>6, ClientLocal DEF Conversation, Opens
<1>8. AsksOnce(d)'
  BY <1>1, <1>2, <1>5 DEF Conversation, AsksOnce, Ended
<1>9. Matches(d)'
  <2>. DEFINE content == Body(call[d].type, call[d].arg)
  <2>1. Carries(stream'[d], call[d].type, content)
    BY <1>1, <1>2, <1>3, <1>4, CarriesKept DEF Conversation, Matches, Ended
  <2>2. ASSUME InHand(d)
        PROVE  frame = call[d].type /\ Follows(stream'[d], 0, content)
    <3>1. frame = call[d].type /\ Follows(stream[d], 0, content) /\ 0 \in Nat
      BY <1>1, <2>2 DEF Conversation, Matches, Ended
    <3>. HIDE DEF content
    <3>2. Follows(Append(stream[d], k), 0, content)
      BY <1>3, <1>4, <3>1, FollowsKept
    <3>. QED
      BY <1>2, <3>1, <3>2
  <2>. QED
    BY <1>2, <2>1, <2>2, ClientLocal DEF Matches
<1>. QED
  BY <1>7, <1>8, <1>9 DEF Conversation

(* An end drops the answers that were not read, and only then resets.      *)
LEMMA EndKeeps ==
    ASSUME TypeOK, ConversationInv, NEW d \in Conn, End(d), UNCHANGED masterVars
    PROVE  Conversation(d)'
<1>1. Conversation(d) /\ peer[d] \in {"joining", "up", "refused"}
  BY DEF ConversationInv, End
<1>2. /\ peer'[d] = IF replies[d] = <<>> THEN "closed" ELSE "reset"
      /\ replies'[d] = <<>> /\ stream' = stream
  BY DEF End, TypeOK, SocketsTypeOK
<1>3. /\ Cardinality(Sent(stream[d])) \in Nat /\ Len(replies[d]) \in Nat
      /\ Len(replies[d]) = 0 <=> replies[d] = <<>>
      /\ Pending(d) \in Nat
  BY Counts DEF TypeOK
<1>4. Pending(d) <= 1
  BY <1>1 DEF Conversation, AsksOnce
<1>5. Len(replies'[d]) = 0
  BY <1>2, EmptySeq
<1>6. Pending(d)' <= 1 /\ (replies[d] # <<>> => Pending(d)' = 0)
  BY <1>2, <1>3, <1>4, <1>5, ClientLocal DEF Pending
<1>7. Opens(d)'
  BY <1>1, <1>2, ClientLocal DEF Conversation, Opens
<1>8. AsksOnce(d)' /\ Matches(d)'
  BY <1>2, <1>6 DEF AsksOnce, Matches, Ended
<1>. QED
  BY <1>7, <1>8 DEF Conversation

(* Every step of a participant keeps every conversation.                   *)
LEMMA ClientConversations ==
    ASSUME TypeOK, ConversationInv, NEW d \in Conn, ClientNext(d), UNCHANGED masterVars
    PROVE  ConversationInv'
<1>1. ASSUME NEW c \in Conn \ {d}
      PROVE  Untouched(c)
  <2>1. /\ peer'[c] = peer[c] /\ call'[c] = call[c]
        /\ stream'[c] = stream[c] /\ replies'[c] = replies[c]
    BY <1>1 DEF ClientNext, Connect, StartCall, WriteHeader, Write, WriteBody, EndJoin,
       EndCall, TakeReply, KeepAlive, End, TypeOK, SocketsTypeOK, ClientTypeOK
  <2>. QED
    BY <2>1, ClientLocal
<1>2. Conversation(d)'
  <2>1. CASE EndJoin(d)
    <3>1. peer'[d] \in {"up", "refused"}
      BY <2>1 DEF EndJoin, TypeOK, SocketsTypeOK
    <3>. QED
      BY <2>1, <3>1, TakeReplyKeeps DEF EndJoin
  <2>2. CASE EndCall(d)
    BY <2>2, TakeReplyKeeps DEF EndCall
  <2>. QED
    BY <2>1, <2>2, ConnectKeeps, StartCallKeeps, WriteBodyKeeps, KeepAliveKeeps,
       EndKeeps DEF ClientNext
<1>3. SlotsHeard'
  BY ClientLocal DEF ConversationInv
<1>. QED
  BY <1>1, <1>2, <1>3, OneTouched

(* Every step of the control plane is of one of these kinds.               *)
LEMMA NextConversations ==
    ASSUME TypeOK, RegistryInvariant, ConversationInv, [Next]_vars
    PROVE  ConversationInv'
<1>1. CASE UNCHANGED vars
  <2>1. ASSUME NEW c \in Conn
        PROVE  Untouched(c)
    BY <1>1, ClientLocal DEF vars, clientVars
  <2>. QED
    BY <1>1, <2>1, UntouchedKeeps DEF ConversationInv, vars, masterVars, SlotsHeard, Unheard
<1>2. ASSUME NEW d \in Conn, ClientStep(d)
      PROVE  ConversationInv'
  BY <1>2, ClientConversations DEF ClientStep
<1>3. ASSUME MasterStep
      PROVE  ConversationInv'
  <2>0. UNCHANGED callVars
    BY <1>3 DEF MasterStep
  <2>1. CASE QuietStep
    <3>1. ConversationInv => SlotsHeard /\ \A c \in Conn : Conversation(c)
      BY DEF ConversationInv
    <3>2. SlotsHeard' /\ \A c \in Conn : Untouched(c)
      BY <2>0, <2>1, <3>1, QuietSlots, QuietUntouched
    <3>. QED
      BY <3>1, <3>2, UntouchedKeeps DEF ConversationInv
  <2>2. ASSUME NEW i \in Slot, Read(i)
        PROVE  ConversationInv' \/ QuietStep
    BY <2>0, <2>2, KeepAliveRead, HeaderRead, ResetRead DEF Read, QuietStep
  <2>3. CASE Serve
    <3>1. ASSUME w_pc = "content"
          PROVE  slots[cursor] \in Conn
      BY <3>1, ServedInHand
    <3>2. Answer("EMPTY") \in Reply
      BY Answers DEF Response
    <3>3. ASSUME w_pc = "content", NEW r \in Reply, Replied(slots[cursor], r)
          PROVE  ConversationInv'
      BY <2>0, <3>3, Responded
    <3>4. ASSUME NEW i \in Nat, w_pc = "content", LeftOver(slots[cursor], i)
          PROVE  ConversationInv'
      BY <3>1, <3>2, <3>3, <3>4, LeftOverReplies
    <3>5. ASSUME NEW r \in Reply, w_pc = "content", stream[slots[cursor]] # <<>>,
                 Respond(slots[cursor], r)
          PROVE  ConversationInv'
      BY <3>1, <3>3, <3>5, RespondReplies
    <3>. QED
      BY <2>0, <2>1, <2>3, <3>4, <3>5, ServeAnswers, ContentMissed DEF QuietStep
  <2>4. CASE Acceptor
    <3>1. ASSUME NEW n \in Name, Register(n) \/ RefuseDuplicate(n)
          PROVE  ConversationInv'
      BY <2>0, <3>1, JoiningRead DEF Register, RefuseDuplicate, Refuse
    <3>2. CASE RefuseVersion \/ RefuseInvalid
      BY <2>0, <3>2, JoiningRead DEF RefuseVersion, RefuseInvalid, Refuse
    <3>. QED
      BY <2>0, <2>1, <2>4, <3>1, <3>2, JoiningMissed, Greeted DEF Acceptor, QuietStep
  <2>. QED
    BY <1>3, <2>1, <2>2, <2>3, <2>4 DEF MasterStep, MasterNext, Worker, QuietStep
<1>. QED
  BY <1>1, <1>2, <1>3 DEF Next

(* The conversations on all connections, in every reachable state.         *)
LEMMA Conversations == Spec => []ConversationInv
<1>1. TypeOK /\ RegistryInvariant /\ ConversationInv /\ [Next]_vars => ConversationInv'
  BY NextConversations
<1>. QED
  BY <1>1, InitConversations, TypeCorrect, RegistryCorrect, PTL DEF Spec

(* Each request of a live participant is answered once, and no answer is   *)
(* left over for the next call, although two threads of the master read a  *)
(* connection one after the other and two of the participant write it.     *)
THEOREM OneAnswer == Spec => []OneAnswerPerCall
<1>1. ASSUME ConversationInv
      PROVE  OneAnswerPerCall
  <2>1. \A c \in Conn : RequestsOf(c) = Pending(c)
    BY DEF RequestsOf, Pending, Sent, IsRequest, InHand, Greeting
  <2>. QED
    BY <1>1, <2>1 DEF OneAnswerPerCall, ConversationInv, Conversation, AsksOnce
<1>. QED
  BY <1>1, Conversations, PTL

(* readn() does not fail between a header and its content, nor on a        *)
(* joining frame, so neither thread of the master runs a handler on an     *)
(* uninitialized buffer because of a reset.                                *)
THEOREM NoFailedReads == Spec => []NoReadFailsMidFrame
<1>1. ASSUME TypeOK, ConversationInv
      PROVE  NoReadFailsMidFrame
  <2>1. ASSUME w_pc = "content"
        PROVE  peer[slots[cursor]] # "reset"
    BY <1>1, <2>1, ServedInHand, InHandAlone
  <2>2. ASSUME a_pc = "read"
        PROVE  peer[a_conn] # "reset"
    BY <1>1, <2>2 DEF ConversationInv, Conversation, Opens, Unheard, TypeOK, MasterTypeOK
  <2>. QED
    BY <2>1, <2>2 DEF NoReadFailsMidFrame
<1>. QED
  BY <1>1, TypeCorrect, Conversations, PTL

-------------------------------------------------------------------------------
(* What a participant believes.                                            *)

Publishes(c) == {t \in Topic : event_list[t] = c}
Provides(c) == {m \in Method : method_list[m] = c}

(* What c will have recorded once it has read the answer that is there.    *)
Told(c) ==
    pub_list[c] \cup IF /\ replies[c] # <<>> /\ call[c].type = "EVENT_REGISTER"
                        /\ Granted(c)
                     THEN {call[c].arg} ELSE {}

ToldMethods(c) ==
    provided_list[c] \cup IF /\ replies[c] # <<>> /\ call[c].type = "METHOD_PROVIDE"
                             /\ Granted(c)
                          THEN {call[c].arg} ELSE {}

(* Who is registered has been told so, or will be, and knows what it owns. *)
Informed(c) ==
    /\ peer[c] # "refused"
    /\ Greeting(c) => a_response = "OK"
    /\ peer[c] = "joining" /\ replies[c] # <<>> => Granted(c)
    /\ ~Ended(c) => Publishes(c) = Told(c) /\ Provides(c) = ToldMethods(c)

(* Who has not joined has recorded nothing.                                *)
Fresh(c) ==
    peer[c] \in {"unused", "joining"} => pub_list[c] = {} /\ provided_list[c] = {}

(* The inductive invariant.                                                *)
AgreementInv ==
    /\ \A c \in Conn : Fresh(c)
    /\ \A c \in socket_map : Informed(c)

(* What c is told, and what there is to tell, do not change.               *)
LEMMA InformedKept ==
    ASSUME NEW c \in Conn, Informed(c),
           peer'[c] = peer[c], replies'[c] = replies[c],
           call'[c].type = call[c].type, call'[c].arg = call[c].arg,
           Greeting(c)' => Greeting(c) /\ a_response' = a_response,
           pub_list'[c] = pub_list[c], provided_list'[c] = provided_list[c],
           Publishes(c)' = Publishes(c), Provides(c)' = Provides(c)
    PROVE  Informed(c)'
BY DEF Informed, Told, ToldMethods, Granted, Ended

(* Nobody is there any more to be told.                                    *)
LEMMA EndedInformed ==
    ASSUME NEW c \in Conn, Ended(c)', Greeting(c)' => a_response' = "OK"
    PROVE  Informed(c)'
BY DEF Informed, Ended

(* A step of the master that touches one connection, and takes nothing     *)
(* from the owners of the others.                                          *)
LEMMA OneInformed ==
    ASSUME AgreementInv, TypeOK, UNCHANGED callVars, NEW d \in Conn,
           peer'[d] \in {"unused", "joining"} => peer[d] \in {"unused", "joining"},
           d \in socket_map' => Informed(d)',
           \A c \in Conn \ {d} : Untouched(c) /\ (Greeting(c) => a_response' = a_response),
           socket_map' \subseteq socket_map \cup {d},
           \A c \in socket_map : c # d =>
               Publishes(c)' = Publishes(c) /\ Provides(c)' = Provides(c)
    PROVE  AgreementInv'
<1>1. ASSUME NEW c \in socket_map', c # d
      PROVE  Informed(c)'
  <2>1. c \in socket_map /\ c \in Conn /\ Untouched(c) /\ Informed(c)
    BY <1>1 DEF TypeOK, MasterTypeOK, AgreementInv
  <2>. QED
    BY <1>1, <2>1, InformedKept DEF Untouched
<1>2. ASSUME NEW c \in Conn
      PROVE  Fresh(c)'
  <2>1. Fresh(c) /\ UNCHANGED <<pub_list, provided_list>>
    BY <1>2 DEF AgreementInv
  <2>. QED
    BY <2>1 DEF Fresh, Untouched
<1>. QED
  BY <1>1, <1>2 DEF AgreementInv

(* Before the first connection nobody is registered.                       *)
LEMMA InitAgreement == Init => AgreementInv
BY DEF Init, MasterInit, ClientInit, AgreementInv, Fresh

(* A step of the master that reads no joining frame and answers nobody.    *)
LEMMA QuietAgreement ==
    ASSUME TypeOK, RegistryInvariant, ConversationInv, AgreementInv, QuietStep,
           UNCHANGED callVars
    PROVE  AgreementInv'
<1>1. UNCHANGED <<peer, pub_list, provided_list>>
  BY DEF QuietStep, Drain, LockDead, DrainDead, DrainDeadUnknown, NoMoreDead, DrainNew,
     DrainNewUnknown, NoMoreNew, Poll, ScanDone, Tick, AcceptFails, ReadMisaligned,
     ReadEof, Accept, Crash
<1>2. UNCHANGED a_response
  BY DEF QuietStep, Drain, LockDead, DrainDead, DrainDeadUnknown, NoMoreDead, DrainNew,
     DrainNewUnknown, NoMoreNew, Poll, ScanDone, Tick, AcceptFails, ReadMisaligned,
     ReadEof, Accept, Crash
<1>3. ASSUME NEW c \in socket_map'
      PROVE  /\ c \in socket_map /\ c \in Conn
             /\ Publishes(c)' = Publishes(c) /\ Provides(c)' = Provides(c)
  <2>1. CASE DrainDead
    <3>. DEFINE n == Head(dead_q)
                d == participant_list[n]
    <3>1. n \in Name
      BY <2>1, HeadTailProperties DEF DrainDead, TypeOK, MasterTypeOK
    <3>2. d \in socket_map
      BY <2>1, <3>1 DEF DrainDead, RegistryInvariant, RegistryAgrees, Participants
    <3>3. published[d] = Publishes(d) /\ provided[d] = Provides(d)
      BY <3>2 DEF RegistryInvariant, OwnershipAgrees, Publishes, Provides
    <3>4. c \in socket_map /\ c # d /\ c \in Conn /\ c # None
      BY <1>3, <2>1, ConstantsDistinct DEF DrainDead, TypeOK, MasterTypeOK
    <3>5. Publishes(c)' = Publishes(c)
      BY <2>1, <3>3, <3>4 DEF DrainDead, EraseEvents, Publishes
    <3>6. Provides(c)' = Provides(c)
      BY <2>1, <3>3, <3>4 DEF DrainDead, EraseMethods, Provides
    <3>. QED
      BY <3>4, <3>5, <3>6
  <2>2. CASE ~DrainDead
    <3>1. UNCHANGED <<socket_map, event_list, method_list>>
      BY <2>2 DEF QuietStep, Drain, LockDead, DrainDeadUnknown, NoMoreDead, DrainNew,
         DrainNewUnknown, NoMoreNew, Poll, ScanDone, Tick, AcceptFails, ReadMisaligned,
         ReadEof, Accept, Crash
    <3>. QED
      BY <1>3, <3>1 DEF Publishes, Provides, TypeOK, MasterTypeOK
  <2>. QED
    BY <2>1, <2>2
<1>4. ASSUME NEW c \in socket_map'
      PROVE  Informed(c)'
  <2>1. c \in Conn /\ Informed(c)
    BY <1>3, <1>4 DEF AgreementInv
  <2>2. Untouched(c)
    BY <2>1, QuietUntouched
  <2>. QED
    BY <1>1, <1>2, <1>3, <1>4, <2>1, <2>2, InformedKept DEF Untouched
<1>. QED
  BY <1>1, <1>4 DEF AgreementInv, Fresh

(* A read of the worker leaves what there is to tell; only a participant   *)
(* that has ended looks different afterwards.                              *)
LEMMA ReadAgreement ==
    ASSUME TypeOK, AgreementInv, UNCHANGED callVars,
           \/ \E i \in Slot : ReadKeepAlive(i) \/ ReadHeader(i) \/ ReadReset(i)
           \/ ContentEof
    PROVE  AgreementInv'
<1>1. /\ UNCHANGED <<replies, call, a_pc, a_conn, a_response, socket_map, event_list,
                     method_list, pub_list, provided_list>>
      /\ \A c \in Conn : \/ peer'[c] = peer[c]
                         \/ peer[c] = "reset" /\ peer'[c] = "closed"
  BY DEF ReadKeepAlive, ReadHeader, ReadReset, ContentEof, TypeOK, SocketsTypeOK
<1>2. ASSUME NEW c \in socket_map'
      PROVE  Informed(c)'
  <2>1. c \in Conn /\ Informed(c)
    BY <1>1, <1>2 DEF AgreementInv, TypeOK, MasterTypeOK
  <2>2. /\ Greeting(c)' = Greeting(c)
        /\ Publishes(c)' = Publishes(c) /\ Provides(c)' = Provides(c)
    BY <1>1 DEF Greeting, Publishes, Provides
  <2>3. CASE peer'[c] = peer[c]
    BY <1>1, <2>1, <2>2, <2>3, InformedKept
  <2>4. CASE peer'[c] = "closed"
    BY <1>1, <2>1, <2>2, <2>4, EndedInformed DEF Informed, Ended
  <2>. QED
    BY <1>1, <2>1, <2>3, <2>4
<1>3. ASSUME NEW c \in Conn
      PROVE  Fresh(c)'
  BY <1>1 DEF AgreementInv, Fresh
<1>. QED
  BY <1>2, <1>3 DEF AgreementInv

(* The worker tells a participant what it has entered for it.              *)
LEMMA AnswerAgreement ==
    ASSUME TypeOK, ConversationInv, AgreementInv, UNCHANGED callVars,
           NEW r \in Reply, NEW d \in Conn, d = slots[cursor], w_pc = "content",
           Replied(d, r),
           \A c \in socket_map : c # d =>
               Publishes(c)' = Publishes(c) /\ Provides(c)' = Provides(c),
           ~Ended(d) /\ d \in socket_map =>
               /\ Publishes(d)' = Publishes(d) \cup
                    IF call[d].type = "EVENT_REGISTER" /\ r.response = "OK"
                    THEN {call[d].arg} ELSE {}
               /\ Provides(d)' = Provides(d) \cup
                    IF call[d].type = "METHOD_PROVIDE" /\ r.response = "OK"
                    THEN {call[d].arg} ELSE {}
    PROVE  AgreementInv'
<1>1. InHand(d)
  BY DEF InHand
<1>2. /\ replies[d] = <<>> /\ ~Greeting(d) /\ peer[d] # "unused"
      /\ ~Ended(d) => peer[d] # "joining"
  <2>1. Conversation(d) /\ frame \in RequestType /\ ~Unheard(d)
    BY <1>1, InHandAlone DEF ConversationInv, SlotsHeard
  <2>2. ~Ended(d) => call[d].type \in RequestType
    BY <1>1, <2>1 DEF Conversation, Matches
  <2>3. peer[d] # "unused" /\ (~Ended(d) => peer[d] # "joining")
    BY <2>1, <2>2 DEF Conversation, Opens, Unheard, RequestType
  <2>. QED
    BY <1>1, <2>3, InHandAlone
<1>3. /\ UNCHANGED <<call, slots, accepted, a_pc, a_conn, a_response, socket_map>>
      /\ stream' = [stream EXCEPT ![d] = stream'[d]]
      /\ w_pc' = "scan" /\ Send(d, r)
  BY DEF Replied, NextSlot
<1>4. /\ \A c \in Conn \ {d} : stream'[c] = stream[c] /\ replies'[c] = replies[c]
                               /\ peer'[c] = peer[c]
  BY <1>3 DEF TypeOK, SocketsTypeOK, Send
<1>5. ASSUME NEW c \in Conn \ {d}
      PROVE  Untouched(c)
  BY <1>3, <1>4 DEF Untouched, InHand, Greeting, Unheard
<1>6. ~Greeting(d)'
  BY <1>2, <1>3 DEF Greeting
<1>7. CASE Ended(d)
  <2>1. peer'[d] = "reset"
    BY <1>3, <1>7 DEF Send, TypeOK, SocketsTypeOK
  <2>2. Informed(d)'
    BY <1>6, <2>1, EndedInformed DEF Ended
  <2>. QED
    BY <1>3, <1>5, <2>1, <2>2, OneInformed
<1>8. CASE ~Ended(d)
  <2>1. peer' = peer /\ replies'[d] = Append(<<>>, r)
    BY <1>2, <1>3, <1>8 DEF Send, TypeOK, SocketsTypeOK
  <2>2. replies'[d] # <<>> /\ Head(replies'[d]) = r
    BY <2>1, EmptySeq, AppendProperties
  <2>3. ASSUME d \in socket_map
        PROVE  Informed(d)'
    <3>1. Informed(d)
      BY <2>3 DEF AgreementInv
    <3>2. Publishes(d)' = Told(d)'
      BY <1>2, <1>3, <1>8, <2>2, <2>3, <3>1 DEF Informed, Told, Granted
    <3>3. Provides(d)' = ToldMethods(d)'
      BY <1>2, <1>3, <1>8, <2>2, <2>3, <3>1 DEF Informed, ToldMethods, Granted
    <3>. QED
      BY <1>2, <1>6, <1>8, <2>1, <3>1, <3>2, <3>3 DEF Informed
  <2>. QED
    BY <1>3, <1>5, <2>1, <2>3, OneInformed
<1>. QED
  BY <1>7, <1>8

(* Every handler tells the participant it serves exactly what it enters.   *)
LEMMA ServeAgreement ==
    ASSUME TypeOK, RegistryInvariant, ConversationInv, AgreementInv, Serve,
           UNCHANGED callVars
    PROVE  AgreementInv' \/ QuietStep
<1>1. CASE ContentEof
  BY <1>1, ReadAgreement
<1>2. ASSUME NEW d \in Conn, d = slots[cursor], InHand(d)
      PROVE  AgreementInv' \/ QuietStep
  <2>1. /\ w_pc = "content"
        /\ ~Ended(d) => /\ frame = call[d].type
                        /\ Follows(stream[d], 0, Body(call[d].type, call[d].arg))
    BY <1>2 DEF InHand, ConversationInv, Conversation, Matches
  <2>2. /\ \A response \in Response : Answer(response) \in Reply
        /\ {"OK", "DUPLICATE", "NOT_PUBLISHED", "INVALID", "EMPTY"} \subseteq Response
    BY Answers DEF Response
  <2>3. ASSUME NEW r \in Reply, Replied(d, r),
               UNCHANGED <<event_list, method_list>>,
               ~Ended(d) /\ call[d].type \in {"EVENT_REGISTER", "METHOD_PROVIDE"}
                   => r.response # "OK"
        PROVE  AgreementInv'
    <3>1. \A c \in Conn : Publishes(c)' = Publishes(c) /\ Provides(c)' = Provides(c)
      BY <2>3 DEF Publishes, Provides
    <3>2. \A c \in socket_map :
             c # d => Publishes(c)' = Publishes(c) /\ Provides(c)' = Provides(c)
      BY <3>1 DEF TypeOK, MasterTypeOK
    <3>. QED
      BY <1>2, <2>1, <2>3, <3>1, <3>2, AnswerAgreement
  <2>4. ASSUME NEW t \in Topic, EventRegister(t), d \in socket_map
        PROVE  AgreementInv'
    <3>1. /\ frame = "EVENT_REGISTER" /\ stream[d] # <<>> /\ Head(stream[d]) = Body(frame, t)
          /\ event_list[t] = None /\ event_list' = [event_list EXCEPT ![t] = d]
          /\ method_list' = method_list /\ Replied(d, Answer("OK"))
      BY <1>2, <2>4, RespondReplies DEF EventRegister, Serving, Content
    <3>2. ~Ended(d) => call[d].type = "EVENT_REGISTER" /\ call[d].arg = t
      <4>1. stream[d][1] = Body(frame, t) /\ 1 \in DOMAIN stream[d]
        BY <3>1, LenProperties, HeadTailProperties, EmptySeq DEF TypeOK, SocketsTypeOK
      <4>. QED
        BY <2>1, <3>1, <4>1 DEF Follows, Body
    <3>3. Publishes(d)' = Publishes(d) \cup {t} /\ Provides(d)' = Provides(d)
      BY <3>1 DEF Publishes, Provides, TypeOK, MasterTypeOK
    <3>4. \A c \in socket_map :
             c # d => Publishes(c)' = Publishes(c) /\ Provides(c)' = Provides(c)
      BY <3>1, ConstantsDistinct DEF Publishes, Provides, TypeOK, MasterTypeOK
    <3>5. Answer("OK").response = "OK" /\ Answer("OK") \in Reply
      BY <2>2 DEF Answer
    <3>. QED
      BY <1>2, <2>1, <3>1, <3>2, <3>3, <3>4, <3>5, AnswerAgreement
  <2>5. ASSUME NEW m \in Method, MethodProvide(m), d \in socket_map
        PROVE  AgreementInv'
    <3>1. /\ frame = "METHOD_PROVIDE" /\ stream[d] # <<>> /\ Head(stream[d]) = Body(frame, m)
          /\ method_list[m] = None /\ method_list' = [method_list EXCEPT ![m] = d]
          /\ event_list' = event_list /\ Replied(d, Answer("OK"))
      BY <1>2, <2>5, RespondReplies DEF MethodProvide, Serving, Content
    <3>2. ~Ended(d) => call[d].type = "METHOD_PROVIDE" /\ call[d].arg = m
      <4>1. stream[d][1] = Body(frame, m) /\ 1 \in DOMAIN stream[d]
        BY <3>1, LenProperties, HeadTailProperties, EmptySeq DEF TypeOK, SocketsTypeOK
      <4>. QED
        BY <2>1, <3>1, <4>1 DEF Follows, Body
    <3>3. Provides(d)' = Provides(d) \cup {m} /\ Publishes(d)' = Publishes(d)
      BY <3>1 DEF Publishes, Provides, TypeOK, MasterTypeOK
    <3>4. \A c \in socket_map :
             c # d => Publishes(c)' = Publishes(c) /\ Provides(c)' = Provides(c)
      BY <3>1, ConstantsDistinct DEF Publishes, Provides, TypeOK, MasterTypeOK
    <3>5. Answer("OK").response = "OK" /\ Answer("OK") \in Reply
      BY <2>2 DEF Answer
    <3>. QED
      BY <1>2, <2>1, <3>1, <3>2, <3>3, <3>4, <3>5, AnswerAgreement
  <2>6. ASSUME NEW t \in Topic, EventRegister(t) \/ EventDuplicate(t)
        PROVE  AgreementInv' \/ QuietStep
    <3>1. CASE EventRegister(t) /\ d \in socket_map
      BY <2>4, <3>1
    <3>2. CASE EventRegister(t) /\ d \notin socket_map
      BY <1>2, <3>2 DEF EventRegister, QuietStep, Cause
    <3>3. CASE EventDuplicate(t)
      BY <1>2, <2>2, <2>3, <3>3, RespondReplies DEF EventDuplicate, Content, Answer
    <3>. QED
      BY <2>6, <3>1, <3>2, <3>3
  <2>7. ASSUME NEW m \in Method, MethodProvide(m) \/ MethodDuplicate(m)
        PROVE  AgreementInv' \/ QuietStep
    <3>1. CASE MethodProvide(m) /\ d \in socket_map
      BY <2>5, <3>1
    <3>2. CASE MethodProvide(m) /\ d \notin socket_map
      BY <1>2, <3>2 DEF MethodProvide, QuietStep, Cause
    <3>3. CASE MethodDuplicate(m)
      BY <1>2, <2>2, <2>3, <3>3, RespondReplies DEF MethodDuplicate, Content, Answer
    <3>. QED
      BY <2>7, <3>1, <3>2, <3>3
  <2>8. ASSUME NEW t \in Topic, EventSubscribe(t)
        PROVE  AgreementInv'
    <3>1. PICK r \in Reply : Respond(d, r)
      BY <1>2, <2>2, <2>8 DEF EventSubscribe, Reply, TypeOK, MasterTypeOK
    <3>2. /\ stream[d] # <<>> /\ UNCHANGED <<event_list, method_list>>
          /\ frame = "EVENT_SUBSCRIBE"
      BY <1>2, <2>8 DEF EventSubscribe, Content, Serving
    <3>. QED
      BY <1>2, <2>1, <2>3, <3>1, <3>2, RespondReplies
  <2>9. ASSUME NEW m \in Method, MethodQuery(m)
        PROVE  AgreementInv'
    <3>1. PICK r \in Reply : Respond(d, r)
      BY <1>2, <2>2, <2>9 DEF MethodQuery, Reply, TypeOK, MasterTypeOK
    <3>2. /\ stream[d] # <<>> /\ UNCHANGED <<event_list, method_list>>
          /\ frame = "METHOD_QUERY"
      BY <1>2, <2>9 DEF MethodQuery, Content, Serving
    <3>. QED
      BY <1>2, <2>1, <2>3, <3>1, <3>2, RespondReplies
  <2>10. ASSUME NEW arg, DebugQuery(arg)
         PROVE  AgreementInv'
    <3>1. PICK r \in Reply : Respond(d, r)
      BY <1>2, <2>2, <2>10 DEF DebugQuery
    <3>2. /\ stream[d] # <<>> /\ UNCHANGED <<event_list, method_list>>
          /\ frame = "DEBUG"
      BY <1>2, <2>10 DEF DebugQuery, Content, Serving
    <3>. QED
      BY <1>2, <2>1, <2>3, <3>1, <3>2, RespondReplies
  <2>11. CASE InvalidRequest
    BY <1>2, <2>2, <2>3, <2>11, RespondReplies DEF InvalidRequest, Content, Answer
  <2>12. CASE GarbledContent
    <3>1. ASSUME NEW i \in Nat, LeftOver(d, i)
          PROVE  AgreementInv'
      <4>1. Answer("EMPTY") \in Reply /\ Answer("EMPTY").response # "OK"
        BY <2>2 DEF Answer
      <4>2. Replied(d, Answer("EMPTY")) /\ UNCHANGED <<event_list, method_list>>
        BY <3>1, LeftOverReplies DEF LeftOver
      <4>. QED
        BY <2>3, <4>1, <4>2
    <3>2. CASE Crash("parse_error")
      BY <3>2 DEF QuietStep, Cause
    <3>. QED
      BY <1>2, <2>12, <3>1, <3>2, GarbledOutcome
  <2>. QED
    BY <1>1, <2>6, <2>7, <2>8, <2>9, <2>10, <2>11, <2>12 DEF Serve
<1>3. w_pc = "content"
  BY DEF Serve, EventRegister, EventDuplicate, EventSubscribe, MethodProvide,
     MethodDuplicate, MethodQuery, DebugQuery, InvalidRequest, GarbledContent,
     ContentEof, Serving
<1>. QED
  BY <1>2, <1>3, ServedInHand

(* Who is registered will be told so, and owns nothing yet.                *)
LEMMA RegisterAgreement ==
    ASSUME TypeOK, RegistryInvariant, ConversationInv, AgreementInv,
           NEW n \in Name, Register(n), UNCHANGED callVars
    PROVE  AgreementInv'
<1>1. PICK d \in Conn : d = a_conn /\ Unheard(d) /\ d \in accepted \ socket_map
  BY DEF Register, Joining, TypeOK, MasterTypeOK, RegistryInvariant, AcceptorHolds, Unheard
<1>2. /\ UNCHANGED <<peer, replies, call, slots, accepted, a_conn, w_pc, cursor, frame,
                     event_list, method_list>>
      /\ \A c \in Conn \ {d} : stream'[c] = stream[c]
      /\ a_pc = "read" /\ a_pc' = "reply" /\ a_response' = "OK"
      /\ socket_map' = socket_map \cup {d}
  BY <1>1 DEF Register, Joining, JoinAnswer, TypeOK, SocketsTypeOK
<1>3. replies[d] = <<>> /\ peer[d] \in {"joining", "closed"}
  BY <1>1 DEF ConversationInv, Conversation, Opens
<1>4. ASSUME NEW c \in Conn \ {d}
      PROVE  Untouched(c) /\ ~Greeting(c)
  BY <1>1, <1>2 DEF Untouched, InHand, Greeting, Unheard
<1>5. \A c \in Conn : Publishes(c)' = Publishes(c) /\ Provides(c)' = Provides(c)
  BY <1>2 DEF Publishes, Provides
<1>6. Publishes(d) = {} /\ Provides(d) = {}
  BY <1>1, ConstantsDistinct DEF RegistryInvariant, OwnershipAgrees, Publishes, Provides
<1>7. Informed(d)'
  <2>1. peer[d] = "joining" => pub_list[d] = {} /\ provided_list[d] = {}
    BY DEF AgreementInv, Fresh
  <2>2. peer[d] = "joining" => Told(d)' = {} /\ ToldMethods(d)' = {}
    BY <1>2, <1>3, <2>1 DEF Told, ToldMethods
  <2>. QED
    BY <1>2, <1>3, <1>5, <1>6, <2>2 DEF Informed, Ended
<1>8. \A c \in socket_map :
         c # d => Publishes(c)' = Publishes(c) /\ Provides(c)' = Provides(c)
  BY <1>5 DEF TypeOK, MasterTypeOK
<1>. QED
  BY <1>1, <1>2, <1>4, <1>7, <1>8, OneInformed

(* A connection that is refused, or has ended before it joined, is not in  *)
(* the registry.                                                           *)
LEMMA RefuseAgreement ==
    ASSUME TypeOK, RegistryInvariant, ConversationInv, AgreementInv,
           \/ \E n \in Name : RefuseDuplicate(n)
           \/ RefuseVersion \/ RefuseInvalid \/ InitEof,
           UNCHANGED callVars
    PROVE  AgreementInv'
<1>1. PICK d \in Conn : d = a_conn /\ Unheard(d) /\ d \notin socket_map
  BY DEF RefuseDuplicate, RefuseVersion, RefuseInvalid, InitEof, Joining, TypeOK,
     MasterTypeOK, RegistryInvariant, AcceptorHolds, Unheard
<1>2. /\ UNCHANGED <<peer, replies, call, slots, accepted, w_pc, cursor, frame,
                     event_list, method_list, socket_map>>
      /\ \A c \in Conn \ {d} : stream'[c] = stream[c]
      /\ a_pc = "read" /\ a_pc' # "read" /\ a_conn' \in {d, None}
  BY <1>1 DEF RefuseDuplicate, RefuseVersion, RefuseInvalid, InitEof, Joining, Refuse,
     JoinAnswer, NextAccept, TypeOK, SocketsTypeOK
<1>3. ASSUME NEW c \in Conn \ {d}
      PROVE  Untouched(c) /\ ~Greeting(c)
  BY <1>1, <1>2, ConstantsDistinct DEF Untouched, InHand, Greeting, Unheard
<1>4. \A c \in socket_map :
         c # d => Publishes(c)' = Publishes(c) /\ Provides(c)' = Provides(c)
  BY <1>2 DEF Publishes, Provides, TypeOK, MasterTypeOK
<1>. QED
  BY <1>1, <1>2, <1>3, <1>4, OneInformed

(* Who is registered is told so.                                           *)
LEMMA GreetAgreement ==
    ASSUME TypeOK, ConversationInv, AgreementInv, JoinReply, UNCHANGED callVars
    PROVE  AgreementInv'
<1>1. PICK d \in Conn : d = a_conn /\ Greeting(d)
  BY DEF JoinReply, TypeOK, MasterTypeOK, Greeting
<1>2. /\ UNCHANGED <<call, slots, accepted, stream, w_pc, cursor, frame, socket_map,
                     event_list, method_list>>
      /\ a_pc = "reply" /\ a_pc' = "accept" /\ Send(d, Answer(a_response))
  BY <1>1 DEF JoinReply, NextAccept
<1>3. replies[d] = <<>> /\ peer[d] \in {"joining", "closed"}
  BY <1>1, GreetingAlone
<1>4. \A c \in Conn \ {d} : replies'[c] = replies[c] /\ peer'[c] = peer[c]
  BY <1>2 DEF TypeOK, SocketsTypeOK, Send
<1>5. ASSUME NEW c \in Conn \ {d}
      PROVE  Untouched(c) /\ ~Greeting(c)
  BY <1>1, <1>2, <1>4 DEF Untouched, InHand, Greeting, Unheard
<1>6. \A c \in Conn : Publishes(c)' = Publishes(c) /\ Provides(c)' = Provides(c)
  BY <1>2 DEF Publishes, Provides
<1>7. ASSUME d \in socket_map
      PROVE  Informed(d)'
  <2>1. Informed(d) /\ a_response = "OK"
    BY <1>1, <1>7 DEF AgreementInv, Informed
  <2>2. CASE Ended(d)
    <3>1. peer'[d] = "reset" /\ ~Greeting(d)'
      BY <1>2, <2>2 DEF Send, TypeOK, SocketsTypeOK, Greeting
    <3>. QED
      BY <3>1, EndedInformed DEF Ended
  <2>3. CASE ~Ended(d)
    <3>1. peer' = peer /\ peer[d] = "joining" /\ replies'[d] = Append(<<>>, Answer("OK"))
          /\ call[d].type = "INITIATION"
      BY <1>2, <1>3, <2>1, <2>3
         DEF Send, TypeOK, SocketsTypeOK, Ended, ConversationInv, Conversation, Opens
    <3>2. Answer("OK") \in Reply
      BY Answers DEF Response
    <3>3. Head(replies'[d]).response = "OK"
      BY <3>1, <3>2, EmptySeq, AppendProperties DEF Answer
    <3>4. Told(d)' = Told(d) /\ ToldMethods(d)' = ToldMethods(d)
      BY <1>2, <3>1 DEF Told, ToldMethods
    <3>. QED
      BY <1>2, <1>6, <2>1, <2>3, <3>1, <3>3, <3>4 DEF Informed, Granted, Ended, Greeting
  <2>. QED
    BY <2>2, <2>3
<1>8. /\ peer'[d] # "unused"
      /\ peer'[d] = "joining" => peer[d] = "joining"
  BY <1>2, <1>3 DEF Send, TypeOK, SocketsTypeOK
<1>9. \A c \in socket_map :
         c # d => Publishes(c)' = Publishes(c) /\ Provides(c)' = Provides(c)
  BY <1>6 DEF TypeOK, MasterTypeOK
<1>. QED
  BY <1>2, <1>5, <1>7, <1>8, <1>9, OneInformed

(* A participant that starts to join, or a call, has nothing unread.       *)
LEMMA AskAgreement ==
    ASSUME TypeOK, RegistryInvariant, ConversationInv, AgreementInv, NEW d \in Conn,
           \/ \E arg \in JoinArgs : Connect(d, arg)
           \/ \E r \in Requests : StartCall(d, r),
           UNCHANGED masterVars
    PROVE  AgreementInv'
<1>1. /\ UNCHANGED <<replies, pub_list, provided_list>>
      /\ \A c \in Conn \ {d} : peer'[c] = peer[c] /\ call'[c] = call[c]
      /\ \/ peer[d] = "unused" /\ peer'[d] = "joining"
         \/ peer'[d] = peer[d] /\ peer[d] \in {"up", "refused"} /\ call[d] = Idle
  BY DEF Connect, StartCall, WriteHeader, TypeOK, SocketsTypeOK, ClientTypeOK
<1>2. /\ UNCHANGED <<socket_map, event_list, method_list, a_response>>
      /\ \A c \in Conn : /\ Publishes(c)' = Publishes(c) /\ Provides(c)' = Provides(c)
                         /\ Greeting(c)' = Greeting(c)
  BY DEF masterVars, Publishes, Provides, Greeting
<1>3. peer[d] = "unused" => d \notin socket_map
  BY DEF RegistryInvariant, AcceptorHolds, ConversationInv, Conversation, Opens
<1>4. replies[d] = <<>> \/ peer[d] = "unused"
  <2>1. ASSUME peer[d] # "unused"
        PROVE  replies[d] = <<>>
    <3>1. Pending(d) = 0
      BY <1>1, <2>1 DEF ConversationInv, Conversation, AsksOnce, Ended
    <3>. QED
      BY <3>1, Counts DEF Pending, TypeOK
  <2>. QED
    BY <2>1
<1>5. ASSUME NEW c \in socket_map
      PROVE  Informed(c)'
  <2>1. c \in Conn /\ Informed(c)
    BY <1>5 DEF AgreementInv, TypeOK, MasterTypeOK
  <2>2. CASE c # d
    BY <1>1, <1>2, <2>1, <2>2, InformedKept
  <2>3. CASE c = d
    BY <1>1, <1>2, <1>3, <1>4, <1>5, <2>1, <2>3
       DEF Informed, Told, ToldMethods, Ended
  <2>. QED
    BY <2>2, <2>3
<1>. QED
  BY <1>1, <1>2, <1>5 DEF AgreementInv, Fresh

(* What is written and what is no answer changes nobody's mind.            *)
LEMMA WriteAgreement ==
    ASSUME TypeOK, AgreementInv, NEW d \in Conn, WriteBody(d) \/ KeepAlive(d),
           UNCHANGED masterVars
    PROVE  AgreementInv'
<1>1. /\ UNCHANGED <<peer, replies, pub_list, provided_list>>
      /\ \A c \in Conn : call'[c].type = call[c].type /\ call'[c].arg = call[c].arg
  BY DEF WriteBody, KeepAlive, TypeOK, ClientTypeOK, Call
<1>2. /\ UNCHANGED <<socket_map, event_list, method_list, a_response>>
      /\ \A c \in Conn : /\ Publishes(c)' = Publishes(c) /\ Provides(c)' = Provides(c)
                         /\ Greeting(c)' = Greeting(c)
  BY DEF masterVars, Publishes, Provides, Greeting
<1>3. ASSUME NEW c \in socket_map
      PROVE  Informed(c)'
  BY <1>1, <1>2, <1>3, InformedKept DEF AgreementInv, TypeOK, MasterTypeOK
<1>. QED
  BY <1>1, <1>2, <1>3 DEF AgreementInv, Fresh

(* The answer is read: what there was to tell is recorded.                 *)
LEMMA TakeAgreement ==
    ASSUME TypeOK, ConversationInv, AgreementInv, NEW d \in Conn,
           EndJoin(d) \/ EndCall(d), UNCHANGED masterVars
    PROVE  AgreementInv'
<1>1. /\ ~Ended(d) /\ replies[d] # <<>>
      /\ replies' = [replies EXCEPT ![d] = Tail(replies[d])]
      /\ call' = [call EXCEPT ![d] = Idle]
  BY DEF EndJoin, EndCall, TakeReply
<1>2. replies'[d] = <<>> /\ ~Greeting(d)
  BY <1>1, LastReply DEF TypeOK, SocketsTypeOK
<1>3. \A c \in Conn \ {d} :
         /\ peer'[c] = peer[c] /\ call'[c] = call[c] /\ replies'[c] = replies[c]
         /\ pub_list'[c] = pub_list[c] /\ provided_list'[c] = provided_list[c]
  BY DEF EndJoin, EndCall, TakeReply, Advertised, Provided, TypeOK, SocketsTypeOK,
     ClientTypeOK
<1>4. /\ UNCHANGED <<socket_map, event_list, method_list, a_response>>
      /\ \A c \in Conn : /\ Publishes(c)' = Publishes(c) /\ Provides(c)' = Provides(c)
                         /\ Greeting(c)' = Greeting(c)
  BY DEF masterVars, Publishes, Provides, Greeting
<1>5. ASSUME d \in socket_map
      PROVE  Informed(d)'
  <2>1. Informed(d)
    BY <1>5 DEF AgreementInv
  <2>2. pub_list'[d] = Told(d) /\ provided_list'[d] = ToldMethods(d)
    <3>1. CASE EndJoin(d)
      <4>1. call[d].type = "INITIATION"
        BY <3>1 DEF EndJoin, ConversationInv, Conversation, Opens
      <4>. QED
        BY <3>1, <4>1 DEF EndJoin, Told, ToldMethods
    <3>2. CASE EndCall(d)
      BY <1>1, <3>2 DEF EndCall, Advertised, Provided, Told, ToldMethods, TypeOK, ClientTypeOK
    <3>. QED
      BY <3>1, <3>2
  <2>3. peer'[d] \in {"up", "refused"} /\ peer'[d] # "refused"
    BY <1>1, <2>1 DEF EndJoin, EndCall, Informed, TypeOK, SocketsTypeOK
  <2>4. Told(d)' = pub_list'[d] /\ ToldMethods(d)' = provided_list'[d]
    BY <1>2 DEF Told, ToldMethods
  <2>. QED
    BY <1>1, <1>2, <1>4, <2>1, <2>2, <2>3, <2>4 DEF Informed
<1>6. Fresh(d)'
  BY DEF EndJoin, EndCall, Fresh, TypeOK, SocketsTypeOK
<1>7. ASSUME NEW c \in socket_map
      PROVE  Informed(c)'
  <2>1. c \in Conn /\ Informed(c)
    BY <1>7 DEF AgreementInv, TypeOK, MasterTypeOK
  <2>. QED
    BY <1>3, <1>4, <1>5, <1>7, <2>1, InformedKept
<1>. QED
  BY <1>3, <1>4, <1>6, <1>7 DEF AgreementInv, Fresh

(* Who ends has nothing to agree about.                                    *)
LEMMA EndAgreement ==
    ASSUME TypeOK, AgreementInv, NEW d \in Conn, End(d), UNCHANGED masterVars
    PROVE  AgreementInv'
<1>1. /\ peer'[d] \in {"closed", "reset"}
      /\ \A c \in Conn \ {d} :
            /\ peer'[c] = peer[c] /\ call'[c] = call[c] /\ replies'[c] = replies[c]
            /\ pub_list'[c] = pub_list[c] /\ provided_list'[c] = provided_list[c]
  BY DEF End, TypeOK, SocketsTypeOK, ClientTypeOK
<1>2. /\ UNCHANGED <<socket_map, event_list, method_list, a_response>>
      /\ \A c \in Conn : /\ Publishes(c)' = Publishes(c) /\ Provides(c)' = Provides(c)
                         /\ Greeting(c)' = Greeting(c)
  BY DEF masterVars, Publishes, Provides, Greeting
<1>3. ASSUME NEW c \in socket_map
      PROVE  Informed(c)'
  <2>1. c \in Conn /\ Informed(c)
    BY <1>3 DEF AgreementInv, TypeOK, MasterTypeOK
  <2>2. CASE c # d
    BY <1>1, <1>2, <2>1, <2>2, InformedKept
  <2>3. CASE c = d
    BY <1>1, <1>2, <2>1, <2>3, EndedInformed DEF Informed, Ended
  <2>. QED
    BY <2>2, <2>3
<1>. QED
  BY <1>1, <1>2, <1>3 DEF AgreementInv, Fresh

(* Every step keeps the agreement.                                         *)
LEMMA NextAgreement ==
    ASSUME TypeOK, RegistryInvariant, ConversationInv, AgreementInv, [Next]_vars
    PROVE  AgreementInv'
<1>1. CASE UNCHANGED vars
  BY <1>1 DEF AgreementInv, Fresh, Informed, Told, ToldMethods, Granted, Greeting, Ended,
     Publishes, Provides, vars, masterVars, clientVars
<1>2. ASSUME NEW d \in Conn, ClientStep(d)
      PROVE  AgreementInv'
  BY <1>2, AskAgreement, WriteAgreement, TakeAgreement, EndAgreement
     DEF ClientStep, ClientNext
<1>3. ASSUME MasterStep
      PROVE  AgreementInv'
  <2>0. UNCHANGED callVars
    BY <1>3 DEF MasterStep
  <2>1. CASE QuietStep
    BY <2>0, <2>1, QuietAgreement
  <2>2. ASSUME NEW i \in Slot, Read(i)
        PROVE  AgreementInv' \/ QuietStep
    BY <2>0, <2>2, ReadAgreement DEF Read, QuietStep
  <2>3. CASE Serve
    BY <2>0, <2>1, <2>3, ServeAgreement
  <2>4. CASE Acceptor
    BY <2>0, <2>1, <2>4, RegisterAgreement, RefuseAgreement, GreetAgreement
       DEF Acceptor, QuietStep
  <2>. QED
    BY <1>3, <2>1, <2>2, <2>3, <2>4 DEF MasterStep, MasterNext, Worker, QuietStep
<1>. QED
  BY <1>1, <1>2, <1>3 DEF Next

(* A registered participant was never told that it is refused, and one in  *)
(* no call has recorded as its own exactly the topics and methods that the *)
(* master says are its.                                                    *)
THEOREM Agreement == Spec => []ClientsAgree
<1>1. TypeOK /\ RegistryInvariant /\ ConversationInv /\ AgreementInv /\ [Next]_vars
        => AgreementInv'
  BY NextAgreement
<1>2. Spec => []AgreementInv
  BY <1>1, InitAgreement, TypeCorrect, RegistryCorrect, Conversations, PTL DEF Spec
<1>3. ASSUME TypeOK, ConversationInv, AgreementInv
      PROVE  ClientsAgree
  <2>1. ASSUME NEW c \in socket_map, peer[c] = "up", call[c] = Idle
        PROVE  pub_list[c] = Publishes(c) /\ provided_list[c] = Provides(c)
    <3>1. c \in Conn /\ Informed(c) /\ ~Ended(c)
      BY <1>3, <2>1 DEF AgreementInv, TypeOK, MasterTypeOK, Ended
    <3>2. Pending(c) = 0
      BY <1>3, <2>1, <3>1 DEF ConversationInv, Conversation, AsksOnce
    <3>3. replies[c] = <<>>
      BY <1>3, <3>1, <3>2, Counts DEF Pending, TypeOK
    <3>. QED
      BY <3>1, <3>3 DEF Informed, Told, ToldMethods
  <2>. QED
    BY <1>3, <2>1 DEF ClientsAgree, AgreementInv, Informed, Publishes, Provides
<1>. QED
  BY <1>2, <1>3, TypeCorrect, Conversations, PTL

-------------------------------------------------------------------------------
(* The slots of the worker.                                                *)

(* The slots in use.                                                       *)
Used == {i \in Slot : slots[i] # None}

(* Each slot in use, each name queued for one and the joining connection   *)
(* was accepted once.                                                      *)
Room ==
    /\ Cardinality(Used) + Len(new_q) + (IF a_pc = "read" THEN 1 ELSE 0)
          <= Cardinality(accepted)
    /\ Cardinality(accepted) <= FdLimit

(* Whom the worker has a slot for, or will have.                           *)
HasSlot(c) == \E i \in Slot : slots[i] = c
Queued(c) == \E k \in DOMAIN new_q : new_q[k] = name_of[c]

(* There is a slot for everyone that was ever accepted.                    *)
Enough == Cardinality(accepted) <= MaxConnections

(* Then nobody alive is lost in between.                                   *)
Served ==
    Enough => \A c \in socket_map : ~Ended(c) => HasSlot(c) \/ Queued(c)

(* The slots in use are finitely many, and so are the descriptors.         *)
LEMMA SlotCounts ==
    ASSUME MasterTypeOK
    PROVE  /\ IsFiniteSet(Slot) /\ Cardinality(Slot) = MaxConnections
           /\ \A S \in SUBSET Slot : IsFiniteSet(S) /\ Cardinality(S) \in Nat
           /\ Cardinality(Used) \in Nat /\ Len(new_q) \in Nat
           /\ IsFiniteSet(accepted) /\ Cardinality(accepted) \in Nat
<1>1. IsFiniteSet(Slot) /\ Cardinality(Slot) = MaxConnections
  BY MasterBounds, FS_Interval DEF Slot
<1>2. \A S \in SUBSET Slot : IsFiniteSet(S) /\ Cardinality(S) \in Nat
  BY <1>1, FS_Subset, FS_CardinalityType
<1>3. Used \in SUBSET Slot
  BY DEF Used
<1>4. IsFiniteSet(accepted) /\ Cardinality(accepted) \in Nat
  BY FiniteConstants, FS_Subset, FS_CardinalityType DEF MasterTypeOK
<1>5. Len(new_q) \in Nat
  BY LenProperties DEF MasterTypeOK
<1>. QED
  BY <1>1, <1>2, <1>3, <1>4, <1>5

(* Of some free slots one is the first.                                    *)
LEMMA FirstFreeExists ==
    ASSUME NEW j \in Slot, slots[j] = None
    PROVE  \E i \in Slot : FirstFree(i)
<1>. DEFINE Free == {i \in Slot : slots[i] = None}
<1>1. Free \subseteq Nat /\ Free # {}
  BY MasterBounds DEF Slot
<1>2. PICK i \in Free : \A k \in Free : ~ (<<k, i>> \in OpToRel(<, Nat))
  BY <1>1, NatLessThanWellFounded, WFMin
<1>3. \A k \in 1..(i - 1) : k \in Slot /\ k \in Nat /\ k < i
  BY MasterBounds DEF Slot
<1>4. \A k \in 1..(i - 1) : k \notin Free
  BY <1>1, <1>2, <1>3 DEF OpToRel
<1>. QED
  BY <1>3, <1>4 DEF FirstFree

(* While a name is queued for a slot, a slot is free.                      *)
LEMMA FreeSlot ==
    ASSUME MasterTypeOK, Room, Enough, new_q # <<>>
    PROVE  /\ \E j \in Slot : slots[j] = None
           /\ \E i \in Slot : FirstFree(i)
<1>1. Len(new_q) \in Nat /\ Len(new_q) > 0
  BY LenProperties, EmptySeq DEF MasterTypeOK
<1>2. Cardinality(Used) < MaxConnections
  BY <1>1, SlotCounts, MasterBounds DEF Room, Enough
<1>3. Used # Slot
  BY <1>2, SlotCounts, MasterBounds
<1>4. \E j \in Slot : slots[j] = None
  BY <1>3 DEF Used
<1>. QED
  BY <1>4, FirstFreeExists

(* Fewer slots in use, and no more names waiting, leave room.              *)
LEMMA RoomKept ==
    ASSUME MasterTypeOK, MasterTypeOK', Room, Used' \subseteq Used, UNCHANGED accepted,
           Len(new_q') <= Len(new_q), a_pc' = "read" => a_pc = "read"
    PROVE  Room'
<1>1. Used \in SUBSET Slot /\ Used' \in SUBSET Used
  BY DEF Used
<1>2. Cardinality(Used') <= Cardinality(Used) /\ Cardinality(Used') \in Nat
  BY <1>1, SlotCounts, FS_Subset
<1>3. Len(new_q') \in Nat
  BY LenProperties DEF MasterTypeOK
<1>. QED
  BY <1>2, <1>3, SlotCounts, MasterBounds DEF Room

(* A name from the queue takes at most one slot, and leaves the queue.     *)
LEMMA DrainNewRoom ==
    ASSUME MasterTypeOK, MasterTypeOK', Room, DrainNew
    PROVE  Room'
<1>1. PICK i \in Nat : \A j \in Slot : FirstFree(j) => j = i
  BY MasterBounds DEF FirstFree, Slot
<1>2. Used' \subseteq Used \cup {i}
  BY <1>1 DEF DrainNew, Used
<1>3. IsFiniteSet(Used) /\ Cardinality(Used) \in Nat /\ Cardinality(Used') \in Nat
  BY SlotCounts DEF Used
<1>4. /\ IsFiniteSet(Used \cup {i})
      /\ \/ Cardinality(Used \cup {i}) = Cardinality(Used)
         \/ Cardinality(Used \cup {i}) = Cardinality(Used) + 1
  BY <1>3, FS_AddElement
<1>5. Cardinality(Used') <= Cardinality(Used \cup {i})
  BY <1>2, <1>4, FS_Subset
<1>6. Cardinality(Used') <= Cardinality(Used) + 1
  BY <1>3, <1>4, <1>5
<1>7. Len(new_q') + 1 = Len(new_q) /\ Len(new_q) \in Nat /\ Len(new_q') \in Nat
  BY LenProperties, HeadTailProperties, EmptySeq DEF DrainNew, MasterTypeOK
<1>8. UNCHANGED <<accepted, a_pc>>
  BY DEF DrainNew
<1>. QED
  BY <1>3, <1>6, <1>7, <1>8, SlotCounts, MasterBounds DEF Room

(* The joining connection becomes a name in the queue.                     *)
LEMMA RegisterRoom ==
    ASSUME MasterTypeOK, MasterTypeOK', Room, NEW n \in Name, Register(n)
    PROVE  Room'
<1>1. /\ a_pc = "read" /\ a_pc' = "reply" /\ UNCHANGED <<accepted, slots>>
      /\ new_q' = Append(new_q, n)
  BY DEF Register, Joining, JoinAnswer
<1>2. Len(new_q') = Len(new_q) + 1 /\ Used' = Used
  BY <1>1, AppendProperties DEF MasterTypeOK, Used
<1>. QED
  BY <1>1, <1>2, SlotCounts, MasterBounds DEF Room

(* A descriptor is accepted while there is one.                            *)
LEMMA AcceptRoom ==
    ASSUME MasterTypeOK, MasterTypeOK', Room, NEW c \in Conn, Accept(c)
    PROVE  Room'
<1>1. /\ Cardinality(accepted) < FdLimit /\ c \notin accepted
      /\ a_pc = "accept" /\ accepted' = accepted \cup {c} /\ UNCHANGED <<new_q, slots>>
  BY DEF Accept
<1>2. Cardinality(accepted') = Cardinality(accepted) + 1 /\ Used' = Used
  BY <1>1, SlotCounts, FS_AddElement DEF Used
<1>. QED
  BY <1>1, <1>2, SlotCounts, MasterBounds DEF Room

(* Every other step of the master frees a slot, or takes none.             *)
LEMMA MasterRoom ==
    ASSUME TypeOK, MasterTypeOK', Room, MasterNext
    PROVE  Room'
<1>0. MasterTypeOK
  BY DEF TypeOK
<1>1. CASE Drain
  <2>1. CASE DrainNew
    BY <1>0, <2>1, DrainNewRoom
  <2>2. CASE DrainDead
    <3>1. Used' \subseteq Used
      BY <2>2 DEF DrainDead, ClearFirst, Used
    <3>2. UNCHANGED <<accepted, new_q, a_pc>>
      BY <2>2 DEF DrainDead
    <3>. QED
      BY <1>0, <3>1, <3>2, SlotCounts, RoomKept
  <2>3. CASE LockDead \/ DrainDeadUnknown \/ NoMoreDead \/ DrainNewUnknown \/ NoMoreNew
    <3>1. UNCHANGED <<accepted, new_q, a_pc, slots>>
      BY <2>3 DEF LockDead, DrainDeadUnknown, NoMoreDead, DrainNewUnknown, NoMoreNew, Crash
    <3>. QED
      BY <3>1 DEF Room, Used
  <2>. QED
    BY <1>1, <2>1, <2>2, <2>3 DEF Drain
<1>2. ASSUME NEW i \in Slot, Read(i)
      PROVE  Room'
  <2>1. UNCHANGED <<accepted, new_q, a_pc>>
    BY <1>2 DEF Read, ReadKeepAlive, ReadHeader, ReadMisaligned, ReadEof, ReadReset, Crash
  <2>2. slots' = slots \/ slots' = [slots EXCEPT ![i] = None]
    BY <1>2 DEF Read, ReadKeepAlive, ReadHeader, ReadMisaligned, ReadEof, ReadReset, Crash
  <2>3. Used' \subseteq Used
    BY <1>0, <2>2 DEF Used, MasterTypeOK
  <2>. QED
    BY <1>0, <2>1, <2>3, SlotCounts, RoomKept
<1>3. CASE Poll \/ ScanDone \/ Tick \/ Serve
  <2>1. UNCHANGED <<accepted, new_q, a_pc, slots>>
    BY <1>3, ServeAnswers DEF Poll, ScanDone, Tick, ContentEof, Crash, Respond, LeftOver
  <2>. QED
    BY <2>1 DEF Room, Used
<1>4. CASE Acceptor
  <2>1. ASSUME NEW c \in Conn, Accept(c)
        PROVE  Room'
    BY <1>0, <2>1, AcceptRoom
  <2>2. ASSUME NEW n \in Name, Register(n)
        PROVE  Room'
    BY <1>0, <2>2, RegisterRoom
  <2>3. CASE AcceptFails \/ InitEof \/ (\E n \in Name : RefuseDuplicate(n))
             \/ RefuseVersion \/ RefuseInvalid \/ JoinReply
    <3>1. UNCHANGED <<accepted, new_q, slots>> /\ (a_pc' = "read" => a_pc = "read")
      BY <2>3 DEF AcceptFails, InitEof, RefuseDuplicate, RefuseVersion, RefuseInvalid,
         JoinReply, Refuse, JoinAnswer, NextAccept, Crash
    <3>2. Used' = Used
      BY <3>1 DEF Used
    <3>. QED
      BY <1>0, <3>1, <3>2, SlotCounts, RoomKept
  <2>. QED
    BY <1>4, <2>1, <2>2, <2>3 DEF Acceptor
<1>. QED
  BY <1>1, <1>2, <1>3, <1>4 DEF MasterNext, Worker

(* The next name gets a slot, which is nobody else's.                      *)
LEMMA DrainNewServes ==
    ASSUME TypeOK, TypeOK', RegistryInvariant, Room, Served, Enough, DrainNew,
           NEW c \in socket_map, ~Ended(c)
    PROVE  HasSlot(c)' \/ Queued(c)'
<1>. DEFINE n == Head(new_q)
<1>1. PICK i \in Slot : FirstFree(i)
  BY FreeSlot DEF DrainNew, TypeOK
<1>2. /\ slots' = [j \in Slot |-> IF FirstFree(j) THEN participant_list[n] ELSE slots[j]]
      /\ new_q' = Tail(new_q) /\ new_q # <<>> /\ UNCHANGED name_of
  BY DEF DrainNew
<1>3. /\ Len(new_q) \in Nat /\ DOMAIN new_q = 1..Len(new_q) /\ n = new_q[1]
      /\ DOMAIN new_q' = 1..(Len(new_q) - 1)
      /\ \A k \in 1..(Len(new_q) - 1) : new_q'[k] = new_q[k + 1]
  BY <1>2, LenProperties, HeadTailProperties, EmptySeq DEF TypeOK, MasterTypeOK
<1>4. CASE HasSlot(c)
  <2>1. PICK j \in Slot : slots[j] = c
    BY <1>4 DEF HasSlot
  <2>2. slots'[j] = c
    BY <1>2, <2>1, ConstantsDistinct DEF FirstFree, TypeOK, MasterTypeOK
  <2>. QED
    BY <2>2 DEF HasSlot
<1>5. CASE Queued(c)
  <2>1. PICK k \in DOMAIN new_q : new_q[k] = name_of[c]
    BY <1>5 DEF Queued
  <2>2. CASE k = 1
    <3>1. participant_list[n] = c
      BY <1>3, <2>1, <2>2 DEF RegistryInvariant, RegistryAgrees
    <3>2. slots'[i] = c
      BY <1>1, <1>2, <3>1
    <3>. QED
      BY <3>2 DEF HasSlot
  <2>3. CASE k # 1
    <3>1. k - 1 \in DOMAIN new_q' /\ new_q'[k - 1] = name_of[c]
      BY <1>3, <2>1, <2>3
    <3>. QED
      BY <1>2, <3>1 DEF Queued
  <2>. QED
    BY <2>2, <2>3
<1>. QED
  BY <1>4, <1>5 DEF Served

(* Who joins is queued, behind those who are.                              *)
LEMMA RegisterServes ==
    ASSUME TypeOK, RegistryInvariant, Served, Enough, NEW n \in Name, Register(n),
           NEW c \in socket_map', ~Ended(c)
    PROVE  HasSlot(c)' \/ Queued(c)'
<1>1. /\ new_q' = Append(new_q, n) /\ slots' = slots
      /\ name_of' = [name_of EXCEPT ![a_conn] = n] /\ socket_map' = socket_map \cup {a_conn}
      /\ a_conn \in Conn \ socket_map
  BY DEF Register, Joining, RegistryInvariant, AcceptorHolds, TypeOK, MasterTypeOK
<1>2. /\ Len(new_q) \in Nat /\ DOMAIN new_q = 1..Len(new_q)
      /\ DOMAIN new_q' = 1..(Len(new_q) + 1)
      /\ \A k \in 1..Len(new_q) : new_q'[k] = new_q[k]
      /\ new_q'[Len(new_q) + 1] = n
  BY <1>1, LenProperties, AppendProperties DEF TypeOK, MasterTypeOK
<1>3. CASE c = a_conn
  <2>1. name_of'[c] = n /\ Len(new_q) + 1 \in DOMAIN new_q'
    BY <1>1, <1>2, <1>3 DEF TypeOK, MasterTypeOK
  <2>. QED
    BY <1>2, <2>1 DEF Queued
<1>4. CASE c # a_conn
  <2>1. c \in socket_map /\ name_of'[c] = name_of[c]
    BY <1>1, <1>4 DEF TypeOK, MasterTypeOK
  <2>2. HasSlot(c) \/ Queued(c)
    BY <2>1 DEF Served
  <2>3. Queued(c) => Queued(c)'
    BY <1>2, <2>1 DEF Queued
  <2>. QED
    BY <1>1, <2>2, <2>3 DEF HasSlot
<1>. QED
  BY <1>3, <1>4

(* Who has ended does not come back.                                       *)
LEMMA EndedStays ==
    ASSUME TypeOK, [Next]_vars, NEW c \in Conn, ~Ended(c)'
    PROVE  ~Ended(c)
<1>1. ASSUME NEW x, NEW r, Send(x, r), Ended(c)
      PROVE  peer'[c] \in {"closed", "reset"}
  BY <1>1 DEF Send, Ended, TypeOK, SocketsTypeOK
<1>. SUFFICES ASSUME Ended(c) PROVE peer'[c] \in {"closed", "reset"}
  BY DEF Ended
<1>2. ASSUME NEW d \in Conn, ClientStep(d)
      PROVE  peer'[c] \in {"closed", "reset"}
  BY <1>2 DEF ClientStep, ClientNext, Connect, StartCall, WriteBody, EndJoin, EndCall,
     KeepAlive, End, TakeReply, Ended, TypeOK, SocketsTypeOK
<1>3. CASE MasterStep
  <2>1. CASE Serve
    <3>1. \/ UNCHANGED peer
          \/ \E r : Send(slots[cursor], r)
      BY <2>1, ServeAnswers DEF ContentEof, Crash, Respond, LeftOver
    <3>. QED
      BY <1>1, <3>1 DEF Ended
  <2>2. CASE Drain \/ Poll \/ ScanDone \/ Tick
    BY <2>2 DEF Drain, LockDead, DrainDead, DrainDeadUnknown, NoMoreDead, DrainNew,
       DrainNewUnknown, NoMoreNew, Crash, Poll, ScanDone, Tick, Ended
  <2>3. CASE \E i \in Slot : Read(i)
    BY <2>3 DEF Read, ReadKeepAlive, ReadHeader, ReadMisaligned, ReadEof, ReadReset,
       Crash, Ended, TypeOK, SocketsTypeOK
  <2>4. CASE Acceptor
    <3>1. \/ UNCHANGED peer
          \/ \E r : Send(a_conn, r)
      BY <2>4 DEF Acceptor, Accept, AcceptFails, InitEof, Register, RefuseDuplicate,
         RefuseVersion, RefuseInvalid, Refuse, JoinReply, Crash
    <3>. QED
      BY <1>1, <3>1 DEF Ended
  <2>. QED
    BY <1>3, <2>1, <2>2, <2>3, <2>4 DEF MasterStep, MasterNext, Worker
<1>4. CASE UNCHANGED vars
  BY <1>4 DEF vars, clientVars, Ended
<1>. QED
  BY <1>2, <1>3, <1>4 DEF Next

(* A socket that was accepted stays so, and takes one descriptor.          *)
LEMMA EnoughBefore ==
    ASSUME TypeOK, TypeOK', [Next]_vars, Enough'
    PROVE  Enough
<1>1. CASE UNCHANGED accepted
  BY <1>1 DEF Enough
<1>2. ASSUME NEW c \in Conn, Accept(c)
      PROVE  Enough
  <2>1. accepted \subseteq accepted'
    BY <1>2 DEF Accept
  <2>2. IsFiniteSet(accepted') /\ Cardinality(accepted') \in Nat
    BY FiniteConstants, FS_Subset, FS_CardinalityType DEF TypeOK, MasterTypeOK
  <2>3. Cardinality(accepted) <= Cardinality(accepted') /\ Cardinality(accepted) \in Nat
    BY <2>1, <2>2, FS_Subset, FS_CardinalityType
  <2>. QED
    BY <2>2, <2>3, MasterBounds DEF Enough
<1>3. CASE MasterStep /\ \A c \in Conn : ~Accept(c)
  <2>1. CASE Serve
    BY <1>1, <2>1, ServeAnswers DEF ContentEof, Crash, Respond, LeftOver
  <2>2. CASE Drain \/ Poll \/ ScanDone \/ Tick
    BY <1>1, <2>2 DEF Drain, LockDead, DrainDead, DrainDeadUnknown, NoMoreDead, DrainNew,
       DrainNewUnknown, NoMoreNew, Crash, Poll, ScanDone, Tick
  <2>3. CASE \E i \in Slot : Read(i)
    BY <1>1, <2>3 DEF Read, ReadKeepAlive, ReadHeader, ReadMisaligned, ReadEof, ReadReset,
       Crash
  <2>4. CASE Acceptor
    BY <1>1, <1>3, <2>4 DEF Acceptor, AcceptFails, InitEof, Register, RefuseDuplicate,
       RefuseVersion, RefuseInvalid, Refuse, JoinAnswer, NextAccept, JoinReply, Crash
  <2>. QED
    BY <1>3, <2>1, <2>2, <2>3, <2>4 DEF MasterStep, MasterNext, Worker
<1>4. CASE UNCHANGED masterVars
  BY <1>1, <1>4 DEF masterVars
<1>. QED
  BY <1>2, <1>3, <1>4 DEF Next, MasterStep, MasterNext, Acceptor, ClientStep, vars

(* Nobody alive loses its slot or its place in the queue.                  *)
LEMMA NextServes ==
    ASSUME TypeOK, TypeOK', RegistryInvariant, Room, Served, [Next]_vars
    PROVE  Served'
<1>. SUFFICES ASSUME Enough', NEW c \in socket_map', ~Ended(c)'
              PROVE  HasSlot(c)' \/ Queued(c)'
  BY DEF Served
<1>1. c \in Conn /\ ~Ended(c) /\ Enough
  BY EndedStays, EnoughBefore DEF TypeOK, MasterTypeOK
<1>2. ASSUME c \in socket_map, UNCHANGED <<new_q, name_of>>,
             \A j \in Slot : slots[j] = c => slots'[j] = c
      PROVE  HasSlot(c)' \/ Queued(c)'
  BY <1>1, <1>2 DEF Served, HasSlot, Queued
<1>3. CASE UNCHANGED masterVars
  BY <1>2, <1>3 DEF masterVars
<1>4. CASE MasterStep
  <2>1. CASE DrainNew
    BY <1>1, <2>1, DrainNewServes DEF DrainNew
  <2>2. CASE DrainDead
    <3>1. c \in socket_map /\ c # participant_list[Head(dead_q)]
          /\ new_q' = new_q /\ name_of'[c] = name_of[c]
      BY <1>1, <2>2 DEF DrainDead, Destroy, TypeOK, MasterTypeOK
    <3>2. \A j \in Slot : slots[j] = c => slots'[j] = c
      BY <2>2, <3>1 DEF DrainDead, ClearFirst
    <3>. QED
      BY <1>1, <3>1, <3>2 DEF Served, HasSlot, Queued
  <2>3. CASE LockDead \/ DrainDeadUnknown \/ NoMoreDead \/ DrainNewUnknown \/ NoMoreNew
             \/ Poll \/ ScanDone \/ Tick
    <3>1. UNCHANGED <<socket_map, slots, new_q, name_of>>
      BY <2>3 DEF LockDead, DrainDeadUnknown, NoMoreDead, DrainNewUnknown, NoMoreNew,
         Poll, ScanDone, Tick, Crash
    <3>. QED
      BY <1>2, <3>1
  <2>4. ASSUME NEW i \in Slot, Read(i)
        PROVE  HasSlot(c)' \/ Queued(c)'
    <3>1. /\ UNCHANGED <<socket_map, new_q, name_of>>
          /\ \/ slots' = slots
             \/ slots' = [slots EXCEPT ![i] = None] /\ peer[slots[i]] = "closed"
      BY <2>4 DEF Read, ReadKeepAlive, ReadHeader, ReadMisaligned, ReadEof, ReadReset, Crash
    <3>2. \A j \in Slot : slots[j] = c => slots'[j] = c
      BY <1>1, <3>1 DEF Ended, TypeOK, MasterTypeOK
    <3>. QED
      BY <1>2, <3>1, <3>2
  <2>5. CASE Serve
    <3>1. UNCHANGED <<socket_map, slots, new_q, name_of>>
      BY <2>5, ServeAnswers DEF ContentEof, Crash, Respond, LeftOver
    <3>. QED
      BY <1>2, <3>1
  <2>6. CASE Acceptor
    <3>1. ASSUME NEW n \in Name, Register(n)
          PROVE  HasSlot(c)' \/ Queued(c)'
      BY <1>1, <3>1, RegisterServes
    <3>2. CASE \A n \in Name : ~Register(n)
      <4>1. UNCHANGED <<socket_map, slots, new_q, name_of>>
        BY <2>6, <3>2 DEF Acceptor, Accept, AcceptFails, InitEof, RefuseDuplicate,
           RefuseVersion, RefuseInvalid, Refuse, JoinReply, Crash
      <4>. QED
        BY <1>2, <4>1
    <3>. QED
      BY <3>1, <3>2
  <2>. QED
    BY <1>4, <2>1, <2>2, <2>3, <2>4, <2>5, <2>6 DEF MasterStep, MasterNext, Worker, Drain
<1>. QED
  BY <1>3, <1>4 DEF Next, ClientStep, vars

(* Before the first connection no slot is used and nobody is registered.   *)
LEMMA InitRoom == Init => Room /\ Served
<1>. SUFFICES ASSUME Init PROVE Room /\ Served
  OBVIOUS
<1>1. Used = {} /\ new_q = <<>> /\ a_pc = "accept" /\ accepted = {} /\ socket_map = {}
  BY DEF Init, MasterInit, Used
<1>2. Cardinality(Used) = 0 /\ Len(new_q) = 0 /\ Cardinality(accepted) = 0
  BY <1>1, FS_EmptySet, EmptySeq
<1>. QED
  BY <1>1, <1>2, MasterBounds DEF Room, Served

(* No slot is used twice over, and nobody alive is lost for want of one.   *)
LEMMA RoomServed == Spec => [](Room /\ Served)
<1>1. TypeOK /\ TypeOK' /\ Room /\ [Next]_vars => Room'
  <2>. SUFFICES ASSUME TypeOK, TypeOK', Room, [Next]_vars
                PROVE  Room'
    OBVIOUS
  <2>1. CASE UNCHANGED masterVars
    BY <2>1 DEF masterVars, Room, Used
  <2>2. CASE MasterStep
    BY <2>2, MasterRoom DEF MasterStep, TypeOK
  <2>. QED
    BY <2>1, <2>2 DEF Next, ClientStep, vars
<1>2. TypeOK /\ TypeOK' /\ RegistryInvariant /\ Room /\ Served /\ [Next]_vars => Served'
  BY NextServes
<1>. QED
  BY <1>1, <1>2, InitRoom, TypeCorrect, RegistryCorrect, PTL DEF Spec
===============================================================================
