------------------------------ MODULE UBusMaster ------------------------------
(***************************************************************************)
(* The U-Bus master: three threads that share the registry.                *)
(*                                                                         *)
(*   message worker  process_control_message(): drains the two queues,     *)
(*                   polls the control connections, serves one frame of    *)
(*                   each readable one, sleeps, and starts again           *)
(*   acceptor        accept_new_connection(): registers who joins          *)
(*   watchdog        keep_alive_worker(): declares the silent ones dead    *)
(*                                                                         *)
(* The locks appear as guards.  The worker holds unprocessed_dead_mtx_     *)
(* while w_pc is "dead" and unprocessed_new_mtx_ while it is "new"; every  *)
(* other critical section is a single action.  poll() is taken at the      *)
(* moment it returns: the shared lock it holds until then only delays the  *)
(* acceptor, and changes nothing that the worker or poll() reads.          *)
(*                                                                         *)
(* An exception that leaves a thread, a null dereference, a signal without *)
(* a handler and the return of run() all end the process: "status" then    *)
(* names the cause and nothing more happens.                               *)
(***************************************************************************)
EXTENDS ControlSockets, SequencesExt

CONSTANTS
    MaxConnections,     \* max_connections_, the length of poll_fd_list
    FdLimit,            \* connections the process has descriptors for
    MaxDead             \* bound: length of unprocessed_dead_participants_

ASSUME MasterBounds ==
    MaxConnections \in Nat /\ FdLimit \in Nat /\ MaxDead \in Nat

VARIABLES
    status,             \* "running", or what ended the process
    (* UBusMaster's members *)
    participant_list,   \* [Name -> Conn or None], the socket of a participant
    socket_map,         \* the keys of socket_participant_mapping_
    name_of,            \* UBusParticipantInfo, by socket: name,
    published,          \*   published_topic_list,
    provided,           \*   method_list,
    watchdog,           \*   watchdog_counter, a uint8_t
    event_list,         \* [Topic -> Conn or None], the publisher
    method_list,        \* [Method -> Conn or None], the provider
    new_q,              \* unprocessed_new_participants_
    dead_q,             \* unprocessed_dead_participants_
    (* the message worker's locals *)
    slots,              \* poll_fd_list[i].fd, None for -1
    revents,            \* whether poll_fd_list[i].revents has POLLIN
    w_pc,               \* where it is
    cursor,             \* i, the slot it scans
    frame,              \* message_type of the frame whose content it reads
    (* the acceptor's locals *)
    accepted,           \* descriptors accept() has returned
    a_pc,               \* where it is
    a_conn,             \* fd
    a_response          \* response

infoVars == <<name_of, published, provided, watchdog>>
ownerVars == <<event_list, method_list>>
registryVars == <<participant_list, socket_map, infoVars, ownerVars>>
pollVars == <<slots, revents>>
workerVars == <<w_pc, cursor, frame>>
acceptVars == <<accepted, a_pc, a_conn, a_response>>

masterVars == <<status, registryVars, new_q, dead_q, pollVars, workerVars,
                acceptVars>>

Slot == 1..MaxConnections

Cause == {"out_of_range", "null_deref", "parse_error", "stack", "sigpipe",
          "exited"}

Running == status = "running"

Participants == {n \in Name : participant_list[n] # None}

(* The types of the master; the acceptor holds a socket while it serves.   *)
MasterTypeOK ==
    /\ status \in {"running"} \cup Cause
    /\ participant_list \in [Name -> Conn \cup {None}]
    /\ socket_map \in SUBSET Conn
    /\ name_of \in [Conn -> Name \cup {None}]
    /\ published \in [Conn -> SUBSET Topic]
    /\ provided \in [Conn -> SUBSET Method]
    /\ watchdog \in [Conn -> 0..255]
    /\ event_list \in [Topic -> Conn \cup {None}]
    /\ method_list \in [Method -> Conn \cup {None}]
    /\ new_q \in Seq(Name)
    /\ dead_q \in Seq(Name)
    /\ slots \in [Slot -> Conn \cup {None}]
    /\ revents \in [Slot -> BOOLEAN]
    /\ w_pc \in {"top", "dead", "new", "poll", "scan", "content"}
    /\ cursor \in Nat
    /\ frame \in RequestType \cup {None}
    /\ accepted \in SUBSET Conn
    /\ a_pc \in {"accept", "read", "reply"}
    /\ a_conn \in Conn \cup {None} /\ (a_pc # "accept" => a_conn \in Conn)
    /\ a_response \in Response

MasterInit ==
    /\ status = "running"
    /\ participant_list = [n \in Name |-> None]
    /\ socket_map = {}
    /\ name_of = [c \in Conn |-> None]
    /\ published = [c \in Conn |-> {}]
    /\ provided = [c \in Conn |-> {}]
    /\ watchdog = [c \in Conn |-> 0]
    /\ event_list = [t \in Topic |-> None]
    /\ method_list = [m \in Method |-> None]
    /\ new_q = <<>> /\ dead_q = <<>>
    /\ slots = [i \in Slot |-> None]
    /\ revents = [i \in Slot |-> FALSE]
    /\ w_pc = "top" /\ cursor = 1 /\ frame = None
    /\ accepted = {} /\ a_pc = "accept" /\ a_conn = None /\ a_response = "EMPTY"

-------------------------------------------------------------------------------
(* Ending, and writing a reply.                                            *)

Crash(cause) ==
    /\ status' = cause
    /\ UNCHANGED <<registryVars, new_q, dead_q, pollVars, workerVars,
                   acceptVars, socketVars>>

(***************************************************************************)
(* A reply is written header first, content second.  When the participant  *)
(* has ended, the first write may already fail or provoke the reset that   *)
(* makes the second one raise SIGPIPE, for which the master installs no    *)
(* handler; the writes may also both be over before the reset arrives.     *)
(***************************************************************************)
Send(c, r) ==
    \/ /\ ~Ended(c)
       /\ replies' = [replies EXCEPT ![c] = Append(@, r)]
       /\ UNCHANGED <<status, peer>>
    \/ /\ Ended(c)
       /\ peer' = [peer EXCEPT ![c] = "reset"]
       /\ status' \in {"running", "sigpipe"}
       /\ UNCHANGED replies

-------------------------------------------------------------------------------
(* The message worker: the dead, then the new.                             *)

LockDead ==
    /\ Running
    /\ w_pc = "top"
    /\ w_pc' = "dead"
    /\ UNCHANGED <<status, registryVars, new_q, dead_q, pollVars, cursor, frame,
                   acceptVars, socketVars>>

(* The first slot that holds c is freed, any other keeps it.               *)
ClearFirst(c) ==
    [i \in Slot |-> IF slots[i] = c /\ \A j \in 1..(i-1) : slots[j] # c
                    THEN None ELSE slots[i]]

(* Entries are erased by key, whoever event_list_ says the publisher is.   *)
EraseEvents(c) ==
    [t \in Topic |-> IF t \in published[c] THEN None ELSE event_list[t]]

(* Mutations: the entries of a dead owner are left, or all are erased.     *)
KeepsMethods(c) == method_list
ErasesAllMethods(c) == [m \in Method |-> None]

EraseMethods(c) ==
    [m \in Method |-> IF m \in provided[c] THEN None ELSE method_list[m]]

(* Mutation: the record survives its participant.                          *)
KeepsRecord(c) == UNCHANGED infoVars

(* Nothing refers to the UBusParticipantInfo of c any more.                *)
Destroy(c) ==
    /\ name_of' = [name_of EXCEPT ![c] = None]
    /\ published' = [published EXCEPT ![c] = {}]
    /\ provided' = [provided EXCEPT ![c] = {}]
    /\ watchdog' = [watchdog EXCEPT ![c] = 0]

DrainDead ==
    LET n == Head(dead_q)
        c == participant_list[n]
    IN  /\ Running
        /\ w_pc = "dead" /\ dead_q # <<>>
        /\ c # None
        /\ slots' = ClearFirst(c)
        /\ event_list' = EraseEvents(c)
        /\ method_list' = EraseMethods(c)
        /\ participant_list' = [participant_list EXCEPT ![n] = None]
        /\ socket_map' = socket_map \ {c}
        /\ Destroy(c)
        /\ dead_q' = Tail(dead_q)
        /\ UNCHANGED <<status, new_q, revents, workerVars, acceptVars,
                       socketVars>>

(* participant_list_.at() throws for a name that is gone.                  *)
DrainDeadUnknown ==
    /\ Running
    /\ w_pc = "dead" /\ dead_q # <<>>
    /\ participant_list[Head(dead_q)] = None
    /\ Crash("out_of_range")

(* Mutation: the queue of the new is not looked at.                        *)
NewLeftWaiting ==
    /\ Running
    /\ w_pc = "dead" /\ dead_q = <<>>
    /\ w_pc' = "poll"
    /\ UNCHANGED <<status, registryVars, new_q, dead_q, pollVars, cursor, frame,
                   acceptVars, socketVars>>

NoMoreDead ==
    /\ Running
    /\ w_pc = "dead" /\ dead_q = <<>>
    /\ w_pc' = "new"
    /\ UNCHANGED <<status, registryVars, new_q, dead_q, pollVars, cursor, frame,
                   acceptVars, socketVars>>

(* Mutation: the test for a free slot is missing.                          *)
FirstSlot(i) == i = 1

FirstFree(i) == slots[i] = None /\ \A j \in 1..(i-1) : slots[j] # None

DrainNew ==
    LET c == participant_list[Head(new_q)]
    IN  /\ Running
        /\ w_pc = "new" /\ new_q # <<>>
        /\ c = None => \A i \in Slot : slots[i] # None
        /\ slots' = [i \in Slot |-> IF FirstFree(i) THEN c ELSE slots[i]]
        /\ revents' = [i \in Slot |-> ~FirstFree(i) /\ revents[i]]
        /\ new_q' = Tail(new_q)
        /\ UNCHANGED <<status, registryVars, dead_q, workerVars, acceptVars,
                       socketVars>>

DrainNewUnknown ==
    /\ Running
    /\ w_pc = "new" /\ new_q # <<>>
    /\ participant_list[Head(new_q)] = None
    /\ \E i \in Slot : slots[i] = None
    /\ Crash("out_of_range")

NoMoreNew ==
    /\ Running
    /\ w_pc = "new" /\ new_q = <<>>
    /\ w_pc' = "poll"
    /\ UNCHANGED <<status, registryVars, new_q, dead_q, pollVars, cursor, frame,
                   acceptVars, socketVars>>

-------------------------------------------------------------------------------
(* The message worker: poll() and the scan of the slots.                   *)

Readable(c) == stream[c] # <<>> \/ Ended(c)

(* Mutation: the bound of the polled slots is one too small.               *)
PolledButOne == {i \in Slot : i < Cardinality(Participants)}

(* nfds is the number of participants, wherever their slots are.           *)
Polled == {i \in Slot : i <= Cardinality(Participants)}

PollIn(i) == slots[i] # None /\ Readable(slots[i])

(* poll() leaves the revents of the slots from nfds on as they were.       *)
Poll ==
    /\ Running
    /\ w_pc = "poll"
    /\ revents' = [i \in Slot |-> IF i \in Polled THEN PollIn(i) ELSE revents[i]]
    /\ w_pc' = IF \E i \in Polled : PollIn(i) THEN "scan" ELSE "top"
    /\ UNCHANGED <<status, registryVars, new_q, dead_q, slots, cursor, frame,
                   acceptVars, socketVars>>

ToServe(i) == i >= cursor /\ revents[i] /\ slots[i] # None

(* Slot i is the next one the scan stops at.                               *)
AtSlot(i) ==
    /\ Running
    /\ w_pc = "scan"
    /\ ToServe(i) /\ \A j \in 1..(i-1) : ~ToServe(j)

NextSlot(i) == w_pc' = "scan" /\ cursor' = i + 1 /\ frame' = None

(* The loop body ends with a usleep, and the next round starts.            *)
ScanDone ==
    /\ Running
    /\ w_pc = "scan"
    /\ \A i \in Slot : ~ToServe(i)
    /\ w_pc' = "top" /\ cursor' = 1
    /\ UNCHANGED <<status, registryVars, new_q, dead_q, pollVars, frame,
                   acceptVars, socketVars>>

Consume(c) == stream' = [stream EXCEPT ![c] = Tail(@)]

(* operator[] makes a null entry for a socket that has none.               *)
KnownOrNull(c) == status' = IF c \in socket_map THEN "running" ELSE "null_deref"

ReadKeepAlive(i) ==
    LET c == slots[i]
    IN  /\ AtSlot(i)
        /\ stream[c] # <<>> /\ Head(stream[c]) = Header("KEEP_ALIVE")
        /\ KnownOrNull(c)
        /\ watchdog' = [watchdog EXCEPT ![c] = 0]
        /\ Consume(c)
        /\ NextSlot(i)
        /\ UNCHANGED <<participant_list, socket_map, name_of, published, provided,
                       ownerVars, new_q, dead_q, pollVars, acceptVars, peer,
                       replies>>

(* Every other frame has a content, which readn() waits for.               *)
ReadHeader(i) ==
    LET c == slots[i]
    IN  /\ AtSlot(i)
        /\ stream[c] # <<>> /\ Head(stream[c]).part = "header"
        /\ Head(stream[c]).type \in RequestType
        /\ frame' = Head(stream[c]).type
        /\ Consume(c)
        /\ w_pc' = "content" /\ cursor' = i
        /\ UNCHANGED <<status, registryVars, new_q, dead_q, pollVars, acceptVars,
                       peer, replies>>

(* Content taken for a header gives a length no stack can hold.            *)
ReadMisaligned(i) ==
    LET c == slots[i]
    IN  /\ AtSlot(i)
        /\ stream[c] # <<>> /\ Head(stream[c]).part = "body"
        /\ Crash("stack")

ReadEof(i) ==
    LET c == slots[i]
    IN  /\ AtSlot(i)
        /\ stream[c] = <<>> /\ peer[c] = "closed"
        /\ slots' = [slots EXCEPT ![i] = None]
        /\ NextSlot(i)
        /\ UNCHANGED <<status, registryVars, new_q, dead_q, revents, acceptVars,
                       socketVars>>

(***************************************************************************)
(* read() fails with ECONNRESET; as a size_t its result passes for a whole *)
(* header, and the buffer holds whatever the stack held: a type that is    *)
(* ignored, a keep-alive, or a length no stack can hold.  The error is     *)
(* reported once, the next read() returns 0.                               *)
(***************************************************************************)
ReadReset(i) ==
    LET c == slots[i]
    IN  /\ AtSlot(i)
        /\ stream[c] = <<>> /\ peer[c] = "reset"
        /\ \/ UNCHANGED <<status, watchdog>>
           \/ KnownOrNull(c) /\ watchdog' = [watchdog EXCEPT ![c] = 0]
           \/ status' = "stack" /\ UNCHANGED watchdog
        /\ peer' = [peer EXCEPT ![c] = "closed"]
        /\ NextSlot(i)
        /\ UNCHANGED <<participant_list, socket_map, name_of, published, provided,
                       ownerVars, new_q, dead_q, pollVars, acceptVars, stream,
                       replies>>

-------------------------------------------------------------------------------
(* The message worker: the handlers of the frames with a content.          *)

Serving(type) == Running /\ w_pc = "content" /\ frame = type

Content(c, arg) == stream[c] # <<>> /\ Head(stream[c]) = Body(frame, arg)

(* The answer to c, and the end of the loop body for its slot.             *)
Respond(c, r) ==
    /\ Send(c, r)
    /\ Consume(c)
    /\ NextSlot(cursor)
    /\ UNCHANGED <<participant_list, socket_map, name_of, watchdog, new_q, dead_q,
                   pollVars, acceptVars>>

EventRegister(t) ==
    LET c == slots[cursor]
    IN  /\ Serving("EVENT_REGISTER") /\ Content(c, t)
        /\ event_list[t] = None
        /\ IF c \in socket_map
           THEN /\ event_list' = [event_list EXCEPT ![t] = c]
                /\ published' = [published EXCEPT ![c] = @ \cup {t}]
                /\ Respond(c, Answer("OK"))
                /\ UNCHANGED <<method_list, provided>>
           ELSE Crash("null_deref")

EventDuplicate(t) ==
    LET c == slots[cursor]
    IN  /\ Serving("EVENT_REGISTER") /\ Content(c, t)
        /\ event_list[t] # None
        /\ Respond(c, Answer("DUPLICATE"))
        /\ UNCHANGED <<ownerVars, published, provided>>

(* Mutation: a subscriber to a topic nobody publishes waits for one.       *)
EventSubscribeWaits(t) ==
    LET c == slots[cursor]
    IN  /\ Serving("EVENT_SUBSCRIBE") /\ Content(c, t)
        /\ event_list[t] # None
        /\ Respond(c, [response |-> "OK", at |-> event_list[t]])
        /\ UNCHANGED <<ownerVars, published, provided>>

(* The publisher's address goes to the subscriber, which connects to it.   *)
EventSubscribe(t) ==
    LET c == slots[cursor]
    IN  /\ Serving("EVENT_SUBSCRIBE") /\ Content(c, t)
        /\ Respond(c, IF event_list[t] = None THEN Answer("NOT_PUBLISHED")
                      ELSE [response |-> "OK", at |-> event_list[t]])
        /\ UNCHANGED <<ownerVars, published, provided>>

MethodProvide(m) ==
    LET c == slots[cursor]
    IN  /\ Serving("METHOD_PROVIDE") /\ Content(c, m)
        /\ method_list[m] = None
        /\ IF c \in socket_map
           THEN /\ method_list' = [method_list EXCEPT ![m] = c]
                /\ provided' = [provided EXCEPT ![c] = @ \cup {m}]
                /\ Respond(c, Answer("OK"))
                /\ UNCHANGED <<event_list, published>>
           ELSE Crash("null_deref")

MethodDuplicate(m) ==
    LET c == slots[cursor]
    IN  /\ Serving("METHOD_PROVIDE") /\ Content(c, m)
        /\ method_list[m] # None
        /\ Respond(c, Answer("DUPLICATE"))
        /\ UNCHANGED <<ownerVars, published, provided>>

MethodQuery(m) ==
    LET c == slots[cursor]
    IN  /\ Serving("METHOD_QUERY") /\ Content(c, m)
        /\ Respond(c, IF method_list[m] = None THEN Answer("NOT_PUBLISHED")
                      ELSE [response |-> "OK", at |-> method_list[m]])
        /\ UNCHANGED <<ownerVars, published, provided>>

InvalidRequest ==
    LET c == slots[cursor]
    IN  /\ \E type \in RequestType \ {"DEBUG"} : Serving(type)
        /\ Content(c, Malformed)
        /\ Respond(c, Answer("INVALID"))
        /\ UNCHANGED <<ownerVars, published, provided>>

(* Mutation: a query that names no listing is not answered.                *)
DebugQueryIgnored(arg) ==
    LET c == slots[cursor]
    IN  /\ Serving("DEBUG") /\ Content(c, arg)
        /\ IF arg = Malformed THEN UNCHANGED <<status, peer, replies>>
           ELSE Send(c, Answer("OK"))
        /\ Consume(c)
        /\ NextSlot(cursor)
        /\ UNCHANGED <<registryVars, new_q, dead_q, pollVars, acceptVars>>

(* One of the three listings; what it is asked for is not told apart.      *)
DebugQuery(arg) ==
    LET c == slots[cursor]
    IN  /\ Serving("DEBUG") /\ Content(c, arg)
        /\ Respond(c, Answer(IF arg = Malformed THEN "EMPTY" ELSE "OK"))
        /\ UNCHANGED <<ownerVars, published, provided>>

(* readn() waits for as many bytes as the header announced, which it has   *)
(* when the content has come; i is where that is.                          *)
ContentAt(c, i) ==
    stream[c][i].part = "body" /\ \A j \in 1..(i-1) : stream[c][j].part = "header"

Incomplete(c) == \A i \in DOMAIN stream[c] : stream[c][i].part = "header"

(***************************************************************************)
(* Keep-alives that were written between the header of the frame and its   *)
(* content are the first bytes readn() takes: what it returns is no JSON,  *)
(* and as many bytes of the content stay in the stream (a content is       *)
(* longer than the keep-alives before it, which have 8 bytes each).  Only  *)
(* process_debug_message() catches the exception.                          *)
(***************************************************************************)
GarbledContent ==
    LET c == slots[cursor]
    IN  /\ Running
        /\ w_pc = "content"
        /\ \E i \in 2..Len(stream[c]) :
              /\ ContentAt(c, i)
              /\ IF frame = "DEBUG"
                 THEN /\ Send(c, Answer("EMPTY"))
                      /\ stream' = [stream EXCEPT ![c] = SubSeq(@, i, Len(@))]
                      /\ NextSlot(cursor)
                      /\ UNCHANGED <<registryVars, new_q, dead_q, pollVars,
                                     acceptVars>>
                 ELSE Crash("parse_error")

(***************************************************************************)
(* The participant closes before its content is complete: readn() returns  *)
(* the keep-alives that came in its place, and they are dropped.  readn()  *)
(* of a reset connection would return -1, as a size_t more than enough,    *)
(* and the handler would run on an uninitialized buffer, here and in       *)
(* InitEof: no participant resets a connection at that point               *)
(* (NoReadFailsMidFrame).                                                  *)
(***************************************************************************)
ContentEof ==
    LET c == slots[cursor]
    IN  /\ Running
        /\ w_pc = "content"
        /\ Incomplete(c) /\ peer[c] = "closed"
        /\ stream' = [stream EXCEPT ![c] = <<>>]
        /\ NextSlot(cursor)
        /\ UNCHANGED <<status, registryVars, new_q, dead_q, pollVars, acceptVars,
                       peer, replies>>

-------------------------------------------------------------------------------
(* The acceptor.                                                           *)

Accept(c) ==
    /\ Running
    /\ a_pc = "accept" /\ Cardinality(accepted) < FdLimit
    /\ peer[c] # "unused" /\ c \notin accepted
    /\ accepted' = accepted \cup {c}
    /\ a_conn' = c
    /\ a_pc' = "read"
    /\ UNCHANGED <<status, registryVars, new_q, dead_q, pollVars, workerVars,
                   a_response, socketVars>>

(* EMFILE ends the loop, and with it run() and the process.                *)
AcceptFails ==
    /\ Running
    /\ a_pc = "accept" /\ Cardinality(accepted) >= FdLimit
    /\ Crash("exited")

NextAccept == a_pc' = "accept" /\ a_conn' = None /\ a_response' = "EMPTY"

(* The participant closes before its joining frame is complete.  When only *)
(* the content is missing it is parsed all the same: an uninitialized      *)
(* buffer, in which the calls just made have left no JSON; the exception   *)
(* is caught.                                                              *)
InitEof ==
    /\ Running
    /\ a_pc = "read"
    /\ Len(stream[a_conn]) < 2 /\ peer[a_conn] = "closed"
    /\ NextAccept
    /\ UNCHANGED <<status, registryVars, new_q, dead_q, pollVars, workerVars,
                   accepted, socketVars>>

(* The joining frame of a_conn has come, and its content is arg.           *)
Joining(arg) ==
    /\ Running
    /\ a_pc = "read"
    /\ Len(stream[a_conn]) >= 2
    /\ stream[a_conn][2] = Body("INITIATION", arg)
    /\ stream' = [stream EXCEPT ![a_conn] = SubSeq(@, 3, Len(@))]

(* Mutation: the descriptor is dropped before the answer is written.       *)
JoinAnswerDropsFd(r) ==
    /\ a_pc' = "reply"
    /\ a_response' = r
    /\ a_conn' = None
    /\ UNCHANGED accepted

JoinAnswer(r) ==
    /\ a_pc' = "reply"
    /\ a_response' = r
    /\ UNCHANGED <<accepted, a_conn>>

(* unprocessed_new_participants_mtx_ is free.                              *)
NewFree == w_pc # "new"

Register(n) ==
    /\ Joining(n) /\ NewFree
    /\ participant_list[n] = None
    /\ participant_list' = [participant_list EXCEPT ![n] = a_conn]
    /\ socket_map' = socket_map \cup {a_conn}
    /\ name_of' = [name_of EXCEPT ![a_conn] = n]
    /\ new_q' = Append(new_q, n)
    /\ JoinAnswer("OK")
    /\ UNCHANGED <<status, published, provided, watchdog, ownerVars, dead_q,
                   pollVars, workerVars, peer, replies>>

Refuse(r) ==
    /\ JoinAnswer(r)
    /\ UNCHANGED <<status, registryVars, new_q, dead_q, pollVars, workerVars,
                   peer, replies>>

RefuseDuplicate(n) ==
    /\ Joining(n) /\ NewFree
    /\ participant_list[n] # None
    /\ Refuse("DUPLICATE")

RefuseVersion == Joining(WrongVersion) /\ NewFree /\ Refuse("VERSION_MISMATCH")

(* A joining frame that lacks a field is refused without any lock.         *)
RefuseInvalid == Joining(Malformed) /\ Refuse("INVALID")

JoinReply ==
    /\ Running
    /\ a_pc = "reply"
    /\ Send(a_conn, Answer(a_response))
    /\ NextAccept
    /\ UNCHANGED <<registryVars, new_q, dead_q, pollVars, workerVars, accepted,
                   stream>>

-------------------------------------------------------------------------------
(* The watchdog thread.                                                    *)

(* Mutation: only participants that have a slot are counted.               *)
TickedPolled(c) ==
    IF \E i \in Slot : slots[i] = c THEN (watchdog[c] + 1) % 256 ELSE watchdog[c]

Ticked(c) ==
    IF \E n \in Participants : participant_list[n] = c
    THEN (watchdog[c] + 1) % 256
    ELSE watchdog[c]

Silent == {n \in Participants : Ticked(participant_list[n]) >= 3}

(* The silent are queued in the order of an unordered_map, which is any.   *)
Tick ==
    /\ Running
    /\ w_pc # "dead"
    /\ Len(dead_q) + Cardinality(Silent) <= MaxDead
    /\ watchdog' = [c \in Conn |-> Ticked(c)]
    /\ \E order \in SetToSeqs(Silent) : dead_q' = dead_q \o order
    /\ UNCHANGED <<status, participant_list, socket_map, name_of, published,
                   provided, ownerVars, new_q, pollVars, workerVars, acceptVars,
                   socketVars>>

-------------------------------------------------------------------------------
Drain == LockDead \/ DrainDead \/ DrainDeadUnknown \/ NoMoreDead
            \/ DrainNew \/ DrainNewUnknown \/ NoMoreNew

Read(i) == ReadKeepAlive(i) \/ ReadHeader(i) \/ ReadMisaligned(i)
            \/ ReadEof(i) \/ ReadReset(i)

Serve ==
    \/ \E t \in Topic : EventRegister(t) \/ EventDuplicate(t) \/ EventSubscribe(t)
    \/ \E m \in Method : MethodProvide(m) \/ MethodDuplicate(m) \/ MethodQuery(m)
    \/ \E arg \in {None, Malformed} : DebugQuery(arg)
    \/ InvalidRequest \/ GarbledContent \/ ContentEof

Worker == Drain \/ Poll \/ (\E i \in Slot : Read(i)) \/ ScanDone \/ Serve

Acceptor ==
    \/ \E c \in Conn : Accept(c)
    \/ AcceptFails \/ InitEof
    \/ \E n \in Name : Register(n) \/ RefuseDuplicate(n)
    \/ RefuseVersion \/ RefuseInvalid \/ JoinReply

MasterNext == Worker \/ Acceptor \/ Tick
===============================================================================
