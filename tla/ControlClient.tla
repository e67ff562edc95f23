---------------------------- MODULE ControlClient -----------------------------
(***************************************************************************)
(* A participant's end of its control connection: UBusRuntime::init(), the *)
(* thread that sends keep-alives, and the calls advertise_event(),         *)
(* subscribe_event(), provide_method(), call_method() and the debugger's   *)
(* query_debug_info(), as far as they speak to the master.                 *)
(*                                                                         *)
(* Nothing in the class protects control_sock_: the keep-alive thread may  *)
(* write between any two writes of a call.  One thread of the application  *)
(* makes the calls, one after the other, as in the programs of test/.      *)
(***************************************************************************)
EXTENDS ControlSockets

CONSTANTS
    JoinArgs,       \* contents of joining frames
    Requests,       \* [type, arg] of the calls an application makes
    MaxUnread       \* bound: keep-alives a connection holds unread

ASSUME ClientArguments ==
    /\ JoinArgs \subseteq Name \cup {WrongVersion, Malformed}
    /\ Requests \subseteq [type : RequestType, arg : Argument]
    /\ \A r \in Requests :
          \/ r.type \in {"EVENT_REGISTER", "EVENT_SUBSCRIBE"}
                /\ r.arg \in Topic \cup {Malformed}
          \/ r.type \in {"METHOD_PROVIDE", "METHOD_QUERY"}
                /\ r.arg \in Method \cup {Malformed}
          \/ r.type = "DEBUG" /\ r.arg \in {None, Malformed}
    /\ MaxUnread \in Nat

VARIABLES
    call,               \* [Conn -> the call in progress, and how far it is]
    pub_list,           \* [Conn -> the topics that are keys of pub_list_]
    provided_list       \* [Conn -> the methods that are keys of method_list_]

callVars == <<call, pub_list, provided_list>>
clientVars == <<socketVars, callVars>>

Idle == [pc |-> "idle", type |-> "DEBUG", arg |-> None]

Call == [pc : {"idle", "body", "wait"}, type : FrameType, arg : Argument]

(* The types of the participants' calls and lists.                         *)
ClientTypeOK ==
    /\ call \in [Conn -> Call]
    /\ pub_list \in [Conn -> SUBSET Argument]
    /\ provided_list \in [Conn -> SUBSET Argument]

ClientInit ==
    /\ call = [c \in Conn |-> Idle]
    /\ pub_list = [c \in Conn |-> {}]
    /\ provided_list = [c \in Conn |-> {}]

Write(c, chunk) == stream' = [stream EXCEPT ![c] = Append(@, chunk)]

(* writen() of the header; the body is still to come.                      *)
WriteHeader(c, type, arg) ==
    /\ Write(c, Header(type))
    /\ call' = [call EXCEPT ![c] = [pc |-> "body", type |-> type, arg |-> arg]]

Connect(c, arg) ==
    /\ peer[c] = "unused"
    /\ peer' = [peer EXCEPT ![c] = "joining"]
    /\ WriteHeader(c, "INITIATION", arg)
    /\ UNCHANGED <<replies, pub_list, provided_list>>

(* An application may ignore that init() failed and make calls anyway.     *)
StartCall(c, r) ==
    /\ peer[c] \in {"up", "refused"}
    /\ call[c] = Idle
    /\ WriteHeader(c, r.type, r.arg)
    /\ UNCHANGED <<peer, replies, pub_list, provided_list>>

WriteBody(c) ==
    /\ ~Ended(c)
    /\ call[c].pc = "body"
    /\ Write(c, Body(call[c].type, call[c].arg))
    /\ call' = [call EXCEPT ![c].pc = "wait"]
    /\ UNCHANGED <<peer, replies, pub_list, provided_list>>

(* Mutation: the answer is looked at and left in the socket.               *)
PeekReply(c) ==
    /\ ~Ended(c)
    /\ call[c].pc = "wait" /\ replies[c] # <<>>
    /\ call' = [call EXCEPT ![c] = Idle]
    /\ UNCHANGED replies

(* readn() of the answer, which the caller waits for.                      *)
TakeReply(c) ==
    /\ ~Ended(c)
    /\ call[c].pc = "wait" /\ replies[c] # <<>>
    /\ replies' = [replies EXCEPT ![c] = Tail(@)]
    /\ call' = [call EXCEPT ![c] = Idle]

(* Mutation: a duplicate passes for a success.                             *)
GrantedOrDuplicate(c) == Head(replies[c]).response \in {"OK", "DUPLICATE"}

Granted(c) == Head(replies[c]).response = "OK"

(* The threads of the runtime start only when the master answered OK.      *)
EndJoin(c) ==
    /\ peer[c] = "joining"
    /\ TakeReply(c)
    /\ peer' = [peer EXCEPT ![c] = IF Granted(c) THEN "up" ELSE "refused"]
    /\ UNCHANGED <<stream, pub_list, provided_list>>

(* advertise_event() and provide_method() record what they were granted.   *)
Advertised(c) ==
    IF call[c].type = "EVENT_REGISTER" /\ Granted(c)
    THEN [pub_list EXCEPT ![c] = @ \cup {call[c].arg}]
    ELSE pub_list

Provided(c) ==
    IF call[c].type = "METHOD_PROVIDE" /\ Granted(c)
    THEN [provided_list EXCEPT ![c] = @ \cup {call[c].arg}]
    ELSE provided_list

EndCall(c) ==
    /\ peer[c] \in {"up", "refused"}
    /\ TakeReply(c)
    /\ pub_list' = Advertised(c)
    /\ provided_list' = Provided(c)
    /\ UNCHANGED <<peer, stream>>

Unread(c) ==
    Cardinality({i \in DOMAIN stream[c] : stream[c][i].type = "KEEP_ALIVE"})

KeepAlive(c) ==
    /\ peer[c] = "up"
    /\ Unread(c) < MaxUnread
    /\ Write(c, Header("KEEP_ALIVE"))
    /\ UNCHANGED <<peer, replies, callVars>>

(* The process ends, by itself or not; its kernel closes the connection,   *)
(* or resets it when there is an answer nobody read.                       *)
End(c) ==
    /\ peer[c] \in {"joining", "up", "refused"}
    /\ peer' = [peer EXCEPT ![c] = IF replies[c] = <<>> THEN "closed" ELSE "reset"]
    /\ replies' = [replies EXCEPT ![c] = <<>>]
    /\ call' = [call EXCEPT ![c] = Idle]
    /\ pub_list' = [pub_list EXCEPT ![c] = {}]
    /\ provided_list' = [provided_list EXCEPT ![c] = {}]
    /\ UNCHANGED stream

ClientNext(c) ==
    \/ \E arg \in JoinArgs : Connect(c, arg)
    \/ \E r \in Requests : StartCall(c, r)
    \/ WriteBody(c) \/ EndJoin(c) \/ EndCall(c) \/ KeepAlive(c) \/ End(c)
===============================================================================
