---------------------------- MODULE ControlSockets ----------------------------
(***************************************************************************)
(* The control connections between U-Bus participants and the master.      *)
(*                                                                         *)
(* A connection is named by the descriptor accept() gives it in the        *)
(* master.  Nothing in src/ ever closes one of those descriptors, so a     *)
(* descriptor is handed out once and never reused: Conn is the master's    *)
(* descriptor table, and one element of it is one connection for good.     *)
(*                                                                         *)
(* The two byte streams of a connection are sequences of chunks, a chunk   *)
(* being what one call of writen() writes: a frame is a header chunk,      *)
(* followed by a body chunk when its data_length is not 0.  The kernel     *)
(* keeps the order of the writes and loses none while both ends are open.  *)
(***************************************************************************)
EXTENDS Naturals, Sequences, FiniteSets

CONSTANTS
    Name,           \* names participants join under
    Conn,           \* descriptors of control connections, in the master
    Topic,          \* event topics
    Method,         \* method names
    None,           \* no descriptor, no name, no argument
    WrongVersion,   \* content of a joining frame with another api_version
    Malformed       \* content that lacks a field the handler asks for

ASSUME ConstantsDistinct ==
    /\ None \notin Conn \cup Name \cup Topic \cup Method
    /\ WrongVersion \notin Conn \cup Name \cup Topic \cup Method \cup {None}
    /\ Malformed \notin Conn \cup Name \cup Topic \cup Method
                          \cup {None, WrongVersion}

ASSUME FiniteConstants == IsFiniteSet(Name) /\ IsFiniteSet(Conn)

VARIABLES
    peer,           \* [Conn -> PeerState], the participant's end
    stream,         \* [Conn -> Seq(Chunk)], written by it, unread by the master
    replies         \* [Conn -> Seq(Reply)], written by the master, unread by it

socketVars == <<peer, stream, replies>>

(***************************************************************************)
(* The requests a participant makes on its control connection; each frame  *)
(* of these types has a body, FRAME_KEEP_ALIVE has none.                   *)
(***************************************************************************)
RequestType ==
    {"EVENT_REGISTER", "EVENT_SUBSCRIBE", "METHOD_PROVIDE", "METHOD_QUERY",
     "DEBUG"}

FrameType == RequestType \cup {"INITIATION", "KEEP_ALIVE"}

Argument == Name \cup Topic \cup Method \cup {None, WrongVersion, Malformed}

Chunk == [part: {"header", "body"}, type: FrameType, arg: Argument]

Header(type) == [part |-> "header", type |-> type, arg |-> None]
Body(type, arg) == [part |-> "body", type |-> type, arg |-> arg]

Response ==
    {"OK", "DUPLICATE", "INVALID", "NOT_PUBLISHED", "VERSION_MISMATCH", "EMPTY"}

(* "at" is the participant a subscriber or a caller is sent to. *)
Reply == [response: Response, at: Conn \cup {None}]

Answer(response) == [response |-> response, at |-> None]

(***************************************************************************)
(* A participant that ends before it has read all its replies resets the   *)
(* connection, otherwise it closes it.                                     *)
(***************************************************************************)
PeerState == {"unused", "joining", "up", "refused", "closed", "reset"}

Ended(c) == peer[c] \in {"closed", "reset"}

(* The types of the connections.                                           *)
SocketsTypeOK ==
    /\ peer \in [Conn -> PeerState]
    /\ stream \in [Conn -> Seq(Chunk)]
    /\ replies \in [Conn -> Seq(Reply)]

SocketsInit ==
    /\ peer = [c \in Conn |-> "unused"]
    /\ stream = [c \in Conn |-> <<>>]
    /\ replies = [c \in Conn |-> <<>>]
===============================================================================
