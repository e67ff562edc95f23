----------------------------- MODULE Participant ------------------------------
(***************************************************************************)
(* A process that uses the runtime, seen from the other participants: the  *)
(* thread of the application, which makes one call of the runtime at a     *)
(* time, and the listening thread (start_listening_socket()), which serves *)
(* one link after the other, runs the callbacks of methods itself and      *)
(* answers.                                                                *)
(*                                                                         *)
(* The master is the Directory that its registry implements: a request to  *)
(* the master takes effect in one action, and what the answer leads to is  *)
(* another.  The master may forget a process at any moment, also one that  *)
(* lives; it does not answer a process it has forgotten.                   *)
(***************************************************************************)
EXTENDS DataLinks, SequencesExt

CONSTANTS
    Name,           \* names participants join under
    NameOf,         \* [Proc -> Name], the argument of init()
    Wishes,         \* [by, op, arg] of the calls the applications make
    Mortal,         \* processes that may end
    Forgettable     \* bound: processes the master may forget

Op == {"advertise", "publish", "subscribe", "provide", "call"}

ASSUME ParticipantConstants ==
    /\ None \notin Name
    /\ NameOf \in [Proc -> Name]
    /\ Wishes \subseteq [by : Proc, op : Op, arg : Topic \cup Method]
    /\ Mortal \subseteq Proc /\ Forgettable \subseteq Proc

VARIABLES
    member, publisher, provider,    \* the master's directory
    proc,           \* [Proc -> {"absent", "up", "ended"}]
    app,            \* [Proc -> what the application's thread is doing]
    lis,            \* [Proc -> what the listening thread is doing]
    backlog         \* [Proc -> Seq(Link)], connected and not yet accepted

Master == INSTANCE Directory WITH Conn <- Proc

directoryVars == <<member, publisher, provider>>
participantVars == <<linkVars, directoryVars, proc, app, lis, backlog>>

Up(p) == proc[p] = "up"

(* What a call outside of the links is at: "advertise" and "provide" are   *)
(* granted and not recorded yet; "walk" and "erase" are publish_event().   *)
AtRest == [op |-> "idle", arg |-> None]

Free == [pc |-> "accept", link |-> NoLink, ok |-> FALSE, nested |-> NoLink]

Activity ==
    [op : {"idle", "advertise", "provide", "walk", "erase"},
     arg : Topic \cup Method \cup {None}]

Listener ==
    [pc : {"starting", "accept", "read", "callback", "header", "body"},
     link : Link \cup {NoLink}, ok : BOOLEAN, nested : Link \cup {NoLink}]

(* The types of the threads; who is up has a name at most one may use.     *)
ParticipantTypeOK ==
    /\ LinksTypeOK
    /\ member \in [Name -> Proc \cup {None}]
    /\ publisher \in [Topic -> Proc \cup {None}]
    /\ provider \in [Method -> Proc \cup {None}]
    /\ proc \in [Proc -> {"absent", "up", "ended"}]
    /\ app \in [Proc -> Activity]
    /\ lis \in [Proc -> Listener]
    /\ \A p \in Proc : lis[p].pc \notin {"starting", "accept"} => lis[p].link # NoLink
    /\ backlog \in [Proc -> Seq(Link)]

ParticipantInit ==
    /\ LinksInit
    /\ Master!Init
    /\ proc = [p \in Proc |-> "absent"]
    /\ app = [p \in Proc |-> AtRest]
    /\ lis = [p \in Proc |-> [Free EXCEPT !.pc = "starting"]]
    /\ backlog = [p \in Proc |-> <<>>]

-------------------------------------------------------------------------------
(* Joining, and being forgotten.                                           *)

(* init() has been answered OK and starts the threads.                     *)
Join(p) ==
    /\ proc[p] = "absent"
    /\ Master!Join(NameOf[p], p)
    /\ proc' = [proc EXCEPT ![p] = "up"]
    /\ UNCHANGED <<linkVars, app, lis, backlog>>

Forget(p) ==
    /\ p \in Forgettable
    /\ Master!Leave(p)
    /\ UNCHANGED <<linkVars, proc, app, lis, backlog>>

-------------------------------------------------------------------------------
(* The thread that makes a call.                                           *)

Busy(p) == \E l \in Link : link[l].from = p /\ link[l].by = "app"
                             /\ stage[l] \in InProgress

Idle(p) == Up(p) /\ app[p] = AtRest /\ ~Busy(p)

Starts(p, op, arg) == Idle(p) /\ [by |-> p, op |-> op, arg |-> arg] \in Wishes

Heard(p) == p \in Master!Members

(* Mutation: the answer of the master is not looked at.                    *)
AsksAnyhow(p, by, type, arg, owner) ==
    /\ Heard(p)
    /\ Fresh \in Link
    /\ link' = [link EXCEPT ![Fresh] =
                  [from |-> p, to |-> owner, by |-> by, type |-> type, arg |-> arg]]
    /\ Advance(Fresh, "connect")
    /\ UNCHANGED <<unread, down, near, far>>

(* The master names the owner, and a socket is made to connect to it.      *)
Ask(p, by, type, arg, owner) ==
    /\ Heard(p)
    /\ owner # None
    /\ Fresh \in Link
    /\ link' = [link EXCEPT ![Fresh] =
                  [from |-> p, to |-> owner, by |-> by, type |-> type, arg |-> arg]]
    /\ Advance(Fresh, "connect")
    /\ UNCHANGED <<unread, down, near, far>>

(* The socket is bound before the process joins, but connections are       *)
(* refused until the listening thread has called listen(), and again when  *)
(* the process has ended.                                                  *)
Listens(p) == Up(p) /\ lis[p].pc # "starting"

(* connect(), and the header of the request.                               *)
Connect(l) ==
    /\ stage[l] = "connect" /\ Listens(link[l].to)
    /\ Advance(l, "body")
    /\ unread' = [unread EXCEPT ![l] = 1]
    /\ backlog' = [backlog EXCEPT ![link[l].to] = Append(@, l)]
    /\ UNCHANGED <<link, down, near, far, directoryVars, proc, app, lis>>

ConnectRefused(l) ==
    /\ stage[l] = "connect" /\ ~Listens(link[l].to)
    /\ Advance(l, "false")
    /\ UNCHANGED <<link, unread, down, near, far, directoryVars, proc, app, lis,
                   backlog>>

(* A write to a connection that was reset takes its error away: the next   *)
(* read finds the end of the stream.                                       *)
WriteBody(l) ==
    /\ stage[l] = "body"
    /\ Advance(l, "wait")
    /\ unread' = [unread EXCEPT ![l] = IF far[l] = "open" THEN 2 ELSE @]
    /\ far' = [far EXCEPT ![l] = IF @ = "reset" THEN "closed" ELSE @]
    /\ UNCHANGED <<link, down, near, directoryVars, proc, app, lis, backlog>>

-------------------------------------------------------------------------------
(* The listening thread.                                                   *)

Listen(p) ==
    /\ Up(p) /\ lis[p].pc = "starting"
    /\ lis' = [lis EXCEPT ![p] = Free]
    /\ UNCHANGED <<linkVars, directoryVars, proc, app, backlog>>

Accept(p) ==
    /\ Up(p) /\ lis[p].pc = "accept" /\ backlog[p] # <<>>
    /\ lis' = [lis EXCEPT ![p].pc = "read", ![p].link = Head(backlog[p])]
    /\ backlog' = [backlog EXCEPT ![p] = Tail(@)]
    /\ UNCHANGED <<linkVars, directoryVars, proc, app>>

(* The listening thread of p has read the whole of a request of this type. *)
Reads(p, type) ==
    /\ Up(p) /\ lis[p].pc = "read"
    /\ link[lis[p].link].type = type /\ unread[lis[p].link] = 2
    /\ unread' = [unread EXCEPT ![lis[p].link] = 0]
    /\ UNCHANGED <<link, stage, down, near, far>>

(***************************************************************************)
(* The client ends before its request is complete: readn() returns what    *)
(* there is.  Without a header the next link is accepted, without a body   *)
(* the buffer is parsed all the same and is no JSON; at most an answer is  *)
(* written that nobody reads.                                              *)
(***************************************************************************)
Incomplete(p) ==
    /\ Up(p) /\ lis[p].pc = "read"
    /\ unread[lis[p].link] < 2 /\ near[lis[p].link] # "open"
    /\ lis' = [lis EXCEPT ![p] = Free]
    /\ UNCHANGED <<linkVars, directoryVars, proc, app, backlog>>

AnswerType(l) == IF link[l].type = "SUBSCRIBE" THEN "ANSWER" ELSE "RESPONSE"

Answers(p, ok) == lis' = [lis EXCEPT ![p].pc = "header", ![p].ok = ok,
                                     ![p].nested = NoLink]

AnswerHeader(p) ==
    /\ Up(p) /\ lis[p].pc = "header"
    /\ Write(lis[p].link, Header(AnswerType(lis[p].link)))
    /\ lis' = [lis EXCEPT ![p].pc = "body"]
    /\ UNCHANGED <<link, stage, unread, far, directoryVars, proc, app, backlog>>

AnswerBody(p) ==
    /\ Up(p) /\ lis[p].pc = "body"
    /\ Write(lis[p].link,
             Body(AnswerType(lis[p].link), IF lis[p].ok THEN OK ELSE Refused))
    /\ lis' = [lis EXCEPT ![p] = Free]
    /\ UNCHANGED <<link, stage, unread, far, directoryVars, proc, app, backlog>>

-------------------------------------------------------------------------------
(* The process ends, by itself or not.                                     *)
EndParticipant(p) ==
    /\ p \in Mortal /\ Up(p)
    /\ proc' = [proc EXCEPT ![p] = "ended"]
    /\ app' = [app EXCEPT ![p] = AtRest]
    /\ lis' = [lis EXCEPT ![p] = [Free EXCEPT !.pc = "starting"]]
    /\ backlog' = [backlog EXCEPT ![p] = <<>>]
    /\ \E half \in SUBSET {l \in {lis[p].link} \ {NoLink} :
                              lis[p].pc = "read" /\ unread[l] > 0} :
          EndLinks(p, ToSet(backlog[p]), half)
    /\ UNCHANGED directoryVars
===============================================================================
