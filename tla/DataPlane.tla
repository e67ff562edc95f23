------------------------------- MODULE DataPlane -------------------------------
(***************************************************************************)
(* Participants that exchange events and method calls with each other.     *)
(***************************************************************************)
EXTENDS EventPlane, MethodCalls

vars == <<participantVars, eventVars, methodVars>>

(* Every variable stays within its declaration; in particular a listening  *)
(* thread that serves has a link, and no link holds more than it can.      *)
TypeOK == ParticipantTypeOK /\ EventTypeOK /\ MethodTypeOK

Init == ParticipantInit /\ EventInit /\ MethodInit

(* What the threads of p do with links in general.                         *)
Listening(p) == Listen(p) \/ Accept(p) \/ Incomplete(p) \/ AnswerHeader(p)
                    \/ AnswerBody(p)

Client(l) == Connect(l) \/ ConnectRefused(l) \/ WriteBody(l)

Shared ==
    \/ \E p \in Proc : Join(p) \/ Forget(p) \/ Listening(p)
    \/ \E l \in Link : Client(l)

Events == (\E p \in Proc : EventNext(p)) \/ \E l \in Link : Subscribing(l)

Methods == (\E p \in Proc : MethodNext(p)) \/ \E l \in Link : Calling(l)

End(p) == EndParticipant(p) /\ EndEvents(p) /\ EndMethods(p)

Next ==
    \/ Shared /\ UNCHANGED <<eventVars, methodVars>>
    \/ Events /\ UNCHANGED methodVars
    \/ Methods /\ UNCHANGED eventVars
    \/ \E p \in Proc : End(p)

Spec == Init /\ [][Next]_vars

(***************************************************************************)
(* Fairness: every thread of a live process goes on with what it has       *)
(* begun, unless it waits for a chunk, for room or for a callback; in      *)
(* particular callbacks return.  Nothing makes an application call, or a   *)
(* process join or end.                                                    *)
(***************************************************************************)
Fairness ==
    /\ \A p \in Proc :
          /\ WF_vars(Listening(p) /\ UNCHANGED <<eventVars, methodVars>>)
          /\ WF_vars(ServeSubscribe(p) /\ UNCHANGED methodVars)
          /\ WF_vars((ServeCall(p) \/ CallbackReturns(p)) /\ UNCHANGED eventVars)
          /\ WF_vars(Publishing(p) /\ UNCHANGED methodVars)
          /\ WF_vars(Provided(p) /\ UNCHANGED eventVars)
          /\ WF_vars(EventWorker(p) /\ UNCHANGED methodVars)
    /\ \A l \in Link :
          /\ WF_vars(Client(l) /\ UNCHANGED <<eventVars, methodVars>>)
          /\ WF_vars(Subscribing(l) /\ UNCHANGED methodVars)
          /\ WF_vars(Calling(l) /\ UNCHANGED eventVars)

FairSpec == Spec /\ Fairness

-------------------------------------------------------------------------------
(* Events.                                                                 *)

(* The links the event worker reads: whole frames of events, one after the *)
(* other, although two threads of the publisher write the link and two of  *)
(* the subscriber read it; and never a failing read, whose -1 would pass   *)
(* for a header.                                                           *)
FramesFrom(s, part) ==
    \A k \in DOMAIN s :
        /\ s[k].type = "EVENT"
        /\ s[k].part = part <=> k % 2 = 1

PolledLinksWhole ==
    \A p \in Proc : \A l \in Range(slots[p]) \ {NoLink} :
        /\ far[l] # "reset"
        /\ IF ew[p].pc = "content" /\ slots[p][ew[p].i] = l
           THEN FramesFrom(down[l], "body") ELSE FramesFrom(down[l], "header")

(* Each subscription gets the events of its publisher from the one it      *)
(* finds being published, or the next one, in order, each once, whenever   *)
(* subscribers come and go during publish_event().  (What a callback gets  *)
(* when the publisher ends within an event is EventsAreWhole.)             *)
Delivery == INSTANCE EventDelivery WITH
    Source <- Proc \X Topic, Subscription <- Link, Nobody <- <<>>,
    published <- [s \in Proc \X Topic |-> count[s[1]][s[2]]],
    source <- [l \in Link |-> IF heard[l] = <<>> THEN <<>>
                              ELSE <<link[l].to, link[l].arg>>]

DeliversEvents == Delivery!Spec

(* publish_event() collects names and erases them after its loop: no name  *)
(* then stands for a subscriber that lives.                                *)
Listed(p) == {client_map[p][t][n] : t \in Topic, n \in Name} \ {NoLink}

LiveStayListed ==
    [][\A p \in Proc : \A l \in Listed(p) :
          Up(link[l].from) /\ Up(p)' => l \in Listed(p)']_vars

(* A link that is full, while nothing reads it any more: its subscriber    *)
(* was told false and keeps the socket.                                    *)
Abandoned(l) ==
    /\ near[l] = "open" /\ stage[l] \notin InProgress /\ Len(down[l]) = Capacity
    /\ \A i \in 1..Cardinality(Subscriptions(link[l].from)) :
          slots[link[l].from][i] # l

(* A subscription to a publisher that was named comes to an end, or the    *)
(* subscriber does, unless the publisher's listening thread writes an      *)
(* answer to such a link.                                                  *)
Stuck(p) == lis[p].link # NoLink /\ Abandoned(lis[p].link)

SubscribesEnd ==
    \A l \in Link : link[l].type = "SUBSCRIBE" /\ stage[l] \in InProgress
                        ~> stage[l] \notin InProgress \/ Stuck(link[l].to)

(* One link in two slots, after a topic was subscribed to, ended and was   *)
(* subscribed to again before its first slot was emptied.  The worker then *)
(* reads twice where poll() saw one frame, and waits for the next.         *)
InTwoSlots(p) ==
    \E i, j \in Slot : i # j /\ slots[p][i] = slots[p][j] /\ slots[p][i] # NoLink

(* A link that has a slot within nfds is emptied by the event worker,      *)
(* unless the worker waits at a link it reads twice.                       *)
EventsArrive ==
    \A p \in Proc : \A i \in Slot :
        Up(p) /\ slots[p][i] # NoLink /\ i <= Cardinality(Subscriptions(p))
            /\ down[slots[p][i]] # <<>>
        ~> \/ ~Up(p) \/ slots[p][i] = NoLink \/ down[slots[p][i]] = <<>>
           \/ InTwoSlots(p)

(* publish_event() waits for nobody but a subscriber of a link that is     *)
(* abandoned, or whose worker waits at a link it reads twice.              *)
PublishEnds ==
    \A p \in Proc :
        Walking(p) ~>
            \/ ~Walking(p)
            \/ \E l \in Listed(p) : Abandoned(l) \/ InTwoSlots(link[l].from)

-------------------------------------------------------------------------------
(* Method calls.                                                           *)

(* A call returns true only when its callback has run, which it does at    *)
(* most once, and not after the call has failed.                           *)
Result(l) ==
    CASE stage[l] = "unused" -> "none"
      [] stage[l] \in InProgress -> "pending"
      [] stage[l] \in {"true", "false"} ->
            IF link[l].type = "CALL" THEN stage[l] ELSE "pending"
      [] OTHER -> "abandoned"

Calls == INSTANCE RequestReply WITH
    Request <- Link, result <- [l \in Link |-> Result(l)]

CallsAreRequests == Calls!Spec

(* Callbacks that wait for each other in a circle, or for someone who does.*)
WaitsFor(p) == {q \in Proc : InCallback(p) /\ Waits(p) /\ q = link[lis[p].nested].to}

Entangled(p) ==
    \E S \in SUBSET Proc : p \in S /\ \A q \in S : WaitsFor(q) \cap S # {}


-------------------------------------------------------------------------------
(* What the code says, and does not keep.                                  *)

(* "Registered new subscriber": one that has been told so.                 *)
ListedAreServed == \A p \in Proc : \A l \in Listed(p) : stage[l] # "false"

(* An event whose content could not be read is not handed to a callback.   *)
EventsAreWhole == garbage = {}
===============================================================================
