----------------------------- MODULE ControlPlane -----------------------------
(***************************************************************************)
(* The master and its participants on their control connections.  The      *)
(* model follows the system until the master's process ends.               *)
(***************************************************************************)
EXTENDS UBusMaster, ControlClient

vars == <<masterVars, clientVars>>

(* Every variable stays within its declaration: the counters within a      *)
(* uint8_t, the slots and the tables within the sockets accept() returned. *)
TypeOK == SocketsTypeOK /\ MasterTypeOK /\ ClientTypeOK

Init == SocketsInit /\ MasterInit /\ ClientInit

MasterStep == MasterNext /\ UNCHANGED callVars

ClientStep(c) == Running /\ ClientNext(c) /\ UNCHANGED masterVars

Next == MasterStep \/ \E c \in Conn : ClientStep(c)

Spec == Init /\ [][Next]_vars

(***************************************************************************)
(* Fairness.  The three threads of the master never wait for anything but  *)
(* each other's locks and their sockets.  A lock is free in every round of *)
(* the worker, which sleeps 100 ms holding none, so whoever waits for one  *)
(* gets it: strong fairness of the watchdog and of the acceptor.  In a     *)
(* live participant the keep-alive thread runs forever and a call that has *)
(* written its header goes on; nothing makes an application start a call,  *)
(* or a participant end.                                                   *)
(***************************************************************************)
Fairness ==
    /\ WF_vars(Worker /\ UNCHANGED callVars)
    /\ SF_vars(Acceptor /\ UNCHANGED callVars)
    /\ SF_vars(Tick /\ UNCHANGED callVars)
    /\ \A c \in Conn :
          /\ WF_vars(Running /\ KeepAlive(c) /\ UNCHANGED masterVars)
          /\ WF_vars(Running /\ (WriteBody(c) \/ EndJoin(c) \/ EndCall(c))
                             /\ UNCHANGED masterVars)

FairSpec == Spec /\ Fairness

-------------------------------------------------------------------------------
(* Safety.                                                                 *)

(* participant_list_ and socket_participant_mapping_, which one thread     *)
(* fills under two locks and another empties, name the same participants:  *)
(* no socket is reachable by one and not by the other, and no socket       *)
(* serves two names.                                                       *)
RegistryAgrees ==
    /\ \A n \in Participants :
          participant_list[n] \in socket_map /\ name_of[participant_list[n]] = n
    /\ \A c \in socket_map :
          name_of[c] \in Name /\ participant_list[name_of[c]] = c

(* The master keeps ownership twice, in event_list_ and method_list_ and   *)
(* in the lists of the owner's record, and erases the first by the keys of *)
(* the second: they must agree on every registered participant, and no     *)
(* entry may outlive its owner.                                            *)
OwnershipAgrees ==
    /\ \A t \in Topic : event_list[t] # None => event_list[t] \in socket_map
    /\ \A m \in Method : method_list[m] # None => method_list[m] \in socket_map
    /\ \A c \in socket_map :
          /\ published[c] = {t \in Topic : event_list[t] = c}
          /\ provided[c] = {m \in Method : method_list[m] = c}

(* What the two rest on: the record of a socket that is not registered is  *)
(* gone, and the acceptor never registers a socket a second time, because  *)
(* accept() returns each once and it is the only one to register them.     *)
RecordsDestroyed ==
    \A c \in Conn \ socket_map :
        name_of[c] = None /\ published[c] = {} /\ provided[c] = {}

AcceptorHolds ==
    /\ socket_map \subseteq accepted
    /\ a_pc = "read" => a_conn \in accepted \ socket_map

RegistryInvariant ==
    RegistryAgrees /\ OwnershipAgrees /\ RecordsDestroyed /\ AcceptorHolds

(* A registered participant was not told that it is refused; and one that  *)
(* is in no call publishes and provides exactly what the master says it    *)
(* does, however its answers, its keep-alives and the death of others were *)
(* interleaved.                                                            *)
ClientsAgree ==
    \A c \in socket_map :
        /\ peer[c] # "refused"
        /\ peer[c] = "up" /\ call[c] = Idle =>
              /\ pub_list[c] = {t \in Topic : event_list[t] = c}
              /\ provided_list[c] = {m \in Method : method_list[m] = c}

(* The requests of c that are on their way, in hand, or answered unread.   *)
RequestsOf(c) ==
    LET sent == {i \in DOMAIN stream[c] :
                    /\ stream[c][i].part = "header"
                    /\ stream[c][i].type # "KEEP_ALIVE"}
    IN  Cardinality(sent) + Len(replies[c])
          + (IF w_pc = "content" /\ slots[cursor] = c THEN 1 ELSE 0)
          + (IF a_pc = "reply" /\ a_conn = c THEN 1 ELSE 0)

(* A call in progress has one request on its way or one answer, and none   *)
(* is left over for the next call, although two threads of the master read *)
(* the connection one after the other and two of the participant write it. *)
OneAnswerPerCall ==
    Running => \A c \in Conn :
        ~Ended(c) => RequestsOf(c) = IF call[c] = Idle THEN 0 ELSE 1

(* Both readers of the master compare the -1 of a failing readn() as a     *)
(* size_t and would serve an uninitialized buffer.  It cannot come to that *)
(* in the middle of a frame, because a participant reads each answer       *)
(* before it writes the next header, and ends with nothing left to read.   *)
NoReadFailsMidFrame ==
    /\ w_pc = "content" /\ Incomplete(slots[cursor])
          => peer[slots[cursor]] # "reset"
    /\ a_pc = "read" => peer[a_conn] # "reset"

(* What participants send is JSON, and the worker can parse the content of *)
(* every frame: the programs of test/ join and make their first call at    *)
(* once, while the keep-alive thread of the same participant starts.       *)
WellFormedCallsAreServed == status # "parse_error"

(* Whoever is sent to a publisher or provider is sent to a participant     *)
(* that is registered when the answer is written.                          *)
FreshAnswer(c) ==
    LET at == replies'[c][Len(replies'[c])].at
    IN  Len(replies'[c]) > Len(replies[c]) /\ at # None
            => at \in socket_map /\ at \in socket_map'

AnswersAreFresh == [][\A c \in Conn : FreshAnswer(c)]_vars

(* The registry implements the directory.                                  *)
Registry == INSTANCE Directory WITH
    member <- participant_list,
    publisher <- event_list,
    provider <- method_list

ImplementsDirectory == Registry!Spec

-------------------------------------------------------------------------------
(* Liveness.                                                               *)

(* A participant that ends is forgotten, with all it owned, or the master  *)
(* itself has ended.                                                       *)
LeaversAreForgotten ==
    \A c \in Conn : Ended(c) /\ c \in socket_map ~> c \notin socket_map \/ ~Running

(* A call of a participant is answered, or the participant ends, or it is  *)
(* no longer registered and nobody will answer it, or the master ended.    *)
CallsEnd ==
    \A c \in Conn :
        peer[c] = "up" /\ call[c] # Idle
            ~> call[c] = Idle \/ c \notin socket_map \/ ~Running
===============================================================================
