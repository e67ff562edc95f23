------------------------------ MODULE MasterLocks -----------------------------
(***************************************************************************)
(* The locks of the master, taken one by one by its three threads, and the *)
(* members they guard.  UBusMaster makes an action of a critical section;  *)
(* this module looks inside: may two threads be at the same member at      *)
(* once, and may they wait for each other?                                 *)
(*                                                                         *)
(* A thread works off a path: what it locks, uses and unlocks in one round *)
(* of its loop.  What the members hold is left out; how many entries are   *)
(* in a queue and which frame is read is chosen when a round begins.  The  *)
(* four std::mutex are locks that are only written.                        *)
(***************************************************************************)
EXTENDS Naturals, SequencesExt

CONSTANTS
    MaxQueue,       \* bound: entries a queue holds when it is drained
    MaxFrames       \* bound: frames the worker serves in a round

ASSUME LockBounds == MaxQueue \in Nat /\ MaxFrames \in Nat

Thread == {"worker", "acceptor", "watchdog"}
Lock == {"dead_mtx", "new_mtx", "info_mtx", "event_mtx", "method_mtx"}
Member == {"participant_list", "socket_map", "counters", "topics", "methods",
           "event_list", "method_list", "new_q", "dead_q"}

VARIABLES
    path,           \* [Thread -> Seq(Step)], what is left of the round
    readers,        \* [Lock -> the threads that share it]
    writer          \* [Lock -> the threads that have it alone, one at most]

vars == <<path, readers, writer>>

Step == [op : {"read", "write"}, on : Member]
            \cup [op : {"lock_shared", "lock", "unlock_shared", "unlock"}, on : Lock]

Do(op, x) == <<[op |-> op, on |-> x]>>

(* ReadingSharedLockGuard, and WritingSharedLockGuard or std::lock_guard.  *)
Shared(l, body) == Do("lock_shared", l) \o body \o Do("unlock_shared", l)
Alone(l, body) == Do("lock", l) \o body \o Do("unlock", l)

Read(x) == Do("read", x)
Write(x) == Do("write", x)

Times(n, body) == FlattenSeq([k \in 1..n |-> body])

-------------------------------------------------------------------------------
(* The message worker.                                                     *)

(* Mutation: the worker drains the dead without the lock of their queue.   *)
DrainDeadUnlocked(n) ==
    Read("dead_q") \o Times(n, Alone("info_mtx", Read("participant_list")
                                 \o Write("participant_list") \o Write("dead_q")))

DrainDead(n) ==
    Alone("dead_mtx", Read("dead_q") \o
        Times(n, Alone("info_mtx",
            Read("participant_list")
            \o Alone("event_mtx", Read("topics") \o Write("event_list"))
            \o Alone("method_mtx", Read("methods") \o Write("method_list"))
            \o Write("participant_list") \o Write("socket_map")
            \o Write("dead_q") \o Read("dead_q"))))

DrainNew(n) ==
    Alone("new_mtx", Read("new_q") \o
        Times(n, Shared("info_mtx",
            Read("participant_list") \o Write("new_q") \o Read("new_q"))))

Poll == Shared("info_mtx", Read("participant_list"))

(* operator[] on the mapping of sockets may insert an entry.               *)
KeepAlive == Alone("info_mtx", Write("socket_map") \o Write("counters"))

EventRegister ==
    Shared("info_mtx", Alone("event_mtx",
        Read("event_list") \o Write("socket_map") \o Write("event_list")
        \o Write("topics")))

MethodProvide ==
    Shared("info_mtx", Alone("method_mtx",
        Read("method_list") \o Write("socket_map") \o Write("method_list")
        \o Write("methods")))

EventSubscribe == Alone("event_mtx", Read("event_list"))
MethodQuery == Alone("method_mtx", Read("method_list"))

(* list_event and list_method read what these two do.                      *)
ListParticipants == Shared("info_mtx", Read("participant_list"))

Frame == {KeepAlive, EventRegister, EventSubscribe, MethodProvide, MethodQuery,
          ListParticipants}

(* One round drains d and n entries of the queues and serves the frames fs. *)
WorkerLoop(d, n, fs) == DrainDead(d) \o DrainNew(n) \o Poll \o FlattenSeq(fs)

WorkerRound ==
    {WorkerLoop(d, n, fs) :
        d \in 0..MaxQueue, n \in 0..MaxQueue,
        fs \in UNION {[1..k -> Frame] : k \in 0..MaxFrames}}

-------------------------------------------------------------------------------
(* The acceptor and the watchdog.                                          *)

(* Mutation: the lock of the queue is not given back.                      *)
RegisterAndKeep ==
    {Do("lock", "new_mtx") \o Alone("info_mtx", Read("participant_list"))}

(* Another version, or a name that is taken, changes nothing; an invalid   *)
(* request locks nothing.                                                  *)
Register ==
    {Alone("new_mtx", Alone("info_mtx", changes)) :
        changes \in {<<>>, Read("participant_list"),
                     Read("participant_list") \o Write("participant_list")
                         \o Write("socket_map") \o Write("new_q")}}

(* Mutation: the watchdog takes its two locks the other way round.         *)
TickInverted ==
    {Shared("info_mtx", Alone("dead_mtx", Read("participant_list")
                                          \o Write("counters")))}

(* Somebody is dead, or nobody.                                            *)
Tick ==
    {Alone("dead_mtx", Shared("info_mtx",
        Read("participant_list") \o Write("counters") \o found)) :
            found \in {<<>>, Write("dead_q")}}

Rounds ==
    [t \in Thread |-> CASE t = "worker" -> WorkerRound
                        [] t = "acceptor" -> Register
                        [] t = "watchdog" -> Tick]

-------------------------------------------------------------------------------
(* The types, and that who has a lock alone does not share it.             *)
TypeOK ==
    /\ path \in [Thread -> Seq(Step)]
    /\ readers \in [Lock -> SUBSET Thread]
    /\ writer \in [Lock -> SUBSET Thread]
    /\ \A l \in Lock : \A t \in writer[l] : writer[l] \cup readers[l] = {t}

Init ==
    /\ path = [t \in Thread |-> <<>>]
    /\ readers = [l \in Lock |-> {}]
    /\ writer = [l \in Lock |-> {}]

(* Between two rounds the thread sleeps, or waits in accept().             *)
Begin(t) ==
    /\ path[t] = <<>>
    /\ \E round \in Rounds[t] : path' = [path EXCEPT ![t] = round]
    /\ UNCHANGED <<readers, writer>>

At(t, op) == path[t] # <<>> /\ Head(path[t]).op = op

Done(t) == path' = [path EXCEPT ![t] = Tail(@)]

Use(t) ==
    /\ At(t, "read") \/ At(t, "write")
    /\ Done(t)
    /\ UNCHANGED <<readers, writer>>

LockShared(t) ==
    LET l == Head(path[t]).on
    IN  /\ At(t, "lock_shared") /\ writer[l] = {}
        /\ readers' = [readers EXCEPT ![l] = @ \cup {t}]
        /\ Done(t)
        /\ UNCHANGED writer

(* Mutation: the writer does not wait for the readers.                     *)
LockAnyway(t) ==
    LET l == Head(path[t]).on
    IN  /\ At(t, "lock") /\ writer[l] = {}
        /\ writer' = [writer EXCEPT ![l] = {t}]
        /\ Done(t)
        /\ UNCHANGED readers

LockAlone(t) ==
    LET l == Head(path[t]).on
    IN  /\ At(t, "lock") /\ writer[l] = {} /\ readers[l] = {}
        /\ writer' = [writer EXCEPT ![l] = {t}]
        /\ Done(t)
        /\ UNCHANGED readers

Unlock(t) ==
    LET l == Head(path[t]).on
    IN  /\ At(t, "unlock") \/ At(t, "unlock_shared")
        /\ readers' = [readers EXCEPT ![l] = @ \ {t}]
        /\ writer' = [writer EXCEPT ![l] = @ \ {t}]
        /\ Done(t)

Steps(t) == Begin(t) \/ Use(t) \/ LockShared(t) \/ LockAlone(t) \/ Unlock(t)

Next == \E t \in Thread : Steps(t)

(***************************************************************************)
(* A thread that waits for a lock which is free again and again gets it:   *)
(* the others sleep between two rounds, holding nothing.                   *)
(***************************************************************************)
Spec == Init /\ [][Next]_vars /\ \A t \in Thread : SF_vars(Steps(t))

-------------------------------------------------------------------------------
(* No member is written by one thread while another is at it, whichever    *)
(* locks the two hold: info_mtx is only shared where a topic or a method   *)
(* is added and where counters are raised.                                 *)
NoRace ==
    \A t, u \in Thread :
        t # u /\ At(t, "write") /\ (At(u, "write") \/ At(u, "read"))
            => Head(path[t]).on # Head(path[u]).on

(* No threads wait for each other in a circle.                             *)
WaitsFor(t) ==
    CASE At(t, "lock_shared") -> writer[Head(path[t]).on]
      [] At(t, "lock") -> writer[Head(path[t]).on] \cup readers[Head(path[t]).on]
      [] OTHER -> {}

NoCircle ==
    \A S \in (SUBSET Thread) \ {{}} : \E t \in S : WaitsFor(t) \cap S = {}

(* Every round comes to an end: in particular who joins is registered      *)
(* although the worker holds info_mtx as long as poll() takes.             *)
RoundsEnd == \A t \in Thread : path[t] # <<>> ~> path[t] = <<>>
===============================================================================
