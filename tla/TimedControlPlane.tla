--------------------------- MODULE TimedControlPlane --------------------------
(***************************************************************************)
(* ControlPlane with the clocks of its threads: how often the watchdog     *)
(* ticks, how long poll() waits and the worker sleeps, how often a         *)
(* participant sends a keep-alive.  A sleeping thread wakes exactly when   *)
(* its time is up, and every thread that can take a step takes it before   *)
(* time passes: a machine that is not loaded, the case the three-tick      *)
(* limit of the watchdog is made for.                                      *)
(***************************************************************************)
EXTENDS ControlPlane

CONSTANTS
    Second,         \* units in sleep(1), and in the 1000 ms of poll()
    LoopSleep       \* units in the worker's usleep(100000)

ASSUME ClockConstants == Second \in Nat \ {0} /\ LoopSleep \in Nat \ {0}

(* The worker sleeps a tenth of the time the other threads wait.           *)
ASSUME SleepsLess == LoopSleep < Second

(* A keep-alive nobody has read is counted as unread.                      *)
ASSUME KeepAlivesCount == MaxUnread > 0

VARIABLES
    tick_in,        \* until the watchdog thread wakes
    wake_in,        \* until the worker wakes from usleep()
    poll_in,        \* until poll() times out
    send_in,        \* [Conn -> until its keep-alive thread wakes]
    gone_for        \* [Conn -> how long it has been registered but ended]

clocks == <<tick_in, wake_in, poll_in, send_in, gone_for>>
timedVars == <<vars, clocks>>

(* The watchdog declares a participant dead at its third tick; a keep-alive *)
(* that is still read, after two ticks at the latest, starts it again.      *)
SilentFor == (2 * MaxUnread + 3) * Second

(* A round of the worker: poll() and the sleep.                            *)
LongestStay == SilentFor + Second + LoopSleep

(* The types of the clocks.                                                *)
ClocksTypeOK ==
    /\ tick_in \in 0..Second
    /\ wake_in \in 0..LoopSleep
    /\ poll_in \in 0..Second
    /\ send_in \in [Conn -> 0..Second]
    /\ gone_for \in [Conn -> 0..(LongestStay + 1)]

(* The phase between the watchdog and the worker is any: they drift.       *)
TimedInit ==
    /\ Init
    /\ tick_in \in 0..(Second - 1)
    /\ wake_in = 0
    /\ poll_in = 0
    /\ send_in = [c \in Conn |-> 0]
    /\ gone_for = [c \in Conn |-> 0]

-------------------------------------------------------------------------------
(* The worker sleeps at "top" and waits at "poll"; nothing else takes time. *)
SomePollIn == \E i \in Polled : PollIn(i)

WorkerSteps ==
    /\ w_pc = "top" => wake_in = 0
    /\ w_pc = "poll" => SomePollIn \/ poll_in = 0
    /\ Worker /\ UNCHANGED callVars
    /\ wake_in' = IF w_pc \in {"poll", "scan"} /\ w_pc' = "top" THEN LoopSleep ELSE 0
    /\ poll_in' = IF w_pc = "new" /\ w_pc' = "poll" THEN Second ELSE 0
    /\ UNCHANGED <<tick_in, send_in, gone_for>>

AcceptorSteps == Acceptor /\ UNCHANGED <<callVars, clocks>>

WatchdogSteps ==
    /\ tick_in = 0
    /\ Tick /\ UNCHANGED callVars
    /\ tick_in' = Second
    /\ UNCHANGED <<wake_in, poll_in, send_in, gone_for>>

(* Beyond MaxUnread a keep-alive is not counted: one more of them unread   *)
(* makes no difference to a master that reads none.                        *)
SenderSteps(c) ==
    /\ Running
    /\ peer[c] = "up" /\ send_in[c] = 0
    /\ send_in' = [send_in EXCEPT ![c] = Second]
    /\ IF Unread(c) < MaxUnread
       THEN KeepAlive(c) /\ UNCHANGED masterVars
       ELSE UNCHANGED vars
    /\ UNCHANGED <<tick_in, wake_in, poll_in, gone_for>>

(* An application joins and ends; it makes no calls here.                   *)
Joins(c) == \E arg \in JoinArgs : Connect(c, arg)

ApplicationSteps(c) ==
    /\ Running
    /\ Joins(c) \/ WriteBody(c) \/ EndJoin(c) \/ End(c)
    /\ UNCHANGED <<masterVars, clocks>>

-------------------------------------------------------------------------------
(* Time passes when every thread sleeps or waits.                          *)
NothingToRead(c) == stream[c] = <<>> /\ ~Ended(c)

WorkerWaits ==
    \/ w_pc = "top" /\ wake_in > 0
    \/ w_pc = "poll" /\ poll_in > 0 /\ ~SomePollIn
    \/ w_pc = "content" /\ Incomplete(slots[cursor]) /\ ~Ended(slots[cursor])
    \/ \E i \in Slot : AtSlot(i) /\ NothingToRead(slots[i])

AcceptorWaits ==
    \/ /\ a_pc = "accept" /\ Cardinality(accepted) < FdLimit
       /\ \A c \in Conn : peer[c] = "unused" \/ c \in accepted
    \/ a_pc = "read" /\ Len(stream[a_conn]) < 2 /\ ~Ended(a_conn)

ClientWaits(c) ==
    /\ peer[c] = "up" => send_in[c] > 0
    /\ call[c].pc = "body" => Ended(c)
    /\ call[c].pc = "wait" => replies[c] = <<>>

Less(timer) == IF timer = 0 THEN 0 ELSE timer - 1

Pass ==
    /\ Running
    /\ tick_in > 0 /\ WorkerWaits /\ AcceptorWaits
    /\ \A c \in Conn : ClientWaits(c)
    /\ tick_in' = Less(tick_in)
    /\ wake_in' = Less(wake_in)
    /\ poll_in' = Less(poll_in)
    /\ send_in' = [c \in Conn |-> IF peer[c] = "up" THEN Less(send_in[c]) ELSE 0]
    /\ gone_for' = [c \in Conn |->
          IF Ended(c) /\ c \in socket_map
          THEN IF gone_for[c] > LongestStay THEN gone_for[c] ELSE gone_for[c] + 1
          ELSE 0]
    /\ UNCHANGED vars

TimedNext ==
    \/ WorkerSteps \/ AcceptorSteps \/ WatchdogSteps
    \/ \E c \in Conn : SenderSteps(c) \/ ApplicationSteps(c)
    \/ Pass

TimedSpec == TimedInit /\ [][TimedNext]_timedVars

-------------------------------------------------------------------------------
(* As long as nobody ends and there is a slot for everyone, nobody is      *)
(* declared dead and the master runs, unless it has no descriptor left:    *)
(* the keep-alives of every participant come through, each in time, one    *)
(* frame of each per round of the worker.                                  *)
KeptAlive ==
    (\A c \in Conn : ~Ended(c)) /\ Cardinality(accepted) <= MaxConnections =>
        dead_q = <<>> /\ (Running \/ Cardinality(accepted) >= FdLimit)

(* A participant that waits for its slot is at most two ticks old, even    *)
(* when others end meanwhile: the watchdog cannot declare it dead, and the *)
(* worker that takes its name from the queue finds it, where at() would    *)
(* end the master.  (In a round that takes names from the queue of the     *)
(* dead, one of them may still be that of its predecessor.)                *)
QueuedInTime ==
    Running => \A k \in DOMAIN new_q :
        LET c == participant_list[new_q[k]] IN c # None => watchdog[c] <= 2

(* A participant that has ended is declared dead within three ticks of the *)
(* last keep-alive that is read, whatever became of its slot: it may have  *)
(* none, or one that poll() reaches at one time and not at another.        *)
DeclaredInTime ==
    Running => \A c \in socket_map :
        gone_for[c] > SilentFor => \E k \in DOMAIN dead_q : dead_q[k] = name_of[c]

(* And it is removed within a round of the worker from then on.            *)
RemovedInTime == \A c \in Conn : gone_for[c] <= LongestStay

(* What this takes: no participant has two slots.  With two, the worker    *)
(* reads twice where there is one keep-alive, and waits for the next one.  *)
OneSlotEach == \A i, j \in Slot : slots[i] = slots[j] /\ slots[i] # None => i = j

(* And what that takes: nobody takes a name that is in the queue of the    *)
(* dead, where it may be twice.  Who does may be removed while its name    *)
(* waits for a slot, and the next who takes it waits twice.                *)
FreshName == \A n \in Name : Register(n) => \A k \in DOMAIN dead_q : dead_q[k] # n

(* A name the worker finds in the queue of the dead may be gone already:   *)
(* it looks it up and compares with end() before it erases anything.       *)
GoneIsHarmless == status # "out_of_range"
===============================================================================
