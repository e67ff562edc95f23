------------------------------- MODULE CallProofs ------------------------------
(***************************************************************************)
(* Method calls.  The callback runs at most once because a link carries    *)
(* one request: while it is unread nothing has run and nothing was         *)
(* answered, and once it is read it is never unread again.  An answer that *)
(* says OK, written or still to be written, is about a callback that has   *)
(* run.  Events go to links whose request was read, so that they never     *)
(* pass for an answer to a call.                                           *)
(***************************************************************************)
EXTENDS DataPlaneProofs

USE DEF linkVars, directoryVars, participantVars, publisherVars, pollVars,
        eventVars, methodVars

Early == {"unused", "connect", "body"}

(* The request of l has been read.                                         *)
Served(l) == stage[l] \notin Early /\ unread[l] = 0

LinkAt(l) ==
    /\ unread[l] = 2 => stage[l] \in {"wait", "ended"} /\ far[l] = "open"
    /\ stage[l] \in Early \/ unread[l] = 2 => runs[l] = 0 /\ down[l] = <<>>
    /\ runs[l] \in {0, 1}
    /\ \A k \in 1..Len(down[l]) : down[l][k] = Body("RESPONSE", OK) => runs[l] = 1

ServerAt(p) ==
    /\ lis[p].pc \in {"callback", "header", "body"} => Served(lis[p].link)
    /\ lis[p].pc = "callback" => runs[lis[p].link] = 1
    /\ lis[p].pc \in {"header", "body"} /\ lis[p].ok /\ link[lis[p].link].type = "CALL"
          => runs[lis[p].link] = 1

ListedAt(p) ==
    \A t \in Topic, n \in Name :
        client_map[p][t][n] # NoLink => Served(client_map[p][t][n])

CallInv ==
    /\ \A l \in Link : LinkAt(l)
    /\ \A p \in Proc : ServerAt(p) /\ ListedAt(p)

(* No step takes back that a request was read or a callback run.           *)
Kept(l) ==
    /\ Served(l) => Served(l)' /\ link'[l].type = link[l].type
    /\ runs[l] = 1 => runs'[l] = 1

(* A listening thread that rests stays right about its link.               *)
LEMMA ServersKeep ==
    ASSUME TypeInv, CallInv, \A l \in Link : Kept(l), NEW p \in Proc, lis'[p] = lis[p]
    PROVE  ServerAt(p)'
<1>1. lis[p].pc \in {"callback", "header", "body"} => lis[p].link \in Link
  BY DEF TypeInv, TypeOK, ParticipantTypeOK, Listener
<1>2. ServerAt(p)
  BY DEF CallInv
<1>. QED
  BY <1>1, <1>2 DEF ServerAt, Kept

(* Entries of subscribers stay entries of links that were served.          *)
LEMMA ListsKeep ==
    ASSUME TypeInv, CallInv, \A l \in Link : Kept(l), UNCHANGED client_map
    PROVE  \A p \in Proc : ListedAt(p)'
<1>. SUFFICES ASSUME NEW p \in Proc, NEW t \in Topic, NEW n \in Name,
                     client_map[p][t][n] # NoLink
              PROVE  Served(client_map[p][t][n])'
  BY DEF ListedAt
<1>1. client_map[p][t][n] \in Link
  BY DEF TypeInv, TypeOK, EventTypeOK
<1>2. Served(client_map[p][t][n])
  BY DEF CallInv, ListedAt
<1>. QED
  BY <1>1, <1>2 DEF Kept

(* Writes, of answers and of events, and reads.                            *)
LEMMA WriteKeeps ==
    ASSUME TypeInv, CallInv, NEW l, NEW chunk \in Chunk, Write(l, chunk),
           l \in Link => Served(l),
           l \in Link /\ chunk = Body("RESPONSE", OK) => runs[l] = 1,
           UNCHANGED <<link, stage, unread, far, runs>>
    PROVE  \A m \in Link : LinkAt(m)' /\ Kept(m)
<1>. SUFFICES ASSUME NEW m \in Link PROVE LinkAt(m)' /\ Kept(m)
  OBVIOUS
<1>1. Kept(m) /\ LinkAt(m)
  BY DEF Kept, Served, CallInv
<1>2. CASE down'[m] = down[m]
  BY <1>1, <1>2 DEF LinkAt
<1>3. CASE down'[m] # down[m]
  <2>1. down \in [Link -> Seq(Chunk)]
    BY DEF TypeInv, TypeOK, ParticipantTypeOK, LinksTypeOK
  <2>2. m = l /\ down'[m] = Append(down[m], chunk)
    BY <1>3, <2>1 DEF Write
  <2>3. \A k \in 1..Len(down'[m]) : down'[m][k] = Body("RESPONSE", OK) => runs[m] = 1
    <3>1. /\ Len(down'[m]) = Len(down[m]) + 1 /\ Len(down[m]) \in Nat
          /\ \A k \in 1..Len(down[m]) : down'[m][k] = down[m][k]
          /\ down'[m][Len(down[m]) + 1] = chunk
      BY <2>1, <2>2, AppendProperties, LenProperties
    <3>. QED
      BY <1>1, <2>2, <3>1 DEF LinkAt
  <2>. QED
    BY <1>1, <2>2, <2>3 DEF LinkAt, Served
<1>. QED
  BY <1>2, <1>3

(* A read of what was written leaves less of it.                           *)
LEMMA TakeKeeps ==
    ASSUME TypeInv, CallInv, NEW l, down[l] # <<>>, Take(l),
           UNCHANGED <<link, stage, unread, far, runs>>
    PROVE  \A m \in Link : LinkAt(m)' /\ Kept(m)
<1>. SUFFICES ASSUME NEW m \in Link PROVE LinkAt(m)' /\ Kept(m)
  OBVIOUS
<1>1. Kept(m) /\ LinkAt(m)
  BY DEF Kept, Served, CallInv
<1>2. CASE down'[m] = down[m]
  BY <1>1, <1>2 DEF LinkAt
<1>3. CASE down'[m] # down[m]
  <2>1. down \in [Link -> Seq(Chunk)]
    BY DEF TypeInv, TypeOK, ParticipantTypeOK, LinksTypeOK
  <2>2. m = l /\ down'[m] = Tail(down[m])
    BY <1>3, <2>1 DEF Take
  <2>3. \A k \in 1..Len(down'[m]) : down'[m][k] = Body("RESPONSE", OK) => runs[m] = 1
    <3>1. /\ Len(down'[m]) = Len(down[m]) - 1 /\ Len(down[m]) \in Nat
          /\ \A k \in 1..Len(down'[m]) : down'[m][k] = down[m][k + 1]
      BY <2>1, <2>2, HeadTailProperties, LenProperties
    <3>. QED
      BY <1>1, <3>1 DEF LinkAt
  <2>. QED
    BY <1>1, <2>2, <2>3 DEF LinkAt
<1>. QED
  BY <1>2, <1>3

(* A client reads, or gives up: not while its request is unread.           *)
LEMMA ClientReadKeeps ==
    ASSUME TypeInv, CallInv, NEW l \in Link, NEW s \in Stage \ Early, Advance(l, s),
           stage[l] \notin Early,
           \/ down[l] # <<>> /\ Take(l)
           \/ (Eof(l) \/ Reset(l) \/ stage[l] # "wait") /\ UNCHANGED down,
           stage[l] # "ended", UNCHANGED <<link, unread, far, runs>>
    PROVE  \A m \in Link : LinkAt(m)' /\ Kept(m)
<1>. SUFFICES ASSUME NEW m \in Link PROVE LinkAt(m)' /\ Kept(m)
  OBVIOUS
<1>1. LinkAt(m) /\ LinkAt(l)
  BY DEF CallInv
<1>2. down \in [Link -> Seq(Chunk)] /\ stage \in [Link -> Stage]
  BY DEF TypeInv, TypeOK, ParticipantTypeOK, LinksTypeOK
<1>3. stage' = [stage EXCEPT ![l] = s]
  BY DEF Advance
<1>4. unread[l] # 2
  BY <1>1 DEF LinkAt, Eof, Reset
<1>5. Kept(m)
  BY <1>2, <1>3 DEF Kept, Served
<1>6. CASE m # l
  <2>1. stage'[m] = stage[m] /\ down'[m] = down[m]
    BY <1>2, <1>3, <1>6 DEF Take
  <2>. QED
    BY <1>1, <1>5, <2>1 DEF LinkAt
<1>7. CASE m = l
  <2>1. stage'[l] = s
    BY <1>2, <1>3
  <2>2. \A k \in 1..Len(down'[l]) : down'[l][k] = Body("RESPONSE", OK) => runs[l] = 1
    <3>1. CASE UNCHANGED down
      BY <1>1, <3>1 DEF LinkAt
    <3>2. CASE down[l] # <<>> /\ Take(l)
      <4>1. down'[l] = Tail(down[l])
        BY <1>2, <3>2 DEF Take
      <4>2. /\ Len(down'[l]) = Len(down[l]) - 1 /\ Len(down[l]) \in Nat
            /\ \A k \in 1..Len(down'[l]) : down'[l][k] = down[l][k + 1]
        BY <1>2, <3>2, <4>1, HeadTailProperties, LenProperties
      <4>. QED
        BY <1>1, <4>2 DEF LinkAt
    <3>. QED
      BY <3>1, <3>2
  <2>3. unread'[l] # 2 /\ stage'[l] \notin Early /\ runs'[l] \in {0, 1}
    BY <1>1, <1>4, <2>1 DEF LinkAt
  <2>. QED
    BY <1>5, <1>7, <2>2, <2>3 DEF LinkAt
<1>. QED
  BY <1>6, <1>7

(* Nothing happens to the links.                                           *)
LEMMA SameLinksKeep ==
    ASSUME CallInv, UNCHANGED <<linkVars, runs>>
    PROVE  \A m \in Link : LinkAt(m)' /\ Kept(m)
  BY DEF CallInv, LinkAt, Kept, Served

(* The client connects, sends its request, or cannot.                      *)
LEMMA ClientKeeps ==
    ASSUME TypeInv, CallInv, NEW l \in Link, Client(l), UNCHANGED runs
    PROVE  \A m \in Link : LinkAt(m)' /\ Kept(m)
<1>. SUFFICES ASSUME NEW m \in Link PROVE LinkAt(m)' /\ Kept(m)
  OBVIOUS
<1>1. LinkAt(m) /\ LinkAt(l)
  BY DEF CallInv
<1>2. /\ stage \in [Link -> Stage] /\ unread \in [Link -> 0..2]
      /\ far \in [Link -> {"open", "closed", "reset"}]
  BY DEF TypeInv, TypeOK, ParticipantTypeOK, LinksTypeOK
<1>3. UNCHANGED <<link, down>> /\ stage[l] \in {"connect", "body"}
  BY DEF Client, Connect, ConnectRefused, WriteBody
<1>4. CASE m # l
  <2>1. stage'[m] = stage[m] /\ unread'[m] = unread[m] /\ far'[m] = far[m]
    BY <1>2, <1>4 DEF Client, Connect, ConnectRefused, WriteBody, Advance
  <2>. QED
    BY <1>1, <1>3, <2>1 DEF LinkAt, Kept, Served
<1>5. CASE m = l
  <2>1. ~Served(l) /\ runs[l] = 0 /\ down[l] = <<>>
    BY <1>1, <1>3 DEF LinkAt, Served, Early
  <2>2. unread[l] # 2
    BY <1>1, <1>3 DEF LinkAt
  <2>3. unread'[l] = 2 => stage'[l] = "wait" /\ far'[l] = "open"
    BY <1>2, <2>2 DEF Client, Connect, ConnectRefused, WriteBody, Advance
  <2>. QED
    BY <1>1, <1>3, <1>5, <2>1, <2>3 DEF LinkAt, Kept
<1>. QED
  BY <1>4, <1>5

(* A link is made.                                                         *)
LEMMA AskKeeps ==
    ASSUME TypeInv, CallInv, NEW p, NEW by, NEW type, NEW arg, NEW owner,
           Ask(p, by, type, arg, owner), UNCHANGED runs
    PROVE  \A m \in Link : LinkAt(m)' /\ Kept(m)
<1>. SUFFICES ASSUME NEW m \in Link PROVE LinkAt(m)' /\ Kept(m)
  OBVIOUS
<1>1. LinkAt(m)
  BY DEF CallInv
<1>2. link \in [Link -> LinkInfo] /\ stage \in [Link -> Stage]
  BY DEF TypeInv, TypeOK, ParticipantTypeOK, LinksTypeOK
<1>3. Fresh \in Link /\ stage[Fresh] = "unused"
  BY FreshUnused DEF Ask, TypeInv, TypeOK, ParticipantTypeOK
<1>4. UNCHANGED <<unread, down, near, far>>
  BY DEF Ask
<1>5. CASE m # Fresh
  <2>1. stage'[m] = stage[m] /\ link'[m] = link[m]
    BY <1>2, <1>5 DEF Ask, Advance
  <2>. QED
    BY <1>1, <1>4, <2>1 DEF LinkAt, Kept, Served
<1>6. CASE m = Fresh
  <2>1. stage'[m] = "connect"
    BY <1>2, <1>6 DEF Ask, Advance
  <2>. QED
    BY <1>1, <1>3, <1>4, <1>6, <2>1 DEF LinkAt, Kept, Served, Early
<1>. QED
  BY <1>5, <1>6

(* The listening thread has read a request, and runs a callback or not.    *)
LEMMA ReadsKeep ==
    ASSUME TypeInv, CallInv, NEW p \in Proc, NEW type, Reads(p, type),
           runs' = runs \/ runs' = [runs EXCEPT ![lis[p].link] = @ + 1]
    PROVE  /\ \A m \in Link : LinkAt(m)' /\ Kept(m)
           /\ stage'[lis[p].link] \notin Early /\ unread'[lis[p].link] = 0
           /\ runs[lis[p].link] = 0
           /\ lis[p].link \in Link
<1>. DEFINE l == lis[p].link
<1>1. unread \in [Link -> 0..2] /\ runs \in [Link -> Nat] /\ l \in Link
  BY DEF Reads, TypeInv, TypeOK, ParticipantTypeOK, LinksTypeOK, MethodTypeOK, Listener
<1>. HIDE DEF l
<1>2. /\ unread[l] = 2 /\ unread' = [unread EXCEPT ![l] = 0]
      /\ UNCHANGED <<link, stage, down, near, far>>
      /\ runs' = runs \/ runs' = [runs EXCEPT ![l] = @ + 1]
  BY DEF Reads, l
<1>3. LinkAt(l)
  BY <1>1 DEF CallInv
<1>4. /\ stage[l] \notin Early /\ unread'[l] = 0 /\ runs[l] = 0 /\ down[l] = <<>>
      /\ runs'[l] \in {0, 1}
  BY <1>1, <1>2, <1>3 DEF LinkAt, Early
<1>5. ASSUME NEW m \in Link PROVE LinkAt(m)' /\ Kept(m)
  <2>1. CASE m # l
    <3>1. LinkAt(m) /\ unread'[m] = unread[m] /\ runs'[m] = runs[m]
      BY <1>1, <1>2, <2>1 DEF CallInv
    <3>. QED
      BY <1>2, <3>1 DEF LinkAt, Kept, Served
  <2>2. CASE m = l
    BY <1>2, <1>4, <2>2 DEF LinkAt, Kept, Served
  <2>. QED
    BY <2>1, <2>2
<1>. QED
  BY <1>1, <1>2, <1>4, <1>5 DEF l

(* A process ends.                                                         *)
LEMMA EndKeeps ==
    ASSUME TypeInv, CallInv, NEW p \in Proc, NEW un, NEW half, EndLinks(p, un, half),
           UNCHANGED runs
    PROVE  \A m \in Link : LinkAt(m)' /\ Kept(m)
<1>. SUFFICES ASSUME NEW m \in Link PROVE LinkAt(m)' /\ Kept(m)
  OBVIOUS
<1>1. LinkAt(m)
  BY DEF CallInv
<1>2. /\ stage'[m] = IF link[m].from = p THEN "ended" ELSE stage[m]
      /\ down'[m] = IF link[m].from = p THEN <<>> ELSE down[m]
      /\ link' = link
  BY DEF EndLinks
<1>3. /\ unread'[m] = IF link[m].to = p THEN 0 ELSE unread[m]
      /\ link[m].to # p => far'[m] = far[m]
  BY DEF EndLinks
<1>4. link[m].from = p => stage[m] # "unused"
  BY LinkConstants DEF TypeInv, Unmade, NoInfo
<1>5. Kept(m)
  BY <1>2, <1>3 DEF Kept, Served, Early
<1>6. unread'[m] = 2 => unread[m] = 2 /\ link[m].to # p
  BY <1>3
<1>. QED
  BY <1>1, <1>2, <1>3, <1>5, <1>6 DEF LinkAt, Early

-------------------------------------------------------------------------------
(* What the steps are to the abstract specification.                       *)

Promised == [Calls!Next]_(Calls!vars)

(* The values of the refinement mapping.                                   *)
LEMMA Results ==
    ASSUME NEW l \in Link
    PROVE  /\ stage[l] = "unused" => Result(l) = "none"
           /\ stage[l] \in InProgress => Result(l) = "pending"
           /\ stage[l] \in {"true", "false"} /\ link[l].type # "CALL"
                 => Result(l) = "pending"
           /\ stage[l] \in {"true", "false"} /\ link[l].type = "CALL"
                 => Result(l) = stage[l]
           /\ stage[l] = "ended" => Result(l) = "abandoned"
  BY DEF Result, InProgress

(* The same after a step.                                                  *)
LEMMA ResultsNext ==
    ASSUME NEW l \in Link
    PROVE  /\ stage'[l] = "unused" => Result(l)' = "none"
           /\ stage'[l] \in InProgress => Result(l)' = "pending"
           /\ stage'[l] \in {"true", "false"} /\ link'[l].type # "CALL"
                 => Result(l)' = "pending"
           /\ stage'[l] \in {"true", "false"} /\ link'[l].type = "CALL"
                 => Result(l)' = stage'[l]
           /\ stage'[l] = "ended" => Result(l)' = "abandoned"
  BY DEF Result, InProgress

(* A step that leaves the links where they are is a stutter.               *)
LEMMA SamePromised ==
    ASSUME UNCHANGED <<link, stage, runs>>
    PROVE  Promised
  BY DEF Promised, Calls!vars, Result

(* A caller goes on: it waits, fails, or succeeds with a callback that     *)
(* ran.                                                                    *)
LEMMA AdvancePromised ==
    ASSUME TypeInv, NEW l \in Link, NEW s \in InProgress \cup {"true", "false"},
           Advance(l, s), stage[l] \in InProgress,
           s = "true" /\ link[l].type = "CALL" => runs[l] = 1, UNCHANGED <<link, runs>>
    PROVE  Promised
<1>1. stage \in [Link -> Stage] /\ stage' = [stage EXCEPT ![l] = s]
  BY DEF TypeInv, TypeOK, ParticipantTypeOK, LinksTypeOK, Advance
<1>2. \A m \in Link : m # l => Result(m)' = Result(m)
  BY <1>1 DEF Result
<1>3. Result(l) = "pending" /\ stage'[l] = s
  BY <1>1, Results
<1>4. CASE Result(l)' = "pending"
  <2>1. [m \in Link |-> Result(m)]' = [m \in Link |-> Result(m)]
    BY <1>2, <1>3, <1>4
  <2>. QED
    BY <2>1 DEF Promised, Calls!vars
<1>5. CASE Result(l)' # "pending"
  <2>1. s \in {"true", "false"} /\ link[l].type = "CALL" /\ Result(l)' = s
    BY <1>3, <1>5, ResultsNext
  <2>2. /\ [m \in Link |-> Result(m)][l] \in {"pending"}
        /\ [m \in Link |-> Result(m)]' = [[m \in Link |-> Result(m)] EXCEPT ![l] = s]
    BY <1>2, <1>3, <2>1
  <2>3. Calls!Step(l, {"pending"}, s)
    BY <2>2 DEF Calls!Step
  <2>4. Calls!Succeed(l) \/ Calls!Fail(l)
    BY <2>1, <2>3 DEF Calls!Succeed, Calls!Fail
  <2>. QED
    BY <2>4 DEF Promised, Calls!Next
<1>. QED
  BY <1>4, <1>5

(* A link that is made asks.                                               *)
LEMMA AskPromised ==
    ASSUME TypeInv, NEW p, NEW by, NEW type, NEW arg, NEW owner,
           Ask(p, by, type, arg, owner), UNCHANGED runs
    PROVE  Promised
<1>1. /\ link \in [Link -> LinkInfo] /\ stage \in [Link -> Stage]
      /\ Fresh \in Link /\ stage[Fresh] = "unused"
  BY FreshUnused DEF Ask, TypeInv, TypeOK, ParticipantTypeOK, LinksTypeOK
<1>2. PICK f \in Link : f = Fresh
  BY <1>1
<1>3. stage' = [stage EXCEPT ![f] = "connect"] /\ \A m \in Link : m # f => link'[m] = link[m]
  BY <1>1, <1>2 DEF Ask, Advance
<1>4. \A m \in Link : m # f => Result(m)' = Result(m)
  BY <1>1, <1>3 DEF Result
<1>5. Result(f) = "none" /\ Result(f)' = "pending"
  <2>1. stage[f] = "unused" /\ stage'[f] \in InProgress
    BY <1>1, <1>2, <1>3 DEF InProgress
  <2>. QED
    BY <2>1, Results, ResultsNext
<1>6. /\ [m \in Link |-> Result(m)][f] \in {"none"}
      /\ [m \in Link |-> Result(m)]' = [[m \in Link |-> Result(m)] EXCEPT ![f] = "pending"]
  BY <1>4, <1>5
<1>7. Calls!Ask(f)
  BY <1>6 DEF Calls!Ask, Calls!Step
<1>. QED
  BY <1>7 DEF Promised, Calls!Next

(* The request was unread, so that nothing has returned what it made.      *)
LEMMA ServePromised ==
    ASSUME TypeInv, CallInv, NEW p \in Proc, ServeCall(p)
    PROVE  Promised
<1>. DEFINE l == lis[p].link
<1>1. /\ UNCHANGED <<link, stage>> /\ unread[l] = 2 /\ l \in Link /\ runs[l] = 0
      /\ runs \in [Link -> Nat]
      /\ UNCHANGED runs \/ runs' = [runs EXCEPT ![l] = @ + 1]
  <2>1. Reads(p, "CALL")
    BY DEF ServeCall
  <2>2. UNCHANGED runs \/ runs' = [runs EXCEPT ![l] = @ + 1]
    BY DEF ServeCall
  <2>. QED
    BY <2>1, <2>2, ReadsKeep DEF Reads, TypeInv, TypeOK, MethodTypeOK
<1>. HIDE DEF l
<1>2. stage[l] \in {"wait", "ended"}
  BY <1>1 DEF CallInv, LinkAt
<1>3. Result(l) \in {"pending", "abandoned"}
  BY <1>1, <1>2, Results DEF InProgress
<1>4. [m \in Link |-> Result(m)]' = [m \in Link |-> Result(m)]
  BY <1>1 DEF Result
<1>5. CASE UNCHANGED runs
  BY <1>1, <1>5, SamePromised
<1>6. CASE runs' = [runs EXCEPT ![l] = @ + 1]
  <2>1. /\ [m \in Link |-> Result(m)][l] \in {"pending", "abandoned"}
        /\ runs' = [runs EXCEPT ![l] = 1]
    BY <1>1, <1>3, <1>6
  <2>2. Calls!Run(l)
    BY <1>1, <1>4, <2>1 DEF Calls!Run
  <2>. QED
    BY <1>1, <2>2 DEF Promised, Calls!Next
<1>. QED
  BY <1>1, <1>5, <1>6

(* The calls of a process that ends are abandoned.                         *)
LEMMA EndPromised ==
    ASSUME TypeInv, NEW p \in Proc, NEW un, NEW half, EndLinks(p, un, half),
           UNCHANGED runs
    PROVE  Promised
<1>. DEFINE R == {m \in Link : link[m].from = p}
            result == [m \in Link |-> Result(m)]
<1>1. link' = link /\ \A m \in Link : stage'[m] = IF m \in R THEN "ended" ELSE stage[m]
  BY DEF EndLinks
<1>2. \A m \in Link : m \in R => stage[m] # "unused" /\ stage[m] \in Stage
  BY LinkConstants DEF TypeInv, Unmade, NoInfo, TypeOK, ParticipantTypeOK, LinksTypeOK
<1>3. \A m \in R : result[m] # "none"
  BY <1>2 DEF Result, Stage
<1>4. \A m \in Link : Result(m)' = IF m \in R THEN "abandoned" ELSE Result(m)
  <2>1. ASSUME NEW m \in Link, m \in R PROVE Result(m)' = "abandoned"
    BY <1>1, <2>1, ResultsNext
  <2>2. ASSUME NEW m \in Link, m \notin R PROVE Result(m)' = Result(m)
    BY <1>1, <2>2 DEF Result
  <2>. QED
    BY <2>1, <2>2
<1>5. [m \in Link |-> Result(m)]' = [m \in Link |-> IF m \in R THEN "abandoned" ELSE result[m]]
  BY <1>4
<1>6. R \in SUBSET Link
  OBVIOUS
<1>. HIDE DEF R
<1>7. Calls!Abandon(R)
  BY <1>3, <1>5 DEF Calls!Abandon
<1>. QED
  BY <1>6, <1>7 DEF Promised, Calls!Next

-------------------------------------------------------------------------------
(* The steps of the program.                                               *)

Good == CallInv' /\ Promised

(* The links are well, and neither the listening threads nor the entries   *)
(* of the subscribers have changed.                                        *)
LEMMA KeepsGood ==
    ASSUME TypeInv, CallInv, \A m \in Link : LinkAt(m)' /\ Kept(m), Promised,
           UNCHANGED <<lis, client_map>>
    PROVE  Good
  BY ServersKeep, ListsKeep DEF Good, CallInv

(* What the application's thread and the event worker do without links.    *)
LEMMA AsideGood ==
    ASSUME TypeInv, CallInv, UNCHANGED <<linkVars, runs, lis, client_map>>
    PROVE  Good
  BY SameLinksKeep, SamePromised, KeepsGood

(* The listening thread of p alone has changed.                            *)
LEMMA ListenerGood ==
    ASSUME TypeInv, CallInv, \A m \in Link : LinkAt(m)' /\ Kept(m), Promised,
           NEW p \in Proc, \A q \in Proc : q # p => lis'[q] = lis[q], ServerAt(p)',
           UNCHANGED client_map
    PROVE  Good
<1>1. \A q \in Proc : ServerAt(q)'
  BY ServersKeep
<1>. QED
  BY <1>1, ListsKeep DEF Good, CallInv

(* The listening thread answers what it has read, with OK for a callback   *)
(* that ran.                                                               *)
LEMMA ListeningGood ==
    ASSUME TypeInv, CallInv, NEW p \in Proc, Listening(p), UNCHANGED <<client_map, runs>>
    PROVE  Good
<1>1. lis \in [Proc -> Listener] /\ ServerAt(p)
  BY DEF TypeInv, TypeOK, ParticipantTypeOK, CallInv
<1>2. CASE Listen(p) \/ Accept(p) \/ Incomplete(p)
  <2>1. UNCHANGED linkVars /\ \A q \in Proc : q # p => lis'[q] = lis[q]
    BY <1>1, <1>2 DEF Listen, Accept, Incomplete
  <2>2. lis'[p].pc \in {"accept", "read"}
    BY <1>1, <1>2 DEF Listen, Accept, Incomplete, Free, Listener
  <2>3. ServerAt(p)'
    BY <2>2 DEF ServerAt
  <2>. QED
    BY <2>1, <2>3, SameLinksKeep, SamePromised, ListenerGood
<1>3. CASE AnswerHeader(p) \/ AnswerBody(p)
  <2>. DEFINE l == lis[p].link
              ok == IF lis[p].ok THEN OK ELSE Refused
              chunk == IF lis[p].pc = "header" THEN Header(AnswerType(l))
                       ELSE Body(AnswerType(l), ok)
  <2>1. /\ lis[p].pc \in {"header", "body"} /\ l \in Link
        /\ lis[p].pc = "header" => lis' = [lis EXCEPT ![p].pc = "body"]
        /\ lis[p].pc = "body" => lis' = [lis EXCEPT ![p] = Free]
        /\ UNCHANGED <<link, stage, unread, far>>
    BY <1>3 DEF AnswerHeader, AnswerBody, TypeInv, TypeOK, ParticipantTypeOK, Listener
  <2>2. Write(l, chunk)
    BY <1>3 DEF AnswerHeader, AnswerBody
  <2>3. chunk \in Chunk
    BY Chunks DEF AnswerType
  <2>4. Served(l)
    BY <1>1, <2>1 DEF ServerAt
  <2>5. chunk = Body("RESPONSE", OK) => runs[l] = 1
    <3>1. SUFFICES ASSUME chunk = Body("RESPONSE", OK) PROVE runs[l] = 1
      OBVIOUS
    <3>2. chunk.part = "body" /\ chunk.type = "RESPONSE" /\ chunk.n = 1
      BY <3>1 DEF Body, OK
    <3>3. lis[p].pc = "body"
      BY <2>1, <3>2 DEF Header
    <3>4. lis[p].ok /\ link[l].type # "SUBSCRIBE"
      BY <3>2, <3>3 DEF Body, AnswerType, OK, Refused
    <3>5. link[l].type = "CALL"
      BY <2>1, <3>4 DEF TypeInv, TypeOK, ParticipantTypeOK, LinksTypeOK, LinkInfo
    <3>. QED
      BY <1>1, <3>3, <3>4, <3>5 DEF ServerAt
  <2>. HIDE DEF chunk, ok
  <2>6. \A m \in Link : LinkAt(m)' /\ Kept(m)
    BY <2>1, <2>2, <2>3, <2>4, <2>5, WriteKeeps
  <2>7. \A q \in Proc : q # p => lis'[q] = lis[q]
    BY <1>1, <2>1
  <2>8. ServerAt(p)'
    <3>1. CASE lis[p].pc = "header"
      <4>1. lis'[p].link = l /\ lis'[p].ok = lis[p].ok /\ lis'[p].pc = "body"
        BY <1>1, <2>1, <3>1 DEF Listener
      <4>2. Kept(l)
        BY <2>1, <2>6
      <4>. QED
        BY <1>1, <2>1, <2>4, <3>1, <4>1, <4>2 DEF ServerAt, Kept, Served
    <3>2. CASE lis[p].pc = "body"
      BY <1>1, <2>1, <3>2 DEF ServerAt, Free
    <3>. QED
      BY <2>1, <3>1, <3>2
  <2>. QED
    BY <2>1, <2>6, <2>7, <2>8, SamePromised, ListenerGood
<1>. QED
  BY <1>2, <1>3 DEF Listening

(* Steps that belong neither to events nor to methods.                     *)
LEMMA SharedGood ==
    ASSUME TypeInv, CallInv, Shared, UNCHANGED <<eventVars, methodVars>>
    PROVE  Good
<1>1. ASSUME NEW p \in Proc, Join(p) \/ Forget(p) PROVE Good
  BY <1>1, AsideGood DEF Join, Forget
<1>2. ASSUME NEW p \in Proc, Listening(p) PROVE Good
  BY <1>2, ListeningGood
<1>3. ASSUME NEW l \in Link, Client(l) PROVE Good
  <2>1. PICK s \in {"body", "wait", "false"} : Advance(l, s)
    BY <1>3 DEF Client, Connect, ConnectRefused, WriteBody
  <2>2. stage[l] \in InProgress /\ UNCHANGED <<link, lis>>
    BY <1>3 DEF Client, Connect, ConnectRefused, WriteBody, InProgress
  <2>3. Promised
    <3>1. s \in InProgress \cup {"true", "false"} /\ s # "true"
      BY DEF InProgress
    <3>. QED
      BY <2>1, <2>2, <3>1, AdvancePromised
  <2>. QED
    BY <1>3, <2>2, <2>3, ClientKeeps, KeepsGood
<1>. QED
  BY <1>1, <1>2, <1>3 DEF Shared

(* A client goes on with its answer.                                       *)
LEMMA ReaderGood ==
    ASSUME TypeInv, CallInv, NEW l \in Link, NEW s \in Stage \ Early, Advance(l, s),
           s # "ended", stage[l] \in InProgress \ Early,
           \/ down[l] # <<>> /\ Take(l)
           \/ (Eof(l) \/ Reset(l) \/ stage[l] # "wait") /\ UNCHANGED down,
           s = "true" /\ link[l].type = "CALL" => runs[l] = 1,
           UNCHANGED <<link, unread, far, runs, lis, client_map>>
    PROVE  Good
<1>1. stage[l] \notin Early /\ stage[l] # "ended"
  BY DEF InProgress
<1>2. \A m \in Link : LinkAt(m)' /\ Kept(m)
  BY <1>1, ClientReadKeeps
<1>3. s \in InProgress \cup {"true", "false"}
  BY DEF Stage, Early
<1>4. Promised
  BY <1>3, AdvancePromised
<1>. QED
  BY <1>2, <1>4, KeepsGood

(* The caller reads its response: OK has been written for a callback that  *)
(* ran.                                                                    *)
LEMMA CallingGood ==
    ASSUME TypeInv, CallInv, NEW l \in Link, Calling(l), UNCHANGED eventVars
    PROVE  Good
<1>1. PICK s \in {"content", "true", "false"} :
         /\ Advance(l, s)
         /\ s = "true" => ReadResponse(l) /\ Head(down[l]) = Body("RESPONSE", OK)
  BY DEF Calling, ReadResponseHeader, ReadResponse, ResponseLost
<1>2. /\ stage[l] \in {"wait", "content"}
      /\ \/ down[l] # <<>> /\ Take(l)
         \/ (Eof(l) \/ Reset(l)) /\ UNCHANGED down
      /\ UNCHANGED <<link, unread, far, runs, lis, client_map>>
  BY DEF Calling, ReadResponseHeader, ReadResponse, ResponseLost, CallAt, CallReads
<1>3. s \in Stage \ Early /\ stage[l] \in InProgress \ Early /\ s # "ended"
  BY <1>2 DEF Stage, InProgress, Early
<1>4. s = "true" => runs[l] = 1
  <2>1. SUFFICES ASSUME s = "true" PROVE runs[l] = 1
    OBVIOUS
  <2>2. down[l] \in Seq(Chunk) /\ down[l] # <<>> /\ Head(down[l]) = Body("RESPONSE", OK)
    BY <1>1, <2>1 DEF ReadResponse, TypeInv, TypeOK, ParticipantTypeOK, LinksTypeOK
  <2>3. 1 \in 1..Len(down[l]) /\ down[l][1] = Body("RESPONSE", OK)
    BY <2>2, HeadTailProperties, LenProperties, EmptySeq
  <2>. QED
    BY <2>3 DEF CallInv, LinkAt
<1>. QED
  BY <1>1, <1>2, <1>3, <1>4, ReaderGood

(* Every other step of method calls.                                       *)
LEMMA MethodStepGood ==
    ASSUME TypeInv, CallInv, NEW p \in Proc, MethodNext(p), UNCHANGED eventVars
    PROVE  Good
<1>0. lis \in [Proc -> Listener] /\ ServerAt(p)
  BY DEF TypeInv, TypeOK, ParticipantTypeOK, CallInv
<1>1. ASSUME NEW m \in Method, Provide(p, m) PROVE Good
  BY <1>1, AsideGood DEF Provide
<1>2. CASE Provided(p)
  BY <1>2, AsideGood DEF Provided
<1>3. ASSUME NEW m \in Method, Call(p, m) PROVE Good
  BY <1>3, AskKeeps, AskPromised, KeepsGood DEF Call
<1>4. CASE ServeCall(p)
  <2>. DEFINE l == lis[p].link
  <2>1. /\ Reads(p, "CALL")
        /\ runs' = runs \/ runs' = [runs EXCEPT ![l] = @ + 1]
    BY <1>4 DEF ServeCall
  <2>2. /\ \A m \in Link : LinkAt(m)' /\ Kept(m)
        /\ l \in Link /\ stage'[l] \notin Early /\ unread'[l] = 0 /\ runs[l] = 0
    BY <2>1, ReadsKeep
  <2>3. /\ lis'[p].link = l /\ \A q \in Proc : q # p => lis'[q] = lis[q]
        /\ \/ lis'[p].pc = "callback" /\ runs' = [runs EXCEPT ![l] = @ + 1]
           \/ lis'[p].pc = "header" /\ lis'[p].ok = FALSE
    BY <1>0, <1>4 DEF ServeCall, Answers, Listener
  <2>4. lis'[p].pc = "callback" => runs'[l] = 1
    BY <2>2, <2>3 DEF TypeInv, TypeOK, MethodTypeOK
  <2>5. ServerAt(p)'
    BY <2>2, <2>3, <2>4 DEF ServerAt, Served
  <2>. QED
    BY <1>4, <2>2, <2>3, <2>5, ServePromised, ListenerGood
<1>5. CASE CallbackCalls(p)
  <2>. DEFINE m == Nested[link[lis[p].link].arg]
              f == Fresh
  <2>1. /\ Ask(p, "callback", "CALL", m, provider[m])
        /\ lis' = [lis EXCEPT ![p].nested = f] /\ UNCHANGED <<runs, client_map>>
    BY <1>5 DEF CallbackCalls
  <2>2. (\A k \in Link : LinkAt(k)' /\ Kept(k)) /\ Promised
    BY <2>1, AskKeeps, AskPromised
  <2>. HIDE DEF f, m
  <2>3. /\ lis'[p].link = lis[p].link /\ lis'[p].pc = lis[p].pc
        /\ lis'[p].ok = lis[p].ok /\ \A q \in Proc : q # p => lis'[q] = lis[q]
    BY <1>0, <2>1 DEF Listener
  <2>4. lis[p].pc = "callback" /\ lis[p].link \in Link
    BY <1>5 DEF CallbackCalls, InCallback, TypeInv, TypeOK, ParticipantTypeOK, Listener
  <2>5. ServerAt(p)'
    BY <1>0, <2>2, <2>3, <2>4 DEF ServerAt, Kept
  <2>. QED
    BY <2>1, <2>2, <2>3, <2>5, ListenerGood
<1>6. CASE CallbackReturns(p)
  <2>1. /\ lis[p].pc = "callback" /\ UNCHANGED <<linkVars, runs, client_map>>
        /\ lis'[p].link = lis[p].link /\ lis'[p].pc = "header"
        /\ \A q \in Proc : q # p => lis'[q] = lis[q]
    BY <1>0, <1>6 DEF CallbackReturns, Answers, InCallback, Listener
  <2>2. ServerAt(p)'
    BY <1>0, <2>1 DEF ServerAt, Served
  <2>. QED
    BY <2>1, <2>2, SameLinksKeep, SamePromised, ListenerGood
<1>. QED
  BY <1>1, <1>2, <1>3, <1>4, <1>5, <1>6 DEF MethodNext

(* The subscriber reads its answer.                                        *)
LEMMA SubscribingGood ==
    ASSUME TypeInv, CallInv, NEW l \in Link, Subscribing(l), UNCHANGED methodVars
    PROVE  Good
<1>1. PICK s \in {"content", "mixed", "granted", "push", "true", "false"} : Advance(l, s)
  BY DEF Subscribing, ReadAnswerHeader, ReadAnswer, ReadMixed, NoAnswer, AnswerLost,
         RecordSubscription, PushSubscription
<1>2. /\ stage[l] \in {"wait", "content", "mixed", "granted", "push"}
      /\ link[l].type = "SUBSCRIBE"
      /\ \/ down[l] # <<>> /\ Take(l)
         \/ (Eof(l) \/ Reset(l) \/ stage[l] # "wait") /\ UNCHANGED down
      /\ UNCHANGED <<link, unread, far, runs, lis, client_map>>
  BY DEF Subscribing, ReadAnswerHeader, ReadAnswer, ReadMixed, NoAnswer, AnswerLost,
         RecordSubscription, PushSubscription, SubscribeAt, LinkOnly
<1>3. s \in Stage \ Early /\ stage[l] \in InProgress \ Early /\ s # "ended"
  BY <1>2 DEF Stage, InProgress, Early
<1>. QED
  BY <1>1, <1>2, <1>3, ReaderGood

(* The event worker reads whole chunks, of whatever link.                  *)
LEMMA WorkerGood ==
    ASSUME TypeInv, CallInv, NEW p \in Proc, EventWorker(p), UNCHANGED methodVars
    PROVE  Good
<1>1. UNCHANGED <<link, stage, unread, far, runs, lis, client_map>>
  BY DEF EventWorker, DrainNew, StartPoll, Poll, ScanDone, ReadHeader, ReadEof,
         RunCallback, RunCallbackShort
<1>2. UNCHANGED linkVars \/ \E l : down[l] # <<>> /\ Take(l)
  BY DEF EventWorker, DrainNew, StartPoll, Poll, ScanDone, ReadHeader, ReadEof,
         RunCallback, RunCallbackShort
<1>3. CASE UNCHANGED linkVars
  BY <1>1, <1>3, AsideGood
<1>4. CASE \E l : down[l] # <<>> /\ Take(l)
  BY <1>1, <1>4, TakeKeeps, SamePromised, KeepsGood
<1>. QED
  BY <1>2, <1>3, <1>4

(* An event is written to a link whose request was read.                   *)
LEMMA EventWriteGood ==
    ASSUME TypeInv, CallInv, NEW p \in Proc, NEW n \in Name, app[p].arg \in Topic,
           NEW chunk \in Chunk, chunk.type = "EVENT",
           Write(client_map[p][app[p].arg][n], chunk),
           UNCHANGED <<link, stage, unread, far, runs, lis, client_map>>
    PROVE  Good
<1>. DEFINE l == client_map[p][app[p].arg][n]
<1>1. l \in Link => Served(l)
  BY DEF CallInv, ListedAt, Link, NoLink
<1>2. chunk # Body("RESPONSE", OK)
  BY DEF Body
<1>. HIDE DEF l
<1>3. \A m \in Link : LinkAt(m)' /\ Kept(m)
  BY <1>1, <1>2, WriteKeeps DEF l
<1>. QED
  BY <1>3, SamePromised, KeepsGood

(* No entry is made; some may be gone.                                     *)
LEMMA FewerListedGood ==
    ASSUME TypeInv, CallInv, UNCHANGED <<linkVars, runs, lis>>,
           \A p \in Proc, t \in Topic, n \in Name :
              client_map'[p][t][n] \in {client_map[p][t][n], NoLink}
    PROVE  Good
<1>1. \A m \in Link : LinkAt(m)' /\ Kept(m)
  BY SameLinksKeep
<1>2. \A p \in Proc : ServerAt(p)'
  BY <1>1, ServersKeep
<1>3. \A p \in Proc : ListedAt(p)'
  BY DEF CallInv, ListedAt, Served
<1>. QED
  BY <1>1, <1>2, <1>3, SamePromised DEF Good, CallInv

(* publish_event() and what follows advertise_event().                     *)
LEMMA PublishingGood ==
    ASSUME TypeInv, CallInv, NEW p \in Proc, Publishing(p), UNCHANGED methodVars
    PROVE  Good
<1>0. /\ client_map \in [Proc -> [Topic -> [Name -> Link \cup {NoLink}]]]
      /\ walk[p] \in Walk /\ AppAt(p) /\ count \in [Proc -> [Topic -> 0..MaxEvents]]
  BY DEF TypeInv, TypeOK, EventTypeOK, ThreadsAt
<1>1. CASE Advertised(p)
  <2>1. \A q \in Proc, t \in Topic, n \in Name :
           client_map'[q][t][n] \in {client_map[q][t][n], NoLink}
    BY <1>0, <1>1 DEF Advertised, Unlisted
  <2>. QED
    BY <1>1, <2>1, FewerListedGood DEF Advertised
<1>2. ASSUME NEW n \in Name, EventHeader(p, n) PROVE Good
  <2>1. Header("EVENT") \in Chunk /\ Header("EVENT").type = "EVENT"
    BY Chunks DEF Header
  <2>2. app[p].arg \in Topic
    BY <1>0, <1>2 DEF EventHeader, Walking, AppAt
  <2>. QED
    BY <1>2, <2>1, <2>2, EventWriteGood DEF EventHeader
<1>3. CASE EventBody(p)
  <2>1. app[p].arg \in Topic /\ walk[p].at \in Name
    BY <1>0, <1>3 DEF EventBody, Walking, AppAt, Walk
  <2>2. count[p][app[p].arg] \in Nat
    BY <1>0, <2>1
  <2>. DEFINE chunk == Body("EVENT", count[p][app[p].arg])
  <2>3. chunk \in Chunk /\ chunk.type = "EVENT"
    BY <2>2, Chunks DEF Body
  <2>4. Write(client_map[p][app[p].arg][walk[p].at], chunk)
    BY <1>3 DEF EventBody
  <2>5. UNCHANGED <<link, stage, unread, far, lis, client_map>>
    BY <1>3 DEF EventBody
  <2>. HIDE DEF chunk
  <2>. QED
    BY <2>1, <2>3, <2>4, <2>5, EventWriteGood
<1>4. CASE WalkEnds(p)
  BY <1>4, AsideGood DEF WalkEnds
<1>5. CASE EraseDead(p)
  <2>1. \A q \in Proc, t \in Topic, n \in Name :
           client_map'[q][t][n] \in {client_map[q][t][n], NoLink}
    BY <1>0, <1>5 DEF EraseDead
  <2>. QED
    BY <1>5, <2>1, FewerListedGood DEF EraseDead
<1>. QED
  BY <1>1, <1>2, <1>3, <1>4, <1>5 DEF Publishing

(* The entry that is made is of the link that was read.                    *)
LEMMA ServeSubscribeGood ==
    ASSUME TypeInv, CallInv, NEW p \in Proc, ServeSubscribe(p), UNCHANGED methodVars
    PROVE  Good
<1>. DEFINE l == lis[p].link
<1>0. /\ lis \in [Proc -> Listener]
      /\ client_map \in [Proc -> [Topic -> [Name -> Link \cup {NoLink}]]]
  BY DEF TypeInv, TypeOK, ParticipantTypeOK, EventTypeOK
<1>1. Reads(p, "SUBSCRIBE") /\ UNCHANGED runs
  BY DEF ServeSubscribe
<1>2. /\ \A m \in Link : LinkAt(m)' /\ Kept(m)
      /\ l \in Link /\ stage'[l] \notin Early /\ unread'[l] = 0
  BY <1>1, ReadsKeep
<1>3. /\ lis'[p].link = l /\ lis'[p].pc = "header"
      /\ \A q \in Proc : q # p => lis'[q] = lis[q]
  BY <1>0 DEF ServeSubscribe, Answers, Listener
<1>4. link'[l].type = "SUBSCRIBE" /\ UNCHANGED <<link, stage>>
  BY <1>1 DEF Reads
<1>5. ServerAt(p)'
  BY <1>2, <1>3, <1>4 DEF ServerAt, Served
<1>6. \A q \in Proc : ServerAt(q)'
  BY <1>2, <1>3, <1>5, ServersKeep
<1>7. \A q \in Proc : ListedAt(q)'
  <2>. DEFINE u == link[l].arg
              k == NameOf[link[l].from]
  <2>1. UNCHANGED client_map \/ client_map' = [client_map EXCEPT ![p][u][k] = l]
    BY DEF ServeSubscribe, Enlist
  <2>. HIDE DEF l, u, k
  <2>2. ASSUME NEW q \in Proc, NEW t \in Topic, NEW n \in Name
        PROVE  client_map'[q][t][n] \in {client_map[q][t][n], l}
    <3>. DEFINE topics == client_map[p]
                entries == topics[u]
    <3>1. CASE q = p /\ t = u /\ client_map' # client_map
      <4>1. client_map' = [client_map EXCEPT ![p] =
                             [topics EXCEPT ![u] = [entries EXCEPT ![k] = l]]]
        BY <2>1, <3>1
      <4>2. /\ p \in DOMAIN client_map /\ t \in DOMAIN topics
            /\ n \in DOMAIN entries /\ entries = client_map[q][t]
        BY <1>0, <3>1
      <4>. HIDE DEF topics, entries
      <4>3. client_map'[q][t] = [entries EXCEPT ![k] = l]
        BY <3>1, <4>1, <4>2
      <4>. QED
        BY <4>2, <4>3
    <3>2. CASE q # p \/ t # u \/ client_map' = client_map
      <4>1. client_map'[q][t] = client_map[q][t]
        BY <1>0, <2>1, <3>2
      <4>. QED
        BY <4>1
    <3>. QED
      BY <3>1, <3>2
  <2>3. ASSUME NEW m \in Link, Served(m) PROVE stage'[m] \notin Early /\ unread'[m] = 0
    BY <1>2, <2>3 DEF Kept, Served
  <2>4. SUFFICES ASSUME NEW q \in Proc, NEW t \in Topic, NEW n \in Name,
                        client_map'[q][t][n] # NoLink
                 PROVE  Served(client_map[q][t][n])'
    BY DEF ListedAt
  <2>5. CASE client_map'[q][t][n] = l
    BY <1>2, <2>5 DEF Served
  <2>6. CASE client_map'[q][t][n] = client_map[q][t][n]
    <3>1. client_map[q][t][n] \in Link /\ Served(client_map[q][t][n])
      BY <1>0, <2>4, <2>6 DEF CallInv, ListedAt
    <3>. QED
      BY <2>3, <2>6, <3>1 DEF Served
  <2>. QED
    BY <2>2, <2>5, <2>6
<1>8. Promised
  BY <1>1, <1>4, SamePromised
<1>. QED
  BY <1>2, <1>6, <1>7, <1>8 DEF Good, CallInv

(* Every other step of the event plane.                                    *)
LEMMA EventStepGood ==
    ASSUME TypeInv, CallInv, NEW p \in Proc, EventNext(p), UNCHANGED methodVars
    PROVE  Good
<1>1. ASSUME NEW t \in Topic, Advertise(p, t) \/ Publish(p, t) PROVE Good
  BY <1>1, AsideGood DEF Advertise, Publish
<1>2. ASSUME NEW t \in Topic, Subscribe(p, t) PROVE Good
  BY <1>2, AskKeeps, AskPromised, KeepsGood DEF Subscribe
<1>. QED
  BY <1>1, <1>2, PublishingGood, ServeSubscribeGood, WorkerGood DEF EventNext

(* The process takes its threads and its entries with it.                  *)
LEMMA EndGood ==
    ASSUME TypeInv, CallInv, NEW p \in Proc, End(p)
    PROVE  Good
<1>0. /\ lis \in [Proc -> Listener]
      /\ client_map \in [Proc -> [Topic -> [Name -> Link \cup {NoLink}]]]
  BY DEF TypeInv, TypeOK, ParticipantTypeOK, EventTypeOK
<1>1. PICK un, half : EndLinks(p, un, half) /\ UNCHANGED runs
  BY DEF End, EndParticipant, EndMethods
<1>2. (\A m \in Link : LinkAt(m)' /\ Kept(m)) /\ Promised
  BY <1>1, EndKeeps, EndPromised
<1>3. /\ lis'[p].pc = "starting" /\ \A q \in Proc : q # p => lis'[q] = lis[q]
      /\ client_map' = [client_map EXCEPT ![p] = [t \in Topic |-> Unlisted]]
  BY <1>0 DEF End, EndParticipant, EndEvents, Free
<1>4. ServerAt(p)'
  BY <1>3 DEF ServerAt
<1>5. \A q \in Proc : ServerAt(q)'
  BY <1>2, <1>3, <1>4, ServersKeep
<1>6. ASSUME NEW q \in Proc, NEW t \in Topic, NEW n \in Name,
             client_map'[q][t][n] # NoLink
      PROVE  Served(client_map[q][t][n])'
  <2>1. client_map'[q][t][n] = client_map[q][t][n]
    BY <1>0, <1>3, <1>6 DEF Unlisted
  <2>2. client_map[q][t][n] \in Link /\ Served(client_map[q][t][n])
    BY <1>0, <1>6, <2>1 DEF CallInv, ListedAt
  <2>3. stage'[client_map[q][t][n]] \notin Early /\ unread'[client_map[q][t][n]] = 0
    BY <1>2, <2>2 DEF Kept, Served
  <2>. QED
    BY <2>1, <2>3 DEF Served
<1>7. \A q \in Proc : ListedAt(q)'
  BY <1>6 DEF ListedAt
<1>. QED
  BY <1>2, <1>5, <1>7 DEF Good, CallInv

(* Every step keeps CallInv and is one of the abstract specification.      *)
LEMMA StepGood ==
    ASSUME TypeInv, CallInv, [Next]_vars
    PROVE  Good
<1>1. CASE UNCHANGED vars
  BY <1>1, AsideGood DEF vars
<1>2. CASE Next
  BY <1>2, SharedGood, EventStepGood, SubscribingGood, MethodStepGood, CallingGood,
     EndGood DEF Next, Events, Methods
<1>. QED
  BY <1>1, <1>2

(* So it begins.                                                           *)
LEMMA InitGood ==
    ASSUME Init
    PROVE  CallInv /\ Calls!Init
<1>1. CallInv
  BY EmptySeq DEF Init, ParticipantInit, LinksInit, EventInit, MethodInit, CallInv,
         LinkAt, ServerAt, ListedAt, Early, Free, Unlisted
<1>2. Calls!Init
  <2>1. \A l \in Link : Result(l) = "none"
    BY Results DEF Init, ParticipantInit, LinksInit
  <2>. QED
    BY <2>1 DEF Init, MethodInit, Calls!Init
<1>. QED
  BY <1>1, <1>2

(* Whoever ends or is forgotten at whatever moment: a callback runs at     *)
(* most once for a call, a call that returns true has run it, and none     *)
(* runs when the call has returned false.                                  *)
THEOREM CallsImplementRequests == Spec => CallsAreRequests
<1>1. Init => CallInv /\ Calls!Init
  BY InitGood
<1>2. TypeInv /\ CallInv /\ [Next]_vars => CallInv' /\ [Calls!Next]_(Calls!vars)
  BY StepGood DEF Good, Promised
<1>. QED
  BY <1>1, <1>2, TypeInvariant, PTL DEF Spec, CallsAreRequests, Calls!Spec
===============================================================================
