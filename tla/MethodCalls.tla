------------------------------ MODULE MethodCalls ------------------------------
(***************************************************************************)
(* Method calls: provide_method(), call_method(), and the branch of the    *)
(* listening thread that runs the callback of a method.  While it does,    *)
(* the process accepts nobody else; a callback may itself call a method.   *)
(***************************************************************************)
EXTENDS Participant

CONSTANT
    Nested          \* [Method -> the method its callback may call, or None]

ASSUME NestedCalls == Nested \in [Method -> Method \cup {None}]

VARIABLES
    method_list,    \* [Proc -> the keys of method_list_]
    runs            \* [Link -> how often the callback was run for the call]

methodVars == <<method_list, runs>>

(* The types of the methods.                                               *)
MethodTypeOK ==
    /\ method_list \in [Proc -> SUBSET Method]
    /\ runs \in [Link -> Nat]

MethodInit ==
    /\ method_list = [p \in Proc |-> {}]
    /\ runs = [l \in Link |-> 0]

(* The master knows the provider before the provider does.                 *)
Provide(p, m) ==
    /\ Starts(p, "provide", m)
    /\ Master!Provide(p, m)
    /\ app' = [app EXCEPT ![p] = [op |-> "provide", arg |-> m]]
    /\ UNCHANGED <<linkVars, proc, lis, backlog, methodVars>>

Provided(p) ==
    /\ Up(p) /\ app[p].op = "provide"
    /\ method_list' = [method_list EXCEPT ![p] = @ \cup {app[p].arg}]
    /\ app' = [app EXCEPT ![p] = AtRest]
    /\ UNCHANGED <<linkVars, directoryVars, proc, lis, backlog, runs>>

-------------------------------------------------------------------------------
(* The caller.                                                             *)

Call(p, m) ==
    /\ Starts(p, "call", m)
    /\ Ask(p, "app", "CALL", m, provider[m])
    /\ UNCHANGED <<directoryVars, proc, app, lis, backlog, methodVars>>

CallAt(l, s) == link[l].type = "CALL" /\ stage[l] = s

CallReads(l) ==
    UNCHANGED <<link, unread, near, far, directoryVars, proc, app, lis, backlog,
                methodVars>>

ReadResponseHeader(l) ==
    /\ CallAt(l, "wait") /\ down[l] # <<>>
    /\ Advance(l, IF Head(down[l]) = Header("RESPONSE") THEN "content" ELSE "false")
    /\ Take(l)
    /\ CallReads(l)

(* Mutation: a refusal passes for a response.                              *)
ReadAnyResponse(l) ==
    /\ CallAt(l, "content") /\ down[l] # <<>>
    /\ Advance(l, "true")
    /\ Take(l)
    /\ CallReads(l)

ReadResponse(l) ==
    /\ CallAt(l, "content") /\ down[l] # <<>>
    /\ Advance(l, IF Head(down[l]) = Body("RESPONSE", OK) THEN "true" ELSE "false")
    /\ Take(l)
    /\ CallReads(l)

(* No header, or no content, which is parsed as it is and is no JSON.      *)
ResponseLost(l) ==
    /\ link[l].type = "CALL" /\ stage[l] \in {"wait", "content"}
    /\ Eof(l) \/ Reset(l)
    /\ Advance(l, "false")
    /\ UNCHANGED down
    /\ CallReads(l)

-------------------------------------------------------------------------------
(* The provider.                                                           *)


ServeCall(p) ==
    LET l == lis[p].link
    IN  /\ Reads(p, "CALL")
        /\ IF link[l].arg \in method_list[p]
           THEN /\ lis' = [lis EXCEPT ![p].pc = "callback"]
                /\ runs' = [runs EXCEPT ![l] = @ + 1]
           ELSE Answers(p, FALSE) /\ UNCHANGED runs
        /\ UNCHANGED <<directoryVars, proc, app, backlog, method_list>>

InCallback(p) == Up(p) /\ lis[p].pc = "callback"

CallbackCalls(p) ==
    LET m == Nested[link[lis[p].link].arg]
    IN  /\ InCallback(p) /\ lis[p].nested = NoLink
        /\ m # None
        /\ Ask(p, "callback", "CALL", m, provider[m])
        /\ lis' = [lis EXCEPT ![p].nested = Fresh]
        /\ UNCHANGED <<directoryVars, proc, app, backlog, methodVars>>

Waits(p) == lis[p].nested # NoLink /\ stage[lis[p].nested] \in InProgress

CallbackReturns(p) ==
    /\ InCallback(p) /\ ~Waits(p)
    /\ Answers(p, TRUE)
    /\ UNCHANGED <<linkVars, directoryVars, proc, app, backlog, methodVars>>

-------------------------------------------------------------------------------
EndMethods(p) ==
    /\ method_list' = [method_list EXCEPT ![p] = {}]
    /\ UNCHANGED runs

Calling(l) == ReadResponseHeader(l) \/ ReadResponse(l) \/ ResponseLost(l)

MethodNext(p) ==
    \/ \E m \in Method : Provide(p, m) \/ Call(p, m)
    \/ Provided(p) \/ ServeCall(p) \/ CallbackCalls(p) \/ CallbackReturns(p)
===============================================================================
