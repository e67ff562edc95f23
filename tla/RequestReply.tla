------------------------------ MODULE RequestReply -----------------------------
(***************************************************************************)
(* What a method call promises: the callback runs at most once for a call; *)
(* a call that returns true has run it; and it does not run after the call *)
(* has returned false.  A call that failed may have run it.                *)
(***************************************************************************)
EXTENDS Naturals

CONSTANTS Request

VARIABLES
    result,         \* [Request -> "none", "pending", "true", "false", or
                    \*  "abandoned" when the caller is no more]
    runs            \* [Request -> 0..1]

vars == <<result, runs>>

Init ==
    /\ result = [r \in Request |-> "none"]
    /\ runs = [r \in Request |-> 0]

Step(r, from, to) ==
    /\ result[r] \in from
    /\ result' = [result EXCEPT ![r] = to]
    /\ UNCHANGED runs

Ask(r) == Step(r, {"none"}, "pending")

Run(r) ==
    /\ result[r] \in {"pending", "abandoned"} /\ runs[r] = 0
    /\ runs' = [runs EXCEPT ![r] = 1]
    /\ UNCHANGED result

Succeed(r) == runs[r] = 1 /\ Step(r, {"pending"}, "true")

Fail(r) == Step(r, {"pending"}, "false")

(* All the calls of a process are abandoned when it ends.                  *)
Abandon(R) ==
    /\ \A r \in R : result[r] # "none"
    /\ result' = [r \in Request |-> IF r \in R THEN "abandoned" ELSE result[r]]
    /\ UNCHANGED runs

Next ==
    \/ \E r \in Request : Ask(r) \/ Run(r) \/ Succeed(r) \/ Fail(r)
    \/ \E R \in SUBSET Request : Abandon(R)

Spec == Init /\ [][Next]_vars
===============================================================================
