---------------------------- MODULE MCControlPlane ----------------------------
(* Small instances of ControlPlane for TLC.                                *)
EXTENDS ControlPlane

CONSTANTS c1, c2, n1, n2, t1, m1

Publish == [type |-> "EVENT_REGISTER", arg |-> t1]
Subscribe == [type |-> "EVENT_SUBSCRIBE", arg |-> t1]
Provide == [type |-> "METHOD_PROVIDE", arg |-> m1]
Query == [type |-> "METHOD_QUERY", arg |-> m1]
List == [type |-> "DEBUG", arg |-> None]

BadQuery == [type |-> "METHOD_QUERY", arg |-> Malformed]
BadList == [type |-> "DEBUG", arg |-> Malformed]

OneName == {n1}
TwoNames == {n1, n2}
AnyJoiner == {n1, n2, WrongVersion, Malformed}
PublishOnly == {Publish}
SubscribeOnly == {Subscribe}
EventRequests == {Publish, Subscribe, List, BadList}
MethodRequests == {Provide, Query, BadQuery}

PairSymmetry == Permutations({c1, c2}) \cup Permutations({n1, n2})

(* TLC checks no liveness under symmetry.  As connections and names are    *)
(* interchangeable, c1 may as well be the first to connect, not under n2.  *)
(* The acceptor serves one at a time: c2 connects when c1 has its answer.  *)
FirstComesFirst ==
    /\ peer[c1] = "unused" => call'[c1].arg # n2
    /\ peer[c1] \in {"unused", "joining"} => peer'[c2] = "unused"

OrderedFairSpec == Init /\ [][Next /\ FirstComesFirst]_vars /\ Fairness
===============================================================================
