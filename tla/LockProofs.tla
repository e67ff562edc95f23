------------------------------ MODULE LockProofs ------------------------------
(***************************************************************************)
(* The locks of the master, for queues of any length and any number of     *)
(* frames in a round of the worker: no two threads race for a member, and  *)
(* none wait for each other in a circle.                                   *)
(***************************************************************************)
EXTENDS MasterLocks, TLAPS, SequenceTheorems, WellFoundedInduction

-------------------------------------------------------------------------------
(* The discipline of the locks.                                            *)

(* What a thread holds.                                                    *)
Holding == [shared : SUBSET Lock, alone : SUBSET Lock]

Held(H) == H.shared \cup H.alone

Nothing == [shared |-> {}, alone |-> {}]

(* What it holds after a step.                                             *)
After(H, k) ==
    CASE k.op = "lock_shared" -> [H EXCEPT !.shared = @ \cup {k.on}]
      [] k.op = "lock" -> [H EXCEPT !.alone = @ \cup {k.on}]
      [] k.op \in {"unlock", "unlock_shared"} ->
            [shared |-> H.shared \ {k.on}, alone |-> H.alone \ {k.on}]
      [] OTHER -> H

(* The order in which the locks are taken: a queue's, then info_mtx, then  *)
(* one of the two that guard the owners.                                   *)
Rank(l) == IF l \in {"dead_mtx", "new_mtx"} THEN 1
           ELSE IF l = "info_mtx" THEN 2 ELSE 3

(* The lock that guards a member.                                         *)
Guard(x) ==
    CASE x \in {"participant_list", "socket_map", "counters"} -> "info_mtx"
      [] x \in {"topics", "event_list"} -> "event_mtx"
      [] x \in {"methods", "method_list"} -> "method_mtx"
      [] x = "new_q" -> "new_mtx"
      [] OTHER -> "dead_mtx"

(* Who may write a member while it shares the lock that guards it.         *)
Privileged(t, x) ==
    \/ x = "socket_map" /\ t = "worker"
    \/ x = "counters" /\ t = "watchdog"

(* What t may do next while it holds H.                                    *)
Allowed(t, H, k) ==
    CASE k.op \in {"lock_shared", "lock"} -> \A l \in Held(H) : Rank(l) < Rank(k.on)
      [] k.op \in {"unlock", "unlock_shared"} -> k.on \in Held(H)
      [] OTHER -> /\ Guard(k.on) \in Held(H)
                  /\ \/ Guard(k.on) \in H.alone
                     \/ k.op = "read" /\ k.on = "participant_list"
                     \/ Privileged(t, k.on)

(* A thread that holds H may work off s, and holds K at the end.           *)
Goes(t, H, s, K) ==
    /\ s \in Seq(Step)
    /\ \E h \in [1..(Len(s) + 1) -> Holding] :
          /\ h[1] = H /\ h[Len(s) + 1] = K
          /\ \A i \in 1..Len(s) : Allowed(t, h[i], s[i]) /\ h[i + 1] = After(h[i], s[i])

(* What the locks say t holds.                                             *)
Holds(t) == [shared |-> {l \in Lock : t \in readers[l]},
             alone |-> {l \in Lock : t \in writer[l]}]

(* The inductive invariant: what a thread holds lets it work off its path. *)
LockInv == TypeOK /\ \A t \in Thread : Goes(t, Holds(t), path[t], Nothing)

(* A step is a record with an operation and a lock or a member.            *)
LEMMA Steplike ==
    ASSUME NEW op \in {"lock_shared", "lock", "unlock_shared", "unlock"}, NEW l \in Lock,
           NEW use \in {"read", "write"}, NEW x \in Member
    PROVE  [op |-> op, on |-> l] \in Step /\ [op |-> use, on |-> x] \in Step
BY DEF Step

(* What is held stays a set of locks.                                      *)
LEMMA AfterHolding ==
    ASSUME NEW H \in Holding, NEW k \in Step
    PROVE  After(H, k) \in Holding
BY DEF After, Holding, Step, Lock, Member

(* A path is gone along as the holdings of h say.                          *)
LEMMA GoesAlong ==
    ASSUME NEW t, NEW H, NEW K, NEW s \in Seq(Step), NEW n \in Nat, Len(s) = n,
           NEW h \in [1..(n + 1) -> Holding], h[1] = H, h[n + 1] = K,
           \A i \in 1..n : Allowed(t, h[i], s[i]) /\ h[i + 1] = After(h[i], s[i])
    PROVE  Goes(t, H, s, K)
BY DEF Goes

(* Nothing is to be done.                                                  *)
LEMMA GoesNowhere ==
    ASSUME NEW t, NEW H \in Holding
    PROVE  Goes(t, H, <<>>, H)
<1>1. PICK n \in Nat : n = 0
  OBVIOUS
<1>. DEFINE h == [i \in 1..(n + 1) |-> H]
<1>2. <<>> \in Seq(Step) /\ Len(<<>>) = n
  BY <1>1, EmptySeq
<1>3. h \in [1..(n + 1) -> Holding] /\ h[1] = H /\ h[n + 1] = H
  BY <1>1
<1>4. \A i : i \notin 1..n
  BY <1>1
<1>. HIDE DEF h
<1>. QED
  BY <1>2, <1>3, <1>4, GoesAlong

(* One step.                                                               *)
LEMMA GoesOne ==
    ASSUME NEW t, NEW H \in Holding, NEW k \in Step, Allowed(t, H, k)
    PROVE  Goes(t, H, <<k>>, After(H, k))
<1>1. PICK n \in Nat : n = 1
  OBVIOUS
<1>. DEFINE s == <<k>>
            h == [i \in 1..(n + 1) |-> IF i = 1 THEN H ELSE After(H, k)]
<1>2. s \in Seq(Step) /\ Len(s) = n /\ s[1] = k
  BY <1>1
<1>3. h \in [1..(n + 1) -> Holding] /\ h[1] = H /\ h[n + 1] = After(H, k)
  BY <1>1, AfterHolding
<1>. HIDE DEF h, s
<1>4. \A i \in 1..n : i = 1 /\ i + 1 = n + 1
  BY <1>1
<1>5. \A i \in 1..n : Allowed(t, h[i], s[i]) /\ h[i + 1] = After(h[i], s[i])
  BY <1>2, <1>3, <1>4
<1>6. Goes(t, H, s, After(H, k))
  BY <1>2, <1>3, <1>5, GoesAlong
<1>. QED
  BY <1>6 DEF s

(* One path after another.                                                 *)
LEMMA GoesOn ==
    ASSUME NEW t, NEW H, NEW K, NEW L, NEW a, NEW b, Goes(t, H, a, K), Goes(t, K, b, L)
    PROVE  Goes(t, H, a \o b, L)
<1>1. PICK f \in [1..(Len(a) + 1) -> Holding] :
          /\ f[1] = H /\ f[Len(a) + 1] = K
          /\ \A i \in 1..Len(a) : Allowed(t, f[i], a[i]) /\ f[i + 1] = After(f[i], a[i])
  BY DEF Goes
<1>2. PICK g \in [1..(Len(b) + 1) -> Holding] :
          /\ g[1] = K /\ g[Len(b) + 1] = L
          /\ \A i \in 1..Len(b) : Allowed(t, g[i], b[i]) /\ g[i + 1] = After(g[i], b[i])
  BY DEF Goes
<1>. DEFINE m == Len(a)
            n == Len(b)
            s == a \o b
            h == [i \in 1..(m + n + 1) |-> IF i <= m THEN f[i] ELSE g[i - m]]
<1>3. /\ a \in Seq(Step) /\ b \in Seq(Step) /\ m \in Nat /\ n \in Nat
      /\ s \in Seq(Step) /\ Len(s) = m + n
      /\ \A i \in 1..(m + n) : s[i] = IF i <= m THEN a[i] ELSE b[i - m]
  BY ConcatProperties, LenProperties DEF Goes
<1>. HIDE DEF s, m, n
<1>4. h \in [1..(m + n + 1) -> Holding]
  <2>1. \A i \in 1..(m + n + 1) : i <= m => i \in 1..(Len(a) + 1)
    BY <1>3 DEF m
  <2>2. \A i \in 1..(m + n + 1) : ~(i <= m) => i - m \in 1..(Len(b) + 1)
    BY <1>3 DEF n
  <2>. QED
    BY <1>1, <1>2, <2>1, <2>2
<1>5. h[1] = H
  <2>1. CASE m = 0
    BY <1>1, <1>2, <1>3, <2>1 DEF m
  <2>2. CASE m # 0
    BY <1>1, <1>3, <2>2 DEF m
  <2>. QED
    BY <2>1, <2>2
<1>6. h[m + n + 1] = L
  <2>1. /\ m + n + 1 \in 1..(m + n + 1) /\ ~(m + n + 1 <= m)
        /\ (m + n + 1) - m = n + 1
    BY <1>3
  <2>2. h[m + n + 1] = g[n + 1]
    BY <2>1
  <2>. QED
    BY <1>2, <2>2 DEF n
<1>7. ASSUME NEW i \in 1..(m + n)
      PROVE  Allowed(t, h[i], s[i]) /\ h[i + 1] = After(h[i], s[i])
  <2>1. CASE i < m
    <3>1. h[i] = f[i] /\ h[i + 1] = f[i + 1] /\ s[i] = a[i] /\ i \in 1..Len(a)
      <4>1. i \in 1..m /\ i + 1 <= m /\ i + 1 \in 1..(m + n + 1) /\ i \in 1..(m + n + 1)
        BY <1>3, <1>7, <2>1
      <4>. QED
        BY <1>3, <1>7, <4>1 DEF m
    <3>. QED
      BY <1>1, <3>1
  <2>2. CASE i = m
    <3>1. h[i] = f[i] /\ h[i + 1] = g[1] /\ s[i] = a[i] /\ i \in 1..Len(a)
          /\ f[i + 1] = g[1]
      BY <1>1, <1>2, <1>3, <1>7, <2>2 DEF m
    <3>. QED
      BY <1>1, <3>1
  <2>3. CASE i > m
    <3>1. /\ h[i] = g[i - m] /\ h[i + 1] = g[(i - m) + 1] /\ s[i] = b[i - m]
          /\ i - m \in 1..Len(b)
      <4>1. (i + 1) - m = (i - m) + 1 /\ ~(i <= m) /\ ~(i + 1 <= m) /\ i - m \in 1..n
        BY <1>3, <1>7, <2>3
      <4>2. i \in 1..(m + n + 1) /\ i + 1 \in 1..(m + n + 1)
        BY <1>3, <1>7
      <4>. QED
        BY <1>3, <1>7, <4>1, <4>2 DEF n
    <3>. QED
      BY <1>2, <3>1
  <2>. QED
    BY <1>3, <1>7, <2>1, <2>2, <2>3
<1>. HIDE DEF h
<1>8. m + n \in Nat
  BY <1>3
<1>9. Goes(t, H, s, L)
  BY <1>3, <1>4, <1>5, <1>6, <1>7, <1>8, GoesAlong
<1>. QED
  BY <1>9 DEF s

(* What is left of a path after its first step.                            *)
LEMMA GoesTail ==
    ASSUME NEW t, NEW H, NEW K, NEW s, s # <<>>, Goes(t, H, s, K)
    PROVE  /\ Head(s) \in Step /\ Tail(s) \in Seq(Step)
           /\ Allowed(t, H, Head(s)) /\ Goes(t, After(H, Head(s)), Tail(s), K)
<1>1. PICK h \in [1..(Len(s) + 1) -> Holding] :
          /\ h[1] = H /\ h[Len(s) + 1] = K
          /\ \A i \in 1..Len(s) : Allowed(t, h[i], s[i]) /\ h[i + 1] = After(h[i], s[i])
  BY DEF Goes
<1>. DEFINE n == Len(s) - 1
            r == Tail(s)
            g == [i \in 1..(n + 1) |-> h[i + 1]]
<1>2. /\ s \in Seq(Step) /\ n \in Nat /\ Len(s) = n + 1
      /\ r \in Seq(Step) /\ Len(r) = n /\ Head(s) = s[1] /\ Head(s) \in Step
      /\ \A i \in 1..n : r[i] = s[i + 1]
  BY LenProperties, HeadTailProperties, EmptySeq DEF Goes
<1>. HIDE DEF n, r
<1>3. Allowed(t, H, Head(s)) /\ h[1 + 1] = After(H, Head(s))
  <2>1. 1 \in 1..Len(s)
    BY <1>2
  <2>. QED
    BY <1>1, <1>2, <2>1
<1>4. g \in [1..(n + 1) -> Holding]
  BY <1>1, <1>2
<1>5. g[1] = After(H, Head(s)) /\ g[n + 1] = K
  BY <1>1, <1>2, <1>3
<1>6. \A i \in 1..n : Allowed(t, g[i], r[i]) /\ g[i + 1] = After(g[i], r[i])
  BY <1>1, <1>2
<1>7. Goes(t, After(H, Head(s)), r, K)
  BY <1>2, <1>4, <1>5, <1>6 DEF Goes
<1>. QED
  BY <1>2, <1>3, <1>7 DEF r

-------------------------------------------------------------------------------
(* Paths of any length.                                                    *)

(* A set of numbers has a least one.                                       *)
LEMMA Least ==
    ASSUME NEW S, S \subseteq Nat, S # {}
    PROVE  \E x \in S : \A y \in S : x <= y
<1>1. PICK x \in S : \A y \in S : ~ (<<y, x>> \in OpToRel(<, Nat))
  BY NatLessThanWellFounded, WFMin
<1>2. \A y \in S : ~ (y < x)
  BY <1>1 DEF OpToRel
<1>. QED
  BY <1>2

(* f joins the first m paths of fs, one after the other.                   *)
Joined(f, fs, m) ==
    f = [i \in 1..m |-> IF i = 1 THEN fs[i] ELSE f[i - 1] \o fs[i]]

(* There is such a function, by the least m for which there is none.       *)
LEMMA JoinedExists ==
    ASSUME NEW fs, NEW n \in Nat
    PROVE  \E f : Joined(f, fs, n)
<1>. DEFINE M == {m \in Nat : ~ \E f : Joined(f, fs, m)}
<1>1. SUFFICES ASSUME M # {} PROVE FALSE
  OBVIOUS
<1>2. PICK m \in M : \A k \in M : m <= k
  BY <1>1, Least
<1>3. CASE m = 0
  <2>. DEFINE f == [i \in 1..m |-> fs[i]]
  <2>1. f = [i \in 1..m |-> IF i = 1 THEN fs[i] ELSE f[i - 1] \o fs[i]]
    BY <1>3
  <2>. QED
    BY <2>1 DEF Joined
<1>4. CASE m # 0
  <2>1. m - 1 \in Nat /\ m - 1 \notin M
    BY <1>2, <1>4
  <2>2. PICK g : Joined(g, fs, m - 1)
    BY <2>1
  <2>. DEFINE f == [i \in 1..m |-> IF i = 1 THEN fs[i]
                                   ELSE IF i = m THEN g[i - 1] \o fs[i] ELSE g[i]]
  <2>3. \A i \in 1..(m - 1) : g[i] = IF i = 1 THEN fs[i] ELSE g[i - 1] \o fs[i]
    BY <2>2 DEF Joined
  <2>4. \A i \in 1..(m - 1) : f[i] = g[i]
    BY <2>3
  <2>5. \A i \in 1..m : i # 1 => f[i - 1] = g[i - 1]
    <3>1. \A i \in 1..m : i # 1 => i - 1 \in 1..(m - 1)
      BY <1>2
    <3>. HIDE DEF f
    <3>. QED
      BY <2>4, <3>1
  <2>6. \A i \in 1..m : f[i] = IF i = 1 THEN fs[i] ELSE f[i - 1] \o fs[i]
    <3>1. ASSUME NEW i \in 1..m, i # 1
          PROVE  f[i] = f[i - 1] \o fs[i]
      <4>1. f[i] = IF i = m THEN g[i - 1] \o fs[i] ELSE g[i]
        BY <3>1
      <4>2. i # m => i \in 1..(m - 1)
        BY <1>2, <3>1
      <4>. HIDE DEF f
      <4>. QED
        BY <2>3, <2>5, <3>1, <4>1, <4>2
    <3>2. 1 \in 1..m => f[1] = fs[1]
      OBVIOUS
    <3>. QED
      BY <3>1, <3>2
  <2>7. f = [i \in 1..m |-> f[i]]
    OBVIOUS
  <2>. HIDE DEF f
  <2>8. f = [i \in 1..m |-> IF i = 1 THEN fs[i] ELSE f[i - 1] \o fs[i]]
    BY <2>6, <2>7
  <2>. QED
    BY <1>2, <2>8 DEF Joined
<1>. QED
  BY <1>3, <1>4

(* FlattenSeq joins all of them.                                           *)
LEMMA FlattenJoins ==
    ASSUME NEW fs \in Seq(Seq(Step)), fs # <<>>
    PROVE  \E f : Joined(f, fs, Len(fs)) /\ FlattenSeq(fs) = f[Len(fs)]
<1>. DEFINE n == Len(fs)
<1>1. n \in Nat /\ n # 0
  BY LenProperties, EmptySeq
<1>2. \E f : f = [i \in 1..n |-> IF i = 1 THEN fs[i] ELSE f[i - 1] \o fs[i]]
  BY <1>1, JoinedExists DEF Joined
<1>. DEFINE c == CHOOSE f : f = [i \in 1..n |-> IF i = 1 THEN fs[i] ELSE f[i - 1] \o fs[i]]
<1>3. c = [i \in 1..n |-> IF i = 1 THEN fs[i] ELSE c[i - 1] \o fs[i]]
  BY <1>2, Zenon
<1>4. FlattenSeq(fs) = c[n]
  BY <1>1 DEF FlattenSeq
<1>. QED
  BY <1>3, <1>4 DEF Joined

(* Any number of sections, each of which gives back what it takes.         *)
LEMMA GoesFlat ==
    ASSUME NEW t, NEW H \in Holding, NEW fs \in Seq(Seq(Step)),
           \A i \in 1..Len(fs) : Goes(t, H, fs[i], H)
    PROVE  Goes(t, H, FlattenSeq(fs), H)
<1>1. CASE fs = <<>>
  <2>1. FlattenSeq(fs) = <<>>
    BY <1>1 DEF FlattenSeq
  <2>. QED
    BY <2>1, GoesNowhere
<1>2. CASE fs # <<>>
  <2>. DEFINE n == Len(fs)
  <2>1. n \in Nat /\ n # 0
    BY <1>2, LenProperties, EmptySeq
  <2>2. PICK f : Joined(f, fs, n) /\ FlattenSeq(fs) = f[n]
    BY <1>2, FlattenJoins
  <2>3. \A i \in 1..n : f[i] = IF i = 1 THEN fs[i] ELSE f[i - 1] \o fs[i]
    BY <2>2 DEF Joined
  <2>. HIDE DEF n
  <2>. DEFINE Bad == {i \in 1..n : ~Goes(t, H, f[i], H)}
  <2>4. Bad = {}
    <3>1. SUFFICES ASSUME Bad # {} PROVE FALSE
      OBVIOUS
    <3>2. PICK i \in Bad : \A j \in Bad : i <= j
      <4>1. Bad \subseteq Nat
        BY <2>1
      <4>. QED
        BY <3>1, <4>1, Least
    <3>3. Goes(t, H, fs[i], H)
      BY <3>2 DEF n
    <3>4. CASE i = 1
      BY <2>3, <3>2, <3>3, <3>4
    <3>5. CASE i # 1
      <4>1. i - 1 \in 1..n /\ ~(i <= i - 1)
        BY <2>1, <3>2, <3>5
      <4>2. Goes(t, H, f[i - 1], H)
        BY <3>2, <4>1
      <4>3. f[i] = f[i - 1] \o fs[i]
        BY <2>3, <3>2, <3>5
      <4>4. Goes(t, H, f[i], H)
        BY <3>3, <4>2, <4>3, GoesOn
      <4>. QED
        BY <3>2, <4>4
    <3>. QED
      BY <3>4, <3>5
  <2>. QED
    BY <2>1, <2>2, <2>4
<1>. QED
  BY <1>1, <1>2

(* A section that is repeated.                                             *)
LEMMA GoesTimes ==
    ASSUME NEW t, NEW H \in Holding, NEW n \in Nat, NEW body, Goes(t, H, body, H)
    PROVE  Goes(t, H, Times(n, body), H)
<1>. DEFINE fs == [k \in 1..n |-> body]
<1>1. body \in Seq(Step)
  BY DEF Goes
<1>2. fs \in Seq(Seq(Step)) /\ Len(fs) = n /\ \A i \in 1..n : fs[i] = body
  BY <1>1
<1>. HIDE DEF fs
<1>3. Goes(t, H, FlattenSeq(fs), H)
  BY <1>2, GoesFlat
<1>. QED
  BY <1>3 DEF Times, fs

-------------------------------------------------------------------------------
(* The sections of the three threads.                                      *)

(* A member is used under the lock that guards it.                         *)
LEMMA UseGoes ==
    ASSUME NEW t, NEW H \in Holding, NEW x \in Member, Guard(x) \in Held(H)
    PROVE  /\ x = "participant_list" => Goes(t, H, Read(x), H)
           /\ Guard(x) \in H.alone \/ Privileged(t, x)
                => Goes(t, H, Read(x), H) /\ Goes(t, H, Write(x), H)
<1>. DEFINE r == [op |-> "read", on |-> x]
            w == [op |-> "write", on |-> x]
<1>1. r \in Step /\ w \in Step /\ After(H, r) = H /\ After(H, w) = H
  BY DEF Step, After
<1>2. x = "participant_list" => Allowed(t, H, r)
  BY DEF Allowed
<1>3. Guard(x) \in H.alone \/ Privileged(t, x) => Allowed(t, H, r) /\ Allowed(t, H, w)
  BY DEF Allowed
<1>. QED
  BY <1>1, <1>2, <1>3, GoesOne DEF Read, Write, Do

(* A lock is taken in order, and given back.                               *)
LEMMA LockGoes ==
    ASSUME NEW t, NEW H \in Holding, NEW l \in Lock, NEW body,
           \A k \in Held(H) : Rank(k) < Rank(l)
    PROVE  /\ Goes(t, [H EXCEPT !.alone = @ \cup {l}], body, [H EXCEPT !.alone = @ \cup {l}])
                => Goes(t, H, Alone(l, body), H)
           /\ Goes(t, [H EXCEPT !.shared = @ \cup {l}], body, [H EXCEPT !.shared = @ \cup {l}])
                => Goes(t, H, Shared(l, body), H)
<1>0. l \notin H.shared /\ l \notin H.alone
  BY DEF Held, Rank
<1>1. ASSUME NEW op \in {"lock", "lock_shared"}, NEW undo \in {"unlock", "unlock_shared"},
             Goes(t, After(H, [op |-> op, on |-> l]), body, After(H, [op |-> op, on |-> l]))
      PROVE  Goes(t, H, Do(op, l) \o body \o Do(undo, l), H)
  <2>. DEFINE k == [op |-> op, on |-> l]
              u == [op |-> undo, on |-> l]
              K == After(H, k)
  <2>1. k \in Step /\ u \in Step /\ K \in Holding
    BY Steplike, AfterHolding DEF Member
  <2>2. Allowed(t, H, k)
    BY DEF Allowed
  <2>3. l \in Held(K) /\ After(K, u) = H
    BY <1>0 DEF After, Held, Holding
  <2>4. Allowed(t, K, u)
    BY <2>3 DEF Allowed
  <2>5. Goes(t, H, Do(op, l), K) /\ Goes(t, K, Do(undo, l), H)
    BY <2>1, <2>2, <2>3, <2>4, GoesOne DEF Do
  <2>6. Goes(t, H, Do(op, l) \o body, K)
    BY <1>1, <2>5, GoesOn
  <2>. QED
    BY <2>5, <2>6, GoesOn
<1>2. /\ [H EXCEPT !.alone = @ \cup {l}] = After(H, [op |-> "lock", on |-> l])
      /\ [H EXCEPT !.shared = @ \cup {l}] = After(H, [op |-> "lock_shared", on |-> l])
  BY DEF After
<1>. QED
  BY <1>1, <1>2 DEF Alone, Shared

(* Holding these locks shared and those alone.                             *)
With(shared, alone) == [shared |-> shared, alone |-> alone]

(* The worker drains the dead.                                             *)
LEMMA DrainDeadGoes ==
    ASSUME NEW n \in Nat
    PROVE  Goes("worker", Nothing, DrainDead(n), Nothing)
<1>. DEFINE D == With({}, {"dead_mtx"})
            I == With({}, {"dead_mtx", "info_mtx"})
            E == With({}, {"dead_mtx", "info_mtx", "event_mtx"})
            M == With({}, {"dead_mtx", "info_mtx", "method_mtx"})
            Go(H, s) == Goes("worker", H, s, H)
<1>1. /\ D \in Holding /\ I \in Holding /\ E \in Holding /\ M \in Holding
      /\ Nothing \in Holding
  BY DEF With, Holding, Lock, Nothing
<1>2. /\ Go(E, Read("topics")) /\ Go(E, Write("event_list"))
      /\ Go(M, Read("methods")) /\ Go(M, Write("method_list"))
      /\ Go(I, Read("participant_list")) /\ Go(I, Write("participant_list"))
      /\ Go(I, Write("socket_map")) /\ Go(I, Write("dead_q")) /\ Go(I, Read("dead_q"))
      /\ Go(D, Read("dead_q"))
  BY <1>1, UseGoes DEF With, Held, Guard, Member
<1>3. Go(I, Alone("event_mtx", Read("topics") \o Write("event_list")))
  <2>1. Go(E, Read("topics") \o Write("event_list"))
    BY <1>2, GoesOn
  <2>2. E = [I EXCEPT !.alone = @ \cup {"event_mtx"}]
        /\ \A k \in Held(I) : Rank(k) < Rank("event_mtx")
    BY DEF With, Held, Rank
  <2>. QED
    BY <1>1, <2>1, <2>2, LockGoes DEF Lock
<1>4. Go(I, Alone("method_mtx", Read("methods") \o Write("method_list")))
  <2>1. Go(M, Read("methods") \o Write("method_list"))
    BY <1>2, GoesOn
  <2>2. M = [I EXCEPT !.alone = @ \cup {"method_mtx"}]
        /\ \A k \in Held(I) : Rank(k) < Rank("method_mtx")
    BY DEF With, Held, Rank
  <2>. QED
    BY <1>1, <2>1, <2>2, LockGoes DEF Lock
<1>. DEFINE body == Read("participant_list")
                    \o Alone("event_mtx", Read("topics") \o Write("event_list"))
                    \o Alone("method_mtx", Read("methods") \o Write("method_list"))
                    \o Write("participant_list") \o Write("socket_map")
                    \o Write("dead_q") \o Read("dead_q")
            one == Alone("info_mtx", body)
<1>5. Go(I, body)
  BY <1>2, <1>3, <1>4, GoesOn, Zenon
<1>. HIDE DEF body
<1>6. Go(D, one)
  <2>1. I = [D EXCEPT !.alone = @ \cup {"info_mtx"}]
        /\ \A k \in Held(D) : Rank(k) < Rank("info_mtx")
    BY DEF With, Held, Rank
  <2>. QED
    BY <1>1, <1>5, <2>1, LockGoes DEF Lock
<1>. HIDE DEF one
<1>7. Go(D, Read("dead_q") \o Times(n, one))
  BY <1>1, <1>2, <1>6, GoesTimes, GoesOn
<1>8. D = [Nothing EXCEPT !.alone = @ \cup {"dead_mtx"}]
      /\ \A k \in Held(Nothing) : Rank(k) < Rank("dead_mtx")
  BY DEF With, Held, Nothing
<1>9. Go(Nothing, Alone("dead_mtx", Read("dead_q") \o Times(n, one)))
  BY <1>1, <1>7, <1>8, LockGoes DEF Lock
<1>. QED
  BY <1>9 DEF DrainDead, one, body

(* The worker drains the new.                                              *)
LEMMA DrainNewGoes ==
    ASSUME NEW n \in Nat
    PROVE  Goes("worker", Nothing, DrainNew(n), Nothing)
<1>. DEFINE N == With({}, {"new_mtx"})
            I == With({"info_mtx"}, {"new_mtx"})
            Go(H, s) == Goes("worker", H, s, H)
            body == Read("participant_list") \o Write("new_q") \o Read("new_q")
            one == Shared("info_mtx", body)
<1>1. N \in Holding /\ I \in Holding /\ Nothing \in Holding
  BY DEF With, Holding, Lock, Nothing
<1>2. /\ Go(I, Read("participant_list")) /\ Go(I, Write("new_q")) /\ Go(I, Read("new_q"))
      /\ Go(N, Read("new_q"))
  BY <1>1, UseGoes DEF With, Held, Guard, Member
<1>3. Go(I, body)
  BY <1>2, GoesOn, Zenon
<1>. HIDE DEF body
<1>4. Go(N, one)
  <2>1. I = [N EXCEPT !.shared = @ \cup {"info_mtx"}]
        /\ \A k \in Held(N) : Rank(k) < Rank("info_mtx")
    BY DEF With, Held, Rank
  <2>. QED
    BY <1>1, <1>3, <2>1, LockGoes DEF Lock
<1>. HIDE DEF one
<1>5. Go(N, Read("new_q") \o Times(n, one))
  BY <1>1, <1>2, <1>4, GoesTimes, GoesOn
<1>6. N = [Nothing EXCEPT !.alone = @ \cup {"new_mtx"}]
      /\ \A k \in Held(Nothing) : Rank(k) < Rank("new_mtx")
  BY DEF With, Held, Nothing
<1>7. Go(Nothing, Alone("new_mtx", Read("new_q") \o Times(n, one)))
  BY <1>1, <1>5, <1>6, LockGoes DEF Lock
<1>. QED
  BY <1>7 DEF DrainNew, one, body

(* A section under one lock, taken by a thread that holds nothing.         *)
LEMMA SingleGoes ==
    ASSUME NEW t, NEW l \in Lock, NEW body
    PROVE  /\ Goes(t, With({}, {l}), body, With({}, {l}))
                 => Goes(t, Nothing, Alone(l, body), Nothing)
           /\ Goes(t, With({l}, {}), body, With({l}, {}))
                 => Goes(t, Nothing, Shared(l, body), Nothing)
<1>1. Nothing \in Holding /\ \A k \in Held(Nothing) : Rank(k) < Rank(l)
  BY DEF Holding, Held, Nothing
<1>2. /\ [Nothing EXCEPT !.alone = @ \cup {l}] = With({}, {l})
      /\ [Nothing EXCEPT !.shared = @ \cup {l}] = With({l}, {})
  BY DEF With, Nothing
<1>. QED
  BY <1>1, <1>2, LockGoes

(* poll() and the frames it reports.                                       *)
LEMMA FrameGoes ==
    ASSUME NEW f \in Frame \cup {Poll}
    PROVE  Goes("worker", Nothing, f, Nothing)
<1>. DEFINE S == With({"info_mtx"}, {})
            A == With({}, {"info_mtx"})
            E == With({}, {"event_mtx"})
            M == With({}, {"method_mtx"})
            SE == With({"info_mtx"}, {"event_mtx"})
            SM == With({"info_mtx"}, {"method_mtx"})
            Go(H, s) == Goes("worker", H, s, H)
<1>1. /\ S \in Holding /\ A \in Holding /\ E \in Holding /\ M \in Holding
      /\ SE \in Holding /\ SM \in Holding
  BY DEF With, Holding, Lock
<1>2. Go(Nothing, Poll) /\ Go(Nothing, ListParticipants)
  <2>1. Go(S, Read("participant_list"))
    BY <1>1, UseGoes DEF With, Held, Guard, Member
  <2>. QED
    BY <2>1, SingleGoes DEF Poll, ListParticipants, Lock
<1>3. Go(Nothing, KeepAlive)
  <2>1. Go(A, Write("socket_map")) /\ Go(A, Write("counters"))
    BY <1>1, UseGoes DEF With, Held, Guard, Member
  <2>2. Go(A, Write("socket_map") \o Write("counters"))
    BY <2>1, GoesOn
  <2>. QED
    BY <2>2, SingleGoes DEF KeepAlive, Lock
<1>4. Go(Nothing, EventSubscribe) /\ Go(Nothing, MethodQuery)
  <2>1. Go(E, Read("event_list")) /\ Go(M, Read("method_list"))
    BY <1>1, UseGoes DEF With, Held, Guard, Member
  <2>. QED
    BY <2>1, SingleGoes DEF EventSubscribe, MethodQuery, Lock
<1>5. Go(Nothing, EventRegister)
  <2>. DEFINE body == Read("event_list") \o Write("socket_map") \o Write("event_list")
                      \o Write("topics")
  <2>1. /\ Go(SE, Read("event_list")) /\ Go(SE, Write("event_list"))
        /\ Go(SE, Write("topics")) /\ Go(SE, Write("socket_map"))
    <3>1. /\ Guard("event_list") \in SE.alone /\ Guard("topics") \in SE.alone
          /\ Guard("socket_map") \in SE.shared /\ Privileged("worker", "socket_map")
          /\ SE.alone \subseteq Held(SE) /\ SE.shared \subseteq Held(SE)
          /\ {"event_list", "topics", "socket_map"} \subseteq Member
      BY DEF With, Held, Guard, Member, Privileged
    <3>. QED
      BY <1>1, <3>1, UseGoes
  <2>2. Go(SE, body)
    BY <2>1, GoesOn, Zenon
  <2>. HIDE DEF body
  <2>3. SE = [S EXCEPT !.alone = @ \cup {"event_mtx"}]
        /\ \A k \in Held(S) : Rank(k) < Rank("event_mtx")
    BY DEF With, Held, Rank
  <2>4. Go(S, Alone("event_mtx", body))
    BY <1>1, <2>2, <2>3, LockGoes DEF Lock
  <2>5. Go(Nothing, Shared("info_mtx", Alone("event_mtx", body)))
    BY <2>4, SingleGoes DEF Lock
  <2>. QED
    BY <2>5 DEF EventRegister, body
<1>6. Go(Nothing, MethodProvide)
  <2>. DEFINE body == Read("method_list") \o Write("socket_map") \o Write("method_list")
                      \o Write("methods")
  <2>1. /\ Go(SM, Read("method_list")) /\ Go(SM, Write("method_list"))
        /\ Go(SM, Write("methods")) /\ Go(SM, Write("socket_map"))
    <3>1. /\ Guard("method_list") \in SM.alone /\ Guard("methods") \in SM.alone
          /\ Guard("socket_map") \in SM.shared /\ Privileged("worker", "socket_map")
          /\ SM.alone \subseteq Held(SM) /\ SM.shared \subseteq Held(SM)
          /\ {"method_list", "methods", "socket_map"} \subseteq Member
      BY DEF With, Held, Guard, Member, Privileged
    <3>. QED
      BY <1>1, <3>1, UseGoes
  <2>2. Go(SM, body)
    BY <2>1, GoesOn, Zenon
  <2>. HIDE DEF body
  <2>3. SM = [S EXCEPT !.alone = @ \cup {"method_mtx"}]
        /\ \A k \in Held(S) : Rank(k) < Rank("method_mtx")
    BY DEF With, Held, Rank
  <2>4. Go(S, Alone("method_mtx", body))
    BY <1>1, <2>2, <2>3, LockGoes DEF Lock
  <2>5. Go(Nothing, Shared("info_mtx", Alone("method_mtx", body)))
    BY <2>4, SingleGoes DEF Lock
  <2>. QED
    BY <2>5 DEF MethodProvide, body
<1>. QED
  BY <1>2, <1>3, <1>4, <1>5, <1>6 DEF Frame

(* A round of the worker, whatever it finds in the queues and is sent.     *)
LEMMA WorkerGoes ==
    ASSUME NEW round \in WorkerRound
    PROVE  Goes("worker", Nothing, round, Nothing)
<1>0. PICK d \in 0..MaxQueue, n \in 0..MaxQueue,
           fs \in UNION {[1..k -> Frame] : k \in 0..MaxFrames} :
          round = WorkerLoop(d, n, fs)
  BY DEF WorkerRound
<1>1. PICK k \in 0..MaxFrames : fs \in [1..k -> Frame]
  OBVIOUS
<1>2. Goes("worker", Nothing, FlattenSeq(fs), Nothing)
  <2>1. \A i \in 1..k : Goes("worker", Nothing, fs[i], Nothing)
    BY <1>1, FrameGoes
  <2>2. fs \in Seq(Seq(Step)) /\ Len(fs) = k
    BY <1>1, <2>1, LockBounds DEF Goes
  <2>3. Nothing \in Holding
    BY DEF Holding, Nothing
  <2>. QED
    BY <2>1, <2>2, <2>3, GoesFlat
<1>3. /\ Goes("worker", Nothing, DrainDead(d), Nothing)
      /\ Goes("worker", Nothing, DrainNew(n), Nothing)
      /\ Goes("worker", Nothing, Poll, Nothing)
  BY LockBounds, DrainDeadGoes, DrainNewGoes, FrameGoes
<1>4. Goes("worker", Nothing, DrainDead(d) \o DrainNew(n) \o Poll \o FlattenSeq(fs), Nothing)
  BY <1>2, <1>3, GoesOn, Zenon
<1>. QED
  BY <1>0, <1>4 DEF WorkerLoop

(* Who has a lock alone takes info_mtx, alone or shared.                    *)
LEMMA TakesInfo ==
    ASSUME NEW l \in {"new_mtx", "dead_mtx"}
    PROVE  /\ With({}, {l, "info_mtx"}) = [With({}, {l}) EXCEPT !.alone = @ \cup {"info_mtx"}]
           /\ With({"info_mtx"}, {l}) = [With({}, {l}) EXCEPT !.shared = @ \cup {"info_mtx"}]
           /\ \A k \in Held(With({}, {l})) : Rank(k) < Rank("info_mtx")
BY DEF With, Held, Rank

(* The acceptor registers who joins, or not.                               *)
LEMMA RegisterGoes ==
    ASSUME NEW round \in Register
    PROVE  Goes("acceptor", Nothing, round, Nothing)
<1>. DEFINE N == With({}, {"new_mtx"})
            I == With({}, {"new_mtx", "info_mtx"})
            Go(H, s) == Goes("acceptor", H, s, H)
<1>1. PICK changes \in {<<>>, Read("participant_list"),
                        Read("participant_list") \o Write("participant_list")
                            \o Write("socket_map") \o Write("new_q")} :
          round = Alone("new_mtx", Alone("info_mtx", changes))
  BY DEF Register
<1>2. N \in Holding /\ I \in Holding
  BY DEF With, Holding, Lock
<1>3. /\ Go(I, Read("participant_list")) /\ Go(I, Write("participant_list"))
      /\ Go(I, Write("socket_map")) /\ Go(I, Write("new_q"))
  BY <1>2, UseGoes DEF With, Held, Guard, Member
<1>4. Go(I, Read("participant_list") \o Write("participant_list")
               \o Write("socket_map") \o Write("new_q"))
  BY <1>3, GoesOn, Zenon
<1>5. Go(I, changes)
  BY <1>1, <1>2, <1>3, <1>4, GoesNowhere
<1>6. I = [N EXCEPT !.alone = @ \cup {"info_mtx"}]
      /\ \A k \in Held(N) : Rank(k) < Rank("info_mtx")
  BY TakesInfo
<1>7. Go(N, Alone("info_mtx", changes))
  BY <1>2, <1>5, <1>6, LockGoes DEF Lock
<1>. QED
  BY <1>1, <1>7, SingleGoes DEF Lock

(* The watchdog raises the counters, which it may while it shares the lock *)
(* of the registry.                                                        *)
LEMMA TickGoes ==
    ASSUME NEW round \in Tick
    PROVE  Goes("watchdog", Nothing, round, Nothing)
<1>. DEFINE D == With({}, {"dead_mtx"})
            I == With({"info_mtx"}, {"dead_mtx"})
            Go(H, s) == Goes("watchdog", H, s, H)
<1>1. PICK found \in {<<>>, Write("dead_q")} :
          round = Alone("dead_mtx", Shared("info_mtx",
                      Read("participant_list") \o Write("counters") \o found))
  BY DEF Tick
<1>2. D \in Holding /\ I \in Holding
  BY DEF With, Holding, Lock
<1>3. /\ Go(I, Read("participant_list")) /\ Go(I, Write("counters"))
      /\ Go(I, Write("dead_q")) /\ Go(I, <<>>)
  BY <1>2, UseGoes, GoesNowhere DEF With, Held, Guard, Member, Privileged
<1>4. Go(I, Read("participant_list") \o Write("counters") \o found)
  <2>1. Go(I, found)
    BY <1>1, <1>3
  <2>. QED
    BY <1>3, <2>1, GoesOn, Zenon
<1>5. I = [D EXCEPT !.shared = @ \cup {"info_mtx"}]
      /\ \A k \in Held(D) : Rank(k) < Rank("info_mtx")
  BY TakesInfo
<1>6. Go(D, Shared("info_mtx", Read("participant_list") \o Write("counters") \o found))
  BY <1>2, <1>4, <1>5, LockGoes DEF Lock
<1>. QED
  BY <1>1, <1>6, SingleGoes DEF Lock

(* Every round of every thread keeps the discipline.                       *)
LEMMA RoundGoes ==
    ASSUME NEW t \in Thread, NEW round \in Rounds[t]
    PROVE  Goes(t, Nothing, round, Nothing)
BY WorkerGoes, RegisterGoes, TickGoes DEF Rounds, Thread

-------------------------------------------------------------------------------
(* The discipline is kept.                                                 *)

(* At first nobody holds a lock or has a step to work off.                 *)
LEMMA LockInit == Init => LockInv
<1>. SUFFICES ASSUME Init PROVE LockInv
  OBVIOUS
<1>1. \A t \in Thread : Holds(t) = Nothing /\ path[t] = <<>>
  BY DEF Init, Holds, Nothing
<1>2. Nothing \in Holding
  BY DEF Nothing, Holding
<1>3. TypeOK
  BY EmptySeq DEF Init, TypeOK
<1>. QED
  BY <1>1, <1>2, <1>3, GoesNowhere DEF LockInv

(* A thread that works off a step holds what the step leaves it, and the   *)
(* others hold what they held.                                             *)
LEMMA LockMoves ==
    ASSUME NEW t \in Thread, LockInv, path[t] # <<>>, Done(t), TypeOK',
           Holds(t)' = After(Holds(t), Head(path[t])),
           \A u \in Thread \ {t} : Holds(u)' = Holds(u)
    PROVE  LockInv'
<1>1. PICK H, s : H = Holds(t) /\ s = path[t] /\ Goes(t, H, s, Nothing)
  BY DEF LockInv
<1>2. Goes(t, After(H, Head(s)), Tail(s), Nothing)
  BY <1>1, GoesTail
<1>3. path'[t] = Tail(s) /\ \A u \in Thread \ {t} : path'[u] = path[u]
  BY <1>1 DEF Done, LockInv, TypeOK
<1>4. Goes(t, Holds(t)', path'[t], Nothing)
  BY <1>1, <1>2, <1>3
<1>5. \A u \in Thread \ {t} : Goes(u, Holds(u)', path'[u], Nothing)
  BY <1>3 DEF LockInv
<1>. QED
  BY <1>4, <1>5 DEF LockInv

(* What the step at the head of a path is, and what it leaves.             *)
LEMMA NextStep ==
    ASSUME NEW t \in Thread, LockInv, path[t] # <<>>
    PROVE  /\ Head(path[t]) \in Step /\ Tail(path[t]) \in Seq(Step)
           /\ Allowed(t, Holds(t), Head(path[t]))
<1>1. Goes(t, Holds(t), path[t], Nothing)
  BY DEF LockInv
<1>. QED
  BY <1>1, GoesTail

(* Each step of a thread is the head of its path, which it may take.       *)
LEMMA LockStep == LockInv /\ [Next]_vars => LockInv'
<1>. SUFFICES ASSUME LockInv, [Next]_vars PROVE LockInv'
  OBVIOUS
<1>. USE DEF LockInv
<1>1. CASE UNCHANGED vars
  <2>1. \A t \in Thread : Holds(t)' = Holds(t) /\ path'[t] = path[t]
    BY <1>1 DEF vars, Holds
  <2>2. TypeOK'
    BY <1>1 DEF vars, TypeOK
  <2>. QED
    BY <2>1, <2>2
<1>2. ASSUME NEW t \in Thread, Begin(t) PROVE LockInv'
  <2>1. PICK round \in Rounds[t] : path' = [path EXCEPT ![t] = round]
    BY <1>2 DEF Begin
  <2>2. Goes(t, Nothing, round, Nothing)
    BY RoundGoes
  <2>3. \A u \in Thread : Holds(u)' = Holds(u)
    BY <1>2 DEF Begin, Holds
  <2>4. round \in Seq(Step)
    BY <2>2 DEF Goes
  <2>5. TypeOK'
    BY <1>2, <2>1, <2>4 DEF Begin, TypeOK
  <2>6. Holds(t) = Nothing
    <3>1. PICK H : H = Holds(t) /\ Goes(t, H, <<>>, Nothing)
      BY <1>2 DEF Begin
    <3>2. H = Nothing
      BY <3>1, EmptySeq DEF Goes
    <3>. QED
      BY <3>1, <3>2
  <2>7. path'[t] = round /\ \A u \in Thread \ {t} : path'[u] = path[u]
    BY <2>1 DEF TypeOK
  <2>8. Goes(t, Holds(t)', path'[t], Nothing)
    BY <2>2, <2>3, <2>6, <2>7
  <2>9. \A u \in Thread \ {t} : Goes(u, Holds(u)', path'[u], Nothing)
    BY <2>3, <2>7
  <2>. QED
    BY <2>5, <2>8, <2>9
<1>3. ASSUME NEW t \in Thread, Use(t) PROVE LockInv'
  <2>1. path[t] # <<>> /\ Done(t)
    BY <1>3 DEF Use, At
  <2>2. TypeOK'
    BY <1>3, <2>1, NextStep DEF Use, Done, TypeOK
  <2>3. \A u \in Thread : Holds(u)' = Holds(u)
    BY <1>3 DEF Use, Holds
  <2>4. After(Holds(t), Head(path[t])) = Holds(t)
    BY <1>3 DEF Use, At, After
  <2>. QED
    BY <2>1, <2>2, <2>3, <2>4, LockMoves
<1>4. ASSUME NEW t \in Thread, LockShared(t) PROVE LockInv'
  <2>. DEFINE k == Head(path[t])
  <2>1. path[t] # <<>> /\ Done(t) /\ k.op = "lock_shared" /\ writer[k.on] = {}
        /\ readers' = [readers EXCEPT ![k.on] = @ \cup {t}] /\ writer' = writer
    BY <1>4 DEF LockShared, At
  <2>2. k \in Step /\ Tail(path[t]) \in Seq(Step)
    BY <2>1, NextStep
  <2>3. k.on \in Lock
    BY <2>1, <2>2 DEF Step
  <2>. HIDE DEF k
  <2>4. TypeOK'
    BY <2>1, <2>2, <2>3 DEF Done, TypeOK
  <2>5. Holds(t)' = After(Holds(t), k)
    <3>1. {l \in Lock : t \in readers'[l]} = {l \in Lock : t \in readers[l]} \cup {k.on}
      BY <2>1, <2>3 DEF TypeOK
    <3>2. After(Holds(t), k) = [Holds(t) EXCEPT !.shared = @ \cup {k.on}]
      BY <2>1 DEF After
    <3>. QED
      BY <2>1, <3>1, <3>2 DEF Holds
  <2>6. \A u \in Thread \ {t} : Holds(u)' = Holds(u)
    BY <2>1, <2>3 DEF Holds, TypeOK
  <2>. QED
    BY <2>1, <2>4, <2>5, <2>6, LockMoves DEF k
<1>5. ASSUME NEW t \in Thread, LockAlone(t) PROVE LockInv'
  <2>. DEFINE k == Head(path[t])
  <2>1. path[t] # <<>> /\ Done(t) /\ k.op = "lock"
        /\ writer[k.on] = {} /\ readers[k.on] = {}
        /\ writer' = [writer EXCEPT ![k.on] = {t}] /\ readers' = readers
    BY <1>5 DEF LockAlone, At
  <2>2. k \in Step /\ Tail(path[t]) \in Seq(Step)
    BY <2>1, NextStep
  <2>3. k.on \in Lock
    BY <2>1, <2>2 DEF Step
  <2>. HIDE DEF k
  <2>4. TypeOK'
    BY <2>1, <2>2, <2>3 DEF Done, TypeOK
  <2>5. Holds(t)' = After(Holds(t), k)
    <3>1. {l \in Lock : t \in writer'[l]} = {l \in Lock : t \in writer[l]} \cup {k.on}
      BY <2>1, <2>3 DEF TypeOK
    <3>2. After(Holds(t), k) = [Holds(t) EXCEPT !.alone = @ \cup {k.on}]
      BY <2>1 DEF After
    <3>. QED
      BY <2>1, <3>1, <3>2 DEF Holds
  <2>6. \A u \in Thread \ {t} : Holds(u)' = Holds(u)
    BY <2>1, <2>3 DEF Holds, TypeOK
  <2>. QED
    BY <2>1, <2>4, <2>5, <2>6, LockMoves DEF k
<1>6. ASSUME NEW t \in Thread, Unlock(t) PROVE LockInv'
  <2>. DEFINE k == Head(path[t])
  <2>1. path[t] # <<>> /\ Done(t) /\ k.op \in {"unlock", "unlock_shared"}
        /\ readers' = [readers EXCEPT ![k.on] = @ \ {t}]
        /\ writer' = [writer EXCEPT ![k.on] = @ \ {t}]
    BY <1>6 DEF Unlock, At
  <2>2. k \in Step /\ Tail(path[t]) \in Seq(Step)
    BY <2>1, NextStep
  <2>3. k.on \in Lock
    BY <2>1, <2>2 DEF Step
  <2>. HIDE DEF k
  <2>4. TypeOK'
    BY <2>1, <2>2, <2>3 DEF Done, TypeOK
  <2>5. Holds(t)' = After(Holds(t), k)
    <3>1. /\ {l \in Lock : t \in writer'[l]} = {l \in Lock : t \in writer[l]} \ {k.on}
          /\ {l \in Lock : t \in readers'[l]} = {l \in Lock : t \in readers[l]} \ {k.on}
      BY <2>1, <2>3 DEF TypeOK
    <3>2. After(Holds(t), k) = [shared |-> Holds(t).shared \ {k.on},
                                alone |-> Holds(t).alone \ {k.on}]
      BY <2>1 DEF After
    <3>. QED
      BY <3>1, <3>2 DEF Holds
  <2>6. \A u \in Thread \ {t} : Holds(u)' = Holds(u)
    BY <2>1, <2>3 DEF Holds, TypeOK
  <2>. QED
    BY <2>1, <2>4, <2>5, <2>6, LockMoves DEF k
<1>. QED
  BY <1>1, <1>2, <1>3, <1>4, <1>5, <1>6 DEF Next, Steps

-------------------------------------------------------------------------------
(* What the discipline is for.                                             *)

(* The types, and that a lock is held alone or shared and never both.      *)
LEMMA LocksTyped == Spec => []TypeOK
<1>1. LockInv => TypeOK
  BY DEF LockInv
<1>. QED
  BY LockInit, LockStep, <1>1, PTL DEF Spec

(* Two threads at one member both hold the lock that guards it.            *)
LEMMA Guarded ==
    ASSUME LockInv, NEW t \in Thread, NEW x,
           At(t, "read") \/ At(t, "write"), Head(path[t]).on = x
    PROVE  /\ Guard(x) \in Lock
           /\ t \in writer[Guard(x)] \cup readers[Guard(x)]
           /\ \/ t \in writer[Guard(x)]
              \/ At(t, "read") /\ x = "participant_list"
              \/ Privileged(t, x)
<1>1. path[t] # <<>>
  BY DEF At
<1>. DEFINE k == Head(path[t])
<1>2. Allowed(t, Holds(t), k) /\ (k.op = "read" \/ k.op = "write")
  BY <1>1, NextStep DEF At
<1>3. /\ Guard(x) \in Held(Holds(t))
      /\ \/ Guard(x) \in Holds(t).alone
         \/ k.op = "read" /\ x = "participant_list"
         \/ Privileged(t, x)
  BY <1>2 DEF Allowed
<1>. QED
  BY <1>1, <1>3 DEF Held, Holds, At

(* No member is written by one thread while another is at it: who writes   *)
(* has the lock that guards the member alone, and excludes everybody, or   *)
(* is the one thread that may write this member while it shares the lock,  *)
(* and nobody else is at the member then without having the lock alone.    *)
THEOREM NoRaces == Spec => []NoRace
<1>1. LockInv => NoRace
  <2>. SUFFICES ASSUME LockInv, NEW t \in Thread, NEW u \in Thread, t # u,
                       At(t, "write"), At(u, "write") \/ At(u, "read"),
                       Head(path[t]).on = Head(path[u]).on
                PROVE  FALSE
    BY DEF NoRace
  <2>1. PICK x : x = Head(path[t]).on /\ x = Head(path[u]).on
    OBVIOUS
  <2>2. PICK l \in Lock : l = Guard(x)
    BY <2>1, Guarded
  <2>3. /\ t \in writer[l] \cup readers[l] /\ u \in writer[l] \cup readers[l]
        /\ t \in writer[l] \/ Privileged(t, x)
        /\ u \in writer[l] \/ x = "participant_list" \/ Privileged(u, x)
    <3>1. ~At(t, "read")
      BY DEF At
    <3>. QED
      BY <2>1, <2>2, <3>1, Guarded
  <2>4. t \notin writer[l] /\ u \notin writer[l]
    BY <2>3 DEF LockInv, TypeOK
  <2>. QED
    BY <2>3, <2>4 DEF Privileged
<1>. QED
  BY LockInit, LockStep, <1>1, PTL DEF Spec

(* Who holds what another waits for, and waits itself, waits for a lock    *)
(* that comes later in the order.                                          *)
LEMMA WaitsUp ==
    ASSUME LockInv, NEW t \in Thread, NEW u \in Thread,
           u \in WaitsFor(t), WaitsFor(u) # {}
    PROVE  Rank(Head(path[t]).on) < Rank(Head(path[u]).on)
<1>1. ASSUME NEW v \in Thread, WaitsFor(v) # {}
      PROVE  /\ At(v, "lock_shared") \/ At(v, "lock")
             /\ WaitsFor(v) \subseteq writer[Head(path[v]).on] \cup readers[Head(path[v]).on]
             /\ Head(path[v]).on \in Lock
             /\ \A l \in Held(Holds(v)) : Rank(l) < Rank(Head(path[v]).on)
  <2>1. At(v, "lock_shared") \/ At(v, "lock")
    BY <1>1 DEF WaitsFor
  <2>2. Head(path[v]) \in Step /\ Allowed(v, Holds(v), Head(path[v]))
    BY <2>1, NextStep DEF At
  <2>3. WaitsFor(v) \subseteq writer[Head(path[v]).on] \cup readers[Head(path[v]).on]
    BY <1>1 DEF WaitsFor
  <2>4. Head(path[v]).op \in {"lock_shared", "lock"}
    BY <2>1 DEF At
  <2>. QED
    BY <2>1, <2>2, <2>3, <2>4 DEF Allowed, Step
<1>2. PICK l \in Lock : l = Head(path[t]).on /\ u \in writer[l] \cup readers[l]
  BY <1>1
<1>3. l \in Held(Holds(u))
  BY <1>2 DEF Held, Holds
<1>. QED
  BY <1>1, <1>2, <1>3

(* No threads wait for each other in a circle, and none for itself: along  *)
(* a chain of waiting threads the locks come later and later in the order, *)
(* which has three places.                                                 *)
THEOREM NoDeadlock == Spec => []NoCircle
<1>1. LockInv => NoCircle
  <2>. SUFFICES ASSUME LockInv, NEW S \in SUBSET Thread, S # {},
                       \A t \in S : WaitsFor(t) \cap S # {}
                PROVE  FALSE
    BY DEF NoCircle
  <2>1. ASSUME NEW t \in S
        PROVE  \E u \in S : Rank(Head(path[t]).on) < Rank(Head(path[u]).on)
    <3>1. PICK u \in S : u \in WaitsFor(t)
      OBVIOUS
    <3>2. WaitsFor(u) # {}
      OBVIOUS
    <3>. QED
      BY <3>1, <3>2, WaitsUp
  <2>2. PICK a \in S : TRUE
    OBVIOUS
  <2>3. PICK b \in S : Rank(Head(path[a]).on) < Rank(Head(path[b]).on)
    BY <2>1
  <2>4. PICK c \in S : Rank(Head(path[b]).on) < Rank(Head(path[c]).on)
    BY <2>1
  <2>5. PICK d \in S : Rank(Head(path[c]).on) < Rank(Head(path[d]).on)
    BY <2>1
  <2>6. \A l : Rank(l) \in 1..3
    BY DEF Rank
  <2>. QED
    BY <2>3, <2>4, <2>5, <2>6
<1>. QED
  BY LockInit, LockStep, <1>1, PTL DEF Spec
===============================================================================
