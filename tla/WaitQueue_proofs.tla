-------------------------- MODULE WaitQueue_proofs --------------------------
(***************************************************************************)
(* Tokens, waiters and the entries of the queues belong to each other, for *)
(* any threads, any width of the counter and any forced threads.           *)
(*                                                                         *)
(* None of the parts of WaitersSound is inductive alone.  NoLostToken      *)
(* counts the threads that will look at x->done, among them forced ones in *)
(* a sleeping state; what is kept by each step is that enough waiters are  *)
(* TASK_RUNNING (AwakeEnough), since complete() only wakes those who are   *)
(* not, and a waiter only goes back to sleep when there is no token.       *)
(***************************************************************************)
EXTENDS WaitQueue, FiniteSetTheorems, SequenceTheorems, WellFoundedInduction, TLAPS

awake == {t \in ToSet(xwait) : state[t] = "RUNNING"}

AwakeEnough == Cardinality(awake) >= done \/ awake = ToSet(xwait)

(* Where a thread may be in each of its calls.                             *)
CallsFit ==
  \A t \in Threads :
    /\ pc[t] = "run" => call[t] = "none"
    /\ pc[t] = "enqueue" => call[t] = "sleep_on"
    /\ pc[t] \in {"schedule", "woken"} => call[t] # "none"

(* Nobody but a forced thread comes out of schedule() in a sleeping state. *)
AwakeWhenBack ==
  \A t \in Threads \ Forcible : pc[t] \in {"run", "woken"} => state[t] = "RUNNING"

IInv == TypeOK /\ CallsFit /\ TokensKept /\ LinkedWhileWaiting /\ AwakeWhenBack /\ AwakeEnough

-----------------------------------------------------------------------------
(* A set of natural numbers that is not empty has a least element.         *)
LEMMA LeastNumber ==
  ASSUME NEW S \in SUBSET Nat, S # {}
  PROVE  \E n \in S : \A m \in S : n <= m
<1>1. PICK n \in S : \A m \in S : <<m, n>> \notin OpToRel(<, Nat)
  BY NatLessThanWellFounded, WFMin, Zenon
<1>2. \A m \in S : ~(m < n)
  BY <1>1 DEF OpToRel
<1>. QED BY <1>2

(* No overflow.                                                            *)
LEMMA UintFits == ASSUME NEW k \in 0 .. 2 * Half + 1 PROVE Uint(k) = k
<1>1. Half \in Nat
  BY HalfAssumption
<1>. QED BY <1>1 DEF Uint

Distinct(q) == \A i, j \in 1 .. Len(q) : q[i] = q[j] => i = j

LEMMA Members ==
  ASSUME NEW q \in Seq(Threads)
  PROVE  \A t : t \in ToSet(q) <=> \E i \in 1 .. Len(q) : q[i] = t
BY LenProperties DEF ToSet

LEMMA Appended ==
  ASSUME NEW q \in Seq(Threads), Distinct(q), NEW t \in Threads \ ToSet(q)
  PROVE  /\ Append(q, t) \in Seq(Threads) /\ Distinct(Append(q, t))
         /\ ToSet(Append(q, t)) = ToSet(q) \cup {t}
         /\ <<t>> \o q \in Seq(Threads) /\ Distinct(<<t>> \o q)
         /\ ToSet(<<t>> \o q) = ToSet(q) \cup {t}
<1>1. /\ Append(q, t) \in Seq(Threads) /\ Distinct(Append(q, t))
      /\ ToSet(Append(q, t)) = ToSet(q) \cup {t}
  BY AppendProperties, LenProperties DEF Distinct, ToSet
<1>2. /\ <<t>> \o q \in Seq(Threads) /\ Len(<<t>> \o q) = Len(q) + 1
      /\ \A i \in 1 .. Len(q) + 1 : (<<t>> \o q)[i] = IF i = 1 THEN t ELSE q[i - 1]
  OBVIOUS
<1>3. Distinct(<<t>> \o q)
  BY <1>2, LenProperties DEF Distinct, ToSet
<1>4. ToSet(<<t>> \o q) = ToSet(q) \cup {t}
  <2>. DEFINE r == <<t>> \o q
  <2>1. r \in Seq(Threads) /\ Len(r) = Len(q) + 1
    BY <1>2
  <2>2. r[1] = t /\ \A i \in 1 .. Len(q) : i + 1 \in 1 .. Len(r) /\ r[i + 1] = q[i]
    BY <1>2, LenProperties
  <2>3. \A i \in 1 .. Len(r) : r[i] = t \/ (i - 1 \in 1 .. Len(q) /\ r[i] = q[i - 1])
    BY <1>2, LenProperties
  <2>. HIDE DEF r
  <2>4. 1 \in 1 .. Len(r)
    BY <2>1, LenProperties
  <2>5. ToSet(r) \subseteq ToSet(q) \cup {t}
    BY <2>1, <2>3, Members
  <2>6. ToSet(q) \cup {t} \subseteq ToSet(r)
    BY <2>1, <2>2, <2>4, Members
  <2>. QED BY <2>5, <2>6 DEF r
<1>. QED BY <1>1, <1>2, <1>3, <1>4

LEMMA UnlinkedOne ==
  ASSUME NEW q \in Seq(Threads), Distinct(q), NEW t \in ToSet(q)
  PROVE  /\ Unlinked(q, t) \in Seq(Threads) /\ Distinct(Unlinked(q, t))
         /\ ToSet(Unlinked(q, t)) = ToSet(q) \ {t}
<1>. DEFINE k == At(q, t)
            r == Unlinked(q, t)
<1>1. k \in 1 .. Len(q) /\ q[k] = t
  BY LenProperties DEF At, ToSet
<1>2. /\ r \in Seq(Threads) /\ Len(r) = Len(q) - 1
      /\ \A i \in 1 .. Len(q) - 1 : r[i] = IF i < k THEN q[i] ELSE q[i + 1]
  <2>. HIDE DEF k
  <2>1. /\ SubSeq(q, 1, k - 1) \in Seq(Threads) /\ Len(SubSeq(q, 1, k - 1)) = k - 1
        /\ \A i \in 1 .. k - 1 : SubSeq(q, 1, k - 1)[i] = q[i]
    BY <1>1, ElementOfSeq, LenProperties, SubSeqProperties
  <2>2. /\ SubSeq(q, k + 1, Len(q)) \in Seq(Threads) /\ Len(SubSeq(q, k + 1, Len(q))) = Len(q) - k
        /\ \A i \in 1 .. Len(q) - k : SubSeq(q, k + 1, Len(q))[i] = q[k + i]
    BY <1>1, ElementOfSeq, LenProperties, SubSeqProperties
  <2>. DEFINE front == SubSeq(q, 1, k - 1)
              back  == SubSeq(q, k + 1, Len(q))
  <2>3. r = front \o back
    BY DEF Unlinked, RemoveAt, k
  <2>4. Len(q) \in Nat
    BY LenProperties
  <2>. HIDE DEF r, front, back
  <2>5. front \in Seq(Threads) /\ Len(front) = k - 1 /\ \A i \in 1 .. k - 1 : front[i] = q[i]
    BY <2>1 DEF front
  <2>6. back \in Seq(Threads) /\ Len(back) = Len(q) - k /\ \A i \in 1 .. Len(q) - k : back[i] = q[k + i]
    BY <2>2 DEF back
  <2>7. r \in Seq(Threads) /\ Len(r) = Len(q) - 1
    <3>1. r \in Seq(Threads) /\ Len(r) = Len(front) + Len(back)
      BY <2>3, <2>5, <2>6, ConcatProperties
    <3>2. (k - 1) + (Len(q) - k) = Len(q) - 1
      BY <1>1, <2>4
    <3>. QED BY <2>5, <2>6, <3>1, <3>2
  <2>8. ASSUME NEW i \in 1 .. Len(q) - 1 PROVE r[i] = IF i < k THEN q[i] ELSE q[i + 1]
    <3>1. r[i] = IF i <= k - 1 THEN front[i] ELSE back[i - (k - 1)]
      BY <1>1, <2>3, <2>4, <2>5, <2>6, ConcatProperties, SMTT(30)
    <3>2. i < k => i \in 1 .. k - 1
      BY <1>1, <2>4
    <3>3. ~(i < k) => i - (k - 1) \in 1 .. Len(q) - k /\ k + (i - (k - 1)) = i + 1
      BY <1>1, <2>4
    <3>. QED BY <1>1, <2>4, <2>5, <2>6, <3>1, <3>2, <3>3
  <2>. QED BY <2>7, <2>8
<1>. HIDE DEF k, r
<1>3. Distinct(r)
  BY <1>1, <1>2, LenProperties, SMTT(30) DEF Distinct
<1>4. ToSet(r) = ToSet(q) \ {t}
  <2>1. Len(q) \in Nat
    BY LenProperties
  <2>2. ASSUME NEW i \in 1 .. Len(r) PROVE r[i] \in ToSet(q) \ {t}
    <3>1. CASE i < k
      BY <1>1, <1>2, <2>1, <3>1, Members DEF Distinct
    <3>2. CASE ~(i < k)
      <4>1. i + 1 \in 1 .. Len(q) /\ i + 1 # k /\ r[i] = q[i + 1]
        BY <1>1, <1>2, <2>1, <3>2
      <4>. QED BY <1>1, <4>1, Members DEF Distinct
    <3>. QED BY <3>1, <3>2
  <2>3. ASSUME NEW i \in 1 .. Len(q), q[i] # t PROVE q[i] \in ToSet(r)
    <3>1. CASE i < k
      BY <1>1, <1>2, <2>1, <3>1, Members
    <3>2. CASE ~(i < k)
      <4>1. i # k
        BY <1>1, <2>3
      <4>2. i - 1 \in 1 .. Len(r) /\ ~(i - 1 < k) /\ i - 1 + 1 = i
        BY <1>1, <1>2, <2>1, <3>2, <4>1
      <4>3. r[i - 1] = q[i]
        BY <1>2, <4>2
      <4>. QED BY <1>2, <4>2, <4>3, Members
    <3>. QED BY <3>1, <3>2
  <2>4. ToSet(r) \subseteq ToSet(q) \ {t}
    BY <1>2, <2>2, Members
  <2>5. ToSet(q) \ {t} \subseteq ToSet(r)
    BY <2>3, Members
  <2>. QED BY <2>4, <2>5
<1>. QED BY <1>2, <1>3, <1>4 DEF r

-----------------------------------------------------------------------------
(* Sets of threads are finite.                                             *)
LEMMA CountedThreads ==
  ASSUME NEW S \in SUBSET Threads, NEW T \in SUBSET S
  PROVE  /\ IsFiniteSet(S) /\ IsFiniteSet(T)
         /\ Cardinality(S) \in Nat /\ Cardinality(T) \in Nat
         /\ Cardinality(T) <= Cardinality(S)
<1>1. IsFiniteSet(S) /\ IsFiniteSet(T)
  BY ThreadsAssumption, FS_Subset
<1>. QED BY <1>1, FS_Subset, FS_CardinalityType

(* A step that only wakes threads, or takes no token from them.            *)
LEMMA WakingKeeps ==
  ASSUME TypeOK, AwakeEnough, xwait' = xwait, done' \in Nat, done' <= done,
         \A t \in Threads : state[t] = "RUNNING" => state'[t] = "RUNNING"
  PROVE  AwakeEnough'
<1>1. ToSet(xwait) \in SUBSET Threads
  BY Members, ElementOfSeq DEF TypeOK
<1>2. awake \subseteq awake' /\ awake' \subseteq ToSet(xwait)
  BY <1>1 DEF awake
<1>3. CASE awake = ToSet(xwait)
  BY <1>2, <1>3 DEF AwakeEnough
<1>4. CASE Cardinality(awake) >= done
  <2>1. /\ Cardinality(awake) \in Nat /\ Cardinality(awake') \in Nat
        /\ Cardinality(awake) <= Cardinality(awake')
    BY <1>1, <1>2, CountedThreads
  <2>2. done \in Nat
    BY HalfAssumption DEF TypeOK
  <2>. QED BY <1>4, <2>1, <2>2 DEF AwakeEnough
<1>. QED BY <1>3, <1>4 DEF AwakeEnough

(* As long as there is no token, nobody has to be awake.                   *)
LEMMA NoToken == ASSUME done' = 0, ToSet(xwait') \in SUBSET Threads PROVE AwakeEnough'
<1>1. Cardinality(awake') \in Nat
  BY CountedThreads DEF awake
<1>. QED BY <1>1 DEF AwakeEnough

(* complete() wakes a waiter that is not awake, if there is one.           *)
LEMMA WakesSleeper ==
  ASSUME TypeOK, LinkedWhileWaiting, awake # ToSet(xwait)
  PROVE  \E t \in ToSet(xwait) \cap Woken(xwait, Modes, 1) : state[t] # "RUNNING"
<1>1. xwait \in Seq(Threads) /\ Len(xwait) \in Nat
  BY LenProperties DEF TypeOK
<1>. DEFINE S == {i \in 1 .. Len(xwait) : state[xwait[i]] \in Modes}
<1>2. S # {}
  <2>1. PICK t \in ToSet(xwait) : state[t] # "RUNNING"
    BY DEF awake
  <2>2. PICK i \in 1 .. Len(xwait) : xwait[i] = t
    BY <1>1, Members
  <2>3. t \in Threads
    BY <1>1, <2>2, ElementOfSeq
  <2>4. state[t] \in Modes
    BY <2>1, <2>3 DEF TypeOK
  <2>. QED BY <2>2, <2>4
<1>3. PICK k \in S : \A m \in S : k <= m
  <2>1. S \in SUBSET Nat
    OBVIOUS
  <2>. HIDE DEF S
  <2>. QED BY <1>2, <2>1, LeastNumber
<1>. DEFINE B == {j \in 1 .. k - 1 : state[xwait[j]] \in Modes /\ Exclusive(xwait[j])}
<1>4. B = {}
  BY <1>1, <1>3
<1>5. Cardinality(B) < 1
  <2>. HIDE DEF B
  <2>. QED BY <1>4, FS_EmptySet
<1>6. xwait[k] \in Woken(xwait, Modes, 1)
  BY <1>3, <1>5 DEF Woken
<1>7. xwait[k] \in ToSet(xwait)
  BY <1>1, Members
<1>8. state[xwait[k]] # "RUNNING"
  BY <1>3 DEF Modes
<1>. QED BY <1>6, <1>7, <1>8

-----------------------------------------------------------------------------
LEMMA InitIInv == Init => IInv
<1>. SUFFICES ASSUME Init PROVE IInv
  OBVIOUS
<1>. USE HalfAssumption DEF Init
<1>1. TypeOK /\ CallsFit /\ TokensKept /\ AwakeWhenBack
  <2>1. TypeOK
    <3>1. {timed, expired, signal} \subseteq [Threads -> BOOLEAN]
      OBVIOUS
    <3>2. done \in 0 .. 2 * Half + 1 /\ posts \in 0 .. MaxPosts /\ taken \in Nat
      OBVIOUS
    <3>3. state \in [Threads -> Modes \cup {"RUNNING"}] /\ mode \in [Threads -> Modes]
      BY DEF Modes
    <3>4. xwait \in Seq(Threads) /\ queue \in Seq(Threads)
      OBVIOUS
    <3>5. /\ pc \in [Threads -> {"run", "enqueue", "schedule", "asleep", "woken"}]
          /\ call \in [Threads -> {"none", "wait", "sleep_on"}]
          /\ forced \in {{}} \cup {{t} : t \in Forcible} /\ all \in BOOLEAN
      OBVIOUS
    <3>. QED BY <3>1, <3>2, <3>3, <3>4, <3>5, Zenon DEF TypeOK
  <2>2. TokensKept
    BY DEF TokensKept
  <2>. QED BY <2>1, <2>2 DEF CallsFit, AwakeWhenBack
<1>2. LinkedWhileWaiting /\ ToSet(xwait) = {}
  BY DEF LinkedWhileWaiting, ToSet
<1>3. AwakeEnough
  BY <1>2 DEF AwakeEnough, awake
<1>. QED BY <1>1, <1>2, <1>3 DEF IInv

(* The parts of the invariant that are about the queues.                   *)
LEMMA QueuesOfThreads ==
  ASSUME TypeOK
  PROVE  ToSet(xwait) \in SUBSET Threads /\ ToSet(queue) \in SUBSET Threads
BY Members, ElementOfSeq DEF TypeOK

(* A step that leaves queues and calls alone and only wakes threads.       *)
LEMMA QuietStep ==
  ASSUME IInv, TypeOK', CallsFit', UNCHANGED <<xwait, queue, call>>,
         \A t \in Threads : pc[t] = "enqueue" <=> pc'[t] = "enqueue",
         done' <= done, TokensKept',
         \A t \in Threads : state[t] = "RUNNING" => state'[t] = "RUNNING",
         AwakeWhenBack'
  PROVE  IInv'
<1>1. LinkedWhileWaiting'
  BY DEF IInv, LinkedWhileWaiting
<1>2. done' \in Nat
  BY HalfAssumption DEF TypeOK
<1>3. AwakeEnough'
  BY <1>2, WakingKeeps DEF IInv
<1>. QED BY <1>1, <1>3 DEF IInv

LEMMA CompleteStep == ASSUME IInv, Complete PROVE IInv'
<1>. USE HalfAssumption DEF IInv
<1>1. done + 1 \in 0 .. 2 * Half + 1 /\ done \in Nat
  BY DEF Complete, TypeOK, TokensKept
<1>2. done' = done + 1
  BY <1>1, UintFits DEF Complete
<1>3. \A t \in Threads : state'[t] = state[t] \/ state'[t] = "RUNNING"
  BY DEF Complete, Wake
<1>4. TypeOK' /\ CallsFit' /\ TokensKept' /\ LinkedWhileWaiting' /\ AwakeWhenBack'
  <2>1. state' \in [Threads -> Modes \cup {"RUNNING"}]
    BY DEF Complete, Wake, TypeOK
  <2>2. done' \in 0 .. 2 * Half + 1 /\ posts' \in 0 .. MaxPosts /\ all' \in BOOLEAN
    BY <1>1, <1>2 DEF Complete, TypeOK
  <2>3. TypeOK'
    BY <2>1, <2>2 DEF Complete, TypeOK, sleeper
  <2>4. TokensKept'
    <3>. DEFINE extra == IF all THEN Half ELSE 0
    <3>1. extra \in Nat /\ extra' = extra
      BY Zenon DEF Complete
    <3>2. done + taken = posts + extra
      BY DEF TokensKept
    <3>3. posts' = posts + 1 /\ taken' = taken /\ {posts, taken, Half} \subseteq Nat
      BY DEF Complete, TypeOK
    <3>4. done' + taken' = posts' + extra'
      <4>. HIDE DEF extra, IInv
      <4>. QED BY <1>1, <1>2, <3>1, <3>2, <3>3
    <3>. QED BY <3>4 DEF TokensKept
  <2>5. CallsFit' /\ LinkedWhileWaiting' /\ AwakeWhenBack'
    BY <1>3 DEF Complete, CallsFit, LinkedWhileWaiting, AwakeWhenBack, sleeper
  <2>. QED BY <2>3, <2>4, <2>5
<1>5. awake \subseteq awake' /\ awake' \subseteq ToSet(xwait) /\ ToSet(xwait) \in SUBSET Threads
  BY <1>3, QueuesOfThreads DEF awake, Complete
<1>6. AwakeEnough'
  <2>1. CASE awake = ToSet(xwait)
    BY <1>5, <2>1 DEF AwakeEnough, Complete
  <2>2. CASE awake # ToSet(xwait)
    <3>1. PICK t \in ToSet(xwait) \cap Woken(xwait, Modes, 1) : state[t] # "RUNNING"
      BY <2>2, WakesSleeper
    <3>2. t \in awake' /\ t \notin awake
      BY <1>5, <3>1 DEF awake, Complete, Wake
    <3>3. awake \cup {t} \in SUBSET awake' /\ awake' \in SUBSET Threads
      BY <1>5, <3>2
    <3>4. /\ Cardinality(awake \cup {t}) <= Cardinality(awake')
          /\ IsFiniteSet(awake) /\ Cardinality(awake) \in Nat /\ Cardinality(awake') \in Nat
      BY <1>5, <3>3, CountedThreads
    <3>5. Cardinality(awake \cup {t}) = Cardinality(awake) + 1
      BY <3>2, <3>4, FS_AddElement
    <3>6. Cardinality(awake) >= done
      BY <2>2 DEF AwakeEnough
    <3>. QED BY <1>1, <1>2, <3>4, <3>5, <3>6 DEF AwakeEnough
  <2>. QED BY <2>1, <2>2
<1>. QED BY <1>4, <1>6

LEMMA CompleteAllStep == ASSUME IInv, CompleteAll PROVE IInv'
<1>. USE HalfAssumption DEF IInv
<1>1. done + Half \in 0 .. 2 * Half + 1 /\ done \in Nat
  BY DEF CompleteAll, TypeOK, TokensKept
<1>2. done' = done + Half
  BY <1>1, UintFits DEF CompleteAll
<1>3. \A t \in Threads : state'[t] = state[t] \/ state'[t] = "RUNNING"
  BY DEF CompleteAll, Wake
<1>4. TypeOK' /\ CallsFit' /\ TokensKept' /\ LinkedWhileWaiting' /\ AwakeWhenBack'
  <2>1. state' \in [Threads -> Modes \cup {"RUNNING"}]
    BY DEF CompleteAll, Wake, TypeOK
  <2>2. done' \in 0 .. 2 * Half + 1 /\ posts' \in 0 .. MaxPosts /\ all' \in BOOLEAN
    BY <1>1, <1>2 DEF CompleteAll, TypeOK
  <2>3. TypeOK'
    BY <2>1, <2>2 DEF CompleteAll, TypeOK, sleeper
  <2>4. TokensKept'
    <3>. DEFINE extra == IF all THEN Half ELSE 0
    <3>1. extra = 0 /\ extra' = Half
      BY Zenon DEF CompleteAll
    <3>2. done + taken = posts + extra
      BY DEF TokensKept
    <3>3. posts' = posts /\ taken' = taken /\ {posts, taken, Half} \subseteq Nat
      BY DEF CompleteAll, TypeOK
    <3>4. done' + taken' = posts' + extra'
      <4>. HIDE DEF extra, IInv
      <4>. QED BY <1>1, <1>2, <3>1, <3>2, <3>3
    <3>. QED BY <3>4 DEF TokensKept
  <2>5. CallsFit' /\ LinkedWhileWaiting' /\ AwakeWhenBack'
    BY <1>3 DEF CompleteAll, CallsFit, LinkedWhileWaiting, AwakeWhenBack, sleeper
  <2>. QED BY <2>3, <2>4, <2>5
<1>5. ASSUME NEW t \in ToSet(xwait) PROVE state'[t] = "RUNNING"
  <2>1. t \in Threads /\ state[t] \in Modes \cup {"RUNNING"}
    BY QueuesOfThreads DEF TypeOK
  <2>2. PICK i \in 1 .. Len(xwait) : xwait[i] = t
    BY Members DEF TypeOK
  <2>3. state[t] \in Modes => t \in Woken(xwait, Modes, 0)
    BY <2>2 DEF Woken
  <2>. QED BY <2>1, <2>3 DEF CompleteAll, Wake
<1>6. AwakeEnough'
  BY <1>5 DEF AwakeEnough, awake, CompleteAll
<1>. QED BY <1>4, <1>6

(* A token that is taken.                                                  *)
LEMMA TakeKeeps ==
  ASSUME IInv, Take, UNCHANGED <<posts, all>>
  PROVE  done > 0 /\ done' = done - 1 /\ done' \in 0 .. 2 * Half + 1 /\ taken' \in Nat /\ TokensKept'
<1>. USE HalfAssumption
<1>1. done - 1 \in 0 .. 2 * Half + 1 /\ done \in Nat /\ done > 0
  BY DEF IInv, Take, TypeOK
<1>2. done' = done - 1 /\ taken' = taken + 1
  BY <1>1, UintFits DEF Take
<1>3. TokensKept'
  <2>. DEFINE extra == IF all THEN Half ELSE 0
  <2>1. extra \in Nat /\ extra' = extra
    BY Zenon
  <2>2. done + taken = posts + extra
    BY DEF IInv, TokensKept
  <2>3. posts' = posts /\ {posts, taken} \subseteq Nat
    BY DEF IInv, TypeOK
  <2>4. done' + taken' = posts' + extra'
    <3>. HIDE DEF extra
    <3>. QED BY <1>1, <1>2, <2>1, <2>2, <2>3
  <2>. QED BY <2>4 DEF TokensKept
<1>. QED BY <1>1, <1>2, <1>3 DEF IInv, TypeOK

LEMMA TakeAtOnceStep == ASSUME IInv, NEW t \in Threads, TakeAtOnce(t) PROVE IInv'
<1>1. done' = done - 1 /\ done \in Nat /\ done' \in 0 .. 2 * Half + 1 /\ taken' \in Nat /\ TokensKept'
  BY TakeKeeps, HalfAssumption DEF TakeAtOnce, IInv, TypeOK
<1>2. TypeOK'
  BY <1>1 DEF TakeAtOnce, IInv, TypeOK, sleeper
<1>3. CallsFit' /\ AwakeWhenBack'
  BY DEF TakeAtOnce, IInv, CallsFit, AwakeWhenBack, sleeper
<1>. QED BY <1>1, <1>2, <1>3, QuietStep DEF TakeAtOnce, sleeper

LEMMA WaitStep ==
  ASSUME IInv, NEW t \in Threads, NEW m \in Modes, NEW limited \in BOOLEAN, Wait(t, m, limited)
  PROVE  IInv'
<1>. USE DEF IInv, Wait, Sleep, Running
<1>1. t \notin ToSet(xwait) /\ t \notin ToSet(queue)
  BY DEF CallsFit, LinkedWhileWaiting
<1>2. /\ xwait' \in Seq(Threads) /\ Distinct(xwait')
      /\ ToSet(xwait') = ToSet(xwait) \cup {t}
  BY <1>1, Appended DEF TypeOK, LinkedWhileWaiting, Distinct
<1>3. TypeOK'
  BY <1>2 DEF TypeOK, token
<1>4. CallsFit' /\ AwakeWhenBack'
  BY DEF TypeOK, CallsFit, AwakeWhenBack, Modes
<1>5. TokensKept'
  BY DEF TokensKept, token
<1>6. LinkedWhileWaiting'
  <2>1. call' = [call EXCEPT ![t] = "wait"] /\ pc' = [pc EXCEPT ![t] = "schedule"] /\ queue' = queue
    OBVIOUS
  <2>2. ToSet(xwait') = {u \in Threads : call'[u] = "wait"}
    BY <1>2, <2>1 DEF LinkedWhileWaiting, TypeOK
  <2>3. ToSet(queue') = {u \in Threads : call'[u] = "sleep_on" /\ pc'[u] # "enqueue"}
    BY <1>1, <2>1 DEF LinkedWhileWaiting, TypeOK
  <2>. QED BY <1>2, <2>1, <2>2, <2>3 DEF LinkedWhileWaiting, Distinct
<1>7. AwakeEnough'
  <2>1. done' = 0
    BY DEF token
  <2>2. ToSet(xwait') \in SUBSET Threads
    BY <1>2, QueuesOfThreads
  <2>. QED BY <2>1, <2>2, NoToken
<1>. QED BY <1>3, <1>4, <1>5, <1>6, <1>7

(* A waiter that leaves with or without a token.                           *)
LEMMA LeaveStep ==
  ASSUME IInv, NEW t \in Threads, pc[t] = "woken", call[t] = "wait", xwait' = Unlinked(xwait, t),
         Return(t), \/ done = 0 /\ UNCHANGED token
                    \/ Take /\ UNCHANGED <<posts, all>>,
         UNCHANGED <<state, queue, forced>>
  PROVE  IInv'
<1>. USE DEF IInv, Return
<1>1. t \in ToSet(xwait) /\ t \notin ToSet(queue)
  BY DEF LinkedWhileWaiting
<1>2. /\ xwait' \in Seq(Threads) /\ Distinct(xwait')
      /\ ToSet(xwait') = ToSet(xwait) \ {t}
  BY <1>1, UnlinkedOne DEF TypeOK, LinkedWhileWaiting, Distinct
<1>3. done' \in 0 .. 2 * Half + 1 /\ taken' \in Nat /\ TokensKept' /\ UNCHANGED <<posts, all>>
  <2>1. CASE UNCHANGED token
    BY <2>1 DEF TypeOK, token, TokensKept
  <2>2. CASE Take /\ UNCHANGED <<posts, all>>
    BY <2>2, TakeKeeps
  <2>. QED BY <2>1, <2>2
<1>4. TypeOK'
  <2>1. mode' \in [Threads -> Modes] /\ pc' \in [Threads -> {"run", "enqueue", "schedule", "asleep", "woken"}]
    BY DEF TypeOK, Modes
  <2>2. {timed', expired', signal'} \subseteq [Threads -> BOOLEAN]
    BY DEF TypeOK
  <2>. QED BY <1>2, <1>3, <2>1, <2>2 DEF TypeOK
<1>5. CallsFit' /\ AwakeWhenBack'
  BY DEF TypeOK, CallsFit, AwakeWhenBack
<1>6. LinkedWhileWaiting'
  <2>1. call' = [call EXCEPT ![t] = "none"] /\ pc' = [pc EXCEPT ![t] = "run"] /\ queue' = queue
    OBVIOUS
  <2>2. ToSet(xwait') = {u \in Threads : call'[u] = "wait"}
    BY <1>2, <2>1 DEF LinkedWhileWaiting, TypeOK
  <2>3. ToSet(queue') = {u \in Threads : call'[u] = "sleep_on" /\ pc'[u] # "enqueue"}
    BY <1>1, <2>1 DEF LinkedWhileWaiting, TypeOK
  <2>. QED BY <1>2, <2>1, <2>2, <2>3 DEF LinkedWhileWaiting, Distinct
<1>7. AwakeEnough'
  <2>1. CASE done = 0 /\ UNCHANGED token
    BY <1>2, <2>1, QueuesOfThreads, NoToken DEF token
  <2>2. CASE Take /\ UNCHANGED <<posts, all>>
    <3>1. awake' = awake \ {t} /\ awake \in SUBSET Threads
      BY <1>2, QueuesOfThreads DEF awake
    <3>2. CASE awake = ToSet(xwait)
      BY <1>2, <3>1, <3>2 DEF AwakeEnough
    <3>3. CASE Cardinality(awake) >= done
      <4>1. IsFiniteSet(awake) /\ Cardinality(awake) \in Nat
        BY <3>1, CountedThreads
      <4>2. Cardinality(awake') \in {Cardinality(awake), Cardinality(awake) - 1}
        BY <3>1, <4>1, FS_RemoveElement
      <4>3. done' = done - 1 /\ done \in Nat
        BY <2>2, TakeKeeps, HalfAssumption DEF TypeOK
      <4>. QED BY <3>3, <4>1, <4>2, <4>3 DEF AwakeEnough
    <3>. QED BY <3>2, <3>3 DEF AwakeEnough
  <2>. QED BY <2>1, <2>2
<1>. QED BY <1>3, <1>4, <1>5, <1>6, <1>7

(* A waiter only goes back to sleep when there is no token.                *)
LEMMA LoopStep == ASSUME IInv, NEW t \in Threads, Loop(t) PROVE IInv'
<1>1. CASE /\ xwait' = Unlinked(xwait, t) /\ Return(t) /\ UNCHANGED state
           /\ \/ done = 0 /\ UNCHANGED token
              \/ Take /\ UNCHANGED <<posts, all>>
  BY <1>1, LeaveStep DEF Loop
<1>2. CASE /\ done = 0 /\ Sleep(t, mode[t])
           /\ UNCHANGED <<token, xwait, sleeper, expired, signal>>
  <2>. USE DEF IInv, Sleep, sleeper, token
  <2>1. TypeOK' /\ TokensKept'
    BY <1>2 DEF Loop, TypeOK, TokensKept
  <2>2. CallsFit' /\ AwakeWhenBack'
    BY <1>2 DEF Loop, TypeOK, CallsFit, AwakeWhenBack
  <2>3. LinkedWhileWaiting'
    <3>1. \A u \in Threads : pc[u] = "enqueue" <=> pc'[u] = "enqueue"
      BY <1>2 DEF Loop, TypeOK
    <3>. QED BY <1>2, <3>1 DEF Loop, LinkedWhileWaiting
  <2>4. AwakeEnough'
    BY <1>2, QueuesOfThreads, NoToken
  <2>. QED BY <2>1, <2>2, <2>3, <2>4
<1>. QED BY <1>1, <1>2 DEF Loop

LEMMA SleepOnStep ==
  ASSUME IInv, NEW t \in Threads, NEW m \in Modes, NEW limited \in BOOLEAN, SleepOn(t, m, limited)
  PROVE  IInv'
<1>. USE DEF IInv, SleepOn, Running
<1>1. t \notin ToSet(xwait) /\ t \notin ToSet(queue)
  BY DEF CallsFit, LinkedWhileWaiting
<1>2. TypeOK' /\ TokensKept'
  BY DEF TypeOK, TokensKept, token
<1>3. CallsFit' /\ AwakeWhenBack'
  BY DEF TypeOK, CallsFit, AwakeWhenBack, Modes
<1>4. LinkedWhileWaiting'
  <2>1. /\ call' = [call EXCEPT ![t] = "sleep_on"] /\ pc' = [pc EXCEPT ![t] = "enqueue"]
        /\ xwait' = xwait /\ queue' = queue
    OBVIOUS
  <2>2. ToSet(xwait') = {u \in Threads : call'[u] = "wait"}
    BY <1>1, <2>1 DEF LinkedWhileWaiting, TypeOK
  <2>3. ToSet(queue') = {u \in Threads : call'[u] = "sleep_on" /\ pc'[u] # "enqueue"}
    BY <1>1, <2>1 DEF LinkedWhileWaiting, TypeOK
  <2>. QED BY <2>1, <2>2, <2>3 DEF LinkedWhileWaiting
<1>5. AwakeEnough'
  <2>1. awake' = awake
    BY <1>1, QueuesOfThreads DEF awake, TypeOK
  <2>. QED BY <2>1 DEF AwakeEnough, token
<1>. QED BY <1>2, <1>3, <1>4, <1>5

LEMMA EnqueueStep == ASSUME IInv, NEW t \in Threads, Enqueue(t) PROVE IInv'
<1>. USE DEF IInv, Enqueue, sleeper
<1>1. t \notin ToSet(queue) /\ call[t] = "sleep_on"
  BY DEF CallsFit, LinkedWhileWaiting
<1>2. queue' \in Seq(Threads) /\ Distinct(queue') /\ ToSet(queue') = ToSet(queue) \cup {t}
  BY <1>1, Appended DEF TypeOK, LinkedWhileWaiting, Distinct
<1>3. TypeOK' /\ TokensKept'
  BY <1>2 DEF TypeOK, TokensKept, token
<1>4. CallsFit' /\ AwakeWhenBack'
  BY <1>1 DEF TypeOK, CallsFit, AwakeWhenBack
<1>5. LinkedWhileWaiting'
  <2>1. ToSet(queue') = {u \in Threads : call'[u] = "sleep_on" /\ pc'[u] # "enqueue"}
    BY <1>1, <1>2, SMTT(30) DEF LinkedWhileWaiting, TypeOK
  <2>. QED BY <1>2, <2>1 DEF LinkedWhileWaiting, Distinct
<1>6. AwakeEnough'
  BY DEF AwakeEnough, awake, token
<1>. QED BY <1>3, <1>4, <1>5, <1>6

LEMMA DequeueStep == ASSUME IInv, NEW t \in Threads, Dequeue(t) PROVE IInv'
<1>. USE DEF IInv, Dequeue, Return
<1>1. t \in ToSet(queue) /\ t \notin ToSet(xwait)
  BY DEF LinkedWhileWaiting
<1>2. queue' \in Seq(Threads) /\ Distinct(queue') /\ ToSet(queue') = ToSet(queue) \ {t}
  BY <1>1, UnlinkedOne DEF TypeOK, LinkedWhileWaiting, Distinct
<1>3. TypeOK' /\ TokensKept'
  <2>1. mode' \in [Threads -> Modes] /\ pc' \in [Threads -> {"run", "enqueue", "schedule", "asleep", "woken"}]
    BY DEF TypeOK, Modes
  <2>2. {timed', expired', signal'} \subseteq [Threads -> BOOLEAN]
    BY DEF TypeOK
  <2>. QED BY <1>2, <2>1, <2>2 DEF TypeOK, TokensKept, token
<1>4. CallsFit' /\ AwakeWhenBack'
  BY DEF TypeOK, CallsFit, AwakeWhenBack
<1>5. LinkedWhileWaiting'
  <2>1. call' = [call EXCEPT ![t] = "none"] /\ pc' = [pc EXCEPT ![t] = "run"] /\ xwait' = xwait
    OBVIOUS
  <2>2. ToSet(xwait') = {u \in Threads : call'[u] = "wait"}
    BY <1>1, <2>1 DEF LinkedWhileWaiting, TypeOK
  <2>3. ToSet(queue') = {u \in Threads : call'[u] = "sleep_on" /\ pc'[u] # "enqueue"}
    BY <1>2, <2>1 DEF LinkedWhileWaiting, TypeOK
  <2>. QED BY <1>2, <2>1, <2>2, <2>3 DEF LinkedWhileWaiting, Distinct
<1>6. AwakeEnough'
  BY DEF AwakeEnough, awake, token
<1>. QED BY <1>3, <1>4, <1>5, <1>6

(* A woken set of threads.                                                 *)
LEMMA WakeKeeps ==
  ASSUME TypeOK, NEW S, Wake(S)
  PROVE  /\ state' \in [Threads -> Modes \cup {"RUNNING"}]
         /\ \A t \in Threads : state'[t] = state[t] \/ state'[t] = "RUNNING"
BY DEF Wake, TypeOK

(* The steps of schedule(), of timers and of signals.                      *)
LEMMA ScheduleSteps ==
  ASSUME IInv, NEW t \in Threads,
         Schedule(t) \/ Resume(t) \/ Preempt(t) \/ Expire(t) \/ Signal(t) \/ HandleSignal(t)
  PROVE  IInv'
<1>. USE DEF sleeper, token
<1>1. UNCHANGED <<xwait, queue, call, done, taken, posts, all, forced, mode, timed>>
  BY DEF Schedule, Resume, Preempt, Expire, Signal, HandleSignal
<1>2. /\ state' \in [Threads -> Modes \cup {"RUNNING"}]
      /\ \A u \in Threads : state'[u] = state[u] \/ state'[u] = "RUNNING"
  <2>1. CASE \E S : Wake(S)
    BY <2>1, WakeKeeps DEF IInv
  <2>2. CASE state' = [state EXCEPT ![t] = "RUNNING"] \/ state' = state
    BY <2>2 DEF IInv, TypeOK
  <2>. QED BY <2>1, <2>2 DEF Schedule, Resume, Preempt, Expire, Signal, HandleSignal
<1>3. /\ pc' \in [Threads -> {"run", "enqueue", "schedule", "asleep", "woken"}]
      /\ \A u \in Threads \ {t} : pc'[u] = pc[u]
      /\ pc'[t] # pc[t] => pc[t] # "enqueue" /\ pc'[t] # "enqueue"
      /\ expired' \in [Threads -> BOOLEAN] /\ signal' \in [Threads -> BOOLEAN]
  BY DEF IInv, TypeOK, Schedule, Resume, Preempt, Expire, Signal, HandleSignal
<1>4. /\ pc'[t] # pc[t] /\ pc'[t] = "run" => call[t] = "none" /\ state'[t] = "RUNNING"
      /\ pc'[t] # pc[t] /\ pc'[t] = "woken" => call[t] # "none" /\ (t \in forced \/ state'[t] = "RUNNING")
      /\ pc'[t] # pc[t] => pc'[t] # "schedule"
  BY DEF IInv, TypeOK, CallsFit, Schedule, Resume, Preempt, Expire, Signal, HandleSignal
<1>5. TypeOK'
  BY <1>1, <1>2, <1>3 DEF IInv, TypeOK
<1>6. CallsFit'
  BY <1>1, <1>3, <1>4 DEF IInv, CallsFit
<1>7. AwakeWhenBack'
  <2>1. forced \subseteq Forcible
    BY DEF IInv, TypeOK
  <2>. QED BY <1>2, <1>3, <1>4, <2>1 DEF IInv, AwakeWhenBack
<1>8. TokensKept'
  BY <1>1 DEF IInv, TokensKept
<1>9. done' <= done
  BY <1>1, HalfAssumption DEF IInv, TypeOK
<1>. QED BY <1>1, <1>2, <1>3, <1>5, <1>6, <1>7, <1>8, <1>9, QuietStep

LEMMA ReuseStep == ASSUME IInv, Reuse PROVE IInv'
<1>. USE HalfAssumption DEF IInv, Reuse, sleeper
<1>1. TypeOK'
  <2>1. Half \in Nat /\ MaxPosts \in Nat
    OBVIOUS
  <2>2. done' = 0 /\ posts' = 0 /\ taken' = 0
    BY Zenon
  <2>3. done' \in 0 .. 2 * Half + 1 /\ posts' \in 0 .. MaxPosts /\ taken' \in Nat
    <3>. HIDE DEF IInv, Reuse
    <3>. QED BY <2>1, <2>2
  <2>4. all' \in BOOLEAN
    BY Zenon
  <2>. QED BY <2>3, <2>4 DEF TypeOK
<1>2. TokensKept'
  BY DEF TokensKept
<1>3. CallsFit' /\ AwakeWhenBack' /\ LinkedWhileWaiting'
  BY DEF CallsFit, AwakeWhenBack, LinkedWhileWaiting
<1>4. AwakeEnough'
  BY QueuesOfThreads, NoToken
<1>. QED BY <1>1, <1>2, <1>3, <1>4

LEMMA LockSchedulerStep == ASSUME IInv, LockScheduler PROVE IInv'
<1>. USE DEF IInv, LockScheduler, sleeper, token
<1>1. TypeOK' /\ TokensKept'
  BY DEF TypeOK, TokensKept
<1>2. CallsFit' /\ AwakeWhenBack' /\ LinkedWhileWaiting'
  BY DEF CallsFit, AwakeWhenBack, LinkedWhileWaiting
<1>3. AwakeEnough'
  BY DEF AwakeEnough, awake
<1>. QED BY <1>1, <1>2, <1>3

LEMMA WakeUpStep == ASSUME IInv, NEW modes, WakeUp(modes) PROVE IInv'
<1>. USE DEF WakeUp, sleeper, token
<1>1. /\ state' \in [Threads -> Modes \cup {"RUNNING"}]
      /\ \A u \in Threads : state'[u] = state[u] \/ state'[u] = "RUNNING"
  BY WakeKeeps DEF IInv
<1>2. TypeOK' /\ TokensKept'
  BY <1>1 DEF IInv, TypeOK, TokensKept
<1>3. CallsFit' /\ AwakeWhenBack'
  BY <1>1 DEF IInv, CallsFit, AwakeWhenBack
<1>4. done' <= done
  BY HalfAssumption DEF IInv, TypeOK
<1>. QED BY <1>1, <1>2, <1>3, <1>4, QuietStep

LEMMA StepIInv == ASSUME IInv, [Next]_vars PROVE IInv'
<1>1. CASE Complete \/ CompleteAll \/ Reuse \/ LockScheduler
  BY <1>1, CompleteStep, CompleteAllStep, ReuseStep, LockSchedulerStep
<1>2. ASSUME NEW modes, WakeUp(modes) PROVE IInv'
  BY <1>2, WakeUpStep
<1>3. ASSUME NEW t \in Threads,
             Progress(t) \/ Preempt(t) \/ Expire(t) \/ Signal(t) \/ HandleSignal(t)
      PROVE  IInv'
  BY <1>3, LoopStep, EnqueueStep, DequeueStep, ScheduleSteps DEF Progress
<1>4. ASSUME NEW t \in Waiters,
             \/ TakeAtOnce(t) \/ wait_for_completion(t) \/ wait_for_completion_timeout(t)
             \/ wait_for_completion_interruptible(t) \/ wait_for_completion_interruptible_timeout(t)
      PROVE  IInv'
  <2>1. t \in Threads /\ "INTERRUPTIBLE" \in Modes /\ "UNINTERRUPTIBLE" \in Modes
    BY DEF Threads, Modes
  <2>. QED BY <1>4, <2>1, TakeAtOnceStep, WaitStep
         DEF wait_for_completion, wait_for_completion_timeout, wait_for_completion_interruptible,
             wait_for_completion_interruptible_timeout
<1>5. ASSUME NEW t \in Sleepers, NEW m \in Modes, NEW limited \in BOOLEAN, SleepOn(t, m, limited)
      PROVE  IInv'
  BY <1>5, SleepOnStep DEF Threads
<1>6. CASE UNCHANGED vars
  <2>. USE <1>6 DEF vars, token, sleeper, IInv
  <2>1. TypeOK' /\ TokensKept'
    BY DEF TypeOK, TokensKept
  <2>2. CallsFit' /\ LinkedWhileWaiting' /\ AwakeWhenBack' /\ AwakeEnough'
    BY DEF CallsFit, LinkedWhileWaiting, AwakeWhenBack, AwakeEnough, awake
  <2>. QED BY <2>1, <2>2
<1>. QED BY <1>1, <1>2, <1>3, <1>4, <1>5, <1>6 DEF Next

-----------------------------------------------------------------------------
LEMMA AwakeLook == ASSUME IInv PROVE NoLostToken
<1>. DEFINE waiting == ToSet(xwait)
            looking == {t \in waiting : WillLook(t)}
<1>1. awake \in SUBSET looking /\ looking \in SUBSET Threads
  BY QueuesOfThreads DEF IInv, awake, WillLook
<1>2. /\ Cardinality(awake) \in Nat /\ Cardinality(looking) \in Nat
      /\ Cardinality(awake) <= Cardinality(looking)
  BY <1>1, CountedThreads
<1>3. done \in Nat
  BY HalfAssumption DEF IInv, TypeOK
<1>4. CASE awake = waiting
  BY <1>1, <1>4 DEF NoLostToken
<1>5. CASE Cardinality(awake) >= done
  <2>. HIDE DEF looking
  <2>1. Cardinality(looking) >= done
    BY <1>2, <1>3, <1>5
  <2>. QED BY <2>1 DEF NoLostToken, looking
<1>. QED BY <1>4, <1>5 DEF IInv, AwakeEnough

(* Wait queues and completions: no complete() is lost on a waiter that a   *)
(* timeout or a signal woke at the same time, every token is taken once,   *)
(* nothing of a dead stack frame is linked, and nobody but a forced thread *)
(* leaves a wait asleep.                                                   *)
THEOREM WaitersSoundHolds == Spec => []WaitersSound
<1>1. Init => IInv
  BY InitIInv
<1>2. IInv /\ [Next]_vars => IInv'
  BY StepIInv
<1>3. IInv => WaitersSound
  BY AwakeLook DEF IInv, AwakeWhenBack, WaitersSound, LeavesRunning
<1>. QED BY <1>1, <1>2, <1>3, PTL DEF Spec

-----------------------------------------------------------------------------
(* Where a thread is in a queue that holds nobody twice.                   *)
LEMMA AtIsWhere ==
  ASSUME NEW q \in Seq(Threads), Distinct(q), NEW i \in 1 .. Len(q)
  PROVE  At(q, q[i]) = i
BY DEF At, Distinct

(* Threads only join behind those who wait.                                *)
LEMMA JoinsBehind ==
  ASSUME IInv, Next
  PROVE  \/ ToSet(xwait') \subseteq ToSet(xwait)
         \/ \E w \in Threads \ ToSet(xwait) : xwait' = Append(xwait, w)
<1>1. ASSUME NEW t \in Threads, Loop(t) PROVE ToSet(xwait') \subseteq ToSet(xwait)
  <2>1. CASE xwait' = xwait
    BY <2>1
  <2>2. CASE xwait' = Unlinked(xwait, t)
    <3>1. t \in ToSet(xwait)
      BY <1>1 DEF Loop, IInv, LinkedWhileWaiting
    <3>. QED BY <2>2, <3>1, UnlinkedOne DEF IInv, TypeOK, LinkedWhileWaiting, Distinct
  <2>. QED BY <1>1, <2>1, <2>2 DEF Loop
<1>2. ASSUME NEW t \in Threads, NEW m, NEW limited, Wait(t, m, limited)
      PROVE  \E w \in Threads \ ToSet(xwait) : xwait' = Append(xwait, w)
  BY <1>2 DEF Wait, Running, IInv, CallsFit, LinkedWhileWaiting
<1>3. CASE UNCHANGED xwait
  BY <1>3
<1>4. ASSUME NEW t \in Waiters,
             \/ TakeAtOnce(t) \/ wait_for_completion(t) \/ wait_for_completion_timeout(t)
             \/ wait_for_completion_interruptible(t) \/ wait_for_completion_interruptible_timeout(t)
      PROVE  UNCHANGED xwait \/ \E m, limited : Wait(t, m, limited)
  BY <1>4 DEF TakeAtOnce, wait_for_completion, wait_for_completion_timeout,
              wait_for_completion_interruptible, wait_for_completion_interruptible_timeout
<1>5. ASSUME NEW t \in Threads,
             \/ Enqueue(t) \/ Dequeue(t) \/ Schedule(t) \/ Resume(t)
             \/ Preempt(t) \/ Expire(t) \/ Signal(t) \/ HandleSignal(t)
      PROVE  UNCHANGED xwait
  BY <1>5 DEF Enqueue, Dequeue, Schedule, Resume, Preempt, Expire, Signal, HandleSignal
<1>6. ASSUME \/ Complete \/ CompleteAll \/ Reuse \/ LockScheduler
             \/ \E modes \in {{"INTERRUPTIBLE"}, Modes} : WakeUp(modes)
             \/ \E t \in Sleepers, m \in Modes, limited \in BOOLEAN : SleepOn(t, m, limited)
      PROVE  UNCHANGED xwait
  BY <1>6 DEF Complete, CompleteAll, Reuse, LockScheduler, WakeUp, SleepOn
<1>. QED BY <1>1, <1>2, <1>3, <1>4, <1>5, <1>6 DEF Next, Progress, Threads

(* Only complete() posts one token.                                        *)
LEMMA OnlyComplete == ASSUME IInv, Next, posts' = posts + 1 PROVE Complete
<1>1. posts \in Nat
  BY HalfAssumption DEF IInv, TypeOK
<1>2. posts' # posts /\ posts' # 0
  BY <1>1
<1>3. ASSUME NEW t \in Threads, Progress(t) \/ Preempt(t) \/ Expire(t) \/ Signal(t) \/ HandleSignal(t)
      PROVE  posts' = posts
  BY <1>3 DEF Progress, Loop, Enqueue, Dequeue, Schedule, Resume, Preempt, Expire, Signal, HandleSignal, token
<1>4. ASSUME NEW t \in Waiters,
             \/ TakeAtOnce(t) \/ wait_for_completion(t) \/ wait_for_completion_timeout(t)
             \/ wait_for_completion_interruptible(t) \/ wait_for_completion_interruptible_timeout(t)
      PROVE  posts' = posts
  BY <1>4 DEF TakeAtOnce, wait_for_completion, wait_for_completion_timeout, Wait, token,
              wait_for_completion_interruptible, wait_for_completion_interruptible_timeout
<1>5. ASSUME \/ CompleteAll \/ Reuse \/ LockScheduler
             \/ \E modes \in {{"INTERRUPTIBLE"}, Modes} : WakeUp(modes)
             \/ \E t \in Sleepers, m \in Modes, limited \in BOOLEAN : SleepOn(t, m, limited)
      PROVE  posts' = posts \/ posts' = 0
  BY <1>5 DEF CompleteAll, Reuse, LockScheduler, WakeUp, SleepOn, token
<1>. QED BY <1>2, <1>3, <1>4, <1>5 DEF Next

(* complete() passes nobody by: behind a waiter that goes on sleeping      *)
(* nobody is woken.                                                        *)
LEMMA FirstIsWoken ==
  ASSUME IInv, Complete, NEW t \in ToSet(xwait), NEW u \in ToSet(xwait), At(xwait, t) < At(xwait, u),
         state[t] # "RUNNING", state'[t] # "RUNNING"
  PROVE  state'[u] = state[u]
<1>. USE DEF IInv
<1>1. xwait \in Seq(Threads) /\ Distinct(xwait) /\ Len(xwait) \in Nat
  BY LenProperties DEF TypeOK, LinkedWhileWaiting, Distinct
<1>2. PICK i \in 1 .. Len(xwait) : xwait[i] = t
  BY <1>1, Members
<1>3. t \in Threads /\ u \in Threads /\ call[t] = "wait" /\ state[t] \in Modes
  BY QueuesOfThreads DEF LinkedWhileWaiting, TypeOK
<1>4. ASSUME NEW k \in 1 .. Len(xwait), xwait[k] = u,
             Cardinality({j \in 1 .. k - 1 : state[xwait[j]] \in Modes /\ Exclusive(xwait[j])}) < 1
      PROVE  FALSE
  <2>. DEFINE B == {j \in 1 .. k - 1 : state[xwait[j]] \in Modes /\ Exclusive(xwait[j])}
  <2>1. At(xwait, t) = i /\ At(xwait, u) = k
    BY <1>1, <1>2, <1>4, AtIsWhere
  <2>2. i \in 1 .. k - 1
    BY <1>1, <2>1
  <2>3. i \in B
    BY <1>2, <1>3, <2>2 DEF Exclusive
  <2>4. IsFiniteSet(1 .. k - 1) /\ B \subseteq 1 .. k - 1
    BY FS_Interval
  <2>. HIDE DEF B
  <2>5. IsFiniteSet(B) /\ Cardinality(B) \in Nat
    BY <2>4, FS_Subset, FS_CardinalityType
  <2>6. Cardinality(B) # 0
    BY <2>3, <2>5, FS_EmptySet
  <2>7. Cardinality(B) < 1
    BY <1>4 DEF B
  <2>. QED BY <2>5, <2>6, <2>7
<1>5. u \notin Woken(xwait, Modes, 1)
  <2>1. SUFFICES ASSUME u \in Woken(xwait, Modes, 1) PROVE FALSE
    OBVIOUS
  <2>2. PICK k \in 1 .. Len(xwait) :
          /\ xwait[k] = u
          /\ \/ 1 = 0
             \/ Cardinality({j \in 1 .. k - 1 : state[xwait[j]] \in Modes /\ Exclusive(xwait[j])}) < 1
    BY <2>1, Zenon DEF Woken
  <2>3. 1 # 0
    OBVIOUS
  <2>. QED BY <2>2, <2>3, <1>4, Zenon
<1>. QED BY <1>3, <1>5 DEF Complete, Wake

(* __add_wait_queue_tail() and __wake_up_common(), 5758: threads are woken *)
(* in the order in which they were queued, one for each complete().        *)
THEOREM InOrderHolds == Spec => InOrder
<1>. DEFINE Order ==
       \A t, u \in Threads :
         t \in ToSet(xwait) =>
           /\ u \in ToSet(xwait') \ ToSet(xwait) => At(xwait', t) < At(xwait', u)
           /\ /\ posts' = posts + 1
              /\ u \in ToSet(xwait) /\ At(xwait, t) < At(xwait, u)
              /\ state[t] # "RUNNING" /\ state'[t] # "RUNNING"
              => state'[u] = state[u]
<1>1. Init => IInv
  BY InitIInv
<1>2. IInv /\ [Next]_vars => IInv'
  BY StepIInv
<1>3. ASSUME IInv, [Next]_vars PROVE [Order]_vars
  <2>. SUFFICES ASSUME Next, NEW t \in Threads, NEW u \in Threads, t \in ToSet(xwait)
                PROVE  /\ u \in ToSet(xwait') \ ToSet(xwait) => At(xwait', t) < At(xwait', u)
                       /\ /\ posts' = posts + 1
                          /\ u \in ToSet(xwait) /\ At(xwait, t) < At(xwait, u)
                          /\ state[t] # "RUNNING" /\ state'[t] # "RUNNING"
                          => state'[u] = state[u]
    BY <1>3
  <2>1. ASSUME u \in ToSet(xwait') \ ToSet(xwait) PROVE At(xwait', t) < At(xwait', u)
    <3>1. PICK w \in Threads \ ToSet(xwait) : xwait' = Append(xwait, w)
      BY <1>3, <2>1, JoinsBehind
    <3>2. xwait \in Seq(Threads) /\ Distinct(xwait) /\ Len(xwait) \in Nat
      BY <1>3, LenProperties DEF IInv, TypeOK, LinkedWhileWaiting, Distinct
    <3>3. /\ xwait' \in Seq(Threads) /\ Distinct(xwait') /\ ToSet(xwait') = ToSet(xwait) \cup {w}
          /\ Len(xwait') = Len(xwait) + 1 /\ xwait'[Len(xwait) + 1] = w
          /\ \A i \in 1 .. Len(xwait) : xwait'[i] = xwait[i]
      <4>1. /\ Append(xwait, w) \in Seq(Threads) /\ Distinct(Append(xwait, w))
            /\ ToSet(Append(xwait, w)) = ToSet(xwait) \cup {w}
        BY <3>1, <3>2, Appended, Zenon
      <4>2. /\ Len(Append(xwait, w)) = Len(xwait) + 1 /\ Append(xwait, w)[Len(xwait) + 1] = w
            /\ \A i \in 1 .. Len(xwait) : Append(xwait, w)[i] = xwait[i]
        BY <3>1, <3>2, AppendProperties
      <4>. QED BY <3>1, <4>1, <4>2, Zenon
    <3>4. PICK i \in 1 .. Len(xwait) : xwait[i] = t
      BY <3>2, Members
    <3>5. At(xwait', t) = i
      BY <3>2, <3>3, <3>4, AtIsWhere
    <3>6. At(xwait', u) = Len(xwait) + 1
      <4>1. u = w /\ Len(xwait) + 1 \in 1 .. Len(xwait')
        BY <2>1, <3>2, <3>3
      <4>. QED BY <3>3, <4>1, AtIsWhere
    <3>. QED BY <3>2, <3>4, <3>5, <3>6
  <2>2. ASSUME posts' = posts + 1, u \in ToSet(xwait), At(xwait, t) < At(xwait, u),
               state[t] # "RUNNING", state'[t] # "RUNNING"
        PROVE  state'[u] = state[u]
    BY <1>3, <2>2, OnlyComplete, FirstIsWoken
  <2>. QED BY <2>1, <2>2
<1>. QED BY <1>1, <1>2, <1>3, PTL DEF Spec, InOrder
=============================================================================
