-------------------------- MODULE OsCtrlSmp_proofs --------------------------
(***************************************************************************)
(* Theorems about the handlers of os_ctrl on several processors, statement *)
(* by statement, for every number of processors, pids and interrupts.      *)
(***************************************************************************)
EXTENDS OsCtrlSmp, SequenceTheorems, TLAPS

(* What a context that has the statements s to execute does next.          *)
First(s) == IF s = <<>> THEN "nothing" ELSE Head(s)

(* s is what is left of program p; when i is there, from its statement i.  *)
Rest(s, p) ==
  /\ s \in Seq(Statements) /\ s # <<>> /\ Head(s) = First(s)
  /\ Tail(s) \in Seq(Statements)
  /\ Len(s) = 1 <=> Tail(s) = <<>>
  /\ Tail(s) # <<>> => Tail(s) \in Rests(p)
RestAt(s, p, i) ==
  /\ Rest(s, p) /\ First(s) = p[i]
  /\ IF i = Len(p) THEN Tail(s) = <<>> /\ First(Tail(s)) = "nothing"
     ELSE First(Tail(s)) = p[i + 1]

LEMMA RestOf ==
  ASSUME NEW p \in Seq(Statements), NEW s \in Rests(p)
  PROVE  \E i \in 1 .. Len(p) : RestAt(s, p, i)
<1>1. PICK i \in 1 .. Len(p) : s = SubSeq(p, i, Len(p))
  BY DEF Rests
<1>2. Len(p) \in Nat
  BY LenProperties
<1>3. s \in Seq(Statements) /\ Len(s) = Len(p) - i + 1
  BY <1>1, <1>2, SubSeqProperties, ElementOfSeq
<1>4. Head(s) = p[i] /\ Tail(s) = SubSeq(p, i + 1, Len(p))
  BY <1>1, <1>2, HeadTailOfSubSeq
<1>5. s # <<>> /\ Tail(s) \in Seq(Statements) /\ Len(Tail(s)) = Len(s) - 1
  <2>1. s # <<>>
    BY <1>2, <1>3, EmptySeq
  <2>. QED BY <1>3, <2>1, HeadTailProperties
<1>6. Len(s) = 1 <=> Tail(s) = <<>>
  <2>1. Tail(s) = <<>> => Len(Tail(s)) = 0
    BY EmptySeq
  <2>2. Tail(s) # <<>> => Len(Tail(s)) \in Nat \ {0}
    BY <1>5, EmptySeq
  <2>3. Len(s) = 1 => Len(Tail(s)) = 0
    BY <1>5
  <2>4. Tail(s) = <<>> => Len(s) = 1
    BY <1>2, <1>3, <1>5, <2>1
  <2>. QED BY <2>2, <2>3, <2>4
<1>7. CASE i = Len(p)
  <2>1. Tail(s) = <<>>
    BY <1>2, <1>3, <1>6, <1>7
  <2>. QED BY <1>3, <1>4, <1>5, <1>6, <1>7, <2>1 DEF First, Rest, RestAt
<1>8. CASE i # Len(p)
  <2>1. i + 1 \in 1 .. Len(p) /\ Len(s) # 1
    BY <1>2, <1>3, <1>8
  <2>2. Head(Tail(s)) = p[i + 1] /\ Tail(s) # <<>>
    BY <1>2, <1>4, <1>6, <2>1, HeadTailOfSubSeq
  <2>. QED BY <1>3, <1>4, <1>5, <1>6, <1>8, <2>1, <2>2 DEF First, Rest, RestAt, Rests
<1>. QED BY <1>7, <1>8

(* The statements of each program, and what follows each of them.          *)
LEMMA StartProgram ==
  ASSUME NEW s \in Rests(Whole("start"))
  PROVE  /\ Rest(s, Whole("start"))
         /\ \/ First(s) = "cancel_reset" /\ First(Tail(s)) = "cancel_kill"
            \/ First(s) = "cancel_kill" /\ First(Tail(s)) = "start_kill"
            \/ First(s) = "start_kill" /\ First(Tail(s)) = "start_reset"
            \/ First(s) = "start_reset" /\ First(Tail(s)) = "irq_disable"
            \/ First(s) = "irq_disable" /\ First(Tail(s)) = "force"
            \/ First(s) = "force" /\ First(Tail(s)) = "save_disable"
            \/ First(s) = "save_disable" /\ First(Tail(s)) = "nothing"
<1>. DEFINE p == Whole("start")
<1>1. /\ p \in Seq(Statements) /\ Len(p) = 7
      /\ p[1] = "cancel_reset" /\ p[2] = "cancel_kill" /\ p[3] = "start_kill" /\ p[4] = "start_reset"
      /\ p[5] = "irq_disable" /\ p[6] = "force" /\ p[7] = "save_disable"
  BY DEF Whole, SetOs, Statements
<1>. HIDE DEF p
<1>2. PICK i \in 1 .. 7 : RestAt(s, p, i)
  BY <1>1, RestOf DEF p
<1>3. CASE i = 1
  BY <1>1, <1>2, <1>3 DEF p, Rest, RestAt
<1>4. CASE i = 2
  BY <1>1, <1>2, <1>4 DEF p, Rest, RestAt
<1>5. CASE i = 3
  BY <1>1, <1>2, <1>5 DEF p, Rest, RestAt
<1>6. CASE i = 4
  BY <1>1, <1>2, <1>6 DEF p, Rest, RestAt
<1>7. CASE i = 5
  BY <1>1, <1>2, <1>7 DEF p, Rest, RestAt
<1>8. CASE i = 6
  BY <1>1, <1>2, <1>8 DEF p, Rest, RestAt
<1>9. CASE i = 7
  BY <1>1, <1>2, <1>9 DEF p, Rest, RestAt
<1>. QED BY <1>2, <1>3, <1>4, <1>5, <1>6, <1>7, <1>8, <1>9

LEMMA StopProgram ==
  ASSUME NEW s \in Rests(Whole("stop"))
  PROVE  /\ Rest(s, Whole("stop"))
         /\ \/ First(s) = "cancel_reset" /\ First(Tail(s)) = "cancel_kill"
            \/ First(s) = "cancel_kill" /\ First(Tail(s)) = "irq_enable"
            \/ First(s) = "irq_enable" /\ First(Tail(s)) = "release"
            \/ First(s) = "release" /\ First(Tail(s)) = "save_enable"
            \/ First(s) = "save_enable" /\ First(Tail(s)) = "nothing"
<1>. DEFINE p == Whole("stop")
<1>1. /\ p \in Seq(Statements) /\ Len(p) = 5
      /\ p[1] = "cancel_reset" /\ p[2] = "cancel_kill" /\ p[3] = "irq_enable" /\ p[4] = "release"
      /\ p[5] = "save_enable"
  BY DEF Whole, SetOs, Statements
<1>. HIDE DEF p
<1>2. PICK i \in 1 .. 5 : RestAt(s, p, i)
  BY <1>1, RestOf DEF p
<1>3. CASE i = 1
  BY <1>1, <1>2, <1>3 DEF p, Rest, RestAt
<1>4. CASE i = 2
  BY <1>1, <1>2, <1>4 DEF p, Rest, RestAt
<1>5. CASE i = 3
  BY <1>1, <1>2, <1>5 DEF p, Rest, RestAt
<1>6. CASE i = 4
  BY <1>1, <1>2, <1>6 DEF p, Rest, RestAt
<1>7. CASE i = 5
  BY <1>1, <1>2, <1>7 DEF p, Rest, RestAt
<1>. QED BY <1>2, <1>3, <1>4, <1>5, <1>6, <1>7

LEMMA ReadProgram ==
  ASSUME NEW s \in Rests(Whole("read"))
  PROVE  /\ Rest(s, Whole("read"))
         /\ \/ First(s) = "release" /\ First(Tail(s)) = "irq_enable"
            \/ First(s) = "irq_enable" /\ First(Tail(s)) = "cancel_reset"
            \/ First(s) = "cancel_reset" /\ First(Tail(s)) = "cancel_kill"
            \/ First(s) = "cancel_kill" /\ First(Tail(s)) = "nothing"
<1>. DEFINE p == Whole("read")
<1>1. /\ p \in Seq(Statements) /\ Len(p) = 4
      /\ p[1] = "release" /\ p[2] = "irq_enable" /\ p[3] = "cancel_reset" /\ p[4] = "cancel_kill"
  BY DEF Whole, Statements
<1>. HIDE DEF p
<1>2. PICK i \in 1 .. 4 : RestAt(s, p, i)
  BY <1>1, RestOf DEF p
<1>3. CASE i = 1
  BY <1>1, <1>2, <1>3 DEF p, Rest, RestAt
<1>4. CASE i = 2
  BY <1>1, <1>2, <1>4 DEF p, Rest, RestAt
<1>5. CASE i = 3
  BY <1>1, <1>2, <1>5 DEF p, Rest, RestAt
<1>6. CASE i = 4
  BY <1>1, <1>2, <1>6 DEF p, Rest, RestAt
<1>. QED BY <1>2, <1>3, <1>4, <1>5, <1>6

LEMMA NotaskProgram ==
  ASSUME NEW s \in Rests(Whole("notask"))
  PROVE  /\ Rest(s, Whole("notask"))
         /\ \/ First(s) = "irq_enable" /\ First(Tail(s)) = "nothing"
<1>. DEFINE p == Whole("notask")
<1>1. /\ p \in Seq(Statements) /\ Len(p) = 1
      /\ p[1] = "irq_enable"
  BY DEF Whole, Statements
<1>. HIDE DEF p
<1>2. PICK i \in 1 .. 1 : RestAt(s, p, i)
  BY <1>1, RestOf DEF p
<1>3. CASE i = 1
  BY <1>1, <1>2, <1>3 DEF p, Rest, RestAt
<1>. QED BY <1>2, <1>3

LEMMA RmmodProgram ==
  ASSUME NEW s \in Rests(Whole("rmmod"))
  PROVE  /\ Rest(s, Whole("rmmod"))
         /\ \/ First(s) = "release" /\ First(Tail(s)) = "irq_enable"
            \/ First(s) = "irq_enable" /\ First(Tail(s)) = "cancel_reset"
            \/ First(s) = "cancel_reset" /\ First(Tail(s)) = "cancel_kill"
            \/ First(s) = "cancel_kill" /\ First(Tail(s)) = "unload"
            \/ First(s) = "unload" /\ First(Tail(s)) = "nothing"
<1>. DEFINE p == Whole("rmmod")
<1>1. /\ p \in Seq(Statements) /\ Len(p) = 5
      /\ p[1] = "release" /\ p[2] = "irq_enable" /\ p[3] = "cancel_reset" /\ p[4] = "cancel_kill"
      /\ p[5] = "unload"
  BY DEF Whole, Statements
<1>. HIDE DEF p
<1>2. PICK i \in 1 .. 5 : RestAt(s, p, i)
  BY <1>1, RestOf DEF p
<1>3. CASE i = 1
  BY <1>1, <1>2, <1>3 DEF p, Rest, RestAt
<1>4. CASE i = 2
  BY <1>1, <1>2, <1>4 DEF p, Rest, RestAt
<1>5. CASE i = 3
  BY <1>1, <1>2, <1>5 DEF p, Rest, RestAt
<1>6. CASE i = 4
  BY <1>1, <1>2, <1>6 DEF p, Rest, RestAt
<1>7. CASE i = 5
  BY <1>1, <1>2, <1>7 DEF p, Rest, RestAt
<1>. QED BY <1>2, <1>3, <1>4, <1>5, <1>6, <1>7

LEMMA ResetProgram ==
  ASSUME NEW s \in Rests(Handler("reset"))
  PROVE  /\ Rest(s, Handler("reset"))
         /\ \/ First(s) = "release" /\ First(Tail(s)) = "irq_enable"
            \/ First(s) = "irq_enable" /\ First(Tail(s)) = "end_reset"
            \/ First(s) = "end_reset" /\ First(Tail(s)) = "nothing"
<1>. DEFINE p == Handler("reset")
<1>1. /\ p \in Seq(Statements) /\ Len(p) = 3
      /\ p[1] = "release" /\ p[2] = "irq_enable" /\ p[3] = "end_reset"
  BY DEF Handler, Statements
<1>. HIDE DEF p
<1>2. PICK i \in 1 .. 3 : RestAt(s, p, i)
  BY <1>1, RestOf DEF p
<1>3. CASE i = 1
  BY <1>1, <1>2, <1>3 DEF p, Rest, RestAt
<1>4. CASE i = 2
  BY <1>1, <1>2, <1>4 DEF p, Rest, RestAt
<1>5. CASE i = 3
  BY <1>1, <1>2, <1>5 DEF p, Rest, RestAt
<1>. QED BY <1>2, <1>3, <1>4, <1>5

LEMMA KillProgram ==
  ASSUME NEW s \in Rests(Handler("kill"))
  PROVE  /\ Rest(s, Handler("kill"))
         /\ \/ First(s) = "release" /\ First(Tail(s)) = "irq_enable"
            \/ First(s) = "irq_enable" /\ First(Tail(s)) = "end_kill"
            \/ First(s) = "end_kill" /\ First(Tail(s)) = "nothing"
<1>. DEFINE p == Handler("kill")
<1>1. /\ p \in Seq(Statements) /\ Len(p) = 3
      /\ p[1] = "release" /\ p[2] = "irq_enable" /\ p[3] = "end_kill"
  BY DEF Handler, Statements
<1>. HIDE DEF p
<1>2. PICK i \in 1 .. 3 : RestAt(s, p, i)
  BY <1>1, RestOf DEF p
<1>3. CASE i = 1
  BY <1>1, <1>2, <1>3 DEF p, Rest, RestAt
<1>4. CASE i = 2
  BY <1>1, <1>2, <1>4 DEF p, Rest, RestAt
<1>5. CASE i = 3
  BY <1>1, <1>2, <1>5 DEF p, Rest, RestAt
<1>. QED BY <1>2, <1>3, <1>4, <1>5

-----------------------------------------------------------------------------
(* A statement of a program and the one that follows it.                   *)
Follows(program, s, d) ==
  /\ program = "start" =>
         \/ (s = "cancel_reset" /\ d = "cancel_kill") \/ (s = "cancel_kill" /\ d = "start_kill")
         \/ (s = "start_kill" /\ d = "start_reset") \/ (s = "start_reset" /\ d = "irq_disable")
         \/ (s = "irq_disable" /\ d = "force") \/ (s = "force" /\ d = "save_disable")
         \/ s = "save_disable" /\ d = "nothing"
  /\ program = "stop" =>
         \/ (s = "cancel_reset" /\ d = "cancel_kill") \/ (s = "cancel_kill" /\ d = "irq_enable")
         \/ (s = "irq_enable" /\ d = "release") \/ (s = "release" /\ d = "save_enable")
         \/ s = "save_enable" /\ d = "nothing"
  /\ program = "read" =>
         \/ (s = "release" /\ d = "irq_enable") \/ (s = "irq_enable" /\ d = "cancel_reset")
         \/ (s = "cancel_reset" /\ d = "cancel_kill") \/ (s = "cancel_kill" /\ d = "nothing")
  /\ program = "notask" => s = "irq_enable" /\ d = "nothing"
  /\ program = "rmmod" =>
         \/ (s = "release" /\ d = "irq_enable") \/ (s = "irq_enable" /\ d = "cancel_reset")
         \/ (s = "cancel_reset" /\ d = "cancel_kill") \/ (s = "cancel_kill" /\ d = "unload")
         \/ s = "unload" /\ d = "nothing"
FollowsIn(t, s, d) ==
  \/ s = "release" /\ d = "irq_enable"
  \/ s = "irq_enable" /\ d = (IF t = "reset" THEN "end_reset" ELSE "end_kill")
  \/ s = (IF t = "reset" THEN "end_reset" ELSE "end_kill") /\ d = "nothing"

(* What context x does after its next statement.                           *)
Then(x) == First(Tail(todo[x]))

LEMMA ContextsAre ==
  /\ \A x \in Contexts : x[1] \in Cpus /\ x[2] \in Levels /\ x # NoOwner
  /\ \A x \in Contexts : Task(x) \/ x = <<x[1], "irq">>
  /\ \A x \in Contexts : ~Task(x) => ~Interrupted(x)
  /\ base \in Cpus => /\ Watchdog \in Contexts /\ ~Task(Watchdog)
                      /\ Watchdog[1] = base /\ Watchdog[2] = "irq"
                      /\ \A x \in Contexts : Task(x) /\ x[1] = base => (Interrupted(x) <=> Busy(Watchdog))
BY DEF Contexts, Levels, NoOwner, Task, Watchdog, Interrupted

LEMMA DueIs ==
  ASSUME NEW x \in Contexts, todo \in [Contexts -> Seq(Statements)]
  PROVE  /\ Due(x) = First(todo[x])
         /\ Busy(x) <=> Due(x) # "nothing"
<1>1. todo[x] # <<>> => Head(todo[x]) \in Statements
  BY HeadTailProperties
<1>2. "nothing" \notin Statements
  BY DEF Statements
<1>. QED BY <1>1, <1>2 DEF Due, Busy, First

LEMMA TaskAt ==
  ASSUME SmpInv, NEW x \in Contexts, Task(x), Busy(x)
  PROVE  /\ serving \in Commands /\ Follows(serving, Due(x), Then(x))
         /\ Rest(todo[x], Whole(serving)) /\ Due(x) = Head(todo[x])
<1>1. /\ serving \in Commands /\ todo[x] \in Rests(Whole(serving))
      /\ Due(x) = First(todo[x]) /\ Due(x) = Head(todo[x])
  BY DueIs DEF SmpInv, OneAtATime, SmpTypeOK, First, Busy
<1>2. CASE serving = "start"
  BY <1>1, <1>2, StartProgram DEF Follows, Then
<1>3. CASE serving = "stop"
  BY <1>1, <1>3, StopProgram DEF Follows, Then
<1>4. CASE serving = "read"
  BY <1>1, <1>4, ReadProgram DEF Follows, Then
<1>5. CASE serving = "notask"
  BY <1>1, <1>5, NotaskProgram DEF Follows, Then
<1>6. CASE serving = "rmmod"
  BY <1>1, <1>6, RmmodProgram DEF Follows, Then
<1>. QED BY <1>1, <1>2, <1>3, <1>4, <1>5, <1>6 DEF Commands

LEMMA WatchdogAt ==
  ASSUME SmpInv, NEW x \in Contexts, ~Task(x), Busy(x)
  PROVE  /\ x = Watchdog /\ Due(x) = Head(todo[x])
         /\ \E t \in Timers :
              /\ timer[t] = "CALLBACK" /\ FollowsIn(t, Due(x), Then(x))
              /\ timer["reset"] = IF t = "reset" THEN "CALLBACK" ELSE "INACTIVE"
              /\ timer["kill"] = IF t = "kill" THEN "CALLBACK" ELSE "ENQUEUED"
              /\ Rest(todo[x], Handler(t)) /\ todo[x] \in Rests(Handler(t))
<1>1. PICK t \in Timers : timer[t] = "CALLBACK" /\ todo[x] \in Rests(Handler(t))
  BY DEF SmpInv, OneAtATime
<1>2. x = Watchdog /\ Due(x) = Head(todo[x]) /\ Due(x) = First(todo[x])
  BY DueIs DEF SmpInv, OneAtATime, SmpTypeOK, First, Busy
<1>3. /\ timer["reset"] = IF t = "reset" THEN "CALLBACK" ELSE "INACTIVE"
      /\ timer["kill"] = IF t = "kill" THEN "CALLBACK" ELSE "ENQUEUED"
  BY <1>1 DEF SmpInv, OneAtATime, SmpTypeOK, Timers
<1>4. CASE t = "reset"
  BY <1>1, <1>2, <1>3, <1>4, ResetProgram DEF FollowsIn, Then
<1>5. CASE t = "kill"
  BY <1>1, <1>2, <1>3, <1>5, KillProgram DEF FollowsIn, Then
<1>. QED BY <1>4, <1>5 DEF Timers

(* Context x has executed statement s.                                     *)
LEMMA Moves ==
  ASSUME SmpInv, NEW x \in Contexts, NEW s, At(x, s), Done(x)
  PROVE  /\ Busy(x) /\ Idle(x) /\ ~Interrupted(x) /\ Due(x) = s /\ Due(x)' = Then(x)
         /\ todo' \in [Contexts -> Seq(Statements)]
         /\ Busy(x)' <=> Then(x) # "nothing"
         /\ \A y \in Contexts : y # x =>
              Due(y)' = Due(y) /\ (Busy(y)' <=> Busy(y)) /\ todo'[y] = todo[y]
         /\ Task(x) => serving' = IF Then(x) = "nothing" THEN "none" ELSE serving
         /\ ~Task(x) => serving' = serving
         /\ Task(x) /\ Busy(x)' => todo'[x] \in Rests(Whole(serving))
         /\ ~Task(x) /\ Busy(x)' =>
              \A t \in Timers : timer[t] = "CALLBACK" => todo'[x] \in Rests(Handler(t))
<1>1. Busy(x) /\ Idle(x) /\ ~Interrupted(x) /\ Due(x) = s
  BY DEF At, Due
<1>2. \E p : /\ Rest(todo[x], p)
             /\ IF Task(x) THEN p = Whole(serving)
                ELSE \A t \in Timers : timer[t] = "CALLBACK" => p = Handler(t)
  <2>1. CASE Task(x)
    BY <1>1, <2>1, TaskAt
  <2>2. CASE ~Task(x)
    BY <1>1, <2>2, WatchdogAt DEF Timers
  <2>. QED BY <2>1, <2>2
<1>3. todo' = [todo EXCEPT ![x] = Tail(todo[x])] /\ todo \in [Contexts -> Seq(Statements)]
  BY DEF Done, SmpInv, SmpTypeOK
<1>4. todo' \in [Contexts -> Seq(Statements)] /\ todo'[x] = Tail(todo[x])
  BY <1>2, <1>3 DEF Rest
<1>5. Due(x)' = Then(x) /\ (Busy(x)' <=> Then(x) # "nothing")
  <2>1. Due(x)' = First(todo'[x])
    BY DEF Due, First, Busy
  <2>2. todo'[x] # <<>> => Head(todo'[x]) \in Statements
    BY <1>4, HeadTailProperties
  <2>. QED BY <1>4, <2>1, <2>2 DEF Then, First, Busy, Statements
<1>6. \A y \in Contexts : y # x => todo'[y] = todo[y]
  BY <1>3
<1>7. \A y \in Contexts : y # x => Due(y)' = Due(y) /\ (Busy(y)' <=> Busy(y))
  BY <1>6 DEF Due, Busy
<1>8. Len(todo[x]) = 1 <=> Then(x) = "nothing"
  BY <1>2, <1>4, <1>5 DEF Rest, Busy
<1>9. serving' = IF Task(x) /\ Len(todo[x]) = 1 THEN "none" ELSE serving
  BY DEF Done, Task
<1>10. Task(x) /\ Busy(x)' => todo'[x] \in Rests(Whole(serving))
  BY <1>2, <1>4 DEF Rest, Busy
<1>11. ~Task(x) /\ Busy(x)' =>
              \A t \in Timers : timer[t] = "CALLBACK" => todo'[x] \in Rests(Handler(t))
  BY <1>2, <1>4 DEF Rest, Busy
<1>12. (Task(x) => serving' = IF Then(x) = "nothing" THEN "none" ELSE serving) /\ (~Task(x) => serving' = serving)
  BY <1>8, <1>9
<1>. QED BY <1>1, <1>4, <1>5, <1>6, <1>7, <1>10, <1>11, <1>12

(* The order of the commands and the watchdogs after a statement that ends *)
(* no watchdog handler.                                                    *)
LEMMA OrderKept ==
  ASSUME SmpInv, NEW x \in Contexts, NEW s, At(x, s), Done(x),
         \A t \in Timers : timer'[t] = "CALLBACK" <=> timer[t] = "CALLBACK",
         base' = base \/ \A t \in Timers : timer[t] # "CALLBACK",
         timer'["reset"] # "INACTIVE" => timer'["kill"] = "ENQUEUED",
         Then(x) = "nothing" => Task(x)
  PROVE  OneAtATime'
<1>0. OneAtATime /\ base \in Cpus
  BY DEF SmpInv, SmpTypeOK
<1>1. /\ Busy(x) /\ (Busy(x)' <=> Then(x) # "nothing")
      /\ \A y \in Contexts : y # x => (Busy(y)' <=> Busy(y)) /\ todo'[y] = todo[y]
      /\ Task(x) => serving' = IF Then(x) = "nothing" THEN "none" ELSE serving
      /\ ~Task(x) => serving' = serving
      /\ Task(x) /\ Busy(x)' => todo'[x] \in Rests(Whole(serving))
      /\ ~Task(x) /\ Busy(x)' =>
           \A t \in Timers : timer[t] = "CALLBACK" => todo'[x] \in Rests(Handler(t))
  BY Moves
<1>2. \A y \in Contexts : Task(y) /\ Busy(y)' => serving' # "none" /\ todo'[y] \in Rests(Whole(serving'))
  BY <1>0, <1>1 DEF OneAtATime
<1>3. \A y, z \in Contexts : Task(y) /\ Busy(y)' /\ Task(z) /\ Busy(z)' => y = z
  BY <1>0, <1>1 DEF OneAtATime
<1>4. \A y \in Contexts : ~Task(y) /\ Busy(y)' =>
        y = Watchdog' /\ \E t \in Timers : timer'[t] = "CALLBACK" /\ todo'[y] \in Rests(Handler(t))
  <2>. SUFFICES ASSUME NEW y \in Contexts, ~Task(y), Busy(y)'
                PROVE  y = Watchdog' /\ \E t \in Timers : timer'[t] = "CALLBACK" /\ todo'[y] \in Rests(Handler(t))
    OBVIOUS
  <2>1. Busy(y)
    BY <1>1
  <2>2. PICK t \in Timers : timer[t] = "CALLBACK" /\ todo[y] \in Rests(Handler(t)) /\ y = Watchdog
    BY <1>0, <2>1 DEF OneAtATime
  <2>3. Watchdog' = Watchdog
    BY <2>2 DEF Watchdog
  <2>. QED BY <1>1, <2>2, <2>3
<1>5. \A t \in Timers : timer'[t] = "CALLBACK" => Busy(Watchdog)'
  <2>. SUFFICES ASSUME NEW t \in Timers, timer[t] = "CALLBACK" PROVE Busy(Watchdog)'
    OBVIOUS
  <2>1. Watchdog' = Watchdog /\ Watchdog \in Contexts /\ ~Task(Watchdog)
    BY <1>0, ContextsAre DEF Watchdog
  <2>2. Busy(Watchdog)
    BY <1>0 DEF OneAtATime
  <2>3. todo'[Watchdog] # <<>>
    BY <1>1, <2>1, <2>2 DEF Busy
  <2>. QED BY <2>1, <2>3 DEF Busy
<1>. QED BY <1>2, <1>3, <1>4, <1>5 DEF OneAtATime, Task

(* set_pid_force_run() is where it was.                                    *)
LEMMA CallsKept ==
  ASSUME SmpInv, UNCHANGED vars
  PROVE  TypeOK' /\ LockOwned' /\ ResetsConverge' /\ Settled'
BY DEF SmpInv, SmpTypeOK, vars, TypeOK, LockOwned, ResetsConverge, Settled, Quiet, Idle, Forcing

(* Only the watchdogs of one processor run next to a command.              *)
LEMMA Others ==
  ASSUME SmpInv, NEW x \in Contexts, Task(x), Busy(x), NEW y \in Contexts, y # x
  PROVE  /\ ~Task(y) \/ ~Busy(y)
         /\ Due(y) \in {"nothing", "release", "irq_enable", "end_reset", "end_kill"}
         /\ Due(y) = "nothing" \/ y = Watchdog
<1>1. ~Task(y) \/ ~Busy(y)
  BY DEF SmpInv, OneAtATime
<1>2. Due(y) = "nothing" \/ Busy(y)
  BY DEF Due
<1>. QED BY <1>1, <1>2, WatchdogAt DEF FollowsIn, Timers

LEMMA CancelKeeps ==
  ASSUME SmpInv, NEW x \in Contexts, NEW t \in Timers, Cancel(x, t)
  PROVE  SmpInv'
<1>. DEFINE s == IF t = "reset" THEN "cancel_reset" ELSE "cancel_kill"
<1>0. /\ SmpTypeOK /\ OneAtATime /\ InsideCalls /\ IrqLoops /\ StartsFree /\ KillIsLast
      /\ \A y \in Contexts : Busy(y) => Undone(y) /\ (Starting(y) => StartBacked(y))
  BY DEF SmpInv
<1>1. At(x, s) /\ Done(x) /\ UNCHANGED <<vars, n, irq_enabled, depth, last_enable, base>>
  BY DEF Cancel
<1>2. /\ Busy(x) /\ Idle(x) /\ Due(x) = s /\ Due(x)' = Then(x)
      /\ todo' \in [Contexts -> Seq(Statements)]
      /\ Busy(x)' <=> Then(x) # "nothing"
      /\ \A y \in Contexts : y # x => Due(y)' = Due(y) /\ (Busy(y)' <=> Busy(y))
      /\ Task(x) => serving' = IF Then(x) = "nothing" THEN "none" ELSE serving
  BY <1>1, Moves
<1>3. Task(x)
  BY <1>2, WatchdogAt DEF FollowsIn
<1>4. /\ serving \in Commands
      /\ t = "reset" => Then(x) = "cancel_kill"
      /\ t = "kill" => /\ serving = "start" => Then(x) = "start_kill"
                       /\ serving = "stop"  => Then(x) = "irq_enable"
                       /\ serving = "read"  => Then(x) = "nothing"
                       /\ serving = "rmmod" => Then(x) = "unload"
      /\ serving # "notask"
  BY <1>2, <1>3, TaskAt DEF Follows, Commands, Timers
<1>5. /\ timer' \in [Timers -> {"INACTIVE", "ENQUEUED", "CALLBACK"}]
      /\ t = "kill" => timer'["kill"] = "INACTIVE" /\ timer'["reset"] = timer["reset"]
      /\ t = "reset" => timer'["reset"] = "INACTIVE" /\ timer'["kill"] = timer["kill"]
      /\ timer[t] # "CALLBACK"
  BY <1>0 DEF Cancel, SmpTypeOK, Timers
<1>6. t = "kill" => timer["reset"] = "INACTIVE"
  BY <1>0, <1>2, <1>3 DEF Undone
<1>7. OneAtATime'
  BY <1>0, <1>1, <1>3, <1>5, <1>6, OrderKept DEF OneAtATime, Timers
<1>8. SmpTypeOK'
  BY <1>0, <1>1, <1>2, <1>3, <1>5, CallsKept DEF SmpTypeOK
<1>9. InsideCalls'
  BY <1>0, <1>1, <1>2 DEF InsideCalls, Idle, vars
<1>10. IrqLoops'
  <2>1. n[x] = 0 /\ Due(x) # "irq_enable" /\ Due(x)' # "irq_disable"
    BY <1>0, <1>2, <1>4 DEF IrqLoops, Timers, Commands
  <2>2. \A y \in Contexts : n'[y] # 0 => Due(y)' \in {"irq_disable", "irq_enable"}
    BY <1>0, <1>1, <1>2, <2>1 DEF IrqLoops
  <2>3. \A y \in Contexts : Due(y)' = "irq_enable" => \A i \in 1 .. n'[y] : depth'[i] = 0
    BY <1>0, <1>1, <1>2, <2>1 DEF IrqLoops
  <2>4. (\A y \in Contexts : Due(y)' # "irq_disable") => \A y \in Contexts : Due(y) # "irq_disable"
    BY <1>2
  <2>5. \A y \in Contexts : Due(y) = "irq_enable" => Due(y)' = "irq_enable"
    BY <1>2, <2>1
  <2>. QED BY <1>0, <1>1, <2>2, <2>3, <2>4, <2>5 DEF IrqLoops
<1>11. StartsFree'
  <2>1. \A y \in Contexts : Task(y) /\ serving' = "start" /\ last_enable' = "DISABLE" /\ Busy(y)' =>
       Due(y)' = "save_disable"
    BY <1>0, <1>1, <1>2, <1>3, <1>4, Others DEF StartsFree
  <2>2. \A y \in Contexts : Starting(y) => Starting(y)'
    BY <1>1, <1>2 DEF Starting
  <2>3. NoTimers /\ Free => NoTimers' /\ Free'
    BY <1>1, <1>5 DEF NoTimers, Free, PidFree, IrqsFree, vars, Timers
  <2>. QED BY <1>0, <1>1, <2>1, <2>2, <2>3 DEF StartsFree
<1>12. \A y \in Contexts : ~Starting(y) /\ ~Starting(y)'
  BY <1>1, <1>2, <1>3, <1>4, Others DEF Starting, Timers, Commands
<1>13. \A y \in Contexts : Busy(y)' => Undone(y)'
  <2>1. ASSUME NEW y \in Contexts, y # x, Busy(y)' PROVE Undone(y)'
    <3>1. Due(y)' = Due(y) /\ Due(y) \in {"release", "irq_enable", "end_reset", "end_kill"} /\ ~Task(y) /\ Undone(y)
          /\ Due(y) # "nothing"
      BY <1>0, <1>2, <1>3, <2>1, Others, DueIs DEF SmpTypeOK
    <3>2. timer'["kill"] = "CALLBACK" => timer["kill"] = "CALLBACK"
      BY <1>5 DEF Timers
    <3>. QED BY <1>1, <3>1, <3>2 DEF Undone, Released, Enabled, Cancelled, Task, Idle, PidFree, IrqsFree, vars
  <2>2. ASSUME Busy(x)' PROVE Undone(x)'
    <3>1. Undone(x)
      BY <1>0, <1>2
    <3>2. CASE t = "reset"
      BY <1>1, <1>2, <1>3, <1>4, <1>5, <3>1, <3>2 DEF Undone, Released, Enabled, Cancelled, Task, Idle, PidFree, IrqsFree, vars
    <3>3. CASE t = "kill"
      BY <1>1, <1>2, <1>3, <1>4, <1>5, <1>6, <2>2, <3>1, <3>3 DEF Commands, Undone, Released, Enabled, Cancelled, Task, Idle,
         PidFree, IrqsFree, NoTimers, vars
    <3>. QED BY <3>2, <3>3 DEF Timers
  <2>. QED BY <2>1, <2>2
<1>14. KillIsLast'
  <2>1. CASE t = "reset"
    <3>1. \A y \in Contexts : Task(y) => Due(y) \notin {"irq_enable", "release", "save_enable"}
      BY <1>2, <1>3, <2>1, Others, DueIs DEF SmpInv, SmpTypeOK
    <3>. QED BY <1>0, <1>1, <1>5, <2>1, <3>1 DEF KillIsLast, Free, PidFree, IrqsFree, vars
  <2>2. CASE t = "kill" /\ serving = "stop"
    BY <1>1, <1>2, <1>3, <1>4, <2>2 DEF KillIsLast
  <2>3. CASE t = "kill" /\ serving # "stop"
    <3>1. Undone(x) /\ (serving = "start" => Free)
      BY <1>0, <1>2, <1>12, <2>3, <1>3 DEF StartsFree
    <3>. QED BY <1>1, <1>2, <1>3, <1>4, <2>3, <3>1 DEF KillIsLast, Undone, Released, Enabled, Commands, Free, PidFree, IrqsFree, vars
  <2>. QED BY <2>1, <2>2, <2>3 DEF Timers
<1>. QED BY <1>1, <1>7, <1>8, <1>9, <1>10, <1>11, <1>12, <1>13, <1>14, CallsKept DEF SmpInv

(* The parts of the invariant as facts, and what a command in its start    *)
(* knows of the others.                                                    *)
LEMMA Parts ==
  ASSUME SmpInv
  PROVE  /\ SmpTypeOK /\ OneAtATime /\ InsideCalls /\ IrqLoops /\ StartsFree /\ KillIsLast
         /\ LockOwned /\ ResetsConverge /\ Settled
         /\ \A y \in Contexts : Busy(y) => Undone(y) /\ (Starting(y) => StartBacked(y))
         /\ \A y \in Contexts : Busy(y) <=> Due(y) # "nothing"
         /\ \A y \in Contexts : ~Busy(y) => Idle(y) /\ n[y] = 0
<1>1. \A y \in Contexts : Busy(y) <=> Due(y) # "nothing"
  BY DueIs DEF SmpInv, SmpTypeOK
<1>. QED BY <1>1 DEF SmpInv, InsideCalls, IrqLoops

LEMMA StartingAlone ==
  ASSUME SmpInv, NEW x \in Contexts, Starting(x)
  PROVE  /\ Task(x) /\ Busy(x) /\ serving = "start" /\ last_enable # "DISABLE" /\ StartBacked(x)
         /\ ~Interrupted(x) => \A y \in Contexts : y # x => ~Busy(y) /\ Idle(y) /\ n[y] = 0
         /\ \A y \in Contexts : Starting(y) => y = x
<1>1. Busy(x)
  BY Parts DEF Starting
<1>2. Task(x)
  BY <1>1, WatchdogAt DEF Starting, FollowsIn
<1>3. serving = "start" /\ last_enable # "DISABLE"
  BY <1>1, <1>2, TaskAt, Parts DEF Starting, Follows, Commands, StartsFree
<1>4. StartBacked(x)
  BY <1>1, Parts
<1>5. ASSUME ~Interrupted(x), NEW y \in Contexts, y # x PROVE ~Busy(y) /\ Idle(y) /\ n[y] = 0
  <2>1. ~Busy(Watchdog)
    BY <1>2, <1>4, <1>5, ContextsAre, Parts DEF StartBacked, SmpTypeOK
  <2>. QED BY <1>1, <1>2, <1>5, <2>1, Others, Parts
<1>6. \A y \in Contexts : Starting(y) => y = x
  BY <1>1, <1>2, Others DEF Starting
<1>. QED BY <1>1, <1>2, <1>3, <1>4, <1>5, <1>6

(* Without it, a module that has not started leaves the machine alone.     *)
LEMMA NotStarting ==
  ASSUME SmpInv, last_enable # "DISABLE", \A y \in Contexts : ~Starting(y)
  PROVE  NoTimers /\ Free /\ \A y \in Contexts : ~Task(y) => ~Busy(y)
<1>1. NoTimers /\ Free
  BY Parts DEF StartsFree
<1>2. \A t \in Timers : timer[t] # "CALLBACK"
  BY <1>1 DEF NoTimers, Timers
<1>. QED BY <1>1, <1>2, Parts DEF OneAtATime

LEMMA StartKeeps ==
  ASSUME SmpInv, NEW x \in Contexts, NEW t \in Timers, Start(x, t)
  PROVE  SmpInv'
<1>. DEFINE s == IF t = "reset" THEN "start_reset" ELSE "start_kill"
<1>0. /\ SmpTypeOK /\ OneAtATime /\ InsideCalls /\ IrqLoops /\ StartsFree /\ KillIsLast
      /\ \A y \in Contexts : Busy(y) => Undone(y) /\ (Starting(y) => StartBacked(y))
      /\ \A y \in Contexts : Busy(y) <=> Due(y) # "nothing"
      /\ \A y \in Contexts : ~Busy(y) => Idle(y) /\ n[y] = 0
  BY Parts
<1>1. /\ At(x, s) /\ Done(x) /\ UNCHANGED <<vars, n, irq_enabled, depth, last_enable>>
      /\ timer' = [timer EXCEPT ![t] = "ENQUEUED"] /\ base' = x[1]
  BY DEF Start
<1>2. /\ Busy(x) /\ Idle(x) /\ ~Interrupted(x) /\ Due(x) = s /\ Due(x)' = Then(x)
      /\ todo' \in [Contexts -> Seq(Statements)]
      /\ Busy(x)' <=> Then(x) # "nothing"
      /\ \A y \in Contexts : y # x => Due(y)' = Due(y) /\ (Busy(y)' <=> Busy(y))
      /\ Task(x) => serving' = IF Then(x) = "nothing" THEN "none" ELSE serving
  BY <1>1, Moves
<1>3. Task(x)
  BY <1>2, WatchdogAt DEF FollowsIn
<1>4. /\ serving = "start" /\ serving' = "start"
      /\ t = "reset" => Then(x) = "irq_disable"
      /\ t = "kill" => Then(x) = "start_reset"
      /\ n[x] = 0
  BY <1>0, <1>2, <1>3, TaskAt DEF Follows, Commands, Timers, IrqLoops
<1>5. last_enable # "DISABLE"
  BY <1>0, <1>2, <1>3, <1>4 DEF StartsFree
<1>6. t = "kill" => /\ \A y \in Contexts : ~Starting(y)
                    /\ NoTimers /\ Free /\ \A y \in Contexts : ~Task(y) => ~Busy(y)
  <2>. SUFFICES ASSUME t = "kill" PROVE \A y \in Contexts : ~Starting(y)
    BY <1>5, NotStarting
  <2>. QED BY <1>2, <1>3, <1>5, Others DEF Starting
<1>7. t = "reset" => Starting(x) /\ StartBacked(x)
  BY <1>0, <1>2 DEF Starting
<1>8. \A y \in Contexts : y # x => ~Busy(y) /\ Idle(y) /\ n[y] = 0
  <2>1. CASE t = "kill"
    BY <1>0, <1>2, <1>3, <1>6, <2>1, Others
  <2>2. CASE t = "reset"
    BY <1>2, <1>7, <2>2, StartingAlone
  <2>. QED BY <2>1, <2>2 DEF Timers
<1>9. \A r \in Timers : timer[r] # "CALLBACK"
  <2>1. ~Busy(Watchdog)
    BY <1>0, <1>3, <1>8, ContextsAre DEF SmpTypeOK
  <2>. QED BY <1>0, <2>1 DEF OneAtATime
<1>10. /\ timer' \in [Timers -> {"INACTIVE", "ENQUEUED", "CALLBACK"}]
       /\ t = "kill" => timer'["kill"] = "ENQUEUED" /\ timer'["reset"] = "INACTIVE"
       /\ t = "reset" => timer'["reset"] = "ENQUEUED" /\ timer'["kill"] = "ENQUEUED"
  BY <1>0, <1>1, <1>6, <1>7 DEF SmpTypeOK, Timers, NoTimers, StartBacked
<1>11. base' \in Cpus /\ Watchdog' \in Contexts /\ ~Task(Watchdog')
  BY <1>1, ContextsAre DEF Watchdog, Contexts, Levels, Task
<1>12. OneAtATime'
  <2>1. \A r \in Timers : timer'[r] # "CALLBACK"
    BY <1>9, <1>10 DEF Timers
  <2>. QED BY <1>0, <1>1, <1>3, <1>4, <1>9, <1>10, <2>1, OrderKept DEF OneAtATime, Timers
<1>13. SmpTypeOK'
  BY <1>0, <1>1, <1>2, <1>4, <1>10, <1>11, CallsKept DEF SmpTypeOK, Commands
<1>14. InsideCalls'
  BY <1>0, <1>1, <1>2 DEF InsideCalls, Idle, vars
<1>15. IrqLoops'
  <2>1. \A y \in Contexts : n'[y] = 0 /\ Due(y)' # "irq_enable"
    BY <1>0, <1>1, <1>2, <1>4, <1>8 DEF Timers
  <2>2. CASE t = "reset"
    BY <1>2, <1>4, <2>1, <2>2 DEF IrqLoops
  <2>3. CASE t = "kill"
    BY <1>0, <1>1, <1>2, <1>4, <1>6, <2>1, <2>3 DEF IrqLoops, Free, IrqsFree
  <2>. QED BY <2>2, <2>3 DEF Timers
<1>16. Starting(x)' /\ StartBacked(x)'
  <2>1. Starting(x)'
    BY <1>2, <1>4 DEF Starting, Timers
  <2>2. n[Watchdog'] = 0 /\ Idle(Watchdog')
    BY <1>3, <1>8, <1>11
  <2>3. PidFree /\ IrqsFree
    BY <1>0, <1>2, <1>4, <1>6, <1>7, <2>2 DEF StartBacked, Free, PidFree, IrqsFree, Timers, SmpTypeOK, Idle
  <2>. QED BY <1>1, <1>2, <1>4, <1>10, <2>1, <2>2, <2>3 DEF StartBacked, PidFree, IrqsFree, Idle, vars, Timers
<1>17. \A y \in Contexts : Busy(y)' => Undone(y)' /\ (Starting(y)' => StartBacked(y)')
  BY <1>2, <1>3, <1>4, <1>8, <1>16 DEF Undone, Released, Enabled, Cancelled, Task, Timers
<1>18. StartsFree' /\ KillIsLast'
  BY <1>1, <1>2, <1>5, <1>10, <1>16 DEF StartsFree, KillIsLast, Timers
<1>. QED BY <1>1, <1>12, <1>13, <1>14, <1>15, <1>17, <1>18, CallsKept DEF SmpInv

LEMMA EndKeeps ==
  ASSUME SmpInv, NEW x \in Contexts, NEW t \in Timers, End(x, t)
  PROVE  SmpInv'
<1>. DEFINE s == IF t = "reset" THEN "end_reset" ELSE "end_kill"
<1>0. /\ SmpTypeOK /\ OneAtATime /\ InsideCalls /\ IrqLoops /\ StartsFree /\ KillIsLast
      /\ \A y \in Contexts : Busy(y) => Undone(y) /\ (Starting(y) => StartBacked(y))
      /\ \A y \in Contexts : Busy(y) <=> Due(y) # "nothing"
  BY Parts
<1>1. /\ At(x, s) /\ Done(x) /\ UNCHANGED <<vars, n, irq_enabled, depth, last_enable, base>>
      /\ timer' = [timer EXCEPT ![t] = "INACTIVE"]
  BY DEF End
<1>2. /\ Busy(x) /\ Idle(x) /\ Due(x) = s /\ Due(x)' = Then(x)
      /\ todo' \in [Contexts -> Seq(Statements)]
      /\ Busy(x)' <=> Then(x) # "nothing"
      /\ \A y \in Contexts : y # x => Due(y)' = Due(y) /\ (Busy(y)' <=> Busy(y)) /\ todo'[y] = todo[y]
      /\ ~Task(x) => serving' = serving
  BY <1>1, Moves
<1>3. ~Task(x)
  BY <1>2, TaskAt DEF Follows, Commands
<1>4. /\ x = Watchdog /\ Then(x) = "nothing" /\ timer[t] = "CALLBACK"
      /\ t = "reset" => timer["kill"] = "ENQUEUED"
      /\ t = "kill" => timer["reset"] = "INACTIVE"
  BY <1>2, <1>3, WatchdogAt DEF FollowsIn, Timers
<1>5. /\ timer' \in [Timers -> {"INACTIVE", "ENQUEUED", "CALLBACK"}]
      /\ timer'["reset"] = "INACTIVE"
      /\ timer'["kill"] = IF t = "reset" THEN "ENQUEUED" ELSE "INACTIVE"
  BY <1>0, <1>1, <1>4 DEF SmpTypeOK, Timers
<1>6. \A y \in Contexts : Busy(y)' => y # x /\ Task(y) /\ Busy(y)
  BY <1>0, <1>2, <1>4 DEF OneAtATime
<1>7. OneAtATime'
  BY <1>0, <1>2, <1>3, <1>5, <1>6 DEF OneAtATime, Task, Timers
<1>8. SmpTypeOK'
  BY <1>0, <1>1, <1>2, <1>3, <1>5, CallsKept DEF SmpTypeOK
<1>9. InsideCalls'
  BY <1>0, <1>1, <1>2 DEF InsideCalls, Idle, vars
<1>10. IrqLoops'
  <2>1. n[x] = 0 /\ Due(x) \notin {"irq_enable", "irq_disable"}
    BY <1>0, <1>2 DEF IrqLoops
  <2>2. \A y \in Contexts : n'[y] # 0 => Due(y)' \in {"irq_disable", "irq_enable"}
    BY <1>0, <1>1, <1>2, <2>1 DEF IrqLoops
  <2>3. \A y \in Contexts : Due(y)' = "irq_enable" <=> Due(y) = "irq_enable"
    BY <1>2, <1>4, <2>1
  <2>4. (\A y \in Contexts : Due(y)' # "irq_disable") => \A y \in Contexts : Due(y) # "irq_disable"
    BY <1>2, <2>1
  <2>. QED BY <1>0, <1>1, <2>2, <2>3, <2>4 DEF IrqLoops
<1>11. \A y \in Contexts : Starting(y)' <=> Starting(y)
  BY <1>1, <1>2, <1>4 DEF Starting
<1>12. StartsFree'
  <2>1. last_enable # "DISABLE" => \E y \in Contexts : Starting(y)
    BY <1>0, <1>4 DEF StartsFree, NoTimers, Timers
  <2>. QED BY <1>0, <1>1, <1>2, <1>3, <1>6, <1>11, <2>1 DEF StartsFree
<1>13. ASSUME NEW y \in Contexts, Busy(y)' PROVE Undone(y)' /\ (Starting(y)' => StartBacked(y)')
  <2>1. y # x /\ Task(y) /\ Undone(y) /\ Due(y)' = Due(y) /\ Due(y) # "nothing" /\ (Starting(y) => StartBacked(y))
    BY <1>0, <1>2, <1>6, <1>13
  <2>2. Undone(y)'
    BY <1>1, <1>2, <1>3, <1>5, <2>1, <1>4 DEF Undone, Released, Enabled, Cancelled, Task, Idle, PidFree, IrqsFree, NoTimers, vars,
       Timers
  <2>3. Starting(y)' => StartBacked(y)'
    BY <1>1, <1>4, <1>5, <1>11, <2>1 DEF StartBacked, Watchdog, Idle, vars, Timers
  <2>. QED BY <2>2, <2>3
<1>14. KillIsLast'
  <2>1. t = "kill" => Free
    BY <1>0, <1>2, <1>3, <1>4 DEF Undone, Released, Enabled, Free
  <2>. QED BY <1>1, <1>5, <2>1 DEF KillIsLast, Free, PidFree, IrqsFree, vars, Timers
<1>. QED BY <1>1, <1>7, <1>8, <1>9, <1>10, <1>12, <1>13, <1>14, CallsKept DEF SmpInv

LEMMA OrderSame ==
  ASSUME OneAtATime, UNCHANGED <<todo, serving, timer, base>>
  PROVE  OneAtATime'
BY DEF OneAtATime, Task, Busy, Watchdog

LEMMA IrqDisableKeeps ==
  ASSUME SmpInv, NEW x \in Contexts, IrqDisable(x)
  PROVE  SmpInv'
<1>0. /\ SmpTypeOK /\ OneAtATime /\ InsideCalls /\ IrqLoops /\ StartsFree /\ KillIsLast
      /\ \A y \in Contexts : Busy(y) <=> Due(y) # "nothing"
  BY Parts
<1>1. /\ At(x, "irq_disable") /\ UNCHANGED <<vars, last_enable, timer, base>>
      /\ Busy(x) /\ Idle(x) /\ ~Interrupted(x) /\ Due(x) = "irq_disable" /\ Starting(x)
  BY DEF IrqDisable, At, Due, Starting
<1>2. /\ Task(x) /\ serving = "start" /\ last_enable # "DISABLE" /\ StartBacked(x)
      /\ \A y \in Contexts : y # x => ~Busy(y) /\ Idle(y) /\ n[y] = 0
  BY <1>1, StartingAlone
<1>3. /\ timer["kill"] = "ENQUEUED" /\ base = x[1] /\ irq_enabled /\ last_p_id = 0 /\ pid_force_run = 0
      /\ \A i \in 1 .. NIrqs : depth[i] = IF i <= n[x] THEN 1 ELSE 0
      /\ pc[Watchdog] \in {"idle", "test", "save"} /\ n[Watchdog] = 0
  BY <1>1, <1>2 DEF StartBacked, Idle
<1>4. n[x] \in 0 .. NIrqs /\ Then(x) = "force" /\ Watchdog' = Watchdog /\ Watchdog # x
  BY <1>0, <1>1, <1>2, TaskAt, ContextsAre DEF SmpTypeOK, Follows, Commands, Watchdog
<1>6. CASE /\ irq_enabled /\ n[x] < NIrqs
           /\ n' = [n EXCEPT ![x] = @ + 1]
           /\ depth' = [depth EXCEPT ![n[x] + 1] = @ + 1]
           /\ UNCHANGED <<serving, todo, irq_enabled>>
  <2>1. \A y \in Contexts : Due(y)' = Due(y) /\ (Busy(y)' <=> Busy(y))
    BY <1>6 DEF Due, Busy
  <2>2. n[x] + 1 \in 1 .. NIrqs /\ depth[n[x] + 1] = 0
    BY <1>3, <1>4, <1>6, NIrqsAssumption
  <2>3. /\ n' \in [Contexts -> 0 .. NIrqs] /\ n'[x] = n[x] + 1 /\ \A y \in Contexts : y # x => n'[y] = n[y]
        /\ depth' \in [1 .. NIrqs -> 0 .. 1] /\ depth'[n[x] + 1] = 1
        /\ \A i \in 1 .. NIrqs : i # n[x] + 1 => depth'[i] = depth[i]
    BY <1>0, <1>4, <1>6, <2>2 DEF SmpTypeOK
  <2>4. SmpTypeOK'
    BY <1>0, <1>1, <1>6, <2>3, CallsKept DEF SmpTypeOK
  <2>5. OneAtATime'
    BY <1>0, <1>1, <1>6, OrderSame
  <2>6. InsideCalls'
    BY <1>0, <1>1, <2>1 DEF InsideCalls, Idle, vars
  <2>7. IrqLoops'
    BY <1>0, <1>1, <1>2, <2>1, <2>3 DEF IrqLoops
  <2>8. \A i \in 1 .. NIrqs : depth'[i] = IF i <= n'[x] THEN 1 ELSE 0
    BY <1>3, <1>4, <2>3
  <2>9. StartBacked(x)' /\ Starting(x)'
    BY <1>1, <1>2, <1>3, <1>4, <1>6, <2>1, <2>3, <2>8 DEF StartBacked, Starting, Idle, vars
  <2>10. \A y \in Contexts : Busy(y)' => Undone(y)' /\ (Starting(y)' => StartBacked(y)')
    BY <1>1, <1>2, <1>6, <2>1, <2>9 DEF Undone, Released, Enabled, Cancelled, Task
  <2>11. StartsFree' /\ KillIsLast'
    BY <1>1, <1>2, <1>3, <2>9 DEF StartsFree, KillIsLast
  <2>. QED BY <1>1, <2>4, <2>5, <2>6, <2>7, <2>10, <2>11, CallsKept DEF SmpInv
<1>7. CASE /\ ~irq_enabled \/ n[x] = NIrqs
           /\ n' = [n EXCEPT ![x] = 0]
           /\ irq_enabled' = FALSE
           /\ Done(x)
           /\ UNCHANGED depth
  <2>1. /\ Due(x)' = "force" /\ Busy(x)' /\ serving' = "start"
        /\ todo' \in [Contexts -> Seq(Statements)]
        /\ \A y \in Contexts : y # x => Due(y)' = Due(y) /\ (Busy(y)' <=> Busy(y))
    BY <1>1, <1>2, <1>4, <1>7, Moves
  <2>2. /\ n' \in [Contexts -> 0 .. NIrqs] /\ \A y \in Contexts : n'[y] = 0
        /\ \A i \in 1 .. NIrqs : depth[i] = 1
    <3>1. n[x] = NIrqs
      BY <1>3, <1>7
    <3>2. \A i \in 1 .. NIrqs : depth[i] = 1
      BY <1>3, <3>1, NIrqsAssumption
    <3>. QED BY <1>0, <1>2, <1>7, <3>2, NIrqsAssumption DEF SmpTypeOK
  <2>3. OneAtATime'
    BY <1>0, <1>1, <1>2, <1>4, <1>7, OrderKept DEF OneAtATime, Timers
  <2>4. SmpTypeOK'
    BY <1>0, <1>1, <1>7, <2>1, <2>2, CallsKept DEF SmpTypeOK, Commands
  <2>5. InsideCalls'
    BY <1>0, <1>1, <2>1 DEF InsideCalls, Idle, vars
  <2>6. IrqLoops'
    <3>1. \A y \in Contexts : Due(y)' # "irq_enable"
      BY <1>0, <1>2, <2>1
    <3>. QED BY <1>7, <2>2, <3>1 DEF IrqLoops
  <2>7. StartBacked(x)' /\ Starting(x)'
    BY <1>1, <1>2, <1>3, <1>4, <2>1 DEF StartBacked, Starting, Idle, vars
  <2>8. \A y \in Contexts : Busy(y)' => Undone(y)' /\ (Starting(y)' => StartBacked(y)')
    BY <1>1, <1>2, <2>1, <2>7 DEF Undone, Released, Enabled, Cancelled, Task
  <2>9. StartsFree' /\ KillIsLast'
    BY <1>1, <1>2, <1>3, <2>7 DEF StartsFree, KillIsLast
  <2>. QED BY <1>1, <2>3, <2>4, <2>5, <2>6, <2>8, <2>9, CallsKept DEF SmpInv
<1>. QED BY <1>6, <1>7 DEF IrqDisable

LEMMA IrqEnableKeeps ==
  ASSUME SmpInv, NEW x \in Contexts, IrqEnable(x)
  PROVE  SmpInv'
<1>0. /\ SmpTypeOK /\ OneAtATime /\ InsideCalls /\ IrqLoops /\ StartsFree /\ KillIsLast
      /\ \A y \in Contexts : Busy(y) => Undone(y) /\ (Starting(y) => StartBacked(y))
      /\ \A y \in Contexts : Busy(y) <=> Due(y) # "nothing"
  BY Parts
<1>1. /\ At(x, "irq_enable") /\ UNCHANGED <<vars, last_enable, timer, base>>
      /\ Busy(x) /\ Idle(x) /\ Due(x) = "irq_enable"
  BY DEF IrqEnable, At, Due
<1>2. n[x] \in 0 .. NIrqs /\ Watchdog' = Watchdog
  BY <1>0, <1>1 DEF SmpTypeOK, Watchdog
<1>3. \A y \in Contexts : Due(y) = "irq_disable" => irq_enabled /\ n[Watchdog] = 0 /\ Task(y) /\ Busy(y) /\ timer["kill"] = "ENQUEUED"
  <2>. SUFFICES ASSUME NEW y \in Contexts, Due(y) = "irq_disable"
                PROVE  irq_enabled /\ n[Watchdog] = 0 /\ Task(y) /\ Busy(y) /\ timer["kill"] = "ENQUEUED"
    OBVIOUS
  <2>1. Starting(y)
    BY DEF Starting
  <2>. QED BY <2>1, StartingAlone DEF StartBacked
<1>4. CASE /\ ~irq_enabled /\ n[x] < NIrqs
           /\ n' = [n EXCEPT ![x] = @ + 1]
           /\ EnableIrq(n[x] + 1)
           /\ UNCHANGED <<serving, todo, irq_enabled>>
  <2>1. \A y \in Contexts : Due(y)' = Due(y) /\ (Busy(y)' <=> Busy(y))
    BY <1>4 DEF Due, Busy
  <2>2. n[x] + 1 \in 1 .. NIrqs
    BY <1>2, <1>4, NIrqsAssumption
  <2>3. /\ n' \in [Contexts -> 0 .. NIrqs] /\ n'[x] = n[x] + 1 /\ \A y \in Contexts : y # x => n'[y] = n[y]
        /\ depth' \in [1 .. NIrqs -> 0 .. 1] /\ depth'[n[x] + 1] = 0
        /\ \A i \in 1 .. NIrqs : i # n[x] + 1 => depth'[i] = depth[i]
    BY <1>0, <1>2, <1>4, <2>2 DEF SmpTypeOK, EnableIrq
  <2>4. SmpTypeOK'
    BY <1>0, <1>1, <1>4, <2>3, CallsKept DEF SmpTypeOK
  <2>5. OneAtATime'
    BY <1>0, <1>1, <1>4, OrderSame
  <2>6. InsideCalls'
    BY <1>0, <1>1, <2>1 DEF InsideCalls, Idle, vars
  <2>7. IrqLoops'
    <3>1. \A y \in Contexts : n'[y] # 0 => Due(y)' \in {"irq_disable", "irq_enable"}
      BY <1>0, <1>1, <2>1, <2>3 DEF IrqLoops
    <3>2. \A y \in Contexts : Due(y)' = "irq_enable" => \A i \in 1 .. n'[y] : depth'[i] = 0
      <4>. SUFFICES ASSUME NEW y \in Contexts, Due(y) = "irq_enable", NEW i \in 1 .. n'[y] PROVE depth'[i] = 0
        BY <2>1
      <4>1. i \in 1 .. NIrqs /\ (i = n[x] + 1 \/ i \in 1 .. n[y])
        <5>1. n[y] \in 0 .. NIrqs /\ n'[y] = IF y = x THEN n[x] + 1 ELSE n[y]
          BY <1>0, <2>3 DEF SmpTypeOK
        <5>. QED BY <1>2, <2>2, <5>1, NIrqsAssumption
      <4>. QED BY <1>0, <2>3, <4>1 DEF IrqLoops
    <3>3. \A i \in 1 .. NIrqs : depth'[i] = 1 \/ \E y \in Contexts : Due(y)' = "irq_enable" /\ i <= n'[y]
      <4>. TAKE i \in 1 .. NIrqs
      <4>1. CASE i = n[x] + 1
        BY <1>1, <1>2, <2>1, <2>3, <4>1
      <4>2. CASE i # n[x] + 1 /\ depth[i] = 1
        BY <2>3, <4>2
      <4>3. CASE depth[i] # 1
        <5>1. PICK y \in Contexts : Due(y) = "irq_enable" /\ i <= n[y]
          BY <1>0, <1>3, <1>4, <4>3 DEF IrqLoops
        <5>2. i <= n'[y]
          <6>1. n[y] \in 0 .. NIrqs /\ n'[y] = IF y = x THEN n[x] + 1 ELSE n[y]
            BY <1>0, <2>3 DEF SmpTypeOK
          <6>. QED BY <1>2, <5>1, <6>1, NIrqsAssumption
        <5>. QED BY <2>1, <5>1, <5>2
      <4>. QED BY <4>1, <4>2, <4>3
    <3>. QED BY <1>4, <3>1, <3>2, <3>3 DEF IrqLoops
  <2>8. \A y \in Contexts : Starting(y)' <=> Starting(y)
    BY <1>1, <2>1 DEF Starting
  <2>9. ASSUME NEW y \in Contexts, Busy(y)' PROVE Undone(y)' /\ (Starting(y)' => StartBacked(y)')
    <3>1. Busy(y) /\ Undone(y) /\ (Starting(y) => StartBacked(y))
      BY <1>0, <2>1, <2>9
    <3>2. Undone(y)'
      BY <1>1, <1>4, <2>1, <3>1 DEF Undone, Released, Enabled, Cancelled, Task, Idle, PidFree, IrqsFree, NoTimers, vars
    <3>3. Starting(y)' => StartBacked(y)'
      BY <1>1, <1>2, <1>4, <2>1, <2>8, <3>1 DEF StartBacked, Idle, vars
    <3>. QED BY <3>2, <3>3
  <2>10. StartsFree'
    BY <1>0, <1>1, <1>4, <2>1, <2>8 DEF StartsFree, Task, Free, IrqsFree
  <2>11. KillIsLast'
    BY <1>0, <1>1, <1>4, <2>1 DEF KillIsLast, Task, Free, IrqsFree, Idle, vars
  <2>. QED BY <1>1, <2>4, <2>5, <2>6, <2>7, <2>9, <2>10, <2>11, CallsKept DEF SmpInv
<1>5. CASE /\ irq_enabled \/ n[x] = NIrqs
           /\ n' = [n EXCEPT ![x] = 0]
           /\ irq_enabled' = TRUE
           /\ Done(x)
           /\ UNCHANGED depth
  <2>1. /\ Due(x)' = Then(x) /\ (Busy(x)' <=> Then(x) # "nothing")
        /\ todo' \in [Contexts -> Seq(Statements)]
        /\ \A y \in Contexts : y # x => Due(y)' = Due(y) /\ (Busy(y)' <=> Busy(y))
        /\ Task(x) => serving' = IF Then(x) = "nothing" THEN "none" ELSE serving
        /\ ~Task(x) => serving' = serving
    BY <1>1, <1>5, Moves
  <2>2. Task(x) => /\ serving \in {"stop", "read", "rmmod", "notask"}
                   /\ serving = "stop" => Then(x) = "release"
                   /\ serving \in {"read", "rmmod"} => Then(x) = "cancel_reset"
                   /\ serving = "notask" => Then(x) = "nothing"
    BY <1>1, TaskAt DEF Follows, Commands
  <2>3. ~Task(x) => /\ x = Watchdog
                    /\ \/ Then(x) = "end_reset" /\ timer["kill"] # "CALLBACK"
                       \/ Then(x) = "end_kill" /\ timer["kill"] = "CALLBACK"
    BY <1>1, WatchdogAt DEF FollowsIn, Timers
  <2>4. n' \in [Contexts -> 0 .. NIrqs] /\ n'[x] = 0 /\ \A y \in Contexts : y # x => n'[y] = n[y]
    BY <1>0, <1>5, NIrqsAssumption DEF SmpTypeOK
  <2>5. IrqsFree' \/ ((\E y \in Contexts : Due(y) = "irq_disable") /\ irq_enabled)
    <3>. SUFFICES ASSUME \A y \in Contexts : Due(y) # "irq_disable" PROVE \A i \in 1 .. NIrqs : depth[i] = 0
      BY <1>3, <1>5 DEF IrqsFree
    <3>. QED BY <1>0, <1>1, <1>5 DEF IrqLoops
  <2>6. OneAtATime'
    BY <1>0, <1>1, <1>5, <2>2, <2>3, OrderKept DEF OneAtATime, Timers
  <2>7. SmpTypeOK'
    BY <1>0, <1>1, <1>5, <2>1, <2>2, <2>4, CallsKept DEF SmpTypeOK
  <2>8. InsideCalls'
    BY <1>0, <1>1, <2>1 DEF InsideCalls, Idle, vars
  <2>9. Then(x) \notin {"irq_enable", "irq_disable", "start_reset", "force", "save_disable"}
    BY <2>2, <2>3
  <2>10. IrqLoops'
    <3>1. \A y \in Contexts : n'[y] # 0 => Due(y)' \in {"irq_disable", "irq_enable"}
      BY <1>0, <2>1, <2>4 DEF IrqLoops
    <3>2. \A y \in Contexts : Due(y)' = "irq_enable" => \A i \in 1 .. n'[y] : depth'[i] = 0
      BY <1>0, <1>5, <2>1, <2>4, <2>9 DEF IrqLoops
    <3>3. (\A y \in Contexts : Due(y)' # "irq_disable") => IrqsFree'
      BY <1>1, <2>1, <2>5
    <3>. QED BY <1>5, <3>1, <3>2, <3>3 DEF IrqLoops, IrqsFree
  <2>11. \A y \in Contexts : Starting(y)' <=> Starting(y)
    BY <1>1, <2>1, <2>9 DEF Starting
  <2>12. Free => Free'
    <3>1. IrqsFree => IrqsFree'
      BY <1>5 DEF IrqsFree
    <3>. QED BY <1>1, <3>1 DEF Free, PidFree, vars
  <2>13. \A y \in Contexts : Busy(y)' /\ Enabled(y)' => IrqsFree'
    <3>. SUFFICES ASSUME NEW y \in Contexts, Busy(y)', Enabled(y)', NEW z \in Contexts, Due(z) = "irq_disable" PROVE FALSE
      BY <2>5
    <3>1. Task(z) /\ Busy(z) /\ timer["kill"] = "ENQUEUED" /\ serving = "start" /\ z # x
      BY <1>1, <1>3, StartingAlone DEF Starting
    <3>2. ~Task(x) /\ (y = x \/ y = z)
      BY <1>1, <2>1, <3>1, Others, <1>0
    <3>. QED BY <1>0, <2>1, <2>3, <3>1, <3>2 DEF Enabled
  <2>14. ASSUME NEW y \in Contexts, Busy(y)' PROVE Undone(y)'
    <3>1. Busy(y) /\ Undone(y)
      BY <1>0, <1>1, <2>1, <2>14
    <3>2. CASE y = x
      <4>1. Released(x)' => Released(x)
        BY <1>1, <2>1, <2>2, <2>3, <3>2, <2>14 DEF Released, Task
      <4>2. Cancelled(x)' => Cancelled(x)
        BY <1>1, <2>1, <2>2, <2>3, <3>2, <2>14 DEF Cancelled, Task
      <4>3. Due(x)' # "cancel_kill"
        BY <2>1, <2>2, <2>3
      <4>. QED BY <1>1, <2>13, <3>1, <3>2, <2>14, <4>1, <4>2, <4>3 DEF Undone, Idle, PidFree, NoTimers, vars
    <3>3. CASE y # x
      <4>1. Due(y)' = Due(y) /\ (Task(y) => serving' = serving)
        BY <1>0, <1>1, <2>1, <3>1, <3>3 DEF OneAtATime
      <4>. QED BY <1>1, <2>13, <2>14, <3>1, <4>1 DEF Undone, Released, Cancelled, Task, Idle, PidFree, NoTimers, vars
    <3>. QED BY <3>2, <3>3
  <2>15. ASSUME NEW y \in Contexts, Busy(y)', Starting(y)' PROVE StartBacked(y)'
    <3>1. Starting(y) /\ StartBacked(y) /\ y # x /\ Due(y)' = Due(y)
      BY <1>0, <1>1, <2>1, <2>9, <2>11, <2>15 DEF Starting
    <3>2. n'[y] = n[y] /\ n'[Watchdog] = IF Watchdog = x THEN 0 ELSE n[Watchdog]
      BY <2>4, <3>1, <1>0, ContextsAre DEF SmpTypeOK
    <3>. QED BY <1>1, <1>2, <1>5, <3>1, <3>2 DEF StartBacked, Idle, vars
  <2>16. StartsFree'
    <3>1. \A y \in Contexts : Task(y) /\ serving' = "start" /\ Busy(y)' => serving = "start" /\ Due(y)' = Due(y) /\ Busy(y)
      BY <1>0, <1>1, <2>1, <2>2 DEF OneAtATime
    <3>. QED BY <1>0, <1>1, <2>11, <2>12, <3>1 DEF StartsFree, NoTimers, Task
  <2>17. KillIsLast'
    <3>1. serving = "stop" => /\ \A y \in Contexts : Task(y) /\ Due(y) = "save_enable" => Due(y)' = Due(y)
                              /\ \A y \in Contexts : Task(y) /\ Due(y) \in {"irq_enable", "release"} => Due(y)' \in {"irq_enable", "release"}
                              /\ serving' = "stop"
      BY <1>1, <2>1, <2>2
    <3>. QED BY <1>0, <1>1, <2>12, <3>1 DEF KillIsLast, Task, Idle, vars
  <2>. QED BY <1>1, <2>6, <2>7, <2>8, <2>10, <2>14, <2>15, <2>16, <2>17, CallsKept DEF SmpInv
<1>. QED BY <1>4, <1>5 DEF IrqEnable

LEMMA SaveEnableKeeps ==
  ASSUME SmpInv, NEW x \in Contexts, SaveEnable(x)
  PROVE  SmpInv'
<1>0. /\ SmpTypeOK /\ OneAtATime /\ InsideCalls /\ IrqLoops /\ StartsFree /\ KillIsLast
      /\ \A y \in Contexts : Busy(y) => Undone(y) /\ (Starting(y) => StartBacked(y))
      /\ \A y \in Contexts : Busy(y) <=> Due(y) # "nothing"
  BY Parts
<1>1. PICK s \in {"save_disable", "save_enable", "unload"} :
        /\ At(x, s) /\ Done(x) /\ UNCHANGED <<vars, n, irq_enabled, depth, timer, base>>
        /\ s = "save_disable" => last_enable' = "DISABLE"
        /\ s = "save_enable" => last_enable' = "ENABLE"
        /\ s = "unload" => last_enable' = "NEVER"
  BY DEF SaveEnable
<1>2. /\ Busy(x) /\ Idle(x) /\ Due(x) = s /\ Due(x)' = Then(x)
      /\ todo' \in [Contexts -> Seq(Statements)]
      /\ Busy(x)' <=> Then(x) # "nothing"
      /\ \A y \in Contexts : y # x => Due(y)' = Due(y) /\ (Busy(y)' <=> Busy(y))
      /\ Task(x) => serving' = IF Then(x) = "nothing" THEN "none" ELSE serving
  BY <1>1, Moves
<1>3. Task(x)
  BY <1>1, <1>2, WatchdogAt DEF FollowsIn
<1>4. /\ Then(x) = "nothing" /\ serving' = "none"
      /\ s = "save_disable" => serving = "start"
      /\ s = "save_enable" => serving = "stop"
      /\ s = "unload" => serving = "rmmod"
  BY <1>1, <1>2, <1>3, TaskAt DEF Follows, Commands
<1>5. \A y \in Contexts : Busy(y)' =>
        /\ y # x /\ ~Task(y) /\ Due(y)' = Due(y) /\ Busy(y)
        /\ Due(y) \in {"release", "irq_enable", "end_reset", "end_kill"}
  BY <1>0, <1>2, <1>3, <1>4, Others
<1>6. last_enable' # "DISABLE" => NoTimers /\ Free
  <2>1. s # "save_disable" => Released(x) /\ Enabled(x) /\ Cancelled(x)
    BY <1>1, <1>2, <1>3, <1>4 DEF Released, Enabled, Cancelled
  <2>. QED BY <1>0, <1>1, <1>2, <2>1 DEF Undone, Free
<1>7. OneAtATime'
  BY <1>0, <1>1, <1>3, OrderKept DEF OneAtATime, Timers
<1>8. SmpTypeOK'
  BY <1>0, <1>1, <1>2, <1>4, CallsKept DEF SmpTypeOK
<1>9. \A y \in Contexts : Due(y)' = Due(y) \/ (y = x /\ Due(y)' = "nothing")
  BY <1>2, <1>4
<1>10. InsideCalls'
  BY <1>0, <1>1, <1>2, <1>3, Others DEF InsideCalls, Idle, vars
<1>11. IrqLoops'
  <2>1. n[x] = 0 /\ Due(x) \notin {"irq_enable", "irq_disable"}
    BY <1>0, <1>1, <1>2 DEF IrqLoops
  <2>2. \A y \in Contexts : n'[y] # 0 => Due(y)' \in {"irq_disable", "irq_enable"}
    BY <1>0, <1>1, <1>2, <2>1 DEF IrqLoops
  <2>3. \A y \in Contexts : Due(y)' = "irq_enable" <=> Due(y) = "irq_enable"
    BY <1>2, <1>4, <2>1
  <2>4. (\A y \in Contexts : Due(y)' # "irq_disable") => \A y \in Contexts : Due(y) # "irq_disable"
    BY <1>2, <2>1
  <2>. QED BY <1>0, <1>1, <2>2, <2>3, <2>4 DEF IrqLoops
<1>12. \A y \in Contexts : ~Starting(y)'
  <2>1. \A y \in Contexts : Due(y)' \notin {"start_reset", "irq_disable", "force", "save_disable"}
    BY <1>1, <1>2, <1>3, <1>4, Others
  <2>. QED BY <2>1 DEF Starting
<1>13. NoTimers /\ Free => NoTimers' /\ Free'
  BY <1>1 DEF NoTimers, Free, PidFree, IrqsFree, vars
<1>14. StartsFree'
  BY <1>4, <1>6, <1>13 DEF StartsFree
<1>15. ASSUME NEW y \in Contexts, Busy(y)' PROVE Undone(y)'
  BY <1>0, <1>1, <1>5, <1>15 DEF Undone, Released, Enabled, Cancelled, Task, Idle, PidFree, IrqsFree, vars
<1>16. KillIsLast'
  <2>1. timer["kill"] = "INACTIVE" => Free
    <3>1. CASE last_enable' # "DISABLE"
      BY <1>6, <3>1
    <3>2. CASE last_enable' = "DISABLE"
      <4>1. serving # "stop"
        BY <1>1, <1>4, <3>2
      <4>. QED BY <1>0, <4>1 DEF KillIsLast
    <3>. QED BY <3>1, <3>2
  <2>. QED BY <1>1, <2>1 DEF KillIsLast, Free, PidFree, IrqsFree, vars
<1>. QED BY <1>1, <1>7, <1>8, <1>10, <1>11, <1>12, <1>14, <1>15, <1>16, CallsKept DEF SmpInv

(* A call of set_pid_force_run(), by a command or a watchdog.              *)
LEMMA SetPidForceRunKeeps ==
  ASSUME SmpInv, NEW x \in Contexts, SetPidForceRun(x)
  PROVE  SmpInv'
<1>0. /\ SmpTypeOK /\ OneAtATime /\ InsideCalls /\ IrqLoops /\ StartsFree /\ KillIsLast
      /\ LockOwned /\ ResetsConverge /\ Settled /\ TypeOK
      /\ \A y \in Contexts : Busy(y) => Undone(y) /\ (Starting(y) => StartBacked(y))
      /\ \A y \in Contexts : Busy(y) <=> Due(y) # "nothing"
      /\ \A y \in Contexts : ~Busy(y) => Idle(y) /\ n[y] = 0
  BY Parts DEF SmpTypeOK
<1>1. PICK s \in {"release", "force"}, p \in Pids \cup {0} :
        /\ At(x, s) /\ Call(x, p) /\ (s = "release" <=> p = 0)
  BY PidsAssumption DEF SetPidForceRun
<1>2. Done(x) /\ UNCHANGED <<n, irq_enabled, depth, last_enable, timer, base>>
  BY DEF SetPidForceRun
<1>3. /\ Busy(x) /\ Idle(x) /\ ~Interrupted(x) /\ Due(x) = s /\ Due(x)' = Then(x)
      /\ todo' \in [Contexts -> Seq(Statements)]
      /\ Busy(x)' <=> Then(x) # "nothing"
      /\ \A y \in Contexts : y # x => Due(y)' = Due(y) /\ (Busy(y)' <=> Busy(y))
      /\ Task(x) => serving' = IF Then(x) = "nothing" THEN "none" ELSE serving
      /\ ~Task(x) => serving' = serving
  BY <1>1, <1>2, Moves
<1>4. /\ pc' \in [Contexts -> Labels] /\ arg' \in [Contexts -> Pids \cup {0}]
      /\ pc'[x] = "test" /\ arg'[x] = p /\ UNCHANGED <<pid_force_run, last_p_id, lock>>
      /\ \A y \in Contexts : y # x => pc'[y] = pc[y] /\ arg'[y] = arg[y]
  BY <1>0, <1>1 DEF Call, TypeOK, Labels
<1>5. s = "release" => \/ Task(x) /\ serving = "stop" /\ Then(x) = "save_enable"
                       \/ Task(x) /\ serving \in {"read", "rmmod"} /\ Then(x) = "irq_enable"
                       \/ ~Task(x) /\ x = Watchdog /\ Then(x) = "irq_enable"
  BY <1>3, TaskAt, WatchdogAt DEF Follows, FollowsIn, Commands, Timers
<1>6. s = "force" => Starting(x) /\ Task(x) /\ serving = "start" /\ Then(x) = "save_disable"
  BY <1>3, TaskAt, WatchdogAt DEF Follows, FollowsIn, Commands, Timers, Starting
<1>7. s = "force" => /\ last_enable # "DISABLE" /\ StartBacked(x) /\ last_p_id = 0 /\ pid_force_run = 0
                     /\ \A y \in Contexts : y # x => ~Busy(y) /\ Idle(y) /\ n[y] = 0
  BY <1>3, <1>6, StartingAlone DEF StartBacked, Idle
<1>8. serving' = serving /\ Then(x) # "nothing"
  BY <1>1, <1>3, <1>5, <1>6
<1>9. OneAtATime'
  BY <1>0, <1>1, <1>2, <1>8, OrderKept DEF OneAtATime, Timers
<1>10. SmpTypeOK' /\ TypeOK'
  <2>1. TypeOK'
    BY <1>0, <1>4 DEF TypeOK
  <2>. QED BY <1>0, <1>2, <1>3, <1>8, <2>1 DEF SmpTypeOK
<1>11. InsideCalls'
  <2>1. ASSUME NEW y \in Contexts, y # x, ~Idle(y)'
        PROVE  \/ Due(y)' \in {"irq_enable", "save_enable"} /\ arg'[y] = 0
               \/ Due(y)' = "save_disable" /\ arg'[y] # 0 /\ last_enable' # "DISABLE"
    <3>1. ~Idle(y) /\ Due(y)' = Due(y)
      BY <1>3, <1>4, <2>1 DEF Idle
    <3>. QED BY <1>0, <1>2, <1>4, <2>1, <3>1 DEF InsideCalls
  <2>2. \/ Due(x)' \in {"irq_enable", "save_enable"} /\ arg'[x] = 0
        \/ Due(x)' = "save_disable" /\ arg'[x] # 0 /\ last_enable' # "DISABLE"
    BY <1>1, <1>2, <1>3, <1>4, <1>5, <1>6, <1>7
  <2>. QED BY <2>1, <2>2 DEF InsideCalls
<1>12. IrqLoops'
  <2>1. n[x] = 0 /\ Due(x) \notin {"irq_enable", "irq_disable"} /\ Due(x)' # "irq_disable"
    BY <1>0, <1>1, <1>3, <1>5, <1>6 DEF IrqLoops
  <2>2. \A y \in Contexts : n'[y] # 0 => Due(y)' \in {"irq_disable", "irq_enable"}
    BY <1>0, <1>2, <1>3, <2>1 DEF IrqLoops
  <2>3. \A y \in Contexts : Due(y)' = "irq_enable" => \A i \in 1 .. n'[y] : depth'[i] = 0
    BY <1>0, <1>2, <1>3, <2>1 DEF IrqLoops
  <2>4. (\A y \in Contexts : Due(y)' # "irq_disable") => \A y \in Contexts : Due(y) # "irq_disable"
    BY <1>3, <2>1
  <2>5. \A y \in Contexts : Due(y) = "irq_enable" => Due(y)' = "irq_enable"
    BY <1>3, <2>1
  <2>. QED BY <1>0, <1>2, <2>2, <2>3, <2>4, <2>5 DEF IrqLoops
<1>13. \A y \in Contexts : Starting(y)' <=> Starting(y)
  <2>1. s = "release" => ~Starting(x) /\ ~Starting(x)'
    BY <1>3, <1>5 DEF Starting
  <2>2. s = "force" => Starting(x)'
    BY <1>2, <1>3, <1>6, <1>7 DEF Starting
  <2>3. \A y \in Contexts : y # x => (Starting(y)' <=> Starting(y))
    BY <1>2, <1>3 DEF Starting
  <2>. QED BY <1>6, <2>1, <2>2, <2>3
<1>14. NoTimers' = NoTimers /\ Free' = Free
  BY <1>2, <1>4 DEF NoTimers, Free, PidFree, IrqsFree
<1>15. StartsFree'
  <2>1. \A y \in Contexts : Task(y) /\ serving' = "start" /\ last_enable' = "DISABLE" /\ Busy(y)' => Due(y)' = "save_disable"
    BY <1>0, <1>2, <1>3, <1>6, <1>8 DEF StartsFree
  <2>. QED BY <1>0, <1>2, <1>13, <1>14, <2>1 DEF StartsFree
<1>16. ASSUME NEW y \in Contexts, Busy(y)', Starting(y)' PROVE StartBacked(y)'
  <2>0. Watchdog' = Watchdog
    BY <1>2 DEF Watchdog
  <2>1. CASE s = "force"
    <3>1. y = x
      BY <1>6, <1>13, <1>16, <2>1, StartingAlone
    <3>2. Watchdog \in Contexts /\ Watchdog # x
      BY <1>0, <1>6, <2>1, ContextsAre DEF SmpTypeOK
    <3>3. pc'[Watchdog] = "idle"
      BY <1>4, <1>7, <2>1, <3>2 DEF Idle
    <3>. QED BY <1>2, <1>3, <1>4, <1>6, <1>7, <2>0, <2>1, <3>1, <3>3 DEF StartBacked
  <2>2. CASE s = "release"
    <3>1. y # x /\ Starting(y) /\ StartBacked(y) /\ Due(y)' = Due(y)
      BY <1>0, <1>3, <1>13, <1>16, <2>2 DEF Starting
    <3>2. Idle(y)' <=> Idle(y)
      BY <1>4, <3>1 DEF Idle
    <3>3. pc'[Watchdog] \in {"idle", "test", "save"} \/ pc'[Watchdog] = pc[Watchdog]
      BY <1>0, <1>4, ContextsAre DEF SmpTypeOK
    <3>. QED BY <1>2, <1>4, <2>0, <3>1, <3>2, <3>3 DEF StartBacked
  <2>. QED BY <1>1, <2>1, <2>2
<1>17. ASSUME NEW y \in Contexts, Busy(y)' PROVE Undone(y)'
  <2>1. CASE y = x
    <3>1. ~Idle(x)'
      BY <1>4 DEF Idle
    <3>2. Undone(x) /\ Due(x)' \in {"save_enable", "irq_enable", "save_disable"}
      BY <1>0, <1>1, <1>3, <1>5, <1>6
    <3>3. Enabled(x)' => Enabled(x)
      BY <1>1, <1>3, <1>5, <1>6, <1>8 DEF Enabled, Task
    <3>4. Cancelled(x)' => Cancelled(x)
      BY <1>1, <1>3, <1>5, <1>6, <1>8 DEF Cancelled, Task
    <3>. QED BY <1>2, <2>1, <3>1, <3>2, <3>3, <3>4 DEF Undone, IrqsFree, NoTimers, Task
  <2>2. CASE y # x
    <3>1. Busy(y) /\ Undone(y) /\ Due(y)' = Due(y) /\ (Idle(y)' <=> Idle(y))
      BY <1>0, <1>3, <1>4, <1>17, <2>2 DEF Idle
    <3>. QED BY <1>2, <1>4, <1>8, <3>1 DEF Undone, Released, Enabled, Cancelled, Task, PidFree, IrqsFree, NoTimers
  <2>. QED BY <2>1, <2>2
<1>18. KillIsLast'
  <2>1. ASSUME NEW y \in Contexts, Task(y), serving = "stop",
               Due(y) \in {"irq_enable", "release"} \/ (Due(y) = "save_enable" /\ ~Idle(y))
        PROVE  Due(y)' \in {"irq_enable", "release"} \/ (Due(y)' = "save_enable" /\ ~Idle(y)')
    <3>1. CASE y = x
      BY <1>1, <1>3, <1>4, <1>5, <2>1, <3>1 DEF Idle
    <3>2. CASE y # x
      BY <1>3, <1>4, <2>1, <3>2 DEF Idle
    <3>. QED BY <3>1, <3>2
  <2>. QED BY <1>0, <1>2, <1>8, <1>14, <2>1 DEF KillIsLast, Task
<1>19. LockOwned'
  BY <1>0, <1>3, <1>4 DEF LockOwned, Idle
<1>20. ResetsConverge'
  <2>1. CASE p # 0
    BY <1>4, <2>1 DEF ResetsConverge, Forcing, Idle
  <2>2. CASE p = 0
    <3>1. Forcing => Forcing'
      BY <1>3, <1>4 DEF Forcing, Idle
    <3>. QED BY <1>0, <1>4, <3>1 DEF ResetsConverge
  <2>. QED BY <2>1, <2>2
<1>21. Settled'
  BY <1>4 DEF Settled, Quiet, Idle
<1>. QED BY <1>9, <1>10, <1>11, <1>12, <1>15, <1>16, <1>17, <1>18, <1>19, <1>20, <1>21 DEF SmpInv

(* A statement inside set_pid_force_run().                                 *)
LEMMA InsideKeeps ==
  ASSUME SmpInv, NEW x \in Contexts, InSetPidForceRun(x)
  PROVE  SmpInv'
<1>0. /\ SmpTypeOK /\ OneAtATime /\ InsideCalls /\ IrqLoops /\ StartsFree /\ KillIsLast
      /\ LockOwned /\ ResetsConverge /\ Settled /\ TypeOK
      /\ \A y \in Contexts : Busy(y) => Undone(y) /\ (Starting(y) => StartBacked(y))
      /\ \A y \in Contexts : ~Busy(y) => Idle(y)
  BY Parts DEF SmpTypeOK
<1>1. /\ Step(x) /\ ~Interrupted(x) /\ UNCHANGED ctrl /\ Watchdog' = Watchdog
      /\ \A y \in Contexts : Due(y)' = Due(y) /\ (Busy(y)' <=> Busy(y)) /\ (Starting(y)' <=> Starting(y))
  BY DEF InSetPidForceRun, ctrl, Due, Busy, Starting, Watchdog
<1>2. /\ ~Idle(x) /\ Busy(x) /\ arg' = arg /\ pc' \in [Contexts -> Labels]
      /\ \A y \in Contexts : y # x => pc'[y] = pc[y]
  BY <1>0, <1>1 DEF Step, Test, Lock, Write, Save, Idle, TypeOK, Labels
<1>3. CASE arg[x] = 0
  <2>1. ~Starting(x) /\ ~(Task(x) /\ serving = "start")
    <3>1. Due(x) \in {"irq_enable", "save_enable"}
      BY <1>0, <1>2, <1>3 DEF InsideCalls
    <3>. QED BY <1>2, <3>1, TaskAt DEF Starting, Follows
  <2>2. ASSUME NEW y \in Contexts, ~Idle(y), arg[y] # 0
        PROVE  /\ Starting(y) /\ StartBacked(y) /\ x = Watchdog /\ y # x
               /\ last_p_id = 0 /\ timer["kill"] = "ENQUEUED"
               /\ pid_force_run = IF pc[y] = "save" THEN arg[y] ELSE 0
               /\ pc[x] \in {"test", "save"}
    <3>1. Starting(y) /\ y # x /\ Busy(y)
      BY <1>0, <1>3, <2>2 DEF InsideCalls, Starting
    <3>2. Task(y) /\ StartBacked(y)
      BY <3>1, StartingAlone
    <3>3. x = Watchdog
      BY <1>2, <3>1, <3>2, Others, Parts
    <3>. QED BY <1>2, <2>2, <3>1, <3>2, <3>3 DEF StartBacked, Idle
  <2>3. /\ TypeOK' /\ LockOwned'
        /\ pid_force_run' \in {pid_force_run, 0} /\ last_p_id' \in {last_p_id, 0}
        /\ pid_force_run' # pid_force_run => pc[x] = "write"
        /\ last_p_id' # last_p_id => pc[x] = "save"
        /\ pc[x] = "test" => pc'[x] = IF last_p_id = 0 THEN "save" ELSE "lock"
        /\ pc[x] = "write" => pid_force_run' = 0 /\ pc'[x] = "save"
        /\ pc[x] = "save" => pc'[x] = "idle" /\ last_p_id' = 0
        /\ pc[x] # "save" => pc'[x] # "idle"
        /\ pc'[x] = "save" => pc[x] \in {"test", "write"}
    <3>1. TypeOK'
      BY <1>0, <1>1, <1>2, <1>3 DEF Step, Test, Lock, Write, Save, TypeOK, Labels
    <3>2. LockOwned'
      BY <1>0, <1>1, <1>2, ContextsAre DEF Step, Test, Lock, Write, Save, LockOwned, TypeOK
    <3>. QED BY <1>0, <1>1, <1>2, <1>3, <3>1, <3>2 DEF Step, Test, Lock, Write, Save, TypeOK, Labels
  <2>4. Forcing' <=> Forcing
    BY <1>2, <1>3, <2>3 DEF Forcing, Idle
  <2>5. pc[x] = "save" /\ ~Forcing => pid_force_run = 0
    BY <1>0 DEF ResetsConverge
  <2>6. ResetsConverge'
    <3>. SUFFICES ASSUME ~Forcing PROVE ResetsConverge'
      BY <2>4 DEF ResetsConverge
    <3>1. pid_force_run \in {0, last_p_id} /\ \A y \in Contexts : pc[y] = "save" => pid_force_run = 0
      BY <1>0 DEF ResetsConverge
    <3>2. pid_force_run' \in {0, last_p_id'}
      BY <2>3, <3>1
    <3>3. \A y \in Contexts : pc'[y] = "save" => pid_force_run' = 0
      BY <1>2, <2>3, <3>1
    <3>. QED BY <3>2, <3>3 DEF ResetsConverge
  <2>7. Settled'
    <3>. SUFFICES ASSUME Quiet' PROVE pid_force_run' = last_p_id'
      BY DEF Settled
    <3>1. pc[x] = "save" /\ ~Forcing
      BY <1>2, <2>3, <2>4 DEF Quiet, Idle, Forcing
    <3>. QED BY <2>3, <2>5, <3>1
  <2>8. InsideCalls'
    BY <1>0, <1>1, <1>2 DEF InsideCalls, Idle, ctrl
  <2>9. Released(x) /\ pc[x] = "save" => pid_force_run = 0
    <3>. SUFFICES ASSUME Released(x), Forcing PROVE FALSE
      BY <2>5
    <3>1. timer["kill"] = "ENQUEUED" /\ x = Watchdog
      BY <2>2 DEF Forcing
    <3>2. Due(x) \in {"release", "irq_enable", "end_reset", "end_kill"} /\ ~Task(x)
      BY <1>0, <1>2, <3>1, ContextsAre, WatchdogAt DEF FollowsIn, SmpTypeOK, Timers
    <3>. QED BY <3>1, <3>2 DEF Released
  <2>10. PidFree => PidFree'
    BY <2>3 DEF PidFree
  <2>11. ASSUME NEW y \in Contexts, Busy(y)' PROVE Undone(y)'
    <3>1. Undone(y)
      BY <1>0, <1>1, <2>11
    <3>2. Released(y)' /\ Idle(y)' => PidFree'
      <4>1. CASE y = x
        BY <1>1, <1>2, <2>3, <2>9, <4>1 DEF Released, Idle, Task, PidFree, ctrl
      <4>2. CASE y # x
        BY <1>1, <1>2, <2>10, <3>1, <4>2 DEF Undone, Released, Idle, Task, ctrl
      <4>. QED BY <4>1, <4>2
    <3>. QED BY <1>1, <3>1, <3>2 DEF Undone, Enabled, Cancelled, Task, IrqsFree, NoTimers, ctrl
  <2>12. ASSUME NEW y \in Contexts, Busy(y)', Starting(y)' PROVE StartBacked(y)'
    <3>1. Starting(y) /\ StartBacked(y) /\ y # x /\ (Idle(y)' <=> Idle(y)) /\ pc'[y] = pc[y]
      BY <1>0, <1>1, <1>2, <2>1, <2>12 DEF Idle
    <3>2. Due(y) # "save_disable" \/ ~Idle(y) =>
            /\ last_p_id' = 0
            /\ pid_force_run' = IF pc[y] = "save" THEN arg[y] ELSE 0
            /\ pc'[Watchdog] \in {"idle", "test", "save"}
      <4>. SUFFICES ASSUME Due(y) # "save_disable" \/ ~Idle(y)
                    PROVE  /\ last_p_id' = 0
                           /\ pid_force_run' = IF pc[y] = "save" THEN arg[y] ELSE 0
                           /\ pc'[Watchdog] \in {"idle", "test", "save"}
        OBVIOUS
      <4>1. /\ last_p_id = 0 /\ pc[Watchdog] \in {"idle", "test", "save"} /\ Task(y) /\ Busy(y)
            /\ pid_force_run = IF pc[y] = "save" THEN arg[y] ELSE 0
        BY <3>1, StartingAlone DEF StartBacked
      <4>2. x = Watchdog
        BY <1>2, <3>1, <4>1, Others, Parts
      <4>3. pc[x] \in {"test", "save"}
        BY <1>2, <4>1, <4>2 DEF Idle
      <4>. QED BY <1>2, <2>3, <4>1, <4>2, <4>3
    <3>. QED BY <1>1, <1>2, <3>1, <3>2 DEF StartBacked, ctrl
  <2>13. StartsFree'
    BY <1>0, <1>1, <2>10 DEF StartsFree, NoTimers, Free, IrqsFree, Task, ctrl
  <2>14. KillIsLast'
    <3>. SUFFICES ASSUME timer["kill"] = "INACTIVE" PROVE KillIsLast'
      BY <1>1 DEF KillIsLast, ctrl
    <3>1. CASE Free
      BY <1>1, <2>10, <3>1 DEF KillIsLast, Free, IrqsFree, ctrl
    <3>2. CASE ~Free
      <4>1. PICK y \in Contexts : /\ serving = "stop" /\ Task(y)
                                  /\ Due(y) \in {"irq_enable", "release"} \/ (Due(y) = "save_enable" /\ ~Idle(y))
        BY <1>0, <3>2 DEF KillIsLast
      <4>2. CASE Due(y) = "save_enable" /\ y = x /\ pc[x] = "save"
        <5>1. Released(x) /\ Enabled(x)
          BY <4>1, <4>2 DEF Released, Enabled
        <5>2. Free'
          BY <1>0, <1>1, <1>2, <2>3, <2>9, <4>2, <5>1 DEF Undone, Free, PidFree, IrqsFree, ctrl
        <5>. QED BY <5>2 DEF KillIsLast
      <4>3. CASE ~(Due(y) = "save_enable" /\ y = x /\ pc[x] = "save")
        <5>1. Due(y) = "save_enable" => ~Idle(y)'
          BY <1>2, <2>3, <4>1, <4>3 DEF Idle
        <5>. QED BY <1>1, <4>1, <5>1 DEF KillIsLast, Task, ctrl
      <4>. QED BY <4>2, <4>3
    <3>. QED BY <3>1, <3>2
  <2>15. OneAtATime' /\ SmpTypeOK' /\ IrqLoops'
    <3>1. OneAtATime'
      BY <1>0, <1>1, OrderSame DEF ctrl
    <3>2. SmpTypeOK'
      BY <1>0, <1>1, <2>3 DEF SmpTypeOK, ctrl
    <3>3. IrqLoops'
      BY <1>0, <1>1 DEF IrqLoops, ctrl
    <3>. QED BY <3>1, <3>2, <3>3
  <2>. QED BY <2>3, <2>6, <2>7, <2>8, <2>11, <2>12, <2>13, <2>14, <2>15 DEF SmpInv
<1>4. CASE arg[x] # 0
  <2>1. Due(x) = "save_disable" /\ Starting(x)
    BY <1>0, <1>2, <1>4 DEF InsideCalls, Starting
  <2>2. /\ Task(x) /\ serving = "start" /\ last_enable # "DISABLE" /\ StartBacked(x)
        /\ \A y \in Contexts : y # x => ~Busy(y) /\ Idle(y)
    BY <1>1, <2>1, StartingAlone
  <2>3. /\ last_p_id = 0 /\ pid_force_run = (IF pc[x] = "save" THEN arg[x] ELSE 0)
        /\ timer["kill"] = "ENQUEUED"
    BY <1>2, <2>2 DEF StartBacked
  <2>4. /\ TypeOK' /\ LockOwned'
        /\ pc[x] # "save" => /\ last_p_id' = 0 /\ pc'[x] # "idle"
                             /\ pid_force_run' = (IF pc'[x] = "save" THEN arg[x] ELSE 0)
        /\ pc[x] = "save" => /\ last_p_id' = arg[x] /\ pc'[x] = "idle"
                             /\ pid_force_run' = arg[x]
    <3>1. TypeOK'
      BY <1>0, <1>1, <1>2 DEF Step, Test, Lock, Write, Save, TypeOK, Labels
    <3>2. LockOwned'
      BY <1>0, <1>1, <1>2, ContextsAre DEF Step, Test, Lock, Write, Save, LockOwned, TypeOK
    <3>. QED BY <1>0, <1>1, <1>2, <1>4, <2>3, <3>1, <3>2 DEF Step, Test, Lock, Write, Save, TypeOK, Labels
  <2>5. \A y \in Contexts : y # x => Idle(y)' /\ ~Busy(y)'
    BY <1>1, <1>2, <2>2 DEF Idle
  <2>6. ResetsConverge' /\ Settled'
    <3>1. CASE pc[x] = "save"
      <4>1. \A y \in Contexts : pc'[y] = "idle"
        BY <2>4, <2>5, <3>1 DEF Idle
      <4>. QED BY <2>4, <3>1, <4>1 DEF ResetsConverge, Settled
    <3>2. CASE pc[x] # "save"
      BY <1>2, <1>4, <2>4, <3>2 DEF ResetsConverge, Settled, Quiet, Forcing, Idle
    <3>. QED BY <3>1, <3>2
  <2>7. InsideCalls'
    BY <1>1, <1>2, <1>4, <2>1, <2>2, <2>5 DEF InsideCalls, ctrl
  <2>8. StartBacked(x)'
    <3>1. Watchdog # x /\ Watchdog \in Contexts
      BY <1>0, <2>2, ContextsAre DEF SmpTypeOK
    <3>2. pc'[Watchdog] = "idle"
      BY <2>5, <3>1 DEF Idle
    <3>. QED BY <1>1, <1>2, <2>1, <2>2, <2>4, <3>2 DEF StartBacked, ctrl, Idle
  <2>9. Undone(x)'
    BY <1>1, <2>1, <2>2 DEF Undone, Released, Enabled, Cancelled, Task, ctrl
  <2>10. \A y \in Contexts : Busy(y)' => Undone(y)' /\ (Starting(y)' => StartBacked(y)')
    BY <2>5, <2>8, <2>9
  <2>11. StartsFree' /\ KillIsLast'
    BY <1>1, <2>1, <2>2, <2>3 DEF StartsFree, KillIsLast, ctrl
  <2>12. OneAtATime' /\ SmpTypeOK' /\ IrqLoops'
    <3>1. OneAtATime'
      BY <1>0, <1>1, OrderSame DEF ctrl
    <3>2. SmpTypeOK'
      BY <1>0, <1>1, <2>4 DEF SmpTypeOK, ctrl
    <3>3. IrqLoops'
      BY <1>0, <1>1 DEF IrqLoops, ctrl
    <3>. QED BY <3>1, <3>2, <3>3
  <2>. QED BY <2>4, <2>6, <2>7, <2>10, <2>11, <2>12 DEF SmpInv
<1>. QED BY <1>3, <1>4

LEMMA NotEmpty == ASSUME NEW s \in Seq(Statements), Len(s) # 0 PROVE s # <<>>
<1>1. Len(<<>>) = 0
  BY EmptySeq
<1>. QED BY <1>1

(* The user enters a handler: every program is there from its beginning,   *)
(* or from its last statement.                                             *)
LEMMA CommandKeeps ==
  ASSUME SmpInv, NEW x \in Contexts, NEW command \in Commands, Command(x, command)
  PROVE  SmpInv'
<1>0. /\ SmpTypeOK /\ OneAtATime /\ InsideCalls /\ IrqLoops /\ StartsFree /\ KillIsLast
      /\ \A y \in Contexts : Busy(y) => Undone(y) /\ (Starting(y) => StartBacked(y))
      /\ \A y \in Contexts : Busy(y) <=> Due(y) # "nothing"
      /\ \A y \in Contexts : ~Busy(y) => Idle(y) /\ n[y] = 0
  BY Parts
<1>1. /\ serving = "none" /\ Task(x) /\ serving' = command
      /\ todo' = [todo EXCEPT ![x] = Program(command)]
      /\ UNCHANGED <<vars, n, irq_enabled, depth, last_enable, timer, base>>
  BY DEF Command, Task
<1>2. \A y \in Contexts : Task(y) => ~Busy(y)
  BY <1>0, <1>1 DEF OneAtATime
<1>3. /\ Program(command) \in Seq(Statements) /\ Program(command) \in Rests(Whole(command))
      /\ Program(command) # <<>>
      /\ command = "start" => First(Program(command)) = IF last_enable = "DISABLE" THEN "save_disable" ELSE "cancel_reset"
      /\ command = "stop" => First(Program(command)) = IF last_enable = "ENABLE" THEN "save_enable" ELSE "cancel_reset"
      /\ command = "notask" => First(Program(command)) = "irq_enable"
      /\ command \in {"read", "rmmod"} => First(Program(command)) = "release"
  <2>1. ASSUME NEW p \in Seq(Statements), Len(p) \in Nat \ {0}
        PROVE  /\ p \in Rests(p) /\ p # <<>> /\ First(p) = p[1]
               /\ SubSeq(p, Len(p), Len(p)) \in Rests(p)
               /\ SubSeq(p, Len(p), Len(p)) \in Seq(Statements)
               /\ SubSeq(p, Len(p), Len(p)) # <<>>
               /\ First(SubSeq(p, Len(p), Len(p))) = p[Len(p)]
    <3>1. SubSeq(p, 1, Len(p)) = p /\ p # <<>>
      BY <2>1, SubSeqFull, NotEmpty
    <3>2. p \in Rests(p) /\ SubSeq(p, Len(p), Len(p)) \in Rests(p)
      BY <2>1, <3>1 DEF Rests
    <3>3. Head(p) = p[1]
      BY <3>1
    <3>4. /\ SubSeq(p, Len(p), Len(p)) \in Seq(Statements)
          /\ Len(SubSeq(p, Len(p), Len(p))) = 1
      BY <2>1, SubSeqProperties, ElementOfSeq
    <3>5. SubSeq(p, Len(p), Len(p)) # <<>>
      <4>1. PICK q \in Seq(Statements) : q = SubSeq(p, Len(p), Len(p)) /\ Len(q) = 1
        BY <3>4
      <4>2. Len(q) # 0
        BY <4>1
      <4>3. q # <<>>
        BY <4>2, NotEmpty
      <4>. QED BY <4>1, <4>3
    <3>6. Head(SubSeq(p, Len(p), Len(p))) = p[Len(p)]
      BY <2>1, HeadTailOfSubSeq
    <3>. QED BY <3>1, <3>2, <3>3, <3>4, <3>5, <3>6 DEF First
  <2>2. /\ Whole("start") \in Seq(Statements) /\ Len(Whole("start")) = 7
        /\ Whole("start")[1] = "cancel_reset" /\ Whole("start")[7] = "save_disable"
    BY DEF Whole, SetOs, Statements
  <2>3. /\ Whole("stop") \in Seq(Statements) /\ Len(Whole("stop")) = 5
        /\ Whole("stop")[1] = "cancel_reset" /\ Whole("stop")[5] = "save_enable"
    BY DEF Whole, SetOs, Statements
  <2>4. /\ Whole("read") \in Seq(Statements) /\ Len(Whole("read")) = 4 /\ Whole("read")[1] = "release"
    BY DEF Whole, Statements
  <2>5. /\ Whole("notask") \in Seq(Statements) /\ Len(Whole("notask")) = 1 /\ Whole("notask")[1] = "irq_enable"
    BY DEF Whole, Statements
  <2>6. /\ Whole("rmmod") \in Seq(Statements) /\ Len(Whole("rmmod")) = 5 /\ Whole("rmmod")[1] = "release"
    BY DEF Whole, Statements
  <2>7. CASE command = "start"
    BY <2>1, <2>2, <2>7 DEF Program, Repeats
  <2>8. CASE command = "stop"
    BY <2>1, <2>3, <2>8 DEF Program, Repeats
  <2>9. CASE command = "read"
    BY <2>1, <2>4, <2>9 DEF Program, Repeats
  <2>10. CASE command = "notask"
    BY <2>1, <2>5, <2>10 DEF Program, Repeats
  <2>11. CASE command = "rmmod"
    BY <2>1, <2>6, <2>11 DEF Program, Repeats
  <2>. QED BY <2>7, <2>8, <2>9, <2>10, <2>11 DEF Commands
<1>4. /\ todo' \in [Contexts -> Seq(Statements)] /\ todo'[x] = Program(command)
      /\ \A y \in Contexts : y # x => todo'[y] = todo[y]
  BY <1>0, <1>1, <1>3 DEF SmpTypeOK
<1>5. /\ Due(x)' = First(Program(command)) /\ Busy(x)'
      /\ \A y \in Contexts : y # x => Due(y)' = Due(y) /\ (Busy(y)' <=> Busy(y))
  BY <1>3, <1>4 DEF Due, Busy, First
<1>6. /\ command = "start" => Due(x)' = IF last_enable = "DISABLE" THEN "save_disable" ELSE "cancel_reset"
      /\ command = "stop" => Due(x)' = IF last_enable = "ENABLE" THEN "save_enable" ELSE "cancel_reset"
      /\ command = "notask" => Due(x)' = "irq_enable"
      /\ command \in {"read", "rmmod"} => Due(x)' = "release"
  BY <1>3, <1>5
<1>7. /\ ~Busy(x) /\ Idle(x) /\ n[x] = 0 /\ Due(x) = "nothing" /\ Watchdog' = Watchdog
      /\ command \in {"start", "stop", "read", "notask", "rmmod"}
  BY <1>0, <1>1, <1>2 DEF Watchdog, Commands
<1>8. \A y \in Contexts : ~Starting(y) /\ ~Starting(y)'
  <2>1. \A y \in Contexts : Starting(y) => Task(y) /\ Busy(y)
    BY StartingAlone
  <2>2. \A y \in Contexts : y # x => (Starting(y)' <=> Starting(y))
    BY <1>1, <1>5 DEF Starting
  <2>3. ~Starting(x)'
    BY <1>1, <1>6, <1>7 DEF Starting
  <2>. QED BY <1>2, <2>1, <2>2, <2>3
<1>9. Free' = Free /\ NoTimers' = NoTimers
  BY <1>1 DEF Free, NoTimers, PidFree, IrqsFree, vars
<1>10. last_enable # "DISABLE" => NoTimers /\ Free
  BY <1>8, NotStarting
<1>11. OneAtATime'
  <2>1. \A y \in Contexts : Task(y) /\ Busy(y)' => y = x
    BY <1>2, <1>5
  <2>2. \A y \in Contexts : ~Task(y) => y # x
    BY <1>1
  <2>3. Watchdog \in Contexts /\ ~Task(Watchdog)
    BY <1>0, ContextsAre DEF SmpTypeOK
  <2>4. Busy(Watchdog)' <=> Busy(Watchdog)
    BY <1>1, <1>4, <1>7, <2>3 DEF Busy
  <2>. QED BY <1>0, <1>1, <1>3, <1>4, <1>5, <1>7, <2>1, <2>2, <2>4 DEF OneAtATime, Task
<1>12. SmpTypeOK'
  BY <1>0, <1>1, <1>4, CallsKept DEF SmpTypeOK
<1>13. InsideCalls'
  BY <1>0, <1>1, <1>5, <1>7 DEF InsideCalls, Idle, vars
<1>14. IrqLoops'
  <2>1. \A y \in Contexts : n'[y] # 0 => Due(y)' \in {"irq_disable", "irq_enable"}
    BY <1>0, <1>1, <1>5, <1>7 DEF IrqLoops
  <2>2. \A y \in Contexts : Due(y)' = "irq_enable" => \A i \in 1 .. n'[y] : depth'[i] = 0
    BY <1>0, <1>1, <1>5, <1>7 DEF IrqLoops
  <2>3. \A y \in Contexts : Due(y) # "irq_disable"
    BY <1>8 DEF Starting
  <2>4. \A y \in Contexts : Due(y) = "irq_enable" => Due(y)' = "irq_enable"
    BY <1>5, <1>7
  <2>. QED BY <1>0, <1>1, <2>1, <2>2, <2>3, <2>4 DEF IrqLoops
<1>15. StartsFree'
  BY <1>1, <1>2, <1>5, <1>6, <1>9, <1>10 DEF StartsFree
<1>16. ASSUME NEW y \in Contexts, Busy(y)' PROVE Undone(y)'
  <2>1. CASE y = x
    <3>1. Due(x)' \in {"save_enable"} => NoTimers /\ Free
      BY <1>6, <1>7, <1>10
    <3>2. Due(x)' \in {"cancel_reset", "release", "irq_enable", "save_enable", "save_disable"}
      BY <1>6, <1>7
    <3>3. CASE Due(x)' = "save_enable"
      BY <1>9, <2>1, <3>1, <3>3 DEF Undone, Free
    <3>4. CASE Due(x)' # "save_enable"
      BY <1>1, <1>6, <1>7, <2>1, <3>2, <3>4 DEF Undone, Released, Enabled, Cancelled, Task
    <3>. QED BY <3>3, <3>4
  <2>2. CASE y # x
    <3>1. Busy(y) /\ Undone(y) /\ Due(y)' = Due(y) /\ ~Task(y)
      BY <1>0, <1>2, <1>5, <1>16, <2>2
    <3>2. Due(y) \in {"release", "irq_enable", "end_reset", "end_kill"}
      BY <3>1, WatchdogAt DEF FollowsIn, Timers
    <3>. QED BY <1>1, <3>1, <3>2 DEF Undone, Released, Enabled, Cancelled, Task, Idle, PidFree, IrqsFree, NoTimers, vars
  <2>. QED BY <2>1, <2>2
<1>17. KillIsLast'
  BY <1>0, <1>1, <1>9 DEF KillIsLast
<1>. QED BY <1>1, <1>8, <1>11, <1>12, <1>13, <1>14, <1>15, <1>16, <1>17, CallsKept DEF SmpInv

LEMMA FireKeeps ==
  ASSUME SmpInv, NEW t \in Timers, Fire(t)
  PROVE  SmpInv'
<1>0. /\ SmpTypeOK /\ OneAtATime /\ InsideCalls /\ IrqLoops /\ StartsFree /\ KillIsLast
      /\ \A y \in Contexts : Busy(y) => Undone(y) /\ (Starting(y) => StartBacked(y))
      /\ \A y \in Contexts : Busy(y) <=> Due(y) # "nothing"
      /\ \A y \in Contexts : ~Busy(y) => Idle(y) /\ n[y] = 0
  BY Parts
<1>1. PICK x \in Contexts :
      /\ x = Watchdog /\ timer[t] = "ENQUEUED" /\ ~Busy(x)
      /\ t = "kill" => timer["reset"] = "INACTIVE" /\ serving # "start"
      /\ timer' = [timer EXCEPT ![t] = "CALLBACK"]
      /\ todo' = [todo EXCEPT ![x] = Handler(t)]
      /\ UNCHANGED <<vars, serving, n, irq_enabled, depth, last_enable, base>>
  BY <1>0, ContextsAre DEF Fire, Watchdog, SmpTypeOK
<1>2. ~Task(x) /\ Watchdog' = x /\ Due(x) = "nothing" /\ Idle(x) /\ n[x] = 0
  BY <1>0, <1>1, ContextsAre DEF SmpTypeOK, Watchdog
<1>3. Handler(t) \in Seq(Statements) /\ Handler(t) \in Rests(Handler(t)) /\ First(Handler(t)) = "release" /\ Handler(t) # <<>>
  <2>1. Handler(t) \in Seq(Statements) /\ Len(Handler(t)) = 3 /\ Handler(t)[1] = "release"
    BY DEF Handler, Statements
  <2>2. SubSeq(Handler(t), 1, Len(Handler(t))) = Handler(t) /\ Handler(t) # <<>>
    BY <2>1, SubSeqFull, NotEmpty
  <2>3. Handler(t) \in Rests(Handler(t))
    BY <2>1, <2>2 DEF Rests
  <2>. QED BY <2>1, <2>2, <2>3 DEF First
<1>4. /\ todo' \in [Contexts -> Seq(Statements)] /\ todo'[x] = Handler(t)
      /\ \A y \in Contexts : y # x => todo'[y] = todo[y]
  BY <1>0, <1>1, <1>2, <1>3 DEF SmpTypeOK
<1>5. /\ Due(x)' = "release" /\ Busy(x)'
      /\ \A y \in Contexts : y # x => Due(y)' = Due(y) /\ (Busy(y)' <=> Busy(y))
  BY <1>3, <1>4 DEF Due, Busy, First
<1>6. \A r \in Timers : timer[r] # "CALLBACK"
  BY <1>0, <1>1 DEF OneAtATime
<1>7. /\ timer' \in [Timers -> {"INACTIVE", "ENQUEUED", "CALLBACK"}] /\ timer'[t] = "CALLBACK"
      /\ t = "reset" => timer'["kill"] = "ENQUEUED" /\ timer["kill"] = "ENQUEUED" /\ timer["reset"] = "ENQUEUED"
      /\ t = "kill" => timer'["reset"] = "INACTIVE"
  BY <1>0, <1>1 DEF SmpTypeOK, OneAtATime, Timers
<1>8. \A y \in Contexts : ~Task(y) => (Busy(y)' <=> y = x)
  BY <1>0, <1>1, <1>2, <1>5, <1>6 DEF OneAtATime
<1>9. OneAtATime'
  <2>1. \A y \in Contexts : Task(y) => y # x
    BY <1>2
  <2>2. \A y \in Contexts : Task(y) /\ Busy(y)' => serving' # "none" /\ todo'[y] \in Rests(Whole(serving'))
    BY <1>0, <1>1, <1>4, <1>5, <2>1 DEF OneAtATime
  <2>3. \A y, z \in Contexts : Task(y) /\ Busy(y)' /\ Task(z) /\ Busy(z)' => y = z
    BY <1>0, <1>5, <2>1 DEF OneAtATime
  <2>4. Busy(Watchdog)'
    BY <1>2, <1>3, <1>4 DEF Busy
  <2>5. \A y \in Contexts : ~Task(y) /\ Busy(y)' =>
          y = Watchdog' /\ \E r \in Timers : timer'[r] = "CALLBACK" /\ todo'[y] \in Rests(Handler(r))
    BY <1>2, <1>3, <1>4, <1>7, <1>8
  <2>6. timer'["reset"] # "INACTIVE" => timer'["kill"] = "ENQUEUED"
    BY <1>7 DEF Timers
  <2>. QED BY <2>2, <2>3, <2>4, <2>5, <2>6 DEF OneAtATime, Task
<1>10. SmpTypeOK'
  BY <1>0, <1>1, <1>4, <1>7, CallsKept DEF SmpTypeOK
<1>11. InsideCalls'
  BY <1>0, <1>1, <1>2, <1>5 DEF InsideCalls, Idle, vars
<1>12. IrqLoops'
  <2>1. \A y \in Contexts : n'[y] # 0 => Due(y)' \in {"irq_disable", "irq_enable"}
    BY <1>0, <1>1, <1>2, <1>5 DEF IrqLoops
  <2>2. \A y \in Contexts : Due(y)' = "irq_enable" <=> Due(y) = "irq_enable"
    BY <1>2, <1>5
  <2>3. \A y \in Contexts : Due(y)' = "irq_disable" <=> Due(y) = "irq_disable"
    BY <1>2, <1>5
  <2>. QED BY <1>0, <1>1, <2>1, <2>2, <2>3 DEF IrqLoops
<1>13. \A y \in Contexts : Starting(y)' <=> Starting(y)
  BY <1>1, <1>2, <1>5 DEF Starting
<1>14. StartsFree'
  <2>1. ~NoTimers
    BY <1>1 DEF NoTimers, Timers
  <2>2. \A y \in Contexts : Task(y) /\ Busy(y)' => Busy(y) /\ Due(y)' = Due(y)
    BY <1>2, <1>5
  <2>. QED BY <1>0, <1>1, <1>13, <2>1, <2>2 DEF StartsFree, Task
<1>15. ASSUME NEW y \in Contexts, Busy(y)', Starting(y)' PROVE StartBacked(y)'
  <2>1. Starting(y)
    BY <1>13, <1>15
  <2>2. StartBacked(y) /\ serving = "start" /\ Task(y)
    BY <2>1, StartingAlone
  <2>3. t = "reset" /\ y # x /\ Due(y)' = Due(y)
    BY <1>1, <1>2, <1>5, <2>2 DEF Timers
  <2>. QED BY <1>1, <1>2, <1>7, <2>2, <2>3 DEF StartBacked, Idle, Watchdog, vars
<1>16. ASSUME NEW y \in Contexts, Busy(y)' PROVE Undone(y)'
  <2>1. CASE y = x
    <3>1. ~Released(x)' /\ ~Enabled(x)' /\ ~Cancelled(x)' /\ ~Task(x)
      BY <1>2, <1>5 DEF Released, Enabled, Cancelled, Task
    <3>. QED BY <2>1, <3>1 DEF Undone, Task
  <2>2. CASE y # x
    <3>1. Busy(y) /\ Undone(y) /\ Due(y)' = Due(y) /\ Task(y)
      BY <1>0, <1>5, <1>8, <1>16, <2>2
    <3>2. ~NoTimers /\ (t = "reset" => timer["reset"] # "INACTIVE")
      BY <1>1 DEF NoTimers, Timers
    <3>3. Cancelled(y)' <=> Cancelled(y)
      BY <1>1, <3>1 DEF Cancelled, Task
    <3>4. Due(y) = "cancel_kill" => timer'["reset"] = "INACTIVE"
      BY <1>7, <3>1, <3>2 DEF Undone, Timers
    <3>5. (Released(y)' <=> Released(y)) /\ (Enabled(y)' <=> Enabled(y))
      BY <1>1, <3>1 DEF Released, Enabled, Task
    <3>. QED BY <1>1, <3>1, <3>2, <3>3, <3>4, <3>5 DEF Undone, Task, Idle, PidFree, IrqsFree, vars
  <2>. QED BY <2>1, <2>2
<1>17. KillIsLast'
  BY <1>7 DEF KillIsLast, Timers
<1>. QED BY <1>1, <1>9, <1>10, <1>11, <1>12, <1>14, <1>15, <1>16, <1>17, CallsKept DEF SmpInv

LEMMA IdleKeeps == ASSUME SmpInv, UNCHANGED smpvars PROVE SmpInv'
<1>1. UNCHANGED <<vars, ctrl>>
  BY DEF smpvars
<1>2. Watchdog' = Watchdog /\ \A y \in Contexts :
        Due(y)' = Due(y) /\ (Busy(y)' <=> Busy(y)) /\ (Starting(y)' <=> Starting(y)) /\ (Idle(y)' <=> Idle(y))
  BY <1>1 DEF ctrl, vars, Due, Busy, Starting, Watchdog, Idle
<1>3. SmpTypeOK' /\ OneAtATime' /\ IrqLoops'
  BY <1>1, <1>2, Parts, OrderSame, CallsKept DEF ctrl, SmpTypeOK, IrqLoops
<1>4. InsideCalls'
  BY <1>1, <1>2, Parts DEF ctrl, vars, InsideCalls
<1>5. StartsFree' /\ KillIsLast'
  BY <1>1, <1>2, Parts DEF ctrl, vars, StartsFree, KillIsLast, Task, NoTimers, Free, PidFree, IrqsFree
<1>6. ASSUME NEW y \in Contexts, Busy(y)' PROVE Undone(y)' /\ (Starting(y)' => StartBacked(y)')
  <2>1. Undone(y) /\ (Starting(y) => StartBacked(y))
    BY <1>2, <1>6, Parts
  <2>. QED BY <1>1, <1>2, <2>1 DEF Undone, StartBacked, Released, Enabled, Cancelled, Task, NoTimers, PidFree, IrqsFree, ctrl, vars
<1>. QED BY <1>1, <1>3, <1>4, <1>5, <1>6, CallsKept DEF SmpInv

LEMMA SmpStarts == SmpInit => SmpInv
<1>. SUFFICES ASSUME SmpInit PROVE SmpInv
  OBVIOUS
<1>1. SmpTypeOK
  <2>1. <<>> \in Seq(Statements)
    BY EmptySeq
  <2>. QED BY <2>1, NIrqsAssumption DEF SmpInit, SmpTypeOK, Init, TypeOK, Labels, Timers
<1>2. \A x \in Contexts : ~Busy(x) /\ Due(x) = "nothing" /\ Idle(x) /\ n[x] = 0
  BY DEF SmpInit, Init, Busy, Due, Idle
<1>3. NoTimers /\ Free /\ (\A t \in Timers : timer[t] # "CALLBACK") /\ serving = "none"
  BY DEF SmpInit, Init, NoTimers, Free, PidFree, IrqsFree, Timers
<1>4. OneAtATime /\ InsideCalls /\ StartsFree /\ KillIsLast
  BY <1>2, <1>3 DEF OneAtATime, InsideCalls, StartsFree, KillIsLast, NoTimers
<1>5. IrqLoops
  BY <1>2, <1>3 DEF IrqLoops, Free, IrqsFree
<1>6. LockOwned /\ ResetsConverge /\ Settled
  BY <1>2, ContextsAre DEF SmpInit, Init, LockOwned, ResetsConverge, Settled
<1>. QED BY <1>1, <1>2, <1>4, <1>5, <1>6 DEF SmpInv

LEMMA SmpMoves == SmpInv /\ [SmpNext]_smpvars => SmpInv'
<1>. SUFFICES ASSUME SmpInv, [SmpNext]_smpvars PROVE SmpInv'
  OBVIOUS
<1>1. ASSUME NEW x \in Contexts, Statement(x) PROVE SmpInv'
  BY <1>1, CancelKeeps, StartKeeps, EndKeeps, IrqDisableKeeps, IrqEnableKeeps, SaveEnableKeeps, SetPidForceRunKeeps, InsideKeeps
     DEF Statement
<1>. QED BY <1>1, CommandKeeps, FireKeeps, IdleKeeps DEF SmpNext

LEMMA SmpInvariance == SmpSpec => []SmpInv
BY SmpStarts, SmpMoves, PTL DEF SmpSpec

(* At rest no watchdog is left in progress.                                *)
LEMMA AtRestIs == ASSUME SmpInv, AtRest PROVE Backed /\ IrqsAgree
<1>1. /\ SmpTypeOK /\ KillIsLast /\ IrqLoops /\ OneAtATime
      /\ \A x \in Contexts : ~Busy(x) /\ Due(x) = "nothing"
  BY Parts DEF AtRest, Resting
<1>2. timer["kill"] # "CALLBACK"
  BY <1>1, ContextsAre DEF OneAtATime, SmpTypeOK, Timers
<1>3. timer["kill"] \in {"INACTIVE", "ENQUEUED"}
  BY <1>1, <1>2 DEF SmpTypeOK, Timers
<1>4. timer["kill"] = "INACTIVE" => Free
  BY <1>1 DEF KillIsLast
<1>5. Free => ~Protecting
  BY DEF Free, PidFree, IrqsFree, Protecting
<1>6. \A i \in 1 .. NIrqs : depth[i] = IF irq_enabled THEN 0 ELSE 1
  BY <1>1 DEF IrqLoops
<1>. QED BY <1>3, <1>4, <1>5, <1>6 DEF Backed, IrqsAgree

(* Whenever no handler is in progress, what is still protected has the     *)
(* kill timer set, and every interrupt is disabled once or not at all, as  *)
(* irq_enabled says; and the types hold always.                            *)
THEOREM HandlersSoundHolds == SmpSpec => []HandlersSound
<1>1. SmpInv => HandlersSound
  BY AtRestIs DEF HandlersSound, Backed, IrqsAgree, SmpInv
<1>. QED BY <1>1, SmpInvariance, PTL

(* The handlers use set_pid_force_run() so that its unlocked test does no  *)
(* harm: with no call in progress the pid it remembers is the one in force.*)
THEOREM SettledHolds == SmpSpec => []Settled
<1>1. SmpInv => Settled
  BY DEF SmpInv
<1>. QED BY <1>1, SmpInvariance, PTL

(* A stop command, a read and an unloading leave the machine as it was,    *)
(* wherever a watchdog has run in the middle of them.                      *)
THEOREM RestoresHolds == SmpSpec => Restores
<1>1. SmpInv /\ SmpInv' /\ [SmpNext]_smpvars =>
        [serving' = "none" /\ serving \in {"stop", "read", "rmmod"} =>
           /\ ~Protecting' /\ irq_enabled'
           /\ timer' = [t \in Timers |-> "INACTIVE"]]_smpvars
  <2>. SUFFICES ASSUME SmpInv, SmpInv', SmpNext, serving' = "none", serving \in {"stop", "read", "rmmod"}
                PROVE  Free' /\ NoTimers'
    <3>1. Free' /\ NoTimers' /\ SmpTypeOK' => /\ ~Protecting' /\ irq_enabled'
                                              /\ timer' = [t \in Timers |-> "INACTIVE"]
      BY DEF Free, PidFree, IrqsFree, NoTimers, Protecting, SmpTypeOK, Timers
    <3>. QED BY <3>1 DEF SmpInv
  <2>1. PICK x \in Contexts : Statement(x)
    BY DEF SmpNext, Command, Fire, Commands
  <2>2. ASSUME NEW s, At(x, s), Done(x)
        PROVE  /\ \/ serving = "stop" /\ s = "save_enable"
                  \/ serving = "read" /\ s = "cancel_kill"
                  \/ serving = "rmmod" /\ s = "unload"
               /\ Free /\ Undone(x) /\ Due(x) = s /\ Task(x)
    <3>1. /\ Busy(x) /\ Idle(x) /\ Due(x) = s
          /\ Task(x) => serving' = IF Then(x) = "nothing" THEN "none" ELSE serving
          /\ ~Task(x) => serving' = serving
      BY <2>2, Moves
    <3>2. Task(x) /\ Then(x) = "nothing" /\ Undone(x)
      BY <3>1, Parts
    <3>3. \/ serving = "stop" /\ s = "save_enable"
          \/ serving = "read" /\ s = "cancel_kill"
          \/ serving = "rmmod" /\ s = "unload"
      BY <3>1, <3>2, TaskAt DEF Follows
    <3>4. Released(x) /\ Enabled(x)
      BY <3>1, <3>2, <3>3 DEF Released, Enabled
    <3>. QED BY <3>1, <3>2, <3>3, <3>4 DEF Undone, Free
  <2>3. CASE \E t \in Timers : Cancel(x, t)
    <3>1. PICK t \in Timers : Cancel(x, t)
      BY <2>3
    <3>2. At(x, IF t = "reset" THEN "cancel_reset" ELSE "cancel_kill") /\ Done(x) /\ SmpTypeOK
      BY <3>1, Parts DEF Cancel
    <3>3. t = "kill" /\ Free /\ timer["reset"] = "INACTIVE"
      BY <2>2, <3>2 DEF Timers, Undone
    <3>4. /\ timer'["kill"] = "INACTIVE" /\ timer'["reset"] = "INACTIVE"
          /\ UNCHANGED <<vars, irq_enabled, depth>>
      BY <3>1, <3>2, <3>3 DEF Cancel, SmpTypeOK, Timers
    <3>. QED BY <3>3, <3>4 DEF NoTimers, Free, PidFree, IrqsFree, vars
  <2>4. CASE SaveEnable(x)
    <3>1. PICK s \in {"save_disable", "save_enable", "unload"} : At(x, s)
      BY <2>4 DEF SaveEnable
    <3>2. Free /\ Cancelled(x) /\ Undone(x)
      BY <2>2, <2>4, <3>1 DEF SaveEnable, Cancelled
    <3>. QED BY <2>4, <3>2 DEF Undone, SaveEnable, NoTimers, Free, PidFree, IrqsFree, vars
  <2>5. CASE \E t \in Timers : Start(x, t) \/ End(x, t)
    <3>1. PICK t \in Timers : Start(x, t) \/ End(x, t)
      BY <2>5
    <3>2. PICK s \in {"start_reset", "start_kill", "end_reset", "end_kill"} : At(x, s) /\ Done(x)
      BY <3>1 DEF Start, End
    <3>. QED BY <2>2, <3>2
  <2>6. CASE IrqDisable(x) \/ IrqEnable(x) \/ SetPidForceRun(x) \/ InSetPidForceRun(x)
    <3>1. PICK s \in {"irq_disable", "irq_enable", "force", "release"} : At(x, s) /\ Done(x)
      BY <2>6 DEF IrqDisable, IrqEnable, SetPidForceRun, InSetPidForceRun, ctrl
    <3>. QED BY <2>2, <3>1
  <2>. QED BY <2>1, <2>3, <2>4, <2>5, <2>6 DEF Statement
<1>. QED BY <1>1, SmpInvariance, PTL DEF SmpSpec, Restores
=============================================================================
