----------------------------- MODULE OsCtrlSmp -----------------------------
(***************************************************************************)
(* The handlers of os_ctrl.c statement by statement, over the statements   *)
(* of set_pid_force_run() (ForceRun), on several processors: a command is  *)
(* interrupted by the two watchdog timers of its own processor, and runs   *)
(* next to a handler of another processor.                                 *)
(*                                                                         *)
(* Kept is what protects a process: the lock of the scheduler, the device  *)
(* interrupts with the nesting depth of disable_irq(), the two timers and  *)
(* last_enable.  There is one user at a time, as the comments of the two   *)
(* /proc handlers ask.  The L1 timer, whose handler touches none of this,  *)
(* and the profile data are left to OsCtrl.                                *)
(***************************************************************************)
EXTENDS ForceRun, Sequences

CONSTANT NIrqs    \* how many device interrupts irq_no[] lists

ASSUME NIrqsAssumption == NIrqs \in Nat \ {0}

VARIABLES
  serving,      \* the command in progress, or "none"
  todo,         \* the statements each context still has to execute
  n,            \* the loop variable n of each context
  irq_enabled,  \* what the module believes of the device interrupts
  depth,        \* how often each device interrupt is disabled
  last_enable,  \* static of set_os
  timer,        \* state of the two watchdog timers
  base          \* the processor on which they were started

ctrl   == <<serving, todo, n, irq_enabled, depth, last_enable, timer, base>>
smpvars == <<vars, ctrl>>

Timers   == {"kill", "reset"}
Commands == {"start", "stop", "read", "notask", "rmmod"}
Statements == {"cancel_reset", "cancel_kill", "start_kill", "start_reset",
               "irq_disable", "irq_enable", "force", "release",
               "save_disable", "save_enable", "unload", "end_reset", "end_kill"}

SmpTypeOK ==
  /\ TypeOK
  /\ serving \in Commands \cup {"none"}
  /\ todo \in [Contexts -> Seq(Statements)]
  /\ n \in [Contexts -> 0 .. NIrqs]
  /\ irq_enabled \in BOOLEAN
  /\ depth \in [1 .. NIrqs -> 0 .. 1]
  /\ last_enable \in {"NEVER", "DISABLE", "ENABLE"}
  /\ timer \in [Timers -> {"INACTIVE", "ENQUEUED", "CALLBACK"}]
  /\ base \in Cpus

SmpInit ==
  /\ Init
  /\ serving = "none"
  /\ todo = [x \in Contexts |-> <<>>]
  /\ n = [x \in Contexts |-> 0]
  /\ irq_enabled = TRUE /\ depth = [i \in 1 .. NIrqs |-> 0]
  /\ last_enable = "NEVER"
  /\ timer = [t \in Timers |-> "INACTIVE"]
  /\ base \in Cpus

-----------------------------------------------------------------------------
Busy(x)      == todo[x] # <<>>
Resting      == \A x \in Contexts : ~Busy(x)
Interrupted(x) == x[2] = "task" /\ Busy(<<x[1], "irq">>)

SetOsResetOnly(enable) == \* mutant: the kill timer is not started
  IF enable = "DISABLE"
  THEN <<"cancel_reset", "cancel_kill", "start_reset", "irq_disable", "force">>
  ELSE <<"cancel_reset", "cancel_kill", "irq_enable", "release">>

SetOsKeepsKill(enable) == \* mutant: a stop keeps the kill timer
  IF enable = "DISABLE"
  THEN <<"cancel_reset", "cancel_kill", "start_kill", "start_reset", "irq_disable", "force">>
  ELSE <<"cancel_reset", "irq_enable", "release">>

(* The statements of set_os() before it saves its argument.                *)
SetOs(enable) ==
  IF enable = "DISABLE"
  THEN <<"cancel_reset", "cancel_kill", "start_kill", "start_reset", "irq_disable", "force">>
  ELSE <<"cancel_reset", "cancel_kill", "irq_enable", "release">>

(* The /proc handlers: start and stop commands for a live task, a command  *)
(* for an unknown one, a read; and cleanup_module() with the next insmod.  *)
Whole(command) ==
  CASE command = "start"  -> Append(SetOs("DISABLE"), "save_disable")
    [] command = "stop"   -> Append(SetOs("ENABLE"), "save_enable")
    [] command = "read"   -> <<"release", "irq_enable", "cancel_reset", "cancel_kill">>
    [] command = "notask" -> <<"irq_enable">>
    [] command = "rmmod"  -> <<"release", "irq_enable", "cancel_reset", "cancel_kill", "unload">>

(* set_os() skips a repetition, but for the last statement; nobody changes *)
(* last_enable meanwhile.                                                  *)
Repeats(command) ==
  \/ command = "start" /\ last_enable = "DISABLE"
  \/ command = "stop" /\ last_enable = "ENABLE"
Program(command) ==
  LET whole == Whole(command)
  IN  IF Repeats(command) THEN SubSeq(whole, Len(whole), Len(whole)) ELSE whole

(* The two timer handlers.                                                 *)
Handler(t) ==
  <<"release", "irq_enable", IF t = "reset" THEN "end_reset" ELSE "end_kill">>

-----------------------------------------------------------------------------
(* The user enters a handler on some processor.                            *)
Command(x, command) ==
  /\ serving = "none"
  /\ x[2] = "task" /\ ~Interrupted(x)
  /\ serving' = command
  /\ todo' = [todo EXCEPT ![x] = Program(command)]
  /\ UNCHANGED <<vars, n, irq_enabled, depth, last_enable, timer, base>>

(* A timer interrupts its processor.  The kill timer expires 10 s after    *)
(* the start command, long after the reset timer and the command itself.   *)
Fire(t) ==
  LET x == <<base, "irq">>
  IN  /\ timer[t] = "ENQUEUED"
      /\ t = "kill" => timer["reset"] = "INACTIVE" /\ serving # "start"
      /\ ~Busy(x)
      /\ timer' = [timer EXCEPT ![t] = "CALLBACK"]
      /\ todo' = [todo EXCEPT ![x] = Handler(t)]
      /\ UNCHANGED <<vars, serving, n, irq_enabled, depth, last_enable, base>>

(* Context x executes its next statement s and goes on to the one behind.  *)
At(x, s) == Busy(x) /\ ~Interrupted(x) /\ Idle(x) /\ Head(todo[x]) = s
Done(x) ==
  /\ todo' = [todo EXCEPT ![x] = Tail(@)]
  /\ serving' = IF x[2] = "task" /\ Len(todo[x]) = 1 THEN "none" ELSE serving

CancelNoWait(x, t) == \* mutant: hrtimer_try_to_cancel(), its answer ignored
  /\ At(x, IF t = "reset" THEN "cancel_reset" ELSE "cancel_kill")
  /\ timer' = [timer EXCEPT ![t] = "INACTIVE"]
  /\ Done(x)
  /\ UNCHANGED <<vars, n, irq_enabled, depth, last_enable, base>>

(* hrtimer_cancel() waits for a handler that runs on another processor.    *)
Cancel(x, t) ==
  /\ At(x, IF t = "reset" THEN "cancel_reset" ELSE "cancel_kill")
  /\ timer[t] # "CALLBACK"
  /\ timer' = [timer EXCEPT ![t] = "INACTIVE"]
  /\ Done(x)
  /\ UNCHANGED <<vars, n, irq_enabled, depth, last_enable, base>>

Start(x, t) ==
  /\ At(x, IF t = "reset" THEN "start_reset" ELSE "start_kill")
  /\ timer' = [timer EXCEPT ![t] = "ENQUEUED"]
  /\ base' = x[1]
  /\ Done(x)
  /\ UNCHANGED <<vars, n, irq_enabled, depth, last_enable>>

End(x, t) ==
  /\ At(x, IF t = "reset" THEN "end_reset" ELSE "end_kill")
  /\ timer' = [timer EXCEPT ![t] = "INACTIVE"]
  /\ Done(x)
  /\ UNCHANGED <<vars, n, irq_enabled, depth, last_enable, base>>

IrqDisableFlagFirst(x) == \* mutant: irq_enabled is cleared before the loop
  /\ At(x, "irq_disable")
  /\ irq_enabled' = IF n[x] = 0 THEN FALSE ELSE irq_enabled
  /\ \/ /\ irq_enabled \/ n[x] > 0
        /\ n[x] < NIrqs
        /\ n' = [n EXCEPT ![x] = @ + 1]
        /\ depth' = [depth EXCEPT ![n[x] + 1] = @ + 1]
        /\ UNCHANGED <<serving, todo>>
     \/ /\ (~irq_enabled /\ n[x] = 0) \/ n[x] = NIrqs
        /\ n' = [n EXCEPT ![x] = 0]
        /\ Done(x)
        /\ UNCHANGED depth
  /\ UNCHANGED <<vars, last_enable, timer, base>>

(* IRQ_DISABLE(): the loop looks at irq_enabled each time round.           *)
IrqDisable(x) ==
  /\ At(x, "irq_disable")
  /\ \/ /\ irq_enabled /\ n[x] < NIrqs
        /\ n' = [n EXCEPT ![x] = @ + 1]
        /\ depth' = [depth EXCEPT ![n[x] + 1] = @ + 1]
        /\ UNCHANGED <<serving, todo, irq_enabled>>
     \/ /\ ~irq_enabled \/ n[x] = NIrqs
        /\ n' = [n EXCEPT ![x] = 0]
        /\ irq_enabled' = FALSE
        /\ Done(x)
        /\ UNCHANGED depth
  /\ UNCHANGED <<vars, last_enable, timer, base>>

(* enable_irq() of an interrupt that is not disabled only warns.           *)
EnableIrq(i) == depth' = [depth EXCEPT ![i] = IF @ > 0 THEN @ - 1 ELSE 0]

IrqEnableOffByOne(x) == \* mutant: n <= sizeof(irq_no)
  /\ At(x, "irq_enable")
  /\ \/ /\ ~irq_enabled /\ n[x] <= NIrqs
        /\ n' = [n EXCEPT ![x] = @ + 1]
        /\ IF n[x] < NIrqs THEN EnableIrq(n[x] + 1) ELSE UNCHANGED depth
        /\ UNCHANGED <<serving, todo, irq_enabled>>
     \/ /\ irq_enabled \/ n[x] > NIrqs
        /\ n' = [n EXCEPT ![x] = 0]
        /\ irq_enabled' = TRUE
        /\ Done(x)
        /\ UNCHANGED depth
  /\ UNCHANGED <<vars, last_enable, timer, base>>

(* IRQ_ENABLE().                                                           *)
IrqEnable(x) ==
  /\ At(x, "irq_enable")
  /\ \/ /\ ~irq_enabled /\ n[x] < NIrqs
        /\ n' = [n EXCEPT ![x] = @ + 1]
        /\ EnableIrq(n[x] + 1)
        /\ UNCHANGED <<serving, todo, irq_enabled>>
     \/ /\ irq_enabled \/ n[x] = NIrqs
        /\ n' = [n EXCEPT ![x] = 0]
        /\ irq_enabled' = TRUE
        /\ Done(x)
        /\ UNCHANGED depth
  /\ UNCHANGED <<vars, last_enable, timer, base>>

(* A call of set_pid_force_run(); its own statements follow.               *)
SetPidForceRun(x) ==
  /\ \/ At(x, "release") /\ Call(x, 0)
     \/ At(x, "force") /\ \E p \in Pids : Call(x, p)
  /\ Done(x)
  /\ UNCHANGED <<n, irq_enabled, depth, last_enable, timer, base>>

InSetPidForceRun(x) ==
  /\ ~Interrupted(x)
  /\ Step(x)
  /\ UNCHANGED ctrl

(* The end of set_os(), and the statics of a module that is loaded again.  *)
SaveEnable(x) ==
  /\ \/ At(x, "save_disable") /\ last_enable' = "DISABLE"
     \/ At(x, "save_enable") /\ last_enable' = "ENABLE"
     \/ At(x, "unload") /\ last_enable' = "NEVER"
  /\ Done(x)
  /\ UNCHANGED <<vars, n, irq_enabled, depth, timer, base>>

Statement(x) ==
  \/ \E t \in Timers : Cancel(x, t) \/ Start(x, t) \/ End(x, t)
  \/ IrqDisable(x) \/ IrqEnable(x) \/ SaveEnable(x)
  \/ SetPidForceRun(x) \/ InSetPidForceRun(x)

SmpNext ==
  \/ \E x \in Contexts : Statement(x) \/ \E command \in Commands : Command(x, command)
  \/ \E t \in Timers : Fire(t)

SmpSpec == SmpInit /\ [][SmpNext]_smpvars

-----------------------------------------------------------------------------
AtRest    == Resting /\ Quiet
Protecting == pid_force_run # 0 \/ \E i \in 1 .. NIrqs : depth[i] > 0

(* Whenever no handler is in progress and something is still protected,    *)
(* the kill timer is there to end it, wherever the reset timer has fired   *)
(* inside the start command.                                               *)
Backed == AtRest /\ Protecting => timer["kill"] = "ENQUEUED"

(* Whatever the loops over irq_no[] did to each other, every interrupt is  *)
(* disabled exactly once or not at all, as irq_enabled says.               *)
IrqsAgree ==
  AtRest => \A i \in 1 .. NIrqs : depth[i] = IF irq_enabled THEN 0 ELSE 1

(* What holds when every handler has returned, and the types always.       *)
HandlersSound == SmpTypeOK /\ Backed /\ IrqsAgree

(* A stop command, a read and an unloading leave the machine as it was,    *)
(* although a watchdog may have run in the middle of them.                 *)
Restores ==
  [][serving' = "none" /\ serving \in {"stop", "read", "rmmod"} =>
       /\ ~Protecting' /\ irq_enabled'
       /\ timer' = [t \in Timers |-> "INACTIVE"]]_smpvars

(* With them, an inductive invariant.  A context is told by the statement  *)
(* it has to execute next; the parts are: one command and one watchdog     *)
(* handler at a time, the kill timer outliving the reset timer; how the    *)
(* loops over irq_no[] leave the interrupts; a module that has not started *)
(* leaves the machine alone, and one that is starting has the kill timer   *)
(* set and may only be interrupted, on its own processor; what a handler   *)
(* has done by a statement is not undone before it returns.                *)
Due(x)  == IF Busy(x) THEN Head(todo[x]) ELSE "nothing"
Task(x) == x[2] = "task"
Watchdog == <<base, "irq">>

Rests(program) == {SubSeq(program, i, Len(program)) : i \in 1 .. Len(program)}

PidFree  == pid_force_run = 0 /\ last_p_id = 0
IrqsFree == irq_enabled /\ \A i \in 1 .. NIrqs : depth[i] = 0
Free     == PidFree /\ IrqsFree
NoTimers == timer["reset"] = "INACTIVE" /\ timer["kill"] = "INACTIVE"

OneAtATime ==
  /\ \A x \in Contexts : Task(x) /\ Busy(x) => serving # "none" /\ todo[x] \in Rests(Whole(serving))
  /\ \A x, y \in Contexts : Task(x) /\ Busy(x) /\ Task(y) /\ Busy(y) => x = y
  /\ \A x \in Contexts : ~Task(x) /\ Busy(x) =>
       x = Watchdog /\ \E t \in Timers : timer[t] = "CALLBACK" /\ todo[x] \in Rests(Handler(t))
  /\ \A t \in Timers : timer[t] = "CALLBACK" => Busy(Watchdog)
  /\ timer["reset"] # "INACTIVE" => timer["kill"] = "ENQUEUED"

InsideCalls ==
  \A x \in Contexts : ~Idle(x) =>
    \/ Due(x) \in {"irq_enable", "save_enable"} /\ arg[x] = 0
    \/ Due(x) = "save_disable" /\ arg[x] # 0 /\ last_enable # "DISABLE"

IrqLoops ==
  /\ \A x \in Contexts : n[x] # 0 => Due(x) \in {"irq_disable", "irq_enable"}
  /\ \A x \in Contexts : Due(x) = "irq_enable" => \A i \in 1 .. n[x] : depth[i] = 0
  /\ (\A x \in Contexts : Due(x) # "irq_disable") => \A i \in 1 .. NIrqs :
       IF irq_enabled THEN depth[i] = 0
       ELSE depth[i] = 1 \/ (\E x \in Contexts : Due(x) = "irq_enable" /\ i <= n[x])

Starting(x) ==
  \/ Due(x) \in {"start_reset", "irq_disable", "force"}
  \/ Due(x) = "save_disable" /\ last_enable # "DISABLE"
StartsFree ==
  /\ \A x \in Contexts : Task(x) /\ serving = "start" /\ last_enable = "DISABLE" /\ Busy(x) =>
       Due(x) = "save_disable"
  /\ last_enable # "DISABLE" => (NoTimers /\ Free) \/ \E x \in Contexts : Starting(x)
StartBacked(x) ==
  /\ timer["kill"] = "ENQUEUED" /\ base = x[1]
  /\ Due(x) \in {"start_reset", "irq_disable"} =>
       /\ irq_enabled /\ n[Watchdog] = 0
       /\ \A i \in 1 .. NIrqs : depth[i] = IF i <= n[x] THEN 1 ELSE 0
  /\ Due(x) # "save_disable" \/ ~Idle(x) =>
       /\ last_p_id = 0
       /\ pid_force_run = IF pc[x] = "save" THEN arg[x] ELSE 0
       /\ pc[Watchdog] \in {"idle", "test", "save"}

Released(x) ==
  \/ Task(x) /\ serving \in {"read", "rmmod"} /\ Due(x) # "release"
  \/ Due(x) = "save_enable"
  \/ ~Task(x) /\ timer["kill"] = "CALLBACK" /\ Due(x) # "release"
Enabled(x) ==
  \/ Task(x) /\ serving \in {"read", "rmmod"} /\ Due(x) \in {"cancel_reset", "cancel_kill", "unload"}
  \/ Task(x) /\ serving = "stop" /\ Due(x) \in {"release", "save_enable"}
  \/ Due(x) = "end_kill"
Cancelled(x) ==
  \/ Task(x) /\ serving = "stop" /\ Due(x) \in {"irq_enable", "release", "save_enable"}
  \/ Due(x) = "unload"
Undone(x) ==
  /\ Released(x) /\ Idle(x) => PidFree
  /\ Enabled(x) => IrqsFree
  /\ Task(x) /\ Due(x) = "cancel_kill" => timer["reset"] = "INACTIVE"
  /\ Cancelled(x) => NoTimers

KillIsLast ==
  timer["kill"] = "INACTIVE" =>
    \/ Free
    \/ serving = "stop" /\ \E x \in Contexts :
         Task(x) /\ (Due(x) \in {"irq_enable", "release"} \/ (Due(x) = "save_enable" /\ ~Idle(x)))

SmpInv ==
  /\ SmpTypeOK /\ OneAtATime /\ InsideCalls /\ IrqLoops /\ StartsFree /\ KillIsLast
  /\ \A x \in Contexts : Busy(x) => Undone(x) /\ (Starting(x) => StartBacked(x))
  /\ LockOwned /\ ResetsConverge /\ Settled
=============================================================================
