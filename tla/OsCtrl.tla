------------------------------- MODULE OsCtrl -------------------------------
(***************************************************************************)
(* The os_ctrl kernel module (km_os_ctrl/os_ctrl.c): the handlers of       *)
(* /proc/os_ctrl, its three high-resolution timers, insmod and rmmod.      *)
(* A handler runs as one step here, so that what is checked is the         *)
(* protocol of commands and timers; OsCtrlSmp splits the handlers into the *)
(* statements between which an interrupt or another processor can come.    *)
(*                                                                         *)
(* Names follow the C source.  The static variables of functions are       *)
(* last_enable (set_os) and last_cmd (on_read_handler).  d_csw stands for  *)
(* d_nvcsw and d_nivcsw, which the code treats alike, and csw for the two  *)
(* counters of the scheduler; t_L1_inv tells whether the L1 handler has    *)
(* stamped its start and end since they were last zeroed.                  *)
(***************************************************************************)
EXTENDS Integers

CONSTANTS
  Pids,       \* process ids
  Bursts,     \* by how much a context switch counter can grow at a time
  MaxCsw      \* bound on a context switch counter

ASSUME PidsAssumption   == Pids # {} /\ Pids \subseteq Nat \ {0}
ASSUME BurstsAssumption == Bursts \subseteq Nat /\ MaxCsw \in Nat

VARIABLES
  loaded,         \* the module is inserted
  p_id,           \* pid of the last well-formed command
  cmd,            \* its command
  prf_ready,      \* a profile is ready to be read
  irq_enabled,    \* the device interrupts are enabled
  last_enable,    \* last request served by set_os
  last_cmd,       \* cmd when the file was last read
  d_csw,          \* counter at the start, then the difference at the stop
  t_L1_inv,       \* the L1 handler has left its two time stamps
  timer,          \* state of each timer
  pid_force_run,  \* sched.c: pid the scheduler is locked to
  last_p_id,      \* sched.c: last argument of set_pid_force_run
  alive,          \* processes find_vpid() finds
  csw,            \* context switches of each process so far
  killed,         \* processes a SIGKILL was sent to
  reply           \* what the last read returned

statics == <<p_id, cmd, prf_ready, irq_enabled, last_enable, last_cmd, d_csw,
             t_L1_inv>>
sched   == <<pid_force_run, last_p_id>>
procs   == <<alive, csw, killed>>
vars    == <<loaded, statics, timer, sched, procs, reply>>

Timers   == {"L1", "kill", "reset"}
Commands == {"DISABLE", "ENABLE", "NONE", "UNKNOWN"}
Byte(n)  == n % 256

TypeOK ==
  /\ loaded \in BOOLEAN
  /\ p_id \in Pids \cup {0}
  /\ cmd \in Commands
  /\ prf_ready \in BOOLEAN
  /\ irq_enabled \in BOOLEAN
  /\ last_enable \in {"NEVER", "DISABLE", "ENABLE"}
  /\ last_cmd \in Commands
  /\ d_csw \in Nat
  /\ t_L1_inv \in BOOLEAN
  /\ timer \in [Timers -> {"INACTIVE", "ENQUEUED"}]
  /\ pid_force_run \in Pids \cup {0}
  /\ last_p_id \in Pids \cup {0}
  /\ alive \in SUBSET Pids
  /\ csw \in [Pids -> Nat]
  /\ killed \in SUBSET Pids
  /\ reply \in [ready : BOOLEAN, l1 : BOOLEAN, csw : Nat]

NoReply == [ready |-> FALSE, l1 |-> FALSE, csw |-> 0]

Init ==
  /\ loaded = FALSE
  /\ p_id = 0 /\ cmd = "NONE" /\ prf_ready = FALSE /\ irq_enabled = TRUE
  /\ last_enable = "NEVER" /\ last_cmd = "NONE" /\ d_csw = 0 /\ t_L1_inv = FALSE
  /\ timer = [t \in Timers |-> "INACTIVE"]
  /\ pid_force_run = 0 /\ last_p_id = 0
  /\ alive = Pids /\ csw = [p \in Pids |-> 0] /\ killed = {}
  /\ reply = NoReply

-----------------------------------------------------------------------------
(* set_pid_force_run(p), uninterrupted (see ForceRun).                     *)
SetPidForceRun(p) ==
  /\ pid_force_run' = IF p # last_p_id THEN p ELSE pid_force_run
  /\ last_p_id' = p

IrqEnable  == irq_enabled' = TRUE
IrqDisable == irq_enabled' = FALSE

ResetCntrs ==
  /\ cmd' = "NONE"
  /\ d_csw' = 0
  /\ t_L1_inv' = FALSE

(* hrtimer_cancel() and hrtimer_start() on the timer states tm.            *)
Cancelled(tm, S) == [t \in Timers |-> IF t \in S THEN "INACTIVE" ELSE tm[t]]
Started(tm, S)   == [t \in Timers |-> IF t \in S THEN "ENQUEUED" ELSE tm[t]]

SetOsKeepsTimers(p, enable, tm) == \* mutant: an enable request cancels no timer
  /\ last_enable' = enable
  /\ timer' = IF enable = last_enable \/ enable = "ENABLE"
              THEN tm ELSE Started(tm, {"kill", "reset"})
  /\ irq_enabled' = IF enable = last_enable THEN irq_enabled ELSE enable = "ENABLE"
  /\ IF enable = last_enable THEN UNCHANGED sched
     ELSE SetPidForceRun(IF enable = "ENABLE" THEN 0 ELSE p)

SetOsCancelsLast(p, enable, tm) == \* mutant: the watchdogs are cancelled after they were started
  /\ last_enable' = enable
  /\ timer' = IF enable = last_enable THEN tm ELSE Cancelled(tm, {"kill", "reset"})
  /\ irq_enabled' = IF enable = last_enable THEN irq_enabled ELSE enable = "ENABLE"
  /\ IF enable = last_enable THEN UNCHANGED sched
     ELSE SetPidForceRun(IF enable = "ENABLE" THEN 0 ELSE p)

SetOsForgetsEnable(p, enable, tm) == \* mutant: last_enable is saved on a disable request only
  /\ last_enable' = IF enable = "DISABLE" THEN enable ELSE last_enable
  /\ timer' = IF enable = last_enable THEN tm
              ELSE IF enable = "ENABLE" THEN Cancelled(tm, {"kill", "reset"})
              ELSE Started(tm, {"kill", "reset"})
  /\ irq_enabled' = IF enable = last_enable THEN irq_enabled ELSE enable = "ENABLE"
  /\ IF enable = last_enable THEN UNCHANGED sched
     ELSE SetPidForceRun(IF enable = "ENABLE" THEN 0 ELSE p)

(* set_os(): acts only when the request differs from the last one.         *)
SetOs(p, enable, tm) ==
  /\ last_enable' = enable
  /\ \/ /\ enable = last_enable
        /\ timer' = tm
        /\ UNCHANGED <<irq_enabled, sched>>
     \/ /\ enable # last_enable
        /\ enable = "DISABLE"
        /\ timer' = Started(tm, {"kill", "reset"})
        /\ IrqDisable
        /\ SetPidForceRun(p)
     \/ /\ enable # last_enable
        /\ enable = "ENABLE"
        /\ timer' = Cancelled(tm, {"kill", "reset"})
        /\ IrqEnable
        /\ SetPidForceRun(0)

-----------------------------------------------------------------------------
(* on_written_handler().  Every write first clears prf_ready.              *)

(* copy_from_user() fails: nothing is parsed, -ENOMEM is returned.         *)
WriteFault ==
  /\ loaded
  /\ prf_ready' = FALSE
  /\ UNCHANGED <<loaded, p_id, cmd, irq_enabled, last_enable, last_cmd, d_csw,
                 t_L1_inv, timer, sched, procs, reply>>

(* A length that is neither a start nor a stop command.                    *)
WriteGarbage ==
  /\ loaded
  /\ prf_ready' = FALSE
  /\ ResetCntrs
  /\ UNCHANGED <<loaded, p_id, irq_enabled, last_enable, last_cmd, timer, sched,
                 procs, reply>>

(* A well-formed command whose pid names no task.                          *)
WriteNoTask(p) ==
  /\ loaded
  /\ p \notin alive
  /\ prf_ready' = FALSE
  /\ p_id' = p
  /\ IrqEnable
  /\ ResetCntrs
  /\ UNCHANGED <<loaded, last_enable, last_cmd, timer, sched, procs, reply>>

(* OS_CTRL_TASK_CMD_DISABLE_OS for a live task; delayed says that a        *)
(* non-zero L1 delay came with it.                                         *)
WriteDisable(p, delayed) ==
  /\ loaded
  /\ p \in alive
  /\ prf_ready' = FALSE
  /\ p_id' = p
  /\ cmd' = "DISABLE"
  /\ SetOs(p, "DISABLE",
           IF delayed THEN Started(timer, {"L1"}) ELSE Cancelled(timer, {"L1"}))
  /\ d_csw' = csw[p]
  /\ t_L1_inv' = FALSE
  /\ UNCHANGED <<loaded, last_cmd, procs, reply>>

WriteEnableRawDiff(p) == \* mutant: the difference is taken unguarded
  /\ loaded
  /\ p \in alive
  /\ prf_ready' = TRUE
  /\ p_id' = p
  /\ cmd' = "ENABLE"
  /\ SetOs(p, "ENABLE", Cancelled(timer, {"L1"}))
  /\ d_csw' = csw[p] - d_csw
  /\ UNCHANGED <<loaded, last_cmd, t_L1_inv, procs, reply>>

WriteEnableKeepsL1(p) == \* mutant: the L1 timer survives the stop
  /\ loaded
  /\ p \in alive
  /\ prf_ready' = TRUE
  /\ p_id' = p
  /\ cmd' = "ENABLE"
  /\ SetOs(p, "ENABLE", timer)
  /\ d_csw' = IF csw[p] > d_csw THEN csw[p] - d_csw ELSE 0
  /\ UNCHANGED <<loaded, last_cmd, t_L1_inv, procs, reply>>

(* OS_CTRL_TASK_CMD_ENABLE_OS for a live task.                             *)
WriteEnable(p) ==
  /\ loaded
  /\ p \in alive
  /\ prf_ready' = TRUE
  /\ p_id' = p
  /\ cmd' = "ENABLE"
  /\ SetOs(p, "ENABLE", Cancelled(timer, {"L1"}))
  /\ d_csw' = IF csw[p] > d_csw THEN csw[p] - d_csw ELSE 0
  /\ UNCHANGED <<loaded, last_cmd, t_L1_inv, procs, reply>>

(* Any other command byte, 0xFF (NONE) included, for a live task: only the *)
(* L1 timer is cancelled.                                                  *)
WriteUnknown(p) ==
  /\ loaded
  /\ p \in alive
  /\ prf_ready' = FALSE
  /\ p_id' = p
  /\ cmd' \in {"NONE", "UNKNOWN"}
  /\ timer' = Cancelled(timer, {"L1"})
  /\ UNCHANGED <<loaded, irq_enabled, last_enable, last_cmd, d_csw, t_L1_inv,
                 sched, procs, reply>>

ReadSavesOldCmd(atStart) == \* mutant: the command is saved before the counters are reset
  /\ loaded
  /\ SetPidForceRun(0)
  /\ IrqEnable
  /\ timer' = Cancelled(timer, Timers)
  /\ IF atStart /\ prf_ready /\ cmd # last_cmd
     THEN ResetCntrs /\ reply' = [ready |-> TRUE, l1 |-> t_L1_inv, csw |-> Byte(d_csw)]
     ELSE reply' = NoReply /\ UNCHANGED <<cmd, d_csw, t_L1_inv>>
  /\ last_cmd' = cmd
  /\ UNCHANGED <<loaded, p_id, prf_ready, last_enable, procs>>

ReadKeepsReset(atStart) == \* mutant: the scheduler reset timer is not cancelled
  /\ loaded
  /\ SetPidForceRun(0)
  /\ IrqEnable
  /\ timer' = Cancelled(timer, {"L1", "kill"})
  /\ IF atStart /\ prf_ready /\ cmd # last_cmd
     THEN ResetCntrs /\ reply' = [ready |-> TRUE, l1 |-> t_L1_inv, csw |-> Byte(d_csw)]
     ELSE reply' = NoReply /\ UNCHANGED <<cmd, d_csw, t_L1_inv>>
  /\ last_cmd' = cmd'
  /\ UNCHANGED <<loaded, p_id, prf_ready, last_enable, procs>>

(* on_read_handler(); atStart is offset <= 0.                              *)
Read(atStart) ==
  /\ loaded
  /\ SetPidForceRun(0)
  /\ IrqEnable
  /\ timer' = Cancelled(timer, Timers)
  /\ \/ /\ atStart /\ prf_ready /\ cmd # last_cmd
        /\ reply' = [ready |-> TRUE, l1 |-> t_L1_inv, csw |-> Byte(d_csw)]
        /\ ResetCntrs
     \/ /\ ~(atStart /\ prf_ready /\ cmd # last_cmd)
        /\ reply' = NoReply
        /\ UNCHANGED <<cmd, d_csw, t_L1_inv>>
  /\ last_cmd' = cmd'
  /\ UNCHANGED <<loaded, p_id, prf_ready, last_enable, procs>>

-----------------------------------------------------------------------------
(* Timer handlers: HRTIMER_NORESTART.                                      *)
L1Fires ==
  /\ timer["L1"] = "ENQUEUED"
  /\ timer' = Cancelled(timer, {"L1"})
  /\ t_L1_inv' = TRUE
  /\ UNCHANGED <<loaded, p_id, cmd, prf_ready, irq_enabled, last_enable,
                 last_cmd, d_csw, sched, procs, reply>>

ResetFiresForgetsIrqs == \* mutant: the interrupts stay off
  /\ timer["reset"] = "ENQUEUED"
  /\ timer' = Cancelled(timer, {"reset"})
  /\ SetPidForceRun(0)
  /\ UNCHANGED <<loaded, p_id, cmd, prf_ready, irq_enabled, last_enable, last_cmd,
                 d_csw, t_L1_inv, procs, reply>>

ResetFires ==
  /\ timer["reset"] = "ENQUEUED"
  /\ timer' = Cancelled(timer, {"reset"})
  /\ SetPidForceRun(0)
  /\ IrqEnable
  /\ UNCHANGED <<loaded, p_id, cmd, prf_ready, last_enable, last_cmd, d_csw,
                 t_L1_inv, procs, reply>>

(* The two watchdogs are started together, 10 s and 900 us ahead, so the   *)
(* kill timer never expires while the other one is pending.                *)
KillFires ==
  /\ timer["kill"] = "ENQUEUED"
  /\ timer["reset"] = "INACTIVE"
  /\ timer' = Cancelled(timer, {"kill", "L1"})
  /\ SetPidForceRun(0)
  /\ IrqEnable
  /\ killed' = IF p_id \in alive THEN killed \cup {p_id} ELSE killed
  /\ UNCHANGED <<loaded, p_id, cmd, prf_ready, last_enable, last_cmd, d_csw,
                 t_L1_inv, alive, csw, reply>>

-----------------------------------------------------------------------------
(* init_module(): a fresh copy of the static variables; create_proc_entry()*)
(* may fail, and the module is then not loaded.                            *)
Insmod(created) ==
  /\ ~loaded
  /\ loaded' = created
  /\ p_id' = 0 /\ prf_ready' = FALSE /\ irq_enabled' = TRUE
  /\ last_enable' = "NEVER" /\ last_cmd' = "NONE"
  /\ ResetCntrs
  /\ timer' = [t \in Timers |-> "INACTIVE"]
  /\ SetPidForceRun(0)
  /\ UNCHANGED <<procs, reply>>

(* cleanup_module().                                                       *)
Rmmod ==
  /\ loaded
  /\ loaded' = FALSE
  /\ SetPidForceRun(0)
  /\ IrqEnable
  /\ timer' = Cancelled(timer, Timers)
  /\ UNCHANGED <<p_id, cmd, prf_ready, last_enable, last_cmd, d_csw, t_L1_inv,
                 procs, reply>>

-----------------------------------------------------------------------------
(* The processes, as far as the module sees them.                          *)
Switch(p) ==
  /\ p \in alive
  /\ \E k \in Bursts : /\ csw[p] + k <= MaxCsw
                       /\ csw' = [csw EXCEPT ![p] = @ + k]
  /\ UNCHANGED <<loaded, statics, timer, sched, alive, killed, reply>>

Exit(p) ==
  /\ p \in alive
  /\ alive' = alive \ {p}
  /\ killed' = killed \ {p}
  /\ UNCHANGED <<loaded, statics, timer, sched, csw, reply>>

Fork(p) ==
  /\ p \notin alive
  /\ alive' = alive \cup {p}
  /\ csw' = [csw EXCEPT ![p] = 0]
  /\ UNCHANGED <<loaded, statics, timer, sched, killed, reply>>

Write(p) ==
  \/ WriteNoTask(p) \/ WriteEnable(p) \/ WriteUnknown(p)
  \/ \E delayed \in BOOLEAN : WriteDisable(p, delayed)

Next ==
  \/ \E created \in BOOLEAN : Insmod(created)
  \/ Rmmod
  \/ WriteFault \/ WriteGarbage
  \/ \E p \in Pids : Write(p) \/ Switch(p) \/ Exit(p) \/ Fork(p)
  \/ \E atStart \in BOOLEAN : Read(atStart)
  \/ L1Fires \/ ResetFires \/ KillFires

(* A started timer expires and its interrupt is delivered.                 *)
Fairness == WF_vars(L1Fires) /\ WF_vars(ResetFires) /\ WF_vars(KillFires)

Spec == Init /\ [][Next]_vars /\ Fairness

-----------------------------------------------------------------------------
(* A process that has the machine, or device interrupts that are off, are  *)
(* always backed by both watchdogs.                                        *)
Watched ==
  pid_force_run # 0 \/ ~irq_enabled =>
    timer["reset"] = "ENQUEUED" /\ timer["kill"] = "ENQUEUED"

(* A pending watchdog implies that the last request was to disable the OS, *)
(* hence that the next stop command is not taken for a repetition.         *)
PendingMeansDisabled ==
  timer["reset"] = "ENQUEUED" \/ timer["kill"] = "ENQUEUED" =>
    last_enable = "DISABLE"

(* A ready profile is the one of the last stop command and is delivered at *)
(* most once: after the delivery the two command variables agree.          *)
ProfileOnce ==
  prf_ready => cmd = "ENABLE" \/ (cmd = "NONE" /\ last_cmd = "NONE")

(* What holds between any two handlers.                                    *)
Consistent == TypeOK /\ Watched /\ PendingMeansDisabled /\ ProfileOnce

(* A stop command for a live task leaves the scheduler unlocked, the       *)
(* interrupts on and no timer pending, whatever command, read or timer     *)
(* came before it.                                                         *)
StopRestores ==
  [][prf_ready' /\ ~prf_ready =>
       /\ pid_force_run' = 0 /\ irq_enabled'
       /\ timer' = [t \in Timers |-> "INACTIVE"]]_vars

(* Protection as the module promises it.                                   *)
Promise == INSTANCE Protection WITH
             owner   <- pid_force_run,
             silent  <- ~irq_enabled,
             watched <- timer["reset"] = "ENQUEUED"
Protected == Promise!Spec

(* A locked scheduler is unlocked again, a silenced interrupt comes back,  *)
(* and a started kill timer runs out or is cancelled.                      *)
Released ==
  /\ pid_force_run # 0 ~> pid_force_run = 0
  /\ ~irq_enabled ~> irq_enabled
  /\ timer["kill"] = "ENQUEUED" ~> timer["kill"] = "INACTIVE"

-----------------------------------------------------------------------------
(* Claims of comments and documents that the code does not keep.           *)

(* os_ctrl.c 275, README.TXT 31: a start command disables the OS for its   *)
(* pid.  Asked only of a command that follows the end of the process named *)
(* before, with the scheduler unlocked, so of one user after another.      *)
StartProtects ==
  [][/\ cmd' = "DISABLE" /\ p_id' # p_id
     /\ p_id \notin alive /\ pid_force_run = 0
     => pid_force_run' = p_id']_vars
=============================================================================
