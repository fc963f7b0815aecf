--------------------------- MODULE LibPrf_proofs ---------------------------
(***************************************************************************)
(* Theorems about OsCtrl, for any processes and any counter bound, and     *)
(* about the profiling library over it, for any users, pids and scales of  *)
(* time.                                                                   *)
(*                                                                         *)
(* Watched is not inductive: a stop command takes a repetition for a no-op,*)
(* so that it is harmless only because a pending watchdog implies that the *)
(* last request was a disable (PendingMeansDisabled); and a reset takes    *)
(* effect only because the two copies of the locked pid agree (OneCopy).   *)
(* LibInv is inductive relative to IInv: a step of libprf is a step of     *)
(* os_ctrl or leaves it alone (LibStep).                                   *)
(***************************************************************************)
EXTENDS LibPrf, TLAPS

(* The test of set_pid_force_run() compares with the value in force.       *)
OneCopy == last_p_id = pid_force_run

(* The scheduler is locked exactly while the reset timer is pending.       *)
LockedWhilePending == pid_force_run # 0 <=> timer["reset"] = "ENQUEUED"

IInv == /\ TypeOK /\ Watched /\ PendingMeansDisabled /\ ProfileOnce
        /\ OneCopy /\ LockedWhilePending

-----------------------------------------------------------------------------
(* Cancelling and starting keep a function on Timers with the two states.  *)
LEMMA TimerOps ==
  ASSUME NEW tm \in [Timers -> {"INACTIVE", "ENQUEUED"}], NEW S \in SUBSET Timers
  PROVE  /\ Cancelled(tm, S) \in [Timers -> {"INACTIVE", "ENQUEUED"}]
         /\ Started(tm, S) \in [Timers -> {"INACTIVE", "ENQUEUED"}]
         /\ \A t \in S : Cancelled(tm, S)[t] = "INACTIVE" /\ Started(tm, S)[t] = "ENQUEUED"
         /\ \A t \in Timers \ S : Cancelled(tm, S)[t] = tm[t] /\ Started(tm, S)[t] = tm[t]
BY DEF Cancelled, Started

(* The initial state satisfies the invariant.                              *)
LEMMA InitIInv == Init => IInv
<1>. SUFFICES ASSUME Init PROVE IInv
  OBVIOUS
<1>1. TypeOK
  <2>1. reply \in [ready : BOOLEAN, l1 : BOOLEAN, csw : Nat]
    BY DEF Init, NoReply
  <2>2. csw \in [Pids -> Nat] /\ timer \in [Timers -> {"INACTIVE", "ENQUEUED"}]
    BY DEF Init
  <2>. QED BY <2>1, <2>2 DEF Init, TypeOK, Commands
<1>2. Watched /\ PendingMeansDisabled /\ ProfileOnce /\ OneCopy /\ LockedWhilePending
  BY DEF Init, Watched, PendingMeansDisabled, ProfileOnce, OneCopy,
         LockedWhilePending, Timers
<1>. QED BY <1>1, <1>2 DEF IInv

(* set_os() on timer states that differ from the current ones in L1 only.  *)
LEMMA SetOsStep ==
  ASSUME IInv, NEW p \in Pids, NEW e \in {"ENABLE", "DISABLE"},
         NEW tm \in [Timers -> {"INACTIVE", "ENQUEUED"}],
         tm["kill"] = timer["kill"], tm["reset"] = timer["reset"],
         SetOs(p, e, tm)
  PROVE  /\ timer' \in [Timers -> {"INACTIVE", "ENQUEUED"}]
         /\ timer'["L1"] = tm["L1"]
         /\ irq_enabled' \in BOOLEAN
         /\ last_enable' = e
         /\ pid_force_run' \in Pids \cup {0} /\ last_p_id' \in Pids \cup {0}
         /\ Watched' /\ PendingMeansDisabled' /\ OneCopy' /\ LockedWhilePending'
<1>1. CASE e = last_enable
  BY <1>1 DEF SetOs, IInv, TypeOK, Watched, PendingMeansDisabled, OneCopy,
              LockedWhilePending, sched, Timers
<1>2. CASE e # last_enable /\ e = "DISABLE"
  <2>1. pid_force_run = 0 /\ last_p_id = 0 /\ p # 0
    BY <1>2, PidsAssumption DEF IInv, TypeOK, PendingMeansDisabled, OneCopy,
                                LockedWhilePending, Timers
  <2>2. pid_force_run' = p /\ last_p_id' = p
    BY <1>2, <2>1 DEF SetOs, SetPidForceRun
  <2>3. /\ timer' = Started(tm, {"kill", "reset"})
        /\ timer'["kill"] = "ENQUEUED" /\ timer'["reset"] = "ENQUEUED"
        /\ timer'["L1"] = tm["L1"]
    BY <1>2 DEF SetOs, Started, Timers
  <2>. QED
    BY <1>2, <2>1, <2>2, <2>3, TimerOps
    DEF SetOs, Watched, PendingMeansDisabled, OneCopy, LockedWhilePending,
        IrqDisable, Timers
<1>3. CASE e # last_enable /\ e = "ENABLE"
  <2>1. pid_force_run' = 0 /\ last_p_id' = 0
    BY <1>3 DEF SetOs, SetPidForceRun, IInv, OneCopy
  <2>2. /\ timer' = Cancelled(tm, {"kill", "reset"})
        /\ timer'["kill"] = "INACTIVE" /\ timer'["reset"] = "INACTIVE"
        /\ timer'["L1"] = tm["L1"]
    BY <1>3 DEF SetOs, Cancelled, Timers
  <2>. QED
    BY <1>3, <2>1, <2>2, TimerOps
    DEF SetOs, Watched, PendingMeansDisabled, OneCopy, LockedWhilePending,
        IrqEnable, Timers, IInv, TypeOK
<1>. QED BY <1>1, <1>2, <1>3

(* A reset of the scheduler makes both copies zero.                        *)
LEMMA ResetStep ==
  ASSUME OneCopy, SetPidForceRun(0)
  PROVE  pid_force_run' = 0 /\ last_p_id' = 0
BY DEF OneCopy, SetPidForceRun

-----------------------------------------------------------------------------
(* Every step preserves the invariant, one lemma for each group of actions.*)
LEMMA FailingWrites ==
  ASSUME IInv, NEW p \in Pids, WriteFault \/ WriteGarbage \/ WriteNoTask(p)
  PROVE  IInv'
<1>1. CASE WriteFault
  BY <1>1 DEF WriteFault, IInv, TypeOK, Watched, PendingMeansDisabled, ProfileOnce,
              OneCopy, LockedWhilePending, sched, procs
<1>2. CASE WriteGarbage
  BY <1>2 DEF WriteGarbage, ResetCntrs, IInv, TypeOK, Watched, PendingMeansDisabled,
              ProfileOnce, OneCopy, LockedWhilePending, sched, procs, Commands
<1>3. CASE WriteNoTask(p)
  BY <1>3 DEF WriteNoTask, ResetCntrs, IrqEnable, IInv, TypeOK, Watched,
              PendingMeansDisabled, ProfileOnce, OneCopy, LockedWhilePending, sched,
              procs, Commands
<1>. QED BY <1>1, <1>2, <1>3

LEMMA StartCommand ==
  ASSUME IInv, NEW p \in Pids, NEW delayed \in BOOLEAN, WriteDisable(p, delayed)
  PROVE  IInv'
<1>. DEFINE tm == IF delayed THEN Started(timer, {"L1"}) ELSE Cancelled(timer, {"L1"})
<1>1. /\ tm \in [Timers -> {"INACTIVE", "ENQUEUED"}]
      /\ tm["kill"] = timer["kill"] /\ tm["reset"] = timer["reset"]
  BY TimerOps DEF IInv, TypeOK, Timers
<1>2. SetOs(p, "DISABLE", tm)
  BY DEF WriteDisable
<1>. HIDE DEF tm
<1>3. /\ timer' \in [Timers -> {"INACTIVE", "ENQUEUED"}]
      /\ irq_enabled' \in BOOLEAN /\ last_enable' = "DISABLE"
      /\ pid_force_run' \in Pids \cup {0} /\ last_p_id' \in Pids \cup {0}
      /\ Watched' /\ PendingMeansDisabled' /\ OneCopy' /\ LockedWhilePending'
  BY <1>1, <1>2, SetOsStep
<1>4. d_csw' \in Nat
  BY DEF WriteDisable, IInv, TypeOK
<1>5. TypeOK'
  BY <1>3, <1>4 DEF WriteDisable, IInv, TypeOK, procs, Commands
<1>6. ProfileOnce'
  BY DEF WriteDisable, ProfileOnce
<1>. QED BY <1>3, <1>5, <1>6 DEF IInv

LEMMA StopCommand ==
  ASSUME IInv, NEW p \in Pids, WriteEnable(p)
  PROVE  IInv'
<1>1. /\ Cancelled(timer, {"L1"}) \in [Timers -> {"INACTIVE", "ENQUEUED"}]
      /\ Cancelled(timer, {"L1"})["kill"] = timer["kill"]
      /\ Cancelled(timer, {"L1"})["reset"] = timer["reset"]
  BY TimerOps DEF IInv, TypeOK, Timers
<1>2. SetOs(p, "ENABLE", Cancelled(timer, {"L1"}))
  BY DEF WriteEnable
<1>3. /\ timer' \in [Timers -> {"INACTIVE", "ENQUEUED"}]
      /\ irq_enabled' \in BOOLEAN /\ last_enable' = "ENABLE"
      /\ pid_force_run' \in Pids \cup {0} /\ last_p_id' \in Pids \cup {0}
      /\ Watched' /\ PendingMeansDisabled' /\ OneCopy' /\ LockedWhilePending'
  BY <1>1, <1>2, SetOsStep
<1>4. d_csw' \in Nat
  BY DEF WriteEnable, IInv, TypeOK
<1>5. TypeOK'
  BY <1>3, <1>4 DEF WriteEnable, IInv, TypeOK, procs, Commands
<1>6. ProfileOnce'
  BY DEF WriteEnable, ProfileOnce
<1>. QED BY <1>3, <1>5, <1>6 DEF IInv

LEMMA UnknownCommand ==
  ASSUME IInv, NEW p \in Pids, WriteUnknown(p)
  PROVE  IInv'
<1>1. /\ timer' \in [Timers -> {"INACTIVE", "ENQUEUED"}]
      /\ timer'["kill"] = timer["kill"] /\ timer'["reset"] = timer["reset"]
  BY TimerOps DEF WriteUnknown, IInv, TypeOK, Timers
<1>. QED
  BY <1>1, ZenonT(30) DEF WriteUnknown, IInv, TypeOK, Watched, PendingMeansDisabled, ProfileOnce,
              OneCopy, LockedWhilePending, sched, procs, Commands

(* A read, the unloading and the loading stop every timer and the lock.    *)
LEMMA Quiescing ==
  ASSUME IInv, pid_force_run' = 0, last_p_id' = 0, irq_enabled' = TRUE,
         \/ timer' = Cancelled(timer, Timers)
         \/ timer' = [t \in Timers |-> "INACTIVE"]
  PROVE  /\ timer' = [t \in Timers |-> "INACTIVE"]
         /\ timer' \in [Timers -> {"INACTIVE", "ENQUEUED"}]
         /\ Watched' /\ PendingMeansDisabled' /\ OneCopy' /\ LockedWhilePending'
<1>1. timer' = [t \in Timers |-> "INACTIVE"]
  BY DEF Cancelled
<1>. QED
  BY <1>1 DEF Watched, PendingMeansDisabled, OneCopy, LockedWhilePending, Timers

LEMMA Reading ==
  ASSUME IInv, NEW atStart \in BOOLEAN, Read(atStart)
  PROVE  IInv'
<1>1. pid_force_run' = 0 /\ last_p_id' = 0
  BY ResetStep DEF Read, IInv
<1>2. /\ timer' \in [Timers -> {"INACTIVE", "ENQUEUED"}]
      /\ Watched' /\ PendingMeansDisabled' /\ OneCopy' /\ LockedWhilePending'
  BY <1>1, Quiescing DEF Read, IrqEnable
<1>3. CASE atStart /\ prf_ready /\ cmd # last_cmd
  <2>1. /\ cmd' = "NONE" /\ last_cmd' = "NONE" /\ d_csw' = 0 /\ t_L1_inv' = FALSE
        /\ reply' = [ready |-> TRUE, l1 |-> t_L1_inv, csw |-> Byte(d_csw)]
    BY <1>3 DEF Read, ResetCntrs
  <2>2. Byte(d_csw) \in Nat
    BY DEF Byte, IInv, TypeOK
  <2>3. reply' \in [ready : BOOLEAN, l1 : BOOLEAN, csw : Nat]
    BY <2>1, <2>2 DEF IInv, TypeOK
  <2>4. TypeOK'
    BY <1>1, <1>2, <2>1, <2>3 DEF Read, IrqEnable, IInv, TypeOK, procs, Commands
  <2>5. ProfileOnce'
    BY <2>1 DEF ProfileOnce
  <2>. QED BY <1>2, <2>4, <2>5 DEF IInv
<1>4. CASE ~(atStart /\ prf_ready /\ cmd # last_cmd)
  <2>1. /\ cmd' = cmd /\ last_cmd' = cmd /\ d_csw' = d_csw /\ t_L1_inv' = t_L1_inv
        /\ reply' = NoReply
    BY <1>4 DEF Read
  <2>2. reply' \in [ready : BOOLEAN, l1 : BOOLEAN, csw : Nat]
    BY <2>1 DEF NoReply
  <2>3. TypeOK'
    BY <1>1, <1>2, <2>1, <2>2 DEF Read, IrqEnable, IInv, TypeOK, procs, Commands
  <2>4. ProfileOnce'
    BY <2>1 DEF ProfileOnce, IInv, Read
  <2>. QED BY <1>2, <2>3, <2>4 DEF IInv
<1>. QED BY <1>3, <1>4

LEMMA TimerHandlers ==
  ASSUME IInv, L1Fires \/ ResetFires \/ KillFires
  PROVE  IInv'
<1>1. CASE L1Fires
  <2>1. /\ timer' \in [Timers -> {"INACTIVE", "ENQUEUED"}]
        /\ timer'["kill"] = timer["kill"] /\ timer'["reset"] = timer["reset"]
    BY <1>1, TimerOps DEF L1Fires, IInv, TypeOK, Timers
  <2>. QED
    BY <1>1, <2>1 DEF L1Fires, IInv, TypeOK, Watched, PendingMeansDisabled,
                      ProfileOnce, OneCopy, LockedWhilePending, sched, procs
<1>2. CASE ResetFires
  <2>1. /\ timer' \in [Timers -> {"INACTIVE", "ENQUEUED"}]
        /\ timer'["kill"] = timer["kill"] /\ timer'["reset"] = "INACTIVE"
    BY <1>2, TimerOps DEF ResetFires, IInv, TypeOK, Timers
  <2>2. pid_force_run' = 0 /\ last_p_id' = 0
    BY <1>2, ResetStep DEF ResetFires, IInv
  <2>. QED
    BY <1>2, <2>1, <2>2 DEF ResetFires, IrqEnable, IInv, TypeOK, Watched,
       PendingMeansDisabled, ProfileOnce, OneCopy, LockedWhilePending, procs
<1>3. CASE KillFires
  <2>1. /\ timer' \in [Timers -> {"INACTIVE", "ENQUEUED"}]
        /\ timer'["kill"] = "INACTIVE" /\ timer'["reset"] = "INACTIVE"
    BY <1>3, TimerOps DEF KillFires, IInv, TypeOK, Timers
  <2>2. pid_force_run' = 0 /\ last_p_id' = 0
    BY <1>3, ResetStep DEF KillFires, IInv
  <2>3. killed' \in SUBSET Pids
    BY <1>3 DEF KillFires, IInv, TypeOK
  <2>. QED
    BY <1>3, <2>1, <2>2, <2>3 DEF KillFires, IrqEnable, IInv, TypeOK, Watched,
       PendingMeansDisabled, ProfileOnce, OneCopy, LockedWhilePending
<1>. QED BY <1>1, <1>2, <1>3

LEMMA Loading ==
  ASSUME IInv, Rmmod \/ \E created \in BOOLEAN : Insmod(created)
  PROVE  IInv'
<1>1. CASE Rmmod
  <2>1. pid_force_run' = 0 /\ last_p_id' = 0
    BY <1>1, ResetStep DEF Rmmod, IInv
  <2>2. /\ timer' \in [Timers -> {"INACTIVE", "ENQUEUED"}]
        /\ Watched' /\ PendingMeansDisabled' /\ OneCopy' /\ LockedWhilePending'
    BY <1>1, <2>1, Quiescing DEF Rmmod, IrqEnable
  <2>. QED
    BY <1>1, <2>1, <2>2 DEF Rmmod, IrqEnable, IInv, TypeOK, ProfileOnce, procs
<1>2. ASSUME NEW created \in BOOLEAN, Insmod(created) PROVE IInv'
  <2>1. pid_force_run' = 0 /\ last_p_id' = 0
    BY <1>2, ResetStep DEF Insmod, IInv
  <2>2. /\ timer' \in [Timers -> {"INACTIVE", "ENQUEUED"}]
        /\ Watched' /\ PendingMeansDisabled' /\ OneCopy' /\ LockedWhilePending'
    BY <1>2, <2>1, Quiescing DEF Insmod
  <2>. QED
    BY <1>2, <2>1, <2>2 DEF Insmod, ResetCntrs, IInv, TypeOK, ProfileOnce, procs,
                            Commands
<1>. QED BY <1>1, <1>2

LEMMA Processes ==
  ASSUME IInv, NEW p \in Pids, Switch(p) \/ Exit(p) \/ Fork(p)
  PROVE  IInv'
<1>1. /\ alive' \in SUBSET Pids /\ killed' \in SUBSET Pids
      /\ csw' \in [Pids -> Nat]
  <2>1. CASE Switch(p)
    BY <2>1, BurstsAssumption DEF Switch, IInv, TypeOK
  <2>2. CASE Exit(p) \/ Fork(p)
    BY <2>2 DEF Exit, Fork, IInv, TypeOK
  <2>. QED BY <2>1, <2>2
<1>2. UNCHANGED <<loaded, statics, timer, sched, reply>>
  BY DEF Switch, Exit, Fork
<1>. QED
  BY <1>1, <1>2 DEF IInv, TypeOK, Watched, PendingMeansDisabled, ProfileOnce, OneCopy,
                    LockedWhilePending, statics, sched

LEMMA NextIInv == IInv /\ [Next]_vars => IInv'
<1>. SUFFICES ASSUME IInv, [Next]_vars PROVE IInv'
  OBVIOUS
<1>1. CASE Rmmod \/ \E created \in BOOLEAN : Insmod(created)
  BY <1>1, Loading
<1>2. CASE WriteFault \/ WriteGarbage
  BY <1>2, PidsAssumption, FailingWrites
<1>3. ASSUME NEW p \in Pids, Write(p) PROVE IInv'
  BY <1>3, FailingWrites, StartCommand, StopCommand, UnknownCommand DEF Write
<1>4. ASSUME NEW p \in Pids, Switch(p) \/ Exit(p) \/ Fork(p) PROVE IInv'
  BY <1>4, Processes
<1>5. CASE \E atStart \in BOOLEAN : Read(atStart)
  BY <1>5, Reading
<1>6. CASE L1Fires \/ ResetFires \/ KillFires
  BY <1>6, TimerHandlers
<1>7. CASE UNCHANGED vars
  BY <1>7 DEF vars, statics, sched, procs, IInv, TypeOK, Watched,
              PendingMeansDisabled, ProfileOnce, OneCopy, LockedWhilePending
<1>. QED BY <1>1, <1>2, <1>3, <1>4, <1>5, <1>6, <1>7 DEF Next

-----------------------------------------------------------------------------
LEMMA Invariance == Spec => []IInv
<1>. QED BY InitIInv, NextIInv, PTL DEF Spec

(* Every variable keeps its type; the difference of the counters is never  *)
(* negative (os_ctrl.c 435).                                               *)
THEOREM TypeCorrect == Spec => []TypeOK
<1>1. IInv => TypeOK
  BY DEF IInv
<1>. QED BY <1>1, Invariance, PTL

(* A locked scheduler or silent interrupts are always backed by both       *)
(* watchdogs (set_os and the timer handlers).                              *)
THEOREM WatchedHolds == Spec => []Watched
<1>1. IInv => Watched
  BY DEF IInv
<1>. QED BY <1>1, Invariance, PTL

(* While a watchdog is pending the next stop command is not skipped.       *)
THEOREM PendingMeansDisabledHolds == Spec => []PendingMeansDisabled
<1>1. IInv => PendingMeansDisabled
  BY DEF IInv
<1>. QED BY <1>1, Invariance, PTL

(* A delivered profile is not ready a second time (on_read_handler).       *)
THEOREM ProfileOnceHolds == Spec => []ProfileOnce
<1>1. IInv => ProfileOnce
  BY DEF IInv
<1>. QED BY <1>1, Invariance, PTL

(* The invariants of the module together (every handler of os_ctrl.c).     *)
THEOREM ConsistentHolds == Spec => []Consistent
BY TypeCorrect, WatchedHolds, PendingMeansDisabledHolds, ProfileOnceHolds, PTL DEF Consistent

(* The step that makes a profile ready leaves nothing locked, silent or    *)
(* pending (the stop command, even when set_os takes it for a repetition). *)
THEOREM StopRestoresHolds == Spec => StopRestores
<1>. DEFINE Restored == /\ pid_force_run' = 0 /\ irq_enabled'
                        /\ timer' = [t \in Timers |-> "INACTIVE"]
<1>1. ASSUME IInv, NEW p \in Pids, WriteEnable(p) PROVE Restored
  <2>. DEFINE tm == Cancelled(timer, {"L1"})
  <2>1. /\ tm \in [Timers -> {"INACTIVE", "ENQUEUED"}]
        /\ tm["kill"] = timer["kill"] /\ tm["reset"] = timer["reset"]
        /\ tm["L1"] = "INACTIVE"
    BY <1>1, TimerOps DEF IInv, TypeOK, Timers
  <2>2. SetOs(p, "ENABLE", tm)
    BY <1>1 DEF WriteEnable
  <2>. HIDE DEF tm
  <2>3. /\ timer' \in [Timers -> {"INACTIVE", "ENQUEUED"}]
        /\ timer'["L1"] = "INACTIVE" /\ last_enable' = "ENABLE"
        /\ irq_enabled' \in BOOLEAN
        /\ Watched' /\ PendingMeansDisabled' /\ LockedWhilePending'
    BY <1>1, <2>1, <2>2, SetOsStep
  <2>4. timer'["kill"] = "INACTIVE" /\ timer'["reset"] = "INACTIVE"
    BY <2>3 DEF PendingMeansDisabled, Timers
  <2>5. timer' = [t \in Timers |-> "INACTIVE"]
    BY <2>3, <2>4 DEF Timers
  <2>. QED BY <2>3, <2>4, <2>5 DEF Watched, LockedWhilePending
<1>2. IInv /\ [Next]_vars => (prf_ready' /\ ~prf_ready => Restored)
  <2>. SUFFICES ASSUME IInv, [Next]_vars, prf_ready', ~prf_ready PROVE Restored
    OBVIOUS
  <2>1. \E p \in Pids : WriteEnable(p)
    BY DEF Next, Write, Insmod, Rmmod, WriteFault, WriteGarbage, WriteNoTask,
           WriteDisable, WriteUnknown, Read, L1Fires, ResetFires, KillFires,
           Switch, Exit, Fork, vars, statics
  <2>. QED BY <2>1, <1>1
<1>3. IInv /\ [Next]_vars => [prf_ready' /\ ~prf_ready => Restored]_vars
  BY <1>2
<1>. QED BY <1>3, Invariance, PTL DEF Spec, StopRestores

(* The module implements the protection of Protection.tla: whoever gets    *)
(* the scheduler gets the silence and a watchdog in the same step, from    *)
(* the unprotected state, and loses all three in one step.                 *)
THEOREM ImplementsProtection == Spec => Promise!Safety
<1>1. Init => Promise!Init
  BY DEF Init, Promise!Init, Timers
<1>2. IInv /\ IInv' /\ [Next]_vars => [Promise!Next]_Promise!vars
  <2>. SUFFICES ASSUME IInv, IInv', [Next]_vars PROVE [Promise!Next]_Promise!vars
    OBVIOUS
  <2>. DEFINE Same  == /\ UNCHANGED <<pid_force_run, irq_enabled>>
                       /\ timer'["reset"] = timer["reset"]
              Ended == pid_force_run' = 0 /\ irq_enabled' = TRUE
  <2>1. ASSUME Same PROVE UNCHANGED Promise!vars
    BY <2>1 DEF Promise!vars
  <2>2. ASSUME Ended PROVE [Promise!Next]_Promise!vars
    <3>1. timer'["reset"] = "INACTIVE"
      BY <2>2 DEF IInv, TypeOK, LockedWhilePending, Timers
    <3>2. CASE pid_force_run # 0
      BY <2>2, <3>1, <3>2 DEF Promise!Next, Promise!End
    <3>3. CASE pid_force_run = 0
      BY <2>2, <3>1, <3>3 DEF IInv, TypeOK, LockedWhilePending, Watched, Promise!vars
    <3>. QED BY <3>2, <3>3
  <2>3. CASE Rmmod \/ ResetFires \/ KillFires \/ \E atStart \in BOOLEAN : Read(atStart)
    <3>1. Ended
      BY <2>3, ResetStep DEF IInv, Rmmod, ResetFires, KillFires, Read, IrqEnable
    <3>. QED BY <2>2, <3>1
  <2>4. ASSUME NEW created \in BOOLEAN, Insmod(created) PROVE [Promise!Next]_Promise!vars
    BY <2>2, <2>4, ResetStep DEF IInv, Insmod
  <2>5. CASE WriteFault \/ WriteGarbage
    BY <2>1, <2>5 DEF WriteFault, WriteGarbage, sched
  <2>6. ASSUME NEW p \in Pids, Switch(p) \/ Exit(p) \/ Fork(p) PROVE UNCHANGED Promise!vars
    BY <2>1, <2>6 DEF Switch, Exit, Fork, sched, statics
  <2>7. CASE L1Fires
    BY <2>1, <2>7, TimerOps DEF L1Fires, sched, IInv, TypeOK, Timers
  <2>8. ASSUME NEW p \in Pids, WriteNoTask(p) PROVE [Promise!Next]_Promise!vars
    BY <2>8 DEF WriteNoTask, IrqEnable, sched, IInv, TypeOK, Promise!vars,
                Promise!Next, Promise!LetInterruptsIn
  <2>9. ASSUME NEW p \in Pids, WriteUnknown(p) PROVE UNCHANGED Promise!vars
    BY <2>1, <2>9, TimerOps DEF WriteUnknown, sched, IInv, TypeOK, Timers
  <2>10. ASSUME NEW p \in Pids, NEW delayed \in BOOLEAN, WriteDisable(p, delayed)
         PROVE  [Promise!Next]_Promise!vars
    <3>. DEFINE tm == IF delayed THEN Started(timer, {"L1"}) ELSE Cancelled(timer, {"L1"})
    <3>1. /\ tm \in [Timers -> {"INACTIVE", "ENQUEUED"}]
          /\ tm["reset"] = timer["reset"]
      BY TimerOps DEF IInv, TypeOK, Timers
    <3>2. SetOs(p, "DISABLE", tm)
      BY <2>10 DEF WriteDisable
    <3>. HIDE DEF tm
    <3>3. CASE last_enable = "DISABLE"
      BY <2>1, <3>1, <3>2, <3>3 DEF SetOs, sched
    <3>4. CASE last_enable # "DISABLE"
      <4>1. pid_force_run = 0 /\ last_p_id = 0 /\ irq_enabled = TRUE
            /\ timer["reset"] # "ENQUEUED"
        BY <3>4 DEF IInv, TypeOK, OneCopy, Watched, PendingMeansDisabled
      <4>2. pid_force_run' = p /\ irq_enabled' = FALSE /\ timer'["reset"] = "ENQUEUED"
        BY <3>2, <3>4, <4>1, PidsAssumption
        DEF SetOs, SetPidForceRun, IrqDisable, Started, Timers
      <4>. QED BY <4>1, <4>2 DEF Promise!Next, Promise!Enter
    <3>. QED BY <3>3, <3>4
  <2>11. ASSUME NEW p \in Pids, WriteEnable(p) PROVE [Promise!Next]_Promise!vars
    <3>. DEFINE tm == Cancelled(timer, {"L1"})
    <3>1. tm["reset"] = timer["reset"]
      BY TimerOps DEF IInv, TypeOK, Timers
    <3>2. SetOs(p, "ENABLE", tm)
      BY <2>11 DEF WriteEnable
    <3>. HIDE DEF tm
    <3>3. CASE last_enable = "ENABLE"
      BY <2>1, <3>1, <3>2, <3>3 DEF SetOs, sched
    <3>4. CASE last_enable # "ENABLE"
      BY <2>2, <3>2, <3>4, ResetStep DEF SetOs, IInv, IrqEnable
    <3>. QED BY <3>3, <3>4
  <2>12. CASE UNCHANGED vars
    BY <2>1, <2>12 DEF vars, statics, sched
  <2>. QED
    BY <2>3, <2>4, <2>5, <2>6, <2>7, <2>8, <2>9, <2>10, <2>11, <2>12 DEF Next, Write
<1>. QED BY <1>1, <1>2, Invariance, PTL DEF Spec, Promise!Safety

-----------------------------------------------------------------------------
(* The time between two stamps, if it fits in a long.                      *)
LEMMA Seconds ==
  ASSUME NEW x \in Nat
  PROVE  x = Second * (x \div Second) + (x % Second) /\ x \div Second \in Int /\ x % Second \in Int
BY TimesAssumption

LEMMA LongIsThere ==
  ASSUME NEW x \in Nat, x < LongLimit
  PROVE  Long(x) = x
<1>1. x + LongLimit \in 0..(2 * LongLimit - 1) /\ 2 * LongLimit \in Nat \ {0} /\ LongLimit \in Nat
  BY TimesAssumption
<1>2. (x + LongLimit) % (2 * LongLimit) = x + LongLimit
  BY <1>1
<1>. QED BY <1>1, <1>2 DEF Long

LEMMA ElapsedIsWall ==
  ASSUME NEW ns \in Nat, NEW w \in Nat, w < LongLimit
  PROVE  Elapsed(Stamp(ns), Stamp(ns + w)) = w
<1>. DEFINE a == ns \div Second
            b == (ns + w) \div Second
            c == ns % Second
            d == (ns + w) % Second
<1>1. /\ ns = Second * a + c /\ ns + w = Second * b + d
      /\ a \in Int /\ b \in Int /\ c \in Int /\ d \in Int
  BY Seconds
<1>2. Elapsed(Stamp(ns), Stamp(ns + w)) = Long(Second * (b - a) + (d - c))
  BY DEF Elapsed, Stamp
<1>. HIDE DEF a, b, c, d
<1>3. Second * (b - a) + (d - c) = w
  <2>1. Second * (b - a) = Second * b - Second * a
    BY <1>1, TimesAssumption
  <2>. QED BY <1>1, <2>1, TimesAssumption
<1>. QED BY <1>2, <1>3, LongIsThere

LEMMA CompensatedRange ==
  ASSUME NEW e \in Int, NEW l \in Nat
  PROVE  Compensated(e, l) \in 0..(U64 - 1)
<1>1. e % U64 \in 0..(U64 - 1)
  BY TimesAssumption
<1>. QED BY <1>1, TimesAssumption DEF Compensated

LEMMA ElapsingsRange ==
  ASSUME LibTypeOK
  PROVE  Elapsings \subseteq Int
<1>1. Wall \in Nat
  BY TimesAssumption DEF Wall, LibTypeOK
<1>2. ASSUME NEW ns \in 0 .. Second - 1 PROVE Elapsed(Stamp(ns), Stamp(ns + Wall)) \in Int
  BY <1>1, TimesAssumption DEF Elapsed, Stamp, Long
<1>3. Strays \subseteq Int
  BY TimesAssumption
<1>. QED BY <1>2, <1>3 DEF Elapsings

LEMMA ZeroIsThere == 0 \in 0 .. U64 - 1 /\ 0 \in Nat
BY TimesAssumption

-----------------------------------------------------------------------------
(* What the three commands of the library do to the module.                *)
LEMMA StartDoes ==
  ASSUME IInv, NEW p \in Pids, NEW delayed \in BOOLEAN, WriteDisable(p, delayed)
  PROVE  /\ cmd' = "DISABLE" /\ prf_ready' = FALSE /\ d_csw' = csw[p] /\ t_L1_inv' = FALSE
         /\ last_enable' = "DISABLE" /\ UNCHANGED <<last_cmd, procs>>
         /\ last_enable # "DISABLE" => pid_force_run' = p /\ irq_enabled' = FALSE
BY DEF WriteDisable, SetOs, SetPidForceRun, IrqDisable, IInv, OneCopy

LEMMA StopDoes ==
  ASSUME IInv, NEW p \in Pids, WriteEnable(p)
  PROVE  /\ cmd' = "ENABLE" /\ prf_ready' = TRUE /\ last_enable' = "ENABLE"
         /\ d_csw' = IF csw[p] > d_csw THEN csw[p] - d_csw ELSE 0
         /\ timer'["L1"] = "INACTIVE" /\ UNCHANGED <<last_cmd, t_L1_inv, procs>>
<1>1. /\ Cancelled(timer, {"L1"}) \in [Timers -> {"INACTIVE", "ENQUEUED"}]
      /\ Cancelled(timer, {"L1"})["kill"] = timer["kill"]
      /\ Cancelled(timer, {"L1"})["reset"] = timer["reset"]
      /\ Cancelled(timer, {"L1"})["L1"] = "INACTIVE"
  BY TimerOps DEF IInv, TypeOK, Timers
<1>2. SetOs(p, "ENABLE", Cancelled(timer, {"L1"}))
  BY DEF WriteEnable
<1>3. timer'["L1"] = "INACTIVE" /\ last_enable' = "ENABLE"
  BY <1>1, <1>2, SetOsStep
<1>. QED BY <1>3 DEF WriteEnable

LEMMA ReadDoes ==
  ASSUME IInv, Read(TRUE)
  PROVE  /\ pid_force_run' = 0 /\ irq_enabled' = TRUE /\ timer' = [t \in Timers |-> "INACTIVE"]
         /\ UNCHANGED <<last_enable, prf_ready, procs>> /\ last_cmd' = cmd'
         /\ prf_ready /\ cmd # last_cmd =>
              cmd' = "NONE" /\ reply'.l1 = t_L1_inv /\ reply'.csw = Byte(d_csw)
         /\ ~(prf_ready /\ cmd # last_cmd) => cmd' = cmd
<1>1. pid_force_run' = 0
  BY ResetStep DEF Read, IInv
<1>2. irq_enabled' = TRUE /\ timer' = [t \in Timers |-> "INACTIVE"]
  BY <1>1 DEF Read, IrqEnable, Cancelled
<1>3. CASE prf_ready /\ cmd # last_cmd
  BY <1>1, <1>2, <1>3 DEF Read, ResetCntrs
<1>4. CASE ~(prf_ready /\ cmd # last_cmd)
  BY <1>1, <1>2, <1>4 DEF Read
<1>. QED BY <1>3, <1>4

(* Every step of the library is a step of the module, or none.             *)
LEMMA LibMoves ==
  ASSUME UserAlive, TypeOK, [LibNext]_allvars
  PROVE  [Next]_vars
<1>1. ~Idle => user \in Pids
  BY DEF UserAlive, TypeOK, Idle
<1>2. ASSUME NEW delayed \in BOOLEAN, StartWrite(delayed) PROVE Next
  BY <1>1, <1>2 DEF StartWrite, Next, Write, Idle
<1>3. CASE StopCrash \/ StopWrite \/ StopReflush \/ SwitchedOut
  BY <1>1, <1>3 DEF StopCrash, StopWrite, StopReflush, SwitchedOut, Next, Write, Idle
<1>4. CASE StopRead
  BY <1>4 DEF StopRead, Next
<1>5. CASE L1Runs \/ WatchdogFires \/ Reload
  BY <1>5 DEF L1Runs, WatchdogFires, Reload, Next
<1>6. ASSUME NEW p \in Pids, Dies(p) \/ Born(p) PROVE Next
  BY <1>6 DEF Dies, Born, Next
<1>7. CASE UNCHANGED vars
  BY <1>7
<1>. QED BY <1>2, <1>3, <1>4, <1>5, <1>6, <1>7 DEF LibNext, StartOpen, StartStamp, StopStamp, StopOpen,
   StopWriteFails, StopReadFails, allvars

LEMMA LibStep == ASSUME IInv, LibInv, [LibNext]_allvars PROVE LibInv'
<1>0. /\ UserAlive /\ ReadOnce /\ CountersTell /\ StopsCount /\ ProtectedUntil
      /\ LibTypeOK /\ SuccessMeansUndisturbed /\ MeasuredIsTrue /\ RunsProtected
      /\ TypeOK
  BY DEF LibInv, ResultsTrue, IInv
<1>. DEFINE Keeps == UserAlive' /\ ReadOnce' /\ CountersTell' /\ StopsCount' /\ ProtectedUntil'
            True  == LibTypeOK' /\ SuccessMeansUndisturbed' /\ MeasuredIsTrue' /\ RunsProtected'
<1>. USE DEF Idle, Between, Accepted, Trusted, Unsent, Sent
<1>1. ASSUME NEW p \in Pids, StartOpen(p) PROVE LibInv'
  <2>1. Keeps
    BY <1>0, <1>1 DEF StartOpen, Forgotten, UserAlive, ReadOnce, CountersTell, StopsCount, ProtectedUntil,
       vars, statics, sched, procs
  <2>2. True
    BY <1>0, <1>1, ZeroIsThere DEF StartOpen, Forgotten, LibTypeOK, Phases, SuccessMeansUndisturbed, MeasuredIsTrue,
       RunsProtected
  <2>. QED BY <2>1, <2>2 DEF LibInv, ResultsTrue
<1>2. ASSUME NEW delayed \in BOOLEAN, StartWrite(delayed) PROVE LibInv'
  <2>1. user \in Pids
    BY <1>0, <1>2 DEF StartWrite, UserAlive, TypeOK
  <2>2. /\ cmd' = "DISABLE" /\ prf_ready' = FALSE /\ d_csw' = csw[user] /\ t_L1_inv' = FALSE
        /\ last_enable' = "DISABLE" /\ UNCHANGED <<last_cmd, procs>>
        /\ last_enable # "DISABLE" => pid_force_run' = user /\ irq_enabled' = FALSE
    BY <1>2, <2>1, StartDoes DEF StartWrite
  <2>3. switches = 0 /\ l1 = "never"
    BY <1>0, <1>2 DEF StartWrite, CountersTell
  <2>4. csw[user] = csw[user] + 0
    BY <1>0, <2>1 DEF TypeOK
  <2>5. /\ phase' = "start_written" /\ phase = "start_opened" /\ stopped' = FALSE /\ clean' = stopped
        /\ UNCHANGED <<user, switches, l1, started>>
    BY <1>2 DEF StartWrite, outputs
  <2>6. UserAlive' /\ ReadOnce' /\ StopsCount'
    BY <1>0, <2>2, <2>5 DEF UserAlive, ReadOnce, StopsCount, procs
  <2>7. CountersTell'
    BY <2>2, <2>3, <2>4, <2>5 DEF CountersTell, procs
  <2>8. ProtectedUntil'
    BY <1>0, <2>2, <2>5 DEF ProtectedUntil, StopsCount
  <2>9. True
    BY <1>0, <1>2 DEF StartWrite, outputs, LibTypeOK, Phases, SuccessMeansUndisturbed, MeasuredIsTrue, RunsProtected
  <2>. QED BY <2>6, <2>7, <2>8, <2>9 DEF LibInv, ResultsTrue
<1>3. CASE StartStamp
  <2>1. Keeps
    BY <1>0, <1>3 DEF StartStamp, history, current, UserAlive, ReadOnce, CountersTell, StopsCount, ProtectedUntil,
       vars, statics, sched, procs
  <2>2. True
    BY <1>0, <1>3, <2>1 DEF StartStamp, history, current, LibTypeOK, Phases, SuccessMeansUndisturbed, MeasuredIsTrue,
       RunsProtected, ProtectedUntil
  <2>. QED BY <2>1, <2>2 DEF LibInv, ResultsTrue
<1>4. CASE StopStamp
  <2>1. Keeps
    BY <1>0, <1>4 DEF StopStamp, outputs, UserAlive, ReadOnce, CountersTell, StopsCount, ProtectedUntil,
       vars, statics, sched, procs
  <2>2. True
    BY <1>0, <1>4 DEF StopStamp, outputs, LibTypeOK, Phases, SuccessMeansUndisturbed, MeasuredIsTrue, RunsProtected
  <2>. QED BY <2>1, <2>2 DEF LibInv, ResultsTrue
<1>5. CASE StopOpen
  <2>1. Keeps
    BY <1>0, <1>5 DEF StopOpen, outputs, history, current, UserAlive, ReadOnce, CountersTell, StopsCount, ProtectedUntil,
       vars, statics, sched, procs
  <2>2. True
    BY <1>0, <1>5 DEF StopOpen, outputs, history, current, LibTypeOK, Phases, SuccessMeansUndisturbed, MeasuredIsTrue, RunsProtected
  <2>. QED BY <2>1, <2>2 DEF LibInv, ResultsTrue
<1>6. CASE StopCrash
  <2>1. Keeps
    BY <1>0, <1>6 DEF StopCrash, Exit, Forgotten, UserAlive, ReadOnce, CountersTell, StopsCount, ProtectedUntil,
       statics, sched
  <2>2. True
    BY <1>0, <1>6, ZeroIsThere DEF StopCrash, Forgotten, LibTypeOK, Phases, SuccessMeansUndisturbed, MeasuredIsTrue,
       RunsProtected
  <2>. QED BY <2>1, <2>2 DEF LibInv, ResultsTrue
<1>7. CASE StopWrite
  <2>1. user \in Pids /\ csw[user] \in Nat /\ d_csw \in Nat /\ switches \in Nat
    BY <1>0, <1>7 DEF StopWrite, UserAlive, TypeOK, LibTypeOK
  <2>2. /\ cmd' = "ENABLE" /\ prf_ready' = TRUE /\ last_enable' = "ENABLE"
        /\ d_csw' = IF csw[user] > d_csw THEN csw[user] - d_csw ELSE 0
        /\ timer'["L1"] = "INACTIVE" /\ UNCHANGED <<last_cmd, t_L1_inv, procs>>
    BY <1>7, <2>1, StopDoes DEF StopWrite
  <2>3. started => d_csw' = switches
    BY <1>0, <1>7, <2>1, <2>2 DEF StopWrite, CountersTell
  <2>4. Keeps
    BY <1>0, <1>7, <2>1, <2>2, <2>3 DEF StopWrite, outputs, UserAlive, ReadOnce, CountersTell, StopsCount, ProtectedUntil, procs
  <2>5. True
    BY <1>0, <1>7 DEF StopWrite, outputs, LibTypeOK, Phases, SuccessMeansUndisturbed, MeasuredIsTrue, RunsProtected
  <2>. QED BY <2>4, <2>5 DEF LibInv, ResultsTrue
<1>8. CASE StopRead
  <2>1. /\ UNCHANGED <<last_enable, prf_ready, procs>> /\ last_cmd' = cmd'
        /\ prf_ready /\ cmd # last_cmd => cmd' = "NONE" /\ reply'.l1 = t_L1_inv /\ reply'.csw = Byte(d_csw)
        /\ ~(prf_ready /\ cmd # last_cmd) => cmd' = cmd
    BY <1>8, ReadDoes DEF StopRead
  <2>2. /\ phase' = "done" /\ UNCHANGED <<user, started, work, switches, l1, stopped>>
        /\ timed' = timed
        /\ phase \in {"stop_unwritten", "stop_written", "stop_reflushed"}
    BY <1>8 DEF StopRead, history, current
  <2>3. Keeps
    BY <1>0, <2>1, <2>2 DEF UserAlive, ReadOnce, CountersTell, StopsCount, ProtectedUntil, procs
  <2>4. PICK e \in Elapsings : measured' = Compensated(e, IF reply'.l1 THEN L1Cost ELSE 0)
    BY <1>8 DEF StopRead
  <2>5. PICK closed \in BOOLEAN :
          status' = Verdict(phase = "stop_written" /\ closed, measured', reply'.csw)
    BY <1>8 DEF StopRead
  <2>6. Wall \in Nat /\ Wall' = Wall
    BY <1>0, <2>2, TimesAssumption DEF Wall, LibTypeOK
  <2>7. measured' \in 0 .. U64 - 1
    BY <1>0, <2>4, ElapsingsRange, CompensatedRange, TimesAssumption
  <2>8. LibTypeOK'
    <3>1. UNCHANGED <<expired, clean>>
      BY <1>8 DEF StopRead, history
    <3>2. status' \in {"SUCCESS", "ERR", "ERR_READ", "BAD_VALUE"}
      BY <2>5 DEF Verdict
    <3>. QED BY <1>0, <2>2, <2>7, <3>1, <3>2 DEF LibTypeOK, Phases
  <2>9. status' = "SUCCESS" /\ started =>
          /\ measured' # 0 /\ reply'.csw = 0
          /\ reply'.csw = Byte(switches) /\ (reply'.l1 <=> l1 # "never")
    <3>. SUFFICES ASSUME status' = "SUCCESS", started
                  PROVE  /\ measured' # 0 /\ reply'.csw = 0
                         /\ reply'.csw = Byte(switches) /\ (reply'.l1 <=> l1 # "never")
      OBVIOUS
    <3>1. phase = "stop_written" /\ measured' # 0 /\ reply'.csw = 0
      BY <2>5 DEF Verdict
    <3>2. prf_ready /\ cmd # last_cmd
      BY <1>0, <3>1 DEF ReadOnce
    <3>3. d_csw = switches /\ (t_L1_inv <=> l1 # "never")
      BY <1>0, <3>1 DEF CountersTell
    <3>. QED BY <2>1, <3>1, <3>2, <3>3
  <2>10. SuccessMeansUndisturbed' /\ RunsProtected'
    BY <2>2, <2>9 DEF SuccessMeansUndisturbed, RunsProtected, Byte
  <2>11. MeasuredIsTrue'
    <3>. SUFFICES ASSUME started, timed, status' = "SUCCESS", Wall < LongLimit, l1 \in {"never", "inside"}
                  PROVE  measured' = work
      BY <2>2, <2>6 DEF MeasuredIsTrue
    <3>1. e = Wall
      <4>1. PICK ns \in 0 .. Second - 1 : e = Elapsed(Stamp(ns), Stamp(ns + Wall))
        BY <2>4 DEF Elapsings
      <4>. QED BY <2>6, <4>1, ElapsedIsWall, TimesAssumption
    <3>2. Wall % U64 = Wall
      BY <2>6, TimesAssumption
    <3>3. work \in Nat
      BY <1>0, TimesAssumption DEF LibTypeOK
    <3>4. CASE l1 = "never"
      BY <2>4, <2>9, <3>1, <3>2, <3>3, <3>4 DEF Compensated, Wall
    <3>5. CASE l1 = "inside"
      <4>1. measured' = Compensated(work + L1Cost, L1Cost) /\ (work + L1Cost) % U64 = work + L1Cost
        BY <2>4, <2>9, <3>1, <3>2, <3>5 DEF Wall
      <4>. QED BY <3>3, <4>1, TimesAssumption DEF Compensated
    <3>. QED BY <3>4, <3>5
  <2>. QED BY <2>3, <2>8, <2>10, <2>11 DEF LibInv, ResultsTrue
<1>9. CASE L1Runs
  <2>1. timer["L1"] = "ENQUEUED" /\ t_L1_inv' = TRUE /\ timer' = Cancelled(timer, {"L1"})
        /\ UNCHANGED <<cmd, prf_ready, irq_enabled, last_enable, last_cmd, d_csw, sched, procs>>
        /\ UNCHANGED <<user, phase, outputs, work, switches, expired, stopped, clean>>
    BY <1>9 DEF L1Runs, L1Fires
  <2>2. l1' = CASE phase = "start_written" -> "before"
               [] phase = "running"       -> "inside"
               [] phase \in {"stamped", "stop_opened"} \/ Unsent -> "after"
               [] OTHER                   -> l1
    BY <1>9 DEF L1Runs
  <2>3. /\ l1' \in {"before", "inside", "after", l1}
        /\ Between => l1' # "never"
        /\ ~Between => l1' = l1
    BY <2>2, Zenon
  <2>4. ~Sent
    BY <1>0, <2>1 DEF ReadOnce
  <2>5. Keeps
    BY <1>0, <2>1, <2>3, <2>4 DEF outputs, UserAlive, ReadOnce, CountersTell, StopsCount, ProtectedUntil, procs, sched
  <2>6. True
    BY <1>0, <2>1, <2>3 DEF outputs, LibTypeOK, Phases, SuccessMeansUndisturbed, MeasuredIsTrue, RunsProtected, Wall, sched
  <2>. QED BY <2>5, <2>6 DEF LibInv, ResultsTrue
<1>10. CASE WatchdogFires
  <2>1. /\ UNCHANGED <<cmd, prf_ready, last_enable, last_cmd, d_csw, t_L1_inv, alive, csw>>
        /\ timer["L1"] = "INACTIVE" => timer'["L1"] = "INACTIVE"
        /\ expired' = TRUE /\ UNCHANGED <<user, phase, outputs, work, switches, l1, stopped, clean>>
    <3>1. timer \in [Timers -> {"INACTIVE", "ENQUEUED"}]
      BY <1>0 DEF TypeOK
    <3>. QED BY <1>10, <3>1, TimerOps DEF WatchdogFires, ResetFires, KillFires, procs, Timers
  <2>2. Keeps
    BY <1>0, <2>1 DEF UserAlive, ReadOnce, CountersTell, StopsCount, ProtectedUntil, outputs
  <2>3. True
    BY <1>0, <2>1 DEF outputs, LibTypeOK, Phases, SuccessMeansUndisturbed, MeasuredIsTrue, RunsProtected, Wall
  <2>. QED BY <2>2, <2>3 DEF LibInv, ResultsTrue
<1>11. CASE SwitchedOut
  <2>1. user \in Pids /\ user \in alive
    BY <1>0, <1>11 DEF SwitchedOut, UserAlive, TypeOK
  <2>2. PICK k \in Bursts : csw' = [csw EXCEPT ![user] = @ + k]
    BY <1>11 DEF SwitchedOut, Switch
  <2>3. /\ k \in Nat /\ csw[user] \in Nat /\ d_csw \in Nat /\ csw'[user] = csw[user] + k /\ switches \in Nat
    BY <1>0, <2>1, <2>2, BurstsAssumption DEF TypeOK, LibTypeOK
  <2>4. /\ switches' = IF Between THEN switches + k ELSE switches
        /\ UNCHANGED <<user, phase, outputs, work, l1, expired, stopped, clean>>
        /\ UNCHANGED <<statics, timer, sched, alive>> /\ ~Idle
    BY <1>11, <2>3 DEF SwitchedOut, Switch
  <2>5. Keeps
    BY <1>0, <2>1, <2>3, <2>4 DEF UserAlive, ReadOnce, CountersTell, StopsCount, ProtectedUntil, outputs, statics, sched
  <2>6. True
    BY <1>0, <2>3, <2>4 DEF outputs, LibTypeOK, Phases, SuccessMeansUndisturbed, MeasuredIsTrue, RunsProtected, Wall, statics, sched
  <2>. QED BY <2>5, <2>6 DEF LibInv, ResultsTrue
<1>12. ASSUME NEW p \in Pids, Dies(p) PROVE LibInv'
  <2>1. p \in alive /\ alive' = alive \ {p} /\ UNCHANGED <<statics, timer, sched, csw, stopped>>
    BY <1>12 DEF Dies, Exit
  <2>2. CASE p = user /\ user' = 0 /\ phase' = "idle" /\ Forgotten
    <3>1. Keeps
      BY <1>0, <2>1, <2>2 DEF Forgotten, UserAlive, ReadOnce, CountersTell, StopsCount, ProtectedUntil, statics, sched
    <3>2. True
      BY <1>0, <2>1, <2>2, ZeroIsThere DEF Forgotten, LibTypeOK, Phases, SuccessMeansUndisturbed, MeasuredIsTrue,
         RunsProtected
    <3>. QED BY <3>1, <3>2 DEF LibInv, ResultsTrue
  <2>3. CASE p # user /\ UNCHANGED <<user, phase, outputs, current, expired, clean>>
    <3>1. Keeps
      BY <1>0, <2>1, <2>3 DEF UserAlive, ReadOnce, CountersTell, StopsCount, ProtectedUntil, statics, sched, outputs, current
    <3>2. True
      BY <1>0, <2>1, <2>3 DEF LibTypeOK, Phases, SuccessMeansUndisturbed, MeasuredIsTrue,
         RunsProtected, Wall, outputs, current, sched, statics
    <3>. QED BY <3>1, <3>2 DEF LibInv, ResultsTrue
  <2>. QED BY <1>12, <2>2, <2>3 DEF Dies
<1>13. ASSUME NEW p \in Pids, Born(p) PROVE LibInv'
  <2>1. p \notin alive /\ alive' = alive \cup {p} /\ csw' = [csw EXCEPT ![p] = 0] /\ UNCHANGED <<statics, timer, sched>>
        /\ UNCHANGED libvars
    BY <1>13 DEF Born, Fork
  <2>2. phase # "idle" => csw'[user] = csw[user]
    BY <1>0, <2>1 DEF UserAlive, TypeOK
  <2>3. Keeps
    BY <1>0, <2>1, <2>2 DEF UserAlive, ReadOnce, CountersTell, StopsCount, ProtectedUntil, statics, sched, libvars, outputs, history, current
  <2>4. True
    BY <1>0, <2>1 DEF LibTypeOK, Phases, SuccessMeansUndisturbed, MeasuredIsTrue,
       RunsProtected, Wall, outputs, current, sched, statics, libvars, history
  <2>. QED BY <2>3, <2>4 DEF LibInv, ResultsTrue
<1>14. CASE Reload
  <2>1. /\ Idle /\ UNCHANGED <<user, phase, outputs, work, switches, l1, expired, clean>>
        /\ UNCHANGED <<procs, reply>>
    BY <1>14 DEF Reload, Insmod, Rmmod
  <2>2. /\ last_cmd' # "ENABLE" /\ (cmd' = "ENABLE" => prf_ready')
        /\ stopped' \in BOOLEAN /\ (stopped' => last_enable' # "DISABLE")
    <3>1. CASE \E created \in BOOLEAN : Insmod(created) /\ stopped' = TRUE
      BY <1>0, <3>1 DEF Insmod, ResetCntrs, ReadOnce, StopsCount, LibTypeOK
    <3>2. CASE Rmmod /\ UNCHANGED stopped
      <4>1. UNCHANGED <<last_cmd, cmd, prf_ready, last_enable>>
        BY <3>2 DEF Rmmod
      <4>. QED BY <1>0, <3>2, <4>1 DEF ReadOnce, StopsCount, LibTypeOK
    <3>. QED BY <1>14, <3>1, <3>2 DEF Reload
  <2>3. Keeps
    BY <1>0, <2>1, <2>2 DEF UserAlive, ReadOnce, CountersTell, StopsCount, ProtectedUntil, procs
  <2>4. True
    BY <1>0, <2>1, <2>2 DEF LibTypeOK, Phases, SuccessMeansUndisturbed, MeasuredIsTrue,
       RunsProtected, Wall, outputs
  <2>. QED BY <2>3, <2>4 DEF LibInv, ResultsTrue
<1>15. CASE UNCHANGED allvars
  <2>1. Keeps
    BY <1>0, <1>15 DEF UserAlive, ReadOnce, CountersTell, StopsCount, ProtectedUntil, allvars, vars, libvars,
       statics, sched, procs, outputs, history, current
  <2>2. True
    BY <1>0, <1>15 DEF LibTypeOK, Phases, SuccessMeansUndisturbed, MeasuredIsTrue, RunsProtected, Wall, allvars, vars,
       libvars, statics, sched, procs, outputs, history, current
  <2>. QED BY <2>1, <2>2 DEF LibInv, ResultsTrue
<1>16. CASE StopWriteFails
  <2>1. Keeps
    BY <1>0, <1>16 DEF StopWriteFails, outputs, history, current, UserAlive, ReadOnce, CountersTell, StopsCount, ProtectedUntil,
       vars, statics, sched, procs
  <2>2. True
    BY <1>0, <1>16 DEF StopWriteFails, outputs, history, current, LibTypeOK, Phases, SuccessMeansUndisturbed, MeasuredIsTrue, RunsProtected
  <2>. QED BY <2>1, <2>2 DEF LibInv, ResultsTrue
<1>17. CASE StopReflush
  <2>1. user \in Pids /\ csw[user] \in Nat /\ d_csw \in Nat /\ switches \in Nat
    BY <1>0, <1>17 DEF StopReflush, UserAlive, TypeOK, LibTypeOK
  <2>2. /\ cmd' = "ENABLE" /\ prf_ready' = TRUE /\ last_enable' = "ENABLE"
        /\ d_csw' = IF csw[user] > d_csw THEN csw[user] - d_csw ELSE 0
        /\ timer'["L1"] = "INACTIVE" /\ UNCHANGED <<last_cmd, t_L1_inv, procs>>
    BY <1>17, <2>1, StopDoes DEF StopReflush
  <2>3. started => d_csw' = switches
    BY <1>0, <1>17, <2>1, <2>2 DEF StopReflush, CountersTell
  <2>4. Keeps
    BY <1>0, <1>17, <2>1, <2>2, <2>3 DEF StopReflush, outputs, UserAlive, ReadOnce, CountersTell, StopsCount, ProtectedUntil, procs
  <2>5. True
    BY <1>0, <1>17 DEF StopReflush, outputs, LibTypeOK, Phases, SuccessMeansUndisturbed, MeasuredIsTrue, RunsProtected
  <2>. QED BY <2>4, <2>5 DEF LibInv, ResultsTrue
<1>18. CASE StopReadFails
  <2>1. /\ phase' = "done" /\ status' = "ERR_READ"
        /\ UNCHANGED <<user, started, timed, work, switches, l1, expired, stopped, clean, vars>> /\ ~Idle
    BY <1>18 DEF StopReadFails, history, current
  <2>2. measured' \in 0 .. U64 - 1
    <3>1. PICK e \in Elapsings, l1_ns \in Garbage : measured' = Compensated(e, l1_ns)
      BY <1>18 DEF StopReadFails
    <3>. QED BY <1>0, <3>1, ElapsingsRange, CompensatedRange, TimesAssumption
  <2>3. Keeps
    BY <1>0, <2>1 DEF UserAlive, ReadOnce, CountersTell, StopsCount, ProtectedUntil, vars, statics, sched, procs
  <2>4. True
    BY <1>0, <2>1, <2>2 DEF LibTypeOK, Phases, SuccessMeansUndisturbed, MeasuredIsTrue, RunsProtected
  <2>. QED BY <2>3, <2>4 DEF LibInv, ResultsTrue
<1>. QED BY <1>1, <1>2, <1>3, <1>4, <1>5, <1>6, <1>7, <1>8, <1>9, <1>10, <1>11, <1>12, <1>13, <1>14, <1>15,
           <1>16, <1>17, <1>18 DEF LibNext

LEMMA LibStarts == LibInit => IInv /\ LibInv
<1>. SUFFICES ASSUME LibInit PROVE IInv /\ LibInv
  OBVIOUS
<1>1. IInv
  BY InitIInv DEF LibInit
<1>2. LibTypeOK /\ SuccessMeansUndisturbed /\ MeasuredIsTrue /\ RunsProtected
  BY ZeroIsThere DEF LibInit, LibTypeOK, Phases, SuccessMeansUndisturbed, MeasuredIsTrue, RunsProtected, Trusted
<1>3. UserAlive /\ ReadOnce /\ CountersTell /\ StopsCount /\ ProtectedUntil
  BY DEF LibInit, Init, UserAlive, ReadOnce, CountersTell, StopsCount, ProtectedUntil, Accepted, Between, Unsent, Sent
<1>. QED BY <1>1, <1>2, <1>3 DEF LibInv, ResultsTrue

LEMMA LibInvariance == LibSpec => [](IInv /\ LibInv)
<1>1. IInv /\ LibInv /\ [LibNext]_allvars => (IInv /\ LibInv)'
  <2>. SUFFICES ASSUME IInv, LibInv, [LibNext]_allvars PROVE IInv' /\ LibInv'
    OBVIOUS
  <2>1. [Next]_vars
    BY LibMoves DEF LibInv, IInv
  <2>. QED BY <2>1, NextIInv, LibStep
<1>. QED BY <1>1, LibStarts, PTL DEF LibSpec

(* What STOP_PROFILING returns with success is true: no context switch     *)
(* between the two commands, up to a byte; the time of the measured code;  *)
(* and the code ran protected if the last measurement was stopped.         *)
THEOREM ResultsTrueHolds == LibSpec => []ResultsTrue
<1>1. LibInv => ResultsTrue
  BY DEF LibInv
<1>. QED BY <1>1, LibInvariance, PTL

(* STOP_PROFILING returns with the scheduler, the interrupts and the       *)
(* timers as they were, whichever of its calls have failed; or it says     *)
(* that neither its command nor its read has reached the module, and what  *)
(* is still locked is under both watchdogs.                                *)
THEOREM StopReturnsTheMachineHolds == LibSpec => StopReturnsTheMachine
<1>1. IInv /\ LibInv /\ [LibNext]_allvars =>
        [phase # "done" /\ phase' = "done" =>
          \/ Free'
          \/ status' = "ERR_READ" /\ Unsent /\ Watched']_allvars
  <2>. SUFFICES ASSUME IInv, LibInv, [LibNext]_allvars, phase # "done", phase' = "done"
                PROVE  Free' \/ (status' = "ERR_READ" /\ Unsent /\ Watched')
    OBVIOUS
  <2>1. StopRead \/ StopReadFails
    BY DEF LibNext, StartOpen, StartWrite, StartStamp, StopStamp, StopOpen, StopCrash, StopWrite,
           StopWriteFails, StopReflush, L1Runs, WatchdogFires, SwitchedOut, Dies, Born, Reload, allvars, libvars
  <2>2. CASE StopRead
    BY <2>2, ReadDoes DEF StopRead, Free
  <2>3. CASE StopReadFails
    <3>1. Watched /\ PendingMeansDisabled /\ TypeOK /\ ReadOnce /\ UNCHANGED vars
      BY <2>3 DEF StopReadFails, IInv, LibInv
    <3>2. CASE Unsent
      BY <2>3, <3>1, <3>2 DEF StopReadFails, Watched, vars, statics, sched
    <3>3. CASE Sent
      <4>1. last_enable = "ENABLE" /\ timer["L1"] = "INACTIVE"
        BY <3>1, <3>3 DEF ReadOnce
      <4>2. timer["kill"] # "ENQUEUED" /\ timer["reset"] # "ENQUEUED"
        BY <3>1, <4>1 DEF PendingMeansDisabled
      <4>3. timer = [t \in Timers |-> "INACTIVE"]
        BY <3>1, <4>1, <4>2 DEF TypeOK, Timers
      <4>. QED BY <3>1, <4>2, <4>3 DEF Watched, Free, TypeOK, vars, statics, sched
    <3>. QED BY <2>3, <3>2, <3>3 DEF StopReadFails
  <2>. QED BY <2>1, <2>2, <2>3
<1>. QED BY <1>1, LibInvariance, PTL DEF LibSpec, StopReturnsTheMachine
====
