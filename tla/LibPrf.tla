------------------------------- MODULE LibPrf -------------------------------
(***************************************************************************)
(* The profiling library (FAILED_profiling_lib/libprf.c) on top of the     *)
(* os_ctrl module: START_PROFILING and STOP_PROFILING, step by step, with  *)
(* timers, context switches and the death of the process in between.       *)
(*                                                                         *)
(* As the documents ask, there is one user at a time: a measurement starts *)
(* when the last one was stopped or its process has died, and os_ctrl is   *)
(* loaded and unloaded between measurements.  The testcase ignores what    *)
(* START_PROFILING returns, so STOP_PROFILING follows it in any case.      *)
(*                                                                         *)
(* Lengths of time are scaled: only how they compare with a second and     *)
(* with the range of a 32-bit long matters.                                *)
(***************************************************************************)
EXTENDS OsCtrl

CONSTANTS
  Durations,   \* how long the measured code may take by itself, in ns
  L1Cost,      \* how long the L1 handler takes, in ns
  Second,      \* SEC2NANO
  LongLimit,   \* 2^31: a long of the e500v2 holds -LongLimit .. LongLimit - 1
  U64,         \* 2^64
  Strays,      \* what ELAPSED() may come to with a time stamp of another call
  Garbage      \* what the bytes of rx_buf may hold that were never written

ASSUME TimesAssumption ==
  /\ Durations \subseteq Nat /\ {L1Cost, Second, LongLimit, U64} \subseteq Nat \ {0}
  /\ LongLimit < U64
  /\ Strays \subseteq -LongLimit .. LongLimit - 1 /\ Garbage \subseteq 0 .. U64 - 1

VARIABLES
  user,      \* the process that measures, or 0
  phase,     \* how far it is
  started,   \* START_PROFILING has returned LIBPRF_SUCCESS
  status,    \* what STOP_PROFILING returns
  measured,  \* *Measured_Time_NS
  timed,     \* history: t_stop is the time of this call
  work,      \* history: the time the measured code took by itself
  switches,  \* history: context switches between the start and the stop command
  l1,        \* history: when the L1 handler ran, relative to the time stamps
  expired,   \* history: a watchdog has fired since the start command
  stopped,   \* history: the last start command was followed by a stop command
  clean      \* history: it was, when the current measurement started

outputs == <<started, status, measured, timed>>
current == <<work, switches, l1>>
history == <<current, expired, stopped, clean>>
libvars == <<user, phase, outputs, history>>
allvars == <<vars, libvars>>

Idle == phase \in {"idle", "done"}

Phases == {"idle",
           "start_opened", "start_written",               \* in START_PROFILING
           "running",                                     \* in the measured code
           "stamped", "stop_opened",                      \* in STOP_PROFILING
           "stop_unwritten", "stop_pending",              \* no command was sent
           "stop_written", "stop_reflushed",              \* it was, late by fread()
           "done"}                                        \* STOP has returned

Unsent == phase \in {"stop_unwritten", "stop_pending"}
Sent   == phase \in {"stop_written", "stop_reflushed"}

LibTypeOK ==
  /\ user \in Pids \cup {0}
  /\ phase \in Phases
  /\ started \in BOOLEAN
  /\ status \in {"SUCCESS", "ERR", "ERR_READ", "BAD_VALUE"}
  /\ measured \in 0 .. U64 - 1
  /\ timed \in BOOLEAN
  /\ work \in Durations \cup {0}
  /\ switches \in Nat
  /\ l1 \in {"never", "before", "inside", "after"}
  /\ {expired, stopped, clean} \subseteq BOOLEAN

LibInit ==
  /\ Init
  /\ user = 0 /\ phase = "idle"
  /\ started = FALSE /\ status = "ERR" /\ measured = 0 /\ timed = FALSE
  /\ work = 0 /\ switches = 0 /\ l1 = "never"
  /\ expired = FALSE /\ stopped = TRUE /\ clean = TRUE

-----------------------------------------------------------------------------
(* The arithmetic of the measurement.                                      *)
Stamp(ns) == [tv_sec |-> ns \div Second, tv_nsec |-> ns % Second]
Long(n)   == ((n + LongLimit) % (2 * LongLimit)) - LongLimit

ElapsedNoSeconds(a, b) == \* mutant: only the nanosecond fields are subtracted
  Long(b.tv_nsec - a.tv_nsec)

(* ELAPSED(): the C expression has type long.                              *)
Elapsed(a, b) == Long(Second * (b.tv_sec - a.tv_sec) + (b.tv_nsec - a.tv_nsec))

CompensatedUnguarded(elapsed, l1_ns) == \* mutant: no test before the subtraction
  (elapsed % U64) - l1_ns

(* The comparison with a uint64_t converts the long; never below zero.     *)
Compensated(elapsed, l1_ns) ==
  LET e == elapsed % U64
  IN  IF e > l1_ns THEN e - l1_ns ELSE 0

(* The true time between the two stamps.                                   *)
Wall == work + IF l1 = "inside" THEN L1Cost ELSE 0

VerdictNeedsBoth(ok, ns, csw_byte) == \* mutant: && for ||
  IF ~ok THEN "ERR"
  ELSE IF ns = 0 /\ csw_byte # 0 THEN "BAD_VALUE" ELSE "SUCCESS"

(* What ELAPSED() can come to: the stamps are ns and ns + Wall, or one of   *)
(* them is that of another call.                                           *)
Elapsings ==
  IF started /\ timed THEN {Elapsed(Stamp(ns), Stamp(ns + Wall)) : ns \in 0 .. Second - 1}
                      ELSE Strays

Verdict(ok, ns, csw_byte) ==
  IF ~ok THEN "ERR"
  ELSE IF ns = 0 \/ csw_byte # 0 THEN "BAD_VALUE" ELSE "SUCCESS"

-----------------------------------------------------------------------------
(* START_PROFILING.                                                        *)
Forgotten ==
  /\ started' = FALSE /\ status' = "ERR" /\ measured' = 0 /\ timed' = FALSE
  /\ work' = 0 /\ switches' = 0 /\ l1' = "never"
  /\ expired' = FALSE /\ clean' = TRUE

(* fopen() and setvbuf(); when one fails, or the write after them does     *)
(* before the module sees it, the function returns.                        *)
StartOpen(p) ==
  /\ Idle
  /\ p \in alive
  /\ user' = p
  /\ \/ loaded /\ phase' = "start_opened"
     \/ phase' = "running"
  /\ Forgotten
  /\ UNCHANGED <<stopped, vars>>

(* fwrite() and fflush(): the start command reaches the module.            *)
StartWrite(delayed) ==
  /\ phase = "start_opened"
  /\ WriteDisable(user, delayed)
  /\ phase' = "start_written"
  /\ expired' = FALSE /\ stopped' = FALSE /\ clean' = stopped
  /\ UNCHANGED <<user, outputs, work, switches, l1>>

(* fclose() and clock_gettime(), either of which may fail.                 *)
StartStamp ==
  /\ phase = "start_written"
  /\ phase' = "running"
  /\ started' \in BOOLEAN
  /\ UNCHANGED <<user, status, measured, timed, history, vars>>

-----------------------------------------------------------------------------
(* STOP_PROFILING.                                                         *)
(* clock_gettime() may fail, and only a message says so.                   *)
StopStamp ==
  /\ phase = "running"
  /\ phase' = "stamped"
  /\ work' \in Durations
  /\ timed' \in BOOLEAN
  /\ UNCHANGED <<user, started, status, measured, switches, l1, expired, stopped, clean, vars>>

(* fopen(), and setvbuf(), whose failure skips the write but not the read. *)
StopOpen ==
  /\ phase = "stamped"
  /\ loaded
  /\ phase' \in {"stop_opened", "stop_unwritten"}
  /\ UNCHANGED <<user, outputs, history, vars>>

(* fopen() fails: fread() is called on a null pointer.                     *)
StopCrash ==
  /\ phase = "stamped"
  /\ Exit(user)
  /\ user' = 0 /\ phase' = "idle"
  /\ Forgotten
  /\ UNCHANGED stopped

(* fwrite() and fflush().                                                  *)
StopWrite ==
  /\ phase = "stop_opened"
  /\ WriteEnable(user)
  /\ phase' = "stop_written"
  /\ stopped' = TRUE
  /\ UNCHANGED <<user, outputs, work, switches, l1, expired, clean>>

(* One of them fails before the module sees the command, which stays in    *)
(* the buffer of the stream or is lost.                                    *)
StopWriteFails ==
  /\ phase = "stop_opened"
  /\ phase' \in {"stop_unwritten", "stop_pending"}
  /\ UNCHANGED <<user, outputs, history, vars>>

(* fread() first writes out what the buffer holds.                         *)
StopReflush ==
  /\ phase = "stop_pending"
  /\ WriteEnable(user)
  /\ phase' = "stop_reflushed"
  /\ stopped' = TRUE
  /\ UNCHANGED <<user, outputs, work, switches, l1, expired, clean>>

(* fread(), fclose(), which may fail, and the return value.                *)
StopRead ==
  /\ phase = "stop_unwritten" \/ Sent
  /\ Read(TRUE)
  /\ \E e \in Elapsings :
       measured' = Compensated(e, IF reply'.l1 THEN L1Cost ELSE 0)
  /\ \E closed \in BOOLEAN :
       status' = Verdict(phase = "stop_written" /\ closed, measured', reply'.csw)
  /\ phase' = "done"
  /\ UNCHANGED <<user, started, timed, history>>

(* fread() fails before the handler of the module runs: for want of a page *)
(* for the reply, or because the command cannot be written out first.  The *)
(* time is compensated by what rx_buf happens to hold.                     *)
StopReadFails ==
  /\ Unsent \/ Sent
  /\ \E e \in Elapsings, l1_ns \in Garbage : measured' = Compensated(e, l1_ns)
  /\ status' = "ERR_READ"
  /\ phase' = "done"
  /\ UNCHANGED <<user, started, timed, history, vars>>

-----------------------------------------------------------------------------
(* What happens around the library.                                        *)
L1Runs ==
  /\ L1Fires
  /\ l1' = CASE phase = "start_written" -> "before"
             [] phase = "running"       -> "inside"
             [] phase \in {"stamped", "stop_opened"} \/ Unsent -> "after"
             [] OTHER                   -> l1
  /\ UNCHANGED <<user, phase, outputs, work, switches, expired, stopped, clean>>

WatchdogFires ==
  /\ ResetFires \/ KillFires
  /\ expired' = TRUE
  /\ UNCHANGED <<user, phase, outputs, work, switches, l1, stopped, clean>>

(* Only switches of the process that measures can matter to it.            *)
Between == phase \in {"start_written", "running", "stamped", "stop_opened"} \/ Unsent
SwitchedOut ==
  /\ ~Idle
  /\ Switch(user)
  /\ switches' = IF Between THEN switches + csw'[user] - csw[user] ELSE switches
  /\ UNCHANGED <<user, phase, outputs, work, l1, expired, stopped, clean>>

(* A process ends, killed or not, wherever it is.                          *)
Dies(p) ==
  /\ Exit(p)
  /\ \/ p = user /\ user' = 0 /\ phase' = "idle" /\ Forgotten
     \/ p # user /\ UNCHANGED <<user, phase, outputs, current, expired, clean>>
  /\ UNCHANGED stopped

Born(p) == Fork(p) /\ UNCHANGED libvars

Reload ==
  /\ Idle
  /\ \/ \E created \in BOOLEAN : Insmod(created) /\ stopped' = TRUE
     \/ Rmmod /\ UNCHANGED stopped
  /\ UNCHANGED <<user, phase, outputs, work, switches, l1, expired, clean>>

LibNext ==
  \/ \E p \in Pids : StartOpen(p) \/ Dies(p) \/ Born(p)
  \/ \E delayed \in BOOLEAN : StartWrite(delayed)
  \/ StartStamp \/ StopStamp \/ StopOpen \/ StopCrash
  \/ StopWrite \/ StopWriteFails \/ StopReflush \/ StopRead \/ StopReadFails
  \/ L1Runs \/ WatchdogFires \/ SwitchedOut \/ Reload

LibSpec == LibInit /\ [][LibNext]_allvars

-----------------------------------------------------------------------------
Trusted == phase = "done" /\ started /\ status = "SUCCESS"

(* libprf.h 23: a successful measurement was not disturbed by a context    *)
(* switch, not even just before the first time stamp or after the second,  *)
(* up to what a counter of one byte can tell, whatever happened to the     *)
(* measurements before it.                                                 *)
SuccessMeansUndisturbed == Trusted => Byte(switches) = 0

(* The reported time is the time the code took by itself, if the second    *)
(* stamp could be taken, the time fits in a long and the L1 handler did    *)
(* not run outside the two time stamps.                                    *)
MeasuredIsTrue ==
  Trusted /\ timed /\ Wall < LongLimit /\ l1 \in {"never", "inside"} => measured = work

Free == pid_force_run = 0 /\ irq_enabled /\ timer = [t \in Timers |-> "INACTIVE"]

(* When STOP_PROFILING returns, the scheduler, the interrupts and the      *)
(* timers are as they were before the measurement; or it returns           *)
(* LIBPRF_ERR_READ, neither its command nor its read has reached the       *)
(* module, and a machine that is still locked is under both watchdogs.     *)
StopReturnsTheMachine ==
  [][phase # "done" /\ phase' = "done" =>
       \/ Free'
       \/ status' = "ERR_READ" /\ Unsent /\ Watched']_allvars

(* The measured code runs protected until a watchdog fires, provided the   *)
(* measurement before it has sent its stop command.                        *)
RunsProtected ==
  phase = "running" /\ started /\ clean /\ ~expired =>
    pid_force_run = user /\ ~irq_enabled

(* What the caller of STOP_PROFILING may rely on, with the types.          *)
ResultsTrue == LibTypeOK /\ SuccessMeansUndisturbed /\ MeasuredIsTrue /\ RunsProtected

(* With it, an inductive invariant on top of that of the module.  Once the *)
(* start command was accepted for the user, the counters of the module     *)
(* tell of his switches and of the L1 handler, until the one read that     *)
(* gets them; a user whose last measurement was stopped is not taken for a *)
(* repetition, and is protected until a watchdog fires.                    *)
Accepted == phase = "start_written" \/ (started /\ (Between \/ phase = "stop_written"))
UserAlive == IF phase = "idle" THEN user = 0 ELSE user \in alive
ReadOnce ==
  /\ last_cmd # "ENABLE" /\ (cmd = "ENABLE" => prf_ready)
  /\ Sent => cmd = "ENABLE" /\ last_enable = "ENABLE" /\ timer["L1"] = "INACTIVE"
CountersTell ==
  /\ phase = "start_opened" => switches = 0 /\ l1 = "never"
  /\ Accepted => /\ IF phase = "stop_written" THEN d_csw = switches ELSE csw[user] = d_csw + switches
                 /\ t_L1_inv <=> l1 # "never"
StopsCount == stopped => last_enable # "DISABLE"
ProtectedUntil ==
  Accepted /\ phase \in {"start_written", "running"} /\ clean /\ ~expired =>
    pid_force_run = user /\ ~irq_enabled
LibInv ==
  /\ UserAlive /\ ReadOnce /\ CountersTell /\ StopsCount /\ ProtectedUntil
  /\ ResultsTrue

-----------------------------------------------------------------------------
(* os_ctrl.c 325: the time is compensated for the L1 invalidation.  The    *)
(* handler can also run between the start command and the first stamp, or  *)
(* between the second stamp and the stop command.                          *)
L1IsCompensated == Trusted /\ timed /\ Wall < LongLimit => measured = work

(* libprf.h 18, 23: LIBPRF_ERR_GET_TIME is there for a time that could not *)
(* be taken.  A stop whose clock_gettime() fails may return success, with  *)
(* the time to a stamp of an earlier call.                                 *)
SuccessMeansTimed == Trusted => timed

(* libprf.c 125: the answer is read whatever failed before, and the read   *)
(* handler frees the machine (os_ctrl.c 308).  An fread() that fails       *)
(* before the handler leaves it to the watchdogs.                          *)
StopAlwaysFrees == [][phase # "done" /\ phase' = "done" => Free']_allvars
=============================================================================
