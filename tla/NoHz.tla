-------------------------------- MODULE NoHz --------------------------------
(***************************************************************************)
(* Processors whose tick is stopped (scheduler_mod/sched_mod.c 1164-1248   *)
(* and 4509-4907): who balances the load for them, and how they are woken. *)
(*                                                                         *)
(* External is the idle loop of the architecture and of the tick: it asks  *)
(* select_nohz_load_balancer(1) when it is entered and at each tick while  *)
(* the tick runs, asks (0) when it is left with the tick stopped, clears   *)
(* TS_POLLING before it looks at need_resched for the last time and halts. *)
(* A processor that goes down is left by its tasks once it is inactive.    *)
(***************************************************************************)
EXTENDS Integers, FiniteSets

CONSTANTS
  CPUs, Removable,
  Packages,   \* the groups of the domain with SD_POWERSAVINGS_BALANCE
  PowerModes, \* values of sched_smt_power_savings or sched_mc_power_savings
  Wakers,     \* processors that wake tasks of others or start timers there
  Timers,     \* processors they start timers on
  None

VARIABLES
  pc,         \* what each processor does
  state,      \* active, inactive, stopped or off
  tick,       \* processors whose tick runs
  recently,   \* rq->in_nohz_recently
  cpu_mask, load_balancer,  \* of nohz
  need,       \* processors whose idle task has TIF_NEED_RESCHED
  ipi,        \* processors with a reschedule interrupt on its way
  sends,      \* the processor each one is about to wake, and how far it is
  powersave

vars == <<pc, state, tick, recently, cpu_mask, load_balancer, need, ipi, sends, powersave>>

Online       == {c \in CPUs : state[c] # "off"}
Free(c)      == sends[c] = None
Locked(d)    == \E c \in CPUs : sends[c] # None /\ sends[c].at = "resched" /\ sends[c].cpu = d
Polling(d)   == pc[d] \notin {"armed", "halt", "off"}
Lowest(S)    == CHOOSE c \in S : \A d \in S : c <= d
Do(c, what)  == pc' = [pc EXCEPT ![c] = what]

Init ==
  /\ pc = [c \in CPUs |-> "busy"] /\ state = [c \in CPUs |-> "active"]
  /\ tick = CPUs /\ recently = {} /\ cpu_mask = {} /\ load_balancer = None
  /\ need = {} /\ ipi = {} /\ sends = [c \in CPUs |-> None]
  /\ powersave \in PowerModes

-----------------------------------------------------------------------------
(* resched_task() of the idle task of d, under the lock of its run queue,  *)
(* and resched_cpu(), which does nothing when the lock is taken.           *)
Resched(c, d) == [at |-> "resched", cpu |-> d]
resched_cpu(c, d) ==
  IF Locked(d) \/ d \in need \/ pc[d] = "busy" THEN UNCHANGED <<need, sends>>
  ELSE /\ need' = need \cup {d}
       /\ sends' = IF d = c THEN sends ELSE [sends EXCEPT ![c] = Resched(c, d)]

(* try_to_wake_up() of a task on another processor that is idle.           *)
Wake(c, d) ==
  /\ c \in Wakers /\ pc[c] = "busy" /\ Free(c) /\ c # d /\ pc[d] # "busy" /\ state[d] # "off"
  /\ ~Locked(d) /\ d \notin need
  /\ resched_cpu(c, d)
  /\ UNCHANGED <<pc, state, tick, recently, cpu_mask, load_balancer, ipi, powersave>>

(* wake_up_idle_cpu(), without the lock.                                   *)
wake_up_idle_cpu(c, d) ==
  /\ c \in Wakers /\ pc[c] = "busy" /\ Free(c) /\ c # d /\ d \in Timers /\ pc[d] # "busy" /\ state[d] # "off"
  /\ sends' = [sends EXCEPT ![c] = [at |-> "timer", cpu |-> d]]
  /\ UNCHANGED <<pc, state, tick, recently, cpu_mask, load_balancer, need, ipi, powersave>>

SetNeedResched(c) ==
  /\ ~Free(c) /\ sends[c].at = "timer"
  /\ need' = need \cup {sends[c].cpu}
  /\ sends' = [sends EXCEPT ![c].at = "kick"]
  /\ UNCHANGED <<pc, state, tick, recently, cpu_mask, load_balancer, ipi, powersave>>

TestPollingNoMb(c) == \* mutant: no smp_mb(), the flag is read before the store is seen
  /\ ~Free(c) /\ sends[c].at \in {"resched", "kick"}
  /\ \/ ipi' = IF Polling(sends[c].cpu) THEN ipi ELSE ipi \cup {sends[c].cpu}
     \/ ~Polling(sends[c].cpu) /\ ipi' = ipi
  /\ sends' = [sends EXCEPT ![c] = None]
  /\ UNCHANGED <<pc, state, tick, recently, cpu_mask, load_balancer, need, powersave>>

(* smp_mb(), then the polling flag.                                        *)
TestPolling(c) ==
  /\ ~Free(c) /\ sends[c].at \in {"resched", "kick"}
  /\ ipi' = IF Polling(sends[c].cpu) THEN ipi ELSE ipi \cup {sends[c].cpu}
  /\ sends' = [sends EXCEPT ![c] = None]
  /\ UNCHANGED <<pc, state, tick, recently, cpu_mask, load_balancer, need, powersave>>

-----------------------------------------------------------------------------
is_semi_idle_group(g) == g \cap cpu_mask # {} /\ g \cap cpu_mask # g

(* The groups are walked from that of c on.                                *)
find_new_ilb(c) ==
  LET semi == {g \in Packages : is_semi_idle_group(g)}
      own  == {g \in semi : c \in g}
      g    == IF own # {} THEN CHOOSE h \in own : TRUE ELSE CHOOSE h \in semi : TRUE
  IN  IF cpu_mask = {} THEN None
      ELSE IF ~powersave \/ Cardinality(cpu_mask) < 2 \/ semi = {} THEN Lowest(cpu_mask)
      ELSE Lowest(g \cap cpu_mask)

(* select_nohz_load_balancer(1).  The idle loop does not ask when the next *)
(* event is a tick away; a processor that goes down always asks.           *)
EnterSkips(c) ==
  /\ pc[c] = "enter" /\ state[c] = "active" /\ Free(c)
  /\ Do(c, "poll")
  /\ UNCHANGED <<state, tick, recently, cpu_mask, load_balancer, need, ipi, sends, powersave>>

Enter(c) ==
  /\ pc[c] = "enter" /\ Free(c)
  /\ IF c \notin tick THEN Do(c, "poll") /\ UNCHANGED <<tick, recently, cpu_mask, load_balancer>>
     ELSE /\ recently' = recently \cup {c}
          /\ IF state[c] # "active"
             THEN /\ load_balancer' = IF load_balancer = c THEN None ELSE load_balancer
                  /\ tick' = tick \ {c} /\ Do(c, "poll")
                  /\ UNCHANGED cpu_mask
             ELSE /\ cpu_mask' = cpu_mask \cup {c} /\ Do(c, "weigh")
                  /\ UNCHANGED <<tick, load_balancer>>
  /\ UNCHANGED <<state, need, ipi, sends, powersave>>

(* All sleep: nobody has to balance.                                       *)
Weigh(c) ==
  /\ pc[c] = "weigh"
  /\ IF Cardinality(cpu_mask) = Cardinality(Online)
     THEN /\ load_balancer' = IF load_balancer = c THEN None ELSE load_balancer
          /\ tick' = tick \ {c} /\ Do(c, "poll")
     ELSE /\ Do(c, "claim") /\ UNCHANGED <<tick, load_balancer>>
  /\ UNCHANGED <<state, recently, cpu_mask, need, ipi, sends, powersave>>

ClaimSleeps(c) == \* mutant: the owner is told to stop its tick
  /\ pc[c] = "claim" /\ Do(c, "poll")
  /\ load_balancer' = IF load_balancer = None THEN c ELSE load_balancer
  /\ tick' = tick \ {c}
  /\ UNCHANGED <<state, recently, cpu_mask, need, ipi, sends, powersave>>

Claim(c) ==
  /\ pc[c] = "claim" /\ Do(c, "poll")
  /\ CASE load_balancer = None -> load_balancer' = c /\ UNCHANGED <<tick, need, sends>>
       [] load_balancer = c /\ powersave /\ find_new_ilb(c) \notin {c, None} ->
            load_balancer' = None /\ tick' = tick \ {c} /\ resched_cpu(c, find_new_ilb(c))
       [] load_balancer = c /\ ~(powersave /\ find_new_ilb(c) \notin {c, None}) ->
            UNCHANGED <<load_balancer, tick, need, sends>>
       [] OTHER -> tick' = tick \ {c} /\ UNCHANGED <<load_balancer, need, sends>>
  /\ UNCHANGED <<state, recently, cpu_mask, ipi, powersave>>

(* select_nohz_load_balancer(0), when the tick starts again.               *)
Leave(c) ==
  /\ pc[c] = "poll" /\ c \in need /\ Free(c)
  /\ IF c \in tick THEN UNCHANGED <<tick, cpu_mask, load_balancer>>
     ELSE /\ tick' = tick \cup {c} /\ cpu_mask' = cpu_mask \ {c}
          /\ load_balancer' = IF c \in cpu_mask /\ load_balancer = c THEN None ELSE load_balancer
  /\ Do(c, "leave")
  /\ UNCHANGED <<state, recently, need, ipi, sends, powersave>>

-----------------------------------------------------------------------------
(* schedule(): the idle task goes, or comes back.                          *)
Switch(c) ==
  /\ Free(c) /\ ~Locked(c) /\ state[c] # "stopped"
  /\ \/ pc[c] = "leave" /\ need' = need \ {c} /\ (Do(c, "busy") \/ Do(c, "enter"))
     \/ pc[c] = "busy" /\ Do(c, "enter") /\ UNCHANGED need
  /\ UNCHANGED <<state, tick, recently, cpu_mask, load_balancer, ipi, sends, powersave>>

Arm(c) ==
  /\ pc[c] = "poll" /\ c \notin need /\ Free(c) /\ state[c] # "stopped"
  /\ Do(c, "armed")
  /\ UNCHANGED <<state, tick, recently, cpu_mask, load_balancer, need, ipi, sends, powersave>>

Halt(c) ==
  /\ pc[c] = "armed"
  /\ IF c \in need THEN Do(c, "poll") ELSE Do(c, "halt")
  /\ UNCHANGED <<state, tick, recently, cpu_mask, load_balancer, need, ipi, sends, powersave>>

Interrupted(c) ==
  /\ c \in ipi /\ Free(c)
  /\ ipi' = ipi \ {c}
  /\ IF pc[c] = "halt" THEN Do(c, "poll") ELSE UNCHANGED pc
  /\ UNCHANGED <<state, tick, recently, cpu_mask, load_balancer, need, sends, powersave>>

(* trigger_load_balance() at a tick of a processor that is busy: an owner  *)
(* gives up, and whoever sees that there is none nominates one.            *)
TickBusy(c) ==
  /\ pc[c] = "busy" /\ Free(c) /\ c \in recently
  /\ recently' = recently \ {c}
  /\ IF load_balancer = c THEN cpu_mask' = cpu_mask \ {c} /\ load_balancer' = None
                          ELSE UNCHANGED <<cpu_mask, load_balancer>>
  /\ sends' = [sends EXCEPT ![c] = [at |-> "nominate", cpu |-> c]]
  /\ UNCHANGED <<pc, state, tick, need, ipi, powersave>>

Nominate(c) ==
  /\ ~Free(c) /\ sends[c].at = "nominate"
  /\ LET ilb  == find_new_ilb(c)
         none == load_balancer # None \/ ilb = None
         lost == none \/ Locked(ilb) \/ ilb \in need \/ pc[ilb] = "busy"
     IN  /\ need' = IF lost THEN need ELSE need \cup {ilb}
         /\ sends' = [sends EXCEPT ![c] = IF lost \/ ilb = c THEN None ELSE Resched(c, ilb)]
  /\ UNCHANGED <<pc, state, tick, recently, cpu_mask, load_balancer, ipi, powersave>>

(* The same at a tick of an idle processor: the owner of a machine that    *)
(* sleeps goes to sleep.  Then the idle loop asks again.                   *)
TickIdle(c) ==
  /\ pc[c] \in {"poll", "halt"} /\ Free(c) /\ c \in tick /\ state[c] # "off"
  /\ IF load_balancer = c /\ Cardinality(cpu_mask) = Cardinality(Online)
     THEN resched_cpu(c, c) ELSE UNCHANGED <<need, sends>>
  /\ IF c \in need' THEN Do(c, "poll") ELSE Do(c, "enter")
  /\ UNCHANGED <<state, tick, recently, cpu_mask, load_balancer, ipi, powersave>>

(* Hotplug, as far as it matters here.                                     *)
DownPrepare(c) ==
  /\ c \in Removable /\ state[c] = "active" /\ \A d \in CPUs : state[d] = "active"
  /\ state' = [state EXCEPT ![c] = "inactive"]
  /\ UNCHANGED <<pc, tick, recently, cpu_mask, load_balancer, need, ipi, sends, powersave>>

StopMachine(c) ==
  /\ state[c] = "inactive" /\ pc[c] = "busy" /\ Free(c) /\ ~Locked(c)
  /\ state' = [state EXCEPT ![c] = "stopped"]
  /\ Do(c, "enter")
  /\ UNCHANGED <<tick, recently, cpu_mask, load_balancer, need, ipi, sends, powersave>>

PlayDead(c) ==
  /\ state[c] = "stopped" /\ pc[c] = "poll" /\ Free(c)
  /\ state' = [state EXCEPT ![c] = "off"]
  /\ Do(c, "off") /\ need' = need \ {c} /\ ipi' = ipi \ {c}
  /\ UNCHANGED <<tick, recently, cpu_mask, load_balancer, sends, powersave>>

Up(c) ==
  /\ state[c] = "off"
  /\ state' = [state EXCEPT ![c] = "active"]
  /\ Do(c, "busy") /\ tick' = tick \cup {c} /\ need' = need \ {c} /\ ipi' = ipi \ {c}
  /\ UNCHANGED <<recently, cpu_mask, load_balancer, sends, powersave>>

Next == \E c \in CPUs :
  \/ \E d \in CPUs : Wake(c, d) \/ wake_up_idle_cpu(c, d)
  \/ SetNeedResched(c) \/ TestPolling(c)
  \/ EnterSkips(c) \/ Enter(c) \/ Weigh(c) \/ Claim(c) \/ Leave(c)
  \/ Switch(c) \/ Arm(c) \/ Halt(c) \/ Interrupted(c)
  \/ TickBusy(c) \/ Nominate(c) \/ TickIdle(c)
  \/ DownPrepare(c) \/ StopMachine(c) \/ PlayDead(c) \/ Up(c)

Spec == Init /\ [][Next]_vars

-----------------------------------------------------------------------------
(* run_rebalance_domains(): for whom the owner balances.                   *)
run_rebalance_domains(c) == IF load_balancer = c THEN cpu_mask \ {c} ELSE {}

(* 4638 to 4650: the tick of the owner runs, and it balances for every     *)
(* processor whose tick is stopped.                                        *)
OwnerCovers ==
  load_balancer # None =>
    /\ load_balancer \in tick /\ state[load_balancer] # "off"
    /\ {c \in CPUs \ tick : state[c] = "active"} \subseteq run_rebalance_domains(load_balancer)

(* With it, an inductive invariant: the mask has every processor whose     *)
(* tick is stopped, whoever owns the balancing now; who is about to claim  *)
(* it has its tick and is in the mask; who has died does not own it.       *)
CoverInv ==
  /\ \A c \in CPUs \ tick : state[c] = "active" => c \in cpu_mask
  /\ load_balancer # None => load_balancer \in tick
  /\ \A c \in CPUs :
       /\ pc[c] \in {"weigh", "claim"} => c \in tick \cap cpu_mask /\ state[c] \in {"active", "inactive"}
       /\ state[c] = "stopped" => pc[c] \in {"enter", "poll", "leave"}
       /\ state[c] = "off" \/ (state[c] = "stopped" /\ pc[c] # "enter") => load_balancer # c

(* 1169 and 1240: a processor does not sleep over a request to reschedule, *)
(* though the flag is only looked at before it halts.                      *)
NoLostResched ==
  \A d \in need : pc[d] = "halt" =>
    d \in ipi \/ \E c \in CPUs : sends[c] # None /\ sends[c].cpu = d /\ sends[c].at \in {"resched", "kick"}

(* With it, an inductive invariant: who is between setting the flag of     *)
(* another processor and looking whether that one polls stays awake until  *)
(* then, busy or in the idle loop that has just given the role of the      *)
(* balancer away, as what it is about to send would be forgotten.          *)
Sent == [at : {"resched", "timer", "kick", "nominate"}, cpu : CPUs]
TypeOK ==
  /\ pc \in [CPUs -> {"busy", "enter", "weigh", "claim", "poll", "armed", "halt", "leave", "off"}]
  /\ state \in [CPUs -> {"active", "inactive", "stopped", "off"}]
  /\ sends \in [CPUs -> {None} \cup Sent]
  /\ need \subseteq CPUs /\ cpu_mask \subseteq CPUs /\ tick \subseteq CPUs
  /\ load_balancer \in CPUs \cup {None}
SendersAwake ==
  \A c \in CPUs : sends[c] # None =>
    /\ pc[c] \in {"busy", "poll"}
    /\ sends[c].at = "nominate" => pc[c] = "busy"
SendInv == TypeOK /\ SendersAwake /\ NoLostResched

(* The mask holds processors that are there to be woken.                   *)
MaskIsOnline == cpu_mask \subseteq Online

(* 4655: when the owner has become busy there is one again after its tick. *)
Nominated ==
  \A c \in CPUs : pc[c] = "busy" /\ Free(c) /\ c \notin recently /\ load_balancer = None /\ cpu_mask # {}
    => \E d \in cpu_mask : d \in need \/ d \in tick
=============================================================================
