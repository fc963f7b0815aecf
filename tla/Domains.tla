------------------------------ MODULE Domains ------------------------------
(***************************************************************************)
(* Scheduling domains (scheduler_mod/sched_mod.c 7609-7770, 7781-9240):    *)
(* how the domains, groups and powers of a processor are built from the    *)
(* topology, which of them are dropped, and how partition_sched_domains()  *)
(* and hotplug replace them while other processors walk them.              *)
(*                                                                         *)
(* The hotplug lock makes a repartition and a change of a processor        *)
(* exclude each other; what runs under a run queue lock is one step.       *)
(***************************************************************************)
EXTENDS Integers, Sequences, FiniteSetsExt

CONSTANTS
  CPUs,
  Topologies,   \* thread, core and node of each processor, distances, and what is configured
  Isolated,     \* cpu_isolated_map
  Removable,    \* processors that may go offline
  Walkers,      \* processors that walk domains
  Cpusets,      \* sets of masks, each with a relax_domain_level, that cpusets ask for
  NODES_PER_DOMAIN,
  Scale, Gain,  \* SCHED_LOAD_SCALE, smt_gain
  Roots, def_root_domain,
  None

VARIABLES
  topo,      \* the topology
  active,    \* cpu_active_mask
  doms_cur,  \* the partition in force: span, relax and topology of each part
  memory,    \* for which part the domains of each processor were built last
  attached,  \* processors whose rq->sd is not NULL
  rd,        \* rq->rd
  roots,     \* root domains that are allocated: reference count, span, online
  online,    \* rq->online
  work,      \* where partition_sched_domains() is
  hotplug,   \* the processor that comes or goes, and how far
  reader,    \* what a processor walks, with preemption off
  tables,    \* /proc/sys/kernel/sched_domain: for which part it shows each processor's domains
  stale      \* processors whose entry of sched_group_nodes_bycpu[] is an array that was freed

vars == <<topo, active, doms_cur, memory, attached, rd, roots, online, work, hotplug, reader,
          tables, stale>>

-----------------------------------------------------------------------------
(* The topology t, seen from processor c, within the processors M.         *)
Threads(t, c, M)  == {d \in M : t.thread[d] = t.thread[c]}
Cores(t, c, M)    == {d \in M : t.core[d] = t.core[c]}
OfNode(t, n)      == {d \in CPUs : t.node[d] = n}
NodeCpus(t, c, M) == OfNode(t, t.node[c]) \cap M
Nodes(t)          == {t.node[c] : c \in CPUs}

(* The closest node that is not used; the first one from node n on.        *)
find_next_best_node(t, n, used) ==
  LET N       == Cardinality(Nodes(t))
      left    == Nodes(t) \ used
      from(m) == (m + N - n) % N
  IN  CHOOSE m \in left : \A k \in left : \/ t.distance[n][m] < t.distance[n][k]
                                          \/ t.distance[n][m] = t.distance[n][k] /\ from(m) <= from(k)

sched_domain_node_span(t, n) ==
  LET Used[i \in 1..NODES_PER_DOMAIN] ==
        IF i = 1 THEN {n}
        ELSE IF Used[i - 1] = Nodes(t) THEN Used[i - 1]
        ELSE Used[i - 1] \cup {find_next_best_node(t, n, Used[i - 1])}
  IN  UNION {OfNode(t, m) : m \in {n} \cup Used[NODES_PER_DOMAIN]}

(* The levels, the flags they start with (linux/topology.h) and what       *)
(* set_domain_attribute() makes of them; a negative request asks nothing.  *)
Rank == [SIBLING |-> 1, MC |-> 2, CPU |-> 3, NODE |-> 4, ALLNODES |-> 5]
NeedGroups == {"load_balance", "newidle", "fork_exec", "cpupower", "pkg_resources"}
Flags ==
  LET most == {"load_balance", "newidle", "fork_exec", "wake_affine"}
  IN  [SIBLING |-> most \cup {"cpupower"}, MC |-> most \cup {"pkg_resources"}, CPU |-> most,
       NODE |-> {"load_balance", "fork_exec", "serialize"}, ALLNODES |-> {"load_balance", "serialize"}]
set_domain_attribute(level, relax) ==
  IF relax < 0 THEN Flags[level]
  ELSE IF relax < Rank[level] THEN Flags[level] \ {"newidle"} ELSE Flags[level] \cup {"newidle"}

(* cpu_to_cpu_group() and so on: the processor a group is kept at.         *)
GroupId(t, level, c, M) ==
  Min(CASE level = "SIBLING" -> {c}
        [] level = "MC"      -> IF t.smt THEN Threads(t, c, M) ELSE {c}
        [] level = "CPU"     -> IF t.mc THEN Cores(t, c, M) ELSE IF t.smt THEN Threads(t, c, M) ELSE {c}
        [] OTHER             -> NodeCpus(t, c, M))

(* S as a list in the order of a relation R.                               *)
Listed(S, R) == [k \in 1..Cardinality(S) |-> CHOOSE x \in S : Cardinality({y \in S : <<y, x>> \in R}) = k - 1]

(* Who counts the numbers from first on, and then those below it, comes to *)
(* i before j.                                                             *)
Before(first, i, j) == IF (i < first) = (j < first) THEN i < j ELSE j < first

(* init_sched_build_groups(): the ring of the groups of a span, from the   *)
(* group of c on.                                                          *)
GroupOf(t, level, span, c, M) == {j \in span : GroupId(t, level, j, M) = GroupId(t, level, c, M)}
Ring(t, level, span, c, M) ==
  LET groups == {GroupOf(t, level, span, i, M) : i \in span}
      first  == Min(GroupOf(t, level, span, c, M))
  IN  Listed(groups, {p \in groups \X groups : Before(first, Min(p[1]), Min(p[2]))})

(* The groups around node n: itself, then the nodes near it from the next  *)
(* number on.                                                              *)
build_numa_sched_groups(t, n, M) ==
  LET span  == sched_domain_node_span(t, n) \cap M
      nodes == {m \in Nodes(t) : OfNode(t, m) \cap span # {}}
      ring  == Listed(nodes, {p \in nodes \X nodes : Before(n, p[1], p[2])})
  IN  [k \in DOMAIN ring |-> OfNode(t, ring[k]) \cap span]

(* init_sched_groups_power(): the power of a group is that of the groups   *)
(* of its child, and siblings share the power of one core.                 *)
Sum(f, S) == Cardinality(UNION {{c} \X (1..f[c]) : c \in S})
SiblingPower(t, c, M) ==
  LET w == Cardinality(Threads(t, c, M))
  IN  IF t.smt /\ w > 1 THEN ((Scale * Gain) \div w) \div Scale ELSE Scale
McPower(t, c, M) ==
  IF t.smt THEN Sum([j \in M |-> SiblingPower(t, j, M)], Threads(t, c, M)) ELSE Scale
CpuPower(t, c, M) ==
  IF t.mc THEN Sum([j \in M |-> McPower(t, j, M)], {j \in Cores(t, c, M) : GroupId(t, "MC", j, M) = j})
  ELSE McPower(t, c, M)

EveryCpuPower(t, g, M) == \* mutant: a package counts once for each of its processors
  Sum([j \in M |-> CpuPower(t, j, M)], g)

(* init_numa_sched_groups_power(): each package counts once.               *)
NumaPower(t, g, M) ==
  Sum([j \in M |-> CpuPower(t, j, M)], {j \in g : GroupId(t, "CPU", j, M) = j})

Power(t, level, g, M) ==
  CASE level = "SIBLING" -> SiblingPower(t, Min(g), M)
    [] level = "MC"      -> McPower(t, Min(g), M)
    [] level = "CPU"     -> CpuPower(t, Min(g), M)
    [] OTHER             -> NumaPower(t, g, M)

-----------------------------------------------------------------------------
(* One domain of processor c when the part M is built.  The groups of the  *)
(* top level are only made when the last processor asked for that level.   *)
AllnodesNeeded(t, c, M) == Cardinality(M) > NODES_PER_DOMAIN * Cardinality(NodeCpus(t, c, M))
Domain(t, level, span, c, M, relax) ==
  LET built == level # "ALLNODES" \/ AllnodesNeeded(t, Max(M), M)
      ring  == IF level = "NODE" THEN build_numa_sched_groups(t, t.node[c], M)
               ELSE IF built THEN Ring(t, level, span, c, M) ELSE <<>>
  IN  [level |-> level, span |-> span, flags |-> set_domain_attribute(level, relax), groups |-> ring,
       power |-> [k \in DOMAIN ring |-> Power(t, level, ring[k], M)]]

(* __build_sched_domains(): the domains of c, from the bottom.             *)
__build_sched_domains(part, c) ==
  LET t == part.topo
      M == part.span
      at(use, level, span) == IF use THEN <<Domain(t, level, span, c, M, part.relax)>> ELSE <<>>
  IN  at(t.smt, "SIBLING", Threads(t, c, M)) \o at(t.mc, "MC", Cores(t, c, M))
      \o at(TRUE, "CPU", NodeCpus(t, c, M))
      \o at(t.numa, "NODE", sched_domain_node_span(t, t.node[c]) \cap M)
      \o at(t.numa /\ AllnodesNeeded(t, c, M), "ALLNODES", M)

sd_degenerate(sd) ==
  \/ Cardinality(sd.span) = 1
  \/ Len(sd.groups) = 1 /\ "wake_affine" \notin sd.flags

sd_parent_degenerate(sd, parent) ==
  \/ sd_degenerate(parent)
  \/ /\ sd.span = parent.span
     /\ LET uniform == Cardinality(Nodes(topo)) = 1
            flags == IF Len(parent.groups) # 1 THEN parent.flags
                     ELSE (parent.flags \ NeedGroups) \ (IF uniform THEN {"serialize"} ELSE {})
        IN  flags \subseteq sd.flags

(* The loop of cpu_attach_domain(): what does not contribute goes.  There  *)
(* are five levels at most.                                                *)
Unlink(sds, k, low) ==
  IF k > Len(sds) \/ sd_parent_degenerate(low[Len(low)], sds[k]) THEN low ELSE Append(low, sds[k])
Contributing(sds) ==
  LET kept == Unlink(sds, 5, Unlink(sds, 4, Unlink(sds, 3, Unlink(sds, 2, <<sds[1]>>))))
  IN  IF sd_degenerate(kept[1]) THEN Tail(kept) ELSE kept

(* for_each_domain(c).                                                     *)
sd(c) == IF c \in attached THEN Contributing(__build_sched_domains(memory[c], c)) ELSE <<>>

-----------------------------------------------------------------------------
Part(M, relax) == [span |-> M, relax |-> relax, topo |-> topo]
Idle           == [at |-> "idle"]
Quiet          == work = Idle /\ hotplug = Idle
fallback_doms  == active \ Isolated

(* After sched_init(): every processor is on def_root_domain, nothing is   *)
(* attached, and sched_init_smp() is about to build the first part.        *)
Init ==
  /\ topo \in Topologies
  /\ active = CPUs /\ online = CPUs
  /\ doms_cur = {Part(fallback_doms, -1)}
  /\ memory = [c \in CPUs |-> None] /\ attached = {}
  /\ rd = [c \in CPUs |-> def_root_domain]
  /\ roots = [r \in {def_root_domain} |-> [count |-> 1 + Cardinality(CPUs), span |-> CPUs, online |-> CPUs]]
  /\ work = [at |-> "build", destroy |-> {}, build |-> doms_cur]
  /\ hotplug = Idle
  /\ reader = [c \in CPUs |-> None]
  /\ tables = [c \in CPUs |-> None]
  /\ stale = {}

-----------------------------------------------------------------------------
(* The tables under /proc point into the domains of every processor;      *)
(* sd_free_ctl_entry() frees all of them.                                  *)
NoTables == [c \in CPUs |-> None]
sd_alloc_ctl_cpu_table(c) == IF c \in attached THEN memory[c] ELSE None

UnregisterLater == UNCHANGED tables \* mutant: only the next registration replaces the tables

unregister_sched_domain_sysctl == tables' = NoTables

(* partition_sched_domains(): what is not in the new partition is          *)
(* destroyed, what is not in the old one is built; everything when the     *)
(* topology has changed.                                                   *)
dattrs_equal(p, q) == p.relax = q.relax
Match(p, q)        == p.span = q.span /\ dattrs_equal(p, q)
Without(S, T)      == {p \in S : \A q \in T : ~Match(p, q)}
Partition(new, t, forced) ==
  LET fresh == forced \/ t # topo
      parts == {[p EXCEPT !.topo = t] : p \in new}
  IN  /\ topo' = t
      /\ doms_cur' = parts
      /\ work' = [at |-> "destroy",
                  destroy |-> IF fresh THEN doms_cur ELSE Without(doms_cur, parts),
                  build   |-> IF fresh THEN parts ELSE Without(parts, doms_cur)]
      /\ unregister_sched_domain_sysctl

(* cpuset: parts that do not overlap, of processors that are online.       *)
Repartition(new, t) ==
  /\ Quiet
  /\ \A p, q \in new : p # q => p.span \cap q.span = {}
  /\ \A p \in new : p.span # {} /\ p.span \subseteq active
  /\ Partition(new, t, FALSE)
  /\ UNCHANGED <<active, memory, attached, rd, roots, online, hotplug, reader, stale>>

(* doms_new is NULL: the processors that are not isolated are one part.    *)
Rebuild(t) == Partition({Part(fallback_doms, -1)}, t, TRUE)

RebuildAll(t) ==
  /\ Quiet
  /\ Rebuild(t)
  /\ UNCHANGED <<active, memory, attached, rd, roots, online, hotplug, reader, stale>>

(* rq_attach_root(): the reference to the old root domain is dropped, and  *)
(* with the last one the root domain; set_rq_offline(), set_rq_online().    *)
AttachSetsOnline(c, r) == \* mutant: cpu_active_mask is not asked
  LET old   == rd[c]
      left  == [roots EXCEPT ![old] = [count |-> @.count - 1, span |-> @.span \ {c}, online |-> @.online \ {c}]]
      kept  == {q \in DOMAIN left : left[q].count > 0 \/ q = r}
  IN  /\ rd' = [rd EXCEPT ![c] = r]
      /\ roots' = [q \in kept |->
           IF q = r THEN [count |-> left[q].count + 1, span |-> left[q].span \cup {c},
                          online |-> left[q].online \cup {c}]
           ELSE left[q]]
      /\ online' = online \cup {c}

rq_attach_root(c, r) ==
  LET old   == rd[c]
      left  == [roots EXCEPT ![old] = [count |-> @.count - 1, span |-> @.span \ {c}, online |-> @.online \ {c}]]
      kept  == {q \in DOMAIN left : left[q].count > 0 \/ q = r}
  IN  /\ rd' = [rd EXCEPT ![c] = r]
      /\ roots' = [q \in kept |->
           IF q = r THEN [count |-> left[q].count + 1, span |-> left[q].span \cup {c},
                          online |-> IF c \in active THEN left[q].online \cup {c} ELSE left[q].online]
           ELSE left[q]]
      /\ online' = IF c \in active THEN online \cup {c} ELSE online \ {c}

(* detach_destroy_domains(), processor by processor.                       *)
Destroy(part) ==
  /\ work.at = "destroy" /\ part \in work.destroy
  /\ work' = [at |-> "detach", part |-> part, todo |-> part.span,
              destroy |-> work.destroy \ {part}, build |-> work.build]
  /\ UNCHANGED <<topo, active, doms_cur, memory, attached, rd, roots, online, hotplug, reader, tables, stale>>

Detach ==
  /\ work.at = "detach" /\ work.todo # {}
  /\ LET c == Min(work.todo) IN
       /\ rq_attach_root(c, def_root_domain)
       /\ attached' = attached \ {c}
       /\ work' = [work EXCEPT !.todo = @ \ {c}]
  /\ UNCHANGED <<topo, active, doms_cur, memory, hotplug, reader, tables, stale>>

FreeAtOnce == \* mutant: no synchronize_sched()
  /\ work.at = "detach" /\ work.todo = {}
  /\ work' = [at |-> "free", part |-> work.part, wait |-> {},
              destroy |-> work.destroy, build |-> work.build]
  /\ UNCHANGED <<topo, active, doms_cur, memory, attached, rd, roots, online, hotplug, reader, tables, stale>>

(* It waits for the walks that have begun.                                 *)
synchronize_sched ==
  /\ work.at = "detach" /\ work.todo = {}
  /\ work' = [at |-> "free", part |-> work.part, wait |-> {c \in CPUs : reader[c] # None},
              destroy |-> work.destroy, build |-> work.build]
  /\ UNCHANGED <<topo, active, doms_cur, memory, attached, rd, roots, online, hotplug, reader, tables, stale>>

(* Only the groups of nodes are on the heap.                               *)
Stale(part) == part.topo.numa /\ part.span \cap stale # {}

free_sched_groups ==
  /\ work.at = "free" /\ work.wait = {} /\ ~Stale(work.part)
  /\ memory' = [c \in CPUs |-> IF c \in work.part.span /\ work.part.topo.numa THEN None ELSE memory[c]]
  /\ work' = [at |-> "destroy", destroy |-> work.destroy, build |-> work.build]
  /\ UNCHANGED <<topo, active, doms_cur, attached, rd, roots, online, hotplug, reader, tables, stale>>

(* It walks an array that was freed, and frees what it finds there, maybe  *)
(* groups that are in use, and the array once more.  Whatever follows, if  *)
(* the kernel goes on at all, is not modelled.                             *)
Corrupt == work.at = "corrupt"
free_stale_groups ==
  /\ work.at = "free" /\ work.wait = {} /\ Stale(work.part)
  /\ \E lost \in SUBSET CPUs : memory' = [c \in CPUs |-> IF c \in lost THEN None ELSE memory[c]]
  /\ work' = [at |-> "corrupt"]
  /\ UNCHANGED <<topo, active, doms_cur, attached, rd, roots, online, hotplug, reader, tables, stale>>

DestroyedAll ==
  /\ work.at = "destroy" /\ work.destroy = {}
  /\ work' = [work EXCEPT !.at = "build"]
  /\ UNCHANGED <<topo, active, doms_cur, memory, attached, rd, roots, online, hotplug, reader, tables, stale>>

(* __build_sched_domains(): a root domain and the domains of every         *)
(* processor.  The array of the node groups is kept at the first one.      *)
NewRoot == [count |-> 0, span |-> {}, online |-> {}]
Build(part) ==
  /\ work.at = "build" /\ part \in work.build
  /\ LET r == CHOOSE r \in Roots : r \notin DOMAIN roots IN
       /\ roots' = [q \in DOMAIN roots \cup {r} |-> IF q = r THEN NewRoot ELSE roots[q]]
       /\ memory' = [c \in CPUs |-> IF c \in part.span THEN part ELSE memory[c]]
       /\ work' = [at |-> "attach", root |-> r, todo |-> part.span,
                   destroy |-> {}, build |-> work.build \ {part}]
  /\ stale' = IF part.topo.numa THEN stale \ {Min(part.span)} ELSE stale
  /\ UNCHANGED <<topo, active, doms_cur, attached, rd, online, hotplug, reader, tables>>

(* Memory is short, and partition_sched_domains() does not ask.  From 8672 *)
(* on the array is entered for the first processor of the part; what frees *)
(* it at 8642 leaves the entry.                                            *)
BuildFails(part) ==
  /\ work.at = "build" /\ part \in work.build
  /\ work' = [work EXCEPT !.build = @ \ {part}]
  /\ \/ UNCHANGED stale
     \/ part.topo.numa /\ stale' = stale \cup {Min(part.span)}
  /\ UNCHANGED <<topo, active, doms_cur, memory, attached, rd, roots, online, hotplug, reader, tables>>

(* build_numa_sched_groups() fails when the domains are set up: what it    *)
(* has made is freed, and the entry with it.                               *)
GroupsFail(part) ==
  /\ work.at = "build" /\ part \in work.build /\ part.topo.numa
  /\ work' = [work EXCEPT !.build = @ \ {part}]
  /\ memory' = [c \in CPUs |-> IF c \in part.span THEN None ELSE memory[c]]
  /\ stale' = stale \ {Min(part.span)}
  /\ UNCHANGED <<topo, active, doms_cur, attached, rd, roots, online, hotplug, reader, tables>>

(* cpu_attach_domain() of the next processor.                              *)
Attach ==
  /\ work.at = "attach" /\ work.todo # {}
  /\ LET c == Min(work.todo) IN
       /\ rq_attach_root(c, work.root)
       /\ attached' = attached \cup {c}
       /\ work' = [work EXCEPT !.todo = @ \ {c}]
  /\ UNCHANGED <<topo, active, doms_cur, memory, hotplug, reader, tables, stale>>

BuiltAll ==
  /\ work.at = "attach" /\ work.todo = {}
  /\ work' = [at |-> "build", destroy |-> {}, build |-> work.build]
  /\ UNCHANGED <<topo, active, doms_cur, memory, attached, rd, roots, online, hotplug, reader, tables, stale>>

(* The end of partition_sched_domains(); no table when memory is short.    *)
register_sched_domain_sysctl ==
  /\ work.at = "build" /\ work.build = {}
  /\ tables' \in {NoTables, [c \in CPUs |-> IF c \in active THEN sd_alloc_ctl_cpu_table(c) ELSE None]}
  /\ work' = Idle
  /\ UNCHANGED <<topo, active, doms_cur, memory, attached, rd, roots, online, hotplug, reader, stale>>

-----------------------------------------------------------------------------
(* Hotplug, phase by phase: the notifiers of this file are migration_call  *)
(* (CPU_DYING, CPU_ONLINE) and update_sched_domains (CPU_DEAD, CPU_ONLINE).*)
DownPrepare(c) ==
  /\ Quiet /\ c \in active \cap Removable
  /\ active' = active \ {c}
  /\ hotplug' = [at |-> "down", cpu |-> c]
  /\ UNCHANGED <<topo, doms_cur, memory, attached, rd, roots, online, work, reader, tables, stale>>

DownFailed ==
  /\ hotplug.at = "down"
  /\ active' = active \cup {hotplug.cpu} /\ hotplug' = Idle
  /\ UNCHANGED <<topo, doms_cur, memory, attached, rd, roots, online, work, reader, tables, stale>>

(* stop_machine(): nobody walks; set_rq_offline().                         *)
Dying ==
  /\ hotplug.at = "down" /\ \A c \in CPUs : reader[c] = None
  /\ LET c == hotplug.cpu IN
       /\ online' = online \ {c}
       /\ roots' = IF c \in online THEN [roots EXCEPT ![rd[c]].online = @ \ {c}] ELSE roots
  /\ hotplug' = [hotplug EXCEPT !.at = "dead"]
  /\ UNCHANGED <<topo, active, doms_cur, memory, attached, rd, work, reader, tables, stale>>

Dead ==
  /\ hotplug.at = "dead"
  /\ Rebuild(topo)
  /\ hotplug' = Idle
  /\ UNCHANGED <<active, memory, attached, rd, roots, online, reader, stale>>

(* set_rq_online(), then the domains are rebuilt.                          *)
Online(c) ==
  /\ Quiet /\ c \in CPUs \ active
  /\ active' = active \cup {c}
  /\ online' = online \cup {c}
  /\ roots' = [roots EXCEPT ![rd[c]].online = @ \cup {c}]
  /\ hotplug' = [at |-> "online", cpu |-> c]
  /\ UNCHANGED <<topo, doms_cur, memory, attached, rd, work, reader, tables, stale>>

OnlineRebuild ==
  /\ hotplug.at = "online"
  /\ Rebuild(topo)
  /\ hotplug' = Idle
  /\ UNCHANGED <<active, memory, attached, rd, roots, online, reader, stale>>

(* A processor walks its domains, or those of another, with preemption off.*)
Walk(c, d) ==
  /\ c \in active \cap Walkers /\ reader[c] = None /\ d \in attached
  /\ reader' = [reader EXCEPT ![c] = [cpu |-> d, part |-> memory[d]]]
  /\ UNCHANGED <<topo, active, doms_cur, memory, attached, rd, roots, online, work, hotplug, tables, stale>>

EndWalk(c) ==
  /\ reader[c] # None
  /\ reader' = [reader EXCEPT ![c] = None]
  /\ work' = IF work.at = "free" THEN [work EXCEPT !.wait = @ \ {c}] ELSE work
  /\ UNCHANGED <<topo, active, doms_cur, memory, attached, rd, roots, online, hotplug, tables, stale>>

Next ==
  \/ \E t \in Topologies : \/ RebuildAll(t)
                           \/ \E new \in Cpusets : Repartition({Part(c[1], c[2]) : c \in new}, t)
  \/ \E part \in doms_cur : Build(part) \/ BuildFails(part) \/ GroupsFail(part)
  \/ \E part \in IF work.at = "destroy" THEN work.destroy ELSE {} : Destroy(part)
  \/ Detach \/ synchronize_sched \/ free_sched_groups \/ free_stale_groups \/ DestroyedAll
  \/ Attach \/ BuiltAll \/ register_sched_domain_sysctl
  \/ DownFailed \/ Dying \/ Dead \/ OnlineRebuild
  \/ \E c \in CPUs : \/ DownPrepare(c) \/ Online(c) \/ EndWalk(c)
                     \/ \E d \in CPUs : Walk(c, d)

Spec == Init /\ [][Next]_vars

-----------------------------------------------------------------------------
(* sched_domain_debug_one(), and 8501: seen from every processor the       *)
(* domains nest, hold it, and their groups, its own first, are a partition *)
(* of the span, each with the power of its cores; each of them has         *)
(* something to balance; the last one is the whole part.  Left out are     *)
(* parts whose nodes do not agree on the top level, see AllnodesBuilt, and *)
(* for the last what PartsReached says.                                    *)
CorePower(t, g, M) == Sum([c \in M |-> SiblingPower(t, c, M)], g)
DomainSound(d, c, t, M) ==
  /\ c \in d.span /\ c \in d.groups[1] /\ Len(d.groups) > 1
  /\ UNION {d.groups[i] : i \in DOMAIN d.groups} = d.span
  /\ \A i, j \in DOMAIN d.groups : i # j => d.groups[i] \cap d.groups[j] = {}
  /\ \A i \in DOMAIN d.groups : d.power[i] = CorePower(t, d.groups[i], M)
Agreed(part) == \A c, d \in part.span : AllnodesNeeded(part.topo, c, part.span) = AllnodesNeeded(part.topo, d, part.span)
Reached(part, c) ==
  AllnodesNeeded(part.topo, c, part.span) \/ part.span \subseteq sched_domain_node_span(part.topo, part.topo.node[c])
DomainsSound ==
  \A c \in attached : Agreed(memory[c]) =>
    LET sds == sd(c)
        M   == memory[c].span
    IN  /\ \A k \in DOMAIN sds : /\ DomainSound(sds[k], c, memory[c].topo, M)
                                 /\ k > 1 => sds[k - 1].span \subseteq sds[k].span
        /\ Cardinality(M) > 1 /\ Reached(memory[c], c) => sds # <<>> /\ sds[Len(sds)].span = M

(* No processor of a part is out of the others' reach.                     *)
PartsReached == \A c \in attached : Agreed(memory[c]) => Reached(memory[c], c)

AllnodesBuilt == \A c \in attached, k \in 1..5 : k \in DOMAIN sd(c) => Len(sd(c)[k].groups) > 0

(* BUG_ONs at 7677 and 7743: a root domain counts the run queues attached  *)
(* to it and knows which of them are online; it exists exactly as long.    *)
(* When nothing is going on the online run queues are the active ones.     *)
RootsCounted ==
  /\ \A c \in CPUs : rd[c] \in DOMAIN roots
  /\ \A r \in DOMAIN roots :
       LET rqs == {c \in CPUs : rd[c] = r} IN
         /\ roots[r].span = rqs /\ roots[r].online = rqs \cap online
         /\ roots[r].count = Cardinality(rqs) + (IF r = def_root_domain THEN 1 ELSE 0)
         /\ rqs = {} => r = def_root_domain \/ (work.at = "attach" /\ work.root = r)
  /\ hotplug = Idle => online = active

(* Whoever walks domains finds them as they were: nothing is freed or      *)
(* built anew under him, unless an array was freed twice.                  *)
WalksUndisturbed == \A c \in CPUs : reader[c] # None => memory[reader[c].cpu] = reader[c].part

(* proc_dointvec_minmax() writes into what a table points to: a table is   *)
(* only registered while the domains it was made from are attached.        *)
TablesNameDomains == \A c \in CPUs : tables[c] # None => c \in attached /\ memory[c] = tables[c]

(* 9016 to 9018: the partition in force is built.                          *)
RecordedIsBuilt ==
  work = Idle => \A part \in doms_cur : \A c \in part.span \cap active : c \in attached /\ memory[c] = part

(* __free_domain_allocs(): a build that fails gives back all it allocated, *)
(* and nobody finds it again.                                              *)
FreedOnce == ~Corrupt

-----------------------------------------------------------------------------
(* Why the root domains are counted and nobody is disturbed.               *)
Span(S)    == UNION {p.span : p \in S}
Destroying == IF work = Idle THEN {} ELSE work.destroy
Building   == IF work = Idle THEN {} ELSE work.build
Leaving    == IF work.at = "detach" THEN work.todo ELSE {}

TypeOK ==
  /\ active \subseteq CPUs /\ CPUs \ Removable \subseteq active
  /\ online \subseteq CPUs /\ attached \subseteq CPUs
  /\ rd \in [CPUs -> Roots \cup {def_root_domain}]
  /\ roots \in [DOMAIN roots -> [count : Nat, span : SUBSET CPUs, online : SUBSET CPUs]]
  /\ def_root_domain \in DOMAIN roots
  /\ reader = [c \in CPUs |-> reader[c]]
  /\ \A c \in CPUs : reader[c] # None => reader[c].cpu \in CPUs

(* What is at hand in each stage of a repartition.                         *)
WorkShape ==
  \/ work = Idle
  \/ /\ work.at \in {"destroy", "build"}
     /\ work = [at |-> work.at, destroy |-> work.destroy, build |-> work.build]
  \/ /\ work.at = "detach"
     /\ work = [at |-> "detach", part |-> work.part, todo |-> work.todo,
                destroy |-> work.destroy, build |-> work.build]
  \/ /\ work.at = "free"
     /\ work = [at |-> "free", part |-> work.part, wait |-> work.wait,
                destroy |-> work.destroy, build |-> work.build]
  \/ /\ work.at = "attach"
     /\ work = [at |-> "attach", root |-> work.root, todo |-> work.todo,
                destroy |-> {}, build |-> work.build]

(* Hotplug and a repartition exclude each other; a processor that goes is  *)
(* the only one that is online and no longer active.                       *)
HotplugAlone ==
  /\ work # Idle => hotplug = Idle /\ tables = NoTables
  /\ hotplug = Idle \/ hotplug.at \in {"down", "dead", "online"}
  /\ IF hotplug.at = "down" THEN hotplug.cpu \in online /\ active = online \ {hotplug.cpu}
     ELSE active = online

(* The parts do not overlap; what is attached is in a part that is kept,   *)
(* or is going to be detached, and before its new part is built.           *)
PartsApart ==
  /\ \A p \in doms_cur : p.span # {} /\ p.span \subseteq CPUs
  /\ \A p, q \in doms_cur : p # q => p.span \cap q.span = {}
  /\ Building \subseteq doms_cur
  /\ \A p \in Destroying : p.span \subseteq CPUs
  /\ attached \subseteq Span(doms_cur) \cup Span(Destroying) \cup Leaving
  /\ \A p \in Building : p.span \cap attached \subseteq Span(Destroying) \cup Leaving

StageHolds ==
  /\ work.at = "detach" => work.part.span \subseteq CPUs /\ work.todo \subseteq work.part.span
                           /\ attached \cap work.part.span \subseteq work.todo
  /\ work.at = "free" => work.part.span \cap attached = {}
  /\ work.at = "build" => work.destroy = {}
  /\ work.at = "attach" => /\ work.root \in Roots \cap DOMAIN roots
                           /\ \E p \in doms_cur \ work.build : work.todo \subseteq p.span
                           /\ work.todo = {} => \E c \in CPUs : rd[c] = work.root

(* A walk is in attached domains, or the one who detached them waits for it.*)
WalksKnown ==
  \A c \in CPUs : reader[c] # None =>
    \/ reader[c].cpu \in attached
    \/ work.at = "detach" /\ reader[c].cpu \in work.part.span
    \/ work.at = "free" /\ reader[c].cpu \in work.part.span /\ c \in work.wait

(* A part whose domains are built has a topology and has the processor.    *)
Known(p, c) == p.topo \in Topologies /\ p.span \subseteq CPUs /\ c \in p.span
BuiltKnown ==
  /\ topo \in Topologies /\ \A p \in doms_cur : p.topo \in Topologies
  /\ \A c \in attached : Known(memory[c], c)
  /\ work.at = "attach" => \A c \in work.todo : Known(memory[c], c)

DomainsInv ==
  /\ TypeOK /\ WorkShape /\ HotplugAlone /\ PartsApart /\ StageHolds /\ WalksKnown
  /\ RootsCounted /\ WalksUndisturbed /\ TablesNameDomains
=============================================================================
