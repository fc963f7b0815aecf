------------------------- MODULE KernelLoops_proofs -------------------------
(***************************************************************************)
(* Theorems about the parts Domains and L1Invalidator of Kernel: scheduling*)
(* domains are whole and their lifetimes kept, for any processors,         *)
(* topologies and partitions, and the loops that build them and that empty *)
(* a cache set do what they are there for.                                 *)
(***************************************************************************)
EXTENDS Kernel_proofs

(* What the root domains k are when f says where the run queues are        *)
(* attached and on which of them are online; new may be still empty.       *)
Rqs(f, r)         == {c \in MachineCPUs : f[c] = r}
RootOf(f, on, r)  ==
  [count  |-> Cardinality(Rqs(f, r)) + (IF r = def_root_domain THEN 1 ELSE 0),
   span   |-> Rqs(f, r),
   online |-> Rqs(f, r) \cap on]
RootsTold(f, k, on, new) ==
  /\ f \in [MachineCPUs -> Roots \cup {def_root_domain}] /\ on \subseteq MachineCPUs
  /\ def_root_domain \in DOMAIN k /\ \A c \in MachineCPUs : f[c] \in DOMAIN k
  /\ k = [r \in DOMAIN k |-> RootOf(f, on, r)]
  /\ \A r \in DOMAIN k : Rqs(f, r) = {} => r \in {def_root_domain, new}

(* The root domains after a run queue left the root domain it was attached *)
(* to, and after it came to r.                                             *)
Left(k, old, c) ==
  [k EXCEPT ![old] = [count |-> @.count - 1, span |-> @.span \ {c}, online |-> @.online \ {c}]]
Joined(l, r, c, on) ==
  [q \in {q \in DOMAIN l : l[q].count > 0 \/ q = r} |->
     IF q = r THEN [count |-> l[q].count + 1, span |-> l[q].span \cup {c},
                    online |-> IF c \in on THEN l[q].online \cup {c} ELSE l[q].online]
     ELSE l[q]]

LEMMA RqsCounted ==
  ASSUME NEW f, NEW r
  PROVE  IsFiniteSet(Rqs(f, r)) /\ Cardinality(Rqs(f, r)) \in Nat
         /\ (Cardinality(Rqs(f, r)) = 0 <=> Rqs(f, r) = {})
<1>1. Rqs(f, r) \in SUBSET MachineCPUs
  BY DEF Rqs
<1>. QED BY <1>1, MachineAssumption, FS_Subset, FS_CardinalityType, FS_EmptySet

(* rq_attach_root() keeps the counts, whether or not c was there before.   *)
LEMMA RootMoves ==
  ASSUME NEW f, NEW k, NEW on, NEW r \in DOMAIN k, NEW c \in MachineCPUs,
         RootsTold(f, k, on, r), r \in Roots \cup {def_root_domain}
  PROVE  RootsTold([f EXCEPT ![c] = r], Joined(Left(k, f[c], c), r, c, on), on, def_root_domain)
<1>. DEFINE f2   == [f EXCEPT ![c] = r]
            left == Left(k, f[c], c)
            k2   == Joined(left, r, c, on)
<1>1. /\ f \in [MachineCPUs -> Roots \cup {def_root_domain}] /\ on \subseteq MachineCPUs
      /\ def_root_domain \in DOMAIN k /\ \A d \in MachineCPUs : f[d] \in DOMAIN k
      /\ \A q \in DOMAIN k : k[q] = RootOf(f, on, q)
      /\ \A q \in DOMAIN k : Rqs(f, q) = {} => q \in {def_root_domain, r}
  BY DEF RootsTold
<1>2. f2 \in [MachineCPUs -> Roots \cup {def_root_domain}]
  BY <1>1
<1>3. ASSUME NEW q
      PROVE  /\ q # r => Rqs(f2, q) = Rqs(f, q) \ {c}
             /\ q = r => Rqs(f2, q) = (Rqs(f, q) \ {c}) \cup {c}
  BY <1>1 DEF Rqs
<1>4. ASSUME NEW q
      PROVE  /\ Cardinality(Rqs(f, q) \ {c}) \in Nat
             /\ Cardinality(Rqs(f, q) \ {c}) = 0 <=> Rqs(f, q) \ {c} = {}
             /\ Cardinality((Rqs(f, q) \ {c}) \cup {c}) = Cardinality(Rqs(f, q) \ {c}) + 1
             /\ Cardinality(Rqs(f, q) \ {c}) = IF c \in Rqs(f, q) THEN Cardinality(Rqs(f, q)) - 1
                                               ELSE Cardinality(Rqs(f, q))
  <2>1. IsFiniteSet(Rqs(f, q)) /\ Cardinality(Rqs(f, q)) \in Nat
    BY RqsCounted
  <2>2. IsFiniteSet(Rqs(f, q) \ {c})
    BY <2>1, FS_RemoveElement
  <2>3. Cardinality(Rqs(f, q) \ {c}) \in Nat /\ (Cardinality(Rqs(f, q) \ {c}) = 0 <=> Rqs(f, q) \ {c} = {})
    BY <2>2, FS_CardinalityType, FS_EmptySet
  <2>4. Cardinality((Rqs(f, q) \ {c}) \cup {c}) = Cardinality(Rqs(f, q) \ {c}) + 1
    BY <2>2, FS_AddElement
  <2>5. Cardinality(Rqs(f, q) \ {c}) = IF c \in Rqs(f, q) THEN Cardinality(Rqs(f, q)) - 1
                                               ELSE Cardinality(Rqs(f, q))
    BY <2>1, FS_RemoveElement
  <2>. QED BY <2>3, <2>4, <2>5
<1>4a. PICK n : n = [q \in DOMAIN k |-> Cardinality(Rqs(f, q) \ {c}) + (IF q = def_root_domain THEN 1 ELSE 0)]
  OBVIOUS
<1>4b. ASSUME NEW q \in DOMAIN k
       PROVE  /\ n[q] \in Nat /\ (n[q] = 0 <=> q # def_root_domain /\ Rqs(f, q) \ {c} = {})
              /\ q # r => RootOf(f2, on, q).count = n[q]
              /\ q = r => RootOf(f2, on, q).count = n[q] + 1
              /\ RootOf(f, on, q).count = IF c \in Rqs(f, q) THEN n[q] + 1 ELSE n[q]
  <2>1. PICK u \in Nat : u = Cardinality(Rqs(f, q) \ {c})
    BY <1>4
  <2>2. n[q] = u + (IF q = def_root_domain THEN 1 ELSE 0) /\ (u = 0 <=> Rqs(f, q) \ {c} = {})
    BY <1>4, <1>4a, <2>1
  <2>3. /\ q # r => Cardinality(Rqs(f2, q)) = u
        /\ q = r => Cardinality(Rqs(f2, q)) = u + 1
    BY <1>3, <1>4, <2>1
  <2>4. PICK v \in Nat : v = Cardinality(Rqs(f, q))
    BY RqsCounted
  <2>5. v = IF c \in Rqs(f, q) THEN u + 1 ELSE u
    BY <1>4, <2>1, <2>4
  <2>. QED BY <2>2, <2>3, <2>4, <2>5 DEF RootOf
<1>5. DOMAIN left = DOMAIN k
  BY DEF Left
<1>6. ASSUME NEW q \in DOMAIN k
      PROVE  left[q] = [count |-> n[q], span |-> Rqs(f, q) \ {c}, online |-> (Rqs(f, q) \cap on) \ {c}]
  <2>1. k[q] = RootOf(f, on, q) /\ Cardinality(Rqs(f, q)) \in Nat
    BY <1>1, RqsCounted
  <2>2. CASE q = f[c]
    <3>1. c \in Rqs(f, q)
      BY <2>2 DEF Rqs
    <3>2. left[q] = [count |-> k[q].count - 1, span |-> k[q].span \ {c}, online |-> k[q].online \ {c}]
      BY <2>2 DEF Left
    <3>3. k[q].count - 1 = n[q]
      BY <1>4b, <2>1, <3>1
    <3>4. k[q].span = Rqs(f, q) /\ k[q].online = Rqs(f, q) \cap on
      BY <2>1 DEF RootOf
    <3>. QED BY <3>2, <3>3, <3>4
  <2>3. CASE q # f[c]
    <3>1. c \notin Rqs(f, q)
      BY <2>3 DEF Rqs
    <3>2. left[q] = k[q]
      BY <2>3 DEF Left
    <3>3. Rqs(f, q) \ {c} = Rqs(f, q) /\ (Rqs(f, q) \cap on) \ {c} = Rqs(f, q) \cap on
      BY <3>1
    <3>4. k[q] = [count |-> n[q], span |-> Rqs(f, q), online |-> Rqs(f, q) \cap on]
      BY <1>4b, <2>1, <3>1 DEF RootOf
    <3>. QED BY <3>2, <3>3, <3>4
  <2>. QED BY <2>2, <2>3
<1>7. DOMAIN k2 = {q \in DOMAIN k : n[q] > 0 \/ q = r}
  <2>1. DOMAIN k2 = {q \in DOMAIN left : left[q].count > 0 \/ q = r}
    BY DEF Joined
  <2>2. \A q \in DOMAIN k : left[q].count = n[q]
    <3>1. SUFFICES ASSUME NEW q \in DOMAIN k PROVE left[q].count = n[q]
      OBVIOUS
    <3>2. left[q] = [count |-> n[q], span |-> Rqs(f, q) \ {c}, online |-> (Rqs(f, q) \cap on) \ {c}]
      BY <1>6
    <3>. HIDE DEF left
    <3>. QED BY <3>2
  <2>. HIDE DEF left, k2
  <2>. QED BY <1>5, <2>1, <2>2
<1>8. \A q \in DOMAIN k2 : k2[q] = RootOf(f2, on, q)
  <2>1. SUFFICES ASSUME NEW q \in DOMAIN k2 PROVE k2[q] = RootOf(f2, on, q)
    OBVIOUS
  <2>2. q \in DOMAIN k
    BY <1>7
  <2>3. CASE q = r
    <3>1. k2[q] = [count |-> left[q].count + 1, span |-> left[q].span \cup {c},
                   online |-> IF c \in on THEN left[q].online \cup {c} ELSE left[q].online]
      BY <1>5, <2>3 DEF Joined
    <3>2. left[q].count = n[q] /\ left[q].span = Rqs(f, q) \ {c} /\ left[q].online = (Rqs(f, q) \cap on) \ {c}
      <4>1. left[q] = [count |-> n[q], span |-> Rqs(f, q) \ {c}, online |-> (Rqs(f, q) \cap on) \ {c}]
        BY <1>6, <2>2
      <4>. HIDE DEF left
      <4>. QED BY <4>1
    <3>3. Rqs(f2, q) = (Rqs(f, q) \ {c}) \cup {c}
      BY <1>3, <2>3
    <3>4. (IF c \in on THEN left[q].online \cup {c} ELSE left[q].online) = Rqs(f2, q) \cap on
      BY <3>2, <3>3
    <3>5. RootOf(f2, on, q).count = n[q] + 1
      BY <1>4b, <2>2, <2>3
    <3>6. RootOf(f2, on, q) = [count |-> RootOf(f2, on, q).count, span |-> Rqs(f2, q), online |-> Rqs(f2, q) \cap on]
      BY DEF RootOf
    <3>. QED BY <3>1, <3>2, <3>3, <3>4, <3>5, <3>6, Zenon
  <2>4. CASE q # r
    <3>1. k2[q] = left[q]
      BY <1>5, <1>7, <2>1, <2>4 DEF Joined
    <3>2. (Rqs(f, q) \cap on) \ {c} = Rqs(f2, q) \cap on /\ Rqs(f, q) \ {c} = Rqs(f2, q)
      BY <1>3, <2>4
    <3>3. RootOf(f2, on, q).count = n[q]
      BY <1>4b, <2>2, <2>4
    <3>4. RootOf(f2, on, q) = [count |-> RootOf(f2, on, q).count, span |-> Rqs(f2, q), online |-> Rqs(f2, q) \cap on]
      BY DEF RootOf
    <3>. QED BY <1>6, <2>2, <3>1, <3>2, <3>3, <3>4, Zenon
  <2>. QED BY <2>3, <2>4
<1>9. k2 = [q \in DOMAIN k2 |-> RootOf(f2, on, q)]
  <2>1. k2 = [q \in DOMAIN k2 |-> k2[q]]
    BY DEF Joined
  <2>. QED BY <1>8, <2>1, Zenon
<1>10. def_root_domain \in DOMAIN k2 /\ \A d \in MachineCPUs : f2[d] \in DOMAIN k2
  <2>1. def_root_domain \in DOMAIN k2
    BY <1>1, <1>4b, <1>7
  <2>2. ASSUME NEW d \in MachineCPUs PROVE f2[d] \in DOMAIN k2
    <3>1. CASE d = c
      BY <1>1, <1>7, <3>1
    <3>2. CASE d # c
      <4>1. f2[d] = f[d] /\ f[d] \in DOMAIN k /\ d \in Rqs(f, f[d]) \ {c}
        BY <1>1, <3>2 DEF Rqs
      <4>2. n[f[d]] > 0
        BY <1>4b, <4>1
      <4>. QED BY <1>7, <4>1, <4>2
    <3>. QED BY <3>1, <3>2
  <2>. QED BY <2>1, <2>2
<1>11. \A q \in DOMAIN k2 : Rqs(f2, q) = {} => q \in {def_root_domain, def_root_domain}
  <2>1. SUFFICES ASSUME NEW q \in DOMAIN k2, Rqs(f2, q) = {} PROVE q = def_root_domain
    OBVIOUS
  <2>2. q # r /\ Rqs(f, q) \ {c} = {}
    BY <1>3, <2>1
  <2>3. q \in DOMAIN k /\ n[q] > 0
    BY <1>7, <2>2
  <2>. QED BY <1>4b, <2>2, <2>3
<1>. QED BY <1>1, <1>2, <1>9, <1>10, <1>11 DEF RootsTold

(* Invariants of the domains, with the variables as arguments.             *)
Newest(w) == IF w.at = "attach" THEN w.root ELSE def_root_domain
PartsOK(parts, on, D, B, L) ==
  /\ \A p \in parts : p.span # {} /\ p.span \subseteq MachineCPUs
  /\ \A p, q \in parts : p # q => p.span \cap q.span = {}
  /\ B \subseteq parts
  /\ \A p \in D : p.span \subseteq MachineCPUs
  /\ on \subseteq DO!Span(parts) \cup DO!Span(D) \cup L
  /\ \A p \in B : p.span \cap on \subseteq DO!Span(D) \cup L

LEMMA RootsSay ==
  ASSUME DO!TypeOK, DO!RootsCounted
  PROVE  RootsTold(x6, x7, x8, Newest(x9)) /\ (x10 = DO!Idle => x8 = x2)
<1>1. ASSUME NEW r \in DOMAIN x7
      PROVE  x7[r] = RootOf(x6, x8, r) /\ (Rqs(x6, r) = {} => r \in {def_root_domain, Newest(x9)})
  <2>1. x7[r] \in [count : Nat, span : SUBSET MachineCPUs, online : SUBSET MachineCPUs]
    BY DEF DO!TypeOK
  <2>2. /\ x7[r].span = Rqs(x6, r) /\ x7[r].online = Rqs(x6, r) \cap x8
        /\ x7[r].count = Cardinality(Rqs(x6, r)) + (IF r = def_root_domain THEN 1 ELSE 0)
        /\ (Rqs(x6, r) = {} => r = def_root_domain \/ (x9.at = "attach" /\ x9.root = r))
    BY DEF DO!RootsCounted, Rqs, DO!Cardinality, Cardinality
  <2>. QED BY <2>1, <2>2 DEF RootOf, Newest
<1>2. x7 = [r \in DOMAIN x7 |-> x7[r]]
  BY DEF DO!TypeOK
<1>3. x7 = [r \in DOMAIN x7 |-> RootOf(x6, x8, r)]
  BY <1>1, <1>2, Zenon
<1>. QED BY <1>1, <1>3 DEF RootsTold, DO!TypeOK, DO!RootsCounted

LEMMA RootsSayNext ==
  ASSUME RootsTold(x6', x7', x8', Newest(x9')), x10' = DO!Idle => x8' = x2'
  PROVE  /\ DO!RootsCounted'
         /\ x6' \in [MachineCPUs -> Roots \cup {def_root_domain}] /\ x8' \subseteq MachineCPUs
         /\ x7' \in [DOMAIN x7' -> [count : Nat, span : SUBSET MachineCPUs, online : SUBSET MachineCPUs]]
         /\ def_root_domain \in DOMAIN x7'
<1>1. ASSUME NEW r \in DOMAIN x7'
      PROVE  /\ x7'[r] = RootOf(x6', x8', r) /\ RootOf(x6', x8', r).count \in Nat
             /\ (Rqs(x6', r) = {} => r = def_root_domain \/ (x9'.at = "attach" /\ x9'.root = r))
  <2>1. x7'[r] = RootOf(x6', x8', r)
    BY DEF RootsTold
  <2>2. Cardinality(Rqs(x6', r)) \in Nat
    BY RqsCounted
  <2>. QED BY <2>1, <2>2 DEF RootsTold, Newest, RootOf
<1>2. ASSUME NEW r \in DOMAIN x7'
      PROVE  x7'[r] \in [count : Nat, span : SUBSET MachineCPUs, online : SUBSET MachineCPUs]
  <2>1. Rqs(x6', r) \subseteq MachineCPUs
    BY DEF Rqs
  <2>2. /\ RootOf(x6', x8', r).span = Rqs(x6', r) /\ RootOf(x6', x8', r).online = Rqs(x6', r) \cap x8'
        /\ RootOf(x6', x8', r) = [count |-> RootOf(x6', x8', r).count, span |-> RootOf(x6', x8', r).span,
                                  online |-> RootOf(x6', x8', r).online]
    BY DEF RootOf
  <2>. QED BY <1>1, <2>1, <2>2
<1>3. x7' = [r \in DOMAIN x7' |-> x7'[r]]
  BY DEF RootsTold
<1>4. x7' \in [DOMAIN x7' -> [count : Nat, span : SUBSET MachineCPUs, online : SUBSET MachineCPUs]]
  BY <1>2, <1>3
<1>5. ASSUME NEW r \in DOMAIN x7'
      PROVE  /\ x7'[r].span = Rqs(x6', r) /\ x7'[r].online = Rqs(x6', r) \cap x8'
             /\ x7'[r].count = Cardinality(Rqs(x6', r)) + (IF r = def_root_domain THEN 1 ELSE 0)
  BY <1>1 DEF RootOf
<1>6. DO!RootsCounted'
  BY <1>1, <1>5 DEF DO!RootsCounted, RootsTold, Rqs, DO!Cardinality, Cardinality
<1>. QED BY <1>4, <1>6 DEF RootsTold

LEMMA PartsSay == DO!PartsApart <=> PartsOK(x3, x5, DO!Destroying, DO!Building, DO!Leaving)
BY DEF DO!PartsApart, PartsOK

LEMMA PartsSayNext == DO!PartsApart' <=> PartsOK(x3', x5', DO!Destroying', DO!Building', DO!Leaving')
BY DEF DO!PartsApart, PartsOK, DO!Span

LEMMA LeastDone ==
  ASSUME NEW S \in SUBSET MachineCPUs, S # {}
  PROVE  DO!Min(S) \in S
<1>1. \E n \in S : \A m \in S : n <= m
  BY LeastNumber, MachineAssumption
<1>. QED BY <1>1 DEF DO!Min

LEMMA DomainsInit == ASSUME DO!Init PROVE DO!DomainsInv
<1>1. /\ x2 = MachineCPUs /\ x8 = MachineCPUs /\ x5 = {} /\ x10 = DO!Idle
      /\ x3 = {DO!Part(MachineCPUs \ Isolated, -1)}
      /\ x6 = [c \in MachineCPUs |-> def_root_domain]
      /\ x7 = [r \in {def_root_domain} |-> [count |-> 1 + Cardinality(MachineCPUs), span |-> MachineCPUs, online |-> MachineCPUs]]
      /\ x9 = [at |-> "build", destroy |-> {}, build |-> x3]
      /\ x11 = [c \in MachineCPUs |-> None] /\ x12 = [c \in MachineCPUs |-> None]
  BY DEF DO!Init, DO!fallback_doms, DO!Cardinality, Cardinality
<1>2. x9 # DO!Idle /\ x10.at = "idle"
  BY <1>1 DEF DO!Idle
<1>3. Cardinality(MachineCPUs) \in Nat
  BY MachineAssumption, FS_CardinalityType
<1>4. DO!TypeOK
  BY <1>1, <1>3 DEF DO!TypeOK
<1>5. DO!WorkShape
  BY <1>1 DEF DO!WorkShape
<1>6. DO!HotplugAlone
  BY <1>1, <1>2 DEF DO!HotplugAlone, DO!NoTables
<1>7. DO!PartsApart
  <2>1. \A p \in x3 : p.span = MachineCPUs \ Isolated
    BY <1>1 DEF DO!Part
  <2>2. \A p, q \in x3 : p = q
    BY <1>1
  <2>3. DO!Building = x3 /\ DO!Destroying = {} /\ DO!Leaving = {}
    BY <1>1, <1>2 DEF DO!Building, DO!Destroying, DO!Leaving
  <2>. QED BY <1>1, <2>1, <2>2, <2>3, MachineAssumption DEF DO!PartsApart
<1>8. DO!StageHolds
  BY <1>1 DEF DO!StageHolds
<1>9. DO!WalksKnown /\ DO!WalksUndisturbed /\ DO!TablesNameDomains
  BY <1>1 DEF DO!WalksKnown, DO!WalksUndisturbed, DO!TablesNameDomains
<1>10. DO!RootsCounted
  <2>1. \A r \in DOMAIN x7 : r = def_root_domain /\ {c \in MachineCPUs : x6[c] = r} = MachineCPUs
    BY <1>1
  <2>2. DO!Cardinality(MachineCPUs) = Cardinality(MachineCPUs)
    BY DEF DO!Cardinality, Cardinality
  <2>3. ASSUME NEW r \in DOMAIN x7, NEW rqs, rqs = {c \in MachineCPUs : x6[c] = r}
        PROVE  /\ x7[r].span = rqs /\ x7[r].online = rqs \cap x8
               /\ x7[r].count = DO!Cardinality(rqs) + (IF r = def_root_domain THEN 1 ELSE 0)
               /\ rqs = {} => r = def_root_domain
    <3>1. r = def_root_domain /\ rqs = MachineCPUs
      BY <2>1, <2>3
    <3>2. x7[r] = [count |-> 1 + Cardinality(MachineCPUs), span |-> MachineCPUs, online |-> MachineCPUs]
      BY <1>1, <3>1
    <3>3. PICK n \in Nat : n = Cardinality(MachineCPUs) /\ n = DO!Cardinality(rqs)
      BY <1>3, <2>2, <3>1
    <3>4. MachineCPUs # {}
      BY MachineAssumption
    <3>. QED BY <1>1, <3>1, <3>2, <3>3, <3>4
  <2>. QED BY <1>1, <2>3, Zenon DEF DO!RootsCounted
<1>. QED BY <1>4, <1>5, <1>6, <1>7, <1>8, <1>9, <1>10 DEF DO!DomainsInv

(* partition_sched_domains() begins: what is attached is in a part that    *)
(* stays, or that is destroyed before its processors get a new one.        *)
LEMMA PartsReplaced ==
  ASSUME NEW old, NEW new, NEW fresh \in BOOLEAN, NEW D, NEW B,
         \A p, q \in new : p # q => p.span \cap q.span = {},
         \A p \in new : p.span # {},
         D = IF fresh THEN old ELSE DO!Without(old, new),
         B = IF fresh THEN new ELSE DO!Without(new, old)
  PROVE  /\ D \subseteq old /\ B \subseteq new
         /\ DO!Span(old) \subseteq DO!Span(new) \cup DO!Span(D)
         /\ \A p \in B : p.span \cap DO!Span(old) \subseteq DO!Span(D)
<1>1. D \subseteq old /\ B \subseteq new
  BY DEF DO!Without
<1>2. ASSUME NEW c, NEW q \in old, c \in q.span, q \notin D
      PROVE  /\ c \in DO!Span(new)
             /\ \A p \in B : c \notin p.span
  <2>1. ~fresh
    BY <1>2
  <2>2. PICK n \in new : DO!Match(q, n)
    BY <1>2, <2>1 DEF DO!Without
  <2>3. q.span = n.span /\ q.relax = n.relax
    BY <2>2 DEF DO!Match, DO!dattrs_equal
  <2>4. n \notin B
    BY <1>2, <2>1, <2>3 DEF DO!Without, DO!Match, DO!dattrs_equal
  <2>. QED BY <1>1, <1>2, <2>3, <2>4 DEF DO!Span
<1>. QED BY <1>1, <1>2 DEF DO!Span

LEMMA Parted ==
  ASSUME DO!DomainsInv, x9 = DO!Idle, NEW new, NEW t, NEW forced \in BOOLEAN,
         DO!Partition(new, t, forced),
         \A p \in new : p = DO!Part(p.span, p.relax) /\ p.span # {} /\ p.span \subseteq MachineCPUs,
         \A p, q \in new : p # q => p.span \cap q.span = {},
         x10' = DO!Idle, x8 = x2, UNCHANGED <<x2, x4, x5, x6, x7, x8, x11>>
  PROVE  DO!DomainsInv'
<1>0. DO!TypeOK /\ DO!RootsCounted /\ DO!PartsApart /\ DO!WalksKnown /\ DO!WalksUndisturbed
  BY DEF DO!DomainsInv
<1>1. PICK parts : parts = {[p EXCEPT !.topo = t] : p \in new}
  OBVIOUS
<1>2. PICK fresh \in BOOLEAN : fresh <=> (forced \/ t # x1)
  OBVIOUS
<1>3. PICK D : D = IF fresh THEN x3 ELSE DO!Without(x3, parts)
  OBVIOUS
<1>4. PICK B : B = IF fresh THEN parts ELSE DO!Without(parts, x3)
  OBVIOUS
<1>5. x3' = parts /\ x9' = [at |-> "destroy", destroy |-> D, build |-> B] /\ x12' = DO!NoTables
  BY <1>1, <1>2, <1>3, <1>4 DEF DO!Partition, DO!unregister_sched_domain_sysctl
<1>6. \A p \in new : [p EXCEPT !.topo = t] = [span |-> p.span, relax |-> p.relax, topo |-> t]
  BY DEF DO!Part
<1>7. /\ \A p \in parts : p.span # {} /\ p.span \subseteq MachineCPUs
      /\ \A p, q \in parts : p # q => p.span \cap q.span = {}
  <2>1. \A p \in parts : \E n \in new : p = [span |-> n.span, relax |-> n.relax, topo |-> t]
    BY <1>1, <1>6
  <2>2. ASSUME NEW p \in parts PROVE p.span # {} /\ p.span \subseteq MachineCPUs
    BY <2>1
  <2>3. ASSUME NEW p \in parts, NEW q \in parts, p # q PROVE p.span \cap q.span = {}
    <3>1. PICK n \in new : p = [span |-> n.span, relax |-> n.relax, topo |-> t]
      BY <2>1
    <3>2. PICK m \in new : q = [span |-> m.span, relax |-> m.relax, topo |-> t]
      BY <2>1
    <3>3. n # m /\ p.span = n.span /\ q.span = m.span
      BY <2>3, <3>1, <3>2
    <3>. QED BY <3>3
  <2>. QED BY <2>2, <2>3
<1>8. /\ D \subseteq x3 /\ B \subseteq parts
      /\ DO!Span(x3) \subseteq DO!Span(parts) \cup DO!Span(D)
      /\ \A p \in B : p.span \cap DO!Span(x3) \subseteq DO!Span(D)
  BY <1>3, <1>4, <1>7, PartsReplaced
<1>9. x9'.at = "destroy" /\ x9'.destroy = D /\ x9'.build = B /\ x9' # DO!Idle /\ x10'.at = "idle" /\ x9.at = "idle"
  BY <1>5 DEF DO!Idle
<1>10. /\ x5 \subseteq DO!Span(x3)
       /\ \A p \in x3 : p.span \subseteq MachineCPUs
  <2>1. DO!Destroying = {} /\ DO!Leaving = {}
    BY <1>9 DEF DO!Destroying, DO!Leaving
  <2>. QED BY <1>0, <2>1 DEF DO!PartsApart, DO!Span
<1>11. DO!PartsApart'
  <2>1. PartsOK(parts, x5, D, B, {})
    BY <1>7, <1>8, <1>10 DEF PartsOK
  <2>2. DO!Destroying' = D /\ DO!Building' = B /\ DO!Leaving' = {}
    BY <1>9 DEF DO!Destroying, DO!Building, DO!Leaving
  <2>. QED BY <1>5, <2>1, <2>2, PartsSayNext
<1>12. DO!TypeOK'
  BY <1>0 DEF DO!TypeOK
<1>13. DO!WorkShape' /\ DO!StageHolds' /\ DO!HotplugAlone'
  BY <1>5, <1>9 DEF DO!WorkShape, DO!StageHolds, DO!HotplugAlone, DO!NoTables
<1>14. DO!WalksKnown' /\ DO!WalksUndisturbed' /\ DO!TablesNameDomains'
  BY <1>0, <1>5, <1>9 DEF DO!WalksKnown, DO!WalksUndisturbed, DO!TablesNameDomains, DO!NoTables
<1>15. DO!RootsCounted'
  BY <1>0, <1>9 DEF DO!RootsCounted
<1>. QED BY <1>11, <1>12, <1>13, <1>14, <1>15 DEF DO!DomainsInv

(* rq_attach_root() as a move of a run queue.                              *)
LEMMA RootJoined ==
  ASSUME NEW c \in MachineCPUs, NEW r, DO!rq_attach_root(c, r), DO!TypeOK, x8 = x2
  PROVE  /\ x6' = [x6 EXCEPT ![c] = r] /\ x8' = x8
         /\ x7' = Joined(Left(x7, x6[c], c), r, c, x8)
<1>1. x8' = x8
  BY DEF DO!rq_attach_root, DO!TypeOK
<1>. QED BY <1>1 DEF DO!rq_attach_root, Joined, Left

LEMMA DetachStep == ASSUME DO!DomainsInv, DO!Detach PROVE DO!DomainsInv'
<1>0. /\ DO!TypeOK /\ DO!RootsCounted /\ DO!PartsApart /\ DO!WalksKnown /\ DO!WalksUndisturbed
      /\ DO!WorkShape /\ DO!HotplugAlone /\ DO!StageHolds /\ DO!TablesNameDomains
  BY DEF DO!DomainsInv
<1>1. PICK part0 : part0 = x9.part
  OBVIOUS
<1>2. PICK todo : todo = x9.todo
  OBVIOUS
<1>3. PICK D : D = x9.destroy
  OBVIOUS
<1>4. PICK B : B = x9.build
  OBVIOUS
<1>5. x9.at = "detach" /\ todo # {}
  BY <1>2 DEF DO!Detach
<1>6. x9 = [at |-> "detach", part |-> part0, todo |-> todo, destroy |-> D, build |-> B]
  BY <1>0, <1>1, <1>2, <1>3, <1>4, <1>5 DEF DO!WorkShape, DO!Idle
<1>7. todo \subseteq part0.span /\ part0.span \subseteq MachineCPUs /\ x5 \cap part0.span \subseteq todo
  BY <1>0, <1>5, <1>6 DEF DO!StageHolds
<1>8. PICK c \in todo : c = DO!Min(todo)
  BY <1>5, <1>7, LeastDone
<1>9. /\ DO!rq_attach_root(c, def_root_domain) /\ x5' = x5 \ {c}
      /\ x9' = [at |-> "detach", part |-> part0, todo |-> todo \ {c}, destroy |-> D, build |-> B]
      /\ UNCHANGED <<x1, x2, x3, x4, x10, x11, x12>>
  BY <1>6, <1>8 DEF DO!Detach
<1>10. x9 # DO!Idle /\ x9' # DO!Idle /\ x10 = DO!Idle /\ x12 = DO!NoTables /\ x8 = x2 /\ x10.at = "idle"
  BY <1>0, <1>6, <1>9 DEF DO!Idle, DO!HotplugAlone
<1>11. /\ x6' = [x6 EXCEPT ![c] = def_root_domain] /\ x8' = x8
       /\ x7' = Joined(Left(x7, x6[c], c), def_root_domain, c, x8)
  BY <1>0, <1>7, <1>9, <1>10, RootJoined
<1>12. RootsTold(x6', x7', x8', Newest(x9'))
  <2>1. RootsTold(x6, x7, x8, def_root_domain)
    BY <1>0, <1>5, RootsSay DEF Newest
  <2>2. def_root_domain \in DOMAIN x7
    BY <1>0 DEF DO!TypeOK
  <2>3. RootsTold(x6', x7', x8', def_root_domain)
    BY <1>7, <1>11, <2>1, <2>2, RootMoves
  <2>. QED BY <1>9, <2>3 DEF Newest
<1>13. DO!RootsCounted' /\ DO!TypeOK'
  BY <1>0, <1>9, <1>10, <1>11, <1>12, RootsSayNext DEF DO!TypeOK
<1>14. DO!PartsApart'
  <2>1. PartsOK(x3, x5, D, B, todo)
    BY <1>0, <1>6, <1>10, PartsSay DEF DO!Destroying, DO!Building, DO!Leaving
  <2>2. PartsOK(x3, x5 \ {c}, D, B, todo \ {c})
    BY <2>1 DEF PartsOK
  <2>. QED BY <1>9, <1>10, <2>2, PartsSayNext DEF DO!Destroying, DO!Building, DO!Leaving
<1>15. DO!WorkShape' /\ DO!StageHolds' /\ DO!HotplugAlone'
  BY <1>0, <1>7, <1>9, <1>10, <1>11 DEF DO!WorkShape, DO!StageHolds, DO!HotplugAlone, DO!NoTables
<1>16. DO!WalksKnown' /\ DO!WalksUndisturbed' /\ DO!TablesNameDomains'
  BY <1>0, <1>6, <1>7, <1>9, <1>10 DEF DO!WalksKnown, DO!WalksUndisturbed, DO!TablesNameDomains, DO!NoTables
<1>. QED BY <1>13, <1>14, <1>15, <1>16 DEF DO!DomainsInv

LEMMA AttachStep == ASSUME DO!DomainsInv, DO!Attach PROVE DO!DomainsInv'
<1>0. /\ DO!TypeOK /\ DO!RootsCounted /\ DO!PartsApart /\ DO!WalksKnown /\ DO!WalksUndisturbed
      /\ DO!WorkShape /\ DO!HotplugAlone /\ DO!StageHolds /\ DO!TablesNameDomains
  BY DEF DO!DomainsInv
<1>1. PICK r : r = x9.root
  OBVIOUS
<1>2. PICK todo : todo = x9.todo
  OBVIOUS
<1>4. PICK B : B = x9.build
  OBVIOUS
<1>5. x9.at = "attach" /\ todo # {}
  BY <1>2 DEF DO!Attach
<1>6. x9 = [at |-> "attach", root |-> r, todo |-> todo, destroy |-> {}, build |-> B]
  BY <1>0, <1>1, <1>2, <1>4, <1>5 DEF DO!WorkShape, DO!Idle
<1>7. PICK p \in x3 \ B : todo \subseteq p.span
  BY <1>0, <1>5, <1>6 DEF DO!StageHolds
<1>8. PartsOK(x3, x5, {}, B, {}) /\ x9 # DO!Idle
  BY <1>0, <1>6, PartsSay DEF DO!Destroying, DO!Building, DO!Leaving, DO!Idle
<1>9. todo \subseteq MachineCPUs
  BY <1>7, <1>8 DEF PartsOK
<1>10. PICK c \in todo : c = DO!Min(todo)
  BY <1>5, <1>9, LeastDone
<1>11. /\ DO!rq_attach_root(c, r) /\ x5' = x5 \cup {c}
       /\ x9' = [at |-> "attach", root |-> r, todo |-> todo \ {c}, destroy |-> {}, build |-> B]
       /\ UNCHANGED <<x1, x2, x3, x4, x10, x11, x12>>
  BY <1>6, <1>10 DEF DO!Attach
<1>12. x9' # DO!Idle /\ x10 = DO!Idle /\ x12 = DO!NoTables /\ x8 = x2 /\ x10.at = "idle"
  BY <1>0, <1>8, <1>11 DEF DO!Idle, DO!HotplugAlone
<1>13. /\ x6' = [x6 EXCEPT ![c] = r] /\ x8' = x8
       /\ x7' = Joined(Left(x7, x6[c], c), r, c, x8)
  BY <1>0, <1>9, <1>11, <1>12, RootJoined
<1>14. r \in DOMAIN x7 /\ r \in Roots
  BY <1>0, <1>5, <1>6 DEF DO!StageHolds
<1>15. RootsTold(x6', x7', x8', def_root_domain)
  <2>1. RootsTold(x6, x7, x8, r)
    BY <1>0, <1>5, <1>6, RootsSay DEF Newest
  <2>. QED BY <1>9, <1>13, <1>14, <2>1, RootMoves
<1>16. RootsTold(x6', x7', x8', Newest(x9'))
  BY <1>15 DEF RootsTold
<1>17. DO!RootsCounted' /\ DO!TypeOK'
  BY <1>0, <1>9, <1>11, <1>12, <1>13, <1>16, RootsSayNext DEF DO!TypeOK
<1>18. DO!PartsApart'
  <2>1. PartsOK(x3, x5 \cup {c}, {}, B, {})
    <3>1. c \in p.span /\ \A q \in B : q # p /\ c \notin q.span
      BY <1>7, <1>8 DEF PartsOK
    <3>. QED BY <1>7, <1>8, <3>1 DEF PartsOK, DO!Span
  <2>. QED BY <1>11, <1>12, <2>1, PartsSayNext DEF DO!Destroying, DO!Building, DO!Leaving
<1>19. r \in DOMAIN x7' /\ x6'[c] = r
  BY <1>0, <1>9, <1>13, <1>14 DEF DO!TypeOK, Joined, Left
<1>20. DO!WorkShape' /\ DO!StageHolds' /\ DO!HotplugAlone'
  <2>1. DO!WorkShape'
    BY <1>11 DEF DO!WorkShape
  <2>2. DO!HotplugAlone'
    BY <1>0, <1>11, <1>12, <1>13 DEF DO!HotplugAlone, DO!NoTables
  <2>3. /\ x9'.at = "attach" /\ x9'.root = r /\ x9'.todo = todo \ {c} /\ x9'.build = B /\ x9'.destroy = {}
        /\ x3' = x3 /\ c \in MachineCPUs /\ todo \ {c} \subseteq p.span
    BY <1>7, <1>9, <1>11
  <2>4. DO!StageHolds'
    BY <1>7, <1>14, <1>19, <2>3 DEF DO!StageHolds
  <2>. QED BY <2>1, <2>2, <2>4
<1>21. DO!WalksKnown' /\ DO!WalksUndisturbed' /\ DO!TablesNameDomains'
  BY <1>0, <1>6, <1>11, <1>12 DEF DO!WalksKnown, DO!WalksUndisturbed, DO!TablesNameDomains, DO!NoTables
<1>. QED BY <1>17, <1>18, <1>20, <1>21 DEF DO!DomainsInv

LEMMA DestroyStep == ASSUME DO!DomainsInv, x9.at = "destroy", NEW q \in x9.destroy, DO!Destroy(q) PROVE DO!DomainsInv'
<1>0. /\ DO!TypeOK /\ DO!RootsCounted /\ DO!PartsApart /\ DO!WalksKnown /\ DO!WalksUndisturbed
      /\ DO!WorkShape /\ DO!HotplugAlone /\ DO!StageHolds /\ DO!TablesNameDomains
  BY DEF DO!DomainsInv
<1>1. PICK D : D = x9.destroy
  OBVIOUS
<1>2. PICK B : B = x9.build
  OBVIOUS
<1>3. /\ x9' = [at |-> "detach", part |-> q, todo |-> q.span, destroy |-> D \ {q}, build |-> B]
      /\ UNCHANGED <<x1, x2, x3, x4, x5, x6, x7, x8, x10, x11, x12>>
  BY <1>1, <1>2 DEF DO!Destroy
<1>4. x9 # DO!Idle /\ x9' # DO!Idle /\ x10 = DO!Idle /\ x12 = DO!NoTables
  BY <1>0, <1>3 DEF DO!Idle, DO!HotplugAlone
<1>5. PartsOK(x3, x5, D, B, {})
  BY <1>0, <1>1, <1>2, <1>4, PartsSay DEF DO!Destroying, DO!Building, DO!Leaving
<1>6. PartsOK(x3, x5, D \ {q}, B, q.span) /\ q.span \subseteq MachineCPUs
  BY <1>1, <1>5 DEF PartsOK, DO!Span
<1>7. DO!PartsApart'
  BY <1>3, <1>4, <1>6, PartsSayNext DEF DO!Destroying, DO!Building, DO!Leaving
<1>8. DO!TypeOK'
  BY <1>0, <1>3 DEF DO!TypeOK
<1>9. DO!WorkShape' /\ DO!StageHolds' /\ DO!HotplugAlone'
  BY <1>0, <1>3, <1>4, <1>6 DEF DO!WorkShape, DO!StageHolds, DO!HotplugAlone, DO!NoTables
<1>10. DO!WalksKnown' /\ DO!WalksUndisturbed' /\ DO!TablesNameDomains'
  BY <1>0, <1>3 DEF DO!WalksKnown, DO!WalksUndisturbed, DO!TablesNameDomains
<1>11. DO!RootsCounted'
  BY <1>0, <1>3 DEF DO!RootsCounted
<1>. QED BY <1>7, <1>8, <1>9, <1>10, <1>11 DEF DO!DomainsInv

LEMMA WaitStep == ASSUME DO!DomainsInv, DO!synchronize_sched PROVE DO!DomainsInv'
<1>0. /\ DO!TypeOK /\ DO!RootsCounted /\ DO!PartsApart /\ DO!WalksKnown /\ DO!WalksUndisturbed
      /\ DO!WorkShape /\ DO!HotplugAlone /\ DO!StageHolds /\ DO!TablesNameDomains
  BY DEF DO!DomainsInv
<1>1. PICK D : D = x9.destroy
  OBVIOUS
<1>2. PICK B : B = x9.build
  OBVIOUS
<1>3. PICK q : q = x9.part
  OBVIOUS
<1>4. PICK W : W = {c \in MachineCPUs : x11[c] # None}
  OBVIOUS
<1>5. /\ x9.at = "detach" /\ x9.todo = {}
      /\ x9' = [at |-> "free", part |-> q, wait |-> W, destroy |-> D, build |-> B]
      /\ UNCHANGED <<x1, x2, x3, x4, x5, x6, x7, x8, x10, x11, x12>>
  BY <1>1, <1>2, <1>3, <1>4 DEF DO!synchronize_sched
<1>6. x9 # DO!Idle /\ x9' # DO!Idle /\ x10 = DO!Idle /\ x12 = DO!NoTables
  BY <1>0, <1>5 DEF DO!Idle, DO!HotplugAlone
<1>7. PartsOK(x3, x5, D, B, {})
  BY <1>0, <1>1, <1>2, <1>5, <1>6, PartsSay DEF DO!Destroying, DO!Building, DO!Leaving
<1>8. DO!PartsApart'
  BY <1>5, <1>6, <1>7, PartsSayNext DEF DO!Destroying, DO!Building, DO!Leaving
<1>9. DO!TypeOK'
  BY <1>0, <1>5 DEF DO!TypeOK
<1>10. DO!WorkShape' /\ DO!StageHolds' /\ DO!HotplugAlone'
  BY <1>0, <1>3, <1>5, <1>6 DEF DO!WorkShape, DO!StageHolds, DO!HotplugAlone, DO!NoTables
<1>11. DO!WalksKnown' /\ DO!WalksUndisturbed' /\ DO!TablesNameDomains'
  BY <1>0, <1>3, <1>4, <1>5 DEF DO!WalksKnown, DO!WalksUndisturbed, DO!TablesNameDomains
<1>12. DO!RootsCounted'
  BY <1>0, <1>5 DEF DO!RootsCounted
<1>. QED BY <1>8, <1>9, <1>10, <1>11, <1>12 DEF DO!DomainsInv

LEMMA FreeStep == ASSUME DO!DomainsInv, DO!free_sched_groups PROVE DO!DomainsInv'
<1>0. /\ DO!TypeOK /\ DO!RootsCounted /\ DO!PartsApart /\ DO!WalksKnown /\ DO!WalksUndisturbed
      /\ DO!WorkShape /\ DO!HotplugAlone /\ DO!StageHolds /\ DO!TablesNameDomains
  BY DEF DO!DomainsInv
<1>1. PICK D : D = x9.destroy
  OBVIOUS
<1>2. PICK B : B = x9.build
  OBVIOUS
<1>3. PICK q : q = x9.part
  OBVIOUS
<1>4. /\ x9.at = "free" /\ x9.wait = {}
      /\ x9' = [at |-> "destroy", destroy |-> D, build |-> B]
      /\ \A c \in MachineCPUs : c \notin q.span => x4'[c] = x4[c]
      /\ UNCHANGED <<x1, x2, x3, x5, x6, x7, x8, x10, x11, x12>>
  BY <1>1, <1>2, <1>3 DEF DO!free_sched_groups
<1>5. x9 # DO!Idle /\ x9' # DO!Idle /\ x10 = DO!Idle /\ x12 = DO!NoTables
  BY <1>0, <1>4 DEF DO!Idle, DO!HotplugAlone
<1>6. PartsOK(x3, x5, D, B, {})
  BY <1>0, <1>1, <1>2, <1>4, <1>5, PartsSay DEF DO!Destroying, DO!Building, DO!Leaving
<1>7. DO!PartsApart'
  BY <1>4, <1>5, <1>6, PartsSayNext DEF DO!Destroying, DO!Building, DO!Leaving
<1>8. DO!TypeOK'
  BY <1>0, <1>4 DEF DO!TypeOK
<1>9. DO!WorkShape' /\ DO!StageHolds' /\ DO!HotplugAlone'
  BY <1>0, <1>4, <1>5 DEF DO!WorkShape, DO!StageHolds, DO!HotplugAlone, DO!NoTables
<1>10. \A c \in MachineCPUs : x11[c] # None => x11[c].cpu \in x5 /\ x11[c].cpu \notin q.span
  BY <1>0, <1>3, <1>4 DEF DO!WalksKnown, DO!StageHolds
<1>11. DO!WalksKnown' /\ DO!WalksUndisturbed' /\ DO!TablesNameDomains'
  BY <1>0, <1>4, <1>5, <1>10 DEF DO!WalksKnown, DO!WalksUndisturbed, DO!TablesNameDomains, DO!NoTables, DO!TypeOK
<1>12. DO!RootsCounted'
  BY <1>0, <1>4 DEF DO!RootsCounted
<1>. QED BY <1>7, <1>8, <1>9, <1>11, <1>12 DEF DO!DomainsInv

(* Between two parts nothing but the stage changes; a build that fails     *)
(* frees what nobody is attached to.                                       *)
LEMMA StageStep ==
  ASSUME DO!DomainsInv, DO!DestroyedAll \/ DO!BuiltAll \/ \E q \in x3 : DO!BuildFails(q) \/ DO!GroupsFail(q)
  PROVE  DO!DomainsInv'
<1>0. /\ DO!TypeOK /\ DO!RootsCounted /\ DO!PartsApart /\ DO!WalksKnown /\ DO!WalksUndisturbed
      /\ DO!WorkShape /\ DO!HotplugAlone /\ DO!StageHolds /\ DO!TablesNameDomains
  BY DEF DO!DomainsInv
<1>1. PICK B : B = x9.build
  OBVIOUS
<1>2. /\ x9.at \in {"destroy", "attach", "build"} /\ x9.destroy = {}
      /\ UNCHANGED <<x1, x2, x3, x5, x6, x7, x8, x10, x11, x12>>
      /\ x9.at = "attach" => x9.todo = {}
  <2>1. x9.at = "attach" => x9.destroy = {}
    BY <1>0 DEF DO!WorkShape, DO!Idle
  <2>. QED BY <1>0, <2>1 DEF DO!StageHolds, DO!DestroyedAll, DO!BuiltAll, DO!BuildFails, DO!GroupsFail
<1>3. PICK B2 \in SUBSET B : x9' = [at |-> "build", destroy |-> {}, build |-> B2]
  <2>1. CASE DO!BuiltAll
    BY <1>1, <2>1 DEF DO!BuiltAll
  <2>2. CASE DO!DestroyedAll
    <3>1. x9 = [at |-> "destroy", destroy |-> {}, build |-> B]
      BY <1>0, <1>1, <1>2, <2>2 DEF DO!DestroyedAll, DO!WorkShape, DO!Idle
    <3>2. x9' = [at |-> "build", destroy |-> {}, build |-> B]
      BY <2>2, <3>1 DEF DO!DestroyedAll
    <3>. QED BY <3>2
  <2>3. ASSUME NEW q \in x3, DO!BuildFails(q) \/ DO!GroupsFail(q) PROVE \E S \in SUBSET B : x9' = [at |-> "build", destroy |-> {}, build |-> S]
    <3>1. x9 = [at |-> "build", destroy |-> {}, build |-> B]
      BY <1>0, <1>1, <1>2, <2>3 DEF DO!BuildFails, DO!GroupsFail, DO!WorkShape, DO!Idle
    <3>2. x9' = [at |-> "build", destroy |-> {}, build |-> B \ {q}]
      BY <2>3, <3>1 DEF DO!BuildFails, DO!GroupsFail
    <3>. QED BY <3>2
  <2>. QED BY <2>1, <2>2, <2>3
<1>4. x9 # DO!Idle /\ x9' # DO!Idle /\ x10 = DO!Idle /\ x12 = DO!NoTables /\ x8 = x2
  BY <1>0, <1>2, <1>3 DEF DO!Idle, DO!HotplugAlone
<1>5. PartsOK(x3, x5, {}, B, {})
  BY <1>0, <1>1, <1>2, <1>4, PartsSay DEF DO!Destroying, DO!Building, DO!Leaving
<1>6. PartsOK(x3, x5, {}, B2, {})
  BY <1>5 DEF PartsOK
<1>7. DO!PartsApart'
  BY <1>2, <1>3, <1>4, <1>6, PartsSayNext DEF DO!Destroying, DO!Building, DO!Leaving
<1>8. DO!TypeOK'
  BY <1>0, <1>2 DEF DO!TypeOK
<1>9. DO!WorkShape' /\ DO!StageHolds' /\ DO!HotplugAlone'
  BY <1>0, <1>2, <1>3, <1>4 DEF DO!WorkShape, DO!StageHolds, DO!HotplugAlone, DO!NoTables
<1>10. DO!WalksKnown' /\ DO!WalksUndisturbed' /\ DO!TablesNameDomains'
  <2>1. \A c \in x5 : x4'[c] = x4[c]
    <3>1. CASE \E q \in x3 : DO!GroupsFail(q)
      <4>1. PICK q : q \in B /\ x4' = [c \in MachineCPUs |-> IF c \in q.span THEN None ELSE x4[c]]
        BY <1>1, <3>1 DEF DO!GroupsFail
      <4>2. q.span \cap x5 = {} /\ x5 \subseteq MachineCPUs
        BY <1>0, <1>5, <4>1 DEF PartsOK, DO!Span, DO!TypeOK
      <4>. QED BY <4>1, <4>2
    <3>2. CASE ~\E q \in x3 : DO!GroupsFail(q)
      BY <3>2 DEF DO!DestroyedAll, DO!BuiltAll, DO!BuildFails
    <3>. QED BY <3>1, <3>2
  <2>2. \A c \in MachineCPUs : x11[c] # None => x11[c].cpu \in x5
    BY <1>0, <1>2 DEF DO!WalksKnown
  <2>3. DO!WalksKnown'
    BY <1>2, <2>2 DEF DO!WalksKnown
  <2>. QED BY <1>0, <1>2, <1>4, <2>1, <2>2, <2>3 DEF DO!WalksUndisturbed, DO!TablesNameDomains, DO!NoTables
<1>11. RootsTold(x6', x7', x8', Newest(x9'))
  <2>1. RootsTold(x6, x7, x8, Newest(x9))
    BY <1>0, RootsSay
  <2>2. x9.at = "attach" => Rqs(x6, x9.root) # {}
    BY <1>0, <1>2 DEF DO!StageHolds, Rqs
  <2>3. RootsTold(x6, x7, x8, def_root_domain)
    BY <2>1, <2>2 DEF RootsTold, Newest
  <2>. QED BY <1>2, <1>3, <2>3 DEF Newest
<1>12. DO!RootsCounted'
  BY <1>2, <1>4, <1>11, RootsSayNext
<1>. QED BY <1>7, <1>8, <1>9, <1>10, <1>12 DEF DO!DomainsInv

(* set_rq_online(), set_rq_offline(): one run queue more or less.          *)
LEMMA OnlineMoves ==
  ASSUME NEW f, NEW k, NEW on, NEW new, NEW c \in MachineCPUs, RootsTold(f, k, on, new)
  PROVE  /\ RootsTold(f, [k EXCEPT ![f[c]].online = @ \ {c}], on \ {c}, new)
         /\ RootsTold(f, [k EXCEPT ![f[c]].online = @ \cup {c}], on \cup {c}, new)
<1>0. \A r \in DOMAIN k : k[r] = RootOf(f, on, r)
  BY DEF RootsTold
<1>1. ASSUME NEW S, NEW k2, k2 = [k EXCEPT ![f[c]].online = S], NEW on2 \in SUBSET MachineCPUs,
             S = Rqs(f, f[c]) \cap on2, \A d \in MachineCPUs \ {c} : d \in on2 <=> d \in on
      PROVE  RootsTold(f, k2, on2, new)
  <2>1. ASSUME NEW r \in DOMAIN k PROVE k2[r] = RootOf(f, on2, r)
    <3>0. k[r] = [count |-> k[r].count, span |-> Rqs(f, r), online |-> Rqs(f, r) \cap on]
          /\ k[r].count = RootOf(f, on2, r).count
      BY <1>0 DEF RootOf
    <3>1. CASE r = f[c]
      <4>1. k2[r] = [k[r] EXCEPT !.online = S]
        BY <1>1, <3>1
      <4>2. k2[r] = [count |-> k[r].count, span |-> Rqs(f, r), online |-> S]
        BY <3>0, <4>1
      <4>. QED BY <1>1, <3>0, <3>1, <4>2 DEF RootOf
    <3>2. CASE r # f[c]
      <4>1. k2[r] = k[r] /\ c \notin Rqs(f, r)
        BY <1>1, <3>2 DEF Rqs
      <4>2. Rqs(f, r) \cap on2 = Rqs(f, r) \cap on
        BY <1>1, <4>1 DEF Rqs
      <4>. QED BY <3>0, <4>1, <4>2 DEF RootOf
    <3>. QED BY <3>1, <3>2
  <2>2. DOMAIN k2 = DOMAIN k /\ k2 = [r \in DOMAIN k2 |-> k2[r]]
    BY <1>1 DEF RootsTold
  <2>3. k2 = [r \in DOMAIN k2 |-> RootOf(f, on2, r)]
    BY <2>1, <2>2, Zenon
  <2>. QED BY <2>2, <2>3 DEF RootsTold
<1>2. f[c] \in DOMAIN k /\ on \subseteq MachineCPUs /\ c \in Rqs(f, f[c])
  BY DEF RootsTold, Rqs
<1>3. k[f[c]].online = Rqs(f, f[c]) \cap on
  BY <1>0, <1>2 DEF RootOf
<1>4. PICK k2 : k2 = [k EXCEPT ![f[c]].online = @ \ {c}]
  OBVIOUS
<1>5. k2 = [k EXCEPT ![f[c]].online = (Rqs(f, f[c]) \cap on) \ {c}]
  BY <1>3, <1>4
<1>6. RootsTold(f, k2, on \ {c}, new)
  <2>1. (Rqs(f, f[c]) \cap on) \ {c} = Rqs(f, f[c]) \cap (on \ {c}) /\ on \ {c} \in SUBSET MachineCPUs
        /\ \A d \in MachineCPUs \ {c} : d \in on \ {c} <=> d \in on
    BY <1>2
  <2>. QED BY <1>1, <1>5, <2>1
<1>7. PICK k3 : k3 = [k EXCEPT ![f[c]].online = @ \cup {c}]
  OBVIOUS
<1>8. k3 = [k EXCEPT ![f[c]].online = (Rqs(f, f[c]) \cap on) \cup {c}]
  BY <1>3, <1>7
<1>9. RootsTold(f, k3, on \cup {c}, new)
  <2>1. (Rqs(f, f[c]) \cap on) \cup {c} = Rqs(f, f[c]) \cap (on \cup {c}) /\ on \cup {c} \in SUBSET MachineCPUs
        /\ \A d \in MachineCPUs \ {c} : d \in on \cup {c} <=> d \in on
    BY <1>2
  <2>. QED BY <1>1, <1>8, <2>1
<1>. QED BY <1>4, <1>6, <1>7, <1>9

LEMMA BuildStep == ASSUME DO!DomainsInv, NEW p \in x3, DO!Build(p) PROVE DO!DomainsInv'
<1>0. /\ DO!TypeOK /\ DO!RootsCounted /\ DO!PartsApart /\ DO!WalksKnown /\ DO!WalksUndisturbed
      /\ DO!WorkShape /\ DO!HotplugAlone /\ DO!StageHolds /\ DO!TablesNameDomains
  BY DEF DO!DomainsInv
<1>1. PICK B : B = x9.build
  OBVIOUS
<1>2. PICK r : r = CHOOSE q \in Roots : q \notin DOMAIN x7
  OBVIOUS
<1>3. /\ x9.at = "build" /\ p \in B /\ x9.destroy = {}
      /\ x7' = [q \in DOMAIN x7 \cup {r} |-> IF q = r THEN DO!NewRoot ELSE x7[q]]
      /\ x4' = [c \in MachineCPUs |-> IF c \in p.span THEN p ELSE x4[c]]
      /\ x9' = [at |-> "attach", root |-> r, todo |-> p.span, destroy |-> {}, build |-> B \ {p}]
      /\ UNCHANGED <<x1, x2, x3, x5, x6, x8, x10, x11, x12>>
  BY <1>0, <1>1, <1>2 DEF DO!Build, DO!StageHolds
<1>4. x9 # DO!Idle /\ x9' # DO!Idle /\ x10 = DO!Idle /\ x12 = DO!NoTables /\ x8 = x2
  BY <1>0, <1>3 DEF DO!Idle, DO!HotplugAlone
<1>5. RootsTold(x6, x7, x8, def_root_domain)
  BY <1>0, <1>3, RootsSay DEF Newest
<1>6. r \in Roots /\ r \notin DOMAIN x7
  <2>1. PICK q \in Roots \ {def_root_domain} : \A c \in MachineCPUs : x6[c] # q
    BY <1>0, MachineAssumption DEF DO!TypeOK
  <2>2. Rqs(x6, q) = {}
    BY <2>1 DEF Rqs
  <2>3. q \notin DOMAIN x7
    BY <1>5, <2>1, <2>2 DEF RootsTold
  <2>. QED BY <1>2, <2>1, <2>3
<1>7. RootsTold(x6', x7', x8', Newest(x9'))
  <2>1. Rqs(x6, r) = {} /\ r # def_root_domain
    BY <1>5, <1>6 DEF RootsTold, Rqs
  <2>2. RootOf(x6, x8, r) = DO!NewRoot
    <3>1. PICK n : n = Cardinality(Rqs(x6, r)) + (IF r = def_root_domain THEN 1 ELSE 0)
      OBVIOUS
    <3>2. n = 0
      BY <2>1, <3>1, FS_EmptySet
    <3>. QED BY <2>1, <3>1, <3>2 DEF RootOf, DO!NewRoot
  <2>3. \A q \in DOMAIN x7 : x7[q] = RootOf(x6, x8, q)
    BY <1>5 DEF RootsTold
  <2>4. DOMAIN x7' = DOMAIN x7 \cup {r} /\ \A q \in DOMAIN x7' : x7'[q] = RootOf(x6, x8, q)
    BY <1>3, <1>6, <2>2, <2>3
  <2>5. x7' = [q \in DOMAIN x7' |-> x7'[q]]
    BY <1>3
  <2>6. x7' = [q \in DOMAIN x7' |-> RootOf(x6, x8, q)]
    BY <2>4, <2>5, Zenon
  <2>7. RootsTold(x6, x7', x8, r)
    BY <1>5, <2>4, <2>6 DEF RootsTold
  <2>. QED BY <1>3, <2>7 DEF Newest
<1>8. DO!RootsCounted' /\ DO!TypeOK'
  BY <1>0, <1>3, <1>4, <1>7, RootsSayNext DEF DO!TypeOK
<1>9. PartsOK(x3, x5, {}, B, {})
  BY <1>0, <1>1, <1>3, <1>4, PartsSay DEF DO!Destroying, DO!Building, DO!Leaving
<1>10. PartsOK(x3, x5, {}, B \ {p}, {}) /\ p.span \cap x5 = {} /\ p.span # {}
  BY <1>3, <1>9 DEF PartsOK, DO!Span
<1>11. DO!PartsApart'
  BY <1>3, <1>4, <1>10, PartsSayNext DEF DO!Destroying, DO!Building, DO!Leaving
<1>12. DO!WorkShape' /\ DO!HotplugAlone'
  BY <1>0, <1>3, <1>4 DEF DO!WorkShape, DO!HotplugAlone, DO!NoTables
<1>13. DO!StageHolds'
  <2>1. /\ x9'.at = "attach" /\ x9'.root = r /\ x9'.todo = p.span /\ x9'.build = B \ {p}
        /\ x3' = x3 /\ r \in DOMAIN x7'
    BY <1>3
  <2>. QED BY <1>6, <1>10, <2>1 DEF DO!StageHolds
<1>14. DO!WalksKnown' /\ DO!WalksUndisturbed' /\ DO!TablesNameDomains'
  BY <1>0, <1>3, <1>4, <1>10 DEF DO!WalksKnown, DO!WalksUndisturbed, DO!TablesNameDomains, DO!NoTables, DO!TypeOK
<1>. QED BY <1>8, <1>11, <1>12, <1>13, <1>14 DEF DO!DomainsInv

LEMMA RegisterStep == ASSUME DO!DomainsInv, DO!register_sched_domain_sysctl PROVE DO!DomainsInv'
<1>0. /\ DO!TypeOK /\ DO!RootsCounted /\ DO!PartsApart /\ DO!WalksKnown /\ DO!WalksUndisturbed
      /\ DO!WorkShape /\ DO!HotplugAlone /\ DO!StageHolds /\ DO!TablesNameDomains
  BY DEF DO!DomainsInv
<1>1. /\ x9.at = "build" /\ x9' = DO!Idle /\ x9'.at = "idle" /\ x9.destroy = {}
      /\ x12' \in {DO!NoTables, [c \in MachineCPUs |-> IF c \in x2 THEN DO!sd_alloc_ctl_cpu_table(c) ELSE None]}
      /\ UNCHANGED <<x1, x2, x3, x4, x5, x6, x7, x8, x10, x11>>
  BY <1>0 DEF DO!register_sched_domain_sysctl, DO!Idle, DO!StageHolds
<1>2. x9 # DO!Idle /\ x10 = DO!Idle
  BY <1>0, <1>1 DEF DO!Idle, DO!HotplugAlone
<1>3. PICK B : PartsOK(x3, x5, {}, B, {})
  BY <1>0, <1>1, <1>2, PartsSay DEF DO!Destroying, DO!Building, DO!Leaving
<1>4. PartsOK(x3, x5, {}, {}, {})
  BY <1>3 DEF PartsOK
<1>5. DO!PartsApart'
  BY <1>1, <1>4, PartsSayNext DEF DO!Destroying, DO!Building, DO!Leaving
<1>6. DO!TypeOK'
  BY <1>0, <1>1 DEF DO!TypeOK
<1>7. DO!WorkShape' /\ DO!StageHolds' /\ DO!HotplugAlone'
  BY <1>0, <1>1 DEF DO!WorkShape, DO!StageHolds, DO!HotplugAlone
<1>8. DO!WalksKnown' /\ DO!WalksUndisturbed'
  BY <1>0, <1>1 DEF DO!WalksKnown, DO!WalksUndisturbed
<1>9. DO!TablesNameDomains'
  <2>1. ASSUME NEW c \in MachineCPUs, x12'[c] # None PROVE c \in x5 /\ x4[c] = x12'[c]
    BY <1>1, <2>1 DEF DO!NoTables, DO!sd_alloc_ctl_cpu_table
  <2>. QED BY <1>1, <2>1 DEF DO!TablesNameDomains
<1>10. DO!RootsCounted'
  BY <1>0, <1>1 DEF DO!RootsCounted
<1>. QED BY <1>5, <1>6, <1>7, <1>8, <1>9, <1>10 DEF DO!DomainsInv

(* What a step of hotplug, of a walk or of nothing at all leaves alone.    *)
LEMMA StageStays ==
  ASSUME DO!PartsApart, UNCHANGED <<x3, x5, x9>>
  PROVE  DO!PartsApart'
<1>1. PartsOK(x3', x5', DO!Destroying, DO!Building, DO!Leaving)
  BY PartsSay
<1>2. DO!Destroying' = DO!Destroying /\ DO!Building' = DO!Building /\ DO!Leaving' = DO!Leaving
  BY DEF DO!Destroying, DO!Building, DO!Leaving
<1>. QED BY <1>1, <1>2, PartsSayNext

LEMMA HotplugStep ==
  ASSUME DO!DomainsInv,
         \/ \E c \in MachineCPUs : DO!DownPrepare(c) \/ DO!Online(c)
         \/ DO!DownFailed \/ DO!Dying
  PROVE  DO!DomainsInv'
<1>0. /\ DO!TypeOK /\ DO!RootsCounted /\ DO!PartsApart /\ DO!WalksKnown /\ DO!WalksUndisturbed
      /\ DO!WorkShape /\ DO!HotplugAlone /\ DO!StageHolds /\ DO!TablesNameDomains
  BY DEF DO!DomainsInv
<1>1. x9 = DO!Idle /\ x9.at = "idle" /\ UNCHANGED <<x1, x3, x4, x5, x6, x9, x11, x12>>
  <2>1. DO!Idle.at = "idle"
    BY DEF DO!Idle
  <2>. QED BY <1>0, <2>1 DEF DO!DownPrepare, DO!Online, DO!DownFailed, DO!Dying, DO!Quiet, DO!HotplugAlone
<1>2. DO!PartsApart' /\ DO!WorkShape' /\ DO!StageHolds' /\ DO!WalksKnown' /\ DO!WalksUndisturbed' /\ DO!TablesNameDomains'
  BY <1>0, <1>1, StageStays DEF DO!WorkShape, DO!StageHolds, DO!WalksKnown, DO!WalksUndisturbed, DO!TablesNameDomains
<1>3. RootsTold(x6, x7, x8, def_root_domain) /\ (x10 = DO!Idle => x8 = x2) /\ Newest(x9) = def_root_domain
  BY <1>0, <1>1, RootsSay DEF Newest
<1>4. SUFFICES /\ RootsTold(x6', x7', x8', def_root_domain) /\ (x10' = DO!Idle => x8' = x2')
               /\ DO!HotplugAlone' /\ x2' \subseteq MachineCPUs /\ MachineCPUs \ MachineRemovable \subseteq x2'
  <2>1. Newest(x9') = def_root_domain
    BY <1>1 DEF Newest
  <2>. QED BY <1>0, <1>1, <1>2, <2>1, RootsSayNext DEF DO!TypeOK, DO!DomainsInv
<1>5. ASSUME NEW c \in MachineCPUs, DO!DownPrepare(c)
      PROVE  /\ RootsTold(x6', x7', x8', def_root_domain) /\ (x10' = DO!Idle => x8' = x2')
             /\ DO!HotplugAlone' /\ x2' \subseteq MachineCPUs /\ MachineCPUs \ MachineRemovable \subseteq x2'
  <2>1. /\ x2' = x2 \ {c} /\ x10' = [at |-> "down", cpu |-> c] /\ c \in MachineRemovable /\ c \in x2 /\ x8 = x2
        /\ UNCHANGED <<x6, x7, x8, x9>>
    BY <1>3, <1>5 DEF DO!DownPrepare, DO!Quiet
  <2>2. x10'.at = "down" /\ x10'.cpu = c /\ x10' # DO!Idle
    BY <2>1 DEF DO!Idle
  <2>. QED BY <1>0, <1>1, <1>3, <2>1, <2>2 DEF DO!HotplugAlone, DO!TypeOK
<1>6. ASSUME DO!DownFailed
      PROVE  /\ RootsTold(x6', x7', x8', def_root_domain) /\ (x10' = DO!Idle => x8' = x2')
             /\ DO!HotplugAlone' /\ x2' \subseteq MachineCPUs /\ MachineCPUs \ MachineRemovable \subseteq x2'
  <2>1. x2' = x2 \cup {x10.cpu} /\ x10' = DO!Idle /\ x10.at = "down" /\ x10'.at = "idle" /\ UNCHANGED <<x6, x7, x8, x9>>
    BY <1>6 DEF DO!DownFailed, DO!Idle
  <2>2. x2' = x8
    BY <1>0, <2>1 DEF DO!HotplugAlone
  <2>. QED BY <1>0, <1>1, <1>3, <2>1, <2>2 DEF DO!HotplugAlone, DO!TypeOK
<1>7. ASSUME DO!Dying
      PROVE  /\ RootsTold(x6', x7', x8', def_root_domain) /\ (x10' = DO!Idle => x8' = x2')
             /\ DO!HotplugAlone' /\ x2' \subseteq MachineCPUs /\ MachineCPUs \ MachineRemovable \subseteq x2'
  <2>1. PICK c : c = x10.cpu
    OBVIOUS
  <2>2. x10.at = "down" /\ c \in x8 /\ x2 = x8 \ {c} /\ x10 # DO!Idle
    BY <1>0, <1>7, <2>1 DEF DO!Dying, DO!HotplugAlone, DO!Idle
  <2>3. /\ x8' = x8 \ {c} /\ x7' = [x7 EXCEPT ![x6[c]].online = @ \ {c}]
        /\ x10' = [x10 EXCEPT !.at = "dead"] /\ UNCHANGED <<x2, x6, x9>>
    BY <1>7, <2>1, <2>2 DEF DO!Dying
  <2>4. x10'.at = "dead" /\ x10' # DO!Idle
    BY <2>3 DEF DO!Idle
  <2>5. RootsTold(x6, x7', x8 \ {c}, def_root_domain)
    <3>1. c \in MachineCPUs
      BY <1>0, <2>2 DEF DO!TypeOK
    <3>. QED BY <1>3, <2>3, <3>1, OnlineMoves
  <2>. QED BY <1>0, <1>1, <2>2, <2>3, <2>4, <2>5 DEF DO!HotplugAlone, DO!TypeOK
<1>8. ASSUME NEW c \in MachineCPUs, DO!Online(c)
      PROVE  /\ RootsTold(x6', x7', x8', def_root_domain) /\ (x10' = DO!Idle => x8' = x2')
             /\ DO!HotplugAlone' /\ x2' \subseteq MachineCPUs /\ MachineCPUs \ MachineRemovable \subseteq x2'
  <2>1. /\ x2' = x2 \cup {c} /\ x8' = x8 \cup {c} /\ x10' = [at |-> "online", cpu |-> c] /\ x8 = x2
        /\ x7' = [x7 EXCEPT ![x6[c]].online = @ \cup {c}] /\ UNCHANGED <<x6, x9>>
    BY <1>3, <1>8 DEF DO!Online, DO!Quiet
  <2>2. x10'.at = "online" /\ x10' # DO!Idle
    BY <2>1 DEF DO!Idle
  <2>3. RootsTold(x6, x7', x8 \cup {c}, def_root_domain)
    BY <1>3, <2>1, OnlineMoves
  <2>. QED BY <1>0, <1>1, <2>1, <2>2, <2>3 DEF DO!HotplugAlone, DO!TypeOK
<1>. QED BY <1>5, <1>6, <1>7, <1>8

LEMMA WalkStep ==
  ASSUME DO!DomainsInv,
         \/ \E c, d \in MachineCPUs : DO!Walk(c, d)
         \/ \E c \in MachineCPUs : DO!EndWalk(c)
         \/ UNCHANGED DO!vars
  PROVE  DO!DomainsInv'
<1>0. /\ DO!TypeOK /\ DO!RootsCounted /\ DO!PartsApart /\ DO!WalksKnown /\ DO!WalksUndisturbed
      /\ DO!WorkShape /\ DO!HotplugAlone /\ DO!StageHolds /\ DO!TablesNameDomains
  BY DEF DO!DomainsInv
<1>1. CASE UNCHANGED DO!vars
  <2>1. UNCHANGED <<x1, x2, x3, x4, x5, x6, x7, x8, x9, x10, x11, x12>>
    BY <1>1 DEF DO!vars
  <2>2. DO!PartsApart' /\ DO!TypeOK' /\ DO!RootsCounted'
    BY <1>0, <2>1, StageStays DEF DO!TypeOK, DO!RootsCounted
  <2>3. /\ DO!WalksKnown' /\ DO!WalksUndisturbed' /\ DO!WorkShape' /\ DO!HotplugAlone' /\ DO!StageHolds'
        /\ DO!TablesNameDomains'
    BY <1>0, <2>1 DEF DO!WalksKnown, DO!WalksUndisturbed, DO!WorkShape, DO!HotplugAlone, DO!StageHolds,
       DO!TablesNameDomains, DO!NoTables
  <2>. QED BY <2>2, <2>3 DEF DO!DomainsInv
<1>2. ASSUME NEW c \in MachineCPUs, NEW d \in MachineCPUs, DO!Walk(c, d) PROVE DO!DomainsInv'
  <2>1. /\ d \in x5 /\ x11' = [x11 EXCEPT ![c] = [cpu |-> d, part |-> x4[d]]]
        /\ UNCHANGED <<x1, x2, x3, x4, x5, x6, x7, x8, x9, x10, x12>>
    BY <1>2 DEF DO!Walk
  <2>2. DO!PartsApart' /\ DO!TypeOK' /\ DO!RootsCounted'
    BY <1>0, <2>1, StageStays DEF DO!TypeOK, DO!RootsCounted
  <2>3. DO!WorkShape' /\ DO!HotplugAlone' /\ DO!StageHolds' /\ DO!TablesNameDomains'
    BY <1>0, <2>1 DEF DO!WorkShape, DO!HotplugAlone, DO!StageHolds, DO!TablesNameDomains, DO!NoTables
  <2>4. DO!WalksKnown' /\ DO!WalksUndisturbed'
    BY <1>0, <2>1 DEF DO!WalksKnown, DO!WalksUndisturbed, DO!TypeOK
  <2>. QED BY <2>2, <2>3, <2>4 DEF DO!DomainsInv
<1>3. ASSUME NEW c \in MachineCPUs, DO!EndWalk(c) PROVE DO!DomainsInv'
  <2>1. /\ x11' = [x11 EXCEPT ![c] = None]
        /\ x9' = IF x9.at = "free" THEN [x9 EXCEPT !.wait = @ \ {c}] ELSE x9
        /\ UNCHANGED <<x1, x2, x3, x4, x5, x6, x7, x8, x10, x12>>
    BY <1>3 DEF DO!EndWalk
  <2>2. CASE x9.at # "free"
    <3>1. x9' = x9
      BY <2>1, <2>2
    <3>2. DO!PartsApart' /\ DO!TypeOK' /\ DO!RootsCounted'
      BY <1>0, <2>1, <3>1, StageStays, ZenonT(30) DEF DO!TypeOK, DO!RootsCounted
    <3>3. DO!WorkShape' /\ DO!HotplugAlone' /\ DO!StageHolds' /\ DO!TablesNameDomains'
      BY <1>0, <2>1, <3>1 DEF DO!WorkShape, DO!HotplugAlone, DO!StageHolds, DO!TablesNameDomains, DO!NoTables
    <3>4. DO!WalksKnown' /\ DO!WalksUndisturbed'
      BY <1>0, <2>1, <3>1 DEF DO!WalksKnown, DO!WalksUndisturbed, DO!TypeOK
    <3>. QED BY <3>2, <3>3, <3>4 DEF DO!DomainsInv
  <2>3. CASE x9.at = "free"
    <3>1. PICK D : D = x9.destroy
      OBVIOUS
    <3>2. PICK B : B = x9.build
      OBVIOUS
    <3>3. PICK q : q = x9.part
      OBVIOUS
    <3>4. PICK W : W = x9.wait
      OBVIOUS
    <3>5. x9 = [at |-> "free", part |-> q, wait |-> W, destroy |-> D, build |-> B]
      BY <1>0, <2>3, <3>1, <3>2, <3>3, <3>4 DEF DO!WorkShape, DO!Idle
    <3>6. x9' = [at |-> "free", part |-> q, wait |-> W \ {c}, destroy |-> D, build |-> B]
      BY <2>1, <2>3, <3>5
    <3>7. x9 # DO!Idle /\ x9' # DO!Idle /\ x10 = DO!Idle /\ x12 = DO!NoTables /\ x8 = x2
      BY <1>0, <3>5, <3>6 DEF DO!Idle, DO!HotplugAlone
    <3>8. PartsOK(x3, x5, D, B, {})
      BY <1>0, <3>5, <3>7, PartsSay DEF DO!Destroying, DO!Building, DO!Leaving
    <3>9. DO!PartsApart'
      BY <2>1, <3>6, <3>7, <3>8, PartsSayNext DEF DO!Destroying, DO!Building, DO!Leaving
    <3>10. DO!TypeOK' /\ DO!RootsCounted'
      <4>1. DO!TypeOK'
        BY <1>0, <2>1 DEF DO!TypeOK
      <4>2. x9'.at # "attach" /\ x9.at # "attach"
        BY <2>3, <3>6
      <4>3. DO!RootsCounted'
        BY <1>0, <2>1, <4>2 DEF DO!RootsCounted
      <4>. QED BY <4>1, <4>3
    <3>11. DO!WorkShape' /\ DO!StageHolds' /\ DO!HotplugAlone' /\ DO!TablesNameDomains'
      BY <1>0, <2>1, <3>3, <2>3, <3>6, <3>7 DEF DO!WorkShape, DO!StageHolds, DO!HotplugAlone, DO!NoTables, DO!TablesNameDomains
    <3>12. DO!WalksKnown' /\ DO!WalksUndisturbed'
      BY <1>0, <2>1, <2>3, <3>3, <3>4, <3>6 DEF DO!WalksKnown, DO!WalksUndisturbed, DO!TypeOK
    <3>. QED BY <3>9, <3>10, <3>11, <3>12 DEF DO!DomainsInv
  <2>. QED BY <2>2, <2>3
<1>. QED BY <1>1, <1>2, <1>3

(* A repartition begins with the parts a cpuset asks for, or with all      *)
(* processors that are active and not isolated.                            *)
LEMMA PartitionStep ==
  ASSUME DO!DomainsInv,
         \/ \E t \in Topologies : \/ DO!RebuildAll(t)
                                  \/ \E new \in Partitions : DO!Repartition({DO!Part(c[1], c[2]) : c \in new}, t)
         \/ DO!Dead \/ DO!OnlineRebuild
  PROVE  DO!DomainsInv'
<1>0. DO!TypeOK /\ DO!RootsCounted /\ DO!HotplugAlone
  BY DEF DO!DomainsInv
<1>1. ASSUME NEW t, DO!Rebuild(t), x9 = DO!Idle, x8 = x2, x10' = DO!Idle, UNCHANGED <<x2, x4, x5, x6, x7, x8, x11>>
      PROVE  DO!DomainsInv'
  <2>1. PICK new : new = {DO!Part(DO!fallback_doms, -1)}
    OBVIOUS
  <2>2. DO!Partition(new, t, TRUE)
    BY <1>1, <2>1 DEF DO!Rebuild
  <2>3. DO!fallback_doms # {} /\ DO!fallback_doms \subseteq MachineCPUs
    BY <1>0, MachineAssumption DEF DO!fallback_doms, DO!TypeOK
  <2>4. /\ \A p \in new : p = DO!Part(p.span, p.relax) /\ p.span # {} /\ p.span \subseteq MachineCPUs
        /\ \A p, q \in new : p # q => p.span \cap q.span = {}
    BY <2>1, <2>3 DEF DO!Part
  <2>. QED BY <1>1, <2>2, <2>4, Parted
<1>2. ASSUME NEW t \in Topologies, DO!RebuildAll(t) PROVE DO!DomainsInv'
  BY <1>0, <1>1, <1>2 DEF DO!RebuildAll, DO!Quiet, DO!RootsCounted
<1>3. ASSUME NEW t \in Topologies, NEW set \in Partitions, DO!Repartition({DO!Part(c[1], c[2]) : c \in set}, t)
      PROVE  DO!DomainsInv'
  <2>1. PICK new : new = {DO!Part(c[1], c[2]) : c \in set}
    OBVIOUS
  <2>2. /\ x9 = DO!Idle /\ x10 = DO!Idle /\ DO!Partition(new, t, FALSE)
        /\ \A p, q \in new : p # q => p.span \cap q.span = {}
        /\ \A p \in new : p.span # {} /\ p.span \subseteq x2
        /\ UNCHANGED <<x2, x4, x5, x6, x7, x8, x10, x11>>
    BY <1>3, <2>1 DEF DO!Repartition, DO!Quiet
  <2>3. \A p \in new : p = DO!Part(p.span, p.relax)
    BY <2>1 DEF DO!Part
  <2>4. x8 = x2 /\ x2 \subseteq MachineCPUs
    BY <1>0, <2>2 DEF DO!RootsCounted, DO!TypeOK
  <2>. QED BY <2>2, <2>3, <2>4, Parted
<1>4. ASSUME DO!Dead \/ DO!OnlineRebuild PROVE DO!DomainsInv'
  <2>1. x10.at \in {"dead", "online"} /\ x10' = DO!Idle /\ UNCHANGED <<x2, x4, x5, x6, x7, x8, x11>> /\ DO!Rebuild(x1)
    BY <1>4 DEF DO!Dead, DO!OnlineRebuild
  <2>2. x9 = DO!Idle /\ x8 = x2
    BY <1>0, <2>1 DEF DO!HotplugAlone, DO!Idle
  <2>. QED BY <1>1, <2>1, <2>2
<1>. QED BY <1>2, <1>3, <1>4

(* An array was freed twice: the repartition and hotplug are not modelled  *)
(* any further, and nothing brings them back.                              *)
Broken == DO!Corrupt /\ x10 = DO!Idle

LEMMA DomainsStep == ASSUME DO!DomainsInv, [DO!Next]_DO!vars PROVE DO!DomainsInv' \/ Broken'
<1>1. ASSUME NEW part0 \in IF x9.at = "destroy" THEN x9.destroy ELSE {}, DO!Destroy(part0) PROVE DO!DomainsInv'
  BY <1>1, DestroyStep
<1>2. ASSUME NEW p \in x3, DO!Build(p) PROVE DO!DomainsInv'
  BY <1>2, BuildStep
<1>3. ASSUME NEW c \in MachineCPUs, DO!DownPrepare(c) \/ DO!Online(c) PROVE DO!DomainsInv'
  BY <1>3, HotplugStep
<1>4. ASSUME NEW c \in MachineCPUs, NEW d \in MachineCPUs, DO!Walk(c, d) PROVE DO!DomainsInv'
  BY <1>4, WalkStep
<1>5. ASSUME NEW c \in MachineCPUs, DO!EndWalk(c) PROVE DO!DomainsInv'
  BY <1>5, WalkStep
<1>6. CASE UNCHANGED DO!vars
  BY <1>6, WalkStep
<1>7. ASSUME NEW p \in x3, DO!BuildFails(p) \/ DO!GroupsFail(p) PROVE DO!DomainsInv'
  BY <1>7, StageStep
<1>8. CASE DO!DestroyedAll \/ DO!BuiltAll
  BY <1>8, StageStep
<1>9. CASE DO!DownFailed \/ DO!Dying
  BY <1>9, HotplugStep
<1>10. CASE DO!Dead \/ DO!OnlineRebuild
  BY <1>10, PartitionStep
<1>11. ASSUME NEW t \in Topologies, DO!RebuildAll(t) PROVE DO!DomainsInv'
  BY <1>11, PartitionStep
<1>12. ASSUME NEW t \in Topologies, NEW new \in Partitions, DO!Repartition({DO!Part(c[1], c[2]) : c \in new}, t)
       PROVE  DO!DomainsInv'
  BY <1>12, PartitionStep
<1>13. CASE DO!Detach \/ DO!synchronize_sched \/ DO!free_sched_groups \/ DO!Attach \/ DO!register_sched_domain_sysctl
  BY <1>13, DetachStep, WaitStep, FreeStep, AttachStep, RegisterStep
<1>14. CASE DO!free_stale_groups
  <2>1. x9 # DO!Idle /\ x9'.at = "corrupt" /\ x10' = x10
    BY <1>14 DEF DO!free_stale_groups, DO!Idle
  <2>2. x10 = DO!Idle
    BY <2>1 DEF DO!DomainsInv, DO!HotplugAlone
  <2>. QED BY <2>1, <2>2 DEF Broken, DO!Corrupt
<1>. QED BY <1>1, <1>2, <1>3, <1>4, <1>5, <1>6, <1>7, <1>8, <1>9, <1>10, <1>11, <1>12, <1>13, <1>14 DEF DO!Next

LEMMA BrokenStays == ASSUME Broken, [DO!Next]_DO!vars PROVE Broken'
<1>1. x9.at = "corrupt" /\ x9 # DO!Idle /\ x10 = DO!Idle /\ x10.at = "idle"
  BY DEF Broken, DO!Corrupt, DO!Idle
<1>2. UNCHANGED <<x9, x10>>
  BY <1>1 DEF DO!Next, DO!vars, DO!RebuildAll, DO!Repartition, DO!Quiet, DO!Build, DO!BuildFails, DO!GroupsFail,
     DO!Destroy, DO!Detach, DO!synchronize_sched, DO!free_sched_groups, DO!free_stale_groups, DO!DestroyedAll,
     DO!Attach, DO!BuiltAll, DO!register_sched_domain_sysctl, DO!DownFailed, DO!Dying, DO!Dead, DO!OnlineRebuild,
     DO!DownPrepare, DO!Online, DO!EndWalk, DO!Walk
<1>. QED BY <1>1, <1>2 DEF Broken, DO!Corrupt

(* partition_sched_domains(), rq_attach_root(), 7956: for any processors,  *)
(* topologies, partitions and orders of cpusets, hotplug, walks and failed *)
(* builds, root domains are counted, no walk is disturbed, and tables name *)
(* what is used, as long as no array of node groups is freed twice.        *)
THEOREM DomainsHoldAlways == KernelSpec => []DomainsHold
<1>. DEFINE I == part = "Domains" => DO!DomainsInv \/ Broken
<1>1. KernelInit => I
  BY PartStarts, DomainsInit
<1>2. I /\ [KernelNext]_<<vars, part, slots>> => I'
  BY PartMoves, DomainsStep, BrokenStays
<1>3. I => DomainsHold
  BY DEF DomainsHold, DO!DomainsInv, Broken
<1>. QED BY <1>1, <1>2, <1>3, PTL DEF KernelSpec

-----------------------------------------------------------------------------
(* build_sched_domains(): what a domain is made of, level by level.        *)

LEMMA CardinalSame ==
  ASSUME NEW S
  PROVE  DO!Cardinality(S) = Cardinality(S)
BY DEF DO!Cardinality, Cardinality

(* A finite set listed in the order of a relation: each member once, one   *)
(* that none comes before first.                                           *)
LEMMA ListedOnce ==
  ASSUME NEW S, IsFiniteSet(S), NEW R,
         \A x \in S : <<x, x>> \notin R,
         \A x, y \in S : x # y => <<x, y>> \in R \/ <<y, x>> \in R,
         \A x, y, z \in S : <<x, y>> \in R /\ <<y, z>> \in R => <<x, z>> \in R
  PROVE  /\ Cardinality(S) \in Nat
         /\ DO!Listed(S, R) \in [1..Cardinality(S) -> S]
         /\ \A i, j \in 1..Cardinality(S) : i # j => DO!Listed(S, R)[i] # DO!Listed(S, R)[j]
         /\ \A x \in S : \E k \in 1..Cardinality(S) : DO!Listed(S, R)[k] = x
         /\ \A x \in S : (\A y \in S : <<y, x>> \notin R) => DO!Listed(S, R)[1] = x
<1>. DEFINE below(x) == {y \in S : <<y, x>> \in R}
<1>1. PICK n \in Nat : n = Cardinality(S)
  BY FS_CardinalityType
<1>2. ASSUME NEW x \in S
      PROVE  IsFiniteSet(below(x)) /\ Cardinality(below(x)) \in 0..(n - 1)
  <2>1. below(x) \in SUBSET S /\ x \notin below(x)
    OBVIOUS
  <2>2. /\ IsFiniteSet(below(x)) /\ Cardinality(below(x)) <= n /\ Cardinality(below(x)) # n
        /\ Cardinality(below(x)) \in Nat
    BY <1>1, <2>1, FS_Subset, FS_CardinalityType
  <2>. QED BY <2>2
<1>3. ASSUME NEW x \in S, NEW y \in S, <<x, y>> \in R
      PROVE  Cardinality(below(x)) < Cardinality(below(y))
  <2>1. below(x) \in SUBSET below(y) /\ x \in below(y) /\ x \notin below(x)
    BY <1>3
  <2>2. Cardinality(below(x)) <= Cardinality(below(y)) /\ Cardinality(below(x)) # Cardinality(below(y))
    BY <1>2, <2>1, FS_Subset
  <2>. QED BY <1>2, <2>2
<1>. DEFINE rank == [x \in S |-> Cardinality(below(x))]
<1>4. rank \in [S -> 0..(n - 1)] /\ \A x \in S : rank[x] = Cardinality(below(x))
  BY <1>2, Zenon
<1>. HIDE DEF rank
<1>5. ASSUME NEW x \in S, NEW y \in S, rank[x] = rank[y]
      PROVE  x = y
  <2>1. rank[x] = Cardinality(below(x)) /\ rank[y] = Cardinality(below(y))
    BY <1>4
  <2>2. PICK a, b : a = Cardinality(below(x)) /\ b = Cardinality(below(y))
    OBVIOUS
  <2>3. a \in Nat /\ b \in Nat /\ a = b
    <3>1. a \in 0..(n - 1) /\ b \in 0..(n - 1)
      BY <1>2, <2>2
    <3>2. a = b
      BY <1>5, <2>1, <2>2
    <3>. QED BY <3>1, <3>2
  <2>4. <<x, y>> \in R => a < b
    BY <1>3, <2>2
  <2>5. <<y, x>> \in R => b < a
    BY <1>3, <2>2
  <2>6. x # y => <<x, y>> \in R \/ <<y, x>> \in R
    OBVIOUS
  <2>. QED BY <2>3, <2>4, <2>5, <2>6
<1>6. IsFiniteSet(0..(n - 1)) /\ Cardinality(0..(n - 1)) = n
  BY FS_Interval
<1>7. rank \in Injection(S, 0..(n - 1))
  BY <1>4, <1>5 DEF Injection, IsInjective
<1>8. rank \in Surjection(S, 0..(n - 1))
  BY <1>1, <1>6, <1>7, FS_Injection
<1>9. \A k \in 0..(n - 1) : \E x \in S : rank[x] = k
  BY <1>8 DEF Surjection
<1>10. PICK L : L = DO!Listed(S, R)
  OBVIOUS
<1>11. L = [k \in 1..n |-> CHOOSE x \in S : rank[x] = k - 1]
  <2>1. \A x \in S : DO!Cardinality(below(x)) = rank[x]
    BY <1>4, CardinalSame
  <2>2. L = [k \in 1..n |-> CHOOSE x \in S : DO!Cardinality(below(x)) = k - 1]
    BY <1>1, <1>10, CardinalSame DEF DO!Listed
  <2>. DEFINE one(k) == CHOOSE x \in S : DO!Cardinality(below(x)) = k - 1
              two(k) == CHOOSE x \in S : rank[x] = k - 1
  <2>3. ASSUME NEW k \in 1..n
        PROVE  one(k) = two(k)
    <3>1. \A x : (x \in S /\ DO!Cardinality(below(x)) = k - 1) <=> (x \in S /\ rank[x] = k - 1)
      BY <2>1
    <3>. QED BY <3>1, Zenon
  <2>4. L = [k \in 1..n |-> one(k)]
    BY <2>2
  <2>. HIDE DEF one, two
  <2>5. [k \in 1..n |-> one(k)] = [k \in 1..n |-> two(k)]
    BY <2>3
  <2>6. L = [k \in 1..n |-> two(k)]
    BY <2>4, <2>5
  <2>. QED BY <2>6 DEF two
<1>12. ASSUME NEW k \in 1..n
       PROVE  L[k] \in S /\ rank[L[k]] = k - 1
  <2>1. \E x \in S : rank[x] = k - 1
    BY <1>9
  <2>. QED BY <1>11, <2>1
<1>13. L \in [1..n -> S]
  BY <1>11, <1>12
<1>14. ASSUME NEW x \in S
       PROVE  rank[x] + 1 \in 1..n /\ L[rank[x] + 1] = x
  <2>1. rank[x] \in 0..(n - 1)
    BY <1>4
  <2>. QED BY <1>5, <1>12, <2>1
<1>15. ASSUME NEW x \in S, \A y \in S : <<y, x>> \notin R
       PROVE  L[1] = x
  <2>1. below(x) = {}
    BY <1>15
  <2>2. rank[x] = 0
    BY <1>4, <2>1, FS_EmptySet
  <2>. QED BY <1>14, <2>2
<1>. QED BY <1>1, <1>10, <1>12, <1>13, <1>14, <1>15

(* The group that a processor is in, level by level.                       *)
Class(t, level, c, M) ==
  CASE level = "SIBLING" -> {c}
    [] level = "MC"      -> IF t.smt THEN DO!Threads(t, c, M) ELSE {c}
    [] level = "CPU"     -> IF t.mc THEN DO!Cores(t, c, M) ELSE IF t.smt THEN DO!Threads(t, c, M) ELSE {c}
    [] OTHER             -> DO!NodeCpus(t, c, M)

LEMMA ClassHolds ==
  ASSUME NEW t \in Topologies, NEW level, NEW M \in SUBSET MachineCPUs, NEW c \in M
  PROVE  /\ c \in Class(t, level, c, M) /\ Class(t, level, c, M) \subseteq M
         /\ \A d \in Class(t, level, c, M) : Class(t, level, d, M) = Class(t, level, c, M)
<1>1. CASE level = "SIBLING"
  BY <1>1 DEF Class
<1>2. CASE level = "MC"
  BY <1>2 DEF Class, DO!Threads
<1>3. CASE level = "CPU"
  BY <1>3 DEF Class, DO!Threads, DO!Cores
<1>4. CASE level \notin {"SIBLING", "MC", "CPU"}
  BY <1>4 DEF Class, DO!NodeCpus, DO!OfNode
<1>. QED BY <1>1, <1>2, <1>3, <1>4

(* Two processors have the same leader when they are in the same group.    *)
LEMMA LeaderSame ==
  ASSUME NEW t \in Topologies, NEW level, NEW M \in SUBSET MachineCPUs, NEW c \in M
  PROVE  /\ DO!GroupId(t, level, c, M) \in Class(t, level, c, M)
         /\ DO!GroupId(t, level, c, M) = DO!Min(Class(t, level, c, M))
         /\ \A d \in M : DO!GroupId(t, level, d, M) = DO!GroupId(t, level, c, M)
                           <=> d \in Class(t, level, c, M)
<1>1. \A d \in M : DO!GroupId(t, level, d, M) = DO!Min(Class(t, level, d, M))
  BY DEF DO!GroupId, Class
<1>2. \A d \in M : DO!GroupId(t, level, d, M) \in Class(t, level, d, M)
  BY <1>1, ClassHolds, LeastDone
<1>3. ASSUME NEW d \in M, DO!GroupId(t, level, d, M) = DO!GroupId(t, level, c, M)
      PROVE  d \in Class(t, level, c, M)
  <2>1. PICK g : g = DO!GroupId(t, level, d, M)
    OBVIOUS
  <2>2. g \in Class(t, level, d, M) /\ g \in Class(t, level, c, M)
    BY <1>2, <1>3, <2>1
  <2>3. Class(t, level, d, M) = Class(t, level, c, M)
    BY <2>2, ClassHolds
  <2>. QED BY <2>3, ClassHolds
<1>4. ASSUME NEW d \in M, d \in Class(t, level, c, M)
      PROVE  DO!GroupId(t, level, d, M) = DO!GroupId(t, level, c, M)
  <2>1. Class(t, level, d, M) = Class(t, level, c, M)
    BY <1>4, ClassHolds
  <2>. QED BY <1>1, <2>1
<1>. QED BY <1>1, <1>2, <1>3, <1>4

(* What is whole holds the groups of its processors.                       *)
Whole(t, level, S, M) == S \in SUBSET M /\ \A j \in S : Class(t, level, j, M) \subseteq S

LEMMA GroupIsClass ==
  ASSUME NEW t \in Topologies, NEW level, NEW M \in SUBSET MachineCPUs, NEW S, Whole(t, level, S, M), NEW c \in S
  PROVE  DO!GroupOf(t, level, S, c, M) = Class(t, level, c, M)
<1>1. c \in M /\ S \subseteq M /\ Class(t, level, c, M) \subseteq S
  BY DEF Whole
<1>2. \A d \in S : DO!GroupId(t, level, d, M) = DO!GroupId(t, level, c, M) <=> d \in Class(t, level, c, M)
  BY <1>1, LeaderSame
<1>. QED BY <1>1, <1>2 DEF DO!GroupOf

(* The groups of a list divide a set, and the first is that of c.          *)
Divided(groups, S, c) ==
  /\ groups \in Seq(SUBSET S) /\ Len(groups) >= 1 /\ c \in groups[1]
  /\ UNION {groups[i] : i \in DOMAIN groups} = S
  /\ \A i, j \in DOMAIN groups : i # j => groups[i] \cap groups[j] = {}

(* Counting from first on, each of two numbers is before the other, or     *)
(* they are equal; nothing is before the first.                            *)
LEMMA BeforeOrders ==
  ASSUME NEW first \in Nat
  PROVE  /\ \A i, j, k \in Nat : DO!Before(first, i, j) /\ DO!Before(first, j, k) => DO!Before(first, i, k)
         /\ \A i, j \in Nat : i # j => DO!Before(first, i, j) \/ DO!Before(first, j, i)
         /\ \A i \in Nat : ~DO!Before(first, i, i) /\ ~DO!Before(first, i, first)
<1>1. ASSUME NEW i \in Nat, NEW j \in Nat, NEW k \in Nat, DO!Before(first, i, j), DO!Before(first, j, k)
      PROVE  DO!Before(first, i, k)
  BY <1>1 DEF DO!Before
<1>2. ASSUME NEW i \in Nat, NEW j \in Nat, i # j
      PROVE  DO!Before(first, i, j) \/ DO!Before(first, j, i)
  BY <1>2 DEF DO!Before
<1>3. ASSUME NEW i \in Nat
      PROVE  ~DO!Before(first, i, i) /\ ~DO!Before(first, i, first)
  BY DEF DO!Before
<1>. QED BY <1>1, <1>2, <1>3

(* init_sched_build_groups(): the ring of a span that is whole divides it  *)
(* into the groups of its processors.                                      *)
LEMMA RingDivides ==
  ASSUME NEW t \in Topologies, NEW level, NEW M \in SUBSET MachineCPUs, NEW S, Whole(t, level, S, M), NEW c \in S
  PROVE  LET ring == DO!Ring(t, level, S, c, M)
         IN  /\ Divided(ring, S, c) /\ ring[1] = Class(t, level, c, M)
             /\ \A i \in DOMAIN ring : \E j \in S : ring[i] = Class(t, level, j, M)
<1>. DEFINE class(j) == Class(t, level, j, M)
            groups   == {class(j) : j \in S}
            first    == DO!Min(class(c))
            R        == {p \in groups \X groups : DO!Before(first, DO!Min(p[1]), DO!Min(p[2]))}
<1>1. S \subseteq M /\ S \subseteq MachineCPUs /\ IsFiniteSet(S)
  BY MachineAssumption, FS_Subset DEF Whole
<1>2. DO!Ring(t, level, S, c, M) = DO!Listed(groups, R)
  <2>1. \A j \in S : DO!GroupOf(t, level, S, j, M) = class(j)
    BY GroupIsClass
  <2>2. {DO!GroupOf(t, level, S, j, M) : j \in S} = groups
    BY <2>1
  <2>. QED BY <2>1, <2>2 DEF DO!Ring
<1>3. \A j \in S : j \in class(j) /\ class(j) \subseteq S /\ \A k \in class(j) : class(k) = class(j)
  BY <1>1, ClassHolds DEF Whole
<1>. HIDE DEF class
<1>4. IsFiniteSet(groups)
  <2>. DEFINE f == [j \in S |-> class(j)]
  <2>1. f \in Surjection(S, groups)
    BY DEF Surjection
  <2>. HIDE DEF f
  <2>. QED BY <1>1, <2>1, FS_Surjection
<1>5. \A g \in groups : /\ g # {} /\ g \subseteq S /\ DO!Min(g) \in g /\ DO!Min(g) \in Nat
                        /\ \A j \in g : g = class(j)
  BY <1>1, <1>3, LeastDone, MachineAssumption
<1>6. \A g, h \in groups : DO!Min(g) = DO!Min(h) => g = h
  BY <1>5
<1>7. first \in Nat /\ class(c) \in groups
  BY <1>5
<1>. DEFINE before(g, h) == DO!Before(first, DO!Min(g), DO!Min(h))
<1>8. \A g, h \in groups : <<g, h>> \in R <=> before(g, h)
  OBVIOUS
<1>. HIDE DEF groups, R
<1>9. /\ \A g \in groups : ~before(g, g) /\ ~before(g, class(c))
      /\ \A g, h \in groups : g # h => before(g, h) \/ before(h, g)
      /\ \A g, h, k \in groups : before(g, h) /\ before(h, k) => before(g, k)
  <2>. HIDE DEF first
  <2>1. \A g \in groups : ~before(g, g)
    BY <1>5, <1>7, BeforeOrders
  <2>2. \A g \in groups : ~before(g, class(c))
    BY <1>5, <1>7, BeforeOrders DEF first
  <2>3. \A g, h \in groups : g # h => before(g, h) \/ before(h, g)
    BY <1>5, <1>6, <1>7, BeforeOrders
  <2>4. \A g, h, k \in groups : before(g, h) /\ before(h, k) => before(g, k)
    <3>1. PICK m : \A g \in groups : m[g] = DO!Min(g) /\ m[g] \in Nat
      <4>1. PICK m : m = [g \in groups |-> DO!Min(g)]
        OBVIOUS
      <4>. QED BY <1>5, <4>1
    <3>2. \A i, j, k \in Nat : DO!Before(first, i, j) /\ DO!Before(first, j, k) => DO!Before(first, i, k)
      BY <1>7, BeforeOrders
    <3>. QED BY <3>1, <3>2
  <2>. QED BY <2>1, <2>2, <2>3, <2>4
<1>. HIDE DEF before, first
<1>10. PICK L : L = DO!Listed(groups, R)
  OBVIOUS
<1>11. PICK n : n = Cardinality(groups)
  OBVIOUS
<1>12. /\ n \in Nat /\ L \in [1..n -> groups]
       /\ \A i, j \in 1..n : i # j => L[i] # L[j]
       /\ \A g \in groups : \E k \in 1..n : L[k] = g
       /\ L[1] = class(c)
  <2>1. /\ \A g \in groups : <<g, g>> \notin R
        /\ \A g, h \in groups : g # h => <<g, h>> \in R \/ <<h, g>> \in R
        /\ \A g, h, k \in groups : <<g, h>> \in R /\ <<h, k>> \in R => <<g, k>> \in R
        /\ \A g \in groups : <<g, class(c)>> \notin R
    BY <1>7, <1>8, <1>9
  <2>. QED BY <1>4, <1>7, <1>10, <1>11, <2>1, ListedOnce
<1>13. n >= 1
  BY <1>7, <1>12
<1>14. L \in Seq(SUBSET S) /\ Len(L) = n /\ DOMAIN L = 1..n
  <2>1. L \in [1..n -> SUBSET S]
    BY <1>5, <1>12
  <2>. QED BY <1>12, <2>1, SeqDef
<1>15. UNION {L[i] : i \in DOMAIN L} = S
  <2>1. \A i \in 1..n : L[i] \subseteq S
    BY <1>5, <1>12
  <2>2. \A j \in S : \E i \in 1..n : j \in L[i]
    <3>1. \A j \in S : class(j) \in groups /\ j \in class(j)
      BY <1>3 DEF groups
    <3>. QED BY <1>12, <3>1
  <2>. QED BY <1>14, <2>1, <2>2
<1>16. \A i, j \in DOMAIN L : i # j => L[i] \cap L[j] = {}
  BY <1>5, <1>12, <1>14
<1>17. \A i \in DOMAIN L : \E j \in S : L[i] = class(j)
  BY <1>12, <1>14 DEF groups
<1>18. c \in L[1]
  BY <1>3, <1>12
<1>19. Divided(L, S, c)
  BY <1>13, <1>14, <1>15, <1>16, <1>18 DEF Divided
<1>. QED BY <1>2, <1>10, <1>12, <1>17, <1>19 DEF class

(* sched_domain_node_span() takes whole nodes, the own one in any case.    *)
LEMMA NodeSpanWhole ==
  ASSUME NEW t \in Topologies, NEW M \in SUBSET MachineCPUs, NEW c \in M
  PROVE  LET S == DO!sched_domain_node_span(t, t.node[c]) \cap M
         IN  /\ Whole(t, "NODE", S, M) /\ c \in S
             /\ DO!NodeCpus(t, c, M) \subseteq S
<1>. DEFINE n    == t.node[c]
            S    == DO!sched_domain_node_span(t, n) \cap M
<1>1. PICK used : DO!sched_domain_node_span(t, n) = UNION {DO!OfNode(t, m) : m \in {n} \cup used}
  BY DEF DO!sched_domain_node_span
<1>2. ASSUME NEW j \in S
      PROVE  DO!NodeCpus(t, j, M) \subseteq S
  BY <1>1 DEF DO!NodeCpus, DO!OfNode
<1>3. c \in S
  BY <1>1 DEF DO!OfNode
<1>. QED BY <1>2, <1>3 DEF Whole, Class

(* build_numa_sched_groups(): a group for each node of the span.           *)
LEMMA NumaDivides ==
  ASSUME NEW t \in Topologies, NEW M \in SUBSET MachineCPUs, NEW c \in M
  PROVE  LET S    == DO!sched_domain_node_span(t, t.node[c]) \cap M
             ring == DO!build_numa_sched_groups(t, t.node[c], M)
         IN  /\ Divided(ring, S, c) /\ ring[1] = Class(t, "NODE", c, M)
             /\ \A i \in DOMAIN ring : \E j \in S : ring[i] = Class(t, "NODE", j, M)
<1>. DEFINE n     == t.node[c]
            S     == DO!sched_domain_node_span(t, n) \cap M
            class(j) == Class(t, "NODE", j, M)
            group(m) == DO!OfNode(t, m) \cap S
            nodes == {m \in DO!Nodes(t) : group(m) # {}}
            R     == {p \in nodes \X nodes : DO!Before(n, p[1], p[2])}
<1>1. /\ S \subseteq M /\ M \subseteq MachineCPUs /\ c \in S
      /\ \A j \in S : class(j) \subseteq S /\ class(j) = DO!NodeCpus(t, j, M)
  BY NodeSpanWhole DEF Whole, Class
<1>2. DO!build_numa_sched_groups(t, n, M) = [k \in DOMAIN DO!Listed(nodes, R) |-> group(DO!Listed(nodes, R)[k])]
  BY DEF DO!build_numa_sched_groups
<1>. HIDE DEF S, class
<1>3. \A m \in DO!Nodes(t) : m \in Nat
  BY TopologyAssumption DEF DO!Nodes
<1>4. IsFiniteSet(DO!Nodes(t))
  <2>. DEFINE f == [d \in MachineCPUs |-> t.node[d]]
  <2>1. f \in Surjection(MachineCPUs, DO!Nodes(t))
    BY DEF Surjection, DO!Nodes
  <2>. HIDE DEF f
  <2>. QED BY <2>1, FS_Surjection, MachineAssumption
<1>5. IsFiniteSet(nodes) /\ nodes \subseteq DO!Nodes(t)
  BY <1>4, FS_Subset
<1>6. \A j \in S : j \in group(t.node[j]) /\ group(t.node[j]) = class(j) /\ t.node[j] \in nodes
  BY <1>1 DEF DO!OfNode, DO!NodeCpus, DO!Nodes
<1>7. \A m \in nodes : \E j \in S : j \in group(m) /\ m = t.node[j] /\ group(m) = class(j)
  BY <1>6 DEF DO!OfNode
<1>8. \A l, m \in nodes : l # m => group(l) \cap group(m) = {}
  BY DEF DO!OfNode
<1>9. n \in Nat /\ n \in nodes /\ group(n) = class(c) /\ c \in group(n) /\ \A m \in nodes : m \in Nat
  BY <1>1, <1>3, <1>5, <1>6
<1>10. \A l, m \in nodes : <<l, m>> \in R <=> DO!Before(n, l, m)
  OBVIOUS
<1>. HIDE DEF nodes, R, group, n
<1>11. PICK L : L = DO!Listed(nodes, R)
  OBVIOUS
<1>12. PICK N : N = Cardinality(nodes)
  OBVIOUS
<1>13. /\ N \in Nat /\ L \in [1..N -> nodes]
       /\ \A i, j \in 1..N : i # j => L[i] # L[j]
       /\ \A m \in nodes : \E k \in 1..N : L[k] = m
       /\ L[1] = n
  <2>1. /\ \A l \in nodes : <<l, l>> \notin R /\ <<l, n>> \notin R
        /\ \A l, m \in nodes : l # m => <<l, m>> \in R \/ <<m, l>> \in R
    BY <1>9, <1>10, BeforeOrders
  <2>2. \A l, m, k \in nodes : <<l, m>> \in R /\ <<m, k>> \in R => <<l, k>> \in R
    BY <1>9, <1>10, BeforeOrders
  <2>3. \A l \in nodes : <<l, n>> \notin R
    BY <2>1
  <2>4. \A l \in nodes : <<l, l>> \notin R
    BY <2>1
  <2>5. \A l, m \in nodes : l # m => <<l, m>> \in R \/ <<m, l>> \in R
    BY <2>1
  <2>6. IsFiniteSet(nodes) /\ n \in nodes
    BY <1>5, <1>9
  <2>. QED BY <1>11, <1>12, <2>2, <2>3, <2>4, <2>5, <2>6, ListedOnce
<1>14. N >= 1
  BY <1>9, <1>13
<1>15. PICK G : G = [k \in 1..N |-> group(L[k])]
  OBVIOUS
<1>16. DO!build_numa_sched_groups(t, n, M) = G
  BY <1>2, <1>11, <1>13, <1>15
<1>17. \A k \in 1..N : G[k] = group(L[k]) /\ L[k] \in nodes
  BY <1>13, <1>15
<1>18. \A k \in 1..N : G[k] \subseteq S
  BY <1>17 DEF group
<1>19. G \in Seq(SUBSET S) /\ Len(G) = N /\ DOMAIN G = 1..N
  <2>1. G \in [1..N -> SUBSET S]
    BY <1>15, <1>17, <1>18
  <2>. QED BY <1>13, <2>1, SeqDef
<1>20. UNION {G[i] : i \in DOMAIN G} = S
  <2>1. ASSUME NEW j \in S
        PROVE  \E i \in 1..N : j \in G[i]
    <3>1. PICK i \in 1..N : L[i] = t.node[j]
      BY <1>6, <1>13
    <3>. QED BY <1>6, <1>17, <3>1
  <2>. QED BY <1>18, <1>19, <2>1
<1>21. \A i, j \in DOMAIN G : i # j => G[i] \cap G[j] = {}
  BY <1>8, <1>13, <1>17, <1>19
<1>22. \A i \in DOMAIN G : \E j \in S : G[i] = class(j)
  BY <1>7, <1>17, <1>19
<1>23. G[1] = class(c) /\ c \in G[1]
  BY <1>9, <1>13, <1>14, <1>17
<1>24. Divided(G, S, c)
  BY <1>14, <1>19, <1>20, <1>21, <1>23 DEF Divided
<1>. QED BY <1>16, <1>22, <1>23, <1>24 DEF S, class, n

(* What is counted part by part is counted.                                *)
LEMMA SumOfSums ==
  ASSUME NEW S, IsFiniteSet(S), NEW f, \A c \in S : f[c] \in Nat,
         NEW L \in SUBSET S, NEW g \in [L -> SUBSET S],
         \A i, j \in L : i # j => g[i] \cap g[j] = {},
         \A c \in S : \E j \in L : c \in g[j],
         NEW h, \A j \in L : h[j] = Cardinality(Units(f, g[j]))
  PROVE  Cardinality(Units(h, L)) = Cardinality(Units(f, S))
<1>. DEFINE mine(j) == Units(f, g[j])
            maps(j) == Bijection(1..h[j], mine(j))
<1>1. ASSUME NEW j \in L
      PROVE  h[j] \in Nat /\ \E x : x \in maps(j)
  <2>1. IsFiniteSet(g[j]) /\ \A c \in g[j] : f[c] \in Int
    BY FS_Subset
  <2>2. IsFiniteSet(mine(j))
    BY <2>1, UnitsFinite
  <2>. QED BY <2>2, FS_CardinalityType DEF ExistsBijection
<1>2. PICK b : \A j \in L : b[j] \in maps(j)
  <2>1. PICK b : b = [j \in L |-> CHOOSE x : x \in maps(j)]
    OBVIOUS
  <2>2. \A j \in L : b[j] \in maps(j)
    BY <1>1, <2>1
  <2>. QED BY <2>2
<1>3. ASSUME NEW j \in L
      PROVE  /\ b[j] \in [1..h[j] -> mine(j)]
             /\ \A i, k \in 1..h[j] : b[j][i] = b[j][k] => i = k
             /\ \A u \in mine(j) : \E i \in 1..h[j] : b[j][i] = u
  <2>. HIDE DEF mine
  <2>1. PICK one : one = b[j]
    OBVIOUS
  <2>2. one \in Bijection(1..h[j], mine(j))
    BY <1>2, <2>1
  <2>. QED BY <2>1, <2>2 DEF Bijection, Injection, Surjection, IsInjective
<1>4. \A j \in L : \A u \in mine(j) : u \in Units(f, S) /\ u[1] \in g[j]
  BY DEF Units
<1>5. \A u \in Units(f, S) : \E j \in L : u \in mine(j)
  BY DEF Units
<1>6. /\ \A p \in Units(h, L) : p = <<p[1], p[2]>> /\ p[1] \in L /\ p[2] \in 1..h[p[1]]
      /\ \A j \in L : \A i \in 1..h[j] : <<j, i>> \in Units(h, L)
  BY DEF Units
<1>. HIDE DEF mine, maps
<1>7. PICK B : B = [p \in Units(h, L) |-> b[p[1]][p[2]]]
  OBVIOUS
<1>8. ASSUME NEW p \in Units(h, L)
      PROVE  B[p] = b[p[1]][p[2]] /\ B[p] \in mine(p[1])
  <2>1. p[1] \in L /\ p[2] \in 1..h[p[1]]
    BY <1>6
  <2>2. b[p[1]] \in [1..h[p[1]] -> mine(p[1])]
    BY <1>3, <2>1
  <2>. QED BY <1>7, <2>1, <2>2
<1>9. B \in [Units(h, L) -> Units(f, S)]
  BY <1>4, <1>6, <1>7, <1>8
<1>10. ASSUME NEW p \in Units(h, L), NEW q \in Units(h, L), B[p] = B[q]
       PROVE  p = q
  <2>1. p[1] = q[1]
    BY <1>4, <1>6, <1>8, <1>10
  <2>2. p[2] = q[2]
    BY <1>3, <1>6, <1>8, <1>10, <2>1
  <2>. QED BY <1>6, <2>1, <2>2
<1>11. ASSUME NEW u \in Units(f, S)
       PROVE  \E p \in Units(h, L) : B[p] = u
  <2>1. PICK j \in L : u \in mine(j)
    BY <1>5
  <2>2. PICK i \in 1..h[j] : b[j][i] = u
    BY <1>3, <2>1
  <2>3. <<j, i>> \in Units(h, L) /\ B[<<j, i>>] = u
    BY <1>6, <1>8, <2>2
  <2>. QED BY <2>3
<1>12. B \in Bijection(Units(h, L), Units(f, S))
  BY <1>9, <1>10, <1>11 DEF Bijection, Injection, Surjection, IsInjective
<1>13. IsFiniteSet(Units(h, L))
  <2>1. IsFiniteSet(L) /\ \A j \in L : h[j] \in Int
    BY <1>1, FS_Subset
  <2>. QED BY <2>1, UnitsFinite
<1>. QED BY <1>12, <1>13, FS_Bijection DEF ExistsBijection

LEMMA SumIsUnits == \A f, S : DO!Sum(f, S) = Cardinality(Units(f, S))
BY DEF DO!Sum, Units, DO!Cardinality, Cardinality

LEMMA SumOfOne ==
  ASSUME NEW c, NEW f, f[c] \in Nat
  PROVE  DO!Sum(f, {c}) = f[c]
<1>1. IsFiniteSet({c}) /\ {c} \ {c} = {} /\ Positive(f[c]) = f[c]
  BY FS_Singleton DEF Positive
<1>2. Cardinality(Units(f, {})) = 0
  BY UnitsNone
<1>3. Cardinality(Units(f, {c})) = Cardinality(Units(f, {c} \ {c})) + Positive(f[c])
  BY <1>1, UnitsSplit
<1>. QED BY <1>1, <1>2, <1>3, SumIsUnits

LEMMA SiblingNat ==
  ASSUME NEW t \in Topologies, NEW M \in SUBSET MachineCPUs, NEW c \in M
  PROVE  DO!SiblingPower(t, c, M) \in Nat
<1>1. IsFiniteSet(DO!Threads(t, c, M)) /\ c \in DO!Threads(t, c, M)
  BY FS_Subset, MachineAssumption DEF DO!Threads
<1>2. Cardinality(DO!Threads(t, c, M)) \in Nat /\ Cardinality(DO!Threads(t, c, M)) # 0
  BY <1>1, FS_CardinalityType, FS_EmptySet
<1>3. PICK w : w = Cardinality(DO!Threads(t, c, M))
  OBVIOUS
<1>4. w \in Nat \ {0}
  BY <1>2, <1>3
<1>5. DO!Cardinality(DO!Threads(t, c, M)) = w
  BY <1>3, CardinalSame
<1>6. PICK p : p = Scale * Gain
  OBVIOUS
<1>7. p \in Nat /\ Scale \in Nat \ {0}
  BY <1>6, TopologyAssumption
<1>8. PICK q : q = p \div w
  OBVIOUS
<1>9. q \in Nat
  BY <1>4, <1>7, <1>8
<1>10. q \div Scale \in Nat
  BY <1>7, <1>9
<1>. QED BY <1>5, <1>6, <1>7, <1>8, <1>10 DEF DO!SiblingPower

(* The span of each level is whole for the groups of that level.           *)
LEMMA SpansWhole ==
  ASSUME NEW t \in Topologies, NEW M \in SUBSET MachineCPUs, NEW c \in M
  PROVE  /\ Whole(t, "SIBLING", DO!Threads(t, c, M), M)
         /\ Whole(t, "MC", DO!Cores(t, c, M), M)
         /\ Whole(t, "CPU", DO!NodeCpus(t, c, M), M)
         /\ Whole(t, "NODE", M, M)
         /\ \A S : Whole(t, "NODE", S, M) => Whole(t, "CPU", S, M)
<1>. DEFINE T == DO!Threads(t, c, M)
            C == DO!Cores(t, c, M)
            N == DO!NodeCpus(t, c, M)
<1>1. \A j, k \in M : /\ t.thread[j] = t.thread[k] => t.core[j] = t.core[k]
                      /\ t.core[j] = t.core[k] => t.node[j] = t.node[k]
  BY TopologyAssumption
<1>2. Whole(t, "SIBLING", T, M)
  BY DEF Whole, Class, DO!Threads
<1>3. Whole(t, "MC", C, M)
  BY <1>1 DEF Whole, Class, DO!Threads, DO!Cores
<1>4. \A j \in M : Class(t, "CPU", j, M) \subseteq DO!NodeCpus(t, j, M)
  BY <1>1 DEF Class, DO!Threads, DO!Cores, DO!NodeCpus, DO!OfNode
<1>5. \A j \in N : DO!NodeCpus(t, j, M) = N /\ j \in M
  BY DEF DO!NodeCpus, DO!OfNode
<1>6. N \subseteq M
  BY DEF DO!NodeCpus
<1>7. Whole(t, "CPU", N, M)
  BY <1>4, <1>5, <1>6 DEF Whole
<1>8. Whole(t, "NODE", M, M)
  BY DEF Whole, Class, DO!NodeCpus
<1>9. ASSUME NEW S, Whole(t, "NODE", S, M)
      PROVE  Whole(t, "CPU", S, M)
  BY <1>4, <1>9 DEF Whole, Class
<1>. QED BY <1>2, <1>3, <1>7, <1>8, <1>9

(* The power of the processors of a whole set, one group for each leader.  *)
LEMMA LeadersSum ==
  ASSUME NEW t \in Topologies, NEW level, NEW M \in SUBSET MachineCPUs, NEW S, Whole(t, level, S, M),
         NEW h, \A j \in M : h[j] = DO!CorePower(t, Class(t, level, j, M), M)
  PROVE  DO!Sum(h, {j \in S : DO!GroupId(t, level, j, M) = j}) = DO!CorePower(t, S, M)
<1>. DEFINE L    == {j \in S : DO!GroupId(t, level, j, M) = j}
            class(j) == Class(t, level, j, M)
            cores == [c \in M |-> DO!SiblingPower(t, c, M)]
<1>1. S \subseteq M /\ IsFiniteSet(S) /\ \A j \in S : class(j) \subseteq S
  BY FS_Subset, MachineAssumption DEF Whole
<1>2. \A c \in S : cores[c] \in Nat
  BY <1>1, SiblingNat
<1>3. PICK g : g = [j \in L |-> class(j)]
  OBVIOUS
<1>4. g \in [L -> SUBSET S] /\ \A j \in L : g[j] = class(j)
  BY <1>1, <1>3
<1>5. ASSUME NEW i \in L, NEW j \in L, i # j
      PROVE  g[i] \cap g[j] = {}
  <2>1. ASSUME NEW k \in class(i), k \in class(j)
        PROVE  FALSE
    <3>1. class(k) = class(i) /\ class(k) = class(j)
      BY <1>1, <2>1, ClassHolds
    <3>2. j \in class(i)
      BY <1>1, <3>1, ClassHolds
    <3>3. DO!GroupId(t, level, j, M) = DO!GroupId(t, level, i, M)
      BY <1>1, <3>2, LeaderSame
    <3>. QED BY <1>5, <3>3
  <2>. QED BY <1>4, <2>1
<1>6. ASSUME NEW c \in S
      PROVE  \E j \in L : c \in g[j]
  <2>1. PICK j : j = DO!GroupId(t, level, c, M)
    OBVIOUS
  <2>2. j \in class(c) /\ j \in S
    BY <1>1, <2>1, LeaderSame
  <2>3. class(j) = class(c) /\ c \in class(c)
    BY <1>1, <2>2, ClassHolds
  <2>4. DO!GroupId(t, level, j, M) = j
    BY <1>1, <2>1, <2>2, LeaderSame
  <2>. QED BY <1>4, <2>2, <2>3, <2>4
<1>7. \A j \in L : h[j] = Cardinality(Units(cores, g[j]))
  BY <1>1, <1>4, SumIsUnits DEF DO!CorePower
<1>8. L \in SUBSET S
  OBVIOUS
<1>. HIDE DEF L, cores, class
<1>9. Cardinality(Units(h, L)) = Cardinality(Units(cores, S))
  BY <1>1, <1>2, <1>4, <1>5, <1>6, <1>7, <1>8, SumOfSums
<1>. QED BY <1>9, SumIsUnits DEF DO!CorePower, L, cores

(* init_sched_groups_power(): a group has the power of its processors.     *)
LEMMA PowerOfOne ==
  ASSUME NEW t \in Topologies, NEW M \in SUBSET MachineCPUs, NEW c \in M
  PROVE  DO!CorePower(t, {c}, M) = DO!SiblingPower(t, c, M)
<1>. DEFINE cores == [j \in M |-> DO!SiblingPower(t, j, M)]
<1>1. cores[c] = DO!SiblingPower(t, c, M) /\ cores[c] \in Nat
  BY SiblingNat
<1>. HIDE DEF cores
<1>2. DO!Sum(cores, {c}) = cores[c]
  BY <1>1, SumOfOne
<1>. QED BY <1>1, <1>2 DEF DO!CorePower, cores

LEMMA McPowerIs ==
  ASSUME NEW t \in Topologies, NEW M \in SUBSET MachineCPUs, NEW c \in M
  PROVE  DO!McPower(t, c, M) = DO!CorePower(t, Class(t, "MC", c, M), M)
<1>1. CASE t.smt
  BY <1>1 DEF DO!McPower, DO!CorePower, Class
<1>2. CASE ~t.smt
  <2>1. DO!McPower(t, c, M) = Scale /\ DO!SiblingPower(t, c, M) = Scale
    BY <1>2 DEF DO!McPower, DO!SiblingPower
  <2>2. Class(t, "MC", c, M) = {c}
    BY <1>2 DEF Class
  <2>. QED BY <2>1, <2>2, PowerOfOne
<1>. QED BY <1>1, <1>2

LEMMA CpuPowerIs ==
  ASSUME NEW t \in Topologies, NEW M \in SUBSET MachineCPUs, NEW c \in M
  PROVE  DO!CpuPower(t, c, M) = DO!CorePower(t, Class(t, "CPU", c, M), M)
<1>1. CASE t.mc
  <2>. DEFINE h == [j \in M |-> DO!McPower(t, j, M)]
  <2>1. \A j \in M : h[j] = DO!CorePower(t, Class(t, "MC", j, M), M)
    BY McPowerIs
  <2>2. DO!CpuPower(t, c, M) = DO!Sum(h, {j \in DO!Cores(t, c, M) : DO!GroupId(t, "MC", j, M) = j})
    BY <1>1 DEF DO!CpuPower
  <2>. HIDE DEF h
  <2>3. DO!CpuPower(t, c, M) = DO!CorePower(t, DO!Cores(t, c, M), M)
    BY <2>1, <2>2, LeadersSum, SpansWhole
  <2>. QED BY <1>1, <2>3 DEF Class
<1>2. CASE ~t.mc
  <2>1. DO!CpuPower(t, c, M) = DO!McPower(t, c, M)
    BY <1>2 DEF DO!CpuPower
  <2>2. Class(t, "CPU", c, M) = Class(t, "MC", c, M)
    BY <1>2 DEF Class
  <2>. QED BY <2>1, <2>2, McPowerIs
<1>. QED BY <1>1, <1>2

LEMMA NumaPowerIs ==
  ASSUME NEW t \in Topologies, NEW M \in SUBSET MachineCPUs, NEW g, Whole(t, "CPU", g, M)
  PROVE  DO!NumaPower(t, g, M) = DO!CorePower(t, g, M)
<1>. DEFINE h == [j \in M |-> DO!CpuPower(t, j, M)]
<1>1. \A j \in M : h[j] = DO!CorePower(t, Class(t, "CPU", j, M), M)
  BY CpuPowerIs
<1>2. DO!NumaPower(t, g, M) = DO!Sum(h, {j \in g : DO!GroupId(t, "CPU", j, M) = j})
  BY DEF DO!NumaPower
<1>. HIDE DEF h
<1>. QED BY <1>1, <1>2, LeadersSum

LEMMA PowerIs ==
  ASSUME NEW t \in Topologies, NEW level, NEW M \in SUBSET MachineCPUs, NEW c \in M
  PROVE  DO!Power(t, level, Class(t, level, c, M), M) = DO!CorePower(t, Class(t, level, c, M), M)
<1>. DEFINE class(j) == Class(t, level, j, M)
            first    == DO!Min(class(c))
<1>1. first \in class(c) /\ first \in M /\ class(first) = class(c)
  BY LeaderSame, ClassHolds
<1>2. CASE level = "SIBLING"
  <2>1. class(c) = {c} /\ first = c
    BY <1>1, <1>2 DEF Class
  <2>2. DO!Power(t, level, class(c), M) = DO!SiblingPower(t, first, M)
    BY <1>2 DEF DO!Power
  <2>. QED BY <2>1, <2>2, PowerOfOne
<1>3. CASE level = "MC"
  BY <1>1, <1>3, McPowerIs DEF DO!Power
<1>4. CASE level = "CPU"
  BY <1>1, <1>4, CpuPowerIs DEF DO!Power
<1>5. CASE level \notin {"SIBLING", "MC", "CPU"}
  <2>1. DO!Power(t, level, class(c), M) = DO!NumaPower(t, class(c), M)
    BY <1>5 DEF DO!Power
  <2>2. class(c) = DO!NodeCpus(t, c, M)
    BY <1>5 DEF Class
  <2>3. Whole(t, "CPU", class(c), M)
    BY <2>2, SpansWhole
  <2>. QED BY <2>1, <2>3, NumaPowerIs
<1>. QED BY <1>2, <1>3, <1>4, <1>5

(* A finite set of numbers that is not empty has a greatest.               *)
LEMMA GreatestDone ==
  ASSUME NEW S \in SUBSET MachineCPUs, S # {}
  PROVE  DO!Max(S) \in S
<1>. DEFINE above(n) == {m \in S : n < m}
<1>1. IsFiniteSet(S) /\ S \subseteq Nat
  BY FS_Subset, MachineAssumption
<1>2. \A n \in S : IsFiniteSet(above(n)) /\ Cardinality(above(n)) \in Nat
  BY <1>1, FS_Subset, FS_CardinalityType
<1>3. PICK C : C = {Cardinality(above(n)) : n \in S}
  OBVIOUS
<1>4. C \in SUBSET Nat /\ C # {}
  BY <1>2, <1>3
<1>5. PICK k \in C : \A l \in C : k <= l
  BY <1>4, LeastNumber
<1>6. PICK n \in S : k = Cardinality(above(n))
  BY <1>3
<1>7. ASSUME NEW m \in S, ~(n >= m)
      PROVE  FALSE
  <2>1. n < m /\ n \in Nat /\ m \in Nat
    BY <1>1, <1>7
  <2>2. above(m) \in SUBSET above(n) /\ m \in above(n) /\ m \notin above(m)
    <3>1. \A l \in S : m < l => n < l
      <4>1. \A l \in Nat : m < l => n < l
        BY <2>1
      <4>. QED BY <1>1, <4>1
    <3>2. above(m) \subseteq above(n)
      BY <3>1
    <3>3. m \in above(n)
      BY <2>1
    <3>4. m \notin above(m)
      BY <2>1
    <3>. QED BY <3>2, <3>3, <3>4
  <2>3. IsFiniteSet(above(n)) /\ above(m) # above(n)
    BY <1>2, <2>2
  <2>4. PICK a, b : a = Cardinality(above(m)) /\ b = Cardinality(above(n))
    OBVIOUS
  <2>5. a <= b /\ a # b
    BY <2>2, <2>3, <2>4, FS_Subset
  <2>6. a \in C /\ b = k /\ a \in Nat /\ b \in Nat
    BY <1>2, <1>3, <1>6, <2>4
  <2>. QED BY <1>5, <2>5, <2>6
<1>. QED BY <1>7 DEF DO!Max

Rung(d, c, t, M) ==
  /\ c \in d.span /\ d.span \subseteq M /\ Divided(d.groups, d.span, c)
  /\ \A i \in DOMAIN d.groups : d.power[i] = DO!CorePower(t, d.groups[i], M)

LEMMA OneGroup ==
  ASSUME NEW groups, NEW S, NEW c, Divided(groups, S, c), Len(groups) = 1
  PROVE  S = groups[1]
<1>1. DOMAIN groups = {1}
  BY DEF Divided
<1>. QED BY <1>1 DEF Divided

NodeSpan(t, c, M) == DO!sched_domain_node_span(t, t.node[c]) \cap M

(* What Domain() makes of a span, level by level.                          *)
LEMMA RungBuilt ==
  ASSUME NEW t \in Topologies, NEW level, NEW M \in SUBSET MachineCPUs, NEW S, Whole(t, level, S, M),
         NEW c \in S, NEW relax,
         level = "NODE" => S = NodeSpan(t, c, M),
         level = "ALLNODES" => DO!AllnodesNeeded(t, DO!Max(M), M)
  PROVE  LET d == DO!Domain(t, level, S, c, M, relax)
         IN  /\ Rung(d, c, t, M) /\ d.span = S /\ d.flags = DO!set_domain_attribute(level, relax)
             /\ Len(d.groups) = 1 => S = Class(t, level, c, M)
<1>. DEFINE ring == IF level = "NODE" THEN DO!build_numa_sched_groups(t, t.node[c], M)
                    ELSE DO!Ring(t, level, S, c, M)
            power == [k \in DOMAIN ring |-> DO!Power(t, level, ring[k], M)]
            flags == DO!set_domain_attribute(level, relax)
<1>1. S \subseteq M /\ c \in M
  BY DEF Whole
<1>2. /\ Divided(ring, S, c) /\ ring[1] = Class(t, level, c, M)
      /\ \A i \in DOMAIN ring : \E j \in S : ring[i] = Class(t, level, j, M)
  <2>1. CASE level = "NODE"
    BY <1>1, <2>1, NumaDivides, ZenonT(30) DEF NodeSpan
  <2>2. CASE level # "NODE"
    BY <1>1, <2>2, RingDivides
  <2>. QED BY <2>1, <2>2
<1>3. DO!Domain(t, level, S, c, M, relax) = [level |-> level, span |-> S, flags |-> flags, groups |-> ring, power |-> power]
  BY DEF DO!Domain
<1>. HIDE DEF ring, flags
<1>4. \A i \in DOMAIN ring : power[i] = DO!CorePower(t, ring[i], M)
  <2>1. ASSUME NEW i \in DOMAIN ring
        PROVE  power[i] = DO!CorePower(t, ring[i], M)
    <3>1. PICK j \in S : ring[i] = Class(t, level, j, M)
      BY <1>2
    <3>2. power[i] = DO!Power(t, level, ring[i], M)
      OBVIOUS
    <3>. QED BY <1>1, <3>1, <3>2, PowerIs
  <2>. QED BY <2>1
<1>. HIDE DEF power
<1>5. PICK d : d = DO!Domain(t, level, S, c, M, relax)
  OBVIOUS
<1>6. d.span = S /\ d.flags = flags /\ d.groups = ring /\ d.power = power
  BY <1>3, <1>5
<1>7. Rung(d, c, t, M)
  BY <1>1, <1>2, <1>4, <1>6 DEF Rung
<1>8. Len(ring) = 1 => S = ring[1]
  BY <1>2, OneGroup
<1>. QED BY <1>2, <1>5, <1>6, <1>7, <1>8 DEF flags

(* The domains of c from the bottom: each holds the one below it; one that *)
(* has a single group spans no more than the one below it, or only c.      *)
(* What wakes with affinity does so from the bottom on.                    *)
Tower(s, c, t, M) ==
  /\ \A k \in 1..Len(s) : Rung(s[k], c, t, M)
  /\ \A k \in 2..Len(s) : /\ s[k - 1].span \subseteq s[k].span
                          /\ Len(s[k].groups) = 1 => s[k].span = s[k - 1].span
  /\ s # <<>> => /\ Len(s[1].groups) = 1 => s[1].span = {c}
                 /\ "wake_affine" \in s[1].flags
  /\ \A k \in 1..Len(s) : "wake_affine" \in s[k].flags =>
       /\ s[k].flags \ DO!NeedGroups \subseteq {"wake_affine"}
       /\ \A j \in 1..k : "wake_affine" \in s[j].flags

Above(s, d, c) ==
  /\ s = <<>> => (Len(d.groups) = 1 => d.span = {c}) /\ "wake_affine" \in d.flags
  /\ s # <<>> => /\ s[Len(s)].span \subseteq d.span
                 /\ Len(d.groups) = 1 => d.span = s[Len(s)].span
  /\ "wake_affine" \in d.flags => /\ d.flags \ DO!NeedGroups \subseteq {"wake_affine"}
                                  /\ \A j \in 1..Len(s) : "wake_affine" \in s[j].flags

LEMMA TowerRises ==
  ASSUME NEW V, NEW s \in Seq(V), NEW d \in V, NEW c, NEW t, NEW M,
         Tower(s, c, t, M), Rung(d, c, t, M), Above(s, d, c)
  PROVE  LET r == Append(s, d)
         IN  /\ r \in Seq(V) /\ Len(r) = Len(s) + 1 /\ r[Len(r)] = d /\ r # <<>>
             /\ Tower(r, c, t, M)
<1>. DEFINE r == Append(s, d)
            n == Len(s)
<1>1. /\ r \in Seq(V) /\ Len(r) = n + 1 /\ n \in Nat /\ r[n + 1] = d /\ r # <<>>
      /\ \A k \in 1..n : r[k] = s[k]
      /\ s = <<>> <=> n = 0
  OBVIOUS
<1>. HIDE DEF r, n
<1>2. \A k \in 1..(n + 1) : Rung(r[k], c, t, M)
  <2>1. \A k \in 1..n : Rung(s[k], c, t, M)
    BY DEF Tower, n
  <2>2. \A k \in 1..(n + 1) : k \in 1..n \/ k = n + 1
    BY <1>1
  <2>. QED BY <1>1, <2>1, <2>2
<1>3. ASSUME NEW k \in 2..(n + 1)
      PROVE  /\ r[k - 1].span \subseteq r[k].span
             /\ Len(r[k].groups) = 1 => r[k].span = r[k - 1].span
  <2>1. CASE k = n + 1
    <3>1. r[k] = d /\ k - 1 = n /\ n \in 1..n /\ n # 0
      BY <1>1, <2>1
    <3>2. r[k - 1] = s[n] /\ s # <<>>
      BY <1>1, <3>1
    <3>. QED BY <3>1, <3>2 DEF Above, n
  <2>2. CASE k # n + 1
    <3>1. k \in 2..n /\ k \in 1..n /\ k - 1 \in 1..n
      BY <1>1, <2>2
    <3>2. r[k] = s[k] /\ r[k - 1] = s[k - 1]
      BY <1>1, <3>1
    <3>. QED BY <3>1, <3>2 DEF Tower, n
  <2>. QED BY <2>1, <2>2
<1>4. /\ Len(r[1].groups) = 1 => r[1].span = {c}
      /\ "wake_affine" \in r[1].flags
  <2>1. CASE n = 0
    BY <1>1, <2>1 DEF Above
  <2>2. CASE n # 0
    <3>1. 1 \in 1..n /\ s # <<>>
      BY <1>1, <2>2
    <3>2. r[1] = s[1]
      BY <1>1, <3>1
    <3>. QED BY <3>1, <3>2 DEF Tower
  <2>. QED BY <2>1, <2>2
<1>5. ASSUME NEW k \in 1..(n + 1), "wake_affine" \in r[k].flags
      PROVE  /\ r[k].flags \ DO!NeedGroups \subseteq {"wake_affine"}
             /\ \A j \in 1..k : "wake_affine" \in r[j].flags
  <2>1. CASE k = n + 1
    <3>1. r[k] = d /\ \A j \in 1..k : j \in 1..n \/ j = k
      BY <1>1, <2>1
    <3>2. \A j \in 1..n : "wake_affine" \in r[j].flags
      BY <1>1, <1>5, <3>1 DEF Above, n
    <3>. QED BY <1>5, <3>1, <3>2 DEF Above
  <2>2. CASE k # n + 1
    <3>1. k \in 1..n /\ \A j \in 1..k : j \in 1..n
      BY <1>1, <2>2
    <3>2. r[k] = s[k] /\ \A j \in 1..k : r[j] = s[j]
      BY <1>1, <3>1
    <3>. QED BY <1>5, <3>1, <3>2 DEF Tower, n
  <2>. QED BY <2>1, <2>2
<1>6. Tower(r, c, t, M)
  BY <1>1, <1>2, <1>3, <1>4, <1>5 DEF Tower
<1>. QED BY <1>1, <1>6 DEF r, n

(* What set_domain_attribute() leaves of the flags.                        *)
LEMMA FlagsSet ==
  ASSUME NEW relax
  PROVE  /\ \A level \in {"SIBLING", "MC", "CPU"} :
              /\ "wake_affine" \in DO!set_domain_attribute(level, relax)
              /\ DO!set_domain_attribute(level, relax) \ DO!NeedGroups \subseteq {"wake_affine"}
         /\ \A level \in {"NODE", "ALLNODES"} : "wake_affine" \notin DO!set_domain_attribute(level, relax)
<1>. DEFINE set(level) == DO!set_domain_attribute(level, relax)
<1>1. \A level : \/ set(level) = DO!Flags[level]
                 \/ set(level) = DO!Flags[level] \ {"newidle"}
                 \/ set(level) = DO!Flags[level] \cup {"newidle"}
  BY DEF DO!set_domain_attribute
<1>2. \A level \in {"SIBLING", "MC", "CPU"} :
        "wake_affine" \in DO!Flags[level] /\ DO!Flags[level] \ DO!NeedGroups \subseteq {"wake_affine"}
  BY DEF DO!Flags, DO!NeedGroups
<1>3. \A level \in {"NODE", "ALLNODES"} : "wake_affine" \notin DO!Flags[level]
  BY DEF DO!Flags
<1>4. "newidle" \in DO!NeedGroups /\ "newidle" # "wake_affine"
  BY DEF DO!NeedGroups
<1>5. ASSUME NEW level \in {"SIBLING", "MC", "CPU"}
      PROVE  "wake_affine" \in set(level) /\ set(level) \ DO!NeedGroups \subseteq {"wake_affine"}
  <2>1. PICK f, g, w : f = DO!Flags[level] /\ g = set(level) /\ w = DO!NeedGroups
    OBVIOUS
  <2>2. "wake_affine" \in f /\ f \ w \subseteq {"wake_affine"} /\ "newidle" \in w
    BY <1>2, <1>4, <2>1
  <2>3. g = f \/ g = f \ {"newidle"} \/ g = f \cup {"newidle"}
    BY <1>1, <2>1
  <2>. QED BY <1>4, <2>1, <2>2, <2>3
<1>6. ASSUME NEW level \in {"NODE", "ALLNODES"}
      PROVE  "wake_affine" \notin set(level)
  BY <1>1, <1>3, <1>4, <1>6
<1>. QED BY <1>5, <1>6

Awake(s) == \A j \in 1..Len(s) : "wake_affine" \in s[j].flags

(* What a sequence becomes when one more element may come on top.          *)
OnTop(s, use, d) == IF use THEN Append(s, d) ELSE s

LEMMA TowerAwake ==
  ASSUME NEW s, NEW c, NEW t, NEW M, Tower(s, c, t, M), Len(s) \in Nat, s # <<>>, Len(s) # 0,
         "wake_affine" \in s[Len(s)].flags
  PROVE  Awake(s)
<1>1. Len(s) \in 1..Len(s)
  OBVIOUS
<1>. QED BY <1>1 DEF Tower, Awake

(* __build_sched_domains(): the domains of a processor are such a tower,   *)
(* and the top of it is the part if it is within reach.                    *)
LEMMA TowerBuilt ==
  ASSUME NEW p, p.topo \in Topologies, p.span \in SUBSET MachineCPUs, NEW c \in p.span, DO!Agreed(p)
  PROVE  LET s == DO!__build_sched_domains(p, c)
         IN  /\ \E V : s \in Seq(V)
             /\ Len(s) \in 1..5 /\ Tower(s, c, p.topo, p.span)
             /\ DO!Reached(p, c) => s[Len(s)].span = p.span
<1>. DEFINE t == p.topo
            M == p.span
            T == DO!Threads(t, c, M)
            C == DO!Cores(t, c, M)
            N == DO!NodeCpus(t, c, M)
            S == NodeSpan(t, c, M)
            D(level, span) == DO!Domain(t, level, span, c, M, p.relax)
            D1 == D("SIBLING", T)
            D2 == D("MC", C)
            D3 == D("CPU", N)
            D4 == D("NODE", S)
            D5 == D("ALLNODES", M)
            top == t.numa /\ DO!AllnodesNeeded(t, c, M)
            s1 == OnTop(<<>>, t.smt, D1)
            s2 == OnTop(s1, t.mc, D2)
            s3 == OnTop(s2, TRUE, D3)
            s4 == OnTop(s3, t.numa, D4)
            s5 == OnTop(s4, top, D5)
            V  == {D1, D2, D3, D4, D5}
            piece(use, d) == IF use THEN <<d>> ELSE <<>>
<1>1. DO!__build_sched_domains(p, c)
        = (((piece(t.smt, D1) \o piece(t.mc, D2)) \o piece(TRUE, D3)) \o piece(t.numa, D4)) \o piece(top, D5)
  BY DEF DO!__build_sched_domains, NodeSpan
<1>2. /\ s1 = (IF t.smt THEN Append(<<>>, D1) ELSE <<>>)
      /\ s2 = (IF t.mc THEN Append(s1, D2) ELSE s1)
      /\ s3 = Append(s2, D3)
      /\ s4 = (IF t.numa THEN Append(s3, D4) ELSE s3)
      /\ s5 = (IF top THEN Append(s4, D5) ELSE s4)
  BY DEF OnTop
<1>3. /\ t \in Topologies /\ M \in SUBSET MachineCPUs /\ c \in M
      /\ c \in T /\ c \in C /\ c \in N /\ c \in S
      /\ T \subseteq C /\ C \subseteq N /\ N \subseteq S /\ S \subseteq M
  <2>1. \A j \in M : /\ t.thread[c] = t.thread[j] => t.core[c] = t.core[j]
                     /\ t.core[c] = t.core[j] => t.node[c] = t.node[j]
    BY TopologyAssumption
  <2>2. c \in S /\ N \subseteq S
    BY NodeSpanWhole DEF NodeSpan
  <2>3. c \in T /\ c \in C /\ c \in N /\ T \subseteq C /\ C \subseteq N
    BY <2>1 DEF DO!Threads, DO!Cores, DO!NodeCpus, DO!OfNode
  <2>4. S \subseteq M
    BY DEF NodeSpan
  <2>. HIDE DEF T, C, N, S
  <2>. QED BY <2>2, <2>3, <2>4
<1>4. /\ Whole(t, "SIBLING", T, M) /\ Whole(t, "MC", C, M) /\ Whole(t, "CPU", N, M)
      /\ Whole(t, "NODE", S, M) /\ Whole(t, "ALLNODES", M, M)
  <2>1. Whole(t, "ALLNODES", M, M)
    BY DEF Whole, Class, DO!NodeCpus
  <2>. QED BY <1>3, <2>1, SpansWhole, NodeSpanWhole DEF NodeSpan
<1>5. top => DO!AllnodesNeeded(t, DO!Max(M), M)
  BY <1>3, GreatestDone DEF DO!Agreed
<1>6. /\ Rung(D1, c, t, M) /\ D1.span = T /\ "wake_affine" \in D1.flags
      /\ D1.flags \ DO!NeedGroups \subseteq {"wake_affine"}
      /\ Len(D1.groups) = 1 => T = {c}
  <2>1. Class(t, "SIBLING", c, M) = {c}
    BY DEF Class
  <2>2. "wake_affine" \in DO!set_domain_attribute("SIBLING", p.relax)
        /\ DO!set_domain_attribute("SIBLING", p.relax) \ DO!NeedGroups \subseteq {"wake_affine"}
    BY FlagsSet
  <2>. QED BY <1>3, <1>4, <2>1, <2>2, RungBuilt
<1>7. /\ Rung(D2, c, t, M) /\ D2.span = C /\ "wake_affine" \in D2.flags
      /\ D2.flags \ DO!NeedGroups \subseteq {"wake_affine"}
      /\ Len(D2.groups) = 1 => C = IF t.smt THEN T ELSE {c}
  <2>1. Class(t, "MC", c, M) = IF t.smt THEN T ELSE {c}
    BY DEF Class
  <2>2. "wake_affine" \in DO!set_domain_attribute("MC", p.relax)
        /\ DO!set_domain_attribute("MC", p.relax) \ DO!NeedGroups \subseteq {"wake_affine"}
    BY FlagsSet
  <2>. QED BY <1>3, <1>4, <2>1, <2>2, RungBuilt
<1>8. /\ Rung(D3, c, t, M) /\ D3.span = N /\ "wake_affine" \in D3.flags
      /\ D3.flags \ DO!NeedGroups \subseteq {"wake_affine"}
      /\ Len(D3.groups) = 1 => N = IF t.mc THEN C ELSE IF t.smt THEN T ELSE {c}
  <2>1. Class(t, "CPU", c, M) = IF t.mc THEN C ELSE IF t.smt THEN T ELSE {c}
    BY DEF Class
  <2>2. "wake_affine" \in DO!set_domain_attribute("CPU", p.relax)
        /\ DO!set_domain_attribute("CPU", p.relax) \ DO!NeedGroups \subseteq {"wake_affine"}
    BY FlagsSet
  <2>. QED BY <1>3, <1>4, <2>1, <2>2, RungBuilt
<1>9. /\ Rung(D4, c, t, M) /\ D4.span = S /\ "wake_affine" \notin D4.flags
      /\ Len(D4.groups) = 1 => S = N
  <2>1. Class(t, "NODE", c, M) = N
    BY DEF Class
  <2>2. "wake_affine" \notin DO!set_domain_attribute("NODE", p.relax)
    BY FlagsSet
  <2>. QED BY <1>3, <1>4, <2>1, <2>2, RungBuilt
<1>10. top => /\ Rung(D5, c, t, M) /\ D5.span = M /\ "wake_affine" \notin D5.flags
              /\ Len(D5.groups) = 1 => M = N
  <2>1. Class(t, "ALLNODES", c, M) = N
    BY DEF Class
  <2>2. "wake_affine" \notin DO!set_domain_attribute("ALLNODES", p.relax)
    BY FlagsSet
  <2>. QED BY <1>3, <1>4, <1>5, <2>1, <2>2, RungBuilt
<1>11. D1 \in V /\ D2 \in V /\ D3 \in V /\ D4 \in V /\ D5 \in V
  OBVIOUS
<1>. HIDE DEF T, C, N, S, V, D1, D2, D3, D4, D5, s1, s2, s3, s4, s5, top, t, M
<1>12. DO!__build_sched_domains(p, c) = s5
  <2>1. piece(t.smt, D1) = s1 /\ s1 \in Seq(V)
    <3>1. CASE t.smt
      BY <1>2, <1>11, <3>1
    <3>2. CASE ~t.smt
      BY <1>2, <1>11, <3>2
    <3>. QED BY <3>1, <3>2
  <2>2. s1 \o piece(t.mc, D2) = s2 /\ s2 \in Seq(V)
    <3>1. CASE t.mc
      BY <1>2, <1>11, <2>1, <3>1
    <3>2. CASE ~t.mc
      BY <1>2, <1>11, <2>1, <3>2
    <3>. QED BY <3>1, <3>2
  <2>3. s2 \o piece(TRUE, D3) = s3 /\ s3 \in Seq(V)
    BY <1>2, <1>11, <2>2
  <2>4. s3 \o piece(t.numa, D4) = s4 /\ s4 \in Seq(V)
    <3>1. CASE t.numa
      BY <1>2, <1>11, <2>3, <3>1
    <3>2. CASE ~t.numa
      BY <1>2, <1>11, <2>3, <3>2
    <3>. QED BY <3>1, <3>2
  <2>5. s4 \o piece(top, D5) = s5 /\ s5 \in Seq(V)
    <3>1. CASE top
      BY <1>2, <1>11, <2>4, <3>1
    <3>2. CASE ~top
      BY <1>2, <1>11, <2>4, <3>2
    <3>. QED BY <3>1, <3>2
  <2>. HIDE DEF piece
  <2>. QED BY <1>1, <2>1, <2>2, <2>3, <2>4, <2>5
<1>13. /\ s1 \in Seq(V) /\ Len(s1) \in 0..1 /\ Tower(s1, c, t, M) /\ Awake(s1)
       /\ t.smt => s1 # <<>> /\ s1[Len(s1)].span = T
       /\ ~t.smt => s1 = <<>>
  <2>1. /\ <<>> \in Seq(V) /\ Len(<<>>) = 0 /\ Tower(<<>>, c, t, M) /\ Awake(<<>>)
    BY DEF Tower, Awake
  <2>2. CASE t.smt
    <3>1. Above(<<>>, D1, c)
      BY <1>6, <2>1 DEF Above
    <3>2. /\ s1 \in Seq(V) /\ Len(s1) = 1 /\ s1[Len(s1)] = D1 /\ s1 # <<>> /\ Tower(s1, c, t, M)
      <4>1. <<>> \in Seq(V) /\ D1 \in V /\ Tower(<<>>, c, t, M) /\ Rung(D1, c, t, M) /\ Above(<<>>, D1, c)
        BY <1>11, <1>6, <2>1, <2>2, <3>1
      <4>2. PICK r : r = Append(<<>>, D1)
        OBVIOUS
      <4>3. r \in Seq(V) /\ Len(r) = Len(<<>>) + 1 /\ r[Len(r)] = D1 /\ r # <<>> /\ Tower(r, c, t, M)
        BY <4>1, <4>2, TowerRises
      <4>4. s1 = r
        BY <1>2, <2>1, <2>2, <4>2
      <4>5. Len(r) = 1
        BY <2>1, <4>3
      <4>. QED BY <4>3, <4>4, <4>5
    <3>3. Awake(s1)
      BY <1>6, <3>2, TowerAwake
    <3>. QED BY <1>6, <2>2, <3>2, <3>3
  <2>3. CASE ~t.smt
    BY <1>2, <2>1, <2>3
  <2>. QED BY <2>2, <2>3
<1>14. /\ s2 \in Seq(V) /\ Len(s2) \in 0..2 /\ Tower(s2, c, t, M) /\ Awake(s2)
       /\ t.mc => s2 # <<>> /\ s2[Len(s2)].span = C
       /\ ~t.mc => s2 = s1
  <2>1. CASE t.mc
    <3>1. Above(s1, D2, c)
      BY <1>3, <1>7, <1>13 DEF Above, Awake
    <3>2. /\ s2 \in Seq(V) /\ Len(s2) = Len(s1) + 1 /\ s2[Len(s2)] = D2 /\ s2 # <<>> /\ Tower(s2, c, t, M)
      <4>1. s1 \in Seq(V) /\ D2 \in V /\ Tower(s1, c, t, M) /\ Rung(D2, c, t, M) /\ Above(s1, D2, c)
        BY <1>11, <1>13, <1>7, <2>1, <3>1
      <4>2. PICK r : r = Append(s1, D2)
        OBVIOUS
      <4>3. r \in Seq(V) /\ Len(r) = Len(s1) + 1 /\ r[Len(r)] = D2 /\ r # <<>> /\ Tower(r, c, t, M)
        BY <4>1, <4>2, TowerRises
      <4>4. s2 = r
        BY <1>2, <2>1, <4>2
      <4>. QED BY <4>3, <4>4
    <3>3. Awake(s2)
      BY <1>7, <1>13, <3>2, TowerAwake
    <3>. QED BY <1>7, <1>13, <2>1, <3>2, <3>3
  <2>2. CASE ~t.mc
    BY <1>2, <1>13, <2>2
  <2>. QED BY <2>1, <2>2
<1>15. /\ s3 \in Seq(V) /\ Len(s3) \in 1..3 /\ Tower(s3, c, t, M) /\ s3 # <<>> /\ s3[Len(s3)].span = N
  <2>1. Above(s2, D3, c)
    BY <1>3, <1>8, <1>13, <1>14 DEF Above, Awake
  <2>2. /\ s3 \in Seq(V) /\ Len(s3) = Len(s2) + 1 /\ s3[Len(s3)] = D3 /\ s3 # <<>> /\ Tower(s3, c, t, M)
    <3>1. s2 \in Seq(V) /\ D3 \in V /\ Tower(s2, c, t, M) /\ Rung(D3, c, t, M) /\ Above(s2, D3, c)
      BY <1>11, <1>14, <1>8, <2>1
    <3>2. PICK r : r = Append(s2, D3)
      OBVIOUS
    <3>3. r \in Seq(V) /\ Len(r) = Len(s2) + 1 /\ r[Len(r)] = D3 /\ r # <<>> /\ Tower(r, c, t, M)
      BY <3>1, <3>2, TowerRises
    <3>4. s3 = r
      BY <1>2, <3>2
    <3>. QED BY <3>3, <3>4
  <2>3. Len(s3) \in 1..3
    <3>1. PICK m, n : m = Len(s2) /\ n = Len(s3)
      OBVIOUS
    <3>2. m \in 0..2 /\ n = m + 1
      BY <1>14, <2>2, <3>1
    <3>. QED BY <3>1, <3>2, SMTT(30)
  <2>. QED BY <1>8, <2>2, <2>3
<1>16. /\ s4 \in Seq(V) /\ Len(s4) \in 1..4 /\ Tower(s4, c, t, M) /\ s4 # <<>>
       /\ s4[Len(s4)].span = IF t.numa THEN S ELSE N
  <2>1. CASE t.numa
    <3>1. Above(s3, D4, c)
      BY <1>3, <1>9, <1>15 DEF Above
    <3>2. /\ s4 \in Seq(V) /\ Len(s4) = Len(s3) + 1 /\ s4[Len(s4)] = D4 /\ s4 # <<>> /\ Tower(s4, c, t, M)
      <4>1. s3 \in Seq(V) /\ D4 \in V /\ Tower(s3, c, t, M) /\ Rung(D4, c, t, M) /\ Above(s3, D4, c)
        BY <1>11, <1>15, <1>9, <2>1, <3>1
      <4>2. PICK r : r = Append(s3, D4)
        OBVIOUS
      <4>3. r \in Seq(V) /\ Len(r) = Len(s3) + 1 /\ r[Len(r)] = D4 /\ r # <<>> /\ Tower(r, c, t, M)
        BY <4>1, <4>2, TowerRises
      <4>4. s4 = r
        BY <1>2, <2>1, <4>2
      <4>. QED BY <4>3, <4>4
    <3>. QED BY <1>9, <1>15, <2>1, <3>2
  <2>2. CASE ~t.numa
    BY <1>2, <1>15, <2>2
  <2>. QED BY <2>1, <2>2
<1>17. /\ s5 \in Seq(V) /\ Len(s5) \in 1..5 /\ Tower(s5, c, t, M)
       /\ s5[Len(s5)].span = IF top THEN M ELSE IF t.numa THEN S ELSE N
  <2>1. CASE top
    <3>1. t.numa
      BY <2>1 DEF top
    <3>2. Above(s4, D5, c)
      BY <1>3, <1>10, <1>16, <2>1, <3>1 DEF Above
    <3>3. /\ s5 \in Seq(V) /\ Len(s5) = Len(s4) + 1 /\ s5[Len(s5)] = D5 /\ s5 # <<>> /\ Tower(s5, c, t, M)
      <4>1. s4 \in Seq(V) /\ D5 \in V /\ Tower(s4, c, t, M) /\ Rung(D5, c, t, M) /\ Above(s4, D5, c)
        BY <1>10, <1>11, <1>16, <2>1, <3>2
      <4>2. PICK r : r = Append(s4, D5)
        OBVIOUS
      <4>3. r \in Seq(V) /\ Len(r) = Len(s4) + 1 /\ r[Len(r)] = D5 /\ r # <<>> /\ Tower(r, c, t, M)
        BY <4>1, <4>2, TowerRises
      <4>4. s5 = r
        BY <1>2, <2>1, <4>2
      <4>. QED BY <4>3, <4>4
    <3>. QED BY <1>10, <1>16, <2>1, <3>3
  <2>2. CASE ~top
    BY <1>2, <1>16, <2>2
  <2>. QED BY <2>1, <2>2
<1>18. ASSUME DO!Reached(p, c)
       PROVE  s5[Len(s5)].span = M
  <2>1. CASE top
    BY <1>17, <2>1
  <2>2. CASE ~top /\ t.numa
    <3>1. M \subseteq DO!sched_domain_node_span(t, t.node[c])
      BY <1>18, <2>2 DEF DO!Reached, top, t, M
    <3>2. S = M
      BY <3>1 DEF S, NodeSpan
    <3>. QED BY <1>17, <2>2, <3>2
  <2>3. CASE ~t.numa
    <3>1. N = M
      BY <1>3, <2>3, TopologyAssumption DEF N, DO!NodeCpus, DO!OfNode
    <3>2. ~top
      BY <2>3 DEF top
    <3>. QED BY <1>17, <2>3, <3>1, <3>2
  <2>. QED BY <2>1, <2>2, <2>3
<1>. QED BY <1>12, <1>17, <1>18 DEF t, M

(* What the loop of cpu_attach_domain() has kept of s up to level k.       *)
Upto(s, k) == IF k < Len(s) THEN k ELSE Len(s)
Kept(low, s, k, c, t, M) ==
  /\ low # <<>> /\ low[1] = s[1] /\ low[Len(low)].span = s[Upto(s, k)].span
  /\ \A i \in 1..Len(low) : Rung(low[i], c, t, M)
  /\ \A i \in 2..Len(low) : Len(low[i].groups) > 1 /\ low[i - 1].span \subseteq low[i].span
  /\ \A j \in 1..Len(s) : j > k /\ "wake_affine" \in s[j].flags => "wake_affine" \in low[Len(low)].flags

(* A domain that spans one processor, or has one group, spans no more than *)
(* the one below it.                                                       *)
LEMMA NothingAdded ==
  ASSUME NEW V, NEW s \in Seq(V), NEW c, NEW t, NEW M \in SUBSET MachineCPUs, Tower(s, c, t, M),
         NEW k \in 2..Len(s), DO!sd_degenerate(s[k])
  PROVE  s[k].span = s[k - 1].span
<1>1. /\ s[k - 1].span \subseteq s[k].span
      /\ Len(s[k].groups) = 1 => s[k].span = s[k - 1].span
  BY DEF Tower
<1>2. k \in 1..Len(s) /\ k - 1 \in 1..Len(s)
  OBVIOUS
<1>3. c \in s[k].span /\ c \in s[k - 1].span /\ s[k].span \subseteq M
  BY <1>2 DEF Tower, Rung
<1>4. CASE Len(s[k].groups) = 1
  BY <1>1, <1>4
<1>5. CASE DO!Cardinality(s[k].span) = 1
  <2>1. PICK S : S = s[k].span
    OBVIOUS
  <2>2. IsFiniteSet(S) /\ Cardinality(S) = 1
    BY <1>3, <1>5, <2>1, CardinalSame, FS_Subset, MachineAssumption
  <2>3. \E x : S = {x}
    BY <2>2, FS_Singleton
  <2>. QED BY <1>1, <1>3, <2>1, <2>3
<1>. QED BY <1>4, <1>5 DEF DO!sd_degenerate

LEMMA UnlinkKeeps ==
  ASSUME NEW V, NEW s \in Seq(V), NEW c, NEW t, NEW M \in SUBSET MachineCPUs, Tower(s, c, t, M),
         NEW k \in Nat, k >= 2, NEW low \in Seq(V), Kept(low, s, k - 1, c, t, M)
  PROVE  LET r == DO!Unlink(s, k, low) IN r \in Seq(V) /\ Kept(r, s, k, c, t, M)
<1>. DEFINE last == low[Len(low)]
            r    == DO!Unlink(s, k, low)
<1>1. Len(s) \in Nat /\ Len(low) \in Nat /\ Len(low) # 0
  BY DEF Kept
<1>2. CASE k > Len(s)
  <2>1. r = low
    BY <1>2 DEF DO!Unlink
  <2>2. Upto(s, k) = Upto(s, k - 1)
    BY <1>1, <1>2 DEF Upto
  <2>3. \A j \in 1..Len(s) : ~(j > k)
    BY <1>1, <1>2
  <2>. QED BY <2>1, <2>2, <2>3 DEF Kept
<1>3. ASSUME ~(k > Len(s))
      PROVE  /\ k \in 2..Len(s) /\ k \in 1..Len(s) /\ k > k - 1 /\ Upto(s, k) = k /\ Upto(s, k - 1) = k - 1
             /\ last.span = s[k - 1].span /\ s[k] \in V
             /\ \A j \in 1..Len(s) : j > k => j > k - 1
  <2>1. k \in 2..Len(s) /\ k \in 1..Len(s) /\ k > k - 1 /\ Upto(s, k) = k /\ Upto(s, k - 1) = k - 1
    BY <1>1, <1>3 DEF Upto
  <2>. QED BY <2>1 DEF Kept
<1>4. CASE ~(k > Len(s)) /\ DO!sd_parent_degenerate(last, s[k])
  <2>1. r = low
    BY <1>4 DEF DO!Unlink
  <2>2. last.span = s[k].span
    <3>1. CASE DO!sd_degenerate(s[k])
      BY <1>3, <1>4, <3>1, NothingAdded
    <3>2. CASE ~DO!sd_degenerate(s[k])
      BY <1>4, <3>2 DEF DO!sd_parent_degenerate
    <3>. QED BY <3>1, <3>2
  <2>. QED BY <1>3, <1>4, <2>1, <2>2 DEF Kept
<1>5. CASE ~(k > Len(s)) /\ ~DO!sd_parent_degenerate(last, s[k])
  <2>. DEFINE n == Len(low)
              d == s[k]
  <2>1. r = Append(low, d)
    BY <1>5 DEF DO!Unlink
  <2>2. /\ r \in Seq(V) /\ Len(r) = n + 1 /\ n \in Nat \ {0} /\ r[n + 1] = d /\ r # <<>>
        /\ \A i \in 1..n : r[i] = low[i]
    BY <1>1, <1>3, <1>5, <2>1
  <2>3. Rung(d, c, t, M)
    BY <1>3, <1>5 DEF Tower
  <2>4. s[k - 1].span \subseteq d.span /\ (Len(d.groups) = 1 => d.span = s[k - 1].span)
    BY <1>3, <1>5 DEF Tower
  <2>5. "wake_affine" \in d.flags => /\ d.flags \ DO!NeedGroups \subseteq {"wake_affine"}
                                     /\ "wake_affine" \in last.flags
    BY <1>3, <1>5 DEF Tower, Kept
  <2>6. Len(d.groups) > 1
    <3>1. Len(d.groups) \in Nat /\ Len(d.groups) >= 1
      BY <2>3 DEF Rung, Divided
    <3>2. ASSUME Len(d.groups) = 1
          PROVE  FALSE
      <4>1. last.span = d.span
        BY <1>3, <1>5, <2>4, <3>2
      <4>2. ~DO!sd_degenerate(d)
        BY <1>5 DEF DO!sd_parent_degenerate
      <4>3. "wake_affine" \in d.flags
        BY <3>2, <4>2 DEF DO!sd_degenerate
      <4>4. \A S : (d.flags \ DO!NeedGroups) \ S \subseteq last.flags
        BY <2>5, <4>3
      <4>5. DO!sd_parent_degenerate(last, d)
        BY <3>2, <4>1, <4>4 DEF DO!sd_parent_degenerate
      <4>. QED BY <1>5, <4>5
    <3>3. PICK l : l = Len(d.groups)
      OBVIOUS
    <3>4. l \in Nat /\ l >= 1
      BY <3>1, <3>3
    <3>5. l # 1
      BY <3>2, <3>3
    <3>6. l > 1
      BY <3>4, <3>5
    <3>. QED BY <3>3, <3>6
  <2>. HIDE DEF r, d, n
  <2>7. \A i \in 1..(n + 1) : Rung(r[i], c, t, M)
    <3>1. \A i \in 1..n : Rung(low[i], c, t, M)
      BY DEF Kept, n
    <3>2. \A i \in 1..(n + 1) : i \in 1..n \/ i = n + 1
      BY <2>2
    <3>. QED BY <2>2, <2>3, <3>1, <3>2
  <2>8. ASSUME NEW i \in 2..(n + 1)
        PROVE  Len(r[i].groups) > 1 /\ r[i - 1].span \subseteq r[i].span
    <3>1. CASE i = n + 1
      <4>1. r[i] = d /\ i - 1 = n /\ n \in 1..n
        BY <2>2, <3>1
      <4>2. r[i - 1] = last
        BY <2>2, <4>1 DEF n
      <4>. QED BY <1>3, <1>5, <2>4, <2>6, <4>1, <4>2
    <3>2. CASE i # n + 1
      <4>1. i \in 2..n /\ i \in 1..n /\ i - 1 \in 1..n
        BY <2>2, <3>2
      <4>2. r[i] = low[i] /\ r[i - 1] = low[i - 1]
        BY <2>2, <4>1
      <4>. QED BY <4>1, <4>2 DEF Kept, n
    <3>. QED BY <3>1, <3>2
  <2>9. ASSUME NEW j \in 1..Len(s), j > k, "wake_affine" \in s[j].flags
        PROVE  "wake_affine" \in d.flags
    <3>1. k \in 1..j
      BY <1>1, <1>3, <1>5, <2>9
    <3>. QED BY <2>9, <3>1 DEF Tower, d
  <2>10. r[1] = s[1]
    BY <2>2 DEF Kept
  <2>11. r[Len(r)] = d /\ d.span = s[Upto(s, k)].span
    BY <1>3, <1>5, <2>2 DEF d
  <2>12. Kept(r, s, k, c, t, M)
    BY <2>2, <2>7, <2>8, <2>9, <2>10, <2>11 DEF Kept
  <2>. QED BY <2>2, <2>12 DEF r
<1>. QED BY <1>2, <1>4, <1>5

(* cpu_attach_domain(): what is left of such a tower is sound.             *)
LEMMA ContributingSound ==
  ASSUME NEW V, NEW s \in Seq(V), Len(s) \in 1..5, NEW c, NEW t, NEW M \in SUBSET MachineCPUs, Tower(s, c, t, M)
  PROVE  LET r == DO!Contributing(s)
         IN  /\ \A k \in DOMAIN r : /\ DO!DomainSound(r[k], c, t, M)
                                    /\ k > 1 => r[k - 1].span \subseteq r[k].span
             /\ Cardinality(M) > 1 /\ s[Len(s)].span = M => r # <<>> /\ r[Len(r)].span = M
<1>. DEFINE l1 == <<s[1]>>
            l2 == DO!Unlink(s, 2, l1)
            l3 == DO!Unlink(s, 3, l2)
            l4 == DO!Unlink(s, 4, l3)
            l5 == DO!Unlink(s, 5, l4)
            r  == DO!Contributing(s)
<1>1. r = IF DO!sd_degenerate(l5[1]) THEN Tail(l5) ELSE l5
  BY DEF DO!Contributing
<1>2. 1 \in 1..Len(s) /\ s[1] \in V /\ s # <<>>
  OBVIOUS
<1>3. l1 \in Seq(V) /\ Kept(l1, s, 1, c, t, M)
  <2>1. /\ l1 \in Seq(V) /\ Len(l1) = 1 /\ l1[1] = s[1] /\ l1 # <<>>
        /\ 1..1 = {1} /\ 2..1 = {}
    BY <1>2
  <2>2. Upto(s, 1) = 1
    BY DEF Upto
  <2>3. Rung(s[1], c, t, M) /\ "wake_affine" \in s[1].flags
    BY <1>2 DEF Tower
  <2>. HIDE DEF l1
  <2>. QED BY <2>1, <2>2, <2>3 DEF Kept
<1>. HIDE DEF l1
<1>4. l2 \in Seq(V) /\ Kept(l2, s, 2, c, t, M)
  <2>1. 2 - 1 = 1
    OBVIOUS
  <2>. QED BY <1>3, <2>1, UnlinkKeeps
<1>. HIDE DEF l2
<1>5. l3 \in Seq(V) /\ Kept(l3, s, 3, c, t, M)
  <2>1. 3 - 1 = 2
    OBVIOUS
  <2>. QED BY <1>4, <2>1, UnlinkKeeps
<1>. HIDE DEF l3
<1>6. l4 \in Seq(V) /\ Kept(l4, s, 4, c, t, M)
  <2>1. 4 - 1 = 3
    OBVIOUS
  <2>. QED BY <1>5, <2>1, UnlinkKeeps
<1>. HIDE DEF l4
<1>7. l5 \in Seq(V) /\ Kept(l5, s, 5, c, t, M)
  <2>1. 5 - 1 = 4
    OBVIOUS
  <2>. QED BY <1>6, <2>1, UnlinkKeeps
<1>. HIDE DEF l5
<1>8. PICK n : n = Len(l5)
  OBVIOUS
<1>9. /\ n \in Nat \ {0} /\ l5[1] = s[1] /\ l5[n].span = s[Len(s)].span
      /\ \A i \in 1..n : Rung(l5[i], c, t, M)
      /\ \A i \in 2..n : Len(l5[i].groups) > 1 /\ l5[i - 1].span \subseteq l5[i].span
  <2>1. Upto(s, 5) = Len(s)
    <3>1. PICK m \in 1..5 : m = Len(s)
      OBVIOUS
    <3>2. ~(5 < m)
      OBVIOUS
    <3>. QED BY <3>1, <3>2 DEF Upto
  <2>2. n \in Nat /\ n # 0
    BY <1>7, <1>8 DEF Kept
  <2>. QED BY <1>7, <1>8, <2>1, <2>2 DEF Kept
<1>10. \A i \in 1..n : Rung(l5[i], c, t, M) /\ Len(l5[i].groups) > 1 => DO!DomainSound(l5[i], c, t, M)
  BY DEF Rung, Divided, DO!DomainSound
<1>11. (Len(s[1].groups) = 1 => s[1].span = {c}) /\ "wake_affine" \in s[1].flags
  BY <1>2 DEF Tower
<1>12. CASE DO!sd_degenerate(l5[1])
  <2>1. /\ r = Tail(l5) /\ Len(r) = n - 1 /\ DOMAIN r = 1..(n - 1)
        /\ \A k \in 1..(n - 1) : r[k] = l5[k + 1]
    BY <1>1, <1>7, <1>8, <1>9, <1>12
  <2>. HIDE DEF r
  <2>2. ASSUME NEW k \in DOMAIN r
        PROVE  DO!DomainSound(r[k], c, t, M) /\ (k > 1 => r[k - 1].span \subseteq r[k].span)
    <3>1. k + 1 \in 1..n /\ k + 1 \in 2..n /\ r[k] = l5[k + 1]
      BY <1>9, <2>1
    <3>2. DO!DomainSound(r[k], c, t, M)
      BY <1>9, <1>10, <3>1
    <3>3. k > 1 => r[k - 1] = l5[k] /\ (k + 1) - 1 = k
      BY <1>9, <2>1, SMTT(30)
    <3>. QED BY <1>9, <3>1, <3>2, <3>3
  <2>3. ASSUME Cardinality(M) > 1, s[Len(s)].span = M
        PROVE  r # <<>> /\ r[Len(r)].span = M
    <3>1. CASE n = 1
      <4>1. s[1].span = M /\ DO!sd_degenerate(s[1])
        BY <1>9, <1>12, <2>3, <3>1
      <4>2. Cardinality(M) = 1
        BY <1>11, <4>1, CardinalSame DEF DO!sd_degenerate
      <4>. QED BY <2>3, <4>2
    <3>2. CASE n # 1
      <4>1. n - 1 \in 1..(n - 1) /\ n - 1 # 0 /\ (n - 1) + 1 = n
        BY <1>9, <3>2
      <4>2. r[Len(r)] = l5[n]
        BY <2>1, <4>1
      <4>3. r # <<>>
        BY <2>1, <4>1
      <4>. QED BY <1>9, <2>3, <4>2, <4>3
    <3>. QED BY <3>1, <3>2
  <2>. QED BY <2>2, <2>3 DEF r
<1>13. CASE ~DO!sd_degenerate(l5[1])
  <2>1. r = l5 /\ DOMAIN r = 1..n /\ Len(r) = n
    BY <1>1, <1>7, <1>8, <1>13
  <2>. HIDE DEF r
  <2>2. Len(l5[1].groups) > 1
    <3>1. Len(s[1].groups) # 1
      <4>1. ASSUME Len(s[1].groups) = 1
            PROVE  FALSE
        <5>1. s[1].span = {c}
          BY <1>11, <4>1
        <5>2. Cardinality({c}) = 1
          BY FS_Singleton
        <5>. QED BY <1>9, <1>13, <5>1, <5>2, CardinalSame DEF DO!sd_degenerate
      <4>. QED BY <4>1
    <3>2. Len(s[1].groups) \in Nat /\ Len(s[1].groups) >= 1
      <4>1. Rung(s[1], c, t, M)
        BY <1>2 DEF Tower
      <4>. QED BY <4>1 DEF Rung, Divided
    <3>3. PICK l : l = Len(s[1].groups)
      OBVIOUS
    <3>4. l \in Nat /\ l >= 1 /\ l # 1
      BY <3>1, <3>2, <3>3
    <3>5. l > 1
      BY <3>4
    <3>. QED BY <1>9, <3>3, <3>5
  <2>3. ASSUME NEW k \in DOMAIN r
        PROVE  DO!DomainSound(r[k], c, t, M) /\ (k > 1 => r[k - 1].span \subseteq r[k].span)
    <3>1. k \in 1..n /\ (k = 1 \/ k \in 2..n) /\ (k > 1 => k \in 2..n)
      BY <1>9, <2>1
    <3>. QED BY <1>9, <1>10, <2>1, <2>2, <3>1
  <2>4. ASSUME s[Len(s)].span = M
        PROVE  r # <<>> /\ r[Len(r)].span = M
    <3>1. l5 # <<>>
      BY <1>7 DEF Kept
    <3>. QED BY <1>9, <2>1, <2>4, <3>1
  <2>. QED BY <2>3, <2>4 DEF r
<1>. QED BY <1>12, <1>13

LEMMA BuiltStays ==
  ASSUME DO!BuiltKnown, UNCHANGED <<x1, x3, x4>>, x5' \subseteq x5,
         x9'.at = "attach" => x9.at = "attach" /\ x9'.todo \subseteq x9.todo
  PROVE  DO!BuiltKnown'
BY DEF DO!BuiltKnown, DO!Known

LEMMA BuiltParted ==
  ASSUME DO!BuiltKnown, NEW new, NEW t \in Topologies, NEW forced, DO!Partition(new, t, forced),
         \A p \in new : p = DO!Part(p.span, p.relax), UNCHANGED <<x4, x5>>
  PROVE  DO!BuiltKnown'
<1>1. x1' = t /\ x3' = {[p EXCEPT !.topo = t] : p \in new} /\ x9'.at = "destroy"
  BY DEF DO!Partition
<1>2. \A p \in x3' : p.topo = t
  BY <1>1 DEF DO!Part
<1>. QED BY <1>1, <1>2 DEF DO!BuiltKnown, DO!Known

LEMMA BuiltPartition ==
  ASSUME DO!BuiltKnown,
         \/ \E t \in Topologies : \/ DO!RebuildAll(t)
                                  \/ \E new \in Partitions : DO!Repartition({DO!Part(c[1], c[2]) : c \in new}, t)
         \/ DO!Dead \/ DO!OnlineRebuild
  PROVE  DO!BuiltKnown'
<1>1. ASSUME NEW t \in Topologies, DO!Rebuild(t), UNCHANGED <<x4, x5>> PROVE DO!BuiltKnown'
  <2>1. PICK new : new = {DO!Part(DO!fallback_doms, -1)}
    OBVIOUS
  <2>2. DO!Partition(new, t, TRUE)
    BY <1>1, <2>1 DEF DO!Rebuild
  <2>3. \A p \in new : p = DO!Part(p.span, p.relax)
    BY <2>1 DEF DO!Part
  <2>. QED BY <1>1, <2>2, <2>3, BuiltParted
<1>2. ASSUME NEW t \in Topologies, DO!RebuildAll(t) PROVE DO!BuiltKnown'
  BY <1>1, <1>2 DEF DO!RebuildAll
<1>3. ASSUME NEW t \in Topologies, NEW set \in Partitions, DO!Repartition({DO!Part(c[1], c[2]) : c \in set}, t)
      PROVE  DO!BuiltKnown'
  <2>1. PICK new : new = {DO!Part(c[1], c[2]) : c \in set}
    OBVIOUS
  <2>2. DO!Partition(new, t, FALSE) /\ UNCHANGED <<x4, x5>>
    BY <1>3, <2>1 DEF DO!Repartition
  <2>3. \A p \in new : p = DO!Part(p.span, p.relax)
    BY <2>1 DEF DO!Part
  <2>. QED BY <2>2, <2>3, BuiltParted
<1>4. ASSUME DO!Dead \/ DO!OnlineRebuild PROVE DO!BuiltKnown'
  <2>1. x1 \in Topologies /\ DO!Rebuild(x1) /\ UNCHANGED <<x4, x5>>
    BY <1>4 DEF DO!Dead, DO!OnlineRebuild, DO!BuiltKnown
  <2>. QED BY <1>1, <2>1
<1>. QED BY <1>2, <1>3, <1>4

LEMMA BuiltAttach == ASSUME DO!DomainsInv, DO!BuiltKnown, DO!Attach PROVE DO!BuiltKnown'
<1>1. /\ x9.at = "attach" /\ x9.todo # {} /\ UNCHANGED <<x1, x3, x4>>
      /\ x5' = x5 \cup {DO!Min(x9.todo)} /\ x9' = [x9 EXCEPT !.todo = @ \ {DO!Min(x9.todo)}]
  BY DEF DO!Attach
<1>2. x9 = [at |-> "attach", root |-> x9.root, todo |-> x9.todo, destroy |-> {}, build |-> x9.build]
  BY <1>1 DEF DO!DomainsInv, DO!WorkShape, DO!Idle
<1>3. x9.todo \subseteq MachineCPUs
  BY <1>1 DEF DO!DomainsInv, DO!StageHolds, DO!PartsApart
<1>4. PICK least \in x9.todo : least = DO!Min(x9.todo)
  BY <1>1, <1>3, LeastDone
<1>5. x9'.todo \subseteq x9.todo /\ x5' = x5 \cup {least}
  BY <1>1, <1>2, <1>4
<1>6. DO!Known(x4[least], least)
  BY <1>1, <1>4 DEF DO!BuiltKnown
<1>. QED BY <1>1, <1>5, <1>6 DEF DO!BuiltKnown, DO!Known

LEMMA BuiltBuild ==
  ASSUME DO!DomainsInv, DO!BuiltKnown, NEW p \in x3, DO!Build(p)
  PROVE  DO!BuiltKnown'
<1>1. /\ x9.at = "build" /\ p \in x9.build /\ UNCHANGED <<x1, x3, x5>>
      /\ x4' = [c \in MachineCPUs |-> IF c \in p.span THEN p ELSE x4[c]]
      /\ x9'.at = "attach" /\ x9'.todo = p.span
  BY DEF DO!Build
<1>2. p.span \subseteq MachineCPUs /\ x5 \subseteq MachineCPUs
  BY DEF DO!DomainsInv, DO!PartsApart, DO!TypeOK
<1>3. \A c \in p.span : x4'[c] = p /\ DO!Known(p, c)
  BY <1>1, <1>2 DEF DO!BuiltKnown, DO!Known
<1>4. \A c \in x5 : x4'[c] \in {p, x4[c]} /\ (x4'[c] = p => c \in p.span \/ p = x4[c])
  BY <1>1, <1>2
<1>. QED BY <1>1, <1>3, <1>4 DEF DO!BuiltKnown, DO!Known

LEMMA BuiltFree == ASSUME DO!DomainsInv, DO!BuiltKnown, DO!free_sched_groups PROVE DO!BuiltKnown'
<1>1. /\ x9.at = "free" /\ UNCHANGED <<x1, x3, x5>> /\ x9'.at = "destroy"
      /\ x4' = [c \in MachineCPUs |-> IF c \in x9.part.span /\ x9.part.topo.numa THEN None ELSE x4[c]]
  BY DEF DO!free_sched_groups
<1>2. x9.part.span \cap x5 = {} /\ x5 \subseteq MachineCPUs
  BY <1>1 DEF DO!DomainsInv, DO!StageHolds, DO!TypeOK
<1>3. \A c \in x5 : x4'[c] = x4[c]
  BY <1>1, <1>2
<1>. QED BY <1>1, <1>3 DEF DO!BuiltKnown, DO!Known

LEMMA BuiltFails == ASSUME DO!DomainsInv, DO!BuiltKnown, NEW p \in x3, DO!GroupsFail(p) PROVE DO!BuiltKnown'
<1>1. /\ x9.at = "build" /\ p \in x9.build /\ UNCHANGED <<x1, x3, x5>> /\ x9' = [x9 EXCEPT !.build = @ \ {p}]
      /\ x4' = [c \in MachineCPUs |-> IF c \in p.span THEN None ELSE x4[c]]
  BY DEF DO!GroupsFail
<1>2. x9 = [at |-> "build", destroy |-> {}, build |-> x9.build]
  BY <1>1 DEF DO!DomainsInv, DO!WorkShape, DO!StageHolds, DO!Idle
<1>3. p.span \cap x5 = {} /\ x5 \subseteq MachineCPUs
  <2>1. x9 # DO!Idle /\ DO!Destroying = {} /\ DO!Building = x9.build /\ DO!Leaving = {}
    BY <1>1, <1>2 DEF DO!Destroying, DO!Building, DO!Leaving, DO!Idle
  <2>. QED BY <1>1, <2>1 DEF DO!DomainsInv, DO!PartsApart, DO!Span, DO!TypeOK
<1>4. x9'.at = "build" /\ \A c \in x5 : x4'[c] = x4[c]
  BY <1>1, <1>2, <1>3
<1>. QED BY <1>1, <1>4 DEF DO!BuiltKnown, DO!Known

LEMMA BuiltWork ==
  ASSUME DO!DomainsInv, DO!BuiltKnown,
         \/ \E q \in IF x9.at = "destroy" THEN x9.destroy ELSE {} : DO!Destroy(q)
         \/ \E q \in x3 : DO!BuildFails(q)
         \/ DO!Detach \/ DO!synchronize_sched \/ DO!DestroyedAll \/ DO!BuiltAll \/ DO!register_sched_domain_sysctl
  PROVE  DO!BuiltKnown'
<1>0. DO!WorkShape
  BY DEF DO!DomainsInv
<1>1. UNCHANGED <<x1, x3, x4>> /\ x5' \subseteq x5
  BY DEF DO!Destroy, DO!BuildFails, DO!Detach, DO!synchronize_sched, DO!DestroyedAll, DO!BuiltAll,
         DO!register_sched_domain_sysctl
<1>2. CASE DO!Detach \/ DO!DestroyedAll \/ \E q \in x3 : DO!BuildFails(q)
  <2>1. x9.at \in {"detach", "destroy", "build"}
    BY <1>2 DEF DO!Detach, DO!DestroyedAll, DO!BuildFails
  <2>2. x9' = [x9 EXCEPT !.todo = x9'.todo] \/ x9' = [x9 EXCEPT !.at = "build"] \/ x9' = [x9 EXCEPT !.build = x9'.build]
    BY <1>0, <1>2, <2>1 DEF DO!Detach, DO!DestroyedAll, DO!BuildFails, DO!WorkShape, DO!Idle
  <2>3. x9'.at # "attach"
    BY <1>0, <2>1, <2>2 DEF DO!WorkShape, DO!Idle
  <2>. QED BY <1>1, <2>3, BuiltStays
<1>3. CASE \/ \E q \in IF x9.at = "destroy" THEN x9.destroy ELSE {} : DO!Destroy(q)
           \/ DO!synchronize_sched \/ DO!BuiltAll \/ DO!register_sched_domain_sysctl
  <2>1. x9'.at # "attach"
    BY <1>3 DEF DO!Destroy, DO!synchronize_sched, DO!BuiltAll, DO!register_sched_domain_sysctl, DO!Idle
  <2>. QED BY <1>1, <2>1, BuiltStays
<1>. QED BY <1>2, <1>3

LEMMA BuiltElse ==
  ASSUME DO!DomainsInv, DO!BuiltKnown,
         \/ \E c \in MachineCPUs : \/ DO!DownPrepare(c) \/ DO!Online(c) \/ DO!EndWalk(c)
                                   \/ \E d \in MachineCPUs : DO!Walk(c, d)
         \/ DO!DownFailed \/ DO!Dying \/ UNCHANGED DO!vars
  PROVE  DO!BuiltKnown'
<1>1. UNCHANGED <<x1, x3, x4, x5>>
  BY DEF DO!DownPrepare, DO!Online, DO!EndWalk, DO!Walk, DO!DownFailed, DO!Dying, DO!vars
<1>2. x9' = x9 \/ (x9.at = "free" /\ x9' = [x9 EXCEPT !.wait = x9'.wait])
  <2>1. CASE \E c \in MachineCPUs : DO!EndWalk(c)
    <3>1. PICK c \in MachineCPUs : x9' = IF x9.at = "free" THEN [x9 EXCEPT !.wait = @ \ {c}] ELSE x9
      BY <2>1 DEF DO!EndWalk
    <3>2. CASE x9.at = "free"
      <4>1. x9 = [at |-> "free", part |-> x9.part, wait |-> x9.wait, destroy |-> x9.destroy, build |-> x9.build]
        BY <3>2 DEF DO!DomainsInv, DO!WorkShape, DO!Idle
      <4>. QED BY <3>1, <3>2, <4>1
    <3>. QED BY <3>1, <3>2
  <2>. QED BY <2>1 DEF DO!DownPrepare, DO!Online, DO!Walk, DO!DownFailed, DO!Dying, DO!vars
<1>3. x9'.at = "attach" => x9' = x9
  BY <1>2 DEF DO!DomainsInv, DO!WorkShape, DO!Idle
<1>. QED BY <1>1, <1>3, BuiltStays

LEMMA BuiltInit == ASSUME DO!Init PROVE DO!BuiltKnown
BY DEF DO!Init, DO!BuiltKnown, DO!Part

LEMMA BuiltStep == ASSUME DO!DomainsInv, DO!BuiltKnown, [DO!Next]_DO!vars PROVE DO!BuiltKnown' \/ Broken'
<1>1. ASSUME NEW p \in x3, DO!Build(p) PROVE DO!BuiltKnown'
  BY <1>1, BuiltBuild
<1>2. CASE \/ \E t \in Topologies : \/ DO!RebuildAll(t)
                                    \/ \E new \in Partitions : DO!Repartition({DO!Part(c[1], c[2]) : c \in new}, t)
           \/ DO!Dead \/ DO!OnlineRebuild
  BY <1>2, BuiltPartition
<1>3. CASE \/ \E q \in IF x9.at = "destroy" THEN x9.destroy ELSE {} : DO!Destroy(q)
           \/ \E q \in x3 : DO!BuildFails(q)
           \/ DO!Detach \/ DO!synchronize_sched \/ DO!DestroyedAll \/ DO!BuiltAll \/ DO!register_sched_domain_sysctl
  BY <1>3, BuiltWork
<1>4. CASE \/ \E c \in MachineCPUs : \/ DO!DownPrepare(c) \/ DO!Online(c) \/ DO!EndWalk(c)
                                     \/ \E d \in MachineCPUs : DO!Walk(c, d)
           \/ DO!DownFailed \/ DO!Dying \/ UNCHANGED DO!vars
  BY <1>4, BuiltElse
<1>5. CASE DO!free_stale_groups
  <2>1. x9 # DO!Idle /\ x9'.at = "corrupt" /\ x10' = x10
    BY <1>5 DEF DO!free_stale_groups, DO!Idle
  <2>2. x10 = DO!Idle
    BY <2>1 DEF DO!DomainsInv, DO!HotplugAlone
  <2>. QED BY <2>1, <2>2 DEF Broken, DO!Corrupt
<1>. QED BY <1>1, <1>2, <1>3, <1>4, <1>5, BuiltAttach, BuiltFree, BuiltFails DEF DO!Next

LEMMA SoundWhenBuilt == ASSUME DO!BuiltKnown PROVE DO!DomainsSound
<1> SUFFICES ASSUME NEW c \in x5, DO!Agreed(x4[c])
             PROVE  LET sds == DO!sd(c)
                        M   == x4[c].span
                    IN  /\ \A k \in DOMAIN sds : /\ DO!DomainSound(sds[k], c, x4[c].topo, M)
                                                 /\ k > 1 => sds[k - 1].span \subseteq sds[k].span
                        /\ DO!Cardinality(M) > 1 /\ DO!Reached(x4[c], c) => sds # <<>> /\ sds[Len(sds)].span = M
  BY DEF DO!DomainsSound
<1>1. PICK p : p = x4[c]
  OBVIOUS
<1>2. p.topo \in Topologies /\ p.span \in SUBSET MachineCPUs /\ c \in p.span /\ DO!Agreed(p)
  BY <1>1 DEF DO!BuiltKnown, DO!Known
<1>3. PICK s : s = DO!__build_sched_domains(p, c)
  OBVIOUS
<1>4. /\ \E V : s \in Seq(V)
      /\ Len(s) \in 1..5 /\ Tower(s, c, p.topo, p.span)
      /\ DO!Reached(p, c) => s[Len(s)].span = p.span
  BY <1>2, <1>3, TowerBuilt
<1>5. PICK V : s \in Seq(V)
  BY <1>4
<1>6. PICK r : r = DO!Contributing(s)
  OBVIOUS
<1>7. /\ \A k \in DOMAIN r : /\ DO!DomainSound(r[k], c, p.topo, p.span)
                             /\ k > 1 => r[k - 1].span \subseteq r[k].span
      /\ Cardinality(p.span) > 1 /\ s[Len(s)].span = p.span => r # <<>> /\ r[Len(r)].span = p.span
  BY <1>2, <1>4, <1>5, <1>6, ContributingSound
<1>8. DO!sd(c) = r
  BY <1>1, <1>3, <1>6 DEF DO!sd
<1>9. DO!Cardinality(p.span) = Cardinality(p.span)
  BY CardinalSame
<1>. QED BY <1>1, <1>4, <1>7, <1>8, <1>9

-----------------------------------------------------------------------------
(* The L1 flush, seen by one set: how far the tree lets accesses favour    *)
(* one side of a node.                                                     *)

(* The nodes of the tree that an access to way w goes through, its own last.*)
Path(w) == L1!Above(w) \cup {8 + w}

LEMMA PathIs ==
  ASSUME NEW w \in 0..7
  PROVE  /\ L1!Above(w) = {(8 + w) \div 2, (8 + w) \div 4, 1}
         /\ Path(w) = {8 + w, (8 + w) \div 2, (8 + w) \div 4, 1}
BY DEF L1!Above, Path, L1!WAYS

LEMMA Halves ==
  ASSUME NEW w \in 0..7
  PROVE  \E a, b, c \in {0, 1} : /\ w = 4 * a + 2 * b + c
                                 /\ (8 + w) \div 2 = 4 + 2 * a + b /\ (8 + w) \div 4 = 2 + a
OBVIOUS

(* One child of a node on the way is on the way as well, and of the others *)
(* none.                                                                   *)
LEMMA OneChild ==
  ASSUME NEW w \in 0..7, NEW n \in 1..7
  PROVE  /\ n \in L1!Above(w) <=> n \in Path(w)
         /\ n \in Path(w) => \E x \in {0, 1} : /\ L1!Below(n, w) = 2 * n + x /\ 2 * n + x \in Path(w)
                                               /\ 2 * n + (1 - x) \notin Path(w)
         /\ n \notin Path(w) => 2 * n \notin Path(w) /\ 2 * n + 1 \notin Path(w)
<1>1. PICK a \in {0, 1}, b \in {0, 1}, c \in {0, 1} :
        /\ w = 4 * a + 2 * b + c
        /\ (8 + w) \div 2 = 4 + 2 * a + b /\ (8 + w) \div 4 = 2 + a
  BY Halves
<1>2. /\ L1!Above(w) = {4 + 2 * a + b, 2 + a, 1}
      /\ Path(w) = {8 + 4 * a + 2 * b + c, 4 + 2 * a + b, 2 + a, 1}
  BY <1>1, PathIs
<1>3. n \in L1!Above(w) <=> n \in Path(w)
  BY <1>2
<1>4. ASSUME n \notin Path(w)
      PROVE  2 * n \notin Path(w) /\ 2 * n + 1 \notin Path(w)
  BY <1>2, <1>4
<1>5. ASSUME n \in Path(w)
      PROVE  \E x \in {0, 1} : /\ 2 * n + x \in Path(w) /\ 2 * n + (1 - x) \notin Path(w)
  <2>1. CASE n = 1
    BY <1>2, <2>1
  <2>2. CASE n = 2 + a
    BY <1>2, <2>2
  <2>3. CASE n = 4 + 2 * a + b
    BY <1>2, <2>3
  <2>. QED BY <1>2, <1>5, <2>1, <2>2, <2>3
<1>6. ASSUME n \in Path(w)
      PROVE  \E x \in {0, 1} : /\ L1!Below(n, w) = 2 * n + x /\ 2 * n + x \in Path(w)
                               /\ 2 * n + (1 - x) \notin Path(w)
  <2>1. PICK x \in {0, 1} : 2 * n + x \in Path(w) /\ 2 * n + (1 - x) \notin Path(w)
    BY <1>5, <1>6
  <2>2. \A m \in Path(w) : m \in Nat
    BY <1>2
  <2>3. \A m \in Path(w) : m \div 2 = n => m \in {2 * n, 2 * n + 1}
    BY <2>2
  <2>4. (2 * n + x) \div 2 = n
    BY <2>1
  <2>5. L1!Below(n, w) = CHOOSE m \in Path(w) : m \div 2 = n
    BY DEF L1!Below, Path, L1!WAYS
  <2>6. L1!Below(n, w) = 2 * n + x
    BY <2>1, <2>3, <2>4, <2>5
  <2>. QED BY <2>1, <2>6
<1>. QED BY <1>3, <1>4, <1>6

(* The bits of the tree point to one way.                                  *)
LEMMA VictimIs ==
  ASSUME x5 \in [1..7 -> {0, 1}]
  PROVE  /\ L1!Victim \in 0..7
         /\ \A n \in L1!Above(L1!Victim) : L1!Below(n, L1!Victim) = 2 * n + x5[n]
<1>1. PICK a \in {0, 1} : a = x5[1]
  OBVIOUS
<1>2. PICK b \in {0, 1} : b = x5[2 + a]
  BY 2 + a \in 1..7
<1>3. PICK c \in {0, 1} : c = x5[4 + 2 * a + b]
  BY 4 + 2 * a + b \in 1..7
<1>4. PICK w \in 0..7 : w = 4 * a + 2 * b + c
  OBVIOUS
<1>5. (8 + w) \div 2 = 4 + 2 * a + b /\ (8 + w) \div 4 = 2 + a
  BY <1>4
<1>6. /\ L1!Above(w) = {4 + 2 * a + b, 2 + a, 1}
      /\ Path(w) = {8 + 4 * a + 2 * b + c, 4 + 2 * a + b, 2 + a, 1}
  BY <1>4, <1>5, PathIs
<1>7. ASSUME NEW n \in L1!Above(w)
      PROVE  L1!Below(n, w) = 2 * n + x5[n]
  <2>1. n \in 1..7 /\ n \in Path(w) /\ 2 * n + x5[n] \in Path(w) /\ x5[n] \in {0, 1}
    <3>1. CASE n = 1
      BY <1>1, <1>6, <3>1
    <3>2. CASE n = 2 + a
      BY <1>2, <1>6, <3>2
    <3>3. CASE n = 4 + 2 * a + b
      BY <1>3, <1>6, <3>3
    <3>. QED BY <1>6, <3>1, <3>2, <3>3
  <2>2. PICK x \in {0, 1} : L1!Below(n, w) = 2 * n + x /\ 2 * n + (1 - x) \notin Path(w)
    BY <2>1, OneChild
  <2>. QED BY <2>1, <2>2
<1>8. L1!Victim = CHOOSE v \in 0..7 : \A n \in L1!Above(v) : L1!Below(n, v) = 2 * n + x5[n]
  BY DEF L1!Victim, L1!Ways, L1!WAYS
<1>. QED BY <1>7, <1>8

LEMMA TouchIs ==
  ASSUME x5 \in [1..7 -> {0, 1}], NEW w \in 0..7
  PROVE  /\ L1!Touch(w) \in [1..7 -> {0, 1}]
         /\ \A n \in 1..7 : n \notin Path(w) => L1!Touch(w)[n] = x5[n]
         /\ \A n \in 1..7, x \in {0, 1} : n \in Path(w) /\ L1!Below(n, w) = 2 * n + x => L1!Touch(w)[n] = 1 - x
<1>1. L1!Touch(w) = [n \in 1..7 |-> IF n \in L1!Above(w) THEN 1 - (L1!Below(n, w) % 2) ELSE x5[n]]
  BY DEF L1!Touch, L1!Nodes, L1!WAYS
<1>2. \A n \in 1..7, x \in {0, 1} : (2 * n + x) % 2 = x
  OBVIOUS
<1>3. ASSUME NEW n \in 1..7
      PROVE  /\ n \in L1!Above(w) <=> n \in Path(w)
             /\ n \in Path(w) => \E x \in {0, 1} : L1!Below(n, w) = 2 * n + x
  BY OneChild
<1>4. \A n \in 1..7 : n \in Path(w) => L1!Touch(w)[n] \in {0, 1}
  BY <1>1, <1>2, <1>3
<1>. QED BY <1>1, <1>2, <1>3, <1>4

(* Both sides of a node take turns: a side that the bit points to, with ap *)
(* accesses that pushed ep ways out, and the other one.  A miss goes to    *)
(* the side of the bit and turns it away; a hit may repeat a side but      *)
(* pushes a way out there.                                                 *)
Turns(ap, ao, ep, eo, hits) ==
  /\ ao <= ap + eo /\ (ap > 0 => ap < ao + ep)
  /\ ~hits => ao <= ap + 1 /\ ap <= ao

LEMMA TurnHit ==
  ASSUME NEW ap \in Nat, NEW ao \in Nat, NEW ep \in Nat, NEW eo \in Nat, NEW hits \in BOOLEAN,
         Turns(ap, ao, ep, eo, hits)
  PROVE  Turns(ap, ao + 1, ep, eo + 1, TRUE)
BY DEF Turns

Side(f, bits, n)  == f[2 * n + bits[n]]
Other(f, bits, n) == f[2 * n + (1 - bits[n])]

(* The tree with the accesses and the ways pushed out below each node.     *)
Counted(f) == f \in [1..15 -> Nat] /\ \A n \in 1..7 : f[n] = f[2 * n] + f[2 * n + 1]
TreeTold(acc, out, old, bits, hits) ==
  /\ Counted(acc) /\ Counted(out) /\ bits \in [1..7 -> {0, 1}]
  /\ \A w \in 0..7 : /\ out[8 + w] = IF w \in old THEN 0 ELSE 1
                     /\ acc[8 + w] = 0 <=> w \in old
  /\ \A n \in 1..7 : Turns(Side(acc, bits, n), Other(acc, bits, n), Side(out, bits, n), Other(out, bits, n), hits)

Along(f, w, more) == [n \in 1..15 |-> IF n \in Path(w) THEN f[n] + more ELSE f[n]]

LEMMA AlongCounted ==
  ASSUME NEW f, Counted(f), NEW w \in 0..7, NEW more \in {0, 1}
  PROVE  /\ Counted(Along(f, w, more))
         /\ \A v \in 0..7 : Along(f, w, more)[8 + v] = IF v = w THEN f[8 + v] + more ELSE f[8 + v]
         /\ Along(f, w, more)[1] = f[1] + more
<1>. DEFINE g == Along(f, w, more)
<1>1. /\ \A n \in 1..15 : f[n] \in Nat
      /\ g \in [1..15 -> Nat] /\ \A n \in 1..15 : g[n] = IF n \in Path(w) THEN f[n] + more ELSE f[n]
  BY DEF Along, Counted
<1>2. ASSUME NEW n \in 1..7
      PROVE  g[n] = g[2 * n] + g[2 * n + 1]
  <2>1. f[n] = f[2 * n] + f[2 * n + 1] /\ n \in 1..15 /\ 2 * n \in 1..15 /\ 2 * n + 1 \in 1..15
    BY DEF Counted
  <2>2. CASE n \in Path(w)
    <3>1. PICK x \in {0, 1} : 2 * n + x \in Path(w) /\ 2 * n + (1 - x) \notin Path(w)
      BY <2>2, OneChild
    <3>2. CASE x = 0
      BY <1>1, <2>1, <2>2, <3>1, <3>2
    <3>3. CASE x = 1
      BY <1>1, <2>1, <2>2, <3>1, <3>3
    <3>. QED BY <3>1, <3>2, <3>3
  <2>3. CASE n \notin Path(w)
    BY <1>1, <2>1, <2>3, OneChild
  <2>. QED BY <2>2, <2>3
<1>3. /\ 1 \in Path(w)
      /\ \A v \in 0..7 : 8 + v \in Path(w) <=> v = w
  BY PathIs
<1>4. \A v \in 0..7 : g[8 + v] = IF v = w THEN f[8 + v] + more ELSE f[8 + v]
  BY <1>1, <1>3
<1>5. g[1] = f[1] + more
  BY <1>1, <1>3
<1>. QED BY <1>1, <1>2, <1>4, <1>5 DEF Counted

(* What is below a way that was just pushed out is out.                    *)
LEMMA OutAbove ==
  ASSUME NEW out, Counted(out), NEW w \in 0..7, out[8 + w] = 1
  PROVE  \A n \in 1..15 : n \in Path(w) => out[n] > 0
<1>1. PICK a \in {0, 1}, b \in {0, 1}, c \in {0, 1} :
        /\ w = 4 * a + 2 * b + c
        /\ (8 + w) \div 2 = 4 + 2 * a + b /\ (8 + w) \div 4 = 2 + a
  BY Halves
<1>2. Path(w) = {8 + 4 * a + 2 * b + c, 4 + 2 * a + b, 2 + a, 1}
  BY <1>1, PathIs
<1>3. \A n \in 1..15 : out[n] \in Nat
  BY DEF Counted
<1>4. PICK k \in 1..7 : k = 4 + 2 * a + b
  OBVIOUS
<1>5. PICK l \in 1..7 : l = 2 + a
  OBVIOUS
<1>6. out[k] > 0
  <2>1. out[k] = out[2 * k] + out[2 * k + 1] /\ 2 * k \in 1..15 /\ 2 * k + 1 \in 1..15
    BY DEF Counted
  <2>2. 8 + w = 2 * k \/ 8 + w = 2 * k + 1
    BY <1>1, <1>4
  <2>. QED BY <1>3, <2>1, <2>2
<1>7. out[l] > 0
  <2>1. out[l] = out[2 * l] + out[2 * l + 1] /\ 2 * l \in 1..15 /\ 2 * l + 1 \in 1..15
    BY DEF Counted
  <2>2. k = 2 * l \/ k = 2 * l + 1
    BY <1>4, <1>5
  <2>. QED BY <1>3, <1>6, <2>1, <2>2
<1>8. out[1] > 0
  <2>1. out[1] = out[2] + out[3] /\ 2 \in 1..15 /\ 3 \in 1..15
    BY DEF Counted
  <2>2. l = 2 \/ l = 3
    BY <1>5
  <2>. QED BY <1>3, <1>7, <2>1, <2>2
<1>. QED BY <1>1, <1>2, <1>4, <1>5, <1>6, <1>7, <1>8

LEMMA AccessTold ==
  ASSUME NEW acc, NEW out, NEW hits \in BOOLEAN, NEW later \in BOOLEAN, hits => later,
         TreeTold(acc, out, x4, x5, hits), NEW w \in 0..7,
         (w \in x4 /\ later) \/ \A n \in L1!Above(w) : L1!Below(n, w) = 2 * n + x5[n]
  PROVE  LET more == IF w \in x4 THEN 1 ELSE 0
         IN  TreeTold(Along(acc, w, 1), Along(out, w, more), x4 \ {w}, L1!Touch(w), later)
<1>. DEFINE bits == x5
            next == L1!Touch(w)
            acc2 == Along(acc, w, 1)
<1>0. PICK more \in {0, 1} : more = IF w \in x4 THEN 1 ELSE 0
  OBVIOUS
<1>. DEFINE out2 == Along(out, w, more)
<1>1. /\ Counted(acc) /\ Counted(out) /\ bits \in [1..7 -> {0, 1}]
      /\ \A v \in 0..7 : /\ out[8 + v] = IF v \in x4 THEN 0 ELSE 1
                         /\ acc[8 + v] = 0 <=> v \in x4
      /\ \A n \in 1..7 : Turns(Side(acc, bits, n), Other(acc, bits, n), Side(out, bits, n), Other(out, bits, n), hits)
  BY DEF TreeTold
<1>2. /\ Counted(acc2) /\ Counted(out2)
      /\ \A v \in 0..7 : acc2[8 + v] = IF v = w THEN acc[8 + v] + 1 ELSE acc[8 + v]
      /\ \A v \in 0..7 : out2[8 + v] = IF v = w THEN out[8 + v] + more ELSE out[8 + v]
  <2>1. ASSUME NEW f, Counted(f), NEW d \in {0, 1}
        PROVE  /\ Counted(Along(f, w, d))
               /\ \A v \in 0..7 : Along(f, w, d)[8 + v] = IF v = w THEN f[8 + v] + d ELSE f[8 + v]
    BY <2>1, AlongCounted
  <2>2. Counted(acc) /\ Counted(out) /\ 1 \in {0, 1}
    BY <1>1
  <2>3. /\ Counted(acc2)
        /\ \A v \in 0..7 : acc2[8 + v] = IF v = w THEN acc[8 + v] + 1 ELSE acc[8 + v]
    BY <2>1, <2>2
  <2>. QED BY <2>1, <2>2, <2>3
<1>3. \A v \in 0..7 : acc[8 + v] \in Nat /\ out[8 + v] \in Nat
  BY <1>1 DEF Counted
<1>4. \A v \in 0..7 : /\ out2[8 + v] = IF v \in x4 \ {w} THEN 0 ELSE 1
                      /\ acc2[8 + v] = 0 <=> v \in x4 \ {w}
  BY <1>0, <1>1, <1>2, <1>3
<1>5. /\ next \in [1..7 -> {0, 1}]
      /\ \A n \in 1..7 : n \notin Path(w) => next[n] = bits[n]
      /\ \A n \in 1..7, x \in {0, 1} : n \in Path(w) /\ L1!Below(n, w) = 2 * n + x => next[n] = 1 - x
  BY <1>1, TouchIs
<1>6. \A n \in 1..15 : n \in Path(w) => out2[n] > 0
  <2>1. out2[8 + w] = 1
    BY <1>4
  <2>. QED BY <1>2, <2>1, OutAbove
<1>7. ASSUME NEW n \in 1..7
      PROVE  Turns(Side(acc2, next, n), Other(acc2, next, n), Side(out2, next, n), Other(out2, next, n), later)
  <2>1. PICK b \in {0, 1} : b = bits[n]
    BY <1>1
  <2>2. 2 * n + b \in 1..15 /\ 2 * n + (1 - b) \in 1..15 /\ n \in 1..15
    BY <2>1
  <2>3. PICK ap \in Nat, ao \in Nat, ep \in Nat, eo \in Nat :
          /\ ap = acc[2 * n + b] /\ ao = acc[2 * n + (1 - b)]
          /\ ep = out[2 * n + b] /\ eo = out[2 * n + (1 - b)]
    BY <1>1, <2>2 DEF Counted
  <2>4. Turns(ap, ao, ep, eo, hits)
    BY <1>1, <2>1, <2>3 DEF Side, Other
  <2>5. /\ \A k \in 1..15 : acc2[k] = IF k \in Path(w) THEN acc[k] + 1 ELSE acc[k]
        /\ \A k \in 1..15 : out2[k] = IF k \in Path(w) THEN out[k] + more ELSE out[k]
    BY DEF Along
  <2>6. CASE n \notin Path(w)
    <3>1. 2 * n \notin Path(w) /\ 2 * n + 1 \notin Path(w)
      BY <2>6, OneChild
    <3>2. 2 * n + b \notin Path(w) /\ 2 * n + (1 - b) \notin Path(w)
      BY <2>1, <3>1
    <3>3. /\ ap = acc2[2 * n + b] /\ ao = acc2[2 * n + (1 - b)]
          /\ ep = out2[2 * n + b] /\ eo = out2[2 * n + (1 - b)] /\ next[n] = b
      BY <1>5, <2>1, <2>2, <2>3, <2>5, <2>6, <3>2
    <3>4. Turns(ap, ao, ep, eo, later)
      BY <2>4 DEF Turns
    <3>. QED BY <3>3, <3>4 DEF Side, Other
  <2>7. ASSUME n \in Path(w)
        PROVE  Turns(Side(acc2, next, n), Other(acc2, next, n), Side(out2, next, n), Other(out2, next, n), later)
    <3>1. PICK x \in {0, 1} : L1!Below(n, w) = 2 * n + x /\ 2 * n + x \in Path(w) /\ 2 * n + (1 - x) \notin Path(w)
      BY <2>7, OneChild
    <3>2. next[n] = 1 - x /\ 1 - (1 - x) = x
      BY <1>5, <2>7, <3>1
    <3>3. CASE x = b
      <4>1. /\ acc2[2 * n + x] = ap + 1 /\ acc2[2 * n + (1 - x)] = ao
            /\ out2[2 * n + x] = ep + more /\ out2[2 * n + (1 - x)] = eo
        BY <2>2, <2>3, <2>5, <3>1, <3>3
      <4>2. ep + more > 0
        BY <1>6, <2>2, <3>1, <3>3, <4>1
      <4>3. Turns(ao, ap + 1, eo, ep + more, later)
        BY <2>4, <4>2 DEF Turns
      <4>. QED BY <3>2, <4>1, <4>3 DEF Side, Other
    <3>4. CASE x # b
      <4>1. b = 1 - x /\ 1 - b = x
        BY <2>1, <3>1, <3>4
      <4>2. w \in x4 /\ later /\ more = 1
        <5>1. n \in L1!Above(w)
          BY <2>7, OneChild
        <5>2. L1!Below(n, w) # 2 * n + x5[n]
          BY <2>1, <3>1, <3>4
        <5>. QED BY <1>0, <5>1, <5>2
      <4>3. /\ acc2[2 * n + x] = ao + 1 /\ acc2[2 * n + (1 - x)] = ap
            /\ out2[2 * n + x] = eo + 1 /\ out2[2 * n + (1 - x)] = ep
        BY <2>2, <2>3, <2>5, <3>1, <4>1, <4>2
      <4>4. Turns(ap, ao + 1, ep, eo + 1, TRUE)
        BY <2>4, TurnHit
      <4>. QED BY <3>2, <4>2, <4>3, <4>4 DEF Side, Other
    <3>. QED BY <3>3, <3>4
  <2>. QED BY <2>6, <2>7
<1>8. TreeTold(acc2, out2, x4 \ {w}, next, later)
  BY <1>2, <1>4, <1>5, <1>7 DEF TreeTold
<1>. QED BY <1>0, <1>8

(* No side of a node is further ahead of the other than hits took it.      *)
LEMMA SidesNear ==
  ASSUME NEW acc, NEW out, NEW old, NEW bits, NEW hits \in BOOLEAN, TreeTold(acc, out, old, bits, hits), NEW n \in 1..7
  PROVE  /\ acc[n] \in Nat /\ acc[2 * n] \in Nat /\ acc[2 * n + 1] \in Nat
         /\ out[n] \in Nat /\ out[2 * n] \in Nat /\ out[2 * n + 1] \in Nat
         /\ acc[n] = acc[2 * n] + acc[2 * n + 1] /\ out[n] = out[2 * n] + out[2 * n + 1]
         /\ acc[2 * n] <= acc[2 * n + 1] + out[2 * n] /\ acc[2 * n + 1] <= acc[2 * n] + out[2 * n + 1]
         /\ ~hits => acc[2 * n] <= acc[2 * n + 1] + 1 /\ acc[2 * n + 1] <= acc[2 * n] + 1
<1>1. /\ acc[n] \in Nat /\ acc[2 * n] \in Nat /\ acc[2 * n + 1] \in Nat
      /\ out[n] \in Nat /\ out[2 * n] \in Nat /\ out[2 * n + 1] \in Nat
      /\ acc[n] = acc[2 * n] + acc[2 * n + 1] /\ out[n] = out[2 * n] + out[2 * n + 1]
  <2>1. n \in 1..15 /\ 2 * n \in 1..15 /\ 2 * n + 1 \in 1..15
    OBVIOUS
  <2>. QED BY <2>1 DEF TreeTold, Counted
<1>2. PICK b \in {0, 1} : b = bits[n]
  BY DEF TreeTold
<1>3. Turns(acc[2 * n + b], acc[2 * n + (1 - b)], out[2 * n + b], out[2 * n + (1 - b)], hits)
  BY <1>2 DEF TreeTold, Side, Other
<1>4. CASE b = 0
  <2>1. 2 * n + b = 2 * n /\ 2 * n + (1 - b) = 2 * n + 1
    BY <1>4
  <2>2. Turns(acc[2 * n], acc[2 * n + 1], out[2 * n], out[2 * n + 1], hits)
    BY <1>3, <2>1
  <2>. QED BY <1>1, <2>2 DEF Turns
<1>5. CASE b = 1
  <2>1. 2 * n + b = 2 * n + 1 /\ 2 * n + (1 - b) = 2 * n
    BY <1>5
  <2>2. Turns(acc[2 * n + 1], acc[2 * n], out[2 * n + 1], out[2 * n], hits)
    BY <1>3, <2>1
  <2>. QED BY <1>1, <2>2 DEF Turns
<1>. QED BY <1>2, <1>4, <1>5

(* Two ways with one node above them.                                      *)
LEMMA PairLeft ==
  ASSUME NEW acc, NEW out, NEW old, NEW bits, NEW hits \in BOOLEAN, TreeTold(acc, out, old, bits, hits), NEW n \in 4..7
  PROVE  /\ acc[n] \in Nat /\ out[n] \in Nat /\ out[n] <= 2
         /\ 2 * n - 8 \in old \/ 2 * n - 7 \in old => acc[n] <= 1
         /\ 2 * n - 8 \in old /\ 2 * n - 7 \in old => acc[n] = 0
<1>1. /\ acc[n] \in Nat /\ acc[2 * n] \in Nat /\ acc[2 * n + 1] \in Nat
      /\ out[n] \in Nat /\ out[2 * n] \in Nat /\ out[2 * n + 1] \in Nat
      /\ acc[n] = acc[2 * n] + acc[2 * n + 1] /\ out[n] = out[2 * n] + out[2 * n + 1]
      /\ acc[2 * n] <= acc[2 * n + 1] + out[2 * n] /\ acc[2 * n + 1] <= acc[2 * n] + out[2 * n + 1]
  BY SidesNear
<1>2. PICK v \in 0..7 : v = 2 * n - 8
  OBVIOUS
<1>3. PICK w \in 0..7 : w = 2 * n - 7
  OBVIOUS
<1>4. 2 * n = 8 + v /\ 2 * n + 1 = 8 + w
  BY <1>2, <1>3
<1>5. /\ out[2 * n] = IF v \in old THEN 0 ELSE 1
      /\ out[2 * n + 1] = IF w \in old THEN 0 ELSE 1
      /\ acc[2 * n] = 0 <=> v \in old
      /\ acc[2 * n + 1] = 0 <=> w \in old
  BY <1>4 DEF TreeTold
<1>. QED BY <1>1, <1>2, <1>3, <1>5

(* Half of the ways.                                                       *)
LEMMA HalfLeft ==
  ASSUME NEW acc, NEW out, NEW old, NEW bits, NEW hits \in BOOLEAN, TreeTold(acc, out, old, bits, hits), NEW n \in 2..3,
         NEW half, half = {4 * n - 8, 4 * n - 7, 4 * n - 6, 4 * n - 5}
  PROVE  /\ acc[n] \in Nat /\ out[n] \in Nat /\ out[n] <= 4
         /\ \A v \in half : v \in old => acc[n] <= 4 /\ (~hits => acc[n] <= 3)
         /\ \A v, w \in half : v # w /\ v \in old /\ w \in old => acc[n] <= 2
<1>1. /\ acc[n] \in Nat /\ acc[2 * n] \in Nat /\ acc[2 * n + 1] \in Nat
      /\ out[n] \in Nat /\ out[2 * n] \in Nat /\ out[2 * n + 1] \in Nat
      /\ acc[n] = acc[2 * n] + acc[2 * n + 1] /\ out[n] = out[2 * n] + out[2 * n + 1]
      /\ acc[2 * n] <= acc[2 * n + 1] + out[2 * n] /\ acc[2 * n + 1] <= acc[2 * n] + out[2 * n + 1]
      /\ ~hits => acc[2 * n] <= acc[2 * n + 1] + 1 /\ acc[2 * n + 1] <= acc[2 * n] + 1
  BY SidesNear
<1>2. PICK k \in 4..7 : k = 2 * n
  OBVIOUS
<1>3. PICK l \in 4..7 : l = 2 * n + 1
  OBVIOUS
<1>4. /\ out[k] <= 2
      /\ 2 * k - 8 \in old \/ 2 * k - 7 \in old => acc[k] <= 1
      /\ 2 * k - 8 \in old /\ 2 * k - 7 \in old => acc[k] = 0
  BY PairLeft
<1>5. /\ out[l] <= 2
      /\ 2 * l - 8 \in old \/ 2 * l - 7 \in old => acc[l] <= 1
      /\ 2 * l - 8 \in old /\ 2 * l - 7 \in old => acc[l] = 0
  BY PairLeft
<1>6. /\ 2 * k - 8 = 4 * n - 8 /\ 2 * k - 7 = 4 * n - 7
      /\ 2 * l - 8 = 4 * n - 6 /\ 2 * l - 7 = 4 * n - 5
  BY <1>2, <1>3
<1>7. ASSUME NEW v \in half, v \in old
      PROVE  acc[k] <= 1 \/ acc[l] <= 1
  BY <1>4, <1>5, <1>6, <1>7
<1>8. ASSUME NEW v \in half, NEW w \in half, v # w, v \in old, w \in old
      PROVE  acc[k] = 0 \/ acc[l] = 0 \/ (acc[k] <= 1 /\ acc[l] <= 1)
  <2>1. PICK a \in 0..7, b \in 0..7, c \in 0..7, d \in 0..7 : a = 2 * k - 8 /\ b = 2 * k - 7 /\ c = 2 * l - 8 /\ d = 2 * l - 7
    OBVIOUS
  <2>2. v \in {a, b, c, d} /\ w \in {a, b, c, d}
    BY <1>6, <1>8, <2>1
  <2>3. CASE v \in {a, b} /\ w \in {a, b}
    <3>1. a \in old /\ b \in old
      BY <1>8, <2>3
    <3>. QED BY <1>4, <2>1, <3>1
  <2>4. CASE v \in {c, d} /\ w \in {c, d}
    <3>1. c \in old /\ d \in old
      BY <1>8, <2>4
    <3>. QED BY <1>5, <2>1, <3>1
  <2>5. CASE (v \in {a, b} /\ w \in {c, d}) \/ (v \in {c, d} /\ w \in {a, b})
    BY <1>4, <1>5, <1>8, <2>1, <2>5
  <2>. QED BY <2>2, <2>3, <2>4, <2>5
<1>9. /\ acc[k] \in Nat /\ acc[l] \in Nat /\ out[k] \in Nat /\ out[l] \in Nat
      /\ acc[n] = acc[k] + acc[l] /\ out[n] = out[k] + out[l]
      /\ acc[k] <= acc[l] + out[k] /\ acc[l] <= acc[k] + out[l]
      /\ ~hits => acc[k] <= acc[l] + 1 /\ acc[l] <= acc[k] + 1
  BY <1>1, <1>2, <1>3
<1>10. ASSUME NEW v \in half, v \in old
       PROVE  acc[n] <= 4 /\ (~hits => acc[n] <= 3)
  BY <1>4, <1>5, <1>7, <1>9, <1>10
<1>11. ASSUME NEW v \in half, NEW w \in half, v # w, v \in old, w \in old
       PROVE  acc[n] <= 2
  <2>1. acc[k] = 0 \/ acc[l] = 0 \/ (acc[k] <= 1 /\ acc[l] <= 1)
    BY <1>8, <1>11
  <2>. QED BY <1>4, <1>5, <1>9, <2>1
<1>. QED BY <1>1, <1>4, <1>5, <1>9, <1>10, <1>11

(* Twelve lines leave at most one way, and none without a hit.             *)
LEMMA FewLeft ==
  ASSUME NEW acc, NEW out, NEW old \in SUBSET (0..7), NEW bits, NEW hits \in BOOLEAN,
         TreeTold(acc, out, old, bits, hits), acc[1] = 12
  PROVE  L1!Cardinality(old) <= IF hits THEN 1 ELSE 0
<1>. DEFINE low  == {0, 1, 2, 3}
            high == {4, 5, 6, 7}
<1>1. /\ acc[2] \in Nat /\ out[2] \in Nat /\ out[2] <= 4
      /\ \A v \in low : v \in old => acc[2] <= 4 /\ (~hits => acc[2] <= 3)
      /\ \A v, w \in low : v # w /\ v \in old /\ w \in old => acc[2] <= 2
  <2>1. low = {4 * 2 - 8, 4 * 2 - 7, 4 * 2 - 6, 4 * 2 - 5} /\ 2 \in 2..3
    OBVIOUS
  <2>. HIDE DEF low
  <2>. QED BY <2>1, HalfLeft
<1>2. /\ acc[3] \in Nat /\ out[3] \in Nat /\ out[3] <= 4
      /\ \A v \in high : v \in old => acc[3] <= 4 /\ (~hits => acc[3] <= 3)
      /\ \A v, w \in high : v # w /\ v \in old /\ w \in old => acc[3] <= 2
  <2>1. high = {4 * 3 - 8, 4 * 3 - 7, 4 * 3 - 6, 4 * 3 - 5} /\ 3 \in 2..3
    OBVIOUS
  <2>. HIDE DEF high
  <2>. QED BY <2>1, HalfLeft
<1>3. /\ 12 = acc[2] + acc[3]
      /\ acc[2] <= acc[3] + out[2] /\ acc[3] <= acc[2] + out[3]
      /\ ~hits => acc[2] <= acc[3] + 1 /\ acc[3] <= acc[2] + 1
  <2>1. /\ acc[1] = acc[2 * 1] + acc[2 * 1 + 1]
        /\ acc[2 * 1] <= acc[2 * 1 + 1] + out[2 * 1] /\ acc[2 * 1 + 1] <= acc[2 * 1] + out[2 * 1 + 1]
        /\ ~hits => acc[2 * 1] <= acc[2 * 1 + 1] + 1 /\ acc[2 * 1 + 1] <= acc[2 * 1] + 1
    BY SidesNear, 1 \in 1..7
  <2>2. 2 * 1 = 2 /\ 2 * 1 + 1 = 3
    OBVIOUS
  <2>. QED BY <2>1, <2>2
<1>4. \A v \in old : v \in low \/ v \in high
  OBVIOUS
<1>5. ASSUME NEW v \in old
      PROVE  hits
  BY <1>1, <1>2, <1>3, <1>4
<1>6. ASSUME NEW v \in old, NEW w \in old, v # w
      PROVE  FALSE
  <2>1. CASE v \in low /\ w \in low
    BY <1>1, <1>2, <1>3, <1>6, <2>1
  <2>2. CASE v \in high /\ w \in high
    BY <1>1, <1>2, <1>3, <1>6, <2>2
  <2>3. CASE (v \in low /\ w \in high) \/ (v \in high /\ w \in low)
    BY <1>1, <1>2, <1>3, <1>6, <2>3
  <2>. QED BY <1>4, <2>1, <2>2, <2>3
<1>7. L1!Cardinality(old) = Cardinality(old)
  BY DEF L1!Cardinality, Cardinality
<1>8. CASE old = {}
  <2>1. Cardinality(old) = 0
    BY <1>8, FS_EmptySet
  <2>. QED BY <1>7, <2>1
<1>9. CASE old # {}
  <2>1. PICK v \in old : old = {v}
    BY <1>6, <1>9
  <2>2. Cardinality(old) = 1
    BY <2>1, FS_Singleton
  <2>. QED BY <1>5, <1>7, <2>1, <2>2
<1>. QED BY <1>8, <1>9

(* Before and after the loop all ways may hold data; while interrupts are  *)
(* off the loop alone moves the tree.                                      *)
Told(n) == \E acc, out : TreeTold(acc, out, x4, x5, x8) /\ acc[1] = n
FlushInv ==
  /\ x5 \in [1..7 -> {0, 1}] /\ x8 \in BOOLEAN /\ x4 \subseteq 0..7
  /\ x1 \in {"idle", "mfmsr", "hid0", "dcbz", "flash", "restore"}
  /\ x1 \in {"hid0", "dcbz", "flash", "restore"} => x2 = FALSE
  /\ x1 \notin {"dcbz", "flash"} => x4 = 0..7 /\ x8 = FALSE
  /\ x1 = "dcbz" => x3 = TRUE /\ x6 \in 1..12 /\ Told(x6 - 1)
  /\ x1 = "flash" => Told(12)

LEMMA FlushInit == ASSUME L1!Init PROVE FlushInv
<1>1. L1!Ways = 0..7 /\ L1!Nodes = 1..7
  BY DEF L1!Ways, L1!Nodes, L1!WAYS
<1>. QED BY <1>1 DEF L1!Init, FlushInv

LEMMA FlushBegins ==
  ASSUME FlushInv, L1!SetDCFA
  PROVE  FlushInv'
<1>1. /\ x1 = "hid0" /\ x1' = "dcbz" /\ x3' = TRUE /\ x6' = 1 /\ UNCHANGED <<x2, x4, x5, x7, x8>>
      /\ x4 = 0..7 /\ x8 = FALSE /\ x2 = FALSE /\ x5 \in [1..7 -> {0, 1}]
  BY DEF L1!SetDCFA, FlushInv
<1>2. PICK zero : zero = [n \in 1..15 |-> 0]
  OBVIOUS
<1>3. Counted(zero)
  BY <1>2 DEF Counted
<1>4. ASSUME NEW n \in 1..7
      PROVE  Turns(Side(zero, x5', n), Other(zero, x5', n), Side(zero, x5', n), Other(zero, x5', n), x8')
  <2>1. PICK b \in {0, 1} : b = x5'[n]
    BY <1>1
  <2>2. zero[2 * n + b] = 0 /\ zero[2 * n + (1 - b)] = 0
    BY <1>2
  <2>. QED BY <2>1, <2>2 DEF Turns, Side, Other
<1>5. TreeTold(zero, zero, x4', x5', x8')
  BY <1>1, <1>2, <1>3, <1>4 DEF TreeTold
<1>6. zero[1] = 0 /\ x6' - 1 = 0
  BY <1>1, <1>2
<1>7. Told(x6 - 1)'
  BY <1>5, <1>6 DEF Told
<1>. QED BY <1>1, <1>7 DEF FlushInv

LEMMA FlushGoesOn ==
  ASSUME FlushInv, L1!dcbz
  PROVE  FlushInv'
<1>1. /\ x5 \in [1..7 -> {0, 1}] /\ x8 \in BOOLEAN /\ x4 \subseteq 0..7
      /\ x1 = "dcbz" /\ x2 = FALSE /\ x3 = TRUE /\ x6 \in 1..12 /\ Told(x6 - 1)
  BY DEF L1!dcbz, FlushInv
<1>a. PICK hit \in BOOLEAN : \E w \in IF hit THEN x4 ELSE L1!Replaced :
        x4' = x4 \ {w} /\ x5' = L1!Touch(w) /\ x8' = (x8 \/ hit)
  BY DEF L1!dcbz
<1>2. PICK w \in IF hit THEN x4 ELSE L1!Replaced :
        x4' = x4 \ {w} /\ x5' = L1!Touch(w) /\ x8' = (x8 \/ hit)
  BY <1>a
<1>3. (w \in x4 /\ hit) \/ w = L1!Victim
  BY <1>1, <1>2 DEF L1!Replaced
<1>4. w \in 0..7
  BY <1>1, <1>3, VictimIs
<1>5. (w \in x4 /\ x8') \/ \A n \in L1!Above(w) : L1!Below(n, w) = 2 * n + x5[n]
  BY <1>1, <1>2, <1>3, VictimIs
<1>6. x8' \in BOOLEAN /\ (x8 => x8')
  BY <1>1, <1>2
<1>7. PICK acc, out : TreeTold(acc, out, x4, x5, x8) /\ acc[1] = x6 - 1
  BY <1>1 DEF Told
<1>8. PICK acc2, out2 : acc2 = Along(acc, w, 1) /\ TreeTold(acc2, out2, x4', x5', x8')
  BY <1>1, <1>2, <1>4, <1>5, <1>6, <1>7, AccessTold
<1>9. acc2[1] = acc[1] + 1
  BY <1>4, <1>7, <1>8, AlongCounted DEF TreeTold
<1>10. acc2[1] = x6
  BY <1>1, <1>7, <1>9
<1>11. x6' = x6 + 1 /\ x1' = (IF x6 < 12 THEN "dcbz" ELSE "flash") /\ UNCHANGED <<x2, x3, x7>>
  BY DEF L1!dcbz, L1!Lines, L1!WAYS
<1>12. x5' \in [1..7 -> {0, 1}]
  BY <1>8 DEF TreeTold
<1>13. CASE x6 < 12
  <2>1. x6' - 1 = x6 /\ x6' \in 1..12
    BY <1>1, <1>11, <1>13
  <2>2. Told(x6 - 1)'
    BY <1>8, <1>10, <2>1 DEF Told
  <2>. QED BY <1>1, <1>2, <1>6, <1>11, <1>12, <1>13, <2>1, <2>2 DEF FlushInv
<1>14. CASE ~(x6 < 12)
  <2>1. acc2[1] = 12
    BY <1>1, <1>10, <1>14
  <2>2. Told(12)'
    BY <1>8, <2>1 DEF Told
  <2>. QED BY <1>1, <1>2, <1>6, <1>11, <1>12, <1>14, <2>2 DEF FlushInv
<1>. QED BY <1>13, <1>14

LEMMA OthersOwn ==
  ASSUME FlushInv, L1!Others
  PROVE  FlushInv'
<1>1. /\ x1 \in {"idle", "mfmsr"} /\ x4 = 0..7 /\ x8 = FALSE /\ x5 \in [1..7 -> {0, 1}]
      /\ UNCHANGED <<x1, x2, x3, x6, x7, x8>>
  BY DEF L1!Others, FlushInv
<1>2. PICK w \in x4 \cup {L1!Victim} : x4' = x4 \cup {w} /\ x5' = L1!Touch(w)
  BY DEF L1!Others
<1>3. w \in 0..7
  BY <1>1, <1>2, VictimIs
<1>4. x4' = 0..7 /\ x5' \in [1..7 -> {0, 1}]
  BY <1>1, <1>2, <1>3, TouchIs
<1>. QED BY <1>1, <1>4 DEF FlushInv

LEMMA FlushStep == ASSUME FlushInv, [L1!Next]_L1!vars PROVE FlushInv'
<1>1. CASE L1!procfile_write \/ L1!mtmsr
  BY <1>1 DEF L1!procfile_write, L1!mtmsr, FlushInv, Told
<1>2. CASE L1!FlashInvalidate
  <2>1. L1!Ways = 0..7
    BY DEF L1!Ways, L1!WAYS
  <2>. QED BY <1>2, <2>1 DEF L1!FlashInvalidate, FlushInv
<1>3. CASE L1!Restore
  BY <1>3 DEF L1!Restore, FlushInv
<1>4. CASE UNCHANGED L1!vars
  BY <1>4 DEF L1!vars, FlushInv, Told
<1>. QED BY <1>1, <1>2, <1>3, <1>4, FlushBegins, FlushGoesOn, OthersOwn DEF L1!Next

LEMMA NothingIsLost == ASSUME FlushInv PROVE L1!NothingLost
<1> SUFFICES ASSUME x1 = "flash" PROVE L1!Cardinality(x4) <= IF x8 THEN 1 ELSE 0
  BY DEF L1!NothingLost
<1>1. PICK acc, out : TreeTold(acc, out, x4, x5, x8) /\ acc[1] = 12
  BY DEF FlushInv, Told
<1>. QED BY <1>1, FewLeft DEF FlushInv

(* __build_sched_domains(), cpu_attach_domain(), init_numa_sched_groups_   *)
(* power(): for any machine, part and order of repartitions the domains a  *)
(* processor has nest, their groups divide them and have the power of      *)
(* their cores, and unless the nodes of the part disagree or are out of    *)
(* reach the last one is the part.  flush_and_invalidate_L1_data_cache():  *)
(* whatever the tree and the buffer's own lines, twelve lines leave at     *)
(* most one way of old data, and none without a hit.                       *)
THEOREM LoopsCompleteHolds == KernelSpec => []LoopsComplete
<1>. DEFINE I == /\ part = "Domains" => (DO!DomainsInv /\ DO!BuiltKnown) \/ Broken
                 /\ part = "L1Invalidator" => FlushInv
<1>1. KernelInit => I
  BY PartStarts, DomainsInit, BuiltInit, FlushInit
<1>2. I /\ [KernelNext]_<<vars, part, slots>> => I'
  BY PartMoves, DomainsStep, BuiltStep, BrokenStays, FlushStep
<1>3. I => LoopsComplete
  BY SoundWhenBuilt, NothingIsLost DEF LoopsComplete, Broken
<1>. QED BY <1>1, <1>2, <1>3, PTL DEF KernelSpec
=============================================================================
