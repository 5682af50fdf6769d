-------------------------- MODULE PolicyInvariant --------------------------
(***************************************************************************)
(* The inductive invariant of PolicyManager, for any operator slots,       *)
(* policies, requests and ticks; what the document operators return; and   *)
(* the steps that only write sets, end a command or come from outside.     *)
(* PolicyManagerProofs has the steps of Create, Delete and the install,    *)
(* and the theorems.                                                       *)
(*                                                                         *)
(* None of the properties of PolicyManager is inductive.  They hold        *)
(* because the flock orders the writers of the registry, so that what a    *)
(* holder rendered when it loaded still fits the stores when it writes     *)
(* them, unless the install step, which takes no lock, came between        *)
(* (undercut).                                                             *)
(***************************************************************************)
EXTENDS PolicyManager, TLAPS

IsTable(d) == d = NoDoc \/ WellFormed(d)

PCs == {"idle", "load", "apply", "entry", "file", "service", "write", "render", "restart"}
Locked == {"apply", "entry", "file", "service", "write"}

\* Types, to the extent that the proof needs them.
TypeOK ==
    /\ IsTable(kernel) /\ IsTable(artifact)
    /\ registry \in Registries
    /\ lock \in Procs \cup {Free}
    /\ pc \in [Procs -> PCs]
    /\ req \in [Ops -> Commands]
    /\ pod \in [Procs -> Pods \cup {NoPod}]
    /\ doc \in [Procs -> {NoDoc} \cup Documents]
    /\ \A p \in Procs : IsTable(doc[p])
    /\ script \in [Procs -> Seq(Writes)]
    /\ torn \in BOOLEAN /\ lag \in BOOLEAN /\ undercut \in BOOLEAN

\* A process inside its critical section holds the flock; the history variables
\* remember what was left unfinished.
LockInv ==
    /\ \A p \in Procs : pc[p] \in Locked => lock = p
    /\ \A p \in Ops : pc[p] \in {"entry", "file"} => torn
    /\ undercut => torn

\* The three stores agree.
StoresInv ==
    ~torn =>
      /\ kernel # NoDoc => ConfOf(kernel) = registry
      /\ artifact # NoDoc => ConfOf(artifact) = registry
      /\ kernel # NoDoc /\ artifact # NoDoc => kernel.pod = artifact.pod
      /\ ~lag => /\ artifact = NoDoc => DOMAIN registry = {}
                 /\ kernel # NoDoc => artifact = kernel

\* What Create has rendered fits the registry it is going to write.
CreateInv(p) ==
    req[p].verb = "create" =>
      /\ pc[p] \in {"apply", "entry", "file"} =>
            doc[p] # NoDoc /\ req[p].name \in DOMAIN doc[p].pol
      /\ pc[p] \in {"apply", "entry"} =>
            ConfOf(doc[p]) = Upsert(registry, req[p].name, doc[p].pol[req[p].name].conf)
      /\ pc[p] = "file" => ConfOf(doc[p]) = registry
      /\ pc[p] \in {"entry", "file"} /\ ~undercut => kernel \in {doc[p], NoDoc}
      /\ pc[p] = "apply" => doc[p].pod \in {NoPod, pod[p]}

\* What Delete has rendered fits the registry it is going to write.
DeleteInv(p) ==
    req[p].verb = "delete" =>
      /\ pc[p] \in {"apply", "file", "entry"} =>
            /\ doc[p] # NoDoc => ConfOf(doc[p]) = Without(registry, req[p].name)
            /\ doc[p] = NoDoc => DOMAIN registry \subseteq {req[p].name}
      /\ pc[p] \in {"file", "entry"} /\ ~undercut => kernel \in {doc[p], NoDoc}
      /\ pc[p] = "entry" /\ ~undercut => /\ artifact \in {doc[p], NoDoc}
                                         /\ ~lag => artifact = doc[p]
      /\ pc[p] = "apply" /\ ~torn /\ kernel # NoDoc /\ doc[p] # NoDoc =>
            doc[p].pod \in {NoPod, kernel.pod}

\* The document about to be applied has the live members of every sibling.
SiblingsInv(p) ==
    pc[p] = "apply" /\ ~undercut /\ kernel # NoDoc =>
      \A n \in DOMAIN registry \ {req[p].name} : \A f \in SetsOf[registry[n]] :
        ElementsIn(doc[p], n, f) = ElementsIn(kernel, n, f)

OpsInv == \A p \in Ops : CreateInv(p) /\ DeleteInv(p) /\ SiblingsInv(p)

\* The inductive invariant.
IInv == TypeOK /\ LockInv /\ StoresInv /\ OpsInv

-----------------------------------------------------------------------------
(* Documents. *)

\* The elements of a rendered policy's sets, by family.
Members == UNION {[F -> SUBSET Elems] : F \in SUBSET Fams}
Policies == [conf: Confs, mem: Members]

\* What Render returns: a well-formed document with the configurations and the
\* members it was given.
LEMMA RenderReturns ==
    ASSUME NEW reg \in Registries, DOMAIN reg # {}, NEW mem,
           \A n \in DOMAIN reg : mem[n] \in [SetsOf[reg[n]] -> SUBSET Elems],
           NEW c \in Pods \cup {NoPod}, Renders(reg, c)
    PROVE  /\ WellFormed(Render(reg, mem, c))
           /\ Render(reg, mem, c) # NoDoc
           /\ ConfOf(Render(reg, mem, c)) = reg
           /\ DOMAIN Render(reg, mem, c).pol = DOMAIN reg
           /\ \A n \in DOMAIN reg : Render(reg, mem, c).pol[n] = [conf |-> reg[n], mem |-> mem[n]]
           /\ Render(reg, mem, c).pod = IF NeedsPod(reg) THEN c ELSE NoPod
<1> DEFINE d == Render(reg, mem, c)
           pol == [n \in DOMAIN reg |-> [conf |-> reg[n], mem |-> mem[n]]]
<1>1. PICK D \in SUBSET Names : reg \in [D -> Confs]
  BY DEF Registries
<1>2. \A n \in D : pol[n] \in Policies
  <2> TAKE n \in D
  <2>1. reg[n] \in Confs /\ SetsOf[reg[n]] \in SUBSET Fams
    BY <1>1, PolicyAssumption
  <2>2. mem[n] \in Members
    BY <1>1, <2>1 DEF Members
  <2> QED
    BY <1>1, <2>1, <2>2 DEF Policies
<1>3. pol \in [D -> Policies]
  BY <1>1, <1>2
<1>4. d = [pol |-> pol, pod |-> IF NeedsPod(reg) THEN c ELSE NoPod]
  BY DEF Render
<1>5. d \in Documents
  <2>1. pol \in UNION {[E -> Policies] : E \in SUBSET Names}
    BY <1>3, Zenon
  <2> QED
    BY <1>4, <2>1 DEF Documents, Policies, Members
<1>6. d.pol = pol /\ DOMAIN pol = DOMAIN reg /\ d.pod = IF NeedsPod(reg) THEN c ELSE NoPod
  BY <1>4
<1>7. \A n \in DOMAIN reg : pol[n].conf = reg[n] /\ pol[n].mem = mem[n]
  OBVIOUS
<1>8. WellFormed(d)
  <2>1. \A n \in DOMAIN reg : DOMAIN mem[n] = SetsOf[reg[n]]
    OBVIOUS
  <2>2. d.pod # NoPod <=> \E n \in DOMAIN reg : reg[n] \in PodScoped
    BY <1>6 DEF NeedsPod, Renders
  <2>3. /\ \A n \in DOMAIN d.pol : DOMAIN d.pol[n].mem = SetsOf[d.pol[n].conf]
        /\ d.pod # NoPod <=> \E n \in DOMAIN d.pol : d.pol[n].conf \in PodScoped
        /\ DOMAIN d.pol # {}
    <3> HIDE DEF d, pol
    <3> QED
      BY <1>6, <1>7, <2>1, <2>2
  <2> HIDE DEF d
  <2> QED
    BY <1>5, <2>3 DEF WellFormed
<1>9. d # NoDoc
  BY <1>5, PolicyAssumption
<1>10. ConfOf(d) = reg
  <2>1. ConfOf(d) = [n \in DOMAIN reg |-> reg[n]]
    BY <1>6, <1>7, <1>9 DEF ConfOf
  <2> QED
    BY <2>1, <1>1
<1> QED
  BY <1>6, <1>8, <1>9, <1>10

\* A well-formed document is the rendering of its own configurations, members
\* and pod CIDR.
LEMMA WellFormedShape ==
    ASSUME NEW d, WellFormed(d)
    PROVE  /\ d # NoDoc
           /\ d = [pol |-> d.pol, pod |-> d.pod]
           /\ d.pol = [n \in DOMAIN d.pol |-> d.pol[n]]
           /\ DOMAIN d.pol \subseteq Names /\ DOMAIN d.pol # {}
           /\ d.pod \in Pods \cup {NoPod}
           /\ ConfOf(d) \in Registries /\ DOMAIN ConfOf(d) = DOMAIN d.pol
           /\ \A n \in DOMAIN d.pol :
                /\ d.pol[n] = [conf |-> d.pol[n].conf, mem |-> d.pol[n].mem]
                /\ ConfOf(d)[n] = d.pol[n].conf
                /\ d.pol[n].conf \in Confs
                /\ d.pol[n].mem \in [SetsOf[d.pol[n].conf] -> SUBSET Elems]
           /\ d.pod # NoPod <=> NeedsPod(ConfOf(d))
<1>1. d \in Documents /\ d # NoDoc
  BY PolicyAssumption DEF WellFormed
<1>2. d = [pol |-> d.pol, pod |-> d.pod] /\ d.pod \in Pods \cup {NoPod}
  BY <1>1 DEF Documents
<1>3. PICK D \in SUBSET Names : d.pol \in [D -> Policies]
  BY <1>1 DEF Documents, Policies, Members
<1>4. ConfOf(d) = [n \in D |-> d.pol[n].conf]
  BY <1>1, <1>3 DEF ConfOf
<1>5. \A n \in D : d.pol[n] \in Policies
  BY <1>3
<1>6. ConfOf(d) \in [D -> Confs]
  BY <1>4, <1>5 DEF Policies
<1>7. \A n \in D : /\ d.pol[n] = [conf |-> d.pol[n].conf, mem |-> d.pol[n].mem]
                    /\ d.pol[n].conf \in Confs /\ d.pol[n].mem \in Members
  BY <1>5 DEF Policies
<1>8. \A n \in D : d.pol[n].mem \in [SetsOf[d.pol[n].conf] -> SUBSET Elems]
  <2> TAKE n \in D
  <2>1. PICK F \in SUBSET Fams : d.pol[n].mem \in [F -> SUBSET Elems]
    BY <1>7, Zenon DEF Members
  <2>2. F = SetsOf[d.pol[n].conf]
    BY <1>3, <2>1 DEF WellFormed
  <2> QED
    BY <2>1, <2>2
<1>9. d.pod # NoPod <=> NeedsPod(ConfOf(d))
  BY <1>3, <1>4 DEF WellFormed, NeedsPod
<1>10. ConfOf(d) \in Registries
  BY <1>6 DEF Registries
<1>11. DOMAIN d.pol # {}
  BY DEF WellFormed
<1> QED
  BY <1>1, <1>2, <1>3, <1>4, <1>6, <1>7, <1>8, <1>9, <1>10, <1>11, Zenon

\* Listing yields elements.
LEMMA ElementsListed ==
    ASSUME NEW d, IsTable(d), NEW n, NEW f
    PROVE  ElementsIn(d, n, f) \in SUBSET Elems
<1>1. CASE HasSet(d, n, f)
  <2>1. WellFormed(d) /\ n \in DOMAIN d.pol /\ f \in DOMAIN d.pol[n].mem
    BY <1>1 DEF HasSet, IsTable
  <2>2. d.pol[n].mem \in [SetsOf[d.pol[n].conf] -> SUBSET Elems]
    BY <2>1, WellFormedShape, Zenon
  <2> QED
    BY <1>1, <2>1, <2>2 DEF ElementsIn
<1>2. CASE ~HasSet(d, n, f)
  BY <1>2 DEF ElementsIn
<1> QED
  BY <1>1, <1>2

\* The membership that PersistMembership, Delete and the install step render.
LEMMA MembershipTyped ==
    ASSUME IsTable(kernel), NEW reg \in Registries, NEW n \in DOMAIN reg
    PROVE  /\ SnapshotMembership(reg)[n] \in [SetsOf[reg[n]] -> SUBSET Elems]
           /\ NoMembership(reg)[n] \in [SetsOf[reg[n]] -> SUBSET Elems]
           /\ \A f \in SetsOf[reg[n]] :
                 SnapshotMembership(reg)[n][f] = ElementsIn(kernel, n, f)
<1>1. \A f \in SetsOf[reg[n]] : ListElements(n, f) \in SUBSET Elems
  BY ElementsListed DEF ListElements
<1> QED
  BY <1>1 DEF SnapshotMembership, NoMembership, ListElements

\* The membership that Create renders: the siblings have their live elements.
LEMMA DesiredTyped ==
    ASSUME IsTable(kernel), registry \in Registries, NEW n \in Names, NEW c \in Confs,
           NEW cidrs \in [CidrFams -> SUBSET Elems],
           NEW m \in DOMAIN Upsert(registry, n, c)
    PROVE  /\ DesiredMembership(n, c, cidrs)[m]
                 \in [SetsOf[Upsert(registry, n, c)[m]] -> SUBSET Elems]
           /\ m # n => /\ m \in DOMAIN registry
                       /\ Upsert(registry, n, c)[m] = registry[m]
                       /\ \A f \in SetsOf[registry[m]] :
                            DesiredMembership(n, c, cidrs)[m][f] = ElementsIn(kernel, m, f)
<1> DEFINE kept(f) == n \in DOMAIN registry /\ f \in SetsOf[registry[n]]
           target == [f \in SetsOf[c] |-> IF f \in CidrFams THEN cidrs[f]
                                           ELSE IF kept(f) THEN ListElements(n, f) ELSE {}]
<1>1. /\ DOMAIN Upsert(registry, n, c) = DOMAIN registry \cup {n}
      /\ Upsert(registry, n, c)[m] = IF m = n THEN c ELSE registry[m]
  BY DEF Upsert
<1>2. DesiredMembership(n, c, cidrs)[m] = IF m = n THEN target ELSE SnapshotMembership(registry)[m]
  BY <1>1 DEF DesiredMembership
<1>3. CASE m = n
  <2>1. \A f \in SetsOf[c] : ListElements(n, f) \in SUBSET Elems
    BY ElementsListed DEF ListElements
  <2>2. target \in [SetsOf[c] -> SUBSET Elems]
    BY <2>1
  <2> QED
    BY <1>1, <1>2, <1>3, <2>2
<1>4. CASE m # n
  <2>1. m \in DOMAIN registry
    BY <1>1, <1>4
  <2> QED
    BY <1>1, <1>2, <1>4, <2>1, MembershipTyped
<1> QED
  BY <1>3, <1>4

\* Upsert and Without keep the registry a function from names to configurations,
\* and only one such function is empty.
LEMMA RegistryEdits ==
    ASSUME NEW reg \in Registries
    PROVE  /\ \A n \in Names, c \in Confs :
                /\ Upsert(reg, n, c) \in Registries
                /\ DOMAIN Upsert(reg, n, c) = DOMAIN reg \cup {n}
                /\ Upsert(reg, n, c)[n] = c
           /\ \A n : /\ Without(reg, n) \in Registries
                     /\ DOMAIN Without(reg, n) = DOMAIN reg \ {n}
                     /\ \A m \in DOMAIN reg \ {n} : Without(reg, n)[m] = reg[m]
           /\ \A n \in DOMAIN reg : n \in Names /\ reg[n] \in Confs
           /\ DOMAIN reg = {} => reg = <<>>
<1>1. PICK D \in SUBSET Names : reg \in [D -> Confs]
  BY DEF Registries
<1>2. ASSUME NEW n \in Names, NEW c \in Confs
      PROVE  /\ Upsert(reg, n, c) \in Registries
             /\ DOMAIN Upsert(reg, n, c) = DOMAIN reg \cup {n}
             /\ Upsert(reg, n, c)[n] = c
  <2>1. Upsert(reg, n, c) \in [D \cup {n} -> Confs]
    BY <1>1 DEF Upsert
  <2>2. D \cup {n} \in SUBSET Names
    BY <1>1
  <2> QED
    BY <1>1, <2>1, <2>2, Zenon DEF Registries, Upsert
<1>3. ASSUME NEW n
      PROVE  /\ Without(reg, n) \in Registries
             /\ DOMAIN Without(reg, n) = DOMAIN reg \ {n}
             /\ \A m \in DOMAIN reg \ {n} : Without(reg, n)[m] = reg[m]
  <2>1. Without(reg, n) \in [D \ {n} -> Confs]
    BY <1>1 DEF Without
  <2> QED
    BY <1>1, <2>1, Zenon DEF Registries, Without
<1>4. DOMAIN reg = {} => reg = <<>>
  BY <1>1
<1> QED
  BY <1>1, <1>2, <1>3, <1>4, Zenon

\* A rendered document has the members it was given.
LEMMA RenderedMembers ==
    ASSUME NEW reg \in Registries, DOMAIN reg # {}, NEW mem,
           \A n \in DOMAIN reg : mem[n] \in [SetsOf[reg[n]] -> SUBSET Elems],
           NEW c \in Pods \cup {NoPod}, Renders(reg, c),
           NEW n \in DOMAIN reg, NEW f \in SetsOf[reg[n]]
    PROVE  ElementsIn(Render(reg, mem, c), n, f) = mem[n][f]
<1> DEFINE R == Render(reg, mem, c)
<1>1. R # NoDoc /\ n \in DOMAIN R.pol /\ R.pol[n] = [conf |-> reg[n], mem |-> mem[n]]
  <2>1. /\ R # NoDoc /\ DOMAIN R.pol = DOMAIN reg
        /\ \A m \in DOMAIN reg : R.pol[m] = [conf |-> reg[m], mem |-> mem[m]]
    BY RenderReturns
  <2> HIDE DEF R
  <2> QED
    BY <2>1, Zenon
<1> HIDE DEF R
<1>2. R.pol[n].mem = mem[n]
  BY <1>1
<1>3. f \in DOMAIN mem[n]
  OBVIOUS
<1>4. ElementsIn(R, n, f) = mem[n][f]
  BY <1>1, <1>2, <1>3, Zenon DEF ElementsIn, HasSet
<1> QED
  BY <1>4 DEF R

\* What PersistMembership and Delete render: the configurations they are given,
\* with the live members.
LEMMA SnapshotRenders ==
    ASSUME IsTable(kernel), NEW reg \in Registries, DOMAIN reg # {},
           NEW c \in Pods \cup {NoPod}, Renders(reg, c),
           NEW R, R = Render(reg, SnapshotMembership(reg), c)
    PROVE  /\ WellFormed(R) /\ R # NoDoc /\ ConfOf(R) = reg
           /\ R.pod = IF NeedsPod(reg) THEN c ELSE NoPod
           /\ \A n \in DOMAIN reg : \A f \in SetsOf[reg[n]] :
                 ElementsIn(R, n, f) = ElementsIn(kernel, n, f)
<1> DEFINE mem == SnapshotMembership(reg)
<1>1. \A n \in DOMAIN reg : /\ mem[n] \in [SetsOf[reg[n]] -> SUBSET Elems]
                            /\ \A f \in SetsOf[reg[n]] : mem[n][f] = ElementsIn(kernel, n, f)
  BY MembershipTyped, Zenon
<1> HIDE DEF mem
<1>2. /\ WellFormed(Render(reg, mem, c)) /\ Render(reg, mem, c) # NoDoc
      /\ ConfOf(Render(reg, mem, c)) = reg
      /\ Render(reg, mem, c).pod = IF NeedsPod(reg) THEN c ELSE NoPod
  BY <1>1, RenderReturns
<1>3. ASSUME NEW n \in DOMAIN reg, NEW f \in SetsOf[reg[n]]
      PROVE  ElementsIn(Render(reg, mem, c), n, f) = ElementsIn(kernel, n, f)
  BY <1>1, RenderedMembers
<1>4. R = Render(reg, mem, c)
  BY DEF mem
<1> QED
  BY <1>2, <1>3, <1>4, Zenon

\* What the install step renders: the registered configurations, without members.
LEMMA EmptyRenders ==
    ASSUME IsTable(kernel), NEW reg \in Registries, DOMAIN reg # {},
           NEW c \in Pods \cup {NoPod}, Renders(reg, c),
           NEW R, R = Render(reg, NoMembership(reg), c)
    PROVE  /\ WellFormed(R) /\ R # NoDoc /\ ConfOf(R) = reg
           /\ R.pod = IF NeedsPod(reg) THEN c ELSE NoPod
<1> DEFINE mem == NoMembership(reg)
<1>1. \A n \in DOMAIN reg : mem[n] \in [SetsOf[reg[n]] -> SUBSET Elems]
  BY MembershipTyped, Zenon
<1> HIDE DEF mem
<1>2. /\ WellFormed(Render(reg, mem, c)) /\ Render(reg, mem, c) # NoDoc
      /\ ConfOf(Render(reg, mem, c)) = reg
      /\ Render(reg, mem, c).pod = IF NeedsPod(reg) THEN c ELSE NoPod
  BY <1>1, RenderReturns
<1>3. R = Render(reg, mem, c)
  BY DEF mem
<1> QED
  BY <1>2, <1>3, Zenon

\* What Create renders: the registry with the policy's configuration in it; the
\* siblings have their live members.
LEMMA DesiredRenders ==
    ASSUME IsTable(kernel), registry \in Registries, NEW n \in Names, NEW conf \in Confs,
           NEW cidrs \in [CidrFams -> SUBSET Elems],
           NEW c \in Pods \cup {NoPod}, Renders(Upsert(registry, n, conf), c),
           NEW D, D = Render(Upsert(registry, n, conf), DesiredMembership(n, conf, cidrs), c)
    PROVE  /\ WellFormed(D) /\ D # NoDoc
           /\ n \in DOMAIN D.pol /\ D.pol[n].conf = conf
           /\ ConfOf(D) = Upsert(registry, n, conf)
           /\ D.pod \in {NoPod, c}
           /\ \A m \in DOMAIN registry \ {n} : \A f \in SetsOf[registry[m]] :
                 ElementsIn(D, m, f) = ElementsIn(kernel, m, f)
<1> DEFINE reg == Upsert(registry, n, conf)
           mem == DesiredMembership(n, conf, cidrs)
<1>1. reg \in Registries /\ DOMAIN reg = DOMAIN registry \cup {n} /\ reg[n] = conf
  <2>1. \A m \in Names, k \in Confs :
          /\ Upsert(registry, m, k) \in Registries
          /\ DOMAIN Upsert(registry, m, k) = DOMAIN registry \cup {m}
          /\ Upsert(registry, m, k)[m] = k
    BY RegistryEdits, Zenon
  <2> QED
    BY <2>1, Zenon
<1>2. \A m \in DOMAIN reg :
        /\ mem[m] \in [SetsOf[reg[m]] -> SUBSET Elems]
        /\ m # n => /\ reg[m] = registry[m]
                    /\ \A f \in SetsOf[registry[m]] : mem[m][f] = ElementsIn(kernel, m, f)
  <2> TAKE m \in DOMAIN reg
  <2> QED
    BY DesiredTyped
<1>3. Renders(reg, c) /\ D = Render(reg, mem, c)
  BY Zenon
<1> HIDE DEF reg, mem
<1>4. /\ WellFormed(Render(reg, mem, c)) /\ Render(reg, mem, c) # NoDoc
      /\ ConfOf(Render(reg, mem, c)) = reg
      /\ DOMAIN Render(reg, mem, c).pol = DOMAIN reg
      /\ \A m \in DOMAIN reg : Render(reg, mem, c).pol[m] = [conf |-> reg[m], mem |-> mem[m]]
      /\ Render(reg, mem, c).pod = IF NeedsPod(reg) THEN c ELSE NoPod
  BY <1>1, <1>2, <1>3, RenderReturns
<1>5. n \in DOMAIN D.pol /\ D.pol[n].conf = conf
  <2>1. n \in DOMAIN D.pol /\ D.pol[n] = [conf |-> reg[n], mem |-> mem[n]] /\ reg[n] = conf
    BY <1>1, <1>3, <1>4, Zenon
  <2> QED
    BY <2>1
<1>6. ASSUME NEW m \in DOMAIN registry \ {n}, NEW f \in SetsOf[registry[m]]
      PROVE  ElementsIn(D, m, f) = ElementsIn(kernel, m, f)
  <2>1. m \in DOMAIN reg /\ m # n /\ DOMAIN reg # {}
    BY <1>1
  <2>2. reg[m] = registry[m] /\ mem[m][f] = ElementsIn(kernel, m, f)
    BY <1>2, <2>1, Zenon
  <2>3. f \in SetsOf[reg[m]]
    BY <2>2, Zenon
  <2>4. ElementsIn(Render(reg, mem, c), m, f) = mem[m][f]
    BY <1>1, <1>2, <1>3, <2>1, <2>3, RenderedMembers
  <2> QED
    BY <1>3, <2>2, <2>4
<1>7. D.pod \in {NoPod, c}
  BY <1>3, <1>4
<1>8. WellFormed(D) /\ D # NoDoc /\ ConfOf(D) = reg
  BY <1>3, <1>4, Zenon
<1> QED
  BY <1>5, <1>6, <1>7, <1>8, Zenon DEF reg

\* One nft transaction on one set leaves the configurations, the pod CIDR and
\* every other policy's elements alone.
LEMMA WriteKeepsTable ==
    ASSUME WellFormed(kernel), NEW w \in Writes, HasSet(kernel, w.name, w.fam),
           NEW k, k = [kernel EXCEPT !.pol[w.name].mem[w.fam] = Written(w)]
    PROVE  /\ WellFormed(k) /\ k # NoDoc
           /\ ConfOf(k) = ConfOf(kernel) /\ k.pod = kernel.pod
           /\ \A n, f : n # w.name => ElementsIn(k, n, f) = ElementsIn(kernel, n, f)
<1> DEFINE reg == ConfOf(kernel)
           mem == [n \in DOMAIN reg |->
                      IF n = w.name THEN [kernel.pol[n].mem EXCEPT ![w.fam] = Written(w)]
                      ELSE kernel.pol[n].mem]
           R == Render(reg, mem, kernel.pod)
<1>1. /\ kernel # NoDoc
      /\ kernel = [pol |-> kernel.pol, pod |-> kernel.pod]
      /\ kernel.pol = [n \in DOMAIN kernel.pol |-> kernel.pol[n]]
      /\ DOMAIN kernel.pol # {}
      /\ kernel.pod \in Pods \cup {NoPod}
      /\ reg \in Registries /\ DOMAIN reg = DOMAIN kernel.pol
      /\ kernel.pod # NoPod <=> NeedsPod(reg)
  BY WellFormedShape
<1>2. \A n \in DOMAIN reg :
        /\ kernel.pol[n] = [conf |-> kernel.pol[n].conf, mem |-> kernel.pol[n].mem]
        /\ reg[n] = kernel.pol[n].conf
        /\ kernel.pol[n].mem \in [SetsOf[reg[n]] -> SUBSET Elems]
  <2>1. DOMAIN reg = DOMAIN kernel.pol
    BY <1>1
  <2>2. \A n \in DOMAIN kernel.pol :
          /\ kernel.pol[n] = [conf |-> kernel.pol[n].conf, mem |-> kernel.pol[n].mem]
          /\ reg[n] = kernel.pol[n].conf
          /\ kernel.pol[n].mem \in [SetsOf[kernel.pol[n].conf] -> SUBSET Elems]
    BY WellFormedShape, Zenon
  <2> HIDE DEF reg
  <2> QED
    BY <2>1, <2>2
<1> HIDE DEF reg
<1>3. w.name \in DOMAIN reg /\ w.fam \in DOMAIN kernel.pol[w.name].mem
  BY <1>1 DEF HasSet
<1>4. Written(w) \in SUBSET Elems
  <2>1. w.elems \in SUBSET Elems /\ w.how \in {"add", "delete", "set"}
    BY DEF Writes
  <2>2. kernel.pol[w.name].mem[w.fam] \in SUBSET Elems
    BY <1>2, <1>3, Zenon
  <2> QED
    BY <2>1, <2>2 DEF Written
<1>5. \A n \in DOMAIN reg : mem[n] \in [SetsOf[reg[n]] -> SUBSET Elems]
  BY <1>2, <1>3, <1>4, Zenon
<1>6. Renders(reg, kernel.pod)
  BY <1>1 DEF Renders
<1>7. /\ WellFormed(R) /\ R # NoDoc /\ ConfOf(R) = reg
      /\ DOMAIN R.pol = DOMAIN reg
      /\ \A n \in DOMAIN reg : R.pol[n] = [conf |-> reg[n], mem |-> mem[n]]
      /\ R.pod = IF NeedsPod(reg) THEN kernel.pod ELSE NoPod
  <2> HIDE DEF mem
  <2> QED
    BY <1>1, <1>5, <1>6, RenderReturns
<1>8. k = R
  <2> DEFINE pol == [n \in DOMAIN reg |-> [conf |-> reg[n], mem |-> mem[n]]]
  <2>1. R = [pol |-> pol, pod |-> kernel.pod]
    BY <1>1, Zenon DEF Render
  <2>2. k = [pol |-> [kernel.pol EXCEPT ![w.name].mem[w.fam] = Written(w)], pod |-> kernel.pod]
    BY <1>1
  <2>3. [kernel.pol EXCEPT ![w.name].mem[w.fam] = Written(w)]
          = [n \in DOMAIN reg |-> IF n = w.name THEN [kernel.pol[n] EXCEPT !.mem[w.fam] = Written(w)]
                                  ELSE kernel.pol[n]]
    BY <1>1, <1>3
  <2>4. [kernel.pol[w.name] EXCEPT !.mem[w.fam] = Written(w)]
          = [conf |-> reg[w.name], mem |-> [kernel.pol[w.name].mem EXCEPT ![w.fam] = Written(w)]]
    <3>1. ASSUME NEW r, NEW c, NEW m, NEW x, NEW v, r = [conf |-> c, mem |-> m]
          PROVE  [r EXCEPT !.mem[x] = v] = [conf |-> c, mem |-> [m EXCEPT ![x] = v]]
      BY <3>1
    <3> DEFINE old == kernel.pol[w.name]
               oldMem == old.mem
    <3>2. old = [conf |-> reg[w.name], mem |-> oldMem]
      BY <1>2, <1>3, Zenon
    <3>3. [old EXCEPT !.mem[w.fam] = Written(w)]
            = [conf |-> reg[w.name], mem |-> [oldMem EXCEPT ![w.fam] = Written(w)]]
      <4> HIDE DEF old, oldMem
      <4> QED
        BY <3>1, <3>2
    <3> QED
      BY <3>3
  <2>5. \A n \in DOMAIN reg : pol[n] = IF n = w.name THEN [kernel.pol[n] EXCEPT !.mem[w.fam] = Written(w)]
                                       ELSE kernel.pol[n]
    <3> TAKE n \in DOMAIN reg
    <3>1. pol[n] = [conf |-> reg[n], mem |-> mem[n]]
      BY Zenon
    <3>2. CASE n = w.name
      <4>1. mem[n] = [kernel.pol[n].mem EXCEPT ![w.fam] = Written(w)]
        BY <3>2
      <4> HIDE DEF pol, mem
      <4> QED
        BY <3>1, <3>2, <4>1, <2>4
    <3>3. CASE n # w.name
      <4>1. mem[n] = kernel.pol[n].mem
        BY <3>3
      <4> HIDE DEF pol, mem
      <4> QED
        BY <1>2, <3>1, <3>3, <4>1, Zenon
    <3> QED
      BY <3>2, <3>3
  <2>6. [kernel.pol EXCEPT ![w.name].mem[w.fam] = Written(w)] = pol
    <3> DEFINE ed(n) == IF n = w.name THEN [kernel.pol[n] EXCEPT !.mem[w.fam] = Written(w)]
                        ELSE kernel.pol[n]
    <3>1. \A n \in DOMAIN reg : pol[n] = ed(n)
      BY <2>5, Zenon
    <3>2. pol = [n \in DOMAIN reg |-> pol[n]]
      OBVIOUS
    <3>3. [n \in DOMAIN reg |-> pol[n]] = [n \in DOMAIN reg |-> ed(n)]
      <4> HIDE DEF pol, ed
      <4> QED
        BY <3>1
    <3> HIDE DEF pol
    <3> QED
      BY <2>3, <3>2, <3>3, Zenon
  <2> HIDE DEF pol, R
  <2> QED
    BY <2>1, <2>2, <2>6, Zenon
<1>9. ASSUME NEW n, NEW f, n # w.name
      PROVE  ElementsIn(R, n, f) = ElementsIn(kernel, n, f)
  <2>1. CASE n \in DOMAIN reg
    <3>1. mem[n] = kernel.pol[n].mem
      BY <1>9, <2>1
    <3>2. R.pol[n].mem = kernel.pol[n].mem
      <4>1. R.pol[n] = [conf |-> reg[n], mem |-> mem[n]]
        BY <1>7, <2>1, Zenon
      <4> HIDE DEF mem, R
      <4> QED
        BY <3>1, <4>1
    <3> HIDE DEF R
    <3> QED
      BY <1>1, <1>7, <2>1, <3>2 DEF ElementsIn, HasSet
  <2>2. CASE n \notin DOMAIN reg
    <3> HIDE DEF R
    <3> QED
      BY <1>1, <1>7, <2>2, Zenon DEF ElementsIn, HasSet
  <2> QED
    BY <2>1, <2>2
<1> QED
  <2> HIDE DEF R
  <2> QED
    BY <1>1, <1>7, <1>8, <1>9 DEF reg

-----------------------------------------------------------------------------
(* Every step keeps the invariant. *)

\* Between Load and its last store write a command has a document to protect;
\* elsewhere the invariant asks nothing of it.
LEMMA Outside ==
    ASSUME NEW q \in Ops, pc'[q] \notin {"apply", "entry", "file"}
    PROVE  CreateInv(q)' /\ DeleteInv(q)' /\ SiblingsInv(q)'
BY DEF CreateInv, DeleteInv, SiblingsInv

\* The flock keeps everybody else out of the critical section.
LEMMA Excluded ==
    ASSUME IInv, NEW p, lock \in {p, Free}, NEW q \in Procs, q # p
    PROVE  pc[q] \notin Locked
BY PolicyAssumption DEF IInv, LockInv

\* A step of the lock's holder, or of a process that finds it free, leaves all
\* other commands outside the critical section.
LEMMA OthersKept ==
    ASSUME IInv, NEW p, lock \in {p, Free},
           \A q \in Ops : q # p => pc'[q] = pc[q],
           p \in Ops => CreateInv(p)' /\ DeleteInv(p)' /\ SiblingsInv(p)'
    PROVE  OpsInv'
<1> SUFFICES ASSUME NEW q \in Ops
             PROVE  CreateInv(q)' /\ DeleteInv(q)' /\ SiblingsInv(q)'
  BY DEF OpsInv
<1>1. CASE q = p
  BY <1>1
<1>2. CASE q # p
  <2>1. pc'[q] \notin Locked
    BY <1>2, Excluded DEF Procs
  <2> QED
    BY <2>1, Outside DEF Locked
<1> QED
  BY <1>1, <1>2

\* The invariant asks nothing more of a command whose own state and whose
\* stores a step leaves alone.
LEMMA Bystander ==
    ASSUME IInv, NEW q \in Ops,
           pc'[q] = pc[q], req'[q] = req[q], doc'[q] = doc[q], pod'[q] = pod[q],
           UNCHANGED <<kernel, artifact, registry, torn, lag, undercut>>
    PROVE  CreateInv(q)' /\ DeleteInv(q)' /\ SiblingsInv(q)'
<1>1. CreateInv(q) /\ DeleteInv(q) /\ SiblingsInv(q)
  BY DEF IInv, OpsInv
<1>2. CreateInv(q)'
  BY <1>1, Zenon DEF CreateInv
<1>3. DeleteInv(q)'
  BY <1>1, Zenon DEF DeleteInv
<1>4. SiblingsInv(q)'
  BY <1>1 DEF SiblingsInv
<1> QED
  BY <1>2, <1>3, <1>4

\* A command returns before it has taken the lock or written anything.
LEMMA QuitKeeps ==
    ASSUME IInv, NEW p \in Ops, pc[p] \in {"load", "render"}, Quit(p)
    PROVE  IInv'
<1> USE DEF IInv
<1>1. TypeOK'
  <2>1. p \in Procs
    BY DEF Procs
  <2> QED
    BY <2>1 DEF TypeOK, Quit, Return, Goto, stores, history, PCs, IsTable
<1>2. LockInv'
  BY DEF TypeOK, LockInv, Quit, Return, Goto, stores, history, Locked, Procs
<1>3. StoresInv'
  BY DEF StoresInv, Quit, stores, history
<1>4. OpsInv'
  <2> SUFFICES ASSUME NEW q \in Ops
               PROVE  CreateInv(q)' /\ DeleteInv(q)' /\ SiblingsInv(q)'
    BY DEF OpsInv
  <2>1. CASE q = p
    <3>1. pc'[q] = "idle"
      BY <2>1 DEF TypeOK, Quit, Return, Goto, Procs
    <3> QED
      BY <3>1, Outside
  <2>2. CASE q # p
    <3>1. /\ pc'[q] = pc[q] /\ req'[q] = req[q] /\ doc'[q] = doc[q] /\ pod'[q] = pod[q]
          /\ UNCHANGED <<kernel, artifact, registry, torn, lag, undercut>>
      BY <2>2 DEF TypeOK, Quit, Return, Goto, stores, history, Procs
    <3> QED
      BY <3>1, Bystander, Zenon
  <2> QED
    BY <2>1, <2>2
<1> QED
  BY <1>1, <1>2, <1>3, <1>4

\* A command starts.
LEMMA StartKeeps ==
    ASSUME IInv, NEW p \in Ops, NEW r \in Requests, Start(p, r)
    PROVE  IInv'
<1> USE DEF IInv
<1>1. TypeOK'
  <2>1. p \in Procs /\ r \in Commands /\ r.pod \in Pods \cup {NoPod}
    BY PolicyAssumption DEF Procs, Commands
  <2>2. ExtractPodCIDRs(artifact) \in Pods \cup {NoPod}
    BY WellFormedShape, Zenon DEF TypeOK, IsTable, ExtractPodCIDRs
  <2> QED
    BY <2>1, <2>2 DEF TypeOK, Start, Goto, stores, history, PCs
<1>2. LockInv'
  BY DEF TypeOK, LockInv, Start, Goto, stores, history, Locked, Procs
<1>3. StoresInv'
  BY DEF StoresInv, Start, stores, history
<1>4. OpsInv'
  <2> SUFFICES ASSUME NEW q \in Ops
               PROVE  CreateInv(q)' /\ DeleteInv(q)' /\ SiblingsInv(q)'
    BY DEF OpsInv
  <2>1. CASE q = p
    <3>1. pc'[q] \in {"load", "render"}
      BY <2>1 DEF TypeOK, Start, Goto, Procs
    <3> QED
      BY <3>1, Outside
  <2>2. CASE q # p
    <3>1. /\ pc'[q] = pc[q] /\ req'[q] = req[q] /\ doc'[q] = doc[q] /\ pod'[q] = pod[q]
          /\ UNCHANGED <<kernel, artifact, registry, torn, lag, undercut>>
      BY <2>2 DEF TypeOK, Start, Goto, stores, history, Procs
    <3> QED
      BY <3>1, Bystander, Zenon
  <2> QED
    BY <2>1, <2>2
<1> QED
  BY <1>1, <1>2, <1>3, <1>4

\* A step fails or the process is killed before it.
LEMMA FailKeeps ==
    ASSUME IInv, NEW p \in Procs, Fail(p)
    PROVE  IInv'
<1> USE DEF IInv
<1>1. TypeOK'
  BY DEF TypeOK, Fail, Return, Goto, stores, history, PCs, IsTable
<1>2. LockInv'
  BY DEF TypeOK, LockInv, Fail, Return, Goto, stores, history, Locked, Procs
<1>3. StoresInv'
  BY DEF StoresInv, Fail, stores, history
<1>4. OpsInv'
  <2> SUFFICES ASSUME NEW q \in Ops
               PROVE  CreateInv(q)' /\ DeleteInv(q)' /\ SiblingsInv(q)'
    BY DEF OpsInv
  <2>1. CASE q = p
    <3>1. pc'[q] = "idle"
      BY <2>1 DEF TypeOK, Fail, Return, Goto
    <3> QED
      BY <3>1, Outside
  <2>2. CASE q # p
    <3>1. /\ pc'[q] = pc[q] /\ req'[q] = req[q] /\ doc'[q] = doc[q] /\ pod'[q] = pod[q]
          /\ UNCHANGED <<kernel, artifact, registry, torn, lag, undercut>>
      BY <2>2 DEF TypeOK, Fail, Return, Goto, stores, history, Procs
    <3> QED
      BY <3>1, Bystander, Zenon
  <2> QED
    BY <2>1, <2>2
<1> QED
  BY <1>1, <1>2, <1>3, <1>4

\* Somebody deletes the table or the artifact by hand.
LEMMA DropKeeps ==
    ASSUME IInv, DropTable \/ DropArtifact
    PROVE  IInv'
<1> USE DEF IInv
<1>1. TypeOK'
  BY Zenon DEF TypeOK, DropTable, DropArtifact, history, IsTable
<1>2. LockInv'
  BY DEF LockInv, DropTable, DropArtifact, history
<1>3. StoresInv'
  BY DEF TypeOK, StoresInv, DropTable, DropArtifact, history
<1>4. OpsInv'
  <2> SUFFICES ASSUME NEW q \in Ops
               PROVE  CreateInv(q)' /\ DeleteInv(q)' /\ SiblingsInv(q)'
    BY DEF OpsInv
  <2>1. CreateInv(q) /\ DeleteInv(q) /\ SiblingsInv(q)
    BY DEF OpsInv
  <2>2. CASE DropTable
    <3>1. /\ kernel' = NoDoc
          /\ UNCHANGED <<artifact, registry, pc, req, pod, doc, torn, lag, undercut>>
      BY <2>2 DEF DropTable, history
    <3>2. CreateInv(q)' /\ SiblingsInv(q)'
      BY <2>1, <3>1, Zenon DEF CreateInv, SiblingsInv
    <3>3. DeleteInv(q)'
      BY <2>1, <3>1 DEF DeleteInv
    <3> QED
      BY <3>2, <3>3
  <2>3. CASE DropArtifact
    <3>1. /\ artifact' = NoDoc /\ lag'
          /\ UNCHANGED <<kernel, registry, pc, req, pod, doc, torn, undercut>>
      BY <2>3, Zenon DEF DropArtifact
    <3>2. CreateInv(q)' /\ SiblingsInv(q)'
      BY <2>1, <3>1, Zenon DEF CreateInv, SiblingsInv
    <3>3. DeleteInv(q)'
      BY <2>1, <3>1 DEF DeleteInv
    <3> QED
      BY <3>2, <3>3
  <2> QED
    BY <2>2, <2>3
<1> QED
  BY <1>1, <1>2, <1>3, <1>4

\* The host restarts and an enabled oneshot replays the artifact.
LEMMA RebootKeeps ==
    ASSUME IInv, Reboot
    PROVE  IInv'
<1> USE DEF IInv
<1>1. TypeOK'
  BY DEF TypeOK, Reboot, IsTable, PCs
<1>2. LockInv'
  BY DEF LockInv, Reboot, Locked, Procs
<1>3. StoresInv'
  BY DEF TypeOK, StoresInv, Reboot
<1>4. OpsInv'
  <2> SUFFICES ASSUME NEW q \in Ops
               PROVE  CreateInv(q)' /\ DeleteInv(q)' /\ SiblingsInv(q)'
    BY DEF OpsInv
  <2>1. pc'[q] = "idle"
    BY DEF Reboot, Procs
  <2> QED
    BY <2>1, Outside
<1> QED
  BY <1>1, <1>2, <1>3, <1>4

\* A tick or an element verb takes the lock with its set writes to do.
LEMMA BatchKeeps ==
    ASSUME IInv, NEW p \in Procs, NEW s \in Seq(Writes), lock = Free,
           script' = [script EXCEPT ![p] = s], Proceed(p, "write"), UNCHANGED <<pod, doc>>
    PROVE  IInv'
<1> USE DEF IInv
<1>1. TypeOK'
  BY Zenon DEF TypeOK, Proceed, Acquire, Goto, stores, PCs
<1>2. LockInv'
  <2>1. \A q \in Procs : pc[q] \notin Locked
    BY PolicyAssumption DEF LockInv, TypeOK
  <2> QED
    BY <2>1 DEF TypeOK, LockInv, Proceed, Acquire, Goto, Locked, Procs
<1>3. StoresInv'
  BY DEF StoresInv, Proceed, stores
<1>4. OpsInv'
  <2>1. p \in Ops => pc'[p] = "write"
    BY DEF TypeOK, Proceed, Goto
  <2>2. \A q \in Ops : q # p => pc'[q] = pc[q]
    BY DEF TypeOK, Proceed, Goto, Procs
  <2>3. p \in Ops => CreateInv(p)' /\ DeleteInv(p)' /\ SiblingsInv(p)'
    BY <2>1, Outside
  <2> QED
    BY <2>2, <2>3, OthersKept
<1> QED
  BY <1>1, <1>2, <1>3, <1>4

\* The holder returns: it is enough that it leaves the stores in line.
LEMMA HolderReturns ==
    ASSUME IInv, NEW p \in Procs, pc[p] \in Locked, Release(p),
           UNCHANGED <<kernel, req, undercut>>, registry' \in Registries,
           IsTable(artifact)', torn' \in BOOLEAN, lag' \in BOOLEAN,
           undercut => torn', StoresInv'
    PROVE  IInv'
<1> USE DEF IInv
<1>1. TypeOK'
  BY DEF TypeOK, Release, Return, Goto, PCs, IsTable
<1>2. lock = p
  BY Zenon DEF LockInv
<1>3. LockInv'
  <2>1. \A q \in Procs : q # p => pc[q] \notin Locked
    BY <1>2, Excluded
  <2> QED
    BY <2>1 DEF TypeOK, LockInv, Release, Return, Goto, Locked, Procs
<1>4. OpsInv'
  <2>1. p \in Ops => pc'[p] = "idle"
    BY DEF TypeOK, Release, Return, Goto
  <2>2. \A q \in Ops : q # p => pc'[q] = pc[q]
    BY Zenon DEF TypeOK, Release, Return, Goto, Procs
  <2>3. p \in Ops => CreateInv(p)' /\ DeleteInv(p)' /\ SiblingsInv(p)'
    BY <2>1, Outside
  <2> QED
    BY <1>2, <2>2, <2>3, OthersKept
<1> QED
  BY <1>1, <1>3, <1>4, Zenon

\* A daemon tick takes the lock.
LEMMA TickKeeps ==
    ASSUME IInv, NEW s \in Ticks, Tick(s)
    PROVE  IInv'
<1>1. Daemon \in Procs /\ s \in Seq(Writes)
  BY PolicyAssumption DEF Procs
<1>2. lock = Free
  BY DEF Tick, Proceed, Acquire
<1> QED
  BY <1>1, <1>2, BatchKeeps, Zenon DEF Tick

\* Add, Remove and Set up to their set writes.
LEMMA ElementLoadKeeps ==
    ASSUME IInv, NEW p \in Ops, ElementLoad(p)
    PROVE  IInv'
<1>1. CASE Quit(p)
  BY <1>1, QuitKeeps DEF ElementLoad
<1>2. CASE ~Quit(p)
  <2>1. /\ req[p].verb \in {"add", "remove", "set"} /\ lock = Free
        /\ script' = [script EXCEPT ![p] = VerbScript(req[p])]
        /\ Proceed(p, "write") /\ UNCHANGED <<pod, doc>>
    BY <1>2, Zenon DEF ElementLoad
  <2>2. VerbScript(req[p]) \in Seq(Writes)
    <3>1. /\ req[p].name \in Names /\ req[p].cidrs \in [CidrFams -> SUBSET Elems]
      BY Zenon DEF IInv, TypeOK, Commands
    <3> DEFINE how == [add |-> "add", remove |-> "delete", set |-> "set"][req[p].verb]
               one(f) == [name |-> req[p].name, fam |-> f, how |-> how, elems |-> req[p].cidrs[f]]
    <3>2. how \in {"add", "delete", "set"}
      BY <2>1
    <3> HIDE DEF how
    <3>3. one("v4") \in Writes /\ one("v6") \in Writes
      BY <3>1, <3>2 DEF Writes, Fams, CidrFams
    <3>4. <<one("v4"), one("v6")>> \in Seq(Writes)
      <4> HIDE DEF one
      <4> QED
        BY <3>3
    <3> QED
      BY <3>4, Zenon DEF VerbScript, how
  <2>3. p \in Procs
    BY DEF Procs
  <2> QED
    BY <2>1, <2>2, <2>3, BatchKeeps, Zenon
<1> QED
  BY <1>1, <1>2, Zenon

\* One set write: the table still renders the registry, and lag records that
\* the artifact does not have it.
LEMMA WriteSetKeeps ==
    ASSUME IInv, NEW p \in Procs, WriteSet(p)
    PROVE  IInv'
<1> USE DEF IInv
<1> DEFINE w == Head(script[p])
<1>1. /\ pc[p] = "write" /\ script[p] # <<>> /\ HasSet(kernel, w.name, w.fam)
      /\ kernel' = [kernel EXCEPT !.pol[w.name].mem[w.fam] = Written(w)]
      /\ script' = [script EXCEPT ![p] = Tail(@)]
      /\ lag' = TRUE
      /\ UNCHANGED <<artifact, registry, lock, pc, req, pod, doc, torn, undercut>>
  BY Zenon DEF WriteSet, Writable
<1>2. w \in Writes /\ Tail(script[p]) \in Seq(Writes)
  BY <1>1 DEF TypeOK
<1>3. WellFormed(kernel) /\ kernel # NoDoc
  BY <1>1 DEF HasSet, TypeOK, IsTable
<1>4. /\ WellFormed(kernel') /\ kernel' # NoDoc
      /\ ConfOf(kernel') = ConfOf(kernel) /\ kernel'.pod = kernel.pod
  <2> HIDE DEF w
  <2> QED
    BY <1>1, <1>2, <1>3, WriteKeepsTable, Zenon
<1> HIDE DEF w
<1>5. TypeOK'
  BY <1>1, <1>2, <1>4 DEF TypeOK, IsTable
<1>6. LockInv'
  BY <1>1, Zenon DEF LockInv
<1>7. StoresInv'
  <2>1. ConfOf(artifact)' = ConfOf(artifact) /\ ConfOf(kernel)' = ConfOf(kernel')
    BY <1>1 DEF ConfOf
  <2> QED
    BY <1>1, <1>3, <1>4, <2>1 DEF StoresInv
<1>8. OpsInv'
  <2>1. lock = p
    BY <1>1 DEF LockInv, Locked
  <2>2. p \in Ops => CreateInv(p)' /\ DeleteInv(p)' /\ SiblingsInv(p)'
    BY <1>1, Outside
  <2> QED
    BY <1>1, <2>1, <2>2, OthersKept
<1> QED
  BY <1>5, <1>6, <1>7, <1>8

\* A refused write ends the batch.
LEMMA WriteRefusedKeeps ==
    ASSUME IInv, NEW p \in Procs, WriteRefused(p)
    PROVE  IInv'
<1>1. /\ pc[p] = "write" /\ Release(p)
      /\ UNCHANGED <<kernel, artifact, registry, req, torn, lag, undercut>>
  BY Zenon DEF WriteRefused, stores, history
<1>2. IsTable(artifact)' /\ lag' \in BOOLEAN /\ StoresInv'
  BY <1>1 DEF IInv, TypeOK, IsTable, StoresInv
<1>3. registry' \in Registries /\ torn' \in BOOLEAN /\ (undercut => torn') /\ pc[p] \in Locked
  BY <1>1 DEF IInv, TypeOK, LockInv, Locked
<1> QED
  BY <1>1, <1>2, <1>3, HolderReturns, Zenon

\* The pod CIDR that PersistMembership recovers.
LEMMA RecoveredTyped ==
    ASSUME IInv
    PROVE  /\ RecoveredPod \in Pods \cup {NoPod}
           /\ ExtractPodCIDRs(artifact) \in Pods \cup {NoPod}
BY WellFormedShape, Zenon DEF IInv, TypeOK, IsTable, RecoveredPod, ExtractPodCIDRs

\* PersistMembership renders the artifact as the live table has it, provided
\* that the table renders the registry.
LEMMA PersistRenders ==
    ASSUME IInv, ~torn, kernel # NoDoc, DOMAIN registry # {}
    PROVE  Render(registry, SnapshotMembership(registry), RecoveredPod) = kernel
<1> DEFINE mem == SnapshotMembership(registry)
<1>1. /\ WellFormed(kernel) /\ ConfOf(kernel) = registry /\ registry \in Registries
      /\ IsTable(kernel)
      /\ artifact # NoDoc => WellFormed(artifact) /\ ConfOf(artifact) = registry
                             /\ kernel.pod = artifact.pod
  BY Zenon DEF IInv, TypeOK, StoresInv, IsTable
<1>2. /\ kernel = [pol |-> kernel.pol, pod |-> kernel.pod]
      /\ kernel.pol = [n \in DOMAIN kernel.pol |-> kernel.pol[n]]
      /\ DOMAIN registry = DOMAIN kernel.pol
      /\ kernel.pod # NoPod <=> NeedsPod(registry)
  BY <1>1, WellFormedShape
<1>3. \A n \in DOMAIN kernel.pol :
        /\ kernel.pol[n] = [conf |-> kernel.pol[n].conf, mem |-> kernel.pol[n].mem]
        /\ registry[n] = kernel.pol[n].conf
        /\ kernel.pol[n].mem \in [SetsOf[kernel.pol[n].conf] -> SUBSET Elems]
  BY <1>1, WellFormedShape, Zenon
<1>4. (IF NeedsPod(registry) THEN RecoveredPod ELSE NoPod) = kernel.pod
  BY <1>1, <1>2 DEF RecoveredPod, ExtractPodCIDRs
<1>5. ASSUME NEW n \in DOMAIN registry
      PROVE  [conf |-> registry[n], mem |-> mem[n]] = kernel.pol[n]
  <2>1. /\ mem[n] \in [SetsOf[registry[n]] -> SUBSET Elems]
        /\ \A f \in SetsOf[registry[n]] : mem[n][f] = ElementsIn(kernel, n, f)
    BY <1>1, MembershipTyped
  <2>2. n \in DOMAIN kernel.pol /\ kernel.pol[n].mem \in [SetsOf[registry[n]] -> SUBSET Elems]
    BY <1>2, <1>3, Zenon
  <2>3. \A f \in SetsOf[registry[n]] : ElementsIn(kernel, n, f) = kernel.pol[n].mem[f]
    BY <2>2, Zenon DEF ElementsIn, HasSet
  <2> HIDE DEF mem
  <2>4. mem[n] = kernel.pol[n].mem
    BY <2>1, <2>2, <2>3
  <2> QED
    BY <1>3, <2>2, <2>4, Zenon
<1>6. [n \in DOMAIN registry |-> [conf |-> registry[n], mem |-> mem[n]]] = kernel.pol
  <2> HIDE DEF mem
  <2> QED
    BY <1>2, <1>5
<1> QED
  BY <1>2, <1>4, <1>6 DEF Render

\* PersistMembership brings the artifact in line with the live table.
LEMMA PersistKeeps ==
    ASSUME IInv, NEW p \in Procs, PersistMembership(p)
    PROVE  IInv'
<1>1. /\ pc[p] = "write" /\ Release(p)
      /\ UNCHANGED <<kernel, registry, req, torn, undercut>>
  BY DEF PersistMembership
<1>0. registry' \in Registries /\ torn' \in BOOLEAN /\ (undercut => torn') /\ pc[p] \in Locked
  BY <1>1 DEF IInv, TypeOK, LockInv, Locked
<1>2. CASE UNCHANGED <<artifact, lag>>
  <2>1. IsTable(artifact)' /\ lag' \in BOOLEAN /\ StoresInv'
    BY <1>1, <1>2 DEF IInv, TypeOK, IsTable, StoresInv
  <2> QED
    BY <1>1, <1>0, <2>1, HolderReturns, Zenon
<1>3. CASE ~UNCHANGED <<artifact, lag>>
  <2> DEFINE R == Render(registry, SnapshotMembership(registry), RecoveredPod)
  <2>1. /\ DOMAIN registry # {} /\ Renders(registry, RecoveredPod)
        /\ artifact' = R /\ lag' = undercut
    BY <1>3, Zenon DEF PersistMembership
  <2>2. registry \in Registries /\ IsTable(kernel) /\ RecoveredPod \in Pods \cup {NoPod}
    BY RecoveredTyped DEF IInv, TypeOK
  <2>4. WellFormed(R) /\ R # NoDoc /\ ConfOf(R) = registry
    BY <2>1, <2>2, SnapshotRenders, Zenon
  <2>5. ~torn /\ kernel # NoDoc => R = kernel
    BY <2>1, PersistRenders
  <2> HIDE DEF R
  <2>6. IsTable(artifact)' /\ lag' \in BOOLEAN
    BY <2>1, <2>4, Zenon DEF IInv, TypeOK, IsTable
  <2>7. StoresInv'
    <3>1. ConfOf(artifact)' = ConfOf(R) /\ ConfOf(kernel)' = ConfOf(kernel)
      BY <1>1, <2>1 DEF ConfOf
    <3> QED
      BY <1>1, <2>1, <2>4, <2>5, <3>1, Zenon DEF IInv, StoresInv
  <2> QED
    BY <1>1, <1>0, <2>6, <2>7, HolderReturns, Zenon
<1> QED
  BY <1>2, <1>3, Zenon
=============================================================================
