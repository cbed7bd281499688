--------------------------- MODULE SecurityProofs ---------------------------
(***************************************************************************)
(* What SecurityKernel promises, for every size of its tables, every set   *)
(* of credentials and every order of calls. The first half says what the   *)
(* operations do to the two tables, as relations between the tables before *)
(* and after. The second has the inductive invariant Sound, which ties the *)
(* capability table to the history of what was ever issued, the records to *)
(* the tasks that were created, and the credentials of a task to those of  *)
(* its creator.                                                            *)
(***************************************************************************)
EXTENDS SecurityKernel, FiniteSetTheorems, NaturalsInduction, TLAPS

\* The tables as the operations pass them around.
Tables(S) == [domains : [DomainSlots -> Entries \cup {None}],
              caps : [S -> CapabilityRecords \cup {None}],
              next : Nat]

\* No pid has two domains.
OneDomain(k) ==
    \A i, j \in DomainSlots :
        k.domains[i] # None /\ k.domains[j] # None /\ k.domains[i].pid = k.domains[j].pid => i = j

\* No id is used twice, none will be.
FreshIds(S, k) ==
    /\ \A i \in S : k.caps[i] # None => k.caps[i].id < k.next
    /\ \A i, j \in S : i # j /\ k.caps[i] # None /\ k.caps[j] # None
                                => k.caps[i].id # k.caps[j].id

\* What a record is made from.
Specs == [object : Objects, rights : SUBSET Rights, parent : Nat \cup {None}]

-----------------------------------------------------------------------------
(* Ranks: the n-th slot of a set exists, and is one slot.                    *)

\* A non-empty set of naturals has a least element, which Least picks.
LEMMA LeastIs ==
  ASSUME NEW S \in SUBSET Nat, S # {}
  PROVE  Least(S) \in S /\ \A m \in S : Least(S) <= m
<1> DEFINE R == {ss \in Nat \X Nat : ss[1] < ss[2]}
<1>1. IsWellFoundedOn(R, Nat)
  BY NatLessThanWellFounded, Zenon DEF OpToRel
<1> HIDE DEF R
<1>2. PICK n \in S : \A m \in S : ~(<<m, n>> \in R)
  BY <1>1, WFMin, Zenon
<1>3. ASSUME NEW m \in S PROVE n <= m
  <2>1. m \in Nat /\ n \in Nat /\ (m < n => <<m, n>> \in R)
    BY Zenon DEF R
  <2> QED
    BY <1>2, <2>1
<1> QED
  BY <1>3, Zenon DEF Least

\* A rank is a place from 1 to the number of slots.
LEMMA RankInRange ==
  ASSUME NEW S \in SUBSET Nat, IsFiniteSet(S), NEW i \in S
  PROVE  Rank(S, i) \in 1 .. Cardinality(S) /\ Cardinality(S) \in Nat
<1> DEFINE T == {j \in S : j <= i}
<1>1. T \in SUBSET S /\ i \in T
  OBVIOUS
<1>2. IsFiniteSet(T) /\ Cardinality(T) <= Cardinality(S)
  BY <1>1, FS_Subset, Zenon
<1>3. Cardinality(T) \in Nat /\ Cardinality(S) \in Nat /\ Cardinality(T) # 0
  BY <1>1, <1>2, FS_CardinalityType, FS_EmptySet, Zenon
<1> HIDE DEF T
<1> QED
  BY <1>2, <1>3 DEF Rank, T

\* Different slots have different ranks.
LEMMA RankInjective ==
  ASSUME NEW S \in SUBSET Nat, IsFiniteSet(S), NEW i \in S, NEW j \in S, i # j
  PROVE  Rank(S, i) # Rank(S, j)
<1>1. ASSUME NEW a \in S, NEW b \in S, a < b PROVE Rank(S, a) # Rank(S, b)
  <2> DEFINE A == {x \in S : x <= a}
             B == {x \in S : x <= b}
  <2>a. a \in Nat /\ b \in Nat /\ \A x \in S : x \in Nat
    BY Zenon
  <2>b. \A x \in A : x \in B
    BY <2>a, <1>1
  <2>c. b \in B /\ b \notin A
    BY <2>a, <1>1
  <2>1. A \in SUBSET B /\ B \in SUBSET S /\ b \in B /\ b \notin A
    BY <2>b, <2>c, Zenon
  <2>2. IsFiniteSet(B)
    BY <2>1, FS_Subset, Zenon
  <2>3. Cardinality(A) # Cardinality(B)
    BY <2>1, <2>2, FS_Subset, Zenon
  <2> QED
    BY <2>3, Zenon DEF Rank
<1>2. i < j \/ j < i
  OBVIOUS
<1> QED
  BY <1>1, <1>2, Zenon

\* Every place is some slot's rank.
LEMMA NthIs ==
  ASSUME NEW S \in SUBSET Nat, IsFiniteSet(S), NEW n \in 1 .. Cardinality(S)
  PROVE  Nth(S, n) \in S /\ Rank(S, Nth(S, n)) = n
<1> DEFINE f == [i \in S |-> Rank(S, i)]
           T == 1 .. Cardinality(S)
<1>1. Cardinality(S) \in Nat
  BY FS_CardinalityType, Zenon
<1>2. IsFiniteSet(T) /\ Cardinality(T) = Cardinality(S)
  BY <1>1, FS_Interval
<1>3. f \in [S -> T]
  BY RankInRange, Zenon
<1>4. \A a, b \in S : f[a] = f[b] => a = b
  BY RankInjective, Zenon
<1> HIDE DEF T
<1>5. f \in Injection(S, T)
  <2> HIDE DEF f
  <2> QED
    BY <1>3, <1>4, Zenon DEF Injection, IsInjective
<1>6. f \in Surjection(S, T)
  BY <1>2, <1>5, FS_Injection, Zenon
<1>7. PICK i \in S : f[i] = n
  BY <1>6, Zenon DEF Surjection, T
<1> QED
  BY <1>7, Zenon DEF Nth

-----------------------------------------------------------------------------
(* What the operations on the tables do, as relations.                       *)

\* u has the records of k, and in free slots of k records of owner that are made from new,
\* with ids k has not used; all of new when ok.
Inserted(S, k, owner, new, u, ok) ==
    /\ u \in Tables(S) /\ FreshIds(S, u)
    /\ u.domains = k.domains /\ k.next <= u.next
    /\ \A i \in S : k.caps[i] # None => u.caps[i] = k.caps[i]
    /\ \A i \in S : k.caps[i] = None /\ u.caps[i] # None =>
          /\ u.caps[i].owner = owner /\ k.next <= u.caps[i].id
          /\ \E n \in 1 .. Len(new) : /\ u.caps[i].object = new[n].object
                                     /\ u.caps[i].rights = new[n].rights
                                     /\ u.caps[i].parent = new[n].parent
    /\ ok => \A n \in 1 .. Len(new) : \E i \in S :
                  /\ u.caps[i] # None /\ u.caps[i].owner = owner
                  /\ u.caps[i].object = new[n].object /\ u.caps[i].rights = new[n].rights

\* The slots of a capability table.
LEMMA SlotsOf ==
  ASSUME NEW S, NEW k \in Tables(S)
  PROVE  DOMAIN k.caps = S
BY Zenon DEF Tables

\* The slots of the domain table.
LEMMA SlotsAreNumbers ==
  DomainSlots \in SUBSET Nat
BY ConstantsAssumption DEF DomainSlots

\* A table has finitely many slots.
LEMMA SlotsAreFinite ==
  ASSUME NEW n \in Nat
  PROVE  IsFiniteSet(1 .. n)
BY FS_Interval

\* insert_capability fills the first free slots in order, and reports whether all fit.
LEMMA InsertInserts ==
  ASSUME NEW S \in SUBSET Nat, IsFiniteSet(S),
         NEW k \in Tables(S), FreshIds(S, k),
         NEW owner \in Nat, NEW new \in Seq(Specs)
  PROVE  LET r == insert_capability(k, owner, new) IN Inserted(S, k, owner, new, r.k, r.ok)
<1> DEFINE free == FreeSlots(k)
           fits == IF Len(new) <= Cardinality(free) THEN Len(new) ELSE Cardinality(free)
           rank(i) == Rank(free, i)
           record(i) == NewRecord(k, owner, new[rank(i)], rank(i))
           caps == [i \in S |-> IF i \in free /\ rank(i) <= fits THEN record(i) ELSE k.caps[i]]
           u == [domains |-> k.domains, caps |-> caps, next |-> k.next + fits]
<1>1. free \in SUBSET S /\ free \in SUBSET Nat /\ IsFiniteSet(free)
  BY FS_Subset, Zenon DEF FreeSlots, Tables
<1>2. Cardinality(free) \in Nat /\ \A i \in free : rank(i) \in 1 .. Cardinality(free)
  BY <1>1, RankInRange, FS_CardinalityType, Zenon
<1>3. \A i, j \in free : i # j => rank(i) # rank(j)
  BY <1>1, RankInjective, Zenon
<1>4. Len(new) \in Nat /\ \A n \in 1 .. Len(new) : new[n] \in Specs
  OBVIOUS
<1>5. \A n \in 1 .. fits : Nth(free, n) \in free /\ rank(Nth(free, n)) = n
  BY <1>1, <1>2, <1>4, NthIs
<1>6. fits \in Nat /\ fits <= Len(new)
  BY <1>2, <1>4
<1>7. insert_capability(k, owner, new) = [k |-> u, ok |-> fits = Len(new)]
  BY SlotsOf, Zenon DEF insert_capability
<1> HIDE DEF fits
<1>8. \A i \in S : i \in free <=> k.caps[i] = None
  BY SlotsOf, Zenon DEF FreeSlots
<1> HIDE DEF free
<1>9. ASSUME NEW i \in S, i \in free, rank(i) <= fits
      PROVE  /\ rank(i) \in 1 .. Len(new)
             /\ record(i) \in CapabilityRecords
             /\ record(i).id = k.next + rank(i) - 1 /\ record(i).owner = owner
             /\ record(i).object = new[rank(i)].object
             /\ record(i).rights = new[rank(i)].rights
             /\ record(i).parent = new[rank(i)].parent
  <2>1. rank(i) \in 1 .. Len(new)
    BY <1>2, <1>4, <1>6, <1>9
  <2>2. new[rank(i)] \in Specs
    BY <2>1, <1>4, Zenon
  <2>3. k.next \in Nat
    BY Zenon DEF Tables
  <2> HIDE DEF rank
  <2> QED
    BY <2>1, <2>2, <2>3 DEF NewRecord, CapabilityRecords, Specs
<1> HIDE DEF record, rank
<1>10. caps \in [S -> CapabilityRecords \cup {None}]
  BY <1>9, Zenon DEF Tables
<1>11. u \in Tables(S) /\ u.caps = caps /\ u.next = k.next + fits /\ u.domains = k.domains
  <2> HIDE DEF caps
  <2> QED
    BY <1>6, <1>10 DEF Tables
<1>12. \A i \in S : caps[i] = IF i \in free /\ rank(i) <= fits THEN record(i) ELSE k.caps[i]
  BY Zenon
<1> HIDE DEF caps, u
<1>13. k.next \in Nat /\ None \notin CapabilityRecords
  BY ConstantsAssumption, Zenon DEF Tables
<1>n. \A i \in S : k.caps[i] # None => k.caps[i] \in CapabilityRecords /\ k.caps[i].id \in Nat
  BY Zenon DEF Tables, CapabilityRecords
<1>14. FreshIds(S, u)
  <2>1. ASSUME NEW i \in S, caps[i] # None
        PROVE  caps[i].id < k.next + fits
    BY <2>1, <1>9, <1>12, <1>13, <1>6, <1>2, <1>n DEF FreshIds
  <2>2. ASSUME NEW i \in S, NEW j \in S, i # j, caps[i] # None, caps[j] # None
        PROVE  caps[i].id # caps[j].id
    <3>1. CASE i \in free /\ j \in free
      <4>1. rank(i) # rank(j) /\ rank(i) \in Nat /\ rank(j) \in Nat
        BY <3>1, <2>2, <1>3, <1>2
      <4>2. caps[i].id = k.next + rank(i) - 1 /\ caps[j].id = k.next + rank(j) - 1
        BY <3>1, <2>2, <1>8, <1>9, <1>12, Zenon
      <4> QED
        BY <4>1, <4>2, <1>13
    <3>0. \A a, b \in S : caps[a] # None /\ caps[b] # None /\ a \in free /\ b \notin free
                            => caps[b].id < caps[a].id /\ caps[a].id \in Nat /\ caps[b].id \in Nat
      <4> SUFFICES ASSUME NEW a \in S, NEW b \in S, caps[a] # None, caps[b] # None, a \in free, b \notin free
                   PROVE  caps[b].id < caps[a].id /\ caps[a].id \in Nat /\ caps[b].id \in Nat
        BY Zenon
      <4>1. caps[b] = k.caps[b] /\ k.caps[b].id \in Nat /\ k.caps[b].id < k.next
        BY <1>12, <1>n, Zenon DEF FreshIds
      <4>2. caps[a].id = k.next + rank(a) - 1 /\ rank(a) \in Nat /\ 1 <= rank(a)
        BY <1>8, <1>9, <1>12, <1>2, SMTT(30)
      <4> QED
        BY <4>1, <4>2, <1>13
    <3>2. CASE i \in free /\ j \notin free
      <4>1. caps[j].id < caps[i].id /\ caps[i].id \in Nat /\ caps[j].id \in Nat
        BY <3>2, <2>2, <3>0, Zenon
      <4> QED
        BY <4>1
    <3>3. CASE i \notin free /\ j \in free
      <4>1. caps[i].id < caps[j].id /\ caps[i].id \in Nat /\ caps[j].id \in Nat
        BY <3>3, <2>2, <3>0, Zenon
      <4> QED
        BY <4>1
    <3>4. CASE i \notin free /\ j \notin free
      BY <3>4, <2>2, <1>12, Zenon DEF FreshIds
    <3> QED
      BY <3>1, <3>2, <3>3, <3>4, Zenon
  <2> QED
    BY <2>1, <2>2, <1>11, Zenon DEF FreshIds
<1>15. \A i \in S : k.caps[i] # None => u.caps[i] = k.caps[i]
  BY <1>8, <1>11, <1>12, Zenon
<1>16. ASSUME NEW i \in S, k.caps[i] = None, u.caps[i] # None
       PROVE  /\ u.caps[i].owner = owner /\ k.next <= u.caps[i].id
              /\ \E n \in 1 .. Len(new) : /\ u.caps[i].object = new[n].object
                                         /\ u.caps[i].rights = new[n].rights
                                         /\ u.caps[i].parent = new[n].parent
  <2>1. i \in free /\ rank(i) <= fits /\ u.caps[i] = record(i)
    BY <1>16, <1>11, <1>12, Zenon
  <2>2. u.caps[i].id = k.next + rank(i) - 1 /\ rank(i) \in 1 .. Len(new)
    BY <2>1, <1>9, Zenon
  <2>3. k.next <= u.caps[i].id
    BY <2>2, <1>13
  <2> QED
    BY <2>1, <2>2, <2>3, <1>9, Zenon
<1>17. ASSUME fits = Len(new), NEW n \in 1 .. Len(new)
       PROVE  \E i \in S :
                  /\ u.caps[i] # None /\ u.caps[i].owner = owner
                  /\ u.caps[i].object = new[n].object /\ u.caps[i].rights = new[n].rights
  <2>1. PICK i \in free : rank(i) = n
    BY <1>17, <1>5, Zenon
  <2>2. i \in S /\ rank(i) <= fits
    BY <2>1, <1>1, <1>6, <1>17
  <2>3. u.caps[i] = record(i)
    BY <2>2, <1>11, <1>12, Zenon
  <2> QED
    BY <2>1, <2>2, <2>3, <1>9, <1>13, Zenon
<1>18. Inserted(S, k, owner, new, u, fits = Len(new))
  <2>1. k.next <= u.next
    BY <1>6, <1>11, <1>13
  <2> QED
    BY <2>1, <1>11, <1>14, <1>15, <1>16, <1>17, Zenon DEF Inserted
<1> QED
  BY <1>7, <1>18

\* What the credentials of a task say about a record it is seeded with.
SeedOf(what, creds) ==
    /\ what.parent = None
    /\ what.object.kind \in {"ServiceControl", "ModuleLoad", "ProcessHandle"} =>
          has_system_privilege(creds)
    /\ what.object = Object("PciDevice", AnyId) => "io" \in creds.capabilities

\* A seed for an object with an id is well formed.
LEMMA SeedIs ==
  ASSUME NEW kind \in Wild \cup Plain, NEW id \in Ids, NEW rights \in SUBSET Rights
  PROVE  /\ Seed(kind, id, rights) \in Specs
         /\ Seed(kind, id, rights).parent = None
         /\ Seed(kind, id, rights).object.kind = kind
         /\ Seed(kind, id, rights).object.id = id
<1> DEFINE o == Object(kind, id)
<1>1. o \in [kind : Wild \cup Plain, id : Ids] /\ o.kind = kind /\ o.id = id
  BY Zenon DEF Object
<1>2. o \in Objects
  BY <1>1, Zenon DEF Objects
<1> HIDE DEF o
<1> QED
  BY <1>1, <1>2, Zenon DEF Seed, Specs, o

\* A seed for a whole region is well formed.
LEMMA SeedAllIs ==
  ASSUME NEW kind \in RegionKinds
  PROVE  /\ SeedAll(kind) \in Specs
         /\ SeedAll(kind).parent = None
         /\ SeedAll(kind).object.kind = kind
<1> DEFINE o == Region(kind, 0, Top)
<1>1. o \in [kind : RegionKinds, base : Nat, length : Nat] /\ o.kind = kind
  BY Zenon DEF Region, Top
<1>2. o \in Objects
  BY <1>1, Zenon DEF Objects
<1>3. IoRights \in SUBSET Rights
  BY Zenon DEF IoRights, Rights
<1> HIDE DEF o
<1> QED
  BY <1>1, <1>2, <1>3, Zenon DEF SeedAll, Specs, o

\* Which kinds of object need which credentials.
LEMMA SeedOfKind ==
  ASSUME NEW w, NEW creds, w.parent = None,
         w.object.kind \in {"ServiceControl", "ModuleLoad", "ProcessHandle"} => has_system_privilege(creds),
         w.object.kind = "PciDevice" => "io" \in creds.capabilities
  PROVE  SeedOf(w, creds)
<1>1. Object("PciDevice", AnyId).kind = "PciDevice"
  BY Zenon DEF Object
<1> QED
  BY <1>1, Zenon DEF SeedOf

\* The seeds of a task follow its credentials, the two endpoints first.
LEMMA SeedsFollowCredentials ==
  ASSUME NEW pid \in Nat, NEW creds \in Credentials
  PROVE  /\ Seeds(pid, creds) \in Seq(Specs)
         /\ \A n \in 1 .. Len(Seeds(pid, creds)) : SeedOf(Seeds(pid, creds)[n], creds)
         /\ "ipc" \in creds.capabilities =>
               /\ 1 \in 1 .. Len(Seeds(pid, creds)) /\ 2 \in 1 .. Len(Seeds(pid, creds))
               /\ Seeds(pid, creds)[1] = Seed("IpcEndpoint", pid, EndpointRights)
               /\ Seeds(pid, creds)[2] = Seed("IpcEndpoint", AnyId, EndpointRights)
<1> DEFINE a == IpcSeeds(pid, creds)
           b == IoSeeds(creds)
           c == SystemSeeds(pid, creds)
           Good == {w \in Specs : SeedOf(w, creds)}
<1>0. /\ None \in Ids /\ pid \in Ids /\ AnyId \in Ids
      /\ IoRights \in SUBSET Rights /\ EndpointRights \in SUBSET Rights
      /\ ControlRights \in SUBSET Rights
  BY Zenon DEF Ids, Object, IoRights, EndpointRights, ControlRights, Rights
<1>1. a \in Seq(Good)
  <2>1. \A id \in Nat \cup {AnyId} : Seed("IpcEndpoint", id, EndpointRights) \in Good
    <3> SUFFICES ASSUME NEW id \in Nat \cup {AnyId}
                 PROVE  Seed("IpcEndpoint", id, EndpointRights) \in Good
      BY Zenon
    <3>1. id \in Ids
      BY Zenon DEF Ids
    <3> DEFINE w == Seed("IpcEndpoint", id, EndpointRights)
    <3>2. w \in Specs /\ w.parent = None /\ w.object.kind = "IpcEndpoint"
      BY <3>1, <1>0, SeedIs DEF Wild, Plain
    <3> HIDE DEF w
    <3> QED
      BY <3>2, SeedOfKind, Zenon DEF w
  <2>2. CASE "ipc" \in creds.capabilities
    <3>1. a = <<Seed("IpcEndpoint", pid, EndpointRights), Seed("IpcEndpoint", AnyId, EndpointRights)>>
      BY <2>2, Zenon DEF IpcSeeds
    <3>2. /\ Seed("IpcEndpoint", pid, EndpointRights) \in Good
          /\ Seed("IpcEndpoint", AnyId, EndpointRights) \in Good
      BY <2>1, Zenon
    <3> HIDE DEF Good, a
    <3> QED
      BY <3>1, <3>2
  <2>3. CASE "ipc" \notin creds.capabilities
    BY <2>3 DEF IpcSeeds
  <2> QED
    BY <2>2, <2>3, Zenon
<1>2. b \in Seq(Good)
  <2>1. CASE "io" \in creds.capabilities
    <3>1. \A kind \in {"PciDevice", "IrqLine"} : Seed(kind, AnyId, IoRights) \in Good
      <4> SUFFICES ASSUME NEW kind \in {"PciDevice", "IrqLine"}
                   PROVE  Seed(kind, AnyId, IoRights) \in Good
        BY Zenon
      <4> DEFINE w == Seed(kind, AnyId, IoRights)
      <4>1. w \in Specs /\ w.parent = None /\ w.object.kind = kind
        BY <1>0, SeedIs DEF Wild, Plain
      <4> HIDE DEF w
      <4> QED
        BY <2>1, <4>1, SeedOfKind, Zenon DEF w
    <3>2. \A kind \in {"DmaRegion", "MmioRegion"} : SeedAll(kind) \in Good
      <4> SUFFICES ASSUME NEW kind \in {"DmaRegion", "MmioRegion"}
                   PROVE  SeedAll(kind) \in Good
        BY Zenon
      <4> DEFINE w == SeedAll(kind)
      <4>1. w \in Specs /\ w.parent = None /\ w.object.kind = kind
        BY SeedAllIs, Zenon DEF RegionKinds
      <4> HIDE DEF w
      <4> QED
        BY <2>1, <4>1, SeedOfKind, Zenon DEF w
    <3>3. b = <<Seed("PciDevice", AnyId, IoRights), SeedAll("DmaRegion"),
                Seed("IrqLine", AnyId, IoRights), SeedAll("MmioRegion")>>
      BY <2>1, Zenon DEF IoSeeds
    <3>4. /\ Seed("PciDevice", AnyId, IoRights) \in Good /\ SeedAll("DmaRegion") \in Good
          /\ Seed("IrqLine", AnyId, IoRights) \in Good /\ SeedAll("MmioRegion") \in Good
      BY <3>1, <3>2, Zenon
    <3> HIDE DEF Good, b
    <3> QED
      BY <3>3, <3>4
  <2>2. CASE "io" \notin creds.capabilities
    BY <2>2 DEF IoSeeds
  <2> QED
    BY <2>1, <2>2, Zenon
<1>3. c \in Seq(Good)
  <2>1. CASE has_system_privilege(creds)
    <3>1. \A kind \in {"ServiceControl", "ModuleLoad", "ProcessHandle"}, id \in Ids :
             Seed(kind, id, ControlRights) \in Good
      <4> SUFFICES ASSUME NEW kind \in {"ServiceControl", "ModuleLoad", "ProcessHandle"}, NEW id \in Ids
                   PROVE  Seed(kind, id, ControlRights) \in Good
        BY Zenon
      <4> DEFINE w == Seed(kind, id, ControlRights)
      <4>1. w \in Specs /\ w.parent = None /\ w.object.kind = kind
        BY <1>0, SeedIs DEF Wild, Plain
      <4> HIDE DEF w
      <4> QED
        BY <2>1, <4>1, SeedOfKind, Zenon DEF w
    <3>2. Seed("MemoryObject", AnyId, IoRights) \in Good
      <4> DEFINE w == Seed("MemoryObject", AnyId, IoRights)
      <4>1. w \in Specs /\ w.parent = None /\ w.object.kind = "MemoryObject"
        BY <1>0, SeedIs DEF Wild, Plain
      <4> HIDE DEF w
      <4> QED
        BY <2>1, <4>1, SeedOfKind, Zenon DEF w
    <3>3. c = <<Seed("ServiceControl", None, ControlRights), Seed("ModuleLoad", None, ControlRights),
                Seed("ProcessHandle", pid, ControlRights), Seed("ProcessHandle", AnyId, ControlRights),
                Seed("MemoryObject", AnyId, IoRights)>>
      BY <2>1, Zenon DEF SystemSeeds
    <3>4. /\ Seed("ServiceControl", None, ControlRights) \in Good
          /\ Seed("ModuleLoad", None, ControlRights) \in Good
          /\ Seed("ProcessHandle", pid, ControlRights) \in Good
          /\ Seed("ProcessHandle", AnyId, ControlRights) \in Good
      BY <3>1, <1>0, Zenon
    <3> HIDE DEF Good, c
    <3> QED
      BY <3>2, <3>3, <3>4
  <2>2. CASE ~has_system_privilege(creds)
    BY <2>2 DEF SystemSeeds
  <2> QED
    BY <2>1, <2>2, Zenon
<1>4. "ipc" \in creds.capabilities => Len(a) = 2 /\ a[1] = Seed("IpcEndpoint", pid, EndpointRights)
                                     /\ a[2] = Seed("IpcEndpoint", AnyId, EndpointRights)
  BY Zenon DEF IpcSeeds
<1>5. Seeds(pid, creds) = a \o b \o c
  BY Zenon DEF Seeds
<1> HIDE DEF a, b, c, Good
<1>6. a \o b \in Seq(Good)
  BY <1>1, <1>2
<1>7. a \o b \o c \in Seq(Good)
  BY <1>6, <1>3
<1>8. "ipc" \in creds.capabilities => Len(a \o b) >= 2 /\ (a \o b)[1] = a[1] /\ (a \o b)[2] = a[2]
  BY <1>1, <1>2, <1>4
<1>9. "ipc" \in creds.capabilities =>
         /\ Len(a \o b \o c) >= 2
         /\ (a \o b \o c)[1] = a[1] /\ (a \o b \o c)[2] = a[2]
  BY <1>6, <1>3, <1>8
<1>10. Len(a \o b \o c) \in Nat /\ \A n \in 1 .. Len(a \o b \o c) : (a \o b \o c)[n] \in Good
  BY <1>7
<1>11. a \o b \o c \in Seq(Specs)
  BY <1>7 DEF Good
<1> QED
  BY <1>4, <1>5, <1>9, <1>10, <1>11 DEF Good

\* A known task has one slot.
LEMMA DomainIs ==
  ASSUME NEW k, OneDomain(k), NEW p, Known(k, p)
  PROVE  \E i \in DomainSlots : /\ k.domains[i] # None /\ k.domains[i].pid = p
                               /\ domain(k, p) = k.domains[i].creds
                               /\ DomainOf(k, p) = {i} /\ Least(DomainOf(k, p)) = i
<1>1. PICK i \in DomainSlots : k.domains[i] # None /\ k.domains[i].pid = p
  BY Zenon DEF Known, DomainOf
<1>2. DomainOf(k, p) = {i}
  BY <1>1, Zenon DEF DomainOf, OneDomain
<1>3. i \in Int
  BY DEF DomainSlots
<1>4. Least({i}) = i
  BY <1>3 DEF Least
<1> QED
  BY <1>1, <1>2, <1>4, Zenon DEF domain

\* Tasks and their credentials are the same in k and u, but for pid.
OthersKept(k, u, pid) ==
    \A q : q # pid => /\ Known(u, q) <=> Known(k, q)
                      /\ Known(k, q) => domain(u, q) = domain(k, q)

\* Who is known depends on the domain table alone.
LEMMA SameDomains ==
  ASSUME NEW k, NEW u, OneDomain(k), u.domains = k.domains
  PROVE  OneDomain(u) /\ \A q : Known(u, q) = Known(k, q) /\ domain(u, q) = domain(k, q)
BY Zenon DEF OneDomain, Known, domain, DomainOf

\* Writing an entry into a slot that was free, or its own, changes that task only.
LEMMA SetDomain ==
  ASSUME NEW k, OneDomain(k), k.domains \in [DomainSlots -> Entries \cup {None}],
         NEW pid \in Nat, NEW creds \in Credentials, NEW i \in DomainSlots,
         \/ k.domains[i] = None /\ ~Known(k, pid)
         \/ k.domains[i] # None /\ k.domains[i].pid = pid,
         NEW u, u.domains = [k.domains EXCEPT ![i] = [pid |-> pid, creds |-> creds]]
  PROVE  /\ u.domains \in [DomainSlots -> Entries \cup {None}] /\ OneDomain(u)
         /\ Known(u, pid) /\ domain(u, pid) = creds
         /\ OthersKept(k, u, pid)
<1> DEFINE e == [pid |-> pid, creds |-> creds]
<1>1. e \in Entries /\ e # None /\ e.pid = pid /\ e.creds = creds
  BY ConstantsAssumption DEF Entries
<1> HIDE DEF e
<1>2. \A j \in DomainSlots : u.domains[j] = IF j = i THEN e ELSE k.domains[j]
  BY Zenon DEF e
<1>3. u.domains \in [DomainSlots -> Entries \cup {None}]
  BY <1>1, Zenon DEF e
<1>4. \A j \in DomainSlots : j # i /\ k.domains[j] # None => k.domains[j].pid # pid
  BY Zenon DEF Known, DomainOf, OneDomain
<1>5. OneDomain(u)
  BY <1>1, <1>2, <1>4 DEF OneDomain
<1>6. Known(u, pid)
  BY <1>1, <1>2, Zenon DEF Known, DomainOf
<1>7. domain(u, pid) = creds
  BY <1>1, <1>2, <1>4, <1>5, <1>6, DomainIs
<1>8. ASSUME NEW q, q # pid
      PROVE  DomainOf(u, q) = DomainOf(k, q) /\ i \notin DomainOf(u, q)
  BY <1>8, <1>1, <1>2, Zenon DEF DomainOf
<1>9. ASSUME NEW q, q # pid, Known(k, q)
      PROVE  domain(u, q) = domain(k, q)
  <2>1. PICK j \in DomainSlots : DomainOf(k, q) = {j} /\ Least(DomainOf(k, q)) = j
    BY <1>9, DomainIs
  <2>2. j # i /\ Least(DomainOf(u, q)) = j
    BY <2>1, <1>8, <1>9, Zenon
  <2> QED
    BY <2>1, <2>2, <1>2, Zenon DEF domain
<1> QED
  BY <1>3, <1>5, <1>6, <1>7, <1>8, <1>9, Zenon DEF OthersKept, Known

\* Clearing the entries of a pid forgets that task only.
LEMMA DropDomain ==
  ASSUME NEW k, OneDomain(k), k.domains \in [DomainSlots -> Entries \cup {None}],
         NEW pid, NEW u,
         u.domains = [i \in DomainSlots |-> IF i \in DomainOf(k, pid) THEN None ELSE k.domains[i]]
  PROVE  /\ u.domains \in [DomainSlots -> Entries \cup {None}] /\ OneDomain(u)
         /\ ~Known(u, pid) /\ OthersKept(k, u, pid)
<1>1. \A i \in DomainSlots : u.domains[i] = IF i \in DomainOf(k, pid) THEN None ELSE k.domains[i]
  BY Zenon
<1>2. u.domains \in [DomainSlots -> Entries \cup {None}]
  BY Zenon
<1>3. OneDomain(u)
  BY <1>1, Zenon DEF OneDomain
<1>4. ~Known(u, pid)
  BY <1>1, Zenon DEF Known, DomainOf
<1>5. ASSUME NEW q, q # pid PROVE DomainOf(u, q) = DomainOf(k, q)
  BY <1>5, <1>1, Zenon DEF DomainOf
<1>6. ASSUME NEW q, q # pid, Known(k, q)
      PROVE  domain(u, q) = domain(k, q)
  <2>1. PICK j \in DomainSlots : k.domains[j].pid = q /\ Least(DomainOf(k, q)) = j
    BY <1>6, DomainIs
  <2>2. u.domains[j] = k.domains[j]
    BY <2>1, <1>1, <1>6, Zenon DEF DomainOf
  <2> QED
    BY <2>1, <2>2, <1>5, <1>6, Zenon DEF domain
<1> QED
  BY <1>2, <1>3, <1>4, <1>5, <1>6, Zenon DEF OthersKept, Known

\* Slot by slot, u has what k has, or nothing.
Fewer(S, k, u) ==
    /\ u \in Tables(S) /\ FreshIds(S, u) /\ u.next = k.next
    /\ \A i \in S : u.caps[i] # None => u.caps[i] = k.caps[i]

\* revoke_all_capabilities clears the records of their owner and no others.
LEMMA RevokeAllRevokes ==
  ASSUME NEW S, NEW k \in Tables(S), FreshIds(S, k), NEW owner
  PROVE  LET u == revoke_all_capabilities(k, owner) IN
         /\ Fewer(S, k, u) /\ u.domains = k.domains
         /\ \A i \in S : u.caps[i] # None => u.caps[i].owner # owner
         /\ \A i \in S : k.caps[i] # None /\ k.caps[i].owner # owner => u.caps[i] = k.caps[i]
<1> DEFINE u == revoke_all_capabilities(k, owner)
           caps == [i \in S |-> IF k.caps[i] # None /\ k.caps[i].owner = owner THEN None ELSE k.caps[i]]
<1>1. caps \in [S -> CapabilityRecords \cup {None}]
  BY Zenon DEF Tables
<1>2. u = [k EXCEPT !.caps = caps]
  BY SlotsOf, Zenon DEF revoke_all_capabilities
<1>3. \A i \in S : caps[i] = IF k.caps[i] # None /\ k.caps[i].owner = owner THEN None ELSE k.caps[i]
  BY Zenon
<1> HIDE DEF caps
<1>4. u \in Tables(S) /\ u.caps = caps /\ u.next = k.next /\ u.domains = k.domains
  BY <1>1, <1>2, Zenon DEF Tables
<1> HIDE DEF u
<1>5. FreshIds(S, u)
  <2>1. \A i \in S : u.caps[i] # None => k.caps[i] # None /\ u.caps[i] = k.caps[i]
    BY <1>3, <1>4, Zenon
  <2> QED
    BY <2>1, <1>4, Zenon DEF FreshIds
<1> QED
  BY <1>3, <1>4, <1>5, Zenon DEF Fewer, u

\* revoke_task forgets the task with its records and nothing else.
LEMMA RevokeTaskRevokes ==
  ASSUME NEW S, NEW k \in Tables(S), FreshIds(S, k), OneDomain(k), NEW pid
  PROVE  LET u == revoke_task(k, pid) IN
         /\ Fewer(S, k, u) /\ OneDomain(u) /\ ~Known(u, pid) /\ OthersKept(k, u, pid)
         /\ \A i \in S : u.caps[i] # None => u.caps[i].owner # pid
         /\ \A i \in S : k.caps[i] # None /\ k.caps[i].owner # pid => u.caps[i] = k.caps[i]
<1> DEFINE doms == [i \in DomainSlots |-> IF i \in DomainOf(k, pid) THEN None ELSE k.domains[i]]
           v == [k EXCEPT !.domains = doms]
           u == revoke_all_capabilities(v, pid)
<1>1. doms \in [DomainSlots -> Entries \cup {None}]
  BY Zenon DEF Tables
<1> HIDE DEF doms
<1>2. v \in Tables(S) /\ v.domains = doms /\ v.caps = k.caps /\ v.next = k.next
  BY <1>1, Zenon DEF Tables
<1>3. FreshIds(S, v)
  BY <1>2, Zenon DEF FreshIds
<1> HIDE DEF v
<1>4. OneDomain(v) /\ ~Known(v, pid) /\ OthersKept(k, v, pid)
  <2>1. k.domains \in [DomainSlots -> Entries \cup {None}]
    BY Zenon DEF Tables
  <2> QED
    BY <2>1, <1>2, DropDomain, ZenonT(30) DEF doms
<1>5. /\ Fewer(S, v, u) /\ u.domains = v.domains
      /\ \A i \in S : u.caps[i] # None => u.caps[i].owner # pid
      /\ \A i \in S : v.caps[i] # None /\ v.caps[i].owner # pid => u.caps[i] = v.caps[i]
  BY <1>2, <1>3, RevokeAllRevokes
<1>6. revoke_task(k, pid) = u
  BY Zenon DEF revoke_task, v, doms
<1> HIDE DEF u
<1>7. OneDomain(u) /\ ~Known(u, pid) /\ OthersKept(k, u, pid)
  BY <1>4, <1>5, SameDomains DEF OthersKept
<1> QED
  BY <1>2, <1>5, <1>6, <1>7, Zenon DEF Fewer

\* revoke_capability clears the record and those derived from it.
LEMMA RevokedRevokes ==
  ASSUME NEW S, NEW k \in Tables(S), FreshIds(S, k), NEW id
  PROVE  LET u == Revoked(k, id) IN
         /\ Fewer(S, k, u) /\ u.domains = k.domains
         /\ \A i \in S : u.caps[i] # None => u.caps[i].id # id /\ u.caps[i].parent # id
<1> DEFINE u == Revoked(k, id)
           caps == [i \in S |-> IF k.caps[i] # None /\ id \in {k.caps[i].id, k.caps[i].parent}
                                      THEN None ELSE k.caps[i]]
<1>1. caps \in [S -> CapabilityRecords \cup {None}]
  BY Zenon DEF Tables
<1>2. u = [k EXCEPT !.caps = caps]
  BY SlotsOf, Zenon DEF Revoked
<1>3. \A i \in S : caps[i] = IF k.caps[i] # None /\ id \in {k.caps[i].id, k.caps[i].parent}
                                    THEN None ELSE k.caps[i]
  BY Zenon
<1> HIDE DEF caps
<1>4. u \in Tables(S) /\ u.caps = caps /\ u.next = k.next /\ u.domains = k.domains
  BY <1>1, <1>2, Zenon DEF Tables
<1> HIDE DEF u
<1>5. FreshIds(S, u)
  <2>1. \A i \in S : u.caps[i] # None => k.caps[i] # None /\ u.caps[i] = k.caps[i]
    BY <1>3, <1>4, Zenon
  <2> QED
    BY <2>1, <1>4, Zenon DEF FreshIds
<1> QED
  BY <1>3, <1>4, <1>5, Zenon DEF Fewer, u

\* The endpoint capability for id that a task is seeded with.
Endpoint(S, k, p, id) ==
    \E i \in S : /\ k.caps[i] # None /\ k.caps[i].owner = p
                        /\ k.caps[i].object = Object("IpcEndpoint", id)
                        /\ k.caps[i].rights = EndpointRights
Endpoints(S, k, p) == Endpoint(S, k, p, p) /\ Endpoint(S, k, p, AnyId)

\* What seeding leaves: the records there were, and seeds that follow from the credentials,
\* the endpoints among them when all fits.
Seeded(S, k, pid, creds, u, ok) ==
    /\ u \in Tables(S) /\ FreshIds(S, u) /\ u.domains = k.domains /\ k.next <= u.next
    /\ \A i \in S : k.caps[i] # None => u.caps[i] = k.caps[i]
    /\ \A i \in S : u.caps[i] # None =>
          \/ u.caps[i] = k.caps[i]
          \/ k.next <= u.caps[i].id /\ u.caps[i].owner = pid /\ SeedOf(u.caps[i], creds)
    /\ ok /\ "ipc" \in creds.capabilities => Endpoints(S, u, pid)

\* Seeding inserts what follows from the credentials, and the endpoints when all fits.
LEMMA SeedingSeeds ==
  ASSUME NEW S \in SUBSET Nat, IsFiniteSet(S), NEW k \in Tables(S), FreshIds(S, k),
         NEW pid \in Nat, NEW creds \in Credentials
  PROVE  LET r == seed_initial_capabilities(k, pid, creds) IN Seeded(S, k, pid, creds, r.k, r.ok)
<1> DEFINE new == Seeds(pid, creds)
           r == insert_capability(k, pid, new)
<1>1. /\ new \in Seq(Specs)
      /\ \A n \in 1 .. Len(new) : SeedOf(new[n], creds)
      /\ "ipc" \in creds.capabilities =>
            /\ 1 \in 1 .. Len(new) /\ 2 \in 1 .. Len(new)
            /\ new[1] = Seed("IpcEndpoint", pid, EndpointRights)
            /\ new[2] = Seed("IpcEndpoint", AnyId, EndpointRights)
  BY SeedsFollowCredentials, Zenon
<1> HIDE DEF new
<1>2. Inserted(S, k, pid, new, r.k, r.ok)
  BY <1>1, InsertInserts, Zenon
<1>3. seed_initial_capabilities(k, pid, creds) = r
  BY Zenon DEF seed_initial_capabilities, new
<1> HIDE DEF r
<1>4. ASSUME NEW i \in S, r.k.caps[i] # None, k.caps[i] = None
      PROVE  k.next <= r.k.caps[i].id /\ r.k.caps[i].owner = pid /\ SeedOf(r.k.caps[i], creds)
  BY <1>1, <1>2, <1>4 DEF Inserted, SeedOf
<1>5. ASSUME r.ok, "ipc" \in creds.capabilities
      PROVE  Endpoints(S, r.k, pid)
  <2>1. \A id : /\ Seed("IpcEndpoint", id, EndpointRights).object = Object("IpcEndpoint", id)
                /\ Seed("IpcEndpoint", id, EndpointRights).rights = EndpointRights
    BY Zenon DEF Seed
  <2>2. \A n \in 1 .. Len(new) : \E i \in S :
                  /\ r.k.caps[i] # None /\ r.k.caps[i].owner = pid
                  /\ r.k.caps[i].object = new[n].object /\ r.k.caps[i].rights = new[n].rights
    BY <1>2, <1>5, Zenon DEF Inserted
  <2>3. Endpoint(S, r.k, pid, pid)
    <3>1. new[1].object = Object("IpcEndpoint", pid) /\ new[1].rights = EndpointRights
      BY <1>1, <1>5, <2>1, Zenon
    <3> QED
      BY <1>1, <1>5, <2>2, <3>1, ZenonT(30) DEF Endpoint
  <2>4. Endpoint(S, r.k, pid, AnyId)
    <3>1. new[2].object = Object("IpcEndpoint", AnyId) /\ new[2].rights = EndpointRights
      BY <1>1, <1>5, <2>1, Zenon
    <3> QED
      BY <1>1, <1>5, <2>2, <3>1, ZenonT(30) DEF Endpoint
  <2> QED
    BY <2>3, <2>4, Zenon DEF Endpoints
<1> QED
  BY <1>2, <1>3, <1>4, <1>5, Zenon DEF Inserted, Seeded

\* What register_task leaves: the task with the new credentials and its seeds, or as it was.
Registered(S, k, pid, creds, u, ok) ==
    /\ u \in Tables(S) /\ OneDomain(u) /\ FreshIds(S, u) /\ k.next <= u.next
    /\ OthersKept(k, u, pid)
    /\ ok => /\ Known(u, pid) /\ domain(u, pid) = creds
             /\ "ipc" \in creds.capabilities => Endpoints(S, u, pid)
    /\ ~ok => /\ Known(u, pid) <=> Known(k, pid)
              /\ domain(u, pid) = domain(k, pid)
              /\ Known(k, pid) => \A i \in S : u.caps[i] # None => u.caps[i] = k.caps[i]
    /\ \A i \in S : k.caps[i] # None /\ k.caps[i].owner # pid => u.caps[i] = k.caps[i]
    /\ \A i \in S : u.caps[i] # None =>
          \/ u.caps[i] = k.caps[i]
          \/ k.next <= u.caps[i].id /\ u.caps[i].owner = pid /\ SeedOf(u.caps[i], creds)

\* A task that is known gets the new credentials and the seeds they give, or keeps the old
\* ones and nothing.
LEMMA ReregisterRegisters ==
  ASSUME NEW S \in SUBSET Nat, IsFiniteSet(S), NEW k \in Tables(S), OneDomain(k), FreshIds(S, k),
         NEW pid \in Nat, NEW creds \in Credentials, Known(k, pid)
  PROVE  LET r == register_task(k, pid, creds) IN Registered(S, k, pid, creds, r.k, r.ok)
<1> DEFINE entry == [pid |-> pid, creds |-> creds]
           at == Least(DomainOf(k, pid))
           v == [k EXCEPT !.domains[at] = entry]
           w == revoke_all_capabilities(v, pid)
           again == seed_initial_capabilities(w, pid, creds)
           back == [revoke_all_capabilities(again.k, pid) EXCEPT !.domains = k.domains]
<1>0. k.domains \in [DomainSlots -> Entries \cup {None}] /\ k.next \in Nat
  BY Zenon DEF Tables
<1>1. at \in DomainSlots /\ k.domains[at] # None /\ k.domains[at].pid = pid
  BY DomainIs
<1> HIDE DEF at
<1>2. v.domains = [k.domains EXCEPT ![at] = entry] /\ v.caps = k.caps /\ v.next = k.next
  BY Zenon DEF Tables
<1>3. /\ v.domains \in [DomainSlots -> Entries \cup {None}] /\ OneDomain(v)
      /\ Known(v, pid) /\ domain(v, pid) = creds /\ OthersKept(k, v, pid)
  <2> HIDE DEF v
  <2> QED
    BY <1>0, <1>1, <1>2, SetDomain, SMTT(30)
<1>4. v \in Tables(S)
  <2>1. v = [k EXCEPT !.domains = [k.domains EXCEPT ![at] = entry]]
    BY Zenon
  <2> QED
    BY <2>1, <1>2, <1>3, Zenon DEF Tables
<1> HIDE DEF v
<1>5. FreshIds(S, v)
  BY <1>2, Zenon DEF FreshIds
<1>6. /\ Fewer(S, v, w) /\ w.domains = v.domains
      /\ \A i \in S : w.caps[i] # None => w.caps[i].owner # pid
      /\ \A i \in S : v.caps[i] # None /\ v.caps[i].owner # pid => w.caps[i] = v.caps[i]
  BY <1>4, <1>5, RevokeAllRevokes, SMTT(30)
<1> HIDE DEF w
<1>7. Seeded(S, w, pid, creds, again.k, again.ok)
  BY <1>6, SeedingSeeds, Zenon DEF Fewer
<1>8. register_task(k, pid, creds) =
         IF again.ok THEN again ELSE [k |-> back, ok |-> FALSE]
  BY Zenon DEF register_task, at, v, w
<1> HIDE DEF again
<1>9. CASE again.ok
  <2>1. OneDomain(again.k) /\ \A q : Known(again.k, q) = Known(v, q) /\ domain(again.k, q) = domain(v, q)
    BY <1>3, <1>6, <1>7, SameDomains DEF Seeded
  <2>2. \A i \in S : k.caps[i] # None /\ k.caps[i].owner # pid => again.k.caps[i] = k.caps[i]
    BY <1>2, <1>6, <1>7, Zenon DEF Seeded
  <2>3. \A i \in S : again.k.caps[i] # None =>
          \/ again.k.caps[i] = k.caps[i]
          \/ k.next <= again.k.caps[i].id /\ again.k.caps[i].owner = pid /\ SeedOf(again.k.caps[i], creds)
    BY <1>2, <1>6, <1>7, Zenon DEF Fewer, Seeded
  <2>4. Registered(S, k, pid, creds, again.k, again.ok)
    BY <1>2, <1>3, <1>6, <1>7, <1>9, <2>1, <2>2, <2>3, Zenon DEF Registered, OthersKept, Fewer, Seeded
  <2> QED
    BY <1>8, <1>9, <2>4, Zenon
<1>10. CASE ~again.ok
  <2> DEFINE x == revoke_all_capabilities(again.k, pid)
  <2>1. /\ Fewer(S, again.k, x)
        /\ \A i \in S : x.caps[i] # None => x.caps[i].owner # pid
        /\ \A i \in S : again.k.caps[i] # None /\ again.k.caps[i].owner # pid
                                 => x.caps[i] = again.k.caps[i]
    BY <1>7, RevokeAllRevokes DEF Seeded
  <2> HIDE DEF x
  <2>2. back = [x EXCEPT !.domains = k.domains]
    BY Zenon DEF x
  <2>3. back \in Tables(S) /\ back.domains = k.domains /\ back.caps = x.caps /\ back.next = x.next
    BY <2>1, <2>2, <1>0, Zenon DEF Tables, Fewer
  <2> HIDE DEF back
  <2>4. FreshIds(S, back)
    BY <2>1, <2>3 DEF FreshIds, Fewer
  <2>5. OneDomain(back) /\ \A q : Known(back, q) = Known(k, q) /\ domain(back, q) = domain(k, q)
    BY <2>3, SameDomains, Zenon
  <2>6. \A i \in S : k.caps[i] # None /\ k.caps[i].owner # pid => back.caps[i] = k.caps[i]
    BY <1>2, <1>6, <1>7, <2>1, <2>3, SMTT(30) DEF Seeded
  <2>7. \A i \in S : back.caps[i] # None => back.caps[i] = k.caps[i]
    BY <1>2, <1>6, <1>7, <2>1, <2>3 DEF Fewer, Seeded
  <2>8. k.next <= back.next
    BY <1>2, <1>6, <1>7, <2>1, <2>3, Zenon DEF Fewer, Seeded
  <2>9. Registered(S, k, pid, creds, back, FALSE)
    BY <2>3, <2>4, <2>5, <2>6, <2>7, <2>8, Zenon DEF Registered, OthersKept
  <2>a. register_task(k, pid, creds) = [k |-> back, ok |-> FALSE]
    BY <1>8, <1>10, Zenon
  <2>b. register_task(k, pid, creds).k = back /\ register_task(k, pid, creds).ok = FALSE
    BY <2>a
  <2> QED
    BY <2>b, <2>9, ZenonT(30)
<1> QED
  BY <1>9, <1>10, Zenon

\* A new task is known with its seeds, or not at all; then some of its seeds may be left.
LEMMA RegisterRegisters ==
  ASSUME NEW S \in SUBSET Nat, IsFiniteSet(S), NEW k \in Tables(S), OneDomain(k), FreshIds(S, k),
         NEW pid \in Nat, NEW creds \in Credentials, ~Known(k, pid)
  PROVE  LET r == register_task(k, pid, creds) IN Registered(S, k, pid, creds, r.k, r.ok)
<1> DEFINE entry == [pid |-> pid, creds |-> creds]
           free == {i \in DomainSlots : k.domains[i] = None}
           v == [k EXCEPT !.domains[Least(free)] = entry]
           first == seed_initial_capabilities(v, pid, creds)
           back == [first.k EXCEPT !.domains = k.domains]
<1>0. k.domains \in [DomainSlots -> Entries \cup {None}] /\ k.next \in Nat
  BY Zenon DEF Tables
<1>1. register_task(k, pid, creds) =
         IF free = {} THEN [k |-> k, ok |-> FALSE]
         ELSE IF first.ok THEN first ELSE [k |-> back, ok |-> FALSE]
  BY Zenon DEF register_task
<1>2. CASE free = {}
  <2>1. Registered(S, k, pid, creds, k, FALSE)
    BY <1>0 DEF Registered, OthersKept
  <2> HIDE DEF free, first, back
  <2>a. register_task(k, pid, creds) = [k |-> k, ok |-> FALSE]
    BY <1>1, <1>2, Zenon
  <2>b. register_task(k, pid, creds).k = k /\ register_task(k, pid, creds).ok = FALSE
    BY <2>a
  <2> QED
    BY <2>b, <2>1, Zenon
<1>3. CASE free # {}
  <2> DEFINE at == Least(free)
  <2>1. at \in free
    <3>1. free \in SUBSET Nat
      BY SlotsAreNumbers, Zenon
    <3> QED
      BY <3>1, <1>3, LeastIs, Zenon
  <2>2. at \in DomainSlots /\ k.domains[at] = None
    BY <2>1, Zenon
  <2> HIDE DEF at
  <2>3. v.domains = [k.domains EXCEPT ![at] = entry] /\ v.caps = k.caps /\ v.next = k.next
    BY Zenon DEF Tables, at
  <2>4. /\ v.domains \in [DomainSlots -> Entries \cup {None}] /\ OneDomain(v)
        /\ Known(v, pid) /\ domain(v, pid) = creds /\ OthersKept(k, v, pid)
    <3> HIDE DEF v
    <3> QED
      BY <1>0, <2>2, <2>3, SetDomain, Zenon
  <2>5. v \in Tables(S)
    <3>1. v = [k EXCEPT !.domains = [k.domains EXCEPT ![at] = entry]]
      BY Zenon DEF at
    <3> QED
      BY <3>1, <2>3, <2>4, Zenon DEF Tables
  <2> HIDE DEF v, free
  <2>6. FreshIds(S, v)
    BY <2>3, Zenon DEF FreshIds
  <2>7. Seeded(S, v, pid, creds, first.k, first.ok)
    BY <2>5, <2>6, SeedingSeeds, Zenon
  <2> HIDE DEF first
  <2>8. CASE first.ok
    <3>1. OneDomain(first.k) /\ \A q : Known(first.k, q) = Known(v, q) /\ domain(first.k, q) = domain(v, q)
      BY <2>4, <2>7, SameDomains, ZenonT(30) DEF Seeded
    <3>2. Registered(S, k, pid, creds, first.k, first.ok)
      BY <2>3, <2>4, <2>7, <2>8, <3>1 DEF Registered, OthersKept, Seeded
    <3> QED
      BY <1>1, <1>3, <2>8, <3>2, Zenon
  <2>9. CASE ~first.ok
    <3>1. /\ back \in Tables(S) /\ back.domains = k.domains /\ back.caps = first.k.caps
          /\ back.next = first.k.next
      BY <2>7, <1>0, Zenon DEF Tables, Seeded
    <3> HIDE DEF back
    <3>2. FreshIds(S, back)
      <4>1. \A x, y : x.caps = y.caps /\ x.next = y.next /\ FreshIds(S, x) => FreshIds(S, y)
        BY ZenonT(30) DEF FreshIds
      <4> QED
        BY <2>7, <3>1, <4>1, Zenon DEF Seeded
    <3>3. OneDomain(back) /\ \A q : Known(back, q) = Known(k, q) /\ domain(back, q) = domain(k, q)
      BY <3>1, SameDomains, Zenon
    <3>4. Registered(S, k, pid, creds, back, FALSE)
      BY <2>3, <2>7, <3>1, <3>2, <3>3, Zenon DEF Registered, OthersKept, Seeded
    <3>a. register_task(k, pid, creds) = [k |-> back, ok |-> FALSE]
      BY <1>1, <1>3, <2>9, Zenon
    <3>b. register_task(k, pid, creds).k = back /\ register_task(k, pid, creds).ok = FALSE
      BY <3>a
    <3> QED
      BY <3>b, <3>4, Zenon
  <2> QED
    BY <2>8, <2>9, Zenon
<1> QED
  BY <1>2, <1>3, Zenon

\* x was handed on from r.
ChildOf(x, r) == x.parent = r.id /\ x.object = r.object /\ x.rights = inherited_child(r.rights)

\* Every new record of the child was handed on by a record of the parent.
LEMMA DeriveDerives ==
  ASSUME NEW S \in SUBSET Nat, IsFiniteSet(S), NEW k \in Tables(S), FreshIds(S, k), NEW parent, NEW child \in Nat
  PROVE  LET r == derive_inherited_child_capabilities(k, parent, child) IN
         /\ r.k \in Tables(S) /\ FreshIds(S, r.k) /\ r.k.domains = k.domains /\ k.next <= r.k.next
         /\ \A i \in S : k.caps[i] # None => r.k.caps[i] = k.caps[i]
         /\ \A i \in S : r.k.caps[i] # None =>
               \/ r.k.caps[i] = k.caps[i]
               \/ /\ k.next <= r.k.caps[i].id /\ r.k.caps[i].owner = child /\ Known(k, parent)
                  /\ \E j \in S : /\ k.caps[j] # None /\ k.caps[j].owner = parent
                                         /\ ChildOf(r.k.caps[i], k.caps[j])
<1> DEFINE given == {i \in S : /\ k.caps[i] # None /\ k.caps[i].owner = parent
                                     /\ "Transfer" \in k.caps[i].rights}
           new == [n \in 1 .. Cardinality(given) |-> Child(k.caps[Nth(given, n)])]
           r == insert_capability(k, child, new)
           d == derive_inherited_child_capabilities(k, parent, child)
<1>1. CASE ~Known(k, parent) \/ ~Known(k, child)
  <2>1. d = [k |-> k, ok |-> FALSE]
    BY <1>1, Zenon DEF derive_inherited_child_capabilities
  <2>2. d.k = k /\ k.next \in Nat
    BY <2>1 DEF Tables
  <2> HIDE DEF d
  <2> QED
    BY <2>2 DEF d
<1>2. CASE Known(k, parent) /\ Known(k, child)
  <2>1. d = r
    BY <1>2, SlotsOf, Zenon DEF derive_inherited_child_capabilities
  <2>2. given \in SUBSET S /\ given \in SUBSET Nat /\ IsFiniteSet(given)
    BY FS_Subset, Zenon DEF Tables
  <2>3. Cardinality(given) \in Nat
    BY <2>2, FS_CardinalityType, Zenon
  <2>4. \A n \in 1 .. Cardinality(given) : Nth(given, n) \in given
    BY <2>2, NthIs, Zenon
  <2>5. \A i \in given : /\ i \in S /\ k.caps[i] # None /\ k.caps[i].owner = parent
                         /\ k.caps[i] \in CapabilityRecords
    BY Zenon DEF Tables
  <2>6. \A x \in CapabilityRecords : Child(x) \in Specs /\ ChildOf(Child(x), x)
    <3> SUFFICES ASSUME NEW x \in CapabilityRecords
                 PROVE  Child(x) \in Specs /\ ChildOf(Child(x), x)
      BY Zenon
    <3>1. x.rights \in SUBSET Rights /\ x.id \in Nat /\ x.object \in Objects
      BY Zenon DEF CapabilityRecords
    <3>2. inherited_child(x.rights) \in SUBSET Rights
      BY <3>1, Zenon DEF inherited_child
    <3> QED
      BY <3>1, <3>2, Zenon DEF Child, ChildOf, Specs
  <2> HIDE DEF given
  <2>7. \A n \in 1 .. Cardinality(given) : Child(k.caps[Nth(given, n)]) \in Specs
    BY <2>4, <2>5, <2>6, Zenon
  <2>8. new \in Seq(Specs) /\ Len(new) = Cardinality(given)
    BY <2>3, <2>7
  <2>9. ASSUME NEW n \in 1 .. Len(new)
        PROVE  \E j \in S : /\ k.caps[j] # None /\ k.caps[j].owner = parent
                                   /\ ChildOf(new[n], k.caps[j])
    <3>1. n \in 1 .. Cardinality(given)
      BY <2>8, Zenon
    <3>2. new[n] = Child(k.caps[Nth(given, n)])
      BY <3>1, Zenon
    <3> QED
      BY <3>1, <3>2, <2>4, <2>5, <2>6, Zenon
  <2> HIDE DEF new
  <2>10. Inserted(S, k, child, new, r.k, r.ok)
    BY <2>8, InsertInserts, Zenon
  <2> HIDE DEF r, d
  <2>11. ASSUME NEW i \in S, r.k.caps[i] # None, k.caps[i] = None
         PROVE  /\ k.next <= r.k.caps[i].id /\ r.k.caps[i].owner = child
                /\ \E j \in S : /\ k.caps[j] # None /\ k.caps[j].owner = parent
                                       /\ ChildOf(r.k.caps[i], k.caps[j])
    BY <2>9, <2>10, <2>11 DEF Inserted, ChildOf
  <2> QED
    BY <1>2, <2>1, <2>10, <2>11, Zenon DEF Inserted, d
<1> QED
  BY <1>1, <1>2, Zenon

-----------------------------------------------------------------------------
(* The history of what was issued.                                           *)

Issues == [record : CapabilityRecords, creds : Credentials \cup {None}, root : Nat]

\* Every id ever recorded: what it was derived from, and that its root was a seed or a
\* grant that the credentials of its owner allow.
Traced(past, next) ==
    \A id \in DOMAIN past :
        /\ id \in Nat /\ id < next /\ past[id] \in Issues /\ past[id].record.id = id
        /\ past[id].root \in DOMAIN past
        /\ LET r == past[id].record
               o == past[past[id].root]
           IN /\ o.record.object = r.object
              /\ o.creds # None => SeedOf(o.record, o.creds)
              /\ r.parent # None =>
                    /\ r.parent \in DOMAIN past
                    /\ r.object = past[r.parent].record.object
                    /\ r.rights \subseteq past[r.parent].record.rights \ {"Revoke"}

\* The records in the table are recorded, and those of known tasks go back to one.
InHistory(S, k, past) ==
    \A i \in S : k.caps[i] # None =>
        /\ k.caps[i].id \in DOMAIN past /\ past[k.caps[i].id].record = k.caps[i]
        /\ Known(k, k.caps[i].owner) => past[past[k.caps[i].id].root].creds # None

\* A new record of u: handed on by a record of a task k knows, or what the credentials of
\* its owner give.
Derived(S, x, k) ==
    \E j \in S : /\ k.caps[j] # None /\ Known(k, k.caps[j].owner)
                        /\ ChildOf(x, k.caps[j])
Original(x, u) == x.parent = None /\ (Known(u, x.owner) => SeedOf(x, domain(u, x.owner)))

\* Whatever u has that k has not is new and legitimate, and nobody comes back to life.
Legal(S, k, u) ==
    /\ k.next <= u.next
    /\ \A i \in S : u.caps[i] # None =>
          \/ u.caps[i] = k.caps[i] /\ (Known(u, u.caps[i].owner) => Known(k, u.caps[i].owner))
          \/ k.next <= u.caps[i].id /\ (Derived(S, u.caps[i], k) \/ Original(u.caps[i], u))

\* The credentials of a known task.
LEMMA DomainType ==
  ASSUME NEW S, NEW k \in Tables(S), OneDomain(k), NEW p, Known(k, p)
  PROVE  domain(k, p) \in Credentials /\ p \in Nat /\ domain(k, p) # None
<1>1. PICK i \in DomainSlots : k.domains[i] # None /\ k.domains[i].pid = p /\ domain(k, p) = k.domains[i].creds
  BY DomainIs
<1>2. k.domains[i] \in Entries
  BY <1>1, Zenon DEF Tables
<1> QED
  BY <1>1, <1>2, ConstantsAssumption, Zenon DEF Entries

\* The history stays true when a legal step is noted.
LEMMA HistoryKept ==
  ASSUME NEW S, NEW k \in Tables(S), NEW u \in Tables(S), OneDomain(u), FreshIds(S, u), NEW past,
         Traced(past, k.next), InHistory(S, k, past), Legal(S, k, u)
  PROVE  Traced(Noted(u, past), u.next) /\ InHistory(S, u, Noted(u, past))
<1> DEFINE new == {r \in Records(u) : r.id \notin DOMAIN past}
           of(id) == CHOOSE r \in new : r.id = id
           ids == {r.id : r \in new}
           now == Noted(u, past)
           Issue(id) == [record |-> of(id),
                         creds |-> IF Known(u, of(id).owner) THEN domain(u, of(id).owner) ELSE None,
                         root |-> IF of(id).parent = None THEN id ELSE past[of(id).parent].root]
<1>1. now = [id \in DOMAIN past \cup ids |-> IF id \in DOMAIN past THEN past[id] ELSE Issue(id)]
  BY Zenon DEF Noted
<1>2. DOMAIN now = DOMAIN past \cup ids
  BY <1>1, Zenon
<1>3. \A id \in DOMAIN past : now[id] = past[id]
  BY <1>1, ZenonT(30)
<1>4. \A id \in ids : id \notin DOMAIN past /\ now[id] = Issue(id)
  <2>1. \A id \in ids : id \notin DOMAIN past
    BY Zenon
  <2> HIDE DEF ids, now, Issue
  <2> QED
    BY <1>1, <2>1, Zenon
<1> HIDE DEF now, Issue
<1>5. k.next \in Nat /\ u.next \in Nat /\ k.next <= u.next
  BY Zenon DEF Tables, Legal
<1>6. ASSUME NEW i \in S, u.caps[i] # None
      PROVE  /\ u.caps[i] \in CapabilityRecords /\ u.caps[i].id \in Nat /\ u.caps[i].id < u.next
             /\ u.caps[i].id \in ids <=> u.caps[i].id \notin DOMAIN past
             /\ u.caps[i].id \in ids => of(u.caps[i].id) = u.caps[i]
             /\ u.caps[i].id \in DOMAIN past =>
                   u.caps[i] = k.caps[i] /\ (Known(u, u.caps[i].owner) => Known(k, u.caps[i].owner))
             /\ u.caps[i].id \in ids => Derived(S, u.caps[i], k) \/ Original(u.caps[i], u)
  <2>1. u.caps[i] \in CapabilityRecords /\ u.caps[i].id \in Nat /\ u.caps[i].id < u.next
    BY <1>6, Zenon DEF Tables, CapabilityRecords, FreshIds
  <2>2. u.caps[i] \in Records(u)
    BY <1>6, SlotsOf, Zenon DEF Records
  <2>3. \A r \in Records(u) : r.id = u.caps[i].id => r = u.caps[i]
    BY <1>6, SlotsOf, Zenon DEF Records, FreshIds
  <2>4. u.caps[i].id \in ids => of(u.caps[i].id) = u.caps[i]
    BY <2>3, Zenon
  <2>5. u.caps[i].id \in ids <=> u.caps[i].id \notin DOMAIN past
    BY <2>2, Zenon
  <2>6. u.caps[i].id \in DOMAIN past => u.caps[i].id < k.next
    BY Zenon DEF Traced
  <2>7. u.caps[i].id \in ids => ~(u.caps[i] = k.caps[i])
    BY <1>6, <2>5, Zenon DEF InHistory
  <2> HIDE DEF ids, of
  <2> QED
    BY <1>5, <1>6, <2>1, <2>4, <2>5, <2>6, <2>7 DEF Legal
<1>7. ASSUME NEW id \in ids
      PROVE  \E i \in S : u.caps[i] # None /\ u.caps[i].id = id
  BY SlotsOf DEF Records
<1> HIDE DEF new, ids
<1>8. ASSUME NEW id \in ids
      PROVE  LET x == of(id) IN
             /\ x \in CapabilityRecords /\ x.id = id /\ id \in Nat /\ id < u.next
             /\ now[id].record = x
             /\ now[id].creds = IF Known(u, x.owner) THEN domain(u, x.owner) ELSE None
             /\ now[id].root = IF x.parent = None THEN id ELSE past[x.parent].root
             /\ now[id].creds \in Credentials \cup {None}
             /\ now[id].root \in Nat => now[id] \in Issues
             /\ Derived(S, x, k) \/ Original(x, u)
  <2>1. PICK i \in S : u.caps[i] # None /\ u.caps[i].id = id
    BY <1>7, Zenon
  <2>2. of(id) = u.caps[i] /\ u.caps[i] \in CapabilityRecords /\ id \in Nat /\ id < u.next
        /\ (Derived(S, u.caps[i], k) \/ Original(u.caps[i], u))
    BY <2>1, <1>6, Zenon
  <2> HIDE DEF of
  <2>3. /\ now[id].record = of(id)
        /\ now[id].creds = IF Known(u, of(id).owner) THEN domain(u, of(id).owner) ELSE None
        /\ now[id].root = IF of(id).parent = None THEN id ELSE past[of(id).parent].root
    <3>1. now[id] = Issue(id)
      BY <1>4, Zenon
    <3> QED
      BY <3>1 DEF Issue
  <2>4. now[id].creds \in Credentials \cup {None}
    BY <2>3, DomainType, Zenon
  <2>5. now[id].root \in Nat => now[id] \in Issues
    <3>1. now[id] = Issue(id)
      BY <1>4, Zenon
    <3>2. \A a \in CapabilityRecords, b \in Credentials \cup {None}, c \in Nat :
             [record |-> a, creds |-> b, root |-> c] \in Issues
      BY Zenon DEF Issues
    <3>3. now[id] = [record |-> of(id),
                     creds |-> IF Known(u, of(id).owner) THEN domain(u, of(id).owner) ELSE None,
                     root |-> IF of(id).parent = None THEN id ELSE past[of(id).parent].root]
      BY <3>1, ZenonT(30) DEF Issue
    <3> QED
      BY <2>2, <2>3, <2>4, <3>2, <3>3, Zenon
  <2> QED
    BY <2>1, <2>2, <2>3, <2>4, <2>5, Zenon
<1> HIDE DEF of
<1>9. ASSUME NEW id \in ids, Derived(S, of(id), k)
      PROVE  LET x == of(id) IN
             /\ x.parent \in DOMAIN past /\ x.parent # None
             /\ x.object = past[x.parent].record.object
             /\ x.rights \subseteq past[x.parent].record.rights \ {"Revoke"}
             /\ past[x.parent].root \in DOMAIN past
             /\ past[past[x.parent].root].record.object = x.object
             /\ past[past[x.parent].root].creds # None
             /\ SeedOf(past[past[x.parent].root].record, past[past[x.parent].root].creds)
  <2>1. PICK j \in S : k.caps[j] # None /\ Known(k, k.caps[j].owner) /\ ChildOf(of(id), k.caps[j])
    BY <1>9, Zenon DEF Derived
  <2>2. /\ k.caps[j].id \in DOMAIN past /\ past[k.caps[j].id].record = k.caps[j]
        /\ past[past[k.caps[j].id].root].creds # None
    BY <2>1, Zenon DEF InHistory
  <2>3. of(id).parent = k.caps[j].id /\ of(id).object = k.caps[j].object
        /\ of(id).rights = k.caps[j].rights \ {"Revoke"}
    BY <2>1, Zenon DEF ChildOf, inherited_child
  <2>4. k.caps[j].id \in Nat /\ None \notin Nat
    BY <2>1, ConstantsAssumption, Zenon DEF Tables, CapabilityRecords
  <2> QED
    BY <2>2, <2>3, <2>4, ZenonT(30) DEF Traced
<1>10. Traced(now, u.next)
  <2> SUFFICES ASSUME NEW id \in DOMAIN now
               PROVE  /\ id \in Nat /\ id < u.next /\ now[id] \in Issues /\ now[id].record.id = id
                      /\ now[id].root \in DOMAIN now
                      /\ LET r == now[id].record
                             o == now[now[id].root]
                         IN /\ o.record.object = r.object
                            /\ o.creds # None => SeedOf(o.record, o.creds)
                            /\ r.parent # None =>
                                  /\ r.parent \in DOMAIN now
                                  /\ r.object = now[r.parent].record.object
                                  /\ r.rights \subseteq now[r.parent].record.rights \ {"Revoke"}
    BY ZenonT(30) DEF Traced
  <2>1. CASE id \in DOMAIN past
    BY <2>1, <1>2, <1>3, <1>5 DEF Traced
  <2>2. CASE id \in ids /\ Derived(S, of(id), k)
    <3>1. now[id].root = past[of(id).parent].root /\ now[id].root \in DOMAIN past
      BY <2>2, <1>8, <1>9, Zenon
    <3>2. now[id].root \in Nat
      BY <3>1, Zenon DEF Traced
    <3>3. now[id] \in Issues
      BY <3>2, <2>2, <1>8, Zenon
    <3>4. now[id].record = of(id) /\ of(id).id = id /\ id \in Nat /\ id < u.next
      BY <2>2, <1>8, Zenon
    <3>5. now[now[id].root] = past[past[of(id).parent].root] /\ now[id].root \in DOMAIN now
      BY <3>1, <1>2, <1>3
    <3>6. of(id).parent \in DOMAIN now /\ now[of(id).parent] = past[of(id).parent]
      BY <2>2, <1>2, <1>3, <1>9, Zenon
    <3> QED
      BY <2>2, <3>3, <3>4, <3>5, <3>6, <1>9, Zenon
  <2>3. CASE id \in ids /\ Original(of(id), u)
    <3>1. of(id).parent = None /\ now[id].root = id /\ id \in Nat
      BY <2>3, <1>8, Zenon DEF Original
    <3>2. now[id] \in Issues
      BY <3>1, <2>3, <1>8, Zenon
    <3>3. now[id].creds # None => SeedOf(now[id].record, now[id].creds)
      BY <2>3, <1>8, Zenon DEF Original
    <3> QED
      BY <2>3, <3>1, <3>2, <3>3, <1>2, <1>8, Zenon
  <2> QED
    BY <2>1, <2>2, <2>3, <1>2, <1>8, Zenon
<1>11. InHistory(S, u, now)
  <2> SUFFICES ASSUME NEW i \in S, u.caps[i] # None
               PROVE  /\ u.caps[i].id \in DOMAIN now /\ now[u.caps[i].id].record = u.caps[i]
                      /\ Known(u, u.caps[i].owner) => now[now[u.caps[i].id].root].creds # None
    BY Zenon DEF InHistory
  <2> DEFINE id == u.caps[i].id
  <2>1. CASE id \in DOMAIN past
    <3>1. u.caps[i] = k.caps[i] /\ (Known(u, u.caps[i].owner) => Known(k, u.caps[i].owner))
      BY <2>1, <1>6, Zenon
    <3>2. past[id].record = k.caps[i] /\ (Known(k, k.caps[i].owner) => past[past[id].root].creds # None)
      BY <3>1, Zenon DEF InHistory
    <3>3. past[id].root \in DOMAIN past
      BY <2>1, Zenon DEF Traced
    <3> HIDE DEF id
    <3> QED
      BY <2>1, <3>1, <3>2, <3>3, <1>2, <1>3, Zenon DEF id
  <2>2. CASE id \in ids
    <3>1. of(id) = u.caps[i] /\ (Derived(S, u.caps[i], k) \/ Original(u.caps[i], u))
      BY <2>2, <1>6, Zenon
    <3>a. id = u.caps[i].id
      BY Zenon
    <3> HIDE DEF id
    <3>2. CASE Derived(S, u.caps[i], k)
      <4>1. now[id].record = u.caps[i] /\ now[id].root = past[u.caps[i].parent].root
        BY <2>2, <3>1, <3>2, <1>8, <1>9, Zenon
      <4>2. now[id].root \in DOMAIN past /\ past[now[id].root].creds # None
        BY <2>2, <3>1, <3>2, <4>1, <1>9, Zenon
      <4> QED
        BY <2>2, <3>a, <4>1, <4>2, <1>2, <1>3, Zenon
    <3>3. CASE Original(u.caps[i], u)
      <4>1. now[id].root = id /\ now[id].record = u.caps[i]
        BY <2>2, <3>1, <3>3, <1>8, Zenon DEF Original
      <4>2. Known(u, u.caps[i].owner) => now[id].creds = domain(u, u.caps[i].owner)
        BY <2>2, <3>1, <1>8, ZenonT(30)
      <4> QED
        BY <2>2, <3>a, <4>1, <4>2, <1>2, DomainType, Zenon
    <3> QED
      BY <3>1, <3>2, <3>3, Zenon
  <2> QED
    BY <2>1, <2>2, <1>6, Zenon
<1> QED
  BY <1>10, <1>11, Zenon DEF now

-----------------------------------------------------------------------------
(* The inductive invariant.                                                  *)

\* No record of k, and no parent of one, was ever revoked.
Unrevoked(S, k, gone) ==
    /\ \A id \in gone : id \in Nat /\ id < k.next
    /\ \A i \in S : k.caps[i] # None => k.caps[i].id \notin gone /\ k.caps[i].parent \notin gone

\* Domains and records are of pids that were created.
Owned(S, k, used, gone) ==
    /\ \A i \in DomainSlots : k.domains[i] # None => k.domains[i].pid \in used
    /\ \A i \in S : k.caps[i] # None =>
          k.caps[i].owner \in used /\ (Known(k, k.caps[i].owner) \/ k.caps[i].owner \in gone)

\* Who has lost nothing has both endpoints.
Intact(S, k, used, gone) ==
    \A p \in used : Known(k, p) /\ p \notin gone /\ "ipc" \in domain(k, p).capabilities
                    => Endpoints(S, k, p)

\* Nobody outgrew a sponsor without privileges.
Kept(k, from, up) ==
    \A p \in DOMAIN from : Known(k, p) /\ p \notin up /\ from[p] # None /\ ~has_system_privilege(from[p])
                           => can_delegate(from[p], domain(k, p))

\* The tables are well formed, the history explains every record, and nothing revoked or
\* undelegated is held.
Sound ==
    /\ setup \in Setups
    /\ Here \in Tables(CapSlots) /\ OneDomain(Here) /\ FreshIds(CapSlots, Here)
    /\ Traced(issued, next_capability_id) /\ InHistory(CapSlots, Here, issued)
    /\ Unrevoked(CapSlots, Here, revoked)
    /\ Used \subseteq Pids /\ \A p \in Used : sponsor[p] \in Credentials \cup {None}
    /\ Owned(CapSlots, Here, Used, lost)
    /\ Intact(CapSlots, Here, Used, lost)
    /\ Kept(Here, sponsor, promoted)

\* The next state is sound when its tables, its history and its pids are.
LEMMA SoundNext ==
  ASSUME Sound, setup' = setup, NEW u \in Tables(CapSlots), OneDomain(u), FreshIds(CapSlots, u),
         domains' = u.domains, capabilities' = u.caps, next_capability_id' = u.next,
         Traced(issued', u.next), InHistory(CapSlots, u, issued'), Unrevoked(CapSlots, u, revoked'),
         DOMAIN sponsor' \subseteq Pids, \A p \in DOMAIN sponsor' : sponsor'[p] \in Credentials \cup {None},
         Owned(CapSlots, u, DOMAIN sponsor', lost'), Intact(CapSlots, u, DOMAIN sponsor', lost'),
         Kept(u, sponsor', promoted')
  PROVE  Sound'
<1>1. CapSlots' = CapSlots /\ Pids' = Pids
  BY Zenon DEF CapSlots, MAX_CAPABILITY_RECORDS, Pids
<1>2. Here' = u
  <2>1. u = [domains |-> u.domains, caps |-> u.caps, next |-> u.next]
    BY Zenon DEF Tables
  <2> QED
    BY <2>1, Zenon DEF Here
<1> QED
  BY <1>1, <1>2, Zenon DEF Sound, Used

\* The pids with a domain are the ones the domain table names.
LEMMA KnownAreUsed ==
  ASSUME NEW k, NEW used
  PROVE  (\A i \in DomainSlots : k.domains[i] # None => k.domains[i].pid \in used)
            <=> (\A q : Known(k, q) => q \in used)
BY Zenon DEF Known, DomainOf

\* Records that go take nothing of the history with them.
LEMMA FewerKept ==
  ASSUME NEW S, NEW k \in Tables(S), NEW u, Fewer(S, k, u), NEW past, NEW gone,
         \A q : Known(u, q) => Known(k, q),
         Traced(past, k.next), InHistory(S, k, past), Unrevoked(S, k, gone)
  PROVE  Traced(past, u.next) /\ InHistory(S, u, past) /\ Unrevoked(S, u, gone)
<1>1. u.next = k.next /\ \A i \in S : u.caps[i] # None => u.caps[i] = k.caps[i]
  BY Zenon DEF Fewer
<1>2. InHistory(S, u, past)
  BY <1>1, Zenon DEF InHistory
<1>3. Unrevoked(S, u, gone)
  BY <1>1, Zenon DEF Unrevoked
<1> QED
  BY <1>1, <1>2, <1>3, Zenon

\* Records that are new were never revoked, nor was what they derive from.
LEMMA LegalUnrevoked ==
  ASSUME NEW S, NEW k \in Tables(S), NEW u \in Tables(S), Legal(S, k, u), NEW gone, Unrevoked(S, k, gone)
  PROVE  Unrevoked(S, u, gone)
<1>1. k.next \in Nat /\ u.next \in Nat /\ k.next <= u.next /\ None \notin Nat
  BY ConstantsAssumption, Zenon DEF Tables, Legal
<1>2. \A id \in gone : id \in Nat /\ id < u.next
  BY <1>1 DEF Unrevoked
<1>3. ASSUME NEW i \in S, u.caps[i] # None
      PROVE  u.caps[i].id \notin gone /\ u.caps[i].parent \notin gone
  <2>1. CASE u.caps[i] = k.caps[i]
    BY <2>1, <1>3, Zenon DEF Unrevoked
  <2>2. CASE k.next <= u.caps[i].id /\ (Derived(S, u.caps[i], k) \/ Original(u.caps[i], u))
    <3>1. u.caps[i].id \notin gone
      <4>1. u.caps[i].id \in Nat
        BY <1>3, Zenon DEF Tables, CapabilityRecords
      <4> QED
        BY <4>1, <2>2, <1>1 DEF Unrevoked
    <3>2. CASE Derived(S, u.caps[i], k)
      BY <3>1, <3>2, Zenon DEF Derived, ChildOf, Unrevoked
    <3>3. CASE Original(u.caps[i], u)
      BY <3>1, <3>3, <1>1, Zenon DEF Original, Unrevoked
    <3> QED
      BY <2>2, <3>2, <3>3, Zenon
  <2> QED
    BY <1>3, <2>1, <2>2, Zenon DEF Legal
<1> QED
  BY <1>2, <1>3, Zenon DEF Unrevoked

\* Endpoints stay as long as the records of their owner do.
LEMMA EndpointsStay ==
  ASSUME NEW S, NEW k, NEW u, NEW q, Endpoints(S, k, q),
         \A i \in S : k.caps[i] # None /\ k.caps[i].owner = q => u.caps[i] = k.caps[i]
  PROVE  Endpoints(S, u, q)
BY Zenon DEF Endpoints, Endpoint

\* What Sound says of the tables, with the facts the steps keep using.
LEMMA SoundTables ==
  ASSUME Sound
  PROVE  /\ CapSlots \in SUBSET Nat /\ IsFiniteSet(CapSlots)
         /\ Here \in Tables(CapSlots) /\ OneDomain(Here) /\ FreshIds(CapSlots, Here)
         /\ Traced(issued, Here.next) /\ InHistory(CapSlots, Here, issued)
         /\ Unrevoked(CapSlots, Here, revoked)
         /\ Used \in SUBSET Nat /\ \A q : Known(Here, q) => q \in Used
         /\ Pids \in SUBSET Nat /\ setup.credentials \in SUBSET Credentials
<1>1. MAX_CAPABILITY_RECORDS \in Nat /\ Pids \in SUBSET Nat /\ setup.credentials \in SUBSET Credentials
  BY ConstantsAssumption, Zenon DEF Sound, MAX_CAPABILITY_RECORDS, Pids
<1>2. CapSlots \in SUBSET Nat /\ IsFiniteSet(CapSlots)
  BY <1>1, SlotsAreFinite DEF CapSlots
<1>3. Here.next = next_capability_id
  BY Zenon DEF Here
<1>4. \A q : Known(Here, q) => q \in Used
  BY KnownAreUsed, Zenon DEF Sound, Owned
<1> QED
  BY <1>1, <1>2, <1>3, <1>4, Zenon DEF Sound


\* exit_process
LEMMA ExitSound ==
  ASSUME Sound, NEW p \in Used, exit_process(p)
  PROVE  Sound'
<1> DEFINE u == revoke_task(Here, p)
<1>1. /\ Fewer(CapSlots, Here, u) /\ OneDomain(u) /\ ~Known(u, p) /\ OthersKept(Here, u, p)
      /\ \A i \in CapSlots : u.caps[i] # None => u.caps[i].owner # p
      /\ \A i \in CapSlots : Here.caps[i] # None /\ Here.caps[i].owner # p => u.caps[i] = Here.caps[i]
  BY SoundTables, RevokeTaskRevokes
<1>2. domains' = u.domains /\ capabilities' = u.caps /\ next_capability_id' = u.next
  BY Zenon DEF exit_process, Become
<1> HIDE DEF u
<1>3. setup' = setup /\ issued' = issued /\ revoked' = revoked /\ sponsor' = sponsor
      /\ promoted' = promoted /\ lost' = lost
  BY Zenon DEF exit_process
<1>4. \A q : Known(u, q) => q # p /\ Known(Here, q) /\ domain(u, q) = domain(Here, q)
  BY <1>1, Zenon DEF OthersKept
<1>5. Traced(issued, u.next) /\ InHistory(CapSlots, u, issued) /\ Unrevoked(CapSlots, u, revoked)
  BY <1>1, <1>4, SoundTables, FewerKept, Zenon
<1>6. Owned(CapSlots, u, Used, lost)
  <2>1. \A q : Known(u, q) => q \in Used
    BY <1>4, SoundTables, Zenon
  <2>2. ASSUME NEW i \in CapSlots, u.caps[i] # None
        PROVE  u.caps[i].owner \in Used /\ (Known(u, u.caps[i].owner) \/ u.caps[i].owner \in lost)
    <3>1. u.caps[i] = Here.caps[i] /\ u.caps[i].owner # p
      BY <2>2, <1>1, Zenon DEF Fewer
    <3> QED
      BY <3>1, <2>2, <1>1, Zenon DEF Sound, Owned, OthersKept
  <2> QED
    BY <2>1, <2>2, KnownAreUsed, Zenon DEF Owned
<1>7. Intact(CapSlots, u, Used, lost)
  <2> SUFFICES ASSUME NEW q \in Used, Known(u, q), q \notin lost, "ipc" \in domain(u, q).capabilities
               PROVE  Endpoints(CapSlots, u, q)
    BY Zenon DEF Intact
  <2>1. q # p /\ Endpoints(CapSlots, Here, q)
    BY <1>4, Zenon DEF Sound, Intact
  <2>2. \A i \in CapSlots : Here.caps[i] # None /\ Here.caps[i].owner = q => u.caps[i] = Here.caps[i]
    BY <1>1, <2>1, Zenon
  <2> QED
    BY <2>1, <2>2, EndpointsStay, Zenon
<1>8. Kept(u, sponsor, promoted)
  BY <1>4, Zenon DEF Sound, Kept
<1> QED
  BY <1>1, <1>2, <1>3, <1>5, <1>6, <1>7, <1>8, SoundNext, ZenonT(30) DEF Sound, Fewer, Used

\* revoke_task_capabilities
LEMMA RevokeTaskCapabilitiesSound ==
  ASSUME Sound, NEW p \in Used, revoke_task_capabilities(p)
  PROVE  Sound'
<1> DEFINE u == revoke_all_capabilities(Here, p)
<1>1. /\ Fewer(CapSlots, Here, u) /\ u.domains = Here.domains
      /\ \A i \in CapSlots : Here.caps[i] # None /\ Here.caps[i].owner # p => u.caps[i] = Here.caps[i]
  BY SoundTables, RevokeAllRevokes
<1>2. domains' = u.domains /\ capabilities' = u.caps /\ next_capability_id' = u.next
  BY Zenon DEF revoke_task_capabilities, Become
<1> HIDE DEF u
<1>3. setup' = setup /\ issued' = issued /\ revoked' = revoked /\ sponsor' = sponsor
      /\ promoted' = promoted /\ lost' = lost \cup {p}
  BY Zenon DEF revoke_task_capabilities
<1>4. OneDomain(u) /\ \A q : Known(u, q) = Known(Here, q) /\ domain(u, q) = domain(Here, q)
  BY <1>1, SoundTables, SameDomains, Zenon
<1>5. Traced(issued, u.next) /\ InHistory(CapSlots, u, issued) /\ Unrevoked(CapSlots, u, revoked)
  BY <1>1, <1>4, SoundTables, FewerKept, Zenon
<1>6. Owned(CapSlots, u, Used, lost')
  <2>1. \A q : Known(u, q) => q \in Used
    BY <1>4, SoundTables, Zenon
  <2>2. \A i \in CapSlots : u.caps[i] # None =>
           u.caps[i].owner \in Used /\ (Known(u, u.caps[i].owner) \/ u.caps[i].owner \in lost')
    BY <1>1, <1>3, <1>4, Zenon DEF Sound, Owned, Fewer
  <2> QED
    BY <2>1, <2>2, KnownAreUsed, Zenon DEF Owned
<1>7. Intact(CapSlots, u, Used, lost')
  <2> SUFFICES ASSUME NEW q \in Used, Known(u, q), q \notin lost', "ipc" \in domain(u, q).capabilities
               PROVE  Endpoints(CapSlots, u, q)
    BY Zenon DEF Intact
  <2>1. q # p /\ Endpoints(CapSlots, Here, q)
    BY <1>3, <1>4, Zenon DEF Sound, Intact
  <2>2. \A i \in CapSlots : Here.caps[i] # None /\ Here.caps[i].owner = q => u.caps[i] = Here.caps[i]
    BY <1>1, <2>1, Zenon
  <2> QED
    BY <2>1, <2>2, EndpointsStay, Zenon
<1>8. Kept(u, sponsor, promoted)
  BY <1>4, Zenon DEF Sound, Kept
<1> QED
  BY <1>1, <1>2, <1>3, <1>4, <1>5, <1>6, <1>7, <1>8, SoundNext, Zenon DEF Sound, Fewer, Used

\* revoke_capability
LEMMA RevokeCapabilitySound ==
  ASSUME Sound, NEW id, revoke_capability(id)
  PROVE  Sound'
<1> DEFINE u == Revoked(Here, id)
<1>1. /\ Fewer(CapSlots, Here, u) /\ u.domains = Here.domains
      /\ \A i \in CapSlots : u.caps[i] # None => u.caps[i].id # id /\ u.caps[i].parent # id
  BY SoundTables, RevokedRevokes
<1>2. domains' = u.domains /\ capabilities' = u.caps /\ next_capability_id' = u.next
  BY Zenon DEF revoke_capability, Become
<1>3. setup' = setup /\ issued' = issued /\ revoked' = revoked \cup {id} /\ sponsor' = sponsor
      /\ promoted' = promoted /\ lost' = lost \cup {r.owner : r \in Records(Here) \ Records(u)}
  BY Zenon DEF revoke_capability
<1>0. id \in Nat /\ id < Here.next
  BY SoundTables, SlotsOf DEF revoke_capability, Records, FreshIds, Tables, CapabilityRecords
<1> HIDE DEF u
<1>4. OneDomain(u) /\ \A q : Known(u, q) = Known(Here, q) /\ domain(u, q) = domain(Here, q)
  BY <1>1, SoundTables, SameDomains, Zenon
<1>5. Traced(issued, u.next) /\ InHistory(CapSlots, u, issued) /\ Unrevoked(CapSlots, u, revoked)
  BY <1>1, <1>4, SoundTables, FewerKept, Zenon
<1>u. Unrevoked(CapSlots, u, revoked')
  BY <1>0, <1>1, <1>3, <1>5, Zenon DEF Unrevoked, Fewer
<1>6. Owned(CapSlots, u, Used, lost')
  <2>1. \A q : Known(u, q) => q \in Used
    BY <1>4, SoundTables, Zenon
  <2>2. \A i \in CapSlots : u.caps[i] # None =>
           u.caps[i].owner \in Used /\ (Known(u, u.caps[i].owner) \/ u.caps[i].owner \in lost')
    BY <1>1, <1>3, <1>4, Zenon DEF Sound, Owned, Fewer
  <2> QED
    BY <2>1, <2>2, KnownAreUsed, Zenon DEF Owned
<1>7. Intact(CapSlots, u, Used, lost')
  <2> SUFFICES ASSUME NEW q \in Used, Known(u, q), q \notin lost', "ipc" \in domain(u, q).capabilities
               PROVE  Endpoints(CapSlots, u, q)
    BY Zenon DEF Intact
  <2>1. q \notin lost /\ Endpoints(CapSlots, Here, q)
    BY <1>3, <1>4, Zenon DEF Sound, Intact
  <2>2. ASSUME NEW i \in CapSlots, Here.caps[i] # None, Here.caps[i].owner = q
        PROVE  u.caps[i] = Here.caps[i]
    <3>1. Here.caps[i] \in Records(Here)
      BY <2>2, SoundTables, SlotsOf, Zenon DEF Records
    <3>2. Here.caps[i] \in Records(u)
      BY <3>1, <2>2, <1>3, Zenon
    <3>3. PICK j \in CapSlots : u.caps[j] # None /\ u.caps[j] = Here.caps[i]
      BY <3>2, <1>1, SlotsOf, Zenon DEF Records, Fewer
    <3>4. Here.caps[j] = Here.caps[i] /\ Here.caps[j] # None
      BY <3>3, <1>1, Zenon DEF Fewer
    <3>5. i = j
      BY <3>4, <2>2, SoundTables, Zenon DEF FreshIds
    <3> QED
      BY <3>3, <3>5, Zenon
  <2> QED
    BY <2>1, <2>2, EndpointsStay, Zenon
<1>8. Kept(u, sponsor, promoted)
  BY <1>4, Zenon DEF Sound, Kept
<1> QED
  BY <1>1, <1>2, <1>3, <1>4, <1>5, <1>u, <1>6, <1>7, <1>8, SoundNext, Zenon DEF Sound, Fewer, Used

\* A step that adds legitimate records to a task it knows, and touches nothing else.
LEMMA InsertSound ==
  ASSUME Sound, NEW u, NEW p, Known(Here, p), NEW new, NEW ok,
         Inserted(CapSlots, Here, p, new, u, ok), Legal(CapSlots, Here, u),
         domains' = u.domains, capabilities' = u.caps, next_capability_id' = u.next, Note(u),
         UNCHANGED <<setup, revoked, sponsor, promoted, lost>>
  PROVE  Sound'
<1>1. /\ u \in Tables(CapSlots) /\ FreshIds(CapSlots, u) /\ u.domains = Here.domains
      /\ \A i \in CapSlots : Here.caps[i] # None => u.caps[i] = Here.caps[i]
      /\ \A i \in CapSlots : Here.caps[i] = None /\ u.caps[i] # None => u.caps[i].owner = p
  BY Zenon DEF Inserted
<1>2. OneDomain(u) /\ \A q : Known(u, q) = Known(Here, q) /\ domain(u, q) = domain(Here, q)
  BY <1>1, SoundTables, SameDomains, Zenon
<1>3. Traced(issued', u.next) /\ InHistory(CapSlots, u, issued')
  BY <1>1, <1>2, SoundTables, HistoryKept, Zenon DEF Note
<1>4. Unrevoked(CapSlots, u, revoked)
  BY <1>1, SoundTables, LegalUnrevoked, Zenon
<1>5. Owned(CapSlots, u, Used, lost)
  <2>1. \A q : Known(u, q) => q \in Used
    BY <1>2, SoundTables, Zenon
  <2>2. \A i \in CapSlots : u.caps[i] # None =>
           u.caps[i].owner \in Used /\ (Known(u, u.caps[i].owner) \/ u.caps[i].owner \in lost)
    BY <1>1, <1>2, SoundTables, Zenon DEF Sound, Owned
  <2> QED
    BY <2>1, <2>2, KnownAreUsed, Zenon DEF Owned
<1>6. Intact(CapSlots, u, Used, lost)
  <2> SUFFICES ASSUME NEW q \in Used, Known(u, q), q \notin lost, "ipc" \in domain(u, q).capabilities
               PROVE  Endpoints(CapSlots, u, q)
    BY Zenon DEF Intact
  <2>1. Endpoints(CapSlots, Here, q)
    BY <1>2, Zenon DEF Sound, Intact
  <2> QED
    BY <2>1, <1>1, EndpointsStay, Zenon
<1>7. Kept(u, sponsor, promoted)
  BY <1>2, Zenon DEF Sound, Kept
<1> QED
  BY <1>1, <1>2, <1>3, <1>4, <1>5, <1>6, <1>7, SoundNext, Zenon DEF Sound, Used

\* grant_capability
LEMMA GrantSound ==
  ASSUME Sound, NEW p \in Used, grant_capability(p, Granted, IoRights)
  PROVE  Sound'
<1> DEFINE what == [object |-> Granted, rights |-> IoRights, parent |-> None]
           new == <<what>>
           g == insert_capability(Here, p, new)
           u == g.k
<1>1. what \in Specs /\ what.object = Granted /\ what.parent = None
  <2>1. Granted \in Objects
    BY Zenon DEF Granted, Object, Objects, Wild, Ids
  <2> QED
    BY <2>1, Zenon DEF Specs, IoRights, Rights
<1>2. \A x : x.object = Granted /\ x.parent = None => \A c : SeedOf(x, c)
  <2>1. Granted.kind = "PciDevice" /\ Granted # Object("PciDevice", AnyId)
    BY ConstantsAssumption DEF Granted, Object
  <2> QED
    BY <2>1, Zenon DEF SeedOf
<1> HIDE DEF what
<1>3. new \in Seq(Specs) /\ \A n \in 1 .. Len(new) : new[n] = what
  BY <1>1
<1>4. Inserted(CapSlots, Here, p, new, u, g.ok)
  <2> HIDE DEF new
  <2> QED
    BY <1>3, SoundTables, InsertInserts, Zenon
<1>5. /\ Known(Here, p)
      /\ domains' = u.domains /\ capabilities' = u.caps /\ next_capability_id' = u.next
      /\ Note(u) /\ UNCHANGED <<setup, revoked, sponsor, promoted, lost>>
  BY Zenon DEF grant_capability, Become, what
<1> HIDE DEF g, u, new
<1>6. Legal(CapSlots, Here, u)
  <2>1. OneDomain(u) /\ \A q : Known(u, q) = Known(Here, q)
    BY <1>4, SoundTables, SameDomains DEF Inserted
  <2>2. ASSUME NEW i \in CapSlots, Here.caps[i] = None, u.caps[i] # None
        PROVE  Here.next <= u.caps[i].id /\ Original(u.caps[i], u)
    <3>1. Here.next <= u.caps[i].id /\ u.caps[i].object = Granted /\ u.caps[i].parent = None
      BY <2>2, <1>1, <1>3, <1>4, Zenon DEF Inserted
    <3> QED
      BY <3>1, <1>2, Zenon DEF Original
  <2> QED
    BY <2>1, <2>2, <1>4, ZenonT(30) DEF Legal, Inserted
<1> QED
  BY <1>4, <1>5, <1>6, InsertSound, Zenon

\* transfer_capability
LEMMA TransferSound ==
  ASSUME Sound, NEW p \in Used, NEW q \in Used, NEW id, transfer_capability(p, q, id)
  PROVE  Sound'
<1>1. PICK r \in Records(Here) :
         LET t == insert_capability(Here, q, <<Child(r)>>)
         IN /\ r.owner = p
            /\ Become(t.k) /\ Note(t.k)
  BY Zenon DEF transfer_capability
<1> DEFINE what == Child(r)
           new == <<what>>
           g == insert_capability(Here, q, new)
           u == g.k
<1>2. PICK j \in CapSlots : Here.caps[j] # None /\ Here.caps[j] = r
  BY SoundTables, SlotsOf, Zenon DEF Records
<1>3. what \in Specs /\ ChildOf(what, r)
  <2>1. r \in CapabilityRecords
    BY <1>2, SoundTables, Zenon DEF Tables
  <2> QED
    BY <2>1, Zenon DEF Child, ChildOf, Specs, CapabilityRecords, inherited_child
<1> HIDE DEF what
<1>4. new \in Seq(Specs) /\ \A n \in 1 .. Len(new) : new[n] = what
  BY <1>3
<1>5. Inserted(CapSlots, Here, q, new, u, g.ok)
  <2> HIDE DEF new
  <2> QED
    BY <1>4, SoundTables, InsertInserts, Zenon
<1>6. /\ Known(Here, q) /\ Known(Here, p)
      /\ domains' = u.domains /\ capabilities' = u.caps /\ next_capability_id' = u.next
      /\ Note(u) /\ UNCHANGED <<setup, revoked, sponsor, promoted, lost>>
  BY <1>1, Zenon DEF transfer_capability, Become, what
<1> HIDE DEF g, u, new
<1>7. Legal(CapSlots, Here, u)
  <2>1. OneDomain(u) /\ \A x : Known(u, x) = Known(Here, x)
    BY <1>5, SoundTables, SameDomains DEF Inserted
  <2>2. ASSUME NEW i \in CapSlots, Here.caps[i] = None, u.caps[i] # None
        PROVE  Here.next <= u.caps[i].id /\ Derived(CapSlots, u.caps[i], Here)
    <3>1. /\ Here.next <= u.caps[i].id /\ u.caps[i].object = what.object
          /\ u.caps[i].parent = what.parent /\ u.caps[i].rights = what.rights
      BY <2>2, <1>4, <1>5 DEF Inserted
    <3>2. ChildOf(u.caps[i], Here.caps[j])
      BY <3>1, <1>2, <1>3, Zenon DEF ChildOf
    <3> QED
      BY <3>1, <3>2, <1>1, <1>2, <1>6, ZenonT(30) DEF Derived
  <2> QED
    BY <2>1, <2>2, <1>5, Zenon DEF Legal, Inserted
<1> QED
  BY <1>5, <1>6, <1>7, InsertSound, Zenon

\* Delegation is transitive, and nobody can delegate a privilege they do not have.
LEMMA DelegationNarrows ==
  ASSUME NEW a \in Credentials, NEW b \in Credentials, NEW c \in Credentials,
         ~has_system_privilege(a), can_delegate(a, b)
  PROVE  /\ ~has_system_privilege(b)
         /\ can_delegate(b, c) => can_delegate(a, c)
<1> DEFINE labels == [level : 0 .. 3, categories : SUBSET Categories]
<1>1. \A x \in Credentials : x.label \in labels
  BY Zenon DEF Credentials
<1>2. \A x \in labels : x.level \in 0 .. 3
  BY Zenon
<1> HIDE DEF labels
<1>3. Level["System"] = 3
  BY Zenon DEF Level
<1>4. a.label.level \in 0 .. 3 /\ b.label.level \in 0 .. 3 /\ c.label.level \in 0 .. 3
  BY <1>1, <1>2, Zenon
<1>5. ~has_system_privilege(b)
  BY <1>3, <1>4 DEF has_system_privilege, can_delegate, dominates
<1>6. can_delegate(b, c) => can_delegate(a, c)
  BY <1>4 DEF can_delegate, dominates
<1> QED
  BY <1>5, <1>6, Zenon

\* exec_task
LEMMA ExecSound ==
  ASSUME Sound, NEW p \in Used, NEW creds \in setup.credentials, NEW signed \in BOOLEAN,
         exec_task(p, creds, signed)
  PROVE  Sound'
<1> DEFINE r == register_task(Here, p, creds)
           u == r.k
<1>1. Known(Here, p) /\ p \in Nat /\ creds \in Credentials
  BY SoundTables, Zenon DEF exec_task, authorize_exec
<1>2. Registered(CapSlots, Here, p, creds, u, r.ok)
  BY <1>1, SoundTables, ReregisterRegisters, Zenon
<1>3. /\ domains' = u.domains /\ capabilities' = u.caps /\ next_capability_id' = u.next
      /\ Note(u) /\ UNCHANGED <<setup, revoked, sponsor>>
      /\ promoted' = IF signed /\ r.ok THEN promoted \cup {p} ELSE promoted
      /\ lost' = IF r.ok THEN lost \ {p} ELSE lost \cup {p}
      /\ \/ has_system_privilege(domain(Here, p))
         \/ can_delegate(domain(Here, p), creds)
         \/ signed
  BY Zenon DEF exec_task, Become, authorize_exec
<1> HIDE DEF u, r
<1>4. /\ u \in Tables(CapSlots) /\ OneDomain(u) /\ FreshIds(CapSlots, u) /\ Known(u, p)
      /\ \A q : /\ Known(u, q) <=> Known(Here, q)
                /\ Known(Here, q) /\ q # p => domain(u, q) = domain(Here, q)
  BY <1>1, <1>2, Zenon DEF Registered, OthersKept
<1>5. Legal(CapSlots, Here, u)
  <2>1. ASSUME NEW i \in CapSlots, u.caps[i] # None, u.caps[i] # Here.caps[i]
        PROVE  Here.next <= u.caps[i].id /\ Original(u.caps[i], u)
    <3>1. Here.next <= u.caps[i].id /\ u.caps[i].owner = p /\ SeedOf(u.caps[i], creds) /\ r.ok
      BY <2>1, <1>1, <1>2, Zenon DEF Registered
    <3> QED
      BY <3>1, <1>2, Zenon DEF Original, Registered, SeedOf
  <2> QED
    BY <2>1, <1>2, <1>4, Zenon DEF Legal, Registered
<1>6. Traced(issued', u.next) /\ InHistory(CapSlots, u, issued')
  BY <1>3, <1>4, <1>5, SoundTables, HistoryKept, Zenon DEF Note
<1>7. Unrevoked(CapSlots, u, revoked)
  BY <1>4, <1>5, SoundTables, LegalUnrevoked, Zenon
<1>8. Owned(CapSlots, u, Used, lost')
  <2>1. \A q : Known(u, q) => q \in Used
    BY <1>4, SoundTables, ZenonT(30)
  <2>2. ASSUME NEW i \in CapSlots, u.caps[i] # None
        PROVE  u.caps[i].owner \in Used /\ (Known(u, u.caps[i].owner) \/ u.caps[i].owner \in lost')
    <3>1. u.caps[i] = Here.caps[i] \/ u.caps[i].owner = p
      BY <2>2, <1>2, Zenon DEF Registered
    <3> QED
      BY <2>2, <3>1, <1>3, <1>4 DEF Sound, Owned
  <2> QED
    BY <2>1, <2>2, KnownAreUsed, Zenon DEF Owned
<1>9. Intact(CapSlots, u, Used, lost')
  <2> SUFFICES ASSUME NEW q \in Used, Known(u, q), q \notin lost', "ipc" \in domain(u, q).capabilities
               PROVE  Endpoints(CapSlots, u, q)
    BY Zenon DEF Intact
  <2>1. CASE q = p
    BY <2>1, <1>2, <1>3, Zenon DEF Registered
  <2>2. CASE q # p
    <3>1. Endpoints(CapSlots, Here, q)
      BY <2>2, <1>3, <1>4, Zenon DEF Sound, Intact
    <3>2. \A i \in CapSlots : Here.caps[i] # None /\ Here.caps[i].owner = q => u.caps[i] = Here.caps[i]
      BY <2>2, <1>2, Zenon DEF Registered
    <3> QED
      BY <3>1, <3>2, EndpointsStay, Zenon
  <2> QED
    BY <2>1, <2>2, Zenon
<1>10. Kept(u, sponsor, promoted')
  <2> SUFFICES ASSUME NEW q \in DOMAIN sponsor, Known(u, q), q \notin promoted', sponsor[q] # None,
                      ~has_system_privilege(sponsor[q])
               PROVE  can_delegate(sponsor[q], domain(u, q))
    BY Zenon DEF Kept
  <2>1. q \notin promoted /\ Known(Here, q) /\ can_delegate(sponsor[q], domain(Here, q))
    BY <1>3, <1>4, Zenon DEF Sound, Kept
  <2>2. CASE q # p \/ ~r.ok
    BY <2>1, <2>2, <1>2, <1>4, Zenon DEF Registered
  <2>3. CASE q = p /\ r.ok
    <3>1. ~signed /\ domain(u, q) = creds
      BY <2>3, <1>2, <1>3, Zenon DEF Registered
    <3>2. sponsor[q] \in Credentials /\ domain(Here, q) \in Credentials
      BY <2>1, SoundTables, DomainType, Zenon DEF Sound, Used
    <3> QED
      BY <2>1, <2>3, <3>1, <3>2, <1>1, <1>3, DelegationNarrows, Zenon
  <2> QED
    BY <2>2, <2>3, Zenon
<1> QED
  BY <1>3, <1>4, <1>6, <1>7, <1>8, <1>9, <1>10, SoundNext, Zenon DEF Sound, Used

\* What a creation leaves of the tables, given a pid nobody had: the task complete, or nothing
\* of it, or, when its registration failed, some of its seeds.
Created(S, k, pid, creds, u, ok) ==
    /\ u \in Tables(S) /\ OneDomain(u) /\ FreshIds(S, u) /\ Legal(S, k, u)
    /\ OthersKept(k, u, pid)
    /\ \A i \in S : k.caps[i] # None => u.caps[i] = k.caps[i]
    /\ \A i \in S : u.caps[i] # None /\ u.caps[i] # k.caps[i] =>
          u.caps[i].owner = pid /\ (ok => Known(u, pid))
    /\ Known(u, pid) => /\ domain(u, pid) = creds
                        /\ "ipc" \in creds.capabilities => Endpoints(S, u, pid)

\* The first part of a creation.
LEMMA RegisterCreates ==
  ASSUME NEW S, NEW k \in Tables(S), NEW pid, NEW creds \in Credentials, NEW u, NEW ok,
         ~Known(k, pid), \A i \in S : k.caps[i] # None => k.caps[i].owner # pid,
         Registered(S, k, pid, creds, u, ok)
  PROVE  Created(S, k, pid, creds, u, ok)
<1>1. /\ u \in Tables(S) /\ OneDomain(u) /\ FreshIds(S, u) /\ OthersKept(k, u, pid)
      /\ \A i \in S : k.caps[i] # None => u.caps[i] = k.caps[i]
      /\ \A i \in S : u.caps[i] # None /\ u.caps[i] # k.caps[i] => u.caps[i].owner = pid
      /\ Known(u, pid) <=> ok
      /\ ok => domain(u, pid) = creds /\ ("ipc" \in creds.capabilities => Endpoints(S, u, pid))
  BY Zenon DEF Registered
<1>2. Legal(S, k, u)
  <2>1. ASSUME NEW i \in S, u.caps[i] # None, u.caps[i] # k.caps[i]
        PROVE  k.next <= u.caps[i].id /\ Original(u.caps[i], u)
    <3>1. k.next <= u.caps[i].id /\ u.caps[i].owner = pid /\ SeedOf(u.caps[i], creds)
      BY <2>1, Zenon DEF Registered
    <3> QED
      BY <3>1, <1>1, Zenon DEF Original, SeedOf
  <2>2. ASSUME NEW i \in S, u.caps[i] # None, u.caps[i] = k.caps[i]
        PROVE  Known(u, u.caps[i].owner) => Known(k, u.caps[i].owner)
    BY <2>2, <1>1, Zenon DEF OthersKept
  <2> QED
    BY <2>1, <2>2, Zenon DEF Legal, Registered
<1> QED
  BY <1>1, <1>2, Zenon DEF Created

\* The second: the child derives from records its parent had before.
LEMMA DeriveCreates ==
  ASSUME NEW S \in SUBSET Nat, IsFiniteSet(S), NEW k \in Tables(S), NEW pid \in Nat, NEW creds,
         NEW v, NEW parent, ~Known(k, pid), Known(k, parent),
         Created(S, k, pid, creds, v, TRUE), Known(v, pid)
  PROVE  LET d == derive_inherited_child_capabilities(v, parent, pid)
         IN Created(S, k, pid, creds, d.k, TRUE)
<1> DEFINE d == derive_inherited_child_capabilities(v, parent, pid)
           u == d.k
<1>1. /\ v \in Tables(S) /\ OneDomain(v) /\ FreshIds(S, v) /\ OthersKept(k, v, pid)
      /\ \A i \in S : k.caps[i] # None => v.caps[i] = k.caps[i]
      /\ \A i \in S : v.caps[i] # None /\ v.caps[i] # k.caps[i] => v.caps[i].owner = pid
      /\ domain(v, pid) = creds /\ ("ipc" \in creds.capabilities => Endpoints(S, v, pid))
  BY ZenonT(30) DEF Created
<1>2. /\ u \in Tables(S) /\ FreshIds(S, u) /\ u.domains = v.domains /\ v.next <= u.next
      /\ \A i \in S : v.caps[i] # None => u.caps[i] = v.caps[i]
      /\ \A i \in S : u.caps[i] # None =>
            \/ u.caps[i] = v.caps[i]
            \/ /\ v.next <= u.caps[i].id /\ u.caps[i].owner = pid
               /\ \E j \in S : /\ v.caps[j] # None /\ v.caps[j].owner = parent
                               /\ ChildOf(u.caps[i], v.caps[j])
  BY <1>1, DeriveDerives, SMTT(30)
<1> HIDE DEF d, u
<1>3. OneDomain(u) /\ \A q : Known(u, q) = Known(v, q) /\ domain(u, q) = domain(v, q)
  BY <1>1, <1>2, SameDomains
<1>4. k.next \in Nat /\ v.next \in Nat /\ u.next \in Nat /\ k.next <= v.next
  BY <1>1, <1>2, Zenon DEF Created, Legal, Tables
<1>5. Legal(S, k, u)
  <2> SUFFICES ASSUME NEW i \in S, u.caps[i] # None
               PROVE  \/ u.caps[i] = k.caps[i] /\ (Known(u, u.caps[i].owner) => Known(k, u.caps[i].owner))
                      \/ k.next <= u.caps[i].id /\ (Derived(S, u.caps[i], k) \/ Original(u.caps[i], u))
    <3>1. k.next <= u.next
      BY <1>2, <1>4
    <3> QED
      BY <3>1, ZenonT(30) DEF Legal
  <2>1. CASE u.caps[i] = v.caps[i]
    BY <2>1, <1>3, Zenon DEF Created, Legal, Original
  <2>2. CASE u.caps[i] # v.caps[i]
    <3>1. PICK j \in S : v.caps[j] # None /\ v.caps[j].owner = parent /\ ChildOf(u.caps[i], v.caps[j])
      BY <2>2, <1>2, Zenon
    <3>2. v.caps[j] = k.caps[j]
      BY <3>1, <1>1, Zenon
    <3>3. Derived(S, u.caps[i], k)
      BY <3>1, <3>2, Zenon DEF Derived
    <3>4. k.next <= u.caps[i].id
      <4>1. u.caps[i].id \in Nat /\ v.next <= u.caps[i].id
        BY <2>2, <1>2, Zenon DEF Tables, CapabilityRecords
      <4> QED
        BY <4>1, <1>4
    <3> QED
      BY <3>3, <3>4, Zenon
  <2> QED
    BY <2>1, <2>2, Zenon
<1>6. OthersKept(k, u, pid)
  BY <1>1, <1>3, Zenon DEF OthersKept
<1>7. "ipc" \in creds.capabilities => Endpoints(S, u, pid)
  BY <1>1, <1>2, EndpointsStay, Zenon
<1>8. \A i \in S : k.caps[i] # None => u.caps[i] = k.caps[i]
  BY <1>1, <1>2, Zenon
<1>9. \A i \in S : u.caps[i] # None /\ u.caps[i] # k.caps[i] => u.caps[i].owner = pid
  BY <1>1, <1>2, Zenon
<1>10. Created(S, k, pid, creds, u, TRUE)
  BY <1>1, <1>2, <1>3, <1>5, <1>6, <1>7, <1>8, <1>9, Zenon DEF Created
<1> QED
  BY <1>10, Zenon DEF u, d

\* The last, when something failed: nothing of the task is left.
LEMMA RevokeCreates ==
  ASSUME NEW S, NEW k \in Tables(S), NEW pid, NEW creds, NEW v, NEW ok,
         ~Known(k, pid), \A i \in S : k.caps[i] # None => k.caps[i].owner # pid,
         Created(S, k, pid, creds, v, ok)
  PROVE  Created(S, k, pid, creds, revoke_task(v, pid), ok)
<1> DEFINE u == revoke_task(v, pid)
<1>1. /\ v \in Tables(S) /\ OneDomain(v) /\ FreshIds(S, v) /\ OthersKept(k, v, pid) /\ Legal(S, k, v)
      /\ \A i \in S : k.caps[i] # None => v.caps[i] = k.caps[i]
      /\ \A i \in S : v.caps[i] # None /\ v.caps[i] # k.caps[i] => v.caps[i].owner = pid
  BY Zenon DEF Created
<1>2. /\ Fewer(S, v, u) /\ OneDomain(u) /\ ~Known(u, pid) /\ OthersKept(v, u, pid)
      /\ \A i \in S : u.caps[i] # None => u.caps[i].owner # pid
      /\ \A i \in S : v.caps[i] # None /\ v.caps[i].owner # pid => u.caps[i] = v.caps[i]
  BY <1>1, RevokeTaskRevokes
<1> HIDE DEF u
<1>3. \A i \in S : u.caps[i] # None => u.caps[i] = k.caps[i]
  BY <1>1, <1>2, Zenon DEF Fewer
<1>4. OthersKept(k, u, pid)
  BY <1>1, <1>2, Zenon DEF OthersKept
<1>5. Legal(S, k, u)
  BY <1>1, <1>2, <1>3, <1>4, Zenon DEF Legal, OthersKept, Fewer
<1>6. \A i \in S : k.caps[i] # None => u.caps[i] = k.caps[i]
  BY <1>1, <1>2, Zenon
<1>7. Created(S, k, pid, creds, u, ok)
  BY <1>2, <1>3, <1>4, <1>5, <1>6, Zenon DEF Created, Fewer
<1> QED
  BY <1>7, Zenon DEF u

\* create_process_task
LEMMA CreateSound ==
  ASSUME Sound, NEW parent \in Used \cup {None}, NEW creds \in setup.credentials, NEW fault \in BOOLEAN,
         create_process_task(parent, creds, fault)
  PROVE  Sound'
<1> DEFINE pid == NewPid
           r == register_task(Here, pid, creds)
           d == IF parent = None THEN r ELSE derive_inherited_child_capabilities(r.k, parent, pid)
           u == IF ~r.ok THEN r.k ELSE IF ~d.ok \/ fault THEN revoke_task(d.k, pid) ELSE d.k
           from == IF parent = None THEN None ELSE domain(Here, parent)
<1>1. pid \in Pids /\ pid \in Nat /\ pid \notin Used
  <2>1. Pids \ Used \in SUBSET Nat /\ Pids \ Used # {}
    BY SoundTables, Zenon DEF create_process_task, Sound
  <2> QED
    BY <2>1, LeastIs, Zenon DEF NewPid
<1>2. /\ ~Known(Here, pid) /\ creds \in Credentials
      /\ \A i \in CapSlots : Here.caps[i] # None => Here.caps[i].owner # pid
  BY <1>1, SoundTables, Zenon DEF Sound, Owned
<1>3. /\ domains' = u.domains /\ capabilities' = u.caps /\ next_capability_id' = u.next
      /\ Note(u) /\ UNCHANGED <<setup, revoked, promoted>>
      /\ sponsor' = With(sponsor, pid, from)
      /\ lost' = IF r.ok THEN lost ELSE lost \cup {pid}
  BY Zenon DEF create_process_task, Become
<1>4. parent # None => /\ Known(Here, parent)
                       /\ has_system_privilege(from) \/ can_delegate(from, creds)
  BY Zenon DEF create_process_task, authorize_spawn
<1> HIDE DEF pid, from
<1>5. Created(CapSlots, Here, pid, creds, u, r.ok)
  <2>1. Registered(CapSlots, Here, pid, creds, r.k, r.ok)
    BY <1>1, <1>2, SoundTables, RegisterRegisters, Zenon
  <2> HIDE DEF r
  <2>2. Created(CapSlots, Here, pid, creds, r.k, r.ok)
    BY <2>1, <1>2, SoundTables, RegisterCreates, Zenon
  <2>3. CASE ~r.ok
    BY <2>2, <2>3, Zenon
  <2>4. CASE r.ok
    <3>1. Created(CapSlots, Here, pid, creds, r.k, TRUE) /\ Known(r.k, pid)
      BY <2>1, <2>2, <2>4, Zenon DEF Created, Registered
    <3>2. Created(CapSlots, Here, pid, creds, d.k, TRUE)
      BY <3>1, <1>1, <1>2, <1>4, SoundTables, DeriveCreates, Zenon
    <3> HIDE DEF d
    <3>3. Created(CapSlots, Here, pid, creds, revoke_task(d.k, pid), TRUE)
      BY <3>2, <1>2, SoundTables, RevokeCreates, Zenon
    <3>4. Created(CapSlots, Here, pid, creds, u, TRUE)
      BY <3>2, <3>3, <2>4, Zenon
    <3> HIDE DEF u
    <3> QED
      BY <3>4, <2>4, Zenon DEF Created
  <2> QED
    BY <2>3, <2>4, Zenon
<1> HIDE DEF r, u
<1>6. /\ u \in Tables(CapSlots) /\ OneDomain(u) /\ FreshIds(CapSlots, u) /\ Legal(CapSlots, Here, u)
      /\ OthersKept(Here, u, pid)
      /\ \A i \in CapSlots : Here.caps[i] # None => u.caps[i] = Here.caps[i]
      /\ \A i \in CapSlots : u.caps[i] # None /\ u.caps[i] # Here.caps[i] =>
            u.caps[i].owner = pid /\ (r.ok => Known(u, pid))
      /\ Known(u, pid) => /\ domain(u, pid) = creds
                          /\ "ipc" \in creds.capabilities => Endpoints(CapSlots, u, pid)
  BY <1>5, Zenon DEF Created
<1>7. Traced(issued', u.next) /\ InHistory(CapSlots, u, issued')
  BY <1>3, <1>6, SoundTables, HistoryKept, Zenon DEF Note
<1>8. Unrevoked(CapSlots, u, revoked)
  BY <1>6, SoundTables, LegalUnrevoked, Zenon
<1>9. /\ DOMAIN sponsor' = Used \cup {pid} /\ sponsor'[pid] = from
      /\ \A q \in Used : sponsor'[q] = sponsor[q]
  BY <1>1, <1>3, Zenon DEF With, Used
<1>10. from \in Credentials \cup {None}
  BY <1>4, SoundTables, DomainType, Zenon DEF from
<1>11. Owned(CapSlots, u, DOMAIN sponsor', lost')
  <2>1. \A q : Known(u, q) => q \in DOMAIN sponsor'
    BY <1>6, <1>9, SoundTables, Zenon DEF OthersKept
  <2>2. ASSUME NEW i \in CapSlots, u.caps[i] # None
        PROVE  /\ u.caps[i].owner \in DOMAIN sponsor'
               /\ Known(u, u.caps[i].owner) \/ u.caps[i].owner \in lost'
    <3>1. CASE u.caps[i] = Here.caps[i]
      <4>1. u.caps[i].owner \in Used /\ u.caps[i].owner # pid
        BY <2>2, <3>1, <1>2, Zenon DEF Sound, Owned
      <4>2. Known(Here, u.caps[i].owner) \/ u.caps[i].owner \in lost
        BY <2>2, <3>1, Zenon DEF Sound, Owned
      <4> QED
        BY <4>1, <4>2, <1>3, <1>6, <1>9, Zenon DEF OthersKept
    <3>2. CASE u.caps[i] # Here.caps[i]
      BY <2>2, <3>2, <1>3, <1>6, <1>9, Zenon
    <3> QED
      BY <3>1, <3>2, Zenon
  <2> QED
    BY <2>1, <2>2, KnownAreUsed, Zenon DEF Owned
<1>12. Intact(CapSlots, u, DOMAIN sponsor', lost')
  <2> SUFFICES ASSUME NEW q \in DOMAIN sponsor', Known(u, q), q \notin lost',
                      "ipc" \in domain(u, q).capabilities
               PROVE  Endpoints(CapSlots, u, q)
    BY Zenon DEF Intact
  <2>1. CASE q = pid
    BY <2>1, <1>6, Zenon
  <2>2. CASE q # pid
    <3>1. q \in Used /\ q \notin lost /\ Known(Here, q) /\ domain(u, q) = domain(Here, q)
      BY <2>2, <1>3, <1>6, <1>9, Zenon DEF OthersKept
    <3>2. Endpoints(CapSlots, Here, q)
      BY <3>1, Zenon DEF Sound, Intact
    <3> QED
      BY <3>2, <1>6, EndpointsStay, Zenon
  <2> QED
    BY <2>1, <2>2, Zenon
<1>13. Kept(u, sponsor', promoted)
  <2> SUFFICES ASSUME NEW q \in DOMAIN sponsor', Known(u, q), q \notin promoted, sponsor'[q] # None,
                      ~has_system_privilege(sponsor'[q])
               PROVE  can_delegate(sponsor'[q], domain(u, q))
    BY Zenon DEF Kept
  <2>1. CASE q = pid
    BY <2>1, <1>4, <1>6, <1>9, Zenon DEF from
  <2>2. CASE q # pid
    <3>1. q \in Used /\ Known(Here, q) /\ domain(u, q) = domain(Here, q) /\ sponsor'[q] = sponsor[q]
      BY <2>2, <1>6, <1>9, Zenon DEF OthersKept
    <3> QED
      BY <3>1, Zenon DEF Sound, Kept, Used
  <2> QED
    BY <2>1, <2>2, Zenon
<1>14. DOMAIN sponsor' \subseteq Pids /\ \A q \in DOMAIN sponsor' : sponsor'[q] \in Credentials \cup {None}
  BY <1>1, <1>9, <1>10, Zenon DEF Sound
<1> QED
  BY <1>3, <1>6, <1>7, <1>8, <1>11, <1>12, <1>13, <1>14, SoundNext, Zenon

\* The tables start empty.
LEMMA InitSound ==
  ASSUME Init
  PROVE  Sound
<1>1. Here.domains = [i \in DomainSlots |-> None] /\ Here.caps = [i \in CapSlots |-> None] /\ Here.next = 1
  BY Zenon DEF Init, Here
<1>2. Here \in Tables(CapSlots)
  BY <1>1 DEF Tables, Here
<1>3. \A q : ~Known(Here, q)
  BY <1>1, Zenon DEF Known, DomainOf
<1>4. DOMAIN issued = {} /\ DOMAIN sponsor = {} /\ revoked = {} /\ setup \in Setups /\ Used = {}
  BY Zenon DEF Init, Used
<1>5. OneDomain(Here) /\ FreshIds(CapSlots, Here) /\ InHistory(CapSlots, Here, issued)
  BY <1>1, Zenon DEF OneDomain, FreshIds, InHistory
<1>6. Traced(issued, next_capability_id) /\ Unrevoked(CapSlots, Here, revoked)
  BY <1>1, <1>4, Zenon DEF Traced, Unrevoked
<1>7. Owned(CapSlots, Here, Used, lost) /\ Intact(CapSlots, Here, Used, lost)
      /\ Kept(Here, sponsor, promoted)
  BY <1>1, <1>3, <1>4, Zenon DEF Owned, Intact, Kept
<1> QED
  BY <1>2, <1>4, <1>5, <1>6, <1>7, Zenon DEF Sound

\* Sound is inductive.
LEMMA NextSound ==
  ASSUME Sound, [Next]_vars
  PROVE  Sound'
<1>1. CASE \E c \in setup.credentials : create_process_task(None, c, FALSE) /\ Used = {}
  BY <1>1, CreateSound, Zenon
<1>2. CASE \E p \in Used, c \in setup.credentials, fault \in BOOLEAN : create_process_task(p, c, fault)
  BY <1>2, CreateSound, Zenon
<1>3. CASE \E p \in Used, c \in setup.credentials, signed \in BOOLEAN : exec_task(p, c, signed)
  BY <1>3, ExecSound, Zenon
<1>4. CASE \E p \in Used : exit_process(p) \/ revoke_task_capabilities(p)
  BY <1>4, ExitSound, RevokeTaskCapabilitiesSound, Zenon
<1>5. CASE \E p \in Used : grant_capability(p, Granted, IoRights)
  BY <1>5, GrantSound, Zenon
<1>6. CASE \E id \in DOMAIN issued : revoke_capability(id)
  BY <1>6, RevokeCapabilitySound, Zenon
<1>7. CASE \E p, q \in Used, id \in DOMAIN issued : transfer_capability(p, q, id)
  BY <1>7, TransferSound, Zenon
<1>8. CASE UNCHANGED vars
  BY <1>8, Zenon DEF vars, Sound, Here, CapSlots, MAX_CAPABILITY_RECORDS, Used, Pids
<1> QED
  BY <1>1, <1>2, <1>3, <1>4, <1>5, <1>6, <1>7, <1>8, Zenon DEF Next

-----------------------------------------------------------------------------
(* What the invariant says of the decisions.                                 *)

\* The records of Here, by slot.
LEMMA RecordSlots ==
  ASSUME Sound, NEW r \in Records(Here)
  PROVE  \E i \in CapSlots : Here.caps[i] # None /\ Here.caps[i] = r
BY SoundTables, SlotsOf, Zenon DEF Records

\* A task with its endpoints may send to anybody and receive.
LEMMA EndpointsSuffice ==
  ASSUME Sound, NEW p, Known(Here, p), Endpoints(CapSlots, Here, p)
  PROVE  /\ check_capability(Here, p, Object("IpcEndpoint", p), "Receive")
         /\ \A q : check_capability(Here, p, Object("IpcEndpoint", q), "Send")
<1>1. PICK i \in CapSlots : /\ Here.caps[i] # None /\ Here.caps[i].owner = p
                            /\ Here.caps[i].object = Object("IpcEndpoint", p)
                            /\ Here.caps[i].rights = EndpointRights
  BY Zenon DEF Endpoints, Endpoint
<1>2. PICK j \in CapSlots : /\ Here.caps[j] # None /\ Here.caps[j].owner = p
                            /\ Here.caps[j].object = Object("IpcEndpoint", AnyId)
                            /\ Here.caps[j].rights = EndpointRights
  BY Zenon DEF Endpoints, Endpoint
<1>3. Here.caps[i] \in Records(Here) /\ Here.caps[j] \in Records(Here)
  BY <1>1, <1>2, SoundTables, SlotsOf, Zenon DEF Records
<1>4. \A q : capability_object_matches(Object("IpcEndpoint", AnyId), Object("IpcEndpoint", q))
  BY Zenon DEF capability_object_matches, Object, Wild
<1>5. capability_object_matches(Object("IpcEndpoint", p), Object("IpcEndpoint", p))
  BY Zenon DEF capability_object_matches
<1>6. "Receive" \in EndpointRights /\ "Send" \in EndpointRights
  BY Zenon DEF EndpointRights
<1>7. has_capability(Here, p, Object("IpcEndpoint", p), "Receive")
  BY <1>1, <1>3, <1>5, <1>6, Zenon DEF has_capability
<1>8. \A q : has_capability(Here, p, Object("IpcEndpoint", q), "Send")
  BY <1>2, <1>3, <1>4, <1>6, Zenon DEF has_capability
<1> QED
  BY <1>7, <1>8, Zenon DEF check_capability

\* CanCommunicate follows.
LEMMA SoundCommunicates ==
  ASSUME Sound
  PROVE  CanCommunicate
<1> SUFFICES ASSUME NEW p \in Living \ lost, NEW class \in DOMAIN Level,
                    "ipc" \in domain(Here, p).capabilities
             PROVE  /\ authorize_ipc_receive(Here, p)
                    /\ authorize_service_registration(Here, p, class)
                          <=> dominates(domain(Here, p).label, Label(class))
                    /\ \A q \in Living : authorize_ipc(Here, p, q, class) <=>
                          /\ dominates(domain(Here, p).label, Label(class))
                          /\ dominates(domain(Here, q).label, Label(class))
                          /\ domain(Here, p).isolation = "VirtualMachine" =>
                                domain(Here, q).isolation # "None"
  BY Zenon DEF CanCommunicate
<1>1. Known(Here, p) /\ Endpoints(CapSlots, Here, p)
  BY Zenon DEF Living, Sound, Intact
<1>2. authorize_ipc_receive(Here, p)
  BY <1>1, EndpointsSuffice, Zenon DEF authorize_ipc_receive
<1>3. \A q \in Living : authorize_ipc(Here, p, q, class) <=>
                          /\ dominates(domain(Here, p).label, Label(class))
                          /\ dominates(domain(Here, q).label, Label(class))
                          /\ domain(Here, p).isolation = "VirtualMachine" =>
                                domain(Here, q).isolation # "None"
  BY <1>1, EndpointsSuffice, Zenon DEF authorize_ipc, Living
<1> QED
  BY <1>2, <1>3, Zenon DEF authorize_service_registration

\* Delegated follows.
LEMMA SoundDelegates ==
  ASSUME Sound
  PROVE  Delegated
<1> SUFFICES ASSUME NEW p \in Living \ promoted, sponsor[p] # None, ~has_system_privilege(sponsor[p])
             PROVE  /\ can_delegate(sponsor[p], domain(Here, p))
                    /\ \A write \in BOOLEAN : ~authorize_memory_mapping(Here, p, write, TRUE)
  BY Zenon DEF Delegated
<1>1. Known(Here, p) /\ p \in Used /\ can_delegate(sponsor[p], domain(Here, p))
  BY Zenon DEF Living, Used, Sound, Kept
<1>2. sponsor[p] \in Credentials /\ domain(Here, p) \in Credentials
  BY <1>1, SoundTables, DomainType, Zenon DEF Sound
<1>3. ~has_system_privilege(domain(Here, p))
  BY <1>1, <1>2, DelegationNarrows, Zenon
<1> QED
  BY <1>1, <1>3, Zenon DEF authorize_memory_mapping

\* The bound on authority follows.
LEMMA SoundBounds ==
  ASSUME Sound
  PROVE  AuthorityBounded
<1>1. IdsUnique
  <2>1. Here.caps = capabilities /\ Here.next = next_capability_id
    BY Zenon DEF Here
  <2>2. \A r \in Records(Here) : r.id < next_capability_id
    BY <2>1, RecordSlots, Zenon DEF Sound, FreshIds
  <2> QED
    BY <2>1, <2>2, Zenon DEF IdsUnique, Sound, FreshIds
<1>2. OwnersKnown
  BY RecordSlots, ZenonT(30) DEF OwnersKnown, Sound, Owned
<1>3. Attenuated
  <2> SUFFICES ASSUME NEW r \in Records(Here), r.parent # None
               PROVE  /\ r.object = issued[r.parent].record.object
                      /\ r.rights \subseteq issued[r.parent].record.rights \ {"Revoke"}
    BY Zenon DEF Attenuated
  <2>1. r.id \in DOMAIN issued /\ issued[r.id].record = r
    BY RecordSlots, Zenon DEF Sound, InHistory
  <2>2. Traced(issued, next_capability_id)
    BY Zenon DEF Sound
  <2>3. LET c == issued[r.id].record
        IN c.parent # None => /\ c.object = issued[c.parent].record.object
                              /\ c.rights \subseteq issued[c.parent].record.rights \ {"Revoke"}
    BY <2>1, <2>2, Zenon DEF Traced
  <2> QED
    BY <2>1, <2>3, Zenon
<1>4. RevocationHolds
  BY RecordSlots, Zenon DEF RevocationHolds, Sound, Unrevoked
<1> QED
  BY <1>1, <1>2, <1>3, <1>4, SoundDelegates, SoundCommunicates, Zenon DEF AuthorityBounded

\* Every record of a living task has the object of a seed or grant that starts its chain, and
\* the credentials at the start gave that object.
LEMMA OriginGave ==
  ASSUME Sound, NEW p \in Living, NEW r \in Records(Here), r.owner = p
  PROVE  LET c == issued[issued[r.id].root].creds IN
         /\ c # None /\ r.object \in Objects
         /\ r.object.kind \in {"ServiceControl", "ModuleLoad", "ProcessHandle"} => has_system_privilege(c)
         /\ r.object = Object("PciDevice", AnyId) => "io" \in c.capabilities
<1> DEFINE o == issued[issued[r.id].root]
<1>1. r.id \in DOMAIN issued /\ issued[r.id].record = r /\ o.creds # None
  <2>1. PICK i \in CapSlots : Here.caps[i] # None /\ Here.caps[i] = r
    BY RecordSlots, Zenon
  <2>2. r.id \in DOMAIN issued /\ issued[r.id].record = r
    BY <2>1, Zenon DEF Sound, InHistory
  <2>3. Known(Here, r.owner)
    BY Zenon DEF Living
  <2> QED
    BY <2>1, <2>2, <2>3, Zenon DEF Sound, InHistory
<1>2. o.record.object = r.object /\ SeedOf(o.record, o.creds)
  BY <1>1, Zenon DEF Sound, Traced
<1>3. r.object \in Objects
  BY RecordSlots, SoundTables, Zenon DEF Tables, CapabilityRecords
<1> HIDE DEF o
<1>4. /\ r.object.kind \in {"ServiceControl", "ModuleLoad", "ProcessHandle"} => has_system_privilege(o.creds)
      /\ r.object = Object("PciDevice", AnyId) => "io" \in o.creds.capabilities
  BY <1>2, Zenon DEF SeedOf
<1> QED
  BY <1>1, <1>3, <1>4, Zenon DEF o

\* What matches an object with an id is of its kind.
LEMMA MatchesKind ==
  ASSUME NEW kind \in Wild \cup Plain, NEW id, NEW granted \in Objects,
         capability_object_matches(granted, Object(kind, id))
  PROVE  granted.kind = kind /\ (id = AnyId => granted = Object(kind, id))
<1>1. Object(kind, id).kind = kind /\ kind \notin RegionKinds
  BY Zenon DEF Object, Wild, Plain, RegionKinds
<1>2. granted.kind = kind
  BY <1>1, Zenon DEF capability_object_matches
<1>3. granted \in [kind : Wild \cup Plain, id : Ids]
  BY <1>1, <1>2, Zenon DEF Objects
<1> QED
  BY <1>1, <1>2, <1>3, Zenon DEF capability_object_matches, Object

\* Privileges are traced.
LEMMA SoundTraces ==
  ASSUME Sound
  PROVE  PrivilegesTraced
<1> DEFINE origins(p) == {issued[issued[r.id].root].creds : r \in {x \in Records(Here) : x.owner = p}}
           privileged(p) == \E c \in origins(p) : c # None /\ has_system_privilege(c)
<1>1. ASSUME NEW p \in Living, NEW kind \in {"ServiceControl", "ModuleLoad", "ProcessHandle"}, NEW id, NEW right,
             check_capability(Here, p, Object(kind, id), right)
      PROVE  privileged(p)
  <2>1. PICK r \in Records(Here) : r.owner = p /\ capability_object_matches(r.object, Object(kind, id))
    BY <1>1, Zenon DEF check_capability, has_capability
  <2>2. r.object \in Objects
    BY <2>1, OriginGave, Zenon
  <2>3. r.object.kind = kind
    BY <2>1, <2>2, MatchesKind, Zenon DEF Wild, Plain
  <2> QED
    BY <2>1, <2>3, OriginGave, Zenon
<1>2. ASSUME NEW p \in Living, authorize_device_enumeration(Here, p)
      PROVE  \E c \in origins(p) : c # None /\ "io" \in c.capabilities
  <2>1. PICK r \in Records(Here) : /\ r.owner = p
                                   /\ capability_object_matches(r.object, Object("PciDevice", AnyId))
    BY <1>2, Zenon DEF authorize_device_enumeration, check_capability, has_capability
  <2>2. r.object \in Objects
    BY <2>1, OriginGave, Zenon
  <2>3. r.object = Object("PciDevice", AnyId)
    BY <2>1, <2>2, MatchesKind, Zenon DEF Wild
  <2> QED
    BY <2>1, <2>3, OriginGave, Zenon
<1>3. \A p \in Living : authorize_service_control(Here, p) => privileged(p)
  BY <1>1, Zenon DEF authorize_service_control
<1>4. \A p \in Living : authorize_credential_update(Here, p) => privileged(p)
  BY <1>1, Zenon DEF authorize_credential_update
<1>5. \A p \in Living : authorize_device_access(Here, p, Granted, "Read", "Internal", TRUE) => privileged(p)
  BY <1>1, Zenon DEF authorize_device_access
<1> QED
  BY <1>2, <1>3, <1>4, <1>5, Zenon DEF PrivilegesTraced

-----------------------------------------------------------------------------
\* In every state, for every size of the tables and every set of credentials: ids are not used
\* twice, every record is of a task the broker knows or of one whose registration or records
\* failed, derived records narrow what they derive from, nothing revoked is still held, no
\* task outgrew a sponsor without privileges, and who kept the seeds can communicate.
THEOREM AuthorityIsBounded == Spec => []AuthorityBounded
<1>1. Init => Sound
  BY InitSound, Zenon
<1>2. Sound /\ [Next]_vars => Sound'
  BY NextSound, Zenon
<1>3. Sound => AuthorityBounded
  BY SoundBounds, Zenon
<1> QED
  BY <1>1, <1>2, <1>3, PTL DEF Spec

\* In every state, whoever may control services or credentials, reach a device in kernel mode
\* or enumerate devices holds a record whose chain of derivations starts at a task whose
\* credentials gave that power.
THEOREM PrivilegesAreTraced == Spec => []PrivilegesTraced
<1>1. Init => Sound
  BY InitSound, Zenon
<1>2. Sound /\ [Next]_vars => Sound'
  BY NextSound, Zenon
<1>3. Sound => PrivilegesTraced
  BY SoundTraces, Zenon
<1> QED
  BY <1>1, <1>2, <1>3, PTL DEF Spec

=============================================================================
