---------------------------- MODULE PagingProofs ----------------------------
(***************************************************************************)
(* What the page tables of Paging.tla preserve, for every number of        *)
(* frames, every fanout, every place of the kernel half and every set of   *)
(* pages.                                                                  *)
(*                                                                         *)
(* Shaped gives every frame one place: free, the root of an address space, *)
(* a directory below one entry of one root (up, at), or a leaf table below *)
(* one entry of one directory. Where a table hangs is then determined by   *)
(* the table, so no table hangs in two places and none is lost. Sound says *)
(* that such places exist; it is inductive.                                *)
(***************************************************************************)
EXTENDS Paging, NaturalsInduction, WellFoundedInduction, TLAPS

Kinds == {"free", "top", "pd", "pt"}
Half(r) == IF r = KernelRoot THEN KernelHalf .. Fanout - 1 ELSE 0 .. KernelHalf - 1
Entries == TableFrames \cup Physical \cup {None}

\* Directories and leaf tables hang where up and at say.
HangsRight(ts, kind, up, at) ==
    /\ \A f \in TableFrames : kind[f] = "pd" =>
          kind[up[f]] = "top" /\ at[f] \in Half(up[f]) /\ ts[up[f]][at[f]] = f
    /\ \A f \in TableFrames : kind[f] = "pt" => kind[up[f]] = "pd" /\ ts[up[f]][at[f]] = f

\* Every entry of a root's own half and of a directory is empty or the table that hangs there.
Rooted(ts, kind, up, at) ==
    /\ \A f \in TableFrames : kind[f] = "top" => \A i \in Half(f) : ts[f][i] # None =>
          /\ ts[f][i] \in TableFrames /\ kind[ts[f][i]] = "pd"
          /\ up[ts[f][i]] = f /\ at[ts[f][i]] = i
    /\ \A f \in TableFrames : kind[f] = "pd" => \A i \in Index : ts[f][i] # None =>
          /\ ts[f][i] \in TableFrames /\ kind[ts[f][i]] = "pt"
          /\ up[ts[f][i]] = f /\ at[ts[f][i]] = i

Shaped(ts, fr, rs, kind, up, at) ==
    /\ fr \subseteq TableFrames /\ rs \subseteq TableFrames \ {KernelRoot}
    /\ ts \in [TableFrames \ fr -> [Index -> Entries]]
    /\ kind \in [TableFrames -> Kinds]
    /\ up \in [TableFrames -> TableFrames] /\ at \in [TableFrames -> Index]
    /\ \A f \in TableFrames : /\ kind[f] = "free" <=> f \in fr
                              /\ kind[f] = "top" <=> f \in rs \cup {KernelRoot}
    /\ HangsRight(ts, kind, up, at)
    /\ Rooted(ts, kind, up, at)
    /\ \A f \in TableFrames : kind[f] = "pt" => \A i \in Index : ts[f][i] \in Physical \cup {None}
    /\ \A r \in rs, i \in Half(KernelRoot) : ts[r][i] \in {None, ts[KernelRoot][i]}
    /\ \A i \in 0 .. KernelHalf - 1 : ts[KernelRoot][i] = None

Sound(ts, fr, rs) ==
    \E kind \in [TableFrames -> Kinds], up \in [TableFrames -> TableFrames], at \in [TableFrames -> Index] :
        Shaped(ts, fr, rs, kind, up, at)

-----------------------------------------------------------------------------
(* Numbers *)

LEMMA LowestIs ==
  ASSUME NEW S \in SUBSET Nat, S # {}
  PROVE  Lowest(S) \in S
<1> DEFINE R == {ss \in Nat \X Nat : ss[1] < ss[2]}
<1>1. IsWellFoundedOn(R, Nat)
  BY NatLessThanWellFounded, Zenon DEF OpToRel
<1> HIDE DEF R
<1>2. PICK n \in S : \A m \in S : ~(<<m, n>> \in R)
  BY <1>1, WFMin, Zenon
<1>3. ASSUME NEW m \in S PROVE n <= m
  <2>1. m \in Nat /\ n \in Nat /\ (m < n => <<m, n>> \in R)
    BY Zenon DEF R
  <2> QED
    BY <1>2, <2>1
<1> QED
  BY <1>3, Zenon DEF Lowest

\* An index is an entry of a table.
LEMMA IndexType ==
  ASSUME NEW v \in Pages, NEW level \in 0 .. 2
  PROVE  index(v, level) \in Index
<1>1. v \in Nat /\ Fanout \in Nat /\ Fanout > 0
  BY PagingAssumption DEF Index
<1>2. v \div Fanout \in Nat
  BY <1>1
<1>3. (v \div Fanout) \div Fanout \in Nat
  BY <1>1, <1>2
<1>4. Shifted(v, level) \in Nat
  BY <1>1, <1>2, <1>3 DEF Shifted
<1> QED
  BY <1>1, <1>4 DEF index, Index

LEMMA DivMod ==
  ASSUME NEW v \in Nat, NEW n \in Nat, n > 0
  PROVE  /\ v \div n \in Nat /\ v % n \in 0 .. n - 1
         /\ v = n * (v \div n) + (v % n)
OBVIOUS

\* The indices of a page determine it.
LEMMA IndexInjective ==
  ASSUME NEW v \in Pages, NEW w \in Pages, \A level \in 0 .. 2 : index(v, level) = index(w, level)
  PROVE  v = w
<1> DEFINE F == Fanout
           a(x) == x \div F
           b(x) == (x \div F) \div F
<1>1. F \in Nat /\ F > 0 /\ \A x \in Pages : x \in Nat /\ x < F * F * F
  BY PagingAssumption DEF Index
<1>2. ASSUME NEW x \in Pages
      PROVE  /\ a(x) \in Nat /\ x = F * a(x) + (x % F) /\ x % F \in 0 .. F - 1
             /\ b(x) \in Nat /\ a(x) = F * b(x) + (a(x) % F) /\ a(x) % F \in 0 .. F - 1
  BY <1>1, DivMod, Zenon
<1>3. ASSUME NEW x \in Pages PROVE b(x) % F = b(x)
  <2>1. x \in Nat /\ x < F * F * F /\ a(x) \in Nat /\ b(x) \in Nat
    BY <1>1, <1>2
  <2> DEFINE m == x % F
             n == a(x) % F
  <2>0. x = F * a(x) + m /\ m \in Nat /\ a(x) = F * b(x) + n /\ n \in Nat
    BY <1>1, <1>2
  <2> HIDE DEF a, b, m, n, F
  <2>2. F * a(x) <= x /\ F * b(x) <= a(x)
    BY <1>1, <2>1, <2>0
  <2>3. b(x) < F
    <3> SUFFICES ASSUME b(x) >= F PROVE FALSE
      BY <1>1, <2>1
    <3>1. F * b(x) >= F * F
      BY <1>1, <2>1
    <3>2. a(x) >= F * F /\ F * F \in Nat
      BY <1>1, <2>1, <2>2, <3>1
    <3>3. F * a(x) >= F * (F * F)
      BY <1>1, <2>1, <3>2
    <3> QED
      BY <1>1, <2>1, <2>2, <3>3
  <2> QED
    BY <1>1, <2>1, <2>3
<1>4. v % F = w % F /\ a(v) % F = a(w) % F /\ b(v) % F = b(w) % F
  BY DEF index, Shifted
<1> HIDE DEF F
<1>5. b(v) = b(w)
  BY <1>3, <1>4
<1>6. a(v) = a(w)
  BY <1>1, <1>2, <1>4, <1>5
<1> QED
  BY <1>1, <1>2, <1>4, <1>6

-----------------------------------------------------------------------------
(* Trees *)

\* What the kernel's root and the roots of address spaces are.
LEMMA Roots ==
  ASSUME NEW ts, NEW fr, NEW rs, NEW kind, NEW up, NEW at, Shaped(ts, fr, rs, kind, up, at)
  PROVE  /\ KernelRoot \in TableFrames /\ kind[KernelRoot] = "top"
         /\ \A r \in rs : r \in TableFrames /\ r # KernelRoot /\ kind[r] = "top"
         /\ \A f \in TableFrames : kind[f] # "free" => f \in TableFrames \ fr /\ ts[f] \in [Index -> Entries]
BY PagingAssumption, Zenon DEF Shaped, KernelTables, KernelRoot

\* The tables after frame f was hung below entry i of parent.
Hung(ts, f, parent, i) ==
    [g \in DOMAIN ts \cup {f} |-> IF g = f THEN EmptyTable
                                  ELSE IF g = parent THEN [ts[g] EXCEPT ![i] = f]
                                  ELSE ts[g]]

\* Where a table may be hung: an empty entry of a root's own half or of a directory.
Vacant(ts, kind, parent, i) ==
    /\ parent \in TableFrames /\ i \in Index /\ ts[parent][i] = None
    /\ \/ kind[parent] = "top" /\ i \in Half(parent)
       \/ kind[parent] = "pd"

Below(kind, parent) == IF kind[parent] = "top" THEN "pd" ELSE "pt"

\* What hanging a table changes, entry by entry.
HungAs(us, ts, fr, kind, f, parent, i) ==
    /\ f \in TableFrames /\ kind[f] = "free" /\ f # parent /\ f # None
    /\ us \in [TableFrames \ (fr \ {f}) -> [Index -> Entries]]
    /\ \A j \in Index : us[f][j] = None
    /\ us[parent][i] = f
    /\ \A j \in Index : j # i => us[parent][j] = ts[parent][j]
    /\ \A g \in TableFrames : kind[g] # "free" /\ g # parent => us[g] = ts[g]

LEMMA HungEntries ==
  ASSUME NEW ts, NEW fr, NEW rs, NEW kind, NEW up, NEW at, Shaped(ts, fr, rs, kind, up, at),
         NEW f \in fr, NEW parent, NEW i, Vacant(ts, kind, parent, i)
  PROVE  HungAs(Hung(ts, f, parent, i), ts, fr, kind, f, parent, i)
<1> DEFINE us == Hung(ts, f, parent, i)
<1>1. f \in TableFrames /\ kind[f] = "free" /\ f # parent /\ f # None
  <2>1. f \in TableFrames /\ kind[f] = "free"
    BY Zenon DEF Shaped
  <2>2. kind[parent] # "free"
    BY DEF Vacant
  <2> QED
    BY <2>1, <2>2, PagingAssumption, Zenon
<1>2. /\ parent \in TableFrames \ fr /\ i \in Index /\ ts \in [TableFrames \ fr -> [Index -> Entries]]
      /\ \A g \in TableFrames : kind[g] # "free" => g \in TableFrames \ fr
  BY Zenon DEF Shaped, Vacant
<1>3. EmptyTable \in [Index -> Entries] /\ \A j \in Index : EmptyTable[j] = None
  BY Zenon DEF EmptyTable, Entries
<1>4. f \in Entries
  BY <1>1, Zenon DEF Entries
<1>5. DOMAIN ts \cup {f} = TableFrames \ (fr \ {f})
  BY <1>1, <1>2, Zenon
<1>6. us = [g \in TableFrames \ (fr \ {f}) |-> IF g = f THEN EmptyTable
                                  ELSE IF g = parent THEN [ts[g] EXCEPT ![i] = f]
                                  ELSE ts[g]]
  BY <1>5, Zenon DEF Hung
<1> HIDE DEF us
<1>7. [ts[parent] EXCEPT ![i] = f] \in [Index -> Entries]
  BY <1>2, <1>4
<1>8. us[f] = EmptyTable /\ us[parent] = [ts[parent] EXCEPT ![i] = f]
  BY <1>1, <1>2, <1>6, Zenon
<1>9. \A g \in TableFrames : kind[g] # "free" /\ g # parent => us[g] = ts[g]
  BY <1>1, <1>2, <1>6, Zenon
<1>10. us \in [TableFrames \ (fr \ {f}) -> [Index -> Entries]]
  BY <1>2, <1>3, <1>6, <1>7, Zenon
<1>11. us[parent][i] = f /\ \A j \in Index : j # i => us[parent][j] = ts[parent][j]
  BY <1>2, <1>8
<1> QED
  BY <1>1, <1>3, <1>8, <1>9, <1>10, <1>11, Zenon DEF us, HungAs

\* Hanging a table keeps the shape.
LEMMA HangShaped ==
  ASSUME NEW ts, NEW fr, NEW rs, NEW kind, NEW up, NEW at, Shaped(ts, fr, rs, kind, up, at),
         NEW f \in fr, NEW parent, NEW i, Vacant(ts, kind, parent, i)
  PROVE  Shaped(Hung(ts, f, parent, i), fr \ {f}, rs,
                [kind EXCEPT ![f] = Below(kind, parent)], [up EXCEPT ![f] = parent], [at EXCEPT ![f] = i])
<1> DEFINE us == Hung(ts, f, parent, i)
           k == [kind EXCEPT ![f] = Below(kind, parent)]
           u == [up EXCEPT ![f] = parent]
           a == [at EXCEPT ![f] = i]
<1>1. /\ f \in TableFrames /\ kind[f] = "free" /\ f # parent /\ f # None
      /\ us \in [TableFrames \ (fr \ {f}) -> [Index -> Entries]]
      /\ \A j \in Index : us[f][j] = None
      /\ us[parent][i] = f
      /\ \A j \in Index : j # i => us[parent][j] = ts[parent][j]
      /\ \A g \in TableFrames : kind[g] # "free" /\ g # parent => us[g] = ts[g]
  <2>1. HungAs(us, ts, fr, kind, f, parent, i)
    BY HungEntries, Zenon
  <2> HIDE DEF us
  <2> QED
    BY <2>1, Zenon DEF HungAs
<1>2. /\ kind \in [TableFrames -> Kinds] /\ up \in [TableFrames -> TableFrames] /\ at \in [TableFrames -> Index]
      /\ parent \in TableFrames /\ i \in Index /\ ts[parent][i] = None
      /\ \/ kind[parent] = "top" /\ i \in Half(parent)
       \/ kind[parent] = "pd"
  BY Zenon DEF Shaped, Vacant
<1>0. HangsRight(ts, kind, up, at) /\ Rooted(ts, kind, up, at)
  BY Zenon DEF Shaped
<1>3. Below(kind, parent) \in Kinds /\ Below(kind, parent) \in {"pd", "pt"}
  BY DEF Below, Kinds
<1>4. k \in [TableFrames -> Kinds] /\ u \in [TableFrames -> TableFrames] /\ a \in [TableFrames -> Index]
  BY <1>2, <1>3, Zenon
<1>5. /\ k[f] = Below(kind, parent) /\ u[f] = parent /\ a[f] = i
      /\ \A g \in TableFrames : g # f => k[g] = kind[g] /\ u[g] = up[g] /\ a[g] = at[g]
  BY <1>1, <1>2
<1> HIDE DEF us, k, u, a
<1>6. \A g \in TableFrames : /\ k[g] = "free" <=> g \in fr \ {f}
                             /\ k[g] = "top" <=> g \in rs \cup {KernelRoot}
  BY <1>1, <1>3, <1>5 DEF Shaped
<1>7. HangsRight(us, k, u, a)
  <2>1. ASSUME NEW g \in TableFrames, k[g] = "pd"
        PROVE  k[u[g]] = "top" /\ a[g] \in Half(u[g]) /\ us[u[g]][a[g]] = g
    <3>1. CASE g = f
      <4>1. kind[parent] = "top" /\ i \in Half(parent)
        BY <2>1, <3>1, <1>5, <1>2 DEF Below
      <4> QED
        BY <3>1, <4>1, <1>1, <1>2, <1>5, ZenonT(30)
    <3>2. CASE g # f
      <4>1. kind[g] = "pd" /\ up[g] \in TableFrames /\ u[g] = up[g] /\ a[g] = at[g] /\ at[g] \in Index
        BY <2>1, <3>2, <1>5, <1>2, Zenon
      <4>2. kind[up[g]] = "top" /\ at[g] \in Half(up[g]) /\ ts[up[g]][at[g]] = g
        BY <4>1, <1>0, Zenon DEF HangsRight
      <4>3. up[g] # f /\ k[up[g]] = "top" /\ g # None
        BY <4>1, <4>2, <1>1, <1>5, PagingAssumption, Zenon
      <4>4. us[up[g]][at[g]] = ts[up[g]][at[g]]
        BY <4>1, <4>2, <4>3, <1>1, <1>2
      <4> QED
        BY <4>1, <4>2, <4>3, <4>4, Zenon
    <3> QED
      BY <3>1, <3>2, Zenon
  <2>2. ASSUME NEW g \in TableFrames, k[g] = "pt"
        PROVE  k[u[g]] = "pd" /\ us[u[g]][a[g]] = g
    <3>1. CASE g = f
      <4>1. kind[parent] = "pd"
        BY <2>2, <3>1, <1>5, <1>2 DEF Below
      <4> QED
        BY <3>1, <4>1, <1>1, <1>2, <1>5, Zenon
    <3>2. CASE g # f
      <4>1. kind[g] = "pt" /\ up[g] \in TableFrames /\ u[g] = up[g] /\ a[g] = at[g] /\ at[g] \in Index
        BY <2>2, <3>2, <1>5, <1>2, Zenon
      <4>2. kind[up[g]] = "pd" /\ ts[up[g]][at[g]] = g
        BY <4>1, <1>0, Zenon DEF HangsRight
      <4>3. up[g] # f /\ k[up[g]] = "pd" /\ g # None
        BY <4>1, <4>2, <1>1, <1>5, PagingAssumption, Zenon
      <4>4. us[up[g]][at[g]] = ts[up[g]][at[g]]
        BY <4>1, <4>2, <4>3, <1>1, <1>2
      <4> QED
        BY <4>1, <4>2, <4>3, <4>4, Zenon
    <3> QED
      BY <3>1, <3>2, Zenon
  <2> QED
    BY <2>1, <2>2, Zenon DEF HangsRight
<1>8. Rooted(us, k, u, a)
  <2>1. ASSUME NEW g \in TableFrames, k[g] = "top", NEW j \in Half(g), us[g][j] # None
        PROVE  us[g][j] \in TableFrames /\ k[us[g][j]] = "pd" /\ u[us[g][j]] = g /\ a[us[g][j]] = j
    <3>0. kind[g] = "top" /\ g # f /\ j \in Index
      BY <2>1, <1>1, <1>3, <1>5, PagingAssumption DEF Half, Index
    <3>1. CASE g = parent /\ j = i
      BY <3>0, <3>1, <1>1, <1>2, <1>5 DEF Below
    <3>2. CASE ~(g = parent /\ j = i)
      <4>1. us[g][j] = ts[g][j]
        BY <3>0, <3>2, <1>1
      <4>2. ts[g][j] \in TableFrames /\ kind[ts[g][j]] = "pd" /\ up[ts[g][j]] = g /\ at[ts[g][j]] = j
        BY <2>1, <3>0, <4>1, <1>0 DEF Rooted
      <4>3. ts[g][j] # f
        BY <4>2, <1>1
      <4> QED
        BY <4>1, <4>2, <4>3, <1>5, Zenon
    <3> QED
      BY <3>1, <3>2, Zenon
  <2>2. ASSUME NEW g \in TableFrames, k[g] = "pd", NEW j \in Index, us[g][j] # None
        PROVE  us[g][j] \in TableFrames /\ k[us[g][j]] = "pt" /\ u[us[g][j]] = g /\ a[us[g][j]] = j
    <3>0. g # f /\ kind[g] = "pd"
      BY <2>2, <1>1, <1>5, Zenon
    <3>1. CASE g = parent /\ j = i
      BY <3>0, <3>1, <1>1, <1>2, <1>5 DEF Below
    <3>2. CASE ~(g = parent /\ j = i)
      <4>1. us[g][j] = ts[g][j]
        BY <3>0, <3>2, <1>1
      <4>2. ts[g][j] \in TableFrames /\ kind[ts[g][j]] = "pt" /\ up[ts[g][j]] = g /\ at[ts[g][j]] = j
        BY <2>2, <3>0, <4>1, <1>0 DEF Rooted
      <4>3. ts[g][j] # f
        BY <4>2, <1>1
      <4> QED
        BY <4>1, <4>2, <4>3, <1>5, Zenon
    <3> QED
      BY <3>1, <3>2, Zenon
  <2> QED
    BY <2>1, <2>2 DEF Rooted
<1>9. \A g \in TableFrames : k[g] = "pt" => \A j \in Index : us[g][j] \in Physical \cup {None}
  <2> SUFFICES ASSUME NEW g \in TableFrames, k[g] = "pt", NEW j \in Index PROVE us[g][j] \in Physical \cup {None}
    BY Zenon
  <2>1. CASE g = f
    BY <2>1, <1>1, Zenon
  <2>2. CASE g # f
    <3>1. kind[g] = "pt" /\ g # parent
      BY <2>2, <1>2, <1>5
    <3>2. us[g] = ts[g]
      BY <3>1, <1>1
    <3> QED
      BY <3>1, <3>2, Zenon DEF Shaped
  <2> QED
    BY <2>1, <2>2, Zenon
<1>10. \A r \in rs, j \in Half(KernelRoot) : us[r][j] \in {None, us[KernelRoot][j]}
  <2> SUFFICES ASSUME NEW r \in rs, NEW j \in Half(KernelRoot) PROVE us[r][j] \in {None, us[KernelRoot][j]}
    BY Zenon
  <2>1. /\ r \in TableFrames /\ r # KernelRoot /\ kind[r] = "top"
        /\ KernelRoot \in TableFrames /\ kind[KernelRoot] = "top"
    BY Roots
  <2>2. j \in Index /\ j \notin Half(r)
    BY <2>1, PagingAssumption DEF Half, Index
  <2>3. us[r][j] = ts[r][j]
    <3>1. ~(r = parent /\ j = i)
      BY <2>1, <2>2, <1>2
    <3> QED
      BY <3>1, <2>1, <2>2, <1>1
  <2>4. us[KernelRoot][j] = ts[KernelRoot][j] \/ ts[KernelRoot][j] = None
    BY <2>1, <2>2, <1>1, <1>2
  <2>5. ts[r][j] \in {None, ts[KernelRoot][j]}
    BY Zenon DEF Shaped
  <2> QED
    BY <2>3, <2>4, <2>5, Zenon
<1>11. \A j \in 0 .. KernelHalf - 1 : us[KernelRoot][j] = None
  <2> SUFFICES ASSUME NEW j \in 0 .. KernelHalf - 1 PROVE us[KernelRoot][j] = None
    BY Zenon
  <2>1. j \in Index /\ j \notin Half(KernelRoot)
    BY PagingAssumption DEF Half, Index
  <2>2. KernelRoot \in TableFrames /\ kind[KernelRoot] = "top"
    BY Roots
  <2>3. us[KernelRoot][j] = ts[KernelRoot][j]
    BY <2>1, <2>2, <1>1, <1>2
  <2> QED
    BY <2>3, Zenon DEF Shaped
<1>12. fr \ {f} \subseteq TableFrames /\ rs \subseteq TableFrames \ {KernelRoot}
  BY Zenon DEF Shaped
<1> QED
  BY <1>1, <1>4, <1>6, <1>7, <1>8, <1>9, <1>10, <1>11, <1>12, Zenon DEF Shaped, us, k, u, a

-----------------------------------------------------------------------------
(* Translations *)

\* A page an address space maps itself: a user page, or a kernel page of the kernel's root.
Mapped(rs, r, v) == \/ r \in rs /\ v \in UserPages
                    \/ r = KernelRoot /\ v \in KernelPages

SameMaps(ts, us, rs) == \A r \in rs, v \in UserPages : Translate(us, r, v) = Translate(ts, r, v)

\* The tables on the way to a page hang where its indices say.
OnTheWay(ts, kind, up, at, r, v) ==
    LET d == ts[r][index(v, 2)]
        p == ts[d][index(v, 1)]
    IN d # None =>
         /\ d \in TableFrames /\ kind[d] = "pd" /\ up[d] = r /\ at[d] = index(v, 2)
         /\ p # None => /\ p \in TableFrames /\ kind[p] = "pt"
                        /\ up[p] = d /\ at[p] = index(v, 1)

LEMMA MappedTop ==
  ASSUME NEW ts, NEW fr, NEW rs, NEW kind, NEW up, NEW at, Shaped(ts, fr, rs, kind, up, at),
         NEW r, NEW v, Mapped(rs, r, v)
  PROVE  /\ r \in TableFrames /\ kind[r] = "top" /\ v \in Pages
         /\ index(v, 2) \in Half(r) /\ \A level \in 0 .. 2 : index(v, level) \in Index
<1>1. r \in TableFrames /\ kind[r] = "top" /\ (r \in rs => r # KernelRoot)
  BY Roots DEF Mapped
<1>2. v \in Pages
  BY Zenon DEF Mapped, UserPages, KernelPages
<1>3. \A level \in 0 .. 2 : index(v, level) \in Index
  BY <1>2, IndexType
<1>4. index(v, 2) \in Half(r)
  <2>1. index(v, 2) \in Index
    BY <1>3
  <2>2. CASE r \in rs /\ v \in UserPages
    BY <2>1, <2>2, <1>1, PagingAssumption DEF Half, UserPages, Index
  <2>3. CASE r = KernelRoot /\ v \in KernelPages
    BY <2>1, <2>3, <1>2, PagingAssumption DEF Half, UserPages, KernelPages, Index
  <2> QED
    BY <2>2, <2>3, Zenon DEF Mapped
<1> QED
  BY <1>1, <1>2, <1>3, <1>4, Zenon

LEMMA WayShaped ==
  ASSUME NEW ts, NEW fr, NEW rs, NEW kind, NEW up, NEW at, Shaped(ts, fr, rs, kind, up, at),
         NEW r, NEW v, Mapped(rs, r, v)
  PROVE  OnTheWay(ts, kind, up, at, r, v)
<1> DEFINE d == ts[r][index(v, 2)]
           p == ts[d][index(v, 1)]
<1>0. Rooted(ts, kind, up, at)
  BY Zenon DEF Shaped
<1>1. /\ r \in TableFrames /\ kind[r] = "top" /\ index(v, 2) \in Half(r) /\ index(v, 1) \in Index
  BY MappedTop
<1>2. ASSUME d # None
      PROVE  d \in TableFrames /\ kind[d] = "pd" /\ up[d] = r /\ at[d] = index(v, 2)
  BY <1>0, <1>1, <1>2 DEF Rooted
<1>3. ASSUME d # None, p # None
      PROVE  p \in TableFrames /\ kind[p] = "pt" /\ up[p] = d /\ at[p] = index(v, 1)
  <2> HIDE DEF d
  <2> QED
    BY <1>0, <1>1, <1>2, <1>3 DEF Rooted
<1> QED
  BY <1>2, <1>3, Zenon DEF OnTheWay

\* Two pages that reach the same entry of the same leaf table are one page of one space.
LEMMA LeafInjective ==
  ASSUME NEW ts, NEW fr, NEW rs, NEW kind, NEW up, NEW at, Shaped(ts, fr, rs, kind, up, at),
         NEW r, NEW v, Mapped(rs, r, v), NEW q, NEW w, Mapped(rs, q, w),
         LeafTable(ts, r, v) # None, LeafTable(ts, r, v) = LeafTable(ts, q, w), index(v, 0) = index(w, 0)
  PROVE  r = q /\ v = w
<1> DEFINE d == ts[r][index(v, 2)]
           e == ts[q][index(w, 2)]
<1>1. OnTheWay(ts, kind, up, at, r, v) /\ OnTheWay(ts, kind, up, at, q, w)
  BY WayShaped, Zenon
<1>2. d # None /\ e # None /\ ts[d][index(v, 1)] = ts[e][index(w, 1)] /\ ts[d][index(v, 1)] # None
  BY Zenon DEF LeafTable
<1>3. d = e /\ index(v, 1) = index(w, 1)
  BY <1>1, <1>2, Zenon DEF OnTheWay
<1>4. r = q /\ index(v, 2) = index(w, 2)
  BY <1>1, <1>2, <1>3, Zenon DEF OnTheWay
<1>5. v \in Pages /\ w \in Pages
  BY MappedTop
<1>6. \A level \in 0 .. 2 : index(v, level) = index(w, level)
  <2>1. \A level \in 0 .. 2 : level = 0 \/ level = 1 \/ level = 2
    OBVIOUS
  <2> QED
    BY <2>1, <1>3, <1>4, Zenon
<1> QED
  BY <1>4, <1>5, <1>6, IndexInjective, Zenon

\* The leaf table of a page is a leaf table.
LEMMA LeafTableShaped ==
  ASSUME NEW ts, NEW fr, NEW rs, NEW kind, NEW up, NEW at, Shaped(ts, fr, rs, kind, up, at),
         NEW r, NEW v, Mapped(rs, r, v), LeafTable(ts, r, v) # None
  PROVE  LeafTable(ts, r, v) \in TableFrames /\ kind[LeafTable(ts, r, v)] = "pt"
<1>1. OnTheWay(ts, kind, up, at, r, v)
  BY WayShaped, Zenon
<1> QED
  BY <1>1, Zenon DEF OnTheWay, LeafTable

\* A new, empty table changes no translation.
LEMMA HangSame ==
  ASSUME NEW ts, NEW fr, NEW rs, NEW kind, NEW up, NEW at, Shaped(ts, fr, rs, kind, up, at),
         NEW f \in fr, NEW parent, NEW i, Vacant(ts, kind, parent, i)
  PROVE  SameMaps(ts, Hung(ts, f, parent, i), rs)
<1> DEFINE us == Hung(ts, f, parent, i)
<1>1. HungAs(us, ts, fr, kind, f, parent, i)
  BY HungEntries, Zenon
<1> HIDE DEF us
<1>2. /\ parent \in TableFrames /\ i \in Index /\ ts[parent][i] = None
      /\ kind[parent] = "top" \/ kind[parent] = "pd"
  BY Zenon DEF Vacant
<1> SUFFICES ASSUME NEW r \in rs, NEW v \in UserPages
             PROVE  Translate(us, r, v) = Translate(ts, r, v)
  BY Zenon DEF SameMaps, us
<1> DEFINE d == ts[r][index(v, 2)]
           p == ts[d][index(v, 1)]
<1>3. Mapped(rs, r, v)
  BY Zenon DEF Mapped
<1>4. /\ r \in TableFrames /\ kind[r] = "top" /\ OnTheWay(ts, kind, up, at, r, v)
      /\ index(v, 0) \in Index /\ index(v, 1) \in Index /\ index(v, 2) \in Index
  BY <1>3, MappedTop, WayShaped
<1>5. f # None /\ us[f][index(v, 1)] = None /\ us[f][index(v, 0)] = None
  BY <1>1, <1>4, Zenon DEF HungAs
<1>6. CASE d = None
  <2>1. us[r][index(v, 2)] \in {None, f}
    BY <1>1, <1>2, <1>4, <1>6 DEF HungAs
  <2>2. LeafTable(us, r, v) = None /\ LeafTable(ts, r, v) = None
    BY <2>1, <1>5, <1>6, Zenon DEF LeafTable
  <2> QED
    BY <2>2, Zenon DEF Translate
<1>7. CASE d # None
  <2>1. us[r][index(v, 2)] = d
    BY <1>1, <1>2, <1>4, <1>7 DEF HungAs
  <2>2. d \in TableFrames /\ kind[d] = "pd"
    BY <1>4, <1>7, Zenon DEF OnTheWay
  <2>3. CASE p = None
    <3> HIDE DEF d
    <3>1. us[d][index(v, 1)] \in {None, f}
      BY <1>1, <1>2, <1>4, <2>2, <2>3 DEF HungAs
    <3> USE DEF d
    <3>2. LeafTable(ts, r, v) = None /\ LeafTable(us, r, v) \in {None, f}
      BY <3>1, <1>7, <2>1, <2>3, Zenon DEF LeafTable
    <3> QED
      BY <3>2, <1>5, Zenon DEF Translate
  <2>4. CASE p # None
    <3>1. p \in TableFrames /\ kind[p] = "pt"
      BY <1>4, <1>7, <2>4, Zenon DEF OnTheWay
    <3>2. LeafTable(ts, r, v) = p
      BY <1>7, Zenon DEF LeafTable
    <3>3. us[d][index(v, 1)] = p
      <4> HIDE DEF d
      <4> QED
        BY <1>1, <1>2, <1>4, <2>2, <2>4 DEF HungAs
    <3>4. LeafTable(us, r, v) = p
      BY <1>7, <2>1, <3>3, Zenon DEF LeafTable
    <3>5. us[p] = ts[p]
      <4> HIDE DEF p
      <4> QED
        BY <3>1, <1>1, <1>2 DEF HungAs
    <3> QED
      BY <3>2, <3>4, <3>5, Zenon DEF Translate
  <2> QED
    BY <2>3, <2>4, Zenon
<1> QED
  BY <1>6, <1>7, Zenon

-----------------------------------------------------------------------------
(* Writing a leaf entry *)

Written(ts, p, k, to) == [ts EXCEPT ![p][k] = to]

WrittenAs(us, ts, fr, kind, p, k, to) ==
    /\ us \in [TableFrames \ fr -> [Index -> Entries]]
    /\ us[p][k] = to
    /\ \A j \in Index : j # k => us[p][j] = ts[p][j]
    /\ \A g \in TableFrames : kind[g] # "free" /\ g # p => us[g] = ts[g]

LEMMA WriteEntries ==
  ASSUME NEW ts, NEW fr, NEW rs, NEW kind, NEW up, NEW at, Shaped(ts, fr, rs, kind, up, at),
         NEW p \in TableFrames, kind[p] = "pt", NEW k \in Index, NEW to \in Physical \cup {None}
  PROVE  WrittenAs(Written(ts, p, k, to), ts, fr, kind, p, k, to)
<1>1. p \in TableFrames \ fr /\ ts \in [TableFrames \ fr -> [Index -> Entries]] /\ to \in Entries
  BY DEF Shaped, Entries
<1>2. \A g \in TableFrames : kind[g] # "free" => g \in TableFrames \ fr
  BY Zenon DEF Shaped
<1> QED
  BY <1>1, <1>2 DEF Written, WrittenAs

LEMMA WriteShaped ==
  ASSUME NEW ts, NEW fr, NEW rs, NEW kind, NEW up, NEW at, Shaped(ts, fr, rs, kind, up, at),
         NEW p \in TableFrames, kind[p] = "pt", NEW k \in Index, NEW to \in Physical \cup {None}
  PROVE  Shaped(Written(ts, p, k, to), fr, rs, kind, up, at)
<1> DEFINE us == Written(ts, p, k, to)
<1>1. /\ us \in [TableFrames \ fr -> [Index -> Entries]] /\ us[p][k] = to
      /\ \A j \in Index : j # k => us[p][j] = ts[p][j]
      /\ \A g \in TableFrames : kind[g] # "free" /\ g # p => us[g] = ts[g]
  <2>1. WrittenAs(us, ts, fr, kind, p, k, to)
    BY WriteEntries, Zenon
  <2> HIDE DEF us
  <2> QED
    BY <2>1, Zenon DEF WrittenAs
<1> HIDE DEF us
<1>2. \A g \in TableFrames : kind[g] \in {"top", "pd"} => us[g] = ts[g]
  BY <1>1
<1>3. up \in [TableFrames -> TableFrames] /\ HangsRight(ts, kind, up, at) /\ Rooted(ts, kind, up, at)
  BY Zenon DEF Shaped
<1>4. HangsRight(us, kind, up, at)
  BY <1>2, <1>3 DEF HangsRight
<1>5. Rooted(us, kind, up, at)
  BY <1>2, <1>3 DEF Rooted
<1>6. \A g \in TableFrames : kind[g] = "pt" => \A i \in Index : us[g][i] \in Physical \cup {None}
  BY <1>1 DEF Shaped
<1>7. us[KernelRoot] = ts[KernelRoot] /\ \A r \in rs : us[r] = ts[r]
  BY <1>2, Roots
<1> QED
  BY <1>1, <1>4, <1>5, <1>6, <1>7, ZenonT(30) DEF Shaped, us

\* Page v of space r is now `to`, and no other page changed.
Remapped(ts, us, rs, r, v, to) ==
    \A q \in rs, w \in UserPages :
        Translate(us, q, w) = IF q = r /\ w = v THEN to ELSE Translate(ts, q, w)

\* Writing the entry of a page changes the translation of that page and of no other.
LEMMA WriteMaps ==
  ASSUME NEW ts, NEW fr, NEW rs, NEW kind, NEW up, NEW at, Shaped(ts, fr, rs, kind, up, at),
         NEW r, NEW v, Mapped(rs, r, v), LeafTable(ts, r, v) # None, NEW to \in Physical \cup {None}
  PROVE  Remapped(ts, Written(ts, LeafTable(ts, r, v), index(v, 0), to), rs, r, v, to)
<1> DEFINE p == LeafTable(ts, r, v)
           k == index(v, 0)
           us == Written(ts, p, k, to)
<1>1. p \in TableFrames /\ kind[p] = "pt"
  BY LeafTableShaped, Zenon
<1>2. k \in Index
  <2>1. \A level \in 0 .. 2 : index(v, level) \in Index
    BY MappedTop, Zenon
  <2> QED
    BY <2>1
<1>3. /\ us[p][k] = to
      /\ \A j \in Index : j # k => us[p][j] = ts[p][j]
      /\ \A g \in TableFrames : kind[g] # "free" /\ g # p => us[g] = ts[g]
  <2> HIDE DEF p, k
  <2>1. WrittenAs(us, ts, fr, kind, p, k, to)
    BY <1>1, <1>2, WriteEntries
  <2> QED
    BY <2>1 DEF WrittenAs
<1> HIDE DEF us
<1> SUFFICES ASSUME NEW q \in rs, NEW w \in UserPages
             PROVE  Translate(us, q, w) = IF q = r /\ w = v THEN to ELSE Translate(ts, q, w)
  BY Zenon DEF us, p, k, Remapped
<1>4. Mapped(rs, q, w)
  BY Zenon DEF Mapped
<1>5. /\ q \in TableFrames /\ kind[q] = "top" /\ OnTheWay(ts, kind, up, at, q, w)
      /\ index(w, 0) \in Index /\ index(w, 1) \in Index /\ index(w, 2) \in Index
  BY <1>4, MappedTop, WayShaped
<1> DEFINE d == ts[q][index(w, 2)]
<1> HIDE DEF p, k
<1>6. LeafTable(us, q, w) = LeafTable(ts, q, w)
  <2>1. us[q] = ts[q]
    BY <1>1, <1>3, <1>5, SMTT(30)
  <2>2. d # None => us[d] = ts[d]
    BY <1>1, <1>3, <1>5 DEF OnTheWay
  <2> QED
    BY <2>1, <2>2, Zenon DEF LeafTable
<1>7. CASE LeafTable(ts, q, w) = p /\ index(w, 0) = k
  <2>1. q = r /\ w = v
    <3>1. LeafTable(ts, r, v) = LeafTable(ts, q, w) /\ index(v, 0) = index(w, 0)
      BY <1>7, Zenon DEF p, k
    <3> QED
      BY <3>1, <1>4, LeafInjective
  <2>2. Translate(us, q, w) = to
    BY <1>1, <1>3, <1>6, <1>7, PagingAssumption, Zenon DEF Translate
  <2> QED
    BY <2>1, <2>2, Zenon
<1>8. CASE ~(LeafTable(ts, q, w) = p /\ index(w, 0) = k)
  <2>1. ~(q = r /\ w = v)
    BY <1>8, Zenon DEF p, k
  <2>2. LeafTable(ts, q, w) # None => us[LeafTable(ts, q, w)][index(w, 0)] = ts[LeafTable(ts, q, w)][index(w, 0)]
    <3> SUFFICES ASSUME LeafTable(ts, q, w) # None
                 PROVE  us[LeafTable(ts, q, w)][index(w, 0)] = ts[LeafTable(ts, q, w)][index(w, 0)]
      BY Zenon
    <3> DEFINE l == LeafTable(ts, q, w)
    <3>1. l \in TableFrames /\ kind[l] = "pt"
      BY <1>4, LeafTableShaped, Zenon
    <3> HIDE DEF l
    <3>2. us[l][index(w, 0)] = ts[l][index(w, 0)]
      BY <3>1, <1>3, <1>5, <1>8 DEF l
    <3> QED
      BY <3>2, Zenon DEF l
  <2> QED
    BY <2>1, <2>2, <1>6, Zenon DEF Translate
<1> QED
  BY <1>7, <1>8, Zenon

-----------------------------------------------------------------------------
(* Creating and destroying an address space *)

Rooting(ts, f) ==
    [g \in DOMAIN ts \cup {f} |->
        IF g = f THEN [i \in Index |-> IF i >= KernelHalf THEN ts[KernelRoot][i] ELSE None] ELSE ts[g]]

RootedAs(us, ts, fr, kind, f) ==
    /\ f \in TableFrames /\ kind[f] = "free" /\ f # KernelRoot
    /\ us \in [TableFrames \ (fr \ {f}) -> [Index -> Entries]]
    /\ \A j \in Half(KernelRoot) : us[f][j] = ts[KernelRoot][j]
    /\ \A j \in 0 .. KernelHalf - 1 : us[f][j] = None
    /\ \A g \in TableFrames : kind[g] # "free" => us[g] = ts[g]

LEMMA RootingEntries ==
  ASSUME NEW ts, NEW fr, NEW rs, NEW kind, NEW up, NEW at, Shaped(ts, fr, rs, kind, up, at), NEW f \in fr
  PROVE  RootedAs(Rooting(ts, f), ts, fr, kind, f)
<1> DEFINE us == Rooting(ts, f)
           new == [i \in Index |-> IF i >= KernelHalf THEN ts[KernelRoot][i] ELSE None]
<1>1. f \in TableFrames /\ kind[f] = "free"
  BY Zenon DEF Shaped
<1>2. KernelRoot \in TableFrames /\ kind[KernelRoot] = "top" /\ ts[KernelRoot] \in [Index -> Entries]
  BY Roots
<1>3. f # KernelRoot
  BY <1>1, <1>2
<1>4. new \in [Index -> Entries]
  BY <1>2 DEF Entries
<1>5. /\ \A j \in Half(KernelRoot) : new[j] = ts[KernelRoot][j]
      /\ \A j \in 0 .. KernelHalf - 1 : new[j] = None
  BY PagingAssumption DEF Half, Index
<1> HIDE DEF new
<1>6. /\ ts \in [TableFrames \ fr -> [Index -> Entries]]
      /\ \A g \in TableFrames : kind[g] # "free" => g \in TableFrames \ fr
  BY Zenon DEF Shaped
<1>7. DOMAIN ts \cup {f} = TableFrames \ (fr \ {f})
  BY <1>1, <1>6, Zenon
<1>8. us = [g \in TableFrames \ (fr \ {f}) |-> IF g = f THEN new ELSE ts[g]]
  BY <1>7, Zenon DEF Rooting, new
<1> HIDE DEF us
<1>9. us[f] = new /\ \A g \in TableFrames : kind[g] # "free" => us[g] = ts[g]
  BY <1>1, <1>6, <1>8, Zenon
<1>10. us \in [TableFrames \ (fr \ {f}) -> [Index -> Entries]]
  BY <1>4, <1>6, <1>8, Zenon
<1> QED
  BY <1>1, <1>3, <1>5, <1>9, <1>10, Zenon DEF RootedAs, us

LEMMA CreateShaped ==
  ASSUME NEW ts, NEW fr, NEW rs, NEW kind, NEW up, NEW at, Shaped(ts, fr, rs, kind, up, at), NEW f \in fr
  PROVE  Shaped(Rooting(ts, f), fr \ {f}, rs \cup {f}, [kind EXCEPT ![f] = "top"], up, at)
<1> DEFINE us == Rooting(ts, f)
           k == [kind EXCEPT ![f] = "top"]
<1>1. RootedAs(us, ts, fr, kind, f)
  BY RootingEntries, Zenon
<1> HIDE DEF us
<1>2. /\ f \in TableFrames /\ kind[f] = "free" /\ f # KernelRoot
      /\ us \in [TableFrames \ (fr \ {f}) -> [Index -> Entries]]
      /\ \A j \in Half(KernelRoot) : us[f][j] = ts[KernelRoot][j]
      /\ \A j \in 0 .. KernelHalf - 1 : us[f][j] = None
      /\ \A g \in TableFrames : kind[g] # "free" => us[g] = ts[g]
  BY <1>1, Zenon DEF RootedAs
<1>3. /\ kind \in [TableFrames -> Kinds] /\ up \in [TableFrames -> TableFrames] /\ at \in [TableFrames -> Index]
      /\ HangsRight(ts, kind, up, at) /\ Rooted(ts, kind, up, at)
  BY Zenon DEF Shaped
<1>4. k \in [TableFrames -> Kinds] /\ k[f] = "top" /\ \A g \in TableFrames : g # f => k[g] = kind[g]
  BY <1>2, <1>3 DEF Kinds
<1> HIDE DEF k
<1>5. \A g \in TableFrames : /\ k[g] = "free" <=> g \in fr \ {f}
                             /\ k[g] = "top" <=> g \in (rs \cup {f}) \cup {KernelRoot}
  BY <1>2, <1>4, SMTT(30) DEF Shaped
<1>6. HangsRight(us, k, up, at)
  BY <1>2, <1>3, <1>4 DEF HangsRight
<1>7. Rooted(us, k, up, at)
  <2>1. ASSUME NEW g \in TableFrames, k[g] = "top", NEW i \in Half(g), us[g][i] # None
        PROVE  us[g][i] \in TableFrames /\ k[us[g][i]] = "pd" /\ up[us[g][i]] = g /\ at[us[g][i]] = i
    <3>1. g # f
      BY <2>1, <1>2 DEF Half
    <3>2. kind[g] = "top" /\ us[g] = ts[g]
      BY <2>1, <3>1, <1>2, <1>4
    <3>3. ts[g][i] \in TableFrames /\ kind[ts[g][i]] = "pd" /\ up[ts[g][i]] = g /\ at[ts[g][i]] = i
      BY <2>1, <3>2, <1>3 DEF Rooted
    <3> QED
      BY <3>2, <3>3, <1>2, <1>4
  <2>2. ASSUME NEW g \in TableFrames, k[g] = "pd", NEW i \in Index, us[g][i] # None
        PROVE  us[g][i] \in TableFrames /\ k[us[g][i]] = "pt" /\ up[us[g][i]] = g /\ at[us[g][i]] = i
    <3>2. kind[g] = "pd" /\ us[g] = ts[g]
      BY <2>2, <1>2, <1>4
    <3>3. ts[g][i] \in TableFrames /\ kind[ts[g][i]] = "pt" /\ up[ts[g][i]] = g /\ at[ts[g][i]] = i
      BY <2>2, <3>2, <1>3 DEF Rooted
    <3> QED
      BY <3>2, <3>3, <1>2, <1>4
  <2> QED
    BY <2>1, <2>2 DEF Rooted
<1>8. \A g \in TableFrames : k[g] = "pt" => \A i \in Index : us[g][i] \in Physical \cup {None}
  BY <1>2, <1>4 DEF Shaped
<1>9. us[KernelRoot] = ts[KernelRoot] /\ \A r \in rs : us[r] = ts[r]
  BY <1>2, Roots
<1>10. \A r \in rs \cup {f}, i \in Half(KernelRoot) : us[r][i] \in {None, us[KernelRoot][i]}
  BY <1>2, <1>9 DEF Shaped
<1>11. \A i \in 0 .. KernelHalf - 1 : us[KernelRoot][i] = None
  BY <1>9 DEF Shaped
<1>12. fr \ {f} \subseteq TableFrames /\ rs \cup {f} \subseteq TableFrames \ {KernelRoot}
  BY <1>2 DEF Shaped
<1> QED
  BY <1>2, <1>3, <1>4, <1>5, <1>6, <1>7, <1>8, <1>10, <1>11, <1>12, Zenon DEF Shaped, us, k

\* The new address space maps nothing, the others what they mapped.
LEMMA CreateMaps ==
  ASSUME NEW ts, NEW fr, NEW rs, NEW kind, NEW up, NEW at, Shaped(ts, fr, rs, kind, up, at), NEW f \in fr
  PROVE  /\ SameMaps(ts, Rooting(ts, f), rs)
         /\ \A v \in UserPages : Translate(Rooting(ts, f), f, v) = None
<1> DEFINE us == Rooting(ts, f)
<1>1. RootedAs(us, ts, fr, kind, f)
  BY RootingEntries, Zenon
<1> HIDE DEF us
<1>2. ASSUME NEW v \in UserPages PROVE Translate(us, f, v) = None
  <2>1. index(v, 2) \in 0 .. KernelHalf - 1
    <3>1. v \in Pages /\ index(v, 2) < KernelHalf
      BY Zenon DEF UserPages
    <3>2. index(v, 2) \in Index
      BY <3>1, IndexType
    <3> QED
      BY <3>1, <3>2, PagingAssumption DEF Index
  <2>2. us[f][index(v, 2)] = None
    BY <2>1, <1>1, Zenon DEF RootedAs
  <2> QED
    BY <2>2, Zenon DEF Translate, LeafTable
<1>3. ASSUME NEW r \in rs, NEW v \in UserPages PROVE Translate(us, r, v) = Translate(ts, r, v)
  <2> DEFINE d == ts[r][index(v, 2)]
             p == ts[d][index(v, 1)]
  <2>1. Mapped(rs, r, v)
    BY Zenon DEF Mapped
  <2>2. r \in TableFrames /\ kind[r] = "top" /\ OnTheWay(ts, kind, up, at, r, v)
    BY <2>1, MappedTop, WayShaped
  <2>3. us[r] = ts[r]
    BY <2>2, <1>1, SMTT(30) DEF RootedAs
  <2>4. d # None => us[d] = ts[d]
    BY <2>2, <1>1, SMTT(30) DEF RootedAs, OnTheWay
  <2>5. d # None /\ p # None => us[p] = ts[p]
    BY <2>2, <1>1 DEF RootedAs, OnTheWay
  <2> QED
    BY <2>3, <2>4, <2>5, Zenon DEF Translate, LeafTable
<1> QED
  BY <1>2, <1>3, Zenon DEF SameMaps, us

\* The tables below a root, by their place.
Hanging(kind, up, r) ==
    {g \in TableFrames : \/ kind[g] = "pd" /\ up[g] = r
                         \/ kind[g] = "pt" /\ up[up[g]] = r}

\* The tables below the entries I of a root, as destroy_user_address_space finds them.
Reach(ts, r, I) ==
    LET pds == {ts[r][i] : i \in I} \ {None}
    IN pds \cup ((UNION {{ts[d][i] : i \in Index} : d \in pds}) \ {None})

LEMMA ReachIsHanging ==
  ASSUME NEW ts, NEW fr, NEW rs, NEW kind, NEW up, NEW at, Shaped(ts, fr, rs, kind, up, at),
         NEW r \in rs \cup {KernelRoot}
  PROVE  Reach(ts, r, Half(r)) = Hanging(kind, up, r)
<1> DEFINE pds == {ts[r][i] : i \in Half(r)} \ {None}
<1>0. /\ HangsRight(ts, kind, up, at) /\ Rooted(ts, kind, up, at)
      /\ up \in [TableFrames -> TableFrames] /\ at \in [TableFrames -> Index]
      /\ r \in TableFrames /\ kind[r] = "top" /\ None \notin TableFrames
  <2>1. r \in TableFrames /\ kind[r] = "top"
    BY Roots
  <2> QED
    BY <2>1, PagingAssumption, Zenon DEF Shaped
<1>1. ASSUME NEW d PROVE d \in pds <=> d \in TableFrames /\ kind[d] = "pd" /\ up[d] = r
  BY <1>0 DEF HangsRight, Rooted
<1> HIDE DEF pds
<1>2. ASSUME NEW p
      PROVE  (\E d \in pds : \E i \in Index : p = ts[d][i]) /\ p # None
             <=> p \in TableFrames /\ kind[p] = "pt" /\ up[up[p]] = r
  <2>1. ASSUME NEW d \in pds, NEW i \in Index, p = ts[d][i], p # None
        PROVE  p \in TableFrames /\ kind[p] = "pt" /\ up[up[p]] = r
    BY <2>1, <1>0, <1>1 DEF Rooted
  <2>2. ASSUME p \in TableFrames, kind[p] = "pt", up[up[p]] = r
        PROVE  (\E d \in pds : \E i \in Index : p = ts[d][i]) /\ p # None
    <3>1. up[p] \in TableFrames /\ kind[up[p]] = "pd" /\ ts[up[p]][at[p]] = p /\ at[p] \in Index
      BY <2>2, <1>0, Zenon DEF HangsRight
    <3>2. up[p] \in pds
      BY <3>1, <2>2, <1>1, Zenon
    <3> QED
      BY <3>1, <3>2, <2>2, <1>0, Zenon
  <2> QED
    BY <2>1, <2>2, Zenon
<1>3. Reach(ts, r, Half(r)) = pds \cup ((UNION {{ts[d][i] : i \in Index} : d \in pds}) \ {None})
  BY Zenon DEF Reach, pds
<1>4. ASSUME NEW g PROVE g \in Reach(ts, r, Half(r)) <=> g \in Hanging(kind, up, r)
  <2>1. g \in Reach(ts, r, Half(r)) <=> g \in pds \/ ((\E d \in pds : \E i \in Index : g = ts[d][i]) /\ g # None)
    BY <1>3
  <2>2. g \in Reach(ts, r, Half(r)) <=> \/ g \in TableFrames /\ kind[g] = "pd" /\ up[g] = r
                                        \/ g \in TableFrames /\ kind[g] = "pt" /\ up[up[g]] = r
    BY <2>1, <1>1, <1>2
  <2> QED
    BY <2>2 DEF Hanging
<1> QED
  BY <1>4, Zenon

\* The kernel's root has nothing in its user half.
LEMMA ReachKernel ==
  ASSUME NEW ts, NEW fr, NEW rs, NEW kind, NEW up, NEW at, Shaped(ts, fr, rs, kind, up, at)
  PROVE  Reach(ts, KernelRoot, Index) = Hanging(kind, up, KernelRoot)
<1>1. \A i \in Index : i \in Half(KernelRoot) \/ ts[KernelRoot][i] = None
  <2>1. \A i \in Index : i \in Half(KernelRoot) \/ i \in 0 .. KernelHalf - 1
    BY PagingAssumption DEF Half, Index
  <2> QED
    BY <2>1, Zenon DEF Shaped
<1>2. \A i \in Half(KernelRoot) : i \in Index
  BY PagingAssumption DEF Half, Index
<1>3. {ts[KernelRoot][i] : i \in Index} \ {None} = {ts[KernelRoot][i] : i \in Half(KernelRoot)} \ {None}
  BY <1>1, <1>2, Zenon
<1>4. Reach(ts, KernelRoot, Index) = Reach(ts, KernelRoot, Half(KernelRoot))
  BY <1>3, Zenon DEF Reach
<1> QED
  BY <1>4, ReachIsHanging

Felled(kind, up, r) == Hanging(kind, up, r) \cup {r}

\* Taking a whole tree away keeps the shape of the others, and what they map.
LEMMA DestroyShaped ==
  ASSUME NEW ts, NEW fr, NEW rs, NEW kind, NEW up, NEW at, Shaped(ts, fr, rs, kind, up, at), NEW r \in rs
  PROVE  LET gone == Felled(kind, up, r)
             us == [g \in DOMAIN ts \ gone |-> ts[g]]
         IN /\ Shaped(us, fr \cup gone, rs \ {r},
                      [g \in TableFrames |-> IF g \in gone THEN "free" ELSE kind[g]], up, at)
            /\ SameMaps(ts, us, rs \ {r})
<1> DEFINE gone == Felled(kind, up, r)
           us == [g \in DOMAIN ts \ gone |-> ts[g]]
           k == [g \in TableFrames |-> IF g \in gone THEN "free" ELSE kind[g]]
<1>0. /\ HangsRight(ts, kind, up, at) /\ Rooted(ts, kind, up, at)
      /\ kind \in [TableFrames -> Kinds] /\ up \in [TableFrames -> TableFrames] /\ at \in [TableFrames -> Index]
      /\ ts \in [TableFrames \ fr -> [Index -> Entries]]
      /\ \A g \in TableFrames : kind[g] # "free" => g \in TableFrames \ fr
  BY Zenon DEF Shaped
<1>1. r \in TableFrames /\ kind[r] = "top" /\ r # KernelRoot
  BY Roots
<1>2. ASSUME NEW g \in TableFrames
      PROVE  g \in gone <=> \/ g = r
                            \/ kind[g] = "pd" /\ up[g] = r
                            \/ kind[g] = "pt" /\ up[up[g]] = r
  BY DEF Felled, Hanging
<1>3. gone \subseteq TableFrames
  BY <1>1, Zenon DEF Felled, Hanging
<1> HIDE DEF gone
<1>4. k \in [TableFrames -> Kinds] /\ \A g \in TableFrames : k[g] = IF g \in gone THEN "free" ELSE kind[g]
  BY <1>0 DEF Kinds
<1>5. us \in [TableFrames \ (fr \cup gone) -> [Index -> Entries]]
  <2>1. DOMAIN ts \ gone = TableFrames \ (fr \cup gone)
    BY <1>0, Zenon
  <2> QED
    BY <2>1, <1>0, Zenon
<1>6. \A g \in TableFrames : k[g] # "free" => g \notin gone /\ kind[g] = k[g] /\ us[g] = ts[g]
  BY <1>0, <1>4, Zenon
<1> HIDE DEF us, k
<1>7. \A g \in TableFrames : /\ k[g] = "free" <=> g \in fr \cup gone
                             /\ k[g] = "top" <=> g \in (rs \ {r}) \cup {KernelRoot}
  <2> SUFFICES ASSUME NEW g \in TableFrames
               PROVE  /\ k[g] = "free" <=> g \in fr \cup gone
                      /\ k[g] = "top" <=> g \in (rs \ {r}) \cup {KernelRoot}
    BY Zenon
  <2>1. /\ kind[g] = "free" <=> g \in fr
        /\ kind[g] = "top" <=> g \in rs \cup {KernelRoot}
    BY Zenon DEF Shaped
  <2> QED
    BY <2>1, <1>1, <1>2, <1>4
<1>8. HangsRight(us, k, up, at)
  <2>1. ASSUME NEW g \in TableFrames, k[g] = "pd"
        PROVE  k[up[g]] = "top" /\ at[g] \in Half(up[g]) /\ us[up[g]][at[g]] = g
    <3>1. g \notin gone /\ kind[g] = "pd" /\ up[g] \in TableFrames
      BY <2>1, <1>0, <1>6
    <3>2. kind[up[g]] = "top" /\ at[g] \in Half(up[g]) /\ ts[up[g]][at[g]] = g
      BY <3>1, <1>0, Zenon DEF HangsRight
    <3>3. up[g] \notin gone
      BY <3>1, <3>2, <1>2
    <3> QED
      BY <3>1, <3>2, <3>3, <1>4, <1>6
  <2>2. ASSUME NEW g \in TableFrames, k[g] = "pt"
        PROVE  k[up[g]] = "pd" /\ us[up[g]][at[g]] = g
    <3>1. g \notin gone /\ kind[g] = "pt" /\ up[g] \in TableFrames
      BY <2>2, <1>0, <1>6
    <3>2. kind[up[g]] = "pd" /\ ts[up[g]][at[g]] = g
      BY <3>1, <1>0, Zenon DEF HangsRight
    <3>3. up[g] \notin gone
      BY <3>1, <3>2, <1>1, <1>2, SMTT(30)
    <3> QED
      BY <3>1, <3>2, <3>3, <1>4, <1>6
  <2> QED
    BY <2>1, <2>2, Zenon DEF HangsRight
<1>9. Rooted(us, k, up, at)
  <2>1. ASSUME NEW g \in TableFrames, k[g] = "top", NEW i \in Half(g), us[g][i] # None
        PROVE  us[g][i] \in TableFrames /\ k[us[g][i]] = "pd" /\ up[us[g][i]] = g /\ at[us[g][i]] = i
    <3>1. g \notin gone /\ kind[g] = "top" /\ us[g] = ts[g]
      BY <2>1, <1>6
    <3>2. ts[g][i] \in TableFrames /\ kind[ts[g][i]] = "pd" /\ up[ts[g][i]] = g /\ at[ts[g][i]] = i
      BY <2>1, <3>1, <1>0, SMTT(30) DEF Rooted
    <3>3. ts[g][i] \notin gone
      BY <3>1, <3>2, <1>1, <1>2
    <3> QED
      BY <3>1, <3>2, <3>3, <1>4, SMTT(30)
  <2>2. ASSUME NEW g \in TableFrames, k[g] = "pd", NEW i \in Index, us[g][i] # None
        PROVE  us[g][i] \in TableFrames /\ k[us[g][i]] = "pt" /\ up[us[g][i]] = g /\ at[us[g][i]] = i
    <3>1. g \notin gone /\ kind[g] = "pd" /\ us[g] = ts[g]
      BY <2>2, <1>6, SMTT(30)
    <3>2. ts[g][i] \in TableFrames /\ kind[ts[g][i]] = "pt" /\ up[ts[g][i]] = g /\ at[ts[g][i]] = i
      <4>1. ts[g][i] # None
        BY <2>2, <3>1, Zenon
      <4> QED
        BY <3>1, <4>1, <1>0 DEF Rooted
    <3>3. ts[g][i] \notin gone
      BY <3>1, <3>2, <1>1, <1>2
    <3> QED
      BY <3>1, <3>2, <3>3, <1>4
  <2> QED
    BY <2>1, <2>2, SMTT(30) DEF Rooted
<1>10. \A g \in TableFrames : k[g] = "pt" => \A i \in Index : us[g][i] \in Physical \cup {None}
  BY <1>6 DEF Shaped
<1>11. us[KernelRoot] = ts[KernelRoot] /\ \A q \in rs \ {r} : us[q] = ts[q]
  <2>1. k[KernelRoot] = "top" /\ KernelRoot \in TableFrames /\ \A q \in rs \ {r} : q \in TableFrames /\ k[q] = "top"
    BY <1>7, Roots
  <2> QED
    BY <2>1, <1>6, SMTT(30)
<1>12. \A q \in rs \ {r}, i \in Half(KernelRoot) : us[q][i] \in {None, us[KernelRoot][i]}
  BY <1>11 DEF Shaped
<1>13. \A i \in 0 .. KernelHalf - 1 : us[KernelRoot][i] = None
  BY <1>11 DEF Shaped
<1>14. fr \cup gone \subseteq TableFrames /\ rs \ {r} \subseteq TableFrames \ {KernelRoot}
  BY <1>3 DEF Shaped
<1>15. Shaped(us, fr \cup gone, rs \ {r}, k, up, at)
  BY <1>0, <1>4, <1>5, <1>7, <1>8, <1>9, <1>10, <1>12, <1>13, <1>14, Zenon DEF Shaped
<1>16. ASSUME NEW q \in rs \ {r}, NEW v \in UserPages PROVE Translate(us, q, v) = Translate(ts, q, v)
  <2> DEFINE d == ts[q][index(v, 2)]
             p == ts[d][index(v, 1)]
  <2>1. Mapped(rs, q, v)
    BY Zenon DEF Mapped
  <2>2. q \in TableFrames /\ kind[q] = "top" /\ OnTheWay(ts, kind, up, at, q, v)
    BY <2>1, MappedTop, WayShaped
  <2>3. us[q] = ts[q]
    BY <1>11
  <2>4. d # None => us[d] = ts[d]
    <3> SUFFICES ASSUME d # None PROVE us[d] = ts[d]
      BY Zenon
    <3>1. d \in TableFrames /\ kind[d] = "pd" /\ up[d] = q
      BY <2>2, Zenon DEF OnTheWay
    <3> HIDE DEF d
    <3>2. d \notin gone
      BY <3>1, <1>1, <1>2
    <3> QED
      BY <3>1, <3>2, <1>4, <1>6
  <2>5. d # None /\ p # None => us[p] = ts[p]
    <3> SUFFICES ASSUME d # None, p # None PROVE us[p] = ts[p]
      BY Zenon
    <3>1. d \in TableFrames /\ p \in TableFrames /\ kind[p] = "pt" /\ up[p] = d /\ up[d] = q
      BY <2>2, Zenon DEF OnTheWay
    <3> HIDE DEF p, d
    <3>2. p \notin gone
      BY <3>1, <1>1, <1>2
    <3> QED
      BY <3>1, <3>2, <1>4, <1>6
  <2> QED
    BY <2>3, <2>4, <2>5, Zenon DEF Translate, LeafTable
<1> QED
  BY <1>15, <1>16, Zenon DEF SameMaps, us, k, gone

-----------------------------------------------------------------------------
(* Mapping a page *)

Tables(ts, fr) == [tables |-> ts, free |-> fr]

\* What next_table does: a table of the next level below the entry, or None when there is
\* no frame; nothing else changes its place, and no translation changes.
Descended(ts, fr, rs, kind, parent, i, n) ==
    \E us, fs, k, u, a :
        /\ n.t = Tables(us, fs) /\ Shaped(us, fs, rs, k, u, a) /\ SameMaps(ts, us, rs)
        /\ \A g \in TableFrames : kind[g] # "free" => k[g] = kind[g]
        /\ \A g \in TableFrames : kind[g] # "free" /\ g # parent => us[g] = ts[g]
        /\ n.table # None => /\ n.table \in TableFrames /\ k[n.table] = Below(kind, parent)
                             /\ us[parent][i] = n.table

LEMMA NextTableDescends ==
  ASSUME NEW ts, NEW fr, NEW rs, NEW kind, NEW up, NEW at, Shaped(ts, fr, rs, kind, up, at),
         NEW parent \in TableFrames, NEW i \in Index,
         \/ kind[parent] = "top" /\ i \in Half(parent)
         \/ kind[parent] = "pd"
  PROVE  Descended(ts, fr, rs, kind, parent, i, NextTable(Tables(ts, fr), parent, i))
<1> DEFINE n == NextTable(Tables(ts, fr), parent, i)
           f == Lowest(fr)
<1>0. SameMaps(ts, ts, rs) /\ Tables(ts, fr).tables = ts /\ Tables(ts, fr).free = fr
  BY Zenon DEF SameMaps, Tables
<1>1. CASE ts[parent][i] # None
  <2>1. n = [t |-> Tables(ts, fr), table |-> ts[parent][i]]
    BY <1>0, <1>1, Zenon DEF NextTable
  <2> HIDE DEF n
  <2>2. n.t = Tables(ts, fr) /\ n.table = ts[parent][i]
    BY <2>1, Zenon
  <2>3. ts[parent][i] \in TableFrames /\ kind[ts[parent][i]] = Below(kind, parent)
    <3>1. Rooted(ts, kind, up, at)
      BY Zenon DEF Shaped
    <3>2. CASE kind[parent] = "top" /\ i \in Half(parent)
      BY <3>1, <3>2, <1>1, Zenon DEF Rooted, Below
    <3>3. CASE kind[parent] = "pd"
      BY <3>1, <3>3, <1>1 DEF Rooted, Below
    <3> QED
      BY <3>2, <3>3, Zenon
  <2>4. Descended(ts, fr, rs, kind, parent, i, n)
    BY <2>2, <2>3, <1>0, Zenon DEF Descended
  <2> QED
    BY <2>4, Zenon DEF n
<1>2. CASE ts[parent][i] = None /\ fr = {}
  <2>1. n = [t |-> Tables(ts, fr), table |-> None]
    BY <1>0, <1>2, Zenon DEF NextTable
  <2> HIDE DEF n
  <2>2. n.t = Tables(ts, fr) /\ n.table = None
    BY <2>1, Zenon
  <2>4. Descended(ts, fr, rs, kind, parent, i, n)
    BY <2>2, <1>0, Zenon DEF Descended
  <2> QED
    BY <2>4, Zenon DEF n
<1>3. CASE ts[parent][i] = None /\ fr # {}
  <2> DEFINE us == Hung(ts, f, parent, i)
             k == [kind EXCEPT ![f] = Below(kind, parent)]
             u == [up EXCEPT ![f] = parent]
             a == [at EXCEPT ![f] = i]
  <2>1. n = [t |-> Tables(us, fr \ {f}), table |-> f]
    BY <1>0, <1>3, Zenon DEF NextTable, Tables, Hung
  <2>2. f \in fr
    <3>1. fr \in SUBSET Nat
      BY PagingAssumption, Zenon DEF Shaped
    <3> QED
      BY <3>1, <1>3, LowestIs, Zenon
  <2>3. Vacant(ts, kind, parent, i)
    BY <1>3, Zenon DEF Vacant
  <2> HIDE DEF f
  <2>4. Shaped(us, fr \ {f}, rs, k, u, a) /\ SameMaps(ts, us, rs)
    BY <2>2, <2>3, HangShaped, HangSame
  <2>5. HungAs(us, ts, fr, kind, f, parent, i)
    BY <2>2, <2>3, HungEntries
  <2> HIDE DEF us, n, u, a
  <2>6. /\ f \in TableFrames /\ kind[f] = "free" /\ us[parent][i] = f
        /\ \A g \in TableFrames : kind[g] # "free" /\ g # parent => us[g] = ts[g]
    BY <2>5, Zenon DEF HungAs
  <2>7. k[f] = Below(kind, parent) /\ \A g \in TableFrames : kind[g] # "free" => k[g] = kind[g]
    <3>1. kind \in [TableFrames -> Kinds]
      BY Zenon DEF Shaped
    <3> QED
      BY <2>6, <3>1
  <2> HIDE DEF k
  <2>8. n.t = Tables(us, fr \ {f}) /\ n.table = f
    BY <2>1, Zenon
  <2>9. Descended(ts, fr, rs, kind, parent, i, n)
    BY <2>4, <2>6, <2>7, <2>8, Zenon DEF Descended
  <2> QED
    BY <2>9, Zenon DEF n
<1> QED
  BY <1>1, <1>2, <1>3, Zenon

\* map_user_page and map_page: the page is mapped and no other changes; or, without a
\* frame for a table, nothing that can be translated does.
MapsOnly(ts, rs, r, v, to, t) ==
    /\ Sound(t.tables, t.free, rs)
    /\ SameMaps(ts, t.tables, rs) \/ Remapped(ts, t.tables, rs, r, v, to)

LEMMA ShapedIsSound ==
  ASSUME NEW ts, NEW fr, NEW rs, NEW kind, NEW up, NEW at, Shaped(ts, fr, rs, kind, up, at)
  PROVE  Sound(ts, fr, rs)
<1>1. /\ kind \in [TableFrames -> Kinds] /\ up \in [TableFrames -> TableFrames]
      /\ at \in [TableFrames -> Index]
  BY Zenon DEF Shaped
<1> QED
  BY <1>1, Zenon DEF Sound

LEMMA MapPageMaps ==
  ASSUME NEW ts, NEW fr, NEW rs, NEW kind, NEW up, NEW at, Shaped(ts, fr, rs, kind, up, at),
         NEW r, NEW v, Mapped(rs, r, v), NEW to \in Physical
  PROVE  MapsOnly(ts, rs, r, v, to, MapPage(Tables(ts, fr), r, v, to))
<1> DEFINE t == MapPage(Tables(ts, fr), r, v, to)
           pd == NextTable(Tables(ts, fr), r, index(v, 2))
           pt == NextTable(pd.t, pd.table, index(v, 1))
<1>1. /\ r \in TableFrames /\ kind[r] = "top" /\ index(v, 2) \in Half(r)
      /\ \A level \in 0 .. 2 : index(v, level) \in Index
  BY MappedTop
<1>2. index(v, 0) \in Index /\ index(v, 1) \in Index /\ index(v, 2) \in Index
  BY <1>1
<1>3. Descended(ts, fr, rs, kind, r, index(v, 2), pd)
  BY <1>1, <1>2, NextTableDescends
<1>4. t = IF pd.table = None THEN pd.t
          ELSE IF pt.table = None THEN pt.t
          ELSE [pt.t EXCEPT !.tables[pt.table][index(v, 0)] = to]
  BY Zenon DEF MapPage
<1> HIDE DEF t, pd
<1>5. PICK us, fs, k, u, a :
        /\ pd.t = Tables(us, fs) /\ Shaped(us, fs, rs, k, u, a) /\ SameMaps(ts, us, rs)
        /\ \A g \in TableFrames : kind[g] # "free" => k[g] = kind[g]
        /\ pd.table # None => /\ pd.table \in TableFrames /\ k[pd.table] = Below(kind, r)
                              /\ us[r][index(v, 2)] = pd.table
  BY <1>3, ZenonT(30) DEF Descended
<1>6. CASE pd.table = None
  <2>1. t.tables = us /\ t.free = fs
    BY <1>4, <1>5, <1>6 DEF Tables
  <2>2. Sound(us, fs, rs)
    BY <1>5, ShapedIsSound, SMTT(30)
  <2> QED
    BY <2>1, <2>2, <1>5, Zenon DEF MapsOnly, t
<1>7. CASE pd.table # None
  <2>1. pd.table \in TableFrames /\ k[pd.table] = "pd" /\ us[r][index(v, 2)] = pd.table /\ k[r] = "top"
    BY <1>1, <1>5, <1>7, SMTT(30) DEF Below
  <2>2. Descended(us, fs, rs, k, pd.table, index(v, 1), pt)
    BY <1>2, <1>5, <2>1, NextTableDescends
  <2> HIDE DEF pt
  <2>3. PICK ws, gs, l, x, b :
          /\ pt.t = Tables(ws, gs) /\ Shaped(ws, gs, rs, l, x, b) /\ SameMaps(us, ws, rs)
          /\ \A g \in TableFrames : k[g] # "free" => l[g] = k[g]
          /\ \A g \in TableFrames : k[g] # "free" /\ g # pd.table => ws[g] = us[g]
          /\ pt.table # None => /\ pt.table \in TableFrames /\ l[pt.table] = Below(k, pd.table)
                                /\ ws[pd.table][index(v, 1)] = pt.table
    BY <2>2, Zenon DEF Descended
  <2>4. SameMaps(ts, ws, rs)
    BY <1>5, <2>3, Zenon DEF SameMaps
  <2>5. CASE pt.table = None
    <3>1. t.tables = ws /\ t.free = gs
      BY <1>4, <1>7, <2>3, <2>5, SMTT(30) DEF Tables
    <3>2. Sound(ws, gs, rs)
      BY <2>3, ShapedIsSound
    <3> QED
      BY <3>1, <3>2, <2>4, Zenon DEF MapsOnly, t
  <2>6. CASE pt.table # None
    <3> DEFINE zs == Written(ws, pt.table, index(v, 0), to)
    <3>1. pt.table \in TableFrames /\ l[pt.table] = "pt" /\ ws[pd.table][index(v, 1)] = pt.table
      BY <2>1, <2>3, <2>6, SMTT(30) DEF Below
    <3>2. ws[r][index(v, 2)] = pd.table
      BY <1>1, <2>1, <2>3
    <3>3. LeafTable(ws, r, v) = pt.table
      BY <3>1, <3>2, <1>7, Zenon DEF LeafTable
    <3>4. t = [[tables |-> ws, free |-> gs] EXCEPT !.tables[pt.table][index(v, 0)] = to]
      BY <1>4, <1>7, <2>3, <2>6, Zenon DEF Tables
    <3>5. t.tables = zs /\ t.free = gs
      BY <3>4, SMTT(30) DEF Written
    <3> HIDE DEF zs
    <3>6. Shaped(zs, gs, rs, l, x, b)
      BY <1>2, <2>3, <3>1, WriteShaped DEF zs
    <3>7. Sound(zs, gs, rs)
      BY <3>6, ShapedIsSound
    <3>8. Remapped(ws, zs, rs, r, v, to)
      <4>1. LeafTable(ws, r, v) # None /\ to \in Physical \cup {None}
        BY <3>3, <2>6, ZenonT(30)
      <4>2. Remapped(ws, Written(ws, LeafTable(ws, r, v), index(v, 0), to), rs, r, v, to)
        BY <4>1, <2>3, WriteMaps
      <4> QED
        BY <4>2, <3>3, Zenon DEF zs
    <3>9. Remapped(ts, zs, rs, r, v, to)
      BY <3>8, <2>4, Zenon DEF Remapped, SameMaps
    <3> QED
      BY <3>5, <3>7, <3>9, Zenon DEF MapsOnly, t
  <2> QED
    BY <2>5, <2>6, Zenon
<1> QED
  BY <1>6, <1>7, Zenon

-----------------------------------------------------------------------------
(* The abstract page maps *)

SpaceOf(ts, rs) == [r \in rs |-> [v \in UserPages |-> Translate(ts, r, v)]]

LEMMA SameSpace ==
  ASSUME NEW ts, NEW us, NEW rs, SameMaps(ts, us, rs)
  PROVE  SpaceOf(us, rs) = SpaceOf(ts, rs)
BY Zenon DEF SameMaps, SpaceOf

Retargeted(space, r, v, to) == [space EXCEPT ![r][v] = to]

LEMMA RemappedSpace ==
  ASSUME NEW ts, NEW us, NEW rs, NEW r \in rs, NEW v \in UserPages, NEW to, Remapped(ts, us, rs, r, v, to)
  PROVE  SpaceOf(us, rs) = Retargeted(SpaceOf(ts, rs), r, v, to)
BY Zenon DEF Remapped, SpaceOf, Retargeted

\* A kernel page is no user page: mapping it changes no user translation.
LEMMA RemappedKernel ==
  ASSUME NEW ts, NEW us, NEW rs, NEW r, NEW v \in KernelPages, NEW to, Remapped(ts, us, rs, r, v, to)
  PROVE  SameMaps(ts, us, rs)
<1>1. v \notin UserPages
  BY Zenon DEF KernelPages
<1> QED
  BY <1>1, Zenon DEF Remapped, SameMaps

\* One step keeps the trees sound and is a step of the abstract page maps or none.
Simulates == Sound(tables', free', roots') /\ [PageMaps!Next]_(SpaceOf(tables, roots))

LEMMA Stutters ==
  ASSUME Sound(tables', free', roots'), SpaceOf(tables', roots') = SpaceOf(tables, roots)
  PROVE  Simulates
BY Zenon DEF Simulates

LEMMA CreateSimulates ==
  ASSUME Sound(tables, free, roots), create_user_address_space
  PROVE  Simulates
<1> DEFINE f == Lowest(free)
           us == Rooting(tables, f)
<1>1. PICK kind, up, at : Shaped(tables, free, roots, kind, up, at)
  BY Zenon DEF Sound
<1>2. f \in free
  <2>1. free \in SUBSET Nat /\ free # {}
    BY <1>1, PagingAssumption DEF Shaped, create_user_address_space
  <2> QED
    BY <2>1, LowestIs
<1>3. tables' = us /\ free' = free \ {f} /\ roots' = roots \cup {f}
  BY Zenon DEF create_user_address_space, NewRoot, Rooting
<1> HIDE DEF f
<1>4. f \in TableFrames /\ f \notin roots
  <2>1. f \in TableFrames /\ kind[f] = "free"
    BY <1>1, <1>2, SMTT(30) DEF Shaped
  <2>2. \A r \in roots : kind[r] = "top"
    BY <1>1, Roots
  <2> QED
    BY <2>1, <2>2
<1>5. Sound(tables', free', roots')
  <2>1. Shaped(us, free \ {f}, roots \cup {f}, [kind EXCEPT ![f] = "top"], up, at)
    BY <1>1, <1>2, CreateShaped
  <2>2. Sound(us, free \ {f}, roots \cup {f})
    BY <2>1, ShapedIsSound
  <2> QED
    BY <2>2, <1>3, Zenon
<1>6. SameMaps(tables, us, roots) /\ \A v \in UserPages : Translate(us, f, v) = None
  BY <1>1, <1>2, CreateMaps
<1> HIDE DEF us
<1>7. SpaceOf(us, roots \cup {f}) =
        [q \in roots \cup {f} |-> IF q = f THEN [v \in UserPages |-> None] ELSE SpaceOf(tables, roots)[q]]
  <2>1. \A q \in roots \cup {f} : [v \in UserPages |-> Translate(us, q, v)] =
             IF q = f THEN [v \in UserPages |-> None] ELSE [v \in UserPages |-> Translate(tables, q, v)]
    BY <1>6, <1>4, Zenon DEF SameMaps
  <2>2. \A q \in roots \cup {f} : q # f => SpaceOf(tables, roots)[q] = [v \in UserPages |-> Translate(tables, q, v)]
    BY Zenon DEF SpaceOf
  <2> QED
    BY <2>1, <2>2, Zenon DEF SpaceOf
<1>8. DOMAIN SpaceOf(tables, roots) = roots
  BY Zenon DEF SpaceOf
<1>9. PageMaps!Create(f)
  BY <1>3, <1>4, <1>7, <1>8, Zenon DEF PageMaps!Create, PageMaps!Empty, SpaceOf
<1>10. PageMaps!Next
  BY <1>4, <1>9, Zenon DEF PageMaps!Next
<1> QED
  BY <1>5, <1>10, Zenon DEF Simulates

LEMMA DestroySimulates ==
  ASSUME Sound(tables, free, roots), NEW r \in roots, destroy_user_address_space(r)
  PROVE  Simulates
<1>1. PICK kind, up, at : Shaped(tables, free, roots, kind, up, at)
  BY Zenon DEF Sound
<1> DEFINE gone == Felled(kind, up, r)
           us == [g \in DOMAIN tables \ gone |-> tables[g]]
<1>2. TablesBelow(r) \cup {r} = gone
  <2>1. r # KernelRoot
    BY <1>1, Roots
  <2>2. Half(r) = 0 .. KernelHalf - 1
    BY <2>1, Zenon DEF Half
  <2>3. Reach(tables, r, Half(r)) = Hanging(kind, up, r)
    BY <1>1, ReachIsHanging
  <2>4. TablesBelow(r) = Reach(tables, r, Half(r))
    BY <2>2, Zenon DEF TablesBelow, Reach
  <2> QED
    BY <2>3, <2>4, Zenon DEF Felled
<1>3. tables' = us /\ free' = free \cup gone /\ roots' = roots \ {r}
  BY <1>2, Zenon DEF destroy_user_address_space
<1>4. /\ Shaped(us, free \cup gone, roots \ {r},
                [g \in TableFrames |-> IF g \in gone THEN "free" ELSE kind[g]], up, at)
      /\ SameMaps(tables, us, roots \ {r})
  BY <1>1, DestroyShaped, Zenon
<1>5. Sound(tables', free', roots')
  <2>1. Sound(us, free \cup gone, roots \ {r})
    BY <1>4, ShapedIsSound
  <2> QED
    BY <2>1, <1>3, Zenon
<1> HIDE DEF us, gone
<1>6. SpaceOf(us, roots \ {r}) = [q \in roots \ {r} |-> SpaceOf(tables, roots)[q]]
  <2>1. \A q \in roots \ {r} : [v \in UserPages |-> Translate(us, q, v)] = [v \in UserPages |-> Translate(tables, q, v)]
    BY <1>4, Zenon DEF SameMaps
  <2> QED
    BY <2>1, Zenon DEF SpaceOf
<1>7. DOMAIN SpaceOf(tables, roots) = roots
  BY Zenon DEF SpaceOf
<1>8. PageMaps!Destroy(r)
  BY <1>3, <1>6, <1>7, Zenon DEF PageMaps!Destroy, SpaceOf
<1>9. PageMaps!Next
  BY <1>7, <1>8, Zenon DEF PageMaps!Next, SpaceOf
<1> QED
  BY <1>5, <1>9, Zenon DEF Simulates

\* map_user_page and map_page, on the tables as they are.
LEMMA MapSimulates ==
  ASSUME Sound(tables, free, roots), NEW r, NEW v, Mapped(roots, r, v), NEW p \in Physical,
         Become(MapPage(Here, r, v, p)), roots' = roots
  PROVE  Simulates
<1> DEFINE t == MapPage(Tables(tables, free), r, v, p)
<1>1. PICK kind, up, at : Shaped(tables, free, roots, kind, up, at)
  BY Zenon DEF Sound
<1>2. MapsOnly(tables, roots, r, v, p, t)
  BY <1>1, MapPageMaps
<1>3. tables' = t.tables /\ free' = t.free
  BY Zenon DEF Become, Here, Tables
<1> HIDE DEF t
<1>4. Sound(tables', free', roots')
  BY <1>2, <1>3, Zenon DEF MapsOnly
<1>5. CASE SameMaps(tables, tables', roots)
  BY <1>4, <1>5, SameSpace, Stutters
<1>6. CASE Remapped(tables, tables', roots, r, v, p)
  <2>1. CASE r \in roots /\ v \in UserPages
    <3>1. SpaceOf(tables', roots) = Retargeted(SpaceOf(tables, roots), r, v, p)
      BY <2>1, <1>6, RemappedSpace
    <3>2. PageMaps!Map(r, v, p) /\ DOMAIN SpaceOf(tables, roots) = roots
      BY <3>1, Zenon DEF PageMaps!Map, SpaceOf, Retargeted
    <3>3. PageMaps!Next
      BY <2>1, <3>2, Zenon DEF PageMaps!Next, SpaceOf
    <3> QED
      BY <3>3, <1>4, Zenon DEF Simulates
  <2>2. CASE r = KernelRoot /\ v \in KernelPages
    <3>1. SameMaps(tables, tables', roots)
      BY <2>2, <1>6, RemappedKernel
    <3> QED
      BY <3>1, <1>4, SameSpace, Stutters
  <2> QED
    BY <2>1, <2>2, Zenon DEF Mapped
<1> QED
  BY <1>2, <1>3, <1>5, <1>6, Zenon DEF MapsOnly

\* unmap_user_page and unmap_page.
LEMMA UnmapSimulates ==
  ASSUME Sound(tables, free, roots), NEW r, NEW v, Mapped(roots, r, v), Translate(tables, r, v) # None,
         tables' = [tables EXCEPT ![LeafTable(tables, r, v)][index(v, 0)] = None],
         free' = free, roots' = roots
  PROVE  Simulates
<1> DEFINE l == LeafTable(tables, r, v)
           us == Written(tables, l, index(v, 0), None)
<1>1. PICK kind, up, at : Shaped(tables, free, roots, kind, up, at)
  BY Zenon DEF Sound
<1>2. l # None
  BY Zenon DEF Translate
<1>3. l \in TableFrames /\ kind[l] = "pt"
  BY <1>1, <1>2, LeafTableShaped
<1>4. index(v, 0) \in Index
  <2>1. \A level \in 0 .. 2 : index(v, level) \in Index
    BY <1>1, MappedTop
  <2> QED
    BY <2>1
<1>5. tables' = us
  BY Zenon DEF Written
<1>6. Remapped(tables, us, roots, r, v, None)
  BY <1>1, <1>2, WriteMaps
<1> HIDE DEF l
<1>7. Shaped(us, free, roots, kind, up, at)
  BY <1>1, <1>3, <1>4, WriteShaped
<1> HIDE DEF us
<1>8. Sound(us, free, roots)
  BY <1>7, ShapedIsSound
<1>9. Sound(tables', free', roots') /\ Remapped(tables, tables', roots, r, v, None)
  BY <1>5, <1>6, <1>8, Zenon
<1>10. CASE r \in roots /\ v \in UserPages
  <2>1. SpaceOf(tables', roots) = Retargeted(SpaceOf(tables, roots), r, v, None)
    BY <1>9, <1>10, RemappedSpace
  <2>2. PageMaps!Unmap(r, v) /\ DOMAIN SpaceOf(tables, roots) = roots
    BY <2>1, Zenon DEF PageMaps!Unmap, SpaceOf, Retargeted
  <2>3. PageMaps!Next
    BY <1>10, <2>2, Zenon DEF PageMaps!Next, SpaceOf
  <2> QED
    BY <2>3, <1>9, Zenon DEF Simulates
<1>11. CASE r = KernelRoot /\ v \in KernelPages
  <2>1. SameMaps(tables, tables', roots)
    BY <1>9, <1>11, RemappedKernel
  <2> QED
    BY <2>1, <1>9, SameSpace, Stutters
<1> QED
  BY <1>10, <1>11, Zenon DEF Mapped

LEMMA NextSimulates == Sound(tables, free, roots) /\ [Next]_vars => Simulates
<1> SUFFICES ASSUME Sound(tables, free, roots), [Next]_vars PROVE Simulates
  OBVIOUS
<1>1. CASE create_user_address_space
  BY <1>1, CreateSimulates
<1>2. ASSUME NEW r \in roots, destroy_user_address_space(r) PROVE Simulates
  BY <1>2, DestroySimulates
<1>3. ASSUME NEW r \in roots, NEW v \in UserPages, unmap_user_page(r, v) PROVE Simulates
  BY <1>3, UnmapSimulates, Zenon DEF unmap_user_page, Mapped
<1>4. ASSUME NEW r \in roots, NEW v \in UserPages, NEW p \in Physical, map_user_page(r, v, p)
      PROVE  Simulates
  BY <1>4, MapSimulates DEF map_user_page, Mapped
<1>5. ASSUME NEW v \in KernelPages, unmap_page(v) PROVE Simulates
  BY <1>5, UnmapSimulates, Zenon DEF unmap_page, Mapped
<1>6. ASSUME NEW v \in KernelPages, NEW p \in Physical, map_page(v, p) PROVE Simulates
  BY <1>6, MapSimulates DEF map_page, Mapped
<1>7. ASSUME NEW r \in roots \cup {KernelRoot}, switch_address_space(r) PROVE Simulates
  BY <1>7, Stutters DEF switch_address_space
<1>8. CASE UNCHANGED vars
  BY <1>8, Stutters DEF vars
<1> QED
  BY <1>1, <1>2, <1>3, <1>4, <1>5, <1>6, <1>7, <1>8, Zenon DEF Next

LEMMA InitSound == Init => Sound(tables, free, roots) /\ SpaceOf(tables, roots) = [r \in {} |-> [v \in UserPages |-> None]]
<1> SUFFICES ASSUME Init
             PROVE  Sound(tables, free, roots) /\ SpaceOf(tables, roots) = [r \in {} |-> [v \in UserPages |-> None]]
  OBVIOUS
<1> DEFINE kind == [f \in TableFrames |-> IF f = 0 THEN "top" ELSE IF f = 1 THEN "pd"
                                          ELSE IF f = 2 THEN "pt" ELSE "free"]
           up == [f \in TableFrames |-> IF f = 2 THEN 1 ELSE 0]
           at == [f \in TableFrames |-> IF f = 1 THEN KernelHalf ELSE 0]
<1>1. /\ 0 \in TableFrames /\ 1 \in TableFrames /\ 2 \in TableFrames /\ KernelHalf \in Index /\ 0 \in Index
      /\ None \notin TableFrames
  BY PagingAssumption DEF KernelTables, Index
<1>2. /\ \A i \in Index : tables[0][i] = IF i = KernelHalf THEN 1 ELSE None
      /\ \A i \in Index : tables[1][i] = IF i = 0 THEN 2 ELSE None
      /\ \A i \in Index : tables[2][i] = None
      /\ tables \in [TableFrames \ free -> [Index -> Entries]]
      /\ free = TableFrames \ {0, 1, 2} /\ roots = {}
  <2>1. free = TableFrames \ {0, 1, 2} /\ roots = {} /\ TableFrames \ free = {0, 1, 2}
    BY <1>1 DEF Init, KernelTables
  <2>2. /\ tables[0] = [EmptyTable EXCEPT ![KernelHalf] = 1] /\ tables[1] = [EmptyTable EXCEPT ![0] = 2]
        /\ tables[2] = EmptyTable /\ DOMAIN tables = {0, 1, 2}
        /\ tables = [f \in {0, 1, 2} |-> tables[f]]
    BY DEF Init, KernelTables, KernelRoot
  <2>3. EmptyTable \in [Index -> Entries] /\ \A i \in Index : EmptyTable[i] = None
    BY DEF EmptyTable, Entries
  <2>4. /\ [EmptyTable EXCEPT ![KernelHalf] = 1] \in [Index -> Entries]
        /\ [EmptyTable EXCEPT ![0] = 2] \in [Index -> Entries]
    BY <2>3, <1>1 DEF Entries
  <2>5. tables \in [TableFrames \ free -> [Index -> Entries]]
    BY <2>1, <2>2, <2>3, <2>4
  <2> QED
    BY <2>1, <2>2, <2>3, <2>5, <1>1
<1>3. kind \in [TableFrames -> Kinds] /\ up \in [TableFrames -> TableFrames] /\ at \in [TableFrames -> Index]
  BY <1>1 DEF Kinds
<1>4. \A f \in TableFrames :
        /\ kind[f] = "free" <=> f \in free
        /\ kind[f] = "top" <=> f = 0
        /\ kind[f] = "pd" <=> f = 1
        /\ kind[f] = "pt" <=> f = 2
  BY <1>2
<1>5. up[1] = 0 /\ up[2] = 1 /\ at[1] = KernelHalf /\ at[2] = 0
  BY <1>1
<1> HIDE DEF kind, up, at
<1>6. HangsRight(tables, kind, up, at)
  BY <1>1, <1>2, <1>4, <1>5, PagingAssumption, SMTT(30) DEF HangsRight, Half, KernelRoot, Index
<1>7. Rooted(tables, kind, up, at)
  BY <1>1, <1>2, <1>4, <1>5, PagingAssumption DEF Rooted, Half, KernelRoot, Index
<1>8. \A f \in TableFrames : kind[f] = "pt" => \A i \in Index : tables[f][i] \in Physical \cup {None}
  BY <1>2, <1>4
<1>9. \A i \in 0 .. KernelHalf - 1 : tables[KernelRoot][i] = None
  BY <1>2, PagingAssumption, SMTT(30) DEF KernelRoot, Index
<1>10. Shaped(tables, free, roots, kind, up, at)
  BY <1>2, <1>3, <1>4, <1>6, <1>7, <1>8, <1>9 DEF Shaped, KernelRoot
<1>11. Sound(tables, free, roots)
  BY <1>10, ShapedIsSound
<1>12. SpaceOf(tables, roots) = [r \in {} |-> [v \in UserPages |-> None]]
  BY <1>2 DEF SpaceOf
<1> QED
  BY <1>11, <1>12, Zenon

\* The inductive invariant of the page tables.
LEMMA SoundAlways == Spec => []Sound(tables, free, roots)
<1>1. Init => Sound(tables, free, roots)
  BY InitSound, Zenon
<1>2. Sound(tables, free, roots) /\ [Next]_vars => Sound(tables, free, roots)'
  BY NextSimulates, Zenon DEF Simulates
<1> QED
  BY <1>1, <1>2, PTL DEF Spec

-----------------------------------------------------------------------------
(* The theorems *)

\* Every frame has one place: what belongs to a root is the root and what hangs below it.
LEMMA OneOwner ==
  ASSUME NEW ts, NEW fr, NEW rs, NEW kind, NEW up, NEW at, Shaped(ts, fr, rs, kind, up, at)
  PROVE  /\ \A r \in rs \cup {KernelRoot} : Felled(kind, up, r) \cap fr = {}
         /\ \A r, q \in rs \cup {KernelRoot} : r # q => Felled(kind, up, r) \cap Felled(kind, up, q) = {}
         /\ \A f \in TableFrames : f \in fr \/ \E r \in rs \cup {KernelRoot} : f \in Felled(kind, up, r)
         /\ \A r \in rs \cup {KernelRoot} : fr \cup Felled(kind, up, r) \subseteq TableFrames
<1>1. /\ \A r \in rs \cup {KernelRoot} : r \in TableFrames /\ kind[r] = "top"
      /\ \A f \in TableFrames : kind[f] = "free" <=> f \in fr
      /\ \A f \in TableFrames : kind[f] = "top" => f \in rs \cup {KernelRoot}
      /\ \A f \in TableFrames : kind[f] \in Kinds /\ up[f] \in TableFrames
      /\ \A f \in TableFrames : kind[f] = "pd" => kind[up[f]] = "top"
      /\ \A f \in TableFrames : kind[f] = "pt" => kind[up[f]] = "pd"
      /\ fr \subseteq TableFrames
  <2>1. /\ KernelRoot \in TableFrames /\ kind[KernelRoot] = "top"
        /\ \A r \in rs : r \in TableFrames /\ kind[r] = "top"
    BY Roots
  <2>2. \A r \in rs \cup {KernelRoot} : r \in TableFrames /\ kind[r] = "top"
    BY <2>1, Zenon
  <2> QED
    BY <2>2, Zenon DEF Shaped, HangsRight
<1>2. \A r : \A f : f \in Felled(kind, up, r) <=>
         \/ f = r
         \/ f \in TableFrames /\ kind[f] = "pd" /\ up[f] = r
         \/ f \in TableFrames /\ kind[f] = "pt" /\ up[up[f]] = r
  BY Zenon DEF Felled, Hanging
<1>3. ASSUME NEW r \in rs \cup {KernelRoot}, NEW f \in Felled(kind, up, r)
      PROVE  f \in TableFrames /\ f \notin fr
  <2>1. r \in TableFrames /\ kind[r] = "top"
    BY <1>1, Zenon
  <2>2. f \in TableFrames /\ kind[f] # "free"
    BY <1>2, <2>1
  <2> QED
    BY <1>1, <2>2, Zenon
<1>4. ASSUME NEW r \in rs \cup {KernelRoot}, NEW q \in rs \cup {KernelRoot}, NEW f,
             f \in Felled(kind, up, r), f \in Felled(kind, up, q)
      PROVE  r = q
  <2>1. kind[r] = "top" /\ kind[q] = "top"
    BY <1>1, Zenon
  <2>2. kind[f] = "top" => f = r /\ f = q
    BY <1>2, <1>4
  <2>3. kind[f] = "pd" => up[f] = r /\ up[f] = q
    BY <1>2, <1>4, <2>1, SMTT(30)
  <2>4. kind[f] = "pt" => up[up[f]] = r /\ up[up[f]] = q
    BY <1>2, <1>4, <2>1
  <2>5. kind[f] = "top" \/ kind[f] = "pd" \/ kind[f] = "pt"
    BY <1>2, <1>4, <2>1, SMTT(30)
  <2> QED
    BY <2>2, <2>3, <2>4, <2>5
<1>5. ASSUME NEW f \in TableFrames
      PROVE  f \in fr \/ \E r \in rs \cup {KernelRoot} : f \in Felled(kind, up, r)
  <2>1. CASE kind[f] = "free"
    BY <1>1, <2>1
  <2>2. CASE kind[f] = "top"
    BY <1>1, <1>2, <2>2, Zenon
  <2>3. CASE kind[f] = "pd"
    BY <1>1, <1>2, <2>3, Zenon
  <2>4. CASE kind[f] = "pt"
    BY <1>1, <1>2, <2>4, Zenon
  <2> QED
    BY <1>1, <2>1, <2>2, <2>3, <2>4, SMTT(30) DEF Kinds
<1> QED
  BY <1>1, <1>3, <1>4, <1>5, Zenon

\* What the partition speaks of, by its place.
LEMMA OwnIsFelled ==
  ASSUME NEW kind, NEW up, NEW at, Shaped(tables, free, roots, kind, up, at)
  PROVE  /\ \A r \in roots : r # KernelRoot /\ Own(r) = Felled(kind, up, r)
         /\ Shared = Felled(kind, up, KernelRoot)
<1>1. ASSUME NEW r \in roots PROVE r # KernelRoot /\ Own(r) = Felled(kind, up, r)
  <2>1. r # KernelRoot /\ r \in roots \cup {KernelRoot}
    BY Zenon DEF Shaped
  <2>2. Reach(tables, r, Half(r)) = Hanging(kind, up, r)
    BY <2>1, ReachIsHanging
  <2>3. Half(r) = 0 .. KernelHalf - 1
    BY <2>1, Zenon DEF Half
  <2> QED
    BY <2>1, <2>2, <2>3, Zenon DEF Own, Reached, Reach, Felled
<1>2. Shared = Felled(kind, up, KernelRoot)
  <2>1. Reach(tables, KernelRoot, Index) = Hanging(kind, up, KernelRoot)
    BY ReachKernel, Zenon
  <2> QED
    BY <2>1, Zenon DEF Shared, Reached, Reach, Felled
<1> QED
  BY <1>1, <1>2

LEMMA SoundIsPartitioned == Sound(tables, free, roots) => TablesPartitioned
<1> SUFFICES ASSUME Sound(tables, free, roots) PROVE TablesPartitioned
  OBVIOUS
<1>1. PICK kind, up, at : Shaped(tables, free, roots, kind, up, at)
  BY Zenon DEF Sound
<1>2. /\ \A r \in roots : r # KernelRoot /\ Own(r) = Felled(kind, up, r)
      /\ Shared = Felled(kind, up, KernelRoot)
  BY <1>1, OwnIsFelled, Zenon
<1>3. /\ \A r \in roots \cup {KernelRoot} : Felled(kind, up, r) \cap free = {}
      /\ \A r, q \in roots \cup {KernelRoot} : r # q => Felled(kind, up, r) \cap Felled(kind, up, q) = {}
      /\ \A f \in TableFrames : f \in free \/ \E r \in roots \cup {KernelRoot} : f \in Felled(kind, up, r)
      /\ \A r \in roots \cup {KernelRoot} : free \cup Felled(kind, up, r) \subseteq TableFrames
  BY <1>1, OneOwner, Zenon
<1>4. /\ \A r \in roots : Own(r) \cap (free \cup Shared) = {}
      /\ \A r, q \in roots : r # q => Own(r) \cap Own(q) = {}
      /\ Shared \cap free = {}
  <2>1. \A r \in roots : r \in roots \cup {KernelRoot} /\ KernelRoot \in roots \cup {KernelRoot}
    OBVIOUS
  <2>2. ASSUME NEW r \in roots, NEW f \in Own(r) PROVE f \notin free /\ f \notin Shared
    BY <2>1, <1>2, <1>3
  <2>3. ASSUME NEW r \in roots, NEW q \in roots, r # q PROVE Own(r) \cap Own(q) = {}
    BY <2>1, <2>3, <1>2, <1>3
  <2>4. Shared \cap free = {}
    BY <1>2, <1>3
  <2> QED
    BY <2>2, <2>3, <2>4
<1>5. TableFrames = free \cup Shared \cup UNION {Own(r) : r \in roots}
  <2>1. ASSUME NEW f \in TableFrames PROVE f \in free \cup Shared \cup UNION {Own(r) : r \in roots}
    BY <1>2, <1>3
  <2>2. ASSUME NEW f \in free \cup Shared \cup UNION {Own(r) : r \in roots} PROVE f \in TableFrames
    BY <1>2, <1>3
  <2> QED
    BY <2>1, <2>2
<1>6. KernelPagesAgree
  <2> SUFFICES ASSUME NEW r \in roots, NEW v \in KernelPages, tables[r][index(v, 2)] # None
               PROVE  Translate(tables, r, v) = Translate(tables, KernelRoot, v)
    BY Zenon DEF KernelPagesAgree
  <2>1. v \in Pages /\ ~(index(v, 2) < KernelHalf)
    BY Zenon DEF KernelPages, UserPages
  <2>2. index(v, 2) \in Index
    BY <2>1, IndexType
  <2>3. index(v, 2) \in Half(KernelRoot)
    BY <2>1, <2>2, PagingAssumption DEF Half, Index
  <2>4. tables[r][index(v, 2)] \in {None, tables[KernelRoot][index(v, 2)]}
    BY <1>1, <2>3, Zenon DEF Shaped
  <2>5. tables[r][index(v, 2)] = tables[KernelRoot][index(v, 2)]
    BY <2>4, Zenon
  <2> QED
    BY <2>5, Zenon DEF Translate, LeafTable
<1> QED
  BY <1>4, <1>5, <1>6, Zenon DEF TablesPartitioned, FramesPartitioned

\* The page-table trees stay disjoint and, with the free frames, make up all frames, and
\* kernel pages look the same from every address space that has them: whatever
\* create_user_address_space, map_user_page, unmap_user_page, map_page, unmap_page and
\* destroy_user_address_space do in whatever order, with maps that fail half-way.
THEOREM TreesStayPartitioned == Spec => []TablesPartitioned
BY SoundAlways, SoundIsPartitioned, PTL

\* The user halves of the page tables implement the abstract page maps: a call changes the
\* one page it names, or, when map_user_page runs out of frames, none; no other address
\* space and no other page is touched by the tables shared, made or freed on the way.
THEOREM PageMapsImplemented == Spec => ImplementsPageMaps
<1>1. Init => PageMaps!Init
  <2>1. Init => SpaceOf(tables, roots) = [r \in {} |-> [v \in UserPages |-> None]]
    BY InitSound, Zenon
  <2> QED
    BY <2>1, Zenon DEF PageMaps!Init, PageMaps!Empty, SpaceOf
<1>2. Sound(tables, free, roots) /\ [Next]_vars => [PageMaps!Next]_(SpaceOf(tables, roots))
  BY NextSimulates, Zenon DEF Simulates
<1>3. Sound(tables, free, roots) /\ [Next]_vars =>
          [PageMaps!Next]_([r \in roots |-> [v \in UserPages |-> Translate(tables, r, v)]])
  BY <1>2, Zenon DEF SpaceOf
<1> QED
  BY <1>1, <1>3, SoundAlways, PTL DEF Spec, ImplementsPageMaps, PageMaps!Spec
=============================================================================
