---------------------------- MODULE JsonDb_proofs ----------------------------
(***************************************************************************)
(* Proofs about JsonDb for every set of keys, values and threads and every *)
(* bound:                                                                  *)
(*   - every variable keeps its type;                                      *)
(*   - the pending patches lead from the document as it was last written   *)
(*     to the document as it is;                                           *)
(*   - a text that is written can be loaded, as long as nobody writes to   *)
(*     an object that has lost its place in the document.                  *)
(* Replay is a recursive function over the list of patches.  What it       *)
(* computes for every list is proved with the least-number principle       *)
(* (WFMin): there is no least number of patches at which the claim fails.  *)
(***************************************************************************)
EXTENDS JsonDb, WellFoundedInduction, TLAPS

-----------------------------------------------------------------------------
(* Replay, by induction over the natural numbers: the least counterexample *)

LEMMA LeastNumber ==
    ASSUME NEW T, T \subseteq Nat, T # {}
    PROVE  \E m \in T : \A k \in T : m <= k
<1>1. PICK m \in T : \A k \in T : <<k, m>> \notin OpToRel(<, Nat)
  BY NatLessThanWellFounded, WFMin
<1>2. \A k \in T : ~(k < m)
  BY <1>1 DEF OpToRel
<1> QED
  BY <1>2

\* f is what Replay computes of the first n patches.
IsReplay(f, n, cs, ps) ==
    f = [i \in 0..n |-> IF i = 0 THEN cs ELSE Apply(f[i - 1], ps[i])]

LEMMA ReplayUnique ==
    ASSUME NEW cs, NEW ps, NEW m \in Nat, NEW n \in Nat, m <= n,
           NEW f, IsReplay(f, m, cs, ps), NEW g, IsReplay(g, n, cs, ps)
    PROVE  \A i \in 0..m : f[i] = g[i]
<1> DEFINE T == {i \in 0..m : f[i] # g[i]}
<1>1. SUFFICES ASSUME T # {} PROVE FALSE
  OBVIOUS
<1>2. T \subseteq Nat
  OBVIOUS
<1>3. PICK l \in T : \A k \in T : l <= k
  <2> HIDE DEF T
  <2> QED
    BY <1>1, <1>2, LeastNumber
<1>4. l # 0
  BY DEF IsReplay
<1>5. /\ l \in 1..m /\ l - 1 \in 0..m /\ l - 1 \notin T
  BY <1>3, <1>4
<1>6. f[l - 1] = g[l - 1]
  BY <1>5
<1>7. f[l] = Apply(f[l - 1], ps[l]) /\ g[l] = Apply(g[l - 1], ps[l])
  BY <1>5 DEF IsReplay
<1> QED
  BY <1>3, <1>5, <1>6, <1>7

LEMMA ReplayExists ==
    ASSUME NEW cs, NEW ps, NEW n \in Nat
    PROVE  \E f : IsReplay(f, n, cs, ps)
<1> DEFINE T == {i \in Nat : ~ \E f : IsReplay(f, i, cs, ps)}
<1>1. SUFFICES ASSUME T # {} PROVE FALSE
  OBVIOUS
<1>2. PICK l \in T : \A k \in T : l <= k
  <2>1. T \subseteq Nat
    OBVIOUS
  <2> HIDE DEF T
  <2> QED
    BY <1>1, <2>1, LeastNumber
<1>3. l # 0
  <2>1. IsReplay([i \in 0..0 |-> cs], 0, cs, ps)
    BY DEF IsReplay
  <2> QED
    BY <2>1
<1>4. l \in Nat /\ l - 1 \in Nat /\ l - 1 \notin T
  BY <1>2, <1>3
<1>5. PICK f : IsReplay(f, l - 1, cs, ps)
  BY <1>4
<1> DEFINE g == [i \in 0..l |-> IF i = l THEN Apply(f[l - 1], ps[l]) ELSE f[i]]
<1>6. \A i \in 0..l : g[i] = IF i = 0 THEN cs ELSE Apply(g[i - 1], ps[i])
  <2> TAKE i \in 0..l
  <2>1. CASE i = 0
    BY <2>1, <1>3, <1>4, <1>5 DEF IsReplay
  <2>2. CASE i = l
    BY <2>2, <1>3, <1>4
  <2>3. CASE i # 0 /\ i # l
    BY <2>3, <1>4, <1>5 DEF IsReplay
  <2> QED
    BY <2>1, <2>2, <2>3
<1>7. IsReplay(g, l, cs, ps)
  <2>1. g = [i \in 0..l |-> g[i]]
    OBVIOUS
  <2> HIDE DEF g
  <2> QED
    BY <1>6, <2>1 DEF IsReplay
<1> QED
  BY <1>2, <1>7

LEMMA ReplayOf ==
    ASSUME NEW cs, NEW ps, Len(ps) \in Nat, NEW f, IsReplay(f, Len(ps), cs, ps)
    PROVE  Replay(cs, ps) = f[Len(ps)]
<1> DEFINE c == CHOOSE g : IsReplay(g, Len(ps), cs, ps)
<1>1. Replay(cs, ps) = c[Len(ps)]
  BY DEF Replay, IsReplay
<1>2. IsReplay(c, Len(ps), cs, ps)
  OBVIOUS
<1> HIDE DEF c
<1>3. \A i \in 0..Len(ps) : c[i] = f[i]
  BY <1>2, ReplayUnique
<1> QED
  BY <1>1, <1>3

\* Nothing to apply leaves the contents as they are.
LEMMA ReplayNone ==
    ASSUME NEW cs PROVE Replay(cs, <<>>) = cs
<1>1. PICK f : IsReplay(f, 0, cs, <<>>)
  BY ReplayExists
<1>2. Replay(cs, <<>>) = f[0]
  BY <1>1, ReplayOf
<1> QED
  BY <1>1, <1>2 DEF IsReplay

\* One patch more is applied to what the others make of the contents.
LEMMA ReplayOneMore ==
    ASSUME NEW S, NEW cs, NEW ps \in Seq(S), NEW p \in S
    PROVE  Replay(cs, Append(ps, p)) = Apply(Replay(cs, ps), p)
<1>1. PICK n \in Nat, m \in Nat : n = Len(ps) /\ m = n + 1
  OBVIOUS
<1>2. PICK qs : qs = Append(ps, p)
  OBVIOUS
<1>3. Len(qs) = m /\ qs[m] = p /\ \A i \in 0..n : i # 0 => ps[i] = qs[i]
  BY <1>1, <1>2
<1>4. PICK f : IsReplay(f, n, cs, ps)
  BY <1>1, ReplayExists
<1>5. PICK g : IsReplay(g, m, cs, qs)
  BY <1>1, ReplayExists
<1>6. f[n] = g[n]
  <2>1. IsReplay(f, n, cs, qs)
    BY <1>3, <1>4 DEF IsReplay
  <2>2. n <= m /\ n \in 0..n
    BY <1>1
  <2>3. \A i \in 0..n : f[i] = g[i]
    BY <1>5, <2>1, <2>2, ReplayUnique
  <2> QED
    BY <2>2, <2>3
<1>7. g[m] = Apply(g[n], p)
  BY <1>1, <1>3, <1>5 DEF IsReplay
<1>8. Replay(cs, ps) = f[n]
  BY <1>1, <1>4, ReplayOf
<1>9. Replay(cs, qs) = g[m]
  BY <1>3, <1>5, ReplayOf
<1> QED
  BY <1>2, <1>6, <1>7, <1>8, <1>9

\* Patches can be applied in two rounds.
LEMMA ReplayTwice ==
    ASSUME NEW S, NEW cs, NEW ps \in Seq(S), NEW qs \in Seq(S)
    PROVE  Replay(cs, ps \o qs) = Replay(Replay(cs, ps), qs)
<1> DEFINE part(n) == SubSeq(qs, 1, n)
           Same(n) == Replay(cs, ps \o part(n)) = Replay(Replay(cs, ps), part(n))
           T == {n \in 0..Len(qs) : ~Same(n)}
<1>1. SUFFICES T = {}
  <2>1. Len(qs) \in 0..Len(qs) /\ part(Len(qs)) = qs
    OBVIOUS
  <2> QED
    BY <2>1
<1>2. SUFFICES ASSUME T # {} PROVE FALSE
  OBVIOUS
<1>3. PICK l \in T : \A k \in T : l <= k
  <2>1. T \subseteq Nat
    OBVIOUS
  <2> HIDE DEF T
  <2> QED
    BY <1>2, <2>1, LeastNumber
<1>4. l # 0
  <2>1. part(0) = <<>> /\ ps \o part(0) = ps
    OBVIOUS
  <2>2. Same(0)
    BY <2>1, ReplayNone
  <2> QED
    BY <2>2
<1> DEFINE m == l - 1
<1>5. m \in 0..Len(qs) /\ m + 1 = l /\ m \notin T
  BY <1>3, <1>4
<1>6. Same(m)
  BY <1>5
<1>7. /\ part(m) \in Seq(S) /\ qs[l] \in S
      /\ part(l) = Append(part(m), qs[l])
      /\ ps \o part(m) \in Seq(S)
      /\ ps \o part(l) = Append(ps \o part(m), qs[l])
  <2>1. l \in 1..Len(qs) /\ m \in 0..Len(qs) /\ l = m + 1
    BY <1>3, <1>4, <1>5
  <2>2. part(m) \in Seq(S) /\ qs[l] \in S /\ ps \o part(m) \in Seq(S)
    BY <2>1
  <2>3. part(l) = Append(part(m), qs[l])
    BY <2>1
  <2>4. ps \o Append(part(m), qs[l]) = Append(ps \o part(m), qs[l])
    <3> HIDE DEF part
    <3> QED
      BY <2>2
  <2> QED
    BY <2>2, <2>3, <2>4
<1> HIDE DEF part, m
<1>8. Replay(cs, ps \o part(l)) = Apply(Replay(cs, ps \o part(m)), qs[l])
  <2> DEFINE r == ps \o part(m)
  <2>1. r \in Seq(S) /\ qs[l] \in S
    BY <1>7
  <2> HIDE DEF r
  <2>2. Replay(cs, Append(r, qs[l])) = Apply(Replay(cs, r), qs[l])
    BY <2>1, ReplayOneMore
  <2> QED
    BY <2>2, <1>7 DEF r
<1>9. Replay(Replay(cs, ps), part(l)) = Apply(Replay(Replay(cs, ps), part(m)), qs[l])
  BY <1>7, ReplayOneMore
<1> QED
  BY <1>3, <1>6, <1>8, <1>9

\* Nothing comes of a text that could not be loaded.
LEMMA ReplayNothing ==
    ASSUME NEW S, NEW ps \in Seq(S) PROVE Replay({}, ps) = {}
<1> DEFINE n == Len(ps)
           g == [i \in 0..n |-> {}]
<1>1. IsReplay(g, n, {}, ps)
  BY DEF IsReplay, Apply
<1>2. Replay({}, ps) = g[n]
  BY <1>1, ReplayOf
<1> QED
  BY <1>2

-----------------------------------------------------------------------------
(* Types *)

LEMMA PatchType ==
    ASSUME NEW k \in Keys, NEW v \in Values
    PROVE  /\ Patch("add", k, v) \in Patches /\ Patch("replace", k, v) \in Patches
           /\ Patch("remove", k, absent) \in Patches
  BY DEF Patch, Patches

LEMMA OvertakenType ==
    ASSUME TypeOK, NEW ks
    PROVE  Overtaken(ks) \in [Threads -> Assignments \cup {idle}]
<1>1. ASSUME NEW t \in Threads, setting[t] # idle
      PROVE  [setting[t] EXCEPT !.overtaken = @ \/ setting[t].key \in ks] \in Assignments
  BY <1>1 DEF TypeOK, Assignments
<1> QED
  BY <1>1 DEF Overtaken

LEMMA ApplyType ==
    ASSUME NEW cs \in SUBSET Contents, NEW p \in Patches
    PROVE  Apply(cs, p) \in SUBSET Contents
<1>1. p.key \in Keys /\ p.value \in Values \cup {absent}
  BY DEF Patches
<1> QED
  BY <1>1 DEF Apply, Contents

LEMMA ReplayType ==
    ASSUME NEW cs \in SUBSET Contents, NEW ps \in Seq(Patches)
    PROVE  Replay(cs, ps) \in SUBSET Contents
<1>1. PICK n \in Nat : n = Len(ps)
  OBVIOUS
<1>2. PICK f : IsReplay(f, n, cs, ps)
  BY ReplayExists
<1> DEFINE T == {i \in 0..n : f[i] \notin SUBSET Contents}
<1>3. SUFFICES ASSUME T # {} PROVE FALSE
  BY <1>1, <1>2, ReplayOf
<1>4. PICK l \in T : \A k \in T : l <= k
  <2>1. T \subseteq Nat
    OBVIOUS
  <2> HIDE DEF T
  <2> QED
    BY <1>3, <2>1, LeastNumber
<1>5. l # 0
  BY <1>2 DEF IsReplay
<1>6. f[l - 1] \in SUBSET Contents
  BY <1>4, <1>5
<1>7. ps[l] \in Patches /\ f[l] = Apply(f[l - 1], ps[l])
  BY <1>1, <1>2, <1>4, <1>5 DEF IsReplay
<1> QED
  BY <1>4, <1>6, <1>7, ApplyType

LEMMA LoadType ==
    ASSUME NEW t \in Texts PROVE Load(t) \in SUBSET Contents
<1>1. {t.doc} \in SUBSET Contents /\ t.patches \in Seq(Patches) /\ Empty \in Contents
  BY DEF Texts, Empty, Contents
<1> QED
  BY <1>1, ReplayType DEF Load

LEMMA StorageTypesStep ==
    ASSUME TypeOK, [Next]_vars PROVE TypeOK'
<1> USE JsonDbAssumption
<1>1. ASSUME NEW k \in Keys, NEW v \in Values, SetItem(k, v) PROVE TypeOK'
  <2>1. pending' \in Seq(Patches) /\ modified' = TRUE
    BY <1>1, PatchType DEF SetItem, Patched, TypeOK
  <2>2. data' \in Contents /\ object' \in Contents
    BY <1>1 DEF SetItem, TypeOK, Contents
  <2> QED
    BY <1>1, <2>1, <2>2, OvertakenType DEF SetItem, bookkeeping, TypeOK
<1>2. ASSUME NEW k \in Keys, NEW v \in Values, ChangeInPlace(k, v) PROVE TypeOK'
  BY <1>2 DEF ChangeInPlace, bookkeeping, TypeOK, Contents
<1>3. ASSUME NEW k \in Keys, Pop(k) PROVE TypeOK'
  <2>1. pending' \in Seq(Patches) /\ modified' = TRUE
    <3>1. Patch("remove", k, absent) \in Patches
      BY DEF Patch, Patches
    <3> QED
      BY <1>3, <3>1 DEF Pop, Patched, TypeOK
  <2>2. data' \in Contents
    BY <1>3 DEF Pop, TypeOK, Contents
  <2> QED
    BY <1>3, <2>1, <2>2 DEF Pop, bookkeeping, TypeOK
<1>4. ASSUME NEW k \in Keys, UpdateItem(k) PROVE TypeOK'
  <2>1. pending' \in Seq(Patches) /\ modified' = TRUE
    <3>1. Patch("remove", k, absent) \in Patches /\ Patch("add", k, data[k]) \in Patches
      BY <1>4 DEF UpdateItem, TypeOK, Contents, Patch, Patches
    <3> QED
      BY <1>4, <3>1 DEF UpdateItem, Patched, TypeOK
  <2> QED
    BY <1>4, <2>1 DEF UpdateItem, bookkeeping, TypeOK
<1>5. ASSUME NEW t \in Threads, NEW k \in Keys, NEW v \in Values, SetAttrPatches(t, k, v)
      PROVE  TypeOK'
  <2>1. pending' \in Seq(Patches) /\ modified' = TRUE
    BY <1>5, PatchType DEF SetAttrPatches, Patched, TypeOK
  <2>2. [key |-> k, value |-> v, overtaken |-> FALSE] \in Assignments
    BY DEF Assignments
  <2> QED
    BY <1>5, <2>1, <2>2 DEF SetAttrPatches, bookkeeping, TypeOK
<1>6. ASSUME NEW t \in Threads, SetAttrAssigns(t) PROVE TypeOK'
  <2>1. setting[t].key \in Keys /\ setting[t].value \in Values
    BY <1>6 DEF SetAttrAssigns, TypeOK, Assignments
  <2>2. data' \in Contents /\ object' \in Contents
    BY <1>6, <2>1 DEF SetAttrAssigns, TypeOK, Contents
  <2>3. behind' \subseteq Keys /\ setting' \in [Threads -> Assignments \cup {idle}]
    BY <1>6, <2>1 DEF SetAttrAssigns, TypeOK
  <2> QED
    BY <1>6, <2>2, <2>3 DEF SetAttrAssigns, bookkeeping, TypeOK
<1>7. CASE AppendPending
  <2> DEFINE ps == text.patches \o pending
  <2>1. ps \in Seq(Patches)
    <3>1. text.patches \in Seq(Patches) /\ pending \in Seq(Patches)
      BY DEF TypeOK, Texts
    <3> QED
      BY <3>1
  <2>2. text' = [text EXCEPT !.patches = ps]
    BY <1>7 DEF AppendPending
  <2> HIDE DEF ps
  <2>3. text' \in Texts
    BY <2>1, <2>2 DEF TypeOK, Texts
  <2>4. pending' \in Seq(Patches)
    BY <1>7 DEF AppendPending
  <2> QED
    BY <1>7, <2>3, <2>4 DEF AppendPending, TypeOK
<1>8. CASE Consolidate
  <2>1. text' \in Texts /\ pending' \in Seq(Patches)
    BY <1>8 DEF Consolidate, TypeOK, Texts
  <2>2. setting' \in [Threads -> Assignments \cup {idle}]
    BY <1>8, OvertakenType DEF Consolidate
  <2> QED
    BY <1>8, <2>1, <2>2 DEF Consolidate, TypeOK
<1>9. CASE Restart
  <2>1. data' \in Contents /\ object' \in Contents
    BY <1>9, LoadType DEF Restart, TypeOK
  <2>2. crashes' \in 0..MaxCrashes
    BY <1>9 DEF Restart, TypeOK
  <2>3. pending' \in Seq(Patches) /\ setting' \in [Threads -> Assignments \cup {idle}]
    BY <1>9 DEF Restart
  <2>4. modified' \in BOOLEAN /\ sizes' \in {"zero", "grown", "some"} /\ behind' \subseteq Keys
    BY <1>9 DEF Restart
  <2> QED
    BY <1>9, <2>1, <2>2, <2>3, <2>4 DEF Restart, TypeOK
<1>10. CASE UNCHANGED vars
  BY <1>10 DEF vars, TypeOK
<1> QED
  BY <1>1, <1>2, <1>3, <1>4, <1>5, <1>6, <1>7, <1>8, <1>9, <1>10 DEF Next

\* Every variable of the store keeps its type.
THEOREM StorageTypes == Spec => []TypeOK
<1>1. Init => TypeOK
  <2> SUFFICES ASSUME Init PROVE TypeOK
    OBVIOUS
  <2>1. Empty \in Contents
    BY DEF Empty, Contents
  <2>2. <<>> \in Seq(Patches) /\ text \in Texts
    BY <2>1, JsonDbAssumption DEF Init, Texts
  <2>3. setting \in [Threads -> Assignments \cup {idle}] /\ crashes \in 0..MaxCrashes
    BY JsonDbAssumption DEF Init
  <2> QED
    BY <2>1, <2>2, <2>3 DEF Init, TypeOK
<1> QED
  BY <1>1, StorageTypesStep, PTL DEF Spec

-----------------------------------------------------------------------------
(* What a start would load, with the pending patches, against the memory *)

\* What the text becomes if the pending patches are appended to it.
Known == Replay(Load(text), pending)

AtMostOne(cs) == \A b, c \in cs : b = c

Assigning(t, k) == setting[t] # idle /\ setting[t].key = k

\* The same entries are there; a value differs only where it may; and the
\* value a thread is about to assign is already in the patches, unless they
\* were dumped or the entry was set again.
Agrees(c) ==
    /\ \A k \in Keys : (c[k] = absent) <=> (data[k] = absent)
    /\ \A k \in Keys : c[k] = data[k] \/ k \in behind \/ \E t \in Threads : Assigning(t, k)
    /\ \A t \in Threads, k \in Keys :
          Assigning(t, k) /\ ~setting[t].overtaken /\ data[k] # absent => c[k] = setting[t].value

DifferenceInv ==
    /\ \A t \in Threads : setting[t] # idle => setting[t].key \in StoredKeys
    /\ AtMostOne(Load(text)) /\ AtMostOne(Known)
    /\ \A c \in Known : Agrees(c)

Loadable == text.headed \/ text.patches = <<>>

\* Of a text that a start accepts something is left by every pending patch.
LoadsInv == Loadable => Load(text) # {} /\ Known # {}

LEMMA ApplyAtMostOne ==
    ASSUME NEW cs, AtMostOne(cs), NEW p PROVE AtMostOne(Apply(cs, p))
  BY DEF AtMostOne, Apply

LEMMA KnownType ==
    ASSUME TypeOK PROVE Known \in SUBSET Contents
<1>1. Load(text) \in SUBSET Contents /\ pending \in Seq(Patches)
  BY LoadType DEF TypeOK
<1> QED
  BY <1>1, ReplayType DEF Known

\* add_patch: what is known after it.
LEMMA OnePatchMore ==
    ASSUME TypeOK, NEW p \in Patches, text' = text, Patched(<<p>>)
    PROVE  Known' = Apply(Known, p)
<1>1. pending' = Append(pending, p) /\ pending \in Seq(Patches)
  BY DEF Patched, TypeOK
<1>2. Known' = Replay(Load(text), pending')
  BY DEF Known
<1> QED
  BY <1>1, <1>2, ReplayOneMore DEF Known

LEMMA TwoPatchesMore ==
    ASSUME TypeOK, NEW p \in Patches, NEW q \in Patches, text' = text, Patched(<<p, q>>)
    PROVE  Known' = Apply(Apply(Known, p), q)
<1>1. PICK ps \in Seq(Patches) : ps = Append(pending, p)
  <2>1. pending \in Seq(Patches)
    BY DEF TypeOK
  <2>2. Append(pending, p) \in Seq(Patches)
    BY <2>1
  <2> QED
    BY <2>2
<1>2. pending' = Append(ps, q) /\ pending \in Seq(Patches)
  BY <1>1 DEF Patched, TypeOK
<1>3. Known' = Replay(Load(text), pending')
  BY DEF Known
<1>4. Replay(Load(text), ps) = Apply(Known, p)
  BY <1>1, <1>2, ReplayOneMore DEF Known
<1> QED
  BY <1>2, <1>3, <1>4, ReplayOneMore

LEMMA NothingPending ==
    ASSUME pending' = <<>> PROVE Known' = Load(text)'
  BY ReplayNone DEF Known

\* A write that appends makes the text what was known before.
LEMMA AppendedIsKnown ==
    ASSUME TypeOK, AppendPending
    PROVE  /\ Load(text)' = IF text.headed THEN Known ELSE {}
           /\ Loadable' => text.headed
<1>1. PICK ps : ps = text.patches \o pending
  OBVIOUS
<1>2. text.patches \in Seq(Patches) /\ pending \in Seq(Patches) /\ pending # <<>>
  BY DEF TypeOK, Texts, AppendPending
<1>3. text'.headed = text.headed /\ text'.doc = text.doc /\ text'.patches = ps
  BY <1>1 DEF AppendPending, TypeOK, Texts
<1>4. ps # <<>>
  BY <1>1, <1>2
<1>5. Replay({text.doc}, ps) = Replay(Replay({text.doc}, text.patches), pending)
  BY <1>1, <1>2, ReplayTwice
<1> QED
  BY <1>3, <1>4, <1>5 DEF Load, Known, Loadable

-----------------------------------------------------------------------------
(* Every step keeps the difference what the patches say *)

LEMMA OvertakenKeeps ==
    ASSUME TypeOK, NEW ks, setting' = Overtaken(ks), NEW t \in Threads
    PROVE  /\ (setting'[t] = idle) <=> (setting[t] = idle)
           /\ setting[t] # idle =>
                 /\ setting'[t].key = setting[t].key /\ setting'[t].value = setting[t].value
                 /\ setting'[t].overtaken = (setting[t].overtaken \/ setting[t].key \in ks)
<1>1. setting[t] = idle => setting'[t] = idle
  BY DEF Overtaken
<1>2. ASSUME setting[t] # idle
      PROVE  /\ setting'[t] # idle
             /\ setting'[t].key = setting[t].key /\ setting'[t].value = setting[t].value
             /\ setting'[t].overtaken = (setting[t].overtaken \/ setting[t].key \in ks)
  <2>1. setting'[t] = [setting[t] EXCEPT !.overtaken = @ \/ setting[t].key \in ks]
    BY <1>2 DEF Overtaken
  <2>2. setting[t] \in Assignments
    BY <1>2 DEF TypeOK
  <2>3. setting'[t] \in Assignments
    BY <2>1, <2>2 DEF Assignments
  <2> QED
    BY <2>1, <2>2, <2>3, IdleAssumption DEF Assignments
<1> QED
  BY <1>1, <1>2

StoredAssigned == \A t \in Threads : setting[t] # idle => setting[t].key \in StoredKeys

\* A change that leaves one patch: it is enough to look at what that patch
\* makes of contents that agree with the memory before.
LEMMA OnePatchAgrees ==
    ASSUME TypeOK, DifferenceInv, NEW p \in Patches, text' = text, Patched(<<p>>),
           StoredAssigned',
           \A c \in Known : p.op = "add" \/ c[p.key] # absent =>
               Agrees([c EXCEPT ![p.key] = p.value])'
    PROVE  /\ DifferenceInv'
           /\ LoadsInv /\ (p.op = "add" \/ data[p.key] # absent) => LoadsInv'
<1>1. Known' = Apply(Known, p)
  BY OnePatchMore
<1>2. Known' = {[c EXCEPT ![p.key] = p.value] : c \in {c \in Known : p.op = "add" \/ c[p.key] # absent}}
  BY <1>1 DEF Apply, Patches
<1>3. AtMostOne(Known')
  BY <1>1, ApplyAtMostOne DEF DifferenceInv
<1>4. AtMostOne(Load(text)')
  BY DEF DifferenceInv
<1>5. \A d \in Known' : Agrees(d)'
  BY <1>2
<1>6. DifferenceInv'
  BY <1>3, <1>4, <1>5 DEF DifferenceInv, StoredAssigned, AtMostOne
<1>7. ASSUME LoadsInv, p.op = "add" \/ data[p.key] # absent, Loadable'
      PROVE  Load(text)' # {} /\ Known' # {}
  <2>1. Loadable /\ Load(text)' = Load(text)
    BY <1>7 DEF Loadable
  <2>2. PICK c \in Known : TRUE
    BY <1>7, <2>1 DEF LoadsInv
  <2>3. p.key \in Keys
    BY DEF Patches
  <2>4. p.op = "add" \/ c[p.key] # absent
    BY <1>7, <2>2, <2>3 DEF DifferenceInv, Agrees
  <2> QED
    BY <1>2, <1>7, <2>1, <2>2, <2>4 DEF LoadsInv
<1> QED
  BY <1>6, <1>7 DEF LoadsInv

LEMMA SetItemAgrees ==
    ASSUME TypeOK, DifferenceInv, NEW k \in Keys, NEW v \in Values, SetItem(k, v)
    PROVE  DifferenceInv' /\ (LoadsInv => LoadsInv')
<1> DEFINE p == Patch(IF data[k] = absent THEN "add" ELSE "replace", k, v)
<1>1. p \in Patches
  BY PatchType
<1>2. p.key = k /\ p.value = v /\ (p.op = "add" \/ data[k] # absent)
  BY DEF Patch
<1>3. text' = text /\ Patched(<<p>>)
  BY DEF SetItem, bookkeeping
<1>4. /\ data' = [data EXCEPT ![k] = v] /\ behind' = behind \ {k} /\ data \in Contents
      /\ setting' = Overtaken({k})
  BY DEF SetItem, TypeOK
<1>5. v # absent
  BY JsonDbAssumption
<1> HIDE DEF p
<1>6. StoredAssigned'
  BY <1>4, OvertakenKeeps DEF DifferenceInv, StoredAssigned
<1>7. ASSUME NEW c \in Known PROVE Agrees([c EXCEPT ![k] = v])'
  <2> DEFINE d == [c EXCEPT ![k] = v]
  <2>1. c \in Contents /\ Agrees(c)
    BY KnownType DEF DifferenceInv
  <2>2. d[k] = v /\ data'[k] = v /\ \A j \in Keys \ {k} : d[j] = c[j] /\ data'[j] = data[j]
    BY <1>4, <2>1 DEF Contents
  <2> HIDE DEF d
  <2>3. \A j \in Keys : (d[j] = absent) <=> (data'[j] = absent)
    BY <2>1, <2>2, <1>5 DEF Agrees
  <2>4. \A t \in Threads, j \in Keys : Assigning(t, j)' <=> Assigning(t, j)
    BY <1>4, OvertakenKeeps DEF Assigning
  <2>5. \A j \in Keys : d[j] = data'[j] \/ j \in behind' \/ \E t \in Threads : Assigning(t, j)'
    BY <1>4, <2>1, <2>2, <2>4 DEF Agrees
  <2>6. ASSUME NEW t \in Threads, NEW j \in Keys,
               Assigning(t, j)', ~setting'[t].overtaken, data'[j] # absent
        PROVE  d[j] = setting'[t].value
    <3>1. /\ setting[t] # idle /\ setting[t].key = j /\ setting'[t].value = setting[t].value
          /\ setting'[t].overtaken = (setting[t].overtaken \/ setting[t].key \in {k})
      BY <1>4, <2>6, OvertakenKeeps DEF Assigning
    <3>2. j # k /\ ~setting[t].overtaken
      BY <2>6, <3>1
    <3> QED
      BY <2>1, <2>2, <2>6, <3>1, <3>2 DEF Agrees, Assigning
  <2> QED
    BY <2>3, <2>5, <2>6 DEF Agrees, d
<1> QED
  BY <1>1, <1>2, <1>3, <1>6, <1>7, OnePatchAgrees

LEMMA PopAgrees ==
    ASSUME TypeOK, DifferenceInv, NEW k \in Keys, Pop(k)
    PROVE  DifferenceInv' /\ (LoadsInv => LoadsInv')
<1> DEFINE p == Patch("remove", k, absent)
<1>1. p \in Patches /\ p.key = k /\ p.value = absent
  BY DEF Patch, Patches
<1>2. text' = text /\ Patched(<<p>>) /\ data[k] # absent
  BY DEF Pop, bookkeeping
<1>3. /\ data' = [data EXCEPT ![k] = absent] /\ behind' = behind \ {k} /\ data \in Contents
      /\ setting' = setting
  BY DEF Pop, TypeOK
<1> HIDE DEF p
<1>4. StoredAssigned'
  BY <1>3 DEF DifferenceInv, StoredAssigned
<1>5. ASSUME NEW c \in Known PROVE Agrees([c EXCEPT ![k] = absent])'
  <2> DEFINE d == [c EXCEPT ![k] = absent]
  <2>1. c \in Contents /\ Agrees(c)
    BY KnownType DEF DifferenceInv
  <2>2. /\ d[k] = absent /\ data'[k] = absent
        /\ \A j \in Keys \ {k} : d[j] = c[j] /\ data'[j] = data[j]
    BY <1>3, <2>1 DEF Contents
  <2> HIDE DEF d
  <2>3. \A j \in Keys : (d[j] = absent) <=> (data'[j] = absent)
    BY <2>1, <2>2 DEF Agrees
  <2>4. \A j \in Keys : d[j] = data'[j] \/ j \in behind' \/ \E t \in Threads : Assigning(t, j)'
    BY <1>3, <2>1, <2>2 DEF Agrees, Assigning
  <2>5. \A t \in Threads, j \in Keys :
          Assigning(t, j)' /\ ~setting'[t].overtaken /\ data'[j] # absent => d[j] = setting'[t].value
    BY <1>3, <2>1, <2>2 DEF Agrees, Assigning
  <2> QED
    BY <2>3, <2>4, <2>5 DEF Agrees, d
<1> QED
  BY <1>1, <1>2, <1>4, <1>5, OnePatchAgrees

\* update_invoice leaves two patches, of which the second needs no entry.
LEMMA UpdateItemAgrees ==
    ASSUME TypeOK, DifferenceInv, NEW k \in Keys, UpdateItem(k)
    PROVE  DifferenceInv' /\ (LoadsInv => LoadsInv')
<1> DEFINE p == Patch("remove", k, absent)
           q == Patch("add", k, data[k])
<1>1. p \in Patches /\ q \in Patches
  BY DEF Patch, Patches, UpdateItem, TypeOK, Contents
<1>2. p.op = "remove" /\ p.key = k /\ q.op = "add" /\ q.key = k /\ q.value = data[k]
  BY DEF Patch
<1>3. /\ text' = text /\ Patched(<<p, q>>) /\ data[k] # absent /\ k \notin StoredKeys
      /\ data' = data /\ behind' = behind \ {k} /\ setting' = setting
  BY DEF UpdateItem, bookkeeping
<1> HIDE DEF p, q
<1>4. Known' = Apply(Apply(Known, p), q)
  BY <1>1, <1>3, TwoPatchesMore
<1>5. \A c \in Known : [c EXCEPT ![k] = absent] \in Contents
                       /\ [[c EXCEPT ![k] = absent] EXCEPT ![k] = data[k]] = [c EXCEPT ![k] = data[k]]
  BY KnownType, JsonDbAssumption DEF Contents
<1>6. /\ \A d \in Known' : \E c \in Known : d = [c EXCEPT ![k] = data[k]]
      /\ \A c \in Known : c[k] # absent => [c EXCEPT ![k] = data[k]] \in Known'
  <2>1. Apply(Known, p) = {[c EXCEPT ![k] = absent] : c \in {c \in Known : c[k] # absent}}
    BY <1>2 DEF Apply
  <2>2. Known' = {[b EXCEPT ![k] = data[k]] : b \in Apply(Known, p)}
    BY <1>2, <1>4 DEF Apply
  <2>3. \A d : d \in Known' <=>
               \E c \in Known : c[k] # absent /\ d = [[c EXCEPT ![k] = absent] EXCEPT ![k] = data[k]]
    BY <2>1, <2>2
  <2>4. ASSUME NEW c \in Known
        PROVE  [[c EXCEPT ![k] = absent] EXCEPT ![k] = data[k]] = [c EXCEPT ![k] = data[k]]
    BY <1>5
  <2>5. ASSUME NEW d \in Known' PROVE \E c \in Known : d = [c EXCEPT ![k] = data[k]]
    <3>1. PICK c \in Known : d = [[c EXCEPT ![k] = absent] EXCEPT ![k] = data[k]]
      BY <2>3, <2>5
    <3> QED
      BY <2>4, <3>1
  <2>6. ASSUME NEW c \in Known, c[k] # absent PROVE [c EXCEPT ![k] = data[k]] \in Known'
    BY <2>3, <2>4, <2>6
  <2> QED
    BY <2>5, <2>6
<1>7. ASSUME NEW c \in Known, NEW d, d = [c EXCEPT ![k] = data[k]] PROVE Agrees(d)'
  <2>1. c \in Contents /\ Agrees(c)
    BY KnownType DEF DifferenceInv
  <2>2. d[k] = data[k] /\ \A j \in Keys \ {k} : d[j] = c[j]
    BY <1>7, <2>1 DEF Contents
  <2>3. \A j \in Keys : (d[j] = absent) <=> (data'[j] = absent)
    BY <1>3, <2>1, <2>2 DEF Agrees
  <2>4. \A j \in Keys : d[j] = data'[j] \/ j \in behind' \/ \E t \in Threads : Assigning(t, j)'
    BY <1>3, <2>1, <2>2 DEF Agrees, Assigning
  <2>5. ASSUME NEW t \in Threads, NEW j \in Keys,
               Assigning(t, j)', ~setting'[t].overtaken, data'[j] # absent
        PROVE  d[j] = setting'[t].value
    BY <1>3, <2>1, <2>2, <2>5 DEF Agrees, Assigning, DifferenceInv
  <2> QED
    BY <2>3, <2>4, <2>5 DEF Agrees
<1>8. DifferenceInv'
  <2>1. AtMostOne(Known')
    BY <1>4, ApplyAtMostOne DEF DifferenceInv
  <2>2. \A d \in Known' : Agrees(d)'
    BY <1>6, <1>7
  <2> QED
    BY <1>3, <2>1, <2>2 DEF DifferenceInv, AtMostOne
<1>9. ASSUME LoadsInv, Loadable' PROVE Load(text)' # {} /\ Known' # {}
  <2>1. Loadable /\ Load(text)' = Load(text)
    BY <1>3, <1>9 DEF Loadable
  <2>2. PICK c \in Known : TRUE
    BY <1>9, <2>1 DEF LoadsInv
  <2>3. c[k] # absent
    BY <1>3, <2>2 DEF DifferenceInv, Agrees
  <2> QED
    BY <1>6, <1>9, <2>1, <2>2, <2>3 DEF LoadsInv
<1> QED
  BY <1>8, <1>9 DEF LoadsInv

\* A change that leaves no patch and no trace in what is known.
LEMMA UnpatchedAgrees ==
    ASSUME TypeOK, DifferenceInv, UNCHANGED <<text, pending>>, StoredAssigned',
           \A c \in Known : Agrees(c)'
    PROVE  DifferenceInv' /\ (LoadsInv => LoadsInv')
<1>1. Load(text)' = Load(text) /\ Known' = Known /\ Loadable' = Loadable
  BY DEF Known, Loadable
<1> QED
  BY <1>1 DEF DifferenceInv, LoadsInv, AtMostOne, StoredAssigned

LEMMA ChangeInPlaceAgrees ==
    ASSUME TypeOK, DifferenceInv, NEW k \in Keys, NEW v \in Values, ChangeInPlace(k, v)
    PROVE  DifferenceInv' /\ (LoadsInv => LoadsInv')
<1>1. /\ UNCHANGED <<text, pending, setting>> /\ k \notin StoredKeys /\ data[k] # absent
      /\ data' = [data EXCEPT ![k] = v] /\ behind' = behind \cup {k} /\ data \in Contents
  BY DEF ChangeInPlace, bookkeeping, TypeOK
<1>2. data'[k] = v /\ v # absent /\ \A j \in Keys \ {k} : data'[j] = data[j]
  BY <1>1, JsonDbAssumption DEF Contents
<1>3. ASSUME NEW c \in Known PROVE Agrees(c)'
  <2>1. Agrees(c)
    BY DEF DifferenceInv
  <2>2. \A j \in Keys : (c[j] = absent) <=> (data'[j] = absent)
    BY <1>1, <1>2, <2>1 DEF Agrees
  <2>3. \A j \in Keys : c[j] = data'[j] \/ j \in behind' \/ \E t \in Threads : Assigning(t, j)'
    BY <1>1, <1>2, <2>1 DEF Agrees, Assigning
  <2>4. ASSUME NEW t \in Threads, NEW j \in Keys,
               Assigning(t, j)', ~setting'[t].overtaken, data'[j] # absent
        PROVE  c[j] = setting'[t].value
    BY <1>1, <1>2, <2>1, <2>4 DEF Agrees, Assigning, DifferenceInv
  <2> QED
    BY <2>2, <2>3, <2>4 DEF Agrees
<1>4. StoredAssigned'
  BY <1>1 DEF DifferenceInv, StoredAssigned
<1> QED
  BY <1>1, <1>3, <1>4, UnpatchedAgrees

\* The patch of an attribute comes before its assignment, and applies if the
\* entry has not been popped.
LEMMA SetAttrPatchesAgrees ==
    ASSUME TypeOK, DifferenceInv, NEW t \in Threads, NEW k \in Keys, NEW v \in Values,
           SetAttrPatches(t, k, v)
    PROVE  /\ DifferenceInv'
           /\ LoadsInv /\ LooseObjects = FALSE => LoadsInv'
<1> DEFINE p == Patch("replace", k, v)
<1>1. p \in Patches /\ p.key = k /\ p.value = v /\ p.op = "replace"
  BY PatchType DEF Patch
<1>2. /\ text' = text /\ Patched(<<p>>) /\ data' = data /\ behind' = behind
      /\ setting[t] = idle /\ \A u \in Threads : setting[u] # idle => setting[u].key # k
      /\ k \in StoredKeys /\ (data[k] # absent \/ LooseObjects)
  BY DEF SetAttrPatches, bookkeeping
<1>3. /\ setting'[t] = [key |-> k, value |-> v, overtaken |-> FALSE]
      /\ \A u \in Threads \ {t} : setting'[u] = setting[u]
  BY DEF SetAttrPatches, TypeOK
<1>4. setting'[t] # idle /\ v # absent
  <2>1. setting'[t] \in Assignments
    BY <1>3 DEF Assignments
  <2> QED
    BY <2>1, IdleAssumption, JsonDbAssumption
<1> HIDE DEF p
<1>5. StoredAssigned'
  BY <1>2, <1>3 DEF DifferenceInv, StoredAssigned
<1>6. ASSUME NEW c \in Known, c[k] # absent PROVE Agrees([c EXCEPT ![k] = v])'
  <2> DEFINE d == [c EXCEPT ![k] = v]
  <2>1. c \in Contents /\ Agrees(c)
    BY KnownType DEF DifferenceInv
  <2>2. d[k] = v /\ \A j \in Keys \ {k} : d[j] = c[j]
    BY <2>1 DEF Contents
  <2> HIDE DEF d
  <2>3. \A j \in Keys : (d[j] = absent) <=> (data'[j] = absent)
    BY <1>2, <1>4, <1>6, <2>1, <2>2 DEF Agrees
  <2>4. Assigning(t, k)' /\ \A u \in Threads, j \in Keys : Assigning(u, j) => Assigning(u, j)'
    BY <1>2, <1>3, <1>4 DEF Assigning
  <2>5. \A j \in Keys : d[j] = data'[j] \/ j \in behind' \/ \E u \in Threads : Assigning(u, j)'
    BY <1>2, <2>1, <2>2, <2>4 DEF Agrees
  <2>6. ASSUME NEW u \in Threads, NEW j \in Keys,
               Assigning(u, j)', ~setting'[u].overtaken, data'[j] # absent
        PROVE  d[j] = setting'[u].value
    <3>1. CASE u = t
      BY <1>3, <2>2, <2>6, <3>1 DEF Assigning
    <3>2. CASE u # t
      <4>1. setting'[u] = setting[u] /\ Assigning(u, j) /\ j # k
        BY <1>2, <1>3, <2>6, <3>2 DEF Assigning
      <4> QED
        BY <1>2, <2>1, <2>2, <2>6, <4>1 DEF Agrees
    <3> QED
      BY <3>1, <3>2
  <2> QED
    BY <2>3, <2>5, <2>6 DEF Agrees, d
<1> QED
  BY <1>1, <1>2, <1>5, <1>6, OnePatchAgrees

LEMMA SetAttrAssignsAgrees ==
    ASSUME TypeOK, DifferenceInv, NEW t \in Threads, SetAttrAssigns(t)
    PROVE  DifferenceInv' /\ (LoadsInv => LoadsInv')
<1> DEFINE k == setting[t].key
<1>1. setting[t] # idle /\ k \in Keys /\ setting[t].value \in Values
  BY DEF SetAttrAssigns, TypeOK, Assignments
<1>2. setting[t].value # absent
  BY <1>1, JsonDbAssumption
<1>3. /\ UNCHANGED <<text, pending>>
      /\ data'[k] = IF data[k] = absent THEN absent ELSE setting[t].value
      /\ \A j \in Keys \ {k} : data'[j] = data[j]
      /\ behind' = IF setting[t].overtaken /\ data[k] # absent THEN behind \cup {k} ELSE behind
  BY <1>1 DEF SetAttrAssigns, bookkeeping, TypeOK, Contents
<1>4. setting'[t] = idle /\ \A u \in Threads \ {t} : setting'[u] = setting[u]
  BY DEF SetAttrAssigns, TypeOK
<1>5. Assigning(t, k)
  BY <1>1 DEF Assigning
<1>6. \A u \in Threads, j \in Keys : j # k /\ Assigning(u, j) => Assigning(u, j)'
  BY <1>4 DEF Assigning
<1>7. \A u \in Threads, j \in Keys : Assigning(u, j)' => Assigning(u, j) /\ setting'[u] = setting[u]
  BY <1>4 DEF Assigning
<1> HIDE DEF k
<1>8. ASSUME NEW c \in Known PROVE Agrees(c)'
  <2>1. Agrees(c)
    BY DEF DifferenceInv
  <2>2. \A j \in Keys : (c[j] = absent) <=> (data'[j] = absent)
    BY <1>1, <1>2, <1>3, <2>1 DEF Agrees
  <2>3. ASSUME NEW j \in Keys
        PROVE  c[j] = data'[j] \/ j \in behind' \/ \E u \in Threads : Assigning(u, j)'
    <3>1. CASE j # k
      BY <1>3, <1>6, <2>1, <3>1 DEF Agrees
    <3>2. CASE j = k
      BY <1>1, <1>3, <1>5, <2>1, <3>2 DEF Agrees
    <3> QED
      BY <3>1, <3>2
  <2>4. ASSUME NEW u \in Threads, NEW j \in Keys,
               Assigning(u, j)', ~setting'[u].overtaken, data'[j] # absent
        PROVE  c[j] = setting'[u].value
    BY <1>3, <1>7, <2>1, <2>4 DEF Agrees
  <2> QED
    BY <2>2, <2>3, <2>4 DEF Agrees
<1>9. StoredAssigned'
  BY <1>4 DEF DifferenceInv, StoredAssigned
<1> QED
  BY <1>3, <1>8, <1>9, UnpatchedAgrees

LEMMA AppendAgrees ==
    ASSUME TypeOK, DifferenceInv, AppendPending
    PROVE  DifferenceInv' /\ (LoadsInv => LoadsInv')
<1>1. UNCHANGED <<data, setting, behind>> /\ pending' = <<>>
  BY DEF AppendPending
<1>2. Known' = Load(text)' /\ Load(text)' = IF text.headed THEN Known ELSE {}
  BY <1>1, NothingPending, AppendedIsKnown
<1>3. ASSUME NEW c, Agrees(c) PROVE Agrees(c)'
  BY <1>1, <1>3 DEF Agrees, Assigning
<1>4. DifferenceInv'
  BY <1>1, <1>2, <1>3 DEF DifferenceInv, AtMostOne
<1>5. ASSUME LoadsInv PROVE LoadsInv'
  BY <1>2, <1>5, AppendedIsKnown DEF LoadsInv, Loadable
<1> QED
  BY <1>4, <1>5

LEMMA ConsolidateAgrees ==
    ASSUME TypeOK, DifferenceInv, Consolidate
    PROVE  DifferenceInv' /\ LoadsInv'
<1>1. /\ text'.headed = TRUE /\ text'.doc = data /\ text'.patches = <<>> /\ pending' = <<>>
      /\ data' = data /\ setting' = Overtaken(Keys)
  BY DEF Consolidate
<1>2. Load(text)' = {data}
  BY <1>1, ReplayNone DEF Load
<1>3. Known' = {data}
  BY <1>1, <1>2, NothingPending
<1>4. \A t \in Threads : setting'[t] # idle =>
          setting[t] # idle /\ setting'[t].key = setting[t].key /\ setting'[t].overtaken = TRUE
  <2> TAKE t \in Threads
  <2>1. setting[t] # idle => setting[t].key \in Keys
    BY DEF TypeOK, Assignments
  <2> QED
    BY <1>1, <2>1, OvertakenKeeps
<1>5. Agrees(data)'
  BY <1>1, <1>4 DEF Agrees, Assigning
<1>6. \A c \in Known' : Agrees(c)'
  BY <1>1, <1>3, <1>5
<1> QED
  BY <1>2, <1>3, <1>4, <1>6 DEF DifferenceInv, LoadsInv, AtMostOne

LEMMA RestartAgrees ==
    ASSUME TypeOK, DifferenceInv, Restart
    PROVE  DifferenceInv' /\ LoadsInv'
<1>1. /\ text' = text /\ pending' = <<>> /\ data' \in Load(text)
      /\ setting' = [t \in Threads |-> idle]
  BY DEF Restart
<1>2. Load(text)' = {data'} /\ Known' = {data'}
  BY <1>1, NothingPending DEF DifferenceInv, AtMostOne
<1>3. Agrees(data)'
  BY <1>1 DEF Agrees, Assigning
<1> QED
  BY <1>1, <1>2, <1>3 DEF DifferenceInv, LoadsInv, AtMostOne

LEMMA InitAgrees ==
    ASSUME Init PROVE DifferenceInv /\ LoadsInv
<1>1. Load(text) = {Empty}
  BY ReplayNone DEF Init, Load
<1>2. Known = {Empty}
  BY <1>1, ReplayNone DEF Known, Init
<1>3. Agrees(Empty)
  BY DEF Init, Agrees, Assigning
<1> QED
  BY <1>1, <1>2, <1>3 DEF DifferenceInv, LoadsInv, AtMostOne, Init

LEMMA DifferenceStep ==
    ASSUME TypeOK, DifferenceInv, [Next]_vars
    PROVE  /\ DifferenceInv'
           /\ LoadsInv /\ LooseObjects = FALSE => LoadsInv'
<1>1. CASE UNCHANGED vars
  <2>1. StoredAssigned' /\ \A c \in Known : Agrees(c)'
    BY <1>1 DEF vars, DifferenceInv, StoredAssigned, Agrees, Assigning
  <2> QED
    BY <1>1, <2>1, UnpatchedAgrees DEF vars
<1>2. CASE Next
  BY <1>2, SetItemAgrees, ChangeInPlaceAgrees, PopAgrees, UpdateItemAgrees,
     SetAttrPatchesAgrees, SetAttrAssignsAgrees, AppendAgrees, ConsolidateAgrees,
     RestartAgrees DEF Next
<1> QED
  BY <1>1, <1>2

-----------------------------------------------------------------------------
(* Theorems *)

LEMMA DifferenceInvariant == Spec => []DifferenceInv
<1>1. Init => DifferenceInv
  BY InitAgrees
<1>2. TypeOK /\ DifferenceInv /\ [Next]_vars => DifferenceInv'
  BY DifferenceStep
<1> QED
  BY <1>1, <1>2, StorageTypes, PTL DEF Spec

\* Whatever is set, popped, assigned and written in whatever order, by however
\* many threads: applying the pending patches to what the datastore holds
\* gives the dictionary, except for entries changed in place and entries of
\* which an assignment was overtaken or is under way (JsonDB.write appends
\* nothing else).
THEOREM PatchesAreDifference == Spec => []PendingIsDifference
<1>1. DifferenceInv => PendingIsDifference
  BY DEF DifferenceInv, PendingIsDifference, Agrees, Known, Assigning
<1> QED
  BY <1>1, DifferenceInvariant, PTL

\* As long as no attribute of a popped entry is assigned, every text with a
\* document that a write leaves can be loaded by the next start, after any
\* number of writes and restarts (JsonDB.load_data).
THEOREM TextsLoad ==
    ASSUME LooseObjects = FALSE PROVE Spec => []DocumentLoads
<1>1. Init => LoadsInv
  BY InitAgrees
<1>2. TypeOK /\ DifferenceInv /\ LoadsInv /\ [Next]_vars => LoadsInv'
  BY DifferenceStep
<1>3. LoadsInv => DocumentLoads
  BY DEF LoadsInv, Loadable, DocumentLoads
<1> QED
  BY <1>1, <1>2, <1>3, StorageTypes, DifferenceInvariant, PTL DEF Spec
=============================================================================
