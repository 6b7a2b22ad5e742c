--------------------------- MODULE AnonymousProofs ---------------------------
(***************************************************************************)
(* Proofs about Anonymous for any set of views, any number of shards and   *)
(* any lengths and element sizes: registrations and live views match one   *)
(* to one, views that must not live together never do, and every call is a *)
(* step of ViewRules.                                                      *)
(***************************************************************************)
EXTENDS Anonymous, SequenceTheorems, FiniteSetTheorems, TLAPS

-----------------------------------------------------------------------------
(***************************************************************************)
(* The inductive invariant                                                 *)
(***************************************************************************)

Kind     == {"none", "slice", "mut", "atomic"}
ViewType == [kind : Kind, start : Nat, end : Nat, size : Nat,
             shard : Shard, slot : Nat, id : Int]
Slot     == {Free} \union (Nat \X Nat)
Slab     == [entries : Seq(Slot), free : Seq(Nat)]
Entry    == [start : Nat, end : Nat, size : Nat, id : Nat]

TypeOK ==
  /\ map \in LockType(View)
  /\ len \in 0 .. MaxLen
  /\ plain \in [Shard -> Slab]
  /\ atomics \in Seq(Entry)
  /\ next_id \in Nat
  /\ view \in [View -> ViewType]

(* The owners of slots of a shard, and of entries of the vector            *)
Mine(vw, s) == {v \in View : vw[v].kind = "slice" /\ vw[v].shard = s}
Keyed(vw)   == {v \in View : vw[v].kind = "atomic" /\ vw[v].id # -1}

(* Every owner has a slot of its own with its range; the other slots are   *)
(* empty and on the free list, each once.                                  *)
SlabFits(entries, free, mine, vw) ==
  /\ \A v \in mine :
       /\ vw[v].slot \in DOMAIN entries
       /\ entries[vw[v].slot] = <<vw[v].start, vw[v].end>>
  /\ \A v, w \in mine : vw[v].slot = vw[w].slot => v = w
  /\ \A i \in DOMAIN entries : entries[i] # Free => \E v \in mine : vw[v].slot = i
  /\ \A k \in DOMAIN free : free[k] \in DOMAIN entries /\ entries[free[k]] = Free
  /\ \A i \in DOMAIN entries : entries[i] = Free => \E k \in DOMAIN free : free[k] = i
  /\ \A j, k \in DOMAIN free : free[j] = free[k] => j = k

EntryOf(w) == [start |-> w.start, end |-> w.end, size |-> w.size, id |-> w.id]

(* Every owner has an entry, every entry an owner, and an id occurs once   *)
(* and never again.                                                        *)
EntriesFit(entries, keyed, vw, next) ==
  /\ \A v \in keyed : \E i \in DOMAIN entries : entries[i] = EntryOf(vw[v])
  /\ \A i \in DOMAIN entries : \E v \in keyed : vw[v].id = entries[i].id
  /\ \A i, j \in DOMAIN entries : entries[i].id = entries[j].id => i = j
  /\ \A v, w \in keyed : vw[v].id = vw[w].id => v = w
  /\ \A i \in DOMAIN entries : entries[i].id < next

(* A slice is never empty, an atomic view consists of whole elements, and  *)
(* it has an entry unless it is empty.                                     *)
Formed(w, n) ==
  /\ w.kind = "none" => w = NoView
  /\ w.kind = "slice" => w.start < w.end /\ w.end =< n
  /\ w.kind = "atomic" =>
       /\ w.size \in ElemSize /\ w.start % w.size = 0 /\ w.end % w.size = 0
       /\ w.start =< w.end /\ w.end =< n
       /\ w.id = -1 <=> w.start = w.end

(* The guard is with the views.                                            *)
Locked ==
  /\ map.readers = {v \in View : view[v].kind \in {"slice", "atomic"}}
  /\ map.writer  = {v \in View : view[v].kind = "mut"}

IInv ==
  /\ TypeOK
  /\ \A s \in Shard : SlabFits(plain[s].entries, plain[s].free, Mine(view, s), view)
  /\ EntriesFit(atomics, Keyed(view), view, next_id)
  /\ \A v \in View : Formed(view[v], len)
  /\ Locked
  /\ NoConflict

-----------------------------------------------------------------------------
(***************************************************************************)
(* Sequences                                                               *)
(***************************************************************************)

\* A vector is a function on the numbers of its slots.
LEMMA SeqIndex ==
    ASSUME NEW S, NEW q \in Seq(S)
    PROVE  /\ Len(q) \in Nat /\ DOMAIN q = 1 .. Len(q)
           /\ \A i \in DOMAIN q : q[i] \in S
           /\ q # <<>> => Len(q) \in DOMAIN q
    BY LenProperties, EmptySeq

\* What Vec::pop leaves behind.
LEMMA FrontLast ==
    ASSUME NEW S, NEW q \in Seq(S), q # <<>>
    PROVE  /\ Last(q) \in S /\ Last(q) = q[Len(q)]
           /\ Front(q) \in Seq(S) /\ Len(Front(q)) = Len(q) - 1
           /\ DOMAIN Front(q) = 1 .. Len(q) - 1
           /\ \A i \in 1 .. Len(q) - 1 : Front(q)[i] = q[i]
    <1>1. /\ Len(q) \in Nat \ {0} /\ \A i \in 1 .. Len(q) - 1 : q[i] \in S
          /\ q[Len(q)] \in S
        BY SeqIndex, EmptySeq
    <1>2. /\ SubSeq(q, 1, Len(q) - 1) \in Seq(S)
          /\ Len(SubSeq(q, 1, Len(q) - 1)) = Len(q) - 1
          /\ \A i \in 1 .. Len(q) - 1 : SubSeq(q, 1, Len(q) - 1)[i] = q[i]
        <2>1. PICK n \in Nat : n = Len(q) - 1
            BY <1>1
        <2>2. /\ SubSeq(q, 1, n) \in Seq(S)
              /\ Len(SubSeq(q, 1, n)) = IF 1 =< n THEN n - 1 + 1 ELSE 0
              /\ \A i \in 1 .. n - 1 + 1 : SubSeq(q, 1, n)[i] = q[1 + i - 1]
            BY <1>1, <2>1, SubSeqProperties
        <2> QED BY <2>1, <2>2
    <1> QED BY <1>1, <1>2, LenProperties DEF Front, Last

\* Vec::swap_remove moves the last element and leaves the others.
LEMMA SwapRemoved ==
    ASSUME NEW S, NEW q \in Seq(S), NEW i \in DOMAIN q
    PROVE  /\ SwapRemove(q, i) \in Seq(S)
           /\ DOMAIN SwapRemove(q, i) = 1 .. Len(q) - 1
           /\ \A k \in 1 .. Len(q) - 1 :
                SwapRemove(q, i)[k] = IF k = i THEN q[Len(q)] ELSE q[k]
    <1>1. Len(q) \in Nat \ {0} /\ i \in 1 .. Len(q) /\ q # <<>> /\ q[Len(q)] \in S /\ Last(q) = q[Len(q)]
        <2>1. Len(q) \in Nat /\ i \in 1 .. Len(q)
            BY SeqIndex
        <2>2. q # <<>>
            BY <2>1, EmptySeq
        <2>3. q[Len(q)] \in S /\ Last(q) = q[Len(q)]
            BY <2>2, FrontLast, Zenon
        <2> QED BY <2>1, <2>2, <2>3
    <1> DEFINE r == [q EXCEPT ![i] = Last(q)]
    <1>2. /\ r \in Seq(S) /\ Len(r) = Len(q)
          /\ \A k \in 1 .. Len(q) : r[k] = IF k = i THEN q[Len(q)] ELSE q[k]
        BY <1>1, ExceptSeq
    <1>3. r # <<>>
        BY <1>1, <1>2, EmptySeq
    <1>4. SwapRemove(q, i) = Front(r)
        BY DEF SwapRemove
    <1> HIDE DEF r
    <1>5. /\ Front(r) \in Seq(S) /\ DOMAIN Front(r) = 1 .. Len(r) - 1
          /\ \A k \in 1 .. Len(r) - 1 : Front(r)[k] = r[k]
        BY <1>2, <1>3, FrontLast, Zenon
    <1> QED BY <1>1, <1>2, <1>4, <1>5

-----------------------------------------------------------------------------
(***************************************************************************)
(* Slabs                                                                   *)
(***************************************************************************)

\* A used slot is not an empty one.
LEMMA UsedSlot ==
    /\ \A a, b : <<a, b>> # Free
    /\ Free \in Slot /\ \A a, b \in Nat : <<a, b>> \in Slot
    BY DEF Slot, Free

\* SlabFits looks at its views only.
LEMMA FitsSame ==
    ASSUME NEW E, NEW F, NEW mine, NEW vw, NEW vw2, SlabFits(E, F, mine, vw),
           \A u \in mine : vw2[u] = vw[u]
    PROVE  SlabFits(E, F, mine, vw2)
    BY DEF SlabFits

\* The slot of a view is used.
LEMMA FitsUsed ==
    ASSUME NEW E, NEW F, NEW mine, NEW vw, SlabFits(E, F, mine, vw), NEW v \in mine
    PROVE  vw[v].slot \in DOMAIN E /\ E[vw[v].slot] # Free
    <1>1. <<vw[v].start, vw[v].end>> # Free
        BY UsedSlot, Zenon
    <1> QED BY <1>1 DEF SlabFits

\* Vector q with y at i
With(q, i, y) == [q EXCEPT ![i] = y]

\* The slot on top of the free list was nobody's and is v's now.
LEMMA ReuseFits ==
    ASSUME NEW E \in Seq(Slot), NEW F \in Seq(Nat), F # <<>>,
           NEW mine, NEW vw, SlabFits(E, F, mine, vw),
           NEW v, v \notin mine, NEW a \in Nat, NEW b \in Nat,
           NEW x, x = Last(F), NEW G, G = With(E, x, <<a, b>>),
           vw[v].slot = x, vw[v].start = a, vw[v].end = b
    PROVE  /\ x \in Nat /\ G \in Seq(Slot) /\ Front(F) \in Seq(Nat)
           /\ SlabFits(G, Front(F), mine \union {v}, vw)
    <1>1. /\ Len(E) \in Nat /\ DOMAIN E = 1 .. Len(E) /\ Len(F) \in Nat /\ DOMAIN F = 1 .. Len(F)
          /\ Len(F) \in DOMAIN F
        BY SeqIndex
    <1>2. /\ x \in Nat /\ x = F[Len(F)] /\ Front(F) \in Seq(Nat) /\ DOMAIN Front(F) = 1 .. Len(F) - 1
          /\ \A i \in 1 .. Len(F) - 1 : Front(F)[i] = F[i]
        BY FrontLast
    <1>3. x \in DOMAIN E /\ E[x] = Free
        BY <1>1, <1>2 DEF SlabFits
    <1>4. G \in Seq(Slot) /\ DOMAIN G = DOMAIN E
          /\ G[x] = <<a, b>> /\ \A i \in DOMAIN E : i # x => G[i] = E[i]
        BY <1>1, <1>3, UsedSlot, ExceptSeq DEF With
    <1>5. \A i \in DOMAIN Front(F) : i \in DOMAIN F /\ i # Len(F) /\ Front(F)[i] = F[i]
        <2>1. PICK n \in Nat : n = Len(F)
            BY <1>1
        <2>2. \A i \in 1 .. n - 1 : i \in 1 .. n /\ i # n
            OBVIOUS
        <2> QED BY <1>1, <1>2, <2>1, <2>2, Zenon
    <1>6. \A i \in DOMAIN Front(F) : F[i] # x
        BY <1>1, <1>2, <1>5, Zenon DEF SlabFits
    <1>7. \A i \in DOMAIN F : i # Len(F) => i \in DOMAIN Front(F)
        BY <1>1, <1>2
    <1>8. \A u \in mine : vw[u].slot # x /\ vw[u].slot \in DOMAIN E
        BY <1>3, FitsUsed
    <1>9. SlabFits(G, Front(F), mine \union {v}, vw)
        <2>1. \A u \in mine \union {v} :
                vw[u].slot \in DOMAIN G /\ G[vw[u].slot] = <<vw[u].start, vw[u].end>>
            <3>1. ASSUME NEW u \in mine
                  PROVE  vw[u].slot \in DOMAIN G /\ G[vw[u].slot] = <<vw[u].start, vw[u].end>>
                <4>1. E[vw[u].slot] = <<vw[u].start, vw[u].end>>
                    BY DEF SlabFits
                <4> QED BY <1>4, <1>8, <4>1
            <3>2. vw[v].slot \in DOMAIN G /\ G[vw[v].slot] = <<vw[v].start, vw[v].end>>
                BY <1>3, <1>4
            <3> QED BY <3>1, <3>2, Zenon
        <2>2. \A u, w \in mine \union {v} : vw[u].slot = vw[w].slot => u = w
            BY <1>8 DEF SlabFits
        <2>3. \A i \in DOMAIN G : G[i] # Free => \E u \in mine \union {v} : vw[u].slot = i
            BY <1>4 DEF SlabFits
        <2>4. \A k \in DOMAIN Front(F) : Front(F)[k] \in DOMAIN G /\ G[Front(F)[k]] = Free
            <3>1. \A k \in DOMAIN F : F[k] \in DOMAIN E /\ E[F[k]] = Free
                BY DEF SlabFits
            <3> QED BY <1>4, <1>5, <1>6, <3>1
        <2>5. \A i \in DOMAIN G : G[i] = Free => \E k \in DOMAIN Front(F) : Front(F)[k] = i
            <3> SUFFICES ASSUME NEW i \in DOMAIN G, G[i] = Free
                         PROVE  \E k \in DOMAIN Front(F) : Front(F)[k] = i
                OBVIOUS
            <3>1. i # x /\ i \in DOMAIN E /\ E[i] = Free
                BY <1>4, UsedSlot
            <3>2. PICK k \in DOMAIN F : F[k] = i
                BY <3>1 DEF SlabFits
            <3>3. k # Len(F)
                BY <1>2, <3>1, <3>2
            <3> QED BY <1>5, <1>7, <3>2, <3>3
        <2>6. \A j, k \in DOMAIN Front(F) : Front(F)[j] = Front(F)[k] => j = k
            BY <1>5 DEF SlabFits
        <2> QED BY <2>1, <2>2, <2>3, <2>4, <2>5, <2>6 DEF SlabFits
    <1> QED BY <1>2, <1>4, <1>9

\* A new slot at the end of the vector is v's.
LEMMA GrowFits ==
    ASSUME NEW E \in Seq(Slot), NEW F \in Seq(Nat),
           NEW mine, NEW vw, SlabFits(E, F, mine, vw),
           NEW v, v \notin mine, NEW a \in Nat, NEW b \in Nat,
           vw[v].slot = Len(E) + 1, vw[v].start = a, vw[v].end = b
    PROVE  /\ Len(E) + 1 \in Nat
           /\ Append(E, <<a, b>>) \in Seq(Slot)
           /\ SlabFits(Append(E, <<a, b>>), F, mine \union {v}, vw)
    <1> DEFINE G == Append(E, <<a, b>>)  x == Len(E) + 1
    <1>1. Len(E) \in Nat /\ DOMAIN E = 1 .. Len(E)
        BY SeqIndex
    <1>2. /\ G \in Seq(Slot) /\ Len(G) = Len(E) + 1
          /\ \A i \in 1 .. Len(E) : G[i] = E[i]
          /\ G[x] = <<a, b>>
        BY UsedSlot, AppendProperties
    <1>3. DOMAIN G = DOMAIN E \union {x} /\ x \notin DOMAIN E /\ x \in Nat
        BY <1>1, <1>2, SeqIndex
    <1>4. vw[v].slot = x
        OBVIOUS
    <1>5. \A i \in DOMAIN E : G[i] = E[i] /\ i \in DOMAIN G /\ i # x
        BY <1>1, <1>2, <1>3
    <1> HIDE DEF G, x
    <1>6. SlabFits(G, F, mine \union {v}, vw)
        <2>1. \A u \in mine \union {v} :
                vw[u].slot \in DOMAIN G /\ G[vw[u].slot] = <<vw[u].start, vw[u].end>>
            BY <1>2, <1>3, <1>4, <1>5 DEF SlabFits
        <2>2. \A u, w \in mine \union {v} : vw[u].slot = vw[w].slot => u = w
            BY <1>3, <1>4 DEF SlabFits
        <2>3. \A i \in DOMAIN G : G[i] # Free => \E u \in mine \union {v} : vw[u].slot = i
            BY <1>3, <1>4, <1>5 DEF SlabFits
        <2>4. \A k \in DOMAIN F : F[k] \in DOMAIN G /\ G[F[k]] = Free
            BY <1>5 DEF SlabFits
        <2>5. \A i \in DOMAIN G : G[i] = Free => \E k \in DOMAIN F : F[k] = i
            <3>1. G[x] # Free
                BY <1>2, UsedSlot
            <3> QED BY <1>3, <1>5, <3>1 DEF SlabFits
        <2>6. \A j, k \in DOMAIN F : F[j] = F[k] => j = k
            BY DEF SlabFits
        <2> QED BY <2>1, <2>2, <2>3, <2>4, <2>5, <2>6 DEF SlabFits
    <1> QED BY <1>2, <1>3, <1>6 DEF G, x

\* The slot of v is empty and on the free list, and no other view lost its own.
LEMMA VacateFits ==
    ASSUME NEW E \in Seq(Slot), NEW F \in Seq(Nat),
           NEW mine, NEW vw, SlabFits(E, F, mine, vw), NEW v, v \in mine,
           NEW x, x = vw[v].slot, NEW G, G = With(E, x, Free), NEW H, H = Append(F, x)
    PROVE  G \in Seq(Slot) /\ SlabFits(G, H, mine \ {v}, vw)
    <1>1. x \in DOMAIN E /\ E[x] # Free
        BY FitsUsed
    <1>2. /\ Len(E) \in Nat /\ DOMAIN E = 1 .. Len(E) /\ Len(F) \in Nat /\ DOMAIN F = 1 .. Len(F)
          /\ x \in Nat
        BY <1>1, SeqIndex
    <1> DEFINE y == Len(F) + 1
    <1>3. G \in Seq(Slot) /\ DOMAIN G = DOMAIN E
          /\ G[x] = Free /\ \A i \in DOMAIN E : i # x => G[i] = E[i]
        BY <1>1, <1>2, UsedSlot, ExceptSeq DEF With
    <1>4. /\ H \in Seq(Nat) /\ Len(H) = Len(F) + 1
          /\ \A i \in 1 .. Len(F) : H[i] = F[i]
          /\ H[y] = x
        BY <1>2, AppendProperties
    <1>5. DOMAIN H = DOMAIN F \union {y} /\ y \notin DOMAIN F
          /\ \A i \in DOMAIN F : H[i] = F[i]
        BY <1>2, <1>4, SeqIndex
    <1> HIDE DEF y
    <1>6. SlabFits(G, H, mine \ {v}, vw)
        <2>1. \A u \in mine \ {v} :
                vw[u].slot \in DOMAIN G /\ G[vw[u].slot] = <<vw[u].start, vw[u].end>>
            BY <1>3 DEF SlabFits
        <2>2. \A u, w \in mine \ {v} : vw[u].slot = vw[w].slot => u = w
            BY DEF SlabFits
        <2>3. \A i \in DOMAIN G : G[i] # Free => \E u \in mine \ {v} : vw[u].slot = i
            BY <1>3 DEF SlabFits
        <2>4. \A k \in DOMAIN H : H[k] \in DOMAIN G /\ G[H[k]] = Free
            BY <1>1, <1>3, <1>4, <1>5 DEF SlabFits
        <2>5. \A i \in DOMAIN G : G[i] = Free => \E k \in DOMAIN H : H[k] = i
            <3>1. \A i \in DOMAIN E : E[i] = Free => \E k \in DOMAIN F : F[k] = i
                BY DEF SlabFits
            <3> QED BY <1>3, <1>4, <1>5, <3>1
        <2>6. \A j, k \in DOMAIN H : H[j] = H[k] => j = k
            <3>1. \A j \in DOMAIN F : F[j] # x
                BY <1>1 DEF SlabFits
            <3>2. \A j, k \in DOMAIN F : F[j] = F[k] => j = k
                BY DEF SlabFits
            <3> QED BY <1>4, <1>5, <3>1, <3>2
        <2> QED BY <2>1, <2>2, <2>3, <2>4, <2>5, <2>6 DEF SlabFits
    <1> QED BY <1>1, <1>3, <1>4, <1>6

\* SlabInsert gives v a slot and disturbs nobody.
LEMMA InsertFits ==
    ASSUME NEW slab \in Slab, NEW mine, NEW vw, SlabFits(slab.entries, slab.free, mine, vw),
           NEW v, v \notin mine, NEW vw2, \A u \in mine : vw2[u] = vw[u],
           NEW a \in Nat, NEW b \in Nat,
           vw2[v].slot = InsertedAt(slab), vw2[v].start = a, vw2[v].end = b
    PROVE  LET slab1 == SlabInsert(slab, <<a, b>>)
           IN  /\ InsertedAt(slab) \in Nat /\ slab1 \in Slab
               /\ SlabFits(slab1.entries, slab1.free, mine \union {v}, vw2)
    <1> DEFINE E == slab.entries  F == slab.free  slab1 == SlabInsert(slab, <<a, b>>)
    <1>1. E \in Seq(Slot) /\ F \in Seq(Nat)
        BY DEF Slab
    <1>2. SlabFits(E, F, mine, vw2)
        BY FitsSame
    <1>3. CASE F # <<>>
        <2>1. /\ InsertedAt(slab) = Last(F)
              /\ slab1 = [entries |-> [E EXCEPT ![Last(F)] = <<a, b>>], free |-> Front(F)]
            BY <1>3 DEF InsertedAt, SlabInsert
        <2> HIDE DEF E, F, slab1
        <2>2. PICK x, G : x = Last(F) /\ G = With(E, x, <<a, b>>)
            OBVIOUS
        <2>3. slab1.entries = G /\ slab1.free = Front(F) /\ slab1 = [entries |-> G, free |-> Front(F)]
            BY <2>1, <2>2 DEF With
        <2>4. /\ x \in Nat /\ G \in Seq(Slot) /\ Front(F) \in Seq(Nat)
              /\ SlabFits(G, Front(F), mine \union {v}, vw2)
            BY <1>1, <1>2, <1>3, <2>1, <2>2, ReuseFits, ZenonT(60)
        <2>5. InsertedAt(slab) \in Nat /\ slab1 \in Slab
            BY <2>1, <2>2, <2>3, <2>4 DEF Slab
        <2>6. SlabFits(slab1.entries, slab1.free, mine \union {v}, vw2)
            BY <2>3, <2>4
        <2> QED BY <2>5, <2>6 DEF slab1
    <1>4. CASE F = <<>>
        <2>1. /\ InsertedAt(slab) = Len(E) + 1
              /\ slab1 = [entries |-> Append(E, <<a, b>>), free |-> F]
            BY <1>4 DEF InsertedAt, SlabInsert, Slab
        <2> HIDE DEF E, F, slab1
        <2>2. /\ Len(E) + 1 \in Nat /\ Append(E, <<a, b>>) \in Seq(Slot)
              /\ SlabFits(Append(E, <<a, b>>), F, mine \union {v}, vw2)
            BY <1>1, <1>2, <2>1, GrowFits, Zenon
        <2>3. slab1.entries = Append(E, <<a, b>>) /\ slab1.free = F
            BY <2>1
        <2>4. InsertedAt(slab) \in Nat /\ slab1 \in Slab
            BY <1>1, <2>1, <2>2 DEF Slab
        <2>5. SlabFits(slab1.entries, slab1.free, mine \union {v}, vw2)
            BY <2>2, <2>3
        <2> QED BY <2>4, <2>5 DEF slab1
    <1> QED BY <1>3, <1>4

\* SlabRemove takes away the slot of v and no other.
LEMMA RemoveFits ==
    ASSUME NEW slab \in Slab, NEW mine, NEW vw, SlabFits(slab.entries, slab.free, mine, vw),
           NEW v \in mine, NEW vw2, \A u \in mine \ {v} : vw2[u] = vw[u]
    PROVE  LET slab1 == SlabRemove(slab, vw[v].slot)
           IN  slab1 \in Slab /\ SlabFits(slab1.entries, slab1.free, mine \ {v}, vw2)
    <1> DEFINE E == slab.entries  F == slab.free  slab1 == SlabRemove(slab, vw[v].slot)
    <1>1. E \in Seq(Slot) /\ F \in Seq(Nat) /\ SlabFits(E, F, mine, vw)
        BY DEF Slab
    <1>2. slab1 = IF vw[v].slot \in DOMAIN E /\ E[vw[v].slot] # Free
                THEN [entries |-> With(E, vw[v].slot, Free), free |-> Append(F, vw[v].slot)] ELSE slab
        BY DEF SlabRemove, With
    <1> HIDE DEF E, F, slab1
    <1>3. PICK x : x = vw[v].slot
        OBVIOUS
    <1>4. PICK G, H : G = With(E, x, Free) /\ H = Append(F, x)
        OBVIOUS
    <1>5. /\ x \in DOMAIN E /\ E[x] # Free /\ G \in Seq(Slot) /\ H \in Seq(Nat)
          /\ SlabFits(G, H, mine \ {v}, vw)
        <2>1. x \in DOMAIN E /\ E[x] # Free
            BY <1>1, <1>3, FitsUsed
        <2>2. x \in Nat
            BY <1>1, <2>1, SeqIndex
        <2>3. H \in Seq(Nat)
            BY <1>1, <1>4, <2>2, AppendProperties
        <2>4. G \in Seq(Slot) /\ SlabFits(G, H, mine \ {v}, vw)
            BY <1>1, <1>3, <1>4, VacateFits, Zenon
        <2> QED BY <2>1, <2>3, <2>4
    <1>6. SlabFits(G, H, mine \ {v}, vw2)
        BY <1>5, FitsSame
    <1>7. slab1 = [entries |-> G, free |-> H]
        BY <1>3, <1>4, <1>5, <1>2
    <1>8. slab1 \in Slab /\ slab1.entries = G /\ slab1.free = H
        BY <1>5, <1>7 DEF Slab
    <1> QED BY <1>6, <1>8 DEF slab1

\* A registration that is undone leaves the slab fitting as before.
LEMMA UndoFits ==
    ASSUME NEW slab \in Slab, NEW mine \in SUBSET View, NEW vw,
           SlabFits(slab.entries, slab.free, mine, vw), NEW v \in View, v \notin mine,
           NEW a \in Nat, NEW b \in Nat
    PROVE  LET slab1 == SlabRemove(SlabInsert(slab, <<a, b>>), InsertedAt(slab))
           IN  slab1 \in Slab /\ SlabFits(slab1.entries, slab1.free, mine, vw)
    <1>1. PICK vw2 : vw2 = [u \in View |-> IF u = v THEN [slot |-> InsertedAt(slab), start |-> a, end |-> b]
                                                    ELSE vw[u]]
        OBVIOUS
    <1>2. /\ \A u \in mine : vw2[u] = vw[u]
          /\ vw2[v].slot = InsertedAt(slab) /\ vw2[v].start = a /\ vw2[v].end = b
        BY <1>1
    <1>3. PICK mid : mid = SlabInsert(slab, <<a, b>>)
        OBVIOUS
    <1>4. mid \in Slab /\ SlabFits(mid.entries, mid.free, mine \union {v}, vw2)
        BY <1>2, <1>3, InsertFits
    <1>5. PICK all : all = mine \union {v}
        OBVIOUS
    <1>6. v \in all /\ all \ {v} = mine /\ \A u \in all \ {v} : vw[u] = vw2[u]
        BY <1>2, <1>5
    <1>7. /\ SlabRemove(mid, vw2[v].slot) \in Slab
          /\ SlabFits(SlabRemove(mid, vw2[v].slot).entries, SlabRemove(mid, vw2[v].slot).free,
                      all \ {v}, vw)
        BY <1>4, <1>5, <1>6, RemoveFits
    <1> QED BY <1>2, <1>3, <1>6, <1>7

-----------------------------------------------------------------------------
(***************************************************************************)
(* The vector of atomic entries                                            *)
(***************************************************************************)

\* EntriesFit looks at its views only.
LEMMA EntriesSame ==
    ASSUME NEW A, NEW keyed, NEW vw, NEW n, NEW vw2, EntriesFit(A, keyed, vw, n),
           \A u \in keyed : vw2[u] = vw[u]
    PROVE  EntriesFit(A, keyed, vw2, n)
    BY DEF EntriesFit

\* The new entry is v's, and its id is new.
LEMMA AppendEntry ==
    ASSUME NEW A \in Seq(Entry), NEW keyed, NEW vw, NEW n \in Nat, EntriesFit(A, keyed, vw, n),
           NEW v, v \notin keyed, NEW vw2, \A u \in keyed : vw2[u] = vw[u],
           NEW e \in Entry, e = EntryOf(vw2[v]), e.id = n
    PROVE  /\ Append(A, e) \in Seq(Entry)
           /\ EntriesFit(Append(A, e), keyed \union {v}, vw2, n + 1)
    <1> DEFINE B == Append(A, e)  x == Len(A) + 1
    <1>1. Len(A) \in Nat /\ DOMAIN A = 1 .. Len(A) /\ \A i \in DOMAIN A : A[i] \in Entry
        BY SeqIndex
    <1>2. /\ B \in Seq(Entry) /\ Len(B) = Len(A) + 1
          /\ \A i \in 1 .. Len(A) : B[i] = A[i]
          /\ B[x] = e
        BY AppendProperties
    <1>3. DOMAIN B = DOMAIN A \union {x} /\ x \notin DOMAIN A
        BY <1>1, <1>2, SeqIndex
    <1>4. \A i \in DOMAIN A : B[i] = A[i] /\ i \in DOMAIN B /\ B[i].id \in Nat
        BY <1>1, <1>2, <1>3 DEF Entry
    <1>5. EntriesFit(A, keyed, vw2, n) /\ vw2[v].id = n
        BY EntriesSame DEF EntryOf
    <1>6. /\ \A u \in keyed : \E i \in DOMAIN A : A[i] = EntryOf(vw2[u])
          /\ \A i \in DOMAIN A : \E u \in keyed : vw2[u].id = A[i].id
          /\ \A i, j \in DOMAIN A : A[i].id = A[j].id => i = j
          /\ \A u, w \in keyed : vw2[u].id = vw2[w].id => u = w
          /\ \A i \in DOMAIN A : A[i].id < n
        BY <1>5 DEF EntriesFit
    <1> HIDE DEF B, x
    <1>7. EntriesFit(B, keyed \union {v}, vw2, n + 1)
        <2>1. \A u \in keyed \union {v} : \E i \in DOMAIN B : B[i] = EntryOf(vw2[u])
            BY <1>2, <1>3, <1>4, <1>5, <1>6
        <2>2. \A i \in DOMAIN B : \E u \in keyed \union {v} : vw2[u].id = B[i].id
            <3>1. ASSUME NEW i \in DOMAIN A PROVE \E u \in keyed \union {v} : vw2[u].id = B[i].id
                BY <1>4, <1>6
            <3> QED BY <1>2, <1>3, <1>5, <3>1
        <2>3. \A i \in DOMAIN A : B[i].id < n /\ B[i].id # n
            BY <1>4, <1>6
        <2>4. \A i, j \in DOMAIN B : B[i].id = B[j].id => i = j
            <3>1. \A i, j \in DOMAIN A : B[i].id = B[j].id => i = j
                BY <1>4, <1>6
            <3> QED BY <1>2, <1>3, <2>3, <3>1
        <2>5. \A u \in keyed : vw2[u].id # n
            <3> SUFFICES ASSUME NEW u \in keyed PROVE vw2[u].id # n
                OBVIOUS
            <3>1. PICK i \in DOMAIN A : A[i] = EntryOf(vw2[u])
                BY <1>6
            <3> QED BY <1>4, <2>3, <3>1 DEF EntryOf
        <2>6. \A u, w \in keyed \union {v} : vw2[u].id = vw2[w].id => u = w
            BY <1>5, <1>6, <2>5
        <2>7. \A i \in DOMAIN B : B[i].id < n + 1
            BY <1>2, <1>3, <1>4, <2>3
        <2> QED BY <2>1, <2>2, <2>4, <2>6, <2>7 DEF EntriesFit
    <1> QED BY <1>2, <1>7 DEF B

\* swap_remove takes out the entry of v; the entry it moves stays its owner's.
LEMMA RemoveEntry ==
    ASSUME NEW A \in Seq(Entry), NEW keyed, NEW vw, NEW n \in Nat, EntriesFit(A, keyed, vw, n),
           NEW v \in keyed, NEW vw2, \A u \in keyed \ {v} : vw2[u] = vw[u],
           NEW i \in DOMAIN A, A[i].id = vw[v].id
    PROVE  /\ SwapRemove(A, i) \in Seq(Entry)
           /\ EntriesFit(SwapRemove(A, i), keyed \ {v}, vw2, n)
    <1> DEFINE B == SwapRemove(A, i)
    <1>1. Len(A) \in Nat /\ DOMAIN A = 1 .. Len(A)
        BY SeqIndex
    <1>2. /\ B \in Seq(Entry) /\ DOMAIN B = 1 .. Len(A) - 1
          /\ \A k \in 1 .. Len(A) - 1 : B[k] = IF k = i THEN A[Len(A)] ELSE A[k]
        BY SwapRemoved
    <1> DEFINE Old(k) == IF k = i THEN Len(A) ELSE k
    <1>3. \A k \in DOMAIN B : Old(k) \in DOMAIN A /\ Old(k) # i /\ B[k] = A[Old(k)]
        BY <1>1, <1>2
    <1>4. \A j, k \in DOMAIN B : Old(j) = Old(k) => j = k
        BY <1>1, <1>2
    <1>5. \A m \in DOMAIN A : m # i => \E k \in DOMAIN B : Old(k) = m
        <2> SUFFICES ASSUME NEW m \in DOMAIN A, m # i PROVE \E k \in DOMAIN B : Old(k) = m
            OBVIOUS
        <2>1. CASE m = Len(A)
            BY <1>1, <1>2, <2>1
        <2>2. CASE m # Len(A)
            <3>1. m \in DOMAIN B
                BY <1>1, <1>2, <2>2
            <3> QED BY <3>1
        <2> QED BY <2>1, <2>2
    <1> HIDE DEF B, Old
    <1>6. EntriesFit(B, keyed \ {v}, vw2, n)
        <2>1. \A u \in keyed \ {v} : \E k \in DOMAIN B : B[k] = EntryOf(vw2[u])
            <3> SUFFICES ASSUME NEW u \in keyed \ {v}
                         PROVE  \E k \in DOMAIN B : B[k] = EntryOf(vw2[u])
                OBVIOUS
            <3>1. PICK m \in DOMAIN A : A[m] = EntryOf(vw[u])
                BY DEF EntriesFit
            <3>2. m # i
                BY <3>1 DEF EntriesFit, EntryOf
            <3> QED BY <1>3, <1>5, <3>1, <3>2
        <2>2. \A k \in DOMAIN B : \E u \in keyed \ {v} : vw2[u].id = B[k].id
            <3> SUFFICES ASSUME NEW k \in DOMAIN B
                         PROVE  \E u \in keyed \ {v} : vw2[u].id = B[k].id
                OBVIOUS
            <3>1. PICK u \in keyed : vw[u].id = A[Old(k)].id
                BY <1>3 DEF EntriesFit
            <3>2. u # v
                BY <1>3, <3>1 DEF EntriesFit
            <3> QED BY <1>3, <3>1, <3>2
        <2>3. \A j, k \in DOMAIN B : B[j].id = B[k].id => j = k
            BY <1>3, <1>4 DEF EntriesFit
        <2>4. \A u, w \in keyed \ {v} : vw2[u].id = vw2[w].id => u = w
            BY SMTT(30) DEF EntriesFit
        <2>5. \A k \in DOMAIN B : B[k].id < n
            BY <1>3 DEF EntriesFit
        <2> QED BY <2>1, <2>2, <2>3, <2>4, <2>5 DEF EntriesFit
    <1> QED BY <1>2, <1>6 DEF B

-----------------------------------------------------------------------------
(***************************************************************************)
(* Registrations and views                                                 *)
(***************************************************************************)

\* Two ranges overlap, as the registry computes it, when they share a byte.
LEMMA MeetOverlaps ==
    ASSUME NEW x, NEW y, x.start \in Nat, x.end \in Nat, y.start \in Nat, y.end \in Nat
    PROVE  Meet(x, y) <=> /\ x.start < x.end /\ y.start < y.end
                          /\ overlaps(x.start, x.end, y.start, y.end)
    <1>1. ASSUME NEW a \in Nat, NEW b \in Nat, NEW c \in Nat, NEW d \in Nat
          PROVE  (\E z \in a .. b - 1 : z \in c .. d - 1)
                   <=> a < b /\ c < d /\ overlaps(a, b, c, d)
        <2>1. ASSUME a < b, c < d, a < d, c < b PROVE \E z \in a .. b - 1 : z \in c .. d - 1
            <3>1. CASE a =< c
                BY <2>1, <3>1
            <3>2. CASE c < a
                BY <2>1, <3>2
            <3> QED BY <3>1, <3>2
        <2>2. ASSUME NEW z \in a .. b - 1, z \in c .. d - 1 PROVE a < b /\ c < d /\ a < d /\ c < b
            BY <2>2
        <2> QED BY <2>1, <2>2 DEF overlaps
    <1> QED BY <1>1, Zenon DEF Meet

\* A range meets another one when it is met by it.
LEMMA MeetSymmetric ==
    ASSUME NEW x, NEW y
    PROVE  Meet(x, y) <=> Meet(y, x)
    BY DEF Meet

\* An atomic view that is not empty has an entry, and every entry has one.
LEMMA Entered ==
    ASSUME IInv
    PROVE  /\ \A v \in View : view[v].kind = "atomic" /\ view[v].start < view[v].end =>
                \E i \in DOMAIN atomics : atomics[i] = EntryOf(view[v])
           /\ \A i \in DOMAIN atomics : \E v \in View :
                view[v].kind = "atomic" /\ view[v].start < view[v].end
                /\ atomics[i] = EntryOf(view[v])
    <1>1. \A v \in View : view[v] \in ViewType /\ Formed(view[v], len)
        BY DEF IInv, TypeOK
    <1>2. ASSUME NEW v \in View, view[v].kind = "atomic", view[v].start < view[v].end
          PROVE  \E i \in DOMAIN atomics : atomics[i] = EntryOf(view[v])
        <2>1. view[v].id # -1
            BY <1>1, <1>2 DEF Formed, ViewType
        <2> QED BY <1>2, <2>1 DEF IInv, EntriesFit, Keyed
    <1>3. ASSUME NEW i \in DOMAIN atomics
          PROVE  \E v \in View : view[v].kind = "atomic" /\ view[v].start < view[v].end
                                 /\ atomics[i] = EntryOf(view[v])
        <2>1. PICK v \in Keyed(view) : view[v].id = atomics[i].id
            BY DEF IInv, EntriesFit
        <2>2. v \in View /\ view[v].kind = "atomic" /\ view[v].id # -1
            BY DEF Keyed
        <2>3. PICK j \in DOMAIN atomics : atomics[j] = EntryOf(view[v])
            BY DEF IInv, EntriesFit
        <2>4. j = i
            BY <2>1, <2>3 DEF IInv, EntriesFit, EntryOf
        <2>5. view[v].start < view[v].end
            BY <1>1, <2>2 DEF Formed, ViewType
        <2> QED BY <2>2, <2>3, <2>4, <2>5
    <1> QED BY <1>2, <1>3

\* Every slice has a slot, and every used slot has one.
LEMMA Slotted ==
    ASSUME IInv
    PROVE  /\ \A v \in View : view[v].kind = "slice" =>
                /\ view[v].shard \in Shard
                /\ view[v].slot \in DOMAIN plain[view[v].shard].entries
                /\ plain[view[v].shard].entries[view[v].slot] # Free
                /\ plain[view[v].shard].entries[view[v].slot] = <<view[v].start, view[v].end>>
           /\ \A s \in Shard : \A i \in DOMAIN plain[s].entries :
                plain[s].entries[i] # Free =>
                  \E v \in View : /\ view[v].kind = "slice"
                                  /\ plain[s].entries[i] = <<view[v].start, view[v].end>>
    <1>1. ASSUME NEW v \in View, view[v].kind = "slice"
          PROVE  /\ view[v].shard \in Shard
                 /\ view[v].slot \in DOMAIN plain[view[v].shard].entries
                 /\ plain[view[v].shard].entries[view[v].slot] # Free
                 /\ plain[view[v].shard].entries[view[v].slot] = <<view[v].start, view[v].end>>
        <2>1. PICK s \in Shard : s = view[v].shard
            BY DEF IInv, TypeOK, ViewType
        <2>2. v \in Mine(view, s)
            BY <1>1, <2>1 DEF Mine
        <2>3. SlabFits(plain[s].entries, plain[s].free, Mine(view, s), view)
            BY DEF IInv
        <2>4. plain[s].entries[view[v].slot] # Free /\ view[v].slot \in DOMAIN plain[s].entries
            BY <2>2, <2>3, FitsUsed
        <2>5. plain[s].entries[view[v].slot] = <<view[v].start, view[v].end>>
            BY <2>2, <2>3 DEF SlabFits
        <2> QED BY <2>1, <2>4, <2>5
    <1>2. ASSUME NEW s \in Shard, NEW i \in DOMAIN plain[s].entries, plain[s].entries[i] # Free
          PROVE  \E v \in View : /\ view[v].kind = "slice"
                                 /\ plain[s].entries[i] = <<view[v].start, view[v].end>>
        <2>1. SlabFits(plain[s].entries, plain[s].free, Mine(view, s), view)
            BY DEF IInv
        <2>2. PICK v \in Mine(view, s) : view[v].slot = i
            BY <1>2, <2>1 DEF SlabFits
        <2>3. plain[s].entries[i] = <<view[v].start, view[v].end>>
            BY <2>1, <2>2 DEF SlabFits
        <2> QED BY <2>3 DEF Mine
    <1> QED BY <1>1, <1>2

\* What the lock lets in tells who is alive.
LEMMA LockTells ==
    ASSUME IInv
    PROVE  /\ CanRead(map) <=> \A v \in View : view[v].kind # "mut"
           /\ CanWrite(map) <=> \A v \in View : view[v].kind = "none"
           /\ \A v \in View : view[v].kind = "none" <=> view[v] = NoView
    <1>1. \A v \in View : view[v].kind \in Kind /\ (view[v].kind = "none" => view[v] = NoView)
        BY DEF IInv, TypeOK, ViewType, Formed
    <1> QED BY <1>1 DEF IInv, Locked, CanRead, CanWrite, Kind, NoView

\* The two conditions of register_atomic and the one of register_plain say
\* whether a live view shares a byte with the range asked for.
LEMMA ConflictsFound ==
    ASSUME IInv, NEW x, x.start \in Nat, x.end \in Nat, x.start < x.end
    PROVE  /\ \A z : (\E i \in DOMAIN atomics :
                        atomics[i].size # z /\ overlaps(atomics[i].start, atomics[i].end, x.start, x.end))
                     <=> \E v \in View : /\ view[v].kind = "atomic" /\ view[v].size # z
                                         /\ Meet(view[v], x)
           /\ (\E i \in DOMAIN atomics : overlaps(atomics[i].start, atomics[i].end, x.start, x.end))
                <=> \E v \in View : view[v].kind = "atomic" /\ Meet(view[v], x)
           /\ (\E s \in Shard : SlabOverlaps(plain[s], x.start, x.end))
                <=> \E v \in View : view[v].kind = "slice" /\ Meet(view[v], x)
    <1>1. \A v \in View : view[v].start \in Nat /\ view[v].end \in Nat
        BY DEF IInv, TypeOK, ViewType
    <1>2. \A v \in View : Meet(view[v], x) <=> /\ view[v].start < view[v].end
                                               /\ overlaps(view[v].start, view[v].end, x.start, x.end)
        BY <1>1, MeetOverlaps
    <1>3. ASSUME NEW v \in View, view[v].kind = "atomic", Meet(view[v], x)
          PROVE  \E i \in DOMAIN atomics :
                   /\ atomics[i].size = view[v].size
                   /\ overlaps(atomics[i].start, atomics[i].end, x.start, x.end)
        <2>1. PICK i \in DOMAIN atomics : atomics[i] = EntryOf(view[v])
            BY <1>2, <1>3, Entered
        <2> QED BY <1>2, <1>3, <2>1 DEF EntryOf
    <1>4. ASSUME NEW i \in DOMAIN atomics,
                 overlaps(atomics[i].start, atomics[i].end, x.start, x.end)
          PROVE  \E v \in View : /\ view[v].kind = "atomic" /\ view[v].size = atomics[i].size
                                 /\ Meet(view[v], x)
        <2>1. PICK v \in View : view[v].kind = "atomic" /\ view[v].start < view[v].end
                                /\ atomics[i] = EntryOf(view[v])
            BY Entered
        <2> QED BY <1>2, <1>4, <2>1 DEF EntryOf
    <1>5. ASSUME NEW v \in View, view[v].kind = "slice", Meet(view[v], x)
          PROVE  \E s \in Shard : SlabOverlaps(plain[s], x.start, x.end)
        <2>1. PICK s \in Shard : s = view[v].shard
            BY <1>5, Slotted
        <2>2. PICK i \in DOMAIN plain[s].entries :
                plain[s].entries[i] # Free /\ plain[s].entries[i] = <<view[v].start, view[v].end>>
            BY <1>5, <2>1, Slotted
        <2>3. plain[s].entries[i][1] = view[v].start /\ plain[s].entries[i][2] = view[v].end
            BY <2>2
        <2> QED BY <1>2, <1>5, <2>2, <2>3 DEF SlabOverlaps
    <1>6. ASSUME NEW s \in Shard, SlabOverlaps(plain[s], x.start, x.end)
          PROVE  \E v \in View : view[v].kind = "slice" /\ Meet(view[v], x)
        <2>1. PICK i \in DOMAIN plain[s].entries :
                /\ plain[s].entries[i] # Free
                /\ overlaps(plain[s].entries[i][1], plain[s].entries[i][2], x.start, x.end)
            BY <1>6 DEF SlabOverlaps
        <2>2. PICK v \in View : /\ view[v].kind = "slice"
                                /\ plain[s].entries[i] = <<view[v].start, view[v].end>>
            BY <2>1, Slotted
        <2>3. view[v].start < view[v].end
            BY <2>2 DEF IInv, Formed
        <2>4. plain[s].entries[i][1] = view[v].start /\ plain[s].entries[i][2] = view[v].end
            BY <2>2
        <2> QED BY <1>2, <2>1, <2>2, <2>3, <2>4
    <1> QED BY <1>3, <1>4, <1>5, <1>6

-----------------------------------------------------------------------------
(***************************************************************************)
(* Every step keeps the invariant                                          *)
(***************************************************************************)

\* Two views that may live together
Compatible(x, y) ==
  /\ x.kind = "mut" => y = NoView
  /\ x.kind = "atomic" /\ Meet(x, y) => y.kind = "atomic" /\ y.size = x.size

LEMMA NoConflictPairs ==
    NoConflict <=> \A u, w \in View : u # w => Compatible(view[u], view[w])
    BY DEF NoConflict, Compatible

\* The shards number from 0, and there is one.
LEMMA Constants ==
    /\ SHARDS \in Nat \ {0} /\ MaxLen \in Nat \ {0} /\ UMax \in Nat /\ MaxLen < UMax
    /\ PageSize \in Nat \ {0} /\ 0 \in Shard /\ NoView \in ViewType
    /\ \A z \in ElemSize : z \in Nat \ {0}
    BY SizeAssumption DEF Shard, NoView, ViewType, Kind

LEMMA InitInv ==
    Init => IInv
    <1> SUFFICES ASSUME Init PROVE IInv
        OBVIOUS
    <1>1. TypeOK
        BY Constants, EmptySeq DEF Init, TypeOK, Unlocked, LockType, EmptySlab, Slab
    <1>2. \A v \in View : view[v] = NoView /\ view[v].kind = "none"
        BY DEF Init, NoView
    <1>3. ASSUME NEW s \in Shard
          PROVE  SlabFits(plain[s].entries, plain[s].free, Mine(view, s), view)
        <2>1. plain[s].entries = <<>> /\ plain[s].free = <<>> /\ DOMAIN <<>> = {}
            BY EmptySeq, LenProperties DEF Init, EmptySlab
        <2>2. Mine(view, s) = {}
            BY <1>2 DEF Mine
        <2> QED BY <2>1, <2>2 DEF SlabFits
    <1>4. EntriesFit(atomics, Keyed(view), view, next_id)
        <2>1. atomics = <<>> /\ DOMAIN atomics = {} /\ Keyed(view) = {}
            BY <1>2 DEF Init, Keyed
        <2> QED BY <2>1 DEF EntriesFit
    <1>5. \A v \in View : Formed(view[v], len)
        BY <1>2 DEF Formed
    <1>6. Locked
        BY <1>2 DEF Locked, Init, Unlocked
    <1>7. NoConflict
        BY <1>2 DEF NoConflict
    <1> QED BY <1>1, <1>3, <1>4, <1>5, <1>6, <1>7 DEF IInv

\* A call that makes no view, and one that makes the mapping
LEMMA SameViewsInv ==
    ASSUME IInv, UNCHANGED <<map, registry, view>>, len' \in 0 .. MaxLen, len =< len'
    PROVE  IInv'
    <1>1. TypeOK'
        BY DEF IInv, TypeOK, registry
    <1>2. \A s \in Shard : SlabFits(plain[s].entries, plain[s].free, Mine(view, s), view)'
        BY DEF IInv, registry, SlabFits, Mine
    <1>3. EntriesFit(atomics, Keyed(view), view, next_id)'
        BY DEF IInv, registry, EntriesFit, Keyed
    <1>4. \A v \in View : Formed(view[v], len)'
        <2> SUFFICES ASSUME NEW v \in View PROVE Formed(view[v], len)'
            OBVIOUS
        <2>1. Formed(view[v], len) /\ view[v].end \in Nat /\ len \in Nat /\ len' \in Nat
            BY DEF IInv, TypeOK, ViewType
        <2> QED BY <2>1 DEF Formed
    <1>5. Locked' /\ NoConflict'
        BY DEF IInv, Locked, NoConflict
    <1> QED BY <1>1, <1>2, <1>3, <1>4, <1>5 DEF IInv

\* A slice that is refused
LEMMA RefusedInv ==
    ASSUME IInv, NEW v \in View, view[v] = NoView, NEW a \in Nat, NEW b \in Nat, NEW s \in Shard,
           plain' = [plain EXCEPT ![s] = SlabRemove(SlabInsert(plain[s], <<a, b>>),
                                                    InsertedAt(plain[s]))],
           UNCHANGED <<map, len, atomics, next_id, view>>
    PROVE  IInv'
    <1> DEFINE slab1 == SlabRemove(SlabInsert(plain[s], <<a, b>>), InsertedAt(plain[s]))
    <1>1. plain[s] \in Slab /\ SlabFits(plain[s].entries, plain[s].free, Mine(view, s), view)
        BY DEF IInv, TypeOK
    <1>2. Mine(view, s) \in SUBSET View /\ v \notin Mine(view, s)
        BY DEF Mine, NoView
    <1>3. slab1 \in Slab /\ SlabFits(slab1.entries, slab1.free, Mine(view, s), view)
        BY <1>1, <1>2, UndoFits
    <1> HIDE DEF slab1
    <1>4. plain' = [plain EXCEPT ![s] = slab1] /\ plain \in [Shard -> Slab]
        BY DEF IInv, TypeOK, slab1
    <1>5. TypeOK'
        BY <1>3, <1>4 DEF IInv, TypeOK
    <1>6. ASSUME NEW t \in Shard
          PROVE  SlabFits(plain'[t].entries, plain'[t].free, Mine(view', t), view')
        <2>1. CASE t = s
            BY <1>3, <1>4, <2>1
        <2>2. CASE t # s
            BY <1>4, <2>2 DEF IInv
        <2> QED BY <2>1, <2>2
    <1>7. EntriesFit(atomics, Keyed(view), view, next_id)' /\ Locked' /\ NoConflict'
        BY DEF IInv, Locked, NoConflict, EntriesFit, Keyed
    <1>8. \A u \in View : Formed(view[u], len)'
        BY DEF IInv
    <1> QED BY <1>5, <1>6, <1>7, <1>8 DEF IInv

\* A view that goes with every live one
LEMMA PairsKept ==
    ASSUME IInv, NEW v \in View, NEW w \in ViewType, view' = [view EXCEPT ![v] = w],
           \A u \in View : u # v => Compatible(view[u], w) /\ Compatible(w, view[u])
    PROVE  NoConflict'
    <1>1. /\ view'[v] = w /\ \A u \in View : u # v => view'[u] = view[u]
          /\ \A x, y \in View : x # y => Compatible(view[x], view[y])
        BY NoConflictPairs DEF IInv, TypeOK
    <1> SUFFICES ASSUME NEW x \in View, NEW y \in View, x # y
                 PROVE  Compatible(view'[x], view'[y])
        BY DEF NoConflict, Compatible
    <1>2. CASE x = v
        BY <1>1, <1>2
    <1>3. CASE y = v
        BY <1>1, <1>3
    <1>4. CASE x # v /\ y # v
        BY <1>1, <1>4
    <1> QED BY <1>2, <1>3, <1>4

\* A slice that is granted
LEMMA SliceInv ==
    ASSUME IInv, NEW v \in View, view[v] = NoView, NEW a \in Nat, NEW b \in Nat, NEW s \in Shard,
           a < b, b =< len, CanRead(map),
           ~ \E i \in DOMAIN atomics : overlaps(atomics[i].start, atomics[i].end, a, b),
           plain' = [plain EXCEPT ![s] = SlabInsert(plain[s], <<a, b>>)],
           map' = LockRead(map, v),
           view' = [view EXCEPT ![v] = [NoView EXCEPT !.kind = "slice", !.start = a, !.end = b,
                                          !.shard = s, !.slot = InsertedAt(plain[s])]],
           UNCHANGED <<len, atomics, next_id>>
    PROVE  IInv'
    <1> DEFINE slab1 == SlabInsert(plain[s], <<a, b>>)
    <1>1. PICK w : w = [NoView EXCEPT !.kind = "slice", !.start = a, !.end = b,
                                      !.shard = s, !.slot = InsertedAt(plain[s])]
        OBVIOUS
    <1>2. /\ w.kind = "slice" /\ w.start = a /\ w.end = b /\ w.size = 0 /\ w.shard = s
          /\ w.slot = InsertedAt(plain[s]) /\ w.id = 0
          /\ w = [kind |-> "slice", start |-> a, end |-> b, size |-> 0, shard |-> s,
                  slot |-> InsertedAt(plain[s]), id |-> 0]
        BY <1>1 DEF NoView
    <1>3. /\ plain \in [Shard -> Slab] /\ plain[s] \in Slab /\ view \in [View -> ViewType]
          /\ SlabFits(plain[s].entries, plain[s].free, Mine(view, s), view)
          /\ v \notin Mine(view, s) /\ view' = [view EXCEPT ![v] = w]
        <2>1. v \notin Mine(view, s)
            BY DEF Mine, NoView
        <2> QED BY <1>1, <2>1 DEF IInv, TypeOK
    <1>4. \A u \in Mine(view, s) : view'[u] = view[u]
        BY <1>3 DEF Mine
    <1>5. view'[v] = w
        BY <1>3
    <1>6. /\ InsertedAt(plain[s]) \in Nat /\ slab1 \in Slab
          /\ SlabFits(slab1.entries, slab1.free, Mine(view, s) \union {v}, view')
        <2>1. PICK slab, mine, vw, vw2 :
                slab = plain[s] /\ mine = Mine(view, s) /\ vw = view /\ vw2 = view'
            OBVIOUS
        <2>2. /\ slab \in Slab /\ SlabFits(slab.entries, slab.free, mine, vw) /\ v \notin mine
              /\ \A u \in mine : vw2[u] = vw[u]
              /\ vw2[v].slot = InsertedAt(slab) /\ vw2[v].start = a /\ vw2[v].end = b
            BY <1>2, <1>3, <1>4, <1>5, <2>1
        <2>3. PICK res : res = SlabInsert(slab, <<a, b>>)
            OBVIOUS
        <2>4. /\ InsertedAt(slab) \in Nat /\ res \in Slab
              /\ SlabFits(res.entries, res.free, mine \union {v}, vw2)
            BY <2>2, <2>3, InsertFits
        <2> QED BY <2>1, <2>3, <2>4
    <1> HIDE DEF slab1
    <1>7. plain' = [plain EXCEPT ![s] = slab1]
        BY DEF slab1
    <1>8. w \in ViewType
        BY <1>2, <1>6 DEF ViewType, Kind
    <1>9. /\ view' \in [View -> ViewType] /\ \A u \in View : u # v => view'[u] = view[u]
          /\ Mine(view', s) = Mine(view, s) \union {v}
          /\ \A t \in Shard : t # s => Mine(view', t) = Mine(view, t) \ {v}
          /\ Keyed(view') = Keyed(view) \ {v}
        <2>1. view' \in [View -> ViewType] /\ \A u \in View : u # v => view'[u] = view[u]
            BY <1>3, <1>8
        <2> QED BY <1>2, <1>5, <2>1 DEF Mine, Keyed
    <1>10. TypeOK'
        BY <1>3, <1>6, <1>7, <1>9 DEF IInv, TypeOK, LockRead, LockType
    <1>11. ASSUME NEW t \in Shard
           PROVE  SlabFits(plain'[t].entries, plain'[t].free, Mine(view', t), view')
        <2>1. CASE t = s
            BY <1>3, <1>6, <1>7, <1>9, <2>1
        <2>2. CASE t # s
            <3>1. Mine(view', t) = Mine(view, t) /\ plain'[t] = plain[t]
                BY <1>3, <1>7, <1>9, <2>2 DEF Mine, NoView
            <3>2. SlabFits(plain[t].entries, plain[t].free, Mine(view, t), view)
                BY DEF IInv
            <3>3. \A u \in Mine(view, t) : view'[u] = view[u]
                BY <1>9 DEF Mine, NoView
            <3>4. SlabFits(plain[t].entries, plain[t].free, Mine(view, t), view')
                BY <3>2, <3>3, FitsSame
            <3> QED BY <3>1, <3>4
        <2> QED BY <2>1, <2>2
    <1>12. EntriesFit(atomics', Keyed(view'), view', next_id')
        <2>1. Keyed(view') = Keyed(view) /\ \A u \in Keyed(view) : view'[u] = view[u]
            BY <1>9 DEF Keyed, NoView
        <2> QED BY <2>1, EntriesSame DEF IInv
    <1>13. \A u \in View : Formed(view'[u], len')
        <2>1. Formed(w, len)
            BY <1>2 DEF Formed
        <2> QED BY <1>5, <1>9, <2>1 DEF IInv
    <1>14. Locked'
        BY <1>2, <1>5, <1>9 DEF IInv, TypeOK, LockType, Locked, LockRead, NoView
    <1>15. NoConflict'
        <2>1. ASSUME NEW u \in View, u # v PROVE Compatible(view[u], w) /\ Compatible(w, view[u])
            <3>1. view[u].kind # "mut" /\ ~(view[u].kind = "atomic" /\ Meet(view[u], w))
                BY <1>2, LockTells, ConflictsFound
            <3> QED BY <1>2, <3>1 DEF Compatible
        <2> QED BY <1>3, <1>8, <2>1, PairsKept
    <1> QED BY <1>10, <1>11, <1>12, <1>13, <1>14, <1>15 DEF IInv

\* A mutable slice, when nothing else is alive
LEMMA MutInv ==
    ASSUME IInv, NEW v \in View, NEW a \in Nat, NEW b \in Nat, CanWrite(map),
           map' = LockWrite(map, v),
           view' = [view EXCEPT ![v] = [NoView EXCEPT !.kind = "mut", !.start = a, !.end = b]],
           UNCHANGED <<len, registry>>
    PROVE  IInv'
    <1>1. PICK w : w = [NoView EXCEPT !.kind = "mut", !.start = a, !.end = b]
        OBVIOUS
    <1>2. w.kind = "mut" /\ w \in ViewType
        BY <1>1, Constants DEF NoView, ViewType, Kind
    <1>3. view \in [View -> ViewType] /\ view' = [view EXCEPT ![v] = w]
        BY <1>1 DEF IInv, TypeOK
    <1>4. \A u \in View : view[u] = NoView /\ view[u].kind = "none"
        BY LockTells
    <1>5. /\ view' \in [View -> ViewType] /\ view'[v] = w /\ \A u \in View : u # v => view'[u] = view[u]
          /\ \A t : Mine(view', t) = Mine(view, t) /\ Mine(view, t) = {}
          /\ Keyed(view') = Keyed(view) /\ Keyed(view) = {}
        BY <1>2, <1>3, <1>4 DEF Mine, Keyed
    <1>6. TypeOK'
        BY <1>5 DEF IInv, TypeOK, LockWrite, LockType, registry
    <1>7. ASSUME NEW t \in Shard
          PROVE  SlabFits(plain'[t].entries, plain'[t].free, Mine(view', t), view')
        <2>1. SlabFits(plain[t].entries, plain[t].free, Mine(view, t), view)
            BY DEF IInv
        <2> QED BY <1>5, <2>1, FitsSame DEF registry
    <1>8. EntriesFit(atomics', Keyed(view'), view', next_id')
        BY <1>5, EntriesSame DEF IInv, registry
    <1>9. \A u \in View : Formed(view'[u], len')
        BY <1>2, <1>5 DEF IInv, Formed
    <1>10. Locked'
        BY <1>2, <1>4, <1>5 DEF IInv, TypeOK, LockType, Locked, LockWrite
    <1>11. NoConflict'
        <2>1. \A u \in View : u # v => Compatible(view[u], w) /\ Compatible(w, view[u])
            BY <1>2, <1>4 DEF Compatible
        <2> QED BY <1>2, <1>3, <2>1, PairsKept, Zenon
    <1> QED BY <1>6, <1>7, <1>8, <1>9, <1>10, <1>11 DEF IInv

\* An atomic view that is granted
LEMMA AtomicInv ==
    ASSUME IInv, NEW v \in View, view[v] = NoView, NEW a \in Nat, NEW b \in Nat, NEW z \in ElemSize,
           a =< b, b =< len, a % z = 0, b % z = 0, CanRead(map),
           a < b => ~Mixed(a, b, z) /\ \A s \in Shard : ~SlabOverlaps(plain[s], a, b),
           RegisterAtomic(v, a, b, z), UNCHANGED <<len, plain>>
    PROVE  IInv'
    <1>1. PICK w : w = [NoView EXCEPT !.kind = "atomic", !.start = a, !.end = b, !.size = z,
                                      !.id = IF a = b THEN -1 ELSE next_id]
        OBVIOUS
    <1>2. /\ w.kind = "atomic" /\ w.start = a /\ w.end = b /\ w.size = z
          /\ w.id = IF a = b THEN -1 ELSE next_id
          /\ w = [kind |-> "atomic", start |-> a, end |-> b, size |-> z, shard |-> 0, slot |-> 0,
                  id |-> IF a = b THEN -1 ELSE next_id]
        BY <1>1 DEF NoView
    <1>3. /\ view \in [View -> ViewType] /\ view' = [view EXCEPT ![v] = w]
          /\ next_id \in Nat /\ atomics \in Seq(Entry)
        BY <1>1 DEF IInv, TypeOK, RegisterAtomic
    <1>4. w \in ViewType
        BY <1>2, <1>3, Constants DEF ViewType, Kind
    <1>5. view' \in [View -> ViewType] /\ view'[v] = w /\ \A u \in View : u # v => view'[u] = view[u]
        BY <1>3, <1>4
    <1>6. v \notin Keyed(view) /\ \A u \in Keyed(view) : view'[u] = view[u]
        BY <1>5 DEF Keyed, NoView
    <1>7. /\ atomics' \in Seq(Entry) /\ next_id' \in Nat
          /\ EntriesFit(atomics', Keyed(view'), view', next_id')
        <2>1. CASE a = b
            <3>1. Keyed(view') = Keyed(view)
                BY <1>2, <1>5, <2>1 DEF Keyed, NoView
            <3>2. atomics' = atomics /\ next_id' = next_id
                BY <2>1 DEF RegisterAtomic
            <3>3. EntriesFit(atomics, Keyed(view), view', next_id)
                BY <1>6, EntriesSame DEF IInv
            <3> QED BY <1>3, <3>1, <3>2, <3>3
        <2>2. CASE a # b
            <3>1. PICK e : e = [start |-> a, end |-> b, size |-> z, id |-> next_id]
                OBVIOUS
            <3>2. e \in Entry /\ e = EntryOf(w) /\ e.id = next_id /\ w.id # -1
                BY <1>2, <1>3, <2>2, <3>1, Constants DEF Entry, EntryOf
            <3>3. Keyed(view') = Keyed(view) \union {v}
                BY <1>2, <1>5, <3>2 DEF Keyed
            <3>4. atomics' = Append(atomics, e) /\ next_id' = next_id + 1
                BY <2>2, <3>1 DEF RegisterAtomic
            <3>5. PICK A, keyed, vw, n, vw2 :
                    A = atomics /\ keyed = Keyed(view) /\ vw = view /\ n = next_id /\ vw2 = view'
                OBVIOUS
            <3>6. /\ A \in Seq(Entry) /\ n \in Nat /\ EntriesFit(A, keyed, vw, n) /\ v \notin keyed
                  /\ \A u \in keyed : vw2[u] = vw[u]
                  /\ e = EntryOf(vw2[v]) /\ e.id = n
                BY <1>3, <1>5, <1>6, <3>2, <3>5 DEF IInv
            <3>7. Append(A, e) \in Seq(Entry) /\ EntriesFit(Append(A, e), keyed \union {v}, vw2, n + 1)
                BY <3>2, <3>6, AppendEntry
            <3>8. next_id + 1 \in Nat
                BY <1>3
            <3> QED BY <3>3, <3>4, <3>5, <3>7, <3>8
        <2> QED BY <2>1, <2>2
    <1>8. TypeOK'
        BY <1>5, <1>7 DEF IInv, TypeOK, RegisterAtomic, LockRead, LockType
    <1>9. ASSUME NEW t \in Shard
          PROVE  SlabFits(plain'[t].entries, plain'[t].free, Mine(view', t), view')
        <2>1. Mine(view', t) = Mine(view, t) /\ plain'[t] = plain[t]
            BY <1>2, <1>5 DEF Mine, NoView
        <2>2. SlabFits(plain[t].entries, plain[t].free, Mine(view, t), view)
            BY DEF IInv
        <2>3. \A u \in Mine(view, t) : view'[u] = view[u]
            BY <1>5 DEF Mine, NoView
        <2>4. SlabFits(plain[t].entries, plain[t].free, Mine(view, t), view')
            BY <2>2, <2>3, FitsSame
        <2> QED BY <2>1, <2>4
    <1>10. \A u \in View : Formed(view'[u], len')
        <2>1. Formed(w, len)
            BY <1>2, <1>3 DEF Formed
        <2> QED BY <1>5, <2>1 DEF IInv
    <1>11. Locked'
        BY <1>2, <1>5 DEF IInv, TypeOK, LockType, Locked, LockRead, NoView, RegisterAtomic
    <1>12. NoConflict'
        <2>1. ASSUME NEW u \in View, u # v PROVE Compatible(view[u], w) /\ Compatible(w, view[u])
            <3>1. view[u].kind # "mut"
                BY LockTells
            <3>2. CASE a = b
                <4>1. ~Meet(w, view[u]) /\ ~Meet(view[u], w)
                    BY <1>2, <3>2 DEF Meet
                <4> QED BY <1>2, <3>1, <4>1 DEF Compatible
            <3>3. CASE a # b
                <4>1. a < b /\ w.start \in Nat /\ w.end \in Nat /\ w.start < w.end
                    BY <1>2, <3>3
                <4>2. /\ ~(view[u].kind = "atomic" /\ view[u].size # z /\ Meet(view[u], w))
                      /\ ~(view[u].kind = "slice" /\ Meet(view[u], w))
                    BY <1>2, <4>1, ConflictsFound DEF Mixed
                <4>3. CASE view[u].kind = "none"
                    <5>1. view[u] = NoView
                        BY <4>3, LockTells
                    <5>2. ~Meet(view[u], w) /\ ~Meet(w, view[u])
                        BY <5>1 DEF Meet, NoView
                    <5> QED BY <1>2, <4>3, <5>2 DEF Compatible
                <4>4. CASE view[u].kind # "none"
                    <5>1. view[u].kind \in {"slice", "atomic"}
                        BY <3>1, <4>4 DEF IInv, TypeOK, ViewType, Kind
                    <5> QED BY <1>2, <4>2, <5>1, MeetSymmetric DEF Compatible
                <4> QED BY <4>3, <4>4
            <3> QED BY <3>2, <3>3
        <2> QED BY <1>3, <1>4, <2>1, PairsKept
    <1> QED BY <1>7, <1>8, <1>9, <1>10, <1>11, <1>12 DEF IInv

\* A view that is dropped
LEMMA DropInv ==
    ASSUME IInv, NEW v \in View, DropView(v)
    PROVE  IInv'
    <1>1. /\ view \in [View -> ViewType] /\ view' = [view EXCEPT ![v] = NoView]
          /\ plain \in [Shard -> Slab] /\ next_id \in Nat /\ atomics \in Seq(Entry)
          /\ len' = len /\ next_id' = next_id
        BY DEF IInv, TypeOK, DropView
    <1>2. /\ view' \in [View -> ViewType] /\ view'[v] = NoView
          /\ \A u \in View : u # v => view'[u] = view[u]
        BY <1>1, Constants
    <1>3. /\ \A t : Mine(view', t) = Mine(view, t) \ {v}
          /\ Keyed(view') = Keyed(view) \ {v}
        BY <1>2 DEF Mine, Keyed, NoView
    <1>4. /\ plain' \in [Shard -> Slab]
          /\ \A t \in Shard : SlabFits(plain'[t].entries, plain'[t].free, Mine(view', t), view')
        <2>1. ASSUME NEW t \in Shard, v \notin Mine(view, t)
              PROVE  SlabFits(plain[t].entries, plain[t].free, Mine(view', t), view')
            <3>1. Mine(view', t) = Mine(view, t)
                BY <1>3, <2>1
            <3>2. SlabFits(plain[t].entries, plain[t].free, Mine(view, t), view)
                BY DEF IInv
            <3>3. \A u \in Mine(view, t) : view'[u] = view[u]
                BY <1>2, <2>1 DEF Mine
            <3>4. SlabFits(plain[t].entries, plain[t].free, Mine(view, t), view')
                BY <3>2, <3>3, FitsSame
            <3> QED BY <3>1, <3>4
        <2>2. CASE view[v].kind # "slice"
            <3>1. plain' = plain /\ \A t \in Shard : v \notin Mine(view, t)
                BY <2>2 DEF DropView, Mine
            <3> QED BY <1>1, <2>1, <3>1
        <2>3. CASE view[v].kind = "slice"
            <3>1. PICK s \in Shard : s = view[v].shard
                BY <1>1 DEF ViewType
            <3>2. PICK slab, mine, vw, vw2 :
                    slab = plain[s] /\ mine = Mine(view, s) /\ vw = view /\ vw2 = view'
                OBVIOUS
            <3>3. PICK slab1 : slab1 = SlabRemove(slab, vw[v].slot)
                OBVIOUS
            <3>4. /\ slab \in Slab /\ SlabFits(slab.entries, slab.free, mine, vw) /\ v \in mine
                  /\ \A u \in mine \ {v} : vw2[u] = vw[u]
                BY <1>1, <1>2, <2>3, <3>1, <3>2 DEF IInv, Mine
            <3>5. slab1 \in Slab /\ SlabFits(slab1.entries, slab1.free, mine \ {v}, vw2)
                BY <3>3, <3>4, RemoveFits
            <3>6. plain' = [plain EXCEPT ![s] = slab1]
                BY <2>3, <3>1, <3>2, <3>3 DEF DropView
            <3>7. ASSUME NEW t \in Shard
                  PROVE  SlabFits(plain'[t].entries, plain'[t].free, Mine(view', t), view')
                <4>1. CASE t = s
                    BY <1>1, <1>3, <3>2, <3>5, <3>6, <4>1
                <4>2. CASE t # s
                    <5>1. v \notin Mine(view, t) /\ plain'[t] = plain[t]
                        BY <1>1, <3>1, <3>6, <4>2 DEF Mine
                    <5> QED BY <2>1, <5>1
                <4> QED BY <4>1, <4>2
            <3> QED BY <1>1, <3>5, <3>6, <3>7
        <2> QED BY <2>2, <2>3
    <1>5. atomics' \in Seq(Entry) /\ EntriesFit(atomics', Keyed(view'), view', next_id')
        <2>1. CASE v \notin Keyed(view)
            <3>1. Keyed(view') = Keyed(view) /\ atomics' = atomics
                BY <1>3, <2>1 DEF DropView, Keyed
            <3>2. \A u \in Keyed(view) : view'[u] = view[u]
                BY <1>2, <2>1 DEF Keyed
            <3>3. EntriesFit(atomics, Keyed(view), view', next_id)
                BY <3>2, EntriesSame DEF IInv
            <3> QED BY <1>1, <3>1, <3>3
        <2>2. CASE v \in Keyed(view)
            <3>1. PICK i : i = Position(view[v].id)
                OBVIOUS
            <3>2. \E k \in DOMAIN atomics : atomics[k].id = view[v].id
                BY <2>2 DEF IInv, EntriesFit, EntryOf
            <3>3. i \in DOMAIN atomics /\ atomics[i].id = view[v].id
                BY <3>1, <3>2 DEF Position
            <3>4. atomics' = SwapRemove(atomics, i)
                BY <2>2, <3>1 DEF DropView, Keyed
            <3>5. PICK A, keyed, vw, n, vw2 :
                    A = atomics /\ keyed = Keyed(view) /\ vw = view /\ n = next_id /\ vw2 = view'
                OBVIOUS
            <3>6. /\ A \in Seq(Entry) /\ n \in Nat /\ EntriesFit(A, keyed, vw, n) /\ v \in keyed
                  /\ \A u \in keyed \ {v} : vw2[u] = vw[u]
                  /\ i \in DOMAIN A /\ A[i].id = vw[v].id
                BY <1>1, <1>2, <2>2, <3>3, <3>5 DEF IInv, Keyed
            <3>7. SwapRemove(A, i) \in Seq(Entry) /\ EntriesFit(SwapRemove(A, i), keyed \ {v}, vw2, n)
                BY <3>6, RemoveEntry
            <3> QED BY <1>1, <1>3, <3>4, <3>5, <3>7
        <2> QED BY <2>1, <2>2
    <1>6. TypeOK'
        BY <1>1, <1>2, <1>4, <1>5 DEF IInv, TypeOK, DropView, UnlockRead, UnlockWrite, LockType
    <1>7. \A u \in View : Formed(view'[u], len')
        <2>1. Formed(NoView, len)
            BY DEF Formed, NoView
        <2> QED BY <1>1, <1>2, <2>1 DEF IInv
    <1>8. Locked'
        BY <1>2 DEF IInv, TypeOK, LockType, Locked, DropView, UnlockRead, UnlockWrite, NoView
    <1>9. NoConflict'
        <2>1. \A u \in View : ~Meet(view[u], NoView)
            BY DEF Meet, NoView
        <2>2. \A u \in View : u # v => Compatible(view[u], NoView) /\ Compatible(NoView, view[u])
            BY <2>1 DEF Compatible, NoView
        <2> QED BY <1>1, <2>2, Constants, PairsKept
    <1> QED BY <1>4, <1>5, <1>6, <1>7, <1>8, <1>9 DEF IInv

\* Division with remainder, and multiples, for any size d.
LEMMA Division ==
    ASSUME NEW a \in Nat, NEW d \in Nat \ {0}
    PROVE  /\ a \div d \in Nat /\ a % d \in Nat /\ a % d < d
           /\ a = (a \div d) * d + (a % d)
    OBVIOUS

LEMMA MultipleOf ==
    ASSUME NEW k \in Nat, NEW d \in Nat \ {0}
    PROVE  k * d \in Nat /\ (k * d) % d = 0 /\ (k > 0 => k * d > 0) /\ (k = 0 => k * d = 0)
    <1>1. k * d \in Nat /\ (k > 0 => k * d > 0) /\ (k = 0 => k * d = 0)
        OBVIOUS
    <1>2. (k * d) % d = 0
        OBVIOUS
    <1> QED BY <1>1, <1>2

\* Whole elements from an aligned start on end aligned.
LEMMA AlignedEnd ==
    ASSUME NEW a \in Nat, NEW k \in Nat, NEW d \in Nat \ {0}, a % d = 0
    PROVE  (a + k * d) % d = 0
    <1>1. a = (a \div d) * d /\ a \div d \in Nat
        BY Division
    <1>2. PICK q \in Nat : a = q * d
        BY <1>1
    <1>3. PICK m \in Nat : m = q + k
        OBVIOUS
    <1>4. a + k * d = m * d
        BY <1>2, <1>3
    <1>5. (m * d) % d = 0
        BY MultipleOf, Zenon
    <1> QED BY <1>4, <1>5

\* A sum or product that saturates is out of bounds, and one in bounds is exact.
LEMMA SaturationExact ==
    ASSUME NEW a \in Nat, NEW k \in Nat, NEW z \in ElemSize, len \in 0 .. MaxLen
    PROVE  /\ k * z \in Nat
           /\ saturating_add(a, saturating_mul(z, k)) =< len <=> a + k * z =< len
           /\ saturating_add(a, saturating_mul(z, k)) > len <=> a + k * z > len
           /\ a + k * z =< len => saturating_mul(z, k) = k * z
           /\ saturating_mul(z, k) \in Nat
           /\ saturating_mul(z, k) > 0 <=> k > 0
    <1>1. k * z \in Nat /\ z * k = k * z /\ (k > 0 => k * z > 0) /\ (k = 0 => k * z = 0)
        BY Constants, MultipleOf
    <1>2. PICK p \in Nat : p = k * z
        BY <1>1
    <1>3. saturating_mul(z, k) = IF p < UMax THEN p ELSE UMax
        BY <1>1, <1>2 DEF saturating_mul, Smaller
    <1>4. UMax \in Nat /\ MaxLen \in Nat /\ MaxLen < UMax /\ len \in Nat /\ len =< MaxLen
        BY Constants
    <1>5. /\ (p > 0 <=> k > 0)
        BY <1>1, <1>2
    <1>6. /\ saturating_add(a, saturating_mul(z, k)) =< len <=> a + p =< len
          /\ saturating_add(a, saturating_mul(z, k)) > len <=> a + p > len
          /\ a + p =< len => saturating_mul(z, k) = p
          /\ saturating_mul(z, k) \in Nat
          /\ saturating_mul(z, k) > 0 <=> p > 0
        <2>1. PICK m \in Nat : m = IF p < UMax THEN p ELSE UMax
            BY <1>4
        <2>2. /\ saturating_add(a, m) =< len <=> a + p =< len
              /\ saturating_add(a, m) > len <=> a + p > len
              /\ a + p =< len => m = p
              /\ m > 0 <=> p > 0
            BY <1>4, <2>1 DEF saturating_add, Smaller
        <2> QED BY <1>3, <2>1, <2>2
    <1> QED BY <1>1, <1>2, <1>5, <1>6

\* The calls of view_parts: a view is granted or nothing changes.
LEMMA ViewPartsInv ==
    ASSUME IInv, NEW v \in View, NEW off \in Nat, NEW k \in Nat, NEW z \in ElemSize,
           view_parts(v, off, k, z)
    PROVE  IInv'
    <1>1. len \in 0 .. MaxLen /\ len \in Nat /\ z \in Nat \ {0}
        BY Constants DEF IInv, TypeOK
    <1>2. CASE UNCHANGED <<map, atomics, next_id, view>>
        BY <1>1, <1>2, SameViewsInv DEF view_parts, registry
    <1>3. CASE ~UNCHANGED <<map, atomics, next_id, view>>
        <2>1. PICK n, b : n = saturating_mul(z, k) /\ b = off + n
            OBVIOUS
        <2>2. /\ view[v] = NoView /\ off % z = 0 /\ CanRead(map) /\ saturating_add(off, n) =< len
              /\ n > 0 => ~Mixed(off, b, z) /\ \A s \in Shard : ~SlabOverlaps(plain[s], off, b)
              /\ RegisterAtomic(v, off, b, z) /\ UNCHANGED <<len, plain>>
            BY <1>3, <2>1 DEF view_parts
        <2>3. n = k * z /\ k * z \in Nat /\ off + k * z =< len
            BY <1>1, <2>1, <2>2, SaturationExact
        <2>4. b \in Nat /\ off =< b /\ b =< len /\ (off < b => n > 0)
            BY <2>1, <2>3
        <2>5. b % z = 0
            BY <1>1, <2>1, <2>2, <2>3, AlignedEnd
        <2> QED BY <2>2, <2>4, <2>5, AtomicInv
    <1> QED BY <1>2, <1>3

LEMMA SliceCallInv ==
    ASSUME IInv, NEW v \in View, NEW op, NEW off \in Nat, NEW n \in Nat, NEW s \in Shard,
           SliceCall(v, op, off, n, s)
    PROVE  IInv'
    <1>1. len \in 0 .. MaxLen /\ len \in Nat
        BY Constants DEF IInv, TypeOK
    <1>2. CASE UNCHANGED <<map, plain, view>>
        BY <1>1, <1>2, SameViewsInv DEF SliceCall, registry
    <1>3. CASE ~UNCHANGED <<map, plain, view>>
        <2>1. /\ view[v] = NoView /\ n > 0 /\ off + n =< len /\ CanRead(map)
              /\ RegisterPlain(v, op, off, n, s) /\ UNCHANGED <<len, atomics, next_id>>
            BY <1>3 DEF SliceCall, slice_range
        <2>2. PICK b \in Nat : b = off + n
            OBVIOUS
        <2>3. off < b /\ b =< len
            BY <2>1, <2>2
        <2>4. CASE \E i \in DOMAIN atomics : overlaps(atomics[i].start, atomics[i].end, off, b)
            <3>1. /\ plain' = [plain EXCEPT ![s] = SlabRemove(SlabInsert(plain[s], <<off, b>>),
                                                              InsertedAt(plain[s]))]
                  /\ UNCHANGED <<map, view>>
                BY <2>1, <2>2, <2>4 DEF RegisterPlain
            <3> QED BY <2>1, <3>1, RefusedInv
        <2>5. CASE ~ \E i \in DOMAIN atomics : overlaps(atomics[i].start, atomics[i].end, off, b)
            <3>1. /\ plain' = [plain EXCEPT ![s] = SlabInsert(plain[s], <<off, b>>)]
                  /\ map' = LockRead(map, v)
                  /\ view' = [view EXCEPT ![v] = [NoView EXCEPT !.kind = "slice", !.start = off,
                                !.end = b, !.shard = s, !.slot = InsertedAt(plain[s])]]
                BY <2>1, <2>2, <2>5 DEF RegisterPlain
            <3> QED BY <2>1, <2>3, <2>5, <3>1, SliceInv
        <2> QED BY <2>4, <2>5
    <1> QED BY <1>2, <1>3

LEMMA MutCallInv ==
    ASSUME IInv, NEW v \in View, NEW op, NEW off \in Nat, NEW n \in Nat, MutCall(v, op, off, n)
    PROVE  IInv'
    <1>1. len \in 0 .. MaxLen /\ len \in Nat
        BY Constants DEF IInv, TypeOK
    <1>2. CASE UNCHANGED <<map, view>>
        BY <1>1, <1>2, SameViewsInv DEF MutCall, registry
    <1>3. CASE ~UNCHANGED <<map, view>>
        <2>1. PICK a \in Nat, b \in Nat :
                a = (IF n = 0 THEN 0 ELSE off) /\ b = (IF n = 0 THEN 0 ELSE off + n)
            OBVIOUS
        <2>2. /\ CanWrite(map) /\ map' = LockWrite(map, v) /\ UNCHANGED <<len, registry>>
              /\ view' = [view EXCEPT ![v] = [NoView EXCEPT !.kind = "mut", !.start = a, !.end = b]]
            BY <1>3, <2>1 DEF MutCall
        <2> QED BY <2>1, <2>2, MutInv
    <1> QED BY <1>2, <1>3

LEMMA NextInv ==
    ASSUME IInv, [Next]_vars
    PROVE  IInv'
    <1>1. len \in 0 .. MaxLen /\ len \in Nat /\ MaxLen \in Nat
        BY Constants DEF IInv, TypeOK
    <1>2. ASSUME NEW x \in 0 .. MaxLen + 1 PROVE x \in Nat
        BY <1>1
    <1>3. ASSUME NEW x \in U64 PROVE x \in Nat
        BY Constants DEF U64
    <1>4. ASSUME NEW n \in 0 .. MaxLen + 1, new(n) PROVE IInv'
        <2>1. UNCHANGED <<map, registry, view>> /\ len' \in 0 .. MaxLen /\ len =< len'
            BY <1>1, <1>4 DEF new, validated_len
        <2> QED BY <2>1, SameViewsInv
    <1>5. ASSUME NEW n \in 0 .. MaxLen + 1, with_huge_pages(n) PROVE IInv'
        BY <1>4, <1>5 DEF with_huge_pages
    <1>6. ASSUME NEW off \in U64, NEW n \in 0 .. MaxLen + 1,
                 \/ read_into(off, n) \/ touch(off, n)
                 \/ update_region(off, n) \/ try_update_region(off, n)
          PROVE  IInv'
        <2>1. UNCHANGED <<map, len, registry, view>>
            BY <1>6 DEF read_into, touch, update_region, try_update_region, UpdateCall
        <2> QED BY <1>1, <2>1, SameViewsInv
    <1>7. ASSUME NEW off \in U64, NEW n \in 0 .. MaxLen + 1, NEW v \in View, NEW s \in Shard,
                 as_slice(v, off, n, s) \/ try_as_slice(v, off, n, s)
          PROVE  IInv'
        BY <1>2, <1>3, <1>7, SliceCallInv DEF as_slice, try_as_slice
    <1>8. ASSUME NEW off \in U64, NEW n \in 0 .. MaxLen + 1, NEW v \in View,
                 as_mut_slice(v, off, n) \/ try_as_mut_slice(v, off, n)
          PROVE  IInv'
        BY <1>2, <1>3, <1>8, MutCallInv DEF as_mut_slice, try_as_mut_slice
    <1>9. ASSUME NEW off \in U64, NEW n \in 0 .. MaxLen + 1, NEW v \in View, NEW z \in ElemSize,
                 atomic_slice(v, off, n, z)
          PROVE  IInv'
        BY <1>2, <1>3, <1>9, ViewPartsInv DEF atomic_slice
    <1>10. ASSUME NEW off \in U64, NEW v \in View, NEW z \in ElemSize, atomic_view(v, off, z)
           PROVE  IInv'
        BY <1>3, <1>10, ViewPartsInv DEF atomic_view
    <1>11. CASE UNCHANGED vars
        BY <1>1, <1>11, SameViewsInv DEF vars
    <1> QED BY <1>4, <1>5, <1>6, <1>7, <1>8, <1>9, <1>10, <1>11, DropInv DEF Next

THEOREM Invariance ==
    Spec => []IInv
    <1>1. IInv /\ [Next]_vars => IInv'
        BY NextInv
    <1> QED BY <1>1, InitInv, PTL DEF Spec

-----------------------------------------------------------------------------
(***************************************************************************)
(* Results about the registry                                              *)
(***************************************************************************)

\* As many of one as of the other, when they match one to one
LEMMA SameNumber ==
    ASSUME NEW S, NEW T, IsFiniteSet(S), NEW f, f \in [S -> T],
           \A x, y \in S : f[x] = f[y] => x = y,
           \A t \in T : \E x \in S : f[x] = t
    PROVE  Cardinality(S) = Cardinality(T)
    <1>1. f \in Bijection(S, T)
        BY DEF Bijection, Injection, Surjection, IsInjective
    <1>2. ExistsBijection(S, T)
        BY <1>1 DEF ExistsBijection
    <1> QED BY <1>2, FS_Bijection

LEMMA RegistrationsFollow ==
    IInv => RegistrationsMatch
    <1> SUFFICES ASSUME IInv PROVE RegistrationsMatch
        OBVIOUS
    <1> DEFINE slices == {v \in View : view[v].kind = "slice"}
               keyed  == {v \in View : view[v].kind = "atomic" /\ view[v].id # -1}
    <1>1. ASSUME NEW s \in Shard
          PROVE  LET slab == plain[s]
                     used == {i \in DOMAIN slab.entries : slab.entries[i] # Free}
                     mine == {v \in slices : view[v].shard = s}
                 IN  /\ used = {view[v].slot : v \in mine}
                     /\ \A v \in mine : slab.entries[view[v].slot] = <<view[v].start, view[v].end>>
                     /\ Cardinality(mine) = Cardinality(used)
                     /\ ToSet(slab.free) = DOMAIN slab.entries \ used
                     /\ IsInjective(slab.free)
        <2> DEFINE E == plain[s].entries  F == plain[s].free
                   used == {i \in DOMAIN E : E[i] # Free}
                   mine == {v \in slices : view[v].shard = s}
        <2>1. mine = Mine(view, s) /\ mine \subseteq View
            BY DEF Mine
        <2>2. SlabFits(E, F, mine, view)
            BY <2>1 DEF IInv
        <2>3. \A v \in mine : view[v].slot \in DOMAIN E /\ E[view[v].slot] # Free
            BY <2>2, FitsUsed
        <2> HIDE DEF E, F, slices, mine
        <2>4. used = {view[v].slot : v \in mine}
            BY <2>2, <2>3 DEF SlabFits
        <2>5. \A v \in mine : E[view[v].slot] = <<view[v].start, view[v].end>>
            BY <2>2 DEF SlabFits
        <2>6. Cardinality(mine) = Cardinality(used)
            <3>1. IsFiniteSet(mine)
                BY <2>1, ViewAssumption, FS_Subset
            <3>2. PICK f : f = [v \in mine |-> view[v].slot]
                OBVIOUS
            <3>3. f \in [mine -> used]
                BY <2>3, <3>2
            <3>4. \A x, y \in mine : f[x] = f[y] => x = y
                BY <2>2, <3>2 DEF SlabFits
            <3>5. \A t \in used : \E x \in mine : f[x] = t
                BY <2>4, <3>2
            <3> HIDE DEF used
            <3> QED BY <3>1, <3>3, <3>4, <3>5, SameNumber
        <2>7. ToSet(F) = DOMAIN E \ used
            BY <2>2 DEF SlabFits, ToSet
        <2>8. IsInjective(F)
            BY <2>2 DEF SlabFits, IsInjective
        <2> QED BY <2>4, <2>5, <2>6, <2>7, <2>8 DEF E, F, mine
    <1>2. keyed = Keyed(view) /\ EntriesFit(atomics, keyed, view, next_id) /\ keyed \subseteq View
        BY DEF Keyed, IInv
    <1>3. Len(atomics) \in Nat /\ DOMAIN atomics = 1 .. Len(atomics)
        BY SeqIndex DEF IInv, TypeOK
    <1> HIDE DEF keyed
    <1>4. Len(atomics) = Cardinality(keyed)
        <2>1. IsFiniteSet(keyed)
            BY <1>2, ViewAssumption, FS_Subset
        <2>2. PICK f : f = [v \in keyed |-> CHOOSE i \in DOMAIN atomics : atomics[i] = EntryOf(view[v])]
            OBVIOUS
        <2>3. \A v \in keyed : f[v] \in DOMAIN atomics /\ atomics[f[v]] = EntryOf(view[v])
            BY <1>2, <2>2 DEF EntriesFit
        <2>4. \A v \in keyed : EntryOf(view[v]).id = view[v].id
            BY DEF EntryOf
        <2>5. f \in [keyed -> 1 .. Len(atomics)]
            BY <1>3, <2>2, <2>3
        <2>6. \A x, y \in keyed : f[x] = f[y] => x = y
            <3> SUFFICES ASSUME NEW x \in keyed, NEW y \in keyed, f[x] = f[y] PROVE x = y
                OBVIOUS
            <3>1. view[x].id = view[y].id
                BY <2>3, <2>4, Zenon
            <3> QED BY <1>2, <3>1 DEF EntriesFit
        <2>7. \A t \in 1 .. Len(atomics) : \E x \in keyed : f[x] = t
            <3> SUFFICES ASSUME NEW t \in DOMAIN atomics PROVE \E x \in keyed : f[x] = t
                BY <1>3
            <3>1. PICK x \in keyed : view[x].id = atomics[t].id
                BY <1>2 DEF EntriesFit
            <3>2. atomics[f[x]].id = atomics[t].id /\ f[x] \in DOMAIN atomics
                BY <2>3, <2>4, <3>1, Zenon
            <3> QED BY <1>2, <3>2 DEF EntriesFit
        <2>8. Cardinality(keyed) = Cardinality(1 .. Len(atomics))
            BY <2>1, <2>5, <2>6, <2>7, SameNumber
        <2>9. \A n \in Nat : Cardinality(1 .. n) = n
            BY FS_Interval
        <2> QED BY <1>3, <2>8, <2>9
    <1>5. \A v \in keyed : \E i \in DOMAIN atomics :
            atomics[i] = [start |-> view[v].start, end |-> view[v].end,
                          size |-> view[v].size, id |-> view[v].id]
        BY <1>2 DEF EntriesFit, EntryOf
    <1> QED BY <1>1, <1>4, <1>5 DEF RegistrationsMatch, keyed

\* Slots, entries and live views match one to one at all times: no view loses
\* its registration to the drop of another one, whatever slots are used again
\* and whatever entries swap_remove moves.
THEOREM OneToOne ==
    Spec => []RegistrationsMatch
    BY Invariance, RegistrationsFollow, PTL

\* No mutable slice beside another view, no slice over an atomic view, and no
\* byte under atomic views of two element sizes, for any number of views.
THEOREM ViewsApart ==
    Spec => []NoConflict
    <1>1. IInv => NoConflict
        BY DEF IInv
    <1> QED BY <1>1, Invariance, PTL

-----------------------------------------------------------------------------
(***************************************************************************)
(* The calls keep the rules for views                                      *)
(***************************************************************************)

\* What ViewRules sees of a view
Seen(w) == [kind |-> w.kind, start |-> w.start, end |-> w.end, size |-> w.size]

\* The bytes from a up to b
Span(a, b) == [start |-> a, end |-> b]

\* Who is alive, as the lock and as the rules say it
LEMMA RulesLock ==
    ASSUME IInv
    PROVE  /\ Rules!Exclusive <=> ~CanRead(map)
           /\ Rules!Occupied <=> ~CanWrite(map)
           /\ \A v \in View : view[v] = NoView <=> Seen(view[v]) = Rules!NoView
    <1>1. \A v \in View : view[v].kind = "none" <=> view[v] = NoView
        BY LockTells
    <1>2. Rules!Exclusive <=> \E v \in View : view[v].kind = "mut"
        BY DEF Rules!Exclusive, Rules!Is
    <1>3. Rules!Occupied <=> \E v \in View : view[v].kind # "none"
        BY DEF Rules!Occupied
    <1>4. \A v \in View : Seen(view[v]) = Rules!NoView <=> view[v] = NoView
        BY <1>1 DEF Seen, Rules!NoView, NoView
    <1> QED BY <1>2, <1>3, <1>4, LockTells

\* What is in the way of a range, as the views and as the rules say it
LEMMA RulesOver ==
    ASSUME NEW a, NEW b, NEW k
    PROVE  Rules!Over(k, a, b) = {v \in View : view[v].kind = k /\ Meet(view[v], Span(a, b))}
    BY DEF Rules!Over, Rules!Is, Meet, Span

LEMMA RulesOverViews ==
    ASSUME NEW k, NEW a, NEW b, NEW v \in Rules!Over(k, a, b)
    PROVE  v \in View
    BY DEF Rules!Over, Rules!Is

\* The conditions of register_plain and register_atomic are the rules' own.
LEMMA RulesConflicts ==
    ASSUME IInv, NEW a \in Nat, NEW b \in Nat, a < b
    PROVE  /\ \A z : Mixed(a, b, z) <=> \E v \in Rules!Over("atomic", a, b) : Seen(view[v]).size # z
           /\ (\E i \in DOMAIN atomics : overlaps(atomics[i].start, atomics[i].end, a, b))
                <=> Rules!Over("atomic", a, b) # {}
           /\ (\E s \in Shard : SlabOverlaps(plain[s], a, b)) <=> Rules!Over("slice", a, b) # {}
    <1>1. PICK x : x = Span(a, b)
        OBVIOUS
    <1>2. x.start = a /\ x.end = b
        BY <1>1 DEF Span
    <1>3. \A v \in View : Seen(view[v]).size = view[v].size
        BY DEF Seen
    <1>4. /\ \A z : Mixed(a, b, z) <=> \E v \in View : /\ view[v].kind = "atomic" /\ view[v].size # z
                                                        /\ Meet(view[v], x)
          /\ (\E i \in DOMAIN atomics : overlaps(atomics[i].start, atomics[i].end, a, b))
               <=> \E v \in View : view[v].kind = "atomic" /\ Meet(view[v], x)
          /\ (\E s \in Shard : SlabOverlaps(plain[s], a, b))
               <=> \E v \in View : view[v].kind = "slice" /\ Meet(view[v], x)
        BY <1>2, ConflictsFound DEF Mixed
    <1>5. \A k : Rules!Over(k, a, b) = {v \in View : view[v].kind = k /\ Meet(view[v], x)}
        BY <1>1, RulesOver
    <1> QED BY <1>3, <1>4, <1>5

\* Making and dropping a view, as the rules see it
LEMMA RulesMake ==
    ASSUME IInv, NEW v \in View, NEW w, view' = [view EXCEPT ![v] = w]
    PROVE  Rules!Make(v, w.kind, w.start, w.end, w.size)
    BY DEF Rules!Make, IInv, TypeOK

LEMMA InitRules ==
    Init => Rules!Init
    BY DEF Init, Rules!Init, NoView, Rules!NoView, Rules!NoAnswer

LEMMA NewRules ==
    ASSUME NEW n, new(n)
    PROVE  Rules!Next
    <1>1. answer'.op = "new" /\ answer'.len = n
        BY DEF new, Reply, Result
    <1>2. Rules!New(n)
        BY DEF new, Reply, Result, validated_len, Rules!New, Rules!Reply
    <1> QED BY <1>1, <1>2 DEF Rules!Next

LEMMA UpdateRules ==
    ASSUME IInv, NEW op \in {"update", "try_update"}, NEW off \in Nat, NEW n \in Nat,
           UpdateCall(op, off, n)
    PROVE  Rules!Next
    <1>1. answer'.op = op /\ answer'.off = off /\ answer'.len = n
        BY DEF UpdateCall, Reply, Result
    <1>2. len \in Nat /\ len < UMax
        BY Constants DEF IInv, TypeOK
    <1>3. slice_range(off, n) <=> Rules!InBounds(off, n)
        BY <1>2, Constants DEF slice_range, Rules!InBounds
    <1>4. Rules!Update(op, off, n)
        BY <1>3, RulesLock DEF UpdateCall, Reply, Result, Rules!Update, Rules!Reply
    <1> QED BY <1>1, <1>4 DEF Rules!Next

LEMMA DropRules ==
    ASSUME IInv, NEW v \in View, DropView(v)
    PROVE  Rules!Next
    <1>1. Seen(view[v]) # Rules!NoView
        BY RulesLock DEF DropView
    <1>2. Rules!Make(v, "none", 0, 0, 0)
        <2>1. view' = [view EXCEPT ![v] = NoView]
            BY DEF DropView
        <2>2. Rules!Make(v, NoView.kind, NoView.start, NoView.end, NoView.size)
            BY <2>1, RulesMake
        <2> QED BY <2>2 DEF NoView
    <1>3. Rules!Drop(v)
        BY <1>1, <1>2 DEF Rules!Drop, Rules!Make, Rules!NoView, Seen, DropView
    <1> QED BY <1>3 DEF Rules!Next

\* In bounds, with a sum that cannot overflow and with any sum
LEMMA RulesBounds ==
    ASSUME IInv, NEW off \in Nat, NEW n \in Nat
    PROVE  /\ slice_range(off, n) <=> off + n =< len
           /\ Rules!InBounds(off, n) <=> off + n =< len
           /\ len \in Nat
    <1>1. len \in Nat /\ len < UMax
        BY Constants DEF IInv, TypeOK
    <1> QED BY <1>1, Constants DEF slice_range, Rules!InBounds

LEMMA SliceRules ==
    ASSUME IInv, NEW v \in View, NEW op \in {"slice", "try_slice"}, NEW off \in Nat, NEW n \in Nat,
           NEW s \in Shard, SliceCall(v, op, off, n, s)
    PROVE  Rules!Next
    <1>1. answer'.op = op /\ answer'.off = off /\ answer'.len = n
        BY DEF SliceCall, RegisterPlain, Reply, Result
    <1>2. /\ slice_range(off, n) <=> Rules!InBounds(off, n)
          /\ Rules!Exclusive <=> ~CanRead(map)
          /\ len > 0 /\ len' = len /\ view[v] = NoView
        BY RulesBounds, RulesLock DEF SliceCall
    <1>3. Rules!Slice(op, off, n)
        <2>1. CASE n = 0
            BY <1>2, <2>1 DEF SliceCall, Reply, Result, Rules!Slice, Rules!Reply
        <2>2. CASE n > 0 /\ ~slice_range(off, n)
            BY <1>2, <2>2 DEF SliceCall, Reply, Result, Rules!Slice, Rules!Reply
        <2>3. CASE n > 0 /\ slice_range(off, n) /\ ~CanRead(map)
            BY <1>2, <2>3 DEF SliceCall, Reply, Result, Rules!Slice, Rules!Reply
        <2>4. CASE n > 0 /\ slice_range(off, n) /\ CanRead(map)
            <3>1. RegisterPlain(v, op, off, n, s)
                BY <2>4 DEF SliceCall
            <3>2. PICK b \in Nat : b = off + n /\ off < b
                BY <2>4
            <3>3. (\E i \in DOMAIN atomics : overlaps(atomics[i].start, atomics[i].end, off, b))
                    <=> Rules!Over("atomic", off, b) # {}
                BY <3>2, RulesConflicts
            <3>4. CASE Rules!Over("atomic", off, b) # {}
                <4>1. Reply(op, off, n, "AtomicLive") /\ UNCHANGED view
                    BY <3>1, <3>2, <3>3, <3>4 DEF RegisterPlain
                <4>2. Rules!Reply(op, off, n, "AtomicLive")
                    BY <4>1 DEF Reply, Result, Rules!Reply
                <4> QED BY <1>2, <2>4, <3>2, <3>4, <4>1, <4>2 DEF Rules!Slice
            <3>5. CASE Rules!Over("atomic", off, b) = {}
                <4>1. PICK w : w = [NoView EXCEPT !.kind = "slice", !.start = off, !.end = b,
                                      !.shard = s, !.slot = InsertedAt(plain[s])]
                    OBVIOUS
                <4>2. Reply(op, off, n, "Ok") /\ view' = [view EXCEPT ![v] = w]
                    BY <3>1, <3>2, <3>3, <3>5, <4>1 DEF RegisterPlain
                <4>3. w.kind = "slice" /\ w.start = off /\ w.end = b /\ w.size = 0
                    BY <4>1 DEF NoView
                <4>4. Rules!Make(v, "slice", off, b, 0)
                    BY <4>2, <4>3, RulesMake
                <4>5. Rules!Reply(op, off, n, "Ok")
                    BY <4>2 DEF Reply, Result, Rules!Reply
                <4>6. Seen(view[v]) = Rules!NoView
                    BY <1>2, RulesLock
                <4> QED BY <1>2, <2>4, <3>2, <3>5, <4>4, <4>5, <4>6 DEF Rules!Slice, Seen
            <3> QED BY <3>4, <3>5
        <2> QED BY <2>1, <2>2, <2>3, <2>4
    <1> QED BY <1>1, <1>3 DEF Rules!Next, Rules!Slice

LEMMA MutRules ==
    ASSUME IInv, NEW v \in View, NEW op \in {"mut", "try_mut"}, NEW off \in Nat, NEW n \in Nat,
           MutCall(v, op, off, n)
    PROVE  Rules!Next
    <1>1. answer'.op = op /\ answer'.off = off /\ answer'.len = n
        BY DEF MutCall, Reply, Result
    <1>2. /\ slice_range(off, n) <=> Rules!InBounds(off, n)
          /\ Rules!Occupied <=> ~CanWrite(map)
          /\ len > 0 /\ len' = len
        BY RulesBounds, RulesLock DEF MutCall
    <1>3. Rules!MutSlice(op, off, n)
        <2>1. CASE n > 0 /\ ~slice_range(off, n)
            BY <1>2, <2>1 DEF MutCall, Reply, Result, Rules!MutSlice, Rules!Reply
        <2>2. CASE (n = 0 \/ slice_range(off, n)) /\ ~CanWrite(map)
            BY <1>2, <2>2 DEF MutCall, Reply, Result, Rules!MutSlice, Rules!Reply
        <2>3. CASE (n = 0 \/ slice_range(off, n)) /\ CanWrite(map)
            <3>1. PICK a \in Nat, b \in Nat :
                    a = (IF n = 0 THEN 0 ELSE off) /\ b = (IF n = 0 THEN 0 ELSE off + n)
                OBVIOUS
            <3>2. PICK w : w = [NoView EXCEPT !.kind = "mut", !.start = a, !.end = b]
                OBVIOUS
            <3>3. view' = [view EXCEPT ![v] = w] /\ Reply(op, off, n, "Ok")
                BY <2>3, <3>1, <3>2 DEF MutCall
            <3>4. w.kind = "mut" /\ w.start = a /\ w.end = b /\ w.size = 0
                BY <3>2 DEF NoView
            <3>5. Rules!Make(v, "mut", a, b, 0)
                BY <3>3, <3>4, RulesMake
            <3>6. IF n = 0 THEN Rules!Make(v, "mut", 0, 0, 0) ELSE Rules!Make(v, "mut", off, off + n, 0)
                BY <3>1, <3>5
            <3>7. Rules!Reply(op, off, n, "Ok")
                BY <3>3 DEF Reply, Result, Rules!Reply
            <3> QED BY <1>2, <2>3, <3>6, <3>7 DEF Rules!MutSlice
        <2> QED BY <2>1, <2>2, <2>3
    <1> QED BY <1>1, <1>3 DEF Rules!Next, Rules!MutSlice

LEMMA AtomicRules ==
    ASSUME IInv, NEW v \in View, NEW off \in Nat, NEW k \in Nat, NEW z \in ElemSize,
           view_parts(v, off, k, z)
    PROVE  Rules!Next
    <1>1. PICK n, b : n = saturating_mul(z, k) /\ b = off + n
        OBVIOUS
    <1>2. /\ answer'.op = "atomic" /\ answer'.off = off /\ answer'.len = k /\ answer'.size = z
          /\ len > 0 /\ len' = len /\ view[v] = NoView
        BY DEF view_parts, Result
    <1>3. PICK res : /\ answer' = [op |-> "atomic", off |-> off, len |-> k, size |-> z, res |-> res,
                                   val |-> <<>>, loads |-> {}]
                     /\ Result("atomic", off, k, z, res, <<>>, {})
        BY DEF view_parts, Result
    <1>4. len \in 0 .. MaxLen
        BY DEF IInv, TypeOK
    <1>5. PICK e \in Nat : e = off + k * z
        BY Constants, MultipleOf
    <1>6. /\ saturating_add(off, n) =< len <=> e =< len
          /\ saturating_add(off, n) > len <=> e > len
          /\ e =< len => b = e
          /\ n > 0 <=> k > 0
          /\ e =< len /\ k > 0 => off < e
        <2>1. /\ k * z \in Nat
              /\ saturating_add(off, n) =< len <=> off + k * z =< len
              /\ saturating_add(off, n) > len <=> off + k * z > len
              /\ off + k * z =< len => n = k * z
              /\ n \in Nat
              /\ n > 0 <=> k > 0
            BY <1>1, <1>4, SaturationExact
        <2> QED BY <1>1, <1>5, <2>1
    <1>7. \/ off % z # 0 /\ res = "Misaligned" /\ UNCHANGED view
          \/ /\ off % z = 0 /\ CanRead(map)
             /\ \/ e > len /\ res = "OutOfBounds" /\ UNCHANGED view
                \/ e =< len /\ k > 0 /\ Mixed(off, e, z) /\ res = "MixedSize" /\ UNCHANGED view
                \/ /\ e =< len /\ k > 0 /\ ~Mixed(off, e, z)
                   /\ \E s \in Shard : SlabOverlaps(plain[s], off, e)
                   /\ res = "PlainLive" /\ UNCHANGED view
                \/ /\ e =< len
                   /\ k > 0 => /\ ~Mixed(off, e, z)
                               /\ ~ \E s \in Shard : SlabOverlaps(plain[s], off, e)
                   /\ RegisterAtomic(v, off, e, z) /\ res = "Ok"
        <2>1. \A why : Result("atomic", off, k, z, why, <<>>, {}) => why = res
            BY <1>3 DEF Result
        <2> QED BY <1>1, <1>6, <2>1 DEF view_parts
    <1>8. k > 0 /\ e =< len =>
            /\ Mixed(off, e, z) <=> \E u \in Rules!Over("atomic", off, e) : Seen(view[u]).size # z
            /\ (\E s \in Shard : SlabOverlaps(plain[s], off, e)) <=> Rules!Over("slice", off, e) # {}
        BY <1>5, <1>6, RulesConflicts
    <1>9. Rules!Exclusive <=> ~CanRead(map)
        BY RulesLock
    <1>10. e = answer'.off + answer'.len * answer'.size
        BY <1>2, <1>5
    <1>11. /\ answer'.op = "atomic"
           /\ answer' = [op |-> "atomic", off |-> answer'.off, len |-> answer'.len,
                         size |-> answer'.size, res |-> res, val |-> <<>>, loads |-> {}]
        BY <1>3
    <1>12. CASE UNCHANGED view
        <2>1. \/ answer'.off % answer'.size # 0 /\ res = "Misaligned"
              \/ /\ answer'.off % answer'.size = 0 /\ ~Rules!Exclusive
                 /\ \/ e > len /\ res = "OutOfBounds"
                    \/ /\ e =< len /\ answer'.len > 0
                       /\ \E u \in Rules!Over("atomic", answer'.off, e) :
                            Seen(view[u]).size # answer'.size
                       /\ res = "MixedSize"
                    \/ /\ e =< len /\ answer'.len > 0
                       /\ \A u \in Rules!Over("atomic", answer'.off, e) :
                            Seen(view[u]).size = answer'.size
                       /\ Rules!Over("slice", answer'.off, e) # {}
                       /\ res = "PlainLive"
            <3>1. view'[v] = view[v]
                BY <1>12
            <3>2. ~RegisterAtomic(v, off, e, z)
                <4> SUFFICES ASSUME RegisterAtomic(v, off, e, z) PROVE FALSE
                    OBVIOUS
                <4>1. view'[v] = [NoView EXCEPT !.kind = "atomic", !.start = off, !.end = e,
                                    !.size = z, !.id = IF off = e THEN -1 ELSE next_id]
                    BY DEF RegisterAtomic, IInv, TypeOK
                <4>2. view'[v].kind = "atomic"
                    BY <4>1 DEF NoView
                <4> QED BY <1>2, <3>1, <4>2 DEF NoView
            <3> QED BY <1>2, <1>7, <1>8, <1>9, <3>2
        <2>2. Rules!Atomic(answer'.off, answer'.len, answer'.size)
            BY <1>2, <1>10, <1>11, <1>12, <2>1, RulesOverViews DEF Rules!Atomic, Seen
        <2> QED BY <1>11, <2>2 DEF Rules!Next
    <1>13. CASE ~UNCHANGED view
        <2>1. /\ answer'.off % answer'.size = 0 /\ ~Rules!Exclusive
              /\ e =< len
              /\ answer'.len > 0 =>
                   /\ \A u \in Rules!Over("atomic", answer'.off, e) :
                        Seen(view[u]).size = answer'.size
                   /\ Rules!Over("slice", answer'.off, e) = {}
              /\ RegisterAtomic(v, off, e, z) /\ res = "Ok"
            BY <1>2, <1>7, <1>8, <1>9, <1>13
        <2>2. PICK w : w = [NoView EXCEPT !.kind = "atomic", !.start = off, !.end = e, !.size = z,
                                          !.id = IF off = e THEN -1 ELSE next_id]
            OBVIOUS
        <2>3. view' = [view EXCEPT ![v] = w]
            BY <2>1, <2>2 DEF RegisterAtomic
        <2>4. w.kind = "atomic" /\ w.start = off /\ w.end = e /\ w.size = z
            BY <2>2 DEF NoView
        <2>5. Rules!Make(v, "atomic", off, e, z)
            BY <2>3, <2>4, RulesMake
        <2>6. Seen(view[v]) = Rules!NoView
            BY <1>2, RulesLock
        <2>7. \E u \in View : Seen(view[u]) = Rules!NoView
                              /\ Rules!Make(u, "atomic", answer'.off, e, answer'.size)
            BY <1>2, <2>5, <2>6 DEF Rules!Make
        <2>8. Rules!Atomic(answer'.off, answer'.len, answer'.size)
            BY <1>2, <1>10, <1>11, <2>1, <2>7, RulesOverViews DEF Rules!Atomic, Seen
        <2> QED BY <1>11, <2>8 DEF Rules!Next
    <1> QED BY <1>12, <1>13

\* A set of numbers that is not empty has a smallest one.
LEMMA Smallest ==
    ASSUME NEW I \in SUBSET Nat, I # {}
    PROVE  Min(I) \in I /\ \A y \in I : Min(I) =< y
    <1> DEFINE Below == {p \in Nat \X Nat : p[1] < p[2]}
    <1>1. IsWellFoundedOn(Below, Nat)
        BY NatLessThanWellFounded, Zenon DEF OpToRel
    <1>2. PICK x \in I : \A y \in I : ~(<<y, x>> \in Below)
        BY <1>1, WFMin, Zenon
    <1>3. ASSUME NEW y \in I PROVE x =< y
        <2>1. y < x => <<y, x>> \in Below
            OBVIOUS
        <2>2. ~(y < x)
            BY <1>2, <2>1
        <2> QED BY <2>2
    <1> QED BY <1>3 DEF Min

\* The element of size d that holds byte b lies inside of whole elements.
LEMMA ElementInside ==
    ASSUME NEW a \in Nat, NEW e \in Nat, NEW b \in Nat, NEW d \in Nat \ {0},
           a % d = 0, e % d = 0, a =< b, b < e
    PROVE  /\ a =< b - (b % d) /\ b - (b % d) + d =< e
           /\ ((b - (b % d)) - a) % d = 0
    <1>1. PICK q \in Nat : a = q * d
        <2>1. a \div d \in Nat /\ a = (a \div d) * d
            BY Division
        <2> QED BY <2>1, Zenon
    <1>2. PICK p \in Nat : e = p * d
        <2>1. e \div d \in Nat /\ e = (e \div d) * d
            BY Division
        <2> QED BY <2>1, Zenon
    <1>3. PICK k \in Nat, r \in Nat : k = b \div d /\ r = b % d /\ b = k * d + r /\ r < d
        BY Division
    <1>4. q =< k
        <2>1. q * d < (k + 1) * d
            BY <1>1, <1>3
        <2>2. ASSUME NEW x \in Nat, NEW y \in Nat, x * d < y * d PROVE x < y
            BY <2>2
        <2>3. q < k + 1
            BY <2>1, <2>2
        <2> QED BY <2>3
    <1>5. k + 1 =< p
        <2>1. k * d < p * d
            BY <1>2, <1>3
        <2>2. ASSUME NEW x \in Nat, NEW y \in Nat, x * d < y * d PROVE x < y
            BY <2>2
        <2> QED BY <2>1, <2>2
    <1>6. ASSUME NEW x \in Nat, NEW y \in Nat, x =< y PROVE x * d =< y * d
        BY <1>6
    <1>7. q * d =< k * d /\ (k + 1) * d =< p * d
        BY <1>4, <1>5, <1>6
    <1>8. b - (b % d) = k * d
        BY <1>3
    <1>9. PICK m \in Nat : m = k - q
        BY <1>4
    <1>10. k * d - q * d = m * d
        BY <1>9
    <1>11. (m * d) % d = 0
        BY MultipleOf, Zenon
    <1> QED BY <1>1, <1>2, <1>7, <1>8, <1>10, <1>11

LEMMA AlignedInside ==
    ASSUME NEW a \in Nat, NEW e \in Nat, NEW x \in Nat, NEW d \in Nat \ {0},
           a % d = 0, e % d = 0, x % d = 0, a =< x, x < e
    PROVE  x + d =< e /\ (x - a) % d = 0
    <1>1. /\ a =< x - (x % d) /\ x - (x % d) + d =< e
          /\ ((x - (x % d)) - a) % d = 0
        BY ElementInside, Zenon
    <1>2. x - (x % d) = x
        OBVIOUS
    <1> QED BY <1>1, <1>2

\* The pages of touch: the last one begins inside of the range.
LEMMA PagesCover ==
    ASSUME NEW n \in Nat, NEW d \in Nat \ {0}, n > 0
    PROVE  LET p == (n + d - 1) \div d
           IN  p \in Nat /\ p * d >= n /\ (p - 1) * d < n
    <1>1. PICK m \in Nat : m = n + d - 1
        OBVIOUS
    <1>2. PICK p \in Nat, r \in Nat : p = m \div d /\ m = p * d + r /\ r < d
        BY Division
    <1>3. p * d = n + d - 1 - r /\ (p - 1) * d = p * d - d /\ p * d \in Nat
        BY <1>1, <1>2
    <1>4. p * d >= n /\ (p - 1) * d < n
        BY <1>2, <1>3
    <1> QED BY <1>1, <1>2, <1>4

\* Where touch finds byte b in the vector of entries, and the width it reads with
First(b)  == SelectInSeq(atomics, LAMBDA a : a.start <= b /\ b < a.end)
WidthOf(b) == IF First(b) = 0 THEN 0 ELSE atomics[First(b)].size

LEMMA FirstFound ==
    ASSUME IInv, NEW b \in Nat
    PROVE  /\ First(b) # 0 => First(b) \in DOMAIN atomics /\ atomics[First(b)].start =< b
                              /\ b < atomics[First(b)].end
           /\ First(b) = 0 => \A i \in DOMAIN atomics : ~(atomics[i].start =< b /\ b < atomics[i].end)
    <1>1. Len(atomics) \in Nat /\ DOMAIN atomics = 1 .. Len(atomics)
        BY SeqIndex DEF IInv, TypeOK
    <1> DEFINE I == {i \in 1 .. Len(atomics) : atomics[i].start <= b /\ b < atomics[i].end}
    <1>2. First(b) = IF I # {} THEN Min(I) ELSE 0
        BY DEF First, SelectInSeq
    <1>3. I \in SUBSET Nat /\ 0 \notin I
        BY <1>1
    <1>4. I # {} => Min(I) \in I
        BY <1>3, Smallest
    <1> QED BY <1>1, <1>2, <1>3, <1>4

\* All atomic views over a byte have one element size, the one that touch finds.
LEMMA OneWidth ==
    ASSUME IInv, NEW b \in Nat
    PROVE  /\ First(b) # 0 => \E v \in View : /\ view[v].kind = "atomic"
                                              /\ view[v].start =< b /\ b < view[v].end
                                              /\ view[v].size = WidthOf(b)
           /\ WidthOf(b) = Rules!Width(b)
    <1>1. \A v \in View : view[v] \in ViewType
        BY DEF IInv, TypeOK
    <1> DEFINE Covers(v) == view[v].kind = "atomic" /\ view[v].start =< b /\ b < view[v].end
    <1>2. PICK over : over = Rules!Over("atomic", b, b + 1)
        OBVIOUS
    <1>3. over = {v \in View : Covers(v)}
        <2>1. over = {v \in View : view[v].kind = "atomic" /\ Meet(view[v], Span(b, b + 1))}
            BY <1>2, RulesOver
        <2>2. ASSUME NEW v \in View
              PROVE  Meet(view[v], Span(b, b + 1)) <=> view[v].start =< b /\ b < view[v].end
            <3>1. view[v].start \in Nat /\ view[v].end \in Nat
                BY <1>1 DEF ViewType
            <3> QED BY <3>1 DEF Meet, Span
        <2> QED BY <2>1, <2>2
    <1>4. ASSUME NEW v \in over, NEW w \in over PROVE view[v].size = view[w].size
        <2>1. v \in View /\ w \in View /\ Covers(v) /\ Covers(w)
            BY <1>3
        <2>2. Meet(view[v], view[w])
            <3>1. /\ view[v].start \in Nat /\ view[v].end \in Nat
                  /\ view[w].start \in Nat /\ view[w].end \in Nat
                BY <1>1, <2>1 DEF ViewType
            <3> QED BY <2>1, <3>1 DEF Meet
        <2> QED BY <2>1, <2>2 DEF IInv, NoConflict
    <1>5. Rules!Width(b) = IF over = {} THEN 0 ELSE view[CHOOSE v \in over : TRUE].size
        BY <1>2, <1>3 DEF Rules!Width
    <1>6. CASE First(b) # 0
        <2>1. PICK i \in DOMAIN atomics : i = First(b) /\ atomics[i].start =< b /\ b < atomics[i].end
            BY <1>6, FirstFound
        <2>2. PICK v \in View : view[v].kind = "atomic" /\ atomics[i] = EntryOf(view[v])
            BY Entered
        <2>3. Covers(v) /\ view[v].size = WidthOf(b)
            BY <1>6, <2>1, <2>2 DEF EntryOf, WidthOf
        <2>4. v \in over
            BY <1>3, <2>3
        <2>5. view[CHOOSE w \in over : TRUE].size = view[v].size
            BY <1>4, <2>4
        <2> QED BY <1>5, <2>3, <2>4, <2>5
    <1>7. CASE First(b) = 0
        <2>1. ASSUME NEW v \in View, Covers(v) PROVE FALSE
            <3>1. view[v].start < view[v].end
                BY <1>1, <2>1 DEF ViewType
            <3>2. PICK i \in DOMAIN atomics : atomics[i] = EntryOf(view[v])
                BY <2>1, <3>1, Entered
            <3> QED BY <1>7, <2>1, <3>2, FirstFound DEF EntryOf
        <2>2. over = {}
            BY <1>3, <2>1
        <2> QED BY <1>5, <1>7, <2>2 DEF WidthOf
    <1> QED BY <1>6, <1>7

\* The element that touch loads is one of a live view.
LEMMA TouchLoads ==
    ASSUME IInv, NEW b \in Nat, First(b) # 0
    PROVE  Rules!Element([elem |-> b - (b % WidthOf(b)), size |-> WidthOf(b)])
    <1>1. PICK v \in View : /\ view[v].kind = "atomic"
                            /\ view[v].start =< b /\ b < view[v].end
                            /\ view[v].size = WidthOf(b)
        BY OneWidth
    <1>2. PICK a \in Nat, e \in Nat, d \in Nat \ {0} :
            /\ a = view[v].start /\ e = view[v].end /\ d = view[v].size
            /\ a % d = 0 /\ e % d = 0
        <2>1. view[v] \in ViewType /\ Formed(view[v], len)
            BY DEF IInv, TypeOK
        <2>2. view[v].size \in Nat \ {0}
            BY <1>1, <2>1, Constants DEF Formed
        <2> QED BY <1>1, <2>1, <2>2 DEF Formed, ViewType
    <1>3. /\ a =< b - (b % d) /\ b - (b % d) + d =< e
          /\ ((b - (b % d)) - a) % d = 0
        <2>1. a =< b /\ b < e /\ a % d = 0 /\ e % d = 0
            BY <1>1, <1>2
        <2> QED BY <2>1, ElementInside, Zenon
    <1>4. PICK l : l = [elem |-> b - (b % WidthOf(b)), size |-> WidthOf(b)]
        OBVIOUS
    <1>5. l.elem = b - (b % d) /\ l.size = d
        BY <1>1, <1>2, <1>4
    <1>6. v \in Rules!Is("atomic")
        BY <1>1 DEF Rules!Is
    <1>7. Rules!Element(l)
        BY <1>2, <1>3, <1>5, <1>6 DEF Rules!Element
    <1> QED BY <1>4, <1>7

LEMMA TouchRules ==
    ASSUME IInv, NEW off \in Nat, NEW n \in Nat, touch(off, n)
    PROVE  Rules!Next
    <1>1. PICK d \in Nat \ {0} : d = PageSize
        BY SizeAssumption
    <1>2. PICK p \in Nat : p = (n + d - 1) \div d /\ p * d >= n /\ (p - 1) * d < n
        <2>1. n > 0
            BY DEF touch
        <2> QED BY <2>1, PagesCover
    <1> DEFINE At(i) == off + (i - 1) * d
    <1>3. /\ answer'.op = "touch" /\ answer'.off = off /\ answer'.len = n /\ answer'.size = d
          /\ answer'.val = [i \in 1 .. p |-> WidthOf(At(i))]
          /\ answer'.loads = {[elem |-> b - (b % WidthOf(b)), size |-> WidthOf(b)] :
                                b \in {At(i) : i \in {j \in 1 .. p : First(At(j)) # 0}}}
          /\ UNCHANGED <<len, view>> /\ len > 0 /\ CanRead(map)
        BY <1>1, <1>2 DEF touch, Result, WidthOf, First
    <1>4. \A i \in 1 .. p : At(i) \in Nat
        OBVIOUS
    <1>5. Len(answer'.val) = p /\ DOMAIN answer'.val = 1 .. p
        BY <1>3
    <1>6. \A i \in 1 .. p : answer'.val[i] = Rules!Width(At(i))
        BY <1>3, <1>4, OneWidth
    <1>7. \A l \in answer'.loads : Rules!Element(l)
        BY <1>3, <1>4, TouchLoads
    <1>8. ~Rules!Exclusive
        BY <1>3, RulesLock
    <1>9. Rules!Touch(answer'.off, answer'.len, answer'.size)
        BY <1>2, <1>3, <1>5, <1>6, <1>7, <1>8 DEF Rules!Touch
    <1> QED BY <1>3, <1>9 DEF Rules!Next

-----------------------------------------------------------------------------
(***************************************************************************)
(* A copying read: every round of the sweep leaves all bytes before its    *)
(* position read in the way the rules ask for.  What must hold for every   *)
(* round is proved from its least counterexample.                          *)
(***************************************************************************)

\* Each round of the loop works on what the one before it left.
LEMMA RoundByRound ==
    ASSUME NEW spans, Len(spans) \in Nat, NEW start, NEW end
    PROVE  /\ Rounds(spans, start, end)[0] = [pos |-> start, val |-> <<>>, loads |-> {}]
           /\ \A i \in 1 .. Len(spans) :
                Rounds(spans, start, end)[i] = Sweep(Rounds(spans, start, end)[i - 1], spans[i], end)
    <1> DEFINE base    == [pos |-> start, val |-> <<>>, loads |-> {}]
               G(f, n) == [i \in 0 .. n |-> IF i = 0 THEN base ELSE Sweep(f[i - 1], spans[i], end)]
               bad     == {n \in Nat : ~\E f : f = G(f, n)}
    <1>1. Rounds(spans, start, end) = CHOOSE f : f = G(f, Len(spans))
        BY DEF Rounds
    <1> HIDE DEF base
    <1>2. bad = {}
        <2> SUFFICES ASSUME bad # {} PROVE FALSE
            OBVIOUS
        <2>1. PICK n \in bad : \A m \in bad : n =< m
            <3>1. PICK I \in SUBSET Nat : I = bad
                OBVIOUS
            <3> QED BY <3>1, Smallest, Zenon
        <2>2. n \in Nat /\ ~\E f : f = G(f, n)
            OBVIOUS
        <2>3. CASE n = 0
            <3>1. PICK f : f = [i \in 0 .. 0 |-> base]
                OBVIOUS
            <3>2. f = G(f, 0)
                BY <3>1
            <3> QED BY <2>2, <2>3, <3>2
        <2>4. CASE n # 0
            <3>1. PICK m \in Nat : n = m + 1
                BY <2>2, <2>4
            <3>2. m \notin bad
                BY <2>1, <3>1
            <3>3. PICK f : f = G(f, m)
                BY <3>2
            <3>4. \A i \in 0 .. m : f[i] = IF i = 0 THEN base ELSE Sweep(f[i - 1], spans[i], end)
                BY <3>3
            <3>5. PICK g : g = [i \in 0 .. n |-> IF i = n THEN Sweep(f[m], spans[n], end) ELSE f[i]]
                OBVIOUS
            <3>6. ASSUME NEW i \in 0 .. n
                  PROVE  g[i] = IF i = 0 THEN base ELSE Sweep(g[i - 1], spans[i], end)
                <4>1. CASE i = n
                    <5>1. g[n] = Sweep(f[m], spans[n], end) /\ g[m] = f[m]
                        BY <3>1, <3>5
                    <5>2. n - 1 = m
                        BY <3>1
                    <5> QED BY <2>4, <4>1, <5>1, <5>2
                <4>2. CASE i # n
                    <5>1. i \in 0 .. m /\ g[i] = f[i] /\ (i # 0 => g[i - 1] = f[i - 1])
                        BY <3>1, <3>5, <4>2
                    <5> QED BY <3>4, <5>1
                <4> QED BY <4>1, <4>2
            <3>7. g = G(g, n)
                BY <3>5, <3>6
            <3> QED BY <2>2, <3>7
        <2> QED BY <2>3, <2>4
    <1>3. \E f : f = G(f, Len(spans))
        BY <1>2
    <1>4. PICK r : r = Rounds(spans, start, end)
        OBVIOUS
    <1>5. r = G(r, Len(spans))
        BY <1>1, <1>3, <1>4
    <1>6. r[0] = base /\ \A i \in 1 .. Len(spans) : r[i] = Sweep(r[i - 1], spans[i], end)
        BY <1>5
    <1> QED BY <1>4, <1>6 DEF base

\* A byte under an entry is read with the element size of the entry.
LEMMA EntryWidth ==
    ASSUME IInv, NEW i \in DOMAIN atomics, NEW b \in Nat,
           atomics[i].start =< b, b < atomics[i].end
    PROVE  Rules!Width(b) = atomics[i].size
    <1>1. PICK v \in View : view[v].kind = "atomic" /\ atomics[i] = EntryOf(view[v])
        BY Entered
    <1>2. /\ view[v].start =< b /\ b < view[v].end /\ view[v].size = atomics[i].size
        BY <1>1 DEF EntryOf
    <1>3. First(b) # 0
        BY FirstFound
    <1>4. PICK w \in View : /\ view[w].kind = "atomic"
                            /\ view[w].start =< b /\ b < view[w].end
                            /\ view[w].size = WidthOf(b)
        BY <1>3, OneWidth
    <1>5. Meet(view[v], view[w])
        <2>1. view[v] \in ViewType /\ view[w] \in ViewType
            BY DEF IInv, TypeOK
        <2> QED BY <1>2, <1>4, <2>1 DEF Meet, ViewType
    <1>6. view[w].size = view[v].size
        BY <1>1, <1>5 DEF IInv, NoConflict
    <1> QED BY <1>2, <1>4, <1>6, OneWidth

\* A byte that no entry covers is read plainly.
LEMMA PlainWidth ==
    ASSUME IInv, NEW b \in Nat,
           \A i \in DOMAIN atomics : ~(atomics[i].start =< b /\ b < atomics[i].end)
    PROVE  Rules!Width(b) = 0
    <1>1. First(b) = 0
        BY FirstFound
    <1> QED BY <1>1, OneWidth DEF WidthOf

\* Aligned loads inside of an entry are elements of a live view.
LEMMA EntryElement ==
    ASSUME IInv, NEW i \in DOMAIN atomics, NEW from \in Nat, NEW to \in Nat,
           atomics[i].start =< from, from < to, to =< atomics[i].end,
           NEW l \in atomic_copy(from, to, atomics[i].size)
    PROVE  Rules!Element(l)
    <1>1. PICK v \in View : view[v].kind = "atomic" /\ atomics[i] = EntryOf(view[v])
        BY Entered
    <1>2. PICK a \in Nat, e \in Nat, d \in Nat \ {0} :
            /\ a = view[v].start /\ e = view[v].end /\ d = view[v].size
            /\ a = atomics[i].start /\ e = atomics[i].end /\ d = atomics[i].size
            /\ a % d = 0 /\ e % d = 0
        <2>1. view[v] \in ViewType /\ Formed(view[v], len)
            BY DEF IInv, TypeOK
        <2>2. view[v].size \in Nat \ {0}
            BY <1>1, <2>1, Constants DEF Formed
        <2> QED BY <1>1, <2>1, <2>2 DEF Formed, ViewType, EntryOf
    <1>3. a =< from - (from % d) /\ from % d \in Nat
        <2>1. a =< from /\ from < e /\ a % d = 0 /\ e % d = 0
            BY <1>2
        <2>2. from % d \in Nat
            BY Division
        <2> QED BY <2>1, <2>2, ElementInside
    <1>4. PICK x \in Nat : /\ a =< x /\ x < e /\ a % d = 0 /\ e % d = 0 /\ x % d = 0
                           /\ l = [elem |-> x, size |-> d]
        <2>1. PICK y \in from - (from % d) .. to - 1 : y % d = 0 /\ l = [elem |-> y, size |-> d]
            BY <1>2 DEF atomic_copy
        <2>2. y \in Nat /\ a =< y /\ y < e
            BY <1>2, <1>3
        <2> QED BY <1>2, <2>1, <2>2
    <1>5. x + d =< e /\ (x - a) % d = 0
        BY <1>4, AlignedInside, ZenonT(60)
    <1>6. l.elem = x /\ l.size = d
        BY <1>4
    <1>7. v \in Rules!Is("atomic")
        BY <1>1 DEF Rules!Is
    <1> QED BY <1>2, <1>4, <1>5, <1>6, <1>7 DEF Rules!Element

\* The bytes of [off, pos) are read, each once and as the rules ask for.
Read(val, off, pos) ==
  /\ val \in Seq(Nat) /\ Len(val) = pos - off
  /\ \A k \in 1 .. pos - off : val[k] = Rules!Width(off + k - 1)

\* The bytes of [p, q) are all to be read with width w.
Wide(p, q, w) == \A b \in p .. q - 1 : Rules!Width(b) = w

ReadUpTo(acc, off, end) ==
  /\ acc.pos \in Nat /\ off =< acc.pos /\ acc.pos =< end
  /\ Read(acc.val, off, acc.pos)
  /\ \A l \in acc.loads : Rules!Element(l)

\* Reading on from p up to q with one width
LEMMA ReadOn ==
    ASSUME NEW off \in Nat, NEW p \in Nat, NEW q \in Nat, off =< p, p =< q, NEW w \in Nat,
           NEW val, Read(val, off, p), Wide(p, q, w)
    PROVE  Read(val \o Times(q - p, w), off, q)
    <1>1. PICK m \in Nat : m = q - p
        OBVIOUS
    <1>2. PICK t : t = Times(q - p, w)
        OBVIOUS
    <1>3. PICK u : u = val \o t
        OBVIOUS
    <1>4. t \in Seq(Nat) /\ Len(t) = m /\ \A k \in 1 .. m : t[k] = w
        BY <1>1, <1>2 DEF Times
    <1>5. val \in Seq(Nat) /\ Len(val) = p - off
        BY DEF Read
    <1>6. u \in Seq(Nat) /\ Len(u) = Len(val) + m
          /\ \A k \in 1 .. Len(val) + m : u[k] = IF k =< Len(val) THEN val[k] ELSE t[k - Len(val)]
        BY <1>3, <1>4, <1>5, ConcatProperties
    <1>7. ASSUME NEW k \in 1 .. q - off PROVE u[k] = Rules!Width(off + k - 1)
        <2>1. CASE k =< p - off
            <3>1. k \in 1 .. p - off /\ u[k] = val[k]
                BY <1>1, <1>5, <1>6, <2>1, SMTT(30)
            <3> QED BY <3>1 DEF Read
        <2>2. CASE ~(k =< p - off)
            <3>1. k - Len(val) \in 1 .. m /\ u[k] = t[k - Len(val)]
                BY <1>1, <1>5, <1>6, <2>2, SMTT(30)
            <3>2. PICK b \in p .. q - 1 : b = off + k - 1
                BY <2>2
            <3>3. Rules!Width(b) = w
                BY DEF Wide
            <3> QED BY <1>4, <3>1, <3>2, <3>3
        <2> QED BY <2>1, <2>2
    <1>8. Len(u) = q - off
        BY <1>1, <1>5, <1>6
    <1> QED BY <1>1, <1>2, <1>3, <1>6, <1>7, <1>8 DEF Read

\* One round: up to the entry no byte is covered, and from there on this one covers them.
LEMMA OneRound ==
    ASSUME IInv, NEW off \in Nat, NEW end \in Nat, NEW acc, ReadUpTo(acc, off, end),
           NEW i \in DOMAIN atomics, atomics[i].start < end,
           Wide(acc.pos, atomics[i].start, 0)
    PROVE  LET next == Sweep(acc, atomics[i], end)
           IN  /\ ReadUpTo(next, off, end)
               /\ acc.pos =< next.pos
               /\ atomics[i].end =< next.pos \/ next.pos = end
    <1>1. PICK a \in Nat, e \in Nat, z \in Nat :
            a = atomics[i].start /\ e = atomics[i].end /\ z = atomics[i].size
        <2>1. atomics[i] \in Entry
            BY SeqIndex DEF IInv, TypeOK
        <2> QED BY <2>1 DEF Entry
    <1>2. PICK p \in Nat, val \in Seq(Nat) :
            /\ p = acc.pos /\ val = acc.val
            /\ off =< p /\ p =< end /\ Read(val, off, p)
            /\ \A l \in acc.loads : Rules!Element(l)
        BY DEF ReadUpTo, Read
    <1>3. PICK q \in Nat : q = IF a > p THEN Smaller(a, end) ELSE p
        BY DEF Smaller
    <1>4. PICK r \in Nat : r = Larger(Smaller(e, end), q)
        BY DEF Smaller, Larger
    <1>5. /\ p =< q /\ q =< end /\ a =< q /\ off =< q
          /\ q =< r /\ r =< end /\ (q < r => r =< e) /\ off =< r
          /\ e =< r \/ r = end
        BY <1>1, <1>2, <1>3, <1>4 DEF Smaller, Larger
    <1>6. Wide(p, q, 0)
        <2>1. p < q => q =< a
            BY <1>2, <1>3 DEF Smaller
        <2> QED BY <1>1, <1>2, <2>1 DEF Wide
    <1>7. Wide(q, r, z)
        <2> SUFFICES ASSUME NEW b \in q .. r - 1 PROVE Rules!Width(b) = z
            BY DEF Wide
        <2>1. b \in Nat /\ a =< b /\ b < e
            BY <1>5
        <2> QED BY <1>1, <2>1, EntryWidth
    <1>8. PICK val1 : val1 = val \o Times(q - p, 0)
        OBVIOUS
    <1>9. Read(val1, off, q)
        <2>1. 0 \in Nat
            OBVIOUS
        <2> QED BY <1>2, <1>5, <1>6, <1>8, <2>1, ReadOn, Zenon
    <1>10. PICK val2 : val2 = val1 \o Times(r - q, z)
        OBVIOUS
    <1>11. Read(val2, off, r)
        BY <1>5, <1>7, <1>9, <1>10, ReadOn, Zenon
    <1>12. ASSUME NEW l \in atomic_copy(q, r, z) PROVE Rules!Element(l)
        <2>1. q < r
            BY <1>12 DEF atomic_copy
        <2> QED BY <1>1, <1>5, <1>12, <2>1, EntryElement
    <1>13. PICK next : next = Sweep(acc, atomics[i], end)
        OBVIOUS
    <1>14. next = [pos |-> r, val |-> val2, loads |-> acc.loads \union atomic_copy(q, r, z)]
        BY <1>1, <1>2, <1>3, <1>4, <1>8, <1>10, <1>13 DEF Sweep
    <1>15. next.pos = r /\ next.val = val2 /\ next.loads = acc.loads \union atomic_copy(q, r, z)
        BY <1>14
    <1>16. ReadUpTo(next, off, end)
        BY <1>2, <1>5, <1>11, <1>12, <1>15 DEF ReadUpTo
    <1> QED BY <1>1, <1>2, <1>5, <1>13, <1>15, <1>16

\* The sorted spans are the overlapping entries, all of them.
LEMMA SpansComplete ==
    ASSUME IInv, NEW off \in Nat, NEW end \in Nat,
           NEW spans \in Sorted(Overlapping(off, end))
    PROVE  /\ Len(spans) \in Nat
           /\ \A j \in 1 .. Len(spans) :
                \E i \in DOMAIN atomics : spans[j] = atomics[i] /\ atomics[i].start < end
           /\ \A i \in DOMAIN atomics : overlaps(atomics[i].start, atomics[i].end, off, end) =>
                \E j \in 1 .. Len(spans) : spans[j] = atomics[i]
           /\ \A j, k \in 1 .. Len(spans) : j < k => spans[j].start =< spans[k].start
    <1>1. PICK T : T = ToSet(atomics)
        OBVIOUS
    <1>2. T = {atomics[i] : i \in DOMAIN atomics} /\ DOMAIN atomics = 1 .. Len(atomics) /\ Len(atomics) \in Nat
        BY <1>1, SeqIndex DEF ToSet, IInv, TypeOK
    <1>3. IsFiniteSet(T)
        <2>1. atomics \in Surjection(DOMAIN atomics, T)
            <3>1. atomics = [i \in DOMAIN atomics |-> atomics[i]]
                BY DEF IInv, TypeOK
            <3> QED BY <1>2, <3>1 DEF Surjection
        <2>2. IsFiniteSet(DOMAIN atomics)
            BY <1>2, FS_Interval
        <2> QED BY <2>1, <2>2, FS_Surjection
    <1>4. PICK S : S = {a \in T : overlaps(a.start, a.end, off, end)}
        OBVIOUS
    <1>5. IsFiniteSet(S)
        BY <1>3, <1>4, FS_Subset
    <1>6. PICK N \in Nat : N = Cardinality(S)
        BY <1>5, FS_CardinalityType
    <1>7. /\ spans \in [1 .. N -> S]
          /\ \A i, j \in 1 .. N : i # j => spans[i] # spans[j]
          /\ \A i, j \in 1 .. N : i < j => spans[i].start <= spans[j].start
        BY <1>1, <1>4, <1>6 DEF Sorted, SetToSeqs, Overlapping
    <1>8. Len(spans) = N
        BY <1>7
    <1>9. \A a \in S : \E j \in 1 .. N : spans[j] = a
        <2>1. spans \in Injection(1 .. N, S)
            BY <1>7 DEF Injection, IsInjective
        <2>2. Cardinality(1 .. N) = N
            BY FS_Interval
        <2>3. spans \in Surjection(1 .. N, S)
            BY <1>5, <1>6, <2>1, <2>2, FS_Injection
        <2> QED BY <2>3 DEF Surjection
    <1>10. \A j \in 1 .. N : \E i \in DOMAIN atomics : spans[j] = atomics[i] /\ atomics[i].start < end
        BY <1>2, <1>4, <1>7 DEF overlaps
    <1>11. \A i \in DOMAIN atomics : overlaps(atomics[i].start, atomics[i].end, off, end) =>
             \E j \in 1 .. N : spans[j] = atomics[i]
        BY <1>2, <1>4, <1>9
    <1> QED BY <1>7, <1>8, <1>10, <1>11

\* A byte of the range between the entries that are done and the ones to come is plain.
LEMMA Between ==
    ASSUME IInv, NEW off \in Nat, NEW end \in Nat,
           NEW spans \in Sorted(Overlapping(off, end)),
           NEW b \in Nat, off =< b, b < end,
           \A j \in 1 .. Len(spans) : spans[j].end =< b \/ b < spans[j].start
    PROVE  Rules!Width(b) = 0
    <1> SUFFICES ASSUME NEW i \in DOMAIN atomics, atomics[i].start =< b, b < atomics[i].end
                 PROVE  FALSE
        BY PlainWidth
    <1>1. atomics[i].start \in Nat /\ atomics[i].end \in Nat
        <2>1. atomics[i] \in Entry
            BY SeqIndex DEF IInv, TypeOK
        <2> QED BY <2>1 DEF Entry
    <1>2. overlaps(atomics[i].start, atomics[i].end, off, end)
        BY <1>1 DEF overlaps
    <1>3. PICK j \in 1 .. Len(spans) : spans[j] = atomics[i]
        BY <1>2, SpansComplete
    <1> QED BY <1>1, <1>3

\* The loop over all spans.
LEMMA SweepRight ==
    ASSUME IInv, NEW off \in Nat, NEW end \in Nat, off =< end,
           NEW spans \in Sorted(Overlapping(off, end)),
           NEW last, last = Rounds(spans, off, end)[Len(spans)]
    PROVE  /\ Read(last.val \o Times(end - last.pos, 0), off, end)
           /\ \A l \in last.loads : Rules!Element(l)
    <1>1. PICK N \in Nat : N = Len(spans)
        BY SpansComplete
    <1>2. PICK R : R = Rounds(spans, off, end)
        OBVIOUS
    <1>3. /\ R[0] = [pos |-> off, val |-> <<>>, loads |-> {}]
          /\ \A i \in 1 .. N : R[i] = Sweep(R[i - 1], spans[i], end)
        BY <1>1, <1>2, RoundByRound
    <1> DEFINE Past(k) == \A j \in 1 .. k : spans[j].end =< R[k].pos \/ R[k].pos = end
               P(k)    == ReadUpTo(R[k], off, end) /\ Past(k)
               bad     == {k \in 0 .. N : ~P(k)}
    <1>4. \A j \in 1 .. N : spans[j].start \in Nat /\ spans[j].end \in Nat
        <2>1. \A i \in DOMAIN atomics : atomics[i] \in Entry
            BY SeqIndex DEF IInv, TypeOK
        <2>2. \A j \in 1 .. N : \E i \in DOMAIN atomics : spans[j] = atomics[i]
            BY <1>1, SpansComplete
        <2> QED BY <2>1, <2>2 DEF Entry
    <1>5. P(0)
        <2>1. R[0].pos = off /\ R[0].val = <<>> /\ R[0].loads = {}
            BY <1>3
        <2>2. Read(<<>>, off, off)
            BY DEF Read
        <2> QED BY <2>1, <2>2 DEF ReadUpTo
    <1>6. ASSUME NEW m \in Nat, m + 1 =< N, P(m) PROVE P(m + 1)
        <2>1. PICK k \in 1 .. N : k = m + 1
            BY <1>6
        <2>2. PICK i \in DOMAIN atomics : spans[k] = atomics[i] /\ atomics[i].start < end
            BY <1>1, SpansComplete
        <2>3. PICK p \in Nat : p = R[m].pos /\ off =< p /\ p =< end
            BY <1>6 DEF ReadUpTo
        <2>4. Wide(p, spans[k].start, 0)
            <3> SUFFICES ASSUME NEW b \in p .. spans[k].start - 1 PROVE Rules!Width(b) = 0
                BY DEF Wide
            <3>1. b \in Nat /\ off =< b /\ b < end /\ p =< b /\ b < spans[k].start
                BY <1>4, <2>2, <2>3
            <3>2. ASSUME NEW j \in 1 .. N PROVE spans[j].end =< b \/ b < spans[j].start
                <4>1. CASE j =< m
                    <5>1. spans[j].end =< p \/ p = end
                        BY <1>6, <2>3, <4>1
                    <5> QED BY <1>4, <2>3, <3>1, <5>1
                <4>2. CASE j > m
                    <5>1. spans[k].start =< spans[j].start
                        <6>1. CASE j = k
                            BY <1>4, <6>1
                        <6>2. CASE k < j
                            BY <1>1, <6>2, SpansComplete
                        <6> QED BY <2>1, <4>2, <6>1, <6>2
                    <5> QED BY <1>4, <3>1, <5>1
                <4> QED BY <4>1, <4>2
            <3> QED BY <1>1, <3>1, <3>2, Between
        <2>5. R[k] = Sweep(R[m], atomics[i], end)
            BY <1>3, <2>1, <2>2
        <2>6. /\ ReadUpTo(R[k], off, end) /\ p =< R[k].pos
              /\ atomics[i].end =< R[k].pos \/ R[k].pos = end
            BY <1>6, <2>2, <2>3, <2>4, <2>5, OneRound
        <2>7. ASSUME NEW j \in 1 .. k PROVE spans[j].end =< R[k].pos \/ R[k].pos = end
            <3>1. CASE j = k
                BY <2>2, <2>6, <3>1
            <3>2. CASE j # k
                <4>1. spans[j].end =< p \/ p = end
                    BY <1>6, <2>1, <2>3, <3>2
                <4>2. R[k].pos \in Nat /\ R[k].pos =< end
                    BY <2>6 DEF ReadUpTo
                <4> QED BY <1>4, <2>1, <2>6, <4>1, <4>2
            <3> QED BY <3>1, <3>2
        <2> QED BY <2>1, <2>6, <2>7
    <1> HIDE DEF P
    <1>7. bad = {}
        <2> SUFFICES ASSUME bad # {} PROVE FALSE
            OBVIOUS
        <2>1. PICK k \in bad : \A m \in bad : k =< m
            <3>1. bad \in SUBSET Nat
                OBVIOUS
            <3>2. PICK I \in SUBSET Nat : I = bad
                BY <3>1, Zenon
            <3> QED BY <3>2, Smallest, Zenon
        <2>2. k \in 0 .. N /\ ~P(k)
            OBVIOUS
        <2>3. PICK m \in Nat : k = m + 1
            BY <1>5, <2>2
        <2>4. m \in 0 .. N /\ m \notin bad
            BY <2>1, <2>2, <2>3
        <2> QED BY <1>6, <2>2, <2>3, <2>4
    <1>8. P(N)
        BY <1>7
    <1>9. last = R[N]
        BY <1>1, <1>2
    <1>10. ReadUpTo(last, off, end) /\ \A j \in 1 .. N : spans[j].end =< last.pos \/ last.pos = end
        BY <1>8, <1>9 DEF P
    <1>11. PICK p \in Nat, val \in Seq(Nat) :
             p = last.pos /\ val = last.val /\ off =< p /\ p =< end /\ Read(val, off, p)
        BY <1>10 DEF ReadUpTo, Read
    <1>12. Wide(p, end, 0)
        <2> SUFFICES ASSUME NEW b \in p .. end - 1 PROVE Rules!Width(b) = 0
            BY DEF Wide
        <2>1. b \in Nat /\ off =< b /\ b < end /\ p =< b
            BY <1>11
        <2>2. \A j \in 1 .. N : spans[j].end =< b
            BY <1>4, <1>10, <1>11, <2>1
        <2> QED BY <1>1, <2>1, <2>2, Between
    <1>13. Read(val \o Times(end - p, 0), off, end)
        <2>1. 0 \in Nat
            OBVIOUS
        <2> QED BY <1>11, <1>12, <2>1, ReadOn, Zenon
    <1>14. \A l \in last.loads : Rules!Element(l)
        BY <1>10 DEF ReadUpTo
    <1> QED BY <1>11, <1>13, <1>14

LEMMA ReadRules ==
    ASSUME IInv, NEW off \in Nat, NEW n \in Nat, read_into(off, n)
    PROVE  Rules!Next
    <1>1. UNCHANGED <<len, view>> /\ len > 0
        BY DEF read_into
    <1>2. /\ slice_range(off, n) <=> Rules!InBounds(off, n)
          /\ Rules!Exclusive <=> ~CanRead(map)
        BY RulesBounds, RulesLock
    <1>3. CASE n = 0 \/ ~slice_range(off, n)
        <2>1. \/ n = 0 /\ Reply("read_into", off, n, "Ok")
              \/ n > 0 /\ ~slice_range(off, n) /\ Reply("read_into", off, n, "OutOfBounds")
            BY <1>3 DEF read_into
        <2>2. answer'.op = "read_into" /\ answer'.off = off /\ answer'.len = n
            BY <2>1 DEF Reply, Result
        <2>3. Rules!ReadInto(off, n)
            BY <1>1, <1>2, <2>1 DEF Reply, Result, Rules!ReadInto, Rules!Reply
        <2> QED BY <2>2, <2>3 DEF Rules!Next
    <1>4. CASE n > 0 /\ slice_range(off, n)
        <2>1. CanRead(map) /\ copy_out(off, n)
            BY <1>4 DEF read_into
        <2>2. PICK spans \in Sorted(Overlapping(off, off + n)) :
                LET last == Rounds(spans, off, off + n)[Len(spans)]
                IN  answer' = [op |-> "read_into", off |-> off, len |-> n, size |-> 0, res |-> "Ok",
                               val |-> last.val \o Times((off + n) - last.pos, 0), loads |-> last.loads]
            BY <2>1, Zenon DEF copy_out, Result
        <2>3. PICK last : last = Rounds(spans, off, off + n)[Len(spans)]
            OBVIOUS
        <2>4. PICK val : val = last.val \o Times((off + n) - last.pos, 0)
            OBVIOUS
        <2>5. /\ answer'.op = "read_into" /\ answer'.off = off /\ answer'.len = n
              /\ answer'.res = "Ok" /\ answer'.val = val /\ answer'.loads = last.loads
            <3>1. answer' = [op |-> "read_into", off |-> off, len |-> n, size |-> 0, res |-> "Ok",
                             val |-> val, loads |-> last.loads]
                BY <2>2, <2>3, <2>4, Zenon
            <3> QED BY <3>1
        <2>6. Read(val, off, off + n) /\ \A l \in last.loads : Rules!Element(l)
            <3>1. PICK end \in Nat : end = off + n /\ off =< end
                OBVIOUS
            <3>2. spans \in Sorted(Overlapping(off, end)) /\ last = Rounds(spans, off, end)[Len(spans)]
                BY <2>3, <3>1
            <3>3. Read(last.val \o Times(end - last.pos, 0), off, end)
                BY <3>1, <3>2, SweepRight
            <3>4. \A l \in last.loads : Rules!Element(l)
                BY <3>1, <3>2, SweepRight
            <3>5. val = last.val \o Times(end - last.pos, 0)
                BY <2>4, <3>1, Zenon
            <3> QED BY <3>1, <3>3, <3>4, <3>5, Zenon
        <2>7. val = [i \in 1 .. n |-> Rules!Width(off + i - 1)]
            <3>1. val \in Seq(Nat) /\ Len(val) = n /\ \A i \in 1 .. n : val[i] = Rules!Width(off + i - 1)
                BY <2>6 DEF Read
            <3>2. DOMAIN val = 1 .. n /\ val = [i \in DOMAIN val |-> val[i]]
                BY <3>1
            <3> QED BY <3>1, <3>2
        <2>8. Rules!ReadInto(off, n)
            BY <1>1, <1>2, <1>4, <2>1, <2>5, <2>6, <2>7 DEF Rules!ReadInto
        <2> QED BY <2>5, <2>8 DEF Rules!Next
    <1> QED BY <1>3, <1>4

\* Every call is a step of the rules.
LEMMA NextRules ==
    ASSUME IInv, Next
    PROVE  Rules!Next
    <1>1. /\ \A n \in 0 .. MaxLen + 1 : n \in Nat
          /\ \A off \in U64 : off \in Nat
          /\ 1 \in Nat
        BY Constants DEF U64
    <1>2. ASSUME NEW n \in 0 .. MaxLen + 1, new(n) \/ with_huge_pages(n)
          PROVE  Rules!Next
        BY <1>1, <1>2, NewRules DEF with_huge_pages
    <1>3. ASSUME NEW off \in U64, NEW n \in 0 .. MaxLen + 1,
                 \/ read_into(off, n) \/ touch(off, n)
                 \/ update_region(off, n) \/ try_update_region(off, n)
                 \/ \E v \in View :
                      \/ \E s \in Shard : as_slice(v, off, n, s) \/ try_as_slice(v, off, n, s)
                      \/ as_mut_slice(v, off, n) \/ try_as_mut_slice(v, off, n)
                      \/ \E size \in ElemSize : atomic_slice(v, off, n, size)
          PROVE  Rules!Next
        <2>1. CASE read_into(off, n)
            BY <1>1, <2>1, ReadRules
        <2>2. CASE touch(off, n)
            BY <1>1, <2>2, TouchRules
        <2>3. CASE update_region(off, n) \/ try_update_region(off, n)
            BY <1>1, <2>3, UpdateRules DEF update_region, try_update_region
        <2>4. ASSUME NEW v \in View, NEW s \in Shard,
                     as_slice(v, off, n, s) \/ try_as_slice(v, off, n, s)
              PROVE  Rules!Next
            BY <1>1, <2>4, SliceRules DEF as_slice, try_as_slice
        <2>5. ASSUME NEW v \in View, as_mut_slice(v, off, n) \/ try_as_mut_slice(v, off, n)
              PROVE  Rules!Next
            BY <1>1, <2>5, MutRules DEF as_mut_slice, try_as_mut_slice
        <2>6. ASSUME NEW v \in View, NEW size \in ElemSize, atomic_slice(v, off, n, size)
              PROVE  Rules!Next
            BY <1>1, <2>6, AtomicRules DEF atomic_slice
        <2> QED BY <1>3, <2>1, <2>2, <2>3, <2>4, <2>5, <2>6
    <1>4. ASSUME NEW off \in U64, NEW size \in ElemSize, NEW v \in View, atomic_view(v, off, size)
          PROVE  Rules!Next
        BY <1>1, <1>4, AtomicRules DEF atomic_view
    <1>5. ASSUME NEW v \in View, DropView(v) PROVE Rules!Next
        BY <1>5, DropRules
    <1> QED BY <1>2, <1>3, <1>4, <1>5 DEF Next

\* KeepsRules: the slabs, the vector of entries, the saturating sums and the sweep of copy_out
\* grant, refuse and read exactly as ViewRules says, for any views, sizes and lengths.
THEOREM RulesKept == Spec => KeepsRules
    <1>1. Init => Rules!Init
        BY InitRules
    <1>2. IInv /\ [Next]_vars => [Rules!Next]_(Rules!vars)
        <2>1. ASSUME IInv, Next PROVE Rules!Next
            BY <2>1, NextRules
        <2>2. ASSUME UNCHANGED vars PROVE UNCHANGED Rules!vars
            BY <2>2 DEF vars, Rules!vars
        <2> QED BY <2>1, <2>2
    <1>3. Spec => []IInv
        BY Invariance
    <1> QED BY <1>1, <1>2, <1>3, PTL DEF Spec, KeepsRules, Rules!Spec

=============================================================================
