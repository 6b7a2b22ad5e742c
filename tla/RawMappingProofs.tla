-------------------------- MODULE RawMappingProofs --------------------------
(***************************************************************************)
(* Proofs about RawMapping for any number of handles, any page, huge page  *)
(* and allocation sizes, any width of usize, any file and any arguments.   *)
(* The run has one handle; here the handles share one address space.       *)
(***************************************************************************)
EXTENDS RawMapping, TLAPS

-----------------------------------------------------------------------------
(***************************************************************************)
(* The inductive invariant                                                 *)
(***************************************************************************)

\* The numbers of a Mapping: the empty placeholder is null, any other window
\* lies in its OS mapping, and starts in the page of the file that its OS
\* mapping starts with, whatever was rounded.
Shape(m) ==
    /\ m.len = 0 => m.base = 0 /\ m.delta = 0 /\ m.os_len = 0
    /\ m.len > 0 => m.base \in Bases /\ m.delta + m.len =< m.os_len
    /\ m.kind # "Anon" => m.off + m.len =< fileLen
    /\ m.kind # "Anon" /\ m.len > 0 => m.delta =< m.off /\ (m.off - m.delta) % Page = 0

\* The access of a Mapping: read-only handles have the kind Read until they are
\* made writable, and what stores reach the file through is flushed.
Access(m) ==
    /\ m.kind = "Read" => m.mut = FALSE
    /\ m.kind = "Write" /\ m.len > 0 => m.backing = "Shared"

\* Page number p of the address space belongs to the Mapping m.
BelongsTo(p, m) ==
    /\ p \in DOMAIN vm
    /\ vm[p].view = m.base
    /\ vm[p].obj = IF is_private(m.kind) THEN "private" ELSE "shared"
    /\ vm[p].huge = TRUE => m.os_len % Huge = 0
    /\ m.kind # "Anon" => vm[p].fpage = (m.off - m.delta) \div Page + (p - m.base \div Page)

\* The protection of its pages is the one its type promises.
Protected(p, m) == IF m.mut THEN vm[p].prot # "r" ELSE vm[p].prot = "r"

\* What holds of a handle that has a mapping, and of the locks of its window.
Handled(h) ==
    Live(h) =>
        /\ Shape(map[h]) /\ Access(map[h])
        /\ \A p \in Owned(h) : BelongsTo(p, map[h]) /\ Protected(p, map[h])

Pinned(h) ==
    Window(h) # {} =>
        IF map[h].pinned THEN Window(h) \subseteq locked ELSE Window(h) \cap locked = {}

\* No two mappings start at the same address, and nothing else is mapped.
Apart ==
    /\ \A g, h \in Handles :
        Live(g) /\ Live(h) /\ map[g].len > 0 /\ map[h].len > 0 /\ g # h => map[g].base # map[h].base
    /\ \A p \in Foreign : p \in DOMAIN vm /\ vm[p].view = 0
    /\ \A p \in DOMAIN vm : p \in Foreign \/ \E h \in Handles : p \in Owned(h)

\* Private copies and locks are of pages that are mapped, and msync hands
\* nothing to the file system that it does not write.
Kept ==
    /\ \A p \in priv : p \in DOMAIN vm /\ vm[p].obj = "private"
    /\ locked \subseteq DOMAIN vm
    /\ plat # "windows" => handed = {}

IInv ==
    /\ TypeOK /\ Apart /\ Kept
    /\ \A h \in Handles : Handled(h) /\ Pinned(h)
    /\ SpanContract /\ FlushDurable /\ PrivateKept

-----------------------------------------------------------------------------
(***************************************************************************)
(* Arithmetic of pages                                                     *)
(***************************************************************************)

\* Division with remainder, for any size d.
LEMMA DivMod ==
    ASSUME NEW a \in Nat, NEW d \in Nat \ {0}
    PROVE  /\ a \div d \in Nat /\ a % d \in Nat
           /\ a % d < d /\ a = (a \div d) * d + (a % d)
    OBVIOUS

\* A quotient and a remainder are unique.
LEMMA DivUnique ==
    ASSUME NEW d \in Nat \ {0}, NEW q \in Nat, NEW r \in Nat, r < d
    PROVE  (q * d + r) \div d = q /\ (q * d + r) % d = r
    OBVIOUS

\* An aligned base shifts the page number and not the place in the page.
LEMMA DivShift ==
    ASSUME NEW d \in Nat \ {0}, NEW k \in Nat, NEW x \in Nat
    PROVE  (k * d + x) \div d = k + (x \div d) /\ (k * d + x) % d = x % d
    <1>1. /\ x \div d \in Nat /\ x % d \in Nat /\ x % d < d
          /\ x = (x \div d) * d + (x % d)
        BY DivMod
    <1>2. ASSUME NEW q \in Nat, NEW r \in Nat, r < d
          PROVE  /\ (k * d + (q * d + r)) \div d = k + q
                 /\ (k * d + (q * d + r)) % d = r
        <2>1. k * d + (q * d + r) = (k + q) * d + r /\ k + q \in Nat
            OBVIOUS
        <2>2. ((k + q) * d + r) \div d = k + q /\ ((k + q) * d + r) % d = r
            BY <1>2, <2>1, DivUnique
        <2> QED BY <2>1, <2>2
    <1>3. /\ (k * d + ((x \div d) * d + (x % d))) \div d = k + (x \div d)
          /\ (k * d + ((x \div d) * d + (x % d))) % d = x % d
        BY <1>1, <1>2
    <1> QED BY <1>1, <1>3

\* A later address is in the same page or in a later one.
LEMMA DivMono ==
    ASSUME NEW d \in Nat \ {0}, NEW a \in Nat, NEW b \in Nat, a =< b
    PROVE  a \div d =< b \div d
    OBVIOUS

\* What is aligned to d is a multiple of it, and the other way round.
LEMMA Multiple ==
    ASSUME NEW d \in Nat \ {0}, NEW a \in Nat
    PROVE  a % d = 0 <=> a = (a \div d) * d
    BY DivMod

LEMMA MultipleMod ==
    ASSUME NEW d \in Nat \ {0}, NEW k \in Nat
    PROVE  k * d \in Nat /\ (k * d) % d = 0 /\ (k * d) \div d = k
    <1>1. k * d \in Nat /\ k * d = k * d + 0
        OBVIOUS
    <1> QED BY <1>1, DivUnique

\* Huge pages and the allocation granularity are whole pages.
LEMMA MultipleOfMultiple ==
    ASSUME NEW d \in Nat \ {0}, NEW e \in Nat \ {0}, NEW a \in Nat, a % e = 0, e % d = 0
    PROVE  a % d = 0
    <1>1. a = (a \div e) * e /\ e = (e \div d) * d /\ a \div e \in Nat /\ e \div d \in Nat
        BY Multiple, DivMod
    <1>2. a = ((a \div e) * (e \div d)) * d /\ (a \div e) * (e \div d) \in Nat
        BY <1>1
    <1> QED BY <1>2, MultipleMod

\* Rounding an offset down, as layout does.
LEMMA RoundDown ==
    ASSUME NEW d \in Nat \ {0}, NEW a \in Nat
    PROVE  /\ a - (a % d) \in Nat /\ (a - (a % d)) % d = 0
           /\ (a \div d) * d \in Nat /\ (a \div d) * d =< a /\ ((a \div d) * d) % d = 0
    <1>1. a \div d \in Nat /\ a % d \in Nat /\ a % d < d /\ a = (a \div d) * d + (a % d)
        BY DivMod
    <1>2. (a \div d) * d \in Nat /\ ((a \div d) * d) % d = 0
        BY <1>1, MultipleMod
    <1> QED BY <1>1, <1>2

\* Rounding a length up, as huge_layout does.
LEMMA RoundUp ==
    ASSUME NEW d \in Nat \ {0}, NEW a \in Nat
    PROVE  /\ ((a + d - 1) \div d) * d \in Nat
           /\ a =< ((a + d - 1) \div d) * d
           /\ (((a + d - 1) \div d) * d) % d = 0
    <1>1. a + d - 1 \in Nat
        OBVIOUS
    <1>2. /\ (a + d - 1) \div d \in Nat /\ (a + d - 1) % d \in Nat /\ (a + d - 1) % d < d
          /\ a + d - 1 = ((a + d - 1) \div d) * d + ((a + d - 1) % d)
        BY <1>1, DivMod
    <1>3. ((a + d - 1) \div d) * d \in Nat /\ (((a + d - 1) \div d) * d) % d = 0
        BY <1>2, MultipleMod
    <1> QED BY <1>2, <1>3

\* The sizes of the machine, and the alignment of every address mmap gives.
LEMMA Sizes ==
    /\ Page \in Nat \ {0} /\ Gran \in Nat \ {0} /\ Huge \in Nat \ {0} /\ MAX_LEN \in Nat
    /\ \A b \in Bases : b \in Nat /\ b # 0 /\ b % Page = 0
    <1>1. Page \in Nat \ {0} /\ Gran \in Nat \ {0} /\ Huge \in Nat \ {0} /\ UMax \in Nat
        BY SizesAssumption
    <1>2. ASSUME NEW b \in Bases PROVE b \in Nat /\ b # 0 /\ b % Page = 0
        BY <1>1, SizesAssumption, MultipleOfMultiple
    <1> QED BY <1>1, <1>2 DEF MAX_LEN

-----------------------------------------------------------------------------
(***************************************************************************)
(* Ranges of pages                                                         *)
(***************************************************************************)

\* A range of bytes touches pages with natural numbers, its first one first.
LEMMA PagesOf ==
    ASSUME NEW a \in Nat, NEW n \in Nat
    PROVE  /\ Pages(a, n) \subseteq Nat
           /\ \A p \in Pages(a, n) : a \div Page =< p
           /\ n > 0 => a \div Page \in Pages(a, n)
           /\ n = 0 => Pages(a, n) = {}
    <1>1. CASE n = 0
        BY <1>1 DEF Pages
    <1>2. CASE n > 0
        <2>1. a + n - 1 \in Nat /\ a =< a + n - 1
            BY <1>2
        <2>2. a \div Page \in Nat /\ (a + n - 1) \div Page \in Nat
              /\ a \div Page =< (a + n - 1) \div Page
            BY <2>1, Sizes, DivMod, DivMono
        <2> QED BY <1>2, <2>2 DEF Pages
    <1> QED BY <1>1, <1>2

\* The pages of a range inside another range.
LEMMA PagesInside ==
    ASSUME NEW a \in Nat, NEW n \in Nat, NEW b \in Nat, NEW k \in Nat,
           a =< b, b + k =< a + n
    PROVE  Pages(b, k) \subseteq Pages(a, n)
    <1>1. CASE k = 0
        BY <1>1 DEF Pages
    <1>2. CASE k > 0
        <2>1. a + n - 1 \in Nat /\ b + k - 1 \in Nat /\ b + k - 1 =< a + n - 1 /\ n # 0 /\ k # 0
            BY <1>2
        <2>2. /\ a \div Page =< b \div Page /\ (b + k - 1) \div Page =< (a + n - 1) \div Page
              /\ a \div Page \in Nat /\ b \div Page \in Nat
              /\ (a + n - 1) \div Page \in Nat /\ (b + k - 1) \div Page \in Nat
            BY <2>1, Sizes, DivMod, DivMono
        <2>3. /\ Pages(b, k) = (b \div Page) .. ((b + k - 1) \div Page)
              /\ Pages(a, n) = (a \div Page) .. ((a + n - 1) \div Page)
            BY <2>1 DEF Pages
        <2> QED BY <2>2, <2>3
    <1> QED BY <1>1, <1>2

\* The page of one byte of a range.
LEMMA PageOfByte ==
    ASSUME NEW a \in Nat, NEW n \in Nat, NEW i \in Nat, i < n
    PROVE  (a + i) \div Page \in Pages(a, n)
    <1>1. Pages(a + i, 1) \subseteq Pages(a, n)
        BY PagesInside
    <1>2. (a + i) \div Page \in Pages(a + i, 1)
        BY PagesOf
    <1> QED BY <1>1, <1>2

-----------------------------------------------------------------------------
(***************************************************************************)
(* One handle among others                                                 *)
(***************************************************************************)

\* The numbers of a live handle.
LEMMA LiveType ==
    ASSUME TypeOK, NEW h \in Handles, Live(h)
    PROVE  /\ map[h] \in Mapping
           /\ map[h].base \in Nat /\ map[h].delta \in Nat /\ map[h].len \in Nat
           /\ map[h].os_len \in Nat /\ map[h].off \in Nat
           /\ ptr(map[h]) \in Nat
           /\ Owned(h) = Pages(map[h].base, map[h].os_len)
           /\ Window(h) = Pages(ptr(map[h]), map[h].len)
    <1>1. map[h] \in Mapping
        BY DEF TypeOK, Live
    <1> QED BY <1>1 DEF Mapping, Owned, Window, ptr

\* The window of a handle lies in its OS mapping; the placeholder has neither.
LEMMA WindowInside ==
    ASSUME TypeOK, NEW h \in Handles, Handled(h)
    PROVE  /\ Window(h) \subseteq Owned(h) /\ Owned(h) \subseteq Nat
           /\ Live(h) /\ map[h].len = 0 => Owned(h) = {}
           /\ Live(h) /\ map[h].len > 0 => map[h].base \div Page \in Owned(h)
    <1>1. CASE ~Live(h)
        BY <1>1 DEF Window, Owned
    <1>2. CASE Live(h)
        <2>1. Shape(map[h])
            BY <1>2 DEF Handled
        <2>2. CASE map[h].len = 0
            BY <1>2, <2>1, <2>2, LiveType, PagesOf DEF Shape
        <2>3. CASE map[h].len > 0
            <3>1. map[h].delta + map[h].len =< map[h].os_len /\ map[h].os_len > 0
                BY <1>2, <2>1, <2>3, LiveType DEF Shape
            <3>2. /\ map[h].base =< ptr(map[h])
                  /\ ptr(map[h]) + map[h].len =< map[h].base + map[h].os_len
                BY <1>2, <3>1, LiveType DEF ptr
            <3>3. Window(h) \subseteq Owned(h)
                BY <1>2, <3>2, LiveType, PagesInside
            <3> QED BY <1>2, <2>3, <3>1, <3>3, LiveType, PagesOf
        <2> QED BY <1>2, <2>2, <2>3, LiveType
    <1> QED BY <1>1, <1>2

\* The same of a Mapping that no handle holds yet.
LEMMA ShapeInside ==
    ASSUME NEW m \in Mapping, Shape(m)
    PROVE  Pages(ptr(m), m.len) \subseteq Pages(m.base, m.os_len)
    <1>1. /\ m.base \in Nat /\ m.os_len \in Nat /\ m.delta \in Nat /\ m.len \in Nat
          /\ ptr(m) \in Nat /\ ptr(m) = m.base + m.delta
        BY DEF Mapping, ptr
    <1>2. m.base =< ptr(m) /\ ptr(m) + m.len =< m.base + m.os_len
        BY <1>1 DEF Shape
    <1> QED BY <1>1, <1>2, PagesInside

\* No page belongs to two handles, or to a handle and another part of the
\* process.
LEMMA OwnedApart ==
    ASSUME TypeOK, Apart, NEW h \in Handles, Handled(h)
    PROVE  /\ \A p \in Owned(h) : p \notin Foreign
           /\ \A g \in Handles \ {h} : Handled(g) => Owned(g) \cap Owned(h) = {}
           /\ \A p \in Owned(h) : Live(h) /\ map[h].len > 0 /\ map[h].base \in Bases
    <1>1. ASSUME NEW p \in Owned(h)
          PROVE  /\ Live(h) /\ map[h].len > 0 /\ map[h].base \in Bases
                 /\ vm[p].view = map[h].base
        <2>1. Live(h)
            BY <1>1 DEF Owned
        <2>2. map[h].len > 0
            BY <1>1, <2>1, WindowInside, LiveType
        <2> QED BY <1>1, <2>1, <2>2 DEF Handled, Shape, BelongsTo
    <1>2. \A p \in Owned(h) : p \notin Foreign
        BY <1>1, Sizes DEF Apart
    <1>3. ASSUME NEW g \in Handles \ {h}, Handled(g), NEW p \in Owned(g) \cap Owned(h)
          PROVE  FALSE
        <2>1. Live(g)
            BY <1>3 DEF Owned
        <2>2. map[g].len > 0
            BY <1>3, <2>1, WindowInside, LiveType
        <2>3. vm[p].view = map[g].base
            BY <1>3, <2>1 DEF Handled, BelongsTo
        <2> QED BY <1>1, <1>3, <2>1, <2>2, <2>3 DEF Apart
    <1> QED BY <1>1, <1>2, <1>3

\* A step that leaves the pages of the other handles as they are keeps what
\* holds of those handles.
LEMMA OthersKept ==
    ASSUME TypeOK, Apart, \A k \in Handles : Handled(k) /\ Pinned(k),
           NEW h \in Handles, UNCHANGED fileLen,
           \A g \in Handles \ {h} : map'[g] = map[g],
           \A g \in Handles \ {h} : \A p \in Owned(g) :
                p \in DOMAIN vm' /\ vm'[p] = vm[p] /\ (p \in locked' <=> p \in locked)
    PROVE  \A g \in Handles \ {h} :
                /\ Live(g)' = Live(g) /\ Owned(g)' = Owned(g)
                /\ Handled(g)' /\ Pinned(g)'
    <1> SUFFICES ASSUME NEW g \in Handles \ {h}
                 PROVE  /\ Live(g)' = Live(g) /\ Owned(g)' = Owned(g)
                        /\ Handled(g)' /\ Pinned(g)'
        OBVIOUS
    <1>1. Live(g)' = Live(g) /\ Owned(g)' = Owned(g) /\ Window(g)' = Window(g)
        BY DEF Live, Owned, Window, ptr
    <1>2. Handled(g)'
        <2> SUFFICES ASSUME Live(g)
                     PROVE  /\ Shape(map[g])' /\ Access(map[g])'
                            /\ \A p \in Owned(g) : BelongsTo(p, map[g])' /\ Protected(p, map[g])'
            BY <1>1 DEF Handled
        <2>1. Shape(map[g])' /\ Access(map[g])'
            BY DEF Handled, Shape, Access
        <2>2. ASSUME NEW p \in Owned(g) PROVE BelongsTo(p, map[g])' /\ Protected(p, map[g])'
            BY <2>2 DEF Handled, BelongsTo, Protected
        <2> QED BY <2>1, <2>2
    <1>3. Pinned(g)'
        <2>1. Window(g) \subseteq Owned(g)
            BY WindowInside
        <2> QED BY <1>1, <2>1 DEF Pinned
    <1> QED BY <1>1, <1>2, <1>3

-----------------------------------------------------------------------------
(***************************************************************************)
(* Drop                                                                    *)
(***************************************************************************)

\* The unmap call of each backend takes the pages of the OS mapping, neither
\* more nor less: munmap is given all of a huge page mapping, and no other
\* view starts at the address that UnmapViewOfFile is given.
LEMMA UnmapExact ==
    ASSUME TypeOK, Apart, \A k \in Handles : Handled(k), NEW h \in Handles, Live(h), map[h].len > 0
    PROVE  os_unmap(map[h].base, map[h].os_len) = Owned(h)
    <1>1. /\ Owned(h) = Pages(map[h].base, map[h].os_len)
          /\ \A p \in Owned(h) : BelongsTo(p, map[h])
        BY LiveType DEF Handled
    <1>2. Owned(h) \subseteq DOMAIN vm
        BY <1>1 DEF BelongsTo
    <1>3. CASE plat = "windows"
        <2>1. ASSUME NEW p \in DOMAIN vm, vm[p].view = map[h].base PROVE p \in Owned(h)
            <3>1. map[h].base \in Bases
                BY DEF Handled, Shape
            <3>2. p \notin Foreign
                BY <2>1, <3>1, Sizes DEF Apart
            <3>3. PICK g \in Handles : p \in Owned(g)
                BY <2>1, <3>2 DEF Apart
            <3>4. Live(g) /\ map[g].len > 0 /\ vm[p].view = map[g].base
                BY <3>3, OwnedApart DEF Handled, BelongsTo
            <3> QED BY <2>1, <3>3, <3>4 DEF Apart
        <2>2. \A p \in Owned(h) : p \in DOMAIN vm /\ vm[p].view = map[h].base
            BY <1>1 DEF BelongsTo
        <2> QED BY <1>3, <2>1, <2>2 DEF os_unmap, windows_unmap
    <1>4. CASE plat # "windows"
        <2>1. ~(map[h].os_len % Huge # 0 /\ \E p \in Owned(h) \cap DOMAIN vm : vm[p].huge)
            <3> SUFFICES ASSUME NEW p \in Owned(h) \cap DOMAIN vm, vm[p].huge
                         PROVE  map[h].os_len % Huge = 0
                OBVIOUS
            <3>1. vm[p].huge \in BOOLEAN
                BY DEF TypeOK
            <3>2. vm[p].huge = TRUE
                BY <3>1
            <3> QED BY <1>1, <3>2 DEF BelongsTo
        <2>2. Owned(h) \cap DOMAIN vm = Owned(h)
            BY <1>2
        <2> QED BY <1>1, <1>4, <2>1, <2>2 DEF os_unmap, unix_unmap
    <1> QED BY <1>3, <1>4

\* Drop unmaps what the handle owns, and nothing else.
LEMMA DropInv ==
    ASSUME IInv, NEW h \in Handles, Live(h), Drop(h), NEW res \in {"ok", "err"}, Plainly(res)
    PROVE  IInv'
    <1> USE DEF IInv
    <1>1. PICK gone : /\ gone = (IF map[h].len = 0 THEN {} ELSE os_unmap(map[h].base, map[h].os_len))
                      /\ vm' = [p \in DOMAIN vm \ gone |-> vm[p]]
                      /\ priv' = priv \ gone /\ locked' = locked \ gone
        BY DEF Drop, Restrict
    <1>2. gone = Owned(h)
        BY <1>1, UnmapExact, WindowInside, LiveType
    <1>3. /\ map' = [map EXCEPT ![h] = None] /\ wrote' = wrote \ Owned(h)
          /\ UNCHANGED <<dirty, handed, plat, fileLen, fmode>>
        BY LiveType DEF Drop, env
    <1>4. /\ DOMAIN vm' = DOMAIN vm \ Owned(h)
          /\ \A p \in DOMAIN vm \ Owned(h) : vm'[p] = vm[p]
        BY <1>1, <1>2
    <1>5. map'[h] = None /\ \A g \in Handles \ {h} : map'[g] = map[g]
        BY <1>3 DEF TypeOK
    <1>6. \A g \in Handles \ {h} : \A p \in Owned(g) :
                p \in DOMAIN vm' /\ vm'[p] = vm[p] /\ (p \in locked' <=> p \in locked)
        <2> SUFFICES ASSUME NEW g \in Handles \ {h}, NEW p \in Owned(g)
                     PROVE  p \in DOMAIN vm' /\ vm'[p] = vm[p] /\ (p \in locked' <=> p \in locked)
            OBVIOUS
        <2>1. p \notin Owned(h) /\ p \in DOMAIN vm
            BY OwnedApart DEF Handled, BelongsTo, Owned
        <2> QED BY <1>1, <1>2, <1>4, <2>1
    <1>7. \A g \in Handles \ {h} :
                Live(g)' = Live(g) /\ Owned(g)' = Owned(g) /\ Handled(g)' /\ Pinned(g)'
        BY <1>3, <1>5, <1>6, OthersKept
    <1>8. ~Live(h)' /\ Owned(h)' = {} /\ Window(h)' = {}
        BY <1>5 DEF Live, Owned, Window
    <1>9. \A k \in Handles : Handled(k)' /\ Pinned(k)'
        BY <1>7, <1>8 DEF Handled, Pinned
    <1>10. TypeOK'
        <2>1. map' \in [Handles -> Mapping \cup {None}]
            BY <1>3 DEF TypeOK
        <2> QED BY <1>1, <1>3, <1>4, <2>1 DEF TypeOK
    <1>11. Apart'
        <2>1. \A p \in Foreign : p \in DOMAIN vm' /\ vm'[p].view = 0
            BY <1>4, OwnedApart DEF Apart
        <2>2. \A p \in DOMAIN vm' : p \in Foreign \/ \E g \in Handles : p \in Owned(g)'
            BY <1>4, <1>7 DEF Apart
        <2>3. \A g, k \in Handles :
                Live(g)' /\ Live(k)' /\ map'[g].len > 0 /\ map'[k].len > 0 /\ g # k
                    => map'[g].base # map'[k].base
            BY <1>5, <1>7, <1>8 DEF Apart
        <2> QED BY <2>1, <2>2, <2>3 DEF Apart
    <1>12. Kept' /\ PrivateKept'
        BY <1>1, <1>2, <1>3, <1>4 DEF Kept, PrivateKept
    <1>13. SpanContract' /\ FlushDurable'
        BY DEF Plainly, Returned, SpanContract, FlushDurable
    <1> QED BY <1>9, <1>10, <1>11, <1>12, <1>13

-----------------------------------------------------------------------------
(***************************************************************************)
(* The constructors                                                        *)
(***************************************************************************)

\* An entry of the page table.
PageEntry ==
    [obj : {"shared", "private"}, prot : {"r", "rw", "wc"}, prots : SUBSET {"r", "rw", "wc"},
     view : Bases \cup {0}, huge : BOOLEAN, fpage : Nat \cup {None}]

\* A new mapping in free pages that show what it says keeps the invariant.
LEMMA CreatedInv ==
    ASSUME IInv, NEW h \in Handles, map[h] = None,
           NEW m \in Mapping, NEW pages, Created(h, m, pages),
           Shape(m), Access(m), m.pinned = FALSE,
           DOMAIN pages = Pages(m.base, m.os_len), DOMAIN pages \cap DOMAIN vm = {},
           \A p \in DOMAIN pages : pages[p] \in PageEntry /\ BelongsTo(p, m)' /\ Protected(p, m)'
    PROVE  IInv'
    <1> USE DEF IInv
    <1>1. /\ map' = [map EXCEPT ![h] = m]
          /\ DOMAIN vm' = DOMAIN vm \cup DOMAIN pages
          /\ \A p \in DOMAIN pages : vm'[p] = pages[p]
          /\ \A p \in DOMAIN vm : vm'[p] = vm[p]
          /\ last' = [res |-> "ok", span |-> NoSpan, asked |-> {}]
          /\ UNCHANGED <<dirty, handed, priv, locked, wrote, plat, fileLen, fmode>>
        BY DEF Created, Plainly, Returned, env
    <1>2. map'[h] = m /\ m # None /\ \A g \in Handles \ {h} : map'[g] = map[g]
        BY <1>1, NoneAssumption DEF TypeOK
    <1>3. \A g \in Handles : Owned(g) \subseteq DOMAIN vm
        BY DEF Handled, BelongsTo, Owned
    <1>4. \A g \in Handles \ {h} :
                Live(g)' = Live(g) /\ Owned(g)' = Owned(g) /\ Handled(g)' /\ Pinned(g)'
        <2>1. \A g \in Handles \ {h} : \A p \in Owned(g) :
                p \in DOMAIN vm' /\ vm'[p] = vm[p] /\ (p \in locked' <=> p \in locked)
            BY <1>1, <1>3
        <2> QED BY <1>1, <1>2, <2>1, OthersKept
    <1>5. Live(h)' /\ Owned(h)' = DOMAIN pages /\ ~Live(h) /\ Owned(h) = {}
        BY <1>2 DEF Live, Owned
    <1>6. TypeOK'
        <2>1. map' \in [Handles -> Mapping \cup {None}]
            BY <1>1 DEF TypeOK
        <2>2. DOMAIN pages \subseteq Nat
            BY PagesOf DEF Mapping
        <2>3. \A p \in DOMAIN vm' : vm'[p] \in PageEntry
            BY <1>1 DEF TypeOK, PageEntry
        <2> QED BY <1>1, <2>1, <2>2, <2>3 DEF TypeOK, PageEntry
    <1>7. Handled(h)'
        <2>1. Shape(map[h])' /\ Access(map[h])'
            BY <1>1, <1>2 DEF Shape, Access
        <2>2. \A p \in DOMAIN pages : BelongsTo(p, map[h])' /\ Protected(p, map[h])'
            BY <1>2 DEF BelongsTo, Protected
        <2> QED BY <1>5, <2>1, <2>2 DEF Handled
    <1>8. Pinned(h)'
        <2>1. Window(h)' \subseteq Owned(h)'
            BY <1>2, <1>5, ShapeInside DEF Window
        <2>2. Window(h)' \cap locked' = {}
            BY <1>1, <1>5, <2>1 DEF Kept
        <2> QED BY <1>2, <2>2 DEF Pinned
    <1>9. Apart'
        <2>1. \A p \in Foreign : p \in DOMAIN vm' /\ vm'[p].view = 0
            BY <1>1 DEF Apart
        <2>2. \A p \in DOMAIN vm' : p \in Foreign \/ \E g \in Handles : p \in Owned(g)'
            BY <1>1, <1>4, <1>5 DEF Apart
        <2>3. ASSUME NEW g \in Handles \ {h}, Live(g), map[g].len > 0, m.len > 0
              PROVE  map[g].base # m.base
            <3>1. map[g].base \div Page \in DOMAIN vm
                BY <1>3, <2>3, WindowInside
            <3>2. m.base \div Page \in DOMAIN pages
                <4>1. m.base \in Nat /\ m.os_len \in Nat /\ m.os_len > 0
                    BY <2>3 DEF Mapping, Shape
                <4> QED BY <4>1, PagesOf
            <3> QED BY <3>1, <3>2
        <2>4. \A g, k \in Handles :
                Live(g)' /\ Live(k)' /\ map'[g].len > 0 /\ map'[k].len > 0 /\ g # k
                    => map'[g].base # map'[k].base
            BY <1>2, <1>4, <2>3 DEF Apart
        <2> QED BY <2>1, <2>2, <2>4 DEF Apart
    <1>10. Kept' /\ PrivateKept'
        BY <1>1 DEF Kept, PrivateKept
    <1>11. SpanContract' /\ FlushDurable'
        BY <1>1 DEF SpanContract, FlushDurable
    <1> QED BY <1>4, <1>6, <1>7, <1>8, <1>9, <1>10, <1>11

\* The empty placeholder maps nothing.
LEMMA EmptyInv ==
    ASSUME IInv, NEW h \in Handles, map[h] = None,
           NEW kind \in {"Read", "Write", "Copy", "Anon"}, NEW offset \in Nat,
           kind # "Anon" => offset =< fileLen,
           Created(h, Mapping_empty(kind, offset), Restrict(vm, {}))
    PROVE  IInv'
    <1>1. PICK m \in Mapping : m = Mapping_empty(kind, offset)
        BY DEF Mapping_empty, Mapping
    <1>2. PICK pages : pages = Restrict(vm, {})
        OBVIOUS
    <1>3. /\ m.base = 0 /\ m.os_len = 0 /\ m.len = 0 /\ m.delta = 0 /\ m.off = offset
          /\ m.pinned = FALSE /\ m.kind = kind
        BY <1>1 DEF Mapping_empty
    <1>4. fileLen \in Nat
        BY ArgumentsAssumption DEF IInv, TypeOK
    <1>5. Shape(m)
        BY <1>3, <1>4 DEF Shape
    <1>6. Access(m)
        <2>1. kind = "Read" => m.mut = FALSE
            BY <1>1, Zenon DEF Mapping_empty
        <2> QED BY <1>3, <2>1 DEF Access
    <1>7. DOMAIN pages = {} /\ Pages(m.base, m.os_len) = {}
        BY <1>2, <1>3 DEF Restrict, Pages
    <1> QED BY <1>1, <1>2, <1>3, <1>5, <1>6, <1>7, CreatedInv

\* A mapping that the OS placed in free pages: they show the file from the
\* offset on that the window was rounded down to.
LEMMA PlacedInv ==
    ASSUME IInv, NEW h \in Handles, map[h] = None,
           NEW m \in Mapping, NEW how, NEW offset \in Nat \cup {None}, NEW huge \in BOOLEAN,
           m.len > 0, Shape(m), Access(m), m.pinned = FALSE, m.base \in Room(m.os_len),
           how.obj = IF is_private(m.kind) THEN "private" ELSE "shared",
           how.prot \in {"r", "rw", "wc"}, how.prots \in SUBSET {"r", "rw", "wc"},
           IF m.mut THEN how.prot # "r" ELSE how.prot = "r",
           huge = TRUE => m.os_len % Huge = 0,
           m.kind # "Anon" => offset \in Nat /\ offset = m.off - m.delta,
           Created(h, m, Mapped(m.base, m.os_len, how, offset, huge))
    PROVE  IInv'
    <1>1. PICK pages : pages = Mapped(m.base, m.os_len, how, offset, huge)
        OBVIOUS
    <1>2. /\ m.base \in Bases /\ m.base \in Nat /\ m.os_len \in Nat
          /\ Pages(m.base, m.os_len) \cap DOMAIN vm = {}
        BY DEF Room, Mapping
    <1>3. /\ DOMAIN pages = Pages(m.base, m.os_len)
          /\ \A p \in DOMAIN pages :
                pages[p] = [obj |-> how.obj, prot |-> how.prot, prots |-> how.prots,
                            view |-> m.base, huge |-> huge,
                            fpage |-> IF offset = None THEN None
                                      ELSE offset \div Page + (p - m.base \div Page)]
        BY <1>1 DEF Mapped
    <1>4. ASSUME NEW p \in DOMAIN pages PROVE pages[p] \in PageEntry
        <2>1. (IF offset = None THEN None ELSE offset \div Page + (p - m.base \div Page))
                \in Nat \cup {None}
            <3>1. p \in Nat /\ m.base \div Page =< p /\ m.base \div Page \in Nat
                BY <1>2, <1>3, <1>4, PagesOf, Sizes, DivMod
            <3>2. offset # None => offset \div Page \in Nat
                BY Sizes, DivMod
            <3> QED BY <3>1, <3>2
        <2>2. how.obj \in {"shared", "private"}
            OBVIOUS
        <2> QED BY <1>2, <1>3, <2>1, <2>2 DEF PageEntry
    <1>5. ASSUME NEW p \in DOMAIN pages PROVE BelongsTo(p, m)' /\ Protected(p, m)'
        <2>1. p \in DOMAIN vm' /\ vm'[p] = pages[p]
            BY <1>1, <1>5 DEF Created
        <2>2. m.kind # "Anon" => offset # None
            BY NoneAssumption
        <2>3. vm'[p].view = m.base /\ vm'[p].obj = how.obj /\ vm'[p].prot = how.prot
            BY <1>3, <1>5, <2>1
        <2>4. vm'[p].huge = huge
            BY <1>3, <1>5, <2>1
        <2>5. m.kind # "Anon" => vm'[p].fpage = (m.off - m.delta) \div Page + (p - m.base \div Page)
            BY <1>3, <1>5, <2>1, <2>2
        <2> QED BY <2>1, <2>3, <2>4, <2>5 DEF BelongsTo, Protected
    <1> QED BY <1>1, <1>2, <1>3, <1>4, <1>5, CreatedInv

\* Every backend maps what it is asked for: the file from the rounded offset,
\* with the protection of the access, and remembers whether there is something
\* to flush.
LEMMA OsMapFile ==
    ASSUME NEW access \in {"Read", "Write", "Copy"}, NEW lay, NEW r \in os_map_file(access, lay)
    PROVE  \E how :
             /\ r.base \in Room(lay.map_len) /\ r.os_len = lay.map_len
             /\ r.backing = IF access = "Write" THEN "Shared" ELSE "Private"
             /\ r.pages = Mapped(r.base, r.os_len, how, lay.aligned_offset, FALSE)
             /\ how.obj = IF access = "Copy" THEN "private" ELSE "shared"
             /\ how.prot \in {"r", "rw", "wc"} /\ how.prots \in SUBSET {"r", "rw", "wc"}
             /\ how.prot = "r" <=> access = "Read"
    <1>1. CASE plat = "windows"
        <2>1. PICK b : /\ b \in Room(lay.map_len)
                       /\ r = [base |-> b, backing |-> windows_access(access).backing,
                               os_len |-> lay.map_len,
                               pages |-> Mapped(b, lay.map_len, windows_access(access),
                                                lay.aligned_offset, FALSE)]
            BY <1>1 DEF os_map_file, windows_map_file, map_view
        <2>2. PICK how : how = windows_access(access)
            OBVIOUS
        <2>3. /\ how.backing = IF access = "Write" THEN "Shared" ELSE "Private"
              /\ how.obj = IF access = "Copy" THEN "private" ELSE "shared"
              /\ how.prot \in {"r", "rw", "wc"} /\ how.prots \in SUBSET {"r", "rw", "wc"}
              /\ how.prot = "r" <=> access = "Read"
            BY <2>2 DEF windows_access
        <2> QED BY <2>1, <2>2, <2>3
    <1>2. CASE plat # "windows"
        <2>1. PICK b : /\ b \in Room(lay.map_len)
                       /\ r = [base |-> b, backing |-> unix_access(access).backing,
                               os_len |-> lay.map_len,
                               pages |-> Mapped(b, lay.map_len, unix_access(access),
                                                lay.aligned_offset, FALSE)]
            BY <1>2 DEF os_map_file, unix_map_file
        <2>2. PICK how : how = unix_access(access)
            OBVIOUS
        <2>3. /\ how.backing = IF access = "Write" THEN "Shared" ELSE "Private"
              /\ how.obj = IF access = "Copy" THEN "private" ELSE "shared"
              /\ how.prot \in {"r", "rw", "wc"} /\ how.prots \in SUBSET {"r", "rw", "wc"}
              /\ how.prot = "r" <=> access = "Read"
            BY <2>2 DEF unix_access
        <2> QED BY <2>1, <2>2, <2>3
    <1> QED BY <1>1, <1>2

\* The granularity is a whole number of pages on every target.
LEMMA Granularity ==
    ASSUME NEW gran \in offset_granularity
    PROVE  gran \in Nat \ {0} /\ gran % Page = 0
    <1>1. Page % Page = 0
        <2>1. Page = 1 * Page /\ 1 \in Nat
            BY Sizes
        <2> QED BY <2>1, Sizes, MultipleMod
    <1>2. gran = Page \/ gran = Gran
        BY DEF offset_granularity, windows_granularity, unix_granularity, stub_granularity
    <1> QED BY <1>1, <1>2, SizesAssumption

\* The checked arithmetic of range.rs.
LEMMA ResolveLen ==
    ASSUME NEW file_len \in Nat, NEW offset \in Nat, NEW req \in Nat \cup {None},
           NEW len \in resolve_len(file_len, offset, req)
    PROVE  len \in Nat /\ offset + len =< file_len
    BY DEF resolve_len

LEMMA Layout ==
    ASSUME NEW offset \in Nat, NEW len \in Nat, NEW gran \in Nat \ {0}, gran % Page = 0,
           NEW lay \in layout(offset, len, gran)
    PROVE  /\ lay.aligned_offset \in Nat /\ lay.aligned_offset % Page = 0
           /\ lay.delta \in Nat /\ lay.aligned_offset + lay.delta = offset
           /\ lay.len = len /\ lay.map_len = len + lay.delta /\ lay.map_len \in Nat
    <1>1. /\ lay = [aligned_offset |-> offset - (offset % gran), delta |-> offset % gran,
                    len |-> len, map_len |-> len + (offset % gran)]
        BY DEF layout
    <1>2. /\ offset % gran \in Nat /\ offset - (offset % gran) \in Nat
          /\ (offset - (offset % gran)) % gran = 0
        BY DivMod, RoundDown
    <1>3. (offset - (offset % gran)) % Page = 0
        BY <1>2, Sizes, MultipleOfMultiple
    <1> QED BY <1>1, <1>2, <1>3

\* map, map_mut and map_copy
LEMMA MapImplInv ==
    ASSUME IInv, NEW h \in Handles, NEW access \in {"Read", "Write", "Copy"},
           NEW offset \in Offsets, NEW req \in Lens \cup {None}, map_impl(h, access, offset, req)
    PROVE  IInv'
    <1>1. map[h] = None /\ offset \in Nat /\ req \in Nat \cup {None} /\ fileLen \in Nat
        BY ArgumentsAssumption DEF map_impl, IInv, TypeOK
    <1>2. PICK gran \in offset_granularity, len \in resolve_len(fileLen, offset, req) :
          \E lay \in layout(offset, len, gran) :
            \/ /\ lay.len = 0
               /\ Created(h, Mapping_empty(access, offset), Restrict(vm, {}))
            \/ /\ lay.len > 0
               /\ \E r \in os_map_file(access, lay) : Created(h, from_os(r, lay, access), r.pages)
        BY DEF map_impl
    <1>3. PICK lay \in layout(offset, len, gran) :
            \/ /\ lay.len = 0
               /\ Created(h, Mapping_empty(access, offset), Restrict(vm, {}))
            \/ /\ lay.len > 0
               /\ \E r \in os_map_file(access, lay) : Created(h, from_os(r, lay, access), r.pages)
        BY <1>2
    <1>4. len \in Nat /\ offset + len =< fileLen
        BY <1>1, ResolveLen
    <1>5. /\ lay.aligned_offset \in Nat /\ lay.aligned_offset % Page = 0
          /\ lay.delta \in Nat /\ lay.aligned_offset + lay.delta = offset
          /\ lay.len = len /\ lay.map_len = len + lay.delta /\ lay.map_len \in Nat
        BY <1>1, <1>4, Granularity, Layout
    <1>6. CASE Created(h, Mapping_empty(access, offset), Restrict(vm, {}))
        BY <1>1, <1>4, <1>6, EmptyInv
    <1>7. ASSUME lay.len > 0, NEW r \in os_map_file(access, lay),
                 Created(h, from_os(r, lay, access), r.pages)
          PROVE  IInv'
        <2>1. PICK how :
                /\ r.base \in Room(lay.map_len) /\ r.os_len = lay.map_len
                /\ r.backing = IF access = "Write" THEN "Shared" ELSE "Private"
                /\ r.pages = Mapped(r.base, r.os_len, how, lay.aligned_offset, FALSE)
                /\ how.obj = IF access = "Copy" THEN "private" ELSE "shared"
                /\ how.prot \in {"r", "rw", "wc"} /\ how.prots \in SUBSET {"r", "rw", "wc"}
                /\ how.prot = "r" <=> access = "Read"
            BY <1>7, OsMapFile
        <2>2. PICK m : m = from_os(r, lay, access)
            OBVIOUS
        <2>3. /\ m.base = r.base /\ m.delta = lay.delta /\ m.len = lay.len /\ m.os_len = r.os_len
              /\ m.backing = r.backing /\ m.kind = access /\ m.off = offset /\ m.pinned = FALSE
            BY <1>5, <2>2 DEF from_os
        <2>4. m.mut = (access # "Read")
            BY <2>2, Zenon DEF from_os
        <2>5. r.base \in Bases /\ r.base \in Nat
            BY <2>1, Sizes DEF Room
        <2>6. m \in Mapping
            <3>1. PICK mut \in BOOLEAN : mut = (access # "Read")
                OBVIOUS
            <3>2. m = [mut |-> mut, base |-> r.base, delta |-> lay.delta, len |-> lay.len,
                       os_len |-> r.os_len, backing |-> r.backing, kind |-> access,
                       off |-> lay.aligned_offset + lay.delta, pinned |-> FALSE]
                BY <2>2, <3>1, Zenon DEF from_os
            <3>3. r.backing \in {"Private", "Shared"}
                BY <2>1
            <3>4. lay.len \in Nat /\ r.os_len \in Nat /\ lay.aligned_offset + lay.delta \in Nat
                BY <1>4, <1>5, <2>1
            <3> QED BY <1>5, <2>5, <3>1, <3>2, <3>3, <3>4 DEF Mapping
        <2>7. m.off - m.delta = lay.aligned_offset /\ m.delta =< m.off
            BY <1>5, <2>3
        <2>8. Shape(m)
            BY <1>1, <1>4, <1>5, <1>7, <2>1, <2>3, <2>5, <2>7 DEF Shape
        <2>9. Access(m)
            BY <2>1, <2>3, <2>4 DEF Access
        <2>10. IF m.mut THEN how.prot # "r" ELSE how.prot = "r"
            BY <2>1, <2>4, Zenon
        <2>11. how.obj = IF is_private(m.kind) THEN "private" ELSE "shared"
            BY <2>1, <2>3 DEF is_private
        <2>12. /\ m.base \in Room(m.os_len) /\ m.len > 0 /\ m.pinned = FALSE
               /\ how.prot \in {"r", "rw", "wc"} /\ how.prots \in SUBSET {"r", "rw", "wc"}
               /\ lay.aligned_offset \in Nat /\ lay.aligned_offset = m.off - m.delta
            BY <1>5, <1>7, <2>1, <2>3, <2>7
        <2>13. Created(h, m, Mapped(m.base, m.os_len, how, lay.aligned_offset, FALSE))
            BY <1>7, <2>1, <2>2, <2>3
        <2> QED BY <1>1, <2>6, <2>8, <2>9, <2>10, <2>11, <2>12, <2>13, PlacedInv
    <1> QED BY <1>3, <1>6, <1>7

\* map_anon: with huge pages the OS mapping is longer than the window.
LEMMA MapAnonInv ==
    ASSUME IInv, NEW h \in Handles, NEW req \in Lens \cup {None}, NEW huge \in BOOLEAN,
           RawMmapOptions_map_anon(h, req, huge)
    PROVE  IInv'
    <1>1. PICK len \in Nat : len = IF req = None THEN 0 ELSE req
        BY ArgumentsAssumption
    <1>2. map[h] = None
        BY DEF RawMmapOptions_map_anon
    <1>3. PICK gran \in offset_granularity : \E lay \in layout(0, len, gran) :
            \/ /\ lay.len = 0
               /\ Created(h, Mapping_empty("Anon", 0), Restrict(vm, {}))
            \/ /\ lay.len > 0
               /\ \E r \in os_map_anon(lay.map_len, huge) : Created(h, from_os(r, lay, "Anon"), r.pages)
        BY <1>1 DEF RawMmapOptions_map_anon
    <1>4. PICK lay \in layout(0, len, gran) :
            \/ /\ lay.len = 0
               /\ Created(h, Mapping_empty("Anon", 0), Restrict(vm, {}))
            \/ /\ lay.len > 0
               /\ \E r \in os_map_anon(lay.map_len, huge) : Created(h, from_os(r, lay, "Anon"), r.pages)
        BY <1>3
    <1>5. /\ lay.delta = 0 /\ lay.aligned_offset = 0
          /\ lay.len = len /\ lay.map_len = len
        BY Granularity, Layout
    <1>6. CASE Created(h, Mapping_empty("Anon", 0), Restrict(vm, {}))
        BY <1>2, <1>6, EmptyInv
    <1>7. ASSUME lay.len > 0, NEW r \in os_map_anon(lay.map_len, huge),
                 Created(h, from_os(r, lay, "Anon"), r.pages)
          PROVE  IInv'
        <2>1. PICK how, hp :
                /\ hp \in BOOLEAN
                /\ r.base \in Room(r.os_len) /\ r.os_len \in Nat /\ len =< r.os_len
                /\ r.backing = "Private"
                /\ r.pages = Mapped(r.base, r.os_len, how, None, hp)
                /\ how.obj = "private" /\ how.prot = "rw" /\ how.prots \in SUBSET {"r", "rw", "wc"}
                /\ hp = TRUE => r.os_len % Huge = 0
            <3>1. PICK how : how = [prot |-> "rw", obj |-> "private", prots |-> {"r", "rw"}]
                OBVIOUS
            <3>2. CASE plat = "windows"
                <4>1. PICK b : /\ b \in Room(len)
                               /\ r = [base |-> b, backing |-> "Private", os_len |-> len,
                                       pages |-> Mapped(b, len, how, None, FALSE)]
                    BY <1>5, <1>7, <3>1, <3>2 DEF os_map_anon, windows_map_anon, map_view
                <4>2. /\ r.base = b /\ r.os_len = len /\ r.backing = "Private"
                      /\ r.pages = Mapped(b, len, how, None, FALSE)
                    BY <4>1
                <4>3. /\ how.obj = "private" /\ how.prot = "rw"
                      /\ how.prots \in SUBSET {"r", "rw", "wc"}
                    BY <3>1
                <4>4. /\ FALSE \in BOOLEAN /\ r.base \in Room(r.os_len) /\ r.os_len \in Nat
                      /\ len =< r.os_len /\ r.backing = "Private"
                      /\ r.pages = Mapped(r.base, r.os_len, how, None, FALSE)
                      /\ how.obj = "private" /\ how.prot = "rw"
                      /\ how.prots \in SUBSET {"r", "rw", "wc"}
                      /\ FALSE = TRUE => r.os_len % Huge = 0
                    BY <4>1, <4>2, <4>3
                <4> QED BY <4>4, Zenon
            <3>3. CASE plat # "windows"
                <4>1. PICK hp \in BOOLEAN : hp = (huge /\ plat = "linux")
                    OBVIOUS
                <4>2. PICK n \in huge_layout(len, huge) : \E b \in Room(n) :
                        r = [base |-> b, backing |-> "Private", os_len |-> n,
                             pages |-> Mapped(b, n, how, None, hp)]
                    BY <1>5, <1>7, <3>1, <3>3, <4>1 DEF os_map_anon, unix_map_anon
                <4>3. n \in Nat /\ len =< n /\ (hp = TRUE => n % Huge = 0)
                    <5>1. CASE hp = TRUE
                        <6>1. n = ((len + Huge - 1) \div Huge) * Huge
                            BY <4>1, <5>1 DEF huge_layout
                        <6> QED BY <6>1, Sizes, RoundUp
                    <5>2. CASE hp = FALSE
                        <6>1. ~(huge /\ plat = "linux")
                            BY <4>1, <5>2
                        <6>2. n = len
                            BY <6>1 DEF huge_layout
                        <6> QED BY <5>2, <6>2
                    <5> QED BY <5>1, <5>2
                <4>4. /\ r.base \in Room(n) /\ r.os_len = n /\ r.backing = "Private"
                      /\ r.pages = Mapped(r.base, n, how, None, hp)
                    BY <4>2
                <4>5. /\ how.obj = "private" /\ how.prot = "rw"
                      /\ how.prots \in SUBSET {"r", "rw", "wc"}
                    BY <3>1
                <4> QED BY <4>3, <4>4, <4>5
            <3> QED BY <3>2, <3>3
        <2>2. PICK m : m = from_os(r, lay, "Anon")
            OBVIOUS
        <2>3. /\ m.base = r.base /\ m.delta = 0 /\ m.len = len /\ m.os_len = r.os_len
              /\ m.backing = r.backing /\ m.kind = "Anon" /\ m.off = 0 /\ m.pinned = FALSE
            BY <1>5, <2>2 DEF from_os
        <2>4. m.mut = TRUE
            BY <2>2 DEF from_os
        <2>5. r.base \in Bases /\ r.base \in Nat
            BY <2>1, Sizes DEF Room
        <2>6. m \in Mapping
            BY <1>5, <2>1, <2>2, <2>5 DEF from_os, Mapping
        <2>7. Shape(m) /\ Access(m)
            BY <1>5, <1>7, <2>1, <2>3, <2>5 DEF Shape, Access
        <2>8. IF m.mut THEN how.prot # "r" ELSE how.prot = "r"
            BY <2>1, <2>4
        <2>9. how.obj = IF is_private(m.kind) THEN "private" ELSE "shared"
            BY <2>1, <2>3 DEF is_private
        <2>10. /\ m.base \in Room(m.os_len) /\ m.len > 0 /\ m.pinned = FALSE
               /\ how.prot \in {"r", "rw", "wc"} /\ how.prots \in SUBSET {"r", "rw", "wc"}
               /\ m.kind = "Anon" /\ (hp = TRUE => m.os_len % Huge = 0)
            BY <1>5, <1>7, <2>1, <2>3
        <2>11. Created(h, m, Mapped(m.base, m.os_len, how, None, hp))
            BY <1>7, <2>1, <2>2, <2>3
        <2> QED BY <1>2, <2>1, <2>6, <2>7, <2>8, <2>9, <2>10, <2>11, PlacedInv
    <1> QED BY <1>4, <1>6, <1>7

-----------------------------------------------------------------------------
(***************************************************************************)
(* Ranges handed to the OS                                                 *)
(***************************************************************************)

\* The pages of n bytes that start x bytes behind an aligned address a.
LEMMA PagesAt ==
    ASSUME NEW a \in Nat, a % Page = 0, NEW x \in Nat, NEW n \in Nat, n > 0
    PROVE  /\ Pages(a + x, n) = (a \div Page + (x \div Page)) .. (a \div Page + ((x + n - 1) \div Page))
           /\ a \div Page \in Nat /\ x \div Page \in Nat /\ (x + n - 1) \div Page \in Nat
    <1>1. a = (a \div Page) * Page /\ a \div Page \in Nat
        BY Sizes, Multiple, DivMod
    <1>2. x + n - 1 \in Nat
        OBVIOUS
    <1>3. ASSUME NEW y \in Nat PROVE (a + y) \div Page = a \div Page + (y \div Page)
        <2>1. ((a \div Page) * Page + y) \div Page = a \div Page + (y \div Page)
            BY <1>1, Sizes, DivShift
        <2> QED BY <1>1, <2>1
    <1>4. a + x + n - 1 = a + (x + n - 1)
        BY <1>2
    <1>5. (a + x) \div Page = a \div Page + (x \div Page)
          /\ (a + x + n - 1) \div Page = a \div Page + ((x + n - 1) \div Page)
        BY <1>2, <1>3, <1>4
    <1>6. x \div Page \in Nat /\ (x + n - 1) \div Page \in Nat
        BY <1>2, Sizes, DivMod
    <1> QED BY <1>1, <1>5, <1>6 DEF Pages

\* What flush_span gives for a range that is not empty: it starts at the page
\* of the first byte and ends with the last byte.
LEMMA FlushSpan ==
    ASSUME NEW delta \in Nat, NEW window_len \in Nat, NEW offset \in Nat, NEW len \in Nat,
           NEW s \in flush_span(delta, window_len, offset, len), s[2] > 0
    PROVE  /\ len > 0 /\ offset + len =< window_len
           /\ s[1] \in Nat /\ s[2] \in Nat /\ s[1] % Page = 0
           /\ s[1] =< delta + offset /\ s[1] \div Page = (delta + offset) \div Page
           /\ s[1] + s[2] = delta + offset + len
    <1>1. PICK x \in Nat : x = delta + offset
        OBVIOUS
    <1>2. PICK start \in Nat : start = (x \div Page) * Page
        BY Sizes, RoundDown
    <1>3. start =< x /\ start % Page = 0 /\ start \div Page = x \div Page
        <2>1. x \div Page \in Nat
            BY Sizes, DivMod
        <2> QED BY <1>2, <2>1, Sizes, RoundDown, MultipleMod
    <1>4. start = ((delta + offset) \div Page) * Page
        BY <1>1, <1>2
    <1>5. \/ len = 0 /\ s = <<0, 0>>
          \/ len # 0 /\ s = <<start, (delta + offset + len) - start>>
        BY <1>4 DEF flush_span
    <1>6. offset =< window_len /\ len =< window_len - offset
        BY DEF flush_span
    <1>7. len > 0 /\ s[1] = start /\ s[2] = (delta + offset + len) - start
        BY <1>5
    <1> QED BY <1>1, <1>3, <1>6, <1>7

\* Rounding the start down to its page does not change the pages of a range.
LEMMA SpanPages ==
    ASSUME NEW base \in Nat, base % Page = 0, NEW x \in Nat, NEW len \in Nat, len > 0,
           NEW y \in Nat, NEW n \in Nat, n > 0, y + n = x + len, y \div Page = x \div Page
    PROVE  Pages(base + y, n) = Pages(base + x, len)
    <1>1. Pages(base + x, len)
            = (base \div Page + (x \div Page)) .. (base \div Page + ((x + len - 1) \div Page))
        BY PagesAt
    <1>2. Pages(base + y, n)
            = (base \div Page + (y \div Page)) .. (base \div Page + ((y + n - 1) \div Page))
        BY PagesAt
    <1>3. y + n - 1 = x + len - 1
        OBVIOUS
    <1> QED BY <1>1, <1>2, <1>3

\* The range that a ranged call hands to the OS is aligned, not empty, in the
\* window, and has the pages of the bytes that the caller named.
LEMMA SpanExact ==
    ASSUME TypeOK, NEW h \in Handles, Handled(h), Live(h),
           NEW offset \in Nat, NEW len \in Nat, NEW sp \in span(map[h], offset, len), sp[2] > 0
    PROVE  /\ sp[1] \in Nat /\ sp[2] \in Nat /\ sp[1] % Page = 0
           /\ map[h].base =< sp[1] /\ sp[1] + sp[2] =< ptr(map[h]) + map[h].len
           /\ len > 0 /\ offset + len =< map[h].len
           /\ map[h].base \in Nat /\ map[h].base % Page = 0
           /\ Pages(sp[1], sp[2]) = Pages(ptr(map[h]) + offset, len)
           /\ Pages(sp[1], sp[2]) \subseteq Window(h)
    <1>1. PICK base \in Nat, delta \in Nat, wlen \in Nat :
                base = map[h].base /\ delta = map[h].delta /\ wlen = map[h].len
        BY LiveType
    <1>2. ptr(map[h]) = base + delta /\ Window(h) = Pages(base + delta, wlen)
        BY <1>1, LiveType DEF ptr
    <1>3. PICK s \in flush_span(delta, wlen, offset, len) : sp = <<base + s[1], s[2]>>
        BY <1>1 DEF span
    <1>4. /\ len > 0 /\ offset + len =< wlen
          /\ s[1] \in Nat /\ s[2] \in Nat /\ s[2] > 0 /\ s[1] % Page = 0
          /\ s[1] =< delta + offset /\ s[1] \div Page = (delta + offset) \div Page
          /\ s[1] + s[2] = delta + offset + len
        BY <1>3, FlushSpan
    <1>5. PICK y \in Nat, n \in Nat, x \in Nat : y = s[1] /\ n = s[2] /\ x = delta + offset
        BY <1>4
    <1>6. sp[1] = base + y /\ sp[2] = n
        BY <1>3, <1>5
    <1>7. base \in Bases /\ base % Page = 0
        BY <1>1, <1>4, Sizes DEF Handled, Shape
    <1>8. (base + y) % Page = 0
        <2>1. base = (base \div Page) * Page /\ base \div Page \in Nat
            BY <1>7, Sizes, Multiple, DivMod
        <2>2. ((base \div Page) * Page + y) % Page = y % Page
            BY <2>1, Sizes, DivShift
        <2> QED BY <1>4, <1>5, <2>1, <2>2
    <1>9. Pages(base + y, n) = Pages(base + x, len)
        <2>1. len > 0 /\ n > 0 /\ y + n = x + len /\ y \div Page = x \div Page
            BY <1>4, <1>5
        <2> QED BY <1>7, <2>1, SpanPages
    <1>10. Pages(base + x, len) \subseteq Pages(base + delta, wlen)
        <2>1. base + delta \in Nat /\ base + x \in Nat /\ base + delta =< base + x
              /\ base + x + len =< base + delta + wlen
            BY <1>4, <1>5
        <2> QED BY <2>1, PagesInside
    <1>11. ptr(map[h]) + offset = base + x /\ base =< base + y /\ base + y + n =< base + delta + wlen
        BY <1>2, <1>4, <1>5
    <1> QED BY <1>1, <1>2, <1>4, <1>5, <1>6, <1>7, <1>8, <1>9, <1>10, <1>11

\* The pages of a mapping of a file show pages of the file.
LEMMA FilePage ==
    ASSUME TypeOK, NEW h \in Handles, Handled(h), NEW p \in Owned(h), Live(h), map[h].kind # "Anon"
    PROVE  /\ vm[p].fpage = (map[h].off - map[h].delta) \div Page + (p - map[h].base \div Page)
           /\ (map[h].off - map[h].delta) \in Nat /\ (map[h].off - map[h].delta) % Page = 0
           /\ map[h].base \div Page =< p /\ p \in Nat
           /\ vm[p].fpage \in Nat
    <1>1. map[h].len > 0
        BY WindowInside, LiveType
    <1>2. /\ map[h].off - map[h].delta \in Nat /\ (map[h].off - map[h].delta) % Page = 0
        BY <1>1, LiveType DEF Handled, Shape
    <1>3. /\ (map[h].off - map[h].delta) \div Page \in Nat /\ map[h].base \div Page \in Nat
          /\ map[h].base \div Page =< p /\ p \in Nat
        BY <1>2, LiveType, PagesOf, Sizes, DivMod, SMTT(30)
    <1>4. vm[p].fpage = (map[h].off - map[h].delta) \div Page + (p - map[h].base \div Page)
        BY DEF Handled, BelongsTo
    <1> QED BY <1>2, <1>3, <1>4

\* The pages of the file that hold the bytes a flush names are behind the span
\* it hands to the OS.
LEMMA AskedFlushed ==
    ASSUME TypeOK, NEW h \in Handles, Handled(h), Live(h), map[h].kind = "Write",
           NEW offset \in Nat, NEW len \in Nat, NEW sp \in span(map[h], offset, len), sp[2] > 0
    PROVE  Pages(map[h].off + offset, len) \subseteq FilePages(sp)
    <1>1. /\ Pages(sp[1], sp[2]) = Pages(ptr(map[h]) + offset, len) /\ len > 0
          /\ Pages(sp[1], sp[2]) \subseteq Window(h) /\ offset + len =< map[h].len
          /\ map[h].base \in Nat /\ map[h].base % Page = 0
        BY SpanExact
    <1>2. PICK x \in Nat : x = map[h].delta + offset
        BY LiveType
    <1>3. PICK a \in Nat : a = map[h].off - map[h].delta
        BY <1>1, LiveType DEF Handled, Shape
    <1>4. a % Page = 0
        BY <1>1, <1>3, LiveType DEF Handled, Shape
    <1>5. map[h].off + offset = a + x /\ ptr(map[h]) + offset = map[h].base + x
        BY <1>2, <1>3, LiveType DEF ptr
    <1>6. /\ Pages(a + x, len)
                = (a \div Page + (x \div Page)) .. (a \div Page + ((x + len - 1) \div Page))
          /\ Pages(map[h].base + x, len)
                = (map[h].base \div Page + (x \div Page))
                    .. (map[h].base \div Page + ((x + len - 1) \div Page))
          /\ a \div Page \in Nat /\ map[h].base \div Page \in Nat
          /\ x \div Page \in Nat /\ (x + len - 1) \div Page \in Nat
        <2>1. len > 0
            BY <1>1
        <2>2. ASSUME NEW b \in Nat, b % Page = 0
              PROVE  /\ Pages(b + x, len) = (b \div Page + (x \div Page))
                                              .. (b \div Page + ((x + len - 1) \div Page))
                     /\ b \div Page \in Nat /\ x \div Page \in Nat /\ (x + len - 1) \div Page \in Nat
            BY <2>1, <2>2, PagesAt, ZenonT(30)
        <2> QED BY <1>1, <1>4, <2>2, SMTT(30)
    <1> SUFFICES ASSUME NEW f \in Pages(a + x, len) PROVE f \in FilePages(sp)
        BY <1>5
    <1>7. PICK p : p = f - (a \div Page) + map[h].base \div Page
        OBVIOUS
    <1>8. p \in Pages(sp[1], sp[2]) /\ f = a \div Page + (p - map[h].base \div Page)
        <2>1. PICK A \in Nat, B \in Nat, X \in Nat, Y \in Nat :
                /\ A = a \div Page /\ B = map[h].base \div Page
                /\ X = x \div Page /\ Y = (x + len - 1) \div Page
            BY <1>6
        <2>2. Pages(a + x, len) = (A + X) .. (A + Y) /\ Pages(map[h].base + x, len) = (B + X) .. (B + Y)
            BY <1>6, <2>1
        <2>3. f \in (A + X) .. (A + Y) /\ p = f - A + B
            BY <1>7, <2>1, <2>2
        <2>4. p \in (B + X) .. (B + Y) /\ f = A + (p - B)
            BY <2>3
        <2>5. Pages(sp[1], sp[2]) = (B + X) .. (B + Y)
            BY <1>1, <1>5, <2>2
        <2> QED BY <2>1, <2>4, <2>5
    <1>9. p \in Owned(h)
        BY <1>1, <1>8, WindowInside
    <1>10. vm[p].fpage = f
        BY <1>3, <1>8, <1>9, FilePage
    <1>11. p \in DOMAIN vm /\ vm[p].obj = "shared"
        BY <1>9 DEF Handled, BelongsTo, is_private
    <1> QED BY <1>8, <1>10, <1>11 DEF FilePages

-----------------------------------------------------------------------------
(***************************************************************************)
(* Steps that leave the mappings alone                                     *)
(***************************************************************************)

LEMMA MapsKept ==
    ASSUME IInv, UNCHANGED <<map, vm, plat, fileLen, fmode>>
    PROVE  /\ Apart' /\ \A k \in Handles : Handled(k)' /\ (locked' = locked => Pinned(k)')
           /\ dirty' \subseteq Nat /\ handed' \subseteq Nat /\ priv' \subseteq Nat
              /\ locked' \subseteq Nat /\ wrote' \subseteq Nat => TypeOK'
    <1>1. \A k \in Handles : Live(k)' = Live(k) /\ Owned(k)' = Owned(k) /\ Window(k)' = Window(k)
        BY DEF Live, Owned, Window, ptr
    <1>2. Apart'
        BY <1>1 DEF IInv, Apart
    <1>3. ASSUME NEW k \in Handles PROVE Handled(k)'
        <2>1. Handled(k)
            BY DEF IInv
        <2> QED BY <1>1, <2>1 DEF Handled, Shape, Access, BelongsTo, Protected
    <1>4. ASSUME NEW k \in Handles, locked' = locked PROVE Pinned(k)'
        BY <1>1, <1>4 DEF IInv, Pinned
    <1>5. /\ dirty' \subseteq Nat /\ handed' \subseteq Nat /\ priv' \subseteq Nat
             /\ locked' \subseteq Nat /\ wrote' \subseteq Nat => TypeOK'
        BY DEF IInv, TypeOK
    <1> QED BY <1>2, <1>3, <1>4, <1>5

LEMMA MapFailsInv ==
    ASSUME IInv, NEW h \in Handles, map_fails(h)
    PROVE  IInv'
    <1>1. /\ UNCHANGED <<map, vm, dirty, handed, priv, locked, wrote, plat, fileLen, fmode>>
          /\ last' = [res |-> "err", span |-> NoSpan, asked |-> {}]
        BY DEF map_fails, Plainly, Returned, env
    <1>2. Kept' /\ PrivateKept' /\ SpanContract' /\ FlushDurable'
        BY <1>1 DEF IInv, Kept, PrivateKept, SpanContract, FlushDurable
    <1>3. TypeOK' /\ Apart' /\ \A k \in Handles : Handled(k)' /\ Pinned(k)'
        BY <1>1, MapsKept DEF IInv, TypeOK
    <1> QED BY <1>2, <1>3 DEF IInv

\* A store to the window of a writable handle marks the page of the file, or
\* makes a private copy of a page that is private.
LEMMA StoreInv ==
    ASSUME IInv, NEW h \in Handles, NEW i \in Stores, store(h, i)
    PROVE  IInv'
    <1>1. /\ Live(h) /\ i < map[h].len /\ i \in Nat
          /\ UNCHANGED <<map, vm, handed, locked, plat, fileLen, fmode>>
          /\ last' = [res |-> "ok", span |-> NoSpan, asked |-> {}]
        BY ArgumentsAssumption DEF store, Plainly, Returned, env
    <1>2. PICK p \in DOMAIN vm :
            /\ p = (ptr(map[h]) + i) \div Page
            /\ \/ vm[p].obj = "shared" /\ dirty' = dirty \cup {vm[p].fpage} /\ UNCHANGED <<priv, wrote>>
               \/ /\ vm[p].obj # "shared" /\ priv' = priv \cup {p} /\ wrote' = wrote \cup {p}
                  /\ UNCHANGED dirty
        BY DEF store
    <1>3. p \in Owned(h) /\ p \in Nat
        <2>1. p \in Window(h)
            BY <1>1, <1>2, LiveType, PageOfByte DEF IInv
        <2> QED BY <2>1, WindowInside DEF IInv
    <1>4. vm[p].obj # "shared" => vm[p].obj = "private"
        BY DEF IInv, TypeOK
    <1>5. vm[p].obj = "shared" => vm[p].fpage \in Nat
        <2>1. vm[p].obj = "shared" => map[h].kind # "Anon"
            BY <1>1, <1>3 DEF IInv, Handled, BelongsTo, is_private
        <2> QED BY <1>1, <1>3, <2>1, FilePage DEF IInv
    <1>6. TypeOK'
        <2>1. dirty' \subseteq Nat /\ priv' \subseteq Nat /\ wrote' \subseteq Nat
            BY <1>2, <1>3, <1>5 DEF IInv, TypeOK
        <2> QED BY <1>1, <2>1, MapsKept DEF IInv, TypeOK
    <1>7. Kept' /\ PrivateKept'
        BY <1>1, <1>2, <1>4 DEF IInv, Kept, PrivateKept
    <1>8. SpanContract' /\ FlushDurable'
        BY <1>1 DEF SpanContract, FlushDurable
    <1>9. Apart' /\ \A k \in Handles : Handled(k)' /\ Pinned(k)'
        BY <1>1, MapsKept
    <1> QED BY <1>6, <1>7, <1>8, <1>9 DEF IInv

\* The range a call hands to the OS keeps SpanContract.
LEMMA SpanKept ==
    ASSUME IInv, NEW h \in Handles, Live(h), NEW offset \in Nat, NEW len \in Nat,
           NEW sp \in span(map[h], offset, len), sp[2] > 0, last'.span = sp,
           map'[h] # None, map'[h].base = map[h].base, map'[h].delta = map[h].delta,
           map'[h].len = map[h].len
    PROVE  SpanContract'
    <1>1. /\ sp[1] \in Nat /\ sp[2] \in Nat /\ sp[1] % Page = 0
          /\ map[h].base =< sp[1] /\ sp[1] + sp[2] =< ptr(map[h]) + map[h].len
        BY SpanExact DEF IInv
    <1>2. ptr(map[h])' = ptr(map[h]) /\ Live(h)'
        BY DEF ptr, Live
    <1> QED BY <1>1, <1>2 DEF SpanContract

\* flush, flush_async and flush_range: what a Sync flush of a file mapping was
\* asked for is no longer in memory only, nor in the cache of the file system.
LEMMA FlushInv ==
    ASSUME IInv, NEW h \in Handles, NEW offset \in Starts, NEW len \in Counts \cup {len_of(h)},
           NEW mode \in {"Sync", "Async"}, flush(h, offset, len, mode)
    PROVE  IInv'
    <1>1. /\ Live(h) /\ map[h].mut
          /\ UNCHANGED <<map, vm, priv, locked, wrote, plat, fileLen, fmode>>
        BY DEF flush, env
    <1>2. offset \in Nat /\ len \in Nat
        BY <1>1, ArgumentsAssumption, LiveType DEF IInv, len_of
    <1>3. \/ /\ \E res \in {"ok", "err"} : last' = [res |-> res, span |-> NoSpan, asked |-> {}]
             /\ UNCHANGED <<dirty, handed>>
          \/ \E sp \in span(map[h], offset, len), res \in {"ok", "err"} :
                /\ sp[2] > 0 /\ os_flush(sp, map[h].backing, mode, res)
                /\ last' = [res |-> res, span |-> sp,
                            asked |-> IF res = "ok" THEN Asked(map[h], offset, len, mode) ELSE {}]
        BY DEF flush, Plainly, Returned
    <1>4. Apart' /\ \A k \in Handles : Handled(k)' /\ Pinned(k)'
        BY <1>1, MapsKept
    <1>5. CASE /\ \E res \in {"ok", "err"} : last' = [res |-> res, span |-> NoSpan, asked |-> {}]
               /\ UNCHANGED <<dirty, handed>>
        <2>1. TypeOK'
            BY <1>1, <1>5, MapsKept DEF IInv, TypeOK
        <2>2. Kept' /\ PrivateKept' /\ SpanContract' /\ FlushDurable'
            BY <1>1, <1>5 DEF IInv, Kept, PrivateKept, SpanContract, FlushDurable
        <2> QED BY <1>4, <2>1, <2>2 DEF IInv
    <1>6. ASSUME NEW sp \in span(map[h], offset, len), NEW res \in {"ok", "err"}, sp[2] > 0,
                 os_flush(sp, map[h].backing, mode, res),
                 last' = [res |-> res, span |-> sp,
                          asked |-> IF res = "ok" THEN Asked(map[h], offset, len, mode) ELSE {}]
          PROVE  IInv'
        <2>1. dirty' \subseteq dirty /\ handed' \subseteq handed \cup dirty
              /\ (plat # "windows" => handed' = handed)
            BY <1>6 DEF os_flush, unix_flush, windows_flush
        <2>2. TypeOK'
            BY <1>1, <2>1, MapsKept DEF IInv, TypeOK
        <2>3. Kept' /\ PrivateKept'
            BY <1>1, <2>1 DEF IInv, Kept, PrivateKept
        <2>4. SpanContract'
            <3>1. map'[h] = map[h] /\ map'[h] # None /\ last'.span = sp
                BY <1>1, <1>6 DEF Live
            <3> QED BY <1>1, <1>2, <1>6, <3>1, SpanKept
        <2>5. FlushDurable'
            <3>1. CASE last'.asked = {}
                BY <3>1 DEF FlushDurable
            <3>2. CASE last'.asked # {}
                <4>1. /\ res = "ok" /\ mode = "Sync" /\ map[h].kind \in {"Read", "Write"}
                      /\ last'.asked = Pages(map[h].off + offset, len)
                    BY <1>6, <3>2 DEF Asked
                <4>2. map[h].kind = "Write"
                    BY <1>1, <4>1, Zenon DEF IInv, Handled, Access
                <4>3. map[h].backing = "Shared"
                    <5>1. map[h].len > 0
                        BY <1>1, <1>2, <1>6, SpanExact, LiveType DEF IInv
                    <5> QED BY <1>1, <4>2, <5>1 DEF IInv, Handled, Access
                <4>4. last'.asked \subseteq FilePages(sp)
                    BY <1>1, <1>2, <1>6, <4>1, <4>2, AskedFlushed DEF IInv
                <4>5. dirty' = dirty \ FilePages(sp) /\ handed' = {}
                    BY <1>6, <4>1, <4>3 DEF os_flush, unix_flush, windows_flush, IInv, Kept
                <4> QED BY <4>4, <4>5 DEF FlushDurable
            <3> QED BY <3>1, <3>2
        <2> QED BY <1>4, <2>2, <2>3, <2>4, <2>5 DEF IInv
    <1> QED BY <1>3, <1>5, <1>6

\* advise: the copies that madvise discards are never those of a private
\* mapping, nor those of another handle.
LEMMA AdviseInv ==
    ASSUME IInv, NEW h \in Handles, NEW advice \in {"WillNeed", "DontNeed"}, NEW offset \in Starts,
           NEW len \in Counts \cup {len_of(h)}, advise(h, advice, offset, len)
    PROVE  IInv'
    <1>1. Live(h) /\ UNCHANGED <<map, vm, dirty, handed, locked, wrote, plat, fileLen, fmode>>
        BY DEF advise, env
    <1>2. offset \in Nat /\ len \in Nat
        BY <1>1, ArgumentsAssumption, LiveType DEF IInv, len_of
    <1>3. \/ /\ \E res \in {"ok", "err"} : last' = [res |-> res, span |-> NoSpan, asked |-> {}]
             /\ UNCHANGED priv
          \/ \E sp \in span(map[h], offset, len), res \in {"ok", "err"} :
                /\ sp[2] > 0 /\ last' = [res |-> res, span |-> sp, asked |-> {}]
                /\ \/ UNCHANGED priv
                   \/ /\ ~(advice = "DontNeed" /\ is_private(map[h].kind))
                      /\ os_advise(sp, advice)
        BY DEF advise, Plainly, Returned
    <1>4. Apart' /\ \A k \in Handles : Handled(k)' /\ Pinned(k)'
        BY <1>1, MapsKept
    <1>5. ASSUME priv' = priv PROVE TypeOK' /\ Kept' /\ PrivateKept'
        <2>1. TypeOK'
            BY <1>1, <1>5, MapsKept DEF IInv, TypeOK
        <2> QED BY <1>1, <1>5, <2>1 DEF IInv, Kept, PrivateKept
    <1>6. ASSUME NEW sp \in span(map[h], offset, len), sp[2] > 0, os_advise(sp, advice),
                 ~(advice = "DontNeed" /\ is_private(map[h].kind))
          PROVE  priv' = priv
        <2>1. CASE advice = "DontNeed" /\ ~is_private(map[h].kind)
            <3>1. Pages(sp[1], sp[2]) \subseteq Owned(h)
                BY <1>1, <1>2, <1>6, SpanExact, WindowInside DEF IInv
            <3>2. \A p \in Owned(h) : vm[p].obj = "shared"
                BY <1>1, <2>1 DEF IInv, Handled, BelongsTo
            <3>3. \A p \in priv : p \notin Pages(sp[1], sp[2])
                BY <3>1, <3>2 DEF IInv, Kept
            <3> QED BY <1>6, <3>3 DEF os_advise, unix_advise
        <2>2. CASE advice # "DontNeed"
            BY <1>6, <2>2 DEF os_advise, unix_advise
        <2> QED BY <1>6, <2>1, <2>2
    <1>7. priv' = priv
        BY <1>3, <1>6
    <1>8. FlushDurable'
        <2>1. last'.asked = {}
            BY <1>3
        <2> QED BY <2>1 DEF FlushDurable
    <1>9. SpanContract'
        <2>1. CASE last'.span = NoSpan
            BY <2>1 DEF SpanContract
        <2>2. CASE last'.span # NoSpan
            <3>1. PICK sp \in span(map[h], offset, len) : sp[2] > 0 /\ last'.span = sp
                BY <1>3, <2>2
            <3>2. map'[h] = map[h] /\ map'[h] # None
                BY <1>1 DEF Live
            <3> QED BY <1>1, <1>2, <3>1, <3>2, SpanKept
        <2> QED BY <2>1, <2>2
    <1> QED BY <1>4, <1>5, <1>7, <1>8, <1>9 DEF IInv

\* lock and unlock: the pages that are pinned are those of the window.
LEMMA LockInv ==
    ASSUME IInv, NEW h \in Handles, NEW on \in BOOLEAN, lock(h, on)
    PROVE  IInv'
    <1>1. Live(h) /\ UNCHANGED <<vm, dirty, handed, priv, wrote, plat, fileLen, fmode>>
        BY DEF lock, env
    <1>2. PICK sp \in span(map[h], 0, map[h].len) :
            \/ /\ last' = [res |-> "ok", span |-> NoSpan, asked |-> {}] /\ UNCHANGED <<locked, map>>
            \/ /\ sp[2] > 0
               /\ \E res \in {"ok", "err"} :
                    /\ unix_lock(sp, on, res)
                    /\ map' = [map EXCEPT ![h].pinned = IF res = "ok" THEN on ELSE @]
                    /\ last' = [res |-> res, span |-> sp, asked |-> {}]
        BY DEF lock, windows_lock, Plainly, Returned
    <1>3. CASE last' = [res |-> "ok", span |-> NoSpan, asked |-> {}] /\ UNCHANGED <<locked, map>>
        <2>1. TypeOK' /\ Apart' /\ \A k \in Handles : Handled(k)' /\ Pinned(k)'
            BY <1>1, <1>3, MapsKept DEF IInv, TypeOK
        <2>2. Kept' /\ PrivateKept' /\ SpanContract' /\ FlushDurable'
            BY <1>1, <1>3 DEF IInv, Kept, PrivateKept, SpanContract, FlushDurable
        <2> QED BY <2>1, <2>2 DEF IInv
    <1>4. ASSUME sp[2] > 0, NEW res \in {"ok", "err"}, unix_lock(sp, on, res),
                 map' = [map EXCEPT ![h].pinned = IF res = "ok" THEN on ELSE @],
                 last' = [res |-> res, span |-> sp, asked |-> {}]
          PROVE  IInv'
        <2>1. Pages(sp[1], sp[2]) = Window(h) /\ Window(h) \subseteq Owned(h)
            <3>1. 0 \in Nat /\ map[h].len \in Nat /\ ptr(map[h]) \in Nat
                BY <1>1, LiveType DEF IInv
            <3>2. Pages(sp[1], sp[2]) = Pages(ptr(map[h]) + 0, map[h].len)
                BY <1>1, <1>4, <3>1, SpanExact DEF IInv
            <3> QED BY <1>1, <3>1, <3>2, LiveType, WindowInside DEF IInv
        <2>2. PICK pin \in BOOLEAN : /\ pin = IF res = "ok" THEN on ELSE map[h].pinned
                                     /\ map' = [map EXCEPT ![h] = [map[h] EXCEPT !.pinned = pin]]
            <3>1. map[h].pinned \in BOOLEAN
                BY <1>1, LiveType DEF IInv, Mapping
            <3> QED BY <1>4, <3>1
        <2>3. PICK m \in Mapping : m = map[h]
            BY <1>1, LiveType DEF IInv
        <2>4. /\ map'[h] = [m EXCEPT !.pinned = pin]
              /\ map'[h] \in Mapping /\ map'[h].pinned = pin
              /\ map'[h].base = m.base /\ map'[h].delta = m.delta /\ map'[h].len = m.len
              /\ map'[h].os_len = m.os_len /\ map'[h].backing = m.backing /\ map'[h].kind = m.kind
              /\ map'[h].off = m.off /\ map'[h].mut = m.mut
              /\ \A g \in Handles \ {h} : map'[g] = map[g]
            BY <2>2, <2>3 DEF IInv, TypeOK, Mapping
        <2>5. Live(h)' /\ Owned(h)' = Owned(h) /\ Window(h)' = Window(h)
            BY <1>1, <2>3, <2>4, NoneAssumption DEF Live, Owned, Window, ptr
        <2>6. \A g \in Handles \ {h} :
                Live(g)' = Live(g) /\ Owned(g)' = Owned(g) /\ Handled(g)' /\ Pinned(g)'
            <3>1. \A p : p \notin Window(h) => (p \in locked' <=> p \in locked)
                BY <1>4, <2>1 DEF unix_lock
            <3>2. \A g \in Handles \ {h} : \A p \in Owned(g) :
                    p \in DOMAIN vm' /\ vm'[p] = vm[p] /\ (p \in locked' <=> p \in locked)
                <4> SUFFICES ASSUME NEW g \in Handles \ {h}, NEW p \in Owned(g)
                             PROVE  p \in DOMAIN vm /\ p \notin Window(h)
                    BY <1>1, <3>1
                <4> QED BY <2>1, OwnedApart DEF IInv, Handled, BelongsTo, Owned
            <3> QED BY <1>1, <2>4, <3>2, OthersKept DEF IInv
        <2>7. Handled(h)'
            <3>1. Shape(map[h]) /\ Access(map[h])
                BY <1>1 DEF IInv, Handled
            <3>2. Shape(map[h])'
                BY <1>1, <2>3, <2>4, <3>1 DEF Shape
            <3>3. Access(map[h])'
                BY <2>3, <2>4, <3>1 DEF Access
            <3>4. ASSUME NEW p \in Owned(h) PROVE BelongsTo(p, map[h])' /\ Protected(p, map[h])'
                <4>1. BelongsTo(p, map[h]) /\ Protected(p, map[h])
                    BY <1>1, <3>4 DEF IInv, Handled
                <4>2. BelongsTo(p, map[h])'
                    BY <1>1, <2>3, <2>4, <4>1 DEF BelongsTo
                <4>3. Protected(p, map[h])'
                    BY <1>1, <2>3, <2>4, <4>1 DEF Protected
                <4> QED BY <4>2, <4>3
            <3> QED BY <2>5, <3>2, <3>3, <3>4 DEF Handled
        <2>8. Pinned(h)'
            <3>1. CASE res = "ok"
                BY <1>4, <2>1, <2>2, <2>4, <2>5, <3>1 DEF Pinned, unix_lock
            <3>2. CASE res = "err"
                <4>1. locked' = locked /\ pin = map[h].pinned
                    BY <1>4, <2>2, <3>2 DEF unix_lock
                <4> QED BY <2>4, <2>5, <4>1 DEF IInv, Pinned
            <3> QED BY <3>1, <3>2
        <2>9. TypeOK'
            <3>1. map' \in [Handles -> Mapping \cup {None}]
                BY <2>2, <2>4 DEF IInv, TypeOK
            <3>2. locked' \subseteq Nat
                <4>1. Window(h) \subseteq Nat
                    BY <2>1, WindowInside DEF IInv
                <4> QED BY <1>4, <2>1, <4>1 DEF IInv, TypeOK, unix_lock
            <3> QED BY <1>1, <3>1, <3>2 DEF IInv, TypeOK
        <2>10. Apart'
            <3>1. \A k \in Handles : /\ Live(k)' => Live(k)
                                     /\ Live(k) => map'[k].len = map[k].len /\ map'[k].base = map[k].base
                                     /\ Owned(k)' = Owned(k)
                BY <1>1, <2>3, <2>4, <2>5, <2>6
            <3> QED BY <1>1, <3>1 DEF IInv, Apart
        <2>11. Kept' /\ PrivateKept'
            <3>1. Window(h) \subseteq DOMAIN vm
                BY <1>1, <2>1 DEF IInv, Handled, BelongsTo
            <3>2. locked' \subseteq DOMAIN vm'
                BY <1>1, <1>4, <2>1, <3>1 DEF IInv, Kept, unix_lock
            <3> QED BY <1>1, <3>2 DEF IInv, Kept, PrivateKept
        <2>12. SpanContract'
            <3>1. 0 \in Nat /\ map[h].len \in Nat
                BY <1>1, LiveType DEF IInv
            <3>2. map'[h] # None /\ last'.span = sp
                BY <1>4, <2>4, NoneAssumption
            <3> QED BY <1>1, <1>4, <2>3, <2>4, <3>1, <3>2, SpanKept
        <2>13. FlushDurable'
            BY <1>4 DEF FlushDurable
        <2> QED BY <2>6, <2>7, <2>8, <2>9, <2>10, <2>11, <2>12, <2>13 DEF IInv
    <1> QED BY <1>2, <1>3, <1>4

-----------------------------------------------------------------------------
(***************************************************************************)
(* make_mut and make_read_only                                             *)
(***************************************************************************)

\* Mapping::protect of the handle's mapping, whose kind and backing the caller
\* may have changed: all of its pages, those that huge pages added included,
\* get the protection of the type it returns; if the OS refuses, it is dropped.
LEMMA ProtectInv ==
    ASSUME IInv, NEW h \in Handles, Live(h), NEW m \in Mapping, NEW mut \in BOOLEAN,
           NEW prot \in {"ReadOnly", "ReadWrite", "WriteCopy"}, Protect(h, m, prot, mut),
           m.base = map[h].base, m.delta = map[h].delta, m.len = map[h].len,
           m.os_len = map[h].os_len, m.off = map[h].off, m.pinned = map[h].pinned,
           is_private(m.kind) = is_private(map[h].kind), m.kind = "Anon" <=> map[h].kind = "Anon",
           m.kind = "Read" => mut = FALSE,
           m.kind = "Write" /\ m.len > 0 => m.backing = "Shared",
           mut = FALSE <=> prot = "ReadOnly"
    PROVE  IInv'
    <1>1. CASE Drop(h) /\ Plainly("err")
        BY <1>1, DropInv
    <1>2. CASE /\ map' = [map EXCEPT ![h] = [m EXCEPT !.mut = mut]]
               /\ vm' = IF m.len = 0 THEN vm
                        ELSE [p \in DOMAIN vm |->
                                IF p \in Pages(m.base, m.os_len)
                                THEN [vm[p] EXCEPT !.prot = os_protect(prot)] ELSE vm[p]]
               /\ Plainly("ok")
               /\ UNCHANGED <<dirty, handed, priv, locked, wrote, env>>
        <2>1. /\ UNCHANGED <<dirty, handed, priv, locked, wrote, plat, fileLen, fmode>>
              /\ last' = [res |-> "ok", span |-> NoSpan, asked |-> {}]
            BY <1>2 DEF Plainly, Returned, env
        <2>2. Owned(h) = Pages(m.base, m.os_len) /\ (m.len = 0 => Owned(h) = {})
            BY LiveType, WindowInside DEF IInv
        <2>3. PICK pr : pr = os_protect(prot)
            OBVIOUS
        <2>4. pr \in {"r", "rw", "wc"} /\ (pr = "r" <=> mut = FALSE)
            BY <2>3 DEF os_protect, unix_protect, windows_protect
        <2>5. /\ DOMAIN vm' = DOMAIN vm
              /\ \A p \in DOMAIN vm \ Owned(h) : vm'[p] = vm[p]
              /\ \A p \in DOMAIN vm \cap Owned(h) : vm'[p] = [vm[p] EXCEPT !.prot = pr]
            BY <1>2, <2>2, <2>3
        <2>6. \A p \in DOMAIN vm :
                /\ vm'[p] \in PageEntry
                /\ vm'[p].view = vm[p].view /\ vm'[p].obj = vm[p].obj
                /\ vm'[p].huge = vm[p].huge /\ vm'[p].fpage = vm[p].fpage
            <3>1. \A p \in DOMAIN vm : vm[p] \in PageEntry
                BY DEF IInv, TypeOK, PageEntry
            <3> QED BY <2>4, <2>5, <3>1 DEF PageEntry
        <2>7. /\ map'[h] = [m EXCEPT !.mut = mut] /\ map'[h] \in Mapping
              /\ map'[h].base = m.base /\ map'[h].delta = m.delta /\ map'[h].len = m.len
              /\ map'[h].os_len = m.os_len /\ map'[h].backing = m.backing /\ map'[h].kind = m.kind
              /\ map'[h].off = m.off /\ map'[h].mut = mut /\ map'[h].pinned = m.pinned
              /\ \A g \in Handles \ {h} : map'[g] = map[g]
            BY <1>2 DEF IInv, TypeOK, Mapping
        <2>8. Live(h)' /\ Owned(h)' = Owned(h) /\ Window(h)' = Window(h)
            BY <2>7, NoneAssumption DEF Live, Owned, Window, ptr
        <2>9. \A g \in Handles \ {h} :
                Live(g)' = Live(g) /\ Owned(g)' = Owned(g) /\ Handled(g)' /\ Pinned(g)'
            <3>1. \A g \in Handles \ {h} : \A p \in Owned(g) :
                    p \in DOMAIN vm' /\ vm'[p] = vm[p] /\ (p \in locked' <=> p \in locked)
                <4> SUFFICES ASSUME NEW g \in Handles \ {h}, NEW p \in Owned(g)
                             PROVE  p \in DOMAIN vm /\ p \notin Owned(h)
                    BY <2>1, <2>5
                <4> QED BY OwnedApart DEF IInv, Handled, BelongsTo, Owned
            <3> QED BY <2>1, <2>7, <3>1, OthersKept DEF IInv
        <2>10. Handled(h)'
            <3>1. Shape(map[h])
                BY DEF IInv, Handled
            <3>2. Shape(map[h])'
                BY <2>1, <2>7, <3>1 DEF Shape
            <3>3. Access(map[h])'
                BY <2>7 DEF Access
            <3>4. ASSUME NEW p \in Owned(h) PROVE BelongsTo(p, map[h])' /\ Protected(p, map[h])'
                <4>1. BelongsTo(p, map[h])
                    BY <3>4 DEF IInv, Handled
                <4>2. p \in DOMAIN vm /\ vm'[p].prot = pr
                    BY <2>5, <2>6, <3>4, <4>1 DEF BelongsTo, IInv, TypeOK
                <4>3. BelongsTo(p, map[h])'
                    BY <2>1, <2>5, <2>6, <2>7, <4>1, <4>2 DEF BelongsTo
                <4>4. Protected(p, map[h])'
                    BY <2>4, <2>7, <4>2 DEF Protected
                <4> QED BY <4>3, <4>4
            <3> QED BY <2>8, <3>2, <3>3, <3>4 DEF Handled
        <2>11. Pinned(h)'
            BY <2>1, <2>7, <2>8 DEF IInv, Pinned
        <2>12. TypeOK'
            <3>1. map' \in [Handles -> Mapping \cup {None}]
                BY <1>2, <2>7 DEF IInv, TypeOK
            <3> QED BY <2>1, <2>5, <2>6, <3>1 DEF IInv, TypeOK, PageEntry
        <2>13. Apart'
            <3>1. \A k \in Handles : /\ Live(k)' => Live(k)
                                     /\ Live(k) => map'[k].len = map[k].len /\ map'[k].base = map[k].base
                                     /\ Owned(k)' = Owned(k)
                BY <2>7, <2>8, <2>9
            <3> QED BY <2>5, <2>6, <3>1 DEF IInv, Apart
        <2>14. Kept' /\ PrivateKept' /\ SpanContract' /\ FlushDurable'
            BY <2>1, <2>5, <2>6 DEF IInv, Kept, PrivateKept, SpanContract, FlushDurable
        <2> QED BY <2>9, <2>10, <2>11, <2>12, <2>13, <2>14 DEF IInv
    <1> QED BY <1>1, <1>2 DEF Protect

LEMMA MakeReadOnlyInv ==
    ASSUME IInv, NEW h \in Handles, make_read_only(h)
    PROVE  IInv'
    <1>1. Live(h) /\ Protect(h, map[h], "ReadOnly", FALSE)
        BY DEF make_read_only
    <1>2. PICK m \in Mapping : m = map[h]
        BY <1>1, LiveType DEF IInv
    <1>3. m.kind = "Write" /\ m.len > 0 => m.backing = "Shared"
        BY <1>1, <1>2 DEF IInv, Handled, Access
    <1>4. Protect(h, m, "ReadOnly", FALSE)
        BY <1>1, <1>2
    <1> QED BY <1>1, <1>2, <1>3, <1>4, ProtectInv

\* A mapping that was opened read-only becomes one whose stores are flushed;
\* on Windows, where its section cannot be written, it is dropped.
LEMMA MakeMutInv ==
    ASSUME IInv, NEW h \in Handles, make_mut(h)
    PROVE  IInv'
    <1>1. Live(h)
        BY DEF make_mut
    <1>2. PICK m \in Mapping : m = map[h]
        BY <1>1, LiveType DEF IInv
    <1>3. PICK marked : marked = IF m.kind = "Read" /\ m.len > 0 THEN mark_shared_writable(m) ELSE {m}
        OBVIOUS
    <1>4. \/ Drop(h) /\ Plainly("err")
          \/ \E w \in marked :
                Protect(h, [w EXCEPT !.kind = IF @ = "Read" THEN "Write" ELSE @],
                        IF w.kind = "Copy" THEN "WriteCopy" ELSE "ReadWrite", TRUE)
        BY <1>2, <1>3 DEF make_mut
    <1>5. CASE Drop(h) /\ Plainly("err")
        BY <1>1, <1>5, DropInv
    <1>6. ASSUME NEW w \in marked,
                 Protect(h, [w EXCEPT !.kind = IF @ = "Read" THEN "Write" ELSE @],
                         IF w.kind = "Copy" THEN "WriteCopy" ELSE "ReadWrite", TRUE)
          PROVE  IInv'
        <2>1. \/ m.kind = "Read" /\ m.len > 0 /\ w = [m EXCEPT !.backing = "Shared"]
              \/ ~(m.kind = "Read" /\ m.len > 0) /\ w = m
            BY <1>3, <1>6 DEF mark_shared_writable
        <2>2. /\ w \in Mapping /\ w.kind = m.kind
              /\ w.base = m.base /\ w.delta = m.delta /\ w.len = m.len
              /\ w.os_len = m.os_len /\ w.off = m.off /\ w.pinned = m.pinned
            BY <2>1 DEF Mapping
        <2>3. PICK n \in Mapping : n = [w EXCEPT !.kind = IF @ = "Read" THEN "Write" ELSE @]
            BY <2>2 DEF Mapping
        <2>4. /\ n.kind = (IF m.kind = "Read" THEN "Write" ELSE m.kind) /\ n.backing = w.backing
              /\ n.base = m.base /\ n.delta = m.delta /\ n.len = m.len
              /\ n.os_len = m.os_len /\ n.off = m.off /\ n.pinned = m.pinned
            BY <2>2, <2>3 DEF Mapping
        <2>5. n.kind = "Write" /\ n.len > 0 => n.backing = "Shared"
            <3>1. m.kind = "Write" /\ m.len > 0 => m.backing = "Shared"
                BY <1>1, <1>2 DEF IInv, Handled, Access
            <3>2. CASE m.kind = "Read" /\ m.len > 0
                BY <2>1, <2>4, <3>2 DEF Mapping
            <3>3. CASE ~(m.kind = "Read" /\ m.len > 0)
                BY <2>1, <2>4, <3>1, <3>3
            <3> QED BY <3>2, <3>3
        <2>6. is_private(n.kind) = is_private(m.kind) /\ (n.kind = "Anon" <=> m.kind = "Anon")
            BY <2>4 DEF is_private
        <2>7. n.kind # "Read"
            BY <2>4
        <2>8. PICK prot \in {"ReadOnly", "ReadWrite", "WriteCopy"} :
                prot = (IF w.kind = "Copy" THEN "WriteCopy" ELSE "ReadWrite") /\ prot # "ReadOnly"
            OBVIOUS
        <2>9. Protect(h, n, prot, TRUE)
            BY <1>6, <2>3, <2>8
        <2> QED BY <1>1, <1>2, <2>4, <2>5, <2>6, <2>7, <2>8, <2>9, ProtectInv
    <1> QED BY <1>4, <1>5, <1>6

-----------------------------------------------------------------------------
(***************************************************************************)
(* The theorems                                                            *)
(***************************************************************************)

\* The inductive invariant holds in every reachable state.
THEOREM Invariance == Spec => []IInv
    <1>1. Init => IInv
        <2> SUFFICES ASSUME Init PROVE IInv
            OBVIOUS
        <2>1. /\ \A h \in Handles : map[h] = None
              /\ DOMAIN vm = Foreign
              /\ \A p \in Foreign :
                    vm[p] = [obj |-> "private", prot |-> "rw", prots |-> {"r", "rw"}, view |-> 0,
                             huge |-> FALSE, fpage |-> None]
            BY DEF Init
        <2>2. TypeOK
            <3>1. ASSUME NEW p \in DOMAIN vm PROVE vm[p] \in PageEntry
                <4>1. [obj |-> "private", prot |-> "rw", prots |-> {"r", "rw"}, view |-> 0,
                       huge |-> FALSE, fpage |-> None] \in PageEntry
                    <5>1. {"r", "rw"} \in SUBSET {"r", "rw", "wc"} /\ FALSE \in BOOLEAN
                        OBVIOUS
                    <5> QED BY <5>1 DEF PageEntry
                <4> QED BY <2>1, <3>1, <4>1
            <3>2. map \in [Handles -> Mapping \cup {None}] /\ Foreign \subseteq Nat
                BY ArgumentsAssumption DEF Init
            <3> QED BY <2>1, <3>1, <3>2 DEF Init, TypeOK, PageEntry
        <2>3. \A h \in Handles : ~Live(h) /\ Owned(h) = {} /\ Window(h) = {}
            BY <2>1 DEF Live, Owned, Window
        <2>4. Apart /\ \A h \in Handles : Handled(h) /\ Pinned(h)
            BY <2>1, <2>3 DEF Apart, Handled, Pinned
        <2>5. Kept /\ SpanContract /\ FlushDurable /\ PrivateKept
            BY DEF Init, Kept, SpanContract, FlushDurable, PrivateKept
        <2> QED BY <2>2, <2>4, <2>5 DEF IInv
    <1>2. IInv /\ [Next]_vars => IInv'
        <2> SUFFICES ASSUME IInv, [Next]_vars PROVE IInv'
            OBVIOUS
        <2>1. CASE UNCHANGED vars
            <3>1. /\ UNCHANGED <<map, vm, plat, fileLen, fmode>>
                  /\ UNCHANGED <<dirty, handed, priv, locked, wrote, last>>
                BY <2>1 DEF vars
            <3>2. TypeOK' /\ Apart' /\ \A k \in Handles : Handled(k)' /\ Pinned(k)'
                BY <3>1, MapsKept DEF IInv, TypeOK
            <3>3. Kept' /\ PrivateKept' /\ SpanContract' /\ FlushDurable'
                BY <3>1 DEF IInv, Kept, PrivateKept, SpanContract, FlushDurable, Live, ptr
            <3> QED BY <3>2, <3>3 DEF IInv
        <2>2. ASSUME NEW h \in Handles, drop(h) PROVE IInv'
            BY <2>2, DropInv DEF drop
        <2> QED BY <2>1, <2>2, MapImplInv, MapAnonInv, MapFailsInv, StoreInv, FlushInv, AdviseInv,
                   LockInv, MakeReadOnlyInv, MakeMutInv DEF Next
    <1> QED BY <1>1, <1>2, PTL DEF Spec

\* Types of the handles and of the address space.
THEOREM TypeCorrect == Spec => []TypeOK
    <1>1. IInv => TypeOK
        BY DEF IInv
    <1> QED BY <1>1, Invariance, PTL

\* Handles that share an address space never share a page: each owns what it
\* mapped, unmaps that and nothing else, and nothing is left behind, also when
\* make_mut or make_read_only fails and for the rounded huge page mappings.
THEOREM OwnedExactly == Spec => []ExactlyOwned
    <1>1. IInv => ExactlyOwned
        <2> SUFFICES ASSUME IInv PROVE ExactlyOwned
            OBVIOUS
        <2>1. ASSUME NEW h \in Handles
              PROVE  /\ Window(h) \subseteq Owned(h) /\ Owned(h) \subseteq DOMAIN vm
                     /\ \A p \in Owned(h) : vm[p].view = map[h].base
            <3>1. Window(h) \subseteq Owned(h)
                BY WindowInside DEF IInv
            <3>2. \A p \in Owned(h) : BelongsTo(p, map[h])
                BY DEF IInv, Handled, Owned
            <3> QED BY <3>1, <3>2 DEF BelongsTo
        <2>2. DOMAIN vm = Foreign \cup UNION {Owned(h) : h \in Handles}
            <3>1. ASSUME NEW p \in DOMAIN vm PROVE p \in Foreign \cup UNION {Owned(h) : h \in Handles}
                <4>1. p \in Foreign \/ \E h \in Handles : p \in Owned(h)
                    BY DEF IInv, Apart
                <4> QED BY <4>1
            <3>2. ASSUME NEW p \in Foreign \cup UNION {Owned(h) : h \in Handles} PROVE p \in DOMAIN vm
                <4>1. p \in Foreign \/ \E h \in Handles : p \in Owned(h)
                    OBVIOUS
                <4> QED BY <2>1, <4>1 DEF IInv, Apart
            <3> QED BY <3>1, <3>2
        <2> QED BY <2>1, <2>2 DEF ExactlyOwned
    <1> QED BY <1>1, Invariance, PTL

\* Byte i of the window is byte offset + i of the file, for every offset, page
\* size and allocation granularity, and the window ends in the file.
THEOREM WindowTrue == Spec => []WindowExact
    <1>1. IInv => WindowExact
        <2> SUFFICES ASSUME IInv, NEW h \in Handles, Live(h), map[h].kind # "Anon"
                     PROVE  /\ map[h].off + map[h].len =< fileLen
                            /\ \A i \in 0 .. map[h].len - 1 :
                                 vm[(ptr(map[h]) + i) \div Page].fpage * Page
                                    + ((ptr(map[h]) + i) % Page) = map[h].off + i
            BY DEF WindowExact
        <2>1. map[h].off + map[h].len =< fileLen
            BY DEF IInv, Handled, Shape
        <2>2. ASSUME NEW i \in 0 .. map[h].len - 1
              PROVE  vm[(ptr(map[h]) + i) \div Page].fpage * Page
                        + ((ptr(map[h]) + i) % Page) = map[h].off + i
            <3>1. i \in Nat /\ i < map[h].len /\ map[h].len > 0
                BY LiveType DEF IInv
            <3>2. PICK p : p = (ptr(map[h]) + i) \div Page
                OBVIOUS
            <3>3. p \in Owned(h)
                <4>1. p \in Window(h)
                    BY <3>1, <3>2, LiveType, PageOfByte DEF IInv
                <4> QED BY <4>1, WindowInside DEF IInv
            <3>4. PICK base \in Nat, x \in Nat, a \in Nat :
                    base = map[h].base /\ x = map[h].delta + i /\ a = map[h].off - map[h].delta
                BY <3>1, <3>3, FilePage, LiveType DEF IInv
            <3>5. /\ vm[p].fpage = a \div Page + (p - base \div Page)
                  /\ a % Page = 0 /\ base % Page = 0
                <4>1. base \in Bases
                    BY <3>1, <3>4 DEF IInv, Handled, Shape
                <4> QED BY <3>3, <3>4, <4>1, FilePage, Sizes DEF IInv
            <3>6. ptr(map[h]) + i = base + x /\ map[h].off + i = a + x
                BY <3>1, <3>4, LiveType DEF IInv, ptr
            <3>7. PICK A \in Nat, B \in Nat, q \in Nat, r \in Nat :
                    /\ A = a \div Page /\ B = base \div Page /\ q = x \div Page /\ r = x % Page
                    /\ a = A * Page /\ base = B * Page /\ x = q * Page + r
                BY <3>5, Sizes, DivMod, Multiple
            <3>8. (base + x) \div Page = B + q /\ (base + x) % Page = r
                <4>1. (B * Page + x) \div Page = B + (x \div Page) /\ (B * Page + x) % Page = x % Page
                    BY Sizes, DivShift
                <4> QED BY <3>7, <4>1
            <3>9. p = B + q /\ vm[p].fpage = A + q
                BY <3>2, <3>5, <3>6, <3>7, <3>8
            <3>10. (A + q) * Page + r = a + x
                <4>1. (A + q) * Page + r = A * Page + (q * Page + r)
                    BY Sizes
                <4> QED BY <3>7, <4>1
            <3> QED BY <3>2, <3>6, <3>8, <3>9, <3>10
        <2> QED BY <2>1, <2>2
    <1> QED BY <1>1, Invariance, PTL

\* Every byte of a RawMmapMut can be written and none of a RawMmap, after any
\* sequence of make_mut and make_read_only, refused ones included.
THEOREM ProtectionTrue == Spec => []ProtectionMatches
    <1>1. IInv => ProtectionMatches
        <2> SUFFICES ASSUME IInv, NEW h \in Handles, NEW p \in Window(h)
                     PROVE  (vm[p].prot # "r") <=> map[h].mut
            BY DEF ProtectionMatches
        <2>1. p \in Owned(h) /\ Live(h)
            BY WindowInside DEF IInv, Window
        <2>2. IF map[h].mut THEN vm[p].prot # "r" ELSE vm[p].prot = "r"
            BY <2>1 DEF IInv, Handled, Protected
        <2> QED BY <2>2
    <1> QED BY <1>1, Invariance, PTL

\* Every range handed to the OS starts on a page, is not empty, and stays in
\* the mapping of one handle.
THEOREM SpansLegal == Spec => []SpanContract
    <1>1. IInv => SpanContract
        BY DEF IInv
    <1> QED BY <1>1, Invariance, PTL

\* What a Sync flush that returned Ok was asked for is on the disk.
THEOREM FlushSynced == Spec => []FlushDurable
    <1>1. IInv => FlushDurable
        BY DEF IInv
    <1> QED BY <1>1, Invariance, PTL

\* No advice, given through any handle, discards what was written to a
\* copy-on-write or anonymous mapping.
THEOREM PrivateSafe == Spec => []PrivateKept
    <1>1. IInv => PrivateKept
        BY DEF IInv
    <1> QED BY <1>1, Invariance, PTL

\* A lock pins the whole window, an unlock leaves none of it pinned, and no
\* other handle's lock, unlock or drop changes that.
THEOREM LocksHold == Spec => []LockCovers
    <1>1. IInv => LockCovers
        BY DEF IInv, Pinned, LockCovers
    <1> QED BY <1>1, Invariance, PTL

=============================================================================
