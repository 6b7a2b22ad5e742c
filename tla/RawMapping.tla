----------------------------- MODULE RawMapping -----------------------------
(***************************************************************************)
(* The raw layer: RawMmapOptions, RawMmap and RawMmapMut (raw/mod.rs), the *)
(* checked arithmetic below them (raw/range.rs) and the three backends     *)
(* (raw/unix.rs, raw/windows.rs, raw/stub.rs).                             *)
(*                                                                         *)
(* A handle owns one OS mapping or the empty placeholder.  The address     *)
(* space is modelled page by page: what a page shows, how it is protected, *)
(* to which mapping it belongs.  So a wrong base, length or protection     *)
(* argument does here what it would do to a process.  Addresses, offsets   *)
(* and lengths are numbers of bytes; Page, Gran and UMax are small enough  *)
(* for every rounding and every overflow of the code to happen.            *)
(*                                                                         *)
(* An io::Result is modelled by a set: {} is Err, {x} is Ok(x).            *)
(***************************************************************************)
EXTENDS Integers, Functions

CONSTANTS
    Handles,    \* variables that can hold a RawMmap or a RawMmapMut
    Platforms,  \* subset of {"linux", "bsd", "windows", "other"}
    FileLens,   \* sizes of the file
    Offsets,    \* values given to RawMmapOptions::offset
    Lens,       \* values given to RawMmapOptions::len
    Starts,     \* offsets given to flush_range and advise_range
    Stores,     \* window positions the program writes to
    Counts,     \* lengths given to flush_range and advise_range
    Bases,      \* addresses the OS may place a mapping at
    Foreign,    \* virtual pages mapped by other parts of the process
    Page,       \* page size
    Gran,       \* allocation granularity of Windows
    Huge,       \* huge page size
    UMax,       \* usize::MAX
    None        \* Option::None, and "no value" of a handle

ASSUME SizesAssumption ==
    /\ {Page, Gran, Huge, UMax} \subseteq Nat \ {0}
    /\ Gran % Page = 0 /\ Huge % Page = 0
    /\ \A b \in Bases : b \in Nat \ {0} /\ b % Gran = 0 /\ b % Huge = 0

ASSUME PlatformsAssumption == Platforms \subseteq {"linux", "bsd", "windows", "other"}

\* The arguments are unsigned, and so are page numbers.
ASSUME ArgumentsAssumption ==
    UNION {FileLens, Offsets, Lens, Starts, Stores, Counts, Foreign} \subseteq Nat

VARIABLES
    plat,     \* the target the crate was built for
    fileLen,  \* length of the file (the callers' contract fixes it)
    fmode,    \* "r" or "rw": how the File was opened
    map,      \* map[h]: the Mapping held by h, or None
    vm,       \* vm[p]: the mapped virtual page p
    dirty,    \* file pages changed in memory only
    handed,   \* file pages given to the file system, not yet on the disk
    priv,     \* virtual pages whose private copy is present
    locked,   \* virtual pages pinned in memory
    wrote,    \* history: private pages the program has written
    last      \* history: the operation that just returned

vars == <<plat, fileLen, fmode, map, vm, dirty, handed, priv, locked, wrote, last>>
env  == <<plat, fileLen, fmode>>

-----------------------------------------------------------------------------
(* range.rs *)

\* isize::MAX
MAX_LEN == UMax \div 2

\* Defect: a length that is given is not compared with the rest of the file.
resolve_len_Unchecked(file_len, offset, req) ==
    {n \in {IF req = None THEN file_len - offset ELSE req} : offset =< file_len /\ n =< MAX_LEN}

\* The length of the window, if it lies in the file and fits a slice.
resolve_len(file_len, offset, req) ==
    LET available == file_len - offset
        len == IF req = None THEN available ELSE req
    IN  {n \in {len} : offset =< file_len /\ n =< available /\ n =< MAX_LEN}

\* Round the offset down to the granularity; gran is a power of two, so the
\* mask of the code is a remainder.
layout(offset, len, gran) ==
    LET d == offset % gran
    IN  {l \in {[aligned_offset |-> offset - d, delta |-> d,
                 len |-> len, map_len |-> len + d]} : l.map_len =< MAX_LEN}

\* Defect: the start is not rounded down to a page.
flush_span_Unaligned(delta, window_len, offset, flush_len) ==
    {s \in {<<delta + offset, flush_len>>} :
        offset =< window_len /\ flush_len =< window_len - offset}

\* The span of the OS mapping to hand to a ranged call.  A count of 0 is the
\* Ok(None) of the code.
flush_span(delta, window_len, offset, flush_len) ==
    LET start == ((delta + offset) \div Page) * Page
        end   == delta + offset + flush_len
    IN  {s \in {IF flush_len = 0 THEN <<0, 0>> ELSE <<start, end - start>>} :
            /\ offset =< window_len
            /\ flush_len =< window_len - offset
            /\ flush_len = 0 \/ end =< UMax}

-----------------------------------------------------------------------------
(* The OS, as the backends use it *)

\* The pages that hold the n bytes at address a.
Pages(a, n) == IF n = 0 THEN {} ELSE (a \div Page) .. ((a + n - 1) \div Page)

\* Where n bytes can be placed.
Room(n) == {b \in Bases : Pages(b, n) \cap DOMAIN vm = {}}

\* A shared writable mapping needs a file opened for writing.
Permitted(how) == how.obj = "private" \/ how.prot = "r" \/ fmode = "rw"

\* The pages of a new mapping of n bytes at base that shows the file from
\* offset (None: zeroes).  how.prots is what it may be changed to later.
Mapped(base, n, how, offset, huge) ==
    [p \in Pages(base, n) |->
        [obj |-> how.obj, prot |-> how.prot, prots |-> how.prots, view |-> base, huge |-> huge,
         fpage |-> IF offset = None THEN None ELSE offset \div Page + (p - base \div Page)]]

\* The file pages behind a range of addresses.
FilePages(sp) ==
    {vm[p].fpage : p \in {q \in Pages(sp[1], sp[2]) \cap DOMAIN vm : vm[q].obj = "shared"}}

-----------------------------------------------------------------------------
(* unix.rs *)

unix_granularity == {Page}

\* What mmap is asked for, and the backing: a read-only mapping has nothing to
\* flush.  The rights of the file bound what mprotect may grant.
unix_access(access) ==
    CASE access = "Read"  -> [prot |-> "r", obj |-> "shared", backing |-> "Private",
                              prots |-> IF fmode = "rw" THEN {"r", "rw"} ELSE {"r"}]
      [] access = "Write" -> [prot |-> "rw", obj |-> "shared", backing |-> "Shared",
                              prots |-> {"r", "rw"}]
      [] access = "Copy"  -> [prot |-> "rw", obj |-> "private", backing |-> "Private",
                              prots |-> {"r", "rw"}]

unix_map_file(access, lay) ==
    LET how == unix_access(access)
    IN  {[base |-> b, backing |-> how.backing, os_len |-> lay.map_len,
          pages |-> Mapped(b, lay.map_len, how, lay.aligned_offset, FALSE)] :
            b \in {x \in Room(lay.map_len) : Permitted(how)}}

\* MAP_HUGETLB mappings are rounded up to the huge page size; only Linux has
\* the flag.
huge_layout(map_len, huge) ==
    IF huge /\ plat = "linux"
    THEN {n \in {((map_len + Huge - 1) \div Huge) * Huge} :
            map_len + Huge - 1 =< UMax /\ n =< MAX_LEN}
    ELSE {map_len}

unix_map_anon(map_len, huge) ==
    LET how == [prot |-> "rw", obj |-> "private", prots |-> {"r", "rw"}]
    IN  UNION {{[base |-> b, backing |-> "Private", os_len |-> n,
                 pages |-> Mapped(b, n, how, None, huge /\ plat = "linux")] : b \in Room(n)}
                    : n \in huge_layout(map_len, huge)}

\* msync: MS_SYNC puts the pages on the disk, MS_ASYNC promises nothing.
unix_flush(sp, backing, mode, res) ==
    /\ res = "err" => backing = "Shared"
    /\ dirty' = IF backing = "Shared" /\ mode = "Sync" /\ res = "ok"
                THEN dirty \ FilePages(sp) ELSE dirty
    /\ UNCHANGED handed

unix_protect(prot) == IF prot = "ReadOnly" THEN "r" ELSE "rw"

\* The private copies that madvise discards.
unix_advise(sp, advice) == IF advice = "DontNeed" THEN Pages(sp[1], sp[2]) ELSE {}

\* munmap takes the pages of the range, and fails, unseen by the code, on a
\* range that cuts a huge page.
unix_unmap(base, os_len) ==
    LET range == Pages(base, os_len) \cap DOMAIN vm
    IN  IF os_len % Huge # 0 /\ \E p \in range : vm[p].huge THEN {} ELSE range

-----------------------------------------------------------------------------
(* windows.rs *)

windows_granularity == {Gran}

\* The protection of the section bounds what VirtualProtect may grant.
windows_access(access) ==
    CASE access = "Read"  -> [prot |-> "r", obj |-> "shared", backing |-> "Private",
                              prots |-> {"r"}]
      [] access = "Write" -> [prot |-> "rw", obj |-> "shared", backing |-> "Shared",
                              prots |-> {"r", "rw"}]
      [] access = "Copy"  -> [prot |-> "wc", obj |-> "private", backing |-> "Private",
                              prots |-> {"r", "wc"}]

\* Create a section and map a view of it; the handle of the section is closed
\* at once.
map_view(how, backing, offset, map_len) ==
    {[base |-> b, backing |-> backing, os_len |-> map_len,
      pages |-> Mapped(b, map_len, how, offset, FALSE)] :
        b \in {x \in Room(map_len) : Permitted(how)}}

windows_map_file(access, lay) ==
    LET how == windows_access(access)
    IN  map_view(how, how.backing, lay.aligned_offset, lay.map_len)

windows_map_anon(map_len) ==
    map_view([prot |-> "rw", obj |-> "private", prots |-> {"r", "rw"}], "Private", None, map_len)

\* FlushViewOfFile hands the pages to the file system; sync_data, called only
\* for Sync, puts on the disk all that was handed over.  Either may fail.
windows_flush(sp, backing, mode, res) ==
    LET pages == FilePages(sp)
        viewed == dirty' = dirty \ pages
        synced == handed' = {}
        kept   == handed' = handed \cup (dirty \cap pages)
    IN  \/ backing = "Private" /\ res = "ok" /\ UNCHANGED <<dirty, handed>>
        \/ backing = "Shared" /\ res = "ok" /\ viewed /\ (IF mode = "Sync" THEN synced ELSE kept)
        \/ backing = "Shared" /\ res = "err" /\ UNCHANGED <<dirty, handed>>
        \/ backing = "Shared" /\ res = "err" /\ mode = "Sync" /\ viewed /\ kept

windows_protect(prot) == [ReadOnly |-> "r", ReadWrite |-> "rw", WriteCopy |-> "wc"][prot]

\* Only WillNeed reaches the OS, so only it can fail.
windows_advise_fails(advice) == advice = "WillNeed"

\* UnmapViewOfFile takes the whole view that starts at base.
windows_unmap(base) == {p \in DOMAIN vm : vm[p].view = base}

-----------------------------------------------------------------------------
(* The backend of the target *)

\* stub.rs: Unsupported, so that no constructor gets any further.
stub_granularity == {}

offset_granularity ==
    CASE plat = "windows" -> windows_granularity
      [] plat = "other" -> stub_granularity
      [] OTHER -> unix_granularity
os_map_file(access, lay) ==
    IF plat = "windows" THEN windows_map_file(access, lay) ELSE unix_map_file(access, lay)
os_map_anon(map_len, huge) ==
    IF plat = "windows" THEN windows_map_anon(map_len) ELSE unix_map_anon(map_len, huge)
os_flush(sp, backing, mode, res) ==
    IF plat = "windows" THEN windows_flush(sp, backing, mode, res)
                        ELSE unix_flush(sp, backing, mode, res)
os_protect(prot) == IF plat = "windows" THEN windows_protect(prot) ELSE unix_protect(prot)
os_unmap(base, os_len) == IF plat = "windows" THEN windows_unmap(base) ELSE unix_unmap(base, os_len)

-----------------------------------------------------------------------------
(* struct Mapping *)

\* off and pinned are history: the file offset the caller asked for, and
\* whether the last successful lock or unlock was a lock.
Mapping ==
    [mut : BOOLEAN, base : Nat, delta : Nat, len : Nat, os_len : Nat,
     backing : {"Private", "Shared"}, kind : {"Read", "Write", "Copy", "Anon"},
     off : Nat, pinned : BOOLEAN]

ASSUME NoneAssumption == None \notin Nat /\ None \notin Mapping

\* The map_* constructors give a RawMmapMut unless the access is Read.
Mapping_empty(kind, offset) ==
    [mut |-> kind # "Read", base |-> 0, delta |-> 0, len |-> 0, os_len |-> 0,
     backing |-> "Private", kind |-> kind, off |-> offset, pinned |-> FALSE]

from_os(r, lay, kind) ==
    [mut |-> kind # "Read", base |-> r.base, delta |-> lay.delta, len |-> lay.len,
     os_len |-> r.os_len, backing |-> r.backing, kind |-> kind,
     off |-> lay.aligned_offset + lay.delta, pinned |-> FALSE]

\* Defect: copy-on-write mappings are forgotten.
is_private_OnlyAnon(kind) == kind = "Anon"

is_private(kind) == kind \in {"Copy", "Anon"}

\* Address of the first byte of the window.
ptr(m) == m.base + m.delta

\* Defect: the range is taken from the start of the OS mapping.
span_IgnoresDelta(m, offset, len) ==
    {<<m.base + s[1], s[2]>> : s \in flush_span(0, m.len, offset, len)}

\* The page-aligned address and the count for bytes [offset, offset + len).
span(m, offset, len) ==
    {<<m.base + s[1], s[2]>> : s \in flush_span(m.delta, m.len, offset, len)}

\* An operation returns: its result, the span it handed to the OS, and the
\* file pages it was asked to make durable.
Returned(res, sp, asked) == last' = [res |-> res, span |-> sp, asked |-> asked]
NoSpan == <<0, 0>>
Plainly(res) == Returned(res, NoSpan, {})

\* Defect: unmaps the length of the window, not that of the OS mapping.
Drop_WindowOnly(h) ==
    LET m == map[h]
        gone == IF m.len = 0 THEN {} ELSE os_unmap(m.base, m.len)
    IN  /\ map' = [map EXCEPT ![h] = None]
        /\ vm' = Restrict(vm, DOMAIN vm \ gone)
        /\ priv' = priv \ gone
        /\ locked' = locked \ gone
        /\ wrote' = wrote \ Pages(m.base, m.os_len)
        /\ UNCHANGED <<dirty, handed, env>>

\* Drop: the placeholder has nothing to unmap.
Drop(h) ==
    LET m == map[h]
        gone == IF m.len = 0 THEN {} ELSE os_unmap(m.base, m.os_len)
    IN  /\ map' = [map EXCEPT ![h] = None]
        /\ vm' = Restrict(vm, DOMAIN vm \ gone)
        /\ priv' = priv \ gone
        /\ locked' = locked \ gone
        /\ wrote' = wrote \ Pages(m.base, m.os_len)
        /\ UNCHANGED <<dirty, handed, env>>

-----------------------------------------------------------------------------
(* RawMmapOptions::map, map_mut, map_copy and map_anon *)

Created(h, m, pages) ==
    /\ map' = [map EXCEPT ![h] = m]
    /\ vm' = [p \in DOMAIN vm \cup DOMAIN pages |-> IF p \in DOMAIN pages THEN pages[p] ELSE vm[p]]
    /\ Plainly("ok")
    /\ UNCHANGED <<dirty, handed, priv, locked, wrote, env>>

map_impl(h, access, offset, req) ==
    /\ map[h] = None
    /\ \E gran \in offset_granularity :
       \E len \in resolve_len(fileLen, offset, req) :
       \E lay \in layout(offset, len, gran) :
          \/ /\ lay.len = 0
             /\ Created(h, Mapping_empty(access, offset), Restrict(vm, {}))
          \/ /\ lay.len > 0
             /\ \E r \in os_map_file(access, lay) : Created(h, from_os(r, lay, access), r.pages)

RawMmapOptions_map_anon(h, req, huge) ==
    /\ map[h] = None
    /\ \E gran \in offset_granularity :
       \E lay \in layout(0, IF req = None THEN 0 ELSE req, gran) :
          \/ /\ lay.len = 0
             /\ Created(h, Mapping_empty("Anon", 0), Restrict(vm, {}))
          \/ /\ lay.len > 0
             /\ \E r \in os_map_anon(lay.map_len, huge) : Created(h, from_os(r, lay, "Anon"), r.pages)

\* A constructor that returns an error: an argument refused, a granularity the
\* OS does not report, a failed call of the OS, or the null address that
\* `finish' unmaps again.  Nothing is left mapped.
map_fails(h) ==
    /\ map[h] = None
    /\ Plainly("err")
    /\ UNCHANGED <<map, vm, dirty, handed, priv, locked, wrote, env>>

-----------------------------------------------------------------------------
(* Access, flush, advice, locking *)

Live(h) == map[h] # None

len_of(h) == IF Live(h) THEN map[h].len ELSE 0

\* The program stores to byte i of a RawMmapMut.  A store to a shared page
\* changes the file in memory, a store to a private page a private copy.
store(h, i) ==
    /\ Live(h)
    /\ map[h].mut /\ i < map[h].len
    /\ LET p == (ptr(map[h]) + i) \div Page
       IN  /\ p \in DOMAIN vm
           /\ vm[p].prot # "r"
           /\ IF vm[p].obj = "shared"
              THEN dirty' = dirty \cup {vm[p].fpage} /\ UNCHANGED <<priv, wrote>>
              ELSE priv' = priv \cup {p} /\ wrote' = wrote \cup {p} /\ UNCHANGED dirty
    /\ Plainly("ok")
    /\ UNCHANGED <<map, vm, handed, locked, env>>

\* What the caller of a Sync flush relies on: the pages of the file that hold
\* the bytes it named, if stores through the handle reach the file.
Asked(m, offset, len, mode) ==
    IF mode = "Sync" /\ m.kind \in {"Read", "Write"} THEN Pages(m.off + offset, len) ELSE {}

flush(h, offset, len, mode) ==
    /\ Live(h)
    /\ map[h].mut
    /\ LET m == map[h]
           sps == span(m, offset, len)
       IN  \/ sps = {} /\ Plainly("err") /\ UNCHANGED <<dirty, handed>>
           \/ \E sp \in sps :
                \/ sp[2] = 0 /\ Plainly("ok") /\ UNCHANGED <<dirty, handed>>
                \/ /\ sp[2] > 0
                   /\ \E res \in {"ok", "err"} :
                        /\ os_flush(sp, m.backing, mode, res)
                        /\ Returned(res, sp, IF res = "ok" THEN Asked(m, offset, len, mode) ELSE {})
    /\ UNCHANGED <<map, vm, priv, locked, wrote, env>>

\* Advice.  Windows has no DontNeed and does nothing.
os_advise(sp, advice) == priv' = priv \ IF plat = "windows" THEN {} ELSE unix_advise(sp, advice)

advise(h, advice, offset, len) ==
    /\ Live(h)
    /\ LET m == map[h]
           sps == span(m, offset, len)
       IN  \/ /\ sps = {} \/ (advice = "DontNeed" /\ is_private(m.kind))
              /\ Plainly("err") /\ UNCHANGED priv
           \/ /\ ~(advice = "DontNeed" /\ is_private(m.kind))
              /\ \E sp \in sps :
                  \/ sp[2] = 0 /\ Plainly("ok") /\ UNCHANGED priv
                  \/ sp[2] > 0 /\ os_advise(sp, advice) /\ Returned("ok", sp, {})
                  \/ /\ sp[2] > 0
                     /\ plat = "windows" => windows_advise_fails(advice)
                     /\ UNCHANGED priv /\ Returned("err", sp, {})
    /\ UNCHANGED <<map, vm, dirty, handed, locked, wrote, env>>

\* mlock, munlock: the OS may refuse either.
unix_lock(sp, on, res) ==
    locked' = IF res = "err" THEN locked
              ELSE IF on THEN locked \cup Pages(sp[1], sp[2]) ELSE locked \ Pages(sp[1], sp[2])

\* VirtualUnlock of pages that are not locked is an error that counts as Ok.
windows_lock(sp, on, res) ==
    /\ (~on /\ Pages(sp[1], sp[2]) \cap locked = {}) => res = "ok"
    /\ unix_lock(sp, on, res)

\* lock(true) is lock, lock(false) unlock, of the whole window.
lock(h, on) ==
    /\ Live(h)
    /\ LET m == map[h]
       IN  \E sp \in span(m, 0, m.len) :
            \/ sp[2] = 0 /\ Plainly("ok") /\ UNCHANGED <<locked, map>>
            \/ /\ sp[2] > 0
               /\ \E res \in {"ok", "err"} :
                    /\ IF plat = "windows" THEN windows_lock(sp, on, res) ELSE unix_lock(sp, on, res)
                    /\ map' = [map EXCEPT ![h].pinned = IF res = "ok" THEN on ELSE @]
                    /\ Returned(res, sp, {})
    /\ UNCHANGED <<vm, dirty, handed, priv, wrote, env>>

-----------------------------------------------------------------------------
(* Changing the protection; the handle is consumed *)

\* Defect: protects the length of the window, not that of the OS mapping.
Protect_WindowOnly(h, m, prot, mut) ==
    /\ map' = [map EXCEPT ![h] = [m EXCEPT !.mut = mut]]
    /\ vm' = [p \in DOMAIN vm |->
                IF p \in Pages(m.base, m.len) THEN [vm[p] EXCEPT !.prot = os_protect(prot)] ELSE vm[p]]
    /\ Plainly("ok")
    /\ UNCHANGED <<dirty, handed, priv, locked, wrote, env>>

\* Mapping::protect(prot), giving a handle that is `mut' or not.  The OS
\* refuses a protection the mapping was not created for; on any error the
\* mapping is dropped.
Protect(h, m, prot, mut) ==
    LET pages == Pages(m.base, m.os_len)
    IN  \/ /\ m.len = 0 \/ \A p \in pages : p \in DOMAIN vm /\ os_protect(prot) \in vm[p].prots
           /\ map' = [map EXCEPT ![h] = [m EXCEPT !.mut = mut]]
           /\ vm' = IF m.len = 0 THEN vm
                    ELSE [p \in DOMAIN vm |->
                            IF p \in pages THEN [vm[p] EXCEPT !.prot = os_protect(prot)] ELSE vm[p]]
           /\ Plainly("ok")
           /\ UNCHANGED <<dirty, handed, priv, locked, wrote, env>>
        \/ /\ m.len > 0
           /\ Drop(h)
           /\ Plainly("err")

make_read_only(h) == Live(h) /\ map[h].mut /\ Protect(h, map[h], "ReadOnly", FALSE)

\* Defect: the backing stays Private, and flush goes on doing nothing.
mark_shared_writable_Forgotten(m) == IF plat = "windows" THEN {} ELSE {m}

\* Backing::mark_shared_writable: a read-only section stays so on Windows.
mark_shared_writable(m) ==
    IF plat = "windows" THEN {} ELSE {[m EXCEPT !.backing = "Shared"]}

make_mut(h) ==
    /\ Live(h) /\ ~map[h].mut
    /\ LET m == map[h]
           marked == IF m.kind = "Read" /\ m.len > 0 THEN mark_shared_writable(m) ELSE {m}
       IN  \/ marked = {} /\ Drop(h) /\ Plainly("err")
           \/ \E w \in marked :
                Protect(h, [w EXCEPT !.kind = IF @ = "Read" THEN "Write" ELSE @],
                        IF w.kind = "Copy" THEN "WriteCopy" ELSE "ReadWrite", TRUE)

drop(h) == Live(h) /\ Drop(h) /\ Plainly("ok")

-----------------------------------------------------------------------------
Init ==
    /\ plat \in Platforms
    /\ fileLen \in FileLens
    /\ fmode \in {"r", "rw"}
    /\ map = [h \in Handles |-> None]
    /\ vm = [p \in Foreign |->
                [obj |-> "private", prot |-> "rw", prots |-> {"r", "rw"}, view |-> 0,
                 huge |-> FALSE, fpage |-> None]]
    /\ dirty = {} /\ handed = {} /\ priv = {} /\ locked = {} /\ wrote = {}
    /\ last = [res |-> "ok", span |-> NoSpan, asked |-> {}]

Next ==
    \E h \in Handles :
        \/ \E access \in {"Read", "Write", "Copy"}, offset \in Offsets, req \in Lens \cup {None} :
              map_impl(h, access, offset, req)
        \/ \E req \in Lens \cup {None}, huge \in BOOLEAN : RawMmapOptions_map_anon(h, req, huge)
        \/ map_fails(h)
        \/ \E i \in Stores : store(h, i)
        \/ \E offset \in Starts, len \in Counts \cup {len_of(h)}, mode \in {"Sync", "Async"} :
              flush(h, offset, len, mode)
        \/ \E advice \in {"WillNeed", "DontNeed"}, offset \in Starts, len \in Counts \cup {len_of(h)} :
              advise(h, advice, offset, len)
        \/ \E on \in BOOLEAN : lock(h, on)
        \/ make_read_only(h)
        \/ make_mut(h)
        \/ drop(h)

Spec == Init /\ [][Next]_vars

-----------------------------------------------------------------------------
(* Properties *)

\* Handles, page table and sets of pages are what the code's types say; in
\* particular no length and no offset into a mapping is negative.
TypeOK ==
    /\ plat \in Platforms /\ fileLen \in FileLens /\ fmode \in {"r", "rw"}
    /\ map \in [Handles -> Mapping \cup {None}]
    /\ DOMAIN vm \subseteq Nat
    /\ \A p \in DOMAIN vm :
        vm[p] \in [obj : {"shared", "private"}, prot : {"r", "rw", "wc"},
                   prots : SUBSET {"r", "rw", "wc"}, view : Bases \cup {0}, huge : BOOLEAN,
                   fpage : Nat \cup {None}]
    /\ dirty \subseteq Nat /\ handed \subseteq Nat
    /\ priv \subseteq Nat /\ locked \subseteq Nat /\ wrote \subseteq Nat

\* The pages of the OS mapping of handle h, and those of its window.
Owned(h)  == IF Live(h) THEN Pages(map[h].base, map[h].os_len) ELSE {}
Window(h) == IF Live(h) THEN Pages(ptr(map[h]), map[h].len) ELSE {}

\* Every page the raw layer has mapped belongs to exactly one live handle, and
\* a live handle's pages are all mapped and its own; pages of others are left
\* alone.  So there is no leak, no use after unmap and no unmap too far, also
\* when make_mut or make_read_only fails and drops the mapping it consumed,
\* and for the rounded lengths of huge pages.  (raw/mod.rs:263-267.)
ExactlyOwned ==
    /\ DOMAIN vm = Foreign \cup UNION {Owned(h) : h \in Handles}
    /\ \A h \in Handles :
        /\ Window(h) \subseteq Owned(h)
        /\ \A p \in Owned(h) : vm[p].view = map[h].base

\* Byte i of a file window is byte `offset + i' of the file, whatever the
\* alignment of the offset, and the window ends inside the file, so that no
\* access faults.  (raw/mod.rs:44-50.)
WindowExact ==
    \A h \in Handles :
        (Live(h) /\ map[h].kind # "Anon") =>
            LET m == map[h]
            IN  /\ m.off + m.len =< fileLen
                /\ \A i \in 0 .. m.len - 1 :
                     LET a == ptr(m) + i
                     IN  vm[a \div Page].fpage * Page + (a % Page) = m.off + i

\* Through a RawMmapMut every byte of the window can be written, through a
\* RawMmap none can, after any sequence of make_mut and make_read_only.
\* (raw/mod.rs:444-456; as_mut_slice relies on it, raw/mod.rs:368.)
ProtectionMatches ==
    \A h \in Handles : \A p \in Window(h) : (vm[p].prot # "r") <=> map[h].mut

\* A range handed to the OS is never empty, starts on a page, and stays inside
\* the live mapping of one handle.  (raw/mod.rs:378-380; a count of 0 would
\* mean "to the end of the view" to FlushViewOfFile.)
SpanContract ==
    last.span # NoSpan =>
        /\ last.span[1] % Page = 0
        /\ last.span[2] > 0
        /\ \E h \in Handles : Live(h) /\ map[h].base =< last.span[1]
                              /\ last.span[1] + last.span[2] =< ptr(map[h]) + map[h].len

\* When a synchronous flush of a shared mapping returns Ok, the bytes it was
\* asked for are on the disk: not in memory only, not in the file system's
\* cache, also for a mapping that was created read-only and made writable.
\* (raw/mod.rs:53-54, 957-960.)
FlushDurable == last.asked \cap (dirty \cup handed) = {}

\* What was written to a copy-on-write or anonymous mapping is still there:
\* advice never discards it.  (raw/mod.rs:291-294, 418-424.)
PrivateKept == wrote = priv

\* After a successful lock the whole window is pinned, the page it starts in
\* and the one it ends in included, until a successful unlock, which leaves no
\* page of it pinned.  (raw/mod.rs:435-442.)
LockCovers ==
    \A h \in Handles : Window(h) # {} =>
        IF map[h].pinned THEN Window(h) \subseteq locked ELSE Window(h) \cap locked = {}

=============================================================================
