------------------------------- MODULE Paging -------------------------------
(***************************************************************************)
(* Physical pages and copy-on-write address spaces: kernel/paging.c, with  *)
(* the loader's map_user_page() of kernel/elf.c.  Every function here runs *)
(* with interrupts off, so it is one step.  Which free page the PMM picks  *)
(* (a rotating cursor) is left open.  A user page-table entry is RW or is  *)
(* RO with the COW bit; the kernel half and large pages are not modelled.  *)
(***************************************************************************)
EXTENDS Integers, FiniteSets

CONSTANTS
  Frames,         \* the physical pages managed by the PMM
  NoFrame,        \* physical address 0
  Spaces,         \* address spaces
  Kernel,         \* kernel_page_directory, shared by the programs of exec
  NumTables,      \* user page tables of a directory (768 in the kernel)
  PagesPerTable,  \* entries of a page table (1024)
  Values, Zero    \* page contents

ASSUME PagingAssumption ==
  /\ NoFrame \notin Frames
  /\ Kernel \in Spaces
  /\ NumTables \in Nat /\ PagesPerTable \in Nat
  /\ Zero \in Values /\ NoFrame \notin Values
  /\ IsFiniteSet(Frames) /\ IsFiniteSet(Spaces)

Table == 0 .. NumTables - 1
VPage == Table \X (0 .. PagesPerTable - 1)

VARIABLES
  used,     \* pmm_bitmap: the pages in use
  refcnt,   \* page_refcnt[]
  pd,       \* the page of the directory of a space, NoFrame when there is none
  pt,       \* pt[s][t]: the page of table t of space s, NoFrame when absent
  map,      \* map[s][v]: the page behind v, NoFrame when not present
  rw,       \* rw[s]: the pages mapped RW; the other mapped ones are RO and COW
  content,  \* the content of the data pages (a page is overwritten when it is next used)
  cr3,      \* the loaded address space
  tlb       \* the cached translations, as pairs of a page and its RW bit

pmmVars == <<used, refcnt>>
spaceVars == <<pd, pt, map, rw>>
vars == <<pmmVars, spaceVars, content, cr3, tlb>>

Free == Frames \ used
Live == {s \in Spaces : s = Kernel \/ pd[s] # NoFrame}
Mapped(s) == {v \in VPage : map[s][v] # NoFrame}

NoTranslation == <<NoFrame, FALSE>>
NoTables == [t \in Table |-> NoFrame]
NoPages == [v \in VPage |-> NoFrame]
EmptyTlb == [v \in VPage |-> NoTranslation]

\* The final kernel directory, before the first program is loaded.
Init ==
  /\ used = {}
  /\ refcnt = [f \in Frames |-> 0]
  /\ pd = [s \in Spaces |-> NoFrame]
  /\ pt = [s \in Spaces |-> NoTables]
  /\ map = [s \in Spaces |-> NoPages]
  /\ rw = [s \in Spaces |-> {}]
  /\ content = [f \in Frames |-> Zero]
  /\ cr3 = Kernel
  /\ tlb = EmptyTlb

-----------------------------------------------------------------------------
(* The page allocator.                                                     *)

\* pmm_alloc_page() for the pages of A: in use, with one reference.
pmm_alloc(A) ==
  /\ A \subseteq Free
  /\ used' = used \cup A
  /\ refcnt' = [f \in Frames |-> IF f \in A THEN 1 ELSE refcnt[f]]

\* invlpg(v)
invlpg(v) == tlb' = [tlb EXCEPT ![v] = NoTranslation]

-----------------------------------------------------------------------------
(* Mapping and writing.                                                    *)

\* map_page(): v leads to page f, RW, in the kernel directory, which gets g as
\* the page table of v first when it has none.  What was mapped at v before is
\* overwritten and keeps its reference.
map_page(v, f, g) ==
  /\ pt' = IF g = NoFrame THEN pt ELSE [pt EXCEPT ![Kernel][v[1]] = g]
  /\ map' = [map EXCEPT ![Kernel][v] = f]
  /\ rw' = [rw EXCEPT ![Kernel] = @ \cup {v}]
  /\ invlpg(v)

\* elf_load_ex() loads a page of the image, x, into f.
LoadPage(v, x, f, g) ==
  /\ pmm_alloc({f, g} \ {NoFrame})
  /\ map_page(v, f, g)
  /\ content' = [content EXCEPT ![f] = x]
  /\ UNCHANGED <<pd, cr3>>

\* map_user_page(): without enough pages nothing is left changed.
map_user_page(v, x) ==
  \E f \in Free : \E g \in IF pt[Kernel][v[1]] = NoFrame THEN Free \ {f} ELSE {NoFrame} :
    LoadPage(v, x, f, g)

\* The MMU: the cached translation, or else a walk of the loaded tables.
Translate(v) == IF tlb[v] # NoTranslation THEN tlb[v] ELSE <<map[cr3][v], v \in rw[cr3]>>

\* A load of the running program, which caches the translation.
Read(v) ==
  /\ v \in Mapped(cr3)
  /\ tlb' = [tlb EXCEPT ![v] = Translate(v)]
  /\ UNCHANGED <<pmmVars, spaceVars, content, cr3>>

\* A store of the running program that the MMU lets through.
Write(v, x) ==
  /\ v \in Mapped(cr3)
  /\ Translate(v)[2]
  /\ content' = [content EXCEPT ![Translate(v)[1]] = x]
  /\ tlb' = [tlb EXCEPT ![v] = Translate(v)]
  /\ UNCHANGED <<pmmVars, spaceVars, cr3>>

\* Mutant of CowCopy: the entry is changed before the copy, which then copies
\* the new page onto itself.
CowCopy_Late(v, f) ==
  LET old == map[cr3][v]
  IN /\ refcnt[old] > 1
     /\ f \in Free
     /\ used' = used \cup {f}
     /\ refcnt' = [refcnt EXCEPT ![f] = 1, ![old] = @ - 1]
     /\ map' = [map EXCEPT ![cr3][v] = f]
     /\ UNCHANGED content

\* paging_handle_cow_fault(): a store to a RO page with the COW bit.  A page
\* with other references is copied, otherwise the entry is made RW again.  With
\* no page left for the copy the kernel stops: no step.
CowCopy(v, f) ==
  LET old == map[cr3][v]
  IN /\ refcnt[old] > 1
     /\ f \in Free
     /\ used' = used \cup {f}
     /\ refcnt' = [refcnt EXCEPT ![f] = 1, ![old] = @ - 1]
     /\ content' = [content EXCEPT ![f] = content[old]]
     /\ map' = [map EXCEPT ![cr3][v] = f]

CowReuse(v) ==
  /\ ~(refcnt[map[cr3][v]] > 1)
  /\ UNCHANGED <<pmmVars, map, content>>

paging_handle_cow_fault(v) ==
  /\ v \in Mapped(cr3)
  /\ v \notin rw[cr3]
  /\ ~Translate(v)[2]
  /\ (\E f \in Frames : CowCopy(v, f)) \/ CowReuse(v)
  /\ rw' = [rw EXCEPT ![cr3] = @ \cup {v}]
  /\ invlpg(v)
  /\ UNCHANGED <<pd, pt, cr3>>

-----------------------------------------------------------------------------
(* Address spaces.                                                         *)

Tables(s) == {t \in Table : pt[s][t] # NoFrame}
PagesOf(s, T) == {v \in Mapped(s) : v[1] \in T}
DataFrames(s) == {map[s][v] : v \in Mapped(s)}

\* What paging_clone_address_space() leaves of the RW bits of parent p and
\* child c: both sides RO and COW.
Downgrade(p, c) == [rw EXCEPT ![c] = {}, ![p] = {}]

\* load_cr3() of the directory that is loaded: the downgrade reaches the TLB.
ReloadCr3_Forgotten == tlb' = tlb
ReloadCr3 == tlb' = EmptyTlb

\* paging_clone_address_space() with enough pages: a directory f and the tables
\* g for the child, and one more reference for every page of the parent.
CloneInto(c, f, g) ==
  LET p == cr3
  IN /\ \A t, u \in Tables(p) : g[t] = g[u] => t = u
     /\ used' = used \cup {f} \cup {g[t] : t \in Tables(p)}
     /\ refcnt' = [h \in Frames |-> CASE h \in used' \ used  -> 1
                                      [] h \in DataFrames(p) -> refcnt[h] + 1
                                      [] OTHER               -> refcnt[h]]
     /\ pd' = [pd EXCEPT ![c] = f]
     /\ pt' = [pt EXCEPT ![c] = [t \in Table |-> IF t \in Tables(p) THEN g[t] ELSE NoFrame]]
     /\ map' = [map EXCEPT ![c] = map[p]]
     /\ rw' = Downgrade(p, c)
     /\ ReloadCr3
     /\ UNCHANGED <<content, cr3>>

CloneDone(c) == \E f \in Free : \E g \in [Tables(cr3) -> Free \ {f}] : CloneInto(c, f, g)

\* The same when the pages run out: the tables below the one that got no page
\* have been cloned and are rolled back.  References and pages are as before,
\* but every page of these tables that is COW in the child, which is every one,
\* is made RW in the parent.  Nothing is reloaded.
CloneFailed ==
  LET p == cr3
      undone == {t \in Tables(p) : Cardinality({u \in Tables(p) : u <= t}) < Cardinality(Free)}
  IN /\ Cardinality(Free) < 1 + Cardinality(Tables(p))
     /\ rw' = [rw EXCEPT ![p] = @ \cup PagesOf(p, undone)]
     /\ UNCHANGED <<pmmVars, pd, pt, map, content, cr3, tlb>>

paging_clone_address_space(c) ==
  /\ c \notin Live
  /\ CloneDone(c) \/ CloneFailed

\* page_ref_dec() of the data page f of a space that goes.
page_ref_dec_ToZero(f) == 0
page_ref_dec(f) == IF refcnt[f] = 0 THEN 0 ELSE refcnt[f] - 1

\* paging_destroy_address_space(): one reference less for every page, which is
\* freed with the last one, and the tables and the directory go back.  The
\* kernel directory and the loaded one are refused.
paging_destroy_address_space(s) ==
  LET private == {pt[s][t] : t \in Tables(s)} \cup {pd[s]}
      last == {f \in DataFrames(s) : page_ref_dec(f) = 0}
  IN /\ s \in Live \ {Kernel, cr3}
     /\ used' = used \ (private \cup last)
     /\ refcnt' = [f \in Frames |-> CASE f \in private       -> 0
                                      [] f \in DataFrames(s) -> page_ref_dec(f)
                                      [] OTHER               -> refcnt[f]]
     /\ pd' = [pd EXCEPT ![s] = NoFrame]
     /\ pt' = [pt EXCEPT ![s] = NoTables]
     /\ map' = [map EXCEPT ![s] = NoPages]
     /\ rw' = [rw EXCEPT ![s] = {}]
     /\ content' = [f \in Frames |-> IF f \in used' THEN content[f] ELSE Zero]
     /\ UNCHANGED <<cr3, tlb>>

\* schedule_next() loads another directory.
SwitchTo(s) ==
  /\ s \in Live \ {cr3}
  /\ cr3' = s
  /\ tlb' = EmptyTlb
  /\ UNCHANGED <<pmmVars, spaceVars, content>>

Next ==
  \/ \E v \in VPage :
       \/ \E x \in Values : map_user_page(v, x) \/ Write(v, x)
       \/ Read(v)
       \/ paging_handle_cow_fault(v)
  \/ \E s \in Spaces :
       \/ paging_clone_address_space(s)
       \/ paging_destroy_address_space(s)
       \/ SwitchTo(s)

Spec == Init /\ [][Next]_vars

-----------------------------------------------------------------------------
(* Properties.                                                             *)

TypeOK ==
  /\ used \in SUBSET Frames
  /\ refcnt \in [Frames -> 0 .. Cardinality(Spaces)]
  /\ pd \in [Spaces -> Frames \cup {NoFrame}]
  /\ pt \in [Spaces -> [Table -> Frames \cup {NoFrame}]]
  /\ map \in [Spaces -> [VPage -> Frames \cup {NoFrame}]]
  /\ rw \in [Spaces -> SUBSET VPage]
  /\ content \in [Frames -> Values]
  /\ cr3 \in Spaces
  /\ tlb \in [VPage -> (Frames \cup {NoFrame}) \X BOOLEAN]

\* The entries that lead to page f: a directory, a table or a mapping.
References(f) ==
  Cardinality({s \in Spaces : pd[s] = f})
    + Cardinality({st \in Spaces \X Table : pt[st[1]][st[2]] = f})
    + Cardinality({sv \in Spaces \X VPage : map[sv[1]][sv[2]] = f})

\* paging.h: "bitmap set <=> refcnt >= 1", and page_ref_inc/dec count on the
\* safe side: a page has at least as many references as entries lead to it, so
\* it is never given to somebody else while it is mapped.
CountedReferences ==
  \A f \in Frames : (f \in used <=> refcnt[f] >= 1) /\ refcnt[f] >= References(f)

\* Copy on write: a page mapped RW is mapped nowhere else.
WritableIsPrivate ==
  \A s, r \in Spaces : \A v \in rw[s], w \in VPage :
    map[s][v] # NoFrame /\ map[r][w] = map[s][v] => <<r, w>> = <<s, v>>

\* The TLB agrees with the tables of the loaded space, so a store neither
\* reaches a page it may not write nor faults on a page that is RW (the resolver
\* refuses that, and the kernel stops): the reload of cr3 after a clone and
\* invlpg() after a fault come in time.
TlbCoherent ==
  \A v \in VPage : tlb[v] # NoTranslation => tlb[v] = <<map[cr3][v], v \in rw[cr3]>>

\* Nobody sees the writes of another space: paging.c implements Memory, where
\* every space has a memory of its own.  And paging_handle_cow_fault() is invisible
\* to the program whose store faulted: its page has the same content after it.
memory == [s \in Spaces |-> [v \in VPage |->
             IF map[s][v] = NoFrame THEN NoFrame ELSE content[map[s][v]]]]
Private == INSTANCE Memory WITH mem <- memory, Shared <- Kernel, Unmapped <- NoFrame
FaultStep == \E v \in VPage : paging_handle_cow_fault(v)
PrivateMemory == Private!Spec /\ [][FaultStep => UNCHANGED memory]_vars

=============================================================================
