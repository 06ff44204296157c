---------------------------- MODULE PagingProofs ----------------------------
(***************************************************************************)
(* Copy-on-write address spaces (Paging), for any number of pages, spaces, *)
(* page tables and entries.                                                *)
(***************************************************************************)
EXTENDS MCPaging, FiniteSetTheorems, TLAPS

-----------------------------------------------------------------------------
(* Reference counts.                                                       *)

\* The spaces in which page f is mapped.
Sharers(f) == {s \in Spaces : f \in DataFrames(s)}

IndexTypes ==
  /\ used \in SUBSET Frames
  /\ refcnt \in [Frames -> Nat]
  /\ pd \in [Spaces -> Frames \cup {NoFrame}]
  /\ pt \in [Spaces -> [Table -> Frames \cup {NoFrame}]]
  /\ map \in [Spaces -> [VPage -> Frames \cup {NoFrame}]]
  /\ rw \in [Spaces -> SUBSET VPage]
  /\ content \in [Frames -> Values]
  /\ cr3 \in Spaces
  /\ tlb \in [VPage -> (Frames \cup {NoFrame}) \X BOOLEAN]

\* A space maps a page once.
MappedOnce ==
  \A s \in Spaces : \A v, w \in Mapped(s) : map[s][v] = map[s][w] => v = w

\* A space that is not live is empty.
DeadIsEmpty ==
  \A s \in Spaces \ Live : pt[s] = NoTables /\ map[s] = NoPages /\ rw[s] = {}

\* The count of a page: one for each space that maps it, and at most one more,
\* left behind when the kernel space maps another page in its place.
Counted ==
  \A f \in Frames :
    /\ f \in used <=> refcnt[f] >= 1
    /\ refcnt[f] >= Cardinality(Sharers(f))
    /\ refcnt[f] <= Cardinality(Sharers(f)) + (IF Kernel \in Sharers(f) THEN 0 ELSE 1)

\* A directory or a table is a page of its own, with one reference.
OwnPage(f) == f \in Frames => refcnt[f] = 1 /\ Sharers(f) = {}
Structure ==
  /\ \A s \in Spaces : OwnPage(pd[s])
  /\ \A s \in Spaces, t \in Table : OwnPage(pt[s][t])
  /\ \A s, r \in Spaces : pd[s] = pd[r] /\ pd[s] # NoFrame => s = r
  /\ \A s, r \in Spaces, t \in Table : pd[s] = pt[r][t] => pd[s] = NoFrame
  /\ \A s, r \in Spaces, t, u \in Table :
       pt[s][t] = pt[r][u] /\ pt[s][t] # NoFrame => s = r /\ t = u

RefInv ==
  /\ IndexTypes /\ MappedOnce /\ DeadIsEmpty /\ Counted /\ Structure
  /\ \A s \in Spaces : rw[s] \subseteq Mapped(s)

LEMMA Shares ==
  ASSUME NEW f \in Frames, IndexTypes
  PROVE  Sharers(f) = {s \in Spaces : \E v \in VPage : map[s][v] = f}
  BY PagingAssumption DEF Sharers, DataFrames, Mapped, IndexTypes

LEMMA SharersFinite ==
  ASSUME NEW f
  PROVE  /\ IsFiniteSet(Sharers(f))
         /\ Cardinality(Sharers(f)) \in Nat
         /\ Cardinality(Sharers(f)) = 0 <=> Sharers(f) = {}
<1>1. Sharers(f) \in SUBSET Spaces
  BY Zenon DEF Sharers
<1> HIDE DEF Sharers
<1>2. IsFiniteSet(Sharers(f))
  BY <1>1, FS_Subset, PagingAssumption, Zenon
<1> QED
  BY <1>2, FS_CardinalityType, FS_EmptySet, Zenon

\* A free page is mapped nowhere.
LEMMA FreeUnmapped ==
  ASSUME RefInv, NEW f \in Free
  PROVE  f \in Frames /\ refcnt[f] = 0 /\ Sharers(f) = {}
<1>1. f \in Frames /\ refcnt[f] = 0
  BY DEF Free, RefInv, Counted, IndexTypes
<1>2. Cardinality(Sharers(f)) = 0
  BY <1>1, SharersFinite DEF RefInv, Counted
<1> QED
  BY <1>1, <1>2, SharersFinite, Zenon

\* An entry v of space s is made to lead to a page f that nobody maps.
LEMMA Remap ==
  ASSUME RefInv, IndexTypes', NEW s \in Spaces, NEW v \in VPage, NEW f \in Frames,
         Sharers(f) = {}, map' = [map EXCEPT ![s][v] = f]
  PROVE  /\ MappedOnce'
         /\ Sharers(f)' = {s}
         /\ \A h \in Frames \ {f} :
              Sharers(h)' = IF h = map[s][v] THEN Sharers(h) \ {s} ELSE Sharers(h)
         /\ \A r \in Spaces : Mapped(r)' = IF r = s THEN Mapped(r) \cup {v} ELSE Mapped(r)
<1> USE DEF RefInv
<1>1. \A r \in Spaces, w \in VPage :
        map'[r][w] = IF r = s /\ w = v THEN f ELSE map[r][w]
  BY Zenon DEF IndexTypes
<1>2. \A r \in Spaces, w \in VPage : map[r][w] # f
  BY Shares, Zenon
<1>3. MappedOnce'
  BY <1>1, <1>2 DEF MappedOnce, Mapped
<1>4. Sharers(f)' = {s}
  <2>1. Sharers(f)' = {r \in Spaces : \E w \in VPage : map'[r][w] = f}
    BY PagingAssumption DEF Sharers, DataFrames, Mapped, IndexTypes
  <2> QED BY <2>1, <1>1, <1>2
<1>5. ASSUME NEW h \in Frames \ {f}
      PROVE  Sharers(h)' = IF h = map[s][v] THEN Sharers(h) \ {s} ELSE Sharers(h)
  <2>1. Sharers(h)' = {r \in Spaces : \E w \in VPage : map'[r][w] = h}
    BY PagingAssumption DEF Sharers, DataFrames, Mapped, IndexTypes
  <2>2. Sharers(h) = {r \in Spaces : \E w \in VPage : map[r][w] = h}
    BY Shares, Zenon
  <2>3. ASSUME NEW r \in Spaces, r # s PROVE r \in Sharers(h)' <=> r \in Sharers(h)
    BY <2>1, <2>2, <2>3, <1>1
  <2>4. CASE h = map[s][v]
    <3>1. \A w \in VPage \ {v} : map[s][w] # h
      BY <2>4, PagingAssumption, Zenon DEF MappedOnce, Mapped
    <3>2. s \notin Sharers(h)'
      BY <2>1, <1>1, <3>1
    <3> QED BY <2>1, <2>2, <2>3, <2>4, <3>2, Zenon
  <2>5. CASE h # map[s][v]
    <3>1. s \in Sharers(h)' <=> s \in Sharers(h)
      BY <2>1, <2>2, <1>1, <2>5
    <3> QED BY <2>1, <2>2, <2>3, <2>5, <3>1, Zenon
  <2> QED BY <2>4, <2>5, Zenon
<1>6. \A r \in Spaces : Mapped(r)' = IF r = s THEN Mapped(r) \cup {v} ELSE Mapped(r)
  BY <1>1, PagingAssumption DEF Mapped
<1> QED
  BY <1>3, <1>4, <1>5, <1>6, Zenon

-----------------------------------------------------------------------------
(* Types.                                                                  *)

LEMMA TranslateType ==
  ASSUME IndexTypes, NEW v \in VPage
  PROVE  Translate(v) \in (Frames \cup {NoFrame}) \X BOOLEAN
<1>1. map[cr3][v] \in Frames \cup {NoFrame} /\ (v \in rw[cr3]) \in BOOLEAN
  BY DEF IndexTypes
<1>2. <<map[cr3][v], v \in rw[cr3]>> \in (Frames \cup {NoFrame}) \X BOOLEAN
  BY <1>1, Zenon
<1>3. tlb[v] \in (Frames \cup {NoFrame}) \X BOOLEAN
  BY Zenon DEF IndexTypes
<1> QED
  BY <1>2, <1>3, Zenon DEF Translate

LEMMA MapUserTyped ==
  ASSUME IndexTypes, NEW v \in VPage, NEW x \in Values, map_user_page(v, x)
  PROVE  IndexTypes'
<1> USE PagingAssumption DEF IndexTypes
<1>1. PICK f \in Free : \E g \in IF pt[Kernel][v[1]] = NoFrame THEN Free \ {f} ELSE {NoFrame} :
                          LoadPage(v, x, f, g)
  BY Zenon DEF map_user_page
<1>2. PICK g \in IF pt[Kernel][v[1]] = NoFrame THEN Free \ {f} ELSE {NoFrame} : LoadPage(v, x, f, g)
  BY <1>1, Zenon
<1> USE DEF LoadPage
<1>3. f \in Frames /\ g \in Frames \cup {NoFrame}
  BY Zenon DEF Free
<1>4. used' \in SUBSET Frames /\ refcnt' \in [Frames -> Nat]
  BY <1>2, <1>3, Zenon DEF pmm_alloc, Free
<1>5. pt' \in [Spaces -> [Table -> Frames \cup {NoFrame}]]
  BY <1>2, <1>3, Zenon DEF map_page
<1>6. map' \in [Spaces -> [VPage -> Frames \cup {NoFrame}]] /\ rw' \in [Spaces -> SUBSET VPage]
  BY <1>2, <1>3, Zenon DEF map_page
<1>7. tlb' \in [VPage -> (Frames \cup {NoFrame}) \X BOOLEAN]
  BY <1>2, Zenon DEF map_page, invlpg, NoTranslation
<1> QED
  BY <1>2, <1>3, <1>4, <1>5, <1>6, <1>7, Zenon

LEMMA CowTyped ==
  ASSUME IndexTypes, NEW v \in VPage, paging_handle_cow_fault(v)
  PROVE  IndexTypes'
<1> USE PagingAssumption DEF IndexTypes
<1>1. map[cr3][v] \in Frames
  BY DEF paging_handle_cow_fault, Mapped
<1>2. /\ rw' \in [Spaces -> SUBSET VPage] /\ tlb' \in [VPage -> (Frames \cup {NoFrame}) \X BOOLEAN]
      /\ UNCHANGED <<pd, pt, cr3>>
  BY Zenon DEF paging_handle_cow_fault, invlpg, NoTranslation
<1>3. CASE CowReuse(v)
  BY <1>2, <1>3, Zenon DEF CowReuse, pmmVars
<1>4. ASSUME NEW f \in Frames, CowCopy(v, f) PROVE IndexTypes'
  <2>1. used' \in SUBSET Frames /\ refcnt' \in [Frames -> Nat]
    <3>1. /\ refcnt[map[cr3][v]] > 1 /\ used' = used \cup {f}
          /\ refcnt' = [refcnt EXCEPT ![f] = 1, ![map[cr3][v]] = @ - 1]
      BY <1>4, Zenon DEF CowCopy
    <3> HIDE DEF IndexTypes
    <3>2. refcnt \in [Frames -> Nat] /\ used \in SUBSET Frames
      BY Zenon DEF IndexTypes
    <3> QED BY <1>1, <3>1, <3>2
  <2>2. content' \in [Frames -> Values] /\ map' \in [Spaces -> [VPage -> Frames \cup {NoFrame}]]
    BY <1>1, <1>4, Zenon DEF CowCopy
  <2> QED BY <1>2, <2>1, <2>2, Zenon
<1> QED
  BY <1>3, <1>4, Zenon DEF paging_handle_cow_fault

LEMMA CloneTyped ==
  ASSUME IndexTypes, NEW c \in Spaces, paging_clone_address_space(c)
  PROVE  IndexTypes'
<1> USE PagingAssumption DEF IndexTypes
<1>1. CASE CloneFailed
  <2>1. \A T : PagesOf(cr3, T) \subseteq VPage
    BY Zenon DEF PagesOf, Mapped
  <2>2. rw' \in [Spaces -> SUBSET VPage]
    BY <1>1, <2>1, Zenon DEF CloneFailed
  <2> QED BY <1>1, <2>2, Zenon DEF CloneFailed, pmmVars
<1>2. CASE CloneDone(c)
  <2>1. PICK f \in Free : \E g \in [Tables(cr3) -> Free \ {f}] : CloneInto(c, f, g)
    BY <1>2, Zenon DEF CloneDone
  <2>9. PICK g \in [Tables(cr3) -> Free \ {f}] : CloneInto(c, f, g)
    BY <2>1, Zenon
  <2> USE <2>9 DEF CloneInto, ReloadCr3
  <2>2. used' \in SUBSET Frames
    BY DEF Free
  <2>3. refcnt' \in [Frames -> Nat]
    OBVIOUS
  <2>4. /\ pd' \in [Spaces -> Frames \cup {NoFrame}]
        /\ pt' \in [Spaces -> [Table -> Frames \cup {NoFrame}]]
    BY Zenon DEF Free
  <2>5. /\ map' \in [Spaces -> [VPage -> Frames \cup {NoFrame}]]
        /\ rw' \in [Spaces -> SUBSET VPage]
        /\ tlb' \in [VPage -> (Frames \cup {NoFrame}) \X BOOLEAN]
    BY Zenon DEF Downgrade, EmptyTlb, NoTranslation
  <2> QED BY <2>2, <2>3, <2>4, <2>5, Zenon
<1> QED
  BY <1>1, <1>2, Zenon DEF paging_clone_address_space

LEMMA DestroyTyped ==
  ASSUME IndexTypes, NEW s \in Spaces, paging_destroy_address_space(s)
  PROVE  IndexTypes'
<1> USE PagingAssumption DEF IndexTypes, paging_destroy_address_space
<1>1. refcnt' \in [Frames -> Nat]
  <2>1. \A f \in Frames : page_ref_dec(f) \in Nat
    BY DEF page_ref_dec
  <2> QED BY <2>1, Zenon
<1>2. used' \in SUBSET Frames /\ content' \in [Frames -> Values] /\ UNCHANGED <<cr3, tlb>>
  BY Zenon
<1>3. /\ pd' \in [Spaces -> Frames \cup {NoFrame}]
      /\ pt' \in [Spaces -> [Table -> Frames \cup {NoFrame}]]
      /\ map' \in [Spaces -> [VPage -> Frames \cup {NoFrame}]]
      /\ rw' \in [Spaces -> SUBSET VPage]
  BY Zenon DEF NoTables, NoPages
<1> QED
  BY <1>1, <1>2, <1>3, Zenon

LEMMA TypesKept == ASSUME IndexTypes, [Next]_vars PROVE IndexTypes'
<1>1. ASSUME NEW v \in VPage, Read(v) PROVE IndexTypes'
  BY <1>1, TranslateType, Zenon DEF Read, IndexTypes, pmmVars, spaceVars
<1>2. ASSUME NEW v \in VPage, NEW x \in Values, Write(v, x) PROVE IndexTypes'
  BY <1>2, TranslateType, Zenon DEF Write, IndexTypes, pmmVars, spaceVars
<1>3. ASSUME NEW s \in Spaces, SwitchTo(s) PROVE IndexTypes'
  BY <1>3, Zenon DEF SwitchTo, IndexTypes, pmmVars, spaceVars, EmptyTlb, NoTranslation
<1>4. CASE UNCHANGED vars
  BY <1>4, Zenon DEF vars, IndexTypes, pmmVars, spaceVars
<1> QED
  BY <1>1, <1>2, <1>3, <1>4, MapUserTyped, CowTyped, CloneTyped, DestroyTyped, Zenon DEF Next

-----------------------------------------------------------------------------
(* The counts, action by action.                                           *)

LEMMA RefInit == Init => RefInv
<1> SUFFICES ASSUME Init PROVE RefInv
  BY Zenon
<1> USE PagingAssumption
<1>1. IndexTypes
  BY Zenon DEF Init, IndexTypes, NoTables, NoPages, EmptyTlb, NoTranslation
<1>2. \A s \in Spaces : Mapped(s) = {}
  BY Zenon DEF Init, Mapped, NoPages
<1>3. MappedOnce /\ DeadIsEmpty /\ \A s \in Spaces : rw[s] \subseteq Mapped(s)
  BY <1>2, Zenon DEF Init, MappedOnce, DeadIsEmpty, Live
<1>4. \A f : Sharers(f) = {}
  BY <1>2, Zenon DEF Sharers, DataFrames
<1>5. Counted
  BY <1>4, FS_EmptySet DEF Init, Counted
<1>6. Structure
  BY Zenon DEF Init, Structure, OwnPage, NoTables
<1> QED
  BY <1>1, <1>3, <1>5, <1>6, Zenon DEF RefInv

\* Steps that only touch RW bits, contents, the TLB or cr3.
LEMMA RefSame ==
  ASSUME RefInv, IndexTypes', UNCHANGED <<used, refcnt, pd, pt, map>>,
         \A s \in Spaces : rw'[s] \subseteq Mapped(s)
  PROVE  RefInv'
<1> USE DEF RefInv
<1>1. (\A f : Sharers(f)' = Sharers(f)) /\ (\A s : Mapped(s)' = Mapped(s)) /\ Live' = Live
  BY Zenon DEF Sharers, DataFrames, Mapped, Live
<1>2. MappedOnce' /\ \A s \in Spaces : rw'[s] \subseteq Mapped(s)'
  BY <1>1, Zenon DEF MappedOnce
<1>3. DeadIsEmpty'
  <2> SUFFICES ASSUME NEW s \in Spaces \ Live
               PROVE  pt[s] = NoTables /\ map[s] = NoPages /\ rw'[s] = {}
    BY <1>1, Zenon DEF DeadIsEmpty
  <2>1. pt[s] = NoTables /\ map[s] = NoPages
    BY Zenon DEF DeadIsEmpty
  <2>2. Mapped(s) = {}
    BY <2>1, Zenon DEF Mapped, NoPages
  <2> QED BY <2>1, <2>2, Zenon
<1>4. Counted'
  BY <1>1, Zenon DEF Counted
<1>5. Structure'
  BY <1>1 DEF Structure, OwnPage
<1> QED
  BY <1>2, <1>3, <1>4, <1>5, Zenon

LEMMA RefMapUser ==
  ASSUME RefInv, IndexTypes', NEW v \in VPage, NEW x \in Values, map_user_page(v, x)
  PROVE  RefInv'
<1> USE PagingAssumption
<1>1. PICK f \in Free : \E g \in IF pt[Kernel][v[1]] = NoFrame THEN Free \ {f} ELSE {NoFrame} :
                          LoadPage(v, x, f, g)
  BY Zenon DEF map_user_page
<1>2. PICK g \in IF pt[Kernel][v[1]] = NoFrame THEN Free \ {f} ELSE {NoFrame} : LoadPage(v, x, f, g)
  BY <1>1, Zenon
<1>3. /\ f \in Frames /\ refcnt[f] = 0 /\ Sharers(f) = {}
      /\ g # NoFrame => g \in Frames /\ g # f /\ refcnt[g] = 0 /\ Sharers(g) = {}
  BY FreeUnmapped, Zenon
<1>4. /\ used' = used \cup ({f, g} \ {NoFrame})
      /\ refcnt' = [h \in Frames |-> IF h \in {f, g} \ {NoFrame} THEN 1 ELSE refcnt[h]]
      /\ pt' = IF g = NoFrame THEN pt ELSE [pt EXCEPT ![Kernel][v[1]] = g]
      /\ map' = [map EXCEPT ![Kernel][v] = f]
      /\ rw' = [rw EXCEPT ![Kernel] = @ \cup {v}]
      /\ pd' = pd
  BY <1>2, Zenon DEF LoadPage, pmm_alloc, map_page
<1>5. /\ MappedOnce'
      /\ Sharers(f)' = {Kernel}
      /\ \A h \in Frames \ {f} :
           Sharers(h)' = IF h = map[Kernel][v] THEN Sharers(h) \ {Kernel} ELSE Sharers(h)
      /\ \A r \in Spaces : Mapped(r)' = IF r = Kernel THEN Mapped(r) \cup {v} ELSE Mapped(r)
  BY <1>3, <1>4, Remap, Zenon
<1>6. \A s \in Spaces : rw'[s] \subseteq Mapped(s)'
  BY <1>4, <1>5 DEF RefInv, IndexTypes
<1>7. DeadIsEmpty'
  BY <1>4 DEF RefInv, IndexTypes, DeadIsEmpty, Live
<1>8. Counted'
  <2> SUFFICES ASSUME NEW h \in Frames
               PROVE  /\ h \in used' <=> refcnt'[h] >= 1
                      /\ refcnt'[h] >= Cardinality(Sharers(h)')
                      /\ refcnt'[h] <= Cardinality(Sharers(h)') + (IF Kernel \in Sharers(h)' THEN 0 ELSE 1)
    BY Zenon DEF Counted
  <2>1. /\ h \in used <=> refcnt[h] >= 1
        /\ refcnt[h] >= Cardinality(Sharers(h))
        /\ refcnt[h] <= Cardinality(Sharers(h)) + (IF Kernel \in Sharers(h) THEN 0 ELSE 1)
        /\ refcnt[h] \in Nat /\ Cardinality(Sharers(h)) \in Nat
    BY SharersFinite, Zenon DEF RefInv, Counted, IndexTypes
  <2>2. CASE h = f
    <3>1. Sharers(h)' = {Kernel} /\ refcnt'[h] = 1 /\ h \in used'
      BY <2>2, <1>3, <1>4, <1>5, Zenon
    <3>2. Cardinality(Sharers(h)') = 1
      BY <3>1, FS_Singleton, Zenon
    <3> QED BY <3>1, <3>2
  <2>3. CASE h # f /\ h = g
    <3>1. Sharers(h)' = {} /\ refcnt'[h] = 1 /\ h \in used'
      BY <2>3, <1>3, <1>4, <1>5, Zenon
    <3> QED BY <3>1, FS_EmptySet
  <2>4. CASE h # f /\ h # g /\ h = map[Kernel][v]
    <3>1. Sharers(h)' = Sharers(h) \ {Kernel} /\ refcnt'[h] = refcnt[h] /\ (h \in used' <=> h \in used)
      BY <2>4, <1>4, <1>5, Zenon
    <3>2. Kernel \in Sharers(h)
      BY <2>4, Shares, Zenon DEF RefInv
    <3>3. Cardinality(Sharers(h)') = Cardinality(Sharers(h)) - 1 /\ Kernel \notin Sharers(h)'
      BY <3>1, <3>2, SharersFinite, FS_RemoveElement, Zenon
    <3> QED BY <2>1, <3>1, <3>2, <3>3
  <2>5. CASE h # f /\ h # g /\ h # map[Kernel][v]
    <3>1. Sharers(h)' = Sharers(h) /\ refcnt'[h] = refcnt[h] /\ (h \in used' <=> h \in used)
      BY <2>5, <1>4, <1>5, Zenon
    <3> QED BY <2>1, <3>1, Zenon
  <2> QED BY <2>2, <2>3, <2>4, <2>5, Zenon
<1>9. Structure'
  <2>1. \A s \in Spaces : pd[s] # f /\ (pd[s] = g => g = NoFrame)
    BY <1>3 DEF RefInv, Structure, OwnPage
  <2>2. \A s \in Spaces, t \in Table : pt[s][t] # f /\ (pt[s][t] = g => g = NoFrame)
    BY <1>3 DEF RefInv, Structure, OwnPage
  <2>3. v[1] \in Table
    BY Zenon DEF VPage
  <2>4. \A s \in Spaces, t \in Table :
          pt'[s][t] = IF g # NoFrame /\ s = Kernel /\ t = v[1] THEN g ELSE pt[s][t]
    BY <1>4, <2>3 DEF RefInv, IndexTypes
  <2>5. \A h \in Frames : h # f /\ h # g /\ OwnPage(h) => OwnPage(h)'
    BY <1>4, <1>5, Zenon DEF OwnPage
  <2>6. g \in Frames => OwnPage(g)'
    BY <1>3, <1>4, <1>5, Zenon DEF OwnPage
  <2>7. \A s \in Spaces : OwnPage(pd[s])'
    BY <2>1, <2>5, <1>4 DEF RefInv, Structure, OwnPage
  <2>8. \A s \in Spaces, t \in Table : OwnPage(pt[s][t])'
    BY <2>2, <2>4, <2>5, <2>6 DEF RefInv, Structure, OwnPage
  <2> QED
    BY <1>4, <2>1, <2>2, <2>4, <2>7, <2>8 DEF RefInv, Structure
<1> QED
  BY <1>5, <1>6, <1>7, <1>8, <1>9, Zenon DEF RefInv

LEMMA RefCowCopy ==
  ASSUME RefInv, IndexTypes', NEW v \in VPage, NEW f \in Frames, v \in Mapped(cr3), CowCopy(v, f),
         rw' = [rw EXCEPT ![cr3] = @ \cup {v}], UNCHANGED <<pd, pt>>
  PROVE  RefInv'
<1> DEFINE old == map[cr3][v]
<1> USE PagingAssumption
<1>1. f \in Free /\ refcnt[f] = 0 /\ Sharers(f) = {}
  BY FreeUnmapped, Zenon DEF CowCopy
<1>2. cr3 \in Spaces /\ old \in Frames /\ refcnt[old] > 1 /\ old # f
  BY <1>1 DEF CowCopy, RefInv, IndexTypes, Mapped
<1>3. /\ used' = used \cup {f}
      /\ \A h \in Frames : refcnt'[h] = IF h = f THEN 1 ELSE IF h = old THEN refcnt[h] - 1 ELSE refcnt[h]
      /\ map' = [map EXCEPT ![cr3][v] = f]
  BY <1>2, Zenon DEF CowCopy, RefInv, IndexTypes
<1>4. /\ MappedOnce'
      /\ Sharers(f)' = {cr3}
      /\ \A h \in Frames \ {f} : Sharers(h)' = IF h = old THEN Sharers(h) \ {cr3} ELSE Sharers(h)
      /\ \A r \in Spaces : Mapped(r)' = IF r = cr3 THEN Mapped(r) \cup {v} ELSE Mapped(r)
  BY <1>1, <1>2, <1>3, Remap, Zenon
<1>5. \A s \in Spaces : rw'[s] \subseteq Mapped(s)'
  BY <1>2, <1>4 DEF RefInv, IndexTypes
<1>6. DeadIsEmpty'
  <2>1. cr3 \in Live
    BY <1>2, Zenon DEF RefInv, DeadIsEmpty, NoPages
  <2>2. \A s \in Spaces \ {cr3} : map'[s] = map[s] /\ rw'[s] = rw[s]
    BY <1>2, <1>3 DEF RefInv, IndexTypes
  <2> QED
    BY <2>1, <2>2, Zenon DEF RefInv, DeadIsEmpty, Live
<1>7. cr3 \in Sharers(old)
  BY <1>2, Shares, Zenon DEF RefInv
<1>8. Counted'
  <2> SUFFICES ASSUME NEW h \in Frames
               PROVE  /\ h \in used' <=> refcnt'[h] >= 1
                      /\ refcnt'[h] >= Cardinality(Sharers(h)')
                      /\ refcnt'[h] <= Cardinality(Sharers(h)') + (IF Kernel \in Sharers(h)' THEN 0 ELSE 1)
    BY Zenon DEF Counted
  <2>1. /\ h \in used <=> refcnt[h] >= 1
        /\ refcnt[h] >= Cardinality(Sharers(h))
        /\ refcnt[h] <= Cardinality(Sharers(h)) + (IF Kernel \in Sharers(h) THEN 0 ELSE 1)
        /\ refcnt[h] \in Nat /\ Cardinality(Sharers(h)) \in Nat
    BY SharersFinite, Zenon DEF RefInv, Counted, IndexTypes
  <2>2. CASE h = f
    <3>1. Sharers(h)' = {cr3} /\ refcnt'[h] = 1 /\ h \in used'
      BY <2>2, <1>3, <1>4, Zenon
    <3>2. Cardinality(Sharers(h)') = 1
      BY <3>1, FS_Singleton, Zenon
    <3> QED BY <3>1, <3>2
  <2>3. CASE h = old
    <3>1. Sharers(h)' = Sharers(h) \ {cr3} /\ refcnt'[h] = refcnt[h] - 1 /\ h \in used /\ h \in used'
      BY <2>1, <2>3, <1>2, <1>3, <1>4
    <3>2. Cardinality(Sharers(h)') = Cardinality(Sharers(h)) - 1
      BY <2>3, <3>1, <1>7, SharersFinite, FS_RemoveElement, Zenon
    <3>3. Kernel \in Sharers(h)' => Kernel \in Sharers(h)
      BY <3>1, Zenon
    <3> HIDE DEF old
    <3> QED BY <2>1, <2>3, <3>1, <3>2, <3>3, <1>2
  <2>4. CASE h # f /\ h # old
    <3>1. Sharers(h)' = Sharers(h) /\ refcnt'[h] = refcnt[h] /\ (h \in used' <=> h \in used)
      BY <2>4, <1>3, <1>4, Zenon
    <3> QED BY <2>1, <3>1, Zenon
  <2> QED BY <2>2, <2>3, <2>4, Zenon
<1>9. Structure'
  <2>1. \A h \in Frames : OwnPage(h) /\ h # f => OwnPage(h)'
    BY <1>3, <1>4, <1>7, Zenon DEF OwnPage
  <2>2. (\A s \in Spaces : pd[s] # f) /\ (\A s \in Spaces, t \in Table : pt[s][t] # f)
    BY <1>1 DEF RefInv, Structure, OwnPage
  <2>3. \A h \in Frames \cup {NoFrame} : OwnPage(h) /\ h # f => OwnPage(h)'
    BY <2>1, Zenon DEF OwnPage
  <2>4. /\ pd \in [Spaces -> Frames \cup {NoFrame}] /\ pt \in [Spaces -> [Table -> Frames \cup {NoFrame}]]
        /\ pd' = pd /\ pt' = pt
    BY Zenon DEF RefInv, IndexTypes
  <2>5. (\A s \in Spaces : OwnPage(pd[s])') /\ (\A s \in Spaces, t \in Table : OwnPage(pt[s][t])')
    <3> HIDE DEF OwnPage
    <3>1. (\A s \in Spaces : OwnPage(pd[s])) /\ (\A s \in Spaces, t \in Table : OwnPage(pt[s][t]))
      BY Zenon DEF RefInv, Structure
    <3> QED BY <2>2, <2>3, <2>4, <3>1, Zenon
  <2> QED
    BY <2>4, <2>5 DEF RefInv, Structure
<1> QED
  BY <1>4, <1>5, <1>6, <1>8, <1>9, Zenon DEF RefInv

\* The child c maps what the parent maps, and nobody else's mappings change.
LEMMA CloneSharers ==
  ASSUME RefInv, NEW c \in Spaces \ Live, NEW p \in Spaces, map' = [map EXCEPT ![c] = map[p]],
         NEW h \in Frames
  PROVE  /\ c \notin Sharers(h)
         /\ Sharers(h)' = IF h \in DataFrames(p) THEN Sharers(h) \cup {c} ELSE Sharers(h)
<1> USE PagingAssumption
<1>1. \A s \in Spaces : map'[s] = IF s = c THEN map[p] ELSE map[s]
  BY Zenon DEF RefInv, IndexTypes
<1>2. \A s \in Spaces : DataFrames(s)' = IF s = c THEN DataFrames(p) ELSE DataFrames(s)
  BY <1>1, Zenon DEF DataFrames, Mapped
<1>3. DataFrames(c) = {}
  BY DEF RefInv, DeadIsEmpty, DataFrames, Mapped, NoPages
<1> QED
  BY <1>2, <1>3, Zenon DEF Sharers

LEMMA RefClone ==
  ASSUME RefInv, IndexTypes', NEW c \in Spaces \ Live, NEW f \in Free,
         NEW g \in [Tables(cr3) -> Free \ {f}], CloneInto(c, f, g)
  PROVE  RefInv'
<1> DEFINE fresh == {f} \cup {g[t] : t \in Tables(cr3)}
<1> USE PagingAssumption
<1>1. \A h \in fresh : h \in Frames /\ h \notin used /\ refcnt[h] = 0 /\ Sharers(h) = {}
  BY FreeUnmapped, Zenon DEF Free
<1>2. cr3 \in Spaces
  BY Zenon DEF RefInv, IndexTypes
<1>3. /\ used' = used \cup fresh
      /\ \A h \in Frames : refcnt'[h] = IF h \in fresh THEN 1
                                        ELSE IF h \in DataFrames(cr3) THEN refcnt[h] + 1 ELSE refcnt[h]
  <2>1. used' = used \cup fresh
    BY Zenon DEF CloneInto
  <2>2. used' \ used = fresh
    BY <2>1, <1>1, Zenon
  <2> HIDE DEF fresh
  <2>3. refcnt' = [h \in Frames |-> CASE h \in used' \ used  -> 1
                                      [] h \in DataFrames(cr3) -> refcnt[h] + 1
                                      [] OTHER               -> refcnt[h]]
    BY Zenon DEF CloneInto
  <2>4. \A h \in fresh : h \notin DataFrames(cr3)
    BY <1>1, <1>2, Zenon DEF Sharers
  <2>5. refcnt' = [h \in Frames |-> CASE h \in fresh  -> 1
                                      [] h \in DataFrames(cr3) -> refcnt[h] + 1
                                      [] OTHER               -> refcnt[h]]
    BY <2>2, <2>3
  <2> QED BY <2>1, <2>4, <2>5, Zenon
<1>4. /\ map' = [map EXCEPT ![c] = map[cr3]]
      /\ \A s \in Spaces : /\ pd'[s] = IF s = c THEN f ELSE pd[s]
                           /\ map'[s] = IF s = c THEN map[cr3] ELSE map[s]
                           /\ rw'[s] \subseteq rw[s]
                           /\ s = c => rw'[s] = {}
      /\ \A s \in Spaces, t \in Table :
           pt'[s][t] = IF s = c THEN IF t \in Tables(cr3) THEN g[t] ELSE NoFrame ELSE pt[s][t]
  BY DEF CloneInto, Downgrade, RefInv, IndexTypes
<1>5. \A h \in Frames :
        /\ c \notin Sharers(h)
        /\ Sharers(h)' = IF h \in DataFrames(cr3) THEN Sharers(h) \cup {c} ELSE Sharers(h)
  BY <1>2, <1>4, CloneSharers, Zenon
<1>6. c # Kernel
  BY Zenon DEF Live
<1> HIDE DEF fresh
<1>7. MappedOnce' /\ \A s \in Spaces : rw'[s] \subseteq Mapped(s)'
  <2>1. \A s \in Spaces : Mapped(s)' = IF s = c THEN Mapped(cr3) ELSE Mapped(s)
    BY <1>4 DEF Mapped
  <2> QED
    BY <1>2, <1>4, <2>1 DEF RefInv, MappedOnce
<1>8. DeadIsEmpty'
  <2> SUFFICES ASSUME NEW s \in Spaces, s \notin Live'
               PROVE  pt'[s] = NoTables /\ map'[s] = NoPages /\ rw'[s] = {}
    BY Zenon DEF DeadIsEmpty
  <2>1. s # c /\ s \notin Live
    BY <1>4, Zenon DEF Live, Free
  <2>2. pt'[s] = pt[s] /\ map'[s] = map[s] /\ rw'[s] \subseteq rw[s]
    BY <1>4, <2>1, Zenon DEF CloneInto, RefInv, IndexTypes
  <2> QED BY <2>1, <2>2, Zenon DEF RefInv, DeadIsEmpty
<1>9. Counted'
  <2> SUFFICES ASSUME NEW h \in Frames
               PROVE  /\ h \in used' <=> refcnt'[h] >= 1
                      /\ refcnt'[h] >= Cardinality(Sharers(h)')
                      /\ refcnt'[h] <= Cardinality(Sharers(h)') + (IF Kernel \in Sharers(h)' THEN 0 ELSE 1)
    BY Zenon DEF Counted
  <2>1. /\ h \in used <=> refcnt[h] >= 1
        /\ refcnt[h] >= Cardinality(Sharers(h))
        /\ refcnt[h] <= Cardinality(Sharers(h)) + (IF Kernel \in Sharers(h) THEN 0 ELSE 1)
        /\ refcnt[h] \in Nat /\ Cardinality(Sharers(h)) \in Nat
    BY SharersFinite, Zenon DEF RefInv, Counted, IndexTypes
  <2>2. CASE h \in fresh
    <3>1. h \notin DataFrames(cr3)
      BY <2>2, <1>1, <1>2, Zenon DEF Sharers
    <3>2. Sharers(h)' = {} /\ refcnt'[h] = 1 /\ h \in used'
      BY <2>2, <3>1, <1>1, <1>3, <1>5, Zenon
    <3> QED BY <3>2, FS_EmptySet
  <2>3. CASE h \notin fresh /\ h \in DataFrames(cr3)
    <3>1. /\ Sharers(h)' = Sharers(h) \cup {c} /\ c \notin Sharers(h)
          /\ refcnt'[h] = refcnt[h] + 1 /\ (h \in used' <=> h \in used)
      BY <2>3, <1>3, <1>5, Zenon
    <3>2. Cardinality(Sharers(h)') = Cardinality(Sharers(h)) + 1
      BY <3>1, SharersFinite, FS_AddElement, Zenon
    <3>3. cr3 \in Sharers(h)
      BY <2>3, <1>2, Zenon DEF Sharers
    <3>4. h \in used
      <4>1. Cardinality(Sharers(h)) >= 1
        BY <3>3, SharersFinite
      <4> QED BY <2>1, <4>1
    <3>5. Kernel \in Sharers(h)' <=> Kernel \in Sharers(h)
      BY <3>1, <1>6, Zenon
    <3> QED BY <2>1, <3>1, <3>2, <3>4, <3>5
  <2>4. CASE h \notin fresh /\ h \notin DataFrames(cr3)
    <3>1. Sharers(h)' = Sharers(h) /\ refcnt'[h] = refcnt[h] /\ (h \in used' <=> h \in used)
      BY <2>4, <1>3, <1>5, Zenon
    <3> QED BY <2>1, <3>1, Zenon
  <2> QED BY <2>2, <2>3, <2>4, Zenon
<1>10. Structure'
  <2>1. f \in fresh /\ (\A t \in Tables(cr3) : g[t] \in fresh /\ g[t] # f) /\ NoFrame \notin fresh
    BY <1>1, Zenon DEF fresh
  <2>2. \A t, u \in Tables(cr3) : g[t] = g[u] => t = u
    BY Zenon DEF CloneInto
  <2>3. (\A s \in Spaces : pd[s] \notin fresh) /\ (\A s \in Spaces, t \in Table : pt[s][t] \notin fresh)
    BY <1>1 DEF RefInv, Structure, OwnPage
  <2>4. \A h \in Frames : h \in fresh \/ OwnPage(h) => OwnPage(h)'
    <3> SUFFICES ASSUME NEW h \in Frames, h \in fresh \/ OwnPage(h)
                 PROVE  refcnt'[h] = 1 /\ Sharers(h)' = {}
      BY Zenon DEF OwnPage
    <3>1. Sharers(h) = {}
      BY <1>1, Zenon DEF OwnPage
    <3>2. h \notin DataFrames(cr3)
      BY <3>1, <1>2, Zenon DEF Sharers
    <3> QED BY <3>1, <3>2, <1>3, <1>5, Zenon DEF OwnPage
  <2>5. \A s \in Spaces : OwnPage(pd[s])'
    BY <2>1, <2>4, <1>1, <1>4 DEF RefInv, Structure, OwnPage
  <2>6. \A s \in Spaces, t \in Table : OwnPage(pt[s][t])'
    <3> SUFFICES ASSUME NEW s \in Spaces, NEW t \in Table, pt'[s][t] \in Frames
                 PROVE  OwnPage(pt[s][t])'
      BY Zenon DEF OwnPage
    <3>1. pt'[s][t] \in fresh \/ (pt'[s][t] = pt[s][t] /\ OwnPage(pt[s][t]))
      BY <2>1, <1>4 DEF RefInv, Structure
    <3> QED BY <2>4, <3>1, Zenon DEF OwnPage
  <2>7. \A s, r \in Spaces : pd'[s] = pd'[r] /\ pd'[s] # NoFrame => s = r
    BY <2>1, <2>3, <1>4 DEF RefInv, Structure
  <2>8. \A s, r \in Spaces, t \in Table : pd'[s] = pt'[r][t] => pd'[s] = NoFrame
    BY <2>1, <2>3, <1>4 DEF RefInv, Structure
  <2>9. \A s, r \in Spaces, t, u \in Table :
          pt'[s][t] = pt'[r][u] /\ pt'[s][t] # NoFrame => s = r /\ t = u
    BY <2>1, <2>2, <2>3, <1>4 DEF RefInv, Structure
  <2> QED BY <2>5, <2>6, <2>7, <2>8, <2>9, Zenon DEF Structure
<1> QED
  BY <1>7, <1>8, <1>9, <1>10, Zenon DEF RefInv

LEMMA RefDestroy ==
  ASSUME RefInv, IndexTypes', NEW s \in Spaces, paging_destroy_address_space(s)
  PROVE  RefInv'
<1> DEFINE private == {pt[s][t] : t \in Tables(s)} \cup {pd[s]}
<1> USE PagingAssumption
<1>1. s # Kernel /\ s # cr3 /\ pd[s] \in Frames /\ pd[s] # NoFrame
  BY Zenon DEF paging_destroy_address_space, Live, RefInv, IndexTypes
<1>2. \A r \in Spaces :
        /\ pd'[r] = IF r = s THEN NoFrame ELSE pd[r]
        /\ pt'[r] = IF r = s THEN NoTables ELSE pt[r]
        /\ map'[r] = IF r = s THEN NoPages ELSE map[r]
        /\ rw'[r] = IF r = s THEN {} ELSE rw[r]
  BY DEF paging_destroy_address_space, RefInv, IndexTypes
<1>3. \A h \in private : h \in Frames /\ refcnt[h] = 1 /\ Sharers(h) = {}
  <2>1. \A t \in Tables(s) : t \in Table /\ pt[s][t] \in Frames
    BY DEF Tables, RefInv, IndexTypes
  <2>2. \A t \in Tables(s) : OwnPage(pt[s][t])
    BY <2>1, Zenon DEF RefInv, Structure
  <2>3. OwnPage(pd[s])
    BY Zenon DEF RefInv, Structure
  <2> QED BY <1>1, <2>1, <2>2, <2>3, Zenon DEF OwnPage
<1>4. \A h \in Frames : h \in DataFrames(s) <=> s \in Sharers(h)
  BY Zenon DEF Sharers
<1>5. \A h \in Frames : h \in DataFrames(s) => refcnt[h] >= 1 /\ page_ref_dec(h) = refcnt[h] - 1
  <2> SUFFICES ASSUME NEW h \in Frames, h \in DataFrames(s)
               PROVE  refcnt[h] >= 1 /\ page_ref_dec(h) = refcnt[h] - 1
    BY Zenon
  <2>1. Cardinality(Sharers(h)) >= 1
    BY <1>4, SharersFinite
  <2>2. refcnt[h] >= 1 /\ refcnt[h] \in Nat
    BY <2>1, SharersFinite DEF RefInv, Counted, IndexTypes
  <2> QED BY <2>2 DEF page_ref_dec
<1>6. \A h \in Frames : refcnt'[h] = IF h \in private THEN 0
                                     ELSE IF h \in DataFrames(s) THEN refcnt[h] - 1 ELSE refcnt[h]
  <2>1. refcnt' = [h \in Frames |-> CASE h \in private       -> 0
                                      [] h \in DataFrames(s) -> page_ref_dec(h)
                                      [] OTHER               -> refcnt[h]]
    BY Zenon DEF paging_destroy_address_space
  <2>2. \A h \in private : h \notin DataFrames(s)
    BY <1>3, <1>4, Zenon
  <2> HIDE DEF private
  <2> QED BY <2>1, <2>2, <1>5, Zenon
<1>7. \A h \in Frames : h \in used' <=> h \in used /\ h \notin private
                                          /\ ~(h \in DataFrames(s) /\ refcnt[h] = 1)
  <2>1. used' = used \ (private \cup {h \in DataFrames(s) : page_ref_dec(h) = 0})
    BY Zenon DEF paging_destroy_address_space
  <2> HIDE DEF private
  <2>2. \A h \in Frames : refcnt[h] \in Nat
    BY Zenon DEF RefInv, IndexTypes
  <2>3. \A h \in Frames : h \in DataFrames(s) => (page_ref_dec(h) = 0 <=> refcnt[h] = 1)
    BY <1>5, <2>2
  <2> QED BY <2>1, <2>3, Zenon
<1>8. \A r \in Spaces : DataFrames(r)' = IF r = s THEN {} ELSE DataFrames(r)
  BY <1>2 DEF DataFrames, Mapped, NoPages
<1>9. \A h : Sharers(h)' = Sharers(h) \ {s}
  BY <1>8, Zenon DEF Sharers
<1> HIDE DEF private
<1>10. MappedOnce' /\ \A r \in Spaces : rw'[r] \subseteq Mapped(r)'
  <2>1. \A r \in Spaces : Mapped(r)' = IF r = s THEN {} ELSE Mapped(r)
    BY <1>2, Zenon DEF Mapped, NoPages
  <2> QED
    BY <1>2, <2>1 DEF RefInv, MappedOnce
<1>11. DeadIsEmpty'
  BY <1>2, Zenon DEF RefInv, DeadIsEmpty, Live
<1>12. Counted'
  <2> SUFFICES ASSUME NEW h \in Frames
               PROVE  /\ h \in used' <=> refcnt'[h] >= 1
                      /\ refcnt'[h] >= Cardinality(Sharers(h)')
                      /\ refcnt'[h] <= Cardinality(Sharers(h)') + (IF Kernel \in Sharers(h)' THEN 0 ELSE 1)
    BY Zenon DEF Counted
  <2>1. /\ h \in used <=> refcnt[h] >= 1
        /\ refcnt[h] >= Cardinality(Sharers(h))
        /\ refcnt[h] <= Cardinality(Sharers(h)) + (IF Kernel \in Sharers(h) THEN 0 ELSE 1)
        /\ refcnt[h] \in Nat /\ Cardinality(Sharers(h)) \in Nat
    BY SharersFinite, Zenon DEF RefInv, Counted, IndexTypes
  <2>2. CASE h \in private
    <3>1. Sharers(h)' = {} /\ refcnt'[h] = 0 /\ h \notin used'
      BY <2>2, <1>3, <1>6, <1>7, <1>9, Zenon
    <3> QED BY <3>1, FS_EmptySet
  <2>3. CASE h \notin private /\ h \in DataFrames(s)
    <3>1. /\ Sharers(h)' = Sharers(h) \ {s} /\ s \in Sharers(h)
          /\ refcnt'[h] = refcnt[h] - 1 /\ refcnt[h] >= 1
          /\ h \in used' <=> h \in used /\ refcnt[h] # 1
      BY <2>3, <1>4, <1>5, <1>6, <1>7, <1>9, Zenon
    <3>2. Cardinality(Sharers(h)') = Cardinality(Sharers(h)) - 1
      <4>1. IsFiniteSet(Sharers(h))
        BY SharersFinite, Zenon
      <4>2. Cardinality(Sharers(h) \ {s}) = Cardinality(Sharers(h)) - 1
        BY <3>1, <4>1, FS_RemoveElement, Zenon
      <4> QED BY <3>1, <4>2, Zenon
    <3>3. Kernel \in Sharers(h)' <=> Kernel \in Sharers(h)
      BY <3>1, <1>1, Zenon
    <3> QED BY <2>1, <3>1, <3>2, <3>3
  <2>4. CASE h \notin private /\ h \notin DataFrames(s)
    <3>1. Sharers(h)' = Sharers(h) /\ refcnt'[h] = refcnt[h] /\ (h \in used' <=> h \in used)
      BY <2>4, <1>4, <1>6, <1>7, <1>9, Zenon
    <3> QED BY <2>1, <3>1, Zenon
  <2> QED BY <2>2, <2>3, <2>4, Zenon
<1>13. Structure'
  <2>1. \A r \in Spaces, t \in Table : pt'[r][t] = IF r = s THEN NoFrame ELSE pt[r][t]
    BY <1>2, Zenon DEF NoTables
  <2>2. \A h \in Frames : OwnPage(h) /\ h \notin private => OwnPage(h)'
    BY <1>4, <1>6, <1>9, Zenon DEF OwnPage
  <2>3. \A r \in Spaces \ {s} : pd[r] # NoFrame => pd[r] \notin private
    BY <1>1 DEF private, RefInv, Structure, Tables
  <2>4. \A r \in Spaces \ {s}, t \in Table : pt[r][t] # NoFrame => pt[r][t] \notin private
    BY <1>1 DEF private, RefInv, Structure, Tables
  <2>5. \A r \in Spaces : OwnPage(pd[r])'
    BY <1>2, <2>2, <2>3 DEF RefInv, Structure, OwnPage
  <2>6. \A r \in Spaces, t \in Table : OwnPage(pt[r][t])'
    BY <2>1, <2>2, <2>4 DEF RefInv, Structure, OwnPage
  <2> QED
    BY <1>2, <2>1, <2>5, <2>6 DEF RefInv, Structure
<1> QED
  BY <1>10, <1>11, <1>12, <1>13, Zenon DEF RefInv

LEMMA RefStep == RefInv /\ [Next]_vars => RefInv'
<1> SUFFICES ASSUME RefInv, [Next]_vars PROVE RefInv'
  BY Zenon
<1>t. IndexTypes'
  BY TypesKept, Zenon DEF RefInv
<1>c. cr3 \in Spaces
  BY Zenon DEF RefInv, IndexTypes
<1>1. ASSUME NEW v \in VPage, NEW x \in Values, map_user_page(v, x) PROVE RefInv'
  BY <1>t, <1>1, RefMapUser, Zenon
<1>2. ASSUME NEW v \in VPage, NEW x \in Values, Write(v, x) PROVE RefInv'
  BY <1>t, <1>2, RefSame, Zenon DEF Write, pmmVars, spaceVars, RefInv
<1>3. ASSUME NEW v \in VPage, Read(v) PROVE RefInv'
  BY <1>t, <1>3, RefSame, Zenon DEF Read, pmmVars, spaceVars, RefInv
<1>4. ASSUME NEW v \in VPage, paging_handle_cow_fault(v) PROVE RefInv'
  <2>1. v \in Mapped(cr3) /\ rw' = [rw EXCEPT ![cr3] = @ \cup {v}] /\ UNCHANGED <<pd, pt>>
    BY <1>4, Zenon DEF paging_handle_cow_fault
  <2>2. ASSUME NEW f \in Frames, CowCopy(v, f) PROVE RefInv'
    BY <1>t, <2>1, <2>2, RefCowCopy, Zenon
  <2>3. CASE CowReuse(v)
    <3>1. \A s \in Spaces : rw'[s] \subseteq Mapped(s)
      BY <1>c, <2>1, Zenon DEF RefInv, IndexTypes
    <3> QED BY <1>t, <2>1, <2>3, <3>1, RefSame, Zenon DEF CowReuse, pmmVars
  <2> QED BY <1>4, <2>2, <2>3, Zenon DEF paging_handle_cow_fault
<1>5. ASSUME NEW c \in Spaces, paging_clone_address_space(c) PROVE RefInv'
  <2>1. c \notin Live
    BY <1>5, Zenon DEF paging_clone_address_space
  <2>2. CASE CloneDone(c)
    <3>1. PICK f \in Free : \E g \in [Tables(cr3) -> Free \ {f}] : CloneInto(c, f, g)
      BY <2>2, Zenon DEF CloneDone
    <3>2. PICK g \in [Tables(cr3) -> Free \ {f}] : CloneInto(c, f, g)
      BY <3>1, Zenon
    <3> QED BY <1>t, <2>1, <3>2, RefClone, Zenon
  <2>3. CASE CloneFailed
    <3>1. \A s \in Spaces : rw'[s] \subseteq Mapped(s)
      BY <1>c, <2>3, Zenon DEF CloneFailed, PagesOf, RefInv, IndexTypes
    <3> QED BY <1>t, <2>3, <3>1, RefSame, Zenon DEF CloneFailed, pmmVars
  <2> QED BY <1>5, <2>2, <2>3, Zenon DEF paging_clone_address_space
<1>6. ASSUME NEW s \in Spaces, paging_destroy_address_space(s) PROVE RefInv'
  BY <1>t, <1>6, RefDestroy, Zenon
<1>7. ASSUME NEW s \in Spaces, SwitchTo(s) PROVE RefInv'
  BY <1>t, <1>7, RefSame, Zenon DEF SwitchTo, pmmVars, spaceVars, RefInv
<1>8. CASE UNCHANGED vars
  BY <1>t, <1>8, RefSame, Zenon DEF vars, pmmVars, spaceVars, RefInv
<1> QED
  BY <1>1, <1>2, <1>3, <1>4, <1>5, <1>6, <1>7, <1>8, Zenon DEF Next

LEMMA RefAlways == Spec => []RefInv
  BY RefInit, RefStep, PTL DEF Spec

\* A page has at most one reference for each space.
LEMMA CountBounded ==
  ASSUME RefInv, NEW f \in Frames
  PROVE  refcnt[f] \in 0 .. Cardinality(Spaces)
<1>1. /\ refcnt[f] \in Nat
      /\ refcnt[f] <= Cardinality(Sharers(f)) + (IF Kernel \in Sharers(f) THEN 0 ELSE 1)
  BY Zenon DEF RefInv, Counted, IndexTypes
<1>2. IsFiniteSet(Spaces) /\ Cardinality(Spaces) \in Nat /\ Kernel \in Spaces
  BY PagingAssumption, FS_CardinalityType, Zenon
<1>3. Sharers(f) \in SUBSET Spaces /\ Cardinality(Sharers(f)) \in Nat
  BY SharersFinite, Zenon DEF Sharers
<1>4. CASE Kernel \in Sharers(f)
  <2>1. Cardinality(Sharers(f)) <= Cardinality(Spaces)
    BY <1>2, <1>3, FS_Subset, Zenon
  <2> QED BY <1>1, <1>2, <1>3, <1>4, <2>1
<1>5. CASE Kernel \notin Sharers(f)
  <2>1. Sharers(f) \in SUBSET (Spaces \ {Kernel})
    BY <1>3, <1>5, Zenon
  <2>2. IsFiniteSet(Spaces \ {Kernel}) /\ Cardinality(Spaces \ {Kernel}) = Cardinality(Spaces) - 1
    BY <1>2, FS_RemoveElement, Zenon
  <2>3. Cardinality(Sharers(f)) <= Cardinality(Spaces \ {Kernel})
    BY <2>1, <2>2, FS_Subset, Zenon
  <2> QED BY <1>1, <1>2, <1>3, <1>5, <2>2, <2>3
<1> QED BY <1>4, <1>5, Zenon

\* No more entries lead to a page than it has references.
LEMMA ReferencesBounded ==
  ASSUME RefInv, NEW f \in Frames
  PROVE  References(f) <= refcnt[f]
<1> DEFINE A == {s \in Spaces : pd[s] = f}
           B == {st \in Spaces \X Table : pt[st[1]][st[2]] = f}
           C == {sv \in Spaces \X VPage : map[sv[1]][sv[2]] = f}
<1> USE PagingAssumption
<1>1. refcnt[f] \in Nat /\ refcnt[f] >= Cardinality(Sharers(f)) /\ Cardinality(Sharers(f)) \in Nat
  BY SharersFinite, Zenon DEF RefInv, Counted, IndexTypes
<1>2. f # NoFrame
  BY Zenon
<1>3. Cardinality(C) <= Cardinality(Sharers(f)) /\ Cardinality(C) \in Nat
  <2> DEFINE owner == [sv \in C |-> sv[1]]
  <2>1. \A sv \in C : /\ sv[1] \in Spaces /\ sv[2] \in VPage /\ sv = <<sv[1], sv[2]>>
                      /\ map[sv[1]][sv[2]] = f
    OBVIOUS
  <2>2. \A sv \in C : sv[1] \in Sharers(f) /\ sv[2] \in Mapped(sv[1])
    BY <1>2, <2>1, Shares, Zenon DEF RefInv, Mapped
  <2>3. \A sv, tw \in C : sv[1] = tw[1] => sv[2] = tw[2]
    BY <2>1, <2>2 DEF RefInv, MappedOnce
  <2>4. \A sv, tw \in C : sv[1] = tw[1] => sv = tw
    BY <2>1, <2>3
  <2> HIDE DEF C
  <2>5. owner \in Injection(C, Sharers(f))
    BY <2>2, <2>4, Zenon DEF Injection, IsInjective
  <2> QED BY <2>5, SharersFinite, FS_Injection, FS_CardinalityType, Zenon
<1>4. A = {} \/ \E s \in Spaces : A = {s}
  BY <1>2 DEF RefInv, Structure
<1>5. B = {} \/ \E st \in Spaces \X Table : B = {st}
  <2> SUFFICES ASSUME NEW x \in B, NEW y \in B PROVE x = y
    BY DEF B
  <2>1. /\ x[1] \in Spaces /\ x[2] \in Table /\ x = <<x[1], x[2]>> /\ pt[x[1]][x[2]] = f
        /\ y[1] \in Spaces /\ y[2] \in Table /\ y = <<y[1], y[2]>> /\ pt[y[1]][y[2]] = f
    OBVIOUS
  <2>2. x[1] = y[1] /\ x[2] = y[2]
    BY <1>2, <2>1 DEF RefInv, Structure
  <2> QED BY <2>1, <2>2, Zenon
<1>6. A # {} => B = {}
  <2> SUFFICES ASSUME NEW s \in A, NEW x \in B PROVE FALSE
    BY Zenon
  <2>1. x[1] \in Spaces /\ x[2] \in Table /\ pt[x[1]][x[2]] = f
    BY Zenon
  <2> QED BY <1>2, <2>1 DEF RefInv, Structure
<1>7. A # {} \/ B # {} => refcnt[f] = 1 /\ Sharers(f) = {}
  <2>1. ASSUME NEW s \in A PROVE refcnt[f] = 1 /\ Sharers(f) = {}
    BY DEF RefInv, Structure, OwnPage
  <2>2. ASSUME NEW x \in B PROVE refcnt[f] = 1 /\ Sharers(f) = {}
    <3>1. x[1] \in Spaces /\ x[2] \in Table /\ pt[x[1]][x[2]] = f
      BY Zenon
    <3> QED BY <3>1 DEF RefInv, Structure, OwnPage
  <2> QED BY <2>1, <2>2, Zenon
<1>8. References(f) = Cardinality(A) + Cardinality(B) + Cardinality(C)
  BY Zenon DEF References
<1> HIDE DEF A, B, C
<1>9. /\ Cardinality(A) = IF A = {} THEN 0 ELSE 1
      /\ Cardinality(B) = IF B = {} THEN 0 ELSE 1
  BY <1>4, <1>5, FS_EmptySet, FS_Singleton, Zenon
<1>10. Sharers(f) = {} => Cardinality(Sharers(f)) = 0
  BY SharersFinite, Zenon
<1> QED
  BY <1>1, <1>3, <1>6, <1>7, <1>8, <1>9, <1>10

\* paging.c never loses count of a page, whatever programs load, fork, write and
\* exit, and also after a fork that ran out of pages: a page with an entry leading
\* to it is in use with at least that many references, so pmm_alloc_page() never
\* hands it out again; and a count never exceeds the number of address spaces.
THEOREM ReferencesCountedAlways == Spec => []ReferencesCounted
<1>1. RefInv => ReferencesCounted
  <2> SUFFICES ASSUME RefInv PROVE TypeOK /\ CountedReferences
    BY Zenon DEF ReferencesCounted
  <2>1. TypeOK
    BY CountBounded, Zenon DEF RefInv, IndexTypes, TypeOK
  <2>2. CountedReferences
    <3>1. \A f \in Frames : refcnt[f] >= References(f) <=> References(f) <= refcnt[f]
      BY Zenon DEF References
    <3> QED
      BY <3>1, ReferencesBounded, Zenon DEF RefInv, Counted, CountedReferences
  <2> QED BY <2>1, <2>2, Zenon
<1> QED
  BY <1>1, RefAlways, PTL

-----------------------------------------------------------------------------
(* Copy on write.                                                          *)

\* paging_clone_address_space() runs out of pages after it has cloned a table,
\* and its rollback makes pages of the parent RW that others still share.  It
\* is the one step after which what follows does not hold.
Rollback == CloneFailed /\ rw' # rw

\* The page behind an RW entry is mapped by nobody else.
RwPrivate ==
  \A s \in Spaces : \A v \in rw[s] : Sharers(map[s][v]) = {s}

CowInv == RefInv /\ RwPrivate /\ TlbCoherent

LEMMA CowInit == Init => CowInv
<1> SUFFICES ASSUME Init PROVE CowInv
  BY Zenon
<1>1. RwPrivate
  BY Zenon DEF Init, RwPrivate
<1>2. TlbCoherent
  BY Zenon DEF Init, TlbCoherent, EmptyTlb
<1> QED
  BY <1>1, <1>2, RefInit, Zenon DEF CowInv

\* An RW page of s is mapped by s, once, and by nobody else.
LEMMA RwAlone ==
  ASSUME RefInv, RwPrivate, NEW s \in Spaces, NEW v \in rw[s]
  PROVE  /\ v \in VPage /\ map[s][v] \in Frames
         /\ \A r \in Spaces, w \in VPage : map[r][w] = map[s][v] => r = s /\ w = v
<1> USE PagingAssumption
<1>1. v \in Mapped(s)
  BY Zenon DEF RefInv
<1>2. v \in VPage /\ map[s][v] # NoFrame /\ map[s][v] \in Frames
  BY <1>1 DEF Mapped, RefInv, IndexTypes
<1>3. ASSUME NEW r \in Spaces, NEW w \in VPage, map[r][w] = map[s][v] PROVE r = s /\ w = v
  <2>1. r \in Sharers(map[s][v])
    BY <1>2, <1>3, Shares, Zenon DEF RefInv
  <2>2. r = s
    BY <2>1, Zenon DEF RwPrivate
  <2>3. w \in Mapped(s)
    BY <1>2, <1>3, <2>2, Zenon DEF Mapped
  <2> QED BY <1>1, <1>3, <2>2, <2>3, Zenon DEF RefInv, MappedOnce
<1> QED
  BY <1>2, <1>3, Zenon

\* An entry v of s is made RW and leads to a page f that nobody else maps.
LEMMA RwRemap ==
  ASSUME RefInv, IndexTypes', RwPrivate, NEW s \in Spaces, NEW v \in VPage, NEW f \in Frames,
         Sharers(f) = {}, map' = [map EXCEPT ![s][v] = f], rw' = [rw EXCEPT ![s] = @ \cup {v}]
  PROVE  RwPrivate'
<1>1. /\ Sharers(f)' = {s}
      /\ \A h \in Frames \ {f} :
           Sharers(h)' = IF h = map[s][v] THEN Sharers(h) \ {s} ELSE Sharers(h)
  BY Remap, Zenon
<1>2. \A r \in Spaces, w \in VPage : map'[r][w] = IF r = s /\ w = v THEN f ELSE map[r][w]
  BY DEF RefInv, IndexTypes
<1>3. \A r \in Spaces, w \in VPage : w \in rw'[r] <=> (w \in rw[r] \/ (r = s /\ w = v))
  BY Zenon DEF RefInv, IndexTypes
<1> SUFFICES ASSUME NEW r \in Spaces, NEW w \in rw'[r] PROVE Sharers(map[r][w])' = {r}
  BY Zenon DEF RwPrivate
<1>4. w \in VPage
  BY Zenon DEF IndexTypes
<1>5. CASE r = s /\ w = v
  BY <1>1, <1>2, <1>4, <1>5, Zenon
<1>6. CASE ~(r = s /\ w = v)
  <2>1. w \in rw[r] /\ map'[r][w] = map[r][w]
    BY <1>2, <1>3, <1>4, <1>6
  <2>2. map[r][w] \in Frames /\ Sharers(map[r][w]) = {r} /\ map[r][w] # map[s][v]
    BY <2>1, <1>6, RwAlone DEF RwPrivate
  <2>3. map[r][w] # f
    BY <2>2, Zenon
  <2> QED BY <2>1, <2>2, <2>3, <1>1, Zenon
<1> QED BY <1>5, <1>6, Zenon

\* A cached translation is dropped, or its entry stays as it is.
LEMMA TlbKept ==
  ASSUME TlbCoherent,
         \A v \in VPage :
           \/ tlb'[v] = NoTranslation
           \/ /\ tlb'[v] = tlb[v]
              /\ map'[cr3'][v] = map[cr3][v]
              /\ (v \in rw'[cr3']) = (v \in rw[cr3])
  PROVE  TlbCoherent'
<1> SUFFICES ASSUME NEW v \in VPage, tlb'[v] # NoTranslation
             PROVE  tlb'[v] = <<map'[cr3'][v], v \in rw'[cr3']>>
  BY Zenon DEF TlbCoherent, NoTranslation
<1>1. /\ tlb'[v] = tlb[v]
      /\ map'[cr3'][v] = map[cr3][v]
      /\ (v \in rw'[cr3']) = (v \in rw[cr3])
  BY Zenon
<1>2. tlb[v] = <<map[cr3][v], v \in rw[cr3]>>
  BY <1>1, Zenon DEF TlbCoherent
<1> QED
  BY <1>1, <1>2, Zenon

\* What the MMU sees is what the tables say.
LEMMA TranslateCoherent ==
  ASSUME TlbCoherent, NEW v \in VPage
  PROVE  Translate(v) = <<map[cr3][v], v \in rw[cr3]>>
  BY Zenon DEF TlbCoherent, Translate

LEMMA CowMapUser ==
  ASSUME CowInv, IndexTypes', NEW v \in VPage, NEW x \in Values, map_user_page(v, x)
  PROVE  RwPrivate' /\ TlbCoherent'
<1> USE PagingAssumption DEF CowInv
<1>1. PICK f \in Free : \E g \in IF pt[Kernel][v[1]] = NoFrame THEN Free \ {f} ELSE {NoFrame} :
                          LoadPage(v, x, f, g)
  BY Zenon DEF map_user_page
<1>2. PICK g \in IF pt[Kernel][v[1]] = NoFrame THEN Free \ {f} ELSE {NoFrame} : LoadPage(v, x, f, g)
  BY <1>1, Zenon
<1>3. /\ map' = [map EXCEPT ![Kernel][v] = f]
      /\ rw' = [rw EXCEPT ![Kernel] = @ \cup {v}]
      /\ tlb' = [tlb EXCEPT ![v] = NoTranslation]
      /\ cr3' = cr3
  BY <1>2, Zenon DEF LoadPage, map_page, invlpg
<1>4. f \in Frames /\ Sharers(f) = {}
  BY FreeUnmapped, Zenon
<1>5. RwPrivate'
  BY <1>3, <1>4, RwRemap, Zenon
<1>6. cr3 \in Spaces /\ tlb'[v] = NoTranslation
  BY <1>3 DEF RefInv, IndexTypes
<1>7. ASSUME NEW w \in VPage \ {v}
      PROVE  tlb'[w] = tlb[w] /\ map'[cr3'][w] = map[cr3][w] /\ (w \in rw'[cr3'] <=> w \in rw[cr3])
  BY <1>3, <1>6 DEF RefInv, IndexTypes
<1>8. TlbCoherent'
  BY <1>6, <1>7, TlbKept
<1> QED BY <1>5, <1>8, Zenon

LEMMA CowFault ==
  ASSUME CowInv, IndexTypes', NEW v \in VPage, paging_handle_cow_fault(v)
  PROVE  RwPrivate' /\ TlbCoherent'
<1> USE PagingAssumption DEF CowInv
<1>1. /\ v \in Mapped(cr3)
      /\ rw' = [rw EXCEPT ![cr3] = @ \cup {v}]
      /\ tlb' = [tlb EXCEPT ![v] = NoTranslation]
      /\ cr3' = cr3
  BY Zenon DEF paging_handle_cow_fault, invlpg
<1>2. cr3 \in Spaces /\ map[cr3][v] \in Frames /\ tlb'[v] = NoTranslation
  BY <1>1 DEF RefInv, IndexTypes, Mapped
<1>3. \A w \in VPage \ {v} : map'[cr3][w] = map[cr3][w]
  BY DEF paging_handle_cow_fault, CowCopy, CowReuse, RefInv, IndexTypes
<1>4. ASSUME NEW w \in VPage \ {v}
      PROVE  tlb'[w] = tlb[w] /\ map'[cr3'][w] = map[cr3][w] /\ (w \in rw'[cr3'] <=> w \in rw[cr3])
  BY <1>1, <1>2, <1>3, Zenon DEF RefInv, IndexTypes
<1>5. TlbCoherent'
  BY <1>2, <1>4, TlbKept
<1>6. ASSUME NEW f \in Frames, CowCopy(v, f) PROVE RwPrivate'
  <2>1. f \in Free /\ map' = [map EXCEPT ![cr3][v] = f]
    BY <1>6, Zenon DEF CowCopy
  <2>2. Sharers(f) = {}
    BY <2>1, FreeUnmapped, Zenon
  <2> QED BY <1>1, <1>2, <2>1, <2>2, RwRemap, Zenon
<1>7. CASE CowReuse(v)
  <2>1. map' = map /\ ~(refcnt[map[cr3][v]] > 1)
    BY <1>7, Zenon DEF CowReuse
  <2>2. cr3 \in Sharers(map[cr3][v])
    BY <1>2, Shares, Zenon DEF RefInv
  <2>3. Cardinality(Sharers(map[cr3][v])) <= 1
    BY <1>2, <2>1, SharersFinite DEF RefInv, Counted, IndexTypes
  <2>4. {cr3} \in SUBSET Sharers(map[cr3][v]) /\ Cardinality({cr3}) = 1
    BY <2>2, FS_Singleton, Zenon
  <2>5. Sharers(map[cr3][v]) = {cr3}
    <3>1. IsFiniteSet(Sharers(map[cr3][v])) /\ Cardinality(Sharers(map[cr3][v])) \in Nat
      BY SharersFinite, Zenon
    <3>2. Cardinality({cr3}) <= Cardinality(Sharers(map[cr3][v]))
      BY <2>4, <3>1, FS_Subset, Zenon
    <3>3. Cardinality({cr3}) = Cardinality(Sharers(map[cr3][v]))
      BY <2>3, <2>4, <3>1, <3>2
    <3> QED BY <2>4, <3>1, <3>3, FS_Subset, Zenon
  <2>6. \A r \in Spaces, w \in VPage : w \in rw'[r] <=> (w \in rw[r] \/ (r = cr3 /\ w = v))
    BY <1>1, <1>2, Zenon DEF RefInv, IndexTypes
  <2>7. \A r \in Spaces : rw'[r] \subseteq VPage
    BY Zenon DEF IndexTypes
  <2> SUFFICES ASSUME NEW r \in Spaces, NEW w \in rw'[r] PROVE Sharers(map[r][w])' = {r}
    BY <1>5, Zenon DEF RwPrivate
  <2>8. w \in VPage /\ Sharers(map[r][w])' = Sharers(map[r][w])
    BY <2>1, <2>7, Zenon DEF Sharers, DataFrames, Mapped
  <2>9. CASE w \in rw[r]
    BY <2>8, <2>9, Zenon DEF RwPrivate
  <2>10. CASE r = cr3 /\ w = v
    BY <2>5, <2>8, <2>10, Zenon
  <2> QED BY <2>6, <2>8, <2>9, <2>10, Zenon
<1> QED
  BY <1>5, <1>6, <1>7, Zenon DEF paging_handle_cow_fault

LEMMA CowClone ==
  ASSUME CowInv, IndexTypes', NEW c \in Spaces \ Live, NEW f, NEW g, CloneInto(c, f, g)
  PROVE  RwPrivate' /\ TlbCoherent'
<1> USE PagingAssumption DEF CowInv
<1>1. /\ cr3 \in Spaces
      /\ map' = [map EXCEPT ![c] = map[cr3]]
      /\ rw' = [rw EXCEPT ![c] = {}, ![cr3] = {}]
      /\ tlb' = EmptyTlb
  BY Zenon DEF CloneInto, Downgrade, ReloadCr3, RefInv, IndexTypes
<1>2. TlbCoherent'
  BY <1>1, Zenon DEF TlbCoherent, EmptyTlb, NoTranslation
<1> SUFFICES ASSUME NEW s \in Spaces, NEW v \in rw'[s] PROVE Sharers(map[s][v])' = {s}
  BY <1>2, Zenon DEF RwPrivate
<1>3. s # c /\ s # cr3 /\ v \in rw[s] /\ map'[s] = map[s]
  BY <1>1, Zenon DEF RefInv, IndexTypes
<1>4. map[s][v] \in Frames /\ Sharers(map[s][v]) = {s}
  BY <1>3, RwAlone, Zenon DEF RwPrivate
<1>5. map[s][v] \notin DataFrames(cr3)
  BY <1>1, <1>3, <1>4, Zenon DEF Sharers
<1> QED
  BY <1>1, <1>3, <1>4, <1>5, CloneSharers, Zenon

LEMMA CowDestroy ==
  ASSUME CowInv, NEW s \in Spaces, paging_destroy_address_space(s)
  PROVE  RwPrivate' /\ TlbCoherent'
<1> USE DEF CowInv
<1>1. /\ cr3 \in Spaces /\ s # cr3 /\ cr3' = cr3 /\ tlb' = tlb
      /\ \A r \in Spaces : /\ map'[r] = IF r = s THEN NoPages ELSE map[r]
                           /\ rw'[r] = IF r = s THEN {} ELSE rw[r]
  BY Zenon DEF paging_destroy_address_space, RefInv, IndexTypes
<1>2. TlbCoherent'
  BY <1>1, TlbKept, Zenon
<1>3. \A r \in Spaces : DataFrames(r)' = IF r = s THEN {} ELSE DataFrames(r)
  BY <1>1 DEF DataFrames, Mapped, NoPages
<1>4. \A h : Sharers(h)' = Sharers(h) \ {s}
  BY <1>3, Zenon DEF Sharers
<1>5. RwPrivate'
  BY <1>1, <1>4, Zenon DEF RwPrivate
<1> QED
  BY <1>2, <1>5, Zenon

LEMMA CowStep == CowInv /\ [Next]_vars /\ [~Rollback]_vars => CowInv'
<1> SUFFICES ASSUME CowInv, [Next]_vars, [~Rollback]_vars PROVE CowInv'
  BY Zenon
<1> USE DEF CowInv
<1>r. RefInv' /\ IndexTypes'
  BY RefStep, Zenon DEF RefInv
<1>c. cr3 \in Spaces
  BY Zenon DEF RefInv, IndexTypes
<1>same. ASSUME UNCHANGED <<map, rw>> PROVE RwPrivate'
  BY <1>same DEF RwPrivate, Sharers, DataFrames, Mapped
<1>1. ASSUME NEW v \in VPage, NEW x \in Values, map_user_page(v, x) PROVE CowInv'
  BY <1>r, <1>1, CowMapUser, Zenon
<1>2. ASSUME NEW v \in VPage, tlb' = [tlb EXCEPT ![v] = Translate(v)], UNCHANGED <<map, rw, cr3>>
      PROVE  CowInv'
  <2>1. \A w \in VPage : tlb'[w] = IF w = v THEN Translate(v) ELSE tlb[w]
    BY <1>2, Zenon DEF RefInv, IndexTypes
  <2> SUFFICES ASSUME NEW w \in VPage, tlb'[w] # NoTranslation
               PROVE  tlb'[w] = <<map[cr3][w], w \in rw[cr3]>>
    BY <1>r, <1>2, <1>same, Zenon DEF TlbCoherent, NoTranslation
  <2>2. CASE w = v
    BY <2>1, <2>2, TranslateCoherent, Zenon
  <2>3. CASE w # v
    <3>1. tlb'[w] = tlb[w]
      BY <2>1, <2>3, Zenon
    <3> QED BY <3>1, Zenon DEF TlbCoherent
  <2> QED BY <2>2, <2>3, Zenon
<1>3. ASSUME NEW v \in VPage, NEW x \in Values, Write(v, x) PROVE CowInv'
  BY <1>2, <1>3, Zenon DEF Write, spaceVars
<1>4. ASSUME NEW v \in VPage, Read(v) PROVE CowInv'
  BY <1>2, <1>4, Zenon DEF Read, spaceVars
<1>5. ASSUME NEW v \in VPage, paging_handle_cow_fault(v) PROVE CowInv'
  BY <1>r, <1>5, CowFault, Zenon
<1>6. CASE UNCHANGED vars
  <2>1. TlbCoherent'
    BY <1>6, TlbKept, Zenon DEF vars, spaceVars
  <2> QED BY <1>r, <1>6, <1>same, <2>1, Zenon DEF vars, spaceVars
<1>7. ASSUME NEW c \in Spaces, paging_clone_address_space(c) PROVE CowInv'
  <2>1. c \in Spaces \ Live
    BY <1>7, Zenon DEF paging_clone_address_space
  <2>2. CASE CloneDone(c)
    <3>1. PICK f \in Free : \E g \in [Tables(cr3) -> Free \ {f}] : CloneInto(c, f, g)
      BY <2>2, Zenon DEF CloneDone
    <3>2. PICK g \in [Tables(cr3) -> Free \ {f}] : CloneInto(c, f, g)
      BY <3>1, Zenon
    <3> QED BY <1>r, <2>1, <3>2, CowClone, Zenon
  <2>3. CASE CloneFailed
    <3>1. rw' = rw \/ UNCHANGED vars
      BY <2>3, Zenon DEF Rollback
    <3>2. UNCHANGED vars
      BY <2>3, <3>1, Zenon DEF CloneFailed, vars, pmmVars, spaceVars
    <3> QED BY <1>6, <3>2, Zenon
  <2> QED BY <1>7, <2>2, <2>3, Zenon DEF paging_clone_address_space
<1>8. ASSUME NEW s \in Spaces, paging_destroy_address_space(s) PROVE CowInv'
  BY <1>r, <1>8, CowDestroy, Zenon
<1>9. ASSUME NEW s \in Spaces, SwitchTo(s) PROVE CowInv'
  <2>1. TlbCoherent'
    BY <1>9, Zenon DEF SwitchTo, TlbCoherent, EmptyTlb, NoTranslation
  <2> QED BY <1>r, <1>9, <1>same, <2>1, Zenon DEF SwitchTo, spaceVars
<1> QED
  BY <1>1, <1>3, <1>4, <1>5, <1>6, <1>7, <1>8, <1>9, Zenon DEF Next

\* The downgrade and the cr3 reload of paging_clone_address_space() and invlpg()
\* after a fault come in time: a page that a space can write, through its tables
\* or through the TLB, is mapped nowhere else, as long as no fork is rolled back.
THEOREM SharedReadOnlyAlways == Spec /\ [][~Rollback]_vars => []SharedReadOnly
<1>1. CowInv => SharedReadOnly
  <2> SUFFICES ASSUME CowInv PROVE WritableIsPrivate
    BY Zenon DEF SharedReadOnly, CowInv
  <2> SUFFICES ASSUME NEW s \in Spaces, NEW r \in Spaces, NEW v \in rw[s], NEW w \in VPage,
                      map[r][w] = map[s][v]
               PROVE  <<r, w>> = <<s, v>>
    BY DEF WritableIsPrivate
  <2> QED BY RwAlone DEF CowInv
<1>2. Init => CowInv
  BY CowInit, Zenon
<1>3. CowInv /\ [Next]_vars /\ [~Rollback]_vars => CowInv'
  BY CowStep, Zenon
<1> QED
  BY <1>1, <1>2, <1>3, PTL DEF Spec

-----------------------------------------------------------------------------
(* Paging implements Memory.                                               *)

Memories == [Spaces -> [VPage -> Values \cup {NoFrame}]]

LEMMA MemoryType ==
  ASSUME IndexTypes
  PROVE  memory \in Memories
<1>1. \A s \in Spaces, v \in VPage :
        (IF map[s][v] = NoFrame THEN NoFrame ELSE content[map[s][v]]) \in Values \cup {NoFrame}
  BY DEF IndexTypes
<1> QED
  BY <1>1, Zenon DEF memory, Memories

\* A step leads to memory n when it does so in every page of every space.
LEMMA MemoryStep ==
  ASSUME IndexTypes', NEW n \in Memories, \A s \in Spaces, v \in VPage : memory'[s][v] = n[s][v]
  PROVE  memory' = n
<1>1. \A s \in Spaces, v \in VPage :
        (IF map'[s][v] = NoFrame THEN NoFrame ELSE content'[map'[s][v]]) \in Values \cup {NoFrame}
  BY DEF IndexTypes
<1>2. memory' \in Memories
  BY <1>1, Zenon DEF memory, Memories
<1> HIDE DEF memory
<1>3. \A s \in Spaces : memory'[s] = n[s]
  BY <1>2 DEF Memories
<1> QED
  BY <1>2, <1>3 DEF Memories

LEMMA MapUserLoads ==
  ASSUME RefInv, IndexTypes', NEW v \in VPage, NEW x \in Values, map_user_page(v, x)
  PROVE  Private!Load(v, x)
<1> USE PagingAssumption
<1>1. PICK f \in Free : \E g \in IF pt[Kernel][v[1]] = NoFrame THEN Free \ {f} ELSE {NoFrame} :
                          LoadPage(v, x, f, g)
  BY Zenon DEF map_user_page
<1>2. PICK g \in IF pt[Kernel][v[1]] = NoFrame THEN Free \ {f} ELSE {NoFrame} : LoadPage(v, x, f, g)
  BY <1>1, Zenon
<1>3. f \in Frames /\ Sharers(f) = {}
  BY FreeUnmapped, Zenon
<1>4. \A r \in Spaces, w \in VPage : map[r][w] # f
  BY <1>3, Shares, Zenon DEF RefInv
<1>5. /\ \A r \in Spaces, w \in VPage :
           map'[r][w] = IF r = Kernel /\ w = v THEN f ELSE map[r][w]
      /\ \A h \in Frames : content'[h] = IF h = f THEN x ELSE content[h]
  <2>1. map \in [Spaces -> [VPage -> Frames \cup {NoFrame}]] /\ content \in [Frames -> Values]
    BY Zenon DEF RefInv, IndexTypes
  <2>2. map' = [map EXCEPT ![Kernel][v] = f] /\ content' = [content EXCEPT ![f] = x]
    BY <1>2, Zenon DEF LoadPage, map_page
  <2>3. \A r \in Spaces, w \in VPage : map'[r][w] = IF r = Kernel /\ w = v THEN f ELSE map[r][w]
    BY <2>1, <2>2
  <2>4. \A h \in Frames : content'[h] = IF h = f THEN x ELSE content[h]
    BY <2>1, <2>2, Zenon
  <2> QED BY <2>3, <2>4, Zenon
<1>6. \A r \in Spaces, w \in VPage : map[r][w] \in Frames \cup {NoFrame}
  BY DEF RefInv, IndexTypes
<1>7. \A r \in Spaces, w \in VPage :
        memory'[r][w] = IF r = Kernel /\ w = v THEN x ELSE memory[r][w]
  BY <1>3, <1>4, <1>5, <1>6 DEF memory
<1>8. memory \in Memories
  BY MemoryType, Zenon DEF RefInv
<1> DEFINE n == [memory EXCEPT ![Kernel][v] = x]
<1> HIDE DEF memory
<1>9. n \in Memories /\ \A r \in Spaces, w \in VPage : memory'[r][w] = n[r][w]
  BY <1>7, <1>8 DEF Memories
<1> HIDE DEF n
<1>10. memory' = n
  BY <1>9, MemoryStep, Zenon
<1> QED
  BY <1>10, Zenon DEF Private!Load, n

LEMMA WriteWrites ==
  ASSUME CowInv, IndexTypes', NEW v \in VPage, NEW x \in Values, Write(v, x)
  PROVE  Private!Write(cr3, v, x)
<1> USE PagingAssumption DEF CowInv
<1>1. cr3 \in Spaces /\ v \in Mapped(cr3) /\ map' = map
  BY Zenon DEF Write, spaceVars, RefInv, IndexTypes
<1>2. Translate(v) = <<map[cr3][v], v \in rw[cr3]>>
  BY TranslateCoherent, Zenon
<1>3. v \in rw[cr3] /\ content' = [content EXCEPT ![map[cr3][v]] = x]
  <2>1. Translate(v)[1] = map[cr3][v] /\ Translate(v)[2] = (v \in rw[cr3])
    BY <1>2
  <2> QED BY <2>1, Zenon DEF Write
<1>4. /\ map[cr3][v] \in Frames
      /\ \A r \in Spaces, w \in VPage : map[r][w] = map[cr3][v] => r = cr3 /\ w = v
  BY <1>1, <1>3, RwAlone, Zenon
<1>5. \A h \in Frames : content'[h] = IF h = map[cr3][v] THEN x ELSE content[h]
  BY <1>3, <1>4, Zenon DEF RefInv, IndexTypes
<1>6. \A r \in Spaces, w \in VPage : map[r][w] \in Frames \cup {NoFrame}
  BY DEF RefInv, IndexTypes
<1>7. \A r \in Spaces, w \in VPage : memory'[r][w] = IF r = cr3 /\ w = v THEN x ELSE memory[r][w]
  BY <1>1, <1>4, <1>5, <1>6 DEF memory
<1>8. memory[cr3][v] # NoFrame
  BY <1>1, <1>4 DEF memory, RefInv, IndexTypes
<1>9. memory \in Memories
  BY MemoryType, Zenon DEF RefInv
<1> DEFINE n == [memory EXCEPT ![cr3][v] = x]
<1> HIDE DEF memory
<1>10. n \in Memories /\ \A r \in Spaces, w \in VPage : memory'[r][w] = n[r][w]
  BY <1>1, <1>7, <1>9 DEF Memories
<1> HIDE DEF n
<1>11. memory' = n
  BY <1>10, MemoryStep, Zenon
<1> QED
  BY <1>8, <1>11, Zenon DEF Private!Write, n

\* The fault is invisible: the copy has the content of the page it replaces.
LEMMA FaultInvisible ==
  ASSUME RefInv, IndexTypes', NEW v \in VPage, paging_handle_cow_fault(v)
  PROVE  UNCHANGED memory
<1> USE PagingAssumption
<1>1. cr3 \in Spaces /\ map[cr3][v] \in Frames
  <2>1. v \in Mapped(cr3)
    BY Zenon DEF paging_handle_cow_fault
  <2> QED BY <2>1 DEF Mapped, RefInv, IndexTypes
<1>2. ASSUME NEW f \in Frames, CowCopy(v, f) PROVE UNCHANGED memory
  <2>1. f \in Free
    BY <1>2, Zenon DEF CowCopy
  <2>2. \A r \in Spaces, w \in VPage : map[r][w] # f
    BY <2>1, FreeUnmapped, Shares, Zenon DEF RefInv
  <2>3. /\ \A r \in Spaces, w \in VPage :
             map'[r][w] = IF r = cr3 /\ w = v THEN f ELSE map[r][w]
        /\ \A h \in Frames : content'[h] = IF h = f THEN content[map[cr3][v]] ELSE content[h]
    BY <1>1, <1>2 DEF CowCopy, RefInv, IndexTypes
  <2>4. \A r \in Spaces, w \in VPage : map[r][w] \in Frames \cup {NoFrame}
    BY DEF RefInv, IndexTypes
  <2>5. \A r \in Spaces, w \in VPage : memory'[r][w] = memory[r][w]
    BY <1>1, <2>2, <2>3, <2>4 DEF memory
  <2> HIDE DEF memory
  <2> QED BY <2>5, MemoryType, MemoryStep, Zenon DEF RefInv
<1>3. CASE CowReuse(v)
  BY <1>3, Zenon DEF CowReuse, memory
<1> QED
  BY <1>2, <1>3, Zenon DEF paging_handle_cow_fault

LEMMA CloneForks ==
  ASSUME RefInv, IndexTypes', NEW c \in Spaces \ Live, NEW f, NEW g, CloneInto(c, f, g)
  PROVE  Private!Fork(cr3, c)
<1>1. cr3 \in Spaces /\ content' = content /\ map' = [map EXCEPT ![c] = map[cr3]]
  BY Zenon DEF CloneInto, RefInv, IndexTypes
<1>2. \A r \in Spaces : map'[r] = IF r = c THEN map[cr3] ELSE map[r]
  BY <1>1, Zenon DEF RefInv, IndexTypes
<1>3. \A r \in Spaces, w \in VPage : memory'[r][w] = IF r = c THEN memory[cr3][w] ELSE memory[r][w]
  BY <1>1, <1>2 DEF memory
<1>4. memory[c] = Private!Empty
  <2>1. map[c] = NoPages
    BY Zenon DEF RefInv, DeadIsEmpty
  <2> QED BY <2>1, Zenon DEF memory, Private!Empty, NoPages
<1>5. memory \in Memories
  BY MemoryType, Zenon DEF RefInv
<1> DEFINE n == [memory EXCEPT ![c] = memory[cr3]]
<1> HIDE DEF memory
<1>6. n \in Memories /\ \A r \in Spaces, w \in VPage : memory'[r][w] = n[r][w]
  BY <1>1, <1>3, <1>5, Zenon DEF Memories
<1> HIDE DEF n
<1>7. memory' = n
  BY <1>6, MemoryStep, Zenon
<1> QED
  BY <1>4, <1>7, Zenon DEF Private!Fork, n

\* A mapped page is in use.
MappedInUse ==
  \A s \in Spaces, v \in VPage : map[s][v] # NoFrame => map[s][v] \in used

LEMMA MappedUsed == RefInv => MappedInUse
<1> SUFFICES ASSUME RefInv, NEW s \in Spaces, NEW v \in VPage, map[s][v] # NoFrame
             PROVE  map[s][v] \in used
  BY Zenon DEF MappedInUse
<1>1. map[s][v] \in Frames
  BY DEF RefInv, IndexTypes
<1>2. Sharers(map[s][v]) # {}
  BY <1>1, Shares, Zenon DEF RefInv
<1>3. map[s][v] \notin Free
  BY <1>2, FreeUnmapped, Zenon
<1> QED
  BY <1>1, <1>3, Zenon DEF Free

LEMMA DestroyExits ==
  ASSUME RefInv, RefInv', NEW s \in Spaces, paging_destroy_address_space(s)
  PROVE  Private!Exit(s)
<1> USE PagingAssumption
<1>1. /\ \A r \in Spaces : map'[r] = IF r = s THEN NoPages ELSE map[r]
      /\ content' = [f \in Frames |-> IF f \in used' THEN content[f] ELSE Zero]
  BY DEF paging_destroy_address_space, RefInv, IndexTypes
<1>2. \A r \in Spaces, w \in VPage : map'[r][w] # NoFrame => map'[r][w] \in used'
  <2>1. MappedInUse'
    BY MappedUsed, PTL
  <2> QED BY <2>1, Zenon DEF MappedInUse
<1>3. \A r \in Spaces, w \in VPage : memory'[r][w] = IF r = s THEN NoFrame ELSE memory[r][w]
  <2>1. \A r \in Spaces, w \in VPage : map'[r][w] \in Frames \cup {NoFrame}
    BY DEF RefInv, IndexTypes
  <2>2. \A w \in VPage : map'[s][w] = NoFrame
    BY <1>1, Zenon DEF NoPages
  <2> QED BY <1>1, <1>2, <2>1, <2>2, Zenon DEF memory
<1>4. memory \in Memories
  BY MemoryType, Zenon DEF RefInv
<1> DEFINE n == [memory EXCEPT ![s] = Private!Empty]
<1> HIDE DEF memory
<1>5. n \in Memories /\ \A r \in Spaces, w \in VPage : memory'[r][w] = n[r][w]
  BY <1>3, <1>4, Zenon DEF Memories, Private!Empty
<1> HIDE DEF n
<1>6. memory' = n
  BY <1>5, MemoryStep, Zenon DEF RefInv
<1> QED
  BY <1>6, Zenon DEF Private!Exit, n

LEMMA MemoryInit == Init => Private!Init
  BY DEF Init, NoPages, memory, Private!Init, Private!Empty

LEMMA MemoryNext ==
  CowInv /\ [Next]_vars => [Private!Next]_memory
<1> SUFFICES ASSUME CowInv, [Next]_vars PROVE Private!Next \/ UNCHANGED memory
  BY Zenon
<1> USE DEF CowInv
<1>r. RefInv' /\ IndexTypes'
  BY RefStep, Zenon DEF RefInv
<1>c. cr3 \in Spaces
  BY Zenon DEF RefInv, IndexTypes
<1>same. ASSUME UNCHANGED <<map, content>> PROVE UNCHANGED memory
  BY <1>same, Zenon DEF memory
<1>1. ASSUME NEW v \in VPage, NEW x \in Values, map_user_page(v, x) PROVE Private!Next
  BY <1>r, <1>1, MapUserLoads, Zenon DEF Private!Next
<1>2. ASSUME NEW v \in VPage, NEW x \in Values, Write(v, x) PROVE Private!Next
  BY <1>r, <1>c, <1>2, WriteWrites, Zenon DEF Private!Next
<1>3. ASSUME NEW v \in VPage, Read(v) PROVE UNCHANGED memory
  BY <1>3, <1>same, Zenon DEF Read, spaceVars
<1>4. ASSUME NEW v \in VPage, paging_handle_cow_fault(v) PROVE UNCHANGED memory
  BY <1>r, <1>4, FaultInvisible, Zenon
<1>5. ASSUME NEW c \in Spaces, paging_clone_address_space(c) PROVE Private!Next \/ UNCHANGED memory
  <2>1. c \in Spaces \ Live /\ c \in Spaces \ {Kernel}
    BY <1>5, Zenon DEF paging_clone_address_space, Live
  <2>2. CASE CloneDone(c)
    <3>1. PICK f \in Free : \E g \in [Tables(cr3) -> Free \ {f}] : CloneInto(c, f, g)
      BY <2>2, Zenon DEF CloneDone
    <3>2. PICK g \in [Tables(cr3) -> Free \ {f}] : CloneInto(c, f, g)
      BY <3>1, Zenon
    <3>3. Private!Fork(cr3, c)
      BY <1>r, <2>1, <3>2, CloneForks, Zenon
    <3> QED BY <1>c, <2>1, <3>3, Zenon DEF Private!Next
  <2>3. CASE CloneFailed
    BY <2>3, <1>same, Zenon DEF CloneFailed
  <2> QED BY <1>5, <2>2, <2>3, Zenon DEF paging_clone_address_space
<1>6. ASSUME NEW s \in Spaces, paging_destroy_address_space(s) PROVE Private!Next
  <2>1. s \in Spaces \ {Kernel}
    BY <1>6, Zenon DEF paging_destroy_address_space
  <2>2. Private!Exit(s)
    BY <1>r, <1>6, DestroyExits, Zenon
  <2> QED BY <2>1, <2>2, Zenon DEF Private!Next
<1>7. ASSUME NEW s \in Spaces, SwitchTo(s) PROVE UNCHANGED memory
  BY <1>7, <1>same, Zenon DEF SwitchTo, spaceVars
<1>8. CASE UNCHANGED vars
  BY <1>8, <1>same, Zenon DEF vars, spaceVars
<1> HIDE DEF memory
<1> QED
  BY <1>1, <1>2, <1>3, <1>4, <1>5, <1>6, <1>7, <1>8, Zenon DEF Next

\* Copy on write cannot be told from copying: without a rolled-back fork, every
\* step of paging.c is a step of Memory, in which each address space has a memory
\* of its own, or changes no memory, and the COW fault is of the second kind.
THEOREM PrivateMemoryHolds == Spec /\ [][~Rollback]_vars => PrivateMemory
<1>1. Init => CowInv
  BY CowInit, Zenon
<1>2. CowInv /\ [Next]_vars /\ [~Rollback]_vars => CowInv'
  BY CowStep, Zenon
<1>3. Init => Private!Init
  BY MemoryInit, Zenon
<1>4. CowInv /\ [Next]_vars => [Private!Next]_memory
  BY MemoryNext, Zenon
<1>5. CowInv /\ [Next]_vars => [FaultStep => UNCHANGED memory]_vars
  <2> SUFFICES ASSUME CowInv, [Next]_vars, FaultStep PROVE UNCHANGED memory
    BY Zenon
  <2>1. RefInv /\ IndexTypes'
    BY RefStep, Zenon DEF CowInv, RefInv
  <2> QED BY <2>1, FaultInvisible, Zenon DEF FaultStep
<1> QED
  BY <1>1, <1>2, <1>3, <1>4, <1>5, PTL DEF Spec, PrivateMemory, Private!Spec

=============================================================================
