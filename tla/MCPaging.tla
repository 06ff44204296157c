------------------------------ MODULE MCPaging ------------------------------
(* Small instances of Paging for TLC.                                      *)
EXTENDS Paging, TLC

\* The allocator picks any page, and the private spaces are interchangeable.
PagingSymmetry == Permutations(Frames) \cup Permutations(Spaces \ {Kernel})

\* The reference count of a page stays within its 8 bits, as the tables and the
\* bitmap within their types, and is the number of its users (page_ref_inc(),
\* page_ref_dec()).
ReferencesCounted == TypeOK /\ CountedReferences

\* A page that a space can write, through its entry or through a translation
\* the TLB still holds, belongs to this space alone (the downgrade and the cr3
\* reload of paging_clone_address_space(), and the COW fault).
SharedReadOnly == WritableIsPrivate /\ TlbCoherent

=============================================================================
