----------------------------- MODULE MCProcess -----------------------------
(* Small instances of Process for TLC.                                     *)
EXTENDS Process, TLC

\* The PMM hands out any page: pages are interchangeable.
PageSymmetry == Permutations(Pages)

=============================================================================
