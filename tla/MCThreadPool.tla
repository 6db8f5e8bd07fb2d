---------------------------- MODULE MCThreadPool ----------------------------
(***************************************************************************)
(* Small pools for TLC.                                                    *)
(***************************************************************************)
EXTENDS ThreadPool, TLC

\* Tasks are interchangeable, and so are the clients other than the owner.
Symmetry == Permutations(Tasks) \cup Permutations(Clients \ {Owner})
=============================================================================
