------------------------------ MODULE MCDriver ------------------------------
(***************************************************************************)
(* The driver for TLC: several invocations sharing the toolchain cache, or *)
(* one command line turned into the arguments of xgcc.  After ensure_cache *)
(* main rewrites one file of the cache, the linker script libc.so, which   *)
(* Files leaves out; nothing else is shared, so a behaviour exercises one  *)
(* of the two.                                                             *)
(***************************************************************************)
EXTENDS CacheExtract, DriverArgs, SequencesExt, TLC

CONSTANTS Parts, MaxArgs

VARIABLE part

cacheVars == <<mode, dirExists, tree, pc, work, hasWork, list, crashes, faults, failed>>
allVars == <<part, cacheVars, argVars>>

MCArgvs == BoundedSeq(Kinds, MaxArgs)

\* Invocations are interchangeable, and so are the files of the blob.
Symmetry == Permutations(Procs) \cup Permutations(Files)

MCInit ==
    /\ part \in Parts
    /\ Init
    /\ part # "cache" => mode.serial /\ mode.warm
    /\ ArgsInit
    /\ part # "args" => argv = <<>>

\* execv replaces the process.
Execed == part = "args" /\ at = "exec" /\ UNCHANGED allVars

MCNext ==
    \/ part = "cache" /\ Next /\ UNCHANGED <<part, argVars>>
    \/ part = "args" /\ ArgsNext /\ UNCHANGED <<part, cacheVars>>
    \/ Execed

MCSpec == MCInit /\ [][MCNext]_allVars
=============================================================================
