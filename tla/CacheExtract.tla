---------------------------- MODULE CacheExtract ----------------------------
(***************************************************************************)
(* ensure_cache of src/czet.c: every invocation of the compiler makes sure *)
(* that <cache>/czet/<hash> holds the extracted toolchain and its .done    *)
(* stamp.  Invocations are processes that share nothing but the file       *)
(* system, take no lock, and may be killed between any two system calls.   *)
(*                                                                         *)
(* A tree maps each path below the directory to what it holds: nothing, a  *)
(* part of the file (a short write) or all of it.  The temporary directory *)
(* of a process has a name of its own (mkdtemp), so what happens inside it *)
(* before the rename is one step.  Every call may fail; what the code      *)
(* makes of it is an action beside the good one (...Fail), and three       *)
(* failures go unnoticed: a read of the stamp or of the archive that the   *)
(* code takes for the end of the file, and a temporary directory it cannot *)
(* remove.                                                                 *)
(***************************************************************************)
EXTENDS Naturals

CONSTANTS
    Procs,       \* invocations of the compiler
    Files,       \* the files of the blob
    Stamp,       \* the path of the .done stamp
    MaxCrashes,  \* bound on killed processes
    MaxFaults    \* bound on failing system calls

ASSUME FilesAssumption == Files # {} /\ Stamp \notin Files
ASSUME BoundsAssumption == MaxCrashes \in Nat /\ MaxFaults \in Nat

Paths == Files \cup {Stamp}
Contents == {"none", "part", "full"}
Trees == [Paths -> Contents]
EmptyTree == [x \in Paths |-> "none"]
\* The archive after a whole extract_tar.
Extracted == [x \in Paths |-> IF x \in Files THEN "full" ELSE "none"]

VARIABLES
    mode,       \* how the compiler is used: chosen once, see Modes
    dirExists,  \* the cache directory exists
    tree,       \* what is below it
    pc,         \* where each invocation is in ensure_cache
    work,       \* the tree in its temporary directory
    hasWork,    \* that directory exists
    list,       \* the entries its remove_tree(dir) has still to unlink
    crashes,    \* processes killed so far
    faults,     \* system calls that failed so far
    failed      \* history: the calls of this invocation that failed, see Failures

disk == <<dirExists, tree>>
own == <<work, hasWork, list>>
history == <<crashes, faults, failed>>
vars == <<mode, dirExists, tree, pc, work, hasWork, list, crashes, faults, failed>>

\* serial: invocations do not overlap; warm: the cache is complete and
\* stamped at the start.
Modes == [serial : BOOLEAN, warm : BOOLEAN]

\* read: a read that failed was taken for the end of the file; drop: the
\* temporary directory could not be removed; call: any other.
Failures == {"read", "drop", "call"}

Running ==
    {"check", "mkdtemp", "extract", "stamp", "remove_tree", "unlink", "rename", "drop"}
Ended == {"ready", "null", "killed"}

Complete(t) == \A f \in Files : t[f] = "full"

\* The .done file holds the 16 characters of the hash.
Marked(t) == t[Stamp] = "full"

Init ==
    /\ mode \in Modes
    /\ dirExists = mode.warm
    /\ tree = [x \in Paths |-> IF mode.warm THEN "full" ELSE "none"]
    /\ pc = [p \in Procs |-> "idle"]
    /\ work = [p \in Procs |-> EmptyTree]
    /\ hasWork = [p \in Procs |-> FALSE]
    /\ list = [p \in Procs |-> {}]
    /\ crashes = 0
    /\ faults = 0
    /\ failed = [p \in Procs |-> {}]

-----------------------------------------------------------------------------
GoTo(p, label) == pc' = [pc EXCEPT ![p] = label]

NoFault == UNCHANGED history

\* A system call of p fails.
Fault(p, failure) ==
    /\ faults < MaxFaults
    /\ faults' = faults + 1
    /\ failed' = [failed EXCEPT ![p] = @ \cup {failure}]
    /\ UNCHANGED crashes

\* A call that returns NULL before there is a temporary directory.
GiveUp(p) ==
    /\ Fault(p, "call")
    /\ GoTo(p, "null")
    /\ UNCHANGED <<disk, own>>

MayStart(p) ==
    /\ pc[p] = "idle"
    /\ mode.serial => \A q \in Procs : pc[q] \notin Running

\* mkdirs(dir), which is content with a directory that exists.
Mkdirs(p) ==
    /\ MayStart(p)
    /\ dirExists' = TRUE
    /\ GoTo(p, "check")
    /\ NoFault
    /\ UNCHANGED <<tree, own>>

MkdirsFail(p) == MayStart(p) /\ GiveUp(p)

CheckDirOnly(p) ==
    /\ pc[p] = "check"
    /\ GoTo(p, IF dirExists THEN "ready" ELSE "mkdtemp")
    /\ NoFault
    /\ UNCHANGED <<disk, own>>

CheckNever(p) ==
    /\ pc[p] = "check"
    /\ GoTo(p, "mkdtemp")
    /\ NoFault
    /\ UNCHANGED <<disk, own>>

\* "Already extracted?"
Check(p) ==
    /\ pc[p] = "check"
    /\ GoTo(p, IF Marked(tree) THEN "ready" ELSE "mkdtemp")
    /\ NoFault
    /\ UNCHANGED <<disk, own>>

\* fopen or fread failed: as if there were no stamp.
CheckFail(p) ==
    /\ pc[p] = "check"
    /\ Fault(p, "read")
    /\ GoTo(p, "mkdtemp")
    /\ UNCHANGED <<disk, own>>

Mkdtemp(p) ==
    /\ pc[p] = "mkdtemp"
    /\ hasWork' = [hasWork EXCEPT ![p] = TRUE]
    /\ GoTo(p, "extract")
    /\ NoFault
    /\ UNCHANGED <<disk, work, list>>

\* There is no memory for a path, or mkdtemp failed.
MkdtempFail(p) == pc[p] \in {"check", "mkdtemp"} /\ GiveUp(p)

ExtractOk(p) ==
    /\ pc[p] = "extract"
    /\ work' = [work EXCEPT ![p] = Extracted]
    /\ GoTo(p, "stamp")
    /\ NoFault
    /\ UNCHANGED <<disk, hasWork, list>>

\* A read that fails where a header should start is the end of the archive:
\* extract_tar returns 0 without the files that follow.
ExtractShort(p) ==
    /\ pc[p] = "extract"
    /\ Fault(p, "read")
    /\ \E missing \in (SUBSET Files) \ {{}} :
          work' = [work EXCEPT ![p] =
                      [x \in Paths |-> IF x \in missing THEN "none" ELSE Extracted[x]]]
    /\ GoTo(p, "stamp")
    /\ UNCHANGED <<disk, hasWork, list>>

ExtractFailIgnored(p) ==
    /\ pc[p] = "extract"
    /\ Fault(p, "call")
    /\ \E f \in Files : work' = [work EXCEPT ![p] = [Extracted EXCEPT ![f] = "part"]]
    /\ GoTo(p, "stamp")
    /\ UNCHANGED <<disk, hasWork, list>>

ExtractFailAsEnd(p) ==
    /\ pc[p] = "extract"
    /\ Fault(p, "call")
    /\ \E f \in Files : work' = [work EXCEPT ![p] = [Extracted EXCEPT ![f] = "none"]]
    /\ GoTo(p, "stamp")
    /\ UNCHANGED <<disk, hasWork, list>>

\* fseek or extract_tar failed (a damaged archive, a full disk).
ExtractFail(p) ==
    /\ pc[p] = "extract"
    /\ Fault(p, "call")
    /\ GoTo(p, "drop")
    /\ UNCHANGED <<disk, own>>

StampOk(p) ==
    /\ pc[p] = "stamp"
    /\ work' = [work EXCEPT ![p][Stamp] = "full"]
    /\ GoTo(p, "remove_tree")
    /\ NoFault
    /\ UNCHANGED <<disk, hasWork, list>>

\* fopen or fwrite of the stamp failed: the code goes on.
StampFail(p) ==
    /\ pc[p] = "stamp"
    /\ Fault(p, "call")
    /\ \E c \in {"none", "part"} : work' = [work EXCEPT ![p][Stamp] = c]
    /\ GoTo(p, "remove_tree")
    /\ UNCHANGED <<disk, hasWork, list>>

-----------------------------------------------------------------------------
(***************************************************************************)
(* remove_tree(dir): the entries are listed once, then unlinked by path,   *)
(* so an unlink hits whatever directory has the name by then.              *)
(***************************************************************************)

RemoveTreeForgotten(p) ==
    /\ pc[p] = "remove_tree"
    /\ GoTo(p, "rename")
    /\ NoFault
    /\ UNCHANGED <<disk, own>>

RemoveTree(p) ==
    /\ pc[p] = "remove_tree"
    /\ list' = [list EXCEPT ![p] = {x \in Paths : tree[x] # "none"}]
    /\ GoTo(p, IF dirExists THEN "unlink" ELSE "rename")
    /\ NoFault
    /\ UNCHANGED <<disk, work, hasWork>>

\* lstat or opendir failed: remove_tree returns.
RemoveTreeFail(p) ==
    /\ pc[p] = "remove_tree"
    /\ Fault(p, "call")
    /\ GoTo(p, "rename")
    /\ UNCHANGED <<disk, own>>

Unlink(p, x) ==
    /\ pc[p] = "unlink"
    /\ x \in list[p]
    /\ tree' = [tree EXCEPT ![x] = "none"]
    /\ list' = [list EXCEPT ![p] = @ \ {x}]
    /\ NoFault
    /\ UNCHANGED <<dirExists, pc, work, hasWork>>

\* The return values of unlink and rmdir are ignored.
UnlinkFail(p, x) ==
    /\ pc[p] = "unlink"
    /\ x \in list[p]
    /\ Fault(p, "call")
    /\ list' = [list EXCEPT ![p] = @ \ {x}]
    /\ UNCHANGED <<disk, pc, work, hasWork>>

Rmdir(p) ==
    /\ pc[p] = "unlink"
    /\ list[p] = {}
    /\ dirExists' = (dirExists /\ tree # EmptyTree)
    /\ GoTo(p, "rename")
    /\ NoFault
    /\ UNCHANGED <<tree, own>>

RmdirFail(p) ==
    /\ pc[p] = "unlink"
    /\ list[p] = {}
    /\ Fault(p, "call")
    /\ GoTo(p, "rename")
    /\ UNCHANGED <<disk, own>>

-----------------------------------------------------------------------------
\* rename replaces a directory only when it is empty.
RenameOk(p) ==
    /\ pc[p] = "rename"
    /\ tree = EmptyTree
    /\ dirExists' = TRUE
    /\ tree' = work[p]
    /\ work' = [work EXCEPT ![p] = EmptyTree]
    /\ hasWork' = [hasWork EXCEPT ![p] = FALSE]
    /\ GoTo(p, "ready")
    /\ NoFault
    /\ UNCHANGED list

RenameNotEmpty(p) ==
    /\ pc[p] = "rename"
    /\ tree # EmptyTree
    /\ GoTo(p, "drop")
    /\ NoFault
    /\ UNCHANGED <<disk, own>>

RenameFail(p) ==
    /\ pc[p] = "rename"
    /\ Fault(p, "call")
    /\ GoTo(p, "drop")
    /\ UNCHANGED <<disk, own>>

DropWorkKept(p) ==
    /\ pc[p] = "drop"
    /\ GoTo(p, "null")
    /\ NoFault
    /\ UNCHANGED <<disk, own>>

\* remove_tree(work) on the way to returning NULL.
DropWork(p) ==
    /\ pc[p] = "drop"
    /\ work' = [work EXCEPT ![p] = EmptyTree]
    /\ hasWork' = [hasWork EXCEPT ![p] = FALSE]
    /\ GoTo(p, "null")
    /\ NoFault
    /\ UNCHANGED <<disk, list>>

\* Some call in it failed: the directory stays, with what nobody reads.
DropWorkFail(p) ==
    /\ pc[p] = "drop"
    /\ Fault(p, "drop")
    /\ work' = [work EXCEPT ![p] = EmptyTree]
    /\ GoTo(p, "null")
    /\ UNCHANGED <<disk, hasWork, list>>

\* The process is killed; its temporary directory stays, with what nobody reads.
Crash(p) ==
    /\ pc[p] \in Running
    /\ crashes < MaxCrashes
    /\ crashes' = crashes + 1
    /\ GoTo(p, "killed")
    /\ work' = [work EXCEPT ![p] = EmptyTree]
    /\ list' = [list EXCEPT ![p] = {}]
    /\ UNCHANGED <<disk, hasWork, faults, failed>>

AllEnded ==
    /\ \A p \in Procs : pc[p] \in Ended
    /\ UNCHANGED vars

\* The rest of ensure_cache once it has been called.
Step(p) ==
    \/ Check(p) \/ CheckFail(p)
    \/ Mkdtemp(p) \/ MkdtempFail(p)
    \/ ExtractOk(p) \/ ExtractShort(p) \/ ExtractFail(p)
    \/ StampOk(p) \/ StampFail(p)
    \/ RemoveTree(p) \/ RemoveTreeFail(p)
    \/ \E x \in Paths : Unlink(p, x) \/ UnlinkFail(p, x)
    \/ Rmdir(p) \/ RmdirFail(p)
    \/ RenameOk(p) \/ RenameNotEmpty(p) \/ RenameFail(p)
    \/ DropWork(p) \/ DropWorkFail(p)

Next ==
    /\ \/ \E p \in Procs : Mkdirs(p) \/ MkdirsFail(p) \/ Step(p) \/ Crash(p)
       \/ AllEnded
    /\ UNCHANGED mode

Spec == Init /\ [][Next]_vars

-----------------------------------------------------------------------------
\* Paths, contents and program counters; only a directory that exists has
\* something below it.
TypeOK ==
    /\ mode \in Modes
    /\ dirExists \in BOOLEAN
    /\ tree \in Trees
    /\ pc \in [Procs -> Running \cup Ended \cup {"idle"}]
    /\ work \in [Procs -> Trees]
    /\ hasWork \in [Procs -> BOOLEAN]
    /\ list \in [Procs -> SUBSET Paths]
    /\ crashes \in 0 .. MaxCrashes
    /\ faults \in 0 .. MaxFaults
    /\ failed \in [Procs -> SUBSET Failures]
    /\ ~dirExists => tree = EmptyTree

StampTrue == Marked(tree) => Complete(tree)
NullsFaulted == \A p \in Procs : pc[p] = "null" => failed[p] # {}

\* Some invocation took a failed read of the stamp or of the archive for the
\* end of the file, and went on as if nothing had happened.
Misread == \E p \in Procs : "read" \in failed[p]

\* A stamped cache holds the whole toolchain: the skip in ensure_cache
\* ("Already extracted?") is right, after any sequence of killed invocations
\* and of calls whose failure the code can see, as long as invocations do not
\* overlap.  After a silent one it is not: a header that cannot be read ends
\* the archive early and the short tree is stamped, although extract_tar
\* promises "-1 on error" (czet.c:292); and a stamp that cannot be read lets
\* the removal of a stamped cache begin, which a kill leaves half done.
MarkedMeansComplete == mode.serial /\ ~Misread => StampTrue

\* So is the directory ensure_cache returns complete at that moment, under the
\* same two conditions.
ReturnsComplete ==
    [][\A p \in Procs :
          (mode.serial /\ ~Misread /\ pc[p] # "ready" /\ pc'[p] = "ready")
              => dirExists' /\ Complete(tree')]_vars

\* And ensure_cache returns NULL only after a call of its own failed: what a
\* killed or failed invocation left behind never blocks the next one.
FailsOnlyOnFault == mode.serial => NullsFaulted

\* The cache directory never shows a half-written file, also while other
\* invocations extract, remove and rename at the same time, and whatever fails.
NeverHalfWritten == \A f \in Files : tree[f] # "part"

\* An invocation that returns leaves its temporary directory behind only if
\* remove_tree, whose errors nobody looks at, failed on it.
NoTempLeft ==
    \A p \in Procs :
        pc[p] \in {"idle", "ready", "null"} /\ hasWork[p] => "drop" \in failed[p]

\* The README's rule (README.md:105-106), "If that version is already present
\* and marked, extraction is skipped", needs the stamp to mean that the
\* version is present: it does whenever no invocation is running.
StampTellsTruthAtRest ==
    (\A p \in Procs : pc[p] \in {"ready", "null"}) => (Marked(tree) => Complete(tree))

Usable == dirExists /\ Complete(tree) /\ Marked(tree)

\* A cache that was complete and stamped stays so, whatever number of
\* invocations use it, overlapping or not, and however they end, until a read
\* of the stamp fails: then a good cache is removed and extracted again.
WarmStays == mode.warm /\ ~Misread => Usable
=============================================================================
