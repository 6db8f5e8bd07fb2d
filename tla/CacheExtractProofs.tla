------------------------- MODULE CacheExtractProofs -------------------------
(***************************************************************************)
(* What ensure_cache guarantees for any number of invocations, files,      *)
(* killed processes and failed system calls.                               *)
(***************************************************************************)
EXTENDS CacheExtract, TLAPS

USE FilesAssumption, BoundsAssumption

-----------------------------------------------------------------------------
(***************************************************************************)
(* Type correctness.                                                       *)
(***************************************************************************)

\* The trees the code builds are trees.
LEMMA TreeTypes ==
    /\ EmptyTree \in Trees
    /\ Extracted \in Trees
    /\ Stamp \in Paths
    /\ \A t \in Trees : \A x \in Paths : \A c \in Contents : [t EXCEPT ![x] = c] \in Trees
BY DEF EmptyTree, Extracted, Trees, Paths, Contents

\* The cache starts absent or complete.
LEMMA InitTypeOK == Init => TypeOK
<1> SUFFICES ASSUME Init PROVE TypeOK
  OBVIOUS
<1>0. mode \in Modes /\ mode.warm \in BOOLEAN
  BY DEF Init, Modes
<1>1. dirExists \in BOOLEAN /\ (~dirExists => tree = EmptyTree)
  BY <1>0 DEF Init, EmptyTree
<1>2. tree \in Trees
  BY DEF Init, Trees, Contents
<1>3. pc \in [Procs -> Running \cup Ended \cup {"idle"}]
  BY DEF Init
<1>4. hasWork \in [Procs -> BOOLEAN] /\ failed \in [Procs -> SUBSET Failures]
  BY DEF Init
<1>5. work \in [Procs -> Trees] /\ list \in [Procs -> SUBSET Paths]
  BY TreeTypes DEF Init
<1>6. crashes \in 0 .. MaxCrashes /\ faults \in 0 .. MaxFaults
  BY DEF Init
<1> QED BY <1>0, <1>1, <1>2, <1>3, <1>4, <1>5, <1>6 DEF TypeOK

\* Every system call keeps the types.
LEMMA TypeStep == TypeOK /\ [Next]_vars => TypeOK'
<1> SUFFICES ASSUME TypeOK, [Next]_vars PROVE TypeOK'
  OBVIOUS
<1>m. mode' = mode
  BY DEF Next, vars
<1> USE <1>m DEF TypeOK, disk, own, history, GoTo, NoFault, Running, Ended
<1>1. CASE UNCHANGED vars
  BY <1>1 DEF vars
<1>f. ASSUME NEW p \in Procs, NEW k \in Failures, Fault(p, k)
      PROVE  /\ faults' \in 0 .. MaxFaults
             /\ failed' \in [Procs -> SUBSET Failures]
             /\ crashes' = crashes
  BY <1>f DEF Fault
<1>k. "read" \in Failures /\ "drop" \in Failures /\ "call" \in Failures
  BY DEF Failures
<1>w. ASSUME NEW p \in Procs, NEW t \in Trees
      PROVE  [work EXCEPT ![p] = t] \in [Procs -> Trees]
  OBVIOUS
<1>2. ASSUME NEW p \in Procs, Mkdirs(p) PROVE TypeOK'
  <2>1. dirExists' \in BOOLEAN /\ dirExists'
    BY <1>2, Zenon DEF Mkdirs
  <2> QED BY <1>2, <2>1 DEF Mkdirs
<1>3. ASSUME NEW p \in Procs, MkdirsFail(p) \/ MkdtempFail(p) PROVE TypeOK'
  <2>1. GiveUp(p)
    BY <1>3 DEF MkdirsFail, MkdtempFail
  <2> QED BY <1>f, <1>k, <2>1 DEF GiveUp
<1>4. ASSUME NEW p \in Procs, Check(p) PROVE TypeOK'
  BY <1>4 DEF Check
<1>4f. ASSUME NEW p \in Procs, CheckFail(p) PROVE TypeOK'
  BY <1>f, <1>k, <1>4f DEF CheckFail
<1>5. ASSUME NEW p \in Procs, Mkdtemp(p) PROVE TypeOK'
  BY <1>5 DEF Mkdtemp
<1>6. ASSUME NEW p \in Procs, ExtractOk(p) PROVE TypeOK'
  BY <1>6, TreeTypes DEF ExtractOk
<1>6s. ASSUME NEW p \in Procs, ExtractShort(p) PROVE TypeOK'
  <2>1. PICK missing \in (SUBSET Files) \ {{}} :
           work' = [work EXCEPT ![p] =
                       [x \in Paths |-> IF x \in missing THEN "none" ELSE Extracted[x]]]
    BY <1>6s DEF ExtractShort
  <2>2. [x \in Paths |-> IF x \in missing THEN "none" ELSE Extracted[x]] \in Trees
    BY TreeTypes DEF Trees, Contents
  <2>3. work' \in [Procs -> Trees]
    BY <1>w, <2>1, <2>2
  <2> QED BY <1>6s, <1>f, <1>k, <2>3 DEF ExtractShort
<1>7. ASSUME NEW p \in Procs, ExtractFail(p) \/ RenameFail(p) PROVE TypeOK'
  BY <1>7, <1>f, <1>k DEF ExtractFail, RenameFail
<1>8. ASSUME NEW p \in Procs, StampOk(p) PROVE TypeOK'
  <2>1. [work[p] EXCEPT ![Stamp] = "full"] \in Trees
    BY TreeTypes DEF Contents
  <2> QED BY <1>8, <2>1 DEF StampOk
<1>9. ASSUME NEW p \in Procs, StampFail(p) PROVE TypeOK'
  <2>1. PICK c \in {"none", "part"} : work' = [work EXCEPT ![p][Stamp] = c]
    BY <1>9 DEF StampFail
  <2>2. [work[p] EXCEPT ![Stamp] = c] \in Trees
    BY TreeTypes DEF Contents
  <2>3. work' \in [Procs -> Trees]
    BY <2>1, <2>2
  <2> QED BY <1>9, <1>f, <1>k, <2>3 DEF StampFail
<1>10. ASSUME NEW p \in Procs, RemoveTree(p) PROVE TypeOK'
  BY <1>10 DEF RemoveTree
<1>10f. ASSUME NEW p \in Procs, RemoveTreeFail(p) \/ RmdirFail(p) PROVE TypeOK'
  BY <1>10f, <1>f, <1>k DEF RemoveTreeFail, RmdirFail
<1>11. ASSUME NEW p \in Procs, NEW x \in Paths, Unlink(p, x) PROVE TypeOK'
  <2>1. tree' \in Trees
    BY <1>11, TreeTypes DEF Unlink, Contents
  <2>2. ~dirExists => tree' = EmptyTree
    BY <1>11 DEF Unlink, EmptyTree
  <2> QED BY <1>11, <2>1, <2>2 DEF Unlink
<1>12. ASSUME NEW p \in Procs, NEW x \in Paths, UnlinkFail(p, x) PROVE TypeOK'
  BY <1>12, <1>f, <1>k DEF UnlinkFail
<1>13. ASSUME NEW p \in Procs, Rmdir(p) PROVE TypeOK'
  <2>1. dirExists' \in BOOLEAN /\ (~dirExists' => tree' = EmptyTree)
    BY <1>13, Zenon DEF Rmdir
  <2> QED BY <1>13, <2>1 DEF Rmdir
<1>14. ASSUME NEW p \in Procs, RenameOk(p) PROVE TypeOK'
  <2>1. dirExists' \in BOOLEAN /\ dirExists'
    BY <1>14, Zenon DEF RenameOk
  <2>2. work' \in [Procs -> Trees] /\ hasWork' \in [Procs -> BOOLEAN]
    BY <1>14, TreeTypes DEF RenameOk
  <2> QED BY <1>14, <2>1, <2>2 DEF RenameOk
<1>15. ASSUME NEW p \in Procs, RenameNotEmpty(p) PROVE TypeOK'
  BY <1>15 DEF RenameNotEmpty
<1>16. ASSUME NEW p \in Procs, DropWork(p) PROVE TypeOK'
  BY <1>16, TreeTypes DEF DropWork
<1>17. ASSUME NEW p \in Procs, DropWorkFail(p) PROVE TypeOK'
  BY <1>17, <1>f, <1>k, <1>w, TreeTypes DEF DropWorkFail
<1>18. ASSUME NEW p \in Procs, Crash(p) PROVE TypeOK'
  <2>1. work' \in [Procs -> Trees] /\ list' \in [Procs -> SUBSET Paths]
    BY <1>18, TreeTypes DEF Crash
  <2> QED BY <1>18, <2>1 DEF Crash
<1> QED
  BY <1>1, <1>2, <1>3, <1>4, <1>4f, <1>5, <1>6, <1>6s, <1>7, <1>8, <1>9, <1>10,
     <1>10f, <1>11, <1>12, <1>13, <1>14, <1>15, <1>16, <1>17, <1>18
     DEF Next, Step, AllEnded

\* Types hold in every state of every mode.
THEOREM TypeCorrect == Spec => []TypeOK
BY InitTypeOK, TypeStep, PTL DEF Spec

-----------------------------------------------------------------------------
(***************************************************************************)
(* What a step does to the history of failures.                            *)
(***************************************************************************)

\* A failure of a call is on record for good.
LEMMA FailuresStay ==
    ASSUME TypeOK, [Next]_vars
    PROVE  \A q \in Procs : failed[q] \subseteq failed'[q]
<1>1. CASE UNCHANGED failed
  BY <1>1
<1>2. ASSUME NEW p \in Procs, NEW k, Fault(p, k)
      PROVE  \A q \in Procs : failed[q] \subseteq failed'[q]
  BY <1>2 DEF Fault, TypeOK
<1>3. UNCHANGED failed \/ \E p \in Procs, k \in Failures : Fault(p, k)
  <2> USE DEF Failures
  <2>1. ASSUME NEW p \in Procs, Step(p)
        PROVE  UNCHANGED failed \/ \E k \in Failures : Fault(p, k)
    <3> USE DEF NoFault, history
    <3>1. CASE Check(p) \/ CheckFail(p) \/ Mkdtemp(p) \/ MkdtempFail(p)
      BY <3>1 DEF Check, CheckFail, Mkdtemp, MkdtempFail, GiveUp
    <3>2. CASE ExtractOk(p) \/ ExtractShort(p) \/ ExtractFail(p)
      BY <3>2 DEF ExtractOk, ExtractShort, ExtractFail
    <3>3. CASE StampOk(p) \/ StampFail(p) \/ RemoveTree(p) \/ RemoveTreeFail(p)
      BY <3>3 DEF StampOk, StampFail, RemoveTree, RemoveTreeFail
    <3>4. CASE \E x \in Paths : Unlink(p, x) \/ UnlinkFail(p, x)
      BY <3>4 DEF Unlink, UnlinkFail
    <3>5. CASE Rmdir(p) \/ RmdirFail(p) \/ DropWork(p) \/ DropWorkFail(p)
      BY <3>5 DEF Rmdir, RmdirFail, DropWork, DropWorkFail
    <3>6. CASE RenameOk(p) \/ RenameNotEmpty(p) \/ RenameFail(p)
      BY <3>6 DEF RenameOk, RenameNotEmpty, RenameFail
    <3> QED BY <2>1, <3>1, <3>2, <3>3, <3>4, <3>5, <3>6 DEF Step
  <2>2. ASSUME NEW p \in Procs, Mkdirs(p) \/ MkdirsFail(p) \/ Crash(p)
        PROVE  UNCHANGED failed \/ \E k \in Failures : Fault(p, k)
    BY <2>2 DEF Mkdirs, MkdirsFail, GiveUp, Crash, NoFault, history
  <2> QED BY <2>1, <2>2 DEF Next, AllEnded, vars
<1> QED BY <1>1, <1>2, <1>3

\* So is a read taken for the end of a file.
LEMMA MisreadStays == TypeOK /\ [Next]_vars /\ Misread => Misread'
BY FailuresStay DEF Misread

-----------------------------------------------------------------------------
(***************************************************************************)
(* A warm cache.                                                           *)
(***************************************************************************)

\* With a complete and stamped cache nobody gets past the check unless a read
\* of the stamp fails.
WarmInv ==
    /\ Usable
    /\ \A p \in Procs : pc[p] \in {"idle", "check"} \cup Ended

\* The cache the earlier invocation left is complete.
LEMMA WarmInit == mode.warm /\ Init => WarmInv
<1> SUFFICES ASSUME mode.warm, Init PROVE WarmInv
  OBVIOUS
<1>1. Usable
  BY DEF Init, Usable, Complete, Marked, Paths
<1> QED BY <1>1 DEF WarmInv, Init

\* Before the check only the directory is touched, and it exists.
LEMMA WarmStep == TypeOK /\ WarmInv /\ [Next]_vars => WarmInv' \/ Misread'
<1> SUFFICES ASSUME TypeOK, WarmInv, [Next]_vars PROVE WarmInv' \/ Misread'
  OBVIOUS
<1> USE DEF WarmInv, Ended
<1>2. CASE UNCHANGED vars
  BY <1>2 DEF vars, Usable, Complete, Marked
<1>3. ASSUME NEW p \in Procs, NEW l \in {"check", "ready", "null", "killed"},
             GoTo(p, l), dirExists', tree' = tree
      PROVE  WarmInv'
  <2>1. Usable'
    BY <1>3 DEF Usable, Complete, Marked
  <2>2. \A q \in Procs : pc'[q] \in {"idle", "check"} \cup Ended
    BY <1>3 DEF GoTo, TypeOK
  <2> QED BY <2>1, <2>2
<1>4. ASSUME NEW p \in Procs, Mkdirs(p) PROVE WarmInv'
  BY <1>3, <1>4 DEF Mkdirs
<1>5. ASSUME NEW p \in Procs, MkdirsFail(p) \/ MkdtempFail(p) PROVE WarmInv'
  BY <1>3, <1>5 DEF MkdirsFail, MkdtempFail, GiveUp, Usable, disk
<1>6. ASSUME NEW p \in Procs, Check(p) PROVE WarmInv'
  BY <1>3, <1>6 DEF Check, Usable, disk
<1>7. ASSUME NEW p \in Procs, CheckFail(p) PROVE Misread'
  BY <1>7 DEF CheckFail, Fault, Misread, TypeOK
<1>8. ASSUME NEW p \in Procs, Crash(p) PROVE WarmInv'
  BY <1>3, <1>8 DEF Crash, Usable, disk
<1>9. ASSUME NEW p \in Procs, Step(p) PROVE WarmInv' \/ Misread'
  <2>1. pc[p] \notin {"mkdtemp", "extract", "stamp", "remove_tree", "unlink", "rename", "drop"}
    OBVIOUS
  <2> QED
    BY <1>5, <1>6, <1>7, <1>9, <2>1 DEF Step, Mkdtemp, ExtractOk, ExtractShort, ExtractFail,
       StampOk, StampFail, RemoveTree, RemoveTreeFail, Unlink, UnlinkFail, Rmdir, RmdirFail,
       RenameOk, RenameNotEmpty, RenameFail, DropWork, DropWorkFail
<1> QED BY <1>2, <1>4, <1>5, <1>8, <1>9 DEF Next, AllEnded

\* A complete, stamped cache survives any number of concurrent invocations,
\* killed ones included, as long as the stamp can be read: ensure_cache then
\* never touches it.
THEOREM WarmCacheStays == Spec => []WarmStays
<1> DEFINE IfWarm == mode.warm /\ ~Misread => WarmInv
<1>1. Init => IfWarm
  BY WarmInit
<1>2. TypeOK /\ IfWarm /\ [Next]_vars => IfWarm'
  <2>1. [Next]_vars => mode' = mode
    BY DEF Next, vars
  <2> QED BY <2>1, WarmStep, MisreadStays
<1>3. IfWarm => WarmStays
  BY DEF WarmInv, WarmStays
<1> QED BY <1>1, <1>2, <1>3, TypeCorrect, PTL DEF Spec

-----------------------------------------------------------------------------
(***************************************************************************)
(* Any number of overlapping invocations.                                  *)
(***************************************************************************)

\* No temporary tree shows a half-written file once extract_tar is through, and
\* if no read of the archive failed it has every file of the blob.
WorkWhole ==
    \A p \in Procs :
        /\ \A f \in Files : work[p][f] # "part"
        /\ pc[p] \in {"stamp", "remove_tree", "unlink", "rename"} /\ "read" \notin failed[p]
               => Complete(work[p])

\* NoTempLeft, with the steps before mkdtemp.
TempOnlyAtWork ==
    \A p \in Procs :
        /\ pc[p] \in {"idle", "check", "mkdtemp", "ready"} => ~hasWork[p]
        /\ pc[p] = "null" /\ hasWork[p] => "drop" \in failed[p]

SharedInv == TypeOK /\ WorkWhole /\ TempOnlyAtWork /\ NeverHalfWritten

\* The cache starts without half-written files.
LEMMA SharedInit == Init => SharedInv
<1> SUFFICES ASSUME Init PROVE SharedInv
  OBVIOUS
<1>1. TypeOK
  BY InitTypeOK
<1>2. NeverHalfWritten
  BY DEF Init, NeverHalfWritten, Paths
<1>3. WorkWhole
  BY DEF Init, WorkWhole, EmptyTree, Paths
<1> QED BY <1>1, <1>2, <1>3 DEF Init, SharedInv, TempOnlyAtWork

\* Only a rename brings files into the cache, and what it brings is whole.
LEMMA SharedStep == SharedInv /\ [Next]_vars => SharedInv'
<1> SUFFICES ASSUME SharedInv, [Next]_vars PROVE SharedInv'
  OBVIOUS
<1>0. TypeOK /\ TypeOK' /\ WorkWhole /\ TempOnlyAtWork /\ NeverHalfWritten
  BY TypeStep DEF SharedInv
<1>m. \A q \in Procs : failed[q] \subseteq failed'[q]
  BY <1>0, FailuresStay
<1> DEFINE Rest == WorkWhole' /\ TempOnlyAtWork' /\ NeverHalfWritten'
<1> SUFFICES Rest
  BY <1>0 DEF SharedInv
<1> USE DEF WorkWhole, TempOnlyAtWork, NeverHalfWritten, disk, own, GoTo
<1>1. CASE UNCHANGED vars
  BY <1>0, <1>1 DEF vars, Complete
<1>e. \A f \in Files : EmptyTree[f] # "part"
  BY DEF EmptyTree, Paths
<1>2. ASSUME NEW p \in Procs, Mkdirs(p) PROVE Rest
  BY <1>0, <1>m, <1>2 DEF Mkdirs, MayStart, TypeOK
<1>3. ASSUME NEW p \in Procs, MkdirsFail(p) \/ MkdtempFail(p) PROVE Rest
  BY <1>0, <1>m, <1>3 DEF MkdirsFail, MkdtempFail, GiveUp, MayStart, TypeOK
<1>4. ASSUME NEW p \in Procs, Check(p) \/ CheckFail(p) PROVE Rest
  BY <1>0, <1>m, <1>4 DEF Check, CheckFail, TypeOK
<1>5. ASSUME NEW p \in Procs, Mkdtemp(p) PROVE Rest
  BY <1>0, <1>m, <1>5 DEF Mkdtemp, TypeOK
<1>6. ASSUME NEW p \in Procs, ExtractOk(p) PROVE Rest
  <2>1. Complete(Extracted) /\ \A f \in Files : Extracted[f] # "part"
    BY DEF Complete, Extracted, Paths
  <2> QED BY <1>0, <1>m, <1>6, <2>1 DEF ExtractOk, TypeOK
<1>6s. ASSUME NEW p \in Procs, ExtractShort(p) PROVE Rest
  <2>1. PICK missing \in (SUBSET Files) \ {{}} :
           work' = [work EXCEPT ![p] =
                       [x \in Paths |-> IF x \in missing THEN "none" ELSE Extracted[x]]]
    BY <1>6s DEF ExtractShort
  <2>2. \A f \in Files : work'[p][f] # "part"
    BY <1>0, <2>1 DEF TypeOK, Extracted, Paths
  <2>3. "read" \in failed'[p]
    BY <1>0, <1>6s DEF ExtractShort, Fault, TypeOK
  <2>4. \A q \in Procs \ {p} : work'[q] = work[q]
    BY <1>0, <2>1 DEF TypeOK
  <2>s. \A q \in Procs \ {p} : pc'[q] = pc[q]
    BY <1>0, <1>6s DEF ExtractShort, TypeOK
  <2>5. WorkWhole'
    <3> SUFFICES ASSUME NEW q \in Procs
                 PROVE  /\ \A f \in Files : work'[q][f] # "part"
                        /\ pc'[q] \in {"stamp", "remove_tree", "unlink", "rename"}
                           /\ "read" \notin failed'[q] => Complete(work'[q])
      BY DEF Complete
    <3>1. CASE q = p
      BY <2>2, <2>3, <3>1
    <3>2. CASE q # p
      BY <1>0, <1>m, <2>4, <2>s, <3>2
    <3> QED BY <3>1, <3>2
  <2> QED BY <1>0, <1>m, <1>6s, <2>5 DEF ExtractShort, TypeOK
<1>7. ASSUME NEW p \in Procs, ExtractFail(p) \/ RenameNotEmpty(p) \/ RenameFail(p) PROVE Rest
  BY <1>0, <1>m, <1>7 DEF ExtractFail, RenameNotEmpty, RenameFail, TypeOK
<1>8. ASSUME NEW p \in Procs, StampOk(p) \/ StampFail(p) PROVE Rest
  <2>1. PICK c \in Contents : work' = [work EXCEPT ![p][Stamp] = c]
    BY <1>8 DEF StampOk, StampFail, Contents
  <2>2. \A f \in Files : work'[p][f] = work[p][f]
    BY <1>0, <2>1 DEF TypeOK, Trees, Paths
  <2>3. \A q \in Procs \ {p} : work'[q] = work[q]
    BY <1>0, <2>1 DEF TypeOK
  <2>4. pc[p] = "stamp"
    BY <1>8 DEF StampOk, StampFail
  <2>5. WorkWhole'
    BY <1>0, <1>m, <1>8, <2>2, <2>3, <2>4 DEF StampOk, StampFail, TypeOK, Complete
  <2> QED BY <1>0, <1>m, <1>8, <2>5 DEF StampOk, StampFail, TypeOK
<1>9. ASSUME NEW p \in Procs, RemoveTree(p) \/ RemoveTreeFail(p) PROVE Rest
  BY <1>0, <1>m, <1>9 DEF RemoveTree, RemoveTreeFail, TypeOK
<1>10. ASSUME NEW p \in Procs, NEW x \in Paths, Unlink(p, x) \/ UnlinkFail(p, x) PROVE Rest
  <2>1. \A f \in Files : tree'[f] = tree[f] \/ tree'[f] = "none"
    BY <1>0, <1>10 DEF Unlink, UnlinkFail, TypeOK, Trees, Paths
  <2> QED BY <1>0, <1>m, <1>10, <2>1 DEF Unlink, UnlinkFail
<1>11. ASSUME NEW p \in Procs, Rmdir(p) \/ RmdirFail(p) PROVE Rest
  BY <1>0, <1>m, <1>11 DEF Rmdir, RmdirFail, TypeOK
<1>12. ASSUME NEW p \in Procs, RenameOk(p) PROVE Rest
  <2>1. NeverHalfWritten'
    BY <1>0, <1>12 DEF RenameOk
  <2>2. WorkWhole'
    BY <1>0, <1>m, <1>e, <1>12 DEF RenameOk, TypeOK
  <2> QED BY <1>0, <1>m, <1>12, <2>1, <2>2 DEF RenameOk, TypeOK
<1>13. ASSUME NEW p \in Procs, DropWork(p) \/ DropWorkFail(p) PROVE Rest
  <2>1. WorkWhole'
    BY <1>0, <1>m, <1>e, <1>13 DEF DropWork, DropWorkFail, TypeOK
  <2>2. DropWorkFail(p) => "drop" \in failed'[p]
    BY <1>0 DEF DropWorkFail, Fault, TypeOK
  <2>3. DropWork(p) => ~hasWork'[p]
    BY <1>0 DEF DropWork, TypeOK
  <2> QED BY <1>0, <1>m, <1>13, <2>1, <2>2, <2>3 DEF DropWork, DropWorkFail, TypeOK
<1>14. ASSUME NEW p \in Procs, Crash(p) PROVE Rest
  BY <1>0, <1>m, <1>e, <1>14 DEF Crash, TypeOK
<1> QED
  BY <1>1, <1>2, <1>3, <1>4, <1>5, <1>6, <1>6s, <1>7, <1>8, <1>9, <1>10, <1>11, <1>12,
     <1>13, <1>14 DEF Next, Step, AllEnded

\* SharedInv holds however the invocations overlap.
THEOREM SharedHolds == Spec => []SharedInv
BY SharedInit, SharedStep, PTL DEF Spec

\* The cache directory never shows a half-written file.
THEOREM NothingHalfWritten == Spec => []NeverHalfWritten
<1>1. SharedInv => NeverHalfWritten
  BY DEF SharedInv
<1> QED BY <1>1, SharedHolds, PTL

\* An invocation that returns leaves its temporary directory behind only when
\* it failed to remove it.
THEOREM TempLeftOnlyByFailedRemoval == Spec => []NoTempLeft
<1>1. SharedInv => NoTempLeft
  BY DEF SharedInv, TempOnlyAtWork, NoTempLeft
<1> QED BY <1>1, SharedHolds, PTL

-----------------------------------------------------------------------------
(***************************************************************************)
(* Invocations that do not overlap, with any number of them killed.        *)
(***************************************************************************)

\* The states past a check that found no stamp.
Working == {"mkdtemp", "extract", "stamp", "remove_tree", "unlink", "rename"}

\* One invocation runs at a time, and it works on an unstamped cache unless it
\* could not read the stamp.
Alone ==
    /\ \A p, q \in Procs : pc[p] \in Running /\ pc[q] \in Running => p = q
    /\ \A p \in Procs : pc[p] \in Working /\ "read" \notin failed[p] => ~Marked(tree)

\* If none of its calls failed, remove_tree has emptied the directory, so the
\* rename succeeds.
Emptied ==
    \A p \in Procs : failed[p] = {} =>
        /\ pc[p] = "unlink" => \A x \in Paths \ list[p] : tree[x] = "none"
        /\ pc[p] = "rename" => tree = EmptyTree
        /\ pc[p] \notin {"drop", "null"}

TrueUnlessMisread == ~Misread => StampTrue

SerialInv == SharedInv /\ Alone /\ Emptied /\ TrueUnlessMisread

\* The cache starts absent or complete and stamped.
LEMMA SerialInit == Init => SerialInv
<1> SUFFICES ASSUME Init PROVE SerialInv
  OBVIOUS
<1>1. SharedInv
  BY SharedInit
<1>2. StampTrue
  BY DEF Init, StampTrue, Marked, Complete, Paths
<1>3. \A p \in Procs : pc[p] = "idle"
  BY DEF Init
<1> QED
  BY <1>1, <1>2, <1>3 DEF SerialInv, Alone, Working, Running, Emptied, TrueUnlessMisread

\* Each step of the one running invocation keeps the invariant.
LEMMA SerialStep == mode.serial /\ SerialInv /\ [Next]_vars => SerialInv'
<1> SUFFICES ASSUME mode.serial, SerialInv, [Next]_vars PROVE SerialInv'
  OBVIOUS
<1>0. TypeOK /\ WorkWhole /\ Alone /\ Emptied /\ TrueUnlessMisread /\ SharedInv'
  BY SharedStep DEF SerialInv, SharedInv
<1>m. \A q \in Procs : failed[q] \subseteq failed'[q]
  BY <1>0, FailuresStay
<1>r. Misread => Misread'
  BY <1>0, MisreadStays
<1> DEFINE Rest == Alone' /\ Emptied' /\ TrueUnlessMisread'
<1> SUFFICES Rest
  BY <1>0 DEF SerialInv
<1> USE DEF Alone, Emptied, Working, Running, disk, own, history, GoTo, NoFault
<1>1. CASE UNCHANGED vars
  BY <1>0, <1>1 DEF vars, TrueUnlessMisread, Misread, StampTrue, Marked, Complete
<1>2. ASSUME tree' = tree PROVE TrueUnlessMisread' /\ Marked(tree)' = Marked(tree)
  BY <1>0, <1>r, <1>2 DEF TrueUnlessMisread, StampTrue, Marked, Complete
<1>f. ASSUME NEW p \in Procs, NEW k, Fault(p, k)
      PROVE  /\ k \in failed'[p]
             /\ \A q \in Procs \ {p} : failed'[q] = failed[q]
  BY <1>0, <1>f DEF Fault, TypeOK
<1>3. ASSUME NEW p \in Procs, Mkdirs(p) PROVE Rest
  BY <1>0, <1>2, <1>3 DEF Mkdirs, MayStart, TypeOK
<1>4. ASSUME NEW p \in Procs, MkdirsFail(p) PROVE Rest
  BY <1>0, <1>m, <1>f, <1>2, <1>4 DEF MkdirsFail, GiveUp, MayStart, TypeOK
<1>5. ASSUME NEW p \in Procs, MkdtempFail(p) PROVE Rest
  BY <1>0, <1>m, <1>f, <1>2, <1>5 DEF MkdtempFail, GiveUp, TypeOK
<1>6. ASSUME NEW p \in Procs, Check(p) PROVE Rest
  BY <1>0, <1>2, <1>6 DEF Check, TypeOK
<1>6f. ASSUME NEW p \in Procs, CheckFail(p) PROVE Rest
  BY <1>0, <1>m, <1>f, <1>2, <1>6f DEF CheckFail, TypeOK
<1>7. ASSUME NEW p \in Procs, Mkdtemp(p) PROVE Rest
  BY <1>0, <1>2, <1>7 DEF Mkdtemp, TypeOK
<1>8. ASSUME NEW p \in Procs, ExtractOk(p) PROVE Rest
  BY <1>0, <1>2, <1>8 DEF ExtractOk, TypeOK
<1>8s. ASSUME NEW p \in Procs, ExtractShort(p) PROVE Rest
  BY <1>0, <1>m, <1>f, <1>2, <1>8s DEF ExtractShort, TypeOK
<1>9. ASSUME NEW p \in Procs, ExtractFail(p) PROVE Rest
  BY <1>0, <1>m, <1>f, <1>2, <1>9 DEF ExtractFail, TypeOK
<1>10. ASSUME NEW p \in Procs, StampOk(p) PROVE Rest
  BY <1>0, <1>2, <1>10 DEF StampOk, TypeOK
<1>11. ASSUME NEW p \in Procs, StampFail(p) PROVE Rest
  BY <1>0, <1>m, <1>f, <1>2, <1>11 DEF StampFail, TypeOK
<1>12. ASSUME NEW p \in Procs, RemoveTree(p) PROVE Rest
  BY <1>0, <1>2, <1>12 DEF RemoveTree, TypeOK
<1>12f. ASSUME NEW p \in Procs, RemoveTreeFail(p) \/ RmdirFail(p) PROVE Rest
  BY <1>0, <1>m, <1>f, <1>2, <1>12f DEF RemoveTreeFail, RmdirFail, TypeOK
<1>13. ASSUME NEW p \in Procs, NEW x \in Paths, Unlink(p, x) PROVE Rest
  <2>1. "read" \notin failed[p] => ~Marked(tree)'
    BY <1>0, <1>13 DEF Unlink, Marked, TypeOK, Trees
  <2>2. \A y \in Paths : tree'[y] = IF y = x THEN "none" ELSE tree[y]
    BY <1>0, <1>13 DEF Unlink, TypeOK, Trees
  <2>3. TrueUnlessMisread'
    BY <1>r, <2>1 DEF TrueUnlessMisread, Misread, StampTrue
  <2>4. Alone'
    BY <1>0, <1>13, <2>1 DEF Unlink
  <2>5. Emptied'
    BY <1>0, <1>13, <2>2 DEF Unlink, TypeOK
  <2> QED BY <2>3, <2>4, <2>5
<1>14. ASSUME NEW p \in Procs, NEW x \in Paths, UnlinkFail(p, x) PROVE Rest
  BY <1>0, <1>m, <1>f, <1>2, <1>14 DEF UnlinkFail, TypeOK
<1>15. ASSUME NEW p \in Procs, Rmdir(p) PROVE Rest
  <2>1. failed[p] = {} => tree = EmptyTree
    BY <1>0, <1>15 DEF Rmdir, TypeOK, Trees, EmptyTree
  <2> QED BY <1>0, <1>2, <1>15, <2>1 DEF Rmdir, TypeOK
<1>16. ASSUME NEW p \in Procs, RenameOk(p) PROVE Rest
  <2>1. "read" \notin failed[p] => Complete(tree')
    BY <1>0, <1>16 DEF RenameOk, WorkWhole
  <2>2. \A q \in Procs : pc'[q] \notin Running
    BY <1>0, <1>16 DEF RenameOk, TypeOK
  <2>3. TrueUnlessMisread'
    BY <1>r, <2>1 DEF TrueUnlessMisread, Misread, StampTrue
  <2> QED BY <1>0, <1>16, <2>2, <2>3 DEF RenameOk, TypeOK
<1>17. ASSUME NEW p \in Procs, RenameNotEmpty(p) PROVE Rest
  BY <1>0, <1>2, <1>17 DEF RenameNotEmpty, TypeOK
<1>18. ASSUME NEW p \in Procs, RenameFail(p) PROVE Rest
  BY <1>0, <1>m, <1>f, <1>2, <1>18 DEF RenameFail, TypeOK
<1>19. ASSUME NEW p \in Procs, DropWork(p) PROVE Rest
  BY <1>0, <1>2, <1>19 DEF DropWork, TypeOK
<1>20. ASSUME NEW p \in Procs, DropWorkFail(p) PROVE Rest
  BY <1>0, <1>m, <1>f, <1>2, <1>20 DEF DropWorkFail, TypeOK
<1>21. ASSUME NEW p \in Procs, Crash(p) PROVE Rest
  BY <1>0, <1>2, <1>21 DEF Crash, TypeOK
<1> QED
  BY <1>1, <1>3, <1>4, <1>5, <1>6, <1>6f, <1>7, <1>8, <1>8s, <1>9, <1>10, <1>11, <1>12,
     <1>12f, <1>13, <1>14, <1>15, <1>16, <1>17, <1>18, <1>19, <1>20, <1>21
     DEF Next, Step, AllEnded

\* SerialInv holds when invocations do not overlap.
THEOREM SerialHolds == Spec => [](mode.serial => SerialInv)
<1> DEFINE IfSerial == mode.serial => SerialInv
<1>1. Init => IfSerial
  BY SerialInit
<1>2. IfSerial /\ [Next]_vars => IfSerial'
  <2>1. [Next]_vars => mode' = mode
    BY DEF Next, vars
  <2> QED BY <2>1, SerialStep
<1> QED BY <1>1, <1>2, PTL DEF Spec

\* Without overlap the stamp tells the truth after any sequence of killed
\* invocations and of failed calls the code can see; only a read that fails
\* silently can make it lie.
THEOREM StampTellsTruth == Spec => []MarkedMeansComplete
<1>1. (mode.serial => SerialInv) => MarkedMeansComplete
  BY DEF SerialInv, TrueUnlessMisread, MarkedMeansComplete
<1> QED BY <1>1, SerialHolds, PTL

\* Without overlap ensure_cache fails only when a call of its own failed: no
\* leftover of a killed or failed invocation makes the rename fail.
THEOREM NullOnlyOnFault == Spec => []FailsOnlyOnFault
<1>1. (mode.serial => SerialInv) => FailsOnlyOnFault
  BY DEF SerialInv, Emptied, FailsOnlyOnFault, NullsFaulted
<1> QED BY <1>1, SerialHolds, PTL

\* Without overlap and silent reads the directory ensure_cache returns is
\* complete.
THEOREM ReturnedCacheComplete == Spec => ReturnsComplete
<1>1. ASSUME SerialInv, ~Misread, [Next]_vars,
             NEW p \in Procs, pc[p] # "ready", pc'[p] = "ready"
      PROVE  dirExists' /\ Complete(tree')
  <2>0. TypeOK /\ TypeOK' /\ WorkWhole /\ StampTrue
    BY <1>1, TypeStep DEF SerialInv, SharedInv, TrueUnlessMisread
  <2>1. ASSUME NEW q \in Procs, NEW l, GoTo(q, l), l # "ready" PROVE FALSE
    BY <1>1, <2>0, <2>1 DEF GoTo, TypeOK
  <2>2. CASE UNCHANGED pc
    BY <1>1, <2>2
  <2>3. ASSUME NEW q \in Procs, RenameOk(q) PROVE dirExists' /\ Complete(tree')
    BY <1>1, <2>0, <2>3 DEF RenameOk, WorkWhole, Misread
  <2>4. ASSUME NEW q \in Procs, Check(q) PROVE dirExists' /\ Complete(tree')
    <3>1. Marked(tree)
      BY <2>1, <2>4 DEF Check
    <3>2. dirExists
      BY <2>0, <3>1 DEF TypeOK, Marked, EmptyTree, Paths
    <3> QED BY <2>0, <2>4, <3>1, <3>2 DEF Check, disk, StampTrue
  <2>5. ASSUME NEW q \in Procs, Mkdirs(q) \/ MkdirsFail(q) \/ Crash(q) PROVE FALSE
    BY <2>1, <2>5 DEF Mkdirs, MkdirsFail, GiveUp, Crash
  <2>6. ASSUME NEW q \in Procs, Step(q) PROVE dirExists' /\ Complete(tree')
    BY <2>1, <2>2, <2>3, <2>4, <2>6 DEF Step, CheckFail, Mkdtemp, MkdtempFail, GiveUp,
       ExtractOk, ExtractShort, ExtractFail, StampOk, StampFail, RemoveTree, RemoveTreeFail,
       Unlink, UnlinkFail, Rmdir, RmdirFail, RenameNotEmpty, RenameFail, DropWork,
       DropWorkFail
  <2> QED BY <1>1, <2>2, <2>5, <2>6 DEF Next, AllEnded, vars
<1>2. (mode.serial => SerialInv) /\ [Next]_vars =>
         [\A p \in Procs : (mode.serial /\ ~Misread /\ pc[p] # "ready" /\ pc'[p] = "ready")
                              => dirExists' /\ Complete(tree')]_vars
  BY <1>1
<1> QED BY <1>2, SerialHolds, PTL DEF Spec, ReturnsComplete
=============================================================================
