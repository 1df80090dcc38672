--------------------------- MODULE FileLeaseProofs ---------------------------
(***************************************************************************)
(* FileLease for any number of processes and acquisitions: the types, and  *)
(* exclusion as long as no process dies.                                   *)
(***************************************************************************)
EXTENDS FileLease, TLAPS

\* A process in the acquire loop has begun an acquisition.
Begun == \A p \in Procs : pc[p] \notin {"idle", "dead"} => acquires[p] \in 1..MaxAcquires

TypeInv == TypeOK /\ Begun

LEMMA NoneIsNoInode == \A i \in Inodes : i # None
<1>1. SUFFICES ASSUME NEW p \in Procs, NEW n \in 1..MaxAcquires
               PROVE  <<p, n>> # <<>>
  BY DEF Inodes, None
<1> QED OBVIOUS

LEMMA TypeInit == Init => TypeInv
BY MaxAcquiresAssumption, MaxCrashesAssumption
DEF Init, TypeInv, TypeOK, Begun, Phases, InProtocol, None

\* Every operation keeps the types.
LEMMA TypeStep == TypeInv /\ [Next]_vars => TypeInv'
<1> SUFFICES ASSUME TypeInv, [Next]_vars PROVE TypeInv'
  OBVIOUS
<1> USE MaxAcquiresAssumption, MaxCrashesAssumption
    DEF TypeInv, TypeOK, Begun, Phases, InProtocol, fileVars
<1>1. ASSUME NEW p \in Procs, Acquire(p) PROVE TypeInv'
  BY <1>1 DEF Acquire
<1>2. ASSUME NEW p \in Procs, AcquireAborts(p) PROVE TypeInv'
  BY <1>2 DEF AcquireAborts
<1>3. ASSUME NEW p \in Procs, OpenCreates(p) PROVE TypeInv'
  <2>1. path' \in Inodes
    BY <1>3 DEF OpenCreates, Inodes
  <2> QED BY <1>3, <2>1, NoneIsNoInode DEF OpenCreates
<1>4. ASSUME NEW p \in Procs, OpenExists(p) PROVE TypeInv'
  BY <1>4 DEF OpenExists
<1>5. ASSUME NEW p \in Procs, WriteBody(p) PROVE TypeInv'
  BY <1>5 DEF WriteBody
<1>6. ASSUME NEW p \in Procs, WriteFails(p) PROVE TypeInv'
  BY <1>6 DEF WriteFails
<1>7. ASSUME NEW p \in Procs, Stat(p) PROVE TypeInv'
  <2>1. statOld' \in [Procs -> BOOLEAN]
    BY <1>7 DEF Stat
  <2>2. /\ pc' \in [Procs -> Phases]
        /\ \A q \in Procs : /\ InProtocol(q)' <=> InProtocol(q)
                            /\ pc'[q] = "dead" <=> pc[q] = "dead"
                            /\ pc'[q] = "create" => pc[q] = "create" \/ q = p
    BY <1>7 DEF Stat
  <2> QED BY <1>7, <2>1, <2>2 DEF Stat
<1>8. ASSUME NEW p \in Procs, ReadInfo(p) PROVE TypeInv'
  <2>1. seen' \in [Procs -> Inodes \cup {None}]
    BY <1>8 DEF ReadInfo, BodyToken
  <2>2. /\ pc' \in [Procs -> Phases]
        /\ \A q \in Procs : /\ InProtocol(q)' <=> InProtocol(q)
                            /\ pc'[q] = "dead" <=> pc[q] = "dead"
                            /\ pc'[q] = "create" => pc[q] = "create" \/ q = p
    BY <1>8 DEF ReadInfo
  <2> QED BY <1>8, <2>1, <2>2 DEF ReadInfo
<1>9. ASSUME NEW p \in Procs, Rename(p) PROVE TypeInv'
  <2>1. grave' \in [Procs -> Inodes \cup {None}]
    BY <1>9 DEF Rename
  <2>2. /\ pc' \in [Procs -> Phases]
        /\ \A q \in Procs : /\ InProtocol(q)' <=> InProtocol(q)
                            /\ pc'[q] = "dead" <=> pc[q] = "dead"
                            /\ pc'[q] = "create" => pc[q] = "create" \/ q = p
    BY <1>9 DEF Rename
  <2> QED BY <1>9, <2>1, <2>2 DEF Rename
<1>10. ASSUME NEW p \in Procs, Inspect(p) PROVE TypeInv'
  BY <1>10 DEF Inspect
<1>11. ASSUME NEW p \in Procs, PutBack(p) PROVE TypeInv'
  BY <1>11 DEF PutBack
<1>12. ASSUME NEW p \in Procs, Bury(p) PROVE TypeInv'
  <2>1. grave' \in [Procs -> Inodes \cup {None}]
    BY <1>12 DEF Bury
  <2>2. /\ pc' \in [Procs -> Phases]
        /\ \A q \in Procs : /\ InProtocol(q)' <=> InProtocol(q)
                            /\ pc'[q] = "dead" <=> pc[q] = "dead"
                            /\ pc'[q] = "create" => pc[q] = "create" \/ q = p
    BY <1>12 DEF Bury
  <2> QED BY <1>12, <2>1, <2>2 DEF Bury
<1>13. ASSUME NEW p \in Procs, BeatChecks(p) PROVE TypeInv'
  BY <1>13 DEF BeatChecks
<1>14. ASSUME NEW p \in Procs, BeatBumps(p) PROVE TypeInv'
  BY <1>14 DEF BeatBumps
<1>15. ASSUME NEW p \in Procs, Release(p) PROVE TypeInv'
  BY <1>15 DEF Release, Holds
<1>16. ASSUME NEW p \in Procs, ReleaseChecks(p) PROVE TypeInv'
  BY <1>16 DEF ReleaseChecks
<1>17. ASSUME NEW p \in Procs, ReleaseUnlinks(p) PROVE TypeInv'
  BY <1>17 DEF ReleaseUnlinks
<1>18. ASSUME NEW i \in Inodes, Ages(i) PROVE TypeInv'
  BY <1>18 DEF Ages
<1>19. ASSUME NEW p \in Procs, Crash(p) PROVE TypeInv'
  BY <1>19 DEF Crash
<1>20. CASE UNCHANGED vars
  BY <1>20 DEF vars
<1> QED
  BY <1>1, <1>2, <1>3, <1>4, <1>5, <1>6, <1>7, <1>8, <1>9, <1>10, <1>11, <1>12,
     <1>13, <1>14, <1>15, <1>16, <1>17, <1>18, <1>19, <1>20 DEF Next, Step

\* Every reachable state has the types of TypeOK: in particular a live process
\* carries a token exactly from its open to the end of its release
\* (FileLease.js _tryCreate, release).
THEOREM TypeCorrect == Spec => []TypeOK
<1>1. TypeInv => TypeOK
  BY DEF TypeInv
<1> QED BY <1>1, TypeInit, TypeStep, PTL DEF Spec

-----------------------------------------------------------------------------
\* While nobody dies, the file under the path is the lease of the one process
\* that created it and has not released it; nothing is stale, nobody steals.
Calm ==
  /\ old = {}
  /\ \A p \in Procs :
       /\ pc[p] \notin {"dead", "rename", "inspect", "putback", "bury"}
       /\ ~statOld[p]
       /\ InProtocol(p) => path = mine[p]
       /\ InProtocol(p) /\ pc[p] # "write" => mine[p] \in written
  /\ \A p, q \in Procs : InProtocol(p) /\ InProtocol(q) => p = q
  /\ path # None => \E p \in Procs : InProtocol(p) /\ path = mine[p]
  /\ path # None => path \in Inodes /\ Owner(path) \in Procs
                    /\ mine[Owner(path)] = path

CalmInv == TypeInv /\ (crashes = 0 => Calm)

LEMMA CalmInit == Init => CalmInv
<1> SUFFICES ASSUME Init PROVE CalmInv
  OBVIOUS
<1>1. TypeInv
  BY TypeInit
<1>2. Calm
  BY DEF Init, Calm, InProtocol
<1> QED BY <1>1, <1>2 DEF CalmInv

\* The dead stay dead.
LEMMA CrashesGrow ==
  ASSUME TypeInv, [Next]_vars, crashes' = 0
  PROVE  crashes = 0
BY MaxCrashesAssumption
DEF TypeInv, TypeOK, Next, Step, vars, fileVars, Acquire, AcquireAborts, OpenCreates,
    OpenExists, WriteBody, WriteFails, Stat, ReadInfo, Rename, Inspect, PutBack,
    Bury, BeatChecks, BeatBumps, Release, ReleaseChecks, ReleaseUnlinks, Ages, Crash

\* While nobody dies, no step makes anything stale or anyone share the lease.
LEMMA CalmStep == CalmInv /\ [Next]_vars => CalmInv'
<1> SUFFICES ASSUME CalmInv, [Next]_vars, crashes' = 0 PROVE Calm'
  BY TypeStep DEF CalmInv
<1>0. TypeInv /\ Calm /\ crashes = 0
  BY CrashesGrow DEF CalmInv
<1> USE <1>0 DEF TypeInv, TypeOK, Calm, InProtocol, fileVars
<1>1. ASSUME NEW p \in Procs, Acquire(p) PROVE Calm'
  BY <1>1 DEF Acquire
<1>2. ASSUME NEW p \in Procs, AcquireAborts(p) PROVE Calm'
  BY <1>2 DEF AcquireAborts
<1>3. ASSUME NEW p \in Procs, OpenCreates(p) PROVE Calm'
  <2>1. \A q \in Procs : ~InProtocol(q)
    BY <1>3 DEF OpenCreates
  <2>2. path' \in Inodes /\ Owner(path') = p
    BY <1>3 DEF OpenCreates, Inodes, Owner, Begun
  <2>3. mine' = [mine EXCEPT ![p] = path'] /\ pc' = [pc EXCEPT ![p] = "write"]
    BY <1>3 DEF OpenCreates
  <2>4. old' = {} /\ \A q \in Procs : ~statOld'[q]
    BY <1>3 DEF OpenCreates
  <2> QED BY <2>1, <2>2, <2>3, <2>4
<1>4. ASSUME NEW p \in Procs, OpenExists(p) PROVE Calm'
  BY <1>4 DEF OpenExists
<1>5. ASSUME NEW p \in Procs, WriteBody(p) PROVE Calm'
  BY <1>5 DEF WriteBody
<1>6. ASSUME NEW p \in Procs, WriteFails(p) PROVE Calm'
  BY <1>6 DEF WriteFails
<1>7. ASSUME NEW p \in Procs, Stat(p) PROVE Calm'
  BY <1>7 DEF Stat
<1>8. ASSUME NEW p \in Procs, ReadInfo(p) PROVE Calm'
  <2>1. ~IsStale(p, BodyToken)
    BY DEF IsStale, BodyToken
  <2> QED BY <1>8, <2>1 DEF ReadInfo
<1>9. ASSUME NEW p \in Procs, Rename(p) PROVE Calm'
  BY <1>9 DEF Rename
<1>10. ASSUME NEW p \in Procs, Inspect(p) PROVE Calm'
  BY <1>10 DEF Inspect
<1>11. ASSUME NEW p \in Procs, PutBack(p) PROVE Calm'
  BY <1>11 DEF PutBack
<1>12. ASSUME NEW p \in Procs, Bury(p) PROVE Calm'
  BY <1>12 DEF Bury
<1>13. ASSUME NEW p \in Procs, BeatChecks(p) PROVE Calm'
  BY <1>13 DEF BeatChecks
<1>14. ASSUME NEW p \in Procs, BeatBumps(p) PROVE Calm'
  BY <1>14 DEF BeatBumps
<1>15. ASSUME NEW p \in Procs, Release(p) PROVE Calm'
  BY <1>15 DEF Release, Holds
<1>16. ASSUME NEW p \in Procs, ReleaseChecks(p) PROVE Calm'
  \* The body was written when the lease was acquired, so the token matches.
  <2>1. TokenIsMine(p)
    BY <1>16 DEF ReleaseChecks, TokenIsMine, BodyToken
  <2> QED BY <1>16, <2>1 DEF ReleaseChecks
<1>17. ASSUME NEW p \in Procs, ReleaseUnlinks(p) PROVE Calm'
  BY <1>17 DEF ReleaseUnlinks
<1>18. ASSUME NEW i \in Inodes, Ages(i) PROVE Calm'
  BY <1>18, NoneIsNoInode DEF Ages, Abandoned
<1>19. ASSUME NEW p \in Procs, Crash(p) PROVE Calm'
  BY <1>0, <1>19 DEF Crash
<1>20. CASE UNCHANGED vars
  BY <1>20 DEF vars
<1> QED
  BY <1>1, <1>2, <1>3, <1>4, <1>5, <1>6, <1>7, <1>8, <1>9, <1>10, <1>11, <1>12,
     <1>13, <1>14, <1>15, <1>16, <1>17, <1>18, <1>19, <1>20 DEF Next, Step

\* As long as no process dies, the file operations of any number of processes
\* never let two of them hold the lease: exclusion is the create-exclusive
\* open, and no race of reads, heartbeats and releases weakens it
\* (FileLease.js "one at a time").
THEOREM CalmExclusion == Spec => []MutualExclusion
<1>1. CalmInv => MutualExclusion
  BY DEF CalmInv, Calm, MutualExclusion, InProtocol, Holds
<1>2. CalmInv /\ [Next]_vars => CalmInv'
  BY CalmStep
<1> QED BY <1>1, <1>2, CalmInit, PTL DEF Spec
=============================================================================
