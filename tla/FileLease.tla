------------------------------ MODULE FileLease ------------------------------
(***************************************************************************)
(* The lease file that lets the worker processes of one host run a         *)
(* critical section (the backup chain) one at a time.                      *)
(*   Backend/src/utils/locks/FileLease.js                                  *)
(*                                                                         *)
(* Every await on the file system is a point where other processes run, so *)
(* each file operation is an action.  A lease file is an inode: it keeps   *)
(* its body and its age when it is renamed.  An acquisition creates at     *)
(* most one file, so <<process, acquisition>> names the inode, the pid and *)
(* the random token of its body.  An inode is "old" once its mtime is more *)
(* than staleMs in the past.                                               *)
(***************************************************************************)
EXTENDS Naturals

CONSTANTS
  Procs,        \* worker processes
  MaxAcquires,  \* bound: acquisitions begun by each process
  MaxCrashes    \* bound: processes that die

ASSUME MaxAcquiresAssumption == MaxAcquires \in Nat
ASSUME MaxCrashesAssumption  == MaxCrashes \in Nat

None   == <<>>
Inodes == Procs \X (1..MaxAcquires)

Owner(i) == i[1]

VARIABLES
  path,       \* inode under the lease path, None when there is no file
  written,    \* inodes whose body has been written
  old,        \* inodes whose mtime is past staleMs
  crashes,    \* processes dead so far
  pc,         \* where each process is in acquire / release
  mine,       \* the token a process acquired and has not given up
  statOld,    \* the stat of the last poll was past staleMs
  seen,       \* token of the body read at the last poll, None for null
  grave,      \* inode this process renamed away
  beat,       \* a heartbeat has checked the token and is about to bump
  acquires    \* acquisitions begun

fileVars == <<path, written, old>>
vars     == <<fileVars, crashes, pc, mine, statOld, seen, grave, beat, acquires>>

Phases == {"idle", "create", "write", "stat", "read", "rename", "inspect",
           "putback", "bury", "held", "releasing", "unlink", "dead"}

\* The body at the path, as _readInfo returns it: null while it is unwritten.
BodyToken == IF path \in written THEN path ELSE None

Holds(p) == pc[p] = "held"

InProtocol(p) == pc[p] \in {"write", "held", "releasing", "unlink"}

\* Deviation: only a dead pid makes a lease stale.
IsStaleDeadOnly(p, token) ==
  token # None /\ pc[Owner(token)] = "dead"

\* _isStale: past staleMs, or the pid in the body is dead.
IsStale(p, token) ==
  statOld[p] \/ (token # None /\ pc[Owner(token)] = "dead")

Init ==
  /\ path = None /\ written = {} /\ old = {} /\ crashes = 0
  /\ pc = [p \in Procs |-> "idle"]
  /\ mine = [p \in Procs |-> None]
  /\ statOld = [p \in Procs |-> FALSE]
  /\ seen = [p \in Procs |-> None]
  /\ grave = [p \in Procs |-> None]
  /\ beat = [p \in Procs |-> FALSE]
  /\ acquires = [p \in Procs |-> 0]

-----------------------------------------------------------------------------
(* acquire                                                                 *)

Acquire(p) ==
  /\ pc[p] = "idle" /\ acquires[p] < MaxAcquires
  /\ acquires' = [acquires EXCEPT ![p] = @ + 1]
  /\ pc' = [pc EXCEPT ![p] = "create"]
  /\ UNCHANGED <<fileVars, crashes, mine, statOld, seen, grave, beat>>

\* The waiting scope was aborted: acquire throws.
AcquireAborts(p) ==
  /\ pc[p] = "create"
  /\ pc' = [pc EXCEPT ![p] = "idle"]
  /\ UNCHANGED <<fileVars, crashes, mine, statOld, seen, grave, beat, acquires>>

\* Deviation: open(path, "w") succeeds on a file that is there.
OpenCreatesAnyway(p) ==
  /\ pc[p] = "create"
  /\ path' = <<p, acquires[p]>>
  /\ mine' = [mine EXCEPT ![p] = path']
  /\ pc' = [pc EXCEPT ![p] = "write"]
  /\ UNCHANGED <<written, old, crashes, statOld, seen, grave, beat, acquires>>

\* open(path, "wx") creates the file, still empty.
OpenCreates(p) ==
  /\ pc[p] = "create" /\ path = None
  /\ path' = <<p, acquires[p]>>
  /\ mine' = [mine EXCEPT ![p] = path']
  /\ pc' = [pc EXCEPT ![p] = "write"]
  /\ UNCHANGED <<written, old, crashes, statOld, seen, grave, beat, acquires>>

OpenExists(p) ==
  /\ pc[p] = "create" /\ path # None
  /\ pc' = [pc EXCEPT ![p] = "stat"]
  /\ UNCHANGED <<fileVars, crashes, mine, statOld, seen, grave, beat, acquires>>

\* The body goes to the open handle, wherever the file has been renamed to.
WriteBody(p) ==
  /\ pc[p] = "write"
  /\ written' = written \cup {mine[p]}
  /\ old' = old \ {mine[p]}
  /\ pc' = [pc EXCEPT ![p] = "held"]
  /\ UNCHANGED <<path, crashes, mine, statOld, seen, grave,
                 beat, acquires>>

\* The write fails: the path is unlinked and acquire throws.
WriteFails(p) ==
  /\ pc[p] = "write"
  /\ path' = None
  /\ mine' = [mine EXCEPT ![p] = None]
  /\ pc' = [pc EXCEPT ![p] = "idle"]
  /\ UNCHANGED <<written, old, crashes, statOld, seen, grave,
                 beat, acquires>>

Stat(p) ==
  /\ pc[p] = "stat"
  /\ statOld' = [statOld EXCEPT ![p] = path \in old]
  /\ pc' = [pc EXCEPT ![p] = IF path = None THEN "create" ELSE "read"]
  /\ UNCHANGED <<fileVars, crashes, mine, seen, grave, beat, acquires>>

\* _readInfo, then _isStale: steal at once, or poll again later.
ReadInfo(p) ==
  /\ pc[p] = "read"
  /\ seen' = [seen EXCEPT ![p] = BodyToken]
  /\ pc' = [pc EXCEPT ![p] = IF IsStale(p, BodyToken) THEN "rename" ELSE "create"]
  /\ UNCHANGED <<fileVars, crashes, mine, statOld, grave, beat, acquires>>

-----------------------------------------------------------------------------
(* _steal                                                                  *)

Rename(p) ==
  /\ pc[p] = "rename"
  /\ path' = None
  /\ grave' = [grave EXCEPT ![p] = path]
  /\ pc' = [pc EXCEPT ![p] = IF path = None THEN "create" ELSE "inspect"]
  /\ UNCHANGED <<written, old, crashes, mine, statOld, seen,
                 beat, acquires>>

\* The moved file carries a token, and not the one observed.
MovedAnother(p) ==
  seen[p] # None /\ grave[p] \in written /\ grave[p] # seen[p]

Inspect(p) ==
  /\ pc[p] = "inspect"
  /\ pc' = [pc EXCEPT ![p] = IF MovedAnother(p) THEN "putback" ELSE "bury"]
  /\ UNCHANGED <<fileVars, crashes, mine, statOld, seen, grave, beat, acquires>>

\* link(graveyard, path), refused when the path is taken again.
PutBack(p) ==
  /\ pc[p] = "putback"
  /\ path' = IF path = None THEN grave[p] ELSE path
  /\ pc' = [pc EXCEPT ![p] = "bury"]
  /\ UNCHANGED <<written, old, crashes, mine, statOld, seen,
                 grave, beat, acquires>>

\* unlink(graveyard); a linked-back file keeps its other name.
Bury(p) ==
  /\ pc[p] = "bury"
  /\ grave' = [grave EXCEPT ![p] = None]
  /\ pc' = [pc EXCEPT ![p] = "create"]
  /\ UNCHANGED <<fileVars, crashes, mine, statOld, seen, beat, acquires>>

-----------------------------------------------------------------------------
(* heartbeat and release                                                   *)

\* _beat: the scope progressed; the token at the path is still ours.
BeatChecks(p) ==
  /\ Holds(p) /\ ~beat[p] /\ BodyToken = mine[p]
  /\ beat' = [beat EXCEPT ![p] = TRUE]
  /\ UNCHANGED <<fileVars, crashes, pc, mine, statOld, seen, grave, acquires>>

\* utimes(path): whatever file is there is young again.
BeatBumps(p) ==
  /\ beat[p] /\ pc[p] # "dead"
  /\ beat' = [beat EXCEPT ![p] = FALSE]
  /\ old' = old \ {path}
  /\ UNCHANGED <<path, written, crashes, pc, mine, statOld,
                 seen, grave, acquires>>

Release(p) ==
  /\ Holds(p)
  /\ pc' = [pc EXCEPT ![p] = "releasing"]
  /\ UNCHANGED <<fileVars, crashes, mine, statOld, seen, grave, beat, acquires>>

TokenIsMine(p) == BodyToken = mine[p]

\* release reads the file and goes on only if the token is its own.
ReleaseChecks(p) ==
  /\ pc[p] = "releasing"
  /\ pc' = [pc EXCEPT ![p] = IF TokenIsMine(p) THEN "unlink" ELSE "idle"]
  /\ mine' = [mine EXCEPT ![p] = IF TokenIsMine(p) THEN @ ELSE None]
  /\ UNCHANGED <<fileVars, crashes, statOld, seen, grave, beat, acquires>>

\* Deviation: the token outlives the release.
ReleaseUnlinksKeepsToken(p) ==
  /\ pc[p] = "unlink"
  /\ path' = None
  /\ pc' = [pc EXCEPT ![p] = "idle"]
  /\ UNCHANGED <<written, old, crashes, mine, statOld, seen,
                 grave, beat, acquires>>

ReleaseUnlinks(p) ==
  /\ pc[p] = "unlink"
  /\ path' = None
  /\ mine' = [mine EXCEPT ![p] = None]
  /\ pc' = [pc EXCEPT ![p] = "idle"]
  /\ UNCHANGED <<written, old, crashes, statOld, seen, grave,
                 beat, acquires>>

-----------------------------------------------------------------------------
(* time and crashes                                                        *)

\* No live process holds i.  staleMs exceeds the holder's idle limit
\* (FileLease.js), so a lease that a process holds does not grow old.
Abandoned(i) == pc[Owner(i)] = "dead" \/ mine[Owner(i)] # i

Ages(i) ==
  /\ i = path /\ i \notin old /\ Abandoned(i)
  /\ old' = old \cup {i}
  /\ UNCHANGED <<path, written, crashes, pc, mine, statOld,
                 seen, grave, beat, acquires>>

Crash(p) ==
  /\ crashes < MaxCrashes /\ pc[p] # "dead"
  /\ crashes' = crashes + 1
  /\ pc' = [pc EXCEPT ![p] = "dead"]
  /\ UNCHANGED <<fileVars, mine, statOld, seen, grave, beat, acquires>>

Step(p) ==
  \/ OpenCreates(p) \/ OpenExists(p) \/ WriteBody(p) \/ WriteFails(p)
  \/ Stat(p) \/ ReadInfo(p) \/ Rename(p) \/ Inspect(p) \/ PutBack(p)
  \/ Bury(p) \/ ReleaseChecks(p) \/ ReleaseUnlinks(p)

Next ==
  \/ \E p \in Procs :
       \/ Acquire(p) \/ AcquireAborts(p) \/ Step(p) \/ Release(p)
       \/ BeatChecks(p) \/ BeatBumps(p) \/ Crash(p)
  \/ \E i \in Inodes : Ages(i)

Spec == Init /\ [][Next]_vars

\* A process goes on with its file operations, a holder ends its work, and
\* the clock does not stop for an abandoned lease.
Fairness ==
  /\ \A p \in Procs : WF_vars(Step(p)) /\ WF_vars(Release(p))
  /\ \A i \in Inodes : WF_vars(Ages(i))

FairSpec == Spec /\ Fairness

-----------------------------------------------------------------------------
(* Properties.                                                             *)

\* The variables keep their types, and a live process carries a token exactly
\* from the open to the end of the release.
TypeOK ==
  /\ path \in Inodes \cup {None}
  /\ written \subseteq Inodes /\ old \subseteq Inodes
  /\ pc \in [Procs -> Phases]
  /\ mine \in [Procs -> Inodes \cup {None}]
  /\ seen \in [Procs -> Inodes \cup {None}]
  /\ grave \in [Procs -> Inodes \cup {None}]
  /\ statOld \in [Procs -> BOOLEAN] /\ beat \in [Procs -> BOOLEAN]
  /\ acquires \in [Procs -> 0..MaxAcquires] /\ crashes \in 0..MaxCrashes
  /\ \A p \in Procs : pc[p] # "dead" => (mine[p] # None <=> InProtocol(p))

\* "Run a critical section one at a time" (FileLease.js): while no process has
\* died, there are never two holders.  After a death two stealers may race,
\* which the header of FileLease.js admits.
MutualExclusion ==
  crashes = 0 => \A p, q \in Procs : Holds(p) /\ Holds(q) => p = q

\* A crashed or evicted holder blocks nobody for ever: each waiter is served,
\* gives up, or dies.
WaiterServed ==
  \A p \in Procs : pc[p] = "create" ~> pc[p] \in {"held", "idle", "dead"}
=============================================================================
