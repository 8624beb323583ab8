------------------------------ MODULE WriterLock ------------------------------
(***************************************************************************)
(* The writer lock of the journal folder, runtime/journal.ts: processes    *)
(* that open the journal create the lock directory or take it over when    *)
(* its owner is dead or silent, hold it with a heartbeat, and remove it.   *)
(* One file system call per step; a process may die at any step and be     *)
(* suspended, so that its heartbeat grows old.                             *)
(*                                                                         *)
(* The owner file of a process carries its token and is named by the       *)
(* process; every process opens the journal at most once.                  *)
(***************************************************************************)
EXTENDS Naturals, FiniteSets

CONSTANTS
    Processes,
    Host,          \* the host of each process
    Overlap,       \* whether two processes may be opening the journal at once
    Suspensions,   \* bound: how often a process may be suspended
    NoProcess      \* stands for no owner read

ASSUME LockAssumption ==
    /\ IsFiniteSet(Processes) /\ NoProcess \notin Processes
    /\ Overlap \in BOOLEAN
    /\ Suspensions \in Nat

VARIABLES
    pc,          \* where each process stands
    read,        \* the owner whose file it judges
    doomed,      \* the entries it still removes from the lock directory
    lost,        \* the processes that found their own owner file gone
    asleep,      \* the suspended processes
    suspended,   \* how often each process was suspended
    lockDirectory,   \* the lock directory exists
    owners,      \* the owner files in it
    blank,       \* the owner files that are truncated and not written again
    silent       \* the processes whose last heartbeat is older than 30 seconds

fileVars == <<lockDirectory, owners, blank>>
sleepVars == <<asleep, suspended, silent>>
lockVars == <<pc, read, doomed, lost, asleep, suspended, lockDirectory, owners, blank, silent>>

Opening == {"create", "list", "judge", "clear", "unlink", "remove", "recreate", "open", "write", "sync"}
Leaving == {"undo", "undoDirectory", "close", "closeDirectory"}
Gone == {"new", "refused", "closed", "dead"}

LockInit ==
    /\ pc = [p \in Processes |-> "new"]
    /\ read = [p \in Processes |-> NoProcess]
    /\ doomed = [p \in Processes |-> {}]
    /\ lost = {} /\ asleep = {}
    /\ suspended = [p \in Processes |-> 0]
    /\ lockDirectory = FALSE /\ owners = {} /\ blank = {} /\ silent = {}

Dead(p) == pc[p] \in {"closed", "refused", "dead"}
AwakeAt(p, place) == pc[p] = place /\ p \notin asleep
MovesTo(p, place) == pc' = [pc EXCEPT ![p] = place]

\* The processes that append when asked to: #assertLockHeld only looks at lost.
Writers == {p \in Processes : pc[p] \in {"owner", "beat"}} \ (lost \cup asleep)

-----------------------------------------------------------------------------
(* #acquireWriterLock *)

Start(p) ==
    /\ pc[p] = "new"
    /\ Overlap \/ \A q \in Processes : pc[q] \notin Opening
    /\ MovesTo(p, "create")
    /\ UNCHANGED <<read, doomed, lost, sleepVars, fileVars>>

CreateDirectory(p) ==
    /\ AwakeAt(p, "create")
    /\ MovesTo(p, IF lockDirectory THEN "list" ELSE "open")
    /\ lockDirectory' = TRUE
    /\ UNCHANGED <<read, doomed, lost, sleepVars, owners, blank>>

\* The list of the owners; without any the lock counts as orphaned.
ListOwners(p) ==
    /\ AwakeAt(p, "list") /\ lockDirectory /\ Cardinality(owners) <= 1
    /\ MovesTo(p, IF owners = {} THEN "clear" ELSE "judge")
    /\ read' = [read EXCEPT ![p] = IF owners = {} THEN NoProcess ELSE CHOOSE q \in owners : TRUE]
    /\ UNCHANGED <<doomed, lost, sleepVars, fileVars>>

\* The directory is gone again, or two owners are in it.
ListFails(p) ==
    /\ AwakeAt(p, "list")
    /\ ~lockDirectory \/ Cardinality(owners) > 1
    /\ MovesTo(p, "refused")
    /\ UNCHANGED <<read, doomed, lost, sleepVars, fileVars>>

\* Fault: a process of another host counts as dead.
OrphanedElsewhere(p, q) ==
    /\ q \in owners \ blank
    /\ Host[p] # Host[q] \/ Dead(q) \/ q \in silent

\* An owner that cannot be read counts as alive, and so does one of another host
\* until its heartbeat is old.
Orphaned(p, q) ==
    /\ q \in owners \ blank
    /\ (Host[p] = Host[q] /\ Dead(q)) \/ q \in silent

Judge(p) ==
    /\ AwakeAt(p, "judge")
    /\ MovesTo(p, IF Orphaned(p, read[p]) THEN "clear" ELSE "refused")
    /\ read' = [read EXCEPT ![p] = NoProcess]
    /\ UNCHANGED <<doomed, lost, sleepVars, fileVars>>

\* removeLock removes whatever is in the directory by now.
ListLock(p) ==
    /\ AwakeAt(p, "clear")
    /\ MovesTo(p, IF ~lockDirectory THEN "refused" ELSE IF owners = {} THEN "remove" ELSE "unlink")
    /\ doomed' = [doomed EXCEPT ![p] = owners]
    /\ UNCHANGED <<read, lost, sleepVars, fileVars>>

UnlinkOwner(p) ==
    /\ AwakeAt(p, "unlink")
    /\ \E q \in doomed[p] :
        /\ MovesTo(p, IF q \notin owners THEN "refused" ELSE IF doomed[p] = {q} THEN "remove" ELSE "unlink")
        /\ owners' = owners \ {q} /\ blank' = blank \ {q}
        /\ doomed' = [doomed EXCEPT ![p] = IF q \in owners THEN @ \ {q} ELSE {}]
    /\ UNCHANGED <<read, lost, sleepVars, lockDirectory>>

RemoveDirectory(p) ==
    /\ AwakeAt(p, "remove")
    /\ MovesTo(p, IF lockDirectory /\ owners = {} THEN "recreate" ELSE "refused")
    /\ lockDirectory' = (lockDirectory /\ owners # {})
    /\ UNCHANGED <<read, doomed, lost, sleepVars, owners, blank>>

CreateAgain(p) ==
    /\ AwakeAt(p, "recreate")
    /\ MovesTo(p, IF lockDirectory THEN "refused" ELSE "open")
    /\ lockDirectory' = TRUE
    /\ UNCHANGED <<read, doomed, lost, sleepVars, owners, blank>>

OpenOwner(p) ==
    /\ AwakeAt(p, "open")
    /\ IF lockDirectory
       THEN MovesTo(p, "write") /\ owners' = owners \cup {p} /\ blank' = blank \cup {p}
       ELSE MovesTo(p, "undoDirectory") /\ UNCHANGED <<owners, blank>>
    /\ UNCHANGED <<read, doomed, lost, sleepVars, lockDirectory>>

\* The write goes to the open file, also when it has been unlinked.
WriteOwner(p) ==
    /\ AwakeAt(p, "write") /\ MovesTo(p, "sync")
    /\ blank' = blank \ {p}
    /\ UNCHANGED <<read, doomed, lost, sleepVars, lockDirectory, owners>>

SyncOwner(p) ==
    /\ AwakeAt(p, "sync")
    /\ MovesTo(p, IF lockDirectory THEN "owner" ELSE "undo")
    /\ UNCHANGED <<read, doomed, lost, sleepVars, fileVars>>

\* Any of the calls that write the owner fails.
FailOwner(p) ==
    /\ AwakeAt(p, "write") \/ AwakeAt(p, "sync")
    /\ MovesTo(p, "undo")
    /\ UNCHANGED <<read, doomed, lost, sleepVars, fileVars>>

-----------------------------------------------------------------------------
(* #beat and #releaseWriterLock *)

\* Fault: a heartbeat does not look for its file.
TruncateBlindly(p) ==
    /\ AwakeAt(p, "owner") /\ p \notin lost
    /\ MovesTo(p, "beat") /\ blank' = blank \cup ({p} \cap owners)
    /\ UNCHANGED <<read, doomed, lost, sleepVars, lockDirectory, owners>>

Truncate(p) ==
    /\ AwakeAt(p, "owner") /\ p \notin lost
    /\ IF p \in owners
       THEN MovesTo(p, "beat") /\ blank' = blank \cup {p} /\ UNCHANGED lost
       ELSE lost' = lost \cup {p} /\ UNCHANGED <<pc, blank>>
    /\ UNCHANGED <<read, doomed, sleepVars, lockDirectory, owners>>

Beat(p) ==
    /\ AwakeAt(p, "beat") /\ MovesTo(p, "owner")
    /\ blank' = blank \ {p} /\ silent' = silent \ {p}
    /\ UNCHANGED <<read, doomed, lost, asleep, suspended, lockDirectory, owners>>

Close(p) ==
    /\ AwakeAt(p, "owner") /\ MovesTo(p, "close")
    /\ UNCHANGED <<read, doomed, lost, sleepVars, fileVars>>

\* Fault: a process that closes clears the lock directory.
UnlinkAll(p) ==
    /\ AwakeAt(p, "close") \/ AwakeAt(p, "undo")
    /\ MovesTo(p, IF pc[p] = "close" THEN "closeDirectory" ELSE "undoDirectory")
    /\ owners' = {} /\ blank' = {}
    /\ UNCHANGED <<read, doomed, lost, sleepVars, lockDirectory>>

\* Its own owner file, and the directory when that leaves it empty.
UnlinkOwn(p) ==
    /\ AwakeAt(p, "close") \/ AwakeAt(p, "undo")
    /\ MovesTo(p, IF pc[p] = "undo" THEN "undoDirectory"
               ELSE IF p \in owners THEN "closeDirectory" ELSE "closed")
    /\ owners' = owners \ {p} /\ blank' = blank \ {p}
    /\ UNCHANGED <<read, doomed, lost, sleepVars, lockDirectory>>

\* Fault: the directory is removed with what it holds.
LeaveNothing(p) ==
    /\ AwakeAt(p, "closeDirectory") \/ AwakeAt(p, "undoDirectory")
    /\ MovesTo(p, IF pc[p] = "undoDirectory" THEN "refused" ELSE "closed")
    /\ lockDirectory' = FALSE
    /\ UNCHANGED <<read, doomed, lost, sleepVars, owners, blank>>

LeaveDirectory(p) ==
    /\ AwakeAt(p, "closeDirectory") \/ AwakeAt(p, "undoDirectory")
    /\ MovesTo(p, IF pc[p] = "undoDirectory" THEN "refused" ELSE "closed")
    /\ lockDirectory' = (lockDirectory /\ owners # {})
    /\ UNCHANGED <<read, doomed, lost, sleepVars, owners, blank>>

-----------------------------------------------------------------------------
(* The machine *)

Die(p) ==
    /\ pc[p] \notin Gone
    /\ MovesTo(p, "dead")
    /\ asleep' = asleep \ {p}
    /\ UNCHANGED <<read, doomed, lost, suspended, silent, fileVars>>

Suspend(p) ==
    /\ pc[p] \notin Gone /\ p \notin asleep
    /\ suspended[p] < Suspensions
    /\ asleep' = asleep \cup {p} /\ suspended' = [suspended EXCEPT ![p] = @ + 1]
    /\ UNCHANGED <<pc, read, doomed, lost, silent, fileVars>>

Resume(p) ==
    /\ p \in asleep
    /\ asleep' = asleep \ {p}
    /\ UNCHANGED <<pc, read, doomed, lost, suspended, silent, fileVars>>

\* Thirty seconds pass; a process that runs beats every five.
GrowSilent(p) ==
    /\ p \in owners \ silent
    /\ p \in asleep \/ Dead(p)
    /\ silent' = silent \cup {p}
    /\ UNCHANGED <<pc, read, doomed, lost, asleep, suspended, fileVars>>

LockStep(p) ==
    \/ CreateDirectory(p) \/ ListOwners(p) \/ ListFails(p) \/ Judge(p)
    \/ ListLock(p) \/ UnlinkOwner(p) \/ RemoveDirectory(p) \/ CreateAgain(p)
    \/ OpenOwner(p) \/ WriteOwner(p) \/ SyncOwner(p)
    \/ Truncate(p) \/ Beat(p) \/ UnlinkOwn(p) \/ LeaveDirectory(p)

LockNext == \E p \in Processes :
    \/ LockStep(p) \/ Start(p) \/ FailOwner(p) \/ Close(p)
    \/ Die(p) \/ Suspend(p) \/ Resume(p) \/ GrowSilent(p)

\* A process that runs goes on, a suspended one is resumed, and time passes.
LockFairness == \A p \in Processes : WF_lockVars(LockStep(p)) /\ WF_lockVars(Resume(p)) /\ WF_lockVars(GrowSilent(p))

LockSpec == LockInit /\ [][LockNext]_lockVars
FairLockSpec == LockSpec /\ LockFairness

-----------------------------------------------------------------------------
(* Properties *)

Places == Opening \cup Leaving \cup Gone \cup {"owner", "beat"}

\* The shape of the lock and of its processes.
LockTypeOK ==
    /\ pc \in [Processes -> Places]
    /\ read \in [Processes -> Processes \cup {NoProcess}]
    /\ doomed \in [Processes -> SUBSET Processes]
    /\ suspended \in [Processes -> 0 .. Suspensions]
    /\ lost \cup asleep \cup silent \cup owners \subseteq Processes
    /\ blank \subseteq owners /\ (owners # {} => lockDirectory)

\* docs/spec/core.md: "there are never two writers".
NeverTwoWriters == Cardinality(Writers) <= 1

\* A process whose owner file another one may remove.
Stale(p) == Dead(p) \/ suspended[p] > 0
Holding(p) == pc[p] \in {"owner", "beat"}

\* The lock is one file of one process, which only its own process removes, unless that one died or was suspended.
OneOwner ==
    /\ \A p, q \in owners : p = q
    /\ \A p \in Processes : Holding(p) /\ ~Stale(p) => p \in owners

\* One process at a time opens the journal.  It removes the files of those that died or were suspended, after it judged
\* the only one there was, and writes its own into an empty directory.
OneOpening ==
    /\ \A p, q \in Processes : pc[p] \in Opening /\ pc[q] \in Opening => p = q
    /\ \A p \in asleep \cup silent : Stale(p)
    /\ \A p \in Processes :
        /\ pc[p] = "judge" => \A q \in owners : q = read[p]
        /\ pc[p] = "clear" => \A q \in owners : Stale(q)
        /\ pc[p] = "unlink" => \A q \in doomed[p] : Stale(q)
        /\ pc[p] = "open" => owners = {}
        /\ pc[p] \in {"write", "sync"} => owners = {p}

\* While no two processes open the journal at once, a second writer only appears
\* beside one that was suspended, and that one's owner file is gone.
AloneUnlessSuspended == \A p, q \in Writers : p # q =>
    \E r \in {p, q} : suspended[r] > 0 /\ r \notin owners

\* Who holds the lock is alone, but for a suspension.
LockInv == LockTypeOK /\ OneOwner /\ OneOpening /\ AloneUnlessSuspended

\* While no two processes open the journal at once, an owner file is removed by its
\* own process, or after that process died or was suspended; a process that was
\* replaced does not take the file of its replacement along when it closes.
OwnerKept ==
    [][\A p \in owners \ owners' : Dead(p) \/ pc[p] \in Leaving \/ suspended[p] > 0]_lockVars

\* A writer whose owner file is gone stops accepting commands, at its next heartbeat
\* at the latest.
ReplacedWriterStops == \A p \in Processes :
    (p \in Writers /\ p \notin owners) ~> (pc[p] \notin {"owner", "beat"} \/ p \in lost)

\* docs/spec/core.md: an existing lock is taken over exactly if its process on the
\* same host is no longer alive or its heartbeat is old.
DeadOwnerReplaced ==
    [][\A p \in Processes : AwakeAt(p, "judge") /\ pc'[p] = "refused" =>
        ~(read[p] \in owners /\ pc[read[p]] = "dead" /\ Host[read[p]] = Host[p])]_lockVars

=============================================================================
