-------------------------------- MODULE Journal --------------------------------
(***************************************************************************)
(* The journal of one run, runtime/journal.ts and journal-storage.ts: how  *)
(* append and adopt bring command records to the file, into memory and to  *)
(* the listeners, one file system call per step, with calls that fail,     *)
(* crashes of the process, losses of power and the load that follows.      *)
(*                                                                         *)
(* A record is the id of its command.  A line that holds anything but a    *)
(* whole record is Corrupt; torn says that the file ends in text without a *)
(* line end.  Left out: the checks of a record against the run's state     *)
(* (RunKernel), the writer lock (WriterLock), deleting a run.              *)
(***************************************************************************)
EXTENDS Naturals, SequencesExt

CONSTANTS
    Commands,     \* command ids
    Large,        \* those with a payload of a file of its own
    Corrupt,      \* a line that is not a record
    BatchSize,    \* bound: the records a new run brings with it
    Listeners     \* bound: the number of listeners

ASSUME JournalAssumption ==
    /\ Large \subseteq Commands
    /\ Corrupt \notin Commands
    /\ BatchSize \in Nat \ {0}
    /\ Listeners \in Nat \ {0}

VARIABLES
    directory,     \* the run directory exists
    temp,          \* a temporary journal file is left in it
    hasFile,       \* journal.jsonl exists
    lines,         \* its terminated lines
    torn,          \* it ends in an unterminated rest
    durable,       \* the number of lines that survive a loss of power
    nameDurable,   \* the directory entry of the file survives one
    payloads,      \* the stored payload files
    durablePayloads,
    up,            \* the process runs
    locked,        \* loading the run failed
    failed,        \* a write failed, the run takes no commands until reopened
    log,           \* the records in memory
    base,          \* the number of records loaded at the start
    op,            \* the append or adopt that is under way
    current,       \* the batch being published
    done,          \* how many listeners have been called with it
    queue,         \* #pendingPublications
    outer,         \* the call that runs the publication loop
    seen,          \* what each listener was called with since the start
    answered,      \* commands whose own call returned
    repeated,      \* commands answered to a repetition
    powerFails     \* whether the machine of this behaviour may lose power, not only crash

diskVars == <<directory, temp, hasFile, lines, torn, durable, nameDurable, payloads, durablePayloads>>
publishVars == <<current, done, queue, outer, seen>>
memoryVars == <<up, locked, failed, log, base>>
clientVars == <<answered, repeated>>
vars == <<diskVars, memoryVars, op, publishVars, clientVars, powerFails>>

NoOp == [pc |-> "idle", batch |-> <<>>, replace |-> FALSE, fresh |-> FALSE, ok |-> TRUE]
NoOuter == [batch |-> <<>>, ok |-> TRUE]
Batches == {b \in SeqOf(Commands, BatchSize) : b # <<>> /\ IsInjective(b)}

-----------------------------------------------------------------------------
Init ==
    /\ directory = FALSE /\ temp = FALSE /\ hasFile = FALSE
    /\ lines = <<>> /\ torn = FALSE
    /\ durable = 0 /\ nameDurable = FALSE
    /\ payloads = {} /\ durablePayloads = {}
    /\ up = TRUE /\ locked = FALSE /\ failed = FALSE
    /\ log = <<>> /\ base = 0
    /\ op = NoOp
    /\ current = <<>> /\ done = 0 /\ queue = <<>> /\ outer = NoOuter
    /\ seen = [l \in 1..Listeners |-> <<>>]
    /\ answered = {} /\ repeated = {}
    /\ powerFails \in BOOLEAN

Idle == up /\ op.pc = "idle"
Publishing == outer.batch # <<>>

\* A listener that is being called may itself append; nobody else gets in between.
MayCall == Idle /\ ~locked /\ (Publishing => done > 0)

At(pc) == up /\ op.pc = pc
GoTo(pc) == op' = [op EXCEPT !.pc = pc]

-----------------------------------------------------------------------------
(* append and adopt *)

Append1(c) ==
    /\ MayCall /\ ~failed
    /\ c \notin ToSet(log)
    /\ op' = [NoOp EXCEPT !.pc = IF hasFile THEN "serialize" ELSE "mkdir",
                          !.batch = <<c>>, !.replace = ~hasFile, !.fresh = ~directory]
    /\ UNCHANGED <<diskVars, memoryVars, publishVars, clientVars>>

\* A repetition of a command is answered from memory.
AppendAgain(c) ==
    /\ MayCall /\ ~failed
    /\ c \in ToSet(log)
    /\ repeated' = repeated \cup {c}
    /\ UNCHANGED <<diskVars, memoryVars, op, publishVars, answered>>

\* A fork or an import brings the records of a new run.
Adopt(b) ==
    /\ MayCall /\ ~failed
    /\ log = <<>>
    /\ op' = [NoOp EXCEPT !.pc = "mkdir", !.batch = b, !.replace = TRUE, !.fresh = ~directory]
    /\ UNCHANGED <<diskVars, memoryVars, publishVars, clientVars>>

MakeDirectory ==
    /\ At("mkdir") /\ GoTo("serialize")
    /\ directory' = TRUE
    /\ UNCHANGED <<temp, hasFile, lines, torn, durable, nameDurable, payloads, durablePayloads,
                   memoryVars, publishVars, clientVars>>

\* Fault: every record gets a payload file.
StoreAll ==
    /\ At("serialize") /\ GoTo("syncPayloads")
    /\ payloads' = payloads \cup ToSet(op.batch)
    /\ UNCHANGED <<directory, temp, hasFile, lines, torn, durable, nameDurable, durablePayloads,
                   memoryVars, publishVars, clientVars>>

\* serializeJournalRecord stores the payloads before the line that refers to them.
StorePayloads ==
    /\ At("serialize") /\ GoTo("syncPayloads")
    /\ payloads' = payloads \cup (ToSet(op.batch) \cap Large)
    /\ UNCHANGED <<directory, temp, hasFile, lines, torn, durable, nameDurable, durablePayloads,
                   memoryVars, publishVars, clientVars>>

SyncPayloads ==
    /\ At("syncPayloads") /\ GoTo(IF op.replace THEN "temp" ELSE "write")
    /\ durablePayloads' = payloads
    /\ UNCHANGED <<directory, temp, hasFile, lines, torn, durable, nameDurable, payloads,
                   memoryVars, publishVars, clientVars>>

\* Text appended to an unterminated rest makes one line with it.
Written(b) == IF torn THEN Append(lines, Corrupt) ELSE lines \o b

WriteLine ==
    /\ At("write") /\ GoTo("sync")
    /\ lines' = Written(op.batch) /\ torn' = FALSE
    /\ UNCHANGED <<directory, temp, hasFile, durable, nameDurable, payloads, durablePayloads,
                   memoryVars, publishVars, clientVars>>

\* Fault: the line is not synced.
SkipSync ==
    /\ At("sync") /\ GoTo("commit")
    /\ UNCHANGED <<diskVars, memoryVars, publishVars, clientVars>>

SyncFile ==
    /\ At("sync") /\ GoTo("commit")
    /\ durable' = Len(lines)
    /\ UNCHANGED <<directory, temp, hasFile, lines, torn, nameDurable, payloads, durablePayloads,
                   memoryVars, publishVars, clientVars>>

\* #replaceRecords writes and syncs a temporary file and renames it.
WriteTemp ==
    /\ At("temp") /\ GoTo("rename")
    /\ temp' = TRUE
    /\ UNCHANGED <<directory, hasFile, lines, torn, durable, nameDurable, payloads, durablePayloads,
                   memoryVars, publishVars, clientVars>>

Rename ==
    /\ At("rename") /\ GoTo("commit")
    /\ temp' = FALSE /\ hasFile' = TRUE
    /\ lines' = op.batch /\ torn' = FALSE
    /\ durable' = Len(op.batch) /\ nameDurable' = FALSE
    /\ UNCHANGED <<directory, payloads, durablePayloads, memoryVars, publishVars, clientVars>>

\* #installAdoptedRecords
Commit ==
    /\ At("commit") /\ GoTo(IF op.replace THEN "syncDirectory" ELSE "publish")
    /\ log' = log \o op.batch
    /\ UNCHANGED <<diskVars, up, locked, failed, base, publishVars, clientVars>>

SyncDirectory ==
    /\ At("syncDirectory") /\ GoTo("publish")
    /\ nameDurable' = TRUE
    /\ UNCHANGED <<directory, temp, hasFile, lines, torn, durable, payloads, durablePayloads,
                   memoryVars, publishVars, clientVars>>

-----------------------------------------------------------------------------
(* #publish: the first call runs the loop, a call from a listener queues. *)

\* Fault: a call from a listener publishes at once.
PublishAtOnce ==
    /\ At("publish") /\ op' = NoOp
    /\ seen' = [l \in 1..Listeners |-> seen[l] \o op.batch]
    /\ answered' = IF op.ok THEN answered \cup ToSet(op.batch) ELSE answered
    /\ UNCHANGED <<diskVars, memoryVars, current, done, queue, outer, repeated>>

PublishNested ==
    /\ At("publish") /\ Publishing /\ op' = NoOp
    /\ queue' = Append(queue, op.batch)
    /\ answered' = IF op.ok THEN answered \cup ToSet(op.batch) ELSE answered
    /\ UNCHANGED <<diskVars, memoryVars, current, done, outer, seen, repeated>>

PublishFirst ==
    /\ At("publish") /\ ~Publishing /\ op' = NoOp
    /\ outer' = [batch |-> op.batch, ok |-> op.ok]
    /\ current' = op.batch /\ done' = 0
    /\ UNCHANGED <<diskVars, memoryVars, queue, seen, clientVars>>

CallListener ==
    /\ Idle /\ Publishing /\ done < Listeners
    /\ done' = done + 1
    /\ seen' = [seen EXCEPT ![done + 1] = @ \o current]
    /\ UNCHANGED <<diskVars, memoryVars, op, current, queue, outer, clientVars>>

NextBatch ==
    /\ Idle /\ Publishing /\ done = Listeners
    /\ queue # <<>>
    /\ current' = Head(queue) /\ queue' = Tail(queue) /\ done' = 0
    /\ UNCHANGED <<diskVars, memoryVars, op, outer, seen, clientVars>>

Return ==
    /\ Idle /\ Publishing /\ done = Listeners
    /\ queue = <<>>
    /\ answered' = IF outer.ok THEN answered \cup ToSet(outer.batch) ELSE answered
    /\ outer' = NoOuter /\ current' = <<>> /\ done' = 0
    /\ UNCHANGED <<diskVars, memoryVars, op, queue, seen, repeated>>

-----------------------------------------------------------------------------
(* Calls that fail.  The error goes to the caller, or to the publication   *)
(* loop, which swallows what a listener throws.                            *)

\* Before the rename nothing is kept but payloads, and a directory that is not empty.
FailPreparing ==
    /\ up /\ op.pc \in {"mkdir", "serialize", "syncPayloads", "temp", "rename"}
    /\ temp' \in {FALSE, temp}
    /\ directory' = (directory /\ ~(op.replace /\ op.fresh /\ payloads = {} /\ ~temp'))
    /\ op' = NoOp
    /\ UNCHANGED <<hasFile, lines, torn, durable, nameDurable, payloads, durablePayloads,
                   memoryVars, publishVars, clientVars>>

\* Fault: the run takes further commands after a failed write.
FailWritingOpen ==
    /\ At("write") \/ At("sync")
    /\ \/ UNCHANGED <<lines, torn>>
       \/ At("write") /\ torn' = TRUE /\ UNCHANGED lines
       \/ At("write") /\ lines' = Written(op.batch) /\ torn' = FALSE
    /\ op' = NoOp
    /\ UNCHANGED <<directory, temp, hasFile, durable, nameDurable, payloads, durablePayloads,
                   up, locked, failed, log, base, publishVars, clientVars>>

\* Opening, writing, syncing or closing fails; nobody knows what reached the file.
FailWriting ==
    /\ At("write") \/ At("sync")
    /\ \/ UNCHANGED <<lines, torn>>
       \/ At("write") /\ torn' = TRUE /\ UNCHANGED lines
       \/ At("write") /\ lines' = Written(op.batch) /\ torn' = FALSE
    /\ failed' = TRUE
    /\ op' = NoOp
    /\ UNCHANGED <<directory, temp, hasFile, durable, nameDurable, payloads, durablePayloads,
                   up, locked, log, base, publishVars, clientVars>>

\* The command is committed all the same, and published before the error is thrown.
FailSyncDirectory ==
    /\ At("syncDirectory") /\ op' = [op EXCEPT !.pc = "publish", !.ok = FALSE]
    /\ UNCHANGED <<diskVars, memoryVars, publishVars, clientVars>>

-----------------------------------------------------------------------------
(* The end of the process and the next start *)

Down ==
    /\ up' = FALSE /\ op' = NoOp
    /\ current' = <<>> /\ done' = 0 /\ queue' = <<>> /\ outer' = NoOuter
    /\ seen' = [l \in 1..Listeners |-> <<>>]
    /\ UNCHANGED <<locked, failed, log, base, clientVars>>

\* A process that dies while it writes may leave part of the line.
Crash ==
    /\ up /\ Down
    /\ torn' \in {torn, At("write")}
    /\ UNCHANGED <<directory, temp, hasFile, lines, durable, nameDurable, payloads, durablePayloads>>

\* What was not synced is there, gone, or there in part.
Remains ==
    \E n \in durable..Len(lines) :
        LET kept == SubSeq(lines, 1, n) IN
        \/ lines' = kept /\ torn' \in {torn, n < Len(lines)}
        \/ n < Len(lines) /\ lines' = Append(kept, Corrupt) /\ torn' = FALSE

LosePower ==
    /\ powerFails /\ up /\ Down
    /\ IF hasFile /\ ~nameDurable
       THEN \/ hasFile' = FALSE /\ lines' = <<>> /\ torn' = FALSE /\ temp' \in BOOLEAN
            \/ Remains /\ UNCHANGED <<hasFile, temp>>
       ELSE Remains /\ UNCHANGED <<hasFile, temp>>
    /\ payloads' \in {P \in SUBSET payloads : durablePayloads \subseteq P}
    /\ durablePayloads' = payloads'
    /\ durable' = Len(lines') /\ nameDurable' = hasFile'
    /\ UNCHANGED directory

\* Fault: the last line is always taken for an incomplete write.
AllButLast == IF lines = <<>> THEN <<>> ELSE Front(lines)

\* #committedLines: an unterminated rest is dropped, or a last line that is no record.
CommittedLines == IF ~torn /\ lines # <<>> /\ Last(lines) = Corrupt THEN Front(lines) ELSE lines

Loads ==
    /\ hasFile /\ CommittedLines # <<>>
    /\ Corrupt \notin ToSet(CommittedLines)
    /\ ToSet(CommittedLines) \cap Large \subseteq payloads

Repaired == IF torn \/ lines # CommittedLines THEN Len(CommittedLines) ELSE durable

\* #loadFiles with the repair of the file's end.
Load ==
    /\ ~up /\ Loads
    /\ up' = TRUE /\ locked' = FALSE /\ failed' = FALSE
    /\ log' = CommittedLines /\ base' = Len(CommittedLines)
    /\ lines' = CommittedLines /\ torn' = FALSE /\ durable' = Repaired
    /\ UNCHANGED <<directory, temp, hasFile, nameDurable, payloads, durablePayloads, op, publishVars, clientVars>>

\* No run yet, or a directory or a file that is not understood: it is locked and left as it is.
LoadNothing ==
    /\ ~up
    /\ ~Loads \/ torn \/ lines # CommittedLines
    /\ up' = TRUE /\ failed' = FALSE
    /\ locked' = (hasFile \/ (directory /\ (temp \/ payloads # {})))
    /\ log' = <<>> /\ base' = 0
    /\ UNCHANGED <<diskVars, op, publishVars, clientVars>>

-----------------------------------------------------------------------------
Call == \/ \E c \in Commands : Append1(c) \/ AppendAgain(c)
        \/ \E b \in Batches : Adopt(b)

Step == \/ MakeDirectory \/ StorePayloads \/ SyncPayloads
        \/ WriteLine \/ SyncFile \/ WriteTemp \/ Rename \/ Commit \/ SyncDirectory
        \/ PublishNested \/ PublishFirst \/ CallListener \/ NextBatch \/ Return

Failure == FailPreparing \/ FailWriting \/ FailSyncDirectory

Next ==
    /\ Call \/ Step \/ Failure \/ Crash \/ LosePower \/ Load \/ LoadNothing
    /\ UNCHANGED powerFails

Spec == Init /\ [][Next]_vars

-----------------------------------------------------------------------------
(* Properties *)

Pcs == {"idle", "mkdir", "serialize", "syncPayloads", "write", "sync", "temp", "rename",
        "commit", "syncDirectory", "publish"}
Ops == [pc : Pcs, batch : Batches \cup {<<>>}, replace : BOOLEAN, fresh : BOOLEAN, ok : BOOLEAN]

\* The shape of the journal's fields and of the run directory.
TypeOK ==
    /\ {directory, temp, hasFile, torn, nameDurable, up, locked, failed} \subseteq BOOLEAN
    /\ lines \in Seq(Commands \cup {Corrupt}) /\ log \in Seq(Commands)
    /\ durable \in 0..Len(lines) /\ base \in 0..Len(log)
    /\ durablePayloads \subseteq payloads /\ payloads \subseteq Large
    /\ op \in Ops
    /\ current \in Batches \cup {<<>>} /\ queue \in Seq(Batches)
    /\ done \in 0..Listeners
    /\ outer \in [batch : Batches \cup {<<>>}, ok : BOOLEAN]
    /\ seen \in [1..Listeners -> Seq(Commands)]
    /\ answered \cup repeated \subseteq Commands /\ powerFails \in BOOLEAN

\* Between two calls the memory of an open run and its file hold the same records;
\* after a failed write the file is ahead by at most that record.
MemoryMatchesFile == Idle /\ ~locked =>
    IF failed THEN IsPrefix(log, lines) /\ Len(lines) <= Len(log) + 1
    ELSE lines = log /\ ~torn

\* Whatever calls failed and were repeated before and after a restart, no command
\* is in the journal twice.
CommandOnce == IsInjective(lines)

\* As long as the machine keeps its power, every answered command is loaded again by
\* whatever start comes next.
AnsweredLoads == ~powerFails /\ answered \cup repeated # {} =>
    Loads /\ answered \cup repeated \subseteq ToSet(CommittedLines)

\* What holds of file, memory and answers at every step of every call.
JournalInv == TypeOK /\ MemoryMatchesFile /\ CommandOnce /\ AnsweredLoads

Synced == ToSet(SubSeq(lines, 1, durable))

\* A call returns only when its records and payloads are synced, and no later step, a
\* loss of power included, takes an answered record out of the file, short of losing a
\* file whose directory entry was never synced.
AnsweredIsDurable ==
    [][/\ answered' \ answered \subseteq Synced
       /\ answered' \cap Large \subseteq durablePayloads'
       /\ \/ answered \cap Synced \subseteq Synced'
          \/ ~nameDurable /\ ~hasFile']_vars

\* Every listener gets the records committed since the start in the order of the
\* journal, each once, also when listeners append themselves; and when no publication
\* is under way it has got all of them.
Published == SubSeq(log, base + 1, Len(log))
SeenInOrder == up => \A l \in 1..Listeners :
    /\ IsPrefix(seen[l], Published)
    /\ Idle /\ ~Publishing => seen[l] = Published

\* The records of the file, the records in memory and the answers implement CommandLog
\* where power is not lost (what a loss of power keeps, AnsweredIsDurable says).
Promise == INSTANCE CommandLog WITH
    log <- IF powerFails THEN <<>> ELSE lines,
    view <- IF powerFails THEN <<>> ELSE log,
    answered <- IF powerFails THEN {} ELSE answered \cup repeated
KeepsPromise == Promise!Spec

=============================================================================
