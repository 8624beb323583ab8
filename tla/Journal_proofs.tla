---------------------------- MODULE Journal_proofs ----------------------------
(***************************************************************************)
(* Whatever call fails and wherever the process ends, the journal of a run *)
(* holds every answered command once, and its listeners are called in its  *)
(* order: for any commands, batches and listeners.  The last section is    *)
(* about the lock of its folder: one process writes, unless it was         *)
(* suspended and taken for dead, for any processes on any machines.        *)
(***************************************************************************)
EXTENDS Journal, WriterLock, TLAPS, SequenceTheorems, FiniteSetTheorems

ReplacePcs == {"mkdir", "temp", "rename", "syncDirectory"}
Writing == {"mkdir", "serialize", "syncPayloads", "write", "temp", "rename"}
Written1 == {"sync", "commit"}
Committed == {"syncDirectory", "publish"}
Open == up /\ ~locked /\ ~failed

\* Only an open run has an operation under way.  One that replaces the file starts
\* from an empty journal, any other adds one line to a file that is there.
Steps ==
    /\ ~Open => op = NoOp
    /\ op.pc = "idle" => op = NoOp
    /\ op.pc \in ReplacePcs => op.replace
    /\ op.pc \in {"write", "sync"} => ~op.replace
    /\ op.pc # "idle" =>
          /\ op.batch \in Batches
          /\ ~op.replace => hasFile /\ Len(op.batch) = 1
    /\ op.pc \in Writing \cup Written1 =>
          /\ op.replace => log = <<>>
          /\ ToSet(op.batch) \cap ToSet(log) = {}

\* No record is in the file twice.  What is no record can only be its synced last
\* line after a loss of power, until a start drops it.
File ==
    /\ ~hasFile => lines = <<>> /\ ~torn
    /\ IsInjective(lines)
    /\ \A n \in DOMAIN lines : lines[n] = Corrupt => n = Len(lines) /\ durable = Len(lines) /\ ~(up /\ ~locked)
    /\ ~powerFails => Corrupt \notin ToSet(lines)

\* How far the memory of a run that is up is behind its file.
Memory ==
    /\ Open => ~torn /\ lines = IF op.pc \in Written1 THEN log \o op.batch ELSE log
    /\ up /\ failed => IsPrefix(log, lines) /\ Len(lines) <= Len(log) + 1
    /\ up /\ locked => log = <<>> /\ ~failed

\* A line that refers to a payload file is written after the file was synced.
PayloadsKept ==
    /\ ToSet(lines) \cap Large \subseteq durablePayloads
    /\ answered \cap Large \subseteq durablePayloads
    /\ op.pc \in {"write", "temp", "rename"} => ToSet(op.batch) \cap Large \subseteq durablePayloads
    /\ op.pc = "syncPayloads" => ToSet(op.batch) \cap Large \subseteq payloads

\* What is committed, and what is being published, is synced.
Durable ==
    /\ op.pc \in {"commit", "syncDirectory", "publish"} => durable = Len(lines)
    /\ op.pc \in Committed => ToSet(op.batch) \subseteq ToSet(log)
    /\ ~up => outer = NoOuter
    /\ ToSet(outer.batch) \subseteq Synced
    /\ ToSet(outer.batch) \subseteq ToSet(log)

AnswersKept == ~powerFails => answered \cup repeated \subseteq ToSet(lines)

IInv == TypeOK /\ Steps /\ File /\ Memory /\ PayloadsKept /\ Durable /\ AnswersKept

-----------------------------------------------------------------------------
(* Sequences without repetitions, their elements and their prefixes *)

LEMMA ElementsOf ==
    ASSUME NEW S, NEW s \in Seq(S)
    PROVE  /\ DOMAIN s = 1..Len(s) /\ Len(s) \in Nat
           /\ \A n \in DOMAIN s : s[n] \in S /\ s[n] \in ToSet(s)
           /\ ToSet(s) \subseteq S
           /\ s = <<>> <=> Len(s) = 0
           /\ s = <<>> <=> ToSet(s) = {}
<1>1. DOMAIN s = 1..Len(s) /\ Len(s) \in Nat /\ \A n \in DOMAIN s : s[n] \in S
  OBVIOUS
<1>2. ToSet(s) \subseteq S /\ \A n \in DOMAIN s : s[n] \in ToSet(s)
  BY <1>1 DEF ToSet
<1>3. s = <<>> <=> Len(s) = 0
  OBVIOUS
<1>4. s # <<>> => 1 \in DOMAIN s
  BY <1>1, <1>3
<1>5. s = <<>> => ToSet(s) = {}
  BY <1>1, <1>3 DEF ToSet
<1> QED
  BY <1>1, <1>2, <1>3, <1>4, <1>5

LEMMA ConcatOf ==
    ASSUME NEW S, NEW s \in Seq(S), NEW t \in Seq(S)
    PROVE  /\ s \o t \in Seq(S) /\ Len(s \o t) = Len(s) + Len(t)
           /\ ToSet(s \o t) = ToSet(s) \cup ToSet(t)
           /\ \A n \in DOMAIN (s \o t) :
                 \/ n \in DOMAIN s /\ (s \o t)[n] = s[n]
                 \/ n \notin DOMAIN s /\ n - Len(s) \in DOMAIN t /\ (s \o t)[n] = t[n - Len(s)]
<1>1. /\ s \o t \in Seq(S) /\ Len(s \o t) = Len(s) + Len(t)
      /\ \A n \in 1..(Len(s) + Len(t)) : (s \o t)[n] = IF n <= Len(s) THEN s[n] ELSE t[n - Len(s)]
  BY ConcatProperties
<1>2. /\ DOMAIN (s \o t) = 1..(Len(s) + Len(t)) /\ DOMAIN s = 1..Len(s) /\ DOMAIN t = 1..Len(t)
      /\ Len(s) \in Nat /\ Len(t) \in Nat
  BY <1>1
<1>3. \A n \in DOMAIN (s \o t) :
         \/ n \in DOMAIN s /\ (s \o t)[n] = s[n]
         \/ n \notin DOMAIN s /\ n - Len(s) \in DOMAIN t /\ (s \o t)[n] = t[n - Len(s)]
  BY <1>1, <1>2
<1>4. \A n \in DOMAIN s : n \in DOMAIN (s \o t) /\ (s \o t)[n] = s[n]
  BY <1>1, <1>2
<1>5. \A n \in DOMAIN t : n + Len(s) \in DOMAIN (s \o t) /\ (s \o t)[n + Len(s)] = t[n]
  BY <1>1, <1>2
<1>6. ToSet(s) \subseteq ToSet(s \o t)
  BY <1>4 DEF ToSet
<1>7. ToSet(t) \subseteq ToSet(s \o t)
  BY <1>5 DEF ToSet
<1>8. ASSUME NEW x \in ToSet(s \o t) PROVE x \in ToSet(s) \cup ToSet(t)
  <2>1. PICK n \in DOMAIN (s \o t) : x = (s \o t)[n]
    BY DEF ToSet
  <2> QED
    BY <2>1, <1>3 DEF ToSet
<1> QED
  BY <1>1, <1>3, <1>6, <1>7, <1>8

LEMMA ConcatInjective ==
    ASSUME NEW S, NEW s \in Seq(S), NEW t \in Seq(S),
           IsInjective(s), IsInjective(t), ToSet(s) \cap ToSet(t) = {}
    PROVE  IsInjective(s \o t)
<1> SUFFICES ASSUME NEW n \in DOMAIN (s \o t), NEW k \in DOMAIN (s \o t), (s \o t)[n] = (s \o t)[k]
             PROVE  n = k
  BY DEF IsInjective
<1>1. \A j \in DOMAIN (s \o t) :
         \/ j \in DOMAIN s /\ (s \o t)[j] = s[j]
         \/ j \notin DOMAIN s /\ j - Len(s) \in DOMAIN t /\ (s \o t)[j] = t[j - Len(s)]
  BY ConcatOf
<1>2. (\A j \in DOMAIN s : s[j] \in ToSet(s)) /\ (\A j \in DOMAIN t : t[j] \in ToSet(t))
  BY ElementsOf
<1>3. n \in Int /\ k \in Int /\ Len(s) \in Nat
  BY ConcatOf, ElementsOf
<1>4. CASE n \in DOMAIN s /\ k \in DOMAIN s
  BY <1>1, <1>4 DEF IsInjective
<1>5. CASE n \in DOMAIN s <=> k \notin DOMAIN s
  BY <1>1, <1>2, <1>5
<1>6. CASE n \notin DOMAIN s /\ k \notin DOMAIN s
  <2>1. n - Len(s) = k - Len(s)
    BY <1>1, <1>6 DEF IsInjective
  <2> QED
    BY <2>1, <1>3
<1> QED
  BY <1>4, <1>5, <1>6

LEMMA InitialOf ==
    ASSUME NEW S, NEW s \in Seq(S), NEW n \in 0..Len(s)
    PROVE  /\ SubSeq(s, 1, n) \in Seq(S) /\ Len(SubSeq(s, 1, n)) = n
           /\ DOMAIN SubSeq(s, 1, n) = 1..n
           /\ \A k \in 1..n : k \in DOMAIN s /\ SubSeq(s, 1, n)[k] = s[k]
           /\ ToSet(SubSeq(s, 1, n)) \subseteq ToSet(s)
           /\ IsInjective(s) => IsInjective(SubSeq(s, 1, n))
           /\ SubSeq(s, 1, Len(s)) = s
<1>1. /\ SubSeq(s, 1, n) \in Seq(S) /\ Len(SubSeq(s, 1, n)) = n
      /\ \A k \in 1..n : SubSeq(s, 1, n)[k] = s[k]
  <2>1. /\ SubSeq(s, 1, n) \in Seq(S)
        /\ Len(SubSeq(s, 1, n)) = IF 1 <= n THEN n - 1 + 1 ELSE 0
        /\ \A i \in 1..(n - 1 + 1) : SubSeq(s, 1, n)[i] = s[1 + i - 1]
    BY SubSeqProperties
  <2> QED
    BY <2>1
<1>2. DOMAIN SubSeq(s, 1, n) = 1..n /\ \A k \in 1..n : k \in DOMAIN s
  BY <1>1
<1>3. ToSet(SubSeq(s, 1, n)) \subseteq ToSet(s)
  BY <1>1, <1>2 DEF ToSet
<1>4. IsInjective(s) => IsInjective(SubSeq(s, 1, n))
  BY <1>1, <1>2 DEF IsInjective
<1>5. SubSeq(s, 1, Len(s)) = s
  BY SubSeqFull
<1> QED
  BY <1>1, <1>2, <1>3, <1>4, <1>5

LEMMA ConcatPrefix ==
    ASSUME NEW S, NEW s \in Seq(S), NEW t \in Seq(S)
    PROVE  IsPrefix(s, s \o t)
<1>1. SubSeq(s \o t, 1, Len(s)) = SubSeq(s, 1, Len(s)) /\ Len(s \o t) = Len(s) + Len(t) /\ Len(s) \in Nat /\ Len(t) \in Nat
  BY SubSeqOfConcat1, ConcatOf, ElementsOf
<1> QED
  BY <1>1 DEF IsPrefix

\* A sequence without x is one over the other elements.
LEMMA Without ==
    ASSUME NEW S, NEW x, NEW s \in Seq(S \cup {x}), x \notin ToSet(s)
    PROVE  s \in Seq(S)
<1>1. Len(s) \in Nat /\ s \in [1..Len(s) -> S \cup {x}] /\ \A n \in 1..Len(s) : s[n] # x
  BY ElementsOf DEF ToSet
<1>2. s \in [1..Len(s) -> S]
  BY <1>1
<1> QED
  BY <1>1, <1>2, IsASeq

LEMMA PrefixOf ==
    ASSUME NEW S, NEW s \in Seq(S), NEW t \in Seq(S), IsPrefix(s, t)
    PROVE  ToSet(s) \subseteq ToSet(t)
<1>1. Len(s) \in 0..Len(t) /\ s = SubSeq(t, 1, Len(s))
  BY InitialOf DEF IsPrefix
<1> QED
  BY <1>1, InitialOf

-----------------------------------------------------------------------------
(* Batches and operations *)

LEMMA BatchOf ==
    ASSUME NEW b \in Batches
    PROVE  /\ b \in Seq(Commands) /\ b \in Seq(Commands \cup {Corrupt})
           /\ b # <<>> /\ Len(b) \in Nat \ {0} /\ IsInjective(b)
           /\ ToSet(b) \subseteq Commands /\ Corrupt \notin ToSet(b)
<1>1. PICK m \in 0..BatchSize : b \in [1..m -> Commands]
  BY DEF Batches, SeqOf
<1>2. b \in Seq(Commands) /\ b \in Seq(Commands \cup {Corrupt})
  <2>1. m \in Nat
    BY <1>1, JournalAssumption
  <2>2. b \in [1..m -> Commands \cup {Corrupt}]
    BY <1>1
  <2> QED
    BY <1>1, <2>1, <2>2, IsASeq
<1>3. b # <<>> /\ IsInjective(b)
  BY DEF Batches
<1>4. ToSet(b) \subseteq Commands /\ (b = <<>> <=> Len(b) = 0) /\ Len(b) \in Nat
  BY <1>2, ElementsOf
<1> QED
  BY <1>2, <1>3, <1>4, JournalAssumption

LEMMA SingleBatch ==
    ASSUME NEW c \in Commands
    PROVE  <<c>> \in Batches /\ Len(<<c>>) = 1 /\ ToSet(<<c>>) = {c}
<1>1. <<c>> \in [1..1 -> Commands] /\ <<c>> # <<>> /\ Len(<<c>>) = 1 /\ DOMAIN <<c>> = {1} /\ <<c>>[1] = c
  OBVIOUS
<1>2. 1 \in 0..BatchSize
  BY JournalAssumption
<1>3. IsInjective(<<c>>) /\ ToSet(<<c>>) = {c}
  BY <1>1 DEF IsInjective, ToSet
<1> QED
  BY <1>1, <1>2, <1>3 DEF Batches, SeqOf

\* What the fields of an operation may be.
LEMMA OpOf ==
    ASSUME TypeOK
    PROVE  /\ op.replace \in BOOLEAN /\ op.fresh \in BOOLEAN /\ op.ok \in BOOLEAN
           /\ op.pc \in Pcs
           /\ op.batch \in Seq(Commands) /\ ToSet(op.batch) \subseteq Commands
<1>1. op \in Ops
  BY DEF TypeOK
<1>2. op.batch \in Seq(Commands)
  <2>1. CASE op.batch = <<>>
    BY <2>1
  <2>2. CASE op.batch \in Batches
    BY <2>2, BatchOf
  <2> QED
    BY <1>1, <2>1, <2>2 DEF Ops
<1>3. ToSet(op.batch) \subseteq Commands
  BY <1>2, ElementsOf
<1>4. op.replace \in BOOLEAN /\ op.fresh \in BOOLEAN /\ op.ok \in BOOLEAN /\ op.pc \in Pcs
  BY <1>1 DEF Ops
<1> QED
  BY <1>2, <1>3, <1>4

\* A step of an operation changes where it is, and at most whether it succeeds.
LEMMA OpMoves ==
    ASSUME TypeOK, NEW p \in Pcs, op' = [op EXCEPT !.pc = p] \/ op' = [op EXCEPT !.pc = p, !.ok = FALSE]
    PROVE  op' \in Ops /\ op'.pc = p /\ op'.batch = op.batch /\ op'.replace = op.replace
<1>1. op \in Ops
  BY DEF TypeOK
<1> QED
  BY <1>1 DEF Ops

LEMMA NoOpOf == NoOp \in Ops /\ NoOp.pc = "idle" /\ NoOp.batch = <<>> /\ ToSet(<<>>) = {} /\ ToSet(NoOuter.batch) = {}
<1>1. ToSet(<<>>) = {}
  BY DEF ToSet
<1>2. NoOp \in Ops
  BY DEF NoOp, Ops, Pcs
<1> QED
  BY <1>1, <1>2 DEF NoOp, NoOuter

LEMMA Initially == Init => IInv
<1> SUFFICES ASSUME Init PROVE IInv
  OBVIOUS
<1>1. TypeOK
  <2>1. lines \in Seq(Commands \cup {Corrupt}) /\ log \in Seq(Commands) /\ queue \in Seq(Batches) /\ Len(lines) = 0 /\ Len(log) = 0
    BY DEF Init
  <2>2. op \in Ops /\ outer \in [batch : Batches \cup {<<>>}, ok : BOOLEAN] /\ done \in 0..Listeners
    BY NoOpOf, JournalAssumption DEF Init, NoOuter
  <2>3. seen \in [1..Listeners -> Seq(Commands)]
    BY DEF Init
  <2>4. durable \in 0..Len(lines) /\ base \in 0..Len(log)
    BY <2>1 DEF Init
  <2> QED
    BY <2>1, <2>2, <2>3, <2>4 DEF Init, TypeOK
<1>2. Steps
  <2>1. op = NoOp /\ op.pc = "idle"
    BY NoOpOf DEF Init
  <2> QED
    BY <2>1 DEF Steps, ReplacePcs, Writing, Written1
<1>3. File
  BY NoOpOf DEF Init, File, IsInjective
<1>4. Memory
  <2>1. op.pc = "idle" /\ ~failed /\ ~locked /\ lines = log /\ ~torn
    BY NoOpOf DEF Init
  <2> QED
    BY <2>1 DEF Memory, Written1
<1>5. PayloadsKept /\ AnswersKept
  BY NoOpOf DEF Init, PayloadsKept, AnswersKept
<1>6. Durable
  BY NoOpOf DEF Init, Durable, Committed
<1> QED
  BY <1>1, <1>2, <1>3, <1>4, <1>5, <1>6 DEF IInv

-----------------------------------------------------------------------------
(* Steps of an operation that touch neither the journal file nor the memory *)

Moves(p) ==
    /\ up /\ op' \in Ops /\ op'.pc = p /\ op'.batch = op.batch /\ op'.replace = op.replace
    /\ UNCHANGED <<hasFile, lines, torn, memoryVars, publishVars, clientVars, powerFails>>
    /\ {directory', temp', nameDurable'} \subseteq BOOLEAN
    /\ durable' \in {durable, Len(lines)}
    /\ payloads \subseteq payloads' /\ payloads' \subseteq Large
    /\ durablePayloads \subseteq durablePayloads' /\ durablePayloads' \subseteq payloads'
    /\ \/ op.pc = "mkdir" /\ p = "serialize"
       \/ op.pc = "serialize" /\ p = "syncPayloads" /\ ToSet(op.batch) \cap Large \subseteq payloads'
       \/ op.pc = "syncPayloads" /\ p = (IF op.replace THEN "temp" ELSE "write") /\ durablePayloads' = payloads
       \/ op.pc = "sync" /\ p = "commit" /\ durable' = Len(lines)
       \/ op.pc = "temp" /\ p = "rename"
       \/ op.pc = "syncDirectory" /\ p = "publish"

LEMMA SyncedGrows ==
    ASSUME NEW S, NEW s \in Seq(S), NEW n \in 0..Len(s), NEW m \in n..Len(s)
    PROVE  ToSet(SubSeq(s, 1, n)) \subseteq ToSet(SubSeq(s, 1, m))
<1>1. m \in 0..Len(s) /\ n <= m
  BY ElementsOf
<1>2. /\ DOMAIN SubSeq(s, 1, n) = 1..n /\ \A k \in 1..n : SubSeq(s, 1, n)[k] = s[k]
      /\ DOMAIN SubSeq(s, 1, m) = 1..m /\ \A k \in 1..m : SubSeq(s, 1, m)[k] = s[k]
  BY <1>1, InitialOf
<1>3. 1..n \subseteq 1..m
  BY <1>1
<1> QED
  BY <1>2, <1>3 DEF ToSet

LEMMA MovesKeep ==
    ASSUME IInv, NEW p \in Pcs, Moves(p)
    PROVE  IInv' /\ Synced \subseteq Synced'
<1> USE DEF Moves, memoryVars, publishVars, clientVars
<1>1. lines \in Seq(Commands \cup {Corrupt}) /\ Len(lines) \in Nat /\ durable \in 0..Len(lines) /\ durable' \in 0..Len(lines) /\ durable <= durable'
  BY ElementsOf DEF IInv, TypeOK
<1>2. TypeOK'
  BY <1>1 DEF IInv, TypeOK
<1>3. Steps'
  <2>1. op.pc # "idle" /\ Open /\ Open' /\ op'.pc = p /\ p # "idle" /\ op'.batch \in Batches
        /\ (~op.replace => hasFile /\ Len(op.batch) = 1)
    BY NoOpOf DEF IInv, Steps, Open
  <2>2. (p \in ReplacePcs => op.replace) /\ (p \in {"write", "sync"} => ~op.replace)
    BY <2>1, OpOf DEF IInv, Steps, ReplacePcs
  <2>3. p \in Writing \cup Written1 =>
           (op.replace => log = <<>>) /\ ToSet(op.batch) \cap ToSet(log) = {}
    BY <2>1 DEF IInv, Steps, Writing, Written1
  <2> QED
    BY <2>1, <2>2, <2>3 DEF Steps
<1>4. File'
  BY <1>1 DEF IInv, File
<1>5. Memory'
  BY DEF IInv, Memory, Open, Written1
<1>6. PayloadsKept'
  BY DEF IInv, PayloadsKept
<1>7. Synced \subseteq Synced'
  BY <1>1, SyncedGrows DEF Synced
<1>8. Durable'
  BY <1>1, <1>7 DEF IInv, Durable, Committed
<1>9. AnswersKept'
  BY DEF IInv, AnswersKept
<1> QED
  BY <1>2, <1>3, <1>4, <1>5, <1>6, <1>7, <1>8, <1>9 DEF IInv

LEMMA PreparingMoves ==
    ASSUME IInv, UNCHANGED powerFails,
           MakeDirectory \/ StorePayloads \/ SyncPayloads \/ SyncFile \/ WriteTemp \/ SyncDirectory \/ FailSyncDirectory
    PROVE  \E p \in Pcs : Moves(p)
<1> USE DEF At, GoTo, diskVars, memoryVars, publishVars, clientVars
<1>1. /\ TypeOK /\ payloads \subseteq Large /\ durablePayloads \subseteq payloads
      /\ {directory, temp, hasFile, torn, nameDurable, up, locked, failed} \subseteq BOOLEAN
  BY DEF IInv, TypeOK
<1>2. CASE MakeDirectory
  <2>1. "serialize" \in Pcs /\ op' = [op EXCEPT !.pc = "serialize"]
    BY <1>2 DEF MakeDirectory, Pcs
  <2> QED
    BY <1>1, <1>2, <2>1, OpMoves DEF MakeDirectory, Moves
<1>3. CASE StorePayloads
  <2>1. "syncPayloads" \in Pcs /\ op' = [op EXCEPT !.pc = "syncPayloads"]
    BY <1>3 DEF StorePayloads, Pcs
  <2> QED
    BY <1>1, <1>3, <2>1, OpMoves DEF StorePayloads, Moves
<1>4. CASE SyncPayloads
  <2> DEFINE p == IF op.replace THEN "temp" ELSE "write"
  <2>1. p \in Pcs /\ op' = [op EXCEPT !.pc = p]
    BY <1>4 DEF SyncPayloads, Pcs
  <2> QED
    BY <1>1, <1>4, <2>1, OpMoves DEF SyncPayloads, Moves
<1>5. CASE SyncFile
  <2>1. "commit" \in Pcs /\ op' = [op EXCEPT !.pc = "commit"]
    BY <1>5 DEF SyncFile, Pcs
  <2> QED
    BY <1>1, <1>5, <2>1, OpMoves DEF SyncFile, Moves
<1>6. CASE WriteTemp
  <2>1. "rename" \in Pcs /\ op' = [op EXCEPT !.pc = "rename"]
    BY <1>6 DEF WriteTemp, Pcs
  <2> QED
    BY <1>1, <1>6, <2>1, OpMoves DEF WriteTemp, Moves
<1>7. CASE SyncDirectory
  <2>1. "publish" \in Pcs /\ op' = [op EXCEPT !.pc = "publish"]
    BY <1>7 DEF SyncDirectory, Pcs
  <2> QED
    BY <1>1, <1>7, <2>1, OpMoves DEF SyncDirectory, Moves
<1>8. CASE FailSyncDirectory
  <2>1. "publish" \in Pcs /\ op' = [op EXCEPT !.pc = "publish", !.ok = FALSE]
    BY <1>8 DEF FailSyncDirectory, Pcs
  <2> QED
    BY <1>1, <1>8, <2>1, OpMoves DEF FailSyncDirectory, Moves
<1> QED
  BY <1>2, <1>3, <1>4, <1>5, <1>6, <1>7, <1>8

-----------------------------------------------------------------------------
(* The steps that write the file, and the commit *)

\* A run that is up and writes has in memory what its file holds.
LEMMA OpenFile ==
    ASSUME IInv, up, op.pc # "idle"
    PROVE  /\ Open /\ ~torn /\ op.batch \in Batches
           /\ lines = IF op.pc \in Written1 THEN log \o op.batch ELSE log
           /\ Corrupt \notin ToSet(lines)
<1>1. Open /\ op.batch \in Batches
  BY NoOpOf DEF IInv, Steps
<1>2. Corrupt \notin ToSet(lines)
  BY <1>1 DEF IInv, File, Open, ToSet
<1> QED
  BY <1>1, <1>2 DEF IInv, Memory

\* Adding a batch of new records to the records in memory.
LEMMA NewRecords ==
    ASSUME TypeOK, NEW b \in Batches, IsInjective(log), ToSet(b) \cap ToSet(log) = {}
    PROVE  /\ log \o b \in Seq(Commands) /\ log \o b \in Seq(Commands \cup {Corrupt})
           /\ Len(log \o b) = Len(log) + Len(b) /\ Len(log) \in Nat /\ Len(b) \in Nat \ {0}
           /\ IsInjective(log \o b)
           /\ ToSet(log \o b) = ToSet(log) \cup ToSet(b) /\ Corrupt \notin ToSet(log \o b)
<1>1. log \in Seq(Commands) /\ b \in Seq(Commands)
  BY BatchOf DEF TypeOK
<1>2. ToSet(log \o b) = ToSet(log) \cup ToSet(b) /\ Corrupt \notin ToSet(log \o b)
  BY <1>1, ConcatOf, ElementsOf, JournalAssumption
<1>3. log \o b \in Seq(Commands) /\ Len(log \o b) = Len(log) + Len(b) /\ Len(log) \in Nat /\ Len(b) \in Nat \ {0}
  BY <1>1, ConcatOf, BatchOf
<1>4. IsInjective(log \o b)
  BY <1>1, ConcatInjective, BatchOf
<1>5. log \o b \in Seq(Commands \cup {Corrupt})
  BY <1>3
<1> QED
  BY <1>2, <1>3, <1>4, <1>5

LEMMA WriteLineKeeps ==
    ASSUME IInv, WriteLine, UNCHANGED powerFails
    PROVE  IInv' /\ Synced \subseteq Synced' /\ lines' = lines \o op.batch
<1> USE DEF WriteLine, At, GoTo, memoryVars, publishVars, clientVars
<1>1. Open /\ ~torn /\ op.batch \in Batches /\ lines = log /\ IsInjective(log)
  BY OpenFile DEF Written1, IInv, File
<1>2. /\ ToSet(op.batch) \cap ToSet(log) = {} /\ ~op.replace /\ hasFile /\ Len(op.batch) = 1
      /\ ToSet(op.batch) \cap Large \subseteq durablePayloads /\ up
  BY DEF IInv, Steps, Writing, PayloadsKept
<1>3. lines' = log \o op.batch /\ ~torn' /\ op'.pc = "sync" /\ op'.batch = op.batch /\ op'.replace = op.replace /\ op' \in Ops
  BY <1>1, OpMoves DEF Written, Pcs, IInv
<1> HIDE DEF GoTo
<1>4. /\ lines' \in Seq(Commands \cup {Corrupt}) /\ Len(lines') = Len(lines) + 1 /\ Len(lines) \in Nat
      /\ IsInjective(lines') /\ ToSet(lines') = ToSet(lines) \cup ToSet(op.batch) /\ Corrupt \notin ToSet(lines')
  BY <1>1, <1>2, <1>3, NewRecords DEF IInv
<1>5. Synced' = Synced
  <2>1. lines \in Seq(Commands) /\ op.batch \in Seq(Commands) /\ durable \in 0..Len(lines)
    BY <1>1, BatchOf DEF IInv, TypeOK
  <2>2. SubSeq(lines', 1, durable) = SubSeq(lines, 1, durable)
    BY <1>1, <1>3, <2>1, SubSeqOfConcat1
  <2> QED
    BY <2>2 DEF Synced
<1>6. TypeOK'
  <2>1. durable' \in 0..Len(lines')
    BY <1>4 DEF IInv, TypeOK
  <2> QED
    BY <1>3, <1>4, <2>1 DEF IInv, TypeOK
<1>7. Steps'
  BY <1>1, <1>2, <1>3 DEF IInv, Steps, ReplacePcs, Writing, Written1, Open
<1>8. File'
  BY <1>1, <1>2, <1>4, ElementsOf DEF IInv, File
<1>9. Memory'
  BY <1>1, <1>3 DEF IInv, Memory, Open, Written1
<1>10. PayloadsKept'
  BY <1>2, <1>3, <1>4 DEF IInv, PayloadsKept
<1>11. Durable'
  BY <1>3, <1>5 DEF IInv, Durable, Committed
<1>12. AnswersKept'
  BY <1>4 DEF IInv, AnswersKept
<1> QED
  BY <1>1, <1>3, <1>5, <1>6, <1>7, <1>8, <1>9, <1>10, <1>11, <1>12 DEF IInv

LEMMA RenameKeeps ==
    ASSUME IInv, Rename, UNCHANGED powerFails
    PROVE  IInv' /\ Synced \subseteq Synced' /\ lines' = lines \o op.batch
<1> USE DEF Rename, At, memoryVars, publishVars, clientVars
<1>1. Open /\ op.batch \in Batches /\ lines = log
  BY OpenFile DEF Written1
<1>2. log = <<>> /\ lines = <<>> /\ op.replace /\ up /\ ToSet(op.batch) \cap Large \subseteq durablePayloads
  BY <1>1, OpOf DEF IInv, Steps, ReplacePcs, Writing, PayloadsKept
<1>3. /\ lines' = op.batch /\ ~torn' /\ hasFile' /\ durable' = Len(lines')
      /\ op'.pc = "commit" /\ op'.batch = op.batch /\ op'.replace = op.replace /\ op' \in Ops
  BY OpMoves DEF Pcs, IInv, GoTo
<1>4. /\ lines' \in Seq(Commands \cup {Corrupt}) /\ lines' = log \o op.batch /\ Len(lines') \in Nat
      /\ IsInjective(lines') /\ Corrupt \notin ToSet(lines')
  BY <1>1, <1>2, <1>3, BatchOf
<1>5. ToSet(log) = {} /\ ToSet(outer.batch) = {} /\ ToSet(lines) = {}
  BY <1>2, NoOpOf DEF IInv, Durable
<1>6. TypeOK'
  <2>1. durable' \in 0..Len(lines')
    BY <1>3, <1>4
  <2> QED
    BY <1>3, <1>4, <2>1 DEF IInv, TypeOK
<1>7. Steps'
  BY <1>1, <1>2, <1>3, <1>5 DEF Steps, ReplacePcs, Writing, Written1, Open
<1>8. File'
  <2>1. \A n \in DOMAIN lines' : lines'[n] # Corrupt
    BY <1>4 DEF ToSet
  <2> QED
    BY <1>3, <1>4, <2>1 DEF File
<1>9. Memory'
  BY <1>1, <1>3, <1>4 DEF Memory, Open, Written1
<1>10. PayloadsKept'
  BY <1>2, <1>3 DEF IInv, PayloadsKept
<1>11. Durable'
  BY <1>2, <1>3, <1>5 DEF IInv, Durable, Committed
<1>12. AnswersKept'
  BY <1>5 DEF IInv, AnswersKept
<1>13. Synced \subseteq Synced'
  BY <1>2, <1>5, ElementsOf, InitialOf DEF Synced, IInv, TypeOK
<1> QED
  BY <1>1, <1>4, <1>6, <1>7, <1>8, <1>9, <1>10, <1>11, <1>12, <1>13 DEF IInv

LEMMA CommitKeeps ==
    ASSUME IInv, Commit, UNCHANGED powerFails
    PROVE  IInv'
<1> USE DEF Commit, At, diskVars, publishVars, clientVars
<1>1. Open /\ ~torn /\ op.batch \in Batches /\ lines = log \o op.batch
  BY OpenFile DEF Written1
<1> DEFINE p == IF op.replace THEN "syncDirectory" ELSE "publish"
<1>2. op'.pc = p /\ op'.batch = op.batch /\ op'.replace = op.replace /\ op' \in Ops
  BY OpMoves DEF Pcs, IInv, GoTo
<1>3. /\ log \in Seq(Commands) /\ op.batch \in Seq(Commands) /\ log' = log \o op.batch
      /\ log' \in Seq(Commands) /\ Len(log') = Len(log) + Len(op.batch) /\ ToSet(log') = ToSet(log) \cup ToSet(op.batch)
      /\ Len(log) \in Nat /\ Len(op.batch) \in Nat
  BY <1>1, BatchOf, ConcatOf, ElementsOf DEF IInv, TypeOK
<1>4. op.replace \in BOOLEAN /\ durable = Len(lines)
  BY OpOf DEF IInv, Durable
<1>5. TypeOK'
  <2>1. base' \in 0..Len(log')
    BY <1>3 DEF IInv, TypeOK
  <2> QED
    BY <1>2, <1>3, <2>1 DEF IInv, TypeOK
<1>6. Steps'
  BY <1>1, <1>2, <1>4 DEF IInv, Steps, ReplacePcs, Writing, Written1, Open
<1>7. File'
  BY DEF IInv, File
<1>8. Memory'
  BY <1>1, <1>2, <1>3 DEF IInv, Memory, Open, Written1
<1>9. PayloadsKept'
  BY <1>2 DEF IInv, PayloadsKept
<1>10. Durable'
  BY <1>2, <1>3, <1>4 DEF IInv, Durable, Committed, Synced
<1>11. AnswersKept'
  BY DEF IInv, AnswersKept
<1> QED
  BY <1>5, <1>6, <1>7, <1>8, <1>9, <1>10, <1>11 DEF IInv

-----------------------------------------------------------------------------
(* Calls that fail *)

\* Without an operation most of the invariant is about file and memory alone.
LEMMA PreparingFails ==
    ASSUME IInv, FailPreparing, UNCHANGED powerFails
    PROVE  IInv'
<1> USE DEF FailPreparing, memoryVars, publishVars, clientVars
<1>1. op' = NoOp /\ op'.pc = "idle" /\ op' \in Ops
  BY NoOpOf
<1>2. Open /\ ~torn /\ lines = log
  BY OpenFile DEF Written1
<1>3. TypeOK'
  <2>1. directory' \in BOOLEAN /\ temp' \in BOOLEAN
    BY DEF IInv, TypeOK
  <2> QED
    BY <1>1, <2>1 DEF IInv, TypeOK
<1>4. Steps'
  BY <1>1 DEF Steps, ReplacePcs, Writing, Written1
<1>5. File'
  BY DEF IInv, File
<1>6. Memory'
  BY <1>1, <1>2 DEF IInv, Memory, Open, Written1
<1>7. PayloadsKept'
  BY <1>1 DEF IInv, PayloadsKept
<1>8. Durable'
  BY <1>1 DEF IInv, Durable, Committed, Synced
<1>9. AnswersKept'
  BY DEF IInv, AnswersKept
<1> QED
  BY <1>3, <1>4, <1>5, <1>6, <1>7, <1>8, <1>9 DEF IInv

LEMMA WritingFails ==
    ASSUME IInv, FailWriting, UNCHANGED powerFails
    PROVE  /\ IInv' /\ Synced \subseteq Synced'
           /\ lines' = lines \/ (op.batch \in Batches /\ lines' = lines \o op.batch)
<1>1. op' = NoOp /\ op'.pc = "idle" /\ op' \in Ops
  BY NoOpOf DEF FailWriting
<1>2. /\ failed' = TRUE /\ UNCHANGED <<up, locked, log, base, publishVars, clientVars, powerFails>>
      /\ UNCHANGED <<directory, temp, hasFile, durable, nameDurable, payloads, durablePayloads>>
      /\ up /\ op.pc \in {"write", "sync"}
  BY DEF FailWriting, At
<1>3. /\ Open /\ ~torn /\ op.batch \in Batches /\ Corrupt \notin ToSet(lines)
      /\ lines = IF op.pc = "sync" THEN log \o op.batch ELSE log
  BY <1>2, OpenFile DEF Written1
<1>4. hasFile /\ Len(op.batch) = 1 /\ ToSet(op.batch) \cap ToSet(log) = {}
  BY <1>2 DEF IInv, Steps, Writing, Written1
<1>5. /\ torn' \in BOOLEAN
      /\ lines' = lines \/ (op.pc = "write" /\ lines' = log \o op.batch)
  BY <1>3 DEF FailWriting, At, Written, IInv, TypeOK
<1>6. /\ log \in Seq(Commands) /\ op.batch \in Seq(Commands) /\ Len(log) \in Nat
      /\ IsPrefix(log, log \o op.batch) /\ Len(log \o op.batch) = Len(log) + Len(op.batch)
      /\ ToSet(log \o op.batch) = ToSet(log) \cup ToSet(op.batch)
  <2>1. log \in Seq(Commands) /\ op.batch \in Seq(Commands) /\ Len(log) \in Nat
    BY <1>3, BatchOf, ElementsOf DEF IInv, TypeOK
  <2>2. IsPrefix(log, log \o op.batch)
    BY <2>1, ConcatPrefix
  <2>3. Len(log \o op.batch) = Len(log) + Len(op.batch) /\ ToSet(log \o op.batch) = ToSet(log) \cup ToSet(op.batch)
    BY <2>1, ConcatOf
  <2> QED
    BY <2>1, <2>2, <2>3
<1>7. /\ lines' \in Seq(Commands \cup {Corrupt}) /\ IsInjective(lines') /\ Corrupt \notin ToSet(lines')
      /\ lines' = log \/ lines' = log \o op.batch
  <2>1. CASE lines' = lines
    BY <2>1, <1>2, <1>3, <1>5 DEF IInv, TypeOK, File
  <2>2. CASE op.pc = "write" /\ lines' = log \o op.batch
    BY <2>2, <1>3, <1>4, NewRecords DEF IInv, File
  <2> QED
    BY <1>5, <2>1, <2>2
<1>8. IsPrefix(log, lines') /\ Len(lines') <= Len(log) + 1
  <2>1. CASE lines' = log
    BY <2>1, <1>6 DEF IsPrefix
  <2>2. CASE lines' = log \o op.batch
    BY <2>2, <1>4, <1>6
  <2> QED
    BY <1>7, <2>1, <2>2
<1>9. /\ ToSet(lines) \subseteq ToSet(lines') /\ Synced' = Synced /\ durable' \in 0..Len(lines')
      /\ ToSet(lines') \cap Large \subseteq durablePayloads
  <2>1. CASE lines' = lines
    BY <2>1, <1>2 DEF IInv, TypeOK, PayloadsKept, Synced
  <2>2. CASE op.pc = "write" /\ lines' = log \o op.batch
    <3>1. lines = log /\ ToSet(lines') = ToSet(lines) \cup ToSet(op.batch) /\ Len(lines') = Len(lines) + 1
      BY <2>2, <1>3, <1>4, <1>6
    <3>2. SubSeq(lines', 1, durable) = SubSeq(lines, 1, durable)
      BY <2>2, <3>1, <1>6, SubSeqOfConcat1 DEF IInv, TypeOK
    <3>3. durable' \in 0..Len(lines')
      BY <3>1, <1>2, <1>6 DEF IInv, TypeOK
    <3> QED
      BY <2>2, <3>1, <3>2, <3>3, <1>2 DEF IInv, PayloadsKept, Synced
  <2> QED
    BY <1>5, <2>1, <2>2
<1>10. TypeOK'
  BY <1>1, <1>2, <1>5, <1>7, <1>9 DEF IInv, TypeOK, publishVars, clientVars
<1>11. Steps'
  BY <1>1 DEF Steps, ReplacePcs, Writing, Written1
<1>12. File'
  <2>1. \A n \in DOMAIN lines' : lines'[n] # Corrupt
    BY <1>7 DEF ToSet
  <2> QED
    BY <1>2, <1>4, <1>7, <2>1 DEF File
<1>13. Memory'
  BY <1>2, <1>3, <1>8 DEF Memory, Open
<1>14. PayloadsKept'
  BY <1>1, <1>2, <1>9 DEF IInv, PayloadsKept, clientVars
<1>15. Durable'
  BY <1>1, <1>2, <1>9 DEF IInv, Durable, Committed, publishVars
<1>16. AnswersKept'
  BY <1>2, <1>9 DEF IInv, AnswersKept, clientVars
<1> QED
  BY <1>3, <1>5, <1>9, <1>10, <1>11, <1>12, <1>13, <1>14, <1>15, <1>16 DEF IInv

-----------------------------------------------------------------------------
(* Calls, publication and answers: file and memory stay as they are *)

LEMMA NewOp ==
    ASSUME NEW p \in {"serialize", "mkdir"}, NEW b \in Batches, NEW r \in BOOLEAN, NEW f \in BOOLEAN,
           op' = [NoOp EXCEPT !.pc = p, !.batch = b, !.replace = r, !.fresh = f]
    PROVE  op' \in Ops /\ op'.pc = p /\ op'.batch = b /\ op'.replace = r
BY DEF NoOp, Ops, Pcs

LEMMA BeginKeeps ==
    ASSUME IInv, UNCHANGED powerFails, (\E c \in Commands : Append1(c)) \/ (\E b \in Batches : Adopt(b))
    PROVE  IInv'
<1>1. UNCHANGED <<diskVars, memoryVars, publishVars, clientVars, powerFails>> /\ Open /\ op.pc = "idle"
  BY DEF Append1, Adopt, Open, MayCall, Idle
<1>2. /\ op' \in Ops /\ op'.pc \in {"serialize", "mkdir"} /\ op'.batch \in Batches
      /\ op'.pc = "mkdir" => op'.replace
      /\ ~op'.replace => hasFile /\ Len(op'.batch) = 1
      /\ op'.replace => log = <<>>
      /\ ToSet(op'.batch) \cap ToSet(log) = {}
  <2>1. /\ op.pc = "idle" => lines = log
        /\ ~hasFile => lines = <<>>
        /\ hasFile \in BOOLEAN /\ directory \in BOOLEAN
        /\ ToSet(<<>>) = {}
    BY <1>1, NoOpOf DEF IInv, Memory, File, TypeOK, Written1
  <2>2. CASE \E c \in Commands : Append1(c)
    <3>1. PICK c \in Commands : Append1(c)
      BY <2>2
    <3>2. <<c>> \in Batches /\ Len(<<c>>) = 1 /\ ToSet(<<c>>) = {c} /\ c \notin ToSet(log)
      BY <3>1, SingleBatch DEF Append1
    <3> DEFINE p == IF hasFile THEN "serialize" ELSE "mkdir"
    <3>3. op' = [NoOp EXCEPT !.pc = p, !.batch = <<c>>, !.replace = ~hasFile, !.fresh = ~directory]
      BY <3>1 DEF Append1
    <3>4. p \in {"serialize", "mkdir"} /\ (~hasFile) \in BOOLEAN /\ (~directory) \in BOOLEAN /\ (p = "mkdir" => ~hasFile)
      BY <2>1
    <3> HIDE DEF p
    <3>5. op' \in Ops /\ op'.pc = p /\ op'.batch = <<c>> /\ op'.replace = ~hasFile
      BY <3>2, <3>3, <3>4, NewOp
    <3> QED
      BY <1>1, <2>1, <3>2, <3>4, <3>5
  <2>3. CASE \E b \in Batches : Adopt(b)
    <3>1. PICK b \in Batches : Adopt(b)
      BY <2>3
    <3>2. op' = [NoOp EXCEPT !.pc = "mkdir", !.batch = b, !.replace = TRUE, !.fresh = ~directory] /\ log = <<>>
      BY <3>1 DEF Adopt
    <3>3. op' \in Ops /\ op'.pc = "mkdir" /\ op'.batch = b /\ op'.replace = TRUE
      BY <2>1, <3>2, NewOp
    <3> QED
      BY <2>1, <3>2, <3>3
  <2> QED
    BY <2>2, <2>3
<1> USE <1>1, <1>2 DEF diskVars, memoryVars, publishVars, clientVars
<1>3. TypeOK'
  BY DEF IInv, TypeOK
<1>4. Steps'
  BY DEF Steps, Open, ReplacePcs
<1>5. File'
  BY DEF IInv, File
<1>6. Memory'
  BY DEF IInv, Memory, Open, Written1
<1>7. PayloadsKept'
  BY DEF IInv, PayloadsKept
<1>8. Durable'
  BY DEF IInv, Durable, Committed, Synced
<1>9. AnswersKept'
  BY DEF IInv, AnswersKept
<1> QED
  BY <1>3, <1>4, <1>5, <1>6, <1>7, <1>8, <1>9 DEF IInv

\* What a call may be told is done: a synced record that the run has taken over.
LEMMA MayAnswer ==
    ASSUME IInv, up
    PROVE  /\ ToSet(log) \subseteq ToSet(lines)
           /\ Synced \subseteq ToSet(lines)
           /\ op.pc \in Committed => lines = log /\ Synced = ToSet(lines)
                                     /\ ToSet(op.batch) \subseteq Synced /\ ToSet(op.batch) \subseteq ToSet(log)
<1>1. lines \in Seq(Commands \cup {Corrupt}) /\ log \in Seq(Commands \cup {Corrupt}) /\ op.batch \in Seq(Commands \cup {Corrupt})
      /\ durable \in 0..Len(lines)
  BY OpOf DEF IInv, TypeOK
<1>2. ToSet(log) \subseteq ToSet(lines)
  <2>1. CASE op.pc # "idle"
    <3>1. lines = log \/ lines = log \o op.batch
      BY <2>1, OpenFile
    <3>2. ToSet(log \o op.batch) = ToSet(log) \cup ToSet(op.batch)
      BY <1>1, ConcatOf
    <3> QED
      BY <3>1, <3>2
  <2>2. CASE op.pc = "idle" /\ Open
    BY <2>2 DEF IInv, Memory, Written1
  <2>3. CASE locked
    BY <2>3, NoOpOf DEF IInv, Memory
  <2>4. CASE failed
    BY <2>4, <1>1, PrefixOf DEF IInv, Memory
  <2> QED
    BY <2>1, <2>2, <2>3, <2>4 DEF Open
<1>3. Synced \subseteq ToSet(lines)
  BY <1>1, InitialOf DEF Synced
<1>4. ASSUME op.pc \in Committed
      PROVE  lines = log /\ Synced = ToSet(lines) /\ ToSet(op.batch) \subseteq Synced /\ ToSet(op.batch) \subseteq ToSet(log)
  <2>1. lines = log /\ durable = Len(lines) /\ ToSet(op.batch) \subseteq ToSet(log)
    BY <1>4, OpenFile DEF Committed, Written1, IInv, Durable
  <2>2. Synced = ToSet(lines)
    BY <1>1, <2>1, InitialOf DEF Synced
  <2> QED
    BY <2>1, <2>2
<1> QED
  BY <1>2, <1>3, <1>4

LEMMA AppendAgainKeeps ==
    ASSUME IInv, UNCHANGED powerFails, NEW c \in Commands, AppendAgain(c)
    PROVE  IInv'
<1> USE DEF AppendAgain, MayCall, Idle, diskVars, memoryVars, publishVars
<1>1. c \in ToSet(lines)
  BY MayAnswer
<1>2. TypeOK'
  BY DEF IInv, TypeOK
<1>3. Steps' /\ Memory'
  BY DEF IInv, Steps, Memory, Open
<1>4. File' /\ PayloadsKept' /\ Durable'
  BY DEF IInv, File, PayloadsKept, Durable, Synced
<1>5. AnswersKept'
  BY <1>1 DEF IInv, AnswersKept
<1> QED
  BY <1>2, <1>3, <1>4, <1>5 DEF IInv

LEMMA PublishKeeps ==
    ASSUME IInv, UNCHANGED powerFails, PublishNested \/ PublishFirst
    PROVE  IInv'
<1> USE DEF diskVars, memoryVars, clientVars
<1>1. /\ UNCHANGED <<diskVars, memoryVars, seen, repeated, powerFails>>
      /\ up /\ op.pc = "publish" /\ op.pc \in Committed
      /\ op' = NoOp /\ op'.pc = "idle" /\ op' \in Ops
  BY NoOpOf DEF PublishNested, PublishFirst, At, Committed
<1>2. /\ Open /\ op.batch \in Batches /\ lines = log /\ Synced = ToSet(lines)
      /\ ToSet(op.batch) \subseteq Synced /\ ToSet(op.batch) \subseteq ToSet(log) /\ ToSet(op.batch) \subseteq Commands
      /\ op.ok \in BOOLEAN
  BY <1>1, OpenFile, MayAnswer, OpOf DEF IInv
<1>3. /\ answered' \subseteq answered \cup ToSet(op.batch)
      /\ outer' = outer \/ outer' = [batch |-> op.batch, ok |-> op.ok]
  BY DEF PublishNested, PublishFirst
<1>4. outer'.batch = outer.batch \/ outer'.batch = op.batch
  BY <1>3
<1>5. TypeOK'
  <2>1. queue' \in Seq(Batches) /\ current' \in Batches \cup {<<>>} /\ done' \in 0..Listeners
        /\ outer' \in [batch : Batches \cup {<<>>}, ok : BOOLEAN]
    <3>1. CASE PublishNested
      BY <3>1, <1>2 DEF PublishNested, IInv, TypeOK
    <3>2. CASE PublishFirst
      BY <3>2, <1>2, JournalAssumption DEF PublishFirst, IInv, TypeOK
    <3> QED
      BY <3>1, <3>2
  <2> QED
    BY <1>1, <1>2, <1>3, <2>1 DEF IInv, TypeOK
<1>6. Steps'
  BY <1>1 DEF Steps, ReplacePcs, Writing, Written1
<1>7. File'
  BY <1>1 DEF IInv, File
<1>8. Memory'
  BY <1>1, <1>2 DEF IInv, Memory, Open, Written1
<1>9. PayloadsKept'
  BY <1>1, <1>2, <1>3 DEF IInv, PayloadsKept
<1>10. Durable'
  BY <1>1, <1>2, <1>4 DEF IInv, Durable, Committed, Synced
<1>11. AnswersKept'
  BY <1>1, <1>2, <1>3 DEF IInv, AnswersKept
<1> QED
  BY <1>5, <1>6, <1>7, <1>8, <1>9, <1>10, <1>11 DEF IInv

LEMMA ListenersKeep ==
    ASSUME IInv, UNCHANGED powerFails, CallListener \/ NextBatch \/ Return
    PROVE  IInv'
<1> USE DEF diskVars, memoryVars, clientVars
<1>1. UNCHANGED <<diskVars, memoryVars, op, repeated, powerFails>> /\ up /\ op.pc = "idle"
  BY DEF CallListener, NextBatch, Return, Idle
<1>2. /\ answered' \subseteq answered \cup ToSet(outer.batch)
      /\ outer' = outer \/ outer' = NoOuter
  BY DEF CallListener, NextBatch, Return
<1>3. ToSet(outer.batch) \subseteq ToSet(lines) /\ ToSet(outer.batch) \subseteq ToSet(log) /\ ToSet(outer.batch) \subseteq Commands
  BY <1>1, MayAnswer, ElementsOf DEF IInv, Durable, TypeOK
<1>4. TypeOK'
  <2>1. CASE CallListener
    <3>1. current \in Seq(Commands) /\ done + 1 \in 1..Listeners /\ done' \in 0..Listeners
      <4>1. CASE current = <<>>
        BY <2>1, <4>1, JournalAssumption DEF CallListener, IInv, TypeOK
      <4>2. CASE current \in Batches
        BY <2>1, <4>2, BatchOf, JournalAssumption DEF CallListener, IInv, TypeOK
      <4> QED
        BY <4>1, <4>2 DEF IInv, TypeOK
    <3>2. seen[done + 1] \in Seq(Commands)
      BY <3>1 DEF IInv, TypeOK
    <3>3. seen[done + 1] \o current \in Seq(Commands)
      BY <3>1, <3>2, ConcatOf
    <3>4. seen' \in [1..Listeners -> Seq(Commands)]
      BY <2>1, <3>3 DEF CallListener, IInv, TypeOK
    <3> QED
      BY <2>1, <1>1, <3>1, <3>4 DEF CallListener, IInv, TypeOK
  <2>2. CASE NextBatch
    <3>1. current' \in Batches /\ queue' \in Seq(Batches) /\ done' \in 0..Listeners
      BY <2>2, JournalAssumption DEF NextBatch, IInv, TypeOK
    <3> QED
      BY <2>2, <1>1, <3>1 DEF NextBatch, IInv, TypeOK
  <2>3. CASE Return
    <3>1. outer' \in [batch : Batches \cup {<<>>}, ok : BOOLEAN] /\ done' \in 0..Listeners
      BY <2>3, JournalAssumption DEF Return, NoOuter
    <3> QED
      BY <2>3, <1>1, <1>2, <1>3, <3>1 DEF Return, IInv, TypeOK
  <2> QED
    BY <2>1, <2>2, <2>3
<1>5. Steps'
  BY <1>1 DEF IInv, Steps, Open
<1>6. File'
  BY <1>1 DEF IInv, File
<1>7. Memory'
  BY <1>1 DEF IInv, Memory, Open
<1>8. PayloadsKept'
  BY <1>1, <1>2, <1>3 DEF IInv, PayloadsKept
<1>9. Durable'
  <2>1. ToSet(outer'.batch) \subseteq ToSet(outer.batch)
    BY <1>2, NoOpOf
  <2> QED
    BY <1>1, <2>1 DEF IInv, Durable, Synced
<1>10. AnswersKept'
  BY <1>1, <1>2, <1>3 DEF IInv, AnswersKept
<1> QED
  BY <1>4, <1>5, <1>6, <1>7, <1>8, <1>9, <1>10 DEF IInv

-----------------------------------------------------------------------------
(* The end of the process, and the next start *)

\* Without a process only the disk and the answers matter.
LEMMA DownKeeps ==
    ASSUME IInv, Down,
           TypeOK', File', PayloadsKept', AnswersKept'
    PROVE  IInv'
<1>1. op' = NoOp /\ op'.pc = "idle" /\ ~up' /\ outer' = NoOuter /\ ToSet(outer'.batch) = {}
  BY NoOpOf DEF Down
<1>2. Steps'
  BY <1>1 DEF Steps, ReplacePcs, Writing, Written1
<1>3. Memory'
  BY <1>1 DEF Memory, Open
<1>4. Durable'
  BY <1>1 DEF Durable, Committed
<1> QED
  BY <1>2, <1>3, <1>4 DEF IInv

LEMMA DownTypes ==
    ASSUME TypeOK, Down
    PROVE  /\ op' \in Ops /\ op'.pc = "idle"
           /\ current' \in Batches \cup {<<>>} /\ queue' \in Seq(Batches) /\ done' \in 0..Listeners
           /\ outer' \in [batch : Batches \cup {<<>>}, ok : BOOLEAN]
           /\ seen' \in [1..Listeners -> Seq(Commands)]
           /\ {up', locked', failed'} \subseteq BOOLEAN
           /\ log' \in Seq(Commands) /\ base' \in 0..Len(log')
           /\ answered' \cup repeated' \subseteq Commands
<1>1. op' \in Ops /\ op'.pc = "idle" /\ outer' \in [batch : Batches \cup {<<>>}, ok : BOOLEAN] /\ done' \in 0..Listeners
  BY NoOpOf, JournalAssumption DEF Down, NoOuter
<1>2. <<>> \in Seq(Commands) /\ <<>> \in Seq(Batches)
  OBVIOUS
<1>3. seen' \in [1..Listeners -> Seq(Commands)]
  BY <1>2 DEF Down
<1> QED
  BY <1>1, <1>2, <1>3 DEF Down, TypeOK, clientVars

LEMMA CrashKeeps ==
    ASSUME IInv, Crash, UNCHANGED powerFails
    PROVE  IInv'
<1> USE DEF Crash
<1>1. UNCHANGED <<directory, temp, hasFile, lines, durable, nameDurable, payloads, durablePayloads, powerFails, clientVars>> /\ ~up'
  BY DEF Down
<1>2. torn' \in BOOLEAN /\ (~hasFile => ~torn')
  <2>1. At("write") => hasFile
    BY NoOpOf DEF At, IInv, Steps
  <2> QED
    BY <2>1 DEF IInv, TypeOK, File, At
<1>3. TypeOK'
  <2> HIDE DEF Crash
  <2> QED
    BY <1>1, <1>2, DownTypes DEF IInv, TypeOK, Crash
<1>4. File'
  BY <1>1, <1>2 DEF IInv, File
<1>5. PayloadsKept' /\ AnswersKept'
  BY <1>1, DownTypes DEF IInv, PayloadsKept, AnswersKept, clientVars
<1> QED
  BY <1>3, <1>4, <1>5, DownKeeps

\* After a loss of power the file is a part of what it was, perhaps with a line that is
\* no record at its end, and has all that was synced.
LEMMA RemainsOf ==
    ASSUME TypeOK, File, Remains
    PROVE  /\ lines' \in Seq(Commands \cup {Corrupt}) /\ IsInjective(lines')
           /\ ToSet(lines') \subseteq ToSet(lines) \cup {Corrupt}
           /\ \A k \in DOMAIN lines' : lines'[k] = Corrupt => k = Len(lines')
           /\ lines = <<>> => lines' = <<>> /\ torn' \in {torn, FALSE}
           /\ torn' \in BOOLEAN
           /\ Synced \subseteq ToSet(lines')
<1>1. PICK n \in durable..Len(lines) :
         \/ lines' = SubSeq(lines, 1, n) /\ torn' \in {torn, n < Len(lines)}
         \/ n < Len(lines) /\ lines' = Append(SubSeq(lines, 1, n), Corrupt) /\ torn' = FALSE
  BY DEF Remains
<1> DEFINE kept == SubSeq(lines, 1, n)
<1>2. lines \in Seq(Commands \cup {Corrupt}) /\ Len(lines) \in Nat /\ durable \in 0..Len(lines) /\ n \in 0..Len(lines)
      /\ DOMAIN lines = 1..Len(lines)
  BY ElementsOf DEF TypeOK
<1>8. n \in Nat /\ Len(lines) \in Nat /\ n <= Len(lines)
  BY <1>2
<1>9. torn \in BOOLEAN
  BY DEF TypeOK
<1>3. /\ kept \in Seq(Commands \cup {Corrupt}) /\ Len(kept) = n /\ DOMAIN kept = 1..n
      /\ \A k \in 1..n : k \in DOMAIN lines /\ kept[k] = lines[k]
      /\ ToSet(kept) \subseteq ToSet(lines) /\ IsInjective(kept)
      /\ n = Len(lines) => kept = lines
  BY <1>2, InitialOf DEF File
<1>4. Synced \subseteq ToSet(kept)
  BY <1>2, SyncedGrows DEF Synced
<1> HIDE DEF kept
<1>7. \A k \in 1..Len(lines) : lines[k] = Corrupt => k = Len(lines)
  BY <1>2 DEF File
<1>5. CASE lines' = kept /\ torn' \in {torn, n < Len(lines)}
  <2>1. \A k \in DOMAIN lines' : lines'[k] = Corrupt => k = Len(lines')
    <3> SUFFICES ASSUME NEW k \in DOMAIN lines', lines'[k] = Corrupt
                 PROVE  k = n
      BY <1>3, <1>5
    <3>1. k \in 1..n /\ lines[k] = Corrupt /\ k \in 1..Len(lines)
      BY <1>2, <1>3, <1>5
    <3>2. k = Len(lines)
      BY <1>7, <3>1
    <3> QED
      BY <1>8, <3>1, <3>2
  <2>2. torn' \in BOOLEAN /\ (lines = <<>> => lines' = <<>> /\ torn' \in {torn, FALSE})
    <3>1. torn' \in BOOLEAN
      <4>1. (n < Len(lines)) \in BOOLEAN
        OBVIOUS
      <4> QED
        BY <1>5, <1>9, <4>1, Zenon
    <3>2. ASSUME lines = <<>> PROVE lines' = <<>> /\ torn' \in {torn, FALSE}
      <4>1. Len(lines) = 0
        BY <3>2
      <4>2. ~(n < Len(lines)) /\ n = Len(lines)
        BY <1>8, <4>1
      <4>3. (n < Len(lines)) = FALSE
        BY <4>2
      <4> QED
        BY <1>3, <1>5, <3>2, <4>2, <4>3, Zenon
    <3> QED
      BY <3>1, <3>2
  <2> QED
    BY <1>3, <1>4, <1>5, <2>1, <2>2
<1>6. CASE n < Len(lines) /\ lines' = Append(kept, Corrupt) /\ torn' = FALSE
  <2>1. \A k \in 1..n : kept[k] # Corrupt
    BY <1>8, <1>3, <1>6, <1>7
  <2>2. /\ lines' \in Seq(Commands \cup {Corrupt}) /\ Len(lines') = n + 1 /\ DOMAIN lines' = 1..(n + 1)
        /\ \A k \in 1..n : lines'[k] = kept[k]
        /\ lines'[n + 1] = Corrupt
    BY <1>3, <1>6, AppendProperties
  <2>3. \A k \in DOMAIN lines' : (k \in 1..n /\ lines'[k] = kept[k]) \/ (k = n + 1 /\ lines'[k] = Corrupt)
    BY <1>2, <2>2
  <2>4. IsInjective(lines')
    BY <1>3, <2>1, <2>3 DEF IsInjective
  <2>5. ToSet(lines') \subseteq ToSet(kept) \cup {Corrupt} /\ ToSet(kept) \subseteq ToSet(lines')
    BY <1>3, <2>2, <2>3 DEF ToSet
  <2> QED
    <3>1. \A k \in DOMAIN lines' : lines'[k] = Corrupt => k = Len(lines')
      BY <2>1, <2>2, <2>3
    <3>2. lines # <<>> /\ torn' \in BOOLEAN
      <4>1. Len(lines) # 0
        BY <1>8, <1>6
      <4>2. lines # <<>>
        BY <4>1
      <4> QED
        BY <1>6, <4>2
    <3> QED
      BY <1>3, <1>4, <2>2, <2>4, <2>5, <3>1, <3>2
<1> QED
  BY <1>1, <1>5, <1>6 DEF kept

LEMMA LosePowerKeeps ==
    ASSUME IInv, LosePower, UNCHANGED powerFails
    PROVE  IInv'
<1>1. /\ Down /\ powerFails /\ powerFails' /\ ~up'
      /\ durablePayloads \subseteq payloads' /\ payloads' \subseteq payloads /\ durablePayloads' = payloads'
      /\ durable' = Len(lines') /\ nameDurable' = hasFile' /\ directory' = directory
  BY DEF LosePower, Down
<1>2. /\ lines' \in Seq(Commands \cup {Corrupt}) /\ IsInjective(lines')
      /\ ToSet(lines') \subseteq ToSet(lines) \cup {Corrupt}
      /\ \A k \in DOMAIN lines' : lines'[k] = Corrupt => k = Len(lines')
      /\ hasFile' \in BOOLEAN /\ temp' \in BOOLEAN /\ torn' \in BOOLEAN
      /\ ~hasFile' => lines' = <<>> /\ ~torn'
  <2>1. CASE hasFile' = FALSE /\ lines' = <<>> /\ torn' = FALSE /\ temp' \in BOOLEAN
    <3>1. IsInjective(<<>>) /\ ToSet(<<>>) = {} /\ <<>> \in Seq(Commands \cup {Corrupt}) /\ DOMAIN <<>> = {}
      BY NoOpOf DEF IsInjective
    <3> QED
      BY <2>1, <3>1
  <2>2. CASE Remains /\ UNCHANGED <<hasFile, temp>>
    <3>1. ~hasFile => lines = <<>> /\ ~torn
      BY DEF IInv, File
    <3>2. /\ lines' \in Seq(Commands \cup {Corrupt}) /\ IsInjective(lines')
          /\ ToSet(lines') \subseteq ToSet(lines) \cup {Corrupt}
          /\ \A k \in DOMAIN lines' : lines'[k] = Corrupt => k = Len(lines')
          /\ lines = <<>> => lines' = <<>> /\ torn' \in {torn, FALSE}
          /\ torn' \in BOOLEAN
      BY <2>2, RemainsOf DEF IInv
    <3>3. ~hasFile' => lines' = <<>> /\ ~torn'
      BY <2>2, <3>1, <3>2
    <3>4. hasFile' \in BOOLEAN /\ temp' \in BOOLEAN
      BY <2>2 DEF IInv, TypeOK
    <3> QED
      BY <3>2, <3>3, <3>4
  <2> QED
    BY <2>1, <2>2 DEF LosePower
<1>3. clientVars' = clientVars
  BY <1>1 DEF Down
<1>4. TypeOK'
  <2>1. durable' \in 0..Len(lines') /\ payloads' \subseteq Large /\ durablePayloads' \subseteq payloads'
    BY <1>1, <1>2, ElementsOf DEF IInv, TypeOK
  <2>2. {directory', temp', hasFile', torn', nameDurable', up', locked', failed'} \subseteq BOOLEAN
    BY <1>1, <1>2, DownTypes DEF IInv, TypeOK
  <2>3. powerFails' \in BOOLEAN
    BY DEF IInv, TypeOK
  <2> QED
    BY <1>1, <1>2, <2>1, <2>2, <2>3, DownTypes DEF IInv, TypeOK
<1>5. File'
  BY <1>1, <1>2 DEF File
<1>6. PayloadsKept'
  <2>1. Corrupt \notin Large
    BY JournalAssumption
  <2> QED
    BY <1>1, <1>2, <1>3, <2>1, DownTypes DEF IInv, PayloadsKept, clientVars
<1>7. AnswersKept'
  BY <1>1 DEF AnswersKept
<1> QED
  BY <1>1, <1>4, <1>5, <1>6, <1>7, DownKeeps

\* The records that a start takes from the file
LEMMA CommittedOf ==
    ASSUME TypeOK, File, Corrupt \notin ToSet(CommittedLines)
    PROVE  /\ CommittedLines \in Seq(Commands) /\ IsInjective(CommittedLines)
           /\ ToSet(CommittedLines) \subseteq ToSet(lines)
           /\ ToSet(lines) \cap Commands \subseteq ToSet(CommittedLines)
           /\ Synced \cap Commands \subseteq ToSet(SubSeq(CommittedLines, 1, Repaired))
           /\ Repaired \in 0..Len(CommittedLines)
           /\ ~powerFails => CommittedLines = lines
<1>1. lines \in Seq(Commands \cup {Corrupt}) /\ Len(lines) \in Nat /\ durable \in 0..Len(lines) /\ IsInjective(lines)
      /\ DOMAIN lines = 1..Len(lines)
  BY ElementsOf DEF TypeOK, File
<1>2. CASE CommittedLines = lines
  <2>1. Repaired \in {durable, Len(lines)} /\ Repaired \in 0..Len(lines) /\ Repaired \in durable..Len(lines)
    BY <1>1, <1>2 DEF Repaired
  <2>2. Synced \subseteq ToSet(SubSeq(CommittedLines, 1, Repaired))
    BY <1>1, <1>2, <2>1, SyncedGrows DEF Synced
  <2>3. CommittedLines \in Seq(Commands)
    BY <1>1, <1>2, Without
  <2> QED
    BY <1>1, <1>2, <2>1, <2>2, <2>3
<1>3. CASE CommittedLines = Front(lines) /\ lines # <<>> /\ Last(lines) = Corrupt
  <2> DEFINE m == Len(lines) - 1
  <2>1. m \in 0..Len(lines) /\ m # Len(lines) /\ CommittedLines = SubSeq(lines, 1, m)
        /\ Len(lines) \in DOMAIN lines /\ lines[Len(lines)] = Corrupt
    <3>1. Len(lines) \in Nat \ {0}
      BY <1>1, <1>3, ElementsOf
    <3>2. m \in 0..Len(lines) /\ m # Len(lines) /\ Len(lines) \in 1..Len(lines)
      BY <3>1
    <3> QED
      BY <1>1, <1>3, <3>2 DEF Front, Last
  <2>2. /\ CommittedLines \in Seq(Commands \cup {Corrupt}) /\ Len(CommittedLines) = m /\ DOMAIN CommittedLines = 1..m
        /\ \A k \in 1..m : CommittedLines[k] = lines[k]
        /\ ToSet(CommittedLines) \subseteq ToSet(lines) /\ IsInjective(CommittedLines)
    <3>1. m \in 0..Len(lines) /\ CommittedLines = SubSeq(lines, 1, m)
      BY <2>1
    <3> HIDE DEF m
    <3> QED
      BY <1>1, <3>1, InitialOf
  <2>3. CommittedLines \in Seq(Commands)
    BY <2>2, Without
  <2>4. ASSUME NEW x \in ToSet(lines) \cap Commands PROVE x \in ToSet(CommittedLines)
    <3>1. PICK k \in DOMAIN lines : x = lines[k]
      BY DEF ToSet
    <3>2. k # Len(lines)
      BY <2>1, <3>1, JournalAssumption
    <3>3. k \in 1..m
      <4>1. k \in 1..Len(lines)
        BY <1>1
      <4> QED
        BY <1>1, <3>2, <4>1
    <3> QED
      BY <2>2, <3>1, <3>3 DEF ToSet
  <2>5. Repaired = m
    <3>1. lines # CommittedLines
      BY <2>1, <2>2
    <3> QED
      BY <2>2, <3>1 DEF Repaired
  <2>6. SubSeq(CommittedLines, 1, Repaired) = CommittedLines /\ Repaired \in 0..Len(CommittedLines)
    <3>1. Len(CommittedLines) = m /\ m \in 0..m
      <4>1. Len(CommittedLines) = m
        BY <2>2
      <4>2. Len(CommittedLines) \in Nat
        BY <2>3
      <4> HIDE DEF m
      <4> QED
        BY <4>1, <4>2
    <3> HIDE DEF m
    <3>2. SubSeq(CommittedLines, 1, Len(CommittedLines)) = CommittedLines
      BY <2>3, SubSeqFull
    <3> QED
      BY <2>5, <3>1, <3>2
  <2>7. Synced \subseteq ToSet(lines)
    BY <1>1, InitialOf DEF Synced
  <2>8. powerFails
    BY <2>1 DEF File, ToSet
  <2> QED
    BY <2>2, <2>3, <2>4, <2>6, <2>7, <2>8
<1> QED
  BY <1>2, <1>3 DEF CommittedLines

\* A run that was just started has nothing under way.
LEMMA StartKeeps ==
    ASSUME IInv, up' = TRUE, failed' = FALSE, locked' \in BOOLEAN,
           UNCHANGED <<directory, temp, hasFile, nameDurable, payloads, durablePayloads, op, publishVars, clientVars, powerFails>>,
           ~up,
           lines' \in Seq(Commands \cup {Corrupt}), IsInjective(lines'), ToSet(lines') \subseteq ToSet(lines),
           torn' \in BOOLEAN, durable' \in 0..Len(lines'), log' \in Seq(Commands), base' = Len(log'),
           ~locked' => Corrupt \notin ToSet(lines') /\ lines' = log' /\ ~torn',
           locked' => log' = <<>> /\ UNCHANGED <<lines, torn, durable>>,
           ~hasFile => lines' = <<>> /\ ~torn',
           ~powerFails => lines' = lines
    PROVE  IInv'
<1>1. op = NoOp /\ op' = NoOp /\ op'.pc = "idle" /\ outer' = NoOuter /\ outer'.batch = <<>> /\ ToSet(<<>>) = {}
  BY NoOpOf DEF IInv, Steps, Durable, Open, publishVars, NoOuter
<1>2. TypeOK'
  <2>1. base' \in 0..Len(log')
    BY ElementsOf
  <2> QED
    BY <2>1 DEF IInv, TypeOK, publishVars, clientVars
<1>3. Steps'
  BY <1>1 DEF Steps, ReplacePcs, Writing, Written1
<1>4. File'
  <2>1. ASSUME NEW n \in DOMAIN lines', lines'[n] = Corrupt
        PROVE  n = Len(lines') /\ durable' = Len(lines') /\ ~(up' /\ ~locked')
    <3>1. locked' /\ lines' = lines /\ durable' = durable
      BY <2>1 DEF ToSet
    <3> QED
      BY <2>1, <3>1 DEF IInv, File
  <2> QED
    BY <2>1 DEF IInv, File
<1>5. Memory'
  BY <1>1 DEF Memory, Open, Written1
<1>6. PayloadsKept'
  BY <1>1 DEF IInv, PayloadsKept, clientVars
<1>7. Durable'
  BY <1>1 DEF Durable, Committed
<1>8. AnswersKept'
  BY DEF IInv, AnswersKept, clientVars
<1> QED
  BY <1>2, <1>3, <1>4, <1>5, <1>6, <1>7, <1>8 DEF IInv

LEMMA LoadKeeps ==
    ASSUME IInv, Load, UNCHANGED powerFails
    PROVE  IInv'
<1>1. Corrupt \notin ToSet(CommittedLines) /\ hasFile
  BY DEF Load, Loads
<1>2. /\ CommittedLines \in Seq(Commands) /\ IsInjective(CommittedLines)
      /\ ToSet(CommittedLines) \subseteq ToSet(lines)
      /\ Repaired \in 0..Len(CommittedLines)
      /\ ~powerFails => CommittedLines = lines
  BY <1>1, CommittedOf DEF IInv
<1>3. CommittedLines \in Seq(Commands \cup {Corrupt})
  BY <1>2
<1>4. /\ up' = TRUE /\ locked' = FALSE /\ failed' = FALSE /\ torn' = FALSE /\ ~up
      /\ lines' = CommittedLines /\ log' = CommittedLines /\ base' = Len(CommittedLines) /\ durable' = Repaired
      /\ UNCHANGED <<directory, temp, hasFile, nameDurable, payloads, durablePayloads, op, publishVars, clientVars>>
  BY DEF Load
<1> QED
  BY <1>1, <1>2, <1>3, <1>4, StartKeeps

LEMMA LoadNothingKeeps ==
    ASSUME IInv, LoadNothing, UNCHANGED powerFails
    PROVE  IInv'
<1>1. /\ up' = TRUE /\ failed' = FALSE /\ log' = <<>> /\ base' = 0 /\ ~up
      /\ UNCHANGED <<diskVars, op, publishVars, clientVars>>
      /\ hasFile => locked'
      /\ locked' \in BOOLEAN
  BY DEF LoadNothing, diskVars, IInv, TypeOK
<1>2. /\ lines \in Seq(Commands \cup {Corrupt}) /\ IsInjective(lines) /\ torn \in BOOLEAN /\ durable \in 0..Len(lines)
      /\ ~hasFile => lines = <<>> /\ ~torn
      /\ <<>> \in Seq(Commands) /\ Len(<<>>) = 0 /\ ToSet(<<>>) = {}
  BY NoOpOf DEF IInv, TypeOK, File
<1> QED
  BY <1>1, <1>2, StartKeeps DEF diskVars

-----------------------------------------------------------------------------
LEMMA StepKeeps ==
    ASSUME IInv, [Next]_vars
    PROVE  IInv'
<1>1. CASE UNCHANGED vars
  <2> USE <1>1 DEF vars, diskVars, memoryVars, publishVars, clientVars
  <2>1. TypeOK'
    BY DEF IInv, TypeOK
  <2>2. Steps' /\ File' /\ Memory'
    BY DEF IInv, Steps, File, Memory, Open
  <2>3. PayloadsKept' /\ Durable' /\ AnswersKept'
    BY DEF IInv, PayloadsKept, Durable, Synced, AnswersKept
  <2> QED
    BY <2>1, <2>2, <2>3 DEF IInv
<1>2. CASE Next
  <2> USE <1>2 DEF Next
  <2>1. CASE Call
    <3>1. CASE \E c \in Commands : AppendAgain(c)
      BY <3>1, AppendAgainKeeps
    <3>2. CASE (\E c \in Commands : Append1(c)) \/ (\E b \in Batches : Adopt(b))
      BY <3>2, BeginKeeps
    <3> QED
      BY <2>1, <3>1, <3>2 DEF Call
  <2>2. CASE MakeDirectory \/ StorePayloads \/ SyncPayloads \/ SyncFile \/ WriteTemp \/ SyncDirectory \/ FailSyncDirectory
    BY <2>2, PreparingMoves, MovesKeep
  <2>3. CASE WriteLine
    BY <2>3, WriteLineKeeps
  <2>4. CASE Rename
    BY <2>4, RenameKeeps
  <2>5. CASE Commit
    BY <2>5, CommitKeeps
  <2>6. CASE PublishNested \/ PublishFirst
    BY <2>6, PublishKeeps
  <2>7. CASE CallListener \/ NextBatch \/ Return
    BY <2>7, ListenersKeep
  <2>8. CASE FailPreparing
    BY <2>8, PreparingFails
  <2>9. CASE FailWriting
    BY <2>9, WritingFails
  <2>10. CASE Crash
    BY <2>10, CrashKeeps
  <2>11. CASE LosePower
    BY <2>11, LosePowerKeeps
  <2>12. CASE Load
    BY <2>12, LoadKeeps
  <2>13. CASE LoadNothing
    BY <2>13, LoadNothingKeeps
  <2> QED
    BY <2>1, <2>2, <2>3, <2>4, <2>5, <2>6, <2>7, <2>8, <2>9, <2>10, <2>11, <2>12, <2>13 DEF Step, Failure
<1> QED
  BY <1>1, <1>2

LEMMA Inductive == Spec => []IInv
<1>1. IInv /\ [Next]_vars => IInv'
  BY StepKeeps
<1> QED
  BY <1>1, Initially, PTL DEF Spec

\* A start without losses of power loads every answered command.
LEMMA AllLoads ==
    ASSUME IInv, ~powerFails
    PROVE  CommittedLines = lines /\ (answered \cup repeated # {} => Loads)
<1>1. lines \in Seq(Commands \cup {Corrupt}) /\ Corrupt \notin ToSet(lines)
  BY DEF IInv, TypeOK, File
<1>2. CommittedLines = lines
  <2>1. lines # <<>> => Last(lines) \in ToSet(lines)
    BY <1>1, ElementsOf DEF Last
  <2> QED
    BY <1>1, <2>1 DEF CommittedLines
<1>3. ASSUME answered \cup repeated # {} PROVE Loads
  <2>1. ToSet(lines) # {}
    BY <1>3 DEF IInv, AnswersKept
  <2>2. lines # <<>> /\ hasFile
    BY <2>1, <1>1, NoOpOf DEF IInv, File
  <2>3. ToSet(lines) \cap Large \subseteq payloads
    BY DEF IInv, PayloadsKept, TypeOK
  <2> QED
    BY <1>1, <1>2, <2>2, <2>3 DEF Loads
<1> QED
  BY <1>2, <1>3

\* Memory and file of a run that is up agree between calls, no command is in the file
\* twice, and without losses of power every answered command is loaded again: whatever
\* calls fail and wherever the process ends, #persistAppend, #replaceRecords and
\* #committedLines of the journal.
THEOREM Invariance == Spec => []JournalInv
<1>1. ASSUME IInv PROVE JournalInv
  <2> USE <1>1
  <2>1. MemoryMatchesFile
    BY DEF IInv, Memory, Open, Written1, MemoryMatchesFile, Idle
  <2>2. CommandOnce /\ TypeOK
    BY DEF IInv, File, CommandOnce
  <2>3. AnsweredLoads
    BY AllLoads DEF IInv, AnswersKept, AnsweredLoads
  <2> QED
    BY <2>1, <2>2, <2>3 DEF JournalInv
<1> QED
  BY <1>1, Inductive, PTL

\* The step of a loss of power, and of a load
LEMMA AnsweredStays ==
    ASSUME IInv, LosePower \/ Load
    PROVE  answered \cap Synced \subseteq Synced' \/ (~nameDurable /\ ~hasFile')
<1>1. answered \subseteq Commands
  BY DEF IInv, TypeOK
<1>2. CASE LosePower
  <2>1. CASE Remains
    <3>1. Synced \subseteq ToSet(lines') /\ durable' = Len(lines') /\ lines' \in Seq(Commands \cup {Corrupt})
      BY <1>2, <2>1, RemainsOf DEF IInv, LosePower
    <3>2. Synced' = ToSet(lines')
      BY <3>1, SubSeqFull DEF Synced
    <3> QED
      BY <3>1, <3>2
  <2>2. CASE hasFile' = FALSE /\ ~nameDurable
    BY <2>2
  <2> QED
    BY <1>2, <2>1, <2>2 DEF LosePower
<1>3. CASE Load
  <2>1. Synced \cap Commands \subseteq ToSet(SubSeq(CommittedLines, 1, Repaired))
    BY <1>3, CommittedOf DEF IInv, Load, Loads
  <2>2. Synced' = ToSet(SubSeq(CommittedLines, 1, Repaired))
    BY <1>3 DEF Load, Synced
  <2> QED
    BY <1>1, <2>1, <2>2
<1> QED
  BY <1>2, <1>3

\* An answer is given to synced records alone.
LEMMA AnswerStep ==
    ASSUME IInv, [Next]_vars
    PROVE  answered' \ answered \subseteq Synced
<1>1. CASE PublishNested
  <2>1. answered' \subseteq answered \cup ToSet(op.batch) /\ up /\ op.pc \in Committed
    BY <1>1 DEF PublishNested, At, Committed
  <2> QED
    BY <2>1, MayAnswer
<1>2. CASE Return
  BY <1>2 DEF Return, IInv, Durable
<1>3. CASE answered' = answered
  BY <1>3
<1>4. ~PublishNested /\ ~Return => answered' = answered
  <2> USE DEF clientVars
  <2>1. CASE UNCHANGED vars
    BY <2>1 DEF vars
  <2>2. CASE Call
    BY <2>2 DEF Call, Append1, AppendAgain, Adopt
  <2>3. CASE Step
    BY <2>3 DEF Step, MakeDirectory, StorePayloads, SyncPayloads, WriteLine, SyncFile, WriteTemp, Rename,
                Commit, SyncDirectory, PublishFirst, CallListener, NextBatch
  <2>4. CASE Failure
    BY <2>4 DEF Failure, FailPreparing, FailWriting, FailSyncDirectory
  <2>5. CASE Crash \/ LosePower \/ Load \/ LoadNothing
    BY <2>5 DEF Crash, LosePower, Load, LoadNothing, Down
  <2> QED
    BY <2>1, <2>2, <2>3, <2>4, <2>5 DEF Next
<1> QED
  BY <1>1, <1>2, <1>3, <1>4

\* No other step takes a synced record away.
LEMMA SyncedStays ==
    ASSUME IInv, [Next]_vars, ~LosePower, ~Load
    PROVE  Synced \subseteq Synced'
<1>1. CASE lines' = lines /\ durable' = durable
  BY <1>1 DEF Synced
<1>2. CASE MakeDirectory \/ StorePayloads \/ SyncPayloads \/ SyncFile \/ WriteTemp \/ SyncDirectory \/ FailSyncDirectory
  <2>1. UNCHANGED powerFails
    BY <1>2 DEF Next, vars
  <2> QED
    BY <1>2, <2>1, PreparingMoves, MovesKeep
<1>3. CASE WriteLine \/ Rename \/ FailWriting
  <2>1. UNCHANGED powerFails
    BY <1>3 DEF Next, vars
  <2> QED
    BY <1>3, <2>1, WriteLineKeeps, RenameKeeps, WritingFails
<1>4. CASE UNCHANGED vars
  BY <1>1, <1>4 DEF vars, diskVars
<1>5. CASE Call
  BY <1>1, <1>5 DEF Call, Append1, AppendAgain, Adopt, diskVars
<1>6. CASE Commit \/ PublishNested \/ PublishFirst \/ CallListener \/ NextBatch \/ Return
  BY <1>1, <1>6 DEF Commit, PublishNested, PublishFirst, CallListener, NextBatch, Return, diskVars
<1>7. CASE FailPreparing \/ Crash \/ LoadNothing
  BY <1>1, <1>7 DEF FailPreparing, Crash, LoadNothing, diskVars
<1> QED
  BY <1>2, <1>3, <1>4, <1>5, <1>6, <1>7 DEF Next, Step, Failure

\* A call returns only when its records and payloads are synced, and only a loss of
\* power before the file's directory entry was synced takes an answered record away.
THEOREM Durability == Spec => AnsweredIsDurable
<1>1. ASSUME IInv, IInv', [Next]_vars
      PROVE  [/\ answered' \ answered \subseteq Synced
              /\ answered' \cap Large \subseteq durablePayloads'
              /\ \/ answered \cap Synced \subseteq Synced'
                 \/ ~nameDurable /\ ~hasFile']_vars
  <2>1. answered' \ answered \subseteq Synced
    BY <1>1, AnswerStep
  <2>2. answered' \cap Large \subseteq durablePayloads'
    BY <1>1 DEF IInv, PayloadsKept
  <2>3. answered \cap Synced \subseteq Synced' \/ (~nameDurable /\ ~hasFile')
    BY <1>1, AnsweredStays, SyncedStays
  <2> QED
    BY <2>1, <2>2, <2>3
<1> QED
  BY <1>1, Inductive, PTL DEF Spec, AnsweredIsDurable

-----------------------------------------------------------------------------
(* The journal implements CommandLog. *)

LEMMA BatchCommits ==
    ASSUME ~powerFails, ~powerFails', NEW b \in Batches,
           lines' = lines \o b, IsInjective(lines'), log' = log, clientVars' = clientVars
    PROVE  Promise!Next
<1>1. b \in SeqOf(Commands, BatchSize) /\ b # <<>>
  BY DEF Batches
<1>2. answered' \cup repeated' = answered \cup repeated
  BY DEF clientVars
<1>3. Promise!Commit
  BY <1>1, <1>2 DEF Promise!Commit, Promise!SeqOf, SeqOf, Promise!IsInjective, IsInjective
<1> QED
  BY <1>3 DEF Promise!Next

LEMMA MemoryFollows ==
    ASSUME ~powerFails, ~powerFails', NEW n \in 0..Len(lines),
           lines' = lines, log' = SubSeq(lines, 1, n), clientVars' = clientVars
    PROVE  Promise!Next
<1>1. Promise!Show
  BY DEF Promise!Show, clientVars
<1> QED
  BY <1>1 DEF Promise!Next

LEMMA CallReturns ==
    ASSUME ~powerFails, ~powerFails', NEW S \in SUBSET ToSet(log),
           lines' = lines, log' = log, answered' \cup repeated' = (answered \cup repeated) \cup S
    PROVE  Promise!Next
<1>1. Promise!Answer
  BY DEF Promise!Answer, Promise!ToSet, ToSet
<1> QED
  BY <1>1 DEF Promise!Next

\* Every step of the journal is one of CommandLog or leaves its variables alone.
LEMMA StepPromises ==
    ASSUME IInv, IInv', [Next]_vars
    PROVE  [Promise!Next]_Promise!vars
<1>1. CASE powerFails \/ UNCHANGED vars
  <2>1. powerFails' = powerFails
    BY DEF Next, vars
  <2> QED
    BY <1>1, <2>1 DEF Promise!vars, vars, diskVars, memoryVars, clientVars
<1>2. CASE ~powerFails /\ Next
  <2>1. ~powerFails /\ ~powerFails' /\ UNCHANGED powerFails
    BY <1>2 DEF Next
  <2>2. /\ lines \in Seq(Commands \cup {Corrupt}) /\ Len(lines) \in Nat /\ IsInjective(lines')
        /\ lines = SubSeq(lines, 1, Len(lines)) /\ <<>> = SubSeq(lines, 1, 0)
        /\ Len(lines) \in 0..Len(lines) /\ 0 \in 0..Len(lines)
    BY SubSeqFull DEF IInv, TypeOK, File
  <2>3. CASE UNCHANGED <<lines, log, answered, repeated>>
    BY <2>1, <2>3 DEF Promise!vars
  <2>4. CASE WriteLine \/ Rename \/ FailWriting
    <3>1. log' = log /\ clientVars' = clientVars /\ up /\ op.pc # "idle"
      BY <2>4 DEF WriteLine, Rename, FailWriting, memoryVars, At
    <3>2. op.batch \in Batches
      BY <3>1 DEF IInv, Steps
    <3>3. lines' = lines \/ lines' = lines \o op.batch
      BY <2>1, <2>4, WriteLineKeeps, RenameKeeps, WritingFails
    <3>4. CASE lines' = lines
      BY <2>3, <3>1, <3>4 DEF clientVars
    <3>5. CASE lines' = lines \o op.batch
      BY <2>1, <2>2, <3>1, <3>2, <3>5, BatchCommits
    <3> QED
      BY <3>3, <3>4, <3>5
  <2>5. CASE Commit
    <3>1. lines = log \o op.batch
      BY <2>5, OpenFile DEF Commit, At, Written1
    <3>2. lines' = lines /\ log' = lines /\ clientVars' = clientVars
      BY <2>5, <3>1 DEF Commit, diskVars
    <3> QED
      BY <2>1, <2>2, <3>2, MemoryFollows
  <2>6. CASE \E c \in Commands : AppendAgain(c)
    <3>1. PICK c \in Commands : AppendAgain(c)
      BY <2>6
    <3>2. {c} \in SUBSET ToSet(log) /\ lines' = lines /\ log' = log
          /\ answered' \cup repeated' = (answered \cup repeated) \cup {c}
      BY <3>1 DEF AppendAgain, diskVars, memoryVars
    <3> QED
      BY <2>1, <3>2, CallReturns
  <2>7. CASE PublishNested
    <3>1. /\ ToSet(op.batch) \in SUBSET ToSet(log) /\ lines' = lines /\ log' = log
          /\ answered' = answered \/ answered' = answered \cup ToSet(op.batch)
          /\ repeated' = repeated
      BY <2>7, MayAnswer DEF PublishNested, At, Committed, diskVars, memoryVars
    <3>2. CASE answered' = answered
      BY <2>3, <3>1, <3>2
    <3>3. CASE answered' = answered \cup ToSet(op.batch)
      <4>1. answered' \cup repeated' = (answered \cup repeated) \cup ToSet(op.batch)
        BY <3>1, <3>3
      <4> QED
        BY <2>1, <3>1, <4>1, CallReturns
    <3> QED
      BY <3>1, <3>2, <3>3
  <2>8. CASE Return
    <3>1. /\ ToSet(outer.batch) \in SUBSET ToSet(log) /\ lines' = lines /\ log' = log
          /\ answered' = answered \/ answered' = answered \cup ToSet(outer.batch)
          /\ repeated' = repeated
      BY <2>8 DEF Return, IInv, Durable, diskVars, memoryVars
    <3>2. CASE answered' = answered
      BY <2>3, <3>1, <3>2
    <3>3. CASE answered' = answered \cup ToSet(outer.batch)
      <4>1. answered' \cup repeated' = (answered \cup repeated) \cup ToSet(outer.batch)
        BY <3>1, <3>3
      <4> QED
        BY <2>1, <3>1, <4>1, CallReturns
    <3> QED
      BY <3>1, <3>2, <3>3
  <2>9. CASE Load \/ LoadNothing
    <3>1. lines' = lines /\ clientVars' = clientVars /\ (log' = lines \/ log' = <<>>)
      BY <2>1, <2>9, AllLoads DEF Load, LoadNothing, diskVars
    <3> QED
      BY <2>1, <2>2, <3>1, MemoryFollows
  <2>10. CASE (\E c \in Commands : Append1(c)) \/ (\E b \in Batches : Adopt(b))
    BY <2>3, <2>10 DEF Append1, Adopt, diskVars, memoryVars, clientVars
  <2>11. CASE MakeDirectory \/ StorePayloads \/ SyncPayloads \/ SyncFile \/ WriteTemp \/ SyncDirectory
    BY <2>3, <2>11 DEF MakeDirectory, StorePayloads, SyncPayloads, SyncFile, WriteTemp, SyncDirectory,
                       memoryVars, clientVars
  <2>12. CASE PublishFirst \/ CallListener \/ NextBatch
    BY <2>3, <2>12 DEF PublishFirst, CallListener, NextBatch, diskVars, memoryVars, clientVars
  <2>13. CASE FailPreparing \/ FailSyncDirectory \/ Crash
    BY <2>3, <2>13 DEF FailPreparing, FailSyncDirectory, Crash, Down, diskVars, memoryVars, clientVars
  <2>14. ~LosePower
    BY <2>1 DEF LosePower
  <2> QED
    BY <1>2, <2>4, <2>5, <2>6, <2>7, <2>8, <2>9, <2>10, <2>11, <2>12, <2>13, <2>14 DEF Next, Call, Step, Failure
<1> QED
  BY <1>1, <1>2

\* The records of the file, the records in memory and the answers of append and adopt
\* implement CommandLog where power is not lost.
THEOREM Implementation == Spec => KeepsPromise
<1>1. Init => Promise!Init
  BY DEF Init, Promise!Init
<1>2. IInv /\ IInv' /\ [Next]_vars => [Promise!Next]_Promise!vars
  BY StepPromises
<1> QED
  BY <1>1, <1>2, Inductive, PTL DEF Spec, KeepsPromise, Promise!Spec

-----------------------------------------------------------------------------
(* Publication: the batches that wait are consecutive parts of the journal.  *)
(* cut[1] is where the batch being published begins, cut[2] where the first  *)
(* queued one does, and the last cut is where the queue ends.                *)

LastCut == Len(queue) + 2

Cuts(cut) ==
    /\ cut \in [1..LastCut -> base..Len(log)]
    /\ cut[1] <= cut[2]
    /\ current = SubSeq(log, cut[1] + 1, cut[2])
    /\ \A i \in 1..Len(queue) :
          cut[i + 1] <= cut[i + 2] /\ queue[i] = SubSeq(log, cut[i + 1] + 1, cut[i + 2])
    /\ IF op.pc \in Committed
       THEN op.batch = SubSeq(log, cut[LastCut] + 1, Len(log))
       ELSE cut[LastCut] = Len(log)
    /\ \A l \in 1..Listeners : seen[l] = SubSeq(log, base + 1, IF l <= done THEN cut[2] ELSE cut[1])

Publication ==
    /\ ~up \/ outer.batch = <<>> => current = <<>> /\ queue = <<>> /\ done = 0
    /\ ~up => \A l \in 1..Listeners : seen[l] = <<>>
    /\ up => \E cut : Cuts(cut)

\* Parts of a sequence
LEMMA PartOf ==
    ASSUME NEW S, NEW s \in Seq(S), NEW a \in 0..Len(s), NEW b \in a..Len(s)
    PROVE  /\ SubSeq(s, a + 1, b) \in Seq(S) /\ Len(SubSeq(s, a + 1, b)) = b - a
           /\ SubSeq(s, a + 1, b) = <<>> => a = b
           /\ SubSeq(s, a + 1, a) = <<>>
           /\ \A t \in Seq(S) : SubSeq(s \o t, a + 1, b) = SubSeq(s, a + 1, b)
           /\ \A c \in b..Len(s) : SubSeq(s, a + 1, b) \o SubSeq(s, b + 1, c) = SubSeq(s, a + 1, c)
<1>1. a \in Nat /\ b \in Nat /\ Len(s) \in Nat /\ a <= b /\ b <= Len(s)
  BY ElementsOf
<1>2. /\ SubSeq(s, a + 1, b) \in Seq(S)
      /\ Len(SubSeq(s, a + 1, b)) = IF a + 1 <= b THEN b - (a + 1) + 1 ELSE 0
  <2>1. \A i \in (a + 1)..b : s[i] \in S
    BY <1>1, ElementsOf
  <2> QED
    BY <1>1, <2>1, SubSeqProperties
<1>3. Len(SubSeq(s, a + 1, b)) = b - a
  BY <1>1, <1>2
<1>4. SubSeq(s, a + 1, b) = <<>> => a = b
  BY <1>1, <1>3
<1>5. SubSeq(s, a + 1, a) = <<>>
  BY <1>1, SubSeqEmpty
<1>6. ASSUME NEW t \in Seq(S) PROVE SubSeq(s \o t, a + 1, b) = SubSeq(s, a + 1, b)
  <2>1. CASE a = b
    BY <1>1, <2>1, SubSeqEmpty
  <2>2. CASE a # b
    BY <1>1, <2>2, SubSeqOfConcat1
  <2> QED
    BY <2>1, <2>2
<1>7. ASSUME NEW c \in b..Len(s)
      PROVE  SubSeq(s, a + 1, b) \o SubSeq(s, b + 1, c) = SubSeq(s, a + 1, c)
  <2>1. a + 1 \in 1..(Len(s) + 1) /\ b \in (a + 1) - 1..Len(s)
    BY <1>1
  <2> QED
    BY <2>1, ConcatAdjacentSubSeq
<1> QED
  BY <1>2, <1>3, <1>4, <1>5, <1>6, <1>7

LEMMA PartsJoin ==
    ASSUME NEW S, NEW s \in Seq(S), NEW a \in Nat, NEW b \in Nat, NEW c \in Nat, a <= b, b <= c, c <= Len(s)
    PROVE  SubSeq(s, a + 1, b) \o SubSeq(s, b + 1, c) = SubSeq(s, a + 1, c)
<1>1. Len(s) \in Nat
  BY ElementsOf
<1>2. a + 1 \in 1..(Len(s) + 1) /\ b \in (a + 1) - 1..Len(s) /\ c \in b..Len(s)
  BY <1>1
<1> QED
  BY <1>2, ConcatAdjacentSubSeq

LEMMA EmptyPart ==
    ASSUME NEW S, NEW s \in Seq(S), NEW a \in Nat, NEW b \in Nat, a <= b, b <= Len(s),
           SubSeq(s, a + 1, b) = <<>>
    PROVE  a = b
<1>1. Len(s) \in Nat
  BY ElementsOf
<1>2. a \in 0..Len(s) /\ b \in a..Len(s)
  BY <1>1
<1>3. Len(SubSeq(s, a + 1, b)) = b - a
  BY <1>2, PartOf
<1>4. Len(SubSeq(s, a + 1, b)) = 0
  OBVIOUS
<1> QED
  BY <1>3, <1>4

LEMMA PublicationBegins == Init => Publication
<1> SUFFICES ASSUME Init PROVE Publication
  OBVIOUS
<1>1. op.pc \notin Committed
  BY NoOpOf DEF Init, Committed
<1> DEFINE cut == [i \in 1..2 |-> 0]
<1>2. SubSeq(<<>>, 0 + 1, 0) = <<>>
  BY SubSeqEmpty
<1>3. Cuts(cut)
  BY <1>1, <1>2 DEF Init, Cuts, LastCut
<1> QED
  BY <1>3 DEF Init, Publication

\* Steps that neither commit nor publish
LEMMA PublicationStays ==
    ASSUME Publication, UNCHANGED <<up, log, base, publishVars>>,
           \/ op.pc \notin Committed /\ op'.pc \notin Committed
           \/ op.pc \in Committed /\ op'.pc \in Committed /\ op'.batch = op.batch
    PROVE  Publication'
<1> USE DEF publishVars
<1>1. ASSUME NEW cut, Cuts(cut) PROVE Cuts(cut)'
  BY <1>1 DEF Cuts, LastCut
<1> QED
  BY <1>1 DEF Publication

\* Where the cuts are
LEMMA CutsOf ==
    ASSUME TypeOK, NEW cut, Cuts(cut)
    PROVE  /\ log \in Seq(Commands) /\ Len(log) \in Nat /\ Len(queue) \in Nat /\ base \in Nat /\ done \in Nat
           /\ 1 \in 1..LastCut /\ 2 \in 1..LastCut
           /\ \A i \in 1..LastCut : cut[i] \in Nat /\ base <= cut[i] /\ cut[i] <= Len(log)
           /\ cut[1] \in 0..Len(log) /\ cut[2] \in cut[1]..Len(log)
           /\ \A i \in 1..Len(queue) :
                 /\ i + 1 \in 1..LastCut /\ i + 2 \in 1..LastCut
                 /\ cut[i + 1] \in 0..Len(log) /\ cut[i + 2] \in cut[i + 1]..Len(log)
<1>1. log \in Seq(Commands) /\ Len(log) \in Nat /\ Len(queue) \in Nat /\ base \in 0..Len(log) /\ done \in 0..Listeners
  BY ElementsOf DEF TypeOK
<1>2. base \in Nat /\ done \in Nat
  BY <1>1, JournalAssumption
<1>3. 1 \in 1..LastCut /\ 2 \in 1..LastCut /\ \A i \in 1..Len(queue) : i + 1 \in 1..LastCut /\ i + 2 \in 1..LastCut
  BY <1>1 DEF LastCut
<1>4. cut \in [1..LastCut -> base..Len(log)]
  BY DEF Cuts
<1>5. ASSUME NEW i \in 1..LastCut PROVE cut[i] \in Nat /\ base <= cut[i] /\ cut[i] <= Len(log)
  <2>1. cut[i] \in base..Len(log)
    BY <1>4
  <2> QED
    BY <1>1, <1>2, <2>1
<1>6. cut[1] \in 0..Len(log) /\ cut[2] \in cut[1]..Len(log)
  <2>1. cut[1] <= cut[2]
    BY DEF Cuts
  <2> QED
    BY <1>1, <1>3, <1>5, <2>1
<1>7. ASSUME NEW i \in 1..Len(queue) PROVE cut[i + 1] \in 0..Len(log) /\ cut[i + 2] \in cut[i + 1]..Len(log)
  <2>1. cut[i + 1] <= cut[i + 2]
    BY DEF Cuts
  <2>2. cut[i + 1] \in Nat /\ cut[i + 2] \in Nat /\ cut[i + 1] <= Len(log) /\ cut[i + 2] <= Len(log)
    BY <1>3, <1>5
  <2> QED
    BY <1>1, <2>1, <2>2
<1> QED
  BY <1>1, <1>2, <1>3, <1>5, <1>6, <1>7

LEMMA CommitPublishes ==
    ASSUME TypeOK, Publication, Commit
    PROVE  Publication'
<1>1. /\ up /\ up' /\ op.pc \notin Committed /\ op'.pc \in Committed /\ op'.batch = op.batch
      /\ log' = log \o op.batch /\ UNCHANGED <<base, current, done, queue, outer, seen>>
  BY OpMoves, OpOf DEF Commit, At, GoTo, Committed, Pcs, publishVars
<1>2. PICK cut : Cuts(cut)
  BY <1>1 DEF Publication
<1>3. /\ log \in Seq(Commands) /\ op.batch \in Seq(Commands) /\ Len(log) \in Nat /\ Len(op.batch) \in Nat
      /\ Len(log') = Len(log) + Len(op.batch)
  BY <1>1, OpOf, ElementsOf, ConcatOf DEF TypeOK
<1>4. \A a \in 0..Len(log) : \A b \in a..Len(log) : SubSeq(log', a + 1, b) = SubSeq(log, a + 1, b)
  BY <1>1, <1>3, PartOf
<1>5. op'.batch = SubSeq(log', Len(log) + 1, Len(log'))
  <2>1. CASE op.batch = <<>>
    BY <1>1, <1>3, <2>1, SubSeqEmpty
  <2>2. CASE op.batch # <<>>
    <3>1. /\ Len(log) + 1 \in Len(log) + 1..Len(log) + Len(op.batch)
          /\ Len(log') \in Len(log) + 1..Len(log) + Len(op.batch)
      BY <1>3, <2>2
    <3>2. SubSeq(log', Len(log) + 1, Len(log')) = SubSeq(op.batch, (Len(log) + 1) - Len(log), Len(log') - Len(log))
      BY <1>1, <1>3, <3>1, SubSeqOfConcat2
    <3>3. (Len(log) + 1) - Len(log) = 1 /\ Len(log') - Len(log) = Len(op.batch)
      BY <1>3
    <3> QED
      BY <1>1, <1>3, <3>2, <3>3, SubSeqFull
  <2> QED
    BY <2>1, <2>2
<1>6. Cuts(cut)'
  <2>1. LastCut' = LastCut
    BY <1>1 DEF LastCut
  <2>2. cut \in [1..LastCut -> base'..Len(log')] /\ cut[LastCut] = Len(log)
    <3>1. cut \in [1..LastCut -> base..Len(log)] /\ cut[LastCut] = Len(log)
      BY <1>1, <1>2 DEF Cuts
    <3>2. base..Len(log) \subseteq base'..Len(log')
      BY <1>1, <1>2, <1>3, CutsOf
    <3> QED
      BY <3>1, <3>2
  <2>3. cut[1] <= cut[2] /\ current' = SubSeq(log', cut[1] + 1, cut[2])
    <3>1. cut[1] \in 0..Len(log) /\ cut[2] \in cut[1]..Len(log)
      BY <1>2, CutsOf
    <3>2. cut[1] <= cut[2] /\ current = SubSeq(log, cut[1] + 1, cut[2])
      BY <1>2 DEF Cuts
    <3>3. SubSeq(log', cut[1] + 1, cut[2]) = SubSeq(log, cut[1] + 1, cut[2])
      BY <1>4, <3>1
    <3> QED
      BY <1>1, <3>2, <3>3
  <2>4. ASSUME NEW i \in 1..Len(queue)
        PROVE  cut[i + 1] <= cut[i + 2] /\ queue[i] = SubSeq(log', cut[i + 1] + 1, cut[i + 2])
    <3>1. cut[i + 1] \in 0..Len(log) /\ cut[i + 2] \in cut[i + 1]..Len(log)
      BY <1>2, CutsOf
    <3>2. cut[i + 1] <= cut[i + 2] /\ queue[i] = SubSeq(log, cut[i + 1] + 1, cut[i + 2])
      BY <1>2 DEF Cuts
    <3>3. SubSeq(log', cut[i + 1] + 1, cut[i + 2]) = SubSeq(log, cut[i + 1] + 1, cut[i + 2])
      BY <1>4, <3>1
    <3> QED
      BY <3>2, <3>3
  <2>5. ASSUME NEW l \in 1..Listeners
        PROVE  seen[l] = SubSeq(log', base + 1, IF l <= done THEN cut[2] ELSE cut[1])
    <3> DEFINE c == IF l <= done THEN cut[2] ELSE cut[1]
    <3>1. c \in Nat /\ base <= c /\ c <= Len(log) /\ base \in Nat /\ Len(log) \in Nat
      BY <1>2, CutsOf
    <3>2. seen[l] = SubSeq(log, base + 1, c)
      BY <1>2 DEF Cuts
    <3> HIDE DEF c
    <3>3. base \in 0..Len(log) /\ c \in base..Len(log)
      BY <3>1
    <3>4. SubSeq(log', base + 1, c) = SubSeq(log, base + 1, c)
      BY <1>4, <3>3
    <3> QED
      BY <3>2, <3>4 DEF c
  <2> QED
    BY <1>1, <1>5, <2>1, <2>2, <2>3, <2>4, <2>5 DEF Cuts
<1> QED
  BY <1>1, <1>6 DEF Publication

LEMMA LoadPublishes ==
    ASSUME IInv, Publication, Load \/ LoadNothing
    PROVE  Publication'
<1>1. ~up /\ up' /\ UNCHANGED publishVars /\ base' = Len(log') /\ op' = op /\ op.pc \notin Committed
  BY NoOpOf DEF Load, LoadNothing, IInv, Steps, Open, Committed
<1>2. current' = <<>> /\ queue' = <<>> /\ done' = 0 /\ \A l \in 1..Listeners : seen'[l] = <<>>
  BY <1>1 DEF Publication, publishVars
<1>3. Len(log') \in Nat /\ base' \in Nat /\ base' = Len(log')
  <2>1. CASE Load
    BY <2>1, CommittedOf, ElementsOf DEF Load, Loads, IInv
  <2>2. CASE LoadNothing
    BY <2>2 DEF LoadNothing
  <2> QED
    BY <1>1, <2>1, <2>2
<1>8. PICK cut : cut = [i \in 1..2 |-> base']
  OBVIOUS
<1>4. SubSeq(log', base' + 1, base') = <<>>
  BY <1>3, SubSeqEmpty
<1>5. LastCut' = 2 /\ Len(queue') = 0
  BY <1>2 DEF LastCut
<1>6. base' \in base'..Len(log')
  BY <1>3
<1>7. Cuts(cut)'
  <2>1. cut \in [1..LastCut' -> base'..Len(log')] /\ cut[1] = base' /\ cut[2] = base' /\ cut[LastCut'] = Len(log')
    BY <1>3, <1>5, <1>6, <1>8
  <2>2. cut[1] <= cut[2] /\ current' = SubSeq(log', cut[1] + 1, cut[2])
    BY <1>2, <1>3, <1>4, <2>1
  <2>3. \A l \in 1..Listeners : seen'[l] = SubSeq(log', base' + 1, IF l <= done' THEN cut[2] ELSE cut[1])
    BY <1>2, <1>4, <2>1
  <2> QED
    BY <1>1, <1>5, <2>1, <2>2, <2>3 DEF Cuts
<1> QED
  BY <1>1, <1>2, <1>7 DEF Publication

\* A call made while nothing is published begins to be.
LEMMA FirstPublishes ==
    ASSUME TypeOK, Publication, PublishFirst
    PROVE  Publication'
<1>1. /\ up /\ up' /\ op.pc \in Committed /\ op'.pc \notin Committed
      /\ UNCHANGED <<log, base, queue, seen>> /\ current' = op.batch /\ done' = 0 /\ outer'.batch = op.batch
      /\ outer.batch = <<>>
  BY NoOpOf DEF PublishFirst, At, Committed, memoryVars, Publishing
<1>2. PICK cut : Cuts(cut)
  BY <1>1 DEF Publication
<1>3. current = <<>> /\ queue = <<>> /\ done = 0 /\ Len(queue) = 0 /\ LastCut = 2 /\ LastCut' = 2
  BY <1>1 DEF Publication, LastCut
<1>4. /\ log \in Seq(Commands) /\ Len(log) \in Nat /\ base \in Nat
      /\ cut[1] \in Nat /\ cut[2] \in Nat /\ cut[1] <= cut[2] /\ cut[2] <= Len(log) /\ base <= cut[1]
      /\ cut[1] \in 0..Len(log) /\ cut[2] \in cut[1]..Len(log)
  BY <1>2, CutsOf
<1>5. cut[1] = cut[2]
  <2>1. SubSeq(log, cut[1] + 1, cut[2]) = <<>>
    BY <1>2, <1>3 DEF Cuts
  <2> QED
    BY <1>4, <2>1, EmptyPart, ZenonT(60)
<1>6. PICK new : new = [i \in 1..2 |-> IF i = 1 THEN cut[2] ELSE Len(log)]
  OBVIOUS
<1>7. new \in [1..LastCut' -> base'..Len(log')] /\ new[1] = cut[2] /\ new[2] = Len(log) /\ new[1] <= new[2]
  <2>1. cut[2] \in base..Len(log) /\ Len(log) \in base..Len(log)
    BY <1>4
  <2> QED
    BY <1>1, <1>3, <1>4, <1>6, <2>1
<1>8. current' = SubSeq(log', new[1] + 1, new[2])
  BY <1>1, <1>2, <1>3, <1>7 DEF Cuts
<1>9. \A l \in 1..Listeners : seen'[l] = SubSeq(log', base' + 1, IF l <= done' THEN new[2] ELSE new[1])
  <2> SUFFICES ASSUME NEW l \in 1..Listeners PROVE seen'[l] = SubSeq(log', base' + 1, IF l <= done' THEN new[2] ELSE new[1])
    OBVIOUS
  <2>1. ~(l <= 0)
    BY JournalAssumption
  <2>2. seen[l] = SubSeq(log, base + 1, cut[1])
    BY <1>2, <1>3, <2>1 DEF Cuts
  <2> QED
    BY <1>1, <1>5, <1>7, <2>1, <2>2
<1>10. Cuts(new)'
  BY <1>1, <1>3, <1>7, <1>8, <1>9 DEF Cuts
<1> QED
  BY <1>1, <1>10 DEF Publication

\* A call made by a listener queues.
LEMMA NestedPublishes ==
    ASSUME TypeOK, Publication, PublishNested
    PROVE  Publication'
<1>1. /\ up /\ up' /\ op.pc \in Committed /\ op'.pc \notin Committed /\ op.batch \in Batches \cup {<<>>}
      /\ UNCHANGED <<log, base, current, seen, done, outer>> /\ queue' = Append(queue, op.batch)
      /\ outer.batch # <<>>
  BY NoOpOf DEF PublishNested, At, Committed, memoryVars, Publishing, TypeOK, Ops
<1>2. PICK cut : Cuts(cut)
  BY <1>1 DEF Publication
<1>3. /\ log \in Seq(Commands) /\ Len(log) \in Nat /\ Len(queue) \in Nat /\ base \in Nat
      /\ 1 \in 1..LastCut /\ 2 \in 1..LastCut
      /\ \A i \in 1..LastCut : cut[i] \in Nat /\ base <= cut[i] /\ cut[i] <= Len(log)
  BY <1>2, CutsOf
<1>4. /\ queue \in Seq(Batches \cup {<<>>}) /\ Len(queue') = Len(queue) + 1
      /\ \A i \in 1..Len(queue) : queue'[i] = queue[i]
      /\ queue'[Len(queue) + 1] = op.batch
  <2>1. queue \in Seq(Batches \cup {<<>>})
    BY DEF TypeOK
  <2> QED
    BY <1>1, <2>1, AppendProperties
<1>5. LastCut = Len(queue) + 2 /\ LastCut' = Len(queue) + 3 /\ LastCut \in Nat
  BY <1>3, <1>4 DEF LastCut
<1>6. PICK new : new = [i \in 1..LastCut' |-> IF i = LastCut' THEN Len(log) ELSE cut[i]]
  OBVIOUS
<1>7. /\ \A i \in 1..LastCut : i \in 1..LastCut' /\ i # LastCut' /\ new[i] = cut[i]
      /\ new[LastCut'] = Len(log)
  <2>1. LastCut' \in 1..LastCut' /\ \A i \in 1..LastCut : i \in 1..LastCut' /\ i # LastCut'
    BY <1>3, <1>5
  <2> QED
    BY <1>6, <2>1
<1>8. new \in [1..LastCut' -> base'..Len(log')]
  <2>1. ASSUME NEW i \in 1..LastCut' PROVE (IF i = LastCut' THEN Len(log) ELSE cut[i]) \in base'..Len(log')
    <3>1. CASE i = LastCut'
      BY <1>1, <1>3, <3>1
    <3>2. CASE i # LastCut'
      <4>1. i \in 1..LastCut
        BY <1>3, <1>5, <3>2
      <4> QED
        BY <1>1, <1>3, <3>2, <4>1
    <3> QED
      BY <3>1, <3>2
  <2> QED
    BY <1>6, <2>1
<1>9. new[1] <= new[2] /\ current' = SubSeq(log', new[1] + 1, new[2])
  BY <1>1, <1>2, <1>3, <1>7 DEF Cuts
<1>10. ASSUME NEW i \in 1..Len(queue')
       PROVE  new[i + 1] <= new[i + 2] /\ queue'[i] = SubSeq(log', new[i + 1] + 1, new[i + 2])
  <2>1. CASE i \in 1..Len(queue)
    <3>1. i + 1 \in 1..LastCut /\ i + 2 \in 1..LastCut
      BY <1>2, <2>1, CutsOf
    <3>2. cut[i + 1] <= cut[i + 2] /\ queue[i] = SubSeq(log, cut[i + 1] + 1, cut[i + 2])
      BY <1>2, <2>1 DEF Cuts
    <3> QED
      BY <1>1, <1>4, <1>7, <2>1, <3>1, <3>2
  <2>2. CASE i = Len(queue) + 1
    <3>1. i + 1 = LastCut /\ i + 2 = LastCut' /\ LastCut \in 1..LastCut
      BY <1>3, <1>5, <2>2
    <3>2. new[i + 1] = cut[LastCut] /\ new[i + 2] = Len(log) /\ cut[LastCut] <= Len(log)
      BY <1>3, <1>7, <3>1
    <3>3. op.batch = SubSeq(log, cut[LastCut] + 1, Len(log))
      BY <1>1, <1>2 DEF Cuts
    <3> QED
      BY <1>1, <1>4, <2>2, <3>2, <3>3
  <2> QED
    BY <1>3, <1>4, <2>1, <2>2
<1>11. \A l \in 1..Listeners : seen'[l] = SubSeq(log', base' + 1, IF l <= done' THEN new[2] ELSE new[1])
  <2>1. new[1] = cut[1] /\ new[2] = cut[2]
    BY <1>3, <1>7
  <2>2. \A l \in 1..Listeners : seen[l] = SubSeq(log, base + 1, IF l <= done THEN cut[2] ELSE cut[1])
    BY <1>2 DEF Cuts
  <2> QED
    BY <1>1, <2>1, <2>2
<1>12. Cuts(new)'
  BY <1>1, <1>7, <1>8, <1>9, <1>10, <1>11 DEF Cuts
<1> QED
  BY <1>1, <1>12 DEF Publication

\* The next listener gets the batch being published.
LEMMA CallPublishes ==
    ASSUME TypeOK, Publication, CallListener
    PROVE  Publication'
<1>1. /\ up /\ up' /\ op' = op /\ done < Listeners /\ done' = done + 1
      /\ UNCHANGED <<log, base, current, queue, outer>>
      /\ seen' = [seen EXCEPT ![done + 1] = @ \o current] /\ outer.batch # <<>>
  BY DEF CallListener, memoryVars, Publishing, Idle
<1>2. PICK cut : Cuts(cut)
  BY <1>1 DEF Publication
<1>3. /\ log \in Seq(Commands) /\ Len(log) \in Nat /\ base \in Nat /\ done \in Nat
      /\ cut[1] \in Nat /\ cut[2] \in Nat /\ cut[1] <= cut[2] /\ cut[2] <= Len(log) /\ base <= cut[1]
  BY <1>2, CutsOf
<1>4. /\ current = SubSeq(log, cut[1] + 1, cut[2])
      /\ \A l \in 1..Listeners : seen[l] = SubSeq(log, base + 1, IF l <= done THEN cut[2] ELSE cut[1])
  BY <1>2 DEF Cuts
<1>5. SubSeq(log, base + 1, cut[1]) \o SubSeq(log, cut[1] + 1, cut[2]) = SubSeq(log, base + 1, cut[2])
  BY <1>3, PartsJoin
<1>6. ASSUME NEW l \in 1..Listeners
      PROVE  seen'[l] = SubSeq(log, base + 1, IF l <= done + 1 THEN cut[2] ELSE cut[1])
  <2>1. l \in Nat /\ seen \in [1..Listeners -> Seq(Commands)]
    BY JournalAssumption DEF TypeOK
  <2>2. CASE l = done + 1
    <3>1. ~(l <= done) /\ l <= done + 1
      BY <1>3, <2>1, <2>2
    <3>2. seen'[l] = seen[l] \o current
      BY <1>1, <2>1, <2>2
    <3> QED
      BY <1>4, <1>5, <3>1, <3>2
  <2>3. CASE l # done + 1
    <3>1. seen'[l] = seen[l] /\ (l <= done <=> l <= done + 1)
      BY <1>1, <1>3, <2>1, <2>3
    <3> QED
      BY <1>4, <3>1
  <2> QED
    BY <2>2, <2>3
<1>7. Cuts(cut)'
  BY <1>1, <1>2, <1>6 DEF Cuts, LastCut
<1> QED
  BY <1>1, <1>7 DEF Publication

\* When all have been called, the first queued batch is next.
LEMMA NextPublishes ==
    ASSUME TypeOK, Publication, NextBatch
    PROVE  Publication'
<1>1. /\ up /\ up' /\ op' = op /\ op.pc \notin Committed /\ done = Listeners /\ done' = 0
      /\ UNCHANGED <<log, base, outer, seen>> /\ outer.batch # <<>>
      /\ queue # <<>> /\ current' = Head(queue) /\ queue' = Tail(queue)
  BY DEF NextBatch, memoryVars, Publishing, Idle, Committed
<1>2. PICK cut : Cuts(cut)
  BY <1>1 DEF Publication
<1>3. /\ log \in Seq(Commands) /\ Len(log) \in Nat /\ Len(queue) \in Nat
      /\ \A i \in 1..LastCut : cut[i] \in Nat /\ base <= cut[i] /\ cut[i] <= Len(log)
  BY <1>2, CutsOf
<1>4. /\ Len(queue) >= 1 /\ Len(queue') = Len(queue) - 1 /\ current' = queue[1]
      /\ \A i \in 1..Len(queue') : queue'[i] = queue[i + 1]
  <2>1. queue \in Seq(Batches)
    BY DEF TypeOK
  <2>2. Len(queue) >= 1
    BY <1>1, <1>3, <2>1
  <2> QED
    BY <1>1, <2>1, <2>2, HeadTailProperties
<1>5. LastCut = Len(queue) + 2 /\ LastCut' = Len(queue) + 1 /\ LastCut' \in Nat
  BY <1>3, <1>4 DEF LastCut
<1>6. PICK new : new = [i \in 1..LastCut' |-> cut[i + 1]]
  OBVIOUS
<1>7. \A i \in 1..LastCut' : i + 1 \in 1..LastCut /\ new[i] = cut[i + 1]
  BY <1>3, <1>5, <1>6
<1>8. new \in [1..LastCut' -> base'..Len(log')]
  <2>1. ASSUME NEW i \in 1..LastCut' PROVE cut[i + 1] \in base..Len(log)
    <3>1. cut[i + 1] \in Nat /\ base <= cut[i + 1] /\ cut[i + 1] <= Len(log)
      BY <1>3, <1>7
    <3> QED
      BY <1>3, <3>1 DEF TypeOK
  <2> QED
    BY <1>1, <1>6, <2>1
<1>9. 1 \in 1..LastCut' /\ 2 \in 1..LastCut' /\ LastCut' \in 1..LastCut' /\ LastCut' + 1 = LastCut
  BY <1>3, <1>4, <1>5
<1>10. new[1] = cut[2] /\ new[2] = cut[3] /\ new[LastCut'] = cut[LastCut]
  BY <1>7, <1>9
<1>11. new[1] <= new[2] /\ current' = SubSeq(log', new[1] + 1, new[2])
  <2>1. 1 \in 1..Len(queue) /\ 1 + 1 = 2 /\ 1 + 2 = 3
    BY <1>3, <1>4
  <2>2. cut[1 + 1] <= cut[1 + 2] /\ queue[1] = SubSeq(log, cut[1 + 1] + 1, cut[1 + 2])
    BY <1>2, <2>1 DEF Cuts
  <2> QED
    BY <1>1, <1>4, <1>10, <2>1, <2>2
<1>12. ASSUME NEW i \in 1..Len(queue')
       PROVE  new[i + 1] <= new[i + 2] /\ queue'[i] = SubSeq(log', new[i + 1] + 1, new[i + 2])
  <2>1. i + 1 \in 1..Len(queue) /\ i + 1 \in 1..LastCut' /\ i + 2 \in 1..LastCut'
        /\ (i + 1) + 1 = (i + 2) /\ (i + 1) + 2 = (i + 2) + 1
    BY <1>3, <1>4, <1>5
  <2>2. cut[(i + 1) + 1] <= cut[(i + 1) + 2]
        /\ queue[i + 1] = SubSeq(log, cut[(i + 1) + 1] + 1, cut[(i + 1) + 2])
    BY <1>2, <2>1 DEF Cuts
  <2>3. new[i + 1] = cut[(i + 1) + 1] /\ new[i + 2] = cut[(i + 2) + 1]
    BY <1>7, <2>1
  <2> QED
    BY <1>1, <1>4, <2>1, <2>2, <2>3
<1>13. \A l \in 1..Listeners : seen'[l] = SubSeq(log', base' + 1, IF l <= done' THEN new[2] ELSE new[1])
  <2> SUFFICES ASSUME NEW l \in 1..Listeners
               PROVE  seen'[l] = SubSeq(log', base' + 1, IF l <= done' THEN new[2] ELSE new[1])
    OBVIOUS
  <2>1. l <= Listeners /\ ~(l <= 0)
    BY JournalAssumption
  <2>2. seen[l] = SubSeq(log, base + 1, cut[2])
    BY <1>1, <1>2, <2>1 DEF Cuts
  <2> QED
    BY <1>1, <1>10, <2>1, <2>2
<1>14. Cuts(new)'
  <2>1. cut[LastCut] = Len(log)
    BY <1>1, <1>2 DEF Cuts
  <2> QED
    BY <1>1, <1>8, <1>10, <1>11, <1>12, <1>13, <2>1 DEF Cuts
<1> QED
  BY <1>1, <1>14 DEF Publication

\* Without a queue the call returns: all listeners have got all records.
LEMMA ReturnPublishes ==
    ASSUME TypeOK, Publication, Return
    PROVE  Publication'
<1>1. /\ up /\ up' /\ op' = op /\ op.pc \notin Committed /\ done = Listeners /\ done' = 0
      /\ UNCHANGED <<log, base, queue, seen>> /\ queue = <<>> /\ current' = <<>>
  BY DEF Return, memoryVars, Idle, Committed
<1>2. PICK cut : Cuts(cut)
  BY <1>1 DEF Publication
<1>3. LastCut = 2 /\ LastCut' = 2 /\ Len(queue) = 0 /\ Len(queue') = 0
  BY <1>1 DEF LastCut
<1>4. Len(log) \in Nat /\ base \in Nat /\ base <= Len(log) /\ cut[2] = Len(log)
  <2>1. cut[LastCut] = Len(log)
    BY <1>1, <1>2 DEF Cuts
  <2> QED
    BY <1>2, <1>3, <2>1, CutsOf
<1>5. PICK new : new = [i \in 1..2 |-> Len(log)]
  OBVIOUS
<1>6. new \in [1..LastCut' -> base'..Len(log')] /\ new[1] = Len(log) /\ new[2] = Len(log)
  <2>1. Len(log) \in base..Len(log)
    BY <1>4
  <2> QED
    BY <1>1, <1>3, <1>5, <2>1
<1>7. new[1] <= new[2] /\ current' = SubSeq(log', new[1] + 1, new[2])
  BY <1>1, <1>4, <1>6, SubSeqEmpty
<1>8. \A l \in 1..Listeners : seen'[l] = SubSeq(log', base' + 1, IF l <= done' THEN new[2] ELSE new[1])
  <2> SUFFICES ASSUME NEW l \in 1..Listeners
               PROVE  seen'[l] = SubSeq(log', base' + 1, IF l <= done' THEN new[2] ELSE new[1])
    OBVIOUS
  <2>1. l <= Listeners
    BY JournalAssumption
  <2>2. seen[l] = SubSeq(log, base + 1, cut[2])
    BY <1>1, <1>2, <2>1 DEF Cuts
  <2> QED
    BY <1>1, <1>4, <1>6, <2>2
<1>9. Cuts(new)'
  BY <1>1, <1>3, <1>6, <1>7, <1>8 DEF Cuts
<1> QED
  BY <1>1, <1>9 DEF Publication

LEMMA StepPublishes ==
    ASSUME IInv, Publication, [Next]_vars
    PROVE  Publication'
<1> USE DEF IInv
<1>1. CASE Crash \/ LosePower
  BY <1>1 DEF Crash, LosePower, Down, NoOuter, Publication
<1>2. CASE Load \/ LoadNothing
  BY <1>2, LoadPublishes
<1>3. CASE Commit
  BY <1>3, CommitPublishes
<1>4. CASE PublishFirst \/ PublishNested
  BY <1>4, FirstPublishes, NestedPublishes
<1>5. CASE CallListener \/ NextBatch \/ Return
  BY <1>5, CallPublishes, NextPublishes, ReturnPublishes
<1>6. CASE UNCHANGED vars
  BY <1>6, PublicationStays DEF vars, memoryVars
<1>7. CASE Call
  <2>1. ASSUME NEW c \in Commands, AppendAgain(c) PROVE Publication'
    BY <2>1, PublicationStays DEF AppendAgain, memoryVars
  <2>2. ASSUME op.pc = "idle", op'.pc \in {"serialize", "mkdir"}, UNCHANGED <<memoryVars, publishVars>> PROVE Publication'
    BY <2>2, PublicationStays DEF memoryVars, Committed
  <2>3. ASSUME NEW c \in Commands, Append1(c) PROVE op'.pc \in {"serialize", "mkdir"}
    BY <2>3 DEF Append1, NoOp
  <2>4. ASSUME NEW b \in Batches, Adopt(b) PROVE op'.pc \in {"serialize", "mkdir"}
    BY <2>4 DEF Adopt, NoOp
  <2> QED
    BY <1>7, <2>1, <2>2, <2>3, <2>4 DEF Call, Append1, Adopt, MayCall, Idle
<1>8. CASE MakeDirectory \/ StorePayloads \/ SyncPayloads \/ SyncFile \/ WriteTemp \/ SyncDirectory \/ FailSyncDirectory
  <2>1. UNCHANGED powerFails
    BY <1>8 DEF Next, vars
  <2>2. PICK p \in Pcs : Moves(p)
    BY <1>8, <2>1, PreparingMoves
  <2> QED
    BY <2>2, PublicationStays DEF Moves, memoryVars, Committed
<1>9. CASE WriteLine \/ Rename \/ FailPreparing \/ FailWriting
  <2>1. op.pc \notin Committed /\ op'.pc \notin Committed
    BY <1>9, OpMoves, NoOpOf DEF WriteLine, Rename, FailPreparing, FailWriting, At, GoTo, Committed, Pcs
  <2> QED
    BY <1>9, <2>1, PublicationStays DEF WriteLine, Rename, FailPreparing, FailWriting, memoryVars
<1> QED
  BY <1>1, <1>2, <1>3, <1>4, <1>5, <1>6, <1>7, <1>8, <1>9 DEF Next, Step, Failure

\* Every listener gets the committed records in the order of the journal, each once,
\* also when listeners append themselves (the loop of #publish and its queue).
THEOREM PublishedInOrder == Spec => []SeenInOrder
<1>1. Publication /\ IInv /\ [Next]_vars => Publication'
  BY StepPublishes
<1>2. ASSUME IInv, Publication PROVE SeenInOrder
  <2> SUFFICES ASSUME up, NEW l \in 1..Listeners
               PROVE  IsPrefix(seen[l], Published) /\ (Idle /\ ~Publishing => seen[l] = Published)
    BY DEF SeenInOrder
  <2>1. PICK cut : Cuts(cut)
    BY <1>2 DEF Publication
  <2>2. /\ log \in Seq(Commands) /\ Len(log) \in Nat /\ base \in Nat
        /\ cut[1] \in Nat /\ cut[2] \in Nat /\ cut[1] <= cut[2] /\ cut[2] <= Len(log) /\ base <= cut[1]
    BY <1>2, <2>1, CutsOf DEF IInv
  <2>3. ASSUME NEW c \in Nat, base <= c, c <= Len(log)
        PROVE  /\ SubSeq(log, base + 1, c) \in Seq(Commands) /\ SubSeq(log, c + 1, Len(log)) \in Seq(Commands)
               /\ Published = SubSeq(log, base + 1, c) \o SubSeq(log, c + 1, Len(log))
    <3>1. base \in 0..Len(log) /\ c \in base..Len(log) /\ c \in 0..Len(log) /\ Len(log) \in c..Len(log)
      BY <2>2, <2>3
    <3>2. SubSeq(log, base + 1, c) \in Seq(Commands) /\ SubSeq(log, c + 1, Len(log)) \in Seq(Commands)
      BY <2>2, <3>1, PartOf
    <3>3. SubSeq(log, base + 1, c) \o SubSeq(log, c + 1, Len(log)) = SubSeq(log, base + 1, Len(log))
      <4>1. Len(log) <= Len(log)
        BY <2>2
      <4> QED
        BY <2>2, <2>3, <4>1, PartsJoin
    <3> QED
      BY <3>2, <3>3 DEF Published
  <2>4. PICK c : c = IF l <= done THEN cut[2] ELSE cut[1]
    OBVIOUS
  <2>5. c \in Nat /\ base <= c /\ c <= Len(log)
    BY <2>2, <2>4
  <2>6. seen[l] = SubSeq(log, base + 1, c)
    BY <2>1, <2>4 DEF Cuts
  <2>7. IsPrefix(seen[l], Published)
    <3>1. /\ SubSeq(log, base + 1, c) \in Seq(Commands) /\ SubSeq(log, c + 1, Len(log)) \in Seq(Commands)
          /\ Published = SubSeq(log, base + 1, c) \o SubSeq(log, c + 1, Len(log))
      BY <2>3, <2>5
    <3> QED
      BY <2>6, <3>1, ConcatPrefix
  <2>8. ASSUME Idle, ~Publishing PROVE seen[l] = Published
    <3>1. current = <<>> /\ queue = <<>> /\ op.pc \notin Committed
      BY <1>2, <2>8 DEF Publication, Publishing, Idle, Committed
    <3>2. LastCut = 2
      BY <3>1 DEF LastCut
    <3>3. cut[2] = Len(log) /\ SubSeq(log, cut[1] + 1, cut[2]) = <<>>
      BY <2>1, <3>1, <3>2 DEF Cuts
    <3>4. log \in Seq(Commands) /\ cut[1] \in Nat /\ cut[2] \in Nat /\ cut[1] <= cut[2] /\ cut[2] <= Len(log)
      BY <2>2
    <3>5. cut[1] = cut[2]
      <4>1. PICK a, b : a = cut[1] /\ b = cut[2]
        OBVIOUS
      <4>2. a \in Nat /\ b \in Nat /\ a <= b /\ b <= Len(log) /\ SubSeq(log, a + 1, b) = <<>>
        BY <3>3, <3>4, <4>1
      <4>3. a = b
        BY <3>4, <4>2, EmptyPart
      <4> QED
        BY <4>1, <4>3
    <3> QED
      BY <2>4, <2>6, <3>3, <3>5 DEF Published
  <2> QED
    BY <2>7, <2>8
<1>3. Init => Publication
  BY PublicationBegins
<1> QED
  BY <1>1, <1>2, <1>3, Inductive, PTL DEF Spec

-----------------------------------------------------------------------------
(* The writer lock of the journal folder: as long as no two processes open    *)
(* the journal at once, LockInv of WriterLock is inductive, and an owner file  *)
(* is only removed by its own process or after that died or was suspended.     *)
(* The proofs hold for any finite set of processes on any hosts and any number *)
(* of suspensions.                                                             *)

\* What a process does and what happens to it.
LockDoes(p) ==
    \/ LockStep(p) \/ Start(p) \/ FailOwner(p) \/ Close(p)
    \/ Die(p) \/ Suspend(p) \/ Resume(p) \/ GrowSilent(p)

LockCore == LockTypeOK /\ OneOwner /\ OneOpening

\* Of two writers only one has its owner file, and the other lost it to a suspension.
LEMMA AloneInLock == LockCore => AloneUnlessSuspended
<1> SUFFICES ASSUME LockCore, NEW p \in Writers, NEW q \in Writers, p # q
             PROVE  \E r \in {p, q} : suspended[r] > 0 /\ r \notin owners
  BY DEF AloneUnlessSuspended
<1>1. PICK r \in {p, q} : r \notin owners
  BY DEF LockCore, OneOwner
<1>2. r \in Processes /\ Holding(r)
  BY DEF Writers, Holding
<1>3. Stale(r) /\ ~Dead(r)
  BY <1>1, <1>2 DEF LockCore, OneOwner, Holding, Dead
<1>4. QED
  BY <1>1, <1>3 DEF Stale

\* The owner that is judged is the only one.
LEMMA TheOnlyOwner ==
    ASSUME LockTypeOK, Cardinality(owners) <= 1
    PROVE  \A q \in owners : owners = {q}
<1>1. IsFiniteSet(owners)
  BY FS_Subset, LockAssumption DEF LockTypeOK
<1>2. SUFFICES ASSUME NEW q \in owners PROVE owners = {q}
  OBVIOUS
<1>3. IsFiniteSet(owners \ {q}) /\ Cardinality(owners \ {q}) = Cardinality(owners) - 1 /\ Cardinality(owners) \in Nat
  BY <1>1, FS_RemoveElement, FS_CardinalityType
<1>4. Cardinality(owners \ {q}) = 0
  BY <1>1, <1>3, FS_CardinalityType
<1>5. owners \ {q} = {}
  BY <1>3, <1>4, FS_EmptySet
<1>6. QED
  BY <1>5

\* Every step keeps the shape of the lock.
LEMMA LockTypeSteps ==
    ASSUME LockCore, ~Overlap, NEW p \in Processes, LockDoes(p) PROVE LockTypeOK'
<1> USE DEF LockCore, LockTypeOK, Places, AwakeAt, MovesTo, Opening, Leaving, Gone,
   fileVars, sleepVars
<1>1. CASE Start(p)
  BY <1>1 DEF Start
<1>2. CASE CreateDirectory(p)
  BY <1>2 DEF CreateDirectory
<1>3. CASE ListOwners(p)
  BY <1>3, LockAssumption DEF ListOwners
<1>4. CASE ListFails(p)
  BY <1>4 DEF ListFails
<1>5. CASE Judge(p)
  BY <1>5 DEF Judge
<1>6. CASE ListLock(p)
  BY <1>6 DEF ListLock
<1>7. CASE UnlinkOwner(p)
  BY <1>7 DEF UnlinkOwner
<1>8. CASE RemoveDirectory(p)
  BY <1>8 DEF RemoveDirectory
<1>9. CASE CreateAgain(p)
  BY <1>9 DEF CreateAgain
<1>10. CASE OpenOwner(p)
  BY <1>10 DEF OpenOwner
<1>11. CASE WriteOwner(p)
  BY <1>11 DEF WriteOwner
<1>12. CASE SyncOwner(p)
  BY <1>12 DEF SyncOwner
<1>13. CASE FailOwner(p)
  BY <1>13 DEF FailOwner
<1>14. CASE Truncate(p)
  BY <1>14 DEF Truncate
<1>15. CASE Beat(p)
  BY <1>15 DEF Beat
<1>16. CASE Close(p)
  BY <1>16 DEF Close
<1>17. CASE UnlinkOwn(p)
  BY <1>17 DEF UnlinkOwn
<1>18. CASE LeaveDirectory(p)
  BY <1>18 DEF LeaveDirectory
<1>19. CASE Die(p)
  BY <1>19 DEF Die
<1>20. CASE Suspend(p)
  BY <1>20, LockAssumption DEF Suspend
<1>21. CASE Resume(p)
  BY <1>21 DEF Resume
<1>22. CASE GrowSilent(p)
  BY <1>22 DEF GrowSilent
<1>23. QED
  BY <1>1, <1>2, <1>3, <1>4, <1>5, <1>6, <1>7, <1>8, <1>9, <1>10, <1>11,
     <1>12, <1>13, <1>14, <1>15, <1>16, <1>17, <1>18, <1>19, <1>20, <1>21, <1>22 DEF LockDoes, LockStep

\* Nobody removes the owner file of a live process, nor adds a second one.
LEMMA OwnerSteps ==
    ASSUME LockCore, ~Overlap, NEW p \in Processes, LockDoes(p) PROVE OneOwner'
<1> USE DEF LockCore, LockTypeOK, OneOwner, OneOpening, Stale, Dead, Holding, AwakeAt,
   MovesTo, Opening, Leaving, Gone, fileVars, sleepVars
<1>1. CASE Start(p)
  BY <1>1 DEF Start
<1>2. CASE CreateDirectory(p)
  BY <1>2 DEF CreateDirectory
<1>3. CASE ListOwners(p)
  BY <1>3 DEF ListOwners
<1>4. CASE ListFails(p)
  BY <1>4 DEF ListFails
<1>5. CASE Judge(p)
  BY <1>5 DEF Judge
<1>6. CASE ListLock(p)
  BY <1>6 DEF ListLock
<1>7. CASE UnlinkOwner(p)
  BY <1>7 DEF UnlinkOwner
<1>8. CASE RemoveDirectory(p)
  BY <1>8 DEF RemoveDirectory
<1>9. CASE CreateAgain(p)
  BY <1>9 DEF CreateAgain
<1>10. CASE OpenOwner(p)
  BY <1>10 DEF OpenOwner
<1>11. CASE WriteOwner(p)
  BY <1>11 DEF WriteOwner
<1>12. CASE SyncOwner(p)
  BY <1>12 DEF SyncOwner
<1>13. CASE FailOwner(p)
  BY <1>13 DEF FailOwner
<1>14. CASE Truncate(p)
  BY <1>14 DEF Truncate
<1>15. CASE Beat(p)
  BY <1>15 DEF Beat
<1>16. CASE Close(p)
  BY <1>16 DEF Close
<1>17. CASE UnlinkOwn(p)
  BY <1>17 DEF UnlinkOwn
<1>18. CASE LeaveDirectory(p)
  BY <1>18 DEF LeaveDirectory
<1>19. CASE Die(p)
  BY <1>19 DEF Die
<1>20. CASE Suspend(p)
  BY <1>20 DEF Suspend
<1>21. CASE Resume(p)
  BY <1>21 DEF Resume
<1>22. CASE GrowSilent(p)
  BY <1>22 DEF GrowSilent
<1>23. QED
  BY <1>1, <1>2, <1>3, <1>4, <1>5, <1>6, <1>7, <1>8, <1>9, <1>10, <1>11,
     <1>12, <1>13, <1>14, <1>15, <1>16, <1>17, <1>18, <1>19, <1>20, <1>21, <1>22 DEF LockDoes, LockStep

\* The process that opens the journal finds and removes only what it may.
LEMMA OpeningSteps ==
    ASSUME LockCore, ~Overlap, NEW p \in Processes, LockDoes(p) PROVE OneOpening'
<1> USE DEF LockCore, LockTypeOK, OneOwner, OneOpening, Stale, Dead, AwakeAt, MovesTo,
   Opening, Leaving, Gone, fileVars, sleepVars
<1>1. CASE Start(p)
  BY <1>1 DEF Start
<1>2. CASE CreateDirectory(p)
  BY <1>2 DEF CreateDirectory
<1>3. CASE ListOwners(p)
  <2>1. \A q \in owners : owners = {q}
    BY <1>3, TheOnlyOwner DEF ListOwners
  <2>2. owners # {} => (CHOOSE q \in owners : TRUE) \in owners
    OBVIOUS
  <2>3. \A q \in owners : q = CHOOSE r \in owners : TRUE
    BY <2>1, <2>2
  <2>4. QED
    BY <1>3, <2>3 DEF ListOwners
<1>4. CASE ListFails(p)
  BY <1>4 DEF ListFails
<1>5. CASE Judge(p)
  <2>1. Orphaned(p, read[p]) => Stale(read[p])
    BY DEF Orphaned
  <2>2. pc[p] = "judge" /\ \A q \in owners : q = read[p]
    BY <1>5 DEF Judge
  <2>3. Orphaned(p, read[p]) => \A q \in owners : Stale(q)
    BY <2>1, <2>2
  <2>4. UNCHANGED <<doomed, lost, sleepVars, fileVars>> /\ read' = [read EXCEPT ![p] = NoProcess]
    BY <1>5 DEF Judge
  <2>5. CASE pc' = [pc EXCEPT ![p] = "clear"] /\ Orphaned(p, read[p])
    BY <2>2, <2>3, <2>4, <2>5
  <2>6. CASE pc' = [pc EXCEPT ![p] = "refused"]
    BY <2>2, <2>4, <2>6
  <2>7. QED
    BY <1>5, <2>5, <2>6 DEF Judge
<1>6. CASE ListLock(p)
  BY <1>6 DEF ListLock
<1>7. CASE UnlinkOwner(p)
  BY <1>7 DEF UnlinkOwner
<1>8. CASE RemoveDirectory(p)
  BY <1>8 DEF RemoveDirectory
<1>9. CASE CreateAgain(p)
  BY <1>9 DEF CreateAgain
<1>10. CASE OpenOwner(p)
  BY <1>10 DEF OpenOwner
<1>11. CASE WriteOwner(p)
  BY <1>11 DEF WriteOwner
<1>12. CASE SyncOwner(p)
  BY <1>12 DEF SyncOwner
<1>13. CASE FailOwner(p)
  BY <1>13 DEF FailOwner
<1>14. CASE Truncate(p)
  BY <1>14 DEF Truncate
<1>15. CASE Beat(p)
  BY <1>15 DEF Beat
<1>16. CASE Close(p)
  BY <1>16 DEF Close
<1>17. CASE UnlinkOwn(p)
  BY <1>17 DEF UnlinkOwn
<1>18. CASE LeaveDirectory(p)
  BY <1>18 DEF LeaveDirectory
<1>19. CASE Die(p)
  BY <1>19 DEF Die
<1>20. CASE Suspend(p)
  BY <1>20 DEF Suspend
<1>21. CASE Resume(p)
  BY <1>21 DEF Resume
<1>22. CASE GrowSilent(p)
  BY <1>22 DEF GrowSilent
<1>23. QED
  BY <1>1, <1>2, <1>3, <1>4, <1>5, <1>6, <1>7, <1>8, <1>9, <1>10, <1>11,
     <1>12, <1>13, <1>14, <1>15, <1>16, <1>17, <1>18, <1>19, <1>20, <1>21, <1>22 DEF LockDoes, LockStep

LEMMA LockSteps == LockCore /\ ~Overlap /\ [LockNext]_lockVars => LockCore'
<1> SUFFICES ASSUME LockCore, ~Overlap, [LockNext]_lockVars PROVE LockCore'
  OBVIOUS
<1>1. CASE LockNext
  <2>1. PICK p \in Processes : LockDoes(p)
    BY <1>1 DEF LockNext, LockDoes
  <2>2. QED
    BY <2>1, LockTypeSteps, OwnerSteps, OpeningSteps DEF LockCore
<1>2. CASE UNCHANGED lockVars
  BY <1>2 DEF LockCore, LockTypeOK, OneOwner, OneOpening, Stale, Dead, Holding, lockVars
<1>3. QED
  BY <1>1, <1>2

LEMMA NobodyYet == LockInit => LockCore
BY LockAssumption DEF LockInit, LockCore, LockTypeOK, Places, Opening, Leaving, Gone,
   OneOwner, OneOpening, Stale, Dead, Holding

\* Whatever dies, is suspended or closes while others open the journal one after the other: the lock has at most one
\* owner, and a second writer is only there beside one that slept through its own replacement.
THEOREM LockInvariant == ASSUME ~Overlap PROVE LockSpec => []LockInv
<1>1. LockCore => LockInv
  BY AloneInLock DEF LockCore, LockInv
<1>2. LockCore /\ [LockNext]_lockVars => LockCore'
  BY LockSteps
<1>3. QED
  BY <1>1, <1>2, NobodyYet, PTL DEF LockSpec

\* The owner file of a live process is removed by itself, or after a suspension; a process that was replaced does not
\* take that of its replacement along.
THEOREM OwnerStays == ASSUME ~Overlap PROVE LockSpec => OwnerKept
<1> DEFINE Kept == \A p \in owners \ owners' : Dead(p) \/ pc[p] \in Leaving \/ suspended[p] > 0
<1>1. LockCore /\ [LockNext]_lockVars => [Kept]_lockVars
  <2> SUFFICES ASSUME LockCore, NEW p \in Processes, LockDoes(p) PROVE Kept
    BY DEF LockNext, LockDoes
  <2>1. CASE UnlinkOwner(p)
    BY <2>1 DEF UnlinkOwner, AwakeAt, LockCore, LockTypeOK, OneOpening, Stale
  <2>2. CASE UnlinkOwn(p)
    BY <2>2 DEF UnlinkOwn, AwakeAt, Leaving
  <2>3. CASE owners \subseteq owners'
    BY <2>3
  <2>4. QED
    BY <2>1, <2>2, <2>3 DEF LockDoes, LockStep, Start, CreateDirectory, ListOwners,
       ListFails, Judge, ListLock, RemoveDirectory,
       CreateAgain, OpenOwner, WriteOwner, SyncOwner, FailOwner, Truncate,
          Beat, Close, LeaveDirectory, Die, Suspend,
       Resume, GrowSilent, fileVars
<1>2. LockCore /\ [LockNext]_lockVars => LockCore'
  BY LockSteps
<1>3. QED
  BY <1>1, <1>2, NobodyYet, PTL DEF LockSpec, OwnerKept

=============================================================================
