------------------------- MODULE FileStoreProofs -------------------------
(***************************************************************************)
(* Theorems about FileStore, for every set of configurations, contents and  *)
(* concurrent calls, every number of chunks and every number of calls,      *)
(* edits and faults.                                                        *)
(***************************************************************************)
EXTENDS FileStore, FiniteSetTheorems, TLAPS

-----------------------------------------------------------------------------
(* What holds of the calls in progress *)

ChunkSteps == {"chunk", "write", "count", "list", "merge", "load", "tidy", "remove"}

\* What the steps of a call have given it.
CallFits(c) ==
  /\ c.op # "chunk" => c.pc \notin ChunkSteps /\ ~c.opened
  /\ c.op = "chunk" => c.pc \notin {"idle", "reread", "record"}
  /\ c.op = "none" => c.pc = "idle"
  /\ c.pc \notin {"idle", "find"} => c.code \in Config
  /\ c.pc = "client" => c.want \in Content
  /\ c.pc = "store" => c.at \in UsableContent
  /\ c.pc = "store" /\ c.op = "simple" => c.want \in Content
  /\ c.opened => c.pc = "merge"
  /\ c.op = "chunk" /\ c.pc \notin {"find", "client", "chunk", "write"} => c.n = NumChunks

CallsFit == \A s \in Slot : CallFits(call[s])

\* The configuration of a call has been there, and the client of a chunk call is.
CodesThere ==
  \A s \in Slot : call[s].pc \notin {"idle", "find"} => config[call[s].code].state # "none"
ClientsThere ==
  \A s \in Slot : InChunk(s) /\ call[s].pc \notin {"find", "client"} => clients[call[s].code] # None

FileInv == TypeOK /\ CallsFit /\ CodesThere /\ ClientsThere

\* Until a client has refused a configuration, it stores to the one it has.
ClientsFollow ==
  ~ghost.refused => \A c \in Config : clients[c] # None => clients[c].at \in {None, clients[c].config}
StoresFollow ==
  ~ghost.refused => \A s \in Slot :
    call[s].op = "simple" /\ call[s].pc = "store" => call[s].at = call[s].want
RecordsFollow ==
  \A s \in Slot : call[s].pc = "record" =>
    call[s].config = call[s].code \/ config[call[s].code].state = "deleted"

StoreInv == ClientsFollow /\ StoresFollow /\ RecordsFollow /\ StoredWhereConfigured

UploadInv == FileInv /\ StoreInv /\ OrphansExplained

-----------------------------------------------------------------------------
(* What holds of the chunks *)

\* A chunk call that has not yet opened its chunk.
Before(c) == c.op = "chunk" /\ c.pc \in {"find", "client", "chunk"}

Upto(k) == [i \in 1 .. k |-> i]

\* The merged file has a name of its own, and all chunk calls ended well, one at a time, ...
Undisturbed == FileName = NumChunks + 1 /\ ~ghost.overlapped /\ ~ghost.cut

\* ... or the directory has been cleared by the chunk 1 that the run began with.
Cleared(c) ==
  fields = "number" /\ FileName = NumChunks + 1
    /\ (ghost.run >= 1 \/ (ghost.run = 0 /\ c.op = "chunk" /\ ~Before(c)))

Neat(c) == Undisturbed \/ Cleared(c)

\* There is at most one chunk call at a time.
Orderly == ~ghost.overlapped \/ ghost.run >= 0
OneChunkCall == \A s, t \in Slot : InChunk(s) /\ InChunk(t) => s = t

\* A chunk in the directory is filled, but for the one that the call is writing;
\* a merged file is created when all chunks are there.
Filling(c) ==
  /\ \A n \in Names \ {FileName} :
       dir[n] = <<n>> \/ (c.op = "chunk" /\ c.pc = "write" /\ c.n = n)
  /\ FileName \in Names => 1 .. NumChunks \subseteq Names

\* A merge goes on with the chunks from k on.
Merging(c) ==
  /\ c.pc = "list" => Names = 1 .. NumChunks
  /\ c.pc = "merge" =>
       /\ 1 .. NumChunks \subseteq Names
       /\ c.opened => FileName \in Names
       /\ \E k \in 1 .. NumChunks + 1 : c.todo = k .. NumChunks /\ c.data = Upto(k - 1)
  /\ c.pc = "load" => FileName \in Names /\ dir[FileName] = Whole
  /\ c.pc = "store" => c.data = Whole

\* In a run there are just the chunks that were acknowledged, and the one in progress.
Running(c) ==
  /\ 1 .. ghost.run \subseteq Names
  /\ Before(c) => Names = 1 .. ghost.run
  /\ c.pc \in {"write", "count"} => Names = 1 .. ghost.run + 1
  /\ c.pc \in {"tidy", "remove"} => ghost.merged = Whole

\* What holds of the one chunk call, and of the directory while there is none.
Single(c) ==
  /\ ~c.lost
  /\ ghost.run >= 0 => c.n = ghost.run + 1
  /\ Neat(c) => Filling(c) /\ Merging(c)
  /\ Cleared(c) => Running(c)

Between ==
  /\ Neat(Idle) => Filling(Idle)
  /\ Cleared(Idle) => IF ghost.run = NumChunks THEN ghost.merged = Whole
                      ELSE Names = 1 .. ghost.run

ChunkInv ==
  /\ \A s \in Slot : ~InChunk(s) => ~call[s].lost
  /\ Orderly => /\ OneChunkCall
                /\ \A s \in Slot : InChunk(s) => Single(call[s])
                /\ (\A s \in Slot : ~InChunk(s)) => Between
  /\ MergedWhole

\* The first k chunks are there with their content.
Kept(k) == \A n \in 1 .. k : n \in Names /\ dir[n] = <<n>>

\* For a caller that passes strings no merge ever starts, ...
Unmerged ==
  \A s \in Slot : InChunk(s) => call[s].pc \in {"find", "client", "chunk", "write", "count"}

\* ... and in a run each chunk joins the acknowledged ones.
Joining(c) ==
  /\ c.pc \in {"write", "count"} => c.n \in Names
  /\ c.pc = "count" => dir[c.n] = <<c.n>>

TextInv ==
  fields = "text" =>
    /\ Unmerged
    /\ ghost.run >= 0 => /\ Kept(ghost.run)
                         /\ \A s \in Slot : InChunk(s) => Joining(call[s])

-----------------------------------------------------------------------------
(* Steps of the calls *)

\* Two states of a call that differ in nothing but whether its stream has lost its file.
Alike(a, b) ==
  /\ a.op = b.op /\ a.n = b.n /\ a.code = b.code /\ a.config = b.config /\ a.pc = b.pc
  /\ a.want = b.want /\ a.at = b.at /\ a.todo = b.todo /\ a.data = b.data /\ a.opened = b.opened

\* A step of one call.
Step(s, d) ==
  /\ call' \in [Slot -> Calls] /\ call'[s] = d
  /\ \A t \in Slot \ {s} : Alike(call'[t], call[t])

\* A step that does not touch other calls at all.
OwnStep(s, d) == Step(s, d) /\ \A t \in Slot \ {s} : call'[t] = call[t]

DirTyped == dir = None \/ \E names \in SUBSET Name : dir \in [names -> Seq(Name)]

\* The history changes in nothing but the run.
RunOnly ==
  /\ ghost' \in Ghosts
  /\ ghost'.merged = ghost.merged /\ ghost'.placed = ghost.placed
  /\ ghost'.refused = ghost.refused /\ ghost'.overlapped = ghost.overlapped
  /\ ghost'.cut = ghost.cut /\ ghost'.unrecorded = ghost.unrecorded

LEMMA CallEXCEPT ==
  ASSUME FileInv, NEW s \in Slot, NEW d \in Calls, call' = [call EXCEPT ![s] = d]
  PROVE  OwnStep(s, d)
BY DEF FileInv, TypeOK, OwnStep, Step, Alike

LEMMA IdleFits == Idle \in Calls /\ CallFits(Idle) /\ Idle.pc = "idle" /\ Idle.op = "none" /\ ~Idle.lost
<1>1. <<>> \in Seq(Name) /\ {} \in SUBSET Name
  OBVIOUS
<1>2. 1 \in 1 .. NumChunks
  BY ChunkAssumption
<1> QED
  BY <1>1, <1>2 DEF Idle, Calls, CallFits, ChunkSteps

\* How a change of the run changes the history.
LEMMA RunSet ==
  ASSUME ghost \in Ghosts, NEW x \in -1 .. NumChunks, ghost' = [ghost EXCEPT !.run = x]
  PROVE  RunOnly /\ ghost'.run = x
BY DEF Ghosts, RunOnly

LEMMA RunKept ==
  ASSUME ghost \in Ghosts, UNCHANGED ghost
  PROVE  RunOnly /\ ghost'.run = ghost.run
BY DEF RunOnly

\* A call that fails ends the run, one that returns is the next in it.
LEMMA EndsSteps ==
  ASSUME FileInv, NEW s \in Slot
  PROVE  /\ Fails(s) => /\ OwnStep(s, Idle) /\ RunOnly
                        /\ ghost'.run = IF InChunk(s) THEN -1 ELSE ghost.run
         /\ Returns(s) => /\ OwnStep(s, Idle) /\ RunOnly
                          /\ ghost'.run = IF InChunk(s) /\ ghost.run = call[s].n - 1
                                          THEN ghost.run + 1 ELSE ghost.run
<1>1. ghost \in Ghosts /\ call[s].n \in 1 .. NumChunks /\ ghost.run \in -1 .. NumChunks
      /\ NumChunks \in Nat
  BY ChunkAssumption DEF FileInv, TypeOK, Calls, Ghosts
<1>2. call' = [call EXCEPT ![s] = Idle] => OwnStep(s, Idle)
  BY IdleFits, CallEXCEPT
<1>3. ASSUME Fails(s)
      PROVE  RunOnly /\ ghost'.run = IF InChunk(s) THEN -1 ELSE ghost.run
  <2>1. CASE InChunk(s)
    <3>1. ghost' = [ghost EXCEPT !.run = -1] /\ -1 \in -1 .. NumChunks
      BY <1>1, <1>3, <2>1 DEF Fails
    <3> QED
      BY <1>1, <2>1, <3>1, RunSet
  <2>2. CASE ~InChunk(s)
    BY <1>1, <1>3, <2>2, RunKept DEF Fails
  <2> QED
    BY <2>1, <2>2
<1>4. ASSUME Returns(s)
      PROVE  RunOnly /\ ghost'.run = IF InChunk(s) /\ ghost.run = call[s].n - 1
                                     THEN ghost.run + 1 ELSE ghost.run
  <2>1. CASE InChunk(s) /\ ghost.run = call[s].n - 1
    <3>1. ghost' = [ghost EXCEPT !.run = ghost.run + 1] /\ ghost.run + 1 \in -1 .. NumChunks
      BY <1>1, <1>4, <2>1 DEF Returns
    <3> QED
      BY <1>1, <2>1, <3>1, RunSet
  <2>2. CASE ~(InChunk(s) /\ ghost.run = call[s].n - 1)
    BY <1>1, <1>4, <2>2, RunKept DEF Returns
  <2> QED
    BY <2>1, <2>2
<1> QED
  BY <1>2, <1>3, <1>4 DEF Fails, Returns

\* Calls whose file is stored and has no row yet.
InProgress == {s \in Slot : call[s].pc \in {"reread", "record"}}

LEMMA InProgressFinite ==
  IsFiniteSet(Slot) /\ IsFiniteSet(InProgress) /\ Cardinality(InProgress) \in Nat
    /\ Cardinality(Slot) \in Nat /\ Cardinality(InProgress) <= Cardinality(Slot)
<1>1. IsFiniteSet(Slot) /\ InProgress \in SUBSET Slot
  BY BoundAssumption DEF InProgress
<1> QED
  BY <1>1, FS_Subset, FS_CardinalityType

\* What a step of a call keeps of what fits.
LEMMA FileStepKeeps ==
  ASSUME FileInv, UNCHANGED fields, NEW s \in Slot, NEW d \in Calls, Step(s, d),
         CallFits(d), config' = config, fileRows' \subseteq FileRows,
         clients' \in [Config -> Clients \cup {None}],
         \A c \in Config : clients[c] # None => clients'[c] # None,
         DirTyped', ghost' \in Ghosts,
         spent' \in [calls : 0 .. MaxCalls, edits : 0 .. MaxEdits, faults : 0 .. MaxFaults],
         d.pc \notin {"idle", "find"} => config[d.code].state # "none",
         d.op = "chunk" /\ d.pc \notin {"find", "client"} => clients'[d.code] # None
  PROVE  FileInv'
<1>1. /\ call' \in [Slot -> Calls] /\ call'[s] = d
      /\ \A t \in Slot \ {s} : Alike(call'[t], call[t])
  BY DEF Step
<1>2. \A t \in Slot \ {s} : /\ call'[t].op = call[t].op /\ call'[t].pc = call[t].pc
                            /\ call'[t].n = call[t].n /\ call'[t].opened = call[t].opened
                            /\ call'[t].code = call[t].code
                            /\ call'[t].want = call[t].want /\ call'[t].at = call[t].at
  BY <1>1 DEF Alike
<1>3. TypeOK'
  BY <1>1 DEF FileInv, TypeOK, DirTyped
<1>4. CallsFit'
  <2> SUFFICES ASSUME NEW t \in Slot PROVE CallFits(call'[t])
    BY DEF CallsFit
  <2>1. CASE t = s
    BY <1>1, <2>1
  <2>2. CASE t # s
    <3>1. CallFits(call[t])
      BY DEF FileInv, CallsFit
    <3> QED
      BY <1>2, <2>2, <3>1 DEF CallFits
  <2> QED
    BY <2>1, <2>2
<1>5. CodesThere'
  BY <1>1, <1>2 DEF FileInv, CodesThere
<1>6. ClientsThere'
  <2> SUFFICES ASSUME NEW t \in Slot, call'[t].op = "chunk", call'[t].pc \notin {"find", "client"}
               PROVE  clients'[call'[t].code] # None
    BY DEF ClientsThere, InChunk
  <2>1. CASE t = s
    BY <1>1, <2>1
  <2>2. CASE t # s
    <3>1. CallFits(call[t]) /\ call[t].op = "chunk" /\ call[t].pc \notin {"find", "client"}
      BY <1>2, <2>2 DEF FileInv, CallsFit
    <3>2. call[t].code \in Config /\ clients[call[t].code] # None
      BY <3>1 DEF FileInv, ClientsThere, InChunk, CallFits
    <3> QED
      BY <1>2, <2>2, <3>2
  <2> QED
    BY <2>1, <2>2
<1> QED
  BY <1>3, <1>4, <1>5, <1>6 DEF FileInv

\* A step that neither stores nor records a file, and breaks no claim of its own.
LEMMA StepKeeps ==
  ASSUME FileInv', StoreInv, OrphansExplained, NEW s \in Slot, NEW d, Step(s, d),
         config' = config, fileRows' = fileRows,
         ghost.refused => ghost'.refused, ghost'.placed = ghost.placed,
         ~ghost'.refused => \A c \in Config :
           clients'[c] # None => clients'[c].at \in {None, clients'[c].config},
         ~ghost'.refused /\ d.op = "simple" /\ d.pc = "store" => d.at = d.want,
         d.pc = "record" => d.config = d.code \/ config[d.code].state = "deleted",
         ghost'.unrecorded = ghost.unrecorded, spent'.faults = spent.faults,
         d.pc \in {"reread", "record"} <=> call[s].pc \in {"reread", "record"}
  PROVE  UploadInv'
<1>1. /\ call'[s] = d /\ \A t \in Slot \ {s} : Alike(call'[t], call[t])
  BY DEF Step
<1>2. \A t \in Slot \ {s} : /\ call'[t].op = call[t].op /\ call'[t].pc = call[t].pc
                            /\ call'[t].code = call[t].code /\ call'[t].config = call[t].config
                            /\ call'[t].want = call[t].want /\ call'[t].at = call[t].at
  BY <1>1 DEF Alike
<1>3. StoreInv'
  <2>1. ClientsFollow'
    BY DEF ClientsFollow
  <2>2. StoresFollow'
    BY <1>1, <1>2 DEF StoreInv, StoresFollow
  <2>3. RecordsFollow'
    BY <1>1, <1>2 DEF StoreInv, RecordsFollow
  <2>4. StoredWhereConfigured'
    BY DEF StoreInv, StoredWhereConfigured
  <2> QED
    BY <2>1, <2>2, <2>3, <2>4 DEF StoreInv
<1>4. OrphansExplained'
  <2>1. InProgress' = InProgress
    BY <1>1, <1>2 DEF InProgress
  <2> QED
    BY <2>1 DEF OrphansExplained, InProgress
<1> QED
  BY <1>3, <1>4 DEF UploadInv

LEMMA ChunksTyped ==
  /\ NumChunks \in Nat /\ NumChunks >= 1 /\ FileName \in Name /\ 1 .. NumChunks \subseteq Name
  /\ IsFiniteSet(Name) /\ IsFiniteSet(1 .. NumChunks) /\ Cardinality(1 .. NumChunks) = NumChunks
<1>1. NumChunks \in Nat \ {0} /\ FileName \in 1 .. NumChunks + 1
  BY ChunkAssumption
<1>2. IsFiniteSet(1 .. NumChunks) /\ Cardinality(1 .. NumChunks) = NumChunks
  BY <1>1, FS_Interval
<1>3. IsFiniteSet(1 .. NumChunks + 1)
  BY <1>1, FS_Interval
<1> QED
  BY <1>1, <1>2, <1>3 DEF Name

\* The directory, when it is there, has the files it has.
LEMMA DirFacts ==
  ASSUME FileInv
  PROVE  /\ Names \subseteq Name /\ (dir # None => dir \in [Names -> Seq(Name)])
         /\ (dir = None => Names = {})
BY DEF FileInv, TypeOK, Names

LEMMA DirBecomes ==
  ASSUME NEW names \in SUBSET Name, NEW f \in [names -> Seq(Name)], dir' = f
  PROVE  DirTyped' /\ dir' # None /\ Names' = names
<1>1. f # None
  BY NoneAssumption
<1> QED
  BY <1>1 DEF DirTyped, Names

LEMMA DirStays ==
  ASSUME FileInv, dir' = dir
  PROVE  DirTyped' /\ Names' = Names
BY DEF FileInv, TypeOK, DirTyped, Names

\* Creating a file: it is there, empty, and the others are as they were.
LEMMA FileCreated ==
  ASSUME NEW names \in SUBSET Name, NEW files \in [names -> Seq(Name)], NEW name \in Name,
         dir' = WithFile(name, files)
  PROVE  /\ DirTyped' /\ dir' # None /\ Names' = names \cup {name}
         /\ dir'[name] = <<>> /\ \A n \in names \ {name} : dir'[n] = files[n]
<1>1. <<>> \in Seq(Name)
  OBVIOUS
<1>2. /\ WithFile(name, files) \in [names \cup {name} -> Seq(Name)]
      /\ WithFile(name, files)[name] = <<>>
      /\ \A n \in names \ {name} : WithFile(name, files)[n] = files[n]
  BY <1>1 DEF WithFile
<1>3. names \cup {name} \in SUBSET Name
  OBVIOUS
<1> QED
  BY <1>2, <1>3, DirBecomes

\* A stream that finishes fills no other file.
LEMMA FileFilled ==
  ASSUME FileInv, NEW s \in Slot, NEW name \in Name, NEW data \in Seq(Name),
         dir' = Filled(s, name, data)
  PROVE  /\ DirTyped' /\ Names' = Names
         /\ \A n \in Names \ {name} : dir'[n] = dir[n]
         /\ ~call[s].lost /\ name \in Names => dir'[name] = data
<1>1. CASE call[s].lost \/ name \notin Names
  <2>1. dir' = dir
    BY <1>1 DEF Filled
  <2> QED
    BY <1>1, <2>1, DirStays
<1>2. CASE ~call[s].lost /\ name \in Names
  <2>1. dir # None /\ dir \in [Names -> Seq(Name)] /\ Names \in SUBSET Name
    BY <1>2, DirFacts
  <2>2. dir' = [dir EXCEPT ![name] = data]
    BY <1>2 DEF Filled
  <2>3. [dir EXCEPT ![name] = data] \in [Names -> Seq(Name)]
    BY <2>1
  <2>4. DirTyped' /\ Names' = Names
    BY <2>1, <2>2, <2>3, DirBecomes
  <2> QED
    BY <1>2, <2>1, <2>2, <2>4
<1> QED
  BY <1>1, <1>2

\* What a step of a chunk call keeps of it.
Continues(s, pc) ==
  /\ call'[s].op = call[s].op /\ call'[s].n = call[s].n /\ call'[s].code = call[s].code
  /\ call'[s].config = call[s].config /\ call'[s].pc = pc /\ CallFits(call'[s])

\* A chunk is opened: the first clears the directory.
LEMMA OpenChunkSteps ==
  ASSUME FileInv, NEW s \in Slot, OpenChunk(s)
  PROVE  /\ call[s].pc = "chunk" /\ InChunk(s) /\ Step(s, call'[s])
         /\ Continues(s, "write") /\ ~call'[s].lost
         /\ \A t \in Slot \ {s} : ~InChunk(t) => call'[t] = call[t]
         /\ UNCHANGED <<config, clients, fileRows, ghost, spent>>
         /\ DirTyped' /\ dir'[call[s].n] = <<>>
         /\ Names' = IF Equals(1, call[s].n) THEN {1} ELSE Names \cup {call[s].n}
         /\ \A n \in Names' \ {call[s].n} : dir'[n] = dir[n]
<1> DEFINE c == call[s]
           clears == Equals(1, c.n) /\ dir # None
           calls == IF clears THEN Orphaned ELSE call
           e == [calls[s] EXCEPT !.pc = "write", !.lost = FALSE]
<1>1. c \in Calls /\ CallFits(c) /\ c.pc = "chunk" /\ call \in [Slot -> Calls]
  BY DEF OpenChunk, FileInv, TypeOK, CallsFit
<1>2. c.op = "chunk" /\ InChunk(s) /\ c.n \in 1 .. NumChunks /\ c.n \in Name
  BY <1>1, ChunksTyped DEF CallFits, ChunkSteps, InChunk, Calls
<1>3. \A t \in Slot : /\ calls[t] \in Calls /\ Alike(calls[t], call[t])
                      /\ ~InChunk(t) => calls[t] = call[t]
  <2> SUFFICES ASSUME NEW t \in Slot
               PROVE  /\ calls[t] \in Calls /\ Alike(calls[t], call[t])
                      /\ ~InChunk(t) => calls[t] = call[t]
    OBVIOUS
  <2>1. call[t] \in Calls /\ CallFits(call[t])
    BY DEF FileInv, TypeOK, CallsFit
  <2>2. calls[t] = IF clears /\ (call[t].pc = "write" \/ call[t].opened)
                   THEN [call[t] EXCEPT !.lost = TRUE] ELSE call[t]
    BY DEF Orphaned
  <2>3. ~InChunk(t) => call[t].pc # "write" /\ ~call[t].opened
    BY <2>1 DEF InChunk, CallFits, ChunkSteps
  <2>4. [call[t] EXCEPT !.lost = TRUE] \in Calls /\ Alike([call[t] EXCEPT !.lost = TRUE], call[t])
    BY <2>1 DEF Calls, Alike
  <2> QED
    BY <2>1, <2>2, <2>3, <2>4 DEF Alike
<1>4. calls \in [Slot -> Calls]
  BY <1>1, <1>3 DEF Orphaned
<1>5. call' = [calls EXCEPT ![s] = e]
  BY DEF OpenChunk
<1> HIDE DEF calls
<1>6. /\ e \in Calls /\ e.op = c.op /\ e.n = c.n /\ e.code = c.code /\ e.pc = "write" /\ ~e.lost
      /\ e.opened = c.opened /\ e.config = c.config
  <2> DEFINE b == calls[s]
  <2>1. b \in Calls /\ Alike(b, c)
    BY <1>3
  <2> HIDE DEF b
  <2>2. /\ b.op = c.op /\ b.n = c.n /\ b.code = c.code /\ b.opened = c.opened /\ b.config = c.config
    BY <2>1 DEF Alike
  <2>3. e = [b EXCEPT !.pc = "write", !.lost = FALSE]
    BY DEF b
  <2> HIDE DEF e
  <2>4. /\ e \in Calls /\ e.op = b.op /\ e.n = b.n /\ e.code = b.code /\ e.pc = "write" /\ ~e.lost
        /\ e.opened = b.opened /\ e.config = b.config
    BY <2>1, <2>3 DEF Calls
  <2> QED
    BY <2>2, <2>4
<1>7. call'[s] = e /\ call' \in [Slot -> Calls] /\ \A t \in Slot \ {s} : call'[t] = calls[t]
  BY <1>4, <1>5, <1>6
<1> HIDE DEF e
<1>8. Step(s, call'[s]) /\ \A t \in Slot \ {s} : ~InChunk(t) => call'[t] = call[t]
  BY <1>3, <1>7 DEF Step
<1>9. Continues(s, "write") /\ ~call'[s].lost
  BY <1>1, <1>2, <1>6, <1>7 DEF CallFits, ChunkSteps, Continues
<1>10. /\ DirTyped' /\ dir'[c.n] = <<>>
       /\ Names' = IF Equals(1, c.n) THEN {1} ELSE Names \cup {c.n}
       /\ \A n \in Names' \ {c.n} : dir'[n] = dir[n]
  <2>1. CASE clears \/ dir = None
    <3>1. dir' = WithFile(c.n, <<>>) /\ <<>> \in [{} -> Seq(Name)]
      BY <2>1 DEF OpenChunk
    <3>2. /\ DirTyped' /\ Names' = {} \cup {c.n} /\ dir'[c.n] = <<>>
      BY <1>2, <3>1, FileCreated
    <3>3. Equals(1, c.n) => c.n = 1
      BY DEF Equals
    <3> QED
      BY <2>1, <3>2, <3>3, DirFacts
  <2>2. CASE dir # None /\ ~clears
    <3>1. dir' = WithFile(c.n, dir)
      BY <2>2 DEF OpenChunk
    <3>2. dir \in [Names -> Seq(Name)] /\ Names \in SUBSET Name
      BY <2>2, DirFacts
    <3> QED
      BY <1>2, <2>2, <3>1, <3>2, FileCreated
  <2> QED
    BY <2>1, <2>2
<1> QED
  BY <1>1, <1>2, <1>8, <1>9, <1>10 DEF OpenChunk

\* A chunk is written.
LEMMA FinishChunkSteps ==
  ASSUME FileInv, NEW s \in Slot, FinishChunk(s)
  PROVE  /\ call[s].pc = "write" /\ InChunk(s) /\ OwnStep(s, call'[s])
         /\ UNCHANGED <<config, clients, fileRows, spent>>
         /\ DirTyped' /\ Names' = Names
         /\ \A n \in Names \ {call[s].n} : dir'[n] = dir[n]
         /\ ~call[s].lost /\ call[s].n \in Names => dir'[call[s].n] = <<call[s].n>>
         /\ IF call[s].n # NumChunks THEN Returns(s) /\ call'[s] = Idle
            ELSE UNCHANGED ghost /\ Continues(s, "count") /\ ~call'[s].lost
<1> DEFINE c == call[s]
           e == [c EXCEPT !.pc = "count", !.lost = FALSE]
<1>1. c \in Calls /\ CallFits(c) /\ c.pc = "write" /\ call \in [Slot -> Calls]
  BY DEF FinishChunk, FileInv, TypeOK, CallsFit
<1>2. c.op = "chunk" /\ InChunk(s) /\ c.n \in Name /\ <<c.n>> \in Seq(Name)
  BY <1>1, ChunksTyped DEF CallFits, ChunkSteps, InChunk, Calls
<1>3. /\ DirTyped' /\ Names' = Names /\ \A n \in Names \ {c.n} : dir'[n] = dir[n]
      /\ ~c.lost /\ c.n \in Names => dir'[c.n] = <<c.n>>
  BY <1>2, FileFilled DEF FinishChunk
<1>4. CASE c.n # NumChunks /\ Returns(s)
  <2>1. OwnStep(s, Idle)
    BY <1>4, EndsSteps
  <2>2. call'[s] = Idle
    BY <2>1 DEF OwnStep, Step
  <2> QED
    BY <1>1, <1>2, <1>3, <1>4, <2>1, <2>2 DEF FinishChunk
<1>5. CASE c.n = NumChunks /\ call' = [call EXCEPT ![s] = e] /\ UNCHANGED ghost
  <2>1. /\ e \in Calls /\ e.op = c.op /\ e.n = c.n /\ e.code = c.code /\ e.pc = "count" /\ ~e.lost
        /\ e.opened = c.opened /\ e.config = c.config
    BY <1>1 DEF Calls
  <2>2. OwnStep(s, e)
    BY <1>5, <2>1, CallEXCEPT
  <2>3. call'[s] = e
    BY <2>2 DEF OwnStep, Step
  <2> HIDE DEF e
  <2>4. Continues(s, "count") /\ ~call'[s].lost
    BY <1>1, <1>2, <1>5, <2>1, <2>3 DEF CallFits, ChunkSteps, Continues
  <2> QED
    BY <1>1, <1>2, <1>3, <1>5, <2>2, <2>3, <2>4 DEF FinishChunk
<1> QED
  BY <1>4, <1>5 DEF FinishChunk

\* A chunk call moves on, having read the directory.
LEMMA GoesSteps ==
  ASSUME FileInv, NEW s \in Slot, NEW pc \in {"list", "remove"}, InChunk(s),
         call[s].n = NumChunks, ~call[s].opened, call[s].code \in Config, Goes(s, pc)
  PROVE  OwnStep(s, call'[s]) /\ Continues(s, pc) /\ call'[s].lost = call[s].lost /\ UNCHANGED ghost
<1> DEFINE c == call[s]
           e == [c EXCEPT !.pc = pc]
<1>1. c \in Calls /\ CallFits(c) /\ call' = [call EXCEPT ![s] = e]
  BY DEF Goes, FileInv, TypeOK, CallsFit
<1>2. /\ e \in Calls /\ e.op = c.op /\ e.n = c.n /\ e.code = c.code /\ e.pc = pc
      /\ e.opened = c.opened /\ e.config = c.config /\ e.lost = c.lost
  BY <1>1 DEF Calls
<1>3. OwnStep(s, e) /\ call'[s] = e
  BY <1>1, <1>2, CallEXCEPT DEF OwnStep, Step
<1> HIDE DEF e
<1>4. Continues(s, pc)
  BY <1>1, <1>2, <1>3 DEF CallFits, ChunkSteps, Continues, InChunk
<1> QED
  BY <1>2, <1>3, <1>4 DEF Goes

LEMMA CountChunksSteps ==
  ASSUME FileInv, NEW s \in Slot, CountChunks(s)
  PROVE  /\ call[s].pc = "count" /\ InChunk(s) /\ call[s].n = NumChunks /\ OwnStep(s, call'[s])
         /\ UNCHANGED <<config, clients, dir, fileRows, spent>>
         /\ \/ dir = None /\ Fails(s) /\ call'[s] = Idle
            \/ dir # None /\ ~Equals(Cardinality(Names), NumChunks) /\ Returns(s) /\ call'[s] = Idle
            \/ /\ dir # None /\ Equals(Cardinality(Names), NumChunks)
               /\ UNCHANGED ghost /\ Continues(s, "list") /\ call'[s].lost = call[s].lost
<1> DEFINE c == call[s]
<1>1. c \in Calls /\ CallFits(c) /\ c.pc = "count"
  BY DEF CountChunks, FileInv, TypeOK, CallsFit
<1>2. InChunk(s) /\ c.n = NumChunks /\ ~c.opened /\ c.code \in Config
  BY <1>1 DEF CallFits, ChunkSteps, InChunk, Calls
<1>3. CASE Fails(s) \/ Returns(s)
  <2>1. OwnStep(s, Idle)
    BY <1>3, EndsSteps
  <2>2. call'[s] = Idle
    BY <2>1 DEF OwnStep, Step
  <2>3. call' = [call EXCEPT ![s] = Idle]
    BY <1>3 DEF Fails, Returns
  <2>4. ~Goes(s, "list")
    <3>1. [c EXCEPT !.pc = "list"].pc = "list" /\ Idle.pc = "idle"
      BY <1>1, IdleFits DEF Calls
    <3> QED
      BY <2>2, <3>1 DEF Goes, FileInv, TypeOK
  <2> QED
    BY <1>1, <1>2, <2>1, <2>2, <2>4 DEF CountChunks
<1>4. CASE Goes(s, "list") /\ dir # None /\ Equals(Cardinality(Names), NumChunks)
  <2>1. OwnStep(s, call'[s]) /\ Continues(s, "list") /\ call'[s].lost = c.lost /\ UNCHANGED ghost
    BY <1>2, <1>4, GoesSteps
  <2> QED
    BY <1>1, <1>2, <1>4, <2>1 DEF CountChunks
<1> QED
  BY <1>3, <1>4 DEF CountChunks

LEMMA ListChunksSteps ==
  ASSUME FileInv, NEW s \in Slot, ListChunks(s)
  PROVE  /\ call[s].pc = "list" /\ InChunk(s) /\ call[s].n = NumChunks /\ OwnStep(s, call'[s])
         /\ UNCHANGED <<config, clients, dir, fileRows, spent>>
         /\ \/ dir = None /\ Fails(s) /\ call'[s] = Idle
            \/ /\ dir # None /\ UNCHANGED ghost /\ Continues(s, "merge")
               /\ call'[s].todo = Names /\ call'[s].data = <<>>
               /\ ~call'[s].opened /\ call'[s].lost = call[s].lost
<1> DEFINE c == call[s]
           e == [c EXCEPT !.pc = "merge", !.todo = Names, !.data = <<>>]
<1>1. c \in Calls /\ CallFits(c) /\ c.pc = "list"
  BY DEF ListChunks, FileInv, TypeOK, CallsFit
<1>2. InChunk(s) /\ c.op = "chunk" /\ c.n = NumChunks /\ ~c.opened /\ c.code \in Config
  BY <1>1 DEF CallFits, ChunkSteps, InChunk, Calls
<1>3. CASE dir = None /\ Fails(s)
  <2>1. OwnStep(s, Idle)
    BY <1>3, EndsSteps
  <2>2. call'[s] = Idle
    BY <2>1 DEF OwnStep, Step
  <2> QED
    BY <1>1, <1>2, <1>3, <2>1, <2>2 DEF ListChunks
<1>4. CASE dir # None /\ call' = [call EXCEPT ![s] = e] /\ UNCHANGED ghost
  <2>1. /\ e \in Calls /\ e.op = c.op /\ e.n = c.n /\ e.code = c.code /\ e.pc = "merge"
        /\ e.opened = c.opened /\ e.config = c.config /\ e.todo = Names /\ e.data = <<>>
        /\ e.lost = c.lost
    <3>1. <<>> \in Seq(Name)
      OBVIOUS
    <3> QED
      BY <1>1, <3>1, DirFacts DEF Calls
  <2>2. OwnStep(s, e) /\ call'[s] = e
    BY <1>4, <2>1, CallEXCEPT DEF OwnStep, Step
  <2> HIDE DEF e
  <2>3. Continues(s, "merge")
    BY <1>1, <1>2, <2>1, <2>2 DEF CallFits, ChunkSteps, Continues
  <2> QED
    BY <1>1, <1>2, <1>4, <2>1, <2>2, <2>3 DEF ListChunks
<1> QED
  BY <1>3, <1>4 DEF ListChunks

LEMMA OpenMergedSteps ==
  ASSUME FileInv, NEW s \in Slot, OpenMerged(s)
  PROVE  /\ call[s].pc = "merge" /\ InChunk(s) /\ call[s].n = NumChunks /\ OwnStep(s, call'[s])
         /\ UNCHANGED <<config, clients, fileRows, spent>> /\ DirTyped'
         /\ \/ dir = None /\ dir' = dir /\ Fails(s) /\ call'[s] = Idle
            \/ /\ dir # None /\ UNCHANGED ghost /\ Continues(s, "merge")
               /\ call'[s].todo = call[s].todo /\ call'[s].data = call[s].data
               /\ call'[s].opened /\ ~call'[s].lost
               /\ Names' = Names \cup {FileName}
               /\ \A n \in Names \ {FileName} : dir'[n] = dir[n]
<1> DEFINE c == call[s]
           e == [c EXCEPT !.opened = TRUE, !.lost = FALSE]
<1>1. c \in Calls /\ CallFits(c) /\ c.pc = "merge"
  BY DEF OpenMerged, FileInv, TypeOK, CallsFit
<1>2. InChunk(s) /\ c.op = "chunk" /\ c.n = NumChunks /\ c.code \in Config
  BY <1>1 DEF CallFits, ChunkSteps, InChunk, Calls
<1>3. CASE dir = None /\ Fails(s) /\ UNCHANGED dir
  <2>1. OwnStep(s, Idle)
    BY <1>3, EndsSteps
  <2>2. call'[s] = Idle /\ DirTyped'
    BY <1>3, <2>1, DirStays DEF OwnStep, Step
  <2> QED
    BY <1>1, <1>2, <1>3, <2>1, <2>2 DEF OpenMerged
<1>4. CASE dir # None /\ dir' = WithFile(FileName, dir) /\ call' = [call EXCEPT ![s] = e]
           /\ UNCHANGED ghost
  <2>1. /\ e \in Calls /\ e.op = c.op /\ e.n = c.n /\ e.code = c.code /\ e.pc = c.pc
        /\ e.opened /\ e.config = c.config /\ e.todo = c.todo /\ e.data = c.data /\ ~e.lost
    BY <1>1 DEF Calls
  <2>2. OwnStep(s, e) /\ call'[s] = e
    BY <1>4, <2>1, CallEXCEPT DEF OwnStep, Step
  <2> HIDE DEF e
  <2>3. Continues(s, "merge")
    BY <1>1, <1>2, <2>1, <2>2 DEF CallFits, ChunkSteps, Continues
  <2>4. /\ DirTyped' /\ Names' = Names \cup {FileName}
        /\ \A n \in Names \ {FileName} : dir'[n] = dir[n]
    <3>1. dir \in [Names -> Seq(Name)] /\ Names \in SUBSET Name /\ FileName \in Name
      BY <1>4, DirFacts, ChunksTyped
    <3> QED
      BY <1>4, <3>1, FileCreated
  <2> QED
    BY <1>1, <1>2, <1>4, <2>1, <2>2, <2>3, <2>4 DEF OpenMerged
<1> QED
  BY <1>3, <1>4 DEF OpenMerged

LEMMA ReadChunkSteps ==
  ASSUME FileInv, NEW s \in Slot, ReadChunk(s)
  PROVE  /\ call[s].pc = "merge" /\ InChunk(s) /\ call[s].n = NumChunks /\ OwnStep(s, call'[s])
         /\ UNCHANGED <<config, clients, dir, fileRows, spent>>
         /\ \E n \in call[s].todo :
              /\ \A m \in call[s].todo : n <= m
              /\ \/ n \notin Names /\ Fails(s) /\ call'[s] = Idle
                 \/ /\ n \in Names /\ UNCHANGED ghost /\ Continues(s, "merge")
                    /\ call'[s].todo = call[s].todo \ {n} /\ call'[s].data = call[s].data \o dir[n]
                    /\ call'[s].opened = call[s].opened /\ call'[s].lost = call[s].lost
<1> DEFINE c == call[s]
<1>1. c \in Calls /\ CallFits(c) /\ c.pc = "merge"
  BY DEF ReadChunk, FileInv, TypeOK, CallsFit
<1>2. InChunk(s) /\ c.op = "chunk" /\ c.n = NumChunks /\ c.code \in Config
  BY <1>1 DEF CallFits, ChunkSteps, InChunk, Calls
<1>3. PICK n \in c.todo :
        /\ \A m \in c.todo : n <= m
        /\ \/ n \notin Names /\ Fails(s)
           \/ /\ n \in Names
              /\ call' = [call EXCEPT ![s].todo = @ \ {n}, ![s].data = @ \o dir[n]]
              /\ UNCHANGED ghost
  BY DEF ReadChunk
<1>4. CASE n \notin Names /\ Fails(s)
  <2>1. OwnStep(s, Idle)
    BY <1>4, EndsSteps
  <2>2. call'[s] = Idle
    BY <2>1 DEF OwnStep, Step
  <2> QED
    BY <1>1, <1>2, <1>3, <1>4, <2>1, <2>2 DEF ReadChunk
<1> DEFINE e == [c EXCEPT !.todo = c.todo \ {n}, !.data = c.data \o dir[n]]
<1>5. CASE n \in Names /\ call' = [call EXCEPT ![s] = e] /\ UNCHANGED ghost
  <2>1. dir[n] \in Seq(Name)
    BY <1>5, DirFacts
  <2>2. c.data \o dir[n] \in Seq(Name) /\ c.todo \ {n} \in SUBSET Name
    BY <1>1, <2>1 DEF Calls
  <2>3. /\ e \in Calls /\ e.op = c.op /\ e.n = c.n /\ e.code = c.code /\ e.pc = c.pc
        /\ e.opened = c.opened /\ e.config = c.config /\ e.todo = c.todo \ {n}
        /\ e.data = c.data \o dir[n] /\ e.lost = c.lost
    BY <1>1, <2>2 DEF Calls
  <2>4. OwnStep(s, e) /\ call'[s] = e
    BY <1>5, <2>3, CallEXCEPT DEF OwnStep, Step
  <2> HIDE DEF e
  <2>5. Continues(s, "merge")
    BY <1>1, <1>2, <2>3, <2>4 DEF CallFits, ChunkSteps, Continues
  <2> QED
    BY <1>1, <1>2, <1>3, <1>5, <2>3, <2>4, <2>5 DEF ReadChunk
<1> QED
  BY <1>3, <1>4, <1>5

LEMMA CloseMergedSteps ==
  ASSUME FileInv, NEW s \in Slot, CloseMerged(s)
  PROVE  /\ call[s].pc = "merge" /\ InChunk(s) /\ call[s].n = NumChunks /\ OwnStep(s, call'[s])
         /\ call[s].opened /\ call[s].todo = {}
         /\ UNCHANGED <<config, clients, fileRows, ghost, spent>>
         /\ DirTyped' /\ Names' = Names
         /\ \A n \in Names \ {FileName} : dir'[n] = dir[n]
         /\ ~call[s].lost /\ FileName \in Names => dir'[FileName] = call[s].data
         /\ Continues(s, "load") /\ ~call'[s].lost
<1> DEFINE c == call[s]
           e == [c EXCEPT !.pc = "load", !.data = <<>>, !.opened = FALSE, !.lost = FALSE]
<1>1. c \in Calls /\ CallFits(c) /\ c.pc = "merge" /\ c.opened /\ c.todo = {}
  BY DEF CloseMerged, FileInv, TypeOK, CallsFit
<1>2. /\ InChunk(s) /\ c.op = "chunk" /\ c.n = NumChunks /\ c.code \in Config
      /\ c.data \in Seq(Name) /\ <<>> \in Seq(Name)
  BY <1>1 DEF CallFits, ChunkSteps, InChunk, Calls
<1>3. /\ DirTyped' /\ Names' = Names /\ \A n \in Names \ {FileName} : dir'[n] = dir[n]
      /\ ~c.lost /\ FileName \in Names => dir'[FileName] = c.data
  BY <1>2, ChunksTyped, FileFilled DEF CloseMerged
<1>4. call' = [call EXCEPT ![s] = e]
  BY DEF CloseMerged
<1>5. /\ e \in Calls /\ e.op = c.op /\ e.n = c.n /\ e.code = c.code /\ e.pc = "load"
      /\ ~e.opened /\ e.config = c.config /\ ~e.lost
  BY <1>1, <1>2 DEF Calls
<1>6. OwnStep(s, e) /\ call'[s] = e
  BY <1>4, <1>5, CallEXCEPT DEF OwnStep, Step
<1> HIDE DEF e
<1>7. Continues(s, "load")
  BY <1>1, <1>2, <1>5, <1>6 DEF CallFits, ChunkSteps, Continues
<1> QED
  BY <1>1, <1>2, <1>3, <1>5, <1>6, <1>7 DEF CloseMerged

LEMMA RemoveMergedSteps ==
  ASSUME FileInv, NEW s \in Slot, RemoveMerged(s)
  PROVE  /\ call[s].pc = "tidy" /\ InChunk(s) /\ call[s].n = NumChunks /\ OwnStep(s, call'[s])
         /\ UNCHANGED <<config, clients, fileRows, ghost, spent>>
         /\ DirTyped' /\ Names' = Names \ {FileName}
         /\ \A n \in Names \ {FileName} : dir'[n] = dir[n]
         /\ Continues(s, "remove") /\ call'[s].lost = call[s].lost
<1> DEFINE c == call[s]
<1>1. c \in Calls /\ CallFits(c) /\ c.pc = "tidy"
  BY DEF RemoveMerged, FileInv, TypeOK, CallsFit
<1>2. InChunk(s) /\ c.op = "chunk" /\ c.n = NumChunks /\ ~c.opened /\ c.code \in Config
  BY <1>1 DEF CallFits, ChunkSteps, InChunk, Calls
<1>3. /\ OwnStep(s, call'[s]) /\ Continues(s, "remove") /\ UNCHANGED ghost
      /\ call'[s].lost = c.lost
  BY <1>2, GoesSteps DEF RemoveMerged
<1>4. /\ DirTyped' /\ Names' = Names \ {FileName}
      /\ \A n \in Names \ {FileName} : dir'[n] = dir[n]
  <2>1. CASE dir = None
    <3>1. dir' = dir
      BY <2>1 DEF RemoveMerged
    <3> QED
      BY <2>1, <3>1, DirStays, DirFacts
  <2>2. CASE dir # None
    <3>1. dir' = Restrict(dir, Names \ {FileName})
      BY <2>2 DEF RemoveMerged
    <3>2. dir \in [Names -> Seq(Name)] /\ Names \in SUBSET Name
      BY <2>2, DirFacts
    <3>3. /\ Restrict(dir, Names \ {FileName}) \in [Names \ {FileName} -> Seq(Name)]
          /\ \A n \in Names \ {FileName} : Restrict(dir, Names \ {FileName})[n] = dir[n]
      BY <3>2 DEF Restrict
    <3>4. Names \ {FileName} \in SUBSET Name
      BY <3>2
    <3> QED
      BY <3>1, <3>3, <3>4, DirBecomes
  <2> QED
    BY <2>1, <2>2
<1> QED
  BY <1>1, <1>2, <1>3, <1>4 DEF RemoveMerged

LEMMA RemoveDirSteps ==
  ASSUME FileInv, NEW s \in Slot, RemoveDir(s)
  PROVE  /\ call[s].pc = "remove" /\ InChunk(s) /\ call[s].n = NumChunks
         /\ Step(s, Idle) /\ call'[s] = Idle
         /\ \A t \in Slot \ {s} : ~InChunk(t) => call'[t] = call[t]
         /\ UNCHANGED <<config, clients, fileRows, spent>>
         /\ dir' = None /\ DirTyped' /\ Names' = {} /\ RunOnly
         /\ ghost'.run = IF ghost.run = NumChunks - 1 THEN NumChunks ELSE ghost.run
<1> DEFINE c == call[s]
<1>1. c \in Calls /\ CallFits(c) /\ c.pc = "remove" /\ call \in [Slot -> Calls]
  BY DEF RemoveDir, FileInv, TypeOK, CallsFit
<1>2. InChunk(s) /\ c.op = "chunk" /\ c.n = NumChunks /\ c.code \in Config
  BY <1>1 DEF CallFits, ChunkSteps, InChunk, Calls
<1>3. \A t \in Slot : /\ Orphaned[t] \in Calls /\ Alike(Orphaned[t], call[t])
                      /\ ~InChunk(t) => Orphaned[t] = call[t]
  <2> SUFFICES ASSUME NEW t \in Slot
               PROVE  /\ Orphaned[t] \in Calls /\ Alike(Orphaned[t], call[t])
                      /\ ~InChunk(t) => Orphaned[t] = call[t]
    OBVIOUS
  <2>1. call[t] \in Calls /\ CallFits(call[t])
    BY DEF FileInv, TypeOK, CallsFit
  <2>2. Orphaned[t] = IF call[t].pc = "write" \/ call[t].opened
                      THEN [call[t] EXCEPT !.lost = TRUE] ELSE call[t]
    BY DEF Orphaned
  <2>3. ~InChunk(t) => call[t].pc # "write" /\ ~call[t].opened
    BY <2>1 DEF InChunk, CallFits, ChunkSteps
  <2>4. [call[t] EXCEPT !.lost = TRUE] \in Calls /\ Alike([call[t] EXCEPT !.lost = TRUE], call[t])
    BY <2>1 DEF Calls, Alike
  <2> QED
    BY <2>1, <2>2, <2>3, <2>4 DEF Alike
<1>4. Orphaned \in [Slot -> Calls]
  BY <1>3 DEF Orphaned
<1>5. call' = [Orphaned EXCEPT ![s] = Idle]
  BY DEF RemoveDir
<1>6. call'[s] = Idle /\ call' \in [Slot -> Calls] /\ \A t \in Slot \ {s} : call'[t] = Orphaned[t]
  BY <1>4, <1>5, IdleFits
<1>7. dir' = None /\ DirTyped' /\ Names' = {}
  BY DEF RemoveDir, DirTyped, Names
<1>8. RunOnly /\ ghost'.run = IF ghost.run = NumChunks - 1 THEN NumChunks ELSE ghost.run
  <2>1. ghost \in Ghosts /\ ghost.run \in -1 .. NumChunks /\ NumChunks \in Nat
    BY ChunksTyped DEF FileInv, TypeOK, Ghosts
  <2>2. CASE ghost.run = NumChunks - 1
    <3>1. ghost' = [ghost EXCEPT !.run = NumChunks] /\ NumChunks \in -1 .. NumChunks
      BY <1>2, <2>1, <2>2 DEF RemoveDir
    <3> QED
      BY <2>1, <2>2, <3>1, RunSet
  <2>3. CASE ghost.run # NumChunks - 1
    BY <1>2, <2>1, <2>3, RunKept DEF RemoveDir
  <2> QED
    BY <2>2, <2>3
<1> QED
  BY <1>1, <1>2, <1>3, <1>6, <1>7, <1>8 DEF RemoveDir, Step

-----------------------------------------------------------------------------
(* Storing where the configuration says *)

LEMMA SpentMore ==
  ASSUME FileInv
  PROVE  /\ Spend("calls", MaxCalls) \/ Spend("edits", MaxEdits) =>
              /\ spent' \in [calls : 0 .. MaxCalls, edits : 0 .. MaxEdits, faults : 0 .. MaxFaults]
              /\ spent'.faults = spent.faults
         /\ Spend("faults", MaxFaults) =>
              /\ spent' \in [calls : 0 .. MaxCalls, edits : 0 .. MaxEdits, faults : 0 .. MaxFaults]
              /\ spent'.faults = spent.faults + 1
         /\ spent.faults \in Nat
<1>1. /\ MaxCalls \in Nat /\ MaxEdits \in Nat /\ MaxFaults \in Nat
      /\ spent \in [calls : 0 .. MaxCalls, edits : 0 .. MaxEdits, faults : 0 .. MaxFaults]
  BY BoundAssumption DEF FileInv, TypeOK
<1>2. CASE Spend("calls", MaxCalls)
  BY <1>1, <1>2 DEF Spend
<1>3. CASE Spend("edits", MaxEdits)
  BY <1>1, <1>3 DEF Spend
<1>4. CASE Spend("faults", MaxFaults)
  BY <1>1, <1>4 DEF Spend
<1> QED
  BY <1>1, <1>2, <1>3, <1>4

\* A call that has ended, or goes on with its chunks.
LEMMA CallStepKeeps ==
  ASSUME UploadInv, UNCHANGED fields, NEW s \in Slot, Step(s, call'[s]),
         UNCHANGED <<config, clients, fileRows, spent>>, DirTyped', RunOnly,
         call[s].pc \notin {"reread", "record"},
         \/ call'[s] = Idle
         \/ /\ InChunk(s) /\ call[s].pc \notin {"find", "client"}
            /\ Continues(s, call'[s].pc)
  PROVE  UploadInv'
<1> DEFINE d == call'[s]
<1>1. FileInv /\ StoreInv /\ OrphansExplained /\ call[s] \in Calls /\ CallFits(call[s])
  BY DEF UploadInv, FileInv, TypeOK, CallsFit
<1>2. /\ ghost' \in Ghosts /\ ghost'.refused = ghost.refused /\ ghost'.placed = ghost.placed
      /\ ghost'.unrecorded = ghost.unrecorded
  BY DEF RunOnly
<1>3. d \in Calls
  BY DEF Step
<1>4. /\ clients \in [Config -> Clients \cup {None}] /\ fileRows \subseteq FileRows
      /\ spent \in [calls : 0 .. MaxCalls, edits : 0 .. MaxEdits, faults : 0 .. MaxFaults]
  BY <1>1 DEF FileInv, TypeOK
<1>5. ~ghost.refused => \A c \in Config : clients[c] # None => clients[c].at \in {None, clients[c].config}
  BY <1>1 DEF StoreInv, ClientsFollow
<1>6. CASE d = Idle
  <2>1. FileInv'
    BY <1>1, <1>2, <1>3, <1>4, <1>6, IdleFits, FileStepKeeps
  <2> QED
    BY <1>1, <1>2, <1>5, <1>6, <2>1, IdleFits, StepKeeps
<1>7. CASE InChunk(s) /\ call[s].pc \notin {"find", "client"} /\ Continues(s, d.pc)
  <2>1. d.op = "chunk" /\ d.code = call[s].code /\ CallFits(d)
    BY <1>7 DEF InChunk, Continues
  <2>2. config[d.code].state # "none" /\ clients[d.code] # None
    BY <1>1, <1>7, <2>1 DEF FileInv, CodesThere, ClientsThere, CallFits, InChunk
  <2>3. d.pc \notin {"reread", "record"}
    BY <2>1 DEF CallFits
  <2>4. FileInv'
    BY <1>1, <1>2, <1>3, <1>4, <2>1, <2>2, FileStepKeeps
  <2> QED
    BY <1>1, <1>2, <1>5, <2>1, <2>3, <2>4, StepKeeps
<1> QED
  BY <1>6, <1>7

\* Chunk calls neither use nor change configurations.
LEMMA ChunkActionsKeep ==
  ASSUME UploadInv, UNCHANGED fields, NEW s \in Slot,
         \/ OpenChunk(s) \/ FinishChunk(s) \/ CountChunks(s) \/ ListChunks(s)
         \/ OpenMerged(s) \/ ReadChunk(s) \/ CloseMerged(s) \/ RemoveMerged(s) \/ RemoveDir(s)
  PROVE  UploadInv'
<1> DEFINE d == call'[s]
<1>1. FileInv /\ ghost \in Ghosts
  BY DEF UploadInv, FileInv, TypeOK
<1>2. UNCHANGED ghost => RunOnly
  BY <1>1, RunKept
<1>3. Fails(s) \/ Returns(s) => RunOnly
  BY <1>1, EndsSteps
<1>4. UNCHANGED dir => DirTyped'
  BY <1>1, DirStays
<1>5. \A pc : Continues(s, pc) => Continues(s, d.pc)
  BY DEF Continues
<1>6. CASE OpenChunk(s)
  <2>1. OpenChunk(s) /\ FileInv
    BY <1>1, <1>6
  <2> QED
    BY <1>2, <1>5, <2>1, OpenChunkSteps, CallStepKeeps
<1>7. CASE FinishChunk(s)
  <2>1. /\ call[s].pc = "write" /\ InChunk(s) /\ OwnStep(s, d) /\ DirTyped'
        /\ UNCHANGED <<config, clients, fileRows, spent>>
        /\ (Returns(s) /\ d = Idle) \/ (UNCHANGED ghost /\ Continues(s, "count"))
    BY <1>1, <1>7, FinishChunkSteps
  <2> QED
    BY <1>2, <1>3, <1>5, <2>1, CallStepKeeps DEF OwnStep
<1>8. CASE CountChunks(s)
  <2>1. /\ call[s].pc = "count" /\ InChunk(s) /\ OwnStep(s, d) /\ DirTyped'
        /\ UNCHANGED <<config, clients, fileRows, spent>>
        /\ ((Fails(s) \/ Returns(s)) /\ d = Idle) \/ (UNCHANGED ghost /\ Continues(s, "list"))
    BY <1>1, <1>4, <1>8, CountChunksSteps
  <2> QED
    BY <1>2, <1>3, <1>5, <2>1, CallStepKeeps DEF OwnStep
<1>9. CASE ListChunks(s)
  <2>1. /\ call[s].pc = "list" /\ InChunk(s) /\ OwnStep(s, d) /\ DirTyped'
        /\ UNCHANGED <<config, clients, fileRows, spent>>
        /\ (Fails(s) /\ d = Idle) \/ (UNCHANGED ghost /\ Continues(s, "merge"))
    BY <1>1, <1>4, <1>9, ListChunksSteps
  <2> QED
    BY <1>2, <1>3, <1>5, <2>1, CallStepKeeps DEF OwnStep
<1>10. CASE OpenMerged(s)
  <2>1. /\ call[s].pc = "merge" /\ InChunk(s) /\ OwnStep(s, d) /\ DirTyped'
        /\ UNCHANGED <<config, clients, fileRows, spent>>
        /\ (Fails(s) /\ d = Idle) \/ (UNCHANGED ghost /\ Continues(s, "merge"))
    BY <1>1, <1>10, OpenMergedSteps
  <2> QED
    BY <1>2, <1>3, <1>5, <2>1, CallStepKeeps DEF OwnStep
<1>11. CASE ReadChunk(s)
  <2>1. /\ call[s].pc = "merge" /\ InChunk(s) /\ OwnStep(s, d) /\ DirTyped'
        /\ UNCHANGED <<config, clients, fileRows, spent>>
        /\ (Fails(s) /\ d = Idle) \/ (UNCHANGED ghost /\ Continues(s, "merge"))
    BY <1>1, <1>4, <1>11, ReadChunkSteps
  <2> QED
    BY <1>2, <1>3, <1>5, <2>1, CallStepKeeps DEF OwnStep
<1>12. CASE CloseMerged(s)
  <2>1. /\ call[s].pc = "merge" /\ InChunk(s) /\ OwnStep(s, d) /\ DirTyped'
        /\ UNCHANGED <<config, clients, fileRows, ghost, spent>> /\ Continues(s, "load")
    BY <1>1, <1>12, CloseMergedSteps
  <2> QED
    BY <1>2, <1>5, <2>1, CallStepKeeps DEF OwnStep
<1>13. CASE RemoveMerged(s)
  <2>1. /\ call[s].pc = "tidy" /\ InChunk(s) /\ OwnStep(s, d) /\ DirTyped'
        /\ UNCHANGED <<config, clients, fileRows, ghost, spent>> /\ Continues(s, "remove")
    BY <1>1, <1>13, RemoveMergedSteps
  <2> QED
    BY <1>2, <1>5, <2>1, CallStepKeeps DEF OwnStep
<1>14. CASE RemoveDir(s)
  <2>1. /\ call[s].pc = "remove" /\ InChunk(s) /\ Step(s, d) /\ DirTyped' /\ d = Idle
        /\ UNCHANGED <<config, clients, fileRows, spent>> /\ RunOnly
    BY <1>1, <1>14, RemoveDirSteps
  <2> QED
    BY <2>1, CallStepKeeps
<1> QED
  BY <1>6, <1>7, <1>8, <1>9, <1>10, <1>11, <1>12, <1>13, <1>14

\* What the functions on clients return.
LEMMA ClientFacts ==
  ASSUME NEW client \in Clients \cup {None}, NEW content \in Content
  PROVE  LET r == GetFileService(client, content) IN
         /\ r \in Clients /\ r # None /\ r.config = content
         /\ ~RefreshThrows(client, content) /\ (client # None => client.at \in {None, client.config})
              => r.at \in {None, content}
<1> DEFINE r == GetFileService(client, content)
<1>2. CASE client = None
  <2>1. r = [kind |-> KindOf(content), config |-> content, at |-> None]
    BY <1>2 DEF GetFileService
  <2>2. KindOf(content) \in {"FILE", "MINIO"}
    BY DEF KindOf
  <2>3. r \in Clients /\ r.config = content /\ r.at = None
    BY <2>1, <2>2 DEF Clients
  <2> QED
    BY <2>3, NoneAssumption
<1>3. CASE client # None
  <2>1. client \in Clients
    BY <1>3
  <2>2. r = RefreshConfig(client, content)
    BY <1>3 DEF GetFileService
  <2>3. CASE client.config = content \/ ~DoInit(client.kind, content)
    <3>1. r = [client EXCEPT !.config = content]
      BY <2>2, <2>3 DEF RefreshConfig
    <3>2. r \in Clients /\ r.config = content /\ r.at = client.at
      BY <2>1, <3>1 DEF Clients
    <3> QED
      BY <1>3, <2>3, <3>2, NoneAssumption DEF RefreshThrows
  <2>4. CASE client.config # content /\ DoInit(client.kind, content)
    <3>1. r = [client EXCEPT !.config = content, !.at = content]
      BY <2>2, <2>4 DEF RefreshConfig
    <3>2. content \in UsableContent
      BY <2>4 DEF DoInit, LocalDoInit, MinioDoInit
    <3>3. r \in Clients /\ r.config = content /\ r.at = content
      BY <2>1, <3>1, <3>2 DEF Clients
    <3> QED
      BY <3>3, NoneAssumption
  <2> QED
    BY <2>3, <2>4
<1> QED
  BY <1>2, <1>3

LEMMA ReadyFacts ==
  ASSUME NEW client \in Clients
  PROVE  LET ready == EnsureInit(client) IN
         /\ ready \in Clients /\ ready # None /\ ready.config = client.config
         /\ client.at \in {None, client.config} => ready.at \in {None, client.config}
         /\ ready.at # None => ready.at \in UsableContent
<1> DEFINE ready == EnsureInit(client)
<1>1. CASE client.at = None /\ DoInit(client.kind, client.config)
  <2>1. ready = [client EXCEPT !.at = client.config]
    BY <1>1 DEF EnsureInit
  <2>2. client.config \in UsableContent
    BY <1>1 DEF DoInit, LocalDoInit, MinioDoInit
  <2>3. ready \in Clients /\ ready.config = client.config /\ ready.at = client.config
    BY <2>1, <2>2 DEF Clients
  <2> QED
    BY <2>2, <2>3, NoneAssumption
<1>2. CASE ~(client.at = None /\ DoInit(client.kind, client.config))
  <2>1. ready = client
    BY <1>2 DEF EnsureInit
  <2> QED
    BY <2>1, NoneAssumption DEF Clients
<1> QED
  BY <1>1, <1>2

\* A request begins a call.
LEMMA RequestKeeps ==
  ASSUME UploadInv, UNCHANGED fields, NEW s \in Slot, NEW op \in {"simple", "chunk"}, NEW n \in 1 .. NumChunks,
         Request(s, op, n)
  PROVE  UploadInv'
<1> DEFINE d == [Idle EXCEPT !.op = op, !.pc = "find", !.n = n]
<1>1. FileInv /\ StoreInv /\ OrphansExplained /\ call[s] = Idle /\ ghost \in Ghosts
  BY DEF UploadInv, FileInv, TypeOK, Request
<1>2. d \in Calls /\ d.op = op /\ d.pc = "find" /\ ~d.opened
  BY IdleFits DEF Idle, Calls
<1>3. OwnStep(s, d)
  BY <1>1, <1>2, CallEXCEPT DEF Request
<1> HIDE DEF d
<1>4. CallFits(d)
  BY <1>2 DEF CallFits, ChunkSteps
<1>5. /\ ghost' \in Ghosts /\ ghost'.refused = ghost.refused /\ ghost'.placed = ghost.placed
      /\ ghost'.unrecorded = ghost.unrecorded
  <2>1. \A x \in -1 .. NumChunks :
          [ghost EXCEPT !.run = x] \in Ghosts /\ [ghost EXCEPT !.run = x, !.overlapped = TRUE] \in Ghosts
            /\ [ghost EXCEPT !.run = x, !.merged = None] \in Ghosts
    BY <1>1 DEF Ghosts
  <2>2. -1 \in -1 .. NumChunks /\ 0 \in -1 .. NumChunks /\ ghost.run \in -1 .. NumChunks
    BY <1>1, ChunksTyped DEF Ghosts
  <2>3. \/ ghost' = ghost
        \/ \E x \in -1 .. NumChunks :
             \/ ghost' = [ghost EXCEPT !.run = x] \/ ghost' = [ghost EXCEPT !.run = x, !.overlapped = TRUE]
             \/ ghost' = [ghost EXCEPT !.run = x, !.merged = None]
    <3>1. \/ ghost' = ghost \/ ghost' = [ghost EXCEPT !.run = -1, !.overlapped = TRUE]
          \/ ghost' = [ghost EXCEPT !.run = 0, !.merged = None]
          \/ ghost' = [ghost EXCEPT !.run = ghost.run] \/ ghost' = [ghost EXCEPT !.run = -1]
      BY <1>1 DEF Request
    <3> QED
      BY <2>2, <3>1
  <2>4. ghost' \in Ghosts
    BY <1>1, <2>1, <2>3
  <2>5. /\ \A x : /\ [ghost EXCEPT !.run = x].refused = ghost.refused
                  /\ [ghost EXCEPT !.run = x].placed = ghost.placed
                  /\ [ghost EXCEPT !.run = x].unrecorded = ghost.unrecorded
                  /\ [ghost EXCEPT !.run = x, !.overlapped = TRUE].refused = ghost.refused
                  /\ [ghost EXCEPT !.run = x, !.overlapped = TRUE].placed = ghost.placed
                  /\ [ghost EXCEPT !.run = x, !.overlapped = TRUE].unrecorded = ghost.unrecorded
                  /\ [ghost EXCEPT !.run = x, !.merged = None].refused = ghost.refused
                  /\ [ghost EXCEPT !.run = x, !.merged = None].placed = ghost.placed
                  /\ [ghost EXCEPT !.run = x, !.merged = None].unrecorded = ghost.unrecorded
    BY <1>1 DEF Ghosts
  <2> QED
    BY <2>3, <2>4, <2>5
<1>6. UNCHANGED <<config, clients, dir, fileRows>> /\ Spend("calls", MaxCalls)
  BY DEF Request
<1>7. DirTyped' /\ spent'.faults = spent.faults
      /\ spent' \in [calls : 0 .. MaxCalls, edits : 0 .. MaxEdits, faults : 0 .. MaxFaults]
  BY <1>1, <1>6, DirStays, SpentMore
<1>8. clients \in [Config -> Clients \cup {None}] /\ fileRows \subseteq FileRows
  BY <1>1 DEF FileInv, TypeOK
<1>9. FileInv'
  BY <1>1, <1>2, <1>3, <1>4, <1>5, <1>6, <1>7, <1>8, FileStepKeeps DEF OwnStep
<1>10. ~ghost.refused => \A c \in Config : clients[c] # None => clients[c].at \in {None, clients[c].config}
  BY <1>1 DEF StoreInv, ClientsFollow
<1> QED
  BY <1>1, <1>2, <1>3, <1>5, <1>6, <1>7, <1>9, <1>10, IdleFits, StepKeeps DEF OwnStep

LEMMA FindKeeps ==
  ASSUME UploadInv, UNCHANGED fields, NEW s \in Slot, Find(s)
  PROVE  UploadInv'
<1>1. FileInv /\ StoreInv /\ OrphansExplained /\ ghost \in Ghosts /\ call[s].pc = "find"
      /\ call[s] \in Calls /\ CallFits(call[s]) /\ config \in [Config -> Configs]
  BY DEF UploadInv, FileInv, TypeOK, CallsFit, Find
<1>2. UNCHANGED <<config, clients, dir, fileRows, spent>> /\ DirTyped'
  BY <1>1, DirStays DEF Find
<1>3. CASE Fails(s)
  <2>1. OwnStep(s, Idle) /\ RunOnly
    BY <1>1, <1>3, EndsSteps
  <2>2. call'[s] = Idle
    BY <2>1 DEF OwnStep, Step
  <2> QED
    BY <1>1, <1>2, <2>1, <2>2, CallStepKeeps DEF OwnStep
<1>4. ASSUME NEW c \in GetConfigByCodeOrDefault(None), UNCHANGED ghost,
             call' = [call EXCEPT ![s].pc = "client", ![s].code = c, ![s].want = config[c].content]
      PROVE  UploadInv'
  <2> DEFINE d == [call[s] EXCEPT !.pc = "client", !.code = c, !.want = config[c].content]
  <2>1. c \in Config /\ config[c].state # "none" /\ config[c].content \in Content
    BY <1>1 DEF GetConfigByCodeOrDefault, Live, Configs
  <2>2. /\ d \in Calls /\ d.pc = "client" /\ d.code = c /\ d.want = config[c].content
        /\ d.op = call[s].op /\ d.opened = call[s].opened
    BY <1>1, <2>1 DEF Calls
  <2>3. call' = [call EXCEPT ![s] = d]
    BY <1>1, <1>4 DEF FileInv, TypeOK
  <2>4. OwnStep(s, d)
    BY <1>1, <2>2, <2>3, CallEXCEPT
  <2> HIDE DEF d
  <2>5. CallFits(d)
    BY <1>1, <2>1, <2>2 DEF CallFits, ChunkSteps
  <2>6. clients \in [Config -> Clients \cup {None}] /\ fileRows \subseteq FileRows
        /\ spent \in [calls : 0 .. MaxCalls, edits : 0 .. MaxEdits, faults : 0 .. MaxFaults]
    BY <1>1 DEF FileInv, TypeOK
  <2>7. FileInv'
    BY <1>1, <1>2, <1>4, <2>1, <2>2, <2>4, <2>5, <2>6, FileStepKeeps DEF OwnStep
  <2>8. ~ghost.refused => \A e \in Config : clients[e] # None => clients[e].at \in {None, clients[e].config}
    BY <1>1 DEF StoreInv, ClientsFollow
  <2> QED
    BY <1>1, <1>2, <1>4, <2>2, <2>4, <2>7, <2>8, StepKeeps DEF OwnStep
<1> QED
  BY <1>3, <1>4 DEF Find

\* uploadSingle: the client stores where it has been told, or the call fails.
LEMMA BeginKeeps ==
  ASSUME UploadInv, UNCHANGED fields, NEW s \in Slot, call[s].pc \in {"client", "load"}, NEW client \in Clients,
         NEW data \in Seq(Name), BeginUpload(s, client, data),
         UNCHANGED <<config, dir, fileRows, spent>>,
         ~ghost.refused => client.at \in {None, client.config},
         call[s].pc = "client" => ~InChunk(s) /\ client.config = call[s].want
  PROVE  UploadInv'
<1> DEFINE ready == EnsureInit(client)
           c == call[s].code
           e == [call[s] EXCEPT !.pc = "store", !.at = ready.at, !.data = data]
<1>1. FileInv /\ StoreInv /\ OrphansExplained /\ ghost \in Ghosts
      /\ call[s] \in Calls /\ CallFits(call[s]) /\ clients \in [Config -> Clients \cup {None}]
      /\ fileRows \subseteq FileRows
      /\ spent \in [calls : 0 .. MaxCalls, edits : 0 .. MaxEdits, faults : 0 .. MaxFaults]
  BY DEF UploadInv, FileInv, TypeOK, CallsFit
<1>2. c \in Config /\ config[c].state # "none" /\ DirTyped'
  BY <1>1, DirStays DEF CallFits, FileInv, CodesThere
<1>3. clients' = [clients EXCEPT ![c] = ready]
  BY DEF BeginUpload
<1>4. /\ ready \in Clients /\ ready # None /\ ready.config = client.config
      /\ client.at \in {None, client.config} => ready.at \in {None, client.config}
      /\ ready.at # None => ready.at \in UsableContent
  BY ReadyFacts
<1> HIDE DEF ready
<1>5. /\ clients' \in [Config -> Clients \cup {None}]
      /\ \A x \in Config : clients[x] # None => clients'[x] # None
      /\ clients'[c] # None
      /\ ~ghost.refused => \A x \in Config : clients'[x] # None => clients'[x].at \in {None, clients'[x].config}
  BY <1>1, <1>2, <1>3, <1>4 DEF StoreInv, ClientsFollow
<1>6. CASE Fails(s)
  <2>1. OwnStep(s, Idle) /\ RunOnly
    BY <1>1, <1>6, EndsSteps
  <2>2. FileInv'
    BY <1>1, <1>2, <1>5, <2>1, IdleFits, FileStepKeeps DEF OwnStep, RunOnly
  <2> QED
    BY <1>1, <1>5, <2>1, <2>2, IdleFits, StepKeeps DEF OwnStep, RunOnly
<1>7. CASE ready.at # None /\ call' = [call EXCEPT ![s] = e] /\ UNCHANGED ghost
  <2>1. /\ e \in Calls /\ e.pc = "store" /\ e.at = ready.at /\ e.op = call[s].op
        /\ e.code = c /\ e.want = call[s].want /\ e.opened = call[s].opened /\ e.n = call[s].n
    BY <1>1, <1>4, <1>7 DEF Calls
  <2>2. OwnStep(s, e)
    BY <1>1, <1>7, <2>1, CallEXCEPT
  <2> HIDE DEF e
  <2>3. CallFits(e)
    <3>1. CASE call[s].pc = "load"
      BY <1>1, <1>4, <1>7, <2>1, <3>1 DEF CallFits, ChunkSteps
    <3>2. CASE call[s].pc = "client" /\ e.op # "chunk"
      BY <1>1, <1>4, <1>7, <2>1, <3>2 DEF CallFits, ChunkSteps
    <3>3. ~(call[s].pc = "client" /\ e.op = "chunk")
      BY <2>1 DEF InChunk
    <3> QED
      BY <3>1, <3>2, <3>3
  <2>4. FileInv'
    BY <1>1, <1>2, <1>5, <1>7, <2>1, <2>2, <2>3, FileStepKeeps DEF OwnStep
  <2>5. ~ghost.refused /\ e.op = "simple" => e.at = e.want
    BY <1>1, <1>4, <1>7, <2>1 DEF CallFits, ChunkSteps
  <2> QED
    BY <1>1, <1>5, <1>7, <2>1, <2>2, <2>4, <2>5, StepKeeps DEF OwnStep
<1> QED
  BY <1>6, <1>7 DEF BeginUpload, ready

LEMMA UseClientKeeps ==
  ASSUME UploadInv, UNCHANGED fields, NEW s \in Slot, UseClient(s)
  PROVE  UploadInv'
<1> DEFINE c == call[s].code
           client == GetFileService(clients[c], call[s].want)
           throws == RefreshThrows(clients[c], call[s].want)
<1>1. FileInv /\ StoreInv /\ OrphansExplained /\ ghost \in Ghosts /\ call[s].pc = "client"
      /\ call[s] \in Calls /\ CallFits(call[s]) /\ clients \in [Config -> Clients \cup {None}]
      /\ fileRows \subseteq FileRows
      /\ spent \in [calls : 0 .. MaxCalls, edits : 0 .. MaxEdits, faults : 0 .. MaxFaults]
  BY DEF UploadInv, FileInv, TypeOK, CallsFit, UseClient
<1>2. c \in Config /\ config[c].state # "none" /\ call[s].want \in Content /\ call[s].op # "none"
  BY <1>1 DEF CallFits, FileInv, CodesThere
<1>3. UNCHANGED <<config, dir, fileRows, spent>> /\ DirTyped'
  BY <1>1, DirStays DEF UseClient
<1>4. /\ client \in Clients /\ client # None /\ client.config = call[s].want
      /\ ~throws /\ (clients[c] # None => clients[c].at \in {None, clients[c].config})
           => client.at \in {None, client.config}
  <2>1. PICK old \in Clients \cup {None} : old = clients[c]
    BY <1>1, <1>2
  <2>2. PICK content \in Content : content = call[s].want
    BY <1>2
  <2> QED
    BY <2>1, <2>2, ClientFacts
<1> HIDE DEF client, throws
<1>5. ~ghost.refused => \A x \in Config : clients[x] # None => clients[x].at \in {None, clients[x].config}
  BY <1>1 DEF StoreInv, ClientsFollow
<1>6. ASSUME clients' = [clients EXCEPT ![c] = client]
      PROVE  /\ clients' \in [Config -> Clients \cup {None}]
             /\ \A x \in Config : clients[x] # None => clients'[x] # None
             /\ clients'[c] # None
             /\ ~throws /\ ~ghost.refused =>
                  \A x \in Config : clients'[x] # None => clients'[x].at \in {None, clients'[x].config}
  BY <1>1, <1>2, <1>4, <1>5, <1>6
<1>7. CASE /\ throws
           /\ clients' = [clients EXCEPT ![c] = client]
           /\ call' = [call EXCEPT ![s] = Idle]
           /\ ghost' = [ghost EXCEPT !.refused = TRUE, !.run = IF InChunk(s) THEN -1 ELSE @]
  <2>1. OwnStep(s, Idle)
    BY <1>1, <1>7, IdleFits, CallEXCEPT
  <2>2. /\ ghost' \in Ghosts /\ ghost'.refused /\ ghost'.placed = ghost.placed
        /\ ghost'.unrecorded = ghost.unrecorded
    <3>1. (IF InChunk(s) THEN -1 ELSE ghost.run) \in -1 .. NumChunks
      BY <1>1, ChunksTyped DEF Ghosts
    <3> QED
      BY <1>1, <1>7, <3>1 DEF Ghosts
  <2>3. FileInv'
    BY <1>1, <1>3, <1>6, <1>7, <2>1, <2>2, IdleFits, FileStepKeeps DEF OwnStep
  <2> QED
    BY <1>1, <1>3, <2>1, <2>2, <2>3, IdleFits, StepKeeps DEF OwnStep
<1>8. CASE /\ ~throws /\ InChunk(s)
           /\ clients' = [clients EXCEPT ![c] = client]
           /\ call' = [call EXCEPT ![s].pc = "chunk", ![s].want = None]
           /\ UNCHANGED ghost
  <2> DEFINE e == [call[s] EXCEPT !.pc = "chunk", !.want = None]
  <2>1. /\ e \in Calls /\ e.pc = "chunk" /\ e.op = call[s].op /\ e.code = c
        /\ e.opened = call[s].opened
    BY <1>1 DEF Calls
  <2>2. call' = [call EXCEPT ![s] = e]
    BY <1>8 DEF FileInv, TypeOK
  <2>3. OwnStep(s, e)
    BY <1>1, <2>1, <2>2, CallEXCEPT
  <2> HIDE DEF e
  <2>4. CallFits(e)
    BY <1>1, <1>2, <1>8, <2>1 DEF CallFits, ChunkSteps, InChunk
  <2>5. FileInv'
    BY <1>1, <1>2, <1>3, <1>6, <1>8, <2>1, <2>3, <2>4, FileStepKeeps DEF OwnStep
  <2> QED
    BY <1>1, <1>3, <1>6, <1>8, <2>1, <2>3, <2>5, StepKeeps DEF OwnStep
<1>9. CASE ~throws /\ ~InChunk(s) /\ BeginUpload(s, client, <<>>)
  <2>1. <<>> \in Seq(Name)
    OBVIOUS
  <2>2. ~ghost.refused => client.at \in {None, client.config}
    BY <1>2, <1>4, <1>5, <1>9
  <2> QED
    BY <1>1, <1>3, <1>4, <1>9, <2>1, <2>2, BeginKeeps
<1> QED
  BY <1>7, <1>8, <1>9 DEF UseClient, client, throws

\* The merged file is read, or the call fails.
LEMMA LoadMergedSteps ==
  ASSUME FileInv, NEW s \in Slot, LoadMerged(s)
  PROVE  /\ call[s].pc = "load" /\ InChunk(s) /\ call[s].n = NumChunks
         /\ call[s].code \in Config /\ clients[call[s].code] \in Clients
         /\ UNCHANGED <<config, dir, fileRows, spent>>
         /\ \/ FileName \notin Names /\ Fails(s) /\ UNCHANGED clients
            \/ /\ FileName \in Names /\ dir[FileName] \in Seq(Name)
               /\ BeginUpload(s, clients[call[s].code], dir[FileName])
<1>1. call[s].pc = "load" /\ CallFits(call[s]) /\ clients \in [Config -> Clients \cup {None}]
  BY DEF LoadMerged, FileInv, TypeOK, CallsFit
<1>2. call[s].op = "chunk" /\ InChunk(s) /\ call[s].n = NumChunks /\ call[s].code \in Config
  BY <1>1 DEF CallFits, ChunkSteps, InChunk
<1>3. clients[call[s].code] \in Clients
  BY <1>1, <1>2 DEF FileInv, ClientsThere
<1>4. FileName \in Names => dir[FileName] \in Seq(Name)
  BY DirFacts
<1> QED
  BY <1>1, <1>2, <1>3, <1>4 DEF LoadMerged

LEMMA LoadMergedKeeps ==
  ASSUME UploadInv, UNCHANGED fields, NEW s \in Slot, LoadMerged(s)
  PROVE  UploadInv'
<1>1. FileInv /\ StoreInv
  BY DEF UploadInv
<1>2. /\ call[s].pc = "load" /\ InChunk(s) /\ call[s].n = NumChunks
      /\ call[s].code \in Config /\ clients[call[s].code] \in Clients
      /\ UNCHANGED <<config, dir, fileRows, spent>>
      /\ \/ FileName \notin Names /\ Fails(s) /\ UNCHANGED clients
         \/ /\ FileName \in Names /\ dir[FileName] \in Seq(Name)
            /\ BeginUpload(s, clients[call[s].code], dir[FileName])
  BY <1>1, LoadMergedSteps
<1>3. CASE Fails(s) /\ UNCHANGED clients
  <2>1. OwnStep(s, Idle) /\ RunOnly /\ DirTyped'
    BY <1>1, <1>2, <1>3, EndsSteps, DirStays
  <2>2. call'[s] = Idle
    BY <2>1 DEF OwnStep, Step
  <2> QED
    BY <1>2, <1>3, <2>1, <2>2, CallStepKeeps DEF OwnStep
<1>4. CASE dir[FileName] \in Seq(Name) /\ BeginUpload(s, clients[call[s].code], dir[FileName])
  <2> DEFINE client == clients[call[s].code]
  <2>1. ~ghost.refused => client.at \in {None, client.config}
    BY <1>1, <1>2, NoneAssumption DEF StoreInv, ClientsFollow
  <2> QED
    BY <1>2, <1>4, <2>1, BeginKeeps
<1> QED
  BY <1>2, <1>3, <1>4

\* What storing a file adds to the history.
LEMMA StoredFacts ==
  ASSUME FileInv, NEW s \in Slot, call[s].pc = "store"
  PROVE  LET g == Stored(s) IN
         /\ g \in Ghosts /\ g.refused = ghost.refused /\ g.run = ghost.run
         /\ g.overlapped = ghost.overlapped /\ g.cut = ghost.cut
         /\ InChunk(s) => g.placed = ghost.placed /\ g.unrecorded = ghost.unrecorded
                          /\ g.merged = call[s].data
         /\ ~InChunk(s) => g.placed = [at |-> call[s].at, want |-> call[s].want]
                           /\ g.unrecorded = ghost.unrecorded + 1 /\ g.merged = ghost.merged
<1>1. call[s] \in Calls /\ CallFits(call[s]) /\ ghost \in Ghosts
  BY DEF FileInv, TypeOK, CallsFit
<1>2. CASE InChunk(s)
  <2>1. Stored(s) = [ghost EXCEPT !.merged = call[s].data] /\ call[s].data \in Seq(Name)
    BY <1>1, <1>2 DEF Stored, Calls
  <2> QED
    BY <1>1, <1>2, <2>1 DEF Ghosts
<1>3. CASE ~InChunk(s)
  <2>1. call[s].op = "simple" /\ call[s].at \in UsableContent /\ call[s].want \in Content
    BY <1>1, <1>3 DEF CallFits, InChunk, Calls
  <2> DEFINE p == [at |-> call[s].at, want |-> call[s].want]
  <2>2. p \in [at : Content, want : Content]
    BY <2>1, ContentAssumption
  <2>3. Stored(s) = [ghost EXCEPT !.placed = p, !.unrecorded = ghost.unrecorded + 1]
    BY <1>3 DEF Stored
  <2> HIDE DEF p
  <2>4. /\ Stored(s) \in Ghosts /\ Stored(s).refused = ghost.refused /\ Stored(s).run = ghost.run
        /\ Stored(s).overlapped = ghost.overlapped /\ Stored(s).cut = ghost.cut
        /\ Stored(s).placed = p /\ Stored(s).unrecorded = ghost.unrecorded + 1
        /\ Stored(s).merged = ghost.merged
    <3> DEFINE g == Stored(s)
               u == ghost.unrecorded + 1
    <3>1. g = [ghost EXCEPT !.placed = p, !.unrecorded = u] /\ u \in Int
      BY <1>1, <2>3 DEF Ghosts
    <3> HIDE DEF g, u
    <3>2. /\ g \in Ghosts /\ g.refused = ghost.refused /\ g.run = ghost.run
          /\ g.overlapped = ghost.overlapped /\ g.cut = ghost.cut
          /\ g.placed = p /\ g.unrecorded = u /\ g.merged = ghost.merged
      BY <1>1, <2>2, <3>1 DEF Ghosts
    <3> QED
      BY <3>2 DEF g, u
  <2> QED
    BY <1>3, <2>4 DEF p
<1> QED
  BY <1>2, <1>3

\* The file is stored: a chunk call goes on, one of uploadSimple has a file without a row.
LEMMA StoreFileSteps ==
  ASSUME FileInv, NEW s \in Slot, StoreFile(s)
  PROVE  /\ call[s].pc = "store" /\ OwnStep(s, call'[s]) /\ ghost' = Stored(s)
         /\ UNCHANGED <<config, clients, dir, fileRows, spent>>
         /\ Continues(s, IF InChunk(s) THEN "tidy" ELSE "reread")
         /\ call'[s].lost = call[s].lost
<1> DEFINE c == call[s]
           pc == IF InChunk(s) THEN "tidy" ELSE "reread"
           e == [c EXCEPT !.pc = pc, !.at = None, !.want = None, !.data = <<>>]
<1>1. c \in Calls /\ CallFits(c) /\ c.pc = "store"
  BY DEF StoreFile, FileInv, TypeOK, CallsFit
<1>2. call' = [call EXCEPT ![s] = e]
  BY DEF StoreFile, FileInv, TypeOK
<1>3. <<>> \in Seq(Name)
  OBVIOUS
<1>4. /\ e \in Calls /\ e.op = c.op /\ e.n = c.n /\ e.code = c.code /\ e.pc = pc
      /\ e.opened = c.opened /\ e.config = c.config /\ e.lost = c.lost
  BY <1>1, <1>3 DEF Calls
<1>5. OwnStep(s, e) /\ call'[s] = e
  BY <1>2, <1>4, CallEXCEPT DEF OwnStep, Step
<1> HIDE DEF e
<1>6. CallFits(e)
  BY <1>1, <1>4 DEF CallFits, ChunkSteps, InChunk
<1> QED
  BY <1>1, <1>4, <1>5, <1>6 DEF StoreFile, Continues

LEMMA StoreFileKeeps ==
  ASSUME UploadInv, UNCHANGED fields, NEW s \in Slot, StoreFile(s)
  PROVE  UploadInv'
<1> DEFINE c == call[s]
           d == call'[s]
<1>1. FileInv /\ StoreInv /\ OrphansExplained /\ ghost \in Ghosts
      /\ c \in Calls /\ CallFits(c) /\ clients \in [Config -> Clients \cup {None}]
      /\ fileRows \subseteq FileRows
      /\ spent \in [calls : 0 .. MaxCalls, edits : 0 .. MaxEdits, faults : 0 .. MaxFaults]
  BY DEF UploadInv, FileInv, TypeOK, CallsFit
<1>2. /\ c.pc = "store" /\ OwnStep(s, d) /\ ghost' = Stored(s)
      /\ UNCHANGED <<config, clients, dir, fileRows, spent>>
      /\ Continues(s, IF InChunk(s) THEN "tidy" ELSE "reread")
  BY <1>1, StoreFileSteps
<1>3. /\ d \in Calls /\ CallFits(d) /\ d.op = c.op /\ d.code = c.code
      /\ d.pc = IF InChunk(s) THEN "tidy" ELSE "reread"
  BY <1>2 DEF OwnStep, Step, Continues
<1>4. /\ config[c.code].state # "none" /\ c.code \in Config
      /\ InChunk(s) => clients[c.code] # None
  BY <1>1, <1>2 DEF FileInv, CodesThere, ClientsThere, CallFits
<1>5. /\ ghost' \in Ghosts /\ ghost'.refused = ghost.refused
      /\ InChunk(s) => ghost'.placed = ghost.placed /\ ghost'.unrecorded = ghost.unrecorded
      /\ ~InChunk(s) => ghost'.placed = [at |-> c.at, want |-> c.want]
                        /\ ghost'.unrecorded = ghost.unrecorded + 1
  BY <1>1, <1>2, StoredFacts
<1>6. FileInv'
  <2>1. DirTyped'
    BY <1>1, <1>2, DirStays
  <2>2. d.op = "chunk" => InChunk(s)
    BY <1>3 DEF InChunk
  <2> QED
    BY <1>1, <1>2, <1>3, <1>4, <1>5, <2>1, <2>2, FileStepKeeps DEF OwnStep
<1>7. ~ghost.refused => \A x \in Config : clients[x] # None => clients[x].at \in {None, clients[x].config}
  BY <1>1 DEF StoreInv, ClientsFollow
<1>8. CASE InChunk(s)
  BY <1>1, <1>2, <1>3, <1>5, <1>6, <1>7, <1>8, StepKeeps DEF OwnStep
<1>9. CASE ~InChunk(s)
  <2>1. /\ d.pc = "reread" /\ c.op = "simple"
        /\ \A t \in Slot \ {s} : call'[t] = call[t]
    BY <1>1, <1>2, <1>3, <1>9 DEF OwnStep, CallFits, InChunk, Calls
  <2>2. StoreInv'
    <3>1. ClientsFollow'
      BY <1>2, <1>5, <1>7 DEF ClientsFollow
    <3>2. StoresFollow' /\ RecordsFollow'
      BY <1>1, <1>2, <1>5, <2>1 DEF StoreInv, StoresFollow, RecordsFollow
    <3>3. StoredWhereConfigured'
      <4>1. ~ghost.refused => c.at = c.want
        BY <1>1, <1>2, <2>1 DEF StoreInv, StoresFollow
      <4> QED
        BY <1>1, <1>2, <1>5, <1>9, <4>1 DEF StoreInv, StoredWhereConfigured
    <3> QED
      BY <3>1, <3>2, <3>3 DEF StoreInv
  <2>3. OrphansExplained'
    <3>1. InProgress' = InProgress \cup {s} /\ s \notin InProgress
      BY <1>2, <2>1 DEF InProgress
    <3>2. Cardinality(InProgress \cup {s}) = Cardinality(InProgress) + 1
      BY <3>1, InProgressFinite, FS_AddElement
    <3>3. /\ ghost.unrecorded \in Int /\ ghost.unrecorded >= Cardinality(InProgress)
          /\ ghost.unrecorded <= Cardinality(InProgress) + spent.faults * Cardinality(Slot)
      BY <1>1 DEF OrphansExplained, InProgress, Ghosts
    <3>4. spent.faults * Cardinality(Slot) \in Int
      BY <1>1, SpentMore, InProgressFinite
    <3> DEFINE m == spent.faults * Cardinality(Slot)
    <3>5. ghost.unrecorded + 1 >= Cardinality(InProgress) + 1 /\ ghost.unrecorded + 1 <= Cardinality(InProgress) + 1 + m
      <4> HIDE DEF m
      <4> QED
        BY <3>3, <3>4, InProgressFinite DEF m
    <3> QED
      BY <1>2, <1>5, <1>9, <3>1, <3>2, <3>5 DEF OrphansExplained, InProgress
  <2> QED
    BY <1>6, <2>2, <2>3 DEF UploadInv
<1> QED
  BY <1>8, <1>9

\* uploadSimple finds the configuration of its client, unless that was deleted.
LEMMA RereadKeeps ==
  ASSUME UploadInv, UNCHANGED fields, NEW s \in Slot, Reread(s)
  PROVE  UploadInv'
<1> DEFINE found == GetConfigByCodeOrDefault(call[s].code)
<1>1. FileInv /\ StoreInv /\ OrphansExplained /\ ghost \in Ghosts /\ call[s].pc = "reread"
      /\ call[s] \in Calls /\ CallFits(call[s]) /\ clients \in [Config -> Clients \cup {None}]
      /\ fileRows \subseteq FileRows /\ config \in [Config -> Configs]
      /\ spent \in [calls : 0 .. MaxCalls, edits : 0 .. MaxEdits, faults : 0 .. MaxFaults]
  BY DEF UploadInv, FileInv, TypeOK, CallsFit, Reread
<1>2. UNCHANGED <<config, clients, dir, fileRows, ghost, spent>> /\ DirTyped'
  BY <1>1, DirStays DEF Reread
<1>3. PICK c \in (IF found = {} THEN {None} ELSE found) :
        call' = [call EXCEPT ![s].pc = "record", ![s].config = c]
  BY DEF Reread
<1> DEFINE d == [call[s] EXCEPT !.pc = "record", !.config = c]
           code == call[s].code
<1>4. code \in Config /\ config[code].state \in {"live", "deleted"} /\ code # None
  BY <1>1, NoneAssumption DEF CallFits, FileInv, CodesThere, Configs
<1>5. c \in Config \cup {None} /\ (c = code \/ config[code].state = "deleted")
  <2>1. config[code].state = "live" => found = {code}
    BY <1>4 DEF GetConfigByCodeOrDefault, Live
  <2>2. found \subseteq Config
    BY DEF GetConfigByCodeOrDefault
  <2> QED
    BY <1>3, <1>4, <2>1, <2>2
<1>6. /\ d \in Calls /\ d.pc = "record" /\ d.config = c /\ d.code = code /\ d.op = call[s].op
      /\ d.opened = call[s].opened
  BY <1>1, <1>5 DEF Calls
<1>7. call' = [call EXCEPT ![s] = d]
  BY <1>1, <1>3 DEF FileInv, TypeOK
<1>8. OwnStep(s, d)
  BY <1>1, <1>6, <1>7, CallEXCEPT
<1> HIDE DEF d
<1>9. CallFits(d) /\ d.op # "chunk"
  BY <1>1, <1>4, <1>6 DEF CallFits, ChunkSteps
<1>10. FileInv'
  BY <1>1, <1>2, <1>4, <1>6, <1>8, <1>9, FileStepKeeps DEF OwnStep
<1>11. ~ghost.refused => \A x \in Config : clients[x] # None => clients[x].at \in {None, clients[x].config}
  BY <1>1 DEF StoreInv, ClientsFollow
<1> QED
  BY <1>1, <1>2, <1>5, <1>6, <1>8, <1>10, <1>11, StepKeeps DEF OwnStep

\* The row names the configuration whose client stored the file, unless that was deleted.
LEMMA RecordKeeps ==
  ASSUME UploadInv, UNCHANGED fields, NEW s \in Slot, Record(s)
  PROVE  UploadInv'
<1> DEFINE c == call[s]
           r == [code |-> c.code, config |-> c.config, live |-> TRUE]
<1>1. FileInv /\ StoreInv /\ OrphansExplained /\ ghost \in Ghosts /\ c.pc = "record"
      /\ c \in Calls /\ CallFits(c) /\ clients \in [Config -> Clients \cup {None}]
      /\ fileRows \subseteq FileRows /\ config \in [Config -> Configs]
      /\ spent \in [calls : 0 .. MaxCalls, edits : 0 .. MaxEdits, faults : 0 .. MaxFaults]
  BY DEF UploadInv, FileInv, TypeOK, CallsFit, Record
<1>2. UNCHANGED <<config, clients, dir, spent>> /\ DirTyped'
  BY <1>1, DirStays DEF Record
<1>3. r \in FileRows /\ fileRows' = fileRows \cup {r} /\ r.config = c.config /\ r.code = c.code
  BY <1>1 DEF Record, FileRows, Calls, CallFits
<1>4. OwnStep(s, Idle)
  BY <1>1, IdleFits, CallEXCEPT DEF Record
<1>5. /\ ghost' \in Ghosts /\ ghost'.refused = ghost.refused /\ ghost'.placed = ghost.placed
      /\ ghost'.unrecorded = ghost.unrecorded - 1 /\ ghost.unrecorded \in Int
  BY <1>1 DEF Record, Ghosts
<1>6. FileInv'
  BY <1>1, <1>2, <1>3, <1>4, <1>5, IdleFits, FileStepKeeps DEF OwnStep
<1>7. call'[s].pc = "idle" /\ call'[s].op = "none" /\ \A t \in Slot \ {s} : call'[t] = call[t]
  BY <1>4, IdleFits DEF OwnStep, Step
<1>8. StoreInv'
  <2>1. ClientsFollow'
    BY <1>1, <1>2, <1>5 DEF StoreInv, ClientsFollow
  <2>2. StoresFollow' /\ RecordsFollow'
    BY <1>1, <1>2, <1>5, <1>7 DEF StoreInv, StoresFollow, RecordsFollow
  <2>3. StoredWhereConfigured'
    <3>1. c.config = c.code \/ config[c.code].state = "deleted"
      BY <1>1 DEF StoreInv, RecordsFollow
    <3>2. ghost.placed # None /\ ~ghost.refused => ghost.placed.at = ghost.placed.want
      BY <1>1 DEF StoreInv, StoredWhereConfigured
    <3>3. \A q \in fileRows : q.config = q.code \/ config[q.code].state = "deleted"
      BY <1>1 DEF StoreInv, StoredWhereConfigured
    <3> HIDE DEF r
    <3> QED
      BY <1>2, <1>3, <1>5, <3>1, <3>2, <3>3 DEF StoredWhereConfigured
  <2> QED
    BY <2>1, <2>2, <2>3 DEF StoreInv
<1>9. OrphansExplained'
  <2>1. InProgress' = InProgress \ {s} /\ s \in InProgress
    BY <1>1, <1>7 DEF InProgress
  <2>2. Cardinality(InProgress \ {s}) = Cardinality(InProgress) - 1
    BY <2>1, InProgressFinite, FS_RemoveElement
  <2>3. /\ ghost.unrecorded >= Cardinality(InProgress)
        /\ ghost.unrecorded <= Cardinality(InProgress) + spent.faults * Cardinality(Slot)
    BY <1>1 DEF OrphansExplained, InProgress
  <2> DEFINE m == spent.faults * Cardinality(Slot)
  <2>4. m \in Int
    BY <1>1, SpentMore, InProgressFinite
  <2>5. ghost.unrecorded - 1 >= Cardinality(InProgress) - 1
        /\ ghost.unrecorded - 1 <= Cardinality(InProgress) - 1 + m
    <3> HIDE DEF m
    <3> QED
      BY <1>5, <2>3, <2>4, InProgressFinite DEF m
  <2> QED
    BY <1>2, <1>5, <2>1, <2>2, <2>5 DEF OrphansExplained, InProgress
<1> QED
  BY <1>6, <1>8, <1>9 DEF UploadInv

\* One more fault explains as many files without a row as there can be calls.
LEMMA OneMoreFault ==
  ASSUME FileInv, OrphansExplained, Spend("faults", MaxFaults)
  PROVE  /\ ghost.unrecorded \in Int /\ Cardinality(InProgress) <= ghost.unrecorded
         /\ spent'.faults * Cardinality(Slot) \in Int
         /\ ghost.unrecorded + Cardinality(Slot)
              <= Cardinality(InProgress) + spent'.faults * Cardinality(Slot)
<1> DEFINE m == spent.faults * Cardinality(Slot)
<1>1. /\ spent'.faults = spent.faults + 1 /\ spent.faults \in Nat /\ Cardinality(Slot) \in Nat
      /\ Cardinality(InProgress) \in Nat /\ ghost.unrecorded \in Int
  BY SpentMore, InProgressFinite DEF FileInv, TypeOK, Ghosts
<1>2. spent'.faults * Cardinality(Slot) = m + Cardinality(Slot) /\ m \in Int
  <2>1. \A a, b \in Nat : (a + 1) * b = a * b + b /\ a * b \in Int
    OBVIOUS
  <2>2. (spent.faults + 1) * Cardinality(Slot) = m + Cardinality(Slot) /\ m \in Int
    BY <1>1, <2>1
  <2> QED
    BY <1>1, <2>2
<1>3. ghost.unrecorded >= Cardinality(InProgress) /\ ghost.unrecorded <= Cardinality(InProgress) + m
  BY DEF OrphansExplained, InProgress
<1> HIDE DEF m
<1> QED
  BY <1>1, <1>2, <1>3

LEMMA CallFailsSteps ==
  ASSUME FileInv, NEW s \in Slot, CallFails(s)
  PROVE  /\ call[s].pc \notin {"idle", "client", "chunk"} /\ Spend("faults", MaxFaults)
         /\ OwnStep(s, Idle) /\ call'[s] = Idle /\ UNCHANGED <<config, clients, dir, fileRows>>
         /\ ghost' \in Ghosts /\ ghost'.refused = ghost.refused
         /\ ghost'.run = (IF InChunk(s) THEN -1 ELSE ghost.run)
         /\ ghost'.overlapped = ghost.overlapped
         /\ ghost'.cut = (ghost.cut \/ call[s].pc = "write")
         /\ \/ /\ ghost'.placed = ghost.placed /\ ghost'.unrecorded = ghost.unrecorded
               /\ ghost'.merged = ghost.merged
            \/ /\ call[s].pc = "store" /\ InChunk(s) /\ ghost'.merged = call[s].data
               /\ ghost'.placed = ghost.placed /\ ghost'.unrecorded = ghost.unrecorded
            \/ /\ call[s].pc = "store" /\ ~InChunk(s) /\ ghost'.merged = ghost.merged
               /\ ghost'.placed = [at |-> call[s].at, want |-> call[s].want]
               /\ ghost'.unrecorded = ghost.unrecorded + 1
<1>1. ghost \in Ghosts /\ OwnStep(s, Idle)
  BY IdleFits, CallEXCEPT DEF FileInv, TypeOK, CallFails
<1>2. PICK g \in {ghost} \cup (IF call[s].pc = "store" THEN {Stored(s)} ELSE {}) :
        ghost' = [g EXCEPT !.run = IF InChunk(s) THEN -1 ELSE g.run,
                           !.cut = g.cut \/ call[s].pc = "write"]
  BY DEF CallFails
<1>3. /\ g \in Ghosts /\ g.refused = ghost.refused /\ g.run = ghost.run
      /\ g.overlapped = ghost.overlapped /\ g.cut = ghost.cut
      /\ \/ g.placed = ghost.placed /\ g.unrecorded = ghost.unrecorded /\ g.merged = ghost.merged
         \/ /\ call[s].pc = "store" /\ InChunk(s) /\ g.merged = call[s].data
            /\ g.placed = ghost.placed /\ g.unrecorded = ghost.unrecorded
         \/ /\ call[s].pc = "store" /\ ~InChunk(s) /\ g.merged = ghost.merged
            /\ g.placed = [at |-> call[s].at, want |-> call[s].want]
            /\ g.unrecorded = ghost.unrecorded + 1
  <2>1. CASE g = ghost
    BY <1>1, <2>1
  <2>2. CASE g = Stored(s) /\ call[s].pc = "store"
    BY <2>2, StoredFacts
  <2> QED
    BY <1>2, <2>1, <2>2
<1>4. (IF InChunk(s) THEN -1 ELSE g.run) \in -1 .. NumChunks /\ (g.cut \/ call[s].pc = "write") \in BOOLEAN
  BY <1>3, ChunksTyped DEF Ghosts
<1>5. /\ ghost' \in Ghosts /\ ghost'.run = (IF InChunk(s) THEN -1 ELSE g.run)
      /\ ghost'.cut = (g.cut \/ call[s].pc = "write")
      /\ ghost'.refused = g.refused /\ ghost'.overlapped = g.overlapped
      /\ ghost'.placed = g.placed /\ ghost'.unrecorded = g.unrecorded /\ ghost'.merged = g.merged
  BY <1>2, <1>3, <1>4 DEF Ghosts
<1>6. call'[s] = Idle
  BY <1>1 DEF OwnStep, Step
<1> QED
  BY <1>1, <1>3, <1>5, <1>6 DEF CallFails

LEMMA CallFailsKeeps ==
  ASSUME UploadInv, UNCHANGED fields, NEW s \in Slot, CallFails(s)
  PROVE  UploadInv'
<1>1. FileInv /\ StoreInv /\ OrphansExplained /\ CallFits(call[s]) /\ call[s] \in Calls
      /\ clients \in [Config -> Clients \cup {None}] /\ fileRows \subseteq FileRows
  BY DEF UploadInv, FileInv, TypeOK, CallsFit
<1>2. /\ call[s].pc \notin {"idle", "client", "chunk"} /\ Spend("faults", MaxFaults)
      /\ OwnStep(s, Idle) /\ call'[s] = Idle /\ UNCHANGED <<config, clients, dir, fileRows>>
      /\ ghost' \in Ghosts /\ ghost'.refused = ghost.refused
      /\ \/ ghost'.placed = ghost.placed /\ ghost'.unrecorded = ghost.unrecorded
         \/ /\ call[s].pc = "store" /\ ~InChunk(s)
            /\ ghost'.placed = [at |-> call[s].at, want |-> call[s].want]
            /\ ghost'.unrecorded = ghost.unrecorded + 1
  BY <1>1, CallFailsSteps
<1>3. spent' \in [calls : 0 .. MaxCalls, edits : 0 .. MaxEdits, faults : 0 .. MaxFaults] /\ DirTyped'
  BY <1>1, <1>2, SpentMore, DirStays
<1>4. FileInv'
  BY <1>1, <1>2, <1>3, IdleFits, FileStepKeeps DEF OwnStep
<1>5. call'[s].pc = "idle" /\ call'[s].op = "none" /\ \A t \in Slot \ {s} : call'[t] = call[t]
  BY <1>2, IdleFits DEF OwnStep
<1>6. StoreInv'
  <2>1. ClientsFollow'
    BY <1>1, <1>2 DEF StoreInv, ClientsFollow
  <2>2. StoresFollow' /\ RecordsFollow'
    BY <1>1, <1>2, <1>5 DEF StoreInv, StoresFollow, RecordsFollow
  <2>3. StoredWhereConfigured'
    <3>1. ghost.placed # None /\ ~ghost.refused => ghost.placed.at = ghost.placed.want
      BY <1>1 DEF StoreInv, StoredWhereConfigured
    <3>2. call[s].pc = "store" /\ ~InChunk(s) /\ ~ghost.refused => call[s].at = call[s].want
      BY <1>1 DEF StoreInv, StoresFollow, CallFits, InChunk, Calls
    <3>3. \A q \in fileRows : q.config = q.code \/ config[q.code].state = "deleted"
      BY <1>1 DEF StoreInv, StoredWhereConfigured
    <3> QED
      BY <1>2, <3>1, <3>2, <3>3 DEF StoredWhereConfigured
  <2> QED
    BY <2>1, <2>2, <2>3 DEF StoreInv
<1>7. OrphansExplained'
  <2> DEFINE m == spent'.faults * Cardinality(Slot)
  <2>1. /\ ghost.unrecorded \in Int /\ Cardinality(InProgress) <= ghost.unrecorded /\ m \in Int
        /\ ghost.unrecorded + Cardinality(Slot) <= Cardinality(InProgress) + m
    BY <1>1, <1>2, OneMoreFault
  <2>2. /\ IsFiniteSet(Slot) /\ IsFiniteSet(InProgress) /\ Cardinality(InProgress) \in Nat
        /\ Cardinality(Slot) \in Nat /\ Cardinality(Slot) >= 1
    <3>1. Cardinality(Slot) # 0
      BY InProgressFinite, FS_EmptySet
    <3> QED
      BY <3>1, InProgressFinite
  <2>3. InProgress' = InProgress \ {s}
    BY <1>5 DEF InProgress
  <2> HIDE DEF m
  <2>4. CASE s \in InProgress
    <3>1. Cardinality(InProgress \ {s}) = Cardinality(InProgress) - 1
      BY <2>2, <2>4, FS_RemoveElement
    <3>2. ghost'.unrecorded = ghost.unrecorded
      BY <1>2, <2>4 DEF InProgress
    <3>3. /\ ghost'.unrecorded >= Cardinality(InProgress')
          /\ ghost'.unrecorded <= Cardinality(InProgress') + m
      BY <2>1, <2>2, <2>3, <3>1, <3>2
    <3> QED
      BY <3>3 DEF OrphansExplained, InProgress, m
  <2>5. CASE s \notin InProgress
    <3>1. InProgress' = InProgress
      BY <2>3, <2>5
    <3>2. ghost'.unrecorded = ghost.unrecorded \/ ghost'.unrecorded = ghost.unrecorded + 1
      BY <1>2
    <3>3. /\ ghost'.unrecorded >= Cardinality(InProgress')
          /\ ghost'.unrecorded <= Cardinality(InProgress') + m
      BY <2>1, <2>2, <3>1, <3>2
    <3> QED
      BY <3>3 DEF OrphansExplained, InProgress, m
  <2> QED
    BY <2>4, <2>5
<1> QED
  BY <1>4, <1>6, <1>7 DEF UploadInv

LEMMA RestartSteps ==
  ASSUME FileInv, Restart
  PROVE  /\ Spend("faults", MaxFaults) /\ UNCHANGED <<config, dir, fileRows>>
         /\ clients' = [c \in Config |-> None] /\ call' = [s \in Slot |-> Idle]
         /\ ghost' \in Ghosts /\ ~ghost'.refused /\ ghost'.placed = None /\ ghost'.run = -1
         /\ ghost'.cut = (ghost.cut \/ \E s \in Slot : call[s].pc = "write")
         /\ ghost'.merged = ghost.merged /\ ghost'.overlapped = ghost.overlapped
         /\ ghost'.unrecorded = ghost.unrecorded
<1> DEFINE cut == ghost.cut \/ \E s \in Slot : call[s].pc = "write"
<1>1. ghost \in Ghosts /\ -1 \in -1 .. NumChunks /\ cut \in BOOLEAN
  BY ChunksTyped DEF FileInv, TypeOK, Ghosts
<1>2. ghost' = [ghost EXCEPT !.refused = FALSE, !.placed = None, !.run = -1, !.cut = cut]
  BY DEF Restart
<1> HIDE DEF cut
<1>3. /\ ghost' \in Ghosts /\ ~ghost'.refused /\ ghost'.placed = None /\ ghost'.run = -1
      /\ ghost'.cut = cut /\ ghost'.merged = ghost.merged
      /\ ghost'.overlapped = ghost.overlapped /\ ghost'.unrecorded = ghost.unrecorded
  BY <1>1, <1>2 DEF Ghosts
<1> QED
  BY <1>3 DEF Restart, cut

LEMMA RestartKeeps ==
  ASSUME UploadInv, UNCHANGED fields, Restart
  PROVE  UploadInv'
<1>1. FileInv /\ StoreInv /\ OrphansExplained /\ fileRows \subseteq FileRows
  BY DEF UploadInv, FileInv, TypeOK
<1>2. /\ Spend("faults", MaxFaults) /\ UNCHANGED <<config, dir, fileRows>>
      /\ clients' = [c \in Config |-> None] /\ call' = [s \in Slot |-> Idle]
      /\ ghost' \in Ghosts /\ ~ghost'.refused /\ ghost'.placed = None
      /\ ghost'.unrecorded = ghost.unrecorded
  BY <1>1, RestartSteps
<1>3. \A s \in Slot : call'[s] = Idle
  BY <1>2
<1>4. FileInv'
  <2>1. TypeOK'
    <3>1. call' \in [Slot -> Calls] /\ clients' \in [Config -> Clients \cup {None}]
      BY <1>2, IdleFits
    <3>2. spent' \in [calls : 0 .. MaxCalls, edits : 0 .. MaxEdits, faults : 0 .. MaxFaults]
      BY <1>1, <1>2, SpentMore
    <3> QED
      BY <1>1, <1>2, <3>1, <3>2 DEF FileInv, TypeOK
  <2> QED
    BY <1>3, <2>1, IdleFits DEF FileInv, CallsFit, CodesThere, ClientsThere, InChunk
<1>5. StoreInv'
  <2>1. ClientsFollow' /\ StoresFollow' /\ RecordsFollow'
    BY <1>2, <1>3, IdleFits DEF ClientsFollow, StoresFollow, RecordsFollow
  <2>2. StoredWhereConfigured'
    BY <1>1, <1>2 DEF StoreInv, StoredWhereConfigured
  <2> QED
    BY <2>1, <2>2 DEF StoreInv
<1>6. OrphansExplained'
  <2> DEFINE m == spent'.faults * Cardinality(Slot)
  <2>1. /\ ghost.unrecorded \in Int /\ Cardinality(InProgress) <= ghost.unrecorded /\ m \in Int
        /\ ghost.unrecorded + Cardinality(Slot) <= Cardinality(InProgress) + m
    BY <1>1, <1>2, OneMoreFault
  <2>2. InProgress' = {} /\ Cardinality({}) = 0
    BY <1>3, IdleFits, FS_EmptySet DEF InProgress
  <2> HIDE DEF m
  <2>3. ghost'.unrecorded >= 0 /\ ghost'.unrecorded <= 0 + m
    BY <1>2, <2>1, InProgressFinite
  <2> QED
    BY <2>2, <2>3 DEF OrphansExplained, InProgress, m
<1> QED
  BY <1>4, <1>5, <1>6 DEF UploadInv

\* What an administrator does to a configuration: a row that was there stays there, and
\* a deleted one stays deleted.
LEMMA ConfigKeeps ==
  ASSUME UploadInv, UNCHANGED fields, NEW c \in Config, SaveConfig(c) \/ EditConfig(c) \/ DelConfig(c)
  PROVE  UploadInv'
<1>1. FileInv /\ StoreInv /\ OrphansExplained /\ config \in [Config -> Configs]
      /\ fileRows \subseteq FileRows
  BY DEF UploadInv, FileInv, TypeOK
<1>2. PICK state \in {"live", "deleted"}, default \in BOOLEAN, content \in Content :
        /\ WriteConfig(c, state, default, content)
        /\ config[c].state = "deleted" => state = "deleted"
  <2>1. config[c].state \in {"none", "live", "deleted"} /\ config[c].default \in BOOLEAN
        /\ config[c].content \in Content
    BY <1>1 DEF Configs
  <2>2. CASE SaveConfig(c)
    BY <2>2 DEF SaveConfig
  <2>3. CASE EditConfig(c)
    BY <2>1, <2>3 DEF EditConfig
  <2>4. CASE DelConfig(c)
    BY <2>1, <2>4 DEF DelConfig
  <2> QED
    BY <2>2, <2>3, <2>4
<1> DEFINE row == [state |-> state, default |-> default, content |-> content]
<1>3. row \in Configs /\ row.state = state
  BY DEF Configs
<1>4. /\ config' = [config EXCEPT ![c] = row] /\ Spend("edits", MaxEdits)
      /\ UNCHANGED <<clients, dir, call, fileRows, ghost>>
  BY <1>2 DEF WriteConfig
<1> HIDE DEF row
<1>5. /\ config' \in [Config -> Configs]
      /\ \A x \in Config : config[x].state # "none" => config'[x].state # "none"
      /\ \A x \in Config : config[x].state = "deleted" => config'[x].state = "deleted"
  BY <1>1, <1>2, <1>3, <1>4
<1>6. /\ spent' \in [calls : 0 .. MaxCalls, edits : 0 .. MaxEdits, faults : 0 .. MaxFaults]
      /\ spent'.faults = spent.faults
  BY <1>1, <1>4, SpentMore
<1>7. \A s \in Slot : call[s].pc \notin {"idle", "find"} => call[s].code \in Config
  BY <1>1 DEF FileInv, CallsFit, CallFits
<1>8. FileInv'
  <2>1. TypeOK'
    BY <1>1, <1>4, <1>5, <1>6 DEF FileInv, TypeOK
  <2>2. CodesThere'
    BY <1>1, <1>4, <1>5, <1>7 DEF FileInv, CodesThere
  <2>3. CallsFit' /\ ClientsThere'
    BY <1>1, <1>4 DEF FileInv, CallsFit, CallFits, ClientsThere, InChunk
  <2> QED
    BY <2>1, <2>2, <2>3 DEF FileInv
<1>9. StoreInv'
  <2>1. ClientsFollow' /\ StoresFollow'
    BY <1>1, <1>4 DEF StoreInv, ClientsFollow, StoresFollow
  <2>2. RecordsFollow'
    BY <1>1, <1>4, <1>5, <1>7 DEF StoreInv, RecordsFollow
  <2>3. StoredWhereConfigured'
    <3>1. \A r \in fileRows : r.code \in Config
      BY <1>1 DEF FileRows
    <3> QED
      BY <1>1, <1>4, <1>5, <3>1 DEF StoreInv, StoredWhereConfigured
  <2> QED
    BY <2>1, <2>2, <2>3 DEF StoreInv
<1>10. OrphansExplained'
  BY <1>1, <1>4, <1>6 DEF OrphansExplained
<1> QED
  BY <1>8, <1>9, <1>10 DEF UploadInv

LEMMA DelByIdsKeeps ==
  ASSUME UploadInv, UNCHANGED fields, DelByIds
  PROVE  UploadInv'
<1>1. FileInv /\ StoreInv /\ OrphansExplained /\ fileRows \subseteq FileRows
  BY DEF UploadInv, FileInv, TypeOK
<1>2. PICK r \in fileRows : fileRows' = (fileRows \ {r}) \cup {[r EXCEPT !.live = FALSE]}
  BY DEF DelByIds
<1> DEFINE q == [r EXCEPT !.live = FALSE]
<1>3. q \in FileRows /\ q.code = r.code /\ q.config = r.config
  BY <1>1 DEF FileRows
<1> HIDE DEF q
<1>4. UNCHANGED <<config, clients, dir, call, ghost, spent>> /\ fileRows' = (fileRows \ {r}) \cup {q}
  BY <1>2 DEF DelByIds, q
<1>5. TypeOK'
  BY <1>1, <1>3, <1>4 DEF FileInv, TypeOK
<1>6. CallsFit' /\ CodesThere' /\ ClientsThere'
  BY <1>1, <1>4 DEF FileInv, CallsFit, CallFits, CodesThere, ClientsThere, InChunk
<1>7. ClientsFollow' /\ StoresFollow' /\ RecordsFollow' /\ OrphansExplained'
  BY <1>1, <1>4 DEF StoreInv, ClientsFollow, StoresFollow, RecordsFollow, OrphansExplained
<1>8. StoredWhereConfigured'
  BY <1>1, <1>3, <1>4 DEF StoreInv, StoredWhereConfigured
<1> QED
  BY <1>5, <1>6, <1>7, <1>8 DEF UploadInv, FileInv, StoreInv

LEMMA UploadStutters ==
  ASSUME UploadInv, UNCHANGED vars
  PROVE  UploadInv'
<1>1. UNCHANGED <<config, clients, dir, call, fileRows, fields, ghost, spent>>
  BY DEF vars
<1>2. FileInv'
  BY <1>1 DEF UploadInv, FileInv, TypeOK, CallsFit, CallFits, CodesThere, ClientsThere, InChunk
<1>3. StoreInv'
  BY <1>1 DEF UploadInv, StoreInv, ClientsFollow, StoresFollow, RecordsFollow, StoredWhereConfigured
<1>4. OrphansExplained'
  BY <1>1 DEF UploadInv, OrphansExplained
<1> QED
  BY <1>2, <1>3, <1>4 DEF UploadInv

LEMMA FieldsStay == [Next]_vars => UNCHANGED fields
<1> SUFFICES ASSUME [Next]_vars PROVE UNCHANGED fields
  OBVIOUS
<1>1. CASE \E c \in Config : SaveConfig(c) \/ EditConfig(c) \/ DelConfig(c)
  BY <1>1 DEF SaveConfig, EditConfig, DelConfig, WriteConfig
<1>2. CASE \E s \in Slot : UploadSimple(s) \/ UploadChunk(s)
  BY <1>2 DEF UploadSimple, UploadChunk, Request
<1>3. CASE \E s \in Slot : Find(s) \/ UseClient(s) \/ StoreFile(s) \/ Reread(s) \/ Record(s)
  BY <1>3 DEF Find, UseClient, StoreFile, Reread, Record
<1>4. CASE \E s \in Slot : OpenChunk(s) \/ FinishChunk(s) \/ CountChunks(s) \/ ListChunks(s)
  BY <1>4 DEF OpenChunk, FinishChunk, CountChunks, ListChunks
<1>5. CASE \E s \in Slot : OpenMerged(s) \/ ReadChunk(s) \/ CloseMerged(s) \/ LoadMerged(s)
  BY <1>5 DEF OpenMerged, ReadChunk, CloseMerged, LoadMerged
<1>6. CASE \E s \in Slot : RemoveMerged(s) \/ RemoveDir(s) \/ CallFails(s)
  BY <1>6 DEF RemoveMerged, RemoveDir, CallFails
<1>7. CASE DelByIds \/ Restart \/ UNCHANGED vars
  BY <1>7 DEF DelByIds, Restart, vars
<1> QED
  BY <1>1, <1>2, <1>3, <1>4, <1>5, <1>6, <1>7 DEF Next

LEMMA UploadInit == Init => UploadInv
<1> SUFFICES ASSUME Init PROVE UploadInv
  OBVIOUS
<1>1. PICK content \in UsableContent :
        config = [c \in Config |-> [state |-> IF c = First THEN "live" ELSE "none",
                                    default |-> TRUE, content |-> content]]
  BY DEF Init
<1>2. content \in Content
  BY ContentAssumption
<1>3. /\ clients = [c \in Config |-> None] /\ dir = None /\ call = [s \in Slot |-> Idle]
      /\ fileRows = {} /\ fields \in Fields /\ spent = [calls |-> 0, edits |-> 0, faults |-> 0]
      /\ ghost = [merged |-> None, placed |-> None, refused |-> FALSE, run |-> -1,
                  overlapped |-> FALSE, cut |-> FALSE, unrecorded |-> 0]
  BY DEF Init
<1>4. TypeOK
  <2>1. config \in [Config -> Configs]
    <3>1. \A c \in Config : (IF c = First THEN "live" ELSE "none") \in {"none", "live", "deleted"}
      OBVIOUS
    <3> QED
      BY <1>1, <1>2, <3>1 DEF Configs
  <2>2. clients \in [Config -> Clients \cup {None}] /\ call \in [Slot -> Calls]
    BY <1>3, IdleFits
  <2>3. ghost \in Ghosts
    <3>1. -1 \in -1 .. NumChunks
      BY ChunksTyped
    <3> QED
      BY <1>3, <3>1 DEF Ghosts
  <2>4. spent \in [calls : 0 .. MaxCalls, edits : 0 .. MaxEdits, faults : 0 .. MaxFaults]
    <3>1. 0 \in 0 .. MaxCalls /\ 0 \in 0 .. MaxEdits /\ 0 \in 0 .. MaxFaults
      BY BoundAssumption
    <3> QED
      BY <1>3, <3>1
  <2> QED
    BY <1>3, <2>1, <2>2, <2>3, <2>4 DEF TypeOK
<1>5. \A s \in Slot : call[s] = Idle
  BY <1>3
<1>6. FileInv
  BY <1>4, <1>5, IdleFits DEF FileInv, CallsFit, CodesThere, ClientsThere, InChunk
<1>7. StoreInv
  BY <1>3, <1>5, IdleFits DEF StoreInv, ClientsFollow, StoresFollow, RecordsFollow, StoredWhereConfigured
<1>8. OrphansExplained
  <2>1. InProgress = {} /\ Cardinality({}) = 0
    BY <1>5, IdleFits, FS_EmptySet DEF InProgress
  <2>2. ghost.unrecorded = 0 /\ spent.faults = 0
    BY <1>3
  <2>3. 0 * Cardinality(Slot) = 0
    BY InProgressFinite
  <2> QED
    BY <2>1, <2>2, <2>3 DEF OrphansExplained, InProgress
<1> QED
  BY <1>6, <1>7, <1>8 DEF UploadInv

LEMMA UploadStep == UploadInv /\ [Next]_vars => UploadInv'
<1> SUFFICES ASSUME UploadInv, [Next]_vars PROVE UploadInv'
  OBVIOUS
<1>0. UNCHANGED fields
  BY FieldsStay
<1>1. CASE \E c \in Config : SaveConfig(c) \/ EditConfig(c) \/ DelConfig(c)
  BY <1>0, <1>1, ConfigKeeps
<1>2. CASE \E s \in Slot : UploadSimple(s) \/ UploadChunk(s)
  <2>1. 1 \in 1 .. NumChunks
    BY ChunksTyped
  <2> QED
    BY <1>0, <1>2, <2>1, RequestKeeps DEF UploadSimple, UploadChunk
<1>3. CASE \E s \in Slot : Find(s) \/ UseClient(s) \/ StoreFile(s) \/ Reread(s) \/ Record(s)
  BY <1>0, <1>3, FindKeeps, UseClientKeeps, StoreFileKeeps, RereadKeeps, RecordKeeps
<1>4. CASE \E s \in Slot : \/ OpenChunk(s) \/ FinishChunk(s) \/ CountChunks(s) \/ ListChunks(s)
                           \/ OpenMerged(s) \/ ReadChunk(s) \/ CloseMerged(s)
                           \/ RemoveMerged(s) \/ RemoveDir(s)
  BY <1>0, <1>4, ChunkActionsKeep
<1>5. CASE \E s \in Slot : LoadMerged(s) \/ CallFails(s)
  BY <1>0, <1>5, LoadMergedKeeps, CallFailsKeeps
<1>6. CASE DelByIds
  BY <1>0, <1>6, DelByIdsKeeps
<1>7. CASE Restart
  BY <1>0, <1>7, RestartKeeps
<1>8. CASE UNCHANGED vars
  BY <1>8, UploadStutters
<1> QED
  BY <1>1, <1>2, <1>3, <1>4, <1>5, <1>6, <1>7, <1>8 DEF Next

\* In every reachable state the variables hold values the code can store in them, calls
\* have what their steps gave them, clients are where their calls need them, and files are
\* stored and recorded as configured.
THEOREM UploadInvariant == Spec => []UploadInv
<1>1. Init => UploadInv
  BY UploadInit
<1>2. UploadInv /\ [Next]_vars => UploadInv'
  BY UploadStep
<1> QED
  BY <1>1, <1>2, PTL DEF Spec

\* The variables of uploads hold values the code can store in them.
THEOREM FilesTyped == Spec => []TypeOK
<1>1. UploadInv => TypeOK
  BY DEF UploadInv, FileInv
<1> QED
  BY <1>1, UploadInvariant, PTL

\* A file of uploadSimple is stored where the configuration it has read says, until a
\* client has refused one, and its row names the configuration of the client that
\* stored it unless that was deleted.
THEOREM StoredAsConfigured == Spec => []StoredWhereConfigured
<1>1. UploadInv => StoredWhereConfigured
  BY DEF UploadInv, StoreInv
<1> QED
  BY <1>1, UploadInvariant, PTL

\* uploadSimple leaves a file without a row only by failing calls and restarts, and
\* then for no more than the calls there can be at a time.
THEOREM OrphansAreExplained == Spec => []OrphansExplained
<1>1. UploadInv => OrphansExplained
  BY DEF UploadInv
<1> QED
  BY <1>1, UploadInvariant, PTL

-----------------------------------------------------------------------------
(* What is merged *)

\* Steps that leave the chunks alone.
ChunksLeft ==
  /\ dir' = dir /\ ghost'.merged = ghost.merged /\ ghost'.run = ghost.run
  /\ ghost'.overlapped = ghost.overlapped /\ ghost'.cut = ghost.cut

\* A call of uploadSimple begins, goes on or ends.
LEMMA SimpleKeeps ==
  ASSUME ChunkInv, UNCHANGED fields, NEW s \in Slot, NEW d, ~InChunk(s), OwnStep(s, d), d.op # "chunk", ~d.lost,
         ChunksLeft
  PROVE  ChunkInv'
<1>1. /\ call'[s] = d /\ \A t \in Slot \ {s} : call'[t] = call[t]
  BY DEF OwnStep, Step
<1>2. \A t \in Slot : /\ InChunk(t)' <=> InChunk(t)
                      /\ InChunk(t) => call'[t] = call[t]
  BY <1>1 DEF InChunk
<1>3. /\ dir' = dir /\ ghost'.merged = ghost.merged /\ ghost'.run = ghost.run
      /\ ghost'.overlapped = ghost.overlapped /\ ghost'.cut = ghost.cut
  BY DEF ChunksLeft
<1>4. \A t \in Slot : ~InChunk(t)' => ~call'[t].lost
  BY <1>1, <1>2 DEF ChunkInv
<1>5. ASSUME Orderly', NEW t \in Slot, InChunk(t)'
      PROVE  Single(call[t])'
  <2>1. Orderly /\ InChunk(t) /\ call'[t] = call[t]
    BY <1>2, <1>3, <1>5 DEF Orderly
  <2>2. Single(call[t])
    BY <2>1 DEF ChunkInv
  <2> QED
    BY <1>3, <2>1, <2>2 DEF Single, Neat, Undisturbed, Cleared, Before, Filling, Merging, Running, Names
<1>6. Orderly' => OneChunkCall'
  BY <1>2, <1>3 DEF ChunkInv, OneChunkCall, Orderly
<1>7. Orderly' /\ (\A t \in Slot : ~InChunk(t)') => Between'
  <2> SUFFICES ASSUME Orderly', \A t \in Slot : ~InChunk(t)' PROVE Between'
    OBVIOUS
  <2>1. Between
    BY <1>2, <1>3 DEF ChunkInv, Orderly
  <2> QED
    BY <1>3, <2>1 DEF Between, Neat, Undisturbed, Cleared, Before, Filling, Names
<1>8. MergedWhole'
  BY <1>3 DEF ChunkInv, MergedWhole
<1> QED
  BY <1>4, <1>5, <1>6, <1>7, <1>8 DEF ChunkInv

\* Configurations and rows change.
LEMMA ElsewhereKeeps ==
  ASSUME ChunkInv, UNCHANGED fields, UNCHANGED <<dir, call, ghost>>
  PROVE  ChunkInv'
<1>1. dir' = dir /\ call' = call /\ ghost' = ghost
  OBVIOUS
<1> QED
  BY <1>1 DEF ChunkInv, Orderly, OneChunkCall, InChunk, Single, Between, Neat, Undisturbed, Cleared,
              Before, Filling, Merging, Running, Names, MergedWhole

\* A chunk call goes on.
LEMMA ContinueKeeps ==
  ASSUME ChunkInv, UNCHANGED fields, NEW s \in Slot, NEW d, InChunk(s), Step(s, d), d.op = "chunk",
         \A t \in Slot \ {s} : ~InChunk(t) => call'[t] = call[t],
         ghost'.run = ghost.run, ghost'.overlapped = ghost.overlapped,
         Orderly => Single(d)', MergedWhole'
  PROVE  ChunkInv'
<1>1. /\ call'[s] = d /\ \A t \in Slot \ {s} : Alike(call'[t], call[t])
  BY DEF Step
<1>2. \A t \in Slot : InChunk(t)' <=> InChunk(t)
  BY <1>1 DEF InChunk, Alike
<1>3. Orderly' <=> Orderly
  BY DEF Orderly
<1>4. \A t \in Slot : ~InChunk(t)' => ~call'[t].lost
  BY <1>1, <1>2 DEF ChunkInv
<1>5. Orderly' => OneChunkCall'
  BY <1>2, <1>3 DEF ChunkInv, OneChunkCall
<1>6. ASSUME Orderly', NEW t \in Slot, InChunk(t)'
      PROVE  Single(call[t])'
  <2>1. t = s
    BY <1>2, <1>3, <1>6 DEF ChunkInv, OneChunkCall
  <2>2. Single(d)' /\ call'[t] = d
    BY <1>1, <1>3, <1>6, <2>1
  <2> QED
    BY <2>2 DEF Single, Neat, Undisturbed, Cleared, Before, Filling, Merging, Running
<1> QED
  BY <1>2, <1>4, <1>5, <1>6 DEF ChunkInv

\* A chunk call ends.
LEMMA EndKeeps ==
  ASSUME ChunkInv, UNCHANGED fields, NEW s \in Slot, InChunk(s), Step(s, Idle),
         \A t \in Slot \ {s} : ~InChunk(t) => call'[t] = call[t],
         ghost'.run >= 0 => ghost.run >= 0, ghost'.overlapped = ghost.overlapped,
         Orderly => Between', MergedWhole'
  PROVE  ChunkInv'
<1>1. /\ call'[s] = Idle /\ \A t \in Slot \ {s} : Alike(call'[t], call[t])
  BY DEF Step
<1>2. ~InChunk(s)' /\ ~call'[s].lost /\ \A t \in Slot \ {s} : InChunk(t)' <=> InChunk(t)
  BY <1>1, IdleFits DEF InChunk, Alike
<1>3. Orderly' => Orderly
  BY DEF Orderly
<1>4. \A t \in Slot : ~InChunk(t)' => ~call'[t].lost
  BY <1>1, <1>2 DEF ChunkInv
<1>5. Orderly' => \A t \in Slot : ~InChunk(t)'
  BY <1>2, <1>3 DEF ChunkInv, OneChunkCall
<1>6. Orderly' => OneChunkCall'
  BY <1>5 DEF OneChunkCall
<1> QED
  BY <1>3, <1>4, <1>5, <1>6 DEF ChunkInv

\* A chunk call fails, while it is not writing its chunk.
LEMMA FailKeeps ==
  ASSUME FileInv, ChunkInv, UNCHANGED fields, NEW s \in Slot, InChunk(s), call[s].pc # "write", OwnStep(s, Idle),
         dir' = dir, ghost'.run = -1, ghost'.overlapped = ghost.overlapped,
         ghost'.cut = ghost.cut, MergedWhole'
  PROVE  ChunkInv'
<1>1. Orderly => Between'
  <2> SUFFICES ASSUME Orderly, Neat(Idle)' PROVE Filling(Idle)'
    <3>1. ~Cleared(Idle)'
      BY DEF Cleared
    <3> QED
      BY <3>1 DEF Between
  <2>1. Undisturbed
    BY DEF Neat, Undisturbed, Cleared
  <2>2. Single(call[s])
    BY DEF ChunkInv
  <2>3. Filling(call[s])
    BY <2>1, <2>2 DEF Single, Neat
  <2> QED
    BY <2>3 DEF Filling, Names
<1> QED
  BY <1>1, EndKeeps DEF OwnStep

\* The initial part of what the steps of calls change, for the chunks.
LEMMA FindSteps ==
  ASSUME FileInv, NEW s \in Slot, Find(s)
  PROVE  /\ call[s].pc = "find" /\ OwnStep(s, call'[s]) /\ UNCHANGED dir
         /\ \/ Fails(s) /\ call'[s] = Idle
            \/ /\ UNCHANGED ghost /\ call'[s].pc = "client" /\ call'[s].op = call[s].op
               /\ call'[s].n = call[s].n /\ call'[s].lost = call[s].lost
<1>1. call[s] \in Calls /\ config \in [Config -> Configs] /\ UNCHANGED dir
  BY DEF FileInv, TypeOK, Find
<1>2. CASE Fails(s)
  <2>1. OwnStep(s, Idle) /\ call'[s] = Idle
    BY <1>2, EndsSteps DEF OwnStep, Step
  <2> QED
    BY <1>1, <1>2, <2>1 DEF Find
<1>3. ASSUME NEW c \in GetConfigByCodeOrDefault(None), UNCHANGED ghost,
             call' = [call EXCEPT ![s].pc = "client", ![s].code = c, ![s].want = config[c].content]
      PROVE  /\ OwnStep(s, call'[s]) /\ call'[s].pc = "client" /\ call'[s].op = call[s].op
             /\ call'[s].n = call[s].n /\ call'[s].lost = call[s].lost
  <2> DEFINE d == [call[s] EXCEPT !.pc = "client", !.code = c, !.want = config[c].content]
  <2>1. c \in Config /\ config[c].content \in Content
    BY <1>1 DEF GetConfigByCodeOrDefault, Configs
  <2>2. /\ d \in Calls /\ d.pc = "client" /\ d.op = call[s].op /\ d.n = call[s].n
        /\ d.lost = call[s].lost
    BY <1>1, <2>1 DEF Calls
  <2>3. call' = [call EXCEPT ![s] = d]
    BY <1>3 DEF FileInv, TypeOK
  <2>4. OwnStep(s, d) /\ call'[s] = d
    BY <2>2, <2>3, CallEXCEPT DEF OwnStep, Step
  <2> QED
    BY <2>2, <2>4
<1> QED
  BY <1>1, <1>2, <1>3 DEF Find

LEMMA BeginSteps ==
  ASSUME FileInv, NEW s \in Slot, NEW client \in Clients, NEW data \in Seq(Name),
         BeginUpload(s, client, data)
  PROVE  /\ OwnStep(s, call'[s])
         /\ \/ Fails(s) /\ call'[s] = Idle
            \/ /\ UNCHANGED ghost /\ call'[s].pc = "store" /\ call'[s].op = call[s].op
               /\ call'[s].n = call[s].n /\ call'[s].lost = call[s].lost /\ call'[s].data = data
<1> DEFINE ready == EnsureInit(client)
<1>1. call[s] \in Calls /\ (ready.at # None => ready.at \in UsableContent)
  BY ReadyFacts DEF FileInv, TypeOK
<1> HIDE DEF ready
<1>2. CASE Fails(s)
  <2>1. OwnStep(s, Idle) /\ call'[s] = Idle
    BY <1>2, EndsSteps DEF OwnStep, Step
  <2> QED
    BY <1>2, <2>1
<1> DEFINE e == [call[s] EXCEPT !.pc = "store", !.at = ready.at, !.data = data]
<1>3. CASE ready.at # None /\ call' = [call EXCEPT ![s] = e] /\ UNCHANGED ghost
  <2>1. /\ e \in Calls /\ e.pc = "store" /\ e.op = call[s].op /\ e.n = call[s].n
        /\ e.lost = call[s].lost /\ e.data = data
    BY <1>1, <1>3 DEF Calls
  <2>2. OwnStep(s, e) /\ call'[s] = e
    BY <1>3, <2>1, CallEXCEPT DEF OwnStep, Step
  <2> QED
    BY <1>3, <2>1, <2>2
<1> QED
  BY <1>2, <1>3 DEF BeginUpload, ready

LEMMA UseClientSteps ==
  ASSUME FileInv, NEW s \in Slot, UseClient(s)
  PROVE  /\ call[s].pc = "client" /\ OwnStep(s, call'[s]) /\ UNCHANGED dir
         /\ \/ /\ call'[s] = Idle
               /\ ghost'.run = (IF InChunk(s) THEN -1 ELSE ghost.run)
               /\ ghost'.merged = ghost.merged /\ ghost'.overlapped = ghost.overlapped
               /\ ghost'.cut = ghost.cut
            \/ /\ InChunk(s) /\ UNCHANGED ghost /\ call'[s].pc = "chunk" /\ call'[s].op = call[s].op
               /\ call'[s].n = call[s].n /\ call'[s].lost = call[s].lost
            \/ /\ ~InChunk(s) /\ UNCHANGED ghost
               /\ call'[s].op = call[s].op /\ call'[s].lost = call[s].lost
<1> DEFINE c == call[s].code
           client == GetFileService(clients[c], call[s].want)
           throws == RefreshThrows(clients[c], call[s].want)
<1>1. call[s].pc = "client" /\ call[s] \in Calls /\ CallFits(call[s]) /\ ghost \in Ghosts
      /\ clients \in [Config -> Clients \cup {None}] /\ UNCHANGED dir
  BY DEF FileInv, TypeOK, CallsFit, UseClient
<1>2. c \in Config /\ call[s].want \in Content
  BY <1>1 DEF CallFits
<1>3. client \in Clients
  BY <1>1, <1>2, ClientFacts
<1> HIDE DEF client, throws
<1>4. CASE /\ call' = [call EXCEPT ![s] = Idle]
           /\ ghost' = [ghost EXCEPT !.refused = TRUE, !.run = IF InChunk(s) THEN -1 ELSE @]
  <2>1. OwnStep(s, Idle) /\ call'[s] = Idle
    BY <1>4, IdleFits, CallEXCEPT DEF OwnStep, Step
  <2>2. /\ ghost'.run = (IF InChunk(s) THEN -1 ELSE ghost.run)
        /\ ghost'.merged = ghost.merged /\ ghost'.overlapped = ghost.overlapped
        /\ ghost'.cut = ghost.cut
    BY <1>1, <1>4 DEF Ghosts
  <2> QED
    BY <1>1, <2>1, <2>2
<1>5. CASE InChunk(s) /\ call' = [call EXCEPT ![s].pc = "chunk", ![s].want = None] /\ UNCHANGED ghost
  <2> DEFINE e == [call[s] EXCEPT !.pc = "chunk", !.want = None]
  <2>1. /\ e \in Calls /\ e.pc = "chunk" /\ e.op = call[s].op /\ e.n = call[s].n
        /\ e.lost = call[s].lost
    BY <1>1 DEF Calls
  <2>2. call' = [call EXCEPT ![s] = e]
    BY <1>5 DEF FileInv, TypeOK
  <2>3. OwnStep(s, e) /\ call'[s] = e
    BY <2>1, <2>2, CallEXCEPT DEF OwnStep, Step
  <2> QED
    BY <1>1, <1>5, <2>1, <2>3
<1>6. CASE ~InChunk(s) /\ BeginUpload(s, client, <<>>)
  <2>1. <<>> \in Seq(Name)
    OBVIOUS
  <2>2. /\ OwnStep(s, call'[s])
        /\ \/ Fails(s) /\ call'[s] = Idle
           \/ /\ UNCHANGED ghost /\ call'[s].op = call[s].op /\ call'[s].lost = call[s].lost
    BY <1>3, <1>6, <2>1, BeginSteps
  <2> QED
    BY <1>1, <1>6, <2>2 DEF Fails
<1> QED
  BY <1>4, <1>5, <1>6 DEF UseClient, client, throws

LEMMA ChunkTypes ==
  ASSUME FileInv, NEW s \in Slot
  PROVE  /\ call[s] \in Calls /\ CallFits(call[s]) /\ call[s].n \in 1 .. NumChunks
         /\ call[s].op = "chunk" <=> InChunk(s)
         /\ ghost \in Ghosts /\ ghost.run \in -1 .. NumChunks
BY DEF FileInv, TypeOK, CallsFit, Calls, Ghosts, InChunk

\* What a merge has stored stays what it was, and what explains it stays, too.
LEMMA MergedKept ==
  ASSUME MergedWhole, ghost'.merged = ghost.merged,
         ghost.overlapped => ghost'.overlapped, ghost.cut => ghost'.cut
  PROVE  MergedWhole'
BY DEF MergedWhole

\* A chunk call that has not opened its chunk goes on.
LEMMA BeforeKeeps ==
  ASSUME ChunkInv, UNCHANGED fields, NEW s \in Slot, NEW d, InChunk(s), OwnStep(s, d), Before(call[s]), Before(d),
         d.n = call[s].n, d.lost = call[s].lost, UNCHANGED <<dir, ghost>>
  PROVE  ChunkInv'
<1>1. Orderly => Single(d)'
  <2> SUFFICES ASSUME Orderly PROVE Single(d)'
    OBVIOUS
  <2>1. Single(call[s]) /\ call[s].op = "chunk"
    BY DEF ChunkInv, InChunk
  <2>2. dir' = dir /\ ghost' = ghost
    OBVIOUS
  <2>3. ~Cleared(d) \/ Cleared(call[s])
    BY DEF Cleared
  <2>4. Neat(d)' <=> Neat(call[s])
    BY <2>2 DEF Neat, Undisturbed, Cleared
  <2>5. (Filling(d)' /\ Merging(d)') \/ ~Neat(call[s])
    BY <2>1, <2>2 DEF Single, Filling, Merging, Before, Names
  <2>6. Cleared(d)' => Running(d)'
    BY <2>1, <2>2 DEF Single, Cleared, Running, Before, Names
  <2> QED
    BY <2>1, <2>2, <2>4, <2>5, <2>6 DEF Single
<1>2. MergedWhole'
  BY MergedKept DEF ChunkInv
<1> QED
  BY <1>1, <1>2, ContinueKeeps DEF OwnStep, Before

LEMMA FindChunks ==
  ASSUME FileInv, ChunkInv, UNCHANGED fields, NEW s \in Slot, Find(s)
  PROVE  ChunkInv'
<1>1. /\ call[s].pc = "find" /\ OwnStep(s, call'[s]) /\ UNCHANGED dir
      /\ \/ Fails(s) /\ call'[s] = Idle
         \/ /\ UNCHANGED ghost /\ call'[s].pc = "client" /\ call'[s].op = call[s].op
            /\ call'[s].n = call[s].n /\ call'[s].lost = call[s].lost
  BY FindSteps
<1>2. PICK d \in Calls : d = call'[s]
  BY <1>1 DEF OwnStep, Step
<1>3. OwnStep(s, d)
  BY <1>1, <1>2
<1>4. Fails(s) => RunOnly /\ ghost'.run = (IF InChunk(s) THEN -1 ELSE ghost.run)
  BY EndsSteps
<1>5. CASE ~InChunk(s)
  <2>1. d.op # "chunk" /\ ~d.lost
    BY <1>1, <1>2, <1>5, IdleFits DEF ChunkInv, InChunk
  <2>2. ChunksLeft
    BY <1>1, <1>4, <1>5 DEF ChunksLeft, RunOnly
  <2> QED
    BY <1>3, <1>5, <2>1, <2>2, SimpleKeeps
<1>6. CASE InChunk(s) /\ Fails(s) /\ d = Idle
  <2>1. MergedWhole'
    BY <1>4, <1>6, MergedKept DEF ChunkInv, RunOnly
  <2> QED
    BY <1>1, <1>3, <1>4, <1>6, <2>1, FailKeeps DEF RunOnly
<1>7. CASE InChunk(s) /\ UNCHANGED ghost /\ d.pc = "client" /\ d.op = call[s].op
           /\ d.n = call[s].n /\ d.lost = call[s].lost
  BY <1>1, <1>3, <1>7, BeforeKeeps DEF Before, InChunk
<1> QED
  BY <1>1, <1>2, <1>5, <1>6, <1>7

LEMMA UseClientChunks ==
  ASSUME FileInv, ChunkInv, UNCHANGED fields, NEW s \in Slot, UseClient(s)
  PROVE  ChunkInv'
<1>1. /\ call[s].pc = "client" /\ OwnStep(s, call'[s]) /\ UNCHANGED dir
      /\ \/ /\ call'[s] = Idle
            /\ ghost'.run = (IF InChunk(s) THEN -1 ELSE ghost.run)
            /\ ghost'.merged = ghost.merged /\ ghost'.overlapped = ghost.overlapped
            /\ ghost'.cut = ghost.cut
         \/ /\ InChunk(s) /\ UNCHANGED ghost /\ call'[s].pc = "chunk" /\ call'[s].op = call[s].op
            /\ call'[s].n = call[s].n /\ call'[s].lost = call[s].lost
         \/ /\ ~InChunk(s) /\ UNCHANGED ghost
            /\ call'[s].op = call[s].op /\ call'[s].lost = call[s].lost
  BY UseClientSteps
<1>2. PICK d \in Calls : d = call'[s]
  BY <1>1 DEF OwnStep, Step
<1>3. OwnStep(s, d)
  BY <1>1, <1>2
<1>4. CASE ~InChunk(s)
  <2>1. d.op # "chunk" /\ ~d.lost
    BY <1>1, <1>2, <1>4, IdleFits DEF ChunkInv, InChunk
  <2>2. ChunksLeft
    BY <1>1, <1>4 DEF ChunksLeft
  <2> QED
    BY <1>3, <1>4, <2>1, <2>2, SimpleKeeps
<1>5. CASE /\ InChunk(s) /\ d = Idle /\ ghost'.run = -1
           /\ ghost'.merged = ghost.merged /\ ghost'.overlapped = ghost.overlapped
           /\ ghost'.cut = ghost.cut
  <2>1. MergedWhole'
    BY <1>5, MergedKept DEF ChunkInv
  <2> QED
    BY <1>1, <1>3, <1>5, <2>1, FailKeeps
<1>6. CASE InChunk(s) /\ UNCHANGED ghost /\ d.pc = "chunk" /\ d.op = call[s].op
           /\ d.n = call[s].n /\ d.lost = call[s].lost
  BY <1>1, <1>3, <1>6, BeforeKeeps DEF Before, InChunk
<1> QED
  BY <1>1, <1>2, <1>4, <1>5, <1>6

\* The steps that only calls of uploadSimple take.
LEMMA SimpleChunks ==
  ASSUME FileInv, ChunkInv, UNCHANGED fields, NEW s \in Slot, Reread(s) \/ Record(s)
  PROVE  ChunkInv'
<1>1. call[s].pc \in {"reread", "record"} /\ UNCHANGED dir
  BY DEF Reread, Record
<1>2. call[s].op # "chunk" /\ ~InChunk(s) /\ call[s] \in Calls /\ CallFits(call[s])
  BY <1>1, ChunkTypes DEF CallFits
<1>3. CASE Reread(s)
  <2> DEFINE found == GetConfigByCodeOrDefault(call[s].code)
  <2>1. PICK c \in (IF found = {} THEN {None} ELSE found) :
          call' = [call EXCEPT ![s].pc = "record", ![s].config = c]
    BY <1>3 DEF Reread
  <2> DEFINE e == [call[s] EXCEPT !.pc = "record", !.config = c]
  <2>2. c \in Config \cup {None}
    BY <2>1 DEF GetConfigByCodeOrDefault
  <2>3. e \in Calls /\ e.op = call[s].op /\ e.lost = call[s].lost
    BY <1>2, <2>2 DEF Calls
  <2>4. call' = [call EXCEPT ![s] = e]
    BY <2>1 DEF FileInv, TypeOK
  <2>5. OwnStep(s, e)
    BY <2>3, <2>4, CallEXCEPT
  <2>6. ~e.lost /\ ChunksLeft
    BY <1>2, <1>3, <2>3 DEF ChunkInv, ChunksLeft, Reread
  <2> HIDE DEF e
  <2>7. PICK d \in Calls : d = e
    BY <2>3
  <2> QED
    BY <1>2, <2>3, <2>5, <2>6, <2>7, SimpleKeeps
<1>4. CASE Record(s)
  <2>1. OwnStep(s, Idle)
    BY <1>4, IdleFits, CallEXCEPT DEF Record
  <2>2. ghost' = [ghost EXCEPT !.unrecorded = @ - 1] /\ ghost \in Ghosts
    BY <1>4, ChunkTypes DEF Record
  <2>3. ChunksLeft
    BY <1>1, <2>2 DEF ChunksLeft, Ghosts
  <2> QED
    BY <1>2, <2>1, <2>3, IdleFits, SimpleKeeps
<1> QED
  BY <1>3, <1>4

\* A request for a chunk overlaps other calls, begins a run, or is the next in it.
LEMMA RequestChunks ==
  ASSUME FileInv, ChunkInv, UNCHANGED fields, NEW s \in Slot, NEW op \in {"simple", "chunk"}, NEW n \in 1 .. NumChunks,
         Request(s, op, n)
  PROVE  ChunkInv'
<1> DEFINE e == [Idle EXCEPT !.op = op, !.pc = "find", !.n = n]
           alone == \A t \in Slot : ~InChunk(t)
<1>1. e \in Calls /\ e.op = op /\ e.pc = "find" /\ e.n = n /\ ~e.lost
  BY IdleFits DEF Idle, Calls
<1>2. OwnStep(s, e)
  BY <1>1, CallEXCEPT DEF Request
<1> HIDE DEF e
<1>3. PICK d \in Calls : d = e
  BY <1>1
<1>4. OwnStep(s, d) /\ ~InChunk(s) /\ dir' = dir
  BY <1>2, <1>3, IdleFits DEF Request, InChunk
<1>5. CASE op = "simple"
  <2>1. ChunksLeft
    BY <1>4, <1>5 DEF Request, ChunksLeft
  <2> QED
    BY <1>1, <1>3, <1>4, <1>5, <2>1, SimpleKeeps
<1>6. CASE op = "chunk"
  <2>1. /\ call'[s] = d /\ d.op = "chunk" /\ d.pc = "find" /\ d.n = n /\ ~d.lost /\ Before(d)
        /\ \A t \in Slot \ {s} : call'[t] = call[t]
    BY <1>1, <1>3, <1>4, <1>6 DEF OwnStep, Step, Before
  <2>2. \A t \in Slot : ~InChunk(t)' => ~call'[t].lost
    BY <2>1 DEF ChunkInv, InChunk
  <2>3. ghost \in Ghosts /\ ghost.run \in -1 .. NumChunks /\ NumChunks \in Nat
    BY ChunkTypes, ChunksTyped
  <2>4. CASE ~alone
    <3>1. ghost' = [ghost EXCEPT !.run = -1, !.overlapped = TRUE]
      BY <1>6, <2>4 DEF Request
    <3>2. ghost'.run = -1 /\ ghost'.overlapped /\ ghost'.merged = ghost.merged /\ ghost'.cut = ghost.cut
      BY <2>3, <3>1 DEF Ghosts
    <3>3. ~Orderly' /\ MergedWhole'
      BY <3>2, MergedKept DEF Orderly, ChunkInv
    <3> QED
      BY <2>2, <3>3 DEF ChunkInv
  <2>5. CASE alone
    <3>1. OneChunkCall'
      BY <2>1, <2>5 DEF OneChunkCall, InChunk
    <3>2. \A t \in Slot : InChunk(t)' => t = s
      BY <2>1, <2>5 DEF InChunk
    <3>3. InChunk(s)'
      BY <2>1 DEF InChunk
    <3>4. /\ ghost'.overlapped = ghost.overlapped /\ ghost'.cut = ghost.cut
          /\ ghost'.run = IF n = 1 THEN 0 ELSE IF n = ghost.run + 1 THEN ghost.run ELSE -1
          /\ ghost'.merged = IF n = 1 THEN None ELSE ghost.merged
      <4>1. CASE n = 1
        <5>1. ghost' = [ghost EXCEPT !.run = 0, !.merged = None]
          BY <1>6, <2>5, <4>1 DEF Request
        <5> QED
          BY <2>3, <4>1, <5>1 DEF Ghosts
      <4>2. CASE n # 1
        <5>1. ghost' = [ghost EXCEPT !.run = IF n = ghost.run + 1 THEN ghost.run ELSE -1]
          BY <1>6, <2>5, <4>2 DEF Request
        <5> QED
          BY <2>3, <4>2, <5>1 DEF Ghosts
      <4> QED
        BY <4>1, <4>2
    <3>5. MergedWhole'
      BY <3>4 DEF ChunkInv, MergedWhole
    <3>6. Orderly => Between
      BY <2>5 DEF ChunkInv
    <3>7. ASSUME Orderly' PROVE Single(d)'
      <4>1. ghost'.run >= 0 => d.n = ghost'.run + 1
        BY <2>1, <2>3, <3>4
      <4>2. Cleared(d)' => Cleared(Idle) /\ ghost'.run = ghost.run /\ ghost.run # NumChunks
        BY <2>1, <2>3, <3>4 DEF Cleared, Before
      <4>3. Undisturbed' => Undisturbed /\ Orderly
        BY <3>4 DEF Undisturbed, Orderly
      <4>4. Cleared(Idle) => Orderly
        BY <2>3, IdleFits DEF Cleared, Orderly
      <4>5. Neat(d)' => Filling(Idle)
        <5>1. Neat(d)' => Neat(Idle) /\ Orderly
          BY <4>2, <4>3, <4>4 DEF Neat, Undisturbed, Cleared
        <5> QED
          BY <3>6, <5>1 DEF Between
      <4>6. Filling(Idle) => Filling(d)'
        BY <1>4, IdleFits DEF Filling, Names
      <4>7. Merging(d)'
        BY <2>1 DEF Merging
      <4>8. Cleared(d)' => Running(d)'
        <5>1. Cleared(d)' => Names = 1 .. ghost.run
          BY <3>6, <4>2, <4>4 DEF Between
        <5>2. Cleared(d)' => Names' = 1 .. ghost'.run
          BY <1>4, <4>2, <5>1 DEF Names
        <5> QED
          BY <2>1, <5>2 DEF Running
      <4> QED
        BY <2>1, <4>1, <4>5, <4>6, <4>7, <4>8 DEF Single, Neat, Undisturbed
    <3>8. Orderly' => \A t \in Slot : InChunk(t)' => Single(call[t])'
      <4> SUFFICES ASSUME Orderly', NEW t \in Slot, InChunk(t)' PROVE Single(call[t])'
        OBVIOUS
      <4>1. call'[t] = d /\ Single(d)'
        BY <2>1, <3>2, <3>7
      <4> QED
        BY <4>1 DEF Single, Neat, Undisturbed, Cleared, Before, Filling, Merging, Running
    <3> QED
      BY <2>2, <3>1, <3>3, <3>5, <3>8 DEF ChunkInv
  <2> QED
    BY <2>4, <2>5
<1> QED
  BY <1>5, <1>6

\* The chunk is opened: chunk 1 clears the directory, another one joins its forerunners.
LEMMA OpenChunkChunks ==
  ASSUME FileInv, ChunkInv, UNCHANGED fields, NEW s \in Slot, OpenChunk(s)
  PROVE  ChunkInv'
<1> DEFINE c == call[s]
<1>1. /\ c.pc = "chunk" /\ InChunk(s) /\ Step(s, call'[s])
      /\ Continues(s, "write") /\ ~call'[s].lost
      /\ \A t \in Slot \ {s} : ~InChunk(t) => call'[t] = call[t]
      /\ ghost' = ghost
      /\ Names' = IF Equals(1, c.n) THEN {1} ELSE Names \cup {c.n}
      /\ \A n \in Names' \ {c.n} : dir'[n] = dir[n]
  BY OpenChunkSteps
<1>2. PICK d \in Calls : d = call'[s]
  BY <1>1 DEF Step
<1>3. Step(s, d) /\ d.op = "chunk" /\ d.n = c.n /\ d.pc = "write" /\ ~d.lost
  BY <1>1, <1>2 DEF Continues, InChunk
<1>4. /\ NumChunks \in Nat /\ NumChunks >= 1 /\ c.n \in 1 .. NumChunks
      /\ ghost.run \in -1 .. NumChunks /\ c.op = "chunk"
  BY <1>1, ChunksTyped, ChunkTypes
<1>5. ASSUME Orderly PROVE Single(d)'
  <2>1. Single(c)
    BY <1>1, <1>5 DEF ChunkInv
  <2>2. ghost.run >= 0 => c.n = ghost.run + 1
    BY <2>1 DEF Single
  <2>3. Before(c) /\ ~Before(d)
    BY <1>1, <1>3, <1>4 DEF Before
  <2>4. CASE Equals(1, c.n)
    <3>1. c.n = 1 /\ Names' = {1}
      BY <1>1, <2>4 DEF Equals
    <3>2. Neat(d)' => Filling(d)'
      <4> SUFFICES ASSUME Neat(d)' PROVE Filling(d)'
        OBVIOUS
      <4>1. FileName \notin {1}
        BY <1>4 DEF Neat, Undisturbed, Cleared
      <4> QED
        BY <1>3, <3>1, <4>1 DEF Filling
    <3>3. Cleared(d)' => Running(d)'
      <4> SUFFICES ASSUME Cleared(d)' PROVE Running(d)'
        OBVIOUS
      <4>1. ghost'.run = 0
        BY <1>1, <1>4, <2>2, <3>1 DEF Cleared
      <4>2. Names' = 1 .. ghost'.run + 1
        BY <3>1, <4>1
      <4>3. 1 .. ghost'.run \subseteq Names'
        BY <4>1
      <4> QED
        BY <1>3, <2>3, <4>2, <4>3 DEF Running
    <3> QED
      BY <1>1, <1>3, <2>2, <3>2, <3>3 DEF Single, Merging
  <2>5. CASE ~Equals(1, c.n)
    <3>1. Names' = Names \cup {c.n}
      BY <1>1, <2>5
    <3>2. Cleared(d)' => Cleared(c) /\ ghost.run >= 1
      BY <1>1, <1>4, <2>2, <2>5 DEF Cleared, Equals
    <3>3. Neat(d)' => Neat(c) /\ FileName = NumChunks + 1
      BY <1>1, <3>2 DEF Neat, Undisturbed, Cleared
    <3>4. Neat(d)' => Filling(d)'
      <4> SUFFICES ASSUME Neat(d)' PROVE Filling(d)'
        OBVIOUS
      <4>1. Filling(c) /\ FileName = NumChunks + 1
        BY <2>1, <3>3 DEF Single
      <4>2. \A n \in Names \ {FileName} : dir[n] = <<n>>
        BY <1>1, <4>1 DEF Filling
      <4>3. \A n \in Names' \ {FileName} : n = c.n \/ dir'[n] = <<n>>
        BY <1>1, <3>1, <4>2
      <4>4. FileName \in Names' => 1 .. NumChunks \subseteq Names'
        BY <1>4, <3>1, <4>1 DEF Filling
      <4> QED
        BY <1>3, <4>3, <4>4 DEF Filling
    <3>5. Cleared(d)' => Running(d)'
      <4> SUFFICES ASSUME Cleared(d)' PROVE Running(d)'
        OBVIOUS
      <4>1. Names = 1 .. ghost.run /\ c.n = ghost.run + 1
        BY <1>4, <2>1, <2>2, <2>3, <3>2 DEF Single, Running
      <4>2. Names' = 1 .. ghost'.run + 1
        <5>1. \A r \in Int : r >= 1 => (1 .. r) \cup {r + 1} = 1 .. r + 1
          OBVIOUS
        <5>2. ghost.run \in Int /\ ghost.run >= 1 /\ ghost'.run = ghost.run
          BY <1>1, <1>4, <3>2
        <5> QED
          BY <3>1, <4>1, <5>1, <5>2
      <4>3. 1 .. ghost'.run \subseteq Names'
        BY <1>1, <3>1, <4>1
      <4> QED
        BY <1>3, <2>3, <4>2, <4>3 DEF Running
    <3> QED
      BY <1>1, <1>3, <2>2, <3>4, <3>5 DEF Single, Merging
  <2> QED
    BY <2>4, <2>5
<1>6. MergedWhole'
  BY <1>1, MergedKept DEF ChunkInv
<1> QED
  BY <1>1, <1>3, <1>5, <1>6, ContinueKeeps

\* The chunk is filled; one with another number than the last is acknowledged.
LEMMA FinishChunkChunks ==
  ASSUME FileInv, ChunkInv, UNCHANGED fields, NEW s \in Slot, FinishChunk(s)
  PROVE  ChunkInv'
<1> DEFINE c == call[s]
<1>1. /\ c.pc = "write" /\ InChunk(s) /\ OwnStep(s, call'[s]) /\ Names' = Names
      /\ \A n \in Names \ {c.n} : dir'[n] = dir[n]
      /\ ~c.lost /\ c.n \in Names => dir'[c.n] = <<c.n>>
      /\ IF c.n # NumChunks THEN Returns(s) /\ call'[s] = Idle
         ELSE UNCHANGED ghost /\ Continues(s, "count") /\ ~call'[s].lost
  BY FinishChunkSteps
<1>2. /\ NumChunks \in Nat /\ NumChunks >= 1 /\ c.n \in 1 .. NumChunks
      /\ ghost.run \in -1 .. NumChunks /\ c.op = "chunk"
  BY <1>1, ChunksTyped, ChunkTypes
<1>3. Orderly => Single(c)
  BY <1>1 DEF ChunkInv
<1>4. ASSUME Orderly, Neat(c)
      PROVE  /\ \A n \in Names' \ {FileName} : dir'[n] = <<n>>
             /\ FileName \in Names' => 1 .. NumChunks \subseteq Names'
  <2>1. Filling(c) /\ ~c.lost
    BY <1>3, <1>4 DEF Single
  <2>2. \A n \in Names \ {FileName} : dir'[n] = <<n>>
    BY <1>1, <2>1 DEF Filling
  <2> QED
    BY <1>1, <2>1, <2>2 DEF Filling
<1>5. CASE c.n # NumChunks
  <2>1. RunOnly /\ ghost'.run = IF ghost.run = c.n - 1 THEN ghost.run + 1 ELSE ghost.run
    BY <1>1, <1>5, EndsSteps
  <2>2. Orderly => Between'
    <3> SUFFICES ASSUME Orderly PROVE Between'
      OBVIOUS
    <3>1. ghost'.run = (IF ghost.run >= 0 THEN ghost.run + 1 ELSE ghost.run)
      BY <1>2, <1>3, <2>1 DEF Single
    <3>2. Cleared(Idle)' => Cleared(c) /\ ghost.run >= 0
      BY <1>1, <1>2, <3>1, IdleFits DEF Cleared, Before
    <3>3. Neat(Idle)' => Neat(c)
      BY <2>1, <3>2 DEF Neat, Undisturbed, RunOnly
    <3>4. Neat(Idle)' => Filling(Idle)'
      BY <1>4, <3>3 DEF Filling
    <3>5. Cleared(Idle)' => ghost'.run # NumChunks /\ Names' = 1 .. ghost'.run
      <4>1. Cleared(Idle)' => Names = 1 .. ghost.run + 1 /\ c.n = ghost.run + 1
        BY <1>1, <1>3, <3>2 DEF Single, Running
      <4> QED
        BY <1>1, <1>5, <3>1, <3>2, <4>1
    <3> QED
      BY <3>4, <3>5 DEF Between
  <2>3. ghost'.run >= 0 => ghost.run >= 0
    BY <1>2, <2>1
  <2>4. MergedWhole'
    BY <2>1, MergedKept DEF ChunkInv, RunOnly
  <2> QED
    BY <1>1, <1>5, <2>1, <2>2, <2>3, <2>4, EndKeeps DEF OwnStep, RunOnly
<1>6. CASE c.n = NumChunks
  <2>1. PICK d \in Calls : d = call'[s]
    BY <1>1 DEF OwnStep, Step
  <2>2. /\ OwnStep(s, d) /\ d.op = "chunk" /\ d.n = c.n /\ d.pc = "count" /\ ~d.lost
        /\ ghost' = ghost
    BY <1>1, <1>2, <1>6, <2>1 DEF Continues
  <2>3. ASSUME Orderly PROVE Single(d)'
    <3>1. ~Before(c) /\ ~Before(d)
      BY <1>1, <2>2 DEF Before
    <3>2. (Cleared(d)' <=> Cleared(c)) /\ (Neat(d)' <=> Neat(c))
      BY <1>2, <2>2, <3>1 DEF Neat, Undisturbed, Cleared
    <3>3. Neat(d)' => Filling(d)' /\ Merging(d)'
      BY <1>4, <2>2, <2>3, <3>2 DEF Filling, Merging
    <3>4. Cleared(d)' => Running(d)'
      <4>1. Cleared(c) => Names = 1 .. ghost.run + 1
        BY <1>1, <1>3, <2>3 DEF Single, Running
      <4>2. Cleared(d)' => Names' = 1 .. ghost'.run + 1
        BY <1>1, <2>2, <3>2, <4>1
      <4>3. Cleared(c) => 1 .. ghost'.run \subseteq Names'
        BY <1>1, <1>3, <2>2, <2>3 DEF Single, Running
      <4> QED
        BY <2>2, <3>1, <3>2, <4>2, <4>3 DEF Running
    <3> QED
      BY <1>3, <2>2, <2>3, <3>3, <3>4 DEF Single
  <2>4. MergedWhole'
    BY <2>2, MergedKept DEF ChunkInv
  <2> QED
    BY <1>1, <2>2, <2>3, <2>4, ContinueKeeps DEF OwnStep
<1> QED
  BY <1>5, <1>6

\* As many names as there are chunks are the names of the chunks, if the merged file
\* is created only when all chunks are there.
LEMMA AllThere ==
  ASSUME FileInv, FileName = NumChunks + 1, FileName \in Names => 1 .. NumChunks \subseteq Names
  PROVE  Cardinality(Names) = NumChunks <=> Names = 1 .. NumChunks
<1>1. /\ NumChunks \in Nat /\ IsFiniteSet(1 .. NumChunks) /\ Cardinality(1 .. NumChunks) = NumChunks
      /\ Names \subseteq 1 .. NumChunks + 1
  BY ChunksTyped, DirFacts DEF Name
<1>2. CASE FileName \in Names
  <2>1. Names = (1 .. NumChunks) \cup {FileName} /\ FileName \notin 1 .. NumChunks
    <3>1. \A n \in Nat : 1 .. n + 1 = (1 .. n) \cup {n + 1} /\ n + 1 \notin 1 .. n
      OBVIOUS
    <3>2. 1 .. NumChunks + 1 = (1 .. NumChunks) \cup {FileName} /\ FileName \notin 1 .. NumChunks
      BY <1>1, <3>1
    <3> QED
      BY <1>1, <1>2, <3>2
  <2>2. Cardinality(Names) = NumChunks + 1
    <3> DEFINE chunks == 1 .. NumChunks
    <3>1. IsFiniteSet(chunks) /\ Cardinality(chunks) = NumChunks
      BY <1>1, ChunksTyped, FS_Interval
    <3> HIDE DEF chunks
    <3>2. Cardinality(chunks \cup {FileName}) = Cardinality(chunks) + 1 \/ FileName \in chunks
      BY <3>1, FS_AddElement
    <3> QED
      BY <2>1, <3>1, <3>2 DEF chunks
  <2> QED
    BY <1>1, <2>1, <2>2
<1>3. CASE FileName \notin Names
  <2>1. Names \subseteq 1 .. NumChunks
    BY <1>1, <1>3
  <2> QED
    BY <1>1, <2>1, FS_Subset
<1> QED
  BY <1>2, <1>3

\* The names are counted: in a run, all chunks are there.
LEMMA CountChunksChunks ==
  ASSUME FileInv, ChunkInv, UNCHANGED fields, NEW s \in Slot, CountChunks(s)
  PROVE  ChunkInv'
<1> DEFINE c == call[s]
<1>1. /\ c.pc = "count" /\ InChunk(s) /\ c.n = NumChunks /\ OwnStep(s, call'[s]) /\ dir' = dir
      /\ \/ Fails(s) /\ call'[s] = Idle
         \/ ~Equals(Cardinality(Names), NumChunks) /\ Returns(s) /\ call'[s] = Idle
         \/ /\ Equals(Cardinality(Names), NumChunks)
            /\ UNCHANGED ghost /\ Continues(s, "list") /\ call'[s].lost = c.lost
  BY CountChunksSteps
<1>2. /\ NumChunks \in Nat /\ NumChunks >= 1 /\ c.op = "chunk" /\ ghost.run \in -1 .. NumChunks
  BY <1>1, ChunksTyped, ChunkTypes
<1>3. Orderly => Single(c)
  BY <1>1 DEF ChunkInv
<1>4. ~Before(c)
  BY <1>1 DEF Before
<1>5. Orderly /\ Neat(c) => (Cardinality(Names) = NumChunks <=> Names = 1 .. NumChunks)
  BY <1>3, AllThere DEF Single, Filling, Neat, Undisturbed, Cleared
<1>6. CASE Fails(s) /\ call'[s] = Idle
  <2>1. RunOnly /\ ghost'.run = -1 /\ OwnStep(s, Idle)
    BY <1>1, <1>6, EndsSteps
  <2>2. MergedWhole'
    BY <2>1, MergedKept DEF ChunkInv, RunOnly
  <2> QED
    BY <1>1, <2>1, <2>2, FailKeeps DEF RunOnly
<1>7. CASE ~Equals(Cardinality(Names), NumChunks) /\ Returns(s) /\ call'[s] = Idle
  <2>1. RunOnly /\ ghost'.run = IF ghost.run = NumChunks - 1 THEN ghost.run + 1 ELSE ghost.run
    BY <1>1, <1>7, EndsSteps
  <2>2. ghost'.run >= 0 => ghost.run >= 0
    BY <1>2, <2>1
  <2>3. Orderly => Between'
    <3> SUFFICES ASSUME Orderly PROVE Between'
      OBVIOUS
    <3>1. ~(fields = "number" /\ Neat(c) /\ ghost.run >= 0)
      <4> SUFFICES ASSUME fields = "number", Neat(c), ghost.run >= 0 PROVE FALSE
        OBVIOUS
      <4>1. c.n = ghost.run + 1 /\ Cleared(c)
        BY <1>2, <1>3, <1>4 DEF Single, Cleared, Neat, Undisturbed
      <4>2. Names = 1 .. ghost.run + 1
        BY <1>1, <1>3, <4>1 DEF Single, Running
      <4> QED
        BY <1>1, <1>5, <1>7, <4>1, <4>2 DEF Equals
    <3>2. fields = "number" /\ ghost.run >= 0 => FileName # NumChunks + 1
      BY <1>2, <1>4, <3>1 DEF Neat, Cleared
    <3>3. ~Cleared(Idle)'
      BY <1>2, <2>1, <2>2, <3>2, IdleFits DEF Cleared
    <3>4. Neat(Idle)' => Filling(Idle)'
      <4>1. Neat(Idle)' => Neat(c)
        BY <2>1, <3>3 DEF Neat, Undisturbed, RunOnly
      <4> QED
        BY <1>1, <1>3, <4>1 DEF Single, Filling, Names
    <3> QED
      BY <3>3, <3>4 DEF Between
  <2>4. MergedWhole'
    BY <2>1, MergedKept DEF ChunkInv, RunOnly
  <2> QED
    BY <1>1, <1>7, <2>1, <2>2, <2>3, <2>4, EndKeeps DEF OwnStep, RunOnly
<1>8. CASE /\ Equals(Cardinality(Names), NumChunks)
           /\ UNCHANGED ghost /\ Continues(s, "list") /\ call'[s].lost = c.lost
  <2>1. PICK d \in Calls : d = call'[s]
    BY <1>1 DEF OwnStep, Step
  <2>2. /\ OwnStep(s, d) /\ d.op = "chunk" /\ d.n = c.n /\ d.pc = "list" /\ d.lost = c.lost
        /\ ghost' = ghost
    BY <1>1, <1>2, <1>8, <2>1 DEF Continues
  <2>3. ASSUME Orderly PROVE Single(d)'
    <3>1. ~Before(d)
      BY <2>2 DEF Before
    <3>2. (Cleared(d)' <=> Cleared(c)) /\ (Neat(d)' <=> Neat(c))
      BY <1>2, <1>4, <2>2, <3>1 DEF Neat, Undisturbed, Cleared
    <3>3. Neat(d)' => Filling(d)' /\ Merging(d)'
      BY <1>1, <1>3, <1>5, <1>8, <2>2, <2>3, <3>2 DEF Single, Filling, Merging, Names, Equals
    <3>4. Cleared(d)' => Running(d)'
      BY <1>1, <1>3, <2>2, <2>3, <3>1, <3>2 DEF Single, Running, Names
    <3> QED
      BY <1>3, <2>2, <2>3, <3>3, <3>4 DEF Single
  <2>4. MergedWhole'
    BY <2>2, MergedKept DEF ChunkInv
  <2> QED
    BY <1>1, <2>2, <2>3, <2>4, ContinueKeeps DEF OwnStep
<1> QED
  BY <1>1, <1>6, <1>7, <1>8

\* A chunk call that merges goes on; the chunks are as they were.
LEMMA MergeContinues ==
  ASSUME FileInv, ChunkInv, UNCHANGED fields, NEW s \in Slot, NEW d, InChunk(s), OwnStep(s, d),
         d.op = "chunk", d.n = call[s].n, ghost' = ghost,
         call[s].pc \in {"list", "merge", "load"}, d.pc \in {"merge", "load", "store"},
         Orderly => ~d.lost, Names \subseteq Names',
         Orderly /\ Neat(call[s]) => Filling(d)' /\ Merging(d)'
  PROVE  ChunkInv'
<1> DEFINE c == call[s]
<1>1. ~Before(c) /\ ~Before(d) /\ c.op = "chunk"
  BY DEF Before, InChunk
<1>2. (Cleared(d)' <=> Cleared(c)) /\ (Neat(d)' <=> Neat(c))
  BY <1>1 DEF Neat, Undisturbed, Cleared
<1>4. ASSUME Orderly PROVE Single(d)'
  <2>1. Single(c)
    BY <1>4 DEF ChunkInv
  <2>2. Running(c) => Running(d)'
    BY <1>1 DEF Running
  <2> QED
    BY <1>2, <1>4, <2>1, <2>2 DEF Single
<1>5. MergedWhole'
  BY MergedKept DEF ChunkInv
<1> QED
  BY <1>4, <1>5, ContinueKeeps DEF OwnStep

\* A merge that fails.
LEMMA MergeFails ==
  ASSUME FileInv, ChunkInv, UNCHANGED fields, NEW s \in Slot, InChunk(s), call[s].pc # "write", Fails(s), dir' = dir
  PROVE  ChunkInv'
<1>1. RunOnly /\ ghost'.run = -1 /\ OwnStep(s, Idle)
  BY EndsSteps
<1>2. MergedWhole'
  BY <1>1, MergedKept DEF ChunkInv, RunOnly
<1> QED
  BY <1>1, <1>2, FailKeeps DEF RunOnly

LEMMA ListChunksChunks ==
  ASSUME FileInv, ChunkInv, UNCHANGED fields, NEW s \in Slot, ListChunks(s)
  PROVE  ChunkInv'
<1> DEFINE c == call[s]
<1>1. /\ c.pc = "list" /\ InChunk(s) /\ OwnStep(s, call'[s]) /\ dir' = dir
      /\ \/ Fails(s)
         \/ /\ UNCHANGED ghost /\ Continues(s, "merge")
            /\ call'[s].todo = Names /\ call'[s].data = <<>>
            /\ ~call'[s].opened /\ call'[s].lost = c.lost
  BY ListChunksSteps
<1>2. CASE Fails(s)
  BY <1>1, <1>2, MergeFails
<1>3. CASE /\ UNCHANGED ghost /\ Continues(s, "merge")
           /\ call'[s].todo = Names /\ call'[s].data = <<>>
           /\ ~call'[s].opened /\ call'[s].lost = c.lost
  <2>1. PICK d \in Calls : d = call'[s]
    BY <1>1 DEF OwnStep, Step
  <2>2. /\ OwnStep(s, d) /\ d.op = "chunk" /\ d.n = c.n /\ d.pc = "merge" /\ d.lost = c.lost
        /\ d.todo = Names /\ d.data = <<>> /\ ~d.opened
    BY <1>1, <1>3, <2>1 DEF Continues, InChunk
  <2>3. Orderly => Single(c)
    BY <1>1 DEF ChunkInv
  <2>4. ASSUME Orderly, Neat(c) PROVE Filling(d)' /\ Merging(d)'
    <3>1. Filling(c) /\ Names = 1 .. NumChunks
      BY <1>1, <2>3, <2>4 DEF Single, Merging
    <3>2. Filling(d)'
      BY <1>1, <3>1 DEF Filling, Names
    <3>3. 1 \in 1 .. NumChunks + 1 /\ Upto(1 - 1) = <<>>
      BY ChunksTyped DEF Upto
    <3>4. Names' = Names
      BY <1>1 DEF Names
    <3> QED
      BY <2>2, <3>1, <3>2, <3>3, <3>4 DEF Merging
  <2> QED
    BY <1>1, <1>3, <2>2, <2>3, <2>4, MergeContinues DEF Single, Names
<1> QED
  BY <1>1, <1>2, <1>3

\* The merged file is created when all chunks are there.
LEMMA OpenMergedChunks ==
  ASSUME FileInv, ChunkInv, UNCHANGED fields, NEW s \in Slot, OpenMerged(s)
  PROVE  ChunkInv'
<1> DEFINE c == call[s]
<1>1. /\ c.pc = "merge" /\ InChunk(s) /\ OwnStep(s, call'[s])
      /\ \/ dir' = dir /\ Fails(s)
         \/ /\ UNCHANGED ghost /\ Continues(s, "merge")
            /\ call'[s].todo = c.todo /\ call'[s].data = c.data /\ ~call'[s].lost
            /\ Names' = Names \cup {FileName}
            /\ \A n \in Names \ {FileName} : dir'[n] = dir[n]
  BY OpenMergedSteps
<1>2. CASE dir' = dir /\ Fails(s)
  BY <1>1, <1>2, MergeFails
<1>3. CASE /\ UNCHANGED ghost /\ Continues(s, "merge")
           /\ call'[s].todo = c.todo /\ call'[s].data = c.data /\ ~call'[s].lost
           /\ Names' = Names \cup {FileName}
           /\ \A n \in Names \ {FileName} : dir'[n] = dir[n]
  <2>1. PICK d \in Calls : d = call'[s]
    BY <1>1 DEF OwnStep, Step
  <2>2. /\ OwnStep(s, d) /\ d.op = "chunk" /\ d.n = c.n /\ d.pc = "merge" /\ ~d.lost
        /\ d.todo = c.todo /\ d.data = c.data
    BY <1>1, <1>3, <2>1 DEF Continues, InChunk
  <2>3. ASSUME Orderly, Neat(c) PROVE Filling(d)' /\ Merging(d)'
    <3>1. Filling(c) /\ Merging(c)
      BY <1>1, <2>3 DEF ChunkInv, Single
    <3>2. 1 .. NumChunks \subseteq Names'
      BY <1>1, <1>3, <3>1 DEF Merging
    <3>3. Filling(d)'
      BY <1>1, <1>3, <3>1, <3>2 DEF Filling
    <3> QED
      BY <1>1, <1>3, <2>2, <3>1, <3>2, <3>3 DEF Merging
  <2> QED
    BY <1>1, <1>3, <2>2, <2>3, MergeContinues DEF Names
<1> QED
  BY <1>1, <1>2, <1>3

\* Reading the next chunk.
LEMMA NextChunk ==
  ASSUME NEW k \in 1 .. NumChunks
  PROVE  Upto(k - 1) \o <<k>> = Upto(k) /\ (k .. NumChunks) \ {k} = k + 1 .. NumChunks
         /\ k + 1 \in 1 .. NumChunks + 1 /\ k + 1 - 1 = k
<1>1. NumChunks \in Nat /\ k \in Nat /\ k >= 1
  BY ChunksTyped
<1>2. Upto(k - 1) \in Seq(Nat) /\ Len(Upto(k - 1)) = k - 1 /\ \A i \in 1 .. k - 1 : Upto(k - 1)[i] = i
  BY <1>1 DEF Upto
<1> DEFINE q == Upto(k - 1) \o <<k>>
<1>3. q \in Seq(Nat) /\ Len(q) = k /\ \A i \in 1 .. k : q[i] = i
  <2>1. <<k>> \in Seq(Nat) /\ Len(<<k>>) = 1 /\ <<k>>[1] = k
    BY <1>1
  <2> HIDE DEF Upto
  <2> QED
    BY <1>1, <1>2, <2>1
<1> HIDE DEF q
<1>4. q = [i \in 1 .. k |-> i]
  BY <1>1, <1>3
<1>5. (k .. NumChunks) \ {k} = k + 1 .. NumChunks
  BY <1>1
<1>6. k + 1 \in 1 .. NumChunks + 1 /\ k + 1 - 1 = k
  BY <1>1
<1> QED
  BY <1>4, <1>5, <1>6 DEF q, Upto

LEMMA ReadChunkChunks ==
  ASSUME FileInv, ChunkInv, UNCHANGED fields, NEW s \in Slot, ReadChunk(s)
  PROVE  ChunkInv'
<1> DEFINE c == call[s]
<1>1. /\ c.pc = "merge" /\ InChunk(s) /\ OwnStep(s, call'[s]) /\ dir' = dir
      /\ \E n \in c.todo :
           /\ \A m \in c.todo : n <= m
           /\ \/ Fails(s)
              \/ /\ UNCHANGED ghost /\ Continues(s, "merge")
                 /\ call'[s].todo = c.todo \ {n} /\ call'[s].data = c.data \o dir[n]
                 /\ call'[s].opened = c.opened /\ call'[s].lost = c.lost
  BY ReadChunkSteps
<1>2. CASE Fails(s)
  BY <1>1, <1>2, MergeFails
<1>3. ASSUME NEW n \in c.todo, \A m \in c.todo : n <= m,
             UNCHANGED ghost, Continues(s, "merge"),
             call'[s].todo = c.todo \ {n}, call'[s].data = c.data \o dir[n],
             call'[s].opened = c.opened, call'[s].lost = c.lost
      PROVE  ChunkInv'
  <2>1. PICK d \in Calls : d = call'[s]
    BY <1>1 DEF OwnStep, Step
  <2>2. /\ OwnStep(s, d) /\ d.op = "chunk" /\ d.n = c.n /\ d.pc = "merge" /\ d.lost = c.lost
        /\ d.todo = c.todo \ {n} /\ d.data = c.data \o dir[n] /\ d.opened = c.opened
    BY <1>1, <1>3, <2>1 DEF Continues, InChunk
  <2>3. Orderly => Single(c)
    BY <1>1 DEF ChunkInv
  <2>4. ASSUME Orderly, Neat(c) PROVE Filling(d)' /\ Merging(d)'
    <3>1. Filling(c) /\ 1 .. NumChunks \subseteq Names /\ (c.opened => FileName \in Names)
      BY <1>1, <2>3, <2>4 DEF Single, Merging
    <3>2. PICK k \in 1 .. NumChunks + 1 : c.todo = k .. NumChunks /\ c.data = Upto(k - 1)
      BY <1>1, <2>3, <2>4 DEF Single, Merging
    <3>3. NumChunks \in Nat /\ FileName = NumChunks + 1
      BY <2>4, ChunksTyped DEF Neat, Undisturbed, Cleared
    <3>4. n = k /\ k \in 1 .. NumChunks
      <4>1. n \in k .. NumChunks /\ k \in Nat /\ n \in Nat
        BY <3>2, <3>3
      <4>2. k \in k .. NumChunks
        BY <3>3, <4>1
      <4>3. n <= k
        BY <1>3, <3>2, <4>2
      <4> QED
        BY <3>2, <3>3, <4>1, <4>3
    <3>5. dir[n] = <<k>>
      BY <1>1, <3>1, <3>3, <3>4 DEF Filling
    <3>6. d.todo = k + 1 .. NumChunks /\ d.data = Upto(k + 1 - 1) /\ k + 1 \in 1 .. NumChunks + 1
      BY <2>2, <3>2, <3>4, <3>5, NextChunk
    <3>7. Filling(d)'
      BY <1>1, <3>1 DEF Filling, Names
    <3>8. Names' = Names
      BY <1>1 DEF Names
    <3>9. \E j \in 1 .. NumChunks + 1 : d.todo = j .. NumChunks /\ d.data = Upto(j - 1)
      BY <3>6
    <3> QED
      BY <2>2, <3>1, <3>7, <3>8, <3>9 DEF Merging
  <2> QED
    BY <1>1, <1>3, <2>2, <2>3, <2>4, MergeContinues DEF Single, Names
<1> QED
  BY <1>1, <1>2, <1>3

LEMMA CloseMergedChunks ==
  ASSUME FileInv, ChunkInv, UNCHANGED fields, NEW s \in Slot, CloseMerged(s)
  PROVE  ChunkInv'
<1> DEFINE c == call[s]
<1>1. /\ c.pc = "merge" /\ InChunk(s) /\ OwnStep(s, call'[s]) /\ c.opened /\ c.todo = {}
      /\ ghost' = ghost /\ Names' = Names
      /\ \A n \in Names \ {FileName} : dir'[n] = dir[n]
      /\ ~c.lost /\ FileName \in Names => dir'[FileName] = c.data
      /\ Continues(s, "load") /\ ~call'[s].lost
  BY CloseMergedSteps
<1>2. PICK d \in Calls : d = call'[s]
  BY <1>1 DEF OwnStep, Step
<1>3. OwnStep(s, d) /\ d.op = "chunk" /\ d.n = c.n /\ d.pc = "load" /\ ~d.lost
  BY <1>1, <1>2 DEF Continues, InChunk
<1>4. ASSUME Orderly, Neat(c) PROVE Filling(d)' /\ Merging(d)'
  <2>1. Filling(c) /\ FileName \in Names /\ ~c.lost
    BY <1>1, <1>4 DEF ChunkInv, Single, Merging
  <2>2. PICK k \in 1 .. NumChunks + 1 : c.todo = k .. NumChunks /\ c.data = Upto(k - 1)
    BY <1>1, <1>4 DEF ChunkInv, Single, Merging
  <2>3. k = NumChunks + 1
    <3>1. NumChunks \in Nat /\ k \in Nat
      BY ChunksTyped
    <3>2. c.todo = {}
      BY <1>1
    <3>3. c.todo = k .. NumChunks
      BY <2>2
    <3>4. k .. NumChunks = {}
      BY <3>2, <3>3
    <3>5. k <= NumChunks + 1
      BY <2>2, ChunksTyped
    <3> QED
      BY <3>1, <3>4, <3>5
  <2>4. c.data = Whole
    BY <2>2, <2>3, ChunksTyped DEF Upto, Whole
  <2>5. Filling(d)'
    BY <1>1, <2>1 DEF Filling
  <2>6. FileName \in Names' /\ dir'[FileName] = Whole
    BY <1>1, <2>1, <2>4
  <2> QED
    BY <1>3, <2>5, <2>6 DEF Merging
<1> QED
  BY <1>1, <1>3, <1>4, MergeContinues DEF Names

LEMMA LoadMergedChunks ==
  ASSUME FileInv, ChunkInv, UNCHANGED fields, NEW s \in Slot, LoadMerged(s)
  PROVE  ChunkInv'
<1> DEFINE c == call[s]
<1>1. /\ c.pc = "load" /\ InChunk(s) /\ clients[c.code] \in Clients /\ dir' = dir
      /\ \/ Fails(s)
         \/ /\ FileName \in Names /\ dir[FileName] \in Seq(Name)
            /\ BeginUpload(s, clients[c.code], dir[FileName])
  BY LoadMergedSteps
<1>2. CASE Fails(s)
  BY <1>1, <1>2, MergeFails
<1>3. CASE dir[FileName] \in Seq(Name) /\ BeginUpload(s, clients[c.code], dir[FileName])
  <2>1. /\ OwnStep(s, call'[s])
        /\ \/ Fails(s)
           \/ /\ ghost' = ghost /\ call'[s].pc = "store" /\ call'[s].op = c.op
              /\ call'[s].n = c.n /\ call'[s].lost = c.lost /\ call'[s].data = dir[FileName]
    BY <1>1, <1>3, BeginSteps
  <2>2. PICK d \in Calls : d = call'[s]
    BY <2>1 DEF OwnStep, Step
  <2>3. CASE /\ ghost' = ghost /\ d.pc = "store" /\ d.op = c.op
             /\ d.n = c.n /\ d.lost = c.lost /\ d.data = dir[FileName]
    <3>1. OwnStep(s, d) /\ d.op = "chunk"
      BY <1>1, <2>1, <2>2, <2>3 DEF InChunk
    <3>2. Orderly => ~d.lost
      BY <1>1, <2>3 DEF ChunkInv, Single
    <3>3. ASSUME Orderly, Neat(c) PROVE Filling(d)' /\ Merging(d)'
      <4>1. Filling(c) /\ dir[FileName] = Whole
        BY <1>1, <3>3 DEF ChunkInv, Single, Merging
      <4>2. Filling(d)'
        BY <1>1, <4>1 DEF Filling, Names
      <4> QED
        BY <2>3, <4>1, <4>2 DEF Merging
    <3> QED
      BY <1>1, <2>3, <3>1, <3>2, <3>3, MergeContinues DEF Names
  <2>4. CASE Fails(s)
    BY <1>2, <2>4
  <2> QED
    BY <2>1, <2>2, <2>3, <2>4
<1> QED
  BY <1>1, <1>2, <1>3

\* The file is stored: that of a chunk call is the whole one, if nothing was disturbed.
LEMMA StoreFileChunks ==
  ASSUME FileInv, ChunkInv, UNCHANGED fields, NEW s \in Slot, StoreFile(s)
  PROVE  ChunkInv'
<1> DEFINE c == call[s]
<1>1. /\ c.pc = "store" /\ OwnStep(s, call'[s]) /\ ghost' = Stored(s) /\ dir' = dir
      /\ Continues(s, IF InChunk(s) THEN "tidy" ELSE "reread") /\ call'[s].lost = c.lost
  BY StoreFileSteps
<1>2. /\ ghost'.run = ghost.run /\ ghost'.overlapped = ghost.overlapped /\ ghost'.cut = ghost.cut
      /\ ghost'.merged = IF InChunk(s) THEN c.data ELSE ghost.merged
  BY <1>1, StoredFacts
<1>3. PICK d \in Calls : d = call'[s]
  BY <1>1 DEF OwnStep, Step
<1>4. /\ OwnStep(s, d) /\ d.op = c.op /\ d.n = c.n /\ d.lost = c.lost
      /\ InChunk(s) => d.pc = "tidy"
  BY <1>1, <1>3 DEF Continues
<1>5. CASE ~InChunk(s)
  <2>1. d.op # "chunk" /\ ~d.lost /\ ChunksLeft
    BY <1>1, <1>2, <1>4, <1>5 DEF ChunkInv, InChunk, ChunksLeft
  <2> QED
    BY <1>4, <1>5, <2>1, SimpleKeeps
<1>6. CASE InChunk(s)
  <2>1. Orderly => Single(c)
    BY <1>6 DEF ChunkInv
  <2>2. Orderly /\ Neat(c) => c.data = Whole
    BY <1>1, <2>1 DEF Single, Merging
  <2>3. ~Before(c) /\ ~Before(d) /\ c.op = "chunk" /\ d.op = "chunk"
    BY <1>1, <1>4, <1>6 DEF Before, InChunk
  <2>4. (Cleared(d)' <=> Cleared(c)) /\ (Neat(d)' <=> Neat(c))
    BY <1>2, <2>3 DEF Neat, Undisturbed, Cleared
  <2>5. ASSUME Orderly PROVE Single(d)'
    <3>1. Neat(d)' => Filling(d)' /\ Merging(d)'
      BY <1>1, <1>4, <1>6, <2>1, <2>4, <2>5 DEF Single, Filling, Merging, Names
    <3>2. Cleared(d)' => Running(d)'
      <4>1. Names' = Names
        BY <1>1 DEF Names
      <4> QED
        BY <1>2, <1>4, <1>6, <2>1, <2>2, <2>3, <2>4, <2>5, <4>1 DEF Single, Neat, Running
    <3> QED
      BY <1>2, <1>4, <2>1, <2>5, <3>1, <3>2 DEF Single
  <2>6. MergedWhole'
    BY <1>2, <1>6, <2>2 DEF MergedWhole, Orderly, Neat, Undisturbed
  <2> QED
    BY <1>2, <1>4, <1>6, <2>3, <2>5, <2>6, ContinueKeeps DEF OwnStep
<1> QED
  BY <1>5, <1>6

LEMMA RemoveMergedChunks ==
  ASSUME FileInv, ChunkInv, UNCHANGED fields, NEW s \in Slot, RemoveMerged(s)
  PROVE  ChunkInv'
<1> DEFINE c == call[s]
<1>1. /\ c.pc = "tidy" /\ InChunk(s) /\ OwnStep(s, call'[s]) /\ ghost' = ghost
      /\ Names' = Names \ {FileName}
      /\ \A n \in Names \ {FileName} : dir'[n] = dir[n]
      /\ Continues(s, "remove") /\ call'[s].lost = c.lost
  BY RemoveMergedSteps
<1>2. PICK d \in Calls : d = call'[s]
  BY <1>1 DEF OwnStep, Step
<1>3. OwnStep(s, d) /\ d.op = "chunk" /\ d.n = c.n /\ d.pc = "remove" /\ d.lost = c.lost
  BY <1>1, <1>2 DEF Continues, InChunk
<1>4. ~Before(c) /\ ~Before(d) /\ c.op = "chunk"
  BY <1>1, <1>3 DEF Before, InChunk
<1>5. (Cleared(d)' <=> Cleared(c)) /\ (Neat(d)' <=> Neat(c))
  BY <1>1, <1>3, <1>4 DEF Neat, Undisturbed, Cleared
<1>6. ASSUME Orderly PROVE Single(d)'
  <2>1. Single(c)
    BY <1>1, <1>6 DEF ChunkInv
  <2>2. Neat(c) => \A n \in Names \ {FileName} : dir[n] = <<n>>
    BY <1>1, <2>1 DEF Single, Filling
  <2>3. Neat(d)' => Filling(d)' /\ Merging(d)'
    BY <1>1, <1>3, <1>5, <2>2 DEF Filling, Merging
  <2>4. Cleared(d)' => Running(d)'
    <3>1. Cleared(c) => /\ 1 .. ghost.run \subseteq Names /\ FileName \notin 1 .. ghost.run
                        /\ ghost.merged = Whole
      BY <1>1, <2>1, ChunksTyped, ChunkTypes DEF Single, Running, Cleared
    <3> QED
      BY <1>1, <1>3, <1>4, <1>5, <3>1 DEF Running
  <2> QED
    BY <1>1, <1>3, <2>1, <2>3, <2>4 DEF Single
<1>7. MergedWhole'
  BY <1>1, MergedKept DEF ChunkInv
<1> QED
  BY <1>1, <1>3, <1>6, <1>7, ContinueKeeps DEF OwnStep

\* The upload is complete.
LEMMA RemoveDirChunks ==
  ASSUME FileInv, ChunkInv, UNCHANGED fields, NEW s \in Slot, RemoveDir(s)
  PROVE  ChunkInv'
<1> DEFINE c == call[s]
<1>1. /\ c.pc = "remove" /\ InChunk(s) /\ c.n = NumChunks /\ Step(s, Idle)
      /\ \A t \in Slot \ {s} : ~InChunk(t) => call'[t] = call[t]
      /\ Names' = {} /\ RunOnly
      /\ ghost'.run = IF ghost.run = NumChunks - 1 THEN NumChunks ELSE ghost.run
  BY RemoveDirSteps
<1>2. NumChunks \in Nat /\ NumChunks >= 1 /\ ghost.run \in -1 .. NumChunks /\ c.op = "chunk"
  BY <1>1, ChunksTyped, ChunkTypes
<1>3. ghost'.run >= 0 => ghost.run >= 0
  BY <1>1, <1>2
<1>4. ASSUME Orderly PROVE Between'
  <2>1. Single(c)
    BY <1>1, <1>4 DEF ChunkInv
  <2>2. Filling(Idle)'
    BY <1>1, <1>2, ChunksTyped DEF Filling
  <2>3. Cleared(Idle)' => Cleared(c) /\ ghost'.run = NumChunks
    <3>1. Cleared(Idle)' => ghost.run >= 0 /\ FileName = NumChunks + 1
      BY <1>1, <1>2, <1>3, IdleFits DEF Cleared
    <3>2. ghost.run >= 0 => ghost.run = NumChunks - 1
      BY <1>1, <1>2, <2>1 DEF Single
    <3>3. ~Before(c)
      BY <1>1 DEF Before
    <3> QED
      BY <1>1, <1>2, <3>1, <3>2, <3>3 DEF Cleared
  <2>4. Cleared(c) => ghost'.merged = Whole
    BY <1>1, <2>1 DEF Single, Running, RunOnly
  <2> QED
    BY <2>2, <2>3, <2>4 DEF Between
<1>5. MergedWhole'
  BY <1>1, MergedKept DEF ChunkInv, RunOnly
<1> QED
  BY <1>1, <1>3, <1>4, <1>5, EndKeeps DEF RunOnly

\* What a call waits for fails: of the chunk it was writing, a part is left.
LEMMA CallFailsChunks ==
  ASSUME FileInv, ChunkInv, UNCHANGED fields, NEW s \in Slot, CallFails(s)
  PROVE  ChunkInv'
<1> DEFINE c == call[s]
<1>1. /\ OwnStep(s, Idle) /\ dir' = dir
      /\ ghost'.run = (IF InChunk(s) THEN -1 ELSE ghost.run)
      /\ ghost'.overlapped = ghost.overlapped
      /\ ghost'.cut = (ghost.cut \/ c.pc = "write")
      /\ \/ ghost'.merged = ghost.merged
         \/ c.pc = "store" /\ InChunk(s) /\ ghost'.merged = c.data
  BY CallFailsSteps
<1>2. ghost.cut \in BOOLEAN /\ CallFits(c)
  BY ChunkTypes DEF Ghosts
<1>3. CASE ~InChunk(s)
  <2>1. c.pc # "write"
    BY <1>2, <1>3 DEF CallFits, ChunkSteps, InChunk
  <2>2. ghost'.cut = ghost.cut
    BY <1>1, <1>2, <2>1
  <2>3. ChunksLeft
    BY <1>1, <1>3, <2>2 DEF ChunksLeft
  <2> QED
    BY <1>1, <1>3, <2>3, IdleFits, SimpleKeeps
<1>4. CASE InChunk(s)
  <2>1. MergedWhole'
    <3>1. CASE ghost'.merged = ghost.merged
      BY <1>1, <3>1, MergedKept DEF ChunkInv
    <3>2. CASE c.pc = "store" /\ ghost'.merged = c.data
      <4>1. Orderly /\ Neat(c) => c.data = Whole
        BY <1>4, <3>2 DEF ChunkInv, Single, Merging
      <4> QED
        BY <1>1, <3>2, <4>1 DEF MergedWhole, Orderly, Neat, Undisturbed
    <3> QED
      BY <1>1, <3>1, <3>2
  <2>2. CASE c.pc # "write"
    <3>1. ghost'.cut = ghost.cut
      BY <1>1, <1>2, <2>2
    <3> QED
      BY <1>1, <1>4, <2>1, <2>2, <3>1, FailKeeps
  <2>3. CASE c.pc = "write"
    <3>1. ghost'.run = -1 /\ ghost'.cut
      BY <1>1, <1>4, <2>3
    <3>2. ~Neat(Idle)' /\ ~Cleared(Idle)'
      BY <3>1 DEF Neat, Undisturbed, Cleared
    <3>3. Between'
      BY <3>2 DEF Between
    <3> QED
      BY <1>1, <1>4, <2>1, <3>1, <3>3, EndKeeps DEF OwnStep
  <2> QED
    BY <2>2, <2>3
<1> QED
  BY <1>3, <1>4

\* The process dies: what was being written is cut.
LEMMA RestartChunks ==
  ASSUME FileInv, ChunkInv, UNCHANGED fields, Restart
  PROVE  ChunkInv'
<1>1. /\ dir' = dir /\ call' = [s \in Slot |-> Idle] /\ ghost'.run = -1
      /\ ghost'.cut = (ghost.cut \/ \E s \in Slot : call[s].pc = "write")
      /\ ghost'.merged = ghost.merged /\ ghost'.overlapped = ghost.overlapped
  BY RestartSteps
<1>2. \A s \in Slot : ~InChunk(s)' /\ ~call'[s].lost
  BY <1>1, IdleFits DEF InChunk
<1>3. OneChunkCall'
  BY <1>2 DEF OneChunkCall
<1>4. MergedWhole'
  BY <1>1, MergedKept DEF ChunkInv
<1>5. Between'
  <2>1. ~Cleared(Idle)'
    BY <1>1 DEF Cleared
  <2>2. ASSUME Undisturbed' PROVE Filling(Idle)'
    <3>1. Undisturbed /\ Orderly /\ \A s \in Slot : call[s].pc # "write"
      BY <1>1, <2>2 DEF Undisturbed, Orderly
    <3>2. /\ \A n \in Names \ {FileName} : dir[n] = <<n>>
          /\ FileName \in Names => 1 .. NumChunks \subseteq Names
      <4>1. CASE \E s \in Slot : InChunk(s)
        <5>1. PICK s \in Slot : InChunk(s)
          BY <4>1
        <5>2. Filling(call[s])
          BY <3>1, <5>1 DEF ChunkInv, Single, Neat
        <5> QED
          BY <3>1, <5>1, <5>2 DEF Filling
      <4>2. CASE \A s \in Slot : ~InChunk(s)
        <5>1. Filling(Idle)
          BY <3>1, <4>2 DEF ChunkInv, Between, Neat
        <5> QED
          BY <5>1, IdleFits DEF Filling
      <4> QED
        BY <4>1, <4>2
    <3> QED
      BY <1>1, <3>2 DEF Filling, Names
  <2> QED
    BY <2>1, <2>2 DEF Between, Neat
<1> QED
  BY <1>2, <1>3, <1>4, <1>5 DEF ChunkInv

LEMMA ChunkInit == Init => ChunkInv
<1> SUFFICES ASSUME Init PROVE ChunkInv
  OBVIOUS
<1>1. /\ dir = None /\ call = [s \in Slot |-> Idle]
      /\ ghost = [merged |-> None, placed |-> None, refused |-> FALSE, run |-> -1,
                  overlapped |-> FALSE, cut |-> FALSE, unrecorded |-> 0]
  BY DEF Init
<1>2. \A s \in Slot : ~InChunk(s) /\ ~call[s].lost
  BY <1>1, IdleFits DEF InChunk
<1>3. Names = {} /\ ~Cleared(Idle)
  BY <1>1 DEF Names, Cleared
<1>4. Between
  BY <1>3 DEF Between, Filling
<1>5. MergedWhole
  BY <1>1 DEF MergedWhole
<1> QED
  BY <1>2, <1>4, <1>5 DEF ChunkInv, OneChunkCall

LEMMA ChunkStep == UploadInv /\ ChunkInv /\ [Next]_vars => ChunkInv'
<1> SUFFICES ASSUME UploadInv, ChunkInv, [Next]_vars PROVE ChunkInv'
  OBVIOUS
<1>1. FileInv /\ UNCHANGED fields
  BY FieldsStay DEF UploadInv
<1>2. CASE \E c \in Config : SaveConfig(c) \/ EditConfig(c) \/ DelConfig(c)
  <2>1. UNCHANGED <<dir, call, ghost>>
    BY <1>2 DEF SaveConfig, EditConfig, DelConfig, WriteConfig
  <2> QED
    BY <1>1, <2>1, ElsewhereKeeps
<1>3. CASE \E s \in Slot : UploadSimple(s) \/ UploadChunk(s)
  <2>1. 1 \in 1 .. NumChunks
    BY ChunksTyped
  <2> QED
    BY <1>1, <1>3, <2>1, RequestChunks DEF UploadSimple, UploadChunk
<1>4. CASE \E s \in Slot : Find(s) \/ UseClient(s) \/ StoreFile(s) \/ Reread(s) \/ Record(s)
  BY <1>1, <1>4, FindChunks, UseClientChunks, StoreFileChunks, SimpleChunks
<1>5. CASE \E s \in Slot : OpenChunk(s) \/ FinishChunk(s) \/ CountChunks(s) \/ ListChunks(s)
  BY <1>1, <1>5, OpenChunkChunks, FinishChunkChunks, CountChunksChunks, ListChunksChunks
<1>6. CASE \E s \in Slot : OpenMerged(s) \/ ReadChunk(s) \/ CloseMerged(s) \/ LoadMerged(s)
  BY <1>1, <1>6, OpenMergedChunks, ReadChunkChunks, CloseMergedChunks, LoadMergedChunks
<1>7. CASE \E s \in Slot : RemoveMerged(s) \/ RemoveDir(s) \/ CallFails(s)
  BY <1>1, <1>7, RemoveMergedChunks, RemoveDirChunks, CallFailsChunks
<1>8. CASE DelByIds
  BY <1>1, <1>8, ElsewhereKeeps DEF DelByIds
<1>9. CASE Restart
  BY <1>1, <1>9, RestartChunks
<1>10. CASE UNCHANGED vars
  BY <1>1, <1>10, ElsewhereKeeps DEF vars
<1> QED
  BY <1>2, <1>3, <1>4, <1>5, <1>6, <1>7, <1>8, <1>9, <1>10 DEF Next

-----------------------------------------------------------------------------
(* Chunks of callers that pass strings *)

\* Steps that leave the directory alone and open no chunk.
LEMMA TextStill ==
  ASSUME TextInv, fields = "text", UNCHANGED <<fields, dir>>, NEW s \in Slot,
         \A t \in Slot \ {s} : call'[t] = call[t],
         InChunk(s)' => call'[s].pc \in {"find", "client", "chunk"},
         \/ ghost'.run = ghost.run \/ ~(ghost'.run >= 0)
         \/ ghost'.run = 0 /\ \A t \in Slot \ {s} : ~InChunk(t)
  PROVE  TextInv'
<1>1. \A t \in Slot : InChunk(t)' => (InChunk(t) /\ call'[t] = call[t] /\ t # s)
                                     \/ call'[t].pc \in {"find", "client", "chunk"}
  BY DEF InChunk
<1>2. Unmerged'
  BY <1>1 DEF TextInv, Unmerged
<1>3. Names' = Names /\ dir' = dir
  BY DEF Names
<1>4. ASSUME ghost'.run >= 0, ghost'.run = ghost.run
      PROVE  Kept(ghost.run)' /\ \A t \in Slot : InChunk(t)' => Joining(call[t])'
  BY <1>1, <1>3, <1>4 DEF TextInv, Kept, Joining
<1>5. ASSUME ghost'.run = 0, \A t \in Slot \ {s} : ~InChunk(t)
      PROVE  Kept(ghost.run)' /\ \A t \in Slot : InChunk(t)' => Joining(call[t])'
  BY <1>1, <1>5 DEF Kept, Joining
<1> QED
  BY <1>2, <1>4, <1>5 DEF TextInv

\* Neither do the calls of uploadSimple, nor those that fail.
LEMMA TextCalls ==
  ASSUME FileInv, TextInv, fields = "text", UNCHANGED fields, NEW s \in Slot,
         \/ UploadSimple(s) \/ UploadChunk(s) \/ Find(s) \/ UseClient(s) \/ StoreFile(s)
         \/ Reread(s) \/ Record(s) \/ CallFails(s)
  PROVE  TextInv'
<1>1. /\ call[s] \in Calls /\ CallFits(call[s]) /\ ghost \in Ghosts /\ call \in [Slot -> Calls]
      /\ ghost.run \in -1 .. NumChunks /\ Idle.op = "none"
  BY ChunkTypes, IdleFits DEF FileInv, TypeOK
<1>2. CASE UploadSimple(s) \/ UploadChunk(s)
  <2>1. PICK op \in {"simple", "chunk"}, n \in 1 .. NumChunks : Request(s, op, n)
    BY <1>2, ChunksTyped DEF UploadSimple, UploadChunk
  <2> DEFINE e == [Idle EXCEPT !.op = op, !.pc = "find", !.n = n]
  <2>2. e.pc = "find" /\ call' = [call EXCEPT ![s] = e] /\ dir' = dir
    BY <2>1, IdleFits DEF Request, Idle
  <2> HIDE DEF e
  <2>3. /\ call'[s].pc = "find" /\ \A t \in Slot \ {s} : call'[t] = call[t]
    BY <1>1, <2>2
  <2>4. \/ ghost' = ghost \/ ghost' = [ghost EXCEPT !.run = -1, !.overlapped = TRUE]
        \/ ghost' = [ghost EXCEPT !.run = 0, !.merged = None] /\ \A t \in Slot : ~InChunk(t)
        \/ ghost' = [ghost EXCEPT !.run = ghost.run] \/ ghost' = [ghost EXCEPT !.run = -1]
    BY <1>1, <2>1 DEF Request
  <2>5. \/ ghost'.run = ghost.run \/ ghost'.run = -1
        \/ ghost'.run = 0 /\ \A t \in Slot \ {s} : ~InChunk(t)
    BY <1>1, <2>4 DEF Ghosts
  <2>6. \/ ghost'.run = ghost.run \/ ~(ghost'.run >= 0)
        \/ ghost'.run = 0 /\ \A t \in Slot \ {s} : ~InChunk(t)
    BY <2>5
  <2> QED
    BY <2>2, <2>3, <2>6, TextStill
<1>3. CASE Find(s)
  <2>1. /\ OwnStep(s, call'[s]) /\ UNCHANGED dir
        /\ \/ Fails(s) /\ call'[s] = Idle
           \/ UNCHANGED ghost /\ call'[s].pc = "client"
    BY <1>3, FindSteps
  <2>2. Fails(s) => ghost'.run = (IF InChunk(s) THEN -1 ELSE ghost.run)
    BY EndsSteps
  <2>3. ghost'.run = ghost.run \/ ~(ghost'.run >= 0)
    BY <2>1, <2>2
  <2>4. InChunk(s)' => call'[s].pc \in {"find", "client", "chunk"}
    BY <1>1, <2>1 DEF InChunk
  <2> QED
    BY <2>1, <2>3, <2>4, TextStill DEF OwnStep
<1>4. CASE UseClient(s)
  <2>1. /\ call[s].pc = "client" /\ OwnStep(s, call'[s]) /\ UNCHANGED dir
        /\ \/ call'[s] = Idle /\ ghost'.run = (IF InChunk(s) THEN -1 ELSE ghost.run)
           \/ UNCHANGED ghost /\ call'[s].pc = "chunk"
           \/ ~InChunk(s) /\ UNCHANGED ghost /\ call'[s].op = call[s].op
    BY <1>4, UseClientSteps
  <2>2. ghost'.run = ghost.run \/ ~(ghost'.run >= 0)
    BY <2>1
  <2>3. InChunk(s)' => call'[s].pc \in {"find", "client", "chunk"}
    BY <1>1, <2>1 DEF InChunk
  <2> QED
    BY <2>1, <2>2, <2>3, TextStill DEF OwnStep
<1>5. CASE StoreFile(s)
  <2>1. /\ call[s].pc = "store" /\ OwnStep(s, call'[s]) /\ ghost' = Stored(s) /\ dir' = dir
        /\ Continues(s, IF InChunk(s) THEN "tidy" ELSE "reread")
    BY <1>5, StoreFileSteps
  <2>2. ~InChunk(s)
    BY <2>1 DEF TextInv, Unmerged
  <2>3. ~InChunk(s)' /\ ghost'.run = ghost.run
    BY <2>1, <2>2, StoredFacts DEF InChunk, Continues
  <2> QED
    BY <2>1, <2>3, TextStill DEF OwnStep
<1>6. CASE Reread(s)
  <2>1. PICK c : call' = [call EXCEPT ![s].pc = "record", ![s].config = c]
    BY <1>6 DEF Reread
  <2>2. /\ call'[s] = [call[s] EXCEPT !.pc = "record", !.config = c]
        /\ \A t \in Slot \ {s} : call'[t] = call[t]
    BY <1>1, <2>1
  <2>3. call[s].op # "chunk" /\ dir' = dir /\ ghost' = ghost
    BY <1>1, <1>6 DEF Reread, CallFits, ChunkSteps
  <2>4. ~InChunk(s)'
    BY <1>1, <2>2, <2>3 DEF InChunk, Calls
  <2> QED
    BY <2>2, <2>3, <2>4, TextStill
<1>7. CASE Record(s)
  <2>1. call' = [call EXCEPT ![s] = Idle] /\ dir' = dir /\ ghost' = [ghost EXCEPT !.unrecorded = @ - 1]
    BY <1>7 DEF Record
  <2>2. ~InChunk(s)' /\ (\A t \in Slot \ {s} : call'[t] = call[t]) /\ ghost'.run = ghost.run
    BY <1>1, <2>1 DEF InChunk, Ghosts
  <2> QED
    BY <2>1, <2>2, TextStill
<1>8. CASE CallFails(s)
  <2>1. /\ OwnStep(s, Idle) /\ dir' = dir
        /\ ghost'.run = (IF InChunk(s) THEN -1 ELSE ghost.run)
    BY <1>8, CallFailsSteps
  <2>2. ghost'.run = ghost.run \/ ~(ghost'.run >= 0)
    BY <2>1
  <2>3. ~InChunk(s)' /\ \A t \in Slot \ {s} : call'[t] = call[t]
    BY <1>1, <2>1 DEF OwnStep, Step, InChunk
  <2> QED
    BY <2>1, <2>2, <2>3, TextStill
<1> QED
  BY <1>2, <1>3, <1>4, <1>5, <1>6, <1>7, <1>8

\* The next chunk of a run is the only one in progress.
LEMMA NextInRun ==
  ASSUME FileInv, ChunkInv, ghost.run >= 0, NEW s \in Slot, InChunk(s)
  PROVE  /\ call[s].n = ghost.run + 1 /\ ~call[s].lost
         /\ \A t \in Slot \ {s} : ~InChunk(t)
BY DEF ChunkInv, Orderly, Single, OneChunkCall

\* A chunk joins its forerunners: without a number nothing clears the directory.
LEMMA OpenChunkText ==
  ASSUME FileInv, ChunkInv, TextInv, fields = "text", UNCHANGED fields, NEW s \in Slot, OpenChunk(s)
  PROVE  TextInv'
<1> DEFINE c == call[s]
<1>1. /\ InChunk(s) /\ Step(s, call'[s]) /\ Continues(s, "write") /\ ghost' = ghost
      /\ Names' = IF Equals(1, c.n) THEN {1} ELSE Names \cup {c.n}
      /\ \A n \in Names' \ {c.n} : dir'[n] = dir[n]
  BY OpenChunkSteps
<1>2. Names' = Names \cup {c.n}
  BY <1>1 DEF Equals
<1>3. /\ call'[s].n = c.n /\ call'[s].pc = "write"
      /\ \A t \in Slot \ {s} : call'[t].op = call[t].op /\ call'[t].pc = call[t].pc
  BY <1>1 DEF Step, Alike, Continues
<1>4. Unmerged'
  BY <1>3 DEF TextInv, Unmerged, InChunk
<1>5. ASSUME ghost'.run >= 0
      PROVE  Kept(ghost.run)' /\ \A t \in Slot : InChunk(t)' => Joining(call[t])'
  <2>1. /\ c.n = ghost.run + 1 /\ ghost.run \in Int /\ Kept(ghost.run)
        /\ \A t \in Slot \ {s} : ~InChunk(t)
    BY <1>1, <1>5, NextInRun, ChunkTypes DEF TextInv
  <2>2. \A n \in 1 .. ghost.run : n # c.n
    BY <2>1
  <2>3. Kept(ghost.run)'
    BY <1>1, <1>2, <2>1, <2>2 DEF Kept
  <2>4. \A t \in Slot : InChunk(t)' => t = s
    BY <1>3, <2>1 DEF InChunk
  <2> QED
    BY <1>2, <1>3, <2>3, <2>4 DEF Joining
<1> QED
  BY <1>4, <1>5 DEF TextInv

\* The chunk is filled, and acknowledged unless it is the last.
LEMMA FinishChunkText ==
  ASSUME FileInv, ChunkInv, TextInv, fields = "text", UNCHANGED fields, NEW s \in Slot, FinishChunk(s)
  PROVE  TextInv'
<1> DEFINE c == call[s]
<1>1. /\ c.pc = "write" /\ InChunk(s) /\ OwnStep(s, call'[s]) /\ Names' = Names
      /\ \A n \in Names \ {c.n} : dir'[n] = dir[n]
      /\ ~c.lost /\ c.n \in Names => dir'[c.n] = <<c.n>>
      /\ IF c.n # NumChunks THEN Returns(s) /\ call'[s] = Idle
         ELSE UNCHANGED ghost /\ Continues(s, "count") /\ ~call'[s].lost
  BY FinishChunkSteps
<1>2. \A t \in Slot \ {s} : call'[t] = call[t]
  BY <1>1 DEF OwnStep
<1>3. \/ ~InChunk(s)' /\ ghost'.run = IF ghost.run = c.n - 1 THEN ghost.run + 1 ELSE ghost.run
      \/ ghost'.run = ghost.run /\ call'[s].n = c.n /\ call'[s].pc = "count"
  BY <1>1, EndsSteps, IdleFits DEF InChunk, Continues
<1>4. Unmerged'
  BY <1>2, <1>3 DEF TextInv, Unmerged, InChunk
<1>5. c.n \in 1 .. NumChunks /\ ghost.run \in -1 .. NumChunks /\ NumChunks \in Nat
  BY ChunkTypes, ChunksTyped
<1>6. ASSUME ghost'.run >= 0
      PROVE  Kept(ghost.run)' /\ \A t \in Slot : InChunk(t)' => Joining(call[t])'
  <2>1. ghost.run >= 0
    BY <1>3, <1>5, <1>6
  <2>2. /\ c.n = ghost.run + 1 /\ ~c.lost /\ Kept(ghost.run) /\ c.n \in Names
        /\ \A t \in Slot \ {s} : ~InChunk(t)
    BY <1>1, <2>1, NextInRun DEF TextInv, Joining
  <2>3. \A n \in 1 .. ghost.run + 1 : n \in Names' /\ dir'[n] = <<n>>
    <3>1. \A n \in 1 .. ghost.run + 1 : n \in 1 .. ghost.run \/ n = c.n
      BY <1>5, <2>2
    <3>2. \A n \in 1 .. ghost.run : n \in Names /\ dir[n] = <<n>> /\ n # c.n
      BY <1>5, <2>2 DEF Kept
    <3> QED
      BY <1>1, <2>2, <3>1, <3>2
  <2>4. ghost'.run \in {ghost.run, ghost.run + 1} /\ \A n \in 1 .. ghost'.run : n \in 1 .. ghost.run + 1
    BY <1>3, <1>5
  <2>5. Kept(ghost.run)'
    BY <2>3, <2>4 DEF Kept
  <2>6. \A t \in Slot : InChunk(t)' => t = s /\ call'[s].n = c.n
    BY <1>2, <1>3, <2>2 DEF InChunk
  <2>7. c.n \in Names' /\ dir'[c.n] = <<c.n>>
    BY <1>1, <2>2
  <2> QED
    BY <2>5, <2>6, <2>7 DEF Joining
<1> QED
  BY <1>4, <1>6 DEF TextInv

\* The names are counted: no count equals a string, and the call returns.
LEMMA CountChunksText ==
  ASSUME FileInv, ChunkInv, TextInv, fields = "text", UNCHANGED fields, NEW s \in Slot, CountChunks(s)
  PROVE  TextInv'
<1> DEFINE c == call[s]
<1>1. /\ c.pc = "count" /\ InChunk(s) /\ OwnStep(s, call'[s]) /\ dir' = dir
      /\ Fails(s) \/ (Returns(s) /\ call'[s] = Idle)
  BY CountChunksSteps DEF Equals
<1>2. OwnStep(s, Idle) /\ Names' = Names
  BY <1>1, EndsSteps DEF Names
<1>3. ~InChunk(s)' /\ \A t \in Slot \ {s} : call'[t] = call[t]
  BY <1>2, IdleFits DEF OwnStep, Step, InChunk
<1>4. ghost'.run \in {-1, IF ghost.run = c.n - 1 THEN ghost.run + 1 ELSE ghost.run}
  BY <1>1, EndsSteps
<1>5. Unmerged'
  BY <1>3 DEF TextInv, Unmerged, InChunk
<1>6. c.n \in 1 .. NumChunks /\ ghost.run \in -1 .. NumChunks /\ NumChunks \in Nat
  BY ChunkTypes, ChunksTyped
<1>7. ASSUME ghost'.run >= 0
      PROVE  Kept(ghost.run)' /\ \A t \in Slot : ~InChunk(t)'
  <2>1. ghost.run >= 0
    BY <1>4, <1>6, <1>7
  <2>2. /\ c.n = ghost.run + 1 /\ Kept(ghost.run) /\ c.n \in Names /\ dir[c.n] = <<c.n>>
        /\ \A t \in Slot \ {s} : ~InChunk(t)
    BY <1>1, <2>1, NextInRun DEF TextInv, Joining
  <2>3. \A n \in 1 .. ghost'.run : n \in 1 .. ghost.run \/ n = c.n
    BY <1>4, <1>6, <2>2
  <2>4. Kept(ghost.run)'
    BY <1>1, <1>2, <2>2, <2>3 DEF Kept
  <2> QED
    BY <1>3, <2>2, <2>4 DEF InChunk
<1> QED
  BY <1>5, <1>7 DEF TextInv

LEMMA TextStep == UploadInv /\ ChunkInv /\ TextInv /\ [Next]_vars => TextInv'
<1> SUFFICES ASSUME FileInv, ChunkInv, TextInv, [Next]_vars, fields = "text" PROVE TextInv'
  BY FieldsStay DEF UploadInv, TextInv
<1>1. UNCHANGED fields
  BY FieldsStay
<1>2. CASE \E s \in Slot : \/ UploadSimple(s) \/ UploadChunk(s) \/ Find(s) \/ UseClient(s)
                           \/ StoreFile(s) \/ Reread(s) \/ Record(s) \/ CallFails(s)
  BY <1>1, <1>2, TextCalls
<1>3. CASE \E s \in Slot : OpenChunk(s) \/ FinishChunk(s) \/ CountChunks(s)
  BY <1>1, <1>3, OpenChunkText, FinishChunkText, CountChunksText
<1>4. ~\E s \in Slot : \/ ListChunks(s) \/ OpenMerged(s) \/ ReadChunk(s) \/ CloseMerged(s)
                       \/ LoadMerged(s) \/ RemoveMerged(s) \/ RemoveDir(s)
  <2> SUFFICES ASSUME NEW s \in Slot, call[s].pc \in {"list", "merge", "load", "tidy", "remove"}
               PROVE  FALSE
    BY DEF ListChunks, OpenMerged, ReadChunk, CloseMerged, LoadMerged, RemoveMerged, RemoveDir
  <2>1. InChunk(s)
    BY ChunkTypes DEF CallFits, ChunkSteps
  <2> QED
    BY <2>1 DEF TextInv, Unmerged
<1>5. CASE UNCHANGED <<dir, call, ghost>>
  <2>1. dir' = dir /\ call' = call /\ ghost' = ghost /\ Names' = Names
    BY <1>5 DEF Names
  <2> QED
    BY <1>1, <2>1 DEF TextInv, Unmerged, Kept, Joining, InChunk
<1>6. CASE \/ DelByIds \/ UNCHANGED vars
           \/ \E c \in Config : SaveConfig(c) \/ EditConfig(c) \/ DelConfig(c)
  BY <1>5, <1>6 DEF DelByIds, vars, SaveConfig, EditConfig, DelConfig, WriteConfig
<1>7. CASE Restart
  <2>1. ghost'.run = -1 /\ \A s \in Slot : call'[s] = Idle
    BY <1>7, RestartSteps
  <2>2. \A s \in Slot : ~InChunk(s)'
    BY <2>1, IdleFits DEF InChunk
  <2> QED
    BY <2>1, <2>2 DEF TextInv, Unmerged
<1> QED
  BY <1>2, <1>3, <1>4, <1>6, <1>7 DEF Next

LEMMA TextInit == Init => TextInv
<1> SUFFICES ASSUME Init PROVE TextInv
  OBVIOUS
<1>1. ghost.run = -1 /\ \A s \in Slot : call[s] = Idle
  BY DEF Init
<1>2. \A s \in Slot : ~InChunk(s)
  BY <1>1, IdleFits DEF InChunk
<1> QED
  BY <1>1, <1>2 DEF TextInv, Unmerged

-----------------------------------------------------------------------------

\* In every reachable state the chunk directory is what the one chunk call, or the last
\* one, has made of it, as long as chunk calls did not overlap and none was cut short, and
\* in any case since the chunk 1 with which the run of acknowledged chunks began.
THEOREM ChunkInvariant == Spec => []ChunkInv
<1>1. Init => ChunkInv
  BY ChunkInit
<1>2. UploadInv /\ ChunkInv /\ [Next]_vars => ChunkInv'
  BY ChunkStep
<1> QED
  BY <1>1, <1>2, UploadInvariant, PTL DEF Spec

\* In whatever order chunks come, repeated or after failed merges, a merge stores nothing
\* but the whole file, unless chunk calls overlapped, the writing of a chunk was cut short,
\* or the file has the name of a chunk.
THEOREM MergesWhole == Spec => []MergedWhole
<1>1. ChunkInv => MergedWhole
  BY DEF ChunkInv
<1> QED
  BY <1>1, ChunkInvariant, PTL

\* For a caller that passes strings no merge ever starts, and the chunks of a run of
\* acknowledged ones are there, with the one in progress.
THEOREM TextInvariant == Spec => []TextInv
<1>1. UploadInv /\ ChunkInv /\ TextInv /\ [Next]_vars => TextInv'
  BY TextStep
<1> QED
  BY <1>1, TextInit, UploadInvariant, ChunkInvariant, PTL DEF Spec

\* The chunks acknowledged one after the other, from the first on, are in the directory
\* with their content, whatever earlier attempts, failed merges and restarts have left
\* there, until the last of them has stored the whole file, as it does for a caller that
\* passes numbers.
THEOREM OrderlyUploadsKept == Spec => []OrderlyUploadKept
<1>1. UploadInv /\ ChunkInv /\ TextInv => OrderlyUploadKept
  <2> SUFFICES ASSUME FileInv, ChunkInv, TextInv, FileName = NumChunks + 1
               PROVE  IF fields = "number" /\ ghost.run = NumChunks THEN ghost.merged = Whole
                      ELSE Kept(ghost.run)
    BY DEF UploadInv, OrderlyUploadKept, Kept
  <2>1. /\ NumChunks \in Nat /\ NumChunks >= 1 /\ ghost.run \in -1 .. NumChunks
        /\ fields \in {"number", "text"}
    BY ChunksTyped DEF FileInv, TypeOK, Ghosts, Fields
  <2>2. CASE ghost.run < 1
    BY <2>1, <2>2 DEF Kept
  <2>3. CASE fields = "text"
    BY <2>1, <2>2, <2>3 DEF TextInv
  <2>4. CASE fields = "number" /\ ghost.run >= 1
    <3>1. Orderly /\ (\A c : Cleared(c) /\ Neat(c))
      BY <2>1, <2>4 DEF Orderly, Cleared, Neat
    <3>2. CASE \E s \in Slot : InChunk(s)
      <4>1. PICK s \in Slot : InChunk(s)
        BY <3>2
      <4>2. /\ call[s].n = ghost.run + 1 /\ 1 .. ghost.run \subseteq Names /\ Filling(call[s])
            /\ call[s].n \in 1 .. NumChunks
        BY <2>1, <2>4, <3>1, <4>1, NextInRun, ChunkTypes DEF ChunkInv, Single, Running
      <4>3. \A n \in 1 .. ghost.run : n \in Names \ {FileName} /\ n # call[s].n
        BY <2>1, <4>2
      <4>4. Kept(ghost.run) /\ ghost.run # NumChunks
        BY <2>1, <4>2, <4>3 DEF Kept, Filling
      <4> QED
        BY <4>4
    <3>3. CASE \A s \in Slot : ~InChunk(s)
      <4>1. /\ Filling(Idle)
            /\ IF ghost.run = NumChunks THEN ghost.merged = Whole ELSE Names = 1 .. ghost.run
        BY <3>1, <3>3 DEF ChunkInv, Between
      <4>2. \A n \in 1 .. ghost.run : n # FileName
        BY <2>1
      <4>3. ghost.run # NumChunks => Kept(ghost.run)
        BY <4>1, <4>2, IdleFits DEF Kept, Filling
      <4> QED
        BY <2>4, <4>1, <4>3
    <3> QED
      BY <3>2, <3>3
  <2> QED
    BY <2>1, <2>2, <2>3, <2>4
<1> QED
  BY <1>1, UploadInvariant, ChunkInvariant, TextInvariant, PTL

=============================================================================
