----------------------------- MODULE FileStore -----------------------------
(***************************************************************************)
(* Uploads: the rows of sys_file_config, the clients FileService caches for *)
(* them in its process, the chunk directory of one identifier on its disk,  *)
(* and the calls of SysFileService that use them, from await to await.      *)
(*                                                                          *)
(* The content of a file is the sequence of the chunks it is made of.  In   *)
(* the directory chunk n has the name n; the merged file has a name of its  *)
(* own, NumChunks + 1, or that of a chunk ("2.png" is the name of chunk 2). *)
(***************************************************************************)
EXTENDS Integers, Sequences, FiniteSets, TLC, SequencesExt

CONSTANTS
  Slot,       \* concurrent calls of the process
  Config,     \* ids of rows of sys_file_config
  First,      \* the one that is there to begin with
  Content,    \* contents of their column config
  LocalContent, UsableContent,  \* those for type FILE, and those doInit accepts
  NumChunks,  \* total chunks of the upload
  FileName,   \* the name of the merged file
  MaxCalls, MaxEdits, MaxFaults,  \* bounds; a restart counts as a fault
  None

ASSUME ChunkAssumption == NumChunks \in Nat \ {0} /\ FileName \in 1 .. NumChunks + 1
ASSUME ContentAssumption == First \in Config /\ LocalContent \cup UsableContent \subseteq Content
ASSUME BoundAssumption == {MaxCalls, MaxEdits, MaxFaults} \subseteq Nat /\ IsFiniteSet(Slot)

VARIABLES
  config,     \* sys_file_config
  clients,    \* fileServiceMap
  dir,        \* the chunk directory, name |-> content, or None
  call,       \* the calls in progress
  fileRows,   \* sys_file
  fields,     \* what the numbers of a request for a chunk are
  ghost,      \* what the properties look back at
  spent       \* calls, edits and faults so far

vars == <<config, clients, dir, call, fileRows, fields, ghost, spent>>

-----------------------------------------------------------------------------

Name == 1 .. NumChunks + 1
Whole == [n \in 1 .. NumChunks |-> n]

KindOf(content) == IF content \in LocalContent THEN "FILE" ELSE "MINIO"

\* A row of sys_file_config; "deleted" is soft-deleted.
Configs == [state : {"none", "live", "deleted"}, default : BOOLEAN, content : Content]

\* A client keeps the configuration it was given last and, in uploadDir or
\* endpoint, what its last successful doInit made of one.
Clients == [kind : {"FILE", "MINIO"}, config : Content, at : UsableContent \cup {None}]

\* A row of sys_file: the configuration whose client stored the file, the one
\* the row names, and whether it is live.
FileRows == [code : Config, config : Config \cup {None}, live : BOOLEAN]

ASSUME NoneAssumption ==
  /\ None \notin Config \cup Content \cup Clients
  /\ \A names \in SUBSET Name : None \notin [names -> Seq(Name)]

\* want is the configuration a call has read, at the place its client stores to,
\* config what it will put into the row; todo are the chunks a merge has still to read.
Calls ==
  [op : {"none", "simple", "chunk"}, n : 1 .. NumChunks,
   code : Config \cup {None}, config : Config \cup {None},
   pc : {"idle", "find", "client", "store", "reread", "record", "chunk", "write",
         "count", "list", "merge", "load", "tidy", "remove"},
   want : Content \cup {None}, at : UsableContent \cup {None},
   todo : SUBSET Name, data : Seq(Name), opened : BOOLEAN, lost : BOOLEAN]

Idle == [op |-> "none", n |-> 1, code |-> None, config |-> None, pc |-> "idle",
         want |-> None, at |-> None, todo |-> {}, data |-> <<>>, opened |-> FALSE, lost |-> FALSE]

InChunk(s) == call[s].op = "chunk"

\* chunkNumber and totalChunks are declared numbers; the fields of a form, which the
\* controller hands on as they come, are strings.
Fields == {"number", "text"}

\* number === field: never, if the field is a string.
Equals(number, field) == fields = "number" /\ number = field

\* merged: what a merge has stored since chunk 1 was last requested alone;
\* placed: where uploadSimple last stored a file, and where it had read to store it;
\* refused: a client of this process once refused a new configuration;
\* run: the chunks 1 .. run were acknowledged one after the other, -1 if not so;
\* overlapped: two chunk calls were once in progress together;
\* cut: the writing of a chunk was once cut short;
\* unrecorded: the files stored by uploadSimple that have got no row.
Ghosts == [merged : Seq(Name) \cup {None}, placed : [at : Content, want : Content] \cup {None},
           refused : BOOLEAN, run : -1 .. NumChunks, overlapped : BOOLEAN, cut : BOOLEAN,
           unrecorded : Int]

Init ==
  /\ \E content \in UsableContent :
       config = [c \in Config |-> [state |-> IF c = First THEN "live" ELSE "none",
                                   default |-> TRUE, content |-> content]]
  /\ clients = [c \in Config |-> None]
  /\ dir = None
  /\ call = [s \in Slot |-> Idle]
  /\ fileRows = {}
  /\ fields \in Fields
  /\ ghost = [merged |-> None, placed |-> None, refused |-> FALSE, run |-> -1,
              overlapped |-> FALSE, cut |-> FALSE, unrecorded |-> 0]
  /\ spent = [calls |-> 0, edits |-> 0, faults |-> 0]

Spend(what, max) == spent[what] < max /\ spent' = [spent EXCEPT ![what] = @ + 1]

-----------------------------------------------------------------------------
(* Configurations *)

\* The unique index on type, which does not look at deleted.
TypeFree(c, content) ==
  \A d \in Config \ {c} :
    config[d].state # "none" => KindOf(config[d].content) # KindOf(content)

WriteConfig(c, state, default, content) ==
  /\ Spend("edits", MaxEdits)
  /\ TypeFree(c, content)
  /\ config' = [config EXCEPT ![c] =
                 [state |-> state, default |-> default, content |-> content]]
  /\ UNCHANGED <<clients, dir, call, fileRows, ghost, fields>>

\* Nothing takes the default from another configuration.
SaveConfig(c) ==
  /\ config[c].state = "none"
  /\ \E default \in BOOLEAN, content \in Content : WriteConfig(c, "live", default, content)

\* The type may change with the content; a deleted row is updated, too.
EditConfig(c) ==
  /\ config[c].state # "none"
  /\ \E default \in BOOLEAN, content \in Content :
       WriteConfig(c, config[c].state, default, content)

DelConfig(c) ==
  /\ config[c].state = "live"
  /\ WriteConfig(c, "deleted", config[c].default, config[c].content)

Live(c) == config[c].state = "live"

\* Mutant: the default, whatever the code.
GetConfigDefault(code) == {c \in Config : Live(c) /\ config[c].default}

\* What findOne may return for a code; without one, or if its row is gone, any default.
GetConfigByCodeOrDefault(code) ==
  {c \in Config : Live(c) /\ IF code # None /\ Live(code) THEN c = code
                             ELSE config[c].default}

-----------------------------------------------------------------------------
(* Clients *)

\* Mutant: any directory will do.
LocalDoInitAny(content) == content \in LocalContent

LocalDoInit(content) == content \in LocalContent \cap UsableContent
MinioDoInit(content) == content \in UsableContent \ LocalContent

DoInit(kind, content) == IF kind = "FILE" THEN LocalDoInit(content) ELSE MinioDoInit(content)

\* Mutant: the client takes the new configuration without initialising again.
RefreshConfigOnly(client, content) == [client EXCEPT !.config = content]

\* The new configuration is kept even if doInit then throws.
RefreshConfig(client, content) ==
  IF client.config = content \/ ~DoInit(client.kind, content)
  THEN [client EXCEPT !.config = content]
  ELSE [client EXCEPT !.config = content, !.at = content]

RefreshThrows(client, content) ==
  client # None /\ client.config # content /\ ~DoInit(client.kind, content)

\* A cached client keeps its kind when the type of its configuration changes.
GetFileService(client, content) ==
  IF client = None THEN [kind |-> KindOf(content), config |-> content, at |-> None]
  ELSE RefreshConfig(client, content)

\* How uploadSingle begins; at stays None if doInit throws.
EnsureInit(client) ==
  IF client.at = None /\ DoInit(client.kind, client.config)
  THEN [client EXCEPT !.at = client.config]
  ELSE client

-----------------------------------------------------------------------------
(* Calls *)

Request(s, op, n) ==
  LET alone == \A t \in Slot : ~InChunk(t) IN
  /\ call[s] = Idle
  /\ Spend("calls", MaxCalls)
  /\ call' = [call EXCEPT ![s] = [Idle EXCEPT !.op = op, !.pc = "find", !.n = n]]
  /\ ghost' = IF op = "simple" THEN ghost
              ELSE IF ~alone THEN [ghost EXCEPT !.run = -1, !.overlapped = TRUE]
              ELSE IF n = 1 THEN [ghost EXCEPT !.run = 0, !.merged = None]
              ELSE [ghost EXCEPT !.run = IF n = @ + 1 THEN @ ELSE -1]
  /\ UNCHANGED <<config, clients, dir, fileRows, fields>>

UploadSimple(s) == Request(s, "simple", 1)
UploadChunk(s) == \E n \in 1 .. NumChunks : Request(s, "chunk", n)

\* The call goes on at pc.
Goes(s, pc) == call' = [call EXCEPT ![s].pc = pc] /\ UNCHANGED ghost

Fails(s) ==
  /\ call' = [call EXCEPT ![s] = Idle]
  /\ ghost' = IF InChunk(s) THEN [ghost EXCEPT !.run = -1] ELSE ghost

Returns(s) ==
  /\ call' = [call EXCEPT ![s] = Idle]
  /\ ghost' = IF InChunk(s) /\ ghost.run = call[s].n - 1
              THEN [ghost EXCEPT !.run = @ + 1] ELSE ghost

\* getFileService waits for the configuration.
Find(s) ==
  LET found == GetConfigByCodeOrDefault(None) IN
  /\ call[s].pc = "find"
  /\ \/ found = {} /\ Fails(s)
     \/ \E c \in found :
          /\ call' = [call EXCEPT ![s].pc = "client", ![s].code = c,
                                  ![s].want = config[c].content]
          /\ UNCHANGED ghost
  /\ UNCHANGED <<config, clients, dir, fileRows, spent, fields>>

\* uploadSingle up to its first await.
BeginUpload(s, client, data) ==
  LET ready == EnsureInit(client) IN
  /\ clients' = [clients EXCEPT ![call[s].code] = ready]
  /\ \/ ready.at = None /\ Fails(s)
     \/ /\ ready.at # None
        /\ call' = [call EXCEPT ![s].pc = "store", ![s].at = ready.at, ![s].data = data]
        /\ UNCHANGED ghost

\* The configuration is there: the client is created or refreshed, and used.
UseClient(s) ==
  LET c == call[s].code
      client == GetFileService(clients[c], call[s].want)
      throws == RefreshThrows(clients[c], call[s].want)
  IN
  /\ call[s].pc = "client"
  /\ \/ /\ throws
        /\ clients' = [clients EXCEPT ![c] = client]
        /\ call' = [call EXCEPT ![s] = Idle]
        /\ ghost' = [ghost EXCEPT !.refused = TRUE, !.run = IF InChunk(s) THEN -1 ELSE @]
     \/ /\ ~throws /\ InChunk(s)
        /\ clients' = [clients EXCEPT ![c] = client]
        /\ call' = [call EXCEPT ![s].pc = "chunk", ![s].want = None]
        /\ UNCHANGED ghost
     \/ /\ ~throws /\ ~InChunk(s)
        /\ BeginUpload(s, client, <<>>)
  /\ UNCHANGED <<config, dir, fileRows, spent, fields>>

\* What storing the file of a call adds to the history.
Stored(s) ==
  IF InChunk(s) THEN [ghost EXCEPT !.merged = call[s].data]
  ELSE [ghost EXCEPT !.placed = [at |-> call[s].at, want |-> call[s].want],
                     !.unrecorded = @ + 1]

\* The file is written under uploadDir, or put into the bucket.
StoreFile(s) ==
  /\ call[s].pc = "store"
  /\ call' = [call EXCEPT ![s].pc = IF InChunk(s) THEN "tidy" ELSE "reread",
                          ![s].at = None, ![s].want = None, ![s].data = <<>>]
  /\ ghost' = Stored(s)
  /\ UNCHANGED <<config, clients, dir, fileRows, spent, fields>>

\* uploadSimple reads the configuration again, by the code of the client.
Reread(s) ==
  LET found == GetConfigByCodeOrDefault(call[s].code) IN
  /\ call[s].pc = "reread"
  /\ \E c \in IF found = {} THEN {None} ELSE found :
       call' = [call EXCEPT ![s].pc = "record", ![s].config = c]
  /\ UNCHANGED <<config, clients, dir, fileRows, ghost, spent, fields>>

\* Mutant: the call returns without the row.
RecordNothing(s) ==
  /\ call[s].pc = "record"
  /\ Returns(s)
  /\ UNCHANGED <<config, clients, dir, fileRows, spent, fields>>

Record(s) ==
  /\ call[s].pc = "record"
  /\ fileRows' = fileRows \cup
       {[code |-> call[s].code, config |-> call[s].config, live |-> TRUE]}
  /\ call' = [call EXCEPT ![s] = Idle]
  /\ ghost' = [ghost EXCEPT !.unrecorded = @ - 1]
  /\ UNCHANGED <<config, clients, dir, spent, fields>>

\* SysFileService.delByIds marks rows deleted; the stored file stays.
DelByIds ==
  /\ \E r \in fileRows :
       r.live /\ fileRows' = (fileRows \ {r}) \cup {[r EXCEPT !.live = FALSE]}
  /\ UNCHANGED <<config, clients, dir, call, ghost, spent, fields>>

-----------------------------------------------------------------------------
(* Chunks *)

Names == IF dir = None THEN {} ELSE DOMAIN dir

\* Removing the directory leaves streams into it without a file.
Orphaned ==
  [t \in Slot |-> IF call[t].pc = "write" \/ call[t].opened
                  THEN [call[t] EXCEPT !.lost = TRUE] ELSE call[t]]

\* A file of this name is created, or emptied.
WithFile(name, files) ==
  [n \in DOMAIN files \cup {name} |-> IF n = name THEN <<>> ELSE files[n]]

\* Mutant: the first chunk keeps what is there.
OpenChunkKeeping(s) ==
  /\ call[s].pc = "chunk"
  /\ dir' = WithFile(call[s].n, IF dir = None THEN <<>> ELSE dir)
  /\ call' = [call EXCEPT ![s].pc = "write", ![s].lost = FALSE]
  /\ UNCHANGED <<config, clients, fileRows, ghost, spent, fields>>

\* uploadChunk up to the opening of the stream: a chunk with the number 1 clears the
\* directory.
OpenChunk(s) ==
  LET clears == Equals(1, call[s].n) /\ dir # None IN
  /\ call[s].pc = "chunk"
  /\ dir' = WithFile(call[s].n, IF clears \/ dir = None THEN <<>> ELSE dir)
  /\ call' = [(IF clears THEN Orphaned ELSE call) EXCEPT ![s].pc = "write", ![s].lost = FALSE]
  /\ UNCHANGED <<config, clients, fileRows, ghost, spent, fields>>

\* A stream that finishes fills its file, if that still has a name.
Filled(s, name, data) ==
  IF call[s].lost \/ name \notin Names THEN dir ELSE [dir EXCEPT ![name] = data]

\* The stream finished.  Only the last chunk looks further: that its number is the
\* total, numbers and strings tell alike.
FinishChunk(s) ==
  /\ call[s].pc = "write"
  /\ dir' = Filled(s, call[s].n, <<call[s].n>>)
  /\ \/ call[s].n # NumChunks /\ Returns(s)
     \/ /\ call[s].n = NumChunks
        /\ call' = [call EXCEPT ![s].pc = "count", ![s].lost = FALSE]
        /\ UNCHANGED ghost
  /\ UNCHANGED <<config, clients, fileRows, spent, fields>>

\* Mutant: whatever the number of files.
CountChunksNot(s) ==
  /\ call[s].pc = "count"
  /\ Goes(s, "list")
  /\ UNCHANGED <<config, clients, dir, fileRows, spent, fields>>

\* readdir counts the names, whatever they are and whether or not they are filled; the
\* count is compared with the field.
CountChunks(s) ==
  /\ call[s].pc = "count"
  /\ IF dir = None THEN Fails(s)
     ELSE IF Equals(Cardinality(Names), NumChunks) THEN Goes(s, "list") ELSE Returns(s)
  /\ UNCHANGED <<config, clients, dir, fileRows, spent, fields>>

\* mergeChunks lists the directory again.
ListChunks(s) ==
  /\ call[s].pc = "list"
  /\ \/ dir = None /\ Fails(s)
     \/ /\ dir # None
        /\ call' = [call EXCEPT ![s].pc = "merge", ![s].todo = Names, ![s].data = <<>>]
        /\ UNCHANGED ghost
  /\ UNCHANGED <<config, clients, dir, fileRows, spent, fields>>

\* The merged file is created, or emptied, while the first name may be being read.
OpenMerged(s) ==
  /\ call[s].pc = "merge" /\ ~call[s].opened
  /\ \/ dir = None /\ Fails(s) /\ UNCHANGED dir
     \/ /\ dir # None
        /\ dir' = WithFile(FileName, dir)
        /\ call' = [call EXCEPT ![s].opened = TRUE, ![s].lost = FALSE]
        /\ UNCHANGED ghost
  /\ UNCHANGED <<config, clients, fileRows, spent, fields>>

\* The names are read in the order of their numbers.
ReadChunk(s) ==
  /\ call[s].pc = "merge"
  /\ call[s].opened \/ Cardinality(call[s].todo) = NumChunks
  /\ \E n \in call[s].todo :
       /\ \A m \in call[s].todo : n <= m
       /\ \/ n \notin Names /\ Fails(s)
          \/ /\ n \in Names
             /\ call' = [call EXCEPT ![s].todo = @ \ {n}, ![s].data = @ \o dir[n]]
             /\ UNCHANGED ghost
  /\ UNCHANGED <<config, clients, dir, fileRows, spent, fields>>

CloseMerged(s) ==
  /\ call[s].pc = "merge" /\ call[s].opened /\ call[s].todo = {}
  /\ dir' = Filled(s, FileName, call[s].data)
  /\ call' = [call EXCEPT ![s].pc = "load", ![s].data = <<>>,
                          ![s].opened = FALSE, ![s].lost = FALSE]
  /\ UNCHANGED ghost
  /\ UNCHANGED <<config, clients, fileRows, spent, fields>>

\* The merged file is read back and given to uploadSingle of the same client,
\* which other calls may have refreshed since.
LoadMerged(s) ==
  /\ call[s].pc = "load"
  /\ \/ FileName \notin Names /\ Fails(s) /\ UNCHANGED clients
     \/ /\ FileName \in Names
        /\ BeginUpload(s, clients[call[s].code], dir[FileName])
  /\ UNCHANGED <<config, dir, fileRows, spent, fields>>

RemoveMerged(s) ==
  /\ call[s].pc = "tidy"
  /\ dir' = IF dir = None THEN None ELSE Restrict(dir, Names \ {FileName})
  /\ Goes(s, "remove")
  /\ UNCHANGED <<config, clients, fileRows, spent, fields>>

RemoveDir(s) ==
  /\ call[s].pc = "remove"
  /\ dir' = None
  /\ call' = [Orphaned EXCEPT ![s] = Idle]
  /\ ghost' = IF ghost.run = call[s].n - 1 THEN [ghost EXCEPT !.run = @ + 1] ELSE ghost
  /\ UNCHANGED <<config, clients, fileRows, spent, fields>>

-----------------------------------------------------------------------------

\* What the call waits for fails; a request to the store may have had its effect.
CallFails(s) ==
  /\ call[s].pc \notin {"idle", "client", "chunk"}
  /\ Spend("faults", MaxFaults)
  /\ call' = [call EXCEPT ![s] = Idle]
  /\ \E g \in {ghost} \cup (IF call[s].pc = "store" THEN {Stored(s)} ELSE {}) :
       ghost' = [g EXCEPT !.run = IF InChunk(s) THEN -1 ELSE @,
                          !.cut = @ \/ call[s].pc = "write"]
  /\ UNCHANGED <<config, clients, dir, fileRows, fields>>

\* The process dies and comes back; its disk stays.
Restart ==
  /\ Spend("faults", MaxFaults)
  /\ clients' = [c \in Config |-> None]
  /\ call' = [s \in Slot |-> Idle]
  /\ ghost' = [ghost EXCEPT !.refused = FALSE, !.placed = None, !.run = -1,
                            !.cut = @ \/ \E s \in Slot : call[s].pc = "write"]
  /\ UNCHANGED <<config, dir, fileRows, fields>>

Next ==
  \/ \E c \in Config : SaveConfig(c) \/ EditConfig(c) \/ DelConfig(c)
  \/ \E s \in Slot :
       \/ UploadSimple(s) \/ UploadChunk(s)
       \/ Find(s) \/ UseClient(s) \/ StoreFile(s) \/ Reread(s) \/ Record(s)
       \/ OpenChunk(s) \/ FinishChunk(s) \/ CountChunks(s) \/ ListChunks(s)
       \/ OpenMerged(s) \/ ReadChunk(s) \/ CloseMerged(s) \/ LoadMerged(s)
       \/ RemoveMerged(s) \/ RemoveDir(s)
       \/ CallFails(s)
  \/ DelByIds
  \/ Restart

Spec == Init /\ [][Next]_vars

-----------------------------------------------------------------------------
(* Properties *)

\* Every variable holds a value the code can store in it.
TypeOK ==
  /\ config \in [Config -> Configs]
  /\ clients \in [Config -> Clients \cup {None}]
  /\ dir = None \/ \E names \in SUBSET Name : dir \in [names -> Seq(Name)]
  /\ call \in [Slot -> Calls]
  /\ fileRows \subseteq FileRows
  /\ fields \in Fields
  /\ ghost \in Ghosts
  /\ spent \in [calls : 0 .. MaxCalls, edits : 0 .. MaxEdits, faults : 0 .. MaxFaults]

\* The comment of uploadChunk: an upload that sends its chunks one after the other,
\* each acknowledged, has stored the whole file when the last one is.
OrderlyUploadStored ==
  ghost.run = NumChunks /\ FileName = NumChunks + 1 => ghost.merged = Whole

\* What the code makes of it, whatever earlier attempts, failed merges and restarts
\* have left in the directory: the chunks that were acknowledged one after the other
\* are there with their content, until the last of them has stored the whole file;
\* that one stores it only for a caller that passes numbers.
OrderlyUploadKept ==
  FileName = NumChunks + 1 =>
    IF fields = "number" /\ ghost.run = NumChunks THEN ghost.merged = Whole
    ELSE \A n \in 1 .. ghost.run : n \in Names /\ dir[n] = <<n>>

\* In whatever order chunks come, repeated or after failed merges, a merge stores
\* nothing but the whole file, unless chunk calls overlapped, the writing of a
\* chunk was cut short, or the file has the name of a chunk.
MergedWhole ==
  ghost.merged \notin {None, Whole}
    => ghost.overlapped \/ ghost.cut \/ FileName # NumChunks + 1

\* uploadSimple stores where the configuration it has read says, though clients
\* are cached and configurations edited under them, until a client has refused one;
\* its row names the configuration whose client stored it, unless that was deleted.
StoredWhereConfigured ==
  /\ ghost.placed # None /\ ~ghost.refused => ghost.placed.at = ghost.placed.want
  /\ \A r \in fileRows : r.config = r.code \/ config[r.code].state = "deleted"

\* uploadSimple leaves a file without a row only by a failing call or a restart.
OrphansExplained ==
  LET inProgress == {s \in Slot : call[s].pc \in {"reread", "record"}} IN
  /\ ghost.unrecorded >= Cardinality(inProgress)
  /\ ghost.unrecorded <= Cardinality(inProgress) + spent.faults * Cardinality(Slot)

=============================================================================
