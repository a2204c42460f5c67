--------------------------- MODULE ApiDiscovery ---------------------------
(***************************************************************************)
(* The discovery of API tags: every instance of the application, when it    *)
(* starts, announces the tags its routes declare; SysApiEvent collects the  *)
(* announcements until a second has passed without one and gives them to    *)
(* SysApiService.batchSyncDiscoveredApiTags, which compares and rewrites    *)
(* the rows of sys_api and sys_api_tag_rel.                                 *)
(*                                                                          *)
(* APIs are told apart by application, method and path in every step, so    *)
(* one API is modelled.  One action is the code between two awaits.  The    *)
(* hash of a row stands for the tags it was computed from.                  *)
(***************************************************************************)
EXTENDS Integers, Sequences

CONSTANTS
  Instance,   \* processes that run the application
  Tag,
  Version,    \* versions of the application
  Declared,   \* the announcements of each version for the API, in order
  MaxStarts,  \* bound: starts of instances
  MaxFaults   \* bound: database calls that fail without effect

ASSUME DeclaredAssumption == Declared \in [Version -> Seq(SUBSET Tag)]
ASSUME BoundAssumption == {MaxStarts, MaxFaults} \subseteq Nat

VARIABLES
  rows,         \* rows of sys_api for the API, an id being a position, with their tags
  inst,         \* the SysApiEvent of every instance and its flush in progress
  overlapped,   \* ghost: two flushes were once in progress together
  interrupted,  \* ghost: a flush once ended between its deletion and its write
  last,         \* ghost: the flush that ended last, while nothing has begun since
  starts, faults

vars == <<rows, inst, overlapped, interrupted, last, starts, faults>>

-----------------------------------------------------------------------------

Rows == [hash : SUBSET Tag, tags : SUBSET Tag]

\* Places of flushPendingTags and batchSyncDiscoveredApiTags between two awaits.
Flushing == {"readHash", "readSame", "deleteTags", "loadTags", "save"}
Pc == {"down", "debounce", "idle"} \cup Flushing

\* queue is pendingTagQueue, batch currentBatch; exact and existed are what the two
\* reads found; promised (ghost) are the tags the running version declares.
Instances == [pc : Pc, queue : Seq(SUBSET Tag), batch : Seq(SUBSET Tag),
              exact : BOOLEAN, existed : Nat, promised : SUBSET Tag]

Down == [pc |-> "down", queue |-> <<>>, batch |-> <<>>,
         exact |-> FALSE, existed |-> 0, promised |-> {}]

InFlush(i) == inst[i].pc \in Flushing

NoLast == [end |-> "none", tags |-> {}]

\* The tags a version declares for the API.
TagsOf(version) ==
  {t \in Tag : \E k \in DOMAIN Declared[version] : t \in Declared[version][k]}

Init ==
  /\ rows = <<>>
  /\ inst = [i \in Instance |-> Down]
  /\ overlapped = FALSE /\ interrupted = FALSE
  /\ last = NoLast
  /\ starts = 0 /\ faults = 0

\* onApplicationBootstrap announces everything in one turn; each announcement
\* pushes and (re)arms the debounce timer.
Start(i, version) ==
  /\ inst[i].pc = "down"
  /\ starts < MaxStarts
  /\ starts' = starts + 1
  /\ inst' = [inst EXCEPT ![i] =
       [Down EXCEPT !.queue = Declared[version], !.promised = TagsOf(version),
                    !.pc = IF Declared[version] = <<>> THEN "idle" ELSE "debounce"]]
  /\ UNCHANGED <<rows, overlapped, interrupted, last, faults>>

\* The debounce timer fires: the whole queue becomes the batch of a flush.
FlushPendingTags(i) ==
  /\ inst[i].pc = "debounce"
  /\ inst' = [inst EXCEPT ![i].pc = "readHash", ![i].batch = inst[i].queue,
                          ![i].queue = <<>>]
  /\ overlapped' = (overlapped \/ \E j \in Instance : InFlush(j))
  /\ last' = NoLast
  /\ UNCHANGED <<rows, interrupted, starts, faults>>

\* Mutant: the sets of tags are collected, not their elements.
MergeRecordsNested(batch) == {batch[k] : k \in DOMAIN batch}

\* mergeRecords: the records of one API become one, with all their tags.
MergeRecords(batch) == UNION {batch[k] : k \in DOMAIN batch}

Candidate(i) == MergeRecords(inst[i].batch)

\* The flush of i is over, with the batch back in the queue if it failed.
\* No timer is armed for it.
Ends(i, failed) ==
  [inst EXCEPT ![i] = [Down EXCEPT !.pc = "idle",
     !.queue = IF failed THEN inst[i].batch \o inst[i].queue ELSE inst[i].queue]]

\* Whether the flush of i has deleted the tags of a row and not yet written them.
Halfway(i) == inst[i].pc \in {"loadTags", "save"} /\ inst[i].existed # 0

Fails(i) ==
  /\ inst' = Ends(i, TRUE)
  /\ interrupted' = (interrupted \/ Halfway(i))
  /\ UNCHANGED <<rows, overlapped, last, starts>>

\* The database call of the flush fails.
CallFails(i) ==
  /\ InFlush(i)
  /\ faults < MaxFaults
  /\ faults' = faults + 1
  /\ Fails(i)

Succeeds(i, end) ==
  /\ inst' = Ends(i, FALSE)
  /\ last' = [end |-> end, tags |-> inst[i].promised]
  /\ UNCHANGED <<overlapped, interrupted, starts, faults>>

\* The rows with the very hash of the candidate.
FindExactHash(i) ==
  /\ inst[i].pc = "readHash"
  /\ inst' = [inst EXCEPT ![i].pc = "readSame",
       ![i].exact = \E r \in DOMAIN rows : rows[r].hash = Candidate(i)]
  /\ UNCHANGED <<rows, overlapped, interrupted, last, starts, faults>>

\* Mutant: the rows of the same API are not looked up.
FindExistedSameApiNone(i) ==
  /\ inst[i].pc = "readSame"
  /\ IF inst[i].exact
     THEN Succeeds(i, "skipped") /\ UNCHANGED rows
     ELSE /\ inst' = [inst EXCEPT ![i].pc = "save"]
          /\ UNCHANGED <<rows, overlapped, interrupted, last, starts, faults>>

\* The rows of the same API; of several the map keeps one.  A candidate whose
\* hash was found is skipped, otherwise it updates the row or is a new one.
FindExistedSameApi(i) ==
  /\ inst[i].pc = "readSame"
  /\ \/ inst[i].exact /\ Succeeds(i, "skipped") /\ UNCHANGED rows
     \/ /\ ~inst[i].exact
        /\ IF rows = <<>>
           THEN inst' = [inst EXCEPT ![i].pc = "save"]
           ELSE \E r \in DOMAIN rows :
                  inst' = [inst EXCEPT ![i].pc = "deleteTags", ![i].existed = r]
        /\ UNCHANGED <<rows, overlapped, interrupted, last, starts, faults>>

\* The tag relations of the row are deleted, in a transaction of their own.
DeleteTags(i) ==
  /\ inst[i].pc = "deleteTags"
  /\ rows' = [rows EXCEPT ![inst[i].existed].tags = {}]
  /\ inst' = [inst EXCEPT ![i].pc = "loadTags"]
  /\ UNCHANGED <<overlapped, interrupted, last, starts, faults>>

\* save looks at the relations in the database first: those that the entity
\* does not list would lose their api_id, which the column forbids.
LoadTags(i) ==
  /\ inst[i].pc = "loadTags"
  /\ IF rows[inst[i].existed].tags = {}
     THEN /\ inst' = [inst EXCEPT ![i].pc = "save"]
          /\ UNCHANGED <<rows, overlapped, interrupted, last, starts, faults>>
     ELSE Fails(i) /\ UNCHANGED faults

\* Mutant: the new hash is not written.
SaveRowOldHash(i) ==
  LET c == Candidate(i)  e == inst[i].existed IN
  /\ inst[i].pc = "save"
  /\ IF e = 0
     THEN rows' = Append(rows, [hash |-> c, tags |-> c])
     ELSE rows' = [rows EXCEPT ![e].tags = @ \cup c]
  /\ Succeeds(i, "written")

\* The row and its relations are written in one transaction, which a relation
\* that another flush has inserted meanwhile makes fail (unique key).
SaveRow(i) ==
  LET c == Candidate(i)  e == inst[i].existed IN
  /\ inst[i].pc = "save"
  /\ \/ /\ e = 0
        /\ rows' = Append(rows, [hash |-> c, tags |-> c])
        /\ Succeeds(i, "written")
     \/ /\ e # 0 /\ rows[e].tags \cap c = {}
        /\ rows' = [rows EXCEPT ![e] = [hash |-> c, tags |-> rows[e].tags \cup c]]
        /\ Succeeds(i, "written")
     \/ /\ e # 0 /\ rows[e].tags \cap c # {}
        /\ Fails(i) /\ UNCHANGED faults

\* The process ends, orderly or not: what it had not written is gone.
Stop(i) ==
  /\ inst[i].pc # "down"
  /\ inst' = [inst EXCEPT ![i] = Down]
  /\ interrupted' = (interrupted \/ Halfway(i))
  /\ UNCHANGED <<rows, overlapped, last, starts, faults>>

Next ==
  \E i \in Instance :
    \/ \E version \in Version : Start(i, version)
    \/ FlushPendingTags(i)
    \/ FindExactHash(i) \/ FindExistedSameApi(i)
    \/ DeleteTags(i) \/ LoadTags(i) \/ SaveRow(i)
    \/ CallFails(i)
    \/ Stop(i)

Spec == Init /\ [][Next]_vars

-----------------------------------------------------------------------------
(* Properties *)

\* Every variable holds a value the code can store in it.
TypeOK ==
  /\ rows \in Seq(Rows)
  /\ inst \in [Instance -> Instances]
  /\ overlapped \in BOOLEAN /\ interrupted \in BOOLEAN
  /\ last \in [end : {"none", "skipped", "written"}, tags : SUBSET Tag]
  /\ starts \in Nat /\ faults \in Nat

\* The table has no key for application, method and path: an API gets a second
\* row only from flushes that were in progress together, never from failures,
\* restarts or changes of version.
OneRowUnlessOverlapped == Len(rows) > 1 => overlapped

\* A flush that succeeded leaves, as the only row of the API, the hash and the tags
\* its version declares, if no flush has overlapped another.  Flushes that died or
\* failed between the deletion of the relations and the write matter only to one that
\* skips, because the hash of its tags is still there; one that writes repairs them.
RegisteredUnlessDisturbed ==
  last.end # "none" /\ ~overlapped /\ (~interrupted \/ last.end = "written")
    => rows = <<[hash |-> last.tags, tags |-> last.tags]>>

-----------------------------------------------------------------------------
(* The inductive invariant behind these properties *)

\* Without overlap there is one writer.
OneFlush ==
  ~overlapped => \A i, j \in Instance : InFlush(i) /\ InFlush(j) => i = j

\* The tags on their way to the database are those the version declares.
BatchPromised ==
  \A i \in Instance :
    /\ inst[i].pc = "debounce" => MergeRecords(inst[i].queue) = inst[i].promised
    /\ InFlush(i) => Candidate(i) = inst[i].promised

\* What the one writer has found out is still so.
Found(i) ==
  /\ inst[i].pc \notin {"deleteTags", "loadTags", "save"} => inst[i].existed = 0
  /\ inst[i].pc = "readSame" /\ inst[i].exact
       => rows # <<>> /\ rows[1].hash = Candidate(i)
  /\ inst[i].pc \in {"deleteTags", "loadTags"} => inst[i].existed = 1 /\ rows # <<>>
  /\ inst[i].pc = "save" =>
       IF rows = <<>> THEN inst[i].existed = 0
       ELSE inst[i].existed = 1 /\ rows[1].tags = {}

StillFound == ~overlapped => \A i \in Instance : Found(i)

\* The hash of a row tells its tags, but between a deletion and the write.
HashTellsTags ==
  ~overlapped /\ ~interrupted /\ rows # <<>>
    => rows[1].tags = rows[1].hash \/ \E i \in Instance : Halfway(i)

\* A flush that ended is the last as long as none is in progress.
LastAlone ==
  last.end # "none" /\ ~overlapped => \A i \in Instance : ~InFlush(i)

\* The conjunction that every step preserves.
DiscoveryInv ==
  /\ OneFlush /\ BatchPromised /\ StillFound /\ HashTellsTags /\ LastAlone
  /\ OneRowUnlessOverlapped
  /\ RegisteredUnlessDisturbed

=============================================================================
