------------------------ MODULE ApiDiscoveryProofs ------------------------
(***************************************************************************)
(* Proofs about ApiDiscovery for any number of instances, versions, tags,   *)
(* starts and failures: without overlapping flushes an API has one row,     *)
(* which a flush that succeeded leaves as its version declares, unless it    *)
(* skips a row that an interrupted flush has emptied.                        *)
(***************************************************************************)
EXTENDS ApiDiscovery, TLAPS

-----------------------------------------------------------------------------
(* Merging *)

LEMMA MergeTyped ==
  ASSUME NEW b \in Seq(SUBSET Tag)
  PROVE  MergeRecords(b) \in SUBSET Tag
BY DEF MergeRecords

LEMMA DeclaredMerges ==
  ASSUME NEW v \in Version
  PROVE  /\ Declared[v] \in Seq(SUBSET Tag)
         /\ TagsOf(v) \in SUBSET Tag
         /\ MergeRecords(Declared[v]) = TagsOf(v)
<1>1. Declared[v] \in Seq(SUBSET Tag)
  BY DeclaredAssumption
<1>2. TagsOf(v) \in SUBSET Tag
  BY DEF TagsOf
<1>3. \A k \in DOMAIN Declared[v] : Declared[v][k] \in SUBSET Tag
  BY <1>1
<1>4. MergeRecords(Declared[v]) = TagsOf(v)
  BY <1>3 DEF MergeRecords, TagsOf
<1> QED
  BY <1>1, <1>2, <1>4

-----------------------------------------------------------------------------
(* How the instances change *)

Queues == Seq(SUBSET Tag)

LEMMA QueueTyped ==
  /\ <<>> \in Queues
  /\ \A q \in Queues : \A r \in Queues : q \o r \in Queues
  /\ Instances = [pc : Pc, queue : Queues, batch : Queues,
                  exact : BOOLEAN, existed : Nat, promised : SUBSET Tag]
BY DEF Queues, Instances

LEMMA DownTyped == Down \in Instances /\ Down.pc = "down" /\ Down.existed = 0
BY QueueTyped DEF Down, Pc, Flushing

LEMMA StartMoves ==
  ASSUME TypeOK, NEW i \in Instance, NEW v \in Version, Start(i, v)
  PROVE  /\ inst' \in [Instance -> Instances]
         /\ inst'[i].pc \in {"idle", "debounce"} /\ inst'[i].existed = 0
         /\ inst'[i].queue = Declared[v] /\ inst'[i].promised = TagsOf(v)
         /\ \A j \in Instance : j # i => inst'[j] = inst[j]
<1> DEFINE x == [Down EXCEPT !.queue = Declared[v], !.promised = TagsOf(v),
                   !.pc = IF Declared[v] = <<>> THEN "idle" ELSE "debounce"]
<1>1. x \in Instances /\ x.pc \in {"idle", "debounce"} /\ x.existed = 0
        /\ x.queue = Declared[v] /\ x.promised = TagsOf(v)
  BY DeclaredMerges, DownTyped, QueueTyped DEF Down, Pc, Queues
<1>2. inst' = [inst EXCEPT ![i] = x]
  BY DEF Start
<1> HIDE DEF x
<1> QED
  BY <1>1, <1>2 DEF TypeOK

LEMMA FlushMoves ==
  ASSUME TypeOK, NEW i \in Instance, FlushPendingTags(i)
  PROVE  /\ inst' \in [Instance -> Instances]
         /\ inst'[i].pc = "readHash" /\ inst'[i].batch = inst[i].queue
         /\ inst'[i].promised = inst[i].promised /\ inst'[i].existed = inst[i].existed
         /\ \A j \in Instance : j # i => inst'[j] = inst[j]
<1> DEFINE x == [inst[i] EXCEPT !.pc = "readHash", !.batch = inst[i].queue,
                                !.queue = <<>>]
<1>1. inst[i] \in Instances
  BY DEF TypeOK
<1>2. x \in Instances /\ x.pc = "readHash" /\ x.batch = inst[i].queue
        /\ x.promised = inst[i].promised /\ x.existed = inst[i].existed
  BY <1>1, QueueTyped DEF Pc, Flushing
<1>3. inst' = [inst EXCEPT ![i] = x]
  BY DEF FlushPendingTags, TypeOK
<1> HIDE DEF x
<1> QED
  BY <1>2, <1>3 DEF TypeOK

LEMMA EndsMoves ==
  ASSUME TypeOK, NEW i \in Instance, NEW failed \in BOOLEAN, inst' = Ends(i, failed)
  PROVE  /\ inst' \in [Instance -> Instances]
         /\ inst'[i].pc = "idle" /\ inst'[i].existed = 0
         /\ \A j \in Instance : j # i => inst'[j] = inst[j]
<1> DEFINE x == [Down EXCEPT !.pc = "idle",
             !.queue = IF failed THEN inst[i].batch \o inst[i].queue ELSE inst[i].queue]
<1> DEFINE q == IF failed THEN inst[i].batch \o inst[i].queue ELSE inst[i].queue
<1>1. q \in Queues
  BY QueueTyped DEF TypeOK
<1>2. x \in Instances /\ x.pc = "idle" /\ x.existed = 0
  <2>1. x = [Down EXCEPT !.pc = "idle", !.queue = q]
    OBVIOUS
  <2> HIDE DEF q, x
  <2> QED
    BY <1>1, <2>1, DownTyped, QueueTyped DEF Down, Pc
<1>3. inst' = [inst EXCEPT ![i] = x]
  BY DEF Ends
<1> HIDE DEF x
<1> QED
  BY <1>2, <1>3 DEF TypeOK

\* The steps of a flush that stay in it change its place and what it has found.
LEMMA StepMoves ==
  ASSUME TypeOK, NEW i \in Instance, NEW pc \in Pc, NEW exact \in BOOLEAN,
         NEW existed \in Nat,
         inst' = [inst EXCEPT ![i].pc = pc, ![i].exact = exact, ![i].existed = existed]
  PROVE  /\ inst' \in [Instance -> Instances]
         /\ inst'[i].pc = pc /\ inst'[i].exact = exact /\ inst'[i].existed = existed
         /\ inst'[i].batch = inst[i].batch /\ inst'[i].promised = inst[i].promised
         /\ \A j \in Instance : j # i => inst'[j] = inst[j]
<1> DEFINE x == [inst[i] EXCEPT !.pc = pc, !.exact = exact, !.existed = existed]
<1>1. inst[i] \in Instances
  BY DEF TypeOK
<1>2. x \in Instances /\ x.pc = pc /\ x.exact = exact /\ x.existed = existed
        /\ x.batch = inst[i].batch /\ x.promised = inst[i].promised
  BY <1>1 DEF Instances
<1>3. inst' = [inst EXCEPT ![i] = x]
  BY DEF TypeOK
<1> HIDE DEF x
<1>4. inst'[i] = x /\ \A j \in Instance : j # i => inst'[j] = inst[j]
  BY <1>3 DEF TypeOK
<1>5. inst' \in [Instance -> Instances]
  BY <1>2, <1>3 DEF TypeOK
<1> QED
  BY <1>2, <1>4, <1>5, Zenon

LEMMA ExactMoves ==
  ASSUME TypeOK, NEW i \in Instance, FindExactHash(i)
  PROVE  \E exact \in BOOLEAN :
           /\ inst' = [inst EXCEPT ![i].pc = "readSame", ![i].exact = exact,
                                   ![i].existed = inst[i].existed]
           /\ exact <=> \E r \in DOMAIN rows : rows[r].hash = Candidate(i)
<1> DEFINE e == \E r \in DOMAIN rows : rows[r].hash = Candidate(i)
<1>1. inst[i] \in Instances
  BY DEF TypeOK
<1>2. inst' = [inst EXCEPT ![i].pc = "readSame", ![i].exact = e,
                           ![i].existed = inst[i].existed]
  BY <1>1 DEF FindExactHash, TypeOK, Instances
<1> QED
  BY <1>2

LEMMA GotoMoves ==
  ASSUME TypeOK, NEW i \in Instance, NEW pc \in Pc, NEW existed \in Nat,
         \/ inst' = [inst EXCEPT ![i].pc = pc, ![i].existed = existed]
         \/ inst' = [inst EXCEPT ![i].pc = pc] /\ existed = inst[i].existed
  PROVE  /\ inst' \in [Instance -> Instances]
         /\ inst'[i].pc = pc /\ inst'[i].existed = existed
         /\ inst'[i].batch = inst[i].batch /\ inst'[i].promised = inst[i].promised
         /\ \A j \in Instance : j # i => inst'[j] = inst[j]
<1> DEFINE x == [inst[i] EXCEPT !.pc = pc, !.existed = existed]
<1>1. inst[i] \in Instances
  BY DEF TypeOK
<1>2. x \in Instances /\ x.pc = pc /\ x.existed = existed
        /\ x.batch = inst[i].batch /\ x.promised = inst[i].promised
  BY <1>1 DEF Instances
<1>3. inst' = [inst EXCEPT ![i] = x]
  BY <1>1 DEF TypeOK, Instances
<1> HIDE DEF x
<1> QED
  BY <1>2, <1>3 DEF TypeOK

LEMMA PlaceMoves ==
  ASSUME TypeOK, NEW i \in Instance, NEW pc \in Pc, inst' = [inst EXCEPT ![i].pc = pc]
  PROVE  /\ inst'[i].pc = pc /\ inst'[i].existed = inst[i].existed
         /\ \A j \in Instance : j # i => inst'[j] = inst[j]
<1>1. inst[i].existed \in Nat
  BY DEF TypeOK, Instances
<1> DEFINE e == inst[i].existed
<1> HIDE DEF e
<1>2. e \in Nat /\ e = inst[i].existed
  BY <1>1 DEF e
<1>3. /\ inst'[i].pc = pc /\ inst'[i].existed = e
      /\ \A j \in Instance : j # i => inst'[j] = inst[j]
  BY <1>2, GotoMoves
<1> QED
  BY <1>2, <1>3

LEMMA RowMoves ==
  ASSUME TypeOK, NEW i \in Instance, NEW pc \in Pc, NEW r \in Nat,
         inst' = [inst EXCEPT ![i].pc = pc, ![i].existed = r]
  PROVE  /\ inst'[i].pc = pc /\ inst'[i].existed = r
         /\ \A j \in Instance : j # i => inst'[j] = inst[j]
<1> DEFINE x == [inst[i] EXCEPT !.pc = pc, !.existed = r]
<1>1. inst[i] \in Instances
  BY DEF TypeOK
<1>2. x.pc = pc /\ x.existed = r
  BY <1>1 DEF Instances
<1>3. inst' = [inst EXCEPT ![i] = x]
  BY <1>1 DEF TypeOK, Instances
<1> HIDE DEF x
<1> QED
  BY <1>2, <1>3 DEF TypeOK

-----------------------------------------------------------------------------
(* Type correctness *)

LEMMA RowRewritten ==
  ASSUME rows \in Seq(Rows), NEW e \in Nat, NEW r, e \in DOMAIN rows => r \in Rows
  PROVE  /\ [rows EXCEPT ![e] = r] \in Seq(Rows)
         /\ Len([rows EXCEPT ![e] = r]) = Len(rows)
<1> DEFINE s == [rows EXCEPT ![e] = r]
<1>1. DOMAIN s = 1 .. Len(rows) /\ Len(rows) \in Nat
  OBVIOUS
<1>2. \A k \in 1 .. Len(rows) : s[k] \in Rows
  <2> TAKE k \in 1 .. Len(rows)
  <2>1. rows[k] \in Rows
    OBVIOUS
  <2>2. s[k] = IF k = e THEN r ELSE rows[k]
    OBVIOUS
  <2> QED
    BY <2>1, <2>2
<1>3. s = [k \in 1 .. Len(rows) |-> s[k]]
  BY <1>1
<1> HIDE DEF s
<1>4. s \in Seq(Rows)
  BY <1>1, <1>2, <1>3
<1> QED
  BY <1>1, <1>4 DEF s

LEMMA TagsCleared ==
  ASSUME TypeOK, NEW i \in Instance, DeleteTags(i)
  PROVE  /\ rows' \in Seq(Rows) /\ Len(rows') = Len(rows)
         /\ inst[i].existed \in DOMAIN rows => rows'[inst[i].existed].tags = {}
<1> DEFINE e == inst[i].existed
<1> DEFINE r == [rows[e] EXCEPT !.tags = {}]
<1>1. rows' = [rows EXCEPT ![e] = r]
  BY DEF DeleteTags
<1>2. e \in Nat /\ rows \in Seq(Rows)
  BY DEF TypeOK, Instances
<1>3. e \in DOMAIN rows => r \in Rows /\ r.tags = {}
  <2>1. e \in DOMAIN rows => rows[e] \in Rows
    BY <1>2
  <2> QED
    BY <2>1 DEF Rows
<1> HIDE DEF e, r
<1>4. rows' \in Seq(Rows) /\ Len(rows') = Len(rows)
  BY <1>1, <1>2, <1>3, RowRewritten
<1>5. e \in DOMAIN rows => rows'[e] = r
  BY <1>1, <1>2
<1> QED
  BY <1>3, <1>4, <1>5 DEF e

LEMMA CandidateTyped ==
  ASSUME TypeOK, NEW i \in Instance
  PROVE  Candidate(i) \in SUBSET Tag /\ inst[i].promised \in SUBSET Tag
BY MergeTyped DEF Candidate, TypeOK, Instances

LEMMA RowSaved ==
  ASSUME TypeOK, NEW i \in Instance, SaveRow(i)
  PROVE  rows' \in Seq(Rows)
<1> DEFINE c == Candidate(i)
<1> DEFINE e == inst[i].existed
<1>1. c \in SUBSET Tag /\ e \in Nat /\ rows \in Seq(Rows)
  BY CandidateTyped DEF TypeOK, Instances
<1>2. CASE rows' = Append(rows, [hash |-> c, tags |-> c])
  BY <1>1, <1>2 DEF Rows
<1>3. CASE rows' = [rows EXCEPT ![e] = [hash |-> c, tags |-> rows[e].tags \cup c]]
  <2> DEFINE r == [hash |-> c, tags |-> rows[e].tags \cup c]
  <2>0. e \in DOMAIN rows => rows[e] \in Rows
    BY <1>1
  <2>1. e \in DOMAIN rows => r \in Rows
    BY <1>1, <2>0 DEF Rows
  <2> HIDE DEF c, e, r
  <2>2. rows' = [rows EXCEPT ![e] = r]
    BY <1>3 DEF r
  <2> QED
    BY <1>1, <2>1, <2>2, RowRewritten
<1>4. CASE UNCHANGED rows
  BY <1>1, <1>4
<1> QED
  BY <1>2, <1>3, <1>4 DEF SaveRow, Fails

LEMMA TypeStep == TypeOK /\ [Next]_vars => TypeOK'
<1> SUFFICES ASSUME TypeOK, [Next]_vars PROVE TypeOK'
  OBVIOUS
<1>0. CASE UNCHANGED vars
  BY <1>0 DEF TypeOK, vars
<1>a. ASSUME NEW i \in Instance, Succeeds(i, "skipped") \/ Succeeds(i, "written"),
             rows' \in Seq(Rows)
      PROVE  TypeOK'
  <2>1. inst' \in [Instance -> Instances]
    BY <1>a, EndsMoves DEF Succeeds
  <2>2. last' \in [end : {"none", "skipped", "written"}, tags : SUBSET Tag]
    <3>1. inst[i].promised \in SUBSET Tag
      BY CandidateTyped
    <3>2. last' \in {[end |-> e, tags |-> inst[i].promised] : e \in {"skipped", "written"}}
      BY <1>a DEF Succeeds
    <3> QED
      BY <3>1, <3>2
  <2>3. UNCHANGED <<overlapped, interrupted, starts, faults>>
    BY <1>a DEF Succeeds
  <2>4. rows' \in Seq(Rows)
    BY <1>a
  <2> QED
    BY <2>1, <2>2, <2>3, <2>4 DEF TypeOK
<1>b. ASSUME NEW i \in Instance, Fails(i), faults' \in Nat
      PROVE  TypeOK'
  BY <1>b, EndsMoves DEF Fails, TypeOK
<1>1. ASSUME NEW i \in Instance, NEW v \in Version, Start(i, v)
      PROVE  TypeOK'
  <2>1. inst' \in [Instance -> Instances]
    BY <1>1, StartMoves
  <2> QED
    BY <1>1, <2>1 DEF Start, TypeOK
<1>2. ASSUME NEW i \in Instance, FlushPendingTags(i)
      PROVE  TypeOK'
  BY <1>2, FlushMoves DEF FlushPendingTags, TypeOK, NoLast
<1>3. ASSUME NEW i \in Instance, FindExactHash(i)
      PROVE  TypeOK'
  <2>1. inst' \in [Instance -> Instances]
    <3>1. PICK exact \in BOOLEAN :
            inst' = [inst EXCEPT ![i].pc = "readSame", ![i].exact = exact,
                                 ![i].existed = inst[i].existed]
      BY <1>3, ExactMoves
    <3>2. "readSame" \in Pc /\ inst[i].existed \in Nat
      BY DEF TypeOK, Instances, Pc, Flushing
    <3> QED
      BY <3>1, <3>2, StepMoves
  <2> QED
    BY <1>3, <2>1 DEF FindExactHash, TypeOK
<1>4. ASSUME NEW i \in Instance, FindExistedSameApi(i)
      PROVE  TypeOK'
  <2>1. CASE Succeeds(i, "skipped") /\ UNCHANGED rows
    BY <1>a, <2>1 DEF TypeOK
  <2>2. CASE inst' = [inst EXCEPT ![i].pc = "save"]
              /\ UNCHANGED <<rows, overlapped, interrupted, last, starts, faults>>
    <3>1. "save" \in Pc /\ inst[i].existed \in Nat
      BY DEF TypeOK, Instances, Pc, Flushing
    <3> QED
      BY <2>2, <3>1, GotoMoves DEF TypeOK
  <2>3. ASSUME NEW r \in DOMAIN rows,
               inst' = [inst EXCEPT ![i].pc = "deleteTags", ![i].existed = r],
               UNCHANGED <<rows, overlapped, interrupted, last, starts, faults>>
        PROVE  TypeOK'
    <3>1. "deleteTags" \in Pc /\ r \in Nat
      BY DEF TypeOK, Pc, Flushing
    <3> QED
      BY <2>3, <3>1, GotoMoves DEF TypeOK
  <2> QED
    BY <1>4, <2>1, <2>2, <2>3 DEF FindExistedSameApi
<1>5. ASSUME NEW i \in Instance, DeleteTags(i)
      PROVE  TypeOK'
  <2>1. "loadTags" \in Pc /\ inst[i].existed \in Nat
    BY DEF TypeOK, Instances, Pc, Flushing
  <2> QED
    BY <1>5, <2>1, GotoMoves, TagsCleared DEF DeleteTags, TypeOK
<1>6. ASSUME NEW i \in Instance, LoadTags(i)
      PROVE  TypeOK'
  <2>1. CASE inst' = [inst EXCEPT ![i].pc = "save"]
              /\ UNCHANGED <<rows, overlapped, interrupted, last, starts, faults>>
    <3>1. "save" \in Pc /\ inst[i].existed \in Nat
      BY DEF TypeOK, Instances, Pc, Flushing
    <3> QED
      BY <2>1, <3>1, GotoMoves DEF TypeOK
  <2>2. CASE Fails(i) /\ UNCHANGED faults
    BY <1>b, <2>2 DEF TypeOK
  <2> QED
    BY <1>6, <2>1, <2>2 DEF LoadTags
<1>7. ASSUME NEW i \in Instance, SaveRow(i)
      PROVE  TypeOK'
  <2>1. CASE Succeeds(i, "written")
    BY <1>7, <1>a, <2>1, RowSaved
  <2>2. CASE Fails(i) /\ UNCHANGED faults
    BY <1>b, <2>2 DEF TypeOK
  <2> QED
    BY <1>7, <2>1, <2>2 DEF SaveRow
<1>8. ASSUME NEW i \in Instance, CallFails(i)
      PROVE  TypeOK'
  BY <1>8, <1>b DEF CallFails, TypeOK
<1>9. ASSUME NEW i \in Instance, Stop(i)
      PROVE  TypeOK'
  BY <1>9, DownTyped DEF Stop, TypeOK, Halfway
<1> QED
  BY <1>0, <1>1, <1>2, <1>3, <1>4, <1>5, <1>6, <1>7, <1>8, <1>9 DEF Next

LEMMA TypeInit == Init => TypeOK
<1> SUFFICES ASSUME Init PROVE TypeOK
  OBVIOUS
<1>1. rows \in Seq(Rows) /\ inst \in [Instance -> Instances]
  BY DownTyped DEF Init
<1> QED
  BY <1>1 DEF Init, TypeOK, NoLast

\* Every reachable state is well typed: what the flushes of SysApiEvent keep in
\* memory, and every row batchSyncDiscoveredApiTags writes.
THEOREM TypeCorrect == Spec => []TypeOK
<1> QED
  BY TypeInit, TypeStep, PTL DEF Spec

-----------------------------------------------------------------------------
(* The tags on their way to the database *)

LEMMA BatchKept ==
  ASSUME BatchPromised, NEW i \in Instance,
         \A j \in Instance : j # i => inst'[j] = inst[j],
         \/ inst'[i].pc \in {"down", "idle"}
         \/ /\ InFlush(i) /\ inst'[i].pc # "debounce"
            /\ inst'[i].batch = inst[i].batch /\ inst'[i].promised = inst[i].promised
  PROVE  BatchPromised'
<1> SUFFICES ASSUME NEW j \in Instance
             PROVE  /\ (inst[j].pc = "debounce"
                          => MergeRecords(inst[j].queue) = inst[j].promised)'
                    /\ (InFlush(j) => Candidate(j) = inst[j].promised)'
  BY DEF BatchPromised
<1>1. CASE j # i
  BY <1>1 DEF BatchPromised, InFlush, Candidate
<1>2. CASE j = i
  BY <1>2 DEF BatchPromised, InFlush, Candidate, Flushing
<1> QED
  BY <1>1, <1>2

LEMMA BatchStep == TypeOK /\ BatchPromised /\ [Next]_vars => BatchPromised'
<1> SUFFICES ASSUME TypeOK, BatchPromised, [Next]_vars PROVE BatchPromised'
  OBVIOUS
<1>0. CASE UNCHANGED vars
  BY <1>0 DEF BatchPromised, InFlush, Candidate, vars
<1>a. ASSUME NEW i \in Instance, NEW failed \in BOOLEAN, inst' = Ends(i, failed)
      PROVE  BatchPromised'
  BY <1>a, EndsMoves, BatchKept
<1>b. ASSUME NEW i \in Instance, InFlush(i), NEW pc \in Flushing, NEW existed \in Nat,
             \/ inst' = [inst EXCEPT ![i].pc = pc, ![i].existed = existed]
             \/ inst' = [inst EXCEPT ![i].pc = pc] /\ existed = inst[i].existed
      PROVE  BatchPromised'
  <2>1. pc \in Pc /\ pc # "debounce"
    BY DEF Pc, Flushing
  <2> QED
    BY <1>b, <2>1, GotoMoves, BatchKept
<1>c. \A i \in Instance : inst[i].existed \in Nat
  BY DEF TypeOK, Instances
<1>1. ASSUME NEW i \in Instance, NEW v \in Version, Start(i, v)
      PROVE  BatchPromised'
  <2> SUFFICES ASSUME NEW j \in Instance
               PROVE  /\ (inst[j].pc = "debounce"
                            => MergeRecords(inst[j].queue) = inst[j].promised)'
                      /\ (InFlush(j) => Candidate(j) = inst[j].promised)'
    BY DEF BatchPromised
  <2>1. CASE j # i
    BY <1>1, <2>1, StartMoves DEF BatchPromised, InFlush, Candidate
  <2>2. CASE j = i
    BY <1>1, <2>2, StartMoves, DeclaredMerges DEF InFlush, Flushing
  <2> QED
    BY <2>1, <2>2
<1>2. ASSUME NEW i \in Instance, FlushPendingTags(i)
      PROVE  BatchPromised'
  <2> SUFFICES ASSUME NEW j \in Instance
               PROVE  /\ (inst[j].pc = "debounce"
                            => MergeRecords(inst[j].queue) = inst[j].promised)'
                      /\ (InFlush(j) => Candidate(j) = inst[j].promised)'
    BY DEF BatchPromised
  <2>1. CASE j # i
    BY <1>2, <2>1, FlushMoves DEF BatchPromised, InFlush, Candidate
  <2>2. CASE j = i
    <3>1. MergeRecords(inst[i].queue) = inst[i].promised
      BY <1>2 DEF FlushPendingTags, BatchPromised
    <3> QED
      BY <1>2, <2>2, <3>1, FlushMoves DEF Candidate
  <2> QED
    BY <2>1, <2>2
<1>3. ASSUME NEW i \in Instance, FindExactHash(i)
      PROVE  BatchPromised'
  <2>1. PICK exact \in BOOLEAN :
          inst' = [inst EXCEPT ![i].pc = "readSame", ![i].exact = exact,
                               ![i].existed = inst[i].existed]
    BY <1>3, ExactMoves
  <2>2. "readSame" \in Pc /\ InFlush(i)
    BY <1>3 DEF FindExactHash, InFlush, Pc, Flushing
  <2>3. /\ inst'[i].pc = "readSame"
        /\ inst'[i].batch = inst[i].batch /\ inst'[i].promised = inst[i].promised
        /\ \A j \in Instance : j # i => inst'[j] = inst[j]
    BY <1>c, <2>1, <2>2, StepMoves
  <2> QED
    BY <2>2, <2>3, BatchKept
<1>4. ASSUME NEW i \in Instance, FindExistedSameApi(i)
      PROVE  BatchPromised'
  <2>1. CASE inst' = Ends(i, FALSE)
    BY <1>a, <2>1
  <2>2. CASE inst' = [inst EXCEPT ![i].pc = "save"]
    BY <1>4, <1>b, <1>c, <2>2 DEF FindExistedSameApi, InFlush, Flushing
  <2>3. ASSUME NEW r \in DOMAIN rows,
               inst' = [inst EXCEPT ![i].pc = "deleteTags", ![i].existed = r]
        PROVE  BatchPromised'
    <3>1. r \in Nat
      BY DEF TypeOK
    <3> QED
      BY <1>4, <1>b, <2>3, <3>1 DEF FindExistedSameApi, InFlush, Flushing
  <2> QED
    BY <1>4, <2>1, <2>2, <2>3, Zenon DEF FindExistedSameApi, Succeeds
<1>5. ASSUME NEW i \in Instance, DeleteTags(i)
      PROVE  BatchPromised'
  BY <1>5, <1>b, <1>c DEF DeleteTags, InFlush, Flushing
<1>6. ASSUME NEW i \in Instance, LoadTags(i)
      PROVE  BatchPromised'
  <2>1. CASE inst' = Ends(i, TRUE)
    BY <1>a, <2>1
  <2>2. CASE inst' = [inst EXCEPT ![i].pc = "save"]
    BY <1>6, <1>b, <1>c, <2>2 DEF LoadTags, InFlush, Flushing
  <2> QED
    BY <1>6, <2>1, <2>2, Zenon DEF LoadTags, Fails
<1>7. ASSUME NEW i \in Instance, SaveRow(i)
      PROVE  BatchPromised'
  BY <1>7, <1>a DEF SaveRow, Succeeds, Fails
<1>8. ASSUME NEW i \in Instance, CallFails(i)
      PROVE  BatchPromised'
  BY <1>8, <1>a DEF CallFails, Fails
<1>9. ASSUME NEW i \in Instance, Stop(i)
      PROVE  BatchPromised'
  BY <1>9, DownTyped, BatchKept DEF Stop, TypeOK
<1> QED
  BY <1>0, <1>1, <1>2, <1>3, <1>4, <1>5, <1>6, <1>7, <1>8, <1>9 DEF Next

-----------------------------------------------------------------------------
(* One flush at a time *)

LEMMA OneRowOnly ==
  ASSUME TypeOK, OneRowUnlessOverlapped, ~overlapped
  PROVE  /\ ~(Len(rows) > 1)
         /\ rows # <<>> => rows = <<rows[1]>> /\ DOMAIN rows = {1} /\ rows[1] \in Rows
<1>1. rows \in Seq(Rows) /\ Len(rows) \in Nat /\ ~(Len(rows) > 1)
  BY DEF TypeOK, OneRowUnlessOverlapped
<1>3. ASSUME rows # <<>>
      PROVE  rows = <<rows[1]>> /\ DOMAIN rows = {1} /\ rows[1] \in Rows
  <2>1. Len(rows) = 1
    <3>1. Len(rows) # 0
      BY <1>1, <1>3
    <3> QED
      BY <1>1, <3>1
  <2>2. DOMAIN rows = {1} /\ rows[1] \in Rows
    BY <1>1, <2>1
  <2>3. rows = <<rows[1]>>
    BY <1>1, <2>1
  <2> QED
    BY <2>2, <2>3
<1> QED
  BY <1>1, <1>3

LEMMA OverlappedKept ==
  ASSUME overlapped', BatchPromised'
  PROVE  DiscoveryInv'
BY DEF DiscoveryInv, OneFlush, StillFound, HashTellsTags, LastAlone,
       OneRowUnlessOverlapped, RegisteredUnlessDisturbed

LEMMA Others ==
  ASSUME OneFlush, StillFound, ~overlapped, NEW i \in Instance, InFlush(i),
         \A j \in Instance : j # i => inst'[j] = inst[j]
  PROVE  /\ \A j \in Instance : j # i => ~InFlush(j) /\ ~Halfway(j)
         /\ \A j \in Instance : j # i => ~InFlush(j)' /\ ~Halfway(j)' /\ Found(j)'
<1> SUFFICES ASSUME NEW j \in Instance, j # i
             PROVE  ~InFlush(j) /\ ~Halfway(j) /\ ~InFlush(j)' /\ ~Halfway(j)' /\ Found(j)'
  OBVIOUS
<1>1. ~InFlush(j) /\ inst'[j] = inst[j] /\ Found(j)
  BY DEF OneFlush, StillFound
<1>2. inst[j].pc \notin {"readHash", "readSame", "deleteTags", "loadTags", "save"}
  BY <1>1 DEF InFlush, Flushing
<1>3. inst[j].existed = 0
  BY <1>1, <1>2 DEF Found
<1> QED
  BY <1>1, <1>2, <1>3 DEF InFlush, Halfway, Found, Flushing

\* A step of a flush that stays in it.
LEMMA StepKept ==
  ASSUME DiscoveryInv, ~overlapped, BatchPromised', NEW i \in Instance,
         InFlush(i), InFlush(i)',
         \A j \in Instance : j # i => inst'[j] = inst[j],
         UNCHANGED <<overlapped, interrupted, last>>,
         TypeOK, TypeOK', Len(rows') = Len(rows), Found(i)',
         ~interrupted /\ rows' # <<>> => rows'[1].tags = rows'[1].hash \/ Halfway(i)'
  PROVE  DiscoveryInv'
<1>1. \A j \in Instance : j # i => ~InFlush(j)' /\ ~Halfway(j)' /\ Found(j)'
  BY Others DEF DiscoveryInv
<1>2. last.end = "none"
  BY DEF DiscoveryInv, LastAlone
<1>3. OneFlush' /\ StillFound'
  BY <1>1 DEF OneFlush, StillFound
<1>4. HashTellsTags'
  BY <1>1 DEF HashTellsTags
<1>5. LastAlone' /\ RegisteredUnlessDisturbed'
  BY <1>2 DEF LastAlone, RegisteredUnlessDisturbed
<1>6. OneRowUnlessOverlapped'
  BY DEF DiscoveryInv, OneRowUnlessOverlapped
<1> QED
  BY <1>3, <1>4, <1>5, <1>6 DEF DiscoveryInv

\* An instance starts or stops, or its flush fails: the rows stay.
LEMMA LeavesKept ==
  ASSUME DiscoveryInv, ~overlapped, BatchPromised', NEW i \in Instance,
         inst'[i].pc \in {"down", "debounce", "idle"}, inst'[i].existed = 0,
         \A j \in Instance : j # i => inst'[j] = inst[j],
         UNCHANGED <<rows, overlapped, last>>,
         interrupted' = (interrupted \/ Halfway(i))
  PROVE  DiscoveryInv'
<1>1. ~InFlush(i)' /\ ~Halfway(i)' /\ Found(i)'
  BY DEF InFlush, Halfway, Found, Flushing
<1>2. ASSUME NEW j \in Instance, j # i
      PROVE  /\ InFlush(j)' <=> InFlush(j)
             /\ Halfway(j)' <=> Halfway(j)
             /\ Found(j)' <=> Found(j)
  BY <1>2 DEF InFlush, Halfway, Found, Candidate
<1>3. OneFlush'
  BY <1>1, <1>2 DEF DiscoveryInv, OneFlush
<1>4. StillFound'
  BY <1>1, <1>2 DEF DiscoveryInv, StillFound
<1>5. HashTellsTags'
  BY <1>1, <1>2 DEF DiscoveryInv, HashTellsTags
<1>6. LastAlone'
  BY <1>1, <1>2 DEF DiscoveryInv, LastAlone
<1>7. OneRowUnlessOverlapped' /\ RegisteredUnlessDisturbed'
  BY DEF DiscoveryInv, OneRowUnlessOverlapped, RegisteredUnlessDisturbed
<1> QED
  BY <1>3, <1>4, <1>5, <1>6, <1>7 DEF DiscoveryInv

\* A flush succeeds.
LEMMA SuccessKept ==
  ASSUME TypeOK, DiscoveryInv, ~overlapped, BatchPromised', NEW i \in Instance, InFlush(i),
         inst'[i].pc = "idle", inst'[i].existed = 0,
         \A j \in Instance : j # i => inst'[j] = inst[j],
         UNCHANGED <<overlapped, interrupted>>,
         last'.tags = inst[i].promised, last'.end \in {"skipped", "written"},
         ~(Len(rows') > 1),
         last'.end = "written" \/ ~interrupted
           => rows' = <<[hash |-> Candidate(i), tags |-> Candidate(i)]>>
  PROVE  DiscoveryInv'
<1>1. \A j \in Instance : j # i => ~InFlush(j)' /\ ~Halfway(j)' /\ Found(j)'
  BY Others DEF DiscoveryInv
<1>2. ~InFlush(i)' /\ ~Halfway(i)' /\ Found(i)'
  BY DEF InFlush, Halfway, Found, Flushing
<1>3. Candidate(i) = inst[i].promised
  BY DEF DiscoveryInv, BatchPromised
<1>4. OneFlush' /\ StillFound' /\ LastAlone'
  BY <1>1, <1>2 DEF OneFlush, StillFound, LastAlone
<1>5. HashTellsTags'
  BY DEF HashTellsTags
<1>6. RegisteredUnlessDisturbed'
  BY <1>3 DEF RegisteredUnlessDisturbed
<1>7. OneRowUnlessOverlapped'
  BY DEF OneRowUnlessOverlapped
<1> QED
  BY <1>4, <1>5, <1>6, <1>7 DEF DiscoveryInv

-----------------------------------------------------------------------------
(* The inductive invariant *)

LEMMA FlushKept ==
  ASSUME TypeOK, DiscoveryInv, ~overlapped', BatchPromised',
         NEW i \in Instance, FlushPendingTags(i)
  PROVE  DiscoveryInv'
<1>1. ~overlapped /\ \A j \in Instance : ~InFlush(j)
  BY DEF FlushPendingTags
<1>2. /\ inst'[i].pc = "readHash" /\ inst'[i].existed = inst[i].existed
      /\ \A j \in Instance : j # i => inst'[j] = inst[j]
  BY FlushMoves
<1>3. inst[i].pc = "debounce" /\ UNCHANGED <<rows, interrupted>> /\ last'.end = "none"
  BY DEF FlushPendingTags, NoLast
<1>4. Found(i)' /\ ~Halfway(i)'
  <2>1. inst[i].existed = 0
    BY <1>1, <1>3 DEF DiscoveryInv, StillFound, Found
  <2> QED
    BY <1>2, <2>1 DEF Found, Halfway
<1>5. ASSUME NEW j \in Instance, j # i
      PROVE  ~InFlush(j)' /\ ~Halfway(j) /\ ~Halfway(i) /\ Found(j)'
  <2>1. ~InFlush(j) /\ ~InFlush(i) /\ Found(j) /\ inst'[j] = inst[j]
    BY <1>1, <1>2, <1>5 DEF DiscoveryInv, StillFound
  <2> QED
    BY <1>3, <2>1 DEF InFlush, Halfway, Found, Candidate, Flushing
<1>6. OneFlush' /\ StillFound'
  BY <1>4, <1>5 DEF OneFlush, StillFound
<1>7. HashTellsTags'
  <2>1. \A j \in Instance : ~Halfway(j)
    BY <1>1 DEF Halfway, InFlush, Flushing
  <2> QED
    BY <1>1, <1>3, <2>1 DEF DiscoveryInv, HashTellsTags
<1>8. LastAlone' /\ RegisteredUnlessDisturbed'
  BY <1>3 DEF LastAlone, RegisteredUnlessDisturbed
<1>9. OneRowUnlessOverlapped'
  BY <1>1, <1>3 DEF DiscoveryInv, OneRowUnlessOverlapped
<1> QED
  BY <1>6, <1>7, <1>8, <1>9 DEF DiscoveryInv

LEMMA FailKept ==
  ASSUME TypeOK, DiscoveryInv, ~overlapped, BatchPromised', NEW i \in Instance,
         Fails(i)
  PROVE  DiscoveryInv'
BY EndsMoves, LeavesKept DEF Fails

LEMMA ExactKept ==
  ASSUME TypeOK, TypeOK', DiscoveryInv, ~overlapped, BatchPromised',
         NEW i \in Instance, FindExactHash(i)
  PROVE  DiscoveryInv'
<1>1. PICK exact \in BOOLEAN :
        /\ inst' = [inst EXCEPT ![i].pc = "readSame", ![i].exact = exact,
                                ![i].existed = inst[i].existed]
        /\ exact <=> \E r \in DOMAIN rows : rows[r].hash = Candidate(i)
  BY ExactMoves
<1> DEFINE e == inst[i].existed
<1>2. "readSame" \in Pc /\ e \in Nat
  BY DEF TypeOK, Instances, Pc, Flushing
<1> HIDE DEF e
<1>3. /\ inst'[i].pc = "readSame" /\ inst'[i].existed = e /\ inst'[i].exact = exact
      /\ inst'[i].batch = inst[i].batch
      /\ \A j \in Instance : j # i => inst'[j] = inst[j]
  <2>1. inst' = [inst EXCEPT ![i].pc = "readSame", ![i].exact = exact, ![i].existed = e]
    BY <1>1, Zenon DEF e
  <2>2. /\ inst'[i].pc = "readSame" /\ inst'[i].existed = e
        /\ inst'[i].batch = inst[i].batch
        /\ \A j \in Instance : j # i => inst'[j] = inst[j]
    <3>1. inst'[i].pc = "readSame"
      BY <1>2, <2>1, StepMoves
    <3>2. inst'[i].existed = e
      BY <1>2, <2>1 DEF TypeOK, Instances
    <3>3. inst'[i].batch = inst[i].batch
      BY <1>2, <2>1, StepMoves
    <3>4. \A j \in Instance : j # i => inst'[j] = inst[j]
      BY <1>2, <2>1, StepMoves
    <3> QED
      BY <3>1, <3>2, <3>3, <3>4
  <2>3. inst'[i].exact = exact
    BY <1>2, <2>1, StepMoves, Zenon
  <2> QED
    BY <2>2, <2>3, Zenon
<1>4. inst'[i].exact => \E r \in DOMAIN rows : rows[r].hash = Candidate(i)
  BY <1>1, <1>3, Zenon
<1>5. inst[i].pc = "readHash" /\ UNCHANGED <<rows, overlapped, interrupted, last>>
  BY DEF FindExactHash
<1>6. inst[i].existed = 0 /\ InFlush(i) /\ InFlush(i)' /\ ~Halfway(i)
  BY <1>3, <1>5 DEF e, DiscoveryInv, StillFound, Found, InFlush, Halfway, Flushing
<1>7. inst'[i].exact => rows # <<>> /\ rows[1].hash = Candidate(i)
  <2> SUFFICES ASSUME inst'[i].exact
               PROVE  rows # <<>> /\ rows[1].hash = Candidate(i)
    BY Zenon
  <2>1. PICK r \in DOMAIN rows : rows[r].hash = Candidate(i)
    BY <1>4
  <2>2. rows # <<>>
    BY <2>1
  <2>3. r = 1
    BY <2>1, <2>2, OneRowOnly DEF DiscoveryInv
  <2> QED
    BY <2>1, <2>2, <2>3
<1>8. Found(i)'
  <2>1. Candidate(i)' = Candidate(i)
    BY <1>3 DEF Candidate
  <2>2. (inst[i].pc = "readSame" /\ inst[i].exact
           => rows # <<>> /\ rows[1].hash = Candidate(i))'
    BY <1>5, <1>7, <2>1, Zenon
  <2>3. inst'[i].pc \notin {"deleteTags", "loadTags", "save"} /\ inst'[i].existed = 0
    BY <1>3, <1>6 DEF e
  <2> QED
    BY <2>2, <2>3 DEF Found
<1>9. ~interrupted /\ rows' # <<>> => rows'[1].tags = rows'[1].hash
  <2>1. \A j \in Instance : ~Halfway(j)
    BY <1>3, <1>6, Others DEF DiscoveryInv
  <2> QED
    BY <1>5, <2>1 DEF DiscoveryInv, HashTellsTags
<1> QED
  BY <1>3, <1>5, <1>6, <1>8, <1>9, StepKept

LEMMA SkipKept ==
  ASSUME TypeOK, DiscoveryInv, ~overlapped, BatchPromised', NEW i \in Instance,
         inst[i].pc = "readSame", inst[i].exact, Succeeds(i, "skipped"), UNCHANGED rows
  PROVE  DiscoveryInv'
<1>1. /\ inst'[i].pc = "idle" /\ inst'[i].existed = 0
      /\ \A j \in Instance : j # i => inst'[j] = inst[j]
  BY EndsMoves DEF Succeeds
<1>2. InFlush(i) /\ ~Halfway(i)
  BY DEF InFlush, Halfway, Flushing
<1>3. rows # <<>> /\ rows[1].hash = Candidate(i)
  BY DEF DiscoveryInv, StillFound, Found
<1>4. rows = <<rows[1]>> /\ rows[1] \in Rows /\ ~(Len(rows) > 1)
  BY <1>3, OneRowOnly DEF DiscoveryInv
<1>5. ASSUME ~interrupted
      PROVE  rows = <<[hash |-> Candidate(i), tags |-> Candidate(i)]>>
  <2>1. \A j \in Instance : ~Halfway(j)
    BY <1>1, <1>2, Others DEF DiscoveryInv
  <2>2. rows[1].tags = rows[1].hash
    BY <1>3, <1>5, <2>1 DEF DiscoveryInv, HashTellsTags
  <2>3. rows[1] = [hash |-> Candidate(i), tags |-> Candidate(i)]
    BY <1>3, <1>4, <2>2 DEF Rows
  <2> QED
    BY <1>4, <2>3
<1>6. /\ last'.tags = inst[i].promised /\ last'.end = "skipped"
      /\ UNCHANGED <<overlapped, interrupted>>
  BY DEF Succeeds
<1> QED
  BY <1>1, <1>2, <1>4, <1>5, <1>6, SuccessKept

LEMMA SameKept ==
  ASSUME TypeOK, TypeOK', DiscoveryInv, ~overlapped, BatchPromised',
         NEW i \in Instance, FindExistedSameApi(i)
  PROVE  DiscoveryInv'
<1>1. inst[i].pc = "readSame" /\ InFlush(i) /\ ~Halfway(i) /\ inst[i].existed = 0
  BY DEF FindExistedSameApi, InFlush, Halfway, Flushing, DiscoveryInv, StillFound, Found
<1>2. CASE inst[i].exact /\ Succeeds(i, "skipped") /\ UNCHANGED rows
  BY <1>1, <1>2, SkipKept
<1>3. CASE /\ rows = <<>> /\ inst' = [inst EXCEPT ![i].pc = "save"]
           /\ UNCHANGED <<rows, overlapped, interrupted, last, starts, faults>>
  <2>1. "save" \in Pc
    BY DEF Pc, Flushing
  <2>2. /\ inst'[i].pc = "save" /\ inst'[i].existed = 0
        /\ \A j \in Instance : j # i => inst'[j] = inst[j]
    BY <1>1, <1>3, <2>1, PlaceMoves
  <2>3. Found(i)' /\ InFlush(i)'
    BY <1>3, <2>2 DEF Found, InFlush, Flushing
  <2> QED
    BY <1>1, <1>3, <2>2, <2>3, StepKept
<1>4. ASSUME NEW r \in DOMAIN rows,
             inst' = [inst EXCEPT ![i].pc = "deleteTags", ![i].existed = r],
             UNCHANGED <<rows, overlapped, interrupted, last, starts, faults>>
      PROVE  DiscoveryInv'
  <2>1. rows # <<>> /\ r = 1
    <3>1. rows # <<>>
      OBVIOUS
    <3> QED
      BY <3>1, OneRowOnly DEF DiscoveryInv
  <2>2. "deleteTags" \in Pc /\ r \in Nat
    BY <2>1 DEF Pc, Flushing
  <2>3. /\ inst'[i].pc = "deleteTags" /\ inst'[i].existed = 1
        /\ \A j \in Instance : j # i => inst'[j] = inst[j]
    BY <1>4, <2>1, <2>2, RowMoves
  <2>4. Found(i)' /\ InFlush(i)'
    BY <1>4, <2>1, <2>3 DEF Found, InFlush, Flushing
  <2>5. ~interrupted /\ rows' # <<>> => rows'[1].tags = rows'[1].hash
    <3>1. \A j \in Instance : ~Halfway(j)
      BY <1>1, <2>3, Others DEF DiscoveryInv
    <3> QED
      BY <1>4, <3>1 DEF DiscoveryInv, HashTellsTags
  <2> QED
    BY <1>1, <1>4, <2>3, <2>4, <2>5, StepKept
<1> QED
  BY <1>2, <1>3, <1>4, Zenon DEF FindExistedSameApi

LEMMA DeleteKept ==
  ASSUME TypeOK, TypeOK', DiscoveryInv, ~overlapped, BatchPromised',
         NEW i \in Instance, DeleteTags(i)
  PROVE  DiscoveryInv'
<1>1. inst[i].pc = "deleteTags" /\ inst[i].existed = 1 /\ rows # <<>> /\ InFlush(i)
  BY DEF DeleteTags, InFlush, Flushing, DiscoveryInv, StillFound, Found
<1>2. "loadTags" \in Pc
  BY DEF Pc, Flushing
<1>3. /\ inst'[i].pc = "loadTags" /\ inst'[i].existed = 1
      /\ \A j \in Instance : j # i => inst'[j] = inst[j]
  BY <1>1, <1>2, PlaceMoves DEF DeleteTags
<1>4. Len(rows') = Len(rows) /\ rows' # <<>>
  <2>1. Len(rows') = Len(rows) /\ rows \in Seq(Rows) /\ rows' \in Seq(Rows)
    BY TagsCleared DEF TypeOK
  <2> QED
    BY <1>1, <2>1
<1>5. Found(i)' /\ InFlush(i)' /\ Halfway(i)'
  BY <1>3, <1>4 DEF Found, InFlush, Halfway, Flushing
<1>6. UNCHANGED <<overlapped, interrupted, last>>
  BY DEF DeleteTags
<1> QED
  BY <1>1, <1>3, <1>4, <1>5, <1>6, StepKept

LEMMA LoadKept ==
  ASSUME TypeOK, TypeOK', DiscoveryInv, ~overlapped, BatchPromised',
         NEW i \in Instance, LoadTags(i)
  PROVE  DiscoveryInv'
<1>1. inst[i].pc = "loadTags" /\ inst[i].existed = 1 /\ rows # <<>> /\ InFlush(i)
  BY DEF LoadTags, InFlush, Flushing, DiscoveryInv, StillFound, Found
<1>2. CASE Fails(i)
  BY <1>2, FailKept
<1>3. CASE /\ rows[1].tags = {} /\ inst' = [inst EXCEPT ![i].pc = "save"]
           /\ UNCHANGED <<rows, overlapped, interrupted, last, starts, faults>>
  <2>1. "save" \in Pc
    BY DEF Pc, Flushing
  <2>2. /\ inst'[i].pc = "save" /\ inst'[i].existed = 1
        /\ \A j \in Instance : j # i => inst'[j] = inst[j]
    BY <1>1, <1>3, <2>1, PlaceMoves
  <2>3. Found(i)' /\ InFlush(i)' /\ Halfway(i)'
    BY <1>1, <1>3, <2>2 DEF Found, InFlush, Halfway, Flushing
  <2> QED
    BY <1>1, <1>3, <2>2, <2>3, StepKept
<1> QED
  BY <1>1, <1>2, <1>3 DEF LoadTags

LEMMA SaveKept ==
  ASSUME TypeOK, DiscoveryInv, ~overlapped, BatchPromised',
         NEW i \in Instance, SaveRow(i)
  PROVE  DiscoveryInv'
<1> DEFINE c == Candidate(i)
<1>1. InFlush(i) /\ inst[i].pc = "save"
  BY DEF SaveRow, InFlush, Flushing
<1>2. IF rows = <<>> THEN inst[i].existed = 0
      ELSE inst[i].existed = 1 /\ rows[1].tags = {}
  BY <1>1 DEF DiscoveryInv, StillFound, Found
<1>3. CASE Fails(i)
  BY <1>3, FailKept
<1>4. ASSUME Succeeds(i, "written"), rows' = <<[hash |-> c, tags |-> c]>>
      PROVE  DiscoveryInv'
  <2>1. /\ inst'[i].pc = "idle" /\ inst'[i].existed = 0
        /\ \A j \in Instance : j # i => inst'[j] = inst[j]
    BY <1>4, EndsMoves DEF Succeeds
  <2>2. /\ last'.tags = inst[i].promised /\ last'.end = "written"
        /\ UNCHANGED <<overlapped, interrupted>>
    BY <1>4 DEF Succeeds
  <2>3. ~(Len(rows') > 1)
    BY <1>4
  <2> QED
    BY <1>1, <1>4, <2>1, <2>2, <2>3, SuccessKept
<1>5. CASE inst[i].existed = 0 /\ rows' = Append(rows, [hash |-> c, tags |-> c])
             /\ Succeeds(i, "written")
  <2>1. rows = <<>>
    BY <1>2, <1>5
  <2>2. rows' = <<[hash |-> c, tags |-> c]>>
    BY <1>5, <2>1
  <2> QED
    BY <1>4, <1>5, <2>2
<1>6. CASE /\ inst[i].existed # 0 /\ Succeeds(i, "written")
           /\ rows' = [rows EXCEPT ![inst[i].existed] =
                [hash |-> c, tags |-> rows[inst[i].existed].tags \cup c]]
  <2>1. rows # <<>> /\ inst[i].existed = 1 /\ rows[1].tags = {}
    BY <1>2, <1>6
  <2>2. rows = <<rows[1]>>
    BY <2>1, OneRowOnly DEF DiscoveryInv
  <2>3. rows' = [rows EXCEPT ![1] = [hash |-> c, tags |-> c]]
    BY <1>6, <2>1
  <2> HIDE DEF c
  <2>4. rows' = <<[hash |-> c, tags |-> c]>>
    BY <2>2, <2>3
  <2> QED
    BY <1>4, <1>6, <2>4
<1> QED
  BY <1>3, <1>5, <1>6 DEF SaveRow, Fails

LEMMA InvStep == TypeOK /\ DiscoveryInv /\ [Next]_vars => DiscoveryInv'
<1> SUFFICES ASSUME TypeOK, DiscoveryInv, [Next]_vars PROVE DiscoveryInv'
  OBVIOUS
<1>a. TypeOK' /\ BatchPromised'
  BY TypeStep, BatchStep DEF DiscoveryInv
<1>b. CASE overlapped'
  BY <1>a, <1>b, OverlappedKept
<1>c. ASSUME ~overlapped', NEW i \in Instance, FlushPendingTags(i)
      PROVE  DiscoveryInv'
  BY <1>a, <1>c, FlushKept
<1>d. ASSUME ~overlapped,
             NEW i \in Instance, \/ \E version \in Version : Start(i, version)
                                 \/ FindExactHash(i) \/ FindExistedSameApi(i)
                                 \/ DeleteTags(i) \/ LoadTags(i) \/ SaveRow(i)
                                 \/ CallFails(i)
                                 \/ Stop(i)
      PROVE  DiscoveryInv'
  <2>1. ASSUME NEW v \in Version, Start(i, v)
        PROVE  DiscoveryInv'
    <3>1. /\ UNCHANGED <<rows, overlapped, last>>
          /\ interrupted' = (interrupted \/ Halfway(i))
      <4>1. ~Halfway(i)
        BY <2>1 DEF Start, Halfway
      <4> QED
        BY <2>1, <4>1, Zenon DEF Start, TypeOK
    <3>2. /\ inst'[i].pc \in {"down", "debounce", "idle"} /\ inst'[i].existed = 0
          /\ \A j \in Instance : j # i => inst'[j] = inst[j]
      BY <2>1, StartMoves
    <3> QED
      BY <1>a, <1>d, <3>1, <3>2, LeavesKept
  <2>2. CASE CallFails(i)
    BY <1>a, <1>d, <2>2, FailKept DEF CallFails, Fails
  <2>3. CASE Stop(i)
    <3>1. inst'[i] = Down /\ \A j \in Instance : j # i => inst'[j] = inst[j]
      BY <2>3 DEF Stop, TypeOK
    <3>2. inst'[i].pc = "down" /\ inst'[i].existed = 0
      BY <3>1 DEF Down
    <3>3. UNCHANGED <<rows, overlapped, last>>
             /\ interrupted' = (interrupted \/ Halfway(i))
      BY <2>3 DEF Stop
    <3> QED
      BY <1>a, <1>d, <3>1, <3>2, <3>3, LeavesKept
  <2> QED
    BY <1>a, <1>d, <2>1, <2>2, <2>3, ExactKept, SameKept, DeleteKept, LoadKept, SaveKept
<1>e. CASE UNCHANGED vars
  BY <1>e DEF vars, DiscoveryInv, OneFlush, BatchPromised, StillFound, HashTellsTags,
              LastAlone, OneRowUnlessOverlapped, RegisteredUnlessDisturbed, InFlush, Halfway, Found, Candidate
<1>f. ~overlapped' => ~overlapped \/ UNCHANGED vars
  BY DEF Next, Start, FlushPendingTags, FindExactHash, FindExistedSameApi, DeleteTags,
         LoadTags, SaveRow, CallFails, Stop, Succeeds, Fails
<1> QED
  BY <1>b, <1>c, <1>d, <1>e, <1>f DEF Next

LEMMA InvInit == Init => DiscoveryInv
<1> SUFFICES ASSUME Init PROVE DiscoveryInv
  OBVIOUS
<1>1. \A i \in Instance : inst[i].pc = "down" /\ inst[i].existed = 0 /\ ~InFlush(i)
  BY DEF Init, Down, InFlush, Flushing
<1>2. rows = <<>> /\ last.end = "none" /\ ~(Len(rows) > 1)
  BY DEF Init, NoLast
<1>3. StillFound
  BY <1>1 DEF StillFound, Found
<1> QED
  BY <1>1, <1>2, <1>3 DEF DiscoveryInv, OneFlush, BatchPromised, HashTellsTags, LastAlone,
     OneRowUnlessOverlapped, RegisteredUnlessDisturbed

\* The reason why discovery works: without overlap there is one writer, what it has
\* read is still so when it writes, and the hash of a row tells its tags except
\* between the deletion of the relations and the save.
THEOREM DiscoveryInvariant == Spec => []DiscoveryInv
<1> QED
  BY TypeInit, TypeStep, InvInit, InvStep, PTL DEF Spec

\* Failures, restarts and changes of version alone never give an API two rows in
\* sys_api, although the table has no unique key for it.
THEOREM OneRow == Spec => []OneRowUnlessOverlapped
<1>1. DiscoveryInv => OneRowUnlessOverlapped
  BY DEF DiscoveryInv
<1> QED
  BY <1>1, DiscoveryInvariant, PTL

\* After a flush that succeeded the row and its relations are what the running
\* version declares, if no flush overlapped another; one that wrote has then also
\* undone whatever flushes that ended half way had left.
THEOREM Registered == Spec => []RegisteredUnlessDisturbed
<1>1. DiscoveryInv => RegisteredUnlessDisturbed
  BY DEF DiscoveryInv
<1> QED
  BY <1>1, DiscoveryInvariant, PTL

=============================================================================
