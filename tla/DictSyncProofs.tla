-------------------------- MODULE DictSyncProofs --------------------------
(***************************************************************************)
(* Theorems about DictSync, for any dictionaries, items, instances and       *)
(* versions, whatever the versions declare, and any number of starts, edits  *)
(* and faults.                                                               *)
(***************************************************************************)
EXTENDS DictSync, FiniteSetTheorems, TLAPS

-----------------------------------------------------------------------------
(* Dictionaries: what holds of the flushes in progress *)

\* Flushes that have found their dictionaries, and those that have saved them.
DictsFound == {"saveDicts", "findItems", "saveItems"}
DictsSaved == {"findItems", "saveItems"}

\* A flush carries what its version declares; different dictionaries have different ids.
FlushFits(f) ==
  /\ f.pc \in {"debounce"} \cup DictFlushing =>
       f.version \in DictVersion /\ f.batch = DictDeclared[f.version]
  /\ f.pc \notin DictsSaved => f.todo = {}
  /\ IsFiniteSet(f.todo)
  /\ f.pc \in DictsFound =>
       \A c, e \in DictsIn(f.batch) : f.ids[c] = f.ids[e] /\ f.ids[c] # 0 => c = e
  /\ f.pc \in DictsSaved =>
       f.left \subseteq DictsIn(f.batch) /\ \A c \in DictsIn(f.batch) : f.ids[c] # 0
  /\ f.pc = "saveItems" => f.left = {}

FlushesFit == \A i \in DictInstance : FlushFits(dictInst[i])

\* The id that a flush has found is that of a row.
IdsThere ==
  \A i \in DictInstance : dictInst[i].pc \in DictsFound =>
    \A c \in DictsIn(dictInst[i].batch) : dictInst[i].ids[c] \in 0 .. Len(dicts)

\* The database keeps the codes of dictionaries apart.
DictCodesDiffer == \A d, e \in DOMAIN dicts : dicts[d].code = dicts[e].code => d = e

\* A hash with a dictionary tells the whole row; those of administrators have none.
HashesTell == \A r \in DOMAIN items : items[r].hash.dict # 0 => items[r] = ItemRow(items[r].hash)

DictBase == DictTypeOK /\ FlushesFit /\ IdsThere /\ DictCodesDiffer /\ HashesTell

\* As long as nothing overlapped a flush, it is alone and its dictionaries are as saved.
DictFlushAlone ==
  ~dictGhost.overlapped =>
    /\ \A i, j \in DictInstance : InDictFlush(i) /\ InDictFlush(j) => i = j
    /\ dictGhost.last # 0 => \A i \in DictInstance : ~InDictFlush(i)

Generated(c) == [code |-> c, genType |-> "1"]

DictsStill ==
  ~dictGhost.overlapped => \A i \in DictInstance : dictInst[i].pc \in DictsSaved =>
    \A c \in DictsIn(dictInst[i].batch) :
      dictInst[i].ids[c] \in DOMAIN dicts /\ dicts[dictInst[i].ids[c]] = Generated(c)

ItemsDiffer ==
  \A r, q \in DOMAIN items :
    items[r].dict # 0 /\ items[r].dict = items[q].dict /\ items[r].code = items[q].code => r = q

Stands(d, x) == {r \in DOMAIN items : items[r].dict = d /\ items[r].code = x}

\* What is to be written belongs to a dictionary that has been compared, each item once,
\* in the place of the row with its code or, if there is none, in a new row.
TodoFits(f) ==
  /\ \A t \in f.todo :
       /\ \E c \in DictsIn(f.batch) \ f.left : t.hash.dict = f.ids[c]
       /\ t.row # 0 => t.row \in Stands(t.hash.dict, t.hash.code)
       /\ t.row = 0 => Stands(t.hash.dict, t.hash.code) = {}
  /\ \A t, u \in f.todo : t.hash.dict = u.hash.dict /\ t.hash.code = u.hash.code => t = u

\* An item of a dictionary that has been compared is to be written, or is there to stay.
Compared(f) ==
  \A c \in DictsIn(f.batch) \ f.left : \A x \in DOMAIN MergeDicts(f.batch)[c] :
    LET value == MergeDicts(f.batch)[c][x] IN
    \/ \E t \in f.todo : t.hash.dict = f.ids[c] /\ t.hash.code = x /\ t.hash.value = value
    \/ \E r \in Stands(f.ids[c], x) : items[r].value = value /\ \A t \in f.todo : t.row # r

\* Every dictionary of a version is there with its items.
LeftAsDeclared(version) ==
  \A c \in DictsIn(DictDeclared[version]) : \E d \in DOMAIN dicts :
    /\ dicts[d] = Generated(c)
    /\ \A x \in DOMAIN MergeDicts(DictDeclared[version])[c] :
         \E r \in Stands(d, x) : items[r].value = MergeDicts(DictDeclared[version])[c][x]

DictCalm ==
  ~dictGhost.overlapped /\ ~dictGhost.recoded =>
    /\ ItemsDiffer
    /\ \A i \in DictInstance : dictInst[i].pc \in DictsSaved =>
         TodoFits(dictInst[i]) /\ Compared(dictInst[i])
    /\ dictGhost.last # 0 => LeftAsDeclared(dictGhost.last)

DictInv == DictBase /\ DictFlushAlone /\ DictsStill /\ DictCalm
-----------------------------------------------------------------------------
(* Dictionaries: numbers, sets as sequences, merged announcements *)

LEMMA LeastNumber ==
  ASSUME NEW T, T \subseteq Nat, T # {}
  PROVE  \E x \in T : \A y \in T : x <= y
<1> DEFINE R == OpToRel(<, Nat)
<1>1. PICK x \in T : \A y \in T : ~ (<<y, x>> \in R)
  BY NatLessThanWellFounded, WFMin
<1>2. \A y \in T : ~ (y < x)
  BY <1>1 DEF OpToRel
<1> QED
  BY <1>2

LEMMA GreatestNumber ==
  ASSUME NEW n \in Nat, NEW T, T \subseteq 1 .. n, T # {}
  PROVE  \E x \in T : \A y \in T : y <= x
<1> DEFINE L == {n - x : x \in T}
<1>1. L \subseteq Nat /\ L # {}
  <2>1. \A x \in T : n - x \in Nat
    OBVIOUS
  <2>2. PICK x \in T : TRUE
    OBVIOUS
  <2>3. n - x \in L
    OBVIOUS
  <2> QED
    BY <2>1, <2>3
<1>2. PICK l \in L : \A m \in L : l <= m
  BY <1>1, LeastNumber
<1>3. PICK x \in T : l = n - x
  OBVIOUS
<1>4. \A y \in T : n - y \in L
  OBVIOUS
<1>5. \A y \in T : n - x <= n - y
  BY <1>2, <1>3, <1>4
<1> QED
  BY <1>5

LEMMA Joined ==
  ASSUME NEW S, NEW a \in Seq(S), NEW b \in Seq(S), NEW n, n = Len(a), NEW m, m = Len(b)
  PROVE  /\ a \o b \in Seq(S) /\ Len(a \o b) = n + m /\ DOMAIN (a \o b) = 1 .. n + m
         /\ \A r \in 1 .. n : (a \o b)[r] = a[r]
         /\ \A k \in 1 .. m : (a \o b)[n + k] = b[k]
<1>1. n \in Nat /\ m \in Nat
  OBVIOUS
<1>2. a \o b \in Seq(S) /\ Len(a \o b) = n + m
  OBVIOUS
<1>3. DOMAIN (a \o b) = 1 .. n + m
  BY <1>2
<1>4. \A r \in 1 .. n : (a \o b)[r] = a[r]
  OBVIOUS
<1>5. \A k \in 1 .. m : (a \o b)[n + k] = b[k]
  <2> SUFFICES ASSUME NEW k \in 1 .. m PROVE (a \o b)[n + k] = b[k]
    OBVIOUS
  <2>1. n + k \in 1 .. n + m /\ ~(n + k <= n) /\ (n + k) - n = k
    BY <1>1
  <2> QED
    BY <1>1, <2>1
<1> QED
  BY <1>2, <1>3, <1>4, <1>5

\* SetToSeq lists every element of a finite set once.
LEMMA ListedOnce ==
  ASSUME NEW S, IsFiniteSet(S)
  PROVE  LET q == SetToSeq(S) IN
         /\ Len(q) \in Nat /\ q \in [1 .. Len(q) -> S]
         /\ \A k, l \in 1 .. Len(q) : q[k] = q[l] => k = l
         /\ \A x \in S : \E k \in 1 .. Len(q) : q[k] = x
<1> DEFINE n == Cardinality(S)  q == SetToSeq(S)
<1>1. n \in Nat /\ ExistsBijection(1 .. n, S)
  BY FS_CardinalityType
<1>2. \E f \in [1 .. n -> S] : IsInjective(f)
  BY <1>1 DEF ExistsBijection, Bijection, Injection
<1>3. q \in [1 .. n -> S] /\ IsInjective(q)
  BY <1>2 DEF SetToSeq
<1> HIDE DEF q
<1>4. q \in Injection(1 .. n, S)
  BY <1>3 DEF Injection
<1>5. Cardinality(1 .. n) = n
  BY <1>1, FS_Interval
<1>6. q \in Surjection(1 .. n, S)
  BY <1>4, <1>5, FS_Injection
<1>7. Len(q) = n
  BY <1>1, <1>3
<1> QED
  BY <1>1, <1>3, <1>6, <1>7 DEF q, IsInjective, Surjection

\* What mergeDiscoveredDicts returns: the records of the dictionaries announced.
LEMMA Merged ==
  ASSUME NEW b \in Seq(DictRecords)
  PROVE  /\ DictsIn(b) \subseteq DictCode /\ IsFiniteSet(DictsIn(b))
         /\ DOMAIN MergeDicts(b) = DictsIn(b)
         /\ \A c \in DictsIn(b) :
              /\ DOMAIN MergeDicts(b)[c] \subseteq ItemCode
              /\ \A x \in DOMAIN MergeDicts(b)[c] : MergeDicts(b)[c][x] \in ItemValue
<1>1. Len(b) \in Nat /\ DOMAIN b = 1 .. Len(b)
  OBVIOUS
<1>2. \A k \in DOMAIN b : /\ b[k].code \in DictCode /\ DOMAIN b[k].items \subseteq ItemCode
                          /\ \A x \in DOMAIN b[k].items : b[k].items[x] \in ItemValue
  <2> SUFFICES ASSUME NEW k \in DOMAIN b
               PROVE  /\ b[k].code \in DictCode /\ DOMAIN b[k].items \subseteq ItemCode
                      /\ \A x \in DOMAIN b[k].items : b[k].items[x] \in ItemValue
    OBVIOUS
  <2>1. b[k] \in DictRecords
    BY <1>1
  <2>2. b[k].code \in DictCode /\ b[k].items \in UNION {[xs -> ItemValue] : xs \in SUBSET ItemCode}
    BY <2>1 DEF DictRecords
  <2>3. PICK xs \in SUBSET ItemCode : b[k].items \in [xs -> ItemValue]
    BY <2>2
  <2> QED
    BY <2>2, <2>3
<1>3. DictsIn(b) \subseteq DictCode
  BY <1>2 DEF DictsIn
<1>4. IsFiniteSet(DictsIn(b))
  <2>1. IsFiniteSet(1 .. Len(b))
    BY <1>1, FS_Interval
  <2> DEFINE f == [k \in 1 .. Len(b) |-> b[k].code]
  <2>2. f \in Surjection(1 .. Len(b), DictsIn(b))
    BY <1>1 DEF Surjection, DictsIn
  <2> QED
    BY <2>1, <2>2, FS_Surjection
<1>5. DOMAIN MergeDicts(b) = DictsIn(b)
  BY DEF MergeDicts
<1>6. ASSUME NEW c \in DictsIn(b)
      PROVE  /\ DOMAIN MergeDicts(b)[c] \subseteq ItemCode
             /\ \A x \in DOMAIN MergeDicts(b)[c] : MergeDicts(b)[c][x] \in ItemValue
  <2> DEFINE records == {k \in DOMAIN b : b[k].code = c}
             latest(x) == CHOOSE k \in records :
                            /\ x \in DOMAIN b[k].items
                            /\ \A l \in records : x \in DOMAIN b[l].items => l <= k
  <2>1. MergeDicts(b)[c] = [x \in UNION {DOMAIN b[k].items : k \in records} |-> b[latest(x)].items[x]]
    BY DEF MergeDicts
  <2> HIDE DEF latest
  <2>2. DOMAIN MergeDicts(b)[c] = UNION {DOMAIN b[k].items : k \in records}
    BY <2>1
  <2>3. ASSUME NEW x \in DOMAIN MergeDicts(b)[c] PROVE MergeDicts(b)[c][x] \in ItemValue
    <3>1. MergeDicts(b)[c][x] = b[latest(x)].items[x]
      BY <2>1, <2>2
    <3>2. latest(x) \in records /\ x \in DOMAIN b[latest(x)].items
      <4> DEFINE T == {k \in records : x \in DOMAIN b[k].items}
      <4>1. T # {} /\ T \subseteq 1 .. Len(b)
        BY <2>2, <1>1
      <4>2. PICK k \in T : \A l \in T : l <= k
        BY <1>1, <4>1, GreatestNumber
      <4> QED
        BY <4>2 DEF latest
    <3> QED
      BY <1>2, <3>1, <3>2
  <2> QED
    BY <1>2, <2>2, <2>3
<1> QED
  BY <1>3, <1>4, <1>5, <1>6

\* The merged value of an item is the one that was declared last.
LEMMA MergedIsLast ==
  ASSUME NEW v \in DictVersion, NEW c \in DictsIn(DictDeclared[v]), NEW x
  PROVE  LET m == MergeDicts(DictDeclared[v])[c] IN
         /\ x \in DOMAIN m => DeclaredLast(v, c, x) = {m[x]}
         /\ x \notin DOMAIN m => DeclaredLast(v, c, x) = {}
<1> DEFINE b == DictDeclared[v]
           m == MergeDicts(b)[c]
           records == {k \in DOMAIN b : b[k].code = c}
           latest(z) == CHOOSE k \in records :
                          /\ z \in DOMAIN b[k].items
                          /\ \A l \in records : z \in DOMAIN b[l].items => l <= k
           says == {k \in DOMAIN b : b[k].code = c /\ x \in DOMAIN b[k].items}
           final == CHOOSE k \in says : \A l \in says : l <= k
<1>1. b \in Seq(DictRecords)
  BY DictAssumption
<1>2. Len(b) \in Nat /\ DOMAIN b = 1 .. Len(b)
  BY <1>1
<1>3. m = [z \in UNION {DOMAIN b[k].items : k \in records} |-> b[latest(z)].items[z]]
  BY DEF MergeDicts
<1>4. DeclaredLast(v, c, x) = IF says = {} THEN {} ELSE {b[final].items[x]}
  BY DEF DeclaredLast
<1>5. x \in DOMAIN m <=> says # {}
  <2>1. DOMAIN m = UNION {DOMAIN b[k].items : k \in records}
    BY <1>3
  <2> HIDE DEF m
  <2>2. ASSUME x \in DOMAIN m PROVE says # {}
    <3>1. PICK k \in records : x \in DOMAIN b[k].items
      BY <2>1, <2>2
    <3> QED
      BY <3>1
  <2>3. ASSUME NEW k \in says PROVE x \in DOMAIN m
    BY <2>1, <2>3
  <2> QED
    BY <2>2, <2>3
<1>6. ASSUME says # {} PROVE m[x] = b[final].items[x]
  <2>1. m[x] = b[latest(x)].items[x]
    BY <1>3, <1>5, <1>6
  <2>2. says \subseteq 1 .. Len(b)
    BY <1>2
  <2>3. PICK k \in says : \A l \in says : l <= k
    BY <1>2, <1>6, <2>2, GreatestNumber
  <2>4. final \in says /\ \A l \in says : l <= final
    BY <2>3
  <2>5. latest(x) \in says /\ \A l \in says : l <= latest(x)
    BY <2>3
  <2> HIDE DEF final, latest, says
  <2>6. final = latest(x)
    <3> DEFINE a == final  z == latest(x)
    <3>1. a \in 1 .. Len(b) /\ z \in 1 .. Len(b) /\ a <= z /\ z <= a
      BY <2>2, <2>4, <2>5
    <3> HIDE DEF a, z
    <3>2. a = z
      BY <1>2, <3>1
    <3> QED
      BY <3>2 DEF a, z
  <2> QED
    BY <2>1, <2>6
<1> HIDE DEF says, final, m
<1> QED
  BY <1>4, <1>5, <1>6 DEF b, m

LEMMA IdOfCode ==
  ASSUME DictCodesDiffer, NEW d \in DOMAIN dicts
  PROVE  IdOf(dicts[d].code) = d
BY DEF DictCodesDiffer, IdOf

LEMMA IdOfThere ==
  ASSUME dicts \in Seq(DictRows), NEW c
  PROVE  /\ IdOf(c) \in 0 .. Len(dicts)
         /\ IdOf(c) # 0 => IdOf(c) \in DOMAIN dicts /\ dicts[IdOf(c)].code = c
BY DEF IdOf
-----------------------------------------------------------------------------
(* Dictionaries: the steps of a flush *)

DictMoves(i, f) ==
  /\ f \in DictInstances /\ FlushFits(f)
  /\ dictInst' = [dictInst EXCEPT ![i] = f]
  /\ f.pc \in DictsFound => \A c \in DictsIn(f.batch) : f.ids[c] \in 0 .. Len(dicts')

LEMMA MovesOne ==
  ASSUME DictTypeOK, NEW i \in DictInstance, NEW f \in DictInstances,
         dictInst' = [dictInst EXCEPT ![i] = f]
  PROVE  /\ dictInst' \in [DictInstance -> DictInstances]
         /\ dictInst'[i] = f
         /\ \A j \in DictInstance : j # i => dictInst'[j] = dictInst[j]
BY DEF DictTypeOK

LEMMA DownFits ==
  /\ DictDown \in DictInstances /\ DictDown.pc = "down" /\ DictDown.todo = {}
  /\ FlushFits(DictDown)
<1>1. DictDown \in DictInstances /\ DictDown.pc = "down" /\ DictDown.todo = {}
  BY DEF DictDown, DictInstances
<1>2. FlushFits(DictDown)
  BY <1>1, FS_EmptySet DEF FlushFits, DictFlushing, DictsSaved, DictsFound
<1> QED
  BY <1>1, <1>2

LEMMA FlushTyped ==
  ASSUME DictBase, NEW i \in DictInstance
  PROVE  /\ dictInst[i] \in DictInstances /\ FlushFits(dictInst[i])
         /\ dictInst[i].pc \in {"debounce"} \cup DictFlushing =>
              /\ dictInst[i].version \in DictVersion
              /\ dictInst[i].batch = DictDeclared[dictInst[i].version]
         /\ dictInst[i].batch \in Seq(DictRecords)
         /\ dictInst[i].pc \in DictsFound =>
              \A c \in DictsIn(dictInst[i].batch) : dictInst[i].ids[c] \in 0 .. Len(dicts)
<1>1. dictInst[i] \in DictInstances
  BY DEF DictBase, DictTypeOK
<1>2. FlushFits(dictInst[i])
  BY DEF DictBase, FlushesFit
<1>3. dictInst[i].batch \in Seq(DictRecords)
  BY <1>1 DEF DictInstances
<1> QED
  BY <1>1, <1>2, <1>3 DEF FlushFits, DictBase, IdsThere

LEMMA DictStarts ==
  ASSUME DictBase, NEW i \in DictInstance, NEW v \in DictVersion, StartDict(i, v)
  PROVE  \E f \in DictInstances : DictMoves(i, f) /\ f.pc \in {"idle", "debounce"}
<1> DEFINE f == [DictDown EXCEPT !.pc = IF DictDeclared[v] = <<>> THEN "idle" ELSE "debounce",
                   !.version = v, !.batch = DictDeclared[v]]
<1>1. DictDeclared[v] \in Seq(DictRecords)
  BY DictAssumption
<1>2. f \in DictInstances
  BY <1>1, DownFits DEF DictInstances, DictFlushing
<1>3. /\ f.pc \in {"idle", "debounce"} /\ f.version = v /\ f.batch = DictDeclared[v]
      /\ f.todo = {}
  BY DownFits DEF DictInstances
<1>4. FlushFits(f)
  BY <1>3, FS_EmptySet DEF FlushFits, DictFlushing, DictsSaved, DictsFound
<1>5. dictInst' = [dictInst EXCEPT ![i] = f]
  BY DEF StartDict
<1> HIDE DEF f
<1> QED
  BY <1>2, <1>3, <1>4, <1>5 DEF DictMoves, DictsFound

LEMMA DictFlushes ==
  ASSUME DictBase, NEW i \in DictInstance, FlushPendingDicts(i)
  PROVE  \E f \in DictInstances : DictMoves(i, f) /\ f.pc = "findDicts"
<1> DEFINE f == [dictInst[i] EXCEPT !.pc = "findDicts"]
<1>1. dictInst[i].pc = "debounce" /\ dictInst' = [dictInst EXCEPT ![i] = f]
  BY DEF FlushPendingDicts
<1>a. dictInst[i] \in DictInstances
  BY FlushTyped
<1>2. f \in DictInstances
  BY <1>a DEF DictInstances, DictFlushing
<1>3. /\ f.pc = "findDicts" /\ f.version = dictInst[i].version /\ f.batch = dictInst[i].batch
      /\ f.todo = dictInst[i].todo
  BY FlushTyped DEF DictInstances
<1> HIDE DEF f
<1>4. FlushFits(f)
  BY <1>1, <1>3, FlushTyped DEF FlushFits, DictFlushing, DictsSaved, DictsFound
<1> QED
  BY <1>1, <1>2, <1>3, <1>4 DEF DictMoves, DictsFound

LEMMA DictFailures ==
  ASSUME DictBase, NEW i \in DictInstance, DictFails(i)
  PROVE  \E f \in DictInstances : DictMoves(i, f) /\ f.pc = "idle"
<1> DEFINE f == [DictDown EXCEPT !.pc = "idle", !.batch = dictInst[i].batch]
<1>1. f \in DictInstances /\ f.pc = "idle" /\ f.todo = {}
  BY DownFits, FlushTyped DEF DictInstances
<1>2. dictInst' = [dictInst EXCEPT ![i] = f]
  BY DEF DictFails
<1> HIDE DEF f
<1>3. FlushFits(f)
  BY <1>1, FS_EmptySet DEF FlushFits, DictFlushing, DictsSaved, DictsFound
<1> QED
  BY <1>1, <1>2, <1>3 DEF DictMoves, DictsFound

LEMMA DictSuccesses ==
  ASSUME DictBase, NEW i \in DictInstance, DictSucceeds(i)
  PROVE  \E f \in DictInstances : DictMoves(i, f) /\ f.pc = "idle"
<1> DEFINE f == [DictDown EXCEPT !.pc = "idle"]
<1>1. f \in DictInstances /\ f.pc = "idle" /\ f.todo = {}
  BY DownFits DEF DictInstances
<1>2. dictInst' = [dictInst EXCEPT ![i] = f]
  BY DEF DictSucceeds
<1> HIDE DEF f
<1>3. FlushFits(f)
  BY <1>1, FS_EmptySet DEF FlushFits, DictFlushing, DictsSaved, DictsFound
<1> QED
  BY <1>1, <1>2, <1>3 DEF DictMoves, DictsFound

LEMMA DictStops ==
  ASSUME DictBase, NEW i \in DictInstance, StopDict(i)
  PROVE  \E f \in DictInstances : DictMoves(i, f) /\ f.pc = "down"
BY DownFits DEF StopDict, DictMoves, DictsFound

LEMMA DictsAreFound ==
  ASSUME DictBase, NEW i \in DictInstance, FindDicts(i)
  PROVE  \E f \in DictInstances : DictMoves(i, f) /\ f.pc = "saveDicts"
<1> DEFINE codes == DictsIn(dictInst[i].batch)
           ids == [c \in DictCode |-> IF c \in codes THEN IdOf(c) ELSE 0]
           f == [dictInst[i] EXCEPT !.pc = "saveDicts", !.ids = ids]
<1>1. dicts \in Seq(DictRows) /\ dicts' = dicts
  BY DEF DictBase, DictTypeOK, FindDicts
<1>2. /\ dictInst[i].pc = "findDicts" /\ dictInst' = [dictInst EXCEPT ![i] = f]
  BY DEF FindDicts
<1>3. codes \subseteq DictCode
  BY FlushTyped, Merged
<1>4. ids \in [DictCode -> Nat]
  BY <1>1, IdOfThere
<1>5. \A c \in codes : ids[c] = IdOf(c) /\ ids[c] \in 0 .. Len(dicts)
  BY <1>1, <1>3, IdOfThere
<1>6. \A c, e \in codes : ids[c] = ids[e] /\ ids[c] # 0 => c = e
  BY <1>1, <1>5, IdOfThere
<1> HIDE DEF ids, codes
<1>7. /\ f \in DictInstances /\ f.pc = "saveDicts" /\ f.ids = ids
      /\ f.version = dictInst[i].version /\ f.batch = dictInst[i].batch
      /\ f.todo = dictInst[i].todo
  BY <1>4, FlushTyped DEF DictInstances, DictFlushing
<1> HIDE DEF f
<1>8. FlushFits(f)
  BY <1>2, <1>6, <1>7, FlushTyped DEF FlushFits, DictFlushing, DictsSaved, DictsFound, codes
<1> QED
  BY <1>1, <1>2, <1>5, <1>7, <1>8 DEF DictMoves, codes

\* What saveDicts leaves: every dictionary of the batch under its id, as generated.
LEMMA DictsAreSaved ==
  ASSUME DictBase, NEW i \in DictInstance, SaveDicts(i), ~DictFails(i)
  PROVE  \E f \in DictInstances :
           /\ DictMoves(i, f) /\ f.pc = "findItems" /\ f.todo = {}
           /\ f.left = DictsIn(f.batch)
           /\ dicts' \in Seq(DictRows) /\ Len(dicts) <= Len(dicts') /\ DictCodesDiffer'
           /\ \A c \in DictsIn(f.batch) : f.ids[c] \in DOMAIN dicts' /\ dicts'[f.ids[c]] = Generated(c)
<1> DEFINE codes == DictsIn(dictInst[i].batch)
           ids == dictInst[i].ids
           unknown == {c \in codes : ids[c] = 0}
           fresh == SetToSeq(unknown)
           place(c) == CHOOSE k \in DOMAIN fresh : fresh[k] = c
           saved == [c \in DictCode |-> IF c \notin codes \/ ids[c] # 0 THEN ids[c]
                                        ELSE Len(dicts) + place(c)]
           f == [dictInst[i] EXCEPT !.pc = "findItems", !.ids = saved, !.left = codes]
           n == Len(dicts)
           m == Len(fresh)
<1>1. /\ dictInst[i].pc = "saveDicts" /\ dictInst' = [dictInst EXCEPT ![i] = f]
      /\ \A c \in codes, d \in DOMAIN dicts : dicts[d].code = c => d = ids[c]
      /\ dicts' = [d \in 1 .. n + m |->
                     IF \E c \in codes : saved[c] = d
                     THEN [code |-> CHOOSE c \in codes : saved[c] = d, genType |-> "1"]
                     ELSE dicts[d]]
  <2>1. dictInst[i].pc = "saveDicts"
    BY DEF SaveDicts
  <2>2. ~(\E c \in codes, d \in DOMAIN dicts : dicts[d].code = c /\ d # ids[c])
    BY DEF SaveDicts
  <2>3. dictInst' = [dictInst EXCEPT ![i].pc = "findItems", ![i].ids = saved, ![i].left = codes]
    BY DEF SaveDicts
  <2>4. dictInst' = [dictInst EXCEPT ![i] = f]
    BY <2>3
  <2>5. dicts' = [d \in 1 .. n + m |->
                   IF \E c \in codes : saved[c] = d
                   THEN [code |-> CHOOSE c \in codes : saved[c] = d, genType |-> "1"]
                   ELSE dicts[d]]
    BY DEF SaveDicts
  <2> QED
    BY <2>1, <2>2, <2>4, <2>5
<1>2. dicts \in Seq(DictRows) /\ n \in Nat /\ DOMAIN dicts = 1 .. n
  BY DEF DictBase, DictTypeOK
<1>3. codes \subseteq DictCode /\ IsFiniteSet(codes)
  BY FlushTyped, Merged
<1>4. /\ ids \in [DictCode -> Nat] /\ dictInst[i].todo = {}
      /\ \A c \in codes : ids[c] \in 0 .. n
      /\ \A c, e \in codes : ids[c] = ids[e] /\ ids[c] # 0 => c = e
      /\ dictInst[i].version \in DictVersion /\ dictInst[i].batch = DictDeclared[dictInst[i].version]
  BY <1>1, FlushTyped DEF FlushFits, DictInstances, DictsFound, DictsSaved, DictFlushing
<1>5. IsFiniteSet(unknown)
  BY <1>3, FS_Subset
<1>6. /\ m \in Nat /\ DOMAIN fresh = 1 .. m /\ fresh \in [1 .. m -> unknown]
      /\ \A k, l \in 1 .. m : fresh[k] = fresh[l] => k = l
      /\ \A c \in unknown : \E k \in 1 .. m : fresh[k] = c
  BY <1>5, ListedOnce
<1> HIDE DEF fresh
<1>7. \A c \in unknown : place(c) \in 1 .. m /\ fresh[place(c)] = c
  BY <1>6
<1>8. \A k \in 1 .. m : fresh[k] \in unknown /\ place(fresh[k]) = k
  BY <1>6, <1>7
<1> HIDE DEF place
<1>9. \A c \in codes : IF ids[c] # 0 THEN saved[c] = ids[c] /\ saved[c] \in 1 .. n
                       ELSE saved[c] = n + place(c) /\ saved[c] \in n + 1 .. n + m
  <2> SUFFICES ASSUME NEW c \in codes
               PROVE  IF ids[c] # 0 THEN saved[c] = ids[c] /\ saved[c] \in 1 .. n
                      ELSE saved[c] = n + place(c) /\ saved[c] \in n + 1 .. n + m
    OBVIOUS
  <2>1. c \in DictCode /\ ids[c] \in 0 .. n
    BY <1>3, <1>4
  <2>2. saved[c] = IF ids[c] # 0 THEN ids[c] ELSE n + place(c)
    BY <2>1
  <2>3. ids[c] = 0 => place(c) \in 1 .. m
    BY <1>7
  <2> HIDE DEF saved, ids
  <2> QED
    BY <1>2, <1>6, <2>1, <2>2, <2>3
<1>10. saved \in [DictCode -> Nat]
  <2> SUFFICES ASSUME NEW c \in DictCode PROVE saved[c] \in Nat
    OBVIOUS
  <2>1. CASE c \in codes /\ ids[c] = 0
    <3>1. saved[c] \in n + 1 .. n + m
      BY <1>9, <2>1
    <3> HIDE DEF saved
    <3> QED
      BY <1>2, <1>6, <3>1
  <2>2. CASE ~(c \in codes /\ ids[c] = 0)
    BY <1>4, <2>2
  <2> QED
    BY <2>1, <2>2
<1> HIDE DEF saved
<1>11. \A c, e \in codes : saved[c] = saved[e] => c = e
  <2> SUFFICES ASSUME NEW c \in codes, NEW e \in codes, saved[c] = saved[e] PROVE c = e
    OBVIOUS
  <2>1. CASE ids[c] # 0 /\ ids[e] # 0
    BY <1>4, <1>9, <2>1
  <2>2. CASE ids[c] = 0 /\ ids[e] = 0
    <3>1. place(c) \in 1 .. m /\ place(e) \in 1 .. m /\ fresh[place(c)] = c /\ fresh[place(e)] = e
      BY <1>7, <2>2
    <3>2. n + place(c) = n + place(e)
      BY <1>9, <2>2
    <3>3. place(c) = place(e)
      BY <1>2, <1>6, <3>1, <3>2
    <3> QED
      BY <3>1, <3>3
  <2>3. CASE (ids[c] = 0) # (ids[e] = 0)
    <3>1. \A k \in 1 .. n, l \in n + 1 .. n + m : k # l
      BY <1>2, <1>6
    <3> QED
      BY <1>9, <2>3, <3>1
  <2> QED
    BY <2>1, <2>2, <2>3
<1>12. ASSUME NEW d \in 1 .. n + m PROVE d \in 1 .. n \/ \E c \in codes : saved[c] = d
  <2>1. ASSUME d \notin 1 .. n PROVE \E c \in codes : saved[c] = d
    <3>1. d - n \in 1 .. m /\ n + (d - n) = d
      BY <1>2, <1>6, <2>1
    <3>2. fresh[d - n] \in unknown /\ place(fresh[d - n]) = d - n
      BY <1>8, <3>1
    <3>3. saved[fresh[d - n]] = n + (d - n)
      BY <1>9, <3>2
    <3> QED
      BY <3>1, <3>2, <3>3
  <2> QED
    BY <2>1
<1>13. \A c \in codes : saved[c] \in 1 .. n + m
  <2>1. \A k \in 1 .. n : k \in 1 .. n + m
    BY <1>2, <1>6
  <2>2. \A k \in n + 1 .. n + m : k \in 1 .. n + m
    BY <1>2, <1>6
  <2> QED
    BY <1>9, <2>1, <2>2
<1>14. \A c \in codes : dicts'[saved[c]] = Generated(c)
  BY <1>1, <1>11, <1>13 DEF Generated
<1>15. \A d \in 1 .. n + m : (\A c \in codes : saved[c] # d) => d \in 1 .. n /\ dicts'[d] = dicts[d]
  BY <1>1, <1>12
<1>16. \A d \in 1 .. n + m : dicts'[d] \in DictRows
  <2>1. \A c \in codes : Generated(c) \in DictRows
    BY <1>3 DEF Generated, DictRows
  <2> QED
    BY <1>2, <1>14, <1>15, <2>1
<1>17. DOMAIN dicts' = 1 .. n + m /\ n + m \in Nat
  BY <1>1, <1>2, <1>6
<1>18. dicts' \in Seq(DictRows) /\ Len(dicts') = n + m
  <2>1. dicts' \in [1 .. n + m -> DictRows]
    BY <1>1, <1>16
  <2> QED
    BY <1>17, <2>1
<1>19. DictCodesDiffer'
  <2> SUFFICES ASSUME NEW d \in 1 .. n + m, NEW e \in 1 .. n + m, dicts'[d].code = dicts'[e].code
               PROVE  d = e
    BY <1>17 DEF DictCodesDiffer
  <2>1. \A c \in codes : Generated(c).code = c
    BY DEF Generated
  <2>2. ASSUME NEW c \in codes, NEW k \in 1 .. n + m, dicts'[k].code = c PROVE k = saved[c]
    <3>1. CASE \E a \in codes : saved[a] = k
      <4>1. PICK a \in codes : saved[a] = k
        BY <3>1
      <4>2. dicts'[k].code = a
        BY <1>14, <2>1, <4>1
      <4> QED
        BY <2>2, <4>1, <4>2
    <3>2. CASE \A a \in codes : saved[a] # k
      <4>1. k \in 1 .. n /\ dicts[k].code = c
        BY <1>15, <2>2, <3>2
      <4>2. k = ids[c]
        BY <1>1, <1>2, <4>1
      <4>3. ids[c] # 0
        BY <1>2, <4>1, <4>2
      <4> QED
        BY <1>9, <4>2, <4>3
    <3> QED
      BY <3>1, <3>2
  <2>3. CASE \E c \in codes : saved[c] = d
    <3>1. PICK c \in codes : saved[c] = d
      BY <2>3
    <3>2. dicts'[d].code = c
      BY <1>14, <2>1, <3>1
    <3> QED
      BY <2>2, <3>1, <3>2
  <2>4. CASE \E c \in codes : saved[c] = e
    <3>1. PICK c \in codes : saved[c] = e
      BY <2>4
    <3>2. dicts'[e].code = c
      BY <1>14, <2>1, <3>1
    <3> QED
      BY <2>2, <3>1, <3>2
  <2>5. CASE ~(\E c \in codes : saved[c] = d) /\ ~(\E c \in codes : saved[c] = e)
    <3>1. d \in 1 .. n /\ e \in 1 .. n /\ dicts[d].code = dicts[e].code
      BY <1>15, <2>5
    <3> QED
      BY <1>2, <3>1 DEF DictBase, DictCodesDiffer
  <2> QED
    BY <2>3, <2>4, <2>5
<1>20. /\ f \in DictInstances /\ f.pc = "findItems" /\ f.ids = saved /\ f.left = codes
       /\ f.version = dictInst[i].version /\ f.batch = dictInst[i].batch /\ f.todo = {}
  <2>1. dictInst[i] \in DictInstances
    BY FlushTyped
  <2> QED
    BY <1>3, <1>4, <1>10, <2>1 DEF DictInstances, DictFlushing
<1> HIDE DEF f
<1>21. \A c \in codes : saved[c] # 0
  BY <1>13
<1>22. FlushFits(f)
  BY <1>4, <1>11, <1>20, <1>21, FS_EmptySet DEF FlushFits, DictFlushing, DictsSaved, DictsFound
<1>23. \A c \in codes : f.ids[c] \in 0 .. Len(dicts')
  BY <1>13, <1>17, <1>18, <1>20
<1>24. DictMoves(i, f)
  BY <1>1, <1>20, <1>22, <1>23 DEF DictMoves
<1>25. Len(dicts) <= Len(dicts')
  BY <1>2, <1>6, <1>18
<1> HIDE DEF codes
<1> QED
  BY <1>13, <1>14, <1>17, <1>18, <1>19, <1>20, <1>24, <1>25 DEF codes

LEMMA HashTyped ==
  ASSUME NEW d \in Nat, NEW c \in DictCode, NEW x \in ItemCode, NEW value \in ItemValue, NEW row \in Nat
  PROVE  /\ GenerateHash(d, c, x, value) \in Hashes
         /\ [row |-> row, hash |-> GenerateHash(d, c, x, value)] \in ItemWrites
BY DEF GenerateHash, Hashes, ItemWrites

\* What findItems adds for dictionary c: its items that are not there as declared, each
\* with the row it is to be written to.
NewItems(f, c) ==
  {x \in DOMAIN MergeDicts(f.batch)[c] :
     ~\E r \in DOMAIN items :
        /\ items[r].dict = f.ids[c]
        /\ items[r].hash = GenerateHash(f.ids[c], c, x, MergeDicts(f.batch)[c][x])}

NewWrite(f, c, x, row) ==
  [row |-> row, hash |-> GenerateHash(f.ids[c], c, x, MergeDicts(f.batch)[c][x])]

AddsWrites(f, c, row, todo) ==
  /\ row \in [NewItems(f, c) -> Nat]
  /\ \A x \in NewItems(f, c) :
       IF row[x] = 0 THEN Stands(f.ids[c], x) = {} ELSE row[x] \in Stands(f.ids[c], x)
  /\ todo = f.todo \cup {NewWrite(f, c, x, row[x]) : x \in NewItems(f, c)}

LEMMA WritesTyped ==
  ASSUME DictBase, NEW i \in DictInstance, dictInst[i].pc = "findItems",
         NEW c \in dictInst[i].left, NEW row, NEW todo, AddsWrites(dictInst[i], c, row, todo)
  PROVE  todo \in SUBSET ItemWrites /\ IsFiniteSet(todo) /\ c \in DictsIn(dictInst[i].batch)
<1> DEFINE g == dictInst[i]
           news == NewItems(g, c)
           added == {NewWrite(g, c, x, row[x]) : x \in news}
<1>1. /\ g \in DictInstances /\ g.left \subseteq DictsIn(g.batch) /\ IsFiniteSet(g.todo)
      /\ g.batch \in Seq(DictRecords)
  BY FlushTyped DEF FlushFits, DictsSaved
<1>2. g.todo \in SUBSET ItemWrites /\ g.ids \in [DictCode -> Nat]
  BY <1>1 DEF DictInstances
<1>3. c \in DictsIn(g.batch) /\ c \in DictCode
  BY <1>1, Merged
<1>4. news \subseteq DOMAIN MergeDicts(g.batch)[c]
  BY DEF NewItems
<1>5. /\ news \subseteq ItemCode
      /\ \A x \in news : MergeDicts(g.batch)[c][x] \in ItemValue
  BY <1>1, <1>3, <1>4, Merged
<1>6. row \in [news -> Nat]
  BY DEF AddsWrites
<1>7. IsFiniteSet(news)
  BY <1>5, DictAssumption, FS_Subset
<1> HIDE DEF news
<1>8. added \in SUBSET ItemWrites
  <2> SUFFICES ASSUME NEW x \in news PROVE NewWrite(g, c, x, row[x]) \in ItemWrites
    OBVIOUS
  <2>1. g.ids[c] \in Nat /\ x \in ItemCode /\ MergeDicts(g.batch)[c][x] \in ItemValue /\ row[x] \in Nat
    BY <1>2, <1>3, <1>5, <1>6
  <2> HIDE DEF g
  <2> QED
    BY <1>3, <2>1, HashTyped DEF NewWrite
<1>9. IsFiniteSet(added)
  <2> DEFINE h == [x \in news |-> NewWrite(g, c, x, row[x])]
  <2>1. h \in Surjection(news, added)
    BY DEF Surjection
  <2> QED
    BY <1>7, <2>1, FS_Surjection
<1>10. IsFiniteSet(g.todo \cup added)
  BY <1>1, <1>9, FS_Union
<1>11. todo = g.todo \cup added
  BY DEF AddsWrites, news
<1> QED
  BY <1>2, <1>3, <1>8, <1>10, <1>11

LEMMA ItemsAreFound ==
  ASSUME DictBase, NEW i \in DictInstance, FindItems(i)
  PROVE  \E c \in dictInst[i].left : \E row, todo :
           /\ AddsWrites(dictInst[i], c, row, todo)
           /\ \/ DictSucceeds(i) /\ dictInst[i].left \ {c} = {} /\ todo = {}
              \/ \E f \in DictInstances :
                   /\ DictMoves(i, f) /\ f.pc \in DictsSaved
                   /\ f.batch = dictInst[i].batch /\ f.ids = dictInst[i].ids
                   /\ f.left = dictInst[i].left \ {c} /\ f.todo = todo
                   /\ dictGhost' = dictGhost
<1> DEFINE g == dictInst[i]
           d(c) == g.ids[c]
           declared(c) == MergeDicts(g.batch)[c]
           hash(c, x) == GenerateHash(d(c), c, x, declared(c)[x])
           news(c) == {x \in DOMAIN declared(c) :
                         ~\E r \in DOMAIN items : items[r].dict = d(c) /\ items[r].hash = hash(c, x)}
           rows(c, x) == IF ItemRowsOf(d(c), x) = {} THEN {0} ELSE ItemRowsOf(d(c), x)
           adds(c, row) == g.todo \cup {[row |-> row[x], hash |-> hash(c, x)] : x \in news(c)}
           rest(c) == g.left \ {c}
           Chosen(c, row) ==
             /\ \A x \in news(c) : row[x] \in rows(c, x)
             /\ IF rest(c) = {} /\ adds(c, row) = {}
                THEN DictSucceeds(i)
                ELSE /\ dictInst' = [dictInst EXCEPT ![i].left = rest(c), ![i].todo = adds(c, row),
                          ![i].pc = IF rest(c) = {} THEN "saveItems" ELSE "findItems"]
                     /\ UNCHANGED dictGhost
<1>0. \E c \in g.left : \E row \in [news(c) -> 0 .. Len(items)] : Chosen(c, row)
  BY DEF FindItems
<1>p. PICK c \in g.left : \E row \in [news(c) -> 0 .. Len(items)] : Chosen(c, row)
  BY <1>0
<1>1. PICK row \in [news(c) -> 0 .. Len(items)] : Chosen(c, row)
  BY <1>p
<1>2. g.pc = "findItems" /\ dicts' = dicts
  BY DEF FindItems
<1> DEFINE todo == adds(c, row)
<1>3. news(c) = NewItems(g, c)
  BY DEF NewItems
<1>4. Len(items) \in Nat
  BY DEF DictBase, DictTypeOK
<1>5. AddsWrites(g, c, row, todo)
  <2>1. row \in [NewItems(g, c) -> Nat]
    <3>1. 0 .. Len(items) \subseteq Nat
      BY <1>4
    <3>2. row \in [NewItems(g, c) -> 0 .. Len(items)]
      BY <1>1, <1>3
    <3> QED
      BY <3>1, <3>2
  <2>2. ASSUME NEW x \in NewItems(g, c)
        PROVE  IF row[x] = 0 THEN Stands(d(c), x) = {} ELSE row[x] \in Stands(d(c), x)
    <3>1. row[x] \in rows(c, x)
      BY <1>1, <1>3
    <3>2. ItemRowsOf(d(c), x) = Stands(d(c), x)
      BY DEF ItemRowsOf, Stands
    <3>3. 0 \notin DOMAIN items
      BY DEF DictBase, DictTypeOK
    <3>4. 0 \notin Stands(d(c), x)
      BY <3>3 DEF Stands
    <3> QED
      BY <3>1, <3>2, <3>4
  <2>3. todo = g.todo \cup {NewWrite(g, c, x, row[x]) : x \in NewItems(g, c)}
    BY <1>3 DEF NewWrite
  <2> QED
    BY <2>1, <2>2, <2>3 DEF AddsWrites
<1> HIDE DEF todo
<1>6. todo \in SUBSET ItemWrites /\ IsFiniteSet(todo)
  BY <1>2, <1>5, WritesTyped
<1>7. CASE rest(c) = {} /\ adds(c, row) = {}
  BY <1>1, <1>5, <1>7 DEF todo
<1>8. CASE ~(rest(c) = {} /\ adds(c, row) = {})
  <2> DEFINE pc == IF rest(c) = {} THEN "saveItems" ELSE "findItems"
             f == [g EXCEPT !.left = rest(c), !.todo = todo, !.pc = pc]
  <2>1. dictInst' = [dictInst EXCEPT ![i] = f] /\ dictGhost' = dictGhost
    BY <1>1, <1>8 DEF todo
  <2>2. /\ g \in DictInstances /\ FlushFits(g)
        /\ g.version \in DictVersion /\ g.batch = DictDeclared[g.version]
        /\ \A e \in DictsIn(g.batch) : g.ids[e] \in 0 .. Len(dicts)
    BY <1>2, FlushTyped DEF DictFlushing, DictsFound
  <2>3. f \in DictInstances
    BY <1>6, <2>2 DEF DictInstances, DictFlushing
  <2>4. /\ f.pc = pc /\ f.left = rest(c) /\ f.todo = todo /\ f.batch = g.batch
        /\ f.ids = g.ids /\ f.version = g.version
    BY <2>2 DEF DictInstances
  <2>5. pc \in {"findItems", "saveItems"} /\ (pc = "saveItems" => rest(c) = {})
    OBVIOUS
  <2> HIDE DEF f, pc
  <2>6. FlushFits(f)
    BY <1>2, <1>6, <2>2, <2>4, <2>5 DEF FlushFits, DictsFound, DictsSaved, DictFlushing
  <2>7. DictMoves(i, f)
    BY <1>2, <2>1, <2>2, <2>3, <2>4, <2>6 DEF DictMoves
  <2> QED
    BY <1>5, <2>1, <2>3, <2>4, <2>5, <2>7 DEF DictsSaved
<1> QED
  BY <1>7, <1>8

\* The comparison of one more dictionary keeps what is to be written apart and to the point.
LEMMA ComparedOneMore ==
  ASSUME DictBase, ItemsDiffer, NEW i \in DictInstance, dictInst[i].pc = "findItems",
         TodoFits(dictInst[i]), Compared(dictInst[i]),
         NEW c \in dictInst[i].left, NEW row, NEW todo, AddsWrites(dictInst[i], c, row, todo),
         NEW f, f.batch = dictInst[i].batch, f.ids = dictInst[i].ids, f.todo = todo,
         f.left = dictInst[i].left \ {c}
  PROVE  TodoFits(f) /\ Compared(f)
<1> DEFINE g == dictInst[i]
           codes == DictsIn(g.batch)
           news == NewItems(g, c)
           m(e) == MergeDicts(g.batch)[e]
           write(x) == NewWrite(g, c, x, row[x])
<1>1. /\ \A e, h \in codes : g.ids[e] = g.ids[h] => e = h
      /\ \A e \in codes : g.ids[e] # 0
      /\ c \in codes /\ g.left \subseteq codes
  BY FlushTyped DEF FlushFits, DictsFound, DictsSaved
<1>2. /\ todo = g.todo \cup {write(x) : x \in news}
      /\ \A x \in news : IF row[x] = 0 THEN Stands(g.ids[c], x) = {}
                         ELSE row[x] \in Stands(g.ids[c], x)
  BY DEF AddsWrites
<1>3. \A x \in news : /\ write(x).row = row[x] /\ write(x).hash.dict = g.ids[c]
                      /\ write(x).hash.code = x /\ write(x).hash.value = m(c)[x]
  BY DEF NewWrite, GenerateHash
<1>4. \A t \in g.todo :
        /\ \E e \in codes \ g.left : t.hash.dict = g.ids[e]
        /\ t.row # 0 => t.row \in Stands(t.hash.dict, t.hash.code)
        /\ t.row = 0 => Stands(t.hash.dict, t.hash.code) = {}
  BY DEF TodoFits
<1>5. \A t \in g.todo : t.hash.dict # g.ids[c]
  BY <1>1, <1>4
<1>6. \A t \in todo : t \in g.todo \/ \E x \in news : t = write(x)
  BY <1>2
<1>7. codes \ (g.left \ {c}) = (codes \ g.left) \cup {c}
  BY <1>1
<1> HIDE DEF write, news
<1>8. TodoFits(f)
  <2>1. ASSUME NEW t \in todo
        PROVE  /\ \E e \in codes \ f.left : t.hash.dict = g.ids[e]
               /\ t.row # 0 => t.row \in Stands(t.hash.dict, t.hash.code)
               /\ t.row = 0 => Stands(t.hash.dict, t.hash.code) = {}
    <3>1. CASE t \in g.todo
      BY <1>4, <1>7, <3>1
    <3>2. CASE \E x \in news : t = write(x)
      BY <1>2, <1>3, <1>7, <3>2
    <3> QED
      BY <1>6, <3>1, <3>2
  <2>2. ASSUME NEW t \in todo, NEW u \in todo,
               t.hash.dict = u.hash.dict, t.hash.code = u.hash.code
        PROVE  t = u
    <3>1. CASE t \in g.todo /\ u \in g.todo
      BY <2>2, <3>1 DEF TodoFits
    <3>2. CASE (\E x \in news : t = write(x)) /\ (\E x \in news : u = write(x))
      BY <1>3, <2>2, <3>2
    <3>3. CASE t \in g.todo /\ (\E x \in news : u = write(x))
      BY <1>3, <1>5, <2>2, <3>3
    <3>4. CASE u \in g.todo /\ (\E x \in news : t = write(x))
      BY <1>3, <1>5, <2>2, <3>4
    <3> QED
      BY <1>6, <3>1, <3>2, <3>3, <3>4
  <2> QED
    BY <2>1, <2>2 DEF TodoFits
<1>9. ASSUME NEW e \in codes \ g.left, NEW x \in DOMAIN m(e)
      PROVE  \/ \E t \in todo : t.hash.dict = g.ids[e] /\ t.hash.code = x /\ t.hash.value = m(e)[x]
             \/ \E r \in Stands(g.ids[e], x) : items[r].value = m(e)[x] /\ \A t \in todo : t.row # r
  <2>1. CASE \E t \in g.todo : t.hash.dict = g.ids[e] /\ t.hash.code = x /\ t.hash.value = m(e)[x]
    BY <1>2, <2>1
  <2>2. CASE \E r \in Stands(g.ids[e], x) : items[r].value = m(e)[x] /\ \A t \in g.todo : t.row # r
    <3>1. PICK r \in Stands(g.ids[e], x) : items[r].value = m(e)[x] /\ \A t \in g.todo : t.row # r
      BY <2>2
    <3>2. r \in DOMAIN items /\ items[r].dict = g.ids[e] /\ r # 0
      BY <3>1 DEF Stands, DictBase, DictTypeOK
    <3>3. g.ids[e] # g.ids[c]
      BY <1>1, <1>9
    <3>4. \A y \in news : write(y).row # r
      BY <1>2, <1>3, <3>2, <3>3 DEF Stands
    <3> QED
      BY <1>6, <3>1, <3>4
  <2> QED
    BY <2>1, <2>2 DEF Compared
<1>10. ASSUME NEW x \in DOMAIN m(c)
       PROVE  \/ \E t \in todo : t.hash.dict = g.ids[c] /\ t.hash.code = x /\ t.hash.value = m(c)[x]
              \/ \E r \in Stands(g.ids[c], x) : items[r].value = m(c)[x] /\ \A t \in todo : t.row # r
  <2>1. CASE x \in news
    <3>1. write(x) \in todo
      BY <1>2, <2>1
    <3> QED
      BY <1>3, <2>1, <3>1
  <2>2. CASE x \notin news
    <3>1. PICK r \in DOMAIN items :
            /\ items[r].dict = g.ids[c]
            /\ items[r].hash = GenerateHash(g.ids[c], c, x, m(c)[x])
      BY <2>2 DEF news, NewItems
    <3>2. items[r].hash.dict # 0
      BY <1>1, <3>1 DEF GenerateHash
    <3>3. items[r] = ItemRow(items[r].hash)
      BY <3>2 DEF DictBase, HashesTell
    <3>4. items[r].code = x /\ items[r].value = m(c)[x]
      BY <3>1, <3>3 DEF ItemRow, GenerateHash
    <3>5. r \in Stands(g.ids[c], x) /\ r # 0
      BY <3>1, <3>4 DEF Stands, DictBase, DictTypeOK
    <3>6. \A t \in g.todo : t.row # r
      BY <1>4, <1>5, <3>1, <3>5 DEF Stands
    <3>7. \A y \in news : write(y).row # r
      <4> SUFFICES ASSUME NEW y \in news, row[y] = r PROVE FALSE
        BY <1>3
      <4>1. r \in Stands(g.ids[c], y)
        BY <1>2, <3>5
      <4>2. y = x
        BY <3>4, <4>1 DEF Stands
      <4> QED
        BY <2>2, <4>2
    <3> QED
      BY <1>6, <3>4, <3>5, <3>6, <3>7
  <2> QED
    BY <2>1, <2>2
<1>11. Compared(f)
  <2> SUFFICES ASSUME NEW e \in codes \ f.left, NEW x \in DOMAIN m(e)
               PROVE  \/ \E t \in todo : t.hash.dict = g.ids[e] /\ t.hash.code = x /\ t.hash.value = m(e)[x]
                      \/ \E r \in Stands(g.ids[e], x) : items[r].value = m(e)[x] /\ \A t \in todo : t.row # r
    BY DEF Compared
  <2>1. e = c \/ e \in codes \ g.left
    BY <1>7
  <2> QED
    BY <1>9, <1>10, <2>1
<1> QED
  BY <1>8, <1>11

\* What saveItems writes: its rows in place of those they stand for, the others at the end.
LEMMA ItemsAreSaved ==
  ASSUME DictBase, NEW i \in DictInstance, SaveItems(i)
  PROVE  LET todo == dictInst[i].todo  n == Len(items) IN
         /\ items' \in Seq(ItemRows) /\ HashesTell'
         /\ n \in Nat /\ DOMAIN items = 1 .. n
         /\ \E m \in Nat : \E new \in [1 .. m -> {t \in todo : t.row = 0}] :
              /\ Len(items') = n + m /\ DOMAIN items' = 1 .. n + m
              /\ \A k \in 1 .. m : items'[n + k] = ItemRow(new[k].hash)
              /\ \A k, l \in 1 .. m : new[k].hash = new[l].hash => k = l
              /\ \A t \in todo : t.row = 0 => \E k \in 1 .. m : new[k].hash = t.hash
         /\ \A r \in 1 .. n :
              IF \E t \in todo : t.row = r
              THEN \E t \in todo : t.row = r /\ items'[r] = ItemRow(t.hash)
              ELSE items'[r] = items[r]
<1> DEFINE todo == dictInst[i].todo
           n == Len(items)
           hashes == {t.hash : t \in {t \in todo : t.row = 0}}
           list == SetToSeq(hashes)
           m == Len(list)
           updated == [r \in DOMAIN items |->
                         IF \E t \in todo : t.row = r
                         THEN ItemRow((CHOOSE t \in todo : t.row = r).hash) ELSE items[r]]
           added == [k \in DOMAIN list |-> ItemRow(list[k])]
<1>1. items \in Seq(ItemRows) /\ n \in Nat /\ DOMAIN items = 1 .. n
  BY DEF DictBase, DictTypeOK
<1>2. todo \in SUBSET ItemWrites /\ IsFiniteSet(todo)
  BY FlushTyped DEF FlushFits, DictInstances
<1>3. IsFiniteSet(hashes)
  <2> DEFINE S == {t \in todo : t.row = 0}
             h == [t \in S |-> t.hash]
  <2>1. IsFiniteSet(S)
    BY <1>2, FS_Subset
  <2>2. h \in Surjection(S, hashes)
    BY DEF Surjection
  <2> QED
    BY <2>1, <2>2, FS_Surjection
<1>4. \A t \in todo : t.hash \in Hashes
  BY <1>2 DEF ItemWrites
<1>5. \A h \in Hashes : ItemRow(h) \in ItemRows /\ ItemRow(h).hash = h
  BY DEF ItemRow, Hashes, ItemRows
<1>6. items' = updated \o added
  BY DEF SaveItems
<1>7. /\ m \in Nat /\ list \in [1 .. m -> hashes] /\ DOMAIN list = 1 .. m
      /\ \A k, l \in 1 .. m : list[k] = list[l] => k = l
      /\ \A h \in hashes : \E k \in 1 .. m : list[k] = h
  BY <1>3, ListedOnce
<1> HIDE DEF list
<1>8. \A r \in 1 .. n :
        IF \E t \in todo : t.row = r
        THEN \E t \in todo : t.row = r /\ updated[r] = ItemRow(t.hash)
        ELSE updated[r] = items[r]
  BY <1>1
<1>9. updated \in Seq(ItemRows) /\ Len(updated) = n
  <2>1. \A r \in 1 .. n : updated[r] \in ItemRows
    BY <1>1, <1>4, <1>5, <1>8
  <2>2. updated \in [1 .. n -> ItemRows]
    BY <1>1, <2>1
  <2> HIDE DEF updated
  <2> QED
    BY <1>1, <2>2
<1>10. added \in Seq(ItemRows) /\ Len(added) = m /\ \A k \in 1 .. m : added[k] = ItemRow(list[k])
  <2>1. \A k \in 1 .. m : list[k] \in Hashes
    BY <1>4, <1>7
  <2>2. added \in [1 .. m -> ItemRows]
    BY <1>5, <1>7, <2>1
  <2>3. \A k \in 1 .. m : added[k] = ItemRow(list[k])
    BY <1>7
  <2> HIDE DEF added
  <2> QED
    BY <1>7, <2>2, <2>3
<1> HIDE DEF updated, added
<1>11. /\ items' \in Seq(ItemRows) /\ Len(items') = n + m /\ DOMAIN items' = 1 .. n + m
       /\ \A r \in 1 .. n : items'[r] = updated[r]
       /\ \A k \in 1 .. m : items'[n + k] = added[k]
  <2> HIDE DEF n, m, todo, hashes
  <2>1. /\ updated \in Seq(ItemRows) /\ n = Len(updated)
        /\ added \in Seq(ItemRows) /\ m = Len(added)
    BY <1>9, <1>10
  <2>2. /\ updated \o added \in Seq(ItemRows) /\ Len(updated \o added) = n + m
        /\ DOMAIN (updated \o added) = 1 .. n + m
        /\ \A r \in 1 .. n : (updated \o added)[r] = updated[r]
        /\ \A k \in 1 .. m : (updated \o added)[n + k] = added[k]
    BY <2>1, Joined
  <2> QED
    BY <1>6, <2>2
<1> DEFINE new == [k \in 1 .. m |-> CHOOSE t \in todo : t.row = 0 /\ t.hash = list[k]]
<1>12. \A k \in 1 .. m : new[k] \in {t \in todo : t.row = 0} /\ new[k].hash = list[k]
  <2> SUFFICES ASSUME NEW k \in 1 .. m
               PROVE  new[k] \in {t \in todo : t.row = 0} /\ new[k].hash = list[k]
    OBVIOUS
  <2>1. \E t \in todo : t.row = 0 /\ t.hash = list[k]
    BY <1>7
  <2> QED
    BY <2>1
<1>13. new \in [1 .. m -> {t \in todo : t.row = 0}]
  BY <1>12
<1> HIDE DEF new
<1>14. \A t \in todo : t.row = 0 => \E k \in 1 .. m : new[k].hash = t.hash
  <2> SUFFICES ASSUME NEW t \in todo, t.row = 0 PROVE \E k \in 1 .. m : new[k].hash = t.hash
    OBVIOUS
  <2>1. t.hash \in hashes
    OBVIOUS
  <2>2. PICK k \in 1 .. m : list[k] = t.hash
    BY <1>7, <2>1
  <2> QED
    BY <1>12, <2>2
<1>15. HashesTell'
  <2> SUFFICES ASSUME NEW r \in 1 .. n + m, items'[r].hash.dict # 0
               PROVE  items'[r] = ItemRow(items'[r].hash)
    BY <1>11 DEF HashesTell
  <2>1. CASE r \in 1 .. n
    <3>1. items'[r] = updated[r]
      BY <1>11, <2>1
    <3>2. CASE \E t \in todo : t.row = r
      BY <1>4, <1>5, <1>8, <2>1, <3>1, <3>2
    <3>3. CASE ~\E t \in todo : t.row = r
      BY <1>1, <1>8, <2>1, <3>1, <3>3 DEF DictBase, HashesTell
    <3> QED
      BY <3>2, <3>3
  <2>2. CASE r \notin 1 .. n
    <3>1. PICK k \in 1 .. m : r = n + k
      <4>1. r - n \in 1 .. m /\ r = n + (r - n)
        BY <1>1, <1>7, <2>2
      <4> QED
        BY <4>1
    <3>2. list[k] \in hashes
      BY <1>7
    <3>3. list[k] \in Hashes
      BY <1>4, <3>2
    <3>4. items'[r] = ItemRow(list[k])
      BY <1>10, <1>11, <3>1
    <3> QED
      BY <1>5, <3>3, <3>4
  <2> QED
    BY <2>1, <2>2
<1>16. \A k \in 1 .. m : items'[n + k] = ItemRow(new[k].hash)
  BY <1>10, <1>11, <1>12
<1>17. \A k, l \in 1 .. m : new[k].hash = new[l].hash => k = l
  BY <1>7, <1>12
<1>18. \A r \in 1 .. n :
         IF \E t \in todo : t.row = r
         THEN \E t \in todo : t.row = r /\ items'[r] = ItemRow(t.hash)
         ELSE items'[r] = items[r]
  BY <1>8, <1>11
<1> DEFINE Appended(p, q) ==
             /\ Len(items') = n + p /\ DOMAIN items' = 1 .. n + p
             /\ \A k \in 1 .. p : items'[n + k] = ItemRow(q[k].hash)
             /\ \A k, l \in 1 .. p : q[k].hash = q[l].hash => k = l
             /\ \A t \in todo : t.row = 0 => \E k \in 1 .. p : q[k].hash = t.hash
<1>19. Appended(m, new)
  BY <1>11, <1>14, <1>16, <1>17
<1> HIDE DEF Appended
<1>20. \E p \in Nat : \E q \in [1 .. p -> {t \in todo : t.row = 0}] : Appended(p, q)
  BY <1>7, <1>13, <1>19
<1> QED
  BY <1>1, <1>11, <1>15, <1>18, <1>20 DEF Appended
-----------------------------------------------------------------------------
(* Dictionaries: what holds at any time *)

DictGhosts == [overlapped : BOOLEAN, recoded : BOOLEAN, last : {0} \cup DictVersion]
DictCounters == [starts : 0 .. MaxDictStarts, edits : 0 .. MaxDictEdits, faults : 0 .. MaxDictFaults]
Forms(n) == {NoForm} \cup [op : {"dict"}, id : 0 .. n, code : DictCode]

LEMMA DictInitBase == DictInit => DictInv
<1> SUFFICES ASSUME DictInit PROVE DictInv
  OBVIOUS
<1>1. /\ dicts = <<>> /\ items = <<>> /\ dictForm = NoForm
      /\ \A i \in DictInstance : dictInst[i] = DictDown
      /\ dictInst \in [DictInstance -> DictInstances]
      /\ dictGhost = [overlapped |-> FALSE, recoded |-> FALSE, last |-> 0]
      /\ dictSpent = [starts |-> 0, edits |-> 0, faults |-> 0]
  BY DownFits DEF DictInit
<1>2. DictTypeOK
  <2>1. dictSpent \in DictCounters
    BY <1>1, DictBoundAssumption DEF DictCounters
  <2> QED
    BY <1>1, <2>1 DEF DictTypeOK, DictCounters
<1>3. \A i \in DictInstance : dictInst[i].pc = "down" /\ FlushFits(dictInst[i])
  BY <1>1, DownFits
<1>4. DOMAIN dicts = {} /\ DOMAIN items = {}
  BY <1>1
<1>5. DictBase
  BY <1>2, <1>3, <1>4 DEF DictBase, FlushesFit, IdsThere, DictsFound, DictCodesDiffer, HashesTell
<1>6. DictFlushAlone /\ DictsStill
  BY <1>3 DEF DictFlushAlone, DictsStill, InDictFlush, DictFlushing, DictsSaved
<1>7. DictCalm
  BY <1>1, <1>3, <1>4 DEF DictCalm, ItemsDiffer, DictsSaved
<1> QED
  BY <1>5, <1>6, <1>7 DEF DictInv

LEMMA FormsGrow ==
  ASSUME NEW n \in Nat, NEW m \in Nat, n <= m, NEW x \in Forms(n)
  PROVE  x \in Forms(m)
<1>1. CASE x = NoForm
  BY <1>1 DEF Forms
<1>2. CASE x \in [op : {"dict"}, id : 0 .. n, code : DictCode]
  <2>1. 0 .. n \subseteq 0 .. m
    OBVIOUS
  <2> QED
    BY <1>2, <2>1 DEF Forms
<1> QED
  BY <1>1, <1>2 DEF Forms

\* A step of a flush that leaves the tables as the database would keeps them so.
LEMMA BaseMoves ==
  ASSUME DictBase, NEW i \in DictInstance, NEW f \in DictInstances, DictMoves(i, f),
         dicts' \in Seq(DictRows), Len(dicts) <= Len(dicts'), DictCodesDiffer',
         items' \in Seq(ItemRows), HashesTell',
         dictForm' = dictForm, dictGhost' \in DictGhosts, dictSpent' \in DictCounters
  PROVE  DictBase'
<1>1. /\ dictInst' \in [DictInstance -> DictInstances] /\ dictInst'[i] = f
      /\ \A j \in DictInstance : j # i => dictInst'[j] = dictInst[j]
  BY MovesOne DEF DictBase, DictMoves
<1>2. Len(dicts) \in Nat /\ Len(dicts') \in Nat
  BY DEF DictBase, DictTypeOK
<1>3. dictForm' \in Forms(Len(dicts'))
  BY <1>2, FormsGrow DEF DictBase, DictTypeOK, Forms
<1>4. DictTypeOK'
  BY <1>1, <1>3 DEF DictTypeOK, Forms, DictGhosts, DictCounters
<1>5. FlushesFit'
  BY <1>1 DEF DictMoves, DictBase, FlushesFit
<1>6. IdsThere'
  <2> SUFFICES ASSUME NEW j \in DictInstance, dictInst'[j].pc \in DictsFound,
                      NEW c \in DictsIn(dictInst'[j].batch)
               PROVE  dictInst'[j].ids[c] \in 0 .. Len(dicts')
    BY DEF IdsThere
  <2>1. CASE j = i
    BY <1>1, <2>1 DEF DictMoves
  <2>2. CASE j # i
    <3>1. dictInst[j].ids[c] \in 0 .. Len(dicts)
      BY <1>1, <2>2 DEF DictBase, IdsThere
    <3> QED
      BY <1>1, <1>2, <2>2, <3>1
  <2> QED
    BY <2>1, <2>2
<1> QED
  BY <1>4, <1>5, <1>6 DEF DictBase

LEMMA SpentTyped ==
  ASSUME DictBase
  PROVE  /\ dictSpent \in DictCounters
         /\ DictSpend("starts", MaxDictStarts) => dictSpent' \in DictCounters
         /\ DictSpend("edits", MaxDictEdits) => dictSpent' \in DictCounters
         /\ DictSpend("faults", MaxDictFaults) => dictSpent' \in DictCounters
<1>1. dictSpent \in DictCounters
  BY DEF DictBase, DictTypeOK, DictCounters
<1>2. \A a, b \in Nat : a < b => a + 1 \in 0 .. b
  OBVIOUS
<1>3. MaxDictStarts \in Nat /\ MaxDictEdits \in Nat /\ MaxDictFaults \in Nat
  BY DictBoundAssumption
<1>4. dictSpent.starts \in Nat /\ dictSpent.edits \in Nat /\ dictSpent.faults \in Nat
  BY <1>1 DEF DictCounters
<1>5. DictSpend("starts", MaxDictStarts) => dictSpent' \in DictCounters
  BY <1>1, <1>2, <1>3, <1>4 DEF DictSpend, DictCounters
<1>6. DictSpend("edits", MaxDictEdits) => dictSpent' \in DictCounters
  BY <1>1, <1>2, <1>3, <1>4 DEF DictSpend, DictCounters
<1>7. DictSpend("faults", MaxDictFaults) => dictSpent' \in DictCounters
  BY <1>1, <1>2, <1>3, <1>4 DEF DictSpend, DictCounters
<1> QED
  BY <1>1, <1>5, <1>6, <1>7

LEMMA GhostTyped ==
  ASSUME DictBase
  PROVE  /\ dictGhost \in DictGhosts
         /\ \A o, r \in BOOLEAN : \A v \in {0} \cup DictVersion :
              [dictGhost EXCEPT !.overlapped = o, !.recoded = r, !.last = v] \in DictGhosts
BY DEF DictBase, DictTypeOK, DictGhosts

\* The administrators' writes keep what the tables have.
LEMMA BaseForms ==
  ASSUME DictBase, UNCHANGED dictInst,
         dicts' \in Seq(DictRows), Len(dicts) <= Len(dicts'), DictCodesDiffer',
         items' \in Seq(ItemRows), HashesTell',
         dictForm' \in Forms(Len(dicts')), dictGhost' \in DictGhosts, dictSpent' \in DictCounters
  PROVE  DictBase'
<1>1. Len(dicts) \in Nat /\ Len(dicts') \in Nat
  BY DEF DictBase, DictTypeOK
<1>2. DictTypeOK'
  BY DEF DictBase, DictTypeOK, Forms, DictGhosts, DictCounters
<1>3. FlushesFit'
  BY DEF DictBase, FlushesFit
<1>4. IdsThere'
  BY <1>1 DEF DictBase, IdsThere
<1> QED
  BY <1>2, <1>3, <1>4 DEF DictBase

LEMMA TablesKept ==
  ASSUME DictBase, UNCHANGED <<dicts, items>>
  PROVE  /\ dicts' \in Seq(DictRows) /\ Len(dicts) <= Len(dicts') /\ DictCodesDiffer'
         /\ items' \in Seq(ItemRows) /\ HashesTell'
<1>1. Len(dicts) \in Nat /\ dicts \in Seq(DictRows) /\ items \in Seq(ItemRows)
  BY DEF DictBase, DictTypeOK
<1> QED
  BY <1>1 DEF DictBase, DictCodesDiffer, HashesTell

LEMMA AdminRowTyped ==
  ASSUME NEW code \in ItemCode, NEW value \in ItemValue
  PROVE  /\ \E row \in ItemRows :
              /\ row = ItemRow(GenerateHash(0, NoDict, code, value))
              /\ row.hash.dict = 0 /\ row.dict = 0 /\ row.code = code
         /\ \A d \in Nat : \E row \in ItemRows :
              /\ row = [ItemRow(GenerateHash(0, NoDict, code, value)) EXCEPT !.dict = d]
              /\ row.hash.dict = 0 /\ row.dict = d /\ row.code = code
<1> DEFINE hash == GenerateHash(0, NoDict, code, value)
           row(d) == [dict |-> d, code |-> code, value |-> value, hash |-> hash]
<1>1. hash \in Hashes /\ hash.dict = 0 /\ hash.code = code /\ hash.value = value
  BY DEF GenerateHash, Hashes
<1> HIDE DEF hash
<1>2. ItemRow(hash) = row(0)
  BY <1>1 DEF ItemRow
<1>3. \A d \in Nat : /\ row(d) \in ItemRows /\ row(d).hash.dict = 0
                    /\ row(d).dict = d /\ row(d).code = code
  BY <1>1 DEF ItemRows
<1>4. \A d \in Nat : [row(0) EXCEPT !.dict = d] = row(d)
  OBVIOUS
<1> HIDE DEF row
<1>5. ItemRow(hash) \in ItemRows /\ ItemRow(hash).hash.dict = 0
      /\ ItemRow(hash).dict = 0 /\ ItemRow(hash).code = code
  BY <1>2, <1>3
<1>6. ASSUME NEW d \in Nat
      PROVE  \E z \in ItemRows : /\ z = [ItemRow(hash) EXCEPT !.dict = d]
                                 /\ z.hash.dict = 0 /\ z.dict = d /\ z.code = code
  BY <1>2, <1>3, <1>4
<1> QED
  BY <1>5, <1>6 DEF hash

LEMMA AdminGhost ==
  ASSUME DictBase, NEW recodes \in BOOLEAN, AdminWrites(recodes)
  PROVE  /\ dictGhost' \in DictGhosts /\ dictGhost'.last = 0
         /\ dictGhost'.recoded = (dictGhost.recoded \/ recodes)
         /\ dictGhost'.overlapped = (dictGhost.overlapped \/ \E i \in DictInstance : InDictFlush(i))
<1> DEFINE o == dictGhost.overlapped \/ \E i \in DictInstance : InDictFlush(i)
           r == dictGhost.recoded \/ recodes
<1>1. dictGhost' = [dictGhost EXCEPT !.last = 0, !.recoded = r, !.overlapped = o]
  BY DEF AdminWrites
<1>2. dictGhost \in DictGhosts
  BY GhostTyped
<1>3. o \in BOOLEAN /\ r \in BOOLEAN
  OBVIOUS
<1> HIDE DEF o, r
<1> QED
  BY <1>1, <1>2, <1>3 DEF DictGhosts, o, r

LEMMA RowWritten ==
  ASSUME DictBase, WriteDictRow
  PROVE  /\ DictBase' /\ items' = items /\ dictInst' = dictInst
         /\ UNCHANGED <<dicts, dictGhost>> \/ AdminWrites(FALSE)
<1> DEFINE f == dictForm  row == [code |-> f.code, genType |-> "2"]
<1>1. /\ f.op = "dict" /\ dictForm' = NoForm
      /\ IF CodeTaken(f.id, f.code) THEN UNCHANGED <<dicts, dictGhost>>
         ELSE /\ dicts' = IF f.id = 0 THEN Append(dicts, row) ELSE [dicts EXCEPT ![f.id] = row]
              /\ AdminWrites(FALSE)
      /\ items' = items /\ dictInst' = dictInst /\ dictSpent' = dictSpent
  BY DEF WriteDictRow
<1>2. /\ dicts \in Seq(DictRows) /\ Len(dicts) \in Nat /\ DOMAIN dicts = 1 .. Len(dicts)
      /\ items \in Seq(ItemRows)
  BY DEF DictBase, DictTypeOK
<1>3. f.id \in 0 .. Len(dicts) /\ f.code \in DictCode
  BY <1>1 DEF DictBase, DictTypeOK, NoForm
<1>4. dictSpent' \in DictCounters /\ dictForm' \in Forms(Len(dicts')) /\ HashesTell'
  BY <1>1, SpentTyped DEF Forms, DictBase, HashesTell
<1>5. CASE CodeTaken(f.id, f.code)
  <2>1. UNCHANGED <<dicts, items, dictGhost>>
    BY <1>1, <1>5
  <2>2. dictGhost' \in DictGhosts
    BY <2>1, GhostTyped
  <2> QED
    BY <1>1, <1>4, <2>1, <2>2, BaseForms, TablesKept
<1>6. CASE ~CodeTaken(f.id, f.code)
  <2>1. row \in DictRows /\ row.code = f.code
    BY <1>3 DEF DictRows
  <2> HIDE DEF row
  <2>2. \A d \in DOMAIN dicts : d # f.id => dicts[d].code # f.code
    BY <1>6 DEF CodeTaken
  <2>3. /\ dicts' \in Seq(DictRows) /\ Len(dicts) <= Len(dicts') /\ DictCodesDiffer'
    <3>1. CASE f.id = 0
      <4>1. dicts' = Append(dicts, row)
        BY <1>1, <1>6, <3>1 DEF row
      <4>2. /\ dicts' \in Seq(DictRows) /\ Len(dicts') = Len(dicts) + 1
            /\ DOMAIN dicts' = 1 .. Len(dicts) + 1
            /\ \A d \in 1 .. Len(dicts) : dicts'[d] = dicts[d]
            /\ dicts'[Len(dicts) + 1] = row
        BY <1>2, <2>1, <4>1
      <4>3. ASSUME NEW d \in 1 .. Len(dicts) + 1, NEW e \in 1 .. Len(dicts) + 1,
                   dicts'[d].code = dicts'[e].code
            PROVE  d = e
        <5>1. \A k \in 1 .. Len(dicts) + 1 : k = Len(dicts) + 1 \/ (k \in 1 .. Len(dicts) /\ k # f.id)
          BY <1>2, <3>1
        <5>2. \A k \in 1 .. Len(dicts) : dicts'[k].code # dicts'[Len(dicts) + 1].code
          <6> SUFFICES ASSUME NEW k \in 1 .. Len(dicts)
                       PROVE  dicts'[k].code # dicts'[Len(dicts) + 1].code
            OBVIOUS
          <6>1. k # 0 /\ k \in DOMAIN dicts
            BY <1>2
          <6>2. dicts[k].code # f.code
            BY <2>2, <3>1, <6>1
          <6> QED
            BY <2>1, <4>2, <6>2
        <5>3. CASE d \in 1 .. Len(dicts) /\ e \in 1 .. Len(dicts)
          BY <1>2, <4>2, <4>3, <5>3 DEF DictBase, DictCodesDiffer
        <5> QED
          BY <4>3, <5>1, <5>2, <5>3
      <4> QED
        BY <1>2, <4>2, <4>3 DEF DictCodesDiffer
    <3>2. CASE f.id # 0
      <4>1. f.id \in 1 .. Len(dicts) /\ dicts' = [dicts EXCEPT ![f.id] = row]
        BY <1>1, <1>2, <1>3, <1>6, <3>2 DEF row
      <4>2. /\ dicts' \in Seq(DictRows) /\ Len(dicts') = Len(dicts)
            /\ DOMAIN dicts' = 1 .. Len(dicts)
            /\ \A d \in 1 .. Len(dicts) : d # f.id => dicts'[d] = dicts[d]
            /\ dicts'[f.id] = row
        BY <1>2, <2>1, <4>1
      <4>3. ASSUME NEW d \in 1 .. Len(dicts), NEW e \in 1 .. Len(dicts),
                   dicts'[d].code = dicts'[e].code
            PROVE  d = e
        BY <1>2, <2>1, <2>2, <4>2, <4>3 DEF DictBase, DictCodesDiffer
      <4> QED
        BY <1>2, <4>2, <4>3 DEF DictCodesDiffer
    <3> QED
      BY <3>1, <3>2
  <2>4. dictGhost' \in DictGhosts /\ AdminWrites(FALSE)
    BY <1>1, <1>6, AdminGhost
  <2>5. items' \in Seq(ItemRows)
    BY <1>1, <1>2
  <2> QED
    BY <1>1, <1>4, <2>3, <2>4, <2>5, BaseForms
<1> QED
  BY <1>5, <1>6

LEMMA DictRequested ==
  ASSUME DictBase, RequestDict
  PROVE  DictBase'
<1>1. PICK id \in 0 .. Len(dicts), code \in DictCode : dictForm' = [op |-> "dict", id |-> id, code |-> code]
  BY DEF RequestDict
<1>2. UNCHANGED <<dicts, items, dictInst, dictGhost>> /\ DictSpend("edits", MaxDictEdits)
  BY DEF RequestDict
<1>3. dictForm' \in Forms(Len(dicts'))
  BY <1>1, <1>2 DEF Forms
<1>4. dictSpent' \in DictCounters /\ dictGhost' \in DictGhosts
  BY <1>2, SpentTyped, GhostTyped
<1> QED
  BY <1>2, <1>3, <1>4, BaseForms, TablesKept

\* The items that administrators save belong to no dictionary; those they edit stay in theirs.
LEMMA ItemSaved ==
  ASSUME DictBase, SaveItem
  PROVE  /\ DictBase' /\ dicts' = dicts /\ dictInst' = dictInst
         /\ AdminWrites(FALSE) /\ Len(items) \in Nat
         /\ DOMAIN items = 1 .. Len(items) /\ DOMAIN items' = 1 .. Len(items) + 1
         /\ \A r \in 1 .. Len(items) : items'[r] = items[r]
         /\ items'[Len(items) + 1].dict = 0
<1>1. PICK code \in ItemCode, value \in ItemValue :
        items' = Append(items, ItemRow(GenerateHash(0, NoDict, code, value)))
  BY DEF SaveItem
<1>2. UNCHANGED <<dicts, dictInst, dictForm>> /\ DictSpend("edits", MaxDictEdits) /\ AdminWrites(FALSE)
  BY DEF SaveItem
<1>3. PICK row \in ItemRows : items' = Append(items, row) /\ row.hash.dict = 0 /\ row.dict = 0
  BY <1>1, AdminRowTyped
<1>4. dicts \in Seq(DictRows) /\ items \in Seq(ItemRows) /\ Len(dicts) \in Nat
  BY DEF DictBase, DictTypeOK
<1>5. /\ items' \in Seq(ItemRows) /\ Len(items) \in Nat
      /\ DOMAIN items = 1 .. Len(items) /\ DOMAIN items' = 1 .. Len(items) + 1
      /\ \A r \in 1 .. Len(items) : items'[r] = items[r]
      /\ items'[Len(items) + 1] = row
  BY <1>3, <1>4
<1>6. HashesTell'
  <2> SUFFICES ASSUME NEW r \in 1 .. Len(items) + 1, items'[r].hash.dict # 0
               PROVE  items'[r] = ItemRow(items'[r].hash)
    BY <1>5 DEF HashesTell
  <2>1. r # Len(items) + 1
    BY <1>3, <1>5
  <2>2. r \in 1 .. Len(items)
    BY <1>5, <2>1
  <2> QED
    BY <1>5, <2>2 DEF DictBase, HashesTell
<1>7. dictSpent' \in DictCounters /\ dictGhost' \in DictGhosts
  BY <1>2, SpentTyped, AdminGhost
<1>8. /\ dicts' \in Seq(DictRows) /\ Len(dicts) <= Len(dicts') /\ DictCodesDiffer'
      /\ dictForm' \in Forms(Len(dicts'))
  BY <1>2, <1>4 DEF DictBase, DictTypeOK, DictCodesDiffer, Forms
<1>9. DictBase'
  BY <1>2, <1>5, <1>6, <1>7, <1>8, BaseForms
<1> QED
  BY <1>2, <1>3, <1>5, <1>9

LEMMA ItemEdited ==
  ASSUME DictBase, EditItem
  PROVE  /\ DictBase' /\ dicts' = dicts /\ dictInst' = dictInst
         /\ DOMAIN items' = DOMAIN items
         /\ \A r \in DOMAIN items : items'[r].dict = items[r].dict
         /\ \E recodes \in BOOLEAN :
              /\ AdminWrites(recodes)
              /\ ~recodes => \A r \in DOMAIN items : items'[r].code = items[r].code
<1>1. PICK r \in DOMAIN items, code \in ItemCode, value \in ItemValue :
        /\ items' = [items EXCEPT ![r] = [ItemRow(GenerateHash(0, NoDict, code, value))
                                            EXCEPT !.dict = items[r].dict]]
        /\ AdminWrites(code # items[r].code)
  BY DEF EditItem
<1>2. UNCHANGED <<dicts, dictInst, dictForm>> /\ DictSpend("edits", MaxDictEdits)
  BY DEF EditItem
<1>3. /\ dicts \in Seq(DictRows) /\ items \in Seq(ItemRows) /\ Len(dicts) \in Nat
      /\ items[r] \in ItemRows /\ items[r].dict \in Nat
  <2>1. dicts \in Seq(DictRows) /\ items \in Seq(ItemRows)
    BY DEF DictBase, DictTypeOK
  <2>2. items[r] \in ItemRows
    BY <2>1
  <2> QED
    BY <2>1, <2>2 DEF ItemRows
<1>4. PICK row \in ItemRows : /\ items' = [items EXCEPT ![r] = row] /\ row.hash.dict = 0
                              /\ row.dict = items[r].dict /\ row.code = code
  <2> DEFINE d == items[r].dict
  <2>1. items' = [items EXCEPT ![r] = [ItemRow(GenerateHash(0, NoDict, code, value)) EXCEPT !.dict = d]]
    BY <1>1
  <2>2. d \in Nat
    BY <1>3
  <2> HIDE DEF d
  <2>3. PICK row \in ItemRows : /\ row = [ItemRow(GenerateHash(0, NoDict, code, value)) EXCEPT !.dict = d]
                                /\ row.hash.dict = 0 /\ row.dict = d /\ row.code = code
    BY <2>2, AdminRowTyped
  <2> QED
    BY <2>1, <2>3 DEF d
<1>5. /\ items' \in Seq(ItemRows) /\ DOMAIN items' = DOMAIN items
      /\ items'[r] = row /\ \A q \in DOMAIN items : q # r => items'[q] = items[q]
  BY <1>3, <1>4
<1>6. HashesTell'
  BY <1>4, <1>5 DEF DictBase, HashesTell
<1> DEFINE recodes == code # items[r].code
<1>7. AdminWrites(recodes) /\ recodes \in BOOLEAN
  BY <1>1
<1>8. ~recodes => \A q \in DOMAIN items : items'[q].code = items[q].code
  BY <1>4, <1>5
<1> HIDE DEF recodes
<1>9. dictSpent' \in DictCounters /\ dictGhost' \in DictGhosts
  BY <1>2, <1>7, SpentTyped, AdminGhost
<1>10. /\ dicts' \in Seq(DictRows) /\ Len(dicts) <= Len(dicts') /\ DictCodesDiffer'
       /\ dictForm' \in Forms(Len(dicts'))
  BY <1>2, <1>3 DEF DictBase, DictTypeOK, DictCodesDiffer, Forms
<1>11. DictBase'
  BY <1>2, <1>5, <1>6, <1>9, <1>10, BaseForms
<1> QED
  BY <1>2, <1>4, <1>5, <1>7, <1>8, <1>11

LEMMA SuccessGhost ==
  ASSUME DictBase, NEW i \in DictInstance, DictSucceeds(i)
  PROVE  /\ dictGhost' \in DictGhosts /\ dictGhost'.last = dictInst[i].version
         /\ dictGhost'.overlapped = dictGhost.overlapped /\ dictGhost'.recoded = dictGhost.recoded
<1>1. dictGhost' = [dictGhost EXCEPT !.last = dictInst[i].version]
  BY DEF DictSucceeds
<1>2. dictGhost \in DictGhosts
  BY GhostTyped
<1>3. dictInst[i].version \in {0} \cup DictVersion
  BY FlushTyped DEF DictInstances
<1> QED
  BY <1>1, <1>2, <1>3 DEF DictGhosts

LEMMA FlushGhost ==
  ASSUME DictBase, NEW i \in DictInstance, FlushPendingDicts(i)
  PROVE  /\ dictGhost' \in DictGhosts /\ dictGhost'.last = 0
         /\ dictGhost'.overlapped = (dictGhost.overlapped \/ \E j \in DictInstance : InDictFlush(j))
         /\ dictGhost'.recoded = dictGhost.recoded
<1> DEFINE o == dictGhost.overlapped \/ \E j \in DictInstance : InDictFlush(j)
<1>1. dictGhost' = [dictGhost EXCEPT !.last = 0, !.overlapped = o]
  BY DEF FlushPendingDicts
<1>2. dictGhost \in DictGhosts
  BY GhostTyped
<1>3. o \in BOOLEAN
  OBVIOUS
<1> HIDE DEF o
<1> QED
  BY <1>1, <1>2, <1>3 DEF DictGhosts, o

\* Every step keeps types, the ids that flushes have found and the codes of dictionaries.
LEMMA BaseStep ==
  ASSUME DictBase, [DictNext]_dictVars
  PROVE  DictBase'
<1>t. dictSpent \in DictCounters /\ dictGhost \in DictGhosts
  BY SpentTyped, GhostTyped
<1>1. ASSUME NEW i \in DictInstance, NEW v \in DictVersion, StartDict(i, v) PROVE DictBase'
  <2>1. PICK f \in DictInstances : DictMoves(i, f)
    BY <1>1, DictStarts
  <2>2. UNCHANGED <<dicts, items, dictForm, dictGhost>> /\ dictSpent' \in DictCounters
    BY <1>1, SpentTyped DEF StartDict
  <2> QED
    BY <1>t, <2>1, <2>2, BaseMoves, TablesKept
<1>2. ASSUME NEW i \in DictInstance, FlushPendingDicts(i) PROVE DictBase'
  <2>1. PICK f \in DictInstances : DictMoves(i, f)
    BY <1>2, DictFlushes
  <2>2. UNCHANGED <<dicts, items, dictForm, dictSpent>> /\ dictGhost' \in DictGhosts
    BY <1>2, FlushGhost DEF FlushPendingDicts
  <2> QED
    BY <1>t, <2>1, <2>2, BaseMoves, TablesKept
<1>3. ASSUME NEW i \in DictInstance, FindDicts(i) PROVE DictBase'
  <2>1. PICK f \in DictInstances : DictMoves(i, f)
    BY <1>3, DictsAreFound
  <2>2. UNCHANGED <<dicts, items, dictForm, dictGhost, dictSpent>>
    BY <1>3 DEF FindDicts
  <2> QED
    BY <1>t, <2>1, <2>2, BaseMoves, TablesKept
<1>4. ASSUME NEW i \in DictInstance, DictFails(i), dictSpent' \in DictCounters PROVE DictBase'
  <2>1. PICK f \in DictInstances : DictMoves(i, f)
    BY <1>4, DictFailures
  <2>2. UNCHANGED <<dicts, items, dictForm, dictGhost>>
    BY <1>4 DEF DictFails
  <2> QED
    BY <1>t, <1>4, <2>1, <2>2, BaseMoves, TablesKept
<1>5. ASSUME NEW i \in DictInstance, SaveDicts(i) PROVE DictBase'
  <2>1. dictSpent' = dictSpent
    BY <1>5 DEF SaveDicts
  <2>2. CASE DictFails(i)
    BY <1>t, <1>4, <2>1, <2>2
  <2>3. CASE ~DictFails(i)
    <3>1. UNCHANGED <<items, dictForm, dictGhost>>
      BY <1>5, <2>3 DEF SaveDicts
    <3>2. PICK f \in DictInstances :
            /\ DictMoves(i, f)
            /\ dicts' \in Seq(DictRows) /\ Len(dicts) <= Len(dicts') /\ DictCodesDiffer'
      BY <1>5, <2>3, DictsAreSaved
    <3>3. items' \in Seq(ItemRows) /\ HashesTell'
      BY <3>1 DEF DictBase, DictTypeOK, HashesTell
    <3> QED
      BY <1>t, <2>1, <3>1, <3>2, <3>3, BaseMoves
  <2> QED
    BY <2>2, <2>3
<1>6. ASSUME NEW i \in DictInstance, FindItems(i) PROVE DictBase'
  <2>1. UNCHANGED <<dicts, items, dictForm, dictSpent>>
    BY <1>6 DEF FindItems
  <2>2. \E f \in DictInstances : DictMoves(i, f) /\ dictGhost' \in DictGhosts
    BY <1>t, <1>6, ItemsAreFound, DictSuccesses, SuccessGhost
  <2> QED
    BY <1>t, <2>1, <2>2, BaseMoves, TablesKept
<1>7. ASSUME NEW i \in DictInstance, SaveItems(i) PROVE DictBase'
  <2>1. UNCHANGED <<dicts, dictForm, dictSpent>> /\ DictSucceeds(i)
    BY <1>7 DEF SaveItems
  <2>2. PICK f \in DictInstances : DictMoves(i, f)
    BY <2>1, DictSuccesses
  <2>3. items' \in Seq(ItemRows) /\ HashesTell' /\ dictGhost' \in DictGhosts
    BY <1>7, <2>1, ItemsAreSaved, SuccessGhost
  <2>4. dicts' \in Seq(DictRows) /\ Len(dicts) <= Len(dicts') /\ DictCodesDiffer'
    BY <2>1 DEF DictBase, DictTypeOK, DictCodesDiffer
  <2> QED
    BY <1>t, <2>1, <2>2, <2>3, <2>4, BaseMoves
<1>8. ASSUME NEW i \in DictInstance, DictCallFails(i) PROVE DictBase'
  BY <1>4, <1>8, SpentTyped DEF DictCallFails
<1>9. ASSUME NEW i \in DictInstance, StopDict(i) PROVE DictBase'
  <2>1. PICK f \in DictInstances : DictMoves(i, f)
    BY <1>9, DictStops
  <2>2. UNCHANGED <<dicts, items, dictForm, dictGhost, dictSpent>>
    BY <1>9 DEF StopDict
  <2> QED
    BY <1>t, <2>1, <2>2, BaseMoves, TablesKept
<1>10. CASE UNCHANGED dictVars
  <2>1. dictForm' \in Forms(Len(dicts'))
    BY <1>10 DEF dictVars, DictBase, DictTypeOK, Forms
  <2> QED
    BY <1>t, <1>10, <2>1, BaseForms, TablesKept DEF dictVars
<1> QED
  BY <1>1, <1>2, <1>3, <1>5, <1>6, <1>7, <1>8, <1>9, <1>10,
     DictRequested, RowWritten, ItemSaved, ItemEdited DEF DictNext

-----------------------------------------------------------------------------
(* Dictionaries: what holds while nothing overlaps a flush *)

LEMMA AloneMoves ==
  ASSUME DictBase, DictFlushAlone, NEW i \in DictInstance, NEW f \in DictInstances, DictMoves(i, f),
         dictGhost'.overlapped = dictGhost.overlapped,
         \/ dictGhost'.last = dictGhost.last /\ (f.pc \in DictFlushing => InDictFlush(i))
         \/ f.pc = "idle" /\ InDictFlush(i)
  PROVE  DictFlushAlone'
<1>1. dictInst'[i] = f /\ \A j \in DictInstance : j # i => dictInst'[j] = dictInst[j]
  BY MovesOne DEF DictBase, DictMoves
<1>2. \A j \in DictInstance : InDictFlush(j)' => InDictFlush(j) \/ (j = i /\ f.pc \in DictFlushing)
  BY <1>1 DEF InDictFlush
<1>3. CASE dictGhost'.last = dictGhost.last /\ (f.pc \in DictFlushing => InDictFlush(i))
  BY <1>2, <1>3 DEF DictFlushAlone
<1>4. CASE f.pc = "idle" /\ InDictFlush(i)
  <2>1. f.pc \notin DictFlushing
    BY <1>4 DEF DictFlushing
  <2>2. ~dictGhost.overlapped => \A j \in DictInstance : ~InDictFlush(j)'
    BY <1>1, <1>2, <1>4, <2>1 DEF DictFlushAlone, InDictFlush
  <2> QED
    BY <2>2 DEF DictFlushAlone
<1> QED
  BY <1>3, <1>4

LEMMA StillMoves ==
  ASSUME DictBase, DictsStill, NEW i \in DictInstance, NEW f \in DictInstances, DictMoves(i, f),
         dicts' = dicts, ~dictGhost'.overlapped => ~dictGhost.overlapped,
         f.pc \in DictsSaved =>
           /\ dictInst[i].pc \in DictsSaved
           /\ f.batch = dictInst[i].batch /\ f.ids = dictInst[i].ids
  PROVE  DictsStill'
<1>1. dictInst'[i] = f /\ \A j \in DictInstance : j # i => dictInst'[j] = dictInst[j]
  BY MovesOne DEF DictBase, DictMoves
<1>2. SUFFICES ASSUME ~dictGhost'.overlapped, NEW j \in DictInstance, dictInst'[j].pc \in DictsSaved,
                      NEW c \in DictsIn(dictInst'[j].batch)
               PROVE  dictInst'[j].ids[c] \in DOMAIN dicts' /\ dicts'[dictInst'[j].ids[c]] = Generated(c)
  BY DEF DictsStill, Generated
<1> QED
  BY <1>1, <1>2 DEF DictsStill

\* What DictCalm says of one flush.
CalmFlush(f) == TodoFits(f) /\ Compared(f)

LEMMA CalmMoves ==
  ASSUME DictBase, DictCalm, NEW i \in DictInstance, NEW f \in DictInstances, DictMoves(i, f),
         UNCHANGED items, ~dictGhost'.overlapped => ~dictGhost.overlapped,
         dictGhost'.recoded = dictGhost.recoded,
         ~dictGhost'.overlapped /\ ~dictGhost.recoded =>
           /\ f.pc \in DictsSaved => CalmFlush(f)
           /\ dictGhost'.last # 0 => LeftAsDeclared(dictGhost'.last) /\ dicts' = dicts
  PROVE  DictCalm'
<1>1. dictInst'[i] = f /\ \A j \in DictInstance : j # i => dictInst'[j] = dictInst[j]
  BY MovesOne DEF DictBase, DictMoves
<1>2. SUFFICES ASSUME ~dictGhost'.overlapped, ~dictGhost'.recoded PROVE DictCalm'
  BY DEF DictCalm
<1>3. ItemsDiffer'
  BY <1>2 DEF DictCalm, ItemsDiffer
<1>4. ASSUME NEW j \in DictInstance, dictInst'[j].pc \in DictsSaved
      PROVE  TodoFits(dictInst[j])' /\ Compared(dictInst[j])'
  <2>1. PICK h : h = dictInst'[j]
    OBVIOUS
  <2>2. TodoFits(h) /\ Compared(h)
    BY <1>1, <1>2, <1>4, <2>1 DEF DictCalm, CalmFlush
  <2>3. TodoFits(h)' /\ Compared(h)'
    BY <2>2 DEF TodoFits, Compared, Stands
  <2> QED
    BY <2>1, <2>3
<1>5. ASSUME dictGhost'.last # 0 PROVE LeftAsDeclared(dictGhost.last)'
  <2>1. PICK v : v = dictGhost'.last
    OBVIOUS
  <2>2. LeftAsDeclared(v) /\ dicts' = dicts
    BY <1>2, <1>5, <2>1
  <2>3. LeftAsDeclared(v)'
    BY <2>2 DEF LeftAsDeclared, Stands
  <2> QED
    BY <2>1, <2>3
<1> QED
  BY <1>2, <1>3, <1>4, <1>5 DEF DictCalm

LEMMA SavedCalm ==
  ASSUME DictBase, DictFlushAlone, DictsStill, DictCalm,
         NEW i \in DictInstance, SaveDicts(i), ~DictFails(i)
  PROVE  DictFlushAlone' /\ DictsStill' /\ DictCalm'
<1>1. PICK f \in DictInstances :
        /\ DictMoves(i, f) /\ f.pc = "findItems" /\ f.todo = {}
        /\ f.left = DictsIn(f.batch)
        /\ \A c \in DictsIn(f.batch) : f.ids[c] \in DOMAIN dicts' /\ dicts'[f.ids[c]] = Generated(c)
  BY DictsAreSaved
<1>2. UNCHANGED <<items, dictGhost>> /\ InDictFlush(i)
  BY DEF SaveDicts, InDictFlush, DictFlushing
<1>3. /\ dictInst'[i] = f
      /\ \A j \in DictInstance : j # i => dictInst'[j] = dictInst[j]
  BY <1>1, MovesOne DEF DictBase, DictMoves
<1>4. DictFlushAlone'
  BY <1>1, <1>2, AloneMoves
<1>5. DictsStill'
  <2> SUFFICES ASSUME ~dictGhost'.overlapped, NEW j \in DictInstance, dictInst'[j].pc \in DictsSaved
               PROVE  \A c \in DictsIn(dictInst'[j].batch) :
                        /\ dictInst'[j].ids[c] \in DOMAIN dicts'
                        /\ dicts'[dictInst'[j].ids[c]] = Generated(c)
    BY DEF DictsStill, Generated
  <2>1. j = i
    BY <1>2, <1>3 DEF DictFlushAlone, InDictFlush, DictFlushing, DictsSaved
  <2> QED
    BY <1>1, <1>3, <2>1
<1>6. CalmFlush(f)
  BY <1>1 DEF CalmFlush, TodoFits, Compared
<1>7. ~dictGhost'.overlapped => dictGhost'.last = 0
  BY <1>2 DEF DictFlushAlone
<1>8. DictCalm'
  BY <1>1, <1>2, <1>6, <1>7, CalmMoves
<1> QED
  BY <1>4, <1>5, <1>8

\* Once everything has been compared and nothing is left to write, the version is there.
LEMMA AllCompared ==
  ASSUME DictBase, DictsStill, ~dictGhost.overlapped, NEW i \in DictInstance, dictInst[i].pc \in DictsSaved,
         NEW f, f.batch = dictInst[i].batch, f.ids = dictInst[i].ids, f.left = {}, f.todo = {},
         Compared(f)
  PROVE  LeftAsDeclared(dictInst[i].version)
<1> DEFINE g == dictInst[i]  b == DictDeclared[g.version]
<1>1. f.batch = b
  BY FlushTyped DEF DictFlushing, DictsSaved
<1> SUFFICES ASSUME NEW c \in DictsIn(b)
             PROVE  \E d \in DOMAIN dicts :
                      /\ dicts[d] = Generated(c)
                      /\ \A x \in DOMAIN MergeDicts(b)[c] :
                           \E r \in Stands(d, x) : items[r].value = MergeDicts(b)[c][x]
  BY DEF LeftAsDeclared
<1>2. f.ids[c] \in DOMAIN dicts /\ dicts[f.ids[c]] = Generated(c)
  BY <1>1 DEF DictsStill
<1>3. \A x \in DOMAIN MergeDicts(b)[c] :
        \E r \in Stands(f.ids[c], x) : items[r].value = MergeDicts(b)[c][x]
  BY <1>1 DEF Compared
<1> QED
  BY <1>2, <1>3

LEMMA FoundCalm ==
  ASSUME DictBase, DictFlushAlone, DictsStill, DictCalm, NEW i \in DictInstance, FindItems(i)
  PROVE  DictFlushAlone' /\ DictsStill' /\ DictCalm'
<1> DEFINE g == dictInst[i]
<1>1. PICK c \in g.left : \E row, todo :
        /\ AddsWrites(g, c, row, todo)
        /\ \/ DictSucceeds(i) /\ g.left \ {c} = {} /\ todo = {}
           \/ \E f \in DictInstances :
                /\ DictMoves(i, f) /\ f.pc \in DictsSaved
                /\ f.batch = g.batch /\ f.ids = g.ids
                /\ f.left = g.left \ {c} /\ f.todo = todo
                /\ dictGhost' = dictGhost
  BY ItemsAreFound
<1>2. PICK row, todo :
        /\ AddsWrites(g, c, row, todo)
        /\ \/ DictSucceeds(i) /\ g.left \ {c} = {} /\ todo = {}
           \/ \E f \in DictInstances :
                /\ DictMoves(i, f) /\ f.pc \in DictsSaved
                /\ f.batch = g.batch /\ f.ids = g.ids
                /\ f.left = g.left \ {c} /\ f.todo = todo
                /\ dictGhost' = dictGhost
  BY <1>1
<1>3. UNCHANGED <<dicts, items>> /\ g.pc = "findItems"
  BY DEF FindItems
<1>4. InDictFlush(i) /\ g.pc \in DictsSaved
  BY <1>3 DEF InDictFlush, DictFlushing, DictsSaved
<1>5. ASSUME ~dictGhost.overlapped, ~dictGhost.recoded, NEW f,
             f.batch = g.batch, f.ids = g.ids, f.left = g.left \ {c}, f.todo = todo
      PROVE  TodoFits(f) /\ Compared(f)
  BY <1>2, <1>3, <1>4, <1>5, ComparedOneMore DEF DictCalm
<1>6. CASE DictSucceeds(i) /\ g.left \ {c} = {} /\ todo = {}
  <2>1. PICK f \in DictInstances : DictMoves(i, f) /\ f.pc = "idle"
    BY <1>6, DictSuccesses
  <2>2. /\ dictGhost'.overlapped = dictGhost.overlapped /\ dictGhost'.recoded = dictGhost.recoded
        /\ dictGhost'.last = g.version
    BY <1>6, SuccessGhost
  <2>3. f.pc \notin DictsSaved
    BY <2>1 DEF DictsSaved
  <2>4. ASSUME ~dictGhost.overlapped, ~dictGhost.recoded PROVE LeftAsDeclared(g.version)
    <3> DEFINE h == [batch |-> g.batch, ids |-> g.ids, left |-> {}, todo |-> {}]
    <3>1. h.batch = g.batch /\ h.ids = g.ids /\ h.left = {} /\ h.todo = {}
      OBVIOUS
    <3> HIDE DEF h
    <3>2. Compared(h)
      BY <1>5, <1>6, <2>4, <3>1
    <3> QED
      BY <1>4, <2>4, <3>1, <3>2, AllCompared
  <2>5. DictFlushAlone'
    BY <1>4, <2>1, <2>2, AloneMoves
  <2>6. DictsStill'
    BY <1>3, <2>1, <2>2, <2>3, StillMoves
  <2>7. DictCalm'
    BY <1>3, <2>1, <2>2, <2>3, <2>4, CalmMoves
  <2> QED
    BY <2>5, <2>6, <2>7
<1>7. CASE \E f \in DictInstances :
             /\ DictMoves(i, f) /\ f.pc \in DictsSaved
             /\ f.batch = g.batch /\ f.ids = g.ids
             /\ f.left = g.left \ {c} /\ f.todo = todo
             /\ dictGhost' = dictGhost
  <2>1. PICK f \in DictInstances :
          /\ DictMoves(i, f) /\ f.pc \in DictsSaved
          /\ f.batch = g.batch /\ f.ids = g.ids
          /\ f.left = g.left \ {c} /\ f.todo = todo
          /\ dictGhost' = dictGhost
    BY <1>7
  <2>2. DictFlushAlone'
    BY <1>4, <2>1, AloneMoves
  <2>3. DictsStill'
    BY <1>3, <1>4, <2>1, StillMoves
  <2>4. ~dictGhost.overlapped /\ ~dictGhost.recoded => CalmFlush(f)
    BY <1>5, <2>1 DEF CalmFlush
  <2>5. ~dictGhost.overlapped => dictGhost.last = 0
    BY <1>4 DEF DictFlushAlone
  <2>6. DictCalm'
    BY <1>3, <2>1, <2>4, <2>5, CalmMoves
  <2> QED
    BY <2>2, <2>3, <2>6
<1> QED
  BY <1>2, <1>6, <1>7

LEMMA WrittenCalm ==
  ASSUME DictBase, DictFlushAlone, DictsStill, DictCalm, NEW i \in DictInstance, SaveItems(i)
  PROVE  DictFlushAlone' /\ DictsStill' /\ DictCalm'
<1> DEFINE g == dictInst[i]
           todo == g.todo
           n == Len(items)
<1>1. UNCHANGED dicts /\ DictSucceeds(i) /\ g.pc = "saveItems"
  BY DEF SaveItems
<1>2. InDictFlush(i) /\ g.pc \in DictsSaved /\ g.left = {}
  BY <1>1, FlushTyped DEF InDictFlush, DictFlushing, DictsSaved, FlushFits
<1>3. PICK f \in DictInstances : DictMoves(i, f) /\ f.pc = "idle"
  BY <1>1, DictSuccesses
<1>4. /\ dictGhost'.overlapped = dictGhost.overlapped /\ dictGhost'.recoded = dictGhost.recoded
      /\ dictGhost'.last = g.version
  BY <1>1, SuccessGhost
<1>5. f.pc \notin DictsSaved
  BY <1>3 DEF DictsSaved
<1>6. DictFlushAlone'
  BY <1>2, <1>3, <1>4, AloneMoves
<1>7. DictsStill'
  BY <1>1, <1>3, <1>4, <1>5, StillMoves
<1>8. DictCalm'
  <2> SUFFICES ASSUME ~dictGhost.overlapped, ~dictGhost.recoded PROVE DictCalm'
    BY <1>4 DEF DictCalm
  <2>1. TodoFits(g) /\ Compared(g) /\ ItemsDiffer
    BY <1>2 DEF DictCalm
  <2>2. \A t \in todo : /\ t.row # 0 => t.row \in Stands(t.hash.dict, t.hash.code)
                        /\ t.row = 0 => Stands(t.hash.dict, t.hash.code) = {}
    BY <2>1 DEF TodoFits
  <2>3. \A t, u \in todo : t.hash.dict = u.hash.dict /\ t.hash.code = u.hash.code => t = u
    BY <2>1 DEF TodoFits
  <2>4. n \in Nat /\ DOMAIN items = 1 .. n
    BY ItemsAreSaved
  <2>5. \A r \in 1 .. n :
          IF \E t \in todo : t.row = r
          THEN \E t \in todo : t.row = r /\ items'[r] = ItemRow(t.hash)
          ELSE items'[r] = items[r]
    BY ItemsAreSaved
  <2>6. PICK m \in Nat : \E new \in [1 .. m -> {t \in todo : t.row = 0}] :
          /\ Len(items') = n + m /\ DOMAIN items' = 1 .. n + m
          /\ \A k \in 1 .. m : items'[n + k] = ItemRow(new[k].hash)
          /\ \A k, l \in 1 .. m : new[k].hash = new[l].hash => k = l
          /\ \A t \in todo : t.row = 0 => \E k \in 1 .. m : new[k].hash = t.hash
    BY ItemsAreSaved
  <2>7. PICK new \in [1 .. m -> {t \in todo : t.row = 0}] :
          /\ Len(items') = n + m /\ DOMAIN items' = 1 .. n + m
          /\ \A k \in 1 .. m : items'[n + k] = ItemRow(new[k].hash)
          /\ \A k, l \in 1 .. m : new[k].hash = new[l].hash => k = l
          /\ \A t \in todo : t.row = 0 => \E k \in 1 .. m : new[k].hash = t.hash
    BY <2>6
  <2> HIDE DEF n, todo
  <2>a. \A h : /\ ItemRow(h).dict = h.dict /\ ItemRow(h).code = h.code /\ ItemRow(h).value = h.value
    BY DEF ItemRow
  \* A row that is written over keeps its dictionary and its code.
  <2>8. ASSUME NEW r \in 1 .. n PROVE items'[r].dict = items[r].dict /\ items'[r].code = items[r].code
    <3>1. CASE \E t \in todo : t.row = r
      <4>1. PICK t \in todo : t.row = r /\ items'[r] = ItemRow(t.hash)
        BY <2>5, <3>1
      <4>2. r \in Stands(t.hash.dict, t.hash.code)
        BY <2>2, <2>4, <4>1
      <4> QED
        BY <2>a, <4>1, <4>2 DEF Stands
    <3>2. CASE ~\E t \in todo : t.row = r
      BY <2>5, <3>2
    <3> QED
      BY <3>1, <3>2
  \* A new row has a dictionary and a code that no other row has.
  <2>9. ASSUME NEW k \in 1 .. m
        PROVE  /\ new[k] \in todo /\ new[k].row = 0
               /\ items'[n + k].dict = new[k].hash.dict /\ items'[n + k].code = new[k].hash.code
               /\ items'[n + k].value = new[k].hash.value
               /\ \A r \in 1 .. n : ~(items[r].dict = new[k].hash.dict /\ items[r].code = new[k].hash.code)
    <3>1. new[k] \in todo /\ new[k].row = 0
      BY <2>7
    <3>2. Stands(new[k].hash.dict, new[k].hash.code) = {}
      BY <2>2, <3>1
    <3>3. items'[n + k] = ItemRow(new[k].hash)
      BY <2>7
    <3>4. \A r \in 1 .. n : ~(items[r].dict = new[k].hash.dict /\ items[r].code = new[k].hash.code)
      BY <2>4, <3>2 DEF Stands
    <3> QED
      BY <2>a, <3>1, <3>3, <3>4
  <2>b. \A r \in 1 .. n + m : r \in 1 .. n \/ \E k \in 1 .. m : r = n + k
    <3> SUFFICES ASSUME NEW r \in 1 .. n + m, r \notin 1 .. n PROVE \E k \in 1 .. m : r = n + k
      OBVIOUS
    <3>1. r - n \in 1 .. m /\ r = n + (r - n)
      BY <2>4
    <3> QED
      BY <3>1
  <2>10. ItemsDiffer'
    <3> SUFFICES ASSUME NEW r \in 1 .. n + m, NEW q \in 1 .. n + m, items'[r].dict # 0,
                        items'[r].dict = items'[q].dict, items'[r].code = items'[q].code
                 PROVE  r = q
      BY <2>7 DEF ItemsDiffer
    <3>1. CASE r \in 1 .. n /\ q \in 1 .. n
      BY <2>1, <2>4, <2>8, <3>1 DEF ItemsDiffer
    <3>2. CASE r \in 1 .. n /\ q \notin 1 .. n
      BY <2>8, <2>9, <2>b, <3>2
    <3>3. CASE r \notin 1 .. n /\ q \in 1 .. n
      BY <2>8, <2>9, <2>b, <3>3
    <3>4. CASE r \notin 1 .. n /\ q \notin 1 .. n
      <4>1. PICK k \in 1 .. m : r = n + k
        BY <2>b, <3>4
      <4>2. PICK l \in 1 .. m : q = n + l
        BY <2>b, <3>4
      <4>3. new[k] = new[l]
        BY <2>3, <2>9, <4>1, <4>2
      <4>4. k = l
        BY <2>7, <4>3
      <4> QED
        BY <4>1, <4>2, <4>4
    <3> QED
      BY <3>1, <3>2, <3>3, <3>4
  <2>v. PICK v : v = g.version
    OBVIOUS
  <2>11. LeftAsDeclared(v)'
    <3> DEFINE b == DictDeclared[v]
    <3>1. g.batch = b
      BY <1>2, <2>v, FlushTyped DEF DictFlushing, DictsSaved
    <3>3. ASSUME NEW c \in DictsIn(b), NEW x \in DOMAIN MergeDicts(b)[c]
          PROVE  \E r \in 1 .. n + m : /\ items'[r].dict = g.ids[c] /\ items'[r].code = x
                                       /\ items'[r].value = MergeDicts(b)[c][x]
      <4> DEFINE value == MergeDicts(b)[c][x]
      <4>1. \/ \E t \in todo : t.hash.dict = g.ids[c] /\ t.hash.code = x /\ t.hash.value = value
            \/ \E r \in Stands(g.ids[c], x) : items[r].value = value /\ \A t \in todo : t.row # r
        BY <1>2, <2>1, <3>1, <3>3 DEF Compared, todo
      <4> HIDE DEF value
      <4>2. CASE \E t \in todo : t.hash.dict = g.ids[c] /\ t.hash.code = x /\ t.hash.value = value
        <5>1. PICK t \in todo : t.hash.dict = g.ids[c] /\ t.hash.code = x /\ t.hash.value = value
          BY <4>2
        <5>2. CASE t.row = 0
          <6>1. PICK k \in 1 .. m : new[k].hash = t.hash
            BY <2>7, <5>2
          <6>2. n + k \in 1 .. n + m
            BY <2>4
          <6> QED
            BY <2>9, <5>1, <6>1, <6>2 DEF value
        <5>3. CASE t.row # 0
          <6>1. t.row \in Stands(t.hash.dict, t.hash.code)
            BY <2>2, <5>3
          <6>2. t.row \in 1 .. n
            BY <2>4, <6>1 DEF Stands
          <6>3. PICK u \in todo : u.row = t.row /\ items'[t.row] = ItemRow(u.hash)
            BY <2>5, <6>2
          <6>4. u.row \in Stands(u.hash.dict, u.hash.code)
            BY <2>2, <5>3, <6>3
          <6>5. u = t
            BY <2>3, <6>1, <6>3, <6>4 DEF Stands
          <6>6. t.row \in 1 .. n + m
            BY <2>4, <6>2
          <6> QED
            BY <2>a, <5>1, <6>3, <6>5, <6>6 DEF value
        <5> QED
          BY <5>2, <5>3
      <4>3. CASE \E r \in Stands(g.ids[c], x) : items[r].value = value /\ \A t \in todo : t.row # r
        <5>1. PICK r \in Stands(g.ids[c], x) : items[r].value = value /\ \A t \in todo : t.row # r
          BY <4>3
        <5>2. r \in 1 .. n /\ items[r].dict = g.ids[c] /\ items[r].code = x
          BY <2>4 DEF Stands
        <5>3. items'[r] = items[r]
          BY <2>5, <5>1, <5>2
        <5>4. r \in 1 .. n + m
          BY <2>4, <5>2
        <5> QED
          BY <5>1, <5>2, <5>3, <5>4 DEF value
      <4> QED
        BY <4>1, <4>2, <4>3
    <3>4. \A c \in DictsIn(b) : g.ids[c] \in DOMAIN dicts' /\ dicts'[g.ids[c]] = Generated(c)
      BY <1>1, <1>2, <3>1 DEF DictsStill
    <3>5. ASSUME NEW c \in DictsIn(b)
          PROVE  \E d \in DOMAIN dicts' :
                   /\ dicts'[d] = Generated(c)
                   /\ \A x \in DOMAIN MergeDicts(b)[c] :
                        \E r \in Stands(d, x)' : items'[r].value = MergeDicts(b)[c][x]
      <4>1. PICK d : d = g.ids[c]
        OBVIOUS
      <4>2. d \in DOMAIN dicts' /\ dicts'[d] = Generated(c)
        BY <3>4, <4>1
      <4>3. ASSUME NEW x \in DOMAIN MergeDicts(b)[c]
            PROVE  \E r \in Stands(d, x)' : items'[r].value = MergeDicts(b)[c][x]
        <5>1. PICK r \in 1 .. n + m : /\ items'[r].dict = d /\ items'[r].code = x
                                     /\ items'[r].value = MergeDicts(b)[c][x]
          BY <3>3, <4>1
        <5>2. r \in Stands(d, x)'
          BY <2>7, <5>1 DEF Stands
        <5> QED
          BY <5>1, <5>2
      <4> QED
        BY <4>2, <4>3
    <3> QED
      BY <3>5 DEF LeftAsDeclared, Generated
  <2>12. ASSUME NEW j \in DictInstance PROVE dictInst'[j].pc \notin DictsSaved
    <3>1. dictInst'[i] = f /\ (j # i => dictInst'[j] = dictInst[j])
      BY <1>3, MovesOne DEF DictBase, DictMoves
    <3> QED
      BY <1>2, <1>5, <3>1 DEF DictFlushAlone, InDictFlush, DictFlushing, DictsSaved
  <2>13. LeftAsDeclared(dictGhost.last)'
    BY <1>4, <2>v, <2>11
  <2> QED
    BY <2>10, <2>12, <2>13 DEF DictCalm
<1> QED
  BY <1>6, <1>7, <1>8

\* Nothing that administrators do is between two steps of a flush, unless it overlaps one.
LEMMA AdminCalm ==
  ASSUME DictBase, DictFlushAlone, DictCalm, dictInst' = dictInst,
         NEW recodes \in BOOLEAN, AdminWrites(recodes),
         ItemsDiffer => recodes \/ ItemsDiffer'
  PROVE  DictFlushAlone' /\ DictsStill' /\ DictCalm'
<1>1. /\ dictGhost'.last = 0 /\ dictGhost'.recoded = (dictGhost.recoded \/ recodes)
      /\ dictGhost'.overlapped = (dictGhost.overlapped \/ \E i \in DictInstance : InDictFlush(i))
  BY AdminGhost
<1>2. ~dictGhost'.overlapped => \A i \in DictInstance : dictInst[i].pc \notin DictFlushing
  BY <1>1 DEF InDictFlush
<1>3. ~dictGhost'.overlapped => \A i \in DictInstance : dictInst'[i].pc \notin DictFlushing
  BY <1>2
<1>4. DictFlushAlone'
  BY <1>3 DEF DictFlushAlone, InDictFlush
<1>5. DictsStill'
  BY <1>3 DEF DictsStill, DictsSaved, DictFlushing
<1>6. ~dictGhost'.overlapped /\ ~dictGhost'.recoded => ItemsDiffer'
  BY <1>1 DEF DictCalm
<1>7. DictCalm'
  BY <1>1, <1>3, <1>6 DEF DictCalm, DictsSaved, DictFlushing
<1> QED
  BY <1>4, <1>5, <1>7

LEMMA NothingWritten ==
  ASSUME DictFlushAlone, DictsStill, DictCalm, UNCHANGED <<dicts, items, dictInst, dictGhost>>
  PROVE  DictFlushAlone' /\ DictsStill' /\ DictCalm'
<1>1. DictFlushAlone' /\ DictsStill' /\ ItemsDiffer' = ItemsDiffer
  BY DEF DictFlushAlone, DictsStill, InDictFlush, Generated, ItemsDiffer
<1>2. \A i \in DictInstance : TodoFits(dictInst[i])' = TodoFits(dictInst[i])
  BY DEF TodoFits, Stands
<1>3. \A i \in DictInstance : Compared(dictInst[i])' = Compared(dictInst[i])
  BY DEF Compared, Stands
<1>4. LeftAsDeclared(dictGhost.last)' = LeftAsDeclared(dictGhost.last)
  BY DEF LeftAsDeclared, Stands, Generated
<1> QED
  BY <1>1, <1>2, <1>3, <1>4 DEF DictCalm

LEMMA CalmStep ==
  ASSUME DictInv, [DictNext]_dictVars
  PROVE  DictFlushAlone' /\ DictsStill' /\ DictCalm'
<1> DEFINE Kept == DictFlushAlone' /\ DictsStill' /\ DictCalm'
<1>0. DictBase /\ DictFlushAlone /\ DictsStill /\ DictCalm
  BY DEF DictInv
\* A move that ends no flush with success, nor is between two of its later steps.
<1>a. ASSUME NEW i \in DictInstance, NEW f \in DictInstances, DictMoves(i, f),
             UNCHANGED <<dicts, items, dictGhost>>, f.pc \notin DictsSaved,
             f.pc \in DictFlushing => InDictFlush(i)
      PROVE  Kept
  <2>1. DictFlushAlone'
    BY <1>0, <1>a, AloneMoves
  <2>2. DictsStill'
    BY <1>0, <1>a, StillMoves
  <2>3. ~dictGhost'.overlapped /\ ~dictGhost.recoded /\ dictGhost'.last # 0
          => LeftAsDeclared(dictGhost'.last) /\ dicts' = dicts
    BY <1>0, <1>a DEF DictCalm
  <2>4. DictCalm'
    BY <1>0, <1>a, <2>3, CalmMoves
  <2> QED
    BY <2>1, <2>2, <2>4
<1>1. ASSUME NEW i \in DictInstance, NEW v \in DictVersion, StartDict(i, v) PROVE Kept
  <2>1. PICK f \in DictInstances : DictMoves(i, f) /\ f.pc \in {"idle", "debounce"}
    BY <1>0, <1>1, DictStarts
  <2>2. UNCHANGED <<dicts, items, dictGhost>>
    BY <1>1 DEF StartDict
  <2>3. f.pc \notin DictsSaved /\ f.pc \notin DictFlushing
    BY <2>1 DEF DictsSaved, DictFlushing
  <2> QED
    BY <1>a, <2>1, <2>2, <2>3
<1>2. ASSUME NEW i \in DictInstance, FlushPendingDicts(i) PROVE Kept
  <2>1. PICK f \in DictInstances : DictMoves(i, f) /\ f.pc = "findDicts"
    BY <1>0, <1>2, DictFlushes
  <2>2. UNCHANGED <<dicts, items>>
    BY <1>2 DEF FlushPendingDicts
  <2>3. /\ dictGhost'.last = 0 /\ dictGhost'.recoded = dictGhost.recoded
        /\ dictGhost'.overlapped = (dictGhost.overlapped \/ \E j \in DictInstance : InDictFlush(j))
    BY <1>0, <1>2, FlushGhost
  <2>4. f.pc \notin DictsSaved
    BY <2>1 DEF DictsSaved
  <2>5. DictFlushAlone'
    <3>1. dictInst'[i] = f /\ \A j \in DictInstance : j # i => dictInst'[j] = dictInst[j]
      BY <1>0, <2>1, MovesOne DEF DictBase, DictMoves
    <3> QED
      BY <2>3, <3>1 DEF DictFlushAlone, InDictFlush
  <2>6. DictsStill'
    BY <1>0, <2>1, <2>2, <2>3, <2>4, StillMoves
  <2>7. DictCalm'
    BY <1>0, <2>1, <2>2, <2>3, <2>4, CalmMoves
  <2> QED
    BY <2>5, <2>6, <2>7
<1>3. ASSUME NEW i \in DictInstance, FindDicts(i) PROVE Kept
  <2>1. PICK f \in DictInstances : DictMoves(i, f) /\ f.pc = "saveDicts"
    BY <1>0, <1>3, DictsAreFound
  <2>2. UNCHANGED <<dicts, items, dictGhost>> /\ InDictFlush(i)
    BY <1>3 DEF FindDicts, InDictFlush, DictFlushing
  <2>3. f.pc \notin DictsSaved
    BY <2>1 DEF DictsSaved
  <2> QED
    BY <1>a, <2>1, <2>2, <2>3
<1>4. ASSUME NEW i \in DictInstance, DictFails(i) PROVE Kept
  <2>1. PICK f \in DictInstances : DictMoves(i, f) /\ f.pc = "idle"
    BY <1>0, <1>4, DictFailures
  <2>2. UNCHANGED <<dicts, items, dictGhost>>
    BY <1>4 DEF DictFails
  <2>3. f.pc \notin DictsSaved /\ f.pc \notin DictFlushing
    BY <2>1 DEF DictsSaved, DictFlushing
  <2> QED
    BY <1>a, <2>1, <2>2, <2>3
<1>5. ASSUME NEW i \in DictInstance, StopDict(i) PROVE Kept
  <2>1. PICK f \in DictInstances : DictMoves(i, f) /\ f.pc = "down"
    BY <1>0, <1>5, DictStops
  <2>2. UNCHANGED <<dicts, items, dictGhost>>
    BY <1>5 DEF StopDict
  <2>3. f.pc \notin DictsSaved /\ f.pc \notin DictFlushing
    BY <2>1 DEF DictsSaved, DictFlushing
  <2> QED
    BY <1>a, <2>1, <2>2, <2>3
<1>6. ASSUME NEW i \in DictInstance, SaveDicts(i) PROVE Kept
  BY <1>0, <1>4, <1>6, SavedCalm
<1>7. ASSUME NEW i \in DictInstance, FindItems(i) PROVE Kept
  BY <1>0, <1>7, FoundCalm
<1>8. ASSUME NEW i \in DictInstance, SaveItems(i) PROVE Kept
  BY <1>0, <1>8, WrittenCalm
<1>9. ASSUME NEW i \in DictInstance, DictCallFails(i) PROVE Kept
  BY <1>4, <1>9 DEF DictCallFails
<1>10. CASE RequestDict \/ UNCHANGED dictVars
  <2>1. UNCHANGED <<dicts, items, dictInst, dictGhost>>
    BY <1>10 DEF RequestDict, dictVars
  <2> QED
    BY <1>0, <2>1, NothingWritten
<1>11. CASE WriteDictRow
  <2>1. items' = items /\ dictInst' = dictInst
    BY <1>11 DEF WriteDictRow
  <2>2. UNCHANGED <<dicts, dictGhost>> \/ AdminWrites(FALSE)
    BY <1>0, <1>11, RowWritten
  <2>3. ItemsDiffer => ItemsDiffer'
    BY <2>1 DEF ItemsDiffer
  <2> QED
    BY <1>0, <2>1, <2>2, <2>3, AdminCalm, NothingWritten
<1>12. CASE SaveItem
  <2>1. /\ dictInst' = dictInst /\ AdminWrites(FALSE) /\ Len(items) \in Nat
        /\ DOMAIN items = 1 .. Len(items) /\ DOMAIN items' = 1 .. Len(items) + 1
        /\ \A r \in 1 .. Len(items) : items'[r] = items[r]
        /\ items'[Len(items) + 1].dict = 0
    BY <1>0, <1>12, ItemSaved
  <2>2. ItemsDiffer => ItemsDiffer'
    <3> SUFFICES ASSUME ItemsDiffer, NEW r \in 1 .. Len(items) + 1, NEW q \in 1 .. Len(items) + 1,
                        items'[r].dict # 0, items'[r].dict = items'[q].dict,
                        items'[r].code = items'[q].code
                 PROVE  r = q
      BY <2>1 DEF ItemsDiffer
    <3>1. r # Len(items) + 1 /\ q # Len(items) + 1
      BY <2>1
    <3>2. r \in 1 .. Len(items) /\ q \in 1 .. Len(items)
      BY <2>1, <3>1
    <3> QED
      BY <2>1, <3>2 DEF ItemsDiffer
  <2> QED
    BY <1>0, <2>1, <2>2, AdminCalm
<1>13. CASE EditItem
  <2>1. /\ dictInst' = dictInst /\ DOMAIN items' = DOMAIN items
        /\ \A r \in DOMAIN items : items'[r].dict = items[r].dict
    BY <1>0, <1>13, ItemEdited
  <2>2. PICK recodes \in BOOLEAN :
          /\ AdminWrites(recodes)
          /\ ~recodes => \A r \in DOMAIN items : items'[r].code = items[r].code
    BY <1>0, <1>13, ItemEdited
  <2>3. ItemsDiffer => recodes \/ ItemsDiffer'
    BY <2>1, <2>2 DEF ItemsDiffer
  <2> QED
    BY <1>0, <2>1, <2>2, <2>3, AdminCalm
<1> QED
  BY <1>1, <1>2, <1>3, <1>5, <1>6, <1>7, <1>8, <1>9, <1>10, <1>11, <1>12, <1>13 DEF DictNext

LEMMA DictInductive == DictInv /\ [DictNext]_dictVars => DictInv'
BY BaseStep, CalmStep DEF DictInv

\* The discovery of dictionaries keeps what its flushes in progress know about the
\* tables, however instances, flushes and administrators interleave.
THEOREM DictInvariant == DictSpec => []DictInv
BY DictInitBase, DictInductive, PTL DEF DictSpec

\* Every variable holds a value the code can store in it.
THEOREM DictTyped == DictSpec => []DictTypeOK
<1>1. DictInv => DictTypeOK
  BY DEF DictInv, DictBase
<1> QED
  BY <1>1, DictInvariant, PTL

\* batchSyncDiscoveredDicts gives a dictionary two rows of one item only if a flush was
\* in progress together with another or with a write of an administrator, or an
\* administrator has given an item another code.
THEOREM ItemsStayOne == DictSpec => []OneItemUnlessOverlapped
<1>1. DictInv => OneItemUnlessOverlapped
  BY DEF DictInv, DictCalm, ItemsDiffer, OneItemUnlessOverlapped
<1> QED
  BY <1>1, DictInvariant, PTL

\* A flush that succeeded alone leaves every dictionary its version declares, as
\* generated, with every item it declares at the value declared last.
THEOREM DeclaredIsThere == DictSpec => []DeclaredUnlessDisturbed
<1>1. ASSUME DictInv PROVE DeclaredUnlessDisturbed
  <2> SUFFICES ASSUME dictGhost.last # 0, ~dictGhost.overlapped, ~dictGhost.recoded,
                      NEW k \in DOMAIN DictDeclared[dictGhost.last]
               PROVE  LET c == DictDeclared[dictGhost.last][k].code  d == IdOf(c) IN
                      /\ d # 0 /\ dicts[d].genType = "1"
                      /\ \A x \in ItemCode :
                           DeclaredLast(dictGhost.last, c, x)
                             \subseteq {row.value : row \in {row \in ToSet(items) : row.dict = d /\ row.code = x}}
    BY DEF DeclaredUnlessDisturbed
  <2> DEFINE v == dictGhost.last  c == DictDeclared[v][k].code  m == MergeDicts(DictDeclared[v])[c]
  <2>1. v \in DictVersion /\ c \in DictsIn(DictDeclared[v])
    BY <1>1 DEF DictInv, DictBase, DictTypeOK, DictsIn
  <2>2. PICK d \in DOMAIN dicts :
          /\ dicts[d] = Generated(c)
          /\ \A x \in DOMAIN m : \E r \in Stands(d, x) : items[r].value = m[x]
    BY <1>1, <2>1 DEF DictInv, DictCalm, LeftAsDeclared
  <2>3. dicts[d].code = c /\ dicts[d].genType = "1"
    BY <2>2 DEF Generated
  <2>4. IdOf(c) = d
    BY <1>1, <2>3, IdOfCode DEF DictInv, DictBase
  <2>5. d # 0 /\ items \in Seq(ItemRows)
    BY <1>1 DEF DictInv, DictBase, DictTypeOK
  <2> HIDE DEF m, c
  <2>6. ASSUME NEW x \in ItemCode, NEW y \in DeclaredLast(v, c, x)
        PROVE  \E row \in ToSet(items) : row.dict = d /\ row.code = x /\ row.value = y
    <3>1. x \in DOMAIN m /\ y = m[x]
      BY <2>1, <2>6, MergedIsLast DEF m
    <3>2. PICK r \in Stands(d, x) : items[r].value = y
      BY <2>2, <3>1
    <3>3. items[r] \in ToSet(items)
      BY <2>5, <3>2 DEF ToSet, Stands
    <3> QED
      BY <3>2, <3>3 DEF Stands
  <2> QED
    BY <2>3, <2>4, <2>5, <2>6 DEF c
<1> QED
  BY <1>1, DictInvariant, PTL

=============================================================================
