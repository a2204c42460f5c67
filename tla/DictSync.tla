------------------------------ MODULE DictSync ------------------------------
(***************************************************************************)
(* The discovery of dictionaries: at start-up GenDictService announces the  *)
(* enumerations of the application, SysDictEvent collects the announcements *)
(* and SysDictService.batchSyncDiscoveredDicts writes them to sys_dict and  *)
(* sys_dict_item, in several statements, while administrators write the     *)
(* same rows.  One action is the code between two awaits.                   *)
(*                                                                          *)
(* The value of an item stands for its summary, colour and sort; a hash is  *)
(* what it was computed from.  Deletion is absent: softDelete refuses       *)
(* entities without a deletion date, as these are, and nothing changes.     *)
(***************************************************************************)
EXTENDS Integers, Sequences, FiniteSets, SequencesExt

CONSTANTS
  DictInstance,   \* processes that run the application
  DictCode, ItemCode, ItemValue,
  DictVersion,    \* versions of the application
  DictDeclared,   \* the announcements of each version, in order
  MaxDictStarts,  \* bound: starts of instances
  MaxDictEdits,   \* bound: writes of administrators
  MaxDictFaults,  \* bound: database calls that fail without effect
  NoDict          \* the dictionary of an item that has none

\* An announcement: a dictionary and the values of its items.
DictRecords == [code : DictCode, items : UNION {[xs -> ItemValue] : xs \in SUBSET ItemCode}]

ASSUME DictAssumption ==
  /\ DictDeclared \in [DictVersion -> Seq(DictRecords)]
  /\ 0 \notin DictVersion /\ IsFiniteSet(ItemCode)

ASSUME DictBoundAssumption == {MaxDictStarts, MaxDictEdits, MaxDictFaults} \subseteq Nat

VARIABLES
  dicts,       \* sys_dict; the id of a row is its position
  items,       \* sys_dict_item
  dictInst,    \* SysDictEvent of every instance and its flush in progress
  dictForm,    \* the call of an administrator in progress
  dictGhost,   \* what the properties look back at
  dictSpent    \* starts, edits and faults so far

dictVars == <<dicts, items, dictInst, dictForm, dictGhost, dictSpent>>

-----------------------------------------------------------------------------

\* genType tells rows of the discovery, "1", from those of administrators, "2".
DictRows == [code : DictCode, genType : {"1", "2"}]

Hashes == [dict : Nat, dictCode : DictCode \cup {NoDict}, code : ItemCode, value : ItemValue]

ItemRows == [dict : Nat, code : ItemCode, value : ItemValue, hash : Hashes]

DictFlushing == {"findDicts", "saveDicts", "findItems", "saveItems"}

ItemWrites == [row : Nat, hash : Hashes]

\* batch is currentBatch; ids the ids of its dictionaries, 0 for one not found; left
\* those whose items are still to be compared; todo what is to be written, at
\* position row or, if that is 0, as a new row.
DictDown == [pc |-> "down", version |-> 0, batch |-> <<>>, ids |-> [c \in DictCode |-> 0],
             left |-> {}, todo |-> {}]

DictInstances ==
  [pc : {"down", "debounce", "idle"} \cup DictFlushing, version : {0} \cup DictVersion,
   batch : Seq(DictRecords), ids : [DictCode -> Nat],
   left : SUBSET DictCode, todo : SUBSET ItemWrites]

NoForm == [op |-> "none", id |-> 0, code |-> NoDict]

InDictFlush(i) == dictInst[i].pc \in DictFlushing

\* overlapped: a flush was once in progress together with another or with a write
\* of an administrator; recoded: an administrator once gave an item another code;
\* last: the version whose flush ended last, while nothing has been written since.
DictInit ==
  /\ dicts = <<>> /\ items = <<>>
  /\ dictInst = [i \in DictInstance |-> DictDown]
  /\ dictForm = NoForm
  /\ dictGhost = [overlapped |-> FALSE, recoded |-> FALSE, last |-> 0]
  /\ dictSpent = [starts |-> 0, edits |-> 0, faults |-> 0]

DictSpend(what, max) ==
  dictSpent[what] < max /\ dictSpent' = [dictSpent EXCEPT ![what] = @ + 1]

\* getEnumList announces everything in one turn; each announcement is pushed and
\* (re)arms the debounce timer.  Items without code or summary are not announced.
StartDict(i, version) ==
  /\ dictInst[i].pc = "down"
  /\ DictSpend("starts", MaxDictStarts)
  /\ dictInst' = [dictInst EXCEPT ![i] = [DictDown EXCEPT
       !.pc = IF DictDeclared[version] = <<>> THEN "idle" ELSE "debounce",
       !.version = version, !.batch = DictDeclared[version]]]
  /\ UNCHANGED <<dicts, items, dictForm, dictGhost>>

\* The timer fires and the queue becomes the batch.
FlushPendingDicts(i) ==
  /\ dictInst[i].pc = "debounce"
  /\ dictInst' = [dictInst EXCEPT ![i].pc = "findDicts"]
  /\ dictGhost' = [dictGhost EXCEPT !.last = 0,
       !.overlapped = @ \/ \E j \in DictInstance : InDictFlush(j)]
  /\ UNCHANGED <<dicts, items, dictForm, dictSpent>>

\* Mutant: the first announcement of a dictionary is the only one.
MergeDictsFirst(batch) ==
  [c \in {batch[k].code : k \in DOMAIN batch} |->
     LET first == CHOOSE k \in DOMAIN batch :
                    batch[k].code = c /\ \A l \in 1 .. k - 1 : batch[l].code # c
     IN batch[first].items]

\* mergeDiscoveredDicts: one record for each dictionary, a later announcement of an
\* item replacing an earlier one.
DictsIn(batch) == {batch[k].code : k \in DOMAIN batch}

MergeDicts(batch) ==
  [c \in DictsIn(batch) |->
     LET records == {k \in DOMAIN batch : batch[k].code = c}
         latest(x) == CHOOSE k \in records :
                        /\ x \in DOMAIN batch[k].items
                        /\ \A l \in records : x \in DOMAIN batch[l].items => l <= k
     IN [x \in UNION {DOMAIN batch[k].items : k \in records} |-> batch[latest(x)].items[x]]]

DictFails(i) ==
  /\ dictInst' = [dictInst EXCEPT ![i] =
       [DictDown EXCEPT !.pc = "idle", !.batch = dictInst[i].batch]]
  /\ UNCHANGED <<dicts, items, dictForm, dictGhost>>

\* The call a flush waits for fails: the batch is back in the queue, and no timer
\* is armed for it.
DictCallFails(i) ==
  /\ InDictFlush(i)
  /\ DictSpend("faults", MaxDictFaults)
  /\ DictFails(i)

DictSucceeds(i) ==
  /\ dictInst' = [dictInst EXCEPT ![i] = [DictDown EXCEPT !.pc = "idle"]]
  /\ dictGhost' = [dictGhost EXCEPT !.last = dictInst[i].version]

IdOf(c) == IF \E d \in DOMAIN dicts : dicts[d].code = c
           THEN CHOOSE d \in DOMAIN dicts : dicts[d].code = c ELSE 0

FindDicts(i) ==
  /\ dictInst[i].pc = "findDicts"
  /\ dictInst' = [dictInst EXCEPT ![i].pc = "saveDicts",
       ![i].ids = [c \in DictCode |-> IF c \in DictsIn(dictInst[i].batch) THEN IdOf(c) ELSE 0]]
  /\ UNCHANGED <<dicts, items, dictForm, dictGhost, dictSpent>>

\* All dictionaries are saved in one transaction, which fails if a code they are
\* to have is that of another row by now.
SaveDicts(i) ==
  LET codes == DictsIn(dictInst[i].batch)
      ids == dictInst[i].ids
      fresh == SetToSeq({c \in codes : ids[c] = 0})
      taken == \E c \in codes, d \in DOMAIN dicts : dicts[d].code = c /\ d # ids[c]
      saved == [c \in DictCode |-> IF c \notin codes \/ ids[c] # 0 THEN ids[c]
                  ELSE Len(dicts) + CHOOSE k \in DOMAIN fresh : fresh[k] = c]
  IN
  /\ dictInst[i].pc = "saveDicts"
  /\ \/ taken /\ DictFails(i)
     \/ /\ ~taken
        /\ dicts' = [d \in 1 .. Len(dicts) + Len(fresh) |->
             IF \E c \in codes : saved[c] = d
             THEN [code |-> CHOOSE c \in codes : saved[c] = d, genType |-> "1"]
             ELSE dicts[d]]
        /\ dictInst' = [dictInst EXCEPT ![i].pc = "findItems", ![i].ids = saved,
                                        ![i].left = codes]
        /\ UNCHANGED <<items, dictForm, dictGhost>>
  /\ UNCHANGED dictSpent

GenerateHash(dict, dictCode, code, value) ==
  [dict |-> dict, dictCode |-> dictCode, code |-> code, value |-> value]

\* Mutant: an item is updated only if it is there with its old hash.
ItemRowsNone(dict, code) == {}

\* The rows that an item of this code may update.
ItemRowsOf(dict, code) == {r \in DOMAIN items : items[r].dict = dict /\ items[r].code = code}

\* The items of one dictionary are read and compared: one whose hash is there is
\* skipped, otherwise it updates a row with its code, or is a new row.
FindItems(i) ==
  LET inst == dictInst[i] IN
  /\ inst.pc = "findItems"
  /\ \E c \in inst.left :
       LET d == inst.ids[c]
           declared == MergeDicts(inst.batch)[c]
           hash(x) == GenerateHash(d, c, x, declared[x])
           news == {x \in DOMAIN declared :
                      ~\E r \in DOMAIN items : items[r].dict = d /\ items[r].hash = hash(x)}
           rows(x) == IF ItemRowsOf(d, x) = {} THEN {0} ELSE ItemRowsOf(d, x)
       IN \E row \in [news -> 0 .. Len(items)] :
            LET todo == inst.todo \cup {[row |-> row[x], hash |-> hash(x)] : x \in news}
                rest == inst.left \ {c}
            IN /\ \A x \in news : row[x] \in rows(x)
               /\ IF rest = {} /\ todo = {}
                  THEN DictSucceeds(i)
                  ELSE /\ dictInst' = [dictInst EXCEPT ![i].left = rest, ![i].todo = todo,
                            ![i].pc = IF rest = {} THEN "saveItems" ELSE "findItems"]
                       /\ UNCHANGED dictGhost
  /\ UNCHANGED <<dicts, items, dictForm, dictSpent>>

ItemRow(hash) ==
  [dict |-> hash.dict, code |-> hash.code, value |-> hash.value, hash |-> hash]

SaveItems(i) ==
  LET todo == dictInst[i].todo
      new == SetToSeq({t.hash : t \in {t \in todo : t.row = 0}})
      updated == [r \in DOMAIN items |->
                   IF \E t \in todo : t.row = r
                   THEN ItemRow((CHOOSE t \in todo : t.row = r).hash) ELSE items[r]]
  IN
  /\ dictInst[i].pc = "saveItems"
  /\ items' = updated \o [k \in DOMAIN new |-> ItemRow(new[k])]
  /\ DictSucceeds(i)
  /\ UNCHANGED <<dicts, dictForm, dictSpent>>

\* The process ends.
StopDict(i) ==
  /\ dictInst[i].pc # "down"
  /\ dictInst' = [dictInst EXCEPT ![i] = DictDown]
  /\ UNCHANGED <<dicts, items, dictForm, dictGhost, dictSpent>>

-----------------------------------------------------------------------------
(* Administrators *)

CodeTaken(id, code) == \E d \in DOMAIN dicts \ {id} : dicts[d].code = code

\* save (id 0) and edit of a dictionary count the other rows of the code first.
RequestDict ==
  /\ dictForm = NoForm
  /\ DictSpend("edits", MaxDictEdits)
  /\ \E id \in 0 .. Len(dicts), code \in DictCode :
       /\ ~CodeTaken(id, code)
       /\ dictForm' = [op |-> "dict", id |-> id, code |-> code]
  /\ UNCHANGED <<dicts, items, dictInst, dictGhost>>

AdminWrites(recodes) ==
  dictGhost' = [dictGhost EXCEPT !.last = 0, !.recoded = @ \/ recodes,
                                 !.overlapped = @ \/ \E i \in DictInstance : InDictFlush(i)]

\* The row is written, unless the unique key refuses it.
WriteDictRow ==
  LET f == dictForm  row == [code |-> f.code, genType |-> "2"] IN
  /\ f.op = "dict"
  /\ dictForm' = NoForm
  /\ IF CodeTaken(f.id, f.code) THEN UNCHANGED <<dicts, dictGhost>>
     ELSE /\ dicts' = IF f.id = 0 THEN Append(dicts, row) ELSE [dicts EXCEPT ![f.id] = row]
          /\ AdminWrites(FALSE)
  /\ UNCHANGED <<items, dictInst, dictSpent>>

\* The form of an item has no dictionary: a new item belongs to none, and the
\* hash of an edited one is computed without its own.
SaveItem ==
  /\ DictSpend("edits", MaxDictEdits)
  /\ \E code \in ItemCode, value \in ItemValue :
       items' = Append(items, ItemRow(GenerateHash(0, NoDict, code, value)))
  /\ AdminWrites(FALSE)
  /\ UNCHANGED <<dicts, dictInst, dictForm>>

EditItem ==
  /\ DictSpend("edits", MaxDictEdits)
  /\ \E r \in DOMAIN items, code \in ItemCode, value \in ItemValue :
       /\ items' = [items EXCEPT ![r] = [ItemRow(GenerateHash(0, NoDict, code, value))
                                           EXCEPT !.dict = items[r].dict]]
       /\ AdminWrites(code # items[r].code)
  /\ UNCHANGED <<dicts, dictInst, dictForm>>

DictNext ==
  \/ \E i \in DictInstance :
       \/ \E version \in DictVersion : StartDict(i, version)
       \/ FlushPendingDicts(i)
       \/ FindDicts(i) \/ SaveDicts(i) \/ FindItems(i) \/ SaveItems(i)
       \/ DictCallFails(i)
       \/ StopDict(i)
  \/ RequestDict \/ WriteDictRow \/ SaveItem \/ EditItem

DictSpec == DictInit /\ [][DictNext]_dictVars

-----------------------------------------------------------------------------
(* Properties *)

\* Every variable holds a value the code can store in it.
DictTypeOK ==
  /\ dicts \in Seq(DictRows) /\ items \in Seq(ItemRows)
  /\ dictInst \in [DictInstance -> DictInstances]
  /\ dictForm \in {NoForm} \cup [op : {"dict"}, id : 0 .. Len(dicts), code : DictCode]
  /\ dictGhost \in [overlapped : BOOLEAN, recoded : BOOLEAN, last : {0} \cup DictVersion]
  /\ dictSpent \in [starts : 0 .. MaxDictStarts, edits : 0 .. MaxDictEdits,
                    faults : 0 .. MaxDictFaults]

\* Items have no key: a dictionary has two rows of one code only if a flush was in
\* progress together with another or with a write of an administrator, or an
\* administrator has given an item another code, never from failures, restarts,
\* changes of version or renamed dictionaries.
OneItemUnlessOverlapped ==
  dictGhost.overlapped \/ dictGhost.recoded
  \/ \A r, q \in DOMAIN items :
       items[r].dict # 0 /\ items[r].dict = items[q].dict /\ items[r].code = items[q].code
         => r = q

\* What a version declares last of an item.
DeclaredLast(version, c, x) ==
  LET says == {k \in DOMAIN DictDeclared[version] :
                 /\ DictDeclared[version][k].code = c
                 /\ x \in DOMAIN DictDeclared[version][k].items}
      final == CHOOSE k \in says : \A l \in says : l <= k
  IN IF says = {} THEN {} ELSE {DictDeclared[version][final].items[x]}

\* A flush that succeeded alone leaves every dictionary its version declares, as
\* generated, with every item it declares at the declared value, whatever versions,
\* failures and edits came before.
DeclaredUnlessDisturbed ==
  dictGhost.last # 0 /\ ~dictGhost.overlapped /\ ~dictGhost.recoded
    => \A k \in DOMAIN DictDeclared[dictGhost.last] :
         LET c == DictDeclared[dictGhost.last][k].code  d == IdOf(c) IN
         /\ d # 0 /\ dicts[d].genType = "1"
         /\ \A x \in ItemCode :
              DeclaredLast(dictGhost.last, c, x)
                \subseteq {row.value : row \in {row \in ToSet(items) : row.dict = d /\ row.code = x}}

=============================================================================
