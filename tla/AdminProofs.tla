---------------------------- MODULE AdminProofs ----------------------------
(***************************************************************************)
(* Theorems about AdminForms, for every set of keys and concurrent calls,   *)
(* and every number of calls; about CacheDecorator, for any number of keys, *)
(* calls and decorated methods; and about the parts of MCAdmin beside each  *)
(* other.                                                                   *)
(***************************************************************************)
EXTENDS MCAdmin, DeptProofs

-----------------------------------------------------------------------------
(* The forms: what the calls in progress carry *)

WritingNames == {"exists", "name", "code", "category", "generate", "write", "sync"}
DeletingNames == {"find", "used", "unsync", "drop"}

\* A form gives what the columns of its table take; the code of a file configuration
\* is there once it is generated.
AskFits(c) ==
  /\ c.ask.type \in TypesOf(c.table)
  /\ c.ask.name = NoKey => c.table = "menu"
  /\ c.table \notin WithCode => c.ask.code = NoKey
  /\ c.table \in {"role", "task"} => c.ask.code # NoKey
  /\ c.table = "fileConfig" /\ c.id = 0 /\ "generate" \notin c.todo => c.ask.code # NoKey
  /\ "generate" \in c.todo => c.table = "fileConfig"
  /\ c.ask.category # 0 => c.table = "task"

CallFits(c) ==
  /\ c.op = "none" => c.todo = {}
  /\ c.op = "write" => c.todo \subseteq WritingNames /\ AskFits(c)
  /\ c.op = "delete" => c.todo \subseteq DeletingNames

CallsFit == \A s \in FormSlot : CallFits(formCall[s])

FormInv == FormTypeOK /\ CallsFit

\* Whose codes the database keeps apart.
CodesDiffer ==
  \A t \in {"task", "fileConfig"} : \A r, q \in RowsOf(t) : r # q => rows[r].code # rows[q].code

\* No two live rows of a table that no two calls wrote at once share a name or a code.
LiveDiffer ==
  \A t \in FormTables \ formGhost.overlapped : \A r, q \in LiveRows(t) :
    r # q => \A column \in {"name", "code"} :
               rows[r][column] = NoKey \/ rows[r][column] # rows[q][column]

OverlapSeen ==
  \A s, o \in FormSlot : \A t \in FormTables :
    s # o /\ Writing(formCall[s], t) /\ Writing(formCall[o], t) => t \in formGhost.overlapped

\* A key that was looked for and not found is still not there when its row is written.
CheckedStillFree ==
  \A s \in FormSlot :
    /\ formCall[s].op = "write" /\ "write" \in formCall[s].todo
    /\ formCall[s].table \notin formGhost.overlapped
    => /\ "name" \notin formCall[s].todo => ~Duplicates(s, "name")
       /\ "code" \notin formCall[s].todo /\ formCall[s].table = "role" => ~Duplicates(s, "code")

KeyInv == CodesDiffer /\ LiveDiffer /\ OverlapSeen /\ CheckedStillFree

Categories == {0} \cup LiveRows("taskCategory")

\* As long as no deletion of categories met a call that writes a task: what such calls
\* have found out about the categories still holds.
CategoryInv ==
  ~formGhost.crossed =>
    /\ \A r \in LiveRows("task") : rows[r].category \in Categories
    /\ \A s, o \in FormSlot :
         ~(Writing(formCall[s], "task") /\ Dropping(formCall[o], "taskCategory"))
    /\ \A s \in FormSlot :
         Writing(formCall[s], "task") /\ "category" \notin formCall[s].todo
           => formCall[s].ask.category \in Categories
    /\ \A s \in FormSlot :
         Dropping(formCall[s], "taskCategory") /\ "used" \notin formCall[s].todo
           => \A r \in LiveRows("task") : rows[r].category \notin formCall[s].ids

LEMMA FormInitInv == FormInit => FormInv /\ KeyInv /\ CategoryInv
<1> SUFFICES ASSUME FormInit PROVE FormInv /\ KeyInv /\ CategoryInv
  OBVIOUS
<1>1. rows = <<>> /\ DOMAIN rows = {} /\ \A t \in FormTables : RowsOf(t) = {} /\ LiveRows(t) = {}
  BY DEF FormInit, RowsOf, LiveRows
<1>2. \A s \in FormSlot : formCall[s] = FormIdle
  BY DEF FormInit
<1>3. FormIdle \in FormCalls
  BY DEF FormIdle, NoAsk, FormCalls, FormTables, Asks, MaybeKey, Types
<1>4. FormTypeOK
  BY <1>1, <1>2, <1>3, FormAssumption DEF FormInit, FormTypeOK, FormTables, FormIdle, NoAsk
<1>5. CallsFit
  BY <1>2 DEF CallsFit, CallFits, FormIdle
<1>6. KeyInv
  BY <1>1, <1>2 DEF KeyInv, CodesDiffer, LiveDiffer, OverlapSeen, CheckedStillFree, FormIdle,
     Writing, FormTables
<1>7. CategoryInv
  BY <1>1, <1>2 DEF CategoryInv, FormIdle, Writing, Dropping, FormTables
<1> QED
  BY <1>4, <1>5, <1>6, <1>7 DEF FormInv

\* Rows have positions from 1 on and belong to one table.
LEMMA RowsTyped ==
  ASSUME FormTypeOK
  PROVE  /\ Len(rows) \in Nat /\ DOMAIN rows = 1 .. Len(rows)
         /\ \A r \in DOMAIN rows : rows[r] \in FormRows /\ rows[r].table \in FormTables
<1>1. rows \in Seq(FormRows)
  BY DEF FormTypeOK
<1>2. \A r \in 1 .. Len(rows) : rows[r] \in FormRows
  BY <1>1
<1> QED
  BY <1>1, <1>2 DEF FormRows

\* The order of the steps: what comes first has been taken.
LEMMA StepOrder ==
  ASSUME NEW s \in FormSlot
  PROVE  /\ AtStep(s, "write") =>
              /\ "write" \in formCall[s].todo
              /\ {"name", "code", "category", "generate"} \cap formCall[s].todo = {}
         /\ AtStep(s, "drop") =>
              "drop" \in formCall[s].todo /\ {"used", "find"} \cap formCall[s].todo = {}
<1> DEFINE todo == formCall[s].todo
<1>1. DOMAIN FormSteps = 1 .. 11
  BY DEF FormSteps
<1>2. /\ FormSteps[1] = "exists" /\ FormSteps[2] = "name" /\ FormSteps[3] = "code"
      /\ FormSteps[4] = "category" /\ FormSteps[5] = "generate" /\ FormSteps[6] = "write"
      /\ FormSteps[7] = "sync" /\ FormSteps[8] = "find" /\ FormSteps[9] = "used"
      /\ FormSteps[10] = "unsync" /\ FormSteps[11] = "drop"
  BY DEF FormSteps
<1>3. \A k \in 1 .. 11 : (FormSteps[k] = "write" => k = 6) /\ (FormSteps[k] = "drop" => k = 11)
  BY <1>2
<1>4. ASSUME AtStep(s, "write")
      PROVE  "write" \in todo /\ \A i \in 1 .. 5 : FormSteps[i] \notin todo
  BY <1>1, <1>3, <1>4 DEF AtStep
<1>5. ASSUME AtStep(s, "drop")
      PROVE  "drop" \in todo /\ \A i \in 1 .. 10 : FormSteps[i] \notin todo
  BY <1>1, <1>3, <1>5 DEF AtStep
<1> QED
  BY <1>2, <1>4, <1>5

\* The names of the steps.
LEMMA StepNamesAre == StepNames = WritingNames \cup DeletingNames
<1>1. DOMAIN FormSteps = 1 .. 11
  BY DEF FormSteps
<1>2. /\ FormSteps[1] = "exists" /\ FormSteps[2] = "name" /\ FormSteps[3] = "code"
      /\ FormSteps[4] = "category" /\ FormSteps[5] = "generate" /\ FormSteps[6] = "write"
      /\ FormSteps[7] = "sync" /\ FormSteps[8] = "find" /\ FormSteps[9] = "used"
      /\ FormSteps[10] = "unsync" /\ FormSteps[11] = "drop"
  BY DEF FormSteps
<1>3. StepNames \subseteq WritingNames \cup DeletingNames
  BY <1>1, <1>2 DEF StepNames, WritingNames, DeletingNames
<1>4. WritingNames \cup DeletingNames \subseteq StepNames
  <2>1. \A k \in 1 .. 11 : FormSteps[k] \in StepNames
    BY <1>1 DEF StepNames
  <2> QED
    BY <1>2, <2>1 DEF WritingNames, DeletingNames
<1> QED
  BY <1>3, <1>4

\* Nothing happens.
LEMMA FormIdles ==
  ASSUME FormInv, KeyInv, CategoryInv, UNCHANGED formVars
  PROVE  FormInv' /\ KeyInv' /\ CategoryInv'
<1>1. /\ rows' = rows /\ formTables' = formTables /\ formCall' = formCall
      /\ formGhost' = formGhost /\ formCalls' = formCalls
  BY DEF formVars
<1>2. \A t : RowsOf(t)' = RowsOf(t) /\ LiveRows(t)' = LiveRows(t)
  BY <1>1 DEF RowsOf, LiveRows
<1>3. FormInv'
  BY <1>1, <1>2 DEF FormInv, FormTypeOK, CallsFit
<1>4. CodesDiffer' /\ LiveDiffer' /\ OverlapSeen'
  BY <1>1, <1>2 DEF KeyInv, CodesDiffer, LiveDiffer, OverlapSeen
<1>5. CheckedStillFree'
  BY <1>1, <1>2 DEF KeyInv, CheckedStillFree, Duplicates, IsDuplicate
<1>6. CategoryInv'
  BY <1>1, <1>2 DEF CategoryInv, Categories
<1> QED
  BY <1>3, <1>4, <1>5, <1>6 DEF KeyInv

\* A call ends, and takes its claims with it.
LEMMA FormEndsKeeps ==
  ASSUME FormInv, KeyInv, CategoryInv, NEW s \in FormSlot, FormEnds(s), FormKeeps
  PROVE  FormInv' /\ KeyInv' /\ CategoryInv'
<1>1. /\ \A o \in FormSlot : formCall'[o] = IF o = s THEN FormIdle ELSE formCall[o]
      /\ rows' = rows /\ formGhost' = formGhost /\ formTables' = formTables /\ formCalls' = formCalls
  BY DEF FormEnds, FormKeeps, FormInv, FormTypeOK
<1>2. formCall' \in [FormSlot -> FormCalls]
  <2>1. FormIdle \in FormCalls
    BY DEF FormIdle, NoAsk, FormCalls, FormTables, Asks, MaybeKey, Types
  <2> QED
    BY <2>1 DEF FormEnds, FormInv, FormTypeOK
<1>3. \A t : RowsOf(t)' = RowsOf(t) /\ LiveRows(t)' = LiveRows(t)
  BY <1>1 DEF RowsOf, LiveRows
<1>4. FormTypeOK'
  BY <1>1, <1>2 DEF FormInv, FormTypeOK, FormIdle, RowsOf
<1>5. CallsFit'
  BY <1>1 DEF FormInv, CallsFit, CallFits, AskFits, FormIdle
<1>6. KeyInv'
  <2>1. CodesDiffer' /\ LiveDiffer'
    BY <1>1, <1>3 DEF KeyInv, CodesDiffer, LiveDiffer
  <2>2. OverlapSeen'
    BY <1>1 DEF KeyInv, OverlapSeen, Writing, FormIdle
  <2>3. CheckedStillFree'
    BY <1>1, <1>3 DEF KeyInv, CheckedStillFree, Duplicates, IsDuplicate, FormIdle
  <2> QED
    BY <2>1, <2>2, <2>3 DEF KeyInv
<1>7. CategoryInv'
  BY <1>1, <1>3 DEF CategoryInv, Categories, Writing, Dropping, FormIdle
<1> QED
  BY <1>4, <1>5, <1>6, <1>7 DEF FormInv

\* A step that writes no row: what it looked for becomes one of the claims of the call.
LEMMA FormGoesOnKeeps ==
  ASSUME FormInv, KeyInv, CategoryInv, NEW s \in FormSlot, NEW step, NEW d \in FormCalls,
         FormKeeps, formCall' = [formCall EXCEPT ![s] = d], CallFits(d), step # "write",
         d.op = formCall[s].op, d.table = formCall[s].table, d.id = formCall[s].id,
         d.ids \subseteq formCall[s].ids, d.todo = formCall[s].todo \ {step},
         d.ask.name = formCall[s].ask.name, d.ask.category = formCall[s].ask.category,
         d.table = "role" => d.ask.code = formCall[s].ask.code,
         step = "name" => ~Duplicates(s, "name"),
         step = "code" => ~Duplicates(s, "code"),
         step = "category" => formCall[s].ask.category \in Categories,
         step = "used" => \A r \in LiveRows("task") : rows[r].category \notin formCall[s].ids
  PROVE  FormInv' /\ KeyInv' /\ CategoryInv'
<1>1. /\ \A o \in FormSlot : o # s => formCall'[o] = formCall[o]
      /\ formCall'[s] = d /\ formCall' \in [FormSlot -> FormCalls]
      /\ rows' = rows /\ formGhost' = formGhost /\ formTables' = formTables /\ formCalls' = formCalls
  BY DEF FormKeeps, FormInv, FormTypeOK
<1>2. \A t : RowsOf(t)' = RowsOf(t) /\ LiveRows(t)' = LiveRows(t)
  BY <1>1 DEF RowsOf, LiveRows
<1>3. \A o \in FormSlot :
         /\ formCall'[o].op = formCall[o].op /\ formCall'[o].table = formCall[o].table
         /\ formCall'[o].id = formCall[o].id /\ formCall'[o].ids \subseteq formCall[o].ids
         /\ formCall'[o].ask.category = formCall[o].ask.category
  BY <1>1
<1>4. FormTypeOK'
  BY <1>1, <1>2, <1>3 DEF FormInv, FormTypeOK
<1>5. CallsFit'
  BY <1>1 DEF FormInv, CallsFit, CallFits, AskFits
<1>6. KeyInv'
  <2>1. CodesDiffer' /\ LiveDiffer'
    BY <1>1, <1>2 DEF KeyInv, CodesDiffer, LiveDiffer
  <2>2. OverlapSeen'
    BY <1>1, <1>3 DEF KeyInv, OverlapSeen, Writing
  <2>3. \A o \in FormSlot : Duplicates(o, "name")' <=> Duplicates(o, "name")
    BY <1>1, <1>2, <1>3 DEF Duplicates, IsDuplicate
  <2>4. \A o \in FormSlot : formCall[o].table = "role"
                               => (Duplicates(o, "code")' <=> Duplicates(o, "code"))
    BY <1>1, <1>2, <1>3 DEF Duplicates, IsDuplicate
  <2>5. \A o \in FormSlot, n \in {"name", "code"} :
           n \notin formCall'[o].todo => n \notin formCall[o].todo \/ (o = s /\ n = step)
    BY <1>1
  <2>6. \A o \in FormSlot : "write" \in formCall'[o].todo => "write" \in formCall[o].todo
    BY <1>1
  <2>7. CheckedStillFree'
    BY <1>1, <1>3, <2>3, <2>4, <2>5, <2>6 DEF KeyInv, CheckedStillFree
  <2> QED
    BY <2>1, <2>2, <2>7 DEF KeyInv
<1>7. CategoryInv'
  <2>1. \A o \in FormSlot, n \in {"category", "used"} :
           n \notin formCall'[o].todo => n \notin formCall[o].todo \/ (o = s /\ n = step)
    BY <1>1
  <2> QED
    BY <1>1, <1>2, <1>3, <2>1 DEF CategoryInv, Categories, Writing, Dropping
<1> QED
  BY <1>4, <1>5, <1>6, <1>7 DEF FormInv

\* A check passes or ends the call.
LEMMA FormCheckKeeps ==
  ASSUME FormInv, KeyInv, CategoryInv, NEW s \in FormSlot, NEW step, NEW passes \in BOOLEAN,
         FormCheck(s, step, passes), step \notin {"generate", "write"},
         passes /\ step = "name" => ~Duplicates(s, "name"),
         passes /\ step = "code" => ~Duplicates(s, "code"),
         passes /\ step = "category" => formCall[s].ask.category \in Categories,
         passes /\ step = "used"
           => \A r \in LiveRows("task") : rows[r].category \notin formCall[s].ids
  PROVE  FormInv' /\ KeyInv' /\ CategoryInv'
<1>1. CASE FormEnds(s)
  BY <1>1, FormEndsKeeps DEF FormCheck
<1>2. CASE passes /\ formCall' = [formCall EXCEPT ![s].todo = @ \ {step}]
  <2> DEFINE c == formCall[s]
             d == [formCall[s] EXCEPT !.todo = @ \ {step}]
  <2>1. c \in FormCalls
    BY DEF FormInv, FormTypeOK
  <2>2. /\ d.op = c.op /\ d.table = c.table /\ d.id = c.id /\ d.ids = c.ids /\ d.ask = c.ask
        /\ d.todo = c.todo \ {step} /\ d \in FormCalls
    BY <2>1 DEF FormCalls
  <2>3. formCall' = [formCall EXCEPT ![s] = d] /\ FormKeeps
    BY <1>2 DEF FormCheck
  <2> HIDE DEF d
  <2>4. CallFits(d)
    BY <2>2 DEF FormInv, CallsFit, CallFits, AskFits
  <2> QED
    BY <1>2, <2>2, <2>3, <2>4, FormGoesOnKeeps
<1> QED
  BY <1>1, <1>2 DEF FormCheck, FormMoves

\* A call that begins has everything still to check, and is seen beside the others.
LEMMA FormStartKeeps ==
  ASSUME FormInv, KeyInv, CategoryInv, NEW s \in FormSlot, NEW c \in FormCalls, FormStart(s, c),
         CallFits(c), {c.id} \cup c.ids \subseteq {0} \cup RowsOf(c.table),
         c.op = "write" => /\ "name" \in c.todo
                           /\ c.table = "role" => "code" \in c.todo
                           /\ c.ask.category # 0 => "category" \in c.todo,
         c.op = "delete" /\ c.table = "taskCategory" => "used" \in c.todo
  PROVE  FormInv' /\ KeyInv' /\ CategoryInv'
<1>1. /\ \A o \in FormSlot : o # s => formCall'[o] = formCall[o]
      /\ formCall'[s] = c /\ formCall' \in [FormSlot -> FormCalls]
      /\ rows' = rows /\ formTables' = formTables
      /\ formCalls < MaxFormCalls /\ formCalls' = formCalls + 1
  BY DEF FormStart, FormInv, FormTypeOK
<1>2. \A t : RowsOf(t)' = RowsOf(t) /\ LiveRows(t)' = LiveRows(t)
  BY <1>1 DEF RowsOf, LiveRows
<1>3. /\ formGhost'.overlapped = formGhost.overlapped
            \cup {t \in {c.table} : \E o \in FormSlot \ {s} : Writing(c, t) /\ Writing(formCall[o], t)}
      /\ formGhost'.crossed = \/ formGhost.crossed
                              \/ /\ Writing(c, "task")
                                 /\ \E o \in FormSlot \ {s} : Dropping(formCall[o], "taskCategory")
                              \/ /\ Dropping(c, "taskCategory")
                                 /\ \E o \in FormSlot \ {s} : Writing(formCall[o], "task")
  BY DEF FormStart
<1>4. formGhost' \in [overlapped : SUBSET FormTables, crossed : BOOLEAN]
  <2>1. formGhost \in [overlapped : SUBSET FormTables, crossed : BOOLEAN] /\ c.table \in FormTables
    BY DEF FormInv, FormTypeOK, FormCalls
  <2>2. formGhost'.overlapped \in SUBSET FormTables
    BY <1>3, <2>1
  <2>3. formGhost'.crossed \in BOOLEAN
    BY <1>3, <2>1
  <2>4. formGhost' = [overlapped |-> formGhost'.overlapped, crossed |-> formGhost'.crossed]
    BY DEF FormStart
  <2> QED
    BY <2>2, <2>3, <2>4
<1>5. FormTypeOK'
  <2>1. formCalls' \in 0 .. MaxFormCalls
    BY <1>1, FormAssumption DEF FormInv, FormTypeOK
  <2>2. \A o \in FormSlot :
           {formCall'[o].id} \cup formCall'[o].ids \subseteq {0} \cup RowsOf(formCall'[o].table)
    BY <1>1 DEF FormInv, FormTypeOK
  <2> QED
    BY <1>1, <1>2, <1>4, <2>1, <2>2 DEF FormInv, FormTypeOK
<1>6. CallsFit'
  BY <1>1 DEF FormInv, CallsFit, CallFits, AskFits
<1>7. KeyInv'
  <2>1. CodesDiffer'
    BY <1>1, <1>2 DEF KeyInv, CodesDiffer
  <2>2. LiveDiffer'
    BY <1>1, <1>2, <1>3 DEF KeyInv, LiveDiffer
  <2>3. OverlapSeen'
    <3> SUFFICES ASSUME NEW a \in FormSlot, NEW b \in FormSlot, NEW t \in FormTables, a # b,
                        Writing(formCall'[a], t), Writing(formCall'[b], t)
                 PROVE  t \in formGhost'.overlapped
      BY DEF OverlapSeen
    <3>1. CASE a # s /\ b # s
      BY <1>1, <1>3, <3>1 DEF KeyInv, OverlapSeen
    <3>2. CASE a = s
      BY <1>1, <1>3, <3>2 DEF Writing
    <3>3. CASE b = s
      BY <1>1, <1>3, <3>3 DEF Writing
    <3> QED
      BY <3>1, <3>2, <3>3
  <2>4. CheckedStillFree'
    <3> SUFFICES ASSUME NEW o \in FormSlot, formCall'[o].op = "write", "write" \in formCall'[o].todo,
                        formCall'[o].table \notin formGhost'.overlapped
                 PROVE  /\ "name" \notin formCall'[o].todo => ~Duplicates(o, "name")'
                        /\ "code" \notin formCall'[o].todo /\ formCall'[o].table = "role"
                             => ~Duplicates(o, "code")'
      BY DEF CheckedStillFree
    <3>1. CASE o = s
      BY <1>1, <3>1
    <3>2. CASE o # s
      <4>1. formCall'[o] = formCall[o] /\ formCall[o].table \notin formGhost.overlapped
        BY <1>1, <1>3, <3>2
      <4>2. \A column \in {"name", "code"} : Duplicates(o, column)' <=> Duplicates(o, column)
        BY <1>1, <1>2, <4>1 DEF Duplicates, IsDuplicate
      <4> QED
        BY <4>1, <4>2 DEF KeyInv, CheckedStillFree
    <3> QED
      BY <3>1, <3>2
  <2> QED
    BY <2>1, <2>2, <2>3, <2>4 DEF KeyInv
<1>8. CategoryInv'
  <2> SUFFICES ASSUME ~formGhost'.crossed
      PROVE  /\ \A r \in LiveRows("task")' : rows'[r].category \in Categories'
             /\ \A a, b \in FormSlot :
                  ~(Writing(formCall'[a], "task") /\ Dropping(formCall'[b], "taskCategory"))
             /\ \A a \in FormSlot :
                  Writing(formCall'[a], "task") /\ "category" \notin formCall'[a].todo
                    => formCall'[a].ask.category \in Categories'
             /\ \A a \in FormSlot :
                  Dropping(formCall'[a], "taskCategory") /\ "used" \notin formCall'[a].todo
                    => \A r \in LiveRows("task")' : rows'[r].category \notin formCall'[a].ids
    BY DEF CategoryInv
  <2>1. ~formGhost.crossed /\ Categories' = Categories
    BY <1>2, <1>3 DEF Categories
  <2>2. \A r \in LiveRows("task")' : rows'[r].category \in Categories'
    BY <1>1, <1>2, <2>1 DEF CategoryInv
  <2>3. ASSUME NEW a \in FormSlot, NEW b \in FormSlot,
               Writing(formCall'[a], "task"), Dropping(formCall'[b], "taskCategory")
        PROVE  FALSE
    <3>1. a # b
      BY <2>3 DEF Writing, Dropping
    <3>2. CASE a = s
      BY <1>1, <1>3, <2>3, <3>1, <3>2
    <3>3. CASE b = s
      BY <1>1, <1>3, <2>3, <3>1, <3>3
    <3>4. CASE a # s /\ b # s
      BY <1>1, <2>1, <2>3, <3>4 DEF CategoryInv
    <3> QED
      BY <3>2, <3>3, <3>4
  <2>4. \A a \in FormSlot : Writing(formCall'[a], "task") /\ "category" \notin formCall'[a].todo
                              => formCall'[a].ask.category \in Categories'
    BY <1>1, <2>1 DEF CategoryInv, Writing, Categories
  <2>5. \A a \in FormSlot :
           Dropping(formCall'[a], "taskCategory") /\ "used" \notin formCall'[a].todo
             => \A r \in LiveRows("task")' : rows'[r].category \notin formCall'[a].ids
    BY <1>1, <1>2, <2>1 DEF CategoryInv, Dropping
  <2> QED
    BY <2>2, <2>3, <2>4, <2>5
<1> QED
  BY <1>5, <1>6, <1>7, <1>8 DEF FormInv

LEMMA SaveOrEditKeeps ==
  ASSUME FormInv, KeyInv, CategoryInv, NEW s \in FormSlot, SaveOrEdit(s)
  PROVE  FormInv' /\ KeyInv' /\ CategoryInv'
<1>1. PICK t \in formTables : \E id \in {0} \cup RowsOf(t),
        ask \in [name : IF t = "menu" THEN MaybeKey ELSE FormKey,
                 code : IF t \in {"role", "task"} THEN FormKey ELSE {NoKey},
                 type : TypesOf(t),
                 category : {0} \cup IF t = "task" THEN RowsOf("taskCategory") ELSE {}] :
          FormStart(s, [op |-> "write", table |-> t, id |-> id, ids |-> {},
                        todo |-> WritingSteps(t, id, ask), ask |-> ask])
  BY DEF SaveOrEdit
<1>2. PICK id \in {0} \cup RowsOf(t) : \E ask \in
                [name : IF t = "menu" THEN MaybeKey ELSE FormKey,
                 code : IF t \in {"role", "task"} THEN FormKey ELSE {NoKey},
                 type : TypesOf(t),
                 category : {0} \cup IF t = "task" THEN RowsOf("taskCategory") ELSE {}] :
          FormStart(s, [op |-> "write", table |-> t, id |-> id, ids |-> {},
                        todo |-> WritingSteps(t, id, ask), ask |-> ask])
  BY <1>1
<1>3. PICK ask \in [name : IF t = "menu" THEN MaybeKey ELSE FormKey,
                 code : IF t \in {"role", "task"} THEN FormKey ELSE {NoKey},
                 type : TypesOf(t),
                 category : {0} \cup IF t = "task" THEN RowsOf("taskCategory") ELSE {}] :
          FormStart(s, [op |-> "write", table |-> t, id |-> id, ids |-> {},
                        todo |-> WritingSteps(t, id, ask), ask |-> ask])
  BY <1>2
<1> DEFINE c == [op |-> "write", table |-> t, id |-> id, ids |-> {},
                 todo |-> WritingSteps(t, id, ask), ask |-> ask]
<1>4. t \in FormTables
  BY DEF FormInv, FormTypeOK
<1>5. \A u \in FormTables : RowsOf(u) \subseteq Nat \ {0}
  <2>1. DOMAIN rows = 1 .. Len(rows) /\ Len(rows) \in Nat
    BY RowsTyped DEF FormInv
  <2> QED
    BY <2>1 DEF RowsOf
<1>6. id \in Nat /\ "taskCategory" \in FormTables
  BY <1>4, <1>5 DEF FormTables
<1>7. /\ TypesOf(t) \subseteq Types
      /\ t \in {"role", "menu", "fileCategory", "fileConfig", "taskCategory", "task"}
  BY <1>4 DEF FormTables, TypesOf, Types
<1>8. ask \in Asks
  BY <1>5, <1>6, <1>7 DEF Asks, MaybeKey
<1>9. /\ c.op = "write" /\ c.table = t /\ c.id = id /\ c.ids = {} /\ c.ask = ask
      /\ c.todo = WritingSteps(t, id, ask)
  OBVIOUS
<1>10. WritingSteps(t, id, ask) \subseteq WritingNames
  BY DEF WritingSteps, WritingNames
<1>11. c \in FormCalls
  <2>1. WritingSteps(t, id, ask) \subseteq StepNames
    BY <1>10, StepNamesAre
  <2> QED
    BY <1>4, <1>6, <1>8, <2>1 DEF FormCalls
<1>12. CallFits(c)
  <2>1. AskFits(c)
    BY <1>7, <1>9, FormAssumption DEF AskFits, WithCode, WritingSteps, MaybeKey
  <2> QED
    BY <1>9, <1>10, <2>1 DEF CallFits
<1>13. {c.id} \cup c.ids \subseteq {0} \cup RowsOf(c.table)
  BY <1>9
<1>14. /\ "name" \in c.todo
       /\ c.table = "role" => "code" \in c.todo
       /\ c.ask.category # 0 => "category" \in c.todo
  BY <1>9 DEF WritingSteps
<1>15. c.op = "write" /\ FormStart(s, c)
  BY <1>3
<1> HIDE DEF c
<1> QED
  BY <1>11, <1>12, <1>13, <1>14, <1>15, FormStartKeeps

LEMMA DelByIdsKeeps ==
  ASSUME FormInv, KeyInv, CategoryInv, NEW s \in FormSlot, DelByIds(s)
  PROVE  FormInv' /\ KeyInv' /\ CategoryInv'
<1>1. PICK t \in formTables : \E ids \in SUBSET RowsOf(t) :
        FormStart(s, [op |-> "delete", table |-> t, id |-> 0, ids |-> ids,
                      todo |-> DeletingSteps(t), ask |-> NoAsk])
  BY DEF DelByIds
<1>2. PICK ids \in SUBSET RowsOf(t) :
        FormStart(s, [op |-> "delete", table |-> t, id |-> 0, ids |-> ids,
                      todo |-> DeletingSteps(t), ask |-> NoAsk])
  BY <1>1
<1> DEFINE c == [op |-> "delete", table |-> t, id |-> 0, ids |-> ids,
                 todo |-> DeletingSteps(t), ask |-> NoAsk]
<1>3. t \in FormTables
  BY DEF FormInv, FormTypeOK
<1>4. ids \in SUBSET Nat
  <2>1. DOMAIN rows = 1 .. Len(rows) /\ Len(rows) \in Nat
    BY RowsTyped DEF FormInv
  <2> QED
    BY <2>1 DEF RowsOf
<1>5. c.op = "delete" /\ c.table = t /\ c.id = 0 /\ c.ids = ids /\ c.todo = DeletingSteps(t)
  OBVIOUS
<1>6. DeletingSteps(t) \subseteq DeletingNames
  BY DEF DeletingSteps, DeletingNames
<1>7. c \in FormCalls
  <2>1. DeletingSteps(t) \subseteq StepNames
    BY <1>6, StepNamesAre
  <2>2. NoAsk \in Asks
    BY DEF NoAsk, Asks, MaybeKey, Types
  <2> QED
    BY <1>3, <1>4, <2>1, <2>2 DEF FormCalls
<1>8. CallFits(c)
  BY <1>5, <1>6 DEF CallFits
<1>9. {c.id} \cup c.ids \subseteq {0} \cup RowsOf(c.table)
  BY <1>5
<1>10. c.op = "delete" /\ (c.table = "taskCategory" => "used" \in c.todo) /\ FormStart(s, c)
  BY <1>2 DEF DeletingSteps
<1> HIDE DEF c
<1> QED
  BY <1>7, <1>8, <1>9, <1>10, FormStartKeeps


LEMMA ChecksKeep ==
  ASSUME FormInv, KeyInv, CategoryInv, NEW s \in FormSlot,
         \/ CheckRow(s) \/ CheckName(s) \/ CheckCode(s) \/ CheckCategory(s)
         \/ SyncRow(s) \/ CountTasks(s)
  PROVE  FormInv' /\ KeyInv' /\ CategoryInv'
<1>1. CASE CheckRow(s)
  <2> DEFINE passes == formCall[s].id \in LiveRows(formCall[s].table)
  <2>1. passes \in BOOLEAN /\ FormCheck(s, "exists", passes)
    BY <1>1 DEF CheckRow
  <2> HIDE DEF passes
  <2> QED
    BY <2>1, FormCheckKeeps
<1>2. CASE CheckName(s)
  <2> DEFINE passes == ~Duplicates(s, "name")
  <2>1. passes \in BOOLEAN /\ FormCheck(s, "name", passes)
    BY <1>2 DEF CheckName
  <2>2. passes => ~Duplicates(s, "name")
    OBVIOUS
  <2> HIDE DEF passes
  <2> QED
    BY <2>1, <2>2, FormCheckKeeps
<1>3. CASE CheckCode(s)
  <2> DEFINE passes == ~Duplicates(s, "code")
  <2>1. passes \in BOOLEAN /\ FormCheck(s, "code", passes)
    BY <1>3 DEF CheckCode
  <2>2. passes => ~Duplicates(s, "code")
    OBVIOUS
  <2> HIDE DEF passes
  <2> QED
    BY <2>1, <2>2, FormCheckKeeps
<1>4. CASE CheckCategory(s)
  <2> DEFINE passes == formCall[s].ask.category \in LiveRows("taskCategory")
  <2>1. passes \in BOOLEAN /\ FormCheck(s, "category", passes)
    BY <1>4 DEF CheckCategory
  <2>2. passes => formCall[s].ask.category \in Categories
    BY DEF Categories
  <2> HIDE DEF passes
  <2> QED
    BY <2>1, <2>2, FormCheckKeeps
<1>5. CASE SyncRow(s)
  BY <1>5, FormCheckKeeps DEF SyncRow
<1>6. CASE CountTasks(s)
  <2> DEFINE passes == ~\E r \in LiveRows("task") : rows[r].category \in formCall[s].ids
  <2>1. passes \in BOOLEAN /\ FormCheck(s, "used", passes)
    BY <1>6 DEF CountTasks
  <2>2. passes => \A r \in LiveRows("task") : rows[r].category \notin formCall[s].ids
    OBVIOUS
  <2> HIDE DEF passes
  <2> QED
    BY <2>1, <2>2, FormCheckKeeps
<1> QED
  BY <1>1, <1>2, <1>3, <1>4, <1>5, <1>6

\* A generated code is a key; only the code of a file configuration is generated.
LEMMA GenerateKeeps ==
  ASSUME FormInv, KeyInv, CategoryInv, NEW s \in FormSlot, GenerateUniqueCode(s)
  PROVE  FormInv' /\ KeyInv' /\ CategoryInv'
<1> DEFINE c == formCall[s]
<1>1. c \in FormCalls /\ "generate" \in c.todo /\ c.op = "write" /\ c.table = "fileConfig"
  <2>1. c \in FormCalls /\ "generate" \in c.todo /\ CallFits(c)
    BY DEF GenerateUniqueCode, AtStep, FormInv, FormTypeOK, CallsFit
  <2> QED
    BY <2>1 DEF CallFits, AskFits, FormCalls, DeletingNames
<1>2. PICK key \in FormKey :
        IF IsDuplicate("fileConfig", 0, "code", key) THEN UNCHANGED formCall
        ELSE formCall' = [formCall EXCEPT ![s].ask.code = key, ![s].todo = @ \ {"generate"}]
  BY DEF GenerateUniqueCode
<1>3. CASE UNCHANGED formCall
  <2>1. UNCHANGED formVars
    BY <1>3 DEF GenerateUniqueCode, FormKeeps, formVars
  <2> QED
    BY <2>1, FormIdles
<1>4. CASE formCall' = [formCall EXCEPT ![s].ask.code = key, ![s].todo = @ \ {"generate"}]
  <2> DEFINE d == [c EXCEPT !.ask.code = key, !.todo = @ \ {"generate"}]
             ask == [c.ask EXCEPT !.code = key]
  <2>1. c.ask \in Asks
    BY <1>1 DEF FormCalls
  <2>2. /\ ask.name = c.ask.name /\ ask.type = c.ask.type /\ ask.category = c.ask.category
        /\ ask.code = key /\ ask \in Asks
    BY <2>1 DEF Asks, MaybeKey
  <2>3. formCall' = [formCall EXCEPT ![s] = d] /\ FormKeeps
    BY <1>4 DEF GenerateUniqueCode
  <2>4. d = [c EXCEPT !.ask = ask, !.todo = @ \ {"generate"}]
    BY <1>1 DEF FormCalls
  <2> HIDE DEF d, ask
  <2>5. /\ d.op = c.op /\ d.table = c.table /\ d.id = c.id /\ d.ids = c.ids /\ d.ask = ask
        /\ d.todo = c.todo \ {"generate"} /\ d \in FormCalls
    BY <1>1, <2>2, <2>4 DEF FormCalls
  <2>6. CallFits(d)
    BY <1>1, <2>2, <2>5, FormAssumption DEF FormInv, CallsFit, CallFits, AskFits, WithCode
  <2>7. /\ d.ids \subseteq c.ids /\ d.ask.name = c.ask.name /\ d.ask.category = c.ask.category
        /\ (d.table = "role" => d.ask.code = c.ask.code)
    BY <1>1, <2>2, <2>5
  <2>8. PICK step \in {"generate"} : d.todo = c.todo \ {step}
    BY <2>5
  <2>9. step \notin {"write", "name", "code", "category", "used"}
    BY <2>8
  <2> HIDE DEF c
  <2>10. c = formCall[s]
    BY DEF c
  <2> QED
    BY <2>3, <2>5, <2>6, <2>7, <2>8, <2>9, <2>10, FormGoesOnKeeps
<1> QED
  BY <1>2, <1>3, <1>4

LEMMA FindRowsKeeps ==
  ASSUME FormInv, KeyInv, CategoryInv, NEW s \in FormSlot, FindRows(s)
  PROVE  FormInv' /\ KeyInv' /\ CategoryInv'
<1> DEFINE c == formCall[s]
           found == c.ids \cap LiveRows(c.table)
<1>1. CASE FormEnds(s)
  BY <1>1, FormEndsKeeps DEF FindRows
<1>2. CASE formCall' = [formCall EXCEPT ![s].ids = found, ![s].todo = @ \ {"find"}]
  <2> DEFINE d == [c EXCEPT !.ids = found, !.todo = @ \ {"find"}]
  <2>1. c \in FormCalls /\ CallFits(c)
    BY DEF FormInv, FormTypeOK, CallsFit
  <2>2. /\ d.op = c.op /\ d.table = c.table /\ d.id = c.id /\ d.ids = found /\ d.ask = c.ask
        /\ d.todo = c.todo \ {"find"} /\ d \in FormCalls
    BY <2>1 DEF FormCalls
  <2>3. formCall' = [formCall EXCEPT ![s] = d] /\ FormKeeps
    BY <1>2 DEF FindRows
  <2> HIDE DEF d
  <2>4. CallFits(d)
    BY <2>1, <2>2 DEF CallFits, AskFits
  <2> QED
    BY <2>2, <2>3, <2>4, FormGoesOnKeeps
<1> QED
  BY <1>1, <1>2 DEF FindRows

\* An edit changes the columns the form gives.
LEMMA EditedRow ==
  ASSUME NEW row \in FormRows, NEW ask \in Asks
  PROVE  /\ Edited(row, ask) \in FormRows
         /\ Edited(row, ask).table = row.table /\ Edited(row, ask).live = row.live
         /\ Edited(row, ask).name = IF ask.type = "CATALOGUE" THEN NoKey
                                    ELSE IF ask.name = NoKey THEN row.name ELSE ask.name
         /\ Edited(row, ask).code = IF ask.code = NoKey THEN row.code ELSE ask.code
         /\ Edited(row, ask).type = ask.type
         /\ Edited(row, ask).category = IF ask.category = 0 THEN row.category ELSE ask.category
<1>1. NoKey \in MaybeKey
  BY DEF MaybeKey
<1> QED
  BY <1>1 DEF Edited, FormRows, Asks

\* Where a call writes, and what.
Place(c) == IF c.id # 0 THEN c.id ELSE Len(rows) + 1

RowOfCall(c) ==
  IF c.id # 0 THEN Edited(rows[c.id], c.ask)
  ELSE [table |-> c.table, live |-> TRUE, name |-> c.ask.name, code |-> c.ask.code,
        type |-> c.ask.type, category |-> c.ask.category]

\* The row a call writes is one its table can hold.
LEMMA WrittenRow ==
  ASSUME FormInv, NEW s \in FormSlot, AtStep(s, "write")
  PROVE  LET c == formCall[s]
             w == RowOfCall(formCall[s])
         IN /\ c \in FormCalls /\ c.op = "write" /\ AskFits(c)
            /\ c.id # 0 => c.id \in RowsOf(c.table)
            /\ w \in FormRows /\ w.table = c.table
            /\ w.live = IF c.id = 0 THEN TRUE ELSE rows[c.id].live
            /\ w.type \in TypesOf(w.table)
            /\ w.name = NoKey => w.table = "menu"
            /\ w.code = NoKey <=> w.table \notin WithCode
            /\ \/ w.name \in {NoKey, c.ask.name}
               \/ c.id # 0 /\ w.name = rows[c.id].name
            /\ IF c.ask.code # NoKey THEN w.code = c.ask.code
               ELSE c.id # 0 => w.code = rows[c.id].code
            /\ \/ w.category = c.ask.category
               \/ c.id # 0 /\ w.category = rows[c.id].category
<1> DEFINE c == formCall[s]
           w == RowOfCall(formCall[s])
<1>1. c \in FormCalls /\ CallFits(c) /\ {c.id} \subseteq {0} \cup RowsOf(c.table)
  BY DEF FormInv, FormTypeOK, CallsFit
<1>2. "write" \in c.todo /\ "generate" \notin c.todo
  BY StepOrder
<1>3. c.op = "write" /\ AskFits(c)
  BY <1>1, <1>2 DEF CallFits, FormCalls, DeletingNames
<1>4. c.ask \in Asks /\ c.table \in FormTables
  BY <1>1 DEF FormCalls
<1>5. c.table \in {"role", "menu", "fileCategory", "fileConfig", "taskCategory", "task"}
  BY <1>4 DEF FormTables
<1>6. CASE c.id = 0
  <2>1. w = [table |-> c.table, live |-> TRUE, name |-> c.ask.name, code |-> c.ask.code,
             type |-> c.ask.type, category |-> c.ask.category]
    BY <1>6 DEF RowOfCall
  <2>2. /\ w \in FormRows /\ w.table = c.table /\ w.live = TRUE /\ w.name = c.ask.name
        /\ w.code = c.ask.code /\ w.type = c.ask.type /\ w.category = c.ask.category
    BY <1>4, <2>1 DEF FormRows, Asks
  <2> HIDE DEF w
  <2>3. w.code = NoKey <=> w.table \notin WithCode
    BY <1>2, <1>3, <1>5, <1>6, <2>2 DEF AskFits, WithCode
  <2> QED
    BY <1>1, <1>3, <1>6, <2>2, <2>3 DEF AskFits, w
<1>7. CASE c.id # 0
  <2> DEFINE row == rows[c.id]
  <2>1. c.id \in RowsOf(c.table) /\ c.id \in DOMAIN rows /\ row.table = c.table
    BY <1>1, <1>7 DEF RowsOf
  <2>2. /\ row \in FormRows /\ (row.name = NoKey => row.table = "menu")
        /\ (row.code = NoKey <=> row.table \notin WithCode)
    BY <2>1, RowsTyped DEF FormInv, FormTypeOK
  <2>3. w = Edited(row, c.ask)
    BY <1>7 DEF RowOfCall
  <2>4. /\ w \in FormRows /\ w.table = c.table /\ w.live = row.live
        /\ w.name = IF c.ask.type = "CATALOGUE" THEN NoKey
                    ELSE IF c.ask.name = NoKey THEN row.name ELSE c.ask.name
        /\ w.code = IF c.ask.code = NoKey THEN row.code ELSE c.ask.code
        /\ w.type = c.ask.type
        /\ w.category = IF c.ask.category = 0 THEN row.category ELSE c.ask.category
    BY <1>4, <2>1, <2>2, <2>3, EditedRow
  <2> HIDE DEF w
  <2>5. w.type \in TypesOf(w.table)
    BY <1>3, <2>4 DEF AskFits
  <2>6. w.name = NoKey => w.table = "menu"
    <3>1. c.ask.type = "CATALOGUE" => c.table = "menu"
      BY <1>3, <1>5 DEF AskFits, TypesOf
    <3> QED
      BY <2>1, <2>2, <2>4, <3>1
  <2>7. w.code = NoKey <=> w.table \notin WithCode
    BY <1>3, <1>5, <2>1, <2>2, <2>4 DEF AskFits, WithCode
  <2>8. row.live \in BOOLEAN
    BY <2>2 DEF FormRows
  <2> QED
    BY <1>1, <1>3, <1>7, <2>1, <2>4, <2>5, <2>6, <2>7, <2>8 DEF w
<1> QED
  BY <1>6, <1>7

\* The tables after a row is written.
LEMMA RowsWritten ==
  ASSUME FormInv, NEW s \in FormSlot, AtStep(s, "write"),
         LET c == formCall[s] IN
           rows' = IF c.id # 0 THEN [rows EXCEPT ![c.id] = Edited(@, c.ask)]
                   ELSE Append(rows, [table |-> c.table, live |-> TRUE, name |-> c.ask.name,
                                      code |-> c.ask.code, type |-> c.ask.type,
                                      category |-> c.ask.category])
  PROVE  LET c == formCall[s]
             n == Place(formCall[s])
             w == RowOfCall(formCall[s])
         IN /\ rows' \in Seq(FormRows) /\ DOMAIN rows' = DOMAIN rows \cup {n}
            /\ rows'[n] = w /\ \A r \in DOMAIN rows \ {n} : rows'[r] = rows[r]
            /\ c.id = 0 => n \notin DOMAIN rows
            /\ \A t : t = c.table =>
                  /\ RowsOf(t)' = RowsOf(t) \cup {n}
                  /\ LiveRows(t)' = LiveRows(t) \cup {r \in {n} : w.live}
                  /\ c.id # 0 => LiveRows(t)' = LiveRows(t)
            /\ \A t : t # c.table => RowsOf(t)' = RowsOf(t) /\ LiveRows(t)' = LiveRows(t)
<1> DEFINE c == formCall[s]
           n == Place(formCall[s])
           w == RowOfCall(formCall[s])
<1>1. /\ c.id # 0 => c.id \in RowsOf(c.table)
      /\ w \in FormRows /\ w.table = c.table /\ w.live = IF c.id = 0 THEN TRUE ELSE rows[c.id].live
  BY WrittenRow
<1>2. Len(rows) \in Nat /\ DOMAIN rows = 1 .. Len(rows) /\ rows \in Seq(FormRows)
  BY RowsTyped DEF FormInv, FormTypeOK
<1>3. rows' = IF c.id # 0 THEN [rows EXCEPT ![n] = w] ELSE Append(rows, w)
  BY DEF Place, RowOfCall
<1>4. c.id # 0 => n = c.id /\ n \in DOMAIN rows /\ rows[n].table = c.table
  BY <1>1 DEF Place, RowsOf
<1>5. c.id = 0 => n = Len(rows) + 1 /\ n \notin DOMAIN rows
  BY <1>2 DEF Place
<1> HIDE DEF w, n
<1>6. /\ rows' \in Seq(FormRows) /\ DOMAIN rows' = DOMAIN rows \cup {n}
      /\ rows'[n] = w /\ \A r \in DOMAIN rows \ {n} : rows'[r] = rows[r]
  <2>1. CASE c.id # 0
    BY <1>1, <1>2, <1>3, <1>4, <2>1
  <2>2. CASE c.id = 0
    <3>1. rows' = Append(rows, w) /\ Len(rows') = Len(rows) + 1 /\ rows' \in Seq(FormRows)
      BY <1>1, <1>2, <1>3, <2>2
    <3>2. DOMAIN rows' = 1 .. Len(rows) + 1
      BY <3>1
    <3>3. rows'[Len(rows) + 1] = w
      BY <1>1, <1>2, <1>3, <2>2
    <3>4. \A r \in 1 .. Len(rows) : rows'[r] = rows[r]
      BY <1>1, <1>2, <1>3, <2>2
    <3> QED
      BY <1>2, <1>5, <2>2, <3>1, <3>2, <3>3, <3>4
  <2> QED
    BY <2>1, <2>2
<1>7. \A t : t = c.table => RowsOf(t)' = RowsOf(t) \cup {n}
  BY <1>1, <1>4, <1>5, <1>6 DEF RowsOf
<1>8. \A t : t # c.table => RowsOf(t)' = RowsOf(t)
  BY <1>1, <1>4, <1>5, <1>6 DEF RowsOf
<1>9. \A r \in DOMAIN rows : r # n => rows'[r] = rows[r]
  BY <1>6
<1>10. \A t : t = c.table => LiveRows(t)' = LiveRows(t) \cup {r \in {n} : w.live}
  <2> SUFFICES ASSUME NEW t, t = c.table
               PROVE  LiveRows(t)' = LiveRows(t) \cup {r \in {n} : w.live}
    OBVIOUS
  <2>1. LiveRows(t)' = {r \in RowsOf(t) \cup {n} : rows'[r].live}
    BY <1>7 DEF LiveRows
  <2>2. \A r \in RowsOf(t) : r # n => rows'[r] = rows[r]
    BY <1>9 DEF RowsOf
  <2>3. n \in RowsOf(t) => c.id # 0 /\ w.live = rows[n].live
    BY <1>1, <1>4, <1>5 DEF RowsOf
  <2>4. rows'[n] = w
    BY <1>6
  <2> QED
    BY <2>1, <2>2, <2>3, <2>4 DEF LiveRows
<1>11. \A t : t = c.table /\ c.id # 0 => LiveRows(t)' = LiveRows(t)
  BY <1>1, <1>4, <1>10 DEF LiveRows, RowsOf
<1>12. \A t : t # c.table => LiveRows(t)' = LiveRows(t)
  <2> SUFFICES ASSUME NEW t, t # c.table PROVE LiveRows(t)' = LiveRows(t)
    OBVIOUS
  <2>1. \A r \in RowsOf(t) : rows'[r] = rows[r]
    BY <1>4, <1>5, <1>9 DEF RowsOf
  <2>2. RowsOf(t)' = RowsOf(t)
    BY <1>8
  <2>3. LiveRows(t)' = {r \in RowsOf(t) : rows'[r].live}
    BY <2>2 DEF LiveRows
  <2> QED
    BY <2>1, <2>3 DEF LiveRows
<1> QED
  BY <1>5, <1>6, <1>7, <1>8, <1>10, <1>11, <1>12 DEF n, w

\* A key that a call looked for is free when its row is written, unless another call that
\* writes the table was there at the same time; and such a call would have been seen.
LEMMA WriteRowKeeps ==
  ASSUME FormInv, KeyInv, CategoryInv, NEW s \in FormSlot, WriteRow(s)
  PROVE  FormInv' /\ KeyInv' /\ CategoryInv'
<1> DEFINE c == formCall[s]
           n == Place(formCall[s])
           w == RowOfCall(formCall[s])
           refused == \E column \in UniqueColumns(c.table), r \in RowsOf(c.table) \ {c.id} :
                        rows[r][column] = c.ask[column]
<1>1. AtStep(s, "write") /\ formTables' = formTables /\ formGhost' = formGhost /\ formCalls' = formCalls
  BY DEF WriteRow
<1>2. CASE refused
  <2>1. FormEnds(s) /\ FormKeeps
    BY <1>2 DEF WriteRow, FormKeeps
  <2> QED
    BY <2>1, FormEndsKeeps
<1>3. CASE ~refused
  <2>1. FormMoves(s, "write")
    BY <1>3 DEF WriteRow
  <2>2. /\ rows' \in Seq(FormRows) /\ DOMAIN rows' = DOMAIN rows \cup {n}
        /\ rows'[n] = w /\ \A r \in DOMAIN rows \ {n} : rows'[r] = rows[r]
        /\ c.id = 0 => n \notin DOMAIN rows
        /\ \A t : t = c.table =>
              /\ RowsOf(t)' = RowsOf(t) \cup {n}
              /\ LiveRows(t)' = LiveRows(t) \cup {r \in {n} : w.live}
              /\ c.id # 0 => LiveRows(t)' = LiveRows(t)
        /\ \A t : t # c.table => RowsOf(t)' = RowsOf(t) /\ LiveRows(t)' = LiveRows(t)
    <3>1. rows' = IF c.id # 0 THEN [rows EXCEPT ![c.id] = Edited(@, c.ask)]
                  ELSE Append(rows, [table |-> c.table, live |-> TRUE, name |-> c.ask.name,
                                     code |-> c.ask.code, type |-> c.ask.type,
                                     category |-> c.ask.category])
      BY <1>3 DEF WriteRow
    <3> QED
      BY <1>1, <3>1, RowsWritten
  <2>3. /\ c \in FormCalls /\ c.op = "write" /\ AskFits(c)
        /\ c.id # 0 => c.id \in RowsOf(c.table)
        /\ w \in FormRows /\ w.table = c.table
        /\ w.live = IF c.id = 0 THEN TRUE ELSE rows[c.id].live
        /\ w.type \in TypesOf(w.table)
        /\ w.name = NoKey => w.table = "menu"
        /\ w.code = NoKey <=> w.table \notin WithCode
        /\ \/ w.name \in {NoKey, c.ask.name}
           \/ c.id # 0 /\ w.name = rows[c.id].name
        /\ IF c.ask.code # NoKey THEN w.code = c.ask.code
           ELSE c.id # 0 => w.code = rows[c.id].code
        /\ \/ w.category = c.ask.category
           \/ c.id # 0 /\ w.category = rows[c.id].category
    BY <1>1, WrittenRow
  <2>4. "write" \in c.todo /\ {"name", "code", "category", "generate"} \cap c.todo = {}
    BY <1>1, StepOrder
  <2>5. c.id # 0 => n = c.id
    BY DEF Place
  <2>6. ~refused
    BY <1>3
  <2> DEFINE d == IF c.todo = {"write"} THEN FormIdle ELSE [c EXCEPT !.todo = @ \ {"write"}]
  <2>7. formCall' = [formCall EXCEPT ![s] = d]
    BY <2>1 DEF FormMoves, FormEnds
  <2>8. /\ d \in FormCalls /\ CallFits(d) /\ "write" \notin d.todo
        /\ d.op \in {"none", "write"} /\ (d.op = "write" => d.table = c.table /\ d.ask = c.ask)
        /\ {d.id} \cup d.ids \subseteq {0} \cup RowsOf(d.table)
    <3>1. CASE c.todo = {"write"}
      <4>1. FormIdle \in FormCalls /\ CallFits(FormIdle)
        BY DEF FormIdle, NoAsk, FormCalls, FormTables, Asks, MaybeKey, Types, CallFits
      <4> QED
        BY <3>1, <4>1 DEF FormIdle
    <3>2. CASE c.todo # {"write"}
      <4> DEFINE e == [c EXCEPT !.todo = @ \ {"write"}]
      <4>1. /\ e.op = c.op /\ e.table = c.table /\ e.id = c.id /\ e.ids = c.ids /\ e.ask = c.ask
            /\ e.todo = c.todo \ {"write"} /\ e \in FormCalls
        BY <2>3 DEF FormCalls
      <4>2. d = e
        BY <3>2
      <4>3. CallFits(c) /\ {c.id} \cup c.ids \subseteq {0} \cup RowsOf(c.table)
        BY DEF FormInv, FormTypeOK, CallsFit
      <4> HIDE DEF d, e
      <4> QED
        BY <2>3, <4>1, <4>2, <4>3 DEF CallFits, AskFits
    <3> QED
      BY <3>1, <3>2
  <2> HIDE DEF d, w, n, refused
  <2>9. /\ \A o \in FormSlot : o # s => formCall'[o] = formCall[o]
        /\ formCall'[s] = d /\ formCall' \in [FormSlot -> FormCalls]
    BY <2>7, <2>8 DEF FormInv, FormTypeOK
  <2>10. /\ \A t : RowsOf(t) \subseteq RowsOf(t)'
         /\ \A t : LiveRows(t) \subseteq LiveRows(t)'
    <3> SUFFICES ASSUME NEW t PROVE RowsOf(t) \subseteq RowsOf(t)' /\ LiveRows(t) \subseteq LiveRows(t)'
      OBVIOUS
    <3>1. CASE t = c.table
      <4>1. \A r \in RowsOf(t) : /\ r \in DOMAIN rows' /\ rows'[r].table = rows[r].table
                                 /\ rows'[r].live = rows[r].live
        BY <2>2, <2>3, <2>5, <3>1 DEF RowsOf
      <4> QED
        BY <4>1 DEF LiveRows, RowsOf
    <3>2. CASE t # c.table
      BY <2>2, <3>2
    <3> QED
      BY <3>1, <3>2
  <2>11. \A o \in FormSlot, t \in FormTables : Writing(formCall'[o], t) => Writing(formCall[o], t)
    BY <2>3, <2>8, <2>9 DEF Writing
  <2>12. FormInv'
    <3>1. \A r \in DOMAIN rows' :
             /\ rows'[r].type \in TypesOf(rows'[r].table)
             /\ rows'[r].name = NoKey => rows'[r].table = "menu"
             /\ rows'[r].code = NoKey <=> rows'[r].table \notin WithCode
      BY <2>2, <2>3 DEF FormInv, FormTypeOK
    <3>2. \A o \in FormSlot :
             {formCall'[o].id} \cup formCall'[o].ids
               \subseteq {0} \cup {r \in DOMAIN rows' : rows'[r].table = formCall'[o].table}
      <4> SUFFICES ASSUME NEW o \in FormSlot, NEW t, t = formCall'[o].table
                   PROVE  {formCall'[o].id} \cup formCall'[o].ids \subseteq {0} \cup RowsOf(t)'
        BY DEF RowsOf
      <4>1. {formCall'[o].id} \cup formCall'[o].ids \subseteq {0} \cup RowsOf(t)
        BY <2>8, <2>9 DEF FormInv, FormTypeOK
      <4> QED
        BY <2>10, <4>1
    <3>3. CallsFit'
      BY <2>8, <2>9 DEF FormInv, CallsFit, CallFits, AskFits
    <3> QED
      BY <1>1, <2>2, <2>9, <3>1, <3>2, <3>3 DEF FormInv, FormTypeOK, RowsOf
  <2>13. CodesDiffer'
    <3> SUFFICES ASSUME NEW t \in {"task", "fileConfig"}, NEW r \in RowsOf(t)', NEW q \in RowsOf(t)', r # q
                 PROVE  rows'[r].code # rows'[q].code
      BY DEF CodesDiffer
    <3>1. CASE t # c.table
      <4>1. r \in RowsOf(t) /\ q \in RowsOf(t)
        BY <2>2, <3>1
      <4>2. rows'[r] = rows[r] /\ rows'[q] = rows[q]
        BY <2>2, <2>3, <2>5, <3>1, <4>1 DEF RowsOf
      <4> QED
        BY <4>1, <4>2 DEF KeyInv, CodesDiffer
    <3>2. CASE t = c.table
      <4>1. \A p \in RowsOf(t)' : p = n \/ (p \in RowsOf(t) /\ rows'[p] = rows[p])
        BY <2>2, <3>2 DEF RowsOf
      <4>2. "code" \in UniqueColumns(t)
        BY <3>2 DEF UniqueColumns
      <4>3. \A p \in RowsOf(t) : p # n => rows[p].code # w.code
        <5> SUFFICES ASSUME NEW p \in RowsOf(t), p # n PROVE rows[p].code # w.code
          OBVIOUS
        <5>1. p # c.id
          <6>1. p \in 1 .. Len(rows)
            BY RowsTyped DEF FormInv, RowsOf
          <6> QED
            BY <2>5, <6>1
        <5>2. rows[p].code # c.ask.code
          BY <2>6, <3>2, <4>2, <5>1 DEF refused
        <5>3. CASE c.ask.code # NoKey
          BY <2>3, <5>2, <5>3
        <5>4. CASE c.ask.code = NoKey
          <6>1. c.id # 0
            BY <2>3, <2>4, <3>2, <5>4 DEF AskFits
          <6>2. w.code = rows[n].code /\ n \in RowsOf(t)
            BY <2>3, <2>5, <3>2, <5>4, <6>1
          <6> QED
            BY <5>1, <6>2 DEF KeyInv, CodesDiffer
        <5> QED
          BY <5>3, <5>4
      <4>4. \A p \in RowsOf(t)' : p # n => rows'[p].code # rows'[n].code
        BY <2>2, <4>1, <4>3
      <4> QED
        BY <4>1, <4>4 DEF KeyInv, CodesDiffer
    <3> QED
      BY <3>1, <3>2
  <2>14. LiveDiffer'
    <3> SUFFICES ASSUME NEW t \in FormTables, t \notin formGhost.overlapped,
                        NEW r \in LiveRows(t)', NEW q \in LiveRows(t)', r # q,
                        NEW column \in {"name", "code"}
                 PROVE  rows'[r][column] = NoKey \/ rows'[r][column] # rows'[q][column]
      BY <1>1 DEF LiveDiffer
    <3>1. CASE t # c.table
      <4>1. r \in LiveRows(t) /\ q \in LiveRows(t)
        BY <2>2, <3>1
      <4>2. rows'[r] = rows[r] /\ rows'[q] = rows[q]
        BY <2>2, <2>3, <2>5, <3>1, <4>1 DEF RowsOf, LiveRows
      <4> QED
        BY <4>1, <4>2 DEF KeyInv, LiveDiffer
    <3>2. CASE t = c.table
      <4>1. \A p \in LiveRows(t)' : p = n \/ (p \in LiveRows(t) /\ rows'[p] = rows[p])
        BY <2>2, <3>2 DEF RowsOf, LiveRows
      <4>2. n \in LiveRows(t)' /\ c.id # 0 => n \in LiveRows(t)
        BY <2>2, <2>3, <2>5, <3>2 DEF LiveRows, RowsOf
      <4>3. \A p \in LiveRows(t) : p # n => p # c.id
        <5>1. \A p \in LiveRows(t) : p \in 1 .. Len(rows)
          BY RowsTyped DEF FormInv, RowsOf, LiveRows
        <5> QED
          BY <2>5, <5>1
      <4>4. ASSUME n \in LiveRows(t)', NEW p \in LiveRows(t), p # n
            PROVE  w.name = NoKey \/ rows[p].name # w.name
        <5>1. ~Duplicates(s, "name")
          BY <2>3, <2>4, <3>2 DEF KeyInv, CheckedStillFree
        <5>2. c.ask.name = NoKey \/ rows[p].name # c.ask.name
          BY <3>2, <4>3, <4>4, <5>1 DEF Duplicates, IsDuplicate
        <5>3. CASE c.id # 0 /\ w.name = rows[c.id].name
          BY <2>5, <4>2, <4>4, <5>3 DEF KeyInv, LiveDiffer
        <5> QED
          BY <2>3, <5>2, <5>3
      <4>5. ASSUME n \in LiveRows(t)', NEW p \in LiveRows(t), p # n
            PROVE  w.code = NoKey \/ rows[p].code # w.code
        <5>1. t \in {"role", "menu", "fileCategory", "fileConfig", "taskCategory", "task"}
          BY DEF FormTables
        <5>2. CASE t = "role"
          <6>1. c.ask.code # NoKey /\ w.code = c.ask.code
            BY <2>3, <3>2, <5>2 DEF AskFits
          <6>2. ~Duplicates(s, "code")
            BY <2>3, <2>4, <3>2, <5>2 DEF KeyInv, CheckedStillFree
          <6> QED
            BY <3>2, <4>3, <4>5, <6>1, <6>2 DEF Duplicates, IsDuplicate
        <5>3. CASE t \in {"task", "fileConfig"}
          <6>1. p \in RowsOf(t)' /\ n \in RowsOf(t)' /\ rows'[p] = rows[p]
            BY <2>2, <3>2, <4>5 DEF LiveRows, RowsOf
          <6> QED
            BY <2>2, <2>13, <4>5, <5>3, <6>1 DEF CodesDiffer
        <5>4. CASE t \in {"menu", "fileCategory", "taskCategory"}
          BY <2>3, <3>2, <5>4 DEF WithCode
        <5> QED
          BY <5>1, <5>2, <5>3, <5>4
      <4>6. CASE r = n
        <5>1. q \in LiveRows(t) /\ rows'[q] = rows[q] /\ rows'[r] = w
          BY <2>2, <4>1, <4>6
        <5> QED
          BY <4>4, <4>5, <4>6, <5>1
      <4>7. CASE q = n
        <5>1. r \in LiveRows(t) /\ rows'[r] = rows[r] /\ rows'[q] = w
          BY <2>2, <4>1, <4>7
        <5> QED
          BY <4>4, <4>5, <4>7, <5>1
      <4>8. CASE r # n /\ q # n
        <5>1. /\ r \in LiveRows(t) /\ rows'[r] = rows[r]
              /\ q \in LiveRows(t) /\ rows'[q] = rows[q]
          BY <4>1, <4>8
        <5> QED
          BY <5>1 DEF KeyInv, LiveDiffer
      <4> QED
        BY <4>6, <4>7, <4>8
    <3> QED
      BY <3>1, <3>2
  <2>15. OverlapSeen'
    BY <1>1, <2>11 DEF KeyInv, OverlapSeen
  <2>16. CheckedStillFree'
    <3> SUFFICES ASSUME NEW o \in FormSlot, formCall'[o].op = "write", "write" \in formCall'[o].todo,
                        formCall'[o].table \notin formGhost.overlapped
                 PROVE  /\ "name" \notin formCall'[o].todo => ~Duplicates(o, "name")'
                        /\ "code" \notin formCall'[o].todo /\ formCall'[o].table = "role"
                             => ~Duplicates(o, "code")'
      BY <1>1 DEF CheckedStillFree
    <3>1. o # s /\ formCall'[o] = formCall[o]
      BY <2>8, <2>9
    <3>2. PICK u \in FormTables : u = formCall[o].table
      BY DEF FormInv, FormTypeOK, FormCalls
    <3>3. u # c.table
      <4>1. u = c.table => Writing(formCall[o], u) /\ Writing(formCall[s], u)
        BY <2>3, <3>1, <3>2 DEF Writing
      <4> QED
        BY <3>1, <3>2, <4>1 DEF KeyInv, OverlapSeen
    <3>4. LiveRows(u)' = LiveRows(u) /\ \A r \in LiveRows(u) : rows'[r] = rows[r]
      BY <2>2, <2>3, <2>5, <3>3 DEF LiveRows, RowsOf
    <3>5. \A column \in {"name", "code"} :
             /\ Duplicates(o, column)' <=> IsDuplicate(u, formCall[o].id, column, formCall[o].ask[column])'
             /\ Duplicates(o, column) <=> IsDuplicate(u, formCall[o].id, column, formCall[o].ask[column])
      BY <3>1, <3>2 DEF Duplicates, IsDuplicate
    <3>6. \A column \in {"name", "code"} : Duplicates(o, column)' <=> Duplicates(o, column)
      BY <3>1, <3>4, <3>5 DEF IsDuplicate
    <3> QED
      BY <3>1, <3>6 DEF KeyInv, CheckedStillFree
  <2>17. CategoryInv'
    <3> SUFFICES ASSUME ~formGhost.crossed
        PROVE  /\ \A r \in LiveRows("task")' : rows'[r].category \in Categories'
               /\ \A a, b \in FormSlot :
                    ~(Writing(formCall'[a], "task") /\ Dropping(formCall'[b], "taskCategory"))
               /\ \A a \in FormSlot :
                    Writing(formCall'[a], "task") /\ "category" \notin formCall'[a].todo
                      => formCall'[a].ask.category \in Categories'
               /\ \A a \in FormSlot :
                    Dropping(formCall'[a], "taskCategory") /\ "used" \notin formCall'[a].todo
                      => \A r \in LiveRows("task")' : rows'[r].category \notin formCall'[a].ids
      BY <1>1 DEF CategoryInv
    <3>1. Categories \subseteq Categories'
      BY <2>10 DEF Categories
    <3>2. "task" \in FormTables
      BY DEF FormTables
    <3>3. c.table # "task" => /\ LiveRows("task")' = LiveRows("task")
                              /\ \A r \in LiveRows("task") : rows'[r] = rows[r]
      BY <2>2, <2>3, <2>5 DEF LiveRows, RowsOf
    <3>4. \A r \in LiveRows("task")' : rows'[r].category \in Categories'
      <4>1. CASE c.table # "task"
        BY <3>1, <3>3, <4>1 DEF CategoryInv
      <4>2. CASE c.table = "task"
        <5>1. \A p \in LiveRows("task")' :
                 p = n \/ (p \in LiveRows("task") /\ rows'[p] = rows[p])
          BY <2>2, <4>2 DEF RowsOf, LiveRows
        <5>2. c.ask.category \in Categories
          BY <2>3, <2>4, <4>2 DEF CategoryInv, Writing
        <5>3. n \in LiveRows("task")' => w.category \in Categories
          <6>1. c.id # 0 /\ n \in LiveRows("task")' => rows[c.id].category \in Categories
            <7>1. c.id # 0 /\ n \in LiveRows("task")' => n = c.id /\ c.id \in LiveRows("task")
              BY <2>2, <2>3, <2>5, <4>2 DEF LiveRows, RowsOf
            <7> QED
              BY <7>1 DEF CategoryInv
          <6> QED
            BY <2>3, <5>2, <6>1
        <5> QED
          BY <2>2, <3>1, <5>1, <5>3 DEF CategoryInv
      <4> QED
        BY <4>1, <4>2
    <3>5. \A a, b \in FormSlot :
             ~(Writing(formCall'[a], "task") /\ Dropping(formCall'[b], "taskCategory"))
      <4>1. \A b \in FormSlot : Dropping(formCall'[b], "taskCategory")
                                   => Dropping(formCall[b], "taskCategory")
        BY <2>8, <2>9 DEF Dropping
      <4> QED
        BY <2>11, <3>2, <4>1 DEF CategoryInv
    <3>6. \A a \in FormSlot : Writing(formCall'[a], "task") /\ "category" \notin formCall'[a].todo
                                => formCall'[a].ask.category \in Categories'
      <4> SUFFICES ASSUME NEW a \in FormSlot, Writing(formCall'[a], "task"),
                          "category" \notin formCall'[a].todo
                   PROVE  formCall'[a].ask.category \in Categories
        BY <3>1
      <4>1. CASE a = s
        BY <2>3, <2>4, <2>8, <2>9, <4>1 DEF CategoryInv, Writing
      <4>2. CASE a # s
        BY <2>9, <4>2 DEF CategoryInv
      <4> QED
        BY <4>1, <4>2
    <3>7. \A a \in FormSlot :
             Dropping(formCall'[a], "taskCategory") /\ "used" \notin formCall'[a].todo
               => \A r \in LiveRows("task")' : rows'[r].category \notin formCall'[a].ids
      <4> SUFFICES ASSUME NEW a \in FormSlot, Dropping(formCall'[a], "taskCategory"),
                          "used" \notin formCall'[a].todo
                   PROVE  \A r \in LiveRows("task")' : rows'[r].category \notin formCall'[a].ids
        OBVIOUS
      <4>1. a # s /\ formCall'[a] = formCall[a]
        BY <2>8, <2>9 DEF Dropping
      <4>2. c.table # "task"
        BY <2>3, <4>1 DEF CategoryInv, Writing
      <4> QED
        BY <3>3, <4>1, <4>2 DEF CategoryInv
    <3> QED
      BY <3>4, <3>5, <3>6, <3>7
  <2> QED
    BY <2>12, <2>13, <2>14, <2>15, <2>16, <2>17 DEF KeyInv
<1> QED
  BY <1>2, <1>3

\* A deletion leaves the rows it deletes in their places.
LEMMA DropRowsKeeps ==
  ASSUME FormInv, KeyInv, CategoryInv, NEW s \in FormSlot, DropRows(s)
  PROVE  FormInv' /\ KeyInv' /\ CategoryInv'
<1> DEFINE c == formCall[s]
<1>1. /\ AtStep(s, "drop") /\ FormEnds(s)
      /\ formTables' = formTables /\ formGhost' = formGhost /\ formCalls' = formCalls
      /\ rows' = [r \in DOMAIN rows |->
                    IF r \in c.ids THEN [rows[r] EXCEPT !.live = FALSE] ELSE rows[r]]
  BY DEF DropRows
<1>2. /\ "drop" \in c.todo /\ "used" \notin c.todo /\ c.op = "delete"
      /\ c.ids \subseteq {0} \cup RowsOf(c.table)
  <2>1. "drop" \in c.todo /\ "used" \notin c.todo
    BY <1>1, StepOrder
  <2>2. CallFits(c) /\ c \in FormCalls /\ c.ids \subseteq {0} \cup RowsOf(c.table)
    BY DEF FormInv, FormTypeOK, CallsFit
  <2> QED
    BY <2>1, <2>2 DEF CallFits, FormCalls, WritingNames
<1>3. /\ \A o \in FormSlot : formCall'[o] = IF o = s THEN FormIdle ELSE formCall[o]
      /\ formCall' \in [FormSlot -> FormCalls]
  <2>1. FormIdle \in FormCalls
    BY DEF FormIdle, NoAsk, FormCalls, FormTables, Asks, MaybeKey, Types
  <2> QED
    BY <1>1, <2>1 DEF FormEnds, FormInv, FormTypeOK
<1>4. /\ DOMAIN rows' = DOMAIN rows /\ rows' \in Seq(FormRows)
      /\ \A r \in DOMAIN rows :
           /\ rows'[r].table = rows[r].table /\ rows'[r].name = rows[r].name
           /\ rows'[r].code = rows[r].code /\ rows'[r].type = rows[r].type
           /\ rows'[r].category = rows[r].category
           /\ r \notin c.ids => rows'[r] = rows[r]
           /\ r \in c.ids => rows'[r].live = FALSE
  <2>1. Len(rows) \in Nat /\ DOMAIN rows = 1 .. Len(rows) /\ \A r \in DOMAIN rows : rows[r] \in FormRows
    BY RowsTyped DEF FormInv
  <2> DEFINE dead(r) == [rows[r] EXCEPT !.live = FALSE]
  <2>2. \A r \in DOMAIN rows :
           /\ dead(r).table = rows[r].table /\ dead(r).name = rows[r].name
           /\ dead(r).code = rows[r].code /\ dead(r).type = rows[r].type
           /\ dead(r).category = rows[r].category /\ dead(r).live = FALSE /\ dead(r) \in FormRows
    BY <2>1 DEF FormRows
  <2>3. /\ DOMAIN rows' = DOMAIN rows
        /\ \A r \in DOMAIN rows : rows'[r] = IF r \in c.ids THEN dead(r) ELSE rows[r]
    BY <1>1
  <2> HIDE DEF dead
  <2>4. \A r \in DOMAIN rows : rows'[r] \in FormRows
    BY <2>1, <2>2, <2>3
  <2>5. rows' = [r \in 1 .. Len(rows) |-> rows'[r]]
    BY <1>1, <2>1, <2>3
  <2>6. rows' \in Seq(FormRows)
    BY <2>1, <2>4, <2>5
  <2> QED
    BY <2>2, <2>3, <2>6
<1>5. \A t : RowsOf(t)' = RowsOf(t) /\ LiveRows(t)' = LiveRows(t) \ c.ids
  <2> SUFFICES ASSUME NEW t PROVE RowsOf(t)' = RowsOf(t) /\ LiveRows(t)' = LiveRows(t) \ c.ids
    OBVIOUS
  <2>1. RowsOf(t)' = RowsOf(t)
    BY <1>4 DEF RowsOf
  <2> QED
    BY <1>4, <2>1 DEF LiveRows, RowsOf
<1>6. \A t : t # c.table => LiveRows(t)' = LiveRows(t)
  <2>1. 0 \notin DOMAIN rows
    BY RowsTyped DEF FormInv
  <2> QED
    BY <1>2, <1>5, <2>1 DEF LiveRows, RowsOf
<1>7. FormTypeOK'
  <2>1. \A r \in DOMAIN rows' :
           /\ rows'[r].type \in TypesOf(rows'[r].table)
           /\ rows'[r].name = NoKey => rows'[r].table = "menu"
           /\ rows'[r].code = NoKey <=> rows'[r].table \notin WithCode
    BY <1>4 DEF FormInv, FormTypeOK
  <2>2. \A o \in FormSlot :
           {formCall'[o].id} \cup formCall'[o].ids
             \subseteq {0} \cup {r \in DOMAIN rows' : rows'[r].table = formCall'[o].table}
    BY <1>3, <1>4 DEF FormInv, FormTypeOK, RowsOf, FormIdle
  <2> QED
    BY <1>1, <1>3, <1>4, <2>1, <2>2 DEF FormInv, FormTypeOK, RowsOf
<1>8. CallsFit'
  BY <1>3 DEF FormInv, CallsFit, CallFits, AskFits, FormIdle
<1>9. KeyInv'
  <2>1. CodesDiffer'
    BY <1>4, <1>5 DEF KeyInv, CodesDiffer, RowsOf
  <2>2. LiveDiffer'
    <3> SUFFICES ASSUME NEW t \in FormTables, t \notin formGhost.overlapped,
                        NEW r \in LiveRows(t)', NEW q \in LiveRows(t)', r # q
                 PROVE  \A column \in {"name", "code"} :
                          rows'[r][column] = NoKey \/ rows'[r][column] # rows'[q][column]
      BY <1>1 DEF LiveDiffer
    <3>1. r \in LiveRows(t) /\ q \in LiveRows(t) /\ rows'[r] = rows[r] /\ rows'[q] = rows[q]
      BY <1>4, <1>5 DEF LiveRows, RowsOf
    <3> QED
      BY <3>1 DEF KeyInv, LiveDiffer
  <2>3. OverlapSeen'
    BY <1>1, <1>3 DEF KeyInv, OverlapSeen, Writing, FormIdle
  <2>4. CheckedStillFree'
    <3>1. \A o \in FormSlot, column \in {"name", "code"} :
             o # s /\ Duplicates(o, column)' => Duplicates(o, column)
      <4> SUFFICES ASSUME NEW o \in FormSlot, NEW column \in {"name", "code"}, o # s,
                          Duplicates(o, column)'
                   PROVE  Duplicates(o, column)
        OBVIOUS
      <4>1. PICK u : u = formCall[o].table
        OBVIOUS
      <4>2. /\ formCall[o].ask[column] # NoKey
            /\ \E r \in LiveRows(u)' \ {formCall[o].id} : rows'[r][column] = formCall[o].ask[column]
        BY <1>3, <4>1 DEF Duplicates, IsDuplicate, LiveRows, RowsOf
      <4> QED
        BY <1>4, <1>5, <4>1, <4>2 DEF Duplicates, IsDuplicate, LiveRows, RowsOf
    <3>2. formCall'[s].op # "write"
      BY <1>3 DEF FormIdle
    <3> QED
      BY <1>1, <1>3, <3>1, <3>2 DEF KeyInv, CheckedStillFree
  <2> QED
    BY <2>1, <2>2, <2>3, <2>4 DEF KeyInv
<1>10. CategoryInv'
  <2> SUFFICES ASSUME ~formGhost.crossed
      PROVE  /\ \A r \in LiveRows("task")' : rows'[r].category \in Categories'
             /\ \A a, b \in FormSlot :
                  ~(Writing(formCall'[a], "task") /\ Dropping(formCall'[b], "taskCategory"))
             /\ \A a \in FormSlot :
                  Writing(formCall'[a], "task") /\ "category" \notin formCall'[a].todo
                    => formCall'[a].ask.category \in Categories'
             /\ \A a \in FormSlot :
                  Dropping(formCall'[a], "taskCategory") /\ "used" \notin formCall'[a].todo
                    => \A r \in LiveRows("task")' : rows'[r].category \notin formCall'[a].ids
    BY <1>1 DEF CategoryInv
  <2>1. \A r \in LiveRows("task")' : r \in LiveRows("task") /\ rows'[r] = rows[r]
    BY <1>4, <1>5 DEF LiveRows, RowsOf
  <2>2. \A a, b \in FormSlot :
           ~(Writing(formCall'[a], "task") /\ Dropping(formCall'[b], "taskCategory"))
    BY <1>3 DEF CategoryInv, Writing, Dropping, FormIdle
  <2>3. \A a \in FormSlot :
           Dropping(formCall'[a], "taskCategory") /\ "used" \notin formCall'[a].todo
             => \A r \in LiveRows("task")' : rows'[r].category \notin formCall'[a].ids
    BY <1>3, <2>1 DEF CategoryInv, Dropping, FormIdle
  <2>4. CASE c.table # "taskCategory"
    <3>1. Categories' = Categories
      BY <1>6, <2>4 DEF Categories
    <3> QED
      BY <1>3, <2>1, <2>2, <2>3, <3>1 DEF CategoryInv, Writing, FormIdle
  <2>5. CASE c.table = "taskCategory"
    <3>1. Dropping(c, "taskCategory")
      BY <1>2, <2>5 DEF Dropping
    <3>2. \A r \in LiveRows("task") : rows[r].category \notin c.ids
      BY <1>2, <3>1 DEF CategoryInv
    <3>3. Categories \ c.ids \subseteq Categories'
      BY <1>5 DEF Categories
    <3>4. \A a \in FormSlot : ~Writing(formCall'[a], "task")
      BY <1>3, <3>1 DEF CategoryInv, Writing, FormIdle
    <3> QED
      BY <2>1, <2>2, <2>3, <3>2, <3>3, <3>4 DEF CategoryInv
  <2> QED
    BY <2>4, <2>5
<1> QED
  BY <1>7, <1>8, <1>9, <1>10 DEF FormInv

\* Every step keeps the three invariants; they are proved together as the claims of the
\* calls in progress and the tables depend on each other.
LEMMA FormNextKeeps ==
  ASSUME FormInv, KeyInv, CategoryInv, [FormNext]_formVars
  PROVE  FormInv' /\ KeyInv' /\ CategoryInv'
<1>1. CASE UNCHANGED formVars
  BY <1>1, FormIdles
<1>2. CASE FormNext
  <2>1. PICK s \in FormSlot :
          \/ SaveOrEdit(s) \/ DelByIds(s)
          \/ CheckRow(s) \/ CheckName(s) \/ CheckCode(s) \/ CheckCategory(s) \/ GenerateUniqueCode(s)
          \/ WriteRow(s) \/ SyncRow(s)
          \/ FindRows(s) \/ CountTasks(s) \/ DropRows(s)
          \/ FormCallFails(s)
    BY <1>2 DEF FormNext
  <2>2. CASE SaveOrEdit(s) \/ DelByIds(s)
    BY <2>2, SaveOrEditKeeps, DelByIdsKeeps
  <2>3. CASE \/ CheckRow(s) \/ CheckName(s) \/ CheckCode(s) \/ CheckCategory(s)
             \/ SyncRow(s) \/ CountTasks(s)
    BY <2>3, ChecksKeep
  <2>4. CASE GenerateUniqueCode(s)
    BY <2>4, GenerateKeeps
  <2>5. CASE WriteRow(s)
    BY <2>5, WriteRowKeeps
  <2>6. CASE FindRows(s)
    BY <2>6, FindRowsKeeps
  <2>7. CASE DropRows(s)
    BY <2>7, DropRowsKeeps
  <2>8. CASE FormCallFails(s)
    BY <2>8, FormEndsKeeps DEF FormCallFails
  <2> QED
    BY <2>1, <2>2, <2>3, <2>4, <2>5, <2>6, <2>7, <2>8
<1> QED
  BY <1>1, <1>2

LEMMA FormInvariant == FormSpec => [](FormInv /\ KeyInv /\ CategoryInv)
<1> USE DEF FormSpec
<1> QED
  BY FormInitInv, FormNextKeeps, PTL

\* The types of the tables and of the calls: a row holds what its table takes, and the
\* calls in progress point at rows of their table.
THEOREM FormsTyped == FormSpec => []FormTypeOK
<1>1. FormInv => FormTypeOK
  BY DEF FormInv
<1> QED
  BY <1>1, FormInvariant, PTL

\* assertUniqueName, assertUniqueCode and their like look before the row is written, and
\* nothing holds the table between; still no two rows of a table share a key unless two
\* of the calls that write it overlapped, and codes with a unique key never do.
THEOREM KeysStayUnique == FormSpec => []KeysUniqueUnlessOverlapped
<1>1. KeyInv => KeysUniqueUnlessOverlapped
  BY DEF KeyInv, CodesDiffer, LiveDiffer, KeysUniqueUnlessOverlapped, LiveRows
<1> QED
  BY <1>1, FormInvariant, PTL

\* A task's category is there as long as no deletion of categories was under way while
\* a task was written: what either has counted or found then still holds when it writes.
THEOREM CategoriesStay == FormSpec => []CategoryKeptUnlessCrossed
<1>1. CategoryInv => CategoryKeptUnlessCrossed
  BY DEF CategoryInv, Categories, CategoryKeptUnlessCrossed
<1> QED
  BY <1>1, FormInvariant, PTL

-----------------------------------------------------------------------------
(* Lists of options *)

\* The keys of a list are keys, and each is deleted before or after the method.
LEMMA KeysOfLists ==
  ASSUME NEW list \in CacheLists
  PROVE  /\ KeysOf(list) \subseteq CacheKey
         /\ KeysOf(list) = BeforeKeys(list) \cup AfterKeys(list)
<1>1. ASSUME NEW k \in DOMAIN list PROVE list[k] \in CacheOptions
  <2>1. CASE list = <<>>
    BY <2>1
  <2>2. CASE \E method \in CacheMethod : list = method.list
    BY <2>2, CacheMethodAssumption
  <2> QED
    BY <2>1, <2>2 DEF CacheLists
<1>2. KeysOf(list) \subseteq CacheKey
  BY <1>1 DEF KeysOf, CacheList, CacheOptions
<1>3. KeysOf(list) = BeforeKeys(list) \cup AfterKeys(list)
  BY <1>1 DEF KeysOf, BeforeKeys, AfterKeys, CacheList, CacheOptions
<1> QED
  BY <1>2, <1>3

-----------------------------------------------------------------------------
(* The type invariant *)

LEMMA CacheTypeInit == CacheInit => CacheTypeOK
BY CacheBoundAssumption DEF CacheInit, CacheTypeOK, CacheCallRecords, CacheLists, CacheIdle,
   CacheValues, Other, CacheEntries

LEMMA IdleTyped == CacheIdle \in CacheCallRecords
BY CacheBoundAssumption DEF CacheCallRecords, CacheLists, CacheIdle, CacheValues, Other

\* A call goes on with other keys, another step or another value.
LEMMA CallTyped ==
  ASSUME NEW c \in CacheCallRecords, NEW left \in SUBSET CacheKey,
         NEW pc \in {"idle", "lookup", "before", "method", "store", "after"},
         NEW val \in CacheValues
  PROVE  /\ [c EXCEPT !.left = left] \in CacheCallRecords
         /\ [c EXCEPT !.left = left, !.pc = pc] \in CacheCallRecords
         /\ [c EXCEPT !.pc = pc, !.left = left] \in CacheCallRecords
         /\ [c EXCEPT !.pc = pc, !.left = left, !.val = val] \in CacheCallRecords
BY DEF CacheCallRecords

LEMMA MovesTyped ==
  ASSUME CacheTypeOK, NEW s \in CacheSlot, NEW call \in CacheCallRecords,
         CacheMoves(s, call) \/ CacheEnds(s) \/ cacheCall' = [cacheCall EXCEPT ![s] = call]
  PROVE  cacheCall' \in [CacheSlot -> CacheCallRecords]
BY IdleTyped DEF CacheMoves, CacheEnds, CacheTypeOK

LEMMA CallFields ==
  ASSUME CacheTypeOK, NEW s \in CacheSlot
  PROVE  /\ cacheCall[s] \in CacheCallRecords
         /\ cacheCall[s].left \in SUBSET CacheKey
         /\ KeysOf(cacheCall[s].list) \in SUBSET CacheKey
         /\ AfterKeys(cacheCall[s].list) \in SUBSET CacheKey
         /\ cacheCall[s].val \in CacheValues
BY KeysOfLists DEF CacheTypeOK, CacheCallRecords

\* A deletion before the method takes one key from the call's list, and the last
\* one moves the call on.
LEMMA DelBeforeWrites ==
  ASSUME CacheTypeOK, NEW s \in CacheSlot, DelBefore(s)
  PROVE  \E key \in cacheCall[s].left :
           /\ redis' = [redis EXCEPT ![key] = NoEntry]
           /\ cacheCall' = [cacheCall EXCEPT ![s] = [cacheCall[s] EXCEPT
                !.left = cacheCall[s].left \ {key},
                !.pc = IF cacheCall[s].left = {key} THEN "method" ELSE "before"]]
<1> DEFINE c == cacheCall[s]
<1>1. cacheCall \in [CacheSlot -> CacheCallRecords]
  BY DEF CacheTypeOK
<1>2. PICK key \in c.left :
        /\ redis' = [redis EXCEPT ![key] = NoEntry]
        /\ cacheCall' = [cacheCall EXCEPT ![s].left = @ \ {key},
                                         ![s].pc = IF c.left = {key} THEN "method" ELSE "before"]
  BY DEF DelBefore
<1> DEFINE after == IF c.left = {key} THEN "method" ELSE "before"
           rest  == c.left \ {key}
<1>3. c \in CacheCallRecords
  BY <1>1
<1> HIDE DEF after
<1>4. cacheCall' = [cacheCall EXCEPT ![s].left = rest, ![s].pc = after]
  BY <1>2 DEF after
<1>5. [cacheCall EXCEPT ![s].left = rest, ![s].pc = after]
        = [cacheCall EXCEPT ![s] = [c EXCEPT !.left = rest, !.pc = after]]
  BY <1>1, <1>3 DEF CacheCallRecords
<1> QED
  BY <1>2, <1>4, <1>5 DEF after

LEMMA CacheTypeStep == CacheTypeOK /\ [CacheNext]_cacheVars => CacheTypeOK'
<1> SUFFICES ASSUME CacheTypeOK, [CacheNext]_cacheVars PROVE CacheTypeOK'
  OBVIOUS
<1> USE CacheBoundAssumption
<1>1. ASSUME NEW s \in CacheSlot, Invoke(s) PROVE CacheTypeOK'
  <2>1. PICK method \in CacheMethod :
          /\ cacheCalls < MaxCacheCalls /\ cacheCalls' = cacheCalls + 1
          /\ \/ cacheCall' = [cacheCall EXCEPT ![s] = [CacheIdle EXCEPT !.op = method.op,
                  !.list = method.list, !.pc = "lookup", !.left = KeysOf(method.list)]]
             \/ cacheCall' = [cacheCall EXCEPT ![s] = [CacheIdle EXCEPT !.op = method.op,
                  !.list = method.list, !.pc = "before", !.left = BeforeKeys(method.list)]]
             \/ cacheCall' = [cacheCall EXCEPT ![s] = [CacheIdle EXCEPT !.op = method.op,
                  !.list = method.list, !.pc = "method"]]
          /\ cacheCauses' \in {cacheCauses, cacheCauses \cup {"overlap"}}
          /\ UNCHANGED <<datum, redis>>
    <3> DEFINE call(method) == [CacheIdle EXCEPT !.op = method.op, !.list = method.list]
               started(method) ==
                 CASE method.op = "able" /\ KeysOf(method.list) # {} ->
                        [call(method) EXCEPT !.pc = "lookup", !.left = KeysOf(method.list)]
                   [] method.op = "evict" /\ BeforeKeys(method.list) # {} ->
                        [call(method) EXCEPT !.pc = "before", !.left = BeforeKeys(method.list)]
                   [] OTHER -> [call(method) EXCEPT !.pc = "method"]
    <3>1. PICK method \in CacheMethod :
            /\ cacheCalls < MaxCacheCalls /\ cacheCalls' = cacheCalls + 1
            /\ cacheCall' = [cacheCall EXCEPT ![s] = started(method)]
            /\ cacheCauses' \in {cacheCauses, cacheCauses \cup {"overlap"}}
            /\ UNCHANGED <<datum, redis>>
      BY <1>1 DEF Invoke
    <3>2. \/ started(method) = [call(method) EXCEPT !.pc = "lookup", !.left = KeysOf(method.list)]
          \/ started(method) = [call(method) EXCEPT !.pc = "before", !.left = BeforeKeys(method.list)]
          \/ started(method) = [call(method) EXCEPT !.pc = "method"]
      OBVIOUS
    <3> HIDE DEF started
    <3> QED
      BY <3>1, <3>2 DEF CacheIdle
  <2>2. method.list \in CacheLists /\ method.op \in {"able", "put", "evict"}
    BY CacheMethodAssumption DEF CacheLists
  <2>3. KeysOf(method.list) \subseteq CacheKey /\ BeforeKeys(method.list) \subseteq CacheKey
    BY <2>2, KeysOfLists
  <2>4. ASSUME NEW pc \in {"lookup", "before", "method"}, NEW left \in SUBSET CacheKey
        PROVE  [CacheIdle EXCEPT !.op = method.op, !.list = method.list, !.pc = pc, !.left = left]
                 \in CacheCallRecords
    BY <2>2, IdleTyped DEF CacheCallRecords
  <2>5. [CacheIdle EXCEPT !.op = method.op, !.list = method.list, !.pc = "method"]
          \in CacheCallRecords
    BY <2>2, IdleTyped DEF CacheCallRecords
  <2>6. cacheCall' \in [CacheSlot -> CacheCallRecords]
    <3> DEFINE at(pc, left) ==
          [CacheIdle EXCEPT !.op = method.op, !.list = method.list, !.pc = pc, !.left = left]
               inMethod == [CacheIdle EXCEPT !.op = method.op, !.list = method.list, !.pc = "method"]
    <3>1. /\ at("lookup", KeysOf(method.list)) \in CacheCallRecords
          /\ at("before", BeforeKeys(method.list)) \in CacheCallRecords
          /\ inMethod \in CacheCallRecords
      BY <2>3, <2>4, <2>5
    <3>2. \/ cacheCall' = [cacheCall EXCEPT ![s] = at("lookup", KeysOf(method.list))]
          \/ cacheCall' = [cacheCall EXCEPT ![s] = at("before", BeforeKeys(method.list))]
          \/ cacheCall' = [cacheCall EXCEPT ![s] = inMethod]
      BY <2>1
    <3> HIDE DEF at, inMethod
    <3> QED
      BY <3>1, <3>2 DEF CacheTypeOK
  <2> QED
    BY <2>1, <2>6 DEF CacheTypeOK
<1>2. ASSUME NEW s \in CacheSlot, Lookup(s) PROVE CacheTypeOK'
  <2> DEFINE c == cacheCall[s]
             left == c.left \ {FirstKey(c)}
             pc == IF left = {} THEN "method" ELSE "lookup"
  <2>1. c \in CacheCallRecords /\ left \in SUBSET CacheKey /\ c.val \in CacheValues
    BY CallFields
  <2>2. [c EXCEPT !.left = left, !.pc = pc] \in CacheCallRecords
    <3>1. pc \in {"idle", "lookup", "before", "method", "store", "after"}
      OBVIOUS
    <3> HIDE DEF c, left, pc
    <3> QED BY <2>1, <3>1, CallTyped
  <2>3. CacheEnds(s) \/ cacheCall' = [cacheCall EXCEPT ![s] = [c EXCEPT !.left = left, !.pc = pc]]
    BY <1>2 DEF Lookup, CacheTypeOK, CacheCallRecords
  <2>4. cacheCall' \in [CacheSlot -> CacheCallRecords]
    BY <2>2, <2>3, MovesTyped
  <2> QED
    BY <1>2, <2>4 DEF Lookup, CacheTypeOK
<1>3. ASSUME NEW s \in CacheSlot, Read(s) PROVE CacheTypeOK'
  <2> DEFINE call == [cacheCall[s] EXCEPT !.pc = "store", !.left = KeysOf(cacheCall[s].list),
                                          !.val = datum]
  <2>1. datum \in CacheValues
    BY DEF CacheTypeOK, CacheValues, Other
  <2>2. call \in CacheCallRecords
    BY <2>1, CallFields, CallTyped
  <2>3. cacheCall' \in [CacheSlot -> CacheCallRecords]
    BY <1>3, <2>2, MovesTyped DEF Read
  <2> QED
    BY <1>3, <2>3 DEF Read, CacheTypeOK
<1>4. ASSUME NEW s \in CacheSlot, Put(s) PROVE CacheTypeOK'
  <2> DEFINE call(val) == [cacheCall[s] EXCEPT !.pc = "store",
                             !.left = KeysOf(cacheCall[s].list), !.val = val]
  <2>1. cacheCalls \in CacheValues /\ Other \in CacheValues
    BY DEF CacheTypeOK, CacheValues, Other
  <2>2. call(cacheCalls) \in CacheCallRecords /\ call(Other) \in CacheCallRecords
    BY <2>1, CallFields, CallTyped
  <2>3. CacheMoves(s, call(cacheCalls)) \/ CacheMoves(s, call(Other)) \/ CacheEnds(s)
    BY <1>4 DEF Put
  <2>4. cacheCall' \in [CacheSlot -> CacheCallRecords]
    <3> HIDE DEF call
    <3> QED BY <2>2, <2>3, MovesTyped
  <2>5. \E causes \in {{}, {"result"}} : Written(s, cacheCalls, KeysOf(cacheCall[s].list), causes)
    BY <1>4 DEF Put
  <2> QED
    BY <2>4, <2>5 DEF Written, CacheTypeOK
<1>5. ASSUME NEW s \in CacheSlot, Evict(s) PROVE CacheTypeOK'
  <2> DEFINE call == [cacheCall[s] EXCEPT !.pc = "after", !.left = AfterKeys(cacheCall[s].list)]
  <2>1. call \in CacheCallRecords
    BY CallFields, CallTyped DEF CacheTypeOK, CacheValues
  <2>2. cacheCall' \in [CacheSlot -> CacheCallRecords]
    BY <1>5, <2>1, MovesTyped DEF Evict
  <2>3. \E version \in {0, cacheCalls} : Written(s, version, KeysOf(cacheCall[s].list), {})
    BY <1>5 DEF Evict
  <2> QED
    BY <2>2, <2>3 DEF Written, CacheTypeOK
<1>6. ASSUME NEW s \in CacheSlot, SetKey(s) PROVE CacheTypeOK'
  <2>1. PICK key \in cacheCall[s].left :
          /\ redis' = [redis EXCEPT ![key] = [val |-> cacheCall[s].val,
                                             ttl |-> Expires(cacheCall[s].list, key)]]
          /\ CacheMoves(s, [cacheCall[s] EXCEPT !.left = cacheCall[s].left \ {key}])
    BY <1>6 DEF SetKey
  <2>2. [cacheCall[s] EXCEPT !.left = cacheCall[s].left \ {key}] \in CacheCallRecords
    BY CallFields, CallTyped
  <2>3. cacheCall' \in [CacheSlot -> CacheCallRecords]
    BY <2>1, <2>2, MovesTyped
  <2>4. Expires(cacheCall[s].list, key) \in BOOLEAN
    BY DEF Expires
  <2>5. redis' \in [CacheKey -> CacheEntries \cup {NoEntry}]
    BY <2>1, <2>4, CallFields DEF CacheTypeOK, CacheEntries
  <2> QED
    BY <1>6, <2>3, <2>5 DEF SetKey, CacheTypeOK
<1>7. ASSUME NEW s \in CacheSlot, DelBefore(s) \/ DelAfter(s) PROVE CacheTypeOK'
  <2>1. PICK key \in cacheCall[s].left :
          /\ redis' = [redis EXCEPT ![key] = NoEntry]
          /\ \/ cacheCall' = [cacheCall EXCEPT ![s] = [cacheCall[s] EXCEPT
                   !.left = cacheCall[s].left \ {key},
                   !.pc = IF cacheCall[s].left = {key} THEN "method" ELSE "before"]]
             \/ CacheMoves(s, [cacheCall[s] EXCEPT !.left = cacheCall[s].left \ {key}])
    <3>1. CASE DelBefore(s)
      BY <3>1, DelBeforeWrites
    <3>2. CASE DelAfter(s)
      BY <3>2 DEF DelAfter
    <3> QED
      BY <1>7, <3>1, <3>2
  <2>2. /\ [cacheCall[s] EXCEPT !.left = cacheCall[s].left \ {key},
                !.pc = IF cacheCall[s].left = {key} THEN "method" ELSE "before"] \in CacheCallRecords
        /\ [cacheCall[s] EXCEPT !.left = cacheCall[s].left \ {key}] \in CacheCallRecords
    BY CallFields, CallTyped
  <2>3. cacheCall' \in [CacheSlot -> CacheCallRecords]
    BY <2>1, <2>2, MovesTyped
  <2>4. redis' \in [CacheKey -> CacheEntries \cup {NoEntry}]
    BY <2>1, CallFields DEF CacheTypeOK
  <2> QED
    BY <1>7, <2>3, <2>4 DEF DelBefore, DelAfter, CacheTypeOK
<1>8. ASSUME NEW s \in CacheSlot, KeyFails(s) \/ CacheCallFails(s) PROVE CacheTypeOK'
  <2>1. \/ \E key \in cacheCall[s].left : cacheCall' = [cacheCall EXCEPT ![s] =
                [cacheCall[s] EXCEPT !.left = cacheCall[s].left \ {key}]]
        \/ cacheCall' = [cacheCall EXCEPT ![s] = [cacheCall[s] EXCEPT !.pc = "method", !.left = {}]]
        \/ CacheEnds(s)
    BY <1>8 DEF KeyFails, CacheCallFails, CacheEnds
  <2>2. /\ [cacheCall[s] EXCEPT !.pc = "method", !.left = {}] \in CacheCallRecords
        /\ \A key \in cacheCall[s].left :
             [cacheCall[s] EXCEPT !.left = cacheCall[s].left \ {key}] \in CacheCallRecords
    BY CallFields, CallTyped DEF CacheTypeOK, CacheValues
  <2>3. cacheCall' \in [CacheSlot -> CacheCallRecords]
    BY <2>1, <2>2, MovesTyped
  <2> QED
    BY <1>8, <2>3 DEF KeyFails, CacheCallFails, CacheTypeOK
<1>9. ASSUME NEW key \in CacheKey, Expire(key) PROVE CacheTypeOK'
  BY <1>9 DEF Expire, CacheTypeOK
<1>10. CASE UNCHANGED cacheVars
  BY <1>10 DEF cacheVars, CacheTypeOK
<1> QED
  BY <1>1, <1>2, <1>3, <1>4, <1>5, <1>6, <1>7, <1>8, <1>9, <1>10 DEF CacheNext

\* Redis holds versions of the datum or foreign results, and calls in progress name
\* keys only, for every number of keys, calls and methods.
THEOREM CacheTypeCorrect == CacheSpec => []CacheTypeOK
<1> QED
  BY CacheTypeInit, CacheTypeStep, PTL DEF CacheSpec

-----------------------------------------------------------------------------
(* No old entries *)

LEMMA CacheInvInit == CacheInit => CacheInv
BY DEF CacheInit, CacheInv, SoleWriter, LookupsRead, DeletedFirst, StoresDatum, OldOnlyPending,
   Writes, Moving, CacheIdle

\* The step of one call leaves the others alone and does not change what the call is.
Own(s) ==
  /\ \A t \in CacheSlot : t # s => cacheCall'[t] = cacheCall[t]
  /\ \/ cacheCall'[s].pc = "idle" /\ cacheCall'[s].op = "able"
     \/ /\ cacheCall[s].pc # "idle"
        /\ cacheCall'[s].op = cacheCall[s].op /\ cacheCall'[s].list = cacheCall[s].list
        /\ cacheCall'[s].pc # "lookup" \/ cacheCall[s].pc = "lookup"

\* What a step puts in the place of the call it is a step of.
LEMMA OwnCall ==
  ASSUME CacheTypeOK, NEW s \in CacheSlot, NEW call,
         \/ CacheEnds(s)
         \/ /\ CacheMoves(s, call) \/ cacheCall' = [cacheCall EXCEPT ![s] = call]
            /\ cacheCall[s].pc # "idle"
            /\ call.op = cacheCall[s].op /\ call.list = cacheCall[s].list
            /\ call.pc # "lookup" \/ cacheCall[s].pc = "lookup"
  PROVE  Own(s)
<1>1. CASE CacheEnds(s)
  BY <1>1 DEF CacheTypeOK, CacheEnds, Own, CacheIdle
<1>2. CASE /\ CacheMoves(s, call) \/ cacheCall' = [cacheCall EXCEPT ![s] = call]
           /\ cacheCall[s].pc # "idle"
           /\ call.op = cacheCall[s].op /\ call.list = cacheCall[s].list
           /\ call.pc # "lookup" \/ cacheCall[s].pc = "lookup"
  <2>1. CASE cacheCall' = [cacheCall EXCEPT ![s] = CacheIdle]
    BY <2>1 DEF CacheTypeOK, Own, CacheIdle
  <2>2. CASE cacheCall' = [cacheCall EXCEPT ![s] = call]
    BY <1>2, <2>2 DEF CacheTypeOK, Own
  <2> QED
    BY <1>2, <2>1, <2>2 DEF CacheMoves
<1> QED
  BY <1>1, <1>2

LEMMA OwnSteps ==
  ASSUME CacheTypeOK, NEW s \in CacheSlot,
         \/ Lookup(s) \/ Read(s) \/ Put(s) \/ Evict(s) \/ SetKey(s)
         \/ DelBefore(s) \/ DelAfter(s) \/ KeyFails(s) \/ CacheCallFails(s)
  PROVE  Own(s)
<1> DEFINE c == cacheCall[s]
<1>1. c \in CacheCallRecords
  BY DEF CacheTypeOK
<1>2. CASE Lookup(s)
  <2> DEFINE left == c.left \ {FirstKey(c)}
             call == [c EXCEPT !.left = left, !.pc = IF left = {} THEN "method" ELSE "lookup"]
  <2>2. CacheEnds(s) \/ cacheCall' = [cacheCall EXCEPT ![s] = call]
    BY <1>2 DEF Lookup, CacheTypeOK, CacheCallRecords
  <2>3. c.pc = "lookup"
    BY <1>2 DEF Lookup, CacheTypeOK, CacheCallRecords
  <2>4. /\ call.op = c.op /\ call.list = c.list
        /\ call.pc # "lookup" \/ c.pc = "lookup"
    BY <1>1, <2>3 DEF CacheCallRecords
  <2> HIDE DEF left, call
  <2> QED
    BY <2>2, <2>3, <2>4, OwnCall
<1>3. CASE Read(s)
  <2> DEFINE call == [c EXCEPT !.pc = "store", !.left = KeysOf(c.list), !.val = datum]
  <2>2. CacheEnds(s) \/ CacheMoves(s, call)
    BY <1>3 DEF Read
  <2>3. c.pc = "method"
    BY <1>3 DEF Read
  <2>4. /\ call.op = c.op /\ call.list = c.list
        /\ call.pc # "lookup" \/ c.pc = "lookup"
    BY <1>1, <2>3 DEF CacheCallRecords
  <2> HIDE DEF call
  <2> QED
    BY <2>2, <2>3, <2>4, OwnCall
<1>4. CASE Put(s)
  <2> DEFINE call1 == [c EXCEPT !.pc = "store", !.left = KeysOf(c.list), !.val = cacheCalls]
             call2 == [c EXCEPT !.pc = "store", !.left = KeysOf(c.list), !.val = Other]
  <2>2. CacheMoves(s, call1) \/ CacheMoves(s, call2) \/ CacheEnds(s)
    BY <1>4 DEF Put
  <2>3. c.pc = "method"
    BY <1>4 DEF Put
  <2>4. /\ call1.op = c.op /\ call1.list = c.list
        /\ call1.pc # "lookup" \/ c.pc = "lookup"
        /\ call2.op = c.op /\ call2.list = c.list
        /\ call2.pc # "lookup" \/ c.pc = "lookup"
    BY <1>1, <2>3 DEF CacheCallRecords
  <2> HIDE DEF call1, call2
  <2> QED
    BY <2>2, <2>3, <2>4, OwnCall
<1>5. CASE Evict(s)
  <2> DEFINE call == [c EXCEPT !.pc = "after", !.left = AfterKeys(c.list)]
  <2>2. CacheMoves(s, call)
    BY <1>5 DEF Evict
  <2>3. c.pc = "method"
    BY <1>5 DEF Evict
  <2>4. /\ call.op = c.op /\ call.list = c.list
        /\ call.pc # "lookup" \/ c.pc = "lookup"
    BY <1>1, <2>3 DEF CacheCallRecords
  <2> HIDE DEF call
  <2> QED
    BY <2>2, <2>3, <2>4, OwnCall
<1>6. CASE SetKey(s) \/ DelAfter(s)
  <2>1. PICK key \in c.left : CacheMoves(s, [c EXCEPT !.left = c.left \ {key}])
    BY <1>6 DEF SetKey, DelAfter
  <2> DEFINE call == [c EXCEPT !.left = c.left \ {key}]
  <2>2. CacheMoves(s, call)
    BY <2>1
  <2>3. c.pc \in {"store", "after"}
    BY <1>6 DEF SetKey, DelAfter
  <2>4. /\ call.op = c.op /\ call.list = c.list
        /\ call.pc # "lookup" \/ c.pc = "lookup"
    BY <1>1, <2>3 DEF CacheCallRecords
  <2> HIDE DEF call
  <2> QED
    BY <2>2, <2>3, <2>4, OwnCall
<1>7. CASE DelBefore(s)
  <2>1. PICK key \in c.left : cacheCall' = [cacheCall EXCEPT ![s] = [c EXCEPT
          !.left = c.left \ {key}, !.pc = IF c.left = {key} THEN "method" ELSE "before"]]
    BY <1>7, DelBeforeWrites
  <2> DEFINE call == [c EXCEPT !.left = c.left \ {key},
                               !.pc = IF c.left = {key} THEN "method" ELSE "before"]
  <2>2. cacheCall' = [cacheCall EXCEPT ![s] = call]
    BY <2>1
  <2>3. c.pc = "before"
    BY <1>7 DEF DelBefore, CacheTypeOK, CacheCallRecords
  <2>4. /\ call.op = c.op /\ call.list = c.list
        /\ call.pc # "lookup" \/ c.pc = "lookup"
    BY <1>1, <2>3 DEF CacheCallRecords
  <2> HIDE DEF call
  <2> QED
    BY <2>2, <2>3, <2>4, OwnCall
<1>8. CASE KeyFails(s)
  <2>1. PICK key \in c.left : cacheCall' = [cacheCall EXCEPT ![s] =
          IF c.left # {key} THEN [c EXCEPT !.left = c.left \ {key}]
          ELSE IF c.pc = "before" THEN [c EXCEPT !.pc = "method", !.left = {}] ELSE CacheIdle]
    BY <1>8 DEF KeyFails
  <2> DEFINE call1 == [c EXCEPT !.left = c.left \ {key}]
             call2 == [c EXCEPT !.pc = "method", !.left = {}]
  <2>2. \/ cacheCall' = [cacheCall EXCEPT ![s] = call1]
        \/ cacheCall' = [cacheCall EXCEPT ![s] = call2]
        \/ cacheCall' = [cacheCall EXCEPT ![s] = CacheIdle]
    BY <2>1
  <2>3. c.pc \in {"before", "store", "after"}
    BY <1>8 DEF KeyFails
  <2>4. /\ call1.op = c.op /\ call1.list = c.list
        /\ call1.pc # "lookup" \/ c.pc = "lookup"
        /\ call2.op = c.op /\ call2.list = c.list
        /\ call2.pc # "lookup" \/ c.pc = "lookup"
    BY <1>1, <2>3 DEF CacheCallRecords
  <2> HIDE DEF call1, call2
  <2> QED
    BY <2>2, <2>3, <2>4, OwnCall DEF CacheEnds
<1>9. CASE CacheCallFails(s)
  BY <1>9, OwnCall DEF CacheCallFails
<1> QED
  BY <1>2, <1>3, <1>4, <1>5, <1>6, <1>7, <1>8, <1>9

LEMMA OwnKeeps ==
  ASSUME NEW s \in CacheSlot, Own(s), SoleWriter, LookupsRead
  PROVE  SoleWriter' /\ LookupsRead'
BY DEF Own, SoleWriter, LookupsRead, Writes, Moving

\* No call in progress beside a write.
LEMMA WriterAlone ==
  ASSUME SoleWriter, NEW s \in CacheSlot, Writes(s), NEW t \in CacheSlot, t # s
  PROVE  cacheCall[t].pc = "idle"
BY DEF SoleWriter, Writes, Moving

\* The parts of the invariant that are about entries.
EntryInv == DeletedFirst /\ StoresDatum /\ OldOnlyPending

\* A step that leaves the datum and Redis alone and is not one of a write with keys to
\* set or delete.
LEMMA QuietKeeps ==
  ASSUME NEW s \in CacheSlot, Own(s), EntryInv, UNCHANGED <<datum, redis>>,
         cacheCall'[s].op = "able",
         cacheCall'[s].pc = "store" => cacheCall'[s].val = datum,
         ~(Writes(s) /\ cacheCall[s].pc \in {"store", "after"})
  PROVE  EntryInv'
<1> USE DEF EntryInv, Own
<1>1. DeletedFirst'
  BY DEF DeletedFirst
<1>2. StoresDatum'
  BY DEF StoresDatum
<1>3. OldOnlyPending'
  <2>1. ASSUME NEW key, Pending(key) PROVE Pending(key)'
    BY <2>1 DEF Pending, Writes, Moving
  <2> QED
    BY <2>1 DEF OldOnlyPending
<1> QED
  BY <1>1, <1>2, <1>3

\* A step that sets the keys of a call to the datum or deletes them, one key at a time.
LEMMA KeyKeeps ==
  ASSUME CacheTypeOK, NEW s \in CacheSlot, Own(s), EntryInv, NEW key \in CacheKey, NEW entry,
         datum' = datum, redis' = [redis EXCEPT ![key] = entry],
         entry = NoEntry \/ (entry.val = datum /\ ~\E t \in CacheSlot :
           cacheCall'[t].op = "evict" /\ cacheCall'[t].pc \in {"before", "method"}),
         \/ cacheCall'[s].pc = "idle" /\ cacheCall[s].left = {key}
         \/ /\ cacheCall'[s].left = cacheCall[s].left \ {key}
            /\ cacheCall'[s].pc = cacheCall[s].pc
            /\ cacheCall'[s].val = cacheCall[s].val
         \/ /\ cacheCall[s].pc = "before" /\ cacheCall'[s].pc = "method"
            /\ cacheCall[s].left = {key}
  PROVE  EntryInv'
<1> USE DEF EntryInv, Own
<1>1. \A k \in CacheKey : redis'[k] = IF k = key THEN entry ELSE redis[k]
  BY DEF CacheTypeOK
<1>2. DeletedFirst'
  <2> SUFFICES ASSUME NEW t \in CacheSlot, cacheCall'[t].op = "evict",
                      cacheCall'[t].pc \in {"before", "method"},
                      NEW k \in BeforeKeys(cacheCall'[t].list)
               PROVE  redis'[k] = NoEntry \/ (cacheCall'[t].pc = "before" /\ k \in cacheCall'[t].left)
    BY DEF DeletedFirst
  <2>1. entry = NoEntry
    OBVIOUS
  <2>2. cacheCall'[t].list = cacheCall[t].list /\ cacheCall'[t].op = cacheCall[t].op
    OBVIOUS
  <2>3. BeforeKeys(cacheCall[t].list) \subseteq CacheKey
    BY KeysOfLists DEF CacheTypeOK, CacheCallRecords
  <2>4. CASE k = key
    BY <1>1, <2>1, <2>4
  <2>5. CASE k # key
    <3>1. cacheCall[t].pc \in {"before", "method"}
      OBVIOUS
    <3>2. redis[k] = NoEntry \/ (cacheCall[t].pc = "before" /\ k \in cacheCall[t].left)
      BY <2>2, <3>1 DEF DeletedFirst
    <3> QED
      BY <1>1, <2>2, <2>3, <2>5, <3>2
  <2> QED
    BY <2>4, <2>5
<1>3. StoresDatum'
  BY DEF StoresDatum
<1>4. OldOnlyPending'
  <2>1. ASSUME NEW k \in CacheKey, k # key, Pending(k) PROVE Pending(k)'
    BY <2>1 DEF Pending, Writes, Moving
  <2> QED
    BY <1>1, <2>1 DEF OldOnlyPending
<1> QED
  BY <1>2, <1>3, <1>4

\* A write that changes the datum: no other call is in progress, so nothing older is
\* about to be stored, and every key it names is set or deleted, before or after.
LEMMA WriteKeeps ==
  ASSUME CacheTypeOK, NEW s \in CacheSlot, Own(s), SoleWriter, EntryInv, redis' = redis,
         Writes(s), cacheCall[s].pc = "method", KeysOf(cacheCall[s].list) = CacheKey,
         \/ /\ cacheCall'[s].op = "put" /\ cacheCall'[s].pc = "store"
            /\ cacheCall'[s].left = CacheKey /\ cacheCall'[s].val = datum'
         \/ /\ cacheCall[s].op = "evict" /\ cacheCall'[s].op = "evict"
            /\ cacheCall'[s].pc = "after"
            /\ cacheCall'[s].left = AfterKeys(cacheCall[s].list)
         \/ /\ cacheCall'[s].pc = "idle" /\ cacheCall'[s].op = "able"
            /\ \/ CacheKey = {}
               \/ cacheCall[s].op = "evict" /\ AfterKeys(cacheCall[s].list) = {}
  PROVE  EntryInv'
<1> USE DEF EntryInv
<1>1. \A t \in CacheSlot : t # s => cacheCall'[t].pc = "idle"
  BY WriterAlone DEF Own
<1>2. DeletedFirst'
  BY <1>1 DEF DeletedFirst
<1>3. StoresDatum'
  BY <1>1 DEF StoresDatum
<1>4. OldOnlyPending'
  <2>1. CASE cacheCall[s].op = "evict"
    <3>1. \A key \in BeforeKeys(cacheCall[s].list) : redis[key] = NoEntry
      BY <2>1 DEF DeletedFirst
    <3>2. CacheKey = BeforeKeys(cacheCall[s].list) \cup AfterKeys(cacheCall[s].list)
      BY KeysOfLists DEF CacheTypeOK, CacheCallRecords
    <3>3. ASSUME NEW key \in AfterKeys(cacheCall[s].list) PROVE Pending(key)'
      <4>1. cacheCall'[s].op # "able" /\ cacheCall'[s].pc = "after" /\ key \in cacheCall'[s].left
        BY <2>1, <3>3, <3>2 DEF Own
      <4> QED
        BY <4>1 DEF Pending, Writes, Moving
    <3> QED
      BY <3>1, <3>2, <3>3 DEF OldOnlyPending
  <2>2. CASE cacheCall[s].op # "evict" /\ CacheKey # {}
    <3>1. ASSUME NEW key \in CacheKey PROVE Pending(key)'
      BY <2>2 DEF Pending, Writes, Moving
    <3> QED
      BY <3>1 DEF OldOnlyPending
  <2> QED
    BY <2>1, <2>2 DEF OldOnlyPending
<1> QED
  BY <1>2, <1>3, <1>4

LEMMA InvokeKeeps ==
  ASSUME CacheTypeOK, NEW s \in CacheSlot, Invoke(s), cacheCauses' = {},
         SoleWriter, LookupsRead, EntryInv
  PROVE  SoleWriter' /\ LookupsRead' /\ EntryInv'
<1>1. PICK method \in CacheMethod :
        /\ ~Moving(s)
        /\ cacheCall' = [cacheCall EXCEPT ![s] =
             CASE method.op = "able" /\ KeysOf(method.list) # {} ->
                    [CacheIdle EXCEPT !.op = method.op, !.list = method.list,
                                      !.pc = "lookup", !.left = KeysOf(method.list)]
               [] method.op = "evict" /\ BeforeKeys(method.list) # {} ->
                    [CacheIdle EXCEPT !.op = method.op, !.list = method.list,
                                      !.pc = "before", !.left = BeforeKeys(method.list)]
               [] OTHER -> [CacheIdle EXCEPT !.op = method.op, !.list = method.list,
                                             !.pc = "method"]]
        /\ cacheCauses' = cacheCauses \cup
             IF \E o \in CacheSlot : Moving(o) /\ (Writes(o) \/ method.op # "able")
             THEN {"overlap"} ELSE {}
        /\ UNCHANGED <<datum, redis>>
  BY DEF Invoke, CacheIdle
<1>2. \A o \in CacheSlot : Moving(o) => ~Writes(o) /\ method.op = "able"
  BY <1>1
<1>3. \A t \in CacheSlot : t # s => cacheCall'[t] = cacheCall[t]
  BY <1>1 DEF CacheTypeOK
<1>4. /\ cacheCall'[s].op = method.op
      /\ \/ cacheCall'[s].pc = "lookup" /\ method.op = "able"
         \/ /\ cacheCall'[s].pc = "before"
            /\ cacheCall'[s].left = BeforeKeys(cacheCall'[s].list)
         \/ /\ cacheCall'[s].pc = "method"
            /\ method.op = "evict" => BeforeKeys(cacheCall'[s].list) = {}
  <2>1. CASE method.op = "able" /\ KeysOf(method.list) # {}
    BY <1>1, <2>1 DEF CacheTypeOK, CacheIdle
  <2>2. CASE method.op = "evict" /\ BeforeKeys(method.list) # {}
    BY <1>1, <2>2 DEF CacheTypeOK, CacheIdle
  <2>3. CASE /\ ~(method.op = "able" /\ KeysOf(method.list) # {})
             /\ ~(method.op = "evict" /\ BeforeKeys(method.list) # {})
    <3>1. cacheCall' = [cacheCall EXCEPT ![s] =
            [CacheIdle EXCEPT !.op = method.op, !.list = method.list, !.pc = "method"]]
      BY <1>1, <2>3
    <3> QED
      BY <2>3, <3>1 DEF CacheTypeOK, CacheIdle
  <2> QED
    BY <2>1, <2>2, <2>3
<1>5. SoleWriter'
  BY <1>2, <1>3, <1>4 DEF SoleWriter, Writes, Moving
<1>6. LookupsRead'
  BY <1>3, <1>4 DEF LookupsRead
<1>7. DeletedFirst'
  <2>1. ASSUME NEW t \in CacheSlot, t # s, cacheCall'[t].op = "evict",
               cacheCall'[t].pc \in {"before", "method"}
        PROVE  FALSE
    BY <2>1, <1>2, <1>3 DEF Writes, Moving
  <2> QED
    BY <1>1, <1>4, <2>1 DEF DeletedFirst
<1>8. StoresDatum'
  BY <1>1, <1>3, <1>4 DEF StoresDatum, EntryInv
<1>9. OldOnlyPending'
  <2>1. ASSUME NEW key, Pending(key) PROVE Pending(key)'
    BY <2>1, <1>1, <1>3 DEF Pending, Writes, Moving
  <2> QED
    BY <1>1, <2>1 DEF OldOnlyPending, EntryInv
<1> QED
  BY <1>5, <1>6, <1>7, <1>8, <1>9 DEF EntryInv

LEMMA CacheInvStep ==
  CacheTypeOK /\ CacheInv /\ [CacheNext]_cacheVars => CacheInv'
<1> SUFFICES ASSUME CacheTypeOK, CacheInv, [CacheNext]_cacheVars, cacheCauses' = {}
             PROVE  SoleWriter' /\ LookupsRead' /\ EntryInv'
  BY DEF CacheInv, EntryInv
<1>1. cacheCauses = {}
  BY DEF CacheNext, cacheVars, Invoke, Lookup, Read, Put, Evict, Written, SetKey, DelBefore,
     DelAfter, KeyFails, CacheCallFails, Expire
<1>2. SoleWriter /\ LookupsRead /\ EntryInv
  BY <1>1 DEF CacheInv, EntryInv
<1>3. ASSUME NEW s \in CacheSlot, Own(s) PROVE SoleWriter' /\ LookupsRead'
  BY <1>2, <1>3, OwnKeeps
<1>4. ASSUME NEW s \in CacheSlot, Invoke(s) PROVE SoleWriter' /\ LookupsRead' /\ EntryInv'
  BY <1>2, <1>4, InvokeKeeps
<1>5. ASSUME NEW s \in CacheSlot, Lookup(s) PROVE SoleWriter' /\ LookupsRead' /\ EntryInv'
  <2>1. Own(s)
    BY <1>5, OwnSteps
  <2>2. cacheCall[s].pc = "lookup" /\ cacheCall[s].op = "able"
    BY <1>2, <1>5 DEF Lookup, LookupsRead
  <2>3. cacheCall'[s].op = "able" /\ cacheCall'[s].pc # "store"
    BY <1>5, <2>2 DEF Lookup, CacheEnds, CacheIdle, CacheTypeOK, CacheCallRecords
  <2> QED
    BY <1>2, <1>3, <1>5, <2>1, <2>2, <2>3, QuietKeeps DEF Lookup
<1>6. ASSUME NEW s \in CacheSlot, Read(s) PROVE SoleWriter' /\ LookupsRead' /\ EntryInv'
  <2>1. Own(s)
    BY <1>6, OwnSteps
  <2>2. cacheCall[s].pc = "method" /\ cacheCall[s].op = "able" /\ UNCHANGED <<datum, redis>>
    BY <1>6 DEF Read
  <2>3. /\ cacheCall'[s].op = "able"
        /\ cacheCall'[s].pc = "store" => cacheCall'[s].val = datum
    <3> DEFINE c == cacheCall[s]
               call == [c EXCEPT !.pc = "store", !.left = KeysOf(c.list), !.val = datum]
    <3>1. CacheMoves(s, call) \/ CacheEnds(s)
      BY <1>6 DEF Read
    <3>2. call.op = "able" /\ call.val = datum
      BY <2>2 DEF CacheTypeOK, CacheCallRecords
    <3>3. cacheCall'[s] = CacheIdle \/ cacheCall'[s] = call
      <4> HIDE DEF call
      <4> QED BY <3>1 DEF CacheMoves, CacheEnds, CacheTypeOK
    <3> HIDE DEF call
    <3> QED
      BY <3>2, <3>3 DEF CacheIdle
  <2> QED
    BY <1>2, <1>3, <2>1, <2>2, <2>3, QuietKeeps
<1>7. ASSUME NEW s \in CacheSlot, Put(s) PROVE SoleWriter' /\ LookupsRead' /\ EntryInv'
  <2> DEFINE c == cacheCall[s]
             call == [c EXCEPT !.pc = "store", !.left = KeysOf(c.list), !.val = cacheCalls]
  <2>1. Own(s)
    BY <1>7, OwnSteps
  <2>2. c.pc = "method" /\ c.op = "put" /\ redis' = redis
    BY <1>7 DEF Put, Written
  <2>3. CacheMoves(s, call) /\ datum' = cacheCalls /\ KeysOf(c.list) = CacheKey
    BY <1>1, <1>7 DEF Put, Written
  <2>4. /\ call.pc = "store" /\ call.op = "put" /\ call.left = CacheKey
        /\ call.val = datum'
    BY <2>2, <2>3 DEF CacheTypeOK, CacheCallRecords
  <2>5. IF CacheKey = {} THEN cacheCall'[s] = CacheIdle ELSE cacheCall'[s] = call
    <3> HIDE DEF call
    <3> QED BY <2>3, <2>4 DEF CacheMoves, CacheTypeOK
  <2>6. \/ /\ cacheCall'[s].op = "put" /\ cacheCall'[s].pc = "store"
           /\ cacheCall'[s].left = CacheKey /\ cacheCall'[s].val = datum'
        \/ cacheCall'[s].pc = "idle" /\ cacheCall'[s].op = "able" /\ CacheKey = {}
    <3> HIDE DEF call
    <3> QED BY <2>4, <2>5 DEF CacheIdle
  <2>7. Writes(s)
    BY <2>2 DEF Writes, Moving
  <2> HIDE DEF call
  <2> QED
    BY <1>2, <1>3, <2>1, <2>2, <2>3, <2>6, <2>7, WriteKeeps
<1>8. ASSUME NEW s \in CacheSlot, Evict(s) PROVE SoleWriter' /\ LookupsRead' /\ EntryInv'
  <2> DEFINE c == cacheCall[s]
             call == [c EXCEPT !.pc = "after", !.left = AfterKeys(c.list)]
  <2>1. Own(s)
    BY <1>8, OwnSteps
  <2>2. c.pc = "method" /\ c.op = "evict" /\ redis' = redis
    BY <1>8 DEF Evict, Written
  <2>3. CacheMoves(s, call) /\ KeysOf(c.list) = CacheKey
    BY <1>1, <1>8 DEF Evict, Written
  <2>4. call.pc = "after" /\ call.op = "evict" /\ call.left = AfterKeys(c.list)
    BY <2>2 DEF CacheTypeOK, CacheCallRecords
  <2>5. IF AfterKeys(c.list) = {} THEN cacheCall'[s] = CacheIdle ELSE cacheCall'[s] = call
    <3> HIDE DEF call
    <3> QED BY <2>3, <2>4 DEF CacheMoves, CacheTypeOK
  <2>6. \/ /\ cacheCall'[s].op = "evict" /\ cacheCall'[s].pc = "after"
           /\ cacheCall'[s].left = AfterKeys(c.list)
        \/ cacheCall'[s].pc = "idle" /\ cacheCall'[s].op = "able" /\ AfterKeys(c.list) = {}
    <3> HIDE DEF call
    <3> QED BY <2>4, <2>5 DEF CacheIdle
  <2>7. Writes(s)
    BY <2>2 DEF Writes, Moving
  <2> HIDE DEF call
  <2> QED
    BY <1>2, <1>3, <2>1, <2>2, <2>3, <2>6, <2>7, WriteKeeps
<1>9. ASSUME NEW s \in CacheSlot, SetKey(s) PROVE SoleWriter' /\ LookupsRead' /\ EntryInv'
  <2> DEFINE c == cacheCall[s]
  <2>1. Own(s)
    BY <1>9, OwnSteps
  <2>2. PICK key \in c.left :
          /\ redis' = [redis EXCEPT ![key] = [val |-> c.val, ttl |-> Expires(c.list, key)]]
          /\ CacheMoves(s, [c EXCEPT !.left = c.left \ {key}])
    BY <1>9 DEF SetKey
  <2>3. key \in CacheKey /\ c.pc = "store" /\ c.val = datum /\ datum' = datum
    BY <1>2, <1>9, CallFields DEF SetKey, EntryInv, StoresDatum
  <2>4. \/ cacheCall'[s].pc = "idle" /\ cacheCall'[s].op = "able" /\ c.left = {key}
        \/ /\ cacheCall'[s].left = c.left \ {key}
           /\ cacheCall'[s].pc = c.pc /\ cacheCall'[s].val = c.val
    BY <2>2 DEF CacheMoves, CacheIdle, CacheTypeOK, CacheCallRecords
  <2>5. ~\E t \in CacheSlot : cacheCall'[t].op = "evict" /\ cacheCall'[t].pc \in {"before", "method"}
    BY <1>2, <2>1, <2>3, <2>4 DEF Own, SoleWriter, Writes, Moving
  <2> QED
    BY <1>2, <1>3, <2>1, <2>2, <2>3, <2>4, <2>5, KeyKeeps
<1>10. ASSUME NEW s \in CacheSlot, DelBefore(s) PROVE SoleWriter' /\ LookupsRead' /\ EntryInv'
  <2> DEFINE c == cacheCall[s]
  <2>1. Own(s)
    BY <1>10, OwnSteps
  <2>2. PICK key \in c.left :
          /\ redis' = [redis EXCEPT ![key] = NoEntry]
          /\ cacheCall' = [cacheCall EXCEPT ![s] = [c EXCEPT !.left = c.left \ {key},
               !.pc = IF c.left = {key} THEN "method" ELSE "before"]]
    BY <1>10, DelBeforeWrites
  <2>3. key \in CacheKey /\ c.pc = "before" /\ datum' = datum
    BY <1>10, CallFields DEF DelBefore
  <2>4. \/ /\ cacheCall'[s].left = c.left \ {key}
           /\ cacheCall'[s].pc = c.pc /\ cacheCall'[s].val = c.val
        \/ cacheCall'[s].pc = "method" /\ c.left = {key}
    BY <2>2, <2>3 DEF CacheTypeOK, CacheCallRecords
  <2> QED
    BY <1>2, <1>3, <2>1, <2>2, <2>3, <2>4, KeyKeeps
<1>11. ASSUME NEW s \in CacheSlot, DelAfter(s) PROVE SoleWriter' /\ LookupsRead' /\ EntryInv'
  <2> DEFINE c == cacheCall[s]
  <2>1. Own(s)
    BY <1>11, OwnSteps
  <2>2. PICK key \in c.left :
          /\ redis' = [redis EXCEPT ![key] = NoEntry]
          /\ CacheMoves(s, [c EXCEPT !.left = c.left \ {key}])
    BY <1>11 DEF DelAfter
  <2>3. key \in CacheKey /\ datum' = datum
    BY <1>11, CallFields DEF DelAfter
  <2>4. \/ cacheCall'[s].pc = "idle" /\ c.left = {key}
        \/ /\ cacheCall'[s].left = c.left \ {key}
           /\ cacheCall'[s].pc = c.pc /\ cacheCall'[s].val = c.val
    BY <2>2 DEF CacheMoves, CacheIdle, CacheTypeOK, CacheCallRecords
  <2> QED
    BY <1>2, <1>3, <2>1, <2>2, <2>3, <2>4, KeyKeeps
<1>12. ASSUME NEW s \in CacheSlot, KeyFails(s) PROVE SoleWriter' /\ LookupsRead' /\ EntryInv'
  <2> DEFINE c == cacheCall[s]
  <2>1. Own(s)
    BY <1>12, OwnSteps
  <2>2. c.op = "able" /\ UNCHANGED <<datum, redis>>
    BY <1>1, <1>12 DEF KeyFails
  <2>3. PICK key \in c.left : cacheCall' = [cacheCall EXCEPT ![s] =
          IF c.left # {key} THEN [c EXCEPT !.left = c.left \ {key}]
          ELSE IF c.pc = "before" THEN [c EXCEPT !.pc = "method", !.left = {}] ELSE CacheIdle]
    BY <1>12 DEF KeyFails
  <2>4. cacheCall'[s].op = "able" /\ (cacheCall'[s].pc = "store" => cacheCall'[s].val = datum)
    BY <1>2, <2>2, <2>3 DEF CacheIdle, CacheTypeOK, CacheCallRecords, EntryInv, StoresDatum
  <2> QED
    BY <1>2, <1>3, <2>1, <2>2, <2>4, QuietKeeps DEF Writes
<1>13. ASSUME NEW s \in CacheSlot, CacheCallFails(s)
       PROVE  SoleWriter' /\ LookupsRead' /\ EntryInv'
  <2>1. Own(s)
    BY <1>13, OwnSteps
  <2>2. /\ ~(Writes(s) /\ cacheCall[s].pc \in {"store", "after"})
        /\ UNCHANGED <<datum, redis>>
    BY <1>1, <1>13 DEF CacheCallFails
  <2>3. cacheCall'[s].op = "able" /\ cacheCall'[s].pc = "idle"
    BY <1>13 DEF CacheCallFails, CacheEnds, CacheIdle, CacheTypeOK
  <2> QED
    BY <1>2, <1>3, <2>1, <2>2, <2>3, QuietKeeps
<1>14. ASSUME NEW key \in CacheKey, Expire(key) PROVE SoleWriter' /\ LookupsRead' /\ EntryInv'
  <2>1. \A k \in CacheKey : redis'[k] = IF k = key THEN NoEntry ELSE redis[k]
    BY <1>14 DEF Expire, CacheTypeOK
  <2>2. UNCHANGED <<datum, cacheCall>>
    BY <1>14 DEF Expire
  <2>3. \A s \in CacheSlot : BeforeKeys(cacheCall[s].list) \subseteq CacheKey
    BY KeysOfLists DEF CacheTypeOK, CacheCallRecords
  <2>4. DeletedFirst'
    BY <1>2, <2>1, <2>2, <2>3 DEF DeletedFirst, EntryInv
  <2> QED
    BY <1>2, <2>1, <2>2, <2>4 DEF SoleWriter, LookupsRead, EntryInv, StoresDatum, OldOnlyPending,
       Pending, Writes, Moving
<1>15. CASE UNCHANGED cacheVars
  BY <1>2, <1>15 DEF cacheVars, SoleWriter, LookupsRead, EntryInv, DeletedFirst, StoresDatum,
     OldOnlyPending, Pending, Writes, Moving
<1> QED
  BY <1>4, <1>5, <1>6, <1>7, <1>8, <1>9, <1>10, <1>11, <1>12, <1>13, <1>14, <1>15 DEF CacheNext

\* Without a disturbance writes run alone, and an entry that is not the datum is one
\* that the write in progress still sets or deletes.
THEOREM CacheInvariant == CacheSpec => []CacheInv
<1> QED
  BY CacheInvInit, CacheInvStep, CacheTypeCorrect, PTL DEF CacheSpec

\* FreshUnlessDisturbed: without overlap, lost sets and deletions, foreign results and
\* keys left out, no old entry outlives the write that made it old.
THEOREM CacheFresh == CacheSpec => []FreshUnlessDisturbed
<1>1. CacheInv => FreshUnlessDisturbed
  BY DEF CacheInv, FreshUnlessDisturbed, OldOnlyPending, Pending
<1> QED
  BY <1>1, CacheInvariant, PTL

-----------------------------------------------------------------------------
(* The parts beside each other *)

\* What the parts do beside each other, each does alone.
LEMMA PartsAlone == AdminSpec => DeptSpec /\ DictSpec /\ FormSpec /\ CacheSpec
<1>1. AdminInit => DeptInit /\ DictInit /\ FormInit /\ CacheInit
  BY DEF AdminInit
<1>2. [AdminNext]_AdminVars => /\ [DeptNext]_deptVars /\ [DictNext]_dictVars
                              /\ [FormNext]_formVars /\ [CacheNext]_cacheVars
  BY DEF AdminNext, AdminVars
<1> QED
  BY <1>1, <1>2, PTL DEF AdminSpec, DeptSpec, DictSpec, FormSpec, CacheSpec

\* Every variable of the administration holds a value the code can store in it: rows,
\* entries, calls in progress and the queues of the discovery.
THEOREM AdminTyped == AdminSpec => []AdminTypeOK
BY PartsAlone, DeptsTyped, DictTyped, FormsTyped, CacheTypeCorrect, PTL DEF AdminTypeOK

============================================================================
