----------------------------- MODULE AdminForms -----------------------------
(***************************************************************************)
(* The forms of the administration: roles, menus, file categories, file     *)
(* configurations, task categories and tasks are saved, edited and deleted  *)
(* by services that look first and write later.  One action is the code     *)
(* between two awaits.  The decorators of the cache add nothing: they drop  *)
(* every key that is given as a function, as all keys are.                  *)
(***************************************************************************)
EXTENDS Integers, Sequences

CONSTANTS
  FormKey,       \* names, codes and paths
  NoKey,         \* no path, no code
  FormSlot,      \* concurrent calls
  MaxFormCalls   \* bound: calls

ASSUME FormAssumption == NoKey \notin FormKey /\ MaxFormCalls \in Nat

VARIABLES
  rows,       \* the tables; the id of a row is its position
  formTables, \* the tables this behaviour follows: only task and its category share rows
  formCall,   \* the calls in progress
  formGhost,  \* what the properties look back at
  formCalls   \* calls so far

formVars == <<rows, formTables, formCall, formGhost, formCalls>>

-----------------------------------------------------------------------------

FormTables == {"role", "menu", "fileCategory", "fileConfig", "taskCategory", "task"}

MaybeKey == FormKey \cup {NoKey}

Types == {"CATALOGUE", "MENU", "FILE", "MINIO", "none"}

TypesOf(t) == CASE t = "menu" -> {"CATALOGUE", "MENU"}
                [] t = "fileConfig" -> {"FILE", "MINIO"}
                [] OTHER -> {"none"}

\* A path is a name here; category is that of a task, 0 if it has none.
FormRows == [table : FormTables, live : BOOLEAN, name : MaybeKey, code : MaybeKey,
             type : Types, category : Nat]

WithCode == {"role", "task", "fileConfig"}

\* What a call was asked to write.
Asks == [name : MaybeKey, code : MaybeKey, type : Types, category : Nat]

\* The steps of a call, those it takes being taken in this order.
FormSteps == <<"exists", "name", "code", "category", "generate", "write", "sync",
               "find", "used", "unsync", "drop">>

StepNames == {FormSteps[k] : k \in DOMAIN FormSteps}

NoAsk == [name |-> NoKey, code |-> NoKey, type |-> "none", category |-> 0]

\* id is 0 in a save; todo are the steps to come.
FormIdle == [op |-> "none", table |-> "role", id |-> 0, ids |-> {}, todo |-> {}, ask |-> NoAsk]

FormCalls == [op : {"none", "write", "delete"}, table : FormTables, id : Nat,
              ids : SUBSET Nat, todo : SUBSET StepNames, ask : Asks]

\* overlapped: tables two of whose saves and edits were once in progress together;
\* crossed: a deletion of categories was once with a save or edit of a task.
FormInit ==
  /\ rows = <<>>
  /\ formTables \in {{"task", "taskCategory"}, {"role"}, {"menu"}, {"fileCategory"}, {"fileConfig"}}
  /\ formCall = [s \in FormSlot |-> FormIdle]
  /\ formGhost = [overlapped |-> {}, crossed |-> FALSE]
  /\ formCalls = 0

RowsOf(t) == {r \in DOMAIN rows : rows[r].table = t}
LiveRows(t) == {r \in RowsOf(t) : rows[r].live}

\* The steps a service takes for a save (id 0) or an edit.  Checks of single fields
\* and the handlers' names only refuse and are left out.
WritingSteps(t, id, ask) ==
  {"name", "write"}
    \cup {step \in {"exists"} : id # 0 /\ t \in {"role", "taskCategory", "task"}}
    \cup {step \in {"code"} : t \in {"role", "task"}}
    \cup {step \in {"category"} : ask.category # 0}
    \cup {step \in {"generate"} : t = "fileConfig" /\ id = 0}
    \cup {step \in {"sync"} : t = "task"}

\* Mutant: categories are deleted whether they are used or not.
DeletingStepsUnused(t) ==
  {"find", "drop"} \cup {step \in {"unsync"} : t = "task"}

DeletingSteps(t) ==
  {"find", "drop"} \cup {step \in {"used"} : t = "taskCategory"}
                  \cup {step \in {"unsync"} : t = "task"}

Writing(c, t) == c.op = "write" /\ c.table = t
Dropping(c, t) == c.op = "delete" /\ c.table = t

FormStart(s, c) ==
  LET others == {formCall[o] : o \in FormSlot \ {s}}
      against(t, u) == Writing(c, t) /\ \E o \in others : Dropping(o, u)
      beside(t, u) == Dropping(c, u) /\ \E o \in others : Writing(o, t)
  IN
  /\ formCall[s] = FormIdle
  /\ formCalls < MaxFormCalls /\ formCalls' = formCalls + 1
  /\ formCall' = [formCall EXCEPT ![s] = c]
  /\ formGhost' =
       [overlapped |-> formGhost.overlapped
                         \cup {t \in {c.table} : \E o \in others : Writing(c, t) /\ Writing(o, t)},
        crossed |-> formGhost.crossed \/ against("task", "taskCategory")
                                      \/ beside("task", "taskCategory")]
  /\ UNCHANGED <<rows, formTables>>

\* Forms offer rows and categories that have been there.  Only the path of a menu may
\* be missing, and only roles and tasks have a code to fill in.
SaveOrEdit(s) ==
  \E t \in formTables : \E id \in {0} \cup RowsOf(t),
     ask \in [name : IF t = "menu" THEN MaybeKey ELSE FormKey,
             code : IF t \in {"role", "task"} THEN FormKey ELSE {NoKey},
             type : TypesOf(t),
             category : {0} \cup IF t = "task" THEN RowsOf("taskCategory") ELSE {}] :
       FormStart(s, [op |-> "write", table |-> t, id |-> id, ids |-> {},
                     todo |-> WritingSteps(t, id, ask), ask |-> ask])

DelByIds(s) ==
  \E t \in formTables : \E ids \in SUBSET RowsOf(t) :
    /\ ids # {}
    /\ FormStart(s, [op |-> "delete", table |-> t, id |-> 0, ids |-> ids,
                     todo |-> DeletingSteps(t), ask |-> NoAsk])

AtStep(s, step) ==
  /\ step \in formCall[s].todo
  /\ \E k \in DOMAIN FormSteps :
       FormSteps[k] = step /\ \A i \in 1 .. k - 1 : FormSteps[i] \notin formCall[s].todo

FormEnds(s) == formCall' = [formCall EXCEPT ![s] = FormIdle]
FormMoves(s, step) ==
  IF formCall[s].todo = {step} THEN FormEnds(s)
  ELSE formCall' = [formCall EXCEPT ![s].todo = @ \ {step}]

FormKeeps == UNCHANGED <<rows, formTables, formGhost, formCalls>>

\* A check lets the call go on or ends it with an error.
FormCheck(s, step, passes) ==
  /\ AtStep(s, step)
  /\ IF passes THEN FormMoves(s, step) ELSE FormEnds(s)
  /\ FormKeeps

CheckRow(s) == FormCheck(s, "exists", formCall[s].id \in LiveRows(formCall[s].table))

\* Mutant: of the rows only the deleted ones count.
IsDuplicateDeleted(t, id, column, key) ==
  key # NoKey /\ \E r \in RowsOf(t) \ {id} : ~rows[r].live /\ rows[r][column] = key

\* Another row that is not deleted has the key; the path null equals nothing.
IsDuplicate(t, id, column, key) ==
  key # NoKey /\ \E r \in LiveRows(t) \ {id} : rows[r][column] = key

Duplicates(s, column) ==
  IsDuplicate(formCall[s].table, formCall[s].id, column, formCall[s].ask[column])

CheckName(s) == FormCheck(s, "name", ~Duplicates(s, "name"))
CheckCode(s) == FormCheck(s, "code", ~Duplicates(s, "code"))
CheckCategory(s) == FormCheck(s, "category", formCall[s].ask.category \in LiveRows("taskCategory"))

\* generateUniqueCode draws codes until one is not in use.
GenerateUniqueCode(s) ==
  /\ AtStep(s, "generate")
  /\ \E key \in FormKey :
       IF IsDuplicate("fileConfig", 0, "code", key) THEN UNCHANGED formCall
       ELSE formCall' = [formCall EXCEPT ![s].ask.code = key, ![s].todo = @ \ {"generate"}]
  /\ FormKeeps

\* Mutant: a code that the form does not give is cleared.
EditedClearing(row, ask) ==
  [row EXCEPT !.name = IF ask.type = "CATALOGUE" THEN NoKey ELSE IF ask.name = NoKey THEN @ ELSE ask.name,
              !.code = ask.code,
              !.type = ask.type,
              !.category = IF ask.category = 0 THEN @ ELSE ask.category]

\* An edit leaves columns alone that its form does not give; that of a catalogue
\* clears the path, after the check.
Edited(row, ask) ==
  [row EXCEPT !.name = IF ask.type = "CATALOGUE" THEN NoKey ELSE IF ask.name = NoKey THEN @ ELSE ask.name,
              !.code = IF ask.code = NoKey THEN @ ELSE ask.code,
              !.type = ask.type,
              !.category = IF ask.category = 0 THEN @ ELSE ask.category]

UniqueColumns(t) == CASE t = "task" -> {"code"}
                      [] t = "fileConfig" -> {"code", "type"}
                      [] OTHER -> {}

\* The row is written, deleted or not, unless a unique key, which deleted rows have
\* too, refuses it.
WriteRow(s) ==
  LET c == formCall[s]
      refused == \E column \in UniqueColumns(c.table), r \in RowsOf(c.table) \ {c.id} :
                   rows[r][column] = c.ask[column]
  IN
  /\ AtStep(s, "write")
  /\ IF refused THEN FormEnds(s) /\ UNCHANGED rows
     ELSE /\ FormMoves(s, "write")
          /\ rows' = IF c.id # 0 THEN [rows EXCEPT ![c.id] = Edited(@, c.ask)]
                     ELSE Append(rows, [table |-> c.table, live |-> TRUE, name |-> c.ask.name,
                                        code |-> c.ask.code, type |-> c.ask.type,
                                        category |-> c.ask.category])
  /\ UNCHANGED <<formTables, formGhost, formCalls>>

\* syncTask and removeTask, which QuartzSync has; when they fail the row stays.
SyncRow(s) == FormCheck(s, "sync", TRUE) \/ FormCheck(s, "unsync", TRUE)

FindRows(s) ==
  LET found == formCall[s].ids \cap LiveRows(formCall[s].table) IN
  /\ AtStep(s, "find")
  /\ IF found = {} THEN FormEnds(s)
     ELSE formCall' = [formCall EXCEPT ![s].ids = found, ![s].todo = @ \ {"find"}]
  /\ FormKeeps

CountTasks(s) ==
  FormCheck(s, "used", ~\E r \in LiveRows("task") : rows[r].category \in formCall[s].ids)

DropRows(s) ==
  /\ AtStep(s, "drop")
  /\ rows' = [r \in DOMAIN rows |->
                IF r \in formCall[s].ids THEN [rows[r] EXCEPT !.live = FALSE] ELSE rows[r]]
  /\ FormEnds(s)
  /\ UNCHANGED <<formTables, formGhost, formCalls>>

\* A failing query ends a call where it is.
FormCallFails(s) == formCall[s] # FormIdle /\ FormEnds(s) /\ FormKeeps

FormNext ==
  \E s \in FormSlot :
    \/ SaveOrEdit(s) \/ DelByIds(s)
    \/ CheckRow(s) \/ CheckName(s) \/ CheckCode(s) \/ CheckCategory(s) \/ GenerateUniqueCode(s)
    \/ WriteRow(s) \/ SyncRow(s)
    \/ FindRows(s) \/ CountTasks(s) \/ DropRows(s)
    \/ FormCallFails(s)

FormSpec == FormInit /\ [][FormNext]_formVars

-----------------------------------------------------------------------------
(* Properties *)

\* Every variable holds a value the code can store in it.
FormTypeOK ==
  /\ rows \in Seq(FormRows)
  /\ \A r \in DOMAIN rows :
       /\ rows[r].type \in TypesOf(rows[r].table)
       /\ rows[r].name = NoKey => rows[r].table = "menu"
       /\ rows[r].code = NoKey <=> rows[r].table \notin WithCode
  /\ formTables \subseteq FormTables
  /\ formCall \in [FormSlot -> FormCalls]
  /\ \A s \in FormSlot :
       {formCall[s].id} \cup formCall[s].ids \subseteq {0} \cup RowsOf(formCall[s].table)
  /\ formGhost \in [overlapped : SUBSET FormTables, crossed : BOOLEAN]
  /\ formCalls \in 0 .. MaxFormCalls

\* No two rows of a table have one name, code or path, unless two calls that write
\* the table overlapped; the codes of tasks and of file configurations, deleted ones
\* too, differ in any case.
KeysUniqueUnlessOverlapped ==
  \A t \in FormTables : \A r, q \in RowsOf(t) :
    r # q =>
      /\ t \in formGhost.overlapped \/ ~rows[r].live \/ ~rows[q].live
         \/ \A column \in {"name", "code"} :
              rows[r][column] = NoKey \/ rows[r][column] # rows[q][column]
      /\ t \in {"task", "fileConfig"} => rows[r].code # rows[q].code

\* The category of a task is there, unless a deletion of categories was in progress
\* together with a call that writes a task.
CategoryKeptUnlessCrossed ==
  formGhost.crossed
  \/ \A r \in LiveRows("task") : rows[r].category \in {0} \cup LiveRows("taskCategory")

=============================================================================
