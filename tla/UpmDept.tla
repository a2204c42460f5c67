------------------------------ MODULE UpmDept ------------------------------
(***************************************************************************)
(* Departments: the rows of upm_dept, the users' departments, and the calls *)
(* of UpmDeptService and UpmDeptShare, from await to await, in one process. *)
(* Names are left out; the column sort is 0 in every row.                   *)
(***************************************************************************)
EXTENDS Integers, Sequences, FiniteSets, TreeTool

CONSTANTS
  Dept, RootDept,  \* ids, and that of the root department, "-1"
  DeptOrder,       \* the order in which queries return the ids
  NoDept,          \* the parent of a root department that was created
  User,
  DeptSlot,        \* concurrent calls
  DeptMaxCalls     \* bound: calls of several steps

ASSUME DeptAssumption ==
  /\ RootDept \in Dept /\ NoDept \notin Dept
  /\ IsFiniteSet(Dept) /\ IsFiniteSet(DeptSlot)
  /\ DeptOrder \in Seq(Dept) /\ ToSet(DeptOrder) = Dept /\ IsInjective(DeptOrder)
  /\ DeptMaxCalls \in Nat

VARIABLES
  dept,       \* upm_dept
  userDepts,  \* upm_user_dept
  deptCall,   \* the calls in progress
  hung,       \* the process is in a loop that does not end
  raced,      \* ghost: a deletion was once in progress with another call
  unfounded,  \* ghost: a department was once given a parent that was not there
  moves,      \* ghost: what may come between the two statements of a migration
  deptCalls   \* calls so far

deptVars == <<dept, userDepts, deptCall, hung, raced, unfounded, moves, deptCalls>>

-----------------------------------------------------------------------------

DeptRows == [state : {"none", "live", "deleted"}, parent : Dept \cup {NoDept}]

\* ids are the departments asked for; busy: one of them has departments or users
\* below it; left: those whose users are still to be counted.
DeptCallRecords ==
  [op : {"none", "page", "update", "delete", "migrate"},
   pc : {"idle", "exists", "load", "count", "write", "source", "target", "users",
         "add", "remove"},
   ids : SUBSET Dept, left : SUBSET Dept, busy : BOOLEAN,
   to : Dept \cup {NoDept}, users : SUBSET User]

\* mixed: a user was in several departments, or two migrations in progress together;
\* cutOff: users of a migration that ended between its two statements; refused: users
\* whose insertion the key has refused.
Moves == [mixed : BOOLEAN, cutOff : SUBSET User, refused : SUBSET User]

DeptIdle == [op |-> "none", pc |-> "idle", ids |-> {}, left |-> {}, busy |-> FALSE,
             to |-> NoDept, users |-> {}]

LiveDepts == {d \in Dept : dept[d].state = "live"}
Listed == Select(DeptOrder, LiveDepts)
Kids(p) == Select(Listed, {d \in LiveDepts : dept[d].parent = p})

\* No call gives a user a first department, and nothing keeps a user to one.
DeptInit ==
  /\ \E live \in SUBSET (Dept \ {RootDept}), homes \in [User -> (SUBSET Dept) \ {{}}] :
       /\ UNION {homes[u] : u \in User} = live
       /\ dept = [d \in Dept |-> [state |-> IF d \in live THEN "live" ELSE "none",
                                  parent |-> RootDept]]
       /\ userDepts = {ud \in User \X Dept : ud[2] \in homes[ud[1]]}
       /\ moves = [mixed |-> \E u \in User : Cardinality(homes[u]) > 1,
                   cutOff |-> {}, refused |-> {}]
  /\ deptCall = [s \in DeptSlot |-> DeptIdle]
  /\ hung = FALSE /\ raced = FALSE /\ unfounded = FALSE
  /\ deptCalls = 0

Deleting(s) == deptCall[s].op = "delete"
Migrating(s) == deptCall[s].op = "migrate"

\* The users of the migrations of some slots that are between their two statements.
BetweenHomes(ss) ==
  UNION {deptCall[s].users : s \in {t \in ss : Migrating(t) /\ deptCall[t].pc = "add"}}
CutOff(ss) == moves' = [moves EXCEPT !.cutOff = @ \cup BetweenHomes(ss)]

\* tree() creates the root department if findOne has none.  One that was deleted is
\* written again and stays deleted.
GetOrCreateRootDept ==
  /\ dept[RootDept].state = "none"
  /\ dept' = [dept EXCEPT ![RootDept] = [state |-> "live", parent |-> NoDept]]
  /\ UNCHANGED <<userDepts, deptCall, hung, raced, unfounded, moves, deptCalls>>

\* Whether a department of this parent hangs in the air: nothing looks.  The root need
\* not have been created.
Unfounded(parent) ==
  IF parent = RootDept THEN dept[parent].state = "deleted" ELSE parent \notin LiveDepts

SaveDept ==
  /\ \E d \in Dept \ {RootDept}, parent \in Dept :
       /\ dept[d].state = "none"
       /\ parent = RootDept \/ dept[parent].state # "none"
       /\ dept' = [dept EXCEPT ![d] = [state |-> "live", parent |-> parent]]
       /\ unfounded' = (unfounded \/ Unfounded(parent))
  /\ raced' = (raced \/ \E s \in DeptSlot : Deleting(s))
  /\ UNCHANGED <<userDepts, deptCall, hung, moves, deptCalls>>

Call(s, op, pc, ids, to) ==
  /\ deptCall[s] = DeptIdle
  /\ deptCalls < DeptMaxCalls /\ deptCalls' = deptCalls + 1
  /\ deptCall' = [deptCall EXCEPT ![s] =
       [DeptIdle EXCEPT !.op = op, !.pc = pc, !.ids = ids, !.to = to]]
  /\ raced' = (raced \/ \E t \in DeptSlot \ {s} :
                 deptCall[t] # DeptIdle /\ (op = "delete" \/ Deleting(t)))
  /\ moves' = [moves EXCEPT !.mixed = @ \/ (op = "migrate" /\ \E t \in DeptSlot : Migrating(t))]
  /\ UNCHANGED <<dept, userDepts, hung, unfounded>>

\* A page of departments, each with its counts.
ScopePage(s) == \E ids \in SUBSET LiveDepts : ids # {} /\ Call(s, "page", "exists", ids, NoDept)

\* An empty parent becomes the root, also for the root itself.
UpdateDept(s) ==
  \E d \in LiveDepts, parent \in Dept :
    /\ dept[parent].state # "none" \/ parent = RootDept
    /\ Call(s, "update", "exists", {d}, parent)

DeleteDept(s) == \E ids \in SUBSET LiveDepts : ids # {} /\ Call(s, "delete", "exists", ids, NoDept)

MigrateDeptUser(s) ==
  \E source, target \in LiveDepts : Call(s, "migrate", "source", {source}, target)

DeptMoves(s, pc) == deptCall' = [deptCall EXCEPT ![s].pc = pc]
DeptEnds(s) == deptCall' = [deptCall EXCEPT ![s] = DeptIdle]

\* checkExistThrow: an empty table passes, and then finds nothing to update.  Delete
\* checks twice at once and waits for one only: nobody handles the rejection of the
\* other, which ends the process and all calls with it.
CheckExist(s) ==
  LET c == deptCall[s]
      missing == LiveDepts # {} /\ ~(c.ids \subseteq LiveDepts)
  IN
  /\ c.pc = "exists"
  /\ CASE missing /\ c.op = "delete" -> deptCall' = [t \in DeptSlot |-> DeptIdle]
       [] missing /\ c.op # "delete" -> DeptEnds(s)
       [] ~missing /\ c.op = "update" ->
            IF LiveDepts = {} THEN DeptEnds(s) ELSE DeptMoves(s, "write")
       [] OTHER -> DeptMoves(s, "load")
  /\ IF missing /\ c.op = "delete" THEN CutOff(DeptSlot) ELSE UNCHANGED moves
  /\ UNCHANGED <<dept, userDepts, hung, raced, unfounded, deptCalls>>

WriteDept(s) ==
  /\ deptCall[s].pc = "write"
  /\ \E d \in deptCall[s].ids : dept' = [dept EXCEPT ![d].parent = deptCall[s].to]
  /\ unfounded' = (unfounded \/ Unfounded(deptCall[s].to))
  /\ DeptEnds(s)
  /\ UNCHANGED <<userDepts, hung, raced, moves, deptCalls>>

\* Mutant: the direct children only.
WalkDirect(d) == [queue |-> <<>>, found |-> Kids(d)]

\* The walk of getDeptCountTotal below a department: the first of the queue is
\* counted and its children go to the end.  No department is remembered: a queue
\* that is not empty after as many rounds as there are departments never is.
Walk(d) ==
  LET visit == [k \in 1 .. Cardinality(Dept) |-> [at \in [queue : Seq(Dept), found : Seq(Dept)] |->
                 IF at.queue = <<>> THEN at
                 ELSE [queue |-> Tail(at.queue) \o Kids(Head(at.queue)),
                       found |-> Append(at.found, Head(at.queue))]]]
      start == [queue |-> Kids(d), found |-> <<>>]
  IN Repeats(visit, start, Cardinality(Dept))[Cardinality(Dept)]

\* All departments are loaded, and walked without giving way to other calls.  A count
\* is above zero just when its department has children.
LoadDepts(s) ==
  LET ids == deptCall[s].ids IN
  /\ deptCall[s].pc = "load"
  /\ hung' = \E d \in ids : Walk(d).queue # <<>>
  /\ deptCall' = [deptCall EXCEPT ![s].pc = "count", ![s].left = ids,
                                  ![s].busy = \E d \in LiveDepts : dept[d].parent \in ids]
  /\ UNCHANGED <<dept, userDepts, raced, unfounded, moves, deptCalls>>

\* The users of one department are counted; after the last one delete decides.
CountUsers(s) ==
  LET c == deptCall[s] IN
  /\ c.pc = "count"
  /\ \E d \in c.left :
       LET busy == c.busy \/ \E u \in User : <<u, d>> \in userDepts IN
       \/ /\ c.left # {d}
          /\ deptCall' = [deptCall EXCEPT ![s].left = @ \ {d}, ![s].busy = busy]
       \/ /\ c.left = {d}
          /\ IF c.op = "delete" /\ ~busy
             THEN deptCall' = [deptCall EXCEPT ![s].pc = "remove", ![s].left = {}]
             ELSE DeptEnds(s)
  /\ UNCHANGED <<dept, userDepts, hung, raced, unfounded, moves, deptCalls>>

SoftDelete(s) ==
  /\ deptCall[s].pc = "remove" /\ Deleting(s)
  /\ dept' = [d \in Dept |-> IF d \in deptCall[s].ids \cap LiveDepts
                            THEN [dept[d] EXCEPT !.state = "deleted"] ELSE dept[d]]
  /\ DeptEnds(s)
  /\ UNCHANGED <<userDepts, hung, raced, unfounded, moves, deptCalls>>

\* migrateDeptUserThrow looks for the source, then for the target.
CheckSource(s) ==
  /\ deptCall[s].pc = "source"
  /\ IF deptCall[s].ids \subseteq LiveDepts THEN DeptMoves(s, "target") ELSE DeptEnds(s)
  /\ UNCHANGED <<dept, userDepts, hung, raced, unfounded, moves, deptCalls>>

CheckTarget(s) ==
  /\ deptCall[s].pc = "target"
  /\ IF deptCall[s].to \in LiveDepts THEN DeptMoves(s, "users") ELSE DeptEnds(s)
  /\ UNCHANGED <<dept, userDepts, hung, raced, unfounded, moves, deptCalls>>

UsersOf(ids) == {u \in User : \E d \in ids : <<u, d>> \in userDepts}

FindUsers(s) ==
  LET users == UsersOf(deptCall[s].ids) IN
  /\ deptCall[s].pc = "users"
  /\ IF users = {} THEN DeptEnds(s)
     ELSE deptCall' = [deptCall EXCEPT ![s].pc = "remove", ![s].users = users]
  /\ UNCHANGED <<dept, userDepts, hung, raced, unfounded, moves, deptCalls>>

\* Mutant: the source is emptied, whoever is in it by now.
RemoveUsersAll(s) ==
  /\ deptCall[s].pc = "remove" /\ Migrating(s)
  /\ userDepts' = userDepts \ (User \X deptCall[s].ids)
  /\ DeptMoves(s, "add")
  /\ UNCHANGED <<dept, hung, raced, unfounded, moves, deptCalls>>

\* addAndRemove removes first: one statement deletes the rows of the users found.
RemoveUsers(s) ==
  /\ deptCall[s].pc = "remove" /\ Migrating(s)
  /\ userDepts' = userDepts \ (deptCall[s].users \X deptCall[s].ids)
  /\ DeptMoves(s, "add")
  /\ UNCHANGED <<dept, hung, raced, unfounded, moves, deptCalls>>

\* Then one statement inserts their rows of the target, which the key refuses, for all
\* of them, if one is there already.
AddUsers(s) ==
  LET new == deptCall[s].users \X {deptCall[s].to} IN
  /\ deptCall[s].pc = "add"
  /\ \/ /\ new \cap userDepts = {}
        /\ userDepts' = userDepts \cup new
        /\ UNCHANGED moves
     \/ /\ new \cap userDepts # {}
        /\ moves' = [moves EXCEPT !.refused = @ \cup deptCall[s].users]
        /\ UNCHANGED userDepts
  /\ DeptEnds(s)
  /\ UNCHANGED <<dept, hung, raced, unfounded, deptCalls>>

\* A failing query ends a call where it is.
DeptCallFails(s) ==
  /\ deptCall[s] # DeptIdle
  /\ CutOff({s})
  /\ DeptEnds(s)
  /\ UNCHANGED <<dept, userDepts, hung, raced, unfounded, deptCalls>>

DeptNext ==
  /\ ~hung
  /\ \/ GetOrCreateRootDept \/ SaveDept
     \/ \E s \in DeptSlot :
          \/ ScopePage(s) \/ UpdateDept(s) \/ DeleteDept(s) \/ MigrateDeptUser(s)
          \/ CheckExist(s) \/ WriteDept(s)
          \/ LoadDepts(s) \/ CountUsers(s) \/ SoftDelete(s)
          \/ CheckSource(s) \/ CheckTarget(s) \/ FindUsers(s)
          \/ RemoveUsers(s) \/ AddUsers(s)
          \/ DeptCallFails(s)

DeptSpec == DeptInit /\ [][DeptNext]_deptVars

-----------------------------------------------------------------------------
(* Properties *)

\* Every variable holds a value the code can store in it.
DeptTypeOK ==
  /\ dept \in [Dept -> DeptRows]
  /\ userDepts \subseteq User \X Dept
  /\ deptCall \in [DeptSlot -> DeptCallRecords]
  /\ {hung, raced, unfounded} \subseteq BOOLEAN /\ moves \in Moves
  /\ deptCalls \in 0 .. DeptMaxCalls

\* Every live department but a created root has a parent that is there, and users are
\* in live departments.
NothingLeftBehind ==
  /\ \A d \in LiveDepts : dept[d].parent = NoDept \/ ~Unfounded(dept[d].parent)
  /\ \A u \in User, d \in Dept : <<u, d>> \in userDepts => d \in LiveDepts

Placed(u) == \E d \in Dept : <<u, d>> \in userDepts

\* However migrations overlap, only a user that a migration has found leaves its
\* department.  It stays without one if the migration ends before its insertion or the
\* insertion is refused, which takes a user of several departments or migrations that
\* overlap.  And a deleted department leaves no department below it and no user in it,
\* unless a deletion was in progress together with another call, or a department was
\* given a parent that was not there, for which save and update do not look.
NobodyLost ==
  /\ \A u \in User : Placed(u) \/ u \in BetweenHomes(DeptSlot) \cup moves.cutOff \cup moves.refused
  /\ moves.refused = {} \/ moves.mixed
  /\ raced \/ unfounded \/ NothingLeftBehind

\* The functions of the table are judged while no call is in progress: every table
\* is seen then, as any call may end before its next step.
AtRest == \A s \in DeptSlot : deptCall[s] = DeptIdle

\* The live departments above one: those in every set that has its parent and the
\* parents of its members, as far as they are live.
HasParent(ds, d) == dept[d].parent \in LiveDepts => dept[d].parent \in ds
UpClosed == {ds \in SUBSET LiveDepts : \A d \in ds : HasParent(ds, d)}
Above(d) == {a \in LiveDepts : \A ds \in UpClosed : HasParent(ds, d) => a \in ds}

OnCycle(d) == d \in Above(d)

\* The count of a department's descendants is exact, and does not end just when a
\* department on a cycle is among them, such as the root once it is its own parent.
CountsExactly ==
  AtRest => \A d \in LiveDepts :
    LET below == {c \in LiveDepts : d \in Above(c)} IN
    IF Walk(d).queue = <<>>
    THEN ToSet(Walk(d).found) = below /\ Len(Walk(d).found) = Cardinality(below)
    ELSE \E c \in below : OnCycle(c)

\* What tree() shows of the live departments, in some order of the rows.
DeptForest ==
  ToTree(Listed, [d \in Dept |-> dept[d].parent],
         IF RootDept \in LiveDepts THEN dept[RootDept].parent ELSE NoDept)

\* The tree has every live department once, after its parent, but for those on or
\* below a cycle; the path to a department and the tree filtered for it are its
\* ancestors and itself.
TreeFaithful ==
  LET forest == DeptForest
      shown == Flatten(forest)
      place == [d \in ToSet(shown) |-> CHOOSE k \in DOMAIN shown : shown[k] = d]
  IN AtRest =>
     /\ Len(shown) = Cardinality(ToSet(shown))
     /\ \A d \in LiveDepts \ ToSet(shown) :
          \E c \in LiveDepts : OnCycle(c) /\ c \in Above(d) \cup {d}
     /\ \A d \in ToSet(shown) :
          LET path == FindPath(forest, {d}) IN
          /\ Last(path) = d /\ path[1] \in ToSet(forest.roots)
          /\ \A k \in 1 .. Len(path) - 1 :
               dept[path[k + 1]].parent = path[k] /\ place[path[k]] < place[path[k + 1]]
          /\ FindNode(forest, {d}) = <<d>>
          /\ ToSet(Flatten(FilterTree(forest, {d}))) = ToSet(path)

=============================================================================
