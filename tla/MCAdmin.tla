------------------------------ MODULE MCAdmin ------------------------------
(* Instances of UpmDept, DictSync, AdminForms and CacheDecorator for TLC.    *)
(* They share no state: a behaviour moves one of them and leaves the others as they began. *)
EXTENDS UpmDept, DictSync, AdminForms, CacheDecorator

CONSTANTS root, deptA, deptB, deptC, p1, p2, s1, s2, r1, r2

MCDept == {root, deptA, deptB, deptC}
MCDeptOrder == <<root, deptA, deptB, deptC>>
MCSlot == {s1, s2}

\* The users, the instances of the dictionaries and the keys of the forms: one pair, as no
\* two parts move together, and so one permutation.
MCPair == {p1, p2}

MCDictCode == {"c", "d"}
MCItemCode == {"x", "y"}
MCItemValue == {1, 2}
MCVersion == {1, 2}

Announced(code, its) == [code |-> code, items |-> its]

MCDeclared ==
  << <<Announced("c", "x" :> 1), Announced("c", "x" :> 2 @@ "y" :> 1)>>,
     <<Announced("c", "x" :> 1), Announced("d", "y" :> 2)>> >>

MCCacheKey == {r1, r2}

Option(key, value, expiresIn, before) ==
  [key |-> key, value |-> value, expiresIn |-> expiresIn, beforeInvocation |-> before]

\* Methods that name both keys, one of them, or, as the services do, a function.
MCCacheMethod ==
  {[op |-> op, list |-> <<Option(r1, "text", "text", TRUE), Option(r2, value, "number", FALSE)>>] :
     op \in {"able", "put", "evict"}, value \in {"text", "function"}}
  \cup {[op |-> "able", list |-> <<Option(r1, "function", "text", FALSE)>>]}

MCSymmetry == Permutations({deptA, deptB, deptC}) \cup Permutations(MCPair) \cup Permutations(MCSlot)

VARIABLE part  \* the one that moves

AdminVars == <<part, deptVars, dictVars, formVars, cacheVars>>

AdminInit ==
  /\ part \in {"dept", "dict", "forms", "cache"}
  /\ DeptInit /\ DictInit /\ FormInit /\ CacheInit
  /\ Cardinality(LiveDepts) \in IF part = "dept" THEN {1, 2} ELSE {1}
  /\ part # "forms" => formTables = {"role"}

AdminNext ==
  /\ part' = part
  /\ \/ part = "dept" /\ DeptNext /\ UNCHANGED <<dictVars, formVars, cacheVars>>
     \/ part = "dict" /\ DictNext /\ UNCHANGED <<deptVars, formVars, cacheVars>>
     \/ part = "forms" /\ FormNext /\ UNCHANGED <<deptVars, dictVars, cacheVars>>
     \/ part = "cache" /\ CacheNext /\ UNCHANGED <<deptVars, dictVars, formVars>>

AdminSpec == AdminInit /\ [][AdminNext]_AdminVars

\* Every variable holds a value the code can store in it: rows, entries, calls
\* in progress and the queues of the discovery.
AdminTypeOK == DeptTypeOK /\ DictTypeOK /\ FormTypeOK /\ CacheTypeOK

=============================================================================
