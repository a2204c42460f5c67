--------------------------- MODULE CacheDecorator ---------------------------
(***************************************************************************)
(* The decorators cache.able, cache.put and cache.evict of aspen-fram: a    *)
(* read method looks into Redis first and stores its result there, a write  *)
(* method stores its result or deletes keys.  One action is one call to     *)
(* Redis or to the decorated method.                                        *)
(*                                                                          *)
(* The methods here all read or write one datum.  An option names its key   *)
(* as a text, or as a function of the arguments; isEmpty takes functions    *)
(* for empty, so their options are skipped, and as all services give        *)
(* functions nothing of theirs is ever cached.  allEntries is skipped too:  *)
(* isEmpty takes a Boolean for empty.                                       *)
(*                                                                          *)
(* With the option async a read returns before its entry is stored: its     *)
(* call lasts here until that background set has landed or failed, so that  *)
(* the two differ in nothing but who waits.                                 *)
(***************************************************************************)
EXTENDS Integers, Sequences

CONSTANTS
  CacheKey,       \* the keys that are texts, with their name space
  NoEntry,        \* nothing is stored under a key
  CacheSlot,      \* concurrent calls
  CacheMethod,    \* the decorated methods
  MaxCacheCalls   \* bound: calls, and with them versions of the datum

CacheOptions == [key : CacheKey, value : {"text", "function"},
                 expiresIn : {"absent", "number", "text"}, beforeInvocation : BOOLEAN]

ASSUME CacheMethodAssumption ==
  CacheMethod \subseteq [op : {"able", "put", "evict"}, list : Seq(CacheOptions)]

ASSUME CacheBoundAssumption == MaxCacheCalls \in Nat

VARIABLES
  datum,        \* its version in the database, 0 if it is not there
  redis,        \* the entry of each key
  cacheCall,    \* the calls in progress
  cacheCauses,  \* what has happened that may leave an old entry behind
  cacheCalls    \* calls so far

cacheVars == <<datum, redis, cacheCall, cacheCauses, cacheCalls>>

-----------------------------------------------------------------------------

Other == -1  \* a result that is not the datum, such as that of an UPDATE

CacheValues == Other .. MaxCacheCalls

CacheEntries == [val : CacheValues, ttl : BOOLEAN]

CacheLists == {<<>>} \cup {method.list : method \in CacheMethod}

CacheCallRecords ==
  [pc : {"idle", "lookup", "before", "method", "store", "after"}, op : {"able", "put", "evict"},
   list : CacheLists, left : SUBSET CacheKey, val : CacheValues]

CacheIdle == [pc |-> "idle", op |-> "able", list |-> <<>>, left |-> {}, val |-> 0]

\* parseCacheKeyExpressions: the options of a list that are not skipped.
CacheList(list) == {k \in DOMAIN list : list[k].value = "text"}

KeysOf(list) == {list[k].key : k \in CacheList(list)}

\* parseExpiresIn: isEmpty takes a number for empty, so only a text ends an entry.
Expires(list, key) ==
  \E k \in CacheList(list) : list[k].key = key /\ list[k].expiresIn = "text"

BeforeKeys(list) == {list[k].key : k \in {k \in CacheList(list) : list[k].beforeInvocation}}

\* Mutant: the keys that were deleted before are deleted again.
AfterKeysBefore(list) == {list[k].key : k \in {k \in CacheList(list) : list[k].beforeInvocation}}

AfterKeys(list) == {list[k].key : k \in {k \in CacheList(list) : ~list[k].beforeInvocation}}

CacheInit ==
  /\ datum = 0
  /\ redis = [k \in CacheKey |-> NoEntry]
  /\ cacheCall = [s \in CacheSlot |-> CacheIdle]
  /\ cacheCauses = {}
  /\ cacheCalls = 0

Moving(s) == cacheCall[s].pc # "idle"
Writes(s) == Moving(s) /\ cacheCall[s].op # "able"

CacheEnds(s) == cacheCall' = [cacheCall EXCEPT ![s] = CacheIdle]

\* The call goes on with the keys in left, if there are any.
CacheMoves(s, call) ==
  cacheCall' = [cacheCall EXCEPT ![s] = IF call.left = {} THEN CacheIdle ELSE call]

\* A read looks its keys up, a deletion may delete keys first, a put runs its method.
Invoke(s) ==
  \E method \in CacheMethod :
    LET list == method.list
        call == [CacheIdle EXCEPT !.op = method.op, !.list = list]
    IN
    /\ ~Moving(s)
    /\ cacheCalls < MaxCacheCalls /\ cacheCalls' = cacheCalls + 1
    /\ cacheCall' = [cacheCall EXCEPT ![s] =
         CASE method.op = "able" /\ KeysOf(list) # {} ->
                [call EXCEPT !.pc = "lookup", !.left = KeysOf(list)]
           [] method.op = "evict" /\ BeforeKeys(list) # {} ->
                [call EXCEPT !.pc = "before", !.left = BeforeKeys(list)]
           [] OTHER -> [call EXCEPT !.pc = "method"]]
    /\ cacheCauses' = cacheCauses \cup
         IF \E o \in CacheSlot : Moving(o) /\ (Writes(o) \/ method.op # "able")
         THEN {"overlap"} ELSE {}
    /\ UNCHANGED <<datum, redis>>

FirstKey(c) ==
  LET left == {k \in CacheList(c.list) : c.list[k].key \in c.left}
  IN c.list[CHOOSE k \in left : \A j \in left : k <= j].key

\* The keys are looked up in their order, and the first entry is the result.
Lookup(s) ==
  LET c == cacheCall[s]  left == c.left \ {FirstKey(c)} IN
  /\ c.pc = "lookup"
  /\ IF redis[FirstKey(c)] # NoEntry THEN CacheEnds(s)
     ELSE cacheCall' = [cacheCall EXCEPT ![s].left = left,
                                         ![s].pc = IF left = {} THEN "method" ELSE "lookup"]
  /\ UNCHANGED <<datum, redis, cacheCauses, cacheCalls>>

\* A read stores what it has read, unless that is null.
Read(s) ==
  LET c == cacheCall[s] IN
  /\ c.pc = "method" /\ c.op = "able"
  /\ IF datum = 0 THEN CacheEnds(s)
     ELSE CacheMoves(s, [c EXCEPT !.pc = "store", !.left = KeysOf(c.list), !.val = datum])
  /\ UNCHANGED <<datum, redis, cacheCauses, cacheCalls>>

\* A written datum has a version of its own.  Keys that other methods read and this
\* one does not name keep what they have.
Written(s, version, keys, causes) ==
  /\ datum' = version
  /\ cacheCauses' = cacheCauses \cup causes \cup IF keys = CacheKey THEN {} ELSE {"uncovered"}
  /\ UNCHANGED <<redis, cacheCalls>>

\* A put stores what its method returns: the datum, nothing, or something else.
Put(s) ==
  LET c == cacheCall[s] IN
  /\ c.pc = "method" /\ c.op = "put"
  /\ \/ /\ CacheMoves(s, [c EXCEPT !.pc = "store", !.left = KeysOf(c.list), !.val = cacheCalls])
        /\ Written(s, cacheCalls, KeysOf(c.list), {})
     \/ /\ CacheMoves(s, [c EXCEPT !.pc = "store", !.left = KeysOf(c.list), !.val = Other])
        /\ Written(s, cacheCalls, KeysOf(c.list), {"result"})
     \/ CacheEnds(s) /\ Written(s, cacheCalls, KeysOf(c.list), {"result"})

\* An update or a deletion, whose result is not looked at.
Evict(s) ==
  LET c == cacheCall[s] IN
  /\ c.pc = "method" /\ c.op = "evict"
  /\ CacheMoves(s, [c EXCEPT !.pc = "after", !.left = AfterKeys(c.list)])
  /\ \E version \in {0, cacheCalls} : Written(s, version, KeysOf(c.list), {})

SetKey(s) ==
  LET c == cacheCall[s] IN
  /\ c.pc = "store"
  /\ \E key \in c.left :
       /\ redis' = [redis EXCEPT ![key] = [val |-> c.val, ttl |-> Expires(c.list, key)]]
       /\ CacheMoves(s, [c EXCEPT !.left = @ \ {key}])
  /\ UNCHANGED <<datum, cacheCauses, cacheCalls>>

DelBefore(s) ==
  LET c == cacheCall[s] IN
  /\ c.pc = "before"
  /\ \E key \in c.left :
       /\ redis' = [redis EXCEPT ![key] = NoEntry]
       /\ cacheCall' = [cacheCall EXCEPT ![s].left = @ \ {key},
                                         ![s].pc = IF c.left = {key} THEN "method" ELSE "before"]
  /\ UNCHANGED <<datum, cacheCauses, cacheCalls>>

DelAfter(s) ==
  LET c == cacheCall[s] IN
  /\ c.pc = "after"
  /\ \E key \in c.left :
       /\ redis' = [redis EXCEPT ![key] = NoEntry]
       /\ CacheMoves(s, [c EXCEPT !.left = @ \ {key}])
  /\ UNCHANGED <<datum, cacheCauses, cacheCalls>>

\* A set or deletion fails, which allSettled hides.
KeyFails(s) ==
  LET c == cacheCall[s] IN
  /\ c.pc \in {"before", "store", "after"}
  /\ \E key \in c.left :
       cacheCall' = [cacheCall EXCEPT ![s] =
         IF c.left # {key} THEN [c EXCEPT !.left = @ \ {key}]
         ELSE IF c.pc = "before" THEN [c EXCEPT !.pc = "method", !.left = {}] ELSE CacheIdle]
  /\ cacheCauses' = cacheCauses \cup IF c.op = "able" THEN {} ELSE {"lost"}
  /\ UNCHANGED <<datum, redis, cacheCalls>>

\* A call ends where it is: the lookup or the method throws, or its process ends; a
\* writing method may have written by then.
CacheCallFails(s) ==
  /\ Moving(s)
  /\ CacheEnds(s)
  /\ \/ /\ cacheCauses' = cacheCauses \cup
             IF Writes(s) /\ cacheCall[s].pc \in {"store", "after"} THEN {"lost"} ELSE {}
        /\ UNCHANGED datum
     \/ /\ Writes(s) /\ cacheCall[s].pc = "method"
        /\ datum' = cacheCalls
        /\ cacheCauses' = cacheCauses \cup {"lost"}
  /\ UNCHANGED <<redis, cacheCalls>>

\* EX: the entry goes by itself.
Expire(key) ==
  /\ redis[key] # NoEntry /\ redis[key].ttl
  /\ redis' = [redis EXCEPT ![key] = NoEntry]
  /\ UNCHANGED <<datum, cacheCall, cacheCauses, cacheCalls>>

CacheNext ==
  \/ \E s \in CacheSlot :
       \/ Invoke(s) \/ Lookup(s) \/ Read(s) \/ Put(s) \/ Evict(s)
       \/ SetKey(s) \/ DelBefore(s) \/ DelAfter(s)
       \/ KeyFails(s) \/ CacheCallFails(s)
  \/ \E key \in CacheKey : Expire(key)

CacheSpec == CacheInit /\ [][CacheNext]_cacheVars

-----------------------------------------------------------------------------
(* Properties *)

\* Every variable holds a value the code can store in it.
CacheTypeOK ==
  /\ datum \in 0 .. MaxCacheCalls
  /\ redis \in [CacheKey -> CacheEntries \cup {NoEntry}]
  /\ cacheCall \in [CacheSlot -> CacheCallRecords]
  /\ cacheCauses \subseteq {"overlap", "lost", "result", "uncovered"}
  /\ cacheCalls \in 0 .. MaxCacheCalls

\* While no write is in progress every entry is the datum as it is, deleted data
\* having none, unless a write once overlapped another call, lost its set or deletion,
\* returned something else than the datum or did not name every key: methods that throw
\* before they have written, failing reads and expiry alone leave nothing old.
FreshUnlessDisturbed ==
  cacheCauses = {} /\ (\A s \in CacheSlot : ~Writes(s))
    => \A key \in CacheKey : redis[key] # NoEntry => redis[key].val = datum

-----------------------------------------------------------------------------
(* The inductive invariant behind FreshUnlessDisturbed *)

\* Without overlap a write is alone.
SoleWriter == \A s, t \in CacheSlot : Writes(s) /\ Moving(t) => s = t

\* Only reads look keys up.
LookupsRead == \A s \in CacheSlot : cacheCall[s].pc = "lookup" => cacheCall[s].op = "able"

\* A deletion has deleted the keys that come first, or is about to.
DeletedFirst ==
  \A s \in CacheSlot :
    cacheCall[s].op = "evict" /\ cacheCall[s].pc \in {"before", "method"}
      => \A key \in BeforeKeys(cacheCall[s].list) :
           redis[key] = NoEntry \/ (cacheCall[s].pc = "before" /\ key \in cacheCall[s].left)

\* What is about to be stored is the datum.
StoresDatum == \A s \in CacheSlot : cacheCall[s].pc = "store" => cacheCall[s].val = datum

\* A call that has written and will set or delete the key.
Pending(key) ==
  \E s \in CacheSlot :
    Writes(s) /\ cacheCall[s].pc \in {"store", "after"} /\ key \in cacheCall[s].left

OldOnlyPending ==
  \A key \in CacheKey : redis[key] # NoEntry => redis[key].val = datum \/ Pending(key)

CacheInv ==
  cacheCauses = {} => SoleWriter /\ LookupsRead /\ DeletedFirst /\ StoresDatum /\ OldOnlyPending

=============================================================================
