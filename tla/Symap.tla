------------------------------- MODULE Symap -------------------------------
(***************************************************************************)
(* The URI map of a plugin: strings numbered from 1 on, and an index of    *)
(* the numbers sorted by their strings that is searched by halving.  A     *)
(* plugin maps and unmaps from any of its threads; a semaphore is the lock *)
(* around each call.  A thread's step is one comparison, or one of the two *)
(* halves of an insertion.                                                 *)
(*                                                                         *)
(* A string is its rank in the order of strcmp().                          *)
(***************************************************************************)
EXTENDS Integers, Sequences

CONSTANTS Threads,   \* the threads that call the plugin's map and unmap
          Strings,   \* what they may map
          NULL       \* no string

ASSUME SymapAssumption ==
    /\ Strings \subseteq Int
    /\ NULL \notin Int

VARIABLES
    symbols,     \* map->symbols: the string of id i is the i-th
    index,       \* map->index: the ids from 0 on, sorted by their strings
    symap_lock,  \* the semaphore's count
    pc,          \* where each thread is
    sym,         \* what it maps, or the id it unmaps
    lower, upper, i,   \* its search
    answer       \* what its call returned

searchVars == <<lower, upper, i>>
mapVars == <<symbols, index>>
vars == <<mapVars, symap_lock, pc, sym, searchVars, answer>>

size == Len(symbols)

Init ==
    /\ symbols = << >>
    /\ index = [k \in {} |-> 0]
    /\ symap_lock = 1
    /\ pc = [t \in Threads |-> "idle"]
    /\ sym = [t \in Threads |-> 0]
    /\ lower = [t \in Threads |-> 0]
    /\ upper = [t \in Threads |-> 0]
    /\ i = [t \in Threads |-> 0]
    /\ answer = [t \in Threads |-> NULL]

Goto(t, where) == pc' = [pc EXCEPT ![t] = where]
-----------------------------------------------------------------------------
(* map_uri() and unmap_uri(): wait for the lock, call, post it.            *)

MapUri(t, s) ==
    /\ pc[t] = "idle"
    /\ sym' = [sym EXCEPT ![t] = s]
    /\ answer' = [answer EXCEPT ![t] = NULL]
    /\ Goto(t, "lock_map")
    /\ UNCHANGED <<mapVars, symap_lock, searchVars>>

UnmapUri(t, id) ==
    /\ pc[t] = "idle"
    /\ sym' = [sym EXCEPT ![t] = id]
    /\ answer' = [answer EXCEPT ![t] = NULL]
    /\ Goto(t, "lock_unmap")
    /\ UNCHANGED <<mapVars, symap_lock, searchVars>>

(* Faulty: the call does not wait for its turn.                            *)
SemWaitNot(t) ==
    /\ UNCHANGED symap_lock
    /\ \/ pc[t] = "lock_map" /\ Goto(t, "search")
       \/ pc[t] = "lock_unmap" /\ Goto(t, "unmap")
    /\ UNCHANGED <<mapVars, sym, searchVars, answer>>

\* zix_sem_wait(): a wait that a signal interrupts is begun again.
SemWait(t) ==
    /\ symap_lock > 0
    /\ symap_lock' = symap_lock - 1
    /\ \/ pc[t] = "lock_map" /\ Goto(t, "search")
       \/ pc[t] = "lock_unmap" /\ Goto(t, "unmap")
    /\ UNCHANGED <<mapVars, sym, searchVars, answer>>

\* zix_sem_post(); the locals of the search go with the call.
SemPost(t) ==
    /\ pc[t] = "unlock"
    /\ symap_lock' = symap_lock + 1
    /\ Goto(t, "idle")
    /\ lower' = [lower EXCEPT ![t] = 0]
    /\ upper' = [upper EXCEPT ![t] = 0]
    /\ i' = [i EXCEPT ![t] = 0]
    /\ UNCHANGED <<mapVars, sym, answer>>
-----------------------------------------------------------------------------
(* symap_search(): an empty map and a string behind the last need no       *)
(* search ...                                                              *)

At(k) == symbols[index[k]]

SearchEmpty(t) ==
    /\ pc[t] = "search" /\ size = 0
    /\ i' = [i EXCEPT ![t] = 0]
    /\ Goto(t, "append")
    /\ UNCHANGED <<mapVars, symap_lock, sym, lower, upper, answer>>

SearchLast(t) ==
    /\ pc[t] = "search" /\ size > 0
    /\ At(size - 1) < sym[t]
    /\ i' = [i EXCEPT ![t] = size]
    /\ Goto(t, "append")
    /\ UNCHANGED <<mapVars, symap_lock, sym, lower, upper, answer>>

SearchBegin(t) ==
    /\ pc[t] = "search" /\ size > 0
    /\ At(size - 1) >= sym[t]
    /\ lower' = [lower EXCEPT ![t] = 0]
    /\ upper' = [upper EXCEPT ![t] = size - 1]
    /\ i' = [i EXCEPT ![t] = size - 1]
    /\ Goto(t, "loop")
    /\ UNCHANGED <<mapVars, symap_lock, sym, answer>>

(* ... otherwise the middle of what is left is compared until it is the    *)
(* string, or nothing is left; the place of a new string is then i.        *)

Middle(t) == lower[t] + (upper[t] - lower[t]) \div 2

Hit(t) ==
    /\ pc[t] = "loop" /\ upper[t] >= lower[t]
    /\ At(Middle(t)) = sym[t]
    /\ answer' = [answer EXCEPT ![t] = index[Middle(t)]]
    /\ Goto(t, "unlock")
    /\ UNCHANGED <<mapVars, symap_lock, sym, searchVars>>

GoLower(t) ==
    /\ pc[t] = "loop" /\ upper[t] >= lower[t]
    /\ At(Middle(t)) > sym[t]
    /\ i' = [i EXCEPT ![t] = Middle(t)]
    /\ \/ Middle(t) = 0 /\ Goto(t, "append") /\ UNCHANGED upper
       \/ Middle(t) > 0 /\ upper' = [upper EXCEPT ![t] = Middle(t) - 1] /\ UNCHANGED pc
    /\ UNCHANGED <<mapVars, symap_lock, sym, lower, answer>>

(* Faulty: i stays behind, as by lower = i + 1.                            *)
GoUpperBehind(t) ==
    /\ pc[t] = "loop" /\ upper[t] >= lower[t]
    /\ At(Middle(t)) < sym[t]
    /\ i' = [i EXCEPT ![t] = Middle(t)]
    /\ lower' = [lower EXCEPT ![t] = Middle(t) + 1]
    /\ UNCHANGED <<mapVars, symap_lock, pc, sym, upper, answer>>

(* Faulty: the middle stays in what is left, as by lower = i.              *)
GoUpperStuck(t) ==
    /\ pc[t] = "loop" /\ upper[t] >= lower[t]
    /\ At(Middle(t)) < sym[t]
    /\ i' = [i EXCEPT ![t] = Middle(t)]
    /\ lower' = [lower EXCEPT ![t] = Middle(t)]
    /\ UNCHANGED <<mapVars, symap_lock, pc, sym, upper, answer>>

GoUpper(t) ==
    /\ pc[t] = "loop" /\ upper[t] >= lower[t]
    /\ At(Middle(t)) < sym[t]
    /\ i' = [i EXCEPT ![t] = Middle(t) + 1]
    /\ lower' = [lower EXCEPT ![t] = Middle(t) + 1]
    /\ UNCHANGED <<mapVars, symap_lock, pc, sym, upper, answer>>

Miss(t) ==
    /\ pc[t] = "loop" /\ upper[t] < lower[t]
    /\ Goto(t, "append")
    /\ UNCHANGED <<mapVars, symap_lock, sym, searchVars, answer>>
-----------------------------------------------------------------------------
(* symap_map(): a new string gets the next id ...                          *)
Add(t) ==
    /\ pc[t] = "append"
    /\ symbols' = Append(symbols, sym[t])
    /\ answer' = [answer EXCEPT ![t] = size + 1]
    /\ Goto(t, "insert")
    /\ UNCHANGED <<index, symap_lock, sym, searchVars>>

(* Faulty: the entries behind the place are not moved.                     *)
InsertUnmoved(t) ==
    /\ pc[t] = "insert"
    /\ index' = [k \in 0..(size - 1) |-> IF k = i[t] THEN size
                                         ELSE IF k < size - 1 THEN index[k] ELSE size]
    /\ Goto(t, "unlock")
    /\ UNCHANGED <<symbols, symap_lock, sym, searchVars, answer>>

(* ... and the ids from its place on are moved up to make room for it.     *)
Insert(t) ==
    /\ pc[t] = "insert"
    /\ index' = [k \in 0..(size - 1) |-> IF k < i[t] THEN index[k]
                                         ELSE IF k = i[t] THEN size ELSE index[k - 1]]
    /\ Goto(t, "unlock")
    /\ UNCHANGED <<symbols, symap_lock, sym, searchVars, answer>>

(* symap_unmap() *)
Unmap(t) ==
    /\ pc[t] = "unmap"
    /\ answer' = [answer EXCEPT ![t] = IF sym[t] \in 1..size THEN symbols[sym[t]] ELSE NULL]
    /\ Goto(t, "unlock")
    /\ UNCHANGED <<mapVars, symap_lock, sym, searchVars>>

Search(t) ==
    \/ SearchEmpty(t) \/ SearchLast(t) \/ SearchBegin(t)
    \/ Hit(t) \/ GoLower(t) \/ GoUpper(t) \/ Miss(t)

LockedStep(t) == Search(t) \/ Add(t) \/ Insert(t) \/ Unmap(t) \/ SemPost(t)

Call(t) ==
    \/ \E s \in Strings : MapUri(t, s)
    \/ \E id \in 0..(size + 1) : UnmapUri(t, id)

Next == \E t \in Threads : Call(t) \/ SemWait(t) \/ LockedStep(t)

(* A thread that holds the lock is run; none is made to call, and nothing  *)
(* says who gets the lock next.                                            *)
Spec == Init /\ [][Next]_vars /\ \A t \in Threads : WF_vars(LockedStep(t))
-----------------------------------------------------------------------------
Locked(t) == pc[t] \in {"search", "loop", "append", "insert", "unmap", "unlock"}
Inserting == \E t \in Threads : pc[t] = "insert"
Indexed == IF Inserting THEN size - 1 ELSE size

TypeOK ==
    /\ symbols \in Seq(Strings)
    /\ index \in [0..(Indexed - 1) -> 1..Indexed]
    /\ symap_lock \in {0, 1}
    /\ pc \in [Threads -> {"idle", "lock_map", "lock_unmap", "search", "loop", "append",
                           "insert", "unmap", "unlock"}]
    /\ sym \in [Threads -> Int]
    /\ lower \in [Threads -> Nat] /\ upper \in [Threads -> Nat] /\ i \in [Threads -> Nat]
    /\ answer \in [Threads -> Int \cup {NULL}]

(* One call at a time: the lock is taken by exactly the thread in a call.  *)
OneCall ==
    /\ \A t, u \in Threads : Locked(t) /\ Locked(u) => t = u
    /\ symap_lock = 0 <=> \E t \in Threads : Locked(t)

(* The index is what a search relies on: every string has its place in it, *)
(* in the order of strcmp(), however the strings came in.                  *)
Sorted == \A k, l \in 0..(Indexed - 1) : k < l => At(k) < At(l)
Complete == \A id \in 1..Indexed : \E k \in 0..(Indexed - 1) : index[k] = id
IndexSorted == Sorted /\ Complete

(* What a search has excluded, and where a new string goes.                *)
Below(t, n) == \A k \in 0..(Indexed - 1) : k < n => At(k) < sym[t]
Above(t, n) == \A k \in 0..(Indexed - 1) : k >= n => At(k) > sym[t]

SearchOK(t) ==
    /\ pc[t] \in {"lock_map", "search", "loop", "append", "insert"} => sym[t] \in Strings
    /\ pc[t] = "loop" =>
          /\ lower[t] <= upper[t] + 1 /\ upper[t] < size
          /\ Below(t, lower[t]) /\ Above(t, upper[t] + 1)
          /\ upper[t] < lower[t] => i[t] = lower[t]
    /\ pc[t] \in {"append", "insert"} =>
          i[t] <= Indexed /\ Below(t, i[t]) /\ Above(t, i[t])
    /\ pc[t] = "insert" => symbols[size] = sym[t]

SearchInv == \A t \in Threads : SearchOK(t)

SymapInv == TypeOK /\ OneCall /\ IndexSorted /\ SearchInv

(* Whatever the threads do between each other's comparisons, the map is    *)
(* one that numbers each string once and answers each call at a stroke.    *)
call == [t \in Threads |->
    CASE pc[t] \in {"lock_map", "search", "loop", "append"} -> "map"
      [] pc[t] \in {"lock_unmap", "unmap"} -> "unmap"
      [] OTHER -> "none"]

Abstract == INSTANCE Interner
ImplementsInterner == Abstract!Spec

(* A search ends: what is left of the index gets shorter at each step, so  *)
(* a thread that has the lock gives it back.                               *)
LockIsReturned == \A t \in Threads : Locked(t) ~> ~Locked(t)
=============================================================================
