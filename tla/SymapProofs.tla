---------------------------- MODULE SymapProofs ----------------------------
(***************************************************************************)
(* Proofs about the URI map of Symap, for any threads and any strings: the *)
(* inductive invariant SymapInv, and that the map implements Interner.     *)
(***************************************************************************)
EXTENDS Symap, TLAPS

USE SymapAssumption

Pcs == {"idle", "lock_map", "lock_unmap", "search", "loop", "append", "insert", "unmap",
        "unlock"}

(* The types of what a search reads.                                       *)
LEMMA Reads ==
    ASSUME SymapInv
    PROVE  /\ size \in Nat /\ Indexed \in Nat
           /\ \A k \in 0..(Indexed - 1) : index[k] \in 1..Indexed /\ At(k) \in Int
           /\ \A id \in 1..size : symbols[id] \in Strings /\ symbols[id] \in Int
           /\ \A k, l \in 0..(Indexed - 1) : k <= l => At(k) <= At(l)
<1>1. symbols \in Seq(Strings) /\ index \in [0..(Indexed - 1) -> 1..Indexed]
  BY DEF SymapInv, TypeOK
<1>2. size \in Nat
  BY <1>1 DEF size
<1>3. ASSUME Inserting PROVE size >= 1
  <2>1. PICK t \in Threads : pc[t] = "insert"
    BY <1>3 DEF Inserting
  <2>2. i[t] \in Nat /\ i[t] <= Indexed
    BY <2>1 DEF SymapInv, TypeOK, SearchInv, SearchOK
  <2>3. QED
    BY <1>2, <1>3, <2>2 DEF Indexed
<1>4. Indexed \in Nat /\ Indexed <= size
  BY <1>2, <1>3 DEF Indexed
<1>5. \A id \in 1..size : symbols[id] \in Strings /\ symbols[id] \in Int
  <2>1. \A id \in 1..Len(symbols) : symbols[id] \in Strings
    BY <1>1
  <2>2. QED
    BY <2>1 DEF size
<1>6. \A k \in 0..(Indexed - 1) : index[k] \in 1..Indexed /\ At(k) \in Int
  BY <1>1, <1>2, <1>4, <1>5 DEF At
<1>7. \A k, l \in 0..(Indexed - 1) : k <= l => At(k) <= At(l)
  BY <1>4, <1>6 DEF SymapInv, IndexSorted, Sorted
<1>8. QED
  BY <1>2, <1>4, <1>5, <1>6, <1>7

(* The middle of what is left of the index is in what is left of it.       *)
LEMMA MiddleWithin ==
    ASSUME SymapInv, NEW t \in Threads, pc[t] = "loop", upper[t] >= lower[t]
    PROVE  /\ Middle(t) \in Nat /\ lower[t] <= Middle(t) /\ Middle(t) <= upper[t]
           /\ Indexed = size /\ Middle(t) \in 0..(size - 1)
<1>1. lower[t] \in Nat /\ upper[t] \in Nat
  BY DEF SymapInv, TypeOK
<1> DEFINE n == upper[t] - lower[t]
<1>2. n \in Nat
  BY <1>1
<1>3. n \div 2 \in Nat /\ n \div 2 <= n
  <2> HIDE DEF n
  <2> QED BY <1>2
<1>4. ~Inserting
  BY DEF SymapInv, OneCall, Locked, Inserting
<1>5. upper[t] < size /\ size \in Nat
  BY Reads DEF SymapInv, SearchInv, SearchOK
<1>6. QED
  BY <1>1, <1>3, <1>4, <1>5 DEF Middle, Indexed

(* The thread that holds the lock is the only one that is in a call.       *)
LEMMA Alone ==
    ASSUME SymapInv, NEW t \in Threads, Locked(t)
    PROVE  /\ symap_lock = 0
           /\ \A u \in Threads \ {t} : pc[u] \in {"idle", "lock_map", "lock_unmap"}
           /\ Inserting <=> pc[t] = "insert"
<1>1. \A u \in Threads \ {t} : pc[u] \in Pcs /\ ~Locked(u)
  BY DEF SymapInv, OneCall, TypeOK, Pcs
<1>2. QED
  BY <1>1 DEF SymapInv, OneCall, Locked, Inserting, Pcs

(* A step of one thread leaves what the others have of the map.            *)
Others(t) ==
    \A u \in Threads \ {t} : /\ pc'[u] = pc[u] /\ sym'[u] = sym[u] /\ i'[u] = i[u]
                             /\ lower'[u] = lower[u] /\ upper'[u] = upper[u]

LEMMA MapKept ==
    ASSUME SymapInv, NEW t \in Threads, Others(t), UNCHANGED mapVars,
           pc[t] # "insert", pc'[t] # "insert", SearchOK(t)'
    PROVE  /\ Indexed' = Indexed /\ IndexSorted' /\ SearchInv'
           /\ symbols' \in Seq(Strings) /\ index' \in [0..(Indexed' - 1) -> 1..Indexed']
<1>1. symbols' = symbols /\ index' = index
  BY DEF mapVars
<1>2. Inserting' <=> Inserting
  BY DEF Inserting, Others
<1>3. size' = size /\ Indexed' = Indexed
  BY <1>1, <1>2 DEF size, Indexed
<1>4. \A k : At(k)' = At(k)
  BY <1>1 DEF At
<1>5. IndexSorted'
  BY <1>1, <1>3, <1>4 DEF SymapInv, IndexSorted, Sorted, Complete
<1>6. \A u \in Threads \ {t} : SearchOK(u)'
  <2> SUFFICES ASSUME NEW u \in Threads \ {t} PROVE SearchOK(u)'
    OBVIOUS
  <2>1. /\ pc'[u] = pc[u] /\ sym'[u] = sym[u] /\ i'[u] = i[u]
        /\ lower'[u] = lower[u] /\ upper'[u] = upper[u]
    BY DEF Others
  <2>2. \A n : (Below(u, n)' <=> Below(u, n)) /\ (Above(u, n)' <=> Above(u, n))
    BY <1>3, <1>4, <2>1 DEF Below, Above
  <2>3. Below(u, lower[u])' <=> Below(u, lower[u])
    BY <1>3, <1>4, <2>1 DEF Below
  <2>4. Above(u, upper[u] + 1)' <=> Above(u, upper[u] + 1)
    BY <1>3, <1>4, <2>1 DEF Above
  <2>5. /\ Below(u, i[u])' <=> Below(u, i[u])
        /\ Above(u, i[u])' <=> Above(u, i[u])
    BY <1>3, <1>4, <2>1 DEF Below, Above
  <2>6. SearchOK(u)
    BY DEF SymapInv, SearchInv
  <2>7. QED
    BY <1>1, <1>3, <2>1, <2>3, <2>4, <2>5, <2>6 DEF SearchOK
<1>7. QED
  BY <1>1, <1>3, <1>5, <1>6 DEF SearchInv, SymapInv, TypeOK

(* The calls, and the lock: the map stays as it is.                        *)
LEMMA CallKeeps ==
    ASSUME SymapInv, NEW t \in Threads, Call(t) \/ SemWait(t) \/ SemPost(t)
    PROVE  SymapInv'
<1>1. ASSUME NEW s \in Strings, MapUri(t, s) PROVE SymapInv'
  <2>1. Others(t) /\ SearchOK(t)' /\ pc'[t] = "lock_map"
    BY <1>1 DEF MapUri, Goto, Others, SearchOK, SymapInv, TypeOK, searchVars
  <2>2. OneCall'
    BY <1>1 DEF MapUri, Goto, OneCall, Locked, SymapInv, TypeOK
  <2>3. QED
    BY <1>1, <2>1, <2>2, MapKept DEF MapUri, Goto, SymapInv, TypeOK, searchVars
<1>2. ASSUME NEW id \in 0..(size + 1), UnmapUri(t, id) PROVE SymapInv'
  <2>1. Others(t) /\ SearchOK(t)' /\ pc'[t] = "lock_unmap"
    BY <1>2 DEF UnmapUri, Goto, Others, SearchOK, SymapInv, TypeOK, searchVars
  <2>2. OneCall'
    BY <1>2 DEF UnmapUri, Goto, OneCall, Locked, SymapInv, TypeOK
  <2>3. id \in Int
    BY Reads
  <2>4. QED
    BY <1>2, <2>1, <2>2, <2>3, MapKept DEF UnmapUri, Goto, SymapInv, TypeOK, searchVars
<1>3. CASE SemWait(t)
  <2>1. Others(t) /\ SearchOK(t)' /\ pc[t] # "insert" /\ pc'[t] \in {"search", "unmap"}
    BY <1>3 DEF SemWait, Goto, Others, SearchOK, SymapInv, TypeOK, SearchInv, searchVars
  <2>2. symap_lock = 1 /\ \A u \in Threads : ~Locked(u)
    BY <1>3 DEF SemWait, SymapInv, TypeOK, OneCall
  <2>3. symap_lock' = 0 /\ pc' = [pc EXCEPT ![t] = pc'[t]] /\ pc \in [Threads -> Pcs]
    BY <1>3, <2>2 DEF SemWait, Goto, SymapInv, TypeOK, Pcs
  <2>4. OneCall'
    BY <2>1, <2>2, <2>3 DEF OneCall, Locked
  <2>5. QED
    BY <1>3, <2>1, <2>3, <2>4, MapKept DEF SemWait, SymapInv, TypeOK, searchVars, Pcs
<1>4. CASE SemPost(t)
  <2>1. Others(t) /\ SearchOK(t)' /\ pc[t] = "unlock" /\ pc'[t] = "idle"
    BY <1>4 DEF SemPost, Goto, Others, SearchOK, SymapInv, TypeOK
  <2>2. symap_lock = 0 /\ \A u \in Threads \ {t} : ~Locked(u)
    BY <2>1, Alone DEF Locked
  <2>3. symap_lock' = 1 /\ pc' = [pc EXCEPT ![t] = "idle"] /\ pc \in [Threads -> Pcs]
    BY <1>4, <2>2 DEF SemPost, Goto, SymapInv, TypeOK, Pcs
  <2>4. OneCall'
    BY <2>1, <2>2, <2>3 DEF OneCall, Locked
  <2>5. QED
    BY <1>4, <2>1, <2>3, <2>4, MapKept DEF SemPost, SymapInv, TypeOK, Pcs
<1>5. QED
  BY <1>1, <1>2, <1>3, <1>4 DEF Call

(* A step of the thread that holds the lock keeps the lock.                *)
LEMMA LockKept ==
    ASSUME SymapInv, NEW t \in Threads, Locked(t), UNCHANGED symap_lock,
           pc'[t] \in Pcs, pc' = [pc EXCEPT ![t] = pc'[t]], Locked(t)'
    PROVE  OneCall' /\ pc' \in [Threads -> Pcs]
<1>1. symap_lock = 0 /\ \A u \in Threads \ {t} : ~Locked(u)
  BY Alone DEF Locked
<1>2. pc \in [Threads -> Pcs]
  BY DEF SymapInv, TypeOK, Pcs
<1>3. \A u \in Threads \ {t} : ~Locked(u)'
  BY <1>1, <1>2 DEF Locked
<1>4. QED
  BY <1>1, <1>2, <1>3 DEF OneCall

(* The search: what it has excluded, and the place it ends with.           *)
LEMMA SearchKeeps ==
    ASSUME SymapInv, NEW t \in Threads, Search(t)
    PROVE  SymapInv'
<1> DEFINE m == Middle(t)
<1>1. /\ pc \in [Threads -> Pcs] /\ SearchOK(t) /\ Sorted
      /\ lower \in [Threads -> Nat] /\ upper \in [Threads -> Nat] /\ i \in [Threads -> Nat]
  BY DEF SymapInv, TypeOK, Pcs, SearchInv, IndexSorted
<1>2. Locked(t) /\ pc[t] \in {"search", "loop"} /\ UNCHANGED <<mapVars, symap_lock, sym>>
  BY DEF Search, SearchEmpty, SearchLast, SearchBegin, Hit, GoLower, GoUpper, Miss, Locked,
         searchVars
<1>3. pc' = [pc EXCEPT ![t] = pc'[t]] /\ pc'[t] \in {"loop", "append", "unlock"}
  BY <1>1, <1>2 DEF Search, SearchEmpty, SearchLast, SearchBegin, Hit, GoLower, GoUpper, Miss,
                    Goto
<1>4. Indexed = size /\ sym[t] \in Strings /\ sym[t] \in Int
  BY <1>1, <1>2, Alone DEF Indexed, SearchOK
<1>5. /\ lower' \in [Threads -> Nat] /\ upper' \in [Threads -> Nat] /\ i' \in [Threads -> Nat]
      /\ answer' \in [Threads -> Int \cup {NULL}]
      /\ Others(t) /\ SearchOK(t)'
  <2>1. answer \in [Threads -> Int \cup {NULL}] /\ size \in Nat
    BY Reads DEF SymapInv, TypeOK
  <2>2. symbols' = symbols /\ index' = index /\ sym' = sym
    BY <1>2 DEF mapVars
  <2>3. ~Inserting'
    <3>1. \A u \in Threads \ {t} : pc'[u] = pc[u] /\ pc[u] # "insert"
      BY <1>1, <1>2, <1>3, Alone
    <3>2. QED
      BY <1>3, <3>1 DEF Inserting
  <2>4. Indexed' = size /\ \A k : At(k)' = At(k)
    BY <2>2, <2>3 DEF Indexed, size, At
  <2>5. \A k, l \in 0..(size - 1) : At(k) \in Int /\ (k <= l => At(k) <= At(l))
    BY <1>4, Reads
  <2>6. CASE SearchEmpty(t) \/ SearchLast(t)
    <3>1. i' = [i EXCEPT ![t] = size] /\ pc'[t] = "append" /\ UNCHANGED <<lower, upper, answer>>
      BY <2>6, <1>1 DEF SearchEmpty, SearchLast, Goto
    <3>2. \A k \in 0..(size - 1) : At(k) < sym[t]
      BY <2>1, <2>5, <2>6, <1>4 DEF SearchEmpty, SearchLast
    <3>3. Below(t, i[t])' /\ Above(t, i[t])'
      BY <3>1, <3>2, <2>1, <2>2, <2>4, <1>1 DEF Below, Above
    <3>4. QED
      BY <3>1, <3>3, <2>1, <2>2, <2>4, <1>1, <1>3, <1>4 DEF Others, SearchOK
  <2>7. CASE SearchBegin(t)
    <3>1. /\ lower' = [lower EXCEPT ![t] = 0] /\ upper' = [upper EXCEPT ![t] = size - 1]
          /\ i' = [i EXCEPT ![t] = size - 1] /\ size > 0
          /\ pc'[t] = "loop" /\ UNCHANGED answer
      BY <2>7, <1>1 DEF SearchBegin, Goto
    <3>2. Below(t, lower[t])' /\ Above(t, upper[t] + 1)'
      BY <3>1, <2>1, <2>2, <2>4, <1>1 DEF Below, Above
    <3>3. size' = size
      BY <2>2 DEF size
    <3>4. QED
      BY <3>1, <3>2, <3>3, <2>1, <2>2, <2>4, <1>1, <1>3, <1>4 DEF Others, SearchOK
  <2>8. CASE Hit(t)
    <3>1. m \in 0..(Indexed - 1)
      BY <2>8, <1>4, MiddleWithin DEF Hit
    <3>2. index[m] \in Int
      BY <3>1, Reads
    <3>3. answer' = [answer EXCEPT ![t] = index[m]] /\ UNCHANGED searchVars /\ pc'[t] = "unlock"
      BY <2>8, <1>1 DEF Hit, Goto
    <3>4. QED
      BY <3>2, <3>3, <2>1, <2>2, <1>1, <1>3, <1>4 DEF Others, SearchOK, searchVars
  <2>9. CASE GoLower(t)
    <3>1. /\ m \in Nat /\ lower[t] <= m /\ m <= upper[t] /\ m \in 0..(size - 1)
          /\ pc[t] = "loop" /\ At(m) > sym[t]
      BY <2>9, MiddleWithin DEF GoLower
    <3>2. /\ i' = [i EXCEPT ![t] = m] /\ UNCHANGED <<lower, answer>>
          /\ \/ m = 0 /\ pc'[t] = "append" /\ UNCHANGED upper
             \/ m > 0 /\ upper' = [upper EXCEPT ![t] = m - 1] /\ pc'[t] = "loop"
      BY <2>9, <3>1, <1>1 DEF GoLower, Goto
    <3>3. \A k \in 0..(size - 1) : k >= m => At(k) > sym[t]
      BY <3>1, <2>5, <1>4
    <3>4. Below(t, lower[t])
      BY <3>1, <1>1 DEF SearchOK
    <3> HIDE DEF m
    <3>5. CASE m = 0
      <4>1. Below(t, i[t])' /\ Above(t, i[t])'
        BY <3>2, <3>3, <3>5, <2>1, <2>2, <2>4, <1>1 DEF Below, Above
      <4>2. QED
        BY <3>1, <3>2, <3>5, <4>1, <2>1, <2>2, <2>4, <1>1, <1>3, <1>4 DEF Others, SearchOK
    <3>6. CASE m > 0
      <4>1. upper'[t] = m - 1 /\ pc'[t] = "loop" /\ upper' = [upper EXCEPT ![t] = m - 1]
        BY <3>2, <3>6, <1>1
      <4>2. Below(t, lower[t])'
        BY <3>2, <3>4, <2>1, <2>2, <2>4, <1>1, <1>4 DEF Below
      <4>3. Above(t, upper[t] + 1)'
        BY <4>1, <3>1, <3>3, <2>1, <2>2, <2>4, <1>1 DEF Above
      <4>4. lower'[t] <= upper'[t] + 1 /\ upper'[t] < size /\ (upper'[t] < lower'[t] => i'[t] = lower'[t])
        BY <4>1, <3>1, <3>2, <2>1, <1>1
      <4>5. size' = size
        BY <2>2 DEF size
      <4>6. QED
        BY <3>1, <3>2, <3>6, <4>1, <4>2, <4>3, <4>4, <4>5, <2>1, <2>2, <1>1, <1>3, <1>4 DEF Others, SearchOK
    <3>7. QED
      BY <3>1, <3>5, <3>6
  <2>10. CASE GoUpper(t)
    <3>1. /\ m \in Nat /\ lower[t] <= m /\ m <= upper[t] /\ m \in 0..(size - 1)
          /\ pc[t] = "loop" /\ At(m) < sym[t]
      BY <2>10, MiddleWithin DEF GoUpper
    <3>2. /\ i' = [i EXCEPT ![t] = m + 1] /\ lower' = [lower EXCEPT ![t] = m + 1]
          /\ UNCHANGED <<upper, answer>> /\ pc'[t] = "loop"
      BY <2>10, <3>1, <1>1 DEF GoUpper, Goto
    <3>3. \A k \in 0..(size - 1) : k < m + 1 => At(k) < sym[t]
      BY <3>1, <2>5, <1>4
    <3>4. Above(t, upper[t] + 1) /\ upper[t] < size
      BY <3>1, <1>1 DEF SearchOK
    <3> HIDE DEF m
    <3>5. Below(t, lower[t])'
      BY <3>1, <3>2, <3>3, <2>1, <2>2, <2>4, <1>1 DEF Below
    <3>6. Above(t, upper[t] + 1)'
      BY <3>2, <3>4, <2>1, <2>2, <2>4, <1>1, <1>4 DEF Above
    <3>7. size' = size
      BY <2>2 DEF size
    <3>8. QED
      BY <3>1, <3>2, <3>4, <3>5, <3>6, <3>7, <2>1, <2>2, <1>1, <1>3, <1>4 DEF Others, SearchOK
  <2>11. CASE Miss(t)
    <3>1. pc[t] = "loop" /\ pc'[t] = "append" /\ UNCHANGED <<lower, upper, i, answer>> /\ upper[t] < lower[t]
      BY <2>11, <1>1 DEF Miss, Goto, searchVars
    <3>2. /\ Below(t, lower[t]) /\ Above(t, upper[t] + 1) /\ lower[t] <= upper[t] + 1
          /\ upper[t] < size /\ i[t] = lower[t]
      BY <3>1, <1>1 DEF SearchOK
    <3>3. i[t] = upper[t] + 1 /\ i[t] <= size
      BY <3>1, <3>2, <2>1, <1>1
    <3>4. Below(t, i[t])' /\ Above(t, i[t])'
      BY <3>1, <3>2, <3>3, <2>1, <2>2, <2>4, <1>4 DEF Below, Above
    <3>5. QED
      BY <3>1, <3>3, <3>4, <2>1, <2>2, <2>4, <1>1, <1>3, <1>4 DEF Others, SearchOK
  <2>12. QED
    BY <2>6, <2>7, <2>8, <2>9, <2>10, <2>11 DEF Search
<1>6. OneCall' /\ pc' \in [Threads -> Pcs]
  BY <1>2, <1>3, LockKept DEF Locked, Pcs
<1>7. QED
  BY <1>2, <1>3, <1>5, <1>6, MapKept DEF SymapInv, TypeOK, Pcs

(* A new string: the place that was found for it is still its place.       *)
LEMMA AddKeeps ==
    ASSUME SymapInv, NEW t \in Threads, Add(t)
    PROVE  SymapInv'
<1>1. /\ pc \in [Threads -> Pcs] /\ SearchOK(t) /\ i \in [Threads -> Nat]
      /\ symbols \in Seq(Strings) /\ size \in Nat
      /\ pc[t] = "append" /\ Locked(t) /\ UNCHANGED <<index, symap_lock, sym, i>>
      /\ pc' = [pc EXCEPT ![t] = "insert"] /\ symbols' = Append(symbols, sym[t])
  BY Reads DEF SymapInv, TypeOK, Pcs, SearchInv, Add, Goto, Locked, searchVars
<1>2. Indexed = size /\ sym[t] \in Strings /\ i[t] <= size /\ Below(t, i[t]) /\ Above(t, i[t])
  BY <1>1, Alone DEF Indexed, SearchOK
<1>3. /\ pc'[t] = "insert" /\ Inserting'
      /\ \A u \in Threads \ {t} : pc'[u] = pc[u] /\ pc[u] \in {"idle", "lock_map", "lock_unmap"}
  BY <1>1, Alone DEF Inserting
<1>4. /\ symbols' \in Seq(Strings) /\ size' = size + 1 /\ symbols'[size + 1] = sym[t]
      /\ \A id \in 1..Len(symbols) : symbols'[id] = symbols[id]
  BY <1>1, <1>2 DEF size
<1>5. Indexed' = size
  BY <1>1, <1>3, <1>4 DEF Indexed
<1>6. \A k \in 0..(size - 1) : index[k] \in 1..size /\ At(k)' = At(k)
  <2>1. \A k \in 0..(size - 1) : index[k] \in 1..Len(symbols)
    BY <1>2, Reads DEF size
  <2>2. QED
    BY <2>1, <1>1, <1>4 DEF At, size
<1>7. IndexSorted'
  BY <1>1, <1>2, <1>5, <1>6 DEF SymapInv, IndexSorted, Sorted, Complete
<1>8. SearchOK(t)'
  <2>1. Below(t, i[t])' /\ Above(t, i[t])'
    BY <1>1, <1>2, <1>5, <1>6 DEF Below, Above
  <2>2. QED
    BY <2>1, <1>1, <1>2, <1>3, <1>4, <1>5 DEF SearchOK
<1>9. \A u \in Threads \ {t} : SearchOK(u)'
  BY <1>1, <1>3 DEF SearchOK, SymapInv, SearchInv
<1>10. OneCall' /\ pc' \in [Threads -> Pcs]
  BY <1>1, <1>3, LockKept DEF Locked, Pcs
<1>11. TypeOK'
  <2>1. answer' \in [Threads -> Int \cup {NULL}] /\ UNCHANGED <<lower, upper>>
    BY <1>1 DEF Add, SymapInv, TypeOK, searchVars
  <2>2. QED
    BY <2>1, <1>1, <1>2, <1>4, <1>5, <1>10 DEF SymapInv, TypeOK, Pcs
<1>12. QED
  BY <1>7, <1>8, <1>9, <1>10, <1>11 DEF SymapInv, SearchInv

LEMMA InsertKeeps ==
    ASSUME SymapInv, NEW t \in Threads, Insert(t)
    PROVE  SymapInv'
<1> DEFINE p == i[t]
           n == size - 1
<1>1. /\ pc \in [Threads -> Pcs] /\ SearchOK(t) /\ p \in Nat
      /\ symbols \in Seq(Strings) /\ size \in Nat
      /\ pc[t] = "insert" /\ Locked(t)
      /\ pc' = [pc EXCEPT ![t] = "unlock"]
  BY Reads DEF SymapInv, TypeOK, Pcs, SearchInv, Insert, Goto, Locked
<1>2. UNCHANGED <<symbols, symap_lock, sym, lower, upper, i, answer>> /\ size' = size
  BY DEF Insert, searchVars, size
<1>3. Indexed = n /\ n \in Nat
  BY <1>1, Alone, Reads DEF Indexed
<1>4. p <= n /\ Below(t, p) /\ Above(t, p) /\ symbols[size] = sym[t] /\ sym[t] \in Int
  BY <1>1, <1>3 DEF SearchOK
<1>5. size = n + 1
  BY <1>1
<1>6. index' = [k \in 0..n |-> IF k < p THEN index[k] ELSE IF k = p THEN size ELSE index[k - 1]]
  BY DEF Insert
<1>7. /\ pc'[t] = "unlock"
      /\ \A u \in Threads \ {t} : pc'[u] = pc[u] /\ pc[u] \in {"idle", "lock_map", "lock_unmap"}
  BY <1>1, Alone
<1>8. Indexed' = n + 1
  BY <1>2, <1>5, <1>7 DEF Indexed, Inserting
<1>9. \A k \in 0..(n - 1) : index[k] \in 1..n /\ At(k) \in Int
  BY <1>3, Reads
<1> HIDE DEF p, n
<1>10. index' \in [0..n -> 1..(n + 1)]
  BY <1>1, <1>3, <1>4, <1>5, <1>6, <1>9
<1>11. \A k \in 0..n : At(k)' = IF k < p THEN At(k) ELSE IF k = p THEN sym[t] ELSE At(k - 1)
  BY <1>1, <1>2, <1>3, <1>4, <1>6 DEF At
<1>12. Sorted'
  <2>1. \A k, l \in 0..(n - 1) : k < l => At(k) < At(l)
    BY <1>3 DEF SymapInv, IndexSorted, Sorted
  <2>2. \A k \in 0..(n - 1) : (k < p => At(k) < sym[t]) /\ (k >= p => At(k) > sym[t])
    BY <1>3, <1>4 DEF Below, Above
  <2>3. SUFFICES ASSUME NEW k \in 0..n, NEW l \in 0..n, k < l PROVE At(k)' < At(l)'
    BY <1>3, <1>8 DEF Sorted
  <2>4. CASE l < p
    BY <2>1, <2>3, <2>4, <1>1, <1>3, <1>4, <1>11
  <2>5. CASE l = p
    BY <2>2, <2>3, <2>5, <1>1, <1>3, <1>4, <1>11
  <2>6. CASE l > p /\ k < p
    BY <2>1, <2>2, <2>3, <2>6, <1>1, <1>3, <1>4, <1>9, <1>11
  <2>7. CASE l > p /\ k = p
    BY <2>2, <2>3, <2>7, <1>1, <1>3, <1>4, <1>11
  <2>8. CASE l > p /\ k > p
    BY <2>1, <2>3, <2>8, <1>1, <1>3, <1>4, <1>11
  <2>9. QED
    BY <2>4, <2>5, <2>6, <2>7, <2>8, <1>1, <1>3
<1>13. Complete'
  <2>1. SUFFICES ASSUME NEW id \in 1..(n + 1) PROVE \E k \in 0..n : index'[k] = id
    BY <1>3, <1>8 DEF Complete
  <2>2. CASE id = n + 1
    BY <2>2, <1>1, <1>3, <1>4, <1>5, <1>6
  <2>3. CASE id # n + 1
    <3>1. PICK k \in 0..(n - 1) : index[k] = id
      BY <2>3, <1>3 DEF SymapInv, IndexSorted, Complete
    <3>2. CASE k < p
      BY <3>1, <3>2, <1>1, <1>3, <1>6
    <3>3. CASE k >= p
      <4>1. k + 1 \in 0..n /\ k + 1 > p /\ (k + 1) - 1 = k
        BY <3>3, <1>1, <1>3
      <4>2. index'[k + 1] = id
        BY <3>1, <4>1, <1>1, <1>3, <1>6
      <4>3. QED
        BY <4>1, <4>2
    <3>4. QED
      BY <3>2, <3>3, <1>1, <1>3
  <2>4. QED
    BY <2>2, <2>3
<1>14. SearchInv'
  BY <1>2, <1>7 DEF SearchOK, SymapInv, SearchInv
<1>15. OneCall' /\ pc' \in [Threads -> Pcs]
  BY <1>1, <1>2, <1>7, LockKept DEF Locked, Pcs
<1>16. TypeOK'
  <2>1. index' \in [0..(Indexed' - 1) -> 1..Indexed']
    BY <1>3, <1>8, <1>10
  <2>2. QED
    BY <2>1, <1>2, <1>15 DEF SymapInv, TypeOK, Pcs
<1>17. QED
  BY <1>12, <1>13, <1>14, <1>15, <1>16 DEF SymapInv, IndexSorted

LEMMA UnmapKeeps ==
    ASSUME SymapInv, NEW t \in Threads, Unmap(t)
    PROVE  SymapInv'
<1>1. /\ pc[t] = "unmap" /\ pc'[t] = "unlock" /\ pc' = [pc EXCEPT ![t] = "unlock"]
      /\ Others(t) /\ SearchOK(t)' /\ UNCHANGED <<mapVars, symap_lock, sym, searchVars>>
  BY DEF Unmap, Goto, Others, SearchOK, SymapInv, TypeOK, searchVars
<1>2. answer' \in [Threads -> Int \cup {NULL}]
  <2>1. (IF sym[t] \in 1..size THEN symbols[sym[t]] ELSE NULL) \in Int \cup {NULL}
    BY Reads
  <2>2. QED
    BY <2>1 DEF Unmap, SymapInv, TypeOK
<1>3. OneCall' /\ pc' \in [Threads -> Pcs]
  BY <1>1, LockKept DEF Locked, Pcs
<1>4. QED
  BY <1>1, <1>2, <1>3, MapKept DEF SymapInv, TypeOK, Pcs, searchVars

LEMMA SymapStep == SymapInv /\ [Next]_vars => SymapInv'
<1>1. ASSUME SymapInv, NEW t \in Threads, Call(t) \/ SemWait(t) \/ LockedStep(t)
      PROVE  SymapInv'
  BY <1>1, CallKeeps, SearchKeeps, AddKeeps, InsertKeeps, UnmapKeeps DEF LockedStep
<1>2. SymapInv /\ UNCHANGED vars => SymapInv'
  BY DEF vars, mapVars, searchVars, SymapInv, TypeOK, OneCall, IndexSorted, Sorted, Complete,
         SearchInv, SearchOK, Below, Above, At, Indexed, Inserting, Locked, size
<1>3. QED
  BY <1>1, <1>2 DEF Next

(* One call at a time has the map; the index holds every string once, in   *)
(* order; a search has excluded only strings that are not its own.         *)
THEOREM MapInvariant == Spec => [](TypeOK /\ SymapInv)
<1>1. Init => SymapInv
  BY DEF Init, SymapInv, TypeOK, OneCall, IndexSorted, Sorted, Complete, SearchInv, SearchOK,
         Indexed, Inserting, Locked, size
<1>2. SymapInv => TypeOK /\ SymapInv
  BY DEF SymapInv
<1>3. QED
  BY <1>1, <1>2, SymapStep, PTL DEF Spec

(* Every variable of the map keeps its type, the index one entry for each  *)
(* string in it.                                                           *)
THEOREM TypeCorrect == Spec => []TypeOK
BY MapInvariant, PTL
-----------------------------------------------------------------------------
(* The refinement: a call of Interner begins where a thread calls, and     *)
(* returns where the string is found or added.                             *)

NewCall(t, c) == call' = [call EXCEPT ![t] = c]

CallOf(p) == CASE p \in {"lock_map", "search", "loop", "append"} -> "map"
               [] p \in {"lock_unmap", "unmap"} -> "unmap"
               [] OTHER -> "none"

LEMMA CallMoves ==
    ASSUME NEW t \in Threads, NEW q, pc \in [Threads -> Pcs], pc' = [pc EXCEPT ![t] = q]
    PROVE  NewCall(t, CallOf(q)) /\ (CallOf(pc[t]) = CallOf(q) => UNCHANGED call)
<1>1. /\ call = [u \in Threads |-> CallOf(pc[u])]
      /\ call' = [u \in Threads |-> CallOf(pc'[u])]
  BY DEF call, CallOf
<1>2. \A u \in Threads : pc'[u] = IF u = t THEN q ELSE pc[u]
  OBVIOUS
<1>3. call' = [u \in Threads |-> IF u = t THEN CallOf(q) ELSE CallOf(pc[u])]
  BY <1>1, <1>2
<1> HIDE DEF CallOf
<1>4. QED
  BY <1>1, <1>3 DEF NewCall

LEMMA StepImplements ==
    ASSUME SymapInv, NEW t \in Threads, Call(t) \/ SemWait(t) \/ LockedStep(t)
    PROVE  [Abstract!Next]_(Abstract!vars)
<1>1. pc \in [Threads -> Pcs] /\ call[t] = CallOf(pc[t])
  BY DEF SymapInv, TypeOK, Pcs, call, CallOf
<1>2. ASSUME NEW s \in Strings, MapUri(t, s) PROVE Abstract!Next
  <2>1. NewCall(t, "map") /\ call[t] = "none"
    BY <1>1, <1>2, CallMoves DEF MapUri, Goto, CallOf
  <2>2. Abstract!Call(t, "map", s)
    BY <1>2, <2>1 DEF MapUri, mapVars, NewCall, Abstract!Call
  <2>3. QED
    BY <2>2 DEF Abstract!Next
<1>3. ASSUME NEW id \in 0..(size + 1), UnmapUri(t, id) PROVE Abstract!Next
  <2>1. NewCall(t, "unmap") /\ call[t] = "none"
    BY <1>1, <1>3, CallMoves DEF UnmapUri, Goto, CallOf
  <2>2. Abstract!Call(t, "unmap", id)
    BY <1>3, <2>1 DEF UnmapUri, mapVars, NewCall, Abstract!Call
  <2>3. QED
    BY <2>2 DEF Abstract!Next, size
<1>4. CASE Hit(t)
  <2>1. NewCall(t, "none") /\ call[t] = "map" /\ pc[t] = "loop"
    BY <1>1, <1>4, CallMoves DEF Hit, Goto, CallOf
  <2>2. Middle(t) \in 0..(Indexed - 1) /\ Indexed = size
    BY <1>4, <2>1, MiddleWithin DEF Hit
  <2>3. index[Middle(t)] \in 1..Len(symbols) /\ symbols[index[Middle(t)]] = sym[t]
    BY <1>4, <2>2, Reads DEF Hit, At, size
  <2>4. Abstract!MapKnown(t)
    BY <1>4, <2>1, <2>3 DEF Hit, mapVars, NewCall, Abstract!MapKnown, Abstract!Return
  <2>5. QED
    BY <2>4 DEF Abstract!Next
<1>5. CASE Add(t)
  <2>1. NewCall(t, "none") /\ call[t] = "map" /\ pc[t] = "append" /\ Locked(t)
    BY <1>1, <1>5, CallMoves DEF Add, Goto, CallOf, Locked
  <2>2. Indexed = size /\ Below(t, i[t]) /\ Above(t, i[t]) /\ i[t] \in Nat
    BY <2>1, Alone DEF Indexed, SymapInv, SearchInv, SearchOK, TypeOK
  <2>3. sym[t] \in Int
    BY DEF SymapInv, TypeOK
  <2>4. ASSUME NEW id \in 1..Len(symbols) PROVE symbols[id] # sym[t]
    <3>1. PICK k \in 0..(Indexed - 1) : index[k] = id
      BY <2>2 DEF size, SymapInv, IndexSorted, Complete
    <3>2. At(k) \in Int /\ (At(k) < sym[t] \/ At(k) > sym[t])
      BY <2>2, Reads DEF Below, Above
    <3>3. QED
      BY <3>1, <3>2, <2>3 DEF At
  <2>5. Abstract!MapNew(t)
    BY <1>5, <2>1, <2>4 DEF Add, NewCall, size, Abstract!MapNew, Abstract!Return
  <2>6. QED
    BY <2>5 DEF Abstract!Next
<1>6. CASE Unmap(t)
  <2>1. NewCall(t, "none") /\ call[t] = "unmap"
    BY <1>1, <1>6, CallMoves DEF Unmap, Goto, CallOf
  <2>2. Abstract!Unmap(t)
    BY <1>6, <2>1 DEF Unmap, mapVars, NewCall, size, Abstract!Unmap, Abstract!Return
  <2>3. QED
    BY <2>2 DEF Abstract!Next
<1>7. CASE SemWait(t) \/ SemPost(t) \/ Insert(t) \/ SearchEmpty(t) \/ SearchLast(t)
           \/ SearchBegin(t) \/ GoLower(t) \/ GoUpper(t) \/ Miss(t)
  <2>1. UNCHANGED <<symbols, sym, answer>>
    BY <1>7 DEF SemWait, SemPost, Insert, SearchEmpty, SearchLast, SearchBegin, GoLower, GoUpper,
                Miss, mapVars, searchVars
  <2>2. \E q \in Pcs : pc' = [pc EXCEPT ![t] = q] /\ CallOf(pc[t]) = CallOf(q)
    <3>1. CASE SemWait(t)
      BY <3>1 DEF SemWait, Goto, CallOf, Pcs
    <3>2. CASE SemPost(t) \/ Insert(t)
      BY <3>2 DEF SemPost, Insert, Goto, CallOf, Pcs
    <3>3. CASE SearchEmpty(t) \/ SearchLast(t) \/ SearchBegin(t) \/ Miss(t)
      BY <3>3 DEF SearchEmpty, SearchLast, SearchBegin, Miss, Goto, CallOf, Pcs
    <3>4. CASE GoLower(t) \/ GoUpper(t)
      <4>1. pc[t] = "loop" /\ (pc' = pc \/ pc' = [pc EXCEPT ![t] = "append"])
        BY <3>4 DEF GoLower, GoUpper, Goto
      <4>2. CASE pc' = pc
        <5>1. pc' = [pc EXCEPT ![t] = "loop"]
          BY <1>1, <4>1, <4>2
        <5>2. QED
          BY <4>1, <5>1 DEF Pcs
      <4>3. CASE pc' = [pc EXCEPT ![t] = "append"]
        BY <4>1, <4>3 DEF CallOf, Pcs
      <4>4. QED
        BY <4>1, <4>2, <4>3
    <3>5. QED
      BY <1>7, <3>1, <3>2, <3>3, <3>4
  <2>3. UNCHANGED call
    BY <1>1, <2>2, CallMoves
  <2>4. QED
    BY <2>1, <2>3 DEF Abstract!vars
<1>8. QED
  BY <1>2, <1>3, <1>4, <1>5, <1>6, <1>7 DEF Call, LockedStep, Search

(* However the calls of the threads interleave, and whatever the strings,  *)
(* the map numbers each string once, for good, and answers at a stroke.    *)
THEOREM SymapImplementsInterner == Spec => ImplementsInterner
<1>1. Init => Abstract!Init
  BY DEF Init, Abstract!Init, call
<1>2. SymapInv /\ [Next]_vars => [Abstract!Next]_(Abstract!vars)
  <2>1. SymapInv /\ UNCHANGED vars => UNCHANGED Abstract!vars
    BY DEF vars, mapVars, Abstract!vars, call
  <2>2. QED
    BY <2>1, StepImplements DEF Next
<1>3. Spec => []SymapInv
  BY MapInvariant, PTL
<1>4. QED
  BY <1>1, <1>2, <1>3, PTL DEF Spec, ImplementsInterner, Abstract!Spec
=============================================================================
