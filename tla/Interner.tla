------------------------------ MODULE Interner ------------------------------
(***************************************************************************)
(* What the URI map promises its callers: it numbers the strings it is     *)
(* given from 1 on in the order in which it first sees them, each of them  *)
(* once and for good, and each call sees a map that no other call is       *)
(* changing.                                                               *)
(***************************************************************************)
EXTENDS Integers, Sequences

CONSTANTS Threads, Strings, NULL

VARIABLES symbols,   \* the strings, by their numbers
          call,      \* what each thread is waiting for: "map", "unmap" or "none"
          sym,       \* the string, or the number, it is waiting with
          answer     \* what its call returned

vars == <<symbols, call, sym, answer>>

Init ==
    /\ symbols = << >>
    /\ call = [t \in Threads |-> "none"]
    /\ sym = [t \in Threads |-> 0]
    /\ answer = [t \in Threads |-> NULL]

Call(t, c, x) ==
    /\ call[t] = "none"
    /\ call' = [call EXCEPT ![t] = c]
    /\ sym' = [sym EXCEPT ![t] = x]
    /\ answer' = [answer EXCEPT ![t] = NULL]
    /\ UNCHANGED symbols

Return(t, a) ==
    /\ call' = [call EXCEPT ![t] = "none"]
    /\ answer' = [answer EXCEPT ![t] = a]
    /\ UNCHANGED sym

MapKnown(t) ==
    /\ call[t] = "map"
    /\ \E id \in 1..Len(symbols) : symbols[id] = sym[t] /\ Return(t, id)
    /\ UNCHANGED symbols

MapNew(t) ==
    /\ call[t] = "map"
    /\ \A id \in 1..Len(symbols) : symbols[id] # sym[t]
    /\ symbols' = Append(symbols, sym[t])
    /\ Return(t, Len(symbols) + 1)

Unmap(t) ==
    /\ call[t] = "unmap"
    /\ Return(t, IF sym[t] \in 1..Len(symbols) THEN symbols[sym[t]] ELSE NULL)
    /\ UNCHANGED symbols

Next ==
    \E t \in Threads :
        \/ \E s \in Strings : Call(t, "map", s)
        \/ \E id \in 0..(Len(symbols) + 1) : Call(t, "unmap", id)
        \/ MapKnown(t) \/ MapNew(t) \/ Unmap(t)

Spec == Init /\ [][Next]_vars
=============================================================================
