-------------------------- MODULE ParametersProofs --------------------------
(***************************************************************************)
(* Proofs about Parameters, for any number of parameters and outputs, any  *)
(* values and sizes of the output buffer.                                  *)
(***************************************************************************)
EXTENDS Parameters, TLAPS

Inv == TypeOK /\ NotesAreTrue

LEMMA InitInv == Init => Inv
BY ParametersAssumption DEF Init, Inv, TypeOK, NotesAreTrue, ToBeMarked, View, Params, Emitting

(* Each step keeps the type of every variable.                             *)
LEMMA AudioTypes ==
    ASSUME Inv, AudioThread
    PROVE  TypeOK'
<1> USE ParametersAssumption DEF Inv, Params, Emitting
<1>1. CASE Process
  BY <1>1 DEF TypeOK, Process, viewVars, hostVars
<1>2. ASSUME NEW p \in Params \ Outputs, NEW v \in Values, ParameterIn(p, v)
      PROVE  TypeOK'
  BY <1>2 DEF TypeOK, ParameterIn, audioVars, hostVars
<1>3. ASSUME NEW p \in Params \ Outputs, NEW v \in Values, ParameterLost(p, v)
      PROVE  TypeOK'
  BY <1>3 DEF TypeOK, ParameterLost, audioVars, hostVars
<1>4. CASE MidiOverflow
  BY <1>4 DEF TypeOK, MidiOverflow, viewVars, hostVars
<1>5. ASSUME NEW outputs \in [Outputs -> Values], Run(outputs)
      PROVE  TypeOK'
  BY <1>5 DEF TypeOK, Run, viewVars, hostVars
<1>6. CASE NoRoom
  BY <1>6 DEF TypeOK, NoRoom, viewVars, hostVars
<1>7. ASSUME NEW capacity \in Capacities, EmitBegin(capacity)
      PROVE  TypeOK'
  <2>1. DOMAIN out' = {} /\ room' \in Nat /\ next' \in 1..(N + 1)
    BY <1>7 DEF EmitBegin
  <2>2. QED
    BY <1>7, <2>1 DEF TypeOK, EmitBegin, viewVars, hostVars
<1>8. CASE Load
  <2>1. current' \in Values /\ next' \in Params /\ pc' = "compare"
    BY <1>8 DEF TypeOK, Load
  <2>2. QED
    BY <1>8, <2>1 DEF TypeOK, Load, viewVars, hostVars
<1>9. CASE Same
  BY <1>9 DEF TypeOK, Same, viewVars, hostVars
<1>10. CASE Full
  BY <1>10 DEF TypeOK, Full, Different, viewVars, hostVars
<1>11. CASE Write
  BY <1>11 DEF TypeOK, Write, Different, viewVars, hostVars
<1>12. CASE Store
  BY <1>12 DEF TypeOK, Store, viewVars, hostVars
<1>13. CASE EmitEnd
  <2>1. \A p \in Params : View(p) \in Values \cup {NaN}
    BY DEF TypeOK, View
  <2>2. DOMAIN out' = {} /\ told' \in [Params -> Values \cup {NaN}]
    BY <1>13, <2>1 DEF EmitEnd
  <2>3. QED
    BY <1>13, <2>2 DEF TypeOK, EmitEnd, viewVars, hostVars
<1>14. QED
  BY <1>1, <1>2, <1>3, <1>4, <1>5, <1>6, <1>7, <1>8, <1>9, <1>10, <1>11, <1>12, <1>13
  DEF AudioThread, Emit

LEMMA HostTypes ==
    ASSUME Inv, HostThread
    PROVE  TypeOK'
<1> USE ParametersAssumption DEF Inv, Params, Emitting
<1>1. CASE RestoreBegin
  BY <1>1 DEF TypeOK, RestoreBegin, audioVars, viewVars
<1>2. ASSUME NEW p \in Params, NEW v \in Values, RestoreValue(p, v)
      PROVE  TypeOK'
  BY <1>2 DEF TypeOK, RestoreValue, audioVars, viewVars, hostVars
<1>3. CASE MarkAll \/ RestoreEnd
  BY <1>3 DEF TypeOK, MarkAll, RestoreEnd, audioVars, viewVars
<1>4. ASSUME NEW p \in Params, Mark(p)
      PROVE  TypeOK'
  BY <1>4 DEF TypeOK, Mark, audioVars, viewVars
<1>5. QED
  BY <1>1, <1>2, <1>3, <1>4 DEF HostThread, MarkingThread
-----------------------------------------------------------------------------
(* process() keeps its notes true, though a restore may mark a parameter   *)
(* between the load of its value and the store of the note.                *)
LEMMA AudioNotes ==
    ASSUME Inv, AudioThread
    PROVE  NotesAreTrue'
<1> USE DEF Inv, Emitting
<1>1. CASE Process \/ MidiOverflow \/ NoRoom \/ \E capacity \in Capacities : EmitBegin(capacity)
  BY <1>1 DEF NotesAreTrue, ToBeMarked, View, Process, MidiOverflow, NoRoom, EmitBegin, viewVars, hostVars
<1>2. ASSUME NEW p \in Params \ Outputs, NEW v \in Values, ParameterIn(p, v)
      PROVE  NotesAreTrue'
  <2>1. pc = "midi_in" /\ pc' = pc /\ out = << >> /\ out' = out
    BY <1>2 DEF NotesAreTrue, ParameterIn, audioVars
  <2>2. \A q \in Params : View(q)' = IF q = p THEN v ELSE View(q)
    BY <1>2, <2>1 DEF View, ParameterIn, TypeOK
  <2>3. \A q \in Params : control'[q] = IF q = p THEN v ELSE control[q]
    BY <1>2 DEF ParameterIn, TypeOK
  <2>4. QED
    BY <1>2, <2>1, <2>2, <2>3 DEF NotesAreTrue, ToBeMarked, ParameterIn, hostVars
<1>3. ASSUME NEW p \in Params \ Outputs, NEW v \in Values, ParameterLost(p, v)
      PROVE  NotesAreTrue'
  <2>1. pc = "overflow" /\ pc' = pc /\ out = << >> /\ out' = out
    BY <1>3 DEF NotesAreTrue, ParameterLost, audioVars
  <2>2. \A q \in Params : q # p => View(q)' = View(q)
    BY <1>3, <2>1 DEF View, ParameterLost, TypeOK
  <2>3. p \in lost' \ DOMAIN out' /\ lost \subseteq lost'
    BY <1>3, <2>1 DEF ParameterLost
  <2>4. QED
    BY <1>3, <2>1, <2>2, <2>3 DEF NotesAreTrue, ToBeMarked, ParameterLost, hostVars
<1>4. ASSUME NEW outputs \in [Outputs -> Values], Run(outputs)
      PROVE  NotesAreTrue'
  <2>1. \A q \in Params \ Outputs : control'[q] = control[q]
    BY <1>4 DEF Run
  <2>2. QED
    BY <1>4, <2>1 DEF NotesAreTrue, ToBeMarked, View, Run, viewVars, hostVars
<1>5. CASE Load \/ Same \/ Full
  BY <1>5 DEF NotesAreTrue, ToBeMarked, View, Load, Same, Full, Different, viewVars, hostVars
<1>6. CASE Write
  <2>1. \A q \in Params : q # next => View(q)' = View(q)
    BY <1>6 DEF View, Write, viewVars
  <2>2. next \in DOMAIN out' /\ out'[next] = current
    BY <1>6 DEF Write
  <2>3. QED
    BY <1>6, <2>1, <2>2 DEF NotesAreTrue, ToBeMarked, Write, viewVars, hostVars
<1>7. CASE Store
  <2>1. View(next) = current
    BY <1>7 DEF NotesAreTrue, View, Store
  <2>2. \A q \in Params : View(q)' = View(q) /\ (q # next => last_emitted'[q] = last_emitted[q])
    BY <1>7 DEF View, Store, TypeOK, viewVars
  <2>3. next \in Params => last_emitted'[next] = current
    BY <1>7 DEF Store, TypeOK
  <2>4. QED
    BY <1>7, <2>1, <2>2, <2>3 DEF NotesAreTrue, ToBeMarked, Store, viewVars, hostVars
<1>8. CASE EmitEnd
  <2>1. \A q \in Params : View(q)' = View(q)
    BY <1>8 DEF View, EmitEnd
  <2>2. QED
    BY <1>8, <2>1 DEF NotesAreTrue, ToBeMarked, EmitEnd, viewVars, hostVars
<1>9. QED
  BY <1>1, <1>2, <1>3, <1>4, <1>5, <1>6, <1>7, <1>8 DEF AudioThread, Emit

(* What a restore writes it will still mark, and a mark says nothing.      *)
LEMMA HostNotes ==
    ASSUME Inv, HostThread
    PROVE  NotesAreTrue'
<1> USE DEF Inv, Emitting
<1>1. CASE RestoreBegin \/ MarkAll \/ RestoreEnd
  BY <1>1 DEF NotesAreTrue, ToBeMarked, View, RestoreBegin, MarkAll, RestoreEnd, audioVars, viewVars
<1>2. ASSUME NEW p \in Params, NEW v \in Values, RestoreValue(p, v)
      PROVE  NotesAreTrue'
  BY <1>2 DEF NotesAreTrue, ToBeMarked, RestoreValue, audioVars, viewVars, hostVars
<1>3. ASSUME NEW p \in Params, Mark(p)
      PROVE  NotesAreTrue'
  <2>1. \A q \in Params : last_emitted'[q] = IF q = p THEN NaN ELSE last_emitted[q]
    BY <1>3 DEF Mark, TypeOK
  <2>2. QED
    BY <1>3, <2>1 DEF NotesAreTrue, ToBeMarked, View, Mark, audioVars, viewVars
<1>4. QED
  BY <1>1, <1>2, <1>3 DEF HostThread, MarkingThread
-----------------------------------------------------------------------------
(* The notes of what the host was told are true, in every interleaving of  *)
(* process() with the restore of a state.                                  *)
THEOREM NotesInvariant == Spec => [](TypeOK /\ NotesAreTrue)
<1>1. Inv /\ [Next]_vars => Inv'
  <2> SUFFICES ASSUME Inv, [Next]_vars PROVE Inv'
    OBVIOUS
  <2>1. CASE AudioThread
    BY <2>1, AudioTypes, AudioNotes DEF Inv
  <2>2. CASE HostThread
    BY <2>2, HostTypes, HostNotes DEF Inv
  <2>3. CASE UNCHANGED vars
    BY <2>3 DEF Inv, TypeOK, NotesAreTrue, ToBeMarked, View, vars, audioVars, viewVars, hostVars
  <2>4. QED
    BY <2>1, <2>2, <2>3 DEF Next
<1>2. Inv <=> TypeOK /\ NotesAreTrue
  BY DEF Inv
<1>3. QED
  BY <1>1, <1>2, InitInv, PTL DEF Spec

(* Every variable of the parameters keeps its type.                        *)
THEOREM TypeCorrect == Spec => []TypeOK
BY NotesInvariant, PTL

(* Between two calls of process() every difference between a control port  *)
(* and the host's idea of it is still to be found.                         *)
THEOREM NothingForgotten == Spec => []NoChangeForgotten
<1>1. TypeOK /\ NotesAreTrue => NoChangeForgotten
  <2> SUFFICES ASSUME TypeOK, NotesAreTrue, pc = "idle", NEW p \in Params \ lost,
                      told[p] # control[p], ~ToBeMarked(p)
               PROVE  last_emitted[p] # control[p]
    BY DEF NoChangeForgotten, WillBeTold
  <2>1. View(p) = told[p]
    BY DEF NotesAreTrue, View, Emitting
  <2>2. last_emitted[p] \in {NaN, told[p]} /\ control[p] \in Values
    BY <2>1 DEF NotesAreTrue, TypeOK
  <2>3. QED
    BY <2>2, ParametersAssumption
<1>2. QED
  BY <1>1, NotesInvariant, PTL
=============================================================================
