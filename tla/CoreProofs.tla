----------------------------- MODULE CoreProofs -----------------------------
(***************************************************************************)
(* Proofs about Core, for all ports, expressions and sequences.            *)
(*                                                                         *)
(* Four invariants, each proved with the help of those before it:          *)
(*   TypeInv     the types, and the position within a sequence,            *)
(*   PortInv     what holds of ports that are not registered or enabled,   *)
(*   DepsCurrent the dependency masks,                                     *)
(*   ExpressionsFollow.                                                    *)
(* The last one needs the others: a poll that evaluates a port for each    *)
(* changed bit of its mask only keeps it if the mask has all the bits, and *)
(* a port that is added only if it starts without a value.                 *)
(***************************************************************************)
EXTENDS Core, FiniteSetTheorems, NaturalsInduction, WellFoundedInduction, TLAPS

\* A sequence has values, and its position is one of them or their end.
SequenceInRange ==
    \A p \in Ports : /\ sequence[p].pos <= Len(sequence[p].values)
                     /\ sequence[p] # NoSequence => sequence[p].values # << >>

TypeInv == TypeOK /\ SequenceInRange

-----------------------------------------------------------------------------
(***************************************************************************)
(* Types.                                                                  *)
(***************************************************************************)
\* TypeOK in parts: the sets, the values, the sequences, the flags.
PortTypes ==
    /\ ports \subseteq Ports /\ enabled \subseteq ports
    /\ sexpr \in [Ports -> Exprs \cup {NoExpr}]
    /\ expr \in [Ports -> Exprs \cup {NoExpr}]
    /\ change_dep_mask \in [Ports -> SUBSET Ports]
    /\ change_mask \subseteq Ports /\ force_eval_expressions_mask \subseteq Ports
    /\ stale \subseteq Ports /\ deaf \subseteq Ports

ValueTypes ==
    /\ last_read_value \in [Ports -> Reading] /\ hw_value \in [Ports -> Reading]
    /\ change_reason \in [Ports -> {"native", "api", "sequence", "expression"}]

SequenceTypes ==
    /\ sequence \in [Ports -> Sequence] /\ requests \in 0..MaxRequests
    /\ SequenceInRange

FlagTypes == polling_enabled \in BOOLEAN /\ downloading \in BOOLEAN

\* TypeInv is the conjunction of its parts.
LEMMA TypeParts == TypeInv <=> PortTypes /\ ValueTypes /\ SequenceTypes /\ FlagTypes
BY Zenon DEF TypeInv, TypeOK, PortTypes, ValueTypes, SequenceTypes, FlagTypes

\* The fields of a port without a sequence are those of a sequence.
LEMMA NoSequenceTyped ==
    NoSequence \in Sequence /\ NoSequence.pos = 0 /\ NoSequence.values = << >>
BY DEF NoSequence, Sequence

\* An expression evaluates to a value, if it is one of those that are given.
LEMMA EvalTyped ==
    ASSUME NEW e, NEW en, NEW v
    PROVE  expr_eval(e, en, v) \in Reading
BY DEF expr_eval, Reading, Values

\* A sequence that runs has a next value, and a place for it.
LEMMA NextValueTyped ==
    ASSUME TypeInv, NEW p \in Ports, sequence[p] # NoSequence
    PROVE  /\ sequence[p].values[NextPos(sequence[p])] \in Values
           /\ Advanced(sequence[p]) \in Sequence
           /\ Advanced(sequence[p]).pos <= Len(Advanced(sequence[p]).values)
           /\ Advanced(sequence[p]).values # << >>
<1> DEFINE s == sequence[p]
<1>1. /\ s.values \in Seq(Values) /\ s.pos \in Nat /\ s.repeat \in Nat
      /\ s.pos <= Len(s.values) /\ s.values # << >>
  BY TypeParts DEF SequenceTypes, SequenceInRange, Sequence
<1>2. NextPos(s) \in 1..Len(s.values)
  BY <1>1 DEF NextPos, Ended
<1>3. s.values[NextPos(s)] \in Values
  BY <1>1, <1>2
<1>4. Advanced(s) \in Sequence
  BY <1>1, <1>2 DEF Advanced, Sequence
<1>5. QED
  BY <1>1, <1>2, <1>3, <1>4 DEF Advanced

\* The initial state is well typed.
LEMMA InitTypeInv == Init => TypeInv
<1> USE CoreAssumption
<1>1. Init => PortTypes
  BY DEF Init, PortTypes, Ports, DepMask
<1>2. Init => ValueTypes
  BY DEF Init, ValueTypes, Reading, Values
<1>3. Init => SequenceTypes
  BY NoSequenceTyped DEF Init, SequenceTypes, SequenceInRange, CoreAssumption
<1>4. Init => FlagTypes
  BY Zenon DEF Init, FlagTypes
<1>5. QED
  BY <1>1, <1>2, <1>3, <1>4, TypeParts

\* Every step keeps the types of the sets and of the expressions.
LEMMA PortTypesStep == TypeInv /\ [Next]_vars => PortTypes'
<1> SUFFICES ASSUME TypeInv, [Next]_vars
             PROVE  PortTypes'
  OBVIOUS
<1> USE CoreAssumption, TypeParts DEF PortTypes, Ports, Writable, exprs, values, masks, modes
<1>1. CASE Restart
  BY <1>1 DEF Restart, DepMask, Args
<1>2. CASE EnablePolling
  BY <1>2 DEF EnablePolling
<1>3. CASE OtaChanges
  BY <1>3 DEF OtaChanges
<1>4. ASSUME NEW due, core_poll(due)
      PROVE  PortTypes'
  BY <1>4 DEF core_poll, Poll, Evaluated
<1>5. ASSUME NEW p \in Ports, NEW v \in Reading, InputChanges(p, v)
      PROVE  PortTypes'
  BY <1>5 DEF InputChanges
<1>6. ASSUME NEW p \in Ports, PatchAttributes(p)
      PROVE  PortTypes'
  BY <1>6 DEF PatchAttributes, Rewritten
<1>7. ASSUME NEW p \in Ports, Enable(p)
      PROVE  PortTypes'
  BY <1>7 DEF Enable, Rewritten
<1>8. ASSUME NEW p \in Ports, Disable(p)
      PROVE  PortTypes'
  BY <1>8 DEF Disable
<1>9. ASSUME NEW p \in Ports, NEW e \in Exprs \cup {NoExpr}, PatchExpression(p, e)
      PROVE  PortTypes'
  BY <1>9 DEF PatchExpression, Rewritten, Args
<1>10. ASSUME NEW p \in Ports, NEW v \in Values, PatchValue(p, v)
      PROVE  PortTypes'
  BY <1>10 DEF PatchValue
<1>11. ASSUME NEW p \in Ports, NEW s \in Sequences \cup {NoSequence}, PatchSequence(p, s)
      PROVE  PortTypes'
  BY <1>11 DEF PatchSequence
<1>12. ASSUME NEW p \in Ports, OnSequenceTimer(p)
      PROVE  PortTypes'
  BY <1>12 DEF OnSequenceTimer
<1>13. ASSUME NEW p \in Ports, AddPort(p)
      PROVE  PortTypes'
  BY <1>13 DEF AddPort, DepMask
<1>14. ASSUME NEW p \in Ports, DeletePort(p)
      PROVE  PortTypes'
  BY <1>14 DEF DeletePort, Replace, DepMask
<1>15. ASSUME NEW made \in SUBSET (Inputs \cup Outputs), NEW v \in [Outputs -> Values], PutPeripherals(made, v)
       PROVE  PortTypes'
  BY <1>15 DEF PutPeripherals, Replace, DepMask
<1>16. ASSUME NEW v \in [Outputs -> Values], PutPorts(v)
       PROVE  PortTypes'
  BY <1>16 DEF PutPorts, Replace, DepMask
<1>17. CASE UNCHANGED vars
  BY <1>17 DEF vars
<1>18. QED
  BY <1>1, <1>2, <1>3, <1>4, <1>5, <1>6, <1>7, <1>8, <1>9, <1>10, <1>11,
     <1>12, <1>13, <1>14, <1>15, <1>16, <1>17 DEF Next, PollTask, GetPortValue

\* Every step keeps the types of the values.
LEMMA ValueTypesStep == TypeInv /\ [Next]_vars => ValueTypes'
<1> SUFFICES ASSUME TypeInv, [Next]_vars
             PROVE  ValueTypes'
  OBVIOUS
<1> USE CoreAssumption, TypeParts DEF ValueTypes, exprs, values, masks, modes
<1>1. CASE Restart
  BY <1>1 DEF Restart, Reading
<1>2. CASE EnablePolling
  BY <1>2 DEF EnablePolling
<1>3. CASE OtaChanges
  BY <1>3 DEF OtaChanges
<1>4. ASSUME NEW due, core_poll(due)
      PROVE  ValueTypes'
  <2>1. CASE downloading
    BY <1>4, <2>1 DEF core_poll
  <2>2. CASE ~downloading
    <3> DEFINE read == [q \in Ports |-> IF q \in Changed(due) THEN hw_value[q]
                                                            ELSE last_read_value[q]]
    <3>1. read \in [Ports -> Reading] /\ last_read_value' = read
      BY <1>4, <2>2 DEF core_poll, Poll
    <3>2. \A q \in Ports : hw_value'[q] \in {expr_eval(expr[q], enabled, read), hw_value[q]}
      BY <1>4, <2>2 DEF core_poll, Poll
    <3>3. hw_value' \in [Ports -> Reading]
      BY <1>4, <2>2, <3>2, EvalTyped DEF core_poll, Poll
    <3>4. change_reason' \in [Ports -> {"native", "api", "sequence", "expression"}]
      BY <1>4, <2>2 DEF core_poll, Poll
    <3>5. QED
      BY <3>1, <3>3, <3>4
  <2>3. QED
    BY <2>1, <2>2
<1>5. ASSUME NEW p \in Ports, NEW v \in Reading, InputChanges(p, v)
      PROVE  ValueTypes'
  BY <1>5 DEF InputChanges
<1>6. ASSUME NEW p \in Ports, PatchAttributes(p)
      PROVE  ValueTypes'
  BY <1>6 DEF PatchAttributes, EndOfPatch, Write
<1>7. ASSUME NEW p \in Ports, Enable(p)
      PROVE  ValueTypes'
  BY <1>7 DEF Enable, EndOfPatch, Write
<1>8. ASSUME NEW p \in Ports, Disable(p)
      PROVE  ValueTypes'
  BY <1>8 DEF Disable
<1>9. ASSUME NEW p \in Ports, NEW e \in Exprs \cup {NoExpr}, PatchExpression(p, e)
      PROVE  ValueTypes'
  BY <1>9 DEF PatchExpression, EndOfPatch, Write
<1>10. ASSUME NEW p \in Ports, NEW v \in Values, PatchValue(p, v)
      PROVE  ValueTypes'
  BY <1>10 DEF PatchValue, Write, Reading
<1>11. ASSUME NEW p \in Ports, NEW s \in Sequences \cup {NoSequence}, PatchSequence(p, s)
      PROVE  ValueTypes'
  BY <1>11 DEF PatchSequence
<1>12. ASSUME NEW p \in Ports, OnSequenceTimer(p)
      PROVE  ValueTypes'
  BY <1>12, NextValueTyped DEF OnSequenceTimer, Write, Reading
<1>13. ASSUME NEW p \in Ports, AddPort(p)
      PROVE  ValueTypes'
  BY <1>13 DEF AddPort
<1>14. ASSUME NEW p \in Ports, DeletePort(p)
      PROVE  ValueTypes'
  BY <1>14 DEF DeletePort, Replace, NoStart, Reading
<1>15. ASSUME NEW made \in SUBSET (Inputs \cup Outputs), NEW v \in [Outputs -> Values], PutPeripherals(made, v)
       PROVE  ValueTypes'
  BY <1>15 DEF PutPeripherals, Replace, Reading, NoStart
<1>16. ASSUME NEW v \in [Outputs -> Values], PutPorts(v)
       PROVE  ValueTypes'
  BY <1>16 DEF PutPorts, Replace, Reading, NoStart
<1>17. CASE UNCHANGED vars
  BY <1>17 DEF vars
<1>18. QED
  BY <1>1, <1>2, <1>3, <1>4, <1>5, <1>6, <1>7, <1>8, <1>9, <1>10, <1>11,
     <1>12, <1>13, <1>14, <1>15, <1>16, <1>17 DEF Next, PollTask, GetPortValue

\* Every step keeps the types of the sequences, and their positions in range.
LEMMA SequenceTypesStep == TypeInv /\ [Next]_vars => SequenceTypes'
<1> SUFFICES ASSUME TypeInv, [Next]_vars
             PROVE  SequenceTypes'
  OBVIOUS
<1> USE CoreAssumption, TypeParts, NoSequenceTyped
        DEF SequenceTypes, SequenceInRange, exprs, values, masks, modes, Request, CancelSequence
<1>1. CASE Restart
  BY <1>1 DEF Restart
<1>2. CASE EnablePolling
  BY <1>2 DEF EnablePolling
<1>3. CASE OtaChanges
  BY <1>3 DEF OtaChanges
<1>4. ASSUME NEW due, core_poll(due)
      PROVE  SequenceTypes'
  BY <1>4 DEF core_poll
<1>5. ASSUME NEW p \in Ports, NEW v \in Reading, InputChanges(p, v)
      PROVE  SequenceTypes'
  BY <1>5 DEF InputChanges
<1>6. ASSUME NEW p \in Ports, PatchAttributes(p)
      PROVE  SequenceTypes'
  BY <1>6 DEF PatchAttributes
<1>7. ASSUME NEW p \in Ports, Enable(p)
      PROVE  SequenceTypes'
  BY <1>7 DEF Enable
<1>8. ASSUME NEW p \in Ports, Disable(p)
      PROVE  SequenceTypes'
  BY <1>8 DEF Disable
<1>9. ASSUME NEW p \in Ports, NEW e \in Exprs \cup {NoExpr}, PatchExpression(p, e)
      PROVE  SequenceTypes'
  BY <1>9 DEF PatchExpression
<1>10. ASSUME NEW p \in Ports, NEW v \in Values, PatchValue(p, v)
      PROVE  SequenceTypes'
  BY <1>10 DEF PatchValue
<1>11. ASSUME NEW p \in Ports, NEW s \in Sequences \cup {NoSequence}, PatchSequence(p, s)
      PROVE  SequenceTypes'
  BY <1>11 DEF PatchSequence, CoreAssumption
<1>12. ASSUME NEW p \in Ports, OnSequenceTimer(p)
      PROVE  SequenceTypes'
  BY <1>12, NextValueTyped DEF OnSequenceTimer
<1>13. ASSUME NEW p \in Ports, AddPort(p)
      PROVE  SequenceTypes'
  BY <1>13 DEF AddPort
<1>14. ASSUME NEW p \in Ports, DeletePort(p)
      PROVE  SequenceTypes'
  BY <1>14 DEF DeletePort, Replace
<1>15. ASSUME NEW made \in SUBSET (Inputs \cup Outputs), NEW v \in [Outputs -> Values], PutPeripherals(made, v)
       PROVE  SequenceTypes'
  BY <1>15 DEF PutPeripherals, Replace
<1>16. ASSUME NEW v \in [Outputs -> Values], PutPorts(v)
       PROVE  SequenceTypes'
  BY <1>16 DEF PutPorts, Replace
<1>17. CASE UNCHANGED vars
  BY <1>17 DEF vars
<1>18. QED
  BY <1>1, <1>2, <1>3, <1>4, <1>5, <1>6, <1>7, <1>8, <1>9, <1>10, <1>11,
     <1>12, <1>13, <1>14, <1>15, <1>16, <1>17 DEF Next, PollTask, GetPortValue

\* Every step keeps the flags Boolean.
LEMMA FlagTypesStep == TypeInv /\ [Next]_vars => FlagTypes'
<1> SUFFICES ASSUME TypeInv, [Next]_vars
             PROVE  FlagTypes'
  OBVIOUS
<1> USE TypeParts DEF FlagTypes
<1>1. CASE Restart
  BY Zenon, <1>1 DEF Restart
<1>2. CASE EnablePolling
  BY Zenon, <1>2 DEF EnablePolling
<1>3. CASE OtaChanges
  BY Zenon, <1>3 DEF OtaChanges
<1>4. ASSUME NEW due, core_poll(due)
      PROVE  FlagTypes'
  BY Zenon, <1>4 DEF core_poll, modes
<1>5. ASSUME NEW p \in Ports, NEW v \in Reading, InputChanges(p, v)
      PROVE  FlagTypes'
  BY Zenon, <1>5 DEF InputChanges, modes
<1>6. ASSUME NEW p \in Ports, PatchAttributes(p)
      PROVE  FlagTypes'
  BY Zenon, <1>6 DEF PatchAttributes, modes
<1>7. ASSUME NEW p \in Ports, Enable(p)
      PROVE  FlagTypes'
  BY Zenon, <1>7 DEF Enable, modes
<1>8. ASSUME NEW p \in Ports, Disable(p)
      PROVE  FlagTypes'
  BY Zenon, <1>8 DEF Disable, modes
<1>9. ASSUME NEW p \in Ports, NEW e \in Exprs \cup {NoExpr}, PatchExpression(p, e)
      PROVE  FlagTypes'
  BY Zenon, <1>9 DEF PatchExpression, modes
<1>10. ASSUME NEW p \in Ports, NEW v \in Values, PatchValue(p, v)
      PROVE  FlagTypes'
  BY Zenon, <1>10 DEF PatchValue, modes
<1>11. ASSUME NEW p \in Ports, NEW s \in Sequences \cup {NoSequence}, PatchSequence(p, s)
      PROVE  FlagTypes'
  BY Zenon, <1>11 DEF PatchSequence, modes
<1>12. ASSUME NEW p \in Ports, OnSequenceTimer(p)
      PROVE  FlagTypes'
  BY Zenon, <1>12 DEF OnSequenceTimer, modes
<1>13. ASSUME NEW p \in Ports, AddPort(p)
      PROVE  FlagTypes'
  BY Zenon, <1>13 DEF AddPort, modes
<1>14. ASSUME NEW p \in Ports, DeletePort(p)
      PROVE  FlagTypes'
  BY Zenon, <1>14 DEF DeletePort, Replace, modes
<1>15. ASSUME NEW made \in SUBSET (Inputs \cup Outputs), NEW v \in [Outputs -> Values], PutPeripherals(made, v)
       PROVE  FlagTypes'
  BY Zenon, <1>15 DEF PutPeripherals, Replace, modes
<1>16. ASSUME NEW v \in [Outputs -> Values], PutPorts(v)
       PROVE  FlagTypes'
  BY Zenon, <1>16 DEF PutPorts, Replace, modes
<1>17. CASE UNCHANGED vars
  BY Zenon, <1>17 DEF vars, modes
<1>18. QED
  BY <1>1, <1>2, <1>3, <1>4, <1>5, <1>6, <1>7, <1>8, <1>9, <1>10, <1>11,
     <1>12, <1>13, <1>14, <1>15, <1>16, <1>17 DEF Next, PollTask, GetPortValue

\* TypeInv is inductive.
LEMMA TypeInvStep == TypeInv /\ [Next]_vars => TypeInv'
<1>1. SUFFICES ASSUME TypeInv, [Next]_vars PROVE TypeInv'
  OBVIOUS
<1>2. (TypeInv <=> PortTypes /\ ValueTypes /\ SequenceTypes /\ FlagTypes)'
  BY TypeParts, PTL
<1>3. QED
  BY <1>1, <1>2, PortTypesStep, ValueTypesStep, SequenceTypesStep, FlagTypesStep

\* The types of the model are right, and a sequence is never read past its
\* end, in every behaviour.
THEOREM TypeCorrect == Spec => []TypeInv
<1>1. QED
  BY InitTypeInv, TypeInvStep, PTL DEF Spec

\* The invariant TypeOK of the runs.
THEOREM TypeOKHolds == Spec => []TypeOK
<1>1. TypeInv => TypeOK
  BY DEF TypeInv
<1>2. QED
  BY <1>1, TypeCorrect, PTL

-----------------------------------------------------------------------------
(***************************************************************************)
(* Expressions and sequences exclude each other.                           *)
(***************************************************************************)
\* A port that is not registered has no expression, and no value that an
\* expression could take for its own.
AbsentPorts ==
    \A p \in Ports \ ports :
        sexpr[p] = NoExpr /\ expr[p] = NoExpr /\ last_read_value[p] = Undefined

\* Only enabled ports have a parsed expression, only writable ones any.
ParsedExprs ==
    \A p \in Ports : /\ sexpr[p] # NoExpr => p \in Writable
                     /\ expr[p] # NoExpr => p \in enabled \cap Writable

PortInv == AbsentPorts /\ ParsedExprs /\ SequenceExclusive

\* The ports of the peripherals are there from the start, without sequences.
LEMMA InitPortInv == Init => PortInv
<1>1. Init => AbsentPorts
  BY CoreAssumption DEF Init, AbsentPorts, Ports
<1>2. Init => ParsedExprs
  BY CoreAssumption DEF Init, ParsedExprs, Ports, Writable
<1>3. Init => SequenceExclusive
  BY DEF Init, SequenceExclusive
<1>4. QED
  BY <1>1, <1>2, <1>3 DEF PortInv

\* A port that is removed loses what it had; one that is not there gets nothing.
LEMMA AbsentPortsStep == TypeInv /\ PortInv /\ [Next]_vars => AbsentPorts'
<1> SUFFICES ASSUME TypeInv, PortInv, [Next]_vars
             PROVE  AbsentPorts'
  OBVIOUS
<1> USE CoreAssumption, TypeParts DEF PortTypes, Ports, Writable, exprs, values, masks, modes, PortInv, AbsentPorts
<1>1. CASE Restart
  BY <1>1 DEF Restart
<1>2. CASE EnablePolling
  BY <1>2 DEF EnablePolling
<1>3. CASE OtaChanges
  BY <1>3 DEF OtaChanges
<1>4. ASSUME NEW due, core_poll(due)
      PROVE  AbsentPorts'
  BY <1>4 DEF core_poll, Poll, Changed
<1>5. ASSUME NEW p \in Ports, NEW v \in Reading, InputChanges(p, v)
      PROVE  AbsentPorts'
  BY <1>5 DEF InputChanges
<1>6. ASSUME NEW p \in Ports, PatchAttributes(p)
      PROVE  AbsentPorts'
  BY <1>6 DEF PatchAttributes
<1>7. ASSUME NEW p \in Ports, Enable(p)
      PROVE  AbsentPorts'
  BY <1>7 DEF Enable
<1>8. ASSUME NEW p \in Ports, Disable(p)
      PROVE  AbsentPorts'
  BY <1>8 DEF Disable
<1>9. ASSUME NEW p \in Ports, NEW e \in Exprs \cup {NoExpr}, PatchExpression(p, e)
      PROVE  AbsentPorts'
  BY <1>9 DEF PatchExpression
<1>10. ASSUME NEW p \in Ports, NEW v \in Values, PatchValue(p, v)
      PROVE  AbsentPorts'
  BY <1>10 DEF PatchValue
<1>11. ASSUME NEW p \in Ports, NEW s \in Sequences \cup {NoSequence}, PatchSequence(p, s)
      PROVE  AbsentPorts'
  BY <1>11 DEF PatchSequence
<1>12. ASSUME NEW p \in Ports, OnSequenceTimer(p)
      PROVE  AbsentPorts'
  BY <1>12 DEF OnSequenceTimer
<1>13. ASSUME NEW p \in Ports, AddPort(p)
      PROVE  AbsentPorts'
  BY <1>13 DEF AddPort
<1>14. ASSUME NEW p \in Ports, DeletePort(p)
      PROVE  AbsentPorts'
  BY <1>14 DEF DeletePort, Replace, ValueTypes
<1>15. ASSUME NEW made \in SUBSET (Inputs \cup Outputs), NEW v \in [Outputs -> Values], PutPeripherals(made, v)
       PROVE  AbsentPorts'
  BY <1>15 DEF PutPeripherals, Replace
<1>16. ASSUME NEW v \in [Outputs -> Values], PutPorts(v)
       PROVE  AbsentPorts'
  BY <1>16 DEF PutPorts, Replace
<1>17. CASE UNCHANGED vars
  BY <1>17 DEF vars
<1>18. QED
  BY <1>1, <1>2, <1>3, <1>4, <1>5, <1>6, <1>7, <1>8, <1>9, <1>10, <1>11,
     <1>12, <1>13, <1>14, <1>15, <1>16, <1>17 DEF Next, PollTask, GetPortValue

\* Operations that disable or remove a port also drop its parsed expression.
LEMMA ParsedExprsStep == TypeInv /\ PortInv /\ [Next]_vars => ParsedExprs'
<1> SUFFICES ASSUME TypeInv, PortInv, [Next]_vars
             PROVE  ParsedExprs'
  OBVIOUS
<1> USE CoreAssumption, TypeParts DEF PortTypes, Ports, Writable, exprs, values, masks, modes, PortInv, ParsedExprs
<1>1. CASE Restart
  BY <1>1 DEF Restart
<1>2. CASE EnablePolling
  BY <1>2 DEF EnablePolling
<1>3. CASE OtaChanges
  BY <1>3 DEF OtaChanges
<1>4. ASSUME NEW due, core_poll(due)
      PROVE  ParsedExprs'
  BY <1>4 DEF core_poll
<1>5. ASSUME NEW p \in Ports, NEW v \in Reading, InputChanges(p, v)
      PROVE  ParsedExprs'
  BY <1>5 DEF InputChanges
<1>6. ASSUME NEW p \in Ports, PatchAttributes(p)
      PROVE  ParsedExprs'
  BY <1>6 DEF PatchAttributes
<1>7. ASSUME NEW p \in Ports, Enable(p)
      PROVE  ParsedExprs'
  BY <1>7 DEF Enable
<1>8. ASSUME NEW p \in Ports, Disable(p)
      PROVE  ParsedExprs'
  BY <1>8 DEF Disable
<1>9. ASSUME NEW p \in Ports, NEW e \in Exprs \cup {NoExpr}, PatchExpression(p, e)
      PROVE  ParsedExprs'
  BY <1>9 DEF PatchExpression
<1>10. ASSUME NEW p \in Ports, NEW v \in Values, PatchValue(p, v)
      PROVE  ParsedExprs'
  BY <1>10 DEF PatchValue
<1>11. ASSUME NEW p \in Ports, NEW s \in Sequences \cup {NoSequence}, PatchSequence(p, s)
      PROVE  ParsedExprs'
  BY <1>11 DEF PatchSequence
<1>12. ASSUME NEW p \in Ports, OnSequenceTimer(p)
      PROVE  ParsedExprs'
  BY <1>12 DEF OnSequenceTimer
<1>13. ASSUME NEW p \in Ports, AddPort(p)
      PROVE  ParsedExprs'
  BY <1>13 DEF AddPort
<1>14. ASSUME NEW p \in Ports, DeletePort(p)
      PROVE  ParsedExprs'
  BY <1>14 DEF DeletePort, Replace
<1>15. ASSUME NEW made \in SUBSET (Inputs \cup Outputs), NEW v \in [Outputs -> Values], PutPeripherals(made, v)
       PROVE  ParsedExprs'
  BY <1>15 DEF PutPeripherals, Replace
<1>16. ASSUME NEW v \in [Outputs -> Values], PutPorts(v)
       PROVE  ParsedExprs'
  BY <1>16 DEF PutPorts, Replace
<1>17. CASE UNCHANGED vars
  BY <1>17 DEF vars
<1>18. QED
  BY <1>1, <1>2, <1>3, <1>4, <1>5, <1>6, <1>7, <1>8, <1>9, <1>10, <1>11,
     <1>12, <1>13, <1>14, <1>15, <1>16, <1>17 DEF Next, PollTask, GetPortValue

\* A step that gives a port an expression, disables or removes it leaves it
\* without a sequence: port_enable() finds none, since port_disable() took it.
LEMMA SequenceExclusiveStep == TypeInv /\ PortInv /\ [Next]_vars => SequenceExclusive'
<1> SUFFICES ASSUME TypeInv, PortInv, [Next]_vars
             PROVE  SequenceExclusive'
  OBVIOUS
<1> USE CoreAssumption, TypeParts DEF PortTypes, Ports, Writable, exprs, values, masks, modes, PortInv, SequenceExclusive, SequenceTypes, CancelSequence, ParsedExprs
<1>1. CASE Restart
  BY <1>1 DEF Restart
<1>2. CASE EnablePolling
  BY <1>2 DEF EnablePolling
<1>3. CASE OtaChanges
  BY <1>3 DEF OtaChanges
<1>4. ASSUME NEW due, core_poll(due)
      PROVE  SequenceExclusive'
  BY <1>4 DEF core_poll
<1>5. ASSUME NEW p \in Ports, NEW v \in Reading, InputChanges(p, v)
      PROVE  SequenceExclusive'
  BY <1>5 DEF InputChanges
<1>6. ASSUME NEW p \in Ports, PatchAttributes(p)
      PROVE  SequenceExclusive'
  BY <1>6 DEF PatchAttributes
<1>7. ASSUME NEW p \in Ports, Enable(p)
      PROVE  SequenceExclusive'
  BY <1>7 DEF Enable
<1>8. ASSUME NEW p \in Ports, Disable(p)
      PROVE  SequenceExclusive'
  BY <1>8 DEF Disable
<1>9. ASSUME NEW p \in Ports, NEW e \in Exprs \cup {NoExpr}, PatchExpression(p, e)
      PROVE  SequenceExclusive'
  BY <1>9 DEF PatchExpression
<1>10. ASSUME NEW p \in Ports, NEW v \in Values, PatchValue(p, v)
      PROVE  SequenceExclusive'
  BY <1>10 DEF PatchValue
<1>11. ASSUME NEW p \in Ports, NEW s \in Sequences \cup {NoSequence}, PatchSequence(p, s)
      PROVE  SequenceExclusive'
  BY <1>11 DEF PatchSequence
<1>12. ASSUME NEW p \in Ports, OnSequenceTimer(p)
      PROVE  SequenceExclusive'
  BY <1>12 DEF OnSequenceTimer
<1>13. ASSUME NEW p \in Ports, AddPort(p)
      PROVE  SequenceExclusive'
  BY <1>13 DEF AddPort
<1>14. ASSUME NEW p \in Ports, DeletePort(p)
      PROVE  SequenceExclusive'
  BY <1>14 DEF DeletePort, Replace
<1>15. ASSUME NEW made \in SUBSET (Inputs \cup Outputs), NEW v \in [Outputs -> Values], PutPeripherals(made, v)
       PROVE  SequenceExclusive'
  BY <1>15 DEF PutPeripherals, Replace
<1>16. ASSUME NEW v \in [Outputs -> Values], PutPorts(v)
       PROVE  SequenceExclusive'
  BY <1>16 DEF PutPorts, Replace
<1>17. CASE UNCHANGED vars
  BY <1>17 DEF vars
<1>18. QED
  BY <1>1, <1>2, <1>3, <1>4, <1>5, <1>6, <1>7, <1>8, <1>9, <1>10, <1>11,
     <1>12, <1>13, <1>14, <1>15, <1>16, <1>17 DEF Next, PollTask, GetPortValue

\* PortInv is inductive when the types are right.
LEMMA PortInvStep == TypeInv /\ PortInv /\ [Next]_vars => PortInv'
BY AbsentPortsStep, ParsedExprsStep, SequenceExclusiveStep DEF PortInv

\* PortInv holds in every behaviour.
LEMMA PortInvHolds == Spec => []PortInv
BY InitPortInv, PortInvStep, TypeCorrect, PTL DEF Spec

\* A sequence never runs on a port that has an expression, or is disabled.
THEOREM SequencesExclusive == Spec => []SequenceExclusive
<1>1. PortInv => SequenceExclusive
  BY DEF PortInv
<1>2. QED
  BY <1>1, PortInvHolds, PTL

-----------------------------------------------------------------------------
(***************************************************************************)
(* The dependency masks are current.                                       *)
(***************************************************************************)
\* They are built from the expressions at the start.
LEMMA InitDepsCurrent == Init => DepsCurrent
BY DEF Init, DepsCurrent, DepMask

\* Every step that changes the expressions or the ports rebuilds the masks.
LEMMA DepsCurrentStep == TypeInv /\ PortInv /\ DepsCurrent /\ [Next]_vars => DepsCurrent'
<1> SUFFICES ASSUME TypeInv, PortInv, DepsCurrent, [Next]_vars
             PROVE  DepsCurrent'
  OBVIOUS
<1> USE TypeParts DEF PortTypes, DepsCurrent, exprs, values, masks, modes
<1>1. CASE Restart
  BY <1>1 DEF Restart, DepMask
<1>2. CASE EnablePolling
  BY <1>2 DEF EnablePolling
<1>3. CASE OtaChanges
  BY <1>3 DEF OtaChanges
<1>4. ASSUME NEW due, core_poll(due)
      PROVE  DepsCurrent'
  BY <1>4 DEF core_poll
<1>5. ASSUME NEW p \in Ports, NEW v \in Reading, InputChanges(p, v)
      PROVE  DepsCurrent'
  BY <1>5 DEF InputChanges
<1>6. ASSUME NEW p \in Ports, PatchAttributes(p)
      PROVE  DepsCurrent'
  BY <1>6 DEF PatchAttributes
<1>7. ASSUME NEW p \in Ports, Enable(p)
      PROVE  DepsCurrent'
  BY <1>7 DEF Enable
<1>8. ASSUME NEW p \in Ports, Disable(p)
      PROVE  DepsCurrent'
  BY <1>8 DEF Disable
<1>9. ASSUME NEW p \in Ports, NEW e \in Exprs \cup {NoExpr}, PatchExpression(p, e)
      PROVE  DepsCurrent'
  BY <1>9 DEF PatchExpression, Args
<1>10. ASSUME NEW p \in Ports, NEW v \in Values, PatchValue(p, v)
      PROVE  DepsCurrent'
  BY <1>10 DEF PatchValue
<1>11. ASSUME NEW p \in Ports, NEW s \in Sequences \cup {NoSequence}, PatchSequence(p, s)
      PROVE  DepsCurrent'
  BY <1>11 DEF PatchSequence
<1>12. ASSUME NEW p \in Ports, OnSequenceTimer(p)
      PROVE  DepsCurrent'
  BY <1>12 DEF OnSequenceTimer
<1>13. ASSUME NEW p \in Ports, AddPort(p)
      PROVE  DepsCurrent'
  BY <1>13 DEF AddPort, DepMask
<1>14. ASSUME NEW p \in Ports, DeletePort(p)
      PROVE  DepsCurrent'
  BY <1>14 DEF DeletePort, Replace, DepMask
<1>15. ASSUME NEW made \in SUBSET (Inputs \cup Outputs), NEW v \in [Outputs -> Values], PutPeripherals(made, v)
       PROVE  DepsCurrent'
  BY <1>15 DEF PutPeripherals, Replace, DepMask
<1>16. ASSUME NEW v \in [Outputs -> Values], PutPorts(v)
       PROVE  DepsCurrent'
  BY <1>16 DEF PutPorts, Replace, PortInv, AbsentPorts
<1>17. CASE UNCHANGED vars
  BY <1>17 DEF vars
<1>18. QED
  BY <1>1, <1>2, <1>3, <1>4, <1>5, <1>6, <1>7, <1>8, <1>9, <1>10, <1>11,
     <1>12, <1>13, <1>14, <1>15, <1>16, <1>17 DEF Next, PollTask, GetPortValue

\* The mask of a port has the bits of the ports its expression names, none that
\* was made again by PUT /peripherals missing but from the masks recorded in
\* `deaf`, and no other bits.
THEOREM DepsAreCurrent == Spec => []DepsCurrent
<1>1. TypeInv /\ PortInv /\ DepsCurrent /\ [Next]_vars => DepsCurrent'
  BY DepsCurrentStep
<1>2. QED
  BY <1>1, InitDepsCurrent, TypeCorrect, PortInvHolds, PTL DEF Spec

-----------------------------------------------------------------------------
(***************************************************************************)
(* Ports follow their expressions.                                         *)
(***************************************************************************)
\* What an expression evaluates to depends on its arguments only.
LEMMA EvalFrame ==
    ASSUME NEW e, NEW en, NEW v, NEW en2, NEW v2, e # NoExpr,
           \A q \in Args(e) : (q \in en <=> q \in en2) /\ v[q] = v2[q]
    PROVE  expr_eval(e, en, v) = expr_eval(e, en2, v2)
BY DEF expr_eval, Args

\* An argument that is disabled, or has no value, makes it undefined.
LEMMA EvalUndefined ==
    ASSUME NEW e, NEW en, NEW v, e # NoExpr,
           NEW q \in Args(e), q \notin en \/ v[q] = Undefined
    PROVE  expr_eval(e, en, v) = Undefined
BY DEF expr_eval, Args

\* A step that leaves the port, its expression and the arguments of that
\* alone leaves the port as its expression says.
LEMMA FollowFrame ==
    ASSUME ExpressionsFollow, NEW r \in Following' \ (stale' \cup deaf'),
           r \in enabled \cap Writable, expr'[r] = expr[r],
           r \notin force_eval_expressions_mask \cup stale \cup deaf,
           hw_value'[r] = hw_value[r],
           \A q \in Args(expr[r]) : /\ q \in enabled <=> q \in enabled'
                                    /\ last_read_value[q] = last_read_value'[q]
    PROVE  AsExpression(r)'
<1>1. expr[r] # NoExpr /\ r \notin Args(expr[r])
  BY DEF Following
<1>2. expr_eval(expr[r], enabled, last_read_value)
          = expr_eval(expr'[r], enabled', last_read_value')
  BY <1>1, EvalFrame
<1>3. r \in Following \ (stale \cup deaf)
  BY <1>1, <1>2 DEF Following
<1>4. QED
  BY <1>2, <1>3 DEF ExpressionsFollow, AsExpression

\* An expression names ports.
LEMMA ArgsArePorts ==
    ASSUME TypeInv, NEW r \in Ports
    PROVE  Args(expr[r]) \subseteq Ports
BY TypeParts, CoreAssumption DEF PortTypes, Args, CoreAssumption, Expr

\* The end of a PATCH gives another value only to a port in Rewritten().
LEMMA EndOfPatchFrame ==
    ASSUME TypeInv, NEW p \in Ports, NEW r \in Ports, NEW en, NEW updated,
           EndOfPatch(p, en, updated), r \notin Rewritten(p, en)
    PROVE  hw_value'[r] = hw_value[r]
<1>1. CASE Rewrites(p, en)
  <2>1. hw_value' = [hw_value EXCEPT ![p] = last_read_value[p]]
    BY <1>1 DEF EndOfPatch, Write
  <2>2. r = p => last_read_value[p] = hw_value[p]
    BY <1>1 DEF Rewritten
  <2>3. QED
    BY <2>1, <2>2, TypeParts DEF ValueTypes
<1>2. CASE ~Rewrites(p, en)
  BY <1>2 DEF EndOfPatch
<1>3. QED
  BY <1>1, <1>2

\* Every expression is due to be evaluated at the start.
LEMMA InitExpressionsFollow == Init => ExpressionsFollow
BY DEF Init, ExpressionsFollow, Following, Ports, Writable

\* A poll evaluates the ports with a forced or a changed bit; the arguments
\* of the others have not changed, since the masks are current.
LEMMA PollFollows ==
    ASSUME TypeInv, PortInv, DepsCurrent, ExpressionsFollow,
           NEW due, core_poll(due)
    PROVE  ExpressionsFollow'
<1> SUFFICES ASSUME NEW r \in Following' \ (stale' \cup deaf')
             PROVE  AsExpression(r)'
  BY DEF ExpressionsFollow
<1> USE TypeParts DEF PortTypes
<1>1. /\ r \in enabled \cap Writable /\ expr'[r] = expr[r] /\ enabled' = enabled
      /\ expr[r] # NoExpr /\ r \notin Args(expr[r]) /\ r \in Ports
  BY DEF core_poll, exprs, Following
<1>2. CASE downloading
  BY <1>1, <1>2, FollowFrame DEF core_poll, values, masks, Following
<1>3. CASE ~downloading
  <2> DEFINE changed   == Changed(due)
             byExpression == {p \in changed : change_reason[p] = "expression"}
             read      == [p \in Ports |-> IF p \in changed THEN hw_value[p]
                                                            ELSE last_read_value[p]]
             evaluated == Evaluated(change_mask \cup changed, byExpression)
             result(p) == expr_eval(expr[p], enabled, read)
             written   == {p \in evaluated : result(p) \notin {Undefined, read[p]}}
  <2>1. Poll(due)
    BY <1>3 DEF core_poll
  <2>2. /\ last_read_value' = read
        /\ hw_value'[r] = IF r \in written THEN result(r) ELSE hw_value[r]
        /\ stale' = (stale \ evaluated) \cup
                {p \in evaluated : result(p) = read[p] /\ hw_value[p] # read[p]}
    BY <2>1, <1>1 DEF Poll
  <2>3. result(r) # Undefined /\ (AsExpression(r)' <=> hw_value'[r] = result(r))
    BY <1>1, <2>2 DEF Following, AsExpression
  <2>4. CASE r \in evaluated
    BY <2>2, <2>3, <2>4
  <2>5. CASE r \notin evaluated
    <3>1. ~Skipped(r, change_mask \cup changed, byExpression)
      BY <1>1 DEF Skipped, DepsCurrent
    <3>2. /\ r \notin force_eval_expressions_mask
          /\ (change_mask \cup changed) \cap change_dep_mask[r] = {}
      BY <1>1, <2>5, <3>1 DEF Evaluated
    <3>3. \A q \in Args(expr[r]) : q \notin changed
      <4>1. r \notin deaf
        BY DEF core_poll
      <4>2. change_dep_mask[r] = Args(expr[r]) \cap ports
        BY <1>1, <4>1 DEF DepsCurrent
      <4>3. QED
        BY <3>2, <4>2 DEF Changed
    <3>4. \A q \in Args(expr[r]) : last_read_value[q] = last_read_value'[q]
      <4>1. \A q \in Args(expr[r]) : q \in Ports
        BY <1>1, CoreAssumption DEF Args, CoreAssumption, Expr
      <4>2. QED
        BY <2>2, <3>3, <4>1
    <3>5. r \notin stale \cup deaf /\ hw_value'[r] = hw_value[r]
      BY <2>2, <2>5 DEF core_poll
    <3>6. QED
      BY <1>1, <3>2, <3>4, <3>5, FollowFrame
  <2>6. QED
    BY <2>4, <2>5
<1>4. QED
  BY <1>2, <1>3

\* Every step leaves the ports as their expressions say, has them evaluated
\* by the next poll, or records them in `stale`.
LEMMA ExpressionsFollowStep == TypeInv /\ PortInv /\ DepsCurrent /\ ExpressionsFollow /\ [Next]_vars => ExpressionsFollow'
<1> SUFFICES ASSUME TypeInv, PortInv, DepsCurrent, ExpressionsFollow, [Next]_vars
             PROVE  ExpressionsFollow'
  OBVIOUS
<1> USE TypeParts DEF PortTypes, exprs, values, masks, modes
<1>1. CASE Restart
  BY <1>1 DEF Restart, ExpressionsFollow, Following
<1>2. CASE EnablePolling
  <2> SUFFICES ASSUME NEW r \in Following' \ (stale' \cup deaf') PROVE AsExpression(r)'
    BY DEF ExpressionsFollow
  <2>1. QED
    BY <1>2, FollowFrame DEF EnablePolling, Following
<1>3. CASE OtaChanges
  <2> SUFFICES ASSUME NEW r \in Following' \ (stale' \cup deaf') PROVE AsExpression(r)'
    BY DEF ExpressionsFollow
  <2>1. QED
    BY <1>3, FollowFrame DEF OtaChanges, Following
<1>4. ASSUME NEW due, core_poll(due)
      PROVE  ExpressionsFollow'
  BY <1>4, PollFollows
<1>5. ASSUME NEW p \in Ports, NEW v \in Reading, InputChanges(p, v)
      PROVE  ExpressionsFollow'
  <2> SUFFICES ASSUME NEW r \in Following' \ (stale' \cup deaf') PROVE AsExpression(r)'
    BY DEF ExpressionsFollow
  <2>1. r # p
    BY <1>5, CoreAssumption DEF InputChanges, Following, CoreAssumption, Writable
  <2>2. QED
    BY <1>5, <2>1, FollowFrame DEF InputChanges, Following, ValueTypes
<1>6. ASSUME NEW p \in Ports, PatchAttributes(p)
      PROVE  ExpressionsFollow'
  <2> SUFFICES ASSUME NEW r \in Following' \ (stale' \cup deaf') PROVE AsExpression(r)'
    BY DEF ExpressionsFollow
  <2>1. hw_value'[r] = hw_value[r]
    BY <1>6, EndOfPatchFrame DEF PatchAttributes, Following
  <2>2. QED
    BY <1>6, <2>1, FollowFrame DEF PatchAttributes, Following
<1>7. ASSUME NEW p \in Ports, Enable(p)
      PROVE  ExpressionsFollow'
  <2> SUFFICES ASSUME NEW r \in Following' \ (stale' \cup deaf') PROVE AsExpression(r)'
    BY DEF ExpressionsFollow
  <2>1. r # p
    BY <1>7 DEF Enable, Following
  <2>2. r \notin stale /\ p \notin Args(expr[r]) /\ expr'[r] = expr[r]
    BY <1>7, <2>1 DEF Enable, Following
  <2>3. hw_value'[r] = hw_value[r]
    BY <1>7, EndOfPatchFrame DEF Enable, Following
  <2>4. QED
    BY <1>7, <2>1, <2>2, <2>3, FollowFrame DEF Enable, Following
<1>8. ASSUME NEW p \in Ports, Disable(p)
      PROVE  ExpressionsFollow'
  <2> SUFFICES ASSUME NEW r \in Following' \ (stale' \cup deaf') PROVE AsExpression(r)'
    BY DEF ExpressionsFollow
  <2>1. r # p /\ expr'[r] = expr[r] /\ expr[r] # NoExpr
    BY <1>8 DEF Disable, Following
  <2>2. p \notin Args(expr[r])
    BY <1>8, <2>1, EvalUndefined DEF Disable, Following
  <2>3. QED
    BY <1>8, <2>1, <2>2, FollowFrame DEF Disable, Following
<1>9. ASSUME NEW p \in Ports, NEW e \in Exprs \cup {NoExpr}, PatchExpression(p, e)
      PROVE  ExpressionsFollow'
  <2> SUFFICES ASSUME NEW r \in Following' \ (stale' \cup deaf') PROVE AsExpression(r)'
    BY DEF ExpressionsFollow
  <2>1. r # p
    BY <1>9 DEF PatchExpression, Following
  <2>2. /\ expr'[r] = expr[r] /\ hw_value'[r] = hw_value[r]
        /\ r \notin force_eval_expressions_mask \cup stale \cup deaf
    BY <1>9, <2>1 DEF PatchExpression, EndOfPatch, Write, ValueTypes, Following
  <2>3. QED
    BY <1>9, <2>1, <2>2, FollowFrame DEF PatchExpression, Following
<1>10. ASSUME NEW p \in Ports, NEW v \in Values, PatchValue(p, v)
      PROVE  ExpressionsFollow'
  <2> SUFFICES ASSUME NEW r \in Following' \ (stale' \cup deaf') PROVE AsExpression(r)'
    BY DEF ExpressionsFollow
  <2>1. hw_value'[r] = hw_value[r]
    BY <1>10 DEF PatchValue, Write, ValueTypes
  <2>2. QED
    BY <1>10, <2>1, FollowFrame DEF PatchValue, Following
<1>11. ASSUME NEW p \in Ports, NEW s \in Sequences \cup {NoSequence}, PatchSequence(p, s)
      PROVE  ExpressionsFollow'
  <2> SUFFICES ASSUME NEW r \in Following' \ (stale' \cup deaf') PROVE AsExpression(r)'
    BY DEF ExpressionsFollow
  <2>1. QED
    BY <1>11, FollowFrame DEF PatchSequence, Following
<1>12. ASSUME NEW p \in Ports, OnSequenceTimer(p)
      PROVE  ExpressionsFollow'
  <2> SUFFICES ASSUME NEW r \in Following' \ (stale' \cup deaf') PROVE AsExpression(r)'
    BY DEF ExpressionsFollow
  <2>1. r # p
    BY <1>12 DEF OnSequenceTimer, Following, PortInv, SequenceExclusive
  <2>2. CASE CancelSequence(p) /\ UNCHANGED values
    BY <1>12, <2>2, FollowFrame DEF OnSequenceTimer, Following
  <2>3. CASE Write(p, sequence[p].values[NextPos(sequence[p])], "sequence") /\ UNCHANGED last_read_value
    <3>1. hw_value'[r] = hw_value[r]
      BY <2>1, <2>3 DEF Write, ValueTypes, Following
    <3>2. QED
      BY <1>12, <2>3, <3>1, FollowFrame DEF OnSequenceTimer, Following
  <2>4. QED
    BY <1>12, <2>2, <2>3 DEF OnSequenceTimer
<1>13. ASSUME NEW p \in Ports, AddPort(p)
      PROVE  ExpressionsFollow'
  <2> SUFFICES ASSUME NEW r \in Following' \ (stale' \cup deaf') PROVE AsExpression(r)'
    BY DEF ExpressionsFollow
  <2>1. r # p /\ expr'[r] = expr[r] /\ expr[r] # NoExpr
    BY <1>13 DEF AddPort, Following, PortInv, AbsentPorts
  <2>2. p \notin Args(expr[r])
    BY <1>13, <2>1, EvalUndefined DEF AddPort, Following, PortInv, AbsentPorts
  <2>3. QED
    BY <1>13, <2>1, <2>2, FollowFrame DEF AddPort, Following
<1>14. ASSUME NEW p \in Ports, DeletePort(p)
      PROVE  ExpressionsFollow'
  <2> SUFFICES ASSUME NEW r \in Following' \ (stale' \cup deaf') PROVE AsExpression(r)'
    BY DEF ExpressionsFollow
  <2>1. r # p /\ expr'[r] = expr[r] /\ expr[r] # NoExpr
    BY <1>14 DEF DeletePort, Replace, Following
  <2>2. p \notin Args(expr[r])
    BY <1>14, <2>1, EvalUndefined DEF DeletePort, Replace, Following
  <2>3. hw_value'[r] = hw_value[r] /\ r \notin stale \cup deaf
    BY <1>14, <2>1 DEF DeletePort, Replace, ValueTypes, Following
  <2>4. QED
    BY <1>14, <2>1, <2>2, <2>3, ArgsArePorts, FollowFrame DEF DeletePort, Replace, Following, ValueTypes
<1>15. ASSUME NEW made \in SUBSET (Inputs \cup Outputs), NEW v \in [Outputs -> Values], PutPeripherals(made, v)
       PROVE  ExpressionsFollow'
  <2> DEFINE gone == ports \ VirtualPorts
  <2> SUFFICES ASSUME NEW r \in Following' \ (stale' \cup deaf') PROVE AsExpression(r)'
    BY DEF ExpressionsFollow
  <2>1. r \notin gone /\ expr'[r] = expr[r] /\ expr[r] # NoExpr /\ r \in enabled \cap Writable
    BY <1>15 DEF PutPeripherals, Replace, Following
  <2>2. r \notin made \cap Outputs
    BY <2>1, CoreAssumption
  <2>3. hw_value'[r] = hw_value[r] /\ r \notin stale \cup deaf
    BY <1>15, <2>1, <2>2 DEF PutPeripherals, Replace, ValueTypes
  <2>4. \A q \in Args(expr[r]) : q \in enabled'
    BY <2>1, EvalUndefined DEF Following
  <2>5. \A q \in Args(expr[r]) : /\ q \in enabled <=> q \in enabled'
                                 /\ last_read_value[q] = last_read_value'[q]
    BY <1>15, <2>1, <2>4, ArgsArePorts DEF PutPeripherals, Replace
  <2>6. QED
    BY <1>15, <2>1, <2>3, <2>5, FollowFrame DEF PutPeripherals, Replace, Following
<1>16. ASSUME NEW v \in [Outputs -> Values], PutPorts(v)
       PROVE  ExpressionsFollow'
  BY <1>16 DEF PutPorts, Replace, ExpressionsFollow, Following
<1>17. CASE UNCHANGED vars
  <2> SUFFICES ASSUME NEW r \in Following' \ (stale' \cup deaf') PROVE AsExpression(r)'
    BY DEF ExpressionsFollow
  <2>1. QED
    BY <1>17, FollowFrame DEF vars, Following
<1>18. QED
  BY <1>1, <1>2, <1>3, <1>4, <1>5, <1>6, <1>7, <1>8, <1>9, <1>10, <1>11,
     <1>12, <1>13, <1>14, <1>15, <1>16, <1>17 DEF Next, PollTask, GetPortValue

\* Between polls the hardware has what the expression of the port gives,
\* except where the code is known to let it depart.
THEOREM PortsFollow == Spec => []ExpressionsFollow
<1>1. TypeInv /\ PortInv /\ DepsCurrent /\ ExpressionsFollow /\ [Next]_vars
          => ExpressionsFollow'
  BY ExpressionsFollowStep
<1>2. QED
  BY <1>1, InitExpressionsFollow, TypeCorrect, PortInvHolds, DepsAreCurrent, PTL DEF Spec

-----------------------------------------------------------------------------
(***************************************************************************)
(* The check for loops.  within[n] grows with n until no port that is      *)
(* named is new; as there are finitely many ports, Visited is the least    *)
(* set that has what the expression names and, with a port, what the       *)
(* expression of this names.                                               *)
(***************************************************************************)
\* A set of numbers that has 0, and with a number the next one, has them all.
LEMMA Numbers ==
    ASSUME NEW T, 0 \in T, \A n \in Nat : n \in T => n + 1 \in T
    PROVE  \A n \in Nat : n \in T
<1> DEFINE Bad == {n \in Nat : n \notin T}
<1> SUFFICES ASSUME Bad # {} PROVE FALSE
  OBVIOUS
<1>1. PICK m \in Bad : \A n \in Bad : ~(<<n, m>> \in OpToRel(<, Nat))
  BY NatLessThanWellFounded, WFMin
<1>2. m \in Nat /\ m # 0
  BY <1>1
<1>3. m - 1 \in Nat /\ m - 1 < m /\ (m - 1) + 1 = m
  BY <1>2
<1>4. m - 1 \notin Bad
  BY <1>1, <1>3 DEF OpToRel
<1> QED
  BY <1>1, <1>3, <1>4

\* There is an infinite sequence of what step makes of base.
LEMMA Iterates ==
    ASSUME NEW S, NEW base \in S, NEW step \in [S -> S]
    PROVE  \E f \in [Nat -> S] : f[0] = base /\ \A n \in Nat : f[n + 1] = step[f[n]]
<1> DEFINE Upto(g, n) == g[0] = base /\ \A k \in 0..(n - 1) : g[k + 1] = step[g[k]]
<1> DEFINE T == {n \in Nat : \E g \in [0..n -> S] : Upto(g, n)}
<1>1. \A n \in Nat : n \in T
  <2>1. 0 \in T
    <3> DEFINE g == [k \in 0..0 |-> base]
    <3>1. g \in [0..0 -> S] /\ Upto(g, 0)
      OBVIOUS
    <3> QED
      BY <3>1
  <2>2. ASSUME NEW n \in Nat, n \in T PROVE n + 1 \in T
    <3>1. PICK g \in [0..n -> S] : Upto(g, n)
      BY <2>2
    <3> DEFINE h == [k \in 0..(n + 1) |-> IF k = n + 1 THEN step[g[n]] ELSE g[k]]
    <3>2. h \in [0..(n + 1) -> S]
      OBVIOUS
    <3>3. ASSUME NEW k \in 0..n PROVE h[k + 1] = step[h[k]]
      <4>1. h[k] = g[k] /\ k + 1 \in 0..(n + 1)
        OBVIOUS
      <4>2. CASE k = n
        BY <4>1, <4>2
      <4>3. CASE k # n
        <5>1. k \in 0..(n - 1) /\ k + 1 # n + 1
          BY <4>3
        <5>2. h[k + 1] = g[k + 1]
          BY <4>1, <5>1
        <5>3. g[k + 1] = step[g[k]]
          BY <3>1, <5>1
        <5> QED
          BY <4>1, <5>2, <5>3
      <4> QED
        BY <4>2, <4>3
    <3>4. h[0] = base /\ 0..((n + 1) - 1) = 0..n
      BY <3>1
    <3>5. Upto(h, n + 1)
      BY <3>3, <3>4
    <3>6. n + 1 \in Nat
      OBVIOUS
    <3> HIDE DEF h
    <3> QED
      BY <3>2, <3>5, <3>6
  <2> HIDE DEF T
  <2> QED
    BY <2>1, <2>2, Numbers
<1> DEFINE G(n) == CHOOSE g \in [0..n -> S] : Upto(g, n)
<1>2. \A n \in Nat : G(n) \in [0..n -> S] /\ Upto(G(n), n)
  BY <1>1
<1> DEFINE Agree == {n \in Nat : \A m \in Nat : n <= m => G(m)[n] = G(n)[n]}
<1> HIDE DEF G, T
<1>3. \A n \in Nat : n \in Agree
  <2>1. 0 \in Agree
    BY <1>2
  <2>2. ASSUME NEW n \in Nat, n \in Agree PROVE n + 1 \in Agree
    <3> SUFFICES ASSUME NEW m \in Nat, n + 1 <= m PROVE G(m)[n + 1] = G(n + 1)[n + 1]
      OBVIOUS
    <3>1. G(m)[n] = G(n)[n] /\ G(n + 1)[n] = G(n)[n]
      BY <2>2
    <3>2. G(m)[n + 1] = step[G(m)[n]]
      <4>1. n \in 0..(m - 1)
        OBVIOUS
      <4> QED
        BY <1>2, <4>1
    <3>3. G(n + 1)[n + 1] = step[G(n + 1)[n]]
      <4>1. n \in 0..((n + 1) - 1) /\ n + 1 \in Nat
        OBVIOUS
      <4> QED
        BY <1>2, <4>1
    <3> QED
      BY <3>1, <3>2, <3>3
  <2> HIDE DEF Agree
  <2> QED
    BY <2>1, <2>2, Numbers
<1> DEFINE f == [n \in Nat |-> G(n)[n]]
<1>4. f \in [Nat -> S]
  BY <1>2
<1>5. f[0] = base
  BY <1>2
<1>6. ASSUME NEW n \in Nat PROVE f[n + 1] = step[f[n]]
  <2>1. n + 1 \in Nat /\ n \in 0..((n + 1) - 1) /\ n <= n + 1
    OBVIOUS
  <2>2. G(n + 1)[n + 1] = step[G(n + 1)[n]]
    BY <1>2, <2>1
  <2>3. G(n + 1)[n] = G(n)[n]
    BY <1>3, <2>1
  <2> QED
    BY <2>1, <2>2, <2>3
<1> QED
  BY <1>4, <1>5, <1>6

\* What a search from e that does not enter p closes: the expressions are ex.
ClosedFor(V, ex, e, p) == Args(e) \ {p} \subseteq V /\ \A q \in V : Args(ex[q]) \ {p} \subseteq V

\* Visited is a set of ports without p that is closed, and the least one.
LEMMA VisitedLeast ==
    ASSUME IsFiniteSet(Ports), NEW ex, NEW e, NEW p, Args(e) \subseteq Ports,
           \A q \in Ports : Args(ex[q]) \subseteq Ports
    PROVE  /\ Visited(ex, e, p) \subseteq Ports \ {p}
           /\ ClosedFor(Visited(ex, e, p), ex, e, p)
           /\ \A V : ClosedFor(V, ex, e, p) => Visited(ex, e, p) \subseteq V
<1> DEFINE S    == SUBSET (Ports \ {p})
           base == Args(e) \ {p}
           Grown(V) == V \cup UNION {Args(ex[q]) \ {p} : q \in V}
           step == [V \in S |-> Grown(V)]
           N    == Cardinality(Ports)
<1>1. base \in S /\ step \in [S -> S]
  OBVIOUS
<1>2. PICK f \in [Nat -> S] : f[0] = base /\ \A n \in Nat : f[n + 1] = step[f[n]]
  <2> HIDE DEF S, base, step
  <2> QED
    BY <1>1, Iterates
<1>3. \A n \in Nat : f[n + 1] = Grown(f[n])
  BY <1>2
<1> DEFINE Def(g) == [n \in Nat |-> IF n = 0 THEN base ELSE g[n - 1] \cup UNION {Args(ex[q]) \ {p} : q \in g[n - 1]}]
           within == CHOOSE g : g = Def(g)
<1>4. f = Def(f)
  <2>1. ASSUME NEW n \in Nat PROVE f[n] = Def(f)[n]
    <3>1. CASE n = 0
      BY <1>2, <3>1
    <3>2. CASE n # 0
      <4>1. n - 1 \in Nat /\ (n - 1) + 1 = n
        BY <3>2
      <4>2. f[n] = Grown(f[n - 1])
        BY <1>3, <4>1
      <4> QED
        BY <3>2, <4>2
    <3> QED
      BY <3>1, <3>2
  <2> QED
    BY <2>1
<1>5. within = Def(within)
  <2> HIDE DEF Def
  <2> QED
    BY <1>4
<1>6. Visited(ex, e, p) = within[N]
  BY DEF Visited
<1> HIDE DEF within
<1>7. within[0] = base /\ \A n \in Nat : within[n + 1] = Grown(within[n])
  <2>1. within[0] = base
    BY <1>5
  <2>2. ASSUME NEW n \in Nat PROVE within[n + 1] = Grown(within[n])
    <3>1. n + 1 \in Nat /\ n + 1 # 0 /\ (n + 1) - 1 = n
      OBVIOUS
    <3>2. Def(within)[n + 1] = within[(n + 1) - 1] \cup UNION {Args(ex[q]) \ {p} : q \in within[(n + 1) - 1]}
      BY <3>1
    <3> QED
      BY <1>5, <3>1, <3>2
  <2> QED
    BY <2>1, <2>2
<1> HIDE DEF Def
<1>8. \A n \in Nat : within[n] \in S
  <2> DEFINE T == {n \in Nat : within[n] \in S}
  <2>1. 0 \in T
    BY <1>1, <1>7
  <2>2. ASSUME NEW n \in Nat, n \in T PROVE n + 1 \in T
    BY <1>7, <2>2
  <2>3. \A n \in Nat : n \in T
    <3> HIDE DEF T
    <3> QED
      BY <2>1, <2>2, Numbers
  <2> QED
    BY <2>3
<1>9. IsFiniteSet(Ports \ {p}) /\ N \in Nat /\ Cardinality(Ports \ {p}) <= N
  BY FS_CardinalityType, FS_Subset
<1>10. \A n \in Nat : IsFiniteSet(within[n]) /\ Cardinality(within[n]) \in Nat /\ Cardinality(within[n]) <= N
  BY <1>8, <1>9, FS_Subset, FS_CardinalityType
<1> DEFINE Stops(n) == within[n + 1] = within[n]
<1>11. \A n \in Nat : Stops(n) \/ Cardinality(within[n]) >= n
  <2> DEFINE T == {n \in Nat : Stops(n) \/ Cardinality(within[n]) >= n}
  <2>1. 0 \in T
    BY <1>10
  <2>2. ASSUME NEW n \in Nat, n \in T PROVE n + 1 \in T
    <3>1. CASE Stops(n)
      <4>1. n + 1 \in Nat
        OBVIOUS
      <4>2. within[(n + 1) + 1] = Grown(within[n + 1]) /\ within[n + 1] = Grown(within[n])
        BY <1>7, <4>1
      <4>3. Stops(n + 1)
        BY <3>1, <4>2
      <4> QED
        BY <4>1, <4>3
    <3>2. CASE ~Stops(n)
      <4>1. within[n] \subseteq within[n + 1] /\ within[n] # within[n + 1]
        BY <1>7, <3>2
      <4>2. Cardinality(within[n]) < Cardinality(within[n + 1])
        <5>1. n + 1 \in Nat
          OBVIOUS
        <5>2. /\ IsFiniteSet(within[n + 1])
              /\ Cardinality(within[n]) \in Nat /\ Cardinality(within[n + 1]) \in Nat
          BY <1>10, <5>1
        <5>3. /\ Cardinality(within[n]) <= Cardinality(within[n + 1])
              /\ Cardinality(within[n]) # Cardinality(within[n + 1])
          <6> HIDE DEF within
          <6> QED
            BY <4>1, <5>2, FS_Subset
        <5> QED
          BY <5>2, <5>3
      <4> QED
        BY <1>10, <2>2, <3>2, <4>2
    <3> QED
      BY <3>1, <3>2
  <2>3. \A n \in Nat : n \in T
    <3> HIDE DEF T
    <3> QED
      BY <2>1, <2>2, Numbers
  <2> QED
    BY <2>3
<1>12. Stops(N)
  <2>1. CASE Cardinality(within[N]) >= N
    <3>1. within[N] = Ports
      <4>1. within[N] \in SUBSET Ports
        BY <1>8, <1>9
      <4>2. Cardinality(Ports) = Cardinality(within[N])
        BY <1>9, <1>10, <2>1
      <4> QED
        BY <4>1, <4>2, FS_Subset
    <3>2. within[N + 1] = Ports
      <4>1. N + 1 \in Nat
        BY <1>9
      <4>2. within[N + 1] \subseteq Ports
        BY <1>8, <4>1
      <4>3. within[N + 1] = Grown(within[N])
        BY <1>7, <1>9
      <4> QED
        BY <3>1, <4>2, <4>3
    <3> QED
      BY <3>1, <3>2
  <2> QED
    BY <1>9, <1>11, <2>1
<1>13. ClosedFor(within[N], ex, e, p)
  <2>1. base \subseteq within[N]
    <3> DEFINE T == {n \in Nat : base \subseteq within[n]}
    <3>1. 0 \in T
      BY <1>7
    <3>2. ASSUME NEW n \in Nat, n \in T PROVE n + 1 \in T
      BY <1>7, <3>2
    <3>3. \A n \in Nat : n \in T
      <4> HIDE DEF T
      <4> QED
        BY <3>1, <3>2, Numbers
    <3> QED
      BY <1>9, <3>3
  <2>2. \A q \in within[N] : Args(ex[q]) \ {p} \subseteq within[N]
    <3>1. within[N] = Grown(within[N])
      BY <1>7, <1>9, <1>12
    <3> QED
      BY <3>1
  <2> QED
    BY <2>1, <2>2 DEF ClosedFor
<1>14. ASSUME NEW V, ClosedFor(V, ex, e, p) PROVE within[N] \subseteq V
  <2> DEFINE T == {n \in Nat : within[n] \subseteq V}
  <2>1. 0 \in T
    BY <1>7, <1>14 DEF ClosedFor
  <2>2. ASSUME NEW n \in Nat, n \in T PROVE n + 1 \in T
    BY <1>7, <1>14, <2>2 DEF ClosedFor
  <2>3. \A n \in Nat : n \in T
    <3> HIDE DEF T
    <3> QED
      BY <2>1, <2>2, Numbers
  <2> QED
    BY <1>9, <2>3
<1> QED
  BY <1>6, <1>8, <1>9, <1>13, <1>14

\* A search for p from the expression of p finds it exactly if this closes a loop.
LEMMA LoopsExactly ==
    ASSUME IsFiniteSet(Ports), NEW ex, \A q \in Ports : Args(ex[q]) \subseteq Ports,
           DOMAIN ex = Ports, NEW p \in Ports, ~LoopIn([ex EXCEPT ![p] = NoExpr])
    PROVE  LoopsThrough([ex EXCEPT ![p] = NoExpr], ex[p], p) <=> LoopIn(ex)
<1> DEFINE ex0 == [ex EXCEPT ![p] = NoExpr]
           V   == Visited(ex0, ex[p], p)
<1>1. Args(ex0[p]) = {} /\ \A q \in Ports \ {p} : ex0[q] = ex[q]
  BY DEF Args
<1>2. /\ V \subseteq Ports \ {p}
      /\ ClosedFor(V, ex0, ex[p], p)
      /\ \A W : ClosedFor(W, ex0, ex[p], p) => V \subseteq W
  <2>1. Args(ex[p]) \subseteq Ports /\ \A q \in Ports : Args(ex0[q]) \subseteq Ports
    BY <1>1
  <2> HIDE DEF ex0
  <2> QED
    BY <2>1, VisitedLeast
<1>3. ~LoopIn(ex0) /\ (LoopsThrough(ex0, ex[p], p) <=> \E q \in V : p \in Args(ex[q]))
  BY <1>1, <1>2 DEF LoopsThrough
<1> HIDE DEF ex0, V
<1>4. ASSUME LoopIn(ex) PROVE \E q \in V : p \in Args(ex[q])
  <2> SUFFICES ASSUME \A q \in V : p \notin Args(ex[q]) PROVE FALSE
    OBVIOUS
  <2>1. PICK S \in SUBSET Ports : S # {} /\ \A r \in S : \E q \in S \ {r} : q \in Args(ex[r])
    BY <1>4 DEF LoopIn
  <2>2. p \in S
    BY <1>1, <1>3, <2>1 DEF LoopIn
  <2>3. S \cap V # {}
    BY <1>2, <2>1, <2>2 DEF ClosedFor
  <2>4. ASSUME NEW r \in S \cap V PROVE \E q \in (S \cap V) \ {r} : q \in Args(ex0[r])
    <3>1. PICK q \in S \ {r} : q \in Args(ex[r])
      BY <2>1, <2>4
    <3>2. q # p /\ r # p /\ r \in Ports
      BY <1>2, <2>4, <3>1
    <3>3. q \in V /\ q \in Args(ex0[r])
      BY <1>1, <1>2, <2>4, <3>1, <3>2 DEF ClosedFor
    <3> QED
      BY <3>1, <3>3
  <2>5. S \cap V \in SUBSET Ports
    OBVIOUS
  <2> QED
    BY <1>3, <2>3, <2>4, <2>5 DEF LoopIn
<1>5. ASSUME NEW v \in V, p \in Args(ex[v]) PROVE LoopIn(ex)
  \* R has the ports of V that lead to p.
  <2> DEFINE Leads(W) == \A r \in V : (p \in Args(ex[r]) \/ \E q \in W : q \in Args(ex[r])) => r \in W
             R == {r \in V : \A W \in SUBSET V : Leads(W) => r \in W}
  <2>1. Leads(R) /\ \A W \in SUBSET V : Leads(W) => R \subseteq W
    OBVIOUS
  <2>2. v \in R
    BY <1>5, <2>1
  <2>3. \E q \in R : q \in Args(ex[p])
    <3> SUFFICES ASSUME \A q \in R : q \notin Args(ex[p]) PROVE FALSE
      OBVIOUS
    <3>1. Args(ex[p]) \ {p} \subseteq V \ R
      BY <1>2 DEF ClosedFor
    <3>2. ASSUME NEW q \in V \ R PROVE Args(ex0[q]) \ {p} \subseteq V \ R
      BY <1>1, <1>2, <2>1, <3>2 DEF ClosedFor
    <3>3. ClosedFor(V \ R, ex0, ex[p], p)
      BY <3>1, <3>2 DEF ClosedFor
    <3> QED
      BY <1>2, <2>2, <3>3
  <2>4. ASSUME NEW r \in R PROVE \E q \in (R \cup {p}) \ {r} : q \in Args(ex[r])
    <3> SUFFICES ASSUME \A q \in (R \cup {p}) \ {r} : q \notin Args(ex[r]) PROVE FALSE
      OBVIOUS
    <3>1. r # p /\ R \subseteq V
      BY <1>2
    <3>2. Leads(R \ {r})
      <4> HIDE DEF R
      <4> QED
        BY <2>1, <3>1
    <3> QED
      BY <2>1, <3>1, <3>2
  <2>5. R \cup {p} \in SUBSET Ports /\ p \notin R
    BY <1>2
  <2> HIDE DEF R
  <2>6. \A r \in R \cup {p} : \E q \in (R \cup {p}) \ {r} : q \in Args(ex[r])
    BY <2>3, <2>4, <2>5
  <2> QED
    BY <2>5, <2>6 DEF LoopIn
<1> QED
  BY <1>3, <1>4, <1>5 DEF ex0

\* Where no other port is in a loop, the check for loops finds exactly the
\* expressions that close one, whatever the ports and their expressions.
THEOREM LoopsFound == Spec => []LoopCheckExact
<1>1. LoopCheckExact
  <2> SUFFICES ASSUME NEW ex \in [Ports -> [negated : {FALSE}, args : SUBSET Ports]], NEW p \in Ports,
                      ~LoopIn([ex EXCEPT ![p] = NoExpr])
               PROVE  LoopsThrough([ex EXCEPT ![p] = NoExpr], ex[p], p) <=> LoopIn(ex)
    BY DEF LoopCheckExact
  <2>1. \A q \in Ports : Args(ex[q]) \subseteq Ports
    BY DEF Args
  <2> QED
    BY <2>1, CoreAssumption, LoopsExactly
<1> QED
  BY <1>1, PTL
=============================================================================
