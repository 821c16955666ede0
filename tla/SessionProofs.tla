---------------------------- MODULE SessionProofs ----------------------------
(***************************************************************************)
(* Theorems about the log calls of one process, for any number of          *)
(* connections and every bound.                                            *)
(***************************************************************************)
EXTENDS DaoSession, TLAPS

\* A call's statement stands on a row between its step and the next one, and no
\* other has a lock than those of queries for texts that died there.
LocksAreOnRows ==
    /\ mine # NoHandle => (mine \in locked <=> at \in {"row", "again"})
    /\ \A h \in locked \ {mine} : opened[h] \in {"last", "pending"}

\* A connection that was lost is not the one in use.
LostIsLost == mine \notin left

\* The bound on the rows is not passed.
InsertHasRoom == kind = "insert" /\ at \in {"open", "prepare", "bind", "step"} => rows < MaxRows

IInv == TypeOK /\ LocksAreOnRows /\ LostByExceptions /\ LostIsLost /\ InsertHasRoom

(* Opening gives a connection that nobody had; closing takes the one in use.*)
LEMMA OpenAfter ==
    ASSUME opened \in [Handles -> Kinds \cup {Closed}], NEW h \in Handles, NEW k
    PROVE  LET o == [opened EXCEPT ![h] = k]
           IN  {g \in Handles : o[g] # Closed} = IF k = Closed THEN Open \ {h} ELSE Open \cup {h}
BY DEF Open

LEMMA InitInv == Init => IInv
BY SessionConstants DEF Init, IInv, TypeOK, LocksAreOnRows, LostByExceptions, LostIsLost, InsertHasRoom, Open, Kinds, Closed

LEMMA NextInv == IInv /\ [Next]_vars => IInv'
<1> SUFFICES ASSUME IInv, [Next]_vars PROVE IInv'
  OBVIOUS
<1> USE SessionConstants DEF IInv, TypeOK, LocksAreOnRows, LostByExceptions, LostIsLost, InsertHasRoom, Fault, NoFault
<1>k. Closed \notin Kinds
  BY DEF Kinds, Closed
<1>1. ASSUME NEW k \in Kinds, Call(k) PROVE IInv'
  BY <1>1 DEF Call, Open
<1>2. CASE OpenDatabase
  <2>1. CASE \E h \in Handles \ Open : /\ opened' = [opened EXCEPT ![h] = kind]
                                       /\ \/ at' = "prepare" /\ mine' = h /\ UNCHANGED <<kind, rows, left>> /\ NoFault
                                          \/ Throw({h}) /\ Fault
    <3>1. PICK h \in Handles \ Open : /\ opened' = [opened EXCEPT ![h] = kind]
                                      /\ \/ at' = "prepare" /\ mine' = h /\ UNCHANGED <<kind, rows, left>> /\ NoFault
                                         \/ Throw({h}) /\ Fault
      BY <2>1
    <3>2. Open' = Open \cup {h}
      BY <3>1, <1>k DEF Open
    <3>3. h # NoHandle /\ h \notin locked /\ h \notin left /\ mine = NoHandle
      BY <1>2 DEF OpenDatabase
    <3>4. \A g \in locked : opened'[g] = opened[g]
      BY <3>1, <3>3 DEF Open
    <3> QED BY <1>2, <3>1, <3>2, <3>3, <3>4 DEF OpenDatabase, Throw
  <2>2. CASE Open = Handles /\ Throw({}) /\ UNCHANGED opened /\ NoFault
    BY <1>2, <2>2 DEF OpenDatabase, Throw, Open
  <2> QED BY <1>2, <2>1, <2>2 DEF OpenDatabase
<1>3. CASE PrepareStatement
  BY <1>3 DEF PrepareStatement, Proceed, Fails, Throw, Open
<1>4. CASE BindTextParam
  BY <1>4 DEF BindTextParam, Proceed, Fails, Throw, Open
<1>5. CASE StepInsert
  BY <1>5 DEF StepInsert, Proceed, Fails, Throw, Open
<1>6. CASE StepQuery
  BY <1>6 DEF StepQuery, Proceed, Fails, Throw, Open
<1>7. CASE GetText
  BY <1>7 DEF GetText, Proceed, Fails, Throw, Open
<1>8. CASE StepAgain
  BY <1>8 DEF StepAgain, Proceed, Fails, Throw, Open
<1>9. CASE CloseStatement
  <2>1. mine \in Handles /\ mine \notin locked
    BY <1>9 DEF CloseStatement, Open
  <2>2. Open' = Open \ {mine}
    BY <1>9, <2>1 DEF CloseStatement, Open
  <2>3. \A g \in locked : opened'[g] = opened[g]
    BY <1>9, <2>1 DEF CloseStatement, Open
  <2>4. TypeOK'
    BY <1>9, <2>1, <2>2 DEF CloseStatement
  <2>5. LostByExceptions' /\ LostIsLost'
    <3>1. Open = left \cup {mine} /\ mine' = NoHandle /\ left' = left /\ mine # NoHandle
      BY <1>9, <2>1 DEF CloseStatement
    <3>2. left \subseteq Open /\ NoHandle \notin left
      BY <3>1 DEF Open
    <3> QED BY <2>2, <3>1, <3>2
  <2>6. LocksAreOnRows' /\ InsertHasRoom'
    BY <1>9, <2>1, <2>3 DEF CloseStatement
  <2> QED BY <2>4, <2>5, <2>6
<1>10. CASE Restart
  BY <1>10 DEF Restart, Open
<1>11. CASE UNCHANGED vars
  BY <1>11 DEF vars, Open
<1> QED BY <1>1, <1>2, <1>3, <1>4, <1>5, <1>6, <1>7, <1>8, <1>9, <1>10, <1>11 DEF Next

(* Types; only open connections hold locks.                                *)
THEOREM SessionTypes == Spec => []TypeOK
<1>1. IInv => TypeOK
  BY DEF IInv
<1> QED BY <1>1, InitInv, NextInv, PTL DEF Spec

(* Connections are lost by exceptions and by nothing else.                 *)
THEOREM OnlyExceptionsLose == Spec => []LostByExceptions
<1>1. IInv => LostByExceptions
  BY DEF IInv
<1> QED BY <1>1, InitInv, NextInv, PTL DEF Spec

(* A call to which nothing happened is refused for lack of connections, or *)
(* because a query for texts died on a row.                                *)
THEOREM RefusalsHaveAReason == Spec => RefusedForAReason
<1> DEFINE Refused == at \notin {"start", "finalize"} /\ at' = "start" /\ faults' = faults
           Reason == \/ Open = Handles
                     \/ kind = "insert" /\ \E h \in Open \ {mine} : opened[h] \in {"last", "pending"}
<1>1. ASSUME IInv, Next, Refused PROVE Reason
  <2> USE DEF IInv, TypeOK
  <2>0. faults' # faults + 1
    BY <1>1
  <2>1. CASE OpenDatabase
    BY <2>1, <2>0, <1>1 DEF OpenDatabase, Fault, Throw
  <2>2. CASE StepInsert
    <3>1. PICK h \in locked : TRUE
      BY <2>2, <2>0, <1>1 DEF StepInsert, Fails, Fault
    <3>2. h # mine /\ h \in Open /\ opened[h] \in {"last", "pending"} /\ kind = "insert"
      BY <1>1, <2>2 DEF StepInsert, LocksAreOnRows, Open
    <3> QED BY <3>2
  <2>3. CASE \/ \E k \in Kinds : Call(k)
             \/ PrepareStatement \/ BindTextParam \/ StepQuery \/ GetText \/ StepAgain
             \/ CloseStatement \/ Restart
    BY <2>3, <2>0, <1>1 DEF Call, PrepareStatement, BindTextParam, StepQuery, GetText, StepAgain,
          CloseStatement, Restart, Proceed, Fails, Throw, Fault
  <2> QED BY <1>1, <2>1, <2>2, <2>3 DEF Next
<1>2. IInv /\ [Next]_vars => [Refused => Reason]_vars
  BY <1>1 DEF vars
<1> QED BY <1>2, InitInv, NextInv, PTL DEF Spec, RefusedForAReason
=============================================================================
