------------------------- MODULE RiskPostureProofs -------------------------
(***************************************************************************)
(* Proofs about RiskPosture for every decay time, regression time, day and *)
(* bound: TypeOK, VetoesLock and NoHastyRegress.                           *)
(*                                                                         *)
(* NoHastyRegress is about the true age of the last veto, of which the     *)
(* engine keeps only its own, forgetful record.  Two facts tie them: a     *)
(* stored veto age never exceeds the true one (RecordIsYounger), and when  *)
(* no veto counts, either the last one is past the decay time or the       *)
(* process restarted after it, and then the posture is younger than the    *)
(* veto too (ForgottenIsOld).                                              *)
(***************************************************************************)
EXTENDS RiskPosture, TLAPS

CountIsBounded == vetoCount <= vetoes

RecordIsYounger == vetoAge # NoVeto => vetoAge <= sinceVeto

ForgottenIsOld == vetoCount = 0 => sinceVeto > DecayAfter \/ sinceVeto >= changeAge

IInv ==
    /\ TypeOK
    /\ CountIsBounded
    /\ VetoesLock
    /\ RecordIsYounger
    /\ ForgottenIsOld

-----------------------------------------------------------------------------
(***************************************************************************)
(* An age and a limit above it: one hour later the age is still at most    *)
(* one past the limit, and an age that was not above another stays so when *)
(* its limit is not above the other's.                                     *)
(***************************************************************************)
LEMMA OlderFacts ==
    ASSUME NEW limit \in Nat, NEW age \in 0..(limit + 1)
    PROVE  /\ Older(age, limit) \in 0..(limit + 1)
           /\ Older(age, limit) >= age
  BY DEF Older

LEMMA OlderKeepsOrder ==
    ASSUME NEW low \in Nat, NEW high \in Nat, low <= high,
           NEW a \in 0..(low + 1), NEW b \in 0..(high + 1), a <= b
    PROVE  Older(a, low) <= Older(b, high)
  BY DEF Older

-----------------------------------------------------------------------------
LEMMA InitInv == Init => IInv
  <1> SUFFICES ASSUME Init PROVE IInv
    OBVIOUS
  <1>1. due \in BOOLEAN
    BY Zenon DEF Init
  <1>2. TypeOK
    BY <1>1, LimitAssumption, BoundAssumption DEF Init, TypeOK, Posture
  <1>3. CountIsBounded /\ VetoesLock /\ RecordIsYounger /\ ForgottenIsOld
    BY LimitAssumption
    DEF Init, CountIsBounded, VetoesLock, RecordIsYounger, ForgottenIsOld
  <1> QED
    BY <1>2, <1>3 DEF IInv

(***************************************************************************)
(* Every action preserves the invariant.                                   *)
(***************************************************************************)
LEMMA TickInv == IInv /\ Tick => IInv'
  <1> SUFFICES ASSUME IInv, Tick PROVE IInv'
    OBVIOUS
  <1> USE LimitAssumption, DayAssumption, NoVetoAssumption
  <1>1. hour' \in 0..(Day - 1)
    BY DEF Tick, IInv, TypeOK
  <1>2. /\ changeAge' \in 0..(RegressAfter + 1)
        /\ sinceVeto' \in 0..(RegressAfter + 1)
        /\ sinceVeto' >= sinceVeto
    BY OlderFacts DEF Tick, IInv, TypeOK
  <1>3. vetoAge' \in 0..(DecayAfter + 1) \cup {NoVeto}
    BY OlderFacts DEF Tick, IInv, TypeOK
  <1>4. vetoAge' = NoVeto <=> vetoAge = NoVeto
    BY OlderFacts DEF Tick, IInv, TypeOK
  <1>5. TypeOK'
    BY <1>1, <1>2, <1>3, <1>4 DEF Tick, IInv, TypeOK
  <1>6. RecordIsYounger'
    <2> SUFFICES ASSUME vetoAge # NoVeto PROVE vetoAge' <= sinceVeto'
      BY <1>4 DEF RecordIsYounger
    <2>1. vetoAge \in 0..(DecayAfter + 1) /\ vetoAge <= sinceVeto
      BY DEF IInv, TypeOK, RecordIsYounger
    <2> QED
      BY <2>1, OlderKeepsOrder DEF Tick, IInv, TypeOK
  <1>7. ForgottenIsOld'
    <2>1. CASE sinceVeto > DecayAfter
      BY <2>1, <1>2 DEF Tick, IInv, TypeOK, ForgottenIsOld
    <2>2. CASE vetoCount = 0 /\ changeAge <= sinceVeto
      BY <2>2, OlderKeepsOrder DEF Tick, IInv, TypeOK, ForgottenIsOld
    <2>3. CASE vetoCount # 0
      BY <2>3 DEF Tick, ForgottenIsOld
    <2> QED
      BY <2>1, <2>2, <2>3 DEF IInv, TypeOK, ForgottenIsOld
  <1> QED
    BY <1>5, <1>6, <1>7 DEF Tick, IInv, CountIsBounded, VetoesLock

LEMMA VetoInv == IInv /\ Veto => IInv'
  BY LimitAssumption, BoundAssumption, NoVetoAssumption
  DEF Veto, SetPosture, IInv, TypeOK, CountIsBounded, VetoesLock,
      RecordIsYounger, ForgottenIsOld, Posture

LEMMA ConsultInv == IInv /\ Consult => IInv'
  <1> SUFFICES ASSUME IInv, Consult PROVE IInv'
    OBVIOUS
  <1> USE LimitAssumption, BoundAssumption, NoVetoAssumption
  <1>1. /\ vetoAge > DecayAfter
        /\ sinceVeto > DecayAfter
        /\ vetoCount > 0
        /\ vetoCount' = vetoCount - 1
    BY DEF Consult, Decay, IInv, TypeOK, RecordIsYounger
  <1>2. TypeOK'
    BY <1>1 DEF Consult, Decay, IInv, TypeOK
  <1> QED
    BY <1>1, <1>2
    DEF Consult, Decay, IInv, TypeOK, CountIsBounded, VetoesLock,
        RecordIsYounger, ForgottenIsOld

LEMMA RegulateInv == IInv /\ Regulate => IInv'
  <1> SUFFICES ASSUME IInv, Regulate PROVE IInv'
    OBVIOUS
  <1>0. due' \in BOOLEAN
    BY Zenon DEF Regulate
  <1>1. CASE EasedAtNight \/ Regresses
    BY <1>0, <1>1, LimitAssumption
    DEF Regulate, EasedAtNight, Regresses, SetPosture, IInv, TypeOK,
        CountIsBounded, VetoesLock, RecordIsYounger, ForgottenIsOld, Posture
  <1>2. CASE ~(EasedAtNight \/ Regresses)
    BY <1>0, <1>2
    DEF Regulate, IInv, TypeOK, CountIsBounded, VetoesLock, RecordIsYounger,
        ForgottenIsOld
  <1> QED
    BY <1>1, <1>2

LEMMA AlertInv == IInv /\ Alert => IInv'
  BY LimitAssumption, BoundAssumption
  DEF Alert, SetPosture, IInv, TypeOK, CountIsBounded, VetoesLock,
      RecordIsYounger, ForgottenIsOld, Posture

LEMMA RestartInv == IInv /\ Restart => IInv'
  <1>1. Restart => due' \in BOOLEAN
    BY Zenon DEF Restart
  <1> QED
    BY <1>1, LimitAssumption, BoundAssumption
    DEF Restart, SetPosture, IInv, TypeOK, CountIsBounded, VetoesLock,
        RecordIsYounger, ForgottenIsOld, Posture

LEMMA NextInv == IInv /\ [Next]_vars => IInv'
  <1>1. IInv /\ UNCHANGED vars => IInv'
    BY DEF vars, IInv, TypeOK, CountIsBounded, VetoesLock, RecordIsYounger,
           ForgottenIsOld
  <1> QED
    BY <1>1, TickInv, VetoInv, ConsultInv, RegulateInv, AlertInv, RestartInv
    DEF Next

LEMMA Invariance == Spec => []IInv
  BY InitInv, NextInv, PTL DEF Spec

-----------------------------------------------------------------------------
(***************************************************************************)
(* Every variable keeps its type; a veto that counts always has a time.    *)
(***************************************************************************)
THEOREM TypeCorrect == Spec => []TypeOK
  <1>1. IInv => TypeOK
    BY DEF IInv
  <1> QED
    BY <1>1, Invariance, PTL

(***************************************************************************)
(* Two vetoes that have not decayed keep the engine restrictive.           *)
(***************************************************************************)
THEOREM VetoesLockHolds == Spec => []VetoesLock
  <1>1. IInv => VetoesLock
    BY DEF IInv
  <1> QED
    BY <1>1, Invariance, PTL

(***************************************************************************)
(* The engine regresses only when the last veto, counted or forgotten, is  *)
(* past the decay time and the posture past the regression time.           *)
(***************************************************************************)
THEOREM NoHastyRegressHolds == Spec => NoHastyRegress
  <1>1. IInv /\ RegressStep => sinceVeto > DecayAfter /\ changeAge > RegressAfter
    <2> SUFFICES ASSUME IInv, RegressStep
                 PROVE  sinceVeto > DecayAfter /\ changeAge > RegressAfter
      OBVIOUS
    <2>1. vetoCount = 0 /\ changeAge > RegressAfter
      BY DEF RegressStep, Regulate, EasedAtNight, Regresses
    <2> QED
      BY <2>1, LimitAssumption DEF IInv, TypeOK, ForgottenIsOld
  <1>2. IInv /\ [Next]_vars =>
          [RegressStep => sinceVeto > DecayAfter /\ changeAge > RegressAfter]_vars
    BY <1>1
  <1> QED
    BY <1>2, Invariance, PTL DEF Spec, NoHastyRegress
=============================================================================
