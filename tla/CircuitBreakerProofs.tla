------------------------ MODULE CircuitBreakerProofs ------------------------
(***************************************************************************)
(* Proofs about CircuitBreaker for every set of callers, threshold,        *)
(* recovery time and probe limit: TypeOK, ProbeLimit and CoolDown.         *)
(*                                                                         *)
(* CoolDown speaks of the last failure, which the code does not look at;   *)
(* it holds because a circuit that is not closed has counted its threshold *)
(* (so that a late failure opens it anew) and its opened_at is the time of *)
(* the last failure (Tripped), and because a half-open one was opened more *)
(* than the recovery time ago (Cooled).                                    *)
(***************************************************************************)
EXTENDS CircuitBreaker, FiniteSetTheorems, TLAPS

Tripped == state # "closed" => failures = Threshold /\ openedAge = failAge

Cooled == state = "half_open" => openedAge > Recovery

\* The calls of the present window are among those _half_open_count counts.
ProbesCounted == state = "half_open" => Cardinality(Probing) <= probes

Control == TypeOK /\ Tripped /\ Cooled

IInv == Control /\ ProbesCounted

-----------------------------------------------------------------------------
LEMMA InitControl == Init => Control
  BY ThresholdAssumption, RecoveryAssumption, ProbeAssumption
  DEF Init, Control, TypeOK, Tripped, Cooled, State, Call, Longest

(***************************************************************************)
(* What a caller finds after _transition has the types of the variables,   *)
(* and half-open only when the circuit has cooled down.                    *)
(***************************************************************************)
LEMMA NowFacts ==
    ASSUME Control
    PROVE  /\ StateNow \in State
           /\ ProbesNow \in 0..HalfOpenMax
           /\ FailuresNow \in 0..Threshold
           /\ CallNow \in [Thread -> Call]
           /\ StateNow # "closed" =>
                 FailuresNow = Threshold /\ openedAge = failAge
           /\ StateNow = "half_open" => openedAge > Recovery
  <1> USE ThresholdAssumption, RecoveryAssumption, ProbeAssumption
  <1>1. CallNow \in [Thread -> Call]
    BY DEF CallNow, Control, TypeOK, Call
  <1> QED
    BY <1>1
    DEF Control, TypeOK, Tripped, Cooled, State, StateNow, ProbesNow,
        FailuresNow, Awakes, Lapses

LEMMA TickControl == Control /\ Tick => Control'
  BY ThresholdAssumption, RecoveryAssumption, ProbeAssumption
  DEF Tick, Older, Longest, Control, TypeOK, Tripped, Cooled

LEMMA ObserveControl == Control /\ Observe => Control'
  BY NowFacts DEF Observe, Transition, Control, TypeOK, Tripped, Cooled

LEMMA ResetControl == Control /\ Reset => Control'
  BY ThresholdAssumption, RecoveryAssumption, ProbeAssumption
  DEF Reset, Longest, Control, TypeOK, Tripped, Cooled, State

LEMMA RefuseControl ==
    ASSUME NEW t \in Thread, Control, Refuse(t) PROVE Control'
  BY NowFacts, RecoveryAssumption
  DEF Refuse, Transition, Longest, Control, TypeOK, Tripped, Cooled

LEMMA AdmitControl ==
    ASSUME NEW t \in Thread, Control, Admit(t) PROVE Control'
  <1>1. call' \in [Thread -> Call]
    BY NowFacts DEF Admit, Call
  <1>2. probes' \in 0..HalfOpenMax
    BY NowFacts, ProbeAssumption DEF Admit, Full
  <1> QED
    BY <1>1, <1>2, NowFacts, RecoveryAssumption
    DEF Admit, Longest, Control, TypeOK, Tripped, Cooled

LEMMA SucceedControl ==
    ASSUME NEW t \in Thread, Control, Succeed(t) PROVE Control'
  <1>1. call' \in [Thread -> Call]
    BY DEF Succeed, Control, TypeOK, Call
  <1> QED
    BY <1>1, ThresholdAssumption, ProbeAssumption
    DEF Succeed, Control, TypeOK, Tripped, Cooled, State

LEMMA FailControl ==
    ASSUME NEW t \in Thread, Control, Fail(t) PROVE Control'
  <1>1. call' \in [Thread -> Call]
    BY DEF Fail, Control, TypeOK, Call
  <1>2. failures' \in 0..Threshold
    BY ThresholdAssumption DEF Fail, Counted, Control, TypeOK
  <1>3. state # "closed" => failures' = Threshold
    BY ThresholdAssumption DEF Fail, Counted, Control, Tripped
  <1>4. /\ state' \in State
        /\ openedAge' \in 0..(Longest + 1)
        /\ failAge' \in 0..(Longest + 1)
    BY RecoveryAssumption DEF Fail, Control, TypeOK, State, Longest
  <1>5. TypeOK'
    BY <1>1, <1>2, <1>4 DEF Fail, Control, TypeOK
  <1>6. CASE state = "half_open" \/ failures' >= Threshold
    <2>1. failures' = Threshold
      BY <1>2, <1>3, <1>6, ThresholdAssumption
    <2> QED
      BY <1>5, <1>6, <2>1 DEF Fail, Control, Tripped, Cooled
  <1>7. CASE ~(state = "half_open" \/ failures' >= Threshold)
    <2>1. state = "closed"
      BY <1>3, <1>7, ThresholdAssumption
    <2> QED
      BY <1>5, <1>7, <2>1 DEF Fail, Control, Tripped, Cooled
  <1> QED
    BY <1>6, <1>7

LEMMA NextControl == Control /\ [Next]_vars => Control'
  <1>1. Control /\ UNCHANGED vars => Control'
    BY DEF vars, Control, TypeOK, Tripped, Cooled
  <1> QED
    BY <1>1, TickControl, ObserveControl, ResetControl, RefuseControl,
       AdmitControl, SucceedControl, FailControl
    DEF Next

-----------------------------------------------------------------------------
(***************************************************************************)
(* The probes of the present window.  ProbingNow is Probing as a caller    *)
(* finds it after _transition: empty in a new window, else unchanged.      *)
(***************************************************************************)
ProbingNow == {t \in Thread : CallNow[t] = "probe"}

LEMMA ProbingNowCounted ==
    ASSUME IInv, StateNow = "half_open"
    PROVE  /\ IsFiniteSet(ProbingNow)
           /\ Cardinality(ProbingNow) <= ProbesNow
  <1>1. IsFiniteSet(ProbingNow)
    BY ThreadAssumption, FS_Subset DEF ProbingNow
  <1>2. CASE Awakes
    <2>1. ProbingNow = {}
      BY <1>2 DEF ProbingNow, CallNow
    <2> QED
      BY <1>1, <1>2, <2>1, FS_EmptySet DEF ProbesNow
  <1>3. CASE ~Awakes
    <2>1. state = "half_open" /\ ~Lapses
      BY <1>3 DEF StateNow
    <2>2. ProbingNow = Probing
      BY <1>3 DEF ProbingNow, Probing, CallNow
    <2> QED
      BY <1>1, <1>3, <2>1, <2>2 DEF IInv, ProbesCounted, ProbesNow
  <1> QED
    BY <1>2, <1>3

LEMMA FoundProbes ==
    ASSUME IInv, call' = CallNow, state' = StateNow, probes' = ProbesNow
    PROVE  ProbesCounted'
  <1>1. Probing' = ProbingNow
    BY DEF Probing, ProbingNow
  <1> QED
    BY <1>1, ProbingNowCounted DEF ProbesCounted

LEMMA AdmitProbes ==
    ASSUME IInv, NEW t \in Thread, Admit(t) PROVE ProbesCounted'
  <1> SUFFICES ASSUME StateNow = "half_open"
               PROVE  Cardinality(Probing') <= probes'
    BY DEF Admit, ProbesCounted
  <1>1. /\ IsFiniteSet(ProbingNow)
        /\ Cardinality(ProbingNow) <= ProbesNow
    BY ProbingNowCounted
  <1>2. CallNow \in [Thread -> Call] /\ ProbesNow \in Nat
    BY NowFacts, ProbeAssumption DEF IInv
  <1>3. Probing' = ProbingNow \cup {t}
    BY <1>2 DEF Admit, Probing, ProbingNow
  <1>4. Cardinality(ProbingNow) \in Nat
    BY <1>1, FS_CardinalityType
  <1>5. Cardinality(Probing') <= Cardinality(ProbingNow) + 1
    <2>1. Cardinality(Probing') = IF t \in ProbingNow
                                  THEN Cardinality(ProbingNow)
                                  ELSE Cardinality(ProbingNow) + 1
      BY <1>1, <1>3, FS_AddElement
    <2> QED
      BY <1>4, <2>1
  <1>6. probes' = ProbesNow + 1
    BY DEF Admit
  <1>7. Cardinality(Probing') \in Nat
    BY <1>1, <1>3, FS_AddElement, FS_CardinalityType
  <1> QED
    BY <1>1, <1>2, <1>4, <1>5, <1>6, <1>7

LEMMA NextInv == IInv /\ [Next]_vars => IInv'
  <1> SUFFICES ASSUME IInv, [Next]_vars PROVE ProbesCounted'
    BY NextControl DEF IInv
  <1>1. CASE Tick \/ UNCHANGED vars
    <2>1. UNCHANGED <<state, probes, call>>
      BY <1>1 DEF Tick, vars
    <2> QED
      BY <2>1 DEF IInv, ProbesCounted, Probing
  <1>2. CASE Observe
    BY <1>2, FoundProbes DEF Observe, Transition
  <1>3. CASE Reset
    BY <1>3 DEF Reset, ProbesCounted
  <1>4. ASSUME NEW t \in Thread, Refuse(t) PROVE ProbesCounted'
    BY <1>4, FoundProbes DEF Refuse, Transition
  <1>5. ASSUME NEW t \in Thread, Admit(t) PROVE ProbesCounted'
    BY <1>5, AdmitProbes
  <1>6. ASSUME NEW t \in Thread, Succeed(t) PROVE ProbesCounted'
    BY <1>6 DEF Succeed, ProbesCounted
  <1>7. ASSUME NEW t \in Thread, Fail(t) PROVE ProbesCounted'
    BY <1>7 DEF Fail, ProbesCounted
  <1> QED
    BY <1>1, <1>2, <1>3, <1>4, <1>5, <1>6, <1>7 DEF Next

LEMMA InitInv == Init => IInv
  BY InitControl DEF Init, IInv, ProbesCounted

LEMMA Invariance == Spec => []IInv
  BY InitInv, NextInv, PTL DEF Spec

-----------------------------------------------------------------------------
(***************************************************************************)
(* Every variable keeps its type.                                          *)
(***************************************************************************)
THEOREM TypeCorrect == Spec => []TypeOK
  <1>1. IInv => TypeOK
    BY DEF IInv, Control
  <1> QED
    BY <1>1, Invariance, PTL

(***************************************************************************)
(* No half-open window runs more probes than half_open_max.                *)
(***************************************************************************)
THEOREM ProbeLimitHolds == Spec => []ProbeLimit
  <1>1. IInv => ProbeLimit
    <2> SUFFICES ASSUME IInv, state = "half_open"
                 PROVE  Cardinality(Probing) <= HalfOpenMax
      BY DEF ProbeLimit
    <2>1. Cardinality(Probing) <= probes /\ probes \in 0..HalfOpenMax
      BY DEF IInv, Control, TypeOK, ProbesCounted
    <2>2. Cardinality(Probing) \in Nat
      BY ThreadAssumption, FS_Subset, FS_CardinalityType DEF Probing
    <2> QED
      BY <2>1, <2>2, ProbeAssumption
  <1> QED
    BY <1>1, Invariance, PTL

(***************************************************************************)
(* An open circuit admits nothing before its failures are all older than   *)
(* the recovery time.                                                      *)
(***************************************************************************)
THEOREM CoolDownHolds == Spec => CoolDown
  <1>1. ASSUME IInv, NEW t \in Thread, Admit(t), state # "closed"
        PROVE  failAge > Recovery
    <2>1. openedAge = failAge
      BY <1>1 DEF IInv, Control, Tripped
    <2>2. StateNow # "open" /\ state \in {"open", "half_open"}
      BY <1>1 DEF Admit, IInv, Control, TypeOK, State
    <2>3. openedAge > Recovery
      BY <1>1, <2>2 DEF StateNow, Awakes, Lapses, IInv, Control, Cooled
    <2> QED
      BY <2>1, <2>3
  <1>2. IInv /\ [Next]_vars =>
          [\A t \in Thread :
              Admit(t) /\ state # "closed" => failAge > Recovery]_vars
    BY <1>1
  <1> QED
    BY <1>2, Invariance, PTL DEF Spec, CoolDown
=============================================================================
