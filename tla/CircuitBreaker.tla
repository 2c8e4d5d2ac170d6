--------------------------- MODULE CircuitBreaker ---------------------------
(***************************************************************************)
(* CircuitBreaker (backend/security/circuit_breaker.py).  Several threads  *)
(* call it; its lock is held to admit a call and again to record the       *)
(* outcome, and the protected function runs between the two without it.    *)
(* So an outcome may be recorded in a state other than the one the call    *)
(* was admitted in.                                                        *)
(*                                                                         *)
(* opened_at is kept as its age, which stops growing one past the longest  *)
(* time the code compares it with; the count of failures stops at the      *)
(* threshold, the only value it is compared with.                          *)
(***************************************************************************)
EXTENDS Integers, FiniteSets

CONSTANTS
    Thread,        \* callers
    Threshold,     \* failure_threshold
    Recovery,      \* recovery_seconds
    HalfOpenMax    \* half_open_max

ASSUME ThresholdAssumption == Threshold \in Nat \ {0}
ASSUME RecoveryAssumption == Recovery \in Nat
ASSUME ProbeAssumption == HalfOpenMax \in Nat \ {0}
ASSUME ThreadAssumption == IsFiniteSet(Thread)

VARIABLES
    state,         \* _state
    failures,      \* consecutive_failures
    openedAge,     \* age of opened_at
    probes,        \* _half_open_count
    call,          \* what each thread's running call was admitted as
    failAge        \* age of the last failure (history)

vars == <<state, failures, openedAge, probes, call, failAge>>

State == {"closed", "open", "half_open"}

\* "normal": admitted by a closed circuit; "probe": by the half-open circuit
\* in its present or last window; "stale": before that window began.
Call == {"idle", "normal", "probe", "stale"}

Longest == 2 * Recovery
Older(age) == IF age > Longest THEN age ELSE age + 1
Counted(n) == IF n < Threshold THEN n + 1 ELSE n

\* opened_at starts at 0.0, long ago.
Init ==
    /\ state = "closed"
    /\ failures = 0
    /\ openedAge = Longest + 1
    /\ probes = 0
    /\ call = [t \in Thread |-> "idle"]
    /\ failAge = Longest + 1

Tick ==
    /\ openedAge' = Older(openedAge)
    /\ failAge' = Older(failAge)
    /\ UNCHANGED <<state, failures, probes, call>>

-----------------------------------------------------------------------------
(***************************************************************************)
(* _transition: what the caller of the lock finds.  At most one of the two *)
(* changes happens at a time.                                              *)
(***************************************************************************)
Awakes == state = "open" /\ openedAge > Recovery

\* Seeded fault: a half-open circuit waits for its probes.
LapsesNever == FALSE

Lapses == state = "half_open" /\ openedAge > 2 * Recovery

StateNow == IF Awakes THEN "half_open" ELSE IF Lapses THEN "closed" ELSE state
ProbesNow == IF Awakes \/ Lapses THEN 0 ELSE probes
FailuresNow == IF Lapses THEN 0 ELSE failures

\* A new half-open window makes the calls that run stale.
CallNow ==
    [t \in Thread |-> IF Awakes /\ call[t] # "idle" THEN "stale" ELSE call[t]]

Transition ==
    /\ state' = StateNow
    /\ probes' = ProbesNow
    /\ failures' = FailuresNow
    /\ call' = CallNow

(***************************************************************************)
(* The properties state and stats.                                         *)
(***************************************************************************)
Observe == Transition /\ UNCHANGED <<openedAge, failAge>>

(***************************************************************************)
(* call, up to the first release of the lock: refused with                 *)
(* CircuitOpenError, or admitted.                                          *)
(***************************************************************************)
\* Seeded fault: one probe too many.
FullLate == StateNow = "half_open" /\ ProbesNow > HalfOpenMax

Full == StateNow = "half_open" /\ ProbesNow >= HalfOpenMax

Refuse(t) ==
    /\ call[t] = "idle"
    /\ StateNow = "open" \/ Full
    /\ Transition
    /\ UNCHANGED <<openedAge, failAge>>

\* Seeded fault: an admission of a closed circuit is counted as a probe too.
AdmitCounting(t) ==
    /\ call[t] = "idle"
    /\ StateNow # "open" /\ ~Full
    /\ state' = StateNow
    /\ probes' = ProbesNow + 1
    /\ failures' = FailuresNow
    /\ call' = [CallNow EXCEPT ![t] =
                    IF StateNow = "half_open" THEN "probe" ELSE "normal"]
    /\ UNCHANGED <<openedAge, failAge>>

Admit(t) ==
    /\ call[t] = "idle"
    /\ StateNow # "open" /\ ~Full
    /\ state' = StateNow
    /\ probes' = IF StateNow = "half_open" THEN ProbesNow + 1 ELSE ProbesNow
    /\ failures' = FailuresNow
    /\ call' = [CallNow EXCEPT ![t] =
                    IF StateNow = "half_open" THEN "probe" ELSE "normal"]
    /\ UNCHANGED <<openedAge, failAge>>

(***************************************************************************)
(* _on_success, with the lock taken again.                                 *)
(***************************************************************************)
Succeed(t) ==
    /\ call[t] # "idle"
    /\ IF state = "half_open"
       THEN state' = "closed" /\ probes' = 0 /\ failures' = 0
       ELSE UNCHANGED <<state, probes, failures>>
    /\ call' = [call EXCEPT ![t] = "idle"]
    /\ UNCHANGED <<openedAge, failAge>>

(***************************************************************************)
(* _on_failure.  A failure in the open state opens the circuit anew.       *)
(***************************************************************************)
\* Seeded fault: a failure in the open state leaves opened_at alone.
FailOnce(t) ==
    /\ call[t] # "idle"
    /\ failures' = Counted(failures)
    /\ IF state = "half_open" \/ (state = "closed" /\ failures' >= Threshold)
       THEN state' = "open" /\ openedAge' = 0
       ELSE UNCHANGED <<state, openedAge>>
    /\ call' = [call EXCEPT ![t] = "idle"]
    /\ failAge' = 0
    /\ UNCHANGED <<probes>>

Fail(t) ==
    /\ call[t] # "idle"
    /\ failures' = Counted(failures)
    /\ IF state = "half_open" \/ failures' >= Threshold
       THEN state' = "open" /\ openedAge' = 0
       ELSE UNCHANGED <<state, openedAge>>
    /\ call' = [call EXCEPT ![t] = "idle"]
    /\ failAge' = 0
    /\ UNCHANGED <<probes>>

(***************************************************************************)
(* reset: the state and fresh statistics, whatever calls are running.      *)
(***************************************************************************)
Reset ==
    /\ state' = "closed"
    /\ probes' = 0
    /\ failures' = 0
    /\ openedAge' = Longest + 1
    /\ UNCHANGED <<call, failAge>>

Next ==
    \/ Tick
    \/ Observe
    \/ Reset
    \/ \E t \in Thread : Refuse(t) \/ Admit(t) \/ Succeed(t) \/ Fail(t)

Spec == Init /\ [][Next]_vars

\* Time passes and every caller that is not running its function calls again.
\* The function itself may run for ever: nothing enforces timeout_seconds.
FairSpec ==
    /\ Spec
    /\ WF_vars(Tick)
    /\ \A t \in Thread : WF_vars(Refuse(t) \/ Admit(t))

-----------------------------------------------------------------------------
(***************************************************************************)
(* Every variable has its type; the count of probes stays in its limit.    *)
(***************************************************************************)
TypeOK ==
    /\ state \in State
    /\ failures \in 0..Threshold
    /\ openedAge \in 0..(Longest + 1)
    /\ probes \in 0..HalfOpenMax
    /\ call \in [Thread -> Call]
    /\ failAge \in 0..(Longest + 1)

(***************************************************************************)
(* Never more than half_open_max probes run in one half-open window,       *)
(* whatever calls of earlier windows are still running or finishing.       *)
(***************************************************************************)
Probing == {t \in Thread : call[t] = "probe"}

ProbeLimit == state = "half_open" => Cardinality(Probing) <= HalfOpenMax

(***************************************************************************)
(* A circuit that is not closed lets no call through before every failure  *)
(* recorded, those of calls admitted earlier included, is older than the   *)
(* recovery time.                                                          *)
(***************************************************************************)
CoolDown ==
    [][\A t \in Thread :
          Admit(t) /\ state # "closed" => failAge > Recovery]_vars

(***************************************************************************)
(* As long as not every caller hangs in its function for ever, callers are *)
(* not refused for ever: an open or half-open circuit changes its state,   *)
(* even when its probes never return.                                      *)
(***************************************************************************)
SomeoneCalls == []<>(\E t \in Thread : call[t] = "idle")

NeverStuck ==
    SomeoneCalls => /\ state = "open" ~> state # "open"
                    /\ state = "half_open" ~> state # "half_open"

=============================================================================
