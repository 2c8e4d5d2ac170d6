---------------------------- MODULE RiskPosture ----------------------------
(***************************************************************************)
(* RiskPostureEngine (backend/agent/risk_posture.py) and what drives it:   *)
(* the handlers' on_veto, on_permit and posture_for_prompt, the hourly     *)
(* regulation loop and the critical alert of the inspection loop           *)
(* (backend/main.py).                                                      *)
(*                                                                         *)
(* The unit of time is the period of the regulation loop, one hour.  A     *)
(* time the engine stores is kept as its age, and an age stops growing one *)
(* past the limit the code compares it with, so the state space is finite  *)
(* without a bound on time.                                                *)
(***************************************************************************)
EXTENDS Integers

CONSTANTS
    DecayAfter,    \* a veto older than this may decay (3600 s)
    RegressAfter,  \* a posture older than this may regress (86400 s)
    Day,           \* hours of a day
    Night,         \* the hours the code calls night
    NoVeto,        \* _last_veto_time is None
    MaxVetoes,     \* bound of the vetoes of a behaviour
    MaxAlerts      \* bound of the critical alerts of a behaviour

ASSUME LimitAssumption ==
    DecayAfter \in Nat /\ RegressAfter \in Nat /\ DecayAfter <= RegressAfter
ASSUME DayAssumption == Day \in Nat \ {0} /\ Night \subseteq 0..(Day - 1)
ASSUME BoundAssumption == MaxVetoes \in Nat /\ MaxAlerts \in Nat
ASSUME NoVetoAssumption == NoVeto \notin Nat

VARIABLES
    posture,       \* posture
    vetoCount,     \* _veto_count
    vetoAge,       \* age of _last_veto_time
    changeAge,     \* age of _last_posture_change
    hour,          \* hour of the day
    due,           \* the regulation loop has woken and not yet run
    sinceVeto,     \* age of the last real veto (history)
    vetoes,        \* vetoes so far (bounded)
    alerts         \* alerts so far (bounded)

vars == <<posture, vetoCount, vetoAge, changeAge, hour, due, sinceVeto,
          vetoes, alerts>>

Posture == {"restrictive", "balanced", "permissive"}

\* An age one hour later; limit + 1 stands for every age beyond the limit.
Older(age, limit) == IF age > limit THEN age ELSE age + 1

Init ==
    /\ posture = "balanced"
    /\ vetoCount = 0
    /\ vetoAge = NoVeto
    /\ changeAge = 0
    /\ hour \in 0..(Day - 1)
    /\ due = FALSE
    /\ sinceVeto = RegressAfter + 1
    /\ vetoes = 0
    /\ alerts = 0

\* set_posture: the change time is renewed even when the posture is the same.
SetPosture(p) ==
    /\ posture' = p
    /\ changeAge' = 0

-----------------------------------------------------------------------------
(***************************************************************************)
(* An hour passes and the sleep of the regulation loop ends.               *)
(***************************************************************************)
Tick ==
    /\ ~due
    /\ hour' = (hour + 1) % Day
    /\ due' = TRUE
    /\ vetoAge' = IF vetoAge = NoVeto THEN NoVeto ELSE Older(vetoAge, DecayAfter)
    /\ changeAge' = Older(changeAge, RegressAfter)
    /\ sinceVeto' = Older(sinceVeto, RegressAfter)
    /\ UNCHANGED <<posture, vetoCount, vetoes, alerts>>

(***************************************************************************)
(* on_veto.  Its own _decay_veto_count never fires: the veto time is now.  *)
(***************************************************************************)
Veto ==
    /\ vetoes < MaxVetoes
    /\ vetoCount' = vetoCount + 1
    /\ vetoAge' = 0
    /\ IF vetoCount + 1 >= 2
       THEN SetPosture("restrictive")
       ELSE UNCHANGED <<posture, changeAge>>
    /\ sinceVeto' = 0
    /\ vetoes' = vetoes + 1
    /\ UNCHANGED <<hour, due, alerts>>

\* Seeded fault: the veto time is cleared while vetoes still count.
DecayForgetsTime ==
    /\ vetoAge # NoVeto
    /\ vetoAge > DecayAfter
    /\ vetoCount' = IF vetoCount > 0 THEN vetoCount - 1 ELSE 0
    /\ vetoAge' = NoVeto

\* Seeded fault: every veto is forgotten at once, and before it is old.
DecayEarly ==
    /\ vetoAge # NoVeto
    /\ vetoAge > 0
    /\ vetoCount' = 0
    /\ vetoAge' = NoVeto

\* Seeded fault: max(1, ...), the last veto never decays.
DecayStrands ==
    /\ vetoAge # NoVeto
    /\ vetoAge > DecayAfter
    /\ vetoCount' = IF vetoCount > 1 THEN vetoCount - 1 ELSE 1
    /\ vetoAge' = 0

\* _decay_veto_count when the last veto is old enough: one veto is forgotten
\* and the next one has to wait again.
Decay ==
    /\ vetoAge # NoVeto
    /\ vetoAge > DecayAfter
    /\ vetoCount' = IF vetoCount > 0 THEN vetoCount - 1 ELSE 0
    /\ vetoAge' = IF vetoCount' > 0 THEN 0 ELSE NoVeto

(***************************************************************************)
(* on_permit and posture_for_prompt: the calls of a request that was not   *)
(* vetoed.  Nothing else lets a veto decay.                                *)
(***************************************************************************)
Consult ==
    /\ Decay
    /\ UNCHANGED <<posture, changeAge, hour, due, sinceVeto, vetoes, alerts>>

(***************************************************************************)
(* One round of the regulation loop: time_based_posture, then              *)
(* auto_regress.                                                           *)
(***************************************************************************)
EasedAtNight == hour \in Night /\ posture = "permissive"

\* Seeded fault: the posture regresses whatever the count of vetoes.
RegressesWithVetoes ==
    /\ posture # "balanced"
    /\ changeAge > RegressAfter

Regresses ==
    /\ posture # "balanced"
    /\ changeAge > RegressAfter
    /\ vetoCount = 0

Regulate ==
    /\ due
    /\ IF EasedAtNight \/ Regresses
       THEN SetPosture("balanced")
       ELSE UNCHANGED <<posture, changeAge>>
    /\ due' = FALSE
    /\ UNCHANGED <<vetoCount, vetoAge, hour, sinceVeto, vetoes, alerts>>

(***************************************************************************)
(* The inspection loop found something critical.                           *)
(***************************************************************************)
Alert ==
    /\ alerts < MaxAlerts
    /\ SetPosture("restrictive")
    /\ alerts' = alerts + 1
    /\ UNCHANGED <<vetoCount, vetoAge, hour, due, sinceVeto, vetoes>>

(***************************************************************************)
(* The process restarts: the engine is built anew.                         *)
(***************************************************************************)
Restart ==
    /\ SetPosture("balanced")
    /\ vetoCount' = 0
    /\ vetoAge' = NoVeto
    /\ due' = FALSE
    /\ UNCHANGED <<hour, sinceVeto, vetoes, alerts>>

Next == Tick \/ Veto \/ Consult \/ Regulate \/ Alert \/ Restart

Spec == Init /\ [][Next]_vars

\* The event loop keeps running: time passes and the loop does its rounds;
\* and requests keep coming, without which no veto decays.
BusySpec ==
    Spec /\ WF_vars(Tick) /\ WF_vars(Regulate) /\ WF_vars(Consult)

-----------------------------------------------------------------------------
(***************************************************************************)
(* Every variable has its type; a veto that counts has a time, without     *)
(* which it would never decay.                                             *)
(***************************************************************************)
TypeOK ==
    /\ posture \in Posture
    /\ vetoCount \in 0..MaxVetoes
    /\ vetoAge \in 0..(DecayAfter + 1) \cup {NoVeto}
    /\ changeAge \in 0..(RegressAfter + 1)
    /\ hour \in 0..(Day - 1)
    /\ due \in BOOLEAN
    /\ sinceVeto \in 0..(RegressAfter + 1)
    /\ vetoes \in 0..MaxVetoes
    /\ alerts \in 0..MaxAlerts
    /\ vetoAge = NoVeto <=> vetoCount = 0

(***************************************************************************)
(* Two vetoes that have not decayed keep the engine restrictive, whatever  *)
(* alerts, regulation rounds and decays come between them and now.         *)
(***************************************************************************)
VetoesLock == vetoCount >= 2 => posture = "restrictive"

(***************************************************************************)
(* The engine never regresses on the heels of a veto: at a regression the  *)
(* last veto is older than the decay time, and no veto nor alert changed   *)
(* the posture for the whole regression time.                              *)
(***************************************************************************)
RegressStep == Regulate /\ posture = "restrictive" /\ posture' = "balanced"

NoHastyRegress ==
    [][RegressStep => sinceVeto > DecayAfter /\ changeAge > RegressAfter]_vars

(***************************************************************************)
(* With the vetoes and alerts over, a restrictive engine gets back to      *)
(* balanced, as long as requests keep coming.                              *)
(***************************************************************************)
AutoRegresses == posture = "restrictive" ~> posture = "balanced"

=============================================================================
