------------------------- MODULE ConfirmFlowProofs -------------------------
(***************************************************************************)
(* At most one execution of a confirmed operation, the finality of its     *)
(* denial, the time limits and the refinement of Approval, for any         *)
(* operations, events, users and keys, any lives and any clock bound.      *)
(***************************************************************************)
EXTENDS ConfirmFlow, TLAPS

USE DEF table, handler, history

(***************************************************************************)
(* The inductive invariant.                                                *)
(***************************************************************************)
\* What each stage of the handler has in hand.
Stages ==
    /\ stage \in {"arrived", "refused", "claimed", "cleared", "ran"}
          => request \in Request
    /\ stage \in {"refused", "claimed", "cleared", "ran"} => job \in Entry
    /\ stage \in {"idle", "proposing", "arrived"} => job = NoJob
    /\ stage \in {"idle", "cleared", "ran"} => saving = "no"
    /\ saving = "write" => file.torn

\* The entries a restart or a request may still find.
Alive == memory \cup Load(file)

\* One proposal makes one entry.
OneEntry == \A a, b \in Alive : a.op = b.op => a = b

AliveIsUsed == Ops(Alive) \subseteq used

\* A popped entry is out of the table at once, and of the file when the save
\* of the table is over.
JobIsOut ==
    job # NoJob =>
        /\ job.op \in used
        /\ job.op \notin Ops(memory)
        /\ saving = "no" => job.op \notin Ops(Load(file))
        /\ \A a \in Load(file) : a.op = job.op => a = job

\* What ran, or was denied, is nowhere any more.
EndedIsOut ==
    \A o \in Op :
        effects[o] > 0 \/ o \in denied =>
            /\ o \in used
            /\ o \notin Ops(Alive)
            /\ job # NoJob /\ stage # "ran" => job.op # o

\* A job that may have run is not a denied one.
DeniedNeverRuns ==
    \A o \in denied : effects[o] = 0 /\ (job # NoJob => job.op # o)

Settled == OneEntry /\ AliveIsUsed /\ JobIsOut /\ EndedIsOut /\ DeniedNeverRuns
             /\ ExecutedAtMostOnce

\* The time limits: nothing that had expired is decided on, and what marked
\* holds is in the key store until it expires.
InTime ==
    /\ stage = "arrived" => \A m \in memory : request.at - m.created <= PendingTtl
    /\ stage \in {"refused", "claimed", "cleared", "ran"}
          => request.at - job.created <= PendingTtl
    /\ \A r \in marked : clock - r.created <= IdemTtl => r \in idem /\ r.executed
    /\ stage = "cleared" =>
          \A r \in marked : r.key = request.key => clock - r.created > IdemTtl

-----------------------------------------------------------------------------
(***************************************************************************)
(* Types, and what the handler has in hand.                                *)
(***************************************************************************)
WellFormed == TypeOK /\ Stages

\* A step of the handler that ends it.
LEMMA FinishForms ==
    ASSUME Finish
    PROVE  /\ stage' = "idle" /\ job' = NoJob /\ request' = NoRequest
           /\ stage' \in Stage
           /\ request' \in Request \cup {NoRequest} /\ job' \in Entry \cup {NoJob}
  BY DEF Finish, Stage

LEMMA LoadType == ASSUME file \in File PROVE Load(file) \subseteq Entry
  BY DEF File, Load

LEMMA WellFormedInit == Init => WellFormed
  BY DEF Init, WellFormed, TypeOK, Stages, File, Stage

LEMMA ProposeForms ==
    ASSUME WellFormed, NEW o \in Op, NEW e \in Event, NEW u \in User,
           Propose(o, e, u)
    PROVE  WellFormed'
  <1> DEFINE new == [event |-> e, op |-> o, owner |-> u, created |-> clock]
  <1>1. new \in Entry
    BY DEF Entry, WellFormed, TypeOK
  <1>2. memory' = {m \in memory : m.event # e} \cup {new}
    BY DEF Propose
  <1> HIDE DEF new
  <1>3. memory' \in SUBSET Entry
    BY <1>1, <1>2 DEF WellFormed, TypeOK
  <1> QED
    BY <1>3 DEF Propose, WellFormed, TypeOK, Stages, Stage

LEMMA ArriveForms ==
    ASSUME WellFormed, NEW e \in Event, NEW u \in User, NEW c \in BOOLEAN,
           NEW k \in Key \cup {NoKey}, Arrive(e, u, c, k)
    PROVE  WellFormed'
  <1>1. request' \in Request
    BY DEF Arrive, Request, WellFormed, TypeOK
  <1>2. memory' \in SUBSET Entry
    BY DEF Arrive, Unexpired, WellFormed, TypeOK
  <1> QED
    BY <1>1, <1>2 DEF Arrive, WellFormed, TypeOK, Stages, Stage

LEMMA CheckKeyNewForms == ASSUME WellFormed, CheckKeyNew PROVE WellFormed'
  <1> DEFINE new == [key |-> request.key, created |-> clock, executed |-> FALSE]
  <1>1. request \in Request
    BY DEF CheckKeyNew, WellFormed, Stages
  <1>2. request.key # NoKey => new \in KeyRecord
    BY <1>1 DEF Request, KeyRecord, WellFormed, TypeOK
  <1>3. \/ idem' \in {idem, LiveKeys}
        \/ request.key # NoKey /\ idem' = LiveKeys \cup {new}
    BY DEF CheckKeyNew
  <1> HIDE DEF new
  <1>4. LiveKeys \subseteq idem
    BY DEF LiveKeys
  <1>5. idem' \in SUBSET KeyRecord
    BY <1>2, <1>3, <1>4 DEF WellFormed, TypeOK
  <1> QED
    BY <1>1, <1>5 DEF CheckKeyNew, WellFormed, TypeOK, Stages, Stage

LEMMA ExecuteForms == ASSUME WellFormed, Execute PROVE WellFormed'
  <1>1. job \in Entry /\ job.op \in Op
    BY DEF Execute, WellFormed, Stages, Entry
  <1>2. effects' \in [Op -> Nat]
    BY <1>1 DEF Execute, WellFormed, TypeOK
  <1> QED
    BY <1>1, <1>2 DEF Execute, WellFormed, TypeOK, Stages, Stage

LEMMA AnswerForms == ASSUME WellFormed, Answer PROVE WellFormed'
  <1> DEFINE mark(r) == IF r.key = request.key THEN [r EXCEPT !.executed = TRUE]
                        ELSE r
  <1>1. idem' = {mark(r) : r \in idem}
    BY DEF Answer
  <1>2. \A r \in KeyRecord : mark(r) \in KeyRecord
    BY DEF KeyRecord
  <1> HIDE DEF mark
  <1>3. idem' \in SUBSET KeyRecord
    BY <1>1, <1>2 DEF WellFormed, TypeOK
  <1>4. marked' \in SUBSET KeyRecord
    BY <1>3 DEF Answer, WellFormed, TypeOK
  <1> QED
    BY <1>3, <1>4, FinishForms DEF Answer, WellFormed, TypeOK, Stages

LEMMA WellFormedNext == WellFormed /\ [Next]_vars => WellFormed'
  <1> SUFFICES ASSUME WellFormed, [Next]_vars PROVE WellFormed'
    OBVIOUS
  <1>1. CASE Tick
    BY <1>1 DEF Tick, WellFormed, TypeOK, Stages
  <1>2. CASE SaveOpen
    BY <1>2 DEF SaveOpen, WellFormed, TypeOK, Stages, File
  <1>3. CASE SaveWrite
    BY <1>3 DEF SaveWrite, WellFormed, TypeOK, Stages, File
  <1>4. CASE \E o \in Op, e \in Event, u \in User : Propose(o, e, u)
    BY <1>4, ProposeForms
  <1>5. CASE Proposed
    BY <1>5, FinishForms DEF Proposed, WellFormed, TypeOK, Stages
  <1>6. CASE \E e \in Event, u \in User, c \in BOOLEAN, k \in Key \cup {NoKey} :
               Arrive(e, u, c, k)
    BY <1>6, ArriveForms
  <1>7. CASE Reject
    BY <1>7, FinishForms DEF Reject, WellFormed, TypeOK, Stages
  <1>8. ASSUME NEW m \in memory, Pop(m) PROVE WellFormed'
    BY <1>8 DEF Pop, WellFormed, TypeOK, Stages, Stage
  <1>9. CASE AnswerDenial
    <2>1. job.op \in Op
      BY <1>9 DEF AnswerDenial, WellFormed, Stages, Entry
    <2> QED
      BY <1>9, <2>1, FinishForms DEF AnswerDenial, WellFormed, TypeOK, Stages
  <1>10. CASE CheckKeyDuplicate
    BY <1>10, FinishForms DEF CheckKeyDuplicate, LiveKeys, WellFormed, TypeOK, Stages
  <1>11. CASE CheckKeyNew
    BY <1>11, CheckKeyNewForms
  <1>12. CASE Blocked
    BY <1>12, FinishForms DEF Blocked, WellFormed, TypeOK, Stages
  <1>13. CASE Execute
    BY <1>13, ExecuteForms
  <1>14. CASE GatewayRefuses
    BY <1>14 DEF GatewayRefuses, WellFormed, TypeOK, Stages, Stage
  <1>15. CASE Answer
    BY <1>15, AnswerForms
  <1>16. CASE Raise
    BY <1>16, FinishForms DEF Raise, WellFormed, TypeOK, Stages
  <1>17. CASE Restart
    BY <1>17, FinishForms, LoadType DEF Restart, WellFormed, TypeOK, Stages
  <1>18. CASE UNCHANGED vars
    BY <1>18 DEF vars, WellFormed, TypeOK, Stages
  <1> QED
    BY <1>1, <1>2, <1>3, <1>4, <1>5, <1>6, <1>7, <1>8, <1>9, <1>10, <1>11, <1>12,
       <1>13, <1>14, <1>15, <1>16, <1>17, <1>18 DEF Next

\* The table, its file, the key store and the handler hold only what was
\* proposed and what clients sent, in every behaviour.
THEOREM TypeCorrect == Spec => []TypeOK
  <1>1. WellFormed => TypeOK
    BY DEF WellFormed
  <1> QED
    BY <1>1, WellFormedInit, WellFormedNext, PTL DEF Spec

-----------------------------------------------------------------------------
(***************************************************************************)
(* One entry an operation, and none once it has ended.                     *)
(***************************************************************************)
LEMMA OpsAre == ASSUME NEW S, NEW o PROVE o \in Ops(S) <=> \E e \in S : e.op = o
  BY DEF Ops

\* Only a proposal adds an entry.
LEMMA AliveShrinks ==
    ASSUME [Next]_vars
    PROVE  \/ Alive' \subseteq Alive /\ used' = used
           \/ \E o \in Op, e \in Event, u \in User : Propose(o, e, u)
  <1> USE DEF Alive, Load
  <1>1. CASE SaveOpen
    BY <1>1 DEF SaveOpen
  <1>2. CASE SaveWrite
    BY <1>2 DEF SaveWrite
  <1>3. ASSUME NEW e \in Event, NEW u \in User, NEW c \in BOOLEAN,
               NEW k \in Key \cup {NoKey}, Arrive(e, u, c, k)
        PROVE  Alive' \subseteq Alive /\ used' = used
    BY <1>3 DEF Arrive, Unexpired
  <1>4. ASSUME NEW m \in memory, Pop(m)
        PROVE  Alive' \subseteq Alive /\ used' = used
    BY <1>4 DEF Pop
  <1>5. CASE Restart
    BY <1>5 DEF Restart
  <1>6. CASE memory' = memory /\ file' = file /\ used' = used
    BY <1>6
  <1> QED
    BY <1>1, <1>2, <1>3, <1>4, <1>5, <1>6
    DEF Next, Tick, Proposed, Reject, AnswerDenial, CheckKeyDuplicate, CheckKeyNew,
        Blocked, Execute, GatewayRefuses, Answer, Raise, vars

LEMMA SettledInit == Init => Settled
  BY OpsAre
  DEF Init, Settled, OneEntry, AliveIsUsed, JobIsOut, EndedIsOut,
      DeniedNeverRuns, ExecutedAtMostOnce, Alive, Load

\* A new entry is of an operation that nothing was known of.
LEMMA ProposeSettles ==
    ASSUME WellFormed, Settled, NEW o \in Op, NEW e \in Event, NEW u \in User,
           Propose(o, e, u)
    PROVE  Settled'
  <1> DEFINE new == [event |-> e, op |-> o, owner |-> u, created |-> clock]
  <1>1. new.op = o
    OBVIOUS
  <1>2. memory' \subseteq memory \cup {new} /\ file' = file
    BY DEF Propose
  <1> HIDE DEF new
  <1>3. Alive' \subseteq Alive \cup {new}
    BY <1>2 DEF Alive, Load
  <1>4. o \notin used /\ used' = used \cup {o} /\ job' = NoJob
        /\ effects' = effects /\ denied' = denied
    BY DEF Propose, WellFormed, Stages
  <1>5. OneEntry' /\ AliveIsUsed'
    BY <1>1, <1>3, <1>4, OpsAre DEF Settled, OneEntry, AliveIsUsed
  <1>6. EndedIsOut'
    BY <1>1, <1>3, <1>4, OpsAre DEF Settled, EndedIsOut
  <1> QED
    BY <1>4, <1>5, <1>6 DEF Settled, JobIsOut, DeniedNeverRuns, ExecutedAtMostOnce

\* A step that brings nothing back, runs nothing and denies nothing, and that
\* keeps the job or drops it.
LEMMA QuietSettles ==
    ASSUME Settled, Alive' \subseteq Alive, used' = used,
           effects' = effects, denied' = denied,
           \/ job' = NoJob
           \/ /\ job' = job /\ stage # "ran"
              /\ memory' \subseteq memory
              /\ Load(file)' \subseteq Load(file)
              /\ saving' = "no" => saving = "no" \/ Load(file)' \subseteq memory
    PROVE  Settled'
  <1>1. OneEntry' /\ AliveIsUsed'
    BY OpsAre DEF Settled, OneEntry, AliveIsUsed
  <1>2. EndedIsOut'
    BY OpsAre DEF Settled, EndedIsOut
  <1>3. JobIsOut'
    BY OpsAre DEF Settled, JobIsOut
  <1> QED
    BY <1>1, <1>2, <1>3 DEF Settled, DeniedNeverRuns, ExecutedAtMostOnce

\* A popped entry was alive: it has not run and is not denied.
LEMMA PopSettles ==
    ASSUME WellFormed, Settled, NEW m \in memory, Pop(m)
    PROVE  Settled'
  <1>1. /\ memory' = memory \ {m} /\ file' = file /\ used' = used
        /\ job' = m /\ saving' = "open" /\ stage' # "ran"
        /\ effects' = effects /\ denied' = denied
    BY DEF Pop
  <1>2. m \in Entry /\ m.op \in Op /\ m # NoJob
    BY NullAssumption DEF WellFormed, TypeOK, Entry
  <1>3. m \in Alive /\ Alive' \subseteq Alive
    BY <1>1 DEF Alive, Load
  <1>4. OneEntry' /\ AliveIsUsed'
    BY <1>1, <1>3, OpsAre DEF Settled, OneEntry, AliveIsUsed
  <1>5. EndedIsOut'
    BY <1>1, <1>3, OpsAre DEF Settled, EndedIsOut
  <1>6. JobIsOut'
    <2>1. \A a \in Alive : a.op = m.op => a = m
      BY <1>3 DEF Settled, OneEntry
    <2>2. m.op \in used
      BY <1>3, OpsAre DEF Settled, AliveIsUsed
    <2>3. m.op \notin Ops(memory')
      BY <1>1, <2>1, OpsAre DEF Alive
    <2>4. Load(file)' = Load(file) /\ Load(file) \subseteq Alive
      BY <1>1 DEF Load, Alive
    <2> QED
      BY <1>1, <2>1, <2>2, <2>3, <2>4 DEF JobIsOut
  <1>7. DeniedNeverRuns'
    BY <1>1, <1>3, OpsAre DEF Settled, EndedIsOut, DeniedNeverRuns, WellFormed, TypeOK
  <1> QED
    BY <1>1, <1>4, <1>5, <1>6, <1>7 DEF Settled, ExecutedAtMostOnce

LEMMA DenialSettles ==
    ASSUME WellFormed, Settled, AnswerDenial
    PROVE  Settled'
  <1>1. /\ memory' = memory /\ file' = file /\ used' = used /\ saving = "no"
        /\ job' = NoJob /\ effects' = effects /\ denied' = denied \cup {job.op}
        /\ stage = "refused"
    BY DEF AnswerDenial, Finish
  <1>2. job \in Entry /\ job.op \in Op /\ job # NoJob
    BY <1>1, NullAssumption DEF WellFormed, Stages, Entry
  <1>3. Alive' = Alive /\ job.op \notin Ops(Alive) /\ job.op \in used
    BY <1>1, <1>2, OpsAre DEF Alive, Load, Settled, JobIsOut
  <1>4. effects[job.op] = 0
    BY <1>1, <1>2 DEF Settled, EndedIsOut, WellFormed, TypeOK
  <1> QED
    BY <1>1, <1>2, <1>3, <1>4
    DEF Settled, OneEntry, AliveIsUsed, JobIsOut, EndedIsOut, DeniedNeverRuns,
        ExecutedAtMostOnce

LEMMA ExecuteSettles ==
    ASSUME WellFormed, Settled, Execute
    PROVE  Settled'
  <1>1. /\ memory' = memory /\ file' = file /\ used' = used /\ saving = "no"
        /\ job' = job /\ denied' = denied /\ stage = "cleared" /\ stage' = "ran"
        /\ saving' = saving
    BY DEF Execute, WellFormed, Stages
  <1>2. job \in Entry /\ job.op \in Op /\ job # NoJob
    BY <1>1, NullAssumption DEF WellFormed, Stages, Entry
  <1>3. Alive' = Alive /\ job.op \notin Ops(Alive) /\ job.op \in used
    BY <1>1, <1>2, OpsAre DEF Alive, Load, Settled, JobIsOut
  <1>4. effects[job.op] = 0 /\ job.op \notin denied
    BY <1>1, <1>2 DEF Settled, EndedIsOut, DeniedNeverRuns, WellFormed, TypeOK
  <1>5. effects' = [effects EXCEPT ![job.op] = 1]
    BY <1>4 DEF Execute
  <1>6. \A o \in Op : effects'[o] = IF o = job.op THEN 1 ELSE effects[o]
    BY <1>2, <1>5 DEF WellFormed, TypeOK
  <1>7. OneEntry' /\ AliveIsUsed'
    BY <1>1, <1>3 DEF Settled, OneEntry, AliveIsUsed
  <1>8. JobIsOut'
    BY <1>1 DEF Settled, JobIsOut, Load
  <1>9. EndedIsOut'
    BY <1>1, <1>3, <1>6 DEF Settled, EndedIsOut
  <1>10. DeniedNeverRuns' /\ ExecutedAtMostOnce'
    BY <1>1, <1>4, <1>6
    DEF Settled, DeniedNeverRuns, ExecutedAtMostOnce, WellFormed, TypeOK
  <1> QED
    BY <1>7, <1>8, <1>9, <1>10 DEF Settled

LEMMA SettledNext == WellFormed /\ Settled /\ [Next]_vars => Settled'
  <1> SUFFICES ASSUME WellFormed, Settled, [Next]_vars PROVE Settled'
    OBVIOUS
  <1>1. CASE \E o \in Op, e \in Event, u \in User : Propose(o, e, u)
    BY <1>1, ProposeSettles
  <1>2. CASE \E m \in memory : Pop(m)
    BY <1>2, PopSettles
  <1>3. CASE AnswerDenial
    BY <1>3, DenialSettles
  <1>4. CASE Execute
    BY <1>4, ExecuteSettles
  <1>5. ASSUME Alive' \subseteq Alive, used' = used,
               effects' = effects, denied' = denied, job' = NoJob
        PROVE  Settled'
    BY <1>5, QuietSettles
  <1>6. ASSUME Alive' \subseteq Alive, used' = used
        PROVE  Settled'
    <2>1. CASE SaveOpen
      <3>1. Load(file)' = {} /\ saving' # "no" /\ memory' = memory /\ job' = job
            /\ stage # "ran"
        BY <2>1 DEF SaveOpen, Load, WellFormed, Stages
      <3> QED
        BY <1>6, <2>1, <3>1, QuietSettles DEF SaveOpen
    <2>2. CASE SaveWrite
      <3>1. /\ memory' = memory /\ job' = job /\ effects' = effects
            /\ denied' = denied /\ Load(file)' = memory
        BY <2>2 DEF SaveWrite, Load
      <3>2. JobIsOut'
        BY <1>6, <3>1, OpsAre DEF JobIsOut, Settled
      <3> QED
        BY <1>6, <2>2, <3>1, <3>2, OpsAre
        DEF SaveWrite, Settled, OneEntry, AliveIsUsed, EndedIsOut, DeniedNeverRuns,
            ExecutedAtMostOnce
    <2>3. CASE \/ Proposed \/ Reject \/ CheckKeyDuplicate \/ Blocked \/ Answer
               \/ Raise \/ Restart
      BY <1>5, <1>6, <2>3
      DEF Proposed, Reject, CheckKeyDuplicate, Blocked, Answer, Raise, Restart, Finish
    <2>4. CASE \E e \in Event, u \in User, c \in BOOLEAN, k \in Key \cup {NoKey} :
                 Arrive(e, u, c, k)
      BY <1>5, <1>6, <2>4 DEF Arrive, WellFormed, Stages
    <2>5. CASE CheckKeyNew \/ GatewayRefuses
      BY <1>6, <2>5, QuietSettles
      DEF CheckKeyNew, GatewayRefuses, Load, WellFormed, Stages
    <2>6. CASE Tick \/ UNCHANGED vars
      <3>1. /\ memory' = memory /\ file' = file /\ saving' = saving /\ job' = job
            /\ effects' = effects /\ denied' = denied /\ stage' = stage
        BY <2>6 DEF Tick, vars
      <3>2. Alive' = Alive /\ Load(file)' = Load(file)
        BY <3>1 DEF Alive, Load
      <3> QED
        BY <1>6, <3>1, <3>2
        DEF Settled, OneEntry, AliveIsUsed, JobIsOut, EndedIsOut, DeniedNeverRuns,
            ExecutedAtMostOnce
    <2> QED
      BY <1>1, <1>2, <1>3, <1>4, <2>1, <2>2, <2>3, <2>4, <2>5, <2>6 DEF Next
  <1> QED
    BY <1>1, <1>6, AliveShrinks

LEMMA SettledAlways == Spec => [](WellFormed /\ Settled)
  BY WellFormedInit, WellFormedNext, SettledInit, SettledNext, PTL DEF Spec

\* However requests, exceptions, saves that do not finish and restarts
\* interleave, a proposed operation reaches the system at most once
\* (PendingStore.compare_and_pop before execute_tool in confirm.py).
THEOREM ExecutedAtMostOnceAlways == Spec => []ExecutedAtMostOnce
  <1>1. Settled => ExecutedAtMostOnce
    BY DEF Settled
  <1> QED
    BY <1>1, SettledAlways, PTL

\* An operation whose denial was answered never runs, although a restart may
\* read an old file (the pop is saved before the answer).
THEOREM DenialIsFinalAlways == Spec => []DenialIsFinal
  <1>1. Settled => DenialIsFinal
    BY DEF Settled, DeniedNeverRuns, DenialIsFinal
  <1> QED
    BY <1>1, SettledAlways, PTL

-----------------------------------------------------------------------------
(***************************************************************************)
(* The time limits.                                                        *)
(***************************************************************************)
Timely == WellFormed /\ InTime

\* A marked record that lives is kept by every change of the key store.
LEMMA LiveKeysKeep ==
    ASSUME NEW r \in idem, clock - r.created <= IdemTtl
    PROVE  r \in LiveKeys
  BY DEF LiveKeys

LEMMA InTimeInit == Init => InTime
  BY DEF Init, InTime

\* Records only leave the store by expiry.
LEMMA CheckKeyInTime ==
    ASSUME Timely, CheckKeyDuplicate \/ CheckKeyNew
    PROVE  InTime'
  <1>1. /\ clock' = clock /\ marked' = marked /\ stage = "claimed"
        /\ idem' = idem \/ LiveKeys \subseteq idem'
    BY DEF CheckKeyDuplicate, CheckKeyNew
  <1>2. \A r \in marked' : clock' - r.created <= IdemTtl => r \in idem' /\ r.executed
    BY <1>1, LiveKeysKeep DEF Timely, InTime
  <1>3. CASE CheckKeyDuplicate
    BY <1>2, <1>3 DEF CheckKeyDuplicate, Finish, InTime
  <1>4. CASE CheckKeyNew
    <2>1. job' = job /\ request' = request /\ stage' = "cleared"
      BY <1>4 DEF CheckKeyNew
    <2>2. request.at - job.created <= PendingTtl
      BY <1>1 DEF Timely, InTime
    <2>3. ASSUME NEW r \in marked, r.key = request.key
          PROVE  clock - r.created > IdemTtl
      <3>1. r \in KeyRecord /\ r.created \in Int /\ clock \in Int /\ IdemTtl \in Int
        BY TtlAssumption DEF Timely, WellFormed, TypeOK, KeyRecord
      <3>2. request.key # NoKey
        BY <2>3, <3>1, NullAssumption DEF KeyRecord
      <3>3. ~Executed(request.key)
        BY <1>4, <3>2 DEF CheckKeyNew
      <3>4. SUFFICES ASSUME clock - r.created <= IdemTtl PROVE FALSE
        BY <3>1
      <3>5. r \in LiveKeys /\ r.executed
        BY <3>4, LiveKeysKeep DEF Timely, InTime
      <3> QED
        BY <2>3, <3>3, <3>5 DEF Executed
    <2> QED
      BY <1>1, <1>2, <2>1, <2>2, <2>3 DEF InTime
  <1> QED
    BY <1>3, <1>4

LEMMA AnswerInTime == ASSUME Timely, Answer PROVE InTime'
  <1> DEFINE mark(r) == IF r.key = request.key THEN [r EXCEPT !.executed = TRUE]
                        ELSE r
  <1>1. /\ idem' = {mark(r) : r \in idem} /\ clock' = clock /\ stage' = "idle"
        /\ marked' = marked \cup {r \in idem' : r.key = request.key}
    BY DEF Answer, Finish
  <1>2. \A r \in KeyRecord : /\ r.executed = TRUE => mark(r) = r
                             /\ mark(r).key = r.key
                             /\ r.key = request.key => mark(r).executed
    BY DEF KeyRecord
  <1>3. idem \subseteq KeyRecord /\ marked \subseteq KeyRecord
    BY DEF Timely, WellFormed, TypeOK
  <1> HIDE DEF mark
  <1>4. ASSUME NEW r \in marked', clock' - r.created <= IdemTtl
        PROVE  r \in idem' /\ r.executed
    <2>1. CASE r \in marked
      <3>1. r \in idem /\ r.executed
        BY <1>1, <1>4, <2>1 DEF Timely, InTime
      <3>2. r.executed = TRUE
        BY <1>3, <2>1, <3>1 DEF KeyRecord
      <3> QED
        BY <1>1, <1>2, <1>3, <3>1, <3>2
    <2>2. CASE r \in idem' /\ r.key = request.key
      BY <1>1, <1>2, <1>3, <2>2
    <2> QED
      BY <1>1, <2>1, <2>2
  <1> QED
    BY <1>1, <1>4 DEF InTime

LEMMA InTimeNext == Timely /\ [Next]_vars => InTime'
  <1> SUFFICES ASSUME Timely, [Next]_vars PROVE InTime'
    OBVIOUS
  <1> USE DEF Timely, InTime
  <1>1. CASE Tick
    <2>1. \A r \in marked : r.created \in Int /\ clock \in Int /\ IdemTtl \in Int
      BY TtlAssumption DEF WellFormed, TypeOK, KeyRecord
    <2> QED
      BY <1>1, <2>1 DEF Tick
  <1>2. CASE SaveOpen \/ SaveWrite
    BY <1>2 DEF SaveOpen, SaveWrite
  <1>3. CASE \E o \in Op, e \in Event, u \in User : Propose(o, e, u)
    BY <1>3 DEF Propose
  <1>4. ASSUME NEW e \in Event, NEW u \in User, NEW c \in BOOLEAN,
               NEW k \in Key \cup {NoKey}, Arrive(e, u, c, k)
        PROVE  InTime'
    <2>1. request'.at = clock /\ stage' = "arrived" /\ memory' = Unexpired(memory)
          /\ marked' = marked /\ idem' = idem /\ clock' = clock
      BY <1>4 DEF Arrive
    <2> QED
      BY <2>1 DEF Unexpired
  <1>5. ASSUME NEW m \in memory, Pop(m) PROVE InTime'
    BY <1>5 DEF Pop
  <1>6. CASE Proposed \/ Reject \/ AnswerDenial \/ Blocked \/ Raise \/ Restart
    BY <1>6 DEF Proposed, Reject, AnswerDenial, Blocked, Raise, Restart, Finish
  <1>7. CASE CheckKeyDuplicate \/ CheckKeyNew
    BY <1>7, CheckKeyInTime
  <1>8. CASE Execute \/ GatewayRefuses
    BY <1>8 DEF Execute, GatewayRefuses
  <1>9. CASE Answer
    BY <1>9, AnswerInTime
  <1>10. CASE UNCHANGED vars
    BY <1>10 DEF vars
  <1> QED
    BY <1>1, <1>2, <1>3, <1>4, <1>5, <1>6, <1>7, <1>8, <1>9, <1>10 DEF Next

\* What runs had not expired when it was approved, and a key whose execution
\* was answered runs nothing again while its record lives (cleanup_pending,
\* IdempotencyGuard), for any two times to live.
THEOREM ExecutesInTimeAlways == Spec => ExecutesInTime
  <1>1. Init => Timely
    BY WellFormedInit, InTimeInit DEF Timely
  <1>2. Timely /\ [Next]_vars => Timely'
    BY WellFormedNext, InTimeNext DEF Timely
  <1>3. Timely /\ [Next]_vars =>
          [Execute => /\ request.at - job.created <= PendingTtl
                      /\ \A r \in marked :
                            r.key = request.key => clock - r.created > IdemTtl]_vars
    BY DEF Timely, InTime, Execute
  <1> QED
    BY <1>1, <1>2, <1>3, PTL DEF Spec, ExecutesInTime

-----------------------------------------------------------------------------
(***************************************************************************)
(* The refinement of Approval: most steps leave the status of every        *)
(* operation alone or drop what was undecided.                             *)
(***************************************************************************)
Kept(o) == StatusOf(o)' = StatusOf(o)
Dropped(o) == StatusOf(o) \in {"pending", "claimed"} /\ StatusOf(o)' = "dropped"

LEMMA DropRefines ==
    ASSUME \A o \in Op : Kept(o) \/ Dropped(o)
    PROVE  [A!Next]_Status
  <1> DEFINE ops == {o \in Op : ~Kept(o)}
  <1>1. \A o \in Op : Status[o] = StatusOf(o)
    BY DEF Status
  <1>2. ops \subseteq A!Undecided
    BY <1>1 DEF A!Undecided, Dropped
  <1>3. Status' = [o \in Op |-> IF o \in ops THEN "dropped" ELSE Status[o]]
    BY <1>1 DEF Status, Kept, Dropped
  <1>4. Status' = A!Set(ops, "dropped")
    BY <1>3 DEF A!Set
  <1>5. A!Drop(ops)
    BY <1>2, <1>4 DEF A!Drop
  <1>6. ops \in SUBSET Op
    OBVIOUS
  <1> HIDE DEF ops
  <1> QED
    BY <1>5, <1>6 DEF A!Next

\* One operation that moves on while the others stay.
LEMMA MoveRefines ==
    ASSUME NEW p \in Op, \A o \in Op \ {p} : Kept(o),
           \/ StatusOf(p) = "pending" /\ StatusOf(p)' = "claimed"
           \/ StatusOf(p) = "claimed" /\ StatusOf(p)' = "executed"
    PROVE  [A!Next]_Status
  <1>1. \A o \in Op : Status[o] = StatusOf(o)
    BY DEF Status
  <1>2. Status' = [o \in Op |-> IF o \in {p} THEN StatusOf(p)' ELSE Status[o]]
    BY <1>1 DEF Status, Kept
  <1>3. CASE StatusOf(p) = "pending" /\ StatusOf(p)' = "claimed"
    BY <1>1, <1>2, <1>3 DEF A!Next, A!Claim, A!Set
  <1>4. CASE StatusOf(p) = "claimed" /\ StatusOf(p)' = "executed"
    BY <1>1, <1>2, <1>4 DEF A!Next, A!Execute, A!Set
  <1> QED
    BY <1>3, <1>4

LEMMA InitRefines == Init => A!Init
  <1> SUFFICES ASSUME Init PROVE A!Init
    OBVIOUS
  <1>1. \A o \in Op : StatusOf(o) = "unseen"
    BY OpsAre DEF Init, StatusOf, Waiting, Load
  <1> QED
    BY <1>1 DEF A!Init, Status

-----------------------------------------------------------------------------
(***************************************************************************)
(* The status of an operation, case by case.                               *)
(***************************************************************************)
Claimed(o) ==
    /\ effects[o] = 0
    /\ stage \in {"claimed", "cleared", "ran"}
    /\ saving = "no"
    /\ job.op = o

LEMMA StatusCases ==
    ASSUME TypeOK, NEW o \in Op
    PROVE  StatusOf(o) = IF effects[o] > 0 THEN "executed"
                         ELSE IF Claimed(o) THEN "claimed"
                         ELSE IF Waiting(o) THEN "pending"
                         ELSE IF o \in used THEN "dropped" ELSE "unseen"
  BY DEF StatusOf, Claimed, TypeOK

LEMMA NextStatusCases ==
    ASSUME TypeOK', NEW o \in Op
    PROVE  StatusOf(o)' = IF effects'[o] > 0 THEN "executed"
                          ELSE IF Claimed(o)' THEN "claimed"
                          ELSE IF Waiting(o)' THEN "pending"
                          ELSE IF o \in used' THEN "dropped" ELSE "unseen"
  BY DEF StatusOf, Claimed, TypeOK

\* An operation that is waited for, or claimed, has been proposed.
LEMMA WaitingIsUsed ==
    ASSUME WellFormed, Settled, NEW o \in Op, Waiting(o) \/ Claimed(o)
    PROVE  o \in used
  <1>1. CASE o \in Ops(memory) \/ o \in Ops(Load(file))
    BY <1>1, OpsAre DEF Alive, Settled, AliveIsUsed
  <1>2. CASE job # NoJob /\ job.op = o
    BY <1>2 DEF Settled, JobIsOut
  <1>3. CASE Claimed(o)
    BY <1>3, <1>2, NullAssumption DEF Claimed, WellFormed, Stages
  <1> QED
    BY <1>1, <1>2, <1>3 DEF Waiting

\* If an operation is neither run nor newly waited for nor newly claimed, its
\* status is kept or it is dropped.
LEMMA FadesRefines ==
    ASSUME WellFormed, TypeOK', Settled, NEW o \in Op,
           effects'[o] = effects[o], used' = used,
           Waiting(o)' => Waiting(o) /\ ~Claimed(o),
           Claimed(o)' => Claimed(o)
    PROVE  Kept(o) \/ Dropped(o)
  BY StatusCases, NextStatusCases, WaitingIsUsed DEF Kept, Dropped, WellFormed

\* A claimed operation is in the table and the file no more.
LEMMA ClaimedIsOut ==
    ASSUME WellFormed, Settled, NEW o, Claimed(o)
    PROVE  ~Waiting(o)
  <1>1. job # NoJob /\ saving = "no" /\ job.op = o
    BY NullAssumption DEF Claimed, WellFormed, Stages
  <1> QED
    BY <1>1 DEF Settled, JobIsOut, Waiting

\* A step that runs nothing, and after which nothing is waited for or claimed
\* that was not before.
LEMMA FadingStep ==
    ASSUME WellFormed, TypeOK', Settled, effects' = effects, used' = used,
           \A o \in Op : (Waiting(o)' => Waiting(o)) /\ (Claimed(o)' => Claimed(o))
    PROVE  [A!Next]_Status
  <1>1. \A o \in Op : Kept(o) \/ Dropped(o)
    BY FadesRefines, ClaimedIsOut
  <1> QED
    BY <1>1, DropRefines

\* Steps that leave the table and its file alone and hold no new job.
LEMMA StillStep ==
    ASSUME WellFormed, TypeOK', Settled, effects' = effects, used' = used,
           memory' = memory, file' = file,
           \/ job' = NoJob /\ stage' = "idle"
           \/ /\ job' = job /\ saving' = saving
              /\ stage' = stage \/ stage \in {"claimed", "cleared"}
    PROVE  [A!Next]_Status
  <1>1. Load(file)' = Load(file)
    BY DEF Load
  <1> QED
    BY <1>1, FadingStep DEF Waiting, Claimed

LEMMA ArriveRefines ==
    ASSUME WellFormed, TypeOK', Settled, NEW e \in Event, NEW u \in User,
           NEW c \in BOOLEAN, NEW k \in Key \cup {NoKey}, Arrive(e, u, c, k)
    PROVE  [A!Next]_Status
  <1>1. /\ memory' \subseteq memory /\ file' = file /\ job' = NoJob
        /\ stage' = "arrived" /\ effects' = effects /\ used' = used
    BY DEF Arrive, Unexpired, WellFormed, Stages
  <1> QED
    BY <1>1, OpsAre, FadingStep DEF Waiting, Claimed, Load

LEMMA PopRefines ==
    ASSUME WellFormed, TypeOK', Settled, NEW m \in memory, Pop(m)
    PROVE  [A!Next]_Status
  <1>1. /\ memory' \subseteq memory /\ file' = file /\ job' = m
        /\ saving' = "open" /\ effects' = effects /\ used' = used
    BY DEF Pop
  <1> QED
    BY <1>1, OpsAre, FadingStep DEF Waiting, Claimed, Load

LEMMA SaveOpenRefines ==
    ASSUME WellFormed, TypeOK', Settled, SaveOpen PROVE [A!Next]_Status
  <1>1. /\ memory' = memory /\ Load(file)' = {} /\ job' = job /\ stage' = stage
        /\ saving = "open" /\ saving' = "write" /\ effects' = effects /\ used' = used
    BY DEF SaveOpen, Load
  <1> QED
    BY <1>1, OpsAre, FadingStep DEF Waiting, Claimed

\* The save that ends an approval's pop is the claim.
LEMMA SaveWriteRefines ==
    ASSUME WellFormed, TypeOK', Settled, SaveWrite PROVE [A!Next]_Status
  <1>1. /\ memory' = memory /\ Load(file)' = memory /\ job' = job
        /\ stage' = stage /\ saving = "write" /\ saving' = "no"
        /\ effects' = effects /\ used' = used
    BY DEF SaveWrite, Load
  <1>2. CASE stage \in {"claimed", "cleared", "ran"}
    <2>1. job \in Entry /\ job.op \in Op /\ job # NoJob
      BY <1>2, NullAssumption DEF WellFormed, Stages, Entry
    <2> PICK p \in Op : p = job.op
      BY <2>1
    <2>2. effects[p] = 0 /\ p \notin Ops(memory) /\ stage = "claimed"
      BY <1>1, <1>2, <2>1
      DEF Settled, JobIsOut, EndedIsOut, WellFormed, Stages, TypeOK
    <2>3. StatusOf(p) = "pending"
      BY <1>1, <2>1, <2>2, StatusCases DEF Waiting, Claimed, WellFormed
    <2>4. StatusOf(p)' = "claimed"
      BY <1>1, <1>2, <2>1, <2>2, NextStatusCases DEF Claimed
    <2>5. ASSUME NEW o \in Op \ {p} PROVE Kept(o)
      <3>1. ~Claimed(o) /\ ~Claimed(o)'
        BY <1>1 DEF Claimed
      <3>2. Waiting(o) <=> o \in Ops(memory) \cup Ops(Load(file))
        BY DEF Waiting
      <3>3. o \notin Ops(Load(file))
        BY <1>1, OpsAre DEF Load, WellFormed, Stages
      <3>4. Waiting(o)' <=> Waiting(o)
        BY <1>1, <3>2, <3>3 DEF Waiting
      <3> QED
        BY <1>1, <3>1, <3>4, StatusCases, NextStatusCases DEF Kept, WellFormed
    <2> QED
      BY <2>3, <2>4, <2>5, MoveRefines
  <1>3. CASE stage \notin {"claimed", "cleared", "ran"}
    BY <1>1, <1>3, OpsAre, FadingStep DEF Waiting, Claimed
  <1> QED
    BY <1>2, <1>3

LEMMA ExecuteRefines ==
    ASSUME WellFormed, TypeOK', Settled, Execute PROVE [A!Next]_Status
  <1>1. /\ memory' = memory /\ Load(file)' = Load(file) /\ job' = job
        /\ stage = "cleared" /\ stage' = "ran" /\ saving = "no" /\ saving' = "no"
        /\ used' = used /\ effects' = [effects EXCEPT ![job.op] = @ + 1]
    BY DEF Execute, Load, WellFormed, Stages
  <1>2. job \in Entry /\ job.op \in Op /\ job # NoJob
    BY <1>1, NullAssumption DEF WellFormed, Stages, Entry
  <1> PICK p \in Op : p = job.op
    BY <1>2
  <1>3. effects[p] = 0
    BY <1>1, <1>2 DEF Settled, EndedIsOut, WellFormed, TypeOK
  <1>4. effects'[p] = 1 /\ \A o \in Op \ {p} : effects'[o] = effects[o]
    BY <1>1, <1>2, <1>3 DEF WellFormed, TypeOK
  <1>5. StatusOf(p) = "claimed"
    BY <1>1, <1>2, <1>3, StatusCases DEF Claimed, WellFormed
  <1>6. StatusOf(p)' = "executed"
    BY <1>2, <1>4, NextStatusCases
  <1>7. ASSUME NEW o \in Op \ {p} PROVE Kept(o)
    <2>1. ~Claimed(o) /\ ~Claimed(o)' /\ (Waiting(o)' <=> Waiting(o))
      BY <1>1 DEF Claimed, Waiting
    <2> QED
      BY <1>1, <1>4, <2>1, StatusCases, NextStatusCases DEF Kept, WellFormed
  <1> QED
    BY <1>5, <1>6, <1>7, MoveRefines

\* A proposal may replace entries under its event id; those that are in the
\* file as well are waited for until the save.
LEMMA ProposeRefines ==
    ASSUME WellFormed, TypeOK', Settled, NEW o \in Op, NEW e \in Event,
           NEW u \in User, Propose(o, e, u)
    PROVE  [A!Next]_Status
  <1> DEFINE new == [event |-> e, op |-> o, owner |-> u, created |-> clock]
             replaced == {r \in Op \ {o} : ~Kept(r)}
  <1>1. new.op = o
    OBVIOUS
  <1>2. memory' = {m \in memory : m.event # e} \cup {new}
    BY DEF Propose
  <1> HIDE DEF new
  <1>3. /\ Load(file)' = Load(file) /\ job = NoJob /\ job' = NoJob
        /\ stage = "idle" /\ stage' = "proposing" /\ effects' = effects
        /\ o \notin used /\ used' = used \cup {o}
    BY DEF Propose, Load, WellFormed, Stages
  <1>4. \A r \in Op : ~Claimed(r) /\ ~Claimed(r)'
    BY <1>3 DEF Claimed
  <1>5. effects[o] = 0
    BY <1>3 DEF Settled, EndedIsOut, WellFormed, TypeOK
  <1>6. StatusOf(o) = "unseen"
    BY <1>3, <1>4, <1>5, StatusCases, WaitingIsUsed DEF WellFormed
  <1>7. StatusOf(o)' = "pending"
    <2>1. o \in Ops(memory)'
      BY <1>1, <1>2, OpsAre
    <2> QED
      BY <1>3, <1>4, <1>5, <2>1, NextStatusCases DEF Waiting
  <1>8. ASSUME NEW r \in Op \ {o}
        PROVE  Kept(r) \/ (StatusOf(r) = "pending" /\ StatusOf(r)' = "dropped")
    <2>1. Waiting(r)' => Waiting(r)
      <3>1. r \in Ops(memory') => r \in Ops(memory)
        BY <1>1, <1>2, OpsAre
      <3> QED
        BY <1>3, <3>1 DEF Waiting
    <2>2. Waiting(r) => r \in used
      BY WaitingIsUsed
    <2>3. r \in used' <=> r \in used
      BY <1>3
    <2> QED
      BY <1>3, <1>4, <2>1, <2>2, <2>3, StatusCases, NextStatusCases
      DEF Kept, WellFormed
  <1>9. \A r \in Op : Status[r] = StatusOf(r)
    BY DEF Status
  <1>10. \A r \in replaced : Status[r] = "pending"
    BY <1>8, <1>9
  <1>11. Status' = [A!Set(replaced, "dropped") EXCEPT ![o] = "pending"]
    <2>1. Status' = [r \in Op |-> IF r = o THEN "pending"
                                  ELSE IF r \in replaced THEN "dropped"
                                  ELSE Status[r]]
      BY <1>7, <1>8, <1>9 DEF Status, Kept
    <2> HIDE DEF replaced
    <2> QED
      BY <2>1 DEF A!Set
  <1>12. replaced \in SUBSET Op
    OBVIOUS
  <1> HIDE DEF replaced
  <1>13. A!Propose(o, replaced)
    BY <1>6, <1>9, <1>10, <1>11 DEF A!Propose
  <1> QED
    BY <1>12, <1>13 DEF A!Next

LEMMA StepRefines ==
    WellFormed /\ Settled /\ WellFormed' /\ [Next]_vars => [A!Next]_Status
  <1> SUFFICES ASSUME WellFormed, Settled, WellFormed', [Next]_vars
               PROVE  [A!Next]_Status
    OBVIOUS
  <1>1. TypeOK'
    BY DEF WellFormed
  <1>2. CASE SaveOpen \/ SaveWrite \/ Execute
    BY <1>1, <1>2, SaveOpenRefines, SaveWriteRefines, ExecuteRefines
  <1>3. CASE \E o \in Op, e \in Event, u \in User : Propose(o, e, u)
    BY <1>1, <1>3, ProposeRefines
  <1>4. CASE \E e \in Event, u \in User, c \in BOOLEAN, k \in Key \cup {NoKey} :
               Arrive(e, u, c, k)
    BY <1>1, <1>4, ArriveRefines
  <1>5. CASE \E m \in memory : Pop(m)
    BY <1>1, <1>5, PopRefines
  <1>6. CASE \/ Proposed \/ Reject \/ AnswerDenial \/ CheckKeyDuplicate
             \/ Blocked \/ Answer \/ Raise
    BY <1>1, <1>6, StillStep
    DEF Proposed, Reject, AnswerDenial, CheckKeyDuplicate, Blocked, Answer, Raise,
        Finish
  <1>7. CASE Tick \/ CheckKeyNew \/ GatewayRefuses \/ UNCHANGED vars
    BY <1>1, <1>7, StillStep
    DEF Tick, CheckKeyNew, GatewayRefuses, vars, WellFormed, Stages
  <1>8. CASE Restart
    <2>1. /\ memory' = Load(file) /\ Load(file)' = Load(file) /\ job' = NoJob
          /\ stage' = "idle" /\ effects' = effects /\ used' = used
      BY <1>8 DEF Restart, Finish, Load
    <2> QED
      BY <1>1, <2>1, FadingStep DEF Waiting, Claimed
  <1> QED
    BY <1>2, <1>3, <1>4, <1>5, <1>6, <1>7, <1>8 DEF Next

\* The table, its file and the handler implement the approval of each
\* operation: it waits, is claimed by one approval when the save of the pop is
\* over, runs once or is dropped, and nothing dropped comes back
\* (PendingStore and the confirm handler, restarts included).
THEOREM ImplementsApprovalAlways == Spec => ImplementsApproval
  BY InitRefines, StepRefines, SettledAlways, WellFormedInit, WellFormedNext, PTL
  DEF Spec, ImplementsApproval, A!Spec
=============================================================================
