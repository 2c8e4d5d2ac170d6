-------------------------- MODULE PerceptionProofs --------------------------
(***************************************************************************)
(* Proofs about Perception, for every set of inputs and every number of    *)
(* failures.                                                               *)
(***************************************************************************)
EXTENDS Perception, FiniteSetTheorems, WellFoundedInduction, TLAPS

LEMMA LaterGrows ==
    ASSUME NEW n \in 0..Limit, NEW k \in Nat
    PROVE  /\ Later(n, k) \in 0..Limit
           /\ Later(n, k) >= n
           /\ Later(n, k) = Limit \/ Later(n, k) = n + k
  BY DEF Later, Limit

-----------------------------------------------------------------------------
(***************************************************************************)
(* Types.  A guard that only sanitizes taints nothing.                     *)
(***************************************************************************)
LEMMA OnlyBlockTaints == ASSUME NEW text, Tainted(text) PROVE mode = "block"
  BY DEF Tainted, Verdict

RequestForm ==
    req \in [kind : {"none", "chat", "stream", "context"}, at : Stage,
             text : Text, blocked : BOOLEAN, gaps : SUBSET Gap,
             outcome : {"none", "rejected", "blocked", "perceived", "error",
                        "died"}]

LEMMA AppendForms ==
    ASSUME TypeOK, NEW tainted \in BOOLEAN, NEW ok \in BOOLEAN,
           mode = "sanitize" => ~tainted, WriteEvent(tainted, ok)
    PROVE  /\ age' \in 0..Limit
           /\ tail' \in Unended \cup {"ended", "undecodable"}
           /\ failed' \in 0..MaxFailed
           /\ mode = "sanitize" => age' = Limit /\ tail' # "tainted"
  <1>1. age \in 0..Limit /\ failed \in 0..MaxFailed /\ MaxFailed \in Nat
    BY MaxFailedAssumption DEF TypeOK
  <1>2. tail \in Unended \cup {"ended", "undecodable"}
    BY DEF TypeOK
  <1>3. CASE Written(tainted)
    <2>1. Later(age, 1) \in 0..Limit /\ Later(age, 1) >= age
      BY <1>1, LaterGrows
    <2>2. age' \in 0..Limit /\ (~tainted => age' >= age)
      BY <1>1, <1>3, <2>1 DEF Written, Limit
    <2>3. /\ tail' \in Unended \cup {"ended", "undecodable"}
          /\ tail' = "tainted" => tail = "tainted"
          /\ failed' \in 0..MaxFailed
      BY <1>1, <1>2, <1>3 DEF Written, Taints, Unended
    <2> QED
      BY <1>1, <2>2, <2>3 DEF TypeOK, Limit
  <1>4. CASE NotWritten(tainted)
    <2>1. age' = age \/ age' = Limit
      BY <1>4 DEF NotWritten
    <2>2. failed' \in 0..MaxFailed
      BY <1>1, <1>4 DEF NotWritten, Taints
    <2>3. /\ tail' \in Unended \cup {"ended", "undecodable"}
          /\ ~tainted /\ tail' = "tainted" => tail = "tainted"
      BY <1>2, <1>4 DEF NotWritten, Remains, Unended
    <2> QED
      BY <1>1, <2>1, <2>2, <2>3 DEF TypeOK, Limit
  <1> QED
    BY <1>3, <1>4 DEF WriteEvent

\* A step of which these hold keeps the types.
LEMMA PartsForm ==
    ASSUME TypeOK, mode' = mode,
           age' \in 0..Limit, tail' \in Unended \cup {"ended", "undecodable"},
           failed' \in 0..MaxFailed, blocks' \in Nat, RequestForm',
           mode = "sanitize" => age' = Limit /\ tail' # "tainted",
           NEW hostile \in BOOLEAN, mode = "sanitize" => ~hostile,
           \/ CountVetoes(hostile)
           \/ UNCHANGED engine,
           mode = "sanitize" => ~req'.blocked
    PROVE  TypeOK'
  <1>1. vetoCount' \in 0..2 /\ posture' \in {"balanced", "restrictive"}
        /\ (mode = "sanitize" => vetoCount' = 0 /\ posture' = "balanced")
    BY DEF CountVetoes, engine, TypeOK
  <1> QED
    BY <1>1 DEF TypeOK, RequestForm

LEMMA StepForms == ASSUME TypeOK, [Next]_vars PROVE TypeOK'
  <1>1. RequestForm /\ blocks \in Nat
    BY DEF TypeOK, RequestForm
  <1>2. \A text : mode = "sanitize" => ~Tainted(text)
    BY OnlyBlockTaints
  <1>3. \A text : Tainted(text) \in BOOLEAN
    BY DEF Tainted
  <1>4. ASSUME NEW kind \in {"chat", "stream"}, NEW text \in Text, Receive(kind, text)
        PROVE  TypeOK'
    <2>1. PICK ok \in BOOLEAN :
              /\ AppendText(text, ok)
              /\ req' = [kind |-> kind, text |-> text, blocked |-> FALSE,
                         at |-> IF ok THEN "system_snapshot" ELSE "idle",
                         gaps |-> IF tail = "ended" THEN {} ELSE {"glued"},
                         outcome |-> IF ok THEN "none" ELSE "error"]
      BY <1>4 DEF Receive
    <2>2. RequestForm' /\ ~req'.blocked
      BY <2>1 DEF RequestForm, Stage, After, Gap
    <2>3. blocks' \in Nat /\ WriteEvent(Tainted(text), ok)
      BY <1>1, <2>1 DEF AppendText
    <2>4. mode' = mode /\ UNCHANGED engine
      BY <1>4 DEF Receive
    <2> QED
      BY <1>2, <1>3, <2>2, <2>3, <2>4, AppendForms, PartsForm
  <1>5. ASSUME NEW text, OtherEvent(text) PROVE TypeOK'
    <2>1. PICK ok \in BOOLEAN : AppendText(text, ok)
      BY <1>5 DEF OtherEvent
    <2>2. blocks' \in Nat /\ WriteEvent(Tainted(text), ok)
      BY <1>1, <2>1 DEF AppendText
    <2>3. mode' = mode /\ UNCHANGED engine /\ req' = req
      BY <1>5 DEF OtherEvent
    <2>4. RequestForm' /\ (mode = "sanitize" => ~req'.blocked)
      BY <1>1, <2>3 DEF RequestForm, TypeOK
    <2> QED
      BY <1>2, <1>3, <2>2, <2>3, <2>4, AppendForms, PartsForm
  <1>6. CASE Context
    <2>1. Plain({}) \in Text
      BY DEF Plain, Text
    <2>2. RequestForm' /\ ~req'.blocked
      BY <1>6, <2>1 DEF Context, RequestForm, Stage, After
    <2> QED
      BY <1>6, <2>2 DEF Context, log, engine, TypeOK, RequestForm
  <1>7. ASSUME NEW outcome \in {"rejected", "blocked", "perceived", "error", "died"},
               Over(outcome)
        PROVE  RequestForm' /\ req'.blocked = req.blocked
    BY <1>1, <1>7 DEF Over, RequestForm, Stage
  <1>8. ASSUME NEW ok \in BOOLEAN, WriteEvent(FALSE, ok), mode' = mode,
               blocks' \in Nat, RequestForm',
               NEW hostile \in BOOLEAN, mode = "sanitize" => ~hostile,
               CountVetoes(hostile) \/ UNCHANGED engine,
               req'.blocked => req.blocked \/ hostile
        PROVE  TypeOK'
    <2>1. mode = "sanitize" => ~req'.blocked
      BY <1>8 DEF TypeOK
    <2> QED
      BY <1>8, <2>1, AppendForms, PartsForm
  <1>9. CASE Reject \/ Close
    <2>1. PICK ok \in BOOLEAN, outcome \in {"rejected", "blocked", "error"} :
              WriteEvent(FALSE, ok) /\ Over(outcome)
      BY <1>9 DEF Reject, Close
    <2>2. mode' = mode /\ blocks' \in Nat /\ UNCHANGED engine
      BY <1>1, <1>9 DEF Reject, Close
    <2>3. RequestForm' /\ (req'.blocked => req.blocked \/ FALSE)
      BY <1>7, <2>1
    <2> QED
      BY <1>8, <2>1, <2>2, <2>3
  <1>10. CASE SensorFails
    <2>1. RequestForm' /\ req'.blocked = req.blocked
      BY <1>7, <1>10 DEF SensorFails
    <2> QED
      BY <1>10, <2>1 DEF SensorFails, log, engine, TypeOK, RequestForm
  <1>11. ASSUME NEW source \in {"system_snapshot", "io_stats", "config_drift"},
                Inspect(source)
         PROVE  TypeOK'
    <2>1. PICK hostile \in Hostile, ok \in BOOLEAN :
              /\ WriteEvent(FALSE, ok) /\ CountVetoes(hostile)
              /\ req' = [req EXCEPT !.at = After[source], !.blocked = @ \/ hostile]
      BY <1>11 DEF Inspect
    <2>2. hostile \in BOOLEAN /\ (mode = "sanitize" => ~hostile)
      BY DEF Hostile
    <2>3. RequestForm' /\ (req'.blocked => req.blocked \/ hostile)
      <3>1. After[source] \in Stage
        BY DEF After, Stage
      <3> QED
        BY <1>1, <2>1, <2>2, <3>1 DEF RequestForm
    <2>4. mode' = mode /\ blocks' \in Nat
      BY <1>1, <1>11 DEF Inspect
    <2> QED
      BY <1>8, <2>1, <2>2, <2>3, <2>4
  <1>12. CASE InspectLog
    <2> DEFINE unread(raises) == raises \/ tail = "undecodable"
               found(raises) == ~unread(raises) /\ LogBlocks
    <2>1. PICK raises \in BOOLEAN, ok \in BOOLEAN :
              /\ WriteEvent(FALSE, ok) /\ CountVetoes(found(raises))
              /\ blocks' = IF found(raises) THEN blocks + 1 ELSE blocks
              /\ req' = [req EXCEPT !.at = After["audit_log"],
                            !.blocked = @ \/ found(raises),
                            !.gaps = IF unread(raises) THEN @ \cup {"unread"} ELSE @]
      BY <1>12 DEF InspectLog
    <2>2. found(raises) \in BOOLEAN /\ (mode = "sanitize" => ~found(raises))
      BY DEF TypeOK, LogBlocks, Later, Limit
    <2> HIDE DEF unread, found
    <2>3. RequestForm' /\ (req'.blocked => req.blocked \/ found(raises))
      BY <1>1, <2>1, <2>2 DEF RequestForm, After, Stage, Gap
    <2>4. mode' = mode /\ blocks' \in Nat
      BY <1>1, <1>12, <2>1 DEF InspectLog
    <2> QED
      BY <1>8, <2>1, <2>2, <2>3, <2>4
  <1>13. CASE Perceive
    <2>1. mode' = mode /\ blocks' \in Nat /\ UNCHANGED engine
      BY <1>1, <1>13 DEF Perceive
    <2>2. CASE req.kind = "context"
      <3>1. /\ \E outcome \in {"blocked", "perceived"} : Over(outcome)
            /\ UNCHANGED log
        BY <1>13, <2>2 DEF Perceive
      <3>2. RequestForm' /\ req'.blocked = req.blocked
        BY <1>7, <3>1
      <3> QED
        BY <1>13, <2>1, <3>1, <3>2 DEF Perceive, log, engine, TypeOK, RequestForm
    <2>3. CASE req.kind # "context"
      <3>1. PICK ok \in BOOLEAN :
                /\ WriteEvent(FALSE, ok)
                /\ \/ \E outcome \in {"error", "perceived", "blocked"} : Over(outcome)
                   \/ req' = [req EXCEPT !.at = "close"]
        BY <1>13, <2>3 DEF Perceive
      <3>2. RequestForm' /\ (req'.blocked => req.blocked \/ FALSE)
        BY <1>1, <1>7, <3>1 DEF RequestForm, Stage
      <3> QED
        BY <1>8, <2>1, <3>1, <3>2
    <2> QED
      BY <2>2, <2>3
  <1>14. CASE Midnight
    <2>1. RequestForm' /\ req'.blocked = req.blocked
      BY <1>1, <1>14 DEF Midnight, RequestForm, Gap
    <2> QED
      BY <1>14, <2>1, MaxFailedAssumption
      DEF Midnight, engine, TypeOK, RequestForm, Limit, Unended
  <1>15. CASE Relax
    BY <1>15 DEF Relax, log, TypeOK
  <1>16. CASE Restart
    <2>1. RequestForm' /\ req'.blocked = req.blocked /\ failed' \in 0..MaxFailed
      BY <1>1, <1>7, <1>16, MaxFailedAssumption DEF Restart, RequestForm, TypeOK
    <2> QED
      BY <1>16, <2>1 DEF Restart, TypeOK, RequestForm
  <1>17. CASE UNCHANGED vars
    BY <1>17 DEF vars, log, engine, TypeOK
  <1> QED
    BY <1>4, <1>5, <1>6, <1>9, <1>10, <1>11, <1>12, <1>13, <1>14, <1>15, <1>16,
       <1>17, InputsAssumption
    DEF Next

\* The tail of the log, the requests, the counters and the posture keep their
\* bounds, and a guard in mode "sanitize" blocks no perception and counts no
\* veto, however hostile the inputs (ToolOutputGuard, Perception.build).
THEOREM TypeCorrect == Spec => []TypeOK
  <1>1. Plain({}) \in Text
    BY DEF Plain, Text
  <1>2. Init => TypeOK
    BY <1>1, MaxFailedAssumption DEF Init, TypeOK, Limit, Stage, Unended
  <1>3. TypeOK /\ [Next]_vars => TypeOK'
    BY StepForms
  <1> QED
    BY <1>2, <1>3, PTL DEF Spec

-----------------------------------------------------------------------------
(***************************************************************************)
(* TaintFades is not inductive.  Every perception that a tainted line      *)
(* blocks has four events to write, of which Due are still to come while   *)
(* it runs; a failure costs two events at most, one of them when the next  *)
(* event is glued to what it has left (Pending).                           *)
(***************************************************************************)
Due == IF req.at = "io_stats" THEN 2 ELSE IF req.at = "config_drift" THEN 1 ELSE 0

Ahead == IF req.at = "audit_log" THEN 1 ELSE 0

Pending == IF tail \in Unended THEN 1 ELSE 0

\* The log alone.
LogForm ==
    /\ age \in 0..Limit
    /\ tail \in Unended \cup {"ended", "undecodable"}
    /\ failed \in Nat
    /\ tail = "undecodable" => age = Limit

Pushed ==
    /\ LogForm
    /\ blocks \in Nat
    /\ TaintFades
    /\ age = Limit \/ 4 * blocks + Ahead + Pending <= age + 2 * failed + Due
    /\ tail = "tainted" => 4 * blocks + Ahead + 2 <= 2 * failed + Due

\* An event without a taint pushes the tainted line one event further away,
\* if the failures are counted.
LEMMA AppendPushes ==
    ASSUME LogForm, NEW ok \in BOOLEAN, WriteEvent(FALSE, ok)
    PROVE  /\ LogForm'
           /\ failed' \in {failed, failed + 1}
           /\ \/ age' = Limit
              \/ age # Limit
                 /\ age + 2 * failed + Pending' + 1 <= age' + 2 * failed' + Pending
           /\ tail' = "tainted" => tail = "tainted" /\ failed' = failed + 1
  <1>1. CASE ok
    <2>1. Written(FALSE)
      BY <1>1 DEF WriteEvent
    <2>2. CASE tail = "ended"
      <3>1. tail' = "ended" /\ age' = Later(age, 1) /\ failed' = failed
        BY <2>1, <2>2 DEF Written, Taints, Unended
      <3>2. age' \in 0..Limit /\ (age' = Limit \/ age' = age + 1)
        BY <3>1, LaterGrows DEF LogForm
      <3> QED
        BY <2>2, <3>1, <3>2 DEF LogForm, Pending, Unended, Limit
    <2>3. CASE tail \in Unended
      BY <2>1, <2>3 DEF Written, Taints, Unended, LogForm, Pending, Limit
    <2>4. CASE tail = "undecodable"
      BY <2>1, <2>4 DEF Written, Taints, Unended, LogForm, Pending, Limit
    <2> QED
      BY <2>2, <2>3, <2>4 DEF LogForm
  <1>2. CASE ~ok
    <2>1. NotWritten(FALSE)
      BY <1>2 DEF WriteEvent
    <2>2. failed' = failed + 1 /\ tail' \in Remains(FALSE)
      BY <2>1 DEF NotWritten, Taints
    <2>3. age' = IF tail' = "undecodable" THEN Limit ELSE age
      BY <2>1 DEF NotWritten
    <2>4. /\ tail' \in Unended \cup {"ended", "undecodable"}
          /\ tail' = "tainted" => tail = "tainted"
          /\ tail = "undecodable" => tail' = "undecodable"
          /\ tail' = "ended" => tail = "ended"
      BY <2>2 DEF Remains, Unended, LogForm
    <2> QED
      BY <2>2, <2>3, <2>4 DEF LogForm, Pending, Unended, Limit
  <1> QED
    BY <1>1, <1>2

\* A tainted line that can be read begins a new count; any other text leaves
\* the log as an event without one does.
LEMMA TextAppends ==
    ASSUME LogForm, NEW text, NEW ok \in BOOLEAN, AppendText(text, ok)
    PROVE  \/ /\ Tainted(text) /\ blocks' = 0 /\ tail = "ended"
              /\ ok => tail' = "ended" /\ age' = 0 /\ failed' = 0
              /\ ~ok => tail' = "tainted" /\ age' = age /\ failed' = 1
           \/ WriteEvent(FALSE, ok) /\ blocks' = blocks
  <1>1. CASE Taints(Tainted(text), ok)
    BY <1>1 DEF AppendText, WriteEvent, Written, NotWritten, Taints, Unended
  <1>2. CASE ~Taints(Tainted(text), ok)
    <2>1. blocks' = blocks
      BY <1>2 DEF AppendText
    <2>2. CASE ok
      BY <1>2, <2>1, <2>2 DEF AppendText, WriteEvent, Written, Taints
    <2>3. CASE ~ok
      <3>1. tail' \in Remains(FALSE)
        BY <1>2, <2>3 DEF AppendText, WriteEvent, NotWritten, Taints, Remains, Unended
      <3> QED
        BY <1>2, <2>1, <2>3, <3>1 DEF AppendText, WriteEvent, NotWritten, Taints
    <2> QED
      BY <2>2, <2>3
  <1> QED
    BY <1>1, <1>2

\* The arithmetic of one event: a, f, h, d and p are the age, the failures,
\* Ahead, Due and Pending before it, a1, f1, h1, d1 and p1 after it.
LEMMA Counts ==
    ASSUME NEW b \in Nat, NEW f \in Nat, NEW f1 \in Nat, NEW a \in Int, NEW a1 \in Int,
           NEW h \in Int, NEW h1 \in Int, NEW d \in Int, NEW d1 \in Int,
           NEW p \in Int, NEW p1 \in Int,
           h1 + d <= h + d1 + 1, 4 * b + h + p <= a + 2 * f + d,
           a + 2 * f + p1 + 1 <= a1 + 2 * f1 + p
    PROVE  4 * b + h1 + p1 <= a1 + 2 * f1 + d1
  OBVIOUS

LEMMA CountsLast ==
    ASSUME NEW b \in Nat, NEW f \in Nat, NEW f1 \in Nat,
           NEW h \in Int, NEW h1 \in Int, NEW d \in Int, NEW d1 \in Int,
           h1 + d <= h + d1 + 1, 4 * b + h + 2 <= 2 * f + d, f1 = f + 1
    PROVE  4 * b + h1 + 2 <= 2 * f1 + d1
  OBVIOUS

\* The same for the event after the log was read, which blocked the request.
LEMMA CountsOne ==
    ASSUME NEW b \in Nat, NEW f \in Nat, NEW f1 \in Nat, NEW a \in Int, NEW a1 \in Int,
           NEW p \in 0..1, NEW p1 \in 0..1, f <= f1
    PROVE  /\ a <= 9 /\ 4 * b + 1 + p <= a + 2 * f => 2 * (b + 1) <= 6 + f1
           /\ 4 * b + 1 + 2 <= 2 * f => 2 * (b + 1) <= 6 + f1
           /\ 4 * b + 1 + p <= a + 2 * f /\ a + 2 * f + p1 + 1 <= a1 + 2 * f1 + p
              => 4 * (b + 1) + 0 + p1 <= a1 + 2 * f1 + 2
           /\ 4 * b + 1 + 2 <= 2 * f /\ f1 = f + 1
              => 4 * (b + 1) + 0 + 2 <= 2 * f1 + 2
  OBVIOUS

LEMMA MoreFailures ==
    ASSUME NEW b \in Nat, NEW f \in Nat, NEW f1 \in Nat, f <= f1, 2 * b <= 6 + f
    PROVE  2 * b <= 6 + f1
  OBVIOUS

\* Steps that append an event of their own and block nothing by the log.
LEMMA EventPushes ==
    ASSUME Pushed, NEW ok \in BOOLEAN, WriteEvent(FALSE, ok), blocks' = blocks,
           Ahead' + Due <= Ahead + Due' + 1
    PROVE  Pushed'
  <1>1. Due \in Int /\ Due' \in Int /\ Ahead \in Int /\ Ahead' \in Int
        /\ Pending \in Int /\ Pending' \in Int
    BY DEF Due, Ahead, Pending
  <1>2. LogForm /\ blocks \in Nat
    BY DEF Pushed
  <1>3. /\ LogForm'
        /\ failed' \in {failed, failed + 1}
        /\ \/ age' = Limit
           \/ age # Limit
              /\ age + 2 * failed + Pending' + 1 <= age' + 2 * failed' + Pending
        /\ tail' = "tainted" => tail = "tainted" /\ failed' = failed + 1
    BY <1>2, AppendPushes
  <1>4. age \in Int /\ age' \in Int /\ failed \in Nat /\ failed' \in Nat
    BY <1>2, <1>3 DEF LogForm, Limit
  <1>5. failed <= failed'
    BY <1>3, <1>4
  <1>6. TaintFades'
    <2>1. 2 * blocks <= 6 + failed
      BY DEF Pushed, TaintFades
    <2> QED
      BY <1>2, <1>4, <1>5, <2>1, MoreFailures DEF TaintFades
  <1>7. age' = Limit
        \/ 4 * blocks + Ahead' + Pending' <= age' + 2 * failed' + Due'
    <2> SUFFICES ASSUME age' # Limit
                 PROVE  4 * blocks + Ahead' + Pending' <= age' + 2 * failed' + Due'
      OBVIOUS
    <2>1. /\ 4 * blocks + Ahead + Pending <= age + 2 * failed + Due
          /\ age + 2 * failed + Pending' + 1 <= age' + 2 * failed' + Pending
      BY <1>3 DEF Pushed
    <2> QED
      BY <1>1, <1>2, <1>4, <2>1, Counts
  <1>8. tail' = "tainted" => 4 * blocks + Ahead' + 2 <= 2 * failed' + Due'
    <2> SUFFICES ASSUME tail' = "tainted"
                 PROVE  4 * blocks + Ahead' + 2 <= 2 * failed' + Due'
      OBVIOUS
    <2>1. 4 * blocks + Ahead + 2 <= 2 * failed + Due /\ failed' = failed + 1
      BY <1>3 DEF Pushed
    <2> QED
      BY <1>1, <1>2, <1>4, <2>1, CountsLast
  <1> QED
    BY <1>2, <1>3, <1>6, <1>7, <1>8 DEF Pushed

\* Steps that append a text when no request runs.
LEMMA TextPushes ==
    ASSUME Pushed, NEW text, NEW ok \in BOOLEAN, AppendText(text, ok),
           req.at = "idle", req'.at \in {"idle", "system_snapshot"}
    PROVE  Pushed'
  <1>1. Due = 0 /\ Ahead = 0 /\ Due' = 0 /\ Ahead' = 0
    BY DEF Due, Ahead
  <1>2. CASE /\ Tainted(text) /\ blocks' = 0 /\ tail = "ended"
             /\ ok => tail' = "ended" /\ age' = 0 /\ failed' = 0
             /\ ~ok => tail' = "tainted" /\ age' = age /\ failed' = 1
    BY <1>1, <1>2 DEF Pushed, LogForm, TaintFades, Pending, Unended, Limit
  <1>3. CASE WriteEvent(FALSE, ok) /\ blocks' = blocks
    <2>1. Ahead' + Due <= Ahead + Due' + 1
      BY <1>1
    <2> QED
      BY <1>3, <2>1, EventPushes
  <1> QED
    BY <1>2, <1>3, TextAppends DEF Pushed

LEMMA LogPushes == ASSUME TypeOK, Pushed, InspectLog PROVE Pushed'
  <1>1. Due = 0 /\ Ahead = 1 /\ Due' = 2 /\ Ahead' = 0
    BY DEF InspectLog, Due, Ahead, After, TypeOK
  <1>2. Pending \in 0..1 /\ Pending' \in 0..1
    BY DEF Pending
  <1>3. PICK raises \in BOOLEAN, ok \in BOOLEAN :
            /\ WriteEvent(FALSE, ok)
            /\ blocks' = IF ~(raises \/ tail = "undecodable") /\ LogBlocks
                         THEN blocks + 1 ELSE blocks
    BY DEF InspectLog
  <1>4. CASE blocks' = blocks
    <2>1. Ahead' + Due <= Ahead + Due' + 1
      BY <1>1
    <2> QED
      BY <1>3, <1>4, <2>1, EventPushes
  <1>5. CASE blocks' = blocks + 1 /\ LogBlocks
    <2>1. LogForm
      BY DEF Pushed
    <2>2. /\ LogForm'
          /\ failed' \in {failed, failed + 1}
          /\ \/ age' = Limit
             \/ age # Limit
                /\ age + 2 * failed + Pending' + 1 <= age' + 2 * failed' + Pending
          /\ tail' = "tainted" => tail = "tainted" /\ failed' = failed + 1
      BY <1>3, <2>1, AppendPushes
    <2>3. age \in Int /\ age' \in Int /\ failed \in Nat /\ failed' \in Nat
          /\ blocks \in Nat
      BY <2>1, <2>2 DEF LogForm, Limit, Pushed
    <2>4. failed <= failed'
      BY <2>2, <2>3
    <2>5. (age <= 9 /\ age # Limit) \/ tail = "tainted"
      BY <1>5, <2>1 DEF LogBlocks, Later, LogForm, Limit
    <2>6. /\ age = Limit \/ 4 * blocks + 1 + Pending <= age + 2 * failed
          /\ tail = "tainted" => 4 * blocks + 1 + 2 <= 2 * failed
      <3>1. age + 2 * failed + 0 = age + 2 * failed /\ 2 * failed + 0 = 2 * failed
        BY <2>3
      <3> QED
        BY <1>1, <3>1 DEF Pushed
    <2>7. 2 * (blocks + 1) <= 6 + failed'
      BY <1>2, <2>3, <2>4, <2>5, <2>6, CountsOne
    <2>8. age' = Limit
          \/ 4 * (blocks + 1) + 0 + Pending' <= age' + 2 * failed' + 2
      BY <1>2, <2>2, <2>3, <2>4, <2>6, CountsOne
    <2>9. tail' = "tainted" => 4 * (blocks + 1) + 0 + 2 <= 2 * failed' + 2
      BY <1>2, <2>2, <2>3, <2>4, <2>6, CountsOne
    <2>10. blocks + 1 \in Nat /\ LogForm'
      BY <2>2, <2>3
    <2> QED
      BY <1>1, <1>5, <2>7, <2>8, <2>9, <2>10 DEF Pushed, TaintFades
  <1> QED
    BY <1>3, <1>4, <1>5

LEMMA StepPushes == ASSUME TypeOK, Pushed, [Next]_vars PROVE Pushed'
  <1>0. \A outcome : Over(outcome) => req'.at = "idle"
    BY DEF Over, TypeOK
  <1>1. ASSUME NEW kind, NEW text, Receive(kind, text) PROVE Pushed'
    <2>1. PICK ok \in BOOLEAN :
              /\ AppendText(text, ok)
              /\ req'.at = IF ok THEN "system_snapshot" ELSE "idle"
      BY <1>1 DEF Receive
    <2>2. req.at = "idle"
      BY <1>1 DEF Receive
    <2> QED
      BY <2>1, <2>2, TextPushes
  <1>2. ASSUME NEW text, OtherEvent(text) PROVE Pushed'
    BY <1>2, TextPushes DEF OtherEvent
  <1>3. CASE Context \/ SensorFails
    <2>1. UNCHANGED <<log, blocks>> /\ Due = 0 /\ Ahead = 0 /\ Due' = 0 /\ Ahead' = 0
      BY <1>0, <1>3 DEF Context, SensorFails, Due, Ahead
    <2> QED
      BY <2>1 DEF log, Pushed, LogForm, TaintFades, Pending
  <1>4. CASE Reject \/ Close
    <2>1. /\ \E ok \in BOOLEAN : WriteEvent(FALSE, ok)
          /\ blocks' = blocks /\ Due = 0 /\ Ahead = 0 /\ Due' = 0 /\ Ahead' = 0
      BY <1>0, <1>4 DEF Reject, Close, Due, Ahead
    <2> QED
      <3>1. Ahead' + Due <= Ahead + Due' + 1
        BY <2>1
      <3> QED
        BY <2>1, <3>1, EventPushes
  <1>5. ASSUME NEW source \in {"system_snapshot", "io_stats", "config_drift"},
               Inspect(source)
        PROVE  Pushed'
    <2>1. PICK ok \in BOOLEAN : WriteEvent(FALSE, ok)
      BY <1>5 DEF Inspect
    <2>2. req.at = source /\ req'.at = After[source] /\ blocks' = blocks
      BY <1>5 DEF Inspect
    <2>3. Ahead' + Due <= Ahead + Due' + 1
      BY <2>2 DEF Due, Ahead, After
    <2> QED
      BY <2>1, <2>2, <2>3, EventPushes
  <1>6. CASE InspectLog
    BY <1>6, LogPushes
  <1>7. CASE Perceive
    <2>1. Due = 0 /\ Ahead = 0 /\ Due' = 0 /\ Ahead' = 0 /\ blocks' = blocks
      <3>1. req'.at \in {"idle", "close"}
        BY <1>0, <1>7 DEF Perceive, TypeOK
      <3> QED
        BY <1>7, <3>1 DEF Perceive, Due, Ahead
    <2>2. CASE UNCHANGED log
      BY <2>1, <2>2 DEF log, Pushed, LogForm, TaintFades, Pending
    <2>3. CASE \E ok \in BOOLEAN : WriteEvent(FALSE, ok)
      <3>1. Ahead' + Due <= Ahead + Due' + 1
        BY <2>1
      <3> QED
        BY <2>1, <2>3, <3>1, EventPushes
    <2> QED
      BY <1>7, <2>2, <2>3 DEF Perceive
  <1>8. CASE Midnight
    BY <1>8 DEF Midnight, Pushed, LogForm, TaintFades, Limit, Unended
  <1>9. CASE Relax \/ UNCHANGED vars
    BY <1>9 DEF Relax, vars, log, Pushed, LogForm, TaintFades, Pending, Due, Ahead
  <1>10. CASE Restart
    <2>1. CASE req.at = "idle"
      BY <1>10, <2>1 DEF Restart, Pushed, LogForm, TaintFades, Pending, Due, Ahead
    <2>2. CASE req.at # "idle"
      <3>1. Due \in 0..2 /\ Ahead \in 0..1 /\ Due' = 0 /\ Ahead' = 0
        BY <1>0, <1>10, <2>2 DEF Restart, Due, Ahead
      <3>2. failed' = failed + 1 /\ UNCHANGED <<age, tail, blocks>>
        BY <1>10, <2>2 DEF Restart
      <3> QED
        BY <3>1, <3>2 DEF Pushed, LogForm, TaintFades, Pending, Limit
    <2> QED
      BY <2>1, <2>2
  <1> QED
    BY <1>1, <1>2, <1>3, <1>4, <1>5, <1>6, <1>7, <1>8, <1>9, <1>10 DEF Next

\* A tainted text blocks at most three perceptions, and one more for every two
\* failures, however requests of many users, context reads, the events of
\* later stages, midnights, failing appends and restarts interleave
\* (Perception.build, _load_recent_audit, _record).
THEOREM TaintFadesAlways == Spec => []TaintFades
  <1>1. Init => Pushed
    BY DEF Init, Pushed, LogForm, TaintFades, Limit, Unended
  <1>2. TypeOK /\ Pushed /\ [Next]_vars => Pushed'
    BY StepPushes
  <1>3. Pushed => TaintFades
    BY DEF Pushed
  <1> QED
    BY <1>1, <1>2, <1>3, TypeCorrect, PTL DEF Spec

-----------------------------------------------------------------------------
(***************************************************************************)
(* TaintedInputIsStopped is not inductive: while a request whose own event *)
(* can be read is perceived, that event is the newest tainted line, then   *)
(* the last but one, and then it has blocked the request.                  *)
(***************************************************************************)
Own == req.kind \in {"chat", "stream"} /\ req.gaps = {} /\ Tainted(req.text)

Seen ==
    /\ Own /\ req.at = "system_snapshot" => age = 0 /\ tail = "ended"
    /\ Own /\ req.at = "audit_log" => tail = "undecodable" \/ age <= 1
    /\ Own /\ req.at \in {"io_stats", "config_drift", "perceive", "close"} => req.blocked
    /\ req.at # "idle" => req.outcome = "none"
    /\ TaintedInputIsStopped

LEMMA StepSees == ASSUME TypeOK, Seen, [Next]_vars PROVE Seen'
  <1>1. mode' = mode
    BY DEF Next, Receive, OtherEvent, Context, Reject, SensorFails, Inspect,
           InspectLog, Perceive, Close, Midnight, Relax, Restart, vars
  <1>2. \A text : Tainted(text)' <=> Tainted(text)
    BY <1>1 DEF Tainted
  <1>3. ASSUME NEW outcome, Over(outcome), outcome # "perceived" PROVE Seen'
    BY <1>3 DEF Over, TypeOK, Seen, TaintedInputIsStopped
  <1>4. ASSUME NEW kind, NEW text, Receive(kind, text) PROVE Seen'
    <2>1. PICK ok \in BOOLEAN :
              /\ AppendText(text, ok)
              /\ req' = [kind |-> kind, text |-> text, blocked |-> FALSE,
                         at |-> IF ok THEN "system_snapshot" ELSE "idle",
                         gaps |-> IF tail = "ended" THEN {} ELSE {"glued"},
                         outcome |-> IF ok THEN "none" ELSE "error"]
      BY <1>4 DEF Receive
    <2>2. CASE ~ok
      BY <2>1, <2>2 DEF Seen, TaintedInputIsStopped
    <2>3. CASE ok
      <3>1. Tainted(text) /\ tail = "ended" => age' = 0 /\ tail' = "ended"
        BY <2>1, <2>3 DEF AppendText, WriteEvent, Written, Unended
      <3>2. Own' => Tainted(text) /\ tail = "ended"
        BY <1>2, <2>1 DEF Own
      <3> QED
        BY <2>1, <2>3, <3>1, <3>2 DEF Seen, TaintedInputIsStopped
    <2> QED
      BY <2>2, <2>3
  <1>5. CASE Context
    BY <1>5 DEF Context, Seen, Own, TaintedInputIsStopped
  <1>6. ASSUME req' = req, req.at = "idle" PROVE Seen'
    BY <1>2, <1>6 DEF Seen, TaintedInputIsStopped
  <1>7. CASE Reject \/ SensorFails \/ Close
    BY <1>3, <1>7 DEF Reject, SensorFails, Close
  <1>8. ASSUME NEW source \in {"system_snapshot", "io_stats", "config_drift"},
               Inspect(source)
        PROVE  Seen'
    <2>1. PICK hostile \in Hostile, ok \in BOOLEAN :
              /\ WriteEvent(FALSE, ok)
              /\ req' = [req EXCEPT !.at = After[source], !.blocked = @ \/ hostile]
              /\ req.at = source
      BY <1>8 DEF Inspect
    <2>2. /\ req'.at = After[source] /\ req'.kind = req.kind /\ req'.text = req.text
          /\ req'.gaps = req.gaps /\ req'.outcome = req.outcome
          /\ req.blocked => req'.blocked
      BY <2>1 DEF TypeOK
    <2>3. Own' <=> Own
      BY <1>2, <2>2 DEF Own
    <2>4. TaintedInputIsStopped' /\ req'.outcome = "none"
      BY <2>1, <2>2 DEF Seen, TaintedInputIsStopped
    <2>5. CASE source = "system_snapshot"
      <3>1. req'.at = "audit_log"
        BY <2>2, <2>5 DEF After
      <3>2. ASSUME Own PROVE tail' = "undecodable" \/ age' <= 1
        <4>1. age = 0 /\ tail = "ended"
          BY <2>1, <2>5, <3>2 DEF Seen
        <4>2. CASE Written(FALSE)
          BY <4>1, <4>2 DEF Written, Later, Limit
        <4>3. CASE NotWritten(FALSE)
          BY <4>1, <4>3 DEF NotWritten
        <4> QED
          BY <2>1, <4>2, <4>3 DEF WriteEvent
      <3> QED
        BY <2>3, <2>4, <3>1, <3>2 DEF Seen
    <2>6. CASE source \in {"io_stats", "config_drift"}
      <3>1. req'.at \in {"config_drift", "perceive"}
        BY <2>2, <2>6 DEF After
      <3>2. Own => req'.blocked
        BY <2>1, <2>2, <2>6 DEF Seen
      <3> QED
        BY <2>3, <2>4, <3>1, <3>2 DEF Seen
    <2> QED
      BY <2>5, <2>6
  <1>9. CASE InspectLog
    <2> DEFINE unread(raises) == raises \/ tail = "undecodable"
               found(raises) == ~unread(raises) /\ LogBlocks
    <2>1. PICK raises \in BOOLEAN :
              req' = [req EXCEPT !.at = After["audit_log"],
                        !.blocked = @ \/ found(raises),
                        !.gaps = IF unread(raises) THEN @ \cup {"unread"} ELSE @]
      BY <1>9 DEF InspectLog
    <2>2. unread(raises) \in BOOLEAN /\ found(raises) \in BOOLEAN
      BY DEF LogBlocks
    <2>3. found(raises) \/ unread(raises) \/ ~LogBlocks
      OBVIOUS
    <2>4. Own /\ ~unread(raises) => LogBlocks
      BY <1>9 DEF Seen, InspectLog, LogBlocks, Later, Limit, TypeOK
    <2> HIDE DEF unread, found
    <2>5. /\ req'.at = "io_stats" /\ req'.kind = req.kind /\ req'.text = req.text
          /\ req'.outcome = req.outcome /\ req'.blocked = (req.blocked \/ found(raises))
          /\ req'.gaps = IF unread(raises) THEN req.gaps \cup {"unread"} ELSE req.gaps
      BY <2>1, <2>2 DEF TypeOK, After
    <2>6. Own' => Own /\ ~unread(raises)
      BY <1>2, <2>5 DEF Own
    <2>7. TaintedInputIsStopped' /\ req'.outcome = "none"
      BY <1>9, <2>5 DEF Seen, InspectLog, TaintedInputIsStopped
    <2> QED
      BY <2>3, <2>4, <2>5, <2>6, <2>7 DEF Seen
  <1>10. CASE Perceive
    <2>1. Own => req.blocked
      BY <1>10 DEF Perceive, Seen
    <2>2. ASSUME Over("perceived"), req.kind = "context" \/ ~req.blocked PROVE Seen'
      <3>1. /\ req'.at = "idle" /\ req'.kind = req.kind /\ req'.text = req.text
            /\ req'.gaps = req.gaps
        BY <2>2 DEF Over, TypeOK
      <3>2. ~Own
        BY <2>1, <2>2 DEF Own
      <3> QED
        BY <1>2, <3>1, <3>2 DEF Seen, Own, TaintedInputIsStopped
    <2>3. ASSUME req' = [req EXCEPT !.at = "close"] PROVE Seen'
      <3>1. /\ req'.at = "close" /\ req'.kind = req.kind /\ req'.text = req.text
            /\ req'.gaps = req.gaps /\ req'.outcome = req.outcome
            /\ req'.blocked = req.blocked
        BY <2>3 DEF TypeOK
      <3>2. Own' <=> Own
        BY <1>2, <3>1 DEF Own
      <3>3. req.outcome = "none"
        BY <1>10 DEF Perceive, Seen
      <3> QED
        BY <2>1, <3>1, <3>2, <3>3 DEF Seen, TaintedInputIsStopped
    <2>4. CASE req.kind = "context"
      BY <1>3, <1>10, <2>2, <2>4 DEF Perceive
    <2>5. CASE req.kind # "context"
      BY <1>3, <1>10, <2>2, <2>3, <2>5 DEF Perceive
    <2> QED
      BY <2>4, <2>5
  <1>11. CASE Midnight
    <2>1. CASE req.at \in {"system_snapshot", "audit_log"}
      <3>1. /\ req'.gaps # {} /\ req'.at = req.at /\ req'.outcome = req.outcome
        BY <1>11, <2>1 DEF Midnight, TypeOK
      <3> QED
        BY <2>1, <3>1 DEF Seen, Own, TaintedInputIsStopped
    <2>2. CASE req.at \notin {"system_snapshot", "audit_log"}
      <3>1. req' = req
        BY <1>11, <2>2 DEF Midnight
      <3> QED
        BY <1>2, <2>2, <3>1 DEF Seen, Own, TaintedInputIsStopped
    <2> QED
      BY <2>1, <2>2
  <1>12. CASE Restart
    BY <1>3, <1>6, <1>12 DEF Restart
  <1>13. CASE UNCHANGED vars
    BY <1>2, <1>13 DEF vars, log, Seen, Own, TaintedInputIsStopped
  <1>14. CASE Relax \/ \E text : OtherEvent(text)
    BY <1>6, <1>14 DEF Relax, OtherEvent
  <1> QED
    BY <1>4, <1>5, <1>7, <1>8, <1>9, <1>10, <1>11, <1>12, <1>13, <1>14 DEF Next

\* No input of which the log shows something that the guard would block is
\* reasoned about, unless its own event was spoiled, the day ended or the log
\* could not be read (chat, stream and Perception.build), whatever the inputs
\* and the mode and whichever appends fail.
THEOREM TaintedInputAlwaysStops == Spec => []TaintedInputIsStopped
  <1>1. Init => Seen
    BY DEF Init, Seen, Own, TaintedInputIsStopped
  <1>2. TypeOK /\ Seen /\ [Next]_vars => Seen'
    BY StepSees
  <1>3. Seen => TaintedInputIsStopped
    BY DEF Seen
  <1> QED
    BY <1>1, <1>2, <1>3, TypeCorrect, PTL DEF Spec

-----------------------------------------------------------------------------
(***************************************************************************)
(* What a text scores.  The fold that Total is built with is pinned down   *)
(* by an explicit sum: the sum satisfies the fold's equation, and a least  *)
(* set on which a solution of that equation differs from it cannot exist.  *)
(***************************************************************************)
Points(signal, weight, signals) == IF signal \in signals THEN weight ELSE 0

SumOf(signals) ==
    Points("instruction_override", 4, signals)
      + Points("role_override", 4, signals)
      + Points("prompt_exfiltration", 5, signals)
      + Points("tool_induction", 4, signals)
      + Points("concealment", 3, signals)
      + Points("model_protocol", 4, signals)
      + Points("dangerous_payload", 2, signals)

\* The element that the fold takes from a set.
Pick(S) == CHOOSE x \in S : TRUE

LEMMA SignalsAre ==
    Signal = {"instruction_override", "role_override", "prompt_exfiltration",
              "tool_induction", "concealment", "model_protocol",
              "dangerous_payload"}
  BY DEF Signal, Weight

LEMMA SignalsAreFinite == IsFiniteSet(Signal)
  <1>1. IsFiniteSet({})
    BY FS_EmptySet
  <1>2. IsFiniteSet({} \cup {"instruction_override"} \cup {"role_override"}
                      \cup {"prompt_exfiltration"} \cup {"tool_induction"})
    BY <1>1, FS_AddElement
  <1> DEFINE four == {} \cup {"instruction_override"} \cup {"role_override"}
                        \cup {"prompt_exfiltration"} \cup {"tool_induction"}
  <1>3. IsFiniteSet(four)
    BY <1>2
  <1> HIDE DEF four
  <1>4. IsFiniteSet(four \cup {"concealment"} \cup {"model_protocol"}
                      \cup {"dangerous_payload"})
    BY <1>3, FS_AddElement
  <1> QED
    BY <1>4, SignalsAre DEF four

LEMMA SumIsNatural == \A signals : SumOf(signals) \in Nat
  BY DEF SumOf, Points

\* Any signal of a set may be counted first.
LEMMA SumSplits ==
    ASSUME NEW S \in SUBSET Signal, NEW x \in S
    PROVE  SumOf(S) = Weight[x] + SumOf(S \ {x})
  <1>1. CASE x = "instruction_override"
    BY <1>1 DEF Weight, SumOf, Points
  <1>2. CASE x = "role_override"
    BY <1>2 DEF Weight, SumOf, Points
  <1>3. CASE x = "prompt_exfiltration"
    BY <1>3 DEF Weight, SumOf, Points
  <1>4. CASE x = "tool_induction"
    BY <1>4 DEF Weight, SumOf, Points
  <1>5. CASE x = "concealment"
    BY <1>5 DEF Weight, SumOf, Points
  <1>6. CASE x = "model_protocol"
    BY <1>6 DEF Weight, SumOf, Points
  <1>7. CASE x = "dangerous_payload"
    BY <1>7 DEF Weight, SumOf, Points
  <1> QED
    BY <1>1, <1>2, <1>3, <1>4, <1>5, <1>6, <1>7, SignalsAre

LEMMA WeightsSum ==
    ASSUME NEW S \in SUBSET Signal
    PROVE  MapThenSumSet(LAMBDA s : Weight[s], S) = SumOf(S)
  <1> DEFINE Fold(f) == [t \in SUBSET S |->
                            IF t = {} THEN 0
                            ELSE Weight[Pick(t)] + f[t \ {Pick(t)}]]
             sum == [t \in SUBSET S |-> SumOf(t)]
             fold == CHOOSE f : f = Fold(f)
  <1>1. \A t \in SUBSET S : t # {} =>
             /\ Pick(t) \in t /\ t \ {Pick(t)} \in SUBSET S
             /\ SumOf(t) = Weight[Pick(t)] + SumOf(t \ {Pick(t)})
    <2> SUFFICES ASSUME NEW t \in SUBSET S, t # {}
                 PROVE  /\ Pick(t) \in t /\ t \ {Pick(t)} \in SUBSET S
                        /\ SumOf(t) = Weight[Pick(t)] + SumOf(t \ {Pick(t)})
      OBVIOUS
    <2>1. Pick(t) \in t
      BY DEF Pick
    <2> QED
      BY <2>1, SumSplits
  <1>2. SumOf({}) = 0
    BY DEF SumOf, Points
  <1>3. sum = Fold(sum)
    BY <1>1, <1>2
  <1>4. fold = Fold(fold)
    BY <1>3
  <1> HIDE DEF fold
  <1> DEFINE Wrong == {t \in SUBSET S : fold[t] # SumOf(t)}
  <1>5. Wrong = {}
    <2> SUFFICES ASSUME Wrong # {} PROVE FALSE
      OBVIOUS
    <2>1. IsWellFoundedOn(StrictSubsetOrdering(S), SUBSET S)
      <3>1. IsFiniteSet(S)
        BY SignalsAreFinite, FS_Subset
      <3> QED
        BY <3>1, FS_FiniteSubsetsOfFinite, FS_StrictSubsetOrderingWellFounded
    <2>2. PICK t \in Wrong :
                \A y \in Wrong : <<y, t>> \notin StrictSubsetOrdering(S)
      <3>1. Wrong \subseteq SUBSET S
        OBVIOUS
      <3> HIDE DEF Wrong
      <3> QED
        BY <2>1, <3>1, WFMin
    <2>3. t # {}
      BY <1>2, <1>4, <2>2
    <2>4. <<t \ {Pick(t)}, t>> \in StrictSubsetOrdering(S)
      BY <1>1, <2>2, <2>3 DEF StrictSubsetOrdering
    <2>5. fold[t \ {Pick(t)}] = SumOf(t \ {Pick(t)})
      BY <1>1, <2>2, <2>3, <2>4
    <2> QED
      BY <1>1, <1>4, <2>2, <2>3, <2>5
  <1>6. MapThenSumSet(LAMBDA s : Weight[s], S) = fold[S]
    BY DEF MapThenSumSet, MapThenFoldSet, Pick, fold
  <1> QED
    BY <1>5, <1>6

\* What the encoded signals add, when at most one payload decodes.
LEMMA PayloadSum ==
    ASSUME NEW payload, Total(payload) \in Nat
    PROVE  /\ MapThenSumSet(LAMBDA p : Total(p) + 2, {}) = 0
           /\ MapThenSumSet(LAMBDA p : Total(p) + 2, {payload})
                  = Total(payload) + 2
  <1> DEFINE Fold(f, S) == [t \in SUBSET S |->
                               IF t = {} THEN 0
                               ELSE (Total(Pick(t)) + 2) + f[t \ {Pick(t)}]]
             fold(S) == CHOOSE f : f = Fold(f, S)
  <1>1. \A S : MapThenSumSet(LAMBDA p : Total(p) + 2, S) = fold(S)[S]
    BY DEF MapThenSumSet, MapThenFoldSet, Pick
  <1>2. fold({})[{}] = 0
    <2> DEFINE nothing == [t \in SUBSET {} |-> 0]
    <2>1. nothing = Fold(nothing, {})
      OBVIOUS
    <2>2. fold({}) = Fold(fold({}), {})
      BY <2>1
    <2> QED
      BY <2>2
  <1>3. fold({payload})[{payload}] = Total(payload) + 2
    <2> DEFINE one == [t \in SUBSET {payload} |->
                          IF t = {} THEN 0 ELSE Total(payload) + 2]
    <2>1. \A t \in SUBSET {payload} :
               t # {} => t = {payload} /\ Pick(t) = payload /\ t \ {Pick(t)} = {}
      BY DEF Pick
    <2>2. one = Fold(one, {payload})
      BY <2>1
    <2>3. fold({payload}) = Fold(fold({payload}), {payload})
      BY <2>2
    <2> HIDE DEF fold
    <2>4. fold({payload})[{}] = 0
      BY <2>3
    <2>5. {payload} \in SUBSET {payload} /\ {payload} # {}
      OBVIOUS
    <2>6. fold({payload})[{payload}]
            = (Total(Pick({payload})) + 2)
                + fold({payload})[{payload} \ {Pick({payload})}]
      BY <2>3, <2>5
    <2>7. Pick({payload}) = payload /\ {payload} \ {Pick({payload})} = {}
      BY <2>1, <2>5
    <2> QED
      BY <2>4, <2>6, <2>7
  <1> QED
    BY <1>1, <1>2, <1>3

LEMMA TotalIs ==
    ASSUME NEW S \in SUBSET Signal
    PROVE  Total(S) = SumOf(Match(S)) /\ Total(S) \in Nat
  <1>1. Match(S) \in SUBSET Signal
    BY DEF Match
  <1> QED
    BY <1>1, WeightsSum, SumIsNatural DEF Total

\* Leaving a lone dangerous payload out costs its two points at most.
LEMMA MatchCosts ==
    ASSUME NEW S \in SUBSET Signal
    PROVE  SumOf(Match(S)) <= SumOf(S) /\ SumOf(S) <= SumOf(Match(S)) + 2
  <1>1. CASE S = {"dangerous_payload"}
    BY <1>1 DEF Match, SumOf, Points
  <1>2. CASE S # {"dangerous_payload"}
    BY <1>2, SumIsNatural DEF Match
  <1> QED
    BY <1>1, <1>2

LEMMA PlainScores ==
    ASSUME NEW S \in SUBSET Signal
    PROVE  Score(Plain(S)) = SumOf(Match(S))
  <1>1. Decoded(Plain(S)) = {}
    BY DEF Decoded, Plain
  <1>2. Plain(S).plain = S /\ ~Plain(S).hidden
    BY DEF Plain
  <1>3. Total(S) = SumOf(Match(S)) /\ Total(S) \in Nat
    BY TotalIs
  <1>4. MapThenSumSet(LAMBDA p : Total(p) + 2, {}) = 0
    BY <1>3, PayloadSum
  <1>5. Score(Plain(S)) = Total(S) + 0 + 0
    BY <1>1, <1>2, <1>4 DEF Score
  <1> QED
    BY <1>3, <1>5

\* A disguise scores no less than plain view: the points of the signals are
\* divided between the two parts, the encoded part adds two of its own, and
\* only a dangerous payload left alone in the other part takes two away.
LEMMA DisguiseScores ==
    ASSUME NEW S \in SUBSET Signal, NEW d \in Disguises(S)
    PROVE  Score(d) \in Nat /\ Score(d) >= Score(Plain(S))
  <1>1. PICK s \in (SUBSET S) \ {{"dangerous_payload"}}, h \in BOOLEAN :
              d = [plain |-> S \ s, encoded |-> {s}, hidden |-> h]
    BY DEF Disguises
  <1> DEFINE found == Match(d.plain) # {} \/ Decoded(d) # {}
             veiled == IF d.hidden /\ found THEN 2 ELSE 0
  <1>2. s \in SUBSET Signal /\ S \ s \in SUBSET Signal /\ Match(s) = s
    BY DEF Match
  <1>3. /\ Total(S \ s) = SumOf(Match(S \ s)) /\ Total(S \ s) \in Nat
        /\ Total(s) = SumOf(s) /\ Total(s) \in Nat
    BY <1>2, TotalIs
  <1>4. Score(d) = Total(S \ s)
                     + MapThenSumSet(LAMBDA p : Total(p) + 2, Decoded(d)) + veiled
    BY <1>1 DEF Score
  <1>5. veiled \in {0, 2}
    OBVIOUS
  <1> HIDE DEF veiled
  <1>6. Score(Plain(S)) = SumOf(Match(S)) /\ SumOf(Match(S)) \in Nat
    BY PlainScores, SumIsNatural
  <1>7. CASE s = {}
    <2>1. Decoded(d) = {}
      BY <1>1, <1>2, <1>7 DEF Decoded
    <2>2. Score(d) = Total(S \ s) + 0 + veiled
      BY <1>3, <1>4, <2>1, PayloadSum
    <2>3. S \ s = S
      BY <1>7
    <2> QED
      BY <1>3, <1>5, <1>6, <2>2, <2>3
  <1>8. CASE s # {}
    <2>1. Decoded(d) = {s}
      BY <1>1, <1>2, <1>8 DEF Decoded
    <2>2. Score(d) = Total(S \ s) + (Total(s) + 2) + veiled
      BY <1>3, <1>4, <2>1, PayloadSum
    <2>3. SumOf(S) = SumOf(S \ s) + SumOf(s)
      BY <1>1 DEF SumOf, Points
    <2>4. SumOf(Match(S)) <= SumOf(S) /\ SumOf(S \ s) <= SumOf(Match(S \ s)) + 2
      BY <1>2, MatchCosts
    <2>5. SumOf(S \ s) \in Nat /\ SumOf(S) \in Nat
      BY SumIsNatural
    <2> QED
      BY <1>3, <1>5, <1>6, <2>2, <2>3, <2>4, <2>5
  <1> QED
    BY <1>7, <1>8

\* Whatever users type, no disguise of it that the modelled encodings allow
\* gets a lighter verdict than the same signals in plain view (inspect_text).
THEOREM DisguiseNeverHelpsAlways == Spec => []DisguiseNeverHelps
  <1>1. TypeOK => DisguiseNeverHelps
    <2> SUFFICES ASSUME TypeOK, NEW d \in Disguises(req.text.plain)
                 PROVE  Severity(Verdict(d, mode))
                          >= Severity(Verdict(Plain(req.text.plain), mode))
      BY DEF DisguiseNeverHelps
    <2>1. req.text.plain \in SUBSET Signal
      BY DEF TypeOK, Text
    <2>2. /\ Score(d) \in Nat /\ Score(Plain(req.text.plain)) \in Nat
          /\ Score(d) >= Score(Plain(req.text.plain))
      BY <2>1, DisguiseScores, PlainScores, SumIsNatural
    <2> QED
      BY <2>2 DEF Verdict, Severity
  <1> QED
    BY <1>1, TypeCorrect, PTL
=============================================================================
