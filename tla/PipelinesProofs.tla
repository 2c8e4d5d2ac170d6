-------------------------- MODULE PipelinesProofs --------------------------
(***************************************************************************)
(* Proofs about Pipelines, for any number of concurrent requests, any      *)
(* calls, roles and offsets, and any bounds of the batch and of the loop;  *)
(* and, at the end, about the decision they share (Guardrail).             *)
(***************************************************************************)
EXTENDS Pipelines, Guardrail, SequenceTheorems, FiniteSetTheorems, TLAPS

Kinds == {"none", "chat", "loop", "stream", "mcp"}
Stages == {"free", "perceive", "route", "reason", "validate", "authorize", "queue",
           "execute", "observed", "blocked", "record", "finish", "answered"}
AnswerNames == {"none", "rejected", "perception", "vetoed", "confirm", "blocked",
                "completed", "max_iterations", "error", "raised"}

Intentions == Intents \cup {Normal, External}

RequestType ==
    [kind : Kinds, role : Role, stage : Stages, waits : BOOLEAN,
     round : 0..MaxIterations, batch : Answers, intent : Intentions, next : Nat,
     asked : Nat, queued : Nat, blocked : BOOLEAN, vetoes : 0..4, closed : 0..1,
     answer : AnswerNames]

(***************************************************************************)
(* The inductive invariant, of one request: what is known of it at each    *)
(* stage.                                                                  *)
(***************************************************************************)
\* Nothing of a batch has run before it was judged.
BeforeJudgement(r) ==
    \/ r.stage \in {"perceive", "route", "validate", "authorize", "queue"}
    \/ r.stage = "reason" /\ r.kind # "loop"

\* What runs and what waits for a human exclude each other.
RunsOrAsks(r) ==
    /\ r.next <= Len(r.batch) /\ r.queued <= r.asked
    /\ BeforeJudgement(r) => r.next = 0
    /\ r.next > 0 => r.asked = 0
    /\ r.stage \notin {"queue", "answered"} => r.asked = 0

\* Nothing is closed, queued or answered before the answer, and the vetoes
\* counted before it are those of a blocked output.
BeforeAnswer(r) ==
    r.stage # "answered" =>
        /\ r.queued = 0 /\ r.closed = 0 /\ r.answer = "none"
        /\ ~r.blocked => r.vetoes = 0

\* A blocked output leaves a request only its answer.
AfterBlock(r) ==
    r.blocked =>
        /\ r.next > 0 /\ r.vetoes <= 2
        /\ r.stage \in {"finish", "blocked", "record", "answered"}
        /\ r.kind = "loop" => r.stage # "finish"
        /\ r.answer \in {"none", "blocked", "raised"}

\* What the answer says of the vetoes and of the chain.
AnswerFits(r) ==
    /\ r.vetoes > 2 => r.answer = "perception"
    /\ r.answer \in {"completed", "max_iterations", "confirm", "rejected"}
          => r.vetoes = 0
    /\ r.answer = "vetoed" => r.vetoes = 1
    /\ r.kind \in {"chat", "loop"} /\ r.stage = "answered"
          => r.closed = 1 \/ r.answer = "raised"
    /\ r.answer \in {"rejected", "vetoed", "confirm"} => r.closed = 1

Sound(r) ==
    /\ r \in RequestType
    /\ r.stage = "free" => r = Free
    /\ RunsOrAsks(r) /\ BeforeAnswer(r) /\ AfterBlock(r) /\ AnswerFits(r)

\* A request in progress waits exactly if its handler does not run.
Suspended(s) == slot[s].waits <=> holder # s /\ slot[s].stage # "free"

EngineOK == posture \in {"balanced", "restrictive"} /\ vetoCount \in 0..2

WellFormed ==
    /\ EngineOK
    /\ holder \in Slot \cup {NoSlot}
    /\ slot \in [Slot -> RequestType]
    /\ \A s \in Slot : Sound(slot[s]) /\ Suspended(s)

-----------------------------------------------------------------------------
LEMMA BatchesAreSequences ==
    ASSUME NEW b \in Answers
    PROVE  /\ b \in Seq(Calls) /\ Len(b) \in Nat
           /\ DOMAIN b = 1..Len(b) /\ \A i \in 1..Len(b) : b[i] \in Calls
  <1>1. PICK n \in 0..MaxBatch : b \in [1..n -> Calls]
    BY DEF Answers
  <1>2. b \in Seq(Calls)
    BY <1>1, BoundsAssumption, SeqDef
  <1> QED
    BY <1>2, LenProperties, ElementOfSeq

LEMMA NoBatch == <<>> \in Answers /\ Len(<<>>) = 0
  <1>1. <<>> \in [1..0 -> Calls]
    OBVIOUS
  <1> QED
    BY <1>1, BoundsAssumption DEF Answers

LEMMA OneCall == ASSUME NEW c \in Calls PROVE <<c>> \in Answers /\ Len(<<c>>) = 1
  <1>1. <<c>> \in [1..1 -> Calls]
    OBVIOUS
  <1>2. 1 \in 0..MaxBatch
    BY BoundsAssumption
  <1> QED
    BY <1>1, <1>2 DEF Answers

LEMMA FreeIsSound == Sound(Free)
  <1>1. Normal \in Intentions
    BY DEF Intentions
  <1> QED
    BY <1>1, NoBatch, BoundsAssumption
    DEF Free, Sound, RequestType, Kinds, Stages, AnswerNames, Role, RunsOrAsks,
        BeforeJudgement, BeforeAnswer, AfterBlock, AnswerFits

LEMMA CountKeepsEngine ==
    ASSUME EngineOK, NEW n \in Nat, CountVetoes(n) PROVE EngineOK'
  BY DEF EngineOK, CountVetoes

\* A step changes one request and, at most, takes or gives up the loop.
LEMMA OneRequestForms ==
    ASSUME WellFormed, EngineOK', NEW s \in Slot, NEW r, Sound(r),
           slot' = [slot EXCEPT ![s] = r],
           \/ holder' = s /\ holder \in {s, NoSlot} /\ r.waits = FALSE
           \/ /\ holder' = NoSlot /\ holder \in {s, NoSlot}
              /\ r.waits = (r.stage # "free")
    PROVE  WellFormed'
  <1>1. r \in RequestType
    BY DEF Sound
  <1>2. slot' \in [Slot -> RequestType] /\ slot'[s] = r
        /\ \A t \in Slot \ {s} : slot'[t] = slot[t]
    BY <1>1 DEF WellFormed
  <1>3. holder' \in Slot \cup {NoSlot}
    OBVIOUS
  <1>4. Suspended(s)'
    BY <1>2, NoSlotAssumption DEF Suspended
  <1>5. \A t \in Slot \ {s} : Suspended(t)'
    BY <1>2, NoSlotAssumption DEF Suspended, WellFormed
  <1> QED
    BY <1>2, <1>3, <1>4, <1>5 DEF WellFormed

LEMMA RunningRequest ==
    ASSUME WellFormed, NEW s \in Slot, holder = s
    PROVE  Sound(slot[s]) /\ slot[s].waits = FALSE
  <1>1. Sound(slot[s]) /\ slot[s].waits \in BOOLEAN /\ ~slot[s].waits
    BY DEF WellFormed, RequestType, Suspended
  <1> QED
    BY <1>1

LEMMA WaitingRequest ==
    ASSUME WellFormed, NEW s \in Slot, slot[s].waits
    PROVE  Sound(slot[s]) /\ slot[s].waits = TRUE /\ slot[s].stage # "free"
  <1>1. Sound(slot[s]) /\ slot[s].waits \in BOOLEAN /\ slot[s].stage # "free"
    BY DEF WellFormed, RequestType, Suspended
  <1> QED
    BY <1>1

-----------------------------------------------------------------------------
(***************************************************************************)
(* Steps that several pipelines have.                                      *)
(***************************************************************************)
LEMMA GoOnForms ==
    ASSUME WellFormed, NEW s \in Slot, holder = s, UNCHANGED engine,
           slot[s].stage \notin {"free", "queue", "answered"},
           ~slot[s].blocked,
           NEW stage \in {"route", "reason", "execute", "finish", "observed", "record"},
           stage = "reason" /\ slot[s].kind # "loop" => slot[s].next = 0,
           stage = "route" => slot[s].next = 0,
           GoOn(s, stage)
    PROVE  WellFormed'
  <1> DEFINE r == [slot[s] EXCEPT !.stage = stage]
  <1>1. Sound(slot[s]) /\ slot[s].waits = FALSE
    BY RunningRequest
  <1>2. slot' = [slot EXCEPT ![s] = r] /\ holder' = s /\ EngineOK'
    BY DEF GoOn, engine, EngineOK, WellFormed
  <1>3. Sound(r) /\ r.waits = FALSE
    BY <1>1
    DEF Sound, RequestType, Stages, RunsOrAsks, BeforeJudgement, BeforeAnswer,
        AfterBlock, AnswerFits
  <1> HIDE DEF r
  <1> QED
    BY <1>2, <1>3, OneRequestForms

LEMMA AnswerForms ==
    ASSUME WellFormed, NEW s \in Slot, holder = s, UNCHANGED engine,
           slot[s].stage \notin {"free", "answered"},
           NEW answer \in {"blocked", "completed", "max_iterations", "error"},
           answer \in {"completed", "max_iterations", "error"} => ~slot[s].blocked,
           NEW n \in 0..1, slot[s].kind \in {"chat", "loop"} => n = 1,
           Answer(s, answer, n)
    PROVE  WellFormed'
  <1> DEFINE r == [slot[s] EXCEPT !.stage = "answered", !.answer = answer,
                                  !.closed = n]
  <1>1. Sound(slot[s]) /\ slot[s].waits = FALSE
    BY RunningRequest
  <1>4. slot[s].closed = 0
    BY <1>1 DEF Sound, BeforeAnswer
  <1>5. slot[s].closed + n = n
    BY <1>4
  <1>2. slot' = [slot EXCEPT ![s] = r] /\ holder' = s /\ EngineOK'
    BY <1>5 DEF Answer, engine, EngineOK, WellFormed, RequestType
  <1>3. Sound(r) /\ r.waits = FALSE
    BY <1>1
    DEF Sound, RequestType, Stages, AnswerNames, RunsOrAsks, BeforeJudgement,
        BeforeAnswer, AfterBlock, AnswerFits
  <1> HIDE DEF r
  <1> QED
    BY <1>2, <1>3, OneRequestForms

LEMMA VetoedForms ==
    ASSUME WellFormed, NEW s \in Slot, holder = s,
           slot[s].stage \in {"validate", "authorize"}, Vetoed(s)
    PROVE  WellFormed'
  <1> PICK n \in 0..1 : n = 1 /\ n \in 0..4
    OBVIOUS
  <1> DEFINE r == [slot[s] EXCEPT !.stage = "answered", !.answer = "vetoed",
                                  !.closed = n, !.vetoes = n]
  <1>1. Sound(slot[s]) /\ slot[s].waits = FALSE
    BY RunningRequest
  <1>4. slot[s].closed = 0 /\ slot[s].vetoes = 0
    BY <1>1 DEF Sound, BeforeAnswer, AfterBlock
  <1>5. slot[s].closed + 1 = n /\ slot[s].vetoes + 1 = n
    BY <1>4
  <1>2. slot' = [slot EXCEPT ![s] = r] /\ holder' = s /\ EngineOK'
    BY <1>5, CountKeepsEngine DEF Vetoed, AnswerVetoed, WellFormed, RequestType
  <1>3. Sound(r) /\ r.waits = FALSE
    <2>1. r \in RequestType
      BY <1>1 DEF Sound, RequestType, Stages, AnswerNames
    <2>2. RunsOrAsks(r)
      BY <1>1 DEF Sound, RequestType, RunsOrAsks, BeforeJudgement
    <2>3. BeforeAnswer(r)
      BY <1>1 DEF Sound, RequestType, BeforeAnswer
    <2>4. AfterBlock(r)
      BY <1>1 DEF Sound, RequestType, AfterBlock, BeforeAnswer
    <2>5. AnswerFits(r)
      BY <1>1 DEF Sound, RequestType, AnswerFits, BeforeAnswer, AfterBlock
    <2> QED
      BY <1>1, <2>1, <2>2, <2>3, <2>4, <2>5 DEF Sound, RequestType
  <1> HIDE DEF r
  <1> QED
    BY <1>2, <1>3, OneRequestForms

LEMMA PerceiveForms ==
    ASSUME WellFormed, NEW s \in Slot, holder = s, slot[s].stage = "perceive",
           NEW clean \in {"route", "reason"}, NEW closes \in 0..1,
           slot[s].kind \in {"chat", "loop"} => closes = 1,
           Perceive(s, clean, closes)
    PROVE  WellFormed'
  <1>1. Sound(slot[s]) /\ slot[s].waits = FALSE
    BY RunningRequest
  <1>2. PICK n \in 0..4 :
          IF n = 0 THEN GoOn(s, clean) /\ UNCHANGED engine
          ELSE /\ slot' = [slot EXCEPT ![s].stage = "answered",
                                       ![s].answer = "perception",
                                       ![s].closed = @ + closes,
                                       ![s].vetoes = @ + n]
               /\ CountVetoes(n)
               /\ UNCHANGED holder
    BY DEF Perceive
  <1>3. CASE n = 0
    <2>1. ~slot[s].blocked /\ slot[s].next = 0
      BY <1>1 DEF Sound, AfterBlock, RunsOrAsks, BeforeJudgement
    <2> QED
      BY <1>2, <1>3, <2>1, GoOnForms
  <1>4. CASE n # 0
    <2> DEFINE r == [slot[s] EXCEPT !.stage = "answered", !.answer = "perception",
                                    !.closed = closes, !.vetoes = n]
    <2>0. slot[s].closed + closes = closes /\ slot[s].vetoes + n = n
      BY <1>1 DEF Sound, BeforeAnswer, AfterBlock
    <2>1. slot' = [slot EXCEPT ![s] = r] /\ holder' = s /\ CountVetoes(n)
      BY <1>2, <1>4, <2>0 DEF WellFormed, RequestType
    <2>2. EngineOK'
      BY <2>1, CountKeepsEngine DEF WellFormed
    <2>3. Sound(r) /\ r.waits = FALSE
      BY <1>1
      DEF Sound, RequestType, Stages, AnswerNames, RunsOrAsks, BeforeJudgement,
          BeforeAnswer, AfterBlock, AnswerFits
    <2> HIDE DEF r
    <2> QED
      BY <2>1, <2>2, <2>3, OneRequestForms
  <1> QED
    BY <1>3, <1>4

LEMMA ConfirmationsAreCounted ==
    ASSUME WellFormed, NEW s \in Slot
    PROVE  /\ ToConfirm(s) \in Nat
           /\ ToConfirm(s) = 0 => "confirm" \notin Decisions(s)
  <1> DEFINE asks == {i \in DOMAIN slot[s].batch :
                        Decision(s, slot[s].batch[i]) = "confirm"}
  <1>1. slot[s].batch \in Answers
    BY DEF WellFormed, RequestType
  <1>2. IsFiniteSet(DOMAIN slot[s].batch)
    BY <1>1, BatchesAreSequences, FS_Interval
  <1>3. asks \subseteq DOMAIN slot[s].batch
    OBVIOUS
  <1>4. IsFiniteSet(asks)
    BY <1>2, <1>3, FS_Subset
  <1>5. ToConfirm(s) = Cardinality(asks)
    BY DEF ToConfirm
  <1>6. Cardinality(asks) = 0 => asks = {}
    BY <1>4, FS_EmptySet
  <1> QED
    BY <1>4, <1>5, <1>6, FS_CardinalityType DEF Decisions

LEMMA JudgedIsTyped ==
    ASSUME NEW q \in RequestType, NEW n \in Nat, NEW waits \in BOOLEAN, NEW then \in Stages
    PROVE  [q EXCEPT !.asked = n, !.waits = waits, !.stage = then] \in RequestType
  BY DEF RequestType

LEMMA JudgeForms ==
    ASSUME WellFormed, NEW s \in Slot, holder = s, slot[s].stage = "validate",
           NEW waits \in BOOLEAN, Judge(s, waits)
    PROVE  WellFormed'
  <1>1. Sound(slot[s]) /\ slot[s].waits = FALSE /\ ToConfirm(s) \in Nat
    BY RunningRequest, ConfirmationsAreCounted
  <1> PICK n \in Nat : n = ToConfirm(s)
    BY <1>1
  <1> PICK then \in Stages : then = IF ToConfirm(s) > 0 THEN "queue" ELSE "execute"
    BY DEF Stages
  <1> DEFINE r == [slot[s] EXCEPT !.asked = n, !.waits = waits, !.stage = then]
  <1>2. slot' = [slot EXCEPT ![s] = r] /\ EngineOK'
    BY DEF Judge, engine, EngineOK, WellFormed
  <1>3. Sound(r) /\ r.stage # "free" /\ r.waits = waits
    <2>1. r \in RequestType
      BY <1>1, JudgedIsTyped DEF Sound
    <2>2. RunsOrAsks(r)
      BY <1>1 DEF Sound, RequestType, RunsOrAsks, BeforeJudgement
    <2>3. BeforeAnswer(r)
      BY <1>1 DEF Sound, RequestType, BeforeAnswer
    <2>4. AfterBlock(r)
      BY <1>1 DEF Sound, RequestType, AfterBlock, BeforeAnswer
    <2>5. AnswerFits(r)
      BY <1>1 DEF Sound, RequestType, AnswerFits, BeforeAnswer, AfterBlock
    <2> QED
      BY <1>1, <2>1, <2>2, <2>3, <2>4, <2>5 DEF Sound, RequestType
  <1>4. holder' = IF waits THEN NoSlot ELSE s
    BY DEF Judge
  <1> HIDE DEF r
  <1>5. \/ holder' = s /\ r.waits = FALSE
        \/ holder' = NoSlot /\ r.waits = (r.stage # "free")
    BY <1>3, <1>4
  <1> QED
    BY <1>2, <1>3, <1>5, OneRequestForms

LEMMA QueueForms ==
    ASSUME WellFormed, NEW s \in Slot, holder = s, slot[s].stage = "queue", Queue(s)
    PROVE  WellFormed'
  <1>1. Sound(slot[s]) /\ slot[s].waits = FALSE /\ slot[s].asked \in Nat
    BY RunningRequest DEF Sound, RequestType
  <1> PICK n \in 0..1 : n = 1
    OBVIOUS
  <1> PICK asked \in Nat : asked = slot[s].asked
    BY <1>1
  <1> DEFINE r == [slot[s] EXCEPT !.queued = asked, !.stage = "answered",
                                  !.answer = "confirm", !.closed = n]
  <1>4. slot[s].closed = 0
    BY <1>1 DEF Sound, BeforeAnswer
  <1>5. slot[s].closed + 1 = n
    BY <1>4
  <1>2. slot' = [slot EXCEPT ![s] = r] /\ holder' = s /\ EngineOK'
    BY <1>5 DEF Queue, engine, EngineOK, WellFormed, RequestType
  <1>3. Sound(r) /\ r.waits = FALSE
    <2>1. r \in RequestType
      BY <1>1 DEF Sound, RequestType, Stages, AnswerNames
    <2>2. RunsOrAsks(r)
      BY <1>1 DEF Sound, RequestType, RunsOrAsks, BeforeJudgement
    <2>3. BeforeAnswer(r)
      BY <1>1 DEF Sound, RequestType, BeforeAnswer
    <2>4. AfterBlock(r)
      BY <1>1 DEF Sound, RequestType, AfterBlock, BeforeAnswer
    <2>5. AnswerFits(r)
      BY <1>1 DEF Sound, RequestType, AnswerFits, BeforeAnswer, AfterBlock
    <2> QED
      BY <1>1, <2>1, <2>2, <2>3, <2>4, <2>5 DEF Sound, RequestType
  <1> HIDE DEF r
  <1> QED
    BY <1>2, <1>3, OneRequestForms

LEMMA RanOneIsTyped ==
    ASSUME NEW q \in RequestType, NEW k \in Nat, NEW hit \in BOOLEAN,
           NEW n \in 0..4, NEW then \in Stages
    PROVE  [q EXCEPT !.next = k, !.blocked = hit, !.vetoes = n, !.stage = then]
              \in RequestType
  BY DEF RequestType

LEMMA ExecuteForms ==
    ASSUME WellFormed, NEW s \in Slot, holder = s, slot[s].stage = "execute",
           NEW n \in 0..2, NEW stage \in {"finish", "blocked", "record"},
           stage = "finish" => slot[s].kind # "loop",
           Execute(s, n, stage)
    PROVE  WellFormed'
  <1>0. Sound(slot[s]) /\ slot[s].waits = FALSE
    BY RunningRequest
  <1>1. ~slot[s].blocked /\ slot[s].vetoes = 0 /\ slot[s].next \in Nat
    BY <1>0 DEF Sound, RequestType, AfterBlock, BeforeAnswer
  <1>5. slot[s].vetoes + n = n /\ slot[s].next + 1 \in Nat
    BY <1>1
  <1>2. slot[s].next + 1 <= Len(slot[s].batch)
    BY <1>0, BatchesAreSequences DEF Execute, Sound, RequestType
  <1> PICK k \in Nat : k = slot[s].next + 1
    BY <1>5
  <1> PICK hit \in BOOLEAN : hit <=> n > 0
    OBVIOUS
  <1> PICK then \in Stages : then = IF n > 0 THEN stage ELSE "execute"
    BY DEF Stages
  <1> DEFINE r == [slot[s] EXCEPT !.next = k, !.blocked = hit, !.vetoes = n,
                                  !.stage = then]
  <1>8. hit = (n > 0)
    OBVIOUS
  <1>3. slot' = [slot EXCEPT ![s] = r]
    BY <1>5, <1>8 DEF Execute, WellFormed, RequestType
  <1>6. holder' = s /\ EngineOK'
    BY CountKeepsEngine DEF Execute, WellFormed
  <1>7. n \in 0..4
    OBVIOUS
  <1>4. Sound(r) /\ r.waits = FALSE
    <2>1. r \in RequestType
      BY <1>0, <1>7, RanOneIsTyped DEF Sound
    <2>2. RunsOrAsks(r)
      BY <1>0, <1>1, <1>2 DEF Sound, RequestType, RunsOrAsks, BeforeJudgement
    <2>3. BeforeAnswer(r)
      BY <1>0, <1>1, <1>2 DEF Sound, RequestType, BeforeAnswer
    <2>4. AfterBlock(r)
      BY <1>0, <1>1, <1>2 DEF Sound, RequestType, AfterBlock, BeforeAnswer
    <2>5. AnswerFits(r)
      BY <1>0, <1>1, <1>2 DEF Sound, RequestType, AnswerFits, BeforeAnswer, AfterBlock
    <2> QED
      BY <1>0, <1>1, <1>2, <2>1, <2>2, <2>3, <2>4, <2>5 DEF Sound, RequestType
  <1> HIDE DEF r
  <1> QED
    BY <1>3, <1>4, <1>6, OneRequestForms

-----------------------------------------------------------------------------
(***************************************************************************)
(* The actions, one by one.                                                *)
(***************************************************************************)
Received(q, kind, role) == [q EXCEPT !.kind = kind, !.role = role, !.stage = "perceive"]

Refused(q, kind, role, n) ==
    [q EXCEPT !.kind = kind, !.role = role, !.stage = "answered",
              !.answer = "rejected", !.closed = n]

Called(q, role, batch) ==
    [q EXCEPT !.kind = "mcp", !.role = role, !.batch = batch, !.intent = External,
              !.stage = "authorize"]

LEMMA ReceivedIsTyped ==
    ASSUME NEW q \in RequestType, NEW kind \in Kinds, NEW role \in Role,
           NEW n \in 0..1, NEW batch \in Answers
    PROVE  /\ Received(q, kind, role) \in RequestType
           /\ Refused(q, kind, role, n) \in RequestType
           /\ Called(q, role, batch) \in RequestType
  <1>1. {"perceive", "answered", "authorize"} \subseteq Stages
    BY DEF Stages
  <1>2. "rejected" \in AnswerNames /\ "mcp" \in Kinds
    BY DEF AnswerNames, Kinds
  <1>6. External \in Intentions
    BY DEF Intentions
  <1>3. Received(q, kind, role) \in RequestType
    BY <1>1 DEF RequestType, Received
  <1>4. Refused(q, kind, role, n) \in RequestType
    BY <1>1, <1>2 DEF RequestType, Refused
  <1>5. Called(q, role, batch) \in RequestType
    BY <1>1, <1>2, <1>6 DEF RequestType, Called
  <1> QED
    BY <1>3, <1>4, <1>5

\* A request may start in any of these states.
LEMMA ReceivedIsSound ==
    ASSUME NEW kind \in {"chat", "stream"}, NEW role \in Role, NEW n \in 0..1, n = 1
    PROVE  \A r \in {Received(Free, kind, role), Refused(Free, kind, role, n)} :
              Sound(r) /\ r.waits = FALSE
  <1>1. Free \in RequestType /\ kind \in Kinds /\ <<>> \in Answers
    BY FreeIsSound, NoBatch DEF Sound, Kinds
  <1>2. Free.batch = <<>> /\ Len(<<>>) = 0
    BY NoBatch DEF Free
  <1>3. Sound(Received(Free, kind, role)) /\ Received(Free, kind, role).waits = FALSE
    <2>1. Received(Free, kind, role) \in RequestType
      BY <1>1, ReceivedIsTyped
    <2> QED
      BY <2>1, <1>2
      DEF Received, Free, Sound, RunsOrAsks, BeforeJudgement, BeforeAnswer, AfterBlock,
          AnswerFits
  <1>4. Sound(Refused(Free, kind, role, n)) /\ Refused(Free, kind, role, n).waits = FALSE
    <2>1. Refused(Free, kind, role, n) \in RequestType
      BY <1>1, ReceivedIsTyped
    <2> QED
      BY <2>1, <1>2
      DEF Refused, Free, Sound, RunsOrAsks, BeforeJudgement, BeforeAnswer, AfterBlock,
          AnswerFits
  <1> QED
    BY <1>3, <1>4

LEMMA CalledIsSound ==
    ASSUME NEW role \in Role, NEW c \in Calls
    PROVE  Sound(Called(Free, role, <<c>>)) /\ Called(Free, role, <<c>>).waits = FALSE
  <1>1. Free \in RequestType /\ "mcp" \in Kinds
    BY FreeIsSound DEF Sound, Kinds
  <1>2. PICK batch \in Answers : batch = <<c>> /\ Len(batch) = 1
    BY OneCall
  <1>3. PICK n \in 0..1 : TRUE
    OBVIOUS
  <1>4. Called(Free, role, batch) \in RequestType
    BY <1>1, <1>3, ReceivedIsTyped
  <1>5. Sound(Called(Free, role, batch)) /\ Called(Free, role, batch).waits = FALSE
    BY <1>2, <1>4
    DEF Called, Free, Sound, RunsOrAsks, BeforeJudgement, BeforeAnswer, AfterBlock,
        AnswerFits
  <1> QED
    BY <1>2, <1>5

LEMMA ReceiveForms ==
    ASSUME WellFormed, NEW s \in Slot, Receive(s) PROVE WellFormed'
  <1>1. PICK role \in Roles :
          ChatReceive(s, role) \/ StreamReceive(s, role) \/ McpReceive(s, role)
    BY DEF Receive
  <1>2. EngineOK' /\ holder = NoSlot /\ holder' = s /\ slot[s] = Free /\ role \in Role
    BY <1>1, CallsAssumption
    DEF ChatReceive, StreamReceive, McpReceive, engine, EngineOK, WellFormed
  <1> PICK n \in 0..1 : n = 1
    OBVIOUS
  <1>3. \/ \E kind \in {"chat", "stream"} :
            \E r \in {Received(slot[s], kind, role), Refused(slot[s], kind, role, n)} :
              slot' = [slot EXCEPT ![s] = r]
        \/ \E c \in Calls : slot' = [slot EXCEPT ![s] = Called(slot[s], role, <<c>>)]
    <2>1. CASE ChatReceive(s, role)
      BY <2>1 DEF ChatReceive, Received, Refused, WellFormed, RequestType
    <2>2. CASE StreamReceive(s, role)
      BY <2>2 DEF StreamReceive, Received, Refused, WellFormed, RequestType
    <2>3. CASE McpReceive(s, role)
      <3>1. PICK c \in Calls :
              slot' = [slot EXCEPT ![s].kind = "mcp", ![s].role = role,
                                   ![s].batch = <<c>>, ![s].intent = External,
                                   ![s].stage = "authorize"]
        BY <2>3 DEF McpReceive
      <3>2. PICK batch : batch = <<c>>
        OBVIOUS
      <3>3. slot' = [slot EXCEPT ![s] = Called(slot[s], role, batch)]
        BY <3>1, <3>2 DEF Called, WellFormed, RequestType
      <3> QED
        BY <3>2, <3>3
    <2> QED
      BY <1>1, <2>1, <2>2, <2>3
  <1>4. PICK r : /\ slot' = [slot EXCEPT ![s] = r]
                 /\ Sound(r) /\ r.waits = FALSE
    <2>1. CASE \E kind \in {"chat", "stream"} :
                 \E r \in {Received(slot[s], kind, role),
                          Refused(slot[s], kind, role, n)} :
                   slot' = [slot EXCEPT ![s] = r]
      <3>1. PICK kind \in {"chat", "stream"} :
              \E r \in {Received(Free, kind, role), Refused(Free, kind, role, n)} :
                slot' = [slot EXCEPT ![s] = r]
        BY <1>2, <2>1
      <3>2. \A r \in {Received(Free, kind, role), Refused(Free, kind, role, n)} :
              Sound(r) /\ r.waits = FALSE
        BY <1>2, ReceivedIsSound
      <3> QED
        BY <3>1, <3>2
    <2>2. CASE \E c \in Calls : slot' = [slot EXCEPT ![s] = Called(slot[s], role, <<c>>)]
      <3>1. PICK c \in Calls : slot' = [slot EXCEPT ![s] = Called(Free, role, <<c>>)]
        BY <1>2, <2>2
      <3> QED
        BY <1>2, <3>1, CalledIsSound
    <2> QED
      BY <1>3, <2>1, <2>2
  <1> QED
    BY <1>2, <1>4, OneRequestForms

LEMMA ResumeForms == ASSUME WellFormed, NEW s \in Slot, Resume(s) PROVE WellFormed'
  <1> DEFINE r == [slot[s] EXCEPT !.waits = FALSE]
  <1>1. Sound(slot[s]) /\ slot[s].stage # "free"
    BY WaitingRequest DEF Resume
  <1>2. slot' = [slot EXCEPT ![s] = r] /\ holder = NoSlot /\ holder' = s /\ EngineOK'
    BY DEF Resume, engine, EngineOK, WellFormed
  <1>3. Sound(r) /\ r.waits = FALSE
    BY <1>1
    DEF Sound, RequestType, RunsOrAsks, BeforeJudgement, BeforeAnswer, AfterBlock,
        AnswerFits
  <1> HIDE DEF r
  <1> QED
    BY <1>2, <1>3, OneRequestForms

LEMMA FreedForms ==
    ASSUME WellFormed, NEW s \in Slot, Leave(s) \/ Return(s) PROVE WellFormed'
  <1>1. slot' = [slot EXCEPT ![s] = Free] /\ holder \in {s, NoSlot}
        /\ holder' = NoSlot /\ EngineOK'
    BY DEF Leave, Return, engine, EngineOK, WellFormed
  <1>2. Free.waits = FALSE /\ Free.stage = "free"
    BY DEF Free
  <1>3. Free.waits = (Free.stage # "free")
    BY <1>2
  <1> QED
    BY <1>1, <1>3, FreeIsSound, OneRequestForms

LEMMA RaiseForms == ASSUME WellFormed, NEW s \in Slot, Raise(s) PROVE WellFormed'
  <1>1. Sound(slot[s]) /\ slot[s].waits = FALSE /\ slot[s].asked \in Nat
    BY RunningRequest DEF Sound, RequestType, Raise
  <1>2. PICK n \in 0..slot[s].asked :
          slot' = [slot EXCEPT ![s].queued = n, ![s].stage = "answered",
                               ![s].answer = "raised"]
    BY DEF Raise
  <1> DEFINE r == [slot[s] EXCEPT !.queued = n, !.stage = "answered",
                                  !.answer = "raised"]
  <1>3. slot' = [slot EXCEPT ![s] = r] /\ holder = s /\ holder' = s /\ EngineOK'
    BY <1>2 DEF Raise, engine, EngineOK, WellFormed
  <1>4. n \in Nat /\ n <= slot[s].asked /\ slot[s].stage # "answered"
    BY <1>1 DEF Raise
  <1>5. Sound(r) /\ r.waits = FALSE
    <2>1. r \in RequestType
      BY <1>1, <1>4 DEF Sound, RequestType, Stages, AnswerNames
    <2>2. RunsOrAsks(r)
      BY <1>1, <1>4 DEF Sound, RequestType, RunsOrAsks, BeforeJudgement
    <2>3. BeforeAnswer(r)
      BY <1>1 DEF Sound, RequestType, BeforeAnswer
    <2>4. AfterBlock(r)
      BY <1>1 DEF Sound, RequestType, AfterBlock, BeforeAnswer
    <2>5. AnswerFits(r)
      BY <1>1, <1>4 DEF Sound, RequestType, AnswerFits, BeforeAnswer, AfterBlock
    <2> QED
      BY <1>1, <2>1, <2>2, <2>3, <2>4, <2>5 DEF Sound, RequestType
  <1> HIDE DEF r
  <1> QED
    BY <1>3, <1>5, OneRequestForms

\* The LLM's answer begins a batch of which nothing has run.
LEMMA ReasonForms ==
    ASSUME WellFormed, NEW s \in Slot, ChatReason(s) \/ ChatRoute(s) PROVE WellFormed'
  <1>1. Sound(slot[s]) /\ slot[s].waits = FALSE /\ holder = s /\ holder' = s /\ EngineOK'
    BY RunningRequest
    DEF ChatReason, ChatRoute, At, engine, EngineOK, WellFormed
  <1>2. CASE ChatReason(s)
    <2>0. Intents \subseteq Intentions
      BY DEF Intentions
    <2>1. PICK batch \in Answers, intent \in Intentions :
            slot' = [slot EXCEPT ![s].batch = batch, ![s].intent = intent,
                                 ![s].stage = "validate"]
      BY <1>2, <2>0 DEF ChatReason
    <2> DEFINE r == [slot[s] EXCEPT !.batch = batch, !.intent = intent,
                                    !.stage = "validate"]
    <2>2. slot' = [slot EXCEPT ![s] = r]
      BY <2>1 DEF WellFormed, RequestType
    <2>3. Sound(r) /\ r.waits = FALSE
      <3>1. slot[s].stage = "reason" /\ slot[s].kind = "chat" /\ Len(batch) \in Nat
        BY <1>2, BatchesAreSequences DEF ChatReason, At
      <3>2. r \in RequestType
        BY <1>1, <3>1 DEF Sound, RequestType, Stages
      <3>3. RunsOrAsks(r)
        BY <1>1, <3>1 DEF Sound, RequestType, RunsOrAsks, BeforeJudgement
      <3>4. BeforeAnswer(r)
        BY <1>1, <3>1 DEF Sound, RequestType, BeforeAnswer, AfterBlock
      <3>5. AfterBlock(r)
        BY <1>1, <3>1 DEF Sound, RequestType, AfterBlock
      <3>6. AnswerFits(r)
        BY <1>1, <3>1 DEF Sound, RequestType, AnswerFits, BeforeAnswer, AfterBlock
      <3> QED
        BY <1>1, <3>1, <3>2, <3>3, <3>4, <3>5, <3>6 DEF Sound, RequestType
    <2> HIDE DEF r
    <2> QED
      BY <1>1, <2>2, <2>3, OneRequestForms
  <1>3. CASE ChatRoute(s)
    <2>1. PICK kind \in {"chat", "loop"} :
            slot' = [slot EXCEPT ![s].kind = kind, ![s].stage = "reason"]
      BY <1>3 DEF ChatRoute
    <2> DEFINE r == [slot[s] EXCEPT !.kind = kind, !.stage = "reason"]
    <2>2. slot' = [slot EXCEPT ![s] = r]
      BY <2>1 DEF WellFormed, RequestType
    <2>3. Sound(r) /\ r.waits = FALSE
      <3>1. slot[s].stage = "route"
        BY <1>3 DEF ChatRoute, At
      <3>2. r \in RequestType
        BY <1>1, <3>1 DEF Sound, RequestType, Kinds, Stages
      <3>3. RunsOrAsks(r)
        BY <1>1, <3>1 DEF Sound, RequestType, RunsOrAsks, BeforeJudgement
      <3>4. BeforeAnswer(r)
        BY <1>1, <3>1 DEF Sound, RequestType, BeforeAnswer, AfterBlock
      <3>5. AfterBlock(r)
        BY <1>1, <3>1 DEF Sound, RequestType, AfterBlock
      <3>6. AnswerFits(r)
        BY <1>1, <3>1 DEF Sound, RequestType, AnswerFits, BeforeAnswer, AfterBlock
      <3> QED
        BY <1>1, <3>1, <3>2, <3>3, <3>4, <3>5, <3>6 DEF Sound, RequestType
    <2> HIDE DEF r
    <2> QED
      BY <1>1, <2>2, <2>3, OneRequestForms
  <1> QED
    BY <1>2, <1>3

\* A round begins with a batch of its own, and none ends the loop.
LEMMA NewRoundIsTyped ==
    ASSUME NEW q \in RequestType, NEW round \in 0..MaxIterations,
           NEW batch \in Answers, NEW intent \in Intentions, NEW zero \in Nat,
           NEW then \in Stages
    PROVE  [q EXCEPT !.round = round, !.batch = batch, !.intent = intent,
                     !.next = zero, !.stage = then] \in RequestType
  BY DEF RequestType

LEMMA LoopReasonForms ==
    ASSUME WellFormed, NEW s \in Slot, LoopReason(s) PROVE WellFormed'
  <1>1. /\ Sound(slot[s]) /\ slot[s].waits = FALSE /\ slot[s].stage = "reason"
        /\ holder = s /\ holder' = s /\ EngineOK'
    BY RunningRequest DEF LoopReason, At, engine, EngineOK, WellFormed
  <1>0. Intents \subseteq Intentions
    BY DEF Intentions
  <1>2. PICK batch \in Answers, intent \in Intentions :
          slot' = [slot EXCEPT ![s].round = @ + 1, ![s].batch = batch,
                               ![s].intent = intent, ![s].next = 0,
                               ![s].stage = IF batch = <<>> THEN "finish"
                                            ELSE "validate"]
    BY <1>0 DEF LoopReason
  <1> PICK zero \in Nat : zero = 0
    OBVIOUS
  <1>3. slot[s].round + 1 \in 0..MaxIterations
    BY <1>1, BoundsAssumption DEF LoopReason, Sound, RequestType
  <1> PICK round \in 0..MaxIterations : round = slot[s].round + 1
    BY <1>3
  <1> PICK then \in Stages : then = IF batch = <<>> THEN "finish" ELSE "validate"
    BY DEF Stages
  <1> DEFINE r == [slot[s] EXCEPT !.round = round, !.batch = batch, !.intent = intent,
                                  !.next = zero, !.stage = then]
  <1>4. slot' = [slot EXCEPT ![s] = r]
    BY <1>2 DEF WellFormed, RequestType
  <1>5. Sound(r) /\ r.waits = FALSE
    <2>1. r \in RequestType
      BY <1>1, NewRoundIsTyped DEF Sound
    <2>2. Len(batch) \in Nat
      BY BatchesAreSequences
    <2> QED
      BY <1>1, <2>1, <2>2
      DEF Sound, RequestType, RunsOrAsks, BeforeJudgement, BeforeAnswer, AfterBlock,
          AnswerFits
  <1> HIDE DEF r
  <1> QED
    BY <1>1, <1>4, <1>5, OneRequestForms

LEMMA StreamReasonForms ==
    ASSUME WellFormed, NEW s \in Slot, StreamReason(s) PROVE WellFormed'
  <1>1. /\ Sound(slot[s]) /\ slot[s].waits = FALSE /\ slot[s].stage = "reason"
        /\ slot[s].kind = "stream" /\ holder = s /\ EngineOK' /\ UNCHANGED engine
    BY RunningRequest DEF StreamReason, At, engine, EngineOK, WellFormed
  <1>0. ~slot[s].blocked
    BY <1>1 DEF Sound, AfterBlock
  <1>2. CASE /\ slot[s].round = 0
             /\ slot' = [slot EXCEPT ![s].round = 1, ![s].waits = TRUE]
             /\ holder' = NoSlot
    <2>1. 1 \in 0..MaxIterations
      BY BoundsAssumption
    <2> PICK round \in 0..MaxIterations : round = 1
      BY <2>1
    <2> DEFINE r == [slot[s] EXCEPT !.round = round, !.waits = TRUE]
    <2>2. slot' = [slot EXCEPT ![s] = r]
      BY <1>2 DEF WellFormed, RequestType
    <2>3. Sound(r) /\ r.waits = TRUE /\ r.stage # "free"
      BY <1>1
      DEF Sound, RequestType, RunsOrAsks, BeforeJudgement, BeforeAnswer, AfterBlock,
          AnswerFits
    <2> HIDE DEF r
    <2>4. r.waits = (r.stage # "free")
      BY <2>3
    <2> QED
      BY <1>1, <1>2, <2>2, <2>3, <2>4, OneRequestForms
  <1>3. ASSUME NEW batch \in Answers, NEW intent \in Intents, UNCHANGED holder,
               slot' = [slot EXCEPT ![s].batch = batch, ![s].intent = intent,
                                    ![s].stage = "validate"]
        PROVE  WellFormed'
    <2> DEFINE r == [slot[s] EXCEPT !.batch = batch, !.intent = intent,
                                    !.stage = "validate"]
    <2>1. slot' = [slot EXCEPT ![s] = r]
      BY <1>3 DEF WellFormed, RequestType
    <2>2. Len(batch) \in Nat
      BY BatchesAreSequences
    <2>3. Sound(r) /\ r.waits = FALSE
      <3>1. r \in RequestType
        BY <1>1, <2>2 DEF Sound, RequestType, Stages, Intentions
      <3>2. RunsOrAsks(r)
        BY <1>1, <2>2 DEF Sound, RequestType, RunsOrAsks, BeforeJudgement
      <3>3. BeforeAnswer(r)
        BY <1>1, <2>2 DEF Sound, RequestType, BeforeAnswer, AfterBlock
      <3>4. AfterBlock(r)
        BY <1>1, <2>2 DEF Sound, RequestType, AfterBlock
      <3>5. AnswerFits(r)
        BY <1>1, <2>2 DEF Sound, RequestType, AnswerFits, BeforeAnswer, AfterBlock
      <3> QED
        BY <1>1, <2>2, <3>1, <3>2, <3>3, <3>4, <3>5 DEF Sound, RequestType
    <2> HIDE DEF r
    <2> QED
      BY <1>1, <1>3, <2>1, <2>3, OneRequestForms
  <1>4. CASE Answer(s, "error", 0)
    BY <1>0, <1>1, <1>4, AnswerForms
  <1> QED
    BY <1>2, <1>3, <1>4 DEF StreamReason

\* A write over MCP waits for a human.
LEMMA McpAuthorizeForms ==
    ASSUME WellFormed, NEW s \in Slot, McpAuthorize(s) PROVE WellFormed'
  <1>1. /\ Sound(slot[s]) /\ slot[s].waits = FALSE /\ slot[s].stage = "authorize"
        /\ slot[s].kind = "mcp" /\ holder = s
    BY RunningRequest DEF McpAuthorize, At
  <1>2. CASE Vetoed(s)
    BY <1>1, <1>2, VetoedForms
  <1>3. CASE /\ slot' = [slot EXCEPT ![s].asked = 1, ![s].stage = "queue"]
             /\ UNCHANGED <<holder, engine>>
    <2> PICK n \in Nat : n = 1
      OBVIOUS
    <2> DEFINE r == [slot[s] EXCEPT !.asked = n, !.stage = "queue"]
    <2>1. slot' = [slot EXCEPT ![s] = r] /\ holder' = s /\ EngineOK'
      BY <1>1, <1>3 DEF engine, EngineOK, WellFormed, RequestType
    <2>2. Sound(r) /\ r.waits = FALSE
      <3>1. r \in RequestType
        BY <1>1 DEF Sound, RequestType, Stages
      <3>2. RunsOrAsks(r)
        BY <1>1 DEF Sound, RequestType, RunsOrAsks, BeforeJudgement
      <3>3. BeforeAnswer(r)
        BY <1>1 DEF Sound, RequestType, BeforeAnswer, AfterBlock
      <3>4. AfterBlock(r)
        BY <1>1 DEF Sound, RequestType, AfterBlock
      <3>5. AnswerFits(r)
        BY <1>1 DEF Sound, RequestType, AnswerFits, BeforeAnswer, AfterBlock
      <3> QED
        BY <1>1, <3>1, <3>2, <3>3, <3>4, <3>5 DEF Sound, RequestType
    <2> HIDE DEF r
    <2> QED
      BY <1>1, <2>1, <2>2, OneRequestForms
  <1>4. CASE GoOn(s, "execute") /\ UNCHANGED engine
    <2>1. ~slot[s].blocked
      BY <1>1 DEF Sound, AfterBlock
    <2> QED
      BY <1>1, <1>4, <2>1, GoOnForms
  <1> QED
    BY <1>2, <1>3, <1>4 DEF McpAuthorize

-----------------------------------------------------------------------------
LEMMA ChatForms ==
    ASSUME WellFormed, NEW s \in Slot,
           \/ ChatPerceive(s) \/ ChatValidate(s) \/ ChatQueue(s) \/ ChatExecute(s)
           \/ ChatFinish(s)
    PROVE  WellFormed'
  <1>1. holder = s /\ Sound(slot[s]) /\ slot[s].kind = "chat"
    BY RunningRequest
    DEF ChatPerceive, ChatValidate, ChatQueue, ChatExecute, ChatFinish, At
  <1>2. CASE ChatPerceive(s)
    BY <1>1, <1>2, PerceiveForms DEF ChatPerceive, At
  <1>3. CASE ChatValidate(s)
    BY <1>1, <1>3, VetoedForms, JudgeForms DEF ChatValidate, At
  <1>4. CASE ChatQueue(s)
    BY <1>1, <1>4, QueueForms DEF ChatQueue, At
  <1>5. CASE ChatExecute(s)
    <2>1. slot[s].stage = "execute" /\ ~slot[s].blocked
      BY <1>1, <1>5 DEF ChatExecute, At, Sound, AfterBlock
    <2>2. CASE \E n \in 0..2 : Execute(s, n, "finish")
      BY <1>1, <2>1, <2>2, ExecuteForms
    <2>3. CASE GoOn(s, "finish") /\ UNCHANGED engine
      BY <1>1, <2>1, <2>3, GoOnForms
    <2> QED
      BY <1>5, <2>2, <2>3 DEF ChatExecute
  <1>6. CASE ChatFinish(s)
    <2>1. PICK n \in 0..1 : n = 1
      OBVIOUS
    <2>2. PICK answer \in {"blocked", "completed"} :
            answer = IF slot[s].blocked THEN "blocked" ELSE "completed"
      OBVIOUS
    <2>3. Answer(s, answer, n) /\ slot[s].stage = "finish" /\ UNCHANGED engine
      BY <1>6, <2>1, <2>2 DEF ChatFinish, At
    <2> QED
      BY <1>1, <2>1, <2>2, <2>3, AnswerForms
  <1> QED
    BY <1>2, <1>3, <1>4, <1>5, <1>6

LEMMA LoopForms ==
    ASSUME WellFormed, NEW s \in Slot,
           \/ LoopValidate(s) \/ LoopQueue(s) \/ LoopExecute(s) \/ LoopBlocked(s)
           \/ LoopObserve(s) \/ LoopFinish(s)
    PROVE  WellFormed'
  <1>1. holder = s /\ Sound(slot[s]) /\ slot[s].kind = "loop"
    BY RunningRequest
    DEF LoopValidate, LoopQueue, LoopExecute, LoopBlocked, LoopObserve, LoopFinish, At
  <1>2. CASE LoopValidate(s)
    BY <1>1, <1>2, VetoedForms, JudgeForms DEF LoopValidate, At
  <1>3. CASE LoopQueue(s)
    BY <1>1, <1>3, QueueForms DEF LoopQueue, At
  <1>4. CASE LoopExecute(s)
    <2>1. slot[s].stage = "execute" /\ ~slot[s].blocked
      BY <1>1, <1>4 DEF LoopExecute, At, Sound, AfterBlock
    <2>2. CASE \E n \in 0..2 : Execute(s, n, "blocked")
      BY <1>1, <2>1, <2>2, ExecuteForms
    <2>3. CASE GoOn(s, "observed") /\ UNCHANGED engine
      BY <1>1, <2>1, <2>3, GoOnForms
    <2> QED
      BY <1>4, <2>2, <2>3 DEF LoopExecute
  <1>5. CASE LoopBlocked(s)
    <2>1. PICK n \in 0..1 : n = 1
      OBVIOUS
    <2>2. Answer(s, "blocked", n) /\ slot[s].stage = "blocked" /\ UNCHANGED engine
      BY <1>5, <2>1 DEF LoopBlocked, At
    <2> QED
      BY <1>1, <2>1, <2>2, AnswerForms
  <1>6. CASE LoopObserve(s)
    <2>1. slot[s].stage = "observed" /\ ~slot[s].blocked
      BY <1>1, <1>6 DEF LoopObserve, At, Sound, AfterBlock
    <2>2. PICK stage \in {"finish", "reason"} : GoOn(s, stage) /\ UNCHANGED engine
      BY <1>6 DEF LoopObserve
    <2> QED
      BY <1>1, <2>1, <2>2, GoOnForms
  <1>7. CASE LoopFinish(s)
    <2>1. PICK n \in 0..1 : n = 1
      OBVIOUS
    <2>2. PICK answer \in {"completed", "max_iterations"} :
            answer = IF slot[s].round < MaxIterations THEN "completed"
                     ELSE "max_iterations"
      OBVIOUS
    <2>3. /\ Answer(s, answer, n) /\ slot[s].stage = "finish" /\ UNCHANGED engine
          /\ ~slot[s].blocked
      BY <1>1, <1>7, <2>1, <2>2 DEF LoopFinish, At, Sound, AfterBlock
    <2> QED
      BY <1>1, <2>1, <2>2, <2>3, AnswerForms
  <1> QED
    BY <1>2, <1>3, <1>4, <1>5, <1>6, <1>7

LEMMA StreamForms ==
    ASSUME WellFormed, NEW s \in Slot,
           \/ StreamPerceive(s) \/ StreamValidate(s) \/ StreamQueue(s)
           \/ StreamExecute(s) \/ StreamFinish(s)
    PROVE  WellFormed'
  <1>1. holder = s /\ Sound(slot[s]) /\ slot[s].kind = "stream"
    BY RunningRequest
    DEF StreamPerceive, StreamValidate, StreamQueue, StreamExecute, StreamFinish, At
  <1>2. CASE StreamPerceive(s)
    BY <1>1, <1>2, PerceiveForms DEF StreamPerceive, At
  <1>3. CASE StreamValidate(s)
    BY <1>1, <1>3, VetoedForms, JudgeForms DEF StreamValidate, At
  <1>4. CASE StreamQueue(s)
    BY <1>1, <1>4, QueueForms DEF StreamQueue, At
  <1>5. CASE StreamExecute(s)
    <2>1. slot[s].stage = "execute" /\ ~slot[s].blocked
      BY <1>1, <1>5 DEF StreamExecute, At, Sound, AfterBlock
    <2>2. CASE \E n \in 0..2 : Execute(s, n, "finish")
      BY <1>1, <2>1, <2>2, ExecuteForms
    <2>3. CASE GoOn(s, "finish") /\ UNCHANGED engine
      BY <1>1, <2>1, <2>3, GoOnForms
    <2> QED
      BY <1>5, <2>2, <2>3 DEF StreamExecute
  <1>6. CASE StreamFinish(s)
    <2>2. PICK answer \in {"blocked", "completed"} :
            answer = IF slot[s].blocked THEN "blocked" ELSE "completed"
      OBVIOUS
    <2>3. Answer(s, answer, 0) /\ slot[s].stage = "finish" /\ UNCHANGED engine
      BY <1>6, <2>2 DEF StreamFinish, At
    <2> QED
      BY <1>1, <2>2, <2>3, AnswerForms
  <1> QED
    BY <1>2, <1>3, <1>4, <1>5, <1>6

LEMMA McpForms ==
    ASSUME WellFormed, NEW s \in Slot, McpQueue(s) \/ McpExecute(s) \/ McpRecord(s)
    PROVE  WellFormed'
  <1>1. holder = s /\ Sound(slot[s]) /\ slot[s].kind = "mcp"
    BY RunningRequest DEF McpQueue, McpExecute, McpRecord, At
  <1>2. CASE McpQueue(s)
    BY <1>1, <1>2, QueueForms DEF McpQueue, At
  <1>3. CASE McpExecute(s)
    <2>1. slot[s].stage = "execute" /\ ~slot[s].blocked
      BY <1>1, <1>3 DEF McpExecute, At, Sound, AfterBlock
    <2>2. CASE \E n \in 0..2 : Execute(s, n, "record")
      BY <1>1, <2>1, <2>2, ExecuteForms
    <2>3. CASE GoOn(s, "record") /\ UNCHANGED engine
      BY <1>1, <2>1, <2>3, GoOnForms
    <2> QED
      BY <1>3, <2>2, <2>3 DEF McpExecute
  <1>4. CASE McpRecord(s)
    <2>2. PICK answer \in {"blocked", "completed"} :
            answer = IF slot[s].blocked THEN "blocked" ELSE "completed"
      OBVIOUS
    <2>3. PICK n \in 0..1 :
            Answer(s, answer, n) /\ slot[s].stage = "record" /\ UNCHANGED engine
      BY <1>4, <2>2 DEF McpRecord, At
    <2> QED
      BY <1>1, <2>2, <2>3, AnswerForms
  <1> QED
    BY <1>2, <1>3, <1>4

-----------------------------------------------------------------------------
LEMMA WellFormedInit == Init => WellFormed
  <1> SUFFICES ASSUME Init PROVE WellFormed
    OBVIOUS
  <1>1. slot \in [Slot -> RequestType]
    BY FreeIsSound DEF Init, Sound
  <1>2. \A s \in Slot : slot[s] = Free /\ Free.waits = FALSE /\ Free.stage = "free"
    BY DEF Init, Free
  <1>3. \A s \in Slot : Sound(slot[s]) /\ Suspended(s)
    BY <1>2, FreeIsSound DEF Suspended
  <1>4. EngineOK /\ holder \in Slot \cup {NoSlot}
    BY DEF Init, EngineOK
  <1> QED
    BY <1>1, <1>3, <1>4 DEF WellFormed

LEMMA WellFormedNext == WellFormed /\ [Next]_vars => WellFormed'
  <1> SUFFICES ASSUME WellFormed, [Next]_vars PROVE WellFormed'
    OBVIOUS
  <1>1. CASE Relax \/ Alert
    <2>1. UNCHANGED <<slot, holder>>
      BY <1>1 DEF Relax, Alert
    <2>2. EngineOK'
      BY <1>1 DEF Relax, Alert, WellFormed, EngineOK
    <2> QED
      BY <2>1, <2>2 DEF WellFormed, Suspended
  <1>2. ASSUME NEW s \in Slot, Receive(s) \/ Resume(s) \/ Leave(s) PROVE WellFormed'
    BY <1>2, ReceiveForms, ResumeForms, FreedForms
  <1>3. ASSUME NEW s \in Slot, Step(s) PROVE WellFormed'
    BY <1>3, ReasonForms, LoopReasonForms, StreamReasonForms, McpAuthorizeForms,
       ChatForms, LoopForms, StreamForms, McpForms, RaiseForms, FreedForms
    DEF Step
  <1>4. CASE UNCHANGED vars
    BY <1>4 DEF vars, WellFormed, EngineOK, Suspended
  <1> QED
    BY <1>1, <1>2, <1>3, <1>4 DEF Next

THEOREM InvariantHolds == Spec => []WellFormed
  <1> QED
    BY WellFormedInit, WellFormedNext, PTL DEF Spec

-----------------------------------------------------------------------------
\* A handler's step is about its own request only.
LEMMA StepsAreOwn ==
    ASSUME WellFormed, NEW s \in Slot, NEW t \in Slot \ {s},
           Receive(s) \/ Step(s) \/ Resume(s) \/ Leave(s)
    PROVE  slot'[t] = slot[t]
  <1>0. slot \in [Slot -> RequestType]
    BY DEF WellFormed
  <1>1. ASSUME NEW stage, GoOn(s, stage) PROVE slot'[t] = slot[t]
    BY <1>0, <1>1 DEF GoOn
  <1>2. ASSUME NEW answer, NEW n, Answer(s, answer, n) PROVE slot'[t] = slot[t]
    BY <1>0, <1>2 DEF Answer
  <1>3. ASSUME NEW clean, NEW closes, Perceive(s, clean, closes)
        PROVE  slot'[t] = slot[t]
    BY <1>0, <1>1, <1>3 DEF Perceive
  <1>4. CASE Vetoed(s) \/ \E waits \in BOOLEAN : Judge(s, waits)
    BY <1>0, <1>4 DEF Vetoed, AnswerVetoed, Judge
  <1>5. ASSUME NEW n, NEW stage, Execute(s, n, stage) PROVE slot'[t] = slot[t]
    BY <1>0, <1>5 DEF Execute
  <1>6. CASE Queue(s) \/ Raise(s) \/ Return(s) \/ Resume(s) \/ Leave(s)
    BY <1>0, <1>6 DEF Queue, Raise, Return, Resume, Leave
  <1>7. CASE Receive(s)
    BY <1>0, <1>7 DEF Receive, ChatReceive, StreamReceive, McpReceive
  <1>8. CASE ChatRoute(s) \/ ChatReason(s) \/ LoopReason(s) \/ StreamReason(s)
    BY <1>0, <1>2, <1>8 DEF ChatRoute, ChatReason, LoopReason, StreamReason
  <1>9. CASE McpAuthorize(s)
    BY <1>0, <1>1, <1>4, <1>9 DEF McpAuthorize
  <1>10. CASE ChatPerceive(s) \/ StreamPerceive(s)
    BY <1>3, <1>10 DEF ChatPerceive, StreamPerceive
  <1>11. CASE ChatValidate(s) \/ LoopValidate(s) \/ StreamValidate(s)
    BY <1>4, <1>11 DEF ChatValidate, LoopValidate, StreamValidate
  <1>12. CASE ChatQueue(s) \/ LoopQueue(s) \/ StreamQueue(s) \/ McpQueue(s)
    BY <1>6, <1>12 DEF ChatQueue, LoopQueue, StreamQueue, McpQueue
  <1>13. CASE ChatExecute(s) \/ LoopExecute(s) \/ StreamExecute(s) \/ McpExecute(s)
    BY <1>1, <1>5, <1>13 DEF ChatExecute, LoopExecute, StreamExecute, McpExecute
  <1>14. CASE \/ ChatFinish(s) \/ LoopFinish(s) \/ StreamFinish(s) \/ McpRecord(s)
              \/ LoopBlocked(s)
    BY <1>2, <1>14 DEF ChatFinish, LoopFinish, StreamFinish, McpRecord, LoopBlocked
  <1>15. CASE LoopObserve(s)
    BY <1>1, <1>15 DEF LoopObserve
  <1> QED
    BY <1>6, <1>7, <1>8, <1>9, <1>10, <1>11, <1>12, <1>13, <1>14, <1>15 DEF Step

Stopped(s) == /\ slot'[s].next = slot[s].next
              /\ slot'[s].queued = slot[s].queued
              /\ slot'[s].round = slot[s].round

\* What a request does with a blocked output: it answers, raises or returns.
LEMMA BlockedStops ==
    ASSUME WellFormed, NEW s \in Slot, slot[s].blocked, slot'[s] # Free,
           Receive(s) \/ Step(s) \/ Resume(s) \/ Leave(s)
    PROVE  Stopped(s)
  <1>0. slot \in [Slot -> RequestType] /\ Sound(slot[s])
    BY DEF WellFormed
  <1>1. /\ slot[s].stage \in {"finish", "blocked", "record", "answered"}
        /\ slot[s].asked = 0 /\ slot[s] # Free
        /\ slot[s].stage # "answered" => slot[s].queued = 0
    BY <1>0 DEF Sound, AfterBlock, RunsOrAsks, BeforeAnswer, Free
  <1>2. ASSUME NEW answer, NEW n, Answer(s, answer, n) PROVE Stopped(s)
    BY <1>0, <1>2 DEF Answer, Stopped, RequestType
  <1>3. CASE \/ ChatFinish(s) \/ LoopFinish(s) \/ StreamFinish(s) \/ McpRecord(s)
             \/ LoopBlocked(s)
    BY <1>2, <1>3 DEF ChatFinish, LoopFinish, StreamFinish, McpRecord, LoopBlocked
  <1>4. CASE Raise(s)
    <2>1. slot' = [slot EXCEPT ![s].queued = 0, ![s].stage = "answered",
                               ![s].answer = "raised"]
      BY <1>1, <1>4 DEF Raise
    <2> QED
      BY <1>0, <1>1, <1>4, <2>1 DEF Raise, Stopped, RequestType
  <1>5. CASE Resume(s)
    BY <1>0, <1>5 DEF Resume, Stopped, RequestType
  <1>6. ~(Receive(s) \/ Return(s) \/ Leave(s))
    BY <1>0, <1>1
    DEF Receive, ChatReceive, StreamReceive, McpReceive, Return, Leave
  <1>7. ~(\/ ChatPerceive(s) \/ ChatRoute(s) \/ ChatReason(s) \/ ChatValidate(s)
          \/ ChatQueue(s) \/ ChatExecute(s))
    BY <1>1
    DEF ChatPerceive, ChatRoute, ChatReason, ChatValidate, ChatQueue, ChatExecute, At
  <1>8. ~(LoopReason(s) \/ LoopValidate(s) \/ LoopQueue(s) \/ LoopExecute(s)
          \/ LoopObserve(s))
    BY <1>1 DEF LoopReason, LoopValidate, LoopQueue, LoopExecute, LoopObserve, At
  <1>9. ~(\/ StreamPerceive(s) \/ StreamReason(s) \/ StreamValidate(s)
          \/ StreamQueue(s) \/ StreamExecute(s))
    BY <1>1
    DEF StreamPerceive, StreamReason, StreamValidate, StreamQueue, StreamExecute, At
  <1>10. ~(McpAuthorize(s) \/ McpQueue(s) \/ McpExecute(s))
    BY <1>1 DEF McpAuthorize, McpQueue, McpExecute, At
  <1> QED
    BY <1>3, <1>4, <1>5, <1>6, <1>7, <1>8, <1>9, <1>10 DEF Step

-----------------------------------------------------------------------------
(***************************************************************************)
(* Every request is of its type, within the bounds of its batch and of the *)
(* loop, and only the holder and suspended streams are in progress.        *)
(***************************************************************************)
THEOREM TypeCorrect == Spec => []TypeOK
  <1>1. WellFormed => TypeOK
    <2> SUFFICES ASSUME WellFormed PROVE TypeOK
      OBVIOUS
    <2>1. ASSUME NEW s \in Slot
          PROVE  /\ slot[s].kind \in Kinds /\ slot[s].batch \in Answers
                 /\ slot[s].intent \in Intents \cup {Normal, External}
                 /\ slot[s].next \in 0..Len(slot[s].batch)
                 /\ slot[s].queued \in 0..slot[s].asked
                 /\ slot[s].round \in 0..MaxIterations
      <3>1. Sound(slot[s]) /\ slot[s] \in RequestType
        BY DEF WellFormed
      <3>2. Len(slot[s].batch) \in Nat
        BY <3>1, BatchesAreSequences DEF RequestType
      <3> QED
        BY <3>1, <3>2 DEF Sound, RequestType, RunsOrAsks, Intentions
    <2>2. ASSUME NEW s \in Slot
          PROVE  slot[s].waits <=> holder # s /\ slot[s] # Free
      <3>1. slot[s].stage = "free" <=> slot[s] = Free
        BY DEF WellFormed, Sound, Free
      <3> QED
        BY <3>1 DEF WellFormed, Suspended
    <2> QED
      BY <2>1, <2>2 DEF WellFormed, EngineOK, TypeOK, Kinds
  <1> QED
    BY <1>1, InvariantHolds, PTL

(***************************************************************************)
(* One request adds at most four vetoes, more than two only when its       *)
(* perception was blocked, and none when its answer says that all went     *)
(* well or that a human is asked.                                          *)
(***************************************************************************)
THEOREM VetoesPerRequestAlways == Spec => []VetoesPerRequest
  <1>1. WellFormed => VetoesPerRequest
    BY DEF WellFormed, Sound, RequestType, AnswerFits, VetoesPerRequest
  <1> QED
    BY <1>1, InvariantHolds, PTL

(***************************************************************************)
(* The audit chain of a request is closed once at most; chat and the loop  *)
(* close it on every way out that is no exception.                         *)
(***************************************************************************)
THEOREM ChainsCloseAlways == Spec => []ChainsClose
  <1>1. WellFormed => ChainsClose
    BY DEF WellFormed, Sound, RequestType, AnswerFits, ChainsClose
  <1> QED
    BY <1>1, InvariantHolds, PTL

(***************************************************************************)
(* After a blocked output, nothing more of the request runs, is queued or  *)
(* is asked of the LLM.                                                    *)
(***************************************************************************)
THEOREM BlockStopsRequestAlways == Spec => BlockStopsRequest
  <1> DEFINE Stops == \A s \in Slot : slot[s].blocked /\ slot'[s] # Free => Stopped(s)
  <1>1. WellFormed /\ [Next]_vars => [Stops]_vars
    <2> SUFFICES ASSUME WellFormed, Next, NEW s \in Slot, slot[s].blocked,
                        slot'[s] # Free
                 PROVE  Stopped(s)
      OBVIOUS
    <2>1. CASE Relax \/ Alert
      BY <2>1 DEF Relax, Alert, Stopped
    <2>2. ASSUME NEW t \in Slot, Receive(t) \/ Step(t) \/ Resume(t) \/ Leave(t)
          PROVE  Stopped(s)
      <3>1. CASE t = s
        BY <2>2, <3>1, BlockedStops
      <3>2. CASE t # s
        BY <2>2, <3>2, StepsAreOwn DEF Stopped
      <3> QED
        BY <3>1, <3>2
    <2> QED
      BY <2>1, <2>2 DEF Next
  <1>2. Stops => \A s \in Slot : slot[s].blocked /\ slot'[s] # Free =>
                    /\ slot'[s].next = slot[s].next
                    /\ slot'[s].queued = slot[s].queued
                    /\ slot'[s].round = slot[s].round
    BY DEF Stopped
  <1> HIDE DEF Stops
  <1> QED
    BY <1>1, <1>2, InvariantHolds, PTL DEF Spec, BlockStopsRequest

-----------------------------------------------------------------------------
(***************************************************************************)
(* What was judged stays judged.  A write below /var or /usr is the one    *)
(* call whose decision depends on the posture: with a threshold of 7 or    *)
(* less, it waits for a human in the balanced posture as it does in the    *)
(* restrictive one.                                                        *)
(***************************************************************************)
MildOffsets == \A role \in Role : BaseThreshold("balanced") + Offset[role] <= 7

LEMMA PostureDecidesNothing ==
    ASSUME MildOffsets, NEW c, NEW p \in {"balanced", "restrictive"},
           NEW role \in Role, NEW intent
    PROVE  Decide(c, p, role, intent) = Decide(c, "balanced", role, intent)
  <1>1. Boost(intent) \in 0..4 /\ Offset[role] \in Int
    BY OffsetAssumption DEF Boost
  <1>2. \A q \in {"balanced", "restrictive"} : 7 >= Threshold(q, role, intent)
    BY <1>1 DEF MildOffsets, Threshold, BaseThreshold
  <1>3. \A q \in {"balanced", "restrictive"} :
          SystemVerdict(c, Threshold(q, role, intent))
             = IF c.where = "system" THEN "confirm" ELSE "allow"
    BY <1>2 DEF SystemVerdict
  <1>4. ToolVerdict(c, p, role, intent) = ToolVerdict(c, "balanced", role, intent)
    BY <1>3 DEF ToolVerdict
  <1> QED
    BY <1>4 DEF Decide

LEMMA ThreeDecisions ==
    ASSUME NEW c, NEW p, NEW role, NEW intent
    PROVE  /\ Decide(c, p, role, intent) \in {"veto", "confirm", "run"}
           /\ ~NeedsCapability(c.tool) => Decide(c, p, role, intent) # "confirm"
  BY DEF Decide

\* Every command of the batch may run unasked.
Cleared(r) ==
    \A i \in DOMAIN r.batch :
        Decide(r.batch[i], "balanced", r.role, r.intent) = "run"

Running(r) == r.stage = "execute" \/ r.next > 0

LEMMA ClearedBatch ==
    ASSUME MildOffsets, WellFormed, NEW s \in Slot
    PROVE  Cleared(slot[s]) <=> Decisions(s) \subseteq {"run"}
  <1>1. slot[s].role \in Role /\ posture \in {"balanced", "restrictive"}
    BY DEF WellFormed, EngineOK, RequestType
  <1>2. \A c : Decision(s, c) = Decide(c, "balanced", slot[s].role, slot[s].intent)
    BY <1>1, PostureDecidesNothing DEF Decision
  <1> QED
    BY <1>2 DEF Cleared, Decisions

Judged(r) ==
    /\ r.kind = "mcp" => Len(r.batch) = 1
    /\ Running(r) => Cleared(r)

\* A request that goes on with the same batch.
SameBatch(q, r) ==
    /\ r.batch = q.batch /\ r.intent = q.intent /\ r.role = q.role
    /\ r.kind = "mcp" <=> q.kind = "mcp"
    /\ Running(r) => Running(q)

LEMMA SameBatchIsJudged ==
    ASSUME NEW q, NEW r, Judged(q), SameBatch(q, r) PROVE Judged(r)
  BY DEF Judged, Cleared, SameBatch

LEMMA NewBatchIsJudged ==
    ASSUME WellFormed, NEW s \in Slot,
           \/ ChatRoute(s) \/ ChatReason(s) \/ LoopReason(s)
           \/ Receive(s) \/ Return(s) \/ Leave(s)
    PROVE  Judged(slot'[s])
  <1>0. slot \in [Slot -> RequestType] /\ slot[s] \in RequestType /\ Sound(slot[s])
    BY DEF WellFormed
  <1>1. ASSUME slot'[s].stage # "execute", slot'[s].next = 0,
               slot'[s].kind = "mcp" => Len(slot'[s].batch) = 1
        PROVE  Judged(slot'[s])
    BY <1>1 DEF Judged, Running
  <1>2. CASE ChatRoute(s)
    <2>1. slot[s].next = 0
      BY <1>0, <1>2 DEF ChatRoute, At, Sound, RunsOrAsks, BeforeJudgement
    <2> QED
      BY <1>0, <1>1, <1>2, <2>1 DEF ChatRoute, RequestType
  <1>3. CASE ChatReason(s)
    <2>1. slot[s].next = 0 /\ slot[s].kind = "chat"
      BY <1>0, <1>3 DEF ChatReason, At, Sound, RunsOrAsks, BeforeJudgement
    <2>2. PICK batch, intent :
            slot' = [slot EXCEPT ![s].batch = batch, ![s].intent = intent,
                                 ![s].stage = "validate"]
      BY <1>3 DEF ChatReason
    <2>3. /\ slot'[s].stage = "validate" /\ slot'[s].next = slot[s].next
          /\ slot'[s].kind = slot[s].kind
      BY <1>0, <2>2 DEF RequestType
    <2> QED
      BY <1>1, <2>1, <2>3
  <1>4. CASE LoopReason(s)
    <2>1. slot[s].kind = "loop"
      BY <1>4 DEF LoopReason, At
    <2>2. PICK batch, intent :
            slot' = [slot EXCEPT ![s].round = @ + 1, ![s].batch = batch,
                                  ![s].intent = intent, ![s].next = 0,
                                  ![s].stage = IF batch = <<>> THEN "finish"
                                               ELSE "validate"]
      BY <1>4 DEF LoopReason
    <2>3. slot'[s].kind = "loop" /\ slot'[s].next = 0
      BY <1>0, <2>1, <2>2 DEF RequestType
    <2>4. slot'[s].stage = IF batch = <<>> THEN "finish" ELSE "validate"
      BY <1>0, <2>2 DEF RequestType
    <2> QED
      BY <1>1, <2>3, <2>4
  <1>5. CASE Return(s) \/ Leave(s)
    <2>1. slot'[s] = Free
      BY <1>0, <1>5 DEF Return, Leave
    <2>2. Free.kind = "none" /\ Free.next = 0 /\ Free.stage = "free"
      BY DEF Free
    <2> QED
      BY <1>1, <2>1, <2>2
  <1>6. CASE Receive(s)
    <2>1. PICK role : ChatReceive(s, role) \/ StreamReceive(s, role) \/ McpReceive(s, role)
      BY <1>6 DEF Receive
    <2>2. slot[s] = Free
      BY <2>1 DEF ChatReceive, StreamReceive, McpReceive
    <2>3. slot[s].next = 0
      BY <2>2 DEF Free
    <2>4. CASE ChatReceive(s, role) \/ StreamReceive(s, role)
      BY <1>0, <1>1, <2>3, <2>4 DEF ChatReceive, StreamReceive, RequestType
    <2>5. CASE McpReceive(s, role)
      <3>1. PICK c \in Calls :
              slot' = [slot EXCEPT ![s].kind = "mcp", ![s].role = role,
                                   ![s].batch = <<c>>, ![s].intent = External,
                                   ![s].stage = "authorize"]
        BY <2>5 DEF McpReceive
      <3>2. PICK batch : batch = <<c>> /\ Len(batch) = 1
        BY OneCall
      <3>3. slot'[s].batch = batch /\ slot'[s].stage = "authorize" /\ slot'[s].next = 0
        BY <1>0, <2>3, <3>1, <3>2 DEF RequestType
      <3> QED
        BY <1>1, <3>2, <3>3
    <2> QED
      BY <2>1, <2>4, <2>5
  <1> QED
    BY <1>2, <1>3, <1>4, <1>5, <1>6

LEMMA JudgedNext ==
    ASSUME MildOffsets, WellFormed, NEW s \in Slot, Judged(slot[s]),
           Receive(s) \/ Step(s) \/ Resume(s) \/ Leave(s)
    PROVE  Judged(slot'[s])
  <1>0. slot \in [Slot -> RequestType] /\ slot[s] \in RequestType /\ Sound(slot[s])
    BY DEF WellFormed
  <1>1. ASSUME NEW stage \in Stages \ {"execute"}, GoOn(s, stage)
        PROVE  SameBatch(slot[s], slot'[s])
    BY <1>0, <1>1 DEF GoOn, SameBatch, Running, RequestType
  <1>2. ASSUME NEW answer, NEW n, Answer(s, answer, n)
        PROVE  SameBatch(slot[s], slot'[s])
    BY <1>0, <1>2 DEF Answer, SameBatch, Running, RequestType
  <1>3. ASSUME NEW clean \in {"route", "reason"}, NEW closes, Perceive(s, clean, closes)
        PROVE  SameBatch(slot[s], slot'[s])
    <2>1. clean \in Stages \ {"execute"}
      BY DEF Stages
    <2> QED
      BY <1>0, <1>1, <1>3, <2>1 DEF Perceive, SameBatch, Running, RequestType
  <1>4. CASE Vetoed(s)
    <2>1. SameBatch(slot[s], slot'[s])
      BY <1>0, <1>4 DEF Vetoed, AnswerVetoed, SameBatch, Running, RequestType
    <2> QED
      BY <2>1, SameBatchIsJudged
  <1>5. ASSUME NEW waits \in BOOLEAN, Judge(s, waits), slot[s].next = 0
        PROVE  Judged(slot'[s])
    <2>1. ToConfirm(s) \in Nat /\ (ToConfirm(s) = 0 => "confirm" \notin Decisions(s))
      BY ConfirmationsAreCounted
    <2>2. slot' = [slot EXCEPT ![s].asked = ToConfirm(s), ![s].waits = waits,
                               ![s].stage = IF ToConfirm(s) > 0 THEN "queue"
                                            ELSE "execute"]
      BY <1>5 DEF Judge
    <2>3. /\ slot'[s].batch = slot[s].batch /\ slot'[s].role = slot[s].role
          /\ slot'[s].kind = slot[s].kind /\ slot'[s].next = slot[s].next
          /\ slot'[s].intent = slot[s].intent
          /\ slot'[s].stage = IF ToConfirm(s) > 0 THEN "queue" ELSE "execute"
      BY <1>0, <2>2 DEF RequestType
    <2>4. ASSUME Running(slot'[s]) PROVE Cleared(slot'[s])
      <3>1. "confirm" \notin Decisions(s) /\ "veto" \notin Decisions(s)
        BY <1>5, <2>1, <2>3, <2>4 DEF Judge, Running
      <3>2. Decisions(s) \subseteq {"run"}
        BY <3>1, ThreeDecisions DEF Decisions, Decision
      <3>3. Cleared(slot[s])
        BY <3>2, ClearedBatch
      <3> QED
        BY <2>3, <3>3 DEF Cleared
    <2> QED
      BY <2>3, <2>4 DEF Judged
  <1>6. ASSUME NEW n, NEW stage, Execute(s, n, stage), slot[s].stage = "execute"
        PROVE  SameBatch(slot[s], slot'[s])
    BY <1>0, <1>6 DEF Execute, SameBatch, Running, RequestType
  <1>7. CASE Queue(s)
    <2>1. SameBatch(slot[s], slot'[s])
      BY <1>0, <1>7 DEF Queue, SameBatch, Running, RequestType
    <2> QED
      BY <2>1, SameBatchIsJudged
  <1>8. CASE Raise(s) \/ Resume(s)
    <2>1. CASE Raise(s)
      BY <1>0, <2>1, SameBatchIsJudged DEF Raise, SameBatch, Running, RequestType
    <2>2. CASE Resume(s)
      BY <1>0, <2>2, SameBatchIsJudged DEF Resume, SameBatch, Running, RequestType
    <2> QED
      BY <1>8, <2>1, <2>2
  <1>9. CASE \/ ChatRoute(s) \/ ChatReason(s) \/ LoopReason(s)
             \/ Receive(s) \/ Return(s) \/ Leave(s)
    BY <1>9, NewBatchIsJudged
  <1>10. CASE StreamReason(s)
    <2>1. slot[s].next = 0 /\ slot[s].kind = "stream" /\ slot[s].stage = "reason"
      BY <1>0, <1>10 DEF StreamReason, At, Sound, RunsOrAsks, BeforeJudgement
    <2>2. CASE slot' = [slot EXCEPT ![s].round = 1, ![s].waits = TRUE]
      BY <1>0, <2>1, <2>2, SameBatchIsJudged DEF SameBatch, Running, RequestType
    <2>3. CASE \E batch \in Answers, intent \in Intents :
                 slot' = [slot EXCEPT ![s].batch = batch, ![s].intent = intent,
                                      ![s].stage = "validate"]
      BY <1>0, <2>1, <2>3 DEF Judged, Running, RequestType
    <2>4. CASE Answer(s, "error", 0)
      BY <1>2, <2>4, SameBatchIsJudged
    <2> QED
      BY <1>10, <2>2, <2>3, <2>4 DEF StreamReason
  <1>11. CASE McpAuthorize(s)
    <2>1. slot[s].next = 0 /\ slot[s].kind = "mcp" /\ slot[s].stage = "authorize"
      BY <1>0, <1>11 DEF McpAuthorize, At, Sound, RunsOrAsks, BeforeJudgement
    <2>2. CASE /\ "veto" \notin Decisions(s)
               /\ ~NeedsCapability(slot[s].batch[1].tool)
               /\ GoOn(s, "execute")
      <3>1. DOMAIN slot[s].batch = {1}
        BY <1>0, <2>1, BatchesAreSequences DEF Judged, RequestType
      <3>2. Decision(s, slot[s].batch[1]) = "run"
        BY <2>2, <3>1, ThreeDecisions DEF Decisions, Decision
      <3>3. Cleared(slot[s])
        BY <3>1, <3>2, ClearedBatch DEF Decisions
      <3> QED
        BY <1>0, <2>2, <3>3 DEF GoOn, Judged, Cleared, RequestType
    <2>3. CASE slot' = [slot EXCEPT ![s].asked = 1, ![s].stage = "queue"]
      BY <1>0, <2>1, <2>3, SameBatchIsJudged DEF SameBatch, Running, RequestType
    <2> QED
      BY <1>4, <1>11, <2>2, <2>3 DEF McpAuthorize
  <1>12. CASE ChatPerceive(s) \/ StreamPerceive(s)
    BY <1>3, <1>12, SameBatchIsJudged DEF ChatPerceive, StreamPerceive
  <1>13. CASE ChatValidate(s) \/ LoopValidate(s) \/ StreamValidate(s)
    <2>1. slot[s].next = 0
      BY <1>0, <1>13
      DEF ChatValidate, LoopValidate, StreamValidate, At, Sound, RunsOrAsks,
          BeforeJudgement
    <2> QED
      BY <1>4, <1>5, <1>13, <2>1 DEF ChatValidate, LoopValidate, StreamValidate
  <1>14. CASE ChatQueue(s) \/ LoopQueue(s) \/ StreamQueue(s) \/ McpQueue(s)
    BY <1>7, <1>14 DEF ChatQueue, LoopQueue, StreamQueue, McpQueue
  <1>15. CASE ChatExecute(s) \/ LoopExecute(s) \/ StreamExecute(s) \/ McpExecute(s)
    <2>1. {"finish", "observed", "record"} \subseteq Stages \ {"execute"}
      BY DEF Stages
    <2> QED
      BY <1>1, <1>6, <1>15, <2>1, SameBatchIsJudged
      DEF ChatExecute, LoopExecute, StreamExecute, McpExecute, At
  <1>16. CASE \/ ChatFinish(s) \/ LoopFinish(s) \/ StreamFinish(s) \/ McpRecord(s)
              \/ LoopBlocked(s)
    BY <1>2, <1>16, SameBatchIsJudged
    DEF ChatFinish, LoopFinish, StreamFinish, McpRecord, LoopBlocked
  <1>17. CASE LoopObserve(s)
    <2>1. {"finish", "reason"} \subseteq Stages \ {"execute"}
      BY DEF Stages
    <2> QED
      BY <1>1, <1>17, <2>1, SameBatchIsJudged DEF LoopObserve
  <1> QED
    BY <1>8, <1>9, <1>10, <1>11, <1>12, <1>13, <1>14, <1>15, <1>16, <1>17 DEF Step

(***************************************************************************)
(* A batch runs together or not at all, also after the posture was         *)
(* tightened by the batch itself or by others while a stream waited.  The  *)
(* offsets must be at most 2, as the default ones are.                     *)
(***************************************************************************)
THEOREM RunsTogetherAlways ==
    ASSUME MildOffsets PROVE Spec => []RunsTogether
  <1> DEFINE AllJudged == \A s \in Slot : Judged(slot[s])
  <1>1. Init => AllJudged
    BY DEF Init, Free, Running, Judged
  <1>2. WellFormed /\ AllJudged /\ [Next]_vars => AllJudged'
    <2> SUFFICES ASSUME WellFormed, AllJudged, [Next]_vars, NEW s \in Slot
                 PROVE  Judged(slot'[s])
      OBVIOUS
    <2>1. CASE Relax \/ Alert \/ UNCHANGED vars
      BY <2>1 DEF Relax, Alert, vars
    <2>2. ASSUME NEW t \in Slot, Receive(t) \/ Step(t) \/ Resume(t) \/ Leave(t)
          PROVE  Judged(slot'[s])
      <3>1. CASE t = s
        BY <2>2, <3>1, JudgedNext
      <3>2. CASE t # s
        BY <2>2, <3>2, StepsAreOwn
      <3> QED
        BY <3>1, <3>2
    <2> QED
      BY <2>1, <2>2 DEF Next
  <1>3. WellFormed /\ AllJudged => RunsTogether
    <2> SUFFICES ASSUME WellFormed, AllJudged, NEW s \in Slot, slot[s].next > 0
                 PROVE  Decisions(s) = {"run"} /\ slot[s].queued = 0
      BY DEF RunsTogether
    <2>1. Sound(slot[s]) /\ slot[s] \in RequestType
      BY DEF WellFormed
    <2>2. slot[s].queued = 0
      BY <2>1 DEF Sound, RequestType, RunsOrAsks
    <2>3. 1 \in DOMAIN slot[s].batch
      BY <2>1, BatchesAreSequences DEF Sound, RequestType, RunsOrAsks
    <2>4. Decisions(s) \subseteq {"run"}
      BY ClearedBatch DEF Judged, Running
    <2>5. Decision(s, slot[s].batch[1]) \in Decisions(s)
      BY <2>3 DEF Decisions
    <2> QED
      BY <2>2, <2>4, <2>5
  <1> HIDE DEF AllJudged
  <1> QED
    BY <1>1, <1>2, <1>3, InvariantHolds, PTL DEF Spec

-----------------------------------------------------------------------------
(***************************************************************************)
(* The decision that the pipelines ask for, in every context (Guardrail),  *)
(* whatever offsets the environment gives to the roles.                    *)
(***************************************************************************)
ContextOK ==
    /\ guardPosture \in Posture
    /\ callerRole \in Role
    /\ profile \in Intent

LEMMA ContextAlways == ContextSpec => []ContextOK
  <1>1. \A hint \in {"normal", "suspicious"} :
          [hint |-> hint, urgent |-> FALSE, prior |-> {}] \in Intent
    BY DEF Intent
  <1>2. ContextInit => ContextOK
    BY <1>1 DEF ContextInit, ContextOK, Posture, Role
  <1>3. ContextOK /\ [ContextNext]_contextVars => ContextOK'
    BY <1>1 DEF ContextNext, Follow, Ask, AskMcp, contextVars, ContextOK
  <1> QED
    BY <1>2, <1>3, PTL DEF ContextSpec

-----------------------------------------------------------------------------
(***************************************************************************)
(* A lower threshold turns decisions only towards "confirm".               *)
(***************************************************************************)
LEMMA ThresholdIsInt ==
    ASSUME NEW p \in Posture, NEW r \in Role, NEW i \in Intent
    PROVE  Threshold(p, r, i) \in Int
  BY OffsetAssumption DEF Threshold, BaseThreshold, Boost

LEMMA ThresholdFollows ==
    ASSUME NEW p \in Posture, NEW q \in Posture, NEW r \in Role,
           NEW i \in Intent, NEW j \in Intent,
           BaseThreshold(p) <= BaseThreshold(q), Boost(i) >= Boost(j)
    PROVE  Threshold(p, r, i) <= Threshold(q, r, j)
  <1>1. /\ BaseThreshold(p) \in Int /\ BaseThreshold(q) \in Int
        /\ Boost(i) \in Int /\ Boost(j) \in Int
        /\ Offset[r] \in Int
    BY OffsetAssumption DEF BaseThreshold, Boost
  <1> QED
    BY <1>1 DEF Threshold

\* Only SystemVerdict looks at the threshold, and only its confirmation can
\* replace an approval.
LEMMA DecisionFollows ==
    ASSUME NEW c, NEW r,
           NEW p, NEW i, NEW q, NEW j,
           Threshold(p, r, i) \in Int, Threshold(q, r, j) \in Int,
           Threshold(p, r, i) <= Threshold(q, r, j)
    PROVE  Level(Decide(c, p, r, i)) >= Level(Decide(c, q, r, j))
  <1>1. \/ ToolVerdict(c, p, r, i) = ToolVerdict(c, q, r, j)
        \/ /\ ToolVerdict(c, p, r, i) = "confirm"
           /\ ToolVerdict(c, q, r, j) = "allow"
    BY DEF ToolVerdict, SystemVerdict
  <1>2. CASE ToolVerdict(c, p, r, i) = ToolVerdict(c, q, r, j)
    <2>1. Decide(c, p, r, i) = Decide(c, q, r, j)
      BY <1>2 DEF Decide
    <2>2. Decide(c, p, r, i) \in {"veto", "confirm", "run"}
      BY DEF Decide
    <2>3. Level(Decide(c, p, r, i)) \in Int
      BY <2>2 DEF Level
    <2> QED
      BY <2>1, <2>3
  <1>3. CASE /\ ToolVerdict(c, p, r, i) = "confirm"
             /\ ToolVerdict(c, q, r, j) = "allow"
    BY <1>3 DEF Decide, Level
  <1> QED
    BY <1>1, <1>2, <1>3

\* Neither a stricter guardPosture nor a more suspicious intent ever loosens a
\* decision (_effective_threshold, _validate_tool_call, validate_commands),
\* whatever offsets the roles have.
THEOREM StricterNeverLoosensAlways == ContextSpec => []StricterNeverLoosens
  <1>1. ContextOK => StricterNeverLoosens
    <2> SUFFICES ASSUME ContextOK, NEW c \in Call
                 PROVE  /\ \A p \in Posture :
                              BaseThreshold(p) <= BaseThreshold(guardPosture) =>
                                Level(Decide(c, p, callerRole, profile))
                                  >= Level(DecisionOn(c))
                        /\ \A i \in Intent :
                              Boost(i) >= Boost(profile) =>
                                Level(Decide(c, guardPosture, callerRole, i))
                                  >= Level(DecisionOn(c))
      BY DEF StricterNeverLoosens
    <2>1. ASSUME NEW p \in Posture, BaseThreshold(p) <= BaseThreshold(guardPosture)
          PROVE  Level(Decide(c, p, callerRole, profile)) >= Level(DecisionOn(c))
      <3>1. Boost(profile) >= Boost(profile)
        BY DEF Boost
      <3>2. Threshold(p, callerRole, profile)
              <= Threshold(guardPosture, callerRole, profile)
        BY <2>1, <3>1, ThresholdFollows DEF ContextOK
      <3> QED
        BY <3>2, ThresholdIsInt, DecisionFollows DEF ContextOK, DecisionOn
    <2>2. ASSUME NEW i \in Intent, Boost(i) >= Boost(profile)
          PROVE  Level(Decide(c, guardPosture, callerRole, i)) >= Level(DecisionOn(c))
      <3>1. BaseThreshold(guardPosture) <= BaseThreshold(guardPosture)
        BY DEF BaseThreshold
      <3>2. Threshold(guardPosture, callerRole, i)
              <= Threshold(guardPosture, callerRole, profile)
        BY <2>2, <3>1, ThresholdFollows DEF ContextOK
      <3> QED
        BY <3>2, ThresholdIsInt, DecisionFollows DEF ContextOK, DecisionOn
    <2> QED
      BY <2>1, <2>2
  <1> QED
    BY <1>1, ContextAlways, PTL

-----------------------------------------------------------------------------
(***************************************************************************)
(* What the early returns of _validate_tool_call hide.                     *)
(***************************************************************************)
LEMMA OnlyPathToolsHavePaths ==
    ASSUME NEW c \in Call, c.where # "none"
    PROVE  c.tool \in PathTool
  <1>1. \A t, w : c \in CallsOf(t, w) => c.tool = t /\ c.where = w
    BY DEF CallsOf
  <1>2. \/ \E t \in PathTool, w \in Where \ {"none"} : c \in CallsOf(t, w)
        \/ \E t \in Tool \ PathTool : c \in CallsOf(t, "none")
    BY DEF Call
  <1> QED
    BY <1>1, <1>2

LEMMA LaterVetoMasked ==
    ASSUME NEW c \in Call, c.where # "system", "veto" \in Refusals(c),
           DecisionOn(c) # "veto"
    PROVE  "indicator" \in c.text /\ DecisionOn(c) = "confirm"
  <1> DEFINE verdict == ToolVerdict(c, guardPosture, callerRole, profile)
             later == {ScriptVerdict(c), ParamVerdict(c),
                       ViewerVerdict(c, callerRole), ProtectedVerdict(c)}
  <1>1. RawVerdict(c) # "veto" /\ verdict # "veto"
    BY DEF DecisionOn, Decide
  <1>2. PathVerdict(c) # "veto" /\ FileVerdict(c) # "veto"
    BY <1>1 DEF ToolVerdict
  <1>3. "veto" \in later
    BY <1>1, <1>2 DEF Refusals
  <1>4. ContentVerdict(c) = "confirm" /\ verdict = "confirm"
    BY <1>1, <1>2, <1>3 DEF ToolVerdict
  <1>5. c.where # "none" /\ "indicator" \in c.text
    BY <1>4 DEF ContentVerdict
  <1>6. NeedsCapability(c.tool)
    BY <1>5, OnlyPathToolsHavePaths DEF PathTool, NeedsCapability, Readonly
  <1> QED
    BY <1>4, <1>5, <1>6 DEF DecisionOn, Decide

\* A refusal of any check stands, unless one of the two early returns comes
\* before it (_validate_tool_call), whatever offsets the roles have.
THEOREM OnlyEarlyReturnsMaskAlways == ContextSpec => []OnlyEarlyReturnsMask
  <1>1. OnlyEarlyReturnsMask
    BY LaterVetoMasked DEF OnlyEarlyReturnsMask
  <1> QED
    BY <1>1, PTL

-----------------------------------------------------------------------------
(***************************************************************************)
(* What nobody is asked about.                                             *)
(***************************************************************************)
LEMMA WritesHavePaths ==
    ASSUME NEW c \in Call, c.tool = "write_file"
    PROVE  c.where # "none"
  <1>1. \A t, w : c \in CallsOf(t, w) => c.tool = t /\ c.where = w
    BY DEF CallsOf
  <1>2. c \in UNION {CallsOf(t, w) : t \in PathTool, w \in Where \ {"none"}}
    BY <1>1 DEF Call, PathTool
  <1> QED
    BY <1>1, <1>2

\* Only the two tools that write files are in the tier "auto" and not
\* readonly; they run on an approval alone, and only for those who may write.
LEMMA UnaskedIsApprovedWrite ==
    ASSUME NEW c \in Call, NeedsCapability(c.tool), DecisionOn(c) = "run"
    PROVE  /\ callerRole # "viewer" /\ c.tool = "write_file"
           /\ ToolVerdict(c, guardPosture, callerRole, profile) = "allow"
  <1>1. /\ ToolVerdict(c, guardPosture, callerRole, profile) \notin {"veto", "confirm"}
        /\ ExecTier(c.tool) \notin {"veto", "confirm"} /\ callerRole # "viewer"
    BY DEF DecisionOn, Decide
  <1>2. c.tool = "write_file"
    BY <1>1 DEF ExecTier, NeedsCapability, Readonly
  <1>3. ToolVerdict(c, guardPosture, callerRole, profile) \in {"veto", "confirm", "allow"}
    BY DEF ToolVerdict, SystemVerdict, FileVerdict
  <1> QED
    BY <1>1, <1>2, <1>3

\* What changes the system without a confirmation is a harmless write, or one
\* below /var or /usr under a threshold above 7 (_validate_tool_call), in
\* every posture, for every profile and whatever offsets the roles have.
THEOREM UnaskedWritesAreHarmlessAlways == ContextSpec => []UnaskedWritesAreHarmless
  <1>1. ContextOK => UnaskedWritesAreHarmless
    <2> SUFFICES ASSUME ContextOK, NEW c \in Call,
                        NeedsCapability(c.tool), DecisionOn(c) = "run"
                 PROVE  \/ /\ c.where \in {"tmp", "agent"} \/ Risk[c.category] <= 3
                           /\ "indicator" \notin c.text
                           /\ c.where # "protected"
                        \/ /\ c.where = "system"
                           /\ Threshold(guardPosture, callerRole, profile) > 7
      BY UnaskedIsApprovedWrite DEF UnaskedWritesAreHarmless
    <2>1. ToolVerdict(c, guardPosture, callerRole, profile) = "allow" /\ c.where # "none"
      BY UnaskedIsApprovedWrite, WritesHavePaths
    <2>2. CASE c.where = "system"
      <3>1. SystemVerdict(c, Threshold(guardPosture, callerRole, profile)) = "allow"
        BY <2>1, <2>2 DEF ToolVerdict
      <3>2. Threshold(guardPosture, callerRole, profile) \in Int
        BY ThresholdIsInt DEF ContextOK
      <3> QED
        BY <2>2, <3>1, <3>2 DEF SystemVerdict
    <2>3. CASE c.where # "system"
      <3>1. /\ ContentVerdict(c) # "confirm" /\ ProtectedVerdict(c) # "veto"
            /\ FileVerdict(c) = "allow"
        BY <2>1, <2>3 DEF ToolVerdict
      <3>2. c.where \in {"tmp", "agent"} \/ Risk[c.category] <= 3
        BY <2>1, <3>1 DEF FileVerdict
      <3> QED
        BY <2>1, <3>1, <3>2 DEF ContentVerdict, ProtectedVerdict
    <2> QED
      BY <2>2, <2>3
  <1> QED
    BY <1>1, ContextAlways, PTL
=============================================================================
