----------------------------- MODULE Pipelines -----------------------------
(***************************************************************************)
(* The four ways a request reaches the tools: POST /api/chat               *)
(* (routers/chat.py), the agentic loop it may enter (agent/loop.py), the   *)
(* event stream (routers/stream.py) and MCP (security/tool_gateway.py with *)
(* mcp/registry.py), with the batch rules of Guardrail, the output guard   *)
(* behind the execution gateway and the vetoes they all count.             *)
(*                                                                         *)
(* The event loop runs one handler at a time; holder is the request whose  *)
(* handler runs.  Only a stream gives the loop up before its end, at every *)
(* yield.  What the LLM, the tools and the sensors return is any member of *)
(* a small set, and any step of a handler may raise (a provider that       *)
(* failed twice, an audit append or a save without space).                 *)
(***************************************************************************)
EXTENDS Constraints, Sequences, FiniteSets

CONSTANTS
    Slot,          \* requests in progress
    NoSlot,        \* no handler runs
    Calls,         \* what the LLM and MCP clients may ask for
    Roles,         \* roles of the callers
    Intents,       \* the intent profiles the LLM may answer with
    MaxBatch,      \* bound of the commands of one answer
    MaxIterations  \* MAX_ITERATIONS of the loop

ASSUME CallsAssumption == Calls \subseteq Call /\ Roles \subseteq Role
ASSUME IntentsAssumption == Intents \subseteq Intent
ASSUME BoundsAssumption == MaxBatch \in Nat \ {0} /\ MaxIterations \in Nat \ {0}
ASSUME NoSlotAssumption == NoSlot \notin Slot

VARIABLES
    slot,          \* state of each request
    holder,        \* whose handler runs
    posture,       \* posture of the engine
    vetoCount      \* _veto_count, which counts to two here

vars == <<slot, holder, posture, vetoCount>>

\* An answer without an intent_profile amounts to the first; what MCP passes
\* is the second.
Normal == [hint |-> "normal", urgent |-> FALSE, prior |-> {}]
External == [hint |-> "suspicious", urgent |-> FALSE, prior |-> {}]

Free == [kind |-> "none", role |-> "viewer", stage |-> "free", waits |-> FALSE,
         round |-> 0, batch |-> <<>>, intent |-> Normal, next |-> 0, asked |-> 0,
         queued |-> 0, blocked |-> FALSE, vetoes |-> 0, closed |-> 0,
         answer |-> "none"]

\* _call_with_retry and reason: no provider or no JSON means no commands.
Answers == UNION {[1..n -> Calls] : n \in 0..MaxBatch}

Init ==
    /\ slot = [s \in Slot |-> Free]
    /\ holder = NoSlot
    /\ posture = "balanced"
    /\ vetoCount = 0

-----------------------------------------------------------------------------
(***************************************************************************)
(* The posture engine: on_veto, n times; what lets vetoes and postures go  *)
(* again with time (between two handlers, since within one nothing counts  *)
(* a veto before it); the critical alert of the inspection loop.           *)
(***************************************************************************)
CountVetoes(n) ==
    /\ vetoCount' = IF vetoCount + n > 2 THEN 2 ELSE vetoCount + n
    /\ posture' = IF n > 0 /\ vetoCount' = 2 THEN "restrictive" ELSE posture

Relax ==
    /\ holder = NoSlot
    /\ \/ vetoCount > 0 /\ vetoCount' = vetoCount - 1 /\ UNCHANGED posture
       \/ vetoCount = 0 /\ posture' = "balanced" /\ UNCHANGED vetoCount
    /\ UNCHANGED <<slot, holder>>

Alert ==
    /\ holder = NoSlot
    /\ posture' = "restrictive"
    /\ UNCHANGED <<slot, holder, vetoCount>>

engine == <<posture, vetoCount>>

-----------------------------------------------------------------------------
At(s, kind, stage) ==
    /\ holder = s
    /\ slot[s].kind = kind
    /\ slot[s].stage = stage

\* The handler goes on with another stage.
GoOn(s, stage) == slot' = [slot EXCEPT ![s].stage = stage] /\ UNCHANGED holder

\* The handler answers and has written n chain_close events.
Answer(s, answer, n) ==
    /\ slot' = [slot EXCEPT ![s].stage = "answered", ![s].answer = answer,
                            ![s].closed = @ + n]
    /\ UNCHANGED holder

\* The same, after a veto.
AnswerVetoed(s) ==
    /\ slot' = [slot EXCEPT ![s].stage = "answered", ![s].answer = "vetoed",
                            ![s].closed = @ + 1, ![s].vetoes = @ + 1]
    /\ CountVetoes(1)
    /\ UNCHANGED holder

\* Seeded fault: the vetoes are counted, the request goes on.
PerceiveOn(s, clean, closes) ==
    \E n \in 0..4 :
        /\ slot' = [slot EXCEPT ![s].stage = clean, ![s].vetoes = @ + n]
        /\ CountVetoes(n)
        /\ UNCHANGED holder

(***************************************************************************)
(* perception.build inspects four sources, and each blocked one counts a   *)
(* veto; one is enough to end the request.                                 *)
(***************************************************************************)
Perceive(s, clean, closes) ==
    \E n \in 0..4 :
        IF n = 0
        THEN GoOn(s, clean) /\ UNCHANGED engine
        ELSE /\ slot' = [slot EXCEPT ![s].stage = "answered",
                                     ![s].answer = "perception",
                                     ![s].closed = @ + closes,
                                     ![s].vetoes = @ + n]
             /\ CountVetoes(n)
             /\ UNCHANGED holder

\* Judged by the intent profile that came with the batch.
Decision(s, c) == Decide(c, posture, slot[s].role, slot[s].intent)

Decisions(s) == {Decision(s, slot[s].batch[i]) : i \in DOMAIN slot[s].batch}

\* The commands of the batch that need a human.
ToConfirm(s) ==
    Cardinality({i \in DOMAIN slot[s].batch :
                    Decision(s, slot[s].batch[i]) = "confirm"})

\* validate_commands stops at the first veto; one confirmation is enough for
\* the whole batch to wait.
Judge(s, waits) ==
    /\ "veto" \notin Decisions(s)
    /\ slot' = [slot EXCEPT ![s].asked = ToConfirm(s), ![s].waits = waits,
                            ![s].stage = IF ToConfirm(s) > 0 THEN "queue"
                                         ELSE "execute"]
    /\ holder' = IF waits THEN NoSlot ELSE s
    /\ UNCHANGED engine

Vetoed(s) == "veto" \in Decisions(s) /\ AnswerVetoed(s)

\* PendingStore.add for what needs a human; the rest of the batch is dropped.
Queue(s) ==
    /\ slot' = [slot EXCEPT ![s].queued = slot[s].asked,
                            ![s].stage = "answered",
                            ![s].answer = "confirm", ![s].closed = @ + 1]
    /\ UNCHANGED <<holder, engine>>

\* Seeded fault: a blocked output is remembered, the batch goes on.
ExecuteOn(s, n, stage) ==
    /\ slot[s].next < Len(slot[s].batch)
    /\ slot' = [slot EXCEPT ![s].next = @ + 1,
                            ![s].blocked = slot[s].blocked \/ n > 0,
                            ![s].vetoes = @ + n]
    /\ CountVetoes(n)
    /\ UNCHANGED holder

\* Seeded fault: the batch is left one command too late.
ExecuteBeyond(s, n, stage) ==
    /\ slot[s].next <= Len(slot[s].batch)
    /\ slot' = [slot EXCEPT ![s].next = @ + 1, ![s].blocked = n > 0,
                            ![s].vetoes = @ + n,
                            ![s].stage = IF n > 0 THEN stage ELSE @]
    /\ CountVetoes(n)
    /\ UNCHANGED holder

(***************************************************************************)
(* execute_tool and the inspection of its two outputs: n of them blocked.  *)
(* A call the gateway denies has an output without signals.                *)
(***************************************************************************)
Execute(s, n, stage) ==
    /\ slot[s].next < Len(slot[s].batch)
    /\ slot' = [slot EXCEPT ![s].next = @ + 1, ![s].blocked = n > 0,
                            ![s].vetoes = @ + n,
                            ![s].stage = IF n > 0 THEN stage ELSE @]
    /\ CountVetoes(n)
    /\ UNCHANGED holder

AllDone(s) == slot[s].next = Len(slot[s].batch)

-----------------------------------------------------------------------------
(***************************************************************************)
(* chat                                                                    *)
(***************************************************************************)
\* A request arrives; validate_input (T0-U) may reject it.
ChatReceive(s, role) ==
    /\ holder = NoSlot
    /\ slot[s] = Free
    /\ holder' = s
    /\ \/ slot' = [slot EXCEPT ![s].kind = "chat", ![s].role = role,
                               ![s].stage = "perceive"]
       \/ slot' = [slot EXCEPT ![s].kind = "chat", ![s].role = role,
                               ![s].stage = "answered",
                               ![s].answer = "rejected", ![s].closed = 1]
    /\ UNCHANGED engine

ChatPerceive(s) == At(s, "chat", "perceive") /\ Perceive(s, "route", 1)

\* Trigger words or an emergency lead to the loop.
ChatRoute(s) ==
    /\ At(s, "chat", "route")
    /\ \E kind \in {"chat", "loop"} :
          slot' = [slot EXCEPT ![s].kind = kind, ![s].stage = "reason"]
    /\ UNCHANGED <<holder, engine>>

ChatReason(s) ==
    /\ At(s, "chat", "reason")
    /\ \E batch \in Answers, intent \in Intents :
          slot' = [slot EXCEPT ![s].batch = batch, ![s].intent = intent,
                               ![s].stage = "validate"]
    /\ UNCHANGED <<holder, engine>>

ChatValidate(s) ==
    /\ At(s, "chat", "validate")
    /\ Vetoed(s) \/ Judge(s, FALSE)

ChatQueue(s) == At(s, "chat", "queue") /\ Queue(s)

ChatExecute(s) ==
    /\ At(s, "chat", "execute")
    /\ \/ \E n \in 0..2 : Execute(s, n, "finish")
       \/ AllDone(s) /\ GoOn(s, "finish") /\ UNCHANGED engine

ChatFinish(s) ==
    /\ At(s, "chat", "finish")
    /\ Answer(s, IF slot[s].blocked THEN "blocked" ELSE "completed", 1)
    /\ UNCHANGED engine

-----------------------------------------------------------------------------
(***************************************************************************)
(* The agentic loop, within the handler of chat.                           *)
(***************************************************************************)
\* The next round; no commands end the loop.
LoopReason(s) ==
    /\ At(s, "loop", "reason")
    /\ slot[s].round < MaxIterations
    /\ \E batch \in Answers, intent \in Intents :
          slot' = [slot EXCEPT ![s].round = @ + 1, ![s].batch = batch,
                               ![s].intent = intent, ![s].next = 0,
                               ![s].stage = IF batch = <<>> THEN "finish"
                                            ELSE "validate"]
    /\ UNCHANGED <<holder, engine>>

LoopValidate(s) ==
    /\ At(s, "loop", "validate")
    /\ Vetoed(s) \/ Judge(s, FALSE)

LoopQueue(s) == At(s, "loop", "queue") /\ Queue(s)

\* A blocked output ends the loop.
LoopExecute(s) ==
    /\ At(s, "loop", "execute")
    /\ \/ \E n \in 0..2 : Execute(s, n, "blocked")
       \/ AllDone(s) /\ GoOn(s, "observed") /\ UNCHANGED engine

\* Seeded fault: break where the code returns.
LoopBlockedBreak(s) ==
    /\ At(s, "loop", "blocked")
    /\ slot' = [slot EXCEPT ![s].closed = @ + 1, ![s].stage = "finish"]
    /\ UNCHANGED <<holder, engine>>

LoopBlocked(s) ==
    /\ At(s, "loop", "blocked")
    /\ Answer(s, "blocked", 1)
    /\ UNCHANGED engine

\* Seeded fault: the round is not counted against the limit.
LoopObserveForever(s) ==
    /\ At(s, "loop", "observed")
    /\ \/ GoOn(s, "finish")
       \/ /\ slot' = [slot EXCEPT ![s].stage = "reason", ![s].round = 0]
          /\ UNCHANGED holder
    /\ UNCHANGED engine

\* The LLM said done, or the round was the last one, or there is another.
LoopObserve(s) ==
    /\ At(s, "loop", "observed")
    /\ \/ GoOn(s, "finish")
       \/ slot[s].round < MaxIterations /\ GoOn(s, "reason")
    /\ UNCHANGED engine

LoopFinish(s) ==
    /\ At(s, "loop", "finish")
    /\ Answer(s, IF slot[s].round < MaxIterations THEN "completed"
                 ELSE "max_iterations", 1)
    /\ UNCHANGED engine

-----------------------------------------------------------------------------
(***************************************************************************)
(* stream.  Between a yield and Resume other handlers run; the client may  *)
(* go away instead, which ends the generator where it stands.              *)
(***************************************************************************)
StreamReceive(s, role) ==
    /\ holder = NoSlot
    /\ slot[s] = Free
    /\ holder' = s
    /\ \/ slot' = [slot EXCEPT ![s].kind = "stream", ![s].role = role,
                               ![s].stage = "perceive"]
       \/ slot' = [slot EXCEPT ![s].kind = "stream", ![s].role = role,
                               ![s].stage = "answered",
                               ![s].answer = "rejected", ![s].closed = 1]
    /\ UNCHANGED engine

\* A blocked perception leaves the chain open.
StreamPerceive(s) == At(s, "stream", "perceive") /\ Perceive(s, "reason", 0)

Resume(s) ==
    /\ holder = NoSlot
    /\ slot[s].waits
    /\ slot' = [slot EXCEPT ![s].waits = FALSE]
    /\ holder' = s
    /\ UNCHANGED engine

Leave(s) ==
    /\ holder = NoSlot
    /\ slot[s].waits
    /\ slot' = [slot EXCEPT ![s] = Free]
    /\ UNCHANGED <<holder, engine>>

\* A token, the result, or the error of the provider.
StreamReason(s) ==
    /\ At(s, "stream", "reason")
    /\ \/ slot[s].round = 0      \* one token stands for any number
          /\ slot' = [slot EXCEPT ![s].round = 1, ![s].waits = TRUE]
          /\ holder' = NoSlot
       \/ \E batch \in Answers, intent \in Intents :
             /\ slot' = [slot EXCEPT ![s].batch = batch, ![s].intent = intent,
                                     ![s].stage = "validate"]
             /\ UNCHANGED holder
       \/ Answer(s, "error", 0)
    /\ UNCHANGED engine

\* What passes is shown to the client before anything is done with it.
StreamValidate(s) ==
    /\ At(s, "stream", "validate")
    /\ Vetoed(s) \/ Judge(s, TRUE)

StreamQueue(s) == At(s, "stream", "queue") /\ Queue(s)

StreamExecute(s) ==
    /\ At(s, "stream", "execute")
    /\ \/ \E n \in 0..2 : Execute(s, n, "finish")
       \/ AllDone(s) /\ GoOn(s, "finish") /\ UNCHANGED engine

\* The chain stays open.
StreamFinish(s) ==
    /\ At(s, "stream", "finish")
    /\ Answer(s, IF slot[s].blocked THEN "blocked" ELSE "completed", 0)
    /\ UNCHANGED engine

-----------------------------------------------------------------------------
(***************************************************************************)
(* MCP: one call; a write waits for a human whatever its tier.             *)
(***************************************************************************)
McpReceive(s, role) ==
    /\ holder = NoSlot
    /\ slot[s] = Free
    /\ holder' = s
    /\ \E c \in Calls :
          slot' = [slot EXCEPT ![s].kind = "mcp", ![s].role = role,
                               ![s].batch = <<c>>, ![s].intent = External,
                               ![s].stage = "authorize"]
    /\ UNCHANGED engine

McpAuthorize(s) ==
    /\ At(s, "mcp", "authorize")
    /\ \/ Vetoed(s)
       \/ /\ "veto" \notin Decisions(s)
          /\ NeedsCapability(slot[s].batch[1].tool)
          /\ slot' = [slot EXCEPT ![s].asked = 1, ![s].stage = "queue"]
          /\ UNCHANGED <<holder, engine>>
       \/ /\ "veto" \notin Decisions(s)
          /\ ~NeedsCapability(slot[s].batch[1].tool)
          /\ GoOn(s, "execute")
          /\ UNCHANGED engine

McpQueue(s) == At(s, "mcp", "queue") /\ Queue(s)

McpExecute(s) ==
    /\ At(s, "mcp", "execute")
    /\ \/ \E n \in 0..2 : Execute(s, n, "record")
       \/ AllDone(s) /\ GoOn(s, "record") /\ UNCHANGED engine

\* An append that raises in the hook is swallowed.
McpRecord(s) ==
    /\ At(s, "mcp", "record")
    /\ \E n \in 0..1 :
          Answer(s, IF slot[s].blocked THEN "blocked" ELSE "completed", n)
    /\ UNCHANGED engine

-----------------------------------------------------------------------------
\* Any step may raise instead; the client gets an error.
Raise(s) ==
    /\ holder = s
    /\ slot[s].stage # "answered"
    /\ \E n \in 0..slot[s].asked :     \* operations queued by then
          slot' = [slot EXCEPT ![s].queued = n, ![s].stage = "answered",
                               ![s].answer = "raised"]
    /\ UNCHANGED <<holder, engine>>

Return(s) ==
    /\ holder = s
    /\ slot[s].stage = "answered"
    /\ slot' = [slot EXCEPT ![s] = Free]
    /\ holder' = NoSlot
    /\ UNCHANGED engine

Receive(s) ==
    \E role \in Roles :
        ChatReceive(s, role) \/ StreamReceive(s, role) \/ McpReceive(s, role)

Step(s) ==
    \/ ChatPerceive(s) \/ ChatRoute(s) \/ ChatReason(s) \/ ChatValidate(s)
    \/ ChatQueue(s) \/ ChatExecute(s) \/ ChatFinish(s)
    \/ LoopReason(s) \/ LoopValidate(s) \/ LoopQueue(s) \/ LoopExecute(s)
    \/ LoopBlocked(s) \/ LoopObserve(s) \/ LoopFinish(s)
    \/ StreamPerceive(s) \/ StreamReason(s) \/ StreamValidate(s)
    \/ StreamQueue(s) \/ StreamExecute(s) \/ StreamFinish(s)
    \/ McpAuthorize(s) \/ McpQueue(s) \/ McpExecute(s) \/ McpRecord(s)
    \/ Raise(s) \/ Return(s)

Next ==
    \/ Relax \/ Alert
    \/ \E s \in Slot : Receive(s) \/ Step(s) \/ Resume(s) \/ Leave(s)

(***************************************************************************)
(* A running handler runs on; the event loop takes its tasks in the order  *)
(* they became ready, so a stream whose chunk was taken is resumed however *)
(* many other requests there are.                                          *)
(***************************************************************************)
Fairness == \A s \in Slot : WF_vars(Step(s)) /\ SF_vars(Resume(s) \/ Leave(s))

Spec == Init /\ [][Next]_vars /\ Fairness

-----------------------------------------------------------------------------
(***************************************************************************)
(* Every request is of its type, within the bounds of its batch and of the *)
(* loop, and only the holder and suspended streams are in progress.        *)
(***************************************************************************)
TypeOK ==
    /\ posture \in {"balanced", "restrictive"}
    /\ vetoCount \in 0..2
    /\ holder \in Slot \cup {NoSlot}
    /\ \A s \in Slot :
          /\ slot[s].kind \in {"none", "chat", "loop", "stream", "mcp"}
          /\ slot[s].batch \in Answers
          /\ slot[s].intent \in Intents \cup {Normal, External}
          /\ slot[s].next \in 0..Len(slot[s].batch)
          /\ slot[s].queued \in 0..slot[s].asked
          /\ slot[s].round \in 0..MaxIterations
          /\ slot[s].waits <=> holder # s /\ slot[s] # Free

(***************************************************************************)
(* A batch runs together or not at all: once one of its commands has run,  *)
(* every one of them may run unasked, under the posture of this moment     *)
(* too (a stream was suspended since it validated them), and none waits    *)
(* for a human.                                                            *)
(***************************************************************************)
RunsTogether ==
    \A s \in Slot :
        slot[s].next > 0 => Decisions(s) = {"run"} /\ slot[s].queued = 0

(***************************************************************************)
(* After an output that the guard blocked, nothing more of the request     *)
(* runs, is queued or is asked of the LLM, in whatever pipeline.           *)
(***************************************************************************)
BlockStopsRequest ==
    [][\A s \in Slot :
          slot[s].blocked /\ slot'[s] # Free =>
              /\ slot'[s].next = slot[s].next
              /\ slot'[s].queued = slot[s].queued
              /\ slot'[s].round = slot[s].round]_vars

(***************************************************************************)
(* What one request adds to the vetoes: at most four, and more than two    *)
(* only when its perception was blocked; none when its answer says that    *)
(* all went well or that a human is asked.                                 *)
(***************************************************************************)
VetoesPerRequest ==
    \A s \in Slot :
        /\ slot[s].vetoes <= 4
        /\ slot[s].vetoes > 2 => slot[s].answer = "perception"
        /\ slot[s].answer \in {"completed", "max_iterations", "confirm",
                               "rejected"} => slot[s].vetoes = 0
        /\ slot[s].answer = "vetoed" => slot[s].vetoes = 1

(***************************************************************************)
(* The audit chain of a request is closed once: by chat and the loop on    *)
(* every way out that is no exception, by a stream when it is refused or   *)
(* asks a human.                                                           *)
(***************************************************************************)
ChainsClose ==
    \A s \in Slot :
        /\ slot[s].closed <= 1
        /\ slot[s].kind \in {"chat", "loop"} /\ slot[s].stage = "answered" =>
              slot[s].closed = 1 \/ slot[s].answer = "raised"
        /\ slot[s].answer \in {"rejected", "vetoed", "confirm"} =>
              slot[s].closed = 1

(***************************************************************************)
(* Every request ends: the loop is bounded, and a suspended stream is      *)
(* resumed or left.                                                        *)
(***************************************************************************)
EveryRequestEnds == \A s \in Slot : slot[s] # Free ~> slot[s] = Free

=============================================================================
