----------------------------- MODULE Perception -----------------------------
(***************************************************************************)
(* Perception.build (agent/perception.py) and what it feeds back: every    *)
(* perception reads the last events of the audit log, which hold what      *)
(* users have typed, has them inspected by ToolOutputGuard like any other  *)
(* outside data, and writes events of its own.  A blocked source counts a  *)
(* veto for the posture of everyone.                                       *)
(*                                                                         *)
(* Handlers run one at a time and none gives the event loop up before its  *)
(* perception is over, but every event they write may fail to be written,  *)
(* the day may end and the process may die in between: one action per      *)
(* event.                                                                  *)
(***************************************************************************)
EXTENDS OutputGuard

CONSTANTS
    Inputs,     \* what users type, as the log shows it (see Receive)
    MaxFailed   \* bound of the failures since the newest tainted line

ASSUME InputsAssumption == Inputs \subseteq Text
ASSUME MaxFailedAssumption == MaxFailed \in Nat

VARIABLES
    mode,          \* ipi_output_mode
    age,           \* age of the newest tainted line that ends: events since
    tail,          \* the last line of the day's file
    req,           \* the request perceived now, or the last one
    blocks,        \* history: perceptions blocked by the log, and
    failed,        \*   failures, since the newest tainted line
    vetoCount,     \* _veto_count of the posture engine, which counts to two
    posture

log == <<age, tail, failed>>
engine == <<vetoCount, posture>>
vars == <<mode, log, req, blocks, engine>>

\* Seeded fault: only the last event is read.
LimitOne == 1

\* _load_recent_audit(limit=10): the events count, whatever their type.
Limit == 10

\* n events later; an event that is not read any more stays so.
Later(n, m) == IF n + m < Limit THEN n + m ELSE Limit

\* Lines without an end: half an event, or a whole one, which is read as
\* long as nothing is appended to it.
Unended == {"torn", "clean", "tainted"}

\* The stages of build, and those of the handler after it.
After == [system_snapshot |-> "audit_log", audit_log |-> "io_stats",
          io_stats |-> "config_drift", config_drift |-> "perceive"]

Stage == DOMAIN After \cup {"idle", "perceive", "close"}

\* What keeps a request's own text from the guard: its event was glued to a
\* line without an end, the day ended before the log was read, or the log
\* could not be read.
Gap == {"glued", "midnight", "unread"}

Init ==
    /\ mode \in {"block", "sanitize"}
    /\ age = Limit
    /\ tail = "ended"
    /\ req = [kind |-> "none", at |-> "idle", text |-> Plain({}),
              blocked |-> FALSE, gaps |-> {}, outcome |-> "none"]
    /\ blocks = 0
    /\ failed = 0
    /\ vetoCount = 0
    /\ posture = "balanced"

Tainted(text) == Verdict(text, mode) = "block"

-----------------------------------------------------------------------------
(***************************************************************************)
(* write_event.  An event appended to a line without an end spoils both;   *)
(* no line of a day that holds half a character is ever read.  A failing   *)
(* append leaves nothing, half a line, the line without its end, or half a *)
(* character.                                                              *)
(***************************************************************************)
Remains(tainted) ==
    CASE tail = "ended" -> {"ended", "torn", "undecodable",
                            IF tainted THEN "tainted" ELSE "clean"}
      [] tail \in Unended -> {tail, "torn", "undecodable"}
      [] OTHER -> {tail}

\* A tainted line that can be read begins a new count.
Taints(tainted, ok) == tainted /\ tail = "ended" /\ (ok \/ tail' = "tainted")

Written(tainted) ==
    /\ tail' = IF tail \in Unended THEN "ended" ELSE tail
    /\ age' = IF tail # "ended" THEN age ELSE IF tainted THEN 0 ELSE Later(age, 1)
    /\ failed' = IF Taints(tainted, TRUE) THEN 0 ELSE failed

NotWritten(tainted) ==
    /\ failed < MaxFailed
    /\ tail' \in Remains(tainted)
    /\ age' = IF tail' = "undecodable" THEN Limit ELSE age
    /\ failed' = IF Taints(tainted, FALSE) THEN 1 ELSE failed + 1

WriteEvent(tainted, ok) == IF ok THEN Written(tainted) ELSE NotWritten(tainted)

\* An event with a text; blocks is counted anew with a tainted one.
AppendText(text, ok) ==
    /\ WriteEvent(Tainted(text), ok)
    /\ blocks' = IF Taints(Tainted(text), ok) THEN 0 ELSE blocks

\* ToolOutputGuard._record calls on_veto when it blocks a source.
CountVetoes(hostile) ==
    /\ vetoCount' = IF hostile /\ vetoCount < 2 THEN vetoCount + 1 ELSE vetoCount
    /\ posture' = IF hostile /\ vetoCount' = 2 THEN "restrictive" ELSE posture

\* The handler is over.
Over(outcome) == req' = [req EXCEPT !.at = "idle", !.outcome = outcome]

-----------------------------------------------------------------------------
(***************************************************************************)
(* chat and stream record the text, of which the guard will see the first  *)
(* 120 characters after redaction; when that fails, the request does.      *)
(***************************************************************************)
Receive(kind, text) ==
    /\ req.at = "idle"
    /\ \E ok \in BOOLEAN :
          /\ AppendText(text, ok)
          /\ req' = [kind |-> kind, text |-> text, blocked |-> FALSE,
                     at |-> IF ok THEN "system_snapshot" ELSE "idle",
                     gaps |-> IF tail = "ended" THEN {} ELSE {"glued"},
                     outcome |-> IF ok THEN "none" ELSE "error"]
    /\ UNCHANGED <<mode, engine>>

\* get_context, on a WebSocket or over HTTP, records nothing.
Context ==
    /\ req.at = "idle"
    /\ req' = [kind |-> "context", at |-> "system_snapshot", text |-> Plain({}),
               blocked |-> FALSE, gaps |-> {}, outcome |-> "none"]
    /\ UNCHANGED <<mode, log, blocks, engine>>

\* T0-U rejects the input, and the chain is closed.
Reject ==
    /\ req.at = "system_snapshot"
    /\ req.kind # "context"
    /\ \E ok \in BOOLEAN :
          WriteEvent(FALSE, ok) /\ Over(IF ok THEN "rejected" ELSE "error")
    /\ UNCHANGED <<mode, blocks, engine>>

\* sensor.snapshot, the only sensor that is not called in a try, raises.
SensorFails ==
    /\ req.at = "system_snapshot"
    /\ Over("error")
    /\ UNCHANGED <<mode, log, blocks, engine>>

\* Seeded fault: the mode is not looked at.
HostileAlways == BOOLEAN

\* Only a guard that may block does.
Hostile == IF mode = "block" THEN BOOLEAN ELSE {FALSE}

\* Seeded fault: an inspection that blocks nothing writes no event.
InspectSilent(source) ==
    /\ req.at = source
    /\ \E hostile \in Hostile, ok \in BOOLEAN :
          /\ IF hostile THEN WriteEvent(FALSE, ok) ELSE UNCHANGED log
          /\ CountVetoes(hostile)
          /\ req' = [req EXCEPT !.at = After[source], !.blocked = @ \/ hostile]
    /\ UNCHANGED <<mode, blocks>>

\* inspect_object, for a source other than the log; _record lets nothing of a
\* failing audit_hook through.
Inspect(source) ==
    /\ req.at = source
    /\ \E hostile \in Hostile, ok \in BOOLEAN :
          /\ WriteEvent(FALSE, ok)
          /\ CountVetoes(hostile)
          /\ req' = [req EXCEPT !.at = After[source], !.blocked = @ \/ hostile]
    /\ UNCHANGED <<mode, blocks>>

\* What is read of the log holds a tainted event.
LogBlocks == tail = "tainted" \/ Later(age, IF tail = "clean" THEN 1 ELSE 0) < Limit

\* _load_recent_audit and the inspection of what it returns: nothing, when
\* the file cannot be read or decoded.
InspectLog ==
    /\ req.at = "audit_log"
    /\ \E raises, ok \in BOOLEAN :
          LET unread == raises \/ tail = "undecodable"
              hostile == ~unread /\ LogBlocks
          IN  /\ WriteEvent(FALSE, ok)
              /\ CountVetoes(hostile)
              /\ blocks' = IF hostile THEN blocks + 1 ELSE blocks
              /\ req' = [req EXCEPT !.at = After["audit_log"],
                                    !.blocked = @ \/ hostile,
                                    !.gaps = IF unread THEN @ \cup {"unread"} ELSE @]
    /\ UNCHANGED mode

\* trail.perceive, which context requests do not call; chat closes the chain
\* of a blocked request.
Perceive ==
    /\ req.at = "perceive"
    /\ IF req.kind = "context"
       THEN UNCHANGED log /\ Over(IF req.blocked THEN "blocked" ELSE "perceived")
       ELSE \E ok \in BOOLEAN :
               /\ WriteEvent(FALSE, ok)
               /\ IF ~ok THEN Over("error")
                  ELSE IF ~req.blocked THEN Over("perceived")
                  ELSE IF req.kind = "stream" THEN Over("blocked")
                  ELSE req' = [req EXCEPT !.at = "close"]
    /\ UNCHANGED <<mode, blocks, engine>>

Close ==
    /\ req.at = "close"
    /\ \E ok \in BOOLEAN :
          WriteEvent(FALSE, ok) /\ Over(IF ok THEN "blocked" ELSE "error")
    /\ UNCHANGED <<mode, blocks, engine>>

-----------------------------------------------------------------------------
\* Any other event: the later stages of requests, MCP, confirmations.  The
\* commands of executed tools and MCP calls hold texts that are read, too.
OtherEvent(text) ==
    /\ req.at = "idle"
    /\ \E ok \in BOOLEAN : AppendText(text, ok)
    /\ UNCHANGED <<mode, req, engine>>

\* Only the file of the day is read, and a new one is begun.
Midnight ==
    /\ age' = Limit
    /\ tail' = "ended"
    /\ blocks' = 0
    /\ failed' = 0
    /\ req' = IF req.at \in {"system_snapshot", "audit_log"}
              THEN [req EXCEPT !.gaps = @ \cup {"midnight"}]
              ELSE req
    /\ UNCHANGED <<mode, engine>>

\* The posture engine forgets, between two handlers.
Relax ==
    /\ req.at = "idle"
    /\ \/ vetoCount > 0 /\ vetoCount' = vetoCount - 1 /\ UNCHANGED posture
       \/ vetoCount = 0 /\ posture' = "balanced" /\ UNCHANGED vetoCount
    /\ UNCHANGED <<mode, log, req, blocks>>

\* The process dies and comes back; a perception that it cuts short writes
\* fewer events, which is a failure as well.
Restart ==
    /\ vetoCount' = 0
    /\ posture' = "balanced"
    /\ IF req.at = "idle"
       THEN UNCHANGED <<req, failed>>
       ELSE failed < MaxFailed /\ failed' = failed + 1 /\ Over("died")
    /\ UNCHANGED <<mode, age, tail, blocks>>

Next ==
    \/ \E text \in Inputs :
          Receive("chat", text) \/ Receive("stream", text) \/ OtherEvent(text)
    \/ Context \/ Reject \/ SensorFails
    \/ \E source \in {"system_snapshot", "io_stats", "config_drift"} : Inspect(source)
    \/ InspectLog \/ Perceive \/ Close
    \/ Midnight \/ Relax \/ Restart

Spec == Init /\ [][Next]_vars

-----------------------------------------------------------------------------
(***************************************************************************)
(* Types; a guard that only sanitizes blocks nothing and never locks.      *)
(***************************************************************************)
TypeOK ==
    /\ mode \in {"block", "sanitize"}
    /\ age \in 0..Limit
    /\ tail \in Unended \cup {"ended", "undecodable"}
    /\ req \in [kind : {"none", "chat", "stream", "context"}, at : Stage,
                text : Text, blocked : BOOLEAN, gaps : SUBSET Gap,
                outcome : {"none", "rejected", "blocked", "perceived", "error",
                           "died"}]
    /\ blocks \in Nat
    /\ failed \in 0..MaxFailed
    /\ vetoCount \in 0..2
    /\ posture \in {"balanced", "restrictive"}
    /\ mode = "sanitize" =>
          /\ ~req.blocked /\ age = Limit /\ tail # "tainted"
          /\ vetoCount = 0 /\ posture = "balanced"

(***************************************************************************)
(* A tainted text blocks at most three perceptions of whatever users, its  *)
(* own included and although it may have been rejected, and one more for   *)
(* every two events that could not be written or perceptions cut short:    *)
(* the events of the perceptions themselves push it out of the log's tail, *)
(* and a lost event spoils no more than the next one.  (Two blocks are     *)
(* enough to make the posture restrictive.)                                *)
(***************************************************************************)
TaintFades == 2 * blocks <= 6 + failed

(***************************************************************************)
(* No input of which the log shows something that the guard would block is *)
(* reasoned about, unless its own event was spoiled, the day ended or the  *)
(* log could not be read before it was inspected: whatever else fails, its *)
(* own event is among those that are read.                                 *)
(***************************************************************************)
TaintedInputIsStopped ==
    req.kind \in {"chat", "stream"} /\ req.outcome = "perceived" /\ req.gaps = {} =>
        ~Tainted(req.text)

(***************************************************************************)
(* Encoding signals or hiding characters never gets a text past the guard  *)
(* that would not get past it in plain view: the two points that decoding  *)
(* adds make up for a dangerous payload that stays alone in plain view.    *)
(***************************************************************************)
DisguiseNeverHelps ==
    \A d \in Disguises(req.text.plain) :
        Severity(Verdict(d, mode)) >= Severity(Verdict(Plain(req.text.plain), mode))

=============================================================================
