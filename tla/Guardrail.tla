----------------------------- MODULE Guardrail -----------------------------
(***************************************************************************)
(* The context in which Guardrail.validate_commands decides: the posture   *)
(* that every entry point copies from the posture engine before it         *)
(* validates, and the role and intent profile of the request.  The         *)
(* properties say of every call what Constraints decides in that context.  *)
(* The names differ from those of Pipelines, of which the context is a     *)
(* part: PipelinesProofs extends both.                                     *)
(***************************************************************************)
EXTENDS Constraints

VARIABLES
    guardPosture,  \* Guardrail.posture
    callerRole,    \* role of the request
    profile        \* intent_profile of the LLM's answer

contextVars == <<guardPosture, callerRole, profile>>

ContextInit ==
    /\ guardPosture = "balanced"
    /\ callerRole = "operator"
    /\ profile = [hint |-> "normal", urgent |-> FALSE, prior |-> {}]

\* guardrail.posture = posture_engine.posture
Follow(p) ==
    /\ guardPosture' = p
    /\ UNCHANGED <<callerRole, profile>>

\* A request from chat, stream or the loop, with any profile the LLM returns.
Ask(r, i) ==
    /\ callerRole' = r
    /\ profile' = i
    /\ UNCHANGED guardPosture

\* A request from MCP, whose profile is fixed.
AskMcp(r) ==
    /\ callerRole' = r
    /\ profile' = [hint |-> "suspicious", urgent |-> FALSE, prior |-> {}]
    /\ UNCHANGED guardPosture

ContextNext ==
    \/ \E p \in Posture : Follow(p)
    \/ \E r \in Role, i \in Intent : Ask(r, i)
    \/ \E r \in Role : AskMcp(r)

ContextSpec == ContextInit /\ [][ContextNext]_contextVars

DecisionOn(c) == Decide(c, guardPosture, callerRole, profile)

-----------------------------------------------------------------------------
Level(decision) ==
    CASE decision = "run" -> 0
      [] decision = "confirm" -> 1
      [] decision = "veto" -> 2

(***************************************************************************)
(* A stricter posture or a more suspicious intent never loosens a          *)
(* decision, through all the early returns ("LLM judgement errors only     *)
(* mean one confirmation more").                                           *)
(***************************************************************************)
StricterNeverLoosens ==
    \A c \in Call :
        /\ \A p \in Posture :
              BaseThreshold(p) <= BaseThreshold(guardPosture) =>
                  Level(Decide(c, p, callerRole, profile)) >= Level(DecisionOn(c))
        /\ \A i \in Intent :
              Boost(i) >= Boost(profile) =>
                  Level(Decide(c, guardPosture, callerRole, i)) >= Level(DecisionOn(c))

(***************************************************************************)
(* What changes the system without asking anybody: only creating or        *)
(* appending to a file that the knowledge base takes for harmless, without *)
(* an indicator in its content; and, where role and posture raise the      *)
(* threshold above 7, a file below /var or /usr.  Never for a viewer.      *)
(***************************************************************************)
UnaskedWritesAreHarmless ==
    \A c \in Call :
        NeedsCapability(c.tool) /\ DecisionOn(c) = "run" =>
            /\ callerRole # "viewer"
            /\ c.tool = "write_file"
            /\ \/ /\ c.where \in {"tmp", "agent"} \/ Risk[c.category] <= 3
                  /\ "indicator" \notin c.text
                  /\ c.where # "protected"
               \/ c.where = "system" /\ Threshold(guardPosture, callerRole, profile) > 7

(***************************************************************************)
(* What a check refuses is refused, unless the path lies below /var or     *)
(* /usr or the content has an indicator, which return before the later     *)
(* checks; then a human is asked, or the threshold is above 7.             *)
(***************************************************************************)
Refusals(c) ==
    {PathVerdict(c), FileVerdict(c), ScriptVerdict(c), ParamVerdict(c),
     ViewerVerdict(c, callerRole), ProtectedVerdict(c), RawVerdict(c)}

OnlyEarlyReturnsMask ==
    \A c \in Call :
        "veto" \in Refusals(c) /\ DecisionOn(c) # "veto" =>
            \/ c.where = "system"
            \/ "indicator" \in c.text /\ DecisionOn(c) = "confirm"

=============================================================================
