---------------------------- MODULE Constraints ----------------------------
(***************************************************************************)
(* The decision on one tool call: the manifest (agent/tools_manifest.py),  *)
(* the normalisation of its parameters (security/capability_token.py), the *)
(* file knowledge base (security/file_knowledge.py), ConstraintEngine      *)
(* (security/constraints.py) and the body of the loop of                   *)
(* Guardrail.validate_commands (security/guardrail.py).                    *)
(*                                                                         *)
(* A call is described by what those checks tell apart: the kind of tool,  *)
(* whether its parameters fit the schema, where its path lies and which    *)
(* category the knowledge base gives it, and what the texts of its other   *)
(* parameters contain.  Scores that only choose a label are left out.      *)
(***************************************************************************)
EXTENDS Integers

CONSTANT Offset         \* ROLE_CONFIRM_OFFSET, set by the environment

Role == {"viewer", "operator", "admin"}
Posture == {"restrictive", "balanced", "permissive"}

ASSUME OffsetAssumption == Offset \in [Role -> Int]

-----------------------------------------------------------------------------
(***************************************************************************)
(* MANIFEST.  "diagnose": the nine readonly tools; "write_file":           *)
(* create_file and append_file; "destroy": rm and chmod, which have no     *)
(* name the LLM or MCP could call them by.                                 *)
(***************************************************************************)
Tool == {"diagnose", "restart", "clean", "kill", "truncate", "write_file",
         "script", "destroy", "unknown"}

PathTool == {"truncate", "write_file", "script"}

\* Seeded fault: the tier of execute_script is taken from its kind.
TierByKind(tool) == IF tool \in {"diagnose"} \cup PathTool THEN "auto"
                    ELSE IF tool = "destroy" THEN "veto" ELSE "confirm"

ExecTier(tool) ==
    CASE tool \in {"diagnose", "write_file"} -> "auto"
      [] tool \in {"restart", "clean", "kill", "truncate", "script"} -> "confirm"
      [] OTHER -> "veto"

Readonly(tool) == tool = "diagnose"

\* capability_required
NeedsCapability(tool) == ~Readonly(tool) \/ ExecTier(tool) = "confirm"

(***************************************************************************)
(* CATEGORIES: how dangerous it is to touch a file.                        *)
(***************************************************************************)
Risk == [temp_cache      |-> 1, expired_log     |-> 2, package_cache  |-> 2,
         core_dump       |-> 3, user_upload     |-> 4, application_log |-> 4,
         database_log    |-> 7, system_log      |-> 8, config_file    |-> 9,
         database_data   |-> 10, binary_library |-> 10]

Category == DOMAIN Risk

\* Where the resolved path lies: "blocked" by BLOCKED_PATH_PREFIXES;
\* "protected": the disks and homes of DANGEROUS_PATHS; "system": below /var or
\* /usr; "agent": /tmp/kylin-agent/; "none": the tool takes no path.
Where == {"blocked", "protected", "system", "tmp", "agent", "other", "none"}

\* What the texts contain: "indicator": one of WRITE_INDICATORS;
\* "prohibited": a PROHIBITED_RAW pattern; "protected": a DANGEROUS_PATHS
\* prefix; "invalid": a pid, service name or interpreter that is refused.
Trait == {"indicator", "prohibited", "protected", "invalid"}

Traits(tool) ==
    CASE tool = "write_file" -> {"indicator", "prohibited", "protected"}
      [] tool \in {"diagnose", "clean"} -> {"prohibited", "protected"}
      [] tool = "restart" -> {"prohibited", "invalid"}
      [] tool = "script" -> {"prohibited", "invalid"}
      [] tool = "kill" -> {"invalid"}
      [] tool = "truncate" -> {"prohibited"}
      [] OTHER -> {}

\* classify looks at the rules for /tmp first.
Categories(where) == IF where \in {"tmp", "agent", "none"} THEN {"temp_cache"}
                     ELSE Category

CallsOf(tool, where) ==
    [tool : {tool}, fits : BOOLEAN, where : {where},
     category : Categories(where), text : SUBSET Traits(tool)]

Call ==
    (UNION {CallsOf(t, w) : t \in PathTool, w \in Where \ {"none"}})
      \cup (UNION {CallsOf(t, "none") : t \in Tool \ PathTool})

-----------------------------------------------------------------------------
(***************************************************************************)
(* _effective_threshold.  The intent profile is the LLM's view of the      *)
(* request: any risk_hint but "normal" counts, an escalation most.         *)
(***************************************************************************)
Intent == [hint : {"normal", "suspicious", "escalation"}, urgent : BOOLEAN,
           prior : SUBSET {"escalation", "rejected"}]

Boost(intent) ==
    IF intent.hint = "escalation" \/ "escalation" \in intent.prior THEN 4
    ELSE IF "rejected" \in intent.prior THEN 3
    ELSE IF intent.hint # "normal" THEN 2
    ELSE IF intent.urgent THEN 1
    ELSE 0

BaseThreshold(posture) ==
    CASE posture = "restrictive" -> 0
      [] posture = "permissive" -> 7
      [] OTHER -> 5

\* Seeded fault: the boost is added.
ThresholdBoosted(posture, role, intent) ==
    LET t == BaseThreshold(posture) + Offset[role] + Boost(intent)
    IN  IF t < 0 THEN 0 ELSE t

Threshold(posture, role, intent) ==
    LET t == BaseThreshold(posture) + Offset[role] - Boost(intent)
    IN  IF t < 0 THEN 0 ELSE t

-----------------------------------------------------------------------------
(***************************************************************************)
(* The checks of _validate_tool_call, each with its own verdict.  Those    *)
(* for names and flags that no schema of the manifest admits (action,      *)
(* mode, -rf, ...) are not reached by a normalised call.                   *)
(***************************************************************************)
\* _check_file_path
PathVerdict(c) == IF c.where = "blocked" THEN "veto" ELSE "allow"

\* _check_critical_file
FileVerdict(c) ==
    IF c.where \in {"tmp", "agent", "none"} \/ Risk[c.category] <= 3 THEN "allow"
    ELSE IF Risk[c.category] < 9 THEN "confirm"
    ELSE "veto"

\* Seeded fault: a risk of 4.
SystemVerdictLow(c, threshold) ==
    IF c.where = "system" /\ 4 >= threshold THEN "confirm" ELSE "allow"

\* Writing to a system path has risk 7.
SystemVerdict(c, threshold) ==
    IF c.where = "system" /\ 7 >= threshold THEN "confirm" ELSE "allow"

ContentVerdict(c) ==
    IF c.where # "none" /\ "indicator" \in c.text THEN "confirm" ELSE "allow"

\* _check_script_path, and the part of _validate_params about scripts
ScriptVerdict(c) ==
    IF c.tool = "script" /\ (c.where # "agent" \/ "invalid" \in c.text)
    THEN "veto" ELSE "allow"

\* _validate_params: pids and service names
ParamVerdict(c) ==
    IF c.tool \in {"kill", "restart"} /\ "invalid" \in c.text
    THEN "veto" ELSE "allow"

ViewerVerdict(c, role) ==
    IF role = "viewer" /\ ~Readonly(c.tool) THEN "veto" ELSE "allow"

ProtectedVerdict(c) ==
    IF c.where = "protected" \/ "protected" \in c.text THEN "veto" ELSE "allow"

(***************************************************************************)
(* _validate_tool_call: the first check that returns decides.  A path      *)
(* below /var or /usr and a content with an indicator return at once,      *)
(* before the checks of scripts, roles and protected paths; the category   *)
(* of the file counts only if nothing else decided.                        *)
(***************************************************************************)
\* Seeded fault: the category of the file returns at once as well.
ToolVerdictAtOnce(c, posture, role, intent) ==
    IF "veto" \in {PathVerdict(c), FileVerdict(c)} THEN "veto"
    ELSE IF c.where = "system"
         THEN SystemVerdict(c, Threshold(posture, role, intent))
    ELSE IF "confirm" \in {ContentVerdict(c), FileVerdict(c)} THEN "confirm"
    ELSE IF "veto" \in {ScriptVerdict(c), ParamVerdict(c),
                        ViewerVerdict(c, role), ProtectedVerdict(c)}
         THEN "veto"
    ELSE "allow"

ToolVerdict(c, posture, role, intent) ==
    IF "veto" \in {PathVerdict(c), FileVerdict(c)} THEN "veto"
    ELSE IF c.where = "system"
         THEN SystemVerdict(c, Threshold(posture, role, intent))
    ELSE IF ContentVerdict(c) = "confirm" THEN "confirm"
    ELSE IF "veto" \in {ScriptVerdict(c), ParamVerdict(c),
                        ViewerVerdict(c, role), ProtectedVerdict(c)}
         THEN "veto"
    ELSE FileVerdict(c)

\* _validate_raw, asked for what it prohibits only
RawVerdict(c) == IF "prohibited" \in c.text THEN "veto" ELSE "allow"

(***************************************************************************)
(* One round of validate_commands: "veto", "confirm" (waits for a human)   *)
(* or "run".  A call that does not fit the manifest is vetoed; so are rm   *)
(* and chmod, before their tier is looked at.                              *)
(***************************************************************************)
Registered(c) == c.fits /\ c.tool \notin {"destroy", "unknown"}

Decide(c, posture, role, intent) ==
    LET verdict == ToolVerdict(c, posture, role, intent)
    IN  IF \/ ~Registered(c)
           \/ "veto" \in {verdict, RawVerdict(c)}
           \/ ExecTier(c.tool) = "veto"
           \/ role = "viewer" /\ NeedsCapability(c.tool)
        THEN "veto"
        ELSE IF /\ NeedsCapability(c.tool)
                /\ ExecTier(c.tool) = "confirm" \/ verdict = "confirm"
        THEN "confirm"
        ELSE "run"
=============================================================================
