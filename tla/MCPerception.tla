--------------------------- MODULE MCPerception ---------------------------
EXTENDS Perception

\* Texts that pass, are sanitized and are blocked, in plain view, encoded and
\* with hidden characters.
MCInputs ==
    {Plain(s) : s \in {{}, {"dangerous_payload", "instruction_override"},
                       {"dangerous_payload", "concealment", "prompt_exfiltration"}}}
      \cup {[plain |-> {}, encoded |-> {{"tool_induction"}}, hidden |-> FALSE],
            [plain |-> {"concealment"}, encoded |-> {{"dangerous_payload"}},
             hidden |-> TRUE]}
=============================================================================
