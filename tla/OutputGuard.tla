---------------------------- MODULE OutputGuard ----------------------------
(***************************************************************************)
(* ToolOutputGuard (security/indirect_injection.py): how a text that comes *)
(* from outside is scored and what is done with it.  A text is what its    *)
(* patterns find: the signals in plain view, those of every payload that   *)
(* decodes (base64, hex, escapes; nested payloads down to the depth that   *)
(* is decoded count like any other), and whether it hides characters.      *)
(***************************************************************************)
EXTENDS Naturals, FiniteSets, FiniteSetsExt

\* _PATTERNS
Weight == [instruction_override |-> 4, role_override |-> 4,
           prompt_exfiltration |-> 5, tool_induction |-> 4, concealment |-> 3,
           model_protocol |-> 4, dangerous_payload |-> 2]

Signal == DOMAIN Weight

Text == [plain : SUBSET Signal, encoded : SUBSET SUBSET Signal, hidden : BOOLEAN]

\* _match: a dangerous payload alone is normal in logs.
Match(signals) == IF signals = {"dangerous_payload"} THEN {} ELSE signals

Total(signals) == MapThenSumSet(LAMBDA s : Weight[s], Match(signals))

\* The payloads of which something matches.
Decoded(text) == {p \in text.encoded : Match(p) # {}}

\* Seeded fault: decoding adds nothing of its own.
ScoreDecoded(text) == Total(text.plain) + MapThenSumSet(Total, Decoded(text))

(***************************************************************************)
(* inspect_text: what was encoded, and hidden characters around a match,   *)
(* count two more.  The code caps the score at 10, above all thresholds.   *)
(***************************************************************************)
Score(text) ==
    LET found == Match(text.plain) # {} \/ Decoded(text) # {}
    IN  Total(text.plain)
          + MapThenSumSet(LAMBDA p : Total(p) + 2, Decoded(text))
          + IF text.hidden /\ found THEN 2 ELSE 0

Verdict(text, mode) ==
    IF Score(text) >= 6 THEN IF mode = "block" THEN "block" ELSE "sanitize"
    ELSE IF Score(text) >= 3 THEN "sanitize"
    ELSE "pass"

Severity(verdict) ==
    CASE verdict = "pass" -> 0
      [] verdict = "sanitize" -> 1
      [] verdict = "block" -> 2

\* inspect_object: its strongest leaf decides; leaves do not add up.
Strongest(texts, mode) ==
    LET verdicts == {Verdict(t, mode) : t \in texts}
    IN  IF "block" \in verdicts THEN "block"
        ELSE IF "sanitize" \in verdicts THEN "sanitize"
        ELSE "pass"

Plain(signals) == [plain |-> signals, encoded |-> {}, hidden |-> FALSE]

\* The same signals, some encoded (but not a dangerous payload on its own,
\* which is as normal as in plain view), with hidden characters or without.
Disguises(signals) ==
    {[plain |-> signals \ s, encoded |-> {s}, hidden |-> h] :
        s \in (SUBSET signals) \ {{"dangerous_payload"}}, h \in BOOLEAN}
=============================================================================
