---------------------------- MODULE MCGuardrail ----------------------------
EXTENDS Guardrail

\* The defaults of ROLE_CONFIRM_OFFSET.
MCOffset == [viewer |-> -999, operator |-> 0, admin |-> 2]
=============================================================================
