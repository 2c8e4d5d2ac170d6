---------------------------- MODULE MCPipelines ----------------------------
EXTENDS Pipelines

\* The defaults of ROLE_CONFIRM_OFFSET.
MCOffset == [viewer |-> -999, operator |-> 0, admin |-> 2]

\* A diagnosis, a write below /var whose category and path ask for
\* confirmation, and a diagnosis with a prohibited pattern.
MCCalls ==
    {[tool |-> "diagnose", fits |-> TRUE, where |-> "none",
      category |-> "temp_cache", text |-> {}],
     [tool |-> "write_file", fits |-> TRUE, where |-> "system",
      category |-> "system_log", text |-> {}],
     [tool |-> "diagnose", fits |-> TRUE, where |-> "none",
      category |-> "temp_cache", text |-> {"prohibited"}]}

\* The plain profile, and the one that lowers the threshold most.
MCIntents == {Normal, [hint |-> "escalation", urgent |-> TRUE, prior |-> {"rejected"}]}
=============================================================================
