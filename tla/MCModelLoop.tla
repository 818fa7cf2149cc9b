---------------------------- MODULE MCModelLoop ----------------------------
EXTENDS ModelLoop
MCDisplayName == (<<"p", ":k">> :> <<"N">>)
MCAgentName == <<"a">>
MCLimits == {NoLimit, 4}
MCAddress == <<"S", ",">>
MCNameBytes == [t \in ToolNames |-> IF t = "get_entity" THEN 9 ELSE 2]
=============================================================================
