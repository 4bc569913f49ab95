------------------------------- MODULE MCEdge -------------------------------
(* Instances of the services around the registry.                          *)
EXTENDS EdgeServices

CONSTANTS x1, subjectA, subjectB, default

Call(tool, T, P) == [tool : {tool}, target : T, permanent : P, context : {default}]
ToolCalls == Call("delete_subject", {subjectA, subjectB}, BOOLEAN) \cup Call("delete_config", {subjectA}, {TRUE})

OneInstance == [c \in Callers |-> x1]
Loads == [ops : {{"create", "update", "touch", "delete"}}, tables : {{"users"}, {"apikeys"}}, faults : BOOLEAN]
=============================================================================
