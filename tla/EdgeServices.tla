---------------------------- MODULE EdgeServices ----------------------------
(***************************************************************************)
(* The services around the registry, side by side as in one process of     *)
(* cmd/schema-registry: the audit log with its webhook, the rate limiter,  *)
(* the confirmations of the MCP server, and the Vault store.  They share   *)
(* no state, so that the steps of one are checked while the others rest.   *)
(***************************************************************************)
EXTENDS AuditLog, RateLimiter, MCPConfirmation, VaultStore

VARIABLE service    \* the one that is looked at

vars == <<auditVars, rateVars, mcpVars, vaultVars, service>>

Init ==
  /\ AuditInit /\ RateInit /\ MCPInit /\ VaultInit
  /\ service \in {"audit", "rate", "mcp", "vault"}
  /\ service # "vault" => vload = CHOOSE load \in VaultLoads : TRUE

Next ==
  /\ UNCHANGED service
  /\ \/ service = "audit" /\ AuditNext /\ UNCHANGED <<rateVars, mcpVars, vaultVars>>
     \/ service = "rate" /\ RateNext /\ UNCHANGED <<auditVars, mcpVars, vaultVars>>
     \/ service = "mcp" /\ MCPNext /\ UNCHANGED <<auditVars, rateVars, vaultVars>>
     \/ service = "vault" /\ VaultNext /\ UNCHANGED <<auditVars, rateVars, mcpVars>>

\* A service at rest has no step that is owed.
Spec == Init /\ [][Next]_vars /\ AuditFairness /\ MCPFairness

-----------------------------------------------------------------------------
\* The audit pipeline: its buffers keep their bounds, no event vanishes unreported
\* but at the shutdown, and a Close that did not time out has handed on everything
\* that was logged before it: Log, drainLoop, flushLoop and Close.
AuditSound == AuditTypeOK /\ NothingVanishes /\ CloseHandsOn

\* The rate limiter grants each client exactly its burst and its rate, though the
\* cleanup forgets buckets: CleanupStaleClients against allow.
LimiterExact == RateTypeOK /\ LimitExact

\* A destructive tool call runs only with the token of a dry run of this very
\* operation, and no token lets two calls through: Validate against itself,
\* expiry and gc.
ConfirmedOnce == MCPTypeOK /\ SingleUse /\ ConfirmedAsPreviewed

\* Vault's records, indexes and counters agree, whatever KV call failed or was
\* the last before a restart: the writes of users and API keys in their order.
VaultConsistent == VaultTypeOK /\ IDsFresh /\ IndexLeadsHome /\ TouchIsCurrent /\ IndexComplete

\* What has to happen does: Close returns and both loops end, an event that is
\* buffered leaves the pipeline, and no confirmation token stays for ever.
Progress == LoopsEnd /\ EventSettles /\ TokensGo
=============================================================================
