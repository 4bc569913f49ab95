-------------------------- MODULE MCPConfirmation --------------------------
(***************************************************************************)
(* Two-phase confirmations of the MCP server (internal/mcp/confirmation.go *)
(* and the handlers of the tools that ask for them).  A dry run of a       *)
(* destructive call issues a token; the call with the token takes it and   *)
(* then runs the operation in the registry; a collector drops tokens that  *)
(* are used or expired.  The sessions of the clients interleave.           *)
(***************************************************************************)
EXTENDS Integers, FiniteSets, FiniteSetsExt

CONSTANTS Sessions,
          Calls,       \* what the tools are called with: records of the fields below
          TTL,         \* ticks that a token lives
          MaxToken,    \* bound on the tokens ever issued
          NoToken

\* tool, target: the operation; permanent: it destroys; context: the registry context.
ASSUME CallAssumption ==
  /\ \A a \in Calls : a.permanent \in BOOLEAN
  /\ TTL \in Nat /\ MaxToken \in Nat
  /\ NoToken \notin Calls

VARIABLES tokens,     \* token -> its tool and arguments, its age, whether used; or NoToken
          issued,     \* token -> the call of the dry run
          doing,      \* session -> the call it is about to run and its token, or NoToken
          uses        \* token -> the calls it has let through

mcpVars == <<tokens, issued, doing, uses>>

TokenIDs == 1..MaxToken
MCPInit ==
  /\ tokens = [t \in TokenIDs |-> NoToken]
  /\ issued = [t \in TokenIDs |-> NoToken]
  /\ doing = [s \in Sessions |-> NoToken]
  /\ uses = [t \in TokenIDs |-> 0]

\* confirmableTools: whether the call asks for confirmation.
Confirmable(a) == a.permanent

\* computeArgsHash, of the arguments the handlers hand it: not of the context.
ArgsHash(a) == <<a.tool, a.target, a.permanent>>

\* The dry run.  (The dry run of a call that needs no confirmation runs it.)
DryRun(s, a) ==
  /\ doing[s] = NoToken
  /\ IF ~Confirmable(a) THEN doing' = [doing EXCEPT ![s] = [call |-> a, token |-> 0]] /\ UNCHANGED <<tokens, issued>>
     ELSE \E t \in {u \in TokenIDs : issued[u] = NoToken} :
            /\ \A u \in 1..(t - 1) : issued[u] # NoToken
            /\ tokens' = [tokens EXCEPT ![t] = [hash |-> ArgsHash(a), age |-> 0, used |-> FALSE]]
            /\ issued' = [issued EXCEPT ![t] = a]
            /\ UNCHANGED doing
  /\ UNCHANGED uses

\* Mutant: the token is not marked.
ValidateAgain(s, t, a) ==
  /\ doing[s] = NoToken /\ Confirmable(a) /\ issued[t] # NoToken
  /\ IF tokens[t] # NoToken /\ tokens[t].age <= TTL /\ tokens[t].hash = ArgsHash(a)
     THEN doing' = [doing EXCEPT ![s] = [call |-> a, token |-> t]] /\ uses' = [uses EXCEPT ![t] = @ + 1]
     ELSE UNCHANGED <<doing, uses>>
  /\ UNCHANGED <<tokens, issued>>

\* A call with a token: it must be there, not expired, not used, and of this
\* tool with these arguments; it is then used, and the call goes to the registry.
Validate(s, t, a) ==
  LET entry == tokens[t]
      valid == entry # NoToken /\ entry.age <= TTL /\ ~entry.used /\ entry.hash = ArgsHash(a) IN
  /\ doing[s] = NoToken /\ Confirmable(a) /\ issued[t] # NoToken
  /\ tokens' = IF valid THEN [tokens EXCEPT ![t].used = TRUE]
               ELSE IF entry # NoToken /\ entry.age > TTL THEN [tokens EXCEPT ![t] = NoToken]
               ELSE tokens
  /\ doing' = IF valid THEN [doing EXCEPT ![s] = [call |-> a, token |-> t]] ELSE doing
  /\ uses' = IF valid THEN [uses EXCEPT ![t] = @ + 1] ELSE uses
  /\ UNCHANGED issued

\* A call with neither: prompted for confirmation, or run if it needs none.
Plain(s, a) ==
  /\ doing[s] = NoToken /\ ~Confirmable(a)
  /\ doing' = [doing EXCEPT ![s] = [call |-> a, token |-> 0]]
  /\ UNCHANGED <<tokens, issued, uses>>

\* The registry runs the operation; if that fails the token is used all the same.
Run(s) ==
  /\ doing[s] # NoToken
  /\ doing' = [doing EXCEPT ![s] = NoToken]
  /\ UNCHANGED <<tokens, issued, uses>>

\* gc
Collect ==
  /\ tokens' = [t \in TokenIDs |->
       IF tokens[t] # NoToken /\ (tokens[t].used \/ tokens[t].age > TTL) THEN NoToken ELSE tokens[t]]
  /\ UNCHANGED <<issued, doing, uses>>

\* Time passes; beyond TTL + 1 all ages are alike.
MCPTick ==
  /\ tokens' = [t \in TokenIDs |->
       IF tokens[t] # NoToken THEN [tokens[t] EXCEPT !.age = Min({TTL + 1, @ + 1})] ELSE NoToken]
  /\ UNCHANGED <<issued, doing, uses>>

MCPNext ==
  \/ \E s \in Sessions, a \in Calls : DryRun(s, a) \/ Plain(s, a) \/ \E t \in TokenIDs : Validate(s, t, a)
  \/ \E s \in Sessions : Run(s)
  \/ Collect \/ MCPTick

MCPFairness == WF_mcpVars(Collect) /\ WF_mcpVars(MCPTick)

-----------------------------------------------------------------------------
\* Type correctness.
MCPTypeOK ==
  /\ \A t \in TokenIDs : tokens[t] # NoToken => tokens[t].age \in 0..(TTL + 1) /\ issued[t] \in Calls
  /\ \A s \in Sessions : doing[s] # NoToken => doing[s].call \in Calls /\ doing[s].token \in 0..MaxToken

\* A token lets one call through, whichever sessions present it and however its
\* use, its expiry and the collector interleave.
SingleUse == \A t \in TokenIDs : uses[t] <= 1

SameOperation(a, b) == a.tool = b.tool /\ a.target = b.target /\ a.permanent = b.permanent

\* A destructive operation runs only after a dry run that showed this operation
\* on this target.  (The context it runs in may be another one.)
ConfirmedAsPreviewed ==
  \A s \in Sessions : doing[s] # NoToken /\ Confirmable(doing[s].call) =>
    doing[s].token # 0 /\ SameOperation(doing[s].call, issued[doing[s].token])

\* No token stays for ever.
TokensGo == \A t \in TokenIDs : issued[t] # NoToken ~> tokens[t] = NoToken

=============================================================================
