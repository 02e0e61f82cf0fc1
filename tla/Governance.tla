----------------------------- MODULE Governance -----------------------------
(***************************************************************************)
(* The deploy gate: the middleware on POST /apps/:id/deploy                *)
(* (auth/governance_middleware.go) and the hook the executor runs before a *)
(* deploy stage (governance/executor_hook.go), both over the HTTP client   *)
(* of an external policy service (governance/client.go).  The service is   *)
(* asked anew for every attempt and may change its mind, or be away;       *)
(* meanwhile the environment may be renamed or deleted.                    *)
(***************************************************************************)
EXTENDS Integers

CONSTANTS
    Rollout,          \* deployments that pass the gate
    KindOf,           \* KindOf[d] is "app" or "stage"
    Bootstrapped,     \* deployments of services in BootstrapServices
    Justified,        \* app deployments with X-Break-Glass-Justification
    Anonymous,        \* stages of runs without a recorded actor
    FailOpenEnvs,     \* names of the fail-open environments
    BreakGlass,       \* BreakGlassOption.Enabled
    Delegate,         \* a delegate token is configured
    MaxTries          \* attempts of a stage

ASSUME GovernanceAssumption ==
    /\ KindOf \in [Rollout -> {"app", "stage"}]
    /\ Justified \cup Anonymous \cup Bootstrapped \subseteq Rollout
    /\ BreakGlass \in BOOLEAN /\ Delegate \in BOOLEAN
    /\ MaxTries \in Nat \ {0}

EnvNames == {"prod", "dev"}
Gone == "gone"       \* the environment row was deleted

VARIABLES
    envName,    \* the environment the deployments are linked to: its name, or Gone
    point,      \* program point of each deployment
    env,        \* env[d]: the name the check resolved
    heard,      \* heard[d]: what the policy service answered this attempt
    tries,      \* attempts begun
    written     \* the deployment has changed the cluster

governanceVars == <<envName, point, env, heard, tries, written>>

\* What comes back from POST /authorize.
Answers == {"allow", "deny", "advisory", "refused", "status", "garbage"}

GovernanceTypeOK ==
    /\ envName \in EnvNames \cup {Gone}
    /\ point \in [Rollout -> {"idle", "resolved", "passed", "deployed", "blocked"}]
    /\ env \in [Rollout -> EnvNames \cup {Gone}]
    /\ heard \in [Rollout -> Answers \cup {"nothing"}]
    /\ tries \in [Rollout -> 0..MaxTries]
    /\ written \in [Rollout -> BOOLEAN]

GovernanceInit ==
    /\ envName \in EnvNames
    /\ point = [d \in Rollout |-> "idle"] /\ env = [d \in Rollout |-> Gone]
    /\ heard = [d \in Rollout |-> "nothing"] /\ tries = [d \in Rollout |-> 0]
    /\ written = [d \in Rollout |-> FALSE]

\* UpdateEnvironment and DeleteEnvironment.
RenameEnvironment(n) ==
    /\ envName # Gone /\ envName' = n
    /\ UNCHANGED <<point, env, heard, tries, written>>

-----------------------------------------------------------------------------
\* DelegationEnabled: the hook exists only with a delegate token.
DelegationEnabled == Delegate

\* The hook has nothing to check: no hook, or a run without an actor.
HookSkips(d) == KindOf[d] = "stage" /\ (~DelegationEnabled \/ d \in Anonymous)

\* AppDeployExtractor and lookupEnvName: the name of the environment; a missing
\* environment leaves nothing to gate, a failed read blocks.
Resolve(d) ==
    /\ point[d] = "idle" /\ tries[d] < MaxTries
    /\ tries' = [tries EXCEPT ![d] = @ + 1]
    /\ heard' = [heard EXCEPT ![d] = "nothing"]
    /\ env' = [env EXCEPT ![d] = envName]
    /\ \/ point' = [point EXCEPT ![d] = IF HookSkips(d) \/ envName = Gone THEN "passed" ELSE "resolved"]
       \/ ~HookSkips(d) /\ point' = [point EXCEPT ![d] = "blocked"]
    /\ UNCHANGED <<envName, written>>

\* transportFallback: fail-open environments allow, the others fail closed.
transportFallback(e) == IF e \in FailOpenEnvs THEN "allow" ELSE "unreachable"

\* Authorize and AuthorizeOnBehalf, given the answer.
Authorize(d, a) ==
    CASE d \in Bootstrapped -> "allow"
      [] d \notin Bootstrapped /\ a \in {"refused", "status"} -> transportFallback(env[d])
      [] d \notin Bootstrapped /\ a = "garbage" -> "error"
      [] OTHER -> a

\* RequireGovernanceAllow: an unreachable gate may be passed by break-glass.
RequireGovernanceAllow(d, verdict) ==
    \/ verdict \in {"allow", "advisory"}
    \/ verdict = "unreachable" /\ d \in Justified /\ BreakGlass

\* PipelineDeployHook: no break-glass here.
PipelineDeployHook(d, verdict) == verdict \in {"allow", "advisory"}

\* The gate is asked; a bootstrap service does not ask.
Ask(d, a) ==
    /\ point[d] = "resolved"
    /\ d \in Bootstrapped => a = "allow"
    /\ heard' = [heard EXCEPT ![d] = IF d \in Bootstrapped THEN "nothing" ELSE a]
    /\ LET passes == IF KindOf[d] = "app" THEN RequireGovernanceAllow(d, Authorize(d, a))
                                          ELSE PipelineDeployHook(d, Authorize(d, a))
       IN  point' = [point EXCEPT ![d] = IF passes THEN "passed" ELSE "blocked"]
    /\ UNCHANGED <<envName, env, tries, written>>

\* The deployment itself: it writes, or fails having written or not.
Deploy(d) ==
    /\ point[d] = "passed"
    /\ \E w \in BOOLEAN, ok \in BOOLEAN :
          /\ ok => w
          /\ written' = [written EXCEPT ![d] = w]
          /\ point' = [point EXCEPT ![d] = IF ok THEN "deployed" ELSE "blocked"]
    /\ UNCHANGED <<envName, env, heard, tries>>

\* Mutant: a retry goes straight to the deployment.
RetryPastGate(d) ==
    /\ point[d] = "blocked" /\ KindOf[d] = "stage" /\ tries[d] < MaxTries
    /\ tries' = [tries EXCEPT ![d] = @ + 1]
    /\ point' = [point EXCEPT ![d] = "passed"]
    /\ written' = [written EXCEPT ![d] = FALSE]
    /\ UNCHANGED <<envName, env, heard>>

\* The executor retries a failed stage from the hook on (retry.Do around it).
Retry(d) ==
    /\ point[d] = "blocked" /\ KindOf[d] = "stage" /\ tries[d] < MaxTries
    /\ point' = [point EXCEPT ![d] = "idle"]
    /\ written' = [written EXCEPT ![d] = FALSE]
    /\ UNCHANGED <<envName, env, heard, tries>>

\* The steps of the given deployments.
GovernanceNext(rollouts) ==
    \/ \E n \in EnvNames \cup {Gone} : RenameEnvironment(n)
    \/ \E d \in rollouts : Resolve(d) \/ Deploy(d) \/ Retry(d) \/ \E a \in Answers : Ask(d, a)

GovernanceSpec == GovernanceInit /\ [][GovernanceNext(Rollout)]_governanceVars

-----------------------------------------------------------------------------
\* No attempt of a deployment reaches the cluster against the gate's last word:
\* an enforced denial or a broken answer stops it, and an unreachable gate lets
\* it by only in a fail-open environment or, for an app, by a justified
\* break-glass; however the environment is renamed and whatever earlier
\* attempts heard.
GateBinds ==
    \A d \in Rollout : written[d] \/ point[d] = "passed" =>
        /\ heard[d] \notin {"deny", "garbage"}
        /\ heard[d] \in {"refused", "status"} =>
              env[d] \in FailOpenEnvs \/ (KindOf[d] = "app" /\ BreakGlass /\ d \in Justified)

\* The gate in front of a production deploy binds every attempt.
GovernanceInv == GovernanceTypeOK /\ GateBinds

=============================================================================
