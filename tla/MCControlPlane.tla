---------------------------- MODULE MCControlPlane ----------------------------
(***************************************************************************)
(* Access control with its records, and the apps.  The components share no *)
(* state: a behaviour exercises one of them, chosen in the initial state,  *)
(* and the others stay as they started.                                    *)
(*   rights, tokens, signup  routes, API tokens and accounts               *)
(*   governance, exempt      deploys before the governance gate            *)
(*   licence, audit          licences of two replicas, the audit sinks     *)
(*   rows                    two apps: created, edited and deleted         *)
(*   probes                  edits with the health checker and deploys     *)
(*   releases                a deploy, a webhook's deploy and a rollback   *)
(*   compose                 one Compose project, planned                  *)
(***************************************************************************)
EXTENDS Identity, Governance, Licensing, AuditTrail, AppRows, AppDeploys, ComposePlan, TLC

CONSTANTS
    t1, r1, r2, r3, m1, m2, m3, m4, c1, c2, c3, adm, opr, apv, u1, u2, u3, d1, d2, d3, d4,
    l1, l2, l3, l4, k1, k2, k3, x1, x2

VARIABLE part     \* the component that runs

accessVars == <<identityVars, governanceVars, licenceVars, auditVars>>
appVars == <<appRowsVars, appDeployVars, project>>
MCVars == <<part, accessVars, appVars>>

MCGroups == (adm :> {"cooker-admins", "others"}) @@ (opr :> {"cooker-operators"})
            @@ (apv :> {"cooker-approvers"})
MCEmail == (u1 :> "a") @@ (u2 :> "a") @@ (u3 :> "b")
MCKind == (d1 :> "app") @@ (d2 :> "stage") @@ (d3 :> "app") @@ (d4 :> "stage")
MCSigned == (l1 :> k2) @@ (l2 :> k1) @@ (l3 :> k3) @@ (l4 :> NoKey)
MCPlan == (l1 :> "crew") @@ (l2 :> "custom") @@ (l3 :> "constellation") @@ (l4 :> "constellation")
MCExtra == (l1 :> {}) @@ (l2 :> {"air_gapped"}) @@ (l3 :> {}) @@ (l4 :> {})
MCExpires == (l1 :> 0) @@ (l2 :> 1) @@ (l3 :> 0) @@ (l4 :> 0)
MCRawKeys == <<BadKey, k1, k2>>

MCReleaseKind == (r1 :> "deploy") @@ (r2 :> "webhook") @@ (r3 :> "rollback")

\* Automatic deploys of the branch, a reviewed commit, a compose app.
MCAuto == [kind |-> "dockerfile", commit |-> NoCommit, auto |-> TRUE]
MCReviewed == [kind |-> "dockerfile", commit |-> x1, auto |-> FALSE]
MCCompose == [kind |-> "compose", commit |-> NoCommit, auto |-> TRUE]

\* Two names that differ in case, and one that looks like a suffix.
MCServiceNames == <<"Web", "db", "web", "web-2">>
MCWord(w) == [word |-> w, suffix |-> <<>>]
MCSanitized ==
    [Web |-> MCWord("web"), db |-> MCWord("db"), web |-> MCWord("web")] @@ ("web-2" :> [word |-> "web", suffix |-> <<2>>])

MCPlain ==
    [services |-> {"db"}, built |-> {}, needs |-> {}, condition |-> "service_started", kind |-> "docker-host",
     bindings |-> <<>>, envSet |-> TRUE, asks |-> "nothing"]

\* Any names, with any of them built here or bound.
MCNamings ==
    {[MCPlain EXCEPT !.services = S, !.built = B, !.bindings = [b \in X |-> {}]] :
        S \in SUBSET Service, B \in SUBSET {"Web", "web", "web-2"}, X \in SUBSET {"Web", "db"}}

\* Any dependencies of three services, with at most one of them bound.
MCThree == {"db", "web", "web-2"}
MCNeeds == SUBSET {e \in MCThree \X MCThree : e[1] # e[2]}
MCBindings == {<<>>} \cup {[b \in {x} |-> C] : x \in {"db", "web"}, C \in SUBSET MCThree}
MCDependencies ==
    {[MCPlain EXCEPT !.services = MCThree, !.built = {"web"}, !.needs = n, !.condition = c, !.kind = k, !.bindings = b,
                     !.envSet = v] :
        n \in MCNeeds, c \in Conditions, k \in {"docker-host", "kubernetes"}, b \in MCBindings, v \in BOOLEAN}

\* Any target, and anything a service may ask for.
MCTargeted ==
    {[MCPlain EXCEPT !.services = MCThree, !.kind = k, !.asks = f, !.bindings = b] :
        k \in Kinds, f \in Asks, b \in {<<>>, [x \in {"db"} |-> {"web"}]}}

\* The parts that a behaviour does not exercise start in one fixed way.
MCInit ==
    /\ part \in {"rights", "tokens", "signup", "governance", "exempt", "licence", "audit",
                 "rows", "probes", "releases", "compose"}
    /\ part # "governance" => envName = "prod"
    /\ project \in IF part = "compose" THEN MCNamings \cup MCDependencies \cup MCTargeted ELSE {MCPlain}
    /\ part \in {"rows", "probes"} \/ appStore = "postgres"
    /\ plan \in IF part = "releases" THEN {MCAuto, MCCompose} ELSE {MCAuto}
    /\ head = x1
    /\ AppRowsInit(part = "probes") /\ AppDeploysInit
    /\ IdentityInit /\ GovernanceInit /\ LicensingInit /\ AuditInit

NotRows == UNCHANGED <<part, appDeployVars, project, accessVars>>
NotReleases == UNCHANGED <<part, appRowsVars, project, accessVars>>

AccessNext ==
    /\ UNCHANGED <<part, appVars>>
    /\ \/ /\ part = "rights" /\ CallNext({c1}, Person, Routes)
          /\ UNCHANGED <<governanceVars, licenceVars, auditVars>>
       \/ /\ part = "tokens" /\ CallNext(Call, {adm, opr}, tokenRoutes \cup {Rt("run", "update", Writers, FALSE, FALSE)})
          /\ UNCHANGED <<governanceVars, licenceVars, auditVars>>
       \/ /\ part = "signup" /\ SignupNext
          /\ UNCHANGED <<governanceVars, licenceVars, auditVars>>
       \/ /\ part = "governance" /\ GovernanceNext({d1, d2})
          /\ UNCHANGED <<identityVars, licenceVars, auditVars>>
       \/ /\ part = "exempt" /\ GovernanceNext({d3, d4})
          /\ UNCHANGED <<identityVars, licenceVars, auditVars>>
       \/ /\ part = "licence" /\ LicensingNext
          /\ UNCHANGED <<identityVars, governanceVars, auditVars>>
       \/ /\ part = "audit" /\ AuditNext
          /\ UNCHANGED <<identityVars, governanceVars, licenceVars>>

AppsNext ==
    \/ part = "rows" /\ (CreateNext \/ EditAppNext(AppEdit, Place \cup {NoPlace}, {"unknown"})) /\ NotRows
    \/ part = "probes" /\ (EditAppNext({u1}, {NoPlace}, Verdict) \/ ObserveNext) /\ NotRows
    \/ part = "releases" /\ AppDeploysNext({x2}, {MCReviewed}) /\ NotReleases

MCNext == AccessNext \/ AppsNext

MCSpec == MCInit /\ [][MCNext]_MCVars

\* The goroutine of the health checker runs on.
MCFairSpec == MCSpec /\ WF_MCVars(part = "probes" /\ TickStep /\ NotRows)

=============================================================================
