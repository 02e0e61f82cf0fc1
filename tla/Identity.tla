------------------------------ MODULE Identity ------------------------------
(***************************************************************************)
(* Who may do what: authentication (auth/oidc.go, auth/apitoken.go,        *)
(* auth/local), the guards of the routes (server/router.go, auth/rbac.go,  *)
(* auth/permission.go), the API tokens (service/apitoken.go) and the       *)
(* sign-up of local accounts (handler/auth_local.go).  Requests are        *)
(* concurrent: a token may be minted, expire or be deleted between the     *)
(* steps of another request.                                               *)
(***************************************************************************)
EXTENDS Integers, FiniteSets

CONSTANTS
    Call,          \* authenticated requests
    ApiToken,      \* identifiers of tokens, fresh
    Person,        \* users of the identity provider
    GroupsOf,      \* GroupsOf[p]: the groups in their identity token
    HasMFA,        \* the persons whose identity token has an accepted acr or amr
    Signer,        \* concurrent sign-up requests
    EmailOf,       \* EmailOf[s], normalised
    Nobody         \* no person, no token

ASSUME IdentityAssumption ==
    /\ GroupsOf \in [Person -> SUBSET {"cooker-admins", "cooker-operators", "cooker-approvers",
                                       "cooker-viewers", "others"}]
    /\ HasMFA \subseteq Person
    /\ Nobody \notin Person \cup ApiToken /\ Person \cap ApiToken = {}

RbacRole == {"admin", "operator", "approver", "viewer"}

VARIABLES
    verifier,     \* "none", or "ready" once the provider is discovered
    cooling,      \* nextProviderTry lies in the future
    call,         \* program point of each request
    who,          \* who[c]: the person or the token whose credential it carries
    route,        \* route[c]: the operation asked for
    claims,       \* claims[c]: the roles of its claims
    victim,       \* victim[c]: the token it deletes
    staleCred,    \* the token was expired or deleted when the request arrived
    tok,          \* tok[t]: the row of the token
    touching,     \* tokens with a last_used_at write under way
    account,      \* the accounts: [email, role, by]
    signup,       \* program point of each sign-up
    signRole      \* the role BootstrapRole chose for it

callVars == <<call, who, route, claims, victim, staleCred>>
tokenVars == <<tok, touching>>
accountVars == <<account, signup, signRole>>
oidcVars == <<verifier, cooling>>
identityVars == <<oidcVars, callVars, tokenVars, accountVars>>

-----------------------------------------------------------------------------
(* Roles and permissions *)

DefaultGroupRoleMap(g) ==
    CASE g = "cooker-admins" -> {"admin"}         [] g = "cooker-operators" -> {"operator"}
      [] g = "cooker-approvers" -> {"approver"}   [] g = "cooker-viewers" -> {"viewer"}
      [] OTHER -> {}

\* Without a known group a person is a viewer.
MapGroupsToRolesWith(groups) ==
    LET roles == UNION {DefaultGroupRoleMap(g) : g \in groups}
    IN  IF roles = {} THEN {"viewer"} ELSE roles

Everyone == RbacRole
Writers == {"admin", "operator"}
Admins == {"admin"}

\* defaultPolicy: who may do an action on a resource.
defaultPolicy ==
    [resource : {"pipeline", "run", "app", "environment", "host", "registry", "cluster", "docker",
                 "kubernetes"}, action : {"read"}, roles : {Everyone}]
    \cup [resource : {"pipeline", "app"}, action : {"create", "update", "invoke"}, roles : {Writers}]
    \cup [resource : {"environment", "host"}, action : {"create", "update"}, roles : {Writers}]
    \cup [resource : {"run"}, action : {"update"}, roles : {Writers}]
    \cup [resource : {"pipeline", "app", "environment", "host"}, action : {"delete"}, roles : {Admins}]
    \cup [resource : {"registry", "cluster"}, action : {"create", "delete"}, roles : {Admins}]
    \cup [resource : {"secret"}, action : {"reveal", "update", "delete"}, roles : {Admins}]
    \cup [resource : {"promotion"}, action : {"approve"}, roles : {{"admin", "approver"}}]
    \cup [resource : {"promotion"}, action : {"invoke"}, roles : {Writers}]
    \cup [resource : {"webhook"}, action : {"update"}, roles : {Admins}]

\* An undeclared pair is denied to everyone.
Permission(roles, resource, action) ==
    \E p \in defaultPolicy : p.resource = resource /\ p.action = action /\ roles \cap p.roles # {}

\* A route: its guards in registerRoutes, and the permission it stands for.
Rt(resource, action, guard, mfa, checked) ==
    [resource |-> resource, action |-> action, guard |-> guard, mfa |-> mfa, checked |-> checked]

pipelineRoutes ==
    {Rt("pipeline", "read", Everyone, FALSE, FALSE), Rt("pipeline", "create", Writers, FALSE, FALSE),
     Rt("pipeline", "update", Writers, FALSE, FALSE), Rt("pipeline", "delete", Admins, TRUE, FALSE),
     Rt("pipeline", "invoke", Writers, FALSE, TRUE), Rt("run", "read", Everyone, FALSE, FALSE),
     Rt("run", "update", Writers, FALSE, FALSE)}

\* Parsing a compose file changes nothing: a read.
dockerRoutes ==
    {Rt("docker", "read", Everyone, FALSE, FALSE), Rt("docker", "create", Writers, FALSE, FALSE),
     Rt("docker", "update", Writers, FALSE, FALSE), Rt("docker", "invoke", Writers, FALSE, FALSE),
     Rt("docker", "delete", Admins, FALSE, FALSE)}

\* Pushes and pulls; the configured registries are settings.
registryRoutes == {Rt("registry", "invoke", Writers, FALSE, FALSE)}

\* Scale, restart, apply and delete of a workload.
kubernetesRoutes ==
    {Rt("kubernetes", "read", Writers, FALSE, FALSE), Rt("kubernetes", "update", Writers, FALSE, FALSE),
     Rt("kubernetes", "create", Writers, FALSE, FALSE), Rt("kubernetes", "delete", Admins, FALSE, FALSE)}

cloudRoutes == {Rt("cloud", "read", Everyone, FALSE, FALSE), Rt("cloud", "update", Writers, FALSE, FALSE)}

\* The catalogs, the schedules, the notification targets and the audit trail.
adminRoutes ==
    {Rt("catalog", "read", Everyone, FALSE, FALSE), Rt("admin", "read", Admins, TRUE, FALSE),
     Rt("admin", "create", Admins, TRUE, FALSE), Rt("admin", "update", Admins, TRUE, FALSE),
     Rt("admin", "delete", Admins, TRUE, FALSE)}

licenseRoutes ==
    {Rt("license", "read", Everyone, FALSE, FALSE), Rt("license", "update", Admins, FALSE, FALSE),
     Rt("license", "delete", Admins, FALSE, FALSE)}

environmentRoutes ==
    {Rt("environment", "read", Everyone, FALSE, FALSE), Rt("environment", "create", Writers, FALSE, FALSE),
     Rt("environment", "update", Writers, FALSE, FALSE), Rt("environment", "delete", Admins, TRUE, FALSE),
     Rt("secret", "reveal", Admins, TRUE, TRUE), Rt("secret", "update", Admins, TRUE, FALSE),
     Rt("secret", "delete", Admins, TRUE, FALSE)}

\* Approvals are guarded by CanApprovePromotion in their handlers.
promotionRoutes == {Rt("promotion", "invoke", Writers, FALSE, FALSE),
                    Rt("promotion", "approve", {"admin", "approver"}, FALSE, FALSE)}

appRoutes ==
    {Rt("app", "read", Everyone, FALSE, FALSE), Rt("app", "create", Writers, FALSE, FALSE),
     Rt("app", "update", Writers, FALSE, FALSE), Rt("app", "delete", Admins, TRUE, FALSE),
     Rt("app", "invoke", Writers, FALSE, FALSE), Rt("webhook", "update", Admins, TRUE, TRUE)}

hostRoutes ==
    {Rt("host", "read", Everyone, FALSE, FALSE), Rt("host", "create", Writers, FALSE, FALSE),
     Rt("host", "update", Writers, FALSE, FALSE), Rt("host", "delete", Admins, TRUE, FALSE)}

settingsRoutes ==
    (UNION {{Rt(r, "read", Everyone, FALSE, FALSE), Rt(r, "create", Admins, FALSE, FALSE),
             Rt(r, "delete", Admins, FALSE, FALSE)} : r \in {"registry", "cluster"}})
    \cup {Rt("secret", "test", Admins, TRUE, FALSE)}

\* What every user may send: an issue for the maintainers.
feedbackRoutes == {Rt("feedback", "create", Everyone, FALSE, FALSE)}

\* Tokens are guarded by the service.
tokenRoutes == {Rt("token", "create", Everyone, FALSE, FALSE), Rt("token", "delete", Everyone, FALSE, FALSE)}

Routes == pipelineRoutes \cup dockerRoutes \cup registryRoutes \cup kubernetesRoutes \cup cloudRoutes
          \cup adminRoutes \cup licenseRoutes \cup environmentRoutes \cup promotionRoutes
          \cup appRoutes \cup hostRoutes \cup settingsRoutes \cup feedbackRoutes \cup tokenRoutes

\* RequireRole, RequireMFA, RequirePermission, in the order of the route.
RequireRole(roles, allowed) == roles \cap allowed # {}
RequireMFA(c) == who[c] \in HasMFA
RequirePermission(roles, rt) == Permission(roles, rt.resource, rt.action)

Guarded(c) ==
    /\ RequireRole(claims[c], route[c].guard)
    /\ route[c].mfa => RequireMFA(c)
    /\ route[c].checked => RequirePermission(claims[c], route[c])

-----------------------------------------------------------------------------
NoToken == [state |-> "absent", role |-> "viewer", owner |-> Nobody, ownerRoles |-> {}]

IdentityTypeOK ==
    /\ verifier \in {"none", "ready"} /\ cooling \in BOOLEAN
    /\ call \in [Call -> {"idle", "arrived", "authed", "admitted", "deleting", "done", "refused",
                          "unavailable"}]
    /\ who \in [Call -> Person \cup ApiToken \cup {Nobody}]
    /\ \A c \in Call : claims[c] \subseteq RbacRole
    /\ staleCred \in [Call -> BOOLEAN] /\ victim \in [Call -> ApiToken \cup {Nobody}]
    /\ \A t \in ApiToken : tok[t].state \in {"absent", "live", "expired", "deleted"}
                        /\ tok[t].role \in RbacRole
    /\ touching \subseteq ApiToken
    /\ account \subseteq [email : {EmailOf[s] : s \in Signer}, role : RbacRole, by : Signer]
    /\ signup \in [Signer -> {"idle", "looked", "roled", "created", "conflict", "failed"}]
    /\ signRole \in [Signer -> RbacRole]

IdentityInit ==
    /\ verifier = "none" /\ cooling = FALSE
    /\ call = [c \in Call |-> "idle"] /\ who = [c \in Call |-> Nobody]
    /\ route = [c \in Call |-> CHOOSE rt \in tokenRoutes : TRUE]
    /\ claims = [c \in Call |-> {}] /\ staleCred = [c \in Call |-> FALSE]
    /\ victim = [c \in Call |-> Nobody]
    /\ tok = [t \in ApiToken |-> NoToken] /\ touching = {}
    /\ account = {} /\ signup = [s \in Signer |-> "idle"]
    /\ signRole = [s \in Signer |-> "viewer"]

Arrive(c, w, rt) ==
    /\ call[c] = "idle"
    /\ w \in ApiToken => tok[w].state # "absent"
    /\ call' = [call EXCEPT ![c] = "arrived"]
    /\ who' = [who EXCEPT ![c] = w] /\ route' = [route EXCEPT ![c] = rt]
    /\ staleCred' = [staleCred EXCEPT ![c] = w \in ApiToken /\ tok[w].state # "live"]
    /\ UNCHANGED <<claims, victim, oidcVars, tokenVars, accountVars>>

\* ensureProvider: discovery, unless it failed a moment ago.  The mutex is held
\* for all of it.
ensureProvider(c) ==
    /\ call[c] = "arrived" /\ who[c] \in Person /\ verifier = "none"
    /\ \/ ~cooling /\ verifier' = "ready" /\ UNCHANGED <<cooling, call>>
       \/ /\ cooling' = TRUE /\ call' = [call EXCEPT ![c] = "unavailable"]
          /\ UNCHANGED verifier
    /\ UNCHANGED <<who, route, claims, victim, staleCred, tokenVars, accountVars>>

CooldownEnds ==
    /\ cooling /\ cooling' = FALSE
    /\ UNCHANGED <<verifier, callVars, tokenVars, accountVars>>

\* The handler of the middleware for an identity token: verify, map the groups.
AuthenticateOIDC(c) ==
    /\ call[c] = "arrived" /\ who[c] \in Person /\ verifier = "ready"
    /\ claims' = [claims EXCEPT ![c] = MapGroupsToRolesWith(GroupsOf[who[c]])]
    /\ call' = [call EXCEPT ![c] = "authed"]
    /\ UNCHANGED <<who, route, victim, staleCred, oidcVars, tokenVars, accountVars>>

\* GetByHash finds the row of a token that was not deleted.
GetByHash(t) == tok[t].state \in {"live", "expired"}

\* Authenticate for an API token; the last use is written in the background
\* (maybeTouch) unless one was written a moment ago.
Authenticate(c) ==
    LET t == who[c] IN
    /\ call[c] = "arrived" /\ t \in ApiToken
    /\ IF GetByHash(t) /\ tok[t].state # "expired"
         THEN /\ claims' = [claims EXCEPT ![c] = {tok[t].role}]
              /\ call' = [call EXCEPT ![c] = "authed"]
              /\ touching' \in {touching, touching \cup {t}}
         ELSE call' = [call EXCEPT ![c] = "refused"] /\ UNCHANGED <<claims, touching>>
    /\ UNCHANGED <<who, route, victim, staleCred, tok, oidcVars, accountVars>>

\* TouchLastUsed: an update of the row, if it is still there.
TouchLastUsed(t) ==
    /\ t \in touching
    /\ touching' = touching \ {t}
    /\ UNCHANGED <<tok, oidcVars, callVars, accountVars>>

Guard(c) ==
    /\ call[c] = "authed"
    /\ call' = [call EXCEPT ![c] = IF Guarded(c) THEN "admitted" ELSE "refused"]
    /\ UNCHANGED <<who, route, claims, victim, staleCred, oidcVars, tokenVars, accountVars>>

\* A handler that leaves this module's state alone.
HandleOther(c) ==
    /\ call[c] = "admitted" /\ route[c] \notin tokenRoutes
    /\ call' = [call EXCEPT ![c] = "done"]
    /\ UNCHANGED <<who, route, claims, victim, staleCred, oidcVars, tokenVars, accountVars>>

-----------------------------------------------------------------------------
(* API tokens *)

roleRank(role) == CASE role = "admin" -> 3 [] role \in {"operator", "approver"} -> 2
                    [] role = "viewer" -> 1

\* Mutant: the rank alone decides.
canMintRoleByRank(roles, requested) == \E r \in roles : roleRank(requested) <= roleRank(r)

canMintRole(roles, requested) ==
    \/ "admin" \in roles
    \/ requested = "approver" /\ "approver" \in roles
    \/ requested # "approver" /\ \E r \in roles : roleRank(requested) <= roleRank(r)

callerIsToken(c) == who[c] \in ApiToken

\* CreateAPIToken and the service's Create.
CreateAPIToken(c, t, role) ==
    /\ call[c] = "admitted" /\ route[c].resource = "token" /\ route[c].action = "create"
    /\ tok[t] = NoToken
    /\ IF ~callerIsToken(c) /\ canMintRole(claims[c], role)
         THEN /\ tok' = [tok EXCEPT ![t] = [state |-> "live", role |-> role, owner |-> who[c],
                                            ownerRoles |-> claims[c]]]
              /\ call' = [call EXCEPT ![c] = "done"]
         ELSE call' = [call EXCEPT ![c] = "refused"] /\ UNCHANGED tok
    /\ UNCHANGED <<who, route, claims, victim, staleCred, touching, oidcVars, accountVars>>

\* mfaSatisfied for the deletion of someone else's token
mfaSatisfied(c) == who[c] \in HasMFA

MayDelete(c, t) ==
    /\ ~callerIsToken(c)
    /\ tok[t].owner = who[c] \/ ("admin" \in claims[c] /\ mfaSatisfied(c))

\* DeleteAPIToken: the row is read and the caller checked against it ...
DeleteAPIToken(c, t) ==
    /\ call[c] = "admitted" /\ route[c].resource = "token" /\ route[c].action = "delete"
    /\ who[c] # t
    /\ call' = [call EXCEPT ![c] = IF GetByHash(t) /\ MayDelete(c, t) THEN "deleting" ELSE "refused"]
    /\ victim' = [victim EXCEPT ![c] = t]
    /\ UNCHANGED <<who, route, claims, staleCred, oidcVars, tokenVars, accountVars>>

\* ... and then deleted: of two callers one finds it gone.
DeleteRow(c, t) ==
    /\ call[c] = "deleting" /\ victim[c] = t
    /\ IF GetByHash(t) THEN tok' = [tok EXCEPT ![t].state = "deleted"] ELSE UNCHANGED tok
    /\ call' = [call EXCEPT ![c] = IF GetByHash(t) THEN "done" ELSE "refused"]
    /\ UNCHANGED <<who, route, claims, victim, staleCred, touching, oidcVars, accountVars>>

ExpireToken(t) ==
    /\ tok[t].state = "live"
    /\ tok' = [tok EXCEPT ![t].state = "expired"]
    /\ UNCHANGED <<touching, oidcVars, callVars, accountVars>>

-----------------------------------------------------------------------------
(* Local accounts *)

GetByEmail(e) == \E a \in account : a.email = e

\* Signup: the email is looked up,
SignupLookup(s) ==
    /\ signup[s] = "idle"
    /\ signup' = [signup EXCEPT ![s] = IF GetByEmail(EmailOf[s]) THEN "conflict" ELSE "looked"]
    /\ UNCHANGED <<account, signRole, oidcVars, callVars, tokenVars>>

\* BootstrapRole: admin for the first account; a failed count gives viewer.
BootstrapRole(s) ==
    /\ signup[s] = "looked"
    /\ signup' = [signup EXCEPT ![s] = "roled"]
    /\ \E counted \in BOOLEAN :
          signRole' = [signRole EXCEPT ![s] = IF counted /\ account = {} THEN "admin" ELSE "viewer"]
    /\ UNCHANGED <<account, oidcVars, callVars, tokenVars>>

\* Create of the store: the email is unique, a second account is refused.
CreateUser(s) ==
    /\ signup[s] = "roled"
    /\ IF GetByEmail(EmailOf[s])
         THEN signup' = [signup EXCEPT ![s] = "failed"] /\ UNCHANGED account
         ELSE /\ account' = account \cup {[email |-> EmailOf[s], role |-> signRole[s], by |-> s]}
              /\ signup' = [signup EXCEPT ![s] = "created"]
    /\ UNCHANGED <<signRole, oidcVars, callVars, tokenVars>>

-----------------------------------------------------------------------------
\* The steps of the given requests, by the given people or with a token, for one
\* of the given routes.  An arriving request takes the next free place: the places are interchangeable.
CallNext(calls, people, asked) ==
    \/ CooldownEnds
    \/ /\ \E c \in calls : call[c] = "idle"
       /\ \E w \in people \cup ApiToken, rt \in asked : Arrive(CHOOSE c \in calls : call[c] = "idle", w, rt)
    \/ \E t \in ApiToken : TouchLastUsed(t) \/ ExpireToken(t)
    \/ \E c \in calls :
          \/ ensureProvider(c) \/ AuthenticateOIDC(c) \/ Authenticate(c) \/ Guard(c) \/ HandleOther(c)
          \/ \E t \in ApiToken : DeleteAPIToken(c, t) \/ DeleteRow(c, t)
          \/ call[c] = "admitted" /\ \E t \in ApiToken, role \in RbacRole : CreateAPIToken(c, t, role)

SignupNext == \E s \in Signer : SignupLookup(s) \/ BootstrapRole(s) \/ CreateUser(s)

IdentitySpec ==
    IdentityInit /\ [][CallNext(Call, Person, Routes) \/ SignupNext]_identityVars

-----------------------------------------------------------------------------
Declared(rt) == \E p \in defaultPolicy : p.resource = rt.resource /\ p.action = rt.action

\* The policy matrix of auth/permission.go allows it; where it has no row, only
\* operators and admins change anything, only admins delete.
Allowed(roles, rt) ==
    IF Declared(rt) THEN Permission(roles, rt.resource, rt.action)
                    ELSE /\ rt.action = "read" \/ rt \in feedbackRoutes \/ roles \cap Writers # {}
                         /\ rt.action = "delete" => "admin" \in roles

\* The two descriptions of the rights agree wherever both speak: what the guards
\* of a route admit, the policy matrix allows, for every operation the matrix
\* has a row for.  The docker, registry and kubernetes mutations of router.go
\* have none: there the guards keep viewers and approvers out.
GuardsWithinPolicy ==
    \A c \in Call : call[c] \in {"admitted", "done"} /\ route[c] \notin tokenRoutes =>
        Allowed(claims[c], route[c])

\* A token that had expired or was deleted when a request arrived never
\* authenticates it, whatever background writes are under way.
DeadTokensStayDead == \A c \in Call : staleCred[c] => call[c] \in {"arrived", "refused"}

\* What a role may do, somebody with these roles may do too.
WithinRights(role, roles) == \A p \in defaultPolicy : role \in p.roles => roles \cap p.roles # {}

\* A token is minted by a person, and it has no right of the policy matrix that
\* its owner lacked, with the one exception canMintRole makes: an approver may
\* mint an operator's token, because the two have the same rank.  The approval
\* of promotions and what is the admins' never reach anybody new.
RightsNotMinted ==
    \A t \in ApiToken : tok[t].state # "absent" =>
        /\ tok[t].owner \in Person
        /\ \/ WithinRights(tok[t].role, tok[t].ownerRoles)
           \/ tok[t].role = "operator" /\ "approver" \in tok[t].ownerRoles

\* What the comment of canMintRole says: "a caller may mint a token whose role
\* is one they could exercise themselves".  Violated: an approver, who may
\* start no pipeline and edit no app, mints a token that may.
MintWithinOwnRights ==
    \A t \in ApiToken : tok[t].state # "absent" => WithinRights(tok[t].role, tok[t].ownerRoles)

\* Concurrent sign-ups with one email leave one account.
OneAccountPerEmail == \A a, b \in account : a.email = b.email => a = b

\* Routes admit no role the policy matrix denies; chains of minting and using
\* tokens, expiry and deletion give nobody a right that its origin lacked, an
\* approver's operator token apart; an email has one account.
IdentityInv ==
    IdentityTypeOK /\ GuardsWithinPolicy /\ DeadTokensStayDead /\ RightsNotMinted /\ OneAccountPerEmail

=============================================================================
