------------------------- MODULE ControlPlaneProofs -------------------------
(***************************************************************************)
(* Proofs about the parts around the deliveries, each for every set of     *)
(* requests, tokens, people and replicas: the governance gate              *)
(* (Governance), the licence (Licensing), who may do what (Identity), the  *)
(* releases of an app (AppDeploys), the audit trail (AuditTrail), the      *)
(* plans of Compose projects (ComposePlan) and the app rows (AppRows).     *)
(***************************************************************************)
EXTENDS Governance, Licensing, Identity, AppDeploys, AuditTrail, ComposePlan, AppRows,
        SequenceTheorems, FiniteSetTheorems, WellFoundedInduction, TLAPS

-----------------------------------------------------------------------------
(* Governance *)

\* An attempt that has not passed the gate has changed nothing.
GateIInv ==
    /\ GovernanceTypeOK /\ GateBinds
    /\ \A d \in Rollout : point[d] \in {"idle", "resolved"} => ~written[d]

\* What the gate lets by: Authorize, break-glass and the hook together.
LEMMA GateVerdict ==
    ASSUME NEW d \in Rollout, NEW a \in Answers,
           \/ KindOf[d] = "app" /\ RequireGovernanceAllow(d, Authorize(d, a))
           \/ PipelineDeployHook(d, Authorize(d, a)),
           d \notin Bootstrapped
    PROVE  /\ a \notin {"deny", "garbage"}
           /\ a \in {"refused", "status"} =>
                 env[d] \in FailOpenEnvs \/ (KindOf[d] = "app" /\ BreakGlass /\ d \in Justified)
  <1>1. CASE a \in {"refused", "status"}
    <2>1. Authorize(d, a) = transportFallback(env[d])
      BY <1>1 DEF Authorize
    <2> QED  BY <1>1, <2>1 DEF transportFallback, RequireGovernanceAllow, PipelineDeployHook
  <1>2. CASE a = "garbage"
    <2>1. Authorize(d, a) = "error"
      BY <1>2 DEF Authorize
    <2> QED  BY <2>1 DEF RequireGovernanceAllow, PipelineDeployHook
  <1>3. CASE a \notin {"refused", "status", "garbage"}
    <2>1. Authorize(d, a) = a
      BY <1>3 DEF Authorize
    <2> QED  BY <1>3, <2>1 DEF RequireGovernanceAllow, PipelineDeployHook
  <1> QED  BY <1>1, <1>2, <1>3

\* One deployment's step changes its own record only, and keeps its part of
\* the invariant.
LEMMA GateStep ==
    ASSUME GateIInv, NEW d \in Rollout,
           Resolve(d) \/ Deploy(d) \/ Retry(d) \/ \E a \in Answers : Ask(d, a)
    PROVE  GateIInv'
  <1> USE DEF GateIInv, GovernanceTypeOK
  <1>1. CASE Resolve(d)
    <2>1. /\ tries' \in [Rollout -> 0 .. MaxTries]
          /\ point' \in [Rollout -> {"idle", "resolved", "passed", "deployed", "blocked"}]
          /\ heard' \in [Rollout -> Answers \cup {"nothing"}]
          /\ env' \in [Rollout -> EnvNames \cup {Gone}]
          /\ UNCHANGED <<envName, written>>
      BY <1>1, GovernanceAssumption DEF Resolve
    <2>2. /\ heard'[d] = "nothing" /\ ~written'[d]
          /\ \A e \in Rollout \ {d} : /\ heard'[e] = heard[e] /\ point'[e] = point[e]
                                      /\ env'[e] = env[e]
      BY <1>1, <2>1 DEF Resolve
    <2>3. GateBinds'
      BY <2>1, <2>2 DEF GateBinds
    <2> QED  BY <2>1, <2>2, <2>3
  <1>2. CASE Deploy(d)
    <2>1. PICK w \in BOOLEAN, ok \in BOOLEAN :
             /\ written' = [written EXCEPT ![d] = w]
             /\ point' = [point EXCEPT ![d] = IF ok THEN "deployed" ELSE "blocked"]
      BY <1>2 DEF Deploy
    <2>2. point[d] = "passed" /\ UNCHANGED <<envName, env, heard, tries>>
      BY <1>2 DEF Deploy
    <2>3. /\ written' \in [Rollout -> BOOLEAN] /\ point'[d] \in {"deployed", "blocked"}
          /\ point' \in [Rollout -> {"idle", "resolved", "passed", "deployed", "blocked"}]
          /\ \A e \in Rollout \ {d} : written'[e] = written[e] /\ point'[e] = point[e]
      BY <2>1
    <2>4. GateBinds'
      BY <2>2, <2>3 DEF GateBinds
    <2> QED  BY <2>2, <2>3, <2>4
  <1>3. CASE Retry(d)
    <2>1. /\ written' \in [Rollout -> BOOLEAN] /\ point'[d] = "idle" /\ ~written'[d]
          /\ point' \in [Rollout -> {"idle", "resolved", "passed", "deployed", "blocked"}]
          /\ \A e \in Rollout \ {d} : written'[e] = written[e] /\ point'[e] = point[e]
          /\ UNCHANGED <<envName, env, heard, tries>>
      BY <1>3 DEF Retry
    <2>2. GateBinds'
      BY <2>1 DEF GateBinds
    <2> QED  BY <2>1, <2>2
  <1>4. ASSUME NEW a \in Answers, Ask(d, a) PROVE GateIInv'
    <2> DEFINE passes == IF KindOf[d] = "app" THEN RequireGovernanceAllow(d, Authorize(d, a))
                                              ELSE PipelineDeployHook(d, Authorize(d, a))
    <2>1. /\ point[d] = "resolved" /\ UNCHANGED <<envName, env, tries, written>>
          /\ heard' = [heard EXCEPT ![d] = IF d \in Bootstrapped THEN "nothing" ELSE a]
          /\ point' = [point EXCEPT ![d] = IF passes THEN "passed" ELSE "blocked"]
      BY <1>4 DEF Ask
    <2>2. passes /\ d \notin Bootstrapped =>
             /\ a \notin {"deny", "garbage"}
             /\ a \in {"refused", "status"} =>
                   env[d] \in FailOpenEnvs \/ (KindOf[d] = "app" /\ BreakGlass /\ d \in Justified)
      BY GateVerdict
    <2> HIDE DEF passes
    <2>3. /\ heard'[d] = (IF d \in Bootstrapped THEN "nothing" ELSE a)
          /\ point'[d] = (IF passes THEN "passed" ELSE "blocked")
          /\ heard' \in [Rollout -> Answers \cup {"nothing"}]
          /\ point' \in [Rollout -> {"idle", "resolved", "passed", "deployed", "blocked"}]
          /\ \A e \in Rollout \ {d} : heard'[e] = heard[e] /\ point'[e] = point[e]
      BY <2>1
    <2>4. GateBinds'
      <3> SUFFICES ASSUME NEW e \in Rollout, written[e] \/ point'[e] = "passed"
                   PROVE  /\ heard'[e] \notin {"deny", "garbage"}
                          /\ heard'[e] \in {"refused", "status"} =>
                               \/ env[e] \in FailOpenEnvs
                               \/ KindOf[e] = "app" /\ BreakGlass /\ e \in Justified
        BY <2>1 DEF GateBinds
      <3>1. CASE e = d
        <4>1. ~written[d]
          BY <2>1
        <4>2. passes
          BY <2>3, <3>1, <4>1
        <4> QED  BY <2>2, <2>3, <3>1, <4>2
      <3>2. CASE e # d
        BY <2>3, <3>2 DEF GateBinds
      <3> QED  BY <3>1, <3>2
    <2> QED  BY <2>1, <2>3, <2>4
  <1> QED  BY <1>1, <1>2, <1>3, <1>4

\* The gate binds every attempt of every deployment (RequireGovernanceAllow and
\* PipelineDeployHook over Client.Authorize), whatever earlier attempts heard
\* and however the environment is renamed meanwhile.
THEOREM GovernanceInvariant == GovernanceSpec => []GovernanceInv
  <1>1. GovernanceInit => GateIInv
    BY GovernanceAssumption DEF GovernanceInit, GateIInv, GovernanceTypeOK, GateBinds
  <1>2. ASSUME GateIInv, [GovernanceNext(Rollout)]_governanceVars PROVE GateIInv'
    <2>1. CASE UNCHANGED governanceVars
      BY <1>2, <2>1 DEF governanceVars, GateIInv, GovernanceTypeOK, GateBinds
    <2>2. ASSUME NEW n \in EnvNames \cup {Gone}, RenameEnvironment(n) PROVE GateIInv'
      BY <1>2, <2>2 DEF RenameEnvironment, GateIInv, GovernanceTypeOK, GateBinds
    <2> QED  BY <1>2, <2>1, <2>2, GateStep DEF GovernanceNext
  <1>3. GateIInv => GovernanceInv
    BY DEF GateIInv, GovernanceInv
  <1> QED  BY <1>1, <1>2, <1>3, PTL DEF GovernanceSpec

-----------------------------------------------------------------------------
(* Licensing *)

\* The installed token was signed by a configured key; a replica that read the
\* configured token finds it still installed, unless an administrator acted.
LicenceIInv ==
    /\ LicensingInv
    /\ licence # Absent => VerifyAny(licence)
    /\ \A r \in Replica : rep[r] = "read" /\ quiet[r] /\ seen[r] = EnvKey => licence = EnvKey

\* VerifyAny accepts exactly the tokens a configured key signed.
LEMMA VerifyAnySigned ==
    ASSUME NEW t \in LicToken
    PROVE  VerifyAny(t) <=> \E i \in 1 .. Len(RawKeys) : SignedBy[t] = RawKeys[i]
  <1>1. ASSUME NEW k \in PubKeys PROVE Verify(t, k) = "claims" <=> SignedBy[t] = k
    <2>1. k # NoKey
      BY LicensingAssumption DEF PubKeys
    <2>2. CASE SignedBy[t] = NoKey
      <3>1. Verify(t, k) = "malformed"
        BY <2>1, <2>2, Zenon DEF Verify
      <3> QED  BY <2>1, <2>2, <3>1
    <2>3. CASE SignedBy[t] # NoKey /\ SignedBy[t] = k
      BY <2>3 DEF Verify
    <2>4. CASE SignedBy[t] # NoKey /\ SignedBy[t] # k
      <3>1. Verify(t, k) = "bad signature"
        BY <2>4 DEF Verify
      <3> QED  BY <2>4, <3>1
    <2> QED  BY <2>2, <2>3, <2>4
  <1>2. SignedBy[t] # BadKey
    BY LicensingAssumption
  <1> QED  BY <1>1, <1>2 DEF VerifyAny, PubKeys

\* What a reader is served is granted by the installed token, now.
LEMMA ServedIsGranted ==
    ASSUME LicenceIInv, GetLicense
    PROVE  served' \subseteq Grantable /\ EntitledWhenServed'
  <1>1. served' \in {FromLicense(licence), {}} /\ servedDay' = day /\ servedOf' = licence
    BY DEF GetLicense
  <1>2. CASE licence = Absent \/ served' = {}
    BY <1>1, <1>2 DEF FromLicense, EntitledWhenServed
  <1>3. CASE licence # Absent /\ served' # {}
    <2>1. licence \in LicToken /\ VerifyAny(licence)
      BY <1>3 DEF LicenceIInv, LicensingInv, LicensingTypeOK
    <2>2. ~IsExpired(licence) /\ served' = planFeatures(PlanOf[licence]) \cup ExtraOf[licence]
      BY <1>1, <1>3 DEF FromLicense
    <2>3. Trusted(licence) /\ licence # Absent
      BY <1>3, <2>1, VerifyAnySigned DEF Trusted
    <2>4. Expires[licence] = 0 \/ servedDay' < Expires[licence]
      BY <1>1, <2>1, <2>2, LicensingAssumption DEF IsExpired, LicenceIInv, LicensingInv,
         LicensingTypeOK
    <2>5. EntitledWhenServed'
      BY <1>1, <2>2, <2>3, <2>4 DEF EntitledWhenServed, Trusted
    <2>6. planFeatures(PlanOf[licence]) \subseteq Features
      BY DEF planFeatures
    <2>7. ExtraOf[licence] \subseteq UNION {ExtraOf[t] : t \in LicToken}
      BY <2>1
    <2> QED  BY <2>2, <2>5, <2>6, <2>7 DEF Grantable
  <1> QED  BY <1>2, <1>3

\* Boots keep the configured key installed once it is.
LEMMA BootKeeps ==
    ASSUME LicenceIInv, NEW r \in Replica, BootCurrent(r) \/ BootInstall(r) \/ Reboot(r)
    PROVE  LicenceIInv'
  <1> USE DEF LicenceIInv, LicensingInv, LicensingTypeOK
  <1>1. UNCHANGED <<day, served, servedDay, servedOf>>
    BY DEF BootCurrent, BootInstall, Reboot, servedVars
  <1>2. EntitledWhenServed'
    BY <1>1 DEF EntitledWhenServed, Trusted
  <1>3. CASE BootCurrent(r)
    <2>1. PICK found \in {licence, Absent} : seen' = [seen EXCEPT ![r] = found]
      BY <1>3 DEF BootCurrent
    <2>2. /\ seen' \in [Replica -> LicToken \cup {Absent}] /\ rep' = [rep EXCEPT ![r] = "read"]
          /\ UNCHANGED <<licence, quiet>>
      BY <1>3, <2>1 DEF BootCurrent
    <2>3. VerifyAny(licence)' = VerifyAny(licence)
      BY <2>2
    <2>4. EnvKeyWins'
      BY <1>1, <2>2 DEF EnvKeyWins, Trusted
    <2>5. seen'[r] = EnvKey => licence = EnvKey
      BY <2>1, LicensingAssumption
    <2>6. \A q \in Replica : rep'[q] = "read" /\ quiet[q] /\ seen'[q] = EnvKey => licence = EnvKey
      BY <2>1, <2>2, <2>5
    <2> QED  BY <1>1, <1>2, <2>2, <2>4, <2>6
  <1>4. CASE BootInstall(r)
    <2>0. PICK pt \in {"up", "degraded", "refused"} :
             /\ rep' = [rep EXCEPT ![r] = pt]
             /\ licence' = licence \/ (licence' = EnvKey /\ Installable(EnvKey))
             /\ pt = "up" => seen[r] = EnvKey \/ licence' = EnvKey
             /\ pt = "refused" => ~Installable(EnvKey)
      BY <1>4 DEF BootInstall
    <2>1. rep[r] = "read" /\ UNCHANGED <<seen, quiet>>
      BY <1>4 DEF BootInstall
    <2>2. licence' # Absent => VerifyAny(licence')
      BY <2>0 DEF Installable
    <2>3. EnvKeyWins'
      <3>0. ~Installable(EnvKey) => ~Trusted(EnvKey) \/ (Expires[EnvKey] # 0 /\ Expires[EnvKey] <= day)
        BY LicensingAssumption, VerifyAnySigned DEF Installable, IsExpired, Trusted
      <3> SUFFICES ASSUME NEW q \in Replica
                   PROVE  /\ rep'[q] = "up" /\ quiet[q] => licence' = EnvKey
                          /\ rep'[q] = "refused" =>
                                ~Trusted(EnvKey) \/ (Expires[EnvKey] # 0 /\ Expires[EnvKey] <= day)
        BY <1>1, <2>1 DEF EnvKeyWins, Trusted
      <3>1. CASE q = r
        BY <2>0, <2>1, <3>0, <3>1
      <3>2. CASE q # r
        BY <2>0, <3>2 DEF EnvKeyWins
      <3> QED  BY <3>1, <3>2
    <2>4. \A q \in Replica : rep'[q] = "read" /\ quiet[q] /\ seen[q] = EnvKey => licence' = EnvKey
      BY <2>0
    <2>5. VerifyAny(licence)' = VerifyAny(licence')
      BY DEF VerifyAny, Verify, PubKeys
    <2> QED  BY <1>1, <1>2, <2>0, <2>1, <2>2, <2>3, <2>4, <2>5, LicensingAssumption
  <1>5. CASE Reboot(r)
    <2>1. /\ rep' = [rep EXCEPT ![r] = "booting"] /\ quiet' = [quiet EXCEPT ![r] = TRUE]
          /\ UNCHANGED <<licence, seen>>
      BY <1>5 DEF Reboot
    <2>2. EnvKeyWins'
      BY <1>1, <2>1 DEF EnvKeyWins, Trusted
    <2>3. VerifyAny(licence)' = VerifyAny(licence)
      BY <2>1
    <2> QED  BY <1>1, <1>2, <2>1, <2>2
  <1> QED  BY <1>3, <1>4, <1>5

\* Readers are served the free plan or what the licence they read grants, signed
\* by a trusted key and not expired, and the configured key prevails after a boot
\* whose install did not fail and that no administrator overtook, for any number
\* of replicas, keys and tokens and any interleaving of administrators, failed
\* writes and the installs of booting replicas.
THEOREM LicensingInvariant == LicensingSpec => []LicensingInv
  <1>1. LicensingInit => LicenceIInv
    BY LicensingAssumption DEF LicensingInit, LicenceIInv, LicensingInv, LicensingTypeOK,
       EntitledWhenServed, EnvKeyWins
  <1>2. ASSUME LicenceIInv, [LicensingNext]_licenceVars PROVE LicenceIInv'
    <2> USE <1>2 DEF LicenceIInv, LicensingInv, LicensingTypeOK
    <2>1. CASE UNCHANGED licenceVars
      BY <2>1 DEF licenceVars, servedVars, EntitledWhenServed, EnvKeyWins, Trusted
    <2>2. CASE Tick
      BY <2>2, LicensingAssumption DEF Tick, servedVars, EntitledWhenServed, EnvKeyWins, Trusted
    <2>3. CASE DeleteLicense
      BY <2>3 DEF DeleteLicense, servedVars, EntitledWhenServed, EnvKeyWins, Trusted
    <2>4. CASE GetLicense
      <3> HIDE DEF LicenceIInv
      <3>1. served' \subseteq Grantable /\ EntitledWhenServed'
        BY <2>4, ServedIsGranted
      <3> QED  BY <2>4, <3>1 DEF GetLicense, EnvKeyWins, LicenceIInv, Trusted
    <2>5. ASSUME NEW t \in LicToken, InstallLicense(t) PROVE LicenceIInv'
      <3>1. VerifyAny(t) /\ licence' = t
        BY <2>5 DEF InstallLicense, Installable
      <3>2. VerifyAny(licence)' = VerifyAny(t)
        BY <3>1 DEF VerifyAny, Verify, PubKeys
      <3> QED  BY <2>5, <3>1, <3>2 DEF InstallLicense, servedVars, EntitledWhenServed, EnvKeyWins, Trusted
    <2>6. ASSUME NEW r \in Replica, BootCurrent(r) \/ BootInstall(r) \/ Reboot(r) PROVE LicenceIInv'
      BY <2>6, BootKeeps
    <2> QED  BY <2>1, <2>2, <2>3, <2>4, <2>5, <2>6 DEF LicensingNext
  <1>3. LicenceIInv => LicensingInv
    BY DEF LicenceIInv
  <1> QED  BY <1>1, <1>2, <1>3, PTL DEF LicensingSpec

-----------------------------------------------------------------------------
(* Identity *)

\* The policy matrix has a row that allows whatever the guard of the route lets by;
\* without a row the guard keeps to the writers.
Fits(rt) ==
    \/ \E p \in defaultPolicy :
          p.resource = rt.resource /\ p.action = rt.action /\ rt.guard \subseteq p.roles
    \/ /\ ~Declared(rt)
       /\ rt.action = "read" \/ rt \in feedbackRoutes \/ rt.guard \subseteq Writers
       /\ rt.action = "delete" => rt.guard \subseteq Admins

LEMMA RouteFits ==
    ASSUME NEW resource, NEW action, NEW guard, NEW mfa, NEW checked, NEW all, guard \subseteq all,
           [resource |-> resource, action |-> action, roles |-> all] \in defaultPolicy
    PROVE  Fits(Rt(resource, action, guard, mfa, checked))
  <1> DEFINE p == [resource |-> resource, action |-> action, roles |-> all]
             rt == Rt(resource, action, guard, mfa, checked)
  <1>1. p.resource = rt.resource /\ p.action = rt.action /\ rt.guard \subseteq p.roles
    BY DEF Rt
  <1> QED  BY <1>1 DEF Fits

\* The matrix says nothing of these.
LEMMA RouteOpen ==
    ASSUME NEW resource, NEW action, NEW guard, NEW mfa, NEW checked,
           ~\E p \in defaultPolicy : p.resource = resource /\ p.action = action,
           \/ action = "read" \/ guard \subseteq Writers
           \/ Rt(resource, action, guard, mfa, checked) \in feedbackRoutes,
           action = "delete" => guard \subseteq Admins
    PROVE  Fits(Rt(resource, action, guard, mfa, checked))
  <1> DEFINE rt == Rt(resource, action, guard, mfa, checked)
  <1>1. rt.resource = resource /\ rt.action = action /\ rt.guard = guard
    BY DEF Rt
  <1>2. ~Declared(rt)
    BY <1>1 DEF Declared
  <1> HIDE DEF rt
  <1>3. Fits(rt)
    BY <1>1, <1>2 DEF Fits, rt
  <1> QED  BY <1>3 DEF rt

LEMMA PolicyRows ==
    /\ \A r \in {"pipeline", "run", "app", "environment", "host", "registry", "cluster", "docker",
                 "kubernetes"} : [resource |-> r, action |-> "read", roles |-> Everyone] \in defaultPolicy
    /\ \A r \in {"pipeline", "app"} : \A a \in {"create", "update", "invoke"} :
          [resource |-> r, action |-> a, roles |-> Writers] \in defaultPolicy
    /\ \A r \in {"environment", "host"} : \A a \in {"create", "update"} :
          [resource |-> r, action |-> a, roles |-> Writers] \in defaultPolicy
    /\ [resource |-> "run", action |-> "update", roles |-> Writers] \in defaultPolicy
    /\ \A r \in {"pipeline", "app", "environment", "host"} :
          [resource |-> r, action |-> "delete", roles |-> Admins] \in defaultPolicy
    /\ \A r \in {"registry", "cluster"} : \A a \in {"create", "delete"} :
          [resource |-> r, action |-> a, roles |-> Admins] \in defaultPolicy
    /\ \A a \in {"reveal", "update", "delete"} :
          [resource |-> "secret", action |-> a, roles |-> Admins] \in defaultPolicy
    /\ [resource |-> "promotion", action |-> "approve", roles |-> {"admin", "approver"}] \in defaultPolicy
    /\ [resource |-> "promotion", action |-> "invoke", roles |-> Writers] \in defaultPolicy
    /\ [resource |-> "webhook", action |-> "update", roles |-> Admins] \in defaultPolicy
  BY DEF defaultPolicy

\* The operations the matrix has no row for.
LEMMA NoRows ==
    \A p \in defaultPolicy :
        /\ p.resource \in {"docker", "kubernetes"} => p.action = "read"
        /\ p.resource = "registry" => p.action # "invoke"
        /\ p.resource = "secret" => p.action # "test"
        /\ p.resource \notin {"cloud", "catalog", "admin", "license", "feedback"}
  BY DEF defaultPolicy

LEMMA RoutesFit == \A rt \in Routes \ tokenRoutes : Fits(rt)
  <1>0. Everyone \subseteq Everyone /\ Writers \subseteq Writers /\ Admins \subseteq Admins
        /\ Writers \subseteq Everyone /\ Admins \subseteq Writers
    BY DEF Everyone, Writers, Admins, RbacRole
  <1>1. \A rt \in pipelineRoutes : Fits(rt)
    BY <1>0, PolicyRows, RouteFits DEF pipelineRoutes
  <1>2. \A rt \in environmentRoutes : Fits(rt)
    BY <1>0, PolicyRows, RouteFits DEF environmentRoutes
  <1>3. \A rt \in promotionRoutes : Fits(rt)
    BY <1>0, PolicyRows, RouteFits DEF promotionRoutes
  <1>4. \A rt \in appRoutes : Fits(rt)
    BY <1>0, PolicyRows, RouteFits DEF appRoutes
  <1>5. \A rt \in hostRoutes : Fits(rt)
    BY <1>0, PolicyRows, RouteFits DEF hostRoutes
  <1>6. \A rt \in dockerRoutes : Fits(rt)
    <2>1. Fits(Rt("docker", "read", Everyone, FALSE, FALSE))
      BY <1>0, PolicyRows, RouteFits
    <2>2. \A a \in {"create", "update", "invoke"} : Fits(Rt("docker", a, Writers, FALSE, FALSE))
      BY <1>0, NoRows, RouteOpen
    <2>3. Fits(Rt("docker", "delete", Admins, FALSE, FALSE))
      BY <1>0, NoRows, RouteOpen
    <2> QED  BY <2>1, <2>2, <2>3 DEF dockerRoutes
  <1>7. \A rt \in kubernetesRoutes : Fits(rt)
    BY <1>0, NoRows, PolicyRows, RouteFits, RouteOpen DEF kubernetesRoutes
  <1>8. \A rt \in cloudRoutes : Fits(rt)
    BY <1>0, NoRows, PolicyRows, RouteFits, RouteOpen DEF cloudRoutes
  <1>9. \A rt \in adminRoutes : Fits(rt)
    <2>1. Fits(Rt("catalog", "read", Everyone, FALSE, FALSE))
      BY NoRows, RouteOpen
    <2>2. \A a \in {"read", "create", "update", "delete"} : Fits(Rt("admin", a, Admins, TRUE, FALSE))
      BY <1>0, NoRows, RouteOpen
    <2> QED  BY <2>1, <2>2 DEF adminRoutes
  <1>10. \A rt \in licenseRoutes : Fits(rt)
    BY <1>0, NoRows, PolicyRows, RouteFits, RouteOpen DEF licenseRoutes
  <1>11. \A rt \in registryRoutes : Fits(rt)
    BY <1>0, NoRows, PolicyRows, RouteFits, RouteOpen DEF registryRoutes
  <1>12. \A rt \in feedbackRoutes : Fits(rt)
    BY <1>0, NoRows, PolicyRows, RouteFits, RouteOpen DEF feedbackRoutes
  <1>13. \A rt \in settingsRoutes : Fits(rt)
    <2>1. \A r \in {"registry", "cluster"} :
             /\ Fits(Rt(r, "read", Everyone, FALSE, FALSE)) /\ Fits(Rt(r, "create", Admins, FALSE, FALSE))
             /\ Fits(Rt(r, "delete", Admins, FALSE, FALSE))
      BY <1>0, PolicyRows, RouteFits
    <2>2. Fits(Rt("secret", "test", Admins, TRUE, FALSE))
      BY <1>0, NoRows, RouteOpen
    <2> DEFINE S(r) == {Rt(r, "read", Everyone, FALSE, FALSE), Rt(r, "create", Admins, FALSE, FALSE),
                        Rt(r, "delete", Admins, FALSE, FALSE)}
    <2>3. \A r \in {"registry", "cluster"} : \A rt \in S(r) : Fits(rt)
      BY <2>1
    <2>4. settingsRoutes = (UNION {S(r) : r \in {"registry", "cluster"}})
                           \cup {Rt("secret", "test", Admins, TRUE, FALSE)}
      BY DEF settingsRoutes
    <2> HIDE DEF S
    <2> DEFINE test == Rt("secret", "test", Admins, TRUE, FALSE)
    <2> HIDE DEF test
    <2>5. SUFFICES ASSUME NEW rt \in settingsRoutes PROVE Fits(rt)
      OBVIOUS
    <2>6. settingsRoutes = (UNION {S(r) : r \in {"registry", "cluster"}}) \cup {test} /\ Fits(test)
      BY <2>2, <2>4 DEF test
    <2>7. rt = test \/ \E r \in {"registry", "cluster"} : rt \in S(r)
      BY <2>5, <2>6
    <2> QED  BY <2>3, <2>6, <2>7
  <1> QED  BY <1>1, <1>2, <1>3, <1>4, <1>5, <1>6, <1>7, <1>8, <1>9, <1>10, <1>11, <1>12, <1>13 DEF Routes

\* Only the token routes are about tokens.
LEMMA TokenRoutes == \A rt \in Routes : rt.resource = "token" => rt \in tokenRoutes
  <1>1. \A rt \in pipelineRoutes : rt.resource # "token"
    BY DEF pipelineRoutes, Rt
  <1>2. \A rt \in environmentRoutes : rt.resource # "token"
    BY DEF environmentRoutes, Rt
  <1>3. \A rt \in promotionRoutes : rt.resource # "token"
    BY DEF promotionRoutes, Rt
  <1>4. \A rt \in appRoutes : rt.resource # "token"
    BY DEF appRoutes, Rt
  <1>5. \A rt \in hostRoutes : rt.resource # "token"
    BY DEF hostRoutes, Rt
  <1>6. \A rt \in dockerRoutes : rt.resource # "token"
    BY DEF dockerRoutes, Rt
  <1>7. \A rt \in kubernetesRoutes : rt.resource # "token"
    BY DEF kubernetesRoutes, Rt
  <1>8. \A rt \in cloudRoutes : rt.resource # "token"
    BY DEF cloudRoutes, Rt
  <1>9. \A rt \in adminRoutes : rt.resource # "token"
    BY DEF adminRoutes, Rt
  <1>10. \A rt \in licenseRoutes : rt.resource # "token"
    BY DEF licenseRoutes, Rt
  <1>11. \A rt \in registryRoutes : rt.resource # "token"
    BY DEF registryRoutes, Rt
  <1>12. \A rt \in feedbackRoutes : rt.resource # "token"
    BY DEF feedbackRoutes, Rt
  <1>13. \A rt \in settingsRoutes : rt.resource # "token"
    <2> DEFINE S(r) == {Rt(r, "read", Everyone, FALSE, FALSE), Rt(r, "create", Admins, FALSE, FALSE),
                        Rt(r, "delete", Admins, FALSE, FALSE)}
    <2>1. \A r \in {"registry", "cluster"} : \A rt \in S(r) : rt.resource # "token"
      BY DEF Rt
    <2>2. settingsRoutes = (UNION {S(r) : r \in {"registry", "cluster"}})
                           \cup {Rt("secret", "test", Admins, TRUE, FALSE)}
      BY DEF settingsRoutes
    <2>3. Rt("secret", "test", Admins, TRUE, FALSE).resource # "token"
      BY DEF Rt
    <2> HIDE DEF S
    <2>4. SUFFICES ASSUME NEW rt \in settingsRoutes PROVE rt.resource # "token"
      OBVIOUS
    <2>5. CASE rt = Rt("secret", "test", Admins, TRUE, FALSE)
      BY <2>3, <2>5
    <2>6. CASE \E r \in {"registry", "cluster"} : rt \in S(r)
      BY <2>1, <2>6
    <2> QED  BY <2>2, <2>4, <2>5, <2>6
  <1> QED  BY <1>1, <1>2, <1>3, <1>4, <1>5, <1>6, <1>7, <1>8, <1>9, <1>10, <1>11, <1>12, <1>13 DEF Routes

\* Every row names one of four sets of roles.
LEMMA RowRoles == \A p \in defaultPolicy : p.roles \in {Everyone, Writers, Admins, {"admin", "approver"}}
  BY DEF defaultPolicy

\* canMintRole hands on no right its caller lacks, but for an approver's operator token.
LEMMA MintKeepsRights ==
    ASSUME NEW roles \in SUBSET RbacRole, NEW role \in RbacRole, canMintRole(roles, role)
    PROVE  WithinRights(role, roles) \/ (role = "operator" /\ "approver" \in roles)
  <1>1. CASE "admin" \in roles
    <2>1. \A p \in defaultPolicy : "admin" \in p.roles
      BY RowRoles DEF Everyone, Writers, Admins, RbacRole
    <2> QED  BY <1>1, <2>1 DEF WithinRights
  <1>2. CASE role \in roles
    BY <1>2 DEF WithinRights
  <1>3. CASE role = "viewer"
    <2>1. roles # {}
      BY <1>3 DEF canMintRole
    <2>2. \A p \in defaultPolicy : role \in p.roles => p.roles = RbacRole
      BY <1>3, RowRoles DEF Everyone, Writers, Admins
    <2> QED  BY <2>1, <2>2 DEF WithinRights
  <1>4. CASE role = "operator" /\ "admin" \notin roles /\ "operator" \notin roles
    <2>1. PICK r \in roles : roleRank("operator") <= roleRank(r)
      BY <1>4 DEF canMintRole
    <2>2. r # "viewer"
      BY <2>1 DEF roleRank
    <2> QED  BY <1>4, <2>1, <2>2 DEF RbacRole
  <1>5. CASE role = "approver" /\ "admin" \notin roles
    BY <1>5, <1>2 DEF canMintRole
  <1>6. CASE role = "admin" /\ "admin" \notin roles
    BY <1>6 DEF canMintRole, roleRank, RbacRole
  <1> QED  BY <1>1, <1>2, <1>3, <1>4, <1>5, <1>6 DEF RbacRole

\* What RightsNotMinted says of the row of a token.
MintOK(row) == \/ WithinRights(row.role, row.ownerRoles)
               \/ row.role = "operator" /\ "approver" \in row.ownerRoles

\* The types the invariant needs in full.
TokenRow == [state : {"absent", "live", "expired", "deleted"}, role : RbacRole,
             owner : Person \cup {Nobody}, ownerRoles : SUBSET RbacRole]

\* A request has a credential once it arrived; a credential that was dead then
\* is a token that is dead; a deletion is under way on the route for it only.
CallsKnown ==
    \A c \in Call :
        /\ call[c] # "idle" => who[c] # Nobody
        /\ staleCred[c] => who[c] \in ApiToken /\ tok[who[c]].state \in {"expired", "deleted"}
        /\ call[c] = "deleting" => route[c] \in tokenRoutes

IdentityIInv ==
    /\ IdentityInv /\ CallsKnown
    /\ tok \in [ApiToken -> TokenRow]
    /\ claims \in [Call -> SUBSET RbacRole] /\ route \in [Call -> Routes]

\* A request that moves on with the roles it was given, if any.
LEMMA CallMoves ==
    ASSUME IdentityIInv, NEW c \in Call,
           NEW pt \in {"arrived", "authed", "admitted", "deleting", "done", "refused", "unavailable"},
           NEW roles \in SUBSET RbacRole,
           call[c] # "idle", call' = [call EXCEPT ![c] = pt], claims' = [claims EXCEPT ![c] = roles],
           UNCHANGED <<who, route, staleCred, tok, accountVars>>,
           verifier' \in {"none", "ready"}, cooling' \in BOOLEAN,
           touching' \subseteq ApiToken, victim' \in [Call -> ApiToken \cup {Nobody}],
           staleCred[c] => pt \in {"arrived", "refused"},
           pt \in {"admitted", "done"} /\ route[c] \notin tokenRoutes =>
              Allowed(roles, route[c]),
           pt = "deleting" => route[c] \in tokenRoutes
    PROVE  IdentityIInv'
  <1> USE DEF IdentityIInv, IdentityInv, IdentityTypeOK, accountVars
  <1>1. /\ claims' \in [Call -> SUBSET RbacRole] /\ claims'[c] = roles /\ call'[c] = pt
        /\ \A d \in Call \ {c} : claims'[d] = claims[d] /\ call'[d] = call[d]
    OBVIOUS
  <1>2. IdentityTypeOK'
    BY <1>1
  <1>3. GuardsWithinPolicy'
    <2> SUFFICES ASSUME NEW d \in Call, call'[d] \in {"admitted", "done"}, route[d] \notin tokenRoutes
                 PROVE  Allowed(claims'[d], route[d])
      BY DEF GuardsWithinPolicy
    <2>1. CASE d = c
      BY <1>1, <2>1
    <2>2. CASE d # c
      BY <1>1, <2>2 DEF GuardsWithinPolicy
    <2> QED  BY <2>1, <2>2
  <1>4. DeadTokensStayDead'
    BY <1>1 DEF DeadTokensStayDead
  <1>5. RightsNotMinted'
    BY DEF RightsNotMinted, MintOK, WithinRights
  <1>6. OneAccountPerEmail'
    BY DEF OneAccountPerEmail
  <1>7. CallsKnown'
    BY <1>1 DEF CallsKnown
  <1> QED  BY <1>1, <1>2, <1>3, <1>4, <1>5, <1>6, <1>7

\* What the guards of a route admit is allowed.
LEMMA GuardedIsPermitted ==
    ASSUME IdentityIInv, NEW c \in Call, Guarded(c), route[c] \notin tokenRoutes
    PROVE  Allowed(claims[c], route[c])
  <1> DEFINE rt == route[c]
             roles == claims[c]
  <1>1. Fits(rt) /\ roles \cap rt.guard # {}
    BY RoutesFit DEF IdentityIInv, Guarded, RequireRole
  <1> HIDE DEF rt, roles
  <1>2. CASE Declared(rt)
    <2>1. PICK p \in defaultPolicy : /\ p.resource = rt.resource /\ p.action = rt.action
                                     /\ rt.guard \subseteq p.roles
      BY <1>1, <1>2 DEF Fits
    <2>2. roles \cap p.roles # {}
      BY <1>1, <2>1
    <2>3. Permission(roles, rt.resource, rt.action)
      BY <2>1, <2>2 DEF Permission
    <2>4. Allowed(roles, rt)
      BY <1>2, <2>3 DEF Allowed
    <2> QED  BY <2>4 DEF rt, roles
  <1>3. CASE ~Declared(rt)
    <2>1. /\ rt.action = "read" \/ rt \in feedbackRoutes \/ rt.guard \subseteq Writers
          /\ rt.action = "delete" => rt.guard \subseteq Admins
      BY <1>1, <1>3 DEF Fits, Declared
    <2>2. /\ rt.action = "read" \/ rt \in feedbackRoutes \/ roles \cap Writers # {}
          /\ rt.action = "delete" => "admin" \in roles
      BY <1>1, <2>1 DEF Admins
    <2>3. Allowed(roles, rt)
      BY <1>3, <2>2 DEF Allowed
    <2> QED  BY <2>3 DEF rt, roles
  <1> QED  BY <1>2, <1>3

LEMMA GroupsGiveRoles == \A groups : MapGroupsToRolesWith(groups) \subseteq RbacRole
  <1>1. \A g : DefaultGroupRoleMap(g) \subseteq RbacRole
    <2> TAKE g
    <2> QED  BY DEF DefaultGroupRoleMap, RbacRole
  <1> QED  BY <1>1 DEF MapGroupsToRolesWith, RbacRole

\* The steps of a request that write no token.
LEMMA RequestKeeps ==
    ASSUME IdentityIInv, NEW c \in Call,
           \/ ensureProvider(c) \/ AuthenticateOIDC(c) \/ Authenticate(c) \/ Guard(c) \/ HandleOther(c)
           \/ \E t \in ApiToken : DeleteAPIToken(c, t)
    PROVE  IdentityIInv'
  <1>0. /\ claims[c] \in SUBSET RbacRole /\ claims = [claims EXCEPT ![c] = claims[c]]
        /\ call = [call EXCEPT ![c] = call[c]] /\ touching \subseteq ApiToken
        /\ victim \in [Call -> ApiToken \cup {Nobody}] /\ verifier \in {"none", "ready"}
        /\ cooling \in BOOLEAN
    BY DEF IdentityIInv, IdentityInv, IdentityTypeOK
  <1>s. staleCred[c] => call[c] \in {"arrived", "refused"} /\ who[c] \in ApiToken
                        /\ tok[who[c]].state \in {"expired", "deleted"}
    BY DEF IdentityIInv, IdentityInv, DeadTokensStayDead, CallsKnown
  <1>1. CASE ensureProvider(c)
    <2>1. ~staleCred[c]
      BY <1>1, <1>s, IdentityAssumption DEF ensureProvider
    <2>2. PICK pt \in {"arrived", "unavailable"} : call' = [call EXCEPT ![c] = pt]
      BY <1>0, <1>1 DEF ensureProvider
    <2>3. /\ call[c] # "idle" /\ UNCHANGED <<who, route, claims, victim, staleCred, tok, touching, accountVars>>
          /\ verifier' \in {"none", "ready"} /\ cooling' \in BOOLEAN
      BY <1>0, <1>1 DEF ensureProvider, tokenVars
    <2> QED  BY <1>0, <2>1, <2>2, <2>3, CallMoves
  <1>2. CASE AuthenticateOIDC(c)
    <2> DEFINE roles == MapGroupsToRolesWith(GroupsOf[who[c]])
    <2>1. ~staleCred[c]
      BY <1>2, <1>s, IdentityAssumption DEF AuthenticateOIDC
    <2>2. roles \in SUBSET RbacRole
      BY GroupsGiveRoles
    <2>3. /\ call[c] # "idle" /\ call' = [call EXCEPT ![c] = "authed"] /\ claims' = [claims EXCEPT ![c] = roles]
          /\ UNCHANGED <<who, route, victim, staleCred, tok, touching, verifier, cooling, accountVars>>
      BY <1>2 DEF AuthenticateOIDC, tokenVars, oidcVars
    <2> HIDE DEF roles
    <2> QED  BY <1>0, <2>1, <2>2, <2>3, CallMoves
  <1>3. CASE Authenticate(c)
    <2>0. /\ call[c] = "arrived" /\ who[c] \in ApiToken
          /\ UNCHANGED <<who, route, victim, staleCred, tok, verifier, cooling, accountVars>>
      BY <1>3 DEF Authenticate, oidcVars
    <2>1. CASE GetByHash(who[c]) /\ tok[who[c]].state # "expired"
      <3> DEFINE roles == {tok[who[c]].role}
      <3>1. /\ call' = [call EXCEPT ![c] = "authed"] /\ claims' = [claims EXCEPT ![c] = roles]
            /\ touching' \subseteq ApiToken
        BY <1>0, <1>3, <2>0, <2>1 DEF Authenticate
      <3>2. roles \in SUBSET RbacRole
        BY <2>0 DEF IdentityIInv, IdentityInv, IdentityTypeOK
      <3>3. ~staleCred[c]
        BY <1>s, <2>1 DEF GetByHash
      <3> HIDE DEF roles
      <3> QED  BY <1>0, <2>0, <3>1, <3>2, <3>3, CallMoves
    <2>2. CASE ~(GetByHash(who[c]) /\ tok[who[c]].state # "expired")
      <3>1. call' = [call EXCEPT ![c] = "refused"] /\ UNCHANGED <<claims, touching>>
        BY <1>3, <2>2 DEF Authenticate
      <3> QED  BY <1>0, <2>0, <3>1, CallMoves
    <2> QED  BY <2>1, <2>2
  <1>4. CASE Guard(c)
    <2>1. ~staleCred[c] /\ call[c] # "idle"
      BY <1>4, <1>s DEF Guard
    <2>2. PICK pt \in {"admitted", "refused"} : /\ call' = [call EXCEPT ![c] = pt]
                                                /\ pt = "admitted" => Guarded(c)
      BY <1>4 DEF Guard
    <2>3. pt = "admitted" /\ route[c] \notin tokenRoutes =>
             Allowed(claims[c], route[c])
      BY <2>2, GuardedIsPermitted
    <2>4. UNCHANGED <<who, route, claims, victim, staleCred, tok, touching, verifier, cooling, accountVars>>
      BY <1>4 DEF Guard, tokenVars, oidcVars
    <2> QED  BY <1>0, <2>1, <2>2, <2>3, <2>4, CallMoves
  <1>5. CASE HandleOther(c)
    <2>1. ~staleCred[c] /\ call[c] = "admitted" /\ call' = [call EXCEPT ![c] = "done"]
      BY <1>5, <1>s DEF HandleOther
    <2>2. route[c] \notin tokenRoutes => Allowed(claims[c], route[c])
      BY <2>1 DEF IdentityIInv, IdentityInv, GuardsWithinPolicy
    <2>3. UNCHANGED <<who, route, claims, victim, staleCred, tok, touching, verifier, cooling, accountVars>>
      BY <1>5 DEF HandleOther, tokenVars, oidcVars
    <2> QED  BY <1>0, <2>1, <2>2, <2>3, CallMoves
  <1>6. CASE \E t \in ApiToken : DeleteAPIToken(c, t)
    <2>1. PICK t \in ApiToken : DeleteAPIToken(c, t)
      BY <1>6
    <2>2. ~staleCred[c] /\ call[c] # "idle" /\ route[c] \in tokenRoutes
      BY <1>s, <2>1, TokenRoutes DEF DeleteAPIToken, IdentityIInv
    <2>3. PICK pt \in {"deleting", "refused"} : call' = [call EXCEPT ![c] = pt]
      BY <2>1 DEF DeleteAPIToken
    <2>4. /\ UNCHANGED <<who, route, claims, staleCred, tok, touching, verifier, cooling, accountVars>>
          /\ victim' \in [Call -> ApiToken \cup {Nobody}]
      BY <1>0, <2>1 DEF DeleteAPIToken, tokenVars, oidcVars
    <2> QED  BY <1>0, <2>2, <2>3, <2>4, CallMoves
  <1> QED  BY <1>1, <1>2, <1>3, <1>4, <1>5, <1>6

\* A request that arrives.
LEMMA ArriveKeeps ==
    ASSUME IdentityIInv, NEW c \in Call, NEW w \in Person \cup ApiToken, NEW rt \in Routes,
           Arrive(c, w, rt)
    PROVE  IdentityIInv'
  <1> USE DEF IdentityIInv, IdentityInv, IdentityTypeOK, accountVars, tokenVars, oidcVars
  <1> DEFINE dead == w \in ApiToken /\ tok[w].state # "live"
  <1>1. /\ call' = [call EXCEPT ![c] = "arrived"] /\ who' = [who EXCEPT ![c] = w]
        /\ route' = [route EXCEPT ![c] = rt] /\ staleCred' = [staleCred EXCEPT ![c] = dead]
        /\ UNCHANGED <<claims, victim, verifier, cooling, tok, touching, account, signup, signRole>>
        /\ w \in ApiToken => tok[w].state # "absent"
    BY DEF Arrive
  <1>2. /\ call'[c] = "arrived" /\ who'[c] = w /\ route'[c] = rt
        /\ \A d \in Call \ {c} : call'[d] = call[d] /\ who'[d] = who[d] /\ route'[d] = route[d]
    BY <1>1
  <1>3. /\ staleCred'[c] = dead /\ \A d \in Call \ {c} : staleCred'[d] = staleCred[d]
        /\ staleCred' \in [Call -> BOOLEAN]
    <2> HIDE DEF dead
    <2>1. dead \in BOOLEAN
      BY DEF dead
    <2>2. staleCred' = [staleCred EXCEPT ![c] = dead] /\ staleCred \in [Call -> BOOLEAN]
      BY <1>1
    <2> QED  BY <2>1, <2>2, Zenon
  <1>4. IdentityTypeOK'
    <2>1. /\ call' \in [Call -> {"idle", "arrived", "authed", "admitted", "deleting", "done",
                                 "refused", "unavailable"}]
          /\ who' \in [Call -> Person \cup ApiToken \cup {Nobody}]
      BY <1>1
    <2> QED  BY <1>1, <1>3, <2>1
  <1>5. GuardsWithinPolicy'
    <2> SUFFICES ASSUME NEW d \in Call, call'[d] \in {"admitted", "done"}, route'[d] \notin tokenRoutes
                 PROVE  Allowed(claims'[d], route'[d])
      BY DEF GuardsWithinPolicy
    <2>1. d # c
      BY <1>2
    <2> QED  BY <1>1, <1>2, <2>1 DEF GuardsWithinPolicy
  <1>6. DeadTokensStayDead'
    BY <1>2, <1>3 DEF DeadTokensStayDead
  <1>7. RightsNotMinted' /\ OneAccountPerEmail'
    BY <1>1 DEF RightsNotMinted, WithinRights, OneAccountPerEmail
  <1>8. CallsKnown'
    <2> SUFFICES ASSUME NEW d \in Call
                 PROVE  /\ call'[d] # "idle" => who'[d] # Nobody
                        /\ staleCred'[d] => who'[d] \in ApiToken /\ tok[who'[d]].state \in {"expired", "deleted"}
                        /\ call'[d] = "deleting" => route'[d] \in tokenRoutes
      BY <1>1 DEF CallsKnown
    <2>1. CASE d = c
      BY <1>1, <1>2, <1>3, <2>1, IdentityAssumption
    <2>2. CASE d # c
      BY <1>2, <1>3, <2>2 DEF CallsKnown
    <2> QED  BY <2>1, <2>2
  <1>9. route' \in [Call -> Routes]
    BY <1>1
  <1> QED  BY <1>1, <1>4, <1>5, <1>6, <1>7, <1>8, <1>9

\* A token that is minted, expires or is deleted: a dead one is never live again.
LEMMA TokenMoves ==
    ASSUME IdentityIInv, NEW t \in ApiToken, NEW row \in TokenRow,
           tok' = [tok EXCEPT ![t] = row],
           tok[t].state \in {"expired", "deleted"} => row.state \in {"expired", "deleted"},
           row.state # "absent" =>
              /\ row.owner \in Person
              /\ MintOK(row)
    PROVE  /\ tok' \in [ApiToken -> TokenRow] /\ RightsNotMinted'
           /\ \A s \in ApiToken : tok[s].state \in {"expired", "deleted"} => tok'[s].state \in {"expired", "deleted"}
           /\ \A s \in ApiToken : /\ tok'[s].state \in {"absent", "live", "expired", "deleted"}
                                  /\ tok'[s].role \in RbacRole
  <1> USE DEF IdentityIInv, IdentityInv
  <1>1. tok' \in [ApiToken -> TokenRow] /\ tok'[t] = row /\ \A s \in ApiToken \ {t} : tok'[s] = tok[s]
    OBVIOUS
  <1>2. RightsNotMinted'
    <2> SUFFICES ASSUME NEW s \in ApiToken, tok'[s].state # "absent"
                 PROVE  /\ tok'[s].owner \in Person
                        /\ MintOK(tok'[s])
      BY DEF RightsNotMinted, MintOK, WithinRights
    <2>1. CASE s = t
      BY <1>1, <2>1
    <2>2. CASE s # t
      BY <1>1, <2>2 DEF RightsNotMinted, MintOK
    <2> QED  BY <2>1, <2>2
  <1>3. \A s \in ApiToken : tok'[s].state \in {"absent", "live", "expired", "deleted"} /\ tok'[s].role \in RbacRole
    BY <1>1 DEF TokenRow
  <1> QED  BY <1>1, <1>2, <1>3

\* The steps that write a token.
LEMMA TokensKeep ==
    ASSUME IdentityIInv, NEW t \in ApiToken,
           \/ ExpireToken(t)
           \/ \E c \in Call : DeleteRow(c, t) \/ \E role \in RbacRole : CreateAPIToken(c, t, role)
    PROVE  IdentityIInv'
  <1> DEFINE Sound(row) ==
        row.state # "absent" =>
           /\ row.owner \in Person
           /\ MintOK(row)
  <1>0. tok[t] \in TokenRow /\ Sound(tok[t]) /\ tok = [tok EXCEPT ![t] = tok[t]]
    BY DEF IdentityIInv, IdentityInv, RightsNotMinted, MintOK
  <1>1. /\ UNCHANGED <<who, route, claims, victim, staleCred, touching, verifier, cooling,
                       account, signup, signRole>>
        /\ UNCHANGED call \/ \E c \in Call : \E pt \in {"done", "refused"} :
              /\ call' = [call EXCEPT ![c] = pt] /\ call[c] \in {"admitted", "deleting"}
              /\ route[c] \in tokenRoutes
    <2>1. ASSUME NEW c \in Call, DeleteRow(c, t)
          PROVE  /\ route[c] \in tokenRoutes /\ call[c] = "deleting"
                 /\ \E pt \in {"done", "refused"} : call' = [call EXCEPT ![c] = pt]
                 /\ UNCHANGED <<who, route, claims, victim, staleCred, touching, oidcVars, accountVars>>
      BY <2>1 DEF DeleteRow, IdentityIInv, CallsKnown
    <2>2. ASSUME NEW c \in Call, NEW role \in RbacRole, CreateAPIToken(c, t, role)
          PROVE  /\ route[c] \in tokenRoutes /\ call[c] = "admitted"
                 /\ \E pt \in {"done", "refused"} : call' = [call EXCEPT ![c] = pt]
                 /\ UNCHANGED <<who, route, claims, victim, staleCred, touching, oidcVars, accountVars>>
      BY <2>2, TokenRoutes DEF CreateAPIToken, IdentityIInv
    <2>3. CASE ExpireToken(t)
      BY <2>3 DEF ExpireToken, oidcVars, callVars, accountVars
    <2> QED  BY <2>1, <2>2, <2>3 DEF oidcVars, accountVars
  <1>2. \E row \in TokenRow :
           /\ tok' = [tok EXCEPT ![t] = row] /\ Sound(row)
           /\ tok[t].state \in {"expired", "deleted"} => row.state \in {"expired", "deleted"}
    <2>1. CASE UNCHANGED tok
      BY <1>0, <2>1
    <2>2. CASE \E st \in {"expired", "deleted"} : tok' = [tok EXCEPT ![t].state = st] /\ tok[t].state # "absent"
      <3>1. PICK st \in {"expired", "deleted"} : tok' = [tok EXCEPT ![t].state = st] /\ tok[t].state # "absent"
        BY <2>2
      <3> DEFINE row == [tok[t] EXCEPT !.state = st]
      <3>2. row \in TokenRow /\ row.state = st /\ row.owner = tok[t].owner /\ row.role = tok[t].role
            /\ row.ownerRoles = tok[t].ownerRoles
        BY <1>0 DEF TokenRow
      <3>3. tok' = [tok EXCEPT ![t] = row]
        BY <3>1
      <3>4. Sound(row)
        BY <1>0, <3>1, <3>2 DEF MintOK
      <3> HIDE DEF row, Sound
      <3> QED  BY <3>2, <3>3, <3>4
    <2>3. CASE \E c \in Call : \E role \in RbacRole :
                  /\ CreateAPIToken(c, t, role) /\ ~callerIsToken(c) /\ canMintRole(claims[c], role)
      <3>1. PICK c \in Call, role \in RbacRole :
               CreateAPIToken(c, t, role) /\ ~callerIsToken(c) /\ canMintRole(claims[c], role)
        BY <2>3
      <3> DEFINE row == [state |-> "live", role |-> role, owner |-> who[c], ownerRoles |-> claims[c]]
      <3>2. tok' = [tok EXCEPT ![t] = row] /\ tok[t] = NoToken /\ call[c] = "admitted"
        BY <3>1 DEF CreateAPIToken
      <3>3. who[c] \in Person
        BY <3>1, <3>2 DEF IdentityIInv, IdentityInv, IdentityTypeOK, CallsKnown, callerIsToken
      <3>4. claims[c] \in SUBSET RbacRole
        BY DEF IdentityIInv
      <3>5. row \in TokenRow
        BY <3>3, <3>4 DEF TokenRow
      <3>6. Sound(row)
        BY <3>1, <3>3, <3>4, MintKeepsRights DEF MintOK
      <3>7. tok[t].state = "absent"
        BY <3>2 DEF NoToken
      <3> HIDE DEF row, Sound
      <3> QED  BY <3>2, <3>5, <3>6, <3>7
    <2> QED  BY <2>1, <2>2, <2>3 DEF ExpireToken, DeleteRow, CreateAPIToken, GetByHash
  <1>3. /\ tok' \in [ApiToken -> TokenRow] /\ RightsNotMinted'
        /\ \A s \in ApiToken : tok[s].state \in {"expired", "deleted"} => tok'[s].state \in {"expired", "deleted"}
        /\ \A s \in ApiToken : /\ tok'[s].state \in {"absent", "live", "expired", "deleted"}
                               /\ tok'[s].role \in RbacRole
    BY <1>2, TokenMoves
  <1> HIDE DEF Sound
  <1> USE DEF IdentityIInv, IdentityInv, IdentityTypeOK
  <1>4. /\ \A d \in Call : call'[d] = call[d] \/ (call'[d] \in {"done", "refused"} /\ route[d] \in tokenRoutes
                                                  /\ call[d] \in {"admitted", "deleting"})
        /\ call' \in [Call -> {"idle", "arrived", "authed", "admitted", "deleting", "done", "refused",
                               "unavailable"}]
    BY <1>1
  <1>5. IdentityTypeOK'
    BY <1>1, <1>3, <1>4
  <1>6. GuardsWithinPolicy'
    <2> SUFFICES ASSUME NEW d \in Call, call'[d] \in {"admitted", "done"}, route[d] \notin tokenRoutes
                 PROVE  Allowed(claims[d], route[d])
      BY <1>1 DEF GuardsWithinPolicy
    <2> QED  BY <1>4 DEF GuardsWithinPolicy
  <1>7. DeadTokensStayDead' /\ OneAccountPerEmail'
    BY <1>1, <1>4 DEF DeadTokensStayDead, OneAccountPerEmail
  <1>8. CallsKnown'
    BY <1>1, <1>3, <1>4 DEF CallsKnown
  <1> QED  BY <1>1, <1>3, <1>5, <1>6, <1>7, <1>8

\* Sign-ups: the store takes an email once.
LEMMA SignupKeeps ==
    ASSUME IdentityIInv, SignupNext
    PROVE  IdentityIInv'
  <1> USE DEF IdentityIInv, IdentityInv, IdentityTypeOK, oidcVars, callVars, tokenVars
  <1>1. PICK s \in Signer : SignupLookup(s) \/ BootstrapRole(s) \/ CreateUser(s)
    BY DEF SignupNext
  <1>2. UNCHANGED <<verifier, cooling, call, who, route, claims, victim, staleCred, tok, touching>>
    BY <1>1 DEF SignupLookup, BootstrapRole, CreateUser
  <1>3. /\ signup' \in [Signer -> {"idle", "looked", "roled", "created", "conflict", "failed"}]
        /\ signRole' \in [Signer -> RbacRole]
    BY <1>1 DEF SignupLookup, BootstrapRole, CreateUser, RbacRole
  <1>4. /\ account' \subseteq [email : {EmailOf[q] : q \in Signer}, role : RbacRole, by : Signer]
        /\ OneAccountPerEmail'
    <2>1. CASE UNCHANGED account
      BY <2>1 DEF OneAccountPerEmail
    <2>2. CASE ~GetByEmail(EmailOf[s]) /\ CreateUser(s)
      <3> DEFINE a == [email |-> EmailOf[s], role |-> signRole[s], by |-> s]
      <3>1. account' = account \cup {a}
        BY <2>2 DEF CreateUser
      <3>2. a \in [email : {EmailOf[q] : q \in Signer}, role : RbacRole, by : Signer]
        OBVIOUS
      <3>3. \A b \in account : b.email # a.email
        BY <2>2 DEF GetByEmail
      <3> HIDE DEF a
      <3> QED  BY <3>1, <3>2, <3>3 DEF OneAccountPerEmail
    <2> QED  BY <1>1, <2>1, <2>2 DEF SignupLookup, BootstrapRole, CreateUser
  <1>5. IdentityTypeOK'
    BY <1>2, <1>3, <1>4
  <1>6. GuardsWithinPolicy' /\ DeadTokensStayDead' /\ RightsNotMinted' /\ CallsKnown'
    BY <1>2 DEF GuardsWithinPolicy, DeadTokensStayDead, RightsNotMinted, CallsKnown, WithinRights
  <1> QED  BY <1>2, <1>4, <1>5, <1>6

(***************************************************************************)
(* The rights of every request, for every set of people, groups, tokens    *)
(* and sign-ups: what RequireRole, RequireMFA and RequirePermission let    *)
(* by the policy matrix allows wherever it has a row, and where it has     *)
(* none it is a writer's or, to delete, an admin's; Authenticate accepts   *)
(* no token that was dead when the request came; canMintRole hands on no   *)
(* right its caller lacks, but for an approver's operator token; and       *)
(* concurrent sign-ups leave one account per email.                        *)
(***************************************************************************)
THEOREM IdentityInvariant == IdentitySpec => []IdentityInv
  <1>1. IdentityInit => IdentityIInv
    <2> SUFFICES ASSUME IdentityInit PROVE IdentityIInv
      OBVIOUS
    <2> USE DEF IdentityInit
    <2>1. NoToken \in TokenRow /\ NoToken.state = "absent"
      BY DEF NoToken, TokenRow, RbacRole
    <2>2. tok \in [ApiToken -> TokenRow] /\ \A t \in ApiToken : tok[t] = NoToken
      BY <2>1
    <2>3. IdentityTypeOK
      BY <2>1, <2>2, Zenon DEF IdentityTypeOK, TokenRow, RbacRole
    <2>4. route \in [Call -> Routes]
      <3>1. (CHOOSE rt \in tokenRoutes : TRUE) \in tokenRoutes
        BY DEF tokenRoutes
      <3>2. tokenRoutes \subseteq Routes
        BY DEF Routes
      <3> QED  BY <3>1, <3>2
    <2>5. GuardsWithinPolicy /\ DeadTokensStayDead /\ RightsNotMinted /\ OneAccountPerEmail /\ CallsKnown
      BY <2>1, <2>2 DEF GuardsWithinPolicy, DeadTokensStayDead, RightsNotMinted, OneAccountPerEmail, CallsKnown
    <2> QED  BY <2>2, <2>3, <2>4, <2>5 DEF IdentityIInv, IdentityInv
  <1>2. IdentityIInv /\ [CallNext(Call, Person, Routes) \/ SignupNext]_identityVars => IdentityIInv'
    <2> SUFFICES ASSUME IdentityIInv, [CallNext(Call, Person, Routes) \/ SignupNext]_identityVars
                 PROVE  IdentityIInv'
      OBVIOUS
    <2>1. CASE SignupNext
      BY <2>1, SignupKeeps
    <2>2. CASE \E c \in Call, w \in Person \cup ApiToken, rt \in Routes : Arrive(c, w, rt)
      BY <2>2, ArriveKeeps
    <2>3. CASE \E c \in Call :
                  \/ ensureProvider(c) \/ AuthenticateOIDC(c) \/ Authenticate(c) \/ Guard(c) \/ HandleOther(c)
                  \/ \E t \in ApiToken : DeleteAPIToken(c, t)
      BY <2>3, RequestKeeps
    <2>4. CASE \E t \in ApiToken :
                  \/ ExpireToken(t)
                  \/ \E c \in Call : DeleteRow(c, t) \/ \E role \in RbacRole : CreateAPIToken(c, t, role)
      BY <2>4, TokensKeep
    <2>5. CASE CooldownEnds \/ (\E t \in ApiToken : TouchLastUsed(t)) \/ UNCHANGED identityVars
      <3>1. /\ UNCHANGED <<call, who, route, claims, victim, staleCred, tok, account, signup, signRole>>
            /\ verifier' = verifier /\ cooling' \in {cooling, FALSE} /\ touching' \subseteq touching
        BY <2>5 DEF CooldownEnds, TouchLastUsed, identityVars, oidcVars, callVars, tokenVars, accountVars
      <3>2. IdentityTypeOK'
        BY <3>1 DEF IdentityIInv, IdentityInv, IdentityTypeOK
      <3>3. GuardsWithinPolicy' /\ DeadTokensStayDead' /\ RightsNotMinted' /\ OneAccountPerEmail' /\ CallsKnown'
        BY <3>1 DEF GuardsWithinPolicy, DeadTokensStayDead, RightsNotMinted, CallsKnown, WithinRights,
           OneAccountPerEmail, IdentityIInv, IdentityInv
      <3> QED  BY <3>1, <3>2, <3>3 DEF IdentityIInv, IdentityInv
    <2>6. ASSUME CallNext(Call, Person, Routes)
          PROVE  \/ CooldownEnds \/ (\E t \in ApiToken : TouchLastUsed(t) \/ ExpireToken(t))
                 \/ \E c \in Call, w \in Person \cup ApiToken, rt \in Routes : Arrive(c, w, rt)
                 \/ \E c \in Call :
                      \/ ensureProvider(c) \/ AuthenticateOIDC(c) \/ Authenticate(c) \/ Guard(c) \/ HandleOther(c)
                      \/ \E t \in ApiToken : DeleteAPIToken(c, t) \/ DeleteRow(c, t)
                      \/ \E t \in ApiToken, role \in RbacRole : CreateAPIToken(c, t, role)
      <3>1. (\E c \in Call : call[c] = "idle") => (CHOOSE c \in Call : call[c] = "idle") \in Call
        OBVIOUS
      <3> QED  BY <2>6, <3>1 DEF CallNext
    <2> QED  BY <2>1, <2>2, <2>3, <2>4, <2>5, <2>6
  <1>3. IdentityIInv => IdentityInv
    BY DEF IdentityIInv
  <1> QED  BY <1>1, <1>2, <1>3, PTL DEF IdentitySpec

-----------------------------------------------------------------------------
(* AppDeploys *)

\* A non-empty set of naturals has a least element.
LEMMA NatLeast ==
  ASSUME NEW T, T \subseteq Nat, T # {}
  PROVE  \E x \in T : \A y \in T : x <= y
  <1> DEFINE R == OpToRel(<, Nat)
  <1>1. IsWellFoundedOn(R, Nat)
    BY NatLessThanWellFounded
  <1>2. \A x, y \in Nat : x < y => <<x, y>> \in R
    BY DEF OpToRel
  <1> HIDE DEF R
  <1>3. PICK x \in T : \A y \in T : ~ (<<y, x>> \in R)
    <2>1. \E x \in T : \A y \in T : ~ (<<y, x>> \in R)
      BY <1>1, WFMin
    <2>2. QED
      BY <2>1
  <1>4. ASSUME NEW y \in T
        PROVE  x <= y
    <2>1. x \in Nat /\ y \in Nat
      OBVIOUS
    <2>2. ~ (y < x)
      BY <1>2, <1>3, <2>1, Zenon
    <2>3. QED
      BY <2>1, <2>2
  <1>5. QED
    BY <1>4

AppRow == [kind : {"deploy", "rollback"}, status : {"none", "success", "failed"},
           image : Release \cup {NoRelease}]

ReleasePoint == {"idle", "working", "cloned", "planned", "executed", "recorded", "returned",
                 "refused", "rejected", "done"}

\* What a release deploys is settled when it is accepted, and a build that has
\* a pipeline is of the reviewed commit.
ReleasesKnown ==
    \A r \in Release :
        /\ ReleaseKind[r] = "rollback" /\ release[r] \in {"idle", "refused"} => target[r] = NoRelease
        /\ release[r] \notin {"idle", "refused"} =>
              target[r] \in IF ReleaseKind[r] = "rollback" THEN shipped ELSE {r}
        /\ ReleaseKind[r] # "rollback" /\ release[r] = "planned" => HeadMatches(r)

\* An image in the cluster was built by a release that has run, and the
\* history names such images only.
ImagesSound ==
    /\ \A r \in shipped \cup ({liveImage} \ {NoRelease}) :
          /\ release[r] \in {"executed", "recorded", "returned", "done"}
          /\ ReleaseKind[r] # "rollback" /\ HeadMatches(r)
    /\ \A i \in imageRows : history[i].image \in shipped

\* A release that brought its image to the cluster and has no row yet.
Shows(r) == release[r] = "executed" /\ result[r] = "success" /\ SingleImage(r)

\* As long as releases go one at a time, the live image is the one of the
\* release that is about to be recorded, or else of the newest row.
Undrifted ==
    /\ \A r \in Release : Shows(r) => target[r] \in shipped
    /\ ~disturbed =>
        /\ \A r, s \in Release : release[r] = "executed" /\ release[s] = "executed" => r = s
        /\ \A r \in Release : Shows(r) => liveImage = target[r]
        /\ (\A r \in Release : ~Shows(r)) => expectedImage \in {NoRelease, liveImage}

ReleaseIInv ==
    /\ AppDeploysInv /\ ReleasesKnown /\ ImagesSound /\ Undrifted
    /\ planOf \in [Release -> Plan] /\ history \in Seq(AppRow)

\* Among finitely many rows one is the newest.
LEMMA NewestRow ==
    ASSUME NEW n \in Nat, NEW rows \in SUBSET (1 .. n), rows # {}
    PROVE  newest(rows) \in rows /\ \A j \in rows : j <= newest(rows)
  <1> DEFINE above == {m \in Nat : \A j \in rows : j <= m}
  <1>1. n \in above
    OBVIOUS
  <1>2. PICK m \in above : \A k \in above : m <= k
    BY <1>1, NatLeast
  <1>3. m \in rows
    <2> SUFFICES ASSUME m \notin rows PROVE FALSE
      OBVIOUS
    <2>1. \A j \in rows : j <= m - 1 /\ m - 1 \in Nat
      BY <1>2
    <2>2. m - 1 \in above
      BY <2>1
    <2> QED  BY <1>2, <2>2
  <1>4. \E i \in rows : \A j \in rows : j <= i
    BY <1>2, <1>3
  <1> QED  BY <1>4 DEF newest

\* A rollback finds images of successful rows only.
LEMMA RollbackTargets ==
    ASSUME ReleaseIInv, NEW image \in resolveRollbackTarget
    PROVE  image \in shipped
  <1>1. Len(history) \in Nat /\ imageRows \subseteq 1 .. Len(history)
    BY DEF ReleaseIInv, imageRows
  <1>2. candidates \subseteq imageRows
    BY DEF candidates
  <1>3. CASE image \in {history[i].image : i \in imageRows}
    BY <1>3 DEF ReleaseIInv, ImagesSound
  <1>4. CASE image \notin {history[i].image : i \in imageRows}
    <2> DEFINE rest == candidates \ {newest(candidates)}
    <2>1. ~(Cardinality(candidates) < 2) /\ image = history[newest(rest)].image
      BY <1>4 DEF resolveRollbackTarget
    <2>2. rest # {}
      <3> SUFFICES ASSUME rest = {} PROVE FALSE
        OBVIOUS
      <3>1. candidates \subseteq {newest(candidates)}
        OBVIOUS
      <3>2. IsFiniteSet({newest(candidates)}) /\ Cardinality({newest(candidates)}) = 1
        BY FS_Singleton
      <3>3. Cardinality(candidates) <= 1 /\ Cardinality(candidates) \in Nat
        BY <3>1, <3>2, FS_Subset, FS_CardinalityType
      <3> QED  BY <2>1, <3>3
    <2>3. newest(rest) \in rest
      BY <1>1, <1>2, <2>2, NewestRow
    <2> QED  BY <1>2, <2>1, <2>3 DEF ReleaseIInv, ImagesSound
  <1> QED  BY <1>3, <1>4

\* A step of a release that leaves the cluster and the history alone.
Quiet(r) ==
    /\ release' \in [Release -> ReleasePoint] /\ planOf' \in [Release -> Plan]
    /\ builtFrom' \in [Release -> Commit \cup {NoCommit}]
    /\ target' \in [Release -> Release \cup {NoRelease}]
    /\ runRow' \in [Release -> {"none", "running", "success", "failed"}]
    /\ \A q \in Release \ {r} : /\ release'[q] = release[q] /\ planOf'[q] = planOf[q]
                                /\ builtFrom'[q] = builtFrom[q] /\ target'[q] = target[q]
                                /\ runRow'[q] = runRow[q]
    /\ release[r] # "executed" /\ release'[r] \notin {"idle", "executed"}
    /\ unsaved \subseteq unsaved' /\ workdir' \subseteq workdir \cup {r}
    /\ UNCHANGED <<result, head, plan, history, liveImage, shipped, disturbed>>

LEMMA QuietRelease ==
    ASSUME ReleaseIInv, NEW r \in Release, Quiet(r),
           release[r] \in {"recorded", "returned", "done"} =>
              /\ planOf'[r] = planOf[r] /\ builtFrom'[r] = builtFrom[r]
              /\ release'[r] \in {"returned", "done"},
           r \in workdir' => release'[r] \in {"cloned", "planned"},
           ReleaseKind[r] = "rollback" /\ release'[r] = "refused" => target'[r] = NoRelease,
           release'[r] # "refused" =>
              target'[r] \in IF ReleaseKind[r] = "rollback" THEN shipped ELSE {r},
           ReleaseKind[r] # "rollback" /\ release'[r] = "planned" => HeadMatches(r)',
           ReleaseKind[r] # "rollback" /\ release'[r] = "done" =>
              r \in unsaved' \/ runRow'[r] \in {"success", "failed"}
    PROVE  ReleaseIInv'
  <1> USE DEF ReleaseIInv, AppDeploysInv, AppDeploysTypeOK, ReleasePoint, Quiet
  <1>1. \A q \in Release \ {r} : /\ release'[q] = release[q] /\ planOf'[q] = planOf[q]
                                 /\ builtFrom'[q] = builtFrom[q] /\ target'[q] = target[q]
                                 /\ runRow'[q] = runRow[q]
    OBVIOUS
  <1>2. AppDeploysTypeOK' /\ planOf' \in [Release -> Plan] /\ history' \in Seq(AppRow)
    OBVIOUS
  <1>3. ImagesSound'
    <2>1. \A i \in imageRows' : history'[i].image \in shipped'
      BY DEF ImagesSound, imageRows
    <2>2. ASSUME NEW i \in shipped \cup ({liveImage} \ {NoRelease})
          PROVE  /\ release'[i] \in {"executed", "recorded", "returned", "done"}
                 /\ ReleaseKind[i] # "rollback" /\ HeadMatches(i)'
      <3>0. i \in Release /\ release[i] \in {"executed", "recorded", "returned", "done"}
            /\ ReleaseKind[i] # "rollback" /\ HeadMatches(i)
        BY DEF ImagesSound
      <3>1. CASE i = r
        BY <1>1, <3>0, <3>1 DEF HeadMatches
      <3>2. CASE i # r
        BY <1>1, <3>0, <3>2 DEF HeadMatches
      <3> QED  BY <3>1, <3>2
    <2> QED  BY <2>1, <2>2 DEF ImagesSound
  <1>4. ReviewedCommitShips'
    <2>1. \A i \in shipped' \cup ({liveImage'} \ {NoRelease}) : HeadMatches(i)'
      BY <1>3 DEF ImagesSound
    <2> QED  BY <2>1 DEF ReviewedCommitShips, HeadMatches
  <1>5. RollbackToShipped'
    BY <1>1 DEF RollbackToShipped
  <1>6. StubsSettle'
    BY <1>1 DEF StubsSettle
  <1>7. WorkdirsRemoved'
    BY <1>1 DEF WorkdirsRemoved
  <1>8. \A q \in Release : /\ release'[q] = "executed" <=> release[q] = "executed"
                           /\ (Shows(q)' <=> Shows(q)) /\ (Shows(q) => target'[q] = target[q])
    BY <1>1 DEF Shows, SingleImage
  <1>9. expectedImage' = expectedImage
    BY DEF expectedImage, imageRows, newest
  <1>10. Undrifted'
    <2>1. \A q \in Release : Shows(q)' => target'[q] \in shipped'
      BY <1>8 DEF Undrifted
    <2>2. ~disturbed' => \A q, s \in Release : release'[q] = "executed" /\ release'[s] = "executed" => q = s
      BY <1>8 DEF Undrifted
    <2>3. ~disturbed' => \A q \in Release : Shows(q)' => liveImage' = target'[q]
      BY <1>8 DEF Undrifted
    <2>4. ~disturbed' /\ (\A q \in Release : ~Shows(q)') => expectedImage' \in {NoRelease, liveImage'}
      BY <1>8, <1>9 DEF Undrifted
    <2> QED  BY <2>1, <2>2, <2>3, <2>4 DEF Undrifted
  <1>11. DriftIsReal'
    <2> SUFFICES ASSUME InCluster' = {}, ~disturbed' PROVE CheckDrift' # "drifted"
      BY DEF DriftIsReal
    <2>1. \A q \in Release : ~Shows(q)'
      BY DEF InCluster, Shows
    <2> QED  BY <1>10, <2>1 DEF Undrifted, CheckDrift
  <1>12. ReleasesKnown'
    <2> SUFFICES ASSUME NEW q \in Release
                 PROVE  /\ ReleaseKind[q] = "rollback" /\ release'[q] \in {"idle", "refused"}
                              => target'[q] = NoRelease
                        /\ release'[q] \notin {"idle", "refused"} =>
                              target'[q] \in IF ReleaseKind[q] = "rollback" THEN shipped ELSE {q}
                        /\ ReleaseKind[q] # "rollback" /\ release'[q] = "planned" => HeadMatches(q)'
      BY DEF ReleasesKnown
    <2>1. CASE q = r
      BY <1>1, <2>1 DEF HeadMatches
    <2>2. CASE q # r
      BY <1>1, <2>2 DEF ReleasesKnown, HeadMatches
    <2> QED  BY <2>1, <2>2
  <1> QED  BY <1>2, <1>3, <1>4, <1>5, <1>6, <1>7, <1>10, <1>11, <1>12

\* The requests: a deploy, a push, a rollback, accepted or refused.
LEMMA RequestsKeep ==
    ASSUME ReleaseIInv, NEW r \in Release,
           DeployApp(r) \/ RollbackApp(r) \/ \E push \in Pushes : WebhookDeploy(r, push)
    PROVE  ReleaseIInv'
  <1>1. /\ release[r] = "idle"
        /\ UNCHANGED <<builtFrom, workdir, result, unsaved, head, plan, history, liveImage, shipped, disturbed>>
    BY DEF DeployApp, RollbackApp, WebhookDeploy, Elsewhere
  <1>2. r \notin workdir
    BY <1>1 DEF ReleaseIInv, AppDeploysInv, WorkdirsRemoved
  <1>3. \/ Accept(r) /\ release' \in {[release EXCEPT ![r] = "working"], [release EXCEPT ![r] = "rejected"]}
        \/ Refuse(r) /\ release' = [release EXCEPT ![r] = "refused"]
    BY DEF DeployApp, RollbackApp, WebhookDeploy, Accept, Refuse, ReleaseGoes
  <1>4. /\ planOf' \in [Release -> Plan] /\ runRow' \in [Release -> {"none", "running", "success", "failed"}]
        /\ \A q \in Release \ {r} : planOf'[q] = planOf[q] /\ runRow'[q] = runRow[q]
    BY <1>3 DEF Accept, Refuse, ReleaseIInv, AppDeploysInv, AppDeploysTypeOK
  <1>5. /\ release' \in [Release -> ReleasePoint] /\ release'[r] \in {"working", "rejected", "refused"}
        /\ \A q \in Release \ {r} : release'[q] = release[q]
        /\ release'[r] = "refused" <=> ~Accept(r)
    <2>1. release \in [Release -> ReleasePoint]
      BY DEF ReleaseIInv, AppDeploysInv, AppDeploysTypeOK, ReleasePoint
    <2>2. Accept(r) => release'[r] \in {"working", "rejected"}
      BY <2>1 DEF Accept, ReleaseGoes
    <2> QED  BY <1>3, <2>1, <2>2 DEF ReleasePoint
  <1>6. \E t \in Release \cup {NoRelease} :
           /\ target' = [target EXCEPT ![r] = t]
           /\ ReleaseKind[r] # "rollback" => t = r
           /\ ReleaseKind[r] = "rollback" /\ Accept(r) => t \in shipped
           /\ ReleaseKind[r] = "rollback" /\ ~Accept(r) => t = NoRelease
    <2>1. CASE ReleaseKind[r] # "rollback"
      BY <2>1 DEF DeployApp, RollbackApp, WebhookDeploy
    <2>2. CASE ReleaseKind[r] = "rollback"
      <3>1. RollbackApp(r)
        BY <2>2 DEF DeployApp, WebhookDeploy
      <3>2. CASE \E image \in resolveRollbackTarget : target' = [target EXCEPT ![r] = image] /\ Accept(r)
        <4>1. PICK image \in resolveRollbackTarget : target' = [target EXCEPT ![r] = image] /\ Accept(r)
          BY <3>2
        <4>2. image \in shipped /\ shipped \subseteq Release
          BY RollbackTargets DEF ReleaseIInv, AppDeploysInv, AppDeploysTypeOK
        <4> QED  BY <2>2, <4>1, <4>2
      <3>3. CASE Refuse(r) /\ UNCHANGED target
        <4>1. target[r] = NoRelease /\ target = [target EXCEPT ![r] = target[r]]
          BY <1>1, <2>2 DEF ReleaseIInv, ReleasesKnown, AppDeploysInv, AppDeploysTypeOK
        <4>2. release'[r] = "refused"
          BY <3>3 DEF Refuse, ReleaseGoes, ReleaseIInv, AppDeploysInv, AppDeploysTypeOK
        <4> QED  BY <1>5, <2>2, <3>3, <4>1, <4>2
      <3> QED  BY <3>1, <3>2, <3>3 DEF RollbackApp
    <2> QED  BY <2>1, <2>2
  <1>7. /\ target' \in [Release -> Release \cup {NoRelease}]
        /\ \A q \in Release \ {r} : target'[q] = target[q]
        /\ ReleaseKind[r] # "rollback" => target'[r] = r
        /\ ReleaseKind[r] = "rollback" /\ Accept(r) => target'[r] \in shipped
        /\ ReleaseKind[r] = "rollback" /\ ~Accept(r) => target'[r] = NoRelease
    BY <1>6 DEF ReleaseIInv, AppDeploysInv, AppDeploysTypeOK
  <1>8. Quiet(r)
    BY <1>1, <1>4, <1>5, <1>7 DEF Quiet, ReleaseIInv, AppDeploysInv, AppDeploysTypeOK
  <1> QED  BY <1>1, <1>2, <1>5, <1>7, <1>8, QuietRelease

\* The deployer before the pipeline runs, and the ways out of it.
LEMMA DeployerKeeps ==
    ASSUME ReleaseIInv, NEW r \in Release,
           \/ DeployClone(r) \/ DeployPlan(r) \/ DeployImage(r) \/ DeployReturns(r)
           \/ FinishDeploy(r) \/ FinishRollback(r)
    PROVE  ReleaseIInv'
  <1> USE DEF ReleaseGoes
  <1>1. /\ release[r] \in {"working", "cloned", "recorded", "returned"}
        /\ UNCHANGED <<planOf, target, result, head, plan, history, liveImage, shipped, disturbed>>
    BY DEF DeployClone, DeployPlan, DeployImage, DeployReturns, FinishDeploy, FinishRollback, Elsewhere
  <1>2. target[r] \in IF ReleaseKind[r] = "rollback" THEN shipped ELSE {r}
    BY <1>1 DEF ReleaseIInv, ReleasesKnown
  <1>3. /\ r \in workdir => release[r] \in {"cloned", "recorded"} /\ workdir \subseteq Release
        /\ result[r] \in {"none", "success", "failed"} /\ head \in Commit
        /\ planOf[r].commit \in Commit \cup {NoCommit}
    BY <1>1 DEF ReleaseIInv, AppDeploysInv, AppDeploysTypeOK, WorkdirsRemoved, Plan
  <1>4. \E pt \in {"cloned", "planned", "returned", "done"} :
           /\ release' = [release EXCEPT ![r] = pt]
           /\ pt = "cloned" => release[r] = "working"
           /\ pt = "planned" => /\ release[r] \in {"working", "cloned"} /\ UNCHANGED builtFrom
                                /\ ReleaseKind[r] # "rollback" => HeadMatches(r)
           /\ pt = "done" => /\ release[r] = "returned"
                             /\ ReleaseKind[r] # "rollback" =>
                                   \/ r \in unsaved'
                                   \/ runRow' = [runRow EXCEPT ![r] = "failed"]
                                   \/ runRow' = [runRow EXCEPT ![r] = "success"]
           /\ pt = "returned" => UNCHANGED builtFrom
           /\ r \in workdir' => pt \in {"cloned", "planned"}
    BY <1>3 DEF DeployClone, DeployPlan, DeployImage, DeployReturns, FinishDeploy, FinishRollback,
       Leaves, failedRun
  <1>5. /\ builtFrom' \in [Release -> Commit \cup {NoCommit}]
        /\ \A q \in Release \ {r} : builtFrom'[q] = builtFrom[q]
        /\ release[r] # "working" => UNCHANGED builtFrom
        /\ unsaved \subseteq unsaved' /\ workdir' \subseteq workdir \cup {r}
    BY <1>3 DEF DeployClone, DeployPlan, DeployImage, DeployReturns, FinishDeploy, FinishRollback,
       Leaves, ReleaseIInv, AppDeploysInv, AppDeploysTypeOK
  <1>6. /\ runRow' \in [Release -> {"none", "running", "success", "failed"}]
        /\ \A q \in Release \ {r} : runRow'[q] = runRow[q]
    BY <1>3 DEF DeployClone, DeployPlan, DeployImage, DeployReturns, FinishDeploy, FinishRollback,
       failedRun, ReleaseIInv, AppDeploysInv, AppDeploysTypeOK
  <1>7. PICK pt \in {"cloned", "planned", "returned", "done"} :
           /\ release' = [release EXCEPT ![r] = pt]
           /\ pt = "cloned" => release[r] = "working"
           /\ pt = "planned" => /\ release[r] \in {"working", "cloned"} /\ UNCHANGED builtFrom
                                /\ ReleaseKind[r] # "rollback" => HeadMatches(r)
           /\ pt = "done" => /\ release[r] = "returned"
                             /\ ReleaseKind[r] # "rollback" =>
                                   \/ r \in unsaved'
                                   \/ runRow' = [runRow EXCEPT ![r] = "failed"]
                                   \/ runRow' = [runRow EXCEPT ![r] = "success"]
           /\ pt = "returned" => UNCHANGED builtFrom
           /\ r \in workdir' => pt \in {"cloned", "planned"}
    BY <1>4
  <1>8. /\ release' \in [Release -> ReleasePoint] /\ release'[r] = pt
        /\ \A q \in Release \ {r} : release'[q] = release[q]
    BY <1>7 DEF ReleaseIInv, AppDeploysInv, AppDeploysTypeOK, ReleasePoint
  <1>9. Quiet(r)
    BY <1>1, <1>5, <1>6, <1>8 DEF Quiet, ReleaseIInv, AppDeploysInv, AppDeploysTypeOK
  <1>10. ReleaseKind[r] # "rollback" /\ pt = "done" => r \in unsaved' \/ runRow'[r] \in {"success", "failed"}
    BY <1>7 DEF ReleaseIInv, AppDeploysInv, AppDeploysTypeOK
  <1>11. ReleaseKind[r] # "rollback" /\ pt = "planned" => HeadMatches(r)'
    BY <1>1, <1>7 DEF HeadMatches
  <1> QED  BY <1>1, <1>2, <1>5, <1>7, <1>8, <1>9, <1>10, <1>11, QuietRelease

\* What the image rows know about the reviewed commits and the drift.
LEMMA ReleaseConclusions ==
    ASSUME ImagesSound, Undrifted
    PROVE  ReviewedCommitShips /\ DriftIsReal
  <1>1. ReviewedCommitShips
    BY DEF ImagesSound, ReviewedCommitShips, HeadMatches
  <1>2. DriftIsReal
    <2> SUFFICES ASSUME InCluster = {}, ~disturbed PROVE CheckDrift # "drifted"
      BY DEF DriftIsReal
    <2>1. \A q \in Release : ~Shows(q)
      BY DEF InCluster, Shows
    <2> QED  BY <2>1 DEF Undrifted, CheckDrift
  <1> QED  BY <1>1, <1>2

\* The pipeline of a release runs.
LEMMA ExecuteKeeps ==
    ASSUME ReleaseIInv, NEW r \in Release, ExecuteRelease(r)
    PROVE  ReleaseIInv'
  <1> USE DEF ReleaseIInv, AppDeploysInv, AppDeploysTypeOK
  <1>1. PICK res \in {"success", "failed"}, applied \in BOOLEAN :
          /\ res = "success" => applied
          /\ result' = [result EXCEPT ![r] = res]
          /\ liveImage' = IF applied /\ SingleImage(r) THEN target[r] ELSE liveImage
          /\ shipped' = IF res = "success" /\ SingleImage(r) THEN shipped \cup {target[r]} ELSE shipped
          /\ disturbed' = (disturbed \/ (applied /\ res = "failed") \/ InCluster # {r})
    BY DEF ExecuteRelease
  <1>2. /\ release[r] = "planned" /\ release' = [release EXCEPT ![r] = "executed"]
        /\ UNCHANGED <<head, plan, planOf, builtFrom, workdir, target, runRow, unsaved, history>>
    BY DEF ExecuteRelease, ReleaseGoes
  <1>3. /\ release'[r] = "executed" /\ result'[r] = res
        /\ \A q \in Release \ {r} : release'[q] = release[q] /\ result'[q] = result[q]
    BY <1>1, <1>2
  <1>4. target[r] \in (IF ReleaseKind[r] = "rollback" THEN shipped ELSE {r}) /\ target[r] \in Release
    BY <1>2 DEF ReleasesKnown
  <1>5. shipped \subseteq shipped' /\ shipped' \subseteq shipped \cup {target[r]}
        /\ liveImage' \in {liveImage, target[r]}
    BY <1>1
  <1>6. AppDeploysTypeOK' /\ planOf' \in [Release -> Plan] /\ history' \in Seq(AppRow)
    <2>1. result' \in [Release -> {"none", "success", "failed"}]
      BY <1>1
    <2> QED  BY <1>2, <1>4, <1>5, <2>1
  <1>7. ImagesSound'
    <2>1. \A i \in imageRows' : history'[i].image \in shipped'
      BY <1>2, <1>5 DEF ImagesSound, imageRows
    <2>2. ASSUME NEW i \in shipped' \cup ({liveImage'} \ {NoRelease})
          PROVE  /\ release'[i] \in {"executed", "recorded", "returned", "done"}
                 /\ ReleaseKind[i] # "rollback" /\ HeadMatches(i)'
      <3>1. CASE i \in shipped \cup ({liveImage} \ {NoRelease})
        <4>1. /\ release[i] \in {"executed", "recorded", "returned", "done"} /\ i \in Release
              /\ ReleaseKind[i] # "rollback" /\ HeadMatches(i)
          BY <3>1 DEF ImagesSound
        <4> QED  BY <1>2, <1>3, <4>1 DEF HeadMatches
      <3>2. CASE i \notin shipped \cup ({liveImage} \ {NoRelease})
        <4>1. i = r /\ ReleaseKind[r] # "rollback"
          BY <1>4, <1>5, <3>2
        <4>2. HeadMatches(r)
          BY <1>2, <4>1 DEF ReleasesKnown
        <4> QED  BY <1>2, <1>3, <4>1, <4>2 DEF HeadMatches
      <3> QED  BY <3>1, <3>2
    <2> QED  BY <2>1, <2>2 DEF ImagesSound
  <1>8. Undrifted'
    <2>1. \A q \in Release \ {r} : Shows(q)' <=> Shows(q)
      BY <1>2, <1>3 DEF Shows, SingleImage
    <2>2. Shows(r)' <=> (res = "success" /\ SingleImage(r))
      BY <1>2, <1>3 DEF Shows, SingleImage
    <2>3. ASSUME NEW q \in Release, Shows(q)' PROVE target'[q] \in shipped'
      BY <1>1, <1>2, <1>5, <2>1, <2>2, <2>3 DEF Undrifted
    <2>4. ASSUME ~disturbed' PROVE ~disturbed /\ ~(applied /\ res = "failed") /\ InCluster = {r}
      BY <1>1, <2>4
    <2>5. ASSUME ~disturbed' PROVE \A q \in Release \ {r} : release[q] # "executed" /\ ~Shows(q)'
      <3>1. \A q \in Release \ {r} : release[q] # "executed"
        BY <2>4, <2>5 DEF InCluster
      <3> QED  BY <2>1, <3>1 DEF Shows
    <2>6. ASSUME ~disturbed', Shows(r)' PROVE liveImage' = target'[r]
      BY <1>1, <1>2, <2>2, <2>6
    <2>7. ASSUME ~disturbed', ~Shows(r)' PROVE expectedImage' \in {NoRelease, liveImage'}
      <3>1. liveImage' = liveImage
        BY <1>1, <2>2, <2>4, <2>7
      <3>2. \A q \in Release : ~Shows(q)
        BY <1>2, <2>5, <2>7, <2>1 DEF Shows
      <3>3. expectedImage' = expectedImage
        BY <1>2 DEF expectedImage, imageRows, newest
      <3>4. expectedImage \in {NoRelease, liveImage}
        BY <2>4, <2>7, <3>2 DEF Undrifted
      <3> QED  BY <3>1, <3>3, <3>4
    <2>8. \A q \in Release : Shows(q)' => target'[q] \in shipped'
      BY <2>3
    <2>9. ~disturbed' => \A q, s \in Release : release'[q] = "executed" /\ release'[s] = "executed" => q = s
      BY <1>3, <2>5
    <2>10. ~disturbed' => \A q \in Release : Shows(q)' => liveImage' = target'[q]
      BY <2>5, <2>6
    <2>11. ~disturbed' /\ (\A q \in Release : ~Shows(q)') => expectedImage' \in {NoRelease, liveImage'}
      BY <2>7
    <2> QED  BY <2>8, <2>9, <2>10, <2>11 DEF Undrifted
  <1>9. ReviewedCommitShips' /\ DriftIsReal'
    BY <1>7, <1>8, ReleaseConclusions, PTL
  <1>10. RollbackToShipped' /\ StubsSettle' /\ WorkdirsRemoved'
    BY <1>2, <1>3, <1>5 DEF RollbackToShipped, StubsSettle, WorkdirsRemoved
  <1>11. ReleasesKnown'
    <2> SUFFICES ASSUME NEW q \in Release
                 PROVE  /\ ReleaseKind[q] = "rollback" /\ release'[q] \in {"idle", "refused"}
                              => target'[q] = NoRelease
                        /\ release'[q] \notin {"idle", "refused"} =>
                              target'[q] \in IF ReleaseKind[q] = "rollback" THEN shipped' ELSE {q}
                        /\ ReleaseKind[q] # "rollback" /\ release'[q] = "planned" => HeadMatches(q)'
      BY DEF ReleasesKnown
    <2>1. CASE q = r
      BY <1>2, <1>3, <1>4, <1>5, <2>1
    <2>2. CASE q # r
      BY <1>2, <1>3, <1>5, <2>2 DEF ReleasesKnown, HeadMatches
    <2> QED  BY <2>1, <2>2
  <1> QED  BY <1>6, <1>7, <1>8, <1>9, <1>10, <1>11

\* What a new row does to the newest successful one.
LEMMA NewRow ==
    ASSUME history \in Seq(AppRow), NEW row \in AppRow, history' = Append(history, row)
    PROVE  /\ history' \in Seq(AppRow) /\ \A i \in imageRows : history'[i] = history[i]
           /\ row.status = "success" /\ row.image # NoRelease =>
                 /\ expectedImage' = row.image
                 /\ imageRows' = imageRows \cup {Len(history) + 1} /\ history'[Len(history) + 1] = row
           /\ ~(row.status = "success" /\ row.image # NoRelease) =>
                 expectedImage' = expectedImage /\ imageRows' = imageRows
  <1>1. /\ history' \in Seq(AppRow) /\ Len(history) \in Nat /\ history'[Len(history) + 1] = row
        /\ DOMAIN history' = DOMAIN history \cup {Len(history) + 1} /\ DOMAIN history = 1 .. Len(history)
        /\ \A i \in DOMAIN history : history'[i] = history[i]
    OBVIOUS
  <1>2. imageRows \subseteq 1 .. Len(history)
    BY <1>1 DEF imageRows
  <1>3. ASSUME row.status = "success", row.image # NoRelease
        PROVE  expectedImage' = row.image /\ imageRows' = imageRows \cup {Len(history) + 1}
    <2>1. imageRows' = imageRows \cup {Len(history) + 1}
      BY <1>1, <1>3 DEF imageRows
    <2> DEFINE rows == imageRows \cup {Len(history) + 1}
    <2>0. \A n \in Nat : \A S \in SUBSET (1 .. n) :
             /\ S \cup {n + 1} \in SUBSET (1 .. (n + 1)) /\ n + 1 \in Nat
             /\ \A k \in S \cup {n + 1} : (\A j \in S \cup {n + 1} : j <= k) => k = n + 1
      OBVIOUS
    <2>2. rows \in SUBSET (1 .. (Len(history) + 1)) /\ rows # {} /\ Len(history) + 1 \in Nat
      BY <1>1, <1>2, <2>0
    <2>3. newest(rows) \in rows /\ \A j \in rows : j <= newest(rows)
      <3> HIDE DEF rows
      <3> QED  BY <2>2, NewestRow
    <2>4. newest(rows) = Len(history) + 1
      BY <1>1, <1>2, <2>0, <2>3
    <2>5. expectedImage' = history'[newest(rows)].image
      BY <2>1 DEF expectedImage, newest
    <2> QED  BY <1>1, <2>1, <2>4, <2>5
  <1>4. ASSUME ~(row.status = "success" /\ row.image # NoRelease)
        PROVE  expectedImage' = expectedImage /\ imageRows' = imageRows
    <2>1. imageRows' = imageRows
      BY <1>1, <1>4 DEF imageRows
    <2>2. imageRows # {} => newest(imageRows) \in imageRows
      BY <1>1, <1>2, NewestRow
    <2>3. imageRows # {} => history'[newest(imageRows)] = history[newest(imageRows)]
      BY <1>1, <1>2, <2>2
    <2> QED  BY <2>1, <2>3 DEF expectedImage
  <1> QED  BY <1>1, <1>2, <1>3, <1>4

\* A release gets its row, or the write of it fails.
LEMMA RecordKeeps ==
    ASSUME ReleaseIInv, NEW r \in Release, RecordDeploy(r)
    PROVE  ReleaseIInv'
  <1> USE DEF ReleaseIInv, AppDeploysInv, AppDeploysTypeOK
  <1> DEFINE row == deployRecordFromRun(r)
  <1>1. /\ release[r] = "executed" /\ release' = [release EXCEPT ![r] = "recorded"]
        /\ UNCHANGED <<head, plan, planOf, builtFrom, workdir, target, result, runRow, unsaved, liveImage, shipped>>
        /\ \/ history' = Append(history, row) /\ disturbed' = disturbed
           \/ history' = history /\ disturbed' = TRUE
    BY DEF RecordDeploy, ReleaseGoes
  <1>2. release'[r] = "recorded" /\ \A q \in Release \ {r} : release'[q] = release[q]
    BY <1>1
  <1>3. target[r] \in Release
    BY <1>1 DEF ReleasesKnown
  <1>4. /\ row \in AppRow /\ (Shows(r) <=> (row.status = "success" /\ row.image # NoRelease))
        /\ Shows(r) => row.image = target[r]
    <2>1. row.status = result[r] /\ row.image = IF SingleImage(r) THEN target[r] ELSE NoRelease
      BY DEF deployRecordFromRun
    <2>2. row \in AppRow
      BY <1>3 DEF deployRecordFromRun, AppRow
    <2> QED  BY <1>1, <1>3, <2>1, <2>2, AppDeploysAssumption DEF Shows
  <1> HIDE DEF row
  <1>5. \A q \in Release : ~Shows(r)' /\ (q # r => (Shows(q)' <=> Shows(q)))
    BY <1>1, <1>2 DEF Shows, SingleImage
  <1>6. /\ history' \in Seq(AppRow)
        /\ \A i \in imageRows' : history'[i].image \in shipped
        /\ ~disturbed' => expectedImage' = IF Shows(r) THEN target[r] ELSE expectedImage
    <2>1. CASE history' = Append(history, row)
      <3>1. /\ history' \in Seq(AppRow) /\ \A i \in imageRows : history'[i] = history[i]
            /\ Shows(r) => /\ expectedImage' = row.image /\ imageRows' = imageRows \cup {Len(history) + 1}
                           /\ history'[Len(history) + 1] = row
            /\ ~Shows(r) => expectedImage' = expectedImage /\ imageRows' = imageRows
        BY <1>4, <2>1, NewRow
      <3>2. \A i \in imageRows : history[i].image \in shipped
        BY DEF ImagesSound
      <3>3. Shows(r) => row.image \in shipped
        BY <1>4 DEF Undrifted
      <3> QED  BY <1>4, <3>1, <3>2, <3>3
    <2>2. CASE history' = history /\ disturbed' = TRUE
      BY <2>2 DEF ImagesSound, imageRows
    <2> QED  BY <1>1, <2>1, <2>2
  <1>7. AppDeploysTypeOK' /\ planOf' \in [Release -> Plan]
    BY <1>1
  <1>8. ImagesSound'
    <2>1. ASSUME NEW i \in shipped' \cup ({liveImage'} \ {NoRelease})
          PROVE  /\ release'[i] \in {"executed", "recorded", "returned", "done"}
                 /\ ReleaseKind[i] # "rollback" /\ HeadMatches(i)'
      BY <1>1, <1>2 DEF ImagesSound, HeadMatches
    <2> QED  BY <1>1, <1>6, <2>1 DEF ImagesSound
  <1>9. Undrifted'
    <2>1. \A q \in Release : Shows(q)' => target'[q] \in shipped'
      BY <1>1, <1>5 DEF Undrifted
    <2>2. ASSUME ~disturbed' PROVE ~disturbed /\ \A q \in Release : release'[q] # "executed"
      BY <1>1, <1>2, <2>2 DEF Undrifted
    <2>3. ASSUME ~disturbed' PROVE expectedImage' \in {NoRelease, liveImage'}
      <3>1. CASE Shows(r)
        BY <1>1, <1>6, <2>2, <2>3, <3>1 DEF Undrifted
      <3>2. CASE ~Shows(r)
        <4>1. \A q \in Release : ~Shows(q)
          BY <1>2, <2>2, <2>3, <3>2 DEF Shows
        <4> QED  BY <1>1, <1>6, <2>2, <2>3, <3>2, <4>1 DEF Undrifted
      <3> QED  BY <3>1, <3>2
    <2>4. ~disturbed' => \A q \in Release : ~Shows(q)'
      BY <2>2 DEF Shows
    <2> QED  BY <2>1, <2>2, <2>3, <2>4 DEF Undrifted
  <1>10. ReviewedCommitShips' /\ DriftIsReal'
    BY <1>8, <1>9, ReleaseConclusions, PTL
  <1>11. RollbackToShipped' /\ StubsSettle' /\ WorkdirsRemoved'
    BY <1>1, <1>2 DEF RollbackToShipped, StubsSettle, WorkdirsRemoved
  <1>12. ReleasesKnown'
    BY <1>1, <1>2 DEF ReleasesKnown, HeadMatches
  <1> QED  BY <1>6, <1>7, <1>8, <1>9, <1>10, <1>11, <1>12

(***************************************************************************)
(* Deploys, webhook deploys and rollbacks of an app, for every number of   *)
(* them at once and every order of pushes and edits: Deploy ships an app   *)
(* with a reviewed commit from that commit only, resolveRollbackTarget     *)
(* finds only images that were deployed with success, a deploy leaves      *)
(* neither its clone nor a running row behind, and CheckDrift reports no   *)
(* drift of a workload that recorded releases changed one at a time.       *)
(***************************************************************************)
THEOREM AppDeploysInvariant == AppDeploysSpec => []AppDeploysInv
  <1>1. AppDeploysInit => ReleaseIInv
    <2> SUFFICES ASSUME AppDeploysInit PROVE ReleaseIInv
      OBVIOUS
    <2> USE DEF AppDeploysInit
    <2>1. AppDeploysTypeOK /\ planOf \in [Release -> Plan] /\ history \in Seq(AppRow)
      BY DEF AppDeploysTypeOK
    <2>2. imageRows = {} /\ \A r \in Release : ~Shows(r)
      BY DEF imageRows, Shows
    <2>3. ImagesSound /\ Undrifted
      BY <2>2 DEF ImagesSound, Undrifted, expectedImage
    <2>4. RollbackToShipped /\ StubsSettle /\ WorkdirsRemoved /\ ReleasesKnown
      BY DEF RollbackToShipped, StubsSettle, WorkdirsRemoved, ReleasesKnown
    <2> QED  BY <2>1, <2>3, <2>4, ReleaseConclusions DEF ReleaseIInv, AppDeploysInv
  <1>2. ReleaseIInv /\ [AppDeploysNext(Commit, Plan)]_appDeployVars => ReleaseIInv'
    <2> SUFFICES ASSUME ReleaseIInv, [AppDeploysNext(Commit, Plan)]_appDeployVars PROVE ReleaseIInv'
      OBVIOUS
    <2>1. CASE (\E c \in Commit : Push(c)) \/ (\E p \in Plan : SavePlan(p)) \/ UNCHANGED appDeployVars
      <3>1. /\ UNCHANGED <<release, planOf, builtFrom, workdir, target, result, runRow, unsaved,
                           history, liveImage, shipped, disturbed>>
            /\ head' \in {head} \cup Commit /\ plan' \in {plan} \cup Plan
        BY <2>1 DEF Push, SavePlan, appDeployVars, releaseVars
      <3>2. AppDeploysTypeOK' /\ planOf' \in [Release -> Plan] /\ history' \in Seq(AppRow)
        BY <3>1 DEF ReleaseIInv, AppDeploysInv, AppDeploysTypeOK
      <3>3. ImagesSound' /\ ReleasesKnown'
        BY <3>1 DEF ReleaseIInv, ImagesSound, ReleasesKnown, imageRows, HeadMatches
      <3>4. Undrifted'
        <4>1. \A q \in Release : Shows(q)' <=> Shows(q)
          BY <3>1 DEF Shows, SingleImage
        <4>2. expectedImage' = expectedImage
          BY <3>1 DEF expectedImage, imageRows, newest
        <4> QED  BY <3>1, <4>1, <4>2 DEF ReleaseIInv, Undrifted
      <3>5. ReviewedCommitShips' /\ DriftIsReal'
        BY <3>3, <3>4, ReleaseConclusions, PTL
      <3>6. RollbackToShipped' /\ StubsSettle' /\ WorkdirsRemoved'
        BY <3>1 DEF ReleaseIInv, AppDeploysInv, RollbackToShipped, StubsSettle, WorkdirsRemoved
      <3> QED  BY <3>2, <3>3, <3>4, <3>5, <3>6 DEF ReleaseIInv, AppDeploysInv
    <2>2. CASE \E r \in Release :
                  DeployApp(r) \/ RollbackApp(r) \/ \E push \in Pushes : WebhookDeploy(r, push)
      BY <2>2, RequestsKeep
    <2>3. CASE \E r \in Release :
                  \/ DeployClone(r) \/ DeployPlan(r) \/ DeployImage(r) \/ DeployReturns(r)
                  \/ FinishDeploy(r) \/ FinishRollback(r)
      BY <2>3, DeployerKeeps
    <2>4. CASE \E r \in Release : ExecuteRelease(r)
      BY <2>4, ExecuteKeeps
    <2>5. CASE \E r \in Release : RecordDeploy(r)
      BY <2>5, RecordKeeps
    <2> QED  BY <2>1, <2>2, <2>3, <2>4, <2>5 DEF AppDeploysNext, ReleaseStep
  <1>3. ReleaseIInv => AppDeploysInv
    BY DEF ReleaseIInv
  <1> QED  BY <1>1, <1>2, <1>3, PTL DEF AppDeploysSpec

-----------------------------------------------------------------------------
(* The audit trail *)

Apart(s) == \A i, j \in 1..Len(s) : s[i] = s[j] => i = j

EmittedBy == {m \in Mutation : req[m] \in {"emitted", "panicked"}}
Accounted == ToSet(trail) \cup lost \cup purged \cup stopped

\* An event is in one place at a time, and it was emitted.
EventsApart ==
    /\ Apart(ch) /\ Apart(trail)
    /\ ToSet(ch) \cup ToSet(writing) \cup Accounted \subseteq EmittedBy
    /\ (ToSet(ch) \cup ToSet(writing)) \cap Accounted = {} /\ ToSet(ch) \cap ToSet(writing) = {}

\* The send after a Close sees the channel closed; the flag was set before.
ClosesInOrder == /\ closer \in {"draining", "closed"} => chClosed
                 /\ closer # "open" \/ chClosed => closed

AuditIInv == AuditTypeOK /\ EventsAccounted /\ EventsApart /\ ClosesInOrder

\* The elements of a sequence, by their positions.
LEMMA SetOf ==
    ASSUME NEW s \in Seq(Mutation)
    PROVE  /\ \A m : m \in ToSet(s) <=> \E i \in 1..Len(s) : s[i] = m
           /\ ToSet(s) \subseteq Mutation /\ Len(s) \in Nat
  <1>1. Len(s) \in Nat /\ DOMAIN s = 1..Len(s) /\ \A i \in 1..Len(s) : s[i] \in Mutation
    BY LenProperties
  <1> QED  BY <1>1 DEF ToSet

LEMMA SetOfAppended ==
    ASSUME NEW s \in Seq(Mutation), NEW m \in Mutation
    PROVE  /\ Append(s, m) \in Seq(Mutation) /\ Len(Append(s, m)) = Len(s) + 1
           /\ ToSet(Append(s, m)) = ToSet(s) \cup {m}
           /\ Apart(s) /\ m \notin ToSet(s) => Apart(Append(s, m))
  <1> DEFINE t == Append(s, m)
  <1>1. /\ t \in Seq(Mutation) /\ Len(s) \in Nat /\ Len(t) = Len(s) + 1
        /\ t[Len(s) + 1] = m /\ \A i \in 1..Len(s) : t[i] = s[i]
    BY AppendProperties, LenProperties
  <1> HIDE DEF t
  <1>2. ToSet(t) = ToSet(s) \cup {m}
    <2>1. ASSUME NEW e \in ToSet(t) PROVE e \in ToSet(s) \cup {m}
      <3>1. PICK i \in 1..Len(t) : t[i] = e
        BY <1>1, <2>1, SetOf
      <3> QED  BY <1>1, <3>1, SetOf
    <2>2. ASSUME NEW e \in ToSet(s) PROVE e \in ToSet(t)
      <3>1. PICK i \in 1..Len(s) : s[i] = e
        BY <2>2, SetOf
      <3> QED  BY <1>1, <3>1, SetOf
    <2>3. m \in ToSet(t)
      <3>1. Len(s) + 1 \in 1..Len(t)
        BY <1>1
      <3> QED  BY <1>1, <3>1, SetOf
    <2> QED  BY <2>1, <2>2, <2>3
  <1>3. ASSUME Apart(s), m \notin ToSet(s) PROVE Apart(t)
    <2>1. \A i \in 1..Len(s) : s[i] # m
      BY <1>3, SetOf
    <2> QED  BY <1>1, <1>3, <2>1 DEF Apart
  <1> QED  BY <1>1, <1>2, <1>3 DEF t

\* What a sequence keeps when its first elements go.
LEMMA SetOfSuffix ==
    ASSUME NEW s \in Seq(Mutation), NEW t \in Seq(Mutation), NEW k \in Nat, Len(t) = Len(s) - k,
           \A i \in 1..Len(t) : t[i] = s[k + i]
    PROVE  /\ ToSet(t) \subseteq ToSet(s)
           /\ Apart(s) => Apart(t) /\ \A i \in 1..Len(s) : s[i] \in ToSet(t) <=> i > k
  <1>0. Len(s) \in Nat /\ Len(t) \in Nat
    BY LenProperties
  <1>1. ToSet(t) \subseteq ToSet(s)
    <2> SUFFICES ASSUME NEW e \in ToSet(t) PROVE e \in ToSet(s)
      OBVIOUS
    <2>1. PICK i \in 1..Len(t) : t[i] = e
      BY SetOf
    <2>2. k + i \in 1..Len(s) /\ s[k + i] = e
      BY <1>0, <2>1
    <2> QED  BY <2>2, SetOf
  <1>2. Apart(s) => Apart(t)
    BY <1>0 DEF Apart
  <1>3. ASSUME Apart(s), NEW i \in 1..Len(s) PROVE s[i] \in ToSet(t) <=> i > k
    <2>1. ASSUME s[i] \in ToSet(t) PROVE i > k
      <3>1. PICK j \in 1..Len(t) : t[j] = s[i]
        BY <2>1, SetOf
      <3>2. k + j \in 1..Len(s) /\ s[k + j] = s[i]
        BY <1>0, <3>1
      <3>3. k + j = i
        BY <1>3, <3>2 DEF Apart
      <3> QED  BY <3>1, <3>3
    <2>2. ASSUME i > k PROVE s[i] \in ToSet(t)
      <3>1. i - k \in 1..Len(t) /\ t[i - k] = s[i]
        BY <1>0, <2>2
      <3> QED  BY <3>1, SetOf
    <2> QED  BY <2>1, <2>2
  <1> QED  BY <1>1, <1>2, <1>3

LEMMA SetOfTail ==
    ASSUME NEW s \in Seq(Mutation), s # <<>>
    PROVE  /\ Head(s) \in Mutation /\ Tail(s) \in Seq(Mutation) /\ Len(Tail(s)) = Len(s) - 1
           /\ ToSet(s) = {Head(s)} \cup ToSet(Tail(s))
           /\ Apart(s) => /\ Apart(Tail(s)) /\ Head(s) \notin ToSet(Tail(s))
                          /\ \A i \in 1..Len(s) : s[i] \in ToSet(Tail(s)) <=> i > 1
  <1> DEFINE t == Tail(s)
  <1>1. /\ Head(s) \in Mutation /\ t \in Seq(Mutation) /\ Len(t) = Len(s) - 1 /\ Head(s) = s[1]
        /\ \A i \in 1..Len(t) : t[i] = s[1 + i]
    BY HeadTailProperties
  <1>2. Len(s) \in Nat \ {0}
    BY EmptySeq
  <1> HIDE DEF t
  <1>3. /\ ToSet(t) \subseteq ToSet(s)
        /\ Apart(s) => Apart(t) /\ \A i \in 1..Len(s) : s[i] \in ToSet(t) <=> i > 1
    BY <1>1, <1>2, SetOfSuffix
  <1>4. 1 \in 1..Len(s)
    BY <1>2
  <1>5. ToSet(s) \subseteq {Head(s)} \cup ToSet(t)
    <2> SUFFICES ASSUME NEW e \in ToSet(s), e # Head(s) PROVE e \in ToSet(t)
      OBVIOUS
    <2>1. PICK i \in 1..Len(s) : s[i] = e
      BY SetOf
    <2>2. i - 1 \in 1..Len(t) /\ t[i - 1] = e
      BY <1>1, <1>2, <2>1
    <2> QED  BY <1>1, <2>2, SetOf
  <1>6. Head(s) \in ToSet(s)
    BY <1>1, <1>4, SetOf
  <1> QED  BY <1>1, <1>3, <1>4, <1>5, <1>6 DEF t

LEMMA SetOfOne ==
    ASSUME NEW m \in Mutation
    PROVE  <<m>> \in Seq(Mutation) /\ Len(<<m>>) = 1 /\ ToSet(<<m>>) = {m} /\ Head(<<m>>) = m
  <1>1. <<m>> \in Seq(Mutation) /\ Len(<<m>>) = 1 /\ <<m>>[1] = m /\ Head(<<m>>) = m
    OBVIOUS
  <1>2. \A e : e \in ToSet(<<m>>) <=> \E i \in 1..1 : <<m>>[i] = e
    BY <1>1, SetOf
  <1>3. \A e : e \in ToSet(<<m>>) <=> e = m
    BY <1>1, <1>2
  <1> QED  BY <1>1, <1>3

LEMMA SetOfNone == <<>> \in Seq(Mutation) /\ Len(<<>>) = 0 /\ ToSet(<<>>) = {} /\ Apart(<<>>)
  BY DEF ToSet, Apart

\* The ring of the memory store keeps the row it is given, the last one, and of
\* the others all or all but the oldest.
LEMMA InsertKeeps ==
    ASSUME NEW rows \in Seq(Mutation), Len(rows) <= RowLimit, Apart(rows), NEW e \in Mutation, e \notin ToSet(rows)
    PROVE  LET new == Insert(rows, e) IN
           /\ new \in Seq(Mutation) /\ Len(new) <= RowLimit /\ Apart(new)
           /\ e \in ToSet(new) /\ ToSet(new) \subseteq ToSet(rows) \cup {e}
           /\ \A i \in 1..Len(rows) : rows[i] \in ToSet(new) => \A j \in i..Len(rows) : rows[j] \in ToSet(new)
  <1> DEFINE grown == Append(rows, e)
             new == Insert(rows, e)
  <1>0. Len(rows) \in Nat /\ RowLimit \in Nat \ {0}
    BY SetOf, AuditAssumption
  <1>1. /\ grown \in Seq(Mutation) /\ Len(grown) = Len(rows) + 1 /\ Apart(grown) /\ ToSet(grown) = ToSet(rows) \cup {e}
        /\ grown[Len(rows) + 1] = e /\ \A i \in 1..Len(rows) : grown[i] = rows[i]
    BY SetOfAppended, AppendProperties
  <1>2. new = IF Len(grown) > RowLimit THEN Tail(grown) ELSE grown
    BY DEF Insert
  <1> HIDE DEF grown, new
  <1>3. CASE Len(grown) <= RowLimit
    <2>1. new = grown
      BY <1>0, <1>1, <1>2, <1>3
    <2>2. \A i \in 1..Len(rows) : rows[i] \in ToSet(new)
      BY <1>1, <2>1, SetOf
    <2> QED  BY <1>0, <1>1, <1>3, <2>1, <2>2 DEF new
  <1>4. CASE Len(grown) > RowLimit
    <2>1. new = Tail(grown) /\ grown # <<>>
      BY <1>0, <1>1, <1>2, <1>4, SetOfNone
    <2>2. /\ new \in Seq(Mutation) /\ Len(new) = Len(grown) - 1 /\ Apart(new)
          /\ ToSet(new) \subseteq ToSet(grown) /\ \A i \in 1..Len(grown) : grown[i] \in ToSet(new) <=> i > 1
      BY <1>1, <2>1, SetOfTail
    <2>3. \A i \in 1..Len(rows) : rows[i] \in ToSet(new) <=> i > 1
      BY <1>0, <1>1, <2>2
    <2>4. \A i \in 1..Len(rows) : rows[i] \in ToSet(new) => \A j \in i..Len(rows) : rows[j] \in ToSet(new)
      BY <1>0, <2>3
    <2>5. e \in ToSet(new)
      <3>1. Len(rows) + 1 \in 1..Len(grown) /\ Len(rows) + 1 > 1
        BY <1>0, <1>1, <1>4
      <3> QED  BY <1>1, <2>2, <3>1
    <2> QED  BY <1>0, <1>1, <1>4, <2>2, <2>4, <2>5 DEF new
  <1> QED  BY <1>0, <1>1, <1>3, <1>4

\* DeleteOlderThan keeps a suffix.
LEMMA SweepKeeps ==
    ASSUME trail \in Seq(Mutation), Apart(trail), DeleteOlderThan
    PROVE  /\ trail' \in Seq(Mutation) /\ Len(trail') <= Len(trail) /\ Apart(trail')
           /\ ToSet(trail') \subseteq ToSet(trail)
           /\ \A i \in 1..Len(trail) : trail[i] \in ToSet(trail') => \A j \in i..Len(trail) : trail[j] \in ToSet(trail')
  <1> DEFINE k == Len(trail) - Horizon
  <1>0. Len(trail) \in Nat /\ Horizon \in Nat /\ Len(trail) > Horizon /\ trail' = SubSeq(trail, k + 1, Len(trail))
    BY SetOf, AuditAssumption DEF DeleteOlderThan
  <1>1. k \in Nat /\ \A i \in k + 1 .. Len(trail) : trail[i] \in Mutation
    BY <1>0, LenProperties
  <1> HIDE DEF k
  <1>2. /\ trail' \in Seq(Mutation)
        /\ Len(trail') = IF k + 1 <= Len(trail) THEN Len(trail) - (k + 1) + 1 ELSE 0
        /\ \A i \in 1 .. Len(trail) - (k + 1) + 1 : trail'[i] = trail[(k + 1) + i - 1]
    BY <1>0, <1>1, SubSeqProperties
  <1>3. Len(trail') = Len(trail) - k /\ \A i \in 1..Len(trail') : trail'[i] = trail[k + i]
    <2>1. k <= Len(trail)
      BY <1>0 DEF k
    <2>2. Len(trail) - (k + 1) + 1 = Len(trail) - k
      BY <1>0, <1>1
    <2>3. Len(trail') = Len(trail) - k
      <3>1. CASE k + 1 <= Len(trail)
        BY <1>2, <2>2, <3>1
      <3>2. CASE ~(k + 1 <= Len(trail))
        <4>1. Len(trail') = 0
          BY <1>2, <3>2
        <4>2. Len(trail) \in Nat /\ k \in Nat
          BY <1>0, <1>1
        <4>3. k = Len(trail)
          BY <2>1, <3>2, <4>2
        <4> QED  BY <4>1, <4>2, <4>3
      <3> QED  BY <3>1, <3>2
    <2>4. ASSUME NEW i \in 1..Len(trail')  PROVE trail'[i] = trail[k + i]
      <3>1. i \in Int /\ (k + 1) + i - 1 = k + i
        BY <1>1
      <3>2. i \in 1 .. Len(trail) - (k + 1) + 1
        BY <2>2, <2>3
      <3> QED  BY <1>2, <3>1, <3>2
    <2> QED  BY <2>3, <2>4
  <1>4. /\ Apart(trail') /\ ToSet(trail') \subseteq ToSet(trail)
        /\ \A i \in 1..Len(trail) : trail[i] \in ToSet(trail') <=> i > k
    BY <1>1, <1>2, <1>3, SetOfSuffix
  <1>5. \A i \in 1..Len(trail) : trail[i] \in ToSet(trail') => \A j \in i..Len(trail) : trail[j] \in ToSet(trail')
    BY <1>0, <1>1, <1>4
  <1> QED  BY <1>0, <1>1, <1>2, <1>3, <1>4, <1>5

LEMMA AuditInitially == AuditInit => AuditIInv
  <1> SUFFICES ASSUME AuditInit PROVE AuditIInv
    OBVIOUS
  <1>1. AuditTypeOK
    <2>1. 0 <= Buffer /\ 0 <= RowLimit
      BY AuditAssumption
    <2>2. ch = <<>> /\ trail = <<>> /\ writing = <<>>
      BY DEF AuditInit
    <2>3. /\ ch \in Seq(Mutation) /\ Len(ch) <= Buffer /\ trail \in Seq(Mutation) /\ Len(trail) <= RowLimit
          /\ writing \in Seq(Mutation) /\ Len(writing) <= 1
      BY <2>1, <2>2, SetOfNone
    <2> QED  BY <2>3 DEF AuditInit, AuditTypeOK
  <1>2. EmittedBy = {} /\ Accounted = {} /\ ToSet(ch) = {} /\ ToSet(writing) = {}
    BY SetOfNone DEF AuditInit, EmittedBy, Accounted
  <1>3. EventsAccounted
    <2>1. /\ Cardinality(EmittedBy) = Len(ch) + Len(writing) + Cardinality(Accounted) + dropped
          /\ stopped = {} /\ closer # "closed"
      BY <1>2, SetOfNone, FS_EmptySet DEF AuditInit
    <2> QED  BY <2>1 DEF EventsAccounted, EmittedBy, Accounted
  <1>4. EventsApart
    BY <1>2, SetOfNone DEF AuditInit, EventsApart
  <1> QED  BY <1>1, <1>3, <1>4 DEF AuditInit, AuditIInv, ClosesInOrder

\* The sets of events are finite, and one more event is one more.
LEMMA EventCounts ==
    ASSUME NEW S \in SUBSET Mutation
    PROVE  /\ Cardinality(S) \in Nat
           /\ \A m \in Mutation \ S : Cardinality(S \cup {m}) = Cardinality(S) + 1
  <1>1. IsFiniteSet(S)
    BY AuditAssumption, FS_Subset
  <1>2. \A m \in Mutation \ S : Cardinality(S \cup {m}) = Cardinality(S) + 1
    BY <1>1, FS_AddElement
  <1> QED  BY <1>1, <1>2, FS_CardinalityType

LEMMA AuditEmitCheck ==
    ASSUME AuditIInv, NEW m \in Mutation, ServeMutation(m) \/ EmitCheck(m)
    PROVE  AuditIInv'
  <1>0. /\ UNCHANGED <<ch, chClosed, closed, closer, dropped, trail, writing, lost, purged>>
        /\ req \in [Mutation -> {"idle", "served", "checked", "emitted", "panicked"}] /\ stopped \subseteq Mutation
    BY DEF ServeMutation, EmitCheck, AuditIInv, AuditTypeOK
  <1>1. PICK p \in {"served", "emitted", "checked"} :
           /\ req' = [req EXCEPT ![m] = p] /\ req[m] \notin {"emitted", "panicked"}
           /\ stopped' = IF p = "emitted" THEN stopped \cup {m} ELSE stopped
           /\ p = "emitted" => closed
    BY DEF ServeMutation, EmitCheck
  <1>2. /\ req' \in [Mutation -> {"idle", "served", "checked", "emitted", "panicked"}]
        /\ req'[m] = p /\ \A k \in Mutation : k # m => req'[k] = req[k]
    BY <1>0, <1>1
  <1>3. AuditTypeOK'
    BY <1>0, <1>1, <1>2 DEF AuditIInv, AuditTypeOK
  <1>4. /\ EmittedBy' = IF p = "emitted" THEN EmittedBy \cup {m} ELSE EmittedBy
        /\ Accounted' = IF p = "emitted" THEN Accounted \cup {m} ELSE Accounted
        /\ m \in Mutation \ EmittedBy /\ Accounted \subseteq EmittedBy /\ EmittedBy \subseteq Mutation
    BY <1>0, <1>1, <1>2 DEF EmittedBy, Accounted, AuditIInv, EventsApart
  <1>5. EventsApart'
    BY <1>0, <1>4 DEF AuditIInv, EventsApart
  <1>6. Len(ch) \in Nat /\ Len(writing) \in Nat /\ dropped \in Nat
    BY SetOf DEF AuditIInv, AuditTypeOK
  <1>7. EventsAccounted'
    <2>1. /\ Cardinality(EmittedBy) \in Nat /\ Cardinality(EmittedBy \cup {m}) = Cardinality(EmittedBy) + 1
          /\ Cardinality(Accounted) \in Nat /\ Cardinality(Accounted \cup {m}) = Cardinality(Accounted) + 1
      <3>1. m \in Mutation \ Accounted /\ Accounted \in SUBSET Mutation /\ EmittedBy \in SUBSET Mutation
        BY <1>4
      <3> QED  BY <1>4, <3>1, EventCounts
    <2>2. Cardinality(EmittedBy) = Len(ch) + Len(writing) + Cardinality(Accounted) + dropped
      BY DEF AuditIInv, EventsAccounted, EmittedBy, Accounted
    <2>3. Cardinality(EmittedBy') = Len(ch) + Len(writing) + Cardinality(Accounted') + dropped
      <3>1. CASE p = "emitted"
        BY <1>4, <1>6, <2>1, <2>2, <3>1
      <3>2. CASE p # "emitted"
        BY <1>4, <2>2, <3>2
      <3> QED  BY <3>1, <3>2
    <2> QED  BY <1>0, <1>1, <2>3 DEF AuditIInv, EventsAccounted, EmittedBy, Accounted
  <1> QED  BY <1>0, <1>3, <1>5, <1>7 DEF AuditIInv, ClosesInOrder

LEMMA AuditEmitSend ==
    ASSUME AuditIInv, NEW m \in Mutation, EmitSend(m)
    PROVE  AuditIInv'
  <1> DEFINE p == IF chClosed THEN "panicked" ELSE "emitted"
  <1>0. /\ UNCHANGED <<chClosed, closed, closer, trail, writing, lost, purged>>
        /\ req[m] = "checked" /\ req' = [req EXCEPT ![m] = p]
        /\ stopped \subseteq Mutation
        /\ req \in [Mutation -> {"idle", "served", "checked", "emitted", "panicked"}]
        /\ ch \in Seq(Mutation) /\ dropped \in Nat /\ Len(ch) <= Buffer
    BY DEF EmitSend, AuditIInv, AuditTypeOK
  <1>1. p \in {"panicked", "emitted"}
    OBVIOUS
  <1>2. /\ req' \in [Mutation -> {"idle", "served", "checked", "emitted", "panicked"}]
        /\ req'[m] = p /\ \A k \in Mutation : k # m => req'[k] = req[k]
    BY <1>0, <1>1
  <1>4. \/ p = "panicked" /\ chClosed /\ ch' = ch /\ dropped' = dropped /\ stopped' = stopped \cup {m}
        \/ /\ p = "emitted" /\ chClosed = FALSE /\ stopped' = stopped
           /\ ch' = Append(ch, m) /\ dropped' = dropped /\ Len(ch) < Buffer
        \/ p = "emitted" /\ chClosed = FALSE /\ stopped' = stopped /\ ch' = ch /\ dropped' = dropped + 1
    BY DEF EmitSend, AuditIInv, AuditTypeOK
  <1>3. /\ EmittedBy' = EmittedBy \cup {m} /\ m \in Mutation \ EmittedBy /\ EmittedBy \subseteq Mutation
        /\ Accounted' = IF p = "panicked" THEN Accounted \cup {m} ELSE Accounted
        /\ ToSet(ch) \cup ToSet(writing) \cup Accounted \subseteq EmittedBy
    BY <1>0, <1>1, <1>2, <1>4 DEF EmittedBy, Accounted, AuditIInv, EventsApart
  <1> HIDE DEF p
  <1>5. /\ Append(ch, m) \in Seq(Mutation) /\ Len(Append(ch, m)) = Len(ch) + 1 /\ Len(ch) \in Nat
        /\ ToSet(Append(ch, m)) = ToSet(ch) \cup {m} /\ (Apart(ch) /\ m \notin ToSet(ch) => Apart(Append(ch, m)))
    BY <1>0, SetOf, SetOfAppended
  <1>6. AuditTypeOK'
    <2>1. ch' \in Seq(Mutation) /\ Len(ch') <= Buffer /\ dropped' \in Nat
      BY <1>0, <1>4, <1>5, AuditAssumption
    <2>2. stopped' \subseteq Mutation
      BY <1>0, <1>4
    <2> QED  BY <1>0, <1>2, <2>1, <2>2 DEF AuditIInv, AuditTypeOK
  <1>7. EventsApart'
    <2>1. CASE p = "panicked"
      BY <1>0, <1>3, <1>4, <2>1 DEF AuditIInv, EventsApart
    <2>2. CASE p = "emitted"
      BY <1>0, <1>3, <1>4, <1>5, <2>2 DEF AuditIInv, EventsApart
    <2> QED  BY <2>1, <2>2 DEF p
  <1>8. EventsAccounted'
    <2>1. /\ Cardinality(EmittedBy) \in Nat /\ Cardinality(EmittedBy \cup {m}) = Cardinality(EmittedBy) + 1
          /\ Cardinality(Accounted) \in Nat /\ Len(writing) \in Nat
          /\ Cardinality(Accounted \cup {m}) = Cardinality(Accounted) + 1
      BY <1>3, EventCounts, SetOf DEF AuditIInv, AuditTypeOK
    <2>2. Cardinality(EmittedBy) = Len(ch) + Len(writing) + Cardinality(Accounted) + dropped
      BY DEF AuditIInv, EventsAccounted, EmittedBy, Accounted
    <2>3. Cardinality(EmittedBy') = Len(ch') + Len(writing) + Cardinality(Accounted') + dropped'
      <3>1. CASE p = "panicked"
        BY <1>0, <1>3, <1>4, <1>5, <2>1, <2>2, <3>1
      <3>2. CASE p = "emitted"
        <4>1. Cardinality(EmittedBy') = Cardinality(EmittedBy) + 1
          BY <1>3, <2>1, <3>2
        <4>4. dropped \in Nat /\ Len(ch) \in Nat
          BY <1>0, <1>5
        <4>2. /\ Len(ch') + dropped' = Len(ch) + dropped + 1
              /\ Len(ch') \in Nat /\ dropped' \in Nat
          <5>1. CASE ch' = Append(ch, m) /\ dropped' = dropped
            <6>1. Len(ch') = Len(ch) + 1
              BY <1>5, <5>1
            <6> QED  BY <4>4, <5>1, <6>1
          <5>2. CASE ch' = ch /\ dropped' = dropped + 1
            BY <4>4, <5>2
          <5> QED  BY <1>4, <3>2, <5>1, <5>2
        <4>5. \A a, b, c, d, e, f \in Nat : a + b = c + d + 1 => c + e + f + d + 1 = a + e + f + b
          OBVIOUS
        <4>6. Len(writing) \in Nat /\ Cardinality(Accounted) \in Nat
          BY <2>1
        <4>7. Len(ch) + Len(writing) + Cardinality(Accounted) + dropped + 1 =
                 Len(ch') + Len(writing) + Cardinality(Accounted) + dropped'
          BY <4>2, <4>4, <4>5, <4>6
        <4> QED  BY <1>3, <2>2, <3>2, <4>1, <4>7
      <3> QED  BY <1>1, <3>1, <3>2 DEF p
    <2>4. closer = "closed" => ch' = ch
      BY <1>4 DEF AuditIInv, ClosesInOrder
    <2>5. stopped' # {} => closed
      BY <1>4 DEF AuditIInv, ClosesInOrder, EventsAccounted
    <2> QED  BY <1>0, <2>3, <2>4, <2>5 DEF AuditIInv, EventsAccounted, EmittedBy, Accounted
  <1> QED  BY <1>0, <1>6, <1>7, <1>8 DEF AuditIInv, ClosesInOrder

\* The writer takes an event off the channel, ...
LEMMA AuditReceive ==
    ASSUME AuditIInv, RunReceive
    PROVE  AuditIInv'
  <1>0. /\ UNCHANGED <<req, chClosed, closed, closer, dropped, trail, lost, purged, stopped>>
        /\ writing = <<>> /\ ch # <<>> /\ writing' = <<Head(ch)>> /\ ch' = Tail(ch)
        /\ ch \in Seq(Mutation) /\ Len(ch) <= Buffer /\ Buffer \in Nat
    BY AuditAssumption DEF RunReceive, AuditIInv, AuditTypeOK
  <1>1. /\ Head(ch) \in Mutation /\ ch' \in Seq(Mutation) /\ Len(ch') = Len(ch) - 1 /\ Len(ch) \in Nat
        /\ ToSet(ch) = {Head(ch)} \cup ToSet(ch')
        /\ Apart(ch) => Apart(ch') /\ Head(ch) \notin ToSet(ch')
    BY <1>0, SetOf, SetOfTail
  <1>2. writing' \in Seq(Mutation) /\ Len(writing') = 1 /\ ToSet(writing') = {Head(ch)} /\ Len(writing) = 0
    BY <1>0, <1>1, SetOfOne, SetOfNone
  <1>3. AuditTypeOK'
    BY <1>0, <1>1, <1>2 DEF AuditIInv, AuditTypeOK
  <1>4. EmittedBy' = EmittedBy /\ Accounted' = Accounted
    BY <1>0 DEF EmittedBy, Accounted
  <1>5. EventsApart'
    BY <1>0, <1>1, <1>2, <1>4 DEF AuditIInv, EventsApart
  <1>6. EventsAccounted'
    <2>1. Cardinality(Accounted) \in Nat /\ dropped \in Nat
      <3>1. Accounted \in SUBSET Mutation
        BY DEF AuditIInv, EventsApart, EmittedBy
      <3> QED  BY <3>1, EventCounts DEF AuditIInv, AuditTypeOK
    <2>2. Cardinality(EmittedBy) = Len(ch) + Len(writing) + Cardinality(Accounted) + dropped
      BY DEF AuditIInv, EventsAccounted, EmittedBy, Accounted
    <2>3. Cardinality(EmittedBy') = Len(ch') + Len(writing') + Cardinality(Accounted') + dropped'
      BY <1>0, <1>1, <1>2, <1>4, <2>1, <2>2
    <2>4. closer # "closed"
      BY <1>0 DEF AuditIInv, EventsAccounted
    <2>5. stopped' # {} => closed'
      BY <1>0 DEF AuditIInv, EventsAccounted
    <2> QED  BY <1>0, <2>3, <2>4, <2>5 DEF EventsAccounted, EmittedBy, Accounted
  <1> QED  BY <1>0, <1>3, <1>5, <1>6 DEF AuditIInv, ClosesInOrder

\* ... and settles it: it is in the trail or lost.  What the ring drops is purged.
LEMMA AuditWrite ==
    ASSUME AuditIInv, RunWrite
    PROVE  /\ AuditIInv'
           /\ \A i \in 1..Len(trail) : trail[i] \in ToSet(trail') =>
                 \A j \in i..Len(trail) : trail[j] \in ToSet(trail')
  <1> DEFINE m == Head(writing)
  <1>0. /\ UNCHANGED <<req, ch, chClosed, closed, closer, dropped, stopped>>
        /\ writing # <<>> /\ writing' = <<>> /\ trail \in Seq(Mutation) /\ Len(trail) <= RowLimit
        /\ writing \in Seq(Mutation) /\ Len(writing) <= 1
    BY DEF RunWrite, AuditIInv, AuditTypeOK
  <1>1. \/ /\ trail' = Insert(trail, m) /\ lost' = lost
           /\ purged' = purged \cup (ToSet(trail) \ ToSet(trail'))
        \/ lost' = lost \cup {m} /\ trail' = trail /\ purged' = purged
    BY DEF RunWrite
  <1>2. m \in Mutation /\ ToSet(writing) = {m} /\ Len(writing) = 1
    <2>1. m \in Mutation /\ ToSet(writing) = {m} \cup ToSet(Tail(writing)) /\ Tail(writing) \in Seq(Mutation)
          /\ Len(Tail(writing)) = Len(writing) - 1
      BY <1>0, SetOfTail
    <2>2. Len(writing) = 1
      <3>1. Len(writing) \in Nat \ {0}
        BY <1>0, EmptySeq
      <3>2. Len(writing) <= 1
        BY <1>0
      <3>3. \A n \in Nat \ {0} : n <= 1 => n = 1
        OBVIOUS
      <3> QED  BY <3>1, <3>2, <3>3
    <2>3. Tail(writing) = <<>>
      <3>1. Len(Tail(writing)) = 0
        BY <2>1, <2>2
      <3> QED  BY <2>1, <3>1, EmptySeq
    <2> QED  BY <2>1, <2>2, <2>3, SetOfNone
  <1> HIDE DEF m
  <1>3. m \notin Accounted /\ m \in EmittedBy /\ m \notin ToSet(ch) /\ Apart(trail) /\ m \notin ToSet(trail)
    BY <1>2 DEF AuditIInv, EventsApart, Accounted
  <1>4. /\ trail' \in Seq(Mutation) /\ Len(trail') <= RowLimit /\ Apart(trail') /\ Accounted' = Accounted \cup {m}
        /\ \A i \in 1..Len(trail) : trail[i] \in ToSet(trail') =>
              \A j \in i..Len(trail) : trail[j] \in ToSet(trail')
    <2>1. CASE lost' = lost \cup {m} /\ trail' = trail /\ purged' = purged
      <3>1. \A i \in 1..Len(trail) : trail[i] \in ToSet(trail)
        BY <1>0, SetOf
      <3>2. \A i \in 1..Len(trail) : \A j \in i..Len(trail) : trail[j] \in ToSet(trail)
        BY <1>0, <3>1, SetOf
      <3> QED  BY <1>0, <1>3, <2>1, <3>2 DEF Accounted
    <2>2. CASE trail' = Insert(trail, m) /\ lost' = lost /\ purged' = purged \cup (ToSet(trail) \ ToSet(trail'))
      <3>1. /\ trail' \in Seq(Mutation) /\ Len(trail') <= RowLimit /\ Apart(trail')
            /\ m \in ToSet(trail') /\ ToSet(trail') \subseteq ToSet(trail) \cup {m}
            /\ \A i \in 1..Len(trail) : trail[i] \in ToSet(trail') =>
                  \A j \in i..Len(trail) : trail[j] \in ToSet(trail')
        BY <1>0, <1>2, <1>3, <2>2, InsertKeeps
      <3>2. Accounted' = Accounted \cup {m}
        BY <1>0, <2>2, <3>1 DEF Accounted
      <3> QED  BY <3>1, <3>2
    <2> QED  BY <1>1, <2>1, <2>2
  <1>5. writing' \in Seq(Mutation) /\ Len(writing') = 0 /\ ToSet(writing') = {} /\ EmittedBy' = EmittedBy
    BY <1>0, SetOfNone DEF EmittedBy
  <1>6. AuditTypeOK'
    <2>1. lost' \cup purged' \cup stopped' \subseteq Mutation
      BY <1>0, <1>1, <1>2, SetOf DEF AuditIInv, AuditTypeOK
    <2> QED  BY <1>0, <1>4, <1>5, <2>1 DEF AuditIInv, AuditTypeOK
  <1>7. EventsApart'
    BY <1>0, <1>2, <1>3, <1>4, <1>5 DEF AuditIInv, EventsApart
  <1>8. EventsAccounted'
    <2>1. /\ Cardinality(Accounted) \in Nat /\ Cardinality(Accounted \cup {m}) = Cardinality(Accounted) + 1
          /\ dropped \in Nat /\ Len(ch) \in Nat
      <3>1. Accounted \in SUBSET Mutation /\ m \in Mutation \ Accounted
        BY <1>2, <1>3 DEF AuditIInv, EventsApart, EmittedBy
      <3> QED  BY <3>1, EventCounts, SetOf DEF AuditIInv, AuditTypeOK
    <2>2. Cardinality(EmittedBy) = Len(ch) + Len(writing) + Cardinality(Accounted) + dropped
      BY DEF AuditIInv, EventsAccounted, EmittedBy, Accounted
    <2>3. Cardinality(EmittedBy') = Len(ch') + Len(writing') + Cardinality(Accounted') + dropped'
      BY <1>0, <1>2, <1>4, <1>5, <2>1, <2>2
    <2>4. closer # "closed"
      BY <1>0 DEF AuditIInv, EventsAccounted
    <2>5. stopped' # {} => closed'
      BY <1>0 DEF AuditIInv, EventsAccounted
    <2> QED  BY <1>0, <2>3, <2>4, <2>5 DEF EventsAccounted, EmittedBy, Accounted
  <1> QED  BY <1>0, <1>4, <1>6, <1>7, <1>8 DEF AuditIInv, ClosesInOrder

LEMMA AuditSweep ==
    ASSUME AuditIInv, DeleteOlderThan
    PROVE  /\ AuditIInv'
           /\ \A i \in 1..Len(trail) : trail[i] \in ToSet(trail') =>
                 \A j \in i..Len(trail) : trail[j] \in ToSet(trail')
  <1>0. /\ UNCHANGED <<req, ch, chClosed, closed, closer, dropped, writing, lost, stopped>>
        /\ purged' = purged \cup (ToSet(trail) \ ToSet(trail'))
        /\ trail \in Seq(Mutation) /\ Apart(trail) /\ Len(trail) <= RowLimit
    BY DEF DeleteOlderThan, AuditIInv, AuditTypeOK, EventsApart
  <1>1. /\ trail' \in Seq(Mutation) /\ Len(trail') <= Len(trail) /\ Apart(trail') /\ ToSet(trail') \subseteq ToSet(trail)
        /\ \A i \in 1..Len(trail) : trail[i] \in ToSet(trail') => \A j \in i..Len(trail) : trail[j] \in ToSet(trail')
    BY <1>0, SweepKeeps
  <1>2. Accounted' = Accounted /\ EmittedBy' = EmittedBy
    BY <1>0, <1>1 DEF Accounted, EmittedBy
  <1>3. AuditTypeOK'
    <2>1. purged' \subseteq Mutation
      BY <1>0, SetOf DEF AuditIInv, AuditTypeOK
    <2>2. Len(trail') <= RowLimit
      BY <1>0, <1>1, SetOf, AuditAssumption
    <2> QED  BY <1>0, <1>1, <2>1, <2>2 DEF AuditIInv, AuditTypeOK
  <1>4. EventsApart'
    BY <1>0, <1>1, <1>2 DEF AuditIInv, EventsApart
  <1>5. EventsAccounted'
    BY <1>0, <1>2 DEF AuditIInv, EventsAccounted, EmittedBy, Accounted
  <1> QED  BY <1>0, <1>1, <1>3, <1>4, <1>5 DEF AuditIInv, ClosesInOrder

LEMMA AuditCloses ==
    ASSUME AuditIInv, CloseFlag \/ CloseChannel \/ CloseDone
    PROVE  AuditIInv'
  <1>0. /\ UNCHANGED <<req, ch, dropped, trail, writing, lost, purged, stopped>>
        /\ closed' \in BOOLEAN /\ chClosed' \in BOOLEAN /\ closer' \in {"flagged", "draining", "closed"}
    BY DEF CloseFlag, CloseChannel, CloseDone, AuditIInv, AuditTypeOK
  <1>1. /\ closer' = "closed" => ch = <<>> /\ writing = <<>>
        /\ ClosesInOrder' /\ (closed => closed')
    BY DEF CloseFlag, CloseChannel, CloseDone, AuditIInv, ClosesInOrder
  <1>2. AuditTypeOK'
    BY <1>0 DEF AuditIInv, AuditTypeOK
  <1>3. EmittedBy' = EmittedBy /\ Accounted' = Accounted
    BY <1>0 DEF EmittedBy, Accounted
  <1>4. EventsApart'
    BY <1>0, <1>3 DEF AuditIInv, EventsApart
  <1>5. EventsAccounted'
    BY <1>0, <1>1, <1>3 DEF AuditIInv, EventsAccounted, EmittedBy, Accounted
  <1> QED  BY <1>1, <1>2, <1>4, <1>5 DEF AuditIInv

LEMMA AuditKeeps == AuditIInv /\ [AuditNext]_auditVars => AuditIInv'
  <1> SUFFICES ASSUME AuditIInv, [AuditNext]_auditVars PROVE AuditIInv'
    OBVIOUS
  <1>1. CASE AuditNext
    BY <1>1, AuditEmitCheck, AuditEmitSend, AuditReceive, AuditWrite, AuditSweep, AuditCloses DEF AuditNext
  <1>2. CASE UNCHANGED auditVars
    <2>1. UNCHANGED <<req, ch, chClosed, closed, closer, dropped, trail, writing, lost, purged, stopped>>
      BY <1>2 DEF auditVars
    <2>2. EmittedBy' = EmittedBy /\ Accounted' = Accounted
      BY <2>1 DEF EmittedBy, Accounted
    <2>3. AuditTypeOK' /\ ClosesInOrder'
      BY <2>1 DEF AuditIInv, AuditTypeOK, ClosesInOrder
    <2>4. EventsApart'
      BY <2>1, <2>2 DEF AuditIInv, EventsApart
    <2>5. EventsAccounted'
      BY <2>1, <2>2 DEF AuditIInv, EventsAccounted, EmittedBy, Accounted
    <2> QED  BY <2>3, <2>4, <2>5 DEF AuditIInv
  <1> QED  BY <1>1, <1>2

\* A step that leaves the rows alone removes none; the ring and the sweep remove
\* the oldest.
LEMMA NewestStay ==
    ASSUME AuditIInv, [AuditNext]_auditVars
    PROVE  \A i \in 1..Len(trail) : trail[i] \in ToSet(trail') =>
              \A j \in i..Len(trail) : trail[j] \in ToSet(trail')
  <1>1. CASE RunWrite \/ DeleteOlderThan
    BY <1>1, AuditWrite, AuditSweep
  <1>2. CASE ~(RunWrite \/ DeleteOlderThan)
    <2>1. trail' = trail
      BY <1>2 DEF AuditNext, ServeMutation, EmitCheck, EmitSend, RunReceive, CloseFlag, CloseChannel, CloseDone, auditVars
    <2>2. trail \in Seq(Mutation)
      BY DEF AuditIInv, AuditTypeOK
    <2>3. \A i \in 1..Len(trail) : trail[i] \in ToSet(trail)
      BY <2>2, SetOf
    <2> QED  BY <2>1, <2>2, <2>3, SetOf
  <1> QED  BY <1>1, <1>2

\* The audit trail, for every set of mutating requests, capacity of the channel,
\* ring and retention: an event whose Emit ended is queued, written, lost to a
\* failed insert, purged, counted as dropped or lost to the closing sink, refused
\* at the check or by the panic of the send, which happens to none before Close
\* was called; Close returns with the queue drained; the ring and DeleteOlderThan
\* remove the oldest rows only.
THEOREM AuditHolds == AuditSpec => AuditCorrect
  <1>1. AuditSpec => []AuditIInv
    BY AuditInitially, AuditKeeps, PTL DEF AuditSpec
  <1>2. AuditIInv => AuditTypeOK /\ EventsAccounted
    BY DEF AuditIInv
  <1>3. ASSUME AuditIInv, [AuditNext]_auditVars
        PROVE  [\A i \in 1..Len(trail) : trail[i] \in ToSet(trail') =>
                   \A j \in i..Len(trail) : trail[j] \in ToSet(trail')]_auditVars
    BY <1>3, NewestStay
  <1> QED  BY <1>1, <1>2, <1>3, PTL DEF AuditSpec, AuditCorrect, NewestKept

-----------------------------------------------------------------------------
(* Compose plans *)

Count == Len(ServiceNames)

LEMMA NamesTyped ==
    /\ Count \in Nat /\ DOMAIN ServiceNames = 1 .. Count
    /\ \A i \in 1 .. Count : ServiceNames[i] \in Service /\ sanitize(ServiceNames[i]) \in SlugType
  <1>1. Count \in Nat /\ DOMAIN ServiceNames = 1 .. Count
    BY ComposePlanAssumption, LenProperties DEF Count
  <1>2. \A i \in 1 .. Count : ServiceNames[i] \in Service
    BY <1>1 DEF Service
  <1> QED  BY <1>1, <1>2, ComposePlanAssumption DEF sanitize

\* Different suffixes make different names.
LEMMA SuffixesDiffer ==
    ASSUME NEW base \in SlugType
    PROVE  /\ \A i \in Nat : Suffixed(base, i) \in SlugType
           /\ \A i, j \in Nat : Suffixed(base, i) = Suffixed(base, j) => i = j
  <1>1. base.suffix \in Seq(Nat) /\ base.word \in STRING
    BY DEF SlugType
  <1>2. \A i \in Nat : Suffixed(base, i) = [word |-> base.word, suffix |-> Append(base.suffix, i)]
    BY DEF Suffixed
  <1>3. \A i \in Nat : Append(base.suffix, i) \in Seq(Nat)
    BY <1>1
  <1>4. \A i, j \in Nat : Append(base.suffix, i) = Append(base.suffix, j) => i = j
    <2>1. ASSUME NEW i \in Nat PROVE Append(base.suffix, i)[Len(base.suffix) + 1] = i
      BY <1>1, AppendProperties
    <2> QED  BY <2>1
  <1>5. \A i \in Nat : Suffixed(base, i) \in SlugType /\ Suffixed(base, i).suffix = Append(base.suffix, i)
    <2> SUFFICES ASSUME NEW i \in Nat
                 PROVE  Suffixed(base, i) \in SlugType /\ Suffixed(base, i).suffix = Append(base.suffix, i)
      OBVIOUS
    <2> DEFINE x == Append(base.suffix, i)
               w == base.word
    <2>1. x \in Seq(Nat) /\ w \in STRING /\ Suffixed(base, i) = [word |-> w, suffix |-> x]
      BY <1>1, <1>2, <1>3
    <2> HIDE DEF x, w
    <2>2. Suffixed(base, i) \in SlugType /\ Suffixed(base, i).suffix = x
      BY <2>1 DEF SlugType
    <2> QED  BY <2>2 DEF x
  <1> QED  BY <1>4, <1>5

\* Among as many suffixes as there are names, and one more, one is free: the slug
\* that synthesizePipelineFromCompose arrives at is not in use.
LEMMA SlugIsFree ==
    ASSUME NEW base \in SlugType, NEW used, IsFiniteSet(used)
    PROVE  Slug(base, used) \notin used /\ Slug(base, used) \in SlugType
  <1> DEFINE n == Cardinality(used)
             free == {i \in 2 .. (n + 2) : Suffixed(base, i) \notin used}
             f == [i \in 2 .. (n + 2) |-> Suffixed(base, i)]
  <1>1. n \in Nat
    BY FS_CardinalityType
  <1>2. free # {}
    <2>1. SUFFICES ASSUME free = {} PROVE FALSE
      OBVIOUS
    <2>2. f \in [2 .. (n + 2) -> used]
      BY <2>1
    <2>3. \A i, j \in 2 .. (n + 2) : f[i] = f[j] => i = j
      BY <1>1, SuffixesDiffer
    <2>4. f \in Injection(2 .. (n + 2), used)
      BY <2>2, <2>3 DEF Injection, IsInjective
    <2>5. Cardinality(2 .. (n + 2)) <= n
      BY <2>4, FS_Injection
    <2>6. Cardinality(2 .. (n + 2)) = n + 1
      BY <1>1, FS_Interval
    <2> QED  BY <1>1, <2>5, <2>6
  <1>3. PICK i \in free : \A j \in free : i <= j
    <2>1. free \subseteq Nat
      BY <1>1
    <2> HIDE DEF free
    <2> QED  BY <1>2, <2>1, NatLeast
  <1>4. i \in 2 .. (n + 2) /\ Suffixed(base, i) \notin used /\ \A j \in 2 .. (i - 1) : Suffixed(base, j) \in used
    BY <1>1, <1>3
  <1> DEFINE least == CHOOSE k \in 2 .. (n + 2) :
                          Suffixed(base, k) \notin used /\ \A j \in 2 .. (k - 1) : Suffixed(base, j) \in used
  <1>5. least \in 2 .. (n + 2) /\ Suffixed(base, least) \notin used
    BY <1>4
  <1>6. least \in Nat
    BY <1>1, <1>5
  <1> QED  BY <1>5, <1>6, SuffixesDiffer DEF Slug

\* The slug of service i, given those before it.
Given(g, i) ==
    IF ServiceNames[i] \in project.services
      THEN Slug(sanitize(ServiceNames[i]), {g[j] : j \in 1..(i - 1)} \ {NoSlug}) ELSE NoSlug

LEMMA SlugsUnfold == slugAt = [i \in 1 .. Count |-> Given(slugAt, i)]
  <1> DEFINE Begun(n) == \E g : g = [i \in 1 .. n |-> Given(g, i)]
             bad == {n \in Nat : ~Begun(n)}
  <1>1. ASSUME NEW n \in Nat, Begun(n) PROVE Begun(n + 1)
    <2>1. PICK g : g = [i \in 1 .. n |-> Given(g, i)]
      BY <1>1
    <2> DEFINE h == [i \in 1 .. (n + 1) |-> IF i <= n THEN g[i] ELSE Given(g, n + 1)]
    <2>2. ASSUME NEW i \in 1 .. (n + 1) PROVE Given(h, i) = Given(g, i)
      <3>1. \A j \in 1 .. (i - 1) : h[j] = g[j]
        OBVIOUS
      <3>2. {h[j] : j \in 1 .. (i - 1)} = {g[j] : j \in 1 .. (i - 1)}
        BY <3>1
      <3> QED  BY <3>2 DEF Given
    <2>3. ASSUME NEW i \in 1 .. (n + 1) PROVE h[i] = Given(g, i)
      <3>1. CASE i <= n
        <4>1. i \in 1 .. n
          BY <3>1
        <4>2. g[i] = Given(g, i)
          BY <2>1, <4>1
        <4> QED  BY <3>1, <4>2
      <3>2. CASE ~(i <= n)
        <4>1. i = n + 1
          BY <3>2
        <4> QED  BY <3>2, <4>1
      <3> QED  BY <3>1, <3>2
    <2>4. h = [i \in 1 .. (n + 1) |-> h[i]]
      OBVIOUS
    <2> HIDE DEF h
    <2>5. h = [i \in 1 .. (n + 1) |-> Given(h, i)]
      BY <2>2, <2>3, <2>4
    <2> QED  BY <2>5
  <1>2. Begun(0)
    <2> DEFINE g == [i \in 1 .. 0 |-> NoSlug]
    <2>1. \A i \in 1 .. 0 : g[i] = Given(g, i)
      OBVIOUS
    <2>2. g = [i \in 1 .. 0 |-> g[i]]
      OBVIOUS
    <2> HIDE DEF g
    <2>3. g = [i \in 1 .. 0 |-> Given(g, i)]
      BY <2>1, <2>2
    <2> QED  BY <2>3
  <1> HIDE DEF Begun
  <1>3. bad = {}
    <2>1. SUFFICES ASSUME bad # {} PROVE FALSE
      OBVIOUS
    <2>2. PICK m \in bad : \A k \in bad : m <= k
      BY <2>1, NatLeast
    <2>3. m # 0 /\ m \in Nat
      BY <1>2, <2>2
    <2>4. (m - 1) \in Nat /\ (m - 1) \notin bad
      BY <2>2, <2>3
    <2>5. Begun(m - 1)
      BY <2>4
    <2>6. Begun((m - 1) + 1)
      BY <1>1, <2>4, <2>5
    <2> QED  BY <2>2, <2>3, <2>6
  <1>4. \E g : g = [i \in 1 .. Count |-> Given(g, i)]
    BY <1>3, NamesTyped DEF Begun
  <1> QED  BY <1>4 DEF slugAt, Given, Count

LEMMA SlugsFree ==
    /\ DOMAIN slugAt = 1 .. Count
    /\ \A i \in 1 .. Count :
          IF ServiceNames[i] \in project.services
            THEN /\ slugAt[i] = Slug(sanitize(ServiceNames[i]), {slugAt[j] : j \in 1..(i - 1)} \ {NoSlug})
                 /\ slugAt[i] \in SlugType /\ slugAt[i] # NoSlug
                 /\ slugAt[i] \notin {slugAt[j] : j \in 1..(i - 1)}
            ELSE slugAt[i] = NoSlug
  <1>1. DOMAIN slugAt = 1 .. Count /\ \A i \in 1 .. Count : slugAt[i] = Given(slugAt, i)
    <2>1. \A f : f = [i \in 1 .. Count |-> Given(slugAt, i)] =>
                    DOMAIN f = 1 .. Count /\ \A i \in 1 .. Count : f[i] = Given(slugAt, i)
      OBVIOUS
    <2> QED  BY <2>1, SlugsUnfold
  <1>2. ASSUME NEW i \in 1 .. Count, ServiceNames[i] \in project.services
        PROVE  /\ slugAt[i] = Slug(sanitize(ServiceNames[i]), {slugAt[j] : j \in 1..(i - 1)} \ {NoSlug})
               /\ slugAt[i] \in SlugType /\ slugAt[i] # NoSlug
               /\ slugAt[i] \notin {slugAt[j] : j \in 1..(i - 1)}
    <2> DEFINE before == {slugAt[j] : j \in 1..(i - 1)}
    <2>1. IsFiniteSet(before \ {NoSlug})
      <3>1. IsFiniteSet(1..(i - 1))
        BY NamesTyped, FS_Interval
      <3>2. IsFiniteSet(before)
        <4> DEFINE g == [j \in 1..(i - 1) |-> slugAt[j]]
        <4>1. g \in Surjection(1..(i - 1), before)
          BY DEF Surjection
        <4> QED  BY <3>1, <4>1, FS_Surjection
      <3> QED  BY <3>2, FS_Difference
    <2>2. slugAt[i] = Slug(sanitize(ServiceNames[i]), before \ {NoSlug})
      BY <1>1, <1>2 DEF Given
    <2>3. sanitize(ServiceNames[i]) \in SlugType
      BY NamesTyped
    <2>4. slugAt[i] \notin before \ {NoSlug} /\ slugAt[i] \in SlugType
      BY <2>1, <2>2, <2>3, SlugIsFree
    <2>5. slugAt[i] # NoSlug
      BY <2>4, ComposePlanAssumption
    <2> QED  BY <2>2, <2>4, <2>5
  <1>3. ASSUME NEW i \in 1 .. Count, ServiceNames[i] \notin project.services
        PROVE  slugAt[i] = NoSlug
    BY <1>1, <1>3 DEF Given
  <1> QED  BY <1>1, <1>2, <1>3

\* Every service has a place in the order of the names.
LEMMA PlaceOf ==
    ASSUME NEW s \in Service
    PROVE  \E i \in 1 .. Count : ServiceNames[i] = s /\ slugOf(s) = slugAt[i]
  <1>1. \E i \in DOMAIN ServiceNames : ServiceNames[i] = s
    BY DEF Service
  <1> DEFINE i == CHOOSE i \in DOMAIN ServiceNames : ServiceNames[i] = s
  <1>2. i \in DOMAIN ServiceNames /\ ServiceNames[i] = s
    BY <1>1
  <1>3. i \in 1 .. Count
    BY <1>2, NamesTyped
  <1> QED  BY <1>2, <1>3 DEF slugOf

\* No two services have one slug, so no two stages have one id.
LEMMA SlugsUnique ==
    ASSUME NEW s \in project.services, NEW t \in project.services, {s, t} \subseteq Service,
           slugOf(s) = slugOf(t)
    PROVE  s = t
  <1>1. PICK i \in 1 .. Count : ServiceNames[i] = s /\ slugOf(s) = slugAt[i]
    BY PlaceOf
  <1>2. PICK j \in 1 .. Count : ServiceNames[j] = t /\ slugOf(t) = slugAt[j]
    BY PlaceOf
  <1>3. i \in Nat /\ j \in Nat /\ slugAt[i] = slugAt[j]
    <2>1. i \in Nat /\ j \in Nat
      BY NamesTyped
    <2> QED  BY <1>1, <1>2, <2>1
  <1>4. ~(i < j)
    <2>1. slugAt[j] \notin {slugAt[k] : k \in 1..(j - 1)}
      BY <1>2, SlugsFree
    <2>2. i < j => i \in 1..(j - 1)
      BY <1>3
    <2> QED  BY <1>3, <2>1, <2>2
  <1>5. ~(j < i)
    <2>1. slugAt[i] \notin {slugAt[k] : k \in 1..(i - 1)}
      BY <1>1, SlugsFree
    <2>2. j < i => j \in 1..(i - 1)
      BY <1>3
    <2> QED  BY <1>3, <2>1, <2>2
  <1> QED  BY <1>1, <1>2, <1>3, <1>4, <1>5

\* Where names do not collide every service keeps its own.
LEMMA NamesKept ==
    ASSUME project.services \subseteq Service,
           \A i, j \in 1 .. Count :
              i < j /\ ServiceNames[i] \in project.services /\ ServiceNames[j] \in project.services =>
                  sanitize(ServiceNames[i]) # sanitize(ServiceNames[j]),
           NEW s \in project.services
    PROVE  slugOf(s) = sanitize(s)
  <1> DEFINE bad == {i \in 1 .. Count : ServiceNames[i] \in project.services /\ slugAt[i] # sanitize(ServiceNames[i])}
  <1>1. bad = {}
    <2> SUFFICES ASSUME bad # {} PROVE FALSE
      OBVIOUS
    <2>1. bad \subseteq Nat
      BY NamesTyped
    <2>2. PICK i \in bad : \A k \in bad : i <= k
      <3> HIDE DEF bad
      <3> QED  BY <2>1, NatLeast
    <2> DEFINE used == {slugAt[j] : j \in 1..(i - 1)} \ {NoSlug}
    <2>3. i \in 1 .. Count /\ i \in Nat /\ Count \in Nat /\ ServiceNames[i] \in project.services
      BY <2>1, <2>2, NamesTyped
    <2>4. sanitize(ServiceNames[i]) \notin used
      <3> SUFFICES ASSUME NEW j \in 1..(i - 1), slugAt[j] # NoSlug, slugAt[j] = sanitize(ServiceNames[i])
                   PROVE  FALSE
        OBVIOUS
      <3>1. j \in 1 .. Count /\ j < i /\ j \notin bad
        BY <2>2, <2>3
      <3>2. ServiceNames[j] \in project.services
        BY <3>1, SlugsFree
      <3>3. slugAt[j] = sanitize(ServiceNames[j])
        BY <3>1, <3>2
      <3> QED  BY <2>3, <3>1, <3>2, <3>3
    <2>5. slugAt[i] = Slug(sanitize(ServiceNames[i]), used)
      BY <2>3, SlugsFree
    <2> HIDE DEF used
    <2>6. slugAt[i] = sanitize(ServiceNames[i])
      BY <2>4, <2>5 DEF Slug
    <2> QED  BY <2>2, <2>6
  <1>2. PICK i \in 1 .. Count : ServiceNames[i] = s /\ slugOf(s) = slugAt[i]
    BY PlaceOf
  <1> QED  BY <1>1, <1>2

LEMMA ProjectTyped ==
    ASSUME project \in Projects
    PROVE  /\ project.services \subseteq Service /\ Deployed \subseteq project.services
           /\ project.needs \subseteq Service \X Service
           /\ \A s, d \in Deployed : StageId("deploy", s) = StageId("deploy", d) => s = d
  <1>1. project.services \subseteq Service /\ project.needs \subseteq Service \X Service
    BY DEF Projects
  <1>2. Deployed \subseteq project.services
    BY DEF Deployed
  <1>3. ASSUME NEW s \in Deployed, NEW d \in Deployed, StageId("deploy", s) = StageId("deploy", d)
        PROVE  s = d
    <2>1. slugOf(s) = slugOf(d)
      BY <1>3 DEF StageId
    <2> QED  BY <1>1, <1>2, <2>1, SlugsUnique
  <1> QED  BY <1>1, <1>2, <1>3

\* bindExternalServices has seen to the bound dependencies, crossEdges to the
\* others.
LEMMA PlanOrders == project \in Projects => DependenciesFirst
  <1> SUFFICES ASSUME project \in Projects, Planned, NEW s \in Deployed, NEW d \in Needs(s)
               PROVE  IF d \in Bound THEN s \in project.bindings[d] /\ project.envSet
                      ELSE /\ <<StageId("deploy", d), StageId("deploy", s)>> \in edges
                           /\ StageId("deploy", d) \in stages
    BY DEF DependenciesFirst
  <1>1. s \in project.services /\ d \in project.services /\ <<s, d>> \in project.needs
    BY ProjectTyped DEF Needs
  <1>2. CASE d \in Bound
    <2>1. ConsumersValid(d) /\ DependantsConsume(d)
      BY <1>2 DEF Planned, Reviewed, bindExternalServices
    <2>2. s \in project.bindings[d]
      BY <1>1, <2>1 DEF DependantsConsume
    <2> QED  BY <1>2, <2>1, <2>2 DEF ConsumersValid
  <1>3. CASE d \notin Bound
    <2>1. d \in Deployed
      BY <1>1, <1>3 DEF Deployed
    <2> DEFINE e == <<s, d>>
    <2>2. e \in project.needs /\ {e[1], e[2]} \subseteq Deployed /\ e[1] = s /\ e[2] = d
      BY <1>1, <2>1
    <2> HIDE DEF e
    <2>3. <<StageId("deploy", d), StageId("deploy", s)>> \in crossEdges
      BY <2>2 DEF crossEdges
    <2>4. StageId("deploy", d) \in stages
      BY <2>1 DEF stages
    <2> QED  BY <1>3, <2>3, <2>4 DEF edges
  <1> QED  BY <1>2, <1>3

\* The slug of the plan and the name at the host are one where no names collide.
LEMMA PlanRunsPushed == project \in Projects => ComposeRunsPushed
  <1> SUFFICES ASSUME project \in Projects, Planned,
                      \A b \in Bound : \A s \in project.services \ {b} : sanitize(b) # sanitize(s),
                      NEW s \in Deployed
               PROVE  runtimeImage(s) = deployImage(s)
    BY DEF ComposeRunsPushed
  <1>1. ASSUME NEW i \in 1 .. Count, NEW j \in 1 .. Count, i < j,
               ServiceNames[i] \in project.services, ServiceNames[j] \in project.services
        PROVE  sanitize(ServiceNames[i]) # sanitize(ServiceNames[j])
    <2>1. i \in DOMAIN ServiceNames /\ j \in DOMAIN ServiceNames /\ i \in Nat /\ j \in Nat
      BY NamesTyped
    <2>2. ServiceNames[i] # ServiceNames[j]
      BY <1>1, <2>1, ComposePlanAssumption
    <2>3. CASE ServiceNames[i] \in Bound \/ ServiceNames[j] \in Bound
      BY <1>1, <2>2, <2>3
    <2>4. CASE ServiceNames[i] \in Deployed /\ ServiceNames[j] \in Deployed
      <3>1. ~IdentityCollides(ServiceNames[j])
        BY <2>4 DEF Planned, Reviewed
      <3> QED  BY <1>1, <2>1, <2>4, <3>1 DEF IdentityCollides, RuntimeServiceName
    <2> QED  BY <1>1, <2>3, <2>4 DEF Deployed
  <1>2. slugOf(s) = sanitize(s)
    BY <1>1, ProjectTyped, NamesKept
  <1> QED  BY <1>2 DEF runtimeImage, deployImage, RuntimeServiceName

\* A build waits for nothing, a push for a build, and a deploy for a push or for
\* the deploy of a service that it needs.
LEMMA EdgeKinds ==
    ASSUME NEW e \in edges
    PROVE  \/ \E s \in Deployed : e = <<StageId("build", s), StageId("push", s)>>
           \/ \E s \in Deployed : e = <<StageId("push", s), StageId("deploy", s)>>
           \/ \E n \in project.needs :
                 n[1] \in Deployed /\ n[2] \in Deployed /\ e = <<StageId("deploy", n[2]), StageId("deploy", n[1])>>
  <1>1. CASE e \in chainEdges
    BY <1>1 DEF chainEdges
  <1>2. CASE e \in crossEdges
    BY <1>2 DEF crossEdges
  <1> QED  BY <1>1, <1>2 DEF edges

\* A circle of stages is a circle of services.
LEMMA CircleOfServices ==
    ASSUME project \in Projects, Cyclic
    PROVE  \E S \in (SUBSET Deployed) \ {{}} : \A s \in S : Needs(s) \cap S # {}
  <1>1. PICK S \in (SUBSET stages) \ {{}} : \A t \in S : \E u \in S : <<u, t>> \in edges
    BY DEF Cyclic
  <1>2. ASSUME NEW s PROVE StageId("build", s) \notin S
    <2> SUFFICES ASSUME StageId("build", s) \in S PROVE FALSE
      OBVIOUS
    <2>1. PICK u \in S : <<u, StageId("build", s)>> \in edges
      BY <1>1
    <2>2. \A x : StageId("build", s) # StageId("push", x) /\ StageId("build", s) # StageId("deploy", x)
      BY DEF StageId
    <2> QED  BY <2>1, <2>2, EdgeKinds
  <1>3. ASSUME NEW s PROVE StageId("push", s) \notin S
    <2> SUFFICES ASSUME StageId("push", s) \in S PROVE FALSE
      OBVIOUS
    <2>1. PICK u \in S : <<u, StageId("push", s)>> \in edges
      BY <1>1
    <2>2. \A x : StageId("push", s) # StageId("deploy", x)
      BY DEF StageId
    <2>3. \E x \in Deployed : u = StageId("build", x)
      BY <2>1, <2>2, EdgeKinds
    <2> QED  BY <1>2, <2>3
  <1>4. ASSUME NEW t \in S
        PROVE  \E s, d \in Deployed : /\ t = StageId("deploy", s) /\ StageId("deploy", d) \in S
                                      /\ <<s, d>> \in project.needs
    <2>1. PICK u \in S : <<u, t>> \in edges
      BY <1>1
    <2>2. PICK n \in project.needs :
              /\ n[1] \in Deployed /\ n[2] \in Deployed
              /\ u = StageId("deploy", n[2]) /\ t = StageId("deploy", n[1])
      BY <1>2, <1>3, <2>1, EdgeKinds
    <2>3. n = <<n[1], n[2]>>
      BY ProjectTyped
    <2> QED  BY <2>1, <2>2, <2>3
  <1> DEFINE T == {s \in Deployed : StageId("deploy", s) \in S}
  <1>5. T # {}
    <2>1. PICK t \in S : TRUE
      BY <1>1
    <2>2. PICK s \in Deployed : t = StageId("deploy", s)
      BY <1>4
    <2> QED  BY <2>1, <2>2
  <1>6. ASSUME NEW s \in T PROVE Needs(s) \cap T # {}
    <2>1. PICK x \in Deployed, d \in Deployed :
              /\ StageId("deploy", s) = StageId("deploy", x) /\ StageId("deploy", d) \in S
              /\ <<x, d>> \in project.needs
      BY <1>4
    <2>2. x = s
      BY <2>1, ProjectTyped
    <2>3. d \in T /\ d \in Needs(s)
      BY <2>1, <2>2, ProjectTyped DEF Needs
    <2> QED  BY <2>3
  <1> QED  BY <1>5, <1>6

\* The edges lead from stage to stage.
LEMMA EdgesKnown == \A e \in edges : {e[1], e[2]} \subseteq stages
  <1> SUFFICES ASSUME NEW e \in edges PROVE e[1] \in stages /\ e[2] \in stages
    OBVIOUS
  <1>1. CASE e \in chainEdges
    <2>1. PICK s \in Deployed \cap project.built :
              e \in {<<StageId("build", s), StageId("push", s)>>, <<StageId("push", s), StageId("deploy", s)>>}
      BY <1>1 DEF chainEdges
    <2>2. StageId("build", s) \in stages /\ StageId("push", s) \in stages /\ StageId("deploy", s) \in stages
      BY DEF stages
    <2> QED  BY <2>1, <2>2
  <1>2. CASE e \in crossEdges
    <2>1. PICK n \in project.needs : /\ {n[1], n[2]} \subseteq Deployed
                                     /\ e = <<StageId("deploy", n[2]), StageId("deploy", n[1])>>
      BY <1>2 DEF crossEdges
    <2>2. StageId("deploy", n[1]) \in stages /\ StageId("deploy", n[2]) \in stages
      BY <2>1 DEF stages
    <2> QED  BY <2>1, <2>2
  <1> QED  BY <1>1, <1>2 DEF edges

\* Whatever Compose project is planned: dependencies are deployed or bound before
\* their dependants, a Docker host runs the images that were pushed, and what the
\* review accepts has no unknown stage and no circle but one of the services
\* themselves (loadRepositoryCompose, synthesizePipelineFromCompose,
\* writeRuntimeCompose).
THEOREM ComposeInvariant == ComposeSpec => []ComposeInv
  <1>1. project \in Projects => ComposeInv
    <2> SUFFICES ASSUME project \in Projects PROVE ComposeInv
      OBVIOUS
    <2>1. ReviewedIsPlanned
      BY CircleOfServices, EdgesKnown DEF ReviewedIsPlanned, Planned
    <2> QED  BY <2>1, PlanOrders, PlanRunsPushed DEF ComposeInv
  <1>2. project \in Projects /\ [UNCHANGED project]_project => (project \in Projects)'
    BY DEF Projects, Service
  <1> QED  BY <1>1, <1>2, PTL DEF ComposeSpec

-----------------------------------------------------------------------------
(* App rows *)

\* The program points, with the rows that requests hold.
AppShape ==
    /\ appStore \in {"postgres", "memory"} /\ secrets \in 0..MaxSecret
    /\ appEdit \in [AppEdit -> [at : {"idle", "checking", "writing", "done"}, app : App, row : AppRecord]]
    /\ tick \in [at : {"idle", "probing", "dead"}, todo : SUBSET App]

\* An app that is still to be created has no row and was never observed.
Unborn ==
    \A a \in App : creating[a] # "done" =>
        appRow[a].at = "none" /\ observed[a].health = "unknown" /\ observed[a].url = NoUrl

\* A request that will write a row read it when it was there.  At the version of
\* the row, what it has for the secret is the current one or a newer one.
EditsFresh ==
    /\ \A a \in App : appRow[a].secret <= secrets
    /\ \A e \in AppEdit : appEdit[e].at \in {"checking", "writing"} =>
          LET a == appEdit[e].app
              row == appEdit[e].row
          IN  /\ creating[a] = "done" /\ row.at = "live" /\ row.secret <= secrets
              /\ row.ver <= appRow[a].ver
              /\ row.ver = appRow[a].ver => row.secret >= appRow[a].secret

AppRowsIInv == AppRowsTypeOK /\ AppShape /\ PrefixUnique /\ ObservationsShown /\ Unborn /\ EditsFresh

LEMMA RowParts ==
    ASSUME NEW r \in AppRecord
    PROVE  /\ r.at \in {"none", "live", "deleted"} /\ r.ver \in Nat /\ r.place \in Place \cup {NoPlace}
           /\ r.secret \in Nat /\ r.secret <= MaxSecret /\ r.health \in Verdict /\ r.url \in Url \cup {NoUrl}
BY AppRowsAssumption DEF AppRecord

LEMMA FreshParts ==
    ASSUME NEW place \in Place \cup {NoPlace}
    PROVE  /\ FreshRow(place) \in AppRecord
           /\ FreshRow(place).at = "live" /\ FreshRow(place).ver = 0 /\ FreshRow(place).place = place
           /\ FreshRow(place).secret = 0 /\ FreshRow(place).health = "unknown"
           /\ FreshRow(place).url = NoUrl
BY AppRowsAssumption DEF FreshRow, AppRecord, Verdict

LEMMA NoRowParts ==
    NoRow \in AppRecord /\ NoRow.at = "none" /\ NoRow.secret = 0
<1>1. NoRow = [at |-> "none", ver |-> 0, place |-> NoPlace, secret |-> 0, health |-> "unknown", url |-> NoUrl]
  BY DEF NoRow, FreshRow
<1> QED  BY <1>1, AppRowsAssumption DEF AppRecord, Verdict

\* A store that writes one row, after its look at the prefixes when the row is
\* live, keeps the prefixes unique.
LEMMA PrefixKept ==
    ASSUME AppRowsTypeOK, PrefixUnique, NEW a \in App, NEW r \in AppRecord,
           appRow' = [appRow EXCEPT ![a] = r],
           r.at = "live" => Clashing(a, r.place) = {}
    PROVE  appRow' \in [App -> AppRecord] /\ PrefixUnique'
<1>1. /\ appRow \in [App -> AppRecord] /\ appRow' \in [App -> AppRecord]
      /\ appRow'[a] = r /\ \A b \in App \ {a} : appRow'[b] = appRow[b]
  BY DEF AppRowsTypeOK
<1>2. SUFFICES ASSUME NEW b \in App, NEW c \in App \ {b}, appRow'[b].at = "live", appRow'[c].at = "live",
                      appRow'[b].place # NoPlace, appRow'[c].place = appRow'[b].place
               PROVE  FALSE
  BY <1>1 DEF PrefixUnique, Clashing, Live
<1>3. CASE b = a
  <2>1. c \in Clashing(a, r.place)
    BY <1>1, <1>2, <1>3 DEF Clashing, Live
  <2> QED  BY <1>1, <1>2, <1>3, <2>1
<1>4. CASE c = a
  <2>1. b \in Clashing(a, r.place)
    BY <1>1, <1>2, <1>4 DEF Clashing, Live
  <2> QED  BY <1>1, <1>2, <1>4, <2>1
<1>5. CASE b # a /\ c # a
  <2>1. Live(b) /\ c \in Clashing(b, appRow[b].place)
    BY <1>1, <1>2, <1>5 DEF Clashing, Live
  <2> QED  BY <2>1 DEF PrefixUnique
<1> QED  BY <1>3, <1>4, <1>5

\* The row that is live keeps its place in that look at the prefixes.
LEMMA SamePrefix ==
    ASSUME PrefixUnique, NEW a \in App, Live(a)
    PROVE  Clashing(a, appRow[a].place) = {}
BY DEF PrefixUnique

LEMMA AppRowsInitially == ASSUME NEW live \in BOOLEAN, AppRowsInit(live)  PROVE AppRowsIInv
<1>1. (CHOOSE a \in App : TRUE) \in App
  BY AppRowsAssumption
<1>2. FreshRow(NoPlace) \in AppRecord /\ FreshRow(NoPlace).place = NoPlace /\ FreshRow(NoPlace).secret = 0
      /\ FreshRow(NoPlace).health = "unknown" /\ FreshRow(NoPlace).url = NoUrl
  BY FreshParts
<1>3. /\ \A a \in App : /\ appRow[a] \in AppRecord /\ appRow[a].secret = 0
                        /\ appRow[a].at = "live" => appRow[a].place = NoPlace
                        /\ appRow[a].at = "live" => appRow[a].health = "unknown" /\ appRow[a].url = NoUrl
                        /\ creating[a] # "done" => appRow[a].at = "none"
      /\ appRow \in [App -> AppRecord]
  BY <1>2, NoRowParts DEF AppRowsInit
<1>4. /\ creating \in [App -> {"idle", "writing", "done"}]
      /\ observed \in [App -> [health : Verdict, url : Url \cup {NoUrl}]]
      /\ \A a \in App : observed[a].health = "unknown" /\ observed[a].url = NoUrl
  BY DEF AppRowsInit, Verdict
<1>5. AppShape
  BY <1>1, NoRowParts, AppRowsAssumption DEF AppRowsInit, AppShape
<1>6. \A e \in AppEdit : appEdit[e].at = "idle" /\ appEdit[e].app \in App /\ appEdit[e].row \in AppRecord
  BY <1>1, NoRowParts DEF AppRowsInit
<1>7. tick.at = "idle" /\ tick.todo = {} /\ secrets = 0
  BY DEF AppRowsInit
<1>8. AppRowsTypeOK
  BY <1>3, <1>4, <1>6, <1>7 DEF AppRowsTypeOK
<1>9. PrefixUnique
  BY <1>3 DEF PrefixUnique, Clashing, Live
<1>10. ObservationsShown /\ Unborn
  BY <1>3, <1>4 DEF ObservationsShown, Unborn, Live
<1>11. EditsFresh
  BY <1>3, <1>6, <1>7 DEF EditsFresh
<1> QED  BY <1>5, <1>8, <1>9, <1>10, <1>11 DEF AppRowsIInv

\* The rows keep their secrets.
SecretsGrow == \A a \in App : Live(a) /\ appRow'[a].at = "live" => appRow'[a].secret >= appRow[a].secret

LEMMA SecretsSame ==
    ASSUME AppRowsTypeOK, UNCHANGED appRow
    PROVE  SecretsGrow
<1>1. \A a \in App : appRow[a].secret \in Nat
  BY RowParts DEF AppRowsTypeOK
<1> QED  BY <1>1 DEF SecretsGrow

LEMMA AppCreateCheck ==
    ASSUME AppRowsIInv, NEW a \in App, NEW place \in Place \cup {NoPlace}, CreateAppCheck(a, place)
    PROVE  AppRowsIInv' /\ SecretsGrow
<1>1. /\ AppRowsTypeOK /\ AppShape /\ PrefixUnique /\ ObservationsShown /\ Unborn /\ EditsFresh
      /\ creating[a] = "idle" /\ appRow[a].at = "none" /\ appRow[a] \in AppRecord
      /\ UNCHANGED <<appStore, appEdit, secrets, tick, observed>>
  BY DEF AppRowsIInv, CreateAppCheck, Unborn, AppRowsTypeOK
<1>2. /\ creating' \in [App -> {"idle", "writing", "done"}]
      /\ \A b \in App : creating'[b] # creating[b] => b = a /\ creating'[b] \in {"writing", "done"}
      /\ \A b \in App : creating[b] = "done" => creating'[b] = "done"
  BY <1>1 DEF CreateAppCheck, AppRowsTypeOK
<1> DEFINE r == [appRow[a] EXCEPT !.place = place]
<1>3. r \in AppRecord /\ r.at = "none" /\ r.ver = appRow[a].ver /\ r.secret = appRow[a].secret
  BY <1>1 DEF AppRecord
<1>4. appRow' = [appRow EXCEPT ![a] = r] \/ appRow' = appRow
  BY DEF CreateAppCheck
<1> HIDE DEF r
<1>5. appRow' \in [App -> AppRecord] /\ PrefixUnique'
  <2>1. CASE appRow' = appRow
    BY <1>1, <2>1 DEF AppRowsTypeOK, PrefixUnique, Clashing, Live
  <2> QED  BY <2>1, <1>1, <1>3, <1>4, PrefixKept
<1>6. \A b \in App : /\ appRow'[b].at = appRow[b].at /\ appRow'[b].ver = appRow[b].ver
                     /\ appRow'[b].secret = appRow[b].secret
                     /\ appRow[b].at = "live" => appRow'[b] = appRow[b]
  BY <1>1, <1>3, <1>4 DEF AppRowsTypeOK
<1>7. AppRowsTypeOK' /\ AppShape'
  BY <1>1, <1>2, <1>5 DEF AppRowsTypeOK, AppShape
<1>8. ObservationsShown'
  BY <1>1, <1>6 DEF ObservationsShown, Live
<1>9. Unborn'
  BY <1>1, <1>2, <1>6 DEF Unborn
<1>10. EditsFresh'
  BY <1>1, <1>2, <1>6 DEF EditsFresh, AppShape
<1>11. SecretsGrow
  BY <1>1, <1>6, RowParts DEF SecretsGrow, AppRowsTypeOK
<1> QED  BY <1>5, <1>7, <1>8, <1>9, <1>10, <1>11 DEF AppRowsIInv

LEMMA AppCreate ==
    ASSUME AppRowsIInv, NEW a \in App, CreateApp(a)
    PROVE  AppRowsIInv' /\ SecretsGrow
<1>1. /\ AppRowsTypeOK /\ AppShape /\ PrefixUnique /\ ObservationsShown /\ Unborn /\ EditsFresh
      /\ creating[a] = "writing" /\ appRow[a].at = "none" /\ appRow[a] \in AppRecord
      /\ observed[a].health = "unknown" /\ observed[a].url = NoUrl
      /\ UNCHANGED <<appStore, appEdit, secrets, tick, observed>>
      /\ creating' = [creating EXCEPT ![a] = "done"]
  BY DEF AppRowsIInv, CreateApp, Unborn, AppRowsTypeOK
<1>2. /\ creating' \in [App -> {"idle", "writing", "done"}]
      /\ \A b \in App : b # a => creating'[b] = creating[b]
      /\ creating'[a] = "done"
  BY <1>1 DEF AppRowsTypeOK
<1> DEFINE r == IF checkPrefix(a, appRow[a].place) THEN FreshRow(appRow[a].place) ELSE NoRow
<1>3. /\ r \in AppRecord /\ r.secret = 0
      /\ r.at = "live" => /\ Clashing(a, r.place) = {}
                          /\ r.health = "unknown" /\ r.url = NoUrl
  BY <1>1, RowParts, FreshParts, NoRowParts DEF checkPrefix
<1>4. appRow' = [appRow EXCEPT ![a] = r]
  BY DEF CreateApp
<1> HIDE DEF r
<1>5. appRow' \in [App -> AppRecord] /\ PrefixUnique'
  BY <1>1, <1>3, <1>4, PrefixKept
<1>6. appRow'[a] = r /\ \A b \in App : b # a => appRow'[b] = appRow[b]
  BY <1>1, <1>4 DEF AppRowsTypeOK
<1>7. AppRowsTypeOK' /\ AppShape'
  BY <1>1, <1>2, <1>5 DEF AppRowsTypeOK, AppShape
<1>8. ObservationsShown'
  BY <1>1, <1>3, <1>6 DEF ObservationsShown, Live
<1>9. Unborn'
  BY <1>1, <1>2, <1>6 DEF Unborn
<1>10. secrets \in Nat
  BY <1>1, AppRowsAssumption DEF AppShape
<1>11. EditsFresh'
  <2>1. \A b \in App : appRow'[b].secret <= secrets
    BY <1>1, <1>3, <1>6, <1>10 DEF EditsFresh
  <2>2. \A e \in AppEdit : appEdit[e].at \in {"checking", "writing"} => appEdit[e].app \in App \ {a}
    BY <1>1 DEF EditsFresh, AppShape
  <2> QED  BY <1>1, <1>2, <1>6, <2>1, <2>2 DEF EditsFresh
<1>12. SecretsGrow
  BY <1>1, <1>6, RowParts DEF SecretsGrow, AppRowsTypeOK, Live
<1> QED  BY <1>5, <1>7, <1>8, <1>9, <1>11, <1>12 DEF AppRowsIInv

LEMMA AppDelete ==
    ASSUME AppRowsIInv, NEW a \in App, DeleteApp(a)
    PROVE  AppRowsIInv' /\ SecretsGrow
<1>1. /\ AppRowsTypeOK /\ AppShape /\ PrefixUnique /\ ObservationsShown /\ Unborn /\ EditsFresh
      /\ appRow[a].at = "live" /\ appRow[a] \in AppRecord
      /\ UNCHANGED <<appStore, creating, appEdit, secrets, tick, observed>>
  BY DEF AppRowsIInv, DeleteApp, AppRowsTypeOK, Live
<1> DEFINE r == [appRow[a] EXCEPT !.at = "deleted"]
<1>3. r \in AppRecord /\ r.at = "deleted" /\ r.ver = appRow[a].ver /\ r.secret = appRow[a].secret
  BY <1>1 DEF AppRecord
<1>4. appRow' = [appRow EXCEPT ![a] = r]
  BY DEF DeleteApp
<1> HIDE DEF r
<1>5. appRow' \in [App -> AppRecord] /\ PrefixUnique'
  BY <1>1, <1>3, <1>4, PrefixKept
<1>6. /\ appRow'[a] = r /\ \A b \in App : b # a => appRow'[b] = appRow[b]
      /\ \A b \in App : appRow'[b].ver = appRow[b].ver /\ appRow'[b].secret = appRow[b].secret
  BY <1>1, <1>3, <1>4 DEF AppRowsTypeOK
<1>7. AppRowsTypeOK' /\ AppShape'
  BY <1>1, <1>5 DEF AppRowsTypeOK, AppShape
<1>8. ObservationsShown'
  BY <1>1, <1>3, <1>6 DEF ObservationsShown, Live
<1>9. Unborn'
  BY <1>1, <1>3, <1>6 DEF Unborn
<1>10. EditsFresh'
  BY <1>1, <1>6 DEF EditsFresh, AppShape
<1>11. SecretsGrow
  BY <1>1, <1>6, RowParts DEF SecretsGrow, AppRowsTypeOK
<1> QED  BY <1>5, <1>7, <1>8, <1>9, <1>10, <1>11 DEF AppRowsIInv

\* A step of one request that writes no row.
LEMMA AppEdits ==
    ASSUME AppRowsIInv, NEW e \in AppEdit, UNCHANGED <<appStore, appRow, creating, tick, observed>>,
           NEW p \in [at : {"idle", "checking", "writing", "done"}, app : App, row : AppRecord],
           appEdit' = [appEdit EXCEPT ![e] = p],
           secrets' \in 0..MaxSecret, secrets' >= secrets,
           p.at \in {"checking", "writing"} =>
               /\ creating[p.app] = "done" /\ p.row.at = "live" /\ p.row.secret <= secrets'
               /\ p.row.ver <= appRow[p.app].ver
               /\ p.row.ver = appRow[p.app].ver => p.row.secret >= appRow[p.app].secret
    PROVE  AppRowsIInv' /\ SecretsGrow
<1>1. AppRowsTypeOK /\ AppShape /\ PrefixUnique /\ ObservationsShown /\ Unborn /\ EditsFresh
  BY DEF AppRowsIInv
<1>2. /\ appEdit' \in [AppEdit -> [at : {"idle", "checking", "writing", "done"}, app : App, row : AppRecord]]
      /\ appEdit'[e] = p /\ \A d \in AppEdit : d # e => appEdit'[d] = appEdit[d]
  BY <1>1 DEF AppShape
<1>3. AppShape'
  BY <1>1, <1>2 DEF AppShape
<1>4. AppRowsTypeOK'
  BY <1>1, <1>2 DEF AppRowsTypeOK
<1>5. PrefixUnique' /\ ObservationsShown' /\ Unborn'
  BY <1>1 DEF PrefixUnique, ObservationsShown, Unborn, Clashing, Live
<1>6. EditsFresh'
  <2>1. secrets \in Nat /\ secrets' \in Nat
    BY <1>1, AppRowsAssumption DEF AppShape
  <2>2. \A a \in App : appRow[a].secret \in Nat
    BY <1>1, RowParts DEF AppRowsTypeOK
  <2>3. \A d \in AppEdit : appEdit[d].row.secret \in Nat
    BY <1>1, RowParts DEF AppShape
  <2> QED  BY <1>1, <1>2, <2>1, <2>2, <2>3 DEF EditsFresh
<1>7. SecretsGrow
  BY <1>1, SecretsSame
<1> QED  BY <1>3, <1>4, <1>5, <1>6, <1>7 DEF AppRowsIInv

LEMMA AppUpdateGet ==
    ASSUME AppRowsIInv, NEW e \in AppEdit, NEW a \in App, NEW place \in Place \cup {NoPlace},
           NEW health \in Verdict, UpdateAppGet(e, a, place, health)
    PROVE  AppRowsIInv' /\ SecretsGrow
<1>1. /\ AppShape /\ Unborn /\ EditsFresh /\ appRow[a] \in AppRecord /\ appRow[a].at = "live"
      /\ UNCHANGED <<appStore, appRow, creating, secrets, tick, observed>>
  BY DEF AppRowsIInv, AppRowsTypeOK, UpdateAppGet, Live
<1>2. PICK ver \in 0..appRow[a].ver :
          appEdit' = [appEdit EXCEPT ![e] =
              [at |-> "checking", app |-> a,
               row |-> [at |-> "live", ver |-> ver, place |-> place, secret |-> appRow[a].secret,
                        health |-> health, url |-> NoUrl]]]
  BY DEF UpdateAppGet
<1> DEFINE r == [at |-> "live", ver |-> ver, place |-> place, secret |-> appRow[a].secret,
                 health |-> health, url |-> NoUrl]
           p == [at |-> "checking", app |-> a, row |-> r]
<1>4. ver \in Nat /\ ver <= appRow[a].ver /\ appRow[a].secret \in 0..MaxSecret
  BY <1>1 DEF AppRecord
<1>5. r \in AppRecord /\ r.at = "live" /\ r.ver = ver /\ r.secret = appRow[a].secret
  BY <1>4 DEF AppRecord
<1> HIDE DEF r
<1>6. p \in [at : {"idle", "checking", "writing", "done"}, app : App, row : AppRecord]
      /\ p.app = a /\ p.row = r /\ p.at = "checking"
  BY <1>5
<1>7. /\ creating[a] = "done" /\ r.secret <= secrets /\ r.secret >= appRow[a].secret
      /\ secrets' \in 0..MaxSecret /\ secrets' >= secrets
  BY <1>1, <1>4, <1>5, AppRowsAssumption DEF Unborn, EditsFresh, AppShape
<1>8. appEdit' = [appEdit EXCEPT ![e] = p]
  BY <1>2 DEF r
<1> HIDE DEF p
<1> QED  BY <1>1, <1>4, <1>5, <1>6, <1>7, <1>8, AppEdits

LEMMA AppUpdateCheck ==
    ASSUME AppRowsIInv, NEW e \in AppEdit, UpdateAppCheck(e)
    PROVE  AppRowsIInv' /\ SecretsGrow
<1>1. /\ AppShape /\ EditsFresh /\ appEdit[e].at = "checking"
      /\ appEdit[e] \in [at : {"idle", "checking", "writing", "done"}, app : App, row : AppRecord]
      /\ UNCHANGED <<appStore, appRow, creating, secrets, tick, observed>>
  BY DEF AppRowsIInv, AppShape, UpdateAppCheck
<1>2. PICK at \in {"writing", "done"} : appEdit' = [appEdit EXCEPT ![e].at = at]
  BY DEF UpdateAppCheck
<1> DEFINE p == [appEdit[e] EXCEPT !.at = at]
<1>3. p \in [at : {"idle", "checking", "writing", "done"}, app : App, row : AppRecord]
      /\ p.app = appEdit[e].app /\ p.row = appEdit[e].row
  BY <1>1
<1>4. appEdit' = [appEdit EXCEPT ![e] = p]
  BY <1>2
<1>5. secrets' \in 0..MaxSecret /\ secrets' >= secrets
  BY <1>1, AppRowsAssumption DEF AppShape
<1>6. LET a == appEdit[e].app
          row == appEdit[e].row
      IN  /\ creating[a] = "done" /\ row.at = "live" /\ row.secret <= secrets
          /\ row.ver <= appRow[a].ver
          /\ row.ver = appRow[a].ver => row.secret >= appRow[a].secret
  BY <1>1 DEF EditsFresh
<1> HIDE DEF p
<1> QED  BY <1>1, <1>3, <1>4, <1>5, <1>6, AppEdits

LEMMA AppRotate ==
    ASSUME AppRowsIInv, NEW e \in AppEdit, NEW a \in App, SetAppWebhookSecret(e, a)
    PROVE  AppRowsIInv' /\ SecretsGrow
<1>1. /\ AppShape /\ Unborn /\ EditsFresh /\ appRow[a] \in AppRecord /\ appRow[a].at = "live"
      /\ secrets < MaxSecret /\ secrets' = secrets + 1
      /\ UNCHANGED <<appStore, appRow, creating, tick, observed>>
  BY DEF AppRowsIInv, AppRowsTypeOK, SetAppWebhookSecret, Live
<1>2. secrets \in Nat /\ secrets' \in 0..MaxSecret /\ secrets' >= secrets
  BY <1>1, AppRowsAssumption DEF AppShape
<1> DEFINE r == [appRow[a] EXCEPT !.secret = secrets + 1]
           p == [at |-> "writing", app |-> a, row |-> r]
<1>3. r \in AppRecord /\ r.at = "live" /\ r.ver = appRow[a].ver /\ r.secret = secrets'
  BY <1>1, <1>2 DEF AppRecord
<1>4. appEdit' = [appEdit EXCEPT ![e] = p]
  BY DEF SetAppWebhookSecret
<1> HIDE DEF r
<1>5. p \in [at : {"idle", "checking", "writing", "done"}, app : App, row : AppRecord]
      /\ p.app = a /\ p.row = r /\ p.at = "writing"
  BY <1>3
<1> HIDE DEF p
<1>6. /\ creating[a] = "done" /\ r.secret <= secrets' /\ r.ver <= appRow[a].ver
      /\ r.secret >= appRow[a].secret
  BY <1>1, <1>2, <1>3, RowParts DEF Unborn, EditsFresh
<1> QED  BY <1>1, <1>2, <1>3, <1>4, <1>5, <1>6, AppEdits

\* Update of the stores: the version makes the row newer than what every other
\* request has read.
LEMMA AppPut ==
    ASSUME AppRowsIInv, NEW e \in AppEdit, UpdateAppPut(e)
    PROVE  AppRowsIInv' /\ SecretsGrow
<1> DEFINE a == appEdit[e].app
           row == appEdit[e].row
           p == [appEdit[e] EXCEPT !.at = "done"]
<1>1. /\ AppRowsTypeOK /\ AppShape /\ PrefixUnique /\ ObservationsShown /\ Unborn /\ EditsFresh
      /\ appEdit[e].at = "writing"
      /\ appEdit[e] \in [at : {"idle", "checking", "writing", "done"}, app : App, row : AppRecord]
      /\ UNCHANGED <<appStore, creating, secrets, tick, observed>>
  BY DEF AppRowsIInv, AppShape, UpdateAppPut
<1>2. /\ a \in App /\ row \in AppRecord /\ appRow[a] \in AppRecord
      /\ creating[a] = "done" /\ row.at = "live" /\ row.secret <= secrets
      /\ row.ver <= appRow[a].ver
      /\ row.ver = appRow[a].ver => row.secret >= appRow[a].secret
  BY <1>1 DEF EditsFresh, AppRowsTypeOK
<1>3. p \in [at : {"idle", "checking", "writing", "done"}, app : App, row : AppRecord]
      /\ p.app = a /\ p.at = "done"
  BY <1>1
<1>4. appEdit' = [appEdit EXCEPT ![e] = p]
  BY DEF UpdateAppPut
<1>5. secrets \in Nat /\ secrets' \in 0..MaxSecret /\ secrets' >= secrets
  BY <1>1, AppRowsAssumption DEF AppShape
<1>6. CASE ~UpdateAllowed(a, row)
  <2>1. appRow' = appRow
    BY <1>6 DEF UpdateAppPut
  <2> HIDE DEF p, a, row
  <2> QED  BY <1>1, <1>3, <1>4, <1>5, <2>1, AppEdits
<1>7. CASE UpdateAllowed(a, row)
  <2> DEFINE r == IF appStore = "postgres" THEN PostgresRow(a, row) ELSE MemoryRow(row)
  <2>1. appRow' = [appRow EXCEPT ![a] = r]
    BY <1>7 DEF UpdateAppPut
  <2>2. /\ appRow[a].at = "live" /\ row.ver = appRow[a].ver /\ Clashing(a, row.place) = {}
    BY <1>7 DEF UpdateAllowed, Live, checkPrefix
  <2>3. appEdit' \in [AppEdit -> [at : {"idle", "checking", "writing", "done"}, app : App, row : AppRecord]]
        /\ appEdit'[e].at = "done" /\ \A d \in AppEdit : d # e => appEdit'[d] = appEdit[d]
    BY <1>1, <1>3, <1>4 DEF AppShape
  <2> HIDE DEF p, a, row
  <2>4. /\ r \in AppRecord /\ r.at = "live" /\ r.ver = row.ver + 1 /\ r.place = row.place
        /\ r.secret = row.secret
        /\ appStore = "postgres" => r.health = appRow[a].health /\ r.url = appRow[a].url
    <3>2. MemoryRow(row) = [at |-> row.at, ver |-> row.ver + 1, place |-> row.place,
                            secret |-> row.secret, health |-> row.health, url |-> row.url]
      BY <1>2 DEF MemoryRow, AppRecord
    <3>3. /\ row.at \in {"none", "live", "deleted"} /\ row.ver + 1 \in Nat /\ row.secret \in 0..MaxSecret
          /\ row.place \in Place \cup {NoPlace} /\ row.health \in Verdict /\ row.url \in Url \cup {NoUrl}
          /\ appRow[a].health \in Verdict /\ appRow[a].url \in Url \cup {NoUrl}
      BY <1>2 DEF AppRecord
    <3>4. PostgresRow(a, row) \in AppRecord /\ MemoryRow(row) \in AppRecord
      BY <2>2, <3>2, <3>3 DEF PostgresRow, AppRecord
    <3> QED  BY <1>2, <2>2, <3>2, <3>4 DEF PostgresRow
  <2> HIDE DEF r
  <2>5. appRow' \in [App -> AppRecord] /\ PrefixUnique'
    BY <1>1, <1>2, <2>1, <2>2, <2>4, PrefixKept
  <2>6. appRow'[a] = r /\ \A b \in App : b # a => appRow'[b] = appRow[b]
    BY <1>1, <1>2, <2>1 DEF AppRowsTypeOK
  <2>7. AppRowsTypeOK' /\ AppShape'
    BY <1>1, <2>3, <2>5 DEF AppRowsTypeOK, AppShape
  <2>8. ObservationsShown'
    BY <1>1, <1>2, <2>2, <2>4, <2>6 DEF ObservationsShown, Live
  <2>9. Unborn'
    BY <1>1, <1>2, <2>6 DEF Unborn
  <2>10. EditsFresh'
    <3>1. \A b \in App : appRow'[b].secret <= secrets
      BY <1>1, <1>2, <2>4, <2>6 DEF EditsFresh
    <3>2. SUFFICES ASSUME NEW d \in AppEdit, appEdit'[d].at \in {"checking", "writing"}
                   PROVE  LET b == appEdit'[d].app
                              q == appEdit'[d].row
                          IN  /\ creating[b] = "done" /\ q.at = "live" /\ q.secret <= secrets
                              /\ q.ver <= appRow'[b].ver
                              /\ q.ver = appRow'[b].ver => q.secret >= appRow'[b].secret
      BY <1>1, <3>1 DEF EditsFresh
    <3>3. d # e /\ appEdit'[d] = appEdit[d]
      BY <2>3, <3>2
    <3>4. LET b == appEdit[d].app
              q == appEdit[d].row
          IN  /\ creating[b] = "done" /\ q.at = "live" /\ q.secret <= secrets
              /\ q.ver <= appRow[b].ver
              /\ q.ver = appRow[b].ver => q.secret >= appRow[b].secret
      BY <1>1, <3>2, <3>3 DEF EditsFresh
    <3>5. appEdit[d].app \in App /\ appEdit[d].row.ver \in Nat /\ row.ver \in Nat
      BY <1>1, <1>2, RowParts DEF AppShape
    <3>6. CASE appEdit[d].app = a
      BY <2>2, <2>4, <2>6, <3>3, <3>4, <3>5, <3>6
    <3>7. CASE appEdit[d].app # a
      BY <2>6, <3>3, <3>4, <3>5, <3>7
    <3> QED  BY <3>6, <3>7
  <2>11. SecretsGrow
    BY <1>1, <1>2, <2>2, <2>4, <2>6, RowParts DEF SecretsGrow, AppRowsTypeOK
  <2> QED  BY <2>5, <2>7, <2>8, <2>9, <2>10, <2>11 DEF AppRowsIInv
<1> QED  BY <1>6, <1>7

\* A verdict or a URL is written: it becomes the observation.
LEMMA AppObserves ==
    ASSUME AppRowsIInv, NEW a \in App, Live(a), NEW r \in AppRecord, NEW u \in Url \cup {NoUrl},
           appRow' = [appRow EXCEPT ![a] = r],
           r.at = "live", r.ver = appRow[a].ver, r.place = appRow[a].place, r.secret = appRow[a].secret,
           observed' = [observed EXCEPT ![a] = [health |-> r.health, url |-> u]],
           appStore = "postgres" => r.url = u,
           tick' \in [at : {"idle", "probing", "dead"}, todo : SUBSET App],
           UNCHANGED <<appStore, creating, appEdit, secrets>>
    PROVE  AppRowsIInv' /\ SecretsGrow
<1>1. /\ AppRowsTypeOK /\ AppShape /\ PrefixUnique /\ ObservationsShown /\ Unborn /\ EditsFresh
      /\ appRow[a].at = "live" /\ appRow[a] \in AppRecord
  BY DEF AppRowsIInv, AppRowsTypeOK, Live
<1>4. Clashing(a, r.place) = {}
  BY <1>1, SamePrefix
<1>5. appRow' \in [App -> AppRecord] /\ PrefixUnique'
  BY <1>1, <1>4, PrefixKept
<1>6. /\ appRow'[a] = r /\ \A b \in App : b # a => appRow'[b] = appRow[b]
      /\ \A b \in App : /\ appRow'[b].ver = appRow[b].ver /\ appRow'[b].secret = appRow[b].secret
                        /\ appRow'[b].at = appRow[b].at
  BY <1>1 DEF AppRowsTypeOK
<1>7. /\ observed' \in [App -> [health : Verdict, url : Url \cup {NoUrl}]]
      /\ observed'[a].health = r.health /\ observed'[a].url = u
      /\ \A b \in App : b # a => observed'[b] = observed[b]
  BY <1>1, RowParts DEF AppRowsTypeOK
<1>8. tick'.at \in {"idle", "probing", "dead"} /\ tick'.todo \subseteq App
  OBVIOUS
<1>9. AppRowsTypeOK' /\ AppShape'
  BY <1>1, <1>5, <1>7, <1>8 DEF AppRowsTypeOK, AppShape
<1>10. ObservationsShown'
  BY <1>1, <1>6, <1>7 DEF ObservationsShown, Live
<1>11. Unborn'
  BY <1>1, <1>6, <1>7 DEF Unborn
<1>12. EditsFresh'
  BY <1>1, <1>6 DEF EditsFresh, AppShape
<1>13. SecretsGrow
  BY <1>1, <1>6, RowParts DEF SecretsGrow, AppRowsTypeOK
<1> QED  BY <1>5, <1>9, <1>10, <1>11, <1>12, <1>13 DEF AppRowsIInv

\* The checker's own steps.
LEMMA AppTicks ==
    ASSUME AppRowsIInv, tick' \in [at : {"idle", "probing", "dead"}, todo : SUBSET App],
           UNCHANGED <<appStore, appRow, creating, appEdit, secrets, observed>>
    PROVE  AppRowsIInv' /\ SecretsGrow
<1>1. AppRowsTypeOK /\ AppShape /\ PrefixUnique /\ ObservationsShown /\ Unborn /\ EditsFresh
  BY DEF AppRowsIInv
<1>2. tick'.at \in {"idle", "probing", "dead"} /\ tick'.todo \subseteq App
  OBVIOUS
<1>3. AppRowsTypeOK' /\ AppShape'
  BY <1>1, <1>2 DEF AppRowsTypeOK, AppShape
<1>4. PrefixUnique' /\ ObservationsShown' /\ Unborn' /\ EditsFresh'
  BY <1>1 DEF PrefixUnique, ObservationsShown, Unborn, EditsFresh, Clashing, Live
<1> QED  BY <1>1, <1>3, <1>4, SecretsSame DEF AppRowsIInv

LEMMA AppProbes ==
    ASSUME AppRowsIInv, NEW a \in App, NEW h \in Verdict, NEW u \in Url \cup {NoUrl},
           UpdateHealth(a, h, u), tick' = [tick EXCEPT !.todo = @ \ {a}],
           UNCHANGED <<appStore, creating, appEdit, secrets>>
    PROVE  AppRowsIInv' /\ SecretsGrow
<1>1. tick' \in [at : {"idle", "probing", "dead"}, todo : SUBSET App]
  BY DEF AppRowsIInv, AppShape
<1>2. CASE ~Live(a)
  BY <1>1, <1>2, AppTicks DEF UpdateHealth
<1>3. CASE Live(a)
  <2> DEFINE shown == IF u = NoUrl THEN appRow[a].url ELSE u
             noted == IF u = NoUrl THEN observed[a].url ELSE u
             r == [appRow[a] EXCEPT !.health = h, !.url = shown]
  <2>1. /\ appRow' = [appRow EXCEPT ![a] = r]
        /\ observed' = [observed EXCEPT ![a] = [health |-> h, url |-> noted]]
    BY <1>3 DEF UpdateHealth
  <2>2. appRow[a] \in AppRecord /\ observed[a].url \in Url \cup {NoUrl} /\ appRow[a].at = "live"
    BY <1>3 DEF AppRowsIInv, AppRowsTypeOK, Live
  <2>3. shown \in Url \cup {NoUrl} /\ noted \in Url \cup {NoUrl}
    BY <2>2 DEF AppRecord
  <2>4. appStore = "postgres" => shown = noted
    BY <1>3 DEF AppRowsIInv, ObservationsShown
  <2> HIDE DEF shown, noted
  <2>5. /\ r \in AppRecord /\ r.at = "live" /\ r.ver = appRow[a].ver /\ r.secret = appRow[a].secret
        /\ r.place = appRow[a].place /\ r.health = h /\ r.url = shown
    BY <2>2, <2>3 DEF AppRecord
  <2> HIDE DEF r
  <2> QED  BY <1>1, <1>3, <2>1, <2>3, <2>4, <2>5, AppObserves
<1> QED  BY <1>2, <1>3

LEMMA AppPublishes ==
    ASSUME AppRowsIInv, NEW a \in App, NEW url \in Url, UpdateDeployedURL(a, url)
    PROVE  AppRowsIInv' /\ SecretsGrow
<1> DEFINE r == [appRow[a] EXCEPT !.url = url]
<1>1. /\ Live(a) /\ appRow' = [appRow EXCEPT ![a] = r]
      /\ observed' = [observed EXCEPT ![a].url = url]
      /\ UNCHANGED <<appStore, creating, appEdit, secrets, tick>>
  BY DEF UpdateDeployedURL
<1>2. /\ appRow[a] \in AppRecord /\ appRow[a].at = "live"
      /\ observed \in [App -> [health : Verdict, url : Url \cup {NoUrl}]]
      /\ tick' \in [at : {"idle", "probing", "dead"}, todo : SUBSET App]
  BY <1>1 DEF AppRowsIInv, AppRowsTypeOK, AppShape, Live
<1>3. /\ r \in AppRecord /\ r.at = "live" /\ r.ver = appRow[a].ver /\ r.secret = appRow[a].secret
      /\ r.place = appRow[a].place /\ r.health = appRow[a].health /\ r.url = url
  BY <1>2 DEF AppRecord
<1> HIDE DEF r
<1>4. CASE appStore = "postgres"
  <2>1. observed[a].health = r.health
    BY <1>1, <1>3, <1>4 DEF AppRowsIInv, ObservationsShown
  <2>2. observed' = [observed EXCEPT ![a] = [health |-> r.health, url |-> url]]
    <3>1. observed[a] \in [health : Verdict, url : Url \cup {NoUrl}]
      BY <1>2
    <3>2. [observed[a] EXCEPT !.url = url] = [health |-> r.health, url |-> url]
      BY <2>1, <3>1
    <3>3. observed' = [observed EXCEPT ![a] = [observed[a] EXCEPT !.url = url]]
      BY <1>1
    <3> QED  BY <3>2, <3>3
  <2> QED  BY <1>1, <1>2, <1>3, <2>2, AppObserves
<1>5. CASE appStore # "postgres"
  <2>1. /\ AppRowsTypeOK /\ AppShape /\ PrefixUnique /\ ObservationsShown /\ Unborn /\ EditsFresh
    BY DEF AppRowsIInv
  <2>2. Clashing(a, r.place) = {}
    BY <1>1, <1>3, <2>1, SamePrefix
  <2>3. appRow' \in [App -> AppRecord] /\ PrefixUnique'
    BY <1>1, <1>3, <2>1, <2>2, PrefixKept
  <2>4. \A b \in App : /\ appRow'[b].ver = appRow[b].ver /\ appRow'[b].secret = appRow[b].secret
                       /\ appRow'[b].at = appRow[b].at
    <3>1. appRow'[a] = r /\ \A b \in App : b # a => appRow'[b] = appRow[b]
      BY <1>1, <2>1 DEF AppRowsTypeOK
    <3> QED  BY <1>2, <1>3, <3>1
  <2>5. /\ observed' \in [App -> [health : Verdict, url : Url \cup {NoUrl}]]
        /\ \A b \in App : b # a => observed'[b] = observed[b]
    BY <1>1, <1>2
  <2>6. AppRowsTypeOK' /\ AppShape'
    BY <1>1, <2>1, <2>3, <2>5 DEF AppRowsTypeOK, AppShape
  <2>7. ObservationsShown'
    BY <1>1, <1>5 DEF ObservationsShown
  <2>8. Unborn'
    BY <1>1, <1>2, <2>1, <2>4, <2>5 DEF Unborn
  <2>9. EditsFresh'
    BY <1>1, <2>1, <2>4 DEF EditsFresh, AppShape
  <2>10. SecretsGrow
    BY <2>1, <2>4, RowParts DEF SecretsGrow, AppRowsTypeOK
  <2> QED  BY <2>3, <2>6, <2>7, <2>8, <2>9, <2>10 DEF AppRowsIInv
<1> QED  BY <1>4, <1>5

LEMMA AppRowsKept ==
    ASSUME AppRowsIInv, AppRowsNext
    PROVE  AppRowsIInv' /\ SecretsGrow
<1>0. "unknown" \in Verdict /\ NoUrl \in Url \cup {NoUrl}
  BY DEF Verdict
<1>1. CASE CreateNext
  BY <1>1, AppCreate, AppCreateCheck DEF CreateNext
<1>2. CASE EditAppNext(AppEdit, Place \cup {NoPlace}, Verdict)
  BY <1>2, AppDelete, AppUpdateCheck, AppPut, AppRotate, AppUpdateGet DEF EditAppNext
<1>3. CASE TickList
  <2>1. tick' \in [at : {"idle", "probing", "dead"}, todo : SUBSET App]
    BY <1>3 DEF TickList
  <2> QED  BY <1>3, <2>1, AppTicks DEF TickList
<1>4. CASE TickEnds
  <2>1. tick' \in [at : {"idle", "probing", "dead"}, todo : SUBSET App]
    BY <1>4 DEF TickEnds, AppRowsIInv, AppShape
  <2> QED  BY <1>4, <2>1, AppTicks DEF TickEnds
<1>5. ASSUME NEW a \in App, TickProbe(a)  PROVE AppRowsIInv' /\ SecretsGrow
  BY <1>5, AppProbes DEF TickProbe
<1>6. ASSUME NEW a \in App, TickPanic(a)  PROVE AppRowsIInv' /\ SecretsGrow
  BY <1>0, <1>6, AppProbes DEF TickPanic
<1>7. ASSUME NEW a \in App, NEW url \in Url, UpdateDeployedURL(a, url)
      PROVE  AppRowsIInv' /\ SecretsGrow
  BY <1>7, AppPublishes
<1> QED
  BY <1>1, <1>2, <1>3, <1>4, <1>5, <1>6, <1>7 DEF AppRowsNext, ObserveNext, TickStep

\* App rows (handler/app.go, store/postgres/app.go, store/memory/app.go,
\* service/app_health.go): for any apps, requests, places and URLs, explicit
\* prefixes are unique, PostgreSQL's rows show the last verdict and URL, and no
\* edit brings an older webhook secret back.
THEOREM AppRowsHold ==
    AppRowsSpec => [](AppRowsTypeOK /\ PrefixUnique /\ ObservationsShown) /\ SecretKept
<1>1. (\E live \in BOOLEAN : AppRowsInit(live)) => AppRowsIInv
  BY AppRowsInitially
<1>2. ASSUME AppRowsIInv, [AppRowsNext]_appRowsVars
      PROVE  AppRowsIInv' /\ [SecretsGrow]_appRowsVars
  <2>1. CASE UNCHANGED appRowsVars
    <3>1. /\ UNCHANGED <<appStore, appRow, creating, appEdit, secrets, tick, observed>>
      BY <2>1 DEF appRowsVars
    <3>2. tick' \in [at : {"idle", "probing", "dead"}, todo : SUBSET App]
      BY <1>2, <3>1 DEF AppRowsIInv, AppShape
    <3> QED  BY <1>2, <2>1, <3>1, <3>2, AppTicks
  <2> QED  BY <1>2, <2>1, AppRowsKept
<1>3. AppRowsIInv => AppRowsTypeOK /\ PrefixUnique /\ ObservationsShown
  BY DEF AppRowsIInv
<1> QED  BY <1>1, <1>2, <1>3, PTL DEF AppRowsSpec, SecretKept, SecretsGrow

=============================================================================
