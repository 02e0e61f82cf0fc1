----------------------------- MODULE Licensing ------------------------------
(***************************************************************************)
(* The licence of an installation: signature check (license/verify.go),    *)
(* plans (entitlements/entitlements.go), the service (service/license.go), *)
(* its routes (handler/license.go) and the install from COOKER_LICENSE_KEY *)
(* that every replica tries when it boots (server/server.go).  There is    *)
(* one row, replaced by an upsert: administrators and booting replicas     *)
(* interleave between the read and the install, and the write may fail.    *)
(***************************************************************************)
EXTENDS Integers, Sequences

CONSTANTS
    Replica,        \* replicas that boot with COOKER_LICENSE_KEY
    EnvKey,         \* the token they are configured with
    LicToken,       \* licence tokens
    SignedBy,       \* SignedBy[t]: the key that signed a well-formed token, else NoKey
    PlanOf,         \* PlanOf[t]: the plan of its claims
    ExtraOf,        \* ExtraOf[t]: features granted by name
    Expires,        \* Expires[t]: the day it expires, 0 for a perpetual licence
    RawKeys,        \* the configured keys in order; BadKey does not decode
    BadKey, NoKey,
    Days,           \* bound on the clock
    Absent          \* no licence

ASSUME LicensingAssumption ==
    /\ EnvKey \in LicToken /\ Absent \notin LicToken
    /\ Expires \in [LicToken -> Nat] /\ Days \in Nat
    /\ NoKey # BadKey /\ \A i \in 1..Len(RawKeys) : RawKeys[i] # NoKey
    /\ \A t \in LicToken : SignedBy[t] # BadKey

VARIABLES
    day,        \* the clock
    licence,    \* the token of the active row, or Absent
    rep,        \* program point of each replica: "refused" and "degraded" are up, too,
                \* after an install that was refused or whose write failed
    seen,       \* seen[r]: the token its boot read
    quiet,      \* quiet[r]: no administrator has changed the licence since it began to boot
    served,     \* the features the last reader was served
    servedDay,  \* when
    servedOf    \* and the licence at that moment

servedVars == <<served, servedDay, servedOf>>
licenceVars == <<day, licence, rep, seen, quiet, servedVars>>

Features == {"multi_replica", "oidc_mfa", "managed_secrets", "audit_otlp", "sso_group_map", "air_gapped"}

planFeatures(plan) ==
    CASE plan = "constellation" -> Features
      [] plan = "crew" -> Features \ {"sso_group_map", "air_gapped"}
      [] OTHER -> {}

\* Every feature some token may grant, by its plan or by name.
Grantable == Features \cup UNION {ExtraOf[t] : t \in LicToken}

LicensingTypeOK ==
    /\ day \in 0..Days /\ servedDay \in 0..Days
    /\ licence \in LicToken \cup {Absent} /\ servedOf \in LicToken \cup {Absent}
    /\ rep \in [Replica -> {"booting", "read", "up", "refused", "degraded"}]
    /\ seen \in [Replica -> LicToken \cup {Absent}]
    /\ quiet \in [Replica -> BOOLEAN]
    /\ served \subseteq Grantable

LicensingInit ==
    /\ day = 0 /\ licence = Absent
    /\ rep = [r \in Replica |-> "booting"] /\ seen = [r \in Replica |-> Absent]
    /\ quiet = [r \in Replica |-> TRUE]
    /\ served = {} /\ servedDay = 0 /\ servedOf = Absent

Tick == day < Days /\ day' = day + 1 /\ UNCHANGED <<licence, rep, seen, quiet, servedVars>>

-----------------------------------------------------------------------------
\* The keys that decode; the others are logged and skipped.
PubKeys == {RawKeys[i] : i \in 1..Len(RawKeys)} \ {BadKey}

\* Verify: the signature over the payload, against one key.
Verify(t, k) ==
    CASE SignedBy[t] = NoKey -> "malformed"
      [] SignedBy[t] = k -> "claims"
      [] OTHER -> "bad signature"

\* VerifyAny: some configured key validates the token.
VerifyAny(t) == \E k \in PubKeys : Verify(t, k) = "claims"

IsExpired(t) == Expires[t] # 0 /\ day >= Expires[t]

\* FromLicense and featureSet: without an active licence, the free plan.
FromLicense(t) ==
    IF t = Absent THEN {}
    ELSE IF IsExpired(t) THEN {} ELSE planFeatures(PlanOf[t]) \cup ExtraOf[t]

\* Install of the service refuses every other token.
Installable(t) == VerifyAny(t) /\ ~IsExpired(t)

-----------------------------------------------------------------------------
\* Boot: the active licence is read; a failed read counts as none.
BootCurrent(r) ==
    /\ rep[r] = "booting"
    /\ rep' = [rep EXCEPT ![r] = "read"]
    /\ \E found \in {licence, Absent} : seen' = [seen EXCEPT ![r] = found]
    /\ UNCHANGED <<day, licence, quiet, servedVars>>

\* Mutant: an installed licence is kept, whichever it is.
BootInstallIfNone(r) ==
    /\ rep[r] = "read"
    /\ rep' = [rep EXCEPT ![r] = "up"]
    /\ licence' = IF seen[r] = Absent /\ Installable(EnvKey) THEN EnvKey ELSE licence
    /\ UNCHANGED <<day, seen, quiet, servedVars>>

\* ... and COOKER_LICENSE_KEY installed unless it is what was read.  Install
\* refuses a token, or its Set fails, with the row written or not (the answer
\* may be lost): the failure is logged and the replica boots on, with the
\* licence as it is.
BootInstall(r) ==
    /\ rep[r] = "read"
    /\ \/ /\ seen[r] = EnvKey
          /\ rep' = [rep EXCEPT ![r] = "up"] /\ UNCHANGED licence
       \/ /\ seen[r] # EnvKey /\ Installable(EnvKey)
          /\ rep' = [rep EXCEPT ![r] = "up"] /\ licence' = EnvKey
       \/ /\ seen[r] # EnvKey /\ Installable(EnvKey)
          /\ rep' = [rep EXCEPT ![r] = "degraded"] /\ licence' \in {licence, EnvKey}
       \/ /\ seen[r] # EnvKey /\ ~Installable(EnvKey)
          /\ rep' = [rep EXCEPT ![r] = "refused"] /\ UNCHANGED licence
    /\ UNCHANGED <<day, seen, quiet, servedVars>>

Reboot(r) ==
    /\ rep[r] \in {"up", "refused", "degraded"}
    /\ rep' = [rep EXCEPT ![r] = "booting"]
    /\ quiet' = [quiet EXCEPT ![r] = TRUE]
    /\ UNCHANGED <<day, licence, seen, servedVars>>

\* InstallLicense: Set replaces the row.  One that fails has done so, or nothing.
InstallLicense(t) ==
    /\ Installable(t)
    /\ licence' = t /\ quiet' = [r \in Replica |-> FALSE]
    /\ UNCHANGED <<day, rep, seen, servedVars>>

DeleteLicense ==
    /\ licence' = Absent /\ quiet' = [r \in Replica |-> FALSE]
    /\ UNCHANGED <<day, rep, seen, servedVars>>

\* Current, as GetLicense and entitlementGate read it: an error is the free plan.
GetLicense ==
    /\ served' \in {FromLicense(licence), {}}
    /\ servedDay' = day /\ servedOf' = licence
    /\ UNCHANGED <<day, licence, rep, seen, quiet>>

LicensingNext ==
    \/ Tick \/ DeleteLicense \/ GetLicense
    \/ \E r \in Replica : BootCurrent(r) \/ BootInstall(r) \/ Reboot(r)
    \/ \E t \in LicToken : InstallLicense(t)

LicensingSpec == LicensingInit /\ [][LicensingNext]_licenceVars

-----------------------------------------------------------------------------
\* A configured key signed it.
Trusted(t) == \E i \in 1..Len(RawKeys) : SignedBy[t] = RawKeys[i]

\* Whoever installed what, and however long ago, a reader is served the free
\* plan or exactly the features of the licence that was active when it read:
\* one that a configured key signed and that had not expired by then.
EntitledWhenServed ==
    served # {} =>
        /\ servedOf # Absent /\ Trusted(servedOf)
        /\ Expires[servedOf] = 0 \/ servedDay < Expires[servedOf]
        /\ served = planFeatures(PlanOf[servedOf]) \cup ExtraOf[servedOf]

\* "COOKER_LICENSE_KEY is declarative - env wins when the token changes", and
\* the boot installs of several replicas converge: once a replica has booted
\* without a failed install, and unless an administrator has changed the licence
\* since it began to boot, the licence is the configured one.  A key that is
\* trusted and has not expired is never refused.
EnvKeyWins ==
    \A r \in Replica :
        /\ rep[r] = "up" /\ quiet[r] => licence = EnvKey
        /\ rep[r] = "refused" => ~Trusted(EnvKey) \/ (Expires[EnvKey] # 0 /\ Expires[EnvKey] <= day)

\* Replicas serve what the licence of the moment entitles to or the free plan,
\* and the configured key prevails after a boot whose install did not fail.
LicensingInv == LicensingTypeOK /\ EntitledWhenServed /\ EnvKeyWins

\* What the comment of the boot install says: "On ANY failure log and degrade to
\* Free".  Violated: a failed install leaves the licence that was active.
FailedBootIsFree ==
    \A r \in Replica : rep[r] \in {"refused", "degraded"} /\ quiet[r] => licence \in {Absent, EnvKey}

=============================================================================
