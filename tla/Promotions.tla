----------------------------- MODULE Promotions -----------------------------
(***************************************************************************)
(* One environment row and the promotion of one run to it                  *)
(* (handler/environment.go, service/promoter.go, secrets/database and the  *)
(* memory and PostgreSQL stores).  Edits of the environment, writes of its *)
(* secrets, promotions and approvals are concurrent requests; each request *)
(* is a read followed, in another statement, by a write.                   *)
(***************************************************************************)
EXTENDS Integers, FiniteSets

CONSTANTS
    EnvRequest,     \* requests of UpdateEnvironment, PutSecret and DeleteSecret
    PromoteRequest, \* requests of PromoteRun
    ApproveRequest, \* requests of ApprovePromotion
    ApproverOf,     \* ApproverOf[k]: the subject of the claims
    SecretKey,
    Policy          \* promotion policies an edit may set

ASSUME PromotionAssumption ==
    /\ Policy \subseteq [strategy : {"auto", "manual"}, required : Int]
    /\ Policy # {} /\ SecretKey # {} /\ IsFiniteSet(ApproveRequest)

VARIABLES
    promoStore, \* which store backs the service: "memory" or "postgres"
    env,      \* the environments row
    edit,     \* program point and locals of each EnvRequest
    kept,     \* secrets whose write was acknowledged and not undone since
    promo,    \* the run_promotions row
    ask,      \* program point and locals of each PromoteRequest
    appr,     \* subjects of the committed approvals
    say, sum  \* program point and count of each ApproveRequest

promoVars == <<promoStore, env, edit, kept, promo, ask, appr, say, sum>>

EnvRow == [exists : BOOLEAN, version : Nat, policy : Policy, secrets : SUBSET SecretKey]
PromoRow == [status : {"absent", "awaiting_approval", "approved", "deployed"},
             strategy : {"auto", "manual"}, required : Nat]
EditOp == {"none", "edit", "put", "delete"}

\* requiredApprovers
requiredApprovers(pol) ==
    IF pol.strategy = "auto" THEN 0 ELSE IF pol.required < 1 THEN 1 ELSE pol.required

PromotionTypeOK ==
    /\ promoStore \in {"memory", "postgres"}
    /\ env \in EnvRow
    /\ edit \in [EnvRequest -> [at : {"idle", "write", "done"}, op : EditOp,
                                base : Nat, secrets : SUBSET SecretKey, key : SecretKey]]
    /\ kept \subseteq SecretKey
    /\ promo \in PromoRow
    /\ ask \in [PromoteRequest -> [at : {"idle", "check", "create", "done"}, policy : Policy]]
    /\ appr \subseteq {ApproverOf[k] : k \in ApproveRequest}
    /\ say \in [ApproveRequest ->
                  {"idle", "insert", "inserted", "counted", "reload", "advance", "done"}]
    /\ sum \in [ApproveRequest -> 0..Cardinality(ApproveRequest)]

PromotionInit ==
    LET pol == CHOOSE p \in Policy : TRUE
        key == CHOOSE k \in SecretKey : TRUE IN
    /\ promoStore \in {"memory", "postgres"}
    /\ env = [exists |-> TRUE, version |-> 0, policy |-> pol, secrets |-> {}]
    /\ edit = [r \in EnvRequest |->
                 [at |-> "idle", op |-> "none", base |-> 0, secrets |-> {}, key |-> key]]
    /\ kept = {}
    /\ promo = [status |-> "absent", strategy |-> "manual", required |-> 0]
    /\ ask = [r \in PromoteRequest |-> [at |-> "idle", policy |-> pol]]
    /\ appr = {}
    /\ say = [k \in ApproveRequest |-> "idle"]
    /\ sum = [k \in ApproveRequest |-> 0]

-----------------------------------------------------------------------------
(* The environment *)

\* UpdateEnvironment reads the row for its secrets; the version is the one the
\* client was given, now or earlier.
UpdateEnvironment(r) ==
    /\ edit[r].at = "idle" /\ env.exists
    /\ \E v \in 0..env.version :
          edit' = [edit EXCEPT ![r] = [@ EXCEPT !.at = "write", !.op = "edit", !.base = v,
                                                !.secrets = env.secrets]]
    /\ UNCHANGED <<promoStore, env, kept, promo, ask, appr, say, sum>>

\* PutSecret: Manager.Put reads the row and adds the sealed value.
PutSecret(r, key) ==
    /\ edit[r].at = "idle" /\ env.exists
    /\ edit' = [edit EXCEPT ![r] = [at |-> "write", op |-> "put", base |-> env.version,
                                    secrets |-> env.secrets \cup {key}, key |-> key]]
    /\ UNCHANGED <<promoStore, env, kept, promo, ask, appr, say, sum>>

\* DeleteSecret: Manager.Delete reads the row and drops the key.
DeleteSecret(r, key) ==
    /\ edit[r].at = "idle" /\ env.exists
    /\ edit' = [edit EXCEPT ![r] = [at |-> "write", op |-> "delete", base |-> env.version,
                                    secrets |-> env.secrets \ {key}, key |-> key]]
    /\ UNCHANGED <<promoStore, env, kept, promo, ask, appr, say, sum>>

\* Mutant: the UPDATE without its version predicate.
VersionMatchesAny(r) == env.exists

\* EnvironmentStore.Update hits the row iff nobody wrote since the read.
VersionMatches(r) == env.exists /\ env.version = edit[r].base

\* The write of a request: acknowledged, or refused as a conflict (409, 404).
WriteEnvironment(r) ==
    LET e == edit[r] IN
    /\ e.at = "write"
    /\ edit' = [edit EXCEPT ![r].at = "done"]
    /\ IF VersionMatches(r)
         THEN /\ \E pol \in Policy :
                    /\ e.op # "edit" => pol = env.policy
                    /\ env' = [exists |-> TRUE, version |-> env.version + 1,
                               policy |-> pol, secrets |-> e.secrets]
              /\ kept' = CASE e.op = "put"    -> kept \cup {e.key}
                           [] e.op = "delete" -> kept \ {e.key}
                           [] e.op = "edit"   -> kept
         ELSE UNCHANGED <<env, kept>>
    /\ UNCHANGED <<promoStore, promo, ask, appr, say, sum>>

\* DeleteEnvironment; the promotion rows do not reference it.
DeleteEnvironment ==
    /\ env.exists
    /\ env' = [env EXCEPT !.exists = FALSE]
    /\ kept' = {}
    /\ UNCHANGED <<promoStore, edit, promo, ask, appr, say, sum>>

-----------------------------------------------------------------------------
(* Promotion *)

\* PromoteRun: the target's policy is read.
PromoteRun(r) ==
    /\ ask[r].at = "idle" /\ env.exists
    /\ ask' = [ask EXCEPT ![r] = [at |-> "check", policy |-> env.policy]]
    /\ UNCHANGED <<promoStore, env, edit, kept, promo, appr, say, sum>>

\* Promote returns a promotion that exists.
CheckExisting(r) ==
    /\ ask[r].at = "check"
    /\ ask' = [ask EXCEPT ![r].at = IF promo.status = "absent" THEN "create" ELSE "done"]
    /\ UNCHANGED <<promoStore, env, edit, kept, promo, appr, say, sum>>

\* CreatePromotion: the unique index lets one request in, the others return
\* the winner.
CreatePromotion(r) ==
    LET pol == ask[r].policy IN
    /\ ask[r].at = "create"
    /\ ask' = [ask EXCEPT ![r].at = "done"]
    /\ promo' = IF promo.status # "absent" THEN promo
                ELSE [status   |-> IF pol.strategy = "auto"
                                     THEN "deployed" ELSE "awaiting_approval",
                      strategy |-> pol.strategy,
                      required |-> requiredApprovers(pol)]
    /\ UNCHANGED <<promoStore, env, edit, kept, appr, say, sum>>

SayTo(k, from, to) == say[k] = from /\ say' = [say EXCEPT ![k] = to]

\* ApprovePromotion: the promotion is loaded, whatever its status.
ApprovePromotion(k) ==
    /\ promo.status # "absent"
    /\ SayTo(k, "idle", "insert")
    /\ UNCHANGED <<promoStore, env, edit, kept, promo, ask, appr, sum>>

\* AddApproval of the memory store, under its mutex.
AddApprovalLocked(k) ==
    /\ promoStore = "memory"
    /\ SayTo(k, "insert", "reload")
    /\ appr' = appr \cup {ApproverOf[k]}
    /\ sum' = [sum EXCEPT ![k] = Cardinality(appr')]
    /\ UNCHANGED <<promoStore, env, edit, kept, promo, ask>>

\* AddApproval of the PostgreSQL store: insert, count and commit of a READ COMMITTED transaction.
AddApprovalInsert(k) ==
    /\ promoStore = "postgres"
    /\ \A j \in ApproveRequest \ {k} :
          ApproverOf[j] = ApproverOf[k] => say[j] \notin {"inserted", "counted"}
    /\ SayTo(k, "insert", "inserted")
    /\ UNCHANGED <<promoStore, env, edit, kept, promo, ask, appr, sum>>

AddApprovalCount(k) ==
    /\ SayTo(k, "inserted", "counted")
    /\ sum' = [sum EXCEPT ![k] = Cardinality(appr \cup {ApproverOf[k]})]
    /\ UNCHANGED <<promoStore, env, edit, kept, promo, ask, appr>>

AddApprovalCommit(k) ==
    /\ SayTo(k, "counted", "reload")
    /\ appr' = appr \cup {ApproverOf[k]}
    /\ UNCHANGED <<promoStore, env, edit, kept, promo, ask, sum>>

\* Approve reads the promotion again and decides whether to advance it.
ReloadPromotion(k) ==
    /\ say[k] = "reload"
    /\ say' = [say EXCEPT ![k] =
                 IF sum[k] >= promo.required /\ promo.status = "awaiting_approval"
                   THEN "advance" ELSE "done"]
    /\ UNCHANGED <<promoStore, env, edit, kept, promo, ask, appr, sum>>

\* UpdatePromotionStatus
AdvancePromotion(k) ==
    /\ SayTo(k, "advance", "done")
    /\ promo' = [promo EXCEPT !.status = "approved"]
    /\ UNCHANGED <<promoStore, env, edit, kept, ask, appr, sum>>

EnvNext ==
    \/ \E r \in EnvRequest :
          \/ UpdateEnvironment(r) \/ WriteEnvironment(r)
          \/ \E key \in SecretKey : PutSecret(r, key) \/ DeleteSecret(r, key)
    \/ DeleteEnvironment

PromoteNext ==
    \/ \E r \in PromoteRequest : PromoteRun(r) \/ CheckExisting(r) \/ CreatePromotion(r)
    \/ \E k \in ApproveRequest :
          \/ ApprovePromotion(k) \/ AddApprovalLocked(k)
          \/ AddApprovalInsert(k) \/ AddApprovalCount(k) \/ AddApprovalCommit(k)
          \/ ReloadPromotion(k) \/ AdvancePromotion(k)

PromotionNext == EnvNext \/ PromoteNext

PromotionSpec == PromotionInit /\ [][PromotionNext]_promoVars

-----------------------------------------------------------------------------
\* No request undoes another one's acknowledged secret: UpdateEnvironment and
\* the secret writers all rewrite the whole secrets column from what they read.
SecretsKept == env.exists => kept \subseteq env.secrets

\* The gate counts against the policy of the moment of the promotion: an
\* approved promotion was manual and has the approvals its row asks for, one at
\* least, although promotions race each other, policy edits and repeated
\* approvals.
PromotionQuorum ==
    /\ promo.status = "approved" =>
          /\ promo.strategy = "manual"
          /\ promo.required >= 1 /\ Cardinality(appr) >= promo.required
    /\ promo.status = "deployed" <=> promo.strategy = "auto"

\* "editing the policy later does not retroactively change an in-flight gate":
\* the row keeps the policy it was created with.
PolicySnapshot ==
    [][promo.status # "absent" =>
         promo'.required = promo.required /\ promo'.strategy = promo.strategy]_promoVars

\* Promotions count against the policy they were created with, and no edit of an
\* environment undoes an acknowledged secret.
PromotionsCorrect == [](PromotionTypeOK /\ SecretsKept /\ PromotionQuorum) /\ PolicySnapshot

=============================================================================
