--------------------------- MODULE StageApprovals ---------------------------
(***************************************************************************)
(* The approval gate of one approval stage of one run                      *)
(* (service/stageapproval.go, handler/stageapproval.go and the two         *)
(* stores): the executor opens the gate and polls it, approvers and        *)
(* rejecters call the handlers concurrently.                               *)
(***************************************************************************)
EXTENDS Integers, FiniteSets

CONSTANTS
    Click,          \* requests of ApproveStage and RejectStage
    Sub,            \* Sub[k]: the approver_sub of the request's claims
    Approver,       \* the subs holding the admin or the approver role
    Required,       \* stage.Config.RequiredApprovers
    MaxGateFaults   \* bound on requests that a store error ends

ASSUME GateAssumption ==
    /\ Sub \in [Click -> STRING] /\ Approver \subseteq STRING /\ IsFiniteSet(Approver)
    /\ Required \in Int /\ MaxGateFaults \in Nat

VARIABLES
    gateStore,   \* which store backs the service: "memory" or "postgres"
    gate,        \* status of the gate row
    votes,       \* subs of the committed vote rows
    click,       \* program point of each request
    tally,       \* the count its AddVote returned
    gateFaults

gateVars == <<gateStore, gate, votes, click, tally, gateFaults>>

\* normalizeApprovers: a misconfigured gate still needs one approver.
normalizeApprovers(n) == IF n < 1 THEN 1 ELSE n

GateStatus == {"absent", "awaiting", "approved", "rejected"}
InTx == {"inserted", "counted"}
ClickPoint == InTx \cup {"idle", "vote", "reload", "advance", "reject", "done"}

GateTypeOK ==
    /\ gateStore \in {"memory", "postgres"}
    /\ gate \in GateStatus
    /\ votes \subseteq Approver
    /\ click \in [Click -> ClickPoint]
    /\ tally \in [Click -> 0..Cardinality(Approver)]
    /\ gateFaults \in 0..MaxGateFaults

\* The gate of a stage that an earlier attempt may have opened or settled.
GateInit ==
    /\ gateStore \in {"memory", "postgres"}
    /\ gate \in {"absent", "awaiting", "rejected"}
    /\ votes = {}
    /\ click = [k \in Click |-> "idle"]
    /\ tally = [k \in Click |-> 0]
    /\ gateFaults = 0

ClickTo(k, from, to) == click[k] = from /\ click' = [click EXCEPT ![k] = to]

\* Await, called by the executor: the gate of (run, stage) is found or created.
Await == gate' = IF gate = "absent" THEN "awaiting" ELSE gate

\* ApproveStage and Approve: role, run and gate are checked, a resolved gate
\* is refused.
ApproveStage(k) ==
    /\ Sub[k] \in Approver /\ gate = "awaiting"
    /\ ClickTo(k, "idle", "vote")
    /\ UNCHANGED <<gateStore, gate, votes, tally, gateFaults>>

RejectStage(k) ==
    /\ Sub[k] \in Approver /\ gate = "awaiting"
    /\ ClickTo(k, "idle", "reject")
    /\ UNCHANGED <<gateStore, gate, votes, tally, gateFaults>>

\* AddVote of the memory store, under its mutex.
AddVoteLocked(k) ==
    /\ gateStore = "memory"
    /\ ClickTo(k, "vote", "reload")
    /\ votes' = votes \cup {Sub[k]}
    /\ tally' = [tally EXCEPT ![k] = Cardinality(votes')]
    /\ UNCHANGED <<gateStore, gate, gateFaults>>

\* AddVote of the PostgreSQL store, a READ COMMITTED transaction: an insert
\* (which waits for an uncommitted vote of the same sub), a count of the
\* committed rows and its own, a commit.
AddVoteInsert(k) ==
    /\ gateStore = "postgres"
    /\ \A other \in Click \ {k} : Sub[other] = Sub[k] => click[other] \notin InTx
    /\ ClickTo(k, "vote", "inserted")
    /\ UNCHANGED <<gateStore, gate, votes, tally, gateFaults>>

AddVoteCount(k) ==
    /\ ClickTo(k, "inserted", "counted")
    /\ tally' = [tally EXCEPT ![k] = Cardinality(votes \cup {Sub[k]})]
    /\ UNCHANGED <<gateStore, gate, votes, gateFaults>>

AddVoteCommit(k) ==
    /\ ClickTo(k, "counted", "reload")
    /\ votes' = votes \cup {Sub[k]}
    /\ UNCHANGED <<gateStore, gate, tally, gateFaults>>

\* Mutant: one vote too few is enough.
ReloadEarly(k) ==
    /\ click[k] = "reload"
    /\ click' = [click EXCEPT ![k] = IF tally[k] >= Required - 1 /\ gate = "awaiting"
                                       THEN "advance" ELSE "done"]
    /\ UNCHANGED <<gateStore, gate, votes, tally, gateFaults>>

\* The gate is read again and, when the quorum is reached, advanced.
Reload(k) ==
    /\ click[k] = "reload"
    /\ click' = [click EXCEPT ![k] =
                   IF tally[k] >= normalizeApprovers(Required) /\ gate = "awaiting"
                     THEN "advance" ELSE "done"]
    /\ UNCHANGED <<gateStore, gate, votes, tally, gateFaults>>

\* UpdateGateStatus writes whatever the row holds by now.
UpdateGateStatus(k, from, status) ==
    /\ ClickTo(k, from, "done")
    /\ gate' = status
    /\ UNCHANGED <<gateStore, votes, tally, gateFaults>>

\* A statement fails or the client is gone: the request returns an error and
\* an open transaction is rolled back.
ClickFails(k) ==
    /\ gateStore = "postgres" /\ gateFaults < MaxGateFaults
    /\ click[k] \notin {"idle", "done"}
    /\ click' = [click EXCEPT ![k] = "done"]
    /\ gateFaults' = gateFaults + 1
    /\ UNCHANGED <<gateStore, gate, votes, tally>>

ClickStep(k) ==
    \/ AddVoteLocked(k) \/ AddVoteInsert(k) \/ AddVoteCount(k) \/ AddVoteCommit(k)
    \/ Reload(k)
    \/ UpdateGateStatus(k, "advance", "approved") \/ UpdateGateStatus(k, "reject", "rejected")

GateNext ==
    \E k \in Click : ApproveStage(k) \/ RejectStage(k) \/ ClickStep(k) \/ ClickFails(k)

-----------------------------------------------------------------------------
\* An approved gate, and a gate about to be approved, has the votes of as many
\* different approvers as the stage asks for: repeated clicks of one approver
\* and counts taken inside uncommitted transactions never make up a quorum.
QuorumBehindApproval ==
    gate = "approved" \/ (\E k \in Click : click[k] = "advance")
        => Cardinality(votes) >= normalizeApprovers(Required)

\* The gate does not stay open when everybody has voted: with the memory store
\* a reached quorum with no request in flight is a resolved gate.
QuorumSettles ==
    gateStore = "memory" /\ Cardinality(votes) >= normalizeApprovers(Required)
        /\ (\A k \in Click : click[k] \in {"idle", "done"}) => gate # "awaiting"

\* "concurrent votes cannot observe a count that omits a just-inserted peer
\* row, which would cause a gate to stall permanently" (postgres AddVote).
VotesNeverStall ==
    Cardinality(votes) >= normalizeApprovers(Required)
        /\ (\A k \in Click : click[k] \in {"idle", "done"}) => gate # "awaiting"

\* A gate opens with a quorum of different approvers, and (memory store) with it
\* at the latest when the last request has been served.
GateInv == GateTypeOK /\ QuorumBehindApproval /\ QuorumSettles

=============================================================================
