--------------------------- MODULE DeliveryProofs ---------------------------
(***************************************************************************)
(* Proofs about the approval gate, the executor, promotions and pipeline   *)
(* definitions, for every pipeline, every number of requests and every     *)
(* policy.  They need induction over the naturals, which is stated here    *)
(* with a set in the place of the predicate, and functions defined by      *)
(* primitive recursion.                                                    *)
(***************************************************************************)
EXTENDS StageGraph, Promotions, PipelineRows, FiniteSetTheorems, WellFoundedInduction, TLAPS

-----------------------------------------------------------------------------
(* Induction and recursion on the naturals *)

\* A non-empty set of naturals has a least element.
LEMMA NatLeast ==
  ASSUME NEW T, T \subseteq Nat, T # {}
  PROVE  \E x \in T : \A y \in T : x <= y
  <1> DEFINE R == OpToRel(<, Nat)
  <1>1. IsWellFoundedOn(R, Nat)
    BY NatLessThanWellFounded
  <1>2. \A x, y \in Nat : x < y => <<x, y>> \in R
    BY DEF OpToRel
  <1> HIDE DEF R
  <1>3. PICK x \in T : \A y \in T : ~ (<<y, x>> \in R)
    <2>1. \E x \in T : \A y \in T : ~ (<<y, x>> \in R)
      BY <1>1, WFMin
    <2>2. QED
      BY <2>1
  <1>4. ASSUME NEW y \in T
        PROVE  x <= y
    <2>1. x \in Nat /\ y \in Nat
      OBVIOUS
    <2>2. ~ (y < x)
      BY <1>2, <1>3, <2>1, Zenon
    <2>3. QED
      BY <2>1, <2>2
  <1>5. QED
    BY <1>4

\* Induction on the naturals.
LEMMA NatSetInduction ==
  ASSUME NEW S, 0 \in S, \A n \in Nat : n \in S => n + 1 \in S
  PROVE  Nat \subseteq S
  <1>1. SUFFICES ASSUME Nat \ S # {}
                 PROVE  FALSE
    OBVIOUS
  <1>2. PICK x \in Nat \ S : \A y \in Nat \ S : x <= y
    BY <1>1, NatLeast
  <1>3. x # 0 /\ x - 1 \in Nat
    BY <1>2
  <1>4. x - 1 \in S
    BY <1>2, <1>3
  <1>5. (x - 1) + 1 \in S
    BY <1>3, <1>4
  <1>6. QED
    BY <1>2, <1>5

\* The values of a primitive recursion up to n.
Unrolled(n, S, a, F) ==
  {g \in [0..n -> S] : g[0] = a /\ \A i \in 1..n : g[i] = F[g[i - 1]]}

LEMMA UnrolledExists ==
  ASSUME NEW S, NEW a \in S, NEW F \in [S -> S], NEW n \in Nat
  PROVE  Unrolled(n, S, a, F) # {}
  <1> DEFINE P == {m \in Nat : Unrolled(m, S, a, F) # {}}
  <1>1. 0 \in P
    <2>1. [i \in 0..0 |-> a] \in Unrolled(0, S, a, F)
      BY DEF Unrolled
    <2>2. QED
      BY <2>1
  <1>2. ASSUME NEW m \in Nat, m \in P
        PROVE  m + 1 \in P
    <2>1. PICK g \in [0..m -> S] : g[0] = a /\ \A i \in 1..m : g[i] = F[g[i - 1]]
      BY <1>2 DEF Unrolled
    <2> DEFINE h == [i \in 0..(m + 1) |-> IF i <= m THEN g[i] ELSE F[g[m]]]
    <2>2. h \in [0..(m + 1) -> S]
      <3>1. ASSUME NEW i \in 0..(m + 1)
            PROVE  (IF i <= m THEN g[i] ELSE F[g[m]]) \in S
        BY <2>1
      <3>2. QED
        BY <3>1
    <2>3. h[0] = a
      BY <2>1
    <2>4. ASSUME NEW i \in 1..(m + 1)
          PROVE  h[i] = F[h[i - 1]]
      <3>1. CASE i <= m
        <4>1. i \in 1..m /\ i - 1 \in 0..m /\ i - 1 <= m
          BY <3>1
        <4>2. h[i] = g[i] /\ h[i - 1] = g[i - 1]
          BY <4>1
        <4>3. QED
          BY <2>1, <4>1, <4>2
      <3>2. CASE i = m + 1
        <4>1. h[i] = F[g[m]] /\ h[m] = g[m] /\ i - 1 = m
          BY <3>2
        <4>2. QED
          BY <4>1
      <3>3. QED
        BY <3>1, <3>2
    <2> HIDE DEF h
    <2>5. h \in Unrolled(m + 1, S, a, F)
      BY <2>2, <2>3, <2>4 DEF Unrolled
    <2>6. QED
      BY <2>5
  <1> HIDE DEF P
  <1>3. Nat \subseteq P
    BY <1>1, <1>2, NatSetInduction
  <1>4. QED
    BY <1>3 DEF P

\* Two unrollings agree where both are defined.
LEMMA UnrolledAgree ==
  ASSUME NEW S, NEW a \in S, NEW F \in [S -> S], NEW n \in Nat, NEW m \in Nat,
         NEW g \in Unrolled(n, S, a, F), NEW h \in Unrolled(m, S, a, F)
  PROVE  \A i \in 0..n : i <= m => g[i] = h[i]
  <1> DEFINE P == {i \in Nat : i <= n /\ i <= m => g[i] = h[i]}
  <1>1. 0 \in P
    BY DEF Unrolled
  <1>2. ASSUME NEW i \in Nat, i \in P
        PROVE  i + 1 \in P
    <2>1. SUFFICES ASSUME i + 1 <= n, i + 1 <= m
                   PROVE  g[i + 1] = h[i + 1]
      OBVIOUS
    <2>2. g[i] = h[i]
      BY <1>2, <2>1
    <2>3. i + 1 \in 1..n /\ i + 1 \in 1..m /\ (i + 1) - 1 = i
      BY <2>1
    <2>4. g[i + 1] = F[g[i]] /\ h[i + 1] = F[h[i]]
      BY <2>3 DEF Unrolled
    <2>5. QED
      BY <2>2, <2>4
  <1> HIDE DEF P
  <1>3. Nat \subseteq P
    BY <1>1, <1>2, NatSetInduction
  <1>4. QED
    BY <1>3 DEF P

\* f is the primitive recursion from a by F.
Iterates(f, S, a, F) == f \in [Nat -> S] /\ f[0] = a /\ \A n \in Nat : f[n + 1] = F[f[n]]

\* Primitive recursion defines a function.
LEMMA RecursionExists ==
  ASSUME NEW S, NEW a \in S, NEW F \in [S -> S]
  PROVE  \E f : Iterates(f, S, a, F)
  <1> DEFINE G(n) == CHOOSE g : g \in Unrolled(n, S, a, F)
             f == [n \in Nat |-> G(n)[n]]
  <1>1. \A n \in Nat : G(n) \in Unrolled(n, S, a, F)
    BY UnrolledExists
  <1> HIDE DEF G
  <1>2. ASSUME NEW n \in Nat
        PROVE  G(n)[n] \in S
    <2>1. G(n) \in [0..n -> S] /\ n \in 0..n
      BY <1>1 DEF Unrolled
    <2>2. QED
      BY <2>1
  <1>3. f \in [Nat -> S]
    BY <1>2
  <1>4. f[0] = a
    <2>1. G(0)[0] = a
      BY <1>1 DEF Unrolled
    <2>2. QED
      BY <2>1
  <1>5. ASSUME NEW n \in Nat
        PROVE  f[n + 1] = F[f[n]]
    <2>1. G(n + 1) \in Unrolled(n + 1, S, a, F) /\ G(n) \in Unrolled(n, S, a, F) /\ n + 1 \in Nat
      BY <1>1
    <2>2. G(n + 1)[n + 1] = F[G(n + 1)[n]]
      <3>1. n + 1 \in 1..(n + 1) /\ (n + 1) - 1 = n
        OBVIOUS
      <3>2. QED
        BY <2>1, <3>1 DEF Unrolled
    <2>3. G(n + 1)[n] = G(n)[n]
      BY <2>1, UnrolledAgree
    <2>4. QED
      BY <2>1, <2>2, <2>3
  <1> HIDE DEF f
  <1>6. Iterates(f, S, a, F)
    BY <1>3, <1>4, <1>5 DEF Iterates
  <1>7. QED
    BY <1>6

-----------------------------------------------------------------------------
(* The approval gate *)

\* How many approvers the gate asks for.
Quorum == normalizeApprovers(Required)

\* Only approvers get past the handlers' checks.
ClicksAuthorized == \A k \in Click : click[k] # "idle" => Sub[k] \in Approver

\* A count is backed by votes: committed ones, and the caller's own while its
\* transaction is open.
TallyBacked ==
  \A k \in Click :
      /\ click[k] \in {"reload", "advance"} => tally[k] <= Cardinality(votes)
      /\ click[k] = "counted" => tally[k] <= Cardinality(votes \cup {Sub[k]})
      /\ click[k] = "advance" => Quorum <= tally[k]

\* Nobody votes on a gate that is not open yet.
AbsentUntouched == gate = "absent" => votes = {} /\ \A k \in Click : click[k] = "idle"

\* With the memory store the request that completed the quorum has seen it, and
\* settles the gate unless somebody else did.
LastVoterSettles ==
  gateStore = "memory" /\ Quorum <= Cardinality(votes) =>
      \/ gate # "awaiting"
      \/ \E k \in Click : click[k] = "advance" \/ (click[k] = "reload" /\ Quorum <= tally[k])

\* The memory store has no transactions.
TxInPostgres == \A k \in Click : click[k] \in InTx => gateStore = "postgres"

GateIInv ==
  /\ GateTypeOK /\ ClicksAuthorized /\ TallyBacked /\ AbsentUntouched /\ TxInPostgres
  /\ LastVoterSettles
  /\ gate = "approved" => Quorum <= Cardinality(votes)

\* A gate asks for one approver at least (normalizeApprovers).
LEMMA QuorumPositive == Quorum \in Nat /\ Quorum >= 1
  BY GateAssumption DEF Quorum, normalizeApprovers

\* Votes are counted among finitely many approvers, and one more vote never
\* makes them fewer.
LEMMA VoteCount ==
  ASSUME GateTypeOK, NEW s \in Approver
  PROVE  /\ votes \cup {s} \subseteq Approver
         /\ Cardinality(votes) \in 0..Cardinality(Approver)
         /\ Cardinality(votes \cup {s}) \in 0..Cardinality(Approver)
         /\ Cardinality(votes) <= Cardinality(votes \cup {s})
         /\ Cardinality(Approver) \in Nat
  <1>1. votes \subseteq Approver /\ IsFiniteSet(Approver) /\ votes \cup {s} \subseteq Approver
    BY GateAssumption DEF GateTypeOK
  <1>2. IsFiniteSet(votes) /\ IsFiniteSet(votes \cup {s})
    BY <1>1, FS_Subset
  <1>3. Cardinality(votes) \in Nat /\ Cardinality(votes \cup {s}) \in Nat /\ Cardinality(Approver) \in Nat
    BY <1>1, <1>2, FS_CardinalityType
  <1>4. /\ Cardinality(votes) <= Cardinality(Approver)
        /\ Cardinality(votes \cup {s}) <= Cardinality(Approver)
        /\ Cardinality(votes) <= Cardinality(votes \cup {s})
    BY <1>1, <1>2, FS_Subset
  <1>5. QED
    BY <1>1, <1>3, <1>4

LEMMA GateInitially == GateInit => GateIInv
  <1>1. Cardinality({}) = 0
    BY FS_EmptySet
  <1>2. Cardinality(Approver) \in Nat
    BY GateAssumption, FS_CardinalityType
  <1>3. SUFFICES ASSUME GateInit
                 PROVE  GateIInv
    OBVIOUS
  <1>4. GateTypeOK
    BY <1>2, <1>3, GateAssumption DEF GateInit, GateTypeOK, GateStatus, ClickPoint, InTx
  <1>5. ClicksAuthorized /\ TallyBacked /\ AbsentUntouched /\ TxInPostgres
    BY <1>3 DEF GateInit, ClicksAuthorized, TallyBacked, AbsentUntouched, TxInPostgres, InTx
  <1>6. LastVoterSettles /\ gate # "approved"
    BY <1>1, <1>3, QuorumPositive DEF GateInit, LastVoterSettles
  <1>7. QED
    BY <1>4, <1>5, <1>6 DEF GateIInv

\* The steps of a request up to its vote.
LEMMA GateEnter ==
  ASSUME GateIInv, NEW k \in Click,
         ApproveStage(k) \/ RejectStage(k) \/ AddVoteInsert(k)
  PROVE  GateIInv'
  <1>1. PICK to \in {"vote", "reject", "inserted"} : click' = [click EXCEPT ![k] = to]
    BY DEF ApproveStage, RejectStage, AddVoteInsert, ClickTo
  <1>2. /\ Sub[k] \in Approver /\ gate # "absent"
        /\ UNCHANGED <<gateStore, gate, votes, tally, gateFaults>>
        /\ click[k] \in {"idle", "vote"}
    BY DEF ApproveStage, RejectStage, AddVoteInsert, ClickTo, GateIInv, ClicksAuthorized, AbsentUntouched
  <1>3. click \in [Click -> ClickPoint]
    BY DEF GateIInv, GateTypeOK
  <1>4. GateTypeOK'
    BY <1>1, <1>2, <1>3 DEF GateIInv, GateTypeOK, ClickPoint, InTx
  <1>5. ClicksAuthorized' /\ TallyBacked' /\ AbsentUntouched'
    BY <1>1, <1>2, <1>3 DEF GateIInv, ClicksAuthorized, TallyBacked, AbsentUntouched
  <1>6. LastVoterSettles'
    BY <1>1, <1>2, <1>3 DEF GateIInv, LastVoterSettles
  <1>7. TxInPostgres'
    BY <1>1, <1>2, <1>3 DEF GateIInv, TxInPostgres, InTx, ApproveStage, RejectStage, AddVoteInsert, ClickTo
  <1>8. QED
    BY <1>2, <1>4, <1>5, <1>6, <1>7 DEF GateIInv

\* The vote is counted inside the transaction.
LEMMA GateCount ==
  ASSUME GateIInv, NEW k \in Click, AddVoteCount(k)
  PROVE  GateIInv'
  <1>1. /\ click[k] = "inserted" /\ click' = [click EXCEPT ![k] = "counted"]
        /\ tally' = [tally EXCEPT ![k] = Cardinality(votes \cup {Sub[k]})]
        /\ UNCHANGED <<gateStore, gate, votes, gateFaults>>
    BY DEF AddVoteCount, ClickTo
  <1>2. /\ click \in [Click -> ClickPoint] /\ tally \in [Click -> 0..Cardinality(Approver)]
        /\ GateTypeOK
    BY DEF GateIInv, GateTypeOK
  <1>3. Sub[k] \in Approver
    BY <1>1 DEF GateIInv, ClicksAuthorized
  <1>4. Cardinality(votes \cup {Sub[k]}) \in 0..Cardinality(Approver)
    BY <1>2, <1>3, VoteCount
  <1>5. GateTypeOK'
    BY <1>1, <1>2, <1>4 DEF GateTypeOK, ClickPoint, InTx
  <1>6. ClicksAuthorized' /\ AbsentUntouched' /\ TxInPostgres'
    BY <1>1, <1>2 DEF GateIInv, ClicksAuthorized, AbsentUntouched, TxInPostgres, InTx
  <1>7. TallyBacked'
    BY <1>1, <1>2, <1>4 DEF GateIInv, TallyBacked
  <1>8. LastVoterSettles'
    BY <1>1, <1>2 DEF GateIInv, LastVoterSettles
  <1>9. QED
    BY <1>1, <1>5, <1>6, <1>7, <1>8 DEF GateIInv

\* A vote is committed, by either store.
LEMMA GateVote ==
  ASSUME GateIInv, NEW k \in Click, AddVoteLocked(k) \/ AddVoteCommit(k)
  PROVE  GateIInv'
  <1>1. /\ click[k] \in {"vote", "counted"} /\ click' = [click EXCEPT ![k] = "reload"]
        /\ votes' = votes \cup {Sub[k]}
        /\ UNCHANGED <<gateStore, gate, gateFaults>>
    BY DEF AddVoteLocked, AddVoteCommit, ClickTo
  <1>2. /\ click \in [Click -> ClickPoint] /\ tally \in [Click -> 0..Cardinality(Approver)]
        /\ GateTypeOK
    BY DEF GateIInv, GateTypeOK
  <1>3. Sub[k] \in Approver
    BY <1>1 DEF GateIInv, ClicksAuthorized
  <1>4. /\ votes' \subseteq Approver
        /\ Cardinality(votes) \in Nat /\ Cardinality(Approver) \in Nat
        /\ Cardinality(votes') \in 0..Cardinality(Approver)
        /\ Cardinality(votes) <= Cardinality(votes')
    BY <1>1, <1>2, <1>3, VoteCount
  <1>5. /\ \A j \in Click \ {k} : tally'[j] = tally[j] /\ click'[j] = click[j]
        /\ click'[k] = "reload"
        /\ tally'[k] \in 0..Cardinality(Approver) /\ tally'[k] <= Cardinality(votes')
    <2>1. CASE AddVoteLocked(k)
      BY <1>1, <1>2, <1>4, <2>1 DEF AddVoteLocked
    <2>2. CASE AddVoteCommit(k)
      <3>1. tally' = tally /\ click[k] = "counted"
        BY <2>2 DEF AddVoteCommit, ClickTo
      <3>2. tally[k] <= Cardinality(votes \cup {Sub[k]})
        BY <3>1 DEF GateIInv, TallyBacked
      <3>3. QED
        BY <1>1, <1>2, <3>1, <3>2
    <2>3. QED
      BY <2>1, <2>2
  <1>6. tally' \in [Click -> 0..Cardinality(Approver)]
    <2>1. tally' = [tally EXCEPT ![k] = tally'[k]]
      BY <1>2, <1>5 DEF AddVoteLocked, AddVoteCommit
    <2>2. QED
      BY <1>2, <1>5, <2>1
  <1>7. GateTypeOK'
    BY <1>1, <1>2, <1>4, <1>6 DEF GateTypeOK, ClickPoint
  <1>8. gate # "absent" /\ ClicksAuthorized' /\ AbsentUntouched' /\ TxInPostgres'
    BY <1>1, <1>2, <1>3 DEF GateIInv, ClicksAuthorized, AbsentUntouched, TxInPostgres, InTx
  <1>9. TallyBacked'
    <2>1. ASSUME NEW j \in Click \ {k}
          PROVE  /\ click[j] \in {"reload", "advance"} => tally[j] <= Cardinality(votes')
                 /\ click[j] = "counted" => tally[j] <= Cardinality(votes' \cup {Sub[j]})
                 /\ click[j] = "advance" => Quorum <= tally[j]
      <3>1. tally[j] \in Nat
        BY <1>2
      <3>2. ASSUME click[j] = "counted"
            PROVE  tally[j] <= Cardinality(votes' \cup {Sub[j]})
        <4>1. Sub[j] \in Approver /\ tally[j] <= Cardinality(votes \cup {Sub[j]})
          BY <3>2 DEF GateIInv, ClicksAuthorized, TallyBacked
        <4>2. votes \cup {Sub[j]} \subseteq votes' \cup {Sub[j]} /\ votes' \cup {Sub[j]} \subseteq Approver
          BY <1>1, <1>4, <4>1
        <4>3. IsFiniteSet(votes' \cup {Sub[j]}) /\ IsFiniteSet(votes \cup {Sub[j]})
          BY <4>2, GateAssumption, FS_Subset
        <4>4. /\ Cardinality(votes \cup {Sub[j]}) \in Nat /\ Cardinality(votes' \cup {Sub[j]}) \in Nat
              /\ Cardinality(votes \cup {Sub[j]}) <= Cardinality(votes' \cup {Sub[j]})
          BY <4>2, <4>3, FS_Subset, FS_CardinalityType
        <4>5. QED
          BY <3>1, <4>1, <4>4
      <3>3. ASSUME click[j] \in {"reload", "advance"}
            PROVE  tally[j] <= Cardinality(votes')
        <4>1. tally[j] <= Cardinality(votes)
          BY <3>3 DEF GateIInv, TallyBacked
        <4>2. QED
          BY <1>4, <3>1, <4>1
      <3>4. click[j] = "advance" => Quorum <= tally[j]
        BY DEF GateIInv, TallyBacked
      <3>5. QED
        BY <3>2, <3>3, <3>4
    <2>2. QED
      BY <1>5, <2>1 DEF TallyBacked
  <1>10. LastVoterSettles'
    <2>1. SUFFICES ASSUME gateStore = "memory", Quorum <= Cardinality(votes')
                   PROVE  click'[k] = "reload" /\ Quorum <= tally'[k]
      BY <1>1 DEF LastVoterSettles, Quorum
    <2>2. CASE AddVoteLocked(k)
      BY <1>1, <1>2, <2>1, <2>2 DEF AddVoteLocked
    <2>3. CASE AddVoteCommit(k)
      <3>1. click[k] = "counted"
        BY <2>3 DEF AddVoteCommit, ClickTo
      <3>2. QED
        BY <2>1, <3>1 DEF GateIInv, TxInPostgres, InTx
    <2>4. QED
      BY <2>2, <2>3
  <1>11. QED
    BY <1>1, <1>4, <1>7, <1>8, <1>9, <1>10, QuorumPositive DEF GateIInv, Quorum

\* The gate is read again, or a request ends in an error.
LEMMA GateReload ==
  ASSUME GateIInv, NEW k \in Click, Reload(k) \/ ClickFails(k)
  PROVE  GateIInv'
  <1>1. /\ click[k] \notin {"idle", "done"}
        /\ UNCHANGED <<gateStore, gate, votes, tally>>
    BY DEF Reload, ClickFails
  <1>2. PICK to \in {"advance", "done"} : click' = [click EXCEPT ![k] = to]
    BY DEF Reload, ClickFails
  <1>3. /\ click \in [Click -> ClickPoint] /\ tally \in [Click -> 0..Cardinality(Approver)]
        /\ GateTypeOK
    BY DEF GateIInv, GateTypeOK
  <1>4. gateFaults' \in 0..MaxGateFaults
    BY <1>3, GateAssumption DEF Reload, ClickFails, GateTypeOK
  <1>5. GateTypeOK'
    BY <1>1, <1>2, <1>3, <1>4 DEF GateTypeOK, ClickPoint
  <1>6. ClicksAuthorized' /\ AbsentUntouched' /\ TxInPostgres'
    BY <1>1, <1>2, <1>3 DEF GateIInv, ClicksAuthorized, AbsentUntouched, TxInPostgres, InTx
  <1>7. to = "advance" => click[k] = "reload" /\ Quorum <= tally[k]
    <2>1. click'[k] = to
      BY <1>2, <1>3
    <2>2. tally[k] \in Nat
      BY <1>3
    <2>3. QED
      BY <1>3, <2>1, <2>2, QuorumPositive DEF Reload, ClickFails, Quorum
  <1>8. TallyBacked'
    BY <1>1, <1>2, <1>3, <1>7 DEF GateIInv, TallyBacked
  <1>9. LastVoterSettles'
    <2>1. SUFFICES ASSUME gateStore = "memory", Quorum <= Cardinality(votes), gate = "awaiting"
                   PROVE  \E j \in Click : click'[j] = "advance" \/ (click'[j] = "reload" /\ Quorum <= tally[j])
      BY <1>1 DEF LastVoterSettles, Quorum
    <2>2. PICK j \in Click : click[j] = "advance" \/ (click[j] = "reload" /\ Quorum <= tally[j])
      BY <2>1 DEF GateIInv, LastVoterSettles
    <2>3. Reload(k)
      BY <2>1 DEF ClickFails
    <2>4. CASE j # k
      BY <1>2, <1>3, <2>2, <2>4
    <2>5. CASE j = k
      <3>1. click[k] = "reload" /\ Quorum <= tally[k]
        BY <2>2, <2>3, <2>5 DEF Reload
      <3>2. tally[k] >= normalizeApprovers(Required)
        BY <1>3, <3>1, QuorumPositive DEF Quorum
      <3>3. click'[k] = "advance"
        BY <1>3, <2>1, <2>3, <3>2 DEF Reload
      <3>4. QED
        BY <3>3
    <2>6. QED
      BY <2>4, <2>5
  <1>10. QED
    BY <1>1, <1>5, <1>6, <1>8, <1>9 DEF GateIInv

\* The gate is approved or rejected, whatever it was.
LEMMA GateUpdate ==
  ASSUME GateIInv, NEW k \in Click,
         UpdateGateStatus(k, "advance", "approved") \/ UpdateGateStatus(k, "reject", "rejected")
  PROVE  GateIInv'
  <1>1. /\ click' = [click EXCEPT ![k] = "done"] /\ gate' \in {"approved", "rejected"}
        /\ click[k] \in {"advance", "reject"}
        /\ gate' = "approved" => click[k] = "advance"
        /\ UNCHANGED <<gateStore, votes, tally, gateFaults>>
    BY DEF UpdateGateStatus, ClickTo
  <1>2. /\ click \in [Click -> ClickPoint] /\ tally \in [Click -> 0..Cardinality(Approver)]
        /\ GateTypeOK
    BY DEF GateIInv, GateTypeOK
  <1>3. GateTypeOK'
    BY <1>1, <1>2 DEF GateTypeOK, ClickPoint, GateStatus
  <1>4. ClicksAuthorized' /\ AbsentUntouched' /\ TxInPostgres' /\ LastVoterSettles'
    BY <1>1, <1>2
       DEF GateIInv, ClicksAuthorized, AbsentUntouched, TxInPostgres, InTx, LastVoterSettles
  <1>5. TallyBacked'
    BY <1>1, <1>2 DEF GateIInv, TallyBacked
  <1>6. gate' = "approved" => Quorum <= Cardinality(votes)
    <2>1. SUFFICES ASSUME click[k] = "advance"
                   PROVE  Quorum <= Cardinality(votes)
      BY <1>1
    <2>2. tally[k] <= Cardinality(votes) /\ Quorum <= tally[k] /\ Sub[k] \in Approver
      BY <2>1 DEF GateIInv, TallyBacked, ClicksAuthorized
    <2>3. Cardinality(votes) \in Nat /\ tally[k] \in Nat
      <3>1. Cardinality(votes) \in 0..Cardinality(Approver) /\ Cardinality(Approver) \in Nat
        BY <1>2, <2>2, VoteCount
      <3>2. QED
        BY <1>2, <3>1
    <2>4. QED
      BY <2>2, <2>3, QuorumPositive
  <1>7. QED
    BY <1>1, <1>3, <1>4, <1>5, <1>6 DEF GateIInv, Quorum

\* The executor opens the gate.
LEMMA GateOpens ==
  ASSUME GateIInv, Await, UNCHANGED <<gateStore, votes, click, tally, gateFaults>>
  PROVE  GateIInv'
  <1>1. gate' = IF gate = "absent" THEN "awaiting" ELSE gate
    BY DEF Await
  <1>2. GateTypeOK'
    BY <1>1 DEF GateIInv, GateTypeOK, GateStatus
  <1>3. ClicksAuthorized' /\ AbsentUntouched' /\ TxInPostgres' /\ TallyBacked'
    BY <1>1 DEF GateIInv, ClicksAuthorized, AbsentUntouched, TxInPostgres, TallyBacked
  <1>4. LastVoterSettles'
    <2>1. CASE gate = "absent"
      <3>1. Cardinality(votes) = 0
        BY <2>1, FS_EmptySet DEF GateIInv, AbsentUntouched
      <3>2. QED
        BY <3>1, QuorumPositive DEF LastVoterSettles, Quorum
    <2>2. CASE gate # "absent"
      BY <1>1, <2>2 DEF GateIInv, LastVoterSettles, Quorum
    <2>3. QED
      BY <2>1, <2>2
  <1>5. QED
    BY <1>1, <1>2, <1>3, <1>4 DEF GateIInv, Quorum

LEMMA GateUnchanged ==
  ASSUME GateIInv, UNCHANGED gateVars
  PROVE  GateIInv'
  BY DEF gateVars, GateIInv, GateTypeOK, ClicksAuthorized, AbsentUntouched, TxInPostgres, TallyBacked,
         LastVoterSettles, Quorum

LEMMA GateStep ==
  ASSUME GateIInv, GateNext
  PROVE  GateIInv'
  <1>1. PICK k \in Click : ApproveStage(k) \/ RejectStage(k) \/ ClickStep(k) \/ ClickFails(k)
    BY DEF GateNext
  <1>2. QED
    BY <1>1, GateEnter, GateCount, GateVote, GateReload, GateUpdate DEF ClickStep

LEMMA GateFollows == GateIInv => GateInv
  <1>1. SUFFICES ASSUME GateIInv
                 PROVE  GateInv
    OBVIOUS
  <1>2. QuorumBehindApproval
    <2>1. ASSUME NEW k \in Click, click[k] = "advance"
          PROVE  Quorum <= Cardinality(votes)
      <3>1. tally[k] <= Cardinality(votes) /\ Quorum <= tally[k] /\ Sub[k] \in Approver
        BY <1>1, <2>1 DEF GateIInv, TallyBacked, ClicksAuthorized
      <3>2. Cardinality(votes) \in Nat /\ tally[k] \in Nat
        <4>1. GateTypeOK /\ tally \in [Click -> 0..Cardinality(Approver)]
          BY <1>1 DEF GateIInv, GateTypeOK
        <4>2. Cardinality(votes) \in 0..Cardinality(Approver) /\ Cardinality(Approver) \in Nat
          BY <3>1, <4>1, VoteCount
        <4>3. QED
          BY <4>1, <4>2
      <3>3. QED
        BY <3>1, <3>2, QuorumPositive
    <2>2. Cardinality(votes) \in Nat
      BY <1>1, GateAssumption, FS_Subset, FS_CardinalityType DEF GateIInv, GateTypeOK
    <2>3. QED
      BY <1>1, <2>1, <2>2, QuorumPositive DEF GateIInv, QuorumBehindApproval, Quorum
  <1>3. QuorumSettles
    <2>1. Cardinality(votes) \in Nat
      BY <1>1, GateAssumption, FS_Subset, FS_CardinalityType DEF GateIInv, GateTypeOK
    <2>2. QED
      BY <1>1, <2>1, QuorumPositive DEF GateIInv, LastVoterSettles, QuorumSettles, Quorum
  <1>4. QED
    BY <1>1, <1>2, <1>3 DEF GateIInv, GateInv

-----------------------------------------------------------------------------
(* The executor *)

\* Whatever the executor does, it leaves the gate alone or opens it.
LEMMA ExecutorAtGate ==
  ASSUME [ExecNext]_<<execVars, gateVars>>
  PROVE  \/ UNCHANGED gateVars
         \/ GateNext
         \/ Await /\ UNCHANGED <<gateStore, votes, click, tally, gateFaults>>
  <1>1. CASE UNCHANGED <<execVars, gateVars>>
    BY <1>1
  <1>2. CASE GateNext
    BY <1>2
  <1>3. CASE Execute \/ NextLevel \/ DrainStep \/ Finalize
    BY <1>3 DEF Execute, NextLevel, DrainStep, DrainUpdate, DrainTick, DrainClose, Finalize, gateVars
  <1>4. CASE \E how \in {"cancelled", "deadline"} : EndContext(how)
    BY <1>4 DEF EndContext, gateVars
  <1>5. ASSUME NEW s \in Stage, NodeStep(s) \/ Panic(s)
        PROVE  UNCHANGED gateVars \/ (Await /\ UNCHANGED <<gateStore, votes, click, tally, gateFaults>>)
    <2>1. CASE AwaitApproval(s)
      BY <2>1 DEF AwaitApproval
    <2>2. CASE AttemptSucceeds(s)
      BY <2>2 DEF AttemptSucceeds, executeBuild, executePush, executeDeploy, executeCloudDeploy,
                  executeGitOpsCommit, executeTest, executeCustom, Returns
    <2>3. CASE Enter(s) \/ GiveUp(s) \/ Skip(s) \/ StartStage(s)
      BY <2>3 DEF Enter, GiveUp, Skip, StartStage
    <2>4. CASE AttemptFails(s) \/ BackoffEnds(s) \/ PollGate(s) \/ StageTimeout(s)
      BY <2>4 DEF AttemptFails, BackoffEnds, PollGate, StageTimeout
    <2>5. CASE Leave(s) \/ Panic(s)
      BY <2>5 DEF Leave, Panic
    <2>6. QED
      BY <1>5, <2>1, <2>2, <2>3, <2>4, <2>5 DEF NodeStep
  <1>6. QED
    BY <1>1, <1>2, <1>3, <1>4, <1>5 DEF ExecNext

\* A stage's gate opens only with a quorum of different approvers, and with the
\* memory store it never stays open once the quorum has voted, while the
\* executor runs beside the handlers (AddVote, Approve, executeApproval).
THEOREM GateInvariant == ExecSpec => []GateInv
  <1>1. ASSUME GateIInv, [ExecNext]_<<execVars, gateVars>>
        PROVE  GateIInv'
    BY <1>1, ExecutorAtGate, GateStep, GateOpens, GateUnchanged
  <1>2. QED
    BY <1>1, GateInitially, GateFollows, PTL DEF ExecSpec

\* What ancestorsOf reaches in i rounds, as a function of its own.
Grow(X) == X \cup UNION {Sources(x) : x \in X}
Reach(s) == CHOOSE f : f = [i \in Nat |-> IF i = 0 THEN Sources(s) ELSE Grow(f[i - 1])]

\* The stages of the first i levels, as a function of its own.
NextUp(X) == X \cup Ready(X)
UpTo == CHOOSE f : f = [i \in Nat |-> IF i = 0 THEN {} ELSE NextUp(f[i - 1])]

\* The sources of a stage are stages.
LEMMA SourcesTyped ==
  ASSUME pipe \in Pipelines, NEW s \in Stage
  PROVE  Sources(s) \subseteq Stage
  BY GraphAssumption DEF Sources, Edge

LEMMA ReachUnrolls ==
  ASSUME pipe \in Pipelines, NEW s \in Stage
  PROVE  /\ Reach(s)[0] = Sources(s)
         /\ \A n \in Nat : Reach(s)[n + 1] = Grow(Reach(s)[n])
  <1> DEFINE S == SUBSET Stage
             F == [X \in S |-> Grow(X)]
  <1>1. Sources(s) \in S /\ F \in [S -> S] /\ \A X \in S : F[X] = Grow(X)
    BY SourcesTyped DEF Grow
  <1> HIDE DEF S, F
  <1>2. PICK f : f \in [Nat -> S] /\ f[0] = Sources(s) /\ \A n \in Nat : f[n + 1] = F[f[n]]
    <2>1. \E f : Iterates(f, S, Sources(s), F)
      BY <1>1, RecursionExists
    <2>2. QED
      BY <2>1 DEF Iterates
  <1>3. f = [i \in Nat |-> IF i = 0 THEN Sources(s) ELSE Grow(f[i - 1])]
    <2>1. ASSUME NEW i \in Nat
          PROVE  f[i] = IF i = 0 THEN Sources(s) ELSE Grow(f[i - 1])
      <3>1. CASE i = 0
        BY <1>2, <3>1
      <3>2. CASE i # 0
        <4>1. i - 1 \in Nat /\ (i - 1) + 1 = i
          BY <3>2
        <4>2. QED
          BY <1>1, <1>2, <3>2, <4>1
      <3>3. QED
        BY <3>1, <3>2
    <2>2. QED
      BY <1>2, <2>1
  <1>4. Reach(s) = [i \in Nat |-> IF i = 0 THEN Sources(s) ELSE Grow(Reach(s)[i - 1])]
    BY <1>3 DEF Reach
  <1>5. ASSUME NEW n \in Nat
        PROVE  Reach(s)[n + 1] = Grow(Reach(s)[n])
    <2>1. n + 1 \in Nat /\ n + 1 # 0 /\ (n + 1) - 1 = n
      OBVIOUS
    <2>2. QED
      BY <1>4, <2>1
  <1>6. Reach(s)[0] = Sources(s)
    BY <1>4
  <1>7. QED
    BY <1>5, <1>6

LEMMA UpToUnrolls ==
  ASSUME pipe \in Pipelines
  PROVE  /\ UpTo[0] = {}
         /\ \A n \in Nat : UpTo[n + 1] = NextUp(UpTo[n])
  <1> DEFINE S == SUBSET Stage
             F == [X \in S |-> NextUp(X)]
  <1>1. {} \in S /\ F \in [S -> S] /\ \A X \in S : F[X] = NextUp(X)
    BY DEF NextUp, Ready
  <1> HIDE DEF S, F
  <1>2. PICK f : f \in [Nat -> S] /\ f[0] = {} /\ \A n \in Nat : f[n + 1] = F[f[n]]
    <2>1. \E f : Iterates(f, S, {}, F)
      BY <1>1, RecursionExists
    <2>2. QED
      BY <2>1 DEF Iterates
  <1>3. f = [i \in Nat |-> IF i = 0 THEN {} ELSE NextUp(f[i - 1])]
    <2>1. ASSUME NEW i \in Nat
          PROVE  f[i] = IF i = 0 THEN {} ELSE NextUp(f[i - 1])
      <3>1. CASE i = 0
        BY <1>2, <3>1
      <3>2. CASE i # 0
        <4>1. i - 1 \in Nat /\ (i - 1) + 1 = i
          BY <3>2
        <4>2. QED
          BY <1>1, <1>2, <3>2, <4>1
      <3>3. QED
        BY <3>1, <3>2
    <2>2. QED
      BY <1>2, <2>1
  <1>4. UpTo = [i \in Nat |-> IF i = 0 THEN {} ELSE NextUp(UpTo[i - 1])]
    BY <1>3 DEF UpTo
  <1>5. ASSUME NEW n \in Nat
        PROVE  UpTo[n + 1] = NextUp(UpTo[n])
    <2>1. n + 1 \in Nat /\ n + 1 # 0 /\ (n + 1) - 1 = n
      OBVIOUS
    <2>2. QED
      BY <1>4, <2>1
  <1>6. UpTo[0] = {}
    BY <1>4
  <1>7. QED
    BY <1>5, <1>6

\* A set of stages that has every source of its members, and those of s, has
\* all that s depends on.
LEMMA AncestorsWithin ==
  ASSUME pipe \in Pipelines, NEW s \in Stage, NEW X,
         Sources(s) \subseteq X, \A x \in X : Sources(x) \subseteq X
  PROVE  ancestorsOf(s) \subseteq X
  <1> DEFINE P == {n \in Nat : Reach(s)[n] \subseteq X}
  <1>1. 0 \in P
    BY ReachUnrolls
  <1>2. ASSUME NEW n \in Nat, n \in P
        PROVE  n + 1 \in P
    <2>1. Reach(s)[n + 1] = Grow(Reach(s)[n]) /\ Reach(s)[n] \subseteq X
      BY <1>2, ReachUnrolls
    <2>2. Grow(Reach(s)[n]) \subseteq X
      BY <2>1 DEF Grow
    <2>3. QED
      BY <2>1, <2>2
  <1> HIDE DEF P
  <1>3. Nat \subseteq P
    BY <1>1, <1>2, NatSetInduction
  <1>4. Cardinality(Stage) \in P
    BY <1>3, GraphAssumption, FS_CardinalityType
  <1>5. ancestorsOf(s) = Reach(s)[Cardinality(Stage)]
    BY DEF ancestorsOf, Reach, Grow
  <1>6. QED
    BY <1>4, <1>5 DEF P

\* Kahn's levels hold, with a stage, all it depends on, and no stage that
\* depends on itself (TopologicalSort beside ancestorsOf).
LEMMA LevelsAcyclic ==
  ASSUME pipe \in Pipelines, NEW n \in Nat
  PROVE  \A s \in Levels(n) : s \in Stage /\ Sources(s) \subseteq Levels(n) /\ s \notin ancestorsOf(s)
  <1> DEFINE Good(X) == \A s \in X : s \in Stage /\ Sources(s) \subseteq X /\ s \notin ancestorsOf(s)
             P == {m \in Nat : Good(UpTo[m])}
  <1>1. 0 \in P
    BY UpToUnrolls
  <1>2. ASSUME NEW m \in Nat, m \in P
        PROVE  m + 1 \in P
    <2>1. UpTo[m + 1] = UpTo[m] \cup Ready(UpTo[m]) /\ Good(UpTo[m])
      BY <1>2, UpToUnrolls DEF NextUp
    <2>2. ASSUME NEW s \in Ready(UpTo[m])
          PROVE  s \in Stage /\ Sources(s) \subseteq UpTo[m] /\ s \notin ancestorsOf(s)
      <3>1. s \in Stage /\ s \notin UpTo[m] /\ Sources(s) \subseteq UpTo[m]
        BY DEF Ready
      <3>2. ancestorsOf(s) \subseteq UpTo[m]
        BY <2>1, <3>1, AncestorsWithin
      <3>3. QED
        BY <3>1, <3>2
    <2>3. Good(UpTo[m + 1])
      BY <2>1, <2>2
    <2>4. QED
      BY <2>3
  <1> HIDE DEF P
  <1>3. Nat \subseteq P
    BY <1>1, <1>2, NatSetInduction
  <1>4. Levels(n) = UpTo[n]
    BY DEF Levels, UpTo, NextUp
  <1>5. QED
    BY <1>3, <1>4 DEF P

\* A pipeline that ValidatePipelineDAG accepts has no stage that depends on
\* itself, directly or not.
THEOREM ValidIsAcyclic ==
  ASSUME pipe \in Pipelines, ValidPipeline
  PROVE  \A s \in Stage : s \notin ancestorsOf(s)
  <1>1. Cardinality(Stage) \in Nat
    BY GraphAssumption, FS_CardinalityType
  <1>2. Levels(Cardinality(Stage)) = Stage
    BY DEF ValidPipeline
  <1>3. QED
    BY <1>1, <1>2, LevelsAcyclic

LEMMA ProperSubset ==
  ASSUME NEW S, IsFiniteSet(S), NEW T, T \subseteq S, T # S
  PROVE  Cardinality(T) < Cardinality(S)
  <1>1. IsFiniteSet(T) /\ Cardinality(T) <= Cardinality(S) /\ Cardinality(S) # Cardinality(T)
    BY FS_Subset
  <1>2. Cardinality(T) \in Nat /\ Cardinality(S) \in Nat
    BY <1>1, FS_CardinalityType
  <1>3. QED
    BY <1>1, <1>2

\* A growing sequence of sets of stages, each made from the one before, has
\* stopped growing after as many steps as there are stages.
LEMMA GrowthStops ==
  ASSUME NEW f, NEW F \in [SUBSET Stage -> SUBSET Stage],
         \A n \in Nat : /\ f[n] \in SUBSET Stage
                        /\ f[n] \subseteq f[n + 1]
                        /\ f[n + 1] = F[f[n]]
  PROVE  f[Cardinality(Stage) + 1] = f[Cardinality(Stage)]
  <1> DEFINE N == Cardinality(Stage)
             P == {n \in Nat : f[n + 1] = f[n] \/ Cardinality(f[n]) >= n}
  <1>1. IsFiniteSet(Stage) /\ N \in Nat
    BY GraphAssumption, FS_CardinalityType
  <1>2. \A n \in Nat : IsFiniteSet(f[n]) /\ Cardinality(f[n]) \in Nat /\ Cardinality(f[n]) <= N
    BY <1>1, FS_Subset, FS_CardinalityType
  <1>3. 0 \in P
    BY <1>2
  <1>4. ASSUME NEW n \in Nat, n \in P
        PROVE  n + 1 \in P
    <2>1. n + 1 \in Nat
      OBVIOUS
    <2>2. CASE f[n + 1] = f[n]
      <3>1. f[(n + 1) + 1] = F[f[n + 1]] /\ f[n + 1] = F[f[n]]
        BY <2>1
      <3>2. f[(n + 1) + 1] = f[n + 1]
        BY <2>2, <3>1
      <3>3. QED
        BY <2>1, <3>2
    <2>3. CASE f[n + 1] # f[n]
      <3>1. Cardinality(f[n]) >= n
        BY <1>4, <2>3
      <3>2. f[n] \subseteq f[n + 1] /\ f[n] # f[n + 1] /\ IsFiniteSet(f[n + 1])
        BY <1>2, <2>1, <2>3
      <3>3. Cardinality(f[n]) < Cardinality(f[n + 1])
        BY <3>2, ProperSubset
      <3>4. Cardinality(f[n]) \in Nat /\ Cardinality(f[n + 1]) \in Nat
        BY <1>2, <2>1
      <3>5. Cardinality(f[n + 1]) >= n + 1
        BY <3>1, <3>3, <3>4
      <3>6. QED
        BY <2>1, <3>5
    <2>4. QED
      BY <2>2, <2>3
  <1> HIDE DEF P
  <1>5. Nat \subseteq P
    BY <1>3, <1>4, NatSetInduction
  <1>6. CASE Cardinality(f[N]) >= N
    <2>1. f[N] \subseteq Stage /\ Cardinality(f[N]) = N
      BY <1>1, <1>2, <1>6
    <2>2. f[N] = Stage
      <3>1. f[N] # Stage => Cardinality(f[N]) < Cardinality(Stage)
        BY <1>1, <2>1, FS_Subset
      <3>2. QED
        BY <1>1, <2>1, <3>1
    <2>3. f[N + 1] \subseteq Stage /\ f[N] \subseteq f[N + 1]
      BY <1>1
    <2>4. QED
      BY <2>2, <2>3
  <1>7. QED
    BY <1>1, <1>5, <1>6 DEF P

\* The values of the two recursions are sets of stages that grow.
LEMMA ReachGrows ==
  ASSUME pipe \in Pipelines, NEW s \in Stage, NEW n \in Nat
  PROVE  /\ Reach(s)[n] \in SUBSET Stage
         /\ Reach(s)[n] \subseteq Reach(s)[n + 1]
         /\ Reach(s)[n + 1] = Grow(Reach(s)[n])
  <1> DEFINE P == {m \in Nat : Reach(s)[m] \subseteq Stage}
  <1>1. 0 \in P
    BY ReachUnrolls, SourcesTyped
  <1>2. ASSUME NEW m \in Nat, m \in P
        PROVE  m + 1 \in P
    <2>1. Reach(s)[m + 1] = Grow(Reach(s)[m]) /\ Reach(s)[m] \subseteq Stage
      BY <1>2, ReachUnrolls
    <2>2. Grow(Reach(s)[m]) \subseteq Stage
      BY <2>1, SourcesTyped DEF Grow
    <2>3. QED
      BY <2>1, <2>2
  <1> HIDE DEF P
  <1>3. Nat \subseteq P
    BY <1>1, <1>2, NatSetInduction
  <1>4. Reach(s)[n + 1] = Grow(Reach(s)[n])
    BY ReachUnrolls
  <1>5. QED
    BY <1>3, <1>4 DEF P, Grow

LEMMA UpToGrows ==
  ASSUME pipe \in Pipelines, NEW n \in Nat
  PROVE  /\ UpTo[n] \in SUBSET Stage
         /\ UpTo[n] \subseteq UpTo[n + 1]
         /\ UpTo[n + 1] = NextUp(UpTo[n])
  <1> DEFINE P == {m \in Nat : UpTo[m] \subseteq Stage}
  <1>1. 0 \in P
    BY UpToUnrolls
  <1>2. ASSUME NEW m \in Nat, m \in P
        PROVE  m + 1 \in P
    <2>1. UpTo[m + 1] = NextUp(UpTo[m]) /\ UpTo[m] \subseteq Stage
      BY <1>2, UpToUnrolls
    <2>2. NextUp(UpTo[m]) \subseteq Stage
      BY <2>1 DEF NextUp, Ready
    <2>3. QED
      BY <2>1, <2>2
  <1> HIDE DEF P
  <1>3. Nat \subseteq P
    BY <1>1, <1>2, NatSetInduction
  <1>4. UpTo[n + 1] = NextUp(UpTo[n])
    BY UpToUnrolls
  <1>5. QED
    BY <1>3, <1>4 DEF P, NextUp

\* What a stage depends on is closed: it holds its sources and all that they
\* depend on.
LEMMA AncestorsClosed ==
  ASSUME pipe \in Pipelines, NEW s \in Stage
  PROVE  /\ ancestorsOf(s) \subseteq Stage /\ Sources(s) \subseteq ancestorsOf(s)
         /\ \A x \in ancestorsOf(s) : Sources(x) \subseteq ancestorsOf(s)
  <1> DEFINE N == Cardinality(Stage)
             F == [X \in SUBSET Stage |-> Grow(X)]
             f == Reach(s)
  <1>1. N \in Nat
    BY GraphAssumption, FS_CardinalityType
  <1>2. F \in [SUBSET Stage -> SUBSET Stage] /\ \A X \in SUBSET Stage : F[X] = Grow(X)
    BY SourcesTyped DEF Grow
  <1> HIDE DEF F
  <1>3. \A n \in Nat : f[n] \in SUBSET Stage /\ f[n] \subseteq f[n + 1] /\ f[n + 1] = F[f[n]]
    BY <1>2, ReachGrows
  <1> HIDE DEF f
  <1>4. f[N + 1] = f[N]
    BY <1>2, <1>3, GrowthStops
  <1>5. F[f[N]] = f[N] /\ f[N] \in SUBSET Stage
    BY <1>1, <1>3, <1>4
  <1>6. Grow(f[N]) = f[N]
    BY <1>2, <1>5
  <1>7. ancestorsOf(s) = f[N]
    BY DEF ancestorsOf, Reach, Grow, f
  <1>8. Sources(s) \subseteq f[N]
    <2> DEFINE P == {n \in Nat : Sources(s) \subseteq f[n]}
    <2>1. 0 \in P
      BY ReachUnrolls DEF f
    <2>2. \A n \in Nat : n \in P => n + 1 \in P
      BY <1>3
    <2> HIDE DEF P
    <2>3. Nat \subseteq P
      BY <2>1, <2>2, NatSetInduction
    <2>4. QED
      BY <1>1, <2>3 DEF P
  <1>9. QED
    BY <1>5, <1>6, <1>7, <1>8 DEF Grow

\* The other half of Kahn's algorithm: when no stage depends on itself, the levels
\* take in every stage (TopologicalSort finds no cycle where there is none).
THEOREM AcyclicIsLevelled ==
  ASSUME pipe \in Pipelines, \A s \in Stage : s \notin ancestorsOf(s)
  PROVE  Levels(Cardinality(Stage)) = Stage
  <1> DEFINE N == Cardinality(Stage)
             F == [X \in SUBSET Stage |-> NextUp(X)]
             L == UpTo[N]
  <1>1. N \in Nat /\ IsFiniteSet(Stage)
    BY GraphAssumption, FS_CardinalityType
  <1>2. F \in [SUBSET Stage -> SUBSET Stage] /\ \A X \in SUBSET Stage : F[X] = NextUp(X)
    BY DEF NextUp, Ready
  <1> HIDE DEF F
  <1>3. \A n \in Nat : UpTo[n] \in SUBSET Stage /\ UpTo[n] \subseteq UpTo[n + 1] /\ UpTo[n + 1] = F[UpTo[n]]
    BY <1>2, UpToGrows
  <1>4. UpTo[N + 1] = UpTo[N]
    BY <1>2, <1>3, GrowthStops
  <1>5. NextUp(L) = L /\ L \subseteq Stage
    BY <1>1, <1>2, <1>3, <1>4
  <1>6. Levels(N) = L
    BY DEF Levels, UpTo, NextUp
  <1> HIDE DEF L
  <1>7. \A s \in Stage \ L : \E t \in Sources(s) : t \in Stage \ L
    BY <1>5, SourcesTyped DEF NextUp, Ready
  <1>8. ASSUME NEW s \in Stage, NEW t \in Sources(s)
        PROVE  Cardinality(ancestorsOf(t)) < Cardinality(ancestorsOf(s))
    <2>1. /\ t \in Stage /\ t \in ancestorsOf(s) /\ t \notin ancestorsOf(t)
          /\ ancestorsOf(s) \subseteq Stage
      BY <1>8, AncestorsClosed, SourcesTyped
    <2>2. ancestorsOf(t) \subseteq ancestorsOf(s)
      BY <2>1, AncestorsClosed, AncestorsWithin
    <2>3. IsFiniteSet(ancestorsOf(s))
      BY <1>1, <2>1, FS_Subset
    <2>4. QED
      BY <2>1, <2>2, <2>3, ProperSubset
  <1>9. SUFFICES ASSUME Stage \ L # {} PROVE FALSE
    BY <1>5, <1>6
  <1> DEFINE T == {Cardinality(ancestorsOf(s)) : s \in Stage \ L}
  <1>10. \A s \in Stage : Cardinality(ancestorsOf(s)) \in Nat
    BY <1>1, AncestorsClosed, FS_Subset, FS_CardinalityType
  <1>11. T \subseteq Nat /\ T # {}
    BY <1>9, <1>10
  <1>12. PICK x \in T : \A y \in T : x <= y
    BY <1>11, NatLeast
  <1>13. PICK s \in Stage \ L : x = Cardinality(ancestorsOf(s))
    BY <1>12
  <1>14. PICK t \in Sources(s) : t \in Stage \ L
    BY <1>7
  <1>15. Cardinality(ancestorsOf(t)) < x /\ Cardinality(ancestorsOf(t)) \in T
    BY <1>8, <1>13, <1>14
  <1>16. x <= Cardinality(ancestorsOf(t)) /\ x \in Nat /\ Cardinality(ancestorsOf(t)) \in Nat
    BY <1>10, <1>11, <1>12, <1>14, <1>15
  <1>17. QED
    BY <1>15, <1>16

\* ValidatePipelineDAG and the review check let exactly the executable pipelines
\* through.
LEMMA ValidIsExecutable ==
  ASSUME pipe \in Pipelines
  PROVE  Executable <=> ValidPipeline /\ \A s \in Stage : pipe.kind[s] # "review"
  BY ValidIsAcyclic, AcyclicIsLevelled DEF Executable, ValidPipeline

-----------------------------------------------------------------------------
(* The level barrier *)

\* What has been started belongs to the finished levels or the current one, and
\* all its sources are finished.
Placed ==
  \A s \in Stage : node[s] # "idle" => s \in done \cup Ready(done) /\ Sources(s) \subseteq done

Settled == \A s \in done : node[s] = "ended"

\* Goroutines run during a level only.
Quiet ==
  /\ walk # "level" => levelErr = "none" /\ \A s \in Stage : node[s] \in {"idle", "ended"}
  /\ walk = "start" => done = {} /\ firstErr = "none" /\ \A s \in Stage : node[s] = "idle"

\* The status and the error of a stage by what its goroutine does.
StatusKnown ==
  \A s \in Stage :
      /\ node[s] \in {"idle", "waiting", "entered"} => st[s] = "pending" /\ serr[s] = "none"
      /\ node[s] \in {"attempt", "awaiting", "backoff"} => st[s] = "running" /\ serr[s] = "none"
      /\ node[s] = "ending" => st[s] \in {"success", "skipped"} \/ serr[s] # "none"

TriesBounded ==
  \A s \in Stage : /\ node[s] = "attempt" => 1 <= tries[s] /\ tries[s] <= MaxAttempts(s)
                   /\ node[s] = "backoff" => tries[s] < MaxAttempts(s)

Validated == walk \in {"level", "drain"} => ValidPipeline

\* The outcome of a stage is in the row or still in the channel.
Reported ==
  execFaults = 0 /\ ctx = "live" =>
      \A s \in Stage : node[s] = "ended" =>
          db[s] = st[s] \/ \E i \in 1..Len(chan) : chan[i][1] = s /\ chan[i][2] \in Terminal

\* A stage that did not end well has left an error.
ErrorsKept ==
  \A s \in Stage : (node[s] = "ended" /\ (st[s] \notin {"success", "skipped"} \/ serr[s] # "none"))
                      => levelErr # "none" \/ firstErr # "none"

CancelTrue ==
  (levelErr = "cancel" \/ firstErr = "cancel" \/ \E s \in Stage : serr[s] = "cancel") => ctx = "cancelled"

\* A walk without an error has finished every stage.
AllDone == walk \in {"drain", "finalize", "over"} /\ firstErr = "none" => done = Stage

Verdict ==
  walk = "over" => /\ result = "success" => firstErr = "none"
                   /\ result = "cancelled" => preCancelled \/ firstErr = "cancel"

Levelled == Placed /\ Settled /\ Quiet /\ Validated
Staged == StatusKnown /\ TriesBounded /\ JoinRespected
Judged == ErrorsKept /\ CancelTrue /\ AllDone /\ Verdict
ExecIInv == ExecTypeOK /\ Levelled /\ Staged /\ Reported /\ Judged

\* An edge condition looks at the sources of a stage only.
LEMMA JoinStable ==
  ASSUME pipe' = pipe, NEW s \in Stage, \A x \in Sources(s) : st'[x] = st[x]
  PROVE  StageShouldRun(s)' <=> StageShouldRun(s)
  <1>1. \A e \in pipe.edges : e.dst = s => e.src \in Sources(s)
    BY DEF Sources
  <1>2. \A e \in pipe.edges : e.dst = s => st'[e.src] = st[e.src]
    BY <1>1
  <1>3. QED
    BY <1>2 DEF StageShouldRun, EdgeAllows

\* The clamp of policyFromStage.
LEMMA AttemptsBounded ==
  ASSUME pipe \in Pipelines, NEW s \in Stage
  PROVE  MaxAttempts(s) \in 1..MaxAttemptsCap
  <1>1. pipe.retries[s] \in Nat
    BY GraphAssumption
  <1>2. QED
    BY <1>1, GraphAssumption DEF MaxAttempts

LEMMA ValidStable ==
  ASSUME UNCHANGED pipe
  PROVE  ValidPipeline' = ValidPipeline
  BY DEF ValidPipeline, Levels, Ready, ancestorsOf, Sources

\* The goroutine of a stage moves on inside its task: its own program point,
\* status, error and count of attempts change, and nothing anybody else reads.
StageMoves(s) ==
  /\ node[s] \in {"entered", "attempt", "awaiting", "backoff"}
  /\ node' = [node EXCEPT ![s] = node'[s]] /\ node'[s] \in {"attempt", "awaiting", "backoff", "ending"}
  /\ st' = [st EXCEPT ![s] = st'[s]] /\ st'[s] \in Terminal \cup {"running"}
  /\ serr' = [serr EXCEPT ![s] = serr'[s]] /\ serr'[s] \in ErrClass
  /\ tries' = [tries EXCEPT ![s] = tries'[s]] /\ tries'[s] \in 0..MaxAttemptsCap
  /\ node'[s] # "ending" => st'[s] = "running" /\ serr'[s] = "none"
  /\ node'[s] = "ending" => st'[s] \in {"success", "skipped"} \/ serr'[s] # "none"
  /\ serr'[s] = "cancel" => ctx = "cancelled"
  /\ node'[s] = "attempt" => 1 <= tries'[s] /\ tries'[s] <= MaxAttempts(s)
  /\ node'[s] = "backoff" => tries'[s] < MaxAttempts(s)
  /\ pipe.conditions => (st'[s] = "skipped" <=> ~StageShouldRun(s))
  /\ outs' \subseteq Stage
  /\ execFaults' \in 0..MaxExecFaults /\ (execFaults' = 0 => execFaults = 0)
  /\ UNCHANGED <<pipe, walk, done, db, chan, unflushed, ctx, levelErr, firstErr, preCancelled, result>>

\* What a goroutine in its task does keeps the invariant.
LEMMA StageMovesOn ==
  ASSUME ExecIInv, NEW s \in Stage, StageMoves(s)
  PROVE  ExecIInv'
  <1> DEFINE to == node'[s]
             status == st'[s]
             class == serr'[s]
             n == tries'[s]
  <1>1. /\ node' = [node EXCEPT ![s] = to] /\ to \in {"attempt", "awaiting", "backoff", "ending"}
        /\ st' = [st EXCEPT ![s] = status] /\ status \in Terminal \cup {"running"}
        /\ serr' = [serr EXCEPT ![s] = class] /\ class \in ErrClass
        /\ tries' = [tries EXCEPT ![s] = n] /\ n \in 0..MaxAttemptsCap
        /\ to # "ending" => status = "running" /\ class = "none"
        /\ to = "ending" => status \in {"success", "skipped"} \/ class # "none"
        /\ class = "cancel" => ctx = "cancelled"
        /\ to = "attempt" => 1 <= n /\ n <= MaxAttempts(s)
        /\ to = "backoff" => n < MaxAttempts(s)
        /\ pipe.conditions => (status = "skipped" <=> ~StageShouldRun(s))
    BY DEF StageMoves
  <1> HIDE DEF to, status, class, n
  <1>2. /\ node[s] \in {"entered", "attempt", "awaiting", "backoff"}
        /\ outs' \subseteq Stage
        /\ execFaults' \in 0..MaxExecFaults /\ (execFaults' = 0 => execFaults = 0)
        /\ UNCHANGED <<pipe, walk, done, db, chan, unflushed, ctx, levelErr, firstErr, preCancelled, result>>
    BY DEF StageMoves
  <1>3. /\ ExecTypeOK /\ pipe \in Pipelines /\ done \subseteq Stage /\ node \in [Stage -> NodePoint]
        /\ tries \in [Stage -> 0..MaxAttemptsCap]
        /\ st \in [Stage -> Terminal \cup {"pending", "running"}] /\ serr \in [Stage -> ErrClass]
    BY DEF ExecIInv, ExecTypeOK
  <1>4. /\ \A t \in Stage \ {s} : /\ node'[t] = node[t] /\ st'[t] = st[t] /\ serr'[t] = serr[t]
                                  /\ tries'[t] = tries[t]
        /\ node'[s] = to /\ st'[s] = status /\ serr'[s] = class /\ tries'[s] = n
    BY <1>1, <1>3 DEF to, status, class, n
  <1>5. ExecTypeOK'
    <2>1. node' \in [Stage -> NodePoint]
      BY <1>1, <1>3 DEF NodePoint, InTask
    <2>2. /\ st' \in [Stage -> Terminal \cup {"pending", "running"}]
          /\ serr' \in [Stage -> ErrClass] /\ tries' \in [Stage -> 0..MaxAttemptsCap]
      BY <1>1, <1>3
    <2>3. QED
      BY <1>2, <1>3, <2>1, <2>2 DEF ExecTypeOK
  <1>6. s \notin done /\ walk = "level"
    BY <1>2, <1>3 DEF ExecIInv, Levelled, Settled, Quiet
  <1>7. Levelled'
    <2>1. Placed'
      BY <1>2, <1>4, <1>3 DEF ExecIInv, Levelled, Placed, Ready, Sources
    <2>2. Settled'
      BY <1>2, <1>4, <1>3, <1>6 DEF ExecIInv, Levelled, Settled
    <2>3. Quiet'
      BY <1>2, <1>6 DEF Quiet
    <2>4. Validated'
      BY <1>2, ValidStable DEF ExecIInv, Levelled, Validated
    <2>5. QED
      BY <2>1, <2>2, <2>3, <2>4 DEF Levelled
  <1>8. Staged'
    <2>1. StatusKnown'
      BY <1>1, <1>4 DEF ExecIInv, Staged, StatusKnown
    <2>2. TriesBounded'
      <3>1. \A t \in Stage : MaxAttempts(t)' = MaxAttempts(t)
        BY <1>2 DEF MaxAttempts
      <3>2. QED
        BY <1>1, <1>4, <3>1 DEF ExecIInv, Staged, TriesBounded
    <2>3. ASSUME pipe.conditions, NEW t \in Stage
          PROVE  /\ st'[t] \in {"running", "success", "failed"} => StageShouldRun(t)'
                 /\ st'[t] = "skipped" => ~StageShouldRun(t)'
      <3>1. SUFFICES ASSUME st'[t] # "pending"
                     PROVE  /\ st'[t] \in {"running", "success", "failed"} => StageShouldRun(t)'
                            /\ st'[t] = "skipped" => ~StageShouldRun(t)'
        OBVIOUS
      <3>2. node[t] # "idle"
        BY <1>2, <1>4, <3>1 DEF ExecIInv, Staged, StatusKnown
      <3>3. \A x \in Sources(t) : x \in done
        BY <3>2 DEF ExecIInv, Levelled, Placed
      <3>4. \A x \in Sources(t) : st'[x] = st[x]
        BY <1>3, <1>4, <1>6, <3>3
      <3>5. StageShouldRun(t)' <=> StageShouldRun(t)
        BY <1>2, <3>4, JoinStable
      <3>6. CASE t = s
        BY <1>1, <1>4, <2>3, <3>5, <3>6 DEF Terminal
      <3>7. CASE t # s
        BY <1>4, <2>3, <3>5, <3>7 DEF ExecIInv, Staged, JoinRespected
      <3>8. QED
        BY <3>6, <3>7
    <2>4. JoinRespected'
      BY <1>2, <2>3 DEF JoinRespected
    <2>5. QED
      BY <2>1, <2>2, <2>4 DEF Staged
  <1>9. Reported'
    BY <1>1, <1>2, <1>4 DEF ExecIInv, Reported
  <1>10. Judged'
    <2>1. ErrorsKept'
      BY <1>1, <1>2, <1>4 DEF ExecIInv, Judged, ErrorsKept
    <2>2. CancelTrue'
      BY <1>1, <1>2, <1>4 DEF ExecIInv, Judged, CancelTrue
    <2>3. AllDone' /\ Verdict'
      BY <1>2 DEF ExecIInv, Judged, AllDone, Verdict
    <2>4. QED
      BY <2>1, <2>2, <2>3 DEF Judged
  <1>11. QED
    BY <1>5, <1>7, <1>8, <1>9, <1>10 DEF ExecIInv

\* Every step of a stage inside its task is such a move.
LEMMA TaskSteps ==
  ASSUME ExecIInv, NEW s \in Stage,
         \/ Skip(s) \/ StartStage(s) \/ AttemptSucceeds(s) \/ AttemptFails(s) \/ BackoffEnds(s)
         \/ AwaitApproval(s) \/ PollGate(s) \/ StageTimeout(s) \/ Panic(s)
  PROVE  StageMoves(s)
  <1>1. /\ pipe \in Pipelines /\ node \in [Stage -> NodePoint] /\ tries \in [Stage -> 0..MaxAttemptsCap]
        /\ st \in [Stage -> Terminal \cup {"pending", "running"}] /\ serr \in [Stage -> ErrClass]
        /\ outs \subseteq Stage /\ execFaults \in 0..MaxExecFaults
        /\ tries[s] \in 0..MaxAttemptsCap
    BY DEF ExecIInv, ExecTypeOK
  <1>2. MaxAttempts(s) \in 1..MaxAttemptsCap /\ MaxAttemptsCap \in Nat /\ MaxExecFaults \in Nat
    BY <1>1, AttemptsBounded, GraphAssumption
  <1>3. /\ node[s] \in {"attempt", "awaiting", "backoff"} =>
             st[s] = "running" /\ serr[s] = "none" /\ (pipe.conditions => StageShouldRun(s))
        /\ node[s] = "entered" => serr[s] = "none"
        /\ node[s] = "attempt" => 1 <= tries[s] /\ tries[s] <= MaxAttempts(s)
        /\ node[s] = "backoff" => tries[s] < MaxAttempts(s)
    <2>1. /\ node[s] \in {"attempt", "awaiting", "backoff"} => st[s] = "running" /\ serr[s] = "none"
          /\ node[s] = "entered" => serr[s] = "none"
      BY DEF ExecIInv, Staged, StatusKnown
    <2>2. pipe.conditions /\ st[s] = "running" => StageShouldRun(s)
      BY DEF ExecIInv, Staged, JoinRespected
    <2>3. /\ node[s] = "attempt" => 1 <= tries[s] /\ tries[s] <= MaxAttempts(s)
          /\ node[s] = "backoff" => tries[s] < MaxAttempts(s)
      BY DEF ExecIInv, Staged, TriesBounded
    <2>4. QED
      BY <2>1, <2>2, <2>3
  <1>4. /\ "none" \in ErrClass /\ "error" \in ErrClass /\ "cancel" \in ErrClass
        /\ CtxError \in ErrClass \ {"none"} /\ (CtxError = "cancel" => ctx = "cancelled")
    BY DEF ErrClass, CtxError
  <1>5. /\ st = [st EXCEPT ![s] = st[s]] /\ serr = [serr EXCEPT ![s] = serr[s]]
        /\ tries = [tries EXCEPT ![s] = tries[s]]
    BY <1>1
  <1>6. CASE Skip(s)
    <2>1. pipe.conditions => ~StageShouldRun(s)
      BY <1>6 DEF Skip, Gated
    <2>2. QED
      BY <1>1, <1>2, <1>3, <1>4, <1>5, <1>6, <2>1 DEF Skip, StageMoves, Terminal
  <1>7. CASE StartStage(s)
    <2>1. pipe.conditions => StageShouldRun(s)
      BY <1>7 DEF StartStage, Gated
    <2>2. CASE interpolateStageConfig(s) /\ ctx = "live"
      BY <1>1, <1>2, <1>3, <1>4, <1>5, <1>7, <2>1, <2>2 DEF StartStage, StageMoves, Terminal
    <2>3. CASE ~(interpolateStageConfig(s) /\ ctx = "live")
      <3>1. PICK class \in {CtxError, "error"} : serr' = [serr EXCEPT ![s] = class]
        BY <1>7, <2>3 DEF StartStage
      <3>2. QED
        BY <1>1, <1>2, <1>3, <1>4, <1>5, <1>7, <2>1, <2>3, <3>1 DEF StartStage, StageMoves, Terminal
    <2>4. QED
      BY <2>2, <2>3
  <1>8. CASE AttemptSucceeds(s)
    <2>1. outs' \subseteq Stage
      BY <1>1, <1>8 DEF AttemptSucceeds, executeBuild, executePush, executeDeploy, executeCloudDeploy,
                        executeGitOpsCommit, executeTest, executeCustom, applyStageOutputs
    <2>2. \E kind \in Kind : Returns(s, kind)
      BY <1>8 DEF AttemptSucceeds, executeBuild, executePush, executeDeploy, executeCloudDeploy,
                  executeGitOpsCommit, executeTest, executeCustom, Kind
    <2>3. QED
      BY <1>1, <1>2, <1>3, <1>4, <1>5, <2>1, <2>2 DEF Returns, EndStage, StageMoves, Terminal
  <1>9. CASE AttemptFails(s)
    <2>1. CASE ctx # "live" \/ tries[s] = MaxAttempts(s)
      <3>1. PICK class \in {"error", CtxError} : EndStage(s, "failed", class)
        BY <1>9, <2>1 DEF AttemptFails
      <3>2. QED
        BY <1>1, <1>2, <1>3, <1>4, <1>5, <1>9, <3>1 DEF AttemptFails, EndStage, StageMoves, Terminal
    <2>2. CASE ~(ctx # "live" \/ tries[s] = MaxAttempts(s))
      <3>1. tries[s] < MaxAttempts(s)
        BY <1>1, <1>2, <1>3, <1>9, <2>2 DEF AttemptFails
      <3>2. QED
        BY <1>1, <1>2, <1>3, <1>4, <1>5, <1>9, <2>2, <3>1 DEF AttemptFails, StageMoves
    <2>3. QED
      BY <2>1, <2>2
  <1>10. CASE BackoffEnds(s)
    <2>1. CASE ctx = "live"
      <3>1. tries[s] < MaxAttempts(s) /\ tries[s] + 1 \in 0..MaxAttemptsCap
        BY <1>2, <1>3, <1>1, <1>10 DEF BackoffEnds
      <3>2. tries' = [tries EXCEPT ![s] = tries[s] + 1]
        BY <1>10, <2>1 DEF BackoffEnds
      <3>3. QED
        BY <1>1, <1>2, <1>3, <1>4, <1>5, <1>10, <2>1, <3>1, <3>2 DEF BackoffEnds, StageMoves
    <2>2. CASE ctx # "live"
      BY <1>1, <1>2, <1>3, <1>4, <1>5, <1>10, <2>2 DEF BackoffEnds, EndStage, StageMoves, Terminal
    <2>3. QED
      BY <2>1, <2>2
  <1>11. CASE AwaitApproval(s)
    BY <1>1, <1>2, <1>3, <1>4, <1>5, <1>11 DEF AwaitApproval, StageMoves
  <1>12. CASE PollGate(s)
    BY <1>1, <1>2, <1>3, <1>4, <1>5, <1>12 DEF PollGate, EndStage, StageMoves, Terminal
  <1>13. CASE StageTimeout(s)
    BY <1>1, <1>2, <1>3, <1>4, <1>5, <1>13 DEF StageTimeout, EndStage, StageMoves, Terminal
  <1>14. CASE Panic(s)
    BY <1>1, <1>2, <1>3, <1>4, <1>5, <1>14 DEF Panic, ExecFault, StageMoves
  <1>15. QED
    BY <1>6, <1>7, <1>8, <1>9, <1>10, <1>11, <1>12, <1>13, <1>14

\* A goroutine gets its slot.
LEMMA EnterKeeps ==
  ASSUME ExecIInv, NEW s \in Stage, Enter(s)
  PROVE  ExecIInv'
  <1>1. /\ node[s] = "waiting" /\ node' = [node EXCEPT ![s] = "entered"]
        /\ Len(chan) < ChanCap /\ chan' = Append(chan, <<s, "running">>)
        /\ UNCHANGED <<pipe, walk, done, tries, st, db, outs, serr, unflushed, ctx, levelErr,
                       firstErr, preCancelled, result, execFaults>>
    BY DEF Enter, Emit
  <1>2. /\ ExecTypeOK /\ pipe \in Pipelines /\ done \subseteq Stage /\ node \in [Stage -> NodePoint]
        /\ chan \in Seq(Stage \X (Terminal \cup {"running"})) /\ Len(chan) \in Nat
    BY DEF ExecIInv, ExecTypeOK
  <1>3. \A t \in Stage \ {s} : node'[t] = node[t]
    BY <1>1, <1>2
  <1>4. node'[s] = "entered" /\ s \notin done /\ walk = "level"
    BY <1>1, <1>2 DEF ExecIInv, Levelled, Settled, Quiet
  <1>5. ExecTypeOK'
    <2>1. node' \in [Stage -> NodePoint]
      BY <1>1, <1>2 DEF NodePoint, InTask
    <2>2. <<s, "running">> \in Stage \X (Terminal \cup {"running"})
      OBVIOUS
    <2>3. chan' \in Seq(Stage \X (Terminal \cup {"running"})) /\ Len(chan') <= ChanCap
      BY <1>1, <1>2, <2>2, GraphAssumption
    <2>4. QED
      BY <1>1, <1>2, <2>1, <2>3 DEF ExecTypeOK
  <1>6. Levelled'
    <2>1. Placed'
      BY <1>1, <1>3 DEF ExecIInv, Levelled, Placed, Ready, Sources
    <2>2. Settled'
      BY <1>1, <1>2, <1>3, <1>4 DEF ExecIInv, Levelled, Settled
    <2>3. Quiet' /\ Validated'
      BY <1>1, <1>4, ValidStable DEF ExecIInv, Levelled, Quiet, Validated
    <2>4. QED
      BY <2>1, <2>2, <2>3 DEF Levelled
  <1>7. Staged'
    <2>1. StatusKnown'
      BY <1>1, <1>3, <1>4 DEF ExecIInv, Staged, StatusKnown
    <2>2. TriesBounded'
      BY <1>1, <1>3, <1>4 DEF ExecIInv, Staged, TriesBounded, MaxAttempts
    <2>3. JoinRespected'
      BY <1>1 DEF ExecIInv, Staged, JoinRespected, StageShouldRun
    <2>4. QED
      BY <2>1, <2>2, <2>3 DEF Staged
  <1>8. Reported'
    <2>1. SUFFICES ASSUME execFaults = 0, ctx = "live", NEW t \in Stage, node'[t] = "ended"
                   PROVE  \/ db[t] = st[t]
                          \/ \E i \in 1..Len(chan') : chan'[i][1] = t /\ chan'[i][2] \in Terminal
      BY <1>1 DEF Reported
    <2>2. node[t] = "ended"
      BY <1>3, <1>4, <2>1
    <2>3. \/ db[t] = st[t]
          \/ \E i \in 1..Len(chan) : chan[i][1] = t /\ chan[i][2] \in Terminal
      BY <2>1, <2>2 DEF ExecIInv, Reported
    <2>4. Len(chan') = Len(chan) + 1 /\ \A i \in 1..Len(chan) : chan'[i] = chan[i]
      BY <1>1, <1>2
    <2>5. QED
      BY <1>2, <2>3, <2>4
  <1>9. Judged'
    BY <1>1, <1>3, <1>4 DEF ExecIInv, Judged, ErrorsKept, CancelTrue, AllDone, Verdict
  <1>10. QED
    BY <1>5, <1>6, <1>7, <1>8, <1>9 DEF ExecIInv

\* A goroutine reports its outcome: at the end of its task, or without having
\* had a slot.
LEMMA EndKeeps ==
  ASSUME ExecIInv, NEW s \in Stage, Leave(s) \/ GiveUp(s)
  PROVE  ExecIInv'
  <1>1. /\ node[s] \in {"waiting", "ending"} /\ node' = [node EXCEPT ![s] = "ended"]
        /\ Len(chan) < ChanCap
        /\ UNCHANGED <<pipe, walk, done, tries, st, db, outs, serr, unflushed, ctx,
                       firstErr, preCancelled, result, execFaults>>
    BY DEF Leave, GiveUp, Emit
  <1>2. PICK status \in Terminal : chan' = Append(chan, <<s, status>>)
    BY DEF Leave, GiveUp, Emit, Terminal
  <1>3. /\ ExecTypeOK /\ pipe \in Pipelines /\ done \subseteq Stage /\ node \in [Stage -> NodePoint]
        /\ chan \in Seq(Stage \X (Terminal \cup {"running"})) /\ Len(chan) \in Nat
        /\ levelErr \in ErrClass /\ serr \in [Stage -> ErrClass] /\ serr[s] \in ErrClass
    BY DEF ExecIInv, ExecTypeOK
  <1>4. /\ \A t \in Stage \ {s} : node'[t] = node[t]
        /\ node'[s] = "ended" /\ s \notin done /\ walk = "level"
    BY <1>1, <1>3 DEF ExecIInv, Levelled, Settled, Quiet
  <1>5. /\ levelErr' \in ErrClass
        /\ levelErr # "none" => levelErr' = levelErr
        /\ levelErr' = "cancel" => levelErr = "cancel" \/ serr[s] = "cancel" \/ ctx = "cancelled"
        /\ (st[s] \notin {"success", "skipped"} \/ serr[s] # "none") => levelErr' # "none"
    <2>1. CASE Leave(s)
      <3>1. st[s] \in {"success", "skipped"} \/ serr[s] # "none"
        BY <2>1 DEF Leave, ExecIInv, Staged, StatusKnown
      <3>2. QED
        BY <1>3, <2>1, <3>1 DEF Leave, Fail
    <2>2. CASE GiveUp(s)
      <3>1. CtxError \in {"error", "cancel"} /\ (CtxError = "cancel" => ctx = "cancelled")
        BY DEF CtxError
      <3>2. levelErr' = IF levelErr = "none" THEN CtxError ELSE levelErr
        BY <2>2 DEF GiveUp, Fail
      <3>3. QED
        BY <1>3, <3>1, <3>2 DEF ErrClass
    <2>3. QED
      BY <2>1, <2>2
  <1>6. ExecTypeOK'
    <2>1. node' \in [Stage -> NodePoint]
      BY <1>1, <1>3 DEF NodePoint, InTask
    <2>2. <<s, status>> \in Stage \X (Terminal \cup {"running"})
      OBVIOUS
    <2>3. chan' \in Seq(Stage \X (Terminal \cup {"running"})) /\ Len(chan') <= ChanCap
      BY <1>1, <1>2, <1>3, <2>2, GraphAssumption
    <2>4. QED
      BY <1>1, <1>3, <1>5, <2>1, <2>3 DEF ExecTypeOK
  <1>7. Levelled'
    <2>1. Placed'
      BY <1>1, <1>4 DEF ExecIInv, Levelled, Placed, Ready, Sources
    <2>2. Settled'
      BY <1>1, <1>3, <1>4 DEF ExecIInv, Levelled, Settled
    <2>3. Quiet' /\ Validated'
      BY <1>1, <1>4, ValidStable DEF ExecIInv, Levelled, Quiet, Validated
    <2>4. QED
      BY <2>1, <2>2, <2>3 DEF Levelled
  <1>8. Staged'
    <2>1. StatusKnown'
      BY <1>1, <1>4 DEF ExecIInv, Staged, StatusKnown
    <2>2. TriesBounded'
      BY <1>1, <1>4 DEF ExecIInv, Staged, TriesBounded, MaxAttempts
    <2>3. JoinRespected'
      BY <1>1 DEF ExecIInv, Staged, JoinRespected, StageShouldRun
    <2>4. QED
      BY <2>1, <2>2, <2>3 DEF Staged
  <1>9. Reported'
    <2>1. SUFFICES ASSUME execFaults = 0, ctx = "live", NEW t \in Stage, node'[t] = "ended"
                   PROVE  \/ db[t] = st[t]
                          \/ \E i \in 1..Len(chan') : chan'[i][1] = t /\ chan'[i][2] \in Terminal
      BY <1>1 DEF Reported
    <2>2. /\ Len(chan') = Len(chan) + 1 /\ \A i \in 1..Len(chan) : chan'[i] = chan[i]
          /\ chan'[Len(chan')] = <<s, status>> /\ Len(chan') \in 1..Len(chan')
      BY <1>2, <1>3
    <2>3. CASE t = s
      <3>1. chan'[Len(chan')][1] = t /\ chan'[Len(chan')][2] \in Terminal
        BY <2>2, <2>3
      <3>2. QED
        BY <2>2, <3>1
    <2>4. CASE t # s
      <3>1. \/ db[t] = st[t]
            \/ \E i \in 1..Len(chan) : chan[i][1] = t /\ chan[i][2] \in Terminal
        BY <1>4, <2>1, <2>4 DEF ExecIInv, Reported
      <3>2. QED
        BY <1>3, <2>2, <3>1
    <2>5. QED
      BY <2>3, <2>4
  <1>10. Judged'
    <2>1. ErrorsKept'
      <3>1. ASSUME NEW t \in Stage, node'[t] = "ended",
                   st[t] \notin {"success", "skipped"} \/ serr[t] # "none"
            PROVE  levelErr' # "none" \/ firstErr # "none"
        <4>1. CASE t = s
          BY <1>5, <3>1, <4>1
        <4>2. CASE t # s
          <5>1. levelErr # "none" \/ firstErr # "none"
            BY <1>4, <3>1, <4>2 DEF ExecIInv, Judged, ErrorsKept
          <5>2. QED
            BY <1>5, <5>1
        <4>3. QED
          BY <4>1, <4>2
      <3>2. QED
        BY <1>1, <3>1 DEF ErrorsKept
    <2>2. CancelTrue'
      BY <1>1, <1>5 DEF ExecIInv, Judged, CancelTrue
    <2>3. AllDone' /\ Verdict'
      BY <1>1, <1>4 DEF ExecIInv, Judged, AllDone, Verdict
    <2>4. QED
      BY <2>1, <2>2, <2>3 DEF Judged
  <1>11. QED
    BY <1>6, <1>7, <1>8, <1>9, <1>10 DEF ExecIInv

\* What a step that ends or starts a level keeps of the stages.
LEMMA StagedKept ==
  ASSUME Staged, UNCHANGED <<pipe, st, serr, tries>>, node \in [Stage -> NodePoint],
         \A s \in Stage : node'[s] = node[s] \/ (node[s] = "idle" /\ node'[s] = "waiting")
  PROVE  Staged'
  <1>1. StatusKnown'
    BY DEF Staged, StatusKnown
  <1>2. TriesBounded'
    BY DEF Staged, TriesBounded, MaxAttempts
  <1>3. JoinRespected'
    BY DEF Staged, JoinRespected, StageShouldRun
  <1>4. QED
    BY <1>1, <1>2, <1>3 DEF Staged

\* Execute
LEMMA ExecuteKeeps ==
  ASSUME ExecIInv, Execute
  PROVE  ExecIInv'
  <1>1. /\ walk = "start"
        /\ UNCHANGED <<pipe, done, tries, st, db, outs, serr, chan, unflushed, ctx, levelErr,
                       preCancelled, execFaults>>
    BY DEF Execute
  <1>2. /\ ExecTypeOK /\ pipe \in Pipelines /\ node \in [Stage -> NodePoint]
        /\ ctx \in {"live", "cancelled", "deadline"}
    BY DEF ExecIInv, ExecTypeOK
  <1>3. /\ done = {} /\ firstErr = "none" /\ levelErr = "none"
        /\ \A s \in Stage : node[s] = "idle" /\ serr[s] = "none"
    BY <1>1 DEF ExecIInv, Levelled, Quiet, Staged, StatusKnown
  <1>4. CtxError \in {"error", "cancel"} /\ (CtxError = "cancel" => ctx = "cancelled")
    BY DEF CtxError
  <1>5. /\ walk' = "level" => ctx = "live" /\ firstErr' = "none"
        /\ walk' \in {"level", "drain", "finalize"}
        /\ walk' \in {"level", "drain"} => ValidPipeline
        /\ walk' # "level" => UNCHANGED node /\ firstErr' # "none"
        /\ walk' = "level" => node' = [s \in Stage |-> IF s \in Ready({}) THEN "waiting" ELSE node[s]]
        /\ firstErr' \in ErrClass /\ (firstErr' = "cancel" => ctx = "cancelled")
        /\ result' \in {result, "running"}
    BY <1>1, <1>4 DEF Execute, StartLevel, ErrClass
  <1>6. /\ node' \in [Stage -> NodePoint]
        /\ \A s \in Stage : node'[s] = node[s] \/ (node[s] = "idle" /\ node'[s] = "waiting")
        /\ \A s \in Stage : node'[s] # "idle" => s \in Ready({}) /\ walk' = "level"
    <2>1. CASE walk' = "level"
      BY <1>2, <1>3, <1>5, <2>1 DEF NodePoint
    <2>2. CASE walk' # "level"
      BY <1>2, <1>3, <1>5, <2>2
    <2>3. QED
      BY <2>1, <2>2
  <1>7. ExecTypeOK'
    BY <1>1, <1>2, <1>5, <1>6 DEF ExecTypeOK
  <1>8. Levelled'
    <2>1. Placed'
      BY <1>1, <1>3, <1>6 DEF Placed, Ready, Sources
    <2>2. Settled'
      BY <1>1, <1>3 DEF Settled
    <2>3. Quiet'
      BY <1>1, <1>3, <1>5, <1>6 DEF Quiet
    <2>4. Validated'
      BY <1>1, <1>5, ValidStable DEF Validated
    <2>5. QED
      BY <2>1, <2>2, <2>3, <2>4 DEF Levelled
  <1>9. Staged'
    BY <1>1, <1>2, <1>6, StagedKept DEF ExecIInv
  <1>10. \A s \in Stage : node'[s] # "ended"
    BY <1>3, <1>6
  <1>11. Reported' /\ ErrorsKept'
    BY <1>10 DEF Reported, ErrorsKept
  <1>12. CancelTrue' /\ AllDone' /\ Verdict'
    BY <1>1, <1>3, <1>5 DEF CancelTrue, AllDone, Verdict
  <1>13. QED
    BY <1>7, <1>8, <1>9, <1>11, <1>12 DEF ExecIInv, Judged

\* The level barrier: the next level starts, or the walk ends.
LEMMA NextLevelKeeps ==
  ASSUME ExecIInv, NextLevel
  PROVE  ExecIInv'
  <1> DEFINE level == Ready(done)
             first == IF firstErr = "none" THEN levelErr ELSE firstErr
  <1>1. /\ walk = "level" /\ (\A s \in level : node[s] = "ended")
        /\ done' = done \cup level /\ levelErr' = "none"
        /\ UNCHANGED <<pipe, tries, st, db, outs, serr, chan, unflushed, ctx, preCancelled, result,
                       execFaults>>
    BY DEF NextLevel
  <1>2. /\ ExecTypeOK /\ pipe \in Pipelines /\ node \in [Stage -> NodePoint] /\ done \subseteq Stage
        /\ ctx \in {"live", "cancelled", "deadline"} /\ levelErr \in ErrClass /\ firstErr \in ErrClass
    BY DEF ExecIInv, ExecTypeOK
  <1>3. CtxError \in {"error", "cancel"} /\ (CtxError = "cancel" => ctx = "cancelled")
    BY DEF CtxError
  <1>4. /\ walk' \in {"level", "drain"}
        /\ firstErr' \in ErrClass
        /\ first # "none" => firstErr' = first
        /\ first = "none" => firstErr' = "none" \/ firstErr' = CtxError
        /\ walk' = "drain" => UNCHANGED node
        /\ walk' = "drain" /\ firstErr' = "none" => done' = Stage
        /\ walk' = "level" => node' = [s \in Stage |-> IF s \in Ready(done') THEN "waiting" ELSE node[s]]
    <2>1. CASE (levelErr # "none" /\ ~pipe.conditions) \/ done' = Stage
      <3>1. walk' = "drain" /\ firstErr' = first /\ UNCHANGED node
        BY <2>1 DEF NextLevel
      <3>2. done' # Stage => first # "none"
        BY <2>1
      <3>3. QED
        BY <1>2, <3>1, <3>2 DEF ErrClass
    <2>2. CASE ~((levelErr # "none" /\ ~pipe.conditions) \/ done' = Stage) /\ ctx # "live"
      <3>1. walk' = "drain" /\ firstErr' = (IF first = "none" THEN CtxError ELSE first) /\ UNCHANGED node
        BY <2>2 DEF NextLevel
      <3>2. QED
        BY <1>2, <1>3, <3>1 DEF ErrClass
    <2>3. CASE ~((levelErr # "none" /\ ~pipe.conditions) \/ done' = Stage) /\ ctx = "live"
      <3>1. /\ walk' = walk /\ firstErr' = first
            /\ node' = [s \in Stage |-> IF s \in Ready(done') THEN "waiting" ELSE node[s]]
        BY <2>3 DEF NextLevel, StartLevel
      <3>2. QED
        BY <1>1, <1>2, <3>1 DEF ErrClass
    <2>4. QED
      BY <2>1, <2>2, <2>3
  <1>5. done' \subseteq Stage /\ done \subseteq done'
    BY <1>1, <1>2 DEF Ready
  <1>6. \A s \in done' : node[s] = "ended"
    BY <1>1 DEF ExecIInv, Levelled, Settled
  <1>7. \A s \in Stage : node[s] # "idle" => s \in done'
    BY <1>1 DEF ExecIInv, Levelled, Placed
  <1>8. \A s \in Ready(done') : s \in Stage /\ s \notin done' /\ Sources(s) \subseteq done' /\ node[s] = "idle"
    BY <1>7 DEF Ready
  <1>9. /\ node' \in [Stage -> NodePoint]
        /\ \A s \in Stage : node'[s] = node[s] \/ (node[s] = "idle" /\ node'[s] = "waiting")
        /\ \A s \in Stage : node'[s] # node[s] => s \in Ready(done') /\ walk' = "level"
    <2>1. CASE walk' = "level"
      BY <1>2, <1>4, <1>8, <2>1 DEF NodePoint
    <2>2. CASE walk' = "drain"
      BY <1>2, <1>4, <2>2
    <2>3. QED
      BY <1>4, <2>1, <2>2
  <1>10. \A s \in Stage : Sources(s)' = Sources(s)
    BY <1>1 DEF Sources
  <1>11. ExecTypeOK'
    BY <1>1, <1>2, <1>4, <1>5, <1>9 DEF ExecTypeOK, ErrClass
  <1>12. Levelled'
    <2>1. ASSUME NEW s \in Stage, node'[s] # "idle"
          PROVE  s \in done' \cup Ready(done') /\ Sources(s) \subseteq done'
      <3>1. CASE node'[s] = node[s]
        BY <1>5, <1>7, <2>1, <3>1 DEF ExecIInv, Levelled, Placed
      <3>2. CASE node'[s] # node[s]
        BY <1>8, <1>9, <3>2
      <3>3. QED
        BY <3>1, <3>2
    <2>2. Ready(done)' = Ready(done')
      BY <1>1 DEF Ready, Sources
    <2>3. Placed'
      BY <1>10, <2>1, <2>2 DEF Placed
    <2>4. Settled'
      BY <1>5, <1>6, <1>9 DEF Settled
    <2>5. Quiet'
      <3>1. ASSUME walk' # "level", NEW s \in Stage
            PROVE  node'[s] \in {"idle", "ended"}
        BY <1>4, <1>6, <1>7, <3>1
      <3>2. QED
        BY <1>1, <1>4, <3>1 DEF Quiet
    <2>6. Validated'
      BY <1>1, ValidStable DEF ExecIInv, Levelled, Validated
    <2>7. QED
      BY <2>3, <2>4, <2>5, <2>6 DEF Levelled
  <1>13. Staged'
    BY <1>1, <1>2, <1>9, StagedKept DEF ExecIInv
  <1>14. \A s \in Stage : node'[s] = "ended" => node[s] = "ended"
    BY <1>9
  <1>15. Reported'
    BY <1>1, <1>14 DEF ExecIInv, Reported
  <1>16. Judged'
    <2>1. ErrorsKept'
      BY <1>1, <1>4, <1>14 DEF ExecIInv, Judged, ErrorsKept
    <2>2. CancelTrue'
      BY <1>1, <1>3, <1>4 DEF ExecIInv, Judged, CancelTrue
    <2>3. AllDone' /\ Verdict'
      BY <1>4 DEF AllDone, Verdict
    <2>4. QED
      BY <2>1, <2>2, <2>3 DEF Judged
  <1>17. QED
    BY <1>11, <1>12, <1>13, <1>15, <1>16 DEF ExecIInv

\* The drain goroutine writes the run row behind the stages' backs.
LEMMA DrainKeeps ==
  ASSUME ExecIInv, DrainUpdate \/ DrainTick
  PROVE  ExecIInv'
  <1>1. UNCHANGED <<pipe, walk, done, node, tries, st, outs, serr, ctx, levelErr, firstErr,
                    preCancelled, result>>
    BY DEF DrainUpdate, DrainTick
  <1>2. /\ ExecTypeOK /\ node \in [Stage -> NodePoint]
        /\ chan \in Seq(Stage \X (Terminal \cup {"running"})) /\ Len(chan) \in Nat /\ Len(chan) <= ChanCap
        /\ unflushed \in 0..Batch /\ execFaults \in 0..MaxExecFaults
        /\ ctx \in {"live", "cancelled", "deadline"}
        /\ db \in [Stage -> Terminal \cup {"pending", "running"}]
        /\ st \in [Stage -> Terminal \cup {"pending", "running"}]
    BY DEF ExecIInv, ExecTypeOK
  <1>3. /\ db' \in {db, st}
        /\ execFaults' \in 0..MaxExecFaults /\ (execFaults' = 0 => execFaults = 0)
        /\ unflushed' \in 0..Batch
    BY <1>2, GraphAssumption DEF DrainUpdate, DrainTick, Flush, ExecFault
  <1>4. Flush /\ execFaults' = 0 /\ ctx = "live" => db' = st
    BY <1>2, GraphAssumption DEF Flush, ExecFault
  <1>5. CASE DrainTick
    <2>1. chan' = chan /\ Flush
      BY <1>5 DEF DrainTick
    <2>2. ExecTypeOK'
      BY <1>1, <1>2, <1>3, <2>1 DEF ExecTypeOK
    <2>3. Reported'
      BY <1>1, <1>4, <2>1 DEF Reported
    <2>4. QED
      BY <1>1, <1>2, <2>2, <2>3, StagedKept, ValidStable
         DEF ExecIInv, Levelled, Placed, Settled, Quiet, Validated, Ready, Sources,
             Judged, ErrorsKept, CancelTrue, AllDone, Verdict
  <1>6. CASE DrainUpdate
    <2>1. /\ chan # <<>> /\ chan' = Tail(chan)
          /\ Head(chan)[2] \in Terminal => Flush
          /\ db' = db \/ Flush
      BY <1>6 DEF DrainUpdate, Eager, Terminal
    <2>2. /\ chan' \in Seq(Stage \X (Terminal \cup {"running"}))
          /\ Len(chan') = Len(chan) - 1 /\ Len(chan') <= ChanCap
          /\ \A i \in 1..Len(chan') : chan'[i] = chan[i + 1]
      BY <1>2, <2>1, GraphAssumption
    <2>3. ExecTypeOK'
      BY <1>1, <1>2, <1>3, <2>2 DEF ExecTypeOK
    <2>4. Reported'
      <3>1. SUFFICES ASSUME execFaults' = 0, ctx = "live", NEW t \in Stage, node[t] = "ended"
                     PROVE  \/ db'[t] = st[t]
                            \/ \E i \in 1..Len(chan') : chan'[i][1] = t /\ chan'[i][2] \in Terminal
        BY <1>1 DEF Reported
      <3>2. CASE Flush
        BY <1>4, <3>1, <3>2
      <3>3. CASE ~Flush
        <4>1. \/ db[t] = st[t]
              \/ \E i \in 1..Len(chan) : chan[i][1] = t /\ chan[i][2] \in Terminal
          BY <1>3, <3>1 DEF ExecIInv, Reported
        <4>2. CASE db[t] = st[t]
          BY <2>1, <3>3, <4>2
        <4>3. ASSUME NEW i \in 1..Len(chan), chan[i][1] = t, chan[i][2] \in Terminal
              PROVE  \E j \in 1..Len(chan') : chan'[j][1] = t /\ chan'[j][2] \in Terminal
          <5>1. i # 1
            BY <1>2, <2>1, <3>3, <4>3
          <5>2. i - 1 \in 1..Len(chan') /\ chan'[i - 1] = chan[i]
            BY <1>2, <2>2, <5>1
          <5>3. QED
            BY <4>3, <5>2
        <4>4. QED
          BY <4>1, <4>2, <4>3
      <3>4. QED
        BY <3>2, <3>3
    <2>5. QED
      BY <1>1, <1>2, <2>3, <2>4, StagedKept, ValidStable
         DEF ExecIInv, Levelled, Placed, Settled, Quiet, Validated, Ready, Sources,
             Judged, ErrorsKept, CancelTrue, AllDone, Verdict
  <1>7. QED
    BY <1>5, <1>6

\* Execute joins the drain goroutine, finalizes, or its context ends.
LEMMA WalkKeeps ==
  ASSUME ExecIInv, DrainClose \/ Finalize \/ (\E how \in {"cancelled", "deadline"} : EndContext(how))
  PROVE  ExecIInv'
  <1>1. /\ UNCHANGED <<pipe, done, node, tries, st, db, outs, serr, chan, unflushed, levelErr,
                       firstErr, preCancelled, execFaults>>
        /\ ctx' = ctx \/ (ctx = "live" /\ ctx' \in {"cancelled", "deadline"})
    BY DEF DrainClose, Finalize, EndContext
  <1>2. /\ ExecTypeOK /\ pipe \in Pipelines /\ node \in [Stage -> NodePoint] /\ firstErr \in ErrClass
    BY DEF ExecIInv, ExecTypeOK
  <1>3. /\ walk' = walk \/ (walk = "drain" /\ walk' = "finalize") \/ (walk = "finalize" /\ walk' = "over")
        /\ walk' = "over" => walk = "finalize"
    BY DEF DrainClose, Finalize, EndContext
  <1>4. /\ result' \in {"pending", "running", "success", "failed", "cancelled"}
        /\ walk' = "over" => /\ result' = "success" => firstErr = "none"
                             /\ result' = "cancelled" => preCancelled \/ firstErr = "cancel"
    <2>1. CASE ~Finalize
      BY <1>2, <1>3, <2>1 DEF DrainClose, EndContext, ExecTypeOK
    <2>2. CASE Finalize
      <3>1. firstErr = "none" \/ firstErr = "cancel" \/ firstErr = "error"
        BY <1>2 DEF ErrClass
      <3>2. result' = IF preCancelled THEN "cancelled"
                      ELSE CASE firstErr = "none"   -> "success"
                             [] firstErr = "cancel" -> "cancelled"
                             [] firstErr = "error"  -> "failed"
        BY <2>2 DEF Finalize
      <3>3. CASE preCancelled
        BY <3>2, <3>3
      <3>4. CASE ~preCancelled
        <4>1. CASE firstErr = "none"
          BY <3>2, <3>4, <4>1
        <4>2. CASE firstErr = "cancel"
          BY <3>2, <3>4, <4>2
        <4>3. CASE firstErr = "error"
          BY <3>2, <3>4, <4>3
        <4>4. QED
          BY <3>1, <4>1, <4>2, <4>3
      <3>5. QED
        BY <3>3, <3>4
    <2>3. QED
      BY <2>1, <2>2
  <1>5. ExecTypeOK'
    BY <1>1, <1>2, <1>3, <1>4 DEF ExecTypeOK
  <1>6. Levelled'
    BY <1>1, <1>3, ValidStable
       DEF ExecIInv, Levelled, Placed, Settled, Quiet, Validated, Ready, Sources
  <1>7. Staged'
    BY <1>1, <1>2, StagedKept DEF ExecIInv
  <1>8. Reported'
    BY <1>1 DEF ExecIInv, Reported
  <1>9. Judged'
    BY <1>1, <1>3, <1>4 DEF ExecIInv, Judged, ErrorsKept, CancelTrue, AllDone, Verdict
  <1>10. QED
    BY <1>5, <1>6, <1>7, <1>8, <1>9 DEF ExecIInv

LEMMA ExecUnchanged ==
  ASSUME ExecIInv, UNCHANGED execVars
  PROVE  ExecIInv'
  <1>1. UNCHANGED <<pipe, walk, done, node, tries, st, db, outs, serr, chan, unflushed, ctx,
                    levelErr, firstErr, preCancelled, result, execFaults>>
    BY DEF execVars
  <1>2. ExecTypeOK' /\ node \in [Stage -> NodePoint]
    BY <1>1 DEF ExecIInv, ExecTypeOK
  <1>3. QED
    BY <1>1, <1>2, StagedKept, ValidStable
       DEF ExecIInv, Levelled, Placed, Settled, Quiet, Validated, Ready, Sources, Reported,
           Judged, ErrorsKept, CancelTrue, AllDone, Verdict

LEMMA ExecInitially == ExecInit => ExecIInv
  <1>1. SUFFICES ASSUME ExecInit
                 PROVE  ExecIInv
    OBVIOUS
  <1>2. ExecTypeOK
    BY <1>1, GraphAssumption DEF ExecInit, ExecTypeOK, NodePoint, ErrClass
  <1>3. Levelled
    BY <1>1 DEF ExecInit, Levelled, Placed, Settled, Quiet, Validated
  <1>4. Staged
    BY <1>1 DEF ExecInit, Staged, StatusKnown, TriesBounded, JoinRespected
  <1>5. Reported /\ Judged
    BY <1>1 DEF ExecInit, Reported, Judged, ErrorsKept, CancelTrue, AllDone, Verdict
  <1>6. QED
    BY <1>2, <1>3, <1>4, <1>5 DEF ExecIInv

LEMMA ExecStep ==
  ASSUME ExecIInv, [ExecNext]_<<execVars, gateVars>>
  PROVE  ExecIInv'
  <1>1. CASE UNCHANGED <<execVars, gateVars>>
    BY <1>1, ExecUnchanged
  <1>2. CASE GateNext /\ UNCHANGED execVars
    BY <1>2, ExecUnchanged
  <1>3. ASSUME NEW s \in Stage, NodeStep(s) \/ Panic(s)
        PROVE  ExecIInv'
    BY <1>3, TaskSteps, StageMovesOn, EnterKeeps, EndKeeps DEF NodeStep
  <1>4. CASE Execute \/ NextLevel \/ DrainStep \/ Finalize
    BY <1>4, ExecuteKeeps, NextLevelKeeps, DrainKeeps, WalkKeeps DEF DrainStep
  <1>5. CASE \E how \in {"cancelled", "deadline"} : EndContext(how)
    BY <1>5, WalkKeeps
  <1>6. QED
    BY <1>1, <1>2, <1>3, <1>4, <1>5 DEF ExecNext

\* What an error of the walk can be put down to.
Refused == ~(ValidPipeline /\ \A s \in Stage : pipe.kind[s] # "review")
Cause == (\E s \in Stage : serr[s] = "error") \/ ctx = "deadline" \/ Refused

Blamed ==
  /\ levelErr = "error" \/ firstErr = "error" => Cause
  /\ walk = "over" /\ result = "failed" => firstErr = "error"
  /\ walk = "start" => result = "pending"
  /\ walk \in {"level", "drain"} => result = "running" /\ ~Refused
  /\ walk = "finalize" /\ result = "pending" => Refused

LEMMA RefusedStable ==
  ASSUME UNCHANGED pipe
  PROVE  Refused' = Refused
  BY ValidStable DEF Refused

\* A cause does not go away: the error of a stage is set once, an ended context
\* stays ended, and the pipeline is what it was.
LEMMA CauseStays ==
  ASSUME ExecIInv, ExecNext, Cause
  PROVE  Cause'
  <1>1. /\ pipe' = pipe
        /\ ctx' = ctx \/ ctx = "live"
    BY DEF ExecNext, NodeStep, DrainStep, Execute, NextLevel, DrainUpdate, DrainTick, DrainClose, Finalize,
           EndContext, Enter, GiveUp, Skip, StartStage, AttemptSucceeds, executeBuild, executePush, executeDeploy,
           executeCloudDeploy, executeGitOpsCommit, executeTest, executeCustom, Returns, AttemptFails, BackoffEnds,
           AwaitApproval, PollGate, StageTimeout, Leave, Panic, execVars
  <1>2. ASSUME NEW t \in Stage, serr[t] = "error"
        PROVE  serr'[t] = "error"
    <2>1. \/ serr' = serr
          \/ \E s \in Stage : /\ node[s] \in {"entered", "attempt", "awaiting", "backoff"}
                              /\ \E c : serr' = [serr EXCEPT ![s] = c]
      BY DEF ExecNext, NodeStep, DrainStep, Execute, NextLevel, DrainUpdate, DrainTick, DrainClose, Finalize,
             EndContext, Enter, GiveUp, Skip, StartStage, AttemptSucceeds, executeBuild, executePush, executeDeploy,
             executeCloudDeploy, executeGitOpsCommit, executeTest, executeCustom, Returns, AttemptFails,
             BackoffEnds, AwaitApproval, PollGate, StageTimeout, Leave, Panic, execVars, EndStage
    <2>2. \A s \in Stage : node[s] \in {"entered", "attempt", "awaiting", "backoff"} => serr[s] = "none"
      BY DEF ExecIInv, Staged, StatusKnown
    <2>3. serr \in [Stage -> ErrClass]
      BY DEF ExecIInv, ExecTypeOK
    <2>4. QED
      BY <1>2, <2>1, <2>2, <2>3
  <1>3. QED
    BY <1>1, <1>2, RefusedStable DEF Cause

LEMMA BlameStep ==
  ASSUME ExecIInv, Blamed, [ExecNext]_<<execVars, gateVars>>
  PROVE  Blamed'
  <1>1. CASE UNCHANGED execVars
    BY <1>1, RefusedStable DEF execVars, Blamed, Cause
  <1>2. ctx \in {"live", "cancelled", "deadline"} /\ (ctx # "live" /\ CtxError = "error" => ctx = "deadline")
    BY DEF ExecIInv, ExecTypeOK, CtxError
  <1>3. ASSUME ExecNext, UNCHANGED <<pipe, walk, result, firstErr>>,
               levelErr' = "error" => levelErr = "error" \/ Cause
        PROVE  Blamed'
    BY <1>3, CauseStays, RefusedStable DEF Blamed
  <1>4. ASSUME NEW s \in Stage, NodeStep(s) \/ Panic(s)
        PROVE  Blamed'
    <2>1. CASE Leave(s) \/ GiveUp(s)
      <3>1. /\ UNCHANGED <<pipe, walk, result, firstErr>>
            /\ levelErr' \in {levelErr, serr[s]} \/ (levelErr' \in {levelErr, CtxError} /\ ctx # "live")
        BY <2>1 DEF Leave, GiveUp, Fail
      <3>2. QED
        BY <1>2, <1>3, <1>4, <3>1 DEF Cause, ExecNext
    <2>2. CASE ~(Leave(s) \/ GiveUp(s))
      <3>1. UNCHANGED <<pipe, walk, result, firstErr, levelErr>>
        BY <1>4, <2>2
           DEF NodeStep, Enter, Skip, StartStage, AttemptSucceeds, executeBuild, executePush, executeDeploy,
               executeCloudDeploy, executeGitOpsCommit, executeTest, executeCustom, Returns, AttemptFails,
               BackoffEnds, AwaitApproval, PollGate, StageTimeout, Panic
      <3>2. QED
        BY <1>3, <1>4, <3>1 DEF ExecNext
    <2>3. QED
      BY <2>1, <2>2
  <1>5. CASE DrainUpdate \/ DrainTick \/ \E how \in {"cancelled", "deadline"} : EndContext(how)
    <2>1. UNCHANGED <<pipe, walk, result, firstErr, levelErr>>
      BY <1>5 DEF DrainUpdate, DrainTick, EndContext
    <2>2. QED
      BY <1>3, <1>5, <2>1 DEF ExecNext, DrainStep
  <1>6. CASE Execute
    <2>1. /\ UNCHANGED <<pipe, ctx, serr, levelErr>> /\ walk = "start"
          /\ firstErr' = "error" => Cause
          /\ walk' \in {"level", "drain"} => result' = "running" /\ ~Refused
          /\ walk' = "finalize" => result' = result /\ Refused
          /\ walk' \in {"level", "drain", "finalize"}
      BY <1>2, <1>6 DEF Execute, Refused, Cause
    <2>2. levelErr # "error"
      BY <2>1 DEF ExecIInv, Levelled, Quiet
    <2>3. QED
      BY <1>6, <2>1, <2>2, CauseStays, RefusedStable DEF Blamed, ExecNext
  <1>7. CASE NextLevel
    <2>1. /\ UNCHANGED <<pipe, ctx, serr, result>> /\ walk = "level" /\ levelErr' = "none"
          /\ walk' \in {"level", "drain"}
          /\ firstErr' \in {firstErr, levelErr} \/ (firstErr' = CtxError /\ ctx # "live")
      BY <1>7 DEF NextLevel
    <2>2. QED
      BY <1>2, <1>7, <2>1, CauseStays, RefusedStable DEF Blamed, ExecNext, Cause
  <1>8. CASE DrainClose
    <2>1. UNCHANGED <<pipe, ctx, serr, result, firstErr, levelErr>> /\ walk = "drain" /\ walk' = "finalize"
      BY <1>8 DEF DrainClose
    <2>2. QED
      BY <2>1, RefusedStable DEF Blamed, Cause
  <1>9. CASE Finalize
    <2>1. UNCHANGED <<pipe, ctx, serr, firstErr, levelErr>> /\ walk' = "over"
      BY <1>9 DEF Finalize
    <2>2. firstErr \in {"none", "error", "cancel"}
      BY DEF ExecIInv, ExecTypeOK, ErrClass
    <2>3. result' = "failed" => firstErr = "error"
      <3>1. result' = IF preCancelled THEN "cancelled"
                      ELSE CASE firstErr = "none"   -> "success"
                             [] firstErr = "cancel" -> "cancelled"
                             [] firstErr = "error"  -> "failed"
        BY <1>9 DEF Finalize
      <3>2. firstErr = "none" => result' \in {"cancelled", "success"}
        BY <3>1
      <3>3. firstErr = "cancel" => result' = "cancelled"
        BY <3>1
      <3>4. QED
        BY <2>2, <3>2, <3>3
    <2>4. QED
      BY <2>1, <2>3, RefusedStable DEF Blamed, Cause
  <1>10. QED
    BY <1>1, <1>4, <1>5, <1>6, <1>7, <1>8, <1>9 DEF ExecNext, DrainStep

LEMMA BlameInitially == ExecInit => Blamed
  BY DEF ExecInit, Blamed

LEMMA ExecFollows == ExecIInv /\ Blamed => ExecuteInv
  <1>1. SUFFICES ASSUME ExecIInv, Blamed
                 PROVE  ExecuteInv
    OBVIOUS
  <1>2. /\ ExecTypeOK /\ pipe \in Pipelines /\ done \subseteq Stage
        /\ chan \in Seq(Stage \X (Terminal \cup {"running"}))
    BY <1>1 DEF ExecIInv, ExecTypeOK
  <1>3. AncestorsSettled
    <2>1. ASSUME NEW s \in InFlight
          PROVE  ancestorsOf(s) \subseteq done
      <3>1. s \in Stage /\ node[s] # "idle"
        BY DEF InFlight, InTask
      <3>2. Sources(s) \subseteq done
        BY <1>1, <3>1 DEF ExecIInv, Levelled, Placed
      <3>3. \A x \in done : Sources(x) \subseteq done
        BY <1>1, <1>2 DEF ExecIInv, Levelled, Placed, Settled
      <3>4. QED
        BY <1>2, <3>1, <3>2, <3>3, AncestorsWithin
    <2>2. QED
      BY <1>1, <2>1 DEF AncestorsSettled, ExecIInv, Levelled, Settled
  <1>4. CyclesRefused
    BY <1>1, <1>2, ValidIsExecutable DEF CyclesRefused, Blamed, Refused
  <1>5. ProgressPersisted
    <2>1. SUFFICES ASSUME execFaults = 0, ctx = "live", NEW s \in Stage, node[s] = "ended",
                          \A i \in DOMAIN chan : chan[i][1] # s
                   PROVE  db[s] = st[s]
      BY DEF ProgressPersisted
    <2>2. DOMAIN chan = 1..Len(chan)
      BY <1>2
    <2>3. QED
      BY <1>1, <2>1, <2>2 DEF ExecIInv, Reported
  <1>6. ResultHonest
    <2>1. SUFFICES ASSUME walk = "over"
                   PROVE  /\ result = "success" => \A s \in Stage : st[s] \in {"success", "skipped"}
                          /\ result = "cancelled" => preCancelled \/ ctx = "cancelled"
                          /\ (\E s \in Stage : serr[s] # "none") => result # "success"
                          /\ result = "failed" => Cause
      BY <1>2, ValidIsExecutable DEF ResultHonest, Cause, Refused
    <2>2. levelErr = "none"
      BY <1>1, <2>1 DEF ExecIInv, Levelled, Quiet
    <2>3. ASSUME result = "success", NEW s \in Stage
          PROVE  st[s] \in {"success", "skipped"} /\ serr[s] = "none"
      <3>1. firstErr = "none"
        BY <1>1, <2>1, <2>3 DEF ExecIInv, Judged, Verdict
      <3>2. done = Stage
        BY <1>1, <2>1, <3>1 DEF ExecIInv, Judged, AllDone
      <3>3. node[s] = "ended"
        BY <1>1, <3>2 DEF ExecIInv, Levelled, Settled
      <3>4. QED
        BY <1>1, <2>2, <3>1, <3>3 DEF ExecIInv, Judged, ErrorsKept
    <2>4. result = "cancelled" => preCancelled \/ ctx = "cancelled"
      BY <1>1, <2>1 DEF ExecIInv, Judged, Verdict, CancelTrue
    <2>5. result = "failed" => Cause
      BY <1>1, <2>1 DEF Blamed
    <2>6. QED
      BY <2>3, <2>4, <2>5
  <1>7. QED
    BY <1>1, <1>2, <1>3, <1>4, <1>5, <1>6 DEF ExecuteInv, ExecIInv, Staged

\* For every pipeline: stages run after all they depend on and as their edges
\* allow, a pipeline is walked exactly when it has no cycle, no dangling reference
\* and no review stage, what was reported is in the run row, and the result of
\* Execute tells what its stages did and why a run failed.
THEOREM ExecuteInvariant == ExecSpec => []ExecuteInv
  <1>1. ExecInit => ExecIInv /\ Blamed
    BY ExecInitially, BlameInitially
  <1>2. ExecIInv /\ Blamed /\ [ExecNext]_<<execVars, gateVars>> => (ExecIInv /\ Blamed)'
    BY ExecStep, BlameStep
  <1>3. QED
    BY <1>1, <1>2, ExecFollows, PTL DEF ExecSpec

-----------------------------------------------------------------------------
(* Environments and promotions *)

\* A write that would hit the row carries the secrets the row has now, changed
\* by its own key only.
EditsFresh ==
  \A r \in EnvRequest : edit[r].at = "write" =>
      /\ edit[r].base <= env.version
      /\ edit[r].op \in {"edit", "put", "delete"}
      /\ env.exists /\ edit[r].base = env.version =>
           /\ edit[r].op = "edit" => edit[r].secrets = env.secrets
           /\ edit[r].op = "put" => edit[r].secrets = env.secrets \cup {edit[r].key}
           /\ edit[r].op = "delete" => edit[r].secrets = env.secrets \ {edit[r].key}

\* A count is backed by approvals, and nobody approves what was not promoted.
SumBacked ==
  \A k \in ApproveRequest :
      /\ say[k] # "idle" => promo.status # "absent"
      /\ say[k] \in {"reload", "advance"} => sum[k] <= Cardinality(appr)
      /\ say[k] = "counted" => sum[k] <= Cardinality(appr \cup {ApproverOf[k]})
      /\ say[k] = "advance" => promo.status # "deployed" /\ promo.required <= sum[k]

PromoSound ==
  /\ promo.status \in {"awaiting_approval", "approved"} => promo.strategy = "manual" /\ promo.required >= 1
  /\ promo.status = "deployed" <=> promo.strategy = "auto"
  /\ promo.status = "approved" => promo.required <= Cardinality(appr)

PromoIInv == PromotionTypeOK /\ EditsFresh /\ SecretsKept /\ SumBacked /\ PromoSound

\* The subjects that may approve.
Approving == {ApproverOf[k] : k \in ApproveRequest}

LEMMA ApprovingFinite ==
  /\ IsFiniteSet(Approving) /\ Cardinality(Approving) \in Nat /\ Cardinality(ApproveRequest) \in Nat
  /\ Cardinality(Approving) <= Cardinality(ApproveRequest)
  <1> DEFINE f == [k \in ApproveRequest |-> ApproverOf[k]]
  <1>1. f \in Surjection(ApproveRequest, Approving)
    BY DEF Surjection, Approving
  <1>2. IsFiniteSet(ApproveRequest)
    BY PromotionAssumption
  <1>3. IsFiniteSet(Approving) /\ Cardinality(Approving) <= Cardinality(ApproveRequest)
    BY <1>1, <1>2, FS_Surjection
  <1>4. QED
    BY <1>2, <1>3, FS_CardinalityType

\* Approvals are counted among finitely many subjects, and one more never makes
\* them fewer.
LEMMA ApprovalCount ==
  ASSUME NEW A, A \subseteq Approving, NEW s \in Approving
  PROVE  /\ A \cup {s} \subseteq Approving
         /\ Cardinality(A) \in 0..Cardinality(ApproveRequest)
         /\ Cardinality(A \cup {s}) \in 0..Cardinality(ApproveRequest)
         /\ Cardinality(A) <= Cardinality(A \cup {s})
  <1>1. A \cup {s} \subseteq Approving /\ A \subseteq A \cup {s}
    OBVIOUS
  <1>2. IsFiniteSet(A) /\ IsFiniteSet(A \cup {s})
    BY <1>1, ApprovingFinite, FS_Subset
  <1>3. Cardinality(A) \in Nat /\ Cardinality(A \cup {s}) \in Nat
    BY <1>2, FS_CardinalityType
  <1>4. /\ Cardinality(A) <= Cardinality(Approving) /\ Cardinality(A \cup {s}) <= Cardinality(Approving)
        /\ Cardinality(A) <= Cardinality(A \cup {s})
    BY <1>1, <1>2, ApprovingFinite, FS_Subset
  <1>5. QED
    BY <1>1, <1>3, <1>4, ApprovingFinite

LEMMA PromotionsInitially == PromotionInit => PromoIInv
  <1>1. SUFFICES ASSUME PromotionInit
                 PROVE  PromoIInv
    OBVIOUS
  <1>2. (CHOOSE p \in Policy : TRUE) \in Policy /\ (CHOOSE k \in SecretKey : TRUE) \in SecretKey
    BY PromotionAssumption
  <1>3. 0 \in 0..Cardinality(ApproveRequest)
    BY ApprovingFinite
  <1>4. PromotionTypeOK
    <2>1. env \in EnvRow /\ promo \in PromoRow
      BY <1>1, <1>2 DEF PromotionInit, EnvRow, PromoRow
    <2>2. edit \in [EnvRequest -> [at : {"idle", "write", "done"}, op : EditOp,
                                   base : Nat, secrets : SUBSET SecretKey, key : SecretKey]]
      BY <1>1, <1>2 DEF PromotionInit, EditOp
    <2>3. ask \in [PromoteRequest -> [at : {"idle", "check", "create", "done"}, policy : Policy]]
      BY <1>1, <1>2 DEF PromotionInit
    <2>4. QED
      BY <1>1, <1>3, <2>1, <2>2, <2>3 DEF PromotionInit, PromotionTypeOK
  <1>5. EditsFresh /\ SecretsKept
    BY <1>1 DEF PromotionInit, EditsFresh, SecretsKept
  <1>6. SumBacked /\ PromoSound
    BY <1>1 DEF PromotionInit, SumBacked, PromoSound
  <1>7. QED
    BY <1>4, <1>5, <1>6 DEF PromoIInv

EditType == [at : {"idle", "write", "done"}, op : EditOp, base : Nat, secrets : SUBSET SecretKey, key : SecretKey]

LEMMA EditKey == \A e \in EditType : e.key \in SecretKey
  BY DEF EditType

LEMMA EditReads ==
  ASSUME NEW d \in EditType, NEW v, NEW s
  PROVE  [d EXCEPT !.at = "write", !.op = "edit", !.base = v, !.secrets = s]
           = [at |-> "write", op |-> "edit", base |-> v, secrets |-> s, key |-> d.key]
  <1> DEFINE f == [d EXCEPT !.at = "write", !.op = "edit", !.base = v, !.secrets = s]
  <1>1. f \in [at : {"write"}, op : {"edit"}, base : {v}, secrets : {s}, key : {d.key}]
    BY DEF EditType
  <1> HIDE DEF f
  <1>2. f = [at |-> "write", op |-> "edit", base |-> v, secrets |-> s, key |-> d.key]
    BY <1>1
  <1>3. QED
    BY <1>2 DEF f

\* A request reads the environment's row.
LEMMA EnvironmentRead ==
  ASSUME PromoIInv, NEW r \in EnvRequest,
         UpdateEnvironment(r) \/ \E key \in SecretKey : PutSecret(r, key) \/ DeleteSecret(r, key)
  PROVE  PromoIInv'
  <1>1. env.exists /\ UNCHANGED <<promoStore, env, kept, promo, ask, appr, say, sum>>
    BY DEF UpdateEnvironment, PutSecret, DeleteSecret
  <1>2. /\ PromotionTypeOK /\ env \in EnvRow /\ edit \in [EnvRequest -> EditType] /\ edit[r] \in EditType
        /\ env.version \in Nat /\ env.secrets \in SUBSET SecretKey
    BY DEF PromoIInv, PromotionTypeOK, EditType, EnvRow
  <1>3. PICK e \in EditType :
          /\ edit' = [edit EXCEPT ![r] = e] /\ e.at = "write" /\ e.base <= env.version
          /\ \/ e.op = "edit" /\ e.secrets = env.secrets
             \/ e.op = "put" /\ e.secrets = env.secrets \cup {e.key}
             \/ e.op = "delete" /\ e.secrets = env.secrets \ {e.key}
    <2>1. CASE UpdateEnvironment(r)
      <3>1. PICK v \in 0..env.version :
              edit' = [edit EXCEPT ![r] = [edit[r] EXCEPT !.at = "write", !.op = "edit", !.base = v,
                                                          !.secrets = env.secrets]]
        BY <2>1 DEF UpdateEnvironment
      <3> DEFINE e == [edit[r] EXCEPT !.at = "write", !.op = "edit", !.base = v, !.secrets = env.secrets]
      <3>2. e \in EditType /\ e.at = "write" /\ e.base = v /\ e.op = "edit" /\ e.secrets = env.secrets
        <4>1. v \in Nat
          BY <1>2
        <4>2. edit[r].key \in SecretKey
          BY <1>2, EditKey
        <4>3. e = [at |-> "write", op |-> "edit", base |-> v, secrets |-> env.secrets, key |-> edit[r].key]
          BY <1>2, EditReads
        <4> HIDE DEF e
        <4>4. QED
          BY <1>2, <4>1, <4>2, <4>3 DEF EditType, EditOp
      <3>3. v <= env.version
        BY <1>2, <3>1
      <3>4. QED
        BY <3>1, <3>2, <3>3
    <2>2. ASSUME NEW key \in SecretKey, PutSecret(r, key)
          PROVE  \E e \in EditType :
                   /\ edit' = [edit EXCEPT ![r] = e] /\ e.at = "write" /\ e.base <= env.version
                   /\ \/ e.op = "edit" /\ e.secrets = env.secrets
                      \/ e.op = "put" /\ e.secrets = env.secrets \cup {e.key}
                      \/ e.op = "delete" /\ e.secrets = env.secrets \ {e.key}
      <3> DEFINE e == [at |-> "write", op |-> "put", base |-> env.version,
                       secrets |-> env.secrets \cup {key}, key |-> key]
      <3>1. e \in EditType /\ e.base <= env.version
        BY <1>2 DEF EditType, EditOp
      <3>2. QED
        BY <2>2, <3>1 DEF PutSecret
    <2>3. ASSUME NEW key \in SecretKey, DeleteSecret(r, key)
          PROVE  \E e \in EditType :
                   /\ edit' = [edit EXCEPT ![r] = e] /\ e.at = "write" /\ e.base <= env.version
                   /\ \/ e.op = "edit" /\ e.secrets = env.secrets
                      \/ e.op = "put" /\ e.secrets = env.secrets \cup {e.key}
                      \/ e.op = "delete" /\ e.secrets = env.secrets \ {e.key}
      <3> DEFINE e == [at |-> "write", op |-> "delete", base |-> env.version,
                       secrets |-> env.secrets \ {key}, key |-> key]
      <3>1. e \in EditType /\ e.base <= env.version
        BY <1>2 DEF EditType, EditOp
      <3>2. QED
        BY <2>3, <3>1 DEF DeleteSecret
    <2>4. QED
      BY <2>1, <2>2, <2>3
  <1>4. PromotionTypeOK'
    <2>1. edit' \in [EnvRequest -> EditType]
      BY <1>2, <1>3
    <2>2. QED
      BY <1>1, <1>2, <2>1 DEF PromotionTypeOK, EditType
  <1>5. EditsFresh'
    <2>1. \A q \in EnvRequest : edit'[q] = IF q = r THEN e ELSE edit[q]
      BY <1>2, <1>3
    <2>2. QED
      BY <1>1, <1>3, <2>1 DEF PromoIInv, EditsFresh
  <1>6. SecretsKept' /\ SumBacked' /\ PromoSound'
    BY <1>1 DEF PromoIInv, SecretsKept, SumBacked, PromoSound
  <1>7. QED
    BY <1>4, <1>5, <1>6 DEF PromoIInv

\* The write of a request hits the row it read, or nothing.
LEMMA EnvironmentWrite ==
  ASSUME PromoIInv, NEW r \in EnvRequest, WriteEnvironment(r)
  PROVE  PromoIInv'
  <1> DEFINE e == edit[r]
  <1>1. /\ e.at = "write" /\ edit' = [edit EXCEPT ![r].at = "done"]
        /\ UNCHANGED <<promoStore, promo, ask, appr, say, sum>>
    BY DEF WriteEnvironment
  <1>2. /\ PromotionTypeOK /\ env \in EnvRow /\ edit \in [EnvRequest -> EditType] /\ e \in EditType
        /\ env.version \in Nat /\ env.secrets \in SUBSET SecretKey /\ kept \subseteq SecretKey
        /\ env.policy \in Policy /\ e.key \in SecretKey /\ e.secrets \subseteq SecretKey
    BY DEF PromoIInv, PromotionTypeOK, EditType, EnvRow
  <1>3. /\ e.base <= env.version /\ e.op \in {"edit", "put", "delete"}
        /\ env.exists /\ e.base = env.version =>
             /\ e.op = "edit" => e.secrets = env.secrets
             /\ e.op = "put" => e.secrets = env.secrets \cup {e.key}
             /\ e.op = "delete" => e.secrets = env.secrets \ {e.key}
    BY <1>1 DEF PromoIInv, EditsFresh
  <1>4. /\ \A q \in EnvRequest \ {r} : edit'[q] = edit[q]
        /\ edit'[r].at = "done" /\ edit' \in [EnvRequest -> EditType]
    BY <1>1, <1>2 DEF EditType
  <1>5. SumBacked' /\ PromoSound'
    BY <1>1 DEF PromoIInv, SumBacked, PromoSound
  <1>6. CASE VersionMatches(r)
    <2>1. env.exists /\ e.base = env.version
      BY <1>6 DEF VersionMatches
    <2>2. PICK pol \in Policy : env' = [exists |-> TRUE, version |-> env.version + 1,
                                        policy |-> pol, secrets |-> e.secrets]
      BY <1>6 DEF WriteEnvironment
    <2>3. kept' \subseteq e.secrets /\ kept' \subseteq SecretKey
      <3>1. kept \subseteq env.secrets
        BY <2>1 DEF PromoIInv, SecretsKept
      <3>2. kept' = CASE e.op = "put"    -> kept \cup {e.key}
                      [] e.op = "delete" -> kept \ {e.key}
                      [] e.op = "edit"   -> kept
        BY <1>6 DEF WriteEnvironment
      <3> HIDE DEF e
      <3>3. CASE e.op = "put"
        <4>1. kept' = kept \cup {e.key}
          BY <3>2, <3>3
        <4>2. QED
          BY <1>2, <1>3, <2>1, <3>1, <3>3, <4>1
      <3>4. CASE e.op = "delete"
        <4>1. kept' = kept \ {e.key}
          BY <3>2, <3>4
        <4>2. QED
          BY <1>2, <1>3, <2>1, <3>1, <3>4, <4>1
      <3>5. CASE e.op = "edit"
        <4>1. kept' = kept
          BY <3>2, <3>5
        <4>2. QED
          BY <1>2, <1>3, <2>1, <3>1, <3>5, <4>1
      <3>6. QED
        BY <1>3, <3>3, <3>4, <3>5
    <2>4. PromotionTypeOK'
      <3>1. env' \in EnvRow
        BY <1>2, <2>2 DEF EnvRow
      <3>2. QED
        BY <1>1, <1>2, <1>4, <2>3, <3>1 DEF PromotionTypeOK, EditType
    <2>5. SecretsKept'
      BY <2>2, <2>3 DEF SecretsKept
    <2>6. EditsFresh'
      <3>1. ASSUME NEW q \in EnvRequest, edit'[q].at = "write"
            PROVE  /\ edit'[q].base < env'.version
                   /\ edit'[q].op \in {"edit", "put", "delete"}
                   /\ edit'[q].base \in Nat
        <4>1. q # r /\ edit'[q] = edit[q]
          BY <1>4, <3>1
        <4>2. edit[q].base <= env.version /\ edit[q].op \in {"edit", "put", "delete"} /\ edit[q].base \in Nat
          BY <1>2, <3>1, <4>1 DEF PromoIInv, EditsFresh, EditType
        <4>3. env'.version = env.version + 1
          BY <2>2
        <4>4. QED
          BY <1>2, <4>1, <4>2, <4>3
      <3>2. env'.version \in Nat
        BY <1>2, <2>2
      <3>3. QED
        BY <3>1, <3>2 DEF EditsFresh
    <2>7. QED
      BY <1>5, <2>4, <2>5, <2>6 DEF PromoIInv
  <1>7. CASE ~VersionMatches(r)
    <2>1. UNCHANGED <<env, kept>>
      BY <1>7 DEF WriteEnvironment
    <2>2. PromotionTypeOK'
      BY <1>1, <1>2, <1>4, <2>1 DEF PromotionTypeOK, EditType
    <2>3. EditsFresh'
      BY <1>4, <2>1 DEF PromoIInv, EditsFresh
    <2>4. SecretsKept'
      BY <2>1 DEF PromoIInv, SecretsKept
    <2>5. QED
      BY <1>5, <2>2, <2>3, <2>4 DEF PromoIInv
  <1>8. QED
    BY <1>6, <1>7

\* The environment is deleted.
LEMMA EnvironmentGone ==
  ASSUME PromoIInv, DeleteEnvironment
  PROVE  PromoIInv'
  <1>1. /\ env' = [env EXCEPT !.exists = FALSE] /\ kept' = {}
        /\ UNCHANGED <<promoStore, edit, promo, ask, appr, say, sum>>
    BY DEF DeleteEnvironment
  <1>2. PromotionTypeOK /\ env \in EnvRow
    BY DEF PromoIInv, PromotionTypeOK
  <1>3. env' \in EnvRow /\ env'.exists = FALSE /\ env'.version = env.version
    BY <1>1, <1>2 DEF EnvRow
  <1>4. PromotionTypeOK'
    BY <1>1, <1>2, <1>3 DEF PromotionTypeOK
  <1>5. EditsFresh' /\ SecretsKept'
    BY <1>1, <1>3 DEF PromoIInv, EditsFresh, SecretsKept
  <1>6. SumBacked' /\ PromoSound'
    BY <1>1 DEF PromoIInv, SumBacked, PromoSound
  <1>7. QED
    BY <1>4, <1>5, <1>6 DEF PromoIInv

\* A promotion is asked for, found or created.
LEMMA PromotionCreated ==
  ASSUME PromoIInv, NEW r \in PromoteRequest, PromoteRun(r) \/ CheckExisting(r) \/ CreatePromotion(r)
  PROVE  PromoIInv'
  <1>1. UNCHANGED <<promoStore, env, edit, kept, appr, say, sum>>
    BY DEF PromoteRun, CheckExisting, CreatePromotion
  <1>2. /\ PromotionTypeOK /\ env.policy \in Policy /\ promo \in PromoRow
        /\ ask \in [PromoteRequest -> [at : {"idle", "check", "create", "done"}, policy : Policy]]
        /\ ask[r].policy \in Policy
    BY DEF PromoIInv, PromotionTypeOK, EnvRow
  <1>3. ask' \in [PromoteRequest -> [at : {"idle", "check", "create", "done"}, policy : Policy]]
    BY <1>2 DEF PromoteRun, CheckExisting, CreatePromotion
  <1>4. EditsFresh' /\ SecretsKept'
    BY <1>1 DEF PromoIInv, EditsFresh, SecretsKept
  <1>5. CASE promo' = promo
    <2>1. PromotionTypeOK'
      BY <1>1, <1>2, <1>3, <1>5 DEF PromotionTypeOK
    <2>2. SumBacked' /\ PromoSound'
      BY <1>1, <1>5 DEF PromoIInv, SumBacked, PromoSound
    <2>3. QED
      BY <1>4, <2>1, <2>2 DEF PromoIInv
  <1>6. CASE promo' # promo
    <2> DEFINE pol == ask[r].policy
    <2>1. /\ promo.status = "absent"
          /\ promo' = [status   |-> IF pol.strategy = "auto" THEN "deployed" ELSE "awaiting_approval",
                       strategy |-> pol.strategy,
                       required |-> requiredApprovers(pol)]
      BY <1>6 DEF PromoteRun, CheckExisting, CreatePromotion
    <2>2. pol.strategy \in {"auto", "manual"} /\ pol.required \in Int
      BY <1>2, PromotionAssumption
    <2>3. requiredApprovers(pol) \in Nat /\ (pol.strategy = "manual" => requiredApprovers(pol) >= 1)
      BY <2>2 DEF requiredApprovers
    <2> HIDE DEF pol
    <2>4. promo' \in PromoRow
      BY <2>1, <2>2, <2>3 DEF PromoRow
    <2>5. PromotionTypeOK'
      BY <1>1, <1>2, <1>3, <2>4 DEF PromotionTypeOK
    <2>6. \A k \in ApproveRequest : say[k] = "idle"
      BY <2>1 DEF PromoIInv, SumBacked
    <2>7. SumBacked'
      BY <1>1, <2>6 DEF SumBacked
    <2>8. PromoSound'
      BY <2>1, <2>2, <2>3 DEF PromoSound
    <2>9. QED
      BY <1>4, <2>5, <2>7, <2>8 DEF PromoIInv
  <1>7. QED
    BY <1>5, <1>6

SayPoint == {"idle", "insert", "inserted", "counted", "reload", "advance", "done"}

\* The steps of an approval that change its own program point only.
LEMMA ApprovalMoves ==
  ASSUME PromoIInv, NEW k \in ApproveRequest,
         ApprovePromotion(k) \/ AddApprovalInsert(k) \/ ReloadPromotion(k)
  PROVE  PromoIInv'
  <1>1. UNCHANGED <<promoStore, env, edit, kept, promo, ask, appr, sum>>
    BY DEF ApprovePromotion, AddApprovalInsert, ReloadPromotion
  <1>2. /\ PromotionTypeOK /\ say \in [ApproveRequest -> SayPoint]
        /\ sum \in [ApproveRequest -> 0..Cardinality(ApproveRequest)] /\ promo \in PromoRow
    BY DEF PromoIInv, PromotionTypeOK, SayPoint
  <1>3. PICK to \in {"insert", "inserted", "advance", "done"} :
          /\ say' = [say EXCEPT ![k] = to]
          /\ promo.status # "absent"
          /\ to = "advance" => /\ say[k] = "reload" /\ sum[k] >= promo.required
                               /\ promo.status = "awaiting_approval"
    <2>1. say[k] # "idle" => promo.status # "absent"
      BY DEF PromoIInv, SumBacked
    <2>2. CASE ApprovePromotion(k)
      BY <2>2 DEF ApprovePromotion, SayTo
    <2>3. CASE AddApprovalInsert(k)
      BY <2>1, <2>3 DEF AddApprovalInsert, SayTo
    <2>4. CASE ReloadPromotion(k)
      BY <2>1, <2>4 DEF ReloadPromotion
    <2>5. QED
      BY <2>2, <2>3, <2>4
  <1>4. PromotionTypeOK'
    BY <1>1, <1>2, <1>3 DEF PromotionTypeOK, SayPoint
  <1>5. EditsFresh' /\ SecretsKept' /\ PromoSound'
    BY <1>1 DEF PromoIInv, EditsFresh, SecretsKept, PromoSound
  <1>6. SumBacked'
    <2>1. \A j \in ApproveRequest : say'[j] = IF j = k THEN to ELSE say[j]
      BY <1>2, <1>3
    <2>2. sum[k] \in Nat /\ promo.required \in Nat
      BY <1>2, ApprovingFinite DEF PromoRow
    <2>3. to = "advance" => promo.required <= sum[k]
      BY <1>3, <2>2
    <2>4. QED
      BY <1>1, <1>3, <2>1, <2>3 DEF PromoIInv, SumBacked
  <1>7. QED
    BY <1>4, <1>5, <1>6 DEF PromoIInv

\* An approval is counted inside its transaction.
LEMMA ApprovalCounted ==
  ASSUME PromoIInv, NEW k \in ApproveRequest, AddApprovalCount(k)
  PROVE  PromoIInv'
  <1>1. /\ say[k] = "inserted" /\ say' = [say EXCEPT ![k] = "counted"]
        /\ sum' = [sum EXCEPT ![k] = Cardinality(appr \cup {ApproverOf[k]})]
        /\ UNCHANGED <<promoStore, env, edit, kept, promo, ask, appr>>
    BY DEF AddApprovalCount, SayTo
  <1>2. /\ PromotionTypeOK /\ say \in [ApproveRequest -> SayPoint] /\ appr \subseteq Approving
        /\ sum \in [ApproveRequest -> 0..Cardinality(ApproveRequest)]
        /\ ApproverOf[k] \in Approving
    BY DEF PromoIInv, PromotionTypeOK, SayPoint, Approving
  <1>3. Cardinality(appr \cup {ApproverOf[k]}) \in 0..Cardinality(ApproveRequest)
    BY <1>2, ApprovalCount
  <1>4. PromotionTypeOK'
    BY <1>1, <1>2, <1>3 DEF PromotionTypeOK, SayPoint
  <1>5. EditsFresh' /\ SecretsKept' /\ PromoSound'
    BY <1>1 DEF PromoIInv, EditsFresh, SecretsKept, PromoSound
  <1>6. SumBacked'
    BY <1>1, <1>2, <1>3 DEF PromoIInv, SumBacked
  <1>7. QED
    BY <1>4, <1>5, <1>6 DEF PromoIInv

\* An approval is committed, by either store.
LEMMA ApprovalCommitted ==
  ASSUME PromoIInv, NEW k \in ApproveRequest, AddApprovalLocked(k) \/ AddApprovalCommit(k)
  PROVE  PromoIInv'
  <1>1. /\ say[k] \in {"insert", "counted"} /\ say' = [say EXCEPT ![k] = "reload"]
        /\ appr' = appr \cup {ApproverOf[k]}
        /\ UNCHANGED <<promoStore, env, edit, kept, promo, ask>>
    BY DEF AddApprovalLocked, AddApprovalCommit, SayTo
  <1>2. /\ PromotionTypeOK /\ say \in [ApproveRequest -> SayPoint] /\ appr \subseteq Approving
        /\ sum \in [ApproveRequest -> 0..Cardinality(ApproveRequest)] /\ promo \in PromoRow
        /\ \A j \in ApproveRequest : ApproverOf[j] \in Approving
    BY DEF PromoIInv, PromotionTypeOK, SayPoint, Approving
  <1>3. /\ appr' \subseteq Approving
        /\ Cardinality(appr) \in 0..Cardinality(ApproveRequest)
        /\ Cardinality(appr') \in 0..Cardinality(ApproveRequest)
        /\ Cardinality(appr) <= Cardinality(appr') /\ Cardinality(ApproveRequest) \in Nat
    BY <1>1, <1>2, ApprovalCount, ApprovingFinite
  <1>4. /\ \A j \in ApproveRequest \ {k} : sum'[j] = sum[j] /\ say'[j] = say[j]
        /\ say'[k] = "reload"
        /\ sum'[k] \in 0..Cardinality(ApproveRequest) /\ sum'[k] <= Cardinality(appr')
        /\ sum' = [sum EXCEPT ![k] = sum'[k]]
    <2>1. CASE AddApprovalLocked(k)
      BY <1>1, <1>2, <1>3, <2>1 DEF AddApprovalLocked
    <2>2. CASE AddApprovalCommit(k)
      <3>1. sum' = sum /\ say[k] = "counted"
        BY <2>2 DEF AddApprovalCommit, SayTo
      <3>2. sum[k] <= Cardinality(appr \cup {ApproverOf[k]})
        BY <3>1 DEF PromoIInv, SumBacked
      <3>3. QED
        BY <1>1, <1>2, <3>1, <3>2
    <2>3. QED
      BY <2>1, <2>2
  <1>5. PromotionTypeOK'
    <2>1. sum' \in [ApproveRequest -> 0..Cardinality(ApproveRequest)]
      BY <1>2, <1>4
    <2>2. QED
      BY <1>1, <1>2, <1>3, <2>1 DEF PromotionTypeOK, SayPoint, Approving
  <1>6. EditsFresh' /\ SecretsKept'
    BY <1>1 DEF PromoIInv, EditsFresh, SecretsKept
  <1>7. PromoSound'
    <2>1. promo.required \in Nat
      BY <1>2 DEF PromoRow
    <2>2. QED
      BY <1>1, <1>3, <2>1 DEF PromoIInv, PromoSound
  <1>8. SumBacked'
    <2>1. ASSUME NEW j \in ApproveRequest \ {k}
          PROVE  /\ say[j] # "idle" => promo.status # "absent"
                 /\ say[j] \in {"reload", "advance"} => sum[j] <= Cardinality(appr')
                 /\ say[j] = "counted" => sum[j] <= Cardinality(appr' \cup {ApproverOf[j]})
                 /\ say[j] = "advance" => promo.status # "deployed" /\ promo.required <= sum[j]
      <3>1. sum[j] \in Nat
        BY <1>2, <1>3
      <3>2. ASSUME say[j] = "counted"
            PROVE  sum[j] <= Cardinality(appr' \cup {ApproverOf[j]})
        <4>1. sum[j] <= Cardinality(appr \cup {ApproverOf[j]})
          BY <3>2 DEF PromoIInv, SumBacked
        <4> DEFINE B == appr \cup {ApproverOf[j]}
        <4>2. B \subseteq Approving /\ B \cup {ApproverOf[k]} = appr' \cup {ApproverOf[j]}
          BY <1>1, <1>2
        <4>3. /\ Cardinality(B) \in 0..Cardinality(ApproveRequest)
              /\ Cardinality(B \cup {ApproverOf[k]}) \in 0..Cardinality(ApproveRequest)
              /\ Cardinality(B) <= Cardinality(B \cup {ApproverOf[k]})
          BY <1>2, <4>2, ApprovalCount
        <4>4. QED
          BY <1>3, <3>1, <4>1, <4>2, <4>3
      <3>3. ASSUME say[j] \in {"reload", "advance"}
            PROVE  sum[j] <= Cardinality(appr')
        <4>1. sum[j] <= Cardinality(appr)
          BY <3>3 DEF PromoIInv, SumBacked
        <4>2. QED
          BY <1>3, <3>1, <4>1
      <3>4. /\ say[j] # "idle" => promo.status # "absent"
            /\ say[j] = "advance" => promo.status # "deployed" /\ promo.required <= sum[j]
        BY DEF PromoIInv, SumBacked
      <3>5. QED
        BY <3>2, <3>3, <3>4
    <2>2. promo.status # "absent"
      BY <1>1 DEF PromoIInv, SumBacked
    <2>3. QED
      BY <1>1, <1>4, <2>1, <2>2 DEF SumBacked
  <1>9. QED
    BY <1>5, <1>6, <1>7, <1>8 DEF PromoIInv

\* The promotion is approved.
LEMMA PromotionAdvances ==
  ASSUME PromoIInv, NEW k \in ApproveRequest, AdvancePromotion(k)
  PROVE  PromoIInv'
  <1>1. /\ say[k] = "advance" /\ say' = [say EXCEPT ![k] = "done"]
        /\ promo' = [promo EXCEPT !.status = "approved"]
        /\ UNCHANGED <<promoStore, env, edit, kept, ask, appr, sum>>
    BY DEF AdvancePromotion, SayTo
  <1>2. /\ PromotionTypeOK /\ say \in [ApproveRequest -> SayPoint] /\ appr \subseteq Approving
        /\ sum \in [ApproveRequest -> 0..Cardinality(ApproveRequest)] /\ promo \in PromoRow
        /\ ApproverOf[k] \in Approving
    BY DEF PromoIInv, PromotionTypeOK, SayPoint, Approving
  <1>3. /\ promo' \in PromoRow /\ promo'.status = "approved"
        /\ promo'.required = promo.required /\ promo'.strategy = promo.strategy
    BY <1>1, <1>2 DEF PromoRow
  <1>4. /\ promo.status \notin {"absent", "deployed"} /\ promo.required <= sum[k]
        /\ sum[k] <= Cardinality(appr)
    BY <1>1 DEF PromoIInv, SumBacked
  <1>5. promo.status \in {"awaiting_approval", "approved"}
    BY <1>2, <1>4 DEF PromoRow
  <1>6. promo.required <= Cardinality(appr)
    <2>1. Cardinality(appr) \in 0..Cardinality(ApproveRequest) /\ Cardinality(ApproveRequest) \in Nat
      BY <1>2, ApprovalCount, ApprovingFinite
    <2>2. sum[k] \in Nat /\ promo.required \in Nat
      BY <1>2, <2>1 DEF PromoRow
    <2>3. QED
      BY <1>4, <2>1, <2>2
  <1>7. PromotionTypeOK'
    BY <1>1, <1>2, <1>3 DEF PromotionTypeOK, SayPoint
  <1>8. EditsFresh' /\ SecretsKept'
    BY <1>1 DEF PromoIInv, EditsFresh, SecretsKept
  <1>9. PromoSound'
    BY <1>1, <1>3, <1>5, <1>6 DEF PromoIInv, PromoSound
  <1>10. SumBacked'
    BY <1>1, <1>2, <1>3 DEF PromoIInv, SumBacked
  <1>11. QED
    BY <1>7, <1>8, <1>9, <1>10 DEF PromoIInv

LEMMA PromotionStep ==
  ASSUME PromoIInv, [PromotionNext]_promoVars
  PROVE  PromoIInv'
  <1>1. CASE UNCHANGED promoVars
    BY <1>1 DEF promoVars, PromoIInv, PromotionTypeOK, EditsFresh, SecretsKept, SumBacked, PromoSound
  <1>2. CASE EnvNext
    BY <1>2, EnvironmentRead, EnvironmentWrite, EnvironmentGone DEF EnvNext
  <1>3. CASE PromoteNext
    BY <1>3, PromotionCreated, ApprovalMoves, ApprovalCounted, ApprovalCommitted, PromotionAdvances
       DEF PromoteNext
  <1>4. QED
    BY <1>1, <1>2, <1>3 DEF PromotionNext

\* A promotion's row keeps the policy it was created with (CreatePromotion,
\* UpdatePromotionStatus).
LEMMA PolicyKept ==
  ASSUME PromoIInv, [PromotionNext]_promoVars, promo.status # "absent"
  PROVE  promo'.required = promo.required /\ promo'.strategy = promo.strategy
  <1>1. promo \in PromoRow
    BY DEF PromoIInv, PromotionTypeOK
  <1>2. promo' = promo \/ promo' = [promo EXCEPT !.status = "approved"]
    <2>1. CASE UNCHANGED promoVars
      BY <2>1 DEF promoVars
    <2>2. CASE EnvNext
      BY <2>2 DEF EnvNext, UpdateEnvironment, WriteEnvironment, PutSecret, DeleteSecret, DeleteEnvironment
    <2>3. CASE PromoteNext
      BY <2>3 DEF PromoteNext, PromoteRun, CheckExisting, CreatePromotion, ApprovePromotion,
                  AddApprovalLocked, AddApprovalInsert, AddApprovalCount, AddApprovalCommit,
                  ReloadPromotion, AdvancePromotion
    <2>4. QED
      BY <2>1, <2>2, <2>3 DEF PromotionNext
  <1>3. QED
    BY <1>1, <1>2 DEF PromoRow

\* Promotions count different approvers against the policy they were created
\* with, and no edit of an environment undoes an acknowledged secret.
THEOREM PromotionsHold == PromotionSpec => PromotionsCorrect
  <1>1. PromoIInv => PromotionTypeOK /\ SecretsKept /\ PromotionQuorum
    <2>1. SUFFICES ASSUME PromoIInv
                   PROVE  PromotionQuorum
      BY DEF PromoIInv
    <2>2. promo.required \in Nat /\ appr \subseteq Approving
      BY <2>1 DEF PromoIInv, PromotionTypeOK, PromoRow, Approving
    <2>3. Cardinality(appr) \in Nat
      BY <2>2, ApprovingFinite, FS_Subset, FS_CardinalityType
    <2>4. QED
      BY <2>1, <2>2, <2>3 DEF PromoIInv, PromoSound, PromotionQuorum
  <1>2. PromoIInv /\ [PromotionNext]_promoVars =>
          [promo.status # "absent" =>
             promo'.required = promo.required /\ promo'.strategy = promo.strategy]_promoVars
    BY PolicyKept
  <1>3. QED
    BY <1>1, <1>2, PromotionsInitially, PromotionStep, PTL
       DEF PromotionSpec, PromotionsCorrect, PolicySnapshot

-----------------------------------------------------------------------------
(* Pipeline definitions *)

RowOf == [state : {"none", "live", "deleted"}, def : Definition \cup {NoDefinition}, version : Versions]
PageOf == [at : {"closed", "idle", "saving", "starting"}, def : Definition \cup {NoDefinition},
           version : Versions, dirty : BOOLEAN]
PutOf == [at : {"none", "sent", "read", "saved", "refused"}, def : Definition \cup {NoDefinition},
          version : Versions, run : BOOLEAN]
StartedOf == [at : {"none", "pending", "executed", "failed"}, version : Versions,
              def : Definition \cup {NoDefinition}]

\* The saves whose version is still to be decided.
Waiting == {e \in PipelineEditor : put[e].at \in {"sent", "read"}}

\* Every version but the first was paid for by a save, so the versions suffice.
VersionsCounted == row.version + Cardinality(Waiting) <= saves + 1

\* What an editor, its save and its run know of a definition is what the row's
\* history holds under the version they know it by; no version is ahead of the row.
Knows(e) ==
  /\ page[e].at # "closed" =>
       page[e].version <= row.version /\ (~page[e].dirty => page[e].def = stored[page[e].version])
  /\ put[e].at = "saved" => put[e].version <= row.version /\ put[e].def = stored[put[e].version]
  /\ (~queued /\ started[e].at \in {"pending", "executed"}) =>
       started[e].version <= row.version /\ started[e].def = stored[started[e].version]

\* Nobody holds a pipeline that was not created, and a live row is in its history.
RowSound ==
  /\ row.state = "none" =>
       /\ row.version = 0
       /\ \A e \in PipelineEditor : page[e].at = "closed" /\ put[e].at = "none" /\ started[e].at = "none"
  /\ row.state = "live" => row.def = stored[row.version]

RowsIInv == RowsTypeOK /\ VersionsCounted /\ RowSound /\ \A e \in PipelineEditor : Knows(e)

LEMMA RowsTyped ==
  ASSUME RowsTypeOK
  PROVE  /\ row \in RowOf /\ page \in [PipelineEditor -> PageOf] /\ put \in [PipelineEditor -> PutOf]
         /\ started \in [PipelineEditor -> StartedOf] /\ saves \in 0..MaxSaves /\ MaxSaves \in Nat
         /\ stored \in [Versions -> Definition \cup {NoDefinition}]
         /\ row.version \in Nat /\ row.version \in Versions /\ row.def \in Definition \cup {NoDefinition}
         /\ row.state \in {"none", "live", "deleted"}
  BY PipelineRowsAssumption DEF RowsTypeOK, RowOf, PageOf, PutOf, StartedOf, Versions

\* How the number of undecided saves changes when one editor's save does.
LEMMA WaitingCount ==
  /\ \A S \in SUBSET PipelineEditor : IsFiniteSet(S) /\ Cardinality(S) \in Nat
  /\ \A S, T \in SUBSET PipelineEditor : S \subseteq T => Cardinality(S) <= Cardinality(T)
  /\ \A S \in SUBSET PipelineEditor, e \in PipelineEditor : Cardinality(S \cup {e}) <= Cardinality(S) + 1
  /\ \A S \in SUBSET PipelineEditor, e \in PipelineEditor :
        e \in S => Cardinality(S \ {e}) = Cardinality(S) - 1
  <1>1. \A S \in SUBSET PipelineEditor : IsFiniteSet(S) /\ Cardinality(S) \in Nat
    BY PipelineRowsAssumption, FS_Subset, FS_CardinalityType
  <1>2. \A S, T \in SUBSET PipelineEditor : S \subseteq T => Cardinality(S) <= Cardinality(T)
    BY <1>1, FS_Subset
  <1>3. \A S \in SUBSET PipelineEditor, e \in PipelineEditor : Cardinality(S \cup {e}) <= Cardinality(S) + 1
    <2> TAKE S \in SUBSET PipelineEditor, e \in PipelineEditor
    <2>1. Cardinality(S) \in Nat /\ IsFiniteSet(S)
      BY <1>1
    <2>2. Cardinality(S \cup {e}) = IF e \in S THEN Cardinality(S) ELSE Cardinality(S) + 1
      BY <2>1, FS_AddElement
    <2>3. QED
      BY <2>1, <2>2
  <1>4. \A S \in SUBSET PipelineEditor, e \in PipelineEditor :
           e \in S => Cardinality(S \ {e}) = Cardinality(S) - 1
    BY <1>1, FS_RemoveElement
  <1>5. QED
    BY <1>1, <1>2, <1>3, <1>4

LEMMA RowsInitially == RowsInit => RowsIInv
  <1>1. SUFFICES ASSUME RowsInit PROVE RowsIInv
    OBVIOUS
  <1>2. RowsTypeOK
    BY <1>1, PipelineRowsAssumption DEF RowsInit, RowsTypeOK, Versions, ClosedPage, NoPut, NotStarted
  <1>3. VersionsCounted
    <2>1. Waiting = {}
      BY <1>1 DEF RowsInit, Waiting, NoPut
    <2>2. Cardinality(Waiting) = 0
      BY <2>1, FS_EmptySet
    <2>3. QED
      BY <1>1, <2>2 DEF RowsInit, VersionsCounted
  <1>4. RowSound /\ \A e \in PipelineEditor : Knows(e)
    BY <1>1 DEF RowsInit, RowSound, Knows, ClosedPage, NoPut, NotStarted
  <1>5. QED
    BY <1>2, <1>3, <1>4 DEF RowsIInv

\* A step of one editor, its save or its run leaves the row and its history alone.
LEMMA EditorKeeps ==
  ASSUME RowsIInv, NEW e \in PipelineEditor, row.state # "none",
         UNCHANGED <<rowStore, queued, row, stored>>,
         page' = [page EXCEPT ![e] = page'[e]], page'[e] \in PageOf,
         put' = [put EXCEPT ![e] = put'[e]], put'[e] \in PutOf,
         started' = [started EXCEPT ![e] = started'[e]], started'[e] \in StartedOf,
         saves' \in 0..MaxSaves,
         \/ saves' = saves /\ (put'[e].at \in {"sent", "read"} => put[e].at \in {"sent", "read"})
         \/ saves' = saves + 1,
         Knows(e)'
  PROVE  RowsIInv'
  <1>1. RowsTypeOK /\ VersionsCounted /\ RowSound /\ \A j \in PipelineEditor : Knows(j)
    BY DEF RowsIInv
  <1>2. /\ page' \in [PipelineEditor -> PageOf] /\ put' \in [PipelineEditor -> PutOf]
        /\ started' \in [PipelineEditor -> StartedOf]
        /\ \A j \in PipelineEditor \ {e} : page'[j] = page[j] /\ put'[j] = put[j] /\ started'[j] = started[j]
    BY <1>1, RowsTyped
  <1>3. RowsTypeOK'
    BY <1>1, <1>2 DEF RowsTypeOK, PageOf, PutOf, StartedOf
  <1>4. VersionsCounted'
    <2>1. row.version \in Nat /\ saves \in Nat /\ Cardinality(Waiting) \in Nat /\ Cardinality(Waiting') \in Nat
      BY <1>1, RowsTyped, WaitingCount DEF Waiting
    <2>2. CASE saves' = saves /\ (put'[e].at \in {"sent", "read"} => put[e].at \in {"sent", "read"})
      <3>1. Waiting' \subseteq Waiting
        BY <1>2, <2>2 DEF Waiting
      <3>2. Cardinality(Waiting') <= Cardinality(Waiting)
        BY <3>1, WaitingCount DEF Waiting
      <3>3. QED
        BY <1>1, <2>1, <2>2, <3>2 DEF VersionsCounted
    <2>3. CASE saves' = saves + 1
      <3>1. Waiting' \subseteq Waiting \cup {e} /\ Waiting \cup {e} \in SUBSET PipelineEditor
            /\ Waiting \in SUBSET PipelineEditor /\ Waiting' \in SUBSET PipelineEditor
        BY <1>2 DEF Waiting
      <3>2. Cardinality(Waiting') <= Cardinality(Waiting \cup {e})
        BY <3>1, WaitingCount
      <3>3. Cardinality(Waiting \cup {e}) <= Cardinality(Waiting) + 1 /\ Cardinality(Waiting \cup {e}) \in Nat
        BY <3>1, WaitingCount
      <3>4. QED
        BY <1>1, <2>1, <2>3, <3>2, <3>3 DEF VersionsCounted
    <2>4. QED
      BY <2>2, <2>3
  <1>5. RowSound'
    BY <1>1 DEF RowSound
  <1>6. \A j \in PipelineEditor : Knows(j)'
    BY <1>1, <1>2 DEF Knows
  <1>7. QED
    BY <1>3, <1>4, <1>5, <1>6 DEF RowsIInv

\* The editor's page: loads, edits, saves and their answers, runs.
LEMMA PageStep ==
  ASSUME RowsIInv, NEW e \in PipelineEditor,
         \/ loadPipeline(e) \/ (\E d \in Definition : EditCanvas(e, d))
         \/ (\E r \in BOOLEAN : savePipeline(e, r)) \/ SaveAnswered(e) \/ SaveRefused(e) \/ handleRun(e)
  PROVE  RowsIInv'
  <1>1. RowsTypeOK /\ RowSound /\ Knows(e)
    BY DEF RowsIInv
  <1>2. /\ page[e] \in PageOf /\ put[e] \in PutOf /\ started[e] \in StartedOf
        /\ page \in [PipelineEditor -> PageOf] /\ put \in [PipelineEditor -> PutOf]
        /\ started \in [PipelineEditor -> StartedOf] /\ saves \in 0..MaxSaves /\ MaxSaves \in Nat
        /\ row.version \in Versions /\ row.version \in Nat /\ row.def \in Definition \cup {NoDefinition}
    BY <1>1, RowsTyped
  <1>3. UNCHANGED <<rowStore, queued, row, stored, started>> /\ row.state # "none"
    <2>1. UNCHANGED <<rowStore, queued, row, stored, started>> /\ (page[e].at # "closed" \/ row.state = "live")
      BY DEF loadPipeline, EditCanvas, savePipeline, SaveAnswered, SaveRefused, handleRun
    <2>2. QED
      BY <1>1, <2>1 DEF RowSound
  <1>4. started' = [started EXCEPT ![e] = started'[e]] /\ started'[e] \in StartedOf
    BY <1>2, <1>3
  <1>5. CASE loadPipeline(e)
    <2>1. page' = [page EXCEPT ![e] = page'[e]] /\ put' = put /\ saves' = saves
          /\ page'[e] = [at |-> "idle", def |-> row.def, version |-> row.version, dirty |-> FALSE]
          /\ row.state = "live"
      BY <1>2, <1>5 DEF loadPipeline
    <2>2. page'[e] \in PageOf
      BY <1>2, <2>1 DEF PageOf
    <2>3. Knows(e)'
      BY <1>1, <1>2, <1>3, <2>1 DEF Knows, RowSound
    <2>4. put' = [put EXCEPT ![e] = put'[e]] /\ put'[e] \in PutOf
      BY <1>2, <2>1
    <2>5. QED
      BY <1>2, <1>3, <1>4, <2>1, <2>2, <2>3, <2>4, EditorKeeps
  <1>6. ASSUME NEW d \in Definition, EditCanvas(e, d) PROVE RowsIInv'
    <2>1. page' = [page EXCEPT ![e] = page'[e]] /\ put' = put /\ saves' = saves
          /\ page'[e] = [[page[e] EXCEPT !.def = d] EXCEPT !.dirty = TRUE]
          /\ page[e].at # "closed"
      BY <1>2, <1>6 DEF EditCanvas, PageOf
    <2>2. page'[e] \in PageOf /\ page'[e].dirty /\ page'[e].version = page[e].version
      BY <1>2, <2>1 DEF PageOf
    <2>3. Knows(e)'
      BY <1>1, <1>3, <2>1, <2>2 DEF Knows
    <2>4. put' = [put EXCEPT ![e] = put'[e]] /\ put'[e] \in PutOf
      BY <1>2, <2>1
    <2>5. QED
      BY <1>2, <1>3, <1>4, <2>1, <2>2, <2>3, <2>4, EditorKeeps
  <1>7. ASSUME NEW r \in BOOLEAN, savePipeline(e, r) PROVE RowsIInv'
    <2>1. page' = [page EXCEPT ![e] = page'[e]] /\ put' = [put EXCEPT ![e] = put'[e]]
          /\ page'[e] = [page[e] EXCEPT !.at = "saving"] /\ page[e].at = "idle"
          /\ put'[e] = [at |-> "sent", def |-> page[e].def, version |-> 0, run |-> r]
          /\ saves' = saves + 1 /\ saves < MaxSaves
      BY <1>2, <1>7 DEF savePipeline
    <2>2. page'[e] \in PageOf /\ page'[e].dirty = page[e].dirty /\ page'[e].version = page[e].version
          /\ page'[e].def = page[e].def
      BY <1>2, <2>1 DEF PageOf
    <2>3. put'[e] \in PutOf /\ put'[e].at = "sent"
      BY <1>2, <2>1 DEF PageOf, PutOf, Versions
    <2>4. Knows(e)'
      BY <1>1, <1>3, <2>1, <2>2, <2>3 DEF Knows
    <2>5. saves' \in 0..MaxSaves
      BY <1>2, <2>1
    <2>6. QED
      BY <1>2, <1>3, <1>4, <2>1, <2>2, <2>3, <2>4, <2>5, EditorKeeps
  <1>8. CASE SaveAnswered(e)
    <2>1. page' = [page EXCEPT ![e] = page'[e]] /\ put' = [put EXCEPT ![e] = put'[e]]
          /\ page'[e] = [at |-> IF put[e].run THEN "starting" ELSE "idle",
                         def |-> put[e].def, version |-> put[e].version, dirty |-> FALSE]
          /\ put'[e] = NoPut /\ put[e].at = "saved" /\ saves' = saves
      BY <1>2, <1>8 DEF SaveAnswered
    <2>2. page'[e] \in PageOf
      BY <1>2, <2>1 DEF PageOf, PutOf
    <2>3. put'[e] \in PutOf /\ put'[e].at = "none"
      BY <1>2, <2>1 DEF NoPut, PutOf, Versions
    <2>4. Knows(e)'
      BY <1>1, <1>3, <2>1, <2>3 DEF Knows
    <2>5. QED
      BY <1>2, <1>3, <1>4, <2>1, <2>2, <2>3, <2>4, EditorKeeps
  <1>9. CASE SaveRefused(e)
    <2>1. page' = [page EXCEPT ![e] = page'[e]] /\ put' = [put EXCEPT ![e] = put'[e]]
          /\ page'[e] = [page[e] EXCEPT !.at = "idle"] /\ page[e].at # "closed"
          /\ put'[e] = NoPut /\ saves' = saves
      BY <1>2, <1>9 DEF SaveRefused
    <2>2. page'[e] \in PageOf /\ page'[e].dirty = page[e].dirty /\ page'[e].version = page[e].version
          /\ page'[e].def = page[e].def
      BY <1>2, <2>1 DEF PageOf
    <2>3. put'[e] \in PutOf /\ put'[e].at = "none"
      BY <1>2, <2>1 DEF NoPut, PutOf, Versions
    <2>4. Knows(e)'
      BY <1>1, <1>3, <2>1, <2>2, <2>3 DEF Knows
    <2>5. QED
      BY <1>2, <1>3, <1>4, <2>1, <2>2, <2>3, <2>4, EditorKeeps
  <1>10. CASE handleRun(e)
    <2>1. page' = [page EXCEPT ![e] = page'[e]] /\ put' = put /\ saves' = saves
          /\ page'[e] = [page[e] EXCEPT !.at = "starting"] /\ page[e].at # "closed"
      BY <1>2, <1>10 DEF handleRun
    <2>2. page'[e] \in PageOf /\ page'[e].dirty = page[e].dirty /\ page'[e].version = page[e].version
          /\ page'[e].def = page[e].def
      BY <1>2, <2>1 DEF PageOf
    <2>3. put' = [put EXCEPT ![e] = put'[e]] /\ put'[e] \in PutOf
      BY <1>2, <2>1
    <2>4. Knows(e)'
      BY <1>1, <1>3, <2>1, <2>2 DEF Knows
    <2>5. QED
      BY <1>2, <1>3, <1>4, <2>1, <2>2, <2>3, <2>4, EditorKeeps
  <1>11. QED
    BY <1>5, <1>6, <1>7, <1>8, <1>9, <1>10

\* A run is stamped with the row's version; an inline one keeps the definition it
\* was stamped with (RunPipeline, Handle).
LEMMA RunStep ==
  ASSUME RowsIInv, NEW e \in PipelineEditor, RunPipeline(e) \/ ExecuteInline(e) \/ Handle(e)
  PROVE  RowsIInv'
  <1>1. RowsTypeOK /\ RowSound /\ Knows(e)
    BY DEF RowsIInv
  <1>2. /\ page[e] \in PageOf /\ put[e] \in PutOf /\ started[e] \in StartedOf
        /\ page \in [PipelineEditor -> PageOf] /\ put \in [PipelineEditor -> PutOf]
        /\ started \in [PipelineEditor -> StartedOf] /\ saves \in 0..MaxSaves
        /\ row.version \in Versions /\ row.version \in Nat /\ row.def \in Definition \cup {NoDefinition}
    BY <1>1, RowsTyped
  <1>3. UNCHANGED <<rowStore, queued, row, stored, put, saves>> /\ row.state # "none"
    <2>1. /\ UNCHANGED <<rowStore, queued, row, stored, put, saves>>
          /\ page[e].at = "starting" \/ started[e].at = "pending"
      BY DEF RunPipeline, ExecuteInline, Handle
    <2>2. QED
      BY <1>1, <2>1 DEF RowSound
  <1>4. put' = [put EXCEPT ![e] = put'[e]] /\ put'[e] \in PutOf /\ put'[e] = put[e]
    BY <1>2, <1>3
  <1>5. CASE RunPipeline(e)
    <2>1. page' = [page EXCEPT ![e] = page'[e]] /\ started' = [started EXCEPT ![e] = started'[e]]
          /\ page'[e] = [page[e] EXCEPT !.at = "idle"] /\ page[e].at # "closed"
          /\ started'[e] = IF row.state # "live" THEN [NotStarted EXCEPT !.at = "failed"]
                           ELSE [at |-> "pending", version |-> row.version,
                                 def |-> IF queued THEN NoDefinition ELSE row.def]
      BY <1>2, <1>5 DEF RunPipeline
    <2>2. page'[e] \in PageOf /\ page'[e].dirty = page[e].dirty /\ page'[e].version = page[e].version
          /\ page'[e].def = page[e].def
      BY <1>2, <2>1 DEF PageOf
    <2>3. CASE row.state # "live"
      <3>1. started'[e] \in StartedOf /\ started'[e].at = "failed"
        BY <1>2, <2>1, <2>3, PipelineRowsAssumption DEF NotStarted, StartedOf, Versions
      <3>2. Knows(e)'
        BY <1>1, <1>3, <1>4, <2>1, <2>2, <3>1 DEF Knows
      <3>3. QED
        BY <1>2, <1>3, <1>4, <2>1, <2>2, <3>1, <3>2, EditorKeeps
    <2>4. CASE row.state = "live"
      <3>1. started'[e] \in StartedOf /\ started'[e].version = row.version
            /\ (~queued => started'[e].def = row.def)
        BY <1>2, <2>1, <2>4 DEF StartedOf
      <3>2. Knows(e)'
        BY <1>1, <1>2, <1>3, <1>4, <2>1, <2>2, <2>4, <3>1 DEF Knows, RowSound
      <3>3. QED
        BY <1>2, <1>3, <1>4, <2>1, <2>2, <3>1, <3>2, EditorKeeps
    <2>5. QED
      BY <2>3, <2>4
  <1>6. CASE ExecuteInline(e)
    <2>1. started' = [started EXCEPT ![e] = started'[e]] /\ page' = page /\ started[e].at = "pending"
          /\ started'[e] = [started[e] EXCEPT !.at = "executed"]
      BY <1>2, <1>6 DEF ExecuteInline
    <2>2. started'[e] \in StartedOf /\ started'[e].version = started[e].version /\ started'[e].def = started[e].def
      BY <1>2, <2>1 DEF StartedOf
    <2>3. page' = [page EXCEPT ![e] = page'[e]] /\ page'[e] \in PageOf /\ page'[e] = page[e]
      BY <1>2, <2>1
    <2>4. Knows(e)'
      BY <1>1, <1>3, <1>4, <2>1, <2>2, <2>3 DEF Knows
    <2>5. QED
      BY <1>2, <1>3, <1>4, <2>1, <2>2, <2>3, <2>4, EditorKeeps
  <1>7. CASE Handle(e)
    <2>1. started' = [started EXCEPT ![e] = started'[e]] /\ page' = page /\ queued
          /\ started'[e] = [[started[e] EXCEPT !.at = IF row.state = "live" THEN "executed" ELSE "failed"]
                             EXCEPT !.def = row.def]
      BY <1>2, <1>7 DEF Handle, StartedOf
    <2>2. started'[e] \in StartedOf
      BY <1>2, <2>1 DEF StartedOf
    <2>3. page' = [page EXCEPT ![e] = page'[e]] /\ page'[e] \in PageOf /\ page'[e] = page[e]
      BY <1>2, <2>1
    <2>4. Knows(e)'
      BY <1>1, <1>3, <1>4, <2>1, <2>3 DEF Knows
    <2>5. QED
      BY <1>2, <1>3, <1>4, <2>1, <2>2, <2>3, <2>4, EditorKeeps
  <1>8. QED
    BY <1>5, <1>6, <1>7

\* UpdatePipeline reads the row.
LEMMA UpdateReads ==
  ASSUME RowsIInv, NEW e \in PipelineEditor, UpdatePipelineGet(e)
  PROVE  RowsIInv'
  <1>1. RowsTypeOK /\ RowSound /\ Knows(e)
    BY DEF RowsIInv
  <1>2. /\ page[e] \in PageOf /\ put[e] \in PutOf /\ started[e] \in StartedOf
        /\ page \in [PipelineEditor -> PageOf] /\ put \in [PipelineEditor -> PutOf]
        /\ started \in [PipelineEditor -> StartedOf] /\ saves \in 0..MaxSaves /\ row.version \in Versions
    BY <1>1, RowsTyped
  <1>3. UNCHANGED <<rowStore, queued, row, stored, page, started, saves>> /\ row.state # "none"
        /\ put[e].at = "sent"
    BY <1>1 DEF UpdatePipelineGet, RowSound
  <1>4. put' = [put EXCEPT ![e] = put'[e]]
        /\ put'[e] = [[put[e] EXCEPT !.at = IF row.state = "live" THEN "read" ELSE "refused"]
                       EXCEPT !.version = row.version]
    BY <1>2 DEF UpdatePipelineGet, PutOf
  <1>5. put'[e] \in PutOf /\ put'[e].at \in {"read", "refused"}
    BY <1>2, <1>4 DEF PutOf
  <1>6. /\ page' = [page EXCEPT ![e] = page'[e]] /\ page'[e] \in PageOf /\ page'[e] = page[e]
        /\ started' = [started EXCEPT ![e] = started'[e]] /\ started'[e] \in StartedOf
        /\ started'[e] = started[e]
    BY <1>2, <1>3
  <1>7. Knows(e)'
    BY <1>1, <1>3, <1>5, <1>6 DEF Knows
  <1>8. QED
    BY <1>2, <1>3, <1>4, <1>5, <1>6, <1>7, EditorKeeps

\* UpdatePipeline writes the row under a version of its own, or is refused.
LEMMA UpdateWrites ==
  ASSUME RowsIInv, NEW e \in PipelineEditor, UpdatePipelinePut(e)
  PROVE  RowsIInv'
  <1>1. RowsTypeOK /\ VersionsCounted /\ RowSound /\ \A j \in PipelineEditor : Knows(j)
    BY DEF RowsIInv
  <1>2. /\ page[e] \in PageOf /\ put[e] \in PutOf /\ started[e] \in StartedOf
        /\ page \in [PipelineEditor -> PageOf] /\ put \in [PipelineEditor -> PutOf]
        /\ started \in [PipelineEditor -> StartedOf] /\ saves \in 0..MaxSaves /\ MaxSaves \in Nat
        /\ row.version \in Nat /\ stored \in [Versions -> Definition \cup {NoDefinition}]
    BY <1>1, RowsTyped
  <1>3. UNCHANGED <<rowStore, queued, page, started, saves>> /\ row.state # "none"
        /\ put[e].at = "read"
    BY <1>1 DEF UpdatePipelinePut, RowSound
  <1>4. CASE ~Matches(put[e].version)
    <2>1. put' = [put EXCEPT ![e] = put'[e]] /\ put'[e] = [put[e] EXCEPT !.at = "refused"]
          /\ UNCHANGED <<row, stored>>
      BY <1>2, <1>4 DEF UpdatePipelinePut
    <2>2. put'[e] \in PutOf /\ put'[e].at = "refused"
      BY <1>2, <2>1 DEF PutOf
    <2>3. /\ page' = [page EXCEPT ![e] = page'[e]] /\ page'[e] \in PageOf /\ page'[e] = page[e]
          /\ started' = [started EXCEPT ![e] = started'[e]] /\ started'[e] \in StartedOf
          /\ started'[e] = started[e]
      BY <1>2, <1>3
    <2>4. Knows(e)'
      BY <1>1, <1>3, <2>1, <2>2, <2>3 DEF Knows
    <2>5. QED
      BY <1>2, <1>3, <2>1, <2>2, <2>3, <2>4, EditorKeeps
  <1>5. CASE Matches(put[e].version)
    <2> DEFINE v == row.version + 1
    <2>1. /\ put[e].version = row.version /\ row.state = "live"
          /\ row' = [state |-> "live", def |-> put[e].def, version |-> v]
          /\ stored' = [stored EXCEPT ![v] = put[e].def]
          /\ put' = [put EXCEPT ![e] = put'[e]]
          /\ put'[e] = [[put[e] EXCEPT !.at = "saved"] EXCEPT !.version = v]
      BY <1>2, <1>5 DEF UpdatePipelinePut, Matches, Stored, Acknowledged, PutOf
    <2>2. Waiting' = Waiting \ {e} /\ e \in Waiting /\ Waiting \in SUBSET PipelineEditor
      <3>1. \A j \in PipelineEditor \ {e} : put'[j] = put[j]
        BY <1>2, <2>1
      <3>2. put'[e].at = "saved"
        BY <1>2, <2>1 DEF PutOf
      <3>3. QED
        BY <1>3, <3>1, <3>2 DEF Waiting
    <2>3. Cardinality(Waiting') = Cardinality(Waiting) - 1 /\ Cardinality(Waiting) \in Nat
          /\ Cardinality(Waiting') \in Nat
      <3>1. Waiting' \in SUBSET PipelineEditor
        BY <2>2
      <3>2. QED
        BY <2>2, <3>1, WaitingCount
    <2>4. v + Cardinality(Waiting') <= saves + 1 /\ v \in Versions /\ row.version \in Versions
      BY <1>1, <1>2, <2>3 DEF VersionsCounted, Versions
    <2>5. put'[e] \in PutOf /\ put'[e].def = put[e].def /\ put'[e].version = v /\ put'[e].at = "saved"
      BY <1>2, <2>1, <2>4 DEF PutOf
    <2>6. /\ put' \in [PipelineEditor -> PutOf] /\ \A j \in PipelineEditor \ {e} : put'[j] = put[j]
          /\ stored' \in [Versions -> Definition \cup {NoDefinition}] /\ row' \in RowOf
          /\ row'.version = v /\ row'.def = put[e].def /\ row'.state = "live"
      <3>1. put[e].def \in Definition \cup {NoDefinition}
        BY <1>2 DEF PutOf
      <3>2. row' \in RowOf /\ row'.version = v /\ row'.def = put[e].def /\ row'.state = "live"
        BY <2>1, <2>4, <3>1 DEF RowOf
      <3>3. stored' \in [Versions -> Definition \cup {NoDefinition}]
        BY <1>2, <2>1, <2>4, <3>1
      <3>4. put' \in [PipelineEditor -> PutOf] /\ \A j \in PipelineEditor \ {e} : put'[j] = put[j]
        BY <1>2, <2>1, <2>5
      <3>5. QED
        BY <3>2, <3>3, <3>4
    <2>7. stored'[v] = put[e].def /\ \A w \in Versions : w <= row.version => stored'[w] = stored[w]
      BY <1>2, <2>1, <2>4
    <2>8. RowsTypeOK'
      BY <1>1, <1>3, <2>6 DEF RowsTypeOK, PutOf, RowOf
    <2>9. VersionsCounted'
      BY <1>3, <2>4, <2>6 DEF VersionsCounted
    <2>10. RowSound'
      BY <2>6, <2>7 DEF RowSound
    <2>11. ASSUME NEW j \in PipelineEditor PROVE Knows(j)'
      <3>1. /\ page'[j] = page[j] /\ started'[j] = started[j] /\ page[j].version \in Versions
            /\ started[j].version \in Versions /\ put[j].version \in Versions
        BY <1>2, <1>3 DEF PageOf, StartedOf, PutOf
      <3>2. page[j].version \in Nat /\ started[j].version \in Nat /\ put[j].version \in Nat
        BY <1>2, <3>1 DEF Versions
      <3>3. Knows(j)
        BY <1>1
      <3> HIDE DEF v
      <3>4. row.version <= row'.version /\ row'.version \in Nat
        BY <1>2, <2>6 DEF v
      <3>5. page'[j].at # "closed" =>
              page'[j].version <= row'.version /\ (~page'[j].dirty => page'[j].def = stored'[page'[j].version])
        BY <1>2, <2>7, <3>1, <3>2, <3>3, <3>4 DEF Knows
      <3>6. (~queued' /\ started'[j].at \in {"pending", "executed"}) =>
              started'[j].version <= row'.version /\ started'[j].def = stored'[started'[j].version]
        BY <1>2, <1>3, <2>7, <3>1, <3>2, <3>3, <3>4 DEF Knows
      <3>7. put'[j].at = "saved" => put'[j].version <= row'.version /\ put'[j].def = stored'[put'[j].version]
        <4>1. CASE j = e
          BY <2>5, <2>6, <2>7, <3>4, <4>1
        <4>2. CASE j # e
          BY <1>2, <2>6, <2>7, <3>2, <3>1, <3>3, <3>4, <4>2 DEF Knows
        <4>3. QED
          BY <4>1, <4>2
      <3>8. QED
        BY <3>5, <3>6, <3>7 DEF Knows
    <2>12. QED
      BY <2>8, <2>9, <2>10, <2>11 DEF RowsIInv
  <1>6. QED
    BY <1>4, <1>5

\* The pipeline is created, or deleted.
LEMMA RowComesAndGoes ==
  ASSUME RowsIInv, (\E d \in Definition : createPipeline(d)) \/ DeletePipeline
  PROVE  RowsIInv'
  <1>1. RowsTypeOK /\ VersionsCounted /\ RowSound /\ \A j \in PipelineEditor : Knows(j)
    BY DEF RowsIInv
  <1>2. /\ row \in RowOf /\ page \in [PipelineEditor -> PageOf] /\ put \in [PipelineEditor -> PutOf]
        /\ started \in [PipelineEditor -> StartedOf] /\ saves \in 0..MaxSaves /\ MaxSaves \in Nat
        /\ row.version \in Nat /\ stored \in [Versions -> Definition \cup {NoDefinition}]
    BY <1>1, RowsTyped
  <1>3. ASSUME NEW d \in Definition, createPipeline(d) PROVE RowsIInv'
    <2> DEFINE v == FirstVersion
    <2>1. /\ row.state = "none" /\ row' = [state |-> "live", def |-> d, version |-> v]
          /\ stored' = [stored EXCEPT ![v] = d] /\ UNCHANGED <<rowStore, queued, page, put, saves, started>>
      BY <1>3 DEF createPipeline
    <2>2. v \in {0, 1} /\ v \in Versions
      BY <1>2 DEF FirstVersion, Versions
    <2> HIDE DEF v
    <2>3. /\ row' \in RowOf /\ stored' \in [Versions -> Definition \cup {NoDefinition}]
          /\ row'.version = v /\ row'.def = d /\ row'.state = "live" /\ stored'[v] = d
      BY <1>2, <2>1, <2>2 DEF RowOf
    <2>4. \A j \in PipelineEditor : page[j].at = "closed" /\ put[j].at = "none" /\ started[j].at = "none"
      BY <1>1, <2>1 DEF RowSound
    <2>5. RowsTypeOK'
      BY <1>1, <2>1, <2>3 DEF RowsTypeOK, RowOf
    <2>6. VersionsCounted'
      <3>1. Waiting' = {}
        BY <2>1, <2>4 DEF Waiting
      <3>2. Cardinality(Waiting') = 0
        BY <3>1, FS_EmptySet
      <3>3. QED
        BY <1>2, <2>1, <2>2, <2>3, <3>2 DEF VersionsCounted
    <2>7. RowSound' /\ \A j \in PipelineEditor : Knows(j)'
      BY <2>1, <2>3, <2>4 DEF RowSound, Knows
    <2>8. QED
      BY <2>5, <2>6, <2>7 DEF RowsIInv
  <1>4. CASE DeletePipeline
    <2>1. /\ row' = [row EXCEPT !.state = "deleted"]
          /\ UNCHANGED <<rowStore, queued, page, put, saves, started, stored>>
      BY <1>4 DEF DeletePipeline
    <2>2. row' \in RowOf /\ row'.version = row.version /\ row'.state = "deleted"
      BY <1>2, <2>1 DEF RowOf
    <2>3. RowsTypeOK'
      BY <1>1, <2>1, <2>2 DEF RowsTypeOK, RowOf
    <2>4. VersionsCounted'
      <3>1. Waiting' = Waiting
        BY <2>1 DEF Waiting
      <3>2. QED
        BY <1>1, <2>1, <2>2, <3>1 DEF VersionsCounted
    <2>5. RowSound' /\ \A j \in PipelineEditor : Knows(j)'
      BY <1>1, <2>1, <2>2 DEF RowSound, Knows
    <2>6. QED
      BY <2>3, <2>4, <2>5 DEF RowsIInv
  <1>5. QED
    BY <1>3, <1>4

LEMMA RowsStep ==
  ASSUME RowsIInv, [RowsNext(Definition)]_rowsVars
  PROVE  RowsIInv'
  <1>1. CASE UNCHANGED rowsVars
    <2>1. Waiting' = Waiting
      BY <1>1 DEF rowsVars, Waiting
    <2>2. QED
      BY <1>1, <2>1 DEF rowsVars, RowsIInv, RowsTypeOK, VersionsCounted, RowSound, Knows
  <1>2. CASE (\E d \in Definition : createPipeline(d)) \/ DeletePipeline
    BY <1>2, RowComesAndGoes
  <1>3. ASSUME NEW e \in PipelineEditor,
               \/ loadPipeline(e) \/ (\E d \in Definition : EditCanvas(e, d))
               \/ (\E r \in BOOLEAN : savePipeline(e, r)) \/ SaveAnswered(e) \/ SaveRefused(e) \/ handleRun(e)
        PROVE  RowsIInv'
    BY <1>3, PageStep
  <1>4. ASSUME NEW e \in PipelineEditor, RunPipeline(e) \/ ExecuteInline(e) \/ Handle(e)
        PROVE  RowsIInv'
    BY <1>4, RunStep
  <1>5. ASSUME NEW e \in PipelineEditor, UpdatePipelineGet(e) \/ UpdatePipelinePut(e)
        PROVE  RowsIInv'
    BY <1>5, UpdateReads, UpdateWrites
  <1>6. QED
    BY <1>1, <1>2, <1>3, <1>4, <1>5 DEF RowsNext

\* Nothing saves or runs a pipeline that was deleted: UpdatePipelinePut needs a
\* live row, and Handle reads it again.
LEMMA DeletedForGood ==
  ASSUME RowsIInv, [RowsNext(Definition)]_rowsVars, row.state = "deleted"
  PROVE  /\ row'.state = "deleted"
         /\ \A e \in PipelineEditor : (queued /\ started[e].at # "executed") => started'[e].at # "executed"
  <1>1. started \in [PipelineEditor -> StartedOf]
    BY RowsTyped DEF RowsIInv
  <1>2. CASE UNCHANGED rowsVars \/ UNCHANGED <<row, started>>
    BY <1>2 DEF rowsVars
  <1>3. CASE \/ (\E d \in Definition : createPipeline(d)) \/ DeletePipeline
             \/ \E e \in PipelineEditor :
                   \/ loadPipeline(e) \/ (\E d \in Definition : EditCanvas(e, d))
                   \/ (\E r \in BOOLEAN : savePipeline(e, r)) \/ SaveAnswered(e) \/ SaveRefused(e)
                   \/ handleRun(e) \/ UpdatePipelineGet(e) \/ UpdatePipelinePut(e)
    <2>1. UNCHANGED <<row, started>>
      BY <1>3 DEF createPipeline, DeletePipeline, loadPipeline, EditCanvas, savePipeline, SaveAnswered,
                  SaveRefused, handleRun, UpdatePipelineGet, UpdatePipelinePut, Matches
    <2>2. QED
      BY <1>2, <2>1
  <1>4. ASSUME NEW e \in PipelineEditor, RunPipeline(e) \/ ExecuteInline(e) \/ Handle(e)
        PROVE  /\ row'.state = "deleted"
               /\ \A j \in PipelineEditor :
                     (queued /\ started[j].at # "executed") => started'[j].at # "executed"
    <2>1. row' = row
      BY <1>4 DEF RunPipeline, ExecuteInline, Handle
    <2>2. ASSUME NEW j \in PipelineEditor \ {e} PROVE started'[j] = started[j]
      BY <1>1, <1>4 DEF RunPipeline, ExecuteInline, Handle
    <2>3. CASE RunPipeline(e)
      BY <1>1, <2>1, <2>2, <2>3 DEF RunPipeline, NotStarted
    <2>4. CASE ExecuteInline(e)
      BY <2>1, <2>2, <2>4 DEF ExecuteInline
    <2>5. CASE Handle(e)
      <3>1. started'[e].at = "failed"
        BY <1>1, <2>5 DEF Handle, StartedOf
      <3>2. QED
        BY <2>1, <2>2, <3>1
    <2>6. QED
      BY <1>4, <2>3, <2>4, <2>5
  <1>5. QED
    BY <1>2, <1>3, <1>4 DEF RowsNext

\* Two inline runs stamped with one version executed one definition, a page without
\* edits shows what was stored, and a deleted pipeline is neither saved nor run
\* again, for any number of editors, definitions and saves (UpdatePipeline,
\* RunPipeline, JobQueueRunner.Handle, the editor's store).
THEOREM RowsHold == RowsSpec => RowsCorrect
  <1>1. RowsIInv => RowsTypeOK /\ UnchangedIsSame /\ CleanPageIsStored
    <2>1. SUFFICES ASSUME RowsIInv
                   PROVE  UnchangedIsSame /\ CleanPageIsStored
      BY DEF RowsIInv
    <2>2. \A e \in PipelineEditor : Knows(e)
      BY <2>1 DEF RowsIInv
    <2>3. CleanPageIsStored
      BY <2>2 DEF CleanPageIsStored, Knows
    <2>4. UnchangedIsSame
      BY <2>2 DEF UnchangedIsSame, Knows, definitionChanged
    <2>5. QED
      BY <2>3, <2>4
  <1>2. RowsIInv /\ [RowsNext(Definition)]_rowsVars =>
          [row.state = "deleted" =>
             /\ row'.state = "deleted"
             /\ \A e \in PipelineEditor :
                   (queued /\ started[e].at # "executed") => started'[e].at # "executed"]_rowsVars
    BY DeletedForGood
  <1>3. QED
    BY <1>1, <1>2, RowsInitially, RowsStep, PTL DEF RowsSpec, RowsCorrect, DeletedStaysDeleted

=============================================================================
