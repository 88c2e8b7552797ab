---------------------------- MODULE Bridge_proofs ----------------------------
(***************************************************************************)
(* Theorems of the bridge: of SemanticEdit, for any sets of targets,       *)
(* callers and ids, and of Mortality, for any sets of nodes, regions and   *)
(* threads.                                                                *)
(***************************************************************************)
EXTENDS SemanticEdit, Mortality, SequenceTheorems, FiniteSetTheorems, TLAPS

-----------------------------------------------------------------------------
(***************************************************************************)
(* First layer: types and the bookkeeping of calls in flight.  The type of *)
(* locked needs the second: a draft's checkout has a target.               *)
(***************************************************************************)
Structure == TypeOK /\ CallsInFlight

\* Sweeping touches only Open checkouts and drafts.
LEMMA SweepShape ==
  ASSUME Structure, NEW t \in Targets
  PROVE  /\ ExpireCheckouts(Overdue(t)) \in [Checkouts -> CheckoutStatus]
         /\ DropDrafts(Overdue(t)) \in [Proposals -> ProposalStatus]
         /\ \A c \in Checkouts :
              ExpireCheckouts(Overdue(t))[c] = "Absent" <=> coStatus[c] = "Absent"
         /\ \A p \in Proposals :
              DropDrafts(Overdue(t))[p] = "Absent" <=> prStatus[p] = "Absent"
BY DEF Structure, TypeOK, ExpireCheckouts, DropDrafts, Overdue, OpenOn, CheckoutsOn,
       CheckoutStatus, ProposalStatus

LEMMA FinalizeShape ==
  ASSUME Structure, NEW p \in Proposals, prStatus[p] = "Draft"
  PROVE  /\ prCheckout[p] \in Checkouts
         /\ coTarget[prCheckout[p]] \in Targets
         /\ FinalizeCheckout(p) \in [Checkouts -> CheckoutStatus]
         /\ FinalizeProposal(p) \in [Proposals -> ProposalStatus]
         /\ \A c \in Checkouts :
              FinalizeCheckout(p)[c] = "Absent" <=> coStatus[c] = "Absent"
         /\ \A q \in Proposals :
              FinalizeProposal(p)[q] = "Absent" <=> prStatus[q] = "Absent"
<1>1. prCheckout[p] \in Checkouts /\ coTarget[prCheckout[p]] \in Targets
  BY DEF Structure, CallsInFlight
<1>2. QED
  BY <1>1 DEF Structure, TypeOK, FinalizeCheckout, FinalizeProposal, DropDrafts, Overdue,
              OpenOn, CheckoutsOn, CheckoutStatus, ProposalStatus

\* The bookkeeping survives every step.
LEMMA StructureStep ==
  ASSUME Structure, [Next]_vars
  PROVE  Structure'
<1> USE SemanticAssumption DEF Goto, table, graph, locals, Structure
<1>0. high' = high
  BY DEF Next, Call, Continue, TtlElapses, vars
<1>1. ASSUME NEW k \in Callers, NEW t \in Targets, SweepExpired(k, t)
      PROVE  Structure'
  <2>1. TypeOK'
    BY <1>0, <1>1, SweepShape DEF TypeOK, SweepExpired, Steps
  <2>2. CallsInFlight'
    BY <1>1, SweepShape DEF TypeOK, CallsInFlight, SweepExpired, Steps
  <2>3. QED
    BY <2>1, <2>2
<1>2. ASSUME NEW k \in Callers, NEW c \in Checkouts, NEW p \in Proposals,
             CreateProposalNode(k, c, p)
      PROVE  Structure'
  <2>1. TypeOK'
    BY <1>0, <1>2 DEF TypeOK, CreateProposalNode, Steps
  <2>2. CallsInFlight'
    BY <1>2 DEF TypeOK, CallsInFlight, CreateProposalNode, Steps
  <2>3. QED
    BY <2>1, <2>2
<1>3. ASSUME NEW k \in Callers, NEW p \in Proposals, RecordFinalize(k, p)
      PROVE  Structure'
  <2> DEFINE t == coTarget[prCheckout[p]]
  <2>1. /\ prCheckout[p] \in Checkouts
        /\ t \in Targets
        /\ coStatus' \in [Checkouts -> CheckoutStatus]
        /\ prStatus' \in [Proposals -> ProposalStatus]
        /\ \A c \in Checkouts : coStatus'[c] = "Absent" <=> coStatus[c] = "Absent"
        /\ \A q \in Proposals : prStatus'[q] = "Absent" <=> prStatus[q] = "Absent"
    BY <1>3, FinalizeShape DEF RecordFinalize
  <2>2. CASE StillOpen(t)
    BY <1>0, <1>3, <2>1, <2>2 DEF RecordFinalize, TypeOK, CallsInFlight
  <2>3. CASE ~ StillOpen(t)
    <3>1. /\ locked' = locked \cup {t}
          /\ target' = [target EXCEPT ![k] = t]
          /\ batch' = [batch EXCEPT ![k] = CollectFinalized(t)]
          /\ pc' = [pc EXCEPT ![k] = "snapshot"]
          /\ UNCHANGED <<lastSnapshot, graph, elapsed, delivered, node, round>>
      BY <1>3, <2>3 DEF RecordFinalize
    <3>2. CollectFinalized(t) \subseteq Proposals
      BY DEF CollectFinalized, ProposalsOn
    <3>3. TypeOK'
      BY <1>0, <2>1, <3>1, <3>2 DEF TypeOK, Steps
    <3>4. CallsInFlight'
      BY <2>1, <3>1 DEF TypeOK, CallsInFlight, Steps
    <3>5. QED
      BY <3>3, <3>4
  <2>4. QED
    BY <2>2, <2>3
<1>4. ASSUME NEW k \in Callers, NEW c \in Checkouts, CreateCheckoutNode(k, c)
      PROVE  Structure'
  <2>1. TypeOK'
    BY <1>0, <1>4 DEF TypeOK, CallsInFlight, CreateCheckoutNode, Steps
  <2>2. \A j \in Callers : pc[j] = "register" => node[j] # c
    BY <1>4 DEF TypeOK, CallsInFlight, CreateCheckoutNode, FreshCheckout
  <2>3. coStatus[c] = "Absent"
    BY <1>4 DEF TypeOK, CallsInFlight, CreateCheckoutNode, FreshCheckout
  <2>4. /\ coTarget' = [coTarget EXCEPT ![c] = target[k]]
        /\ node' = [node EXCEPT ![k] = c]
        /\ pc' = [pc EXCEPT ![k] = "register"]
        /\ target[k] \in Targets
        /\ UNCHANGED <<coStatus, prStatus, prCheckout, target>>
    BY <1>4 DEF TypeOK, CallsInFlight, CreateCheckoutNode
  <2>5. CallsInFlight'
    BY <2>2, <2>3, <2>4 DEF TypeOK, CallsInFlight, Steps
  <2>6. QED
    BY <2>1, <2>5
<1>5. ASSUME NEW k \in Callers, TryRegisterCheckout(k)
      PROVE  Structure'
  <2>1. TypeOK'
    BY <1>0, <1>5 DEF TypeOK, TryRegisterCheckout, Steps, CheckoutStatus
  <2>2. CallsInFlight'
    BY <1>5 DEF TypeOK, CallsInFlight, TryRegisterCheckout, Steps
  <2>3. QED
    BY <2>1, <2>2
<1>6. ASSUME NEW k \in Callers, RegisterProposal(k)
      PROVE  Structure'
  <2>1. TypeOK'
    BY <1>0, <1>6 DEF TypeOK, RegisterProposal, Steps, ProposalStatus
  <2>2. CallsInFlight'
    BY <1>6 DEF TypeOK, CallsInFlight, RegisterProposal, SupersededBy, DraftsOf, Steps
  <2>3. QED
    BY <2>1, <2>2
<1>7. ASSUME NEW k \in Callers, WriteSnapshot(k)
      PROVE  Structure'
  BY <1>0, <1>7 DEF TypeOK, CallsInFlight, WriteSnapshot, Steps
<1>8. ASSUME NEW k \in Callers, SnapshotRefused(k)
      PROVE  Structure'
  BY <1>0, <1>8 DEF TypeOK, CallsInFlight, SnapshotRefused, Steps
<1>9. ASSUME NEW k \in Callers, ReleaseSnapshotLock(k)
      PROVE  Structure'
  BY ZenonT(60), <1>0, <1>9 DEF TypeOK, CallsInFlight, ReleaseSnapshotLock, RecordSnapshot,
      ThenDispatch, Steps
<1>10. ASSUME NEW k \in Callers, DispatchSnapshot(k)
       PROVE  Structure'
  <2> DEFINE sent == Append(delivered[target[k]], round[k])
  <2>1. sent \in Seq(Nat)
    <3>1. delivered[target[k]] \in Seq(Nat) /\ round[k] \in Nat
      BY <1>10 DEF TypeOK, CallsInFlight, DispatchSnapshot
    <3>2. QED
      BY <3>1, AppendProperties
  <2>2. delivered' \in [Targets -> Seq(Nat)]
    <3>1. delivered' = [delivered EXCEPT ![target[k]] = sent]
      BY <1>10 DEF DispatchSnapshot
    <3> HIDE DEF sent
    <3>2. QED
      BY <2>1, <3>1 DEF TypeOK
  <2>3. TypeOK'
    BY <1>0, <1>10, <2>2 DEF TypeOK, DispatchSnapshot, Steps
  <2>4. CallsInFlight'
    BY <1>10 DEF TypeOK, CallsInFlight, DispatchSnapshot, Steps
  <2>5. QED
    BY <2>3, <2>4
<1>11. ASSUME NEW c \in Checkouts, TtlElapses(c)
       PROVE  Structure'
  BY <1>11 DEF TypeOK, CallsInFlight, TtlElapses
<1>12. CASE UNCHANGED vars
  BY <1>12 DEF vars, TypeOK, CallsInFlight
<1>13. QED
  BY <1>1, <1>2, <1>3, <1>4, <1>5, <1>6, <1>7, <1>8, <1>9, <1>10, <1>11, <1>12
  DEF Next, Call, Continue

\* Every variable keeps its type and every id in flight belongs to one call:
\* no call registers a node another call created, or one already registered.
THEOREM StructureCorrect == Spec => [](TypeOK /\ CallsInFlight)
<1>1. Init => Structure
  BY SemanticAssumption
  DEF Init, Structure, TypeOK, CallsInFlight, CheckoutStatus, ProposalStatus, Steps
<1>2. Structure /\ [Next]_vars => Structure'
  BY StructureStep
<1>3. QED
  BY <1>1, <1>2, PTL DEF Spec, Structure

-----------------------------------------------------------------------------
(***************************************************************************)
(* Second layer: one live proposal per checkout.  Drafts live only under   *)
(* Open checkouts, which is what lets the test "no checkout is Open" stand *)
(* for "no draft can be finalized any more" in the third layer.            *)
(***************************************************************************)
\* Sweeping the overdue checkouts of a target keeps one voice per checkout.
LEMMA SweepKeepsVoice ==
  ASSUME Structure, OneVoicePerCheckout, NEW t \in Targets,
         coStatus' = ExpireCheckouts(Overdue(t)), prStatus' = DropDrafts(Overdue(t)),
         UNCHANGED prCheckout
  PROVE  OneVoicePerCheckout'
<1>1. \A c \in Overdue(t) : c \in Checkouts /\ coStatus[c] = "Open"
  BY DEF Overdue, OpenOn, CheckoutsOn
<1>2. \A c \in Checkouts :
        /\ c \in Overdue(t) => coStatus'[c] = "Expired"
        /\ c \notin Overdue(t) => coStatus'[c] = coStatus[c]
  BY DEF ExpireCheckouts
<1>3. \A q \in Proposals :
        prStatus'[q] = IF prCheckout[q] \in Overdue(t) /\ prStatus[q] = "Draft"
                       THEN "Dropped" ELSE prStatus[q]
  BY DEF DropDrafts
<1>4. SUFFICES ASSUME NEW c \in Checkouts
               PROVE  /\ coStatus'[c] # "Open" => DraftsOf(c)' = {}
                      /\ \A p, q \in (DraftsOf(c) \cup Settled(c))' : p = q
                      /\ coStatus'[c] = "Finalized" <=> Settled(c)' # {}
  BY DEF OneVoicePerCheckout
<1>5. /\ DraftsOf(c)' = IF c \in Overdue(t) THEN {} ELSE DraftsOf(c)
      /\ Settled(c)' = Settled(c)
  BY <1>3 DEF DraftsOf, Settled
<1>6. QED
  BY <1>1, <1>2, <1>5 DEF OneVoicePerCheckout

\* Finalizing a draft settles its checkout and leaves the others as a sweep.
LEMMA FinalizeKeepsVoice ==
  ASSUME Structure, OneVoicePerCheckout, NEW p \in Proposals, prStatus[p] = "Draft",
         coStatus' = FinalizeCheckout(p), prStatus' = FinalizeProposal(p),
         UNCHANGED prCheckout
  PROVE  OneVoicePerCheckout'
<1> DEFINE own == prCheckout[p]
           lapsed == Overdue(coTarget[own]) \ {own}
<1>1. /\ own \in Checkouts
      /\ p \in DraftsOf(own)
      /\ coStatus[own] = "Open"
  BY FinalizeShape DEF DraftsOf, OneVoicePerCheckout
<1>2. \A c \in lapsed : c \in Checkouts /\ coStatus[c] = "Open" /\ c # own
  BY DEF Overdue, OpenOn, CheckoutsOn
<1>3. \A c \in Checkouts :
        coStatus'[c] = IF c = own THEN "Finalized"
                       ELSE IF c \in lapsed THEN "Expired" ELSE coStatus[c]
  BY <1>1 DEF FinalizeCheckout
<1>4. \A q \in Proposals :
        prStatus'[q] = IF q = p THEN "Finalized"
                       ELSE IF prCheckout[q] \in lapsed /\ prStatus[q] = "Draft"
                       THEN "Dropped" ELSE prStatus[q]
  BY DEF FinalizeProposal, DropDrafts
<1>5. SUFFICES ASSUME NEW c \in Checkouts
               PROVE  /\ coStatus'[c] # "Open" => DraftsOf(c)' = {}
                      /\ \A q, r \in (DraftsOf(c) \cup Settled(c))' : q = r
                      /\ coStatus'[c] = "Finalized" <=> Settled(c)' # {}
  BY DEF OneVoicePerCheckout
<1> HIDE DEF own, lapsed
<1>6. CASE c = own
  <2>1. \A q \in DraftsOf(c) \cup Settled(c) : q = p
    BY <1>1, <1>6 DEF OneVoicePerCheckout
  <2>2. DraftsOf(c)' = {} /\ Settled(c)' = {p}
    BY <1>1, <1>2, <1>4, <1>6, <2>1 DEF DraftsOf, Settled, own
  <2>3. QED
    BY <1>3, <1>6, <2>2
<1>7. CASE c # own
  <2>1. /\ DraftsOf(c)' = IF c \in lapsed THEN {} ELSE DraftsOf(c)
        /\ Settled(c)' = Settled(c)
    BY <1>4, <1>7 DEF DraftsOf, Settled, own
  <2>2. QED
    BY <1>2, <1>3, <1>7, <2>1 DEF OneVoicePerCheckout
<1>8. QED
  BY <1>6, <1>7

LEMMA VoiceStep ==
  ASSUME Structure, OneVoicePerCheckout, [Next]_vars
  PROVE  OneVoicePerCheckout'
<1> USE DEF table, graph
<1>1. ASSUME NEW k \in Callers, NEW t \in Targets, SweepExpired(k, t)
      PROVE  OneVoicePerCheckout'
  BY <1>1, SweepKeepsVoice DEF SweepExpired
<1>2. ASSUME NEW k \in Callers, NEW c \in Checkouts, NEW p \in Proposals,
             CreateProposalNode(k, c, p)
      PROVE  OneVoicePerCheckout'
  <2>1. prStatus[p] = "Absent"
    BY <1>2, SemanticAssumption DEF CreateProposalNode, Structure, CallsInFlight, TypeOK
  <2>2. \A d \in Checkouts : DraftsOf(d)' = DraftsOf(d) /\ Settled(d)' = Settled(d)
    BY <1>2, <2>1 DEF CreateProposalNode, DraftsOf, Settled, Structure, TypeOK
  <2>3. QED
    BY <1>2, <2>2 DEF CreateProposalNode, OneVoicePerCheckout
<1>3. ASSUME NEW k \in Callers, NEW p \in Proposals, RecordFinalize(k, p)
      PROVE  OneVoicePerCheckout'
  BY <1>3, FinalizeKeepsVoice DEF RecordFinalize
<1>4. ASSUME NEW k \in Callers, TryRegisterCheckout(k)
      PROVE  OneVoicePerCheckout'
  <2>1. \A d \in Checkouts : DraftsOf(d)' = DraftsOf(d) /\ Settled(d)' = Settled(d)
    BY <1>4 DEF TryRegisterCheckout, DraftsOf, Settled
  <2>2. \A d \in Checkouts :
          \/ coStatus'[d] = coStatus[d]
          \/ coStatus[d] = "Absent" /\ coStatus'[d] = "Open"
    BY <1>4 DEF TryRegisterCheckout, Structure, CallsInFlight, TypeOK
  <2>3. QED
    BY <2>1, <2>2 DEF OneVoicePerCheckout
<1>5. ASSUME NEW k \in Callers, RegisterProposal(k)
      PROVE  OneVoicePerCheckout'
  <2>1. PICK p \in Proposals, c \in Checkouts :
          /\ p = node[k]
          /\ c = prCheckout[p]
          /\ prStatus[p] = "Absent"
          /\ UNCHANGED <<coStatus, prCheckout>>
    BY <1>5 DEF RegisterProposal, Structure, CallsInFlight
  <2>2. CASE coStatus[c] # "Open"
    BY <1>5, <2>1, <2>2 DEF RegisterProposal, OneVoicePerCheckout, DraftsOf, Settled
  <2>3. CASE coStatus[c] = "Open"
    <3>1. \A q \in Proposals :
            prStatus'[q] = IF q = p THEN "Draft"
                           ELSE IF q \in DraftsOf(c) THEN "Superseded" ELSE prStatus[q]
      BY <1>5, <2>1, <2>3 DEF RegisterProposal, SupersededBy
    <3>2. Settled(c) = {}
      BY <2>1, <2>3 DEF OneVoicePerCheckout
    <3>3. DraftsOf(c)' = {p} /\ Settled(c)' = {}
      BY <2>1, <3>1, <3>2 DEF DraftsOf, Settled
    <3>4. \A d \in Checkouts \ {c} : DraftsOf(d)' = DraftsOf(d) /\ Settled(d)' = Settled(d)
      BY <2>1, <3>1 DEF DraftsOf, Settled
    <3>5. QED
      BY <2>1, <2>3, <3>3, <3>4 DEF OneVoicePerCheckout
  <2>4. QED
    BY <2>2, <2>3
<1>6. ASSUME UNCHANGED <<coStatus, prStatus, prCheckout>>
      PROVE  OneVoicePerCheckout'
  BY <1>6 DEF OneVoicePerCheckout, DraftsOf, Settled
<1>7. QED
  <2>1. ASSUME NEW k \in Callers, NEW c \in Checkouts, CreateCheckoutNode(k, c)
        PROVE  OneVoicePerCheckout'
    BY <2>1, <1>6 DEF CreateCheckoutNode
  <2>2. ASSUME NEW k \in Callers,
               \/ WriteSnapshot(k) \/ SnapshotRefused(k)
               \/ ReleaseSnapshotLock(k) \/ DispatchSnapshot(k)
        PROVE  OneVoicePerCheckout'
    BY <2>2, <1>6 DEF WriteSnapshot, SnapshotRefused, ReleaseSnapshotLock, DispatchSnapshot
  <2>3. ASSUME NEW c \in Checkouts, TtlElapses(c)
        PROVE  OneVoicePerCheckout'
    BY <2>3, <1>6 DEF TtlElapses
  <2>4. CASE UNCHANGED vars
    BY <2>4, <1>6 DEF vars
  <2>5. QED
    BY <1>1, <1>2, <1>3, <1>4, <1>5, <2>1, <2>2, <2>3, <2>4 DEF Next, Call, Continue

\* A checkout never carries two live proposals, and is Finalized exactly when
\* one proposal under it was.
THEOREM OneVoice == Spec => []OneVoicePerCheckout
<1>1. Init => OneVoicePerCheckout
  BY DEF Init, OneVoicePerCheckout, DraftsOf, Settled
<1>2. Structure /\ OneVoicePerCheckout /\ [Next]_vars => OneVoicePerCheckout'
  BY VoiceStep
<1>3. QED
  BY <1>1, <1>2, StructureCorrect, PTL DEF Spec, Structure

-----------------------------------------------------------------------------
(***************************************************************************)
(* How the steps move the two things the rest of the proof looks at: the   *)
(* Open checkouts and the finalized proposals of each target.              *)
(***************************************************************************)
LEMMA SweepView ==
  ASSUME Structure, NEW k \in Callers, NEW t \in Targets, SweepExpired(k, t)
  PROVE  \A x \in Targets :
           /\ OpenOn(x)' = IF x = t THEN OpenOn(t) \ Overdue(t) ELSE OpenOn(x)
           /\ FinalizedOn(x)' = FinalizedOn(x)
<1>1. \A x \in Targets : CheckoutsOn(x)' = CheckoutsOn(x) /\ ProposalsOn(x)' = ProposalsOn(x)
  BY DEF SweepExpired, graph, CheckoutsOn, ProposalsOn
<1>2. \A c \in Checkouts : coStatus'[c] = IF c \in Overdue(t) THEN "Expired" ELSE coStatus[c]
  BY DEF SweepExpired, ExpireCheckouts
<1>3. \A p \in Proposals : prStatus'[p] = "Finalized" <=> prStatus[p] = "Finalized"
  BY DEF SweepExpired, DropDrafts
<1>4. \A x \in Targets : OpenOn(x)' = IF x = t THEN OpenOn(t) \ Overdue(t) ELSE OpenOn(x)
  BY <1>1, <1>2 DEF OpenOn, Overdue, CheckoutsOn
<1>5. \A x \in Targets : FinalizedOn(x)' = FinalizedOn(x)
  BY <1>1, <1>3 DEF FinalizedOn, ProposalsOn
<1>6. QED
  BY <1>4, <1>5

LEMMA RegisterView ==
  ASSUME Structure, NEW k \in Callers, TryRegisterCheckout(k)
  PROVE  \A x \in Targets :
           /\ OpenOn(x)' = IF x = target[k] /\ x \notin locked
                           THEN OpenOn(x) \cup {node[k]} ELSE OpenOn(x)
           /\ FinalizedOn(x)' = FinalizedOn(x)
<1>1. /\ node[k] \in Checkouts
      /\ coTarget[node[k]] = target[k]
      /\ UNCHANGED <<coTarget, prCheckout, prStatus>>
  BY DEF TryRegisterCheckout, Structure, CallsInFlight, graph
<1>2. \A c \in Checkouts :
        coStatus'[c] = IF c = node[k] /\ target[k] \notin locked THEN "Open" ELSE coStatus[c]
  BY DEF TryRegisterCheckout, LockHeld, Structure, TypeOK
<1>3. \A x \in Targets : FinalizedOn(x)' = FinalizedOn(x)
  BY <1>1 DEF FinalizedOn, ProposalsOn, CheckoutsOn
<1>4. \A x \in Targets :
        OpenOn(x)' = IF x = target[k] /\ x \notin locked
                     THEN OpenOn(x) \cup {node[k]} ELSE OpenOn(x)
  BY <1>1, <1>2 DEF OpenOn, CheckoutsOn
<1>5. QED
  BY <1>3, <1>4

\* Creating nodes and registering drafts moves neither.
LEMMA DraftView ==
  ASSUME Structure, NEW k \in Callers,
         \/ \E c \in Checkouts : CreateCheckoutNode(k, c)
         \/ \E c \in Checkouts, p \in Proposals : CreateProposalNode(k, c, p)
         \/ RegisterProposal(k)
  PROVE  \A x \in Targets : OpenOn(x)' = OpenOn(x) /\ FinalizedOn(x)' = FinalizedOn(x)
<1>1. ASSUME NEW c \in Checkouts, CreateCheckoutNode(k, c), NEW x \in Targets
      PROVE  OpenOn(x)' = OpenOn(x) /\ FinalizedOn(x)' = FinalizedOn(x)
  <2>1. coStatus[c] = "Absent"
    BY <1>1, SemanticAssumption
    DEF CreateCheckoutNode, FreshCheckout, Structure, CallsInFlight, TypeOK
  <2>2. \A d \in Checkouts \ {c} : coTarget'[d] = coTarget[d]
    BY <1>1 DEF CreateCheckoutNode, Structure, TypeOK
  <2>3. \A p \in Proposals : prCheckout[p] # c
    BY <2>1 DEF Structure, CallsInFlight
  <2>4. UNCHANGED <<coStatus, prStatus, prCheckout>>
    BY <1>1 DEF CreateCheckoutNode, table
  <2>5. OpenOn(x)' = OpenOn(x)
    BY <2>1, <2>2, <2>4 DEF OpenOn, CheckoutsOn
  <2>6. FinalizedOn(x)' = FinalizedOn(x)
    BY <2>2, <2>3, <2>4 DEF FinalizedOn, ProposalsOn, CheckoutsOn
  <2>7. QED
    BY <2>5, <2>6
<1>2. ASSUME NEW c \in Checkouts, NEW p \in Proposals, CreateProposalNode(k, c, p),
             NEW x \in Targets
      PROVE  OpenOn(x)' = OpenOn(x) /\ FinalizedOn(x)' = FinalizedOn(x)
  <2>1. prStatus[p] = "Absent"
    BY <1>2, SemanticAssumption DEF CreateProposalNode, Structure, CallsInFlight, TypeOK
  <2>2. \A q \in Proposals \ {p} : prCheckout'[q] = prCheckout[q]
    BY <1>2 DEF CreateProposalNode, Structure, TypeOK
  <2>3. QED
    BY <1>2, <2>1, <2>2
    DEF CreateProposalNode, table, OpenOn, FinalizedOn, ProposalsOn, CheckoutsOn
<1>3. ASSUME RegisterProposal(k), NEW x \in Targets
      PROVE  OpenOn(x)' = OpenOn(x) /\ FinalizedOn(x)' = FinalizedOn(x)
  <2>1. \A q \in Proposals : prStatus'[q] = "Finalized" <=> prStatus[q] = "Finalized"
    BY <1>3 DEF RegisterProposal, SupersededBy, DraftsOf, Structure, CallsInFlight
  <2>2. QED
    BY <1>3, <2>1
    DEF RegisterProposal, graph, OpenOn, FinalizedOn, ProposalsOn, CheckoutsOn
<1>4. QED
  BY <1>1, <1>2, <1>3

LEMMA FinalizeView ==
  ASSUME Structure, OneVoicePerCheckout,
         NEW k \in Callers, NEW p \in Proposals, NEW t \in Targets,
         RecordFinalize(k, p), t = coTarget[prCheckout[p]]
  PROVE  /\ prCheckout[p] \in OpenOn(t)
         /\ p \notin FinalizedOn(t)
         /\ \A x \in Targets :
              /\ OpenOn(x)' = IF x = t THEN OpenOn(t) \ (Overdue(t) \cup {prCheckout[p]})
                              ELSE OpenOn(x)
              /\ FinalizedOn(x)' = IF x = t THEN FinalizedOn(t) \cup {p} ELSE FinalizedOn(x)
         /\ StillOpen(t) <=> OpenOn(t)' # {}
         /\ CollectFinalized(t) = FinalizedOn(t)'
<1>1. PICK own \in Checkouts : own = prCheckout[p]
  BY FinalizeShape DEF RecordFinalize
<1>2. coStatus[own] = "Open" /\ prStatus[p] = "Draft"
  BY <1>1 DEF RecordFinalize, OneVoicePerCheckout, DraftsOf
<1>3. UNCHANGED <<coTarget, prCheckout>>
  BY DEF RecordFinalize, graph
<1>4. \A c \in Checkouts :
        coStatus'[c] = IF c = own THEN "Finalized"
                       ELSE IF c \in Overdue(t) THEN "Expired" ELSE coStatus[c]
  BY <1>1, <1>2 DEF RecordFinalize, FinalizeCheckout
<1>5. \A q \in Proposals :
        prStatus'[q] = "Finalized" <=> q = p \/ prStatus[q] = "Finalized"
  BY <1>1 DEF RecordFinalize, FinalizeProposal, DropDrafts
<1>6. \A x \in Targets : OpenOn(x)' = IF x = t THEN OpenOn(t) \ (Overdue(t) \cup {own})
                                      ELSE OpenOn(x)
  BY <1>1, <1>3, <1>4 DEF OpenOn, CheckoutsOn, Overdue
<1>7. \A x \in Targets : FinalizedOn(x)' = IF x = t THEN FinalizedOn(t) \cup {p}
                                           ELSE FinalizedOn(x)
  BY <1>1, <1>3, <1>5 DEF FinalizedOn, ProposalsOn, CheckoutsOn
<1>8. own \in OpenOn(t) /\ p \notin FinalizedOn(t)
  BY <1>1, <1>2 DEF OpenOn, CheckoutsOn, FinalizedOn
<1>9. (StillOpen(t) <=> OpenOn(t)' # {}) /\ CollectFinalized(t) = FinalizedOn(t)'
  BY <1>3 DEF StillOpen, OpenOn, CollectFinalized, FinalizedOn, ProposalsOn, CheckoutsOn
<1>10. QED
  BY <1>1, <1>6, <1>7, <1>8, <1>9

\* The remaining steps leave both, and the graph they are read from, alone.
LEMMA QuietView ==
  ASSUME UNCHANGED <<coTarget, coStatus, prCheckout, prStatus>>
  PROVE  \A x \in Targets : OpenOn(x)' = OpenOn(x) /\ FinalizedOn(x)' = FinalizedOn(x)
BY DEF OpenOn, FinalizedOn, ProposalsOn, CheckoutsOn

-----------------------------------------------------------------------------
(***************************************************************************)
(* Third layer: the SnapshotLock.  While it is held no checkout is Open,   *)
(* its holder is unique, and what the holder read stays current; each of   *)
(* the three needs the others.                                             *)
(***************************************************************************)
LockDiscipline ==
  /\ \A t \in locked : OpenOn(t) = {}
  /\ OneWriterPerRound
  /\ SnapshotIsCurrent

LEMMA ClosedRoundHasNoDraft ==
  ASSUME Structure, OneVoicePerCheckout, \A t \in locked : OpenOn(t) = {}
  PROVE  SnapshotLockClosesRound
BY DEF SnapshotLockClosesRound, OneVoicePerCheckout, DraftsOf, OpenOn, CheckoutsOn, ProposalsOn

\* A target whose proposal is being finalized is not under the SnapshotLock.
LEMMA FinalizeUnlocked ==
  ASSUME Structure, OneVoicePerCheckout, LockDiscipline,
         NEW k \in Callers, NEW p \in Proposals, NEW t \in Targets,
         RecordFinalize(k, p), t = coTarget[prCheckout[p]]
  PROVE  t \notin locked
BY FinalizeView DEF LockDiscipline

LEMMA LockStep ==
  ASSUME Structure, OneVoicePerCheckout, LockDiscipline, [Next]_vars
  PROVE  LockDiscipline'
<1> USE DEF table, graph, locals, Goto, Structure
<1>1. ASSUME NEW k \in Callers, NEW t \in Targets, SweepExpired(k, t)
      PROVE  LockDiscipline'
  <2>1. /\ pc[k] = "idle"
        /\ target' = [target EXCEPT ![k] = t]
        /\ pc' = [pc EXCEPT ![k] = "create"]
        /\ UNCHANGED <<locked, batch>>
    BY <1>1 DEF SweepExpired
  <2>2. \A x \in Targets : OpenOn(x)' \subseteq OpenOn(x) /\ FinalizedOn(x)' = FinalizedOn(x)
    BY <1>1, SweepView
  <2>3. QED
    BY <2>1, <2>2
    DEF LockDiscipline, OneWriterPerRound, Writing, SnapshotIsCurrent, TypeOK
<1>2. ASSUME NEW k \in Callers,
             \/ \E c \in Checkouts : CreateCheckoutNode(k, c)
             \/ \E c \in Checkouts, p \in Proposals : CreateProposalNode(k, c, p)
             \/ RegisterProposal(k)
      PROVE  LockDiscipline'
  <2>1. /\ ~ Writing(k)
        /\ \/ pc' = [pc EXCEPT ![k] = "register"]
           \/ pc' = [pc EXCEPT ![k] = "draft"]
           \/ pc' = [pc EXCEPT ![k] = "idle"]
        /\ UNCHANGED <<locked, target, batch>>
    BY <1>2 DEF CreateCheckoutNode, CreateProposalNode, RegisterProposal, Writing
  <2>2. \A x \in Targets : OpenOn(x)' = OpenOn(x) /\ FinalizedOn(x)' = FinalizedOn(x)
    BY <1>2, DraftView
  <2>3. \A j \in Callers : Writing(j)' <=> Writing(j)
    BY <2>1 DEF Writing, TypeOK
  <2>4. \A j \in Callers : pc'[j] = "snapshot" => pc[j] = "snapshot"
    BY <2>1 DEF Writing, TypeOK
  <2>5. QED
    BY <2>1, <2>2, <2>3, <2>4
    DEF LockDiscipline, OneWriterPerRound, SnapshotIsCurrent, Writing, TypeOK, CallsInFlight
<1>3. ASSUME NEW k \in Callers, TryRegisterCheckout(k)
      PROVE  LockDiscipline'
  <2>1. /\ pc[k] = "register"
        /\ target' = [target EXCEPT ![k] = None]
        /\ pc' = [pc EXCEPT ![k] = "idle"]
        /\ UNCHANGED <<locked, batch>>
    BY <1>3 DEF TryRegisterCheckout
  <2>2. \A x \in Targets :
          /\ x \in locked => OpenOn(x)' = OpenOn(x)
          /\ FinalizedOn(x)' = FinalizedOn(x)
    BY <1>3, RegisterView
  <2>3. QED
    BY <2>1, <2>2
    DEF LockDiscipline, OneWriterPerRound, Writing, SnapshotIsCurrent, TypeOK, CallsInFlight
<1>4. ASSUME NEW k \in Callers, NEW p \in Proposals, RecordFinalize(k, p)
      PROVE  LockDiscipline'
  <2>1. PICK t \in Targets : t = coTarget[prCheckout[p]]
    BY <1>4, FinalizeShape DEF RecordFinalize
  <2>2. t \notin locked
    BY <1>4, <2>1, FinalizeUnlocked
  <2>3. \A x \in Targets :
          /\ OpenOn(x)' \subseteq OpenOn(x)
          /\ x # t => FinalizedOn(x)' = FinalizedOn(x)
    BY <1>4, <2>1, FinalizeView
  <2>4. pc[k] = "idle"
    BY <1>4 DEF RecordFinalize
  <2>5. CASE StillOpen(t)
    <3>1. UNCHANGED <<locked, target, batch, pc>>
      BY <1>4, <2>1, <2>5 DEF RecordFinalize
    <3>2. QED
      BY <2>2, <2>3, <3>1
      DEF LockDiscipline, OneWriterPerRound, Writing, SnapshotIsCurrent, TypeOK, CallsInFlight
  <2>6. CASE ~ StillOpen(t)
    <3>1. /\ locked' = locked \cup {t}
          /\ target' = [target EXCEPT ![k] = t]
          /\ batch' = [batch EXCEPT ![k] = FinalizedOn(t)']
          /\ pc' = [pc EXCEPT ![k] = "snapshot"]
          /\ OpenOn(t)' = {}
      BY <1>4, <2>1, <2>6, FinalizeView DEF RecordFinalize
    <3>2. \A x \in locked' : OpenOn(x)' = {}
      BY <2>3, <3>1 DEF LockDiscipline, TypeOK
    <3>3. OneWriterPerRound'
      BY <2>2, <2>4, <3>1 DEF LockDiscipline, OneWriterPerRound, Writing, TypeOK
    <3>4. SnapshotIsCurrent'
      <4>1. ASSUME NEW j \in Callers, pc'[j] = "snapshot"
            PROVE  \E x \in Targets : target'[j] = x /\ batch'[j] = FinalizedOn(x)'
        <5>1. CASE j = k
          BY <3>1, <5>1 DEF TypeOK
        <5>2. CASE j # k
          <6>1. /\ pc[j] = "snapshot"
                /\ target'[j] = target[j]
                /\ batch'[j] = batch[j]
            BY <3>1, <4>1, <5>2 DEF TypeOK
          <6>2. target[j] \in Targets /\ target[j] # t
            BY <2>2, <6>1 DEF LockDiscipline, OneWriterPerRound, Writing, CallsInFlight
          <6>3. PICK x \in Targets : x = target[j] /\ x # t
            BY <6>2
          <6>4. batch[j] = FinalizedOn(x)
            BY <6>1, <6>3 DEF LockDiscipline, SnapshotIsCurrent
          <6>5. QED
            BY <2>3, <6>1, <6>3, <6>4
        <5>3. QED
          BY <5>1, <5>2
      <4>2. QED
        BY <4>1 DEF SnapshotIsCurrent
    <3>5. QED
      BY <3>2, <3>3, <3>4 DEF LockDiscipline
  <2>7. QED
    BY <2>5, <2>6
<1>5. ASSUME NEW k \in Callers, WriteSnapshot(k)
      PROVE  LockDiscipline'
  <2>1. \A x \in Targets : OpenOn(x)' = OpenOn(x) /\ FinalizedOn(x)' = FinalizedOn(x)
    BY <1>5, QuietView DEF WriteSnapshot
  <2>2. QED
    BY <1>5, <2>1
    DEF WriteSnapshot, LockDiscipline, OneWriterPerRound, Writing, SnapshotIsCurrent, TypeOK,
        CallsInFlight
<1>6. ASSUME NEW k \in Callers, SnapshotRefused(k)
      PROVE  LockDiscipline'
  <2>1. \A x \in Targets : OpenOn(x)' = OpenOn(x) /\ FinalizedOn(x)' = FinalizedOn(x)
    BY <1>6, QuietView DEF SnapshotRefused
  <2>2. QED
    BY <1>6, <2>1
    DEF SnapshotRefused, LockDiscipline, OneWriterPerRound, Writing, SnapshotIsCurrent, TypeOK,
        CallsInFlight
<1>7. ASSUME NEW k \in Callers, ReleaseSnapshotLock(k)
      PROVE  LockDiscipline'
  <2>1. \A x \in Targets : OpenOn(x)' = OpenOn(x) /\ FinalizedOn(x)' = FinalizedOn(x)
    BY <1>7, QuietView DEF ReleaseSnapshotLock
  <2>2. QED
    BY <1>7, <2>1
    DEF ReleaseSnapshotLock, ThenDispatch, LockDiscipline, OneWriterPerRound, Writing,
        SnapshotIsCurrent, TypeOK, CallsInFlight
<1>8. ASSUME NEW k \in Callers, DispatchSnapshot(k)
      PROVE  LockDiscipline'
  <2>1. \A x \in Targets : OpenOn(x)' = OpenOn(x) /\ FinalizedOn(x)' = FinalizedOn(x)
    BY <1>8, QuietView DEF DispatchSnapshot
  <2>2. QED
    BY <1>8, <2>1
    DEF DispatchSnapshot, LockDiscipline, OneWriterPerRound, Writing, SnapshotIsCurrent, TypeOK,
        CallsInFlight
<1>9. ASSUME UNCHANGED <<coTarget, coStatus, prCheckout, prStatus, locked, pc, target, batch>>
      PROVE  LockDiscipline'
  <2>1. \A x \in Targets : OpenOn(x)' = OpenOn(x) /\ FinalizedOn(x)' = FinalizedOn(x)
    BY <1>9, QuietView
  <2>2. QED
    BY <1>9, <2>1
    DEF LockDiscipline, OneWriterPerRound, Writing, SnapshotIsCurrent, TypeOK, CallsInFlight
<1>10. QED
  <2>1. ASSUME NEW c \in Checkouts, TtlElapses(c)
        PROVE  LockDiscipline'
    BY <2>1, <1>9 DEF TtlElapses
  <2>2. CASE UNCHANGED vars
    BY <2>2, <1>9 DEF vars
  <2>3. QED
    BY <1>1, <1>2, <1>3, <1>4, <1>5, <1>6, <1>7, <1>8, <2>1, <2>2 DEF Next, Call, Continue

\* While a target is under the SnapshotLock its round is closed, exactly one
\* thread is writing its snapshot, and that snapshot is of all the finalized
\* proposals although they were read in an earlier critical section.
THEOREM SnapshotLockSafe == Spec => []RoundIsClosed
<1>1. Init => LockDiscipline
  BY DEF Init, LockDiscipline, OneWriterPerRound, Writing, SnapshotIsCurrent
<1>2. Structure /\ OneVoicePerCheckout /\ LockDiscipline /\ [Next]_vars => LockDiscipline'
  BY LockStep
<1>3. Structure /\ OneVoicePerCheckout /\ LockDiscipline => RoundIsClosed
  BY ClosedRoundHasNoDraft DEF LockDiscipline, RoundIsClosed
<1>4. QED
  BY <1>1, <1>2, <1>3, StructureCorrect, OneVoice, PTL DEF Spec, Structure

-----------------------------------------------------------------------------
\* A closed checkout never changes outcome, nor does a proposal that was
\* finalized, superseded or dropped: no sweep, draft or finalize undoes one.
THEOREM FinalOutcomes == Spec => OutcomesAreFinal
<1> DEFINE Final ==
      /\ \A c \in Checkouts :
           coStatus[c] \in {"Finalized", "Expired"} => coStatus'[c] = coStatus[c]
      /\ \A p \in Proposals :
           prStatus[p] \in {"Finalized", "Superseded", "Dropped"} => prStatus'[p] = prStatus[p]
<1>1. ASSUME Structure, OneVoicePerCheckout, [Next]_vars
      PROVE  Final
  <2> USE DEF table, Structure
  <2>1. ASSUME NEW k \in Callers, NEW t \in Targets, SweepExpired(k, t)
        PROVE  Final
    BY <1>1, <2>1 DEF SweepExpired, ExpireCheckouts, DropDrafts, Overdue, OpenOn
  <2>2. ASSUME NEW k \in Callers, NEW p \in Proposals, RecordFinalize(k, p)
        PROVE  Final
    BY <1>1, <2>2, FinalizeShape
    DEF RecordFinalize, FinalizeCheckout, FinalizeProposal, DropDrafts, Overdue, OpenOn
  <2>3. ASSUME NEW k \in Callers, TryRegisterCheckout(k)
        PROVE  Final
    <3>1. /\ node[k] \in Checkouts
          /\ coStatus[node[k]] = "Absent"
          /\ prStatus' = prStatus
          /\ coStatus' = coStatus \/ coStatus' = [coStatus EXCEPT ![node[k]] = "Open"]
      BY <1>1, <2>3 DEF TryRegisterCheckout, CallsInFlight
    <3>2. QED
      BY <1>1, <3>1 DEF TypeOK
  <2>4. ASSUME NEW k \in Callers, RegisterProposal(k)
        PROVE  Final
    <3>1. PICK p \in Proposals : p = node[k] /\ prStatus[p] = "Absent"
      BY <1>1, <2>4 DEF RegisterProposal, CallsInFlight
    <3>2. coStatus' = coStatus
      BY <2>4 DEF RegisterProposal
    <3>3. \A q \in Proposals :
            q = p \/ prStatus[q] = "Draft" \/ prStatus'[q] = prStatus[q]
      BY <2>4, <3>1 DEF RegisterProposal, SupersededBy, DraftsOf
    <3>4. QED
      BY <3>1, <3>2, <3>3
  <2>5. ASSUME UNCHANGED <<coStatus, prStatus>>
        PROVE  Final
    BY <2>5
  <2>6. QED
    BY <1>1, <2>1, <2>2, <2>3, <2>4, <2>5
    DEF Next, Call, Continue, CreateCheckoutNode, CreateProposalNode, WriteSnapshot,
        SnapshotRefused, ReleaseSnapshotLock, DispatchSnapshot, TtlElapses, vars
<1>2. QED
  BY <1>1, StructureCorrect, OneVoice, PTL DEF Spec, Structure, OutcomesAreFinal

-----------------------------------------------------------------------------
(***************************************************************************)
(* Snapshots grow.  What is written is all the finalized proposals, the    *)
(* earlier snapshots held only finalized proposals, and the proposal whose *)
(* finalization closed the round is in none of them.                       *)
(***************************************************************************)
Past(t) == 1..Len(snapshots[t])
Growth ==
  /\ \A t \in Targets : \A i \in Past(t) : snapshots[t][i] \subseteq FinalizedOn(t)
  /\ \A k \in Callers :
       pc[k] = "snapshot" =>
         \E p \in batch[k] : \A i \in Past(target[k]) : p \notin snapshots[target[k]][i]
  /\ SnapshotsGrow

\* A finalized proposal is never taken out of the finalized set.
LEMMA FinalizedKept ==
  ASSUME Structure, OneVoicePerCheckout, [Next]_vars
  PROVE  \A x \in Targets : FinalizedOn(x) \subseteq FinalizedOn(x)'
<1>1. ASSUME NEW k \in Callers, NEW p \in Proposals, RecordFinalize(k, p), NEW x \in Targets
      PROVE  FinalizedOn(x) \subseteq FinalizedOn(x)'
  <2>1. PICK t \in Targets : t = coTarget[prCheckout[p]]
    BY <1>1, FinalizeShape DEF RecordFinalize
  <2>2. QED
    BY <1>1, <2>1, FinalizeView
<1>2. ASSUME UNCHANGED <<coTarget, coStatus, prCheckout, prStatus>>
      PROVE  \A x \in Targets : FinalizedOn(x) \subseteq FinalizedOn(x)'
  BY <1>2, QuietView
<1>3. QED
  BY <1>1, <1>2, SweepView, RegisterView, DraftView
  DEF Next, Call, Continue, WriteSnapshot, SnapshotRefused, ReleaseSnapshotLock,
      DispatchSnapshot, TtlElapses, vars, table, graph

LEMMA GrowthStep ==
  ASSUME Structure, OneVoicePerCheckout, LockDiscipline, Growth, [Next]_vars
  PROVE  Growth'
<1> USE DEF Structure
<1>1. ASSUME NEW k \in Callers, WriteSnapshot(k)
      PROVE  Growth'
  <2>1. PICK t \in Targets, b \in SUBSET Proposals : t = target[k] /\ b = batch[k]
    BY <1>1 DEF WriteSnapshot, CallsInFlight, TypeOK
  <2>2. /\ pc[k] = "snapshot"
        /\ snapshots' = [snapshots EXCEPT ![t] = Append(snapshots[t], b)]
        /\ pc' = [pc EXCEPT ![k] = "release"]
        /\ UNCHANGED <<target, batch>>
    BY <1>1, <2>1 DEF WriteSnapshot, Goto, locals
  <2>3. \A x \in Targets : FinalizedOn(x)' = FinalizedOn(x)
    BY <1>1, QuietView DEF WriteSnapshot, table
  <2>4. /\ Len(snapshots'[t]) = Len(snapshots[t]) + 1
        /\ \A i \in Past(t) : snapshots'[t][i] = snapshots[t][i]
        /\ snapshots'[t][Len(snapshots[t]) + 1] = b
        /\ Len(snapshots[t]) \in Nat
    BY <2>2, AppendProperties DEF TypeOK, Past
  <2>5. \A x \in Targets \ {t} : snapshots'[x] = snapshots[x]
    BY <2>2 DEF TypeOK
  <2>6. b = FinalizedOn(t)
    BY <2>1, <2>2 DEF LockDiscipline, SnapshotIsCurrent
  <2>7. \A i \in Past(t) : snapshots[t][i] \subseteq b /\ snapshots[t][i] # b
    BY <2>1, <2>2, <2>6 DEF Growth
  <2>8. \A x \in Targets : \A i \in Past(x)' : snapshots'[x][i] \subseteq FinalizedOn(x)'
    <3> SUFFICES ASSUME NEW x \in Targets, NEW i \in Past(x)'
                 PROVE  snapshots'[x][i] \subseteq FinalizedOn(x)'
      OBVIOUS
    <3>1. CASE x # t
      BY <2>3, <2>5, <3>1 DEF Growth, Past
    <3>2. CASE x = t
      <4>1. i \in Past(t) \/ i = Len(snapshots[t]) + 1
        BY <2>4, <3>2 DEF Past
      <4>2. QED
        BY <2>3, <2>4, <2>6, <2>7, <3>2, <4>1
    <3>3. QED
      BY <3>1, <3>2
  <2>9. ASSUME NEW j \in Callers, pc'[j] = "snapshot"
        PROVE  \E x \in Targets :
                 /\ target'[j] = x
                 /\ \E p \in batch'[j] : \A i \in Past(x)' : p \notin snapshots'[x][i]
    <3>1. j # k /\ pc[j] = "snapshot"
      BY <2>2, <2>9 DEF TypeOK
    <3>2. target[j] \in Targets /\ target[j] # t
      BY <2>1, <2>2, <3>1 DEF LockDiscipline, OneWriterPerRound, Writing, CallsInFlight
    <3>3. snapshots'[target[j]] = snapshots[target[j]]
      BY <2>5, <3>2
    <3>4. QED
      BY <2>2, <3>1, <3>2, <3>3 DEF Growth, Past
  <2>10. ASSUME NEW x \in Targets, NEW i \in Past(x)', NEW j \in Past(x)', i < j
         PROVE  snapshots'[x][i] \subseteq snapshots'[x][j] /\ snapshots'[x][i] # snapshots'[x][j]
    <3>1. CASE x # t
      BY <2>5, <2>10, <3>1 DEF Growth, SnapshotsGrow, Past
    <3>2. CASE x = t
      <4>1. i \in Past(t) /\ (j \in Past(t) \/ j = Len(snapshots[t]) + 1)
        BY <2>4, <2>10, <3>2 DEF Past
      <4>2. QED
        BY SMTT(30), <2>4, <2>7, <2>10, <3>2, <4>1 DEF Growth, SnapshotsGrow, Past
    <3>3. QED
      BY <3>1, <3>2
  <2>11. QED
    BY <2>8, <2>9, <2>10 DEF Growth, SnapshotsGrow, Past
<1>2. ASSUME NEW k \in Callers, NEW p \in Proposals, RecordFinalize(k, p)
      PROVE  Growth'
  <2>1. PICK t \in Targets : t = coTarget[prCheckout[p]]
    BY <1>2, FinalizeShape DEF RecordFinalize
  <2>2. UNCHANGED snapshots
    BY <1>2 DEF RecordFinalize, graph
  <2>3. \A i \in Past(t) : p \notin snapshots[t][i]
    BY <1>2, <2>1, FinalizeView DEF Growth
  <2>4. ASSUME NEW j \in Callers, pc'[j] = "snapshot"
        PROVE  \E x \in Targets :
                 /\ target'[j] = x
                 /\ \E q \in batch'[j] : \A i \in Past(x)' : q \notin snapshots'[x][i]
    <3>1. \/ UNCHANGED <<target, batch, pc>>
          \/ /\ target' = [target EXCEPT ![k] = t]
             /\ batch' = [batch EXCEPT ![k] = FinalizedOn(t)']
             /\ pc' = [pc EXCEPT ![k] = "snapshot"]
      BY <1>2, <2>1, FinalizeView DEF RecordFinalize, Goto
    <3>2. CASE j = k
      <4>1. pc[k] = "idle"
        BY <1>2 DEF RecordFinalize
      <4>2. target'[j] = t /\ p \in batch'[j]
        BY <1>2, <2>1, <2>4, <3>1, <3>2, <4>1, FinalizeView DEF TypeOK
      <4>3. QED
        BY <2>2, <2>3, <4>2 DEF Past
    <3>3. CASE j # k
      <4>1. pc[j] = "snapshot" /\ target'[j] = target[j] /\ batch'[j] = batch[j]
        BY <2>4, <3>1, <3>3 DEF TypeOK
      <4>2. target[j] \in Targets
        BY <4>1 DEF CallsInFlight
      <4>3. QED
        BY <2>2, <4>1, <4>2 DEF Growth, Past
    <3>4. QED
      BY <3>2, <3>3
  <2>5. \A x \in Targets : FinalizedOn(x) \subseteq FinalizedOn(x)'
    BY FinalizedKept
  <2>6. QED
    BY <2>2, <2>4, <2>5 DEF Growth, SnapshotsGrow, Past
<1>3. ASSUME UNCHANGED snapshots,
             \A j \in Callers :
               pc'[j] = "snapshot" =>
                 /\ pc[j] = "snapshot"
                 /\ target'[j] = target[j] /\ batch'[j] = batch[j]
      PROVE  Growth'
  <2>1. \A x \in Targets : FinalizedOn(x) \subseteq FinalizedOn(x)'
    BY FinalizedKept
  <2>2. QED
    BY <1>3, <2>1 DEF Growth, SnapshotsGrow, Past
<1>4. ASSUME NEW k \in Callers,
             \/ \E t \in Targets : SweepExpired(k, t)
             \/ \E c \in Checkouts : CreateCheckoutNode(k, c)
             \/ \E c \in Checkouts, p \in Proposals : CreateProposalNode(k, c, p)
             \/ RegisterProposal(k) \/ TryRegisterCheckout(k) \/ SnapshotRefused(k)
             \/ ReleaseSnapshotLock(k) \/ DispatchSnapshot(k)
      PROVE  Growth'
  BY <1>3, <1>4
  DEF SweepExpired, CreateCheckoutNode, CreateProposalNode, RegisterProposal,
      TryRegisterCheckout, SnapshotRefused, ReleaseSnapshotLock, ThenDispatch, DispatchSnapshot,
      Goto, graph, locals, TypeOK
<1>5. QED
  BY <1>1, <1>2, <1>3, <1>4 DEF Next, Call, Continue, TtlElapses, vars, graph, locals

\* Each snapshot of a target strictly contains the ones before it.
THEOREM SnapshotsAlwaysGrow == Spec => []SnapshotsGrow
<1>1. Init => LockDiscipline /\ Growth
  BY DEF Init, LockDiscipline, OneWriterPerRound, Writing, SnapshotIsCurrent, Growth,
         SnapshotsGrow, Past
<1>2. Structure /\ OneVoicePerCheckout /\ LockDiscipline /\ Growth /\ [Next]_vars
        => LockDiscipline' /\ Growth'
  BY LockStep, GrowthStep
<1>3. Growth => SnapshotsGrow
  BY DEF Growth
<1>4. QED
  BY <1>1, <1>2, <1>3, StructureCorrect, OneVoice, PTL DEF Spec, Structure

-----------------------------------------------------------------------------
(***************************************************************************)
(* last_snapshot.  It is written in a later critical section than the      *)
(* snapshot it names, so it lags behind exactly while a thread stands      *)
(* between the two; that thread remembers which snapshot it wrote.         *)
(***************************************************************************)
Recording(k, t) == pc[k] = "release" /\ target[k] = t
NewestNamed ==
  \A t \in Targets :
    /\ \A k \in Callers : Recording(k, t) => round[k] = Len(snapshots[t])
    /\ (\A k \in Callers : ~ Recording(k, t)) => lastSnapshot[t] = Len(snapshots[t])

LEMMA NewestStep ==
  ASSUME Structure, LockDiscipline, NewestNamed, [Next]_vars
  PROVE  NewestNamed'
<1> USE DEF Structure
<1>1. ASSUME NEW k \in Callers, WriteSnapshot(k)
      PROVE  NewestNamed'
  <2>1. PICK t \in Targets, b \in SUBSET Proposals : t = target[k] /\ b = batch[k]
    BY <1>1 DEF WriteSnapshot, CallsInFlight, TypeOK
  <2>2. /\ pc[k] = "snapshot"
        /\ snapshots' = [snapshots EXCEPT ![t] = Append(snapshots[t], b)]
        /\ round' = [round EXCEPT ![k] = Len(snapshots[t]) + 1]
        /\ pc' = [pc EXCEPT ![k] = "release"]
        /\ UNCHANGED <<target, lastSnapshot>>
    BY <1>1, <2>1 DEF WriteSnapshot, Goto, locals, table
  <2>3. Len(snapshots'[t]) = Len(snapshots[t]) + 1
    BY <2>2, AppendProperties DEF TypeOK
  <2>4. \A x \in Targets \ {t} : snapshots'[x] = snapshots[x]
    BY <2>2 DEF TypeOK
  <2>5. \A j \in Callers \ {k} : ~ Recording(j, t)
    BY <2>1, <2>2 DEF Recording, LockDiscipline, OneWriterPerRound, Writing
  <2>6. \A j \in Callers \ {k}, x \in Targets :
          (Recording(j, x)' <=> Recording(j, x)) /\ round'[j] = round[j]
    BY <2>2 DEF Recording, TypeOK
  <2>7. \A x \in Targets : Recording(k, x)' <=> x = t
    BY <2>1, <2>2 DEF Recording, TypeOK
  <2>8. ~ (\E x \in Targets : Recording(k, x))
    BY <2>2 DEF Recording
  <2>9. round'[k] = Len(snapshots'[t])
    BY <2>2, <2>3 DEF TypeOK
  <2>10. QED
    BY <2>2, <2>4, <2>5, <2>6, <2>7, <2>8, <2>9 DEF NewestNamed
<1>2. ASSUME NEW k \in Callers, ReleaseSnapshotLock(k)
      PROVE  NewestNamed'
  <2>1. PICK t \in Targets : t = target[k]
    BY <1>2 DEF ReleaseSnapshotLock, CallsInFlight
  <2>2. /\ pc[k] = "release"
        /\ lastSnapshot' = [lastSnapshot EXCEPT ![t] = round[k]]
        /\ pc' = [pc EXCEPT ![k] = "deliver"]
        /\ UNCHANGED <<target, round, snapshots>>
    BY <1>2, <2>1
    DEF ReleaseSnapshotLock, RecordSnapshot, ThenDispatch, Goto, graph
  <2>3. round[k] = Len(snapshots[t])
    BY <2>1, <2>2 DEF NewestNamed, Recording
  <2>4. \A j \in Callers, x \in Targets : Recording(j, x)' <=> Recording(j, x) /\ j # k
    BY <2>2 DEF Recording, TypeOK
  <2>5. lastSnapshot'[t] = Len(snapshots'[t])
    BY <2>2, <2>3 DEF TypeOK
  <2>6. \A x \in Targets \ {t} : lastSnapshot'[x] = lastSnapshot[x] /\ ~ Recording(k, x)
    BY <2>1, <2>2 DEF Recording, TypeOK
  <2>7. QED
    BY <2>2, <2>4, <2>5, <2>6 DEF NewestNamed
<1>3. ASSUME UNCHANGED <<snapshots, lastSnapshot>>,
             \A j \in Callers, x \in Targets :
               (Recording(j, x)' <=> Recording(j, x)) /\ (Recording(j, x) => round'[j] = round[j])
      PROVE  NewestNamed'
  BY <1>3 DEF NewestNamed
<1>4. ASSUME NEW k \in Callers,
             \/ \E t \in Targets : SweepExpired(k, t)
             \/ \E c \in Checkouts : CreateCheckoutNode(k, c)
             \/ \E c \in Checkouts, p \in Proposals : CreateProposalNode(k, c, p)
             \/ RegisterProposal(k) \/ TryRegisterCheckout(k) \/ SnapshotRefused(k)
             \/ DispatchSnapshot(k) \/ \E p \in Proposals : RecordFinalize(k, p)
      PROVE  NewestNamed'
  <2>1. /\ UNCHANGED <<snapshots, lastSnapshot>>
        /\ pc[k] # "release" /\ pc'[k] # "release"
        /\ \A j \in Callers \ {k} :
             pc'[j] = pc[j] /\ target'[j] = target[j] /\ round'[j] = round[j]
    BY <1>4
    DEF SweepExpired, CreateCheckoutNode, CreateProposalNode, RegisterProposal,
        TryRegisterCheckout, SnapshotRefused, DispatchSnapshot, RecordFinalize,
        Goto, graph, table, locals, TypeOK
  <2>2. QED
    BY <1>3, <2>1 DEF Recording
<1>5. CASE UNCHANGED <<table, graph, locals>>
  BY <1>3, <1>5 DEF Recording, table, graph, locals
<1>6. QED
  BY <1>1, <1>2, <1>4, <1>5 DEF Next, Call, Continue, TtlElapses, vars

\* The snapshots of a target are its record: each contains the ones before it,
\* and outside a SnapshotLock last_snapshot names the newest.
THEOREM RecordKept == Spec => []SnapshotsAreTheRecord
<1>1. Init => LockDiscipline /\ NewestNamed
  BY DEF Init, LockDiscipline, OneWriterPerRound, Writing, SnapshotIsCurrent, NewestNamed
<1>2. Structure /\ OneVoicePerCheckout /\ LockDiscipline /\ NewestNamed /\ [Next]_vars
        => LockDiscipline' /\ NewestNamed'
  BY LockStep, NewestStep
<1>3. LockDiscipline /\ NewestNamed => LastSnapshotIsNewest
  BY DEF LockDiscipline, OneWriterPerRound, Writing, NewestNamed, Recording,
         LastSnapshotIsNewest
<1>4. SnapshotsGrow /\ LastSnapshotIsNewest => SnapshotsAreTheRecord
  BY DEF SnapshotsAreTheRecord
<1>5. QED
  BY <1>1, <1>2, <1>3, <1>4, StructureCorrect, OneVoice, SnapshotsAlwaysGrow, PTL
  DEF Spec, Structure

-----------------------------------------------------------------------------
(***************************************************************************)
(* The refinement.  In a Normal region the machine implements              *)
(* ConsensusRound: RecordFinalize is the instant at which a round is       *)
(* decided and published, writing the snapshot node and releasing the lock *)
(* are stuttering steps.                                                   *)
(***************************************************************************)
\* A target under no SnapshotLock has no snapshot left to write.
LEMMA NothingUnwritten ==
  ASSUME Structure, LockDiscipline, NEW t \in Targets, t \notin locked
  PROVE  ~ Unwritten(t)
BY DEF Unwritten, LockDiscipline, OneWriterPerRound, Writing

\* The abstract state does not change when nothing it is read from does.
LEMMA AbstractStutter ==
  ASSUME UNCHANGED <<coStatus, snapshots>>,
         \A x \in Targets :
           /\ OpenOn(x)' = OpenOn(x)
           /\ FinalizedOn(x)' = FinalizedOn(x)
           /\ Unwritten(x)' = Unwritten(x)
  PROVE  UNCHANGED Rounds!vars
BY DEF Rounds!vars, Published

LEMMA RefinementStep ==
  ASSUME ~ high, Structure, OneVoicePerCheckout, LockDiscipline, [Next]_vars
  PROVE  [Rounds!Next]_(Rounds!vars)
<1> USE DEF Structure
<1>1. ASSUME NEW k \in Callers, NEW t \in Targets, SweepExpired(k, t)
      PROVE  Rounds!Next
  <2>1. \A x \in Targets : Unwritten(x)' = Unwritten(x)
    BY <1>1 DEF SweepExpired, Goto, Unwritten, TypeOK
  <2>2. \A x \in Targets : /\ OpenOn(x)' = IF x = t THEN OpenOn(t) \ Overdue(t) ELSE OpenOn(x)
                           /\ FinalizedOn(x)' = FinalizedOn(x)
    BY <1>1, SweepView
  <2>3. \A c \in Checkouts : coStatus'[c] # "Absent" <=> coStatus[c] # "Absent"
    BY <1>1, SweepShape DEF SweepExpired
  <2>4. UNCHANGED snapshots
    BY <1>1 DEF SweepExpired, graph
  <2>5. Published' = Published
    BY <2>1, <2>2, <2>4 DEF Published
  <2>6. {c \in Checkouts : coStatus[c] # "Absent"}' = {c \in Checkouts : coStatus[c] # "Absent"}
    BY <2>3
  <2>7. [x \in Targets |-> OpenOn(x)]' =
          [[x \in Targets |-> OpenOn(x)] EXCEPT ![t] = @ \ Overdue(t)]
    BY <2>2
  <2>8. [x \in Targets |-> FinalizedOn(x)]' = [x \in Targets |-> FinalizedOn(x)]
    BY <2>2
  <2>9. Overdue(t) \subseteq OpenOn(t)
    BY DEF Overdue
  <2>10. Rounds!Lapse(t, Overdue(t))
    BY <2>5, <2>6, <2>7, <2>8 DEF Rounds!Lapse
  <2>11. Overdue(t) \in SUBSET [x \in Targets |-> OpenOn(x)][t]
    BY <2>9
  <2>12. QED
    BY <2>10, <2>11 DEF Rounds!Next
<1>2. ASSUME NEW k \in Callers, TryRegisterCheckout(k)
      PROVE  [Rounds!Next]_(Rounds!vars)
  <2>1. PICK c \in Checkouts, t \in Targets :
          /\ c = node[k] /\ t = target[k]
          /\ coStatus[c] = "Absent"
          /\ pc[k] = "register"
    BY <1>2 DEF TryRegisterCheckout, CallsInFlight
  <2>2. \A x \in Targets : Unwritten(x)' = Unwritten(x)
    BY <1>2 DEF TryRegisterCheckout, Goto, Unwritten, TypeOK
  <2>3. \A x \in Targets :
          /\ OpenOn(x)' = IF x = t /\ x \notin locked THEN OpenOn(x) \cup {c} ELSE OpenOn(x)
          /\ FinalizedOn(x)' = FinalizedOn(x)
    BY <1>2, <2>1, RegisterView
  <2>4. UNCHANGED snapshots
    BY <1>2 DEF TryRegisterCheckout, graph
  <2>5. CASE t \in locked
    <3>1. UNCHANGED coStatus
      BY <1>2, <2>1, <2>5 DEF TryRegisterCheckout, LockHeld
    <3>2. QED
      BY <2>2, <2>3, <2>4, <2>5, <3>1, AbstractStutter
  <2>6. CASE t \notin locked
    <3>1. coStatus' = [coStatus EXCEPT ![c] = "Open"]
      BY <1>2, <2>1, <2>6 DEF TryRegisterCheckout, LockHeld
    <3>2. Published' = Published
      BY <2>2, <2>3, <2>4 DEF Published
    <3>3. {d \in Checkouts : coStatus[d] # "Absent"}' =
            {d \in Checkouts : coStatus[d] # "Absent"} \cup {c}
      BY <3>1 DEF TypeOK
    <3>4. [x \in Targets |-> OpenOn(x)]' =
            [[x \in Targets |-> OpenOn(x)] EXCEPT ![t] = @ \cup {c}]
      BY <2>3, <2>6
    <3>5. [x \in Targets |-> FinalizedOn(x)]' = [x \in Targets |-> FinalizedOn(x)]
      BY <2>3
    <3>6. Rounds!Join(t, c)
      BY <2>1, <3>2, <3>3, <3>4, <3>5 DEF Rounds!Join
    <3>7. QED
      BY <3>6 DEF Rounds!Next
  <2>7. QED
    BY <2>5, <2>6
<1>3. ASSUME NEW k \in Callers, NEW p \in Proposals, RecordFinalize(k, p)
      PROVE  Rounds!Next
  <2>1. PICK t \in Targets, own \in Checkouts :
          t = coTarget[prCheckout[p]] /\ own = prCheckout[p]
    BY <1>3, FinalizeShape DEF RecordFinalize
  <2>2. /\ own \in OpenOn(t)
        /\ p \notin FinalizedOn(t)
        /\ \A x \in Targets :
             /\ OpenOn(x)' = IF x = t THEN OpenOn(t) \ (Overdue(t) \cup {own}) ELSE OpenOn(x)
             /\ FinalizedOn(x)' = IF x = t THEN FinalizedOn(t) \cup {p} ELSE FinalizedOn(x)
        /\ StillOpen(t) <=> OpenOn(t)' # {}
    BY <1>3, <2>1, FinalizeView
  <2>3. ~ Unwritten(t)
    BY <1>3, <2>1, FinalizeUnlocked, NothingUnwritten
  <2>4. UNCHANGED snapshots
    BY <1>3 DEF RecordFinalize, graph
  <2>5. /\ StillOpen(t) => UNCHANGED <<pc, target>>
        /\ ~ StillOpen(t) => /\ pc' = [pc EXCEPT ![k] = "snapshot"]
                             /\ target' = [target EXCEPT ![k] = t]
        /\ pc[k] = "idle"
    BY <1>3, <2>1 DEF RecordFinalize, Goto
  <2>6. \A x \in Targets : x # t => Unwritten(x)' = Unwritten(x)
    BY <2>5 DEF Unwritten, TypeOK
  <2>7. Unwritten(t)' <=> ~ StillOpen(t)
    BY <2>3, <2>5 DEF Unwritten, TypeOK
  <2>8. Published' = IF OpenOn(t)' = {}
                     THEN [Published EXCEPT ![t] = Append(@, FinalizedOn(t)')]
                     ELSE Published
    BY <2>2, <2>3, <2>4, <2>6, <2>7 DEF Published
  <2>9. [x \in Targets |-> OpenOn(x)]' =
          [[x \in Targets |-> OpenOn(x)] EXCEPT ![t] = @ \ (Overdue(t) \cup {own})]
    BY <2>2
  <2>10. [x \in Targets |-> FinalizedOn(x)]' =
           [[x \in Targets |-> FinalizedOn(x)] EXCEPT ![t] = @ \cup {p}]
    BY <2>2
  <2>11. {d \in Checkouts : coStatus[d] # "Absent"}' = {d \in Checkouts : coStatus[d] # "Absent"}
    BY <1>3, FinalizeShape DEF RecordFinalize
  <2>12. Rounds!Decide(t, own, p, Overdue(t))
    BY <2>2, <2>8, <2>9, <2>10, <2>11 DEF Rounds!Decide
  <2>13. Overdue(t) \in SUBSET [x \in Targets |-> OpenOn(x)][t]
    BY DEF Overdue
  <2>14. QED
    BY <2>12, <2>13 DEF Rounds!Next
<1>4. ASSUME NEW k \in Callers, WriteSnapshot(k)
      PROVE  UNCHANGED Rounds!vars
  <2>1. PICK t \in Targets : t = target[k]
    BY <1>4 DEF WriteSnapshot, CallsInFlight
  <2>2. /\ pc[k] = "snapshot"
        /\ pc' = [pc EXCEPT ![k] = "release"]
        /\ snapshots' = [snapshots EXCEPT ![t] = Append(snapshots[t], batch[k])]
        /\ UNCHANGED <<target, coStatus>>
    BY <1>4, <2>1 DEF WriteSnapshot, Goto, locals, table
  <2>3. \A x \in Targets : OpenOn(x)' = OpenOn(x) /\ FinalizedOn(x)' = FinalizedOn(x)
    BY <1>4, QuietView DEF WriteSnapshot, table
  <2>4. Unwritten(t) /\ ~ Unwritten(t)'
    BY <2>1, <2>2 DEF Unwritten, LockDiscipline, OneWriterPerRound, Writing, TypeOK
  <2>5. \A x \in Targets : x # t => Unwritten(x)' = Unwritten(x)
    BY <2>1, <2>2 DEF Unwritten, TypeOK
  <2>6. batch[k] = FinalizedOn(t)
    BY <2>1, <2>2 DEF LockDiscipline, SnapshotIsCurrent
  <2>7. Published' = Published
    BY <2>2, <2>3, <2>4, <2>5, <2>6 DEF Published, TypeOK
  <2>8. QED
    BY <2>2, <2>3, <2>7 DEF Rounds!vars
<1>5. ASSUME NEW k \in Callers,
             \/ \E c \in Checkouts : CreateCheckoutNode(k, c)
             \/ \E c \in Checkouts, p \in Proposals : CreateProposalNode(k, c, p)
             \/ RegisterProposal(k)
      PROVE  UNCHANGED Rounds!vars
  <2>1. \A x \in Targets : OpenOn(x)' = OpenOn(x) /\ FinalizedOn(x)' = FinalizedOn(x)
    BY <1>5, DraftView
  <2>2. UNCHANGED <<coStatus, snapshots>>
    BY <1>5 DEF CreateCheckoutNode, CreateProposalNode, RegisterProposal, table, graph
  <2>3. \A x \in Targets : Unwritten(x)' = Unwritten(x)
    BY <1>5
    DEF CreateCheckoutNode, CreateProposalNode, RegisterProposal, Goto, Unwritten, TypeOK
  <2>4. QED
    BY <2>1, <2>2, <2>3, AbstractStutter
<1>6. ASSUME NEW k \in Callers, ReleaseSnapshotLock(k) \/ DispatchSnapshot(k)
      PROVE  UNCHANGED Rounds!vars
  <2>1. UNCHANGED <<coTarget, coStatus, prCheckout, prStatus, snapshots>>
    BY <1>6 DEF ReleaseSnapshotLock, DispatchSnapshot, table, graph
  <2>2. \A x \in Targets : Unwritten(x)' = Unwritten(x)
    BY <1>6 DEF ReleaseSnapshotLock, ThenDispatch, DispatchSnapshot, Goto, Unwritten, TypeOK
  <2>3. QED
    BY <2>1, <2>2, QuietView, AbstractStutter
<1>7. ASSUME UNCHANGED <<table, graph, locals>>
      PROVE  UNCHANGED Rounds!vars
  <2>1. \A x \in Targets : Unwritten(x)' = Unwritten(x)
    BY <1>7 DEF locals, Unwritten
  <2>2. QED
    BY <1>7, <2>1, QuietView, AbstractStutter DEF table, graph
<1>8. ASSUME NEW k \in Callers
      PROVE  ~ SnapshotRefused(k)
  BY DEF SnapshotRefused, SignatureRequired
<1>9. QED
  BY <1>1, <1>2, <1>3, <1>4, <1>5, <1>6, <1>7, <1>8
  DEF Next, Call, Continue, TtlElapses, vars

\* In a Normal region, however the calls interleave, a round is decided and
\* its snapshot published as if in one indivisible step of its last finalize.
THEOREM Refinement == Spec => ImplementsConsensusRound
<1>1. Init => LockDiscipline
  BY DEF Init, LockDiscipline, OneWriterPerRound, Writing, SnapshotIsCurrent
<1>2. Init => (~ high => Rounds!Init)
  <2> SUFFICES ASSUME Init PROVE Rounds!Init
    OBVIOUS
  <2>1. \A x \in Targets : OpenOn(x) = {} /\ FinalizedOn(x) = {} /\ ~ Unwritten(x)
    BY DEF Init, OpenOn, FinalizedOn, ProposalsOn, CheckoutsOn, Unwritten
  <2>2. QED
    BY <2>1 DEF Init, Rounds!Init, Published
<1>3. Structure /\ OneVoicePerCheckout /\ LockDiscipline /\ [Next]_vars => LockDiscipline'
  BY LockStep
<1>4. Structure /\ OneVoicePerCheckout /\ LockDiscipline /\ [Next]_vars
        => [~ high => Rounds!Next]_(Rounds!vars)
  BY RefinementStep
<1>5. QED
  BY <1>1, <1>2, <1>3, <1>4, StructureCorrect, OneVoice, PTL
  DEF Spec, Structure, ImplementsConsensusRound

-----------------------------------------------------------------------------
(***************************************************************************)
(* Mortality.                                                              *)
(***************************************************************************)
(***************************************************************************)
(* First layer: types.  What a call holds in its locals is known from the  *)
(* step it is about to make.                                               *)
(***************************************************************************)
LocalsOK ==
  \A t \in Threads :
    /\ threadPc[t] \in {"acquire", "mutate", "unlock", "dead"} => arg[t] \in Nodes
    /\ threadPc[t] \in {"announce", "collect", "write", "terminate"} => arg[t] \in Scopes
    /\ threadPc[t] = "record" => arg[t] = Fabric
    /\ threadPc[t] = "write" => found[t] \subseteq Copies
    /\ threadPc[t] = "fade" => found[t] \subseteq Nodes

Typed == MortalTypeOK /\ LocalsOK

\* A node that enters the fabric, for the first time or again.
LEMMA InsertTyped ==
  ASSUME Typed, NEW n \in Nodes, NEW r \in Regions, Insert(n, r)
  PROVE  /\ home' \in [Nodes -> Regions \cup {Nil}]
         /\ Present' = Present \cup {n}
         /\ used' = used \cup {n} /\ Present' \subseteq used'
         /\ late' \in [Scopes -> SUBSET Nodes]
<1> USE MortalityAssumption
<1>1. home \in [Nodes -> Regions \cup {Nil}] /\ r # Nil
  BY DEF Typed, MortalTypeOK, Insert
<1>2. home' = [home EXCEPT ![n] = r] /\ used' = used \cup {n}
  BY DEF Insert
<1>3. Present \subseteq used
  BY DEF Typed, MortalTypeOK
<1>4. Present' = Present \cup {n}
  BY <1>1, <1>2 DEF Present
<1>5. late' \in [Scopes -> SUBSET Nodes]
  BY SMTT(30) DEF Typed, MortalTypeOK, Insert, Scopes
<1>6. QED
  BY <1>1, <1>2, <1>3, <1>4, <1>5

LEMMA TypedStep ==
  ASSUME Typed, [MortalNext]_mortalVars
  PROVE  Typed'
<1> USE MortalityAssumption
    DEF MoveOn, MoveWith, Return, Enter, nodeState, p53, callState, Typed, MortalTypeOK, LocalsOK,
        MortalSteps,
        Scopes, Copies
<1>1. ASSUME NEW t \in Threads, BeginCreate(t)
      PROVE  Typed'
  BY <1>1 DEF BeginCreate, Present
<1>2. ASSUME NEW t \in Threads, NEW n \in Nodes, CreateInternal(t, n)
      PROVE  Typed'
  <2>1. /\ Insert(n, DefaultRegion) /\ DefaultRegion \in Regions
        /\ internal' = internal \cup {n}
        /\ UNCHANGED <<mechanical, p53, lock, callState, threadPc>>
    BY <1>2 DEF CreateInternal
  <2>2. /\ home' \in [Nodes -> Regions \cup {Nil}]
        /\ Present' \subseteq used' /\ used' \subseteq Nodes
        /\ late' \in [Scopes -> SUBSET Nodes]
    BY <2>1, InsertTyped
  <2>3. LocalsOK'
    BY <2>1
  <2>4. MortalTypeOK'
    BY <2>1, <2>2 DEF Insert
  <2>5. QED
    BY <2>3, <2>4
<1>3. ASSUME NEW t \in Threads, NEW n \in Nodes, BeginEdit(t, n)
      PROVE  Typed'
  BY <1>3 DEF BeginEdit, Present
<1>4. ASSUME NEW t \in Threads, NEW n \in Nodes, TerminateNode(t, n)
      PROVE  Typed'
  BY <1>4 DEF TerminateNode, Present
<1>5. ASSUME NEW t \in Threads, NEW s \in Scopes, BeginTrigger(t, s)
      PROVE  Typed'
  BY <1>5 DEF BeginTrigger, Present
<1>6. ASSUME NEW t \in Threads, Scan(t)
      PROVE  Typed'
  BY <1>6 DEF Scan, Present
<1>7. ASSUME NEW t \in Threads, NEW n \in Nodes, NEW r \in Regions, CommitCreate(t, n, r)
      PROVE  Typed'
  <2>1. /\ Insert(n, r)
        /\ mechanical' \subseteq mechanical \cup {n}
        /\ threadPc' = [threadPc EXCEPT ![t] = "idle"]
        /\ internal' \subseteq internal
        /\ UNCHANGED <<p53, lock, arg, found>>
    BY <1>7 DEF CommitCreate
  <2>2. /\ home' \in [Nodes -> Regions \cup {Nil}]
        /\ Present' \subseteq used' /\ used' \subseteq Nodes
        /\ late' \in [Scopes -> SUBSET Nodes]
    BY <2>1, InsertTyped
  <2>3. mechanical' \subseteq Nodes
    BY <2>1
  <2>4. /\ threadPc' \in [Threads -> MortalSteps]
        /\ \A u \in Threads : threadPc'[u] # "idle" => threadPc'[u] = threadPc[u]
    BY <2>1
  <2>5. LocalsOK'
    BY <2>1, <2>4
  <2>6. MortalTypeOK'
    BY <2>1, <2>2, <2>3, <2>4 DEF Insert
  <2>7. QED
    BY <2>5, <2>6
<1>8. ASSUME NEW t \in Threads, NEW r \in Regions, CreateRefused(t, r)
      PROVE  Typed'
  BY <1>8 DEF CreateRefused, Present
<1>9. ASSUME NEW t \in Threads, TryAcquire(t)
      PROVE  Typed'
  BY <1>9 DEF TryAcquire, Present
<1>10. ASSUME NEW t \in Threads, Mutate(t)
       PROVE  Typed'
  BY <1>10 DEF Mutate, Present
<1>11. ASSUME NEW t \in Threads, NodeNotFound(t)
       PROVE  Typed'
  BY <1>11 DEF NodeNotFound, ReleaseNext, Present
<1>12. ASSUME NEW t \in Threads, MutationPanics(t)
       PROVE  Typed'
  BY <1>12 DEF MutationPanics, Present
<1>13. ASSUME NEW t \in Threads, Release(t)
       PROVE  Typed'
  BY <1>13 DEF Release, Present
<1>14. ASSUME NEW t \in Threads, Announce(t)
       PROVE  Typed'
  BY <1>14 DEF Announce, Present
<1>15. ASSUME NEW t \in Threads, Collect(t)
       PROVE  Typed'
  <2>1. CopiesOf(arg[t]) \subseteq Copies
    BY DEF CopiesOf, InScope, Present
  <2>2. QED
    BY <1>15, <2>1 DEF Collect, Present
<1>16. ASSUME NEW t \in Threads, WriteArchive(t)
       PROVE  Typed'
  BY <1>16 DEF WriteArchive, Present
<1>17. ASSUME NEW t \in Threads, ArchiveFails(t)
       PROVE  Typed'
  BY <1>17 DEF ArchiveFails, GiveUp, Present
<1>18. ASSUME NEW t \in Threads, TerminateRegion(t)
       PROVE  Typed'
  BY <1>18 DEF TerminateRegion, Present
<1>19. ASSUME NEW t \in Threads, TerminateFabric(t)
       PROVE  Typed'
  BY <1>19 DEF TerminateFabric, Present
<1>20. ASSUME NEW t \in Threads, RecordFabric(t)
       PROVE  Typed'
  BY <1>20 DEF RecordFabric, Present
<1>21. ASSUME NEW t \in Threads, Fade(t)
       PROVE  Typed'
  BY <1>21 DEF Fade, Present
<1>22. CASE UNCHANGED mortalVars
  BY <1>22 DEF mortalVars, Present
<1>23. QED
  BY <1>1, <1>2, <1>3, <1>4, <1>5, <1>6, <1>7, <1>8, <1>9, <1>10, <1>11, <1>12, <1>13,
     <1>14, <1>15, <1>16, <1>17, <1>18, <1>19, <1>20, <1>21, <1>22
  DEF MortalNext, Begin, GoOn

\* Every variable keeps its type, and a call its locals: a thread about to
\* release a lock names a node, one about to archive names a scope.
THEOREM MortalTypeCorrect == MortalSpec => [](MortalTypeOK /\ LocalsOK)
<1>1. MortalInit => Typed
  <2> SUFFICES ASSUME MortalInit
               PROVE  Typed
    OBVIOUS
  <2>1. /\ home \in [Nodes -> Regions \cup {Nil}] /\ Present = {}
        /\ lock \in [Nodes -> Threads \cup {Nil}]
    BY DEF MortalInit, Present
  <2>2. MortalTypeOK
    BY <2>1, MortalityAssumption DEF MortalInit, MortalTypeOK, MortalSteps, Scopes
  <2>3. LocalsOK
    BY DEF MortalInit, LocalsOK
  <2>4. QED
    BY <2>2, <2>3 DEF Typed
<1>2. Typed /\ [MortalNext]_mortalVars => Typed'
  BY TypedStep
<1>3. QED
  BY <1>1, <1>2, PTL DEF MortalSpec, Typed

-----------------------------------------------------------------------------
(***************************************************************************)
(* Second layer: the per-node locks.                                       *)
(***************************************************************************)
\* Every action but these four leaves the locks and their editors alone.
LEMMA EditLocksUntouched ==
  ASSUME Typed, LockedByItsEditor, UNCHANGED lock,
         \A t \in Threads : /\ Editing(t)' <=> Editing(t)
                            /\ Editing(t) => arg'[t] = arg[t]
  PROVE  LockedByItsEditor'
BY DEF LockedByItsEditor

LEMMA EditLockStep ==
  ASSUME Typed, LockedByItsEditor, [MortalNext]_mortalVars
  PROVE  LockedByItsEditor'
<1> USE MortalityAssumption
    DEF MoveOn, MoveWith, Return, Enter, p53, callState, Typed, MortalTypeOK, LocalsOK, Editing,
        Scopes
<1>1. ASSUME NEW t \in Threads, Begin(t)
      PROVE  LockedByItsEditor'
  BY <1>1, EditLocksUntouched
  DEF Begin, BeginCreate, CreateInternal, BeginEdit, TerminateNode, BeginTrigger, Scan
<1>2. ASSUME NEW t \in Threads, TryAcquire(t)
      PROVE  LockedByItsEditor'
  <2>1. CASE lock[arg[t]] = Nil
    BY <1>2, <2>1 DEF TryAcquire, LockedByItsEditor
  <2>2. CASE lock[arg[t]] # Nil
    BY <1>2, <2>2, EditLocksUntouched DEF TryAcquire
  <2>3. QED
    BY <2>1, <2>2
<1>3. ASSUME NEW t \in Threads, Mutate(t) \/ NodeNotFound(t) \/ MutationPanics(t)
      PROVE  LockedByItsEditor'
  BY <1>3, EditLocksUntouched DEF Mutate, NodeNotFound, ReleaseNext, MutationPanics
<1>4. ASSUME NEW t \in Threads, Release(t)
      PROVE  LockedByItsEditor'
  BY <1>4 DEF Release, LockedByItsEditor
<1>5. ASSUME NEW t \in Threads,
             \/ \E n \in Nodes, r \in Regions : CommitCreate(t, n, r)
             \/ \E r \in Regions : CreateRefused(t, r)
      PROVE  LockedByItsEditor'
  BY <1>5, EditLocksUntouched DEF CommitCreate, CreateRefused
<1>6. ASSUME NEW t \in Threads,
             \/ Announce(t) \/ Collect(t) \/ WriteArchive(t) \/ ArchiveFails(t)
             \/ TerminateRegion(t) \/ TerminateFabric(t) \/ RecordFabric(t)
      PROVE  LockedByItsEditor'
  BY <1>6, EditLocksUntouched
  DEF Announce, Collect, WriteArchive, ArchiveFails, GiveUp, TerminateRegion,
      TerminateFabric, RecordFabric
<1>7. ASSUME NEW t \in Threads, Fade(t)
      PROVE  LockedByItsEditor'
  BY <1>7, EditLocksUntouched DEF Fade
<1>8. CASE UNCHANGED mortalVars
  BY <1>8, EditLocksUntouched DEF mortalVars
<1>9. QED
  BY <1>1, <1>2, <1>3, <1>4, <1>5, <1>6, <1>7, <1>8 DEF MortalNext, GoOn

\* A per-node lock is held exactly by the thread that edits the node, whatever
\* the triggers and the tick do to it meanwhile: an edit that fails releases it,
\* and no other path takes or frees it.
THEOREM LocksExact == MortalSpec => []LockedByItsEditor
<1>1. MortalInit => LockedByItsEditor
  BY MortalityAssumption DEF MortalInit, LockedByItsEditor, Editing
<1>2. Typed /\ LockedByItsEditor /\ [MortalNext]_mortalVars => LockedByItsEditor'
  BY EditLockStep
<1>3. QED
  BY <1>1, <1>2, MortalTypeCorrect, PTL DEF MortalSpec, Typed

-----------------------------------------------------------------------------
(***************************************************************************)
(* Third layer: termination is final.  Once a scope is gone no trigger of  *)
(* it begins, so the threads that had begun one bound the events that are  *)
(* still to be written.                                                    *)
(***************************************************************************)
Triggering(s) ==
  {t \in Threads : /\ threadPc[t] \in {"announce", "collect", "write", "terminate", "record"}
                   /\ arg[t] = s}

Finality ==
  /\ \A n \in Nodes : ended[n] = IF n \in gone THEN 1 ELSE 0
  /\ \A s \in Scopes : s \notin gone => ended[s] = 0
  /\ \A s \in Scopes : ended[s] + Cardinality(Triggering(s)) <= Cardinality(Threads)
  /\ \A t \in Threads : threadPc[t] = "record" => Fabric \in gone

LEMMA TriggeringFinite ==
  \A s : /\ IsFiniteSet(Triggering(s))
         /\ Cardinality(Triggering(s)) \in Nat
         /\ Cardinality(Threads) \in Nat
         /\ Cardinality(Triggering(s)) <= Cardinality(Threads)
BY FS_Subset, FS_CardinalityType, MortalityAssumption DEF Triggering

\* An action outside the triggers.
LEMMA FinalityKept ==
  ASSUME Typed, Finality, UNCHANGED <<gone, ended>>,
         \A s \in Scopes : Triggering(s)' \subseteq Triggering(s),
         \A t \in Threads : threadPc'[t] = "record" => threadPc[t] = "record"
  PROVE  Finality'
<1>1. \A s \in Scopes : Cardinality(Triggering(s)') <= Cardinality(Triggering(s))
  BY TriggeringFinite, FS_Subset
<1>2. \A s \in Scopes : Cardinality(Triggering(s)') \in Nat
  BY TriggeringFinite, FS_Subset, FS_CardinalityType
<1>3. \A s \in Scopes : ended[s] \in Nat
  BY DEF Typed, MortalTypeOK
<1>4. \A s \in Scopes : ended'[s] + Cardinality(Triggering(s)') <= Cardinality(Threads)
  BY <1>1, <1>2, <1>3, TriggeringFinite DEF Finality
<1>5. QED
  BY <1>4 DEF Finality

LEMMA FinalityStep ==
  ASSUME Typed, Finality, [MortalNext]_mortalVars
  PROVE  Finality'
<1> USE MortalityAssumption DEF MoveOn, MoveWith, Return, Enter, nodeState, p53, callState, Scopes
<1>0. MortalTypeOK /\ LocalsOK
  BY DEF Typed
<1>1. ASSUME NEW t \in Threads, BeginCreate(t) \/ Scan(t)
      PROVE  Finality'
  BY <1>0, <1>1, FinalityKept DEF BeginCreate, Scan, MortalTypeOK, Triggering
<1>2. ASSUME NEW t \in Threads, NEW n \in Nodes,
             \/ CreateInternal(t, n)
             \/ \E r \in Regions : CommitCreate(t, n, r)
      PROVE  Finality'
  <2>1. \A s \in Scopes : Triggering(s)' \subseteq Triggering(s)
    BY <1>0, <1>2 DEF CreateInternal, CommitCreate, MortalTypeOK, Triggering
  <2>2. \A u \in Threads : threadPc'[u] = "record" => threadPc[u] = "record"
    BY <1>0, <1>2 DEF CreateInternal, CommitCreate, MortalTypeOK
  <2>3. UNCHANGED <<gone, ended>>
    BY <1>2 DEF CreateInternal, CommitCreate
  <2>4. QED
    BY <2>1, <2>2, <2>3, FinalityKept
<1>3. ASSUME NEW t \in Threads,
             \/ \E r \in Regions : CreateRefused(t, r)
             \/ \E n \in Nodes : BeginEdit(t, n)
             \/ TryAcquire(t) \/ Mutate(t) \/ NodeNotFound(t) \/ Release(t)
      PROVE  Finality'
  BY <1>0, <1>3, FinalityKept
  DEF CreateRefused, BeginEdit, TryAcquire, Mutate, NodeNotFound, ReleaseNext, Release,
      MortalTypeOK, Triggering
<1>4. ASSUME NEW t \in Threads, MutationPanics(t) \/ Fade(t)
      PROVE  Finality'
  BY <1>0, <1>4, FinalityKept DEF MutationPanics, Fade, MortalTypeOK, LocalsOK, Triggering
<1>5. ASSUME NEW t \in Threads,
             Announce(t) \/ Collect(t) \/ WriteArchive(t) \/ ArchiveFails(t)
      PROVE  Finality'
  BY <1>0, <1>5, FinalityKept
  DEF Announce, Collect, WriteArchive, ArchiveFails, GiveUp, MortalTypeOK, Triggering
<1>6. ASSUME NEW t \in Threads, NEW n \in Nodes, TerminateNode(t, n)
      PROVE  Finality'
  <2>1. /\ n \notin gone /\ gone' = gone \cup {n}
        /\ ended' = [ended EXCEPT ![n] = @ + 1]
        /\ home' = [home EXCEPT ![n] = Nil]
        /\ UNCHANGED <<used, threadPc, arg>>
    BY <1>0, <1>6 DEF TerminateNode, MortalTypeOK, Present
  <2>2. \A s \in Scopes : n # s /\ ended'[s] = ended[s] /\ Triggering(s)' = Triggering(s)
    BY <1>0, <2>1 DEF MortalTypeOK, Triggering
  <2>3. QED
    BY <1>0, <2>1, <2>2 DEF Finality, MortalTypeOK
<1>7. ASSUME NEW t \in Threads, NEW s \in Scopes, BeginTrigger(t, s)
      PROVE  Finality'
  <2>1. /\ s \notin gone
        /\ threadPc' = [threadPc EXCEPT ![t] = "announce"] /\ arg' = [arg EXCEPT ![t] = s]
        /\ UNCHANGED <<gone, ended, used, home>>
    BY <1>7 DEF BeginTrigger, AlreadyTriggered
  <2>2. \A x \in Scopes : x # s => Triggering(x)' \subseteq Triggering(x)
    BY <1>0, <2>1 DEF MortalTypeOK, Triggering
  <2>3. /\ IsFiniteSet(Triggering(s)') /\ Cardinality(Triggering(s)') \in Nat
        /\ Cardinality(Triggering(s)') <= Cardinality(Threads)
    BY FS_Subset, FS_CardinalityType DEF Triggering
  <2>4. \A x \in Scopes : ended'[x] + Cardinality(Triggering(x)') <= Cardinality(Threads)
    <3>1. ASSUME NEW x \in Scopes, x # s
          PROVE  ended'[x] + Cardinality(Triggering(x)') <= Cardinality(Threads)
      <4>1. /\ Cardinality(Triggering(x)') <= Cardinality(Triggering(x))
            /\ Cardinality(Triggering(x)') \in Nat
        BY <2>2, <3>1, TriggeringFinite, FS_Subset, FS_CardinalityType
      <4>2. QED
        BY <1>0, <2>1, <4>1, TriggeringFinite DEF Finality, MortalTypeOK
    <3>2. ended'[s] + Cardinality(Triggering(s)') <= Cardinality(Threads)
      BY <2>1, <2>3 DEF Finality
    <3>3. QED
      BY <3>1, <3>2
  <2>5. \A u \in Threads : threadPc'[u] = "record" => threadPc[u] = "record"
    BY <1>0, <2>1 DEF MortalTypeOK
  <2>6. QED
    BY <2>1, <2>4, <2>5 DEF Finality
<1>8. ASSUME NEW t \in Threads, TerminateRegion(t) \/ RecordFabric(t)
      PROVE  Finality'
  <2>1. PICK s \in Scopes : s = arg[t] /\ t \in Triggering(s)
    BY <1>0, <1>8 DEF TerminateRegion, RecordFabric, LocalsOK, Triggering
  <2>2. /\ gone' = gone \cup {s} /\ ended' = [ended EXCEPT ![s] = @ + 1]
        /\ threadPc' = [threadPc EXCEPT ![t] = "idle"] /\ arg' = [arg EXCEPT ![t] = Nil]
        /\ UNCHANGED <<used, home>>
    BY <1>0, <1>8, <2>1 DEF TerminateRegion, RecordFabric, LocalsOK, Finality
  <2>3. /\ Triggering(s)' = Triggering(s) \ {t}
        /\ \A x \in Scopes : x # s => Triggering(x)' = Triggering(x)
    <3>1. threadPc \in [Threads -> MortalSteps] /\ arg \in [Threads -> Nodes \cup Scopes \cup {Nil}]
      BY <1>0 DEF MortalTypeOK
    <3>2. \A u \in Threads : u # t => threadPc'[u] = threadPc[u] /\ arg'[u] = arg[u]
      BY <2>2, <3>1
    <3>3. threadPc'[t] = "idle"
      BY <2>2, <3>1
    <3>4. QED
      BY <2>1, <3>2, <3>3 DEF Triggering
  <2>4. Cardinality(Triggering(s)') = Cardinality(Triggering(s)) - 1
    <3>1. IsFiniteSet(Triggering(s)) /\ t \in Triggering(s)
      BY <2>1, TriggeringFinite
    <3>2. Cardinality(Triggering(s) \ {t}) = Cardinality(Triggering(s)) - 1
      BY <3>1, FS_RemoveElement
    <3>3. QED
      BY <2>3, <3>2
  <2>5. \A x \in Scopes : ended'[x] + Cardinality(Triggering(x)') <= Cardinality(Threads)
    <3>1. /\ \A x \in Scopes : ended[x] \in Nat
          /\ ended'[s] = ended[s] + 1
          /\ \A x \in Scopes : x # s => ended'[x] = ended[x]
      BY <1>0, <2>2 DEF MortalTypeOK
    <3>2. \A x \in Scopes : ended[x] + Cardinality(Triggering(x)) <= Cardinality(Threads)
      BY DEF Finality
    <3>3. \A x \in Scopes : x # s => Cardinality(Triggering(x)') = Cardinality(Triggering(x))
      BY <2>3
    <3>4. QED
      BY <2>4, <3>1, <3>2, <3>3, TriggeringFinite
  <2>6. \A u \in Threads : threadPc'[u] = "record" => threadPc[u] = "record"
    BY <1>0, <2>2 DEF MortalTypeOK
  <2>7. \A n \in Nodes : n # s /\ ended'[n] = ended[n]
    BY <1>0, <2>1, <2>2 DEF MortalTypeOK
  <2>8. \A x \in Scopes : x \notin gone' => ended'[x] = 0
    BY <1>0, <2>1, <2>2 DEF Finality, MortalTypeOK
  <2>9. QED
    BY <2>1, <2>2, <2>5, <2>6, <2>7, <2>8 DEF Finality
<1>9. ASSUME NEW t \in Threads, TerminateFabric(t)
      PROVE  Finality'
  <2>1. /\ gone' = gone \cup {Fabric} /\ arg[t] = Fabric
        /\ threadPc[t] = "terminate" /\ threadPc' = [threadPc EXCEPT ![t] = "record"]
        /\ UNCHANGED <<ended, used, home, arg>>
    BY <1>9 DEF TerminateFabric
  <2>2. \A x \in Scopes : Triggering(x)' = Triggering(x)
    BY <1>0, <2>1 DEF MortalTypeOK, Triggering
  <2>3. QED
    BY <2>1, <2>2 DEF Finality
<1>10. CASE UNCHANGED mortalVars
  BY <1>10, FinalityKept DEF mortalVars, Triggering
<1>11. QED
  BY <1>1, <1>2, <1>3, <1>4, <1>5, <1>6, <1>7, <1>8, <1>9, <1>10
  DEF MortalNext, Begin, GoOn

\* A step that puts a node where it was not is a create; that of a caller ends at
\* a region that is not gone, that of the bridge has a fresh id, and only what was
\* in the fabric is ever terminated.
Revived(n) == n \in gone /\ home[n] = Nil /\ home'[n] # Nil
GoneWereUsed == gone \cap Nodes \subseteq used

LEMMA GoneUsedStep ==
  ASSUME Typed, GoneWereUsed, [MortalNext]_mortalVars
  PROVE  GoneWereUsed'
<1> USE MortalityAssumption DEF nodeState, p53, Scopes, GoneWereUsed
<1>1. ASSUME NEW t \in Threads, NEW n \in Nodes,
             CreateInternal(t, n) \/ \E r \in Regions : CommitCreate(t, n, r)
      PROVE  GoneWereUsed'
  BY <1>1 DEF CreateInternal, CommitCreate, Insert
<1>2. ASSUME NEW t \in Threads, NEW n \in Nodes, TerminateNode(t, n)
      PROVE  GoneWereUsed'
  BY <1>2 DEF TerminateNode, Typed, MortalTypeOK
<1>3. ASSUME NEW t \in Threads, TerminateRegion(t) \/ TerminateFabric(t)
      PROVE  GoneWereUsed'
  BY <1>3 DEF TerminateRegion, TerminateFabric
<1>4. ASSUME NEW t \in Threads,
             \/ BeginCreate(t) \/ Scan(t)
             \/ \E n \in Nodes : BeginEdit(t, n)
             \/ \E s \in Scopes : BeginTrigger(t, s)
             \/ \E r \in Regions : CreateRefused(t, r)
             \/ TryAcquire(t) \/ NodeNotFound(t) \/ Release(t) \/ Mutate(t)
      PROVE  GoneWereUsed'
  BY <1>4
  DEF BeginCreate, Scan, BeginEdit, BeginTrigger, CreateRefused, TryAcquire, NodeNotFound,
      Release, Mutate
<1>5. ASSUME NEW t \in Threads,
             \/ MutationPanics(t) \/ Fade(t) \/ Announce(t) \/ Collect(t)
             \/ WriteArchive(t) \/ ArchiveFails(t) \/ RecordFabric(t)
      PROVE  GoneWereUsed'
  BY <1>5
  DEF MutationPanics, Fade, Announce, Collect, WriteArchive, ArchiveFails, RecordFabric
<1>6. CASE UNCHANGED mortalVars
  BY <1>6 DEF mortalVars
<1>7. QED
  BY <1>1, <1>2, <1>3, <1>4, <1>5, <1>6 DEF MortalNext, Begin, GoOn

LEMMA RevivalStep ==
  ASSUME Typed, GoneWereUsed, [MortalNext]_mortalVars, NEW n \in Nodes, Revived(n)
  PROVE  /\ \E t \in Threads : threadPc[t] = "create" /\ threadPc'[t] = "idle"
         /\ home'[n] \notin gone
<1> USE MortalityAssumption DEF MoveOn, MoveWith, Return, Enter, nodeState, Revived, Scopes
<1>0. MortalTypeOK /\ LocalsOK
  BY DEF Typed
<1>1. n \in used
  BY DEF GoneWereUsed
<1>2. ASSUME NEW t \in Threads, NEW m \in Nodes, NEW r \in Regions, CommitCreate(t, m, r)
      PROVE  threadPc[t] = "create" /\ threadPc'[t] = "idle" /\ home'[n] \notin gone
  BY <1>0, <1>2 DEF CommitCreate, Insert, ClosedRegions, MortalTypeOK
<1>3. ASSUME NEW t \in Threads, NEW m \in Nodes, CreateInternal(t, m)
      PROVE  FALSE
  BY <1>0, <1>1, <1>3 DEF CreateInternal, Insert, MortalTypeOK
<1>4. ASSUME NEW t \in Threads, NEW m \in Nodes, TerminateNode(t, m)
      PROVE  FALSE
  BY <1>0, <1>4 DEF TerminateNode, MortalTypeOK
<1>5. ASSUME NEW t \in Threads, MutationPanics(t) \/ Fade(t) \/ Mutate(t)
      PROVE  FALSE
  BY <1>0, <1>5 DEF MutationPanics, Fade, Mutate, MortalTypeOK, LocalsOK
<1>6. ASSUME NEW t \in Threads,
             \/ BeginCreate(t) \/ Scan(t)
             \/ \E m \in Nodes : BeginEdit(t, m)
             \/ \E s \in Scopes : BeginTrigger(t, s)
             \/ \E r \in Regions : CreateRefused(t, r)
             \/ TryAcquire(t) \/ NodeNotFound(t) \/ Release(t)
             \/ Announce(t) \/ Collect(t) \/ WriteArchive(t) \/ ArchiveFails(t)
             \/ TerminateRegion(t) \/ TerminateFabric(t) \/ RecordFabric(t)
      PROVE  FALSE
  <2>1. home' = home
    BY <1>6
    DEF BeginCreate, Scan, BeginEdit, BeginTrigger, CreateRefused, TryAcquire, NodeNotFound,
        Release, Announce, Collect, WriteArchive, ArchiveFails, TerminateRegion,
        TerminateFabric, RecordFabric
  <2>2. QED
    BY <2>1
<1>7. CASE UNCHANGED mortalVars
  BY <1>7 DEF mortalVars
<1>8. QED
  <2>1. ASSUME NEW t \in Threads, Begin(t)
        PROVE  FALSE
    BY <1>3, <1>4, <1>6, <2>1 DEF Begin
  <2>2. ASSUME NEW t \in Threads, GoOn(t)
        PROVE  /\ threadPc[t] = "create" /\ threadPc'[t] = "idle"
               /\ home'[n] \notin gone
    BY <1>2, <1>5, <1>6, <2>2 DEF GoOn
  <2>3. QED
    BY <1>7, <2>1, <2>2 DEF MortalNext

\* A trigger runs over many critical sections, and edits, ticks and creations run
\* between them.  None of them brings a terminated node back but a create with its
\* old id, and not into a region that is gone; no id is terminated twice, and a
\* region or the fabric is terminated at most once per thread.
THEOREM TerminationOutlastsCalls == MortalSpec => TerminationHolds
<1>1. MortalInit => Finality /\ GoneWereUsed
  <2> SUFFICES ASSUME MortalInit
               PROVE  Finality /\ GoneWereUsed
    OBVIOUS
  <2>1. \A s : Triggering(s) = {}
    BY DEF MortalInit, Triggering
  <2>2. \A s : Cardinality(Triggering(s)) = 0
    BY <2>1, FS_EmptySet
  <2>3. Cardinality(Threads) \in Nat
    BY TriggeringFinite
  <2>4. QED
    BY <2>2, <2>3, MortalityAssumption DEF MortalInit, Finality, GoneWereUsed, Scopes
<1>2. Typed /\ Finality /\ [MortalNext]_mortalVars => Finality'
  BY FinalityStep
<1>3. Typed /\ GoneWereUsed /\ [MortalNext]_mortalVars => GoneWereUsed'
  BY GoneUsedStep
<1>4. Typed /\ Finality => TerminatedOnce
  <2> SUFFICES ASSUME Typed, Finality
               PROVE  TerminatedOnce
    OBVIOUS
  <2>1. \A s \in Scopes : ended[s] <= Cardinality(Threads)
    BY TriggeringFinite DEF Finality, Typed, MortalTypeOK
  <2>2. QED
    BY <2>1 DEF Finality, TerminatedOnce
<1>5. Typed /\ GoneWereUsed /\ [MortalNext]_mortalVars =>
        [\A n \in gone \cap Nodes :
           home[n] = Nil /\ home'[n] # Nil =>
             /\ \E t \in Threads : threadPc[t] = "create" /\ threadPc'[t] = "idle"
             /\ home'[n] \notin gone]_mortalVars
  BY RevivalStep DEF Revived
<1>6. QED
  BY <1>1, <1>2, <1>3, <1>4, <1>5, MortalTypeCorrect, PTL
  DEF MortalSpec, Typed, TerminationHolds, RevivedByCreateOnly

-----------------------------------------------------------------------------
(***************************************************************************)
(* Fourth layer: archives.  What a trigger collected covers its scope      *)
(* until the scope is gone, but for the nodes in late: whoever writes one  *)
(* after the collection finds the trigger past it.                         *)
(***************************************************************************)
Owed(s) == InScope(s) \ (internal \cup late[s])
Covers(copies, s) == \A n \in Owed(s) : \E v \in 0..edits[n] : <<n, v>> \in copies
PastCollect(t) == threadPc[t] \in {"write", "terminate", "record"}

ArchivesCover ==
  /\ \A t \in Threads : threadPc[t] = "write" => Covers(found[t], arg[t])
  /\ \A t \in Threads : threadPc[t] = "terminate" => Covers(archived[arg[t]], arg[t])
  /\ \A s \in gone \cap Scopes : Covers(archived[s], s)

\* What was covered stays so while nodes leave, or are edited.
LEMMA CoverKept ==
  ASSUME Typed, Typed', NEW s \in Scopes, NEW A, NEW B, A \subseteq B, Covers(A, s),
         Owed(s)' \subseteq Owed(s), \A n \in Nodes : edits[n] <= edits'[n]
  PROVE  \A n \in Owed(s)' : \E v \in 0..edits'[n] : <<n, v>> \in B
<1> SUFFICES ASSUME NEW n \in Owed(s)'
             PROVE  \E v \in 0..edits'[n] : <<n, v>> \in B
  OBVIOUS
<1>1. n \in Owed(s) /\ n \in Nodes
  BY DEF Owed, InScope, Present
<1>2. PICK v \in 0..edits[n] : <<n, v>> \in A
  BY <1>1 DEF Covers
<1>3. v \in 0..edits'[n]
  BY <1>1, <1>2 DEF Typed, MortalTypeOK
<1>4. QED
  BY <1>2, <1>3

\* An action outside the triggers, or one that does not reach the archive.
LEMMA CoversKept ==
  ASSUME Typed, Typed', ArchivesCover, archived' = archived, gone' \cap Scopes \subseteq gone,
         \A n \in Nodes : edits[n] <= edits'[n],
         \A t \in Threads :
           PastCollect(t)' => threadPc'[t] = threadPc[t] /\ arg'[t] = arg[t] /\ found'[t] = found[t],
         \A s \in Scopes :
           s \in gone \/ (\E t \in Threads : threadPc[t] \in {"write", "terminate"} /\ arg[t] = s)
           => Owed(s)' \subseteq Owed(s)
  PROVE  ArchivesCover'
<1>1. ASSUME NEW t \in Threads, threadPc'[t] = "write"
      PROVE  Covers(found[t], arg[t])'
  <2>1. /\ threadPc[t] = "write" /\ arg'[t] = arg[t] /\ found'[t] = found[t]
        /\ arg[t] \in Scopes
    BY <1>1 DEF PastCollect, Typed, LocalsOK
  <2>2. Covers(found[t], arg[t]) /\ Owed(arg[t])' \subseteq Owed(arg[t])
    BY <2>1 DEF ArchivesCover
  <2>3. QED
    BY <2>1, <2>2, CoverKept DEF Covers
<1>2. ASSUME NEW t \in Threads, threadPc'[t] = "terminate"
      PROVE  Covers(archived[arg[t]], arg[t])'
  <2>1. PICK s \in Scopes : threadPc[t] = "terminate" /\ arg[t] = s /\ arg'[t] = s
    BY <1>2 DEF PastCollect, Typed, LocalsOK
  <2>2. Covers(archived[s], s) /\ Owed(s)' \subseteq Owed(s)
    BY <2>1 DEF ArchivesCover
  <2>3. Covers(archived[s], s)'
    BY <2>2, CoverKept DEF Covers
  <2>4. QED
    BY <2>1, <2>3 DEF Covers, Owed, InScope
<1>3. ASSUME NEW s \in gone' \cap Scopes
      PROVE  Covers(archived[s], s)'
  BY <1>3, CoverKept DEF ArchivesCover, Covers
<1>4. QED
  BY <1>1, <1>2, <1>3 DEF ArchivesCover

\* A node a caller adds is in late of every scope whose archive could miss it,
\* and a region that is gone takes none; the bridge's own nodes are not owed.
LEMMA InsertOwesNothing ==
  ASSUME Typed, NEW n \in Nodes, NEW r \in Regions, Insert(n, r),
         \/ internal' = internal \cup {n}
         \/ internal' = internal \ {n} /\ r \notin ClosedRegions,
         NEW s \in Scopes,
         s \in gone \/ \E t \in Threads : threadPc[t] \in {"write", "terminate"} /\ arg[t] = s
  PROVE  Owed(s)' \subseteq Owed(s)
<1> USE MortalityAssumption DEF Scopes
<1>1. /\ home' = [home EXCEPT ![n] = r] /\ r # Nil
      /\ home \in [Nodes -> Regions \cup {Nil}]
      /\ late \in [Scopes -> SUBSET Nodes]
  BY DEF Insert, Typed, MortalTypeOK
<1>2. late'[s] = IF s \in {r, Fabric} /\ Collected(s) THEN late[s] \cup {n} ELSE late[s] \ {n}
  BY DEF Insert
<1>3. InScope(s)' = IF s \in {r, Fabric} THEN InScope(s) \cup {n} ELSE InScope(s) \ {n}
  BY <1>1 DEF InScope, Present
<1>4. CASE internal' = internal \cup {n}
  BY <1>2, <1>3, <1>4 DEF Owed
<1>5. CASE internal' = internal \ {n} /\ r \notin ClosedRegions
  <2>1. s \in {r, Fabric} => Collected(s)
    BY <1>5 DEF Collected, ClosedRegions
  <2>2. QED
    BY <1>2, <1>3, <1>5, <2>1 DEF Owed
<1>6. QED
  BY <1>4, <1>5

LEMMA CoversStep ==
  ASSUME Typed, Typed', ArchivesCover, [MortalNext]_mortalVars
  PROVE  ArchivesCover'
<1> USE MortalityAssumption
    DEF MoveOn, MoveWith, Return, Enter, nodeState, p53, callState, Scopes, PastCollect
<1>0. MortalTypeOK /\ LocalsOK
  BY DEF Typed
<1>1. ASSUME NEW t \in Threads, NEW n \in Nodes, CreateInternal(t, n)
      PROVE  ArchivesCover'
  <2>1. \A s \in Scopes :
          s \in gone \/ (\E u \in Threads : threadPc[u] \in {"write", "terminate"} /\ arg[u] = s)
          => Owed(s)' \subseteq Owed(s)
    BY <1>1, InsertOwesNothing DEF CreateInternal
  <2>2. QED
    BY <1>0, <1>1, <2>1, CoversKept DEF CreateInternal, Insert, MortalTypeOK
<1>2. ASSUME NEW t \in Threads, NEW n \in Nodes, NEW r \in Regions, CommitCreate(t, n, r)
      PROVE  ArchivesCover'
  <2>1. \A s \in Scopes :
          s \in gone \/ (\E u \in Threads : threadPc[u] \in {"write", "terminate"} /\ arg[u] = s)
          => Owed(s)' \subseteq Owed(s)
    BY <1>2, InsertOwesNothing DEF CommitCreate
  <2>2. QED
    BY <1>0, <1>2, <2>1, CoversKept DEF CommitCreate, Insert, MortalTypeOK
<1>3. ASSUME NEW t \in Threads,
             \/ BeginCreate(t) \/ Scan(t)
             \/ \E n \in Nodes : BeginEdit(t, n)
             \/ \E s \in Scopes : BeginTrigger(t, s)
             \/ \E r \in Regions : CreateRefused(t, r)
             \/ TryAcquire(t) \/ NodeNotFound(t) \/ Release(t)
             \/ Announce(t) \/ ArchiveFails(t) \/ RecordFabric(t)
      PROVE  ArchivesCover'
  <2>1. UNCHANGED <<home, internal, late, edits, archived>>
    BY <1>3
    DEF BeginCreate, Scan, BeginEdit, BeginTrigger, CreateRefused, TryAcquire, NodeNotFound,
        Release, Announce, ArchiveFails, RecordFabric
  <2>2. gone' = gone
    BY <1>3
    DEF BeginCreate, Scan, BeginEdit, BeginTrigger, CreateRefused, TryAcquire, NodeNotFound,
        Release, Announce, ArchiveFails, RecordFabric
  <2>3. \A s \in Scopes : Owed(s)' = Owed(s)
    BY <2>1 DEF Owed, InScope, Present
  <2>4. \A u \in Threads :
          PastCollect(u)' => threadPc'[u] = threadPc[u] /\ arg'[u] = arg[u] /\ found'[u] = found[u]
    BY <1>0, <1>3
    DEF BeginCreate, Scan, BeginEdit, BeginTrigger, CreateRefused, TryAcquire, NodeNotFound,
        ReleaseNext, Release, Announce, ArchiveFails, GiveUp, RecordFabric, MortalTypeOK
  <2>5. \A n \in Nodes : edits[n] <= edits'[n]
    BY <1>0, <2>1 DEF MortalTypeOK
  <2>6. QED
    BY <2>1, <2>2, <2>3, <2>4, <2>5, CoversKept
<1>4. ASSUME NEW t \in Threads, Mutate(t) \/ MutationPanics(t) \/ Fade(t)
      PROVE  ArchivesCover'
  <2>1. \A s \in Scopes : Owed(s)' \subseteq Owed(s)
    BY <1>0, <1>4 DEF Mutate, MutationPanics, Fade, LocalsOK, MortalTypeOK, Owed, InScope, Present
  <2>2. \A n \in Nodes : edits[n] <= edits'[n]
    BY <1>0, <1>4 DEF Mutate, MutationPanics, Fade, LocalsOK, MortalTypeOK
  <2>3. QED
    BY <1>0, <1>4, <2>1, <2>2, CoversKept DEF Mutate, MutationPanics, Fade, MortalTypeOK
<1>5. ASSUME NEW t \in Threads, NEW n \in Nodes, TerminateNode(t, n)
      PROVE  ArchivesCover'
  <2>1. \A s \in Scopes : Owed(s)' \subseteq Owed(s)
    BY <1>0, <1>5 DEF TerminateNode, MortalTypeOK, Owed, InScope, Present
  <2>2. gone' \cap Scopes \subseteq gone /\ \A m \in Nodes : edits[m] <= edits'[m]
    BY <1>0, <1>5 DEF TerminateNode, MortalTypeOK
  <2>3. QED
    BY <1>5, <2>1, <2>2, CoversKept DEF TerminateNode
<1>6. ASSUME NEW t \in Threads, Collect(t)
      PROVE  ArchivesCover'
  <2>1. PICK s \in Scopes : s = arg[t]
    BY <1>0, <1>6 DEF Collect, LocalsOK
  <2>2. Covers(CopiesOf(s), s)
    <3>1. \A n \in Owed(s) : n \in Nodes /\ n \in InScope(s) /\ edits[n] \in 0..edits[n]
      BY <1>0 DEF Owed, InScope, Present, MortalTypeOK
    <3>2. QED
      BY <3>1 DEF Covers, CopiesOf
  <2>3. /\ UNCHANGED <<nodeState, p53, arg>>
        /\ threadPc' = [threadPc EXCEPT ![t] = "write"]
        /\ found' = [found EXCEPT ![t] = CopiesOf(s)]
    BY <1>6, <2>1 DEF Collect
  <2>4. \A x : Owed(x)' = Owed(x)
    BY <2>3 DEF Owed, InScope, Present
  <2>5. ASSUME NEW u \in Threads, threadPc'[u] = "write"
        PROVE  Covers(found[u], arg[u])'
    <3>1. CASE u = t
      <4>1. found'[u] = CopiesOf(s) /\ arg'[u] = s
        BY <1>0, <2>1, <2>3, <3>1 DEF MortalTypeOK
      <4>2. Covers(found[u], arg[u])' <=> Covers(CopiesOf(s), s)
        BY <2>3, <2>4, <4>1 DEF Covers, Owed, InScope, Present
      <4>3. QED
        BY <2>2, <4>2
    <3>2. CASE u # t
      <4>1. threadPc[u] = "write" /\ found'[u] = found[u] /\ arg'[u] = arg[u]
        BY <1>0, <2>3, <2>5, <3>2 DEF MortalTypeOK
      <4>2. Covers(found[u], arg[u])' <=> Covers(found[u], arg[u])
        BY <2>3, <4>1 DEF Covers, Owed, InScope, Present
      <4>3. QED
        BY <4>1, <4>2 DEF ArchivesCover
    <3>3. QED
      BY <3>1, <3>2
  <2>6. ASSUME NEW u \in Threads, threadPc'[u] = "terminate"
        PROVE  Covers(archived[arg[u]], arg[u])'
    <3>1. threadPc[u] = "terminate"
      BY <1>0, <2>3, <2>6 DEF MortalTypeOK
    <3>2. QED
      BY <2>3, <3>1 DEF ArchivesCover, Covers, Owed, InScope, Present
  <2>7. \A x \in gone' \cap Scopes : Covers(archived[x], x)'
    BY <2>3 DEF ArchivesCover, Covers, Owed, InScope, Present
  <2>8. QED
    BY <2>5, <2>6, <2>7 DEF ArchivesCover
<1>7. ASSUME NEW t \in Threads, WriteArchive(t)
      PROVE  ArchivesCover'
  <2>1. PICK s \in Scopes : s = arg[t]
    BY <1>0, <1>7 DEF WriteArchive, LocalsOK
  <2>2. /\ UNCHANGED <<nodeState, gone, arg, found>>
        /\ threadPc[t] = "write" /\ threadPc' = [threadPc EXCEPT ![t] = "terminate"]
        /\ archived' = [archived EXCEPT ![s] = @ \cup found[t]]
    BY <1>7, <2>1 DEF WriteArchive
  <2>3. \A x \in Scopes : archived[x] \subseteq archived'[x]
    BY <1>0, <2>2 DEF MortalTypeOK
  <2>4. found[t] \subseteq archived'[s]
    BY <1>0, <2>2 DEF MortalTypeOK
  <2>5. \A x \in Scopes : \A A, B : Covers(A, x) /\ A \subseteq B => Covers(B, x)
    BY DEF Covers
  <2>6. ASSUME NEW x \in Scopes, Covers(archived'[x], x)
        PROVE  Covers(archived[x], x)'
    BY <2>2, <2>6 DEF Covers, Owed, InScope, Present
  <2>7. Covers(archived[s], s)'
    BY <2>1, <2>2, <2>4, <2>5, <2>6 DEF ArchivesCover
  <2>8. ASSUME NEW u \in Threads, threadPc'[u] = "write"
        PROVE  Covers(found[u], arg[u])'
    <3>1. threadPc[u] = "write"
      BY <1>0, <2>2, <2>8 DEF MortalTypeOK
    <3>2. QED
      BY <2>2, <3>1 DEF ArchivesCover, Covers, Owed, InScope, Present
  <2>9. ASSUME NEW u \in Threads, threadPc'[u] = "terminate"
        PROVE  Covers(archived[arg[u]], arg[u])'
    <3>1. PICK x \in Scopes : x = arg[u] /\ x = arg'[u]
      <4>1. threadPc[u] \in {"write", "terminate"} /\ arg'[u] = arg[u]
        BY <1>0, <2>2, <2>9 DEF MortalTypeOK
      <4>2. QED
        BY <1>0, <4>1 DEF LocalsOK
    <3>2. x = s \/ (threadPc[u] = "terminate" /\ Covers(archived[x], x))
      BY <1>0, <2>1, <2>2, <2>9, <3>1 DEF ArchivesCover, MortalTypeOK
    <3>3. Covers(archived[x], x)'
      BY <2>3, <2>5, <2>6, <2>7, <3>2
    <3>4. QED
      BY <3>1, <3>3 DEF Covers, Owed, InScope
  <2>10. \A x \in gone' \cap Scopes : Covers(archived[x], x)'
    BY <2>2, <2>3, <2>5, <2>6 DEF ArchivesCover
  <2>11. QED
    BY <2>8, <2>9, <2>10 DEF ArchivesCover
<1>8. ASSUME NEW t \in Threads, TerminateRegion(t) \/ TerminateFabric(t)
      PROVE  ArchivesCover'
  <2>1. PICK s \in Scopes : s = arg[t]
    BY <1>0, <1>8 DEF TerminateRegion, TerminateFabric, LocalsOK
  <2>2. /\ UNCHANGED <<nodeState, archived>>
        /\ threadPc[t] = "terminate" /\ gone' = gone \cup {s}
    BY <1>8, <2>1 DEF TerminateRegion, TerminateFabric
  <2>3. \A u \in Threads : threadPc'[u] \in {"write", "terminate"} =>
          threadPc'[u] = threadPc[u] /\ arg'[u] = arg[u] /\ found'[u] = found[u]
    BY <1>0, <1>8 DEF TerminateRegion, TerminateFabric, MortalTypeOK
  <2>4. \A x \in gone' \cap Scopes : Covers(archived[x], x)
    BY <2>1, <2>2 DEF ArchivesCover
  <2>5. \A x \in gone' \cap Scopes : Covers(archived[x], x)'
    BY <2>2, <2>4 DEF Covers, Owed, InScope, Present
  <2>6. ASSUME NEW u \in Threads, threadPc'[u] = "write"
        PROVE  Covers(found[u], arg[u])'
    BY <2>2, <2>3, <2>6 DEF ArchivesCover, Covers, Owed, InScope, Present
  <2>7. ASSUME NEW u \in Threads, threadPc'[u] = "terminate"
        PROVE  Covers(archived[arg[u]], arg[u])'
    BY <2>2, <2>3, <2>7 DEF ArchivesCover, Covers, Owed, InScope, Present
  <2>8. QED
    BY <2>5, <2>6, <2>7 DEF ArchivesCover
<1>9. CASE UNCHANGED mortalVars
  BY <1>9 DEF mortalVars, ArchivesCover, Covers, Owed, InScope, Present
<1>10. QED
  BY <1>1, <1>2, <1>3, <1>4, <1>5, <1>6, <1>7, <1>8, <1>9 DEF MortalNext, Begin, GoOn

\* The archive of a region or of the fabric that is gone holds every node that
\* was in its scope when it was collected and still is, although creations,
\* edits, ticks and other triggers run between the collection and the end.
THEOREM ArchivesComplete == MortalSpec => []ArchiveComplete
<1>1. MortalInit => ArchivesCover
  BY DEF MortalInit, ArchivesCover
<1>2. Typed /\ Typed' /\ ArchivesCover /\ [MortalNext]_mortalVars => ArchivesCover'
  BY CoversStep
<1>3. ArchivesCover => ArchiveComplete
  BY DEF ArchivesCover, Covers, Owed, ArchiveComplete
<1>4. QED
  BY <1>1, <1>2, <1>3, MortalTypeCorrect, PTL DEF MortalSpec, Typed
=============================================================================
