--------------------------- MODULE ConsensusRound ---------------------------
(***************************************************************************)
(* What semantic edits promise: on each target, checkouts come and go, a   *)
(* decision is taken under a checkout, and the decision that leaves no     *)
(* checkout outstanding publishes, in the same instant, a snapshot of      *)
(* everything decided on that target so far.  There is no lock here: that  *)
(* the transition is atomic with respect to the checkout set is the        *)
(* promise, the SnapshotLock is how SemanticEdit keeps it.                 *)
(***************************************************************************)
EXTENDS Sequences

CONSTANTS Targets, Checkouts, Proposals

VARIABLES
  outstanding,  \* [Targets -> SUBSET Checkouts]
  used,         \* checkouts that were ever outstanding
  decided,      \* [Targets -> SUBSET Proposals]
  rounds        \* [Targets -> Seq(SUBSET Proposals)], the published snapshots

vars == <<outstanding, used, decided, rounds>>

Init ==
  /\ outstanding = [t \in Targets |-> {}]
  /\ used = {}
  /\ decided = [t \in Targets |-> {}]
  /\ rounds = [t \in Targets |-> <<>>]

Join(t, c) ==
  /\ c \notin used
  /\ used' = used \cup {c}
  /\ outstanding' = [outstanding EXCEPT ![t] = @ \cup {c}]
  /\ UNCHANGED <<decided, rounds>>

\* Checkouts whose holders ran out of time leave; nothing is published.
Lapse(t, gone) ==
  /\ outstanding' = [outstanding EXCEPT ![t] = @ \ gone]
  /\ UNCHANGED <<used, decided, rounds>>

\* p is decided under c; checkouts found to have run out of time leave too.
Decide(t, c, p, gone) ==
  /\ c \in outstanding[t]
  /\ p \notin decided[t]
  /\ outstanding' = [outstanding EXCEPT ![t] = @ \ (gone \cup {c})]
  /\ decided' = [decided EXCEPT ![t] = @ \cup {p}]
  /\ rounds' = IF outstanding'[t] = {}
               THEN [rounds EXCEPT ![t] = Append(@, decided'[t])]
               ELSE rounds
  /\ UNCHANGED used

Next ==
  \E t \in Targets :
    \/ \E c \in Checkouts : Join(t, c)
    \/ \E gone \in SUBSET outstanding[t] : Lapse(t, gone)
    \/ \E c \in Checkouts, p \in Proposals, gone \in SUBSET outstanding[t] :
         Decide(t, c, p, gone)

Spec == Init /\ [][Next]_vars
=============================================================================
