---------------------------- MODULE NodeContent ----------------------------
(***************************************************************************)
(* What an intent node says: its want, its constraints, how far resolution *)
(* has come; the bytes its signature is made from, and the entries of the  *)
(* saved file they are turned into and read from.                          *)
(*                                                                         *)
(* A text is a sequence of pieces, so that what a user writes can look     *)
(* like the separators around it.  The hash of the bytes is taken to be    *)
(* injective: a signature is the bytes.                                    *)
(***************************************************************************)
EXTENDS Sequences, SequencesExt

States == {"unresolved", "in_progress", "resolved", "failed", "abandoned"}

Unresolved == [state |-> "unresolved", text |-> <<>>]

\* soft: the weight of a soft constraint, none for a hard one.
Hard(semantic) ==
  [semantic |-> semantic, soft |-> <<>>, verified |-> FALSE, violated |-> <<>>]
Soft(semantic, weight) == [Hard(semantic) EXCEPT !.soft = <<weight>>]

\* satisfy and violate
Verified(c, violated) == [c EXCEPT !.verified = TRUE, !.violated = <<violated>>]

Wanting(want) == [want |-> want, constraints |-> <<>>, resolution |-> Unresolved]

Text == Seq(STRING)
Constraint == [semantic : Text, soft : Text, verified : BOOLEAN, violated : Seq(BOOLEAN)]

IsContent(c) ==
  /\ c \in [want : Text, constraints : Seq(Constraint), resolution : [state : States, text : Text]]
  /\ c.resolution.state = "unresolved" => c.resolution.text = <<>>

\* Whether a constraint was verified or violated is not signed.
ConstraintBytes(c) ==
  c.semantic \o (IF c.soft = <<>> THEN <<":hard">> ELSE <<":soft:">> \o c.soft) \o <<",">>

ResolutionBytes(r) ==
  <<r.state>> \o (IF r.state = "unresolved" THEN <<>> ELSE <<":">> \o r.text)

SigBytes(c) ==
  <<"want:">> \o c.want \o <<"constraints:">>
    \o FlattenSeq([n \in DOMAIN c.constraints |-> ConstraintBytes(c.constraints[n])])
    \o <<"|resolution:">> \o ResolutionBytes(c.resolution)

(***************************************************************************)
(* The entries of the file, and back.  What from_ never writes, and to_    *)
(* refuses, is left out.                                                   *)
(***************************************************************************)
FromConstraint(c) ==
  [semantic |-> c.semantic, kind |-> IF c.soft = <<>> THEN "hard" ELSE "soft",
   weight |-> c.soft, verified |-> c.verified, violated |-> c.violated]

ToConstraint(e) ==
  [semantic |-> e.semantic, soft |-> IF e.kind = "hard" THEN <<>> ELSE e.weight,
   verified |-> e.verified, violated |-> e.violated]

FromTarget(r) ==
  [state |-> r.state, description |-> IF r.state = "unresolved" THEN <<>> ELSE <<r.text>>]

ToTarget(e) ==
  [state |-> e.state,
   text |-> IF e.state = "unresolved" \/ e.description = <<>> THEN <<>> ELSE e.description[1]]
=============================================================================
