---------------------------- MODULE MCFabricStore ----------------------------
(* A small instance of FabricStore for TLC. *)
EXTENDS FabricStore

CONSTANT MaxIds
MCIds == 1..MaxIds

\* The last two say different things and have one signature.
MCSystemic == Wanting(<<"coordinate">>)
MCContents ==
  {MCSystemic,
   [Wanting(<<"w">>) EXCEPT !.constraints = <<Hard(<<"a">>), Hard(<<"b">>), Soft(<<"c">>, "half")>>,
                            !.resolution = [state |-> "failed", text |-> <<"why">>]],
   [Wanting(<<"w">>) EXCEPT
      !.constraints = <<Verified(Hard(<<"a", ":hard", ",", "b">>), TRUE), Soft(<<"c">>, "half")>>,
      !.resolution = [state |-> "failed", text |-> <<"why">>]]}

\* Texts, with the types that take each, its number and its display.
MCNumbers == {"0", "1", "2", "3", "4", "7"}
MCAccepted ==
  [t \in MCNumbers \cup {"007", "nan", "NaN", "1e999", "inf", "true", "TRUE", "systemic"} |->
     CASE t \in MCNumbers \cup {"007"} -> {"Int", "Float"}
       [] t \in {"nan", "NaN", "1e999", "inf"} -> {"Float"}
       [] t \in {"true", "TRUE"} -> {"Bool"}
       [] OTHER -> {}]
MCNumeral ==
  [t \in DOMAIN MCAccepted |->
     CASE t = "1" -> 1 [] t = "2" -> 2 [] t = "3" -> 3 [] t = "4" -> 4 [] t \in {"7", "007"} -> 7 [] OTHER -> 0]
MCPlain ==
  [t \in DOMAIN MCAccepted |->
     CASE t = "007" -> "7" [] t = "nan" -> "NaN" [] t = "1e999" -> "inf" [] t = "TRUE" -> "true" [] OTHER -> t]

Meta(key, text) == [key |-> key, text |-> text]
MCMetas ==
  {<<Meta("cost", "nan")>>, <<Meta("cost", "1e999")>>,
   <<Meta("cost", "TRUE"), Meta("kind", "systemic"), Meta("cost", "007")>>}

Where(key, op, text) == [key |-> key, op |-> op, text |-> text]
MCClauses ==
  {<<NoPredicate>>,
   <<Where("cost", ">=", "2"), NoPredicate, Where("activation_count", "!=", "1")>>}
=============================================================================
