--------------------------- MODULE MCCoordination ---------------------------
EXTENDS Coordination, TLC

\* One menu per question, and one where both kinds of fallback share a bridge.
MCMenus == {{"message", "replay"}, {"decision", "audit"}, {"operator", "check"}, {"intent", "evidence", "relink"},
            {"intent", "evidence", "claim", "query"}, {"intent", "merge", "split", "query"},
            {"message", "evidence", "replay", "relink"}}

MCSymmetry == Permutations(Agents)
=============================================================================
