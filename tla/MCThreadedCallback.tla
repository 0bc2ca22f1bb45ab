------------------------- MODULE MCThreadedCallback -------------------------
(* Two threads and three tools of different kinds, one of which only a       *)
(* human's approval permits.                                                 *)
EXTENDS ThreadedCallback

CONSTANTS t1, t2

MCThreads == {t1, t2}

\* No state and no property tells one thread from another.
ThreadSymmetry == Permutations(MCThreads)

MCKeywords == [search_docs   |-> {"search"},
               update_record |-> {"update"},
               remove_record |-> {"remove"}]

MCTools == DOMAIN MCKeywords

MCGrant == [objective |-> "tidy up", operations |-> {"read", "delete"},
            forbidden |-> {}, systems |-> {}, maxQuantity |-> None]

MCApprovals == {[permits |-> "modify", resource |-> None,
                 maxQuantity |-> None, expiresIn |-> 0]}
=============================================================================
