------------------------- MODULE MCHumanistCallback -------------------------
(* A small agent: two reading tools, one that modifies and one that deletes, *)
(* the last forbidden by the intent but approvable.                          *)
EXTENDS HumanistCallback

MCKeywords == [search_docs |-> {"search"}, summarise |-> {},
               update_record |-> {"update"}, delete_record |-> {"delete"}]

MCTools == DOMAIN MCKeywords

MCGrant == [objective |-> "tidy up", operations |-> {"read", "modify"},
            forbidden |-> {"delete"}, systems |-> {}, maxQuantity |-> None]

MCApprovals == {[permits |-> "delete", resource |-> None,
                 maxQuantity |-> None, expiresIn |-> 0]}

\* Approvals that outlast the moment they are given in.
MCLastingApprovals == {[terms EXCEPT !.expiresIn = 1] : terms \in MCApprovals}
=============================================================================
