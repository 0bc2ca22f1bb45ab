---------------------------- MODULE MCAuthority -----------------------------
(* Small instances of Authority: two principals, two intents that differ in *)
(* what they grant and forbid, and actions on every side of each boundary.  *)
EXTENDS Authority

Desk == [objective |-> "incidents", operations |-> {"read", "modify"},
         forbidden |-> {"delete"}, systems |-> {"desk"}, maxQuantity |-> 2]

Reports == [objective |-> "reports", operations |-> {"read", "delete"},
            forbidden |-> {}, systems |-> {}, maxQuantity |-> None]

MCGrants == {Desk, Reports}

Terms(permits, resource, maxQuantity, expiresIn) ==
    [permits |-> permits, resource |-> resource,
     maxQuantity |-> maxQuantity, expiresIn |-> expiresIn]

MCApprovals == {Terms("delete", "expired", 2, 1), Terms("delete", None, None, 2),
                Terms("read", "expired", None, 1)}

Action(operation, resource, system, quantity) ==
    [operation |-> operation, resource |-> resource, system |-> system,
     audience |-> "requester", effect |-> "informational",
     quantity |-> quantity]

MCActions == {Action("read", "expired", "desk", 1),
              Action("read", None, "hr", 3),
              Action("modify", "live", "desk", None),
              Action("delete", "expired", "desk", 2),
              Action("delete", "live", None, 5),
              [Action("read", "live", "desk", 1) EXCEPT !.audience = "public"],
              [Action("read", "live", "desk", 1) EXCEPT !.effect = "legal"]}

\* Zero is falsy: no expiry.
MCTtls == {0, 1}
=============================================================================
