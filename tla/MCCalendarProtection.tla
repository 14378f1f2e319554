------------------------ MODULE MCCalendarProtection ------------------------
(***************************************************************************)
(* A work calendar and a private one, each also seen through the other     *)
(* account, which has it delegated.                                        *)
(***************************************************************************)
EXTENDS CalendarProtection, TLC

CONSTANTS t1, t2

MCEndpoints == {"work", "shared", "private", "delegated"}
MCIdentities == {"W", "P"}
MCConnections == {"employer", "personal"}
MCIdentity == [e \in MCEndpoints |-> IF e \in {"work", "shared"} THEN "W" ELSE "P"]
MCConnection == [e \in MCEndpoints |-> IF e \in {"work", "delegated"} THEN "employer" ELSE "personal"]

\* A bridge out of the private calendar and one into its delegated view.
MCPolicies == {"out", "in"}
MCSource == [p \in MCPolicies |-> IF p = "out" THEN "private" ELSE "work"]
MCDestination == [p \in MCPolicies |-> IF p = "out" THEN "work" ELSE "delegated"]

\* Two rules for the same work calendar, which name both calendars differently.
MCRules == {"r", "s"}
MCResponse == [r \in MCRules |-> IF r = "r" THEN "work" ELSE "shared"]
MCAvailability == [r \in MCRules |-> IF r = "r" THEN {"private"} ELSE {"delegated"}]

MCPlans == {"q"}
MCTarget == [q \in MCPlans |-> "work"]

\* The employer's account, which bridges and rules need, may be narrowed.
MCGrants == [c \in MCConnections |-> IF c = "employer" THEN {"both", "destination", "availability"}
                                      ELSE {"both", "source"}]

\* The keys as the code's strings sort: endpoints before identities before responses.
MCRank ==
    LET order == << <<"endpoint", "delegated">>, <<"endpoint", "private">>,
                    <<"endpoint", "shared">>, <<"endpoint", "work">>,
                    <<"identity", "P">>, <<"identity", "W">>,
                    <<"response", "P">>, <<"response", "W">> >>
    IN  [k \in {order[i] : i \in 1..8} |-> CHOOSE i \in 1..8 : order[i] = k]

Symmetry == Permutations(Txs)
=============================================================================
