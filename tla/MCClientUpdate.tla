--------------------------- MODULE MCClientUpdate ---------------------------
(* Builds for model checking: domain a is in every frontier, domain b is in *)
(* the frontier of every build but the first.  Both are kept in databases,  *)
(* and only that of a is created by its migration.                          *)
EXTENDS ClientUpdate

CONSTANTS a, b

MCDomains == {a, b}
MCFrontier == [v \in Versions |-> IF v = 1 THEN {a} ELSE {a, b}]
MCFound == [d \in MCDomains |-> IF d = a THEN {"absent", "files", "outdated"}
                                         ELSE {"absent", "legacy"}]
MCAbsent == [d \in MCDomains |-> {"absent"}]

=============================================================================
