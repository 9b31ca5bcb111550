------------------------------- MODULE MCConsole -------------------------------
(***************************************************************************)
(* Descriptions of both versions: one with a key and two oauth2 schemes    *)
(* and an operation that needs both of these, a listing of two             *)
(* declarations that share a path, one with a declaration that throws, a   *)
(* single document, one that is no description, one that cannot be built.  *)
(***************************************************************************)
EXTENDS Console

MCDoc == {"pets", "listing", "broken", "single", "text", "clash"}
MCShape == [d \in MCDoc |-> CASE d = "pets" -> "v2"
                              [] d \in {"listing", "broken"} -> "listing"
                              [] d = "single" -> "single"
                              [] d = "clash" -> "clash"
                              [] OTHER -> "notSpec"]
MCApi == {"user", "admin", "bare"}
MCLists == [d \in MCDoc |-> CASE d = "listing" -> {"user", "admin"}
                              [] d = "broken" -> {"user", "bare"}
                              [] d = "single" -> {"admin"}
                              [] OTHER -> {}]
MCForms == [d \in MCDoc |-> CASE d = "pets" -> {{"key"}, {"other"}, {"oauth", "other"}}
                              [] d = "single" -> {{"basicAuth"}}
                              [] OTHER -> {}]
MCEndpoint == {<<"users", "get">>, <<"users", "post">>, <<"admin", "get">>}
MCPath == [e \in MCEndpoint |-> e[1]]
MCEndpoints == [a \in MCApi |-> CASE a = "user" -> {<<"users", "get">>}
                                  [] a = "admin" -> {<<"users", "post">>, <<"admin", "get">>}
                                  [] OTHER -> {}]
MCConsumes == [a \in MCApi |-> IF a = "user" THEN "json" ELSE None]

MCModel == {"User", "Role"}
MCModels == [a \in MCApi |-> IF a = "user" THEN {"User"} ELSE {"User", "Role"}]
MCPlaces == {"property", "parameter", "response", "responseModel"}
MCUses == [a \in MCApi |-> [p \in MCPlaces |-> CASE a = "user" /\ p = "property" -> {"Role"}
                                               [] a = "user" /\ p = "response" -> {"User"}
                                               [] a = "admin" /\ p = "parameter" -> {"Role"}
                                               [] OTHER -> {}]]

=============================================================================
