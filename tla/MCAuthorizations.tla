---------------------------- MODULE MCAuthorizations ----------------------------
(***************************************************************************)
(* Descriptions for Authorizations: keys and passwords that are required   *)
(* together, schemes of OAuth of every flow, and definitions of version 1. *)
(***************************************************************************)
EXTENDS Authorizations

D(type, flow, scopes, tokenName) ==
  [type |-> type, flow |-> flow, scopes |-> scopes, tokenName |-> tokenName]
Key == D("apiKey", None, {}, None)
Basic == D("basic", None, {}, None)
OAuth(flow, scopes) == D("oauth2", flow, scopes, "access_token")

R(name, scopes) == [name |-> name, scopes |-> scopes]

MCDescriptions ==
  {[defs |-> [key |-> Key, login |-> Basic],
    security |-> <<<<R("key", {}), R("gone", {}), R("login", {})>>>>],
   [defs |-> [login |-> Basic, second |-> Basic],
    security |-> <<<<R("login", {}), R("second", {})>>>>],
   [defs |-> [implicit |-> OAuth("implicit", {"read", "write"}),
              code |-> [OAuth("accessCode", {}) EXCEPT !.tokenName = "token"]],
    security |-> <<<<R("implicit", {"read", "none"})>>, <<R("implicit", {}), R("code", {})>>>>],
   [defs |-> [password |-> OAuth("password", {})], security |-> <<<<R("password", {})>>>>],
   [defs |-> [app |-> OAuth("application", {"read"})], security |-> <<<<R("app", {"read"})>>>>],
   [defs |-> securityDefinitions(
      [old |-> [type |-> "oauth2", scopes |-> {"one"}, implicit |-> TRUE, code |-> TRUE],
       odd |-> [type |-> "basicAuth", scopes |-> {}, implicit |-> FALSE, code |-> FALSE],
       none |-> [type |-> "oauth2", scopes |-> {}, implicit |-> FALSE, code |-> FALSE]]),
    security |-> <<<<R("old", {"one"}), R("odd", {})>>>>]}

=============================================================================
