---------------------------- MODULE MCSpecResolver ----------------------------
(***************************************************************************)
(* Descriptions with two references to objects of the same name in two    *)
(* documents (pet, namesake), of which one has a reference inside (self),  *)
(* a second one into the first document (other), whose object refers to    *)
(* itself (self), one to nothing (gone), one where the resolver does not   *)
(* look (header), and a shared parameter (param) whose schema refers to    *)
(* the description itself (schema); with two objects that refer to each    *)
(* other (ping, pong); and with an object that holds a null (odd) and a    *)
(* reference to another document (abroad).                                 *)
(***************************************************************************)
EXTENDS SpecResolver

MCRef == {"pet", "namesake", "other", "self", "gone", "header", "param", "schema",
          "start", "ping", "pong", "odd", "abroad"}
MCInitials == {{"pet", "namesake", "other", "gone", "header", "param"},
               {"pet", "other", "namesake"}, {"gone", "param"}, {"param"}, {},
               {"start"}, {"odd", "pet"}}
MCUrl == {"u", "v"}
MCDoc == [r \in MCRef |-> CASE r \in {"pet", "other", "self", "start", "ping", "pong", "abroad"} -> "u"
                            [] r \in {"namesake", "gone", "header", "odd"} -> "v"
                            [] OTHER -> "root"]
MCFragment == [r \in MCRef |-> CASE r \in {"pet", "namesake"} -> "Pet"
                                 [] r \in {"other", "self", "abroad"} -> "Node"
                                 [] r \in {"start", "ping"} -> "Ping"
                                 [] r = "pong" -> "Pong"
                                 [] r = "odd" -> "Odd"
                                 [] OTHER -> r]
MCHttp == {"pet", "namesake", "other", "gone", "header", "start", "odd"}
MCPlace == [r \in MCRef |-> CASE r = "param" -> "parameter"
                              [] r = "gone" -> "response"
                              [] r = "header" -> "elsewhere"
                              [] r = "schema" -> "body"
                              [] OTHER -> "property"]
MCThere == [d \in MCUrl \cup {"root"} |->
              CASE d = "u" -> {"Pet", "Node", "Ping", "Pong"}
                [] d = "v" -> {"Pet", "Odd", "header"}
                [] d = "root" -> {"Pet", "param", "schema"}]
MCInner == [d \in MCUrl \cup {"root"} |-> [f \in {MCFragment[r] : r \in MCRef} |->
  CASE d = "u" /\ f \in {"Node", "Pet"} -> {"self"}
    [] d = "u" /\ f = "Ping" -> {"pong"}
    [] d = "u" /\ f = "Pong" -> {"ping"}
    [] d = "v" /\ f = "Odd" -> {"abroad"}
    [] d = "root" /\ f = "param" -> {"schema"}
    [] OTHER -> {}]]

Schema(source, properties, required, allOf) ==
  [source |-> source, properties |-> properties, required |-> required, allOf |-> allOf]
Plain(names) == Schema(None, [n \in names |-> None], {}, <<>>)

Being == Schema("Being", [n \in {"born", "name"} |-> None], {"born"}, <<>>)
Animal == Schema("Animal", None, {"name"}, <<Being>>)
Clawed == Schema(None, [n \in {"claws", "age"} |-> None], {"claws"}, <<>>)
Aged == Schema("Aged", [n \in {"age"} |-> None], {}, <<>>)

MCDefined ==
  [n \in {"Cat", "Dog", "Order", "Pet", "inline_model"} |->
     CASE n = "Cat" -> Schema(None, [m \in {"name", "owner"} |-> None], {"owner"}, <<Clawed, Animal, Aged>>)
       [] n = "Dog" -> Schema(None, None, {}, <<Animal, Plain({"barks"})>>)
       [] OTHER -> Plain({"id"})]

Inline(title, schema) == [title |-> title, schema |-> schema]
MCUnnamed ==
  <<Inline(None, Plain({"x"})), Inline("Order", Plain({"y"})), Inline("Order", Plain({"z"})),
    Inline("Pet", Plain({"p"})), Inline("Cat", Schema(None, None, {}, <<Being, Clawed>>))>>

MCObject == [u \in MCUrl |-> [f \in {MCFragment[r] : r \in MCRef} |->
               Schema(u, [n \in {f} |-> None], {}, <<>>)]]

MCNulls == {MCObject["v"]["Odd"]}

MCSchemas ==
  Range(MCDefined) \cup {MCUnnamed[i].schema : i \in DOMAIN MCUnnamed}
    \cup UNION {Range(MCObject[u]) : u \in MCUrl} \cup {Being, Animal, Clawed, Aged, Plain({"barks"})}

=============================================================================
