--------------------------------- MODULE MCPage ---------------------------------
(***************************************************************************)
(* Descriptions for Page: models that refer to each other in every way,    *)
(* shown as responses and bodies; operations that share tags and names;    *)
(* operations converted from version 1.                                    *)
(***************************************************************************)
EXTENDS Page

S(kind, to, parts) == [kind |-> kind, to |-> to, title |-> None, given |-> FALSE,
                       readOnly |-> FALSE, basic |-> IF kind = "prim" THEN "string" ELSE "object",
                       limits |-> <<>>, parts |-> parts]
Limited(s, limits) == [s EXCEPT !.limits = limits]
Prim == Limited(S("prim", None, <<>>),
                [l \in {"minLength", "maxLength", "minimum", "enum"} |-> IF l = "minLength" THEN 0 ELSE 1])
Number == Limited([Prim EXCEPT !.basic = "number"], [l \in {"minimum", "default"} |-> 1])
Obj(parts) == S("object", None, parts)
Arr(s) == S("array", None, <<s>>)
Tuple(parts) == S("tuple", None, parts)
Ref(m) == S("ref", m, <<>>)
Titled(s, t) == [s EXCEPT !.title = t]

MCParts == {Prim, Ref("Pet"), Ref("Owner"), Ref("Gone"), Arr(Ref("Owner")),
            Arr(Arr(Ref("Pet"))), Obj(<<Ref("Owner")>>), S("list", None, <<>>),
            Tuple(<<Ref("Owner"), Obj(<<Ref("Pet")>>)>>), Titled(Obj(<<Ref("Owner")>>), "Title"),
            [Ref("Pet") EXCEPT !.readOnly = TRUE], [Ref("Pet") EXCEPT !.given = TRUE]}

MCPets == {Obj(<<p, q>>) : p \in MCParts, q \in {Ref("Owner"), Ref("Pet"), Arr(Prim)}}
            \cup {Arr(p) : p \in MCParts} \cup {Tuple(<<Ref("Owner"), Obj(<<Ref("Pet")>>)>>)}
MCOwners == {Prim, Number, Obj(<<Ref("Pet"), Ref("Pet")>>), Arr(Ref("Pet")), Ref("Pet"),
             Obj(<<Titled(Ref("Pet"), "Alias"), Ref("Owner")>>)}

Models == [Pet : MCPets, Owner : MCOwners]

R(schema) == [schema |-> schema, examples |-> FALSE]
P(s) == [type |-> s, schema |-> s]

Operation(path, nick, tags, params, responses) ==
  [path |-> path, method |-> "get", nick |-> nick, tags |-> tags, params |-> params, responses |-> responses,
   produces |-> {"json", "xml"}, consumes |-> {"xml"}, old |-> None]

Shows(success, params) ==
  Operation(<<"", "pets">>, <<"pets">>, <<"pet">>, params,
            [c \in {"200", "404", "x-note"} |->
               CASE c = "200" -> success [] c = "404" -> R(Ref("Pet")) [] OTHER -> R(None)])

ModelOps ==
  {Shows(R(Ref("Pet")), <<P(Arr(Arr(Ref("Owner")))), P(Obj(<<Ref("Pet")>>))>>),
   Shows([schema |-> Obj(<<Ref("Pet"), Arr(Ref("Owner"))>>), examples |-> TRUE],
         <<P(Ref("Owner"))>>)}

Old(path, type, messages) ==
  [path |-> path, method |-> "get", nickname |-> <<"pets">>, resourcePath |-> "/pet", type |-> type,
   parameters |-> <<[kind |-> "list", of |-> [kind |-> "model", of |-> "Pet"]]>>,
   responseMessages |-> messages, produces |-> {"json"}, consumes |-> {"json", "xml"}]

Message(code, m) == [code |-> code, model |-> m]

converter == INSTANCE OperationConverter WITH extractTag <- [p \in {"/pet"} |-> "pet"]

OldOps ==
  {converter!operations({"Pet"}, Old(<<"", "old">>, t, ms)) :
     t \in {[kind |-> "model", of |-> "Pet"], [kind |-> "model", of |-> "Owner"],
            [kind |-> "void", of |-> None],
            [kind |-> "list", of |-> [kind |-> "model", of |-> "Pet"]]},
     ms \in {<<>>, <<Message("404", "Owner")>>,
             <<Message("200", "Owner"), Message("404", None), Message("404", "Pet")>>}}

\* Names of three operations that are or become the same.
Nicks == {<<"get">>, <<"get", "0">>, <<"get", "content">>, <<>>, <<"", "help">>}

Plain(path, nick, tags) ==
  Operation(path, nick, tags, <<>>, [c \in {"200"} |-> R(None)])

TagLists == {<<>>, <<"pet">>, <<"user", "pet">>, <<"a b", "">>, <<"help">>, <<"_help", "a32b">>}

MCDescriptions ==
  {[models |-> m, tags |-> <<>>, ops |-> <<o>>] : m \in Models, o \in ModelOps}
    \cup {[models |-> [Pet |-> Obj(<<Ref("Owner")>>), Owner |-> Prim], tags |-> <<>>, ops |-> <<o>>] :
            o \in OldOps}
    \cup {[models |-> <<>>, tags |-> <<"pet", "a b">>,
           ops |-> <<Plain(<<"", "a", "", "id">>, n, t), Plain(<<"", "b">>, <<"get">>, u),
                     Plain(<<"", "c">>, <<"get">>, <<"pet">>)>>] :
            n \in Nicks, t \in TagLists, u \in {<<"user", "pet">>, <<"help">>}}

MCTags == {"default", "pet", "user", "a b", "a32b", "", "help", "_help"}
MCEscaped == [t \in MCTags |-> CASE t = "a b" -> "a32b" [] t = "_help" -> "95help" [] OTHER -> t]

=============================================================================
