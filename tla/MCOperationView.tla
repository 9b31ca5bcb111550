---------------------------- MODULE MCOperationView ----------------------------
(***************************************************************************)
(* Operations with lists in every place and format, a form with a file and *)
(* a password, a file alone, a body in two types with a parameter named    *)
(* like the key of an authorization, selects with parameters of one name   *)
(* and headers named like an authorization and like an option, one that    *)
(* the page does not submit, and one with parameters after a password.     *)
(***************************************************************************)
EXTENDS OperationView

CONSTANTS noValue

Param(name, in, type, required, default, values) ==
  [name |-> name, in |-> in, type |-> type, items |-> "string", enum |-> <<>>,
   required |-> required, default |-> default, example |-> <<>>, format |-> noValue,
   password |-> FALSE, values |-> values]

Enum(p, enum) == [p EXCEPT !.enum = enum]
Format(p, format) == [p EXCEPT !.format = format]
Booleans(p) == [p EXCEPT !.items = "boolean"]
Example(p, v) == [p EXCEPT !.example = v]
Password(p) == [p EXCEPT !.password = TRUE]

Document(scheme, url, host, schemes) ==
  [page |-> [scheme |-> scheme, host |-> "page"], url |-> url, host |-> host,
   schemes |-> schemes, consumes |-> <<"json">>, produces |-> noValue]

Absolute == [scheme |-> "https", host |-> "docs"]
Relative == [scheme |-> noValue, host |-> noValue]

Web == Document("https", Absolute, "api", <<"http", "https">>)
Plain == Document("https", Relative, noValue, <<"http", "ws">>)
File == Document("file", Absolute, noValue, <<"http", "https">>)
Extension == Document("chrome-extension", Absolute, noValue, <<"http">>)
Unsaid == Document("http", Relative, noValue, <<>>)

Op(parent, method, params, consumes, produces, typed, security) ==
  request!Operation(parent,
    [method |-> method, params |-> params, consumes |-> consumes,
     produces |-> produces, typed |-> typed, security |-> security])

Lines == <<"a", "", "b">>

Get == Op(Web, "get",
  <<Param("id", "path", "array", TRUE, <<>>, {<<>>, <<"1">>, <<"1", "2">>}),
    Example(Param("q", "query", "array", FALSE, <<"c">>, {<<"a", "b">>}), <<"a", "b">>),
    Format(Param("r", "query", "array", FALSE, Lines, {Lines}), "pipes"),
    Format(Param("s", "query", "array", FALSE, Lines, {Lines}), "brackets"),
    Param("X-List", "header", "array", FALSE, Lines, {Lines})>>,
  <<"json">>, <<"json", "image">>, TRUE, {"basic"})

Form == Op(Plain, "post",
  <<Password(Param("name", "formData", "string", FALSE, <<"n">>, {<<>>, <<"n">>})),
    Format(Param("tags", "formData", "array", FALSE, <<>>, {<<"a", "b">>}), "multi"),
    Param("file", "formData", "file", FALSE, <<>>, {<<>>, <<"f">>})>>,
  <<"json", "multipart">>, <<"json">>, FALSE, {})

Encoded == Op(File, "patch",
  <<Param("tags", "formData", "array", TRUE, <<>>, {<<"a", "b">>}),
    Format(Booleans(Param("flags", "formData", "array", FALSE, <<"true">>, {})), "csv"),
    Password(Param("word", "formData", "string", FALSE, <<"w">>, {<<"w">>}))>>,
  <<"form">>, <<"json">>, FALSE, {})

Upload == Op(Extension, "put",
  <<Param("file", "formData", "file", TRUE, <<>>, {<<>>, <<"f">>, <<"g">>})>>,
  noValue, <<"image">>, TRUE, noValue)

Body == Op(Unsaid, "post",
  <<Param("body", "body", "object", FALSE, <<>>, {<<>>}),
    Password(Param("key", "query", "string", FALSE, <<>>, {<<>>, <<"mine">>}))>>,
  <<"json", "xml">>, <<"xml">>, FALSE, noValue)

Selects == Op(Web, "delete",
  <<Enum(Param("kind", "path", "string", TRUE, <<"x">>, {}), <<"", "x">>),
    Enum(Param("kind", "query", "array", TRUE, <<>>, {}), <<"x">>),
    Param("X-Key", "header", "string", FALSE, <<>>, {<<>>, <<"mine">>}),
    Param("timeout", "header", "string", FALSE, <<"5">>, {<<"5">>})>>,
  <<"form">>, <<"json">>, FALSE, {"header", "query"})

Options == Op(Unsaid, "options",
  <<Param("id", "path", "boolean", FALSE, <<>>, {}),
    Param("body", "body", "object", TRUE, <<>>, {<<"b">>})>>,
  <<"json">>, noValue, FALSE, {})

Masks == Op(Plain, "post",
  <<Password(Param("pin", "query", "string", FALSE, <<"1">>, {<<>>, <<"1">>})),
    Param("ids", "path", "array", TRUE, Lines, {Lines}),
    Param("after", "query", "string", FALSE, <<"a">>, {<<"a">>}),
    Format(Param("list", "query", "array", FALSE, Lines, {Lines}), "csv"),
    Format(Param("tags", "formData", "array", FALSE, Lines, {Lines}), "multi"),
    Param("text", "formData", "string", FALSE, <<"t">>, {<<"t">>})>>,
  <<"form">>, <<"json">>, FALSE, {})

MCOps == {Get, Form, Encoded, Upload, Body, Selects, Options, Masks}

MCAuthz ==
  <<[id |-> "query", type |-> "query", name |-> "key", value |-> <<"secret">>],
    [id |-> "header", type |-> "header", name |-> "X-Key", value |-> <<"token">>],
    [id |-> "basic", type |-> "basic", name |-> "Authorization", value |-> <<"user">>]>>

MCSubmitted == {"get", "post", "put", "delete", "patch"}
MCAnswers ==
  [code : {200}, type : {"json", "badJson", "xml", "image", "octet", "located"}]
    \cup {[code |-> 1223, type |-> "none"], [code |-> 304, type |-> "text"],
          [code |-> 404, type |-> "json"]}
MCOptionNames == {"timeout", "url", "parent"}

=============================================================================
