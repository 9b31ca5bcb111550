---------------------------- MODULE SchemaComposition ----------------------------
(***************************************************************************)
(* What Resolver of webapp/swagger-ui.js makes of definitions: a schema    *)
(* without a name becomes a definition, and a schema composed by allOf is  *)
(* replaced by one that has the parts of all.                              *)
(*                                                                         *)
(* A schema is a record [source, properties, required, allOf]: source is   *)
(* what its "x-resolved-from" begins with, None unless it took the place   *)
(* of a reference; properties is None or a function from names to the      *)
(* "x-resolved-from" of each; allOf is a sequence of schemas, of any depth.*)
(***************************************************************************)
EXTENDS Naturals, Sequences, FiniteSets, SequencesExt, TLC

CONSTANTS None,
          Schemas, \* those of the descriptions, with their parts
          Nulls    \* those that have a null among their values

ASSUME PartsAssumption ==
  /\ \A s \in Schemas : ToSet(s.allOf) \subseteq Schemas
  /\ Nulls \subseteq Schemas

\* Mutant: the names that are taken are not looked at.
NameAsItIs(names, base) == base

\* base, or the first of base_0, base_1, ... that no definition has.
uniqueName(names, base) ==
  LET numbered(i) == base \o "_" \o ToString(i)
      free == {i \in 0..Cardinality(names) : numbered(i) \notin names}
  IN  IF base \notin names THEN base
      ELSE numbered(CHOOSE i \in free : \A j \in free : i <= j)

\* resolveTo: an inline schema becomes the definition of its title; one that has
\* allOf, which is found before, never does.
Base(s) == IF s.title = None \/ s.schema.allOf # <<>> THEN "inline_model" ELSE s.title

Named(definitions, unnamed) ==
  FoldLeft(LAMBDA ds, s : ds @@ (uniqueName(DOMAIN ds, Base(s)) :> s.schema), definitions, unnamed)

\* processAllOf, of a definition: the parts that were references go first; the
\* sort leaves the order of the others open, which is kept here.  A part that
\* has parts of its own is the object of a reference, a definition itself.
Sorted(parts) ==
  SelectSeq(parts, LAMBDA c : c.source # None) \o SelectSeq(parts, LAMBDA c : c.source = None)

Source(c) == IF c.source = None THEN "self" ELSE c.source

\* Mutant: what a schema requires is kept as other parts are, from the first.
FirstRequired(output, c) == IF output.required = {} THEN c.required ELSE output.required

Required(output, c) == output.required \cup c.required

\* The first properties are all marked with the part they are in; of later ones
\* a mark of their own stays.  They take the place of what has the same name.
Properties(output, c) ==
  IF c.properties = None THEN output.properties
  ELSE IF output.properties = None THEN [n \in DOMAIN c.properties |-> Source(c)]
  ELSE [n \in DOMAIN c.properties |->
          IF c.properties[n] \in {None, "self"} THEN Source(c) ELSE c.properties[n]]
         @@ output.properties

Merged(output, c) ==
  [output EXCEPT !.properties = Properties(output, c), !.required = Required(output, c)]

\* resolveAllOf throws on a null, wherever in a schema it stands.
HasNull[s \in Schemas] == s \in Nulls \/ \E c \in ToSet(s.allOf) : HasNull[c]

\* A part is composed before the schema that has it.
resolveAllOf[s \in Schemas] ==
  FoldLeft(LAMBDA output, c : Merged(output, resolveAllOf[c]), [s EXCEPT !.allOf = <<>>],
           Sorted(s.allOf))

-----------------------------------------------------------------------------
(* What a composed schema should be. *)

Own(s) == IF s.properties = None THEN {} ELSE DOMAIN s.properties

AllProperties[s \in Schemas] ==
  Own(s) \cup UNION {AllProperties[c] : c \in ToSet(s.allOf)}

AllRequired[s \in Schemas] ==
  s.required \cup UNION {AllRequired[c] : c \in ToSet(s.allOf)}

\* The parts, however deep, that have a property, by their marks.
Holders[s \in Schemas] ==
  [n \in AllProperties[s] |->
     UNION {{Source(c)} \cup Holders[c][n] : c \in {d \in ToSet(s.allOf) : n \in AllProperties[d]}}
       \cup (IF n \in Own(s) THEN {None} ELSE {})]

\* The composed schema has each property of each part, requires what any of them
\* does, and says of a property that it is of a part that has it.
Whole(s, composed) ==
  /\ composed.allOf = <<>>
  /\ Own(composed) = AllProperties[s]
  /\ composed.required = AllRequired[s]
  /\ \A n \in Own(composed) : composed.properties[n] \in Holders[s][n]

=============================================================================
