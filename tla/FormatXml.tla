-------------------------------- MODULE FormatXml --------------------------------
(***************************************************************************)
(* formatXml of webapp/swagger-ui.js, of which it has several copies: how  *)
(* far the lines of XML are indented, from what kind each of them is.      *)
(* Tags are broken into lines of their own first, except that a text stays *)
(* before the tag that closes it.                                          *)
(***************************************************************************)
EXTENDS Integers, Sequences, SequencesExt

\* "single" is a tag that has no end of its own, "other" neither a tag nor the
\* end of one, such as a comment.
Types == {"single", "closing", "opening", "other"}

\* What the step from a line to the next does to the indentation.
transitions(from, to) ==
  IF from = "opening" THEN IF to = "closing" THEN 0 ELSE 1
  ELSE IF to = "closing" THEN -1 ELSE 0

\* The loop that pads counts down if it has to.
padding(indent) == IF indent < 0 THEN -indent ELSE indent

\* fn: a line that closes what was just opened is put at its end.
Put(text, type) ==
  LET indent == text.indent + transitions(text.lastType, type) IN
    [indent |-> indent,
     lastType |-> type,
     formatted |-> IF text.lastType = "opening" /\ type = "closing" THEN text.formatted
                   ELSE Append(text.formatted, padding(indent))]

\* How far each line of the result is indented.
formatXml(lines) ==
  FoldLeft(Put, [indent |-> 0, lastType |-> "other", formatted |-> <<>>], lines).formatted

=============================================================================
