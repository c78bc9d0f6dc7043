------------------------------ MODULE JsonNode ------------------------------
(***************************************************************************)
(* JSON documents as encoding/json decodes them into `any'.  A text is a   *)
(* sequence of characters, or of whole words where their letters do not    *)
(* matter; a number outside the integers of the models is a negative one;  *)
(* upper and lower case and the spaces that the host trims are left out.   *)
(***************************************************************************)
EXTENDS Integers, Sequences, SequencesExt

CONSTANT
    Character           \* what texts are made of

Text == Seq(Character)

Null == [kind |-> "null", content |-> <<>>]
Num(n) == [kind |-> "num", content |-> n]
Str(s) == [kind |-> "str", content |-> s]
List(nodes) == [kind |-> "list", content |-> nodes]
Obj(fields) == [kind |-> "obj", content |-> fields]

\* No node: text that is no JSON, a path that leads nowhere, an edit that is refused.
NoNode == [kind |-> "none", content |-> <<>>]
IsNode(node) == node.kind # "none"
=============================================================================
