-------------------------------- MODULE Patch --------------------------------
(***************************************************************************)
(* src/cli/internal/patch/patch.go: one value of a document, read or       *)
(* replaced along a path.  A word of the command line is its text and, if  *)
(* it is JSON, the node that says, and, if strconv reads it as a number,   *)
(* which JSON need not (`+5', `.5'), that number's.                        *)
(***************************************************************************)
EXTENDS JsonNode

\* A segment of a path: the name of a field, or a number and so the place in a list.
Name(s) == [name |-> s, index |-> -1]
Index(i) == [name |-> "", index |-> i]
Segment == [name : STRING, index : Int]

child(node, seg) ==
    CASE node.kind = "obj" /\ seg.name \in DOMAIN node.content -> node.content[seg.name]
      [] node.kind = "list" /\ seg.index \in 0 .. Len(node.content) - 1 -> node.content[seg.index + 1]
      [] OTHER -> NoNode

\* The nodes along a path: Along(doc, path)[k] is the one that k segments lead to.
Along(doc, path) ==
    LET at[k \in 0 .. Len(path)] == IF k = 0 THEN doc ELSE child(at[k - 1], path[k])
    IN  at

Get(doc, path) == Along(doc, path)[Len(path)]

\* A word as the shell hands it over, and as `get' prints a value (of which the text matters only
\* where it is a string).
Word(text, node) ==
    [text |-> text, json |-> node, number |-> IF node.kind = "num" THEN node ELSE NoNode]
GoNumber(text, n) == [text |-> text, json |-> NoNode, number |-> Num(n)]
Quoted(text) == <<"\"">> \o text \o <<"\"">>
Printed(node) == Word(IF node.kind = "str" THEN Quoted(node.content) ELSE <<"{}">>, node)

\* A deliberately wrong variant: the quoted form is stored with its quotes.
Mutcoerce(value, old) ==
    CASE old.kind = "str" -> Str(value.text)
      [] old.kind = "num" -> IF value.number.kind = "num" THEN value.number ELSE NoNode
      [] old.kind = "null" -> IF IsNode(value.json) THEN value.json ELSE Str(value.text)
      [] OTHER -> value.json

\* What the word means where a value of that kind is stored.
coerce(value, old) ==
    CASE old.kind = "str" -> IF value.json.kind = "str" THEN value.json ELSE Str(value.text)
      [] old.kind = "num" -> IF value.number.kind = "num" THEN value.number ELSE NoNode
      [] old.kind = "null" -> IF IsNode(value.json) THEN value.json ELSE Str(value.text)
      [] OTHER -> value.json

Replaced(node, seg, new) ==
    [node EXCEPT !.content[IF node.kind = "list" THEN seg.index + 1 ELSE seg.name] = new]

\* The document with the value at the path replaced, or no document: from the end of the path back,
\* each node along it with the one below it replaced.
set(doc, path, value) ==
    LET n == Len(path)
        at == Along(doc, path)
        new == IF IsNode(at[n]) THEN coerce(value, at[n]) ELSE NoNode
        edited[k \in 0 .. n] == IF k = n THEN new ELSE Replaced(at[k], path[k + 1], edited[k + 1])
    IN  IF IsNode(new) THEN edited[0] ELSE NoNode
=============================================================================
