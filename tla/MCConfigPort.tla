---------------------------- MODULE MCConfigPort ----------------------------
(* Values for the constants of ConfigPort: both uploads are sent as they   *)
(* are declared, "good" in two lines, "bad", which the device refuses, in  *)
(* one.  A header counts as one piece, "h", when it is swallowed, a `test' *)
(* as two, which is more than any upload has left.                         *)
EXTENDS ConfigPort

MCText == [good |-> <<"g1", "g2">>, bad |-> <<"g1">>]

MCUploads == DOMAIN MCText

MCLine(c, u, t) == [cmd |-> c, of |-> u, text |-> t]
MCChunk(t) == MCLine("other", "none", t)

MCChunkLines == [good |-> <<MCChunk(<<"g1">>), MCChunk(<<"g2">>)>>, bad |-> <<MCChunk(<<"g1">>)>>]

MCRefused == {"bad"}

MCClientLines ==
    {MCLine("write", u, <<"h">>) : u \in MCUploads} \cup {MCLine("test", "none", <<"h", "h">>)}

MCPieces == {"g1", "g2", "h"}
=============================================================================
