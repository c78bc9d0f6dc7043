--------------------------- MODULE MCDeviceConfig ---------------------------
(* Values for the constants of DeviceConfig: the factory list "d" and a    *)
(* client's list "c" of two profiles each, a shorter list "s" of one, "p", *)
(* whose uploaded blob shares one profile record between two profiles, so  *)
(* that it decodes but is too large to encode again, and "x", whose blob   *)
(* is larger than the region.                                              *)
EXTENDS DeviceConfig

MCNumProfiles == [l \in {"d", "c", "s", "p", "x"} |-> IF l = "s" THEN 1 ELSE 2]

MCConfig(l, n) == [profiles |-> l, active |-> n]

MCConfigOf ==
    [b \in {"d0", "d1", "c0", "c1", "s0", "p0", "x0"} |->
        CASE b = "d0" -> MCConfig("d", 0) [] b = "d1" -> MCConfig("d", 1)
          [] b = "c0" -> MCConfig("c", 0) [] b = "c1" -> MCConfig("c", 1)
          [] b = "s0" -> MCConfig("s", 0) [] b = "p0" -> MCConfig("p", 0)
          [] b = "x0" -> MCConfig("x", 0)]

MCBlobs == DOMAIN MCConfigOf

MCBlobSize ==
    [b \in MCBlobs |-> CASE b = "s0"           -> 2
                         [] b \in {"c0", "c1"} -> 4
                         [] b = "x0"           -> 5
                         [] OTHER              -> 3]

\* The client's list puts pixels on the chain, the others none.
MCExtCount == [c \in {MCConfigOf[b] : b \in MCBlobs} |-> IF c.profiles = "c" THEN 2 ELSE 0]

MCEncodedAs ==
    [c \in {MCConfigOf[b] : b \in MCBlobs \ {"p0", "x0"}} |->
        CHOOSE b \in MCBlobs : MCConfigOf[b] = c]

MCDefault == MCConfig("d", 0)

MCProfileArgs == -1 .. 2

MCUploads == MCBlobs \cup {"unreadable"}
=============================================================================
