-------------------------------- MODULE MCSd --------------------------------
(* Cards that count in blocks and in bytes, with and without SET_BLOCKCNT and *)
(* the wide bus, and one with the low bit of SD_SPEC set.                     *)
EXTENDS SdProperties

MCKinds == [ccs: BOOLEAN, wide: BOOLEAN, counts: BOOLEAN, odd: {FALSE}]
           \cup {[ccs |-> FALSE, wide |-> FALSE, counts |-> TRUE, odd |-> TRUE]}

MCReads == [x \in {"boot", "root", "disk"} |->
              CASE x = "boot" -> [lba |-> 0, num |-> 1]
                [] x = "root" -> [lba |-> 2, num |-> 2]
                [] x = "disk" -> [lba |-> 0, num |-> 2]]
=============================================================================
