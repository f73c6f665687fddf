------------------------- MODULE MC_VersionCompare -------------------------
(* Every string of up to three characters over v . 0 1 9 x: enough for a   *)
(* prefix, a two-digit segment, a zero segment, a suffix and empty parts.  *)
(* INT_MAX is scaled to 99 so that a three-digit segment takes stoi's      *)
(* out_of_range path, as a ten-digit one does in the code.                 *)
EXTENDS VersionCompare

MC_Chars == {"v", ".", "0", "1", "9", "x"}
MC_MaxLen == 3
MC_IntMax == 99
=============================================================================
