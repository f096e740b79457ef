--------------------------- MODULE MCStructReturn ---------------------------
(* StructReturn for TLC, with the bytes 0x00, 0x01 and 0x80.               *)
EXTENDS StructReturn

MCBytes == {{}, {"lo"}, {"sign"}}
=============================================================================
