-------------------------------- MODULE MCCodec -------------------------------
(* Values through a table, by themselves, for TLC. *)
EXTENDS Codec

Data == INSTANCE CodecCases

MCCases == Data!AllCases
===============================================================================
