------------------------ MODULE MCSerializationDelay ------------------------
(* Every byte count and bandwidth of a five-bit word. *)
EXTENDS SerializationDelay
=============================================================================
