--------------------------- MODULE MCEventStream ---------------------------
(* A first item and room for three more: a turn of two items and its end, or  *)
(* two turns, with a hole where an append failed.  One lost connection and one *)
(* opening of the conversation, each at any moment.                            *)
EXTENDS EventStream
=============================================================================
