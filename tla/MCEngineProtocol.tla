-------------------------- MODULE MCEngineProtocol --------------------------
(* Small instances of EngineProtocol for TLC. *)
EXTENDS EngineProtocol, TLC
=============================================================================
