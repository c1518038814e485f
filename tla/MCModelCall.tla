---------------------------- MODULE MCModelCall ----------------------------
(* Instances of ModelCall for TLC. *)
EXTENDS ModelCall

AllProviders == {"anthropic", "gemini", "bedrock", "chat"}
AllKinds == UNION {Streamable[p] : p \in AllProviders}
=============================================================================
