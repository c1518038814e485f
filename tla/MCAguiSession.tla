--------------------------- MODULE MCAguiSession ---------------------------
(* Instances of AguiSession for TLC. *)
EXTENDS AguiSession

AllProviders == {"anthropic", "gemini", "bedrock", "chat"}
SomeKinds == {"text", "call", "thought", "image", "search"}
(* A verb, a verdict, an answer alone, and nothing. *)
SomeDecisions ==
    {[action |-> "approve", approved |-> "false", content |-> FALSE],
     [action |-> "cancel", approved |-> "true", content |-> TRUE],
     [action |-> "", approved |-> "false", content |-> TRUE],
     [action |-> "", approved |-> "absent", content |-> TRUE],
     [action |-> "", approved |-> "absent", content |-> FALSE]}
=============================================================================
