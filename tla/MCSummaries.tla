---------------------------- MODULE MCSummaries ----------------------------
(* Summaries for TLC.                                                       *)
EXTENDS Summaries

AllSummarizers == {"llm", "window"}

(* The provider's measure is not the estimate: tools and replies weigh more, *)
(* images less.                                                             *)
Weights == [kind \in Kinds |-> IF kind \in {"reply", "tool", "image"} THEN 2 ELSE 1]
=============================================================================
