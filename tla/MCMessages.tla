----------------------------- MODULE MCMessages -----------------------------
(***************************************************************************)
(* What is done to requests and responses, side by side: the policies of a *)
(* route, the bucket of a limit, the calls of an LLM, the streams of its   *)
(* answers, the tools made from an OpenAPI document and the external       *)
(* processor.  In a behaviour one of them runs and the others stay in an   *)
(* initial state.                                                          *)
(***************************************************************************)
EXTENDS MCRequestPolicies, LlmBackend, MCLlmStream, MCOpenApi, ExtProc

(* The prompts and the guards of the LLM calls. *)
MCRules == <<"r1", "r2">>
Says(role, rules) == [role |-> role, text |-> rules]
MCPrompt == {<<Says("user", {})>>, <<Says("user", {}), Says("system", {"r1", "r2"})>>,
             <<Says("tool", {"r2"})>>}
MCUsage == {[in |-> 1, out |-> 2], [in |-> 3, out |-> 0], [in |-> 3, out |-> 1]}

VARIABLE part

OneCase == CHOOSE c \in MCCases : PathMatches(c[1].match, c[2].path)

MessagesInit ==
    /\ part \in {"policies", "limit", "llm", "stream", "openapi", "extproc"}
    /\ IF part = "policies" THEN PInit ELSE PStart(OneCase)
    /\ LlmInit
    /\ part # "stream" => form = "default" /\ events = (CHOOSE s \in MCDefault : TRUE) /\ handler = [in |-> 0, completion |-> <<>>]
    /\ StreamInit
    /\ part # "openapi" => doc = CHOOSE d \in MCDocs : TRUE
    /\ ApiInit
    /\ part # "extproc" => bodies = CHOOSE b \in [Side -> Bodies] : TRUE
    /\ EpInit

MessagesNext ==
    /\ UNCHANGED part
    /\ \/ /\ part = "policies" /\ PNext
          /\ UNCHANGED <<llmVars, streamVars, apiVars, epVars>>
       \/ /\ part = "limit" /\ RequestsNext
          /\ UNCHANGED <<pvars, call, amended, streamVars, apiVars, epVars>>
       \/ /\ part = "llm" /\ LlmNext
          /\ UNCHANGED <<pvars, streamVars, apiVars, epVars>>
       \/ /\ part = "stream" /\ StreamNext
          /\ UNCHANGED <<pvars, llmVars, apiVars, epVars>>
       \/ /\ part = "openapi" /\ ApiNext
          /\ UNCHANGED <<pvars, llmVars, streamVars, epVars>>
       \/ /\ part = "extproc" /\ EpNext
          /\ UNCHANGED <<pvars, llmVars, streamVars, apiVars>>

MessagesSpec ==
    MessagesInit /\ [][MessagesNext]_<<pvars, llmVars, streamVars, apiVars, epVars, part>>
=============================================================================
