------------------------------ MODULE Providers -----------------------------
(***************************************************************************)
(* The model providers behind the extraction, the policy compiler and the  *)
(* decision: which one a call goes to, with which model and in which       *)
(* format.  The settings are [provider, keys], keys being the providers    *)
(* that have an API key.                                                   *)
(***************************************************************************)
EXTENDS Naturals, Sequences

CONSTANT Cleaned(_)     \* a schema as Gemini takes it: GeminiSchemas says what it is

ProviderNames == {"claude", "openai", "gemini"}

\* Mutant: only Claude has a key of its own.
AvailableIfClaudeOrOpenai(s) ==
    IF s.provider = "claude" THEN "claude" \in s.keys ELSE "openai" \in s.keys

LlmAvailable(s) ==
    IF s.provider = "claude" THEN "claude" \in s.keys
    ELSE IF s.provider = "gemini" THEN "gemini" \in s.keys
    ELSE "openai" \in s.keys

\* The model that a decision's record names.
RecordedModel(s) ==
    IF s.provider = "claude" THEN "claude_model"
    ELSE IF s.provider = "gemini" THEN "gemini_model"
    ELSE "openai_model"

\* Where a call goes, or that it cannot go there.
Unavailable == [backend |-> "none", key |-> "none", url |-> "none", model |-> "none"]
Endpoint(s) ==
    IF s.provider = "claude" /\ "claude" \in s.keys
    THEN [backend |-> "anthropic", key |-> "claude", url |-> "api", model |-> "claude_model"]
    ELSE IF s.provider = "gemini" /\ "gemini" \in s.keys
    THEN [backend |-> "openai", key |-> "gemini", url |-> "google", model |-> "gemini_model"]
    ELSE IF s.provider = "openai" /\ "openai" \in s.keys
    THEN [backend |-> "openai", key |-> "openai", url |-> "configured", model |-> "openai_model"]
    ELSE Unavailable

-----------------------------------------------------------------------------
(* The call                                                                *)

\* The content parts in the format of the backend, one for one.
BackendContent(backend, content) ==
    [i \in DOMAIN content |->
        IF content[i].type = "text" THEN content[i]
        ELSE [type |-> IF backend = "anthropic" THEN "image" ELSE "image_url",
              data |-> content[i].data]]

\* The request that call_tool sends for these settings.
ToolRequest(s, content, schema) ==
    LET e == Endpoint(s)
    IN  [backend |-> e.backend, url |-> e.url, model |-> e.model,
         content |-> BackendContent(e.backend, content),
         schema |-> IF s.provider = "gemini" THEN Cleaned(schema) ELSE schema,
         choice |-> IF e.backend = "openai" /\ s.provider = "gemini" THEN "required" ELSE "named"]

\* What may come back: the tool's input as JSON, or an error of the library
\* (a timeout too), no tool call, or text that is not JSON.
Replies == {"valid", "invalid", "error", "no tool call", "not json"}
ToolAnswer(s, reply) ==
    IF reply = "not json" /\ Endpoint(s).backend = "anthropic" THEN "no tool call" ELSE reply
=============================================================================
