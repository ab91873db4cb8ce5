----------------------------- MODULE MCServing -----------------------------
EXTENDS Serving, TLC
CONSTANTS r1, r2
MCTargets == <<"east", "west">>
MCRoutesOf == (r1 :> Converse \cup OpenAI) @@ (r2 :> {"chat_openai"})
MCFailuresOf == (r1 :> {"connect", "throttled", "rejected", "unauthorized", "server_error", "timeout", "empty"})
                @@ (r2 :> {"unauthorized"})
OneStream == (r1 :> {"responses_stream"}) @@ (r2 :> {})
Timeouts == (r1 :> {"timeout"}) @@ (r2 :> {})
=============================================================================
