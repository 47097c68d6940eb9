------------------------------ MODULE MCSpending ------------------------------
(* A small instance: one model that is priced and one that is not there yet, and  *)
(* the payloads the adapters of the five shapes store.                            *)
EXTENDS Spending, TLC

CONSTANTS m1, m2, a1, a2

MCComponents == {"input", "output", "cache_read", "cache_write", "cache_write_5m", "cache_write_1h"}

OpenAI == [input_tokens |-> 9, output_tokens |-> 2, input_tokens_details |-> 0]
          @@ ("input_tokens_details.cached_tokens" :> 3)
          @@ ("input_tokens_details.cache_write_tokens" :> 4)
Grok == [input_tokens |-> 7, output_tokens |-> 3, input_tokens_details |-> 0]
          @@ ("input_tokens_details.cached_tokens" :> 2)
Anthropic == [input_tokens |-> 5, output_tokens |-> 2, cache_creation_input_tokens |-> 3,
              cache_read_input_tokens |-> 7, cache_creation |-> 0]
          @@ ("cache_creation.ephemeral_5m_input_tokens" :> 2)
          @@ ("cache_creation.ephemeral_1h_input_tokens" :> 1)
Gemini == [prompt_token_count |-> 8, candidates_token_count |-> 2, cached_content_token_count |-> 3]
Refused == [prompt_token_count |-> 8, candidates_token_count |-> Null,
            cached_content_token_count |-> Null]
Perplexity == [input_tokens |-> 9, output_tokens |-> 2, input_tokens_details |-> 0]
          @@ ("input_tokens_details.cached_tokens" :> 2)
          @@ ("input_tokens_details.cache_read_input_tokens" :> 2)
          @@ ("input_tokens_details.cache_creation_input_tokens" :> 6)
Deepseek == [prompt_tokens |-> 6, completion_tokens |-> 2, prompt_cache_hit_tokens |-> 4]

MCSamples == [openai |-> {OpenAI}, anthropic |-> {Anthropic}, google_gemini |-> {Gemini, Refused},
              perplexity |-> {Perplexity}, xai |-> {Grok}, deepseek |-> {Deepseek}]

MCFirstModels == {m1 :> [provider |-> p, free |-> FALSE, active |-> TRUE] : p \in DOMAIN MCSamples}

\* The administrators are alike.
Symmetry == Permutations({a1, a2})

MCEdits == {[prices |-> [input |-> 4, output |-> 1]], [prices |-> [input |-> 3], free |-> TRUE]}
=============================================================================
