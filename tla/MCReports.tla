------------------------------- MODULE MCReports -------------------------------
(* A small instance: two clients with a prompt each, two models of two providers. *)
EXTENDS Reports

CONSTANTS m1, m2, c1, c2, s1, s2, acme, www, user

MCComponents == {"input", "output", "cache_read"}

OpenAI == [input_tokens |-> 9, output_tokens |-> 2, input_tokens_details |-> 0]
          @@ ("input_tokens_details.cached_tokens" :> 3)
Gemini == [prompt_token_count |-> 8, candidates_token_count |-> 2, cached_content_token_count |-> 3]

MCSamples == [google_gemini |-> {Gemini}, xai |-> {OpenAI}]

MCStart == 89 * 2 + 1
MCFirstModels == {(m1 :> [provider |-> "google_gemini", free |-> FALSE, active |-> TRUE])
                  @@ (m2 :> [provider |-> "xai", free |-> FALSE, active |-> TRUE])}
MCFirstPrompts == {[id |-> 1, set |-> s1, root |-> Null, current |-> TRUE],
                   [id |-> 2, set |-> s2, root |-> Null, current |-> TRUE]}
MCSetClient == (s1 :> c1) @@ (s2 :> c2)

MCEdits == {[prices |-> [input |-> 4], provider |-> "google_gemini"]}

\* acme.com, www.acme.com and a citation without a domain
MCNormalized == (acme :> acme) @@ (www :> acme) @@ (Null :> Null)
MCAsks == {
  [lineage |-> 1, model |-> m1, by |-> user, trigger |-> "manual", cites |-> <<acme, www, Null>>, wait |-> 0],
  [lineage |-> 1, model |-> m1, by |-> Null, trigger |-> "scheduled", cites |-> <<acme>>, wait |-> 7 * 2 - 2],
  [lineage |-> 2, model |-> m2, by |-> Null, trigger |-> "manual", cites |-> <<acme>>, wait |-> 1]}

\* The page of one citation was blocked and costs nothing; a later job has another opinion.
MCJudgements == {
  (1 :> [verdict |-> "llm_supported", cost |-> 2]) @@ (3 :> [verdict |-> "llm_partial", cost |-> 1]),
  (1 :> [verdict |-> "llm_contradicted", cost |-> 1]) @@ (2 :> [verdict |-> "unverifiable", cost |-> Null])}
=============================================================================
