-------------------------------- MODULE Costs --------------------------------
(***************************************************************************)
(* What a run cost: app/services/cost.py.  The same price is computed      *)
(* twice, run by run in Python and inside aggregations in SQL, from the    *)
(* provider's own token payload and the price components in effect when    *)
(* the run started.  Also the price history as the edit form of a model    *)
(* shows it (app/routers/ai_models.py).                                    *)
(*                                                                         *)
(* A payload maps the paths of its JSON object to counts; a key that holds *)
(* null maps to Null, one that holds an object maps to 0.  Costs are exact *)
(* integers, prices are per token.                                         *)
(***************************************************************************)
EXTENDS Integers, FiniteSets, FiniteSetsExt

CONSTANTS
  Components,  \* COMPONENT_TYPES
  Null         \* None, NULL

ASSUME NullAssumption == Null \notin Int

OrZero(value) == IF value = Null THEN 0 ELSE value
ReadPath(usage, path) == IF path \in DOMAIN usage THEN usage[path] ELSE Null

-----------------------------------------------------------------------------
(* Payload shapes: where the counts are, and which cache tiers input includes *)

WriteTiers == {"cache_write", "cache_write_5m", "cache_write_1h"}
CacheTiers == {"cache_read"} \cup WriteTiers

GEMINI == [in |-> "prompt_token_count", out |-> "candidates_token_count",
  cache |-> [cache_read |-> "cached_content_token_count"], readInside |-> TRUE, writeInside |-> FALSE]
OPENAI == [in |-> "input_tokens", out |-> "output_tokens",
  cache |-> [cache_read |-> "input_tokens_details.cached_tokens",
             cache_write |-> "input_tokens_details.cache_write_tokens"],
  readInside |-> TRUE, writeInside |-> TRUE]
ANTHROPIC == [in |-> "input_tokens", out |-> "output_tokens",
  cache |-> [cache_read |-> "cache_read_input_tokens",
             cache_write_5m |-> "cache_creation.ephemeral_5m_input_tokens",
             cache_write_1h |-> "cache_creation.ephemeral_1h_input_tokens"],
  readInside |-> FALSE, writeInside |-> FALSE]
PERPLEXITY == [in |-> "input_tokens", out |-> "output_tokens",
  cache |-> [cache_read |-> "input_tokens_details.cache_read_input_tokens",
             cache_write |-> "input_tokens_details.cache_creation_input_tokens"],
  readInside |-> TRUE, writeInside |-> TRUE]
DEEPSEEK == [in |-> "prompt_tokens", out |-> "completion_tokens",
  cache |-> [cache_read |-> "prompt_cache_hit_tokens"], readInside |-> TRUE, writeInside |-> FALSE]
PLAIN == [in |-> "input_tokens", out |-> "output_tokens",
  cache |-> [c \in {} |-> ""], readInside |-> FALSE, writeInside |-> FALSE]

TOKEN_USAGE_SHAPES == <<GEMINI, OPENAI, ANTHROPIC, PERPLEXITY, DEEPSEEK, PLAIN>>

\* _select_shape: the first row whose keys a payload has.
Detectors == <<
  <<{"prompt_token_count"}, GEMINI>>,
  <<{"input_tokens_details.cache_creation_input_tokens"}, PERPLEXITY>>,
  <<{"input_tokens_details"}, OPENAI>>,
  <<{"cache_creation"}, ANTHROPIC>>,
  <<{"cache_read_input_tokens"}, ANTHROPIC>>,
  <<{"prompt_tokens", "completion_tokens"}, DEEPSEEK>>,
  <<{"input_tokens", "output_tokens"}, PLAIN>> >>

Fits(usage) == {i \in DOMAIN Detectors : Detectors[i][1] \subseteq DOMAIN usage}

\* Mutant: the key that two providers share is asked for first.
SelectShape_DetailsFirst(usage) ==
  IF 3 \in Fits(usage) THEN OPENAI ELSE Detectors[Min(Fits(usage))][2]

SelectShape(usage) == Detectors[Min(Fits(usage))][2]

\* What the adapters store (cost.py:56-66 and the comments on each shape).
Keys(usage, always, perhaps) ==
  always \subseteq DOMAIN usage /\ DOMAIN usage \subseteq always \cup perhaps

KnownPayload(usage) ==
  \/ Keys(usage, {"prompt_token_count"}, {"candidates_token_count", "cached_content_token_count"})
  \/ Keys(usage, {"input_tokens_details"}, {"input_tokens", "output_tokens",
         "input_tokens_details.cached_tokens", "input_tokens_details.cache_write_tokens"})
  \/ Keys(usage, {"cache_read_input_tokens"}, {"input_tokens", "output_tokens",
         "cache_creation", "cache_creation_input_tokens",
         "cache_creation.ephemeral_5m_input_tokens", "cache_creation.ephemeral_1h_input_tokens"})
  \/ /\ Keys(usage, {"input_tokens_details.cache_creation_input_tokens"}, {"input_tokens",
         "output_tokens", "input_tokens_details", "input_tokens_details.cached_tokens",
         "input_tokens_details.cache_read_input_tokens"})
     /\ ReadPath(usage, "input_tokens_details.cached_tokens")
          = ReadPath(usage, "input_tokens_details.cache_read_input_tokens")
  \/ Keys(usage, {"prompt_tokens", "completion_tokens"}, {"prompt_cache_hit_tokens"})
  \/ Keys(usage, {"input_tokens", "output_tokens"}, {})

Payload(usage) == KnownPayload(usage) /\ \A key \in DOMAIN usage : usage[key] \in Nat \cup {Null}

-----------------------------------------------------------------------------
(* estimate_run_cost *)

\* The tiers a payload reports, as tier -> tokens.
CacheTokens(usage) ==
  LET cache == SelectShape(usage).cache IN
  [c \in CacheTiers |-> IF c \in DOMAIN cache THEN OrZero(ReadPath(usage, cache[c])) ELSE 0]

Priced(tokens, prices) == \A c \in CacheTiers : tokens[c] # 0 => c \in DOMAIN prices

CacheCost(tokens, prices) ==
  LET Cost(c) == IF tokens[c] = 0 THEN 0 ELSE tokens[c] * prices[c]
  IN Cost("cache_read") + Cost("cache_write") + Cost("cache_write_5m") + Cost("cache_write_1h")

WrittenTokens(tokens) == tokens["cache_write"] + tokens["cache_write_5m"] + tokens["cache_write_1h"]

BillableInput(usage, tokens) ==
  LET shape == SelectShape(usage) IN
  Max({0, usage[shape.in] - (IF shape.readInside THEN tokens["cache_read"] ELSE 0)
                          - (IF shape.writeInside THEN WrittenTokens(tokens) ELSE 0)})

\* raw_input_output_tokens: what the provider reported, never netted against the cache.
RawTokens(usage) ==
  IF usage = Null \/ Fits(usage) = {} THEN <<Null, Null>>
  ELSE <<ReadPath(usage, SelectShape(usage).in), ReadPath(usage, SelectShape(usage).out)>>

EstimateRunCost(usage, free, prices) ==
  LET raw == RawTokens(usage)
      tokens == CacheTokens(usage)
  IN IF free THEN 0
     ELSE IF \/ Null \in {raw[1], raw[2]} \/ ~({"input", "output"} \subseteq DOMAIN prices)
             \/ ~Priced(tokens, prices)
     THEN Null
     ELSE BillableInput(usage, tokens) * prices["input"]
          + raw[2] * prices["output"] + CacheCost(tokens, prices)

-----------------------------------------------------------------------------
(* run_cost_sql_expr and run_token_sql_expr: one COALESCE per axis over all shapes *)

\* path maps some of the shapes to where they have a count.
Coalesce(usage, path) ==
  LET given == {i \in DOMAIN path : ReadPath(usage, path[i]) # Null}
  IN IF given = {} THEN Null ELSE usage[path[Min(given)]]

InputSql(usage) == Coalesce(usage, [i \in DOMAIN TOKEN_USAGE_SHAPES |-> TOKEN_USAGE_SHAPES[i].in])
OutputSql(usage) == Coalesce(usage, [i \in DOMAIN TOKEN_USAGE_SHAPES |-> TOKEN_USAGE_SHAPES[i].out])
CacheSql(usage, tier) ==
  LET with == {i \in DOMAIN TOKEN_USAGE_SHAPES : tier \in DOMAIN TOKEN_USAGE_SHAPES[i].cache}
  IN OrZero(Coalesce(usage, [i \in with |-> TOKEN_USAGE_SHAPES[i].cache[tier]]))

IsAnthropicSql(usage) ==
  \E tier \in DOMAIN ANTHROPIC.cache : ReadPath(usage, ANTHROPIC.cache[tier]) # Null

TokensSql(usage) == IF usage = Null THEN <<Null, Null>> ELSE <<InputSql(usage), OutputSql(usage)>>

RunCostSql(usage, free, prices) ==
  LET raw == TokensSql(usage)
      tokens == [c \in CacheTiers |-> CacheSql(usage, c)]
      folded == IF IsAnthropicSql(usage) THEN 0 ELSE tokens["cache_read"] + tokens["cache_write"]
  IN IF free THEN 0
     ELSE IF \/ Null \in {raw[1], raw[2]} \/ ~({"input", "output"} \subseteq DOMAIN prices)
             \/ ~Priced(tokens, prices)
     THEN Null
     ELSE Max({0, raw[1] - folded}) * prices["input"]
          + raw[2] * prices["output"] + CacheCost(tokens, prices)

-----------------------------------------------------------------------------
(* Prices: rows [model, component, price, from], only ever added *)

Latest(rows) == CHOOSE row \in rows : \A other \in rows : other.from <= row.from

PricesAt(rows, at) ==
  LET Known(c) == {row \in rows : row.component = c /\ row.from <= at}
  IN [c \in {c \in Components : Known(c) # {}} |-> Latest(Known(c)).price]

\* _price_history_rows: the rows of one component, newest first; a row with the price of the
\* one above it extends the span of that one, any other opens a span.
Newer(rows, row) == {other \in rows : other.from > row.from}
Following(rows, row) ==
  CHOOSE next \in Newer(rows, row) : \A other \in Newer(rows, row) : next.from <= other.from
Opens(rows, row) == Newer(rows, row) = {} \/ Following(rows, row).price # row.price
Span(rows, row) ==
  {old \in rows : old.from <= row.from
     /\ \A other \in rows : old.from <= other.from /\ other.from < row.from => ~Opens(rows, other)}

\* Mutant: a span reaches back no further than the row that opened it.
PriceHistory_OwnStart(rows) ==
  {[price |-> row.price, from |-> row.from,
    until |-> IF Newer(rows, row) = {} THEN Null ELSE Following(rows, row).from] :
      row \in {row \in rows : Opens(rows, row)}}

PriceHistory(rows) ==
  {[price |-> row.price, from |-> Min({old.from : old \in Span(rows, row)}),
    until |-> IF Newer(rows, row) = {} THEN Null ELSE Following(rows, row).from] :
      row \in {row \in rows : Opens(rows, row)}}
=============================================================================
