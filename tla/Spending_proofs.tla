--------------------------- MODULE Spending_proofs ---------------------------
(***************************************************************************)
(* What a run costs, proved: SQL and Python make the same of every payload *)
(* the adapters store, what has been charged is not changed by later       *)
(* prices, the price history tells what was charged at any moment, and the *)
(* dashboards show every run once and add up.                              *)
(***************************************************************************)
EXTENDS Reports, TLAPS, FiniteSetTheorems, WellFoundedInduction

-----------------------------------------------------------------------------
(* Least and greatest *)

\* A set of naturals that is not empty has a least element.
LEMMA MinIsLeast ==
  ASSUME NEW S, S \subseteq Nat, S # {}
  PROVE  Min(S) \in S /\ \A n \in S : Min(S) <= n
<1>1. IsWellFoundedOn(OpToRel(<, Nat), Nat)
  BY NatLessThanWellFounded, Zenon
<1>2. PICK m \in S : \A n \in S : ~(<<n, m>> \in OpToRel(<, Nat))
  BY <1>1, WFMin, Zenon
<1>3. \A n \in S : ~(n < m)
  BY <1>2 DEF OpToRel
<1>4. \A n \in S : m <= n
  BY <1>3
<1> QED
  BY <1>4 DEF Min

\* The larger of zero and a number.
LEMMA AtLeastZero ==
  ASSUME NEW x \in Int
  PROVE  Max({0, x}) = IF x > 0 THEN x ELSE 0
<1>1. CASE x > 0
  <2>1. \A y \in {0, x} : x >= y
    BY <1>1
  <2>2. Max({0, x}) \in {0, x} /\ Max({0, x}) >= x
    BY <2>1 DEF Max
  <2> QED
    BY <1>1, <2>2
<1>2. CASE ~(x > 0)
  <2>1. \A y \in {0, x} : 0 >= y
    BY <1>2
  <2>2. Max({0, x}) \in {0, x} /\ Max({0, x}) >= 0
    BY <2>1 DEF Max
  <2> QED
    BY <1>2, <2>2
<1> QED
  BY <1>1, <1>2

-----------------------------------------------------------------------------
(* One COALESCE over every shape reads what the payload's own shape says *)

\* If the path of one shape has all there is, COALESCE returns what is there.
LEMMA CoalesceIs ==
  ASSUME NEW usage, NEW path, DOMAIN path \subseteq Nat, NEW i \in DOMAIN path,
         \A j \in DOMAIN path : ReadPath(usage, path[j]) \in {Null, ReadPath(usage, path[i])}
  PROVE  Coalesce(usage, path) = ReadPath(usage, path[i])
<1> DEFINE given == {j \in DOMAIN path : ReadPath(usage, path[j]) # Null}
<1>1. CASE given = {}
  BY <1>1 DEF Coalesce
<1>2. CASE given # {}
  <2>1. Min(given) \in given
    BY <1>2, MinIsLeast
  <2>2. ReadPath(usage, path[Min(given)]) = usage[path[Min(given)]]
    BY <2>1 DEF ReadPath
  <2> QED
    BY <1>2, <2>1, <2>2 DEF Coalesce
<1> QED
  BY <1>1, <1>2

LEMMA CoalesceNothing ==
  ASSUME NEW usage, NEW path, \A j \in DOMAIN path : ReadPath(usage, path[j]) = Null
  PROVE  Coalesce(usage, path) = Null
BY DEF Coalesce

\* The paths each axis of the SQL goes through.
InPath == [i \in DOMAIN TOKEN_USAGE_SHAPES |-> TOKEN_USAGE_SHAPES[i].in]
OutPath == [i \in DOMAIN TOKEN_USAGE_SHAPES |-> TOKEN_USAGE_SHAPES[i].out]
Having(tier) == {i \in DOMAIN TOKEN_USAGE_SHAPES : tier \in DOMAIN TOKEN_USAGE_SHAPES[i].cache}
CachePath(tier) == [i \in Having(tier) |-> TOKEN_USAGE_SHAPES[i].cache[tier]]

LEMMA SixShapes ==
  /\ DOMAIN TOKEN_USAGE_SHAPES = 1..6
  /\ TOKEN_USAGE_SHAPES[1] = GEMINI /\ TOKEN_USAGE_SHAPES[2] = OPENAI
  /\ TOKEN_USAGE_SHAPES[3] = ANTHROPIC /\ TOKEN_USAGE_SHAPES[4] = PERPLEXITY
  /\ TOKEN_USAGE_SHAPES[5] = DEEPSEEK /\ TOKEN_USAGE_SHAPES[6] = PLAIN
BY DEF TOKEN_USAGE_SHAPES

LEMMA InputPaths ==
  /\ DOMAIN InPath = 1..6
  /\ InPath[1] = "prompt_token_count" /\ InPath[5] = "prompt_tokens"
  /\ \A i \in {2, 3, 4, 6} : InPath[i] = "input_tokens"
<1>1. /\ DOMAIN InPath = 1..6 /\ InPath[1] = GEMINI.in /\ InPath[2] = OPENAI.in
      /\ InPath[3] = ANTHROPIC.in /\ InPath[4] = PERPLEXITY.in /\ InPath[5] = DEEPSEEK.in
      /\ InPath[6] = PLAIN.in
  BY SixShapes DEF InPath
<1> QED
  BY <1>1 DEF GEMINI, OPENAI, ANTHROPIC, PERPLEXITY, DEEPSEEK, PLAIN

LEMMA OutputPaths ==
  /\ DOMAIN OutPath = 1..6
  /\ OutPath[1] = "candidates_token_count" /\ OutPath[5] = "completion_tokens"
  /\ \A i \in {2, 3, 4, 6} : OutPath[i] = "output_tokens"
<1>1. /\ DOMAIN OutPath = 1..6 /\ OutPath[1] = GEMINI.out /\ OutPath[2] = OPENAI.out
      /\ OutPath[3] = ANTHROPIC.out /\ OutPath[4] = PERPLEXITY.out /\ OutPath[5] = DEEPSEEK.out
      /\ OutPath[6] = PLAIN.out
  BY SixShapes DEF OutPath
<1> QED
  BY <1>1 DEF GEMINI, OPENAI, ANTHROPIC, PERPLEXITY, DEEPSEEK, PLAIN

\* The tiers each shape has.
LEMMA TiersOfShapes ==
  /\ DOMAIN GEMINI.cache = {"cache_read"} /\ DOMAIN DEEPSEEK.cache = {"cache_read"}
  /\ DOMAIN OPENAI.cache = {"cache_read", "cache_write"}
  /\ DOMAIN PERPLEXITY.cache = {"cache_read", "cache_write"}
  /\ DOMAIN ANTHROPIC.cache = {"cache_read", "cache_write_5m", "cache_write_1h"}
  /\ DOMAIN PLAIN.cache = {}
BY DEF GEMINI, OPENAI, ANTHROPIC, PERPLEXITY, DEEPSEEK, PLAIN

LEMMA ReadPaths ==
  /\ DOMAIN CachePath("cache_read") = 1..5
  /\ CachePath("cache_read")[1] = "cached_content_token_count"
  /\ CachePath("cache_read")[2] = "input_tokens_details.cached_tokens"
  /\ CachePath("cache_read")[3] = "cache_read_input_tokens"
  /\ CachePath("cache_read")[4] = "input_tokens_details.cache_read_input_tokens"
  /\ CachePath("cache_read")[5] = "prompt_cache_hit_tokens"
<1>1. Having("cache_read") = 1..5
  BY SixShapes, TiersOfShapes DEF Having
<1>2. \A i \in 1..5 : CachePath("cache_read")[i] = TOKEN_USAGE_SHAPES[i].cache["cache_read"]
  BY <1>1 DEF CachePath
<1>3. DOMAIN CachePath("cache_read") = 1..5
  BY <1>1 DEF CachePath
<1> QED
  BY <1>2, <1>3, SixShapes DEF GEMINI, OPENAI, ANTHROPIC, PERPLEXITY, DEEPSEEK

LEMMA WritePaths ==
  /\ DOMAIN CachePath("cache_write") = {2, 4}
  /\ CachePath("cache_write")[2] = "input_tokens_details.cache_write_tokens"
  /\ CachePath("cache_write")[4] = "input_tokens_details.cache_creation_input_tokens"
  /\ DOMAIN CachePath("cache_write_5m") = {3}
  /\ CachePath("cache_write_5m")[3] = "cache_creation.ephemeral_5m_input_tokens"
  /\ DOMAIN CachePath("cache_write_1h") = {3}
  /\ CachePath("cache_write_1h")[3] = "cache_creation.ephemeral_1h_input_tokens"
<1>1. /\ Having("cache_write") = {2, 4} /\ Having("cache_write_5m") = {3}
      /\ Having("cache_write_1h") = {3}
  BY SixShapes, TiersOfShapes DEF Having
<1>2. /\ DOMAIN CachePath("cache_write") = {2, 4} /\ DOMAIN CachePath("cache_write_5m") = {3}
      /\ DOMAIN CachePath("cache_write_1h") = {3}
  BY <1>1 DEF CachePath
<1>3. /\ CachePath("cache_write")[2] = OPENAI.cache["cache_write"]
      /\ CachePath("cache_write")[4] = PERPLEXITY.cache["cache_write"]
      /\ CachePath("cache_write_5m")[3] = ANTHROPIC.cache["cache_write_5m"]
      /\ CachePath("cache_write_1h")[3] = ANTHROPIC.cache["cache_write_1h"]
  BY <1>1, SixShapes DEF CachePath
<1> QED
  BY <1>2, <1>3 DEF OPENAI, ANTHROPIC, PERPLEXITY

-----------------------------------------------------------------------------
(* Shape by shape *)

\* The shape that is selected is that of the first row of the detectors a payload has.
LEMMA FirstDetector ==
  ASSUME NEW usage, NEW i \in 1..7, Detectors[i][1] \subseteq DOMAIN usage,
         \A j \in 1..7 : j < i => ~(Detectors[j][1] \subseteq DOMAIN usage)
  PROVE  Fits(usage) # {} /\ SelectShape(usage) = Detectors[i][2]
<1>1. DOMAIN Detectors = 1..7
  BY DEF Detectors
<1>2. i \in Fits(usage) /\ Fits(usage) \subseteq Nat /\ \A j \in Fits(usage) : i <= j
  BY <1>1 DEF Fits
<1>3. Min(Fits(usage)) \in Fits(usage) /\ Min(Fits(usage)) <= i
  BY <1>2, MinIsLeast
<1>4. Min(Fits(usage)) = i
  BY <1>2, <1>3
<1> QED
  BY <1>2, <1>4 DEF SelectShape

LEMMA SevenDetectors ==
  /\ Detectors[1] = <<{"prompt_token_count"}, GEMINI>>
  /\ Detectors[2] = <<{"input_tokens_details.cache_creation_input_tokens"}, PERPLEXITY>>
  /\ Detectors[3] = <<{"input_tokens_details"}, OPENAI>>
  /\ Detectors[4] = <<{"cache_creation"}, ANTHROPIC>>
  /\ Detectors[5] = <<{"cache_read_input_tokens"}, ANTHROPIC>>
  /\ Detectors[6] = <<{"prompt_tokens", "completion_tokens"}, DEEPSEEK>>
  /\ Detectors[7] = <<{"input_tokens", "output_tokens"}, PLAIN>>
BY DEF Detectors

\* Wherever another shape has a count, the payload has none or the one of its own shape.
OnlyItsOwn(usage, i) ==
  LET shape == TOKEN_USAGE_SHAPES[i] IN
  /\ \A j \in 1..6 : ReadPath(usage, InPath[j]) \in {Null, ReadPath(usage, shape.in)}
  /\ \A j \in 1..6 : ReadPath(usage, OutPath[j]) \in {Null, ReadPath(usage, shape.out)}
  /\ \A c \in CacheTiers : \A j \in Having(c) :
       ReadPath(usage, CachePath(c)[j])
         \in IF c \in DOMAIN shape.cache THEN {Null, ReadPath(usage, shape.cache[c])} ELSE {Null}

\* What the two ways have to agree on, axis by axis.
SameAxes(usage) ==
  /\ Fits(usage) # {}
  /\ InputSql(usage) = ReadPath(usage, SelectShape(usage).in)
  /\ OutputSql(usage) = ReadPath(usage, SelectShape(usage).out)
  /\ \A c \in CacheTiers : CacheSql(usage, c) = CacheTokens(usage)[c]

\* What is inside the input is the same for both.
SameInside(usage) ==
  LET shape == SelectShape(usage)
      tokens == CacheTokens(usage)
  IN (IF shape.readInside THEN tokens["cache_read"] ELSE 0)
       + (IF shape.writeInside THEN WrittenTokens(tokens) ELSE 0)
     = IF IsAnthropicSql(usage) THEN 0 ELSE tokens["cache_read"] + tokens["cache_write"]

Counts(usage) == \A key \in DOMAIN usage : usage[key] \in Nat \cup {Null}

LEMMA ReadCounts ==
  ASSUME NEW usage, Counts(usage)
  PROVE  /\ \A path : ReadPath(usage, path) \in Nat \cup {Null}
         /\ \A c \in CacheTiers : CacheTokens(usage)[c] \in Nat
<1>1. \A path : ReadPath(usage, path) \in Nat \cup {Null}
  BY DEF Counts, ReadPath
<1>2. \A path : OrZero(ReadPath(usage, path)) \in Nat
  BY <1>1 DEF OrZero
<1> QED
  BY <1>1, <1>2 DEF CacheTokens

\* A payload with nothing but what its own shape names is read alike by both.
LEMMA OwnShapeIsRead ==
  ASSUME NEW usage, NEW i \in 1..6, Fits(usage) # {}, SelectShape(usage) = TOKEN_USAGE_SHAPES[i],
         OnlyItsOwn(usage, i)
  PROVE  SameAxes(usage)
<1> DEFINE shape == TOKEN_USAGE_SHAPES[i]
<1>1. InputSql(usage) = ReadPath(usage, shape.in)
  <2>1. DOMAIN InPath = 1..6 /\ InPath[i] = shape.in
    BY SixShapes DEF InPath
  <2>2. Coalesce(usage, InPath) = ReadPath(usage, InPath[i])
    BY <2>1, CoalesceIs DEF OnlyItsOwn
  <2> QED
    BY <2>1, <2>2 DEF InputSql, InPath
<1>2. OutputSql(usage) = ReadPath(usage, shape.out)
  <2>1. DOMAIN OutPath = 1..6 /\ OutPath[i] = shape.out
    BY SixShapes DEF OutPath
  <2>2. Coalesce(usage, OutPath) = ReadPath(usage, OutPath[i])
    BY <2>1, CoalesceIs DEF OnlyItsOwn
  <2> QED
    BY <2>1, <2>2 DEF OutputSql, OutPath
<1>3. ASSUME NEW c \in CacheTiers
      PROVE  CacheSql(usage, c) = CacheTokens(usage)[c]
  <2>1. CacheSql(usage, c) = OrZero(Coalesce(usage, CachePath(c)))
    BY DEF CacheSql, CachePath, Having
  <2>2. DOMAIN CachePath(c) = Having(c) /\ Having(c) \subseteq Nat
    BY SixShapes DEF CachePath, Having
  <2>3. CASE c \in DOMAIN shape.cache
    <3>1. i \in Having(c) /\ CachePath(c)[i] = shape.cache[c]
      BY <2>3, SixShapes DEF CachePath, Having
    <3>2. \A j \in DOMAIN CachePath(c) :
            ReadPath(usage, CachePath(c)[j]) \in {Null, ReadPath(usage, CachePath(c)[i])}
      BY <2>2, <2>3, <3>1 DEF OnlyItsOwn
    <3>3. Coalesce(usage, CachePath(c)) = ReadPath(usage, CachePath(c)[i])
      BY <2>2, <3>1, <3>2, CoalesceIs
    <3>4. Coalesce(usage, CachePath(c)) = ReadPath(usage, shape.cache[c])
      BY <3>1, <3>3
    <3> QED
      BY <2>1, <2>3, <3>4 DEF CacheTokens
  <2>4. CASE c \notin DOMAIN shape.cache
    <3>1. Coalesce(usage, CachePath(c)) = Null
      BY <2>2, <2>4, CoalesceNothing DEF OnlyItsOwn
    <3> QED
      BY <2>1, <2>4, <3>1 DEF CacheTokens, OrZero
  <2> QED
    BY <2>3, <2>4
<1> QED
  BY <1>1, <1>2, <1>3 DEF SameAxes

\* A payload of Gemini.
LEMMA GeminiPayload ==
  ASSUME NEW usage, Counts(usage),
         Keys(usage, {"prompt_token_count"}, {"candidates_token_count", "cached_content_token_count"})
  PROVE  SameAxes(usage) /\ SameInside(usage)
<1>1. Fits(usage) # {} /\ SelectShape(usage) = GEMINI
  <2>1. /\ Detectors[1][1] \subseteq DOMAIN usage
        /\ \A j \in 1..7 : j < 1 => ~(Detectors[j][1] \subseteq DOMAIN usage)
    BY SevenDetectors DEF Keys
  <2>2. Detectors[1][2] = GEMINI
    BY SevenDetectors
  <2> QED
    BY <2>1, <2>2, FirstDetector
<1>2. \A key \in {
          "input_tokens", "output_tokens", "prompt_tokens", "completion_tokens",
          "prompt_cache_hit_tokens", "input_tokens_details.cached_tokens",
          "input_tokens_details.cache_write_tokens",
          "input_tokens_details.cache_read_input_tokens",
          "input_tokens_details.cache_creation_input_tokens", "cache_read_input_tokens",
          "cache_creation.ephemeral_5m_input_tokens",
          "cache_creation.ephemeral_1h_input_tokens"} :
        ReadPath(usage, key) = Null
  BY DEF Keys, ReadPath
<1>3. OnlyItsOwn(usage, 1)
  <2>1. /\ \A j \in 1..6 : ReadPath(usage, InPath[j]) \in {Null, ReadPath(usage, GEMINI.in)}
        /\ \A j \in 1..6 : ReadPath(usage, OutPath[j]) \in {Null, ReadPath(usage, GEMINI.out)}
    BY <1>2, InputPaths, OutputPaths DEF GEMINI
  <2>2. ASSUME NEW c \in CacheTiers, NEW j \in Having(c)
        PROVE  ReadPath(usage, CachePath(c)[j])
                 \in IF c \in DOMAIN GEMINI.cache THEN {Null, ReadPath(usage, GEMINI.cache[c])}
                     ELSE {Null}
    <3>1. j \in DOMAIN CachePath(c)
      BY DEF CachePath
    <3> QED
      BY <1>2, <3>1, ReadPaths, WritePaths, TiersOfShapes DEF CacheTiers, WriteTiers, GEMINI
  <2> QED
    BY <2>1, <2>2, SixShapes DEF OnlyItsOwn
<1>4. SameAxes(usage)
  BY <1>1, <1>3, SixShapes, OwnShapeIsRead
<1>5. SameInside(usage)
  <2>1. ~IsAnthropicSql(usage)
    <3>1. \A tier \in DOMAIN ANTHROPIC.cache : ReadPath(usage, ANTHROPIC.cache[tier]) = Null
      BY <1>2, TiersOfShapes DEF ANTHROPIC
    <3> QED
      BY <3>1 DEF IsAnthropicSql
  <2>2. \A c \in {"cache_write", "cache_write_5m", "cache_write_1h"} : CacheTokens(usage)[c] = 0
    BY <1>1, TiersOfShapes DEF CacheTokens, CacheTiers, WriteTiers
  <2> QED
    BY <1>1, <2>1, <2>2, ReadCounts DEF SameInside, WrittenTokens, CacheTiers, WriteTiers, GEMINI
<1> QED
  BY <1>4, <1>5

\* One of OpenAI or xAI.
LEMMA OpenAIPayload ==
  ASSUME NEW usage, Counts(usage),
         Keys(usage, {"input_tokens_details"}, {"input_tokens", "output_tokens",
           "input_tokens_details.cached_tokens", "input_tokens_details.cache_write_tokens"})
  PROVE  SameAxes(usage) /\ SameInside(usage)
<1>1. Fits(usage) # {} /\ SelectShape(usage) = OPENAI
  <2>1. /\ Detectors[3][1] \subseteq DOMAIN usage
        /\ \A j \in 1..7 : j < 3 => ~(Detectors[j][1] \subseteq DOMAIN usage)
    BY SevenDetectors DEF Keys
  <2>2. Detectors[3][2] = OPENAI
    BY SevenDetectors
  <2> QED
    BY <2>1, <2>2, FirstDetector
<1>2. \A key \in {
          "prompt_token_count", "candidates_token_count", "cached_content_token_count",
          "prompt_tokens", "completion_tokens", "prompt_cache_hit_tokens",
          "input_tokens_details.cache_read_input_tokens",
          "input_tokens_details.cache_creation_input_tokens", "cache_read_input_tokens",
          "cache_creation.ephemeral_5m_input_tokens",
          "cache_creation.ephemeral_1h_input_tokens"} :
        ReadPath(usage, key) = Null
  BY DEF Keys, ReadPath
<1>3. OnlyItsOwn(usage, 2)
  <2>1. /\ \A j \in 1..6 : ReadPath(usage, InPath[j]) \in {Null, ReadPath(usage, OPENAI.in)}
        /\ \A j \in 1..6 : ReadPath(usage, OutPath[j]) \in {Null, ReadPath(usage, OPENAI.out)}
    BY <1>2, InputPaths, OutputPaths DEF OPENAI
  <2>2. ASSUME NEW c \in CacheTiers, NEW j \in Having(c)
        PROVE  ReadPath(usage, CachePath(c)[j])
                 \in IF c \in DOMAIN OPENAI.cache THEN {Null, ReadPath(usage, OPENAI.cache[c])}
                     ELSE {Null}
    <3>1. j \in DOMAIN CachePath(c)
      BY DEF CachePath
    <3> QED
      BY <1>2, <3>1, ReadPaths, WritePaths, TiersOfShapes DEF CacheTiers, WriteTiers, OPENAI
  <2> QED
    BY <2>1, <2>2, SixShapes DEF OnlyItsOwn
<1>4. SameAxes(usage)
  BY <1>1, <1>3, SixShapes, OwnShapeIsRead
<1>5. SameInside(usage)
  <2>1. ~IsAnthropicSql(usage)
    <3>1. \A tier \in DOMAIN ANTHROPIC.cache : ReadPath(usage, ANTHROPIC.cache[tier]) = Null
      BY <1>2, TiersOfShapes DEF ANTHROPIC
    <3> QED
      BY <3>1 DEF IsAnthropicSql
  <2>2. \A c \in {"cache_write_5m", "cache_write_1h"} : CacheTokens(usage)[c] = 0
    BY <1>1, TiersOfShapes DEF CacheTokens, CacheTiers, WriteTiers
  <2> QED
    BY <1>1, <2>1, <2>2, ReadCounts DEF SameInside, WrittenTokens, CacheTiers, WriteTiers, OPENAI
<1> QED
  BY <1>4, <1>5

\* One of Anthropic, whose input is never netted.
LEMMA AnthropicPayload ==
  ASSUME NEW usage, Counts(usage),
         Keys(usage, {"cache_read_input_tokens"}, {"input_tokens", "output_tokens",
           "cache_creation", "cache_creation_input_tokens",
           "cache_creation.ephemeral_5m_input_tokens", "cache_creation.ephemeral_1h_input_tokens"})
  PROVE  SameAxes(usage) /\ SameInside(usage)
<1>1. Fits(usage) # {} /\ SelectShape(usage) = ANTHROPIC
  <2>1. PICK i \in {4, 5} :
          /\ Detectors[i][1] \subseteq DOMAIN usage
          /\ \A j \in 1..7 : j < i => ~(Detectors[j][1] \subseteq DOMAIN usage)
    <3>1. CASE "cache_creation" \in DOMAIN usage
      BY <3>1, SevenDetectors DEF Keys
    <3>2. CASE "cache_creation" \notin DOMAIN usage
      BY <3>2, SevenDetectors DEF Keys
    <3> QED
      BY <3>1, <3>2
  <2>2. Detectors[4][2] = ANTHROPIC /\ Detectors[5][2] = ANTHROPIC
    BY SevenDetectors
  <2> QED
    BY <2>1, <2>2, FirstDetector
<1>2. \A key \in {
          "prompt_token_count", "candidates_token_count", "cached_content_token_count",
          "prompt_tokens", "completion_tokens", "prompt_cache_hit_tokens",
          "input_tokens_details.cached_tokens",
          "input_tokens_details.cache_write_tokens",
          "input_tokens_details.cache_read_input_tokens",
          "input_tokens_details.cache_creation_input_tokens"} :
        ReadPath(usage, key) = Null
  BY DEF Keys, ReadPath
<1>3. OnlyItsOwn(usage, 3)
  <2>1. /\ \A j \in 1..6 : ReadPath(usage, InPath[j]) \in {Null, ReadPath(usage, ANTHROPIC.in)}
        /\ \A j \in 1..6 : ReadPath(usage, OutPath[j]) \in {Null, ReadPath(usage, ANTHROPIC.out)}
    BY <1>2, InputPaths, OutputPaths DEF ANTHROPIC
  <2>2. ASSUME NEW c \in CacheTiers, NEW j \in Having(c)
        PROVE  ReadPath(usage, CachePath(c)[j])
                 \in IF c \in DOMAIN ANTHROPIC.cache THEN {Null, ReadPath(usage, ANTHROPIC.cache[c])}
                     ELSE {Null}
    <3>1. j \in DOMAIN CachePath(c)
      BY DEF CachePath
    <3> QED
      BY <1>2, <3>1, ReadPaths, WritePaths, TiersOfShapes DEF CacheTiers, WriteTiers, ANTHROPIC
  <2> QED
    BY <2>1, <2>2, SixShapes DEF OnlyItsOwn
<1>4. SameAxes(usage)
  BY <1>1, <1>3, SixShapes, OwnShapeIsRead
<1>5. SameInside(usage)
  <2>1. CacheTokens(usage)["cache_write"] = 0
    BY <1>1, TiersOfShapes DEF CacheTokens, CacheTiers, WriteTiers
  <2>2. ASSUME ~IsAnthropicSql(usage)
        PROVE  CacheTokens(usage)["cache_read"] = 0
    <3>1. ReadPath(usage, ANTHROPIC.cache["cache_read"]) = Null
      BY <2>2, TiersOfShapes DEF IsAnthropicSql
    <3> QED
      BY <1>1, <3>1 DEF CacheTokens, CacheTiers, OrZero
  <2> QED
    BY <1>1, <2>1, <2>2 DEF SameInside, ANTHROPIC
<1> QED
  BY <1>4, <1>5

\* One of Perplexity, which has one count under two names.
LEMMA PerplexityPayload ==
  ASSUME NEW usage, Counts(usage),
         Keys(usage, {"input_tokens_details.cache_creation_input_tokens"}, {"input_tokens",
           "output_tokens", "input_tokens_details", "input_tokens_details.cached_tokens",
           "input_tokens_details.cache_read_input_tokens"}),
         ReadPath(usage, "input_tokens_details.cached_tokens")
           = ReadPath(usage, "input_tokens_details.cache_read_input_tokens")
  PROVE  SameAxes(usage) /\ SameInside(usage)
<1>1. Fits(usage) # {} /\ SelectShape(usage) = PERPLEXITY
  <2>1. /\ Detectors[2][1] \subseteq DOMAIN usage
        /\ \A j \in 1..7 : j < 2 => ~(Detectors[j][1] \subseteq DOMAIN usage)
    BY SevenDetectors DEF Keys
  <2>2. Detectors[2][2] = PERPLEXITY
    BY SevenDetectors
  <2> QED
    BY <2>1, <2>2, FirstDetector
<1>2. \A key \in {
          "prompt_token_count", "candidates_token_count", "cached_content_token_count",
          "prompt_tokens", "completion_tokens", "prompt_cache_hit_tokens",
          "input_tokens_details.cache_write_tokens", "cache_read_input_tokens",
          "cache_creation.ephemeral_5m_input_tokens",
          "cache_creation.ephemeral_1h_input_tokens"} :
        ReadPath(usage, key) = Null
  BY DEF Keys, ReadPath
<1>3. OnlyItsOwn(usage, 4)
  <2>1. /\ \A j \in 1..6 : ReadPath(usage, InPath[j]) \in {Null, ReadPath(usage, PERPLEXITY.in)}
        /\ \A j \in 1..6 : ReadPath(usage, OutPath[j]) \in {Null, ReadPath(usage, PERPLEXITY.out)}
    BY <1>2, InputPaths, OutputPaths DEF PERPLEXITY
  <2>2. ASSUME NEW c \in CacheTiers, NEW j \in Having(c)
        PROVE  ReadPath(usage, CachePath(c)[j])
                 \in IF c \in DOMAIN PERPLEXITY.cache THEN {Null, ReadPath(usage, PERPLEXITY.cache[c])}
                     ELSE {Null}
    <3>1. j \in DOMAIN CachePath(c)
      BY DEF CachePath
    <3> QED
      BY <1>2, <3>1, ReadPaths, WritePaths, TiersOfShapes DEF CacheTiers, WriteTiers, PERPLEXITY
  <2> QED
    BY <2>1, <2>2, SixShapes DEF OnlyItsOwn
<1>4. SameAxes(usage)
  BY <1>1, <1>3, SixShapes, OwnShapeIsRead
<1>5. SameInside(usage)
  <2>1. ~IsAnthropicSql(usage)
    <3>1. \A tier \in DOMAIN ANTHROPIC.cache : ReadPath(usage, ANTHROPIC.cache[tier]) = Null
      BY <1>2, TiersOfShapes DEF ANTHROPIC
    <3> QED
      BY <3>1 DEF IsAnthropicSql
  <2>2. \A c \in {"cache_write_5m", "cache_write_1h"} : CacheTokens(usage)[c] = 0
    BY <1>1, TiersOfShapes DEF CacheTokens, CacheTiers, WriteTiers
  <2> QED
    BY <1>1, <2>1, <2>2, ReadCounts DEF SameInside, WrittenTokens, CacheTiers, WriteTiers, PERPLEXITY
<1> QED
  BY <1>4, <1>5

\* One of DeepSeek.
LEMMA DeepseekPayload ==
  ASSUME NEW usage, Counts(usage),
         Keys(usage, {"prompt_tokens", "completion_tokens"}, {"prompt_cache_hit_tokens"})
  PROVE  SameAxes(usage) /\ SameInside(usage)
<1>1. Fits(usage) # {} /\ SelectShape(usage) = DEEPSEEK
  <2>1. /\ Detectors[6][1] \subseteq DOMAIN usage
        /\ \A j \in 1..7 : j < 6 => ~(Detectors[j][1] \subseteq DOMAIN usage)
    BY SevenDetectors DEF Keys
  <2>2. Detectors[6][2] = DEEPSEEK
    BY SevenDetectors
  <2> QED
    BY <2>1, <2>2, FirstDetector
<1>2. \A key \in {
          "prompt_token_count", "candidates_token_count", "cached_content_token_count",
          "input_tokens", "output_tokens", "input_tokens_details.cached_tokens",
          "input_tokens_details.cache_write_tokens",
          "input_tokens_details.cache_read_input_tokens",
          "input_tokens_details.cache_creation_input_tokens", "cache_read_input_tokens",
          "cache_creation.ephemeral_5m_input_tokens",
          "cache_creation.ephemeral_1h_input_tokens"} :
        ReadPath(usage, key) = Null
  BY DEF Keys, ReadPath
<1>3. OnlyItsOwn(usage, 5)
  <2>1. /\ \A j \in 1..6 : ReadPath(usage, InPath[j]) \in {Null, ReadPath(usage, DEEPSEEK.in)}
        /\ \A j \in 1..6 : ReadPath(usage, OutPath[j]) \in {Null, ReadPath(usage, DEEPSEEK.out)}
    BY <1>2, InputPaths, OutputPaths DEF DEEPSEEK
  <2>2. ASSUME NEW c \in CacheTiers, NEW j \in Having(c)
        PROVE  ReadPath(usage, CachePath(c)[j])
                 \in IF c \in DOMAIN DEEPSEEK.cache THEN {Null, ReadPath(usage, DEEPSEEK.cache[c])}
                     ELSE {Null}
    <3>1. j \in DOMAIN CachePath(c)
      BY DEF CachePath
    <3> QED
      BY <1>2, <3>1, ReadPaths, WritePaths, TiersOfShapes DEF CacheTiers, WriteTiers, DEEPSEEK
  <2> QED
    BY <2>1, <2>2, SixShapes DEF OnlyItsOwn
<1>4. SameAxes(usage)
  BY <1>1, <1>3, SixShapes, OwnShapeIsRead
<1>5. SameInside(usage)
  <2>1. ~IsAnthropicSql(usage)
    <3>1. \A tier \in DOMAIN ANTHROPIC.cache : ReadPath(usage, ANTHROPIC.cache[tier]) = Null
      BY <1>2, TiersOfShapes DEF ANTHROPIC
    <3> QED
      BY <3>1 DEF IsAnthropicSql
  <2>2. \A c \in {"cache_write", "cache_write_5m", "cache_write_1h"} : CacheTokens(usage)[c] = 0
    BY <1>1, TiersOfShapes DEF CacheTokens, CacheTiers, WriteTiers
  <2> QED
    BY <1>1, <2>1, <2>2, ReadCounts DEF SameInside, WrittenTokens, CacheTiers, WriteTiers, DEEPSEEK
<1> QED
  BY <1>4, <1>5

\* One with two counts and nothing else.
LEMMA PlainPayload ==
  ASSUME NEW usage, Counts(usage),
         Keys(usage, {"input_tokens", "output_tokens"}, {})
  PROVE  SameAxes(usage) /\ SameInside(usage)
<1>1. Fits(usage) # {} /\ SelectShape(usage) = PLAIN
  <2>1. /\ Detectors[7][1] \subseteq DOMAIN usage
        /\ \A j \in 1..7 : j < 7 => ~(Detectors[j][1] \subseteq DOMAIN usage)
    BY SevenDetectors DEF Keys
  <2>2. Detectors[7][2] = PLAIN
    BY SevenDetectors
  <2> QED
    BY <2>1, <2>2, FirstDetector
<1>2. \A key \in {
          "prompt_token_count", "candidates_token_count", "cached_content_token_count",
          "prompt_tokens", "completion_tokens", "prompt_cache_hit_tokens",
          "input_tokens_details.cached_tokens",
          "input_tokens_details.cache_write_tokens",
          "input_tokens_details.cache_read_input_tokens",
          "input_tokens_details.cache_creation_input_tokens", "cache_read_input_tokens",
          "cache_creation.ephemeral_5m_input_tokens",
          "cache_creation.ephemeral_1h_input_tokens"} :
        ReadPath(usage, key) = Null
  BY DEF Keys, ReadPath
<1>3. OnlyItsOwn(usage, 6)
  <2>1. /\ \A j \in 1..6 : ReadPath(usage, InPath[j]) \in {Null, ReadPath(usage, PLAIN.in)}
        /\ \A j \in 1..6 : ReadPath(usage, OutPath[j]) \in {Null, ReadPath(usage, PLAIN.out)}
    BY <1>2, InputPaths, OutputPaths DEF PLAIN
  <2>2. ASSUME NEW c \in CacheTiers, NEW j \in Having(c)
        PROVE  ReadPath(usage, CachePath(c)[j])
                 \in IF c \in DOMAIN PLAIN.cache THEN {Null, ReadPath(usage, PLAIN.cache[c])}
                     ELSE {Null}
    <3>1. j \in DOMAIN CachePath(c)
      BY DEF CachePath
    <3> QED
      BY <1>2, <3>1, ReadPaths, WritePaths, TiersOfShapes DEF CacheTiers, WriteTiers, PLAIN
  <2> QED
    BY <2>1, <2>2, SixShapes DEF OnlyItsOwn
<1>4. SameAxes(usage)
  BY <1>1, <1>3, SixShapes, OwnShapeIsRead
<1>5. SameInside(usage)
  <2>1. ~IsAnthropicSql(usage)
    <3>1. \A tier \in DOMAIN ANTHROPIC.cache : ReadPath(usage, ANTHROPIC.cache[tier]) = Null
      BY <1>2, TiersOfShapes DEF ANTHROPIC
    <3> QED
      BY <3>1 DEF IsAnthropicSql
  <2>2. \A c \in {"cache_read", "cache_write", "cache_write_5m", "cache_write_1h"} : CacheTokens(usage)[c] = 0
    BY <1>1, TiersOfShapes DEF CacheTokens, CacheTiers, WriteTiers
  <2> QED
    BY <1>1, <2>1, <2>2, ReadCounts DEF SameInside, WrittenTokens, CacheTiers, WriteTiers, PLAIN
<1> QED
  BY <1>4, <1>5

LEMMA PayloadIsRead ==
  ASSUME NEW usage, Payload(usage)
  PROVE  Counts(usage) /\ SameAxes(usage) /\ SameInside(usage)
<1>1. Counts(usage) /\ KnownPayload(usage)
  BY DEF Payload, Counts
<1> QED
  BY <1>1, GeminiPayload, OpenAIPayload, AnthropicPayload, PerplexityPayload, DeepseekPayload,
     PlainPayload DEF KnownPayload

-----------------------------------------------------------------------------
(* The costs *)

LEMMA NothingIsNothing ==
  ASSUME NEW free, NEW at
  PROVE  EstimateRunCost(Null, free, at) = RunCostSql(Null, free, at) /\ RawTokens(Null) = TokensSql(Null)
BY DEF EstimateRunCost, RunCostSql, RawTokens, TokensSql

\* Python and SQL make the same of any payload an adapter stores, at any prices.
THEOREM OnePayloadOneCost ==
  ASSUME NEW usage, Payload(usage), NEW free, NEW at
  PROVE  /\ RawTokens(usage) = TokensSql(usage)
         /\ EstimateRunCost(usage, free, at) = RunCostSql(usage, free, at)
<1> DEFINE tokens == CacheTokens(usage)
           raw == RawTokens(usage)
           folded == IF IsAnthropicSql(usage) THEN 0 ELSE tokens["cache_read"] + tokens["cache_write"]
<1>1. Counts(usage) /\ SameAxes(usage) /\ SameInside(usage)
  BY PayloadIsRead
<1>2. RawTokens(usage) = TokensSql(usage)
  BY <1>1 DEF SameAxes, RawTokens, TokensSql
<1>3. tokens = [c \in CacheTiers |-> CacheSql(usage, c)]
  BY <1>1 DEF SameAxes, CacheTokens
<1>4. ASSUME Null \notin {raw[1], raw[2]}
      PROVE  BillableInput(usage, tokens) = Max({0, raw[1] - folded})
  <2> DEFINE shape == SelectShape(usage)
             read == IF shape.readInside THEN tokens["cache_read"] ELSE 0
             written == IF shape.writeInside THEN WrittenTokens(tokens) ELSE 0
  <2>1. raw[1] = ReadPath(usage, shape.in)
    BY <1>4 DEF RawTokens
  <2>2. raw[1] = usage[shape.in] /\ raw[1] \in Nat
    BY <1>1, <1>4, <2>1, ReadCounts DEF ReadPath
  <2>3. \A c \in CacheTiers : tokens[c] \in Nat
    BY <1>1, ReadCounts
  <2>4. read \in Nat /\ written \in Nat
    BY <2>3 DEF WrittenTokens, CacheTiers, WriteTiers
  <2>5. read + written = folded
    BY <1>1 DEF SameInside
  <2>6. raw[1] - read - written = raw[1] - folded
    BY <2>2, <2>4, <2>5
  <2> QED
    BY <2>2, <2>6 DEF BillableInput
<1>5. EstimateRunCost(usage, free, at) = RunCostSql(usage, free, at)
  BY <1>2, <1>3, <1>4 DEF EstimateRunCost, RunCostSql
<1> QED
  BY <1>2, <1>5

-----------------------------------------------------------------------------
(* The price history of one component *)

\* Price rows of one component: no two are effective from the same moment.
IsPriced(rows, b) ==
  /\ \A row \in rows : row.from \in Nat /\ row.from <= b
  /\ \A row, other \in rows : row.from = other.from => row = other

LEMMA EarliestRow ==
  ASSUME NEW rows, rows # {}, \A row \in rows : row.from \in Nat
  PROVE  \E row \in rows : \A other \in rows : row.from <= other.from
<1> DEFINE times == {row.from : row \in rows}
<1>1. times \subseteq Nat /\ times # {}
  OBVIOUS
<1>2. Min(times) \in times /\ \A n \in times : Min(times) <= n
  BY <1>1, MinIsLeast
<1> QED
  BY <1>2

LEMMA NewestRow ==
  ASSUME NEW rows, rows # {}, NEW b \in Nat, \A row \in rows : row.from \in Nat /\ row.from <= b
  PROVE  \E row \in rows : \A other \in rows : other.from <= row.from
<1> DEFINE ages == {b - row.from : row \in rows}
<1>1. ages \subseteq Nat /\ ages # {}
  OBVIOUS
<1>2. Min(ages) \in ages /\ \A n \in ages : Min(ages) <= n
  BY <1>1, MinIsLeast
<1>3. PICK row \in rows : Min(ages) = b - row.from
  BY <1>2
<1>4. \A other \in rows : b - row.from <= b - other.from
  BY <1>2, <1>3
<1> QED
  BY <1>4

\* The row after one that is not the newest.
LEMMA FollowingIsNext ==
  ASSUME NEW rows, NEW b \in Nat, IsPriced(rows, b), NEW row \in rows, Newer(rows, row) # {}
  PROVE  /\ Following(rows, row) \in rows /\ Following(rows, row).from > row.from
         /\ \A other \in rows : other.from > row.from => Following(rows, row).from <= other.from
<1>1. \E next \in Newer(rows, row) : \A other \in Newer(rows, row) : next.from <= other.from
  BY EarliestRow DEF IsPriced, Newer
<1> DEFINE next == Following(rows, row)
<1>2. next \in Newer(rows, row) /\ \A other \in Newer(rows, row) : next.from <= other.from
  BY <1>1 DEF Following
<1> QED
  BY <1>2 DEF Newer

\* The price at a moment is that of the newest row that is effective.
LEMMA LatestIsNewest ==
  ASSUME NEW rows, NEW b \in Nat, IsPriced(rows, b), NEW part \in SUBSET rows, part # {}
  PROVE  Latest(part) \in part /\ \A other \in part : other.from <= Latest(part).from
<1>1. \E row \in part : \A other \in part : other.from <= row.from
  BY NewestRow DEF IsPriced
<1> QED
  BY <1>1 DEF Latest

\* A span goes back to a row that is not before another that opens one.
LEMMA SpanStarts ==
  ASSUME NEW rows, NEW b \in Nat, IsPriced(rows, b), NEW row \in rows
  PROVE  \E old \in Span(rows, row) :
           /\ Min({r.from : r \in Span(rows, row)}) = old.from
           /\ \A other \in Span(rows, row) : old.from <= other.from
<1> DEFINE times == {r.from : r \in Span(rows, row)}
<1>1. row \in Span(rows, row)
  BY DEF Span, IsPriced
<1>2. times \subseteq Nat /\ times # {}
  BY <1>1 DEF Span, IsPriced
<1>3. Min(times) \in times /\ \A n \in times : Min(times) <= n
  BY <1>2, MinIsLeast
<1> QED
  BY <1>3

\* The span that an opening row has in the history.
SpanOf(rows, row) ==
  [price |-> row.price, from |-> Min({old.from : old \in Span(rows, row)}),
   until |-> IF Newer(rows, row) = {} THEN Null ELSE Following(rows, row).from]

Holds(s, t) == s.from <= t /\ (s.until = Null \/ t < s.until)

LEMMA HistoryIsSpans ==
  ASSUME NEW rows
  PROVE  PriceHistory(rows) = {SpanOf(rows, row) : row \in {row \in rows : Opens(rows, row)}}
BY DEF PriceHistory, SpanOf

\* Before the first row no span holds.
LEMMA NoSpanBefore ==
  ASSUME NEW rows, NEW b \in Nat, IsPriced(rows, b), NEW t \in Int, \A row \in rows : row.from > t
  PROVE  \A s \in PriceHistory(rows) : ~Holds(s, t)
<1> SUFFICES ASSUME NEW row \in rows, Opens(rows, row)
             PROVE  ~Holds(SpanOf(rows, row), t)
  BY HistoryIsSpans
<1>1. PICK old \in Span(rows, row) : SpanOf(rows, row).from = old.from
  BY SpanStarts DEF SpanOf
<1>2. old \in rows /\ old.from \in Nat
  BY <1>1 DEF Span, IsPriced
<1> QED
  BY <1>1, <1>2 DEF Holds

\* From then on one span holds, and it has the price of the newest effective row.
LEMMA OneSpanHolds ==
  ASSUME NEW rows, NEW b \in Nat, IsPriced(rows, b), NEW t \in Int,
         {row \in rows : row.from <= t} # {}
  PROVE  \E s \in PriceHistory(rows) :
           /\ {other \in PriceHistory(rows) : Holds(other, t)} = {s}
           /\ s.price = Latest({row \in rows : row.from <= t}).price
<1> DEFINE effective == {row \in rows : row.from <= t}
           x == Latest(effective)
           openers == {row \in rows : Opens(rows, row) /\ x.from <= row.from}
<1>1. x \in rows /\ x.from <= t /\ \A row \in rows : row.from <= t => row.from <= x.from
  BY LatestIsNewest
<1>2. \A row \in rows : row.from \in Nat
  BY DEF IsPriced
<1>3. openers # {}
  <2>1. PICK row \in rows : \A other \in rows : other.from <= row.from
    BY <1>1, NewestRow DEF IsPriced
  <2>2. Newer(rows, row) = {}
    BY <1>2, <2>1 DEF Newer
  <2> QED
    BY <1>1, <2>1, <2>2 DEF Opens
<1>4. PICK o \in openers : \A row \in openers : o.from <= row.from
  BY <1>2, <1>3, EarliestRow
<1>5. o \in rows /\ Opens(rows, o) /\ x.from <= o.from
  BY <1>4
<1>6. x.price = o.price
  <2> DEFINE odd == {row \in rows : x.from <= row.from /\ row.from <= o.from /\ row.price # o.price}
  <2>1. SUFFICES ASSUME odd # {} PROVE FALSE
    BY <1>1, <1>2, <1>5
  <2>2. PICK z \in odd : \A row \in odd : row.from <= z.from
    BY <2>1, NewestRow DEF IsPriced
  <2>3. z \in rows /\ z.from < o.from
    BY <1>2, <1>5, <2>2 DEF IsPriced
  <2>4. Newer(rows, z) # {}
    BY <1>5, <2>3 DEF Newer
  <2> DEFINE next == Following(rows, z)
  <2>5. next \in rows /\ next.from > z.from /\ next.from <= o.from
    BY <1>5, <2>3, <2>4, FollowingIsNext
  <2>6. next.price = o.price
    BY <1>2, <1>1, <2>2, <2>5
  <2>7. z \in openers
    BY <2>2, <2>6 DEF Opens
  <2> QED
    BY <1>2, <1>4, <1>5, <2>3, <2>7
<1> DEFINE s == SpanOf(rows, o)
<1>7. Holds(s, t)
  <2>1. x \in Span(rows, o)
    <3>1. ASSUME NEW other \in rows, x.from <= other.from, other.from < o.from
          PROVE  ~Opens(rows, other)
      BY <1>2, <1>4, <1>5, <3>1
    <3> QED
      BY <1>1, <1>5, <3>1 DEF Span
  <2>2. s.from \in Nat /\ s.from <= x.from
    BY <1>2, <1>5, <2>1, SpanStarts DEF SpanOf, Span
  <2>3. s.until # Null => s.until \in Nat /\ s.until > t
    <3>1. SUFFICES ASSUME Newer(rows, o) # {}
                   PROVE  Following(rows, o).from \in Nat /\ Following(rows, o).from > t
      BY DEF SpanOf
    <3>2. Following(rows, o) \in rows /\ Following(rows, o).from > o.from
      BY <1>5, <3>1, FollowingIsNext
    <3> QED
      BY <1>1, <1>2, <1>5, <3>2
  <2> QED
    BY <1>1, <1>2, <2>2, <2>3 DEF Holds
<1>8. ASSUME NEW p \in rows, Opens(rows, p), Holds(SpanOf(rows, p), t)
      PROVE  p = o
  <2>1. x.from <= p.from
    <3>1. SUFFICES ASSUME p.from < x.from PROVE FALSE
      BY <1>1, <1>2
    <3>2. Newer(rows, p) # {} /\ Following(rows, p).from <= x.from
      BY <1>1, <3>1, FollowingIsNext DEF Newer
    <3>3. Following(rows, p) \in rows
      BY <3>2, FollowingIsNext
    <3>4. SpanOf(rows, p).until = Following(rows, p).from /\ Following(rows, p).from \in Nat
      BY <1>2, <3>2, <3>3 DEF SpanOf
    <3> QED
      BY <1>1, <1>2, <1>8, <3>2, <3>4, NullAssumption DEF Holds
  <2>2. o.from <= p.from
    BY <1>4, <1>8, <2>1
  <2>3. ~(o.from < p.from)
    <3>1. SUFFICES ASSUME o.from < p.from PROVE FALSE
      OBVIOUS
    <3>2. PICK old \in Span(rows, p) : SpanOf(rows, p).from = old.from
      BY SpanStarts DEF SpanOf
    <3>3. old \in rows /\ ~(old.from <= o.from)
      BY <1>5, <3>1, <3>2 DEF Span
    <3>4. old.from <= t
      BY <1>8, <3>2 DEF Holds
    <3> QED
      BY <1>1, <1>2, <1>5, <3>3, <3>4
  <2> QED
    BY <1>2, <1>5, <2>2, <2>3 DEF IsPriced
<1>9. s \in PriceHistory(rows)
  BY <1>5, HistoryIsSpans
<1>10. \A other \in PriceHistory(rows) : Holds(other, t) => other = s
  BY <1>8, HistoryIsSpans
<1>11. s.price = x.price
  BY <1>6 DEF SpanOf
<1> QED
  BY <1>7, <1>9, <1>10, <1>11

-----------------------------------------------------------------------------
(* The inductive invariant *)

IsForm(f) ==
  /\ f = [model |-> f.model, new |-> f.new, provider |-> f.provider, free |-> f.free,
          prices |-> f.prices]
  /\ f.provider \in DOMAIN Samples

IsSaved(s) == s = [form |-> s.form, begun |-> s.begun, today |-> s.today] /\ IsForm(s.form)

\* Every form is of a provider there is.
FormsInv ==
  /\ page = [a \in Admins |-> page[a]] /\ saving = [a \in Admins |-> saving[a]]
  /\ \A a \in Admins : (page[a] # Null => IsForm(page[a])) /\ (saving[a] # Null => IsSaved(saving[a]))

IsRun(r) ==
  /\ r = [id |-> r.id, model |-> r.model, started |-> r.started, status |-> r.status,
          api |-> r.api, usage |-> r.usage, verdicts |-> r.verdicts, ask |-> r.ask]
  /\ r.started \in Nat /\ r.api \in DOMAIN Samples
  /\ r.usage = Null \/ Payload(r.usage)

\* Runs are numbered, and the model of each is kept.
RunsInv ==
  /\ IsFiniteSet(runs)
  /\ \A r \in runs : IsRun(r) /\ r.model \in DOMAIN models /\ r.id \in 1..Cardinality(runs)
  /\ \A q, r \in runs : q.id = r.id => q = r

\* No price is of the future, no component has two from one moment, and no transaction that
\* is under way will add another.
PricesInv ==
  /\ now \in Nat /\ now > 1
  /\ \A row \in prices : row.from \in 1..now-1
  /\ \A row, other \in prices :
       row.model = other.model /\ row.component = other.component /\ row.from = other.from
         => row = other
  /\ \A a \in Admins : saving[a] # Null =>
       /\ saving[a].begun \in 1..now-1
       /\ \A row \in prices : row.from # saving[a].begun
       /\ \A b \in Admins : b # a /\ saving[b] # Null => saving[b].begun # saving[a].begun

SpendingInv == IsModels(models) /\ FormsInv /\ RunsInv /\ PricesInv

LEMMA SpendingInvInit == SpendingInit => SpendingInv
<1> SUFFICES ASSUME SpendingInit PROVE SpendingInv
  OBVIOUS
<1>1. IsModels(models)
  BY StartAssumption DEF SpendingInit
<1>2. FormsInv
  BY DEF SpendingInit, FormsInv
<1>3. RunsInv
  BY FS_EmptySet DEF SpendingInit, RunsInv
<1>4. PricesInv
  <2>1. now \in Nat /\ now > 1
    BY StartAssumption DEF SpendingInit
  <2>2. prices = {FirstPrice(m, c) : m \in DOMAIN models, c \in Components}
    BY DEF SpendingInit
  <2>3. \A m, c : /\ FirstPrice(m, c).model = m /\ FirstPrice(m, c).component = c
                  /\ FirstPrice(m, c).from = 1
    BY DEF FirstPrice
  <2>4. \A row \in prices : row = FirstPrice(row.model, row.component) /\ row.from = 1
    BY <2>2, <2>3
  <2>5. \A a \in Admins : saving[a] = Null
    BY DEF SpendingInit
  <2> QED
    BY <2>1, <2>4, <2>5 DEF PricesInv
<1> QED
  BY <1>1, <1>2, <1>3, <1>4 DEF SpendingInv

\* A form is opened on a model there is, or on none.
LEMMA FormStateIsForm ==
  ASSUME IsModels(models), NEW m
  PROVE  IsForm(FormState(m))
<1>1. (CHOOSE p \in DOMAIN Samples : TRUE) \in DOMAIN Samples
  BY SamplesAssumption
<1> QED
  BY <1>1 DEF FormState, IsForm, IsModels

LEMMA FilledIsForm ==
  ASSUME NEW form, IsForm(form), NEW edit \in Edits
  PROVE  IsForm(Filled(form, edit)) /\ Filled(form, edit).model = form.model
BY EditsAssumption DEF IsForm, Filled

\* A set of numbered runs with one more, or with one of them changed.
LEMMA RunAdded ==
  ASSUME RunsInv, NEW new, new.id = Cardinality(runs) + 1
  PROVE  /\ Cardinality(runs) \in Nat /\ new \notin runs
         /\ IsFiniteSet(runs \cup {new}) /\ Cardinality(runs \cup {new}) = Cardinality(runs) + 1
<1>1. Cardinality(runs) \in Nat
  BY FS_CardinalityType DEF RunsInv
<1>2. new \notin runs
  BY <1>1 DEF RunsInv
<1> QED
  BY <1>1, <1>2, FS_AddElement DEF RunsInv

LEMMA RunChanged ==
  ASSUME RunsInv, NEW r \in runs, NEW new, new.id = r.id
  PROVE  /\ IsFiniteSet((runs \ {r}) \cup {new})
         /\ Cardinality((runs \ {r}) \cup {new}) = Cardinality(runs)
<1>1. Cardinality(runs) \in Nat
  BY FS_CardinalityType DEF RunsInv
<1>2. IsFiniteSet(runs \ {r}) /\ Cardinality(runs \ {r}) = Cardinality(runs) - 1
  BY FS_RemoveElement DEF RunsInv
<1>3. new \notin runs \ {r}
  BY DEF RunsInv
<1> DEFINE others == runs \ {r}
<1> HIDE DEF others
<1>4. IsFiniteSet(others \cup {new}) /\ Cardinality(others \cup {new}) = Cardinality(others) + 1
  BY <1>2, <1>3, FS_AddElement DEF others
<1> QED
  BY <1>1, <1>2, <1>4 DEF others

\* The rows of a form are effective from the begin of its transaction.
LEMMA NewRowsAreNew ==
  ASSUME NEW saved, NEW row \in NewRows(saved)
  PROVE  /\ row.from = saved.begun /\ row.model = saved.form.model
         /\ row.component \in Changed(saved) /\ row.price = saved.form.prices[row.component]
         /\ row = [model |-> row.model, component |-> row.component, price |-> row.price,
                   from |-> row.from]
BY DEF NewRows

-----------------------------------------------------------------------------
(* Every step preserves it *)

LEMMA OpenFormStep ==
  ASSUME SpendingInv, NEW a \in Admins, NEW m, OpenForm(a, m)
  PROVE  SpendingInv'
<1> USE DEF SpendingInv
<1>1. IsModels(models)'
  BY DEF OpenForm, priceVars, IsModels
<1>2. FormsInv'
  BY FormStateIsForm DEF OpenForm, FormsInv
<1>3. RunsInv'
  BY DEF OpenForm, priceVars, RunsInv
<1>4. PricesInv'
  BY DEF OpenForm, priceVars, PricesInv
<1> QED
  BY <1>1, <1>2, <1>3, <1>4

LEMMA SubmitFormStep ==
  ASSUME SpendingInv, NEW a \in Admins, SubmitForm(a)
  PROVE  SpendingInv'
<1> USE DEF SpendingInv
<1>1. IsModels(models)'
  BY DEF SubmitForm, priceVars, IsModels
<1>0. PICK edit \in Edits :
        LET form == Filled(page[a], edit)
        IN saving' = [saving EXCEPT ![a] =
             IF Accepted(form) THEN [form |-> form, begun |-> now, today |-> Today(form.model)]
             ELSE Null]
  BY DEF SubmitForm
<1>2. PICK s : /\ saving' = [saving EXCEPT ![a] = s]
               /\ s # Null => s = [form |-> Filled(page[a], edit), begun |-> now,
                                   today |-> Today(Filled(page[a], edit).model)]
  BY <1>0
<1>3. IsForm(Filled(page[a], edit))
  BY FilledIsForm DEF SubmitForm, FormsInv
<1>4. s # Null => IsSaved(s) /\ s.begun = now
  BY <1>2, <1>3 DEF IsSaved
<1>5. /\ DOMAIN saving = Admins /\ saving'[a] = s
      /\ \A b \in Admins : b # a => saving'[b] = saving[b]
  BY <1>2 DEF FormsInv
<1>6. FormsInv'
  <2>1. saving' = [b \in Admins |-> saving'[b]]
    BY <1>2, <1>5
  <2>2. page' = [page EXCEPT ![a] = Null]
    BY DEF SubmitForm
  <2> QED
    BY <1>4, <1>5, <2>1, <2>2 DEF FormsInv
<1>7. RunsInv'
  BY DEF SubmitForm, priceVars, RunsInv
<1>8. PricesInv'
  <2>1. now' = now + 1 /\ prices' = prices /\ now \in Nat
    BY DEF SubmitForm, priceVars, PricesInv
  <2>2. \A row \in prices : row.from \in 1..now-1
    BY DEF PricesInv
  <2>3. ASSUME NEW b \in Admins, saving'[b] # Null
        PROVE  /\ saving'[b].begun \in 1..now
               /\ \A row \in prices : row.from # saving'[b].begun
               /\ \A c \in Admins : c # b /\ saving'[c] # Null => saving'[c].begun # saving'[b].begun
    <3>1. CASE b = a
      <4>1. saving'[b].begun = now
        BY <1>4, <1>5, <2>3, <3>1
      <4>2. \A c \in Admins : c # b /\ saving'[c] # Null => saving'[c].begun \in 1..now-1
        BY <1>5, <3>1 DEF PricesInv
      <4>3. now \in 1..now
        <5>1. now > 1
          BY DEF PricesInv
        <5> QED
          BY <2>1, <5>1
      <4> QED
        BY <2>1, <2>2, <4>1, <4>2, <4>3
    <3>2. CASE b # a
      <4>1. saving'[b] = saving[b] /\ saving[b] # Null
        BY <1>5, <2>3, <3>2
      <4>2. /\ saving[b].begun \in 1..now-1
            /\ \A row \in prices : row.from # saving[b].begun
            /\ \A c \in Admins : c # b /\ saving[c] # Null => saving[c].begun # saving[b].begun
        BY <4>1 DEF PricesInv
      <4>3. saving'[a] # Null => saving'[a].begun # saving[b].begun
        BY <1>4, <1>5, <2>1, <4>2
      <4>4. ASSUME NEW c \in Admins, c # b, saving'[c] # Null
            PROVE  saving'[c].begun # saving[b].begun
        BY <1>5, <4>2, <4>3, <4>4
      <4> QED
        BY <2>1, <4>1, <4>2, <4>4
    <3> QED
      BY <3>1, <3>2
  <2> QED
    BY <2>1, <2>2, <2>3 DEF PricesInv
<1> QED
  BY <1>1, <1>6, <1>7, <1>8

LEMMA SaveModelStep ==
  ASSUME SpendingInv, NEW a \in Admins, SaveModel(a)
  PROVE  SpendingInv'
<1> USE DEF SpendingInv
<1> DEFINE saved == saving[a]
           form == saving[a].form
<1>1. IsForm(form) /\ saving[a] # Null
  BY DEF SaveModel, FormsInv, IsSaved
<1>2. /\ DOMAIN saving' = Admins /\ saving'[a] = Null /\ page' = page
      /\ \A b \in Admins : b # a => saving'[b] = saving[b]
  BY DEF SaveModel, FormsInv
<1>3. now' = now /\ runs' = runs
  BY DEF SaveModel
<1>4. IsModels(models)' /\ DOMAIN models \subseteq DOMAIN models'
  <2>1. CASE models' = models
    BY <2>1 DEF IsModels
  <2>2. CASE models' = [m \in DOMAIN models \cup {form.model} |->
               IF m # form.model THEN models[m]
               ELSE [provider |-> form.provider, free |-> form.free,
                     active |-> form.new \/ models[m].active]]
    BY <1>1, <2>2 DEF IsModels, IsForm
  <2> QED
    BY <2>1, <2>2 DEF SaveModel, priceVars
<1>5. FormsInv'
  <2>1. saving' = [b \in Admins |-> saving'[b]]
    BY <1>2 DEF SaveModel, FormsInv
  <2> QED
    BY <1>2, <2>1 DEF FormsInv
<1>6. RunsInv'
  BY <1>3, <1>4 DEF RunsInv
<1>7. prices \subseteq prices' /\ prices' \subseteq prices \cup NewRows(saved)
  BY DEF SaveModel, priceVars, Written
<1>8. saved.begun \in 1..now-1 /\ \A row \in prices : row.from # saved.begun
  BY <1>1 DEF PricesInv
<1>9. PricesInv'
  <2>1. \A row \in prices' : row.from \in 1..now-1
    BY <1>7, <1>8, NewRowsAreNew DEF PricesInv
  <2>2. ASSUME NEW row \in prices', NEW other \in prices', row.model = other.model,
               row.component = other.component, row.from = other.from
        PROVE  row = other
    <3>1. CASE row \in prices /\ other \in prices
      BY <2>2, <3>1 DEF PricesInv
    <3>2. CASE row \in NewRows(saved) /\ other \in NewRows(saved)
      BY <2>2, <3>2, NewRowsAreNew
    <3>3. CASE (row \in prices /\ other \in NewRows(saved)) \/ (row \in NewRows(saved) /\ other \in prices)
      BY <1>8, <2>2, <3>3, NewRowsAreNew
    <3> QED
      BY <1>7, <3>1, <3>2, <3>3
  <2>3. ASSUME NEW b \in Admins, saving'[b] # Null
        PROVE  /\ saving'[b].begun \in 1..now-1
               /\ \A row \in prices' : row.from # saving'[b].begun
               /\ \A c \in Admins : c # b /\ saving'[c] # Null => saving'[c].begun # saving'[b].begun
    <3>1. b # a /\ saving'[b] = saving[b]
      BY <1>2, <2>3
    <3>2. /\ saving[b].begun \in 1..now-1 /\ saving[b].begun # saved.begun
          /\ \A row \in prices : row.from # saving[b].begun
          /\ \A c \in Admins : c # b /\ saving[c] # Null => saving[c].begun # saving[b].begun
      BY <1>1, <2>3, <3>1 DEF PricesInv
    <3>3. \A row \in prices' : row.from # saving[b].begun
      BY <1>7, <3>2, NewRowsAreNew
    <3> QED
      BY <1>2, <3>1, <3>2, <3>3
  <2>4. now' \in Nat /\ now' > 1
    BY <1>3 DEF PricesInv
  <2> QED
    BY <1>3, <2>1, <2>2, <2>3, <2>4 DEF PricesInv
<1> QED
  BY <1>4, <1>5, <1>6, <1>9

LEMMA ToggleActiveStep ==
  ASSUME SpendingInv, NEW m, ToggleActive(m)
  PROVE  SpendingInv'
<1> USE DEF SpendingInv
<1>1. /\ m \in DOMAIN models /\ DOMAIN models' = DOMAIN models
      /\ \A n \in DOMAIN models : n # m => models'[n] = models[n]
      /\ models'[m] = [models[m] EXCEPT !.active = ~@]
  BY DEF ToggleActive
<1>2. models'[m] = [provider |-> models[m].provider, free |-> models[m].free,
                    active |-> ~models[m].active]
  BY <1>1 DEF IsModels
<1>3. IsModels(models)'
  <2>1. models' = [n \in DOMAIN models' |-> models'[n]]
    BY <1>1 DEF ToggleActive
  <2> QED
    BY <1>1, <1>2, <2>1 DEF IsModels
<1>4. FormsInv'
  BY DEF ToggleActive, formVars, FormsInv
<1>5. RunsInv'
  BY <1>1 DEF ToggleActive, RunsInv
<1>6. PricesInv'
  BY DEF ToggleActive, formVars, PricesInv
<1> QED
  BY <1>3, <1>4, <1>5, <1>6

LEMMA DeleteModelStep ==
  ASSUME SpendingInv, NEW m, DeleteModel(m)
  PROVE  SpendingInv'
<1> USE DEF SpendingInv
<1>1. IsModels(models)'
  BY DEF DeleteModel, IsModels
<1>2. FormsInv'
  BY DEF DeleteModel, formVars, FormsInv
<1>3. RunsInv'
  BY DEF DeleteModel, RunsInv
<1>4. PricesInv'
  <2>1. prices' \subseteq prices /\ now' = now /\ saving' = saving
    BY DEF DeleteModel, formVars
  <2> QED
    BY <2>1 DEF PricesInv
<1> QED
  BY <1>1, <1>2, <1>3, <1>4

\* What was before one moment is before a later one.
LEMMA EarlierStays ==
  \A i, j \in Nat : i < j => \A k \in 1..i-1 : k \in 1..j-1
OBVIOUS

LEMMA StartRunStep ==
  ASSUME SpendingInv, NEW m, NEW ask, NEW wait \in Nat, StartRun(m, ask, wait)
  PROVE  SpendingInv'
<1> USE DEF SpendingInv
<1> DEFINE new == [id |-> Cardinality(runs) + 1, model |-> m, started |-> now + wait,
       status |-> "pending", api |-> models[m].provider, usage |-> Null,
       verdicts |-> {}, ask |-> ask]
<1>1. /\ runs' = runs \cup {new} /\ now' = now + wait + 1 /\ m \in DOMAIN models
      /\ models' = models /\ prices' = prices /\ page' = page /\ saving' = saving
  BY DEF StartRun, priceVars, formVars
<1>2. IsModels(models)' /\ FormsInv'
  BY <1>1 DEF IsModels, FormsInv
<1>3. /\ Cardinality(runs) \in Nat /\ new \notin runs
      /\ IsFiniteSet(runs') /\ Cardinality(runs') = Cardinality(runs) + 1
  BY <1>1, RunAdded
<1>4. now \in Nat /\ now + wait \in Nat
  BY DEF PricesInv
<1>5. RunsInv'
  <2>1. IsRun(new)
    BY <1>1, <1>4 DEF IsRun, IsModels
  <2>2. \A r \in runs : IsRun(r) /\ r.model \in DOMAIN models /\ r.id \in 1..Cardinality(runs)
    BY DEF RunsInv
  <2>3. \A r \in runs' : IsRun(r) /\ r.model \in DOMAIN models /\ r.id \in 1..Cardinality(runs) + 1
    <3>1. ASSUME NEW k \in 1..Cardinality(runs) PROVE k \in 1..Cardinality(runs) + 1
      BY <1>3
    <3>2. new.id \in 1..Cardinality(runs) + 1 /\ new.model = m
      BY <1>3
    <3> QED
      BY <1>1, <2>1, <2>2, <3>1, <3>2
  <2>4. \A q, r \in runs' : q.id = r.id => q = r
    <3>1. \A r \in runs : r.id # new.id
      BY <1>3, <2>2
    <3> QED
      BY <1>1, <3>1 DEF RunsInv
  <2> QED
    BY <1>1, <1>3, <2>3, <2>4 DEF RunsInv
<1>6. PricesInv'
  <2>1. now' \in Nat /\ now' > now /\ now' > 1
    BY <1>1, <1>4 DEF PricesInv
  <2>2. \A k \in 1..now-1 : k \in 1..now'-1
    BY <1>4, <2>1, EarlierStays
  <2> QED
    BY <1>1, <2>1, <2>2 DEF PricesInv
<1> QED
  BY <1>2, <1>5, <1>6

LEMMA EndRunStep ==
  ASSUME SpendingInv, NEW r \in runs, EndRun(r)
  PROVE  SpendingInv'
<1> USE DEF SpendingInv
<1>1. PICK status, usage : Ends(r, status, usage) /\ (usage = Null \/ Payload(usage))
  <2>1. r.api \in DOMAIN Samples
    BY DEF RunsInv, IsRun
  <2>2. \A usage \in Samples[r.api] \cup {Null} : usage = Null \/ Payload(usage)
    BY <2>1, SamplesAssumption
  <2>3. CASE Ends(r, "error", Null)
    BY <2>3
  <2>4. CASE \E usage \in Samples[r.api] \cup {Null} : Ends(r, "success", usage)
    BY <2>2, <2>4
  <2> QED
    BY <2>3, <2>4 DEF EndRun
<1> DEFINE new == [r EXCEPT !.status = status, !.usage = usage]
<1>2. IsRun(r) /\ r.model \in DOMAIN models /\ r.id \in 1..Cardinality(runs)
  BY DEF RunsInv
<1>3. new = [id |-> r.id, model |-> r.model, started |-> r.started, status |-> status,
             api |-> r.api, usage |-> usage, verdicts |-> r.verdicts, ask |-> r.ask]
  <2> DEFINE ended == [r EXCEPT !.status = status]
  <2>1. ended = [id |-> r.id, model |-> r.model, started |-> r.started, status |-> status,
                 api |-> r.api, usage |-> r.usage, verdicts |-> r.verdicts, ask |-> r.ask]
    BY <1>2 DEF IsRun
  <2>2. new = [ended EXCEPT !.usage = usage]
    OBVIOUS
  <2> HIDE DEF ended
  <2> QED
    BY <2>1, <2>2
<1>4. /\ runs' = (runs \ {r}) \cup {new} /\ now' = now
      /\ models' = models /\ prices' = prices /\ page' = page /\ saving' = saving
  BY <1>1 DEF EndRun, Ends, priceVars, formVars
<1>6. IsRun(new) /\ new.id = r.id /\ new.model = r.model
  BY <1>1, <1>2, <1>3 DEF IsRun
<1>7. IsModels(models)' /\ FormsInv' /\ PricesInv'
  BY <1>4 DEF IsModels, FormsInv, PricesInv
<1>8. RunsInv'
  <2>1. IsFiniteSet(runs') /\ Cardinality(runs') = Cardinality(runs)
    BY <1>4, <1>6, RunChanged
  <2>2. \A q \in runs' : IsRun(q) /\ q.model \in DOMAIN models /\ q.id \in 1..Cardinality(runs)
    BY <1>2, <1>4, <1>6 DEF RunsInv
  <2>3. \A p, q \in runs' : p.id = q.id => p = q
    BY <1>4, <1>6 DEF RunsInv
  <2> QED
    BY <1>4, <2>1, <2>2, <2>3 DEF RunsInv
<1> QED
  BY <1>7, <1>8

LEMMA SpendingInvStep == SpendingInv /\ [SpendingNext]_spendingVars => SpendingInv'
<1> SUFFICES ASSUME SpendingInv, [SpendingNext]_spendingVars PROVE SpendingInv'
  OBVIOUS
<1>1. CASE UNCHANGED spendingVars
  BY <1>1 DEF spendingVars, SpendingInv, IsModels, FormsInv, RunsInv, PricesInv
<1>2. CASE SpendingNext
  <2>1. \A m : StartRun(m, Null, 0) => SpendingInv'
    BY StartRunStep
  <2> QED
    BY <1>2, <2>1, OpenFormStep, SubmitFormStep, SaveModelStep, ToggleActiveStep,
       DeleteModelStep, EndRunStep DEF SpendingNext, Administration
<1> QED
  BY <1>1, <1>2

THEOREM SpendingIsOrdered == SpendingSpec => []SpendingInv
BY SpendingInvInit, SpendingInvStep, PTL DEF SpendingSpec

-----------------------------------------------------------------------------
(* TwinsAgree *)

LEMMA RunsOfOneCost ==
  ASSUME SpendingInv
  PROVE  TwinsAgree
<1> SUFFICES ASSUME NEW r \in runs
             PROVE  Cost(r) = CostSql(r) /\ RawTokens(r.usage) = TokensSql(r.usage)
  BY DEF TwinsAgree
<1>1. r.usage = Null \/ Payload(r.usage)
  BY DEF SpendingInv, RunsInv, IsRun
<1>2. CASE Payload(r.usage)
  BY <1>2, OnePayloadOneCost DEF Cost, CostSql
<1>3. CASE r.usage = Null
  BY <1>3, NothingIsNothing DEF Cost, CostSql
<1> QED
  BY <1>1, <1>2, <1>3

\* Whatever models, prices, payloads and administrators there are, SQL and Python make the
\* same of every run.
THEOREM TwinsNeverDrift == SpendingSpec => []TwinsAgree
<1>1. SpendingInv => TwinsAgree
  BY RunsOfOneCost
<1> QED
  BY <1>1, SpendingIsOrdered, PTL

-----------------------------------------------------------------------------
(* HistorySpansTell *)

LEMMA HistoryTells ==
  ASSUME PricesInv
  PROVE  HistorySpansTell
<1> SUFFICES ASSUME NEW m \in DOMAIN models, NEW c \in Components, NEW row \in prices,
                    NEW d \in {0, 1}
             PROVE  LET mine == {r \in RowsOf(m) : r.component = c}
                        spans == PriceHistory(mine)
                        t == row.from + d
                        holding == {s \in spans : s.from <= t /\ (s.until = Null \/ t < s.until)}
                    IN IF c \in DOMAIN PricesAt(mine, t)
                       THEN \E s \in spans : holding = {s} /\ s.price = PricesAt(mine, t)[c]
                       ELSE holding = {}
  BY Zenon DEF HistorySpansTell
<1> DEFINE mine == {r \in RowsOf(m) : r.component = c}
           t == row.from + d
           effective == {r \in mine : r.from <= t}
<1>1. IsPriced(mine, now) /\ now \in Nat /\ t \in Int
  BY DEF IsPriced, PricesInv, RowsOf
<1>2. {r \in mine : r.component = c /\ r.from <= t} = effective
  OBVIOUS
<1>3. /\ c \in DOMAIN PricesAt(mine, t) <=> effective # {}
      /\ effective # {} => PricesAt(mine, t)[c] = Latest(effective).price
  BY <1>2 DEF PricesAt
<1>4. CASE effective = {}
  <2>1. \A r \in mine : r.from > t
    BY <1>1, <1>4 DEF IsPriced
  <2> QED
    BY <1>1, <1>3, <1>4, <2>1, NoSpanBefore DEF Holds
<1>5. CASE effective # {}
  <2>1. PICK s \in PriceHistory(mine) :
          /\ {other \in PriceHistory(mine) : Holds(other, t)} = {s}
          /\ s.price = Latest(effective).price
    BY <1>1, <1>5, OneSpanHolds
  <2> QED
    BY <1>3, <1>5, <2>1 DEF Holds
<1> QED
  BY <1>4, <1>5

\* At any moment exactly one span of the history holds for a component that has a price by
\* then, and it says what a run of that moment is charged.
THEOREM HistoryIsWhatWasCharged == SpendingSpec => []HistorySpansTell
<1>1. SpendingInv => HistorySpansTell
  BY HistoryTells DEF SpendingInv
<1> QED
  BY <1>1, SpendingIsOrdered, PTL

-----------------------------------------------------------------------------
(* PastCostsStay *)

\* Rows of a later moment change no price.
LEMMA LaterRowsChangeNothing ==
  ASSUME NEW rows, NEW more, NEW t,
         {row \in rows : row.from <= t} = {row \in more : row.from <= t}
  PROVE  PricesAt(rows, t) = PricesAt(more, t)
<1>1. ASSUME NEW c
      PROVE  {row \in rows : row.component = c /\ row.from <= t}
               = {row \in more : row.component = c /\ row.from <= t}
  OBVIOUS
<1> QED
  BY <1>1 DEF PricesAt

LEMMA CostIsOfTheRun ==
  ASSUME RunsInv, NEW r \in runs
  PROVE  CostOf(r.id) = Cost(r)
<1>1. (CHOOSE q \in runs : q.id = r.id) = r
  BY DEF RunsInv
<1> QED
  BY <1>1 DEF CostOf

LEMMA CostIsOfTheRunNext ==
  ASSUME RunsInv', NEW r \in runs'
  PROVE  CostOf(r.id)' = Cost(r)'
<1>1. (CHOOSE q \in runs' : q.id = r.id) = r
  BY DEF RunsInv
<1> QED
  BY <1>1 DEF CostOf

\* The prices a run is charged by, and what else decides its cost.
SameCharge(r) ==
  /\ models'[r.model].free = models[r.model].free
  /\ {row \in RowsOf(r.model)' : row.from <= r.started}
       = {row \in RowsOf(r.model) : row.from <= r.started}

LEMMA SameChargeSameCost ==
  ASSUME RunsInv, RunsInv', NEW r \in runs, r \in runs', SameCharge(r)
  PROVE  CostOf(r.id)' = CostOf(r.id)
<1>1. PricesAt(RowsOf(r.model)', r.started) = PricesAt(RowsOf(r.model), r.started)
  BY LaterRowsChangeNothing DEF SameCharge
<1>2. Cost(r) = EstimateRunCost(r.usage, models[r.model].free, PricesAt(RowsOf(r.model), r.started))
  BY DEF Cost
<1>3. Cost(r)' = EstimateRunCost(r.usage, models'[r.model].free, PricesAt(RowsOf(r.model)', r.started))
  BY DEF Cost
<1>4. Cost(r)' = Cost(r)
  BY <1>1, <1>2, <1>3 DEF SameCharge
<1> QED
  BY <1>4, CostIsOfTheRun, CostIsOfTheRunNext

\* What may change a past cost.
Repriced(r) ==
  \/ models'[r.model].free # models[r.model].free
  \/ \E a \in Admins : /\ saving[a] # Null /\ saving'[a] = Null
                       /\ saving[a].form.model = r.model /\ saving[a].begun <= r.started

LEMMA PastCostsStep ==
  ASSUME SpendingInv, SpendingInv', SpendingNext, NEW r \in runs, r.status # "pending"
  PROVE  Repriced(r) \/ CostOf(r.id)' = CostOf(r.id)
<1> SUFFICES ASSUME ~Repriced(r) PROVE r \in runs' /\ SameCharge(r)
  BY SameChargeSameCost DEF SpendingInv
<1>1. r.model \in DOMAIN models /\ r.started \in Nat
  BY DEF SpendingInv, RunsInv, IsRun
<1>2. models'[r.model].free = models[r.model].free
  BY DEF Repriced
<1>3. CASE prices' = prices /\ r \in runs'
  BY <1>2, <1>3 DEF SameCharge, RowsOf
<1>4. ASSUME NEW a \in Admins, SaveModel(a)
      PROVE  r \in runs' /\ SameCharge(r)
  <2> DEFINE saved == saving[a]
  <2>1. CASE prices' = prices
    BY <1>3, <1>4, <2>1 DEF SaveModel
  <2>2. CASE prices' = Written(saved)
    <3>1. saved # Null /\ saving'[a] = Null
      BY <1>4 DEF SaveModel, SpendingInv, FormsInv
    <3>2. saved.begun \in 1..now-1
      BY <3>1 DEF SpendingInv, PricesInv
    <3>3. saved.form.model # r.model \/ saved.begun > r.started
      BY <1>1, <3>1, <3>2 DEF Repriced, SpendingInv, PricesInv
    <3>4. \A row \in NewRows(saved) : row.model = r.model => ~(row.from <= r.started)
      BY <1>1, <3>2, <3>3, NewRowsAreNew DEF SpendingInv, PricesInv
    <3>5. {row \in RowsOf(r.model)' : row.from <= r.started}
            = {row \in RowsOf(r.model) : row.from <= r.started}
      BY <2>2, <3>4 DEF Written, RowsOf
    <3> QED
      BY <1>2, <1>4, <3>5 DEF SameCharge, SaveModel
  <2> QED
    BY <1>4, <2>1, <2>2 DEF SaveModel, priceVars
<1>5. ASSUME NEW m, DeleteModel(m)
      PROVE  r \in runs' /\ SameCharge(r)
  <2>1. r.model # m
    BY <1>5 DEF DeleteModel
  <2>2. RowsOf(r.model)' = RowsOf(r.model)
    BY <1>5, <2>1 DEF DeleteModel, RowsOf
  <2> QED
    BY <1>2, <1>5, <2>2 DEF DeleteModel, SameCharge
<1>6. ASSUME NEW a, NEW m,
             OpenForm(a, m) \/ SubmitForm(a) \/ ToggleActive(m) \/ StartRun(m, Null, 0)
      PROVE  r \in runs' /\ SameCharge(r)
  BY <1>3, <1>6 DEF OpenForm, SubmitForm, ToggleActive, StartRun, priceVars
<1>7. ASSUME NEW q \in runs, EndRun(q)
      PROVE  r \in runs' /\ SameCharge(r)
  <2>1. q # r /\ prices' = prices
    BY <1>7 DEF EndRun, priceVars
  <2>2. r \in runs'
    BY <1>7, <2>1 DEF EndRun, Ends
  <2> QED
    BY <1>3, <2>1, <2>2
<1> QED
  BY <1>4, <1>5, <1>6, <1>7 DEF SpendingNext, Administration

\* What a finished run cost stays: whoever saves, toggles or deletes what in which order, only
\* is_free, or a transaction that began before the run, ever changes it.
THEOREM PastCostsAreKept == SpendingSpec => PastCostsStay
<1>1. SpendingInv /\ SpendingInv' /\ [SpendingNext]_spendingVars => [CostsAreKept]_spendingVars
  BY PastCostsStep DEF Repriced, CostsAreKept
<1> QED
  BY <1>1, SpendingIsOrdered, PTL DEF SpendingSpec, PastCostsStay

-----------------------------------------------------------------------------
(* The dashboards: every run is shown once *)

\* Counts of parts that share nothing add up to the count of the whole.
LEMMA PartsAddUp ==
  ASSUME NEW K, IsFiniteSet(K), NEW part, NEW f, f = [k \in K |-> f[k]],
         \A k \in K : IsFiniteSet(part[k]) /\ f[k] = Cardinality(part[k]),
         \A k, l \in K : k # l => part[k] \cap part[l] = {}
  PROVE  SumFunction(f) = Cardinality(UNION {part[k] : k \in K})
<1> DEFINE First(s) == CHOOSE x \in s : TRUE
           All(s) == UNION {part[k] : k \in s}
           Sums(h) == h = [s \in SUBSET K |->
                             IF s = {} THEN 0 ELSE f[First(s)] + h[s \ {First(s)}]]
<1>1. ASSUME NEW s \in SUBSET K
      PROVE  IsFiniteSet(s) /\ IsFiniteSet(All(s))
  <2>1. IsFiniteSet(s)
    BY FS_Subset
  <2> DEFINE parts == {part[k] : k \in s}
             g == [k \in s |-> part[k]]
  <2>2. g \in Surjection(s, parts)
    BY DEF Surjection
  <2> HIDE DEF g
  <2>3. IsFiniteSet(parts)
    BY <2>1, <2>2, FS_Surjection
  <2>4. \A p \in parts : IsFiniteSet(p)
    OBVIOUS
  <2> HIDE DEF parts
  <2>5. IsFiniteSet(UNION parts)
    BY <2>3, <2>4, FS_UNION
  <2> QED
    BY <2>1, <2>5 DEF parts
<1>2. ASSUME NEW s \in SUBSET K, s # {}
      PROVE  /\ First(s) \in s
             /\ Cardinality(All(s)) = f[First(s)] + Cardinality(All(s \ {First(s)}))
  <2> DEFINE c == First(s)
             rest == s \ {c}
  <2>1. c \in s
    BY <1>2
  <2> HIDE DEF c
  <2>2. All(s) = part[c] \cup All(rest) /\ part[c] \cap All(rest) = {}
    BY <2>1
  <2>3. IsFiniteSet(part[c]) /\ IsFiniteSet(All(rest)) /\ f[c] = Cardinality(part[c])
    BY <1>1, <2>1
  <2> DEFINE one == part[c]
             others == All(rest)
  <2> HIDE DEF All, rest, one, others
  <2>4. /\ IsFiniteSet(one) /\ IsFiniteSet(others) /\ All(s) = one \cup others
        /\ one \cap others = {}
    BY <2>2, <2>3 DEF one, others
  <2>5. Cardinality(one) \in Nat /\ Cardinality(others) \in Nat /\ Cardinality({}) = 0
    BY <2>4, FS_CardinalityType, FS_EmptySet
  <2>6. Cardinality(one \cup others)
          = Cardinality(one) + Cardinality(others) - Cardinality(one \cap others)
    BY <2>4, FS_Union
  <2>7. Cardinality(All(s)) = Cardinality(one) + Cardinality(others)
    <3>1. Cardinality(one \cap others) = 0
      BY <2>4, <2>5
    <3>2. Cardinality(All(s)) = Cardinality(one \cup others)
      BY <2>4, Zenon
    <3> DEFINE n == Cardinality(one)
               m == Cardinality(others)
               both == Cardinality(one \cup others)
               shared == Cardinality(one \cap others)
    <3>3. n \in Nat /\ m \in Nat /\ both = n + m - shared /\ shared = 0
      BY <2>5, <2>6, <3>1, Zenon
    <3> HIDE DEF n, m, both, shared
    <3>4. both = n + m
      BY <3>3
    <3> QED
      BY <3>2, <3>4, Zenon DEF n, m, both
  <2> QED
    BY <2>1, <2>3, <2>7 DEF c, rest, one, others
<1>3. \E h : Sums(h)
  <2> DEFINE h == [s \in SUBSET K |-> Cardinality(All(s))]
  <2>1. Cardinality(All({})) = 0
    BY FS_EmptySet
  <2>2. ASSUME NEW s \in SUBSET K
        PROVE  h[s] = IF s = {} THEN 0 ELSE f[First(s)] + h[s \ {First(s)}]
    <3>1. h[s] = Cardinality(All(s)) /\ h[s \ {First(s)}] = Cardinality(All(s \ {First(s)}))
      OBVIOUS
    <3> HIDE DEF h, All, First
    <3> QED
      BY <1>2, <2>1, <3>1
  <2>3. h = [s \in SUBSET K |-> h[s]]
    OBVIOUS
  <2> HIDE DEF h, First
  <2>4. Sums(h)
    BY <2>2, <2>3
  <2> QED
    BY <2>4
<1> DEFINE iter == CHOOSE h : Sums(h)
<1>4. Sums(iter)
  BY <1>3
<1>5. SumFunction(f) = iter[K]
  BY DEF SumFunction, SumFunctionOnSet, FoldFunctionOnSet, MapThenFoldSet
<1> HIDE DEF iter, All
<1>6. ASSUME NEW s \in SUBSET K
      PROVE  iter[s] = IF s = {} THEN 0 ELSE f[First(s)] + iter[s \ {First(s)}]
  BY <1>4
<1> HIDE DEF Sums, First
<1>7. \A s \in SUBSET K : iter[s] = Cardinality(All(s))
  <2> DEFINE wrong == {s \in SUBSET K : iter[s] # Cardinality(All(s))}
             sizes == {Cardinality(s) : s \in wrong}
  <2>1. SUFFICES ASSUME wrong # {} PROVE FALSE
    OBVIOUS
  <2>2. sizes \subseteq Nat /\ sizes # {}
    BY <1>1, <2>1, FS_CardinalityType
  <2> HIDE DEF wrong
  <2>3. Min(sizes) \in sizes /\ \A n \in sizes : Min(sizes) <= n
    BY <2>2, MinIsLeast
  <2>4. PICK s \in wrong : Min(sizes) = Cardinality(s)
    BY <2>3
  <2>5. \A t \in wrong : Cardinality(s) <= Cardinality(t)
    BY <2>3, <2>4
  <2> USE DEF wrong
  <2>6. Cardinality(All({})) = 0
    BY FS_EmptySet DEF All
  <2>7. s # {}
    BY <1>6, <2>6
  <2> DEFINE rest == s \ {First(s)}
  <2>8. First(s) \in s /\ IsFiniteSet(s)
    BY <1>1, <1>2, <2>7
  <2>9. Cardinality(rest) = Cardinality(s) - 1 /\ Cardinality(s) \in Nat
    BY <2>8, FS_RemoveElement, FS_CardinalityType
  <2>10. rest \notin wrong
    BY <2>5, <2>9
  <2>11. iter[rest] = Cardinality(All(rest))
    BY <2>10
  <2> QED
    BY <1>2, <1>6, <2>7, <2>11
<1> QED
  BY <1>5, <1>7 DEF All

\* What is made of finitely many finite parts is finite.
LEMMA UnionIsFinite ==
  ASSUME NEW K, IsFiniteSet(K), NEW part, \A k \in K : IsFiniteSet(part[k])
  PROVE  IsFiniteSet(UNION {part[k] : k \in K})
<1> DEFINE parts == {part[k] : k \in K}
           g == [k \in K |-> part[k]]
<1>1. g \in Surjection(K, parts)
  BY DEF Surjection
<1> HIDE DEF g
<1>2. IsFiniteSet(parts)
  BY <1>1, FS_Surjection
<1>3. \A p \in parts : IsFiniteSet(p)
  OBVIOUS
<1> HIDE DEF parts
<1>4. IsFiniteSet(UNION parts)
  BY <1>2, <1>3, FS_UNION
<1> QED
  BY <1>4 DEF parts

-----------------------------------------------------------------------------
(* The axis of a chart *)

LEMMA DivisionIsExact ==
  ASSUME NEW t \in Int, NEW d \in Nat \ {0}
  PROVE  t \div d \in Int /\ d * (t \div d) <= t /\ t < d * (t \div d) + d
OBVIOUS

LEMMA ProductsAreOrdered ==
  ASSUME NEW d \in Nat, NEW m \in Int, NEW n \in Int, m <= n
  PROVE  d * m <= d * n
OBVIOUS

LEMMA QuotientsAreOrdered ==
  ASSUME NEW t \in Int, NEW u \in Int, t <= u, NEW d \in Nat \ {0}
  PROVE  t \div d <= u \div d
<1> DEFINE q == t \div d
           p == u \div d
<1>1. q \in Int /\ p \in Int /\ d * q <= t /\ u < d * p + d
  BY DivisionIsExact
<1> HIDE DEF q, p
<1>2. ASSUME ~(q <= p) PROVE FALSE
  <2>1. p + 1 <= q
    BY <1>1, <1>2
  <2>2. d * (p + 1) <= d * q
    BY <1>1, <2>1, ProductsAreOrdered
  <2>3. d * (p + 1) = d * p + d
    BY <1>1
  <2> DEFINE a == d * p
             b == d * q
  <2>4. a \in Int /\ b \in Int /\ a + d <= b /\ b <= t /\ u < a + d
    BY <1>1, <2>2, <2>3
  <2> HIDE DEF a, b
  <2> QED
    BY <2>4
<1> QED
  BY <1>2 DEF q, p

Units == {"day", "week", "month", "quarter"}

LEMMA TicksArePositive ==
  ASSUME NEW unit \in Units
  PROVE  Time!Ticks(unit) \in Nat \ {0}
BY DayAssumption DEF Units, Time!Ticks

\* A later time is of the same bucket or a later one.
LEMMA BucketsAreOrdered ==
  ASSUME NEW unit \in Units, NEW t \in Int, NEW u \in Int, t <= u
  PROVE  /\ Time!Bucket(t, unit) \in Int /\ Time!Bucket(u, unit) \in Int
         /\ Time!Bucket(t, unit) <= Time!Bucket(u, unit)
BY TicksArePositive, DivisionIsExact, QuotientsAreOrdered DEF Time!Bucket

\* The bucket of a time has begun.
LEMMA BucketHasBegun ==
  ASSUME NEW unit \in Units, NEW t \in Int
  PROVE  /\ Time!Bucket(t, unit) * Time!Ticks(unit) \in Int
         /\ Time!Bucket(t, unit) * Time!Ticks(unit) <= t
<1> DEFINE d == Time!Ticks(unit)
           q == Time!Bucket(t, unit)
<1>1. d \in Nat \ {0}
  BY TicksArePositive
<1>2. q = t \div d
  BY DEF Time!Bucket
<1> HIDE DEF d, q
<1>3. q \in Int /\ d * q <= t
  BY <1>1, <1>2, DivisionIsExact
<1>4. q * d \in Int /\ q * d <= t
  BY <1>1, <1>3
<1> QED
  BY <1>4 DEF d, q

\* A finite set of naturals that is not empty has a least and a greatest element.
LEMMA TimesAreBetween ==
  ASSUME NEW S, S \subseteq Nat, S # {}, NEW b \in Nat, \A n \in S : n <= b
  PROVE  \E least, most \in S : /\ Time!Min(S) = least /\ Time!Max(S) = most
                                /\ \A n \in S : least <= n /\ n <= most
<1>1. Min(S) \in S /\ \A n \in S : Min(S) <= n
  BY MinIsLeast
<1>2. Time!Min(S) \in S /\ \A n \in S : Time!Min(S) <= n
  BY <1>1 DEF Time!Min
<1> DEFINE D == {b - n : n \in S}
<1>3. D \subseteq Nat /\ D # {}
  <2>1. \A n \in S : b - n \in Nat /\ b - n \in D
    OBVIOUS
  <2> QED
    BY <2>1
<1>4. Min(D) \in D /\ \A d \in D : Min(D) <= d
  BY <1>3, MinIsLeast
<1>5. PICK m \in S : Min(D) = b - m
  BY <1>4
<1>6. \A n \in S : b - m <= b - n
  BY <1>4, <1>5
<1>7. \A n \in S : m >= n
  BY <1>6
<1>8. Time!Max(S) \in S /\ \A n \in S : Time!Max(S) >= n
  BY <1>7 DEF Time!Max
<1> QED
  BY <1>2, <1>8

\* The two ends of a window are numbers, in their order, or both of them are open.
LEMMA WindowOfRange ==
  ASSUME now \in Nat, NEW range \in Time!DashboardRange,
         NEW bounds, bounds = Time!RangeBounds(range, now)
  PROVE  \/ bounds = <<Null, Null>>
         \/ \E from \in Int : from <= now /\ bounds = <<from, now>>
<1>1. CASE range = "all"
  <2>1. bounds = <<Null, Null>>
    BY <1>1 DEF Time!RangeBounds, Time!DayRange
  <2> QED
    BY <2>1
<1>2. CASE range = "quarter"
  <2> DEFINE from == Time!Bucket(now, "quarter") * Time!Ticks("quarter")
  <2>1. from \in Int /\ from <= now
    BY BucketHasBegun DEF Units
  <2>2. bounds = <<from, now>>
    BY <1>2 DEF Time!RangeBounds, Time!DayRange
  <2> HIDE DEF from
  <2> QED
    BY <2>1, <2>2
<1>3. CASE range \in Time!DayRange
  <2> DEFINE from == now - Time!Days(range) * Day
  <2>1. from \in Int /\ from <= now
    BY <1>3, DayAssumption DEF Time!DayRange, Time!Days
  <2>2. bounds = <<from, now>>
    BY <1>3 DEF Time!RangeBounds, Time!DayRange
  <2> HIDE DEF from
  <2> QED
    BY <2>1, <2>2
<1> QED
  BY <1>1, <1>2, <1>3 DEF Time!DashboardRange

\* Every run of a window has its bucket on the axis of the window.
LEMMA AxisHolds ==
  ASSUME now \in Nat, NEW range \in Time!DashboardRange, NEW unit \in Units,
         NEW bounds, bounds = Time!RangeBounds(range, now),
         NEW times, times \subseteq Nat, \A t \in times : t <= now /\ Time!Within(t, bounds),
         NEW axis, axis = Time!Axis(times, bounds, unit)
  PROVE  IsFiniteSet(axis) /\ \A t \in times : Time!Bucket(t, unit) \in axis
<1>1. ASSUME NEW from \in Int, NEW to \in Int, axis = Time!Starts(from, to, unit),
             \A t \in times : from <= t /\ t <= to
      PROVE  IsFiniteSet(axis) /\ \A t \in times : Time!Bucket(t, unit) \in axis
  <2>1. axis = Time!Bucket(from, unit)..Time!Bucket(to, unit)
    BY <1>1 DEF Time!Starts
  <2>2. Time!Bucket(from, unit) \in Int /\ Time!Bucket(to, unit) \in Int
    BY BucketsAreOrdered
  <2>3. IsFiniteSet(axis)
    BY <2>1, <2>2, FS_Interval
  <2>4. ASSUME NEW t \in times
        PROVE  /\ Time!Bucket(from, unit) <= Time!Bucket(t, unit)
               /\ Time!Bucket(t, unit) <= Time!Bucket(to, unit)
               /\ Time!Bucket(t, unit) \in Int
    <3>1. t \in Int /\ from <= t /\ t <= to
      BY <1>1
    <3> QED
      BY <3>1, BucketsAreOrdered
  <2> QED
    BY <2>1, <2>2, <2>3, <2>4
<1>2. CASE bounds = <<Null, Null>>
  <2>1. CASE times = {}
    <3>1. axis = {}
      BY <1>2, <2>1 DEF Time!Axis
    <3> QED
      BY <2>1, <3>1, FS_EmptySet
  <2>2. CASE times # {}
    <3>1. PICK least, most \in times :
            /\ Time!Min(times) = least /\ Time!Max(times) = most
            /\ \A n \in times : least <= n /\ n <= most
      BY <2>2, TimesAreBetween
    <3>2. axis = Time!Starts(least, most, unit)
      BY <1>2, <2>2, <3>1 DEF Time!Axis
    <3>3. least \in Int /\ most \in Int
      OBVIOUS
    <3> QED
      BY <1>1, <3>1, <3>2, <3>3
  <2> QED
    BY <2>1, <2>2
<1>3. ASSUME NEW from \in Int, bounds = <<from, now>>
      PROVE  IsFiniteSet(axis) /\ \A t \in times : Time!Bucket(t, unit) \in axis
  <2>1. from # Null /\ now # Null
    BY NullAssumption
  <2>2. axis = Time!Starts(from, now, unit)
    BY <1>3, <2>1 DEF Time!Axis
  <2>3. \A t \in times : from <= t /\ t <= now
    BY <1>3, <2>1 DEF Time!Within
  <2> QED
    BY <1>1, <2>2, <2>3
<1> QED
  BY <1>2, <1>3, WindowOfRange

-----------------------------------------------------------------------------
(* The dashboards over a system at work: the inductive invariant *)

\* No run is of the future, and what it asked is of a prompt there is.
IsShown(r) ==
  /\ r.started <= now
  /\ IsAsk(r.ask) /\ \E p \in prompts : p.id = r.ask.prompt

\* A run is judged once it has answered, and what failed has no payload.
IsCount(value) == value \in Nat \cup {Null}
IsJudged(r) ==
  /\ IsFiniteSet(r.verdicts)
  /\ \A v \in r.verdicts : v.at \in Nat /\ r.started <= v.at /\ IsCount(v.cost)
  /\ r.status = "pending" => r.verdicts = {}
  /\ r.status # "success" => r.usage = Null

ReportsInv ==
  /\ SpendingInv /\ ArePrompts(prompts)
  /\ \A row \in prices : row.price \in Nat
  /\ \A r \in runs : IsShown(r) /\ IsJudged(r)

LEMMA RunsAreShown ==
  ASSUME ReportsInv
  PROVE  /\ now \in Nat /\ IsFiniteSet(runs)
         /\ \A r \in runs : /\ r.started \in Nat /\ r.started <= now
                            /\ IsFiniteSet(DOMAIN r.ask.cites)
<1>1. \A r \in runs : DOMAIN r.ask.cites = 1..Len(r.ask.cites) /\ Len(r.ask.cites) \in Nat
  BY DEF ReportsInv, IsShown, IsAsk
<1>2. \A r \in runs : IsFiniteSet(DOMAIN r.ask.cites)
  <2>1. \A n \in Nat : IsFiniteSet(1..n)
    BY FS_Interval
  <2> QED
    BY <1>1, <2>1
<1> QED
  BY <1>2 DEF ReportsInv, SpendingInv, RunsInv, IsRun, PricesInv, IsShown

LEMMA AskStep ==
  ASSUME ReportsInv, Ask
  PROVE  ReportsInv'
<1>1. PICK ask \in Asks, p \in prompts :
        StartRun(ask.model, [prompt |-> p.id, by |-> ask.by, trigger |-> ask.trigger,
                             cites |-> ask.cites], ask.wait)
  BY DEF Ask
<1> DEFINE new == [id |-> Cardinality(runs) + 1, model |-> ask.model, started |-> now + ask.wait,
      status |-> "pending", api |-> models[ask.model].provider, usage |-> Null, verdicts |-> {},
      ask |-> [prompt |-> p.id, by |-> ask.by, trigger |-> ask.trigger, cites |-> ask.cites]]
<1>2. /\ runs' = runs \cup {new} /\ now' = now + ask.wait + 1
      /\ prices' = prices /\ prompts' = prompts
  BY <1>1 DEF StartRun, Ask, priceVars
<1>3. ask.wait \in Nat /\ IsAsk(ask)
  BY AsksAssumption
<1>4. SpendingInv'
  BY <1>1, <1>3, StartRunStep DEF ReportsInv
<1>5. now \in Nat /\ \A r \in runs : r.started \in Nat /\ IsShown(r)
  BY RunsAreShown DEF ReportsInv
<1>6. now + ask.wait <= now' /\ \A t \in Nat : t <= now => t <= now'
  BY <1>2, <1>3, <1>5
<1>7. new.started = now + ask.wait /\ new.ask.prompt = p.id /\ IsAsk(new.ask)
  BY <1>3 DEF IsAsk
<1>8. IsJudged(new)
  BY FS_EmptySet DEF IsJudged
<1> HIDE DEF new
<1>9. \A r \in runs' : IsShown(r)' /\ IsJudged(r)
  BY <1>2, <1>5, <1>6, <1>7, <1>8 DEF IsShown, ReportsInv
<1> QED
  BY <1>2, <1>4, <1>9 DEF ReportsInv, IsJudged

LEMMA EndStep ==
  ASSUME ReportsInv, NEW r \in runs, End(r)
  PROVE  ReportsInv'
<1>1. SpendingInv'
  BY EndRunStep DEF ReportsInv, End
<1>2. PICK status, usage : /\ Ends(r, status, usage) /\ status # "pending"
                           /\ status # "success" => usage = Null
  BY DEF End, EndRun
<1> DEFINE ended == [r EXCEPT !.status = status]
           new == [ended EXCEPT !.usage = usage]
<1>3. IsRun(r) /\ IsShown(r) /\ IsJudged(r)
  BY DEF ReportsInv, SpendingInv, RunsInv
<1>4. ended = [id |-> r.id, model |-> r.model, started |-> r.started, status |-> status,
               api |-> r.api, usage |-> r.usage, verdicts |-> r.verdicts, ask |-> r.ask]
  BY <1>3 DEF IsRun
<1>5. /\ runs' = (runs \ {r}) \cup {new} /\ now' = now
      /\ prices' = prices /\ prompts' = prompts
  <2>1. runs' = (runs \ {r}) \cup {new}
    BY <1>2 DEF Ends
  <2>2. now' = now /\ prices' = prices /\ prompts' = prompts
    BY DEF End, EndRun, priceVars
  <2> QED
    BY <2>1, <2>2
<1>6. new.started = r.started /\ new.ask = r.ask
  BY <1>4
<1>7. IsJudged(new)
  <2>1. /\ new.verdicts = r.verdicts /\ new.started = r.started
        /\ new.status = status /\ new.usage = usage
    BY <1>4
  <2> HIDE DEF new
  <2> QED
    BY <1>2, <1>3, <2>1 DEF IsJudged
<1> HIDE DEF new
<1>8. \A q \in runs' : IsShown(q)' /\ IsJudged(q)
  BY <1>3, <1>5, <1>6, <1>7 DEF IsShown, ReportsInv
<1> QED
  BY <1>1, <1>5, <1>8 DEF ReportsInv, IsJudged

LEMMA JudgeStep ==
  ASSUME ReportsInv, NEW r \in runs, Judge(r)
  PROVE  ReportsInv'
<1>1. PICK judged \in Judgements :
        LET mine == DOMAIN judged \cap DOMAIN r.ask.cites IN
        runs' = (runs \ {r}) \cup {[r EXCEPT !.verdicts = @ \cup
          {[cite |-> i, at |-> now, verdict |-> judged[i].verdict, cost |-> judged[i].cost] :
             i \in mine}]}
  BY DEF Judge
<1> DEFINE mine == DOMAIN judged \cap DOMAIN r.ask.cites
           verdict == [i \in mine |-> [cite |-> i, at |-> now, verdict |-> judged[i].verdict,
                                       cost |-> judged[i].cost]]
           added == {verdict[i] : i \in mine}
           verdicts == r.verdicts \cup added
<1>2. /\ now' = now + 1 /\ models' = models /\ prices' = prices
      /\ page' = page /\ saving' = saving /\ prompts' = prompts
  BY DEF Judge, priceVars, formVars
<1> DEFINE new == [r EXCEPT !.verdicts = verdicts]
<1>3. /\ IsRun(r) /\ IsShown(r) /\ IsJudged(r)
      /\ r.model \in DOMAIN models /\ r.id \in 1..Cardinality(runs)
  BY DEF ReportsInv, SpendingInv, RunsInv
<1>4. new = [id |-> r.id, model |-> r.model, started |-> r.started, status |-> r.status,
             api |-> r.api, usage |-> r.usage, verdicts |-> verdicts, ask |-> r.ask]
  <2> HIDE DEF verdicts
  <2> QED
    BY <1>3 DEF IsRun
<1>5. runs' = (runs \ {r}) \cup {new}
  <2>1. added = {[cite |-> i, at |-> now, verdict |-> judged[i].verdict,
                  cost |-> judged[i].cost] : i \in mine}
    OBVIOUS
  <2> HIDE DEF added
  <2> QED
    BY <1>1, <2>1
<1>6. IsRun(new) /\ new.id = r.id /\ new.model = r.model
  BY <1>3, <1>4 DEF IsRun
<1>7. new.started = r.started /\ new.ask = r.ask
  BY <1>4
<1>8. IsJudged(new)
  <2>1. now \in Nat /\ r.started <= now /\ IsFiniteSet(DOMAIN r.ask.cites)
    BY RunsAreShown
  <2>2. ASSUME NEW v \in added
        PROVE  v.at = now /\ IsCount(v.cost)
    <3>1. PICK i \in mine : v = verdict[i]
      OBVIOUS
    <3>2. v = [cite |-> i, at |-> now, verdict |-> judged[i].verdict, cost |-> judged[i].cost]
      BY <3>1
    <3>3. judged[i].cost \in Nat \cup {Null}
      BY JudgementsAssumption
    <3> QED
      BY <3>2, <3>3 DEF IsCount
  <2>3. IsFiniteSet(added)
    <3>1. verdict \in Surjection(mine, added)
      BY DEF Surjection
    <3>2. IsFiniteSet(mine)
      BY <2>1, FS_Subset
    <3> HIDE DEF verdict, added, mine
    <3> QED
      BY <3>1, <3>2, FS_Surjection
  <2>4. /\ new.verdicts = verdicts /\ new.started = r.started
        /\ new.status = r.status /\ new.usage = r.usage /\ r.status = "success"
    BY <1>4 DEF Judge
  <2> HIDE DEF added, new
  <2>5. IsFiniteSet(verdicts)
    BY <1>3, <2>3, FS_Union DEF IsJudged
  <2>6. \A v \in verdicts : v.at \in Nat /\ r.started <= v.at /\ IsCount(v.cost)
    BY <1>3, <2>1, <2>2 DEF IsJudged
  <2> HIDE DEF verdicts
  <2> QED
    BY <2>4, <2>5, <2>6 DEF IsJudged
<1> HIDE DEF new, verdicts
<1>9. RunsInv /\ PricesInv /\ IsModels(models) /\ FormsInv
  BY DEF ReportsInv, SpendingInv
<1>10. IsModels(models)' /\ FormsInv'
  BY <1>2, <1>9 DEF IsModels, FormsInv
<1>11. PricesInv'
  <2>1. now' \in Nat /\ now' > 1 /\ now < now' /\ now \in Nat
    BY <1>2, <1>9 DEF PricesInv
  <2>2. \A k \in 1..now-1 : k \in 1..now'-1
    BY <2>1, EarlierStays
  <2> QED
    BY <1>2, <1>9, <2>1, <2>2 DEF PricesInv
<1>12. RunsInv'
  <2>1. IsFiniteSet(runs') /\ Cardinality(runs') = Cardinality(runs)
    BY <1>5, <1>6, <1>9, RunChanged
  <2>2. \A q \in runs' : IsRun(q) /\ q.model \in DOMAIN models /\ q.id \in 1..Cardinality(runs)
    BY <1>3, <1>5, <1>6, <1>9 DEF RunsInv
  <2>3. \A p, q \in runs' : p.id = q.id => p = q
    BY <1>5, <1>6, <1>9 DEF RunsInv
  <2> QED
    BY <1>2, <2>1, <2>2, <2>3 DEF RunsInv
<1>13. \A q \in runs' : IsShown(q)' /\ IsJudged(q)
  <2>1. now \in Nat /\ \A q \in runs : q.started \in Nat /\ IsShown(q) /\ IsJudged(q)
    BY RunsAreShown DEF ReportsInv
  <2>2. \A t \in Nat : t <= now => t <= now'
    BY <1>2, <2>1
  <2> QED
    BY <1>2, <1>5, <1>7, <1>8, <2>1, <2>2 DEF IsShown
<1> QED
  BY <1>2, <1>10, <1>11, <1>12, <1>13 DEF ReportsInv, SpendingInv, IsJudged

LEMMA RowChanged ==
  ASSUME NEW p, NEW flag,
         p = [id |-> p.id, set |-> p.set, root |-> p.root, current |-> p.current]
  PROVE  [p EXCEPT !.current = flag]
           = [id |-> p.id, set |-> p.set, root |-> p.root, current |-> flag]
OBVIOUS

LEMMA EditPromptStep ==
  ASSUME ReportsInv, NEW p \in prompts, EditPrompt(p)
  PROVE  ReportsInv'
<1> DEFINE old == [p EXCEPT !.current = FALSE]
           new == [id |-> Cardinality(prompts) + 1, set |-> p.set, root |-> RootOf(p),
                   current |-> TRUE]
           others == prompts \ {p}
           IsRow(q) == q = [id |-> q.id, set |-> q.set, root |-> q.root, current |-> q.current]
           n == Cardinality(prompts)
<1>1. /\ now' = now /\ models' = models /\ prices' = prices /\ page' = page /\ saving' = saving
      /\ runs' = runs
  BY DEF EditPrompt, priceVars, formVars
<1>2. prompts' = others \cup {old, new}
  BY DEF EditPrompt
<1>3. IsFiniteSet(prompts) /\ n \in Nat
  BY FS_CardinalityType DEF ReportsInv, ArePrompts
<1>4. \A q \in prompts : IsRow(q) /\ q.id \in 1..n /\ q.set \in Sets
  BY DEF ReportsInv, ArePrompts
<1>5. \A q \in prompts : \E u \in prompts : u.id = RootOf(q) /\ RootOf(u) = u.id /\ u.set = q.set
  BY DEF ReportsInv, ArePrompts
<1>6. \A q \in prompts : \E u \in prompts : RootOf(u) = RootOf(q) /\ u.current
  BY DEF ReportsInv, ArePrompts
<1>7. \A q, u \in prompts : q.id = u.id => q = u
  BY DEF ReportsInv, ArePrompts
<1> HIDE DEF n
<1>8. IsRow(old) /\ old.id = p.id /\ old.set = p.set /\ RootOf(old) = RootOf(p)
  <2>1. old = [id |-> p.id, set |-> p.set, root |-> p.root, current |-> FALSE]
    <3>1. p = [id |-> p.id, set |-> p.set, root |-> p.root, current |-> p.current]
      BY <1>4
    <3> QED
      BY <3>1, RowChanged, Zenon
  <2> HIDE DEF old
  <2> QED
    BY <2>1 DEF RootOf
<1>9. RootOf(p) \in Nat /\ RootOf(new) = RootOf(p)
  <2>1. RootOf(p) \in Nat
    BY <1>3, <1>4, <1>5
  <2>2. RootOf(p) # Null
    BY <2>1, NullAssumption
  <2> QED
    BY <2>1, <2>2 DEF RootOf
<1>10. IsRow(new) /\ new.id = n + 1 /\ new.set = p.set /\ new.current
  BY DEF n
<1> HIDE DEF old, new, IsRow
<1>11. \A q \in prompts : q.id # new.id
  BY <1>3, <1>4, <1>10
<1>12. old.id # new.id
  BY <1>8, <1>11
<1>13. IsFiniteSet(prompts') /\ Cardinality(prompts') = n + 1
  <2>1. IsFiniteSet(others) /\ Cardinality(others) = n - 1
    BY <1>3, FS_RemoveElement DEF n
  <2>2. old \notin others
    BY <1>7, <1>8
  <2> DEFINE more == others \cup {old}
  <2>3. IsFiniteSet(more) /\ Cardinality(more) = Cardinality(others) + 1
    BY <2>1, <2>2, FS_AddElement
  <2>4. new \notin more
    BY <1>11, <1>12
  <2>5. prompts' = more \cup {new}
    BY <1>2
  <2> HIDE DEF others, more
  <2>6. IsFiniteSet(more \cup {new}) /\ Cardinality(more \cup {new}) = Cardinality(more) + 1
    BY <2>3, <2>4, FS_AddElement
  <2> QED
    BY <1>3, <2>1, <2>3, <2>5, <2>6
<1>14. \A q \in prompts : \E u \in prompts' :
         u.id = q.id /\ RootOf(u) = RootOf(q) /\ u.set = q.set
  BY <1>2, <1>8
<1>15. ASSUME NEW q \in prompts
       PROVE  \E u \in prompts' : u.id = RootOf(q) /\ RootOf(u) = u.id /\ u.set = q.set
  <2>1. PICK t \in prompts : t.id = RootOf(q) /\ RootOf(t) = t.id /\ t.set = q.set
    BY <1>5
  <2> QED
    BY <1>14, <2>1
<1>16. ASSUME NEW q \in prompts
       PROVE  \E u \in prompts' : RootOf(u) = RootOf(q) /\ u.current
  <2>1. PICK t \in prompts : RootOf(t) = RootOf(q) /\ t.current
    BY <1>6
  <2>2. CASE t = p
    BY <1>2, <1>9, <1>10, <2>1, <2>2
  <2>3. CASE t # p
    BY <1>2, <2>1, <2>3
  <2> QED
    BY <2>2, <2>3
<1>17. ASSUME NEW q \in prompts'
       PROVE  \E t \in prompts : RootOf(q) = RootOf(t) /\ q.set = t.set
  BY <1>2, <1>8, <1>9, <1>10
<1>18. ASSUME NEW q \in prompts'
       PROVE  /\ IsRow(q) /\ q.id \in 1..n + 1 /\ q.set \in Sets
              /\ \E u \in prompts' : u.id = RootOf(q) /\ RootOf(u) = u.id /\ u.set = q.set
              /\ \E u \in prompts' : RootOf(u) = RootOf(q) /\ u.current
  <2>1. IsRow(q)
    BY <1>2, <1>4, <1>8, <1>10, <1>18
  <2>2. /\ \A k \in 1..n : k \in 1..n + 1
        /\ n + 1 \in 1..n + 1
    BY <1>3
  <2>3. q.id \in 1..n + 1
    BY <1>2, <1>4, <1>8, <1>10, <1>18, <2>2
  <2>4. PICK t \in prompts : RootOf(q) = RootOf(t) /\ q.set = t.set
    BY <1>17
  <2>5. q.set \in Sets
    BY <1>4, <2>4
  <2>6. \E u \in prompts' : u.id = RootOf(q) /\ RootOf(u) = u.id /\ u.set = q.set
    BY <1>15, <2>4
  <2>7. \E u \in prompts' : RootOf(u) = RootOf(q) /\ u.current
    BY <1>16, <2>4
  <2> QED
    BY <2>1, <2>3, <2>5, <2>6, <2>7
<1>19. \A q, u \in prompts' : q.id = u.id => q = u
  BY <1>2, <1>7, <1>8, <1>11, <1>12
<1>20. ArePrompts(prompts')
  BY <1>13, <1>18, <1>19 DEF ArePrompts, IsRow
<1>21. SpendingInv'
  BY <1>1 DEF ReportsInv, SpendingInv, IsModels, FormsInv, RunsInv, PricesInv
<1>22. \A r \in runs' : IsShown(r)'
  BY <1>1, <1>14 DEF ReportsInv, IsShown
<1> QED
  BY <1>1, <1>20, <1>21, <1>22 DEF ReportsInv

LEMMA ReportsInvInit == Init => ReportsInv
<1> SUFFICES ASSUME Init PROVE ReportsInv
  OBVIOUS
<1>1. SpendingInv /\ runs = {}
  BY SpendingInvInit DEF Init, SpendingInit
<1>2. ArePrompts(prompts)
  BY FirstPromptsAssumption DEF Init
<1>3. \A row \in prices : row.price \in Nat
  <2>1. \A m, c : FirstPrice(m, c).price \in Nat
    BY DEF FirstPrice
  <2> QED
    BY <2>1 DEF Init, SpendingInit
<1> QED
  BY <1>1, <1>2, <1>3 DEF ReportsInv

LEMMA ReportsInvStep == ReportsInv /\ [Next]_vars => ReportsInv'
<1> SUFFICES ASSUME ReportsInv, [Next]_vars PROVE ReportsInv'
  OBVIOUS
<1>1. ASSUME now' = now, models' = models, prices' = prices, page' = page, saving' = saving,
             runs' = runs, prompts' = prompts
      PROVE  ReportsInv'
  BY <1>1 DEF ReportsInv, IsShown, SpendingInv, IsModels, FormsInv, RunsInv, PricesInv
<1>2. CASE UNCHANGED vars
  BY <1>1, <1>2 DEF vars, spendingVars
<1>3. CASE Next
  <2>1. ASSUME NEW c, FlagClient(c) PROVE ReportsInv'
    BY <1>1, <2>1 DEF FlagClient, priceVars, formVars
  <2> QED
    BY <1>3, <2>1, EditPromptStep, AskStep, EndStep, JudgeStep DEF Next
<1> QED
  BY <1>2, <1>3

-----------------------------------------------------------------------------
(* EveryRunIsShownOnce *)

\* The citations of finitely many runs are finitely many, and no two runs share one.
LEMMA CitationsAreFinite ==
  ASSUME ReportsInv, NEW rs \in SUBSET runs
  PROVE  IsFiniteSet(rs) /\ IsFiniteSet(CitationsOf(rs))
<1>1. IsFiniteSet(rs)
  BY RunsAreShown, FS_Subset
<1> DEFINE part == [r \in rs |-> {<<r, i>> : i \in DOMAIN r.ask.cites}]
<1>2. ASSUME NEW r \in rs PROVE IsFiniteSet(part[r])
  <2> DEFINE positions == DOMAIN r.ask.cites
             mine == {<<r, i>> : i \in positions}
             g == [i \in positions |-> <<r, i>>]
  <2>1. g \in Surjection(positions, mine)
    BY DEF Surjection
  <2>2. IsFiniteSet(positions)
    BY RunsAreShown
  <2>3. part[r] = mine
    OBVIOUS
  <2> HIDE DEF g, positions, mine, part
  <2>4. IsFiniteSet(mine)
    BY <2>1, <2>2, FS_Surjection
  <2> QED
    BY <2>3, <2>4
<1>3. CitationsOf(rs) = UNION {part[r] : r \in rs}
  BY DEF CitationsOf
<1> HIDE DEF part
<1>4. IsFiniteSet(UNION {part[r] : r \in rs})
  BY <1>1, <1>2, UnionIsFinite
<1> QED
  BY <1>1, <1>3, <1>4

\* The runs of a window, by the bucket they started in.
LEMMA RunsFallIntoBuckets ==
  ASSUME ReportsInv, NEW range \in Time!DashboardRange, NEW unit \in Units,
         NEW bounds, bounds = Time!RangeBounds(range, now),
         NEW rs \in SUBSET runs, \A r \in rs : Time!Within(r.started, bounds),
         NEW axis, axis = Time!Axis({r.started : r \in rs}, bounds, unit)
  PROVE  IsFiniteSet(axis) /\ \A r \in rs : Time!Bucket(r.started, unit) \in axis
<1> DEFINE times == {r.started : r \in rs}
<1>1. now \in Nat /\ times \subseteq Nat /\ \A t \in times : t <= now /\ Time!Within(t, bounds)
  BY RunsAreShown
<1>2. \A r \in rs : r.started \in times
  OBVIOUS
<1>3. axis = Time!Axis(times, bounds, unit)
  OBVIOUS
<1> HIDE DEF times
<1>4. IsFiniteSet(axis) /\ \A t \in times : Time!Bucket(t, unit) \in axis
  BY <1>1, <1>3, AxisHolds
<1> QED
  BY <1>2, <1>4

\* The chart of the ops dashboard.
LEMMA EveryRunHasABar ==
  ASSUME ReportsInv, NEW range \in Ranges
  PROVE  LET points == Daily(Everything(range, FALSE))
             Bar(b) == points[b][1] + points[b][2]
         IN Total(Bar, DOMAIN points) = Cardinality(OpsRuns(Everything(range, FALSE)))
<1> DEFINE scope == Everything(range, FALSE)
           rs == OpsRuns(scope)
           unit == Time!Granularity(range)
           bounds == Time!RangeBounds(range, now)
           axis == Time!Axis({r.started : r \in rs}, bounds, unit)
           points == Daily(scope)
           part == [b \in axis |-> {r \in rs : Time!Bucket(r.started, unit) = b}]
           f == [b \in axis |-> points[b][1] + points[b][2]]
<1>1. range \in Time!DashboardRange /\ unit \in Units
  BY RangesAssumption DEF Time!Granularity, Units
<1>2. scope.range = range
  BY DEF Everything
<1>3. rs \subseteq runs /\ \A r \in rs : Time!Within(r.started, bounds)
  BY <1>2 DEF OpsRuns
<1> HIDE DEF unit, rs, bounds, scope
<1>4. IsFiniteSet(axis) /\ \A r \in rs : Time!Bucket(r.started, unit) \in axis
  BY <1>1, <1>3, RunsFallIntoBuckets DEF bounds
<1> DEFINE values == DailyValues(rs, unit)
<1>5. points = [b \in axis |-> IF b \in DOMAIN values THEN values[b] ELSE <<0, 0>>]
  BY <1>2 DEF Daily, rs, unit, bounds
<1> HIDE DEF axis, points
<1>6. \A b \in axis : IsFiniteSet(part[b]) /\ f[b] = Cardinality(part[b])
  <2> SUFFICES ASSUME NEW b \in axis
               PROVE  IsFiniteSet(part[b]) /\ f[b] = Cardinality(part[b])
    OBVIOUS
  <2> DEFINE here == {r \in rs : Time!Bucket(r.started, unit) = b}
  <2>1. part[b] = here /\ f[b] = points[b][1] + points[b][2]
    OBVIOUS
  <2> HIDE DEF part, f
  <2>2. IsFiniteSet(here) /\ IsFiniteSet(Failed(here))
    BY <1>3, CitationsAreFinite DEF Failed
  <2>3. Cardinality(here) \in Nat /\ Cardinality(Failed(here)) \in Nat
    BY <2>2, FS_CardinalityType
  <2>4. CASE b \in DOMAIN values
    <3>1. values[b] = <<Cardinality(here) - Cardinality(Failed(here)), Cardinality(Failed(here))>>
      BY <2>4 DEF DailyValues, GroupBy
    <3>2. points[b] = values[b]
      BY <1>5, <2>4
    <3> HIDE DEF values, here
    <3>3. points[b][1] + points[b][2] = Cardinality(here)
      BY <2>3, <3>1, <3>2
    <3> QED
      BY <2>1, <2>2, <3>3
  <2>5. CASE b \notin DOMAIN values
    <3>1. here = {}
      BY <2>5 DEF DailyValues, GroupBy
    <3>2. points[b] = <<0, 0>>
      BY <1>5, <2>5
    <3>3. Cardinality(here) = 0
      BY <3>1, FS_EmptySet
    <3> HIDE DEF values, here
    <3> QED
      BY <2>1, <2>2, <3>2, <3>3
  <2> QED
    BY <2>4, <2>5
<1>7. \A b, c \in axis : b # c => part[b] \cap part[c] = {}
  OBVIOUS
<1>8. UNION {part[b] : b \in axis} = rs
  BY <1>4
<1>9. f = [b \in axis |-> f[b]]
  OBVIOUS
<1> HIDE DEF part
<1>10. SumFunction(f) = Cardinality(rs)
  <2> HIDE DEF f
  <2> QED
    BY <1>4, <1>6, <1>7, <1>8, <1>9, PartsAddUp
<1>11. DOMAIN points = axis
  BY <1>5
<1> QED
  BY <1>10, <1>11 DEF Total, points, rs, scope

\* The chart of a client's dashboard.
LEMMA EveryCitationHasABar ==
  ASSUME ReportsInv, NEW c \in Clients, NEW range \in Ranges
  PROVE  LET scoped == Scoped(c, range, Null)
             weeks == Weekly(scoped)
             Bar(w) == CitationTotals(weeks[w])[1]
         IN Total(Bar, DOMAIN weeks) = ClientSummary(scoped).citations
<1> DEFINE scoped == Scoped(c, range, Null)
           rs == scoped.runs
           bounds == Time!RangeBounds(range, now)
           axis == Time!Axis({r.started : r \in rs}, bounds, "week")
           weeks == Weekly(scoped)
           part == [w \in axis |-> CitationsOf(weeks[w])]
           f == [w \in axis |-> CitationTotals(weeks[w])[1]]
<1>1. range \in Time!DashboardRange /\ "week" \in Units
  BY RangesAssumption DEF Units
<1>2. scoped.bounds = bounds /\ rs = ClientScope(c, bounds, Null)
  BY DEF Scoped
<1>3. rs \subseteq runs /\ \A r \in rs : Time!Within(r.started, bounds)
  BY <1>2 DEF ClientScope, ClientRuns
<1> HIDE DEF scoped
<1>4. weeks = [w \in axis |-> {r \in rs : Time!Bucket(r.started, "week") = w}]
  BY <1>2 DEF Weekly
<1> HIDE DEF rs, bounds, weeks
<1>5. IsFiniteSet(axis) /\ \A r \in rs : Time!Bucket(r.started, "week") \in axis
  BY <1>1, <1>3, RunsFallIntoBuckets DEF bounds
<1> HIDE DEF axis
<1>6. \A w \in axis : IsFiniteSet(part[w]) /\ f[w] = Cardinality(part[w])
  <2>1. \A w \in axis : weeks[w] \in SUBSET runs
    BY <1>3, <1>4
  <2> QED
    BY <2>1, CitationsAreFinite DEF CitationTotals
<1>7. \A v, w \in axis : v # w => part[v] \cap part[w] = {}
  BY <1>4 DEF CitationsOf
<1>8. UNION {part[w] : w \in axis} = CitationsOf(rs)
  BY <1>4, <1>5 DEF CitationsOf
<1>9. f = [w \in axis |-> f[w]]
  OBVIOUS
<1>10. SumFunction(f) = Cardinality(CitationsOf(rs))
  <2> HIDE DEF f, part
  <2> QED
    BY <1>5, <1>6, <1>7, <1>8, <1>9, PartsAddUp
<1>11. DOMAIN weeks = axis
  BY <1>4
<1>12. ClientSummary(scoped).citations = Cardinality(CitationsOf(rs))
  BY DEF ClientSummary, CitationTotals, rs
<1> QED
  BY <1>10, <1>11, <1>12 DEF Total, weeks, scoped

\* A window and the one before it.
LEMMA PeriodsDoMeet ==
  ASSUME ReportsInv
  PROVE  PeriodsMeet
<1> SUFFICES ASSUME NEW c \in Clients, NEW range \in Ranges,
                    NEW scoped, scoped = Scoped(c, range, Null), scoped.previous # Null,
                    NEW from, from = scoped.bounds[1]
             PROVE  /\ scoped.runs \cap scoped.previous = {}
                    /\ scoped.runs \cup scoped.previous
                         = ClientScope(c, <<from - (now - from), now>>, Null)
  BY DEF PeriodsMeet
<1> DEFINE bounds == Time!RangeBounds(range, now)
           before == Time!PreviousBounds(bounds)
<1>1. /\ scoped.bounds = bounds /\ scoped.runs = ClientScope(c, bounds, Null)
      /\ before # Null /\ scoped.previous = ClientScope(c, before, Null)
  BY DEF Scoped
<1>2. now \in Nat /\ \A r \in runs : r.started \in Nat /\ r.started <= now
  BY RunsAreShown
<1> HIDE DEF before
<1>3. bounds # <<Null, Null>>
  <2>1. Time!PreviousBounds(<<Null, Null>>) = Null
    BY DEF Time!PreviousBounds
  <2> QED
    BY <1>1, <2>1 DEF before
<1>4. PICK start \in Int : start <= now /\ bounds = <<start, now>>
  BY <1>2, <1>3, RangesAssumption, WindowOfRange
<1>5. start # Null /\ now # Null
  BY <1>2, NullAssumption
<1>6. before = <<start - (now - start), start - 1>>
  BY <1>4, <1>5 DEF Time!PreviousBounds, before
<1>7. start - (now - start) \in Int /\ start - 1 \in Int
  BY <1>2
<1>8. start - (now - start) # Null /\ start - 1 # Null
  BY <1>7, NullAssumption
<1>9. from = start
  BY <1>1, <1>4
<1> HIDE DEF bounds
<1>10. ASSUME NEW t \in Nat, t <= now
       PROVE  /\ Time!Within(t, bounds) <=> t >= start
              /\ Time!Within(t, before) <=> t >= start - (now - start) /\ t <= start - 1
              /\ Time!Within(t, <<start - (now - start), now>>) <=> t >= start - (now - start)
  BY <1>2, <1>4, <1>5, <1>6, <1>8, <1>10 DEF Time!Within
<1>11. ASSUME NEW t \in Nat, t <= now
       PROVE  /\ ~(Time!Within(t, bounds) /\ Time!Within(t, before))
              /\ Time!Within(t, bounds) \/ Time!Within(t, before)
                   <=> Time!Within(t, <<start - (now - start), now>>)
  BY <1>2, <1>4, <1>10, <1>11
<1> QED
  BY <1>1, <1>2, <1>9, <1>11 DEF ClientScope, ClientRuns

LEMMA EveryRunIsShown ==
  ASSUME ReportsInv
  PROVE  EveryRunIsShownOnce
<1>1. ChartsShowEveryRun
  BY EveryRunHasABar, EveryCitationHasABar DEF ChartsShowEveryRun, Total
<1> QED
  BY <1>1, PeriodsDoMeet DEF EveryRunIsShownOnce

\* The dashboards show every run exactly once, whatever is asked, edited and judged
\* meanwhile: the bars of a chart add up to the runs of its window, and the window before
\* it begins where it ends, so that no run is of both or of neither.
THEOREM EveryRunHasItsPlace == Spec => []EveryRunIsShownOnce
<1>1. ReportsInv => EveryRunIsShownOnce
  BY EveryRunIsShown
<1> QED
  BY <1>1, ReportsInvInit, ReportsInvStep, PTL DEF Spec

-----------------------------------------------------------------------------
(* Sums of counts *)

\* One element for each of what is counted: a sum of counts is the number of them.
Upto(value) == IF value = Null THEN {} ELSE 1..value
Counted(values) == UNION {{x} \X Upto(values[x]) : x \in DOMAIN values}

\* SUM() over values that count sets which share nothing counts their union.
LEMMA SumsCountUnions ==
  ASSUME NEW K, IsFiniteSet(K), NEW values, DOMAIN values = K, NEW part,
         \A k \in K : /\ IsFiniteSet(part[k])
                      /\ values[k] = Null => part[k] = {}
                      /\ values[k] # Null => values[k] = Cardinality(part[k]),
         \A k, l \in K : k # l => part[k] \cap part[l] = {}
  PROVE  SumSql(values) = IF \A k \in K : values[k] = Null THEN Null
                          ELSE Cardinality(UNION {part[k] : k \in K})
<1> DEFINE known == {pair \in {<<x, values[x]>> : x \in K} : pair[2] # Null}
           f == [pair \in known |-> pair[2]]
           mine == [pair \in known |-> part[pair[1]]]
<1>1. SumSql(values) = IF known = {} THEN Null ELSE SumFunction(f)
  BY DEF SumSql
<1>2. known = {} <=> \A k \in K : values[k] = Null
  <2>1. \A k \in K : values[k] # Null => <<k, values[k]>> \in known
    OBVIOUS
  <2>2. \A pair \in known : \E k \in K : values[k] # Null
    OBVIOUS
  <2> HIDE DEF known
  <2> QED
    BY <2>1, <2>2
<1>3. IsFiniteSet(known)
  <2> DEFINE all == {<<x, values[x]>> : x \in K}
             g == [x \in K |-> <<x, values[x]>>]
  <2>1. g \in Surjection(K, all)
    BY DEF Surjection
  <2> HIDE DEF g
  <2>2. IsFiniteSet(all)
    BY <2>1, FS_Surjection
  <2>3. known \subseteq all
    OBVIOUS
  <2> HIDE DEF all, known
  <2> QED
    BY <2>2, <2>3, FS_Subset
<1>4. \A pair \in known : pair[1] \in K /\ pair[2] = values[pair[1]] /\ pair[2] # Null
                          /\ pair = <<pair[1], pair[2]>>
  OBVIOUS
<1>5. \A pair \in known : IsFiniteSet(mine[pair]) /\ f[pair] = Cardinality(mine[pair])
  BY <1>4
<1>6. \A one, other \in known : one # other => mine[one] \cap mine[other] = {}
  <2> SUFFICES ASSUME NEW one \in known, NEW other \in known, one # other
               PROVE  mine[one] \cap mine[other] = {}
    OBVIOUS
  <2>1. one[1] # other[1]
    BY <1>4
  <2> QED
    BY <1>4, <2>1
<1>7. f = [pair \in known |-> f[pair]]
  OBVIOUS
<1>8. UNION {mine[pair] : pair \in known} = UNION {part[k] : k \in K}
  <2>1. ASSUME NEW k \in K, values[k] # Null
        PROVE  \E pair \in known : mine[pair] = part[k]
    <3>1. <<k, values[k]>> \in known
      BY <2>1
    <3> QED
      BY <3>1
  <2>2. \A pair \in known : \E k \in K : mine[pair] = part[k]
    BY <1>4
  <2>3. \A k \in K : values[k] = Null => part[k] = {}
    OBVIOUS
  <2> HIDE DEF mine, known
  <2> QED
    BY <2>1, <2>2, <2>3
<1> HIDE DEF known, f, mine
<1>9. SumFunction(f) = Cardinality(UNION {mine[pair] : pair \in known})
  BY <1>3, <1>5, <1>6, <1>7, PartsAddUp
<1> QED
  BY <1>1, <1>2, <1>8, <1>9

LEMMA CountedIsFinite ==
  ASSUME NEW x, NEW value, IsCount(value)
  PROVE  /\ IsFiniteSet({x} \X Upto(value))
         /\ value = Null => {x} \X Upto(value) = {}
         /\ value # Null => value = Cardinality({x} \X Upto(value))
<1>1. CASE value = Null
  <2>1. {x} \X Upto(value) = {}
    BY <1>1 DEF Upto
  <2> QED
    BY <1>1, <2>1, FS_EmptySet
<1>2. CASE value # Null
  <2>1. value \in Nat
    BY <1>2 DEF IsCount
  <2>2. Upto(value) = 1..value
    BY <1>2 DEF Upto
  <2>3. IsFiniteSet(1..value) /\ Cardinality(1..value) = value
    BY <2>1, FS_Interval
  <2>4. IsFiniteSet({x}) /\ Cardinality({x}) = 1
    BY FS_Singleton
  <2>5. /\ IsFiniteSet({x} \X (1..value))
        /\ Cardinality({x} \X (1..value)) = Cardinality({x}) * Cardinality(1..value)
    BY <2>3, <2>4, FS_Product
  <2>6. 1 * value = value
    BY <2>1
  <2> QED
    BY <1>2, <2>2, <2>3, <2>4, <2>5, <2>6
<1> QED
  BY <1>1, <1>2

\* What SUM() makes of counts.
LEMMA SumOfCounts ==
  ASSUME NEW values, IsFiniteSet(DOMAIN values), \A x \in DOMAIN values : IsCount(values[x])
  PROVE  /\ IsFiniteSet(Counted(values))
         /\ SumSql(values) = IF \A x \in DOMAIN values : values[x] = Null THEN Null
                             ELSE Cardinality(Counted(values))
<1> DEFINE K == DOMAIN values
           part == [x \in K |-> {x} \X Upto(values[x])]
<1>1. \A x \in K : /\ IsFiniteSet(part[x])
                   /\ values[x] = Null => part[x] = {}
                   /\ values[x] # Null => values[x] = Cardinality(part[x])
  <2> SUFFICES ASSUME NEW x \in K
               PROVE  /\ IsFiniteSet(part[x])
                      /\ values[x] = Null => part[x] = {}
                      /\ values[x] # Null => values[x] = Cardinality(part[x])
    OBVIOUS
  <2> DEFINE value == values[x]
  <2>1. IsCount(value)
    OBVIOUS
  <2>2. part[x] = {x} \X Upto(value)
    OBVIOUS
  <2> HIDE DEF part, value
  <2>3. /\ IsFiniteSet(part[x]) /\ (value = Null => part[x] = {})
        /\ value # Null => value = Cardinality(part[x])
    BY <2>1, <2>2, CountedIsFinite
  <2> QED
    BY <2>3 DEF value
<1>2. \A x, y \in K : x # y => part[x] \cap part[y] = {}
  OBVIOUS
<1>3. Counted(values) = UNION {part[x] : x \in K}
  BY DEF Counted
<1> HIDE DEF part
<1>4. IsFiniteSet(UNION {part[x] : x \in K})
  BY <1>1, UnionIsFinite
<1>5. SumSql(values) = IF \A x \in K : values[x] = Null THEN Null
                       ELSE Cardinality(UNION {part[x] : x \in K})
  BY <1>1, <1>2, SumsCountUnions
<1> QED
  BY <1>3, <1>4, <1>5

\* Sums of the parts of a set, summed, are the sum over the set.
LEMMA SumsOfPartsAddUp ==
  ASSUME NEW rs, IsFiniteSet(rs), NEW g, DOMAIN g = rs, \A x \in rs : IsCount(g[x]),
         NEW K, IsFiniteSet(K), NEW part, UNION {part[k] : k \in K} = rs,
         \A k, l \in K : k # l => part[k] \cap part[l] = {},
         NEW sums, DOMAIN sums = K, \A k \in K : sums[k] = SumSql([x \in part[k] |-> g[x]])
  PROVE  SumSql(sums) = SumSql(g)
<1> DEFINE mine == [k \in K |-> [x \in part[k] |-> g[x]]]
           piece == [k \in K |-> Counted(mine[k])]
<1>1. \A k \in K : part[k] \subseteq rs
  OBVIOUS
<1>2. ASSUME NEW k \in K
      PROVE  /\ DOMAIN mine[k] = part[k] /\ \A x \in part[k] : mine[k][x] = g[x]
             /\ sums[k] = SumSql(mine[k])
  OBVIOUS
<1>3. ASSUME NEW k \in K
      PROVE  /\ IsFiniteSet(piece[k])
             /\ sums[k] = IF \A x \in part[k] : g[x] = Null THEN Null ELSE Cardinality(piece[k])
             /\ sums[k] # Null <=> \E x \in part[k] : g[x] # Null
  <2> HIDE DEF mine
  <2>1. piece[k] = Counted(mine[k])
    OBVIOUS
  <2> HIDE DEF piece
  <2>2. IsFiniteSet(DOMAIN mine[k])
    BY <1>1, <1>2, FS_Subset
  <2>3. \A x \in DOMAIN mine[k] : IsCount(mine[k][x])
    BY <1>1, <1>2
  <2>4. /\ IsFiniteSet(Counted(mine[k]))
        /\ SumSql(mine[k]) = IF \A x \in DOMAIN mine[k] : mine[k][x] = Null THEN Null
                             ELSE Cardinality(Counted(mine[k]))
    BY <2>2, <2>3, SumOfCounts
  <2>5. Cardinality(Counted(mine[k])) \in Nat
    BY <2>4, FS_CardinalityType
  <2>6. Cardinality(Counted(mine[k])) # Null
    BY <2>5, NullAssumption
  <2> QED
    BY <1>2, <2>1, <2>4, <2>6
<1>4. \A k \in K : piece[k] = UNION {{x} \X Upto(g[x]) : x \in part[k]}
  <2> SUFFICES ASSUME NEW k \in K PROVE piece[k] = UNION {{x} \X Upto(g[x]) : x \in part[k]}
    OBVIOUS
  <2>1. piece[k] = UNION {{x} \X Upto(mine[k][x]) : x \in DOMAIN mine[k]}
    BY DEF Counted
  <2> HIDE DEF mine, piece
  <2> QED
    BY <1>2, <2>1
<1> HIDE DEF mine, piece
<1>5. \A k \in K : sums[k] = Null => piece[k] = {}
  BY <1>3, <1>4 DEF Upto
<1>6. \A k, l \in K : k # l => piece[k] \cap piece[l] = {}
  BY <1>4
<1>7. SumSql(sums) = IF \A k \in K : sums[k] = Null THEN Null
                     ELSE Cardinality(UNION {piece[k] : k \in K})
  BY <1>3, <1>5, <1>6, SumsCountUnions
<1>8. SumSql(g) = IF \A x \in rs : g[x] = Null THEN Null ELSE Cardinality(Counted(g))
  BY SumOfCounts
<1>9. UNION {piece[k] : k \in K} = Counted(g)
  BY <1>4 DEF Counted
<1>10. (\A k \in K : sums[k] = Null) <=> \A x \in rs : g[x] = Null
  BY <1>3
<1> QED
  BY <1>7, <1>8, <1>9, <1>10

-----------------------------------------------------------------------------
(* Costs and tokens are counts *)

LEMMA PricesAreCounts ==
  ASSUME ReportsInv, NEW m, NEW at \in Nat
  PROVE  \A c \in DOMAIN PricesAt(RowsOf(m), at) : PricesAt(RowsOf(m), at)[c] \in Nat
<1> SUFFICES ASSUME NEW c \in DOMAIN PricesAt(RowsOf(m), at)
             PROVE  PricesAt(RowsOf(m), at)[c] \in Nat
  OBVIOUS
<1> DEFINE known == {row \in RowsOf(m) : row.component = c /\ row.from <= at}
<1>1. known # {} /\ PricesAt(RowsOf(m), at)[c] = Latest(known).price
  BY DEF PricesAt
<1>2. known \subseteq prices /\ now \in Nat
  BY DEF RowsOf, ReportsInv, SpendingInv, PricesInv
<1>3. \A row \in known : row.from \in Nat /\ row.from <= at
  BY <1>2 DEF ReportsInv, SpendingInv, PricesInv
<1> HIDE DEF known
<1>4. PICK row \in known : \A other \in known : other.from <= row.from
  BY <1>1, <1>3, NewestRow
<1>5. Latest(known) \in known
  BY <1>4 DEF Latest
<1> QED
  BY <1>1, <1>2, <1>5 DEF ReportsInv

LEMMA TokensAreCounts ==
  ASSUME NEW usage, usage = Null \/ Payload(usage)
  PROVE  IsCount(RawTokens(usage)[1]) /\ IsCount(RawTokens(usage)[2])
<1>1. CASE usage = Null \/ Fits(usage) = {}
  BY <1>1 DEF RawTokens, IsCount
<1>2. CASE Payload(usage) /\ Fits(usage) # {} /\ usage # Null
  <2>1. \A key : IsCount(ReadPath(usage, key))
    BY <1>2 DEF Payload, ReadPath, IsCount
  <2> QED
    BY <1>2, <2>1 DEF RawTokens
<1> QED
  BY <1>1, <1>2

LEMMA EstimateIsCount ==
  ASSUME NEW usage, usage = Null \/ Payload(usage), NEW free,
         NEW at, \A c \in DOMAIN at : at[c] \in Nat
  PROVE  IsCount(EstimateRunCost(usage, free, at))
<1> DEFINE raw == RawTokens(usage)
           tokens == CacheTokens(usage)
<1>1. CASE free
  BY <1>1 DEF EstimateRunCost, IsCount
<1>2. CASE \/ raw[1] = Null \/ raw[2] = Null \/ ~({"input", "output"} \subseteq DOMAIN at)
           \/ ~Priced(tokens, at)
  BY <1>2 DEF EstimateRunCost, IsCount
<1>3. CASE /\ ~free /\ raw[1] # Null /\ raw[2] # Null /\ {"input", "output"} \subseteq DOMAIN at
           /\ Priced(tokens, at)
  <2>1. usage # Null /\ Fits(usage) # {}
    BY <1>3 DEF RawTokens
  <2>2. Payload(usage)
    BY <2>1
  <2>3. \A key : ReadPath(usage, key) \in Nat \cup {Null}
    BY <2>2 DEF Payload, ReadPath
  <2> DEFINE shape == SelectShape(usage)
  <2>4. raw = <<ReadPath(usage, shape.in), ReadPath(usage, shape.out)>>
    BY <2>1 DEF RawTokens
  <2>5. raw[2] \in Nat /\ usage[shape.in] \in Nat
    <3>1. ReadPath(usage, shape.in) # Null /\ ReadPath(usage, shape.out) # Null
      BY <1>3, <2>4
    <3>2. ReadPath(usage, shape.in) = usage[shape.in]
      BY <3>1 DEF ReadPath
    <3> QED
      BY <2>3, <2>4, <3>1, <3>2
  <2>6. \A c \in CacheTiers : tokens[c] \in Nat
    <3>1. \A key : OrZero(ReadPath(usage, key)) \in Nat
      BY <2>3 DEF OrZero
    <3> QED
      BY <3>1 DEF CacheTokens
  <2>7. /\ "cache_read" \in CacheTiers /\ "cache_write" \in CacheTiers
        /\ "cache_write_5m" \in CacheTiers /\ "cache_write_1h" \in CacheTiers
    BY DEF CacheTiers, WriteTiers
  <2>8. BillableInput(usage, tokens) \in Nat
    <3> DEFINE x == usage[shape.in] - (IF shape.readInside THEN tokens["cache_read"] ELSE 0)
                      - (IF shape.writeInside THEN WrittenTokens(tokens) ELSE 0)
    <3>1. WrittenTokens(tokens) \in Nat /\ tokens["cache_read"] \in Nat
      BY <2>6, <2>7 DEF WrittenTokens
    <3>2. x \in Int
      <4> DEFINE read == IF shape.readInside THEN tokens["cache_read"] ELSE 0
                 written == IF shape.writeInside THEN WrittenTokens(tokens) ELSE 0
      <4>1. read \in Int /\ written \in Int
        BY <3>1
      <4> HIDE DEF read, written, shape
      <4>2. (usage[shape.in] - read) - written \in Int
        BY <2>5, <4>1 DEF shape
      <4> QED
        BY <4>2 DEF read, written, shape
    <3>3. BillableInput(usage, tokens) = Max({0, x})
      BY DEF BillableInput
    <3> HIDE DEF x
    <3> QED
      BY <3>2, <3>3, AtLeastZero
  <2>9. ASSUME NEW c \in CacheTiers
        PROVE  (IF tokens[c] = 0 THEN 0 ELSE tokens[c] * at[c]) \in Nat
    <3>1. CASE tokens[c] # 0
      <4>1. at[c] \in Nat
        BY <1>3, <3>1 DEF Priced
      <4> HIDE DEF tokens
      <4>2. tokens[c] * at[c] \in Nat
        BY <2>6, <4>1
      <4> QED
        BY <3>1, <4>2
    <3>2. CASE tokens[c] = 0
      BY <3>2
    <3> QED
      BY <3>1, <3>2
  <2>10. CacheCost(tokens, at) \in Nat
    <3> DEFINE CostOfTier(c) == IF tokens[c] = 0 THEN 0 ELSE tokens[c] * at[c]
    <3>1. /\ CostOfTier("cache_read") \in Nat /\ CostOfTier("cache_write") \in Nat
          /\ CostOfTier("cache_write_5m") \in Nat /\ CostOfTier("cache_write_1h") \in Nat
      BY <2>7, <2>9
    <3>2. CacheCost(tokens, at) = CostOfTier("cache_read") + CostOfTier("cache_write")
                                    + CostOfTier("cache_write_5m") + CostOfTier("cache_write_1h")
      BY DEF CacheCost
    <3> HIDE DEF CostOfTier, tokens
    <3> QED
      BY <3>1, <3>2
  <2>11. at["input"] \in Nat /\ at["output"] \in Nat
    BY <1>3
  <2>12. EstimateRunCost(usage, free, at)
           = BillableInput(usage, tokens) * at["input"] + raw[2] * at["output"]
               + CacheCost(tokens, at)
    BY <1>3 DEF EstimateRunCost
  <2> HIDE DEF tokens, raw
  <2>13. /\ BillableInput(usage, tokens) * at["input"] \in Nat
         /\ raw[2] * at["output"] \in Nat
    BY <2>5, <2>8, <2>11
  <2>14. BillableInput(usage, tokens) * at["input"] + raw[2] * at["output"]
           + CacheCost(tokens, at) \in Nat
    BY <2>10, <2>13
  <2> QED
    BY <2>12, <2>14 DEF IsCount
<1> QED
  BY <1>1, <1>2, <1>3

\* Of every run, the cost and the tokens both ways.
LEMMA FiguresAreCounts ==
  ASSUME ReportsInv, NEW r \in runs
  PROVE  /\ IsCount(CostSql(r)) /\ Cost(r) = CostSql(r)
         /\ IsCount(InputOf(r)) /\ RawTokens(r.usage) = Tokens(r)
<1>1. r.usage = Null \/ Payload(r.usage)
  BY DEF ReportsInv, SpendingInv, RunsInv, IsRun
<1>2. Cost(r) = CostSql(r) /\ RawTokens(r.usage) = TokensSql(r.usage)
  BY RunsOfOneCost DEF TwinsAgree, ReportsInv
<1>3. r.started \in Nat
  BY RunsAreShown
<1>4. IsCount(Cost(r))
  <2> DEFINE at == PricesAt(RowsOf(r.model), r.started)
  <2>1. \A c \in DOMAIN at : at[c] \in Nat
    BY <1>3, PricesAreCounts
  <2>2. Cost(r) = EstimateRunCost(r.usage, models[r.model].free, at)
    BY DEF Cost
  <2> HIDE DEF at
  <2> QED
    BY <1>1, <2>1, <2>2, EstimateIsCount
<1>5. IsCount(InputOf(r))
  BY <1>1, <1>2, TokensAreCounts DEF InputOf, Tokens
<1> QED
  BY <1>2, <1>4, <1>5 DEF Tokens

-----------------------------------------------------------------------------
(* Tables *)

\* Parts of a set which share nothing, and what is known of each.
Parts(part, K, rs) ==
  /\ IsFiniteSet(K) /\ UNION {part[k] : k \in K} = rs
  /\ \A k, l \in K : k # l => part[k] \cap part[l] = {}
CountsOf(f, part, K) ==
  f = [k \in K |-> f[k]] /\ \A k \in K : IsFiniteSet(part[k]) /\ f[k] = Cardinality(part[k])
Sums(sums, g, part, K) ==
  DOMAIN sums = K /\ \A k \in K : sums[k] = SumSql([x \in part[k] |-> g[x]])
Tabled(rows, part, K) ==
  /\ DOMAIN rows = K
  /\ \A k \in K : /\ rows[k].runs = Cardinality(part[k])
                  /\ rows[k].errors = Cardinality(Failed(part[k]))
                  /\ rows[k].cost = SqlSum(CostSql, part[k])

LEMMA PartsCount ==
  ASSUME NEW K, NEW part, NEW rs, NEW f, Parts(part, K, rs), CountsOf(f, part, K)
  PROVE  SumFunction(f) = Cardinality(rs)
BY PartsAddUp DEF Parts, CountsOf

LEMMA PartsSum ==
  ASSUME NEW K, NEW part, NEW rs, NEW g, NEW sums, Parts(part, K, rs), Sums(sums, g, part, K),
         IsFiniteSet(rs), DOMAIN g = rs, \A x \in rs : IsCount(g[x])
  PROVE  SumSql(sums) = SumSql(g)
BY SumsOfPartsAddUp DEF Parts, Sums

\* The rows of the parts, summed, are the row of the whole.
LEMMA TableAddsUp ==
  ASSUME ReportsInv, NEW rs \in SUBSET runs, NEW K, NEW part, NEW rows,
         Parts(part, K, rs), Tabled(rows, part, K)
  PROVE  Sum(rows) = Row(rs)
<1> DEFINE pairs == {<<k, rows[k]>> : k \in K}
           mine == [pair \in pairs |-> part[pair[1]]]
           failed == [pair \in pairs |-> Failed(part[pair[1]])]
           counts == [pair \in pairs |-> pair[2].runs]
           errors == [pair \in pairs |-> pair[2].errors]
           sums == [pair \in pairs |-> pair[2].cost]
           g == [r \in rs |-> CostSql(r)]
<1>0. IsFiniteSet(K) /\ DOMAIN rows = K
  BY DEF Parts, Tabled
<1>1. \A pair \in pairs : /\ pair[1] \in K /\ pair[2] = rows[pair[1]]
                          /\ pair = <<pair[1], pair[2]>>
  OBVIOUS
<1>2. \A k \in K : <<k, rows[k]>> \in pairs
  OBVIOUS
<1>3. IsFiniteSet(pairs)
  <2> DEFINE h == [k \in K |-> <<k, rows[k]>>]
  <2>1. h \in Surjection(K, pairs)
    BY DEF Surjection
  <2> HIDE DEF h, pairs
  <2> QED
    BY <1>0, <2>1, FS_Surjection
<1> HIDE DEF pairs
<1>4. IsFiniteSet(rs) /\ \A k \in K : part[k] \subseteq rs
  BY CitationsAreFinite DEF Parts
<1>5. \A one, other \in pairs : one # other => one[1] # other[1]
  BY <1>1
<1>6. ASSUME NEW pair \in pairs
      PROVE  /\ mine[pair] = part[pair[1]] /\ failed[pair] = Failed(part[pair[1]])
             /\ counts[pair] = Cardinality(part[pair[1]])
             /\ errors[pair] = Cardinality(Failed(part[pair[1]]))
             /\ sums[pair] = SqlSum(CostSql, part[pair[1]])
             /\ IsFiniteSet(part[pair[1]]) /\ IsFiniteSet(Failed(part[pair[1]]))
  <2>1. pair[1] \in K /\ pair[2] = rows[pair[1]]
    BY <1>1
  <2>2. IsFiniteSet(part[pair[1]])
    BY <1>4, <2>1, FS_Subset
  <2>3. Failed(part[pair[1]]) \subseteq part[pair[1]]
    BY DEF Failed
  <2>4. IsFiniteSet(Failed(part[pair[1]]))
    BY <2>2, <2>3, FS_Subset
  <2> QED
    BY <2>1, <2>2, <2>4 DEF Tabled
<1>7. DOMAIN sums = pairs /\ DOMAIN g = rs
  OBVIOUS
<1>8. /\ counts = [pair \in pairs |-> counts[pair]]
      /\ errors = [pair \in pairs |-> errors[pair]]
  OBVIOUS
<1>9. /\ Sum(rows).runs = SumFunction(counts) /\ Sum(rows).errors = SumFunction(errors)
      /\ Sum(rows).cost = SumSql(sums)
      /\ Sum(rows) = [runs |-> SumFunction(counts), errors |-> SumFunction(errors),
                      cost |-> SumSql(sums)]
  BY <1>0 DEF Sum, Total, SqlSum, pairs
<1>10. SqlSum(CostSql, rs) = SumSql(g)
  BY DEF SqlSum
<1>11. \A r \in rs : IsCount(g[r])
  BY FiguresAreCounts
<1>12. \A pair \in pairs : sums[pair] = SumSql([r \in mine[pair] |-> g[r]])
  <2> SUFFICES ASSUME NEW pair \in pairs
               PROVE  sums[pair] = SumSql([r \in mine[pair] |-> g[r]])
    OBVIOUS
  <2>1. mine[pair] \subseteq rs
    BY <1>1, <1>4, <1>6
  <2>2. [r \in mine[pair] |-> g[r]] = [r \in mine[pair] |-> CostSql(r)]
    BY <2>1
  <2> HIDE DEF g, mine, sums
  <2>3. sums[pair] = SumSql([r \in mine[pair] |-> CostSql(r)])
    BY <1>6 DEF SqlSum
  <2> QED
    BY <2>2, <2>3
<1> HIDE DEF mine, failed, counts, errors, sums, g
<1>13. \A pair \in pairs : pair[1] \in K /\ mine[pair] = part[pair[1]]
  BY <1>1, <1>6
<1>14. Parts(mine, pairs, rs)
  <2>1. \A k \in K : \E pair \in pairs : mine[pair] = part[k]
    <3> SUFFICES ASSUME NEW k \in K PROVE \E pair \in pairs : mine[pair] = part[k]
      OBVIOUS
    <3> DEFINE pair == <<k, rows[k]>>
    <3>1. pair \in pairs /\ pair[1] = k
      BY <1>2
    <3> HIDE DEF pair
    <3>2. mine[pair] = part[k]
      BY <1>13, <3>1
    <3> QED
      BY <3>1, <3>2
  <2>2. UNION {mine[pair] : pair \in pairs} = rs
    BY <1>13, <2>1 DEF Parts
  <2>3. \A one, other \in pairs : one # other => mine[one] \cap mine[other] = {}
    BY <1>5, <1>13 DEF Parts
  <2> QED
    BY <1>3, <2>2, <2>3 DEF Parts
<1>15. Parts(failed, pairs, Failed(rs))
  <2>1. \A pair \in pairs : failed[pair] = Failed(mine[pair])
    BY <1>6
  <2>2. UNION {failed[pair] : pair \in pairs} = Failed(rs)
    BY <1>14, <2>1 DEF Parts, Failed
  <2>3. \A one, other \in pairs : one # other => failed[one] \cap failed[other] = {}
    BY <1>14, <2>1 DEF Parts, Failed
  <2> QED
    BY <1>3, <2>2, <2>3 DEF Parts
<1>16. CountsOf(counts, mine, pairs) /\ CountsOf(errors, failed, pairs)
  BY <1>6, <1>8 DEF CountsOf
<1>17. SumFunction(counts) = Cardinality(rs) /\ SumFunction(errors) = Cardinality(Failed(rs))
  BY <1>14, <1>15, <1>16, PartsCount
<1>18. SumSql(sums) = SumSql(g)
  <2>1. Sums(sums, g, mine, pairs)
    BY <1>7, <1>12 DEF Sums
  <2> QED
    BY <1>4, <1>7, <1>11, <1>14, <2>1, PartsSum
<1> QED
  BY <1>9, <1>10, <1>17, <1>18 DEF Row

\* A table with a row for each value of a key.
Keyed(rows, key, rs) ==
  /\ DOMAIN key = rs /\ DOMAIN rows = {key[r] : r \in rs}
  /\ \A k \in DOMAIN rows :
       LET group == {r \in rs : key[r] = k} IN
       /\ rows[k].runs = Cardinality(group) /\ rows[k].errors = Cardinality(Failed(group))
       /\ rows[k].cost = SqlSum(CostSql, group)

\* The values of a key, and what has each.
LEMMA KeysPartition ==
  ASSUME NEW rs, IsFiniteSet(rs), NEW key, DOMAIN key = rs,
         NEW K, K = {key[r] : r \in rs}, NEW part, part = [k \in K |-> {r \in rs : key[r] = k}]
  PROVE  Parts(part, K, rs)
<1> DEFINE h == [r \in rs |-> key[r]]
<1>1. h \in Surjection(rs, K)
  BY DEF Surjection
<1> HIDE DEF h
<1>2. IsFiniteSet(K)
  BY <1>1, FS_Surjection
<1>3. UNION {part[k] : k \in K} = rs
  OBVIOUS
<1>4. \A k, l \in K : k # l => part[k] \cap part[l] = {}
  OBVIOUS
<1> QED
  BY <1>2, <1>3, <1>4 DEF Parts

LEMMA KeyedTable ==
  ASSUME ReportsInv, NEW rs \in SUBSET runs, NEW key, NEW rows, Keyed(rows, key, rs)
  PROVE  Sum(rows) = Row(rs)
<1> DEFINE K == {key[r] : r \in rs}
           part == [k \in K |-> {r \in rs : key[r] = k}]
<1>1. Tabled(rows, part, K)
  BY DEF Keyed, Tabled
<1>2. Parts(part, K, rs)
  <2>1. IsFiniteSet(rs)
    BY CitationsAreFinite
  <2>2. DOMAIN key = rs
    BY DEF Keyed
  <2> QED
    BY <2>1, <2>2, KeysPartition
<1> HIDE DEF part, K
<1> QED
  BY <1>1, <1>2, TableAddsUp

\* Of clients, sets, models and providers.
LEMMA TablesOfRuns ==
  ASSUME ReportsInv, NEW rs \in SUBSET runs
  PROVE  /\ Sum(ClientRows(rs)) = Row(rs) /\ Sum(PromptSetRows(rs)) = Row(rs)
         /\ Sum(ModelRows(rs)) = Row(rs) /\ Sum(ProviderRows(rs)) = Row(rs)
<1>1. Sum(ClientRows(rs)) = Row(rs)
  <2> DEFINE key == [r \in rs |-> ClientOf(r)]
  <2>1. Keyed(ClientRows(rs), key, rs)
    BY DEF Keyed, ClientRows, Rows, GroupBy, Row
  <2> HIDE DEF key
  <2> QED
    BY <2>1, KeyedTable
<1>2. Sum(PromptSetRows(rs)) = Row(rs)
  <2> DEFINE key == [r \in rs |-> SetOf(r)]
  <2>1. Keyed(PromptSetRows(rs), key, rs)
    BY DEF Keyed, PromptSetRows, Rows, GroupBy, Row
  <2> HIDE DEF key
  <2> QED
    BY <2>1, KeyedTable
<1>3. Sum(ModelRows(rs)) = Row(rs)
  <2> DEFINE key == [r \in rs |-> ModelOf(r)]
  <2>1. Keyed(ModelRows(rs), key, rs)
    BY DEF Keyed, ModelRows, Rows, GroupBy, Row
  <2> HIDE DEF key
  <2> QED
    BY <2>1, KeyedTable
<1>4. Sum(ProviderRows(rs)) = Row(rs)
  <2> DEFINE key == [r \in rs |-> ProviderOf(r)]
  <2>1. Keyed(ProviderRows(rs), key, rs)
    BY DEF Keyed, ProviderRows, GroupBy
  <2> HIDE DEF key
  <2> QED
    BY <2>1, KeyedTable
<1> QED
  BY <1>1, <1>2, <1>3, <1>4

\* The row of no runs at all.
LEMMA NoRunsNoRow == Row({}) = EmptyRow
<1>1. Failed({}) = {} /\ Cardinality({}) = 0
  BY FS_EmptySet DEF Failed
<1> DEFINE none == [r \in {} |-> CostSql(r)]
<1>2. DOMAIN none = {} /\ SqlSum(CostSql, {}) = SumSql(none)
  BY DEF SqlSum
<1> HIDE DEF none
<1>3. SumSql(none) = Null
  BY <1>2 DEF SumSql
<1> QED
  BY <1>1, <1>2, <1>3 DEF Row, EmptyRow

\* A row of a table, where it has one.
LEMMA RowOfGroup ==
  ASSUME NEW rows, NEW k, NEW group,
         k \in DOMAIN rows => rows[k] = Row(group), k \notin DOMAIN rows => group = {}
  PROVE  RowAt(rows, k) = Row(group)
BY NoRunsNoRow DEF RowAt

-----------------------------------------------------------------------------
(* TablesAddUp *)

\* Who ran it and why, of every run.
LEMMA AttributionTells ==
  ASSUME ReportsInv
  PROVE  /\ \A r \in runs : Attribution(r) # Null
         /\ \A q, r \in runs : /\ q.ask.by = r.ask.by /\ q.ask.trigger = r.ask.trigger
                                    => Attribution(q) = Attribution(r)
                               /\ Attribution(q) = Attribution(r) /\ Attribution(r) # "unknown"
                                    => q.ask.by = r.ask.by /\ q.ask.trigger = r.ask.trigger
<1>1. \A r \in runs : IsAsk(r.ask)
  BY DEF ReportsInv, IsShown
<1>2. \A r \in runs : Attribution(r) = IF r.ask.by # Null THEN r.ask.by
                                       ELSE IF r.ask.trigger = "scheduled" THEN "scheduler"
                                       ELSE "unknown"
  BY DEF Attribution
<1> QED
  BY <1>1, <1>2, NamesAssumption DEF IsAsk

\* The prompt of a run, its lineage and its set.
LEMMA PromptIsThere ==
  ASSUME ReportsInv, NEW r \in runs
  PROVE  PromptOf(r) \in prompts
<1>1. \E p \in prompts : p.id = r.ask.prompt
  BY DEF ReportsInv, IsShown
<1> QED
  BY <1>1 DEF PromptOf

LEMMA LineageTells ==
  ASSUME ReportsInv
  PROVE  /\ \A p, q \in prompts : q \in Lineage(p.id) <=> RootOf(q) = RootOf(p)
         /\ \A p, q \in prompts : RootOf(q) = RootOf(p) => q.set = p.set
         /\ \A p \in prompts : p.id # Null /\ p.set \in Sets
         /\ \A p \in prompts : \E q \in prompts : RootOf(q) = RootOf(p) /\ q.current
<1>1. \A p, q \in prompts : p.id = q.id => p = q
  BY DEF ReportsInv, ArePrompts
<1>2. \A p \in prompts : \E q \in prompts : q.id = RootOf(p) /\ q.set = p.set
  BY DEF ReportsInv, ArePrompts
<1>3. \A p, q \in prompts : q \in Lineage(p.id) <=> RootOf(q) = RootOf(p)
  BY <1>1 DEF Lineage
<1>4. \A p, q \in prompts : RootOf(q) = RootOf(p) => q.set = p.set
  BY <1>1, <1>2
<1>5. \A p \in prompts : p.id # Null /\ p.set \in Sets
  <2>1. \A p \in prompts : p.id \in 1..Cardinality(prompts) /\ p.set \in Sets
    BY DEF ReportsInv, ArePrompts
  <2>2. Cardinality(prompts) \in Nat
    BY FS_CardinalityType DEF ReportsInv, ArePrompts
  <2> QED
    BY <2>1, <2>2, NullAssumption
<1>6. \A p \in prompts : \E q \in prompts : RootOf(q) = RootOf(p) /\ q.current
  BY DEF ReportsInv, ArePrompts
<1> QED
  BY <1>3, <1>4, <1>5, <1>6

\* A page narrows the scope by one parameter.
ClientOnly(range, test, x) == [Everything(range, test) EXCEPT !.client = x]
SetOnly(range, test, x) == [Everything(range, test) EXCEPT !.set = x]
PromptOnly(range, test, x) == [Everything(range, test) EXCEPT !.prompt = x]
UserOnly(range, test, x) == [Everything(range, test) EXCEPT !.user = x]

LEMMA ScopesNarrow ==
  ASSUME ReportsInv, NEW range, NEW test, NEW x, x # Null
  PROVE  /\ OpsRuns(ClientOnly(range, test, x))
              = {r \in OpsRuns(Everything(range, test)) : ClientOf(r) = x}
         /\ OpsRuns(SetOnly(range, test, x))
              = {r \in OpsRuns(Everything(range, test)) : SetOf(r) = x}
         /\ OpsRuns(PromptOnly(range, test, x))
              = {r \in OpsRuns(Everything(range, test)) : PromptOf(r) \in Lineage(x)}
         /\ OpsRuns(UserOnly(range, test, x))
              = {r \in OpsRuns(Everything(range, test)) : Attribution(r) = x}
<1> DEFINE all == OpsRuns(Everything(range, test))
           Listed(r) == /\ r.status # "pending" /\ (test \/ ClientOf(r) \notin testClients)
                        /\ Time!Within(r.started, Time!RangeBounds(range, now))
<1>1. all = {r \in runs : Listed(r)}
  BY DEF OpsRuns, Everything
<1>2. ASSUME NEW scope, scope.range = range, scope.test = test
      PROVE  OpsRuns(scope)
               = {r \in runs : /\ Listed(r) /\ scope.client \in {Null, ClientOf(r)}
                               /\ scope.set \in {Null, SetOf(r)}
                               /\ scope.prompt = Null \/ PromptOf(r) \in Lineage(scope.prompt)
                               /\ scope.user = Null \/ scope.user = Attribution(r)}
  BY <1>2 DEF OpsRuns
<1> HIDE DEF Listed, all
<1>3. OpsRuns([range |-> range, client |-> x, set |-> Null, prompt |-> Null, user |-> Null,
               test |-> test]) = {r \in all : ClientOf(r) = x}
  BY <1>1, <1>2
<1>4. OpsRuns([range |-> range, client |-> Null, set |-> x, prompt |-> Null, user |-> Null,
               test |-> test]) = {r \in all : SetOf(r) = x}
  BY <1>1, <1>2
<1>5. OpsRuns([range |-> range, client |-> Null, set |-> Null, prompt |-> x, user |-> Null,
               test |-> test]) = {r \in all : PromptOf(r) \in Lineage(x)}
  BY <1>1, <1>2
<1>6. OpsRuns([range |-> range, client |-> Null, set |-> Null, prompt |-> Null, user |-> x,
               test |-> test]) = {r \in all : Attribution(r) = x}
  BY <1>1, <1>2
<1>7. OpsRuns(ClientOnly(range, test, x)) = {r \in all : ClientOf(r) = x}
  <2>1. ClientOnly(range, test, x)
          = [range |-> range, client |-> x, set |-> Null, prompt |-> Null, user |-> Null,
             test |-> test]
    BY DEF Everything, ClientOnly
  <2> QED
    BY <1>3, <2>1, Zenon
<1>8. OpsRuns(SetOnly(range, test, x)) = {r \in all : SetOf(r) = x}
  <2>1. SetOnly(range, test, x)
          = [range |-> range, client |-> Null, set |-> x, prompt |-> Null, user |-> Null,
             test |-> test]
    BY DEF Everything, SetOnly
  <2> QED
    BY <1>4, <2>1, Zenon
<1>9. OpsRuns(PromptOnly(range, test, x))
        = {r \in all : PromptOf(r) \in Lineage(x)}
  <2>1. PromptOnly(range, test, x)
          = [range |-> range, client |-> Null, set |-> Null, prompt |-> x, user |-> Null,
             test |-> test]
    BY DEF Everything, PromptOnly
  <2> QED
    BY <1>5, <2>1, Zenon
<1>10. OpsRuns(UserOnly(range, test, x)) = {r \in all : Attribution(r) = x}
  <2>1. UserOnly(range, test, x)
          = [range |-> range, client |-> Null, set |-> Null, prompt |-> Null, user |-> x,
             test |-> test]
    BY DEF Everything, UserOnly
  <2> QED
    BY <1>6, <2>1, Zenon
<1> QED
  BY <1>7, <1>8, <1>9, <1>10 DEF all

\* The providers' tokens.
LEMMA ProvidersCountTokens ==
  ASSUME ReportsInv, NEW rs \in SUBSET runs, NEW providers, providers = ProviderRows(rs)
  PROVE  SumSql([p \in DOMAIN providers |-> providers[p].input]) = OpsSummary(rs).input
<1> DEFINE key == [r \in rs |-> ProviderOf(r)]
           K == {key[r] : r \in rs}
           part == [k \in K |-> {r \in rs : key[r] = k}]
           g == [r \in rs |-> InputOf(r)]
           sums == [p \in DOMAIN providers |-> providers[p].input]
<1>1. DOMAIN g = rs /\ \A r \in rs : IsCount(g[r])
  BY FiguresAreCounts
<1>2. Sums(sums, g, part, K)
  <2>1. DOMAIN sums = K
    BY DEF ProviderRows, GroupBy
  <2>2. ASSUME NEW k \in K
        PROVE  sums[k] = SumSql([x \in part[k] |-> g[x]])
    <3>1. sums[k] = SqlSum(InputOf, part[k])
      BY DEF ProviderRows, GroupBy
    <3>2. part[k] \subseteq rs
      OBVIOUS
    <3>3. [x \in part[k] |-> g[x]] = [x \in part[k] |-> InputOf(x)]
      BY <3>2
    <3> HIDE DEF part, g, sums
    <3> QED
      BY <3>1, <3>3 DEF SqlSum
  <2> HIDE DEF part, g, sums, K
  <2> QED
    BY <2>1, <2>2 DEF Sums
<1>3. DOMAIN key = rs /\ IsFiniteSet(rs)
  BY CitationsAreFinite
<1>4. OpsSummary(rs).input = SumSql(g)
  BY DEF OpsSummary, SqlSum
<1> HIDE DEF key, g, sums
<1>5. Parts(part, K, rs)
  BY <1>3, KeysPartition
<1> HIDE DEF part, K
<1>6. SumSql(sums) = SumSql(g)
  BY <1>1, <1>2, <1>3, <1>5, PartsSum
<1> QED
  BY <1>4, <1>6 DEF sums

\* A person's rows: one, unless nothing was run.
RowsNamed(users, u) == {x.row : x \in {x \in users : x.name = u}}

LEMMA UsersHaveOneRow ==
  ASSUME ReportsInv, NEW rs \in SUBSET runs, NEW u, u # "unknown",
         NEW mine, mine = {r \in rs : Attribution(r) = u}
  PROVE  RowsNamed(UserRows(rs), u) \cup {EmptyRow} = {Row(mine), EmptyRow}
<1> DEFINE KeyOf(r) == <<r.ask.by, r.ask.trigger>>
           K == {KeyOf(r) : r \in rs}
           group == [k \in K |-> {r \in rs : KeyOf(r) = k}]
           Name(k) == Attribution(CHOOSE r \in group[k] : TRUE)
           rows == {[name |-> Name(k), row |-> Row(group[k])] : k \in K}
<1>1. UserRows(rs) = rows
  BY DEF UserRows, GroupBy
<1>2. ASSUME NEW k \in K
      PROVE  \E r \in group[k] : Name(k) = Attribution(r)
  OBVIOUS
<1>3. ASSUME NEW k \in K, NEW r \in group[k]
      PROVE  Name(k) = Attribution(r) /\ r \in rs
  <2>1. PICK q \in group[k] : Name(k) = Attribution(q)
    BY <1>2
  <2>2. q \in rs /\ r \in rs /\ KeyOf(q) = k /\ KeyOf(r) = k
    OBVIOUS
  <2>3. q.ask.by = r.ask.by /\ q.ask.trigger = r.ask.trigger
    BY <2>2
  <2> QED
    BY <2>1, <2>2, <2>3, AttributionTells
<1>4. ASSUME NEW k \in K, Name(k) = u
      PROVE  group[k] = mine
  <2>1. PICK q \in group[k] : Name(k) = Attribution(q)
    BY <1>2
  <2>2. q \in rs /\ KeyOf(q) = k /\ Attribution(q) = u
    BY <1>4, <2>1
  <2>3. ASSUME NEW r \in mine PROVE r \in group[k]
    <3>1. r \in runs /\ q \in runs /\ r \in rs /\ Attribution(r) = Attribution(q)
      BY <2>2
    <3>2. q.ask.by = r.ask.by /\ q.ask.trigger = r.ask.trigger
      BY <2>2, <3>1, AttributionTells
    <3> QED
      BY <2>2, <3>1, <3>2
  <2>4. ASSUME NEW r \in group[k] PROVE r \in mine
    BY <1>3, <1>4, <2>4
  <2> QED
    BY <2>3, <2>4
<1>5. ASSUME mine # {}
      PROVE  \E k \in K : Name(k) = u
  <2>1. PICK r \in mine : TRUE
    BY <1>5
  <2>2. r \in rs /\ Attribution(r) = u /\ KeyOf(r) \in K /\ r \in group[KeyOf(r)]
    OBVIOUS
  <2> HIDE DEF K, group, Name, KeyOf
  <2>3. Name(KeyOf(r)) = u
    BY <1>3, <2>2
  <2> QED
    BY <2>2, <2>3
<1> HIDE DEF K, group, Name, KeyOf
<1> DEFINE theirs == {x.row : x \in {x \in rows : x.name = u}}
<1>6. /\ \A x \in theirs : \E k \in K : Name(k) = u /\ x = Row(group[k])
      /\ \A k \in K : Name(k) = u => Row(group[k]) \in theirs
  <2>1. ASSUME NEW x \in theirs
        PROVE  \E k \in K : Name(k) = u /\ x = Row(group[k])
    <3>1. PICK y \in rows : y.name = u /\ x = y.row
      OBVIOUS
    <3>2. PICK k \in K : y = [name |-> Name(k), row |-> Row(group[k])]
      OBVIOUS
    <3> QED
      BY <3>1, <3>2
  <2>2. ASSUME NEW k \in K, Name(k) = u
        PROVE  Row(group[k]) \in theirs
    <3> DEFINE y == [name |-> Name(k), row |-> Row(group[k])]
    <3>1. y \in rows /\ y.name = u /\ y.row = Row(group[k])
      BY <2>2
    <3> HIDE DEF y, rows
    <3> QED
      BY <3>1
  <2> QED
    BY <2>1, <2>2
<1> HIDE DEF rows, theirs
<1>7. theirs \cup {EmptyRow} = {Row(mine), EmptyRow}
  <2>1. CASE mine # {}
    <3>1. theirs = {Row(mine)}
      BY <1>4, <1>5, <1>6, <2>1
    <3> QED
      BY <3>1
  <2>2. CASE mine = {}
    <3>1. \A x \in theirs : x = Row(mine)
      BY <1>4, <1>6
    <3>2. Row(mine) = EmptyRow
      BY <2>2, NoRunsNoRow
    <3> QED
      BY <3>1, <3>2
  <2> QED
    BY <2>1, <2>2
<1> QED
  BY <1>1, <1>7 DEF theirs, RowsNamed

\* A prompt's row, where it has one, is of all the runs of its lineage.
LEMMA PromptsRow ==
  ASSUME ReportsInv, NEW all \in SUBSET runs, NEW p \in prompts, p.current,
         NEW mine, mine = {r \in all : SetOf(r) = p.set},
         NEW asked, asked = {r \in all : PromptOf(r) \in Lineage(p.id)}
  PROVE  RowAt(PromptRows(p.set, mine), p.id) = Row(asked)
<1> DEFINE RunsOf(c) == {r \in {r \in mine : SetOf(r) = p.set} : PromptOf(r) \in Lineage(c)}
           rows == PromptRows(p.set, mine)
<1>1. \A r \in asked : SetOf(r) = p.set
  BY PromptIsThere, LineageTells DEF SetOf
<1>2. RunsOf(p.id) = asked
  BY <1>1
<1>3. rows = [c \in {q.id : q \in {q \in prompts : q.current /\ RunsOf(q.id) # {}}}
                |-> Row(RunsOf(c))]
  BY DEF PromptRows
<1>4. \A q \in prompts : p.id = q.id => p = q
  BY DEF ReportsInv, ArePrompts
<1> HIDE DEF RunsOf, rows
<1>5. CASE asked # {}
  <2>1. p.id \in DOMAIN rows
    BY <1>2, <1>3, <1>5
  <2>2. rows[p.id] = Row(asked)
    BY <1>2, <1>3, <2>1
  <2> QED
    BY <2>1, <2>2 DEF RowAt, rows
<1>6. CASE asked = {}
  <2>1. p.id \notin DOMAIN rows
    BY <1>2, <1>3, <1>4, <1>6
  <2> QED
    BY <1>6, <2>1, NoRunsNoRow DEF RowAt, rows
<1> QED
  BY <1>5, <1>6

\* The rows of a set's prompts, where no lineage has two that are current.
LEMMA PromptsHaveAllRuns ==
  ASSUME ReportsInv, NEW set, OneCurrent(set),
         NEW rs \in SUBSET runs, \A r \in rs : SetOf(r) = set
  PROVE  Sum(PromptRows(set, rs)) = Row(rs)
<1> DEFINE RunsOf(c) == {r \in {r \in rs : SetOf(r) = set} : PromptOf(r) \in Lineage(c)}
           listed == {p \in prompts : p.current /\ RunsOf(p.id) # {}}
           K == {p.id : p \in listed}
           rows == PromptRows(set, rs)
           part == [c \in K |-> RunsOf(c)]
<1>1. rows = [c \in K |-> Row(RunsOf(c))]
  BY DEF PromptRows
<1>2. \A c : RunsOf(c) = {r \in rs : PromptOf(r) \in Lineage(c)}
  OBVIOUS
<1>3. \A p \in prompts : p \in listed <=> p.current /\ RunsOf(p.id) # {}
  OBVIOUS
<1>4. IsFiniteSet(K)
  <2> DEFINE h == [p \in listed |-> p.id]
  <2>1. h \in Surjection(listed, K)
    BY DEF Surjection
  <2>2. listed \subseteq prompts /\ IsFiniteSet(prompts)
    BY DEF ReportsInv, ArePrompts
  <2> HIDE DEF h, listed, K
  <2> QED
    BY <2>1, <2>2, FS_Surjection, FS_Subset
<1>5. listed \subseteq prompts /\ \A c \in K : \E p \in listed : c = p.id
  OBVIOUS
<1>6. \A p \in listed : p.id \in K
  OBVIOUS
<1> HIDE DEF RunsOf, listed
<1>7. \A c, d \in K : c # d => part[c] \cap part[d] = {}
  <2> SUFFICES ASSUME NEW c \in K, NEW d \in K, NEW r, r \in part[c], r \in part[d]
               PROVE  c = d
    OBVIOUS
  <2>1. PICK p \in listed : c = p.id
    BY <1>5
  <2>2. PICK q \in listed : d = q.id
    BY <1>5
  <2>3. r \in rs /\ r \in runs /\ PromptOf(r) \in Lineage(p.id) /\ PromptOf(r) \in Lineage(q.id)
    BY <1>2, <2>1, <2>2
  <2>4. PromptOf(r) \in prompts /\ PromptOf(r).set = set
    BY <2>3, PromptIsThere DEF SetOf
  <2>5. /\ p \in prompts /\ q \in prompts /\ p.current /\ q.current
    BY <1>3, <1>5
  <2>6. RootOf(PromptOf(r)) = RootOf(p) /\ RootOf(PromptOf(r)) = RootOf(q)
    BY <2>3, <2>4, <2>5, LineageTells
  <2>7. p.set = set
    BY <2>4, <2>5, <2>6, LineageTells
  <2> QED
    BY <2>1, <2>2, <2>5, <2>6, <2>7 DEF OneCurrent
<1>8. UNION {part[c] : c \in K} = rs
  <2>1. \A c \in K : part[c] \subseteq rs
    BY <1>2
  <2>2. ASSUME NEW r \in rs
        PROVE  \E c \in K : r \in part[c]
    <3>1. PromptOf(r) \in prompts
      BY PromptIsThere
    <3>2. PICK q \in prompts : RootOf(q) = RootOf(PromptOf(r)) /\ q.current
      BY <3>1, LineageTells
    <3>3. PromptOf(r) \in Lineage(q.id)
      BY <3>1, <3>2, LineageTells
    <3>4. r \in RunsOf(q.id)
      BY <1>2, <3>3
    <3>5. q \in listed
      BY <1>3, <3>2, <3>4
    <3> QED
      BY <1>6, <3>4, <3>5
  <2> HIDE DEF part, K
  <2> QED
    BY <2>1, <2>2
<1>9. Tabled(rows, part, K)
  <2>1. DOMAIN rows = K /\ \A c \in K : rows[c] = Row(part[c])
    BY <1>1
  <2> HIDE DEF rows, part, K
  <2> QED
    BY <2>1 DEF Tabled, Row
<1> HIDE DEF rows, part, K
<1>10. Parts(part, K, rs)
  BY <1>4, <1>7, <1>8 DEF Parts
<1>11. Sum(rows) = Row(rs)
  BY <1>9, <1>10, TableAddsUp
<1> QED
  BY <1>11 DEF rows

\* Where fewer runs are shown than may be, all are.
LEMMA RecentIsAll ==
  ASSUME ReportsInv, NEW rs \in SUBSET runs,
         Cardinality(DOMAIN RecentRuns(rs)) < RecentLimit
  PROVE  DOMAIN RecentRuns(rs) = rs
<1> DEFINE After(r) == {s \in rs : s.started > r.started}
           shown == {r \in rs : Cardinality(After(r)) < RecentLimit}
           hidden == rs \ shown
           ages == {now - r.started : r \in hidden}
<1>1. DOMAIN RecentRuns(rs) = shown
  BY DEF RecentRuns
<1>2. IsFiniteSet(rs) /\ now \in Nat /\ \A r \in rs : r.started \in Nat /\ r.started <= now
  BY CitationsAreFinite, RunsAreShown
<1>3. CASE hidden # {}
  <2>1. ages \subseteq Nat /\ ages # {}
    <3>1. \A r \in hidden : r \in rs
      OBVIOUS
    <3> HIDE DEF hidden
    <3>2. \A r \in hidden : now - r.started \in Nat
      BY <1>2, <3>1
    <3> QED
      BY <1>3, <3>2
  <2>2. Min(ages) \in ages /\ \A n \in ages : Min(ages) <= n
    BY <2>1, MinIsLeast
  <2>3. PICK last \in hidden : Min(ages) = now - last.started
    BY <2>2
  <2>4. \A r \in hidden : now - last.started <= now - r.started
    BY <2>2, <2>3
  <2>5. \A r \in hidden : r \in rs
    OBVIOUS
  <2> HIDE DEF hidden
  <2>6. \A r \in hidden : r.started <= last.started
    BY <1>2, <2>4, <2>5
  <2>7. After(last) \subseteq shown
    BY <1>2, <2>5, <2>6 DEF hidden
  <2>8. shown \subseteq rs /\ After(last) \subseteq rs
    OBVIOUS
  <2>9. ~(Cardinality(After(last)) < RecentLimit)
    BY DEF hidden
  <2> HIDE DEF shown, After
  <2>10. IsFiniteSet(shown)
    BY <1>2, <2>8, FS_Subset
  <2>11. IsFiniteSet(After(last)) /\ Cardinality(After(last)) <= Cardinality(shown)
    BY <2>7, <2>10, FS_Subset
  <2>12. Cardinality(After(last)) \in Nat /\ Cardinality(shown) \in Nat
    BY <2>10, <2>11, FS_CardinalityType
  <2>13. Cardinality(shown) < RecentLimit
    BY <1>1
  <2> QED
    BY <2>9, <2>11, <2>12, <2>13, RecentLimitAssumption
<1>4. CASE hidden = {}
  BY <1>1, <1>4
<1> QED
  BY <1>3, <1>4

\* What the recent runs cost, priced in Python, is what SQL sums up.
LEMMA RecentCostsAddUp ==
  ASSUME ReportsInv, NEW rs \in SUBSET runs, NEW recent, recent = RecentRuns(rs),
         Cardinality(DOMAIN recent) < RecentLimit
  PROVE  SumSql([r \in DOMAIN recent |-> recent[r].cost]) = Row(rs).cost
<1>1. DOMAIN recent = rs
  BY RecentIsAll
<1>2. \A r \in rs : recent[r].cost = CostSql(r)
  <2>1. \A r \in DOMAIN recent : recent[r].cost = Cost(r)
    BY DEF RecentRuns
  <2> QED
    BY <1>1, <2>1, FiguresAreCounts
<1>3. [r \in DOMAIN recent |-> recent[r].cost] = [r \in rs |-> CostSql(r)]
  BY <1>1, <1>2
<1> QED
  BY <1>3 DEF Row, SqlSum

LEMMA EveryTableAddsUp ==
  ASSUME ReportsInv, NEW range, NEW test
  PROVE  TablesOf(Everything(range, test))
<1> DEFINE scope == Everything(range, test)
           all == OpsRuns(scope)
           providers == ProviderRows(all)
           users == UserRows(all)
           clients == ClientRows(all)
           sets == PromptSetRows(all)
           pages == [set \in Sets |-> PromptPage([scope EXCEPT !.set = set])]
           ClientPage(c) == PromptSetPage([scope EXCEPT !.client = c])
           UserPage(u) == UserDetail([scope EXCEPT !.user = u])
           Detail(id) == PromptDetail([scope EXCEPT !.prompt = id])
           OfClient(c) == {r \in all : ClientOf(r) = c}
           OfSet(s) == {r \in all : SetOf(r) = s}
           OfUser(u) == {r \in all : Attribution(r) = u}
           OfPrompt(id) == {r \in all : PromptOf(r) \in Lineage(id)}
<1>1. all \in SUBSET runs
  BY DEF OpsRuns
<1>2. ASSUME NEW x, x # Null
      PROVE  /\ OpsRuns([scope EXCEPT !.client = x]) = OfClient(x)
             /\ OpsRuns([scope EXCEPT !.set = x]) = OfSet(x)
             /\ OpsRuns([scope EXCEPT !.prompt = x]) = OfPrompt(x)
             /\ OpsRuns([scope EXCEPT !.user = x]) = OfUser(x)
  <2>0. /\ OpsRuns(ClientOnly(range, test, x)) = OfClient(x)
        /\ OpsRuns(SetOnly(range, test, x)) = OfSet(x)
        /\ OpsRuns(PromptOnly(range, test, x)) = OfPrompt(x)
        /\ OpsRuns(UserOnly(range, test, x)) = OfUser(x)
    BY <1>2, ScopesNarrow
  <2>1. OpsRuns([scope EXCEPT !.client = x]) = OfClient(x)
    BY <1>2, <2>0 DEF ClientOnly
  <2>2. OpsRuns([scope EXCEPT !.set = x]) = OfSet(x)
    BY <1>2, <2>0 DEF SetOnly
  <2>3. OpsRuns([scope EXCEPT !.prompt = x]) = OfPrompt(x)
    BY <1>2, <2>0 DEF PromptOnly
  <2>4. OpsRuns([scope EXCEPT !.user = x]) = OfUser(x)
    BY <1>2, <2>0 DEF UserOnly
  <2> QED
    BY <2>1, <2>2, <2>3, <2>4
<1>3. ASSUME NEW x, x # Null
      PROVE  /\ ClientPage(x) = PromptSetRows(OfClient(x))
             /\ PromptPage([scope EXCEPT !.set = x]) = PromptRows(x, OfSet(x))
             /\ UserPage(x).clients = ClientRows(OfUser(x))
             /\ Detail(x) = [models |-> ModelRows(OfPrompt(x)), recent |-> RecentRuns(OfPrompt(x))]
  <2>1. /\ [scope EXCEPT !.client = x].range = range /\ [scope EXCEPT !.client = x].test = test
        /\ [scope EXCEPT !.client = x].client = x
        /\ [scope EXCEPT !.set = x].range = range /\ [scope EXCEPT !.set = x].test = test
        /\ [scope EXCEPT !.set = x].set = x
        /\ [scope EXCEPT !.user = x].range = range /\ [scope EXCEPT !.user = x].test = test
        /\ [scope EXCEPT !.user = x].user = x
    BY DEF Everything
  <2> HIDE DEF OfClient, OfSet, OfPrompt, OfUser
  <2>2. ClientPage(x) = PromptSetRows(OpsRuns([scope EXCEPT !.client = x]))
    BY <2>1 DEF PromptSetPage
  <2>3. PromptPage([scope EXCEPT !.set = x]) = PromptRows(x, OpsRuns([scope EXCEPT !.set = x]))
    BY <2>1 DEF PromptPage
  <2>4. UserPage(x).clients = ClientRows(OpsRuns([scope EXCEPT !.user = x]))
    BY <2>1 DEF UserDetail
  <2>5. Detail(x) = [models |-> ModelRows(OpsRuns([scope EXCEPT !.prompt = x])),
                     recent |-> RecentRuns(OpsRuns([scope EXCEPT !.prompt = x]))]
    BY DEF PromptDetail
  <2> QED
    BY <1>2, <1>3, <2>2, <2>3, <2>4, <2>5
<1> HIDE DEF all, ClientPage, UserPage, Detail
<1>4. \A rows \in {providers, clients, ModelRows(all)} : Sum(rows) = Row(all)
  BY <1>1, TablesOfRuns
<1>5. SqlSum(LAMBDA p : providers[p].input, DOMAIN providers) = OpsSummary(all).input
  BY <1>1, ProvidersCountTokens DEF SqlSum
<1>6. ASSUME NEW u \in Users \ {"unknown"}
      PROVE  {x.row : x \in {x \in users : x.name = u}} \cup {EmptyRow}
               = {Sum(UserPage(u).clients), EmptyRow}
  <2>1. u # Null /\ u # "unknown"
    BY AttributionTells DEF Users
  <2>2. OfUser(u) \in SUBSET runs
    BY <1>1
  <2>3. Sum(UserPage(u).clients) = Row(OfUser(u))
    <3> HIDE DEF OfUser
    <3> QED
      BY <1>3, <2>1, <2>2, TablesOfRuns
  <2>4. RowsNamed(users, u) \cup {EmptyRow} = {Row(OfUser(u)), EmptyRow}
    <3>1. OfUser(u) = {r \in all : Attribution(r) = u}
      OBVIOUS
    <3> HIDE DEF OfUser
    <3> QED
      BY <1>1, <2>1, <3>1, UsersHaveOneRow
  <2> QED
    BY <2>3, <2>4 DEF RowsNamed
<1>7. ASSUME NEW c \in Clients
      PROVE  Sum(ClientPage(c)) = RowAt(clients, c)
  <2>1. c # Null
    BY NamesAssumption
  <2>2. OfClient(c) \in SUBSET runs
    BY <1>1
  <2>3. Sum(ClientPage(c)) = Row(OfClient(c))
    <3> HIDE DEF OfClient
    <3> QED
      BY <1>3, <2>1, <2>2, TablesOfRuns
  <2>4. c \notin DOMAIN clients => OfClient(c) = {}
    BY DEF ClientRows, Rows, GroupBy
  <2>5. c \in DOMAIN clients => clients[c] = Row(OfClient(c))
    BY DEF ClientRows, Rows, GroupBy
  <2> HIDE DEF clients, OfClient
  <2>6. RowAt(clients, c) = Row(OfClient(c))
    BY <2>4, <2>5, RowOfGroup
  <2> QED
    BY <2>3, <2>6
<1>8. ASSUME NEW s \in Sets, OneCurrent(s)
      PROVE  Sum(pages[s]) = RowAt(sets, s)
  <2>1. s # Null
    BY NamesAssumption
  <2>2. OfSet(s) \in SUBSET runs /\ \A r \in OfSet(s) : SetOf(r) = s
    BY <1>1
  <2>3. pages[s] = PromptRows(s, OfSet(s))
    <3> HIDE DEF OfSet
    <3> QED
      BY <1>3, <2>1
  <2>4. Sum(pages[s]) = Row(OfSet(s))
    <3> HIDE DEF OfSet, pages
    <3> QED
      BY <1>8, <2>2, <2>3, PromptsHaveAllRuns
  <2>5. s \notin DOMAIN sets => OfSet(s) = {}
    BY DEF PromptSetRows, Rows, GroupBy
  <2>6. s \in DOMAIN sets => sets[s] = Row(OfSet(s))
    BY DEF PromptSetRows, Rows, GroupBy
  <2> HIDE DEF sets, OfSet, pages
  <2>7. RowAt(sets, s) = Row(OfSet(s))
    BY <2>5, <2>6, RowOfGroup
  <2> QED
    BY <2>4, <2>7
<1>9. ASSUME NEW p \in prompts, p.current
      PROVE  /\ Sum(Detail(p.id).models) = RowAt(pages[p.set], p.id)
             /\ Cardinality(DOMAIN Detail(p.id).recent) < RecentLimit
                  => SqlSum(LAMBDA r : Detail(p.id).recent[r].cost, DOMAIN Detail(p.id).recent)
                       = Sum(Detail(p.id).models).cost
  <2> DEFINE asked == OfPrompt(p.id)
  <2>1. p.id # Null /\ p.set \in Sets /\ p.set # Null
    BY LineageTells, NamesAssumption
  <2>2. asked \in SUBSET runs
    BY <1>1
  <2>3. pages[p.set] = PromptRows(p.set, OfSet(p.set))
    <3> HIDE DEF OfSet
    <3> QED
      BY <1>3, <2>1
  <2>4. RowAt(PromptRows(p.set, OfSet(p.set)), p.id) = Row(asked)
    BY <1>1, <1>9, PromptsRow
  <2>5. Detail(p.id).models = ModelRows(asked) /\ Detail(p.id).recent = RecentRuns(asked)
    <3>1. Detail(p.id) = [models |-> ModelRows(asked), recent |-> RecentRuns(asked)]
      BY <1>3, <2>1
    <3> HIDE DEF asked
    <3> QED
      BY <3>1
  <2> HIDE DEF asked, pages, OfSet
  <2>6. Sum(Detail(p.id).models) = Row(asked)
    BY <2>2, <2>5, TablesOfRuns
  <2>7. Cardinality(DOMAIN Detail(p.id).recent) < RecentLimit
          => SqlSum(LAMBDA r : Detail(p.id).recent[r].cost, DOMAIN Detail(p.id).recent)
               = Row(asked).cost
    BY <2>2, <2>5, RecentCostsAddUp DEF SqlSum
  <2> QED
    BY <2>3, <2>4, <2>6, <2>7
<1> QED
  BY <1>4, <1>5, <1>6, <1>7, <1>8, <1>9 DEF TablesOf, all, ClientPage, UserPage, Detail

\* Whatever is run, edited, flagged and judged meanwhile, the tables of the ops dashboard
\* add up: each breakdown is the figure above it, counted, priced and counted in tokens, a
\* prompt has the runs of all its versions, and where every run of a prompt is listed,
\* Python's prices of them come to what SQL sums up.
THEOREM BreakdownsAddUp == Spec => []TablesAddUp
<1>1. ReportsInv => TablesAddUp
  BY EveryTableAddsUp DEF TablesAddUp
<1> QED
  BY <1>1, ReportsInvInit, ReportsInvStep, PTL DEF Spec


-----------------------------------------------------------------------------
(* SpendingIsOne *)

\* SUM() passes over what is NULL.
LEMMA OnlyTheKnownCount ==
  ASSUME NEW values, NEW known, known = {x \in DOMAIN values : values[x] # Null}
  PROVE  SumSql([x \in known |-> values[x]]) = SumSql(values)
<1> DEFINE some == [x \in known |-> values[x]]
           ofAll == {pair \in {<<x, values[x]>> : x \in DOMAIN values} : pair[2] # Null}
           ofSome == {pair \in {<<x, some[x]>> : x \in DOMAIN some} : pair[2] # Null}
<1>1. ofAll = ofSome
  <2>1. ASSUME NEW pair \in ofAll PROVE pair \in ofSome
    <3>1. PICK x \in DOMAIN values : pair = <<x, values[x]>>
      OBVIOUS
    <3>2. x \in known /\ DOMAIN some = known /\ some[x] = values[x]
      BY <3>1
    <3>3. pair = <<x, some[x]>> /\ pair[2] # Null
      BY <3>1, <3>2
    <3> HIDE DEF some
    <3> QED
      BY <3>2, <3>3
  <2>2. ASSUME NEW pair \in ofSome PROVE pair \in ofAll
    <3>1. PICK x \in known : pair = <<x, some[x]>>
      OBVIOUS
    <3>2. x \in DOMAIN values /\ some[x] = values[x]
      OBVIOUS
    <3> QED
      BY <3>1, <3>2
  <2> HIDE DEF ofAll, ofSome
  <2> QED
    BY <2>1, <2>2
<1>2. SumSql(values) = IF ofAll = {} THEN Null ELSE SumFunction([pair \in ofAll |-> pair[2]])
  BY DEF SumSql
<1>3. SumSql(some) = IF ofSome = {} THEN Null ELSE SumFunction([pair \in ofSome |-> pair[2]])
  BY DEF SumSql
<1> HIDE DEF ofAll, ofSome, some
<1>4. SumSql(some) = SumSql(values)
  BY <1>1, <1>2, <1>3
<1> QED
  BY <1>4 DEF some

\* Sums of counts are counts.
LEMMA SumsAreCounts ==
  ASSUME NEW values, IsFiniteSet(DOMAIN values), \A x \in DOMAIN values : IsCount(values[x])
  PROVE  /\ IsCount(SumSql(values)) /\ OrZero(SumSql(values)) = Cardinality(Counted(values))
         /\ SumSql(values) = Null <=> \A x \in DOMAIN values : values[x] = Null
<1>1. /\ IsFiniteSet(Counted(values))
      /\ SumSql(values) = IF \A x \in DOMAIN values : values[x] = Null THEN Null
                          ELSE Cardinality(Counted(values))
  BY SumOfCounts
<1>2. Cardinality(Counted(values)) \in Nat
  BY <1>1, FS_CardinalityType
<1>3. Cardinality(Counted(values)) # Null
  BY <1>2, NullAssumption
<1>4. (\A x \in DOMAIN values : values[x] = Null) => Cardinality(Counted(values)) = 0
  <2> SUFFICES ASSUME \A x \in DOMAIN values : values[x] = Null
               PROVE  Cardinality(Counted(values)) = 0
    OBVIOUS
  <2>1. Counted(values) = {}
    BY DEF Counted, Upto
  <2> QED
    BY <2>1, FS_EmptySet
<1> QED
  BY <1>1, <1>2, <1>3, <1>4 DEF IsCount, OrZero

\* Of numbers there are, SUM() is the sum.
LEMMA TotalIsSum ==
  ASSUME NEW values, IsFiniteSet(DOMAIN values), DOMAIN values # {},
         values = [x \in DOMAIN values |-> values[x]], \A x \in DOMAIN values : values[x] \in Nat
  PROVE  SumFunction(values) = SumSql(values)
<1> DEFINE K == DOMAIN values
           part == [x \in K |-> {x} \X Upto(values[x])]
<1>1. \A x \in K : IsCount(values[x]) /\ values[x] # Null
  BY NullAssumption DEF IsCount
<1>2. \A x \in K : IsFiniteSet(part[x]) /\ values[x] = Cardinality(part[x])
  <2> SUFFICES ASSUME NEW x \in K PROVE IsFiniteSet(part[x]) /\ values[x] = Cardinality(part[x])
    OBVIOUS
  <2> DEFINE value == values[x]
  <2>1. IsCount(value) /\ value # Null
    BY <1>1
  <2>2. part[x] = {x} \X Upto(value)
    OBVIOUS
  <2> HIDE DEF part, value
  <2> DEFINE mine == {x} \X Upto(value)
  <2>3. IsFiniteSet(mine) /\ (value # Null => value = Cardinality(mine))
    BY <2>1, CountedIsFinite
  <2>4. part[x] = mine
    BY <2>2
  <2> HIDE DEF mine
  <2>5. IsFiniteSet(part[x]) /\ value = Cardinality(part[x])
    BY <2>1, <2>3, <2>4
  <2> QED
    BY <2>5 DEF value
<1>3. \A x, y \in K : x # y => part[x] \cap part[y] = {}
  OBVIOUS
<1>4. Counted(values) = UNION {part[x] : x \in K}
  BY DEF Counted
<1> HIDE DEF part
<1>5. SumFunction(values) = Cardinality(UNION {part[x] : x \in K})
  BY <1>2, <1>3, PartsAddUp
<1>6. SumSql(values) = Cardinality(Counted(values))
  BY <1>1, SumOfCounts
<1> QED
  BY <1>4, <1>5, <1>6

\* The scope of everything.
LEMMA EverythingIsListed ==
  OpsRuns(Everything("all", TRUE)) = {r \in runs : r.status # "pending"}
<1>1. Time!RangeBounds("all", now) = <<Null, Null>>
  BY DEF Time!RangeBounds, Time!DayRange
<1>2. \A t : Time!Within(t, <<Null, Null>>)
  BY DEF Time!Within
<1> QED
  BY <1>1, <1>2 DEF OpsRuns, Everything

\* The verdicts there are, and what they cost.
LEMMA VerdictsAreCounted ==
  ASSUME ReportsInv, NEW rs \in SUBSET runs
  PROVE  /\ IsFiniteSet(VerdictsOf(rs)) /\ \A x \in VerdictsOf(rs) : IsCount(VerdictCost(x))
         /\ VerdictsOf({r \in rs : r.status # "pending"}) = VerdictsOf(rs)
<1>1. IsFiniteSet(rs) /\ \A r \in rs : IsJudged(r)
  BY CitationsAreFinite DEF ReportsInv
<1> DEFINE part == [r \in rs |-> {<<r, v>> : v \in r.verdicts}]
<1>2. ASSUME NEW r \in rs PROVE IsFiniteSet(part[r])
  <2> DEFINE verdicts == r.verdicts
             mine == {<<r, v>> : v \in verdicts}
             g == [v \in verdicts |-> <<r, v>>]
  <2>1. g \in Surjection(verdicts, mine)
    BY DEF Surjection
  <2>2. IsFiniteSet(verdicts)
    BY <1>1 DEF IsJudged
  <2>3. part[r] = mine
    OBVIOUS
  <2> HIDE DEF g, verdicts, mine, part
  <2>4. IsFiniteSet(mine)
    BY <2>1, <2>2, FS_Surjection
  <2> QED
    BY <2>3, <2>4
<1>3. VerdictsOf(rs) = UNION {part[r] : r \in rs}
  BY DEF VerdictsOf
<1>4. \A x \in VerdictsOf(rs) : \E r \in rs : \E v \in r.verdicts : x = <<r, v>>
  BY DEF VerdictsOf
<1> HIDE DEF part
<1>5. IsFiniteSet(UNION {part[r] : r \in rs})
  BY <1>1, <1>2, UnionIsFinite
<1>6. \A x \in VerdictsOf(rs) : IsCount(VerdictCost(x))
  BY <1>1, <1>4 DEF VerdictCost, IsJudged
<1>7. VerdictsOf({r \in rs : r.status # "pending"}) = VerdictsOf(rs)
  <2>1. \A r \in rs : r.status = "pending" => r.verdicts = {}
    BY <1>1 DEF IsJudged
  <2> QED
    BY <2>1 DEF VerdictsOf
<1> QED
  BY <1>3, <1>5, <1>6, <1>7

\* What failed costs nothing, whether or not that is known.
LEMMA FailuresAreFree ==
  ASSUME ReportsInv, NEW r \in runs, r.status # "success"
  PROVE  Upto(CostSql(r)) = {}
<1>1. r.usage = Null /\ Cost(r) = CostSql(r)
  BY FiguresAreCounts DEF ReportsInv, IsJudged
<1>2. RawTokens(Null)[1] = Null
  BY DEF RawTokens
<1>3. \A free, at : EstimateRunCost(Null, free, at) \in {0, Null}
  BY <1>2 DEF EstimateRunCost
<1>4. Cost(r) \in {0, Null}
  BY <1>1, <1>3 DEF Cost
<1>5. 1..0 = {}
  OBVIOUS
<1> QED
  BY <1>1, <1>4, <1>5 DEF Upto

LEMMA SuccessesMakeTheSum ==
  ASSUME ReportsInv, NEW rs \in SUBSET runs, NEW won, won = {r \in rs : r.status = "success"}
  PROVE  /\ IsCount(SqlSum(Cost, won)) /\ IsCount(SqlSum(CostSql, rs))
         /\ OrZero(SqlSum(Cost, won)) = OrZero(SqlSum(CostSql, rs))
         /\ SqlSum(Cost, won) # Null => SqlSum(Cost, won) = SqlSum(CostSql, rs)
<1> DEFINE some == [r \in won |-> Cost(r)]
           every == [r \in rs |-> CostSql(r)]
<1>1. IsFiniteSet(rs) /\ IsFiniteSet(won)
  BY CitationsAreFinite
<1>2. \A r \in rs : IsCount(CostSql(r)) /\ Cost(r) = CostSql(r)
  BY FiguresAreCounts
<1>3. Counted(some) = Counted(every)
  <2>1. \A r \in rs \ won : Upto(CostSql(r)) = {}
    BY FailuresAreFree
  <2>2. Counted(some) = UNION {{r} \X Upto(CostSql(r)) : r \in won}
    <3>1. DOMAIN some = won /\ \A r \in won : some[r] = CostSql(r)
      BY <1>2
    <3> HIDE DEF some
    <3> QED
      BY <3>1 DEF Counted
  <2>3. Counted(every) = UNION {{r} \X Upto(CostSql(r)) : r \in rs}
    BY DEF Counted
  <2>4. \A r \in rs \ won : {r} \X Upto(CostSql(r)) = {}
    BY <2>1
  <2> HIDE DEF some, every
  <2> QED
    BY <2>2, <2>3, <2>4
<1>4. /\ DOMAIN some = won /\ \A r \in won : IsCount(some[r])
      /\ DOMAIN every = rs /\ \A r \in rs : IsCount(every[r])
  BY <1>2
<1>5. \A r \in won : some[r] = every[r]
  BY <1>2
<1>6. SqlSum(Cost, won) = SumSql(some) /\ SqlSum(CostSql, rs) = SumSql(every)
  BY DEF SqlSum
<1> HIDE DEF some, every
<1>7. /\ IsCount(SumSql(some)) /\ OrZero(SumSql(some)) = Cardinality(Counted(some))
      /\ SumSql(some) = Null <=> \A r \in won : some[r] = Null
  BY <1>1, <1>4, SumsAreCounts
<1>8. /\ IsCount(SumSql(every)) /\ OrZero(SumSql(every)) = Cardinality(Counted(every))
      /\ SumSql(every) = Null <=> \A r \in rs : every[r] = Null
  BY <1>1, <1>4, SumsAreCounts
<1>9. SumSql(some) # Null => SumSql(every) # Null
  BY <1>5, <1>7, <1>8
<1> QED
  BY <1>3, <1>6, <1>7, <1>8, <1>9 DEF OrZero

\* What is listed of one client, set or prompt.
LEMMA AllIsNarrowed ==
  ASSUME ReportsInv, NEW x, x # Null
  PROVE  /\ OpsRuns(ClientOnly("all", TRUE, x))
              = {r \in runs : r.status # "pending" /\ ClientOf(r) = x}
         /\ OpsRuns(PromptOnly("all", TRUE, x))
              = {r \in runs : r.status # "pending" /\ PromptOf(r) \in Lineage(x)}
<1> DEFINE range == "all"
           test == TRUE
           all == OpsRuns(Everything(range, test))
<1>1. all = {r \in runs : r.status # "pending"}
  BY EverythingIsListed
<1> HIDE DEF range, test, all
<1>2. /\ OpsRuns(ClientOnly(range, test, x)) = {r \in all : ClientOf(r) = x}
      /\ OpsRuns(PromptOnly(range, test, x)) = {r \in all : PromptOf(r) \in Lineage(x)}
  BY ScopesNarrow DEF all
<1>3. /\ OpsRuns(ClientOnly(range, test, x))
           = {r \in runs : r.status # "pending" /\ ClientOf(r) = x}
      /\ OpsRuns(PromptOnly(range, test, x))
           = {r \in runs : r.status # "pending" /\ PromptOf(r) \in Lineage(x)}
  BY <1>1, <1>2
<1> QED
  BY <1>3 DEF range, test

\* What a client spent this month, where all its runs are of this month.
LEMMA MonthIsSummary ==
  ASSUME ReportsInv, NEW c \in Clients,
         \A r \in ClientRuns(c) : Time!Bucket(r.started, "month") = Time!Bucket(now, "month"),
         NEW rs, rs = OpsRuns(ClientOnly("all", TRUE, c))
  PROVE  OrZero(MonthSpend(c))
           = OrZero(SqlSum(CostSql, rs)) + OrZero(SqlSum(VerdictCost, VerdictsOf(rs)))
<1> DEFINE month == Time!Bucket(now, "month") * Time!Ticks("month")
           mine == ClientRuns(c)
           ended == {r \in mine : r.started >= month /\ r.status # "pending"}
           checked == {x \in VerdictsOf(mine) : x[2].at >= month}
           costs == [r \in rs |-> CostSql(r)]
           verdicts == [x \in VerdictsOf(rs) |-> VerdictCost(x)]
           spent == SumSql(costs)
           judged == SumSql(verdicts)
<1>1. rs = {r \in mine : r.status # "pending"} /\ mine \in SUBSET runs /\ rs \in SUBSET runs
  <2>1. c # Null
    BY NamesAssumption
  <2>2. rs = {r \in runs : r.status # "pending" /\ ClientOf(r) = c}
    BY <2>1, AllIsNarrowed
  <2> QED
    BY <2>2 DEF ClientRuns
<1>2. ASSUME NEW r \in mine
      PROVE  r.started >= month /\ \A v \in r.verdicts : v.at >= month
  <2>1. r \in runs /\ r.started \in Nat /\ IsJudged(r)
    BY <1>1, RunsAreShown DEF ReportsInv
  <2>2. Time!Bucket(r.started, "month") * Time!Ticks("month") = month
    OBVIOUS
  <2>3. "month" \in Units /\ r.started \in Int
    BY <2>1 DEF Units
  <2>4. month \in Int /\ month <= r.started
    <3> HIDE DEF month
    <3> QED
      BY <2>2, <2>3, BucketHasBegun
  <2> HIDE DEF month
  <2> QED
    BY <2>1, <2>4 DEF IsJudged
<1>3. ended = rs
  BY <1>1, <1>2
<1>4. checked = VerdictsOf(rs)
  <2>1. VerdictsOf(rs) = VerdictsOf(mine)
    BY <1>1, VerdictsAreCounted
  <2>2. \A x \in VerdictsOf(mine) : \E r \in mine : \E v \in r.verdicts : x = <<r, v>>
    BY DEF VerdictsOf
  <2> HIDE DEF month, mine
  <2>3. \A x \in VerdictsOf(mine) : x[2].at >= month
    BY <1>2, <2>2
  <2> QED
    BY <2>1, <2>3
<1>5. /\ SqlSum(CostSql, ended) = spent /\ SqlSum(VerdictCost, checked) = judged
      /\ SqlSum(CostSql, rs) = spent /\ SqlSum(VerdictCost, VerdictsOf(rs)) = judged
  <2> HIDE DEF ended, checked
  <2> QED
    BY <1>3, <1>4 DEF SqlSum
<1>6. MonthSpend(c) = IF SqlSum(CostSql, ended) = Null /\ SqlSum(VerdictCost, checked) = Null
                      THEN Null
                      ELSE OrZero(SqlSum(CostSql, ended)) + OrZero(SqlSum(VerdictCost, checked))
  BY DEF MonthSpend
<1>7. IsCount(spent)
  <2>1. DOMAIN costs = rs /\ IsFiniteSet(rs) /\ \A r \in rs : IsCount(costs[r])
    BY <1>1, FiguresAreCounts, CitationsAreFinite
  <2> HIDE DEF costs
  <2> QED
    BY <2>1, SumsAreCounts
<1>8. IsCount(judged)
  <2>1. /\ DOMAIN verdicts = VerdictsOf(rs) /\ IsFiniteSet(VerdictsOf(rs))
        /\ \A x \in VerdictsOf(rs) : IsCount(verdicts[x])
    BY <1>1, VerdictsAreCounted
  <2> HIDE DEF verdicts
  <2> QED
    BY <2>1, SumsAreCounts
<1> HIDE DEF spent, judged, ended, checked
<1>9. MonthSpend(c) = IF spent = Null /\ judged = Null THEN Null
                      ELSE OrZero(spent) + OrZero(judged)
  BY <1>5, <1>6
<1>10. OrZero(MonthSpend(c)) = OrZero(spent) + OrZero(judged)
  <2> DEFINE a == OrZero(spent)
             b == OrZero(judged)
  <2>1. a \in Nat /\ b \in Nat
    BY <1>7, <1>8 DEF IsCount, OrZero
  <2>2. spent = Null /\ judged = Null => a = 0 /\ b = 0
    BY DEF OrZero
  <2>3. MonthSpend(c) = IF spent = Null /\ judged = Null THEN Null ELSE a + b
    BY <1>9
  <2> HIDE DEF a, b
  <2>4. a + b # Null
    BY <2>1, NullAssumption
  <2>5. OrZero(MonthSpend(c)) = a + b
    BY <2>2, <2>3, <2>4 DEF OrZero
  <2> QED
    BY <2>5 DEF a, b
<1> QED
  BY <1>5, <1>10

\* The runs an average is taken of.
Won(prompt, m) ==
  {r \in runs : PromptOf(r) \in Lineage(prompt) /\ r.model = m /\ r.status = "success"}

\* An average has the sum of what it is of, and how many there are.
LEMMA AverageTells ==
  ASSUME ReportsInv, NEW prompt, NEW m, NEW won, won = Won(prompt, m)
  PROVE  /\ AverageCost(prompt, m) = Null <=> SqlSum(Cost, won) = Null
         /\ AverageCost(prompt, m) # Null =>
              /\ AverageCost(prompt, m)[1] = SqlSum(Cost, won)
              /\ AverageCost(prompt, m)[2] \in Nat \ {0}
<1> DEFINE values == [r \in won |-> Cost(r)]
           known == {r \in won : Cost(r) # Null}
           some == [r \in known |-> values[r]]
           count == Cardinality(known)
<1>1. AverageCost(prompt, m) = IF known = {} THEN Null ELSE <<SqlSum(Cost, known), count>>
  BY DEF AverageCost, Average, Won
<1>2. won \in SUBSET runs /\ IsFiniteSet(won)
  BY CitationsAreFinite DEF Won
<1>3. \A r \in won : IsCount(Cost(r))
  BY <1>2, FiguresAreCounts
<1>4. SqlSum(Cost, won) = SumSql(values) /\ SqlSum(Cost, known) = SumSql(some)
  BY DEF SqlSum
<1>5. SumSql(some) = SumSql(values)
  <2>1. known = {r \in DOMAIN values : values[r] # Null}
    OBVIOUS
  <2> HIDE DEF values, known
  <2> QED
    BY <2>1, OnlyTheKnownCount
<1>6. DOMAIN values = won /\ \A r \in won : values[r] = Cost(r)
  OBVIOUS
<1>7. known = {} <=> \A r \in won : values[r] = Null
  OBVIOUS
<1>8. known \subseteq won
  OBVIOUS
<1> HIDE DEF values, known, some
<1>9. /\ IsCount(SumSql(values))
      /\ SumSql(values) = Null <=> known = {}
  BY <1>2, <1>3, <1>6, <1>7, SumsAreCounts
<1>10. known # {} => count \in Nat \ {0}
  BY <1>2, <1>8, FS_Subset, FS_CardinalityType, FS_EmptySet
<1>11. known # {} => <<SumSql(values), count>> \in Nat \X Nat
  BY <1>9, <1>10 DEF IsCount
<1> HIDE DEF count
<1> QED
  BY <1>1, <1>4, <1>5, <1>9, <1>10, <1>11, AverageAssumption

\* The average shown for a prompt and model is of the row of their runs.
LEMMA AverageIsRow ==
  ASSUME ReportsInv, NEW p \in prompts, NEW m, AverageCost(p.id, m) # Null
  PROVE  AverageCost(p.id, m)[1] = ModelRows(OpsRuns(PromptOnly("all", TRUE, p.id)))[m].cost
<1> DEFINE all == OpsRuns(PromptOnly("all", TRUE, p.id))
           rs == {r \in all : r.model = m}
           won == Won(p.id, m)
<1>1. p.id # Null
  BY LineageTells
<1>2. all = {r \in runs : r.status # "pending" /\ PromptOf(r) \in Lineage(p.id)}
  BY <1>1, AllIsNarrowed
<1>3. rs \in SUBSET runs /\ won = {r \in rs : r.status = "success"}
  <2> HIDE DEF all
  <2> QED
    BY <1>2 DEF Won
<1>4. won # {}
  <2>1. CASE won = {}
    <3> DEFINE none == {r \in {} : Cost(r) # Null}
    <3>1. none = {}
      OBVIOUS
    <3>2. AverageCost(p.id, m) = Null
      BY <2>1 DEF AverageCost, Average, Won
    <3> QED
      BY <3>2
  <2> QED
    BY <2>1
<1>5. ModelRows(all)[m].cost = SqlSum(CostSql, rs)
  <2>1. \E r \in all : r.model = m
    BY <1>3, <1>4
  <2> HIDE DEF all
  <2> QED
    BY <2>1 DEF ModelRows, Rows, GroupBy, ModelOf, Row
<1> HIDE DEF all, rs, won
<1>6. /\ AverageCost(p.id, m)[1] = SqlSum(Cost, won) /\ SqlSum(Cost, won) # Null
  BY AverageTells DEF won
<1>7. SqlSum(Cost, won) = SqlSum(CostSql, rs)
  BY <1>3, <1>6, SuccessesMakeTheSum
<1> QED
  BY <1>5, <1>6, <1>7 DEF all

\* The average of a verdict is of all that the summary shows.
LEMMA VerdictAverage ==
  ASSUME ReportsInv, NEW rs, rs = OpsRuns(Everything("all", TRUE)),
         NEW cost, cost = SqlSum(VerdictCost, VerdictsOf(rs))
  PROVE  IF AverageJudgeCost = Null THEN cost = Null ELSE AverageJudgeCost[1] = cost
<1> DEFINE all == VerdictsOf(runs)
           values == [x \in all |-> VerdictCost(x)]
           known == {x \in all : VerdictCost(x) # Null}
           some == [x \in known |-> values[x]]
           count == Cardinality(known)
<1>1. AverageJudgeCost = IF known = {} THEN Null ELSE <<SqlSum(VerdictCost, known), count>>
  BY DEF AverageJudgeCost, Average
<1>2. VerdictsOf(rs) = all
  <2>1. rs = {r \in runs : r.status # "pending"} /\ runs \in SUBSET runs
    BY EverythingIsListed
  <2> QED
    BY <2>1, VerdictsAreCounted
<1>3. IsFiniteSet(all) /\ \A x \in all : IsCount(VerdictCost(x))
  <2>1. runs \in SUBSET runs
    OBVIOUS
  <2> QED
    BY <2>1, VerdictsAreCounted
<1>4. cost = SumSql(values) /\ SqlSum(VerdictCost, known) = SumSql(some)
  BY <1>2 DEF SqlSum
<1>5. SumSql(some) = SumSql(values)
  <2>1. known = {x \in DOMAIN values : values[x] # Null}
    OBVIOUS
  <2> HIDE DEF values, known
  <2> QED
    BY <2>1, OnlyTheKnownCount
<1>6. DOMAIN values = all /\ \A x \in all : values[x] = VerdictCost(x)
  OBVIOUS
<1>7. known = {} <=> \A x \in all : values[x] = Null
  OBVIOUS
<1>8. known \subseteq all
  OBVIOUS
<1> HIDE DEF values, known, some, all
<1>9. /\ IsCount(SumSql(values))
      /\ SumSql(values) = Null <=> known = {}
  BY <1>3, <1>6, <1>7, SumsAreCounts
<1>10. count \in Nat
  BY <1>3, <1>8, FS_Subset, FS_CardinalityType
<1>11. known # {} => <<SumSql(values), count>> \in Nat \X Nat
  BY <1>9, <1>10 DEF IsCount
<1> HIDE DEF count
<1> QED
  BY <1>1, <1>4, <1>5, <1>9, <1>11, AverageAssumption

\* A product of positive numbers is 1 only where all of them are.
LEMMA ProductIsPositive ==
  ASSUME NEW a \in Nat \ {0}, NEW b \in Nat \ {0}
  PROVE  a * b \in Nat \ {0} /\ (a * b = 1 => a = 1 /\ b = 1)
<1>1. b <= a * b /\ a <= a * b /\ a * b \in Nat
  <2>1. (a - 1) * b >= 0 /\ a * (b - 1) >= 0
    OBVIOUS
  <2> QED
    BY <2>1
<1> QED
  BY <1>1

LEMMA ProductOfOne ==
  ASSUME NEW K, IsFiniteSet(K), NEW average, \A k \in K : average[k][2] \in Nat \ {0}
  PROVE  CommonDenominator(average, K) = 1 => \A k \in K : average[k][2] = 1
<1> DEFINE First(s) == CHOOSE x \in s : TRUE
           Product(h, s) == IF s = {} THEN 1 ELSE average[First(s)][2] * h[s \ {First(s)}]
           Folds(h) == h = [s \in SUBSET K |-> Product(h, s)]
           Solves(h, n) == \A s \in SUBSET K : Cardinality(s) <= n => h[s] = Product(h, s)
<1>1. ASSUME NEW s \in SUBSET K
      PROVE  IsFiniteSet(s) /\ Cardinality(s) \in Nat /\ Cardinality(s) <= Cardinality(K)
  BY FS_Subset, FS_CardinalityType
<1>2. Cardinality(K) \in Nat /\ Cardinality({}) = 0
  BY FS_CardinalityType, FS_EmptySet
<1>3. ASSUME NEW s \in SUBSET K, s # {}
      PROVE  /\ First(s) \in s /\ s \ {First(s)} \in SUBSET K
             /\ Cardinality(s \ {First(s)}) = Cardinality(s) - 1
  <2>1. First(s) \in s
    BY <1>3
  <2> HIDE DEF First
  <2> QED
    BY <1>1, <2>1, FS_RemoveElement
<1>4. ASSUME NEW n \in Nat, NEW h, Solves(h, n),
             NEW g, g = [s \in SUBSET K |-> Product(h, s)]
      PROVE  Solves(g, n + 1)
  <2> SUFFICES ASSUME NEW s \in SUBSET K, Cardinality(s) <= n + 1 PROVE g[s] = Product(g, s)
    OBVIOUS
  <2>1. CASE s = {}
    BY <1>4, <2>1
  <2>2. CASE s # {}
    <3> DEFINE rest == s \ {First(s)}
    <3>1. rest \in SUBSET K /\ Cardinality(rest) <= n
      BY <1>1, <1>3, <2>2
    <3>2. h[rest] = Product(h, rest) /\ g[rest] = Product(h, rest)
      BY <1>4, <3>1
    <3>3. g[s] = average[First(s)][2] * h[rest]
      BY <1>4, <2>2
    <3>4. Product(g, s) = average[First(s)][2] * g[rest]
      BY <2>2
    <3> HIDE DEF Product, rest, First
    <3> QED
      BY <3>2, <3>3, <3>4
  <2> QED
    BY <2>1, <2>2
<1>5. \A n \in Nat : \E h : Solves(h, n)
  <2> DEFINE wrong == {n \in Nat : ~ \E h : Solves(h, n)}
  <2> HIDE DEF Solves
  <2>1. SUFFICES ASSUME wrong # {} PROVE FALSE
    OBVIOUS
  <2>2. wrong \subseteq Nat
    OBVIOUS
  <2>3. \E h : Solves(h, 0)
    <3> USE DEF Solves
    <3> DEFINE h == [s \in SUBSET K |-> 1]
    <3>1. \A s \in SUBSET K : Cardinality(s) <= 0 => s = {}
      BY <1>1, FS_EmptySet
    <3>2. \A s \in SUBSET K : s = {} => h[s] = Product(h, s)
      OBVIOUS
    <3> HIDE DEF h, Product
    <3>3. Solves(h, 0)
      BY <3>1, <3>2
    <3> QED
      BY <3>3
  <2>4. 0 \notin wrong
    BY <2>3
  <2>5. \A n \in Nat : n \notin wrong => n + 1 \notin wrong
    <3> SUFFICES ASSUME NEW n \in Nat, NEW h, Solves(h, n) PROVE \E g : Solves(g, n + 1)
      OBVIOUS
    <3> DEFINE g == [s \in SUBSET K |-> Product(h, s)]
    <3>1. g = [s \in SUBSET K |-> Product(h, s)]
      OBVIOUS
    <3> HIDE DEF g, Product
    <3>2. Solves(g, n + 1)
      BY <1>4, <3>1
    <3> QED
      BY <3>2
  <2> HIDE DEF wrong
  <2>6. Min(wrong) \in wrong /\ \A n \in wrong : Min(wrong) <= n
    BY <2>1, <2>2, MinIsLeast
  <2> DEFINE least == Min(wrong)
             before == least - 1
  <2>7. least \in wrong /\ (\A n \in wrong : least <= n) /\ least \in Nat \ {0}
    BY <2>2, <2>4, <2>6
  <2> HIDE DEF least
  <2>8. before \in Nat /\ before < least /\ before + 1 = least
    BY <2>7
  <2> HIDE DEF before
  <2>9. before \notin wrong
    BY <2>7, <2>8
  <2> QED
    BY <2>5, <2>7, <2>8, <2>9
<1>6. \E h : Folds(h)
  <2>1. PICK h : Solves(h, Cardinality(K))
    BY <1>2, <1>5
  <2> DEFINE g == [s \in SUBSET K |-> Product(h, s)]
  <2>2. \A s \in SUBSET K : h[s] = Product(h, s)
    BY <1>1, <2>1
  <2>3. ASSUME NEW s \in SUBSET K PROVE Product(g, s) = Product(h, s)
    <3>1. CASE s = {}
      BY <3>1
    <3>2. CASE s # {}
      <4> DEFINE rest == s \ {First(s)}
      <4>1. rest \in SUBSET K
        BY <1>3, <3>2
      <4>2. g[rest] = h[rest]
        BY <2>2, <4>1
      <4> HIDE DEF g
      <4> QED
        BY <3>2, <4>2
    <3> QED
      BY <3>1, <3>2
  <2>4. g = [s \in SUBSET K |-> Product(g, s)]
    <3> HIDE DEF Product
    <3>1. g = [s \in SUBSET K |-> Product(h, s)]
      OBVIOUS
    <3> HIDE DEF g
    <3> QED
      BY <2>3, <3>1
  <2> HIDE DEF g, Product
  <2> QED
    BY <2>4
<1> DEFINE iter == CHOOSE h : Folds(h)
<1>7. Folds(iter)
  BY <1>6
<1>8. CommonDenominator(average, K) = iter[K]
  BY DEF CommonDenominator, FoldSet, MapThenFoldSet
<1> HIDE DEF iter
<1>9. \A s \in SUBSET K : iter[s] = Product(iter, s)
  BY <1>7
<1> HIDE DEF Folds, Solves
<1> DEFINE Right(s) == iter[s] \in Nat \ {0} /\ (iter[s] = 1 => \A k \in s : average[k][2] = 1)
<1>10. ASSUME NEW s \in SUBSET K, s # {}, Right(s \ {First(s)})
       PROVE  Right(s)
  <2> DEFINE rest == s \ {First(s)}
             a == average[First(s)][2]
             b == iter[rest]
  <2>1. First(s) \in s /\ a \in Nat \ {0} /\ b \in Nat \ {0}
    BY <1>3, <1>10
  <2>2. iter[s] = a * b
    BY <1>9, <1>10
  <2>3. b = 1 => \A k \in rest : average[k][2] = 1
    BY <1>10
  <2>4. \A k \in s : k = First(s) \/ k \in rest
    OBVIOUS
  <2>5. a = average[First(s)][2]
    OBVIOUS
  <2> HIDE DEF First, rest, a, b
  <2>6. a * b \in Nat \ {0} /\ (a * b = 1 => a = 1 /\ b = 1)
    BY <2>1, ProductIsPositive
  <2> QED
    BY <2>2, <2>3, <2>4, <2>5, <2>6
<1>11. Right({})
  <2> DEFINE none == {}
  <2>1. none \in SUBSET K /\ none = {}
    OBVIOUS
  <2> HIDE DEF none
  <2>2. iter[none] = 1
    BY <1>9, <2>1
  <2>3. Right(none)
    BY <2>1, <2>2
  <2> QED
    BY <2>3 DEF none
<1> HIDE DEF Right, Product
<1>12. \A s \in SUBSET K : Right(s)
  <2> DEFINE wrong == {s \in SUBSET K : ~Right(s)}
             sizes == {Cardinality(s) : s \in wrong}
  <2>1. SUFFICES ASSUME wrong # {} PROVE FALSE
    OBVIOUS
  <2>2. sizes \subseteq Nat /\ sizes # {}
    BY <1>1, <2>1
  <2>3. \A s \in wrong : s \in SUBSET K /\ ~Right(s)
    OBVIOUS
  <2>4. \A s \in SUBSET K : s \notin wrong => Right(s)
    OBVIOUS
  <2> HIDE DEF wrong
  <2>5. Min(sizes) \in sizes /\ \A n \in sizes : Min(sizes) <= n
    BY <2>2, MinIsLeast
  <2>6. PICK s \in wrong : Min(sizes) = Cardinality(s)
    BY <2>5
  <2>7. \A t \in wrong : Cardinality(s) <= Cardinality(t)
    BY <2>5, <2>6
  <2>8. s # {} /\ s \in SUBSET K
    BY <1>11, <2>3
  <2> HIDE DEF First
  <2>9. /\ s \ {First(s)} \in SUBSET K /\ Cardinality(s) \in Nat
        /\ Cardinality(s \ {First(s)}) = Cardinality(s) - 1
    BY <1>1, <1>3, <2>8
  <2>10. s \ {First(s)} \notin wrong
    BY <2>7, <2>9
  <2> QED
    BY <1>10, <2>3, <2>4, <2>8, <2>9, <2>10
<1>13. iter[K] = 1 => \A k \in K : average[k][2] = 1
  BY <1>12 DEF Right
<1> QED
  BY <1>8, <1>13

\* The first version of a lineage stands for it.
LEMMA LineageOfRoot ==
  ASSUME ReportsInv, NEW p \in prompts, NEW q \in prompts
  PROVE  q \in Lineage(RootOf(p)) <=> RootOf(q) = RootOf(p)
<1>1. PICK first \in prompts : first.id = RootOf(p) /\ RootOf(first) = first.id
  BY DEF ReportsInv, ArePrompts
<1>2. q \in Lineage(first.id) <=> RootOf(q) = RootOf(first)
  BY LineageTells
<1> QED
  BY <1>1, <1>2

\* The runs of one combination of a window are those an average is taken of.
Succeeded(set) == {r \in runs : SetOf(r) = set /\ r.status = "success"}
Combination(r) == <<RootOf(PromptOf(r)), r.model>>

LEMMA CombinationsAreWon ==
  ASSUME ReportsInv, NEW set, NEW p \in prompts, p.set = set, NEW m
  PROVE  Won(RootOf(p), m) = {r \in Succeeded(set) : Combination(r) = <<RootOf(p), m>>}
<1>1. ASSUME NEW r \in runs
      PROVE  /\ PromptOf(r) \in Lineage(RootOf(p)) <=> RootOf(PromptOf(r)) = RootOf(p)
             /\ RootOf(PromptOf(r)) = RootOf(p) => SetOf(r) = set
  <2>1. PromptOf(r) \in prompts
    BY PromptIsThere
  <2>2. RootOf(PromptOf(r)) = RootOf(p) => PromptOf(r).set = p.set
    BY <2>1, LineageTells
  <2> QED
    BY <2>1, <2>2, LineageOfRoot DEF SetOf
<1>2. Won(RootOf(p), m) = {r \in Succeeded(set) : RootOf(PromptOf(r)) = RootOf(p) /\ r.model = m}
  BY <1>1 DEF Won, Succeeded
<1>3. \A r : Combination(r) = <<RootOf(p), m>> <=> RootOf(PromptOf(r)) = RootOf(p) /\ r.model = m
  BY DEF Combination
<1> QED
  BY <1>2, <1>3

\* The sums of the combinations of some runs are the sum of the runs.
Combined(sums, key, won) ==
  /\ DOMAIN key = won
  /\ sums = [x \in {key[r] : r \in won} |-> SqlSum(Cost, {r \in won : key[r] = x})]

LEMMA CombinationsAddUp ==
  ASSUME ReportsInv, NEW won \in SUBSET runs, NEW key, NEW sums, Combined(sums, key, won)
  PROVE  /\ IsFiniteSet(DOMAIN sums) /\ \A x \in DOMAIN sums : IsCount(sums[x])
         /\ SumSql(sums) = SqlSum(Cost, won)
<1> DEFINE K == {key[r] : r \in won}
           part == [x \in K |-> {r \in won : key[r] = x}]
           costs == [r \in won |-> Cost(r)]
<1>1. IsFiniteSet(won) /\ \A r \in won : IsCount(Cost(r))
  BY CitationsAreFinite, FiguresAreCounts
<1>2. Parts(part, K, won)
  BY <1>1, KeysPartition DEF Combined
<1>3. ASSUME NEW x \in K
      PROVE  /\ sums[x] = SumSql([r \in part[x] |-> costs[r]])
             /\ IsCount(SumSql([r \in part[x] |-> costs[r]]))
  <2> DEFINE mine == [r \in part[x] |-> costs[r]]
  <2>1. part[x] \subseteq won
    OBVIOUS
  <2>2. mine = [r \in part[x] |-> Cost(r)]
    BY <2>1
  <2>3. DOMAIN mine = part[x] /\ \A r \in part[x] : mine[r] = Cost(r)
    BY <2>1
  <2>4. sums[x] = SqlSum(Cost, part[x])
    BY DEF Combined
  <2> HIDE DEF part, mine, costs
  <2>5. sums[x] = SumSql(mine)
    BY <2>2, <2>4 DEF SqlSum
  <2>6. IsFiniteSet(part[x]) /\ \A r \in part[x] : IsCount(mine[r])
    BY <1>1, <2>1, <2>3, FS_Subset
  <2>7. IsCount(SumSql(mine))
    BY <2>3, <2>6, SumsAreCounts
  <2> QED
    BY <2>5, <2>7 DEF mine
<1>4. SqlSum(Cost, won) = SumSql(costs)
  BY DEF SqlSum
<1>5. DOMAIN costs = won /\ \A r \in won : costs[r] = Cost(r)
  OBVIOUS
<1>6. DOMAIN sums = K
  BY DEF Combined
<1> HIDE DEF part, costs, K
<1>7. Sums(sums, costs, part, K)
  BY <1>3, <1>6 DEF Sums
<1>8. SumSql(sums) = SumSql(costs)
  BY <1>1, <1>2, <1>5, <1>7, PartsSum
<1> QED
  BY <1>2, <1>3, <1>4, <1>6, <1>8 DEF Parts

\* Where every average is of one run, what a window is expected to cost is what they cost.
LEMMA SharesAddUp ==
  ASSUME NEW K, IsFiniteSet(K), NEW sums, DOMAIN sums = K, \A x \in K : IsCount(sums[x]),
         NEW known, known = {x \in K : sums[x] # Null}, known # {},
         NEW average, \A x \in known : average[x][1] = sums[x] /\ average[x][2] \in Nat \ {0},
         CommonDenominator(average, known) = 1,
         NEW shares, shares = [x \in known |-> (average[x][1] * 1 * 1) \div average[x][2]]
  PROVE  SumFunction(shares) = SumSql(sums) /\ SumSql(sums) # Null
<1> DEFINE some == [x \in known |-> sums[x]]
<1>1. IsFiniteSet(known)
  BY FS_Subset
<1>2. \A x \in known : average[x][2] = 1
  BY <1>1, ProductOfOne
<1>3. \A x \in known : sums[x] \in Nat
  BY DEF IsCount
<1>4. \A a \in Nat : (a * 1 * 1) \div 1 = a
  OBVIOUS
<1>5. shares = some
  BY <1>2, <1>3, <1>4
<1>6. DOMAIN some = known /\ \A x \in known : some[x] = sums[x]
  OBVIOUS
<1>7. some = [x \in DOMAIN some |-> some[x]]
  OBVIOUS
<1>8. SumSql(some) = SumSql(sums)
  BY OnlyTheKnownCount
<1>9. SumSql(sums) # Null
  BY SumsAreCounts
<1> HIDE DEF some
<1>10. SumFunction(some) = SumSql(some)
  BY <1>1, <1>3, <1>6, <1>7, TotalIsSum
<1> QED
  BY <1>5, <1>8, <1>9, <1>10

\* What a window of a set is expected to cost, where no combination was run twice.
LEMMA WindowIsRow ==
  ASSUME ReportsInv, NEW set \in Sets
  PROVE  WindowOf(set)
<1> DEFINE lineages == {RootOf(p) : p \in {p \in prompts : p.set = set}}
           D == lineages \X DOMAIN models
           average == [x \in D |-> AverageCost(x[1], x[2])]
           known == {x \in D : average[x] # Null}
           scale == CommonDenominator(average, known)
           shares == [x \in known |-> (average[x][1] * 1 * scale) \div average[x][2]]
           all == OpsRuns(Everywhere)
           rs == {r \in runs : SetOf(r) = set /\ r.status # "pending"}
           won == Succeeded(set)
           key == [r \in won |-> Combination(r)]
           K == {key[r] : r \in won}
           sums == [x \in K |-> SqlSum(Cost, {r \in won : key[r] = x})]
           row == RowAt(PromptSetRows(all), set)
           estimate == WindowEstimate(lineages, DOMAIN models, 1)
<1>1. WindowOf(set) <=> IF estimate.known = 0 THEN OrZero(row.cost) = 0
                        ELSE estimate.cost[2] = 1 => estimate.cost[1] = row.cost
  BY DEF WindowOf
<1>2. estimate = [cost |-> IF known = {} THEN Null ELSE <<SumFunction(shares), scale>>,
                  known |-> Cardinality(known)]
  BY DEF WindowEstimate, Total
<1>3. row.cost = SqlSum(CostSql, rs)
  <2>1. all = {r \in runs : r.status # "pending"}
    BY EverythingIsListed DEF Everywhere
  <2>2. rs = {r \in all : SetOf(r) = set}
    BY <2>1
  <2> HIDE DEF all, rs
  <2>3. set \in DOMAIN PromptSetRows(all) => PromptSetRows(all)[set] = Row(rs)
    BY <2>2 DEF PromptSetRows, Rows, GroupBy
  <2>4. set \notin DOMAIN PromptSetRows(all) => rs = {}
    BY <2>2 DEF PromptSetRows, Rows, GroupBy
  <2> DEFINE rows == PromptSetRows(all)
  <2>5. /\ set \in DOMAIN rows => rows[set] = Row(rs)
        /\ set \notin DOMAIN rows => rs = {}
    BY <2>3, <2>4
  <2> HIDE DEF rows
  <2>6. RowAt(rows, set) = Row(rs)
    BY <2>5, RowOfGroup
  <2> QED
    BY <2>6 DEF rows, Row
<1>4. /\ rs \in SUBSET runs /\ won \in SUBSET runs /\ won = {r \in rs : r.status = "success"}
  BY DEF Succeeded
<1>5. /\ IsCount(SqlSum(CostSql, rs)) /\ OrZero(SqlSum(Cost, won)) = OrZero(SqlSum(CostSql, rs))
      /\ SqlSum(Cost, won) # Null => SqlSum(Cost, won) = SqlSum(CostSql, rs)
  <2> HIDE DEF rs, won
  <2> QED
    BY <1>4, SuccessesMakeTheSum
<1>6. ASSUME NEW x \in D
      PROVE  /\ average[x] = AverageCost(x[1], x[2])
             /\ Won(x[1], x[2]) = {r \in won : key[r] = x}
  <2>1. PICK p \in prompts : p.set = set /\ x[1] = RootOf(p)
    OBVIOUS
  <2>2. x = <<RootOf(p), x[2]>>
    BY <2>1
  <2> DEFINE m == x[2]
  <2>3. \A r \in won : key[r] = Combination(r)
    OBVIOUS
  <2> HIDE DEF m, key
  <2>4. Won(RootOf(p), m) = {r \in won : key[r] = <<RootOf(p), m>>}
    BY <2>1, <2>3, CombinationsAreWon
  <2> QED
    BY <2>1, <2>2, <2>4 DEF m
<1>7. K \subseteq D
  <2> SUFFICES ASSUME NEW r \in won PROVE key[r] \in D
    OBVIOUS
  <2>1. PromptOf(r) \in prompts /\ PromptOf(r).set = set
    BY PromptIsThere DEF SetOf, Succeeded
  <2>2. r.model \in DOMAIN models
    BY DEF ReportsInv, SpendingInv, RunsInv, IsRun, Succeeded
  <2> QED
    BY <2>1, <2>2 DEF Combination
<1>8. /\ IsFiniteSet(K) /\ \A x \in K : IsCount(sums[x])
      /\ SumSql(sums) = SqlSum(Cost, won)
  <2>1. DOMAIN sums = K /\ Combined(sums, key, won)
    BY DEF Combined
  <2> HIDE DEF won, key, K, sums
  <2> QED
    BY <1>4, <2>1, CombinationsAddUp
<1>9. DOMAIN sums = K /\ \A x \in K : sums[x] = SqlSum(Cost, {r \in won : key[r] = x})
  OBVIOUS
<1>10. \A x \in D : x \notin K => {r \in won : key[r] = x} = {}
  OBVIOUS
<1> HIDE DEF D, average, won, key, K, sums, rs, row, estimate
<1>11. ASSUME NEW x \in K
       PROVE  /\ average[x] = Null <=> sums[x] = Null
              /\ average[x] # Null => average[x][1] = sums[x] /\ average[x][2] \in Nat \ {0}
  <2> DEFINE mine == Won(x[1], x[2])
  <2>1. /\ AverageCost(x[1], x[2]) = Null <=> SqlSum(Cost, mine) = Null
        /\ AverageCost(x[1], x[2]) # Null =>
             /\ AverageCost(x[1], x[2])[1] = SqlSum(Cost, mine)
             /\ AverageCost(x[1], x[2])[2] \in Nat \ {0}
    <3> HIDE DEF mine
    <3> QED
      BY AverageTells DEF mine
  <2>2. average[x] = AverageCost(x[1], x[2]) /\ mine = {r \in won : key[r] = x}
    BY <1>6, <1>7
  <2> QED
    BY <1>9, <2>1, <2>2
<1>12. ASSUME NEW x \in D, x \notin K
       PROVE  average[x] = Null
  <2>1. Won(x[1], x[2]) = {}
    BY <1>6, <1>10, <1>12
  <2>2. AverageCost(x[1], x[2]) = Null
    BY <2>1 DEF AverageCost, Average, Won
  <2> QED
    BY <1>6, <2>2
<1>13. known = {x \in K : sums[x] # Null}
  BY <1>7, <1>11, <1>12
<1>14. \A x \in known : average[x][1] = sums[x] /\ average[x][2] \in Nat \ {0}
  BY <1>11, <1>13
<1>15. IsFiniteSet(known)
  BY <1>8, <1>13, FS_Subset
<1> HIDE DEF known, scale
<1>16. Cardinality(known) = 0 <=> known = {}
  BY <1>15, FS_EmptySet
<1>17. CASE known = {}
  <2>1. \A x \in K : sums[x] = Null
    BY <1>13, <1>17
  <2>2. SumSql(sums) = Null
    BY <1>8, <1>9, <2>1, SumsAreCounts
  <2>3. OrZero(row.cost) = 0
    BY <1>3, <1>5, <1>8, <2>2 DEF OrZero
  <2>4. estimate.known = 0
    BY <1>2, <1>16, <1>17
  <2> QED
    BY <1>1, <2>3, <2>4
<1>18. CASE known # {}
  <2>1. estimate.known # 0 /\ estimate.cost = <<SumFunction(shares), scale>>
    <3> HIDE DEF shares
    <3> QED
      BY <1>2, <1>16, <1>18
  <2>2. ASSUME scale = 1 PROVE SumFunction(shares) = row.cost
    <3>1. shares = [x \in known |-> (average[x][1] * 1 * 1) \div average[x][2]]
      BY <2>2
    <3>2. CommonDenominator(average, known) = 1
      BY <2>2 DEF scale
    <3> HIDE DEF shares
    <3>3. SumFunction(shares) = SumSql(sums) /\ SumSql(sums) # Null
      BY <1>8, <1>9, <1>13, <1>14, <1>18, <3>1, <3>2, SharesAddUp
    <3> QED
      BY <1>3, <1>5, <1>8, <3>3
  <2> QED
    BY <1>1, <2>1, <2>2
<1> QED
  BY <1>17, <1>18

\* Whatever is run, edited, flagged and judged meanwhile, what is spent comes out the same
\* wherever it is shown: the month of the budget warning is what the client's summary shows,
\* the average of a prompt and model, of a verdict, and the window of a schedule expected
\* from them are of the sums in the tables, priced in SQL there and in Python here.
THEOREM SpendingIsShownAlike == Spec => []SpendingIsOne
<1>1. ASSUME ReportsInv PROVE SpendingIsOne
  <2>1. ASSUME NEW c \in Clients,
               \A r \in ClientRuns(c) :
                 Time!Bucket(r.started, "month") = Time!Bucket(now, "month"),
               NEW summary, summary = OpsSummary(OpsRuns([Everywhere EXCEPT !.client = c]))
        PROVE  OrZero(MonthSpend(c)) = OrZero(summary.cost) + OrZero(summary.verification)
    <3> DEFINE rs == OpsRuns(ClientOnly("all", TRUE, c))
    <3>1. summary = OpsSummary(rs)
      BY <2>1 DEF ClientOnly, Everywhere
    <3> HIDE DEF rs
    <3>2. /\ summary.cost = SqlSum(CostSql, rs)
          /\ summary.verification = SqlSum(VerdictCost, VerdictsOf(rs))
      BY <3>1 DEF OpsSummary
    <3>3. OrZero(MonthSpend(c))
            = OrZero(SqlSum(CostSql, rs)) + OrZero(SqlSum(VerdictCost, VerdictsOf(rs)))
      BY <1>1, <2>1, MonthIsSummary DEF rs
    <3> QED
      BY <3>2, <3>3
  <2>2. ASSUME NEW p \in prompts, NEW m \in DOMAIN models, AverageCost(p.id, m) # Null
        PROVE  AverageCost(p.id, m)[1]
                 = ModelRows(OpsRuns([Everywhere EXCEPT !.prompt = p.id]))[m].cost
    <3>1. AverageCost(p.id, m)[1] = ModelRows(OpsRuns(PromptOnly("all", TRUE, p.id)))[m].cost
      BY <1>1, <2>2, AverageIsRow
    <3> QED
      BY <3>1 DEF PromptOnly, Everywhere
  <2>3. \A set \in Sets : WindowOf(set)
    BY <1>1, WindowIsRow
  <2>4. ASSUME NEW summary, summary = OpsSummary(OpsRuns(Everywhere))
        PROVE  IF AverageJudgeCost = Null THEN summary.verification = Null
               ELSE AverageJudgeCost[1] = summary.verification
    <3> DEFINE rs == OpsRuns(Everywhere)
               cost == SqlSum(VerdictCost, VerdictsOf(rs))
    <3>1. summary.verification = cost
      BY <2>4 DEF OpsSummary
    <3>2. rs = OpsRuns(Everything("all", TRUE))
      BY DEF Everywhere
    <3> HIDE DEF rs
    <3>3. cost = SqlSum(VerdictCost, VerdictsOf(rs))
      OBVIOUS
    <3> HIDE DEF cost
    <3>4. IF AverageJudgeCost = Null THEN cost = Null ELSE AverageJudgeCost[1] = cost
      BY <1>1, <3>2, <3>3, VerdictAverage
    <3> QED
      BY <3>1, <3>4
  <2> QED
    BY <2>1, <2>2, <2>3, <2>4 DEF SpendingIsOne
<1> QED
  BY <1>1, ReportsInvInit, ReportsInvStep, PTL DEF Spec

-----------------------------------------------------------------------------
(* LeagueAddsUp: the inductive invariant *)

\* One job judges a citation once, and no two jobs end at the same moment.
JudgedOnce(r) ==
  /\ \A v \in r.verdicts : v.cite \in DOMAIN r.ask.cites /\ v.verdict \in JudgeVerdicts
  /\ \A v, w \in r.verdicts : v.cite = w.cite /\ v.at = w.at => v = w

\* A run that was judged is of a provider that is judged, which is none of the excluded.
VerdictsInv ==
  \A r \in runs : /\ JudgedOnce(r) /\ \A v \in r.verdicts : v.at < now
                  /\ r.verdicts # {} => ProviderOf(r) \in LLM_JUDGE_PROVIDERS

LeagueInv == ReportsInv /\ VerdictsInv

\* Runs that keep what they were asked and their verdicts keep the invariant as time goes on.
LEMMA VerdictsStay ==
  ASSUME VerdictsInv, models' = models, now \in Nat, now' \in Nat, now <= now',
         \A r \in runs : IsJudged(r),
         \A r \in runs' : \/ r.verdicts = {}
                          \/ \E q \in runs : /\ r.verdicts = q.verdicts /\ r.ask = q.ask
                                             /\ r.model = q.model
  PROVE  VerdictsInv'
<1> SUFFICES ASSUME NEW r \in runs'
             PROVE  /\ JudgedOnce(r)' /\ (\A v \in r.verdicts : v.at < now')
                    /\ r.verdicts # {} => ProviderOf(r)' \in LLM_JUDGE_PROVIDERS
  BY DEF VerdictsInv
<1>1. CASE r.verdicts = {}
  BY <1>1 DEF JudgedOnce
<1>2. ASSUME NEW q \in runs, r.verdicts = q.verdicts, r.ask = q.ask, r.model = q.model
      PROVE  /\ JudgedOnce(r)' /\ (\A v \in r.verdicts : v.at < now')
             /\ r.verdicts # {} => ProviderOf(r)' \in LLM_JUDGE_PROVIDERS
  <2>1. \A v \in q.verdicts : v.at \in Nat /\ v.at < now
    BY DEF VerdictsInv, IsJudged
  <2>2. \A v \in r.verdicts : v.at < now'
    BY <1>2, <2>1
  <2>3. JudgedOnce(q) /\ (q.verdicts # {} => ProviderOf(q) \in LLM_JUDGE_PROVIDERS)
    BY DEF VerdictsInv
  <2> QED
    BY <1>2, <2>2, <2>3 DEF JudgedOnce, ProviderOf
<1> QED
  BY <1>1, <1>2

\* The verdicts of one job are later than all there are, and one for each citation.
LEMMA VerdictsOfAJob ==
  ASSUME ReportsInv, VerdictsInv, NEW r \in runs, Judge(r)
  PROVE  VerdictsInv'
<1>1. PICK judged \in Judgements :
        LET mine == DOMAIN judged \cap DOMAIN r.ask.cites IN
        runs' = (runs \ {r}) \cup {[r EXCEPT !.verdicts = @ \cup
          {[cite |-> i, at |-> now, verdict |-> judged[i].verdict, cost |-> judged[i].cost] :
             i \in mine}]}
  BY DEF Judge
<1> DEFINE mine == DOMAIN judged \cap DOMAIN r.ask.cites
           added == {[cite |-> i, at |-> now, verdict |-> judged[i].verdict,
                      cost |-> judged[i].cost] : i \in mine}
           verdicts == r.verdicts \cup added
<1>2. /\ now' = now + 1 /\ models' = models /\ now \in Nat
      /\ ProviderOf(r) \in LLM_JUDGE_PROVIDERS
  BY RunsAreShown DEF Judge, priceVars
<1>3. PICK new : /\ runs' = (runs \ {r}) \cup {new}
                 /\ new = [r EXCEPT !.verdicts = verdicts]
  <2> HIDE DEF added
  <2>1. added = {[cite |-> i, at |-> now, verdict |-> judged[i].verdict,
                  cost |-> judged[i].cost] : i \in mine}
    BY DEF added
  <2> QED
    BY <1>1, <2>1
<1>4. new.verdicts = verdicts /\ new.ask = r.ask /\ new.model = r.model
  <2>1. IsRun(r)
    BY DEF ReportsInv, SpendingInv, RunsInv
  <2> HIDE DEF verdicts
  <2> QED
    BY <1>3, <2>1 DEF IsRun
<1>5. \A v \in added : /\ v.cite \in DOMAIN r.ask.cites /\ v.verdict \in JudgeVerdicts
                       /\ v.at = now
  BY JudgementsAssumption
<1>6. \A v, w \in added : v.cite = w.cite => v = w
  OBVIOUS
<1> HIDE DEF added
<1>7. JudgedOnce(r) /\ \A v \in r.verdicts : v.at \in Nat /\ v.at < now
  BY DEF VerdictsInv, ReportsInv, IsJudged
<1>8. \A v \in verdicts : /\ v.cite \in DOMAIN r.ask.cites /\ v.verdict \in JudgeVerdicts
                          /\ v.at < now'
  BY <1>2, <1>5, <1>7 DEF JudgedOnce
<1>9. \A v, w \in verdicts : v.cite = w.cite /\ v.at = w.at => v = w
  BY <1>2, <1>5, <1>6, <1>7 DEF JudgedOnce
<1> HIDE DEF verdicts
<1>10. JudgedOnce(new)
  BY <1>4, <1>8, <1>9 DEF JudgedOnce
<1>11. ProviderOf(new)' = ProviderOf(r)
  BY <1>2, <1>4 DEF ProviderOf
<1>12. ASSUME NEW q \in runs, q # r
       PROVE  /\ JudgedOnce(q) /\ (\A v \in q.verdicts : v.at < now')
              /\ q.verdicts # {} => ProviderOf(q)' \in LLM_JUDGE_PROVIDERS
  <2>1. \A v \in q.verdicts : v.at \in Nat /\ v.at < now
    BY DEF VerdictsInv, ReportsInv, IsJudged
  <2>2. JudgedOnce(q) /\ (q.verdicts # {} => ProviderOf(q) \in LLM_JUDGE_PROVIDERS)
    BY DEF VerdictsInv
  <2> QED
    BY <1>2, <2>1, <2>2 DEF ProviderOf
<1> QED
  BY <1>2, <1>3, <1>4, <1>8, <1>10, <1>11, <1>12 DEF VerdictsInv, JudgedOnce

LEMMA LeagueInvStep == LeagueInv /\ [Next]_vars => LeagueInv'
<1> SUFFICES ASSUME ReportsInv, VerdictsInv, [Next]_vars PROVE VerdictsInv'
  BY ReportsInvStep DEF LeagueInv
<1>1. now \in Nat /\ \A r \in runs : IsJudged(r) /\ IsRun(r)
  BY RunsAreShown DEF ReportsInv, SpendingInv, RunsInv
<1>2. ASSUME now' = now, models' = models, runs' = runs PROVE VerdictsInv'
  BY <1>2 DEF VerdictsInv, JudgedOnce, ProviderOf
<1>3. CASE Ask
  <2>1. PICK ask \in Asks, p \in prompts :
          StartRun(ask.model, [prompt |-> p.id, by |-> ask.by, trigger |-> ask.trigger,
                               cites |-> ask.cites], ask.wait)
    BY <1>3 DEF Ask
  <2> DEFINE new == [id |-> Cardinality(runs) + 1, model |-> ask.model,
        started |-> now + ask.wait, status |-> "pending", api |-> models[ask.model].provider,
        usage |-> Null, verdicts |-> {},
        ask |-> [prompt |-> p.id, by |-> ask.by, trigger |-> ask.trigger,
                 cites |-> ask.cites]]
  <2>2. runs' = runs \cup {new} /\ new.verdicts = {}
    BY <2>1 DEF StartRun
  <2>3. now' = now + ask.wait + 1 /\ models' = models /\ ask.wait \in Nat
    BY <2>1, AsksAssumption DEF StartRun, priceVars
  <2> HIDE DEF new
  <2> QED
    BY <1>1, <2>2, <2>3, VerdictsStay
<1>4. ASSUME NEW r \in runs, End(r) PROVE VerdictsInv'
  <2>1. PICK status, usage : Ends(r, status, usage)
    BY <1>4 DEF End, EndRun
  <2> DEFINE ended == [r EXCEPT !.status = status]
             new == [ended EXCEPT !.usage = usage]
  <2>2. runs' = (runs \ {r}) \cup {new}
    BY <2>1 DEF Ends
  <2>3. new.verdicts = r.verdicts /\ new.ask = r.ask /\ new.model = r.model
    BY <1>1 DEF IsRun
  <2>4. now' = now /\ models' = models
    BY <1>4 DEF End, EndRun, priceVars
  <2> HIDE DEF new
  <2> QED
    BY <1>1, <2>2, <2>3, <2>4, VerdictsStay
<1>5. ASSUME NEW p \in prompts, EditPrompt(p) PROVE VerdictsInv'
  BY <1>2, <1>5 DEF EditPrompt, priceVars
<1>6. ASSUME NEW c, FlagClient(c) PROVE VerdictsInv'
  BY <1>2, <1>6 DEF FlagClient, priceVars
<1>7. CASE UNCHANGED vars
  BY <1>2, <1>7 DEF vars, spendingVars, priceVars
<1> QED
  BY <1>3, <1>4, <1>5, <1>6, <1>7, VerdictsOfAJob DEF Next

LEMMA LeagueInvInit == Init => LeagueInv
BY ReportsInvInit DEF LeagueInv, VerdictsInv, Init, SpendingInit

-----------------------------------------------------------------------------
(* The most cited domains *)

\* Of finitely many counts one is the greatest.
LEMMA OneIsGreatest ==
  ASSUME NEW K, IsFiniteSet(K), K # {}, NEW count, \A d \in K : count[d] \in Nat
  PROVE  \E d \in K : \A e \in K : count[e] <= count[d]
<1> DEFINE Above(d) == {e \in K : count[e] > count[d]}
           sizes == {Cardinality(Above(d)) : d \in K}
<1>1. \A d \in K : IsFiniteSet(Above(d)) /\ Cardinality(Above(d)) \in Nat
  BY FS_Subset, FS_CardinalityType
<1>2. sizes \subseteq Nat /\ sizes # {}
  BY <1>1
<1>3. Min(sizes) \in sizes /\ \A n \in sizes : Min(sizes) <= n
  <2> HIDE DEF sizes
  <2> QED
    BY <1>2, MinIsLeast
<1>4. PICK d \in K : \A e \in K : Cardinality(Above(d)) <= Cardinality(Above(e))
  BY <1>3
<1>5. SUFFICES ASSUME NEW e \in K, count[e] > count[d] PROVE FALSE
  OBVIOUS
<1>6. e \in Above(d) /\ e \notin Above(e) /\ Above(e) \in SUBSET Above(d)
  BY <1>5
<1>7. Cardinality(Above(e)) = Cardinality(Above(d))
  <2>1. Cardinality(Above(e)) <= Cardinality(Above(d))
    BY <1>1, <1>6, FS_Subset
  <2> HIDE DEF Above
  <2> QED
    BY <1>1, <1>4, <2>1
<1> HIDE DEF Above
<1> QED
  BY <1>1, <1>6, <1>7, FS_Subset

\* There is a top of every length, and one that is shorter than the limit has everything.
LEMMA TopHasAll ==
  ASSUME NEW count, IsFiniteSet(DOMAIN count), \A d \in DOMAIN count : count[d] \in Nat
  PROVE  /\ Top(count) \subseteq DOMAIN count
         /\ Cardinality(Top(count)) < LeagueLimit => Top(count) = DOMAIN count
<1> DEFINE K == DOMAIN count
           size == Cardinality(K)
           Leads(top) == \A d \in top : \A e \in K \ top : count[e] <= count[d]
           IsTop(top, n) == Cardinality(top) = n /\ Leads(top)
<1>1. size \in Nat
  BY FS_CardinalityType
<1>2. \A n \in 0..size : \E top \in SUBSET K : IsTop(top, n)
  <2> DEFINE wrong == {n \in 0..size : ~\E top \in SUBSET K : IsTop(top, n)}
  <2>1. SUFFICES ASSUME wrong # {} PROVE FALSE
    OBVIOUS
  <2>2. wrong \subseteq Nat
    OBVIOUS
  <2> HIDE DEF wrong
  <2>3. PICK n \in wrong : \A m \in wrong : n <= m
    BY <2>1, <2>2, MinIsLeast
  <2> USE DEF wrong
  <2>4. n # 0
    <3>1. IsTop({}, 0)
      BY FS_EmptySet
    <3> QED
      BY <3>1
  <2>5. n \in 1..size /\ n - 1 \in 0..size /\ n - 1 \notin wrong
    BY <1>1, <2>3, <2>4
  <2>6. PICK top \in SUBSET K : IsTop(top, n - 1)
    BY <2>5
  <2> DEFINE rest == K \ top
  <2>7. rest # {} /\ IsFiniteSet(rest) /\ IsFiniteSet(top)
    <3>1. IsFiniteSet(rest) /\ IsFiniteSet(top)
      BY FS_Subset
    <3>2. top # K
      BY <1>1, <2>5, <2>6
    <3> QED
      BY <3>1, <3>2
  <2>8. PICK d \in rest : \A e \in rest : count[e] <= count[d]
    BY <2>7, OneIsGreatest
  <2> DEFINE more == top \cup {d}
  <2>9. Cardinality(more) = n
    <3>1. Cardinality(top) = n - 1 /\ IsFiniteSet(top) /\ d \notin top /\ n \in Int
      BY <1>1, <2>5, <2>6, <2>7
    <3> HIDE DEF K, size, Leads, rest, wrong
    <3>2. Cardinality(more) = Cardinality(top) + 1
      BY <3>1, FS_AddElement
    <3> QED
      BY <3>1, <3>2
  <2>10. Leads(more)
    BY <2>6, <2>8
  <2> QED
    BY <2>3, <2>9, <2>10
<1> DEFINE least == Min({LeagueLimit, size})
<1>3. least \in {LeagueLimit, size} /\ least <= LeagueLimit /\ least <= size
  <2>1. {LeagueLimit, size} \subseteq Nat
    BY <1>1, LimitAssumption
  <2> HIDE DEF size
  <2> QED
    BY <2>1, MinIsLeast
<1>4. least \in 0..size
  <2> HIDE DEF least, size
  <2> QED
    BY <1>1, <1>3, LimitAssumption
<1>5. \E top \in SUBSET K : IsTop(top, least)
  BY <1>2, <1>4
<1>6. Top(count) \in SUBSET K /\ Cardinality(Top(count)) = least
  BY <1>5 DEF Top
<1>7. ASSUME Cardinality(Top(count)) < LeagueLimit PROVE Top(count) = K
  <2>1. least = size
    <3> HIDE DEF least, size
    <3> QED
      BY <1>1, <1>3, <1>6, <1>7, LimitAssumption
  <2> QED
    BY <1>6, <2>1, FS_Subset
<1> QED
  BY <1>6, <1>7

-----------------------------------------------------------------------------
(* Every verdict has one bucket *)

LEMMA BucketsShareNothing ==
  /\ DOMAIN VERDICT_BUCKETS = {"verified", "partial", "unsupported", "unverifiable"}
  /\ \A b, c \in DOMAIN VERDICT_BUCKETS :
       b # c => VERDICT_BUCKETS[b] \cap VERDICT_BUCKETS[c] = {}
  /\ JudgeVerdicts \subseteq UNION {VERDICT_BUCKETS[b] : b \in DOMAIN VERDICT_BUCKETS}
BY DEF VERDICT_BUCKETS, JudgeVerdicts

\* What the judge says is all counted.
LEMMA EveryVerdictIsChecked ==
  ASSUME NEW xs, IsFiniteSet(xs), \A x \in xs : x[2].verdict \in JudgeVerdicts
  PROVE  Checked(Bucketed(xs)) = Cardinality(xs)
<1> DEFINE K == DOMAIN VERDICT_BUCKETS
           part == [b \in K |-> {x \in xs : x[2].verdict \in VERDICT_BUCKETS[b]}]
           f == [b \in K |-> Cardinality(part[b])]
<1>1. Checked(Bucketed(xs)) = SumFunction(f)
  <2> HIDE DEF K
  <2>1. Bucketed(xs) = f
    BY DEF Bucketed, K
  <2>2. [b \in DOMAIN f |-> f[b]] = f /\ DOMAIN f = K
    OBVIOUS
  <2> HIDE DEF f
  <2> QED
    BY <2>1, <2>2 DEF Checked, Total
<1>2. IsFiniteSet(K)
  <2>1. IsFiniteSet({"verified"} \cup {"partial"} \cup {"unsupported"} \cup {"unverifiable"})
    BY FS_Singleton, FS_Union
  <2>2. K = {"verified"} \cup {"partial"} \cup {"unsupported"} \cup {"unverifiable"}
    BY BucketsShareNothing
  <2> HIDE DEF K
  <2> QED
    BY <2>1, <2>2
<1>3. UNION {part[b] : b \in K} = xs
  <2>1. ASSUME NEW x \in xs PROVE \E b \in K : x \in part[b]
    BY BucketsShareNothing
  <2> QED
    BY <2>1
<1>4. \A b, c \in K : b # c => part[b] \cap part[c] = {}
  <2> HIDE DEF K
  <2>1. \A b, c \in K : b # c => VERDICT_BUCKETS[b] \cap VERDICT_BUCKETS[c] = {}
    BY BucketsShareNothing DEF K
  <2> QED
    BY <2>1
<1>5. CountsOf(f, part, K)
  <2>1. \A b \in K : IsFiniteSet(part[b])
    BY FS_Subset
  <2> HIDE DEF part, K
  <2> QED
    BY <2>1 DEF CountsOf
<1> HIDE DEF f, part, K
<1> QED
  BY <1>1, <1>2, <1>3, <1>4, <1>5, PartsCount DEF Parts

\* A breakdown by any key has a row for every value there is, and adds up.
Grouped(groups, key, xs) ==
  groups = [k \in {key[x] : x \in xs} |-> {x \in xs : key[x] = k}]
Broken(rates, key, xs) ==
  /\ DOMAIN rates = {key[x] : x \in xs}
  /\ \A k \in DOMAIN rates : Checked(rates[k]) = Cardinality({x \in xs : key[x] = k})

LEMMA BucketsOfGroups ==
  ASSUME NEW xs, IsFiniteSet(xs), \A x \in xs : x[2].verdict \in JudgeVerdicts,
         NEW key, NEW groups, Grouped(groups, key, xs)
  PROVE  Broken(Buckets(groups), key, xs)
<1> USE DEF Grouped
<1>1. ASSUME NEW k \in DOMAIN groups
      PROVE  /\ groups[k] = {x \in xs : key[x] = k}
             /\ Checked(Bucketed(groups[k])) = Cardinality(groups[k])
             /\ Checked(Bucketed(groups[k])) > 0
  <2> DEFINE group == {x \in xs : key[x] = k}
  <2>1. groups[k] = group
    OBVIOUS
  <2>2. group # {} /\ IsFiniteSet(group) /\ \A x \in group : x[2].verdict \in JudgeVerdicts
    BY FS_Subset
  <2> HIDE DEF group
  <2>3. Cardinality(group) \in Nat /\ Cardinality(group) # 0
    BY <2>2, FS_CardinalityType, FS_EmptySet
  <2>4. Checked(Bucketed(group)) = Cardinality(group)
    BY <2>2, EveryVerdictIsChecked
  <2> QED
    BY <2>1, <2>3, <2>4 DEF group
<1>2. DOMAIN groups = {key[x] : x \in xs}
  OBVIOUS
<1>3. {k \in DOMAIN groups : Checked(Bucketed(groups[k])) > 0} = DOMAIN groups
  <2>1. \A k \in DOMAIN groups : Checked(Bucketed(groups[k])) > 0
    BY <1>1
  <2> QED
    BY <2>1
<1> DEFINE rates == Buckets(groups)
<1>4. rates = [k \in DOMAIN groups |-> Bucketed(groups[k])]
  BY <1>3 DEF Buckets
<1>5. DOMAIN rates = DOMAIN groups /\ \A k \in DOMAIN groups : rates[k] = Bucketed(groups[k])
  BY <1>4
<1> HIDE DEF rates
<1>6. \A k \in DOMAIN rates : Checked(rates[k]) = Cardinality({x \in xs : key[x] = k})
  <2> SUFFICES ASSUME NEW k \in DOMAIN rates
               PROVE  Checked(rates[k]) = Cardinality({x \in xs : key[x] = k})
    OBVIOUS
  <2>1. k \in DOMAIN groups /\ rates[k] = Bucketed(groups[k])
    BY <1>5
  <2> QED
    BY <1>1, <2>1
<1>7. Broken(rates, key, xs)
  BY <1>2, <1>5, <1>6 DEF Broken
<1> QED
  BY <1>7 DEF rates

LEMMA BrokenAddsUp ==
  ASSUME NEW xs, IsFiniteSet(xs), NEW key, NEW rates, DOMAIN key = xs, Broken(rates, key, xs)
  PROVE  /\ IsFiniteSet(DOMAIN rates)
         /\ SumFunction([k \in DOMAIN rates |-> Checked(rates[k])]) = Cardinality(xs)
<1> DEFINE K == {key[x] : x \in xs}
           part == [k \in K |-> {x \in xs : key[x] = k}]
           f == [k \in K |-> Checked(rates[k])]
<1>1. Parts(part, K, xs)
  BY KeysPartition
<1>2. CountsOf(f, part, K)
  <2>1. \A k \in K : IsFiniteSet(part[k])
    BY FS_Subset
  <2>2. \A k \in K : f[k] = Cardinality(part[k])
    BY DEF Broken
  <2> HIDE DEF part, K
  <2> QED
    BY <2>1, <2>2 DEF CountsOf
<1>3. DOMAIN rates = K
  BY DEF Broken
<1> HIDE DEF part, K
<1>4. SumFunction(f) = Cardinality(xs)
  <2> HIDE DEF f
  <2> QED
    BY <1>1, <1>2, PartsCount
<1> QED
  BY <1>1, <1>3, <1>4 DEF Parts

-----------------------------------------------------------------------------
(* A citation judged by several jobs is counted once *)

Citation(x) == <<x[1], x[2].cite>>
Judged(rs) == {c \in CitationsOf(rs) : \E v \in c[1].verdicts : v.cite = c[2]}

\* Of the verdicts of a citation one is the newest.
LEMMA NewestVerdict ==
  ASSUME LeagueInv, NEW r \in runs, NEW v \in r.verdicts
  PROVE  \E w \in r.verdicts : /\ w.cite = v.cite
                               /\ \A u \in r.verdicts : u.cite = w.cite => u.at <= w.at
<1> DEFINE mine == {u \in r.verdicts : u.cite = v.cite}
           times == {u.at : u \in mine}
<1>1. now \in Nat /\ \A u \in r.verdicts : u.at \in Nat /\ u.at <= now
  BY RunsAreShown DEF LeagueInv, ReportsInv, VerdictsInv, IsJudged
<1>2. times \subseteq Nat /\ times # {} /\ \A t \in times : t <= now
  BY <1>1
<1>3. \E most \in times : \A t \in times : t <= most
  <2> HIDE DEF times
  <2> QED
    BY <1>1, <1>2, TimesAreBetween
<1>4. PICK w \in mine : \A t \in times : t <= w.at
  BY <1>3
<1> QED
  BY <1>4

\* Which of the verdicts of runs are counted.
LEMMA ComparableIs ==
  ASSUME LeagueInv, NEW rs \in SUBSET runs
  PROVE  /\ IsFiniteSet(Comparable(rs))
         /\ \A x \in Comparable(rs) :
              /\ x[2].verdict \in JudgeVerdicts /\ Citation(x) \in Judged(rs)
              /\ VerdictDomain(x) = DomainOf(Citation(x))
         /\ \A x, y \in Comparable(rs) : Citation(x) = Citation(y) => x = y
         /\ \A c \in Judged(rs) : \E x \in Comparable(rs) : Citation(x) = c
         /\ \A c \in Judged(rs) : ProviderOf(c[1]) # "xai"
<1>1. \A r \in rs : /\ JudgedOnce(r) /\ IsJudged(r)
                    /\ r.verdicts # {} => ProviderOf(r) \in LLM_JUDGE_PROVIDERS
  BY DEF LeagueInv, ReportsInv, VerdictsInv
<1>2. \A x \in VerdictsOf(rs) :
        x[1] \in rs /\ x[2] \in x[1].verdicts /\ x = <<x[1], x[2]>>
  BY DEF VerdictsOf
<1>3. \A x \in VerdictsOf(rs) : ProviderOf(x[1]) \notin ExcludedProviders
  BY <1>1, <1>2 DEF LLM_JUDGE_PROVIDERS, ExcludedProviders
<1>4. Comparable(rs) = LatestVerdicts(rs)
  BY <1>3 DEF Comparable, LatestVerdicts
<1>5. /\ Comparable(rs) \subseteq VerdictsOf(rs)
      /\ \A x \in Comparable(rs) :
           \A v \in x[1].verdicts : v.cite = x[2].cite => v.at <= x[2].at
  BY <1>4 DEF LatestVerdicts
<1>6. IsFiniteSet(Comparable(rs))
  BY <1>5, VerdictsAreCounted, FS_Subset DEF LeagueInv
<1>7. \A x \in Comparable(rs) : x[2].verdict \in JudgeVerdicts /\ Citation(x) \in Judged(rs)
  <2> SUFFICES ASSUME NEW x \in Comparable(rs)
               PROVE  x[2].verdict \in JudgeVerdicts /\ Citation(x) \in Judged(rs)
    OBVIOUS
  <2>1. x[1] \in rs /\ x[2] \in x[1].verdicts
    BY <1>2, <1>5
  <2>2. x[2].verdict \in JudgeVerdicts /\ x[2].cite \in DOMAIN x[1].ask.cites
    BY <1>1, <2>1 DEF JudgedOnce
  <2>3. Citation(x) \in CitationsOf(rs)
    BY <2>1, <2>2 DEF CitationsOf, Citation
  <2> QED
    BY <2>1, <2>2, <2>3 DEF Judged, Citation
<1>8. ASSUME NEW x \in Comparable(rs), NEW y \in Comparable(rs), Citation(x) = Citation(y)
      PROVE  x = y
  <2> DEFINE r == x[1]
  <2>1. /\ r \in rs /\ x[2] \in r.verdicts /\ y[2] \in r.verdicts
        /\ x = <<r, x[2]>> /\ y = <<r, y[2]>> /\ x[2].cite = y[2].cite
    BY <1>2, <1>5, <1>8 DEF Citation
  <2>2. x[2].at <= y[2].at /\ y[2].at <= x[2].at
    BY <1>5, <1>8, <2>1 DEF Citation
  <2>3. x[2].at \in Nat /\ y[2].at \in Nat
    BY <1>1, <2>1 DEF IsJudged
  <2>4. x[2] = y[2]
    BY <1>1, <2>1, <2>2, <2>3 DEF JudgedOnce
  <2> QED
    BY <2>1, <2>4
<1>9. ASSUME NEW c \in Judged(rs)
      PROVE  /\ \E x \in Comparable(rs) : Citation(x) = c
             /\ ProviderOf(c[1]) # "xai"
  <2>1. PICK r \in rs : \E i \in DOMAIN r.ask.cites : c = <<r, i>>
    BY DEF Judged, CitationsOf
  <2>2. PICK v \in r.verdicts : v.cite = c[2] /\ c = <<r, c[2]>>
    BY <2>1 DEF Judged
  <2>3. PICK w \in r.verdicts : /\ w.cite = v.cite
                                /\ \A u \in r.verdicts : u.cite = w.cite => u.at <= w.at
    BY NewestVerdict
  <2>4. <<r, w>> \in VerdictsOf(rs)
    BY DEF VerdictsOf
  <2>5. <<r, w>> \in Comparable(rs)
    BY <1>4, <2>3, <2>4 DEF LatestVerdicts
  <2>6. Citation(<<r, w>>) = c
    BY <2>2, <2>3 DEF Citation
  <2>7. ProviderOf(c[1]) \in LLM_JUDGE_PROVIDERS
    BY <1>1, <2>1, <2>2
  <2> QED
    BY <2>5, <2>6, <2>7 DEF LLM_JUDGE_PROVIDERS
<1> QED
  BY <1>6, <1>7, <1>8, <1>9 DEF VerdictDomain, Citation

\* As many verdicts are counted as there are citations with one, whichever are looked at.
LEMMA OneOfEachCitation ==
  ASSUME LeagueInv, NEW rs \in SUBSET runs, NEW xs \in SUBSET Comparable(rs),
         NEW cites, cites = {Citation(x) : x \in xs}
  PROVE  IsFiniteSet(cites) /\ Cardinality(cites) = Cardinality(xs)
<1> DEFINE g == [x \in xs |-> Citation(x)]
<1>1. IsFiniteSet(xs)
  BY ComparableIs, FS_Subset
<1>2. \A x, y \in xs : Citation(x) = Citation(y) => x = y
  BY ComparableIs
<1>3. g \in Surjection(xs, cites)
  BY DEF Surjection
<1>4. g \in Injection(xs, cites)
  BY <1>2 DEF Injection, IsInjective
<1> HIDE DEF g
<1> QED
  BY <1>1, <1>3, <1>4, FS_Surjection

-----------------------------------------------------------------------------
(* LeagueAddsUp *)

\* The domains that are cited, and the citations of each.
Cited(rs) == {DomainOf(c) : c \in CitationsOf(rs)} \ {Null}
CitesOf(rs, d) == {c \in CitationsOf(rs) : DomainOf(c) = d}

LEMMA LeagueIs ==
  ASSUME ReportsInv, NEW rs \in SUBSET runs, NEW league, league = DomainLeague(rs)
  PROVE  /\ IsFiniteSet(Cited(rs)) /\ DOMAIN league \subseteq Cited(rs)
         /\ Cardinality(DOMAIN league) < LeagueLimit => DOMAIN league = Cited(rs)
         /\ \A d \in DOMAIN league :
              /\ league[d].citations = Cardinality(CitesOf(rs, d))
              /\ league[d].runs = Cardinality({c[1] : c \in CitesOf(rs, d)})
<1> DEFINE known == {c \in CitationsOf(rs) : DomainOf(c) # Null}
           by == GroupBy(known, DomainOf)
           cited == [d \in DOMAIN by |-> Cardinality(by[d])]
<1>1. DOMAIN by = Cited(rs)
  BY DEF GroupBy, Cited
<1>2. \A d \in Cited(rs) : by[d] = CitesOf(rs, d)
  BY DEF GroupBy, Cited, CitesOf
<1>3. IsFiniteSet(Cited(rs)) /\ \A d \in Cited(rs) : IsFiniteSet(CitesOf(rs, d))
  <2> DEFINE all == {DomainOf(c) : c \in CitationsOf(rs)}
             g == [c \in CitationsOf(rs) |-> DomainOf(c)]
  <2>1. IsFiniteSet(CitationsOf(rs))
    BY CitationsAreFinite
  <2>2. g \in Surjection(CitationsOf(rs), all)
    BY DEF Surjection
  <2> HIDE DEF g
  <2>3. IsFiniteSet(all)
    BY <2>1, <2>2, FS_Surjection
  <2>4. Cited(rs) \in SUBSET all
    BY DEF Cited
  <2>5. \A d \in Cited(rs) : CitesOf(rs, d) \in SUBSET CitationsOf(rs)
    BY DEF CitesOf
  <2> QED
    BY <2>1, <2>3, <2>4, <2>5, FS_Subset
<1>4. league = [d \in Top(cited) |-> LeagueRow(by[d])]
  BY DEF DomainLeague
<1> HIDE DEF by
<1>5. /\ DOMAIN cited = Cited(rs)
      /\ \A d \in DOMAIN cited : cited[d] \in Nat
  BY <1>1, <1>2, <1>3, FS_CardinalityType
<1> HIDE DEF cited
<1>6. /\ Top(cited) \subseteq Cited(rs)
      /\ Cardinality(Top(cited)) < LeagueLimit => Top(cited) = Cited(rs)
  BY <1>3, <1>5, TopHasAll
<1>7. DOMAIN league = Top(cited) /\ \A d \in Top(cited) : league[d] = LeagueRow(by[d])
  BY <1>4
<1>8. ASSUME NEW d \in DOMAIN league
      PROVE  /\ league[d].citations = Cardinality(CitesOf(rs, d))
             /\ league[d].runs = Cardinality({c[1] : c \in CitesOf(rs, d)})
  <2>1. league[d] = LeagueRow(CitesOf(rs, d))
    BY <1>2, <1>6, <1>7
  <2> QED
    BY <2>1 DEF LeagueRow
<1> QED
  BY <1>3, <1>6, <1>7, <1>8

LEMMA CitationsDoAddUp ==
  ASSUME ReportsInv, NEW rs \in SUBSET runs
  PROVE  CitationsAddUp(rs)
<1> DEFINE league == DomainLeague(rs)
           f == [d \in DOMAIN league |-> league[d].citations]
           known == {c \in CitationsOf(rs) : DomainOf(c) # Null}
<1>1. /\ IsFiniteSet(Cited(rs)) /\ DOMAIN league \subseteq Cited(rs)
      /\ Cardinality(DOMAIN league) < LeagueLimit => DOMAIN league = Cited(rs)
      /\ \A d \in DOMAIN league :
           /\ league[d].citations = Cardinality(CitesOf(rs, d))
           /\ league[d].runs = Cardinality({c[1] : c \in CitesOf(rs, d)})
  BY LeagueIs
<1>2. IsFiniteSet(rs) /\ IsFiniteSet(CitationsOf(rs))
  BY CitationsAreFinite
<1>3. CitationTotals(rs)[2] = Cardinality(Cited(rs))
  BY DEF CitationTotals, Cited
<1> HIDE DEF league
<1>4. ASSUME NEW d \in DOMAIN league PROVE league[d].runs <= Cardinality(rs)
  <2> DEFINE mine == {c[1] : c \in CitesOf(rs, d)}
  <2>1. mine \in SUBSET rs
    BY DEF CitesOf, CitationsOf
  <2>2. league[d].runs = Cardinality(mine)
    BY <1>1
  <2> HIDE DEF mine
  <2> QED
    BY <1>2, <2>1, <2>2, FS_Subset
<1>5. ASSUME DOMAIN league = Cited(rs) PROVE SumFunction(f) = Cardinality(known)
  <2> DEFINE part == [d \in Cited(rs) |-> CitesOf(rs, d)]
  <2>1. UNION {part[d] : d \in Cited(rs)} = known
    <3>1. \A d \in Cited(rs) : part[d] \subseteq known
      BY DEF Cited, CitesOf
    <3>2. ASSUME NEW c \in known
          PROVE  DomainOf(c) \in Cited(rs) /\ c \in part[DomainOf(c)]
      BY DEF Cited, CitesOf
    <3> HIDE DEF part, known
    <3> QED
      BY <3>1, <3>2
  <2>2. \A d, e \in Cited(rs) : d # e => part[d] \cap part[e] = {}
    BY DEF CitesOf
  <2>3. \A d \in Cited(rs) : IsFiniteSet(part[d])
    <3>1. \A d \in Cited(rs) : part[d] \in SUBSET CitationsOf(rs)
      BY DEF CitesOf
    <3> HIDE DEF part
    <3> QED
      BY <1>2, <3>1, FS_Subset
  <2>4. \A d \in Cited(rs) : f[d] = Cardinality(part[d])
    BY <1>1, <1>5
  <2>5. f = [d \in Cited(rs) |-> f[d]]
    BY <1>5
  <2> HIDE DEF f, part, known
  <2>6. Parts(part, Cited(rs), known) /\ CountsOf(f, part, Cited(rs))
    BY <1>1, <2>1, <2>2, <2>3, <2>4, <2>5 DEF Parts, CountsOf
  <2> QED
    BY <2>6, PartsCount
<1>6. Cardinality(DOMAIN league) < LeagueLimit =>
        /\ Cardinality(DOMAIN league) = CitationTotals(rs)[2]
        /\ SumFunction(f) = Cardinality(known)
  BY <1>1, <1>3, <1>5
<1> QED
  BY <1>4, <1>6 DEF CitationsAddUp, Total, league

\* What is counted of the verdicts, by provider and by domain.
LEMMA ProvidersAreBroken ==
  ASSUME LeagueInv, NEW rs \in SUBSET runs
  PROVE  Broken(RatesByProvider(rs), [x \in Comparable(rs) |-> ProviderOf(x[1])], Comparable(rs))
<1> DEFINE xs == Comparable(rs)
           key == [x \in xs |-> ProviderOf(x[1])]
           groups == [k \in {key[x] : x \in xs} |-> {x \in xs : key[x] = k}]
<1>1. IsFiniteSet(xs) /\ \A x \in xs : x[2].verdict \in JudgeVerdicts
  BY ComparableIs
<1>2. RatesByProvider(rs) = Buckets(groups)
  <2> HIDE DEF xs
  <2>1. {key[x] : x \in xs} = {ProviderOf(x[1]) : x \in xs}
    OBVIOUS
  <2>2. \A k : {x \in xs : key[x] = k} = {x \in xs : ProviderOf(x[1]) = k}
    OBVIOUS
  <2>3. groups = [k \in {ProviderOf(x[1]) : x \in xs} |-> {x \in xs : ProviderOf(x[1]) = k}]
    BY <2>1, <2>2
  <2> HIDE DEF groups
  <2> QED
    BY <2>3 DEF RatesByProvider, GroupBy, xs
<1> HIDE DEF xs
<1>3. Broken(Buckets(groups), key, xs)
  <2>1. Grouped(groups, key, xs)
    BY DEF Grouped
  <2> HIDE DEF groups, key
  <2> QED
    BY <1>1, <2>1, BucketsOfGroups
<1> QED
  BY <1>2, <1>3 DEF xs

LEMMA DomainsAreBroken ==
  ASSUME LeagueInv, NEW rs \in SUBSET runs,
         NEW ys, ys = {x \in Comparable(rs) : VerdictDomain(x) # Null},
         NEW key, key = [x \in ys |-> VerdictDomain(x)],
         NEW shown, shown = RatesByDomain(rs)
  PROVE  /\ IsFiniteSet(ys) /\ DOMAIN shown \subseteq {key[x] : x \in ys}
         /\ \A d \in DOMAIN shown :
              Checked(shown[d]) = Cardinality({x \in ys : VerdictDomain(x) = d})
         /\ Cardinality(DOMAIN shown) < LeagueLimit => Broken(shown, key, ys)
<1> DEFINE groups == [k \in {key[x] : x \in ys} |-> {x \in ys : key[x] = k}]
           rates == Buckets(GroupBy(ys, VerdictDomain))
           checked == [d \in DOMAIN rates |-> Checked(rates[d])]
<1>1. IsFiniteSet(ys) /\ \A x \in ys : x[2].verdict \in JudgeVerdicts
  BY ComparableIs, FS_Subset
<1>2. shown = [d \in Top(checked) |-> rates[d]]
  BY DEF RatesByDomain
<1>3. GroupBy(ys, VerdictDomain) = groups
  <2>1. \A x \in ys : key[x] = VerdictDomain(x)
    OBVIOUS
  <2>2. {key[x] : x \in ys} = {VerdictDomain(x) : x \in ys}
    BY <2>1
  <2>3. \A k : {x \in ys : key[x] = k} = {x \in ys : VerdictDomain(x) = k}
    BY <2>1
  <2>4. groups = [k \in {VerdictDomain(x) : x \in ys} |-> {x \in ys : VerdictDomain(x) = k}]
    BY <2>2, <2>3
  <2> HIDE DEF groups
  <2> QED
    BY <2>4 DEF GroupBy
<1>4. Broken(rates, key, ys)
  <2>1. Grouped(groups, key, ys)
    BY DEF Grouped
  <2> HIDE DEF groups
  <2>2. Broken(Buckets(groups), key, ys)
    BY <1>1, <2>1, BucketsOfGroups
  <2> QED
    BY <1>3, <2>2
<1> HIDE DEF rates
<1>5. /\ DOMAIN rates = {key[x] : x \in ys}
      /\ \A d \in DOMAIN rates : Checked(rates[d]) = Cardinality({x \in ys : key[x] = d})
  BY <1>4 DEF Broken
<1>6. IsFiniteSet(DOMAIN rates)
  <2>1. DOMAIN key = ys
    OBVIOUS
  <2> QED
    BY <1>1, <1>4, <2>1, BrokenAddsUp
<1>7. DOMAIN checked = DOMAIN rates /\ \A d \in DOMAIN checked : checked[d] \in Nat
  <2>1. ASSUME NEW d \in DOMAIN rates PROVE Checked(rates[d]) \in Nat
    <3> DEFINE mine == {x \in ys : key[x] = d}
    <3>1. IsFiniteSet(mine)
      BY <1>1, FS_Subset
    <3>2. Checked(rates[d]) = Cardinality(mine)
      BY <1>5
    <3> HIDE DEF mine
    <3> QED
      BY <3>1, <3>2, FS_CardinalityType
  <2> QED
    BY <2>1
<1> HIDE DEF checked
<1>8. /\ Top(checked) \subseteq DOMAIN rates
      /\ Cardinality(Top(checked)) < LeagueLimit => Top(checked) = DOMAIN rates
  BY <1>6, <1>7, TopHasAll
<1>9. DOMAIN shown = Top(checked) /\ \A d \in Top(checked) : shown[d] = rates[d]
  BY <1>2
<1>10. \A d \in DOMAIN shown :
         /\ Checked(shown[d]) = Cardinality({x \in ys : key[x] = d})
         /\ {x \in ys : key[x] = d} = {x \in ys : VerdictDomain(x) = d}
  <2>1. \A d \in DOMAIN shown : Checked(shown[d]) = Cardinality({x \in ys : key[x] = d})
    <3> SUFFICES ASSUME NEW d \in DOMAIN shown
                 PROVE  Checked(shown[d]) = Cardinality({x \in ys : key[x] = d})
      OBVIOUS
    <3>1. shown[d] = rates[d] /\ d \in DOMAIN rates
      BY <1>8, <1>9
    <3> QED
      BY <1>5, <3>1
  <2> QED
    BY <2>1
<1>11. ASSUME Cardinality(DOMAIN shown) < LeagueLimit PROVE Broken(shown, key, ys)
  <2>1. DOMAIN shown = DOMAIN rates
    BY <1>8, <1>9, <1>11
  <2> QED
    BY <1>5, <1>10, <2>1 DEF Broken
<1>12. \A d \in DOMAIN shown : Checked(shown[d]) = Cardinality({x \in ys : VerdictDomain(x) = d})
  BY <1>10
<1> QED
  BY <1>1, <1>5, <1>8, <1>9, <1>11, <1>12

LEMMA VerdictsDoAddUp ==
  ASSUME LeagueInv, NEW scoped, scoped.runs \in SUBSET runs
  PROVE  VerdictsAddUp(scoped)
<1> DEFINE rs == scoped.runs
           xs == Comparable(rs)
           ys == {x \in xs : VerdictDomain(x) # Null}
           shown == CitationVerification(scoped)
           providers == RatesByProvider(rs)
           domains == RatesByDomain(rs)
           league == DomainLeague(rs)
           judged == Judged(rs)
           known == {c \in judged : DomainOf(c) # Null}
<1>1. /\ shown.providers = providers /\ shown.domains = domains
      /\ shown.xai.citations = Cardinality(CitationsOf({r \in rs : ProviderOf(r) = "xai"}))
  BY DEF CitationVerification, ReviewedSources
<1>2. /\ \A x \in xs : Citation(x) \in judged /\ VerdictDomain(x) = DomainOf(Citation(x))
      /\ \A c \in judged : \E x \in xs : Citation(x) = c
      /\ \A c \in judged : ProviderOf(c[1]) # "xai"
      /\ IsFiniteSet(xs)
  BY ComparableIs
<1>3. IsFiniteSet(rs) /\ IsFiniteSet(CitationsOf(rs))
  BY CitationsAreFinite DEF LeagueInv
<1>4. judged \subseteq CitationsOf(rs)
  BY DEF Judged
<1>5. Cardinality(judged) = Cardinality(xs)
  <2>1. judged = {Citation(x) : x \in xs}
    BY <1>2
  <2> HIDE DEF judged
  <2> QED
    BY <2>1, OneOfEachCitation
<1>6. Cardinality(known) = Cardinality(ys)
  <2>1. known = {Citation(x) : x \in ys}
    BY <1>2
  <2>2. ys \in SUBSET xs
    OBVIOUS
  <2> HIDE DEF known, ys
  <2> QED
    BY <2>1, <2>2, OneOfEachCitation
<1>7. SumFunction([p \in DOMAIN providers |-> Checked(providers[p])]) = Cardinality(judged)
  <2> DEFINE key == [x \in xs |-> ProviderOf(x[1])]
  <2>1. Broken(providers, key, xs) /\ DOMAIN key = xs
    BY ProvidersAreBroken
  <2> HIDE DEF key, providers, xs, judged
  <2> QED
    BY <1>2, <1>5, <2>1, BrokenAddsUp
<1> DEFINE named == [x \in ys |-> VerdictDomain(x)]
<1>8. /\ IsFiniteSet(ys) /\ DOMAIN domains \subseteq {named[x] : x \in ys}
      /\ \A d \in DOMAIN domains :
           Checked(domains[d]) = Cardinality({x \in ys : VerdictDomain(x) = d})
      /\ Cardinality(DOMAIN domains) < LeagueLimit => Broken(domains, named, ys)
  <2>1. ys = {x \in Comparable(rs) : VerdictDomain(x) # Null}
    OBVIOUS
  <2>2. named = [x \in ys |-> VerdictDomain(x)]
    OBVIOUS
  <2> HIDE DEF ys, named, domains
  <2> QED
    BY <2>1, <2>2, DomainsAreBroken DEF domains
<1>9. ASSUME Cardinality(DOMAIN domains) < LeagueLimit
      PROVE  SumFunction([d \in DOMAIN domains |-> Checked(domains[d])]) = Cardinality(known)
  <2>1. Broken(domains, named, ys) /\ DOMAIN named = ys
    BY <1>8, <1>9
  <2> HIDE DEF named, domains, ys, known
  <2> QED
    BY <1>6, <1>8, <2>1, BrokenAddsUp
<1>10. ASSUME NEW d \in DOMAIN league, d \in DOMAIN domains
       PROVE  Checked(domains[d]) <= league[d].citations
  <2> DEFINE mine == {x \in ys : VerdictDomain(x) = d}
             cites == {Citation(x) : x \in mine}
  <2>1. Checked(domains[d]) = Cardinality(mine)
    BY <1>8, <1>10
  <2>2. league[d].citations = Cardinality(CitesOf(rs, d))
    BY <1>10, LeagueIs DEF LeagueInv
  <2>3. cites \in SUBSET CitesOf(rs, d)
    BY <1>2, <1>4 DEF CitesOf
  <2>4. IsFiniteSet(CitesOf(rs, d))
    BY <1>3, FS_Subset DEF CitesOf
  <2>5. mine \in SUBSET xs
    OBVIOUS
  <2>6. cites = {Citation(x) : x \in mine}
    OBVIOUS
  <2> HIDE DEF mine, cites, domains, league
  <2>7. Cardinality(cites) = Cardinality(mine)
    BY <2>5, <2>6, OneOfEachCitation
  <2>8. Cardinality(cites) <= Cardinality(CitesOf(rs, d))
    BY <2>3, <2>4, FS_Subset
  <2> QED
    BY <2>1, <2>2, <2>7, <2>8
<1>11. shown.xai.citations + Cardinality(judged) <= CitationTotals(rs)[1]
  <2> DEFINE others == CitationsOf({r \in rs : ProviderOf(r) = "xai"})
             all == CitationsOf(rs)
             both == others \cup judged
  <2>1. others \subseteq all /\ \A c \in others : ProviderOf(c[1]) = "xai"
    BY DEF CitationsOf
  <2>2. others \cap judged = {} /\ both \in SUBSET all
    BY <1>2, <1>4, <2>1
  <2>3. CitationTotals(rs)[1] = Cardinality(all)
    BY DEF CitationTotals
  <2>4. shown.xai.citations = Cardinality(others)
    BY <1>1
  <2> DEFINE total == CitationTotals(rs)[1]
             of == shown.xai.citations
  <2> HIDE DEF others, all, judged, both, total, of
  <2>5. IsFiniteSet(others) /\ IsFiniteSet(judged) /\ IsFiniteSet(all)
    BY <1>3, <1>4, <2>1, FS_Subset DEF all
  <2>6. Cardinality(both) = Cardinality(others) + Cardinality(judged) - Cardinality(others \cap judged)
    BY <2>5, FS_Union DEF both
  <2>7. /\ Cardinality(both) <= Cardinality(all) /\ Cardinality(others \cap judged) = 0
        /\ Cardinality(others) \in Nat /\ Cardinality(judged) \in Nat
    BY <2>2, <2>5, FS_Subset, FS_EmptySet, FS_CardinalityType
  <2>8. total = Cardinality(all) /\ of = Cardinality(others)
    BY <2>3, <2>4 DEF total, of
  <2>9. of + Cardinality(judged) <= total
    BY <2>6, <2>7, <2>8
  <2> QED
    BY <2>9 DEF total, of
<1>12. judged = {c \in CitationsOf(scoped.runs) : \E v \in c[1].verdicts : v.cite = c[2]}
  BY DEF Judged
<1> HIDE DEF shown, providers, domains, league, judged
<1> QED
  BY <1>1, <1>7, <1>9, <1>10, <1>11, <1>12 DEF VerdictsAddUp, Total, shown, league

\* Whatever is run, edited and judged meanwhile, the tables of cited and of verified domains
\* agree with the tiles above them: each citation is counted for one domain and, however
\* often it was judged, in one bucket of its provider and of its domain; no domain is cited
\* by more runs than there are, nor checked more often than cited.
THEOREM TablesOfDomainsAddUp == Spec => []LeagueAddsUp
<1>1. ASSUME LeagueInv PROVE LeagueAddsUp
  <2> SUFFICES ASSUME NEW c \in Clients, NEW range \in Ranges, NEW scoped,
                      scoped = Scoped(c, range, Null)
               PROVE  CitationsAddUp(scoped.runs) /\ VerdictsAddUp(scoped)
    BY DEF LeagueAddsUp
  <2>1. scoped.runs \in SUBSET runs
    BY DEF Scoped, ClientScope, ClientRuns
  <2> QED
    BY <1>1, <2>1, CitationsDoAddUp, VerdictsDoAddUp DEF LeagueInv
<1> QED
  BY <1>1, LeagueInvInit, LeagueInvStep, PTL DEF Spec

=============================================================================
