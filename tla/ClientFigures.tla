----------------------------- MODULE ClientFigures -----------------------------
(***************************************************************************)
(* The figures of a client's dashboard: services/dashboard.py under        *)
(* routers/dashboard.py, as far as they count runs and citations.          *)
(***************************************************************************)
EXTENDS OpsFigures

CONSTANTS
  Normalized,   \* [source_domain as cited -> normalized_domain_sql of it]
  LeagueLimit   \* domain_league_rows(limit)

ASSUME LimitAssumption == LeagueLimit \in Nat

\* scoped_run_ids_query: successful runs only.
ClientScope(c, bounds, p) ==
  {r \in ClientRuns(c) : r.status = "success" /\ Time!Within(r.started, bounds)
                         /\ p \in {Null, ProviderOf(r)}}

\* _dashboard_scope: the runs of a window and, unless it is open, of the one before.
Scoped(c, range, p) ==
  LET bounds == Time!RangeBounds(range, now)
      before == Time!PreviousBounds(bounds)
  IN [bounds |-> bounds, runs |-> ClientScope(c, bounds, p),
      previous |-> IF before = Null THEN Null ELSE ClientScope(c, before, p)]

\* The citations of a set of runs, as <<run, position>>.
CitationsOf(rs) == UNION {{<<r, i>> : i \in DOMAIN r.ask.cites} : r \in rs}
DomainOf(cite) == Normalized[cite[1].ask.cites[cite[2]]]

\* citation_totals: citations, and distinct domains among those that have one.
CitationTotals(rs) ==
  <<Cardinality(CitationsOf(rs)), Cardinality({DomainOf(c) : c \in CitationsOf(rs)} \ {Null})>>

LeagueRow(cites) ==
  [citations |-> Cardinality(cites), runs |-> Cardinality({c[1] : c \in cites}),
   first |-> Min({c[1].started : c \in cites}), last |-> Max({c[1].started : c \in cites})]

\* ORDER BY count DESC LIMIT: none that is listed has less than one that is not.  Those that
\* have the same come by name, or as they come: which of them are listed is left open.
Top(count) ==
  CHOOSE top \in SUBSET DOMAIN count :
    /\ Cardinality(top) = Min({LeagueLimit, Cardinality(DOMAIN count)})
    /\ \A d \in top : \A e \in DOMAIN count \ top : count[e] <= count[d]

\* Mutant: domains as cited are counted and merged afterwards.
DomainLeague_MergedLate(rs) ==
  LET raw == {c[1].ask.cites[c[2]] : c \in CitationsOf(rs)}
      rows == [d \in raw |-> LeagueRow({c \in CitationsOf(rs) : c[1].ask.cites[c[2]] = d})]
      Cites(d) == rows[d].citations
      Runs(d) == rows[d].runs
      Merged(n) == {d \in raw : Normalized[d] = n}
  IN [n \in {Normalized[d] : d \in raw} \ {Null} |->
        [citations |-> Total(Cites, Merged(n)), runs |-> Total(Runs, Merged(n)), first |-> 0, last |-> 0]]

\* domain_league_rows: grouped by the normalized domain, before the limit.
DomainLeague(rs) ==
  LET known == {c \in CitationsOf(rs) : DomainOf(c) # Null}
      by == GroupBy(known, DomainOf)
      cited == [d \in DOMAIN by |-> Cardinality(by[d])]
  IN [d \in Top(cited) |-> LeagueRow(by[d])]

-----------------------------------------------------------------------------
(* Citation verification *)

\* Here from a bucket to its verdicts.
VERDICT_BUCKETS ==
  [verified |-> {"verified_exact", "verified_normalized", "page_changed", "archive_only",
                 "llm_supported"},
   partial |-> {"partially_found", "llm_partial"},
   unsupported |-> {"not_found", "llm_not_supported", "llm_contradicted"},
   unverifiable |-> {"unverifiable"}]

\* _VERIFICATION_EXCLUDED_PROVIDER_CODES
ExcludedProviders == {"xai", "deepseek"}

\* latest_verification_query over the runs in scope: the newest row of every citation.
LatestVerdicts(rs) ==
  {x \in VerdictsOf(rs) : \A v \in x[1].verdicts : v.cite = x[2].cite => v.at <= x[2].at}

\* _bucketed_verdict_counts of one group: a verdict without a bucket is dropped.
Bucketed(xs) ==
  [b \in DOMAIN VERDICT_BUCKETS |-> Cardinality({x \in xs : x[2].verdict \in VERDICT_BUCKETS[b]})]

Checked(counts) == LET In(b) == counts[b] IN Total(In, DOMAIN counts)

\* What both breakdowns count.
Comparable(rs) == {x \in LatestVerdicts(rs) : ProviderOf(x[1]) \notin ExcludedProviders}

\* A group whose verdicts have no bucket gets no row.
Buckets(groups) ==
  [k \in {k \in DOMAIN groups : Checked(Bucketed(groups[k])) > 0} |-> Bucketed(groups[k])]

\* citation_verification_rates_by_provider
RatesByProvider(rs) ==
  LET Provider(x) == ProviderOf(x[1]) IN Buckets(GroupBy(Comparable(rs), Provider))

VerdictDomain(x) == DomainOf(<<x[1], x[2].cite>>)

\* citation_verification_rates_by_domain: the most checked domains.
RatesByDomain(rs) ==
  LET rates == Buckets(GroupBy({x \in Comparable(rs) : VerdictDomain(x) # Null}, VerdictDomain))
      checked == [d \in DOMAIN rates |-> Checked(rates[d])]
  IN [d \in Top(checked) |-> rates[d]]

\* xai_reviewed_sources_count: of the citations of one provider, those somebody could open.
ReviewedSources(rs) ==
  [citations |-> Cardinality(CitationsOf({r \in rs : ProviderOf(r) = "xai"})),
   reviewed |-> Cardinality({<<x[1], x[2].cite>> : x \in {x \in VerdictsOf(rs) : x[2].verdict = "source_reachable"}})]

\* dashboard_citation_verification
CitationVerification(scoped) ==
  [providers |-> RatesByProvider(scoped.runs), domains |-> RatesByDomain(scoped.runs),
   xai |-> ReviewedSources(scoped.runs)]

-----------------------------------------------------------------------------
\* weekly_values and dashboard_timeseries: the runs that each bar counts from.
Weekly(scoped) ==
  LET axis == Time!Axis({r.started : r \in scoped.runs}, scoped.bounds, "week")
      In(week) == {r \in scoped.runs : Time!Bucket(r.started, "week") = week}
  IN [week \in axis |-> In(week)]

\* dashboard_summary, with what its deltas compare
ClientSummary(scoped) ==
  [runs |-> Cardinality(scoped.runs), citations |-> CitationTotals(scoped.runs)[1],
   domains |-> CitationTotals(scoped.runs)[2],
   runsBefore |-> IF scoped.previous = Null THEN Null ELSE Cardinality(scoped.previous),
   citationsBefore |-> IF scoped.previous = Null THEN Null ELSE CitationTotals(scoped.previous)[1]]
=============================================================================
