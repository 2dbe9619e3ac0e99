------------------------------ MODULE Retrieval ------------------------------
(***************************************************************************)
(* How the evidence for one chat question is gathered                      *)
(* (app/services/retrieval_orchestrator.py): the mode the server allows,   *)
(* the local retrieval (retrieval_service.py), the judgement whether it is *)
(* enough (evidence_sufficiency_service.py), the web search with its page  *)
(* fetches (web_search_service.py), and the bundle with its audit.         *)
(*                                                                         *)
(* In knowledge_first the local retrieval and the search run one after the *)
(* other in the thread of the request ("main").  In hybrid each has a      *)
(* thread of a pool and main waits for them under one deadline; a thread   *)
(* that is too late is left running.  The fetches of a search have a pool  *)
(* of their own, whose threads may outlive the search as well.             *)
(*                                                                         *)
(* Abstractions.  A page address is a number, in the order the service     *)
(* sorts them; a text is a value whose sanitized form is a constant; a     *)
(* page too short to use is one with nothing left.  What depends only on   *)
(* the wording of the question and is asked once (freshness terms, covered *)
(* entities, the query sanitizer) is chosen where it is asked.  Of the     *)
(* reasons to exclude a page a timeout alone is told apart; the reason why *)
(* the web was searched is not kept.  The provider, the web servers, the   *)
(* index and the embedding service are external: they answer anything, or  *)
(* never.  Texts that differ in case or in line breaks only count as one.  *)
(***************************************************************************)
EXTENDS Integers, FiniteSets, Sequences, SequencesExt

CONSTANTS Urls,          \* the addresses of pages
          Domain,        \* [Urls -> the domain of the address]
          Allowed,       \* addresses the domain policy lets pass
          LowQuality,    \* addresses of search, tag and login pages
          Trusted,       \* domains of government, education, or listed
          Questions,     \* modes asked for, with what the policy looks at
          Texts,         \* what a page or a chunk may say
          Safe,          \* [Texts -> Texts \cup {Nothing}]: what is left
          Nothing,       \* an empty text, an absent value
          HitLists,      \* answers of the search provider
          Cached,        \* what an earlier search may have left, or Nothing
          Caching,       \* whether hits are kept (a TTL above zero)
          Results,       \* answers of the vector index: sets of results
          TopK, MinEvidence, Threshold, DefaultMode,
          MaxPages, MaxPerDomain, MaxRedirects, Workers

Modes == {"knowledge_only", "knowledge_first", "hybrid"}

\* How the web search went, and why a question has no evidence from the web
\* or was not answered in the mode asked for.
SearchStatuses == {"not_requested", "blocked_by_policy", "not_configured", "success",
                   "partial", "failed", "timeout", "rate_limited", "query_rejected"}
Reasons == {"global_web_search_disabled", "role_web_search_denied", "knowledge_base_denied",
            "web_query_rejected", "client_cancelled", "web_provider_not_configured",
            "web_search_failed", "web_no_results", "web_no_usable_sources",
            "web_partial_fetch", "web_total_timeout", "local_retrieval_failed",
            "web_unavailable_local_fallback"}

Decisions == [requested : Modes, effective : Modes, status : SearchStatuses,
              fallback : Reasons \cup {Nothing}]

ASSUME Limits ==
    /\ Urls \subseteq Nat
    /\ Questions \subseteq [mode : {Nothing, "knowledge_only", "knowledge_first", "hybrid"},
                           enabled : BOOLEAN, roleAllowed : BOOLEAN,
                           policy : {"inherit", "allow", "deny"}, risky : BOOLEAN]
    /\ TopK \in 1 .. 100 /\ MinEvidence \in 1 .. 100
    /\ MaxPages \in 1 .. 20 /\ MaxPerDomain \in 1 .. 10 /\ MaxRedirects \in 0 .. 10
    /\ Workers \in 1 .. 4
    /\ Caching \in BOOLEAN /\ Cached \subseteq HitLists \cup {Nothing}
    /\ HitLists \subseteq Seq(Urls)
    /\ DefaultMode \in Modes
    /\ Safe \in [Texts -> Texts \cup {Nothing}]
    /\ \A t \in Texts : Safe[t] # Nothing => Safe[Safe[t]] = Safe[t]
    /\ \A results \in Results : \A r \in results : r.text \in Texts
    /\ Nothing \notin Texts \cup Reasons \cup {"excluded", "fetch_timeout"} \cup Decisions

VARIABLES ask,        \* the question: mode, and what the policy looks at
          main,       \* where main is
          decision,   \* the requested and the effective mode
          local,      \* the local retrieval: where it is, its chunks
          web,        \* the search: where it is, exclusions, pages, outcome
          task,       \* the fetches of the search, by the address selected
          late,       \* the deadline passed while main waited for the chunks
          cancelled,  \* the client has stopped the answer
          cache,      \* hits of an earlier search for this query, or Nothing
          sent,       \* the provider was asked
          bundle      \* what the caller is given

retrievalVars ==
    <<ask, main, decision, local, web, task, late, cancelled, cache, sent, bundle>>

NoTasks == [u \in {} |-> Nothing]

\* The variables have their types.
RetrievalTypeOK ==
    /\ ask \in Questions
    /\ main \in {"policy", "local", "web", "together", "await", "done", "error"}
    /\ decision \in Decisions \cup {Nothing}
    /\ local.pc \in {"idle", "pointers", "query", "done", "failed"}
    /\ web.pc \in {"idle", "begin", "search", "asking", "select", "fetching", "rank",
                   "returned"}
    /\ web.excluded \subseteq {"excluded", "fetch_timeout"}
    /\ DOMAIN task \subseteq Urls
    /\ \A u \in DOMAIN task :
          /\ task[u].pc \in {"queued", "running", "done", "collected", "cancelled"}
          /\ task[u].at \in Urls /\ task[u].hops \in 0 .. MaxRedirects
    /\ late \in BOOLEAN /\ cancelled \in BOOLEAN /\ sent \in BOOLEAN
    /\ cache \in HitLists \cup Cached \cup {Nothing}

-----------------------------------------------------------------------------
(* The mode the server allows.                                             *)

Resolved ==
    LET requested == IF ask.mode = Nothing THEN DefaultMode ELSE ask.mode
        Only(status, why) == [requested |-> requested, effective |-> "knowledge_only",
                              status |-> status, fallback |-> why]
    IN CASE requested = "knowledge_only" -> Only("not_requested", Nothing)
         [] ~ask.enabled -> Only("blocked_by_policy", "global_web_search_disabled")
         [] ~ask.roleAllowed -> Only("blocked_by_policy", "role_web_search_denied")
         [] ask.policy = "deny" -> Only("blocked_by_policy", "knowledge_base_denied")
         [] OTHER -> [requested |-> requested, effective |-> requested,
                      status |-> "not_requested", fallback |-> Nothing]

-----------------------------------------------------------------------------
(* The local retrieval.                                                    *)

\* Results in the order of score, without those of another knowledge base or
\* configuration, one per chunk, at most TopK.
Mapped(results) ==
    LET own == {r \in results : r.own /\ r.score >= Threshold}
        Before(r, s) == r.score > s.score \/ (r.score = s.score /\ r.id < s.id)
        first == {r \in own : \A s \in own : s.chunk = r.chunk => s = r \/ Before(r, s)}
        kept == {r \in first : Cardinality({s \in first : Before(s, r)}) < TopK}
    IN {[chunk |-> r.chunk, text |-> r.text, score |-> r.score] : r \in kept}

\* The sanitizer drops a chunk of which nothing is left.
Cleaned(chunks) ==
    {[c EXCEPT !.text = Safe[c.text]] : c \in {d \in chunks : Safe[d.text] # Nothing}}

\* retrieve_chunks up to the query: it fails for an unknown knowledge base,
\* for one without an active index, with pointers or lifecycle in conflict, or
\* with an empty collection, and finds nothing for an empty query.
ReadPointers ==
    /\ local.pc = "pointers"
    /\ local' \in {[local EXCEPT !.pc = "query"], [local EXCEPT !.pc = "failed"],
                   [local EXCEPT !.pc = "done"]}
    /\ UNCHANGED <<ask, main, decision, web, task, late, cancelled, cache,
                   sent, bundle>>

\* similarity_search and the mapping; the collection may have gone since, and
\* the embedding service may fail.
Query ==
    /\ local.pc = "query"
    /\ \/ local' = [local EXCEPT !.pc = "failed"]
       \/ \E results \in Results :
             local' = [pc |-> "done", chunks |-> Cleaned(Mapped(results))]
    /\ UNCHANGED <<ask, main, decision, web, task, late, cancelled, cache,
                   sent, bundle>>

-----------------------------------------------------------------------------
(* The web search.                                                         *)

Outcome(status, triggered, why) ==
    [status |-> status, triggered |-> triggered, fallback |-> why, pages |-> {}]

NoSearch == [pc |-> "idle", hits |-> <<>>, excluded |-> {}, pages |-> {},
             outcome |-> Nothing]

Return(outcome) == web' = [NoSearch EXCEPT !.pc = "returned", !.outcome = outcome]

\* The query is rejected, the client is gone, or there is no provider.
BeginSearch ==
    /\ web.pc = "begin"
    /\ \/ Return(Outcome("query_rejected", FALSE, "web_query_rejected"))
       \/ cancelled /\ Return(Outcome("failed", FALSE, "client_cancelled"))
       \/ /\ ~cancelled /\ cache = Nothing
          /\ Return(Outcome("not_configured", FALSE, "web_provider_not_configured"))
       \/ ~cancelled /\ web' = [web EXCEPT !.pc = "search"]
    /\ UNCHANGED <<ask, main, decision, local, task, late, cancelled, cache,
                   sent, bundle>>

\* A cached answer that has not expired is used; an expired one is dropped.
CachedSearch ==
    /\ web.pc = "search"
    /\ \/ /\ cache # Nothing
          /\ web' = [web EXCEPT !.pc = "select", !.hits = cache]
          /\ UNCHANGED <<cache, sent>>
       \/ /\ cache' = Nothing
          /\ sent' = TRUE
          /\ web' = [web EXCEPT !.pc = "asking"]
    /\ UNCHANGED <<ask, main, decision, local, task, late, cancelled, bundle>>

ProviderAnswers ==
    /\ web.pc = "asking"
    /\ \/ \E hits \in HitLists : /\ web' = [web EXCEPT !.pc = "select", !.hits = hits]
                                 /\ cache' = IF Caching THEN hits ELSE cache
       \/ /\ \E status \in {"rate_limited", "timeout", "failed"} :
                Return(Outcome(status, TRUE, "web_search_failed"))
          /\ UNCHANGED cache
    /\ UNCHANGED <<ask, main, decision, local, task, late, cancelled, sent, bundle>>

\* One hit of the list: excluded when the policy refuses it, when it was seen,
\* is of low quality or one too many of its domain, or else selected.
Considered(s, u) ==
    IF Cardinality(s.urls) >= MaxPages THEN s
    ELSE IF \/ u \notin Allowed \/ u \in s.urls \/ u \in LowQuality
            \/ Cardinality({v \in s.urls : Domain[v] = Domain[u]}) >= MaxPerDomain
    THEN [s EXCEPT !.excluded = {"excluded"}]
    ELSE [s EXCEPT !.urls = @ \cup {u}]

Select ==
    /\ web.pc = "select"
    /\ LET chosen == FoldLeft(Considered, [urls |-> {}, excluded |-> {}], web.hits)
       IN IF web.hits = <<>>
          THEN /\ Return(Outcome("success", TRUE, "web_no_results"))
               /\ UNCHANGED task
          ELSE /\ web' = [web EXCEPT !.excluded = chosen.excluded,
                             !.pc = IF chosen.urls = {} THEN "rank" ELSE "fetching"]
               /\ task' = [u \in chosen.urls |->
                              [pc |-> "queued", at |-> u, hops |-> 0, result |-> Nothing]]
    /\ UNCHANGED <<ask, main, decision, local, late, cancelled, cache, sent, bundle>>

-----------------------------------------------------------------------------
(* Fetches.                                                                *)

StartFetch(u) ==
    /\ task[u].pc = "queued"
    /\ Cardinality({v \in DOMAIN task : task[v].pc = "running"}) < Workers
    /\ task' = [task EXCEPT ![u].pc = "running"]
    /\ UNCHANGED <<ask, main, decision, local, web, late, cancelled, cache,
                   sent, bundle>>

(* MUTANT of Follow: only the first address is checked. *)
FollowAnywhere(t, v) ==
    IF t.hops >= MaxRedirects
    THEN [t EXCEPT !.pc = "done", !.result = "excluded"]
    ELSE [t EXCEPT !.at = v, !.hops = @ + 1]

\* A redirect is followed while hops are left and the policy allows its target.
Follow(t, v) ==
    IF t.hops >= MaxRedirects \/ v \notin Allowed
    THEN [t EXCEPT !.pc = "done", !.result = "excluded"]
    ELSE [t EXCEPT !.at = v, !.hops = @ + 1]

\* One request of a fetch: the address does not resolve to public hosts only or
\* the answer is not usable, the request times out, redirects or brings a page.
Fetch(u) ==
    /\ task[u].pc = "running"
    /\ \/ \E r \in {"fetch_timeout", "excluded"} \cup Texts :
             task' = [task EXCEPT ![u].pc = "done", ![u].result = r]
       \/ \E v \in Urls : task' = [task EXCEPT ![u] = Follow(task[u], v)]
    /\ UNCHANGED <<ask, main, decision, local, web, late, cancelled, cache,
                   sent, bundle>>

Page(u) == [hit |-> u, url |-> task[u].at, text |-> Safe[task[u].result]]

\* What a finished fetch adds.  The domain of the evidence is that of the hit,
\* whatever address the redirects led to.
Taken(u) ==
    LET r == task[u].result
        Exclude(whys) == [web EXCEPT !.excluded = @ \cup whys]
        removed == IF Safe[r] # r THEN {"excluded"} ELSE {}
    IN IF r \notin Texts THEN Exclude({r})
       ELSE IF Safe[r] = Nothing \/ (ask.risky /\ Domain[u] \notin Trusted)
       THEN Exclude({"excluded"})
       ELSE [Exclude(removed) EXCEPT !.pages = @ \cup {Page(u)}]

Stopped == [web EXCEPT !.excluded = @ \cup {"excluded"}, !.pc = "rank"]

Collected(u) == [pc |-> "collected", at |-> u, hops |-> 0, result |-> Nothing]

\* as_completed yields a finished fetch; a stop of the client is seen here.
Collect(u) ==
    /\ web.pc = "fetching" /\ task[u].pc = "done"
    /\ IF cancelled
       THEN web' = Stopped /\ UNCHANGED task
       ELSE /\ web' = Taken(u)
            /\ task' = [task EXCEPT ![u] = Collected(u)]
    /\ UNCHANGED <<ask, main, decision, local, late, cancelled, cache, sent, bundle>>

AllCollected ==
    /\ web.pc = "fetching"
    /\ \A u \in DOMAIN task : task[u].pc = "collected"
    /\ web' = [web EXCEPT !.pc = "rank"]
    /\ UNCHANGED <<ask, main, decision, local, task, late, cancelled, cache,
                   sent, bundle>>

FetchDeadline ==
    /\ web.pc = "fetching"
    /\ \E u \in DOMAIN task : task[u].pc # "collected"
    /\ web' = [web EXCEPT !.pc = "rank", !.excluded = @ \cup {"fetch_timeout"}]
    /\ UNCHANGED <<ask, main, decision, local, task, late, cancelled, cache,
                   sent, bundle>>

\* One page per text, the first in the order of trust and address (the dates of
\* publication are left out).
Distinct(pages) ==
    LET Is(p) == Domain[p.hit] \in Trusted
        Before(p, q) == (Is(p) /\ ~Is(q)) \/ (Is(p) = Is(q) /\ p.url < q.url)
        First(same) == CHOOSE p \in same : \A q \in same : ~Before(q, p)
    IN {First({p \in pages : p.text = text}) : text \in {p.text : p \in pages}}

\* The futures still queued are cancelled, and the result gets its status.
Rank ==
    /\ web.pc = "rank"
    /\ LET kept == Distinct(web.pages)
           excluded == web.excluded \cup
                       (IF kept # web.pages THEN {"excluded"} ELSE {})
       IN Return([status |-> CASE kept # {} /\ excluded = {} -> "success"
                               [] kept # {} /\ excluded # {} -> "partial"
                               [] kept = {} /\ excluded = {"fetch_timeout"} -> "timeout"
                               [] OTHER -> "failed",
                  triggered |-> TRUE,
                  fallback |-> CASE kept = {} -> "web_no_usable_sources"
                                 [] kept # {} /\ excluded # {} -> "web_partial_fetch"
                                 [] OTHER -> Nothing,
                  pages |-> kept])
    /\ task' = [u \in DOMAIN task |-> IF task[u].pc = "queued"
                                      THEN [task[u] EXCEPT !.pc = "cancelled"]
                                      ELSE task[u]]
    /\ UNCHANGED <<ask, main, decision, local, late, cancelled, cache, sent, bundle>>

-----------------------------------------------------------------------------
(* The orchestrator.                                                       *)

RetrievalInit ==
    /\ ask \in Questions
    /\ main = "policy" /\ decision = Nothing
    /\ local = [pc |-> "idle", chunks |-> {}]
    /\ web = NoSearch
    /\ task = NoTasks /\ late = FALSE /\ cancelled = FALSE
    /\ cache \in Cached
    /\ sent = FALSE /\ bundle = Nothing

Cancel ==
    /\ ~cancelled /\ main \notin {"done", "error"}
    /\ cancelled' = TRUE
    /\ UNCHANGED <<ask, main, decision, local, web, task, late, cache, sent, bundle>>

\* An unknown knowledge base fails in _retrieve_local, before any decision.
Begin ==
    /\ main = "policy"
    /\ \/ main' = "error" /\ UNCHANGED <<decision, local, web>>
       \/ /\ decision' = Resolved
          /\ local' = [local EXCEPT !.pc = "pointers"]
          /\ IF decision'.effective = "hybrid"
             THEN /\ main' = "together"
                  /\ web' = [web EXCEPT !.pc = "begin"]
             ELSE main' = "local" /\ UNCHANGED web
    /\ UNCHANGED <<ask, task, late, cancelled, cache, sent, bundle>>

\* The rules of evaluate, of which one is enough.
Insufficient(fresh, uncovered) ==
    \/ local.pc = "failed" \/ local.chunks = {}
    \/ fresh
    \/ \A c \in local.chunks : c.score < Threshold
    \/ Cardinality(local.chunks) < MinEvidence
    \/ uncovered

Bundled(chunks, pages, outcome, fallback, failed) ==
    [triggered |-> outcome.triggered, status |-> outcome.status,
     fallback |-> IF fallback # Nothing THEN fallback
                  ELSE IF outcome.fallback # Nothing THEN outcome.fallback
                  ELSE decision.fallback,
     chunks |-> chunks, pages |-> pages, localFailed |-> failed]

WithoutWeb(outcome) ==
    /\ main' = "done"
    /\ bundle' = Bundled(local.chunks, {}, outcome, Nothing, local.pc = "failed")

\* main has the local result: an error ends knowledge_only, and is a reason to
\* search the web in knowledge_first.
Judge ==
    /\ main = "local" /\ local.pc \in {"done", "failed"}
    /\ IF decision.effective = "knowledge_only"
       THEN /\ IF local.pc = "failed" THEN main' = "error" /\ UNCHANGED bundle
               ELSE WithoutWeb(Outcome(decision.status, FALSE, decision.fallback))
            /\ UNCHANGED web
       ELSE \E fresh, uncovered \in BOOLEAN :
               IF ~Insufficient(fresh, uncovered)
               THEN /\ WithoutWeb(Outcome("not_requested", FALSE, Nothing))
                    /\ UNCHANGED web
               ELSE IF cancelled
               THEN /\ WithoutWeb(Outcome("failed", FALSE, "client_cancelled"))
                    /\ UNCHANGED web
               ELSE /\ main' = "web" /\ web' = [web EXCEPT !.pc = "begin"]
                    /\ UNCHANGED bundle
    /\ UNCHANGED <<ask, decision, local, task, late, cancelled, cache, sent>>

(* MUTANT of Merged: the fallback is worked out before the repeats go. *)
MergedEarly(chunks, outcome, failed) ==
    LET pages == {p \in outcome.pages : \A c \in chunks : c.text # p.text}
        fallback == IF failed /\ outcome.pages # {} THEN "local_retrieval_failed"
                    ELSE IF outcome.pages = {} /\ chunks # {} /\ outcome.fallback = Nothing
                    THEN "web_unavailable_local_fallback"
                    ELSE outcome.fallback
    IN Bundled(chunks, pages, outcome, fallback, failed)

(* MUTANT of Merged: the repeats stay. *)
MergedWithRepeats(chunks, outcome, failed) ==
    Bundled(chunks, outcome.pages, outcome,
            IF failed THEN "local_retrieval_failed" ELSE outcome.fallback, failed)

\* Pages that repeat a chunk are dropped before the fallback is worked out.
Merged(chunks, outcome, failed) ==
    LET pages == {p \in outcome.pages : \A c \in chunks : c.text # p.text}
        fallback == IF failed /\ pages # {} THEN "local_retrieval_failed"
                    ELSE IF pages = {} /\ chunks # {} /\ outcome.fallback = Nothing
                    THEN "web_unavailable_local_fallback"
                    ELSE outcome.fallback
    IN Bundled(chunks, pages, outcome, fallback, failed)

KnowledgeFirst ==
    /\ main = "web" /\ web.pc = "returned"
    /\ main' = "done"
    /\ bundle' = Merged(local.chunks, web.outcome, local.pc = "failed")
    /\ UNCHANGED <<ask, decision, local, web, task, late, cancelled, cache,
                   sent>>

(* MUTANT of HybridLocal: the wait for the chunks has no deadline. *)
HybridLocalForever ==
    /\ main = "together"
    /\ local.pc \in {"done", "failed"}
    /\ main' = "await"
    /\ UNCHANGED <<ask, decision, local, web, task, late, cancelled, cache,
                   sent, bundle>>

(* MUTANT of HybridLocal: main goes on when the search has returned. *)
HybridEither ==
    /\ main = "together"
    /\ local.pc \in {"done", "failed"} \/ web.pc = "returned"
    /\ main' = "await"
    /\ UNCHANGED <<ask, decision, local, web, task, late, cancelled, cache,
                   sent, bundle>>

\* hybrid: main waits for the local thread first, until the deadline.
HybridLocal ==
    /\ main = "together"
    /\ \/ local.pc \in {"done", "failed"} /\ UNCHANGED late
       \/ local.pc \in {"pointers", "query"} /\ late' = TRUE
    /\ main' = "await"
    /\ UNCHANGED <<ask, decision, local, web, task, cancelled, cache, sent, bundle>>

TimedOut == Outcome("timeout", TRUE, "web_total_timeout")

\* Then for the search, with what the deadline leaves (a millisecond at least).
HybridWeb ==
    /\ main = "await"
    /\ main' = "done"
    /\ LET failed == late \/ local.pc = "failed"
           chunks == IF failed THEN {} ELSE local.chunks
       IN \/ web.pc = "returned" /\ bundle' = Merged(chunks, web.outcome, failed)
          \/ web.pc # "returned" /\ bundle' = Merged(chunks, TimedOut, failed)
    /\ UNCHANGED <<ask, decision, local, web, task, late, cancelled, cache,
                   sent>>

Local == ReadPointers \/ Query
Search == BeginSearch \/ CachedSearch \/ ProviderAnswers \/ Select
          \/ (\E u \in DOMAIN task : Collect(u)) \/ AllCollected \/ FetchDeadline \/ Rank
Fetches == \E u \in DOMAIN task : StartFetch(u) \/ Fetch(u)
Main == Begin \/ Judge \/ KnowledgeFirst \/ HybridLocal \/ HybridWeb

RetrievalNext == Main \/ Local \/ Search \/ Fetches \/ Cancel

\* Only main is sure to go on: a thread of the pools may hang for ever in the
\* database, in the embedding service, in the provider or on a web server.
RetrievalSpec ==
    RetrievalInit /\ [][RetrievalNext]_retrievalVars /\ WF_retrievalVars(Main)

-----------------------------------------------------------------------------
(* Properties.                                                             *)

Permitted == /\ decision # Nothing /\ decision.requested # "knowledge_only"
             /\ ask.enabled /\ ask.roleAllowed /\ ask.policy # "deny"

\* The provider is asked and pages are fetched only when the question asks for
\* the web and the switch, the role and the knowledge base all allow it, and no
\* request, of a redirect neither, goes to an address the domain policy refuses.
NothingLeavesWithoutLeave ==
    /\ sent \/ task # NoTasks => Permitted
    /\ \A u \in DOMAIN task : task[u].at \in Allowed

\* The audit of a bundle says what happened.  A question that was sent to the
\* provider is recorded, also when the search is given up at the deadline of
\* hybrid while it runs.  Evidence that is missing has a reason: when the
\* requested mode was not applied, when the local side failed, and when the web
\* was searched and brought no page, whatever the order in which repeats and
\* exclusions removed them.  And a search that ends as a success has used every
\* page it selected: one that was late, failed, stopped or changed makes it
\* partial.  (And the variables have their types.)
AuditIsTrue ==
    /\ RetrievalTypeOK
    /\ bundle # Nothing =>
          /\ sent => bundle.triggered
          /\ decision.effective # decision.requested => bundle.fallback # Nothing
          /\ bundle.localFailed => bundle.fallback # Nothing
          /\ bundle.triggered /\ bundle.pages = {} => bundle.fallback # Nothing
    /\ web.pc = "returned" /\ web.outcome.status = "success" =>
          /\ \A u \in DOMAIN task : task[u].pc = "collected"
          /\ Cardinality(web.outcome.pages) = Cardinality(DOMAIN task)

\* The bundle has no text twice, no text the sanitizer would change and none it
\* removed, from whichever side and through whichever redirects it came.
EvidenceIsDistinctAndClean ==
    bundle # Nothing =>
        /\ \A p, q \in bundle.pages : p.text = q.text => p = q
        /\ \A p \in bundle.pages, c \in bundle.chunks : p.text # c.text
        /\ \A e \in bundle.pages \cup bundle.chunks :
              e.text \in Texts /\ Safe[e.text] = e.text

\* The session of the request is used by one thread at a time, except after the
\* deadline of hybrid: only then may the local thread still run when main goes
\* on to answer.
SessionIsSharedOnlyWhenLate ==
    bundle # Nothing /\ local.pc \in {"pointers", "query"} => late

\* A hybrid question gets its bundle however long the index, the provider and
\* the web servers take: main depends on the deadline alone.
HybridEnds == main = "together" ~> bundle # Nothing
=============================================================================
