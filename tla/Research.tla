------------------------------ MODULE Research -----------------------------
(***************************************************************************)
(* Web research of one chat request (research/, tools/web_research.py):    *)
(* the budget its three tools share, the page fetcher with its redirects,  *)
(* and the bounded best-first crawl.  What redirects where and what        *)
(* robots.txt disallows is constant; a page may have any of the link lists *)
(* given, any fetch may fail, and the crawl's deadline may strike at any   *)
(* await.                                                                  *)
(***************************************************************************)
EXTENDS Naturals, SequencesExt, FiniteSets

CONSTANTS
    Urls,
    HostOf, DomainOf,   \* the host of a url, the registrable domain of a host
    Links,              \* the links a page may have, in order
    Redirect,           \* where a url redirects; itself for a page
    Locs,               \* what the sitemap of a host lists, in order
    Disallowed,         \* by robots.txt
    Rejected,           \* by the url guard (an address it refuses is a failing fetch)
    Relevance,          \* overlap with the query
    Seeds, Caps,        \* crawls asked for: the seed, [depth, pages] at most
    BudgetPerRequest,
    NoCrawl

ASSUME ResearchAssumption ==
    /\ BudgetPerRequest \in Nat /\ Seeds \subseteq Urls
    /\ \A c \in Caps : c.depth \in Nat /\ c.pages \in Nat \ {0}
    /\ \A l \in Links : l \in Seq(Urls)
    /\ \A u \in Urls : Locs[HostOf[u]] \in Seq(Urls) /\ Relevance[u] \in Nat

_MAX_REDIRECT_HOPS == 5
SeedScore == 1000000

VARIABLES
    budget,     \* calls left to this request
    crawl       \* the crawl that runs, or the last one

rvars == <<budget, crawl>>

\* open_research_context, once for a request.
RInit == budget = BudgetPerRequest /\ crawl = NoCrawl

Running == crawl # NoCrawl /\ crawl.st # "done"

consume_budget == budget > 0 /\ budget' = budget - 1

\* A search or a single fetch, whatever comes of it.
SearchOrFetch == ~Running /\ consume_budget /\ UNCHANGED crawl

-----------------------------------------------------------------------------
validate_url(u) == u \notin Rejected
same_registrable_domain(u, seed) ==
    validate_url(u) /\ DomainOf[HostOf[u]] = DomainOf[HostOf[seed]]

\* Where a fetch ends, every hop validated; empty when it is rejected on the
\* way or redirected too often.
_fetch_following_redirects(u) ==
    LET hop[n \in 0.._MAX_REDIRECT_HOPS] == IF n = 0 THEN u ELSE Redirect[hop[n - 1]]
        here == {n \in 0.._MAX_REDIRECT_HOPS :
                    /\ Redirect[hop[n]] = hop[n]
                    /\ \A k \in 0..n : validate_url(hop[k])}
    IN {hop[n] : n \in here}

-----------------------------------------------------------------------------
\* web_crawl: the model may narrow the caps; a seed the guard refuses is an
\* error.
web_crawl(seed, caps) ==
    /\ ~Running /\ consume_budget
    /\ crawl' = IF ~validate_url(seed) THEN crawl
                ELSE [st |-> "sitemap", seed |-> seed, caps |-> caps,
                      frontier |-> <<[url |-> seed, depth |-> 0, score |-> SeedScore]>>,
                      visited |-> {seed}, popped |-> <<>>, pages |-> <<>>, robots |-> {},
                      skipped_robots |-> 0, skipped_offdomain |-> 0, fetch_errors |-> 0,
                      hit_page_cap |-> FALSE, hit_deadline |-> FALSE]

\* Mutant: a url that was seen is queued again.
pushed_again(c, u, depth) ==
    [c EXCEPT !.visited = @ \cup {u},
              !.frontier = Append(@, [url |-> u, depth |-> depth, score |-> Relevance[u]])]

\* A url not seen yet joins the frontier.
pushed(c, u, depth) ==
    IF u \in c.visited THEN c
    ELSE [c EXCEPT !.visited = @ \cup {u},
                   !.frontier = Append(@, [url |-> u, depth |-> depth, score |-> Relevance[u]])]

\* The ones of a list that are kept, in its order.
PushAll(c, urls, kept, depth) ==
    LET after[n \in 0..Len(urls)] ==
            IF n = 0 THEN c
            ELSE IF urls[n] \in kept THEN pushed(after[n - 1], urls[n], depth) ELSE after[n - 1]
    IN after[Len(urls)]

\* The sitemap's entries of this domain are one step from the seed.
_sitemap_candidates ==
    /\ Running /\ crawl.st = "sitemap"
    /\ \E read \in BOOLEAN :
          LET found == IF read THEN Locs[HostOf[crawl.seed]] ELSE <<>>
              fit == {u \in Urls : same_registrable_domain(u, crawl.seed)}
          IN crawl' = [IF crawl.caps.depth >= 1 THEN PushAll(crawl, found, fit, 1) ELSE crawl
                          EXCEPT !.st = "pop"]
    /\ UNCHANGED budget

\* The first of the best.
Best(f, k) == \A j \in DOMAIN f : f[k].score > f[j].score \/ (f[k].score = f[j].score /\ k <= j)

\* The next candidate: dropped when it is off the seed's domain.
PopCandidate ==
    /\ Running /\ crawl.st = "pop" /\ Len(crawl.pages) < crawl.caps.pages
    /\ \E k \in DOMAIN crawl.frontier :
          LET c == [crawl EXCEPT !.frontier = RemoveAt(@, k)] IN
          /\ Best(crawl.frontier, k)
          /\ crawl' = IF same_registrable_domain(crawl.frontier[k].url, crawl.seed)
                      THEN [c EXCEPT !.st = "robots", !.popped = <<crawl.frontier[k]>>]
                      ELSE [c EXCEPT !.skipped_offdomain = @ + 1]
    /\ UNCHANGED budget

\* robots.txt is read once for a host; one that cannot be read forbids nothing.
_load_robots ==
    /\ Running /\ crawl.st = "robots"
    /\ LET host == HostOf[crawl.popped[1].url]
           ask(c) == IF c.popped[1].url \in Disallowed /\ <<host, TRUE>> \in c.robots
                     THEN [c EXCEPT !.st = "pop", !.popped = <<>>, !.skipped_robots = @ + 1]
                     ELSE [c EXCEPT !.st = "fetch"]
       IN \/ /\ \E read \in BOOLEAN : <<host, read>> \in crawl.robots
             /\ crawl' = ask(crawl)
          \/ /\ \A read \in BOOLEAN : <<host, read>> \notin crawl.robots
             /\ \E read \in BOOLEAN :
                   crawl' = ask([crawl EXCEPT !.robots = @ \cup {<<host, read>>}])
    /\ UNCHANGED budget

\* The page, and its links while there is depth left; or an error.
FetchPage ==
    /\ Running /\ crawl.st = "fetch"
    /\ LET at == crawl.popped[1]
           c == [crawl EXCEPT !.st = "pop", !.popped = <<>>]
       IN \/ crawl' = [c EXCEPT !.fetch_errors = @ + 1]
          \/ \E final \in _fetch_following_redirects(at.url), links \in Links :
                LET read == [c EXCEPT !.pages = Append(@, [url |-> at.url, final |-> final,
                                                           depth |-> at.depth, links |-> links])]
                IN crawl' = IF at.depth < c.caps.depth
                            THEN PushAll(read, links, Urls, at.depth + 1) ELSE read
    /\ UNCHANGED budget

\* Nothing left, or enough pages.
CrawlReturns ==
    /\ Running /\ crawl.st = "pop"
    /\ crawl.frontier = <<>> \/ Len(crawl.pages) >= crawl.caps.pages
    /\ crawl' = [crawl EXCEPT !.st = "done", !.hit_page_cap = crawl.frontier # <<>>]
    /\ UNCHANGED budget

\* The deadline of the whole crawl, at an await.
CrawlDeadline ==
    /\ Running /\ crawl.st \in {"sitemap", "robots", "fetch"}
    /\ crawl' = [crawl EXCEPT !.st = "done", !.hit_deadline = TRUE]
    /\ UNCHANGED budget

RNext ==
    \/ SearchOrFetch \/ _sitemap_candidates \/ PopCandidate \/ _load_robots
    \/ FetchPage \/ CrawlReturns \/ CrawlDeadline
    \/ \E seed \in Seeds, caps \in Caps : web_crawl(seed, caps)

-----------------------------------------------------------------------------
ResearchTypeOK ==
    /\ budget \in 0..BudgetPerRequest
    /\ crawl # NoCrawl => /\ crawl.st \in {"sitemap", "pop", "robots", "fetch", "done"}
                          /\ Len(crawl.popped) <= 1 /\ crawl.visited \subseteq Urls

\* The outcome is "honest bookkeeping for the model": each url met is exactly
\* one of read, skipped, failed, waiting and in hand, so none is read twice;
\* and when neither the page cap nor the deadline is reported, every link of
\* every page read above the depth cap was itself read, skipped or failed.
CrawlIsHonest ==
    crawl # NoCrawl =>
        /\ Cardinality(crawl.visited) =
              Len(crawl.pages) + crawl.skipped_robots + crawl.skipped_offdomain
                + crawl.fetch_errors + Len(crawl.frontier) + Len(crawl.popped)
        /\ crawl.st = "done" /\ ~crawl.hit_page_cap /\ ~crawl.hit_deadline =>
              /\ crawl.frontier = <<>>
              /\ \A k \in DOMAIN crawl.pages : crawl.pages[k].depth < crawl.caps.depth =>
                    \A j \in DOMAIN crawl.pages[k].links : crawl.pages[k].links[j] \in crawl.visited
=============================================================================
