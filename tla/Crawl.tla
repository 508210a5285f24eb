------------------------------- MODULE Crawl --------------------------------
(***************************************************************************)
(* The site crawler: internal/site/crawl over the fetcher of               *)
(* internal/site/fetch and the page set of internal/site/discover.  One    *)
(* host, crawled again over the stored responses while its pages, its      *)
(* redirects, its robots.txt and its sitemap change.                       *)
(*                                                                         *)
(* A fetch, with the redirects it follows, is one step: the site changes   *)
(* between fetches.  A page is what it serves, when it was last modified,  *)
(* the links it holds and the address it declares canonical.               *)
(***************************************************************************)
EXTENDS Integers, Sequences, FiniteSets, SequencesExt

CONSTANTS
  Urls, Seed,      \* the pages' addresses, and the one a crawl starts at
  Sitemap, LLMsTxt, \* the addresses of the two manifests
  InScope,         \* the addresses under the seed's path
  Links,           \* the links of the page at an address, in order
  Canonical,       \* the address a page declares as its own, or None
  None,
  Site,            \* the sites a behaviour may begin with
  Moving,          \* redirects may move on a host that compares dates
  MaxPages,        \* 500: link-following adds no more
  LinkDepth,       \* 3
  MaxRedirects,    \* 5
  Slack,           \* 5000: requests beyond the declared pages
  MaxCrawls,       \* bound: crawls of a behaviour
  MaxChanges       \* bound: changes the site makes

VARIABLES
  web,      \* what the host serves
  cache,    \* the stored responses and the stored robots.txt
  crawl,    \* the crawl under way
  changes   \* how often the site changed

vars == <<web, cache, crawl, changes>>

Addresses == Urls \cup {Sitemap, LLMsTxt}
Probes == 2      \* how many pages that cannot exist are asked for

\* What an address may serve: a page, a redirect, nothing, no answer, a page
\* that stands for none, or something other than HTML.
Kinds == {"page", "moved", "gone", "dead", "soft", "file"}
Bodies == Urls \X Nat

ASSUME UrlsAssumption ==
  /\ IsFiniteSet(Urls) /\ Seed \in Urls /\ InScope \subseteq Urls /\ None \notin Urls
  /\ Links \in [Urls -> Seq(Urls)]
  /\ DOMAIN Canonical = Urls

ASSUME SiteAssumption ==
  /\ Site \subseteq [pages : [Urls -> [kind : Kinds, to : Urls, body : Bodies, mod : 0 .. 1]],
                     robots : [up : BOOLEAN, disallow : SUBSET Addresses], dates : BOOLEAN,
                     sitemap : [up : BOOLEAN, urls : SUBSET Urls], llms : SUBSET Urls]
  /\ Moving \in BOOLEAN

ASSUME LimitsAssumption == {MaxPages, LinkDepth, MaxRedirects, Slack, MaxCrawls, MaxChanges} \subseteq Nat

ASSUME SlackCoversLinks == Slack >= MaxPages

NoBody == <<None, 0>>
NoHit == [status |-> "none", body |-> NoBody, mod |-> 0, final |-> None]
NoRules == [disallow |-> Addresses, held |-> FALSE]
NoCopy == [disallow |-> {}, held |-> FALSE, fresh |-> FALSE]

Idle(n) ==
  [phase |-> "idle", count |-> n, fetches |-> 0, budget |-> Slack, redirects |-> 0,
   linked |-> 0, rules |-> NoRules, seed |-> NoHit, sitemap |-> {}, index |-> {},
   declared |-> {}, manifest |-> FALSE, queue |-> <<>>, known |-> {}, pages |-> [u \in Urls |-> NoBody],
   unreachable |-> {}, merges |-> {}]

CrawlInit ==
  /\ web \in Site
  /\ cache = [pages |-> [u \in Urls |-> NoHit], robots |-> NoCopy]
  /\ crawl = Idle(0)
  /\ changes = 0
-----------------------------------------------------------------------------
(* Fetching. *)

\* robotsFor: from memory, then a stored copy of the last day, then the host.
\* An unreachable host keeps whatever copy there is, and allows nothing where
\* there is none.
RobotsFor ==
  IF crawl.rules.held THEN crawl.rules
  ELSE IF cache.robots.held /\ cache.robots.fresh
    THEN [disallow |-> cache.robots.disallow, held |-> TRUE]
  ELSE IF web.robots.up
    THEN [disallow |-> web.robots.disallow, held |-> TRUE]
  ELSE IF cache.robots.held
    THEN [disallow |-> cache.robots.disallow, held |-> TRUE]
  ELSE [disallow |-> Addresses, held |-> TRUE]

AsksHost == ~crawl.rules.held /\ ~(cache.robots.held /\ cache.robots.fresh)

StoredRobots ==
  IF AsksHost /\ web.robots.up
    THEN [disallow |-> web.robots.disallow, held |-> TRUE, fresh |-> TRUE]
    ELSE cache.robots

\* redirectTo: where an address sends whoever asks it.
Hop == [u \in Urls |-> IF web.pages[u].kind = "moved" THEN web.pages[u].to ELSE u]

\* Where n steps of hop lead to from u.
Follow(hop, u, n) ==
  LET at[i \in 0 .. n] == IF i = 0 THEN u ELSE hop[at[i - 1]]
  IN at[n]

\* The address a chain of n redirects from u has reached.
Reached(u, n) == Follow(Hop, u, n)

Redirects(u) ==
  LET ends == {n \in 0..MaxRedirects : web.pages[Reached(u, n)].kind # "moved"}
  IN IF ends = {} THEN MaxRedirects + 1 ELSE Min(ends)

Final(u) == Reached(u, Redirects(u))

\* What is answered 200.
Served == {"page", "soft", "file"}

\* Asking for the page as it stood, whatever the host serves now.
NotModifiedEver(u, copy) == copy # NoHit /\ web.pages[Final(u)].kind \in Served

\* The validators of a stored copy, an error's too, go out with every hop,
\* whatever its address.  A host that compares tags confirms only the body it
\* serves; one that compares dates (web.dates) confirms whatever was not
\* modified since.
NotModified(u, copy) ==
  /\ copy # NoHit
  /\ web.pages[Final(u)].kind \in Served
  /\ IF web.dates THEN web.pages[Final(u)].mod <= copy.mod
     ELSE web.pages[Final(u)].body = copy.body

Settled(u) ==
  IF NotModified(u, cache.pages[u]) THEN cache.pages[u]
  ELSE [status |-> web.pages[Final(u)].kind, body |-> web.pages[Final(u)].body,
        mod |-> web.pages[Final(u)].mod, final |-> Final(u)]

Requests(u) == IF Redirects(u) > MaxRedirects THEN Redirects(u) ELSE Redirects(u) + 1
Asked == crawl.fetches + (IF AsksHost THEN 1 ELSE 0)
Affordable(u) == Asked + Requests(u) <= crawl.budget

\* Why a fetch of u fails, or "" where it yields a response.
FetchError(u) ==
  IF u \in RobotsFor.disallow THEN "robots"
  ELSE IF ~Affordable(u) THEN "budget"
  ELSE IF Redirects(u) > MaxRedirects THEN "redirects"
  ELSE IF web.pages[Final(u)].kind = "dead" THEN "network"
  ELSE ""

\* What a fetch of u leaves in the cache and in the crawl it belongs to.
CachedAfter(u) ==
  [pages  |-> IF FetchError(u) = "" THEN [cache.pages EXCEPT ![u] = Settled(u)]
              ELSE cache.pages,
   robots |-> StoredRobots]

Counted(c, u) ==
  LET spent == IF FetchError(u) = "robots" THEN 0
               ELSE IF Affordable(u) THEN Requests(u) ELSE Max({0, crawl.budget - Asked})
  IN [c EXCEPT !.fetches = Asked + spent,
               !.redirects = @ + (IF spent > 1 THEN spent - 1 ELSE 0),
               !.rules = RobotsFor]
-----------------------------------------------------------------------------
(* The crawl. *)

\* refusal: why a response holds no content.  A site that answers 200 for
\* pages that do not exist is recognised by its template.
Refusal(res) ==
  CASE res.status = "page" -> ""
    [] res.status = "soft" -> "soft 404"
    [] res.status = "file" -> "not HTML"
    [] OTHER -> "status"

\* run, fetchSeed: the seed page is discovery's index page.
FetchSeed ==
  /\ crawl.phase = "idle" /\ crawl.count < MaxCrawls
  /\ crawl' = Counted([crawl EXCEPT !.phase = "sitemap", !.count = @ + 1,
                                    !.seed = IF FetchError(Seed) = ""
                                                  /\ Settled(Seed).status \in Served
                                               THEN Settled(Seed) ELSE NoHit], Seed)
  /\ cache' = CachedAfter(Seed)
  /\ UNCHANGED <<web, changes>>

\* A manifest is asked for like a page: by the rules of robots.txt, which the
\* seed's fetch has read, and within the budget.
Reads(manifest) == manifest \notin crawl.rules.disallow /\ crawl.fetches < crawl.budget

AskedFor(manifest) == crawl.fetches + (IF Reads(manifest) THEN 1 ELSE 0)

\* sitemapCandidates: a sitemap that cannot be read lists nothing.
SitemapPages == IF Reads(Sitemap) /\ web.sitemap.up THEN web.sitemap.urls \cap InScope ELSE {}

ReadSitemap ==
  /\ crawl.phase = "sitemap"
  /\ crawl' = [crawl EXCEPT !.phase = "index", !.sitemap = SitemapPages,
                            !.fetches = AskedFor(Sitemap)]
  /\ UNCHANGED <<web, cache, changes>>

\* The seed page, asked for once more where it did not answer.
IndexPage ==
  IF crawl.seed # NoHit THEN crawl.seed
  ELSE IF FetchError(Seed) = "" THEN Settled(Seed) ELSE NoHit

\* Any answer of 200 is read for links, before it is known what it holds.
IndexLinks == IF IndexPage.status \in Served THEN ToSet(Links[IndexPage.final]) ELSE {}

\* addIndexPage
ReadIndexPage ==
  /\ crawl.phase = "index"
  /\ crawl' = [(IF crawl.seed = NoHit THEN Counted(crawl, Seed) ELSE crawl)
                  EXCEPT !.phase = "discover", !.index = IndexLinks]
  /\ cache' = IF crawl.seed = NoHit THEN CachedAfter(Seed) ELSE cache
  /\ UNCHANGED <<web, changes>>

\* llmsTxtCandidates
LLMsPages == IF Reads(LLMsTxt) THEN web.llms \cap InScope ELSE {}
Manifest == crawl.sitemap \cup LLMsPages # {}

\* scopeIndex: the seed page's links are in scope by declaration, and held to
\* the seed's path once a manifest answers.
FromIndex == IF Manifest THEN crawl.index \cap InScope ELSE crawl.index

\* union: every page some source names.
Coverage == FromIndex \cup crawl.sitemap \cup LLMsPages

\* A budget that stays what it was when the fetcher was built.
ReservedNothing(fetches, n) == crawl.budget

\* Reserve makes room for the frontier above the slack.
Reserved(fetches, n) == Max({crawl.budget, fetches + n + Slack})

\* llms.txt is the last source; start fills the frontier from the coverage
\* set, all of it.
Discover ==
  /\ crawl.phase = "discover"
  /\ \E order \in SetToSeqs(Coverage) :
       crawl' = [crawl EXCEPT !.phase = "seed", !.declared = Coverage, !.manifest = Manifest,
                   !.known = Coverage, !.fetches = AskedFor(LLMsTxt), !.sitemap = {}, !.index = {},
                   !.queue = [i \in DOMAIN order |-> [url |-> order[i], depth |-> 0]],
                   !.budget = Reserved(AskedFor(LLMsTxt), Cardinality(Coverage))]
  /\ UNCHANGED <<web, cache, changes>>

\* A link joins the frontier if it is new, in scope and one of MaxPages.
QueueLink(c, entry, link) ==
  IF Cardinality(c.known) >= MaxPages \/ link \in c.known \/ link \notin InScope THEN c
  ELSE [c EXCEPT !.known = @ \cup {link}, !.linked = @ + 1,
                 !.queue = Append(@, [url |-> link, depth |-> entry.depth + 1])]

\* queueLinks: the links of the page at final, in order.
QueueLinks(c, entry, final) ==
  LET after[i \in 0 .. Len(Links[final])] ==
        IF i = 0 THEN c ELSE QueueLink(after[i - 1], entry, Links[final][i])
  IN after[Len(Links[final])]

\* The address the page that arrived declares as its own, where it is another
\* one under the seed.
CanonicalOf(entry, res) ==
  IF Canonical[res.final] # None /\ Canonical[res.final] \in InScope
    THEN Canonical[res.final] ELSE entry.url

\* Dropping a page that names another as canonical.
KeepDropping(c, entry, res) ==
  IF CanonicalOf(entry, res) # entry.url THEN c
  ELSE [c EXCEPT !.pages[entry.url] = res.body]

\* keep: under the address it declares canonical, and once.
Keep(c, entry, res) ==
  LET key == CanonicalOf(entry, res)
      merged == key # entry.url
      d == IF merged THEN [c EXCEPT !.merges = @ \cup {<<entry.url, key>>}] ELSE c
      e == [d EXCEPT !.known = @ \cup {key}, !.pages[key] = res.body]
  IN IF merged /\ c.pages[key] # NoBody THEN d
     ELSE IF c.manifest \/ entry.depth >= LinkDepth THEN e
     ELSE QueueLinks(e, entry, res.final)

\* NotFoundSignature: the second probe is sent where the first is answered
\* 200, none where robots.txt disallows it; the host redirects both alike.
Probed(c, n, hops) ==
  [c EXCEPT !.fetches = @ + n * (1 + hops), !.redirects = @ + n * hops]

\* keepSeed: a seed no source listed is kept from the page discovery read.
KeepSeed ==
  /\ crawl.phase = "seed"
  /\ \E n \in 0 .. Probes, hops \in 0 .. MaxRedirects :
       LET c == Probed([crawl EXCEPT !.phase = "walk"], n, hops)
       IN  crawl' = IF \/ crawl.seed = NoHit \/ Refusal(crawl.seed) # ""
                       \/ {Seed, crawl.seed.final} \cap crawl.declared # {}
                      THEN c
                      ELSE Keep([c EXCEPT !.known = @ \cup {Seed}],
                                [url |-> Seed, depth |-> 0], crawl.seed)
  /\ UNCHANGED <<web, cache, changes>>

\* walk, visit, read: the next page of the frontier, kept or recorded.
Visit ==
  /\ crawl.phase = "walk" /\ crawl.queue # <<>>
  /\ LET entry == Head(crawl.queue)
         c == [crawl EXCEPT !.queue = Tail(@)]
         why == IF FetchError(entry.url) # "" THEN FetchError(entry.url)
                ELSE Refusal(Settled(entry.url))
     IN IF crawl.pages[entry.url] # NoBody
          THEN crawl' = c /\ UNCHANGED cache
          ELSE /\ cache' = CachedAfter(entry.url)
               /\ crawl' = IF why # ""
                             THEN [Counted(c, entry.url) EXCEPT
                                     !.unreachable = @ \cup {<<entry.url, why>>}]
                             ELSE Keep(Counted(c, entry.url), entry, Settled(entry.url))
  /\ UNCHANGED <<web, changes>>

Kept == {u \in Urls : crawl.pages[u] # NoBody}
Lost == {e[1] : e \in crawl.unreachable}

\* The crawl ends where its frontier does.
Finish ==
  /\ crawl.phase = "walk" /\ crawl.queue = <<>>
  /\ crawl' = [crawl EXCEPT !.phase = "done"]
  /\ UNCHANGED <<web, cache, changes>>

\* The next crawl is a new fetcher over the same cache, perhaps a day later.
Again ==
  /\ crawl.phase = "done"
  /\ crawl' = Idle(crawl.count)
  /\ cache' \in {cache, [cache EXCEPT !.robots.fresh = FALSE]}
  /\ UNCHANGED <<web, changes>>
-----------------------------------------------------------------------------
(* The site. *)

Changes(w) == changes < MaxChanges /\ web' = w /\ changes' = changes + 1
                /\ UNCHANGED <<cache, crawl>>

\* A page serves something new, stops answering, or comes back.
EditPage ==
  \E u \in Urls, k \in {"page", "gone", "dead", "soft"} :
    /\ web.pages[u].kind # "moved"
    /\ k = "page" \/ k # web.pages[u].kind
    /\ Changes([web EXCEPT !.pages[u].kind = k, !.pages[u].body = <<u, changes + 1>>,
                           !.pages[u].mod = changes + 2])

MoveRedirect ==
  \E u, v \in Urls :
    /\ Moving \/ ~web.dates
    /\ web.pages[u].kind = "moved" /\ web.pages[u].to # v
    /\ Changes([web EXCEPT !.pages[u].to = v])

EditRobots ==
  \/ \E d \in {{}, {Seed}, Addresses \ {Seed}} :
       Changes([web EXCEPT !.robots = [up |-> TRUE, disallow |-> d]])
  \/ Changes([web EXCEPT !.robots.up = FALSE])

SitemapFails == web.sitemap.up /\ Changes([web EXCEPT !.sitemap.up = FALSE])

CrawlNext ==
  \/ FetchSeed \/ ReadSitemap \/ ReadIndexPage \/ Discover \/ KeepSeed \/ Visit \/ Finish \/ Again
  \/ EditPage \/ MoveRedirect \/ EditRobots \/ SitemapFails

CrawlSpec == CrawlInit /\ [][CrawlNext]_vars
-----------------------------------------------------------------------------
\* Every page the crawl learned of is accounted for when it ends: held, held
\* under the address it declares canonical, or listed as unreachable.  A page
\* in none of them is missing from the index and from its report.
EveryPageAccounted ==
  crawl.phase = "done" =>
    \A u \in crawl.known :
      \/ u \in Kept
      \/ u \in Lost
      \/ \E m \in crawl.merges : m[1] = u /\ m[2] \in Kept

\* Fetch: "serving an unchanged body from the cache".  The body a visit keeps
\* is the one its address, through its redirects, serves at that moment.
KeepsWhatIsServed ==
  [][\A u \in Urls :
       (crawl.phase = "walk" /\ crawl'.pages[u] # crawl.pages[u]) =>
          crawl'.pages[u] = web.pages[Final(Head(crawl.queue).url)].body]_vars

\* Reserve: the budget stops a crawl that requests far more than it declared,
\* never the declared pages themselves.
DeclaredNeverCut ==
  \A u \in Urls : <<u, "budget">> \in crawl.unreachable =>
    crawl.redirects + crawl.linked + Probes >= Slack

=============================================================================
