---------------------------- MODULE CrawlProofs -----------------------------
(***************************************************************************)
(* Proofs about Crawl: no page is lost without a word, the budget cuts no  *)
(* declared page, and what is kept is what is served.                      *)
(***************************************************************************)
EXTENDS Crawl, FiniteSetTheorems, WellFoundedInduction, TLAPS

-----------------------------------------------------------------------------
(* Induction.  The library states it for a predicate, these lemmas for a    *)
(* set: the set of numbers the predicate holds of.                          *)

\* A set of naturals that is not empty has a least member.
LEMMA LeastNumber ==
  ASSUME NEW S \in SUBSET Nat, S # {}
  PROVE  \E m \in S : \A k \in S : m <= k
<1> DEFINE Less == OpToRel(<, Nat)
<1>1. IsWellFoundedOn(Less, Nat)
  BY NatLessThanWellFounded
<1>2. \A x, y \in Nat : y < x => <<y, x>> \in Less
  BY DEF OpToRel
<1> HIDE DEF Less
<1>3. PICK m \in S : \A k \in S : ~ (<<k, m>> \in Less)
  BY <1>1, WFMin
<1>4. ASSUME NEW k \in S
      PROVE  m <= k
  <2>1. ~ (k < m)
    BY <1>2, <1>3
  <2> QED
    BY <2>1
<1> QED
  BY <1>3, <1>4

\* A set that holds zero, and with a number its successor, holds every one.
LEMMA SetInduction ==
  ASSUME NEW S, 0 \in S, \A n \in Nat : n \in S => n + 1 \in S
  PROVE  \A n \in Nat : n \in S
<1> DEFINE Rest == Nat \ S
<1> SUFFICES ASSUME Rest # {} PROVE FALSE
  OBVIOUS
<1>1. PICK m \in Rest : \A k \in Rest : m <= k
  BY LeastNumber
<1>2. m # 0 /\ m - 1 \in Nat
  BY <1>1
<1>3. m - 1 \in S
  BY <1>1, <1>2
<1> QED
  BY <1>1, <1>2, <1>3

\* The least of a set of numbers.
LEMMA MinOf ==
  ASSUME NEW S \in SUBSET Nat, S # {}
  PROVE  Min(S) \in S /\ \A k \in S : Min(S) <= k
BY LeastNumber DEF Min

\* The larger of two numbers.
LEMMA MaxOf ==
  ASSUME NEW a \in Int, NEW b \in Int
  PROVE  Max({a, b}) \in {a, b} /\ Max({a, b}) >= a /\ Max({a, b}) >= b
<1>1. \E x \in {a, b} : \A y \in {a, b} : x >= y
  OBVIOUS
<1> QED
  BY <1>1 DEF Max

\* An order of a finite set names every member.
LEMMA OrderNamesAll ==
  ASSUME NEW S, IsFiniteSet(S), NEW order \in SetToSeqs(S)
  PROVE  /\ Cardinality(S) \in Nat
         /\ order \in [1 .. Cardinality(S) -> S]
         /\ \A x \in S : \E i \in 1 .. Cardinality(S) : order[i] = x
<1>1. Cardinality(S) \in Nat
  BY FS_CardinalityType
<1> DEFINE n == Cardinality(S)
<1>2. order \in [1 .. n -> S] /\ \A i, j \in 1 .. n : i # j => order[i] # order[j]
  BY DEF SetToSeqs
<1>3. IsFiniteSet(1 .. n) /\ Cardinality(1 .. n) = n
  BY <1>1, FS_Interval
<1>4. order \in Injection(1 .. n, S)
  BY <1>2 DEF Injection, IsInjective
<1>5. order \in Surjection(1 .. n, S)
  BY <1>3, <1>4, FS_Injection
<1> QED
  BY <1>1, <1>2, <1>5 DEF Surjection

-----------------------------------------------------------------------------
(* Types. *)

PageType == [kind : Kinds, to : Urls, body : Bodies, mod : Nat]
Hits == [status : Kinds, body : Bodies, mod : Nat, final : Urls]
Entries == [url : Urls, depth : Nat]
Phases == {"idle", "sitemap", "index", "discover", "seed", "walk", "done"}

WebTypeOK ==
  /\ DOMAIN web = {"pages", "robots", "dates", "sitemap", "llms"}
  /\ web.pages \in [Urls -> PageType]
  /\ changes \in Nat

CacheTypeOK ==
  /\ DOMAIN cache = {"pages", "robots"}
  /\ cache.pages \in [Urls -> Hits \cup {NoHit}]

CrawlFields ==
  {"phase", "count", "fetches", "budget", "redirects", "linked", "rules", "seed", "sitemap",
   "index", "declared", "manifest", "queue", "known", "pages", "unreachable", "merges"}

CrawlType(c) ==
  /\ DOMAIN c = CrawlFields
  /\ c.phase \in Phases /\ c.count \in Nat
  /\ c.fetches \in Nat /\ c.budget \in Nat /\ c.redirects \in Nat /\ c.linked \in Nat
  /\ c.seed \in Hits \cup {NoHit}
  /\ c.queue \in Seq(Entries)
  /\ c.known \subseteq Urls
  /\ c.pages \in [Urls -> Bodies \cup {NoBody}]
  /\ c.merges \subseteq Urls \X Urls

TypeInv == WebTypeOK /\ CacheTypeOK /\ CrawlType(crawl)

\* No page is empty, and no answer is a page.
LEMMA NothingIsNothing == NoBody \notin Bodies /\ NoHit \notin Hits /\ NoHit.status \notin Kinds
BY UrlsAssumption DEF NoBody, Bodies, NoHit, Hits, Kinds

-----------------------------------------------------------------------------
(* Fetching. *)

\* A chain of redirects stays on the host.
LEMMA FollowOnHost ==
  ASSUME NEW hop \in [Urls -> Urls], NEW u \in Urls, NEW n \in Nat
  PROVE  Follow(hop, u, n) \in Urls
<1> DEFINE Chain(f, m) == f = [i \in 0 .. m |-> IF i = 0 THEN u ELSE hop[f[i - 1]]]
           Chains == {m \in Nat : \E f : Chain(f, m)}
<1>1. 0 \in Chains
  <2>1. Chain([i \in 0 .. 0 |-> u], 0)
    OBVIOUS
  <2> QED
    BY <2>1
<1>2. ASSUME NEW m \in Nat, m \in Chains
      PROVE  m + 1 \in Chains
  <2>1. PICK f : Chain(f, m)
    BY <1>2
  <2> DEFINE g == [i \in 0 .. m + 1 |-> IF i = m + 1 THEN hop[f[m]] ELSE f[i]]
  <2>2. Chain(g, m + 1)
    BY <2>1
  <2> HIDE DEF Chain, g
  <2> QED
    BY <2>2
<1> DEFINE at == CHOOSE f : Chain(f, n)
<1>3. Chain(at, n)
  <2>1. n \in Chains
    <3> HIDE DEF Chains
    <3> QED
      BY <1>1, <1>2, SetInduction
  <2> QED
    BY <2>1
<1> HIDE DEF at
<1> DEFINE OnHost == {m \in Nat : m <= n => at[m] \in Urls}
<1>4. 0 \in OnHost
  BY <1>3
<1>5. ASSUME NEW m \in Nat, m \in OnHost
      PROVE  m + 1 \in OnHost
  BY <1>3, <1>5
<1>6. n \in OnHost
  <2> HIDE DEF OnHost
  <2> QED
    BY <1>4, <1>5, SetInduction
<1>7. Follow(hop, u, n) = at[n]
  BY DEF Follow, at
<1> QED
  BY <1>6, <1>7

\* And so do the redirects of the site.
LEMMA ReachedOnHost ==
  ASSUME WebTypeOK, NEW u \in Urls, NEW n \in Nat
  PROVE  Reached(u, n) \in Urls
<1>1. Hop \in [Urls -> Urls]
  BY DEF Hop, WebTypeOK, PageType
<1> QED
  BY <1>1, FollowOnHost DEF Reached

\* A fetch costs a request for every redirect it follows, and ends at an
\* address of the host.
LEMMA RedirectsBounded ==
  ASSUME WebTypeOK, NEW u \in Urls
  PROVE  /\ Redirects(u) \in 0 .. MaxRedirects + 1
         /\ Requests(u) \in Nat /\ Requests(u) >= 1
         /\ Final(u) \in Urls
<1>0. MaxRedirects \in Nat
  BY LimitsAssumption
<1> DEFINE ends == {n \in 0 .. MaxRedirects : web.pages[Reached(u, n)].kind # "moved"}
<1>1. ends # {} => Min(ends) \in ends
  <2>1. ends \in SUBSET Nat
    BY <1>0
  <2> HIDE DEF ends
  <2> QED
    BY <2>1, MinOf
<1>2. Redirects(u) \in 0 .. MaxRedirects + 1
  BY <1>0, <1>1 DEF Redirects
<1>3. Final(u) \in Urls
  BY <1>0, <1>2, ReachedOnHost DEF Final
<1> QED
  BY <1>0, <1>2, <1>3 DEF Requests

\* A fetch that ends yields a response.
LEMMA SettledType ==
  ASSUME WebTypeOK, CacheTypeOK, NEW u \in Urls
  PROVE  Settled(u) \in Hits
<1>1. Final(u) \in Urls
  BY RedirectsBounded
<1>2. web.pages[Final(u)] \in PageType
  BY <1>1 DEF WebTypeOK
<1>3. cache.pages[u] \in Hits \/ cache.pages[u] = NoHit
  BY DEF CacheTypeOK
<1> QED
  BY <1>1, <1>2, <1>3 DEF Settled, NotModified, Hits, PageType, Kinds

\* The cache holds responses, whatever became of the fetch.
LEMMA CachedType ==
  ASSUME WebTypeOK, CacheTypeOK, NEW u \in Urls
  PROVE  CachedAfter(u).pages \in [Urls -> Hits \cup {NoHit}] /\ DOMAIN CachedAfter(u) = {"pages", "robots"}
<1>1. Settled(u) \in Hits
  BY SettledType
<1> QED
  BY <1>1 DEF CachedAfter, CacheTypeOK

\* What counting a fetch of u makes of a crawl c with the same budget.
LEMMA CountedFetch ==
  ASSUME TypeInv, NEW u \in Urls, NEW c, CrawlType(c)
  PROVE  LET d == Counted(c, u)
         IN  /\ CrawlType(d) /\ d.rules.held
             /\ d.fetches - Asked <= d.redirects - c.redirects + 1
             /\ d.redirects >= c.redirects
             /\ FetchError(u) = "budget" => d.fetches >= crawl.budget
             /\ \A f \in CrawlFields \ {"fetches", "redirects", "rules"} : d[f] = c[f]
<1> DEFINE spent == IF FetchError(u) = "robots" THEN 0
                    ELSE IF Affordable(u) THEN Requests(u) ELSE Max({0, crawl.budget - Asked})
           d == Counted(c, u)
<1>1. Asked \in Nat /\ crawl.budget \in Nat /\ Requests(u) \in Nat
  BY RedirectsBounded DEF Asked, TypeInv, CrawlType
<1>2. spent \in Nat /\ (FetchError(u) = "budget" => Asked + spent >= crawl.budget)
  <2> DEFINE left == crawl.budget - Asked
  <2>1. left \in Int
    BY <1>1
  <2>2. Max({0, left}) \in {0, left} /\ Max({0, left}) >= 0 /\ Max({0, left}) >= left
    <3> HIDE DEF left
    <3> QED
      BY <2>1, MaxOf
  <2>3. FetchError(u) = "budget" => ~ Affordable(u)
    BY DEF FetchError
  <2> QED
    BY <1>1, <2>1, <2>2, <2>3
<1>4. RobotsFor.held
  BY DEF RobotsFor
<1>5. d = [c EXCEPT !.fetches = Asked + spent,
                    !.redirects = c.redirects + (IF spent > 1 THEN spent - 1 ELSE 0),
                    !.rules = RobotsFor]
  BY DEF Counted
<1> HIDE DEF spent, d
<1>6. /\ DOMAIN d = CrawlFields
      /\ d.fetches = Asked + spent
      /\ d.redirects = c.redirects + (IF spent > 1 THEN spent - 1 ELSE 0)
      /\ d.rules = RobotsFor
      /\ \A f \in CrawlFields \ {"fetches", "redirects", "rules"} : d[f] = c[f]
  BY <1>5 DEF CrawlType, CrawlFields
<1>7. c.redirects \in Nat
  BY DEF CrawlType
<1>8. CrawlType(d)
  <2>1. d.fetches \in Nat /\ d.redirects \in Nat
    BY <1>1, <1>2, <1>6, <1>7
  <2>2. /\ d.phase = c.phase /\ d.count = c.count /\ d.budget = c.budget /\ d.linked = c.linked
        /\ d.seed = c.seed /\ d.queue = c.queue /\ d.known = c.known /\ d.pages = c.pages
        /\ d.merges = c.merges
    BY <1>6 DEF CrawlFields
  <2> QED
    BY <1>6, <2>1, <2>2 DEF CrawlType
<1>9. /\ d.fetches - Asked <= d.redirects - c.redirects + 1
      /\ d.redirects >= c.redirects
      /\ FetchError(u) = "budget" => d.fetches >= crawl.budget
  BY <1>1, <1>2, <1>6, <1>7
<1> QED
  BY <1>4, <1>6, <1>8, <1>9 DEF d

-----------------------------------------------------------------------------
(* The frontier. *)

Queued(c) == {c.queue[i].url : i \in DOMAIN c.queue}

\* What following links makes of a crawl c: every page it learns of is queued,
\* and every page it queues is counted.
Grown(c, d) ==
  /\ CrawlType(d)
  /\ \A f \in CrawlFields \ {"known", "linked", "queue"} : d[f] = c[f]
  /\ Len(d.queue) - d.linked = Len(c.queue) - c.linked
  /\ d.linked >= c.linked
  /\ Queued(c) \subseteq Queued(d)
  /\ d.known \subseteq c.known \cup Queued(d)

\* Following links twice is following links.
LEMMA GrownTwice ==
  ASSUME NEW c, NEW d, NEW e, CrawlType(c), Grown(c, d), Grown(d, e)
  PROVE  Grown(c, e)
<1>1. /\ Len(c.queue) \in Nat /\ Len(d.queue) \in Nat /\ Len(e.queue) \in Nat
      /\ c.linked \in Nat /\ d.linked \in Nat /\ e.linked \in Nat
  <2>1. CrawlType(d) /\ CrawlType(e)
    BY DEF Grown
  <2>2. ASSUME NEW x, CrawlType(x) PROVE Len(x.queue) \in Nat /\ x.linked \in Nat
    BY <2>2 DEF CrawlType
  <2> QED
    BY <2>1, <2>2
<1>2. \A f \in CrawlFields \ {"known", "linked", "queue"} : e[f] = c[f]
  BY DEF Grown
<1>3. Len(e.queue) - e.linked = Len(c.queue) - c.linked /\ e.linked >= c.linked
  BY <1>1 DEF Grown
<1> QED
  BY <1>2, <1>3 DEF Grown

\* Appending to a frontier.
LEMMA AppendQueues ==
  ASSUME NEW q \in Seq(Entries), NEW entry \in Entries
  PROVE  /\ Append(q, entry) \in Seq(Entries) /\ Len(Append(q, entry)) = Len(q) + 1
         /\ Append(q, entry)[Len(q) + 1] = entry
         /\ \A i \in DOMAIN q : i \in DOMAIN Append(q, entry) /\ Append(q, entry)[i] = q[i]
         /\ Len(q) + 1 \in DOMAIN Append(q, entry)
OBVIOUS

\* One link.
LEMMA LinkGrows ==
  ASSUME NEW c, CrawlType(c), NEW entry \in Entries, NEW link \in Urls
  PROVE  Grown(c, QueueLink(c, entry, link))
<1> DEFINE next == [url |-> link, depth |-> entry.depth + 1]
           more == Append(c.queue, next)
           d == [c EXCEPT !.known = c.known \cup {link}, !.linked = c.linked + 1, !.queue = more]
<1>1. next \in Entries /\ next.url = link
  BY DEF Entries
<1>2. QueueLink(c, entry, link) = c \/ QueueLink(c, entry, link) = d
  BY DEF QueueLink
<1>3. c.queue \in Seq(Entries) /\ c.linked \in Nat /\ c.known \subseteq Urls /\ DOMAIN c = CrawlFields
      /\ Len(c.queue) \in Nat
  BY DEF CrawlType
<1> HIDE DEF next
<1>4. /\ more \in Seq(Entries) /\ Len(more) = Len(c.queue) + 1
      /\ more[Len(c.queue) + 1] = next
      /\ \A i \in DOMAIN c.queue : i \in DOMAIN more /\ more[i] = c.queue[i]
      /\ Len(c.queue) + 1 \in DOMAIN more
  BY <1>1, <1>3, AppendQueues
<1> HIDE DEF more
<1>5. /\ DOMAIN d = CrawlFields
      /\ d.known = c.known \cup {link} /\ d.linked = c.linked + 1 /\ d.queue = more
      /\ \A f \in CrawlFields \ {"known", "linked", "queue"} : d[f] = c[f]
  BY <1>3 DEF CrawlFields
<1> HIDE DEF d
<1>6. Grown(c, c)
  BY <1>3 DEF Grown
<1>7. CrawlType(d)
  <2>1. /\ d.phase = c.phase /\ d.count = c.count /\ d.budget = c.budget /\ d.fetches = c.fetches
        /\ d.redirects = c.redirects /\ d.seed = c.seed /\ d.pages = c.pages /\ d.merges = c.merges
    BY <1>5 DEF CrawlFields
  <2> QED
    BY <1>3, <1>4, <1>5, <2>1 DEF CrawlType
<1>8. Queued(c) \subseteq Queued(d) /\ link \in Queued(d)
  BY <1>1, <1>4, <1>5 DEF Queued
<1>9. Len(d.queue) - d.linked = Len(c.queue) - c.linked /\ d.linked >= c.linked
  BY <1>3, <1>4, <1>5
<1>10. Grown(c, d)
  BY <1>5, <1>7, <1>8, <1>9 DEF Grown
<1> QED
  BY <1>2, <1>6, <1>10

\* The links of a page are followed one after the other.
LEMMA LinksGrow ==
  ASSUME NEW c, CrawlType(c), NEW entry \in Entries, NEW final \in Urls
  PROVE  Grown(c, QueueLinks(c, entry, final))
<1> DEFINE links == Links[final]
           n == Len(links)
<1>1. links \in Seq(Urls) /\ n \in Nat
  BY UrlsAssumption
<1> HIDE DEF links
<1> DEFINE Walk(f, m) == f = [i \in 0 .. m |-> IF i = 0 THEN c ELSE QueueLink(f[i - 1], entry, links[i])]
           Walks == {m \in Nat : \E f : Walk(f, m)}
<1>3. 0 \in Walks
  <2>1. Walk([i \in 0 .. 0 |-> c], 0)
    OBVIOUS
  <2> QED
    BY <2>1
<1>4. ASSUME NEW m \in Nat, m \in Walks
      PROVE  m + 1 \in Walks
  <2>1. PICK f : Walk(f, m)
    BY <1>4
  <2> DEFINE g == [i \in 0 .. m + 1 |-> IF i = m + 1 THEN QueueLink(f[m], entry, links[m + 1]) ELSE f[i]]
  <2>2. Walk(g, m + 1)
    BY <2>1
  <2> HIDE DEF Walk, g
  <2> QED
    BY <2>2
<1> DEFINE after == CHOOSE f : Walk(f, n)
<1>5. Walk(after, n)
  <2>1. n \in Walks
    <3> HIDE DEF Walks, n
    <3> QED
      BY <1>1, <1>3, <1>4, SetInduction
  <2> QED
    BY <2>1
<1> HIDE DEF after
<1> DEFINE Good == {m \in Nat : m <= n => Grown(c, after[m])}
<1>6. Grown(c, c)
  BY DEF Grown, CrawlType
<1>7. 0 \in Good
  BY <1>1, <1>5, <1>6
<1>8. ASSUME NEW m \in Nat, m \in Good
      PROVE  m + 1 \in Good
  <2> SUFFICES ASSUME m + 1 <= n
               PROVE  Grown(c, after[m + 1])
    OBVIOUS
  <2>1. Grown(c, after[m]) /\ CrawlType(after[m])
    BY <1>1, <1>8 DEF Grown
  <2>2. after[m + 1] = QueueLink(after[m], entry, links[m + 1])
    BY <1>1, <1>5
  <2>3. links[m + 1] \in Urls
    BY <1>1
  <2>4. Grown(after[m], after[m + 1])
    BY <2>1, <2>2, <2>3, LinkGrows
  <2> QED
    BY <2>1, <2>4, GrownTwice
<1>9. n \in Good
  <2> HIDE DEF Good, n
  <2> QED
    BY <1>1, <1>7, <1>8, SetInduction
<1>10. QueueLinks(c, entry, final) = after[n]
  BY DEF QueueLinks, after, links
<1> QED
  BY <1>1, <1>9, <1>10

-----------------------------------------------------------------------------
(* Pages. *)

Answered(c, u) ==
  \/ c.pages[u] # NoBody
  \/ \E e \in c.unreachable : e[1] = u
  \/ \E m \in c.merges : m[1] = u /\ c.pages[m[2]] # NoBody

\* Every page a crawl learned of is queued still, or answered for.
Accounted(c) == \A u \in c.known : u \in Queued(c) \/ Answered(c, u)

\* Keeping a page answers for the address it was asked under, and forgets
\* nothing of what was there.
LEMMA KeepAnswers ==
  ASSUME NEW c, CrawlType(c), NEW entry \in Entries, NEW res \in Hits
  PROVE  LET d == Keep(c, entry, res)
         IN  /\ CrawlType(d)
             /\ \A f \in CrawlFields \ {"known", "linked", "queue", "pages", "merges"} : d[f] = c[f]
             /\ Len(d.queue) - d.linked = Len(c.queue) - c.linked /\ d.linked >= c.linked
             /\ Queued(c) \subseteq Queued(d)
             /\ c.merges \subseteq d.merges
             /\ \A u \in Urls : d.pages[u] = c.pages[u] \/ d.pages[u] = res.body
             /\ \A u \in d.known : u \in c.known \/ u \in Queued(d) \/ Answered(d, u)
             /\ Answered(d, entry.url)
<1> DEFINE key == CanonicalOf(entry, res)
           merged == key # entry.url
           b == IF merged THEN [c EXCEPT !.merges = c.merges \cup {<<entry.url, key>>}] ELSE c
           e == [b EXCEPT !.known = b.known \cup {key}, !.pages[key] = res.body]
           d == Keep(c, entry, res)
<1>1. key \in Urls /\ entry.url \in Urls /\ res.body \in Bodies /\ res.final \in Urls
  BY UrlsAssumption DEF CanonicalOf, Entries, Hits
<1>2. \/ merged /\ c.pages[key] # NoBody /\ d = b
      \/ d = e
      \/ d = QueueLinks(e, entry, res.final)
  BY DEF Keep
<1> HIDE DEF key, d
<1>3. /\ CrawlType(b)
      /\ \A f \in CrawlFields \ {"merges"} : b[f] = c[f]
      /\ b.merges = IF merged THEN c.merges \cup {<<entry.url, key>>} ELSE c.merges
  <2>1. CASE merged
    <3>1. /\ DOMAIN b = CrawlFields
          /\ b.merges = c.merges \cup {<<entry.url, key>>}
          /\ \A f \in CrawlFields \ {"merges"} : b[f] = c[f]
      BY <2>1 DEF CrawlType, CrawlFields
    <3> HIDE DEF b
    <3>2. /\ b.phase = c.phase /\ b.count = c.count /\ b.budget = c.budget /\ b.fetches = c.fetches
          /\ b.redirects = c.redirects /\ b.seed = c.seed /\ b.pages = c.pages /\ b.linked = c.linked
          /\ b.queue = c.queue /\ b.known = c.known
      BY <3>1 DEF CrawlFields
    <3> QED
      BY <1>1, <2>1, <3>1, <3>2 DEF CrawlType
  <2>2. CASE ~ merged
    BY <2>2
  <2> QED
    BY <2>1, <2>2
<1> HIDE DEF b
<1>4. b.pages = c.pages /\ b.known = c.known /\ b.queue = c.queue /\ b.linked = c.linked
  BY <1>3 DEF CrawlFields
<1>5. /\ DOMAIN e = CrawlFields
      /\ e.known = b.known \cup {key} /\ e.pages = [b.pages EXCEPT ![key] = res.body]
      /\ \A f \in CrawlFields \ {"known", "pages"} : e[f] = b[f]
  BY <1>3 DEF CrawlType, CrawlFields
<1> HIDE DEF e
<1>6. /\ e.pages[key] = res.body /\ \A u \in Urls \ {key} : e.pages[u] = b.pages[u]
      /\ e.pages \in [Urls -> Bodies \cup {NoBody}] /\ e.known \subseteq Urls
  BY <1>1, <1>3, <1>5 DEF CrawlType
<1>7. CrawlType(e) /\ e.queue = c.queue /\ e.linked = c.linked /\ e.merges = b.merges
  <2>1. /\ e.phase = b.phase /\ e.count = b.count /\ e.budget = b.budget /\ e.fetches = b.fetches
        /\ e.redirects = b.redirects /\ e.seed = b.seed /\ e.merges = b.merges /\ e.linked = b.linked
        /\ e.queue = b.queue
    BY <1>5 DEF CrawlFields
  <2> QED
    BY <1>3, <1>4, <1>5, <1>6, <2>1 DEF CrawlType
<1>8. Answered(e, entry.url) /\ Answered(e, key) /\ res.body # NoBody
  <2>1. res.body # NoBody
    BY <1>1, NothingIsNothing
  <2>2. merged => <<entry.url, key>> \in e.merges
    BY <1>3, <1>7
  <2> QED
    BY <1>6, <2>1, <2>2 DEF Answered
<1>9. CASE merged /\ c.pages[key] # NoBody /\ d = b
  <2>1. <<entry.url, key>> \in b.merges
    BY <1>3, <1>9
  <2>2. Answered(b, entry.url)
    BY <1>4, <1>9, <2>1 DEF Answered
  <2>3. Queued(c) = Queued(b) /\ Len(b.queue) - b.linked = Len(c.queue) - c.linked /\ b.linked >= c.linked
    BY <1>3, <1>4 DEF Queued, CrawlType
  <2> QED
    BY <1>3, <1>4, <1>9, <2>2, <2>3 DEF d
<1>10. ASSUME Grown(e, d)
       PROVE  /\ CrawlType(d)
              /\ \A f \in CrawlFields \ {"known", "linked", "queue", "pages", "merges"} : d[f] = c[f]
              /\ Len(d.queue) - d.linked = Len(c.queue) - c.linked /\ d.linked >= c.linked
              /\ Queued(c) \subseteq Queued(d)
              /\ c.merges \subseteq d.merges
              /\ \A u \in Urls : d.pages[u] = c.pages[u] \/ d.pages[u] = res.body
              /\ \A u \in d.known : u \in c.known \/ u \in Queued(d) \/ Answered(d, u)
              /\ Answered(d, entry.url)
  <2>1. d.pages = e.pages /\ d.merges = e.merges /\ d.unreachable = e.unreachable
    BY <1>10 DEF Grown, CrawlFields
  <2>2. Answered(d, entry.url) /\ Answered(d, key)
    BY <1>8, <2>1 DEF Answered
  <2>3. \A f \in CrawlFields \ {"known", "linked", "queue", "pages", "merges"} : d[f] = c[f]
    BY <1>3, <1>5, <1>10 DEF Grown
  <2>4. Queued(e) = Queued(c)
    BY <1>7 DEF Queued
  <2>5. Len(d.queue) - d.linked = Len(c.queue) - c.linked /\ d.linked >= c.linked
    BY <1>7, <1>10 DEF Grown
  <2>6. \A u \in d.known : u \in c.known \/ u = key \/ u \in Queued(d)
    BY <1>4, <1>5, <1>10 DEF Grown
  <2>7. \A u \in Urls : d.pages[u] = c.pages[u] \/ d.pages[u] = res.body
    BY <1>4, <1>6, <2>1
  <2>8. c.merges \subseteq d.merges
    BY <1>3, <1>7, <2>1
  <2> QED
    BY <1>10, <2>2, <2>3, <2>4, <2>5, <2>6, <2>7, <2>8 DEF Grown
<1>11. Grown(e, e)
  BY <1>7 DEF Grown, CrawlType
<1>12. Grown(e, QueueLinks(e, entry, res.final))
  BY <1>1, <1>7, LinksGrow
<1> QED
  BY <1>2, <1>9, <1>10, <1>11, <1>12 DEF d

-----------------------------------------------------------------------------
(* The invariant. *)

\* What is still asked for, and what was asked, stays within the budget but
\* for the slack, which only links and redirects and the probes use up.
Budgeted(c) ==
  /\ c.phase = "seed" => c.fetches + Len(c.queue) + Slack <= c.budget + c.linked + c.redirects
  /\ c.phase \in {"walk", "done"} =>
       c.fetches + Len(c.queue) + Slack <= c.budget + c.linked + c.redirects + Probes
  /\ \A u \in Urls : <<u, "budget">> \in c.unreachable => c.redirects + c.linked + Probes >= Slack

\* What the phases have not done yet, or have done.
Begun(c) ==
  /\ c.phase \in {"idle", "sitemap", "index", "discover"} => c.known = {} /\ c.queue = <<>>
  /\ c.phase \in {"idle", "sitemap", "index", "discover", "seed"} => c.unreachable = {}
  /\ c.phase \in {"index", "discover"} => c.sitemap \subseteq Urls
  /\ c.phase = "discover" => c.index \subseteq Urls
  /\ c.phase # "idle" => c.rules.held
  /\ c.phase = "done" => c.queue = <<>>

CrawlInv(c) == CrawlType(c) /\ Begun(c) /\ Budgeted(c) /\ Accounted(c)

CrawlIInv == WebTypeOK /\ CacheTypeOK /\ CrawlInv(crawl)

\* The sums of Budgeted: links are queued as they are counted, probes are
\* allowed for, and a visit asks for the page and its redirects.
LEMMA LinksBalance ==
  ASSUME NEW f \in Nat, NEW q \in Nat, NEW s \in Nat, NEW b \in Nat, NEW l \in Nat, NEW r \in Nat,
         NEW p \in Nat, NEW q2 \in Nat, NEW l2 \in Nat,
         f + q + s <= b + l + r + p, q2 - l2 = q - l
  PROVE  f + q2 + s <= b + l2 + r + p
OBVIOUS

\* One page less is queued, and the requests beyond the first are redirects.
LEMMA VisitBalance ==
  ASSUME NEW f \in Nat, NEW q \in Nat, NEW s \in Nat, NEW b \in Nat, NEW l \in Nat, NEW r \in Nat,
         NEW p \in Nat, NEW f2 \in Nat, NEW q2 \in Nat, NEW r2 \in Nat,
         f + q + s <= b + l + r + p, q2 + 1 = q, f2 - f <= r2 - r + 1
  PROVE  f2 + q2 + s <= b + l + r2 + p /\ (f2 >= b => r2 + l + p >= s)
OBVIOUS

\* A crawl that has not begun.
LEMMA IdleInv ==
  ASSUME NEW n \in Nat
  PROVE  CrawlInv(Idle(n)) /\ Idle(n).phase = "idle"
<1> DEFINE c == Idle(n)
<1>1. /\ DOMAIN c = CrawlFields
      /\ c.phase = "idle" /\ c.count = n /\ c.fetches = 0 /\ c.budget = Slack /\ c.redirects = 0
      /\ c.linked = 0 /\ c.seed = NoHit /\ c.queue = <<>> /\ c.known = {} /\ c.merges = {}
      /\ c.pages = [u \in Urls |-> NoBody] /\ c.unreachable = {}
  BY DEF Idle, CrawlFields
<1> HIDE DEF c
<1>2. CrawlType(c)
  BY <1>1, LimitsAssumption DEF CrawlType, Phases
<1>3. Begun(c) /\ Budgeted(c) /\ Accounted(c)
  BY <1>1 DEF Begun, Budgeted, Accounted
<1> QED
  BY <1>1, <1>2, <1>3 DEF CrawlInv, c

\* FetchSeed only asks for the seed.
LEMMA FetchSeedStep ==
  ASSUME CrawlIInv, FetchSeed
  PROVE  CrawlIInv'
<1>0. TypeInv /\ Begun(crawl) /\ Seed \in Urls /\ WebTypeOK /\ CacheTypeOK /\ CrawlType(crawl)
  BY UrlsAssumption DEF CrawlIInv, CrawlInv, TypeInv
<1> DEFINE seed == IF FetchError(Seed) = "" /\ Settled(Seed).status \in Served
                     THEN Settled(Seed) ELSE NoHit
           c == [crawl EXCEPT !.phase = "sitemap", !.count = crawl.count + 1, !.seed = seed]
           d == Counted(c, Seed)
<1>1. seed \in Hits \cup {NoHit}
  BY <1>0, SettledType
<1>2. crawl.phase = "idle" /\ crawl' = d /\ cache' = CachedAfter(Seed) /\ UNCHANGED <<web, changes>>
  BY DEF FetchSeed
<1> HIDE DEF seed
<1>3. /\ DOMAIN c = CrawlFields
      /\ c.phase = "sitemap" /\ c.count = crawl.count + 1 /\ c.seed = seed
      /\ \A f \in CrawlFields \ {"phase", "count", "seed"} : c[f] = crawl[f]
  BY <1>0 DEF CrawlType, CrawlFields
<1> HIDE DEF c
<1>4. /\ c.fetches = crawl.fetches /\ c.budget = crawl.budget /\ c.redirects = crawl.redirects
      /\ c.linked = crawl.linked /\ c.queue = crawl.queue /\ c.known = crawl.known
      /\ c.pages = crawl.pages /\ c.merges = crawl.merges /\ c.unreachable = crawl.unreachable
  BY <1>3 DEF CrawlFields
<1>5. CrawlType(c)
  BY <1>0, <1>1, <1>3, <1>4 DEF CrawlType, Phases
<1>6. /\ CrawlType(d) /\ d.rules.held
      /\ \A f \in CrawlFields \ {"fetches", "redirects", "rules"} : d[f] = c[f]
  BY <1>0, <1>5, CountedFetch
<1> HIDE DEF d
<1>7. d.phase = "sitemap" /\ d.known = {} /\ d.queue = <<>> /\ d.unreachable = {}
  BY <1>0, <1>2, <1>3, <1>4, <1>6 DEF CrawlFields, Begun
<1>8. CrawlInv(d)
  BY <1>6, <1>7 DEF CrawlInv, Begun, Budgeted, Accounted
<1>9. WebTypeOK' /\ CacheTypeOK'
  BY <1>0, <1>2, CachedType DEF WebTypeOK, CacheTypeOK
<1> QED
  BY <1>2, <1>8, <1>9 DEF CrawlIInv

\* ReadSitemap asks for one manifest.
LEMMA ReadSitemapStep ==
  ASSUME CrawlIInv, ReadSitemap
  PROVE  CrawlIInv'
<1>0. CrawlType(crawl) /\ Begun(crawl) /\ WebTypeOK /\ CacheTypeOK /\ crawl.phase = "sitemap"
      /\ UNCHANGED <<web, cache, changes>>
  BY DEF CrawlIInv, CrawlInv, ReadSitemap
<1> DEFINE fetches == AskedFor(Sitemap)
           d == [crawl EXCEPT !.phase = "index", !.sitemap = SitemapPages, !.fetches = fetches]
<1>1. crawl' = d
  BY DEF ReadSitemap
<1>2. fetches \in Nat
  BY <1>0 DEF AskedFor, CrawlType
<1>3. SitemapPages \subseteq Urls
  BY UrlsAssumption DEF SitemapPages
<1> HIDE DEF fetches
<1>4. /\ DOMAIN d = CrawlFields
      /\ d.phase = "index" /\ d.sitemap = SitemapPages /\ d.fetches = fetches
      /\ \A f \in CrawlFields \ {"phase", "sitemap", "fetches"} : d[f] = crawl[f]
  BY <1>0 DEF CrawlType, CrawlFields
<1> HIDE DEF d
<1>5. /\ d.count = crawl.count /\ d.budget = crawl.budget /\ d.redirects = crawl.redirects
      /\ d.linked = crawl.linked /\ d.seed = crawl.seed /\ d.queue = crawl.queue
      /\ d.known = crawl.known /\ d.pages = crawl.pages /\ d.merges = crawl.merges
      /\ d.unreachable = crawl.unreachable /\ d.rules = crawl.rules
  BY <1>4 DEF CrawlFields
<1>6. CrawlType(d)
  BY <1>0, <1>2, <1>4, <1>5 DEF CrawlType, Phases
<1>7. d.known = {} /\ d.queue = <<>> /\ d.unreachable = {} /\ d.rules.held
  BY <1>0, <1>5 DEF Begun
<1>8. CrawlInv(d)
  BY <1>3, <1>4, <1>6, <1>7 DEF CrawlInv, Begun, Budgeted, Accounted
<1> QED
  BY <1>0, <1>1, <1>8 DEF CrawlIInv, WebTypeOK, CacheTypeOK

\* Every link of the seed page is an address of the host.
LEMMA IndexOnHost ==
  ASSUME WebTypeOK, CacheTypeOK, CrawlType(crawl)
  PROVE  IndexLinks \subseteq Urls
<1>1. IndexPage \in Hits \cup {NoHit}
  BY SettledType, UrlsAssumption DEF IndexPage, CrawlType
<1>2. CASE IndexPage.status \in Served
  <2>1. IndexPage.final \in Urls
    BY <1>1, <1>2, NothingIsNothing DEF Hits, Kinds, Served
  <2>2. Links[IndexPage.final] \in Seq(Urls)
    BY <2>1, UrlsAssumption
  <2> QED
    BY <2>2 DEF IndexLinks, ToSet
<1> QED
  BY <1>2 DEF IndexLinks

\* ReadIndexPage may ask for the seed once more.
LEMMA ReadIndexPageStep ==
  ASSUME CrawlIInv, ReadIndexPage
  PROVE  CrawlIInv'
<1>0. TypeInv /\ Begun(crawl) /\ Seed \in Urls /\ WebTypeOK /\ CacheTypeOK /\ CrawlType(crawl)
      /\ crawl.phase = "index" /\ UNCHANGED <<web, changes>>
  BY UrlsAssumption DEF CrawlIInv, CrawlInv, TypeInv, ReadIndexPage
<1> DEFINE c == IF crawl.seed = NoHit THEN Counted(crawl, Seed) ELSE crawl
           d == [c EXCEPT !.phase = "discover", !.index = IndexLinks]
<1>1. /\ CrawlType(c) /\ c.rules.held /\ c.unreachable = {} /\ c.known = {} /\ c.queue = <<>>
      /\ c.sitemap \subseteq Urls
  <2>1. /\ crawl.rules.held /\ crawl.unreachable = {} /\ crawl.known = {} /\ crawl.queue = <<>>
        /\ crawl.sitemap \subseteq Urls
    BY <1>0 DEF Begun
  <2>2. LET e == Counted(crawl, Seed)
        IN  /\ CrawlType(e) /\ e.rules.held
            /\ e.unreachable = crawl.unreachable /\ e.known = crawl.known
            /\ e.queue = crawl.queue /\ e.sitemap = crawl.sitemap
    BY <1>0, CountedFetch DEF CrawlFields
  <2> QED
    BY <1>0, <2>1, <2>2
<1>2. crawl' = d
  BY DEF ReadIndexPage
<1> HIDE DEF c
<1>3. IndexLinks \subseteq Urls
  BY <1>0, IndexOnHost
<1>4. /\ DOMAIN d = CrawlFields
      /\ d.phase = "discover" /\ d.index = IndexLinks
      /\ \A f \in CrawlFields \ {"phase", "index"} : d[f] = c[f]
  BY <1>1 DEF CrawlType, CrawlFields
<1> HIDE DEF d
<1>5. /\ d.count = c.count /\ d.budget = c.budget /\ d.redirects = c.redirects
      /\ d.linked = c.linked /\ d.seed = c.seed /\ d.queue = c.queue /\ d.fetches = c.fetches
      /\ d.known = c.known /\ d.pages = c.pages /\ d.merges = c.merges
      /\ d.unreachable = c.unreachable /\ d.rules = c.rules /\ d.sitemap = c.sitemap
  BY <1>4 DEF CrawlFields
<1>6. CrawlType(d)
  BY <1>1, <1>4, <1>5 DEF CrawlType, Phases
<1>7. CrawlInv(d)
  BY <1>1, <1>3, <1>4, <1>5, <1>6 DEF CrawlInv, Begun, Budgeted, Accounted
<1>8. WebTypeOK' /\ CacheTypeOK'
  BY <1>0, CachedType DEF WebTypeOK, CacheTypeOK, ReadIndexPage
<1> QED
  BY <1>2, <1>7, <1>8 DEF CrawlIInv

\* Discover queues all of the coverage and makes room for it.
LEMMA DiscoverStep ==
  ASSUME CrawlIInv, Discover
  PROVE  CrawlIInv'
<1>0. Begun(crawl) /\ WebTypeOK /\ CacheTypeOK /\ CrawlType(crawl)
      /\ crawl.phase = "discover" /\ UNCHANGED <<web, cache, changes>> /\ Slack \in Nat
  BY LimitsAssumption DEF CrawlIInv, CrawlInv, Discover
<1> DEFINE fetches == AskedFor(LLMsTxt)
           n == Cardinality(Coverage)
           room == Reserved(fetches, n)
<1>1. crawl.rules.held /\ crawl.unreachable = {}
  BY <1>0 DEF Begun
<1>2. PICK order \in SetToSeqs(Coverage) :
        crawl' = [crawl EXCEPT !.phase = "seed", !.declared = Coverage, !.manifest = Manifest,
                    !.known = Coverage, !.fetches = fetches, !.sitemap = {}, !.index = {},
                    !.queue = [i \in DOMAIN order |-> [url |-> order[i], depth |-> 0]],
                    !.budget = room]
  BY DEF Discover
<1> DEFINE queue == [i \in DOMAIN order |-> [url |-> order[i], depth |-> 0]]
<1>3. Coverage \subseteq Urls /\ IsFiniteSet(Coverage)
  <2>1. Coverage \subseteq Urls
    BY <1>0, UrlsAssumption DEF Coverage, FromIndex, LLMsPages, Begun
  <2> QED
    BY <2>1, UrlsAssumption, FS_Subset
<1>4. /\ n \in Nat /\ order \in [1 .. n -> Coverage]
      /\ \A x \in Coverage : \E i \in 1 .. n : order[i] = x
  BY <1>3, OrderNamesAll
<1> HIDE DEF n
<1>5. queue \in Seq(Entries) /\ Len(queue) = n /\ \A i \in 1 .. n : queue[i].url = order[i]
  BY <1>3, <1>4 DEF Entries
<1>6. Coverage \subseteq {queue[i].url : i \in DOMAIN queue}
  BY <1>4, <1>5
<1>7. fetches \in Nat /\ crawl.linked \in Nat /\ crawl.redirects \in Nat
  BY <1>0 DEF CrawlType, AskedFor
<1> HIDE DEF fetches
<1>8. room \in Nat /\ room >= fetches + n + Slack
  <2> DEFINE need == fetches + n + Slack
             most == Max({crawl.budget, need})
  <2>1. crawl.budget \in Nat /\ need \in Nat
    BY <1>0, <1>4, <1>7 DEF CrawlType
  <2>2. room = most
    BY DEF Reserved
  <2> HIDE DEF need
  <2>3. most \in {crawl.budget, need} /\ most >= need
    BY <2>1, MaxOf
  <2> HIDE DEF room, most
  <2> QED
    BY <2>1, <2>2, <2>3 DEF need
<1> HIDE DEF queue, room
<1>9. crawl' = [crawl EXCEPT !.phase = "seed", !.declared = Coverage, !.manifest = Manifest,
                  !.known = Coverage, !.fetches = fetches, !.sitemap = {}, !.index = {},
                  !.queue = queue, !.budget = room]
  BY <1>2 DEF queue
<1> DEFINE d == crawl'
<1>10. /\ DOMAIN d = CrawlFields
       /\ d.phase = "seed" /\ d.known = Coverage /\ d.fetches = fetches /\ d.queue = queue
       /\ d.budget = room /\ d.count = crawl.count /\ d.redirects = crawl.redirects
       /\ d.linked = crawl.linked /\ d.rules = crawl.rules /\ d.seed = crawl.seed
       /\ d.pages = crawl.pages /\ d.unreachable = crawl.unreachable /\ d.merges = crawl.merges
  BY <1>0, <1>9 DEF CrawlType, CrawlFields
<1> HIDE DEF d
<1>11. CrawlType(d)
  BY <1>0, <1>3, <1>5, <1>7, <1>8, <1>10 DEF CrawlType, Phases
<1>12. Begun(d) /\ Accounted(d)
  BY <1>1, <1>6, <1>10 DEF Begun, Accounted, Queued
<1>13. Budgeted(d)
  <2>1. fetches + n + Slack <= room + crawl.linked + crawl.redirects
    BY <1>0, <1>4, <1>7, <1>8
  <2> QED
    BY <1>1, <1>5, <1>10, <2>1 DEF Budgeted
<1>14. WebTypeOK' /\ CacheTypeOK'
  BY <1>0 DEF WebTypeOK, CacheTypeOK
<1> QED
  BY <1>11, <1>12, <1>13, <1>14 DEF CrawlIInv, CrawlInv, d

\* Keeping a page in a crawl that has answered for every other page it knows,
\* and has kept to its budget.
LEMMA KeepInv ==
  ASSUME NEW c, CrawlType(c), NEW entry \in Entries, NEW res \in Hits,
         c.phase = "walk", c.rules.held, Budgeted(c),
         \A u \in c.known \ {entry.url} : u \in Queued(c) \/ Answered(c, u)
  PROVE  CrawlInv(Keep(c, entry, res))
<1> DEFINE d == Keep(c, entry, res)
<1>1. /\ CrawlType(d)
      /\ \A f \in CrawlFields \ {"known", "linked", "queue", "pages", "merges"} : d[f] = c[f]
      /\ Len(d.queue) - d.linked = Len(c.queue) - c.linked /\ d.linked >= c.linked
      /\ Queued(c) \subseteq Queued(d)
      /\ c.merges \subseteq d.merges
      /\ \A u \in Urls : d.pages[u] = c.pages[u] \/ d.pages[u] = res.body
      /\ \A u \in d.known : u \in c.known \/ u \in Queued(d) \/ Answered(d, u)
      /\ Answered(d, entry.url)
  BY KeepAnswers
<1> HIDE DEF d
<1>2. /\ d.phase = "walk" /\ d.rules = c.rules /\ d.unreachable = c.unreachable
      /\ d.fetches = c.fetches /\ d.budget = c.budget /\ d.redirects = c.redirects
  BY <1>1 DEF CrawlFields
<1>3. res.body # NoBody
  BY NothingIsNothing DEF Hits
<1>4. \A u \in Urls : Answered(c, u) => Answered(d, u)
  <2>1. \A u \in Urls : c.pages[u] # NoBody => d.pages[u] # NoBody
    BY <1>1, <1>3
  <2>2. \A m \in c.merges : m[2] \in Urls
    BY DEF CrawlType
  <2> QED
    BY <1>1, <1>2, <2>1, <2>2 DEF Answered
<1>5. Accounted(d)
  BY <1>1, <1>4 DEF Accounted, CrawlType
<1>6. Begun(d)
  BY <1>2 DEF Begun
<1>7. Budgeted(d)
  <2>1. /\ Len(d.queue) \in Nat /\ Len(c.queue) \in Nat /\ d.linked \in Nat /\ c.linked \in Nat
        /\ c.fetches \in Nat /\ c.budget \in Nat /\ c.redirects \in Nat /\ Slack \in Nat
    <3>1. ASSUME NEW x, CrawlType(x) PROVE Len(x.queue) \in Nat /\ x.linked \in Nat
      BY <3>1 DEF CrawlType
    <3> QED
      BY <1>1, <3>1, LimitsAssumption DEF CrawlType
  <2>2. c.fetches + Len(c.queue) + Slack <= c.budget + c.linked + c.redirects + Probes
    BY DEF Budgeted
  <2>3. c.fetches + Len(d.queue) + Slack <= c.budget + d.linked + c.redirects + Probes
    <3>1. Len(d.queue) - d.linked = Len(c.queue) - c.linked /\ Probes \in Nat
      BY <1>1 DEF Probes
    <3> QED
      BY <2>1, <2>2, <3>1, LinksBalance
  <2>4. ASSUME NEW u \in Urls, <<u, "budget">> \in c.unreachable
        PROVE  c.redirects + d.linked + Probes >= Slack
    <3>1. c.redirects + c.linked + Probes >= Slack
      BY <2>4 DEF Budgeted
    <3> QED
      BY <1>1, <2>1, <3>1 DEF Probes
  <2> QED
    BY <1>2, <2>3, <2>4 DEF Budgeted
<1> QED
  BY <1>1, <1>5, <1>6, <1>7 DEF CrawlInv, d

\* KeepSeed keeps a seed no source listed; the probes are counted with it.
LEMMA KeepSeedStep ==
  ASSUME CrawlIInv, KeepSeed
  PROVE  CrawlIInv'
<1>0. /\ CrawlType(crawl) /\ Begun(crawl) /\ Budgeted(crawl) /\ Accounted(crawl) /\ Seed \in Urls
      /\ Slack \in Nat /\ crawl.phase = "seed" /\ UNCHANGED <<web, cache, changes>>
  BY UrlsAssumption, LimitsAssumption DEF CrawlIInv, CrawlInv, KeepSeed
<1> DEFINE w == [crawl EXCEPT !.phase = "walk"]
<1>11. PICK n \in 0 .. Probes, h \in 0 .. MaxRedirects :
         \/ crawl' = Probed(w, n, h)
         \/ /\ crawl.seed # NoHit
            /\ crawl' = Keep([Probed(w, n, h) EXCEPT !.known = Probed(w, n, h).known \cup {Seed}],
                             [url |-> Seed, depth |-> 0], crawl.seed)
  BY DEF KeepSeed
<1> DEFINE c == Probed(w, n, h)
<1>12. c = [w EXCEPT !.fetches = w.fetches + n * (1 + h), !.redirects = w.redirects + n * h]
  BY DEF Probed
<1> HIDE DEF c
<1>13. PICK hops \in Nat : n * h = hops /\ n * (1 + h) = n + hops /\ n \in Nat
  <2>1. n \in {0, 1, 2} /\ h \in Nat
    BY LimitsAssumption DEF Probes
  <2>2. n * h \in Nat /\ n * (1 + h) = n + n * h
    BY <2>1
  <2> QED
    BY <2>1, <2>2
<1> DEFINE k == [c EXCEPT !.known = c.known \cup {Seed}]
           entry == [url |-> Seed, depth |-> 0]
<1>1. /\ DOMAIN c = CrawlFields
      /\ c.phase = "walk" /\ c.fetches = crawl.fetches + n + hops
      /\ c.redirects = crawl.redirects + hops
      /\ \A f \in CrawlFields \ {"phase", "fetches", "redirects"} : c[f] = crawl[f]
  <2>1. DOMAIN w = CrawlFields /\ w.phase = "walk" /\ \A f \in CrawlFields \ {"phase"} : w[f] = crawl[f]
    BY <1>0 DEF CrawlType, CrawlFields
  <2> HIDE DEF w
  <2>2. w.fetches = crawl.fetches /\ w.redirects = crawl.redirects /\ crawl.fetches \in Nat
    BY <1>0, <2>1 DEF CrawlType, CrawlFields
  <2>3. w.fetches + n * (1 + h) = crawl.fetches + n + hops /\ w.redirects + n * h = crawl.redirects + hops
    BY <1>13, <2>2
  <2> QED
    BY <1>12, <2>1, <2>3 DEF CrawlFields
<1>2. crawl' = c \/ (crawl.seed # NoHit /\ crawl' = Keep(k, entry, crawl.seed))
  BY <1>11 DEF c
<1>3. /\ c.count = crawl.count /\ c.budget = crawl.budget
      /\ c.linked = crawl.linked /\ c.seed = crawl.seed /\ c.queue = crawl.queue
      /\ c.known = crawl.known /\ c.pages = crawl.pages /\ c.merges = crawl.merges
      /\ c.unreachable = crawl.unreachable /\ c.rules = crawl.rules
  BY <1>1 DEF CrawlFields
<1>4. CrawlType(c) /\ c.rules.held
  <2>1. c.fetches \in Nat /\ c.redirects \in Nat
    <3>1. crawl.fetches \in Nat /\ crawl.redirects \in Nat
      BY <1>0 DEF CrawlType
    <3>2. n \in Nat /\ hops \in Nat
      BY <1>13
    <3>3. c.fetches = crawl.fetches + n + hops /\ c.redirects = crawl.redirects + hops
      BY <1>1
    <3> HIDE DEF w
    <3> QED
      BY <3>1, <3>2, <3>3
  <2> QED
    BY <1>0, <1>1, <1>3, <2>1 DEF CrawlType, Phases, Begun
<1>5. Accounted(c)
  BY <1>0, <1>3 DEF Accounted, Queued, Answered
<1>6. Budgeted(c)
  <2>1. /\ crawl.fetches \in Nat /\ Len(crawl.queue) \in Nat /\ crawl.budget \in Nat
        /\ crawl.linked \in Nat /\ crawl.redirects \in Nat
    BY <1>0 DEF CrawlType
  <2>2. crawl.fetches + Len(crawl.queue) + Slack <= crawl.budget + crawl.linked + crawl.redirects
    BY <1>0 DEF Budgeted
  <2>3. c.fetches + Len(c.queue) + Slack <= c.budget + c.linked + c.redirects + Probes
    <3>1. Probes \in Nat
      BY DEF Probes
    <3>2. /\ c.fetches = crawl.fetches + n + hops /\ c.queue = crawl.queue
          /\ c.budget = crawl.budget /\ c.linked = crawl.linked
          /\ c.redirects = crawl.redirects + hops /\ Slack \in Nat
      BY <1>0, <1>1, <1>3
    <3>3. n \in Nat /\ n <= Probes /\ hops \in Nat
      BY <1>13, <3>1
    <3> HIDE DEF w
    <3>4. (crawl.fetches + n + hops) + Len(crawl.queue) + Slack
            <= crawl.budget + crawl.linked + (crawl.redirects + hops) + Probes
      <4> DEFINE f == crawl.fetches
                 q == Len(crawl.queue)
                 b == crawl.budget
                 l == crawl.linked
                 r == crawl.redirects
      <4>1. f \in Nat /\ q \in Nat /\ b \in Nat /\ l \in Nat /\ r \in Nat /\ Slack \in Nat
        BY <2>1, <3>2
      <4>2. f + q + Slack <= b + l + r
        BY <2>2
      <4> HIDE DEF f, q, b, l, r
      <4>3. (f + n + hops) + q + Slack <= b + l + (r + hops) + Probes
        BY <3>1, <3>3, <4>1, <4>2
      <4> QED
        BY <4>3 DEF f, q, b, l, r
    <3> QED
      BY <3>2, <3>4
  <2>4. c.unreachable = {}
    BY <1>0, <1>3 DEF Begun
  <2> QED
    BY <1>1, <2>3, <2>4 DEF Budgeted
<1>7. Begun(c)
  BY <1>1, <1>4 DEF Begun
<1>8. CrawlInv(c)
  BY <1>4, <1>5, <1>6, <1>7 DEF CrawlInv
<1>9. ASSUME crawl.seed # NoHit
      PROVE  CrawlInv(Keep(k, entry, crawl.seed))
  <2>1. /\ DOMAIN k = CrawlFields
        /\ k.known = c.known \cup {Seed} /\ \A f \in CrawlFields \ {"known"} : k[f] = c[f]
    BY <1>4 DEF CrawlType, CrawlFields
  <2> HIDE DEF k
  <2>2. /\ k.phase = c.phase /\ k.fetches = c.fetches /\ k.count = c.count /\ k.budget = c.budget
        /\ k.redirects = c.redirects /\ k.linked = c.linked /\ k.seed = c.seed /\ k.queue = c.queue
        /\ k.pages = c.pages /\ k.merges = c.merges /\ k.unreachable = c.unreachable
        /\ k.rules = c.rules
    BY <2>1 DEF CrawlFields
  <2>3. CrawlType(k)
    BY <1>0, <1>4, <2>1, <2>2 DEF CrawlType
  <2>4. Budgeted(k)
    BY <1>6, <2>2 DEF Budgeted
  <2>5. entry \in Entries /\ entry.url = Seed
    BY <1>0 DEF Entries
  <2>6. \A u \in k.known \ {Seed} : u \in Queued(k) \/ Answered(k, u)
    BY <1>5, <2>1, <2>2 DEF Accounted, Queued, Answered
  <2>7. crawl.seed \in Hits
    BY <1>0, <1>9 DEF CrawlType
  <2> HIDE DEF entry
  <2> QED
    BY <1>1, <1>4, <2>2, <2>3, <2>4, <2>5, <2>6, <2>7, KeepInv
<1>10. CrawlInv(crawl')
  BY <1>2, <1>8, <1>9
<1> QED
  BY <1>0, <1>10 DEF CrawlIInv, WebTypeOK, CacheTypeOK

\* Visit takes the next page of the frontier and keeps it or says why not.
LEMMA VisitStep ==
  ASSUME CrawlIInv, Visit
  PROVE  CrawlIInv'
<1>0. /\ CrawlType(crawl) /\ Begun(crawl) /\ Budgeted(crawl) /\ Accounted(crawl)
      /\ WebTypeOK /\ CacheTypeOK /\ TypeInv /\ Slack \in Nat
      /\ crawl.phase = "walk" /\ crawl.queue # <<>> /\ UNCHANGED <<web, changes>>
  BY LimitsAssumption DEF CrawlIInv, CrawlInv, Visit, TypeInv
<1> DEFINE entry == Head(crawl.queue)
           rest == Tail(crawl.queue)
           c == [crawl EXCEPT !.queue = rest]
           why == IF FetchError(entry.url) # "" THEN FetchError(entry.url)
                  ELSE Refusal(Settled(entry.url))
           d == Counted(c, entry.url)
           lost == [d EXCEPT !.unreachable = d.unreachable \cup {<<entry.url, why>>}]
<1>1. /\ entry \in Entries /\ rest \in Seq(Entries) /\ Len(rest) + 1 = Len(crawl.queue)
      /\ Len(rest) \in Nat
      /\ \A i \in DOMAIN crawl.queue : crawl.queue[i] = entry \/ \E j \in DOMAIN rest : rest[j] = crawl.queue[i]
  <2>1. crawl.queue \in Seq(Entries)
    BY <1>0 DEF CrawlType
  <2>2. \A i \in DOMAIN crawl.queue :
          crawl.queue[i] = entry \/ (i - 1 \in DOMAIN rest /\ rest[i - 1] = crawl.queue[i])
    BY <1>0, <2>1
  <2>3. entry \in Entries /\ rest \in Seq(Entries) /\ Len(rest) + 1 = Len(crawl.queue) /\ Len(rest) \in Nat
    BY <1>0, <2>1
  <2> QED
    BY <2>2, <2>3
<1>2. \/ /\ crawl.pages[entry.url] # NoBody /\ crawl' = c /\ UNCHANGED cache
      \/ /\ crawl.pages[entry.url] = NoBody /\ cache' = CachedAfter(entry.url)
         /\ \/ why # "" /\ crawl' = lost
            \/ why = "" /\ crawl' = Keep(d, entry, Settled(entry.url))
  BY DEF Visit
<1>3. entry.url \in Urls
  BY <1>1 DEF Entries
<1>4. FetchError(entry.url) = "budget" <=> why = "budget"
  BY DEF Refusal, FetchError
<1> HIDE DEF entry, rest, why
<1>5. /\ DOMAIN c = CrawlFields /\ c.queue = rest
      /\ \A f \in CrawlFields \ {"queue"} : c[f] = crawl[f]
  BY <1>0 DEF CrawlType, CrawlFields
<1> HIDE DEF c
<1>6. /\ c.phase = "walk" /\ c.count = crawl.count /\ c.fetches = crawl.fetches
      /\ c.budget = crawl.budget /\ c.redirects = crawl.redirects /\ c.linked = crawl.linked
      /\ c.seed = crawl.seed /\ c.known = crawl.known /\ c.pages = crawl.pages
      /\ c.merges = crawl.merges /\ c.unreachable = crawl.unreachable /\ c.rules = crawl.rules
  BY <1>0, <1>5 DEF CrawlFields
<1>7. CrawlType(c)
  BY <1>0, <1>1, <1>5, <1>6 DEF CrawlType
<1>8. \A u \in c.known : u = entry.url \/ u \in Queued(c) \/ Answered(c, u)
  BY <1>0, <1>1, <1>5, <1>6 DEF Accounted, Queued, Answered
<1>9. /\ crawl.fetches \in Nat /\ crawl.budget \in Nat /\ crawl.linked \in Nat
      /\ crawl.redirects \in Nat /\ Len(crawl.queue) \in Nat
      /\ crawl.fetches + Len(crawl.queue) + Slack
           <= crawl.budget + crawl.linked + crawl.redirects + Probes
      /\ \A u \in Urls : <<u, "budget">> \in crawl.unreachable =>
           crawl.redirects + crawl.linked + Probes >= Slack
  BY <1>0 DEF CrawlType, Budgeted
<1>10. Budgeted(c)
  <2>1. c.fetches + Len(c.queue) + Slack <= c.budget + c.linked + c.redirects + Probes
    BY <1>0, <1>1, <1>5, <1>6, <1>9 DEF Probes
  <2> QED
    BY <1>6, <1>9, <2>1 DEF Budgeted
<1>11. Begun(c)
  BY <1>0, <1>6 DEF Begun
<1>12. /\ CrawlType(d) /\ d.rules.held
       /\ d.fetches - Asked <= d.redirects - c.redirects + 1
       /\ d.redirects >= c.redirects
       /\ FetchError(entry.url) = "budget" => d.fetches >= crawl.budget
       /\ \A f \in CrawlFields \ {"fetches", "redirects", "rules"} : d[f] = c[f]
  BY <1>0, <1>3, <1>7, CountedFetch
<1> HIDE DEF d
<1>13. /\ d.phase = c.phase /\ d.count = c.count /\ d.budget = c.budget /\ d.linked = c.linked
       /\ d.seed = c.seed /\ d.queue = c.queue /\ d.known = c.known /\ d.pages = c.pages
       /\ d.merges = c.merges /\ d.unreachable = c.unreachable
  BY <1>12 DEF CrawlFields
<1>14. Asked = crawl.fetches
  <2>1. crawl.rules.held
    BY <1>0 DEF Begun
  <2>2. ~ AsksHost
    BY <2>1 DEF AsksHost
  <2> QED
    BY <1>9, <2>2 DEF Asked
<1>15. /\ d.fetches \in Nat /\ d.redirects \in Nat
       /\ d.fetches + Len(d.queue) + Slack <= d.budget + d.linked + d.redirects + Probes
       /\ d.redirects + d.linked >= crawl.redirects + crawl.linked
       /\ why = "budget" => d.redirects + d.linked + Probes >= Slack
  <2>1. d.fetches \in Nat /\ d.redirects \in Nat
    BY <1>12 DEF CrawlType
  <2>2. Len(d.queue) + 1 = Len(crawl.queue) /\ Len(d.queue) \in Nat
    BY <1>1, <1>5, <1>13
  <2>3. d.budget = crawl.budget /\ d.linked = crawl.linked /\ c.redirects = crawl.redirects
    BY <1>6, <1>13
  <2>4. /\ crawl.fetches \in Nat /\ crawl.budget \in Nat /\ crawl.linked \in Nat
        /\ crawl.redirects \in Nat /\ Len(crawl.queue) \in Nat /\ Slack \in Nat
    BY <1>0, <1>9
  <2>5. crawl.fetches + Len(crawl.queue) + Slack
          <= crawl.budget + crawl.linked + crawl.redirects + Probes
    BY <1>9
  <2>6. d.fetches - crawl.fetches <= d.redirects - crawl.redirects + 1 /\ d.redirects >= crawl.redirects
    BY <1>12, <1>14, <2>3
  <2>7. Probes \in Nat
    BY DEF Probes
  <2>8. /\ d.fetches + Len(d.queue) + Slack <= crawl.budget + crawl.linked + d.redirects + Probes
        /\ d.fetches >= crawl.budget => d.redirects + crawl.linked + Probes >= Slack
    <3> DEFINE f == crawl.fetches
               q == Len(crawl.queue)
               b == crawl.budget
               l == crawl.linked
               r == crawl.redirects
               f2 == d.fetches
               q2 == Len(d.queue)
               r2 == d.redirects
    <3>1. /\ f \in Nat /\ q \in Nat /\ b \in Nat /\ l \in Nat /\ r \in Nat
          /\ f2 \in Nat /\ q2 \in Nat /\ r2 \in Nat /\ Slack \in Nat
          /\ f + q + Slack <= b + l + r + Probes /\ q2 + 1 = q /\ f2 - f <= r2 - r + 1
      BY <2>1, <2>2, <2>4, <2>5, <2>6
    <3> HIDE DEF f, q, b, l, r, f2, q2, r2
    <3>2. f2 + q2 + Slack <= b + l + r2 + Probes /\ (f2 >= b => r2 + l + Probes >= Slack)
      BY <2>7, <3>1, VisitBalance
    <3> QED
      BY <3>2 DEF f, q, b, l, r, f2, q2, r2
  <2>9. d.redirects + d.linked >= crawl.redirects + crawl.linked
    BY <2>1, <2>3, <2>4, <2>6
  <2> QED
    BY <1>4, <1>12, <2>1, <2>3, <2>8, <2>9
<1>16. Budgeted(d)
  <2>1. ASSUME NEW u \in Urls, <<u, "budget">> \in d.unreachable
        PROVE  d.redirects + d.linked + Probes >= Slack
    <3>1. crawl.redirects + crawl.linked + Probes >= Slack
      BY <1>6, <1>9, <1>13, <2>1
    <3>2. d.linked \in Nat /\ d.redirects \in Nat
      BY <1>12 DEF CrawlType
    <3>3. crawl.linked \in Nat /\ crawl.redirects \in Nat /\ Slack \in Nat
      BY <1>0, <1>9
    <3>4. d.redirects + d.linked >= crawl.redirects + crawl.linked
      BY <1>15
    <3> QED
      BY <3>1, <3>2, <3>3, <3>4 DEF Probes
  <2> QED
    BY <1>6, <1>13, <1>15, <2>1 DEF Budgeted
<1>17. \A u \in d.known \ {entry.url} : u \in Queued(d) \/ Answered(d, u)
  BY <1>8, <1>13 DEF Queued, Answered
<1>18. CASE crawl.pages[entry.url] # NoBody /\ crawl' = c /\ UNCHANGED cache
  <2>1. Accounted(c)
    BY <1>6, <1>8, <1>18 DEF Accounted, Answered
  <2>2. CrawlInv(crawl')
    BY <1>7, <1>10, <1>11, <1>18, <2>1 DEF CrawlInv
  <2> QED
    BY <1>0, <1>18, <2>2 DEF CrawlIInv, WebTypeOK, CacheTypeOK
<1>19. ASSUME cache' = CachedAfter(entry.url), CrawlInv(crawl')
       PROVE  CrawlIInv'
  BY <1>0, <1>3, <1>19, CachedType DEF CrawlIInv, WebTypeOK, CacheTypeOK
<1>20. CrawlInv(lost)
  <2>1. /\ DOMAIN lost = CrawlFields /\ lost.unreachable = d.unreachable \cup {<<entry.url, why>>}
        /\ \A f \in CrawlFields \ {"unreachable"} : lost[f] = d[f]
    BY <1>12 DEF CrawlType, CrawlFields
  <2> HIDE DEF lost
  <2>2. /\ lost.phase = d.phase /\ lost.fetches = d.fetches /\ lost.count = d.count
        /\ lost.budget = d.budget /\ lost.redirects = d.redirects /\ lost.linked = d.linked
        /\ lost.seed = d.seed /\ lost.queue = d.queue /\ lost.pages = d.pages
        /\ lost.merges = d.merges /\ lost.rules = d.rules /\ lost.known = d.known
    BY <2>1 DEF CrawlFields
  <2>3. CrawlType(lost)
    BY <1>12, <2>1, <2>2 DEF CrawlType
  <2>4. Answered(lost, entry.url) /\ \A u : Answered(d, u) => Answered(lost, u)
    <3>1. <<entry.url, why>> \in lost.unreachable /\ <<entry.url, why>>[1] = entry.url
      BY <2>1
    <3>2. Answered(lost, entry.url)
      BY <3>1 DEF Answered
    <3>3. \A e \in d.unreachable : e \in lost.unreachable
      BY <2>1
    <3>4. ASSUME NEW u, Answered(d, u)
          PROVE  Answered(lost, u)
      BY <2>2, <3>3, <3>4 DEF Answered
    <3> QED
      BY <3>2, <3>4
  <2>5. Accounted(lost)
    BY <1>17, <2>2, <2>4 DEF Accounted, Queued
  <2>6. Begun(lost)
    BY <1>6, <1>12, <1>13, <2>2 DEF Begun
  <2>7. ASSUME NEW u \in Urls, <<u, "budget">> \in lost.unreachable
        PROVE  d.redirects + d.linked + Probes >= Slack
    <3>1. CASE <<u, "budget">> \in d.unreachable
      BY <1>16, <3>1 DEF Budgeted
    <3>2. CASE <<u, "budget">> = <<entry.url, why>>
      BY <1>15, <3>2
    <3> QED
      BY <2>1, <2>7, <3>1, <3>2
  <2>8. Budgeted(lost)
    BY <1>6, <1>13, <1>15, <2>2, <2>7 DEF Budgeted
  <2> QED
    BY <2>3, <2>5, <2>6, <2>8 DEF CrawlInv
<1>21. CrawlInv(Keep(d, entry, Settled(entry.url)))
  <2>1. Settled(entry.url) \in Hits
    BY <1>0, <1>3, SettledType
  <2> QED
    BY <1>1, <1>6, <1>12, <1>13, <1>16, <1>17, <2>1, KeepInv
<1> QED
  BY <1>2, <1>18, <1>19, <1>20, <1>21

\* Finish and Again: an empty frontier, and a new fetcher over the same cache.
LEMMA TurnStep ==
  ASSUME CrawlIInv, Finish \/ Again
  PROVE  CrawlIInv'
<1>0. CrawlType(crawl) /\ Begun(crawl) /\ Budgeted(crawl) /\ Accounted(crawl) /\ WebTypeOK /\ CacheTypeOK
  BY DEF CrawlIInv, CrawlInv
<1>1. CASE Finish
  <2> DEFINE c == [crawl EXCEPT !.phase = "done"]
  <2>1. crawl' = c /\ crawl.phase = "walk" /\ crawl.queue = <<>> /\ UNCHANGED <<web, cache, changes>>
    BY <1>1 DEF Finish
  <2>2. DOMAIN c = CrawlFields /\ c.phase = "done" /\ \A f \in CrawlFields \ {"phase"} : c[f] = crawl[f]
    BY <1>0 DEF CrawlType, CrawlFields
  <2> HIDE DEF c
  <2>3. /\ c.count = crawl.count /\ c.fetches = crawl.fetches /\ c.budget = crawl.budget
        /\ c.redirects = crawl.redirects /\ c.linked = crawl.linked /\ c.seed = crawl.seed
        /\ c.queue = crawl.queue /\ c.known = crawl.known /\ c.pages = crawl.pages
        /\ c.merges = crawl.merges /\ c.unreachable = crawl.unreachable /\ c.rules = crawl.rules
    BY <2>2 DEF CrawlFields
  <2>4. CrawlType(c)
    BY <1>0, <2>2, <2>3 DEF CrawlType, Phases
  <2>5. Begun(c) /\ Accounted(c) /\ Budgeted(c)
    BY <1>0, <2>1, <2>2, <2>3 DEF Begun, Accounted, Queued, Answered, Budgeted
  <2>6. CrawlInv(crawl')
    BY <2>1, <2>4, <2>5 DEF CrawlInv
  <2> QED
    BY <1>0, <2>1, <2>6 DEF CrawlIInv, WebTypeOK, CacheTypeOK
<1>2. CASE Again
  <2>1. crawl' = Idle(crawl.count) /\ UNCHANGED <<web, changes>>
        /\ cache' \in {cache, [cache EXCEPT !.robots.fresh = FALSE]}
    BY <1>2 DEF Again
  <2>2. CrawlInv(crawl')
    BY <1>0, <2>1, IdleInv DEF CrawlType
  <2>3. DOMAIN cache' = DOMAIN cache /\ cache'.pages = cache.pages
    BY <1>0, <2>1 DEF CacheTypeOK
  <2> QED
    BY <1>0, <2>1, <2>2, <2>3 DEF CrawlIInv, WebTypeOK, CacheTypeOK
<1> QED
  BY <1>1, <1>2

\* What a change of the site does to its pages: an edit leaves redirects
\* alone and is dated later than every page, a redirect is moved, or no page
\* changes.
LEMMA SiteStep ==
  ASSUME WebTypeOK, EditPage \/ MoveRedirect \/ EditRobots \/ SitemapFails
  PROVE  /\ WebTypeOK' /\ web'.dates = web.dates /\ UNCHANGED <<cache, crawl>> /\ changes' = changes + 1
         /\ \/ UNCHANGED web.pages
            \/ /\ Moving \/ ~ web.dates
               /\ \A u \in Urls : web'.pages[u].mod = web.pages[u].mod
            \/ \E u \in Urls :
                 /\ web.pages[u].kind # "moved" /\ web'.pages[u].kind # "moved"
                 /\ web'.pages[u].mod = changes + 2
                 /\ \A v \in Urls \ {u} : web'.pages[v] = web.pages[v]
<1>0. UNCHANGED <<cache, crawl>> /\ changes' = changes + 1 /\ changes' \in Nat
  <2>1. UNCHANGED <<cache, crawl>> /\ changes' = changes + 1
    BY Zenon DEF EditPage, MoveRedirect, EditRobots, SitemapFails, Changes
  <2> QED
    BY <2>1 DEF WebTypeOK
<1>1. CASE EditRobots \/ SitemapFails
  <2>1. DOMAIN web' = DOMAIN web /\ web'.pages = web.pages /\ web'.dates = web.dates
    <3>1. CASE EditRobots
      <4>1. \E r : web' = [web EXCEPT !.robots = r] \/ web' = [web EXCEPT !.robots.up = FALSE]
        BY <3>1 DEF EditRobots, Changes
      <4> QED
        BY <4>1 DEF WebTypeOK
    <3>2. CASE SitemapFails
      <4>1. web' = [web EXCEPT !.sitemap.up = FALSE]
        BY <3>2 DEF SitemapFails, Changes
      <4> QED
        BY <4>1 DEF WebTypeOK
    <3> QED
      BY <1>1, <3>1, <3>2
  <2> QED
    BY <1>0, <2>1 DEF WebTypeOK
<1>2. CASE EditPage
  <2>1. PICK u \in Urls, k \in {"page", "gone", "dead", "soft"} :
          /\ web.pages[u].kind # "moved"
          /\ web' = [web EXCEPT !.pages[u].kind = k, !.pages[u].body = <<u, changes + 1>>,
                                !.pages[u].mod = changes + 2]
    BY <1>2 DEF EditPage, Changes
  <2> DEFINE page == [web.pages[u] EXCEPT !.kind = k, !.body = <<u, changes + 1>>, !.mod = changes + 2]
  <2>2. web' = [web EXCEPT !.pages = [web.pages EXCEPT ![u] = page]]
    BY <2>1 DEF WebTypeOK
  <2>3. page \in PageType /\ page.kind = k /\ page.mod = changes + 2
    <3>1. web.pages[u] \in PageType
      BY DEF WebTypeOK
    <3>2. k \in Kinds /\ <<u, changes + 1>> \in Bodies /\ changes + 2 \in Nat
      BY DEF WebTypeOK, Kinds, Bodies
    <3> QED
      BY <3>1, <3>2 DEF PageType
  <2> HIDE DEF page
  <2>4. DOMAIN web' = DOMAIN web /\ web'.dates = web.dates /\ web'.pages = [web.pages EXCEPT ![u] = page]
    BY <2>2 DEF WebTypeOK
  <2>5. /\ web'.pages \in [Urls -> PageType] /\ web'.pages[u] = page
        /\ \A v \in Urls \ {u} : web'.pages[v] = web.pages[v]
    BY <2>3, <2>4 DEF WebTypeOK
  <2> QED
    BY <1>0, <2>1, <2>3, <2>4, <2>5 DEF WebTypeOK
<1>3. CASE MoveRedirect
  <2>1. PICK u \in Urls, to \in Urls :
          /\ Moving \/ ~ web.dates
          /\ web' = [web EXCEPT !.pages[u].to = to]
    BY <1>3 DEF MoveRedirect, Changes
  <2> DEFINE page == [web.pages[u] EXCEPT !.to = to]
  <2>2. web' = [web EXCEPT !.pages = [web.pages EXCEPT ![u] = page]]
    BY <2>1 DEF WebTypeOK
  <2>3. page \in PageType /\ page.mod = web.pages[u].mod
    BY <2>1 DEF WebTypeOK, PageType
  <2> HIDE DEF page
  <2>4. DOMAIN web' = DOMAIN web /\ web'.dates = web.dates /\ web'.pages = [web.pages EXCEPT ![u] = page]
    BY <2>2 DEF WebTypeOK
  <2>5. /\ web'.pages \in [Urls -> PageType]
        /\ \A v \in Urls : web'.pages[v].mod = web.pages[v].mod
    BY <2>3, <2>4 DEF WebTypeOK
  <2> QED
    BY <1>0, <2>1, <2>4, <2>5 DEF WebTypeOK
<1> QED
  BY <1>1, <1>2, <1>3

-----------------------------------------------------------------------------
(* What every crawl keeps to. *)

\* Every crawl is well formed, has answered for the pages it knows or has them
\* queued, and has kept to its budget.
THEOREM CrawlInvariant == CrawlSpec => []CrawlIInv
<1>1. CrawlInit => CrawlIInv
  <2> SUFFICES ASSUME CrawlInit PROVE CrawlIInv
    OBVIOUS
  <2>1. WebTypeOK
    BY SiteAssumption DEF CrawlInit, WebTypeOK, PageType
  <2>2. CacheTypeOK
    BY DEF CrawlInit, CacheTypeOK
  <2>3. CrawlInv(crawl)
    BY IdleInv DEF CrawlInit
  <2> QED
    BY <2>1, <2>2, <2>3 DEF CrawlIInv
<1>2. CrawlIInv /\ [CrawlNext]_vars => CrawlIInv'
  <2> SUFFICES ASSUME CrawlIInv, [CrawlNext]_vars PROVE CrawlIInv'
    OBVIOUS
  <2>1. CASE FetchSeed
    BY <2>1, FetchSeedStep
  <2>2. CASE ReadSitemap \/ ReadIndexPage \/ Discover
    BY <2>2, ReadSitemapStep, ReadIndexPageStep, DiscoverStep
  <2>3. CASE KeepSeed
    BY <2>3, KeepSeedStep
  <2>4. CASE Visit
    BY <2>4, VisitStep
  <2>5. CASE Finish \/ Again
    BY <2>5, TurnStep
  <2>6. CASE EditPage \/ MoveRedirect \/ EditRobots \/ SitemapFails
    <3>1. WebTypeOK' /\ UNCHANGED <<cache, crawl>>
      BY <2>6, SiteStep DEF CrawlIInv
    <3> QED
      BY <3>1 DEF CrawlIInv, CacheTypeOK
  <2>7. CASE UNCHANGED vars
    BY <2>7 DEF vars, CrawlIInv, WebTypeOK, CacheTypeOK
  <2> QED
    BY <2>1, <2>2, <2>3, <2>4, <2>5, <2>6, <2>7 DEF CrawlNext
<1> QED
  BY <1>1, <1>2, PTL DEF CrawlSpec

\* A page a crawl learned of is held, held under the address it declares
\* canonical, or reported as unreachable when the crawl ends, for every site
\* and whatever the site does meanwhile (walk, keep, Unreachable).
THEOREM EveryPageAnswered == CrawlSpec => []EveryPageAccounted
<1>1. CrawlIInv => EveryPageAccounted
  <2> SUFFICES ASSUME CrawlIInv, crawl.phase = "done", NEW u \in crawl.known
               PROVE  \/ u \in Kept
                      \/ u \in Lost
                      \/ \E m \in crawl.merges : m[1] = u /\ m[2] \in Kept
    BY DEF EveryPageAccounted
  <2>1. Accounted(crawl) /\ CrawlType(crawl) /\ crawl.queue = <<>>
    BY DEF CrawlIInv, CrawlInv, Begun
  <2>2. u \in Urls /\ \A m \in crawl.merges : m[2] \in Urls
    BY <2>1 DEF CrawlType
  <2>3. Queued(crawl) = {}
    BY <2>1 DEF Queued
  <2>4. Answered(crawl, u)
    BY <2>1, <2>3 DEF Accounted
  <2> QED
    BY <2>2, <2>4 DEF Answered, Kept, Lost
<1> QED
  BY <1>1, CrawlInvariant, PTL

\* The budget never cuts a declared page: a page is refused for it only once
\* redirects, links and probes have used up the slack (Reserve).
THEOREM DeclaredFits == CrawlSpec => []DeclaredNeverCut
<1>1. CrawlIInv => DeclaredNeverCut
  BY DEF CrawlIInv, CrawlInv, Budgeted, DeclaredNeverCut
<1> QED
  BY <1>1, CrawlInvariant, PTL

-----------------------------------------------------------------------------
(* What is served, on a host whose redirects stay where they are while it   *)
(* compares dates: elsewhere a redirect may be moved to a page older than   *)
(* the stored copy, and the host confirms the copy all the same.            *)

\* A copy is no newer than the page it was read from, and is that page while
\* their dates agree.
Faithful(u) ==
  cache.pages[u] # NoHit =>
    /\ web.pages[Final(u)].mod >= cache.pages[u].mod
    /\ web.pages[Final(u)].mod = cache.pages[u].mod => web.pages[Final(u)].body = cache.pages[u].body

Dated == \A u \in Urls : web.pages[u].mod <= changes + 1

ServedInv == Dated /\ (web.dates => \A u \in Urls : Faithful(u))

\* Where redirects stay, and what is no redirect becomes none, every fetch
\* ends where it did.
LEMMA FinalStays ==
  ASSUME WebTypeOK, WebTypeOK', NEW u \in Urls,
         \A v \in Urls : /\ web'.pages[v].kind = "moved" <=> web.pages[v].kind = "moved"
                         /\ web.pages[v].kind = "moved" => web'.pages[v].to = web.pages[v].to
  PROVE  Final(u)' = Final(u)
<1>1. Hop' = Hop
  BY DEF Hop
<1>2. \A n : Reached(u, n)' = Reached(u, n)
  BY <1>1 DEF Reached
<1>3. MaxRedirects \in Nat
  BY LimitsAssumption
<1> DEFINE ends == {n \in 0 .. MaxRedirects : web.pages[Reached(u, n)].kind # "moved"}
<1>4. \A n \in 0 .. MaxRedirects : Reached(u, n) \in Urls
  BY <1>3, ReachedOnHost
<1>5. ends' = ends
  BY <1>2, <1>4
<1>6. Redirects(u) = IF ends = {} THEN MaxRedirects + 1 ELSE Min(ends)
  BY DEF Redirects
<1>7. Redirects(u)' = IF ends' = {} THEN MaxRedirects + 1 ELSE Min(ends')
  BY DEF Redirects
<1> HIDE DEF ends
<1>8. Redirects(u)' = Redirects(u)
  BY <1>5, <1>6, <1>7
<1>9. Final(u)' = Reached(u, Redirects(u))'
  BY DEF Final
<1>10. Reached(u, Redirects(u))' = Follow(Hop', u, Redirects(u)')
  BY DEF Reached
<1>11. Final(u) = Follow(Hop, u, Redirects(u))
  BY DEF Final, Reached
<1> QED
  BY <1>1, <1>8, <1>9, <1>10, <1>11

\* The response a fetch settles on is the page as it is served.
LEMMA SettledIsServed ==
  ASSUME WebTypeOK, CacheTypeOK, ServedInv, NEW u \in Urls
  PROVE  Settled(u).body = web.pages[Final(u)].body
<1>1. Final(u) \in Urls
  BY RedirectsBounded
<1>2. web.pages[Final(u)].mod \in Nat
  BY <1>1 DEF WebTypeOK, PageType
<1>3. CASE NotModified(u, cache.pages[u])
  <2>1. Settled(u) = cache.pages[u] /\ cache.pages[u] # NoHit
    BY <1>3 DEF Settled, NotModified
  <2>2. cache.pages[u].mod \in Nat
    BY <2>1 DEF CacheTypeOK, Hits
  <2>3. CASE web.dates
    <3>1. Faithful(u) /\ web.pages[Final(u)].mod <= cache.pages[u].mod
      BY <1>3, <2>3 DEF ServedInv, NotModified
    <3> QED
      BY <1>2, <2>1, <2>2, <3>1 DEF Faithful
  <2>4. CASE ~ web.dates
    BY <1>3, <2>1, <2>4 DEF NotModified
  <2> QED
    BY <2>3, <2>4
<1>4. CASE ~ NotModified(u, cache.pages[u])
  BY <1>4 DEF Settled
<1> QED
  BY <1>3, <1>4

\* A fetch leaves every copy faithful.
LEMMA FetchIsFaithful ==
  ASSUME WebTypeOK, CacheTypeOK, ServedInv, NEW u \in Urls, UNCHANGED <<web, changes>>,
         cache'.pages = cache.pages \/ cache'.pages = CachedAfter(u).pages
  PROVE  ServedInv'
<1>1. Dated'
  BY DEF ServedInv, Dated
<1>2. WebTypeOK'
  BY DEF WebTypeOK
<1>3. ASSUME web.dates, NEW v \in Urls
      PROVE  Faithful(v)'
  <2>1. Final(v)' = Final(v)
    BY <1>2, FinalStays
  <2>2. Faithful(v)
    BY <1>3 DEF ServedInv
  <2>3. CASE cache'.pages[v] = cache.pages[v]
    BY <2>1, <2>2, <2>3 DEF Faithful
  <2>4. CASE cache'.pages[v] # cache.pages[v]
    <3>1. v = u /\ cache'.pages[v] = Settled(v)
      BY <2>4 DEF CachedAfter, CacheTypeOK
    <3>2. cache'.pages[v].mod = web.pages[Final(v)].mod /\ cache'.pages[v].body = web.pages[Final(v)].body
      BY <2>4, <3>1 DEF Settled
    <3>3. web.pages[Final(v)].mod \in Nat
      BY RedirectsBounded DEF WebTypeOK, PageType
    <3> QED
      BY <2>1, <3>2, <3>3 DEF Faithful
  <2> QED
    BY <2>3, <2>4
<1> QED
  BY <1>1, <1>3 DEF ServedInv

\* So does a change of the site.
LEMMA EditIsFaithful ==
  ASSUME ~ Moving, WebTypeOK, CacheTypeOK, ServedInv,
         EditPage \/ MoveRedirect \/ EditRobots \/ SitemapFails
  PROVE  ServedInv'
<1>0. /\ WebTypeOK' /\ web'.dates = web.dates /\ UNCHANGED <<cache, crawl>> /\ changes' = changes + 1
      /\ changes \in Nat
  BY SiteStep DEF WebTypeOK
<1>1. \A u \in Urls : web.pages[u].mod \in Nat /\ web.pages[u].mod <= changes + 1
  BY DEF WebTypeOK, PageType, ServedInv, Dated
<1>2. CASE \A u \in Urls : web'.pages[u].mod = web.pages[u].mod
  <2>1. Dated'
    BY <1>0, <1>1, <1>2 DEF Dated
  <2>2. CASE ~ web.dates
    BY <1>0, <2>1, <2>2 DEF ServedInv
  <2>3. CASE web'.pages = web.pages
    <3>1. ASSUME web.dates, NEW u \in Urls
          PROVE  Faithful(u)'
      <4>1. Final(u)' = Final(u)
        BY <1>0, <2>3, FinalStays
      <4> QED
        BY <1>0, <2>3, <3>1, <4>1 DEF ServedInv, Faithful
    <3> QED
      BY <1>0, <2>1, <3>1 DEF ServedInv
  <2>4. CASE web'.pages # web.pages /\ web.dates
    <3>1. PICK u \in Urls : web'.pages[u].mod = changes + 2
      BY <2>4, SiteStep
    <3> QED
      BY <1>0, <1>1, <1>2, <3>1
  <2> QED
    BY <2>2, <2>3, <2>4
<1>3. ASSUME NEW u \in Urls, web.pages[u].kind # "moved", web'.pages[u].kind # "moved",
             web'.pages[u].mod = changes + 2, \A v \in Urls \ {u} : web'.pages[v] = web.pages[v]
      PROVE  ServedInv'
  <2>1. Dated'
    BY <1>0, <1>1, <1>3 DEF Dated
  <2>2. ASSUME web.dates, NEW v \in Urls
        PROVE  Faithful(v)'
    <3>1. Final(v)' = Final(v) /\ Final(v) \in Urls
      BY <1>0, <1>3, FinalStays, RedirectsBounded
    <3>2. Faithful(v)
      BY <2>2 DEF ServedInv
    <3>3. CASE Final(v) # u
      BY <1>0, <1>3, <3>1, <3>2, <3>3 DEF Faithful
    <3>4. CASE Final(v) = u
      <4>1. ASSUME cache.pages[v] # NoHit
            PROVE  changes + 2 >= cache.pages[v].mod /\ changes + 2 # cache.pages[v].mod
        <5>1. cache.pages[v].mod \in Nat
          BY <4>1 DEF CacheTypeOK, Hits
        <5>2. cache.pages[v].mod <= web.pages[u].mod
          BY <1>1, <3>2, <3>4, <4>1, <5>1 DEF Faithful
        <5> QED
          BY <1>0, <1>1, <5>1, <5>2
      <4>2. web'.pages[Final(v)'].mod = changes + 2 /\ cache' = cache
        BY <1>0, <1>3, <3>1, <3>4
      <4> QED
        BY <4>1, <4>2 DEF Faithful
    <3> QED
      BY <3>3, <3>4
  <2> QED
    BY <1>0, <2>1, <2>2 DEF ServedInv
<1> QED
  BY <1>2, <1>3, SiteStep

\* The body a visit keeps is the one its address, through its redirects,
\* serves at that moment, whatever the cache holds and however the site was
\* edited since (Fetch, fromCache, keep).
THEOREM KeptIsServed ==
  ASSUME ~ Moving
  PROVE  CrawlSpec => KeepsWhatIsServed
<1>1. CrawlInit => ServedInv
  <2> SUFFICES ASSUME CrawlInit PROVE ServedInv
    OBVIOUS
  <2>1. \A u \in Urls : web.pages[u].mod \in 0 .. 1 /\ cache.pages[u] = NoHit
    BY SiteAssumption DEF CrawlInit
  <2> QED
    BY <2>1 DEF CrawlInit, ServedInv, Dated, Faithful, NoHit
<1>2. CrawlIInv /\ ServedInv /\ [CrawlNext]_vars => ServedInv'
  <2> SUFFICES ASSUME CrawlIInv, ServedInv, [CrawlNext]_vars PROVE ServedInv'
    OBVIOUS
  <2>0. WebTypeOK /\ CacheTypeOK /\ CrawlType(crawl) /\ Seed \in Urls
    BY UrlsAssumption DEF CrawlIInv, CrawlInv
  <2>1. CASE FetchSeed \/ ReadSitemap \/ ReadIndexPage \/ Discover \/ KeepSeed \/ Visit \/ Finish \/ Again \/ UNCHANGED vars
    <3>1. UNCHANGED <<web, changes>>
      BY <2>1 DEF FetchSeed, ReadSitemap, ReadIndexPage, Discover, KeepSeed, Visit, Finish, Again, vars
    <3>2. \E u \in Urls : cache'.pages = cache.pages \/ cache'.pages = CachedAfter(u).pages
      <4>1. CASE \/ FetchSeed \/ ReadSitemap \/ ReadIndexPage \/ Discover \/ KeepSeed \/ Finish
                 \/ UNCHANGED vars
        BY <2>0, <4>1 DEF FetchSeed, ReadSitemap, ReadIndexPage, Discover, KeepSeed, Finish, vars
      <4>2. CASE Again
        BY <2>0, <4>2 DEF Again, CacheTypeOK
      <4>3. CASE Visit
        <5>1. Head(crawl.queue).url \in Urls
          <6>1. crawl.queue \in Seq(Entries) /\ crawl.queue # <<>>
            BY <2>0, <4>3 DEF Visit, CrawlType
          <6>2. Head(crawl.queue) \in Entries
            BY <6>1
          <6> QED
            BY <6>2 DEF Entries
        <5> QED
          BY <4>3, <5>1 DEF Visit
      <4> QED
        BY <2>1, <4>1, <4>2, <4>3
    <3> QED
      BY <2>0, <3>1, <3>2, FetchIsFaithful
  <2>2. CASE EditPage \/ MoveRedirect \/ EditRobots \/ SitemapFails
    BY <2>0, <2>2, EditIsFaithful
  <2> QED
    BY <2>1, <2>2 DEF CrawlNext
<1>3. CrawlIInv /\ ServedInv /\ [CrawlNext]_vars =>
        [\A u \in Urls : (crawl.phase = "walk" /\ crawl'.pages[u] # crawl.pages[u]) =>
            crawl'.pages[u] = web.pages[Final(Head(crawl.queue).url)].body]_vars
  <2> SUFFICES ASSUME CrawlIInv, ServedInv, CrawlNext, NEW u \in Urls, crawl.phase = "walk",
                      crawl'.pages[u] # crawl.pages[u]
               PROVE  crawl'.pages[u] = web.pages[Final(Head(crawl.queue).url)].body
    OBVIOUS
  <2>0. WebTypeOK /\ CacheTypeOK /\ CrawlType(crawl) /\ TypeInv
    BY DEF CrawlIInv, CrawlInv, TypeInv
  <2>1. CASE Visit
    <3> DEFINE entry == Head(crawl.queue)
               c == [crawl EXCEPT !.queue = Tail(crawl.queue)]
               why == IF FetchError(entry.url) # "" THEN FetchError(entry.url)
                      ELSE Refusal(Settled(entry.url))
               d == Counted(c, entry.url)
    <3>1. \/ crawl' = c
          \/ crawl' = [d EXCEPT !.unreachable = d.unreachable \cup {<<entry.url, why>>}]
          \/ crawl' = Keep(d, entry, Settled(entry.url))
      BY <2>1 DEF Visit
    <3>2. entry \in Entries /\ entry.url \in Urls /\ CrawlType(c) /\ c.pages = crawl.pages
      <4>1. entry \in Entries /\ Tail(crawl.queue) \in Seq(Entries)
        <5>1. crawl.queue \in Seq(Entries) /\ crawl.queue # <<>>
          BY <2>0, <2>1 DEF Visit, CrawlType
        <5> QED
          BY <5>1
      <4> HIDE DEF entry
      <4> QED
        BY <2>0, <4>1 DEF CrawlType, CrawlFields, Entries
    <3> HIDE DEF entry, c, why
    <3>3. CrawlType(d) /\ d.pages = c.pages
      BY <2>0, <3>2, CountedFetch DEF CrawlFields
    <3> HIDE DEF d
    <3>4. crawl' = Keep(d, entry, Settled(entry.url))
      <4>1. [d EXCEPT !.unreachable = d.unreachable \cup {<<entry.url, why>>}].pages = d.pages
        BY <3>3 DEF CrawlType, CrawlFields
      <4> QED
        BY <3>1, <3>2, <3>3, <4>1
    <3>5. crawl'.pages[u] = d.pages[u] \/ crawl'.pages[u] = Settled(entry.url).body
      BY <2>0, <3>2, <3>3, <3>4, SettledType, KeepAnswers
    <3>6. crawl'.pages[u] = web.pages[Final(entry.url)].body
      BY <2>0, <3>2, <3>3, <3>5, SettledIsServed
    <3> QED
      BY <3>6 DEF entry
  <2>2. CASE FetchSeed \/ ReadSitemap \/ ReadIndexPage \/ Discover \/ KeepSeed \/ Again
    BY <2>2 DEF FetchSeed, ReadSitemap, ReadIndexPage, Discover, KeepSeed, Again
  <2>3. CASE Finish
    BY <2>0, <2>3 DEF Finish, CrawlType, CrawlFields
  <2>4. CASE EditPage \/ MoveRedirect \/ EditRobots \/ SitemapFails
    BY <2>0, <2>4, SiteStep
  <2> QED
    BY <2>1, <2>2, <2>3, <2>4 DEF CrawlNext
<1> QED
  BY <1>1, <1>2, <1>3, CrawlInvariant, PTL DEF CrawlSpec, KeepsWhatIsServed

=============================================================================
