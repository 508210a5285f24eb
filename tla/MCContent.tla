----------------------------- MODULE MCContent ------------------------------
(* How a site is crawled, what a document's bytes become and what a search *)
(* makes of them: each behaviour is about one crawl, one extraction, the   *)
(* navigation of one site or one request.                                  *)
EXTENDS MCCrawl, MCGrading, Navigation, MCSearch

VARIABLE part

MCSegments ==
  [u \in {"s", "a", "b", "c"} |->
     CASE u = "s" -> <<>> [] u = "a" -> <<"g", "a">> [] u = "b" -> <<"g", "b">>
       [] u = "c" -> <<"c">>]

\* A navigation of three levels' heads, two pages under the last.
Nav(f) ==
  [i \in 1..5 |-> [at |-> <<<<1>>, <<2>>, <<3>>, <<3, 1>>, <<3, 2>>>>[i], url |-> f[i]]]

Element(e) == [level |-> e[1], url |-> e[2]]
Hubs == {<<>>, <<<<2, "">>, <<0, "a">>, <<3, "">>, <<0, "b">>, <<2, "">>, <<0, "c">>>>,
         <<<<0, "a">>, <<0, "a">>>>}

Items == [u \in {"s", "a", "b", "c"} |-> <<"menu", u>>]

NavigationInit ==
  /\ hierarchy = NoHierarchy /\ blocks = <<>>
  /\ \E f \in [1..5 -> {"", "a", "b"}], hub \in Hubs, read \in BOOLEAN,
        order \in {<<"s", "a", "b", "c">>, <<"b", "a">>, <<"s", "c", "b">>} :
       site = [coverage |-> order, seedRead |-> read, navs |-> <<Nav(f)>>, items |-> Items,
               elements |-> [i \in DOMAIN hub |-> Element(hub[i])]]

NoSiteAtHand ==
  /\ hierarchy = NoHierarchy /\ blocks = <<>>
  /\ site = [coverage |-> <<>>, seedRead |-> FALSE, navs |-> <<>>, items |-> Items,
             elements |-> <<>>]

NoExtractionAtHand ==
  ext = Extraction(<<>>) /\ held = Refused("no chunks") /\ verdict = Unverified

NothingAsked ==
  shelf = Shelf(<<>>, {}, FALSE, FALSE) /\ asked = NoAnswer /\ stage = Started /\ answer = NoAnswer

ContentInit ==
  /\ CrawlInit
  /\ \/ part = "crawl" /\ NoExtractionAtHand /\ NoSiteAtHand /\ NothingAsked
     \/ /\ part = "document" /\ web = CHOOSE s \in Site : TRUE
        /\ \/ MCInit /\ NoSiteAtHand /\ NothingAsked
           \/ NavigationInit /\ NoExtractionAtHand /\ NothingAsked
           \/ SearchInit /\ NoExtractionAtHand /\ NoSiteAtHand

documentVars == <<ext, held, verdict, navVars, searchVars>>

ContentNext ==
  /\ UNCHANGED part
  /\ \/ part = "crawl" /\ CrawlNext /\ UNCHANGED documentVars
     \/ /\ part = "document" /\ UNCHANGED vars
        /\ \/ GradingNext /\ UNCHANGED <<navVars, searchVars>>
           \/ NavigationNext /\ UNCHANGED <<ext, held, verdict, searchVars>>
           \/ SearchNext /\ UNCHANGED <<ext, held, verdict, navVars>>
=============================================================================
