------------------------------ MODULE MCCrawl -------------------------------
(* Four addresses: the seed, two pages under it and one beside it. *)
EXTENDS Crawl

MCUrls == {"s", "a", "b", "x"}
MCInScope == {"s", "a", "b"}
MCLinks == [u \in MCUrls |-> CASE u = "s" -> <<"a", "x">> [] u = "a" -> <<"b", "s">>
                               [] u = "b" -> <<"a">> [] u = "x" -> <<"b">>]
MCCanonical == [u \in MCUrls |-> IF u = "b" THEN "a" ELSE None]

Page(u) == [kind |-> "page", to |-> u, body |-> <<u, 0>>, mod |-> 1]
Pages == [u \in MCUrls |-> Page(u)]

\* All pages in place; an alias that redirects; two redirects in a row; a page
\* that is no HTML.
Layouts ==
  <<Pages,
    [Pages EXCEPT !["b"].kind = "moved", !["b"].to = "x"],
    [Pages EXCEPT !["s"].kind = "moved", !["s"].to = "a", !["a"].kind = "moved", !["a"].to = "b"],
    [Pages EXCEPT !["x"].kind = "file", !["a"].mod = 0]>>

\* What sitemap and llms.txt list: the two pages under the seed; nothing; one page
\* beside them and one under them.
Listed == <<<<{"a", "b"}, {}>>, <<{}, {}>>, <<{"x"}, {"b"}>>>>

\* Which layout is listed how, and whether the host compares dates.
Hosts == {<<2, 1, TRUE>>, <<3, 1, FALSE>>, <<4, 1, TRUE>>, <<1, 2, TRUE>>, <<1, 3, FALSE>>}

MCSite ==
  {[pages |-> Layouts[h[1]], robots |-> [up |-> TRUE, disallow |-> {}], dates |-> h[3],
    sitemap |-> [up |-> TRUE, urls |-> Listed[h[2]][1]], llms |-> Listed[h[2]][2]] : h \in Hosts}
=============================================================================
