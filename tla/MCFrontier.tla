----------------------------- MODULE MCFrontier -----------------------------
(* An instance of LinkFrontier for TLC: hosts ex and www.ex and one beside them. *)
EXTENDS LinkFrontier

MCLabels   == {"ex", "EX", "www", "other"}
MCLower    == [l \in MCLabels |-> IF l = "EX" THEN "ex" ELSE l]
MCSegments == {"", ".", "..", "a", "b", "index.html", "d.pdf"}
MCExt      == [s \in MCSegments |->
                CASE s = "d.pdf" -> ".pdf" [] s = "index.html" -> ".html"
                  [] s \in {".", ".."} -> "." [] OTHER -> ""]

Link(scheme, host, port, rooted, path) ==
  [scheme |-> scheme, host |-> host, port |-> port, rooted |-> rooted, path |-> path,
   query |-> "none", fragment |-> FALSE]

Ex(port, path) == Link("http", <<"ex">>, port, TRUE, path)
Www            == Link("http", <<"www", "ex">>, "80", TRUE, <<>>)
Up             == Link("", <<>>, "", FALSE, <<"..", "index.html">>)

MCSeeds == {Link("http", <<"EX">>, "80", TRUE, <<"a", "b">>), Www, Ex("8080", <<"">>)}

MCLinks ==
  {Up,
   [Link("", <<>>, "", FALSE, <<>>) EXCEPT !.query = "some"],
   Link("", <<>>, "", TRUE, <<"d.pdf">>),
   Link("", <<>>, "", TRUE, <<"d.pdf", "">>),
   Link("", <<"www", "EX">>, "", TRUE, <<"b", ".">>),
   [Ex("", <<"a", "", "b">>) EXCEPT !.query = "empty", !.fragment = TRUE],
   Ex("8080", <<"..", "index.html">>),
   Link("https", <<"other">>, "443", TRUE, <<>>),
   Link("ftp", <<"ex">>, "", TRUE, <<"a">>)}

\* Two ways to write one URL on a page, and every link alone.
MCPages == {<<>>, <<Www, Up, Ex("80", <<"index.html">>), Ex("", <<"">>)>>} \union {<<l>> : l \in MCLinks}

MCLoc == [l \in {"l1", "l2", "l3", "l4", "s2"} |->
           CASE l = "l1" -> Ex("", <<"">>) [] l = "l2" -> Ex("", <<"a", "">>)
             [] l = "l3" -> [Ex("80", <<"a">>) EXCEPT !.query = "some"]
             [] l = "l4" -> Link("http", <<"other">>, "", TRUE, <<"a">>)
             [] l = "s2" -> Ex("", <<"b">>)]

MCSitemaps == {"s1", "s2", "s3"}

MCDocuments ==
  {[kind |-> "urlset", locs |-> <<"l1", "l2", "l1">>], [kind |-> "urlset", locs |-> <<"l3", "l4">>],
   [kind |-> "urlset", locs |-> <<"s2">>],
   [kind |-> "index", locs |-> <<"s1", "s2">>], [kind |-> "index", locs |-> <<"s2", "s3">>],
   [kind |-> "index", locs |-> <<"s3", "s2", "s3">>], [kind |-> "neither"]}

MCSites == [robots : {<<>>, <<"s1">>, <<"s1", "s2">>}, content : [MCSitemaps -> MCDocuments]]

=============================================================================
