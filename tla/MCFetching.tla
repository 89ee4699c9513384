----------------------------- MODULE MCFetching -----------------------------
(***************************************************************************)
(* Instances of Fetching: two pages of one host, one of them behind a      *)
(* pattern of its robots.txt and the other under a plain path of it; a     *)
(* page on another port of that host, which has no robots.txt; and a page  *)
(* of a host whose robots.txt forbids everything.                          *)
(***************************************************************************)
EXTENDS Fetching, TLC

CONSTANTS w1, w2, plain, hidden, alt, other, host1, host2, port80, port8080, site2

MCHostOf == [u \in Urls |-> IF u = other THEN host2 ELSE host1]

MCOriginOf == [u \in Urls |-> CASE u = other -> site2 [] u = alt -> port8080 [] OTHER -> port80]

MCRules == (port80 :> {[form |-> "path", urls |-> {plain}], [form |-> "pattern", urls |-> {hidden}]})
           @@ (site2 :> {[form |-> "root", urls |-> {other}]}) @@ (port8080 :> {})

MCAnswers == (port80 :> {"rules", "nil"}) @@ (site2 :> {"rules", "disallowAll"}) @@ (port8080 :> {"allowAll"})

MCCrawlDelay == (port80 :> 2) @@ (port8080 :> 0) @@ (site2 :> 0)

=============================================================================
