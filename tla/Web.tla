-------------------------------- MODULE Web --------------------------------
(***************************************************************************)
(* The sites a worker process talks to: what politeness is about.          *)
(***************************************************************************)
EXTENDS Integers

CONSTANTS
  Urls,     \* URLs of tasks, in canonical form
  HostOf,   \* the name of a URL's host, without the port: extractHost
  OriginOf  \* the same with the port, if the URL has one: u.Host in robots.go

Hosts   == {HostOf[u] : u \in Urls}
Origins == {OriginOf[u] : u \in Urls}

=============================================================================
