------------------------------ MODULE UrlForms ------------------------------
(***************************************************************************)
(* URLs as internal/urlutil/urlutil.go canonicalises them and filterLinks  *)
(* of internal/worker/worker.go selects them.  A URL is the record of its  *)
(* parsed components, which String and Parse of net/url carry back and     *)
(* forth unchanged; what does not parse is dropped, and is left out here,  *)
(* as are user names, percent-encoded slashes and "http:a" without slash.  *)
(*                                                                         *)
(* A host is the sequence of its labels, a path that of the segments after *)
(* its slashes: <<>> is no path, <<"">> is "/", <<"a", "">> is "/a/".       *)
(***************************************************************************)
EXTENDS Integers, SequencesExt

CONSTANTS
  Schemes, Ports, Labels, Segments,
  Lower,           \* per label, the label in lower case
  Ext,             \* per segment, path.Ext of it in lower case
  IndexFiles,      \* the segments that name a default index file
  AllowedSchemes,  \* crawl.allowed_schemes
  BlockExtensions, \* crawl.block_extensions
  StripQuery       \* crawl.strip_query

Url ==
  [scheme : Schemes, host : Seq(Labels), port : Ports,  \* "" for none
   rooted : BOOLEAN, path : Seq(Segments),
   query  : {"none", "empty", "some"}, fragment : BOOLEAN]

ASSUME FormsAssumption ==
  /\ "" \in Ports
  /\ Lower \in [Labels -> Labels]
  /\ \A l \in Labels : Lower[Lower[l]] = Lower[l]
  /\ {"", ".", ".."} \union IndexFiles \subseteq Segments
  /\ {"", ".", ".."} \intersect IndexFiles = {}
  /\ DOMAIN Ext = Segments /\ Ext[""] = ""
  /\ StripQuery \in BOOLEAN

-----------------------------------------------------------------------------
LowerHost(u) == [i \in 1 .. Len(u.host) |-> Lower[u.host[i]]]

\* stripDefaultPort, in urlutil.go and in worker.go.
PortOf(u) ==
  IF <<u.scheme, u.port>> \in {<<"http", "80">>, <<"https", "443">>} THEN "" ELSE u.port

\* The elements of s at the positions in I: what a loop that passes over the others keeps.
Select(s, I) ==
  LET kept[n \in 0 .. Len(s)] ==
        IF n = 0 THEN <<>> ELSE IF n \in I THEN Append(kept[n - 1], s[n]) ELSE kept[n - 1]
  IN  kept[Len(s)]

\* The directory above dir, the root at the latest.
Parent(dir) == IF dir = <<>> THEN <<>> ELSE Front(dir)

\* What "." and ".." do to the segments before them.
RemoveDots(segs) ==
  LET dir[n \in 0 .. Len(segs)] ==
        IF n = 0 THEN <<>>
        ELSE CASE segs[n] = "."  -> dir[n - 1]
               [] segs[n] = ".." -> Parent(dir[n - 1])
               [] OTHER          -> Append(dir[n - 1], segs[n])
  IN  dir[Len(segs)]

\* path.Clean.
Clean(segs) == RemoveDots(Select(segs, {i \in DOMAIN segs : segs[i] # ""}))

\* The index files of the root, and of the root only.
IndexPaths == {<<s>> : s \in IndexFiles}

\* Mutant: the index file is looked for before the path is clean.
cleanPath_IndexFirst(segs) ==
  LET clean == IF segs \in IndexPaths THEN <<>> ELSE Clean(segs)
  IN  IF clean = <<>> THEN <<"">> ELSE clean

cleanPath(segs) ==
  LET clean == Clean(segs)
  IN  IF clean = <<>> \/ clean \in IndexPaths THEN <<"">> ELSE clean

\* A "?" with nothing after it is not a query to strip.
Query(q) == IF StripQuery /\ q = "some" THEN "none" ELSE q

Canonicalize(u) ==
  [u EXCEPT !.host = LowerHost(u), !.port = PortOf(u), !.rooted = TRUE, !.path = cleanPath(u.path),
            !.query = Query(u.query), !.fragment = FALSE]

-----------------------------------------------------------------------------
\* ResolveReference of net/url: link as a page at base means it.
Resolve(base, link) ==
  LET full == IF link.path = <<>> THEN base.path
              ELSE IF link.rooted THEN link.path
              ELSE (IF base.path = <<>> THEN <<>> ELSE Front(base.path)) \o link.path
      Dotless(segs) ==
        RemoveDots(segs) \o (IF segs # <<>> /\ Last(segs) \in {".", ".."} THEN <<"">> ELSE <<>>)
  IN  IF link.host # <<>>
      THEN [link EXCEPT !.scheme = base.scheme, !.path = Dotless(link.path)]
      ELSE [link EXCEPT !.scheme = base.scheme, !.host = base.host, !.port = base.port,
                        !.rooted = TRUE, !.path = Dotless(full),
                        !.query = IF link.path = <<>> /\ @ = "none" /\ base.query = "some" THEN "some" ELSE @]

Absolute(base, link) == IF link.scheme # "" THEN link ELSE Resolve(base, link)

\* Mutant: the arguments are swapped.
sameHostOrSubdomain_Swapped(base, host) ==
  /\ PortOf(base) = "" /\ host # <<>>
  /\ IsSuffix(host, LowerHost(base))

\* The host of the page keeps a port that is not the default, which the host of a link,
\* Hostname(), never has.
sameHostOrSubdomain(base, host) ==
  /\ PortOf(base) = "" /\ base.host # <<>>
  /\ IsSuffix(LowerHost(base), host)

\* path.Ext looks behind the last slash, before the path is clean.
Blocked(u) == u.path # <<>> /\ Ext[Last(u.path)] \in BlockExtensions \ {""}

\* filterLinks drops the link, or keeps its canonical form.
Keeps(base, link, sameDomain) ==
  LET u == Absolute(base, link)
  IN  /\ u.scheme \in AllowedSchemes
      /\ sameDomain => sameHostOrSubdomain(base, LowerHost(u))
      /\ ~Blocked(u)

filterLinks(base, links, sameDomain) ==
  LET kept == Select(links, {i \in DOMAIN links : Keeps(base, links[i], sameDomain)})
  IN  [i \in DOMAIN kept |-> Canonicalize(Absolute(base, kept[i]))]

\* uniqueStrings and appendUniqueLinks: the first of several stays.
Unique(s) == Select(s, {i \in DOMAIN s : \A j \in 1 .. i - 1 : s[j] # s[i]})

=============================================================================
