--------------------------- MODULE RendererProofs ---------------------------
(***************************************************************************)
(* The tokens and the pages of Renderer are accounted for, for any number  *)
(* of callers, hosts, pages and browsers.                                  *)
(***************************************************************************)
EXTENDS Renderer, FiniteSetTheorems, SequenceTheorems, TLAPS

Working == {"navigate", "load", "recycle"}

InPool(p) == \E i \in 1 .. Len(pagePool) : pagePool[i] = p
InUse(p) == \E c \in Callers : render[c].page = p

\* A caller has a page just while it works with it.
PagesHeld == \A c \in Callers : render[c].page # NoPage <=> render[c].pc \in Working

\* The open pages, whatever became of their browser, are those in the pool or in use.
PagesKnown ==
  \A p \in Pages : IF page[p] = NoPageRow THEN ~InPool(p) /\ ~InUse(p)
                   ELSE page[p].browser # 0 /\ (InPool(p) \/ InUse(p))

PagesInv == PagesExclusive /\ PagesHeld /\ PagesKnown

RendererInv == TypeOK /\ SlotsMatch /\ PagesInv

-----------------------------------------------------------------------------
(* A free page.                                                            *)

\* The pages a function names are at most as many as its arguments.
LEMMA RangeIsSmall ==
  ASSUME NEW S, IsFiniteSet(S), NEW f, NEW T, f \in [S -> T]
  PROVE  /\ IsFiniteSet({f[x] : x \in S})
         /\ Cardinality({f[x] : x \in S}) <= Cardinality(S)
<1>. DEFINE R == {f[x] : x \in S}
<1>1. f \in [S -> R]
  OBVIOUS
<1>2. f \in Surjection(S, R)
  BY <1>1 DEF Surjection
<1>. HIDE DEF R
<1>3. IsFiniteSet(R) /\ Cardinality(R) <= Cardinality(S)
  BY <1>2, FS_Surjection
<1>. QED BY <1>3 DEF R

\* A caller without a page finds a name for one: the pool and the others cannot hold
\* them all.
LEMMA FreePage ==
  ASSUME TypeOK, PagesKnown, NEW c \in Callers, render[c].page = NoPage
  PROVE  \E p \in Pages : page[p] = NoPageRow
<1>. DEFINE others == Callers \ {c}
            pooled == {pagePool[i] : i \in 1 .. Len(pagePool)}
            taken == [d \in others |-> render[d].page]
            held == {taken[d] : d \in others}
<1>0. /\ IsFiniteSet(Callers) /\ IsFiniteSet(Pages) /\ NoPage \notin Pages
      /\ PoolSize \in Nat /\ Cardinality(Callers) \in Nat /\ Cardinality(Pages) \in Nat
      /\ Cardinality(Pages) >= PoolSize + Cardinality(Callers)
  BY RendererAssumption, FS_CardinalityType
<1>1. /\ Len(pagePool) \in Nat /\ Len(pagePool) <= PoolSize
      /\ pagePool \in [1 .. Len(pagePool) -> Pages]
  BY LenProperties DEF TypeOK
<1>2. IsFiniteSet(pooled) /\ Cardinality(pooled) <= PoolSize /\ Cardinality(pooled) \in Nat
  <2>1. IsFiniteSet(1 .. Len(pagePool)) /\ Cardinality(1 .. Len(pagePool)) = Len(pagePool)
    BY <1>1, FS_Interval
  <2>2. IsFiniteSet(pooled) /\ Cardinality(pooled) <= Cardinality(1 .. Len(pagePool))
    BY <1>1, <2>1, RangeIsSmall
  <2>3. Cardinality(pooled) \in Nat
    BY <2>2, FS_CardinalityType
  <2>. HIDE DEF pooled
  <2>. QED BY <1>0, <1>1, <2>1, <2>2, <2>3
<1>3. /\ IsFiniteSet(held) /\ Cardinality(held) \in Nat
      /\ Cardinality(held) <= Cardinality(Callers) - 1
  <2>1. IsFiniteSet(others) /\ Cardinality(others) = Cardinality(Callers) - 1
    BY <1>0, FS_RemoveElement
  <2>2. taken \in [others -> held]
    OBVIOUS
  <2>. HIDE DEF others, taken
  <2>3. IsFiniteSet(held) /\ Cardinality(held) <= Cardinality(others)
    BY <2>1, <2>2, RangeIsSmall
  <2>4. Cardinality(held) \in Nat
    BY <2>3, FS_CardinalityType
  <2>. HIDE DEF held
  <2>. QED BY <1>0, <2>1, <2>3, <2>4
<1>4. ASSUME \A p \in Pages : page[p] # NoPageRow
      PROVE  Pages \subseteq pooled \cup held
  BY <1>0, <1>4 DEF PagesKnown, InPool, InUse
<1>5. /\ IsFiniteSet(pooled \cup held)
      /\ Cardinality(pooled \cup held) < Cardinality(Pages)
  <2>. HIDE DEF pooled, held
  <2>1. /\ IsFiniteSet(pooled \cup held)
        /\ Cardinality(pooled \cup held) =
             Cardinality(pooled) + Cardinality(held) - Cardinality(pooled \cap held)
    BY <1>2, <1>3, FS_Union
  <2>2. Cardinality(pooled \cap held) \in Nat
    BY <1>2, FS_Subset, FS_CardinalityType
  <2>. QED BY <1>0, <1>2, <1>3, <2>1, <2>2
<1>. HIDE DEF pooled, held
<1>. QED BY <1>4, <1>5, <1>0, FS_Subset, FS_CardinalityType

-----------------------------------------------------------------------------
(* What a step does to the tokens.                                         *)

\* Everyone keeps the token and the host, or has none before and after.
LEMMA SlotsQuiet ==
  ASSUME SlotsMatch, UNCHANGED hostSem,
         \A d \in Callers :
           /\ render'[d].pc \in {"idle", "host"} <=> render[d].pc \in {"idle", "host"}
           /\ render[d].pc \notin {"idle", "host"} => render'[d].host = render[d].host
  PROVE  SlotsMatch'
<1>1. \A h \in Hosts : Rendering(h)' = Rendering(h)
  BY DEF Rendering
<1>. QED BY <1>1 DEF SlotsMatch

\* A caller comes in with a token.
LEMMA SlotTaken ==
  ASSUME TypeOK, SlotsMatch, NEW c \in Callers, acquireHost(c)
  PROVE  SlotsMatch'
<1>. SUFFICES ASSUME NEW h \in Hosts PROVE hostSem'[h] = Cardinality(Rendering(h))'
  BY DEF SlotsMatch
<1>1. /\ hostSem' = [hostSem EXCEPT ![render[c].host] = @ + 1] /\ At(c, "host")
      /\ render' = [render EXCEPT ![c].pc = "page"]
  BY DEF acquireHost, GoTo
<1>2. Rendering(h)' = IF h = render[c].host THEN Rendering(h) \cup {c} ELSE Rendering(h)
  BY <1>1 DEF Rendering, TypeOK, At
<1>3. IsFiniteSet(Rendering(h)) /\ c \notin Rendering(h)
  BY <1>1, FS_Subset, RendererAssumption DEF Rendering, At
<1>4. Cardinality(Rendering(h) \cup {c}) = Cardinality(Rendering(h)) + 1
  BY <1>3, FS_AddElement
<1>. QED BY <1>1, <1>2, <1>4 DEF SlotsMatch, TypeOK

\* A caller leaves and its token with it.
LEMMA SlotReturned ==
  ASSUME TypeOK, SlotsMatch, NEW c \in Callers, releaseHostSem(c)
  PROVE  SlotsMatch'
<1>. SUFFICES ASSUME NEW h \in Hosts PROVE hostSem'[h] = Cardinality(Rendering(h))'
  BY DEF SlotsMatch
<1>1. /\ hostSem' = [hostSem EXCEPT ![render[c].host] = IF @ > 0 THEN @ - 1 ELSE @]
      /\ At(c, "release") /\ render' = [render EXCEPT ![c].pc = "idle"]
  BY DEF releaseHostSem, GoTo
<1>2. Rendering(h)' = IF h = render[c].host THEN Rendering(h) \ {c} ELSE Rendering(h)
  BY <1>1 DEF Rendering, TypeOK, At
<1>3. IsFiniteSet(Rendering(h))
  BY FS_Subset, RendererAssumption DEF Rendering
<1>4. CASE h = render[c].host
  <2>1. c \in Rendering(h)
    BY <1>1, <1>4 DEF Rendering, At
  <2>2. Cardinality(Rendering(h) \ {c}) = Cardinality(Rendering(h)) - 1
    BY <1>3, <2>1, FS_RemoveElement
  <2>3. Cardinality(Rendering(h)) \in Nat /\ Cardinality(Rendering(h)) # 0
    BY <1>3, <2>1, FS_CardinalityType, FS_EmptySet
  <2>. QED BY <1>1, <1>2, <1>4, <2>2, <2>3 DEF SlotsMatch, TypeOK
<1>5. CASE h # render[c].host
  BY <1>1, <1>2, <1>5 DEF SlotsMatch, TypeOK
<1>. QED BY <1>4, <1>5

-----------------------------------------------------------------------------
(* What a step does to the pages.                                          *)

\* The pool and the callers keep their pages, and no page is opened or closed.
LEMMA PagesQuiet ==
  ASSUME PagesInv, UNCHANGED pagePool,
         \A d \in Callers : /\ render'[d].page = render[d].page
                            /\ render'[d].pc \in Working <=> render[d].pc \in Working,
         \A p \in Pages : /\ page'[p].browser = page[p].browser
                          /\ page'[p] = NoPageRow <=> page[p] = NoPageRow
  PROVE  PagesInv'
<1>1. Held' = Held
  BY DEF Held
<1>2. PagesExclusive'
  BY <1>1 DEF PagesInv, PagesExclusive, Held, IsInjective
<1>3. PagesHeld'
  BY DEF PagesInv, PagesHeld
<1>4. \A p \in Pages : (InPool(p)' <=> InPool(p)) /\ (InUse(p)' <=> InUse(p))
  BY DEF InPool, InUse
<1>5. PagesKnown'
  BY <1>4 DEF PagesInv, PagesKnown
<1>. QED BY <1>2, <1>3, <1>5 DEF PagesInv

\* The first page of the pool goes to a caller.
LEMMA PageTaken ==
  ASSUME TypeOK, PagesInv, NEW c \in Callers, TakePooled(c)
  PROVE  /\ PagesInv'
         /\ render' \in [Callers -> [pc : RenderPC, host : Hosts, page : Pages \cup {NoPage}]]
         /\ pagePool' \in Seq(Pages) /\ Len(pagePool') <= PoolSize
<1>. DEFINE n == Len(pagePool)
<1>0. /\ pagePool \in Seq(Pages) /\ pagePool # << >> /\ n \in Nat \ {0} /\ n <= PoolSize
      /\ DOMAIN pagePool = 1 .. n /\ pagePool' = Tail(pagePool)
      /\ PoolSize \in Nat /\ NoPage \notin Pages
  BY EmptySeq, LenProperties, RendererAssumption DEF TypeOK, TakePooled
<1>1. PICK p \in Pages : p = Head(pagePool) /\ p = pagePool[1]
  BY <1>0, HeadTailProperties
<1>2. /\ pagePool' \in Seq(Pages) /\ Len(pagePool') = n - 1
      /\ DOMAIN pagePool' = 1 .. (n - 1)
      /\ \A i \in 1 .. (n - 1) : pagePool'[i] = pagePool[i + 1]
  BY <1>0, HeadTailProperties, LenProperties
<1>3. /\ render'[c].pc = "navigate" /\ render'[c].page = p /\ At(c, "page")
      /\ \A d \in Callers : d # c => render'[d] = render[d]
      /\ render' \in [Callers -> [pc : RenderPC, host : Hosts, page : Pages \cup {NoPage}]]
  <2>1. At(c, "page") /\ render' = [render EXCEPT ![c].pc = "navigate", ![c].page = p]
    BY <1>1 DEF TakePooled
  <2>2. render \in [Callers -> [pc : RenderPC, host : Hosts, page : Pages \cup {NoPage}]]
    BY DEF TypeOK
  <2>. QED BY <2>1, <2>2 DEF RenderPC
<1>. HIDE DEF n
<1>4. render[c].page = NoPage
  BY <1>3 DEF PagesInv, PagesHeld, At, Working
<1>5. \A i, j \in 1 .. n : pagePool[i] = pagePool[j] => i = j
  BY <1>0 DEF PagesInv, PagesExclusive, IsInjective
<1>6. \A q \in Pages : InPool(q) <=> q = p \/ InPool(q)'
  <2>. SUFFICES ASSUME NEW q \in Pages PROVE InPool(q) <=> q = p \/ InPool(q)'
    OBVIOUS
  <2>1. InPool(q) <=> \E i \in 1 .. n : pagePool[i] = q
    BY DEF InPool, n
  <2>2. InPool(q)' <=> \E i \in 1 .. (n - 1) : pagePool'[i] = q
    BY <1>2 DEF InPool
  <2>3. ASSUME NEW i \in 1 .. n, pagePool[i] = q, q # p PROVE InPool(q)'
    <3>1. i - 1 \in 1 .. (n - 1) /\ pagePool'[i - 1] = q
      BY <1>0, <1>1, <1>2, <2>3
    <3>. QED BY <2>2, <3>1
  <2>4. ASSUME NEW i \in 1 .. (n - 1), pagePool'[i] = q PROVE InPool(q)
    <3>1. i + 1 \in 1 .. n /\ pagePool[i + 1] = q
      BY <1>0, <1>2, <2>4
    <3>. QED BY <2>1, <3>1
  <2>5. 1 \in 1 .. n
    BY <1>0
  <2>. QED BY <1>1, <2>1, <2>2, <2>3, <2>4, <2>5
<1>7. ~InPool(p)'
  <2>. SUFFICES ASSUME NEW i \in 1 .. (n - 1), pagePool'[i] = p PROVE FALSE
    BY <1>2 DEF InPool
  <2>1. i + 1 \in 1 .. n /\ 1 \in 1 .. n /\ pagePool[i + 1] = pagePool[1] /\ i + 1 # 1
    BY <1>0, <1>1, <1>2
  <2>. QED BY <1>5, <2>1
<1>8. \A d \in Held : d # c /\ render[d].page # p
  <2>1. 1 \in DOMAIN pagePool
    BY <1>0
  <2>. QED BY <1>1, <1>4, <2>1 DEF PagesInv, PagesExclusive, Held
<1>9. PagesHeld'
  BY <1>0, <1>1, <1>3 DEF PagesInv, PagesHeld, Working
<1>10. PagesKnown'
  <2>1. \A q \in Pages : InUse(q)' <=> q = p \/ InUse(q)
    BY <1>0, <1>3, <1>4 DEF InUse
  <2>2. page' = page
    BY DEF TakePooled
  <2>3. InPool(p)
    BY <1>1, <1>6
  <2>. QED BY <1>6, <1>7, <2>1, <2>2, <2>3 DEF PagesInv, PagesKnown
<1>11. PagesExclusive'
  <2>1. \A i, j \in 1 .. (n - 1) : pagePool'[i] = pagePool'[j] => i = j
    <3>. SUFFICES ASSUME NEW i \in 1 .. (n - 1), NEW j \in 1 .. (n - 1),
                         pagePool'[i] = pagePool'[j]
                  PROVE  i = j
      OBVIOUS
    <3>1. i + 1 \in 1 .. n /\ j + 1 \in 1 .. n /\ pagePool[i + 1] = pagePool[j + 1]
      BY <1>0, <1>2
    <3>. QED BY <1>5, <3>1
  <2>2. Held' = Held \cup {c}
    BY <1>0, <1>1, <1>3 DEF Held
  <2>3. \A d \in Held' : \A i \in 1 .. (n - 1) : pagePool'[i] # render'[d].page
    <3>. SUFFICES ASSUME NEW d \in Held', NEW i \in 1 .. (n - 1)
                  PROVE  pagePool'[i] # render'[d].page
      OBVIOUS
    <3>1. CASE d = c
      BY <1>2, <1>3, <1>7, <3>1 DEF InPool
    <3>2. CASE d # c
      <4>1. d \in Held /\ render'[d] = render[d]
        BY <1>3, <2>2, <3>2 DEF Held
      <4>2. i + 1 \in DOMAIN pagePool /\ pagePool'[i] = pagePool[i + 1]
        BY <1>0, <1>2
      <4>. QED BY <4>1, <4>2 DEF PagesInv, PagesExclusive
    <3>. QED BY <3>1, <3>2
  <2>4. \A d, e \in Held' : d # e => render'[d].page # render'[e].page
    BY <1>3, <1>8, <2>2 DEF PagesInv, PagesExclusive, Held
  <2>. QED BY <1>2, <2>1, <2>3, <2>4 DEF PagesExclusive, IsInjective
<1>. QED BY <1>0, <1>2, <1>3, <1>9, <1>10, <1>11 DEF PagesInv

\* newPage opens a page nobody has.
LEMMA PageOpened ==
  ASSUME TypeOK, PagesInv, NEW c \in Callers, OpenPage(c), render[c].page = NoPage
  PROVE  /\ PagesInv'
         /\ render' \in [Callers -> [pc : RenderPC, host : Hosts, page : Pages \cup {NoPage}]]
         /\ page' \in [Pages -> [browser : 0 .. MaxBrowser, old : BOOLEAN]]
         /\ UNCHANGED pagePool
         /\ render'[c].pc = "navigate" /\ render'[c].host = render[c].host
         /\ \A d \in Callers : d # c => render'[d] = render[d]
<1>0. NoPage \notin Pages
  BY RendererAssumption
<1>1. PICK p \in Pages :
        /\ page[p] = NoPageRow
        /\ page' = [page EXCEPT ![p] = [browser |-> browser, old |-> FALSE]]
        /\ render' = [render EXCEPT ![c].pc = "navigate", ![c].page = p]
  <2>1. \E p \in Pages : page[p] = NoPageRow
    BY FreePage DEF PagesInv
  <2>. QED BY <2>1 DEF OpenPage
<1>2. /\ UNCHANGED pagePool /\ browser \in 1 .. MaxBrowser
      /\ \A q \in Pages : page'[q] = IF q = p THEN [browser |-> browser, old |-> FALSE]
                                     ELSE page[q]
      /\ page' \in [Pages -> [browser : 0 .. MaxBrowser, old : BOOLEAN]]
  <2>1. UNCHANGED pagePool /\ browser \in 1 .. MaxBrowser
    BY DEF OpenPage, TypeOK
  <2>2. page \in [Pages -> [browser : 0 .. MaxBrowser, old : BOOLEAN]] /\ MaxBrowser \in Nat
    BY RendererAssumption DEF TypeOK
  <2>3. [browser |-> browser, old |-> FALSE] \in [browser : 0 .. MaxBrowser, old : BOOLEAN]
    BY <2>1, <2>2
  <2>. QED BY <1>1, <2>1, <2>2, <2>3
<1>3. /\ render'[c].pc = "navigate" /\ render'[c].page = p /\ render'[c].host = render[c].host
      /\ \A d \in Callers : d # c => render'[d] = render[d]
      /\ render' \in [Callers -> [pc : RenderPC, host : Hosts, page : Pages \cup {NoPage}]]
  <2>1. render \in [Callers -> [pc : RenderPC, host : Hosts, page : Pages \cup {NoPage}]]
    BY DEF TypeOK
  <2>. QED BY <1>1, <2>1 DEF RenderPC
<1>4. ~InPool(p) /\ ~InUse(p)
  BY <1>1 DEF PagesInv, PagesKnown
<1>5. PagesHeld'
  BY <1>0, <1>3 DEF PagesInv, PagesHeld, Working
<1>6. PagesKnown'
  <2>1. \A q \in Pages : InUse(q)' <=> q = p \/ InUse(q)
    BY <1>0, <1>3 DEF InUse
  <2>2. \A q \in Pages : InPool(q)' <=> InPool(q)
    BY <1>2 DEF InPool
  <2>3. page'[p] # NoPageRow /\ page'[p].browser # 0
    BY <1>2 DEF NoPageRow
  <2>. QED BY <1>2, <2>1, <2>2, <2>3 DEF PagesInv, PagesKnown
<1>7. PagesExclusive'
  <2>1. Held' = Held \cup {c}
    BY <1>0, <1>3 DEF Held
  <2>2. DOMAIN pagePool = 1 .. Len(pagePool)
    BY LenProperties DEF TypeOK
  <2>3. \A d \in Held' : \A i \in DOMAIN pagePool' : pagePool'[i] # render'[d].page
    BY <1>2, <1>3, <1>4, <2>1, <2>2 DEF PagesInv, PagesExclusive, InPool, Held
  <2>4. \A d \in Held : render[d].page # p
    BY <1>4 DEF InUse, Held
  <2>5. \A d, e \in Held' : d # e => render'[d].page # render'[e].page
    BY <1>3, <2>1, <2>4 DEF PagesInv, PagesExclusive, Held
  <2>6. IsInjective(pagePool)'
    BY <1>2 DEF PagesInv, PagesExclusive, IsInjective
  <2>. QED BY <2>3, <2>5, <2>6 DEF PagesExclusive
<1>. QED BY <1>2, <1>3, <1>5, <1>6, <1>7 DEF PagesInv

\* recyclePage gives the page of a caller back, or closes it.
LEMMA PageReturned ==
  ASSUME TypeOK, PagesInv, NEW c \in Callers, recyclePage(c)
  PROVE  /\ PagesInv'
         /\ render' \in [Callers -> [pc : RenderPC, host : Hosts, page : Pages \cup {NoPage}]]
         /\ page' \in [Pages -> [browser : 0 .. MaxBrowser, old : BOOLEAN]]
         /\ pagePool' \in Seq(Pages) /\ Len(pagePool') <= PoolSize
<1>. DEFINE n == Len(pagePool)
<1>0. /\ pagePool \in Seq(Pages) /\ n \in Nat /\ n <= PoolSize /\ DOMAIN pagePool = 1 .. n
      /\ PoolSize \in Nat /\ NoPage \notin Pages /\ At(c, "recycle")
  BY LenProperties, RendererAssumption DEF TypeOK, recyclePage
<1>1. PICK p \in Pages : p = render[c].page
  BY <1>0 DEF PagesInv, PagesHeld, At, Working, TypeOK
<1>2. /\ render'[c].pc = "release" /\ render'[c].page = NoPage
      /\ \A d \in Callers : d # c => render'[d] = render[d]
      /\ render' \in [Callers -> [pc : RenderPC, host : Hosts, page : Pages \cup {NoPage}]]
  <2>1. render' = [render EXCEPT ![c].pc = "release", ![c].page = NoPage]
    BY DEF recyclePage
  <2>2. render \in [Callers -> [pc : RenderPC, host : Hosts, page : Pages \cup {NoPage}]]
    BY DEF TypeOK
  <2>. QED BY <2>1, <2>2 DEF RenderPC
<1>3. c \in Held /\ Held' = Held \ {c} /\ ~InPool(p)
  BY <1>0, <1>1, <1>2 DEF Held, PagesInv, PagesExclusive, InPool
<1>4. \A q \in Pages : InUse(q) <=> q = p \/ InUse(q)'
  BY <1>0, <1>1, <1>2 DEF InUse
<1>5. ~InUse(p)'
  BY <1>0, <1>1, <1>2, <1>3 DEF InUse, Held, PagesInv, PagesExclusive
<1>6. PagesHeld'
  BY <1>2 DEF PagesInv, PagesHeld, Working
<1>7. \A d, e \in Held' : d # e => render'[d].page # render'[e].page
  BY <1>2, <1>3 DEF PagesInv, PagesExclusive, Held
<1>8. CASE page' = [page EXCEPT ![p] = NoPageRow] /\ UNCHANGED pagePool
  <2>1. /\ page' \in [Pages -> [browser : 0 .. MaxBrowser, old : BOOLEAN]]
        /\ \A q \in Pages : page'[q] = IF q = p THEN NoPageRow ELSE page[q]
    BY <1>8, RendererAssumption DEF TypeOK, NoPageRow
  <2>2. \A q \in Pages : InPool(q)' <=> InPool(q)
    BY <1>8 DEF InPool
  <2>3. PagesKnown'
    BY <1>3, <1>4, <1>5, <2>1, <2>2 DEF PagesInv, PagesKnown
  <2>4. PagesExclusive'
    BY <1>2, <1>3, <1>7, <1>8 DEF PagesInv, PagesExclusive, IsInjective, Held
  <2>. QED BY <1>0, <1>2, <1>6, <1>8, <2>1, <2>3, <2>4 DEF PagesInv
<1>9. CASE pagePool' = Append(pagePool, p) /\ UNCHANGED page /\ n # PoolSize
  <2>1. /\ pagePool' \in Seq(Pages) /\ Len(pagePool') = n + 1 /\ n + 1 <= PoolSize
        /\ DOMAIN pagePool' = 1 .. (n + 1)
        /\ \A i \in 1 .. n : pagePool'[i] = pagePool[i]
        /\ pagePool'[n + 1] = p
    <3>1. /\ pagePool' \in Seq(Pages) /\ Len(pagePool') = n + 1
          /\ \A i \in 1 .. n : pagePool'[i] = pagePool[i]
          /\ pagePool'[n + 1] = p
      BY <1>0, <1>9, AppendProperties
    <3>2. DOMAIN pagePool' = 1 .. Len(pagePool')
      BY <3>1, LenProperties
    <3>3. n + 1 <= PoolSize
      <4>1. n # PoolSize
        BY <1>9
      <4>2. n \in Nat /\ n <= PoolSize /\ PoolSize \in Nat
        BY <1>0
      <4>. HIDE DEF n
      <4>. QED BY <4>1, <4>2
    <3>. QED BY <3>1, <3>2, <3>3
  <2>. HIDE DEF n
  <2>2. \A q \in Pages : InPool(q)' <=> q = p \/ InPool(q)
    <3>. SUFFICES ASSUME NEW q \in Pages PROVE InPool(q)' <=> q = p \/ InPool(q)
      OBVIOUS
    <3>1. InPool(q) <=> \E i \in 1 .. n : pagePool[i] = q
      BY DEF InPool, n
    <3>2. InPool(q)' <=> \E i \in 1 .. (n + 1) : pagePool'[i] = q
      BY <2>1 DEF InPool
    <3>3. /\ n + 1 \in 1 .. (n + 1) /\ \A i \in 1 .. n : i \in 1 .. (n + 1)
          /\ \A i \in 1 .. (n + 1) : i = n + 1 \/ i \in 1 .. n
      BY <1>0
    <3>. QED BY <2>1, <3>1, <3>2, <3>3
  <2>3. page[p] # NoPageRow
    BY <1>1 DEF PagesInv, PagesKnown, InUse
  <2>4. PagesKnown'
    BY <1>4, <1>5, <1>9, <2>2, <2>3 DEF PagesInv, PagesKnown
  <2>5. \A i \in 1 .. (n + 1) : i = n + 1 \/ i \in 1 .. n
    BY <1>0
  <2>6. \A i \in 1 .. n : pagePool[i] # p
    BY <1>3 DEF InPool, n
  <2>7. \A i, j \in 1 .. (n + 1) : pagePool'[i] = pagePool'[j] => i = j
    BY <1>0, <2>1, <2>5, <2>6 DEF PagesInv, PagesExclusive, IsInjective
  <2>8. \A d \in Held' : \A i \in 1 .. (n + 1) : pagePool'[i] # render'[d].page
    <3>1. \A d \in Held' : render'[d].page = render[d].page /\ render[d].page # p
      BY <1>1, <1>2, <1>3 DEF PagesInv, PagesExclusive, Held
    <3>. QED BY <1>0, <1>3, <2>1, <2>5, <3>1 DEF PagesInv, PagesExclusive
  <2>9. PagesExclusive'
    BY <1>7, <2>1, <2>7, <2>8 DEF PagesExclusive, IsInjective
  <2>. QED BY <1>2, <1>6, <1>9, <2>1, <2>4, <2>9 DEF PagesInv, TypeOK
<1>. QED BY <1>1, <1>8, <1>9 DEF recyclePage, ClosePage

-----------------------------------------------------------------------------
(* Every step.                                                             *)

\* A caller that moves on keeps its host and its page.
LEMMA CallerMoves ==
  ASSUME TypeOK, NEW c \in Callers, NEW pc \in RenderPC, GoTo(c, pc)
  PROVE  /\ render' \in [Callers -> [pc : RenderPC, host : Hosts, page : Pages \cup {NoPage}]]
         /\ \A d \in Callers : d # c => render'[d] = render[d]
         /\ render'[c].pc = pc /\ render'[c].host = render[c].host
         /\ render'[c].page = render[c].page
BY DEF TypeOK, GoTo

\* It disturbs nobody if it gets and gives up neither a token nor a page.
LEMMA MovesOn ==
  ASSUME TypeOK, SlotsMatch, PagesInv, NEW c \in Callers, NEW pc \in RenderPC, GoTo(c, pc),
         UNCHANGED <<hostSem, pool>>,
         pc \in {"idle", "host"} <=> render[c].pc \in {"idle", "host"},
         pc \in Working <=> render[c].pc \in Working
  PROVE  /\ SlotsMatch' /\ PagesInv'
         /\ render' \in [Callers -> [pc : RenderPC, host : Hosts, page : Pages \cup {NoPage}]]
<1>1. /\ render' \in [Callers -> [pc : RenderPC, host : Hosts, page : Pages \cup {NoPage}]]
      /\ \A d \in Callers : d # c => render'[d] = render[d]
      /\ render'[c].pc = pc /\ render'[c].host = render[c].host
      /\ render'[c].page = render[c].page
  BY CallerMoves
<1>2. SlotsMatch'
  BY <1>1, SlotsQuiet
<1>3. PagesInv'
  BY <1>1, PagesQuiet DEF pool
<1>. QED BY <1>1, <1>2, <1>3

\* Nor does a step of anybody else that leaves the callers, the tokens and the pages alone.
LEMMA Elsewhere ==
  ASSUME SlotsMatch, PagesInv, UNCHANGED <<render, hostSem, pool>>
  PROVE  SlotsMatch' /\ PagesInv'
BY SlotsQuiet, PagesQuiet DEF pool

\* restart keeps the browsers within their bounds.
LEMMA BrowserType ==
  ASSUME TypeOK, (Launched \/ LaunchFailed) \/ (CloseBrowser /\ UNCHANGED <<browser, launched>>)
  PROVE  /\ browser' \in 0 .. MaxBrowser /\ launched' \in 0 .. MaxBrowser
         /\ running' \subseteq 1 .. MaxBrowser
<1>0. /\ MaxBrowser \in Nat /\ browser \in 0 .. MaxBrowser /\ launched \in 0 .. MaxBrowser
      /\ running \subseteq 1 .. MaxBrowser
  BY RendererAssumption DEF TypeOK
<1>1. CASE launched' = launched + 1 /\ launched < MaxBrowser
           /\ browser' \in {browser, launched'} /\ running' = running \cup {launched'}
  BY <1>0, <1>1
<1>2. CASE UNCHANGED <<browser, launched>> /\ running' \subseteq running
  BY <1>0, <1>2
<1>. QED BY <1>1, <1>2 DEF Launched, LaunchFailed, CloseBrowser

\* A step of a caller keeps the invariant.
LEMMA CallerStep ==
  ASSUME RendererInv, NEW c \in Callers,
         (\E h \in Hosts : Render(c, h)) \/ acquireHost(c) \/ acquireHostAborted(c)
           \/ RenderStep(c)
  PROVE  RendererInv'
<1>0. TypeOK /\ SlotsMatch /\ PagesInv
  BY DEF RendererInv
<1>. USE DEF RendererInv, At
<1>1. ASSUME NEW h \in Hosts, Render(c, h) PROVE RendererInv'
  <2>1. /\ render[c].page = NoPage /\ render[c].pc = "idle"
        /\ UNCHANGED <<hostSem, pagePool, page>>
    BY <1>0, <1>1 DEF Render, PagesInv, PagesHeld, Working, pool
  <2>2. /\ render'[c].pc = "host" /\ render'[c].page = NoPage
        /\ \A d \in Callers : d # c => render'[d] = render[d]
        /\ render' \in [Callers -> [pc : RenderPC, host : Hosts, page : Pages \cup {NoPage}]]
    BY <1>0, <1>1 DEF Render, TypeOK, RenderPC
  <2>3. SlotsMatch'
    BY <1>0, <2>1, <2>2, SlotsQuiet
  <2>4. PagesInv'
    BY <1>0, <2>1, <2>2, PagesQuiet DEF Working
  <2>. QED BY <1>0, <1>1, <2>2, <2>3, <2>4 DEF Render, TypeOK, pool, chromium
<1>2. CASE acquireHost(c)
  <2>1. SlotsMatch'
    BY <1>0, <1>2, SlotTaken
  <2>2. /\ render' \in [Callers -> [pc : RenderPC, host : Hosts, page : Pages \cup {NoPage}]]
        /\ \A d \in Callers : d # c => render'[d] = render[d]
        /\ render'[c].pc = "page" /\ render'[c].page = render[c].page
    BY <1>0, <1>2, CallerMoves DEF acquireHost, RenderPC
  <2>3. PagesInv'
    BY <1>0, <1>2, <2>2, PagesQuiet DEF acquireHost, pool, Working
  <2>4. hostSem' \in [Hosts -> 0 .. PerHostLimit]
    BY <1>0, <1>2, RendererAssumption DEF acquireHost, TypeOK
  <2>. QED BY <1>0, <1>2, <2>1, <2>2, <2>3, <2>4 DEF acquireHost, TypeOK, pool, chromium
<1>3. CASE releaseHostSem(c)
  <2>1. SlotsMatch'
    BY <1>0, <1>3, SlotReturned
  <2>2. /\ render' \in [Callers -> [pc : RenderPC, host : Hosts, page : Pages \cup {NoPage}]]
        /\ \A d \in Callers : d # c => render'[d] = render[d]
        /\ render'[c].pc = "idle" /\ render'[c].page = render[c].page
    BY <1>0, <1>3, CallerMoves DEF releaseHostSem, RenderPC
  <2>3. PagesInv'
    BY <1>0, <1>3, <2>2, PagesQuiet DEF releaseHostSem, pool, Working
  <2>4. hostSem' \in [Hosts -> 0 .. PerHostLimit]
    BY <1>0, <1>3, RendererAssumption DEF releaseHostSem, TypeOK
  <2>. QED BY <1>0, <1>3, <2>1, <2>2, <2>3, <2>4 DEF releaseHostSem, TypeOK, pool, chromium
<1>4. CASE TakePooled(c)
  <2>1. /\ PagesInv'
        /\ render' \in [Callers -> [pc : RenderPC, host : Hosts, page : Pages \cup {NoPage}]]
        /\ pagePool' \in Seq(Pages) /\ Len(pagePool') <= PoolSize
    BY <1>0, <1>4, PageTaken
  <2>2. /\ \A d \in Callers : d # c => render'[d] = render[d]
        /\ render'[c].pc = "navigate" /\ render'[c].host = render[c].host
    BY <1>0, <1>4 DEF TakePooled, TypeOK
  <2>3. SlotsMatch'
    BY <1>0, <1>4, <2>2, SlotsQuiet DEF TakePooled
  <2>. QED BY <1>0, <1>4, <2>1, <2>3 DEF TakePooled, TypeOK, chromium
<1>5. CASE OpenPage(c) /\ (newPage(c) \/ RetryPage(c))
  <2>1. render[c].page = NoPage /\ render[c].pc \notin {"idle", "host"}
    BY <1>0, <1>5 DEF newPage, RetryPage, PagesInv, PagesHeld, Working
  <2>2. /\ PagesInv'
        /\ render' \in [Callers -> [pc : RenderPC, host : Hosts, page : Pages \cup {NoPage}]]
        /\ page' \in [Pages -> [browser : 0 .. MaxBrowser, old : BOOLEAN]]
        /\ UNCHANGED pagePool
        /\ render'[c].pc = "navigate" /\ render'[c].host = render[c].host
        /\ \A d \in Callers : d # c => render'[d] = render[d]
    BY <1>0, <1>5, <2>1, PageOpened
  <2>3. UNCHANGED <<hostSem, chromium, health, shutdown, panic>> /\ mu' \in {mu, NoCaller, c}
    BY <1>5 DEF newPage, RetryPage
  <2>4. SlotsMatch'
    BY <1>0, <2>1, <2>2, <2>3, SlotsQuiet
  <2>. QED BY <1>0, <2>2, <2>3, <2>4 DEF TypeOK, chromium
<1>6. CASE recyclePage(c)
  <2>1. /\ PagesInv'
        /\ render' \in [Callers -> [pc : RenderPC, host : Hosts, page : Pages \cup {NoPage}]]
        /\ page' \in [Pages -> [browser : 0 .. MaxBrowser, old : BOOLEAN]]
        /\ pagePool' \in Seq(Pages) /\ Len(pagePool') <= PoolSize
    BY <1>0, <1>6, PageReturned
  <2>2. /\ \A d \in Callers : d # c => render'[d] = render[d]
        /\ render'[c].pc = "release" /\ render'[c].host = render[c].host
        /\ render[c].pc = "recycle"
    BY <1>0, <1>6 DEF recyclePage, TypeOK
  <2>3. SlotsMatch'
    BY <1>0, <1>6, <2>2, SlotsQuiet DEF recyclePage
  <2>. QED BY <1>0, <1>6, <2>1, <2>3 DEF recyclePage, TypeOK, chromium
<1>7. CASE PoolClosed(c) \/ LoadPanics(c) \/ RecyclePanics(c)
  <2>1. UNCHANGED <<render, hostSem, pool, chromium, mu, health, shutdown>>
        /\ panic' \in {"load", "pool"}
    BY <1>7 DEF PoolClosed, LoadPanics, RecyclePanics, Panic
  <2>. QED BY <1>0, <2>1, Elsewhere DEF TypeOK, pool, chromium
<1>8. ASSUME NEW pc \in RenderPC, GoTo(c, pc), UNCHANGED <<hostSem, pool, deaths, health, shutdown, panic>>,
             pc \in {"idle", "host"} <=> render[c].pc \in {"idle", "host"},
             pc \in Working <=> render[c].pc \in Working,
             mu' \in {mu, NoCaller, c},
             /\ browser' \in 0 .. MaxBrowser /\ launched' \in 0 .. MaxBrowser
             /\ running' \subseteq 1 .. MaxBrowser
      PROVE  RendererInv'
  <2>1. /\ SlotsMatch' /\ PagesInv'
        /\ render' \in [Callers -> [pc : RenderPC, host : Hosts, page : Pages \cup {NoPage}]]
    BY <1>0, <1>8, MovesOn
  <2>. QED BY <1>0, <1>8, <2>1 DEF TypeOK, pool
<1>9. /\ browser \in 0 .. MaxBrowser /\ launched \in 0 .. MaxBrowser
      /\ running \subseteq 1 .. MaxBrowser
  BY <1>0 DEF TypeOK
<1>10. CASE acquireHostAborted(c)
  BY <1>8, <1>9, <1>10 DEF acquireHostAborted, RenderPC, Working, chromium
<1>11. CASE PoolEmpty(c) \/ Navigate(c) \/ Load(c)
  BY <1>8, <1>9, <1>11 DEF PoolEmpty, Navigate, Load, RenderPC, Working, chromium
<1>12. CASE ~OpenPage(c) /\ (newPage(c) \/ RetryPage(c))
  BY <1>8, <1>9, <1>12 DEF newPage, RetryPage, RenderPC, Working, chromium
<1>13. CASE RestartCloses(c)
  <2>1. /\ browser' \in 0 .. MaxBrowser /\ launched' \in 0 .. MaxBrowser
        /\ running' \subseteq 1 .. MaxBrowser
    BY <1>0, <1>13, BrowserType DEF RestartCloses
  <2>. QED BY <1>8, <1>13, <2>1 DEF RestartCloses, RenderPC, Working
<1>14. CASE RestartLaunches(c)
  <2>1. /\ browser' \in 0 .. MaxBrowser /\ launched' \in 0 .. MaxBrowser
        /\ running' \subseteq 1 .. MaxBrowser
    BY <1>0, <1>14, BrowserType DEF RestartLaunches
  <2>. QED BY <1>8, <1>14, <2>1 DEF RestartLaunches, RenderPC, Working
<1>. QED
  BY <1>1, <1>2, <1>3, <1>4, <1>5, <1>6, <1>7, <1>10, <1>11, <1>12, <1>13, <1>14
  DEF RenderStep

\* So does every step.
LEMMA RendererStep ==
  ASSUME RendererInv, [Next]_rendererVars
  PROVE  RendererInv'
<1>0. TypeOK /\ SlotsMatch /\ PagesInv
  BY DEF RendererInv
<1>1. CASE UNCHANGED rendererVars
  BY <1>0, <1>1, Elsewhere DEF RendererInv, rendererVars, TypeOK, pool, chromium
<1>2. ASSUME NEW c \in Callers,
             (\E h \in Hosts : Render(c, h)) \/ acquireHost(c) \/ acquireHostAborted(c)
               \/ RenderStep(c)
      PROVE  RendererInv'
  BY <1>2, CallerStep
<1>3. CASE HealthTick \/ ClosePool
  <2>1. /\ UNCHANGED <<render, hostSem, pool, chromium, mu>>
        /\ health' \in {"off", "tick", "close", health} /\ shutdown' \in {"done", shutdown}
        /\ panic' \in {"no", "pool", panic}
    BY <1>3 DEF HealthTick, ClosePool
  <2>. QED BY <1>0, <2>1, Elsewhere DEF RendererInv, TypeOK, pool, chromium
<1>4. CASE HealthCloses \/ HealthLaunches \/ CloseStarts
  <2>1. /\ UNCHANGED <<render, hostSem, pool, deaths, mu, panic>>
        /\ health' \in {"launch", "tick", health} /\ shutdown' \in {"browser", shutdown}
    BY <1>4 DEF HealthCloses, HealthLaunches, CloseStarts
  <2>2. /\ browser' \in 0 .. MaxBrowser /\ launched' \in 0 .. MaxBrowser
        /\ running' \subseteq 1 .. MaxBrowser
    BY <1>0, <1>4, BrowserType DEF HealthCloses, HealthLaunches, CloseStarts
  <2>. QED BY <1>0, <2>1, <2>2, Elsewhere DEF RendererInv, TypeOK, pool
<1>5. CASE BrowserDies
  <2>1. /\ UNCHANGED <<render, hostSem, pool, browser, launched, mu, health, shutdown, panic>>
        /\ running' \subseteq running
    BY <1>5 DEF BrowserDies
  <2>2. deaths' \in 0 .. MaxDeaths
    BY <1>0, <1>5, RendererAssumption DEF BrowserDies, TypeOK
  <2>. QED BY <1>0, <2>1, <2>2, Elsewhere DEF RendererInv, TypeOK, pool
<1>6. ASSUME NEW p \in Pages, PageAges(p) PROVE RendererInv'
  <2>1. /\ UNCHANGED <<render, hostSem, pagePool, chromium, mu, health, shutdown, panic>>
        /\ page[p].browser # 0 /\ page' = [page EXCEPT ![p].old = TRUE]
        /\ page \in [Pages -> [browser : 0 .. MaxBrowser, old : BOOLEAN]]
    BY <1>0, <1>6 DEF PageAges, TypeOK
  <2>2. /\ page' \in [Pages -> [browser : 0 .. MaxBrowser, old : BOOLEAN]]
        /\ \A q \in Pages : page'[q].browser = page[q].browser
        /\ \A q \in Pages : q # p => page'[q] = page[q]
    BY <2>1
  <2>3. \A q \in Pages : page'[q] = NoPageRow <=> page[q] = NoPageRow
    <3>1. page[p] # NoPageRow /\ page'[p] # NoPageRow
      BY <2>1, <2>2 DEF NoPageRow
    <3>. QED BY <2>2, <3>1
  <2>4. PagesInv'
    BY <1>0, <2>1, <2>2, <2>3, PagesQuiet
  <2>5. SlotsMatch'
    BY <1>0, <2>1, SlotsQuiet
  <2>. QED BY <1>0, <2>1, <2>2, <2>4, <2>5 DEF RendererInv, TypeOK, chromium
<1>. QED BY <1>1, <1>2, <1>3, <1>4, <1>5, <1>6 DEF Next

\* There are enough names for the pages the pool begins with.
LEMMA FirstPages ==
  \E s \in [1 .. PoolSize -> Pages] : IsInjective(s)
<1>0. /\ IsFiniteSet(Pages) /\ Cardinality(Pages) \in Nat /\ Cardinality(Callers) \in Nat
      /\ PoolSize \in Nat /\ PoolSize <= Cardinality(Pages)
  BY RendererAssumption, FS_CardinalityType
<1>1. PICK f \in Bijection(1 .. Cardinality(Pages), Pages) : TRUE
  BY <1>0, FS_CardinalityType DEF ExistsBijection
<1>2. /\ f \in [1 .. Cardinality(Pages) -> Pages]
      /\ \A a, b \in 1 .. Cardinality(Pages) : f[a] = f[b] => a = b
  BY <1>1 DEF Bijection, Injection, IsInjective
<1>. DEFINE s == [i \in 1 .. PoolSize |-> f[i]]
<1>3. \A i \in 1 .. PoolSize : i \in 1 .. Cardinality(Pages)
  BY <1>0
<1>4. s \in [1 .. PoolSize -> Pages]
  BY <1>2, <1>3
<1>5. IsInjective(s)
  BY <1>2, <1>3 DEF IsInjective
<1>. QED BY <1>4, <1>5

\* NewRenderer fills the pool; nobody renders yet.
LEMMA RendererInitially == Init => RendererInv
<1>. SUFFICES ASSUME Init PROVE RendererInv
  OBVIOUS
<1>0. /\ PoolSize \in Nat \ {0} /\ PerHostLimit \in Nat /\ MaxBrowser \in Nat \ {0}
      /\ MaxDeaths \in Nat /\ Enabled \in BOOLEAN /\ NoPage \notin Pages
      /\ NoCaller \notin Callers
  BY RendererAssumption
<1>1. /\ render \in [Callers -> [pc : {"idle"}, host : Hosts, page : {NoPage}]]
      /\ \A c \in Callers : render[c].pc = "idle" /\ render[c].page = NoPage
  BY DEF Init
<1>2. SlotsMatch
  <2>1. \A h \in Hosts : Rendering(h) = {}
    BY <1>1 DEF Rendering
  <2>. QED BY <2>1, FS_EmptySet DEF SlotsMatch, Init
<1>3. \E n \in {0, PoolSize} :
        /\ pagePool \in [1 .. n -> Pages] /\ IsInjective(pagePool)
        /\ page = [p \in Pages |-> IF \E i \in 1 .. n : pagePool[i] = p
                                   THEN [browser |-> 1, old |-> FALSE] ELSE NoPageRow]
  <2>1. CASE ~Enabled
    <3>1. pagePool = << >> /\ page = [p \in Pages |-> NoPageRow]
      BY <2>1 DEF Init
    <3>2. pagePool \in [1 .. 0 -> Pages] /\ IsInjective(pagePool)
      BY <3>1 DEF IsInjective
    <3>. QED BY <3>1, <3>2
  <2>2. CASE Enabled
    <3>. DEFINE first == CHOOSE s \in [1 .. PoolSize -> Pages] : IsInjective(s)
    <3>1. first \in [1 .. PoolSize -> Pages] /\ IsInjective(first)
      BY FirstPages
    <3>2. pagePool = first
          /\ page = [p \in Pages |-> IF \E i \in 1 .. PoolSize : first[i] = p
                                     THEN [browser |-> 1, old |-> FALSE] ELSE NoPageRow]
      BY <2>2 DEF Init
    <3>. HIDE DEF first
    <3>. QED BY <3>1, <3>2
  <2>. QED BY <2>1, <2>2
<1>4. PICK n \in {0, PoolSize} :
        /\ pagePool \in [1 .. n -> Pages] /\ IsInjective(pagePool)
        /\ page = [p \in Pages |-> IF \E i \in 1 .. n : pagePool[i] = p
                                   THEN [browser |-> 1, old |-> FALSE] ELSE NoPageRow]
  BY <1>3
<1>5. pagePool \in Seq(Pages) /\ Len(pagePool) = n /\ n <= PoolSize
  BY <1>0, <1>4
<1>6. PagesExclusive /\ PagesHeld
  BY <1>1, <1>4 DEF PagesExclusive, PagesHeld, Held, Working
<1>7. PagesKnown
  <2>1. \A p \in Pages : ~InUse(p) /\ (InPool(p) <=> \E i \in 1 .. n : pagePool[i] = p)
    BY <1>0, <1>1, <1>5 DEF InUse, InPool
  <2>. QED BY <1>4, <2>1 DEF PagesKnown, NoPageRow
<1>8. page \in [Pages -> [browser : 0 .. MaxBrowser, old : BOOLEAN]]
  BY <1>0, <1>4 DEF NoPageRow
<1>9. TypeOK
  <2>1. render \in [Callers -> [pc : RenderPC, host : Hosts, page : Pages \cup {NoPage}]]
    BY <1>1 DEF RenderPC
  <2>2. /\ hostSem \in [Hosts -> 0 .. PerHostLimit]
        /\ browser \in 0 .. MaxBrowser /\ launched \in 0 .. MaxBrowser
        /\ running \subseteq 1 .. MaxBrowser /\ deaths \in 0 .. MaxDeaths
        /\ mu \in Callers \cup {NoCaller} /\ health \in {"off", "tick", "close", "launch"}
        /\ shutdown \in {"no", "browser", "done"} /\ panic \in {"no", "load", "pool"}
    BY <1>0 DEF Init
  <2>. QED BY <1>5, <1>8, <2>1, <2>2 DEF TypeOK
<1>. QED BY <1>2, <1>6, <1>7, <1>9 DEF RendererInv, PagesInv

\* The invariant holds in every reachable state.
LEMMA RendererCorrect == Spec => []RendererInv
BY RendererInitially, RendererStep, PTL DEF Spec

\* renderer.go: through renders, restarts, health checks and Close, the state of the renderer
\* stays in its types; neither the pool nor a host's channel exceeds its capacity.
THEOREM RendererTypes == Spec => []TypeOK
<1>1. RendererInv => TypeOK
  BY DEF RendererInv
<1>. QED BY <1>1, RendererCorrect, PTL

\* renderer.go: acquireHost and releaseHostSem keep one token in the channel of a host
\* for every render under way, on every path through restarts, failures and Close.
THEOREM SlotsAreAccountedFor == Spec => []SlotsMatch
<1>1. RendererInv => SlotsMatch
  BY DEF RendererInv
<1>. QED BY <1>1, RendererCorrect, PTL

\* No two renders share a page, whatever browsers die or are restarted meanwhile.
THEOREM PagesAreExclusive == Spec => []PagesExclusive
<1>1. RendererInv => PagesExclusive
  BY DEF RendererInv, PagesInv
<1>. QED BY <1>1, RendererCorrect, PTL

\* No path of Render and no restart forgets an open page.
THEOREM NoPageIsForgotten == Spec => []NoPageLeak
<1>1. RendererInv => NoPageLeak
  <2>. SUFFICES ASSUME RendererInv, NEW p \in Pages, page[p].browser \in running
                PROVE  InPool(p) \/ \E c \in Held : render[c].page = p
    BY LenProperties DEF NoPageLeak, InPool, RendererInv, TypeOK
  <2>1. page[p].browser # 0 /\ NoPage \notin Pages
    BY RendererAssumption DEF RendererInv, TypeOK
  <2>2. InPool(p) \/ InUse(p)
    BY <2>1 DEF RendererInv, PagesInv, PagesKnown, NoPageRow
  <2>. QED BY <2>1, <2>2 DEF InUse, Held
<1>. QED BY <1>1, RendererCorrect, PTL

=============================================================================
