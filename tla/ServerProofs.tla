---------------------------- MODULE ServerProofs ----------------------------
(***************************************************************************)
(* The connections of the API's pool are accounted for, and the one way to *)
(* exhaust it for good is the one of SeedsWait, for any number of requests *)
(* and any size of the pool.  A reader gets the rows by id in order, and,  *)
(* once it has read to the end, all those of the beginning, whatever the   *)
(* size of a page and however many writers add rows meanwhile.             *)
(***************************************************************************)
EXTENDS Server, FiniteSetTheorems, FunctionTheorems, SequenceTheorems, TLAPS

PCs == {"idle", "begin"} \union TxPcs \union OwnPcs \union Answers

InTxSet == {r \in Requests : InTx(r)}
RunSet  == {r \in Requests : handler[r].run}

\* A statement that has a connection of its own is one that asks for it; only creators
\* begin a transaction; the dedupe cache is read for a seed, if
\* it is in use.
Roles ==
  \A r \in Requests :
    /\ handler[r].run => handler[r].pc \in OwnPcs
    /\ handler[r].pc \in TxPcs \union {"begin"} => r \in Creators
    /\ handler[r].pc = "seen" => DedupeCache /\ handler[r].left > 0

PoolInv == HandlerTypeOK /\ inUse \in Nat /\ Roles /\ ConnsMatch

\* The handlers other than that of r stay where they are.
Others(r) == \A q \in Requests \ {r} : handler'[q] = handler[q]

-----------------------------------------------------------------------------
\* What Goto does to the state of the handlers.
LEMMA Moved ==
  ASSUME HandlerTypeOK, NEW r \in Requests, NEW pc \in PCs, Goto(r, pc)
  PROVE  /\ HandlerTypeOK' /\ Others(r)
         /\ handler'[r].pc = pc /\ handler'[r].run = FALSE
BY DEF HandlerTypeOK, Goto, Others, PCs

\* Cardinalities of the sets ConnsMatch counts are natural numbers.
LEMMA Counted ==
  /\ IsFiniteSet(InTxSet) /\ Cardinality(InTxSet) \in Nat
  /\ IsFiniteSet(RunSet) /\ Cardinality(RunSet) \in Nat
<1>1. InTxSet \in SUBSET Requests /\ RunSet \in SUBSET Requests
  BY DEF InTxSet, RunSet
<1>2. IsFiniteSet(InTxSet) /\ IsFiniteSet(RunSet)
  BY <1>1, ServerAssumption, FS_Subset
<1> QED
  BY <1>2, FS_CardinalityType

\* A set of requests that is unchanged but for r grows or shrinks by r.
LEMMA OneElement ==
  ASSUME NEW S, IsFiniteSet(S), NEW T, NEW r,
         \A q : q # r => (q \in S <=> q \in T)
  PROVE  Cardinality(T) = Cardinality(S) + (IF r \in T THEN 1 ELSE 0) - (IF r \in S THEN 1 ELSE 0)
<1>0. Cardinality(S) \in Nat
  BY FS_CardinalityType
<1>1. CASE r \in S /\ r \in T
  <2>1. S = T
    BY <1>1
  <2> QED
    BY <1>0, <1>1, <2>1
<1>2. CASE r \notin S /\ r \notin T
  <2>1. S = T
    BY <1>2
  <2> QED
    BY <1>0, <1>2, <2>1
<1>3. CASE r \in S /\ r \notin T
  <2>1. T = S \ {r}
    BY <1>3
  <2>2. Cardinality(S \ {r}) = Cardinality(S) - 1
    BY <1>3, FS_RemoveElement
  <2> QED
    BY <1>0, <1>3, <2>1, <2>2
<1>4. CASE r \notin S /\ r \in T
  <2>1. T = S \cup {r}
    BY <1>4
  <2>2. Cardinality(S \cup {r}) = Cardinality(S) + 1
    BY <1>4, FS_AddElement
  <2> QED
    BY <1>0, <1>4, <2>1, <2>2
<1> QED
  BY <1>1, <1>2, <1>3, <1>4

\* If the pool changes by what one handler takes and gives back, the count stays right.
LEMMA Accounted ==
  ASSUME PoolInv, NEW r \in Requests, Others(r), HandlerTypeOK',
         inUse' = inUse + Held(r)' - Held(r),
         MaxOpen > 0 => inUse' <= MaxOpen
  PROVE  ConnsMatch' /\ inUse' \in Nat
<1>1. /\ Cardinality(InTxSet)' = Cardinality(InTxSet) + (IF r \in InTxSet' THEN 1 ELSE 0)
                                                      - (IF r \in InTxSet THEN 1 ELSE 0)
  <2>1. \A q : q # r => (q \in InTxSet <=> q \in InTxSet')
    BY DEF Others, InTxSet, InTx
  <2> QED
    BY <2>1, Counted, OneElement
<1>2. /\ Cardinality(RunSet)' = Cardinality(RunSet) + (IF r \in RunSet' THEN 1 ELSE 0)
                                                    - (IF r \in RunSet THEN 1 ELSE 0)
  <2>1. \A q : q # r => (q \in RunSet <=> q \in RunSet')
    BY DEF Others, RunSet
  <2> QED
    BY <2>1, Counted, OneElement
<1>3. /\ inUse = Cardinality(InTxSet) + Cardinality(RunSet)
      /\ r \in InTxSet <=> InTx(r)
      /\ r \in RunSet <=> handler[r].run
      /\ r \in InTxSet' <=> InTx(r)'
      /\ r \in RunSet' <=> handler'[r].run
  BY DEF PoolInv, ConnsMatch, InTxSet, RunSet
<1>4. inUse' = Cardinality(InTxSet)' + Cardinality(RunSet)'
  BY <1>1, <1>2, <1>3, Counted DEF Held
<1>5. Cardinality(InTxSet)' \in Nat /\ Cardinality(RunSet)' \in Nat
  <2>1. InTxSet' \in SUBSET Requests /\ RunSet' \in SUBSET Requests
    BY DEF InTxSet, RunSet
  <2>2. IsFiniteSet(InTxSet') /\ IsFiniteSet(RunSet')
    BY <2>1, ServerAssumption, FS_Subset
  <2> QED
    BY <2>2, FS_CardinalityType
<1> QED
  BY <1>4, <1>5 DEF ConnsMatch, InTxSet, RunSet

\* The connections of a request, from where its handler is.
LEMMA HeldType ==
  ASSUME PoolInv, NEW r \in Requests
  PROVE  /\ Held(r) \in 0 .. 2 /\ handler[r].run \in BOOLEAN /\ handler[r].pc \in PCs
         /\ InTx(r) /\ ~handler[r].run => Held(r) = 1
         /\ ~InTx(r) /\ ~handler[r].run => Held(r) = 0
         /\ InTx(r) /\ handler[r].run => Held(r) = 2
         /\ ~InTx(r) /\ handler[r].run => Held(r) = 1
BY DEF PoolInv, HandlerTypeOK, Held, PCs

\* A handler that takes no connection leaves the pool within its limit.
LEMMA GivesBack ==
  ASSUME PoolInv, NEW r \in Requests, Others(r), HandlerTypeOK',
         inUse' = inUse + Held(r)' - Held(r), Held(r)' \in Nat, Held(r)' <= Held(r)
  PROVE  ConnsMatch' /\ inUse' \in Nat
<1>1. MaxOpen > 0 => inUse' <= MaxOpen
  BY PoolAssumption, HeldType DEF PoolInv, ConnsMatch
<1> QED
  BY <1>1, Accounted

\* A handler that takes one had found one free.
LEMMA TakesOne ==
  ASSUME PoolInv, NEW r \in Requests, Others(r), HandlerTypeOK',
         Get, Held(r)' = Held(r) + 1
  PROVE  ConnsMatch' /\ inUse' \in Nat
<1>1. inUse' = inUse + Held(r)' - Held(r)
  BY HeldType DEF Get, PoolInv
<1>2. MaxOpen > 0 => inUse' <= MaxOpen
  BY PoolAssumption DEF Get, Free, PoolInv
<1> QED
  BY <1>1, <1>2, Accounted

\* An answer holds nothing.
LEMMA Answered ==
  ASSUME PoolInv, NEW r \in Requests, NEW pc \in Answers \union (OwnPcs \ {"seen"}),
         Goto(r, pc), Put(Held(r))
  PROVE  PoolInv'
<1>1. /\ HandlerTypeOK' /\ Others(r)
      /\ handler'[r].pc = pc /\ handler'[r].run = FALSE
  BY Moved DEF PoolInv, PCs
<1>2. Held(r)' = 0
  <2>1. pc \notin TxPcs
    BY DEF TxPcs, OwnPcs, Answers
  <2>2. ~InTx(r)'
    BY <1>1, <2>1 DEF InTx
  <2> QED
    BY <1>1, <2>2 DEF Held
<1>3. inUse' = inUse + Held(r)' - Held(r) /\ Held(r)' \in Nat /\ Held(r)' <= Held(r)
  BY <1>2, HeldType DEF Put, PoolInv
<1>4. ConnsMatch' /\ inUse' \in Nat
  BY <1>1, <1>3, GivesBack
<1>5. Roles'
  BY <1>1 DEF PoolInv, Roles, Others, TxPcs, OwnPcs, Answers
<1> QED
  BY <1>1, <1>4, <1>5 DEF PoolInv

\* Inside the transaction the handler goes from one statement to the next.
LEMMA StaysInTx ==
  ASSUME PoolInv, NEW r \in Requests, HandlerTypeOK', Others(r), InTx(r), InTx(r)',
         handler'[r].run = FALSE, handler'[r].pc = "seen" => DedupeCache /\ handler'[r].left > 0,
         inUse' = inUse - (IF handler[r].run THEN 1 ELSE 0)
  PROVE  PoolInv'
<1>1. Held(r)' = 1
  BY DEF Held
<1>2. inUse' = inUse + Held(r)' - Held(r) /\ Held(r)' <= Held(r)
  BY <1>1, HeldType DEF PoolInv
<1>3. ConnsMatch' /\ inUse' \in Nat
  BY <1>1, <1>2, GivesBack
<1>4. Roles'
  BY DEF PoolInv, Roles, Others, InTx
<1> QED
  BY <1>3, <1>4 DEF PoolInv

\* A request arrives: its handler starts and holds nothing.
LEMMA Arrives ==
  ASSUME PoolInv, NEW r \in Requests, handler[r].pc = "idle", UNCHANGED inUse,
         HandlerTypeOK', Others(r), handler'[r].run = FALSE,
         \/ handler'[r].pc = "begin" /\ r \in Creators
         \/ handler'[r].pc \in {"ping", "getJob", "page"}
  PROVE  PoolInv'
<1>1. ~InTx(r) /\ ~InTx(r)' /\ handler[r].run = FALSE
  <2>1. handler[r].run = FALSE
    BY DEF PoolInv, Roles, OwnPcs, HandlerTypeOK
  <2> QED
    BY <2>1 DEF InTx, TxPcs
<1>2. Held(r) = 0 /\ Held(r)' = 0
  BY <1>1 DEF Held
<1>3. inUse' = inUse + Held(r)' - Held(r)
  BY <1>2 DEF PoolInv
<1>4. ConnsMatch' /\ inUse' \in Nat
  BY <1>2, <1>3, GivesBack
<1>5. Roles'
  BY DEF PoolInv, Roles, Others, TxPcs, OwnPcs
<1> QED
  BY <1>4, <1>5 DEF PoolInv

\* What a handler holds outside of a transaction, when it runs a statement.
LEMMA RunsOwn ==
  ASSUME PoolInv, NEW r \in Requests
  PROVE  /\ handler[r].run /\ handler[r].pc \in OwnPcs \ {"seen"} => Held(r) = 1
         /\ handler[r].run /\ handler[r].pc = "seen" => Held(r) = 2
         /\ handler[r].pc \notin OwnPcs => handler[r].run = FALSE
<1>1. handler[r].pc \in OwnPcs \ {"seen"} => ~InTx(r)
  BY DEF InTx, OwnPcs, TxPcs
<1>2. handler[r].pc = "seen" => InTx(r)
  BY DEF InTx, TxPcs
<1>3. handler[r].pc \notin OwnPcs => handler[r].run = FALSE
  BY DEF PoolInv, Roles, HandlerTypeOK
<1> QED
  BY <1>1, <1>2, <1>3, HeldType

\* Every step of one request preserves the account.
LEMMA RequestStep ==
  ASSUME PoolInv, NEW r \in Requests, HandlerStep(r) \/ ClientStep(r) \/ StatementFails(r)
  PROVE  PoolInv'
<1>0. HandlerTypeOK
  BY DEF PoolInv
<1>1. CASE StartStatement(r)
  <2>1. /\ HandlerTypeOK' /\ Others(r)
        /\ handler'[r].pc = handler[r].pc /\ handler'[r].run = TRUE
        /\ handler'[r].left = handler[r].left
    BY <1>0, <1>1 DEF StartStatement, HandlerTypeOK, Others
  <2>2. handler[r].pc \in OwnPcs /\ handler[r].run = FALSE /\ Get
    BY <1>0, <1>1 DEF StartStatement, Waiting, HandlerTypeOK
  <2>3. Held(r)' = Held(r) + 1
    BY <2>1, <2>2 DEF Held, InTx
  <2>4. ConnsMatch' /\ inUse' \in Nat
    BY <2>1, <2>2, <2>3, TakesOne
  <2>5. Roles'
    BY <2>1, <2>2 DEF PoolInv, Roles, Others
  <2> QED
    BY <2>1, <2>4, <2>5 DEF PoolInv
<1>2. CASE Post(r)
  <2>1. PICK kind \in {"batch", "site"}, n \in 1 .. MaxSeeds :
          handler' = [handler EXCEPT ![r] = At("begin", kind, n, FALSE)]
    BY <1>2 DEF Post
  <2>3. HandlerTypeOK' /\ Others(r) /\ handler'[r].pc = "begin" /\ handler'[r].run = FALSE
    BY <1>0, <2>1, ServerAssumption DEF HandlerTypeOK, Others, At
  <2> QED
    BY <1>2, <2>3, Arrives DEF Post
<1>3. CASE BeginTx(r)
  <2>1. /\ HandlerTypeOK' /\ Others(r)
        /\ handler'[r].pc = "insertJob" /\ handler'[r].run = FALSE
    BY <1>0, <1>3, Moved DEF BeginTx, PCs, TxPcs
  <2>2. ~InTx(r) /\ handler[r].run = FALSE /\ InTx(r)'
    BY <1>3, <2>1, RunsOwn DEF BeginTx, InTx, TxPcs, OwnPcs
  <2>3. Held(r)' = Held(r) + 1
    BY <2>1, <2>2 DEF Held
  <2>4. ConnsMatch' /\ inUse' \in Nat
    BY <1>3, <2>1, <2>3, TakesOne DEF BeginTx
  <2>5. Roles'
    BY <1>3, <2>1 DEF BeginTx, PoolInv, Roles, Others
  <2> QED
    BY <2>1, <2>4, <2>5 DEF PoolInv
<1>4. CASE InsertJob(r) \/ EndOfSeeds(r) \/ InsertTasks(r)
  <2>1. PICK pc \in {"seeds", "insertTasks", "commit"} : Goto(r, pc)
    BY <1>4 DEF InsertJob, EndOfSeeds, InsertTasks
  <2>2. HandlerTypeOK' /\ Others(r) /\ handler'[r].pc = pc /\ handler'[r].run = FALSE
    BY <1>0, <2>1, Moved DEF PCs, TxPcs
  <2>3. handler[r].pc \in {"insertJob", "seeds", "insertTasks"} /\ inUse' = inUse
    BY <1>4 DEF InsertJob, EndOfSeeds, InsertTasks
  <2>4. InTx(r) /\ InTx(r)' /\ handler[r].run = FALSE
    BY <2>2, <2>3, RunsOwn DEF InTx, TxPcs, OwnPcs
  <2>5. inUse' = inUse - (IF handler[r].run THEN 1 ELSE 0)
    BY <2>3, <2>4 DEF PoolInv
  <2> QED
    BY <2>2, <2>4, <2>5, StaysInTx
<1>5. CASE NextSeed(r)
  <2>1. handler[r].pc = "seeds" /\ handler[r].left \in 1 .. MaxSeeds /\ inUse' = inUse
    BY <1>0, <1>5, ServerAssumption DEF NextSeed, HandlerTypeOK
  <2>2. handler[r].run = FALSE /\ InTx(r)
    BY <2>1, RunsOwn DEF InTx, TxPcs, OwnPcs
  <2>3. /\ HandlerTypeOK' /\ Others(r) /\ handler'[r].run = FALSE
        /\ handler'[r].pc \in {"seen", "seeds"} /\ (handler'[r].pc = "seen" => DedupeCache /\ handler'[r].left > 0)
    <3>1. CASE DedupeCache
      <4>1. Goto(r, "seen")
        BY <1>5, <3>1 DEF NextSeed
      <4>2. handler'[r].left = handler[r].left
        BY <1>0, <4>1 DEF Goto, HandlerTypeOK
      <4> QED
        <5>1. HandlerTypeOK' /\ Others(r) /\ handler'[r].run = FALSE /\ handler'[r].pc = "seen"
          BY <1>0, <4>1, Moved DEF PCs, TxPcs
        <5>2. handler'[r].left > 0
          BY <2>1, <4>2, ServerAssumption
        <5> QED
          BY <3>1, <5>1, <5>2
    <3>2. CASE ~DedupeCache
      <4>1. handler' = [handler EXCEPT ![r] = At("seeds", handler[r].kind, handler[r].left - 1, TRUE)]
        BY <1>5, <3>2 DEF NextSeed
      <4>2. handler[r].left - 1 \in 0 .. MaxSeeds
        BY <2>1, ServerAssumption
      <4> QED
        BY <1>0, <2>1, <2>2, <4>1, <4>2 DEF HandlerTypeOK, Others, At, TxPcs
    <3> QED
      BY <3>1, <3>2
  <2>4. InTx(r)'
    BY <2>3 DEF InTx, TxPcs
  <2>5. inUse' = inUse - (IF handler[r].run THEN 1 ELSE 0)
    BY <2>1, <2>2 DEF PoolInv
  <2> QED
    BY <2>2, <2>3, <2>4, <2>5, StaysInTx
<1>6. CASE SeedSeen(r)
  <2>1. PICK seen \in BOOLEAN :
          IF seen /\ handler[r].kind = "site"
          THEN Put(2) /\ Goto(r, "conflict")
          ELSE /\ Put(1)
               /\ handler' = [handler EXCEPT ![r] = At("seeds", @.kind, @.left - 1, @.kept \/ ~seen)]
    BY <1>6, Zenon DEF SeedSeen
  <2>2. handler[r].pc = "seen" /\ handler[r].run /\ Held(r) = 2 /\ InTx(r)
    BY <1>6, RunsOwn DEF SeedSeen, InTx, TxPcs
  <2>3. CASE seen /\ handler[r].kind = "site"
    BY <2>1, <2>2, <2>3, Answered DEF Answers
  <2>4. CASE ~(seen /\ handler[r].kind = "site")
    <3>1. handler[r].left - 1 \in 0 .. MaxSeeds /\ (handler[r].kept \/ ~seen) \in BOOLEAN
      <4>1. handler[r].left \in 0 .. MaxSeeds /\ handler[r].left > 0
        BY <1>0, <2>2 DEF HandlerTypeOK, PoolInv, Roles
      <4> QED
        BY <4>1, ServerAssumption
    <3>2. PICK n \in 0 .. MaxSeeds, b \in BOOLEAN :
            handler' = [handler EXCEPT ![r] = At("seeds", handler[r].kind, n, b)]
      BY <2>1, <2>4, <3>1, Zenon
    <3>3. HandlerTypeOK' /\ Others(r) /\ handler'[r].run = FALSE /\ handler'[r].pc = "seeds"
      BY <1>0, <3>2 DEF HandlerTypeOK, Others, TxPcs, At
    <3>4. InTx(r)'
      BY <3>3 DEF InTx, TxPcs
    <3>5. inUse' = inUse - (IF handler[r].run THEN 1 ELSE 0)
      BY <2>1, <2>2, <2>4 DEF Put
    <3> QED
      BY <2>2, <3>3, <3>4, <3>5, StaysInTx
  <2> QED
    BY <2>3, <2>4
<1>7. CASE CommitTx(r)
  <2>1. handler[r].run = FALSE /\ InTx(r)
    BY <1>7, RunsOwn DEF CommitTx, InTx, TxPcs, OwnPcs
  <2>2. Held(r) = 1
    BY <2>1, HeldType
  <2> QED
    BY <1>7, <2>2, Answered DEF CommitTx, Answers
<1>8. CASE Ask(r)
  <2>1. PICK kind \in Reads :
          handler' = [handler EXCEPT ![r] = At(First(kind), kind, 0, FALSE)]
    BY <1>8 DEF Ask
  <2>2. First(kind) \in {"ping", "getJob", "page"} /\ kind \in ReadKinds
    BY ServerAssumption DEF First, ReadKinds
  <2>4. /\ HandlerTypeOK' /\ Others(r)
        /\ handler'[r].pc = First(kind) /\ handler'[r].run = FALSE
    BY <1>0, <2>1, <2>2, ServerAssumption DEF HandlerTypeOK, Others, OwnPcs, At
  <2> QED
    BY <1>8, <2>2, <2>4, Arrives DEF Ask
<1>9. CASE Ping(r)
  BY <1>9, Answered DEF Ping, Answers
<1>10. CASE JobFound(r) \/ Stats(r) \/ TakePage(r)
  <2>1. handler[r].run /\ handler[r].pc \in OwnPcs \ {"seen"} /\ Put(1)
    BY <1>10 DEF JobFound, Stats, TakePage, OwnPcs
  <2>2. PICK pc \in Answers \union (OwnPcs \ {"seen"}) : Goto(r, pc)
    BY <1>10 DEF JobFound, Stats, TakePage, OwnPcs, Answers
  <2> QED
    BY <2>1, <2>2, RunsOwn, Answered
<1>11. CASE FollowCursor(r)
  <2>1. handler[r].pc = "ok" /\ inUse' = inUse
    BY <1>11 DEF FollowCursor
  <2>2. Held(r) = 0
    BY <2>1, RunsOwn, HeldType DEF InTx, TxPcs, OwnPcs
  <2>3. Put(Held(r))
    BY <2>1, <2>2 DEF Put, PoolInv
  <2>4. First(handler[r].kind) \in OwnPcs \ {"seen"}
    BY <1>11 DEF FollowCursor, First, OwnPcs
  <2> QED
    BY <1>11, <2>3, <2>4, Answered DEF FollowCursor
<1>12. CASE StatementFails(r)
  <2>1. PICK pc \in {"not found", "error"} : Goto(r, pc)
    BY <1>12 DEF StatementFails
  <2> QED
    BY <1>12, <2>1, Answered DEF StatementFails, Answers
<1> QED
  BY <1>1, <1>2, <1>3, <1>4, <1>5, <1>6, <1>7, <1>8, <1>9, <1>10, <1>11, <1>12
  DEF HandlerStep, ClientStep

-----------------------------------------------------------------------------
\* Initially nothing is held.
LEMMA PoolInit0 == Init => PoolInv
<1> SUFFICES ASSUME Init PROVE PoolInv
  OBVIOUS
<1>1. HandlerTypeOK /\ inUse = 0 /\ Roles
  BY ServerAssumption DEF Init, PoolInit, At, HandlerTypeOK, Roles, TxPcs, OwnPcs
<1>2. InTxSet = {} /\ RunSet = {}
  BY DEF Init, At, InTxSet, RunSet, InTx, TxPcs
<1>3. inUse = Cardinality(InTxSet) + Cardinality(RunSet)
  BY <1>1, <1>2, FS_EmptySet
<1> QED
  BY <1>1, <1>3, PoolAssumption DEF PoolInv, ConnsMatch, InTxSet, RunSet

\* The account is kept by every step.
LEMMA PoolStep == PoolInv /\ [Next]_vars => PoolInv'
<1> SUFFICES ASSUME PoolInv, [Next]_vars PROVE PoolInv'
  OBVIOUS
<1>1. CASE UNCHANGED <<handler, inUse>>
  BY <1>1 DEF PoolInv, HandlerTypeOK, Roles, ConnsMatch, InTx
<1>2. ASSUME NEW r \in Requests, HandlerStep(r) \/ ClientStep(r) \/ StatementFails(r)
      PROVE  PoolInv'
  BY <1>2, RequestStep
<1> QED
  BY <1>1, <1>2 DEF Next, vars

LEMMA PoolInvariant == Spec => []PoolInv
BY PoolInit0, PoolStep, PTL DEF Spec

-----------------------------------------------------------------------------
\* The creators that wait for a second connection while they hold their first.
SeedWaiters == {r \in Creators : handler[r].pc = "seen" /\ ~handler[r].run}

\* They are among those that hold a transaction.
LEMMA WaitersHold ==
  ASSUME PoolInv
  PROVE  /\ IsFiniteSet(SeedWaiters) /\ Cardinality(SeedWaiters) \in Nat
         /\ Cardinality(SeedWaiters) <= inUse
         /\ MaxOpen > 0 => Cardinality(SeedWaiters) <= MaxOpen
<1>1. SeedWaiters \in SUBSET InTxSet
  BY DEF SeedWaiters, InTxSet, InTx, TxPcs, Requests
<1>2. IsFiniteSet(SeedWaiters) /\ Cardinality(SeedWaiters) <= Cardinality(InTxSet)
  BY <1>1, Counted, FS_Subset
<1>3. Cardinality(SeedWaiters) \in Nat
  BY <1>2, FS_CardinalityType
<1>4. inUse = Cardinality(InTxSet) + Cardinality(RunSet) /\ (MaxOpen > 0 => inUse <= MaxOpen)
  BY DEF PoolInv, ConnsMatch, InTxSet, RunSet
<1> QED
  BY <1>2, <1>3, <1>4, Counted, PoolAssumption DEF PoolInv

LEMMA WaitersHoldNext ==
  PoolInv' => (MaxOpen > 0 => /\ IsFiniteSet(SeedWaiters) /\ Cardinality(SeedWaiters) \in Nat
                              /\ Cardinality(SeedWaiters) <= MaxOpen)'
<1>1. PoolInv => (MaxOpen > 0 => /\ IsFiniteSet(SeedWaiters) /\ Cardinality(SeedWaiters) \in Nat
                                 /\ Cardinality(SeedWaiters) <= MaxOpen)
  BY WaitersHold
<1> QED
  BY <1>1, PTL

\* ConnsMatch: the handlers' connections are all there is out (jobs.go:28-77).
THEOREM ConnectionsAreCounted == Spec => []ConnsMatch
BY PoolInvariant, PTL DEF PoolInv

\* StuckMeansSeedsWait: if all of the pool is held by requests that wait for it, those
\* are creators in the loop over their seeds (jobs.go:46).
LEMMA StuckIsSeedsWait == PoolInv => StuckMeansSeedsWait
<1> SUFFICES ASSUME PoolInv, ~Free, \A r \in Requests : Held(r) > 0 => Waiting(r)
             PROVE  SeedsWait
  BY DEF StuckMeansSeedsWait
<1>1. ASSUME NEW r \in Requests
      PROVE  ~handler[r].run /\ (InTx(r) => handler[r].pc = "seen" /\ r \in Creators)
  <2>1. handler[r].run => Held(r) > 0
    BY HeldType
  <2>2. handler[r].run = FALSE
    BY <2>1, HeldType DEF Waiting
  <2>3. InTx(r) => Waiting(r)
    BY <2>2, HeldType
  <2> QED
    BY <2>2, <2>3 DEF Waiting, InTx, TxPcs, OwnPcs, PoolInv, Roles
<1>2. RunSet = {} /\ InTxSet = SeedWaiters
  BY <1>1 DEF RunSet, InTxSet, SeedWaiters, Requests, InTx, TxPcs
<1>3. Cardinality(RunSet) = 0
  BY <1>2, FS_EmptySet
<1>4. inUse = Cardinality(SeedWaiters)
  <2>1. inUse = Cardinality(InTxSet) + Cardinality(RunSet)
    BY DEF PoolInv, ConnsMatch, InTxSet, RunSet
  <2> QED
    BY <1>2, <1>3, <2>1, Counted
<1> QED
  BY <1>4, PoolAssumption DEF Free, SeedsWait, SeedWaiters, PoolInv, ConnsMatch

\* When no connection is free and every request that holds one waits for another, all of
\* them are creators at a dedupe lookup of their seeds (jobs.go:46).
THEOREM StuckOnlyOnSeeds == Spec => []StuckMeansSeedsWait
BY PoolInvariant, StuckIsSeedsWait, PTL

\* A step of a request leaves the other handlers where they are.
LEMMA StepIsLocal ==
  ASSUME HandlerTypeOK, NEW r \in Requests, HandlerStep(r) \/ ClientStep(r) \/ StatementFails(r)
  PROVE  Others(r)
<1>1. \E x : handler' = [handler EXCEPT ![r] = x]
  <2>1. ASSUME NEW pc, Goto(r, pc)
        PROVE  \E x : handler' = [handler EXCEPT ![r] = x]
    BY <2>1 DEF Goto
  <2> QED
    BY <2>1 DEF HandlerStep, ClientStep, StartStatement, Post, BeginTx, InsertJob, NextSeed, SeedSeen,
       EndOfSeeds, InsertTasks, CommitTx, Ask, Ping, JobFound, Stats, TakePage, FollowCursor,
       StatementFails
<1> QED
  BY <1>1 DEF HandlerTypeOK, Others

\* SeedsWaitLasts: with no connection free, nothing moves a creator that waits for one.
LEMMA SeedsWaitStep ==
  ASSUME PoolInv, PoolInv', [Next]_vars, SeedsWait
  PROVE  SeedsWait'
<1>1. MaxOpen > 0 /\ Cardinality(SeedWaiters) = MaxOpen /\ ~Free
  BY WaitersHold, PoolAssumption DEF SeedsWait, SeedWaiters, Free, PoolInv, ConnsMatch
<1>2. ASSUME NEW q \in SeedWaiters
      PROVE  handler'[q] = handler[q]
  <2>1. q \in Requests /\ handler[q].pc = "seen" /\ ~handler[q].run
    BY DEF SeedWaiters, Requests
  <2>2. ~HandlerStep(q) /\ ~ClientStep(q) /\ ~StatementFails(q)
    BY <1>1, <2>1 DEF HandlerStep, ClientStep, StatementFails, AtStatement, StartStatement, Post,
       BeginTx, InsertJob, NextSeed, SeedSeen, EndOfSeeds, InsertTasks, CommitTx, Ask, Ping,
       JobFound, Stats, TakePage, FollowCursor, Get
  <2>3. ASSUME NEW r \in Requests, HandlerStep(r) \/ ClientStep(r) \/ StatementFails(r)
        PROVE  handler'[q] = handler[q]
    BY <2>1, <2>2, <2>3, StepIsLocal DEF Others, PoolInv
  <2> QED
    BY <2>3 DEF Next, vars
<1>3. SeedWaiters \in SUBSET SeedWaiters'
  BY <1>2 DEF SeedWaiters
<1>4. IsFiniteSet(SeedWaiters') /\ Cardinality(SeedWaiters)' \in Nat /\ Cardinality(SeedWaiters)' <= MaxOpen
  BY <1>1, WaitersHoldNext
<1>5. Cardinality(SeedWaiters) <= Cardinality(SeedWaiters)'
  BY <1>3, <1>4, FS_Subset
<1> QED
  BY <1>1, <1>4, <1>5, PoolAssumption DEF SeedsWait, SeedWaiters

\* No step of anybody ends a wait of as many creators as there are connections for each
\* other: the context of a handler has no time limit (jobs.go:46).
THEOREM SeedsWaitForGood == Spec => SeedsWaitLasts
<1>1. PoolInv /\ PoolInv' /\ [Next]_vars => [SeedsWait => SeedsWait']_vars
  BY SeedsWaitStep
<1> QED
  BY <1>1, PoolInvariant, PTL DEF Spec, SeedsWaitLasts

\* The pool is never exhausted for good if the dedupe cache is off, or if there are more
\* connections than requests that create jobs: whenever no connection is free, a request
\* that holds one can go on (jobs.go:27,46; db.go:18).
THEOREM EnoughConnections ==
  ASSUME ~DedupeCache \/ MaxOpen > Cardinality(Creators)
  PROVE  Spec => [](~Free => \E r \in Requests : Held(r) > 0 /\ ~Waiting(r))
<1>1. PoolInv => ~SeedsWait
  <2> SUFFICES ASSUME PoolInv, SeedsWait PROVE FALSE
    OBVIOUS
  <2>1. CASE ~DedupeCache
    <3>1. SeedWaiters = {}
      BY <2>1 DEF SeedWaiters, Requests, PoolInv, Roles
    <3> QED
      BY <3>1, FS_EmptySet, PoolAssumption DEF SeedsWait, SeedWaiters
  <2>2. CASE MaxOpen > Cardinality(Creators)
    <3>1. IsFiniteSet(Creators)
      BY ServerAssumption, FS_Subset DEF Requests
    <3>2. SeedWaiters \in SUBSET Creators
      BY DEF SeedWaiters
    <3>3. Cardinality(SeedWaiters) <= Cardinality(Creators) /\ Cardinality(Creators) \in Nat
      BY <3>1, <3>2, FS_Subset, FS_CardinalityType
    <3> QED
      BY <2>2, <3>3, PoolAssumption, WaitersHold DEF SeedsWait, SeedWaiters
  <2> QED
    BY <2>1, <2>2
<1>2. PoolInv => (~Free => \E r \in Requests : Held(r) > 0 /\ ~Waiting(r))
  BY <1>1, StuckIsSeedsWait DEF StuckMeansSeedsWait
<1> QED
  BY <1>2, PoolInvariant, PTL

-----------------------------------------------------------------------------
(* The order of a page. *)

\* sort puts the rows one after the other.
Orders(sort, rows) ==
  /\ \A i \in rows : ~Before(i, i, sort)
  /\ \A i, j \in rows : i # j => Before(i, j, sort) \/ Before(j, i, sort)
  /\ \A i, j, k \in rows : Before(i, j, sort) /\ Before(j, k, sort) => Before(i, k, sort)

\* By id, a row comes before those of a larger id, or of a smaller one.
LEMMA BeforeById ==
  ASSUME orderColumn = "id", NEW i, NEW j, NEW sort
  PROVE  Before(i, j, sort) <=> IF sort = "desc" THEN j < i ELSE i < j
BY DEF Before

\* By time, it comes before those that are younger, and the id decides between equals.
LEMMA BeforeIsOrder ==
  ASSUME NEW sort, NEW rows \in SUBSET Nat, \A i \in rows : created_at(i) \in Nat
  PROVE  Orders(sort, rows)
<1>1. CASE orderColumn = "id"
  <2>1. \A i, j \in rows : Before(i, j, sort) <=> IF sort = "desc" THEN j < i ELSE i < j
    BY <1>1, BeforeById
  <2> QED
    BY <2>1 DEF Orders
<1>2. CASE orderColumn = "created_at"
  <2> DEFINE ascending(a, b) == created_at(a) < created_at(b) \/ (created_at(a) = created_at(b) /\ a < b)
  <2>1. \A i, j \in rows : Before(i, j, sort) <=> IF sort = "desc" THEN ascending(j, i) ELSE ascending(i, j)
    BY <1>2 DEF Before
  <2> QED
    BY <2>1 DEF Orders
<1> QED
  BY <1>1, <1>2 DEF orderColumn

\* The rank of a row is the number of some of the others.
LEMMA RankType ==
  ASSUME NEW sort, NEW rows, Orders(sort, rows), IsFiniteSet(rows), NEW i \in rows
  PROVE  Rank(i, rows, sort) \in 0 .. Cardinality(rows) - 1
<1> DEFINE earlier == {k \in rows : Before(k, i, sort)}
<1>1. earlier \in SUBSET (rows \ {i})
  BY DEF Orders
<1>2. IsFiniteSet(rows \ {i}) /\ Cardinality(rows \ {i}) = Cardinality(rows) - 1
  BY FS_RemoveElement
<1>3. IsFiniteSet(earlier) /\ Cardinality(earlier) <= Cardinality(rows) - 1
  BY <1>1, <1>2, FS_Subset
<1>4. Cardinality(earlier) \in Nat /\ Cardinality(rows) \in Nat
  BY <1>3, FS_CardinalityType
<1> QED
  BY <1>3, <1>4 DEF Rank

\* A later row has the larger rank.
LEMMA RankGrows ==
  ASSUME NEW sort, NEW rows, Orders(sort, rows), IsFiniteSet(rows),
         NEW i \in rows, NEW j \in rows, Before(i, j, sort)
  PROVE  Rank(i, rows, sort) < Rank(j, rows, sort)
<1> DEFINE earlier(x) == {k \in rows : Before(k, x, sort)}
<1>1. earlier(i) \union {i} \in SUBSET earlier(j) /\ i \notin earlier(i)
  BY DEF Orders
<1>2. earlier(i) \in SUBSET rows /\ earlier(j) \in SUBSET rows
  OBVIOUS
<1>3. IsFiniteSet(earlier(i)) /\ IsFiniteSet(earlier(j))
  BY <1>2, FS_Subset
<1>4. Cardinality(earlier(i) \union {i}) = Cardinality(earlier(i)) + 1
  BY <1>1, <1>3, FS_AddElement
<1>5. Cardinality(earlier(i) \union {i}) <= Cardinality(earlier(j))
  BY <1>1, <1>3, FS_Subset
<1>6. Cardinality(earlier(i)) \in Nat /\ Cardinality(earlier(j)) \in Nat
  BY <1>3, FS_CardinalityType
<1> QED
  BY <1>4, <1>5, <1>6 DEF Rank

\* There are as many ranks as rows, so that every one is that of a row.
LEMMA RankOfSome ==
  ASSUME NEW sort, NEW rows, Orders(sort, rows), IsFiniteSet(rows),
         NEW n \in 0 .. Cardinality(rows) - 1
  PROVE  \E i \in rows : Rank(i, rows, sort) = n
<1> DEFINE ranks == 0 .. Cardinality(rows) - 1
           rank  == [i \in rows |-> Rank(i, rows, sort)]
<1>1. Cardinality(rows) \in Nat
  BY FS_CardinalityType
<1>2. rank \in [rows -> ranks]
  BY RankType
<1>3. ASSUME NEW i \in rows, NEW j \in rows, rank[i] = rank[j]
      PROVE  i = j
  <2>1. ~(Rank(i, rows, sort) < Rank(j, rows, sort)) /\ ~(Rank(j, rows, sort) < Rank(i, rows, sort))
    BY <1>1, <1>3, RankType
  <2>2. ~Before(i, j, sort) /\ ~Before(j, i, sort)
    BY <2>1, RankGrows
  <2> QED
    BY <2>2 DEF Orders
<1>4. rank \in Injection(rows, ranks)
  BY <1>2, <1>3, Fun_IsInj
<1>5. IsFiniteSet(ranks) /\ Cardinality(ranks) = Cardinality(rows)
  BY <1>1, FS_Interval
<1>6. rank \in Surjection(rows, ranks)
  BY <1>4, <1>5, FS_Injection
<1>7. \A m \in ranks : \E i \in rows : rank[i] = m
  <2> HIDE DEF rank, ranks
  <2> QED
    BY <1>6, Fun_SurjectionProperties
<1> QED
  BY <1>7

\* What ORDER BY returns: the rows, each of them once, in their order.
LEMMA SortedRows ==
  ASSUME NEW sort, NEW rows, Orders(sort, rows), IsFiniteSet(rows)
  PROVE  /\ Sorted(rows, sort) \in Seq(rows) /\ Len(Sorted(rows, sort)) = Cardinality(rows)
         /\ \A i \in rows : \E n \in 1 .. Cardinality(rows) : Sorted(rows, sort)[n] = i
         /\ \A m, n \in 1 .. Cardinality(rows) :
              m < n => Before(Sorted(rows, sort)[m], Sorted(rows, sort)[n], sort)
<1> DEFINE s == Sorted(rows, sort)
           size == Cardinality(rows)
<1>1. size \in Nat
  BY FS_CardinalityType
<1>2. ASSUME NEW n \in 1 .. size
      PROVE  s[n] \in rows /\ Rank(s[n], rows, sort) = n - 1
  <2>1. s[n] = CHOOSE i \in rows : Rank(i, rows, sort) = n - 1
    BY DEF Sorted
  <2>2. \E i \in rows : Rank(i, rows, sort) = n - 1
    BY <1>1, RankOfSome
  <2> QED
    BY <2>1, <2>2
<1>3. s \in [1 .. size -> rows]
  BY <1>2 DEF Sorted
<1>4. s \in Seq(rows) /\ Len(s) = size
  BY <1>1, <1>3
<1> HIDE DEF s
<1>5. ASSUME NEW i \in rows, NEW j \in rows, Rank(i, rows, sort) <= Rank(j, rows, sort), i # j
      PROVE  Before(i, j, sort)
  <2>1. ~(Rank(j, rows, sort) < Rank(i, rows, sort))
    BY <1>1, <1>5, RankType
  <2>2. ~Before(j, i, sort)
    BY <2>1, RankGrows
  <2> QED
    BY <1>5, <2>2 DEF Orders
<1>6. ASSUME NEW i \in rows
      PROVE  \E n \in 1 .. size : s[n] = i
  <2>1. Rank(i, rows, sort) + 1 \in 1 .. size
    BY <1>1, RankType
  <2>2. PICK n \in 1 .. size : n = Rank(i, rows, sort) + 1
    BY <2>1
  <2>3. Rank(s[n], rows, sort) = Rank(i, rows, sort) /\ s[n] \in rows
    BY <1>1, <1>2, <2>2, RankType
  <2>4. ~(Rank(s[n], rows, sort) < Rank(i, rows, sort)) /\ ~(Rank(i, rows, sort) < Rank(s[n], rows, sort))
    BY <1>1, <2>3, RankType
  <2>5. ~Before(s[n], i, sort) /\ ~Before(i, s[n], sort)
    BY <2>3, <2>4, RankGrows
  <2>6. s[n] = i
    BY <2>3, <2>5 DEF Orders
  <2> QED
    BY <2>6
<1>7. ASSUME NEW m \in 1 .. size, NEW n \in 1 .. size, m < n
      PROVE  Before(s[m], s[n], sort)
  <2>1. Rank(s[m], rows, sort) < Rank(s[n], rows, sort)
    BY <1>1, <1>2, <1>7
  <2>2. s[m] # s[n] /\ Rank(s[m], rows, sort) <= Rank(s[n], rows, sort)
    BY <1>1, <1>2, <2>1, RankType
  <2> QED
    BY <1>2, <1>5, <2>2
<1> QED
  BY <1>4, <1>6, <1>7 DEF s

-----------------------------------------------------------------------------
(* The rows a page is made of. *)

\* The ids that were given out are below the next one.
RowsInv ==
  /\ PagingTypeOK
  /\ \A w \in Writers : \A i \in txn[w].ids : i < nextRow

LEMMA RowsInit == Init => RowsInv
<1> SUFFICES ASSUME Init PROVE RowsInv
  OBVIOUS
<1>1. txn = [w \in Writers |-> [pc |-> "idle", ids |-> {}, began |-> 0]] /\ nextRow = 1 /\ gone = FALSE
  BY DEF Init, PagingInit
<1>2. txn \in [Writers -> [pc : {"idle", "open", "committed", "aborted"}, ids : SUBSET (Nat \ {0}), began : Nat]]
  BY <1>1
<1>3. \A w \in Writers : txn[w].ids = {}
  BY <1>1
<1>4. nextRow \in Nat \ {0}
  BY <1>1
<1>5. gone \in BOOLEAN
  BY <1>1, Zenon
<1> QED
  BY <1>2, <1>3, <1>4, <1>5 DEF RowsInv, PagingTypeOK

\* Only the writers change the rows.
LEMMA RequestsKeepRows ==
  ASSUME NEW r \in Requests, HandlerStep(r) \/ ClientStep(r) \/ StatementFails(r)
  PROVE  UNCHANGED pagingVars
<1>1. CASE ClientStep(r) \/ StatementFails(r)
  BY <1>1 DEF ClientStep, StatementFails, Post, Ask, FollowCursor, RowsAndFaults, pagingVars
<1>2. CASE StartStatement(r) \/ BeginTx(r) \/ InsertJob(r) \/ NextSeed(r) \/ SeedSeen(r) \/ EndOfSeeds(r)
  BY <1>2 DEF StartStatement, BeginTx, InsertJob, NextSeed, SeedSeen, EndOfSeeds, RowsAndFaults, pagingVars
<1>3. CASE InsertTasks(r) \/ CommitTx(r) \/ Ping(r) \/ JobFound(r) \/ Stats(r) \/ TakePage(r)
  BY <1>3 DEF InsertTasks, CommitTx, Ping, JobFound, Stats, TakePage, RowsAndFaults, pagingVars
<1> QED
  BY <1>1, <1>2, <1>3 DEF HandlerStep

LEMMA RowsStep == RowsInv /\ [Next]_vars => RowsInv'
<1> SUFFICES ASSUME RowsInv, [Next]_vars PROVE RowsInv'
  OBVIOUS
<1>1. CASE UNCHANGED pagingVars
  BY <1>1 DEF RowsInv, PagingTypeOK, pagingVars
<1>2. ASSUME NEW w \in Writers, Begin(w)
      PROVE  RowsInv'
  <2> DEFINE running == {v \in Writers : txn[v].pc # "idle"}
  <2>1. IsFiniteSet(running)
    BY PagingAssumption, FS_Subset
  <2>2. 1 + Cardinality(running) \in Nat
    BY <2>1, FS_CardinalityType
  <2>3. PICK n \in Nat : txn' = [txn EXCEPT ![w].pc = "open", ![w].began = n]
    BY <1>2, <2>2 DEF Begin
  <2>4. txn' \in [Writers -> [pc : {"idle", "open", "committed", "aborted"}, ids : SUBSET (Nat \ {0}), began : Nat]]
    BY <2>3 DEF RowsInv, PagingTypeOK
  <2>5. \A v \in Writers : txn'[v].ids = txn[v].ids
    BY <2>3 DEF RowsInv, PagingTypeOK
  <2> QED
    BY <1>2, <2>4, <2>5 DEF Begin, RowsInv, PagingTypeOK
<1>3. ASSUME NEW w \in Writers, InsertRow(w)
      PROVE  RowsInv'
  BY <1>3 DEF InsertRow, RowsInv, PagingTypeOK
<1>4. ASSUME NEW w \in Writers, Commit(w) \/ Rollback(w)
      PROVE  RowsInv'
  BY <1>4 DEF Commit, Rollback, RowsInv, PagingTypeOK
<1>5. CASE DeleteJob
  BY <1>5 DEF DeleteJob, RowsInv, PagingTypeOK
<1> QED
  BY <1>1, <1>2, <1>3, <1>4, <1>5, RequestsKeepRows DEF Next, WriterStep, vars

\* The rows that are stored can be put in order.
LEMMA StoredRows ==
  ASSUME RowsInv
  PROVE  /\ Stored \in SUBSET (Nat \ {0}) /\ IsFiniteSet(Stored)
         /\ \A i \in Stored : created_at(i) \in Nat
<1>1. ASSUME NEW i \in Stored
      PROVE  \E w \in Writers : i \in txn[w].ids
  BY DEF Stored
<1>2. ASSUME NEW i \in Stored
      PROVE  i \in Nat \ {0} /\ i <= nextRow
  BY <1>1 DEF RowsInv, PagingTypeOK
<1>3. ASSUME NEW i \in Stored
      PROVE  created_at(i) \in Nat
  BY <1>1 DEF created_at, RowsInv, PagingTypeOK
<1>4. IsFiniteSet(Stored)
  BY <1>2, FS_BoundedSetOfNaturals DEF RowsInv, PagingTypeOK
<1> QED
  BY <1>2, <1>3, <1>4

\* ListDocuments and its like: a page is in order, and what is left out of the rows
\* after the cursor comes after all of it.
LEMMA PageIsFirst ==
  ASSUME RowsInv, NEW cursor, NEW sort, NEW page, page = PageOf(cursor, sort)
  PROVE  /\ page \in Seq(After(cursor, sort))
         /\ \A m, n \in 1 .. Len(page) : m < n => Before(page[m], page[n], sort)
         /\ page = <<>> => After(cursor, sort) = {}
         /\ page # <<>> => \A i \in After(cursor, sort) \ ToSet(page) : Before(Last(page), i, sort)
<1> DEFINE all   == After(cursor, sort)
           first == {i \in all : Rank(i, all, sort) < Limit}
<1>1. all \in SUBSET Stored
  BY DEF After
<1>2. IsFiniteSet(all) /\ Orders(sort, all)
  <2>1. all \in SUBSET Nat /\ \A i \in all : created_at(i) \in Nat
    BY <1>1, StoredRows
  <2> QED
    BY <1>1, <2>1, StoredRows, FS_Subset, BeforeIsOrder
<1>3. first \in SUBSET all
  OBVIOUS
<1>4. IsFiniteSet(first) /\ Orders(sort, first)
  BY <1>2, <1>3, FS_Subset DEF Orders
<1>5. page = Sorted(first, sort)
  BY DEF PageOf
<1>6. Limit \in Nat /\ Limit > 0
  BY PagingAssumption
<1> HIDE DEF all, first
<1>7. /\ page \in Seq(first) /\ Len(page) = Cardinality(first)
      /\ \A i \in first : \E n \in 1 .. Cardinality(first) : page[n] = i
      /\ \A m, n \in 1 .. Cardinality(first) : m < n => Before(page[m], page[n], sort)
  BY <1>4, <1>5, SortedRows
<1>8. page \in Seq(all)
  BY <1>3, <1>7, SeqMonotonic
<1>9. ASSUME page = <<>>
      PROVE  all = {}
  <2>1. first = {}
    BY <1>7, <1>9
  <2> SUFFICES ASSUME all # {} PROVE FALSE
    OBVIOUS
  <2>2. Cardinality(all) \in Nat /\ Cardinality(all) # 0
    BY <1>2, FS_EmptySet, FS_CardinalityType
  <2>3. PICK i \in all : Rank(i, all, sort) = 0
    BY <1>2, <2>2, RankOfSome
  <2> QED
    BY <1>6, <2>1, <2>3 DEF first
<1>10. ASSUME page # <<>>, NEW i \in all \ ToSet(page)
       PROVE  Before(Last(page), i, sort)
  <2>1. Len(page) \in Nat /\ DOMAIN page = 1 .. Len(page) /\ Len(page) # 0
    BY <1>7, <1>10
  <2>2. Last(page) = page[Len(page)] /\ Last(page) \in first
    BY <1>7, <2>1 DEF Last
  <2>3. i \notin first
    BY <1>7, <1>10, <2>1 DEF ToSet
  <2>4. Rank(Last(page), all, sort) < Limit /\ ~(Rank(i, all, sort) < Limit)
    BY <2>2, <2>3 DEF first
  <2>5. ~(Rank(i, all, sort) < Rank(Last(page), all, sort)) /\ Last(page) # i
    <3>1. Rank(i, all, sort) \in Nat /\ Rank(Last(page), all, sort) \in Nat
      BY <1>2, <1>3, <2>2, RankType, FS_CardinalityType
    <3> QED
      BY <1>6, <2>2, <2>3, <2>4, <3>1
  <2>6. ~Before(i, Last(page), sort)
    BY <1>2, <1>3, <2>2, <2>5, RankGrows
  <2> QED
    BY <1>2, <1>3, <2>2, <2>5, <2>6 DEF Orders
<1> QED
  BY <1>7, <1>8, <1>9, <1>10 DEF all

-----------------------------------------------------------------------------
(* What the readers have been given. *)

\* What a reader asks for decides what its handler comes to.
KindInv(r) ==
  /\ handler[r].pc = "ping" => handler[r].kind = "ready"
  /\ handler[r].pc = "stats" => handler[r].kind = "status"
  /\ handler[r].kind = "ready" => handler[r].pc \notin {"getJob", "page", "stats"}
  /\ handler[r].kind = "status" => handler[r].pc # "page"
  /\ handler[r].kind \in {"ready", "status"} => reading[r].cursor = 0

\* The rows that were given are in order and none comes after the cursor; those of the
\* beginning that were not given are still there and come after it.
Progress(r) ==
  LET me == reading[r]
  IN  /\ me.cursor = 0 /\ handler[r].pc # "ok" => me.before = {} /\ me.got = <<>>
      /\ me.cursor > 0 => \A n \in 1 .. Len(me.got) : ~Before(me.cursor, me.got[n], me.sort)
      /\ me.cursor > 0 /\ ~gone =>
           \A i \in me.before : i \in ToSet(me.got) \/ (i \in Stored /\ Before(me.cursor, i, me.sort))
      /\ handler[r].pc = "ok" /\ ~gone /\ (handler[r].kind = "export" \/ me.cursor = 0) =>
           me.before \subseteq ToSet(me.got)
      /\ \A m, n \in 1 .. Len(me.got) : m < n => Before(me.got[m], me.got[n], me.sort)

ReadInv ==
  /\ PoolInv /\ RowsInv /\ ReadingTypeOK
  /\ \A r \in Readers : KindInv(r)
  /\ orderColumn = "id" => \A r \in Readers : Progress(r)

\* Ids are ordered.
LEMMA IdOrders ==
  ASSUME orderColumn = "id", NEW sort
  PROVE  Orders(sort, Nat)
<1>1. \A i, j \in Nat : Before(i, j, sort) <=> IF sort = "desc" THEN j < i ELSE i < j
  BY BeforeById
<1> QED
  BY <1>1 DEF Orders

\* A reader keeps what it knows while rows are added, or when there are no more rows.
LEMMA KeepsProgress ==
  ASSUME ReadInv, NEW r \in Readers, Progress(r),
         reading'[r] = reading[r], handler'[r].kind = handler[r].kind,
         ~gone' => ~gone /\ Stored \subseteq Stored',
         handler'[r].pc # "ok" => handler[r].pc # "ok" \/ reading[r].cursor > 0,
         handler'[r].pc = "ok" => handler[r].pc = "ok" \/ reading[r].cursor = 0,
         \A i, j : Before(i, j, reading[r].sort)' <=> Before(i, j, reading[r].sort)
  PROVE  Progress(r)'
<1> DEFINE me == reading[r]
<1>1. me.cursor \in Nat
  BY DEF ReadInv, ReadingTypeOK
<1>2. (me.cursor = 0 /\ handler[r].pc # "ok" => me.before = {} /\ me.got = <<>>)'
  BY <1>1 DEF Progress
<1>3. (me.cursor > 0 => \A n \in 1 .. Len(me.got) : ~Before(me.cursor, me.got[n], me.sort))'
  BY DEF Progress
<1>4. (me.cursor > 0 /\ ~gone =>
         \A i \in me.before : i \in ToSet(me.got) \/ (i \in Stored /\ Before(me.cursor, i, me.sort)))'
  BY DEF Progress
<1>5. (handler[r].pc = "ok" /\ ~gone /\ (handler[r].kind = "export" \/ me.cursor = 0) =>
         me.before \subseteq ToSet(me.got))'
  BY DEF Progress
<1>6. (\A m, n \in 1 .. Len(me.got) : m < n => Before(me.got[m], me.got[n], me.sort))'
  BY DEF Progress
<1> QED
  BY <1>2, <1>3, <1>4, <1>5, <1>6 DEF Progress

\* By id, the order does not change.
LEMMA OrderIsConstant ==
  ASSUME orderColumn = "id", NEW i, NEW j, NEW sort
  PROVE  Before(i, j, sort)' <=> Before(i, j, sort)
BY DEF Before

\* With a cursor, a statement sees the rows that come after it.
LEMMA AfterCursor ==
  ASSUME orderColumn = "id", NEW cursor \in Nat, NEW sort
  PROVE  /\ cursor = 0 => After(cursor, sort) = Stored
         /\ cursor > 0 => \A i : i \in After(cursor, sort) <=> i \in Stored /\ Before(cursor, i, sort)
BY BeforeById DEF After

\* The elements of two sequences one after the other.
LEMMA ConcatElements ==
  ASSUME NEW S, NEW s \in Seq(S), NEW t \in Seq(S)
  PROVE  ToSet(s \o t) = ToSet(s) \union ToSet(t)
<1>1. /\ Len(s) \in Nat /\ DOMAIN s = 1 .. Len(s) /\ Len(t) \in Nat /\ DOMAIN t = 1 .. Len(t)
      /\ s \o t \in Seq(S) /\ Len(s \o t) = Len(s) + Len(t)
  BY LenProperties, ConcatProperties
<1>2. /\ DOMAIN (s \o t) = 1 .. Len(s) + Len(t)
      /\ \A n \in 1 .. Len(s) + Len(t) : (s \o t)[n] = IF n <= Len(s) THEN s[n] ELSE t[n - Len(s)]
  BY <1>1, LenProperties, ConcatProperties
<1>3. ASSUME NEW n \in 1 .. Len(s)
      PROVE  n \in 1 .. Len(s) + Len(t) /\ (s \o t)[n] = s[n]
  BY <1>1, <1>2
<1>4. ASSUME NEW n \in 1 .. Len(t)
      PROVE  n + Len(s) \in 1 .. Len(s) + Len(t) /\ (s \o t)[n + Len(s)] = t[n]
  BY <1>1, <1>2
<1>5. ASSUME NEW n \in 1 .. Len(s) + Len(t)
      PROVE  (\E k \in 1 .. Len(s) : (s \o t)[n] = s[k]) \/ (\E k \in 1 .. Len(t) : (s \o t)[n] = t[k])
  <2>1. CASE n <= Len(s)
    <3>1. n \in 1 .. Len(s)
      BY <1>1, <2>1
    <3> QED
      BY <1>3, <3>1
  <2>2. CASE ~(n <= Len(s))
    <3>1. n - Len(s) \in 1 .. Len(t)
      BY <1>1, <2>2
    <3>2. (s \o t)[n] = t[n - Len(s)]
      BY <1>2, <2>2
    <3> QED
      BY <3>1, <3>2
  <2> QED
    BY <2>1, <2>2
<1>6. /\ ToSet(s) = {s[k] : k \in 1 .. Len(s)} /\ ToSet(t) = {t[k] : k \in 1 .. Len(t)}
      /\ ToSet(s \o t) = {(s \o t)[k] : k \in 1 .. Len(s) + Len(t)}
  BY <1>1, <1>2 DEF ToSet
<1>7. ToSet(s) \subseteq ToSet(s \o t)
  BY <1>3, <1>6
<1>8. ToSet(t) \subseteq ToSet(s \o t)
  BY <1>4, <1>6
<1>9. ToSet(s \o t) \subseteq ToSet(s) \union ToSet(t)
  BY <1>5, <1>6
<1> QED
  BY <1>7, <1>8, <1>9

\* A page continues what the reader has.
LEMMA PageContinues ==
  ASSUME orderColumn = "id", ReadInv, NEW r \in Readers, TakePage(r), handler'[r].kind = handler[r].kind
  PROVE  Progress(r)'
<1> DEFINE me   == reading[r]
           page == PageOf(me.cursor, me.sort)
           all  == handler[r].kind = "export"
           rest == After(me.cursor, me.sort)
<1>1. me.cursor \in Nat /\ me.got \in Seq(Nat) /\ Progress(r)
  BY DEF ReadInv, ReadingTypeOK
<1>2. /\ page \in Seq(rest)
      /\ \A m, n \in 1 .. Len(page) : m < n => Before(page[m], page[n], me.sort)
      /\ page = <<>> => rest = {}
      /\ page # <<>> => \A i \in rest \ ToSet(page) : Before(Last(page), i, me.sort)
  BY PageIsFirst DEF ReadInv
<1>3. /\ me.cursor = 0 => rest = Stored
      /\ me.cursor > 0 => \A i : i \in rest <=> i \in Stored /\ Before(me.cursor, i, me.sort)
  BY <1>1, AfterCursor
<1>4. Orders(me.sort, Nat) /\ rest \in SUBSET (Nat \ {0})
  <2>1. rest \in SUBSET Stored
    BY DEF After
  <2> QED
    BY <2>1, IdOrders, StoredRows DEF ReadInv
<1>5. /\ handler[r].pc = "page" /\ gone' = gone /\ Stored' = Stored
      /\ handler'[r].pc = IF all /\ page # <<>> THEN "page" ELSE "ok"
      /\ reading'[r].sort = me.sort
      /\ reading'[r].before = IF me.cursor = 0 THEN Stored ELSE me.before
      /\ reading'[r].got = me.got \o page
      /\ reading'[r].cursor = IF page # <<>> THEN Last(page) ELSE IF all THEN me.cursor ELSE 0
  <2>1. handler[r].pc = "page" /\ UNCHANGED pagingVars
    BY DEF TakePage, pagingVars
  <2>2. gone' = gone /\ Stored' = Stored
    BY <2>1 DEF pagingVars, Stored
  <2>3. Goto(r, IF all /\ page # <<>> THEN "page" ELSE "ok")
    BY DEF TakePage
  <2>4. handler'[r].pc = IF all /\ page # <<>> THEN "page" ELSE "ok"
    BY <2>3, ServerAssumption DEF Goto, Requests, ReadInv, PoolInv, HandlerTypeOK
  <2>5. reading' = [reading EXCEPT
           ![r].before = IF me.cursor = 0 THEN Stored ELSE @,
           ![r].got    = @ \o page,
           ![r].cursor = IF page # <<>> THEN Last(page) ELSE IF all THEN @ ELSE 0]
    BY DEF TakePage
  <2> HIDE DEF page, all
  <2> QED
    BY <2>1, <2>2, <2>4, <2>5 DEF ReadInv, ReadingTypeOK
<1> HIDE DEF page, rest, all
<1>6. page \in Seq(Nat) /\ Len(page) \in Nat /\ DOMAIN page = 1 .. Len(page)
  <2>1. page \in Seq(rest) /\ rest \subseteq Nat
    BY <1>2, <1>4
  <2>2. page \in Seq(Nat)
    BY <2>1, SeqMonotonic
  <2> QED
    BY <2>2, LenProperties
<1>7. /\ me.got \o page \in Seq(Nat) /\ Len(me.got \o page) = Len(me.got) + Len(page) /\ Len(me.got) \in Nat
      /\ \A n \in 1 .. Len(me.got) + Len(page) :
           (me.got \o page)[n] = IF n <= Len(me.got) THEN me.got[n] ELSE page[n - Len(me.got)]
  BY <1>1, <1>6, ConcatProperties
<1>8. ToSet(me.got \o page) = ToSet(me.got) \union ToSet(page)
  BY <1>1, <1>6, ConcatElements
\* Every row of the page comes after every row there was.
<1>9. ASSUME NEW m \in 1 .. Len(me.got), NEW n \in 1 .. Len(page)
      PROVE  Before(me.got[m], page[n], me.sort) /\ me.got[m] \in Nat /\ page[n] \in Nat
  <2>1. me.cursor > 0
    <3>1. me.got # <<>>
      BY <1>1
    <3>2. me.cursor = 0 => me.got = <<>>
      BY <1>1, <1>5 DEF Progress
    <3> QED
      BY <1>1, <3>1, <3>2
  <2>2. page[n] \in rest /\ me.got[m] \in Nat /\ page[n] \in Nat
    <3>1. page[n] \in rest
      BY <1>2, ElementOfSeq
    <3>2. me.got[m] \in Nat
      BY <1>1, ElementOfSeq
    <3>3. page[n] \in Nat
      BY <1>6, ElementOfSeq
    <3> QED
      BY <3>1, <3>2, <3>3
  <2>3. Before(me.cursor, page[n], me.sort) /\ ~Before(me.cursor, me.got[m], me.sort)
    BY <1>1, <1>3, <2>1, <2>2 DEF Progress
  <2> QED
    BY <1>1, <1>4, <2>2, <2>3 DEF Orders
<1>10. ASSUME page # <<>>
       PROVE  /\ Last(page) \in rest /\ Last(page) \in Nat /\ Last(page) > 0
              /\ Len(page) \in 1 .. Len(page) /\ Last(page) = page[Len(page)]
  <2>0. page \in Seq(Nat)
    BY <1>6
  <2>1. Len(page) \in Nat \ {0}
    BY <1>10, <2>0, EmptySeq
  <2>2. Len(page) \in 1 .. Len(page)
    BY <2>1
  <2>3. page[Len(page)] \in rest
    BY <1>2, <2>2, ElementOfSeq
  <2>4. Last(page) = page[Len(page)]
    BY DEF Last
  <2>5. page[Len(page)] \in Nat \ {0}
    BY <1>4, <2>3
  <2> QED
    BY <2>2, <2>3, <2>4, <2>5
<1>11. ASSUME me.cursor = 0
       PROVE  me.before = {} /\ me.got = <<>>
  BY <1>1, <1>5, <1>11 DEF Progress
<1>12. (me.cursor = 0 /\ handler[r].pc # "ok" => me.before = {} /\ me.got = <<>>)'
  BY <1>5, <1>10
<1>13. (me.cursor > 0 => \A n \in 1 .. Len(me.got) : ~Before(me.cursor, me.got[n], me.sort))'
  <2>0. \A k \in 1 .. Len(page) : k = Len(page) \/ k < Len(page)
    <3>1. Len(page) \in Nat
      BY <1>6
    <3> QED
      BY <3>1
  <2>1. CASE page = <<>>
    <3>1. me.got \o page = me.got
      BY <1>1, <2>1, ConcatEmptySeq
    <3> QED
      BY <1>1, <1>5, <2>1, <3>1, OrderIsConstant DEF Progress
  <2>2. CASE page # <<>>
    <3>1. ASSUME NEW n \in 1 .. Len(me.got \o page)
          PROVE  ~Before(Last(page), (me.got \o page)[n], me.sort)
      <4>1. CASE n <= Len(me.got)
        <5>1. n \in 1 .. Len(me.got) /\ (me.got \o page)[n] = me.got[n]
          BY <1>6, <1>7, <4>1
        <5>2. Before(me.got[n], Last(page), me.sort) /\ me.got[n] \in Nat
          BY <1>9, <1>10, <2>2, <5>1
        <5> QED
          BY <1>4, <1>10, <2>2, <5>1, <5>2 DEF Orders
      <4>2. CASE ~(n <= Len(me.got))
        <5>1. n - Len(me.got) \in 1 .. Len(page) /\ (me.got \o page)[n] = page[n - Len(me.got)]
          BY <1>6, <1>7, <4>2
        <5>2. PICK k \in 1 .. Len(page) : (me.got \o page)[n] = page[k]
          BY <5>1
        <5>3. page[k] \in Nat /\ (k = Len(page) \/ Before(page[k], Last(page), me.sort))
          <6>1. page[k] \in Nat
            BY <1>6
          <6>2. Len(page) \in 1 .. Len(page) /\ Last(page) = page[Len(page)]
            BY <1>10, <2>2
          <6> QED
            BY <1>2, <2>0, <6>1, <6>2
        <5> QED
          BY <1>4, <1>10, <2>2, <5>2, <5>3 DEF Orders
      <4> QED
        BY <4>1, <4>2
    <3> QED
      BY <1>5, <2>2, <3>1, OrderIsConstant
  <2> QED
    BY <2>1, <2>2
<1>14. (me.cursor > 0 /\ ~gone =>
          \A i \in me.before : i \in ToSet(me.got) \/ (i \in Stored /\ Before(me.cursor, i, me.sort)))'
  <2>1. CASE page = <<>>
    <3>1. me.got \o page = me.got
      BY <1>1, <2>1, ConcatEmptySeq
    <3> QED
      BY <1>1, <1>5, <2>1, <3>1, OrderIsConstant DEF Progress
  <2>2. CASE page # <<>>
    <3>1. ASSUME ~gone, NEW i \in reading'[r].before
          PROVE  i \in ToSet(me.got) \/ i \in rest
      BY <1>1, <1>3, <1>5, <3>1 DEF Progress
    <3>2. ASSUME ~gone, NEW i \in reading'[r].before
          PROVE  i \in ToSet(me.got \o page) \/ (i \in Stored /\ Before(Last(page), i, me.sort))
      <4>1. i \in rest => i \in Stored
        BY <1>1, <1>3
      <4> QED
        BY <1>2, <1>8, <2>2, <3>1, <3>2, <4>1
    <3> QED
      BY <1>5, <2>2, <3>2, OrderIsConstant
  <2> QED
    BY <2>1, <2>2
<1>15. (handler[r].pc = "ok" /\ ~gone /\ (handler[r].kind = "export" \/ me.cursor = 0) =>
          me.before \subseteq ToSet(me.got))'
  <2> SUFFICES ASSUME handler'[r].pc = "ok", ~gone, handler[r].kind = "export" \/ reading'[r].cursor = 0
               PROVE  reading'[r].before \subseteq ToSet(me.got)
    BY <1>5, <1>8
  <2>1. page = <<>>
    BY <1>5, <1>10 DEF all
  <2>2. rest = {}
    BY <1>2, <2>1
  <2> QED
    BY <1>1, <1>3, <1>5, <2>2 DEF Progress
<1>16. (\A m, n \in 1 .. Len(me.got) : m < n => Before(me.got[m], me.got[n], me.sort))'
  <2>0. \A m, n \in 1 .. Len(me.got) : m < n => Before(me.got[m], me.got[n], me.sort)
    BY <1>1 DEF Progress
  <2>1. ASSUME NEW m \in 1 .. Len(me.got) + Len(page), NEW n \in 1 .. Len(me.got) + Len(page), m < n
        PROVE  Before((me.got \o page)[m], (me.got \o page)[n], me.sort)
    <3>0. Len(me.got) \in Nat /\ Len(page) \in Nat
      BY <1>6, <1>7
    <3>1. CASE n <= Len(me.got)
      <4>1. m \in 1 .. Len(me.got) /\ n \in 1 .. Len(me.got) /\ m <= Len(me.got)
        BY <2>1, <3>0, <3>1
      <4>2. (me.got \o page)[m] = me.got[m] /\ (me.got \o page)[n] = me.got[n]
        BY <1>7, <3>1, <4>1
      <4> QED
        BY <2>0, <2>1, <4>1, <4>2
    <3>2. CASE m <= Len(me.got) /\ ~(n <= Len(me.got))
      <4>1. m \in 1 .. Len(me.got) /\ n - Len(me.got) \in 1 .. Len(page)
        BY <2>1, <3>0, <3>2
      <4>2. (me.got \o page)[m] = me.got[m] /\ (me.got \o page)[n] = page[n - Len(me.got)]
        BY <1>7, <3>2
      <4> QED
        BY <1>9, <4>1, <4>2
    <3>3. CASE ~(m <= Len(me.got))
      <4>1. /\ m - Len(me.got) \in 1 .. Len(page) /\ n - Len(me.got) \in 1 .. Len(page)
            /\ m - Len(me.got) < n - Len(me.got) /\ ~(n <= Len(me.got))
        BY <2>1, <3>0, <3>3
      <4>2. (me.got \o page)[m] = page[m - Len(me.got)] /\ (me.got \o page)[n] = page[n - Len(me.got)]
        BY <1>7, <3>3, <4>1
      <4> QED
        BY <1>2, <4>1, <4>2
    <3> QED
      BY <3>1, <3>2, <3>3
  <2> QED
    BY <1>5, <1>7, <2>1, OrderIsConstant
<1> QED
  BY <1>12, <1>13, <1>14, <1>15, <1>16 DEF Progress

\* A step of one request leaves what another has been given as it is.
LEMMA ReadingIsLocal ==
  ASSUME ReadingTypeOK, NEW r \in Requests, HandlerStep(r) \/ ClientStep(r) \/ StatementFails(r),
         NEW q \in Readers, q # r
  PROVE  reading'[q] = reading[q]
<1>1. CASE TakePage(r)
  <2>1. \E x : reading' = [reading EXCEPT ![r] = x]
    BY <1>1 DEF TakePage
  <2> QED
    BY <2>1 DEF ReadingTypeOK
<1>2. CASE Ask(r)
  BY <1>2 DEF Ask, ReadingTypeOK
<1>3. CASE reading' = reading
  BY <1>3
<1>4. CASE Post(r) \/ FollowCursor(r) \/ StatementFails(r) \/ StartStatement(r) \/ BeginTx(r) \/ InsertJob(r)
  BY <1>3, <1>4 DEF Post, FollowCursor, StatementFails, StartStatement, BeginTx, InsertJob, RowsAndFaults
<1>5. CASE NextSeed(r) \/ SeedSeen(r) \/ EndOfSeeds(r) \/ InsertTasks(r) \/ CommitTx(r)
  BY <1>3, <1>5 DEF NextSeed, SeedSeen, EndOfSeeds, InsertTasks, CommitTx, RowsAndFaults
<1>6. CASE Ping(r) \/ JobFound(r) \/ Stats(r)
  BY <1>3, <1>6 DEF Ping, JobFound, Stats, RowsAndFaults
<1> QED
  BY <1>1, <1>2, <1>4, <1>5, <1>6 DEF HandlerStep, ClientStep

\* What a reader's handler does is one of these.
LEMMA ReaderSteps ==
  ASSUME PoolInv, NEW r \in Readers, HandlerStep(r) \/ ClientStep(r) \/ StatementFails(r)
  PROVE  \/ StartStatement(r) \/ Ping(r) \/ JobFound(r) \/ Stats(r) \/ StatementFails(r)
         \/ TakePage(r) \/ Ask(r) \/ FollowCursor(r)
<1>1. r \in Requests /\ r \notin Creators
  BY ServerAssumption DEF Requests
<1>2. handler[r].pc \notin TxPcs \union {"begin"}
  BY <1>1 DEF PoolInv, Roles
<1>3. ~BeginTx(r) /\ ~InsertJob(r) /\ ~NextSeed(r) /\ ~SeedSeen(r)
  BY <1>2 DEF BeginTx, InsertJob, NextSeed, SeedSeen, TxPcs
<1>4. ~EndOfSeeds(r) /\ ~InsertTasks(r) /\ ~CommitTx(r) /\ ~Post(r)
  BY <1>1, <1>2 DEF EndOfSeeds, InsertTasks, CommitTx, TxPcs, Post
<1> QED
  BY <1>3, <1>4 DEF HandlerStep, ClientStep

\* What Goto does, for a reader.
LEMMA ReaderMoved ==
  ASSUME HandlerTypeOK, NEW r \in Readers, NEW pc, Goto(r, pc)
  PROVE  handler'[r].pc = pc /\ handler'[r].kind = handler[r].kind
BY DEF HandlerTypeOK, Goto, Requests

\* A reader asks anew, and has been given nothing.
LEMMA Asks ==
  ASSUME ReadInv, NEW r \in Readers, Ask(r)
  PROVE  /\ reading' \in [Readers -> [sort : {"asc", "desc"}, before : SUBSET Nat, got : Seq(Nat), cursor : Nat]]
         /\ reading'[r].before = {} /\ reading'[r].got = <<>> /\ reading'[r].cursor = 0
         /\ KindInv(r)' /\ handler'[r].pc # "ok"
<1>1. PICK kind \in Reads : handler' = [handler EXCEPT ![r] = At(First(kind), kind, 0, FALSE)]
  BY DEF Ask
<1>2. kind \in ReadKinds /\ r \in Requests
  BY ServerAssumption DEF Requests
<1>3. handler'[r].pc = First(kind) /\ handler'[r].kind = kind
  BY <1>1, <1>2 DEF ReadInv, PoolInv, HandlerTypeOK, At
<1>4. PICK sort \in {"asc", "desc"} : reading' = [reading EXCEPT ![r] = [NothingRead EXCEPT !.sort = sort]]
  BY DEF Ask
<1>5. NothingRead \in [sort : {"asc", "desc"}, before : SUBSET Nat, got : Seq(Nat), cursor : Nat]
  BY DEF NothingRead
<1>6. /\ [NothingRead EXCEPT !.sort = sort]
           \in [sort : {"asc", "desc"}, before : SUBSET Nat, got : Seq(Nat), cursor : Nat]
      /\ [NothingRead EXCEPT !.sort = sort].before = NothingRead.before
      /\ [NothingRead EXCEPT !.sort = sort].got = NothingRead.got
      /\ [NothingRead EXCEPT !.sort = sort].cursor = NothingRead.cursor
  BY <1>5
<1>7. /\ reading' \in [Readers -> [sort : {"asc", "desc"}, before : SUBSET Nat, got : Seq(Nat), cursor : Nat]]
      /\ reading'[r] = [NothingRead EXCEPT !.sort = sort]
  BY <1>4, <1>6 DEF ReadInv, ReadingTypeOK
<1>8. reading'[r].before = {} /\ reading'[r].got = <<>> /\ reading'[r].cursor = 0
  BY <1>6, <1>7 DEF NothingRead
<1>9. KindInv(r)' /\ handler'[r].pc # "ok"
  BY <1>2, <1>3, <1>8 DEF KindInv, First, ReadKinds
<1> QED
  BY <1>7, <1>8, <1>9

\* A page is a sequence of ids.
LEMMA PageTyped ==
  ASSUME ReadInv, NEW r \in Requests, TakePage(r)
  PROVE  ReadingTypeOK'
<1> DEFINE me   == reading[r]
           page == PageOf(me.cursor, me.sort)
           all  == handler[r].kind = "export"
<1>1. page \in Seq(After(me.cursor, me.sort)) /\ After(me.cursor, me.sort) \subseteq Stored
  BY PageIsFirst DEF ReadInv, After
<1>2. Stored \subseteq Nat
  BY StoredRows DEF ReadInv
<1>3. page \in Seq(Nat)
  BY <1>1, <1>2, SeqMonotonic
<1>4. page # <<>> => Last(page) \in Nat
  BY <1>3, LenProperties, EmptySeq DEF Last
<1>5. reading' = [reading EXCEPT
           ![r].before = IF me.cursor = 0 THEN Stored ELSE @,
           ![r].got    = @ \o page,
           ![r].cursor = IF page # <<>> THEN Last(page) ELSE IF all THEN @ ELSE 0]
  BY DEF TakePage
<1> HIDE DEF page, all
<1>6. CASE r \in Readers
  <2>1. me.before \in SUBSET Nat /\ me.got \in Seq(Nat) /\ me.cursor \in Nat
    BY <1>6 DEF ReadInv, ReadingTypeOK
  <2>2. PICK b \in SUBSET Nat, c \in Nat :
          reading' = [reading EXCEPT ![r].before = b, ![r].got = me.got \o page, ![r].cursor = c]
    <3>1. (IF me.cursor = 0 THEN Stored ELSE me.before) \in SUBSET Nat
      BY <1>2, <2>1
    <3>2. (IF page # <<>> THEN Last(page) ELSE IF all THEN me.cursor ELSE 0) \in Nat
      BY <1>4, <2>1
    <3> QED
      BY <1>5, <3>1, <3>2
  <2>3. me.got \o page \in Seq(Nat)
    BY <1>3, <2>1, ConcatProperties
  <2> QED
    BY <2>2, <2>3 DEF ReadInv, ReadingTypeOK
<1>7. CASE r \notin Readers
  <2>1. \E x : reading' = [reading EXCEPT ![r] = x]
    BY <1>5
  <2>2. reading' = reading
    BY <1>7, <2>1 DEF ReadInv, ReadingTypeOK
  <2> QED
    BY <2>2 DEF ReadInv, ReadingTypeOK
<1> QED
  BY <1>6, <1>7

\* A request's step keeps the types of the readers.
LEMMA RequestReadsTyped ==
  ASSUME ReadInv, NEW r \in Requests, HandlerStep(r) \/ ClientStep(r) \/ StatementFails(r)
  PROVE  ReadingTypeOK'
<1>1. CASE TakePage(r)
  BY <1>1, PageTyped
<1>2. CASE Ask(r)
  <2>1. r \in Readers
    BY <1>2 DEF Ask
  <2> QED
    BY <1>2, <2>1, Asks DEF ReadingTypeOK
<1>3. CASE Post(r) \/ FollowCursor(r) \/ StatementFails(r) \/ StartStatement(r) \/ BeginTx(r) \/ InsertJob(r)
  BY <1>3 DEF Post, FollowCursor, StatementFails, StartStatement, BeginTx, InsertJob, RowsAndFaults,
              ReadInv, ReadingTypeOK
<1>4. CASE NextSeed(r) \/ SeedSeen(r) \/ EndOfSeeds(r) \/ InsertTasks(r) \/ CommitTx(r)
  BY <1>4 DEF NextSeed, SeedSeen, EndOfSeeds, InsertTasks, CommitTx, RowsAndFaults, ReadInv, ReadingTypeOK
<1>5. CASE Ping(r) \/ JobFound(r) \/ Stats(r)
  BY <1>5 DEF Ping, JobFound, Stats, RowsAndFaults, ReadInv, ReadingTypeOK
<1> QED
  BY <1>1, <1>2, <1>3, <1>4, <1>5 DEF HandlerStep, ClientStep

\* A reader's own step.
LEMMA OwnStep ==
  ASSUME ReadInv, NEW r \in Readers, HandlerStep(r) \/ ClientStep(r) \/ StatementFails(r)
  PROVE  KindInv(r)' /\ (orderColumn = "id" => Progress(r)')
<1> DEFINE me == reading[r]
<1>0. /\ HandlerTypeOK /\ PoolInv /\ r \in Requests /\ me.cursor \in Nat /\ KindInv(r)
      /\ gone' = gone /\ Stored' = Stored
  <2>1. HandlerTypeOK /\ PoolInv /\ r \in Requests /\ me.cursor \in Nat /\ KindInv(r)
    BY DEF ReadInv, PoolInv, Requests, ReadingTypeOK
  <2>2. UNCHANGED pagingVars
    BY <2>1, RequestsKeepRows
  <2> QED
    BY <2>1, <2>2 DEF pagingVars, Stored
\* The handler moves on, and nothing is read.
<1>1. ASSUME reading' = reading, handler'[r].kind = handler[r].kind,
             handler'[r].pc # "ok" => handler[r].pc # "ok" \/ me.cursor > 0,
             handler'[r].pc = "ok" => handler[r].pc = "ok" \/ me.cursor = 0
      PROVE  orderColumn = "id" => Progress(r)'
  <2> SUFFICES ASSUME orderColumn = "id" PROVE Progress(r)'
    OBVIOUS
  <2>1. Progress(r) /\ reading'[r] = reading[r]
    BY <1>1 DEF ReadInv
  <2>2. \A i, j : Before(i, j, me.sort)' <=> Before(i, j, me.sort)
    BY <1>1, OrderIsConstant
  <2> QED
    BY <1>0, <1>1, <2>1, <2>2, KeepsProgress
<1>2. CASE StartStatement(r)
  <2>1. /\ reading' = reading /\ handler'[r].kind = handler[r].kind /\ handler'[r].pc = handler[r].pc
        /\ handler[r].pc # "ok"
    BY <1>0, <1>2 DEF StartStatement, RowsAndFaults, HandlerTypeOK, Waiting, OwnPcs
  <2>2. KindInv(r)'
    BY <1>0, <2>1 DEF KindInv
  <2> QED
    BY <1>1, <2>1, <2>2
<1>3. CASE Ping(r)
  <2>1. PICK pc \in {"ok", "error"} : Goto(r, pc)
    BY <1>3 DEF Ping
  <2>2. /\ handler'[r].pc = pc /\ handler'[r].kind = handler[r].kind
        /\ handler[r].pc = "ping" /\ reading' = reading
    BY <1>0, <1>3, <2>1, ReaderMoved DEF Ping, RowsAndFaults
  <2>3. KindInv(r)' /\ me.cursor = 0
    BY <1>0, <2>2 DEF KindInv
  <2> QED
    BY <1>1, <2>2, <2>3
<1>4. CASE JobFound(r)
  <2>1. PICK pc \in {"not found", "stats", "page"} :
          /\ Goto(r, pc)
          /\ pc = "stats" => handler[r].kind = "status"
          /\ pc = "page" => handler[r].kind # "status"
    BY <1>4 DEF JobFound
  <2>2. /\ handler'[r].pc = pc /\ handler'[r].kind = handler[r].kind
        /\ handler[r].pc = "getJob" /\ reading' = reading
    BY <1>0, <1>4, <2>1, ReaderMoved DEF JobFound, RowsAndFaults
  <2>3. KindInv(r)'
    BY <1>0, <2>1, <2>2 DEF KindInv
  <2> QED
    BY <1>1, <2>2, <2>3
<1>5. CASE Stats(r)
  <2>1. /\ handler'[r].pc = "ok" /\ handler'[r].kind = handler[r].kind
        /\ handler[r].pc = "stats" /\ reading' = reading
    BY <1>0, <1>5, ReaderMoved DEF Stats, RowsAndFaults
  <2>2. KindInv(r)' /\ me.cursor = 0
    BY <1>0, <2>1 DEF KindInv
  <2> QED
    BY <1>1, <2>1, <2>2
<1>6. CASE StatementFails(r)
  <2>1. PICK pc \in {"not found", "error"} : Goto(r, pc)
    BY <1>6 DEF StatementFails
  <2>2. handler[r].pc # "ok"
    BY <1>0, <1>6 DEF StatementFails, AtStatement, Waiting, OwnPcs, PoolInv, Roles
  <2>3. handler'[r].pc = pc /\ handler'[r].kind = handler[r].kind /\ reading' = reading
    BY <1>0, <1>6, <2>1, ReaderMoved DEF StatementFails
  <2>4. KindInv(r)'
    BY <1>0, <2>3 DEF KindInv
  <2> QED
    BY <1>1, <2>2, <2>3, <2>4
<1>7. CASE FollowCursor(r)
  <2>1. /\ handler'[r].pc = First(handler[r].kind) /\ handler'[r].kind = handler[r].kind
        /\ handler[r].pc = "ok" /\ handler[r].kind \in {"documents", "map"}
        /\ me.cursor > 0 /\ reading' = reading
    BY <1>0, <1>7, ReaderMoved DEF FollowCursor, RowsAndFaults
  <2>2. First(handler[r].kind) \in {"getJob", "page"}
    BY <2>1 DEF First
  <2>3. KindInv(r)'
    BY <1>0, <2>1, <2>2 DEF KindInv
  <2> QED
    BY <1>1, <2>1, <2>2, <2>3
<1>8. CASE Ask(r)
  <2>1. /\ reading'[r].before = {} /\ reading'[r].got = <<>> /\ reading'[r].cursor = 0
        /\ KindInv(r)' /\ handler'[r].pc # "ok"
    BY <1>8, Asks
  <2>2. Len(reading'[r].got) = 0
    BY <2>1
  <2> QED
    BY <2>1, <2>2 DEF Progress
<1>9. CASE TakePage(r)
  <2>1. PICK pc \in {"page", "ok"} : Goto(r, pc)
    BY <1>9 DEF TakePage
  <2>2. handler'[r].pc = pc /\ handler'[r].kind = handler[r].kind /\ handler[r].pc = "page"
    BY <1>0, <1>9, <2>1, ReaderMoved DEF TakePage
  <2>3. KindInv(r)'
    BY <1>0, <2>2 DEF KindInv
  <2> QED
    BY <1>9, <2>2, <2>3, PageContinues
<1> QED
  BY <1>0, <1>2, <1>3, <1>4, <1>5, <1>6, <1>7, <1>8, <1>9, ReaderSteps

\* While the job is there, its rows stay.
LEMMA RowsStay ==
  ASSUME RowsInv, WriterStep
  PROVE  ~gone' => ~gone /\ Stored \subseteq Stored'
<1> SUFFICES ASSUME ~gone' PROVE ~gone /\ Stored \subseteq Stored'
  OBVIOUS
<1>1. ~gone
  BY DEF WriterStep, DeleteJob, Begin, InsertRow, Commit, Rollback
<1>2. ASSUME NEW v \in Writers, txn[v].pc = "committed"
      PROVE  txn'[v].pc = "committed" /\ txn'[v].ids = txn[v].ids
  BY <1>2 DEF WriterStep, DeleteJob, Begin, InsertRow, Commit, Rollback, RowsInv, PagingTypeOK
<1> QED
  BY <1>1, <1>2 DEF Stored

LEMMA ReadInit0 == Init => ReadInv
<1> SUFFICES ASSUME Init PROVE ReadInv
  OBVIOUS
<1>1. NothingRead \in [sort : {"asc", "desc"}, before : SUBSET Nat, got : Seq(Nat), cursor : Nat]
  BY DEF NothingRead
<1>2. \A r \in Readers : reading[r] = NothingRead
  BY DEF Init
<1>3. ReadingTypeOK
  BY <1>1 DEF Init, ReadingTypeOK
<1>4. \A r \in Readers : handler[r].pc = "idle" /\ handler[r].kind = "batch"
  BY DEF Init, At, Requests
<1>5. \A r \in Readers : KindInv(r) /\ Progress(r)
  BY <1>2, <1>4 DEF KindInv, Progress, NothingRead
<1> QED
  BY <1>3, <1>5, PoolInit0, RowsInit DEF ReadInv

LEMMA ReadStep == ReadInv /\ [Next]_vars => ReadInv'
<1> SUFFICES ASSUME ReadInv, [Next]_vars PROVE ReadInv'
  OBVIOUS
<1>0. PoolInv' /\ RowsInv'
  BY PoolStep, RowsStep DEF ReadInv
\* Nothing happens to a reader but that rows are added or deleted.
<1>1. ASSUME NEW q \in Readers, reading'[q] = reading[q], handler'[q] = handler[q],
             ~gone' => ~gone /\ Stored \subseteq Stored'
      PROVE  KindInv(q)' /\ (orderColumn = "id" => Progress(q)')
  <2>1. KindInv(q)'
    BY <1>1 DEF ReadInv, KindInv
  <2>2. ASSUME orderColumn = "id"
        PROVE  Progress(q)'
    <3>1. \A i, j : Before(i, j, reading[q].sort)' <=> Before(i, j, reading[q].sort)
      BY <1>1, <2>2, OrderIsConstant
    <3>2. Progress(q)
      BY <2>2 DEF ReadInv
    <3>3. reading[q].cursor \in Nat
      BY DEF ReadInv, ReadingTypeOK
    <3> QED
      BY <1>1, <3>1, <3>2, <3>3, KeepsProgress
  <2> QED
    BY <2>1, <2>2
<1>2. ASSUME NEW r \in Requests, HandlerStep(r) \/ ClientStep(r) \/ StatementFails(r)
      PROVE  ReadInv'
  <2>1. ReadingTypeOK'
    BY <1>2, RequestReadsTyped
  <2>2. gone' = gone /\ Stored' = Stored
    <3>1. UNCHANGED pagingVars
      BY <1>2, RequestsKeepRows
    <3> QED
      BY <3>1 DEF pagingVars, Stored
  <2>3. ASSUME NEW q \in Readers
        PROVE  KindInv(q)' /\ (orderColumn = "id" => Progress(q)')
    <3>1. CASE q = r
      BY <1>2, <3>1, OwnStep
    <3>2. CASE q # r
      <4>1. reading'[q] = reading[q]
        BY <1>2, <3>2, ReadingIsLocal DEF ReadInv
      <4>2. handler'[q] = handler[q]
        BY <1>2, <3>2, StepIsLocal DEF ReadInv, PoolInv, Others, Requests
      <4> QED
        BY <1>1, <2>2, <4>1, <4>2
    <3> QED
      BY <3>1, <3>2
  <2> QED
    BY <1>0, <2>1, <2>3 DEF ReadInv
<1>3. CASE UNCHANGED <<handler, reading>> /\ (WriterStep \/ UNCHANGED pagingVars)
  <2>1. ~gone' => ~gone /\ Stored \subseteq Stored'
    BY <1>3, RowsStay DEF ReadInv, pagingVars, Stored
  <2>2. ReadingTypeOK'
    BY <1>3 DEF ReadInv, ReadingTypeOK
  <2>3. \A q \in Readers : KindInv(q)' /\ (orderColumn = "id" => Progress(q)')
    BY <1>1, <1>3, <2>1
  <2> QED
    BY <1>0, <2>2, <2>3 DEF ReadInv
<1> QED
  BY <1>2, <1>3 DEF Next, vars

LEMMA ReadInvariant == Spec => []ReadInv
BY ReadInit0, ReadStep, PTL DEF Spec

\* InOrder: by id, a reader gets the rows in its direction and each once, although rows are
\* committed and the job is deleted between its pages (store.go:353-382, 410-440).
THEOREM ReadersGetRowsInOrder == Spec => []InOrder
<1>1. ReadInv => InOrder
  <2> SUFFICES ASSUME ReadInv, orderColumn = "id", NEW r \in Readers,
                      NEW i \in DOMAIN reading[r].got, NEW j \in DOMAIN reading[r].got, i < j
               PROVE  IF reading[r].sort = "desc" THEN reading[r].got[j] < reading[r].got[i]
                                                  ELSE reading[r].got[i] < reading[r].got[j]
    BY DEF InOrder
  <2>1. reading[r].got \in Seq(Nat)
    BY DEF ReadInv, ReadingTypeOK
  <2>2. DOMAIN reading[r].got = 1 .. Len(reading[r].got)
    BY <2>1
  <2>3. Before(reading[r].got[i], reading[r].got[j], reading[r].sort)
    BY <2>2 DEF ReadInv, Progress
  <2> QED
    BY <2>3, BeforeById
<1> QED
  BY <1>1, ReadInvariant, PTL

\* ExportIsExhaustive: by id, whoever reads to the end has got every row of the
\* beginning, however rows are added, statements fail and requests wait meanwhile
\* (routes.go:225-256).
THEOREM ReadingToTheEndIsExhaustive ==
  ASSUME orderColumn = "id"
  PROVE  Spec => []ExportIsExhaustive
<1>1. ReadInv => ExportIsExhaustive
  BY DEF ReadInv, Progress, ExportIsExhaustive
<1> QED
  BY <1>1, ReadInvariant, PTL

-----------------------------------------------------------------------------
\* Faults are counted up to their bound.
LEMMA FaultsBounded == Spec => [](faults \in 0 .. MaxFaults)
<1>1. Init => faults \in 0 .. MaxFaults
  BY ServerAssumption DEF Init
<1>2. faults \in 0 .. MaxFaults /\ [Next]_vars => (faults \in 0 .. MaxFaults)'
  <2> SUFFICES ASSUME faults \in 0 .. MaxFaults, [Next]_vars PROVE faults' \in 0 .. MaxFaults
    OBVIOUS
  <2>1. ASSUME NEW r \in Requests, StatementFails(r)
        PROVE  faults' \in 0 .. MaxFaults
    <3>1. faults < MaxFaults /\ faults' = faults + 1
      BY <2>1 DEF StatementFails
    <3>2. MaxFaults \in Nat
      BY ServerAssumption
    <3> QED
      BY <3>1, <3>2
  <2>2. ASSUME NEW r \in Requests, ClientStep(r)
        PROVE  faults' = faults
    BY <2>2 DEF ClientStep, Post, Ask, FollowCursor, RowsAndFaults
  <2>3. ASSUME NEW r \in Requests, HandlerStep(r)
        PROVE  faults' = faults
    <3>1. CASE StartStatement(r) \/ BeginTx(r) \/ InsertJob(r) \/ NextSeed(r) \/ SeedSeen(r) \/ EndOfSeeds(r)
      BY <3>1 DEF StartStatement, BeginTx, InsertJob, NextSeed, SeedSeen, EndOfSeeds, RowsAndFaults
    <3>2. CASE InsertTasks(r) \/ CommitTx(r) \/ Ping(r) \/ JobFound(r) \/ Stats(r) \/ TakePage(r)
      BY <3>2 DEF InsertTasks, CommitTx, Ping, JobFound, Stats, TakePage, RowsAndFaults
    <3> QED
      BY <2>3, <3>1, <3>2 DEF HandlerStep
  <2> QED
    BY <2>1, <2>2, <2>3 DEF Next, vars
<1> QED
  BY <1>1, <1>2, PTL DEF Spec

\* server.go, routes.go, jobs.go: whatever requests come and however their statements end,
\* handlers, pool, rows and cursors stay in their types.
THEOREM ServerTypes == Spec => []TypeOK
<1>1. ReadInv /\ faults \in 0 .. MaxFaults => TypeOK
  BY DEF ReadInv, RowsInv, PoolInv, PoolTypeOK, TypeOK
<1> QED
  BY <1>1, ReadInvariant, FaultsBounded, PTL

=============================================================================
