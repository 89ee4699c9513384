---------------------------- MODULE HostLimiter ----------------------------
(***************************************************************************)
(* hostLimiter of internal/worker/limiter.go: per host a channel that      *)
(* holds one token for every request in flight, and a token bucket of      *)
(* golang.org/x/time/rate.  A host without an entry in the map is a host   *)
(* with an empty channel.                                                  *)
(***************************************************************************)
EXTENDS Web

CONSTANTS
  MaxConc,  \* worker.per_host_limit; 0 turns the channel off
  Rps       \* worker.per_host_rps; 0 turns the token bucket off

ASSUME LimiterAssumption == MaxConc \in Nat /\ Rps \in Nat

VARIABLE conc  \* len(h.conc[host])

LimiterTypeOK == conc \in [Hosts -> Nat]

LimiterInit == conc = [h \in Hosts |-> 0]

\* Mutant: the channel has room for one token more.
SendToken_TooMany(h) ==
  IF MaxConc = 0 THEN UNCHANGED conc
  ELSE conc[h] <= MaxConc /\ conc' = [conc EXCEPT ![h] = @ + 1]

\* case ch <- struct{}{}: there is room, or there is no channel to send to.
SendToken(h) ==
  IF MaxConc = 0 THEN UNCHANGED conc
  ELSE conc[h] < MaxConc /\ conc' = [conc EXCEPT ![h] = @ + 1]

\* releaseConc takes one token and does not wait for one.
releaseConc(h) ==
  conc' = [conc EXCEPT ![h] = IF @ > 0 THEN @ - 1 ELSE @]

\* The release function of acquire.
ReleaseToken(h) == IF MaxConc = 0 THEN UNCHANGED conc ELSE releaseConc(h)

=============================================================================
