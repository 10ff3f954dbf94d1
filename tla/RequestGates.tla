---------------------------- MODULE RequestGates ----------------------------
(***************************************************************************)
(* The gates a request passes before a handler sees it: the boot gate of   *)
(* real money (compliance/real-money-gate.ts, main.ts), the geo guard      *)
(* (compliance/geo.guard.ts, geo.service.ts, vpn-detection.service.ts),    *)
(* the throttler whose counters live in Redis (common), and the KYC guard  *)
(* with the verdicts of the identity provider (kyc.service.ts).            *)
(*                                                                         *)
(* A request is what it truly is (where it comes from, whether the proxy   *)
(* forwarded it, a VPN, who makes it) beside what its headers say. The     *)
(* routes are those of the controllers: what a handler does, and the       *)
(* guards that its decorators or its first lines put before it.            *)
(***************************************************************************)
EXTENDS Naturals, FiniteSets

CONSTANTS
  Persons,      \* signed-in players
  Replicas,     \* API processes
  Limit,        \* BET_THROTTLE.limit
  WindowTicks,  \* BET_THROTTLE.ttl
  GateWindows,  \* orders of arrival that are let happen, see the README
  MaxTick, MaxReviews, MaxAsks   \* bounds

VARIABLES
  cfg,       \* configuration of the deployment
  kyc,       \* kycStatus and sanctionsCleared of a user
  review,    \* the provider's reviews of a user: number, verdict of the last
  hooks,     \* signed verdicts: delivered late, twice or never
  hits,      \* the Redis counter of a bucket
  expires,   \* and when it ends
  tick,
  passed,    \* history: wagers let through, in their window
  seen,      \* history: what is known of the requests let through
  asks

gateVars == <<cfg, kyc, review, hooks, hits, expires, tick, passed, seen, asks>>

Countries == {"open", "blocked"}
\* "flagged": approved, but not cleared of sanctions.
Verdicts == {"approved", "flagged", "rejected", "onHold"}
Switches == {"realMoney", "licensed", "kycEnabled", "ipSalt", "proxySecret", "vpn", "vpnKey"}

\* A gate that does not look at the proxy's secret.
ReadyWithoutSecret(c) ==
  "realMoney" \in c => {"licensed", "kycEnabled", "ipSalt"} \subseteq c

\* assertRealMoneyReady: what the process refuses to start without.
AssertRealMoneyReady(c) ==
  "realMoney" \in c =>
    /\ {"licensed", "kycEnabled", "ipSalt", "proxySecret"} \subseteq c
    /\ "vpn" \in c => "vpnKey" \in c

GatesInit ==
  /\ cfg \in {c \in SUBSET Switches : /\ {"licensed", "ipSalt"} \subseteq c
                                      /\ "vpnKey" \in c => "vpn" \in c
                                      /\ AssertRealMoneyReady(c)}
  /\ kyc = [p \in Persons |-> [status |-> "none", cleared |-> FALSE, of |-> 0]]
  /\ review = [p \in Persons |-> [n |-> 0, open |-> FALSE, verdict |-> "none"]]
  /\ hooks = {} /\ hits = [p \in Persons |-> 0] /\ expires = [p \in Persons |-> 0]
  /\ tick = 0 /\ passed = {} /\ seen = {} /\ asks = 0

Tick ==
  /\ tick < MaxTick /\ tick' = tick + 1
  /\ UNCHANGED <<cfg, kyc, review, hooks, hits, expires, passed, seen, asks>>

-----------------------------------------------------------------------------
(* Identity.                                                               *)

\* isCleared: may move real money.
IsCleared(p) == kyc[p].status = "approved" /\ kyc[p].cleared

\* POST /kyc/start: an approved user is refused, a pending one is left as is.
KycStart(p) ==
  /\ "kycEnabled" \in cfg /\ kyc[p].status \notin {"approved", "pending"}
  /\ review[p].n < MaxReviews
  /\ kyc' = [kyc EXCEPT ![p] = [status |-> "pending", cleared |-> @.cleared, of |-> @.of]]
  /\ review' = [review EXCEPT ![p] = [n |-> @.n + 1, open |-> TRUE, verdict |-> "none"]]
  /\ UNCHANGED <<cfg, hooks, hits, expires, tick, passed, seen, asks>>

\* The provider decides (external); a review on hold stays open, and an approval may be
\* revised: one the platform has applied is past hearing that.
Decide(p, v) ==
  /\ review[p].open \/ (review[p].verdict = "approved" /\ v = "rejected")
  /\ IsCleared(p) => "revised" \in GateWindows
  /\ review' = [review EXCEPT ![p].open = (v = "onHold"), ![p].verdict = v]
  /\ hooks' = hooks \cup {[ref |-> p, status |-> v, review |-> review[p].n]}
  /\ UNCHANGED <<cfg, kyc, hits, expires, tick, passed, seen, asks>>

MapStatus(v) == CASE v \in {"approved", "flagged"} -> "approved"
                 [] v = "rejected" -> v
                 [] OTHER -> "pending"

\* A webhook that takes any signed verdict, whatever the status of the user.
PendingOrNot(p) == TRUE
Pending(p) == kyc[p].status = "pending"

\* verifySignature: over the reference and the status, good for ever, naming no review.
Signed(h) == h \in hooks

\* applyWebhook: acts on a pending user only.
ApplyWebhook(h) ==
  LET p == h.ref
      s == MapStatus(h.status) IN
  /\ Signed(h) /\ Pending(p)
  /\ kyc[p].status = "pending" /\ (h.review # review[p].n \/ h.status # review[p].verdict)
       => "late_verdict" \in GateWindows
  /\ kyc' = [kyc EXCEPT ![p] = [status |-> s, cleared |-> (h.status = "approved"), of |-> h.review]]
  /\ UNCHANGED <<cfg, review, hooks, hits, expires, tick, passed, seen, asks>>

-----------------------------------------------------------------------------
(* The routes of the controllers. Nobody has to be signed in for what is   *)
(* merely "read"; "own" reads the caller's data; "moves" is real money in  *)
(* or out. A guard is a JwtAuthGuard, a KycGuard, an assertAdmin, the      *)
(* BET_THROTTLE, or the shared secret of the jobs; "burst" is the sign-in  *)
(* ceiling.                                                                *)

AuthRoutes == {
  <<"enters", {"burst"}>>,             \* nonce, verify, privy, refresh
  <<"edits", {"jwt"}>>}                \* logout, logout-all
UserRoutes == {
  <<"own", {"jwt"}>>,                  \* me, wallets, bets, stats
  <<"edits", {"jwt"}>>}                \* me, age-ack, accept-legal, connection, wallets
LimitRoutes == {
  <<"own", {"jwt"}>>,                  \* the limits set
  <<"edits", {"jwt"}>>}                \* limits, cool-off, self-exclude
KycRoutes == {<<"edits", {"jwt"}>>}    \* start; the webhook is ApplyWebhook
FairnessRoutes == {
  <<"reads", {}>>,                     \* verify, onchain
  <<"own", {"jwt"}>>,                  \* seed
  <<"edits", {"jwt"}>>}                \* seed/client, seed/rotate

CrashRoutes == {
  <<"reads", {}>>,                     \* snapshot
  <<"spends", {"jwt", "bet"}>>,        \* bet, cashout
  <<"spends", {"jwt"}>>}               \* schedule, schedule/cancel
LotteryRoutes == {
  <<"reads", {}>>,                     \* current, recent, price, results, jackpot-winners
  <<"own", {"jwt"}>>,                  \* my-stats, my-tickets, free-tickets
  <<"spends", {"jwt", "bet"}>>,        \* ticket, ticket/free
  <<"spends", {"jwt"}>>,               \* confirm, faucet
  <<"administers", {"jwt", "admin"}>>} \* draw/run
BlackjackRoutes == {
  <<"reads", {}>>,                     \* tables, tables/:id
  <<"spends", {"jwt"}>>}               \* lobby/find, solo, seat, leave, bet, clear-bet, action
CoinflipRoutes == {
  <<"reads", {}>>,                     \* open, recent
  <<"own", {"jwt"}>>,                  \* mine
  <<"spends", {"jwt", "bet"}>>,        \* create, house, join
  <<"spends", {"jwt"}>>}               \* cancel
JackpotRoutes == {
  <<"reads", {}>>,                     \* current, recent, rounds/:id
  <<"own", {"jwt"}>>,                  \* my-entries
  <<"spends", {"jwt", "bet"}>>}        \* enter
MinesRoutes == {
  <<"spends", {"jwt", "bet"}>>,        \* start, pick, cashout
  <<"own", {"jwt"}>>}                  \* active
HiloRoutes == {
  <<"spends", {"jwt", "bet"}>>,        \* start, guess, cashout
  <<"own", {"jwt"}>>}                  \* active
TowerRoutes == {
  <<"spends", {"jwt", "bet"}>>,        \* start, pick, cashout
  <<"own", {"jwt"}>>}                  \* active
DiceRoutes == {<<"spends", {"jwt", "bet"}>>}     \* play
LimboRoutes == {<<"spends", {"jwt", "bet"}>>}    \* play
KenoRoutes == {<<"spends", {"jwt", "bet"}>>}     \* play
PlinkoRoutes == {<<"spends", {"jwt", "bet"}>>}   \* play
WheelRoutes == {<<"spends", {"jwt", "bet"}>>}    \* play

\* Custody without the identity guard on the way in and out.
UncheckedCustody == {<<"reads", {}>>, <<"own", {"jwt"}>>, <<"moves", {"jwt", "bet"}>>}
CustodyRoutes == {
  <<"reads", {}>>,                     \* config
  <<"own", {"jwt"}>>,                  \* transfers
  <<"moves", {"jwt", "kyc", "bet"}>>,  \* deposits, withdrawals
  <<"scans", {"jwt", "bet"}>>}         \* deposits/scan
VaultRoutes == {
  <<"reads", {}>>,                     \* pools
  <<"own", {"jwt"}>>,                  \* positions
  <<"spends", {"jwt"}>>}               \* deposit, withdraw
StakingRoutes == {
  <<"own", {"jwt"}>>,                  \* summary, auto-stake, earn-rate
  <<"edits", {"jwt"}>>,                \* auto-stake
  <<"spends", {"jwt"}>>}               \* stake, claim-and-stake, unstake
RewardRoutes == {
  <<"own", {"jwt"}>>,                  \* summary, claims
  <<"edits", {"jwt"}>>}                \* claim
AffiliateRoutes == {
  <<"own", {"jwt"}>>,                  \* stats, recent
  <<"edits", {"jwt"}>>}                \* claim
AirdropRoutes == {
  <<"reads", {}>>,                     \* next, pool
  <<"own", {"jwt"}>>,                  \* eligibility, case/status
  <<"spends", {"jwt"}>>,               \* tip, case/open
  <<"administers", {"jwt", "admin"}>>} \* run
SwapRoutes == {
  <<"reads", {}>>,                     \* pool, trades, burns
  <<"administers", {"jwt", "admin"}>>} \* burns/run
EngineRoutes == {
  <<"reads", {}>>,                     \* summary, rounds, state, blocks, leaderboard
  <<"own", {"jwt"}>>}                  \* me
LeaderboardRoutes == {<<"reads", {}>>} \* volume, profit, window, race
AdminRoutes == {<<"administers", {"jwt", "admin"}>>}
JobRoutes == {<<"runs", {"secret"}>>}

Routes == UNION {
  AuthRoutes, UserRoutes, LimitRoutes, KycRoutes, FairnessRoutes, CrashRoutes,
  LotteryRoutes, BlackjackRoutes, CoinflipRoutes, JackpotRoutes, MinesRoutes,
  HiloRoutes, TowerRoutes, DiceRoutes, LimboRoutes, KenoRoutes, PlinkoRoutes,
  WheelRoutes, CustodyRoutes, VaultRoutes, StakingRoutes, RewardRoutes,
  AffiliateRoutes, AirdropRoutes, SwapRoutes, EngineRoutes, LeaderboardRoutes,
  AdminRoutes, JobRoutes}

-----------------------------------------------------------------------------
(* One request.                                                            *)

\* Where it comes from and what it says of that: a header only the proxy sets truly.
Plausible(x) == x.proxied => x.header = x.from
Places == {x \in [from : Countries, header : Countries \cup {"none"}, proxied : BOOLEAN,
                  vpn : BOOLEAN, provider : {"up", "down"}] : Plausible(x)}
Home == [from |-> "open", header |-> "open", proxied |-> TRUE, vpn |-> FALSE, provider |-> "up"]

\* What is asked for, and as whom.
Errands == [as : {"nobody", "player", "admin", "cron"}, route : Routes]
Wager == [as |-> "player", route |-> <<"spends", {"jwt", "bet"}>>]

\* Headers believed whoever sent them.
TrustAnyone(x) == TRUE
\* With a secret configured, only the proxy's headers count.
HeadersAreTrusted(x) == "proxySecret" \in cfg => x.proxied

CountryOf(x) == IF HeadersAreTrusted(x) THEN x.header ELSE "none"

\* score: nothing without a key, an error when the provider is down.
Score(x) == CASE "vpnKey" \notin cfg -> "low"
              [] x.provider = "down" -> "error"
              [] OTHER -> IF x.vpn THEN "high" ELSE "low"

\* canActivate of the geo guard: closed for real money, open in the demo.
GeoAllows(x) ==
  /\ "realMoney" \in cfg => CountryOf(x) # "none"
  /\ CountryOf(x) # "blocked"
  /\ "vpn" \in cfg => CASE Score(x) = "error" -> "realMoney" \notin cfg
                        [] OTHER -> Score(x) # "high"

SignedIn(q) == q.as \in {"player", "admin"}

AssertAdmin(q) == q.as = "admin"
HasSecret(q) == q.as = "cron"

\* The guards of the route: the JWT guard, assertAdmin, and the one of the jobs' secret.
Credentials(q) ==
  LET needs == q.route[2] IN
  /\ "jwt" \in needs => SignedIn(q)
  /\ "admin" \in needs => AssertAdmin(q)
  /\ "secret" \in needs => HasSecret(q)

KycAllows(p, q) == "kyc" \in q.route[2] /\ "kycEnabled" \in cfg => IsCleared(p)

\* A counter of each process instead of one in Redis.
LocalCount(p, r) == Cardinality({x \in passed : x.who = p /\ x.on = r /\ x.until > tick})
\* The script: the first hit of a window sets its end.
Count(p, r) == IF tick >= expires[p] THEN 0 ELSE hits[p]

\* increment is done before the limit is looked at; a Redis that is down allows.
Throttled(p, r) == Count(p, r) + 1 > Limit

\* What the guards are there to find out.
Verified(x) ==
  /\ x.proxied /\ x.from = "open"
  /\ "vpn" \in cfg => ~x.vpn /\ x.provider = "up"

\* Who may have a handler do what it does.
Entitled(p, q) ==
  CASE q.route[1] \in {"own", "edits", "spends", "scans"} -> SignedIn(q)
    [] q.route[1] = "moves" -> SignedIn(q) /\ ("kycEnabled" \in cfg => review[p].verdict = "approved")
    [] q.route[1] = "administers" -> q.as = "admin"
    [] q.route[1] = "runs" -> q.as = "cron"
    [] OTHER -> TRUE

\* The geo guard, then the throttler, then the guards of the route; a request that no
\* counter saw and that shows nothing new is a stutter, and one from elsewhere that shows
\* nothing new is one from home. A caller is counted by its account, and only the burst
\* cap of the wagers is low enough to be reached here. The place matters to the geo guard
\* alone and the errand to the others: each is varied while the other is ordinary.
Ask(p, x, q, r, redisUp) ==
  LET ends == IF tick >= expires[p] THEN tick + WindowTicks ELSE expires[p]
      counted == "bet" \in q.route[2] /\ SignedIn(q)
      capped == counted /\ redisUp
      through == (capped => ~Throttled(p, r)) /\ Credentials(q) /\ KycAllows(p, q)
      fact == [ok |-> Verified(x), entitled |-> Entitled(p, q)]
  IN
  /\ ~redisUp => "redis_down" \in GateWindows
  /\ counted => asks < MaxAsks
  /\ asks' = IF counted THEN asks + 1 ELSE asks
  /\ GeoAllows(x) /\ ((capped /\ x = Home) \/ (through /\ fact \notin seen))
  /\ hits' = [hits EXCEPT ![p] = IF capped THEN Count(p, r) + 1 ELSE @]
  /\ expires' = [expires EXCEPT ![p] = IF capped THEN ends ELSE @]
  /\ passed' = IF through /\ counted
                 THEN passed \cup {[who |-> p, on |-> r, until |-> ends, n |-> asks]}
                 ELSE passed
  /\ seen' = IF through THEN seen \cup {fact} ELSE seen
  /\ UNCHANGED <<cfg, kyc, review, hooks, tick>>

GatesNext ==
  \/ Tick
  \/ \E p \in Persons : KycStart(p) \/ \E v \in Verdicts : Decide(p, v)
  \/ \E h \in hooks : ApplyWebhook(h)
  \/ \E p \in Persons, r \in Replicas, up \in BOOLEAN :
       \/ \E x \in Places : Ask(p, x, Wager, r, up)
       \/ \E q \in Errands : Ask(p, Home, q, r, up)

GatesSpec == GatesInit /\ [][GatesNext]_gateVars

-----------------------------------------------------------------------------
(* The state has its types.                                                *)
GatesTypeOK ==
  /\ cfg \subseteq Switches /\ tick \in 0..MaxTick /\ asks \in 0..MaxAsks
  /\ \A p \in Persons : kyc[p].status \in {"none", "pending", "approved", "rejected"}
  /\ hits \in [Persons -> Nat]

(* With real money on, whatever is let through came through the proxy from *)
(* a country that is not blocked, and not over a VPN where those are       *)
(* looked for: no caller declares its own region (geo.guard.ts).           *)
RealMoneyVerified ==
  "realMoney" \in cfg => \A x \in seen : x.ok

(* Nobody gets past the guards of a route to what they may not have done:  *)
(* real money moves only for a player whom the provider has approved, and  *)
(* cleared of sanctions, in its last review, whichever of its verdicts are *)
(* delivered again; only an administrator forces a draw, a drop or a burn, *)
(* only the scheduler runs the jobs, and nobody plays without a session.   *)
OnlyTheEntitled == \A x \in seen : x.entitled

(* A player gets no more wagers than the limit through in one window, over *)
(* all the replicas together.                                              *)
BurstsCapped ==
  \A p \in Persons :
    Cardinality({x \in passed : x.who = p /\ x.until > tick /\ tick < expires[p]}) <= Limit
=============================================================================
