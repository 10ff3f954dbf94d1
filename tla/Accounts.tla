------------------------------ MODULE Accounts ------------------------------
(***************************************************************************)
(* Accounts and their wallets: provisioning at the first sign-in with a    *)
(* wallet (auth.service.ts upsertUser) or through Privy (upsertPrivyUser), *)
(* and linking, promoting and unlinking wallets (users.service.ts).  The   *)
(* primary wallet is a unique column of the user, a linked one a row with  *)
(* a unique address; nothing in the schema relates the two, so the         *)
(* requests check one and then the other, an await between them.           *)
(***************************************************************************)
EXTENDS Naturals, FiniteSets

CONSTANTS
  Ids,        \* user rows
  Addresses,  \* Solana addresses
  Dids,       \* Privy users
  None,
  Callers,    \* concurrent requests
  AccountWindows,   \* windows of the code that are left open, see the README
  MaxRequests       \* bound on the requests

VARIABLES
  wallet,    \* User.walletAddress; None: no such row yet
  privy,     \* User.privyUserId
  referrer,  \* User.referredById
  banned,
  owner,     \* LinkedWallet: the user of an address
  req,       \* requests
  proved,    \* history: addresses a user has signed or linked with
  kept,      \* history: and has not unlinked since
  asked

accountVars == <<wallet, privy, referrer, banned, owner, req, proved, kept, asked>>
rowVars == <<wallet, privy, referrer, owner, proved, kept>>

Idle == [kind |-> "none", user |-> None, addr |-> None, did |-> None, at |-> "idle", saw |-> None]
Placeholder(d) == <<"privy", d>>
Exists(u) == wallet[u] # None
Primary(a) == {u \in Ids : wallet[u] = a}
OfDid(d) == {u \in Ids : privy[u] = d}

Init ==
  /\ wallet = [u \in Ids |-> None] /\ privy = [u \in Ids |-> None]
  /\ referrer = [u \in Ids |-> None] /\ banned = {}
  /\ owner = [a \in Addresses |-> None]
  /\ req = [r \in Callers |-> Idle]
  /\ proved = [u \in Ids |-> {}] /\ kept = [u \in Ids |-> {}] /\ asked = 0

Goto(r, at) == req' = [req EXCEPT ![r].at = at]
Answer(r, u) == req' = [req EXCEPT ![r].at = "done", ![r].user = u]
Fresh == {u \in Ids : ~Exists(u)}
NewId == CHOOSE u \in Fresh : \A v \in Fresh : u <= v

\* A request that writes on what it read before a peer changed it.
InWindow(name, stillTrue) == stillTrue \/ name \in AccountWindows

Begin(r, kind, u, a, d, at) ==
  /\ req[r].at \in {"idle", "done", "failed"} /\ asked < MaxRequests
  /\ asked' = asked + 1
  /\ req' = [req EXCEPT ![r] = [kind |-> kind, user |-> u, addr |-> a, did |-> d, at |-> at, saw |-> None]]
  /\ UNCHANGED <<rowVars, banned>>

SignIn(r, a) == Begin(r, "siws", None, a, None, "find")
PrivyLogin(r, d, a) == Begin(r, "privy", None, a, d, "find")
AskLink(r, u, a) == Exists(u) /\ Begin(r, "link", u, a, None, "me")
AskPromote(r, u, a) == Exists(u) /\ Begin(r, "promote", u, a, None, "me")
AskUnlink(r, u, a) == Exists(u) /\ Begin(r, "unlink", u, a, None, "owned")

-----------------------------------------------------------------------------
(* Provisioning.                                                           *)

\* The user of the wallet, or of the Privy id.
Find(r) ==
  LET q == req[r]
      found == IF q.kind = "siws" THEN Primary(q.addr) ELSE OfDid(q.did)
  IN
  /\ q.at = "find"
  /\ IF found # {} THEN \E u \in found : Answer(r, u)
     ELSE Goto(r, IF q.addr = None THEN "create" ELSE "linked")
  /\ UNCHANGED <<rowVars, banned, asked>>

\* A linked address resolves to its owner.
FindLinked(r) ==
  LET q == req[r] IN
  /\ q.kind \in {"siws", "privy"} /\ q.at = "linked"
  /\ IF owner[q.addr] # None THEN Answer(r, owner[q.addr]) ELSE Goto(r, "create")
  /\ UNCHANGED <<rowVars, banned, asked>>

\* resolveReferrer: a code of one's own wallet or Privy id counts for nothing.
Referrers(q) ==
  {None} \cup {u \in Ids : Exists(u) /\ wallet[u] # q.addr /\ (q.did # None => privy[u] # q.did)}

\* The insert, unless a unique column is taken.
Create(r) ==
  LET q == req[r]
      address == IF q.addr = None THEN Placeholder(q.did) ELSE q.addr
      taken == Primary(address) \cup (IF q.did = None THEN {} ELSE OfDid(q.did))
      u == NewId
  IN
  /\ q.at = "create"
  /\ IF taken # {} THEN Goto(r, "retry") /\ UNCHANGED rowVars
     ELSE
       /\ Fresh # {} /\ (q.addr # None => InWindow("late_signup", owner[q.addr] = None))
       /\ wallet' = [wallet EXCEPT ![u] = address]
       /\ privy' = [privy EXCEPT ![u] = q.did]
       /\ \E by \in Referrers(q) : referrer' = [referrer EXCEPT ![u] = by]
       /\ proved' = [proved EXCEPT ![u] = {q.addr} \ {None}]
       /\ kept' = [kept EXCEPT ![u] = {q.addr} \ {None}]
       /\ Answer(r, u) /\ UNCHANGED owner
  /\ UNCHANGED <<banned, asked>>

\* The winner of the race is read again; a Privy login whose wallet signed up alone is refused.
Retry(r) ==
  LET q == req[r]
      found == IF q.kind = "siws" THEN Primary(q.addr) ELSE OfDid(q.did)
  IN
  /\ q.at = "retry"
  /\ IF found # {} THEN \E u \in found : Answer(r, u) ELSE Goto(r, "failed")
  /\ UNCHANGED <<rowVars, banned, asked>>

-----------------------------------------------------------------------------
(* Linked wallets.                                                         *)

\* The request's own row is read: a banned account changes nothing.
ReadMe(r) ==
  LET q == req[r] IN
  /\ q.at = "me"
  /\ IF q.user \in banned \/ wallet[q.user] = q.addr THEN Goto(r, "failed")
     ELSE req' = [req EXCEPT ![r].saw = wallet[q.user],
                             ![r].at = IF q.kind = "link" THEN "primary" ELSE "swap"]
  /\ UNCHANGED <<rowVars, banned, asked>>

LinkPrimary(r) ==
  /\ req[r].at = "primary"
  /\ Goto(r, IF Primary(req[r].addr) = {} THEN "linked" ELSE "failed")
  /\ UNCHANGED <<rowVars, banned, asked>>

LinkLinked(r) ==
  /\ req[r].kind = "link" /\ req[r].at = "linked"
  /\ Goto(r, IF owner[req[r].addr] = None THEN "insert" ELSE "failed")
  /\ UNCHANGED <<rowVars, banned, asked>>

\* The insert; the address is unique among linked wallets.
Link(r) ==
  LET q == req[r] IN
  /\ q.at = "insert"
  /\ IF owner[q.addr] # None THEN Goto(r, "failed") /\ UNCHANGED rowVars
     ELSE
       /\ InWindow("late_link", Primary(q.addr) = {})
       /\ owner' = [owner EXCEPT ![q.addr] = q.user]
       /\ proved' = [proved EXCEPT ![q.user] = @ \cup {q.addr}]
       /\ kept' = [kept EXCEPT ![q.user] = @ \cup {q.addr}]
       /\ Goto(r, "done") /\ UNCHANGED <<wallet, privy, referrer>>
  /\ UNCHANGED <<banned, asked>>

\* Whoever the address is linked to.
AnyLinked(q) == owner[q.addr] # None

\* deleteMany { address, userId } found the row.
Owned(q) == owner[q.addr] = q.user

\* setPrimaryWallet's transaction; a taken address rolls it back.
Swap(r) ==
  LET q == req[r] IN
  /\ q.at = "swap"
  /\ IF ~Owned(q) \/ (q.saw \in Addresses /\ owner[q.saw] # None) \/ Primary(q.addr) # {}
       THEN Goto(r, "failed") /\ UNCHANGED rowVars
     ELSE
       /\ InWindow("stale_promote", wallet[q.user] = q.saw)
       /\ owner' = [a \in Addresses |-> IF a = q.saw THEN q.user ELSE IF a = q.addr THEN None ELSE owner[a]]
       /\ wallet' = [wallet EXCEPT ![q.user] = q.addr]
       /\ Goto(r, "done") /\ UNCHANGED <<privy, referrer, proved, kept>>
  /\ UNCHANGED <<banned, asked>>

ReadLinked(r) ==
  /\ req[r].at = "owned"
  /\ Goto(r, IF Owned(req[r]) THEN "delete" ELSE "failed")
  /\ UNCHANGED <<rowVars, banned, asked>>

\* The delete is by address alone.
Unlink(r) ==
  LET q == req[r] IN
  /\ q.at = "delete"
  /\ IF owner[q.addr] = None THEN Goto(r, "failed") /\ UNCHANGED rowVars
     ELSE
       /\ InWindow("stale_unlink", Owned(q))
       /\ owner' = [owner EXCEPT ![q.addr] = None]
       /\ kept' = [kept EXCEPT ![q.user] = @ \ {q.addr}]
       /\ Goto(r, "done") /\ UNCHANGED <<wallet, privy, referrer, proved>>
  /\ UNCHANGED <<banned, asked>>

Ban(u) ==
  /\ Exists(u) /\ u \notin banned
  /\ banned' = banned \cup {u}
  /\ UNCHANGED <<rowVars, req, asked>>

Next ==
  \/ \E r \in Callers :
       \/ \E a \in Addresses : SignIn(r, a) \/ \E u \in Ids : AskLink(r, u, a) \/ AskPromote(r, u, a) \/ AskUnlink(r, u, a)
       \/ \E d \in Dids, a \in Addresses \cup {None} : PrivyLogin(r, d, a)
       \/ Find(r) \/ FindLinked(r) \/ Create(r) \/ Retry(r)
       \/ ReadMe(r) \/ LinkPrimary(r) \/ LinkLinked(r) \/ Link(r) \/ Swap(r)
       \/ ReadLinked(r) \/ Unlink(r)
  \/ \E u \in Ids : Ban(u)

Spec == Init /\ [][Next]_accountVars

-----------------------------------------------------------------------------
AccountsTypeOK ==
  /\ owner \in [Addresses -> Ids \cup {None}] /\ banned \subseteq Ids
  /\ referrer \in [Ids -> Ids \cup {None}] /\ privy \in [Ids -> Dids \cup {None}]
  /\ \A u \in Ids : proved[u] \subseteq Addresses

\* Whom a sign-in with the address reaches: the primary wallet is looked up first.
Reaches(a, u) == wallet[u] = a \/ (Primary(a) = {} /\ owner[a] = u)

(* A wallet an account has proved and not unlinked signs in to it, and to  *)
(* no other, through sign-ups that race, two promotions, and an unlink     *)
(* inside a promotion: "no check-then-act window" (users.service.ts:92).   *)
WalletsKept == \A u \in Ids : \A a \in kept[u] : Reaches(a, u) /\ Cardinality({v \in Ids : wallet[v] = a \/ owner[a] = v}) = 1

(* A sign-in, a Privy login and a promotion reach only an account that has *)
(* proved the wallet itself, or that was made for the Privy user.          *)
SignInsProved ==
  /\ \A r \in Callers : req[r].kind \in {"siws", "privy"} /\ req[r].at = "done" =>
       req[r].addr \in proved[req[r].user] \/ (req[r].did # None /\ privy[req[r].user] = req[r].did)
  /\ \A u \in Ids : wallet[u] \in Addresses => wallet[u] \in proved[u]
=============================================================================
