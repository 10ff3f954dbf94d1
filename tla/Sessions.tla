------------------------------ MODULE Sessions ------------------------------
(***************************************************************************)
(* AuthService for one account: a wallet signs a nonce to get a session,   *)
(* refresh calls rotate its tokens, JwtAuthGuard accepts an access token   *)
(* while its jti is the one on a live row.  A request awaits between its   *)
(* statements, so sign-ins, refreshes, logouts, bans and self-exclusions   *)
(* interleave.  Tokens are numbers in the order they are minted; an access *)
(* token and the refresh token minted with it have the same number.        *)
(***************************************************************************)
EXTENDS Naturals, FiniteSets

CONSTANTS
  Rows,        \* ids of Session rows
  SignIns,     \* sign-in requests
  Refreshes,   \* refresh requests
  MaxTokens,   \* bound: token pairs minted
  MaxNonces    \* bound: nonces issued

VARIABLES
  nonce,       \* the Redis key of the wallet: a nonce or 0; nonces are numbers
  issued,      \* nonces issued
  session,     \* Session rows
  call,        \* requests: where they are and what they have read
  standing,    \* banned and self-excluded flags of the user
  minted,      \* token pairs handed out
  parent,      \* the refresh token a pair was obtained with; 0 for a sign-in
  overlapped,  \* refresh tokens two refreshes held at once
  late,        \* requests past their gates when the user's standing changed
  spill        \* tokens minted by them

authVars == <<nonce, issued, session, call, standing, minted, parent, overlapped, late, spill>>
Requests == SignIns \cup Refreshes
NoSession == [jti |-> 0, cur |-> 0, prev |-> 0, expired |-> FALSE]
Idle == [at |-> "idle", token |-> 0, row |-> 0]

Init ==
  /\ nonce = 0 /\ issued = 0
  /\ session = [s \in Rows |-> NoSession]
  /\ call = [q \in Requests |-> Idle]
  /\ standing = [banned |-> FALSE, excluded |-> "no"]
  /\ minted = 0
  /\ parent = [t \in 1..MaxTokens |-> 0]
  /\ overlapped = {} /\ late = {} /\ spill = {}

Stored == {s \in Rows : session[s] # NoSession}
Live(t) == \E s \in Stored : session[s].jti = t /\ ~session[s].expired
Goto(q, at) == call' = [call EXCEPT ![q].at = at]
Spilt(q) == spill' = IF q \in late THEN spill \cup {minted + 1} ELSE spill
Done(q) == call' = [call EXCEPT ![q] = Idle] /\ late' = late \ {q}

-----------------------------------------------------------------------------
(* SiwsService.                                                            *)

\* A new nonce replaces the wallet's last one.
IssueNonce ==
  /\ issued < MaxNonces
  /\ issued' = issued + 1 /\ nonce' = issued + 1
  /\ UNCHANGED <<session, call, standing, minted, parent, overlapped, late, spill>>

NonceExpires ==
  /\ nonce # 0 /\ nonce' = 0
  /\ UNCHANGED <<issued, session, call, standing, minted, parent, overlapped, late, spill>>

\* verifySignature up to the signature; a bad one leaves the nonce.
VerifySignature(q) ==
  /\ call[q] = Idle /\ nonce # 0
  /\ call' = [call EXCEPT ![q] = [Idle EXCEPT !.at = "verified", !.token = nonce]]
  /\ UNCHANGED <<nonce, issued, session, standing, minted, parent, overlapped, late, spill>>

\* The answer of the delete is not looked at.
AnyDelete == TRUE

\* The first delete of the key wins; it deletes whatever nonce is there.
Deleted == nonce # 0

\* The nonce is consumed and the user is read, with the flags the gates look at.
ConsumeNonce(q) ==
  /\ call[q].at = "verified"
  /\ nonce' = 0
  /\ IF Deleted /\ ~standing.banned /\ standing.excluded = "no"
     THEN Goto(q, "gated") /\ UNCHANGED late
     ELSE Done(q)
  /\ UNCHANGED <<issued, session, standing, minted, parent, overlapped, spill>>

\* issueSession
IssueSession(q) ==
  /\ call[q].at = "gated" /\ q \in SignIns
  /\ minted < MaxTokens /\ minted' = minted + 1 /\ Spilt(q)
  /\ \E s \in Rows \ Stored :
       session' = [session EXCEPT ![s] = [NoSession EXCEPT !.jti = minted + 1, !.cur = minted + 1]]
  /\ Done(q)
  /\ UNCHANGED <<nonce, issued, standing, parent, overlapped>>

-----------------------------------------------------------------------------
(* refresh.                                                                *)

HolderOf(t) == {s \in Stored : session[s].cur = t}
RotatedOutOf(t) == {s \in Stored : session[s].prev = t}
Held(t) == \E q \in Refreshes : call[q].token = t /\ call[q].at \in {"found", "gated"}

\* The row of the presented hash, or the row it was rotated out of: a reuse.
RefreshFind(q, t) ==
  /\ call[q] = Idle /\ t \in 1..minted
  /\ \/ \E s \in HolderOf(t) :
          /\ call' = [call EXCEPT ![q] =
               [at |-> IF session[s].expired THEN "revoke" ELSE "found", token |-> t, row |-> s]]
          /\ overlapped' = IF Held(t) THEN overlapped \cup {t} ELSE overlapped
     \/ /\ HolderOf(t) = {}
        /\ \E s \in RotatedOutOf(t) : call' = [call EXCEPT ![q] = [at |-> "revoke", token |-> t, row |-> s]]
        /\ UNCHANGED overlapped
  /\ UNCHANGED <<nonce, issued, session, standing, minted, parent, late, spill>>

\* The exclusion is looked at when signing in only.
ExcludedAtSignIn == FALSE

\* A refresh looks at it again.
ExcludedNow == standing.excluded # "no"

RefreshGate(q) ==
  /\ call[q].at = "found"
  /\ Goto(q, IF ExcludedNow THEN "revoke" ELSE "gated")
  /\ UNCHANGED <<nonce, issued, session, standing, minted, parent, overlapped, late, spill>>

\* The new pair, with the old token not remembered.
Forgotten(s, t, n) == [session[s] EXCEPT !.jti = n, !.cur = n, !.expired = FALSE]

\* A new access token, the refresh token left as it is.
SameRefresh(s, t, n) == [session[s] EXCEPT !.jti = n, !.prev = t, !.expired = FALSE]

\* New tokens, the old access token still bound to the row.
SameJti(s, t, n) == [session[s] EXCEPT !.prev = t, !.cur = n, !.expired = FALSE]

\* The new pair on the same row; the token read is what is remembered.
Rotated(s, t, n) == [session[s] EXCEPT !.jti = n, !.prev = t, !.cur = n, !.expired = FALSE]

\* The update is by id: it also rotates a row rotated since; a deleted row fails the call.
RefreshRotate(q) ==
  LET s == call[q].row
      t == call[q].token
  IN
  /\ call[q].at = "gated" /\ q \in Refreshes
  /\ IF s \in Stored
     THEN /\ minted < MaxTokens /\ minted' = minted + 1 /\ Spilt(q)
          /\ session' = [session EXCEPT ![s] = Rotated(s, t, minted + 1)]
          /\ parent' = [parent EXCEPT ![minted + 1] = t]
     ELSE UNCHANGED <<minted, session, parent, spill>>
  /\ Done(q)
  /\ UNCHANGED <<nonce, issued, standing, overlapped>>

\* session.delete by id, for an expired, excluded or replayed row
RefreshRevoke(q) ==
  /\ call[q].at = "revoke"
  /\ session' = [session EXCEPT ![call[q].row] = NoSession]
  /\ Done(q)
  /\ UNCHANGED <<nonce, issued, standing, minted, parent, overlapped, spill>>

-----------------------------------------------------------------------------
(* Everything else that touches a session.                                 *)

Logout(t) ==
  /\ Live(t)
  /\ session' = [s \in Rows |-> IF session[s].jti = t THEN NoSession ELSE session[s]]
  /\ UNCHANGED <<nonce, issued, call, standing, minted, parent, overlapped, late, spill>>

LogoutAll ==
  /\ \E t \in 1..minted : Live(t)
  /\ session' = [s \in Rows |-> NoSession]
  /\ UNCHANGED <<nonce, issued, call, standing, minted, parent, overlapped, late, spill>>

SessionExpires(s) ==
  /\ s \in Stored /\ ~session[s].expired
  /\ session' = [session EXCEPT ![s].expired = TRUE]
  /\ UNCHANGED <<nonce, issued, call, standing, minted, parent, overlapped, late, spill>>

InFlight == {q \in Requests : call[q].at = "gated"}

\* banUser leaves the sessions.
BanUser ==
  /\ ~standing.banned /\ standing' = [standing EXCEPT !.banned = TRUE]
  /\ late' = InFlight
  /\ UNCHANGED <<nonce, issued, session, call, minted, parent, overlapped, spill>>

\* setSelfExclusion, by the user through a live session: the date first ...
SelfExclude ==
  /\ \E t \in 1..minted : Live(t)
  /\ standing.excluded = "no" /\ standing' = [standing EXCEPT !.excluded = "set"]
  /\ late' = InFlight
  /\ UNCHANGED <<nonce, issued, session, call, minted, parent, overlapped, spill>>

\* The sessions run out by themselves.
LeaveSessions == session

\* session.deleteMany of the user
DeleteSessions == [s \in Rows |-> NoSession]

\* ... then every session of the user.
EndSessions ==
  /\ standing.excluded = "set" /\ standing' = [standing EXCEPT !.excluded = "done"]
  /\ session' = DeleteSessions
  /\ UNCHANGED <<nonce, issued, call, minted, parent, overlapped, late, spill>>

Next ==
  \/ IssueNonce \/ NonceExpires \/ LogoutAll \/ BanUser \/ SelfExclude \/ EndSessions
  \/ \E q \in SignIns : VerifySignature(q) \/ ConsumeNonce(q) \/ IssueSession(q)
  \/ \E q \in Refreshes :
       \/ \E t \in 1..MaxTokens : RefreshFind(q, t)
       \/ RefreshGate(q) \/ RefreshRotate(q) \/ RefreshRevoke(q)
  \/ \E t \in 1..MaxTokens : Logout(t)
  \/ \E s \in Rows : SessionExpires(s)

Spec == Init /\ [][Next]_authVars

-----------------------------------------------------------------------------
AuthTypeOK ==
  /\ nonce \in 0..issued /\ minted \in 0..MaxTokens
  /\ \A s \in Rows : session[s].jti \in 0..minted /\ session[s].prev \in 0..minted
  /\ \A t \in 1..MaxTokens : parent[t] < t
  /\ overlapped \subseteq 1..minted /\ late \subseteq Requests

(* A nonce signs in once, "or a concurrent second verify is rejected":      *)
(* there are never more sign-ins than nonces were issued, however the       *)
(* deletes and new nonces fall between the requests' reads.                 *)
SignInsWithinNonces ==
  Cardinality({t \in 1..minted : parent[t] = 0}) + Cardinality({q \in SignIns : call[q].at = "gated"})
     <= issued

(* "A revoked or rotated-out access token is rejected despite a valid       *)
(* signature": what stopped working by logout, rotation, revocation or      *)
(* expiry never works again, whatever refresh was under way, and the access *)
(* token of a pair that was exchanged for a new one does not work.          *)
NoneRevived ==
  \A t \in 1..minted : Live(t)' => Live(t) /\ \A n \in DOMAIN parent : parent'[n] # t
DeadTokensStayDead == [][NoneRevived]_authVars

(* "The old refresh token is rejected on next use": one refresh token is    *)
(* exchanged for two pairs only by refreshes that held it together.         *)
ExchangedOnce ==
  \A t, u \in 1..minted : t # u /\ parent[t] = parent[u] /\ parent[t] # 0 => parent[t] \in overlapped

(* "Replaying an already-rotated token is treated as theft": whoever still  *)
(* holds the token the current pair was obtained with and presents it finds *)
(* the row it was rotated out of, and revokes it.                           *)
ReplayIsTheft ==
  \A s \in Stored : LET t == parent[session[s].cur]
                    IN t # 0 => s \in RotatedOutOf(t) /\ HolderOf(t) = {}

MintedInTime == \E q \in late : call[q].at = "gated" /\ call'[q] = Idle

(* "The exclusion can't be outlived by the refresh window": once a user is  *)
(* self-excluded no token is minted, except by a request that had passed    *)
(* its gate when the exclusion was set.                                     *)
NoneForExcluded == standing.excluded # "no" /\ minted' > minted => MintedInTime
ExclusionEndsMinting == [][NoneForExcluded]_authVars

(* "Self-exclusion must lock the account, not just future bets": once it is *)
(* done, no token works but one of a request that had passed its gate.      *)
ExclusionLocksAccount == standing.excluded = "done" => \A t \in 1..minted : Live(t) => t \in spill

(* "Banned users must not mint tokens/sessions": nor for a banned user.     *)
NoneForBanned == standing.banned /\ minted' > minted => MintedInTime
BannedMintNothing == [][NoneForBanned]_authVars
=============================================================================
