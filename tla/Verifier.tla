------------------------------ MODULE Verifier ------------------------------
(***************************************************************************)
(* The /fairness verifier (verifier-form.tsx over fair-browser.ts) and the *)
(* links that fill it in, against the engines' derivations.  A hash is the *)
(* tuple of what it folds; a seed, a beacon value and a paid winner are    *)
(* named after the round they belong to.                                   *)
(***************************************************************************)
EXTENDS Naturals, FiniteSets

CONSTANTS
  Rounds,      \* rounds that may settle
  Games,       \* of {"crash", "lottery", "jackpot", "mines"}
  Params,      \* mine counts a bet can have; the form starts with one of them
  DefaultParam,
  Links,       \* of {"page", "profile"}: where a Verify button may be pressed
  RelayFails   \* whether no drand relay may answer

VARIABLES
  settled,     \* a round: Open, or [game, mode, param, cheat]
  form,        \* the fields of the page
  asked,       \* the round the form was filled in for, and by which link
  check,       \* a compute() in flight
  shown        \* its result

verifierVars == <<settled, form, asked, check, shown>>

Open == [game |-> "none", mode |-> "plain", param |-> DefaultParam, cheat |-> "none"]
Blank == <<>>
BeaconGames == {"crash", "lottery", "jackpot"}
Modes(g) == IF g = "lottery" THEN {"beacon"} ELSE IF g \in BeaconGames THEN {"plain", "beacon"} ELSE {"plain"}

\* What an operator could change after the fact: the seed it reveals, the value it
\* says the beacon had, the result it pays, the winner it pays.
Cheats(g, mode) ==
  {"none", "seed", "result"} \cup (IF mode = "beacon" THEN {"entropy"} ELSE {})
  \cup (IF g = "jackpot" THEN {"winner"} ELSE {})

Is(r, c) == settled[r].cheat = c

-----------------------------------------------------------------------------
(* What the casino computes, publishes and pays.                           *)

Nothing == <<>>
Forged(v) == <<"forged", v>>
Beacon(r) == <<"drand", r>>
Revealed(r) == IF Is(r, "seed") THEN Forged(r) ELSE <<"seed", r>>
Recorded(r) == IF settled[r].mode # "beacon" THEN Nothing ELSE IF Is(r, "entropy") THEN Forged(r) ELSE Beacon(r)
Commitment(r) == <<"sha256", <<"seed", r>>>>

Derived(g, seed, client, entropy, param) ==
  <<g, seed, client, entropy, IF g = "mines" THEN param ELSE DefaultParam>>
Paid(r) ==
  IF Is(r, "result") THEN Forged(<<settled[r].game, r>>)
  ELSE Derived(settled[r].game, Revealed(r), r, Recorded(r), settled[r].param)
Holder(ticket) == <<"holder", ticket>>
Winner(r) == IF Is(r, "winner") THEN Forged(r) ELSE Holder(Paid(r))

Settle(r) ==
  /\ settled[r] = Open
  /\ \E g \in Games : \E m \in Modes(g), p \in (IF g = "mines" THEN Params ELSE {DefaultParam}) :
       \E c \in Cheats(g, m) : settled' = [settled EXCEPT ![r] = [game |-> g, mode |-> m, param |-> p, cheat |-> c]]
  /\ UNCHANGED <<form, asked, check, shown>>

-----------------------------------------------------------------------------
(* The form.                                                               *)

EmptyForm == [game |-> "crash", seed |-> Blank, client |-> Blank, commit |-> Blank,
              slot |-> Nothing, beacon |-> Nothing, param |-> DefaultParam, round |-> Blank]

\* The link leaves the beacon round out.
NoBeaconField(r) == Nothing

BeaconField(r) == IF settled[r].mode = "beacon" THEN r ELSE Nothing

\* fairnessHref: the game's own page passes what its result folded in.  An instant
\* game's seed is not revealed yet, and its link has no setting of the bet.
PageLink(r) ==
  [EmptyForm EXCEPT !.game = settled[r].game, !.client = r, !.commit = Commitment(r),
     !.seed = IF settled[r].game = "mines" THEN Blank ELSE Revealed(r),
     !.slot = IF settled[r].game \in {"crash", "lottery"} THEN Recorded(r) ELSE Nothing,
     !.beacon = BeaconField(r),
     !.round = IF settled[r].game = "jackpot" THEN r ELSE Blank]

\* VerifyLink of the bet history: the seeds and the nonce.
ProfileLink(r) ==
  [EmptyForm EXCEPT !.game = settled[r].game, !.seed = Revealed(r), !.client = r, !.commit = Commitment(r)]

\* The page mounts with the query's fields and defaults for the others.
Follow(r) ==
  /\ settled[r] # Open
  /\ \E l \in Links :
       /\ form' = IF l = "page" THEN PageLink(r) ELSE ProfileLink(r)
       /\ asked' = [round |-> r, link |-> l]
  /\ check' = [at |-> "idle"] /\ shown' = [game |-> "none"]
  /\ UNCHANGED settled

\* After a rotation the player types the seed, and the bet's setting or the default.
Complete(r) ==
  /\ asked.round = r /\ form.seed = Blank
  /\ \E p \in {settled[r].param, form.param} :
       /\ form' = [form EXCEPT !.seed = Revealed(r), !.param = p]
       /\ asked' = IF p = settled[r].param THEN asked ELSE [asked EXCEPT !.link = "default"]
  /\ UNCHANGED <<settled, check, shown>>

\* Bound: one edit of what a link filled in.
Unedited == asked.link \in Links

\* A click on another game: every other field stays.
SelectGame(g) ==
  /\ Unedited
  /\ form.game # g
  /\ form' = [form EXCEPT !.game = g] /\ asked' = [round |-> Blank, link |-> "edited"]
  /\ shown' = [game |-> "none"]
  /\ UNCHANGED <<settled, check>>

\* A field copied from another round.
Retype(r) ==
  /\ Unedited /\ settled[r] # Open /\ form.client # r
  /\ \/ form' = [form EXCEPT !.seed = Revealed(r), !.client = r, !.commit = Commitment(r)]
     \/ form' = [form EXCEPT !.beacon = BeaconField(r), !.slot = Recorded(r)]
     \/ form' = [form EXCEPT !.round = r]
  /\ asked' = [round |-> Blank, link |-> "edited"]
  /\ UNCHANGED <<settled, check, shown>>

-----------------------------------------------------------------------------
(* compute(): the closure keeps the fields of the click.                   *)

\* The Verify button is disabled while a check is loading.
Verify ==
  /\ check.at = "idle"
  /\ form.seed # Blank \/ (form.game = "jackpot" /\ form.round # Blank)
  /\ check' = [at |-> "beacon", f |-> form, for |-> asked]
  /\ shown' = [game |-> "none"]
  /\ UNCHANGED <<settled, form, asked>>

RoundSettled(f) == f.game = "jackpot" /\ f.round # Blank /\ settled[f.round].game = "jackpot"
Seed(f) == IF f.seed # Blank THEN f.seed ELSE Revealed(f.round)
Client(f) == IF f.client # Blank THEN f.client ELSE f.round

\* The recorded value, taken for the beacon's.
AsRecorded(f) == IF f.slot # Nothing THEN f.slot ELSE IF f.beacon = Nothing THEN Nothing ELSE Beacon(f.beacon)

\* beaconValue(): fetched from the public relays; the casino's copy is only compared.
BeaconValue(f) == IF f.game \in BeaconGames /\ f.beacon # Nothing THEN Beacon(f.beacon) ELSE Nothing

CasinosCopy(f) ==
  IF f.game \in {"crash", "lottery"} THEN f.slot
  ELSE IF RoundSettled(f) THEN Recorded(f.round) ELSE Nothing

\* An older draw is checked with the slot hash it published.
Entropy(f) == IF f.game = "lottery" /\ BeaconValue(f) = Nothing THEN f.slot ELSE BeaconValue(f)

Output(f) == Derived(f.game, Seed(f), Client(f), Entropy(f), f.param)

\* The ticket of the round, and whether its holder was paid.
JackpotChecks(f) == {Paid(f.round) = Output(f), Winner(f.round) = Holder(Output(f))}

\* The relays' value against the casino's copy.
BeaconChecks(f) ==
  IF BeaconValue(f) # Nothing /\ CasinosCopy(f) # Nothing THEN {CasinosCopy(f) = BeaconValue(f)} ELSE {}

CommitCheck(f) ==
  LET commit == IF f.commit # Blank THEN f.commit ELSE IF RoundSettled(f) THEN Commitment(f.round) ELSE Blank
  IN IF commit = Blank THEN {} ELSE {<<"sha256", Seed(f)>> = commit}

Present ==
  /\ check.at = "beacon"
  /\ check.f.game = "lottery" => Entropy(check.f) # Nothing
  /\ check.f.game = "jackpot" /\ check.f.round # Blank => RoundSettled(check.f)
  /\ shown' = [game |-> check.f.game, output |-> Output(check.f), for |-> check.for,
               checks |-> BeaconChecks(check.f) \cup CommitCheck(check.f)
                          \cup (IF RoundSettled(check.f) THEN JackpotChecks(check.f) ELSE {})]
  /\ check' = [at |-> "idle"]
  /\ UNCHANGED <<settled, form, asked>>

\* The relays do not answer, the draw has no entropy, or the round is not found.
Refuse ==
  /\ check.at = "beacon"
  /\ \/ RelayFails /\ BeaconValue(check.f) # Nothing
     \/ check.f.game = "lottery" /\ Entropy(check.f) = Nothing
     \/ check.f.game = "jackpot" /\ check.f.round # Blank /\ ~RoundSettled(check.f)
  /\ check' = [at |-> "idle"]
  /\ UNCHANGED <<settled, form, asked, shown>>

-----------------------------------------------------------------------------
VInit ==
  /\ settled = [r \in Rounds |-> Open] /\ form = EmptyForm
  /\ asked = [round |-> Blank, link |-> "edited"]
  /\ check = [at |-> "idle"] /\ shown = [game |-> "none"]

VNext ==
  \/ \E r \in Rounds : Settle(r) \/ Follow(r) \/ Complete(r) \/ Retype(r)
  \/ \E g \in Games : SelectGame(g)
  \/ Verify \/ Present \/ Refuse
VSpec == VInit /\ [][VNext]_verifierVars

-----------------------------------------------------------------------------
VerifierTypeOK ==
  /\ \A r \in Rounds : settled[r] = Open \/ settled[r].mode \in Modes(settled[r].game)
  /\ form.param \in Params /\ form.game \in Games
  /\ check.at \in {"idle", "beacon"}
  /\ shown.game = "none" \/ shown.checks \subseteq BOOLEAN

Answered(links) == shown.game # "none" /\ shown.for.link \in links
Subject == settled[shown.for.round]

(* An honest round verifies: followed from its own page, the verifier shows *)
(* the result that was paid and every check passes.                         *)
HonestRoundsVerify ==
  Answered({"page"}) /\ Subject.cheat = "none" => shown.output = Paid(shown.for.round) /\ FALSE \notin shown.checks

(* "Any mismatch is the user's proof that something was tampered with" -    *)
(* and tampering is a mismatch: a swapped seed, a beacon value the beacon   *)
(* never had, a result or a winner that does not follow shows up as another *)
(* result or a failed check.                                                *)
TamperingShows ==
  Answered({"page"}) /\ Subject.cheat # "none" => shown.output # Paid(shown.for.round) \/ FALSE \in shown.checks

(* "Every game's Verify button builds its URL here": from wherever a bet is *)
(* verified, with the settings the form starts with, an honest one is shown *)
(* as paid.                                                                 *)
EveryLinkReproduces ==
  Answered({"page", "profile", "default"}) /\ Subject.cheat = "none" => shown.output = Paid(shown.for.round)
=============================================================================
