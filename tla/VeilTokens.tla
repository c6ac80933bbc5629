---------------------------- MODULE VeilTokens -----------------------------
(***************************************************************************)
(* The server's door (auth of veil/src/server.rs): a token carries the time *)
(* its client made it, is accepted within MAX_SKEW of the server's clock,   *)
(* and only once, as long as its nonce is kept.  Nonces are thrown away     *)
(* every thirty seconds (housekeeping).                                     *)
(*                                                                          *)
(* The clock is the machine's, SystemTime: it may be set back, by Setback   *)
(* at most from where it has been.  auth has no await and takes the lock of *)
(* the table for its last step: it is one step here.                        *)
(***************************************************************************)
EXTENDS Naturals

CONSTANTS
  Tokens,    \* tokens clients make, one nonce each
  MaxSkew,   \* MAX_SKEW
  Setback,   \* how far the clock may be set back
  LastTime   \* (bound) how far the clock runs

ASSUME TokensAssumption ==
  /\ MaxSkew \in Nat /\ LastTime \in Nat
  /\ Setback \in Nat /\ Setback <= MaxSkew

VARIABLES
  clock,    \* now()
  latest,   \* (history) the latest time the clock has shown
  made,     \* Token.ts: the time each token carries
  replay,   \* Server.replay: nonces kept
  accepted, \* (history) tokens a stream was opened for
  twice     \* (history) tokens a second one was opened for

tokenVars == <<clock, latest, made, replay, accepted, twice>>

Times == 0 .. LastTime
Fresh(t) == made[t] <= clock + MaxSkew /\ clock <= made[t] + MaxSkew

\* auth.  The nonce of a fresh token is kept whether it was known or not.
Auth(t) ==
  /\ Fresh(t)
  /\ replay' = replay \cup {t}
  /\ IF t \in replay
     THEN UNCHANGED <<accepted, twice>>
     ELSE accepted' = accepted \cup {t} /\ twice' = twice \cup ({t} \cap accepted)
  /\ UNCHANGED <<clock, latest, made>>

RetainedMutant(t) == made[t] + MaxSkew >= clock

\* housekeeping: replay.retain; now() is not below zero.
Retained(t) == made[t] + 2 * MaxSkew >= clock

Retain ==
  /\ replay' = {t \in replay : Retained(t)}
  /\ UNCHANGED <<clock, latest, made, accepted, twice>>

\* The clock goes on, or is set back.
Clock ==
  /\ clock' \in Times
  /\ clock' + Setback >= latest
  /\ latest' = IF clock' > latest THEN clock' ELSE latest
  /\ UNCHANGED <<made, replay, accepted, twice>>

TokensInit ==
  /\ clock \in Times /\ latest = clock
  /\ made \in [Tokens -> Times]
  /\ replay = {} /\ accepted = {} /\ twice = {}

TokensNext == (\E t \in Tokens : Auth(t)) \/ Retain \/ Clock

TokensSpec == TokensInit /\ [][TokensNext]_tokenVars

----------------------------------------------------------------------------
(* No token opens a second stream, though nonces are thrown away and the    *)
(* clock may be set back by as much as a token's own clock may be off: what *)
(* is thrown away is fresh on no clock that may still come (server.rs,      *)
(* auth and the horizon of housekeeping, 2 * MAX_SKEW).                     *)
AcceptedOnce == twice = {}
=============================================================================
