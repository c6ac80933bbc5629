----------------------------- MODULE VeilProofs -----------------------------
(***************************************************************************)
(* The door of a Veil server: a token opens one stream at most, for any     *)
(* number of tokens and any length of time, and the users that are let in   *)
(* are the subscriptions that were granted, under a configuration that has  *)
(* a section for them.                                                      *)
(*                                                                          *)
(* Where the horizon of two skews comes from: a nonce is thrown away when   *)
(* its token is two skews old on the server's clock; the clock, set back by *)
(* one skew at most, then still shows it too old.                           *)
(***************************************************************************)
EXTENDS VeilTokens, VeilSubs, TLAPS

TokensTypeOK ==
  /\ clock \in Nat /\ latest \in Nat
  /\ made \in [Tokens -> Nat]
  /\ accepted \in SUBSET Tokens

\* The clock is behind where it has been by a setback at most.
ClockInv == clock <= latest /\ latest <= clock + Setback

\* A token that was accepted is remembered, or was too old at some time.
Remembered == \A t \in accepted : t \in replay \/ made[t] + 2 * MaxSkew < latest

TokensInv == TokensTypeOK /\ ClockInv /\ Remembered /\ AcceptedOnce

LEMMA InitiallyTokens == TokensInit => TokensInv
  BY TokensAssumption
  DEF TokensInit, TokensInv, TokensTypeOK, ClockInv, Remembered, AcceptedOnce, Times

\* A token that was accepted and forgotten is not fresh.
LEMMA ForgottenIsStale ==
  ASSUME TokensInv, NEW t \in accepted, t \notin replay
  PROVE  ~Fresh(t)
<1>1. made[t] \in Nat
  BY DEF TokensInv, TokensTypeOK
<1>2. made[t] + 2 * MaxSkew < latest
  BY DEF TokensInv, Remembered
<1>. QED  BY <1>1, <1>2, TokensAssumption DEF TokensInv, TokensTypeOK, ClockInv, Fresh

LEMMA TokensStep == TokensInv /\ [TokensNext]_tokenVars => TokensInv'
<1> SUFFICES ASSUME TokensInv, [TokensNext]_tokenVars PROVE TokensInv'
  OBVIOUS
<1> USE DEF TokensInv
<1>1. ASSUME NEW t \in Tokens, Auth(t) PROVE TokensInv'
  <2>1. TokensTypeOK' /\ ClockInv'
    BY <1>1 DEF Auth, TokensTypeOK, ClockInv
  <2>2. Remembered'
    BY <1>1 DEF Auth, Remembered
  <2>3. AcceptedOnce'
    <3>1. t \notin replay => t \notin accepted
      BY <1>1, ForgottenIsStale DEF Auth
    <3>. QED  BY <1>1, <3>1 DEF Auth, AcceptedOnce
  <2>. QED  BY <2>1, <2>2, <2>3
<1>2. CASE Retain
  <2>1. TokensTypeOK' /\ ClockInv' /\ AcceptedOnce'
    BY <1>2 DEF Retain, TokensTypeOK, ClockInv, AcceptedOnce
  <2>2. ASSUME NEW t \in accepted, t \in replay, ~Retained(t)
        PROVE  made[t] + 2 * MaxSkew < latest
    <3>1. made[t] \in Nat
      BY DEF TokensTypeOK
    <3>. QED  BY <3>1, <2>2, TokensAssumption DEF Retained, TokensTypeOK, ClockInv
  <2>3. Remembered'
    BY <1>2, <2>2 DEF Retain, Remembered
  <2>. QED  BY <2>1, <2>3
<1>3. CASE Clock
  <2>1. clock' \in Nat /\ latest' \in Nat /\ latest <= latest'
    BY <1>3, TokensAssumption DEF Clock, Times, TokensTypeOK
  <2>2. TokensTypeOK' /\ AcceptedOnce'
    BY <1>3, <2>1 DEF Clock, TokensTypeOK, AcceptedOnce
  <2>3. ClockInv'
    <3>1. PICK now \in Nat : now = clock'
      BY <2>1
    <3>2. now + Setback >= latest /\ latest' = IF now > latest THEN now ELSE latest
      BY <1>3, <3>1 DEF Clock
    <3>3. now <= latest' /\ latest' <= now + Setback
      BY <3>2, TokensAssumption DEF TokensTypeOK
    <3>. QED  BY <3>1, <3>3 DEF ClockInv
  <2>4. ASSUME NEW t \in accepted, made[t] + 2 * MaxSkew < latest
        PROVE  made[t] + 2 * MaxSkew < latest'
    <3>1. made[t] \in Nat
      BY DEF TokensTypeOK
    <3>. QED  BY <3>1, <2>1, <2>4, TokensAssumption DEF TokensTypeOK
  <2>5. Remembered'
    BY <1>3, <2>4 DEF Clock, Remembered
  <2>. QED  BY <2>2, <2>3, <2>5
<1>4. CASE UNCHANGED tokenVars
  BY <1>4 DEF tokenVars, TokensTypeOK, ClockInv, Remembered, AcceptedOnce
<1>. QED  BY <1>1, <1>2, <1>3, <1>4 DEF TokensNext

(* No token opens a second stream on one life of the server (auth and the   *)
(* horizon of housekeeping in server.rs), however many there are.           *)
THEOREM TokensAreAcceptedOnce == TokensSpec => []AcceptedOnce
<1>1. TokensInv => AcceptedOnce
  BY DEF TokensInv
<1>. QED  BY InitiallyTokens, TokensStep, <1>1, PTL DEF TokensSpec

----------------------------------------------------------------------------
(* Subscriptions.                                                           *)

Configs == [version : Nat, section : BOOLEAN]
RequestType ==
  {Out} \cup [at : {"fetch", "alive", "gone", "save", "apply"}, id : Ids, cfg : Configs]

SubsTypeOK ==
  /\ request \in [Requests -> RequestType]
  /\ state.cfg \in Configs /\ disk \in Configs

Applies(r) == request[r].at \in {"save", "apply"}

SubsInv == SubsTypeOK /\ UsersFollow

LEMMA InitiallySubs == SubsInit => SubsInv
BY DEF SubsInit, SubsInv, SubsTypeOK, RequestType, Configs, UsersFollow

\* Where the other requests are, when one goes on.
LEMMA GoesOn ==
  ASSUME SubsInv, NEW r \in Requests, request[r] # Out,
         NEW to \in {"alive", "gone", "save", "apply"}, Goes(r, to)
  PROVE  /\ request' \in [Requests -> RequestType]
         /\ request'[r].at = to /\ \A q \in Requests \ {r} : request'[q] = request[q]
<1>1. request[r] \in [at : {"fetch", "alive", "gone", "save", "apply"}, id : Ids, cfg : Configs]
  BY DEF SubsInv, SubsTypeOK, RequestType
<1>2. [request[r] EXCEPT !.at = to] \in RequestType
  BY <1>1 DEF RequestType
<1>. QED  BY <1>1, <1>2 DEF Goes, SubsInv, SubsTypeOK

LEMMA EndsRequest ==
  ASSUME SubsInv, NEW r \in Requests, request' = [request EXCEPT ![r] = Out]
  PROVE  /\ request' \in [Requests -> RequestType]
         /\ request'[r] = Out /\ \A q \in Requests \ {r} : request'[q] = request[q]
BY DEF SubsInv, SubsTypeOK, RequestType

LEMMA ServesKeeps ==
  ASSUME SubsInv, NEW r \in Requests, Serves(r)
  PROVE  SubsInv'
<1>1. CASE Fetched(r)
  <2>1. PICK answer \in Answers :
          IF answer = "error" THEN request' = [request EXCEPT ![r] = Out] ELSE Goes(r, answer)
    BY <1>1 DEF Fetched
  <2>2. request[r] # Out /\ ~Applies(r)
    BY <1>1 DEF Fetched, Out, Applies
  <2>3. /\ request' \in [Requests -> RequestType]
        /\ request'[r].at \notin {"save", "apply"} /\ \A q \in Requests \ {r} : request'[q] = request[q]
    <3>1. CASE answer = "error"
      BY <2>1, <3>1, EndsRequest DEF Out
    <3>2. CASE answer \in {"alive", "gone"}
      BY <2>1, <2>2, <3>2, GoesOn
    <3>. QED  BY <3>1, <3>2 DEF Answers
  <2>. QED  BY <1>1, <2>2, <2>3 DEF Fetched, Applies, SubsInv, SubsTypeOK, UsersFollow
<1>2. CASE Noted(r)
  <2>1. request[r] # Out /\ ~Applies(r)
    BY <1>2 DEF Noted, Out, Applies
  <2>2. CASE subs' = subs /\ request' = [request EXCEPT ![r] = Out]
    BY <1>2, <2>1, <2>2, EndsRequest DEF Noted, Applies, SubsInv, SubsTypeOK, UsersFollow
  <2>3. CASE Goes(r, "save")
    <3>1. request' \in [Requests -> RequestType] /\ request'[r].at = "save"
      BY <2>1, <2>3, GoesOn
    <3>. QED  BY <1>2, <3>1 DEF Noted, SubsInv, SubsTypeOK, UsersFollow
  <2>. QED  BY <1>2, <2>2, <2>3 DEF Noted
<1>3. CASE SaveNoted(r)
  <2>1. request' \in [Requests -> RequestType] /\ request'[r].at = "apply"
    BY <1>3, GoesOn DEF SaveNoted, Out
  <2>. QED  BY <1>3, <2>1 DEF SaveNoted, SubsInv, SubsTypeOK, UsersFollow
<1>4. CASE ApplyNoted(r)
  <2>1. request[r].cfg \in Configs
    <3>1. request[r] # Out
      BY <1>4 DEF ApplyNoted, Out
    <3>. QED  BY <3>1 DEF SubsInv, SubsTypeOK, RequestType
  <2>. QED  BY <1>4, <2>1, EndsRequest DEF ApplyNoted, Apply, LetIn, SubsInv, SubsTypeOK, UsersFollow
<1>. QED  BY <1>1, <1>2, <1>3, <1>4 DEF Serves

LEMMA KeepsKeeps == ASSUME SubsInv, Keeps PROVE SubsInv'
<1>1. CASE CheckSubs
  BY <1>1 DEF CheckSubs, AtRest, SubsInv, SubsTypeOK, UsersFollow
<1>2. CASE CheckOne
  BY <1>2 DEF CheckOne, SubsInv, SubsTypeOK, UsersFollow
<1>3. CASE RevokeAll
  <2>1. keeper.revoked = {} => subs' = subs
    BY <1>3 DEF RevokeAll
  <2>. QED  BY <1>3, <2>1 DEF RevokeAll, SubsInv, SubsTypeOK, UsersFollow
<1>4. CASE ApplyRevoked
  BY <1>4 DEF ApplyRevoked, Apply, LetIn, SubsInv, SubsTypeOK, UsersFollow
<1>5. CASE Reload
  BY <1>5 DEF Reload, AtRest, Apply, LetIn, SubsInv, SubsTypeOK, UsersFollow
<1>. QED  BY <1>1, <1>2, <1>3, <1>4, <1>5 DEF Keeps

LEMMA SubsStep == SubsInv /\ [SubsNext]_subsVars => SubsInv'
<1> SUFFICES ASSUME SubsInv, [SubsNext]_subsVars PROVE SubsInv'
  OBVIOUS
<1>1. ASSUME NEW r \in Requests, NEW id \in Ids, GetSubscription(r, id) PROVE SubsInv'
  <2>1. [at |-> "fetch", id |-> id, cfg |-> state.cfg] \in RequestType
    BY DEF RequestType, SubsInv, SubsTypeOK
  <2>2. /\ request' \in [Requests -> RequestType]
        /\ request'[r].at = "fetch" /\ \A q \in Requests \ {r} : request'[q] = request[q]
    BY <1>1, <2>1 DEF GetSubscription, SubsInv, SubsTypeOK
  <2>3. ~Applies(r)
    BY <1>1 DEF GetSubscription, Applies, Out
  <2>. QED  BY <1>1, <2>2, <2>3 DEF GetSubscription, Applies, SubsInv, SubsTypeOK, UsersFollow
<1>2. CASE PanelChanges
  BY <1>2 DEF PanelChanges, SubsInv, SubsTypeOK, UsersFollow
<1>3. CASE EditConfig
  BY <1>3 DEF EditConfig, Configs, SubsInv, SubsTypeOK, UsersFollow
<1>4. CASE RestartServer
  BY <1>4 DEF RestartServer, LetIn, AtRest, Out, SubsInv, SubsTypeOK, RequestType, UsersFollow
<1>5. CASE UNCHANGED subsVars
  BY <1>5 DEF subsVars, SubsInv, SubsTypeOK, UsersFollow
<1>. QED  BY <1>1, <1>2, <1>3, <1>4, <1>5, ServesKeeps, KeepsKeeps DEF SubsNext

(* The door lets in exactly the subscriptions granted, or none when the     *)
(* configuration has no section for them, whenever nobody has a change      *)
(* still to apply (apply of server.rs and its callers), for any number of   *)
(* subscriptions, of requests at once and of configurations.                *)
THEOREM UsersFollowSubs == SubsSpec => []UsersFollow
<1>1. SubsInv => UsersFollow
  BY DEF SubsInv
<1>. QED  BY InitiallySubs, SubsStep, <1>1, PTL DEF SubsSpec
=============================================================================
