------------------------------ MODULE VeilSubs -----------------------------
(***************************************************************************)
(* Who may use a Veil server (veil/src/server.rs, subs.rs): the users of    *)
(* its configuration and the subscriptions it has granted Veil to.  A       *)
(* request for a subscription grants it or takes it back, by the answer of  *)
(* the panel; the housekeeping asks the panel about all of them and reads   *)
(* the configuration again.  `subs` is changed first, saved next, and taken *)
(* into the list the door looks at (apply) last.                            *)
(*                                                                          *)
(* apply holds the lock of the statistics and is one step: the applies come *)
(* one after another, and whoever changes `subs` meanwhile applies later.   *)
(***************************************************************************)
EXTENDS Naturals

CONSTANTS
  Ids,         \* subscriptions
  Requests,    \* requests being served at once
  MaxVersion,  \* (bound) versions of the configuration
  MaxTroubles  \* (bound) errors of the panel and of the disk, and restarts

ASSUME SubsAssumption == MaxVersion \in Nat \ {0} /\ MaxTroubles \in Nat

VARIABLES
  panel,    \* subscriptions the panel gives out
  subs,     \* Server.subs
  file,     \* state_file
  state,    \* Server.state: the configuration and the subscriptions let in
  disk,     \* the configuration file: its version, and has it a section
            \* "subscription"?
  seen,     \* housekeeping: the version it has read
  keeper,   \* where the housekeeping is, and what check_subs has found
  request,  \* where each request is
  troubles  \* (bound) how much has gone wrong so far

subsVars == <<panel, subs, file, state, disk, seen, keeper, request, troubles>>

\* Without a section nobody is let in by a subscription, granted or not.
LetIn(cfg, granted) == IF cfg.section THEN granted ELSE {}
Apply(cfg) == state' = [cfg |-> cfg, users |-> LetIn(cfg, subs)]
Out == [at |-> "out"]
AtRest == [at |-> "sleep"]
Goes(r, to) == request' = [request EXCEPT ![r].at = to]
Trouble == troubles < MaxTroubles /\ troubles' = troubles + 1
Saved == \/ file' = subs /\ UNCHANGED troubles
         \/ UNCHANGED file /\ Trouble       \* the error is logged or dropped

SaysMutant(id, answer) ==   \* any status but 200 is an error
  \/ answer = (IF id \in panel THEN "alive" ELSE "error") /\ UNCHANGED troubles
  \/ answer = "error" /\ Trouble

\* fetch: 200 with something in it, another status, or an error (5xx among them).
Answers == {"alive", "gone", "error"}
Says(id, answer) ==
  \/ answer = (IF id \in panel THEN "alive" ELSE "gone") /\ UNCHANGED troubles
  \/ answer = "error" /\ Trouble

----------------------------------------------------------------------------
(* serve_subscription, which a server without the section does not have.    *)
(* It keeps the state it was called with, and applies the configuration of  *)
(* that state, which may have been read again since.                        *)

GetSubscription(r, id) ==
  /\ request[r] = Out
  /\ state.cfg.section
  /\ request' = [request EXCEPT ![r] = [at |-> "fetch", id |-> id, cfg |-> state.cfg]]
  /\ UNCHANGED <<panel, subs, file, state, disk, seen, keeper, troubles>>

Fetched(r) ==
  /\ request[r].at = "fetch"
  /\ \E answer \in Answers :
       /\ Says(request[r].id, answer)
       /\ IF answer = "error" THEN request' = [request EXCEPT ![r] = Out] ELSE Goes(r, answer)
  /\ UNCHANGED <<panel, subs, file, state, disk, seen, keeper>>

\* subs.insert for a client that wants Veil, subs.remove for one that is gone.
Noted(r) ==
  /\ \/ request[r].at = "alive" /\ subs' \in {subs, subs \cup {request[r].id}}
     \/ request[r].at = "gone" /\ subs' = subs \ {request[r].id}
  /\ IF subs' = subs THEN request' = [request EXCEPT ![r] = Out] ELSE Goes(r, "save")
  /\ UNCHANGED <<panel, file, state, disk, seen, keeper, troubles>>

SaveNoted(r) ==
  /\ request[r].at = "save"
  /\ Saved
  /\ Goes(r, "apply")
  /\ UNCHANGED <<panel, subs, state, disk, seen, keeper>>

ApplyNoted(r) ==
  /\ request[r].at = "apply"
  /\ Apply(request[r].cfg)
  /\ request' = [request EXCEPT ![r] = Out]
  /\ UNCHANGED <<panel, subs, file, disk, seen, keeper, troubles>>

----------------------------------------------------------------------------
(* housekeeping: check_subs, the configuration, sleep.                      *)

CheckSubs ==
  /\ keeper = AtRest
  /\ keeper' = IF state.cfg.section THEN [at |-> "check", left |-> subs, revoked |-> {}]
               ELSE [at |-> "reload"]
  /\ UNCHANGED <<panel, subs, file, state, disk, seen, request, troubles>>

\* The next of the snapshot.  An error ends the check with nothing revoked.
CheckOne ==
  /\ keeper.at = "check"
  /\ \E id \in keeper.left, answer \in Answers :
       /\ Says(id, answer)
       /\ keeper' = IF answer = "error" THEN [at |-> "reload"]
                    ELSE [at |-> "check", left |-> keeper.left \ {id},
                          revoked |-> keeper.revoked \cup (IF answer = "gone" THEN {id} ELSE {})]
  /\ UNCHANGED <<panel, subs, file, state, disk, seen, request>>

\* Removed and saved under one lock.
RevokeAll ==
  /\ keeper.at = "check" /\ keeper.left = {}
  /\ subs' = subs \ keeper.revoked
  /\ IF keeper.revoked = {}
     THEN keeper' = [at |-> "reload"] /\ UNCHANGED <<file, troubles>>
     ELSE /\ keeper' = [at |-> "apply"]
          /\ \/ file' = subs' /\ UNCHANGED troubles
             \/ UNCHANGED file /\ Trouble
  /\ UNCHANGED <<panel, state, disk, seen, request>>

ApplyRevokedMutant ==    \* applied only when the configuration has changed too
  /\ keeper.at = "apply"
  /\ UNCHANGED state
  /\ keeper' = [at |-> "reload"]
  /\ UNCHANGED <<panel, subs, file, disk, seen, request, troubles>>

ApplyRevoked ==
  /\ keeper.at = "apply"
  /\ Apply(state.cfg)
  /\ keeper' = [at |-> "reload"]
  /\ UNCHANGED <<panel, subs, file, disk, seen, request, troubles>>

\* The list of networks, if it was changed, makes it apply what it has.  A file
\* that cannot be read counts as seen: its next change is waited for.
Reload ==
  /\ keeper.at = "reload"
  /\ keeper' = AtRest
  /\ seen' = disk.version
  /\ \/ disk.version # seen /\ Apply(disk) /\ UNCHANGED troubles
     \/ disk.version # seen /\ (UNCHANGED state \/ Apply(state.cfg)) /\ Trouble
     \/ disk.version = seen /\ (UNCHANGED state \/ Apply(state.cfg)) /\ UNCHANGED troubles
  /\ UNCHANGED <<panel, subs, file, disk, request>>

----------------------------------------------------------------------------
(* The panel, the admin, and a restart of the server (Server::new).         *)

PanelChanges ==
  /\ \E id \in Ids : panel' = IF id \in panel THEN panel \ {id} ELSE panel \cup {id}
  /\ UNCHANGED <<subs, file, state, disk, seen, keeper, request, troubles>>

EditConfig ==
  /\ disk.version < MaxVersion
  /\ \E section \in BOOLEAN : disk' = [version |-> disk.version + 1, section |-> section]
  /\ UNCHANGED <<panel, subs, file, state, seen, keeper, request, troubles>>

RestartServer ==
  /\ Trouble
  /\ subs' = LetIn(disk, file)
  /\ state' = [cfg |-> disk, users |-> LetIn(disk, file)]
  /\ seen' = disk.version
  /\ keeper' = AtRest
  /\ request' = [r \in Requests |-> Out]
  /\ UNCHANGED <<panel, file, disk>>

SubsInit ==
  /\ panel \in SUBSET Ids
  /\ subs = {} /\ file = {} /\ troubles = 0
  /\ disk \in [version : {1}, section : BOOLEAN] /\ seen = 1
  /\ state = [cfg |-> disk, users |-> {}]
  /\ keeper = AtRest
  /\ request = [r \in Requests |-> Out]

Serves(r) == Fetched(r) \/ Noted(r) \/ SaveNoted(r) \/ ApplyNoted(r)
Keeps == CheckSubs \/ CheckOne \/ RevokeAll \/ ApplyRevoked \/ Reload

SubsNext ==
  \/ \E r \in Requests : (\E id \in Ids : GetSubscription(r, id)) \/ Serves(r)
  \/ Keeps
  \/ PanelChanges \/ EditConfig \/ RestartServer

SubsSpec == SubsInit /\ [][SubsNext]_subsVars

----------------------------------------------------------------------------
(* When nobody has a change still to apply, the door lets in exactly the    *)
(* subscriptions the server has granted, and none when the configuration it *)
(* goes by has no section for them, whatever requests, the check and the    *)
(* reload did to each other (server.rs, apply and its callers).             *)
UsersFollow ==
  (keeper.at # "apply" /\ \A r \in Requests : request[r].at \notin {"save", "apply"})
    => state.users = IF state.cfg.section THEN subs ELSE {}

\* Whom the panel stops giving out is not let in for ever: not by a request
\* answered before, not by an error of the panel or the disk, not by a restart
\* (server.rs, check_subs: "whose subscription 3x-ui no longer gives out, loses
\* access").
DisabledIsRevoked ==
  \A id \in Ids : <>[](id \notin panel) => <>[](id \notin state.users)
=============================================================================
