------------------------------ MODULE Sessions ------------------------------
(***************************************************************************)
(* The console sessions of one user.  A session record, in the ephemeral   *)
(* store, carries the session version its login read from the user's row,  *)
(* in the durable one; disabling the user, a new password and "revoke all" *)
(* raise that version.  A request (a visit) reads the session, then the    *)
(* user, and only then does what it was sent for, among other visits.      *)
(*                                                                         *)
(*   Logins      sign-ins; each issues one session, named after it         *)
(*   Visits      requests that carry the cookie of a session               *)
(*   MaxVersion  bound: the session versions                               *)
(***************************************************************************)
EXTENDS Naturals

CONSTANTS Logins, Visits, NoLogin, MaxVersion

ASSUME SessionsAssumption ==
  /\ NoLogin \notin Logins
  /\ MaxVersion \in Nat \ {0}

VARIABLES
  user,         \* the user's row: session_version and whether disabled
  sessionStore, \* the version in each session's record, 0 for no record
  timedOut,     \* the sessions whose time is over
  loginStage, loginVersion,
  visitStep, visitOf, visitSaw,
  revoked,      \* history: sessions whose login precedes a revocation
  loggedOut     \* history: sessions logged out while no switch had read them

visits == <<visitStep, visitOf, visitSaw>>
logins == <<loginStage, loginVersion>>
sessionVars == <<user, sessionStore, timedOut, logins, visits, revoked, loggedOut>>

Versions == 1 .. MaxVersion

SessionsTypeOK ==
  /\ user \in [version : Versions, disabled : BOOLEAN]
  /\ sessionStore \in [Logins -> {0} \cup Versions]
  /\ timedOut \subseteq Logins /\ revoked \subseteq Logins /\ loggedOut \subseteq Logins
  /\ loginStage \in [Logins -> { "new", "issue", "ended" }]
  /\ loginVersion \in [Logins -> {0} \cup Versions]
  /\ visitStep \in [Visits -> { "idle", "find_user", "discard", "accepted",
                                "verified", "put", "delete" }]
  /\ visitOf \in [Visits -> Logins \cup {NoLogin}]
  /\ visitSaw \in [Visits -> {0} \cup Versions]

SessionsInit ==
  /\ user = [version |-> 1, disabled |-> FALSE]
  /\ sessionStore = [l \in Logins |-> 0] /\ timedOut = {}
  /\ loginStage = [l \in Logins |-> "new"]
  /\ loginVersion = [l \in Logins |-> 0]
  /\ visitStep = [v \in Visits |-> "idle"]
  /\ visitOf = [v \in Visits |-> NoLogin]
  /\ visitSaw = [v \in Visits |-> 0]
  /\ revoked = {} /\ loggedOut = {}

-----------------------------------------------------------------------------
(* The stores                                                              *)

\* MokaSessionStore::put: a record that has no time left is removed.
PutRecord(l, version) ==
  sessionStore' = [sessionStore EXCEPT ![l] = IF l \in timedOut THEN 0 ELSE version]

DiscardRecord(l) == sessionStore' = [sessionStore EXCEPT ![l] = 0]

TimeOut(l) ==
  /\ loginStage[l] = "ended" /\ l \notin timedOut
  /\ timedOut' = timedOut \cup {l}
  /\ DiscardRecord(l)
  /\ UNCHANGED <<user, logins, visits, revoked, loggedOut>>

\* One statement on the user's row: bump_session_version, update_password_hash,
\* disable_member, reset_member_password.
RaiseVersion(disabled) ==
  /\ user.version < MaxVersion
  /\ user' = [version |-> user.version + 1, disabled |-> disabled]
  /\ revoked' = revoked \cup { l \in Logins : loginStage[l] # "new" }

\* An administrator, of the members.
DisableMember ==
  /\ RaiseVersion(TRUE)
  /\ UNCHANGED <<sessionStore, timedOut, logins, visits, loggedOut>>

ResetMemberPassword ==
  /\ RaiseVersion(user.disabled)
  /\ UNCHANGED <<sessionStore, timedOut, logins, visits, loggedOut>>

-----------------------------------------------------------------------------
(* AuthKernel::login                                                       *)

AuthenticateUser(l) ==
  /\ loginStage[l] = "new" /\ ~ user.disabled
  /\ loginStage' = [loginStage EXCEPT ![l] = "issue"]
  /\ loginVersion' = [loginVersion EXCEPT ![l] = user.version]
  /\ UNCHANGED <<user, sessionStore, timedOut, visits, revoked, loggedOut>>

\* Mutant of IssuedVersion: the version is read when the session is issued.
IssuedVersionNow(l) == user.version

IssuedVersion(l) == loginVersion[l]

IssueSession(l) ==
  /\ loginStage[l] = "issue"
  /\ loginStage' = [loginStage EXCEPT ![l] = "ended"]
  /\ PutRecord(l, IssuedVersion(l))
  /\ UNCHANGED <<user, timedOut, loginVersion, visits, revoked, loggedOut>>

-----------------------------------------------------------------------------
(* require_session                                                         *)

VisitAt(v, label) == visitStep[v] = label
VisitGoes(v, label) == visitStep' = [visitStep EXCEPT ![v] = label]
VisitEnds(v) ==
  /\ VisitGoes(v, "idle")
  /\ visitOf' = [visitOf EXCEPT ![v] = NoLogin]
  /\ visitSaw' = [visitSaw EXCEPT ![v] = 0]

GetSession(v, l) ==
  /\ VisitAt(v, "idle") /\ sessionStore[l] # 0
  /\ VisitGoes(v, "find_user")
  /\ visitOf' = [visitOf EXCEPT ![v] = l]
  /\ visitSaw' = [visitSaw EXCEPT ![v] = sessionStore[l]]
  /\ UNCHANGED <<user, sessionStore, timedOut, logins, revoked, loggedOut>>

Valid(version) == version = user.version /\ ~ user.disabled

FindUser(v) ==
  /\ VisitAt(v, "find_user")
  /\ VisitGoes(v, IF Valid(visitSaw[v]) THEN "accepted" ELSE "discard")
  /\ UNCHANGED <<user, sessionStore, timedOut, logins, visitOf, visitSaw, revoked, loggedOut>>

\* A stale session is deleted, whatever its record holds by now.
DiscardSession(v) ==
  /\ VisitAt(v, "discard")
  /\ DiscardRecord(visitOf[v])
  /\ VisitEnds(v)
  /\ UNCHANGED <<user, timedOut, logins, revoked, loggedOut>>

-----------------------------------------------------------------------------
(* What an accepted visit does                                             *)

OtherVisit(v) ==
  /\ VisitAt(v, "accepted") /\ VisitEnds(v)
  /\ UNCHANGED <<user, sessionStore, timedOut, logins, revoked, loggedOut>>

\* Deletes the record; one that a switch has read may be put back by it.
EndSession(v) ==
  /\ DiscardRecord(visitOf[v]) /\ VisitEnds(v)
  /\ loggedOut' = IF \E w \in Visits : /\ visitStep[w] = "put"
                                        /\ visitOf[w] = visitOf[v]
                    THEN loggedOut ELSE loggedOut \cup {visitOf[v]}
  /\ UNCHANGED <<user, timedOut, logins, revoked>>

Logout(v) == VisitAt(v, "accepted") /\ EndSession(v)

\* revoke_all_sessions
RevokeAll(v) ==
  /\ VisitAt(v, "accepted") /\ VisitGoes(v, "delete")
  /\ RaiseVersion(user.disabled)
  /\ UNCHANGED <<sessionStore, timedOut, logins, visitOf, visitSaw, loggedOut>>

\* change_own_password: the password compared with may be another one by the
\* time the new one is stored.
VerifyOldPassword(v) ==
  /\ VisitAt(v, "accepted") /\ VisitGoes(v, "verified")
  /\ UNCHANGED <<user, sessionStore, timedOut, logins, visitOf, visitSaw, revoked, loggedOut>>

ChangePassword(v) ==
  /\ VisitAt(v, "verified") /\ VisitGoes(v, "delete")
  /\ RaiseVersion(user.disabled)
  /\ UNCHANGED <<sessionStore, timedOut, logins, visitOf, visitSaw, loggedOut>>

DeleteSession(v) == VisitAt(v, "delete") /\ EndSession(v)

\* Mutant of ReadSwitched: the session the request came with.
ReadSwitchedAny(v) == TRUE

\* switch_workspace reads the session again.
ReadSwitched(v) == sessionStore[visitOf[v]] # 0

ReadForSwitch(v) ==
  /\ VisitAt(v, "accepted")
  /\ IF ReadSwitched(v)
       THEN /\ VisitGoes(v, "put")
            /\ visitSaw' = [visitSaw EXCEPT ![v] =
                 IF sessionStore[visitOf[v]] # 0 THEN sessionStore[visitOf[v]] ELSE @]
            /\ UNCHANGED visitOf
       ELSE VisitEnds(v)
  /\ UNCHANGED <<user, sessionStore, timedOut, logins, revoked, loggedOut>>

\* It writes the record back with the other workspace, or is refused it.
PutSwitched(v) ==
  /\ VisitAt(v, "put") /\ VisitEnds(v)
  /\ \/ PutRecord(visitOf[v], visitSaw[v])
     \/ UNCHANGED sessionStore
  /\ UNCHANGED <<user, timedOut, logins, revoked, loggedOut>>

SessionsNext ==
  \/ \E l \in Logins : TimeOut(l) \/ AuthenticateUser(l) \/ IssueSession(l)
  \/ DisableMember \/ ResetMemberPassword
  \/ \E v \in Visits :
       \/ \E l \in Logins : GetSession(v, l)
       \/ FindUser(v) \/ DiscardSession(v) \/ OtherVisit(v)
       \/ Logout(v) \/ RevokeAll(v) \/ DeleteSession(v)
       \/ VerifyOldPassword(v) \/ ChangePassword(v)
       \/ ReadForSwitch(v) \/ PutSwitched(v)

SessionsSpec == SessionsInit /\ [][SessionsNext]_sessionVars

-----------------------------------------------------------------------------
\* No session whose login authenticated the user before a revocation (a new
\* password, the user disabled, all sessions revoked) is accepted after it,
\* whether it was issued by then or later, or written back by a switch.
RevokedIsRefused ==
  [][\A v \in Visits : visitStep[v] = "find_user" /\ visitStep'[v] = "accepted"
       => visitOf[v] \notin revoked]_sessionVars

\* A session that was logged out while no switch of its workspace was between
\* its read and its write stays out: nothing else brings a record back.
LoggedOutStaysOut == \A l \in loggedOut : sessionStore[l] = 0

=============================================================================
