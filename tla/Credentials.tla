----------------------------- MODULE Credentials -----------------------------
(***************************************************************************)
(* The credentials of one account: its password, sign-in sessions with     *)
(* rotating refresh tokens (AuthService), password change and recovery,    *)
(* and the administrator's and the closure's changes of the account.       *)
(*                                                                         *)
(* Requests read the account without a lock, hash passwords for a while,   *)
(* and write with a conditional update: reading and writing are separate   *)
(* steps of a request here.  Passwords and email addresses are numbered by *)
(* their changes; a token hash is the number of the token.                 *)
(***************************************************************************)
EXTENDS Integers, FiniteSets

CONSTANTS
    Requests,    \* API requests that may be under way at once
    Sessions,    \* ids of sign-in sessions
    MaxVersion,  \* bound: changes of auth_version
    MaxTokens,   \* bound: refresh tokens ever issued
    MaxLinks     \* bound: recovery links ever requested

ASSUME CredentialsAssumption ==
    MaxVersion \in Nat /\ MaxTokens \in Nat /\ MaxLinks \in Nat

VARIABLES
    user,      \* the account's row
    session,   \* auth_sessions
    tokens,    \* refresh tokens issued so far, each with an access token
    reset,     \* the account's row of password_resets
    links,     \* how many recovery links have been requested
    request    \* each request's place

vars == <<user, session, tokens, reset, links, request>>

None == 0     \* no token, no link

User == [password : Nat, email : Nat, auth : Nat, active : BOOLEAN, closing : BOOLEAN]

\* opened remembers the password the session was opened with.
SessionRow == [state : {"none", "open", "revoked"}, token : Nat, previous : Nat,
               grace : BOOLEAN, expired : BOOLEAN, opened : Nat]
NoSession  == [state |-> "none", token |-> None, previous |-> None,
               grace |-> FALSE, expired |-> FALSE, opened |-> 0]

\* av and sid of the claims; parent is the token it was exchanged for.
Token == [id : Nat, session : Sessions, auth : Nat, parent : Nat]

ResetRow == [link : Nat, password : Nat, email : Nat, consumed : BOOLEAN, expired : BOOLEAN]
NoReset  == [link |-> None, password |-> 0, email |-> 0, consumed |-> FALSE, expired |-> FALSE]

\* What a request has read of the account, and the session and the token or
\* link it works on.
Place == [pc : {"idle", "login", "rotate", "revoke", "change", "recover", "reset"},
          password : Nat, email : Nat, auth : Nat,
          session : SUBSET Sessions, key : Nat]
Idle  == [pc |-> "idle", password |-> 0, email |-> 0, auth |-> 0,
          session |-> {}, key |-> None]

Init ==
    /\ user = [password |-> 0, email |-> 0, auth |-> 0, active |-> TRUE, closing |-> FALSE]
    /\ session = [s \in Sessions |-> NoSession]
    /\ tokens = {}
    /\ reset = NoReset
    /\ links = 0
    /\ request = [r \in Requests |-> Idle]

-----------------------------------------------------------------------------
(* Helpers *)

At(r, step) == request[r].pc = step
Finish(r)   == request' = [request EXCEPT ![r] = Idle]

Become(r, place) == At(r, "idle") /\ request' = [request EXCEPT ![r] = place]

\* What a request remembers of the account's password and version.
Known == [Idle EXCEPT !.password = user.password, !.auth = user.auth]

Ended(row) == IF row.state = "open" THEN [row EXCEPT !.state = "revoked"] ELSE row

RevokeAll == session' = [s \in Sessions |-> Ended(session[s])]

\* A session of the account is alive.
Live(s) == session[s].state = "open" /\ ~session[s].expired

\* get_current_user: what an access token needs to be accepted.
Accepted(t) == Live(t.session) /\ user.active /\ t.auth = user.auth

\* The condition of the password updates: the account is as the request read it.
AsRead(r) ==
    /\ user.active
    /\ user.password = request[r].password /\ user.auth = request[r].auth

\* Mutant: a new password leaves the tokens that are about valid.
PasswordOnly(u) == [u EXCEPT !.password = @ + 1]

NewPassword(u) == [u EXCEPT !.password = @ + 1, !.auth = @ + 1]

Issue(s, auth, parent) ==
    tokens' = tokens \cup {[id |-> Cardinality(tokens) + 1, session |-> s,
                            auth |-> auth, parent |-> parent]}

MayIssue  == Cardinality(tokens) < MaxTokens      \* bound
MayChange == user.auth < MaxVersion               \* bound

-----------------------------------------------------------------------------
(* Sessions *)

\* The password is right, and the account active, as the request reads it.
LoginRead(r) ==
    /\ user.active
    /\ Become(r, [Known EXCEPT !.pc = "login"])
    /\ UNCHANGED <<user, session, tokens, reset, links>>

Login(r, s) ==
    /\ At(r, "login") /\ session[s].state = "none" /\ MayIssue
    /\ session' = [session EXCEPT ![s] =
           [NoSession EXCEPT !.state = "open", !.token = Cardinality(tokens) + 1,
                             !.opened = request[r].password]]
    /\ Issue(s, request[r].auth, None)
    /\ Finish(r)
    /\ UNCHANGED <<user, reset, links>>

\* refresh: the session and the account are read and compared with the token; the
\* previous token is refused, without more, while its grace lasts.
RefreshRead(r, t) ==
    LET row == session[t.session]
        with == [Idle EXCEPT !.session = {t.session}, !.auth = user.auth, !.key = t.id]
    IN  /\ \/ Accepted(t) /\ t.id = row.token /\ Become(r, [with EXCEPT !.pc = "rotate"])
           \/ /\ ~Accepted(t) \/ (t.id # row.token /\ ~(t.id = row.previous /\ row.grace))
              /\ Become(r, [Idle EXCEPT !.pc = "revoke", !.session = {t.session}])
        /\ UNCHANGED <<user, session, tokens, reset, links>>

\* The token is stale, or misused: its session ends.
Revoke(r) ==
    /\ At(r, "revoke")
    /\ session' = [s \in Sessions |-> IF s \in request[r].session
                                      THEN Ended(session[s]) ELSE session[s]]
    /\ Finish(r)
    /\ UNCHANGED <<user, tokens, reset, links>>

\* Mutant: the update compares nothing.
RotatableBlind(r, s) == s \in request[r].session

\* Mutant: the session may have ended in the meantime.
RotatableEnded(r, s) == s \in request[r].session /\ session[s].token = request[r].key

\* The condition of the update that rotates the token; expiry is compared with the
\* time of the read, at which the session was alive.
Rotatable(r, s) ==
    /\ s \in request[r].session
    /\ session[s].token = request[r].key /\ session[s].state = "open"

\* The session lasts longer from then on, up to its absolute end.
Rotate(r, s) ==
    /\ At(r, "rotate") /\ Rotatable(r, s) /\ MayIssue
    /\ \E over \in {FALSE, session[s].expired} :
          session' = [session EXCEPT ![s].token = Cardinality(tokens) + 1,
                                     ![s].previous = request[r].key,
                                     ![s].grace = TRUE, ![s].expired = over]
    /\ Issue(s, request[r].auth, request[r].key)
    /\ Finish(r)
    /\ UNCHANGED <<user, reset, links>>

\* Another request was faster: the client is told to try again.
RotateLost(r) ==
    /\ At(r, "rotate") /\ \A s \in Sessions : ~Rotatable(r, s)
    /\ Finish(r)
    /\ UNCHANGED <<user, session, tokens, reset, links>>

\* Any refresh token of the session ends it.
Logout(t) ==
    /\ session' = [session EXCEPT ![t.session] = Ended(@)]
    /\ UNCHANGED <<user, tokens, reset, links, request>>

-----------------------------------------------------------------------------
(* Passwords *)

\* A signed-in user gives the current password.
ChangeRead(r, t) ==
    /\ Accepted(t)
    /\ Become(r, [Known EXCEPT !.pc = "change"])
    /\ UNCHANGED <<user, session, tokens, reset, links>>

Change(r) ==
    /\ At(r, "change") /\ MayChange
    /\ IF AsRead(r) THEN user' = NewPassword(user) /\ RevokeAll
       ELSE UNCHANGED <<user, session>>
    /\ Finish(r)
    /\ UNCHANGED <<tokens, reset, links>>

\* send_recovery runs after the response.
RecoverRead(r) ==
    /\ user.active
    /\ Become(r, [Idle EXCEPT !.pc = "recover", !.password = user.password,
                              !.email = user.email])
    /\ UNCHANGED <<user, session, tokens, reset, links>>

\* A new link replaces the earlier one; of two requests at once one may fail.
Recover(r) ==
    /\ At(r, "recover") /\ links < MaxLinks
    /\ links' = links + 1
    /\ \/ reset' = [NoReset EXCEPT !.link = links + 1, !.password = request[r].password,
                                   !.email = request[r].email]
       \/ UNCHANGED reset
    /\ Finish(r)
    /\ UNCHANGED <<user, session, tokens>>

\* reset_password: the link's row and the account are read; it is the time of this
\* read that the update compares the link's expiry with.
ResetRead(r, k) ==
    /\ k # None /\ reset.link = k /\ ~reset.expired
    /\ user.active /\ reset.password = user.password /\ reset.email = user.email
    /\ Become(r, [Known EXCEPT !.pc = "reset", !.email = user.email, !.key = k])
    /\ UNCHANGED <<user, session, tokens, reset, links>>

LinkValid(r) == reset.link = request[r].key /\ ~reset.consumed

ReadAddress(r) == AsRead(r) /\ user.email = request[r].email

\* Consuming the link and changing the password are one transaction.
Reset(r) ==
    /\ At(r, "reset") /\ MayChange
    /\ IF LinkValid(r) /\ ReadAddress(r)
       THEN /\ reset' = [reset EXCEPT !.consumed = TRUE]
            /\ user' = NewPassword(user)
            /\ RevokeAll
       ELSE UNCHANGED <<user, session, reset>>
    /\ Finish(r)
    /\ UNCHANGED <<tokens, links>>

-----------------------------------------------------------------------------
(* Changes of the account, under its row lock *)

\* The owner confirms a new address: sessions go on.
ConfirmEmail ==
    /\ ~user.closing /\ user.email < MaxVersion
    /\ user' = [user EXCEPT !.email = @ + 1]
    /\ UNCHANGED <<session, tokens, reset, links, request>>

\* An administrator disables the account, edits its address or changes its role.
AdminChange ==
    /\ ~user.closing /\ MayChange
    /\ user' \in {[user EXCEPT !.auth = @ + 1, !.active = FALSE],
                  [user EXCEPT !.auth = @ + 1, !.email = @ + 1],
                  [user EXCEPT !.auth = @ + 1]}
    /\ RevokeAll
    /\ UNCHANGED <<tokens, reset, links, request>>

AdminEnable ==
    /\ ~user.closing /\ ~user.active
    /\ user' = [user EXCEPT !.active = TRUE]
    /\ UNCHANGED <<session, tokens, reset, links, request>>

\* request_closure
Close ==
    /\ ~user.closing
    /\ user' = [user EXCEPT !.auth = @ + 1, !.active = FALSE, !.closing = TRUE]
    /\ RevokeAll
    /\ reset' = NoReset
    /\ UNCHANGED <<tokens, links, request>>

-----------------------------------------------------------------------------
(* Time *)

SessionExpires(s) ==
    /\ Live(s)
    /\ session' = [session EXCEPT ![s].expired = TRUE]
    /\ UNCHANGED <<user, tokens, reset, links, request>>

GraceEnds(s) ==
    /\ session[s].grace
    /\ session' = [session EXCEPT ![s].grace = FALSE]
    /\ UNCHANGED <<user, tokens, reset, links, request>>

LinkExpires ==
    /\ reset.link # None /\ ~reset.expired
    /\ reset' = [reset EXCEPT !.expired = TRUE]
    /\ UNCHANGED <<user, session, tokens, links, request>>

CleanupRecovery ==
    /\ reset.expired
    /\ reset' = NoReset
    /\ UNCHANGED <<user, session, tokens, links, request>>

-----------------------------------------------------------------------------
Step(r) ==
    \/ LoginRead(r) \/ Revoke(r) \/ RotateLost(r)
    \/ Change(r) \/ RecoverRead(r) \/ Recover(r) \/ Reset(r)
    \/ \E s \in Sessions : Login(r, s) \/ Rotate(r, s)
    \/ \E t \in tokens : RefreshRead(r, t) \/ ChangeRead(r, t)
    \/ \E k \in 1 .. MaxLinks : ResetRead(r, k)

Next ==
    \/ \E r \in Requests : Step(r)
    \/ \E t \in tokens : Logout(t)
    \/ ConfirmEmail \/ AdminChange \/ AdminEnable \/ Close
    \/ \E s \in Sessions : SessionExpires(s) \/ GraceEnds(s)
    \/ LinkExpires \/ CleanupRecovery

Spec == Init /\ [][Next]_vars

-----------------------------------------------------------------------------
(* Properties *)

\* Every variable has its type, and a session has a token from its first to its
\* last day.
TypeOK ==
    /\ user \in User
    /\ session \in [Sessions -> SessionRow]
    /\ \A s \in Sessions : session[s].state = "none" <=> session[s].token = None
    /\ tokens \in SUBSET Token
    /\ reset \in ResetRow
    /\ links \in 0 .. MaxLinks
    /\ request \in [Requests -> Place]

\* A token is accepted only in a session that was opened with the password the
\* account has now: "Successful recovery changes the password, invalidates
\* existing access and refresh tokens" (README.md:258), those of a sign-in or a
\* refresh that is under way at the time included.
AcceptedIsCurrent ==
    \A t \in tokens : Accepted(t) => session[t.session].opened = user.password

\* A refresh token is exchanged for at most one other, however many tabs present
\* it at once.
ExchangedOnce ==
    \A t, u \in tokens : t.parent = u.parent /\ t.parent # None => t = u

\* A session that was revoked is never alive again and gets no token, though a
\* refresh was under way when it was revoked.
RevokedStaysOut ==
    [][\A s \in Sessions : session[s].state = "revoked" =>
          /\ session'[s].state = "revoked"
          /\ session'[s].token = session[s].token]_vars

\* "changing the password or confirmed email invalidates it", "links ... are
\* single-use" (README.md:256): a recovery link sets the password only while the
\* account has the password and the address the link was made for.
ResetUnderItsFingerprint ==
    [][\A r \in Requests :
          At(r, "reset") /\ request'[r] = Idle /\ user'.password # user.password =>
              /\ reset.link = request[r].key /\ ~reset.consumed
              /\ reset.password = user.password /\ reset.email = user.email]_vars

\* "Keep the live inactive-account guard needed to make closure irreversible"
\* (docs/account-closure.md:71): from the request on the row stays as it left it and
\* no token is accepted, whatever requests were under way.
ClosedStaysClosed ==
    [][user.closing => UNCHANGED user /\ \A t \in tokens' : ~Accepted(t)']_vars
=============================================================================
