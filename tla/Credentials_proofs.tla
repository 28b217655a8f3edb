-------------------------- MODULE Credentials_proofs --------------------------
(***************************************************************************)
(* What Credentials guarantees for any number of requests, sessions,       *)
(* tokens, links and changes of the account.  After it, the theorems of    *)
(* SourceEvidence, with which it shares no state.                          *)
(***************************************************************************)
EXTENDS Credentials, SourceEvidence, FiniteSetTheorems, TLAPS

USE CredentialsAssumption DEF At, None, Finish, Become

-----------------------------------------------------------------------------
(* Type correctness.  Numbering the tokens by their count needs them to be   *)
(* finitely many.                                                            *)

Typed == TypeOK /\ IsFiniteSet(tokens)

LEMMA IdleTyped == Idle \in Place
BY DEF Idle, Place

\* A row that ends keeps its token.
LEMMA EndedTyped ==
    ASSUME NEW row \in SessionRow, row.state = "none" <=> row.token = 0
    PROVE  /\ Ended(row) \in SessionRow
           /\ Ended(row).state = "none" <=> Ended(row).token = 0
           /\ Ended(row).token = row.token /\ Ended(row).opened = row.opened
           /\ Ended(row).state # "open"
           /\ row.state = "none" <=> Ended(row).state = "none"
BY DEF Ended, SessionRow

LEMMA InitTyped == Init => Typed
<1>1. NoSession \in SessionRow /\ NoReset \in ResetRow
  BY DEF NoSession, SessionRow, NoReset, ResetRow
<1> QED BY <1>1, IdleTyped, FS_EmptySet DEF Init, Typed, TypeOK, User, NoSession, Token

\* What a request remembers.
LEMMA PlaceTyped ==
    ASSUME user \in User
    PROVE  /\ [Known EXCEPT !.pc = "login"] \in Place
           /\ [Known EXCEPT !.pc = "change"] \in Place
           /\ [Idle EXCEPT !.pc = "recover", !.password = user.password,
                           !.email = user.email] \in Place
           /\ \A k \in Nat :
                 [Known EXCEPT !.pc = "reset", !.email = user.email, !.key = k] \in Place
           /\ \A s \in Sessions : [Idle EXCEPT !.pc = "revoke", !.session = {s}] \in Place
           /\ \A s \in Sessions, k \in Nat :
                 [[Idle EXCEPT !.session = {s}, !.auth = user.auth, !.key = k]
                     EXCEPT !.pc = "rotate"] \in Place
<1>1. user.password \in Nat /\ user.email \in Nat /\ user.auth \in Nat
  BY DEF User
<1> QED BY <1>1 DEF Known, Idle, Place

\* What becomes of the account's row.
LEMMA UserTyped ==
    ASSUME NEW u \in User
    PROVE  /\ NewPassword(u) \in User
           /\ [u EXCEPT !.auth = @ + 1, !.active = FALSE] \in User
           /\ [u EXCEPT !.auth = @ + 1, !.email = @ + 1] \in User
           /\ [u EXCEPT !.auth = @ + 1, !.active = FALSE, !.closing = TRUE] \in User
<1> DEFINE password == u.password + 1
           email == u.email + 1
           auth == u.auth + 1
<1>1. password \in Nat /\ email \in Nat /\ auth \in Nat
  BY DEF User
<1>2. NewPassword(u) = [u EXCEPT !.password = password, !.auth = auth]
  BY DEF NewPassword
<1> HIDE DEF password, email, auth
<1>3. /\ [u EXCEPT !.password = password, !.auth = auth] \in User
      /\ [u EXCEPT !.auth = auth, !.active = FALSE] \in User
      /\ [u EXCEPT !.auth = auth, !.email = email] \in User
      /\ [u EXCEPT !.auth = auth, !.active = FALSE, !.closing = TRUE] \in User
  BY <1>1 DEF User
<1> QED BY <1>2, <1>3 DEF password, email, auth

\* Issuing a token.
LEMMA IssueTyped ==
    ASSUME Typed, NEW s \in Sessions, NEW auth \in Nat, NEW parent \in Nat,
           Issue(s, auth, parent)
    PROVE  /\ tokens' \in SUBSET Token /\ IsFiniteSet(tokens')
           /\ Cardinality(tokens) \in Nat
           /\ tokens' = tokens \cup {[id |-> Cardinality(tokens) + 1, session |-> s,
                                      auth |-> auth, parent |-> parent]}
<1>1. Cardinality(tokens) \in Nat
  BY FS_CardinalityType DEF Typed
<1>2. IsFiniteSet(tokens')
  BY FS_AddElement DEF Typed, Issue
<1> QED BY <1>1, <1>2 DEF Issue, Typed, TypeOK, Token

LEMMA RevokeAllTyped ==
    ASSUME TypeOK, RevokeAll
    PROVE  /\ session' \in [Sessions -> SessionRow]
           /\ \A s \in Sessions : session'[s].state = "none" <=> session'[s].token = 0
BY EndedTyped DEF TypeOK, RevokeAll

LEMMA TypedStep == Typed /\ [Next]_vars => Typed'
<1> SUFFICES ASSUME Typed, [Next]_vars PROVE Typed'
  OBVIOUS
<1> USE DEF Typed
<1>1. /\ user \in User /\ session \in [Sessions -> SessionRow]
      /\ request \in [Requests -> Place] /\ Idle \in Place
      /\ \A s \in Sessions : session[s].state = "none" <=> session[s].token = 0
  BY IdleTyped DEF TypeOK
<1>2. ASSUME NEW r \in Requests, Step(r) PROVE Typed'
  <2>1. CASE LoginRead(r) \/ RecoverRead(r) \/ RotateLost(r) \/ \E k \in 1 .. MaxLinks : ResetRead(r, k)
    <3>1. request' \in [Requests -> Place]
      <4>1. CASE LoginRead(r) \/ RecoverRead(r) \/ RotateLost(r)
        BY <1>1, <4>1, PlaceTyped DEF LoginRead, RecoverRead, RotateLost
      <4>2. ASSUME NEW k \in 1 .. MaxLinks, ResetRead(r, k) PROVE request' \in [Requests -> Place]
        BY <1>1, <4>2, k \in Nat, PlaceTyped DEF ResetRead
      <4> QED BY <2>1, <4>1, <4>2
    <3> QED BY <2>1, <3>1 DEF LoginRead, RecoverRead, RotateLost, ResetRead, TypeOK
  <2>2. CASE Revoke(r)
    <3>1. \A s \in Sessions : /\ session'[s] \in SessionRow
                              /\ session'[s].state = "none" <=> session'[s].token = 0
      BY <1>1, <2>2, EndedTyped DEF Revoke
    <3> QED BY <1>1, <2>2, <3>1 DEF Revoke, TypeOK
  <2>3. CASE Change(r)
    <3>1. request' \in [Requests -> Place]
      BY <1>1, <2>3 DEF Change
    <3>2. CASE AsRead(r)
      BY <1>1, <2>3, <3>1, <3>2, UserTyped, RevokeAllTyped DEF Change, TypeOK
    <3>3. CASE ~AsRead(r)
      BY <2>3, <3>1, <3>3 DEF Change, TypeOK
    <3> QED BY <3>2, <3>3
  <2>4. CASE Recover(r)
    <3>1. request[r].password \in Nat /\ request[r].email \in Nat
      BY <1>1 DEF Place
    <3> DEFINE link == links + 1
    <3>2. link \in Nat /\ link \in 0 .. MaxLinks
      BY <2>4 DEF Recover, TypeOK
    <3>3. reset' \in ResetRow
      <4>1. reset' \in {reset, [NoReset EXCEPT !.link = link, !.password = request[r].password,
                                               !.email = request[r].email]}
        BY <2>4 DEF Recover
      <4> HIDE DEF link
      <4> QED BY <3>1, <3>2, <4>1 DEF TypeOK, ResetRow, NoReset
    <3> QED BY <1>1, <2>4, <3>2, <3>3 DEF Recover, TypeOK
  <2>5. CASE Reset(r)
    <3>1. request' \in [Requests -> Place]
      BY <1>1, <2>5 DEF Reset
    <3>2. [reset EXCEPT !.consumed = TRUE] \in ResetRow
      BY DEF TypeOK, ResetRow
    <3>3. CASE LinkValid(r) /\ ReadAddress(r)
      BY <1>1, <2>5, <3>1, <3>2, <3>3, UserTyped, RevokeAllTyped DEF Reset, TypeOK
    <3>4. CASE ~(LinkValid(r) /\ ReadAddress(r))
      BY <2>5, <3>1, <3>4 DEF Reset, TypeOK
    <3> QED BY <3>3, <3>4
  <2>6. ASSUME NEW s \in Sessions, Login(r, s) PROVE Typed'
    <3>1. request[r].auth \in Nat /\ request[r].password \in Nat
      BY <1>1 DEF Place
    <3>2. /\ tokens' \in SUBSET Token /\ IsFiniteSet(tokens') /\ Cardinality(tokens) \in Nat
      BY <2>6, <3>1, IssueTyped DEF Login
    <3>3. /\ session' \in [Sessions -> SessionRow]
          /\ \A t \in Sessions : session'[t].state = "none" <=> session'[t].token = 0
      <4> DEFINE n == Cardinality(tokens) + 1
      <4>1. n \in Nat /\ n # 0
        BY <3>2
      <4>2. session' = [session EXCEPT ![s] = [NoSession EXCEPT !.state = "open", !.token = n,
                                                   !.opened = request[r].password]]
        BY <2>6 DEF Login
      <4> HIDE DEF n
      <4> QED BY <1>1, <3>1, <4>1, <4>2 DEF NoSession, SessionRow
    <3> QED BY <1>1, <2>6, <3>2, <3>3 DEF Login, TypeOK
  <2>7. ASSUME NEW s \in Sessions, Rotate(r, s) PROVE Typed'
    <3>1. request[r].auth \in Nat /\ request[r].key \in Nat
      BY <1>1 DEF Place
    <3>2. /\ tokens' \in SUBSET Token /\ IsFiniteSet(tokens') /\ Cardinality(tokens) \in Nat
      BY <2>7, <3>1, IssueTyped DEF Rotate
    <3>3. session[s].state = "open"
      BY <2>7 DEF Rotate, Rotatable
    <3>4. /\ session' \in [Sessions -> SessionRow]
          /\ \A t \in Sessions : session'[t].state = "none" <=> session'[t].token = 0
      <4> DEFINE n == Cardinality(tokens) + 1
                 new(over) == [session[s] EXCEPT !.token = n, !.previous = request[r].key,
                                                 !.grace = TRUE, !.expired = over]
      <4>1. n \in Nat /\ n # 0
        BY <3>2
      <4>2. PICK over \in {FALSE, session[s].expired} : session' = [session EXCEPT ![s] = new(over)]
        BY <1>1, <2>7 DEF Rotate
      <4>3. /\ new(over) \in SessionRow
            /\ new(over).state = "open" /\ new(over).token = n
        <5> HIDE DEF n
        <5> QED BY <1>1, <3>1, <3>3, <4>1 DEF SessionRow
      <4> HIDE DEF n, new
      <4> QED BY <1>1, <4>1, <4>2, <4>3
    <3> QED BY <1>1, <2>7, <3>2, <3>4 DEF Rotate, TypeOK
  <2>8. ASSUME NEW t \in tokens, RefreshRead(r, t) \/ ChangeRead(r, t) PROVE Typed'
    <3>1. t.session \in Sessions /\ t.id \in Nat
      BY DEF TypeOK, Token
    <3>2. request' \in [Requests -> Place]
      BY ZenonT(60), <1>1, <2>8, <3>1, PlaceTyped DEF RefreshRead, ChangeRead
    <3> QED BY <2>8, <3>2 DEF RefreshRead, ChangeRead, TypeOK
  <2> QED BY <1>2, <2>1, <2>2, <2>3, <2>4, <2>5, <2>6, <2>7, <2>8 DEF Step
<1>3. ASSUME NEW t \in tokens, Logout(t) PROVE Typed'
  <2>1. t.session \in Sessions
    BY DEF TypeOK, Token
  <2> QED BY <1>1, <1>3, <2>1, EndedTyped DEF Logout, TypeOK
<1>4. CASE ConfirmEmail \/ AdminEnable
  <2>1. CASE ConfirmEmail
    BY <1>1, <2>1 DEF ConfirmEmail, TypeOK, User
  <2>2. CASE AdminEnable
    BY <1>1, <2>2 DEF AdminEnable, TypeOK, User
  <2> QED BY <1>4, <2>1, <2>2
<1>5. CASE AdminChange
  <2>1. user' \in User
    <3>1. [user EXCEPT !.auth = @ + 1] \in User
      BY <1>1 DEF User
    <3> QED BY <1>1, <1>5, <3>1, UserTyped DEF AdminChange
  <2> QED BY <1>5, <2>1, RevokeAllTyped DEF AdminChange, TypeOK
<1>6. CASE Close
  <2>1. NoReset \in ResetRow
    BY DEF NoReset, ResetRow
  <2>2. user' \in User
    BY <1>1, <1>6, UserTyped DEF Close
  <2> QED BY <1>6, <2>1, <2>2, RevokeAllTyped DEF Close, TypeOK
<1>7. ASSUME NEW s \in Sessions, SessionExpires(s) \/ GraceEnds(s) PROVE Typed'
  <2>1. /\ [session[s] EXCEPT !.expired = TRUE] \in SessionRow
        /\ [session[s] EXCEPT !.grace = FALSE] \in SessionRow
    BY <1>1 DEF SessionRow
  <2>2. CASE SessionExpires(s)
    BY <1>1, <2>1, <2>2 DEF SessionExpires, TypeOK
  <2>3. CASE GraceEnds(s)
    BY <1>1, <2>1, <2>3 DEF GraceEnds, TypeOK
  <2> QED BY <1>7, <2>2, <2>3
<1>8. CASE LinkExpires \/ CleanupRecovery
  <2>1. NoReset \in ResetRow /\ [reset EXCEPT !.expired = TRUE] \in ResetRow
    BY DEF NoReset, None, TypeOK, ResetRow
  <2> QED BY <1>8, <2>1 DEF LinkExpires, CleanupRecovery, TypeOK
<1>9. CASE UNCHANGED vars
  BY <1>9 DEF vars, TypeOK
<1> QED BY <1>2, <1>3, <1>4, <1>5, <1>6, <1>7, <1>8, <1>9 DEF Next

LEMMA TypedAlways == Spec => []Typed
BY InitTyped, TypedStep, PTL DEF Spec

\* Every variable keeps its type.
THEOREM TypeCorrect == Spec => []TypeOK
<1>1. Typed => TypeOK
  BY DEF Typed
<1> QED BY <1>1, TypedAlways, PTL

-----------------------------------------------------------------------------
(* How the account and its sessions evolve *)

\* The password changes only together with a higher auth_version.
LEMMA UserEvolves ==
    ASSUME Typed, [Next]_vars
    PROVE  \/ user'.auth = user.auth + 1
           \/ user'.auth = user.auth /\ user'.password = user.password
<1>1. user \in User
  BY DEF Typed, TypeOK
<1>2. /\ NewPassword(user).auth = user.auth + 1
      /\ [user EXCEPT !.auth = @ + 1, !.active = FALSE].auth = user.auth + 1
      /\ [user EXCEPT !.auth = @ + 1, !.email = @ + 1].auth = user.auth + 1
      /\ [user EXCEPT !.auth = @ + 1].auth = user.auth + 1
      /\ [user EXCEPT !.auth = @ + 1, !.active = FALSE, !.closing = TRUE].auth = user.auth + 1
  BY <1>1 DEF NewPassword, User
<1>3. CASE user' = user
  BY <1>3
<1>4. ASSUME NEW r \in Requests, Step(r) PROVE user' = user \/ user' = NewPassword(user)
  BY <1>4 DEF Step, LoginRead, Revoke, RotateLost, Change, RecoverRead, Recover, Reset,
              Login, Rotate, RefreshRead, ChangeRead, ResetRead
<1>5. CASE ConfirmEmail
  BY <1>1, <1>5 DEF ConfirmEmail, User
<1>6. CASE AdminEnable
  BY <1>1, <1>6 DEF AdminEnable, User
<1>7. CASE AdminChange
  BY <1>2, <1>7 DEF AdminChange
<1>8. CASE Close
  BY <1>2, <1>8 DEF Close
<1>9. CASE \/ \E t \in tokens : Logout(t)
           \/ \E s \in Sessions : SessionExpires(s) \/ GraceEnds(s)
           \/ LinkExpires \/ CleanupRecovery \/ UNCHANGED vars
  BY <1>9 DEF Logout, SessionExpires, GraceEnds, LinkExpires, CleanupRecovery, vars
<1> QED BY <1>2, <1>3, <1>4, <1>5, <1>6, <1>7, <1>8, <1>9 DEF Next

\* A session keeps the password it was opened with; one that was revoked keeps
\* its token as well.
LEMMA SessionsEvolve ==
    ASSUME Typed, [Next]_vars, NEW s \in Sessions, session[s].state # "none"
    PROVE  /\ session'[s].state # "none"
           /\ session'[s].opened = session[s].opened
           /\ session[s].state = "revoked" => session'[s].state = "revoked"
                                              /\ session'[s].token = session[s].token
<1>1. session \in [Sessions -> SessionRow]
  BY DEF Typed, TypeOK
<1>2. session[s] \in SessionRow
  BY <1>1
<1>3. /\ Ended(session[s]).state # "none"
      /\ Ended(session[s]).opened = session[s].opened
      /\ session[s].state = "revoked" => Ended(session[s]) = session[s]
  BY <1>2 DEF Ended, SessionRow
<1>4. CASE session'[s] = session[s] \/ session'[s] = Ended(session[s])
  BY <1>3, <1>4
<1>5. RevokeAll => session'[s] = Ended(session[s])
  BY DEF RevokeAll
<1>6. ASSUME NEW r \in Requests, Step(r)
      PROVE  \/ session'[s] = session[s] \/ session'[s] = Ended(session[s])
             \/ Rotate(r, s)
  <2>1. CASE Revoke(r)
    BY <2>1 DEF Revoke
  <2>2. ASSUME NEW u \in Sessions, Login(r, u) PROVE session'[s] = session[s]
    BY <1>1, <2>2 DEF Login
  <2>3. ASSUME NEW u \in Sessions, Rotate(r, u), u # s PROVE session'[s] = session[s]
    BY <1>1, <2>3 DEF Rotate
  <2>4. CASE \/ LoginRead(r) \/ RotateLost(r) \/ RecoverRead(r) \/ Recover(r)
             \/ \E t \in tokens : RefreshRead(r, t) \/ ChangeRead(r, t)
             \/ \E k \in 1 .. MaxLinks : ResetRead(r, k)
    BY <2>4 DEF LoginRead, RotateLost, RecoverRead, Recover, RefreshRead, ChangeRead, ResetRead
  <2>5. CASE Change(r) \/ Reset(r)
    BY <1>5, <2>5 DEF Change, Reset
  <2> QED BY <1>6, <2>1, <2>2, <2>3, <2>4, <2>5 DEF Step
<1>7. ASSUME NEW r \in Requests, Rotate(r, s)
      PROVE  session[s].state = "open" /\ session'[s].state = "open"
             /\ session'[s].opened = session[s].opened
  BY <1>1, <1>2, <1>7 DEF Rotate, Rotatable, SessionRow
<1>8. ASSUME NEW u \in Sessions, SessionExpires(u) \/ GraceEnds(u)
      PROVE  /\ session'[s].state = session[s].state /\ session'[s].token = session[s].token
             /\ session'[s].opened = session[s].opened
  BY <1>1, <1>2, <1>8 DEF SessionExpires, GraceEnds, SessionRow
<1>9. ASSUME NEW t \in tokens, Logout(t)
      PROVE  session'[s] = session[s] \/ session'[s] = Ended(session[s])
  BY <1>1, <1>9 DEF Logout
<1>10. CASE \/ ConfirmEmail \/ AdminEnable \/ AdminChange \/ Close
            \/ LinkExpires \/ CleanupRecovery \/ UNCHANGED vars
  BY <1>4, <1>5, <1>10 DEF ConfirmEmail, AdminEnable, AdminChange, Close, LinkExpires,
                           CleanupRecovery, vars
<1> QED BY <1>4, <1>6, <1>7, <1>8, <1>9, <1>10 DEF Next

\* A session that was revoked stays out.
THEOREM Revoked == Spec => RevokedStaysOut
<1>1. Typed /\ [Next]_vars =>
        [\A s \in Sessions : session[s].state = "revoked" =>
            /\ session'[s].state = "revoked"
            /\ session'[s].token = session[s].token]_vars
  BY SessionsEvolve
<1> QED BY <1>1, TypedAlways, PTL DEF Spec, RevokedStaysOut

-----------------------------------------------------------------------------
(* Tokens of an old password *)

\* A credential of this version was made with this password: it is an old one, or
\* the password is still the account's.
Made(auth, password, u) ==
    auth <= u.auth /\ (auth = u.auth => password = u.password)

Current ==
    /\ \A t \in tokens : /\ session[t.session].state # "none"
                         /\ Made(t.auth, session[t.session].opened, user)
    /\ \A r \in Requests : request[r].pc = "login" =>
          Made(request[r].auth, request[r].password, user)
    /\ \A r \in Requests : request[r].pc = "rotate" => \A s \in request[r].session :
          /\ session[s].state # "none"
          /\ Made(request[r].auth, session[s].opened, user)

LEMMA MadeEvolves ==
    ASSUME Typed, [Next]_vars, NEW auth \in Nat, NEW password, Made(auth, password, user)
    PROVE  Made(auth, password, user')
<1>1. user.auth \in Nat
  BY DEF Typed, TypeOK, User
<1> QED BY <1>1, UserEvolves DEF Made

\* What was made stays made: the tokens there are and a request that stands still.
LEMMA CurrentKept ==
    ASSUME Typed, Current, [Next]_vars
    PROVE  /\ \A t \in tokens : /\ session'[t.session].state # "none"
                                /\ Made(t.auth, session'[t.session].opened, user')
           /\ \A r \in Requests : request[r].pc = "login" =>
                 Made(request[r].auth, request[r].password, user')
           /\ \A r \in Requests : request[r].pc = "rotate" => \A s \in request[r].session :
                 /\ session'[s].state # "none"
                 /\ Made(request[r].auth, session'[s].opened, user')
<1>1. /\ \A t \in tokens : t.session \in Sessions /\ t.auth \in Nat
      /\ \A r \in Requests : request[r].auth \in Nat /\ request[r].session \subseteq Sessions
  BY DEF Typed, TypeOK, Token, Place
<1>2. ASSUME NEW t \in tokens
      PROVE  session'[t.session].state # "none" /\ Made(t.auth, session'[t.session].opened, user')
  <2>1. session'[t.session].state # "none" /\ session'[t.session].opened = session[t.session].opened
    BY <1>1, SessionsEvolve DEF Current
  <2>2. Made(t.auth, session[t.session].opened, user)
    BY DEF Current
  <2> QED BY <1>1, <2>1, <2>2, MadeEvolves
<1>3. ASSUME NEW r \in Requests, request[r].pc = "login"
      PROVE  Made(request[r].auth, request[r].password, user')
  <2>1. Made(request[r].auth, request[r].password, user)
    BY <1>3 DEF Current
  <2> QED BY <1>1, <2>1, MadeEvolves
<1>4. ASSUME NEW r \in Requests, request[r].pc = "rotate", NEW s \in request[r].session
      PROVE  session'[s].state # "none" /\ Made(request[r].auth, session'[s].opened, user')
  <2>1. session[s].state # "none" /\ Made(request[r].auth, session[s].opened, user)
    BY <1>4 DEF Current
  <2>2. session'[s].state # "none" /\ session'[s].opened = session[s].opened
    BY <1>1, <2>1, SessionsEvolve
  <2> QED BY <1>1, <2>1, <2>2, MadeEvolves
<1> QED BY <1>2, <1>3, <1>4

\* What one request adds: a token, or a place from which it will get one.
LEMMA CurrentRequest ==
    ASSUME Typed, Current, [Next]_vars, NEW r \in Requests, Step(r)
    PROVE  Current'
<1>1. /\ request \in [Requests -> Place] /\ tokens \in SUBSET Token /\ user \in User
      /\ session \in [Sessions -> SessionRow]
  BY DEF Typed, TypeOK
<1>2. /\ \A t \in tokens : /\ session'[t.session].state # "none"
                             /\ Made(t.auth, session'[t.session].opened, user')
      /\ \A q \in Requests : request[q].pc = "login" =>
            Made(request[q].auth, request[q].password, user')
      /\ \A q \in Requests : request[q].pc = "rotate" => \A s \in request[q].session :
            /\ session'[s].state # "none"
            /\ Made(request[q].auth, session'[s].opened, user')
  BY CurrentKept
<1>3. \A q \in Requests : q # r => request'[q] = request[q]
  BY <1>1 DEF Step, LoginRead, Login, RefreshRead, Revoke, Rotate, RotateLost, ChangeRead,
              Change, RecoverRead, Recover, ResetRead, Reset, Become, Finish
<1>4. Made(user.auth, user.password, user)
  BY <1>1 DEF Made, User
<1> DEFINE Adds ==
      /\ \A t \in tokens' \ tokens : /\ session'[t.session].state # "none"
                                     /\ Made(t.auth, session'[t.session].opened, user')
      /\ request'[r].pc = "login" => Made(request'[r].auth, request'[r].password, user')
      /\ request'[r].pc = "rotate" => \A s \in request'[r].session :
            /\ session'[s].state # "none"
            /\ Made(request'[r].auth, session'[s].opened, user')
<1>5. Adds
  <2>1. CASE LoginRead(r)
    <3>1. /\ request'[r].pc = "login"
          /\ request'[r].auth = user.auth /\ request'[r].password = user.password
      BY <1>1, <2>1 DEF LoginRead, Become, Known, Idle
    <3> QED BY <1>4, <2>1, <3>1 DEF LoginRead
  <2>2. ASSUME NEW s \in Sessions, Login(r, s) PROVE Adds
    <3>1. request'[r].pc = "idle"
      BY <1>1, <2>2 DEF Login, Finish, Idle
    <3>2. /\ session'[s].state = "open" /\ session'[s].opened = request[r].password
          /\ user' = user /\ request[r].pc = "login"
      BY <1>1, <2>2 DEF Login, At, NoSession
    <3>3. Made(request[r].auth, session'[s].opened, user')
      BY <1>2, <3>2
    <3>4. \A t \in tokens' \ tokens : t.session = s /\ t.auth = request[r].auth
      BY <2>2 DEF Login, Issue
    <3> QED BY <3>1, <3>2, <3>3, <3>4
  <2>3. ASSUME NEW t \in tokens, RefreshRead(r, t) PROVE Adds
    <3>1. user' = user /\ tokens' = tokens /\ session' = session
      BY <2>3 DEF RefreshRead
    <3>2. CASE request'[r].pc = "rotate"
      <4>1. Accepted(t) /\ request'[r].auth = user.auth /\ request'[r].session = {t.session}
        BY <1>1, <2>3, <3>2 DEF RefreshRead, Become, Idle
      <4>2. Made(user.auth, session[t.session].opened, user) /\ session[t.session].state # "none"
        BY <4>1 DEF Accepted, Current
      <4> QED BY <3>1, <3>2, <4>1, <4>2
    <3>3. CASE request'[r].pc # "rotate"
      <4>1. request'[r].pc = "revoke"
        BY <1>1, <2>3, <3>3 DEF RefreshRead, Become, Idle
      <4> QED BY <3>1, <4>1
    <3> QED BY <3>2, <3>3
  <2>4. ASSUME NEW s \in Sessions, Rotate(r, s) PROVE Adds
    <3>1. request'[r].pc = "idle"
      BY <1>1, <2>4 DEF Rotate, Finish, Idle
    <3>2. request[r].pc = "rotate" /\ s \in request[r].session
      BY <2>4 DEF Rotate, Rotatable, At
    <3>3. \A t \in tokens' \ tokens : t.session = s /\ t.auth = request[r].auth
      BY <2>4 DEF Rotate, Issue
    <3> QED BY <1>2, <3>1, <3>2, <3>3
  <2>5. CASE Revoke(r) \/ RotateLost(r) \/ Change(r) \/ Recover(r) \/ Reset(r)
    <3>1. tokens' = tokens /\ request'[r].pc = "idle"
      BY <1>1, <2>5 DEF Revoke, RotateLost, Change, Recover, Reset, Finish, Idle
    <3> QED BY <3>1
  <2>6. CASE RecoverRead(r)
    <3>1. tokens' = tokens /\ request'[r].pc = "recover"
      BY <1>1, <2>6 DEF RecoverRead, Become, Idle
    <3> QED BY <3>1
  <2>7. ASSUME NEW t \in tokens, ChangeRead(r, t) PROVE Adds
    <3>1. tokens' = tokens /\ request'[r].pc = "change"
      BY <1>1, <2>7 DEF ChangeRead, Become, Known, Idle
    <3> QED BY <3>1
  <2>8. ASSUME NEW k \in 1 .. MaxLinks, ResetRead(r, k) PROVE Adds
    <3>1. tokens' = tokens /\ request'[r].pc = "reset"
      BY <1>1, <2>8 DEF ResetRead, Become, Known, Idle
    <3> QED BY <3>1
  <2> QED BY <2>1, <2>2, <2>3, <2>4, <2>5, <2>6, <2>7, <2>8 DEF Step
<1> QED BY <1>2, <1>3, <1>5 DEF Current

LEMMA CurrentStep == Typed /\ Current /\ [Next]_vars => Current'
<1> SUFFICES ASSUME Typed, Current, [Next]_vars PROVE Current'
  OBVIOUS
<1>1. ASSUME NEW r \in Requests, Step(r) PROVE Current'
  BY <1>1, CurrentRequest
<1>2. CASE tokens' = tokens /\ request' = request
  BY <1>2, CurrentKept DEF Current
<1>3. CASE \/ \E t \in tokens : Logout(t)
           \/ ConfirmEmail \/ AdminChange \/ AdminEnable \/ Close
           \/ \E s \in Sessions : SessionExpires(s) \/ GraceEnds(s)
           \/ LinkExpires \/ CleanupRecovery \/ UNCHANGED vars
  BY <1>2, <1>3 DEF Logout, ConfirmEmail, AdminChange, AdminEnable, Close, SessionExpires,
                    GraceEnds, LinkExpires, CleanupRecovery, vars
<1> QED BY <1>1, <1>3 DEF Next

LEMMA CurrentAlways == Spec => []Current
<1>1. Init => Current
  BY DEF Init, Current, Idle
<1> QED BY <1>1, CurrentStep, TypedAlways, PTL DEF Spec

\* No token is accepted in a session of an old password.
THEOREM CurrentPassword == Spec => []AcceptedIsCurrent
<1>1. Current => AcceptedIsCurrent
  BY DEF Current, AcceptedIsCurrent, Accepted, Made
<1> QED BY <1>1, CurrentAlways, PTL

-----------------------------------------------------------------------------
(* A closed account *)

ClosingIsInactive == user.closing => ~user.active

LEMMA ClosedStep == Typed /\ ClosingIsInactive /\ [Next]_vars =>
                    ClosingIsInactive' /\ (user.closing => user' = user)
<1> SUFFICES ASSUME Typed, ClosingIsInactive, [Next]_vars
             PROVE  ClosingIsInactive' /\ (user.closing => user' = user)
  OBVIOUS
<1>1. user \in User
  BY DEF Typed, TypeOK
<1>2. CASE user' = user
  BY <1>2 DEF ClosingIsInactive
<1>3. ASSUME NEW r \in Requests, Step(r), user' # user
      PROVE  user.active /\ user' = NewPassword(user)
  BY <1>3 DEF Step, LoginRead, Revoke, RotateLost, Change, RecoverRead, Recover, Reset,
              Login, Rotate, RefreshRead, ChangeRead, ResetRead, AsRead, ReadAddress
<1>4. NewPassword(user).closing = user.closing
  BY <1>1 DEF NewPassword, User
<1>5. CASE ConfirmEmail
  BY <1>1, <1>5 DEF ConfirmEmail, ClosingIsInactive, User
<1>6. CASE AdminChange
  BY <1>1, <1>6 DEF AdminChange, ClosingIsInactive, User
<1>7. CASE AdminEnable
  BY <1>1, <1>7 DEF AdminEnable, ClosingIsInactive, User
<1>8. CASE Close
  BY <1>1, <1>8 DEF Close, ClosingIsInactive, User
<1>9. CASE \/ \E t \in tokens : Logout(t)
           \/ \E s \in Sessions : SessionExpires(s) \/ GraceEnds(s)
           \/ LinkExpires \/ CleanupRecovery \/ UNCHANGED vars
  BY <1>2, <1>9 DEF Logout, SessionExpires, GraceEnds, LinkExpires, CleanupRecovery, vars
<1> QED BY <1>2, <1>3, <1>4, <1>5, <1>6, <1>7, <1>8, <1>9 DEF Next, ClosingIsInactive

\* Nothing that was under way when the account was closed opens it again.
THEOREM Closed == Spec => ClosedStaysClosed
<1>1. Init => ClosingIsInactive
  BY DEF Init, ClosingIsInactive
<1>2. ClosingIsInactive /\ ClosingIsInactive' /\ (user.closing => user' = user) =>
        [user.closing => UNCHANGED user /\ \A t \in tokens' : ~Accepted(t)']_vars
  BY DEF ClosingIsInactive, Accepted
<1> QED BY <1>1, <1>2, ClosedStep, TypedAlways, PTL DEF Spec, ClosedStaysClosed

-----------------------------------------------------------------------------
(* Recovery links *)

\* A request resets with the number of a link that exists; while that link is the
\* account's, it is as the request read it.
LinkAsRead ==
    /\ reset.link <= links
    /\ \A r \in Requests : request[r].pc = "reset" =>
          /\ request[r].key # None /\ request[r].key <= links
          /\ reset.link = request[r].key => /\ reset.password = request[r].password
                                            /\ reset.email = request[r].email

\* Consuming, expiring and replacing a link keep or change its number.
LEMMA LinkEvolves ==
    ASSUME Typed, [Next]_vars
    PROVE  /\ links' \in Nat /\ links' >= links
           /\ \/ reset'.link = links' /\ links' = links + 1
              \/ reset'.link = None
              \/ /\ reset'.link = reset.link
                 /\ reset'.password = reset.password /\ reset'.email = reset.email
<1>1. reset \in ResetRow /\ links \in Nat
  BY DEF Typed, TypeOK
<1>2. CASE links' = links /\ reset' = reset
  BY <1>1, <1>2
<1>3. ASSUME NEW r \in Requests, Recover(r)
      PROVE  /\ links' = links + 1
             /\ reset'.link = links + 1 \/ reset' = reset
  BY <1>3 DEF Recover, NoReset
<1>4. [reset EXCEPT !.consumed = TRUE] \in ResetRow
  BY <1>1 DEF ResetRow
<1>5. ASSUME NEW r \in Requests, Reset(r)
      PROVE  /\ links' = links /\ reset'.link = reset.link
             /\ reset'.password = reset.password /\ reset'.email = reset.email
  BY <1>1, <1>5 DEF Reset, ResetRow
<1>6. ASSUME NEW r \in Requests, Step(r), ~Recover(r), ~Reset(r)
      PROVE  links' = links /\ reset' = reset
  BY <1>6 DEF Step, LoginRead, Login, RefreshRead, Revoke, Rotate, RotateLost, ChangeRead,
              Change, RecoverRead, ResetRead
<1>7. CASE Close
  BY <1>1, <1>7 DEF Close, NoReset
<1>8. CASE LinkExpires \/ CleanupRecovery
  BY <1>1, <1>8 DEF LinkExpires, CleanupRecovery, NoReset, ResetRow
<1>9. CASE \/ \E t \in tokens : Logout(t)
           \/ ConfirmEmail \/ AdminChange \/ AdminEnable
           \/ \E s \in Sessions : SessionExpires(s) \/ GraceEnds(s)
           \/ UNCHANGED vars
  BY <1>2, <1>9 DEF Logout, ConfirmEmail, AdminChange, AdminEnable, SessionExpires,
                    GraceEnds, vars
<1> QED BY <1>1, <1>2, <1>3, <1>5, <1>6, <1>7, <1>8, <1>9 DEF Next

LEMMA LinkStep == Typed /\ LinkAsRead /\ [Next]_vars => LinkAsRead'
<1> SUFFICES ASSUME Typed, LinkAsRead, [Next]_vars PROVE LinkAsRead'
  OBVIOUS
<1>1. /\ request \in [Requests -> Place] /\ reset \in ResetRow /\ links \in Nat
      /\ reset' \in ResetRow
  <2>1. Typed'
    BY TypedStep
  <2> QED BY <2>1 DEF Typed, TypeOK
<1>2. \A r \in Requests : request[r].key \in Nat
  BY <1>1 DEF Place
<1>3. reset'.link <= links'
  BY <1>1, LinkEvolves DEF LinkAsRead, None, ResetRow
<1>4. ASSUME NEW r \in Requests, request'[r].pc = "reset", request'[r] # request[r]
      PROVE  /\ request'[r].key # None
             /\ request'[r].key = reset.link /\ reset' = reset /\ links' = links
             /\ reset.password = request'[r].password /\ reset.email = request'[r].email
  <2> DEFINE New == /\ request'[r].key # None
                    /\ request'[r].key = reset.link /\ reset' = reset /\ links' = links
                    /\ reset.password = request'[r].password
                    /\ reset.email = request'[r].email
  <2>1. ASSUME NEW q \in Requests, Step(q), q # r PROVE request'[r] = request[r]
    BY <1>1, <2>1 DEF Step, LoginRead, Login, RefreshRead, Revoke, Rotate, RotateLost,
                ChangeRead, Change, RecoverRead, Recover, ResetRead, Reset, Become, Finish
  <2>2. ASSUME NEW k \in 1 .. MaxLinks, ResetRead(r, k) PROVE New
    BY <1>1, <2>2 DEF ResetRead, Become, Known, Idle
  <2>3. request' # request
    BY <1>4
  <2>4. CASE Step(r)
    <3>1. LoginRead(r) => request'[r].pc = "login"
      BY <1>1 DEF LoginRead, Become, Known, Idle
    <3>2. RecoverRead(r) => request'[r].pc = "recover"
      BY <1>1 DEF RecoverRead, Become, Idle
    <3>3. \A t \in tokens : RefreshRead(r, t) => request'[r].pc \in {"rotate", "revoke"}
      BY <1>1 DEF RefreshRead, Become, Idle
    <3>4. \A t \in tokens : ChangeRead(r, t) => request'[r].pc = "change"
      BY <1>1 DEF ChangeRead, Become, Known, Idle
    <3>5. Finish(r) => request'[r].pc = "idle"
      BY <1>1 DEF Finish, Idle
    <3>6. \/ Finish(r) \/ LoginRead(r) \/ RecoverRead(r)
          \/ \E t \in tokens : RefreshRead(r, t) \/ ChangeRead(r, t)
          \/ \E k \in 1 .. MaxLinks : ResetRead(r, k)
      BY <2>4 DEF Step, Login, Rotate, Revoke, RotateLost, Change, Recover, Reset
    <3> QED BY <1>4, <2>2, <3>1, <3>2, <3>3, <3>4, <3>5, <3>6
  <2>5. \E q \in Requests : Step(q)
    BY <2>3 DEF Next, vars, Logout, ConfirmEmail, AdminChange, AdminEnable, Close,
                SessionExpires, GraceEnds, LinkExpires, CleanupRecovery
  <2> QED BY <1>4, <2>1, <2>4, <2>5
<1>5. ASSUME NEW r \in Requests, request'[r].pc = "reset"
      PROVE  /\ request'[r].key # None /\ request'[r].key <= links'
             /\ reset'.link = request'[r].key => /\ reset'.password = request'[r].password
                                                 /\ reset'.email = request'[r].email
  <2>1. CASE request'[r] # request[r]
    BY <1>1, <1>4, <1>5, <2>1 DEF LinkAsRead
  <2>2. CASE request'[r] = request[r]
    <3>1. /\ request[r].key # None /\ request[r].key <= links
          /\ reset.link = request[r].key => /\ reset.password = request[r].password
                                            /\ reset.email = request[r].email
      BY <1>5, <2>2 DEF LinkAsRead
    <3>2. /\ request[r].key \in Nat /\ links \in Nat /\ links' \in Nat
          /\ request[r].key <= links /\ links <= links'
      BY <1>1, <1>2, <3>1, LinkEvolves
    <3>3. CASE reset'.link = links' /\ links' = links + 1
      BY <2>2, <3>1, <3>2, <3>3
    <3>4. CASE reset'.link = None
      BY <2>2, <3>1, <3>2, <3>4
    <3>5. CASE /\ reset'.link = reset.link
               /\ reset'.password = reset.password /\ reset'.email = reset.email
      BY <2>2, <3>1, <3>2, <3>5
    <3> QED BY <3>3, <3>4, <3>5, LinkEvolves
  <2> QED BY <2>1, <2>2
<1> QED BY <1>3, <1>5 DEF LinkAsRead

\* A link sets the password of the account it was made for, or nothing.
THEOREM Recovered == Spec => ResetUnderItsFingerprint
<1>1. Init => LinkAsRead
  BY DEF Init, LinkAsRead, NoReset, None, Idle
<1>2. ASSUME Typed, LinkAsRead, [Next]_vars, NEW r \in Requests,
             At(r, "reset"), request'[r] = Idle, user'.password # user.password
      PROVE  /\ reset.link = request[r].key /\ ~reset.consumed
             /\ reset.password = user.password /\ reset.email = user.email
  <2>1. request \in [Requests -> Place] /\ user \in User
    BY <1>2 DEF Typed, TypeOK
  <2>2. request'[r] # request[r]
    BY <1>2 DEF At, Idle
  <2>3. ASSUME NEW q \in Requests, Step(q) PROVE q = r
    BY <2>1, <2>2, <2>3 DEF Step, LoginRead, Login, RefreshRead, Revoke, Rotate, RotateLost,
            ChangeRead, Change, RecoverRead, Recover, ResetRead, Reset, Become, Finish
  <2>4. Step(r)
    BY <1>2, <2>2, <2>3 DEF Next, vars, Logout, ConfirmEmail, AdminChange, AdminEnable, Close,
                SessionExpires, GraceEnds, LinkExpires, CleanupRecovery
  <2>5. Reset(r)
    BY <1>2, <2>4 DEF Step, LoginRead, Login, RefreshRead, Revoke, Rotate, RotateLost,
            ChangeRead, Change, RecoverRead, Recover, ResetRead, Become, At
  <2>6. LinkValid(r) /\ ReadAddress(r)
    BY <1>2, <2>5 DEF Reset
  <2> QED BY <1>2, <2>6 DEF LinkValid, ReadAddress, AsRead, LinkAsRead, At
<1>3. Typed /\ LinkAsRead /\ [Next]_vars =>
        [\A r \in Requests :
          At(r, "reset") /\ request'[r] = Idle /\ user'.password # user.password =>
              /\ reset.link = request[r].key /\ ~reset.consumed
              /\ reset.password = user.password /\ reset.email = user.email]_vars
  BY <1>2
<1> QED BY <1>1, <1>3, LinkStep, TypedAlways, PTL DEF Spec, ResetUnderItsFingerprint

-----------------------------------------------------------------------------
(* Exchanging a token *)

\* The session s gets the next token, in exchange for its own or for none.
Exchanged(s) ==
    /\ \A u \in Sessions : session'[u].token = IF u = s THEN Cardinality(tokens) + 1
                                               ELSE session[u].token
    /\ \E auth \in Nat, parent \in Nat :
          /\ parent = None \/ parent = session[s].token
          /\ Issue(s, auth, parent)

LEMMA TokensEvolve ==
    ASSUME Typed, [Next]_vars
    PROVE  \/ tokens' = tokens /\ \A u \in Sessions : session'[u].token = session[u].token
           \/ \E s \in Sessions : Exchanged(s)
<1>1. /\ request \in [Requests -> Place] /\ session \in [Sessions -> SessionRow]
      /\ \A u \in Sessions : session[u] \in SessionRow
  BY DEF Typed, TypeOK
<1> DEFINE Kept == tokens' = tokens /\ \A u \in Sessions : session'[u].token = session[u].token
<1>2. \A u \in Sessions : Ended(session[u]).token = session[u].token
  BY <1>1 DEF Ended, SessionRow
<1>3. RevokeAll => \A u \in Sessions : session'[u].token = session[u].token
  BY <1>2 DEF RevokeAll
<1>4. ASSUME NEW r \in Requests, NEW s \in Sessions, Login(r, s) PROVE Exchanged(s)
  <2>1. \A u \in Sessions : session'[u].token = IF u = s THEN Cardinality(tokens) + 1
                                                ELSE session[u].token
    BY <1>1, <1>4 DEF Login, NoSession
  <2>2. request[r].auth \in Nat /\ None \in Nat
    BY <1>1 DEF Place, None
  <2> QED BY <1>4, <2>1, <2>2 DEF Login, Exchanged
<1>5. ASSUME NEW r \in Requests, NEW s \in Sessions, Rotate(r, s) PROVE Exchanged(s)
  <2>1. \A u \in Sessions : session'[u].token = IF u = s THEN Cardinality(tokens) + 1
                                                ELSE session[u].token
    BY <1>1, <1>5 DEF Rotate, SessionRow
  <2>2. request[r].auth \in Nat /\ request[r].key \in Nat /\ request[r].key = session[s].token
    BY <1>1, <1>5 DEF Place, Rotate, Rotatable
  <2> QED BY <1>5, <2>1, <2>2 DEF Rotate, Exchanged
<1>6. ASSUME NEW r \in Requests, Step(r), \A s \in Sessions : ~Login(r, s) /\ ~Rotate(r, s)
      PROVE  Kept
  <2>1. CASE Revoke(r)
    BY <1>1, <1>2, <2>1 DEF Revoke
  <2>2. CASE Change(r) \/ Reset(r)
    BY <1>3, <2>2 DEF Change, Reset
  <2>3. CASE ~Revoke(r) /\ ~Change(r) /\ ~Reset(r)
    BY <1>6, <2>3 DEF Step, LoginRead, RotateLost, RecoverRead, Recover, RefreshRead,
                      ChangeRead, ResetRead
  <2> QED BY <2>1, <2>2, <2>3
<1>7. ASSUME NEW t \in tokens, Logout(t) PROVE Kept
  BY <1>1, <1>2, <1>7 DEF Logout
<1>8. CASE \/ ConfirmEmail \/ AdminChange \/ AdminEnable \/ Close
           \/ LinkExpires \/ CleanupRecovery \/ UNCHANGED vars
  BY <1>3, <1>8 DEF ConfirmEmail, AdminChange, AdminEnable, Close, LinkExpires,
                    CleanupRecovery, vars
<1>9. ASSUME NEW s \in Sessions, SessionExpires(s) \/ GraceEnds(s) PROVE Kept
  BY <1>1, <1>9 DEF SessionExpires, GraceEnds, SessionRow
<1> QED BY <1>4, <1>5, <1>6, <1>7, <1>8, <1>9 DEF Next

\* Tokens are numbered in order; a session's token is its own, and was not
\* exchanged yet.
Numbered ==
    /\ \A t \in tokens : t.id <= Cardinality(tokens) /\ t.parent <= Cardinality(tokens)
    /\ \A s \in Sessions : session[s].token <= Cardinality(tokens)
    /\ \A s, u \in Sessions :
          session[s].token = session[u].token /\ session[s].token # None => s = u
    /\ \A t \in tokens, s \in Sessions : t.parent # None => session[s].token # t.parent
    /\ ExchangedOnce

LEMMA NumberedStep == Typed /\ Numbered /\ [Next]_vars => Numbered'
<1> SUFFICES ASSUME Typed, Numbered, [Next]_vars PROVE Numbered'
  OBVIOUS
<1>1. /\ IsFiniteSet(tokens) /\ tokens \in SUBSET Token
      /\ \A u \in Sessions : session[u].token \in Nat
  BY DEF Typed, TypeOK, SessionRow
<1>2. Cardinality(tokens) \in Nat /\ \A t \in tokens : t.parent \in Nat /\ t.id \in Nat
  BY <1>1, FS_CardinalityType DEF Token
<1>3. CASE tokens' = tokens /\ \A u \in Sessions : session'[u].token = session[u].token
  BY <1>3 DEF Numbered, ExchangedOnce
<1>4. ASSUME NEW s \in Sessions, Exchanged(s) PROVE Numbered'
  <2> DEFINE n == Cardinality(tokens)
  <2>1. PICK auth \in Nat, parent \in Nat :
          /\ parent = None \/ parent = session[s].token
          /\ Issue(s, auth, parent)
    BY <1>4 DEF Exchanged
  <2> DEFINE new == [id |-> n + 1, session |-> s, auth |-> auth, parent |-> parent]
  <2>2. tokens' = tokens \cup {new} /\ new.parent = parent
    BY <2>1 DEF Issue
  <2>3. Cardinality(tokens') = n + 1
    <3>1. new \notin tokens
      BY <1>2 DEF Numbered
    <3> QED BY <1>1, <2>2, <3>1, FS_AddElement
  <2>4. \A u \in Sessions : session'[u].token = IF u = s THEN n + 1 ELSE session[u].token
    BY <1>4 DEF Exchanged
  <2>5. /\ \A t \in tokens : t.id <= n /\ t.parent <= n
        /\ \A u \in Sessions : session[u].token <= n
        /\ \A t \in tokens, u \in Sessions : t.parent # None => session[u].token # t.parent
        /\ \A t, u \in tokens : t.parent = u.parent /\ t.parent # None => t = u
    BY DEF Numbered, ExchangedOnce
  <2>6. \A u, v \in Sessions :
          session[u].token = session[v].token /\ session[u].token # None => u = v
    BY DEF Numbered
  <2>7. new.id = n + 1 /\ n \in Nat
    BY <1>2
  <2> HIDE DEF n, new
  <2>8. parent <= n
    BY <1>1, <2>1, <2>5, <2>7 DEF None
  <2>9. \A t \in tokens' : t.id <= n + 1 /\ t.parent <= n
    BY <1>2, <2>2, <2>5, <2>7, <2>8
  <2>10. \A u \in Sessions : session'[u].token <= n + 1
    BY <1>1, <2>4, <2>5, <2>7
  <2>11. \A u, v \in Sessions :
           session'[u].token = session'[v].token /\ session'[u].token # None => u = v
    BY <1>1, <2>4, <2>5, <2>6, <2>7
  <2>12. \A t \in tokens', u \in Sessions : t.parent # None => session'[u].token # t.parent
    <3>1. ASSUME NEW t \in tokens, NEW u \in Sessions, t.parent # None
          PROVE  session'[u].token # t.parent
      BY <1>1, <1>2, <2>4, <2>5, <2>7, <3>1
    <3>2. ASSUME NEW u \in Sessions, parent # None PROVE session'[u].token # parent
      BY <1>1, <2>1, <2>4, <2>5, <2>6, <2>7, <2>8, <3>2
    <3> QED BY <2>2, <3>1, <3>2
  <2>13. \A t, u \in tokens' : t.parent = u.parent /\ t.parent # None => t = u
    BY <2>1, <2>2, <2>5
  <2>14. \A t \in tokens' : t.parent <= n + 1
    BY <1>2, <2>1, <2>2, <2>7, <2>9
  <2> QED BY <2>3, <2>9, <2>10, <2>11, <2>12, <2>13, <2>14 DEF Numbered, ExchangedOnce
<1> QED BY <1>3, <1>4, TokensEvolve

\* A refresh token is exchanged once.
THEOREM Exchanging == Spec => []ExchangedOnce
<1>1. Init => Numbered
  BY FS_EmptySet DEF Init, Numbered, ExchangedOnce, NoSession, None
<1>2. Numbered => ExchangedOnce
  BY DEF Numbered
<1> QED BY <1>1, <1>2, NumberedStep, TypedAlways, PTL DEF Spec

-----------------------------------------------------------------------------
(* SourceEvidence.  That the inputs of a run are those saved for it, and that  *)
(* the providers are spared, for any number of workers, papers, versions and   *)
(* take-overs.                                                                 *)

Saves  == [Papers -> Documents \cup {Missing}]
ReaderPlaces == {"idle", "look", "fetch", "answered", "papers", "fence", "save", "complete", "evidence", "assess"}
Thens  == {"idle", "papers", "fence", "evidence"}
Row    == [at : ReaderPlaces, of : Providers, want : SUBSET Papers, ask : SUBSET Papers, then : Thens,
           found : Lookups, docs : Saves]

-----------------------------------------------------------------------------
(* What becomes of a worker's row, field by field.                             *)

LEMMA Fields ==
    ASSUME NEW l \in Row
    PROVE  /\ l.at \in ReaderPlaces /\ l.of \in Providers /\ l.want \subseteq Papers /\ l.ask \subseteq Papers
           /\ l.then \in Thens /\ l.found \in Lookups /\ l.docs \in Saves
  BY DEF Row

LEMMA Fresh ==
    /\ NotReading \in Row /\ NotReading.at = "idle" /\ NotReading.then = "idle"
    /\ NotReading.docs = [p \in Papers |-> Missing]
  BY SourcesAssumption DEF NotReading, Row, ReaderPlaces, Providers, Thens, Lookups, Saves, Documents, Refused, Missing

LEMMA MovesTo ==
    ASSUME NEW l \in Row, NEW place \in ReaderPlaces
    PROVE  LET new == [l EXCEPT !.at = place] IN
           new \in Row /\ new.at = place /\ new.want = l.want /\ new.then = l.then /\ new.docs = l.docs
  BY DEF Row

LEMMA EndsRow ==
    ASSUME NEW l \in Row
    PROVE  LET new == Returned(l) IN
           new \in Row /\ new.at = l.then /\ new.want = l.want /\ new.then = "idle" /\ new.docs = l.docs
  BY DEF Row, Returned, Providers, Thens, ReaderPlaces

LEMMA FindsRow ==
    ASSUME NEW l \in Row, NEW found \in Lookups
    PROVE  LET new == [l EXCEPT !.found = found] IN
           new \in Row /\ new.at = l.at /\ new.want = l.want /\ new.then = l.then /\ new.docs = l.docs
  BY DEF Row

Claimed(l, ask, found) == [l EXCEPT !.at = "fetch", !.ask = ask, !.found = found]

LEMMA ClaimsRow ==
    ASSUME NEW l \in Row, NEW ask \in SUBSET Papers, NEW found \in Lookups
    PROVE  LET new == Claimed(l, ask, found) IN
           /\ new \in Row /\ new.at = "fetch" /\ new.of = l.of
           /\ new.want = l.want /\ new.then = l.then /\ new.docs = l.docs
  BY DEF Row, ReaderPlaces, Claimed

LEMMA AnswersRow ==
    ASSUME NEW l \in Row, NEW found \in Lookups
    PROVE  LET new == [l EXCEPT !.at = "answered", !.found = found] IN
           new \in Row /\ new.at = "answered" /\ new.want = l.want /\ new.then = l.then /\ new.docs = l.docs
  BY DEF Row, ReaderPlaces

LEMMA LooksUpRow ==
    ASSUME NEW l \in Row, NEW s \in Providers, NEW want \in SUBSET Papers, NEW then \in Thens
    PROVE  LET new == LookUp(l, s, want, then) IN
           new \in Row /\ new.at = "look" /\ new.want = want /\ new.then = then /\ new.docs = l.docs
  BY DEF Row, ReaderPlaces, LookUp

LEMMA StartsRow ==
    ASSUME NEW l \in Row, NEW docs \in Saves
    PROVE  LET new == [l EXCEPT !.docs = docs] IN
           new \in Row /\ new.at = l.at /\ new.then = l.then /\ new.docs = docs
  BY DEF Row

LEMMA WantsRow ==
    ASSUME NEW l \in Row, NEW want \in SUBSET Papers
    PROVE  LET new == [l EXCEPT !.at = "fence", !.want = want] IN
           new \in Row /\ new.at = "fence" /\ new.want = want /\ new.then = l.then /\ new.docs = l.docs
  BY DEF Row, ReaderPlaces

Recorded(l, p, value) == [l EXCEPT !.at = "papers", !.want = {}, !.found[p] = Refused, !.docs[p] = value]

LEMMA SavesRow ==
    ASSUME NEW l \in Row, NEW p \in Papers, NEW value \in Documents
    PROVE  LET new == Recorded(l, p, value) IN
           /\ new \in Row /\ new.at = "papers" /\ new.want = {} /\ new.then = l.then
           /\ new.docs = [l.docs EXCEPT ![p] = value]
<1>1. [l.found EXCEPT ![p] = Refused] \in Lookups /\ [l.docs EXCEPT ![p] = value] \in Saves
  BY SourcesAssumption DEF Row, Lookups, Saves, Documents, Refused
<1> QED
  BY <1>1 DEF Row, ReaderPlaces, Recorded

Assessing(l, found) == [l EXCEPT !.at = "assess", !.found = found]

LEMMA AssessesRow ==
    ASSUME NEW l \in Row, NEW found \in Lookups
    PROVE  LET new == Assessing(l, found) IN
           /\ new \in Row /\ new.at = "assess" /\ new.want = l.want /\ new.then = l.then
           /\ new.found = found /\ new.docs = l.docs
  BY DEF Row, ReaderPlaces, Assessing

-----------------------------------------------------------------------------
(* The invariant. Good is what holds of the row l of a worker f when c, e and v *)
(* are the saved documents, the saved evidence and the providers' leases.       *)

Good(f, l, c, e, v) ==
    /\ \A p \in Papers : l.docs[p] # Missing => l.docs[p] = c[p]
    /\ l.at \in {"fence", "save"} \/ l.then = "fence" => l.want \subseteq selected
    /\ l.at = "assess" => l.found = e /\ e \in Lookups
    /\ l.at = "fetch" => v[l.of].open = "leased" /\ v[l.of].token = f

RowsGood ==
    /\ reader \in [Readers -> Row]
    /\ \A f \in Readers : Good(f, reader[f], content, evidence, provider)

SavedGood ==
    /\ selected \subseteq Papers /\ selected # {}
    /\ content \in Saves /\ \A p \in Papers : content[p] # Missing => p \in selected
    /\ evidence \in Lookups \cup {Lacking} /\ assessed \in Lookups \cup {Lacking}
    /\ used # {} => \A p \in selected : content[p] # Missing
    /\ InputsAreSaved

SharedGood ==
    /\ cache \in Saves
    /\ provider \in [Providers -> [open : {"open", "leased", "cooling", "exhausted"}, token : Readers \cup {NoReader}]]
    /\ requests \in Nat /\ requests % 2 = 0 /\ sent \in Nat /\ sent <= Budget
    /\ pmcWindow \in {"running", "over"} /\ (pmcWindow = "running" => sent = requests)

EvidenceInv == RowsGood /\ SavedGood /\ SharedGood

\* How the shared state may change while worker f moves.
Grows     == \A p \in Papers : content[p] # Missing => content'[p] = content[p]
SettlesReader   == evidence' = evidence \/ evidence = Lacking
Leases(f) == \A g \in Readers : \A s \in Providers :
                g # f /\ provider[s].open = "leased" /\ provider[s].token = g /\ reader[g].at = "fetch" /\ reader[g].of = s
                => provider'[s] = provider[s]

\* A lookup is never the mark of missing evidence, for some paper was selected.
LEMMA NotLacking == SavedGood => Lacking \notin Lookups
<1> SUFFICES ASSUME SavedGood, Lacking \in Lookups PROVE FALSE
  OBVIOUS
<1>1. PICK p : p \in Papers
  BY DEF SavedGood
<1>2. DOMAIN Lacking = Papers
  BY DEF Lookups
<1>3. DOMAIN Lacking = {}
  BY DEF Lacking
<1> QED
  BY <1>1, <1>2, <1>3

LEMMA OtherGood ==
    ASSUME EvidenceInv, NEW g \in Readers, selected' = selected, Grows, SettlesReader,
           reader[g].at = "fetch" => provider'[reader[g].of] = provider[reader[g].of]
    PROVE  Good(g, reader[g], content', evidence', provider')
<1>1. Good(g, reader[g], content, evidence, provider) /\ reader[g] \in Row
  BY DEF EvidenceInv, RowsGood
<1>2. \A p \in Papers : reader[g].docs[p] # Missing => reader[g].docs[p] = content'[p]
  BY <1>1 DEF Good, Grows
<1>3. reader[g].at = "assess" => evidence # Lacking
  BY <1>1, NotLacking DEF Good, EvidenceInv
<1> QED
  BY <1>1, <1>2, <1>3 DEF Good, SettlesReader

LEMMA RowsKept ==
    ASSUME EvidenceInv, NEW f \in Readers, NEW l \in Row, Becomes(f, l), selected' = selected,
           Grows, SettlesReader, Leases(f), Good(f, l, content', evidence', provider')
    PROVE  RowsGood'
<1>1. reader' \in [Readers -> Row] /\ \A g \in Readers : reader'[g] = IF g = f THEN l ELSE reader[g]
  BY DEF EvidenceInv, RowsGood, Becomes
<1>2. ASSUME NEW g \in Readers, g # f PROVE Good(g, reader[g], content', evidence', provider')
  <2>1. Good(g, reader[g], content, evidence, provider) /\ reader[g] \in Row
    BY DEF EvidenceInv, RowsGood
  <2>2. reader[g].at = "fetch" => provider'[reader[g].of] = provider[reader[g].of]
    BY <1>2, <2>1, Fields DEF Good, Leases
  <2> QED
    BY <2>2, OtherGood
<1>3. \A g \in Readers : Good(g, reader'[g], content', evidence', provider')
  BY <1>1, <1>2
<1> QED
  BY <1>1, <1>3 DEF RowsGood, Good

\* A worker that moves without touching anything shared.
LEMMA RowOnly ==
    ASSUME EvidenceInv, NEW f \in Readers, NEW l \in Row, Becomes(f, l),
           UNCHANGED <<sourceVars, sharedVars>>, Good(f, l, content, evidence, provider)
    PROVE  EvidenceInv'
<1>1. /\ UNCHANGED <<selected, content, evidence, assessed, used, cache, provider, requests, pmcWindow, sent>>
      /\ Grows /\ SettlesReader /\ Leases(f)
  BY DEF sourceVars, sharedVars, Grows, SettlesReader, Leases
<1>2. Good(f, l, content', evidence', provider')
  BY <1>1 DEF Good
<1>3. RowsGood'
  BY <1>1, <1>2, RowsKept
<1>4. SavedGood' /\ SharedGood'
  BY <1>1 DEF EvidenceInv, SavedGood, SharedGood, InputsAreSaved
<1> QED
  BY <1>3, <1>4 DEF EvidenceInv

\* A row that keeps its documents and its wish, and neither asks nor assesses.
LEMMA StillGood ==
    ASSUME EvidenceInv, NEW f \in Readers, NEW l \in Row,
           l.docs = reader[f].docs, l.want = reader[f].want, l.at \notin {"assess", "fetch"},
           l.at \in {"fence", "save"} \/ l.then = "fence"
           => reader[f].at \in {"fence", "save"} \/ reader[f].then = "fence"
    PROVE  Good(f, l, content, evidence, provider)
BY DEF EvidenceInv, RowsGood, Good

LEMMA FreshGood ==
    ASSUME NEW f \in Readers, NEW c, NEW e, NEW v
    PROVE  Good(f, NotReading, c, e, v)
BY Fresh DEF Good

LEMMA CachedTyped ==
    ASSUME EvidenceInv, NEW f \in Readers
    PROVE  reader[f] \in Row /\ WithCached(reader[f]) \in Lookups /\ Stale(reader[f]) \in SUBSET Papers
<1>1. reader[f] \in Row /\ reader[f].found \in Lookups /\ reader[f].want \subseteq Papers
  BY Fields DEF EvidenceInv, RowsGood
<1>2. \A p \in Papers : cache[p] \in Documents \/ cache[p] = Missing
  BY DEF EvidenceInv, SharedGood, Saves
<1>3. Refused \in Documents
  BY SourcesAssumption DEF Documents, Refused
<1> QED
  BY <1>1, <1>2, <1>3 DEF WithCached, Stale, Lookups

-----------------------------------------------------------------------------
(* The actions.                                                                *)

LEMMA WithoutFetches ==
    ASSUME EvidenceInv, NEW f \in Readers, WithoutFetch(f)
    PROVE  EvidenceInv'
<1> DEFINE l == reader[f]
           m == Returned(l)
           n == [m EXCEPT !.found = WithCached(l)]
<1>1. l \in Row /\ WithCached(l) \in Lookups
  BY CachedTyped
<1>2. /\ m \in Row /\ m.at = l.then /\ m.want = l.want /\ m.then = "idle" /\ m.docs = l.docs
      /\ n \in Row /\ n.at = m.at /\ n.want = m.want /\ n.then = m.then /\ n.docs = m.docs
  BY <1>1, EndsRow, FindsRow
<1>3. Becomes(f, n) /\ UNCHANGED <<sourceVars, sharedVars>>
  BY DEF WithoutFetch, Gives
<1>4. l.then \in Thens
  BY <1>1, Fields
<1> HIDE DEF m, n
<1>5. Good(f, n, content, evidence, provider)
  BY <1>2, <1>4, StillGood DEF Thens
<1> QED
  BY <1>2, <1>3, <1>5, RowOnly

\* The budget is even, and each claim counts two requests.
LEMMA Claims ==
    ASSUME EvidenceInv, NEW f \in Readers, Claim(f)
    PROVE  EvidenceInv'
<1> DEFINE l == reader[f]
           ask == Stale(l)
           found == WithCached(l)
           n == Claimed(l, ask, found)
           row == [open |-> "leased", token |-> f]
<1>1. l \in Row /\ found \in Lookups /\ ask \in SUBSET Papers /\ l.of \in Providers
  BY CachedTyped, Fields
<1>2. Becomes(f, n)
  BY DEF Claim, Claimed
<1> HIDE DEF ask, found
<1>3. /\ n \in Row /\ n.at = "fetch" /\ n.of = l.of
      /\ n.want = l.want /\ n.then = l.then /\ n.docs = l.docs
  BY <1>1, ClaimsRow
<1>4. /\ Becomes(f, n) /\ UNCHANGED <<selected, content, evidence, assessed, used, cache>>
      /\ provider' = [provider EXCEPT ![l.of] = row] /\ provider[l.of].open = "open" /\ l.at = "look"
  BY <1>2 DEF Claim, sourceVars, Available, ReaderAt
<1> HIDE DEF n
<1>5. /\ provider' \in [Providers -> [open : {"open", "leased", "cooling", "exhausted"}, token : Readers \cup {NoReader}]]
      /\ provider'[l.of].open = "leased" /\ provider'[l.of].token = f
      /\ \A s \in Providers : s # l.of => provider'[s] = provider[s]
  BY <1>1, <1>4 DEF EvidenceInv, SharedGood
<1>6. Grows /\ SettlesReader /\ Leases(f)
  BY <1>4, <1>5 DEF Grows, SettlesReader, Leases
<1>7. Good(f, n, content', evidence', provider')
  <2>1. Good(f, l, content, evidence, provider)
    BY DEF EvidenceInv, RowsGood
  <2> QED
    BY <1>3, <1>4, <1>5, <2>1 DEF Good
<1>8. RowsGood'
  BY <1>3, <1>4, <1>6, <1>7, RowsKept
<1>9. SavedGood'
  BY <1>4 DEF EvidenceInv, SavedGood, InputsAreSaved
<1>10. /\ requests' \in Nat /\ requests' % 2 = 0 /\ sent' \in Nat /\ sent' <= Budget
      /\ pmcWindow' \in {"running", "over"} /\ (pmcWindow' = "running" => sent' = requests')
  <2>1. CASE l.of # "pmc"
    <3>1. UNCHANGED <<requests, pmcWindow, sent>>
      BY <2>1 DEF Claim
    <3> QED
      BY <3>1 DEF EvidenceInv, SharedGood
  <2>2. CASE l.of = "pmc" /\ pmcWindow = "running"
    <3>1. requests' = requests + 2 /\ sent' = sent + 2 /\ pmcWindow' = "running" /\ ~(requests >= Budget)
      BY <2>2 DEF Claim, BudgetSpent
    <3>2. requests \in Nat /\ requests % 2 = 0 /\ sent = requests
      BY <2>2 DEF EvidenceInv, SharedGood
    <3> QED
      BY <3>1, <3>2, SourcesAssumption
  <2>3. CASE l.of = "pmc" /\ pmcWindow # "running"
    <3>1. requests' = 2 /\ sent' = 2 /\ pmcWindow' = "running"
      BY <2>3 DEF Claim
    <3> QED
      BY <3>1, SourcesAssumption
  <2> QED
    BY <2>1, <2>2, <2>3
<1>11. SharedGood'
  BY <1>4, <1>5, <1>10 DEF EvidenceInv, SharedGood
<1> QED
  BY <1>8, <1>9, <1>11 DEF EvidenceInv

LEMMA Exhausts ==
    ASSUME EvidenceInv, NEW f \in Readers, Exhaust(f)
    PROVE  EvidenceInv'
<1> DEFINE l == reader[f]
           m == Returned(l)
           n == [m EXCEPT !.found = WithCached(l)]
           row == [open |-> "exhausted", token |-> NoReader]
<1>1. l \in Row /\ WithCached(l) \in Lookups /\ l.then \in Thens
  BY CachedTyped, Fields
<1>2. /\ m \in Row /\ m.at = l.then /\ m.want = l.want /\ m.then = "idle" /\ m.docs = l.docs
      /\ n \in Row /\ n.at = m.at /\ n.want = m.want /\ n.then = m.then /\ n.docs = m.docs
  BY <1>1, EndsRow, FindsRow
<1>3. /\ Becomes(f, n) /\ UNCHANGED <<selected, content, evidence, assessed, used, cache, requests, pmcWindow, sent>>
      /\ provider' = [provider EXCEPT !["pmc"] = row] /\ provider["pmc"].open = "open"
  BY DEF Exhaust, Gives, Available, sourceVars
<1> HIDE DEF m, n
<1>4. /\ provider' \in [Providers -> [open : {"open", "leased", "cooling", "exhausted"}, token : Readers \cup {NoReader}]]
      /\ \A s \in Providers : s # "pmc" => provider'[s] = provider[s]
  BY <1>3 DEF EvidenceInv, SharedGood
<1>5. Grows /\ SettlesReader /\ Leases(f)
  BY <1>3, <1>4 DEF Grows, SettlesReader, Leases
<1>6. Good(f, n, content', evidence', provider')
  <2>1. Good(f, n, content, evidence, provider)
    BY <1>1, <1>2, StillGood DEF Thens
  <2> QED
    BY <1>1, <1>2, <1>3, <2>1 DEF Good, Thens
<1>7. RowsGood'
  BY <1>2, <1>3, <1>5, <1>6, RowsKept
<1>8. SavedGood' /\ SharedGood'
  BY <1>3, <1>4 DEF EvidenceInv, SavedGood, SharedGood, InputsAreSaved
<1> QED
  BY <1>7, <1>8 DEF EvidenceInv

LEMMA FetchesSource ==
    ASSUME EvidenceInv, NEW f \in Readers, FetchSource(f)
    PROVE  EvidenceInv'
<1> DEFINE l == reader[f]
<1>1. l \in Row /\ l.found \in Lookups
  BY CachedTyped, Fields
<1>2. PICK answer \in [l.ask -> Documents] :
         Becomes(f, [l EXCEPT !.at = "answered", !.found = [p \in Papers |-> IF p \in l.ask THEN answer[p] ELSE l.found[p]]])
  BY DEF FetchSource
<1> DEFINE found == [p \in Papers |-> IF p \in l.ask THEN answer[p] ELSE l.found[p]]
           n     == [l EXCEPT !.at = "answered", !.found = found]
<1>3. found \in Lookups
  BY <1>1 DEF Lookups
<1>4. Becomes(f, n) /\ UNCHANGED <<sourceVars, sharedVars>>
  BY <1>2 DEF FetchSource
<1> HIDE DEF found
<1>5. n \in Row /\ n.at = "answered" /\ n.want = l.want /\ n.then = l.then /\ n.docs = l.docs
  BY <1>1, <1>3, AnswersRow
<1> HIDE DEF n
<1>6. Good(f, n, content, evidence, provider)
  BY <1>5, StillGood
<1> QED
  BY <1>4, <1>5, <1>6, RowOnly

LEMMA Records ==
    ASSUME EvidenceInv, NEW f \in Readers, Record(f)
    PROVE  EvidenceInv'
<1> DEFINE l == reader[f]
           n == Returned(l)
           row == [open |-> "cooling", token |-> NoReader]
<1>1. l \in Row /\ l.found \in Lookups /\ l.then \in Thens /\ l.of \in Providers
  BY CachedTyped, Fields
<1>2. n \in Row /\ n.at = l.then /\ n.want = l.want /\ n.then = "idle" /\ n.docs = l.docs
  BY <1>1, EndsRow
<1>3. /\ Becomes(f, n) /\ UNCHANGED <<selected, content, evidence, assessed, used, requests, pmcWindow, sent>>
      /\ cache' = [p \in Papers |-> IF p \in l.ask THEN l.found[p] ELSE cache[p]]
      /\ provider' = IF provider[l.of].token = f THEN [provider EXCEPT ![l.of] = row] ELSE provider
  BY DEF Record, Releases, sourceVars
<1> HIDE DEF n
<1>4. /\ provider' \in [Providers -> [open : {"open", "leased", "cooling", "exhausted"}, token : Readers \cup {NoReader}]]
      /\ \A s \in Providers : s # l.of \/ provider[s].token # f => provider'[s] = provider[s]
  BY <1>1, <1>3 DEF EvidenceInv, SharedGood
<1>5. cache' \in Saves
  BY <1>1, <1>3 DEF EvidenceInv, SharedGood, Saves, Lookups
<1>6. Grows /\ SettlesReader /\ Leases(f)
  BY <1>3, <1>4 DEF Grows, SettlesReader, Leases
<1>7. Good(f, n, content', evidence', provider')
  <2>1. Good(f, n, content, evidence, provider)
    BY <1>1, <1>2, StillGood DEF Thens
  <2> QED
    BY <1>1, <1>2, <1>3, <2>1 DEF Good, Thens
<1>8. RowsGood'
  BY <1>2, <1>3, <1>6, <1>7, RowsKept
<1>9. SavedGood' /\ SharedGood'
  BY <1>3, <1>4, <1>5 DEF EvidenceInv, SavedGood, SharedGood, InputsAreSaved
<1> QED
  BY <1>8, <1>9 DEF EvidenceInv

\* The documents a worker has are those saved.
LEMMA Prepares ==
    ASSUME EvidenceInv, NEW f \in Readers, Prepare(f)
    PROVE  EvidenceInv'
<1> DEFINE l       == [NotReading EXCEPT !.docs = content]
           missing == Unsaved(content) \cap ArxivPapers
<1>1. l \in Row /\ l.then = "idle" /\ l.docs = content
  <2>1. content \in Saves
    BY DEF EvidenceInv, SavedGood
  <2> QED
    BY <2>1, Fresh, StartsRow
<1>2. missing \in SUBSET Papers /\ missing \subseteq selected
  BY DEF Unsaved, EvidenceInv, SavedGood
<1>3. /\ Becomes(f, IF missing = {} THEN [l EXCEPT !.at = "papers"] ELSE LookUp(l, "arxiv", missing, "papers"))
      /\ UNCHANGED <<sourceVars, sharedVars>>
  BY DEF Prepare
<1> HIDE DEF l, missing
<1>4. ASSUME NEW n \in Row, Becomes(f, n), n.at \in {"papers", "look"}, n.then # "fence", n.docs = content
      PROVE  EvidenceInv'
  <2>1. Good(f, n, content, evidence, provider)
    BY <1>4 DEF Good
  <2> QED
    BY <1>3, <1>4, <2>1, RowOnly
<1>5. CASE missing = {}
  <2> DEFINE n == [l EXCEPT !.at = "papers"]
  <2>1. "papers" \in ReaderPlaces
    BY DEF ReaderPlaces
  <2>2. n \in Row /\ n.at = "papers" /\ n.then = l.then /\ n.docs = l.docs
    BY <1>1, <2>1, MovesTo
  <2>3. Becomes(f, n)
    BY <1>3, <1>5
  <2> HIDE DEF n
  <2> QED
    BY <1>1, <1>4, <2>2, <2>3
<1>6. CASE missing # {}
  <2> DEFINE n == LookUp(l, "arxiv", missing, "papers")
  <2>1. "arxiv" \in Providers /\ "papers" \in Thens
    BY DEF Providers, Thens
  <2>2. n \in Row /\ n.at = "look" /\ n.then = "papers" /\ n.docs = l.docs
    BY <1>1, <1>2, <2>1, LooksUpRow
  <2>3. Becomes(f, n)
    BY <1>3, <1>6
  <2> HIDE DEF n
  <2> QED
    BY <1>1, <1>4, <2>2, <2>3
<1> QED
  BY <1>5, <1>6

\* Only selected papers are asked for and saved.
LEMMA TakesNextPaper ==
    ASSUME EvidenceInv, NEW f \in Readers, NextPaper(f)
    PROVE  EvidenceInv'
<1> DEFINE l == reader[f]
<1>1. l \in Row /\ Good(f, l, content, evidence, provider)
  BY DEF EvidenceInv, RowsGood
<1>2. PICK p \in Unsaved(l.docs) :
         Becomes(f, IF p \in PmcPapers THEN LookUp(l, "pmc", {p}, "fence") ELSE [l EXCEPT !.at = "fence", !.want = {p}])
  BY DEF NextPaper
<1>3. {p} \in SUBSET Papers /\ {p} \subseteq selected
  BY DEF Unsaved, EvidenceInv, SavedGood
<1>4. ASSUME NEW n \in Row, Becomes(f, n), n.at \in {"fence", "look"}, n.want = {p}, n.docs = l.docs
      PROVE  EvidenceInv'
  <2>1. Good(f, n, content, evidence, provider)
    BY <1>1, <1>3, <1>4 DEF Good
  <2>2. UNCHANGED <<sourceVars, sharedVars>>
    BY DEF NextPaper
  <2> QED
    BY <1>4, <2>1, <2>2, RowOnly
<1>5. CASE p \in PmcPapers
  <2> DEFINE n == LookUp(l, "pmc", {p}, "fence")
  <2>1. "pmc" \in Providers /\ "fence" \in Thens
    BY DEF Providers, Thens
  <2>2. n \in Row /\ n.at = "look" /\ n.want = {p} /\ n.docs = l.docs
    BY <1>1, <1>3, <2>1, LooksUpRow
  <2>3. Becomes(f, n)
    BY <1>2, <1>5
  <2> HIDE DEF n
  <2> QED
    BY <1>4, <2>2, <2>3
<1>6. CASE p \notin PmcPapers
  <2> DEFINE n == [l EXCEPT !.at = "fence", !.want = {p}]
  <2>2. n \in Row /\ n.at = "fence" /\ n.want = {p} /\ n.docs = l.docs
    BY <1>1, <1>3, WantsRow
  <2>3. Becomes(f, n)
    BY <1>2, <1>6
  <2> HIDE DEF n
  <2> QED
    BY <1>4, <2>2, <2>3
<1> QED
  BY <1>5, <1>6

LEMMA Fences ==
    ASSUME EvidenceInv, NEW f \in Readers, Fence(f)
    PROVE  EvidenceInv'
<1> DEFINE l == reader[f]
           n == [l EXCEPT !.at = "save"]
<1>1. l \in Row /\ l.at = "fence" /\ "save" \in ReaderPlaces
  BY DEF EvidenceInv, RowsGood, Fence, ReaderAt, ReaderPlaces
<1>2. n \in Row /\ n.at = "save" /\ n.want = l.want /\ n.then = l.then /\ n.docs = l.docs
  BY <1>1, MovesTo
<1>3. Becomes(f, n) /\ UNCHANGED <<sourceVars, sharedVars>>
  BY DEF Fence
<1> HIDE DEF n
<1>4. Good(f, n, content, evidence, provider)
  BY <1>1, <1>2, StillGood
<1> QED
  BY <1>2, <1>3, <1>4, RowOnly

\* The document that counts is the first that was saved; no generation was given
\* documents while this one was missing.
LEMMA SavesDocument ==
    ASSUME EvidenceInv, NEW f \in Readers, SaveDocument(f)
    PROVE  EvidenceInv'
<1> DEFINE l == reader[f]
<1>1. /\ l \in Row /\ l.at = "save" /\ Good(f, l, content, evidence, provider)
      /\ l.found \in Lookups /\ l.docs \in Saves /\ l.want \subseteq Papers
  BY Fields DEF EvidenceInv, RowsGood, SaveDocument, ReaderAt
<1>2. PICK p \in l.want :
         /\ content' = IF content[p] = Missing THEN [content EXCEPT ![p] = l.found[p]] ELSE content
         /\ Becomes(f, [l EXCEPT !.at = "papers", !.want = {}, !.found[p] = Refused,
                                 !.docs[p] = SavedDocument(p, l.found[p])])
  BY DEF SaveDocument
<1> DEFINE value == SavedDocument(p, l.found[p])
           n     == Recorded(l, p, value)
<1>3. /\ p \in selected /\ p \in Papers /\ content \in Saves /\ l.found[p] \in Documents
      /\ UNCHANGED <<selected, evidence, assessed, used, cache, provider, requests, pmcWindow, sent>>
  BY <1>1 DEF EvidenceInv, SavedGood, Good, Lookups, SaveDocument, sharedVars
<1>4. Missing \notin Documents
  BY SourcesAssumption DEF Documents, Refused, Missing
<1>5. value \in Documents /\ value = content'[p]
  BY <1>2, <1>3, <1>4 DEF SavedDocument, Saves
<1>6. /\ content' \in Saves /\ Grows
      /\ \A q \in Papers : content'[q] # Missing => content[q] # Missing \/ q = p
  BY <1>2, <1>3 DEF Saves, Grows
<1>7. Becomes(f, n)
  BY <1>2 DEF Recorded
<1> HIDE DEF value
<1>8. /\ n \in Row /\ n.at = "papers" /\ n.want = {} /\ n.docs = [l.docs EXCEPT ![p] = value]
  BY <1>1, <1>3, <1>5, SavesRow
<1> HIDE DEF n
<1>9. Good(f, n, content', evidence', provider')
  <2>1. \A q \in Papers : n.docs[q] # Missing => n.docs[q] = content'[q]
    BY <1>1, <1>3, <1>5, <1>6, <1>8 DEF Good, Saves, Grows
  <2> QED
    BY <1>8, <2>1 DEF Good
<1>10. RowsGood'
  BY <1>3, <1>6, <1>7, <1>8, <1>9, RowsKept DEF SettlesReader, Leases
<1>11. SavedGood'
  <2>1. used # {} => content' = content
    BY <1>2, <1>3 DEF EvidenceInv, SavedGood
  <2> QED
    BY <1>3, <1>6, <2>1 DEF EvidenceInv, SavedGood, InputsAreSaved
<1>12. SharedGood'
  BY <1>3 DEF EvidenceInv, SharedGood
<1> QED
  BY <1>10, <1>11, <1>12 DEF EvidenceInv

\* A generation is given every saved document, and none is saved after it.
LEMMA Generates ==
    ASSUME EvidenceInv, NEW f \in Readers, Generate(f)
    PROVE  EvidenceInv'
<1> DEFINE l == reader[f]
           n == [l EXCEPT !.at = "complete"]
<1>1. /\ l \in Row /\ Good(f, l, content, evidence, provider) /\ l.docs \in Saves /\ "complete" \in ReaderPlaces
  BY Fields DEF EvidenceInv, RowsGood, ReaderPlaces
<1>2. n \in Row /\ n.at = "complete" /\ n.want = l.want /\ n.then = l.then /\ n.docs = l.docs
  BY <1>1, MovesTo
<1>3. /\ Becomes(f, n) /\ used' = used \cup {l.docs} /\ Unsaved(l.docs) = {}
      /\ UNCHANGED <<selected, content, evidence, assessed, cache, provider, requests, pmcWindow, sent>>
  BY DEF Generate, sharedVars
<1> HIDE DEF n
<1>4. Good(f, n, content', evidence', provider')
  <2>1. Good(f, n, content, evidence, provider)
    BY <1>1, <1>2, StillGood
  <2> QED
    BY <1>3, <2>1 DEF Good
<1>5. RowsGood'
  BY <1>2, <1>3, <1>4, RowsKept DEF Grows, SettlesReader, Leases
<1>6. \A p \in selected : l.docs[p] # Missing
  BY <1>3 DEF Unsaved
<1>7. \A p \in Papers : l.docs[p] = content[p]
  BY <1>1, <1>6 DEF Good, EvidenceInv, SavedGood
<1>8. l.docs = content
  BY <1>1, <1>7 DEF Saves, EvidenceInv, SavedGood
<1>9. SavedGood' /\ SharedGood'
  BY <1>3, <1>6, <1>8 DEF EvidenceInv, SavedGood, SharedGood, InputsAreSaved
<1> QED
  BY <1>5, <1>9 DEF EvidenceInv

LEMMA Verifies ==
    ASSUME EvidenceInv, NEW f \in Readers, Verify(f)
    PROVE  EvidenceInv'
<1>1. /\ Becomes(f, IF evidence # Lacking THEN [NotReading EXCEPT !.at = "assess", !.found = evidence]
                    ELSE LookUp(NotReading, "arxiv", selected \cap ArxivPapers, "evidence"))
      /\ UNCHANGED <<sourceVars, sharedVars>>
  BY DEF Verify
<1>2. ASSUME NEW n \in Row, Becomes(f, n), n.docs = NotReading.docs, n.then # "fence",
             n.at = "look" \/ (n.at = "assess" /\ n.found = evidence /\ evidence \in Lookups)
      PROVE  EvidenceInv'
  <2>1. Good(f, n, content, evidence, provider)
    BY <1>2, Fresh DEF Good
  <2> QED
    BY <1>1, <1>2, <2>1, RowOnly
<1>3. CASE evidence # Lacking
  <2> DEFINE n == Assessing(NotReading, evidence)
  <2>1. evidence \in Lookups
    BY <1>3 DEF EvidenceInv, SavedGood
  <2>2. /\ n \in Row /\ n.at = "assess" /\ n.then = NotReading.then
        /\ n.found = evidence /\ n.docs = NotReading.docs
    BY <2>1, Fresh, AssessesRow
  <2>3. Becomes(f, n)
    BY <1>1, <1>3 DEF Assessing
  <2> HIDE DEF n
  <2> QED
    BY <1>2, <2>1, <2>2, <2>3, Fresh
<1>4. CASE evidence = Lacking
  <2> DEFINE want == selected \cap ArxivPapers
             n    == LookUp(NotReading, "arxiv", want, "evidence")
  <2>1. "arxiv" \in Providers /\ "evidence" \in Thens /\ want \in SUBSET Papers
    BY DEF Providers, Thens, EvidenceInv, SavedGood
  <2>2. Becomes(f, n)
    BY <1>1, <1>4
  <2> HIDE DEF want
  <2>3. n \in Row /\ n.at = "look" /\ n.then = "evidence" /\ n.docs = NotReading.docs
    BY <2>1, Fresh, LooksUpRow
  <2> HIDE DEF n
  <2> QED
    BY <1>2, <2>2, <2>3
<1> QED
  BY <1>3, <1>4

\* The findings that count are the first that were saved.
LEMMA SavesEvidence ==
    ASSUME EvidenceInv, NEW f \in Readers, SaveEvidence(f)
    PROVE  EvidenceInv'
<1> DEFINE l     == reader[f]
           found == SavedFindings(l.found)
           n     == Assessing(l, found)
<1>1. l \in Row /\ l.found \in Lookups /\ Good(f, l, content, evidence, provider) /\ l.at = "evidence"
  BY Fields DEF EvidenceInv, RowsGood, SaveEvidence, ReaderAt
<1>2. /\ found \in Lookups /\ evidence' = found /\ (evidence # Lacking => evidence' = evidence)
      /\ Becomes(f, n)
      /\ UNCHANGED <<selected, content, assessed, used, cache, provider, requests, pmcWindow, sent>>
  BY <1>1 DEF SaveEvidence, SavedFindings, EvidenceInv, SavedGood, sharedVars, Assessing
<1> HIDE DEF found
<1>3. /\ n \in Row /\ n.at = "assess" /\ n.want = l.want /\ n.then = l.then
      /\ n.found = found /\ n.docs = l.docs
  BY <1>1, <1>2, AssessesRow
<1> HIDE DEF n
<1>4. Good(f, n, content', evidence', provider')
  BY <1>1, <1>2, <1>3 DEF Good
<1>5. RowsGood'
  BY <1>2, <1>3, <1>4, RowsKept DEF Grows, SettlesReader, Leases
<1>6. SavedGood'
  <2>1. assessed # Lacking => evidence # Lacking
    BY DEF EvidenceInv, SavedGood, InputsAreSaved
  <2> QED
    BY <1>2, <2>1 DEF EvidenceInv, SavedGood, InputsAreSaved
<1>7. SharedGood'
  BY <1>2 DEF EvidenceInv, SharedGood
<1> QED
  BY <1>5, <1>6, <1>7 DEF EvidenceInv

LEMMA Assesses ==
    ASSUME EvidenceInv, NEW f \in Readers, Assess(f)
    PROVE  EvidenceInv'
<1>1. /\ reader[f].found = evidence /\ evidence \in Lookups
      /\ Becomes(f, NotReading) /\ assessed' = reader[f].found
      /\ UNCHANGED <<selected, content, evidence, used, cache, provider, requests, pmcWindow, sent>>
  BY DEF EvidenceInv, RowsGood, Good, Assess, ReaderAt, sharedVars
<1>2. RowsGood'
  BY <1>1, Fresh, FreshGood, RowsKept DEF Grows, SettlesReader, Leases
<1>3. SavedGood' /\ SharedGood'
  BY <1>1 DEF EvidenceInv, SavedGood, SharedGood, InputsAreSaved
<1> QED
  BY <1>2, <1>3 DEF EvidenceInv

LEMMA Stops ==
    ASSUME EvidenceInv, NEW f \in Readers, Stop(f)
    PROVE  EvidenceInv'
BY Fresh, FreshGood, RowOnly DEF Stop

\* Leases lapse only where nobody fetches; everything else around the workers
\* leaves what they have read alone.
LEMMA Surroundings ==
    ASSUME EvidenceInv,
           \/ \E f \in Readers : TakeOver(f)
           \/ \E s \in Providers : ProviderOpens(s)
           \/ WindowEnds
           \/ \E p \in Papers : CacheExpires(p) \/ SourceChanges(p)
           \/ UNCHANGED evidenceVars
    PROVE  EvidenceInv'
<1>1. UNCHANGED <<reader, selected, content, evidence, assessed, used>>
  BY DEF TakeOver, ProviderOpens, WindowEnds, CacheExpires, SourceChanges, evidenceVars, sourceVars
<1>2. /\ provider' \in [Providers -> [open : {"open", "leased", "cooling", "exhausted"}, token : Readers \cup {NoReader}]]
      /\ \A g \in Readers : reader[g].at = "fetch" => provider'[reader[g].of] = provider[reader[g].of]
  <2>1. /\ \A g \in Readers : reader[g].of \in Providers
        /\ \A g \in Readers : reader[g].at = "fetch" => /\ provider[reader[g].of].open = "leased"
                                                        /\ provider[reader[g].of].token = g
    BY Fields DEF EvidenceInv, RowsGood, Good
  <2>2. ASSUME NEW s \in Providers, ProviderOpens(s)
        PROVE  /\ provider' \in [Providers -> [open : {"open", "leased", "cooling", "exhausted"}, token : Readers \cup {NoReader}]]
               /\ \A g \in Readers : reader[g].at = "fetch" => provider'[reader[g].of] = provider[reader[g].of]
    <3>1. provider' = [provider EXCEPT ![s] = [open |-> "open", token |-> provider[s].token]]
      BY <2>2 DEF ProviderOpens
    <3>2. \A g \in Readers : reader[g].at = "fetch" => reader[g].of # s
      BY <2>1, <2>2 DEF ProviderOpens, ReaderAt
    <3>3. [open |-> "open", token |-> provider[s].token]
             \in [open : {"open", "leased", "cooling", "exhausted"}, token : Readers \cup {NoReader}]
      BY DEF EvidenceInv, SharedGood
    <3> QED
      BY <2>1, <3>1, <3>2, <3>3 DEF EvidenceInv, SharedGood
  <2>3. ASSUME WindowEnds
        PROVE  /\ provider' \in [Providers -> [open : {"open", "leased", "cooling", "exhausted"}, token : Readers \cup {NoReader}]]
               /\ \A g \in Readers : reader[g].at = "fetch" => provider'[reader[g].of] = provider[reader[g].of]
    <3> DEFINE row == [provider["pmc"] EXCEPT !.open = "open"]
    <3>1. provider["pmc"] \in [open : {"open", "leased", "cooling", "exhausted"}, token : Readers \cup {NoReader}]
      BY DEF EvidenceInv, SharedGood, Providers
    <3>2. row \in [open : {"open", "leased", "cooling", "exhausted"}, token : Readers \cup {NoReader}]
      BY <3>1
    <3>3. provider' = IF provider["pmc"].open = "exhausted" THEN [provider EXCEPT !["pmc"] = row] ELSE provider
      BY <2>3 DEF WindowEnds, EvidenceInv, SharedGood, Providers
    <3> HIDE DEF row
    <3> QED
      BY <2>1, <3>2, <3>3 DEF EvidenceInv, SharedGood
  <2>4. CASE UNCHANGED provider
    BY <2>4 DEF EvidenceInv, SharedGood
  <2> QED
    BY <2>2, <2>3, <2>4 DEF TakeOver, CacheExpires, SourceChanges, evidenceVars, sharedVars
<1>3. cache' \in Saves
  BY DEF EvidenceInv, SharedGood, Saves, TakeOver, ProviderOpens, WindowEnds, CacheExpires, SourceChanges,
         evidenceVars, sharedVars
<1>4. /\ requests' = requests /\ sent' = sent
      /\ pmcWindow' \in {"running", "over"} /\ (pmcWindow' = "running" => pmcWindow = "running")
  BY DEF EvidenceInv, SharedGood, TakeOver, ProviderOpens, WindowEnds, CacheExpires, SourceChanges,
         evidenceVars, sharedVars
<1>5. RowsGood'
  <2>1. \A g \in Readers : Good(g, reader[g], content', evidence', provider')
    BY <1>1, <1>2, OtherGood DEF Grows, SettlesReader
  <2> QED
    BY <1>1, <2>1 DEF EvidenceInv, RowsGood, Good
<1>6. SavedGood' /\ SharedGood'
  BY <1>1, <1>2, <1>3, <1>4 DEF EvidenceInv, SavedGood, SharedGood, InputsAreSaved
<1> QED
  BY <1>5, <1>6 DEF EvidenceInv

-----------------------------------------------------------------------------
(* The inductive invariant.                                                    *)

LEMMA EvidenceStarts == EvidenceInit => EvidenceInv
<1> SUFFICES ASSUME EvidenceInit PROVE EvidenceInv
  OBVIOUS
<1>1. reader = [f \in Readers |-> NotReading]
  BY DEF EvidenceInit
<1>2. RowsGood
  BY <1>1, Fresh, FreshGood DEF RowsGood
<1>3. selected \subseteq Papers /\ selected # {}
  BY FS_EmptySet DEF EvidenceInit
<1>4. /\ content = [p \in Papers |-> Missing] /\ cache = [p \in Papers |-> Missing]
      /\ evidence = Lacking /\ assessed = Lacking /\ used = {}
      /\ requests = 0 /\ sent = 0 /\ pmcWindow = "over"
      /\ provider = [s \in Providers |-> [open |-> "open", token |-> NoReader]]
  BY DEF EvidenceInit
<1>5. SavedGood
  BY <1>3, <1>4 DEF SavedGood, Saves, InputsAreSaved
<1>6. SharedGood
  BY <1>4, SourcesAssumption DEF SharedGood, Saves
<1> QED
  BY <1>2, <1>5, <1>6 DEF EvidenceInv

LEMMA EvidenceSteps == EvidenceInv /\ [EvidenceNext]_evidenceVars => EvidenceInv'
<1> SUFFICES ASSUME EvidenceInv, [EvidenceNext]_evidenceVars PROVE EvidenceInv'
  OBVIOUS
<1>1. ASSUME NEW f \in Readers,
             WithoutFetch(f) \/ Claim(f) \/ Exhaust(f) \/ FetchSource(f) \/ Record(f)
      PROVE  EvidenceInv'
  BY <1>1, WithoutFetches, Claims, Exhausts, FetchesSource, Records
<1>2. ASSUME NEW f \in Readers,
             Prepare(f) \/ NextPaper(f) \/ Fence(f) \/ SaveDocument(f) \/ Generate(f)
      PROVE  EvidenceInv'
  BY <1>2, Prepares, TakesNextPaper, Fences, SavesDocument, Generates
<1>3. ASSUME NEW f \in Readers, Verify(f) \/ SaveEvidence(f) \/ Assess(f) \/ Stop(f)
      PROVE  EvidenceInv'
  BY <1>3, Verifies, SavesEvidence, Assesses, Stops
<1> QED
  BY <1>1, <1>2, <1>3, Surroundings DEF EvidenceNext

LEMMA EvidenceKept == EvidenceSpec => []EvidenceInv
BY EvidenceStarts, EvidenceSteps, PTL DEF EvidenceSpec

\* Two workers that ask one provider would both hold its lease.
LEMMA OneAsks == RowsGood /\ SharedGood => ProvidersAreSpared
<1> SUFFICES ASSUME RowsGood, SharedGood PROVE ProvidersAreSpared
  OBVIOUS
<1>1. ASSUME NEW s \in Providers
      PROVE  Cardinality({f \in Readers : ReaderAt(f, "fetch") /\ reader[f].of = s}) <= 1
  <2> DEFINE asks == {f \in Readers : ReaderAt(f, "fetch") /\ reader[f].of = s}
  <2>1. asks \subseteq {provider[s].token}
    BY DEF RowsGood, Good, ReaderAt
  <2>2. IsFiniteSet({provider[s].token}) /\ Cardinality({provider[s].token}) = 1
    BY FS_Singleton
  <2>3. Cardinality(asks) <= Cardinality({provider[s].token})
    BY <2>1, <2>2, FS_Subset
  <2> QED
    BY <2>2, <2>3
<1> QED
  BY <1>1 DEF SharedGood, ProvidersAreSpared

-----------------------------------------------------------------------------
(* The results.                                                                *)

\* Every generation of a run is given the documents saved for it, and the run is
\* completed with the evidence saved for it, whoever saved them.
THEOREM SavedInputs == EvidenceSpec => []InputsAreSaved
<1>1. EvidenceInv => InputsAreSaved
  BY DEF EvidenceInv, SavedGood
<1> QED
  BY EvidenceKept, <1>1, PTL

\* PMC's budget is kept in every window, and one worker at a time asks a provider.
THEOREM Spared == EvidenceSpec => []ProvidersAreSpared
<1>1. EvidenceInv => ProvidersAreSpared
  BY OneAsks DEF EvidenceInv
<1> QED
  BY EvidenceKept, <1>1, PTL
=============================================================================
