--------------------------- MODULE EmailVerification ---------------------------
(***************************************************************************)
(* Registration and the change of an address                               *)
(* (services/email_verification_service.py): a challenge reserves an       *)
(* address, a code is mailed to it, and the account gets the address when  *)
(* the newest code comes back.                                             *)
(*                                                                         *)
(* A request is one transaction of a guest, known by a password, or of a   *)
(* user, whose row it locks first.  An UPDATE or INSERT of a challenge     *)
(* holds its row, and the unique address, until the transaction ends.      *)
(***************************************************************************)
EXTENDS Integers

CONSTANTS
    Clients,       \* concurrent requests
    Guests,        \* the passwords of those who register
    Owners,        \* users with an account
    Addresses,
    MaxAttempts,   \* 50 in the code
    MaxChallenges, \* bound: challenges
    MaxCodes,      \* bound: codes
    MaxLegal       \* bound: versions of the legal documents

ASSUME VerificationAssumption ==
    /\ Guests \cap Owners = {} /\ Addresses # {}
    /\ MaxAttempts \in Nat /\ MaxChallenges \in Nat /\ MaxCodes \in Nat /\ MaxLegal \in Nat

VARIABLES
    holder,      \* the account that has an address
    pending,     \* EmailVerification by its unique address
    request,     \* the open transactions
    legal,       \* the current version of Terms and Privacy Notice
    leaving,     \* users whose closure was requested
    challenges,  \* challenges so far
    codes        \* codes mailed so far

verificationVars == <<holder, pending, request, legal, leaving, challenges, codes>>

People == Guests \cup Owners
Nobody == "nobody"
None   == [id |-> 0]
Challenge == [id : Nat \ {0}, who : People, legal : Nat, code : Nat, attempts : Nat, expired : BOOLEAN]
Places == {"idle", "insert", "inserted", "resending", "confirming", "agreed"}
\* row is what the transaction has written, drop the challenges it is to delete.
Request == [at : Places, who : People \cup {Nobody}, address : Addresses,
            row : Challenge \cup {None}, drop : SUBSET Nat]

VerificationTypeOK ==
    /\ holder \in [Addresses -> People \cup {Nobody}]
    /\ pending \in [Addresses -> Challenge \cup {None}]
    /\ request \in [Clients -> Request]
    /\ legal \in Nat /\ leaving \in SUBSET Owners
    /\ challenges \in Nat /\ codes \in Nat

Idle(a) == [at |-> "idle", who |-> Nobody, address |-> a, row |-> None, drop |-> {}]

VerificationInit ==
    /\ holder = [a \in Addresses |-> Nobody] /\ pending = [a \in Addresses |-> None]
    /\ request = [w \in Clients |-> Idle(CHOOSE a \in Addresses : TRUE)]
    /\ legal = 1 /\ leaving = {} /\ challenges = 0 /\ codes = 0

-----------------------------------------------------------------------------

Place(w, place) == request[w].at = place
\* A transaction of the user is open.
UserLocked(u) == \E w \in Clients : request[w].who = u
\* The transaction has written the address's row, or deleted it.
HoldsRow(o, a) ==
    /\ request[o].at \notin {"idle", "insert"}
    /\ request[o].address = a \/ pending[a].id \in request[o].drop
Free(w, a) == ~\E o \in Clients \ {w} : HoldsRow(o, a)
MayAsk(who) == who \in Owners => ~UserLocked(who) /\ who \notin leaving
End(w) == request' = [request EXCEPT ![w] = Idle(request[w].address)]

\* Expired rows go before each start, and every minute.
CleanExpired ==
    /\ ~\E o \in Clients, a \in Addresses : pending[a] # None /\ pending[a].expired /\ HoldsRow(o, a)
    /\ pending' = [a \in Addresses |->
          IF pending[a] # None /\ pending[a].expired THEN None ELSE pending[a]]
    /\ UNCHANGED <<holder, request, legal, leaving, challenges, codes>>

\* 24 hours pass.
Expire(a) ==
    /\ pending[a] # None /\ ~pending[a].expired
    /\ pending' = [pending EXCEPT ![a].expired = TRUE]
    /\ UNCHANGED <<holder, request, legal, leaving, challenges, codes>>

\* start, what it reads: no account has the address, and what is pending there is
\* nothing, or the same registration under other legal documents. A user gives up
\* an earlier challenge.
Start(w, who, a) ==
    /\ Place(w, "idle") /\ MayAsk(who)
    /\ holder[a] = Nobody
    /\ pending[a] # None => pending[a].who = who /\ who \in Guests /\ pending[a].legal # legal
    /\ request' = [request EXCEPT ![w] =
          [at |-> "insert", who |-> who, address |-> a,
           row |-> [id |-> 1, who |-> who, legal |-> legal, code |-> 0, attempts |-> 0, expired |-> FALSE],
           drop |-> {pending[b].id : b \in {b \in Addresses :
                       pending[b] # None /\ (b = a \/ (who \in Owners /\ pending[b].who = who))}}]]
    /\ UNCHANGED <<holder, pending, legal, leaving, challenges, codes>>

Dropped(w, a) == pending[a].id \in request[w].drop

\* start, what it writes: the flush of the new challenge meets whatever was
\* committed at its address meanwhile, and then the code is mailed.
Insert(w) ==
    LET a == request[w].address IN
    /\ Place(w, "insert")
    /\ \A b \in Addresses : b = a \/ (pending[b] # None /\ Dropped(w, b)) => Free(w, b)
    /\ \/ /\ pending[a] # None /\ ~Dropped(w, a)
          /\ End(w)
          /\ UNCHANGED <<challenges, codes>>
       \/ /\ pending[a] = None \/ Dropped(w, a)
          /\ challenges < MaxChallenges /\ codes < MaxCodes
          /\ challenges' = challenges + 1 /\ codes' = codes + 1
          /\ request' = [request EXCEPT ![w].at = "inserted", ![w].row.id = challenges + 1,
                                        ![w].row.code = codes + 1]
    /\ UNCHANGED <<holder, pending, legal, leaving>>

\* The mail is sent before the commit: either may fail, or the process die.
CommitInsert(w) ==
    /\ Place(w, "inserted")
    /\ pending' = [a \in Addresses |->
          IF a = request[w].address THEN request[w].row
          ELSE IF Dropped(w, a) THEN None ELSE pending[a]]
    /\ End(w)
    /\ UNCHANGED <<holder, legal, leaving, challenges, codes>>

GiveUp(w) ==
    /\ ~Place(w, "idle")
    /\ End(w)
    /\ UNCHANGED <<holder, pending, legal, leaving, challenges, codes>>

\* _lock: the challenge is live and of the user, or of the guest who knows its id.
Live(w, who, a) ==
    /\ Place(w, "idle") /\ MayAsk(who)
    /\ pending[a] # None /\ ~pending[a].expired /\ pending[a].attempts < MaxAttempts
    /\ pending[a].who = who

\* resend: a new code, of the same challenge.
Resend(w, who, a) ==
    /\ Live(w, who, a) /\ Free(w, a)
    /\ codes < MaxCodes
    /\ codes' = codes + 1
    /\ request' = [request EXCEPT ![w] = [at |-> "resending", who |-> who, address |-> a,
                                         row |-> [pending[a] EXCEPT !.code = codes + 1], drop |-> {}]]
    /\ UNCHANGED <<holder, pending, legal, leaving, challenges>>

CommitResend(w) ==
    /\ Place(w, "resending")
    /\ pending' = [pending EXCEPT ![request[w].address].code = request[w].row.code]
    /\ End(w)
    /\ UNCHANGED <<holder, legal, leaving, challenges, codes>>

\* confirm with a code that is not the newest: the attempt counts.
WrongCode(w, who, a, code) ==
    /\ Live(w, who, a) /\ Free(w, a)
    /\ code # pending[a].code
    /\ pending' = [pending EXCEPT ![a].attempts = @ + 1]
    /\ UNCHANGED <<holder, request, legal, leaving, challenges, codes>>

Checking(w, who, a) ==
    request' = [request EXCEPT ![w] = [at |-> IF who \in Guests THEN "confirming" ELSE "agreed",
                                       who |-> who, address |-> a, row |-> pending[a], drop |-> {}]]

\* Mutant: the challenge is read without its row's lock.
ReadCode(w, who, a, code) ==
    /\ Live(w, who, a)
    /\ code = pending[a].code
    /\ Checking(w, who, a)
    /\ UNCHANGED <<holder, pending, legal, leaving, challenges, codes>>

\* confirm with the newest code.
RightCode(w, who, a, code) ==
    /\ Live(w, who, a) /\ Free(w, a)
    /\ code = pending[a].code
    /\ Checking(w, who, a)
    /\ UNCHANGED <<holder, pending, legal, leaving, challenges, codes>>

\* A guest who has agreed to other documents starts again.
CheckAgreement(w) ==
    /\ Place(w, "confirming")
    /\ \/ /\ request[w].row.legal # legal
          /\ pending' = [pending EXCEPT ![request[w].address] = None]
          /\ End(w)
       \/ /\ request[w].row.legal = legal
          /\ request' = [request EXCEPT ![w].at = "agreed"]
          /\ UNCHANGED pending
    /\ UNCHANGED <<holder, legal, leaving, challenges, codes>>

\* The account gets the address, unless another has it: then all is rolled back.
TakeAddress(w) ==
    LET a == request[w].address
        who == request[w].who IN
    /\ Place(w, "agreed")
    /\ \/ holder[a] # Nobody /\ UNCHANGED <<holder, pending>>
       \/ /\ holder[a] = Nobody
          /\ holder' = [b \in Addresses |->
                IF b = a THEN who ELSE IF who \in Owners /\ holder[b] = who THEN Nobody ELSE holder[b]]
          /\ pending' = [pending EXCEPT ![a] = None]
    /\ End(w)
    /\ UNCHANGED <<legal, leaving, challenges, codes>>

\* A change or reset of the password cancels the change of address under way.
ChangePassword(u) ==
    /\ ~UserLocked(u)
    /\ pending' = [a \in Addresses |-> IF pending[a] # None /\ pending[a].who = u THEN None ELSE pending[a]]
    /\ UNCHANGED <<holder, request, legal, leaving, challenges, codes>>

\* request_closure.
CloseOwner(u) ==
    /\ ~UserLocked(u) /\ u \notin leaving
    /\ leaving' = leaving \cup {u}
    /\ UNCHANGED <<holder, pending, request, legal, challenges, codes>>

PublishLegal ==
    /\ legal < MaxLegal
    /\ legal' = legal + 1
    /\ UNCHANGED <<holder, pending, request, leaving, challenges, codes>>

Transaction(w) == Insert(w) \/ CommitInsert(w) \/ CommitResend(w) \/ CheckAgreement(w) \/ TakeAddress(w)

VerificationNext ==
    \/ \E w \in Clients, who \in People, a \in Addresses :
          Start(w, who, a) \/ Resend(w, who, a)
    \/ \E w \in Clients, who \in People, a \in Addresses, code \in 1 .. codes :
          WrongCode(w, who, a, code) \/ RightCode(w, who, a, code)
    \/ \E w \in Clients : Transaction(w) \/ GiveUp(w)
    \/ \E a \in Addresses : Expire(a)
    \/ CleanExpired
    \/ \E u \in Owners : ChangePassword(u) \/ CloseOwner(u)
    \/ PublishLegal

VerificationSpec == VerificationInit /\ [][VerificationNext]_verificationVars

-----------------------------------------------------------------------------

\* An account gets an address only by a challenge that is still there, and whose
\* code was the newest when the transaction ends that gives it: no resend, change
\* of the password, expiry and new start comes in between.
ProvenByNewest ==
    [][\A a \in Addresses : holder'[a] \notin {holder[a], Nobody} =>
          /\ pending[a] # None /\ pending[a].who = holder'[a]
          /\ \E w \in Clients : /\ request[w].at = "agreed" /\ request[w].address = a
                                /\ request[w].row.id = pending[a].id
                                /\ request[w].row.code = pending[a].code]_verificationVars

================================================================================
