---------------------------- MODULE BillingNotices ----------------------------
(* The notices of one paid subscription (services/                              *)
(* billing_notification_service.py): an observation of Stripe enqueues them in  *)
(* its own transaction, and the ticks of several processes send them. SMTP may  *)
(* accept a mail and fail, and a sender may outlive its claim of five minutes.  *)
EXTENDS Integers, FiniteSets, Sequences

CONSTANTS
    Senders,       \* processes that tick
    MaxSends,      \* attempts before a notice is given up (8)
    MaxTurns,      \* bound: times the owner cancels or resumes renewal
    MaxClaims,     \* bound: times a notice is claimed
    MaxNotices     \* bound: notices of the subscription

ASSUME NoticesAssumption == MaxSends \in Nat \ {0} /\ MaxTurns \in Nat /\ MaxClaims \in Nat

VARIABLES
    stripe,      \* the subscription: renewal cancelled, ended, payment failed
    noted,       \* checkout.notification_state: the renewal it speaks of, and a sequence
    notices,     \* billing_notifications, by key
    turns,       \* every change of the renewal that was observed, in order
    closingUser, \* closure of the account was requested
    sender       \* what each tick is sending, and the attempt that is its claim

noticeVars == <<stripe, noted, notices, turns, closingUser, sender>>

\* The keys of a checkout's notices: its end, its unpaid invoice, and the sequence
\* numbers of the changes of its renewal.
EndNotice     == -1
PaymentNotice == 0
NoticeKeys    == {EndNotice, PaymentNotice} \cup (1 .. MaxTurns)
NoNotice      == [state |-> "absent", says |-> FALSE, attempts |-> 0, due |-> FALSE]
Queued(says)  == [state |-> "pending", says |-> says, attempts |-> 0, due |-> TRUE]
Resting       == [at |-> "idle", key |-> EndNotice, claim |-> 0]

NoticesInit ==
    /\ stripe = [cancel |-> FALSE, ended |-> FALSE, unpaid |-> FALSE]
    /\ noted = [cancel |-> FALSE, sequence |-> 0]
    /\ notices = [k \in NoticeKeys |-> NoNotice]
    /\ turns = <<>> /\ closingUser = FALSE
    /\ sender = [s \in Senders |-> Resting]

-----------------------------------------------------------------------------
(* Stripe and the owner.                                                       *)

SubscriptionTurns ==
    /\ ~stripe.ended
    /\ \/ stripe' = [stripe EXCEPT !.cancel = ~@]
       \/ stripe' = [stripe EXCEPT !.ended = TRUE]
       \/ stripe' = [stripe EXCEPT !.unpaid = ~@]
    /\ UNCHANGED <<noted, notices, turns, closingUser, sender>>

-----------------------------------------------------------------------------
(* capture, within the observation's transaction.                              *)

\* enqueue: a key that is taken is left as it is.
Enqueued(table, key, says) == IF table[key] = NoNotice THEN [table EXCEPT ![key] = Queued(says)] ELSE table

\* Mutant: only a cancellation takes a new number, its withdrawal has that of the
\* cancellation.
NextOfCancel(cancel) == IF cancel THEN noted.sequence + 1 ELSE noted.sequence

\* Every change of the renewal takes the next number.
NextSequence(cancel) == noted.sequence + 1

Capture ==
    LET turned  == ~stripe.ended /\ stripe.cancel # noted.cancel
        number  == IF turned THEN NextSequence(stripe.cancel) ELSE noted.sequence
        ends    == IF stripe.ended THEN Enqueued(notices, EndNotice, TRUE)
                   ELSE IF turned THEN Enqueued(notices, number, stripe.cancel) ELSE notices IN
    /\ turned => number \in NoticeKeys /\ Len(turns) < MaxTurns
    /\ notices' = IF stripe.unpaid THEN Enqueued(ends, PaymentNotice, TRUE) ELSE ends
    /\ Cardinality({k \in NoticeKeys : notices'[k] # NoNotice}) <= MaxNotices
    /\ noted' = [cancel |-> stripe.cancel, sequence |-> number]
    /\ turns' = IF turned THEN Append(turns, stripe.cancel) ELSE turns
    /\ UNCHANGED <<stripe, closingUser, sender>>

-----------------------------------------------------------------------------
(* tick: claim, send, and record under the claim.                              *)

\* The conditional UPDATE of the row that was selected; who finds it claimed by
\* another returns without effect.
ClaimNotice(s, k) ==
    /\ sender[s].at = "idle"
    /\ notices[k].state \in {"pending", "sending"} /\ notices[k].due
    /\ notices' = [notices EXCEPT ![k].state = "sending", ![k].attempts = @ + 1, ![k].due = FALSE]
    /\ sender' = [sender EXCEPT ![s] = [at |-> "claimed", key |-> k, claim |-> notices[k].attempts + 1]]
    /\ UNCHANGED <<stripe, noted, turns, closingUser>>

\* The account is read after the claim: nothing is sent to one that closes.
Address(s) ==
    LET l == sender[s] IN
    /\ l.at = "claimed"
    /\ IF closingUser
         THEN /\ notices' = [notices EXCEPT ![l.key].state = "cancelled"]
              /\ sender' = [sender EXCEPT ![s] = Resting]
         ELSE /\ sender' = [sender EXCEPT ![s].at = "send"]
              /\ UNCHANGED notices
    /\ UNCHANGED <<stripe, noted, turns, closingUser>>

\* A mail that SMTP accepted may still fail to be confirmed.
SendNotice(s) ==
    LET l == sender[s] IN
    /\ l.at = "send"
    /\ \E answer \in {"sent", "failed"} : sender' = [sender EXCEPT ![s].at = answer]
    /\ UNCHANGED <<stripe, noted, notices, turns, closingUser>>

\* The claim is the row's own: state and lease are those the sender wrote.
OwnClaim(l) == notices[l.key].state = "sending" /\ notices[l.key].attempts = l.claim

RecordSent(s) ==
    LET l == sender[s]
        outcome == IF l.at = "sent" THEN "sent" ELSE IF l.claim >= MaxSends THEN "failed" ELSE "pending" IN
    /\ l.at \in {"sent", "failed"}
    /\ notices' = IF OwnClaim(l) THEN [notices EXCEPT ![l.key].state = outcome, ![l.key].due = FALSE] ELSE notices
    /\ sender' = [sender EXCEPT ![s] = Resting]
    /\ UNCHANGED <<stripe, noted, turns, closingUser>>

-----------------------------------------------------------------------------
(* Time, crashes and closure.                                                  *)

NoticeDue(k) ==
    /\ notices[k].state \in {"pending", "sending"} /\ ~notices[k].due
    /\ notices[k].attempts < MaxClaims
    /\ notices' = [notices EXCEPT ![k].due = TRUE]
    /\ UNCHANGED <<stripe, noted, turns, closingUser, sender>>

SenderDies(s) ==
    /\ sender[s].at # "idle"
    /\ sender' = [sender EXCEPT ![s] = Resting]
    /\ UNCHANGED <<stripe, noted, notices, turns, closingUser>>

CloseUser ==
    /\ ~closingUser /\ closingUser' = TRUE
    /\ UNCHANGED <<stripe, noted, notices, turns, sender>>

NoticesNext ==
    \/ SubscriptionTurns \/ Capture \/ CloseUser
    \/ \E s \in Senders : Address(s) \/ SendNotice(s) \/ RecordSent(s) \/ SenderDies(s)
    \/ \E s \in Senders, k \in NoticeKeys : ClaimNotice(s, k)
    \/ \E k \in NoticeKeys : NoticeDue(k)

NoticesSpec == NoticesInit /\ [][NoticesNext]_noticeVars

-----------------------------------------------------------------------------
(* Properties.                                                                 *)

\* Every observed cancellation of the renewal and every observed withdrawal has a
\* notice of its own that says which it was.
EveryTurnIsTold ==
    \A n \in DOMAIN turns : notices[n] # NoNotice /\ notices[n].says = turns[n]

=============================================================================
