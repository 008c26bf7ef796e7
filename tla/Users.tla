------------------------------- MODULE Users --------------------------------
(* What users file and how they sign in: FeedbackReceipts and one account.   *)
(* They share the database and no row of it.                                 *)
EXTENDS FeedbackReceipts

CONSTANTS
    Browsers, Invites, Threshold, Slots, Ttl, Hour, Day, HourLimit, DayLimit,
    End, MaxChanges

VARIABLES
    user, invite, reset, browser, session, mailer, inbox, clock, changes, log

accountVars == <<user, invite, reset, browser, session, mailer, inbox, clock,
                 changes, log>>

Account == INSTANCE Accounts

-----------------------------------------------------------------------------
\* A link that is followed was sent for the password it replaces, and never followed
\* before; an invitation that is accepted was made after the last recovery: an old link
\* undoes no recovery.
OldLinksDie == Account!OldLinksDie

\* A session that signing in opened and that still holds was opened with the password
\* in force, however the password and the session were changed meanwhile.
SessionsKnowPassword == Account!SessionsKnowPassword
=============================================================================
