------------------------------ MODULE Accounts ------------------------------
(***************************************************************************)
(* One account: its password, invitations, links to reset the password,    *)
(* failed sign-ins, and the sessions that browsers hold (the repositories  *)
(* of db.py, ui/auth.py, ui/recovery.py, and the handlers that change a    *)
(* password or a status).  Every write is a transaction; a handler is      *)
(* several of them, with a slow password hash in between, so that requests *)
(* of two browsers interleave.                                             *)
(*                                                                         *)
(* A password is the number of the change that set it.  Reset links are    *)
(* named by the tick at which they were made.                              *)
(***************************************************************************)
EXTENDS Integers, FiniteSets, Sequences

CONSTANTS
    Browsers, Invites, None,
    Threshold,      \* failed sign-ins that lock the account (5)
    Slots,          \* queued or running mails (8)
    Ttl, Hour, Day, \* in ticks of the minute between two links: 30 min, 1 h, 24 h
    HourLimit,      \* links an hour, for an account (3)
    DayLimit,       \* links a day (40)
    End,            \* bound: ticks
    MaxChanges      \* bound: passwords set

\* What the constants are assumed to be.
AccountConstants ==
    /\ {Threshold, Slots, Ttl, Hour, Day, HourLimit, DayLimit, End, MaxChanges} \subseteq Nat
    /\ 0 < Ttl /\ Ttl < Hour /\ Hour < Day /\ Threshold > 0 /\ None \notin Nat

VARIABLES
    user,       \* the row of the account
    invite,     \* invitation -> "unmade", "open", "used", "expired"
    reset,      \* tick -> row of the link made then
    browser,    \* browser -> its request under way
    session,    \* browser -> its cookie, with (history) what opened it
    mailer,     \* queue, link being sent, free slots
    inbox,      \* links that reached the owner
    clock,
    changes,    \* history: passwords set
    log         \* history: what links were sent for, and which were followed

vars == <<user, invite, reset, browser, session, mailer, inbox, clock, changes, log>>

Ticks == 0 .. End
Passwords == 0 .. MaxChanges
Statuses == {"invited", "active", "disabled"}
Rows == [status : Statuses, password : Passwords, version : Passwords,
         failed : 0 .. Threshold, locked : BOOLEAN]

Anonymous == [version |-> None, knew |-> 0, via |-> "none"]
Idle == [phase |-> "idle", kind |-> "none", entered |-> 0, row |-> None, seen |-> 0]
NoLink == [made |-> FALSE, version |-> 0, revoked |-> FALSE]
Working == mailer.sending # None

\* Type correctness, and every slot of the mailer is with a mail or free.
TypeOK ==
    /\ user \in Rows /\ changes \in Passwords /\ clock \in Ticks
    /\ invite \in [Invites -> {"unmade", "open", "used", "expired"}]
    /\ reset \in [Ticks -> [made : BOOLEAN, version : Passwords, revoked : BOOLEAN]]
    /\ browser \in [Browsers ->
         [phase : {"idle", "read", "missed", "cleared", "changed", "tidied", "accepted"},
          kind : {"none", "login", "change"}, entered : Passwords,
          row : Rows \cup {None}, seen : 0 .. Threshold]]
    /\ session \in [Browsers -> [version : Passwords \cup {None}, knew : Passwords,
                                 via : {"none", "login", "invite"}]]
    /\ mailer \in [queue : Seq({"reset", "changed"}), sending : Ticks \cup {None},
                   slots : 0 .. Slots]
    /\ mailer.slots = Slots - Len(mailer.queue) - (IF Working THEN 1 ELSE 0)
    /\ inbox \subseteq Ticks
    /\ log \in [knew : [Ticks -> Passwords], followed : SUBSET Ticks, recoveries : Passwords,
                before : [Invites -> Passwords], accepted : SUBSET Invites]

Init ==
    /\ user = [status |-> "invited", password |-> 0, version |-> 0, failed |-> 0, locked |-> FALSE]
    /\ invite = [i \in Invites |-> "unmade"] /\ reset = [t \in Ticks |-> NoLink]
    /\ browser = [b \in Browsers |-> Idle] /\ session = [b \in Browsers |-> Anonymous]
    /\ mailer = [queue |-> <<>>, sending |-> None, slots |-> Slots]
    /\ inbox = {} /\ clock = 0 /\ changes = 0
    /\ log = [knew |-> [t \in Ticks |-> 0], followed |-> {}, recoveries |-> 0,
              before |-> [i \in Invites |-> 0], accepted |-> {}]

-----------------------------------------------------------------------------
(* the rows                                                                 *)

\* A session holds while its version is the account's and the account is active.
Live(b) == session[b].version = user.version /\ user.status = "active"

\* Every way to set a password moves the session version.
NewPassword(row) == [row EXCEPT !.password = changes + 1, !.version = @ + 1]
Changing == changes < MaxChanges /\ changes' = changes + 1

Unlocked(row) == [row EXCEPT !.failed = 0, !.locked = FALSE]
CloseInvites == [i \in Invites |-> IF invite[i] \in {"open", "expired"} THEN "used" ELSE invite[i]]
RevokeAll == [t \in Ticks |-> IF reset[t].made THEN [reset[t] EXCEPT !.revoked = TRUE] ELSE reset[t]]

-----------------------------------------------------------------------------
(* the administrator, at the page and the command line                      *)

SetStatus(s) ==
    /\ user' = [user EXCEPT !.status = s]
    /\ UNCHANGED <<invite, reset, browser, session, mailer, inbox, clock, changes, log>>

Reinvite(i) ==
    /\ user.status = "invited" /\ invite[i] = "unmade"
    /\ invite' = [invite EXCEPT ![i] = "open"]
    /\ log' = [log EXCEPT !.before[i] = log.recoveries]
    /\ UNCHANGED <<user, reset, browser, session, mailer, inbox, clock, changes>>

SetPassword ==
    /\ Changing /\ user' = NewPassword(user)
    /\ UNCHANGED <<invite, reset, browser, session, mailer, inbox, clock, log>>

-----------------------------------------------------------------------------
(* signing in, and changing the password with the present one               *)

Step(b, phase) == browser' = [browser EXCEPT ![b].phase = phase]
Ends(b) == browser' = [browser EXCEPT ![b] = Idle]

\* The row is read once (load_user's own reading of it is not told apart); a locked account gets no further.
Enter(b, kind, password) ==
    /\ browser[b].phase = "idle" /\ ~user.locked
    /\ browser' = [browser EXCEPT ![b] = [phase |-> "read", kind |-> kind, entered |-> password,
                                          row |-> user, seen |-> 0]]
    /\ UNCHANGED <<user, invite, reset, session, mailer, inbox, clock, changes, log>>
Login(b, password) == ~Live(b) /\ Enter(b, "login", password)
ChangePassword(b, password) == Live(b) /\ Enter(b, "change", password)

Correct(b) == browser[b].row.password # 0 /\ browser[b].entered = browser[b].row.password

\* register_failed_login reads the count, then writes it.
WrongPassword(b) ==
    /\ browser[b].phase = "read" /\ ~Correct(b)
    /\ browser' = [browser EXCEPT ![b].phase = "missed", ![b].seen = user.failed]
    /\ UNCHANGED <<user, invite, reset, session, mailer, inbox, clock, changes, log>>
\* Counts from Threshold on act alike.
Counted(n) == IF n < Threshold THEN n + 1 ELSE Threshold
RegisterFailure(b) ==
    /\ browser[b].phase = "missed" /\ Ends(b)
    /\ LET count == Counted(browser[b].seen)
       IN  user' = [user EXCEPT !.failed = count, !.locked = count >= Threshold]
    /\ UNCHANGED <<invite, reset, session, mailer, inbox, clock, changes, log>>

NotActive(b) ==
    /\ browser[b].phase = "read" /\ browser[b].kind = "login"
    /\ Correct(b) /\ browser[b].row.status # "active"
    /\ Ends(b)
    /\ UNCHANGED <<user, invite, reset, session, mailer, inbox, clock, changes, log>>
ClearFailures(b) ==
    /\ \/ /\ browser[b].phase = "read" /\ browser[b].kind = "login"
          /\ Correct(b) /\ browser[b].row.status = "active" /\ Step(b, "cleared")
       \/ browser[b].phase = "changed" /\ Step(b, "tidied")
    /\ user' = Unlocked(user)
    /\ UNCHANGED <<invite, reset, session, mailer, inbox, clock, changes, log>>
SlipSignIn(b) ==
    /\ browser[b].phase = "cleared" /\ Ends(b)
    /\ session' = [session EXCEPT ![b] = [version |-> user.version,
                                          knew |-> browser[b].row.password, via |-> "login"]]
    /\ UNCHANGED <<user, invite, reset, mailer, inbox, clock, changes, log>>
SignIn(b) ==
    /\ browser[b].phase = "cleared" /\ Ends(b)
    /\ session' = [session EXCEPT ![b] = [version |-> browser[b].row.version,
                                          knew |-> browser[b].row.password, via |-> "login"]]
    /\ UNCHANGED <<user, invite, reset, mailer, inbox, clock, changes, log>>

\* change_password_if_current compares the hash and the version it has read.
StillCurrent(b) == user.password = browser[b].row.password /\ user.version = browser[b].row.version
Changed(b) ==
    /\ browser[b].phase = "read" /\ browser[b].kind = "change" /\ Correct(b)
    /\ IF StillCurrent(b)
       THEN Changing /\ user' = NewPassword(user) /\ Step(b, "changed") /\ UNCHANGED session
       ELSE /\ session' = [session EXCEPT ![b] = Anonymous] /\ Ends(b)
            /\ UNCHANGED <<user, changes>>
    /\ UNCHANGED <<invite, reset, mailer, inbox, clock, log>>
RevokeLinks(b) ==
    /\ browser[b].phase = "tidied" /\ Ends(b)
    /\ reset' = RevokeAll /\ session' = [session EXCEPT ![b] = Anonymous]
    /\ UNCHANGED <<user, invite, mailer, inbox, clock, changes, log>>

Logout(b) ==
    /\ browser[b].phase = "idle" /\ session[b] # Anonymous
    /\ session' = [session EXCEPT ![b] = Anonymous]
    /\ UNCHANGED <<user, invite, reset, browser, mailer, inbox, clock, changes, log>>

-----------------------------------------------------------------------------
(* accepting an invitation                                                  *)

\* The invitation is checked again in the transaction that uses it, and every
\* other one of the account is used with it.
Accept(b, i) ==
    /\ browser[b].phase = "idle" /\ ~Live(b)
    /\ invite[i] = "open" /\ user.status \in {"active", "invited"}
    /\ Changing /\ user' = [NewPassword(user) EXCEPT !.status = "active"]
    /\ invite' = CloseInvites
    /\ browser' = [browser EXCEPT ![b] = [Idle EXCEPT !.phase = "accepted", !.entered = changes']]
    /\ log' = [log EXCEPT !.accepted = @ \cup {i}]
    /\ UNCHANGED <<reset, session, mailer, inbox, clock>>
\* The row is read after that transaction for the session.
AcceptSignIn(b) ==
    /\ browser[b].phase = "accepted" /\ Ends(b)
    /\ session' = IF user.status # "active" THEN session
                  ELSE [session EXCEPT ![b] = [version |-> user.version,
                                               knew |-> browser[b].entered, via |-> "invite"]]
    /\ UNCHANGED <<user, invite, reset, mailer, inbox, clock, changes, log>>

-----------------------------------------------------------------------------
(* recovery by mail                                                         *)

\* Never waits: a mail that finds no slot is dropped.
Submitted(job) ==
    IF mailer.slots = 0 THEN mailer
    ELSE [mailer EXCEPT !.queue = Append(@, job), !.slots = @ - 1]

Forgot ==
    /\ mailer' = Submitted("reset") /\ mailer' # mailer
    /\ UNCHANGED <<user, invite, reset, browser, session, inbox, clock, changes, log>>

\* PasswordResetRepo.issue: what is kept of a day limits what is made.
Kept(t) == reset[t].made /\ t >= clock - Day
MayIssue ==
    /\ user.status = "active" /\ user.password # 0
    /\ Cardinality({t \in Ticks : Kept(t)}) < DayLimit
    /\ Cardinality({t \in Ticks : Kept(t) /\ t > clock - Hour}) < HourLimit
    /\ ~Kept(clock)
Pruned == [t \in Ticks |-> IF t < clock - Day THEN NoLink ELSE reset[t]]
Taken == [mailer EXCEPT !.queue = Tail(@)]
Issue ==
    /\ ~Working /\ mailer.queue # <<>> /\ Head(mailer.queue) = "reset" /\ MayIssue
    /\ reset' = [Pruned EXCEPT ![clock] = [made |-> TRUE, version |-> user.version,
                                           revoked |-> FALSE]]
    /\ mailer' = [Taken EXCEPT !.sending = clock]
    /\ log' = [log EXCEPT !.knew[clock] = user.password]
    /\ UNCHANGED <<user, invite, browser, session, inbox, clock, changes>>
\* A refused request, a notice of a change, and a task that raises.
NoMail ==
    /\ ~Working /\ mailer.queue # <<>>
    /\ mailer' = [Taken EXCEPT !.slots = @ + 1]
    /\ reset' = IF Head(mailer.queue) = "reset" THEN Pruned ELSE reset
    /\ UNCHANGED <<user, invite, browser, session, inbox, clock, changes, log>>

Delivered == inbox \cup {mailer.sending}
Sent ==
    /\ Working /\ mailer' = [mailer EXCEPT !.sending = None, !.slots = @ + 1]
    /\ inbox' = Delivered
    /\ UNCHANGED <<user, invite, reset, browser, session, clock, changes, log>>
\* An unconfirmed link is revoked, and may have arrived.
Unconfirmed ==
    /\ Working /\ mailer' = [mailer EXCEPT !.sending = None, !.slots = @ + 1]
    /\ reset' = [reset EXCEPT ![mailer.sending].revoked = TRUE]
    /\ inbox' \in {inbox, Delivered}
    /\ UNCHANGED <<user, invite, browser, session, clock, changes, log>>

\* PasswordResetRepo.consume.
Usable(t) ==
    /\ reset[t].made /\ ~reset[t].revoked /\ clock < t + Ttl
    /\ reset[t].version = user.version /\ user.status = "active" /\ user.password # 0
SlipConsume(b, t) ==
    /\ browser[b].phase = "idle" /\ t \in inbox /\ Usable(t)
    /\ Changing /\ user' = Unlocked(NewPassword(user)) /\ reset' = RevokeAll
    /\ session' = [session EXCEPT ![b] = Anonymous]
    /\ mailer' = Submitted("changed")
    /\ log' = [log EXCEPT !.followed = @ \cup {t}, !.recoveries = @ + 1]
    /\ UNCHANGED <<invite, browser, inbox, clock>>
Consume(b, t) ==
    /\ browser[b].phase = "idle" /\ t \in inbox /\ Usable(t)
    /\ Changing /\ user' = Unlocked(NewPassword(user)) /\ reset' = RevokeAll
    /\ invite' = CloseInvites
    /\ session' = [session EXCEPT ![b] = Anonymous]
    /\ mailer' = Submitted("changed")
    /\ log' = [log EXCEPT !.followed = @ \cup {t}, !.recoveries = @ + 1]
    /\ UNCHANGED <<browser, inbox, clock>>

-----------------------------------------------------------------------------
(* time, and the server                                                     *)

Tick ==
    /\ clock < End /\ clock' = clock + 1
    /\ UNCHANGED <<user, invite, reset, browser, session, mailer, inbox, changes, log>>
InviteExpires(i) ==
    /\ invite[i] = "open" /\ invite' = [invite EXCEPT ![i] = "expired"]
    /\ UNCHANGED <<user, reset, browser, session, mailer, inbox, clock, changes, log>>
LockElapses ==
    /\ user.locked /\ user' = [user EXCEPT !.locked = FALSE]
    /\ UNCHANGED <<invite, reset, browser, session, mailer, inbox, clock, changes, log>>
\* Requests and mails are lost; a link being sent may have gone.
Restart ==
    /\ browser' = [b \in Browsers |-> Idle]
    /\ mailer' = [queue |-> <<>>, sending |-> None, slots |-> Slots]
    /\ inbox' \in IF Working THEN {inbox, Delivered} ELSE {inbox}
    /\ UNCHANGED <<user, invite, reset, session, clock, changes, log>>

Next ==
    \/ \E s \in Statuses : SetStatus(s)
    \/ \E i \in Invites : Reinvite(i)
    \/ SetPassword
    \/ \E b \in Browsers, p \in 0 .. changes : Login(b, p)
    \/ \E b \in Browsers, p \in 0 .. changes : ChangePassword(b, p)
    \/ \E b \in Browsers : WrongPassword(b)
    \/ \E b \in Browsers : RegisterFailure(b)
    \/ \E b \in Browsers : NotActive(b)
    \/ \E b \in Browsers : ClearFailures(b)
    \/ \E b \in Browsers : SignIn(b)
    \/ \E b \in Browsers : Changed(b)
    \/ \E b \in Browsers : RevokeLinks(b)
    \/ \E b \in Browsers : Logout(b)
    \/ \E b \in Browsers, i \in Invites : Accept(b, i)
    \/ \E b \in Browsers : AcceptSignIn(b)
    \/ Forgot \/ Issue \/ NoMail \/ Sent \/ Unconfirmed
    \/ \E b \in Browsers, t \in Ticks : Consume(b, t)
    \/ Tick
    \/ \E i \in Invites : InviteExpires(i)
    \/ LockElapses
    \/ Restart

Spec == Init /\ [][Next]_vars

-----------------------------------------------------------------------------
(* Properties                                                               *)

\* A session that signing in opened and that still holds was opened with the password
\* in force, however the password and the session were changed meanwhile (auth.py:99).
SessionsKnowPassword ==
    \A b \in Browsers : Live(b) /\ session[b].via = "login" => session[b].knew = user.password

\* A link that is followed was sent for the password it replaces, and never followed
\* before; an invitation that is accepted was made after the last recovery: an old link
\* undoes no recovery.
OldLinksDie ==
    [][/\ \A t \in log'.followed \ log.followed : log.knew[t] = user.password
       /\ log'.recoveries # log.recoveries => log'.followed # log.followed
       /\ \A i \in log'.accepted \ log.accepted : log.before[i] = log.recoveries]_vars

=============================================================================
