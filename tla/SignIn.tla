------------------------------- MODULE SignIn -------------------------------
(* Two-factor sign-in and password reset (src/hub-ext/zai_2fa.py and           *)
(* zai_reset.py), which share the check of an authenticator code. The hub is  *)
(* one asyncio process: an action is the code between two awaits. The lockout,*)
(* the password check and the change-password pages are NativeAuthenticator's.*)
EXTENDS Integers

CONSTANTS
  User,
  Link,        \* reset links, 1..n as they are made; bounds the links
  Ticket,      \* sign-ins waiting for a code, 1..n; bounds them
  Post,        \* sign-in requests that may be in flight at once
  Nothing,     \* no row, no ticket, no code
  SignInTries, \* _SL_TRIES
  LinkTries,   \* _RS_CODE_TRIES
  Allowed,     \* failed sign-ins before a lockout (allowed_failed_logins)
  PerHour,     \* _RS_PER_EMAIL
  MaxStep,     \* bound: 30 s steps of the clock
  MaxSecret,   \* bound: authenticator secrets made for a user
  MaxMoves,    \* bound: approvals withdrawn and given back, passwords changed on a page
  MaxFaults    \* bound: restarts and failed writes

ASSUME SignInAssumption ==
  /\ Link \subseteq Nat /\ Ticket \subseteq Nat
  /\ Nothing \notin Link /\ Nothing \notin Ticket /\ Nothing \notin User
  /\ {SignInTries, LinkTries, Allowed} \subseteq Nat \ {0}
  /\ {PerHour, MaxStep, MaxSecret, MaxMoves, MaxFaults} \subseteq Nat

VARIABLES
  \* the users' rows (UserInfo) and devices
  approved,    \* users who may sign in
  password,    \* how often a user's password was changed
  on,          \* users with has_2fa
  secret,      \* how many secrets a user had; the last one is otp_secret
  devices,     \* for each user, the passwords that signed-in devices proved
  \* the codes
  step,        \* the 30 s step of the clock
  lastUsed,    \* _last_used, 0 when there is none
  failed,      \* failed sign-ins of a user since the last good one
  \* the two-step sign-in
  waiting,     \* _sl_waiting: a ticket's user, password and tries
  post,        \* sign-ins in flight: POST /login (no ticket) and /login/code
  \* password reset
  link,        \* zai_password_resets
  asked,       \* links a user asked for within the hour (_rs_recent)
  \* history and bounds
  accepted,    \* codes accepted since the hub started
  replayed,    \* one of them was accepted twice
  proven,      \* the secret a user last proved to have, by turning 2FA on
  lastReset,   \* the password that a user's last complete reset set
  late,        \* the passwords of sign-ins judged before that reset, still in flight at it
  moves, faults

account == <<approved, password, on, secret, devices, proven>>
codes == <<lastUsed, failed, accepted, replayed>>
resets == <<link, asked, lastReset, late>>
vars == <<account, step, codes, waiting, post, resets, moves, faults>>

Counter == 1..MaxStep + 1
Waiting == [user : User, password : Nat, tries : 0..SignInTries]
PostState == [at : {"idle", "login", "right", "wrong"}, ticket : Ticket \cup {Nothing},
              user : User \cup {Nothing}, password : Nat]
IdlePost == [at |-> "idle", ticket |-> Nothing, user |-> Nothing, password |-> 0]
\* A link that was used, cancelled or is older than 30 minutes is spent: nothing
\* that reads the table tells the three apart.
LinkRow == [user : User, spent : BOOLEAN, bad : 0..LinkTries]

Init ==
  /\ approved = User /\ password = [u \in User |-> 0] /\ on = {}
  /\ secret = [u \in User |-> 0] /\ devices = [u \in User |-> {}]
  /\ step = 2
  /\ lastUsed = [u \in User |-> 0] /\ failed = [u \in User |-> 0]
  /\ waiting = [t \in Ticket |-> Nothing] /\ post = [p \in Post |-> IdlePost]
  /\ link = [l \in Link |-> Nothing] /\ asked = [u \in User |-> 0]
  /\ accepted = {} /\ replayed = FALSE /\ proven = [u \in User |-> 0]
  /\ lastReset = [u \in User |-> 0] /\ late = [u \in User |-> {}]
  /\ moves = 0 /\ faults = 0

TypeOK ==
  /\ approved \subseteq User /\ password \in [User -> Nat] /\ on \subseteq User
  /\ secret \in [User -> 0..MaxSecret] /\ devices \in [User -> SUBSET Nat]
  /\ step \in Nat
  /\ lastUsed \in [User -> Nat] /\ failed \in [User -> 0..Allowed]
  /\ waiting \in [Ticket -> Waiting \cup {Nothing}]
  /\ post \in [Post -> PostState]
  /\ link \in [Link -> LinkRow \cup {Nothing}]
  /\ asked \in [User -> 0..PerHour]
  /\ accepted \subseteq User \X (0..MaxSecret) \X Nat /\ replayed \in BOOLEAN
  /\ proven \in [User -> 0..MaxSecret]
  /\ lastReset \in [User -> Nat] /\ late \in [User -> SUBSET Nat]
  /\ moves \in Nat /\ faults \in Nat

Fails == faults < MaxFaults /\ faults' = faults + 1

-----------------------------------------------------------------------------
(* What the two parts share.                                                 *)

\* verify: the code of this step or a neighbour, later than any accepted one.
\* A user without a secret has no code.
(* Fault for CodeOnce: the last accepted step is accepted again. *)
VerifiesAgain(u, c) ==
  secret[u] # 0 /\ c \in step - 1 .. step + 1 /\ c >= lastUsed[u]
Verifies(u, c) ==
  secret[u] # 0 /\ c \in step - 1 .. step + 1 /\ c > lastUsed[u]

Accepts(u, c) ==
  /\ lastUsed' = [lastUsed EXCEPT ![u] = c]
  /\ accepted' = accepted \cup {<<u, secret[u], c>>}
  /\ replayed' = (replayed \/ <<u, secret[u], c>> \in accepted)
Rejects == UNCHANGED <<lastUsed, accepted, replayed>>

Blocked(u) == failed[u] >= Allowed
Good(u) == failed' = [failed EXCEPT ![u] = 0]        \* successful_login
Bad(u) == failed' = [failed EXCEPT ![u] = @ + 1]     \* add_login_attempt

\* NativeAuthenticator.authenticate, for someone not locked out. The code is
\* looked at, and used up, whatever the password. The cookie comes later: what
\* remains of JupyterHub's login_user awaits first.
SignsIn(u, v, c) ==
  u \in approved /\ v = password[u] /\ (u \in on => Verifies(u, c))
Authenticate(u, v, c) ==
  /\ IF u \in on /\ Verifies(u, c) THEN Accepts(u, c) ELSE Rejects
  /\ IF SignsIn(u, v, c)
     THEN Good(u) ELSE Bad(u)
  /\ UNCHANGED account

Tick ==
  /\ step < MaxStep /\ step' = step + 1
  /\ UNCHANGED <<account, codes, waiting, post, resets, moves, faults>>

LockEnds(u) ==
  /\ Blocked(u) /\ Good(u)
  /\ UNCHANGED <<account, step, lastUsed, accepted, replayed, waiting, post, resets,
                 moves, faults>>

ApprovalMoves(u) ==
  /\ moves < MaxMoves /\ moves' = moves + 1
  /\ approved' = IF u \in approved THEN approved \ {u} ELSE approved \cup {u}
  /\ UNCHANGED <<password, on, secret, devices, proven, step, codes, waiting, post,
                 resets, faults>>

\* NativeAuthenticator.change_password from its pages, the user's own or the
\* administrators' one: devices stay signed in and links stay usable.
PageChanges(u) ==
  /\ moves < MaxMoves /\ moves' = moves + 1
  /\ password' = [password EXCEPT ![u] = @ + 1]
  /\ UNCHANGED <<approved, on, secret, devices, proven, step, codes, waiting, post,
                 resets, faults>>

-----------------------------------------------------------------------------
(* The two-factor setting: TwoFactorHandler, for a device that is signed in.  *)

NewSecret(u) == secret[u] < MaxSecret /\ secret' = [secret EXCEPT ![u] = @ + 1]

(* Fault for OnIsProven: the setup may be started while it is on. *)
StartAnytime(u) ==
  /\ devices[u] # {} /\ NewSecret(u)
  /\ UNCHANGED <<approved, password, on, devices, proven, step, codes, waiting, post,
                 resets, moves, faults>>
Start(u) ==
  /\ devices[u] # {} /\ u \notin on /\ NewSecret(u)
  /\ UNCHANGED <<approved, password, on, devices, proven, step, codes, waiting, post,
                 resets, moves, faults>>

Enable(u, c) ==
  /\ devices[u] # {} /\ u \notin on /\ Verifies(u, c) /\ Accepts(u, c)
  /\ on' = on \cup {u} /\ proven' = [proven EXCEPT ![u] = secret[u]]
  /\ UNCHANGED <<approved, password, secret, devices, step, failed, waiting, post,
                 resets, moves, faults>>

\* The password is checked first: a wrong one leaves the code unused.
Disable(u, v, c) ==
  /\ devices[u] # {} /\ u \in on /\ ~Blocked(u)
  /\ IF v = password[u] /\ Verifies(u, c)
     THEN /\ Accepts(u, c) /\ Good(u)
          /\ on' = on \ {u} /\ NewSecret(u)
     ELSE Rejects /\ Bad(u) /\ UNCHANGED <<on, secret>>
  /\ UNCHANGED <<approved, password, devices, proven, step, waiting, post, resets,
                 moves, faults>>

\* _reset, by an administrator: another secret, and no step of it was used.
AdminResets(u) ==
  /\ on' = on \ {u} /\ NewSecret(u)
  /\ lastUsed' = [lastUsed EXCEPT ![u] = 0]
  /\ UNCHANGED <<approved, password, devices, proven, step, failed, accepted, replayed,
                 waiting, post, resets, moves, faults>>

-----------------------------------------------------------------------------
(* Signing in: TwoStepLoginHandler and SignInCodeHandler.                    *)

\* _sl_needs_code, and otherwise NativeAuthenticator's own sign-in.
NeedsCode(u, v) == u \in on /\ u \in approved /\ ~Blocked(u) /\ v = password[u]

Others(u, t) ==
  [s \in Ticket |-> IF s = t THEN [user |-> u, password |-> password[u], tries |-> 0]
                    ELSE IF waiting[s] # Nothing /\ waiting[s].user = u THEN Nothing
                    ELSE waiting[s]]

\* A new ticket is never one that a request in flight still names.
FreshTicket(t) == waiting[t] = Nothing /\ \A p \in Post : post[p].ticket # t

LoginNeedsCode(u, t) ==
  /\ NeedsCode(u, password[u]) /\ FreshTicket(t)
  /\ waiting' = Others(u, t)                                       \* _sl_start
  /\ UNCHANGED <<account, step, codes, post, resets, moves, faults>>

\* LoginHandler.post with everything in one form, up to the awaits of login_user
\* that follow the check. A refused request ends here.
Login(p, u, v, c) ==
  /\ post[p].at = "idle"
  /\ ~Blocked(u) /\ (c = Nothing => ~NeedsCode(u, v))
  /\ Authenticate(u, v, c)
  /\ post' = IF SignsIn(u, v, c)
             THEN [post EXCEPT ![p] = [at |-> "right", ticket |-> Nothing, user |-> u,
                                       password |-> v]]
             ELSE post
  /\ UNCHANGED <<step, waiting, resets, moves, faults>>

\* The rest of login_user: the cookie, with the user's cookie_id of now.
LoginDone(p) ==
  /\ post[p].at = "right" /\ post[p].ticket = Nothing
  /\ devices' = [devices EXCEPT ![post[p].user] = @ \cup {post[p].password}]
  /\ post' = [post EXCEPT ![p] = IdlePost]
  /\ UNCHANGED <<approved, password, on, secret, proven, step, codes, waiting, resets,
                 moves, faults>>

\* SignInCodeHandler.post up to `await self.login_user`.
CodeArrives(p, t) ==
  /\ post[p].at = "idle" /\ waiting[t] # Nothing
  /\ post' = [post EXCEPT ![p] = [at |-> "login", ticket |-> t, user |-> waiting[t].user,
                                  password |-> waiting[t].password]]
  /\ UNCHANGED <<account, step, codes, waiting, resets, moves, faults>>

(* Fault for ResetSignsOut: the code alone decides at the second step.        *)
CodeJudgedAlone(p, c) ==
  LET w == post[p]
      ok == w.user \in on /\ Verifies(w.user, c)
  IN /\ w.at = "login"
     /\ IF ok THEN Accepts(w.user, c) ELSE Rejects
     /\ post' = [post EXCEPT ![p].at = IF ok THEN "right" ELSE "wrong"]
     /\ UNCHANGED <<account, step, failed, waiting, resets, moves, faults>>

\* login_user checks everything again, with the password kept in the ticket and
\* the code c of the request; its cookie is set with the answer.
CodeJudged(p, c) ==
  LET w == post[p]
  IN /\ w.at = "login"
     /\ IF Blocked(w.user)
        THEN /\ UNCHANGED <<account, codes>>
             /\ post' = [post EXCEPT ![p].at = "wrong"]
        ELSE /\ Authenticate(w.user, w.password, c)
             /\ post' = [post EXCEPT ![p].at = IF SignsIn(w.user, w.password, c)
                                               THEN "right" ELSE "wrong"]
     /\ UNCHANGED <<step, waiting, resets, moves, faults>>

\* The end of login_user and what follows it: a right code sets the cookie, with
\* the user's cookie_id of now; the ticket ends with it, with a lockout or with
\* too many wrong codes. It may have been replaced or ended meanwhile.
CodeAnswered(p) ==
  LET w == post[p]
      t == w.ticket
      ends == \/ w.at = "right" \/ Blocked(w.user)
              \/ waiting[t].tries + 1 >= SignInTries
  IN /\ w.at \in {"right", "wrong"} /\ t # Nothing
     /\ devices' = IF w.at = "right" THEN [devices EXCEPT ![w.user] = @ \cup {w.password}]
                   ELSE devices
     /\ waiting' = IF waiting[t] = Nothing THEN waiting
                   ELSE IF ends THEN [waiting EXCEPT ![t] = Nothing]
                   ELSE [waiting EXCEPT ![t].tries = @ + 1]
     /\ post' = [post EXCEPT ![p] = IdlePost]
     /\ UNCHANGED <<approved, password, on, secret, proven, step, codes, resets, moves,
                    faults>>

\* The user goes back, or five minutes pass.
TicketEnds(t) ==
  /\ waiting[t] # Nothing
  /\ waiting' = [waiting EXCEPT ![t] = Nothing]
  /\ UNCHANGED <<account, step, codes, post, resets, moves, faults>>

-----------------------------------------------------------------------------
(* Password reset.                                                           *)

Unspent(u) == {l \in Link : link[l] # Nothing /\ link[l].user = u /\ ~link[l].spent}
SpendAll(u, rows) == [l \in Link |-> IF l \in Unspent(u) THEN [rows[l] EXCEPT !.spent = TRUE]
                                     ELSE rows[l]]
NewLink(u) == [user |-> u, spent |-> FALSE, bad |-> 0]

\* _rs_request. Refused, by either limit, it changes nothing; for an account
\* that is not approved it only counts.
(* Fault for OneLiveLink: earlier links go on working. *)
RequestKeepsOld(u, l) ==
  /\ asked[u] < PerHour /\ link[l] = Nothing
  /\ link' = IF u \in approved THEN [link EXCEPT ![l] = NewLink(u)] ELSE link
  /\ asked' = [asked EXCEPT ![u] = @ + 1]
  /\ UNCHANGED <<account, step, codes, waiting, post, lastReset, late, moves, faults>>
Request(u, l) ==
  /\ asked[u] < PerHour /\ link[l] = Nothing
  /\ link' = IF u \in approved THEN [SpendAll(u, link) EXCEPT ![l] = NewLink(u)] ELSE link
  /\ asked' = [asked EXCEPT ![u] = @ + 1]
  /\ UNCHANGED <<account, step, codes, waiting, post, lastReset, late, moves, faults>>

HourPasses(u) ==
  /\ asked[u] > 0 /\ asked' = [asked EXCEPT ![u] = @ - 1]
  /\ UNCHANGED <<account, step, codes, waiting, post, link, lastReset, late, moves, faults>>

LinkExpires(l) ==
  /\ link[l] # Nothing /\ ~link[l].spent
  /\ link' = [link EXCEPT ![l].spent = TRUE]
  /\ UNCHANGED <<account, step, codes, waiting, post, asked, lastReset, late, moves, faults>>

\* _rs_find, and the approval that _rs_complete asks for.
Works(l) == link[l] # Nothing /\ ~link[l].spent /\ link[l].user \in approved

\* _rs_complete with a wrong code: the last one allowed ends the link.
Missed(u, bad) == [user |-> u, spent |-> ~(bad < LinkTries), bad |-> bad]
(* Fault for TypeOK: it does not. *)
CodeMissedAgain(l, c) ==
  /\ Works(l) /\ link[l].user \in on /\ ~Verifies(link[l].user, c)
  /\ link' = [link EXCEPT ![l].bad = @ + 1]
  /\ UNCHANGED <<account, step, codes, waiting, post, asked, lastReset, late, moves, faults>>
CodeMissed(l, c) ==
  /\ Works(l) /\ link[l].user \in on /\ ~Verifies(link[l].user, c)
  /\ link' = [link EXCEPT ![l] = Missed(link[l].user, link[l].bad + 1)]
  /\ UNCHANGED <<account, step, codes, waiting, post, asked, lastReset, late, moves, faults>>

CodeGiven(u, c) == IF u \in on THEN Verifies(u, c) /\ Accepts(u, c) ELSE Rejects

\* new_token for cookie_id: every device is signed out. Nobody signs out a sign-in
\* that login_user has judged and whose cookie is still to come.
InFlight(u) == {post[p].password : p \in {q \in Post : post[q].at = "right" /\ post[q].user = u}}
SignsOut(u) ==
  /\ devices' = [devices EXCEPT ![u] = {}] /\ Good(u)
  /\ lastReset' = [lastReset EXCEPT ![u] = password[u] + 1]
  /\ late' = [late EXCEPT ![u] = InFlight(u)]

(* Fault for ChangeSpendsLinks: the password first, and then the links. *)
CompletePasswordFirst(l, c) ==
  LET u == link[l].user
  IN /\ Works(l) /\ CodeGiven(u, c)
     /\ password' = [password EXCEPT ![u] = @ + 1]
     /\ SignsOut(u)
     /\ \/ link' = SpendAll(u, link) /\ UNCHANGED faults
        \/ Fails /\ UNCHANGED link
     /\ UNCHANGED <<approved, on, secret, proven, step, waiting, post, asked, moves>>

\* The links are spent and committed, the password changed, and then every
\* device signed out and the lockout lifted. A write in between may fail.
Complete(l, c) ==
  LET u == link[l].user
  IN /\ Works(l) /\ CodeGiven(u, c)
     /\ link' = SpendAll(u, link)
     /\ \/ /\ password' = [password EXCEPT ![u] = @ + 1]
           /\ SignsOut(u)
           /\ UNCHANGED faults
        \/ /\ Fails                                    \* before the password
           /\ UNCHANGED <<password, devices, failed, lastReset, late>>
        \/ /\ Fails                                    \* after it
           /\ password' = [password EXCEPT ![u] = @ + 1]
           /\ UNCHANGED <<devices, failed, lastReset, late>>
     /\ UNCHANGED <<approved, on, secret, proven, step, waiting, post, asked, moves>>

\* A restart of the hub forgets what is in memory: used steps, failed sign-ins,
\* tickets and the requests of the hour.
HubRestarts ==
  /\ Fails
  /\ lastUsed' = [u \in User |-> 0] /\ failed' = [u \in User |-> 0]
  /\ accepted' = {} /\ asked' = [u \in User |-> 0]
  /\ waiting' = [t \in Ticket |-> Nothing] /\ post' = [p \in Post |-> IdlePost]
  /\ UNCHANGED <<account, step, replayed, link, lastReset, late, moves>>

-----------------------------------------------------------------------------
Typed == Counter \cup {Nothing}     \* a right or past code, or none that fits
Known(u) == 0..password[u]          \* the current password or an earlier one

Settings(u) ==
  \/ Start(u) \/ AdminResets(u)
  \/ \E c \in Counter : Enable(u, c)
  \/ \E v \in Known(u), c \in Typed : Disable(u, v, c)

SigningIn(u) ==
  \/ \E t \in Ticket : LoginNeedsCode(u, t)
  \/ \E p \in Post, v \in Known(u), c \in Typed : Login(p, u, v, c)

Codes ==
  \/ \E p \in Post : LoginDone(p)
  \/ \E p \in Post, t \in Ticket : CodeArrives(p, t)
  \/ \E p \in Post, c \in Typed : CodeJudged(p, c)
  \/ \E p \in Post : CodeAnswered(p)
  \/ \E t \in Ticket : TicketEnds(t)

Resetting ==
  \/ \E u \in User, l \in Link : Request(u, l)
  \/ \E u \in User : HourPasses(u)
  \/ \E l \in Link : LinkExpires(l)
  \/ \E l \in Link, c \in Typed : CodeMissed(l, c) \/ Complete(l, c)

Next ==
  \/ Tick \/ HubRestarts
  \/ \E u \in User : LockEnds(u) \/ ApprovalMoves(u) \/ PageChanges(u)
                     \/ Settings(u) \/ SigningIn(u)
  \/ Codes \/ Resetting

Spec == Init /\ [][Next]_vars

-----------------------------------------------------------------------------
\* "Each step is accepted once" (verify), whether a code signs somebody in, sets
\* two-factor up or off or resets a password, and however secrets change.
CodeOnce == ~replayed

\* Two-factor is on only with a secret the user's phone has proved to hold:
\* no setup started beside it may change the secret (TwoFactorHandler.post).
OnIsProven == \A u \in on : proven[u] = secret[u]

\* "Sign every device out" (_rs_complete): a device that is signed in after a
\* reset proved the password the reset set or a later one. So a sign-in that
\* waited for its code while the password was reset does not come through; only
\* one that was already judged, and had nothing left to do but to set its cookie,
\* gets it (SignInCodeHandler.post, LoginHandler.post).
ResetSignsOut ==
  \A u \in User : \A v \in devices[u] : v >= lastReset[u] \/ v \in late[u]

\* A user has one link that can still be used, however requests and resets
\* interleave (_rs_request, _rs_complete).
OneLiveLink == \A u \in User : \A k, l \in Unspent(u) : k = l

\* Whenever a reset changes a password, complete or broken off, no link of its
\* user is left to change it again. The change-password pages leave links alone.
ChangeSpendsLinks ==
  [][\A u \in User : password'[u] # password[u] /\ ~PageChanges(u) => Unspent(u)' = {}]_vars
=============================================================================
