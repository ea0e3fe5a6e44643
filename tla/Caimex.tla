------------------------------- MODULE Caimex -------------------------------
(* Caimex accounts and the free allowance (src/hub-ext/zai_caimex.py). The     *)
(* hub registers a user at Caimex in the background of a sign-in and caps      *)
(* every member of its organisation with an allowance that is given once.      *)
(* Caimex, its users and its administrators are the environment.              *)
EXTENDS Integers, FiniteSets

CONSTANTS
  User,        \* people, as the hub and as Caimex know them (one address each)
  HubUser,     \* those who have a hub account; others join by invitation only
  Nobody,      \* no person
  MaxJoins,    \* bound: memberships ever created
  MaxMoves,    \* bound: steps of Caimex's users and administrators
  MaxFaults    \* bound: lost answers, refusals, failed writes and restarts

ASSUME CaimexAssumption == /\ HubUser \subseteq User /\ Nobody \notin User
                           /\ {MaxJoins, MaxMoves, MaxFaults} \subseteq Nat

VARIABLES
  \* Caimex
  account,     \* "none", "ours" (the hub's password works) or "theirs"
  member,      \* id of a person's membership, 0 when there is none
  exempt,      \* members who are owner or admin
  cap,         \* spending cap: "none", "zero", "full" (the allowance), "other"
  \* the hub's database
  status,      \* zai_caimex_accounts.status, "new" when there is no row
  auto,        \* people whose auto_login is still true
  granted,     \* zai_caimex_allowances
  \* the hub's process
  task,        \* _cx_running: where a person's sign-in task stands
  token,       \* _cx_sessions: people with a session to hand over
  refused,     \* _cx["login_failed"] less than five minutes old
  sweep,       \* the pass over the members
  \* history and bounds
  given,       \* allowances a person received
  unrecorded,  \* of these, the ones whose record was prevented by a fault
  knocks,      \* passwords of a person that Caimex refused
  joins, moves, faults

caimexVars == <<account, member, exempt, cap>>
tableVars == <<status, auto, granted>>
history == <<given, unrecorded, knocks>>
bounds == <<joins, moves, faults>>
vars == <<caimexVars, tableVars, task, token, refused, sweep, history, bounds>>

Account == {"none", "ours", "theirs"}
Cap == {"none", "zero", "full", "other"}
Status == {"new", "created", "invited", "failed"}
TaskState == {"none", "invite", "register", "registered", "login"}
Linked == {"created", "invited"}

\* A pass: the members it listed and still has to cap, who had the allowance
\* when it listed them, and whose cap was just set and is not yet recorded.
Sweep == [on : BOOLEAN, left : SUBSET (User \X (1..MaxJoins)),
          already : SUBSET User, asked : User \cup {Nobody}]
Resting == [on |-> FALSE, left |-> {}, already |-> {}, asked |-> Nobody]

Init ==
  /\ account \in [User -> {"none", "theirs"}]
  /\ member = [u \in User |-> 0] /\ exempt = {} /\ cap = [u \in User |-> "none"]
  /\ status = [u \in User |-> "new"] /\ auto = User /\ granted = {}
  /\ task = [u \in User |-> "none"] /\ token = {} /\ refused = FALSE
  /\ sweep = Resting
  /\ given = [u \in User |-> 0] /\ unrecorded = [u \in User |-> 0]
  /\ knocks = [u \in User |-> 0]
  /\ joins = 0 /\ moves = 0 /\ faults = 0

TypeOK ==
  /\ account \in [User -> Account] /\ member \in [User -> 0..MaxJoins]
  /\ exempt \subseteq User /\ cap \in [User -> Cap]
  /\ status \in [User -> Status] /\ auto \subseteq User /\ granted \subseteq User
  /\ task \in [User -> TaskState] /\ token \subseteq User /\ refused \in BOOLEAN
  /\ sweep \in Sweep
  /\ given \in [User -> Nat] /\ unrecorded \in [User -> Nat] /\ knocks \in [User -> Nat]
  /\ joins \in 0..MaxJoins /\ moves \in 0..MaxMoves /\ faults \in 0..MaxFaults

Fails == faults < MaxFaults /\ faults' = faults + 1
Bump(f, u) == [f EXCEPT ![u] = @ + 1]

-----------------------------------------------------------------------------
(* Caimex's side.                                                            *)

\* A membership starts without a cap, as an ordinary member, with a new id.
Join(u) ==
  /\ member[u] = 0 /\ joins < MaxJoins
  /\ joins' = joins + 1
  /\ member' = [member EXCEPT ![u] = joins + 1]
  /\ UNCHANGED <<exempt, cap>>

Leave(u) ==
  /\ member[u] # 0
  /\ member' = [member EXCEPT ![u] = 0]
  /\ exempt' = exempt \ {u}
  /\ cap' = [cap EXCEPT ![u] = "none"]
  /\ UNCHANGED joins

\* People join on their own account, leave, are promoted and demoted, and have
\* their cap set or cleared by an administrator of the organisation.
CaimexMoves(u) ==
  /\ moves < MaxMoves /\ moves' = moves + 1
  /\ \/ account[u] # "none" /\ Join(u) /\ UNCHANGED account
     \/ Leave(u) /\ UNCHANGED account
     \/ /\ member[u] # 0
        /\ exempt' \in {exempt \cup {u}, exempt \ {u}}
        /\ UNCHANGED <<account, member, cap, joins>>
     \/ /\ member[u] # 0
        /\ \E c \in {"none", "other"} : cap' = [cap EXCEPT ![u] = c]
        /\ UNCHANGED <<account, member, exempt, joins>>
     \/ /\ account[u] # "theirs"         \* their own account, or a new password
        /\ account' = [account EXCEPT ![u] = "theirs"]
        /\ UNCHANGED <<member, exempt, cap, joins>>
  /\ UNCHANGED <<tableVars, task, token, refused, sweep, history, faults>>

-----------------------------------------------------------------------------
(* The sign-in task of a user: _cx_sign_in and what it calls.                 *)

Ends(u) == task' = [task EXCEPT ![u] = "none"]
Goes(u, where) == task' = [task EXCEPT ![u] = where]
SetStatus(u, s) == /\ status' = [status EXCEPT ![u] = s]      \* _cx_set
                   /\ auto' = auto \cup {u}

\* A token is there and younger than 23 hours.
Session(u) == u \in token

\* After _cx_register, and at the start for someone with an account: try the
\* password, unless the hub stopped trying or a session is still good.
GoesToLogin(u, tries) ==
  IF tries /\ ~Session(u) THEN Goes(u, "login") ELSE Ends(u)

\* _authenticate: one task at a time per user. It reads the row and stops or
\* waits for its first answer.
SignIn(u) ==
  /\ u \in HubUser /\ task[u] = "none"
  /\ \/ /\ status[u] \notin Linked
        /\ \/ Goes(u, "invite") /\ UNCHANGED <<status, auto>>
           \/ SetStatus(u, "failed") /\ UNCHANGED task     \* no address on file
     \/ /\ status[u] \in Linked /\ GoesToLogin(u, u \in auto)
        /\ UNCHANGED <<status, auto>>
  /\ UNCHANGED <<caimexVars, granted, token, refused, sweep, history, bounds>>

\* A call of the service account: it works unless the service's own sign-in was
\* refused in the last five minutes. An expired token costs a second attempt,
\* and the first one did nothing at Caimex.
ServiceWorks == ~refused

\* The invitation was answered: 409 for a member, 201 otherwise.
InviteAnswers(u) ==
  /\ task[u] = "invite" /\ ServiceWorks
  /\ IF member[u] # 0 THEN SetStatus(u, "invited") /\ GoesToLogin(u, TRUE)
                      ELSE Goes(u, "register") /\ UNCHANGED <<status, auto>>
  /\ UNCHANGED <<caimexVars, granted, token, refused, sweep, history, bounds>>

InviteFails(u) ==
  /\ task[u] = "invite"
  /\ (refused /\ UNCHANGED faults) \/ Fails
  /\ SetStatus(u, "failed") /\ Ends(u)
  /\ UNCHANGED <<caimexVars, granted, token, refused, sweep, history, joins, moves>>

\* POST /api/auth/register reaches Caimex. 409: the address has an account.
RegisterReaches(u) ==
  /\ task[u] = "register"
  /\ \/ /\ account[u] = "none" /\ Join(u)
        /\ account' = [account EXCEPT ![u] = "ours"]
        /\ Goes(u, "registered")
        /\ UNCHANGED <<status, auto>>
     \/ /\ account[u] # "none"
        /\ SetStatus(u, "invited") /\ GoesToLogin(u, TRUE)
        /\ UNCHANGED <<caimexVars, joins>>
  /\ UNCHANGED <<granted, token, refused, sweep, history, moves, faults>>

RegisterAnswers(u) ==
  /\ task[u] = "registered"
  /\ SetStatus(u, "created") /\ token' = token \cup {u} /\ Ends(u)
  /\ UNCHANGED <<caimexVars, granted, refused, sweep, history, bounds>>

\* Fault for OfferNeedsAccount: the attempt counts as a registration.
RegisterFailsAsCreated(u) ==
  /\ task[u] \in {"register", "registered"} /\ Fails /\ Ends(u)
  /\ SetStatus(u, "created")
  /\ UNCHANGED <<caimexVars, granted, token, refused, sweep, history, joins, moves>>

\* No answer, before or after Caimex acted; or the row could not be written, and
\* then perhaps neither could the failure.
RegisterFails(u) ==
  /\ task[u] \in {"register", "registered"} /\ Fails /\ Ends(u)
  /\ SetStatus(u, "failed") \/ UNCHANGED <<status, auto>>
  /\ UNCHANGED <<caimexVars, granted, token, refused, sweep, history, joins, moves>>

\* Fault for KnocksOnce: the refusal is not remembered.
LoginAnswersForgetful(u) ==
  /\ task[u] = "login" /\ Ends(u)
  /\ \/ account[u] = "ours" /\ token' = token \cup {u} /\ UNCHANGED knocks
     \/ account[u] = "theirs" /\ knocks' = Bump(knocks, u) /\ UNCHANGED token
  /\ UNCHANGED <<caimexVars, tableVars, refused, sweep, given, unrecorded, bounds>>

\* POST /api/auth/login with the password of this sign-in. A refusal turns
\* auto_login off and is never followed by another try.
LoginAnswers(u) ==
  /\ task[u] = "login" /\ Ends(u)
  /\ \/ /\ account[u] = "ours"
        /\ token' = token \cup {u}
        /\ UNCHANGED <<auto, knocks>>
     \/ /\ account[u] = "theirs"
        /\ auto' = auto \ {u}
        /\ knocks' = Bump(knocks, u)
        /\ UNCHANGED token
  /\ UNCHANGED <<caimexVars, status, granted, refused, sweep, given, unrecorded, bounds>>

\* The answer is lost or its refusal cannot be written.
LoginFails(u) ==
  /\ task[u] = "login" /\ Fails /\ Ends(u)
  /\ knocks' = IF account[u] = "theirs" THEN Bump(knocks, u) ELSE knocks
  /\ UNCHANGED <<caimexVars, tableVars, token, refused, sweep, given, unrecorded,
                 joins, moves>>

TokenExpires(u) ==
  /\ u \in token /\ token' = token \ {u}
  /\ UNCHANGED <<caimexVars, tableVars, task, refused, sweep, history, bounds>>

\* OpenCaimex waits for the task and then, without a session, offers to sign
\* in again when the hub believes that this would help.
OffersSignIn(u) ==
  task[u] = "none" /\ ~Session(u) /\ status[u] \in Linked /\ u \in auto

-----------------------------------------------------------------------------
(* The allowance: _cx_cap_sweep, once a minute and when somebody registered.  *)

\* The list and the grants are read once; owners, admins and members with a
\* cap are passed over. Only the pass itself writes grants.
Uncapped(u) == member[u] # 0 /\ u \notin exempt /\ cap[u] = "none"

\* Fault for OnceUnlessLost: the grants are not consulted.
SweepListsBlindly ==
  /\ ~sweep.on /\ ServiceWorks
  /\ sweep' = [on |-> TRUE, left |-> {<<u, member[u]>> : u \in {v \in User : Uncapped(v)}},
               already |-> {}, asked |-> Nobody]
  /\ UNCHANGED <<caimexVars, tableVars, task, token, refused, history, bounds>>

SweepLists ==
  /\ ~sweep.on /\ ServiceWorks
  /\ sweep' = [on |-> TRUE, left |-> {<<u, member[u]>> : u \in {v \in User : Uncapped(v)}},
               already |-> granted, asked |-> Nobody]
  /\ UNCHANGED <<caimexVars, tableVars, task, token, refused, history, bounds>>

Turn(u, i) == sweep.on /\ sweep.asked = Nobody /\ <<u, i>> \in sweep.left
Again(u) == u \in sweep.already
PassedOn(u, i, asked) == [on |-> TRUE, left |-> sweep.left \ {<<u, i>>},
                          already |-> sweep.already, asked |-> asked]

\* The PATCH reaches the membership it names.
Capped(u) ==
  /\ cap' = [cap EXCEPT ![u] = IF Again(u) THEN "zero" ELSE "full"]
  /\ given' = IF Again(u) THEN given ELSE Bump(given, u)
  /\ UNCHANGED <<account, member, exempt>>

\* The PATCH is answered 200, or 404 for a membership that ended.
SweepCaps(u, i) ==
  /\ Turn(u, i) /\ ServiceWorks
  /\ \/ /\ member[u] = i /\ Capped(u)
        /\ sweep' = PassedOn(u, i, IF Again(u) THEN Nobody ELSE u)
     \/ /\ member[u] # i
        /\ sweep' = PassedOn(u, i, Nobody)
        /\ UNCHANGED <<caimexVars, given>>
  /\ UNCHANGED <<tableVars, task, token, refused, unrecorded, knocks, bounds>>

\* It fails: the service is refused, or the answer is lost before or after
\* Caimex acted. The pass goes on with the next member.
SweepMisses(u, i) ==
  /\ Turn(u, i)
  /\ sweep' = PassedOn(u, i, Nobody)
  /\ \/ refused /\ UNCHANGED <<caimexVars, given, unrecorded, faults>>
     \/ Fails /\ UNCHANGED <<caimexVars, given, unrecorded>>
     \/ /\ Fails /\ member[u] = i /\ Capped(u)
        /\ unrecorded' = IF Again(u) THEN unrecorded ELSE Bump(unrecorded, u)
  /\ UNCHANGED <<tableVars, task, token, refused, knocks, joins, moves>>

\* _cx_record_grant keeps the first grant of an account.
SweepRecords ==
  /\ sweep.asked # Nobody
  /\ granted' = granted \cup {sweep.asked}
  /\ sweep' = [sweep EXCEPT !.asked = Nobody]
  /\ UNCHANGED <<caimexVars, status, auto, task, token, refused, history, bounds>>

\* The allowance whose record is outstanding stays unrecorded.
Forgotten == unrecorded' = IF sweep.asked = Nobody THEN unrecorded
                           ELSE Bump(unrecorded, sweep.asked)

\* Fault for EveryMemberCapped: the loop ends with its pass.
SweepEndsForGood ==
  /\ sweep.on /\ sweep.left = {} /\ sweep.asked = Nobody
  /\ UNCHANGED vars

\* A grant that cannot be written ends the pass.
RecordFails ==
  /\ sweep.asked # Nobody /\ Fails /\ Forgotten
  /\ sweep' = Resting
  /\ UNCHANGED <<caimexVars, tableVars, task, token, refused, given, knocks, joins, moves>>

SweepEnds ==
  /\ sweep.on /\ sweep.left = {} /\ sweep.asked = Nobody
  /\ sweep' = Resting
  /\ UNCHANGED <<caimexVars, tableVars, task, token, refused, history, bounds>>

\* _cx_service_login is refused, and not tried again for five minutes.
ServiceRefused ==
  /\ ~refused /\ Fails /\ refused' = TRUE
  /\ UNCHANGED <<caimexVars, tableVars, task, token, sweep, history, joins, moves>>

ServiceRetries ==
  /\ refused /\ refused' = FALSE
  /\ UNCHANGED <<caimexVars, tableVars, task, token, sweep, history, bounds>>

\* A restart of the hub forgets everything in memory.
HubRestarts ==
  /\ Fails /\ Forgotten
  /\ task' = [u \in User |-> "none"] /\ token' = {} /\ refused' = FALSE
  /\ sweep' = Resting
  /\ UNCHANGED <<caimexVars, tableVars, given, knocks, joins, moves>>

-----------------------------------------------------------------------------
SignInStep(u) ==
  \/ SignIn(u) \/ InviteAnswers(u) \/ InviteFails(u)
  \/ RegisterReaches(u) \/ RegisterAnswers(u) \/ RegisterFails(u)
  \/ LoginAnswers(u) \/ LoginFails(u) \/ TokenExpires(u)

SweepWorks ==
  \/ SweepLists \/ SweepRecords \/ SweepEnds
  \/ \E u \in User, i \in 1..MaxJoins : SweepCaps(u, i)

Next ==
  \/ \E u \in User : CaimexMoves(u) \/ SignInStep(u)
  \/ SweepWorks
  \/ \E u \in User, i \in 1..MaxJoins : SweepMisses(u, i)
  \/ RecordFails \/ ServiceRefused \/ ServiceRetries \/ HubRestarts

Spec == Init /\ [][Next]_vars

\* The loop of passes never ends and five minutes pass.
FairSpec == Spec /\ WF_vars(SweepWorks) /\ WF_vars(ServiceRetries)

-----------------------------------------------------------------------------
\* The promise of the comment on the grants table: whoever leaves and rejoins,
\* has the cap cleared or is met by several passes gets the allowance once, and
\* again only after a fault kept an earlier one off the record.
OnceUnlessLost == \A u \in User : given[u] <= 1 + unrecorded[u]

\* The hub knocks on a foreign account once: a second refused password needs a
\* refusal that a fault kept from being remembered (_cx_sign_in).
KnocksOnce == \A u \in User : knocks[u] <= 1 + faults

\* Open Caimex offers another sign-in only to people whom Caimex knows, however
\* registrations failed half-way before.
OfferNeedsAccount == \A u \in User : OffersSignIn(u) => account[u] # "none"

\* Whoever is an ordinary member without a cap gets one, unless they leave or
\* are promoted first, whatever passes fail in between.
EveryMemberCapped == \A u \in User : Uncapped(u) ~> ~Uncapped(u)
=============================================================================
