---------------------------- MODULE CaimexProofs ----------------------------
(* Theorems about Caimex, for any number of people, memberships, moves and     *)
(* faults.                                                                    *)
EXTENDS Caimex, TLAPS

(***************************************************************************)
(* Types.                                                                  *)
(***************************************************************************)

LEMMA RestingTyped == Resting \in Sweep
BY DEF Resting, Sweep

LEMMA InitTyped == Init => TypeOK
<1> SUFFICES ASSUME Init PROVE TypeOK
  OBVIOUS
<1>1. sweep \in Sweep BY RestingTyped DEF Init
<1>2. account \in [User -> Account] BY DEF Init, Account
<1>3. cap \in [User -> Cap] /\ status \in [User -> Status] /\ task \in [User -> TaskState]
  BY DEF Init, Cap, Status, TaskState
<1>4. /\ member \in [User -> 0..MaxJoins] /\ joins \in 0..MaxJoins
      /\ moves \in 0..MaxMoves /\ faults \in 0..MaxFaults
  BY CaimexAssumption DEF Init
<1>5. given \in [User -> Nat] /\ unrecorded \in [User -> Nat] /\ knocks \in [User -> Nat]
  BY DEF Init
<1>6. QED BY <1>1, <1>2, <1>3, <1>4, <1>5 DEF Init, TypeOK

LEMMA CaimexMovesTyped ==
  ASSUME TypeOK, NEW u \in User, CaimexMoves(u) PROVE TypeOK'
BY CaimexAssumption DEF TypeOK, CaimexMoves, Join, Leave, tableVars, history, Account, Cap

LEMMA SignInTyped ==
  ASSUME TypeOK, NEW u \in User, SignInStep(u) PROVE TypeOK'
<1> USE CaimexAssumption DEF TypeOK, Goes, Ends, SetStatus, GoesToLogin, Status, TaskState,
          caimexVars, tableVars, history, bounds
<1>1. CASE SignIn(u) BY <1>1 DEF SignIn
<1>2. CASE InviteAnswers(u) BY <1>2 DEF InviteAnswers
<1>3. CASE InviteFails(u) BY <1>3 DEF InviteFails, Fails
<1>4. CASE RegisterReaches(u) BY <1>4 DEF RegisterReaches, Join, Account
<1>5. CASE RegisterAnswers(u) BY <1>5 DEF RegisterAnswers
<1>6. CASE RegisterFails(u) BY <1>6 DEF RegisterFails, Fails
<1>7. CASE LoginAnswers(u) BY <1>7 DEF LoginAnswers, Bump
<1>8. CASE LoginFails(u) BY <1>8 DEF LoginFails, Fails, Bump
<1>9. CASE TokenExpires(u) BY <1>9 DEF TokenExpires
<1>10. QED BY <1>1, <1>2, <1>3, <1>4, <1>5, <1>6, <1>7, <1>8, <1>9 DEF SignInStep

LEMMA RestartTyped == TypeOK /\ HubRestarts => TypeOK'
<1> SUFFICES ASSUME TypeOK, HubRestarts PROVE TypeOK'
  OBVIOUS
<1>1. sweep' \in Sweep BY RestingTyped DEF HubRestarts
<1>2. task' \in [User -> TaskState] BY DEF HubRestarts, TaskState
<1>3. unrecorded' \in [User -> Nat] BY DEF HubRestarts, Forgotten, Bump, TypeOK, Sweep
<1>4. faults' \in 0..MaxFaults BY CaimexAssumption DEF HubRestarts, Fails, TypeOK
<1>5. token' \subseteq User /\ refused' \in BOOLEAN BY DEF HubRestarts
<1>6. QED BY <1>1, <1>2, <1>3, <1>4, <1>5 DEF HubRestarts, TypeOK, caimexVars, tableVars

LEMMA SweepTyped ==
  ASSUME TypeOK,
         \/ SweepWorks \/ RecordFails \/ ServiceRefused \/ ServiceRetries \/ HubRestarts
         \/ \E u \in User, i \in 1..MaxJoins : SweepMisses(u, i)
  PROVE  TypeOK'
<1> USE CaimexAssumption DEF TypeOK, Sweep, Resting, Bump,
          caimexVars, tableVars, history, bounds
<1>1. CASE SweepLists BY <1>1 DEF SweepLists, Uncapped
<1>2. CASE SweepRecords BY <1>2 DEF SweepRecords
<1>3. CASE SweepEnds BY <1>3 DEF SweepEnds
<1>4. ASSUME NEW u \in User, NEW i \in 1..MaxJoins, SweepCaps(u, i) PROVE TypeOK'
  <2>1. sweep' \in Sweep
    <3>1. PICK a \in User \cup {Nobody} : sweep' = PassedOn(u, i, a) BY <1>4 DEF SweepCaps
    <3>2. QED BY <3>1 DEF PassedOn
  <2>2. cap' \in [User -> Cap] /\ given' \in [User -> Nat]
    BY <1>4 DEF SweepCaps, Capped, Cap
  <2>3. QED BY <1>4, <2>1, <2>2 DEF SweepCaps, Capped
<1>5. ASSUME NEW u \in User, NEW i \in 1..MaxJoins, SweepMisses(u, i) PROVE TypeOK'
  BY <1>5 DEF SweepMisses, Capped, Cap, Fails, PassedOn, Turn
<1>6. CASE RecordFails BY <1>6 DEF RecordFails, Fails, Forgotten
<1>7. CASE ServiceRefused BY <1>7 DEF ServiceRefused, Fails
<1>8. CASE ServiceRetries BY <1>8 DEF ServiceRetries
<1>9. CASE HubRestarts BY <1>9, RestartTyped
<1>10. QED BY <1>1, <1>2, <1>3, <1>4, <1>5, <1>6, <1>7, <1>8, <1>9 DEF SweepWorks

LEMMA NextTyped == TypeOK /\ [Next]_vars => TypeOK'
<1> SUFFICES ASSUME TypeOK, [Next]_vars PROVE TypeOK'
  OBVIOUS
<1>1. CASE UNCHANGED vars
  BY <1>1 DEF vars, TypeOK, caimexVars, tableVars, history, bounds
<1>2. CASE Next BY <1>2, CaimexMovesTyped, SignInTyped, SweepTyped DEF Next
<1>3. QED BY <1>1, <1>2

\* Every reachable state is well typed.
THEOREM TypeCorrect == Spec => []TypeOK
<1>1. QED BY InitTyped, NextTyped, PTL DEF Spec

(***************************************************************************)
(* The allowance. The list of a pass stays right while the pass awaits      *)
(* Caimex, because only the pass writes grants.                            *)
(***************************************************************************)

Is(S, u) == IF u \in S THEN 1 ELSE 0

\* Every allowance given is on record, about to be recorded, or was kept off
\* the record by a fault.
GiftsAreRecorded ==
  \A u \in User :
    given[u] = Is(granted, u) + Is({sweep.asked}, u) + unrecorded[u]

\* Whose grant is outstanding has none and is not on the list any more; nobody
\* is on the list twice, and who was granted it is known to the pass.
SweepSound ==
  /\ sweep.asked # Nobody => sweep.on /\ sweep.asked \notin granted
  /\ sweep.already \subseteq granted
  /\ \A p \in sweep.left : p[1] # sweep.asked
  /\ \A p, q \in sweep.left : p[1] = q[1] => p = q
  /\ \A p \in sweep.left : p[1] \in granted => p[1] \in sweep.already

Gifts == GiftsAreRecorded /\ SweepSound

LEMMA RestingSound ==
  ASSUME sweep' = Resting PROVE SweepSound'
BY DEF Resting, SweepSound

LEMMA InitGifts == Init => Gifts
BY CaimexAssumption DEF Init, Gifts, GiftsAreRecorded, SweepSound, Resting, Is

\* A member is passed over, without or with a grant that is never recorded.
LEMMA PassedOnSound ==
  ASSUME SweepSound, NEW u \in User, NEW i \in 1..MaxJoins, Turn(u, i),
         sweep' = PassedOn(u, i, Nobody), UNCHANGED granted, TypeOK
  PROVE  SweepSound'
<1>1. sweep'.left \subseteq sweep.left /\ sweep'.already = sweep.already /\ sweep'.asked = Nobody
  BY DEF PassedOn
<1>2. \A p \in sweep'.left : p[1] # Nobody
  BY <1>1, CaimexAssumption DEF TypeOK, Sweep
<1>3. QED BY <1>1, <1>2 DEF SweepSound

LEMMA CapsGifts ==
  ASSUME TypeOK, Gifts, NEW u \in User, NEW i \in 1..MaxJoins, SweepCaps(u, i)
  PROVE  Gifts'
<1>1. Turn(u, i) /\ UNCHANGED <<granted, unrecorded>> BY DEF SweepCaps, tableVars
<1>2. CASE UNCHANGED given /\ sweep' = PassedOn(u, i, Nobody)
  <2>1. SweepSound' BY <1>1, <1>2, PassedOnSound DEF Gifts
  <2>2. sweep'.asked = sweep.asked BY <1>1, <1>2 DEF PassedOn, Turn
  <2>3. QED BY <1>1, <1>2, <2>1, <2>2 DEF Gifts, GiftsAreRecorded
<1>3. CASE ~Again(u) /\ given' = Bump(given, u) /\ sweep' = PassedOn(u, i, u)
  <2>1. u \notin granted BY <1>1, <1>3 DEF Turn, Again, Gifts, SweepSound
  <2>2. /\ sweep'.on /\ sweep'.asked = u /\ sweep'.already = sweep.already
        /\ sweep'.left = sweep.left \ {<<u, i>>}
    BY <1>3 DEF PassedOn
  <2>3. \A p \in sweep'.left : p[1] # u
    BY <1>1, <2>2 DEF Turn, Gifts, SweepSound
  <2>4. SweepSound' BY <1>1, <2>1, <2>2, <2>3 DEF Gifts, SweepSound
  <2>5. GiftsAreRecorded'
    <3> SUFFICES ASSUME NEW v \in User
                 PROVE given'[v] = Is(granted', v) + Is({sweep'.asked}, v) + unrecorded'[v]
      BY DEF GiftsAreRecorded
    <3>1. given[v] = Is(granted, v) + Is({Nobody}, v) + unrecorded[v]
      BY <1>1 DEF Gifts, GiftsAreRecorded, Turn
    <3>2. given[v] \in Nat /\ unrecorded[v] \in Nat /\ v # Nobody /\ given'[v] = IF v = u THEN given[v] + 1 ELSE given[v]
      BY <1>3, CaimexAssumption DEF TypeOK, Bump
    <3>3. QED BY <1>1, <2>2, <3>1, <3>2 DEF Is
  <2>6. QED BY <2>4, <2>5 DEF Gifts
<1>4. QED BY <1>2, <1>3 DEF SweepCaps, Capped

LEMMA MissesGifts ==
  ASSUME TypeOK, Gifts, NEW u \in User, NEW i \in 1..MaxJoins, SweepMisses(u, i)
  PROVE  Gifts'
<1>1. Turn(u, i) /\ UNCHANGED granted /\ sweep' = PassedOn(u, i, Nobody)
  BY DEF SweepMisses, tableVars
<1>2. SweepSound' BY <1>1, PassedOnSound DEF Gifts
<1>3. sweep'.asked = sweep.asked BY <1>1 DEF PassedOn, Turn
<1>4. CASE UNCHANGED <<given, unrecorded>>
  BY <1>1, <1>2, <1>3, <1>4 DEF Gifts, GiftsAreRecorded
<1>5. CASE given' = Bump(given, u) /\ unrecorded' = Bump(unrecorded, u)
  BY <1>1, <1>2, <1>3, <1>5 DEF Gifts, GiftsAreRecorded, Bump, TypeOK, Is
<1>6. QED BY <1>4, <1>5 DEF SweepMisses, Capped

LEMMA RecordsGifts == TypeOK /\ Gifts /\ SweepRecords => Gifts'
<1> SUFFICES ASSUME TypeOK, Gifts, SweepRecords PROVE Gifts'
  OBVIOUS
<1>1. /\ sweep'.on = sweep.on /\ sweep'.left = sweep.left /\ sweep'.already = sweep.already
      /\ sweep'.asked = Nobody
  BY DEF SweepRecords, TypeOK, Sweep
<1>2. /\ granted' = granted \cup {sweep.asked} /\ sweep.asked \notin granted
      /\ UNCHANGED <<given, unrecorded>>
  BY DEF SweepRecords, Gifts, SweepSound, history
<1>3. \A p \in sweep.left : p[1] # Nobody BY CaimexAssumption DEF TypeOK, Sweep
<1>4. SweepSound' BY <1>1, <1>2, <1>3 DEF Gifts, SweepSound
<1>5. GiftsAreRecorded'
  BY <1>1, <1>2, CaimexAssumption DEF Gifts, GiftsAreRecorded, Is, TypeOK
<1>6. QED BY <1>4, <1>5 DEF Gifts

LEMMA RestGifts ==
  ASSUME TypeOK, Gifts, sweep' = Resting, Forgotten, UNCHANGED <<granted, given>>
  PROVE  Gifts'
<1>1. sweep'.asked = Nobody BY DEF Resting
<1>2. GiftsAreRecorded'
  <2>1. CASE sweep.asked = Nobody
    BY <1>1, <2>1 DEF Forgotten, Gifts, GiftsAreRecorded
  <2>2. CASE sweep.asked # Nobody
    BY <1>1, <2>2, CaimexAssumption DEF Forgotten, Gifts, GiftsAreRecorded, Bump, Is, TypeOK, Sweep
  <2>3. QED BY <2>1, <2>2
<1>3. QED BY <1>2, RestingSound DEF Gifts

LEMMA NextGifts == TypeOK /\ Gifts /\ [Next]_vars => Gifts'
<1> SUFFICES ASSUME TypeOK, Gifts, [Next]_vars PROVE Gifts'
  OBVIOUS
<1>1. CASE UNCHANGED <<granted, sweep, given, unrecorded>>
  BY <1>1 DEF Gifts, GiftsAreRecorded, SweepSound
<1>2. ASSUME NEW u \in User, CaimexMoves(u) \/ SignInStep(u) PROVE Gifts'
  <2>1. UNCHANGED <<granted, sweep, given, unrecorded>>
    BY <1>2 DEF CaimexMoves, SignInStep, SignIn, InviteAnswers, InviteFails, RegisterReaches,
         RegisterAnswers, RegisterFails, LoginAnswers, LoginFails, TokenExpires,
         tableVars, history
  <2>2. QED BY <1>1, <2>1
<1>3. CASE SweepLists
  <2>1. /\ sweep.asked = Nobody /\ sweep'.asked = Nobody /\ sweep'.already = granted
        /\ sweep'.left = {<<u, member[u]>> : u \in {v \in User : Uncapped(v)}}
        /\ UNCHANGED <<granted, given, unrecorded>>
    BY <1>3 DEF SweepLists, Gifts, SweepSound, tableVars, history
  <2>2. SweepSound' BY <2>1, CaimexAssumption DEF SweepSound
  <2>3. QED BY <2>1, <2>2 DEF Gifts, GiftsAreRecorded
<1>4. CASE SweepEnds
  <2>1. sweep.asked = Nobody /\ sweep' = Resting /\ UNCHANGED <<granted, given, unrecorded>>
    BY <1>4 DEF SweepEnds, tableVars, history
  <2>2. QED BY <2>1, RestGifts DEF Forgotten
<1>5. CASE RecordFails \/ HubRestarts
  BY <1>5, RestGifts DEF RecordFails, HubRestarts, tableVars
<1>6. CASE ServiceRefused \/ ServiceRetries
  BY <1>1, <1>6 DEF ServiceRefused, ServiceRetries, tableVars, history
<1>7. CASE UNCHANGED vars BY <1>1, <1>7 DEF vars, tableVars, history
<1>8. QED BY <1>2, <1>3, <1>4, <1>5, <1>6, <1>7, CapsGifts, MissesGifts, RecordsGifts
        DEF Next, SweepWorks

\* Nobody is given the allowance again unless a fault kept an earlier one off
\* the record.
THEOREM AllowanceOnce == Spec => []OnceUnlessLost
<1>1. TypeOK /\ Gifts => OnceUnlessLost
  <2> SUFFICES ASSUME TypeOK, Gifts, NEW u \in User PROVE given[u] <= 1 + unrecorded[u]
    BY DEF OnceUnlessLost
  <2>1. given[u] = Is(granted, u) + Is({sweep.asked}, u) + unrecorded[u] /\ unrecorded[u] \in Nat
    BY DEF Gifts, GiftsAreRecorded, TypeOK
  <2>2. ~(u \in granted /\ u = sweep.asked)
    BY CaimexAssumption DEF Gifts, SweepSound
  <2>3. QED BY <2>1, <2>2 DEF Is
<1>2. QED BY <1>1, InitTyped, NextTyped, InitGifts, NextGifts, PTL DEF Spec

(***************************************************************************)
(* Signing in. Both promises rest on what the row and the running task say  *)
(* about the account at Caimex.                                            *)
(***************************************************************************)

\* A row or a task that says so belongs to an account that exists.
AccountsExist ==
  \A u \in User :
    status[u] \in Linked \/ member[u] # 0 \/ task[u] = "registered" => account[u] # "none"

\* auto_login is off only for a linked account that refused a password, and a
\* password is tried only while it is on.
TriesAreRemembered ==
  \A u \in User :
    /\ knocks[u] <= faults + Is(User \ auto, u)
    /\ u \notin auto => status[u] \in Linked
    /\ task[u] \in {"invite", "register", "registered"} => status[u] \notin Linked
    /\ task[u] = "login" => status[u] \in Linked /\ u \in auto

SignInSound == AccountsExist /\ TriesAreRemembered

LEMMA InitSignInSound == Init => SignInSound
BY DEF Init, SignInSound, AccountsExist, TriesAreRemembered, Linked, Is

LEMMA SignInKeepsAccounts ==
  ASSUME TypeOK, SignInSound, NEW u \in User, SignInStep(u) PROVE AccountsExist'
<1> USE DEF TypeOK, SignInSound, AccountsExist, TriesAreRemembered, Goes, Ends, SetStatus,
            GoesToLogin, Linked, caimexVars, tableVars, history, bounds
<1>1. CASE SignIn(u) BY <1>1 DEF SignIn
<1>2. CASE InviteAnswers(u) BY <1>2 DEF InviteAnswers
<1>3. CASE InviteFails(u) BY <1>3 DEF InviteFails
<1>4. CASE RegisterReaches(u) BY <1>4, CaimexAssumption DEF RegisterReaches, Join
<1>5. CASE RegisterAnswers(u) BY <1>5 DEF RegisterAnswers
<1>6. CASE RegisterFails(u) BY <1>6 DEF RegisterFails
<1>7. CASE LoginAnswers(u) BY <1>7 DEF LoginAnswers
<1>8. CASE LoginFails(u) BY <1>8 DEF LoginFails
<1>9. CASE TokenExpires(u) BY <1>9 DEF TokenExpires
<1>10. QED BY <1>1, <1>2, <1>3, <1>4, <1>5, <1>6, <1>7, <1>8, <1>9 DEF SignInStep

LEMMA SignInKeepsTries ==
  ASSUME TypeOK, SignInSound, NEW u \in User, SignInStep(u) PROVE TriesAreRemembered'
<1> USE CaimexAssumption DEF TypeOK, SignInSound, TriesAreRemembered, Goes, Ends, SetStatus,
            GoesToLogin, Linked, caimexVars, tableVars, history, bounds, Is, Fails, Bump
<1>1. CASE SignIn(u) BY <1>1 DEF SignIn
<1>2. CASE InviteAnswers(u) BY <1>2 DEF InviteAnswers
<1>3. CASE InviteFails(u) BY <1>3 DEF InviteFails
<1>4. CASE RegisterReaches(u) BY <1>4 DEF RegisterReaches
<1>5. CASE RegisterAnswers(u) BY <1>5 DEF RegisterAnswers
<1>6. CASE RegisterFails(u) BY <1>6 DEF RegisterFails
<1>7. CASE LoginAnswers(u) BY <1>7 DEF LoginAnswers
<1>8. CASE LoginFails(u) BY <1>8 DEF LoginFails
<1>9. CASE TokenExpires(u) BY <1>9 DEF TokenExpires
<1>10. QED BY <1>1, <1>2, <1>3, <1>4, <1>5, <1>6, <1>7, <1>8, <1>9 DEF SignInStep

LEMMA CaimexKeepsSignIn ==
  ASSUME TypeOK, SignInSound, NEW u \in User, CaimexMoves(u) PROVE SignInSound'
<1>1. AccountsExist'
  BY CaimexAssumption DEF TypeOK, SignInSound, AccountsExist, CaimexMoves, Join, Leave, tableVars
<1>2. TriesAreRemembered'
  BY DEF SignInSound, TriesAreRemembered, CaimexMoves, tableVars, history
<1>3. QED BY <1>1, <1>2 DEF SignInSound

\* The pass over the members leaves accounts, rows and tasks alone.
LEMMA SweepKeepsSignIn ==
  ASSUME TypeOK, SignInSound, UNCHANGED <<account, member, status, auto, task, knocks>>,
         faults' = faults \/ Fails
  PROVE  SignInSound'
<1>1. faults' >= faults /\ faults' \in Int /\ faults \in Int
  BY CaimexAssumption DEF TypeOK, Fails
<1>2. AccountsExist' BY DEF SignInSound, AccountsExist
<1>3. \A u \in User : knocks[u] \in Nat /\ Is(User \ auto, u) \in Nat
  BY DEF TypeOK, Is
<1>4. TriesAreRemembered' BY <1>1, <1>3 DEF SignInSound, TriesAreRemembered
<1>5. QED BY <1>2, <1>4 DEF SignInSound

LEMMA RestartKeepsSignIn ==
  ASSUME TypeOK, SignInSound, HubRestarts PROVE SignInSound'
<1>1. AccountsExist'
  BY DEF HubRestarts, SignInSound, AccountsExist, caimexVars, tableVars
<1>2. TriesAreRemembered'
  BY CaimexAssumption DEF HubRestarts, SignInSound, TriesAreRemembered, tableVars, Fails, TypeOK, Is
<1>3. QED BY <1>1, <1>2 DEF SignInSound

LEMMA NextSignInSound == TypeOK /\ SignInSound /\ [Next]_vars => SignInSound'
<1> SUFFICES ASSUME TypeOK, SignInSound, [Next]_vars PROVE SignInSound'
  OBVIOUS
<1>1. ASSUME NEW u \in User, SignInStep(u) PROVE SignInSound'
  BY <1>1, SignInKeepsAccounts, SignInKeepsTries DEF SignInSound
<1>2. CASE SweepLists \/ SweepRecords \/ SweepEnds
  BY <1>2, SweepKeepsSignIn
     DEF SweepLists, SweepRecords, SweepEnds, caimexVars, tableVars, history, bounds
<1>3. ASSUME NEW u \in User, NEW i \in 1..MaxJoins, SweepCaps(u, i) \/ SweepMisses(u, i)
      PROVE  SignInSound'
  BY <1>3, SweepKeepsSignIn DEF SweepCaps, SweepMisses, Capped, caimexVars, tableVars, bounds
<1>4. CASE RecordFails \/ ServiceRefused \/ ServiceRetries
  BY <1>4, SweepKeepsSignIn
     DEF RecordFails, ServiceRefused, ServiceRetries, caimexVars, tableVars, history, bounds
<1>5. CASE UNCHANGED vars
  BY <1>5, SweepKeepsSignIn DEF vars, caimexVars, tableVars, history, bounds
<1>6. QED BY <1>1, <1>2, <1>3, <1>4, <1>5, CaimexKeepsSignIn, RestartKeepsSignIn
        DEF Next, SweepWorks

\* A second refused password needs a fault that kept an earlier refusal from
\* being remembered.
THEOREM KnockingEnds == Spec => []KnocksOnce
<1>1. TypeOK /\ SignInSound => KnocksOnce
  BY CaimexAssumption DEF TypeOK, SignInSound, TriesAreRemembered, KnocksOnce, Is
<1>2. QED BY <1>1, InitTyped, NextTyped, InitSignInSound, NextSignInSound, PTL DEF Spec

\* Whoever is offered a sign-in has an account at Caimex.
THEOREM OffersAreUseful == Spec => []OfferNeedsAccount
<1>1. SignInSound => OfferNeedsAccount
  BY DEF SignInSound, AccountsExist, OfferNeedsAccount, OffersSignIn
<1>2. QED BY <1>1, InitTyped, NextTyped, InitSignInSound, NextSignInSound, PTL DEF Spec
=============================================================================
