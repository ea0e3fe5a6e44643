---------------------------- MODULE SignInProofs ----------------------------
(* Theorems about two-factor sign-in and password reset, for any number of     *)
(* users, links, tickets and requests in flight.                              *)
EXTENDS SignIn, TLAPS

(***************************************************************************)
(* Types. A code that fits is not spent, so no count passes its limit.      *)
(***************************************************************************)

AccountTyped ==
  /\ approved \subseteq User /\ password \in [User -> Nat] /\ on \subseteq User
  /\ secret \in [User -> 0..MaxSecret] /\ devices \in [User -> SUBSET Nat]
  /\ proven \in [User -> 0..MaxSecret]
CodesTyped ==
  /\ lastUsed \in [User -> Nat] /\ failed \in [User -> 0..Allowed]
  /\ accepted \subseteq User \X (0..MaxSecret) \X Nat /\ replayed \in BOOLEAN
  /\ step \in Nat /\ moves \in Nat /\ faults \in Nat
TicketsTyped ==
  /\ waiting \in [Ticket -> Waiting \cup {Nothing}]
  /\ \A t \in Ticket : waiting[t] # Nothing => waiting[t].tries < SignInTries
PostsTyped ==
  /\ post \in [Post -> PostState]
  /\ \A p \in Post : post[p].at # "idle" => post[p].user \in User
  /\ \A p \in Post : post[p].at = "login" => post[p].ticket \in Ticket
LinksTyped ==
  /\ link \in [Link -> LinkRow \cup {Nothing}]
  /\ \A l \in Link : link[l] # Nothing /\ ~link[l].spent => link[l].bad < LinkTries
ResetsTyped ==
  asked \in [User -> 0..PerHour] /\ lastReset \in [User -> Nat] /\ late \in [User -> SUBSET Nat]

AllTyped ==
  /\ AccountTyped /\ CodesTyped /\ TicketsTyped /\ PostsTyped /\ LinksTyped /\ ResetsTyped

LEMMA AllTypedIsTypeOK == AllTyped => TypeOK
BY DEF AllTyped, AccountTyped, CodesTyped, TicketsTyped, PostsTyped, LinksTyped, ResetsTyped,
       TypeOK

LEMMA InitTyped == Init => AllTyped
<1> SUFFICES ASSUME Init PROVE AllTyped
  OBVIOUS
<1>1. AccountTyped BY SignInAssumption DEF Init, AccountTyped
<1>4. CodesTyped
  <2>1. lastUsed \in [User -> Nat] /\ failed \in [User -> 0..Allowed]
    BY SignInAssumption DEF Init
  <2>2. accepted \subseteq User \X (0..MaxSecret) \X Nat /\ replayed \in BOOLEAN
    BY Zenon DEF Init
  <2>3. step \in Nat /\ moves \in Nat /\ faults \in Nat BY DEF Init
  <2>4. QED BY <2>1, <2>2, <2>3 DEF CodesTyped
<1>5. ResetsTyped BY SignInAssumption DEF Init, ResetsTyped
<1>2. TicketsTyped /\ LinksTyped BY DEF Init, TicketsTyped, LinksTyped
<1>3. PostsTyped BY DEF Init, PostsTyped, PostState, IdlePost
<1>6. QED BY <1>1, <1>2, <1>3, <1>4, <1>5 DEF AllTyped

\* A code that fits is a step of the clock, and is written down as one.
LEMMA AcceptsTyped ==
  ASSUME AllTyped, NEW u \in User, NEW c, Verifies(u, c), Accepts(u, c)
  PROVE  /\ c \in Nat
         /\ lastUsed' \in [User -> Nat]
         /\ accepted' \subseteq User \X (0..MaxSecret) \X Nat /\ replayed' \in BOOLEAN
<1>1. c \in Nat
  BY DEF Verifies, AllTyped, CodesTyped
<1>2. secret[u] \in 0..MaxSecret BY DEF AllTyped, AccountTyped
<1>3. lastUsed' \in [User -> Nat] BY <1>1 DEF Accepts, AllTyped, CodesTyped
<1>4. accepted' \subseteq User \X (0..MaxSecret) \X Nat
  BY <1>1, <1>2 DEF Accepts, AllTyped, CodesTyped
<1>5. replayed' \in BOOLEAN BY DEF Accepts, AllTyped, CodesTyped
<1>6. QED BY <1>1, <1>3, <1>4, <1>5

LEMMA NewSecretTyped ==
  ASSUME AllTyped, NEW u \in User, NewSecret(u) PROVE secret' \in [User -> 0..MaxSecret]
BY SignInAssumption DEF NewSecret, AllTyped, AccountTyped

LEMMA GoodTyped ==
  ASSUME AllTyped, NEW u \in User, Good(u) PROVE failed' \in [User -> 0..Allowed]
BY SignInAssumption DEF Good, AllTyped, CodesTyped

LEMMA BadTyped ==
  ASSUME AllTyped, NEW u \in User, ~Blocked(u), Bad(u) PROVE failed' \in [User -> 0..Allowed]
BY SignInAssumption DEF Bad, Blocked, AllTyped, CodesTyped

LEMMA AuthenticateTyped ==
  ASSUME AllTyped, NEW u \in User, NEW v, NEW c, ~Blocked(u), Authenticate(u, v, c),
         UNCHANGED <<step, moves, faults>>
  PROVE  AccountTyped' /\ CodesTyped'
<1>1. /\ lastUsed' \in [User -> Nat]
      /\ accepted' \subseteq User \X (0..MaxSecret) \X Nat /\ replayed' \in BOOLEAN
  BY AcceptsTyped DEF Authenticate, Rejects, AllTyped, CodesTyped
<1>2. failed' \in [User -> 0..Allowed] BY GoodTyped, BadTyped DEF Authenticate
<1>3. QED BY <1>1, <1>2 DEF Authenticate, account, AllTyped, AccountTyped, CodesTyped

\* A spent row keeps its user and its wrong codes.
LEMMA RowSpent ==
  ASSUME NEW r \in LinkRow
  PROVE  /\ [r EXCEPT !.spent = TRUE] \in LinkRow
         /\ [r EXCEPT !.spent = TRUE].spent = TRUE
         /\ [r EXCEPT !.spent = TRUE].user = r.user
BY DEF LinkRow

LEMMA SpendAllTyped ==
  ASSUME AllTyped, NEW u \in User
  PROVE  /\ SpendAll(u, link) \in [Link -> LinkRow \cup {Nothing}]
         /\ \A l \in Link : SpendAll(u, link)[l] # Nothing
              => /\ link[l] # Nothing /\ SpendAll(u, link)[l].user = link[l].user
                 /\ ~SpendAll(u, link)[l].spent
                      => SpendAll(u, link)[l] = link[l] /\ link[l].user # u
<1>1. ASSUME NEW l \in Link, l \in Unspent(u)
      PROVE  /\ SpendAll(u, link)[l] \in LinkRow
             /\ SpendAll(u, link)[l].spent
             /\ link[l] # Nothing /\ SpendAll(u, link)[l].user = link[l].user
  <2>1. link[l] \in LinkRow BY <1>1 DEF Unspent, AllTyped, LinksTyped
  <2>2. SpendAll(u, link)[l] = [link[l] EXCEPT !.spent = TRUE] BY <1>1 DEF SpendAll
  <2>3. QED BY <1>1, <2>1, <2>2, RowSpent DEF Unspent
<1>2. ASSUME NEW l \in Link, l \notin Unspent(u)
      PROVE  SpendAll(u, link)[l] = link[l]
  BY <1>2 DEF SpendAll
<1>3. \A l \in Link : SpendAll(u, link)[l] \in LinkRow \cup {Nothing}
  BY <1>1, <1>2 DEF AllTyped, LinksTyped
<1>4. SpendAll(u, link) \in [Link -> LinkRow \cup {Nothing}]
  BY <1>3 DEF SpendAll
<1>5. QED BY <1>1, <1>2, <1>4 DEF Unspent

(***************************************************************************)
(* Steps.                                                                  *)
(***************************************************************************)

LEMMA LoginTyped ==
  ASSUME AllTyped, NEW u \in User, SigningIn(u) PROVE AllTyped'
<1>1. ASSUME NEW t \in Ticket, LoginNeedsCode(u, t) PROVE AllTyped'
  <2>1. \A s \in Ticket : Others(u, t)[s] \in Waiting \cup {Nothing}
                          /\ (Others(u, t)[s] # Nothing => Others(u, t)[s].tries < SignInTries)
    <3> SUFFICES ASSUME NEW s \in Ticket
                 PROVE  Others(u, t)[s] \in Waiting \cup {Nothing}
                        /\ (Others(u, t)[s] # Nothing => Others(u, t)[s].tries < SignInTries)
      OBVIOUS
    <3>1. Others(u, t)[s] \in {[user |-> u, password |-> password[u], tries |-> 0], Nothing, waiting[s]}
      BY DEF Others
    <3>2. [user |-> u, password |-> password[u], tries |-> 0] \in Waiting
      BY SignInAssumption DEF Waiting, AllTyped, AccountTyped
    <3>3. QED BY <3>1, <3>2, SignInAssumption DEF AllTyped, TicketsTyped
  <2>2. TicketsTyped' BY <1>1, <2>1 DEF LoginNeedsCode, TicketsTyped, Others
  <2>3. QED BY <1>1, <2>2 DEF LoginNeedsCode, AllTyped, AccountTyped, CodesTyped, PostsTyped,
              LinksTyped, ResetsTyped, account, codes, resets
<1>2. ASSUME NEW p \in Post, NEW v \in Known(u), NEW c \in Typed, Login(p, u, v, c) PROVE AllTyped'
  <2>1. v \in Nat BY DEF Known, AllTyped, AccountTyped
  <2>2. AccountTyped' /\ CodesTyped' BY <1>2, AuthenticateTyped DEF Login
  <2>3. PostsTyped'
    <3>1. PICK r : r = [at |-> "right", ticket |-> Nothing, user |-> u, password |-> v]
      OBVIOUS
    <3>2. r \in PostState /\ r.at = "right" /\ r.user = u BY <2>1, <3>1 DEF PostState
    <3>3. post' = [post EXCEPT ![p] = r] \/ post' = post BY <1>2, <3>1 DEF Login
    <3>4. QED BY <3>2, <3>3 DEF AllTyped, PostsTyped
  <2>4. QED BY <1>2, <2>2, <2>3 DEF Login, AllTyped, TicketsTyped, LinksTyped, ResetsTyped, resets
<1>3. QED BY <1>1, <1>2 DEF SigningIn

LEMMA SettingsTyped ==
  ASSUME AllTyped, NEW u \in User, Settings(u) PROVE AllTyped'
<1> USE DEF AllTyped, TicketsTyped, PostsTyped, LinksTyped, ResetsTyped, resets, codes
<1>1. CASE Start(u)
  BY <1>1, NewSecretTyped DEF Start, AccountTyped, CodesTyped
<1>2. CASE AdminResets(u)
  BY <1>2, NewSecretTyped DEF AdminResets, AccountTyped, CodesTyped
<1>3. ASSUME NEW c \in Counter, Enable(u, c) PROVE AllTyped'
  <2>1. AccountTyped' BY <1>3 DEF Enable, AccountTyped
  <2>2. CodesTyped' BY <1>3, AcceptsTyped DEF Enable, CodesTyped
  <2>3. QED BY <1>3, <2>1, <2>2 DEF Enable
<1>4. ASSUME NEW v \in Known(u), NEW c \in Typed, Disable(u, v, c) PROVE AllTyped'
  <2>1. AccountTyped' BY <1>4, NewSecretTyped DEF Disable, AccountTyped
  <2>2. CodesTyped' BY <1>4, AcceptsTyped, GoodTyped, BadTyped DEF Disable, Rejects, CodesTyped
  <2>3. QED BY <1>4, <2>1, <2>2 DEF Disable
<1>5. QED BY <1>1, <1>2, <1>3, <1>4 DEF Settings

\* A sign-in that was judged right ends with its cookie.
LEMMA CookieTyped ==
  ASSUME AllTyped, NEW p \in Post, post[p].at # "idle", post' = [post EXCEPT ![p] = IdlePost],
         \/ devices' = devices
         \/ devices' = [devices EXCEPT ![post[p].user] = @ \cup {post[p].password}],
         UNCHANGED <<approved, password, on, secret, proven>>
  PROVE  AccountTyped' /\ PostsTyped'
<1>1. post[p].user \in User /\ post[p].password \in Nat BY DEF AllTyped, PostsTyped, PostState
<1>2. AccountTyped' BY <1>1 DEF AllTyped, AccountTyped
<1>3. IdlePost \in PostState /\ IdlePost.at = "idle" BY DEF IdlePost, PostState
<1>4. QED BY <1>2, <1>3 DEF AllTyped, PostsTyped

LEMMA CodesStepTyped ==
  ASSUME AllTyped, Codes PROVE AllTyped'
<1>1. ASSUME NEW p \in Post, NEW t \in Ticket, CodeArrives(p, t) PROVE AllTyped'
  <2>1. waiting[t] \in Waiting BY <1>1 DEF CodeArrives, AllTyped, TicketsTyped
  <2>2. PICK r : r = [at |-> "login", ticket |-> t, user |-> waiting[t].user,
                      password |-> waiting[t].password]
    OBVIOUS
  <2>3. r \in PostState /\ r.user \in User /\ r.ticket \in Ticket
    BY <2>1, <2>2 DEF Waiting, PostState
  <2>4. post' = [post EXCEPT ![p] = r] BY <1>1, <2>2 DEF CodeArrives
  <2>5. PostsTyped' BY <2>3, <2>4 DEF AllTyped, PostsTyped
  <2>6. QED BY <1>1, <2>5 DEF CodeArrives, AllTyped, AccountTyped, CodesTyped, TicketsTyped,
              LinksTyped, ResetsTyped, account, codes, resets
<1>2. ASSUME NEW p \in Post, NEW c \in Typed, CodeJudged(p, c) PROVE AllTyped'
  <2>1. post[p].user \in User /\ post[p].password \in Nat
    BY <1>2 DEF CodeJudged, AllTyped, PostsTyped, PostState
  <2>2. PostsTyped'
    <3>1. PICK where \in {"right", "wrong"} : post' = [post EXCEPT ![p].at = where]
      BY <1>2 DEF CodeJudged
    <3>2. post[p] \in PostState BY DEF AllTyped, PostsTyped
    <3>3. [post[p] EXCEPT !.at = where] \in PostState BY <3>2 DEF PostState
    <3>4. QED BY <1>2, <3>1, <3>2, <3>3 DEF CodeJudged, AllTyped, PostsTyped, PostState
  <2>3. AccountTyped' /\ CodesTyped'
    <3>1. CASE Blocked(post[p].user)
      BY <1>2, <3>1 DEF CodeJudged, AllTyped, AccountTyped, CodesTyped, account, codes
    <3>2. CASE ~Blocked(post[p].user)
      BY <1>2, <2>1, <3>2, AuthenticateTyped DEF CodeJudged
    <3>3. QED BY <3>1, <3>2
  <2>4. QED BY <1>2, <2>2, <2>3 DEF CodeJudged, AllTyped, TicketsTyped, LinksTyped, ResetsTyped, resets
<1>3. ASSUME NEW p \in Post, CodeAnswered(p) PROVE AllTyped'
  <2>1. AccountTyped' /\ PostsTyped' BY <1>3, CookieTyped DEF CodeAnswered
  <2>2. TicketsTyped'
    <3> DEFINE t == post[p].ticket
    <3>1. CASE UNCHANGED waiting BY <3>1 DEF AllTyped, TicketsTyped
    <3>2. CASE waiting' = [waiting EXCEPT ![t] = Nothing]
      BY <3>2 DEF AllTyped, TicketsTyped
    <3>3. CASE /\ waiting[t] # Nothing /\ waiting[t].tries + 1 < SignInTries
               /\ waiting' = [waiting EXCEPT ![t].tries = @ + 1]
      <4>1. t \in Ticket BY <1>3 DEF CodeAnswered, AllTyped, PostsTyped, PostState
      <4>2. waiting[t] \in Waiting BY <3>3, <4>1 DEF AllTyped, TicketsTyped
      <4>3. /\ [waiting[t] EXCEPT !.tries = @ + 1] \in Waiting
            /\ [waiting[t] EXCEPT !.tries = @ + 1].tries < SignInTries
        BY <3>3, <4>2, SignInAssumption DEF Waiting
      <4>4. QED BY <3>3, <4>1, <4>3 DEF AllTyped, TicketsTyped
    <3>4. t \in Ticket /\ (waiting[t] # Nothing => waiting[t].tries \in Nat)
      BY <1>3 DEF CodeAnswered, AllTyped, PostsTyped, PostState, TicketsTyped, Waiting
    <3>5. SignInTries \in Nat BY SignInAssumption
    <3>6. QED BY <1>3, <3>1, <3>2, <3>3, <3>4, <3>5 DEF CodeAnswered
  <2>3. QED BY <1>3, <2>1, <2>2 DEF CodeAnswered, AllTyped, CodesTyped,
              LinksTyped, ResetsTyped, codes, resets
<1>4. ASSUME NEW t \in Ticket, TicketEnds(t) PROVE AllTyped'
  <2>1. TicketsTyped' BY <1>4 DEF TicketEnds, AllTyped, TicketsTyped
  <2>2. QED BY <1>4, <2>1 DEF TicketEnds, AllTyped, AccountTyped, CodesTyped, PostsTyped,
              LinksTyped, ResetsTyped, account, codes, resets
<1>5. ASSUME NEW p \in Post, LoginDone(p) PROVE AllTyped'
  <2>1. AccountTyped' /\ PostsTyped' BY <1>5, CookieTyped DEF LoginDone
  <2>2. QED BY <1>5, <2>1 DEF LoginDone, AllTyped, CodesTyped, TicketsTyped, LinksTyped,
              ResetsTyped, codes, resets
<1>6. QED BY <1>1, <1>2, <1>3, <1>4, <1>5 DEF Codes

\* A wrong code leaves the link its user, and spends it when it was the last.
LEMMA MissedTyped ==
  ASSUME AllTyped, NEW l \in Link, NEW c, CodeMissed(l, c)
  PROVE  \E row \in LinkRow :
           /\ link' = [link EXCEPT ![l] = row]
           /\ row.user = link[l].user /\ (~row.spent => row.bad < LinkTries)
<1>1. link[l] \in LinkRow /\ link[l].bad < LinkTries
  BY DEF CodeMissed, Works, AllTyped, LinksTyped
<1>2. link[l].bad + 1 \in 0..LinkTries /\ link[l].user \in User
  BY <1>1, SignInAssumption DEF LinkRow
<1>3. PICK row : row = Missed(link[l].user, link[l].bad + 1)
  OBVIOUS
<1>4. PICK spent \in BOOLEAN : spent = ~(link[l].bad + 1 < LinkTries)
  BY Zenon
<1>5. row = [user |-> link[l].user, spent |-> spent, bad |-> link[l].bad + 1]
  BY <1>3, <1>4, Zenon DEF Missed
<1>6. row \in LinkRow BY <1>2, <1>5, Zenon DEF LinkRow
<1>7. row.user = link[l].user /\ row.spent = spent /\ row.bad = link[l].bad + 1
  BY <1>5, Zenon
<1>8. ~row.spent => row.bad < LinkTries BY <1>4, <1>7, Zenon
<1>9. link' = [link EXCEPT ![l] = row] BY <1>3 DEF CodeMissed
<1>10. QED BY <1>6, <1>7, <1>8, <1>9

LEMMA LinksStepTyped ==
  ASSUME AllTyped, Resetting PROVE AllTyped'
<1> USE DEF TicketsTyped, PostsTyped
<1>1. ASSUME NEW u \in User, NEW l \in Link, Request(u, l) PROVE AllTyped'
  <2>1. LinksTyped'
    <3>1. NewLink(u) \in LinkRow /\ NewLink(u).bad < LinkTries
      BY SignInAssumption DEF NewLink, LinkRow
    <3>2. CASE UNCHANGED link BY <3>2 DEF AllTyped, LinksTyped
    <3>3. CASE link' = [SpendAll(u, link) EXCEPT ![l] = NewLink(u)]
      BY <3>1, <3>3, SpendAllTyped DEF AllTyped, LinksTyped
    <3>4. QED BY <1>1, <3>2, <3>3 DEF Request
  <2>2. ResetsTyped' BY <1>1, SignInAssumption DEF Request, AllTyped, ResetsTyped
  <2>3. QED BY <1>1, <2>1, <2>2 DEF Request, AllTyped, AccountTyped, CodesTyped, account, codes
<1>2. ASSUME NEW u \in User, HourPasses(u) PROVE AllTyped'
  BY <1>2, SignInAssumption DEF HourPasses, AllTyped, AccountTyped, CodesTyped, LinksTyped,
       ResetsTyped, account, codes
<1>3. ASSUME NEW l \in Link, LinkExpires(l) PROVE AllTyped'
  <2>1. link[l] \in LinkRow BY <1>3 DEF LinkExpires, AllTyped, LinksTyped
  <2>2. LinksTyped' BY <1>3, <2>1, RowSpent DEF LinkExpires, AllTyped, LinksTyped
  <2>3. QED BY <1>3, <2>2 DEF LinkExpires, AllTyped, AccountTyped, CodesTyped, ResetsTyped,
              account, codes
<1>4. ASSUME NEW l \in Link, NEW c \in Typed, CodeMissed(l, c) PROVE AllTyped'
  <2>2. LinksTyped'
    BY <1>4, MissedTyped DEF AllTyped, LinksTyped
  <2>3. QED BY <1>4, <2>2 DEF CodeMissed, AllTyped, AccountTyped, CodesTyped, ResetsTyped,
              account, codes
<1>5. ASSUME NEW l \in Link, NEW c \in Typed, Complete(l, c) PROVE AllTyped'
  <2> DEFINE u == link[l].user
  <2>1. u \in User BY <1>5 DEF Complete, Works, AllTyped, LinksTyped, LinkRow
  <2>2. LinksTyped' BY <1>5, <2>1, SpendAllTyped DEF Complete, AllTyped, LinksTyped
  <2>3. /\ lastUsed' \in [User -> Nat]
        /\ accepted' \subseteq User \X (0..MaxSecret) \X Nat /\ replayed' \in BOOLEAN
    BY <1>5, <2>1, AcceptsTyped DEF Complete, CodeGiven, Rejects, AllTyped, CodesTyped
  <2>4. failed' \in [User -> 0..Allowed] /\ faults' \in Nat
    BY <1>5, <2>1, GoodTyped DEF Complete, SignsOut, Fails, AllTyped, CodesTyped
  <2>5. AccountTyped' BY <1>5, <2>1 DEF Complete, SignsOut, AllTyped, AccountTyped
  <2>6. ResetsTyped'
    <3>1. InFlight(u) \subseteq Nat BY DEF InFlight, AllTyped, PostsTyped, PostState
    <3>2. password[u] + 1 \in Nat BY <2>1 DEF AllTyped, AccountTyped
    <3>3. QED BY <1>5, <2>1, <3>1, <3>2 DEF Complete, SignsOut, AllTyped, ResetsTyped
  <2>7. QED BY <1>5, <2>2, <2>3, <2>4, <2>5, <2>6 DEF Complete, AllTyped, CodesTyped
<1>6. QED BY <1>1, <1>2, <1>3, <1>4, <1>5 DEF Resetting

LEMMA OthersTyped ==
  ASSUME AllTyped,
         Tick \/ HubRestarts \/ \E u \in User : LockEnds(u) \/ ApprovalMoves(u) \/ PageChanges(u)
  PROVE  AllTyped'
<1> USE DEF AllTyped, TicketsTyped, PostsTyped, LinksTyped, ResetsTyped
<1>1. CASE Tick
  BY <1>1 DEF Tick, AccountTyped, CodesTyped, account, codes, resets
<1>2. CASE HubRestarts
  <2>1. AccountTyped' /\ TicketsTyped' /\ LinksTyped' BY <1>2 DEF HubRestarts, AccountTyped, account
  <2>2. CodesTyped' /\ ResetsTyped'
    BY <1>2, SignInAssumption DEF HubRestarts, Fails, CodesTyped
  <2>3. PostsTyped' BY <1>2 DEF HubRestarts, IdlePost, PostState
  <2>4. QED BY <2>1, <2>2, <2>3
<1>3. ASSUME NEW u \in User, LockEnds(u) PROVE AllTyped'
  BY <1>3, GoodTyped DEF LockEnds, AccountTyped, CodesTyped, account, resets
<1>4. ASSUME NEW u \in User, ApprovalMoves(u) PROVE AllTyped'
  BY <1>4 DEF ApprovalMoves, AccountTyped, CodesTyped, codes, resets
<1>5. ASSUME NEW u \in User, PageChanges(u) PROVE AllTyped'
  BY <1>5 DEF PageChanges, AccountTyped, CodesTyped, codes, resets
<1>6. QED BY <1>1, <1>2, <1>3, <1>4, <1>5

LEMMA NextTyped == AllTyped /\ [Next]_vars => AllTyped'
<1>1. AllTyped /\ UNCHANGED vars => AllTyped'
  BY DEF vars, account, codes, resets, AllTyped, AccountTyped, CodesTyped, TicketsTyped,
       PostsTyped, LinksTyped, ResetsTyped
<1>2. QED BY <1>1, OthersTyped, SettingsTyped, LoginTyped, CodesStepTyped, LinksStepTyped DEF Next

\* Every reachable state is well typed; in particular no ticket and no link
\* outlives the wrong codes it is allowed.
THEOREM TypeCorrect == Spec => []TypeOK
<1>1. QED BY InitTyped, NextTyped, AllTypedIsTypeOK, PTL DEF Spec

(***************************************************************************)
(* Codes. What a step can do to the codes and the secrets, whichever of the *)
(* five places took a code, and why none is then accepted again.            *)
(***************************************************************************)

CodesMove ==
  \/ UNCHANGED <<lastUsed, accepted, replayed, secret>>
  \/ \E u \in User, c \in Typed :
       Verifies(u, c) /\ Accepts(u, c) /\ (UNCHANGED secret \/ NewSecret(u))
  \/ \E u \in User :
       /\ NewSecret(u) /\ UNCHANGED <<accepted, replayed>>
       /\ UNCHANGED lastUsed \/ lastUsed' = [lastUsed EXCEPT ![u] = 0]
  \/ accepted' = {} /\ UNCHANGED <<replayed, secret>>

LEMMA AuthenticateMoves ==
  ASSUME NEW u \in User, NEW v, NEW c \in Typed, Authenticate(u, v, c) PROVE CodesMove
BY DEF Authenticate, Rejects, account, CodesMove

LEMMA NextMovesCodes == ASSUME AllTyped, [Next]_vars PROVE CodesMove
<1>1. ASSUME NEW u \in User, Settings(u) PROVE CodesMove
  <2>1. CASE Start(u) BY <2>1 DEF Start, codes, CodesMove
  <2>2. CASE AdminResets(u) BY <2>2 DEF AdminResets, CodesMove
  <2>3. ASSUME NEW c \in Counter, Enable(u, c) PROVE CodesMove
    BY <2>3 DEF Enable, CodesMove, Typed
  <2>4. ASSUME NEW v \in Known(u), NEW c \in Typed, Disable(u, v, c) PROVE CodesMove
    BY <2>4 DEF Disable, Rejects, CodesMove
  <2>5. QED BY <1>1, <2>1, <2>2, <2>3, <2>4 DEF Settings
<1>2. ASSUME NEW u \in User, SigningIn(u) PROVE CodesMove
  <2>1. ASSUME NEW p \in Post, NEW v \in Known(u), NEW c \in Typed, Login(p, u, v, c)
        PROVE  CodesMove
    BY <2>1, AuthenticateMoves DEF Login
  <2>2. ASSUME NEW t \in Ticket, LoginNeedsCode(u, t) PROVE CodesMove
    BY <2>2 DEF LoginNeedsCode, account, codes, CodesMove
  <2>3. QED BY <1>2, <2>1, <2>2 DEF SigningIn
<1>3. CASE Codes
  <2>1. ASSUME NEW p \in Post, NEW c \in Typed, CodeJudged(p, c) PROVE CodesMove
    <3>1. post[p].user \in User BY <2>1 DEF CodeJudged, AllTyped, PostsTyped
    <3>2. CASE Authenticate(post[p].user, post[p].password, c)
      BY <3>1, <3>2, AuthenticateMoves
    <3>3. CASE UNCHANGED <<account, codes>> BY <3>3 DEF account, codes, CodesMove
    <3>4. QED BY <2>1, <3>2, <3>3 DEF CodeJudged
  <2>2. QED BY <1>3, <2>1
        DEF Codes, LoginDone, CodeArrives, CodeAnswered, TicketEnds, account, codes, CodesMove
<1>4. CASE Resetting
  <2>1. ASSUME NEW l \in Link, NEW c \in Typed, Complete(l, c) PROVE CodesMove
    <3>1. link[l].user \in User
      BY <2>1 DEF Complete, Works, AllTyped, LinksTyped, LinkRow
    <3>2. QED BY <2>1, <3>1 DEF Complete, CodeGiven, Rejects, CodesMove
  <2>2. QED BY <1>4, <2>1
        DEF Resetting, Request, HourPasses, LinkExpires, CodeMissed, account, codes, CodesMove
<1>5. CASE HubRestarts BY <1>5 DEF HubRestarts, account, CodesMove
<1>6. CASE Tick \/ UNCHANGED vars BY <1>6 DEF Tick, vars, account, codes, CodesMove
<1>7. ASSUME NEW u \in User, LockEnds(u) \/ ApprovalMoves(u) \/ PageChanges(u) PROVE CodesMove
  BY <1>7 DEF LockEnds, ApprovalMoves, PageChanges, account, codes, CodesMove
<1>8. QED BY <1>1, <1>2, <1>3, <1>4, <1>5, <1>6, <1>7 DEF Next

\* An accepted code belongs to an old secret, or is not later than the last one.
CodesPast ==
  /\ ~replayed
  /\ \A u \in User, s \in 0..MaxSecret, c \in Nat :
       <<u, s, c>> \in accepted => s <= secret[u] /\ (s = secret[u] => c <= lastUsed[u])

LEMMA CodesStayPast == ASSUME AllTyped, CodesPast, CodesMove PROVE CodesPast'
<1>1. /\ \A u \in User : secret[u] \in Nat /\ lastUsed[u] \in Nat
      /\ secret \in [User -> Nat] /\ lastUsed \in [User -> Nat]
  BY SignInAssumption DEF AllTyped, AccountTyped, CodesTyped
<1>2. ASSUME NEW u \in User, NEW c \in Typed, Verifies(u, c), Accepts(u, c),
             UNCHANGED secret \/ NewSecret(u)
      PROVE  CodesPast'
  <2>1. c \in Nat /\ c > lastUsed[u] BY <1>2, AcceptsTyped DEF Verifies
  <2>2. <<u, secret[u], c>> \notin accepted
    BY <1>1, <2>1 DEF CodesPast, AllTyped, AccountTyped
  <2>3. ~replayed' BY <1>2, <2>2 DEF Accepts, CodesPast
  <2>4. secret' = secret \/ secret' = [secret EXCEPT ![u] = @ + 1] BY <1>2 DEF NewSecret
  <2>5. QED BY <1>1, <1>2, <2>1, <2>3, <2>4, SignInAssumption DEF Accepts, CodesPast
<1>3. ASSUME NEW u \in User, NewSecret(u), UNCHANGED <<accepted, replayed>>,
             UNCHANGED lastUsed \/ lastUsed' = [lastUsed EXCEPT ![u] = 0]
      PROVE  CodesPast'
  BY <1>1, <1>3, SignInAssumption DEF NewSecret, CodesPast
<1>4. QED BY <1>2, <1>3 DEF CodesMove, CodesPast

\* No code is accepted twice.
THEOREM CodesAreUsedOnce == Spec => []CodeOnce
<1>1. Init => CodesPast BY DEF Init, CodesPast
<1>2. AllTyped /\ CodesPast /\ [Next]_vars => CodesPast' BY NextMovesCodes, CodesStayPast
<1>3. CodesPast => CodeOnce BY DEF CodesPast, CodeOnce
<1>4. QED BY <1>1, <1>2, <1>3, InitTyped, NextTyped, PTL DEF Spec

(***************************************************************************)
(* The setting.                                                            *)
(***************************************************************************)

SettingMoves ==
  \/ UNCHANGED <<on, secret, proven>>
  \/ \E u \in User : on' = on \ {u} /\ NewSecret(u) /\ UNCHANGED proven
  \/ \E u \in User : /\ on' = on \cup {u} /\ UNCHANGED secret
                     /\ proven' = [proven EXCEPT ![u] = secret[u]]

LEMMA NextMovesSetting == ASSUME [Next]_vars PROVE SettingMoves
<1>1. ASSUME NEW u \in User, Settings(u) PROVE SettingMoves
  <2>1. CASE Start(u)
    <3>1. on' = on \ {u} BY <2>1 DEF Start
    <3>2. QED BY <2>1, <3>1 DEF Start, SettingMoves
  <2>2. CASE AdminResets(u) BY <2>2 DEF AdminResets, SettingMoves
  <2>3. QED BY <1>1, <2>1, <2>2 DEF Settings, Enable, Disable, SettingMoves
<1>2. ASSUME NEW u \in User, SigningIn(u) PROVE SettingMoves
  BY <1>2 DEF SigningIn, LoginNeedsCode, Login, Authenticate, account, SettingMoves
<1>3. CASE Codes
  BY <1>3 DEF Codes, LoginDone, CodeArrives, CodeJudged, CodeAnswered, TicketEnds, Authenticate,
              account, SettingMoves
<1>4. CASE Resetting
  BY <1>4 DEF Resetting, Request, HourPasses, LinkExpires, CodeMissed, Complete, account,
              SettingMoves
<1>5. QED
  BY <1>1, <1>2, <1>3, <1>4
  DEF Next, Tick, HubRestarts, LockEnds, ApprovalMoves, PageChanges, vars, account, SettingMoves

\* Two-factor is on only with a secret that its user proved to hold.
THEOREM OnWasProven == Spec => []OnIsProven
<1>1. Init => OnIsProven BY DEF Init, OnIsProven
<1>2. AllTyped /\ OnIsProven /\ SettingMoves => OnIsProven'
  BY DEF AllTyped, AccountTyped, OnIsProven, SettingMoves, NewSecret
<1>3. QED BY <1>1, <1>2, NextMovesSetting, InitTyped, NextTyped, PTL DEF Spec

(***************************************************************************)
(* Devices.                                                                *)
(***************************************************************************)

\* A sign-in is judged right by its user's present password.
JudgedNow ==
  \A p \in Post : post'[p].at = "right"
                    => post'[p] = post[p] \/ post'[p].password = password[post'[p].user]

DevicesMove ==
  \/ JudgedNow /\ UNCHANGED <<devices, password, lastReset, late>>
  \/ \E p \in Post : /\ post[p].at = "right"
                     /\ devices' = [devices EXCEPT ![post[p].user] = @ \cup {post[p].password}]
                     /\ post' = [post EXCEPT ![p] = IdlePost]
                     /\ UNCHANGED <<password, lastReset, late>>
  \/ \E u \in User : /\ SignsOut(u)
                     /\ password' = [password EXCEPT ![u] = @ + 1]
                     /\ UNCHANGED post
  \/ \E u \in User : /\ password' = [password EXCEPT ![u] = @ + 1]
                     /\ UNCHANGED <<devices, lastReset, late, post>>

LEMMA CodesMoveDevices == ASSUME AllTyped, Codes PROVE DevicesMove
<1>1. ASSUME NEW p \in Post, NEW c \in Typed, CodeJudged(p, c) PROVE DevicesMove
  <2>1. post[p] \in PostState BY DEF AllTyped, PostsTyped
  <2>2. ASSUME NEW q \in Post, post'[q].at = "right"
        PROVE  post'[q] = post[q] \/ post'[q].password = password[post'[q].user]
    <3>1. CASE q # p BY <1>1, <3>1 DEF CodeJudged, AllTyped, PostsTyped
    <3>2. CASE q = p /\ post' = [post EXCEPT ![p].at = "wrong"]
      BY <2>1, <2>2, <3>2 DEF AllTyped, PostsTyped, PostState
    <3>3. CASE /\ q = p /\ post' = [post EXCEPT ![p].at = "right"]
               /\ SignsIn(post[p].user, post[p].password, c)
      BY <2>1, <3>3 DEF AllTyped, PostsTyped, PostState, SignsIn
    <3>4. QED BY <1>1, <3>1, <3>2, <3>3 DEF CodeJudged
  <2>3. QED BY <1>1, <2>2 DEF CodeJudged, Authenticate, account, resets, JudgedNow, DevicesMove
<1>2. ASSUME NEW p \in Post, NEW t \in Ticket, CodeArrives(p, t) PROVE DevicesMove
  <2>1. ASSUME NEW q \in Post, post'[q].at = "right" PROVE post'[q] = post[q]
    BY <1>2, <2>1 DEF CodeArrives, AllTyped, PostsTyped
  <2>2. QED BY <1>2, <2>1 DEF CodeArrives, account, resets, JudgedNow, DevicesMove
<1>3. ASSUME NEW p \in Post, CodeAnswered(p) PROVE DevicesMove
  <2>1. CASE post[p].at = "right" BY <1>3, <2>1 DEF CodeAnswered, resets, DevicesMove
  <2>2. CASE post[p].at # "right"
    <3>1. ASSUME NEW q \in Post, post'[q].at = "right" PROVE post'[q] = post[q]
      BY <1>3, <3>1 DEF CodeAnswered, IdlePost, AllTyped, PostsTyped
    <3>2. QED BY <1>3, <2>2, <3>1 DEF CodeAnswered, resets, JudgedNow, DevicesMove
  <2>3. QED BY <2>1, <2>2
<1>4. ASSUME NEW p \in Post, LoginDone(p) PROVE DevicesMove
  BY <1>4 DEF LoginDone, resets, DevicesMove
<1>5. ASSUME NEW t \in Ticket, TicketEnds(t) PROVE DevicesMove
  BY <1>5 DEF TicketEnds, account, resets, JudgedNow, DevicesMove
<1>6. QED BY <1>1, <1>2, <1>3, <1>4, <1>5 DEF Codes

LEMMA NextMovesDevices == ASSUME AllTyped, [Next]_vars PROVE DevicesMove
<1>1. ASSUME NEW u \in User, Settings(u) PROVE DevicesMove
  BY <1>1 DEF Settings, Start, Enable, Disable, AdminResets, resets, JudgedNow, DevicesMove
<1>2. ASSUME NEW u \in User, SigningIn(u) PROVE DevicesMove
  <2>1. ASSUME NEW p \in Post, NEW v \in Known(u), NEW c \in Typed, Login(p, u, v, c)
        PROVE  DevicesMove
    <3>1. PICK r : r = [at |-> "right", ticket |-> Nothing, user |-> u, password |-> v]
      OBVIOUS
    <3>2. r.user = u /\ r.password = v BY <3>1
    <3>3. post' = post \/ (v = password[u] /\ post' = [post EXCEPT ![p] = r])
      <4>1. CASE SignsIn(u, v, c) BY <2>1, <3>1, <4>1 DEF Login, SignsIn
      <4>2. CASE ~SignsIn(u, v, c) BY <2>1, <4>2 DEF Login
      <4>3. QED BY <4>1, <4>2
    <3>4. JudgedNow BY <3>2, <3>3 DEF JudgedNow, AllTyped, PostsTyped
    <3>5. QED BY <2>1, <3>4 DEF Login, Authenticate, account, resets, DevicesMove
  <2>2. ASSUME NEW t \in Ticket, LoginNeedsCode(u, t) PROVE DevicesMove
    BY <2>2 DEF LoginNeedsCode, account, resets, JudgedNow, DevicesMove
  <2>3. QED BY <1>2, <2>1, <2>2 DEF SigningIn
<1>3. ASSUME NEW l \in Link, NEW c \in Typed, Complete(l, c) PROVE DevicesMove
  <2>1. link[l].user \in User
    BY <1>3 DEF Complete, Works, AllTyped, LinksTyped, LinkRow
  <2>2. QED BY <1>3, <2>1 DEF Complete, JudgedNow, DevicesMove
<1>4. CASE Resetting
  BY <1>3, <1>4 DEF Resetting, Request, HourPasses, LinkExpires, CodeMissed, account, JudgedNow,
                    DevicesMove
<1>5. CASE HubRestarts BY <1>5 DEF HubRestarts, IdlePost, account, JudgedNow, DevicesMove
<1>6. ASSUME NEW u \in User, PageChanges(u) PROVE DevicesMove
  BY <1>6 DEF PageChanges, resets, DevicesMove
<1>7. CASE Tick \/ UNCHANGED vars \/ \E u \in User : LockEnds(u) \/ ApprovalMoves(u)
  BY <1>7 DEF Tick, LockEnds, ApprovalMoves, vars, account, resets, JudgedNow, DevicesMove
<1>8. QED BY <1>1, <1>2, <1>4, <1>5, <1>6, <1>7, CodesMoveDevices DEF Next

\* What a sign-in in flight proved counts as what a device proved.
Fresh(u, v) == v >= lastReset[u] \/ v \in late[u]
ResetInv ==
  /\ ResetSignsOut
  /\ \A u \in User : lastReset[u] <= password[u]
  /\ \A p \in Post : post[p].at = "right" => Fresh(post[p].user, post[p].password)

LEMMA ResetInvStays == ASSUME AllTyped, AllTyped', ResetInv, DevicesMove PROVE ResetInv'
<1>1. /\ \A u \in User : password[u] \in Nat /\ lastReset[u] \in Nat /\ devices[u] \subseteq Nat
      /\ password \in [User -> Nat] /\ lastReset \in [User -> Nat]
      /\ devices \in [User -> SUBSET Nat] /\ late \in [User -> SUBSET Nat]
  BY DEF AllTyped, AccountTyped, ResetsTyped
<1>2. \A p \in Post : /\ post[p].at = "right" => post[p].user \in User
                     /\ post[p].password \in Nat
  BY DEF AllTyped, PostsTyped, PostState
<1>3. CASE JudgedNow /\ UNCHANGED <<devices, password, lastReset, late>>
  <2>1. ASSUME NEW p \in Post, post'[p].at = "right"
        PROVE  Fresh(post'[p].user, post'[p].password)
    <3>1. post'[p].user \in User BY <2>1 DEF AllTyped, PostsTyped
    <3>2. CASE post'[p] = post[p] BY <2>1, <3>2 DEF ResetInv
    <3>3. CASE post'[p].password = password[post'[p].user]
      BY <1>1, <3>1, <3>3 DEF ResetInv, Fresh
    <3>4. QED BY <1>3, <2>1, <3>2, <3>3 DEF JudgedNow
  <2>2. QED BY <1>3, <2>1 DEF ResetInv, ResetSignsOut, Fresh
<1>4. ASSUME NEW p \in Post, post[p].at = "right",
             devices' = [devices EXCEPT ![post[p].user] = @ \cup {post[p].password}],
             post' = [post EXCEPT ![p] = IdlePost], UNCHANGED <<password, lastReset, late>>
      PROVE  ResetInv'
  <2>1. post[p].user \in User BY <1>4 DEF AllTyped, PostsTyped
  <2>2. ResetSignsOut' BY <1>1, <1>4, <2>1 DEF ResetInv, ResetSignsOut, Fresh
  <2>3. \A q \in Post : post'[q].at = "right" => post'[q] = post[q]
    BY <1>4 DEF IdlePost, AllTyped, PostsTyped
  <2>4. QED BY <1>4, <2>2, <2>3 DEF ResetInv, Fresh
<1>5. ASSUME NEW u \in User, SignsOut(u), password' = [password EXCEPT ![u] = @ + 1],
             UNCHANGED post
      PROVE  ResetInv'
  <2>1. ResetSignsOut' BY <1>1, <1>5 DEF SignsOut, ResetInv, ResetSignsOut
  <2>2. \A w \in User : lastReset'[w] <= password'[w] BY <1>1, <1>5 DEF SignsOut, ResetInv
  <2>3. ASSUME NEW p \in Post, post[p].at = "right"
        PROVE  Fresh(post[p].user, post[p].password)'
    <3>1. CASE post[p].user = u
      <4>1. post[p].password \in InFlight(u) BY <2>3, <3>1 DEF InFlight
      <4>2. QED BY <1>1, <1>5, <3>1, <4>1 DEF SignsOut, Fresh
    <3>2. CASE post[p].user # u
      BY <1>1, <1>2, <1>5, <2>3, <3>2 DEF SignsOut, ResetInv, Fresh
    <3>3. QED BY <3>1, <3>2
  <2>4. QED BY <1>5, <2>1, <2>2, <2>3 DEF ResetInv
<1>6. ASSUME NEW u \in User, password' = [password EXCEPT ![u] = @ + 1],
             UNCHANGED <<devices, lastReset, late, post>>
      PROVE  ResetInv'
  BY <1>1, <1>6 DEF ResetInv, ResetSignsOut, Fresh
<1>7. QED BY <1>3, <1>4, <1>5, <1>6 DEF DevicesMove

\* A device signed in after a reset proved a password that the reset had not
\* ended, or its sign-in was judged before the reset and still in flight.
THEOREM ResetsSignOut == Spec => []ResetSignsOut
<1>1. Init => ResetInv BY DEF Init, IdlePost, ResetInv, ResetSignsOut
<1>2. AllTyped /\ AllTyped' /\ ResetInv /\ [Next]_vars => ResetInv'
  BY NextMovesDevices, ResetInvStays
<1>3. ResetInv => ResetSignsOut BY DEF ResetInv
<1>4. QED BY <1>1, <1>2, <1>3, InitTyped, NextTyped, PTL DEF Spec

(***************************************************************************)
(* Links.                                                                  *)
(***************************************************************************)

\* A live link of somebody was one before, or is the one just made.
LinksMove ==
  \/ UNCHANGED <<link, password>>
  \/ UNCHANGED password /\ \E u \in User, l \in Link :
       link' = [SpendAll(u, link) EXCEPT ![l] = NewLink(u)]
  \/ UNCHANGED password /\ \E l \in Link : \E row \in LinkRow :
       /\ link[l] # Nothing /\ ~link[l].spent /\ row.user = link[l].user
       /\ link' = [link EXCEPT ![l] = row]
  \/ \E u \in User :
       /\ link' = SpendAll(u, link)
       /\ UNCHANGED password \/ password' = [password EXCEPT ![u] = @ + 1]
  \/ UNCHANGED link /\ \E u \in User : PageChanges(u)

LEMMA NextMovesLinks == ASSUME AllTyped, [Next]_vars PROVE LinksMove
<1>1. ASSUME NEW u \in User, NEW l \in Link, Request(u, l) PROVE LinksMove
  BY <1>1 DEF Request, account, LinksMove
<1>2. ASSUME NEW l \in Link, LinkExpires(l) PROVE LinksMove
  <2>1. link[l] \in LinkRow BY <1>2 DEF LinkExpires, AllTyped, LinksTyped
  <2>2. link' = [link EXCEPT ![l] = [link[l] EXCEPT !.spent = TRUE]]
    BY <1>2 DEF LinkExpires
  <2>3. QED BY <1>2, <2>1, <2>2, RowSpent DEF LinkExpires, account, LinksMove
<1>3. ASSUME NEW l \in Link, NEW c \in Typed, CodeMissed(l, c) PROVE LinksMove
  BY <1>3, MissedTyped DEF CodeMissed, Works, account, LinksMove
<1>4. ASSUME NEW l \in Link, NEW c \in Typed, Complete(l, c) PROVE LinksMove
  <2>1. link[l].user \in User
    BY <1>4 DEF Complete, Works, AllTyped, LinksTyped, LinkRow
  <2>2. QED BY <1>4, <2>1 DEF Complete, LinksMove
<1>5. CASE Resetting
  BY <1>1, <1>2, <1>3, <1>4, <1>5 DEF Resetting, HourPasses, account, LinksMove
<1>6. ASSUME NEW u \in User, Settings(u) \/ SigningIn(u) PROVE LinksMove
  BY <1>6 DEF Settings, Start, Enable, Disable, AdminResets, SigningIn, LoginNeedsCode, Login,
              Authenticate, account, resets, LinksMove
<1>7. CASE Codes
  BY <1>7 DEF Codes, LoginDone, CodeArrives, CodeJudged, CodeAnswered, TicketEnds, Authenticate,
              account, resets, LinksMove
<1>8. ASSUME NEW u \in User, PageChanges(u) PROVE LinksMove
  BY <1>8 DEF PageChanges, resets, LinksMove
<1>9. QED
  BY <1>5, <1>6, <1>7, <1>8
  DEF Next, Tick, HubRestarts, LockEnds, ApprovalMoves, vars, account, resets, LinksMove

\* A user has one link that still works.
THEOREM LinksAreSingle == Spec => []OneLiveLink
<1>1. Init => OneLiveLink BY DEF Init, OneLiveLink, Unspent
<1>2. ASSUME AllTyped, OneLiveLink, LinksMove PROVE OneLiveLink'
  <2>1. ASSUME NEW u \in User, NEW l \in Link,
               link' = [SpendAll(u, link) EXCEPT ![l] = NewLink(u)]
        PROVE  OneLiveLink'
    <3>1. NewLink(u) # Nothing => NewLink(u).user = u
      BY DEF NewLink
    <3>2. QED BY <1>2, <2>1, <3>1, SpendAllTyped DEF OneLiveLink, Unspent
  <2>2. ASSUME NEW l \in Link, NEW row \in LinkRow, link[l] # Nothing, ~link[l].spent,
               row.user = link[l].user, link' = [link EXCEPT ![l] = row]
        PROVE  OneLiveLink'
    BY <1>2, <2>2 DEF OneLiveLink, Unspent, AllTyped, LinksTyped
  <2>3. ASSUME NEW u \in User, link' = SpendAll(u, link) PROVE OneLiveLink'
    BY <1>2, <2>3, SpendAllTyped DEF OneLiveLink, Unspent
  <2>4. QED BY <1>2, <2>1, <2>2, <2>3 DEF LinksMove, OneLiveLink, Unspent
<1>3. QED BY <1>1, <1>2, NextMovesLinks, InitTyped, NextTyped, PTL DEF Spec

\* A reset changes a password together with the end of every link of its user.
THEOREM ChangesSpendLinks == Spec => ChangeSpendsLinks
<1>1. ASSUME AllTyped, LinksMove, NEW u \in User, password'[u] # password[u], ~PageChanges(u)
      PROVE  Unspent(u)' = {}
  <2>0. ASSUME NEW w \in User, PageChanges(w) PROVE FALSE
    BY <1>1, <2>0 DEF PageChanges, AllTyped, AccountTyped
  <2>1. PICK v \in User : /\ link' = SpendAll(v, link)
                          /\ password' = [password EXCEPT ![v] = @ + 1]
    BY <1>1, <2>0 DEF LinksMove
  <2>2. u = v BY <1>1, <2>1 DEF AllTyped, AccountTyped
  <2>3. QED BY <1>1, <2>1, <2>2, SpendAllTyped DEF Unspent
<1>2. AllTyped /\ [Next]_vars
        => [\A u \in User : password'[u] # password[u] /\ ~PageChanges(u) => Unspent(u)' = {}]_vars
  BY <1>1, NextMovesLinks
<1>3. QED BY <1>2, InitTyped, NextTyped, PTL DEF Spec, ChangeSpendsLinks
=============================================================================
