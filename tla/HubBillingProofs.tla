-------------------------- MODULE HubBillingProofs --------------------------
EXTENDS HubBilling, TLAPS, FiniteSetTheorems, WellFoundedInduction

(* session_cost is a whole, non-negative amount. *)
LEMMA SessionCostNat ==
    ASSUME NEW r \in Nat, NEW a \in Nat, NEW b \in Nat
    PROVE  SessionCost(r, a, b) \in Nat
<1>1. Later(a, b) \in Nat
  BY DEF Later
<1> DEFINE x == r * Later(a, b)
<1>2. x \in Nat
  BY <1>1
<1> HIDE DEF x
<1>3. x \div TicksPerHour \in Nat
  BY <1>2, HubAssumption, SMT
<1> QED
  BY <1>3 DEF SessionCost, x

LEMMA NoSessionNotSession == NoSession \notin Session
  BY DEF NoSession, Session

(* Closing rows and posting their charge keep both tables well formed. *)
LEMMA CloseTypes ==
    ASSUME TypeOK, NEW k \in Key, NEW u \in User, NEW stopped \in Nat \cup {Open}
    PROVE  /\ ClosedSessions(k, u, stopped) \in [Sid -> Session \cup {NoSession}]
           /\ PostedUsage(k, u, stopped) \in [Sid -> Seq(Nat)]
<1>1. ASSUME NEW s \in ToClose(k, u)
      PROVE  /\ s \in Sid
             /\ session[s] \in Session
             /\ EndOf(session[s], stopped) \in Nat
             /\ CostOf(session[s], stopped) \in Nat
  <2>1. s \in Sid /\ session[s] \in Session
    BY DEF ToClose, OpenRows, Rows, TypeOK
  <2>2. /\ session[s].started \in Nat
        /\ session[s].rate \in Nat
    BY <2>1 DEF Session
  <2>3. EndOf(session[s], stopped) \in Nat
    BY <2>2 DEF EndOf, Open
  <2>4. CostOf(session[s], stopped) \in Nat
    BY <2>2, <2>3, SessionCostNat DEF CostOf
  <2> QED
    BY <2>1, <2>3, <2>4
<1>2. ASSUME NEW s \in Sid
      PROVE  ClosedSessions(k, u, stopped)[s] \in Session \cup {NoSession}
  <2>1. CASE s \in ToClose(k, u)
    <3>1. [session[s] EXCEPT !.stopped = EndOf(session[s], stopped), !.charged = TRUE] \in Session
      BY <1>1, <2>1 DEF Session
    <3> QED
      BY <2>1, <3>1 DEF ClosedSessions
  <2>2. CASE s \notin ToClose(k, u)
    BY <2>2 DEF ClosedSessions, TypeOK
  <2> QED
    BY <2>1, <2>2
<1>3. ASSUME NEW s \in Sid
      PROVE  PostedUsage(k, u, stopped)[s] \in Seq(Nat)
  <2>1. usage[s] \in Seq(Nat)
    BY DEF TypeOK
  <2>2. CASE s \in ToClose(k, u) /\ CostOf(session[s], stopped) > 0
    BY <1>1, <2>1, <2>2 DEF PostedUsage
  <2>3. CASE ~(s \in ToClose(k, u) /\ CostOf(session[s], stopped) > 0)
    BY <2>1, <2>3 DEF PostedUsage
  <2> QED
    BY <2>2, <2>3
<1> QED
  BY <1>2, <1>3 DEF ClosedSessions, PostedUsage

LEMMA NewSessionType ==
    ASSUME TypeOK, NEW k \in Key, NEW u \in User, NEW z \in Size
    PROVE  NewSession(k, u, z) \in Session
<1>1. Rate(u, z) \in Nat
  BY HubAssumption DEF Rate
<1> QED
  BY <1>1 DEF NewSession, Session, TypeOK

LEMMA GrantTypes ==
    ASSUME TypeOK, NEW u \in User
    PROVE  Granted(u) \in Int /\ Welcome(u) \subseteq User
  BY HubAssumption DEF TypeOK, Granted, Welcome

(* Every step of the hub keeps its tables and tasks well formed. *)
THEOREM TypeCorrect == Spec => []TypeOK
<1>1. Init => TypeOK
  BY HubAssumption DEF Init, TypeOK
<1>2. TypeOK /\ [Next]_vars => TypeOK'
  <2> SUFFICES ASSUME TypeOK, [Next]_vars
               PROVE  TypeOK'
    OBVIOUS
  <2>1. ASSUME NEW k \in Server, NEW z \in Size, StartBegin(k, z)
        PROVE  TypeOK'
    <3>1. k \in Key /\ Owner[k] \in User
      BY HubAssumption DEF Key
    <3>2. session' \in [Sid -> Session \cup {NoSession}] /\ usage' \in [Sid -> Seq(Nat)]
      BY <2>1, <3>1, CloseTypes DEF StartBegin
    <3>3. paid' \in [User -> Int] /\ welcomed' \subseteq User
      BY <2>1, <3>1, GrantTypes DEF StartBegin, SeenIfChecked, TypeOK
    <3> QED
      BY <2>1, <3>2, <3>3 DEF StartBegin, TypeOK
  <2>2. ASSUME NEW k \in Server, NEW s \in Sid, StartDone(k, s)
        PROVE  TypeOK'
    <3>1. NewSession(k, Owner[k], choice[k]) \in Session
      BY <2>2, HubAssumption, NewSessionType DEF StartDone, TypeOK, Key
    <3> QED
      BY <2>2, <3>1 DEF StartDone, TypeOK, ledger
  <2>3. ASSUME NEW k \in Server, PodUp(k)
        PROVE  TypeOK'
    BY <2>3 DEF PodUp, TypeOK, ledger
  <2>4. ASSUME NEW k \in Server, StartUnrecorded(k) \/ PostStopUnrecorded(k)
        PROVE  TypeOK'
    <3>1. faults' \in 0..MaxFaults
      BY <2>4, HubAssumption DEF StartUnrecorded, PostStopUnrecorded, TypeOK
    <3>2. CASE StartUnrecorded(k)
      BY <3>1, <3>2 DEF StartUnrecorded, TypeOK, ledger
    <3>3. CASE PostStopUnrecorded(k)
      BY <3>1, <3>3 DEF PostStopUnrecorded, TypeOK, ledger
    <3> QED
      BY <2>4, <3>2, <3>3
  <2>5. ASSUME NEW k \in Server, StartFails(k) \/ StopAsked(k) \/ PodGone(k)
        PROVE  TypeOK'
    BY <2>5 DEF StartFails, StopAsked, PodGone, TypeOK, ledger
  <2>6. ASSUME NEW k \in Server, PollOutOfCredit(k)
        PROVE  TypeOK'
    <3>1. Owner[k] \in User
      BY HubAssumption
    <3> QED
      BY <2>6, <3>1, GrantTypes DEF PollOutOfCredit, TypeOK
  <2>7. ASSUME NEW k \in Server, PostStop(k)
        PROVE  TypeOK'
    <3>1. k \in Key /\ Owner[k] \in User /\ clock \in Nat
      BY HubAssumption DEF Key, TypeOK
    <3>2. session' \in [Sid -> Session \cup {NoSession}] /\ usage' \in [Sid -> Seq(Nat)]
      BY <2>7, <3>1, CloseTypes DEF PostStop
    <3>3. faults' \in 0..MaxFaults
      BY <2>7, HubAssumption DEF PostStop, TypeOK
    <3> QED
      BY <2>7, <3>2, <3>3 DEF PostStop, TypeOK
  <2>8. ASSUME HubRestart
        PROVE  TypeOK'
    BY <2>8, HubAssumption DEF HubRestart, TypeOK, ledger
  <2>9. ASSUME NEW u \in User, ShowAccount(u) \/ \E a \in Amounts : AddCredit(u, a)
        PROVE  TypeOK'
    BY <2>9, GrantTypes, HubAssumption DEF ShowAccount, AddCredit, TypeOK, hubView
  <2>10. ASSUME NEW w \in Worker, NEW u \in User, NEW z \in Size, NEW s \in Sid,
                WorkerOpen(w, u, z, s)
         PROVE  TypeOK'
    <3>1. NewSession(w, u, z) \in Session
      BY NewSessionType DEF Key
    <3>2. paid' \in [User -> Int] /\ welcomed' \subseteq User
      BY <2>10, GrantTypes DEF WorkerOpen, SeenIfChecked, TypeOK
    <3> QED
      BY <2>10, <3>1, <3>2 DEF WorkerOpen, TypeOK, hubView
  <2>11. ASSUME NEW w \in Worker, WorkerClose(w)
         PROVE  TypeOK'
    <3>1. PICK t \in OpenRows(session) :
             /\ session[t].key = w
             /\ session' = ClosedSessions(w, session[t].user, clock)
             /\ usage' = PostedUsage(w, session[t].user, clock)
             /\ UNCHANGED <<clock, paid, welcomed, hubView, faults>>
      BY <2>11 DEF WorkerClose
    <3>2. w \in Key /\ session[t].user \in User /\ clock \in Nat
      BY DEF Key, TypeOK, OpenRows, Rows, Session
    <3>3. session' \in [Sid -> Session \cup {NoSession}] /\ usage' \in [Sid -> Seq(Nat)]
      BY <3>1, <3>2, CloseTypes
    <3> QED
      BY <3>1, <3>3 DEF TypeOK, hubView
  <2>12. ASSUME Tick
         PROVE  TypeOK'
    BY <2>12 DEF Tick, TypeOK, ledger, hubView
  <2>13. ASSUME UNCHANGED vars
         PROVE  TypeOK'
    BY <2>13 DEF vars, TypeOK
  <2> QED
    BY <2>1, <2>2, <2>3, <2>4, <2>5, <2>6, <2>7, <2>8, <2>9, <2>10, <2>11, <2>12, <2>13 DEF Next
<1> QED
  BY <1>1, <1>2, PTL DEF Spec

-----------------------------------------------------------------------------
(* Counting GPUs. *)

LEMMA ColumnCount ==
    ASSUME NEW h, NEW T, IsFiniteSet(T)
    PROVE  IsFiniteSet({h} \X T) /\ Cardinality({h} \X T) = Cardinality(T)
<1> DEFINE S == {h}
<1>1. IsFiniteSet(S) /\ Cardinality(S) = 1
  BY FS_Singleton
<1>2. Cardinality(T) \in Nat
  BY FS_CardinalityType
<1> HIDE DEF S
<1>3. IsFiniteSet(S \X T) /\ Cardinality(S \X T) = Cardinality(S) * Cardinality(T)
  BY <1>1, FS_Product
<1>4. Cardinality(S \X T) = Cardinality(T)
  BY <1>1, <1>2, <1>3
<1> QED
  BY <1>3, <1>4 DEF S

LEMMA UnitsCount ==
    ASSUME NEW h, NEW z \in Size, NEW p
    PROVE  /\ IsFiniteSet(UnitsOf(h, z, p))
           /\ Cardinality(UnitsOf(h, z, p)) = IF SizePool[z] = p THEN SizeGpus[z] ELSE 0
<1>1. SizeGpus[z] \in Nat
  BY HubAssumption
<1>2. IsFiniteSet(1..SizeGpus[z]) /\ Cardinality(1..SizeGpus[z]) = SizeGpus[z]
  BY <1>1, FS_Interval
<1>4. IsFiniteSet({h} \X (1..SizeGpus[z])) /\ Cardinality({h} \X (1..SizeGpus[z])) = SizeGpus[z]
  BY <1>1, <1>2, ColumnCount
<1>5. CASE SizePool[z] = p
  BY <1>1, <1>4, <1>5 DEF UnitsOf
<1>6. CASE SizePool[z] # p
  BY <1>6, FS_EmptySet DEF UnitsOf
<1> QED
  BY <1>5, <1>6

Table == [Sid -> Session \cup {NoSession}]

LEMMA OpenRowIsSession ==
    ASSUME NEW tab \in Table, NEW s \in OpenRows(tab)
    PROVE  s \in Sid /\ tab[s] \in Session /\ tab[s].size \in Size
  BY DEF Table, OpenRows, Rows, Session

LEMMA FiniteImage ==
    ASSUME NEW S, IsFiniteSet(S), NEW f, DOMAIN f = S, f = [x \in S |-> f[x]]
    PROVE  IsFiniteSet({f[x] : x \in S})
<1> DEFINE T == {f[x] : x \in S}
<1>1. f \in [S -> T]
  OBVIOUS
<1>2. \A t \in T : \E s \in S : f[s] = t
  OBVIOUS
<1> HIDE DEF T
<1>3. f \in Surjection(S, T)
  BY <1>1, <1>2 DEF Surjection
<1>4. IsFiniteSet(T)
  BY <1>3, FS_Surjection
<1> QED
  BY <1>4 DEF T

(* The units of a table are finite: at most the GPUs of each open row's size. *)
LEMMA RowUnitsFinite ==
    ASSUME NEW tab \in Table
    PROVE  /\ \A p : IsFiniteSet(SessionUnits(tab, p))
           /\ IsFiniteSet(WorkerUnits(tab))
<1> DEFINE f == [s \in OpenRows(tab) |-> {s} \X (1..SizeGpus[tab[s].size])]
           Bound == UNION {f[s] : s \in OpenRows(tab)}
<1>1. IsFiniteSet(OpenRows(tab))
  BY HubAssumption, FS_Subset DEF OpenRows, Rows
<1>2. IsFiniteSet({f[s] : s \in OpenRows(tab)})
  <2>1. DOMAIN f = OpenRows(tab) /\ f = [s \in OpenRows(tab) |-> f[s]]
    OBVIOUS
  <2> HIDE DEF f
  <2> QED
    BY <1>1, <2>1, FiniteImage
<1>3. ASSUME NEW s \in OpenRows(tab)
      PROVE  IsFiniteSet(f[s])
  <2>1. SizeGpus[tab[s].size] \in Nat
    BY OpenRowIsSession, HubAssumption
  <2>2. IsFiniteSet(1..SizeGpus[tab[s].size])
    BY <2>1, FS_Interval
  <2> QED
    BY <2>2, ColumnCount
<1>4. IsFiniteSet(Bound)
  <2>1. \A T \in {f[s] : s \in OpenRows(tab)} : IsFiniteSet(T)
    BY <1>3
  <2> QED
    BY <1>2, <2>1, FS_UNION
<1>5. \A p : SessionUnits(tab, p) \subseteq Bound
  BY DEF SessionUnits, UnitsOf
<1>6. WorkerUnits(tab) \subseteq Bound
  BY DEF WorkerUnits, WorkerRows, UnitsOf
<1> QED
  BY <1>4, <1>5, <1>6, FS_Subset

LEMMA StartingUnitsFinite ==
    ASSUME TypeOK, NEW p
    PROVE  IsFiniteSet(StartingUnits(p))
<1> DEFINE f == [k \in Starting |-> UnitsOf(k, choice[k], p)]
<1>1. IsFiniteSet(Starting)
  BY HubAssumption, FS_Subset DEF Starting
<1>2. IsFiniteSet({f[k] : k \in Starting})
  <2>1. DOMAIN f = Starting /\ f = [k \in Starting |-> f[k]]
    OBVIOUS
  <2> HIDE DEF f
  <2> QED
    BY <1>1, <2>1, FiniteImage
<1>3. \A k \in Starting : IsFiniteSet(f[k])
  BY UnitsCount DEF Starting, TypeOK
<1>4. IsFiniteSet(UNION {f[k] : k \in Starting})
  BY <1>2, <1>3, FS_UNION
<1>5. StartingUnits(p) = UNION {f[k] : k \in Starting}
  BY DEF StartingUnits
<1> QED
  BY <1>4, <1>5

(* A new open row adds at most the units of its size. *)
LEMMA AddRow ==
    ASSUME NEW tab \in Table, NEW s \in Sid, tab[s] = NoSession,
           NEW r \in Session, r.stopped = Open
    PROVE  LET new == [tab EXCEPT ![s] = r]
           IN  /\ new \in Table
               /\ OpenRows(new) = OpenRows(tab) \cup {s}
               /\ \A p : SessionUnits(new, p) = SessionUnits(tab, p) \cup UnitsOf(s, r.size, p)
               /\ r.key \notin Worker => WorkerUnits(new) = WorkerUnits(tab)
               /\ \A p \in Pool : SizePool[r.size] = p =>
                     WorkerUnits(new) \subseteq WorkerUnits(tab) \cup UnitsOf(s, r.size, p)
               /\ SizePool[r.size] \notin Pool => WorkerUnits(new) = WorkerUnits(tab)
<1> DEFINE new == [tab EXCEPT ![s] = r]
<1>1. new \in Table /\ new[s] = r /\ \A t \in Sid : t # s => new[t] = tab[t]
  BY DEF Table
<1>2. r # NoSession
  BY NoSessionNotSession
<1>3. OpenRows(new) = OpenRows(tab) \cup {s} /\ s \notin OpenRows(tab)
  BY <1>1, <1>2 DEF OpenRows, Rows
<1> HIDE DEF new
<1>4. \A p : SessionUnits(new, p) = SessionUnits(tab, p) \cup UnitsOf(s, r.size, p)
  <2>1. \A p, t : t \in OpenRows(tab) => UnitsOf(t, new[t].size, p) = UnitsOf(t, tab[t].size, p)
    BY <1>1, <1>3 DEF OpenRows, Rows
  <2> QED
    BY <1>1, <1>3, <2>1 DEF SessionUnits
<1>5. WorkerRows(new) = IF r.key \in Worker THEN WorkerRows(tab) \cup {s} ELSE WorkerRows(tab)
  BY <1>1, <1>3 DEF WorkerRows, OpenRows, Rows
<1>6. \A p, t : t \in WorkerRows(tab) => UnitsOf(t, new[t].size, p) = UnitsOf(t, tab[t].size, p)
  BY <1>1, <1>3 DEF WorkerRows, OpenRows, Rows
<1>7. r.key \notin Worker => WorkerUnits(new) = WorkerUnits(tab)
  BY <1>5, <1>6 DEF WorkerUnits
<1>8. ASSUME NEW p \in Pool, SizePool[r.size] = p
      PROVE  WorkerUnits(new) \subseteq WorkerUnits(tab) \cup UnitsOf(s, r.size, p)
  <2>1. ASSUME NEW t \in WorkerRows(new), NEW q \in Pool
        PROVE  UnitsOf(t, new[t].size, q) \subseteq WorkerUnits(tab) \cup UnitsOf(s, r.size, p)
    <3>1. CASE t = s
      BY <1>1, <1>8, <3>1 DEF UnitsOf
    <3>2. CASE t # s
      BY <1>5, <1>6, <3>2 DEF WorkerUnits
    <3> QED
      BY <3>1, <3>2
  <2> QED
    BY <2>1 DEF WorkerUnits
<1>9. ASSUME SizePool[r.size] \notin Pool
      PROVE  WorkerUnits(new) = WorkerUnits(tab)
  <2>1. \A p \in Pool : UnitsOf(s, new[s].size, p) = {}
    BY <1>1, <1>9 DEF UnitsOf
  <2> QED
    BY <1>5, <1>6, <2>1 DEF WorkerUnits
<1> QED
  BY <1>1, <1>3, <1>4, <1>7, <1>8, <1>9 DEF new

(* Closing rows only gives units back. *)
LEMMA ClosingFreesUnits ==
    ASSUME TypeOK, NEW k \in Key, NEW u \in User, NEW stopped \in Nat \cup {Open}
    PROVE  LET tab == ClosedSessions(k, u, stopped)
           IN  /\ OpenRows(tab) \subseteq OpenRows(session)
               /\ \A s \in OpenRows(tab) : tab[s] = session[s]
               /\ \A p : SessionUnits(tab, p) \subseteq SessionUnits(session, p)
               /\ WorkerUnits(tab) \subseteq WorkerUnits(session)
<1> DEFINE tab == ClosedSessions(k, u, stopped)
<1>1. ASSUME NEW s \in ToClose(k, u)
      PROVE  tab[s].stopped # Open
  <2>1. s \in Sid /\ session[s] \in Session
    BY DEF ToClose, OpenRows, Rows, TypeOK
  <2>2. tab[s].stopped = EndOf(session[s], stopped)
    BY <2>1 DEF ClosedSessions, Session
  <2>3. EndOf(session[s], stopped) \in Nat
    BY <2>1 DEF EndOf, Session, Open
  <2> QED
    BY <2>2, <2>3 DEF Open
<1>2. \A s \in Sid : s \notin ToClose(k, u) => tab[s] = session[s]
  BY DEF ClosedSessions
<1>3. OpenRows(tab) \subseteq OpenRows(session) /\ \A s \in OpenRows(tab) : tab[s] = session[s]
  BY <1>1, <1>2 DEF OpenRows, Rows
<1> HIDE DEF tab
<1>4. \A p : SessionUnits(tab, p) \subseteq SessionUnits(session, p)
  BY <1>3 DEF SessionUnits
<1>5. WorkerUnits(tab) \subseteq WorkerUnits(session)
  BY <1>3 DEF WorkerUnits, WorkerRows
<1> QED
  BY <1>3, <1>4, <1>5 DEF tab
-----------------------------------------------------------------------------
(* Admission: both limits hold in every state. *)

(* What remains of the sums when a table loses units or reservations change. *)
LEMMA FewerUnits ==
    ASSUME NEW S, IsFiniteSet(S), NEW T, T \subseteq S
    PROVE  /\ Cardinality(T) \in Nat
           /\ Cardinality(S) \in Nat
           /\ Cardinality(T) <= Cardinality(S)
  BY FS_Subset, FS_CardinalityType

LEMMA MoreUnits ==
    ASSUME NEW S, IsFiniteSet(S), NEW z \in Size, NEW h, NEW p, NEW T,
           T \subseteq S \cup UnitsOf(h, z, p)
    PROVE  /\ Cardinality(T) \in Nat
           /\ Cardinality(T) <= Cardinality(S) + Cardinality(UnitsOf(h, z, p))
<1> DEFINE U == UnitsOf(h, z, p)
<1>1. IsFiniteSet(U)
  BY UnitsCount
<1> HIDE DEF U
<1>2. /\ IsFiniteSet(S \cup U)
      /\ Cardinality(S \cup U) = Cardinality(S) + Cardinality(U) - Cardinality(S \cap U)
  BY <1>1, FS_Union
<1>3. IsFiniteSet(S \cap U)
  BY FS_Intersection
<1>4. Cardinality(T) \in Nat /\ Cardinality(T) <= Cardinality(S \cup U)
  BY <1>2, FewerUnits DEF U
<1> QED
  BY <1>1, <1>2, <1>3, <1>4, FS_CardinalityType DEF U

(* What the checks of start and workers/open see: open rows and starts in flight. *)
RowsWithinCapacity ==
    /\ \A p \in Pool : GpusInUse(session, p) <= Cap[p]
    /\ WorkerGpusInUse(session) <= SvMaxGpus

(* Room for a row of size z: what Fits checks keeps every pool within its capacity. *)
LEMMA StartKeepsCapacity ==
    ASSUME TypeOK, RowsWithinCapacity, NEW k \in Server, NEW z \in Size, StartBegin(k, z)
    PROVE  RowsWithinCapacity'
<1> DEFINE u == Owner[k]
           tab == ClosedSessions(k, u, Open)
<1>1. k \in Key /\ u \in User
  BY HubAssumption DEF Key
<1>2. /\ session' = tab
      /\ Fits(tab, z)
      /\ choice' = [choice EXCEPT ![k] = z]
  BY DEF StartBegin
<1>3. tab \in Table /\ session \in Table
  BY <1>1, CloseTypes DEF Table, TypeOK
<1>4. /\ \A p : SessionUnits(tab, p) \subseteq SessionUnits(session, p)
      /\ WorkerUnits(tab) \subseteq WorkerUnits(session)
  BY <1>1, ClosingFreesUnits
<1> HIDE DEF tab, u
<1>5. \A p : StartingUnits(p)' \subseteq StartingUnits(p) \cup UnitsOf(k, z, p)
  <2>1. Starting' \subseteq Starting \cup {k}
    BY <1>2 DEF Starting, TypeOK
  <2>2. choice'[k] = z /\ \A j \in Server : j # k => choice'[j] = choice[j]
    BY <1>2 DEF TypeOK
  <2> QED
    BY <2>1, <2>2 DEF StartingUnits, Starting, UnitsOf
<1>6. ASSUME NEW p \in Pool
      PROVE  GpusInUse(session, p)' <= Cap[p]
  <2>1. /\ Cardinality(SessionUnits(tab, p)) \in Nat
        /\ Cardinality(SessionUnits(session, p)) \in Nat
        /\ Cardinality(SessionUnits(tab, p)) <= Cardinality(SessionUnits(session, p))
    BY <1>3, <1>4, RowUnitsFinite, FewerUnits
  <2>2. /\ Cardinality(StartingUnits(p)) \in Nat
        /\ Cardinality(StartingUnits(p)') \in Nat
        /\ Cardinality(StartingUnits(p)') <= Cardinality(StartingUnits(p)) + Cardinality(UnitsOf(k, z, p))
    <3>1. IsFiniteSet(StartingUnits(p))
      BY StartingUnitsFinite
    <3>2. StartingUnits(p)' \subseteq StartingUnits(p) \cup UnitsOf(k, z, p)
      BY <1>5
    <3> QED
      BY <3>1, <3>2, MoreUnits, FS_CardinalityType
  <2>3. Cardinality(UnitsOf(k, z, p)) = IF SizePool[z] = p THEN SizeGpus[z] ELSE 0
    BY UnitsCount
  <2>4. SizeGpus[z] \in Nat /\ Cap[p] \in Nat
    BY HubAssumption
  <2>5. GpusInUse(session, p)' = Cardinality(SessionUnits(tab, p)) + Cardinality(StartingUnits(p)')
    BY <1>2 DEF GpusInUse, SessionUnits, OpenRows, Rows, UnitsOf
  <2>6. CASE SizePool[z] = p
    <3>1. Cardinality(SessionUnits(tab, p)) + Cardinality(StartingUnits(p)) + SizeGpus[z] <= Cap[p]
      BY <1>2, <2>6 DEF Fits, GpusInUse
    <3> QED
      BY <2>1, <2>2, <2>3, <2>4, <2>5, <2>6, <3>1
  <2>7. CASE SizePool[z] # p
    <3>1. Cardinality(SessionUnits(session, p)) + Cardinality(StartingUnits(p)) <= Cap[p]
      BY DEF RowsWithinCapacity, GpusInUse
    <3> QED
      BY <2>1, <2>2, <2>3, <2>4, <2>5, <2>7, <3>1
  <2> QED
    BY <2>6, <2>7
<1>7. WorkerGpusInUse(session)' <= SvMaxGpus
  <2>1. /\ Cardinality(WorkerUnits(tab)) \in Nat
        /\ Cardinality(WorkerUnits(session)) \in Nat
        /\ Cardinality(WorkerUnits(tab)) <= Cardinality(WorkerUnits(session))
    BY <1>3, <1>4, RowUnitsFinite, FewerUnits
  <2>2. WorkerGpusInUse(session)' = Cardinality(WorkerUnits(tab))
    BY <1>2 DEF WorkerGpusInUse, WorkerUnits, WorkerRows, OpenRows, Rows, UnitsOf
  <2>3. Cardinality(WorkerUnits(session)) <= SvMaxGpus
    BY DEF RowsWithinCapacity, WorkerGpusInUse
  <2> QED
    BY <2>1, <2>2, <2>3, HubAssumption
<1> QED
  BY <1>6, <1>7 DEF RowsWithinCapacity

(* A step that changes neither reservations nor rows, or only drops some. *)
LEMMA DroppingKeepsCapacity ==
    ASSUME TypeOK, RowsWithinCapacity, session' \in Table,
           \A p : SessionUnits(session', p) \subseteq SessionUnits(session, p),
           WorkerUnits(session') \subseteq WorkerUnits(session),
           \A p : StartingUnits(p)' \subseteq StartingUnits(p)
    PROVE  RowsWithinCapacity'
<1>1. session \in Table
  BY DEF TypeOK, Table
<1>2. ASSUME NEW p \in Pool
      PROVE  GpusInUse(session, p)' <= Cap[p]
  <2>1. /\ Cardinality(SessionUnits(session', p)) \in Nat
        /\ Cardinality(SessionUnits(session, p)) \in Nat
        /\ Cardinality(SessionUnits(session', p)) <= Cardinality(SessionUnits(session, p))
    BY <1>1, RowUnitsFinite, FewerUnits
  <2>2. /\ Cardinality(StartingUnits(p)) \in Nat
        /\ Cardinality(StartingUnits(p)') \in Nat
        /\ Cardinality(StartingUnits(p)') <= Cardinality(StartingUnits(p))
    BY StartingUnitsFinite, FewerUnits
  <2>3. GpusInUse(session, p)' = Cardinality(SessionUnits(session', p)) + Cardinality(StartingUnits(p)')
    BY DEF GpusInUse, SessionUnits, OpenRows, Rows, UnitsOf
  <2>4. Cardinality(SessionUnits(session, p)) + Cardinality(StartingUnits(p)) <= Cap[p]
    BY DEF RowsWithinCapacity, GpusInUse
  <2> QED
    BY <2>1, <2>2, <2>3, <2>4, HubAssumption
<1>3. WorkerGpusInUse(session)' <= SvMaxGpus
  <2>1. /\ Cardinality(WorkerUnits(session')) \in Nat
        /\ Cardinality(WorkerUnits(session)) \in Nat
        /\ Cardinality(WorkerUnits(session')) <= Cardinality(WorkerUnits(session))
    BY <1>1, RowUnitsFinite, FewerUnits
  <2>2. WorkerGpusInUse(session)' = Cardinality(WorkerUnits(session'))
    BY DEF WorkerGpusInUse, WorkerUnits, WorkerRows, OpenRows, Rows, UnitsOf
  <2>3. Cardinality(WorkerUnits(session)) <= SvMaxGpus
    BY DEF RowsWithinCapacity, WorkerGpusInUse
  <2> QED
    BY <2>1, <2>2, <2>3, HubAssumption
<1> QED
  BY <1>2, <1>3 DEF RowsWithinCapacity

(* Adding a row for h with size z, while the reservations shrink by at least *)
(* what the caller shows.                                                    *)
LEMMA FinishKeepsCapacity ==
    ASSUME TypeOK, RowsWithinCapacity, NEW k \in Server, NEW s \in Sid, StartDone(k, s)
    PROVE  RowsWithinCapacity'
<1> DEFINE r == NewSession(k, Owner[k], choice[k])
           z == choice[k]
<1>1. /\ session[s] = NoSession
      /\ session' = [session EXCEPT ![s] = r]
      /\ choice' = [choice EXCEPT ![k] = NoSize]
      /\ z \in Size
  BY DEF StartDone, NextSid, TypeOK
<1>2. /\ r \in Session
      /\ r.stopped = Open
      /\ r.size = z
      /\ r.key \notin Worker
  BY <1>1, NewSessionType, HubAssumption DEF Key, NewSession
<1>3. session \in Table
  BY DEF TypeOK, Table
<1> HIDE DEF r, z
<1>4. /\ session' \in Table
      /\ \A p : SessionUnits(session', p) = SessionUnits(session, p) \cup UnitsOf(s, z, p)
      /\ WorkerUnits(session') = WorkerUnits(session)
  BY <1>1, <1>2, <1>3, AddRow
<1>5. k \in Starting /\ Starting' = Starting \ {k}
  BY <1>1, HubAssumption DEF Starting, TypeOK, z
<1>6. \A j \in Starting' : choice'[j] = choice[j]
  BY <1>1, <1>5 DEF Starting, TypeOK
<1>7. ASSUME NEW p \in Pool
      PROVE  GpusInUse(session, p)' <= Cap[p]
  <2> DEFINE S == StartingUnits(p)
             T == StartingUnits(p)'
             U == UnitsOf(k, z, p)
  <2>1. S = T \cup U /\ T \cap U = {}
    BY <1>5, <1>6 DEF StartingUnits, UnitsOf, z
  <2>2. IsFiniteSet(S) /\ IsFiniteSet(U)
    BY <1>1, StartingUnitsFinite, UnitsCount
  <2>3. T \subseteq S
    BY <2>1
  <2> HIDE DEF S, T, U
  <2>4. IsFiniteSet(T)
    BY <2>2, <2>3, FS_Subset
  <2>5. Cardinality(T \cap U) = 0
    BY <2>1, FS_EmptySet
  <2>6. Cardinality(S) = Cardinality(T) + Cardinality(U) /\ Cardinality(T) \in Nat /\ Cardinality(U) \in Nat
    <3>1. Cardinality(T) \in Nat /\ Cardinality(U) \in Nat
      BY <2>2, <2>4, FS_CardinalityType
    <3>2. Cardinality(T \cup U) = Cardinality(T) + Cardinality(U) - Cardinality(T \cap U)
      BY <2>2, <2>4, FS_Union
    <3> QED
      BY <2>1, <2>5, <3>1, <3>2
  <2>7. Cardinality(U) = Cardinality(UnitsOf(s, z, p))
    BY <1>1, UnitsCount DEF U
  <2>8. /\ Cardinality(SessionUnits(session', p)) \in Nat
        /\ Cardinality(SessionUnits(session', p))
              <= Cardinality(SessionUnits(session, p)) + Cardinality(UnitsOf(s, z, p))
    BY <1>1, <1>3, <1>4, RowUnitsFinite, MoreUnits
  <2>9. Cardinality(SessionUnits(session, p)) \in Nat
    BY <1>3, RowUnitsFinite, FS_CardinalityType
  <2>10. GpusInUse(session, p)' = Cardinality(SessionUnits(session', p)) + Cardinality(T)
    BY DEF GpusInUse, SessionUnits, OpenRows, Rows, UnitsOf, T
  <2>11. Cardinality(SessionUnits(session, p)) + Cardinality(S) <= Cap[p]
    BY DEF RowsWithinCapacity, GpusInUse, S
  <2> QED
    BY <2>6, <2>7, <2>8, <2>9, <2>10, <2>11, HubAssumption
<1>8. WorkerGpusInUse(session)' <= SvMaxGpus
  <2>1. WorkerGpusInUse(session)' = Cardinality(WorkerUnits(session'))
    BY DEF WorkerGpusInUse, WorkerUnits, WorkerRows, OpenRows, Rows, UnitsOf
  <2> QED
    BY <1>4, <2>1 DEF RowsWithinCapacity, WorkerGpusInUse
<1> QED
  BY <1>7, <1>8 DEF RowsWithinCapacity

LEMMA WorkerOpenKeepsCapacity ==
    ASSUME TypeOK, RowsWithinCapacity,
           NEW w \in Worker, NEW u \in User, NEW z \in Size, NEW s \in Sid, WorkerOpen(w, u, z, s)
    PROVE  RowsWithinCapacity'
<1> DEFINE r == NewSession(w, u, z)
<1>1. /\ session[s] = NoSession
      /\ session' = [session EXCEPT ![s] = r]
      /\ Fits(session, z)
      /\ SizePool[z] \in Pool => WorkerGpusInUse(session) + SizeGpus[z] <= SvMaxGpus
      /\ choice' = choice
  BY DEF WorkerOpen, NextSid, hubView
<1>2. r \in Session /\ r.stopped = Open /\ r.size = z
  BY NewSessionType DEF Key, NewSession
<1>3. session \in Table
  BY DEF TypeOK, Table
<1> HIDE DEF r
<1>4. /\ session' \in Table
      /\ \A p : SessionUnits(session', p) = SessionUnits(session, p) \cup UnitsOf(s, z, p)
      /\ \A p \in Pool : SizePool[z] = p =>
            WorkerUnits(session') \subseteq WorkerUnits(session) \cup UnitsOf(s, z, p)
      /\ SizePool[z] \notin Pool => WorkerUnits(session') = WorkerUnits(session)
  BY <1>1, <1>2, <1>3, AddRow
<1>5. SizeGpus[z] \in Nat
  BY HubAssumption
<1>6. ASSUME NEW p \in Pool
      PROVE  GpusInUse(session, p)' <= Cap[p]
  <2>1. /\ Cardinality(SessionUnits(session', p)) \in Nat
        /\ Cardinality(SessionUnits(session', p))
              <= Cardinality(SessionUnits(session, p)) + Cardinality(UnitsOf(s, z, p))
    BY <1>3, <1>4, RowUnitsFinite, MoreUnits
  <2>2. Cardinality(SessionUnits(session, p)) \in Nat /\ Cardinality(StartingUnits(p)) \in Nat
    BY <1>3, RowUnitsFinite, StartingUnitsFinite, FS_CardinalityType
  <2>3. GpusInUse(session, p)' = Cardinality(SessionUnits(session', p)) + Cardinality(StartingUnits(p))
    BY <1>1 DEF GpusInUse, SessionUnits, OpenRows, Rows, UnitsOf, StartingUnits, Starting
  <2>4. Cardinality(UnitsOf(s, z, p)) = IF SizePool[z] = p THEN SizeGpus[z] ELSE 0
    BY UnitsCount
  <2>5. Cardinality(SessionUnits(session, p)) + Cardinality(StartingUnits(p)) <= Cap[p]
    BY DEF RowsWithinCapacity, GpusInUse
  <2>6. SizePool[z] = p =>
           Cardinality(SessionUnits(session, p)) + Cardinality(StartingUnits(p)) + SizeGpus[z] <= Cap[p]
    BY <1>1 DEF Fits, GpusInUse
  <2> QED
    BY <1>5, <2>1, <2>2, <2>3, <2>4, <2>5, <2>6, HubAssumption
<1>7. WorkerGpusInUse(session)' <= SvMaxGpus
  <2>1. WorkerGpusInUse(session)' = Cardinality(WorkerUnits(session'))
    BY DEF WorkerGpusInUse, WorkerUnits, WorkerRows, OpenRows, Rows, UnitsOf
  <2>2. CASE SizePool[z] \in Pool
    <3> DEFINE p == SizePool[z]
    <3>1. /\ Cardinality(WorkerUnits(session')) \in Nat
          /\ Cardinality(WorkerUnits(session'))
                <= Cardinality(WorkerUnits(session)) + Cardinality(UnitsOf(s, z, p))
      BY <1>3, <1>4, <2>2, RowUnitsFinite, MoreUnits
    <3>2. Cardinality(UnitsOf(s, z, p)) = SizeGpus[z]
      BY UnitsCount
    <3>3. Cardinality(WorkerUnits(session)) \in Nat
      BY <1>3, RowUnitsFinite, FS_CardinalityType
    <3>4. Cardinality(WorkerUnits(session)) + SizeGpus[z] <= SvMaxGpus
      BY <1>1, <2>2 DEF WorkerGpusInUse
    <3> QED
      BY <1>5, <2>1, <3>1, <3>2, <3>3, <3>4, HubAssumption
  <2>3. CASE SizePool[z] \notin Pool
    BY <1>4, <2>1, <2>3 DEF RowsWithinCapacity, WorkerGpusInUse
  <2> QED
    BY <2>2, <2>3
<1> QED
  BY <1>6, <1>7 DEF RowsWithinCapacity

(* However starts, worker opens, stops, failures and hub restarts interleave, *)
(* the rows and the starts in flight fit.                                    *)
LEMMA RowsFit == Spec => []RowsWithinCapacity
<1>1. Init => RowsWithinCapacity
  <2> SUFFICES ASSUME Init
               PROVE  RowsWithinCapacity
    OBVIOUS
  <2>1. OpenRows(session) = {} /\ Starting = {}
    BY DEF Init, OpenRows, Rows, Starting
  <2>2. (\A p : SessionUnits(session, p) = {} /\ StartingUnits(p) = {}) /\ WorkerUnits(session) = {}
    BY <2>1 DEF SessionUnits, StartingUnits, WorkerUnits, WorkerRows
  <2> QED
    <3>1. Cardinality({}) = 0
      BY FS_EmptySet
    <3>2. \A p \in Pool : GpusInUse(session, p) = 0
      BY <2>2, <3>1 DEF GpusInUse
    <3>3. WorkerGpusInUse(session) = 0
      BY <2>2, <3>1 DEF WorkerGpusInUse
    <3>4. SvMaxGpus \in Nat /\ \A p \in Pool : Cap[p] \in Nat
      BY HubAssumption
    <3> QED
      BY <3>2, <3>3, <3>4 DEF RowsWithinCapacity
<1>2. TypeOK /\ TypeOK' /\ RowsWithinCapacity /\ [Next]_vars => RowsWithinCapacity'
  <2> SUFFICES ASSUME TypeOK, TypeOK', RowsWithinCapacity, [Next]_vars
               PROVE  RowsWithinCapacity'
    OBVIOUS
  <2>1. session \in Table /\ session' \in Table
    BY DEF TypeOK, Table
  <2>2. ASSUME session' = session, Starting' \subseteq Starting,
               \A k \in Starting' : choice'[k] = choice[k]
        PROVE  RowsWithinCapacity'
    <3>1. \A p : StartingUnits(p)' \subseteq StartingUnits(p)
      BY <2>2 DEF StartingUnits
    <3> QED
      BY <2>1, <2>2, <3>1, DroppingKeepsCapacity
  <2>3. ASSUME NEW k \in Key, NEW u \in User, session' = ClosedSessions(k, u, clock),
               choice' = choice
        PROVE  RowsWithinCapacity'
    <3>1. clock \in Nat
      BY DEF TypeOK
    <3>2. /\ \A p : SessionUnits(session', p) \subseteq SessionUnits(session, p)
          /\ WorkerUnits(session') \subseteq WorkerUnits(session)
      BY <2>3, <3>1, ClosingFreesUnits
    <3>3. \A p : StartingUnits(p)' \subseteq StartingUnits(p)
      BY <2>3 DEF StartingUnits, Starting
    <3> QED
      BY <2>1, <3>2, <3>3, DroppingKeepsCapacity
  <2>4. ASSUME NEW k \in Server,
               PodUp(k) \/ PollOutOfCredit(k) \/ StopAsked(k) \/ PodGone(k) \/ PostStopUnrecorded(k)
        PROVE  RowsWithinCapacity'
    <3>1. session' = session /\ choice' = choice
      BY <2>4 DEF PodUp, PollOutOfCredit, StopAsked, PodGone, PostStopUnrecorded
    <3> QED
      BY <2>2, <3>1 DEF Starting
  <2>5. ASSUME NEW k \in Server, StartUnrecorded(k) \/ StartFails(k)
        PROVE  RowsWithinCapacity'
    <3>1. session' = session /\ choice' = [choice EXCEPT ![k] = NoSize]
      BY <2>5 DEF StartUnrecorded, StartFails
    <3>2. Starting' \subseteq Starting /\ \A j \in Starting' : choice'[j] = choice[j]
      BY <3>1 DEF Starting, TypeOK
    <3> QED
      BY <2>2, <3>1, <3>2
  <2>6. ASSUME HubRestart
        PROVE  RowsWithinCapacity'
    <3>1. session' = session /\ Starting' = {}
      BY <2>6 DEF HubRestart, Starting
    <3> QED
      BY <2>2, <3>1
  <2>7. ASSUME NEW k \in Server, PostStop(k)
        PROVE  RowsWithinCapacity'
    BY <2>3, <2>7, HubAssumption DEF PostStop, Key
  <2>8. ASSUME NEW w \in Worker, WorkerClose(w)
        PROVE  RowsWithinCapacity'
    <3>1. PICK t \in OpenRows(session) :
             session' = ClosedSessions(w, session[t].user, clock) /\ choice' = choice
      BY <2>8 DEF WorkerClose, hubView
    <3>2. w \in Key /\ session[t].user \in User
      BY DEF Key, TypeOK, OpenRows, Rows, Session
    <3> QED
      BY <2>3, <3>1, <3>2
  <2>9. ASSUME NEW u \in User, ShowAccount(u) \/ \E a \in Amounts : AddCredit(u, a)
        PROVE  RowsWithinCapacity'
    <3>1. session' = session /\ choice' = choice
      BY <2>9 DEF ShowAccount, AddCredit, hubView
    <3> QED
      BY <2>2, <3>1 DEF Starting
  <2>10. ASSUME Tick \/ UNCHANGED vars
         PROVE  RowsWithinCapacity'
    <3>1. session' = session /\ choice' = choice
      BY <2>10 DEF Tick, vars, hubView
    <3> QED
      BY <2>2, <3>1 DEF Starting
  <2> QED
    BY <2>4, <2>5, <2>6, <2>7, <2>8, <2>9, <2>10, StartKeepsCapacity, FinishKeepsCapacity,
       WorkerOpenKeepsCapacity DEF Next
<1> QED
  BY <1>1, <1>2, TypeCorrect, PTL DEF Spec
-----------------------------------------------------------------------------
(* Charging: closing a row posts its cost once. *)

LEMMA ClosingChargesOnce ==
    ASSUME TypeOK, ChargedExactlyOnce,
           NEW k \in Key, NEW u \in User, NEW stopped \in Nat \cup {Open},
           session' = ClosedSessions(k, u, stopped), usage' = PostedUsage(k, u, stopped)
    PROVE  ChargedExactlyOnce'
<1> SUFFICES ASSUME NEW s \in Sid
             PROVE  /\ usage'[s] # <<>> => session'[s] # NoSession /\ session'[s].stopped # Open
                    /\ s \in Rows(session') =>
                          LET r == session'[s]
                              cost == SessionCost(r.rate, r.started, r.stopped)
                          IN /\ r.charged <=> r.stopped # Open
                             /\ r.charged => usage'[s] = (IF cost > 0 THEN <<cost>> ELSE <<>>)
  BY DEF ChargedExactlyOnce, Rows
<1>1. CASE s \in ToClose(k, u)
  <2> DEFINE r == session[s]
             cost == CostOf(r, stopped)
  <2>1. r \in Session /\ s \in Rows(session) /\ r.stopped = Open
    BY <1>1 DEF ToClose, OpenRows, Rows, TypeOK
  <2>2. usage[s] = <<>>
    BY <2>1 DEF ChargedExactlyOnce
  <2>3. EndOf(r, stopped) \in Nat /\ r.rate \in Nat /\ r.started \in Nat
    BY <2>1 DEF EndOf, Session, Open
  <2>4. session'[s] = [r EXCEPT !.stopped = EndOf(r, stopped), !.charged = TRUE]
    BY <1>1 DEF ClosedSessions
  <2>5. /\ session'[s] \in Session
        /\ session'[s].stopped = EndOf(r, stopped)
        /\ session'[s].charged = TRUE
        /\ session'[s].rate = r.rate
        /\ session'[s].started = r.started
    BY <2>1, <2>3, <2>4 DEF Session
  <2>6. cost = SessionCost(session'[s].rate, session'[s].started, session'[s].stopped)
    BY <2>5 DEF CostOf
  <2>7. usage'[s] = IF cost > 0 THEN <<cost>> ELSE <<>>
    <3>1. cost \in Nat
      BY <2>3, SessionCostNat DEF CostOf
    <3>2. usage'[s] = IF cost > 0 THEN Append(usage[s], cost) ELSE usage[s]
      BY <1>1 DEF PostedUsage
    <3> HIDE DEF cost
    <3>3. Append(<<>>, cost) = <<cost>>
      BY <3>1
    <3> QED
      BY <2>2, <3>2, <3>3
  <2>8. session'[s] # NoSession /\ session'[s].stopped # Open
    BY <2>3, <2>5, NoSessionNotSession DEF Open
  <2> QED
    BY <2>5, <2>6, <2>7, <2>8
<1>2. CASE s \notin ToClose(k, u)
  <2>1. session'[s] = session[s] /\ usage'[s] = usage[s]
    BY <1>2 DEF ClosedSessions, PostedUsage
  <2> QED
    BY <2>1 DEF ChargedExactlyOnce, Rows
<1> QED
  BY <1>1, <1>2

LEMMA NewRowIsUncharged ==
    ASSUME TypeOK, ChargedExactlyOnce, NEW s \in Sid, NEW k \in Key, NEW u \in User, NEW z \in Size,
           session[s] = NoSession, session' = [session EXCEPT ![s] = NewSession(k, u, z)],
           usage' = usage
    PROVE  ChargedExactlyOnce'
<1>1. usage[s] = <<>>
  BY DEF ChargedExactlyOnce
<1>2. /\ session'[s] = NewSession(k, u, z)
      /\ \A t \in Sid : t # s => session'[t] = session[t]
  BY DEF TypeOK
<1>3. NewSession(k, u, z).stopped = Open /\ NewSession(k, u, z).charged = FALSE
  BY DEF NewSession
<1> QED
  BY <1>1, <1>2, <1>3 DEF ChargedExactlyOnce, Rows

(* For every price list and every interleaving, a session is charged once,   *)
(* when it is closed, and exactly what session_cost says of its start, its    *)
(* end and the price it recorded.                                             *)
THEOREM ChargingSafe == Spec => []ChargedExactlyOnce
<1>1. Init => ChargedExactlyOnce
  BY DEF Init, ChargedExactlyOnce, Rows
<1>2. TypeOK /\ ChargedExactlyOnce /\ [Next]_vars => ChargedExactlyOnce'
  <2> SUFFICES ASSUME TypeOK, ChargedExactlyOnce, [Next]_vars
               PROVE  ChargedExactlyOnce'
    OBVIOUS
  <2>1. ASSUME session' = session, usage' = usage
        PROVE  ChargedExactlyOnce'
    BY <2>1 DEF ChargedExactlyOnce, Rows
  <2>2. ASSUME NEW k \in Server, NEW z \in Size, StartBegin(k, z)
        PROVE  ChargedExactlyOnce'
    BY <2>2, ClosingChargesOnce, HubAssumption DEF StartBegin, Key
  <2>3. ASSUME NEW k \in Server, NEW s \in Sid, StartDone(k, s)
        PROVE  ChargedExactlyOnce'
    <3>1. k \in Key /\ Owner[k] \in User /\ choice[k] \in Size
      BY <2>3, HubAssumption DEF StartDone, TypeOK, Key
    <3>2. /\ session[s] = NoSession
          /\ session' = [session EXCEPT ![s] = NewSession(k, Owner[k], choice[k])]
          /\ usage' = usage
      BY <2>3 DEF StartDone, NextSid, ledger
    <3> QED
      BY <3>1, <3>2, NewRowIsUncharged
  <2>4. ASSUME NEW w \in Worker, NEW u \in User, NEW z \in Size, NEW s \in Sid, WorkerOpen(w, u, z, s)
        PROVE  ChargedExactlyOnce'
    BY <2>4, NewRowIsUncharged DEF WorkerOpen, NextSid, Key
  <2>5. ASSUME NEW k \in Server, PostStop(k)
        PROVE  ChargedExactlyOnce'
    BY <2>5, ClosingChargesOnce, HubAssumption DEF PostStop, Key, TypeOK
  <2>6. ASSUME NEW w \in Worker, WorkerClose(w)
        PROVE  ChargedExactlyOnce'
    <3>1. PICK t \in OpenRows(session) : /\ session' = ClosedSessions(w, session[t].user, clock)
                                         /\ usage' = PostedUsage(w, session[t].user, clock)
      BY <2>6 DEF WorkerClose
    <3>2. w \in Key /\ session[t].user \in User /\ clock \in Nat
      BY DEF Key, TypeOK, OpenRows, Rows, Session
    <3> QED
      BY <3>1, <3>2, ClosingChargesOnce
  <2>7. ASSUME NEW k \in Server,
               \/ PodUp(k) \/ StartUnrecorded(k) \/ StartFails(k) \/ PollOutOfCredit(k)
               \/ StopAsked(k) \/ PodGone(k) \/ PostStopUnrecorded(k)
        PROVE  ChargedExactlyOnce'
    <3>1. session' = session /\ usage' = usage
      BY <2>7 DEF PodUp, StartUnrecorded, StartFails, PollOutOfCredit, StopAsked, PodGone,
                  PostStopUnrecorded, ledger
    <3> QED
      BY <2>1, <3>1
  <2>8. ASSUME \/ HubRestart \/ Tick \/ UNCHANGED vars
               \/ \E u \in User : ShowAccount(u) \/ \E a \in Amounts : AddCredit(u, a)
        PROVE  ChargedExactlyOnce'
    <3>1. session' = session /\ usage' = usage
      BY <2>8 DEF HubRestart, Tick, vars, ShowAccount, AddCredit, ledger
    <3> QED
      BY <2>1, <3>1
  <2> QED
    BY <2>2, <2>3, <2>4, <2>5, <2>6, <2>7, <2>8 DEF Next
<1> QED
  BY <1>1, <1>2, TypeCorrect, PTL DEF Spec

-----------------------------------------------------------------------------
(* Sums over finite sets.  SumOf is the sum the community modules define by a *)
(* recursive function on the subsets of S that takes out one chosen element   *)
(* after another: Pick(T) is that element, IsSum the function's equation.     *)
(* What follows from it by induction, for functions with integer values: the  *)
(* function exists, any element may be taken out first, and sums compare as   *)
(* their summands do.                                                         *)
Pick(T) == CHOOSE x \in T : TRUE
IsSum(f, S, g) ==
    g = [T \in SUBSET S |-> IF T = {} THEN 0 ELSE f[Pick(T)] + g[T \ {Pick(T)}]]

(* The sum is the value at S of a function that meets the equation. *)
LEMMA SumIsChosen ==
    ASSUME NEW f, NEW S
    PROVE  SumOf(f, S) = (CHOOSE g : IsSum(f, S, g))[S]
  BY DEF SumOf, MapThenSumSet, MapThenFoldSet, IsSum, Pick

(* Among finite sets some are smallest: the form of induction used below. *)
LEMMA Smallest ==
    ASSUME NEW S, IsFiniteSet(S), NEW F \in SUBSET SUBSET S, F # {}
    PROVE  \E T \in F : \A U \in SUBSET T : U \in F => U = T
<1>1. IsWellFoundedOn(StrictSubsetOrdering(S), SUBSET S)
  BY FS_StrictSubsetOrderingWellFounded, FS_FiniteSubsetsOfFinite
<1>2. PICK T \in F : \A U \in F : <<U, T>> \notin StrictSubsetOrdering(S)
  BY <1>1, WFMin
<1>3. ASSUME NEW U \in SUBSET T, U \in F
      PROVE  U = T
  <2>1. <<U, T>> \in StrictSubsetOrdering(S) \/ U = T
    BY <1>3 DEF StrictSubsetOrdering
  <2> QED
    BY <1>2, <1>3, <2>1
<1> QED
  BY <1>2, <1>3

(* The chosen element is an element. *)
LEMMA Picked == ASSUME NEW T, T # {} PROVE Pick(T) \in T
  BY DEF Pick

(* At most one function meets the equation, on the subsets of S. *)
LEMMA OneSum ==
    ASSUME NEW f, NEW S, IsFiniteSet(S), NEW g, NEW h, IsSum(f, S, g), IsSum(f, S, h)
    PROVE  \A T \in SUBSET S : g[T] = h[T]
<1> DEFINE F == {T \in SUBSET S : g[T] # h[T]}
<1> SUFFICES ASSUME F # {} PROVE FALSE
  OBVIOUS
<1>1. PICK T \in F : \A U \in SUBSET T : U \in F => U = T
  <2>1. F \in SUBSET SUBSET S
    OBVIOUS
  <2> HIDE DEF F
  <2> QED
    BY <2>1, Smallest
<1>2. T # {}
  BY DEF IsSum
<1>3. Pick(T) \in T
  BY <1>2, Picked
<1>4. T \ {Pick(T)} \in SUBSET S /\ T \ {Pick(T)} \notin F
  BY <1>1, <1>3
<1>5. g[T \ {Pick(T)}] = h[T \ {Pick(T)}]
  BY <1>4
<1>6. g[T] = f[Pick(T)] + g[T \ {Pick(T)}] /\ h[T] = f[Pick(T)] + h[T \ {Pick(T)}]
  BY <1>2 DEF IsSum
<1> QED
  BY <1>5, <1>6

(* The equation for S holds on the subsets of each T in S. *)
LEMMA Narrower ==
    ASSUME NEW f, NEW S, NEW T \in SUBSET S, NEW g, IsSum(f, S, g)
    PROVE  \E h : IsSum(f, T, h) /\ h[T] = g[T]
<1> DEFINE h == [U \in SUBSET T |-> g[U]]
<1>1. ASSUME NEW U \in SUBSET T
      PROVE  h[U] = IF U = {} THEN 0 ELSE f[Pick(U)] + h[U \ {Pick(U)}]
  <2>1. h[U] = g[U] /\ h[U \ {Pick(U)}] = g[U \ {Pick(U)}]
    OBVIOUS
  <2>2. g[U] = IF U = {} THEN 0 ELSE f[Pick(U)] + g[U \ {Pick(U)}]
    BY DEF IsSum
  <2> QED
    BY <2>1, <2>2
<1>2. h = [U \in SUBSET T |-> IF U = {} THEN 0 ELSE f[Pick(U)] + h[U \ {Pick(U)}]]
  <2>1. h = [U \in SUBSET T |-> h[U]]
    OBVIOUS
  <2> HIDE DEF h
  <2> QED
    BY <1>1, <2>1
<1>3. h[T] = g[T]
  OBVIOUS
<1> HIDE DEF h
<1> QED
  BY <1>2, <1>3 DEF IsSum

(* Some function meets the equation. *)
LEMMA SumExists ==
    ASSUME NEW f, NEW S, IsFiniteSet(S)
    PROVE  \E g : IsSum(f, S, g)
<1> DEFINE F == {T \in SUBSET S : ~ \E g : IsSum(f, T, g)}
           the(T) == CHOOSE g : IsSum(f, T, g)
<1> SUFFICES ASSUME F # {} PROVE FALSE
  OBVIOUS
<1>1. PICK T \in F : \A U \in SUBSET T : U \in F => U = T
  <2>1. F \in SUBSET SUBSET S
    OBVIOUS
  <2> HIDE DEF F
  <2> QED
    BY <2>1, Smallest
<1>2. ASSUME NEW U \in SUBSET T, U # T
      PROVE  IsSum(f, U, the(U)) /\ IsFiniteSet(U)
  BY <1>1, <1>2, FS_Subset
<1> DEFINE rest(U) == the(U \ {Pick(U)})[U \ {Pick(U)}]
           g == [U \in SUBSET T |-> IF U = {} THEN 0 ELSE f[Pick(U)] + rest(U)]
<1>3. ASSUME NEW U \in SUBSET T, U # T
      PROVE  g[U] = the(U)[U]
  <2>1. CASE U = {}
    <3> HIDE DEF the
    <3> QED
      BY <1>2, <1>3, <2>1 DEF IsSum
  <2>2. CASE U # {}
    <3> DEFINE V == U \ {Pick(U)}
    <3>1. V \in SUBSET U /\ V \in SUBSET T /\ V # T
      BY <1>3
    <3>2. IsSum(f, V, the(V)) /\ IsFiniteSet(V)
      BY <1>2, <3>1
    <3>3. the(V)[V] = the(U)[V]
      <4> HIDE DEF V, the
      <4>1. PICK k : IsSum(f, V, k) /\ k[V] = the(U)[V]
        BY <1>2, <1>3, <3>1, Narrower
      <4> QED
        BY <3>2, <4>1, OneSum
    <3>4. the(U)[U] = f[Pick(U)] + the(U)[V]
      <4> HIDE DEF the
      <4> QED
        BY <1>2, <1>3, <2>2 DEF IsSum
    <3>5. g[U] = f[Pick(U)] + the(V)[V]
      <4> HIDE DEF the
      <4> QED
        BY <2>2
    <3> QED
      BY <3>3, <3>4, <3>5
  <2> HIDE DEF g, the
  <2> QED
    BY <2>1, <2>2
<1>4. ASSUME NEW U \in SUBSET T
      PROVE  g[U] = IF U = {} THEN 0 ELSE f[Pick(U)] + g[U \ {Pick(U)}]
  <2>1. CASE U = {}
    BY <2>1
  <2>2. CASE U # {}
    <3>1. Pick(U) \in U
      BY <2>2, Picked
    <3>2. U \ {Pick(U)} \in SUBSET T /\ U \ {Pick(U)} # T
      BY <3>1
    <3>3. g[U \ {Pick(U)}] = rest(U)
      <4> HIDE DEF g, the
      <4> QED
        BY <1>3, <3>2
    <3>4. g[U] = f[Pick(U)] + rest(U)
      <4> HIDE DEF the
      <4> QED
        BY <2>2
    <3> QED
      <4> HIDE DEF g, rest
      <4> QED
        BY <2>2, <3>3, <3>4
  <2> QED
    BY <2>1, <2>2
<1>5. g = [U \in SUBSET T |-> g[U]]
  OBVIOUS
<1> HIDE DEF g
<1>6. IsSum(f, T, g)
  BY <1>4, <1>5 DEF IsSum
<1> QED
  BY <1>1, <1>6

(* Induction over a finite set S, with a set F of sets for the property: a T    *)
(* belongs to F as soon as every set with one element less does.               *)
LEMMA BySmaller ==
    ASSUME NEW S, IsFiniteSet(S), NEW F,
           \A T \in SUBSET S : (\A x \in T : T \ {x} \in F) => T \in F
    PROVE  \A T \in SUBSET S : T \in F
<1> DEFINE G == {T \in SUBSET S : T \notin F}
<1> SUFFICES ASSUME G # {} PROVE FALSE
  OBVIOUS
<1>1. PICK T \in G : \A U \in SUBSET T : U \in G => U = T
  <2>1. G \in SUBSET SUBSET S
    OBVIOUS
  <2> HIDE DEF G
  <2> QED
    BY <2>1, Smallest
<1>2. ASSUME NEW x \in T PROVE T \ {x} \in F
  BY <1>1
<1> QED
  BY <1>1, <1>2

(* Nothing adds up to zero. *)
LEMMA SumEmpty == ASSUME NEW f PROVE SumOf(f, {}) = 0
<1> DEFINE g == CHOOSE g : IsSum(f, {}, g)
<1>1. IsSum(f, {}, g)
  BY SumExists, FS_EmptySet
<1> HIDE DEF g
<1>2. g[{}] = 0
  BY <1>1 DEF IsSum
<1> QED
  BY <1>2, SumIsChosen DEF g

(* One element and the rest: the one the definition takes first. *)
LEMMA SumStep ==
    ASSUME NEW f, NEW S, IsFiniteSet(S), S # {}
    PROVE  SumOf(f, S) = f[Pick(S)] + SumOf(f, S \ {Pick(S)})
<1> DEFINE g == CHOOSE g : IsSum(f, S, g)
           V == S \ {Pick(S)}
           h == CHOOSE h : IsSum(f, V, h)
<1>1. V \in SUBSET S /\ IsFiniteSet(V)
  BY FS_Subset
<1>2. IsSum(f, S, g)
  BY SumExists
<1>3. IsSum(f, V, h)
  BY <1>1, SumExists
<1>4. SumOf(f, S) = g[S] /\ SumOf(f, V) = h[V]
  BY SumIsChosen
<1> HIDE DEF g, h
<1>5. g[S] = f[Pick(S)] + g[V]
  BY <1>2 DEF IsSum
<1>6. g[V] = h[V]
  <2> HIDE DEF V
  <2>1. PICK k : IsSum(f, V, k) /\ k[V] = g[V]
    BY <1>1, <1>2, Narrower
  <2> QED
    BY <1>1, <1>3, <2>1, OneSum
<1> QED
  BY <1>4, <1>5, <1>6

(* Integers add up to an integer. *)
LEMMA SumInt ==
    ASSUME NEW f, NEW S, IsFiniteSet(S), \A x \in S : f[x] \in Int
    PROVE  SumOf(f, S) \in Int
<1> DEFINE F == {T \in SUBSET S : SumOf(f, T) \in Int}
<1>1. ASSUME NEW T \in SUBSET S, \A x \in T : T \ {x} \in F
      PROVE  T \in F
  <2>1. CASE T = {}
    BY <2>1, SumEmpty
  <2>2. CASE T # {}
    <3>1. Pick(T) \in T /\ IsFiniteSet(T)
      BY <2>2, Picked, FS_Subset
    <3> QED
      <4> DEFINE p == Pick(T)
      <4>1. SumOf(f, T) = f[p] + SumOf(f, T \ {p})
        BY <2>2, <3>1, SumStep
      <4>2. SumOf(f, T \ {p}) \in Int /\ f[p] \in Int
        BY <1>1, <3>1
      <4> HIDE DEF p
      <4> QED
        BY <4>1, <4>2
  <2> QED
    BY <2>1, <2>2
<1> HIDE DEF F
<1>2. \A T \in SUBSET S : (\A x \in T : T \ {x} \in F) => T \in F
  BY <1>1
<1>3. \A T \in SUBSET S : T \in F
  BY <1>2, BySmaller
<1> QED
  BY <1>3 DEF F

(* Which element is taken out does not matter. *)
LEMMA SumWithout ==
    ASSUME NEW f, NEW S, IsFiniteSet(S), \A y \in S : f[y] \in Int, NEW x \in S
    PROVE  SumOf(f, S) = f[x] + SumOf(f, S \ {x})
<1> DEFINE F == {T \in SUBSET S : \A y \in T : SumOf(f, T) = f[y] + SumOf(f, T \ {y})}
<1>1. ASSUME NEW T \in SUBSET S, \A y \in T : T \ {y} \in F
      PROVE  T \in F
  <2> SUFFICES ASSUME NEW y \in T PROVE SumOf(f, T) = f[y] + SumOf(f, T \ {y})
    OBVIOUS
  <2> DEFINE p == Pick(T)
  <2>1. p \in T /\ IsFiniteSet(T)
    BY Picked, FS_Subset
  <2>2. SumOf(f, T) = f[p] + SumOf(f, T \ {p})
    BY <2>1, SumStep
  <2> HIDE DEF p
  <2>3. CASE y = p
    BY <2>2, <2>3
  <2>4. CASE y # p
    <3>1. SumOf(f, T \ {p}) = f[y] + SumOf(f, (T \ {p}) \ {y})
      BY <1>1, <2>1, <2>4
    <3>2. SumOf(f, T \ {y}) = f[p] + SumOf(f, (T \ {y}) \ {p})
      BY <1>1, <2>1, <2>4
    <3>3. (T \ {p}) \ {y} = (T \ {y}) \ {p}
      OBVIOUS
    <3>4. f[p] \in Int /\ f[y] \in Int
      BY <2>1
    <3>5. SumOf(f, (T \ {p}) \ {y}) \in Int
      BY <2>1, SumInt, FS_Subset
    <3> DEFINE a == SumOf(f, (T \ {p}) \ {y})
    <3>6. SumOf(f, T) = f[p] + (f[y] + a) /\ SumOf(f, T \ {y}) = f[p] + a
      BY <2>2, <3>1, <3>2, <3>3
    <3> HIDE DEF a
    <3>7. a \in Int
      BY <3>5 DEF a
    <3> QED
      BY <3>4, <3>6, <3>7
  <2> QED
    BY <2>3, <2>4
<1> HIDE DEF F
<1>2. \A T \in SUBSET S : (\A y \in T : T \ {y} \in F) => T \in F
  BY <1>1
<1>3. \A T \in SUBSET S : T \in F
  BY <1>2, BySmaller
<1> QED
  BY <1>3 DEF F

(* One element more. *)
LEMMA SumWith ==
    ASSUME NEW f, NEW S, IsFiniteSet(S), \A y \in S : f[y] \in Int, NEW x, x \notin S, f[x] \in Int
    PROVE  SumOf(f, S \cup {x}) = f[x] + SumOf(f, S)
<1>1. (S \cup {x}) \ {x} = S /\ IsFiniteSet(S \cup {x})
  BY FS_AddElement
<1> QED
  BY <1>1, SumWithout

(* Two sums, element by element. *)
LEMMA SumsCompare ==
    ASSUME NEW S, IsFiniteSet(S), NEW f, NEW g, NEW h, NEW k,
           \A x \in S : f[x] \in Int /\ g[x] \in Int /\ h[x] \in Int /\ k[x] \in Int,
           \A x \in S : f[x] + g[x] <= h[x] + k[x]
    PROVE  /\ SumOf(f, S) + SumOf(g, S) <= SumOf(h, S) + SumOf(k, S)
           /\ (\E x \in S : f[x] + g[x] < h[x] + k[x]) =>
                SumOf(f, S) + SumOf(g, S) < SumOf(h, S) + SumOf(k, S)
           /\ (\A x \in S : f[x] + g[x] = h[x] + k[x]) =>
                SumOf(f, S) + SumOf(g, S) = SumOf(h, S) + SumOf(k, S)
<1> DEFINE Holds(T) == /\ SumOf(f, T) + SumOf(g, T) <= SumOf(h, T) + SumOf(k, T)
                       /\ (\E x \in T : f[x] + g[x] < h[x] + k[x]) =>
                            SumOf(f, T) + SumOf(g, T) < SumOf(h, T) + SumOf(k, T)
                       /\ (\A x \in T : f[x] + g[x] = h[x] + k[x]) =>
                            SumOf(f, T) + SumOf(g, T) = SumOf(h, T) + SumOf(k, T)
           F == {T \in SUBSET S : Holds(T)}
<1>1. ASSUME NEW T \in SUBSET S, \A y \in T : T \ {y} \in F
      PROVE  T \in F
  <2>1. CASE T = {}
    BY <2>1, SumEmpty
  <2>2. CASE T # {}
    <3> DEFINE p == Pick(T)
               U == T \ {p}
    <3>1. p \in T /\ IsFiniteSet(T) /\ IsFiniteSet(U)
      BY <2>2, Picked, FS_Subset
    <3>2. Holds(U)
      BY <1>1, <3>1
    <3>3. /\ SumOf(f, T) = f[p] + SumOf(f, U) /\ SumOf(g, T) = g[p] + SumOf(g, U)
          /\ SumOf(h, T) = h[p] + SumOf(h, U) /\ SumOf(k, T) = k[p] + SumOf(k, U)
      BY <2>2, <3>1, SumStep
    <3>4. /\ SumOf(f, U) \in Int /\ SumOf(g, U) \in Int
          /\ SumOf(h, U) \in Int /\ SumOf(k, U) \in Int
      BY <3>1, SumInt
    <3>5. /\ f[p] \in Int /\ g[p] \in Int /\ h[p] \in Int /\ k[p] \in Int
          /\ f[p] + g[p] <= h[p] + k[p]
      BY <3>1
    <3>6. \A x \in T : x = p \/ x \in U
      OBVIOUS
    <3> HIDE DEF p, U
    <3>7. SumOf(f, T) + SumOf(g, T) <= SumOf(h, T) + SumOf(k, T)
      BY <3>2, <3>3, <3>4, <3>5
    <3>8. ASSUME \E x \in T : f[x] + g[x] < h[x] + k[x]
          PROVE  SumOf(f, T) + SumOf(g, T) < SumOf(h, T) + SumOf(k, T)
      BY <3>2, <3>3, <3>4, <3>5, <3>6, <3>8
    <3>9. ASSUME \A x \in T : f[x] + g[x] = h[x] + k[x]
          PROVE  SumOf(f, T) + SumOf(g, T) = SumOf(h, T) + SumOf(k, T)
      <4>1. U \subseteq T
        BY DEF U
      <4>2. SumOf(f, U) + SumOf(g, U) = SumOf(h, U) + SumOf(k, U) /\ f[p] + g[p] = h[p] + k[p]
        BY <3>1, <3>2, <3>9, <4>1
      <4> QED
        BY <3>3, <3>4, <3>5, <4>2
    <3> QED
      BY <3>7, <3>8, <3>9
  <2> QED
    BY <2>1, <2>2
<1> HIDE DEF F
<1>2. \A T \in SUBSET S : (\A x \in T : T \ {x} \in F) => T \in F
  BY <1>1
<1>3. \A T \in SUBSET S : T \in F
  BY <1>2, BySmaller
<1> QED
  BY <1>3 DEF F

-----------------------------------------------------------------------------
(* Balances.  Every row of a user is charged or accrues, never both, so a row *)
(* owes one amount, and a step that leaves each row owing what it owed leaves *)
(* the user's sum alone.                                                      *)
Mine(u, tab) == {s \in Rows(tab) : tab[s].user = u}
Owed(u, tab, use) == SumOf(RowCharge(use), Mine(u, tab)) + SumOf(Accrued(tab), Mine(u, tab))
Due(tab, use, s) == RowCharge(use)[s] + Accrued(tab)[s]
Charges == [Sid -> Seq(Nat)]

(* ChargedExactlyOnce, said of any two tables. *)
Settled(tab, use) ==
    \A s \in Rows(tab) :
        LET cost == SessionCost(tab[s].rate, tab[s].started, tab[s].stopped)
        IN /\ tab[s].stopped = Open => ~tab[s].charged /\ use[s] = <<>>
           /\ tab[s].stopped # Open => tab[s].charged /\ use[s] = (IF cost > 0 THEN <<cost>> ELSE <<>>)

LEMMA TablesSettled ==
    ASSUME NEW tab \in Table, NEW use,
           \A s \in Sid :
              /\ use[s] # <<>> => tab[s] # NoSession /\ tab[s].stopped # Open
              /\ s \in Rows(tab) =>
                    LET cost == SessionCost(tab[s].rate, tab[s].started, tab[s].stopped)
                    IN /\ tab[s].charged <=> tab[s].stopped # Open
                       /\ tab[s].charged => use[s] = (IF cost > 0 THEN <<cost>> ELSE <<>>)
    PROVE  Settled(tab, use)
<1> SUFFICES ASSUME NEW s \in Rows(tab)
             PROVE  LET cost == SessionCost(tab[s].rate, tab[s].started, tab[s].stopped)
                    IN /\ tab[s].stopped = Open => ~tab[s].charged /\ use[s] = <<>>
                       /\ tab[s].stopped # Open =>
                             tab[s].charged /\ use[s] = (IF cost > 0 THEN <<cost>> ELSE <<>>)
  BY DEF Settled
<1>1. s \in Sid /\ tab[s] \in Session /\ tab[s].charged \in BOOLEAN
  BY DEF Table, Rows, Session
<1> QED
  BY <1>1

(* The charges of a row add up to the one charge there is. *)
LEMMA OneCharge ==
    ASSUME NEW c \in Int
    PROVE  SumOf(<<c>>, DOMAIN <<c>>) = c
<1> DEFINE f == <<c>>
<1>1. f[1] = c /\ DOMAIN f = {} \cup {1}
  OBVIOUS
<1> HIDE DEF f
<1>2. SumOf(f, {} \cup {1}) = f[1] + SumOf(f, {})
  BY <1>1, SumWith, FS_EmptySet
<1>3. SumOf(f, DOMAIN f) = c
  BY <1>1, <1>2, SumEmpty
<1> QED
  BY <1>3 DEF f

LEMMA NoCharge == SumOf(<<>>, DOMAIN <<>>) = 0
<1>1. DOMAIN <<>> = {}
  OBVIOUS
<1> QED
  BY <1>1, SumEmpty

(* What a row owes: its charge once it is closed, its running cost until then. *)
LEMMA RowOwes ==
    ASSUME NEW tab \in Table, NEW use \in Charges, Settled(tab, use), clock \in Nat,
           NEW s \in Rows(tab)
    PROVE  /\ RowCharge(use)[s] \in Int
           /\ Accrued(tab)[s] \in Int
           /\ tab[s].stopped = Open =>
                 Due(tab, use, s) = SessionCost(tab[s].rate, tab[s].started, clock)
           /\ tab[s].stopped # Open =>
                 Due(tab, use, s) = SessionCost(tab[s].rate, tab[s].started, tab[s].stopped)
<1> DEFINE r == tab[s]
<1>1. s \in Sid /\ r \in Session
  BY DEF Rows, Table
<1>2. r.rate \in Nat /\ r.started \in Nat /\ (r.stopped # Open => r.stopped \in Nat)
  BY <1>1 DEF Session
<1>3. RowCharge(use)[s] = SumOf(use[s], DOMAIN use[s])
  BY <1>1 DEF RowCharge
<1>4. CASE r.stopped = Open
  <2> DEFINE due == SessionCost(r.rate, r.started, clock)
  <2>1. due \in Nat
    BY <1>2, SessionCostNat
  <2>2. ~r.charged /\ use[s] = <<>>
    BY <1>4 DEF Settled
  <2>3. RowCharge(use)[s] = 0
    BY <1>3, <2>2, NoCharge
  <2>4. Accrued(tab)[s] = due
    BY <1>4, <2>2 DEF Accrued
  <2> HIDE DEF due, r
  <2>5. RowCharge(use)[s] + Accrued(tab)[s] = due
    BY <2>1, <2>3, <2>4
  <2> QED
    BY <1>4, <2>1, <2>3, <2>4, <2>5 DEF Due, due, r
<1>5. CASE r.stopped # Open
  <2> DEFINE cost == SessionCost(r.rate, r.started, r.stopped)
  <2>1. cost \in Nat
    BY <1>2, <1>5, SessionCostNat
  <2>2. r.charged /\ use[s] = (IF cost > 0 THEN <<cost>> ELSE <<>>)
    BY <1>5 DEF Settled
  <2>3. RowCharge(use)[s] = cost
    <3> HIDE DEF cost
    <3>1. CASE cost > 0
      BY <1>3, <2>1, <2>2, <3>1, OneCharge
    <3>2. CASE ~(cost > 0)
      <4>1. cost = 0 /\ use[s] = <<>>
        BY <2>1, <2>2, <3>2
      <4> QED
        BY <1>3, <4>1, NoCharge
    <3> QED
      BY <3>1, <3>2
  <2>4. Accrued(tab)[s] = 0
    BY <2>2 DEF Accrued
  <2> HIDE DEF cost, r
  <2>5. RowCharge(use)[s] + Accrued(tab)[s] = cost
    BY <2>1, <2>3, <2>4
  <2> QED
    BY <1>5, <2>1, <2>3, <2>4, <2>5 DEF Due, cost, r
<1> QED
  BY <1>4, <1>5

LEMMA MineFinite ==
    ASSUME NEW u, NEW tab
    PROVE  IsFiniteSet(Mine(u, tab)) /\ Mine(u, tab) \subseteq Rows(tab)
  BY HubAssumption, FS_Subset DEF Mine, Rows

LEMMA OwedInt ==
    ASSUME NEW tab \in Table, NEW use \in Charges, Settled(tab, use), clock \in Nat, NEW u
    PROVE  /\ SumOf(RowCharge(use), Mine(u, tab)) \in Int
           /\ SumOf(Accrued(tab), Mine(u, tab)) \in Int
           /\ Owed(u, tab, use) \in Int
<1>1. /\ IsFiniteSet(Mine(u, tab))
      /\ \A s \in Mine(u, tab) : RowCharge(use)[s] \in Int /\ Accrued(tab)[s] \in Int
  BY MineFinite, RowOwes
<1>2. SumOf(RowCharge(use), Mine(u, tab)) \in Int /\ SumOf(Accrued(tab), Mine(u, tab)) \in Int
  BY <1>1, SumInt
<1> QED
  BY <1>2 DEF Owed

(* Two pairs of tables with the same rows of u, compared row by row. *)
LEMMA OwedCompares ==
    ASSUME clock \in Nat, NEW u,
           NEW tab \in Table, NEW use \in Charges, Settled(tab, use),
           NEW new \in Table, NEW posted \in Charges, Settled(new, posted),
           Mine(u, new) = Mine(u, tab),
           \A s \in Mine(u, tab) : Due(new, posted, s) <= Due(tab, use, s)
    PROVE  /\ Owed(u, new, posted) <= Owed(u, tab, use)
           /\ (\A s \in Mine(u, tab) : Due(new, posted, s) = Due(tab, use, s)) =>
                 Owed(u, new, posted) = Owed(u, tab, use)
<1> DEFINE M == Mine(u, tab)
           f == RowCharge(posted)
           g == Accrued(new)
           h == RowCharge(use)
           k == Accrued(tab)
<1>1. IsFiniteSet(M) /\ M \subseteq Rows(tab) /\ M \subseteq Rows(new)
  BY MineFinite
<1>2. \A s \in M : f[s] \in Int /\ g[s] \in Int /\ h[s] \in Int /\ k[s] \in Int
  BY <1>1, RowOwes
<1>3. \A s \in M : f[s] + g[s] <= h[s] + k[s]
  BY DEF Due
<1>4. /\ Owed(u, new, posted) = SumOf(f, M) + SumOf(g, M)
      /\ Owed(u, tab, use) = SumOf(h, M) + SumOf(k, M)
  BY DEF Owed
<1>5. (\A s \in M : Due(new, posted, s) = Due(tab, use, s)) =>
          \A s \in M : f[s] + g[s] = h[s] + k[s]
  BY DEF Due
<1> HIDE DEF M, f, g, h, k
<1>6. /\ SumOf(f, M) + SumOf(g, M) <= SumOf(h, M) + SumOf(k, M)
      /\ (\A s \in M : f[s] + g[s] = h[s] + k[s]) =>
            SumOf(f, M) + SumOf(g, M) = SumOf(h, M) + SumOf(k, M)
  BY <1>1, <1>2, <1>3, SumsCompare
<1>7. (\A s \in M : Due(new, posted, s) = Due(tab, use, s)) =>
          Owed(u, new, posted) = Owed(u, tab, use)
  BY <1>4, <1>5, <1>6
<1> QED
  BY <1>4, <1>6, <1>7 DEF M

(* Closing rows of v: at the clock each row owes what it owed, at its own start *)
(* nothing; what others owe stays.                                              *)
LEMMA ClosingOwes ==
    ASSUME TypeOK, ChargedExactlyOnce, TypeOK', ChargedExactlyOnce',
           NEW k \in Key, NEW v \in User, NEW stopped \in {Open, clock},
           session' = ClosedSessions(k, v, stopped), usage' = PostedUsage(k, v, stopped),
           NEW u
    PROVE  /\ Owed(u, session', usage') <= Owed(u, session, usage)
           /\ stopped = clock \/ u # v => Owed(u, session', usage') = Owed(u, session, usage)
<1>1. clock \in Nat /\ session \in Table /\ usage \in Charges /\ session' \in Table /\ usage' \in Charges
  BY DEF TypeOK, Table, Charges
<1>2. Settled(session, usage) /\ Settled(session', usage')
  <2>1. Settled(session, usage)
    BY <1>1, TablesSettled DEF ChargedExactlyOnce
  <2>2. Settled(session', usage')
    BY <1>1, TablesSettled DEF ChargedExactlyOnce, Rows
  <2> QED
    BY <2>1, <2>2
<1>3. ASSUME NEW s \in ToClose(k, v)
      PROVE  /\ s \in Rows(session) /\ s \in Rows(session')
             /\ session'[s].user = session[s].user
             /\ Due(session', usage', s) <= Due(session, usage, s)
             /\ stopped = clock => Due(session', usage', s) = Due(session, usage, s)
  <2> DEFINE r == session[s]
             q == session'[s]
             e == EndOf(r, stopped)
  <2>1. s \in Sid /\ s \in Rows(session) /\ r \in Session /\ r.stopped = Open
    BY <1>1 DEF ToClose, OpenRows, Rows, Table
  <2>2. r.rate \in Nat /\ r.started \in Nat /\ e \in Nat
    BY <1>1, <2>1 DEF Session, EndOf
  <2>3. q = [r EXCEPT !.stopped = e, !.charged = TRUE]
    BY <1>3, <2>1 DEF ClosedSessions
  <2> HIDE DEF e
  <2>4. /\ q \in Session /\ q.stopped = e /\ q.rate = r.rate /\ q.started = r.started
        /\ q.user = r.user
    BY <2>1, <2>2, <2>3 DEF Session
  <2>5. e # Open /\ s \in Rows(session')
    BY <2>1, <2>2, <2>4, NoSessionNotSession DEF Open, Rows
  <2>6. Due(session', usage', s) = SessionCost(r.rate, r.started, e)
    BY <1>1, <1>2, <2>4, <2>5, RowOwes
  <2>7. Due(session, usage, s) = SessionCost(r.rate, r.started, clock)
    BY <1>1, <1>2, <2>1, RowOwes
  <2>8. CASE stopped = clock
    <3>1. e = clock
      BY <1>1, <2>8 DEF e, EndOf, Open
    <3>2. SessionCost(r.rate, r.started, clock) \in Nat
      BY <1>1, <2>2, SessionCostNat
    <3> DEFINE cost == SessionCost(r.rate, r.started, clock)
    <3> HIDE DEF cost
    <3>3. Due(session', usage', s) = cost /\ Due(session, usage, s) = cost /\ cost \in Nat
      BY <2>6, <2>7, <3>1, <3>2 DEF cost
    <3> QED
      BY <2>1, <2>4, <2>5, <3>3
  <2>9. CASE stopped = Open /\ stopped # clock
    <3>1. e = r.started
      BY <2>9 DEF e, EndOf
    <3>2. SessionCost(r.rate, r.started, r.started) = 0
      BY <2>2, HubAssumption DEF SessionCost, Later
    <3>3. SessionCost(r.rate, r.started, clock) \in Nat
      BY <1>1, <2>2, SessionCostNat
    <3> QED
      BY <2>1, <2>4, <2>5, <2>6, <2>7, <2>9, <3>1, <3>2, <3>3
  <2> QED
    BY <2>8, <2>9
<1>4. ASSUME NEW s \in Rows(session), s \notin ToClose(k, v)
      PROVE  /\ s \in Rows(session')
             /\ session'[s] = session[s]
             /\ Due(session', usage', s) <= Due(session, usage, s)
             /\ Due(session', usage', s) = Due(session, usage, s)
  <2>1. s \in Sid /\ session'[s] = session[s]
    BY <1>4 DEF ClosedSessions, Rows
  <2>2. s \in Rows(session')
    BY <2>1 DEF Rows
  <2>3. Due(session', usage', s) = Due(session, usage, s)
    BY <1>1, <1>2, <2>1, <2>2, RowOwes
  <2>4. Due(session, usage, s) \in Int
    BY <1>1, <1>2, RowOwes DEF Due
  <2> QED
    BY <2>1, <2>2, <2>3, <2>4
<1>5. \A s \in Rows(session') : s \in Rows(session)
  BY <1>3 DEF ClosedSessions, Rows
<1>6. Mine(u, session') = Mine(u, session)
  BY <1>3, <1>4, <1>5 DEF Mine
<1>7. \A s \in Mine(u, session) : Due(session', usage', s) <= Due(session, usage, s)
  BY <1>3, <1>4 DEF Mine
<1>8. stopped = clock \/ u # v =>
          \A s \in Mine(u, session) : Due(session', usage', s) = Due(session, usage, s)
  BY <1>3, <1>4 DEF Mine, ToClose
<1> QED
  BY <1>1, <1>2, <1>6, <1>7, <1>8, OwedCompares

(* A new row owes nothing yet. *)
LEMMA NewRowOwes ==
    ASSUME TypeOK, ChargedExactlyOnce, TypeOK', ChargedExactlyOnce',
           NEW s \in Sid, NEW k \in Key, NEW v \in User, NEW z \in Size,
           session[s] = NoSession, session' = [session EXCEPT ![s] = NewSession(k, v, z)],
           usage' = usage, NEW u
    PROVE  Owed(u, session', usage') = Owed(u, session, usage)
<1>1. clock \in Nat /\ session \in Table /\ usage \in Charges /\ session' \in Table /\ usage' \in Charges
  BY DEF TypeOK, Table, Charges
<1>2. Settled(session, usage) /\ Settled(session', usage')
  <2>1. Settled(session, usage)
    BY <1>1, TablesSettled DEF ChargedExactlyOnce
  <2>2. Settled(session', usage')
    BY <1>1, TablesSettled DEF ChargedExactlyOnce, Rows
  <2> QED
    BY <2>1, <2>2
<1> DEFINE n == NewSession(k, v, z)
<1>3. /\ n \in Session /\ n.user = v /\ n.rate \in Nat
      /\ n.started = clock /\ n.stopped = Open /\ n # NoSession
  BY NewSessionType, NoSessionNotSession, HubAssumption DEF NewSession, Rate
<1> HIDE DEF n
<1>4. session'[s] = n /\ \A t \in Sid : t # s => session'[t] = session[t]
  BY <1>1 DEF Table, n
<1>5. Rows(session') = Rows(session) \cup {s} /\ s \notin Rows(session)
  BY <1>3, <1>4 DEF Rows
<1> DEFINE M == Mine(u, session)
           N == Mine(u, session')
           f == RowCharge(usage)
           g == Accrued(session)
           h == Accrued(session')
<1>6. IsFiniteSet(M) /\ M \subseteq Rows(session) /\ s \notin M
  BY <1>5, MineFinite
<1>7. N = IF v = u THEN M \cup {s} ELSE M
  BY <1>3, <1>4, <1>5 DEF Mine, Rows
<1>8. \A t \in M : /\ f[t] \in Int /\ g[t] \in Int /\ h[t] \in Int
                   /\ f[t] + h[t] = f[t] + g[t] /\ f[t] + h[t] <= f[t] + g[t]
  <2> SUFFICES ASSUME NEW t \in M
               PROVE  /\ f[t] \in Int /\ g[t] \in Int /\ h[t] \in Int
                      /\ f[t] + h[t] = f[t] + g[t] /\ f[t] + h[t] <= f[t] + g[t]
    OBVIOUS
  <2>1. t \in Rows(session) /\ t \in Rows(session') /\ session'[t] = session[t]
    BY <1>4, <1>5, <1>6 DEF Rows
  <2>2. h[t] = g[t]
    BY <2>1 DEF Accrued
  <2>3. f[t] \in Int /\ g[t] \in Int
    BY <1>1, <1>2, <2>1, RowOwes
  <2> HIDE DEF f, g, h
  <2> QED
    BY <2>2, <2>3
<1>9. f[s] = 0 /\ h[s] = 0
  <2>1. s \in Rows(session')
    BY <1>5
  <2>2. ~n.charged /\ usage[s] = <<>>
    BY <1>2, <1>3, <1>4, <2>1 DEF Settled
  <2>3. f[s] = 0
    BY <2>2, NoCharge DEF RowCharge
  <2>4. h[s] = SessionCost(n.rate, clock, clock)
    BY <1>3, <1>4, <2>1, <2>2 DEF Accrued
  <2>5. SessionCost(n.rate, clock, clock) = 0
    BY <1>1, <1>3, HubAssumption DEF SessionCost, Later
  <2> QED
    BY <2>3, <2>4, <2>5
<1>10. /\ Owed(u, session, usage) = SumOf(f, M) + SumOf(g, M)
       /\ Owed(u, session', usage') = SumOf(f, N) + SumOf(h, N)
  BY DEF Owed
<1> HIDE DEF M, N, f, g, h
<1>11. SumOf(f, M) + SumOf(h, M) = SumOf(f, M) + SumOf(g, M)
  BY <1>6, <1>8, SumsCompare
<1>12. SumOf(f, M) \in Int /\ SumOf(h, M) \in Int
  BY <1>6, <1>8, SumInt
<1>13. SumOf(f, M \cup {s}) = 0 + SumOf(f, M) /\ SumOf(h, M \cup {s}) = 0 + SumOf(h, M)
  BY <1>6, <1>8, <1>9, SumWith
<1>14. SumOf(f, N) = SumOf(f, M) /\ SumOf(h, N) = SumOf(h, M)
  BY <1>7, <1>12, <1>13
<1> QED
  BY <1>10, <1>11, <1>14

(* A balance is what was granted minus what is owed, before and after a step. *)
LEMMA BalanceOwed ==
    ASSUME TypeOK, ChargedExactlyOnce, NEW u \in User
    PROVE  /\ Granted(u) \in Int
           /\ Owed(u, session, usage) \in Int
           /\ Balance(u) = Granted(u) - Owed(u, session, usage)
<1>1. clock \in Nat /\ session \in Table /\ usage \in Charges
  BY DEF TypeOK, Table, Charges
<1> DEFINE a == SumOf(RowCharge(usage), Mine(u, session))
           b == SumOf(Accrued(session), Mine(u, session))
<1>2. a \in Int /\ b \in Int /\ Owed(u, session, usage) \in Int
  <2>1. Settled(session, usage)
    BY <1>1, TablesSettled DEF ChargedExactlyOnce
  <2> QED
    BY <1>1, <2>1, OwedInt
<1>3. Granted(u) \in Int
  BY GrantTypes
<1>4. Balance(u) = Granted(u) - a - b /\ Owed(u, session, usage) = a + b
  BY DEF Balance, Account, Owed, Mine
<1> HIDE DEF a, b
<1> QED
  BY <1>2, <1>3, <1>4

LEMMA NextBalanceOwed ==
    ASSUME TypeOK', ChargedExactlyOnce', clock' = clock, NEW u \in User
    PROVE  /\ Granted(u)' \in Int
           /\ Owed(u, session', usage') \in Int
           /\ Balance(u)' = Granted(u)' - Owed(u, session', usage')
<1>1. clock \in Nat /\ session' \in Table /\ usage' \in Charges
  BY DEF TypeOK, Table, Charges
<1> DEFINE a == SumOf(RowCharge(usage'), Mine(u, session'))
           b == SumOf(Accrued(session'), Mine(u, session'))
<1>2. a \in Int /\ b \in Int /\ Owed(u, session', usage') \in Int
  <2>1. Settled(session', usage')
    BY <1>1, TablesSettled DEF ChargedExactlyOnce, Rows
  <2> QED
    BY <1>1, <2>1, OwedInt
<1>3. Granted(u)' \in Int
  BY HubAssumption DEF Granted, TypeOK
<1>4. Balance(u)' = Granted(u)' - a - b /\ Owed(u, session', usage') = a + b
  <2>1. Account(u, session, usage)' = Granted(u)' - a - b
    BY DEF Account, Mine, Accrued, Rows, RowCharge
  <2> QED
    BY <2>1 DEF Balance, Owed
<1> HIDE DEF a, b
<1> QED
  BY <1>2, <1>3, <1>4

(* A step at a standing clock that leaves what everybody owes to the charges. *)
LEMMA StepOwes ==
    ASSUME TypeOK, ChargedExactlyOnce, TypeOK', ChargedExactlyOnce', clock' = clock, Next,
           NEW u \in User
    PROVE  \/ Owed(u, session', usage') = Owed(u, session, usage)
           \/ /\ Owed(u, session', usage') <= Owed(u, session, usage)
              /\ \E k \in Server : Owner[k] = u /\ server[k] = "stopped"
                                   /\ server'[k] = "starting"
<1> DEFINE Goal == \/ Owed(u, session', usage') = Owed(u, session, usage)
                   \/ /\ Owed(u, session', usage') <= Owed(u, session, usage)
                      /\ \E k \in Server : Owner[k] = u /\ server[k] = "stopped"
                                           /\ server'[k] = "starting"
<1> SUFFICES Goal
  OBVIOUS
<1>1. ASSUME NEW k \in Server, NEW z \in Size, StartBegin(k, z)
      PROVE  Goal
  <2>1. k \in Key /\ Owner[k] \in User
    BY HubAssumption DEF Key
  <2>2. /\ session' = ClosedSessions(k, Owner[k], Open)
        /\ usage' = PostedUsage(k, Owner[k], Open)
        /\ server[k] = "stopped" /\ server'[k] = "starting"
    BY <1>1 DEF StartBegin, TypeOK
  <2>3. CASE Owner[k] = u
    <3>1. Owed(u, session', usage') <= Owed(u, session, usage)
      BY <2>1, <2>2, ClosingOwes
    <3> QED
      BY <2>2, <2>3, <3>1
  <2>4. CASE Owner[k] # u
    BY <2>1, <2>2, <2>4, ClosingOwes
  <2> QED
    BY <2>3, <2>4
<1>2. ASSUME NEW k \in Server, NEW s \in Sid, StartDone(k, s)
      PROVE  Goal
  <2>1. k \in Key /\ Owner[k] \in User /\ choice[k] \in Size
    BY <1>2, HubAssumption DEF StartDone, TypeOK, Key
  <2>2. /\ session[s] = NoSession /\ usage' = usage
        /\ session' = [session EXCEPT ![s] = NewSession(k, Owner[k], choice[k])]
    BY <1>2 DEF StartDone, NextSid, ledger
  <2> QED
    BY <2>1, <2>2, NewRowOwes
<1>3. ASSUME NEW w \in Worker, NEW v \in User, NEW z \in Size, NEW s \in Sid, WorkerOpen(w, v, z, s)
      PROVE  Goal
  <2>1. /\ w \in Key /\ session[s] = NoSession /\ usage' = usage
        /\ session' = [session EXCEPT ![s] = NewSession(w, v, z)]
    BY <1>3 DEF WorkerOpen, NextSid, Key
  <2> QED
    BY <2>1, NewRowOwes
<1>4. ASSUME NEW k \in Server, PostStop(k)
      PROVE  Goal
  <2>1. /\ k \in Key /\ Owner[k] \in User
        /\ session' = ClosedSessions(k, Owner[k], clock)
        /\ usage' = PostedUsage(k, Owner[k], clock)
    BY <1>4, HubAssumption DEF PostStop, Key
  <2> QED
    BY <2>1, ClosingOwes
<1>5. ASSUME NEW w \in Worker, WorkerClose(w)
      PROVE  Goal
  <2>1. PICK t \in OpenRows(session) : /\ session' = ClosedSessions(w, session[t].user, clock)
                                       /\ usage' = PostedUsage(w, session[t].user, clock)
    BY <1>5 DEF WorkerClose
  <2>2. w \in Key /\ session[t].user \in User
    BY DEF Key, TypeOK, OpenRows, Rows, Session
  <2> QED
    BY <2>1, <2>2, ClosingOwes
<1>6. ASSUME session' = session, usage' = usage
      PROVE  Goal
  BY <1>6
<1> HIDE DEF Goal
<1>7. ASSUME NEW k \in Server,
             \/ PodUp(k) \/ StartUnrecorded(k) \/ StartFails(k) \/ PollOutOfCredit(k)
             \/ StopAsked(k) \/ PodGone(k) \/ PostStopUnrecorded(k)
      PROVE  Goal
  <2>1. session' = session /\ usage' = usage
    BY <1>7 DEF PodUp, StartUnrecorded, StartFails, PollOutOfCredit, StopAsked, PodGone,
                PostStopUnrecorded, ledger
  <2> QED
    BY <1>6, <2>1
<1>8. ASSUME \/ HubRestart \/ Tick
             \/ \E v \in User : ShowAccount(v) \/ \E a \in Amounts : AddCredit(v, a)
      PROVE  Goal
  <2>1. session' = session /\ usage' = usage
    BY <1>8 DEF HubRestart, Tick, ShowAccount, AddCredit, ledger
  <2> QED
    BY <1>6, <2>1
<1> QED
  BY <1>1, <1>2, <1>3, <1>4, <1>5, <1>7, <1>8 DEF Next

(* Whatever the prices, the catalog and the interleaving, a balance moves by    *)
(* the credit granted and by nothing else as long as the clock stands, a start  *)
(* that closes a row left open giving money back.                               *)
THEOREM BalanceKept == Spec => ChargingKeepsBalance
<1> DEFINE Good == TypeOK /\ ChargedExactlyOnce
           Step(u) == \/ Balance(u)' - Balance(u) = Granted(u)' - Granted(u)
                      \/ /\ Balance(u)' - Balance(u) > Granted(u)' - Granted(u)
                         /\ \E k \in Server : Owner[k] = u /\ server[k] = "stopped"
                                              /\ server'[k] = "starting"
<1>1. ASSUME Good, Good', Next, clock' = clock, NEW u \in User
      PROVE  Step(u)
  <2> DEFINE b == Balance(u)
             c == Balance(u)'
             g == Granted(u)
             h == Granted(u)'
             o == Owed(u, session, usage)
             q == Owed(u, session', usage')
             Start == \E k \in Server : Owner[k] = u /\ server[k] = "stopped"
                                       /\ server'[k] = "starting"
  <2>1. g \in Int /\ o \in Int /\ b = g - o
    BY <1>1, BalanceOwed
  <2>2. h \in Int /\ q \in Int /\ c = h - q
    BY <1>1, NextBalanceOwed
  <2>3. q = o \/ (q <= o /\ Start)
    BY <1>1, StepOwes
  <2> HIDE DEF b, c, g, h, o, q, Start
  <2>4. c - b = h - g \/ (c - b > h - g /\ Start)
    BY <2>1, <2>2, <2>3
  <2> QED
    BY <2>4 DEF b, c, g, h, Start
<1>2. Good /\ Good' /\ [Next]_vars => [clock' = clock => \A u \in User : Step(u)]_vars
  BY <1>1
<1> QED
  BY <1>2, TypeCorrect, ChargingSafe, PTL DEF Spec, ChargingKeepsBalance

-----------------------------------------------------------------------------
(* One open session per key.  Not inductive alone: a start must have no open *)
(* row of its own while it waits, and the rows of a notebook server must     *)
(* belong to its owner, or the close before a start would miss them.         *)
NotebookRowsOwned ==
    \A s \in Rows(session) : session[s].key \in Server => session[s].user = Owner[session[s].key]
StartingHasNoRow ==
    \A k \in Starting : \A s \in OpenRows(session) : session[s].key # k
SessionInv == TypeOK /\ OneOpenSessionPerKey /\ NotebookRowsOwned /\ StartingHasNoRow

LEMMA ClosingKeepsSessionInv ==
    ASSUME SessionInv, NEW k \in Key, NEW u \in User, NEW stopped \in Nat \cup {Open},
           session' = ClosedSessions(k, u, stopped), choice' = choice, TypeOK'
    PROVE  SessionInv'
<1>1. /\ OpenRows(session') \subseteq OpenRows(session)
      /\ \A s \in OpenRows(session') : session'[s] = session[s]
  BY ClosingFreesUnits DEF SessionInv
<1>2. \A s \in Rows(session') : /\ s \in Rows(session)
                                /\ session'[s].key = session[s].key
                                /\ session'[s].user = session[s].user
  BY DEF ClosedSessions, Rows, ToClose, OpenRows, SessionInv, TypeOK, Session
<1>3. OneOpenSessionPerKey'
  BY <1>1 DEF SessionInv, OneOpenSessionPerKey
<1>4. NotebookRowsOwned'
  BY <1>2 DEF SessionInv, NotebookRowsOwned
<1>5. StartingHasNoRow'
  BY <1>1 DEF SessionInv, StartingHasNoRow, Starting
<1> QED
  BY <1>3, <1>4, <1>5 DEF SessionInv

LEMMA OpeningKeepsSessionInv ==
    ASSUME SessionInv, TypeOK', NEW s \in Sid, NEW k \in Key, NEW u \in User, NEW z \in Size,
           session[s] = NoSession, session' = [session EXCEPT ![s] = NewSession(k, u, z)],
           \A t \in OpenRows(session) : session[t].key # k,
           k \in Server => u = Owner[k],
           Starting' \subseteq Starting, k \notin Starting'
    PROVE  SessionInv'
<1> DEFINE r == NewSession(k, u, z)
<1>1. r \in Session /\ r.stopped = Open /\ r.key = k /\ r.user = u
  BY NewSessionType DEF NewSession, SessionInv
<1>2. session'[s] = r /\ \A t \in Sid : t # s => session'[t] = session[t]
  BY DEF SessionInv, TypeOK
<1> HIDE DEF r
<1>3. /\ OpenRows(session') = OpenRows(session) \cup {s}
      /\ Rows(session') = Rows(session) \cup {s}
      /\ s \notin Rows(session)
  BY <1>1, <1>2, NoSessionNotSession DEF OpenRows, Rows
<1>4. \A t \in Rows(session) : session'[t] = session[t]
  BY <1>2, <1>3 DEF Rows
<1>5. OneOpenSessionPerKey'
  BY <1>1, <1>2, <1>3, <1>4 DEF SessionInv, OneOpenSessionPerKey, OpenRows
<1>6. NotebookRowsOwned'
  <2> SUFFICES ASSUME NEW t \in Rows(session'), session'[t].key \in Server
               PROVE  session'[t].user = Owner[session'[t].key]
    BY DEF NotebookRowsOwned
  <2>1. CASE t = s
    BY <1>1, <1>2, <2>1
  <2>2. CASE t \in Rows(session)
    BY <1>4, <2>2 DEF SessionInv, NotebookRowsOwned
  <2> QED
    BY <1>3, <2>1, <2>2
<1>7. StartingHasNoRow'
  BY <1>1, <1>2, <1>3, <1>4 DEF SessionInv, StartingHasNoRow, OpenRows
<1> QED
  BY <1>5, <1>6, <1>7 DEF SessionInv

LEMMA SessionInvInductive == SessionInv /\ TypeOK' /\ [Next]_vars => SessionInv'
<1> SUFFICES ASSUME SessionInv, TypeOK', [Next]_vars
             PROVE  SessionInv'
  OBVIOUS
<1>1. ASSUME session' = session, Starting' \subseteq Starting
      PROVE  SessionInv'
  BY <1>1 DEF SessionInv, OneOpenSessionPerKey, NotebookRowsOwned, StartingHasNoRow, OpenRows, Rows
<1>2. ASSUME NEW k \in Server, NEW z \in Size, StartBegin(k, z)
      PROVE  SessionInv'
  <2>1. /\ k \in Key
        /\ Owner[k] \in User
        /\ session' = ClosedSessions(k, Owner[k], Open)
        /\ choice' = [choice EXCEPT ![k] = z]
    BY <1>2, HubAssumption DEF StartBegin, Key
  <2>2. /\ OpenRows(session') \subseteq OpenRows(session)
        /\ \A s \in OpenRows(session') : session'[s] = session[s]
    BY <2>1, ClosingFreesUnits DEF SessionInv
  <2>3. \A s \in Rows(session') : /\ s \in Rows(session)
                                  /\ session'[s].key = session[s].key
                                  /\ session'[s].user = session[s].user
    BY <2>1 DEF ClosedSessions, Rows, ToClose, OpenRows, SessionInv, TypeOK, Session
  <2>4. \A s \in OpenRows(session') : session'[s].key # k
    <3> SUFFICES ASSUME NEW s \in OpenRows(session'), session[s].key = k
                 PROVE  FALSE
      BY <2>2
    <3>1. s \in ToClose(k, Owner[k])
      BY <2>2 DEF ToClose, SessionInv, NotebookRowsOwned, OpenRows
    <3>2. session[s] \in Session /\ s \in Sid /\ session[s].stopped = Open
      BY <3>1 DEF ToClose, OpenRows, Rows, SessionInv, TypeOK
    <3>3. session'[s].stopped = session[s].started
      BY <2>1, <3>1, <3>2 DEF ClosedSessions, EndOf, Session
    <3> QED
      BY <3>2, <3>3 DEF OpenRows, Session, Open
  <2>5. Starting' \subseteq Starting \cup {k}
    BY <2>1 DEF Starting, SessionInv, TypeOK
  <2>6. OneOpenSessionPerKey'
    BY <2>2 DEF SessionInv, OneOpenSessionPerKey
  <2>7. NotebookRowsOwned'
    BY <2>3 DEF SessionInv, NotebookRowsOwned
  <2>8. StartingHasNoRow'
    BY <2>2, <2>4, <2>5 DEF SessionInv, StartingHasNoRow
  <2> QED
    BY <2>6, <2>7, <2>8 DEF SessionInv
<1>3. ASSUME NEW k \in Server, NEW s \in Sid, StartDone(k, s)
      PROVE  SessionInv'
  <2>1. /\ k \in Key
        /\ Owner[k] \in User
        /\ choice[k] \in Size
        /\ k \in Starting
    BY <1>3, HubAssumption DEF StartDone, SessionInv, TypeOK, Key, Starting
  <2>2. /\ session[s] = NoSession
        /\ session' = [session EXCEPT ![s] = NewSession(k, Owner[k], choice[k])]
        /\ choice' = [choice EXCEPT ![k] = NoSize]
    BY <1>3 DEF StartDone, NextSid
  <2>3. Starting' \subseteq Starting /\ k \notin Starting'
    BY <2>2 DEF Starting, SessionInv, TypeOK
  <2>4. \A t \in OpenRows(session) : session[t].key # k
    BY <2>1 DEF SessionInv, StartingHasNoRow
  <2> QED
    BY <2>1, <2>2, <2>3, <2>4, OpeningKeepsSessionInv
<1>4. ASSUME NEW w \in Worker, NEW u \in User, NEW z \in Size, NEW s \in Sid, WorkerOpen(w, u, z, s)
      PROVE  SessionInv'
  <2>1. w \in Key /\ w \notin Server
    BY HubAssumption DEF Key
  <2>2. /\ session[s] = NoSession
        /\ session' = [session EXCEPT ![s] = NewSession(w, u, z)]
        /\ choice' = choice
        /\ \A t \in OpenRows(session) : session[t].key # w
    BY <1>4 DEF WorkerOpen, NextSid, hubView
  <2>3. Starting' \subseteq Starting /\ w \notin Starting'
    BY <2>1, <2>2 DEF Starting
  <2> QED
    BY <2>1, <2>2, <2>3, OpeningKeepsSessionInv
<1>5. ASSUME NEW k \in Server, PostStop(k)
      PROVE  SessionInv'
  BY <1>5, ClosingKeepsSessionInv, HubAssumption DEF PostStop, Key, SessionInv, TypeOK
<1>6. ASSUME NEW w \in Worker, WorkerClose(w)
      PROVE  SessionInv'
  <2>1. PICK t \in OpenRows(session) :
           session' = ClosedSessions(w, session[t].user, clock) /\ choice' = choice
    BY <1>6 DEF WorkerClose, hubView
  <2>2. w \in Key /\ session[t].user \in User /\ clock \in Nat
    BY DEF Key, SessionInv, TypeOK, OpenRows, Rows, Session
  <2> QED
    BY <2>1, <2>2, ClosingKeepsSessionInv
<1>7. ASSUME NEW k \in Server,
             \/ PodUp(k) \/ StartUnrecorded(k) \/ StartFails(k) \/ PollOutOfCredit(k)
             \/ StopAsked(k) \/ PodGone(k) \/ PostStopUnrecorded(k)
      PROVE  SessionInv'
  <2>1. session' = session /\ (choice' = choice \/ choice' = [choice EXCEPT ![k] = NoSize])
    BY <1>7 DEF PodUp, StartUnrecorded, StartFails, PollOutOfCredit, StopAsked, PodGone,
                PostStopUnrecorded
  <2>2. Starting' \subseteq Starting
    BY <2>1 DEF Starting, SessionInv, TypeOK
  <2> QED
    BY <1>1, <2>1, <2>2
<1>8. ASSUME \/ HubRestart \/ Tick \/ UNCHANGED vars
             \/ \E u \in User : ShowAccount(u) \/ \E a \in Amounts : AddCredit(u, a)
      PROVE  SessionInv'
  <2>1. session' = session /\ (choice' = choice \/ choice' = [k \in Server |-> NoSize])
    BY <1>8 DEF HubRestart, Tick, vars, ShowAccount, AddCredit, hubView
  <2>2. Starting' \subseteq Starting
    BY <2>1 DEF Starting
  <2> QED
    BY <1>1, <2>1, <2>2
<1> QED
  BY <1>2, <1>3, <1>4, <1>5, <1>6, <1>7, <1>8 DEF Next

LEMMA InitSessionInv == Init => SessionInv
<1> SUFFICES ASSUME Init
             PROVE  SessionInv
  OBVIOUS
<1>1. TypeOK
  BY HubAssumption DEF Init, TypeOK
<1>2. Rows(session) = {} /\ OpenRows(session) = {}
  BY DEF Init, Rows, OpenRows
<1> QED
  BY <1>1, <1>2 DEF SessionInv, OneOpenSessionPerKey, NotebookRowsOwned, StartingHasNoRow

(* However a stop fails or the hub restarts, a server or worker never has two *)
(* open sessions.                                                             *)
THEOREM OneOpenSession == Spec => []OneOpenSessionPerKey
<1>1. SessionInv => OneOpenSessionPerKey
  BY DEF SessionInv
<1> QED
  BY <1>1, InitSessionInv, SessionInvInductive, TypeCorrect, PTL DEF Spec
-----------------------------------------------------------------------------
(* Sessions in time.  A row ends no later than now and no earlier than it     *)
(* began, and what a step does to the rows is to close some of those open, or *)
(* to begin one for a key that has none open.                                 *)
Timely ==
    \A s \in Rows(session) :
        /\ session[s].started <= clock
        /\ session[s].stopped # Open =>
              session[s].started <= session[s].stopped /\ session[s].stopped <= clock
SpanInv == SessionInv /\ Timely /\ NoMomentBilledTwice

(* A row after a step that closes rows: as it was, or closed at its start or now. *)
Follows(q, r) ==
    /\ q.key = r.key /\ q.started = r.started
    /\ q.stopped = r.stopped \/ (r.stopped = Open /\ q.stopped \in {r.started, clock})

LEMMA TimesTyped ==
    ASSUME TypeOK, NEW s \in Rows(session)
    PROVE  /\ s \in Sid /\ session[s] \in Session
           /\ session[s].started \in Nat
           /\ session[s].stopped # Open => session[s].stopped \in Nat
           /\ clock \in Nat
  BY DEF TypeOK, Rows, Session

LEMMA ClosingKeepsSpans ==
    ASSUME SpanInv, clock' \in Nat, clock <= clock',
           \A s \in Rows(session') : s \in Rows(session) /\ Follows(session'[s], session[s])
    PROVE  Timely' /\ NoMomentBilledTwice'
<1>0. TypeOK
  BY DEF SpanInv, SessionInv
<1>1. ASSUME NEW s \in Rows(session')
      PROVE  /\ session'[s].started <= clock'
             /\ session'[s].stopped # Open =>
                   session'[s].started <= session'[s].stopped /\ session'[s].stopped <= clock'
  <2> DEFINE r == session[s]
             q == session'[s]
  <2>1. /\ s \in Rows(session) /\ q.started = r.started
        /\ q.stopped = r.stopped \/ (r.stopped = Open /\ q.stopped \in {r.started, clock})
    BY <1>1 DEF Follows
  <2>2. /\ r.started \in Nat /\ clock \in Nat /\ clock' \in Nat /\ clock <= clock'
        /\ r.stopped # Open => r.stopped \in Nat
    BY <1>0, <2>1, TimesTyped
  <2>3. /\ r.started <= clock
        /\ r.stopped # Open => r.started <= r.stopped /\ r.stopped <= clock
    BY <2>1 DEF SpanInv, Timely
  <2> HIDE DEF r, q
  <2>4. /\ q.started <= clock'
        /\ q.stopped # Open => q.started <= q.stopped /\ q.stopped <= clock'
    BY <2>1, <2>2, <2>3
  <2> QED
    BY <2>4 DEF q
<1>2. ASSUME NEW s \in Rows(session'), NEW t \in Rows(session'), Before(session[s], session[t])
      PROVE  Before(session'[s], session'[t])
  <2>1. /\ s \in Rows(session) /\ t \in Rows(session)
        /\ session'[t].started = session[t].started
        /\ session[s].stopped # Open => session'[s].stopped = session[s].stopped
    BY <1>2 DEF Follows
  <2> QED
    BY <1>2, <2>1 DEF Before
<1>3. NoMomentBilledTwice'
  <2> SUFFICES ASSUME NEW s \in Rows(session'), NEW t \in Rows(session'),
                      s # t, session'[s].key = session'[t].key
               PROVE  Before(session'[s], session'[t]) \/ Before(session'[t], session'[s])
    BY DEF NoMomentBilledTwice, Before, Rows
  <2>1. s \in Rows(session) /\ t \in Rows(session) /\ session[s].key = session[t].key
    BY DEF Follows
  <2>2. Before(session[s], session[t]) \/ Before(session[t], session[s])
    BY <2>1 DEF SpanInv, NoMomentBilledTwice
  <2> QED
    BY <1>2, <2>2
<1>4. Timely'
  BY <1>1 DEF Timely, Rows
<1> QED
  BY <1>3, <1>4

LEMMA OpeningKeepsSpans ==
    ASSUME SpanInv, clock' = clock, NEW s \in Sid, NEW k \in Key, NEW u \in User, NEW z \in Size,
           session[s] = NoSession, session' = [session EXCEPT ![s] = NewSession(k, u, z)],
           \A t \in OpenRows(session) : session[t].key # k
    PROVE  Timely' /\ NoMomentBilledTwice'
<1>0. TypeOK
  BY DEF SpanInv, SessionInv
<1> DEFINE r == NewSession(k, u, z)
<1>1. r \in Session /\ r.stopped = Open /\ r.key = k /\ r.started = clock
  BY <1>0, NewSessionType DEF NewSession
<1> HIDE DEF r
<1>2. session'[s] = r /\ \A t \in Sid : t # s => session'[t] = session[t]
  BY <1>0 DEF TypeOK, r
<1>3. \A t \in Rows(session') : t # s => t \in Rows(session) /\ session'[t] = session[t]
  BY <1>2 DEF Rows
<1>4. clock \in Nat /\ clock <= clock
  BY <1>0 DEF TypeOK
<1>5. Timely'
  <2> SUFFICES ASSUME NEW t \in Rows(session')
               PROVE  /\ session'[t].started <= clock
                      /\ session'[t].stopped # Open =>
                            session'[t].started <= session'[t].stopped /\ session'[t].stopped <= clock
    BY DEF Timely, Rows
  <2>1. CASE t = s
    BY <1>1, <1>2, <1>4, <2>1
  <2>2. CASE t # s
    BY <1>3, <2>2 DEF SpanInv, Timely
  <2> QED
    BY <2>1, <2>2
(* Whatever the key had before has ended by now, which is when the row begins. *)
<1>6. ASSUME NEW t \in Rows(session'), t # s, session'[t].key = k
      PROVE  Before(session'[t], session'[s])
  <2>1. t \in Rows(session) /\ session'[t] = session[t]
    BY <1>3, <1>6
  <2>2. session[t].stopped # Open
    BY <1>6, <2>1 DEF OpenRows
  <2>3. session[t].stopped <= clock
    BY <2>1, <2>2 DEF SpanInv, Timely
  <2> QED
    BY <1>1, <1>2, <2>1, <2>2, <2>3 DEF Before
<1>7. NoMomentBilledTwice'
  <2> SUFFICES ASSUME NEW a \in Rows(session'), NEW b \in Rows(session'),
                      a # b, session'[a].key = session'[b].key
               PROVE  Before(session'[a], session'[b]) \/ Before(session'[b], session'[a])
    BY DEF NoMomentBilledTwice, Before, Rows
  <2>1. CASE a = s \/ b = s
    BY <1>1, <1>2, <1>6, <2>1
  <2>2. CASE a # s /\ b # s
    BY <1>3, <2>2 DEF SpanInv, NoMomentBilledTwice
  <2> QED
    BY <2>1, <2>2
<1> QED
  BY <1>5, <1>7

LEMMA ClosedFollow ==
    ASSUME TypeOK, NEW k \in Key, NEW u \in User, NEW stopped \in {Open, clock},
           session' = ClosedSessions(k, u, stopped)
    PROVE  \A s \in Rows(session') : s \in Rows(session) /\ Follows(session'[s], session[s])
<1> SUFFICES ASSUME NEW s \in Rows(session')
             PROVE  s \in Rows(session) /\ Follows(session'[s], session[s])
  OBVIOUS
<1>1. CASE s \in ToClose(k, u)
  <2> DEFINE r == session[s]
             e == EndOf(r, stopped)
  <2>1. s \in Rows(session) /\ r.stopped = Open
    BY <1>1 DEF ToClose, OpenRows
  <2>2. s \in Sid /\ r \in Session /\ clock \in Nat
    BY <2>1, TimesTyped
  <2>3. e \in {r.started, clock}
    BY DEF EndOf
  <2>4. session'[s] = [r EXCEPT !.stopped = e, !.charged = TRUE]
    BY <1>1, <2>2 DEF ClosedSessions
  <2> HIDE DEF e
  <2>5. /\ session'[s].stopped = e /\ session'[s].key = r.key
        /\ session'[s].started = r.started
    BY <2>2, <2>4 DEF Session
  <2> QED
    BY <2>1, <2>3, <2>5 DEF Follows
<1>2. CASE s \notin ToClose(k, u)
  BY <1>2 DEF ClosedSessions, Rows, Follows
<1> QED
  BY <1>1, <1>2

LEMMA SpansStay == SpanInv /\ TypeOK' /\ [Next]_vars => Timely' /\ NoMomentBilledTwice'
<1> SUFFICES ASSUME SpanInv, TypeOK', [Next]_vars
             PROVE  Timely' /\ NoMomentBilledTwice'
  OBVIOUS
<1>0. SessionInv /\ TypeOK /\ clock \in Nat /\ clock' \in Nat
  BY DEF SpanInv, SessionInv, TypeOK
<1>1. ASSUME NEW k \in Key, NEW u \in User, NEW stopped \in {Open, clock},
             session' = ClosedSessions(k, u, stopped), clock' = clock
      PROVE  Timely' /\ NoMomentBilledTwice'
  <2>1. clock <= clock'
    BY <1>0, <1>1
  <2> QED
    BY <1>0, <1>1, <2>1, ClosedFollow, ClosingKeepsSpans
<1>2. ASSUME NEW k \in Server, PostStop(k) \/ \E z \in Size : StartBegin(k, z)
      PROVE  Timely' /\ NoMomentBilledTwice'
  <2>1. k \in Key /\ Owner[k] \in User /\ clock' = clock
    BY <1>2, HubAssumption DEF Key, StartBegin, PostStop
  <2>2. \E stopped \in {Open, clock} : session' = ClosedSessions(k, Owner[k], stopped)
    BY <1>2 DEF StartBegin, PostStop
  <2> QED
    BY <1>1, <2>1, <2>2
<1>3. ASSUME NEW w \in Worker, WorkerClose(w)
      PROVE  Timely' /\ NoMomentBilledTwice'
  <2>1. PICK t \in OpenRows(session) :
           session' = ClosedSessions(w, session[t].user, clock) /\ clock' = clock
    BY <1>3 DEF WorkerClose
  <2>2. w \in Key /\ session[t].user \in User
    BY <1>0 DEF Key, TypeOK, OpenRows, Rows, Session
  <2> QED
    BY <1>1, <2>1, <2>2
<1>4. ASSUME NEW k \in Server, NEW s \in Sid, StartDone(k, s)
      PROVE  Timely' /\ NoMomentBilledTwice'
  <2>1. k \in Key /\ Owner[k] \in User /\ choice[k] \in Size /\ k \in Starting
    BY <1>0, <1>4, HubAssumption DEF StartDone, TypeOK, Key, Starting
  <2>2. /\ session[s] = NoSession /\ clock' = clock
        /\ session' = [session EXCEPT ![s] = NewSession(k, Owner[k], choice[k])]
    BY <1>4 DEF StartDone, NextSid
  <2>3. \A t \in OpenRows(session) : session[t].key # k
    BY <1>0, <2>1 DEF SessionInv, StartingHasNoRow
  <2> QED
    BY <2>1, <2>2, <2>3, OpeningKeepsSpans
<1>5. ASSUME NEW w \in Worker, NEW u \in User, NEW z \in Size, NEW s \in Sid, WorkerOpen(w, u, z, s)
      PROVE  Timely' /\ NoMomentBilledTwice'
  <2>1. /\ w \in Key /\ session[s] = NoSession /\ clock' = clock
        /\ session' = [session EXCEPT ![s] = NewSession(w, u, z)]
        /\ \A t \in OpenRows(session) : session[t].key # w
    BY <1>5 DEF WorkerOpen, NextSid, Key
  <2> QED
    BY <2>1, OpeningKeepsSpans
<1>6. ASSUME session' = session, clock <= clock'
      PROVE  Timely' /\ NoMomentBilledTwice'
  BY <1>0, <1>6, ClosingKeepsSpans DEF Follows
<1>7. ASSUME NEW k \in Server,
             \/ PodUp(k) \/ StartUnrecorded(k) \/ StartFails(k) \/ PollOutOfCredit(k)
             \/ StopAsked(k) \/ PodGone(k) \/ PostStopUnrecorded(k)
      PROVE  Timely' /\ NoMomentBilledTwice'
  <2>1. session' = session /\ clock' = clock
    BY <1>7 DEF PodUp, StartUnrecorded, StartFails, PollOutOfCredit, StopAsked, PodGone,
                PostStopUnrecorded
  <2> QED
    BY <1>0, <1>6, <2>1
<1>8. ASSUME \/ HubRestart \/ Tick \/ UNCHANGED vars
             \/ \E u \in User : ShowAccount(u) \/ \E a \in Amounts : AddCredit(u, a)
      PROVE  Timely' /\ NoMomentBilledTwice'
  <2>1. session' = session /\ (clock' = clock \/ clock' = clock + 1)
    BY <1>8 DEF HubRestart, Tick, vars, ShowAccount, AddCredit
  <2> QED
    BY <1>0, <1>6, <2>1
<1> QED
  BY <1>2, <1>3, <1>4, <1>5, <1>7, <1>8 DEF Next

(* However stops fail, starts are repeated or the hub restarts, no moment of a *)
(* server or of a worker is on two bills.                                     *)
THEOREM BilledOnce == Spec => []NoMomentBilledTwice
<1>1. Init => SpanInv
  <2> SUFFICES ASSUME Init
               PROVE  SpanInv
    OBVIOUS
  <2>1. Rows(session) = {}
    BY DEF Init, Rows
  <2> QED
    BY <2>1, InitSessionInv DEF SpanInv, Timely, NoMomentBilledTwice
<1>2. SpanInv /\ TypeOK' /\ [Next]_vars => SpanInv'
  BY SpansStay, SessionInvInductive DEF SpanInv
<1>3. SpanInv => NoMomentBilledTwice
  BY DEF SpanInv
<1> QED
  BY <1>1, <1>2, <1>3, TypeCorrect, PTL DEF Spec
-----------------------------------------------------------------------------
(* The notebooks that run.  Whatever fails, a running notebook with an open    *)
(* row holds what its row says: a pod comes up only for a start, which has no  *)
(* row yet, and the row is given the size the pod came up with.                *)
PodsMatchRows ==
    \A s \in OpenRows(session) : \A k \in Server :
        session[s].key = k => pod[k] \in {NoSize, session[s].size}

LEMMA RowsLeavePods ==
    ASSUME PodsMatchRows, OpenRows(session') \subseteq OpenRows(session),
           \A s \in OpenRows(session') : session'[s] = session[s],
           \A k \in Server : pod'[k] \in {pod[k], NoSize}
    PROVE  PodsMatchRows'
  BY DEF PodsMatchRows

LEMMA PodsMatchInductive ==
    SessionInv /\ PodsMatchRows /\ TypeOK' /\ [Next]_vars => PodsMatchRows'
<1> SUFFICES ASSUME SessionInv, PodsMatchRows, TypeOK', [Next]_vars
             PROVE  PodsMatchRows'
  OBVIOUS
<1>0. TypeOK
  BY DEF SessionInv
<1>1. ASSUME session' = session, \A k \in Server : pod'[k] \in {pod[k], NoSize}
      PROVE  PodsMatchRows'
  BY <1>1, RowsLeavePods DEF OpenRows, Rows
<1>2. ASSUME NEW j \in Key, NEW u \in User, NEW e \in Nat \cup {Open},
             session' = ClosedSessions(j, u, e), pod' = pod
      PROVE  PodsMatchRows'
  <2>1. /\ OpenRows(session') \subseteq OpenRows(session)
        /\ \A s \in OpenRows(session') : session'[s] = session[s]
    BY <1>0, <1>2, ClosingFreesUnits
  <2> QED
    BY <1>2, <2>1, RowsLeavePods
<1>3. ASSUME NEW s \in Sid, NEW r \in Session, r.stopped = Open, session[s] = NoSession,
             session' = [session EXCEPT ![s] = r], pod' = pod,
             \A k \in Server : r.key = k => pod[k] \in {NoSize, r.size}
      PROVE  PodsMatchRows'
  <2>1. OpenRows(session') = OpenRows(session) \cup {s}
    <3>1. session \in Table
      BY <1>0 DEF TypeOK, Table
    <3> QED
      BY <1>3, <3>1, AddRow
  <2>2. session'[s] = r /\ \A t \in Sid : t # s => session'[t] = session[t]
    BY <1>0, <1>3 DEF TypeOK
  <2>3. OpenRows(session) \subseteq Sid
    BY DEF OpenRows, Rows
  <2> QED
    BY <1>3, <2>1, <2>2, <2>3 DEF PodsMatchRows
<1>4. ASSUME NEW k \in Server, \/ PostStop(k)
                               \/ \E z \in Size : StartBegin(k, z)
      PROVE  PodsMatchRows'
  <2>1. k \in Key /\ Owner[k] \in User /\ clock \in Nat
    BY <1>0, HubAssumption DEF Key, TypeOK
  <2>2. \E e \in Nat \cup {Open} : session' = ClosedSessions(k, Owner[k], e) /\ pod' = pod
    BY <1>4, <2>1 DEF PostStop, StartBegin
  <2> QED
    BY <1>2, <2>1, <2>2
<1>5. ASSUME NEW k \in Server, PodUp(k)
      PROVE  PodsMatchRows'
  <2>1. session' = session /\ k \in Starting /\ \A j \in Server : j # k => pod'[j] = pod[j]
    BY <1>0, <1>5 DEF PodUp, Starting, TypeOK
  <2>2. \A s \in OpenRows(session) : session[s].key # k
    BY <2>1 DEF SessionInv, StartingHasNoRow
  <2> QED
    BY <2>1, <2>2 DEF PodsMatchRows, OpenRows, Rows
<1>6. ASSUME NEW k \in Server, NEW s \in Sid, StartDone(k, s)
      PROVE  PodsMatchRows'
  <2> DEFINE r == NewSession(k, Owner[k], choice[k])
  <2>1. session[s] = NoSession /\ session' = [session EXCEPT ![s] = r] /\ pod' = pod
        /\ pod[k] = choice[k] /\ choice[k] \in Size
    BY <1>0, <1>6 DEF StartDone, NextSid, TypeOK
  <2>2. r \in Session
    BY <1>0, <2>1, NewSessionType, HubAssumption DEF Key
  <2>3. r.stopped = Open /\ r.key = k /\ r.size = pod[k]
    BY <2>1 DEF NewSession
  <2> HIDE DEF r
  <2> QED
    BY <1>3, <2>1, <2>2, <2>3
<1>7. ASSUME NEW w \in Worker, NEW u \in User, NEW z \in Size, NEW s \in Sid, WorkerOpen(w, u, z, s)
      PROVE  PodsMatchRows'
  <2> DEFINE r == NewSession(w, u, z)
  <2>1. session[s] = NoSession /\ session' = [session EXCEPT ![s] = r] /\ pod' = pod
    BY <1>7 DEF WorkerOpen, NextSid, hubView
  <2>2. r \in Session
    BY <1>0, NewSessionType DEF Key
  <2>3. r.stopped = Open /\ r.key \notin Server
    BY HubAssumption DEF NewSession
  <2> HIDE DEF r
  <2> QED
    BY <1>3, <2>1, <2>2, <2>3
<1>8. ASSUME NEW w \in Worker, WorkerClose(w)
      PROVE  PodsMatchRows'
  <2>1. PICK t \in OpenRows(session) : session' = ClosedSessions(w, session[t].user, clock)
                                       /\ pod' = pod
    BY <1>8 DEF WorkerClose, hubView
  <2>2. w \in Key /\ session[t].user \in User /\ clock \in Nat
    BY <1>0 DEF Key, TypeOK, OpenRows, Rows, Session
  <2> QED
    BY <1>2, <2>1, <2>2
<1>9. ASSUME NEW k \in Server, PodGone(k)
      PROVE  PodsMatchRows'
  BY <1>0, <1>1, <1>9 DEF PodGone, TypeOK
<1>10. ASSUME NEW k \in Server,
              \/ StartUnrecorded(k) \/ StartFails(k) \/ PollOutOfCredit(k)
              \/ StopAsked(k) \/ PostStopUnrecorded(k)
       PROVE  PodsMatchRows'
  BY <1>1, <1>10 DEF StartUnrecorded, StartFails, PollOutOfCredit, StopAsked, PostStopUnrecorded
<1>11. ASSUME \/ HubRestart \/ Tick \/ UNCHANGED vars
              \/ \E u \in User : ShowAccount(u) \/ \E a \in Amounts : AddCredit(u, a)
       PROVE  PodsMatchRows'
  BY <1>1, <1>11 DEF HubRestart, Tick, vars, ShowAccount, AddCredit, hubView
<1> QED
  BY <1>4, <1>5, <1>6, <1>7, <1>8, <1>9, <1>10, <1>11 DEF Next

(* Units of recorded notebooks are units of their rows, none of which is a     *)
(* worker's.                                                                  *)
LEMMA RecordedFit ==
    ASSUME TypeOK, PodsMatchRows, NEW p
    PROVE  /\ IsFiniteSet(RecordedUnits(p))
           /\ Cardinality(RecordedUnits(p)) <= Cardinality(SessionUnits(session, p) \ WorkerUnitsOf(p))
<1> DEFINE S == RecordedUnits(p)
           T == SessionUnits(session, p) \ WorkerUnitsOf(p)
           RowOf(k) == CHOOSE s \in OpenRows(session) : session[s].key = k
           f == [x \in S |-> <<RowOf(x[1]), x[2]>>]
<1>1. ASSUME NEW k \in Recorded
      PROVE  /\ k \in Server /\ RowOf(k) \in OpenRows(session) /\ session[RowOf(k)].key = k
             /\ session[RowOf(k)].size = pod[k]
  <2>1. k \in Server /\ pod[k] # NoSize /\ \E s \in OpenRows(session) : session[s].key = k
    BY DEF Recorded
  <2>2. RowOf(k) \in OpenRows(session) /\ session[RowOf(k)].key = k
    BY <2>1
  <2> HIDE DEF RowOf
  <2> QED
    BY <2>1, <2>2 DEF PodsMatchRows
<1>2. ASSUME NEW x \in S
      PROVE  /\ x = <<x[1], x[2]>> /\ x[1] \in Recorded
             /\ <<RowOf(x[1]), x[2]>> \in T
  <2>1. PICK k \in Recorded : x \in UnitsOf(k, pod[k], p)
    BY <1>2 DEF RecordedUnits
  <2>2. SizePool[pod[k]] = p /\ x[1] = k /\ x[2] \in 1..SizeGpus[pod[k]] /\ x = <<x[1], x[2]>>
    BY <2>1 DEF UnitsOf
  <2>3. /\ k \in Server /\ RowOf(k) \in OpenRows(session) /\ session[RowOf(k)].key = k
        /\ session[RowOf(k)].size = pod[k]
    BY <1>1, <2>1
  <2> HIDE DEF RowOf
  <2>4. <<RowOf(k), x[2]>> \in SessionUnits(session, p)
    BY <2>2, <2>3 DEF SessionUnits, UnitsOf
  <2>5. RowOf(k) \notin WorkerRows(session)
    BY <2>3, HubAssumption DEF WorkerRows
  <2>6. <<RowOf(k), x[2]>> \notin WorkerUnitsOf(p)
    BY <2>5 DEF WorkerUnitsOf
  <2> QED
    BY <2>1, <2>2, <2>4, <2>6
<1>3. f \in Injection(S, T)
  <2>1. f \in [S -> T]
    BY <1>2
  <2>2. ASSUME NEW x \in S, NEW y \in S, f[x] = f[y]
        PROVE  x = y
    <3> HIDE DEF RowOf, S
    <3>1. f[x] = <<RowOf(x[1]), x[2]>> /\ f[y] = <<RowOf(y[1]), y[2]>>
      OBVIOUS
    <3>2. RowOf(x[1]) = RowOf(y[1]) /\ x[2] = y[2]
      BY <2>2, <3>1
    <3>3. /\ x = <<x[1], x[2]>> /\ x[1] \in Recorded
          /\ y = <<y[1], y[2]>> /\ y[1] \in Recorded
      BY <1>2
    <3>4. session[RowOf(x[1])].key = x[1] /\ session[RowOf(y[1])].key = y[1]
      BY <1>1, <3>3
    <3> QED
      BY <3>2, <3>3, <3>4
  <2> HIDE DEF f, S, T
  <2> QED
    BY <2>1, <2>2 DEF Injection, IsInjective
<1>4. IsFiniteSet(T)
  BY RowUnitsFinite, FS_Subset DEF TypeOK, Table
<1> HIDE DEF S, T, f
<1>5. IsFiniteSet(S) /\ Cardinality(S) <= Cardinality(T)
  BY <1>3, <1>4, FS_Injection
<1> QED
  BY <1>5 DEF S, T

LEMMA Admitted ==
    ASSUME TypeOK, PodsMatchRows, RowsWithinCapacity
    PROVE  AdmissionWithinCapacity
<1>1. ASSUME NEW p \in Pool
      PROVE  Cardinality(RecordedUnits(p)) + Cardinality(StartingUnits(p))
                + Cardinality(WorkerUnitsOf(p)) <= Cap[p]
  <2>1. PICK S : S = SessionUnits(session, p)
    OBVIOUS
  <2>2. PICK W : W = WorkerUnitsOf(p)
    OBVIOUS
  <2>3. IsFiniteSet(S) /\ W \subseteq S
    BY <2>1, <2>2, RowUnitsFinite DEF TypeOK, Table, WorkerUnitsOf
  <2>4. IsFiniteSet(W) /\ Cardinality(W) \in Nat /\ Cardinality(S) \in Nat
    BY <2>3, FS_Subset, FS_CardinalityType
  <2>5. Cardinality(S \ W) = Cardinality(S) - Cardinality(W)
    <3>1. S \cap W = W
      BY <2>3
    <3> QED
      BY <2>3, <2>4, <3>1, FS_Difference
  <2>6. IsFiniteSet(RecordedUnits(p)) /\ Cardinality(RecordedUnits(p)) <= Cardinality(S \ W)
    BY <2>1, <2>2, RecordedFit
  <2>7. Cardinality(StartingUnits(p)) \in Nat
    BY StartingUnitsFinite, FS_CardinalityType
  <2>8. Cardinality(S) + Cardinality(StartingUnits(p)) <= Cap[p]
    BY <2>1 DEF RowsWithinCapacity, GpusInUse
  <2>9. Cardinality(RecordedUnits(p)) \in Nat /\ Cap[p] \in Nat
    BY <2>6, FS_CardinalityType, HubAssumption
  <2> QED
    BY <2>2, <2>4, <2>5, <2>6, <2>7, <2>8, <2>9
<1> QED
  BY <1>1 DEF AdmissionWithinCapacity, RowsWithinCapacity

(* For every catalog, however starts, worker opens, stops, failures and hub    *)
(* restarts interleave: the notebooks that run with a row, those being started *)
(* and the workers fit the GPUs of each pool, and the workers fit their cap.   *)
THEOREM AdmissionSafe == Spec => []AdmissionWithinCapacity
<1>1. Init => PodsMatchRows
  BY DEF Init, PodsMatchRows, OpenRows, Rows
<1> QED
  BY <1>1, InitSessionInv, SessionInvInductive, PodsMatchInductive, Admitted, RowsFit,
     TypeCorrect, PTL DEF Spec
-----------------------------------------------------------------------------
(* The books and the cluster.  Until a fault, a running server has an open row. *)
Row(k) == \E s \in OpenRows(session) : session[s].key = k
BookedOf(k) ==
    /\ choice[k] # NoSize => server[k] = "starting"
    /\ server[k] = "running" => Row(k)
Booked == faults = 0 => \A k \in Server : BookedOf(k)

LEMMA RowSurvives ==
    ASSUME TypeOK, TypeOK', NEW k \in Server, Row(k),
           \/ session' = session
           \/ \E s \in Sid, r \in Session : /\ session[s] = NoSession
                                            /\ session' = [session EXCEPT ![s] = r]
           \/ \E j \in Key, u \in User, e \in Nat \cup {Open} :
                 j # k /\ session' = ClosedSessions(j, u, e)
    PROVE  Row(k)'
<1>1. PICK s \in OpenRows(session) : session[s].key = k
  BY DEF Row
<1>2. s \in Sid /\ session[s] \in Session /\ session[s] # NoSession /\ session[s].stopped = Open
  BY NoSessionNotSession DEF OpenRows, Rows, TypeOK
<1>3. session'[s] = session[s]
  <2>1. ASSUME NEW j \in Key, NEW u \in User, NEW e \in Nat \cup {Open}, j # k,
               session' = ClosedSessions(j, u, e)
        PROVE  session'[s] = session[s]
    BY <1>1, <1>2, <2>1 DEF ClosedSessions, ToClose
  <2>2. ASSUME NEW t \in Sid, NEW r \in Session, session[t] = NoSession,
               session' = [session EXCEPT ![t] = r]
        PROVE  session'[s] = session[s]
    BY <1>2, <2>2 DEF TypeOK
  <2> QED
    BY <2>1, <2>2
<1>4. s \in OpenRows(session')
  BY <1>2, <1>3 DEF OpenRows, Rows
<1> QED
  BY <1>1, <1>3, <1>4 DEF Row

LEMMA BookedInductive == TypeOK /\ TypeOK' /\ Booked /\ [Next]_vars => Booked'
<1> SUFFICES ASSUME TypeOK, TypeOK', Booked, [Next]_vars, faults' = 0, NEW k \in Server
             PROVE  BookedOf(k)'
  BY DEF Booked
<1>1. faults = 0 => BookedOf(k)
  BY DEF Booked
<1>2. ASSUME faults = 0, choice'[k] = choice[k], server'[k] = server[k], Row(k) => Row(k)'
      PROVE  BookedOf(k)'
  BY <1>1, <1>2 DEF BookedOf
<1>3. ASSUME session' = session, UNCHANGED <<choice, server, faults>>
      PROVE  BookedOf(k)'
  BY <1>2, <1>3, RowSurvives
<1>4. ASSUME NEW j \in Server, NEW z \in Size, StartBegin(j, z)
      PROVE  BookedOf(k)'
  <2>1. CASE j = k
    BY <1>4, <2>1 DEF StartBegin, TypeOK, BookedOf
  <2>2. CASE j # k
    <3>1. /\ choice'[k] = choice[k] /\ server'[k] = server[k] /\ faults = 0
          /\ session' = ClosedSessions(j, Owner[j], Open)
      BY <1>4, <2>2 DEF StartBegin, TypeOK
    <3>2. j \in Key /\ Owner[j] \in User
      BY HubAssumption DEF Key
    <3> QED
      BY <1>2, <2>2, <3>1, <3>2, RowSurvives
  <2> QED
    BY <2>1, <2>2
<1>5. ASSUME NEW j \in Server, PodUp(j) \/ PodGone(j)
      PROVE  BookedOf(k)'
  BY <1>3, <1>5 DEF PodUp, PodGone
<1>6. ASSUME NEW j \in Server, NEW s \in Sid, StartDone(j, s)
      PROVE  BookedOf(k)'
  <2> DEFINE r == NewSession(j, Owner[j], choice[j])
  <2>1. /\ session[s] = NoSession /\ faults = 0 /\ choice[j] \in Size
        /\ session' = [session EXCEPT ![s] = r]
        /\ choice' = [choice EXCEPT ![j] = NoSize] /\ server' = [server EXCEPT ![j] = "running"]
    BY <1>6 DEF StartDone, NextSid, TypeOK
  <2>2. r \in Session
    BY <2>1, NewSessionType, HubAssumption DEF Key
  <2>3. r.key = j /\ r.stopped = Open
    BY DEF NewSession
  <2> HIDE DEF r
  <2>4. CASE j = k
    <3>1. session'[s] = r
      BY <2>1 DEF TypeOK
    <3>2. s \in OpenRows(session')
      BY <2>2, <2>3, <3>1, NoSessionNotSession DEF OpenRows, Rows
    <3>3. Row(k)'
      BY <2>3, <2>4, <3>1, <3>2 DEF Row
    <3>4. choice'[k] = NoSize /\ server'[k] = "running"
      BY <2>1, <2>4 DEF TypeOK
    <3> QED
      BY <3>3, <3>4 DEF BookedOf
  <2>5. CASE j # k
    <3>1. choice'[k] = choice[k] /\ server'[k] = server[k]
      BY <2>1, <2>5 DEF TypeOK
    <3> QED
      BY <1>2, <2>1, <2>2, <3>1, RowSurvives
  <2> QED
    BY <2>4, <2>5
<1>7. ASSUME NEW j \in Server, StartFails(j) \/ StopAsked(j) \/ PollOutOfCredit(j)
      PROVE  BookedOf(k)'
  <2>1. /\ session' = session /\ faults = 0
        /\ server' = [server EXCEPT ![j] = "stopping"]
    BY <1>7 DEF StartFails, StopAsked, PollOutOfCredit
  <2>2. \/ choice' = [choice EXCEPT ![j] = NoSize]
        \/ choice' = choice /\ server[j] = "running"
    BY <1>7 DEF StartFails, StopAsked, PollOutOfCredit
  <2>3. CASE j = k
    <3>1. server'[k] = "stopping"
      BY <2>1, <2>3 DEF TypeOK
    <3>2. choice'[k] = NoSize
      BY <1>1, <2>1, <2>2, <2>3 DEF BookedOf, TypeOK
    <3> QED
      BY <3>1, <3>2 DEF BookedOf
  <2>4. CASE j # k
    <3>1. choice'[k] = choice[k] /\ server'[k] = server[k]
      BY <2>1, <2>2, <2>4 DEF TypeOK
    <3> QED
      BY <1>2, <2>1, <3>1, RowSurvives
  <2> QED
    BY <2>3, <2>4
<1>8. ASSUME NEW j \in Server, PostStop(j)
      PROVE  BookedOf(k)'
  <2>1. /\ session' = ClosedSessions(j, Owner[j], clock) /\ server[j] = "stopping"
        /\ choice' = choice /\ server' = [server EXCEPT ![j] = "stopped"] /\ faults = 0
    BY <1>8 DEF PostStop, TypeOK
  <2>2. CASE j = k
    BY <1>1, <2>1, <2>2 DEF BookedOf, TypeOK
  <2>3. CASE j # k
    <3>1. j \in Key /\ Owner[j] \in User /\ clock \in Nat
      BY HubAssumption DEF Key, TypeOK
    <3>2. server'[k] = server[k]
      BY <2>1, <2>3 DEF TypeOK
    <3> QED
      BY <1>2, <2>1, <2>3, <3>1, <3>2, RowSurvives
  <2> QED
    BY <2>2, <2>3
<1>9. ASSUME NEW w \in Worker, NEW u \in User, NEW z \in Size, NEW s \in Sid, WorkerOpen(w, u, z, s)
      PROVE  BookedOf(k)'
  <2>1. /\ session[s] = NoSession /\ faults = 0 /\ UNCHANGED <<choice, server>>
        /\ session' = [session EXCEPT ![s] = NewSession(w, u, z)]
    BY <1>9 DEF WorkerOpen, NextSid, hubView
  <2>2. NewSession(w, u, z) \in Session
    BY NewSessionType DEF Key
  <2> QED
    BY <1>2, <2>1, <2>2, RowSurvives
<1>10. ASSUME NEW w \in Worker, WorkerClose(w)
       PROVE  BookedOf(k)'
  <2>1. PICK t \in OpenRows(session) : /\ session' = ClosedSessions(w, session[t].user, clock)
                                       /\ UNCHANGED <<hubView, faults>>
    BY <1>10 DEF WorkerClose
  <2>2. w \in Key /\ w # k /\ session[t].user \in User /\ clock \in Nat
    BY HubAssumption DEF Key, TypeOK, OpenRows, Rows, Session
  <2>3. faults = 0 /\ UNCHANGED <<choice, server>>
    BY <2>1 DEF hubView
  <2> QED
    BY <1>2, <2>1, <2>2, <2>3, RowSurvives
<1>11. ASSUME HubRestart \/ \E j \in Server : StartUnrecorded(j) \/ PostStopUnrecorded(j)
       PROVE  FALSE
  BY <1>11, HubAssumption DEF HubRestart, StartUnrecorded, PostStopUnrecorded, TypeOK
<1>12. ASSUME \/ Tick \/ UNCHANGED vars
              \/ \E u \in User : ShowAccount(u) \/ \E a \in Amounts : AddCredit(u, a)
       PROVE  BookedOf(k)'
  BY <1>3, <1>12 DEF Tick, vars, ShowAccount, AddCredit, hubView
<1> QED
  BY <1>4, <1>5, <1>6, <1>7, <1>8, <1>9, <1>10, <1>11, <1>12 DEF Next

(* Until a first fault everything that runs is billed, so that no running      *)
(* notebook is left out of the bound above: all of them and the workers        *)
(* admitted meanwhile fit the GPUs together.                                   *)
THEOREM BooksMatch == Spec => []BooksMatchCluster
<1>1. Init => Booked /\ PodsMatchRows
  BY DEF Init, Booked, BookedOf, PodsMatchRows, OpenRows, Rows
<1>2. ASSUME TypeOK, Booked, PodsMatchRows, AdmissionWithinCapacity
      PROVE  BooksMatchCluster
  <2> SUFFICES ASSUME faults = 0
               PROVE  /\ RunningIsBilled
                      /\ \A p \in Pool :
                            Cardinality(RunningUnits(p)) + Cardinality(WorkerUnitsOf(p)) <= Cap[p]
    BY DEF BooksMatchCluster
  <2>1. RunningIsBilled
    BY <1>2 DEF RunningIsBilled, Booked, BookedOf, Row
  <2>2. ASSUME NEW p \in Pool
        PROVE  Cardinality(RunningUnits(p)) + Cardinality(WorkerUnitsOf(p)) <= Cap[p]
    <3>1. RunningUnits(p) \subseteq RecordedUnits(p)
      BY <2>1 DEF RunningUnits, RecordedUnits, Recorded, RunningIsBilled
    <3>2. IsFiniteSet(RecordedUnits(p))
      BY <1>2, RecordedFit
    <3>3. /\ Cardinality(RunningUnits(p)) \in Nat
          /\ Cardinality(RecordedUnits(p)) \in Nat
          /\ Cardinality(RunningUnits(p)) <= Cardinality(RecordedUnits(p))
      BY <3>1, <3>2, FewerUnits
    <3>4. Cardinality(StartingUnits(p)) \in Nat /\ Cardinality(WorkerUnitsOf(p)) \in Nat
      <4>1. IsFiniteSet(WorkerUnitsOf(p))
        BY <1>2, RowUnitsFinite, FS_Subset DEF WorkerUnitsOf, TypeOK, Table
      <4> QED
        BY <1>2, <4>1, StartingUnitsFinite, FS_CardinalityType
    <3>5. Cardinality(RecordedUnits(p)) + Cardinality(StartingUnits(p))
             + Cardinality(WorkerUnitsOf(p)) <= Cap[p]
      BY <1>2 DEF AdmissionWithinCapacity
    <3> QED
      BY <3>3, <3>4, <3>5, HubAssumption
  <2> QED
    BY <2>1, <2>2
<1> QED
  BY <1>1, <1>2, BookedInductive, InitSessionInv, SessionInvInductive, PodsMatchInductive,
     TypeCorrect, AdmissionSafe, PTL DEF Spec
=============================================================================
