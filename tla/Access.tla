------------------------------- MODULE Access -------------------------------
(* Sign-up with an application for access (src/hub-ext/zai_access.py), and the *)
(* end of both. Names are used again, so an account carries how many accounts  *)
(* its name has had, and an application which of them it was made for.         *)
EXTENDS Integers

CONSTANTS
  Name,        \* user names
  Asked,       \* GPU hours an application may ask for
  Nobody,      \* no application
  MaxHolders   \* bound: accounts a name may have one after another

ASSUME AccessAssumption == Asked \subseteq Nat /\ MaxHolders \in Nat /\ Nobody \notin Name

VARIABLES
  account,      \* none, waiting for approval, or approved
  holder,       \* accounts a name has had
  application,  \* zai_access_requests: whose it is and the hours it asks for
  lapses        \* writes to that table that failed, per name

accessVars == <<account, holder, application, lapses>>

AccessInit ==
  /\ account = [u \in Name |-> "none"] /\ holder = [u \in Name |-> 0]
  /\ application = [u \in Name |-> Nobody] /\ lapses = [u \in Name |-> 0]

AccessTypeOK ==
  /\ account \in [Name -> {"none", "waiting", "approved"}]
  /\ holder \in [Name -> 0..MaxHolders]
  /\ application \in [Name -> [of : 0..MaxHolders, hours : Asked] \cup {Nobody}]
  /\ lapses \in [Name -> Nat]

Exists(u) == account[u] # "none"
Lapse(u) == lapses' = [lapses EXCEPT ![u] = @ + 1]
Saved(u, row) == application' = [application EXCEPT ![u] = row] /\ UNCHANGED lapses

\* _signup_post with a complete form. NativeAuthenticator makes the account if
\* the name is free; only then is the application saved, by _ar_save, and a save
\* that fails is only logged.
(* Fault for ApplicationIsOwn: the application is saved whatever came of it. *)
SignUpSavesAlways(u, hours, saved) ==
  /\ holder[u] < MaxHolders /\ (Exists(u) => saved)
  /\ account' = [account EXCEPT ![u] = IF Exists(u) THEN @ ELSE "waiting"]
  /\ holder' = [holder EXCEPT ![u] = IF Exists(u) THEN @ ELSE @ + 1]
  /\ IF saved THEN Saved(u, [of |-> IF Exists(u) THEN 0 ELSE holder[u] + 1, hours |-> hours])
              ELSE Lapse(u) /\ UNCHANGED application
SignUp(u, hours, saved) ==
  /\ holder[u] < MaxHolders /\ (Exists(u) => saved)
  /\ IF Exists(u) THEN UNCHANGED accessVars
     ELSE /\ account' = [account EXCEPT ![u] = "waiting"]
          /\ holder' = [holder EXCEPT ![u] = @ + 1]
          /\ IF saved THEN Saved(u, [of |-> holder[u] + 1, hours |-> hours])
                      ELSE Lapse(u) /\ UNCHANGED application

Approve(u) ==
  /\ account' = [account EXCEPT ![u] = "approved"]
  /\ UNCHANGED <<holder, application, lapses>>

\* _delete_user: the application goes after the account, unless _ar_forget fails.
Delete(u, forgotten) ==
  /\ Exists(u) /\ account' = [account EXCEPT ![u] = "none"]
  /\ IF forgotten THEN Saved(u, Nobody) ELSE Lapse(u) /\ UNCHANGED application
  /\ UNCHANGED holder

-----------------------------------------------------------------------------
\* The application an administrator reads beside an account was made for that
\* account, not for one that had the name before or by somebody who was refused
\* it; one failed write alone never shows another's (_signup_post, _delete_user).
ApplicationIsOwn ==
  \A u \in Name :
    Exists(u) /\ application[u] # Nobody /\ lapses[u] < 2 => application[u].of = holder[u]
=============================================================================
