------------------------------ MODULE Accounts ------------------------------
(***************************************************************************)
(* Users, their wallets and their roles.                                   *)
(*                                                                         *)
(* A registration hashes the password, looks the email up, inserts the     *)
(* user and looks the role up, awaiting each.  The wallet and the row of   *)
(* userinroles are inserted without being awaited: they are under way when *)
(* the answer leaves, and an error in one of them has no handler, which    *)
(* ends the process under Node's default for unhandled rejections.         *)
(***************************************************************************)
EXTENDS Integers, FiniteSets

CONSTANTS
    Emails,      \* the emails people register with
    RoleIds,     \* ids the roles table gives out
    Callers,     \* bound: HTTP requests under way at the same time
    MaxRequests, \* bound: requests made
    MaxUsers,    \* bound: users created
    MaxEntries,  \* bound: rows of userinroles created
    MaxCrashes,  \* bound: restarts of the process
    None         \* no row, or a local variable that has no value

\* Both the values of users.role_id and the names of the roles.
Kinds == {"customer", "driver"}

UserIds == 1 .. MaxUsers
EntryIds == 1 .. MaxEntries

ASSUME BoundsAssumption ==
    MaxRequests \in Nat /\ MaxUsers \in Nat /\ MaxEntries \in Nat /\ MaxCrashes \in Nat

ASSUME NoneAssumption == None \notin RoleIds /\ None \notin UserIds \X RoleIds

VARIABLES
    user,      \* per user id, its row [email, kind], or None
    wallet,    \* the users that have a wallet
    role,      \* per role id, its name, "unused" or "deleted"
    entry,     \* per id of userinroles, its row <<user, role>>, or None
    call,      \* per caller, the call it is executing
    pending,   \* inserts under way that nobody awaits: <<user, None>> for a
               \* wallet, <<user, role>> for a role
    requests,  \* number of requests made
    users,     \* number of users created
    entries,   \* number of rows of userinroles created
    crashes,   \* number of restarts
    raced,     \* history: users created while a registration of the same
               \* email was past its look-up
    renamed,   \* history: users whose email was updated
    roleless,  \* history: users whose role was not found
    stripped,  \* history: users whose role_id, or row in userinroles, was changed
               \* or deleted
    lost       \* history: users an insert was lost of

history == <<raced, renamed, roleless, stripped, lost>>
counters == <<users, entries, crashes>>
vars == <<user, wallet, role, entry, call, pending, requests, counters, history>>

User == [email : Emails, kind : Kinds]

Idle == [pc |-> "idle", email |-> None, kind |-> None, user |-> None]

\* pc: what the call awaits
Call == [pc : {"idle", "hash", "lookUp", "create", "findRole", "update"},
         email : Emails \cup {None},
         kind : Kinds \cup {None},
         user : UserIds \cup {None}]

TypeOK ==
    /\ user \in [UserIds -> User \cup {None}]
    /\ wallet \subseteq UserIds
    /\ role \in [RoleIds -> Kinds \cup {"unused", "deleted"}]
    /\ entry \in [EntryIds -> (UserIds \X RoleIds) \cup {None}]
    /\ call \in [Callers -> Call]
    /\ pending \subseteq UserIds \X (RoleIds \cup {None})
    /\ requests \in 0 .. MaxRequests
    /\ users \in 0 .. MaxUsers
    /\ entries \in 0 .. MaxEntries
    /\ crashes \in 0 .. MaxCrashes
    /\ raced \cup renamed \cup roleless \cup stripped \cup lost \subseteq UserIds

Init ==
    /\ user = [u \in UserIds |-> None]
    /\ wallet = {}
    /\ role \in [RoleIds -> Kinds \cup {"unused"}]
    /\ entry = [e \in EntryIds |-> None]
    /\ call = [s \in Callers |-> Idle]
    /\ pending = {}
    /\ requests = 0 /\ users = 0 /\ entries = 0 /\ crashes = 0
    /\ raced = {} /\ renamed = {} /\ roleless = {} /\ stripped = {} /\ lost = {}

-----------------------------------------------------------------------------
Exists(u) == user[u] # None

Entries == {e \in EntryIds : entry[e] # None}

NewEntry(p) ==
    /\ entries < MaxEntries
    /\ entries' = entries + 1
    /\ entry' = [entry EXCEPT ![entries'] = p]

DropEntries(S) == entry' = [e \in EntryIds |-> IF e \in S THEN None ELSE entry[e]]

RolesNamed(name) == {r \in RoleIds : role[r] = name}

Taken(email) == \E u \in UserIds : Exists(u) /\ user[u].email = email

At(s, pc) == call[s].pc = pc

Goto(s, pc) == call' = [call EXCEPT ![s].pc = pc]

\* The call returns, or throws.
End(s) == call' = [call EXCEPT ![s] = Idle]

-----------------------------------------------------------------------------
\* register and registerPartner
Register(s, email, kind) ==
    /\ call[s] = Idle
    /\ call' = [call EXCEPT ![s] = [Idle EXCEPT !.pc = "hash", !.email = email,
                                                !.kind = kind]]
    /\ UNCHANGED <<user, wallet, role, entry, pending, counters, history>>

HashPassword(s) ==
    /\ At(s, "hash")
    /\ Goto(s, "lookUp")
    /\ UNCHANGED <<user, wallet, role, entry, pending, counters, history>>

\* Mutant of LookUpEmail: nobody looks.
SkipLookUp(s) ==
    /\ At(s, "lookUp")
    /\ Goto(s, "create")
    /\ UNCHANGED <<user, wallet, role, entry, pending, counters, history>>

\* "Email has been registered", or on to the insert.
LookUpEmail(s) ==
    /\ At(s, "lookUp")
    /\ IF Taken(call[s].email) THEN End(s) ELSE Goto(s, "create")
    /\ UNCHANGED <<user, wallet, role, entry, pending, counters, history>>

\* Mutant of CreateUser: the wallet is forgotten.
CreateUserOnly(s) ==
    LET u == users + 1 IN
    /\ At(s, "create")
    /\ users < MaxUsers
    /\ users' = u
    /\ user' = [user EXCEPT ![u] = [email |-> call[s].email, kind |-> call[s].kind]]
    /\ call' = [call EXCEPT ![s].pc = "findRole", ![s].user = u]
    /\ UNCHANGED <<wallet, role, entry, pending, entries, crashes, history>>

\* The user is inserted, whoever has the email by now, and the insertion of
\* the wallet starts.
CreateUser(s) ==
    LET u == users + 1
        email == call[s].email
    IN
    /\ At(s, "create")
    /\ users < MaxUsers
    /\ users' = u
    /\ user' = [user EXCEPT ![u] = [email |-> email, kind |-> call[s].kind]]
    /\ pending' = pending \cup {<<u, None>>}
    /\ call' = [call EXCEPT ![s].pc = "findRole", ![s].user = u]
    /\ raced' = IF \E t \in Callers \ {s} : At(t, "create") /\ call[t].email = email
                THEN raced \cup {u} ELSE raced
    /\ UNCHANGED <<wallet, role, entry, entries, crashes>>
    /\ UNCHANGED <<renamed, roleless, stripped, lost>>

\* Mutant of FindRole: drivers are looked up as customers.
FindCustomerRole(s) ==
    LET u == call[s].user
        found == RolesNamed("customer")
    IN
    /\ At(s, "findRole")
    /\ \/ /\ found = {}
          /\ roleless' = roleless \cup {u}
          /\ UNCHANGED pending
       \/ /\ \E r \in found : pending' = pending \cup {<<u, r>>}
          /\ UNCHANGED roleless
    /\ End(s)
    /\ UNCHANGED <<user, wallet, role, entry, counters>>
    /\ UNCHANGED <<raced, renamed, stripped, lost>>

\* findByName; without such a role the handler throws, after the user was
\* created.  The row of userinroles is inserted after the answer.
FindRole(s) ==
    LET u == call[s].user
        found == RolesNamed(call[s].kind)
    IN
    /\ At(s, "findRole")
    /\ \/ /\ found = {}
          /\ roleless' = roleless \cup {u}
          /\ UNCHANGED pending
       \/ /\ \E r \in found : pending' = pending \cup {<<u, r>>}
          /\ UNCHANGED roleless
    /\ End(s)
    /\ UNCHANGED <<user, wallet, role, entry, counters>>
    /\ UNCHANGED <<raced, renamed, stripped, lost>>

-----------------------------------------------------------------------------
\* An insert that nobody awaits is done, if what it refers to is still there.
Insert(p) ==
    /\ p \in pending
    /\ Exists(p[1])
    /\ p[2] # None => role[p[2]] \in Kinds
    /\ pending' = pending \ {p}
    /\ IF p[2] = None
       THEN wallet' = wallet \cup {p[1]} /\ UNCHANGED <<entry, entries>>
       ELSE NewEntry(p) /\ UNCHANGED wallet
    /\ UNCHANGED <<user, role, call, users, crashes, history>>

\* The process restarts: its calls and its unfinished inserts are gone.  A
\* registration that had created its user leaves it as it is.
Restart ==
    /\ crashes < MaxCrashes
    /\ crashes' = crashes + 1
    /\ call' = [s \in Callers |-> Idle]
    /\ pending' = {}
    /\ lost' = lost \cup {p[1] : p \in pending}
                    \cup {call[s].user : s \in {t \in Callers : At(t, "findRole")}}
    /\ UNCHANGED <<user, wallet, role, entry, users, entries>>
    /\ UNCHANGED <<raced, renamed, roleless, stripped>>

\* The user or the role was deleted meanwhile: the database refuses the insert,
\* and the process ends, or only reports it, as Node is set up.
InsertRefused(p) ==
    /\ p \in pending
    /\ ~Exists(p[1]) \/ (p[2] # None /\ role[p[2]] \notin Kinds)
    /\ \/ Restart
       \/ /\ pending' = pending \ {p}
          /\ lost' = lost \cup {p[1]}
          /\ UNCHANGED <<user, wallet, role, entry, call, counters>>
          /\ UNCHANGED <<raced, renamed, roleless, stripped>>

-----------------------------------------------------------------------------
\* PUT users/:id: the fields that differ from the row it reads.  Nothing looks
\* the email up.
StartUpdate(s, u, email, kind) ==
    /\ call[s] = Idle
    /\ Exists(u)
    /\ email # user[u].email /\ kind # user[u].kind
    /\ call' = [call EXCEPT ![s] = [pc |-> "update", email |-> email,
                                    kind |-> kind, user |-> u]]
    /\ UNCHANGED <<user, wallet, role, entry, pending, counters, history>>

\* A row with the fields of a call that are not None.
Changed(r, c) ==
    [email |-> IF c.email = None THEN r.email ELSE c.email,
     kind |-> IF c.kind = None THEN r.kind ELSE c.kind]

\* Mutant of UpdateUser: a field that is not mentioned is cleared.
UpdateWholeUser(s) ==
    LET u == call[s].user IN
    /\ At(s, "update")
    /\ Exists(u)
    /\ user' = [user EXCEPT ![u] = [email |-> call[s].email, kind |-> call[s].kind]]
    /\ End(s)
    /\ UNCHANGED <<wallet, role, entry, pending, counters, history>>

UpdateUser(s) ==
    LET u == call[s].user IN
    /\ At(s, "update")
    /\ IF Exists(u)
       THEN /\ user' = [user EXCEPT ![u] = Changed(user[u], call[s])]
            /\ renamed' = IF call[s].email = None THEN renamed ELSE renamed \cup {u}
            /\ stripped' = IF call[s].kind = None THEN stripped ELSE stripped \cup {u}
       ELSE UNCHANGED <<user, renamed, stripped>>
    /\ End(s)
    /\ UNCHANGED <<wallet, role, entry, pending, counters>>
    /\ UNCHANGED <<raced, roleless, lost>>

\* DELETE users/:id: the wallet goes with the user (ON DELETE CASCADE).  As
\* long as the user has roles, the foreign key decides: they go as well, or the
\* deletion is refused.
DeleteUser(u) ==
    /\ Exists(u)
    /\ user' = [user EXCEPT ![u] = None]
    /\ wallet' = wallet \ {u}
    /\ DropEntries({e \in Entries : entry[e][1] = u})
    /\ UNCHANGED <<role, call, pending, counters, history>>

CreateRole(r, name) ==
    /\ role[r] = "unused"
    /\ role' = [role EXCEPT ![r] = name]
    /\ UNCHANGED <<user, wallet, entry, call, pending, counters, history>>

\* DELETE roles/:id: its rows of userinroles go with it, or the deletion is
\* refused.
DeleteRole(r) ==
    LET naming == {e \in Entries : entry[e][2] = r} IN
    /\ role[r] \in Kinds
    /\ role' = [role EXCEPT ![r] = "deleted"]
    /\ DropEntries(naming)
    /\ stripped' = stripped \cup {entry[e][1] : e \in naming}
    /\ UNCHANGED <<user, wallet, call, pending, counters>>
    /\ UNCHANGED <<raced, renamed, roleless, lost>>

\* POST user-in-roles
CreateEntry(u, r) ==
    /\ Exists(u) /\ role[r] \in Kinds
    /\ NewEntry(<<u, r>>)
    /\ UNCHANGED <<user, wallet, role, call, pending, users, crashes, history>>

\* DELETE user-in-roles/:id
RemoveEntry(e) ==
    /\ e \in Entries
    /\ DropEntries({e})
    /\ stripped' = stripped \cup {entry[e][1]}
    /\ UNCHANGED <<user, wallet, role, call, pending, counters>>
    /\ UNCHANGED <<raced, renamed, roleless, lost>>

\* PUT user-in-roles/:id
UpdateEntry(e, u, r) ==
    /\ e \in Entries
    /\ Exists(u) /\ role[r] \in Kinds
    /\ entry' = [entry EXCEPT ![e] = <<u, r>>]
    /\ stripped' = stripped \cup {entry[e][1]}
    /\ UNCHANGED <<user, wallet, role, call, pending, counters>>
    /\ UNCHANGED <<raced, renamed, roleless, lost>>

CallStep(s) ==
    \/ HashPassword(s)
    \/ LookUpEmail(s)
    \/ CreateUser(s)
    \/ FindRole(s)
    \/ UpdateUser(s)

OneStep ==
    \/ \E u \in UserIds : DeleteUser(u)
    \/ \E r \in RoleIds, name \in Kinds : CreateRole(r, name)
    \/ \E r \in RoleIds : DeleteRole(r)
    \/ \E u \in UserIds, r \in RoleIds : CreateEntry(u, r)
    \/ \E e \in Entries : RemoveEntry(e)
    \/ \E e \in Entries, u \in UserIds, r \in RoleIds : UpdateEntry(e, u, r)

Request ==
    /\ requests < MaxRequests
    /\ requests' = requests + 1
    /\ \/ \E s \in Callers, e \in Emails, k \in Kinds : Register(s, e, k)
       \/ \E s \in Callers, u \in UserIds, e \in Emails \cup {None}, k \in Kinds \cup {None} :
             StartUpdate(s, u, e, k)
       \/ OneStep

Step ==
    /\ \/ \E s \in Callers : CallStep(s)
       \/ \E p \in pending : Insert(p) \/ InsertRefused(p)
       \/ Restart
    /\ UNCHANGED requests

Next == Request \/ Step

\* Handlers and started inserts run to their end.
Fairness ==
    /\ \A s \in Callers : WF_vars(CallStep(s) /\ UNCHANGED requests)
    /\ \A p \in UserIds \X (RoleIds \cup {None}) :
          WF_vars((Insert(p) \/ InsertRefused(p)) /\ UNCHANGED requests)

Spec == Init /\ [][Next]_vars /\ Fairness

-----------------------------------------------------------------------------
\* Nothing of the user's registration is under way any more.
Registered(u) ==
    /\ Exists(u)
    /\ \A s \in Callers : ~(At(s, "findRole") /\ call[s].user = u)
    /\ \A p \in pending : p[1] # u

\* The look-up keeps an email from being used twice (user.md:50), except in
\* registrations that overlap, and through an update (user.service.ts:34, 116).
DuplicateEmailExplained ==
    \A u, v \in UserIds :
        u < v /\ Exists(u) /\ Exists(v) /\ user[u].email = user[v].email =>
            u \in raced \/ {u, v} \cap renamed # {}

\* A user lacks the wallet only when its insert was lost with the process, and
\* the role only for that reason, because no role had the name, or because it
\* was taken away later: a deletion or a failure elsewhere in the registration
\* does not do it (user.service.ts:53, 59).
IncompleteUserExplained ==
    \A u \in UserIds : Registered(u) =>
        /\ u \notin wallet => u \in lost
        /\ u \notin lost \cup roleless \cup stripped =>
              \E e \in Entries : entry[e][1] = u /\ role[entry[e][2]] = user[u].kind

\* The wallet nobody awaits is there sooner or later, if the user is.
WalletFollows ==
    \A u \in UserIds :
        Exists(u) ~> (u \in wallet \/ u \in lost \/ ~Exists(u))
=============================================================================
