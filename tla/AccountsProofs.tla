--------------------------- MODULE AccountsProofs ---------------------------
(***************************************************************************)
(* Proofs about Accounts: its typing, that two users share an email only   *)
(* after registrations that overlapped or after an update, and what a user *)
(* without wallet or role is explained by.                                 *)
(*                                                                         *)
(* DuplicateEmailExplained is not inductive: an insert relies on what the  *)
(* look-up saw, and users may appear in between.  What survives the wait   *)
(* is that every user who took the email meanwhile was created while the   *)
(* waiting registration was past its look-up (LookUpHolds), and that ids   *)
(* are given out in order (IdsInOrder), so that the new user is the later  *)
(* one of each pair it is in.                                              *)
(*                                                                         *)
(* IncompleteUserExplained speaks of registrations that are over.  The     *)
(* invariant (RegistrationsTracked) follows them on the way: the insert    *)
(* of the wallet and that of the role are each done, under way, still to   *)
(* come, or accounted for by a history.                                    *)
(***************************************************************************)
EXTENDS Accounts, TLAPS

\* Whoever has the email of a registration past its look-up came after it.
LookUpHolds ==
    \A s \in Callers, u \in UserIds :
        At(s, "create") /\ Exists(u) /\ user[u].email = call[s].email =>
            u \in raced \cup renamed

IdsInOrder == \A u \in UserIds : u > users => user[u] = None

\* A call that has an email, or a user, at the steps that use it.
CallOK(k) ==
    /\ k \in Call
    /\ k.pc \in {"hash", "lookUp", "create"} => k.email \in Emails /\ k.kind \in Kinds
    /\ k.pc \in {"findRole", "update"} => k.user \in UserIds

CallsOK == \A s \in Callers : CallOK(call[s])

Typed == TypeOK /\ CallsOK

\* The part of the invariant about emails.
Emailed == LookUpHolds /\ IdsInOrder /\ DuplicateEmailExplained

-----------------------------------------------------------------------------
\* The records that calls are replaced by.
LEMMA CallRecords ==
    /\ CallOK(Idle)
    /\ \A email \in Emails, kind \in Kinds :
          CallOK([Idle EXCEPT !.pc = "hash", !.email = email, !.kind = kind])
    /\ \A email \in Emails \cup {None}, kind \in Kinds \cup {None}, u \in UserIds :
          CallOK([pc |-> "update", email |-> email, kind |-> kind, user |-> u])
    /\ \A k : CallOK(k) /\ k.pc \in {"hash", "lookUp"} =>
          \A pc \in {"lookUp", "create"} : CallOK([k EXCEPT !.pc = pc])
    /\ \A k : CallOK(k) => \A u \in UserIds : CallOK([k EXCEPT !.pc = "findRole", !.user = u])
BY DEF CallOK, Call, Idle

\* A step that replaces one call by a good one leaves the calls good.
LEMMA OneCallChanges ==
    ASSUME Typed, NEW s \in Callers, NEW k, CallOK(k), call' = [call EXCEPT ![s] = k]
    PROVE  call' \in [Callers -> Call] /\ CallsOK'
BY DEF Typed, TypeOK, CallsOK, CallOK

\* The initial states are typed and have no users.
LEMMA InitEmailed == Init => Typed /\ Emailed
<1> SUFFICES ASSUME Init PROVE Typed /\ Emailed
  OBVIOUS
<1>1. TypeOK
  <2>1. Idle \in Call
    BY CallRecords DEF CallOK
  <2>2. QED BY <2>1, BoundsAssumption DEF Init, TypeOK
<1>2. CallsOK
  BY CallRecords DEF Init, CallsOK
<1>3. LookUpHolds /\ IdsInOrder /\ DuplicateEmailExplained
  BY DEF Init, LookUpHolds, IdsInOrder, DuplicateEmailExplained, Exists
<1>4. QED BY <1>1, <1>2, <1>3 DEF Emailed, Typed

-----------------------------------------------------------------------------
\* The steps that start a call keep the types.
LEMMA StartTyped ==
    ASSUME Typed, requests' \in 0 .. MaxRequests,
           \/ \E s \in Callers, e \in Emails, k \in Kinds : Register(s, e, k)
           \/ \E s \in Callers, u \in UserIds, e \in Emails \cup {None}, k \in Kinds \cup {None} :
                 StartUpdate(s, u, e, k)
    PROVE  Typed'
<1>1. ASSUME NEW s \in Callers, NEW e \in Emails, NEW k \in Kinds, Register(s, e, k)
      PROVE  Typed'
  <2>1. call' \in [Callers -> Call] /\ CallsOK'
    BY <1>1, CallRecords, OneCallChanges DEF Register
  <2>2. QED BY <1>1, <2>1 DEF Register, Typed, TypeOK, counters, history
<1>2. ASSUME NEW s \in Callers, NEW u \in UserIds, NEW e \in Emails \cup {None},
             NEW k \in Kinds \cup {None}, StartUpdate(s, u, e, k)
      PROVE  Typed'
  <2>1. call' \in [Callers -> Call] /\ CallsOK'
    BY <1>2, CallRecords, OneCallChanges DEF StartUpdate
  <2>2. QED BY <1>2, <2>1 DEF StartUpdate, Typed, TypeOK, counters, history
<1>3. QED BY <1>1, <1>2

\* The requests of one step keep the types.
LEMMA OneStepTyped ==
    ASSUME Typed, requests' \in 0 .. MaxRequests, OneStep
    PROVE  Typed'
<1> USE DEF Typed, TypeOK
<1>0. UNCHANGED call => CallsOK'
  BY DEF CallsOK
<1>1. ASSUME NEW u \in UserIds, DeleteUser(u) PROVE Typed'
  BY <1>0, <1>1 DEF DeleteUser, DropEntries, counters, history
<1>2. ASSUME NEW r \in RoleIds, NEW name \in Kinds, CreateRole(r, name) PROVE Typed'
  BY <1>0, <1>2 DEF CreateRole, counters, history
<1>3. ASSUME NEW r \in RoleIds, DeleteRole(r) PROVE Typed'
  <2>1. stripped' \subseteq UserIds
    BY <1>3 DEF DeleteRole, Entries
  <2>2. QED BY <1>0, <1>3, <2>1 DEF DeleteRole, DropEntries, counters
<1>4. ASSUME NEW u \in UserIds, NEW r \in RoleIds, CreateEntry(u, r) PROVE Typed'
  BY <1>0, <1>4, BoundsAssumption DEF CreateEntry, NewEntry, EntryIds, history
<1>5. ASSUME NEW e \in Entries, RemoveEntry(e) PROVE Typed'
  BY <1>0, <1>5 DEF RemoveEntry, DropEntries, Entries, counters
<1>6. ASSUME NEW e \in Entries, NEW u \in UserIds, NEW r \in RoleIds, UpdateEntry(e, u, r)
      PROVE  Typed'
  BY <1>0, <1>6 DEF UpdateEntry, Entries, counters
<1>7. QED BY <1>1, <1>2, <1>3, <1>4, <1>5, <1>6 DEF OneStep

\* The steps of a call keep the types.
LEMMA CallStepTyped ==
    ASSUME Typed, NEW s \in Callers, CallStep(s), UNCHANGED requests
    PROVE  Typed'
<1> DEFINE k == call[s]
<1>0. CallOK(k) /\ k \in Call
  BY DEF Typed, CallsOK, CallOK
<1>1. CASE HashPassword(s)
  <2>1. call' \in [Callers -> Call] /\ CallsOK'
    <3>1. CallOK([k EXCEPT !.pc = "lookUp"])
      BY <1>0, <1>1, CallRecords DEF HashPassword, At
    <3>2. call' = [call EXCEPT ![s] = [k EXCEPT !.pc = "lookUp"]]
      BY <1>1 DEF HashPassword, Goto
    <3>3. QED BY <3>1, <3>2, OneCallChanges
  <2>2. QED BY <1>1, <2>1 DEF HashPassword, Typed, TypeOK, counters, history
<1>2. CASE LookUpEmail(s)
  <2>1. call' \in [Callers -> Call] /\ CallsOK'
    <3>1. CallOK([k EXCEPT !.pc = "create"])
      BY <1>0, <1>2, CallRecords DEF LookUpEmail, At
    <3>2. \/ call' = [call EXCEPT ![s] = [k EXCEPT !.pc = "create"]]
          \/ call' = [call EXCEPT ![s] = Idle]
      BY <1>2 DEF LookUpEmail, Goto, End
    <3>3. CASE call' = [call EXCEPT ![s] = [k EXCEPT !.pc = "create"]]
      BY <3>1, <3>3, OneCallChanges
    <3>4. CASE call' = [call EXCEPT ![s] = Idle]
      BY <3>4, CallRecords, OneCallChanges
    <3>5. QED BY <3>2, <3>3, <3>4
  <2>2. QED BY <1>2, <2>1 DEF LookUpEmail, Typed, TypeOK, counters, history
<1>3. CASE CreateUser(s)
  <2>1. users + 1 \in UserIds /\ users' \in 0 .. MaxUsers
    BY <1>3, BoundsAssumption DEF CreateUser, UserIds, Typed, TypeOK
  <2>2. call' \in [Callers -> Call] /\ CallsOK'
    <3>1. CallOK([k EXCEPT !.pc = "findRole", !.user = users + 1])
      BY <1>0, <2>1, CallRecords
    <3>2. call' = [call EXCEPT ![s] = [k EXCEPT !.pc = "findRole", !.user = users + 1]]
      BY <1>3 DEF CreateUser
    <3>3. QED BY <3>1, <3>2, OneCallChanges
  <2>3. user' \in [UserIds -> User \cup {None}]
    BY <1>0, <1>3, <2>1 DEF CreateUser, At, CallOK, User, Typed, TypeOK
  <2>4. QED BY <1>3, <2>1, <2>2, <2>3 DEF CreateUser, Typed, TypeOK
<1>4. CASE FindRole(s)
  <2>1. call' \in [Callers -> Call] /\ CallsOK'
    BY <1>4, CallRecords, OneCallChanges DEF FindRole, End
  <2>2. k.user \in UserIds
    BY <1>0, <1>4 DEF FindRole, At, CallOK
  <2>3. QED BY <1>4, <2>1, <2>2 DEF FindRole, RolesNamed, Typed, TypeOK, counters
<1>5. CASE UpdateUser(s)
  <2>1. call' \in [Callers -> Call] /\ CallsOK'
    BY <1>5, CallRecords, OneCallChanges DEF UpdateUser, End
  <2>2. k.user \in UserIds /\ k \in Call
    BY <1>0, <1>5 DEF UpdateUser, At, CallOK
  <2>3. CASE Exists(k.user)
    <3>1. user' = [user EXCEPT ![k.user] = Changed(user[k.user], k)]
      BY <1>5, <2>3 DEF UpdateUser
    <3>2. Changed(user[k.user], k) \in User
      BY <2>2, <2>3 DEF Changed, Exists, User, Call, Typed, TypeOK
    <3>3. user' \in [UserIds -> User \cup {None}]
      BY <3>1, <3>2 DEF Typed, TypeOK
    <3>4. renamed' \subseteq UserIds /\ stripped' \subseteq UserIds
      BY <1>5, <2>2, <2>3 DEF UpdateUser, Typed, TypeOK
    <3>5. UNCHANGED <<wallet, role, entry, pending, counters, raced, roleless, lost>>
      BY <1>5 DEF UpdateUser
    <3>6. QED BY <2>1, <3>3, <3>4, <3>5 DEF Typed, TypeOK, counters
  <2>4. CASE ~Exists(k.user)
    BY <1>5, <2>1, <2>4 DEF UpdateUser, Typed, TypeOK, counters
  <2>5. QED BY <2>3, <2>4
<1>6. QED BY <1>1, <1>2, <1>3, <1>4, <1>5 DEF CallStep

\* The inserts nobody awaits, and restarts, keep the types.
LEMMA BackgroundTyped ==
    ASSUME Typed, UNCHANGED requests,
           Restart \/ \E p \in pending : Insert(p) \/ InsertRefused(p)
    PROVE  Typed'
<1>0. UNCHANGED call => CallsOK'
  BY DEF Typed, CallsOK
<1>1. ASSUME Restart PROVE Typed'
  <2>1. call' \in [Callers -> Call] /\ CallsOK'
    <3>1. Idle \in Call
      BY CallRecords DEF CallOK
    <3>2. call' = [s \in Callers |-> Idle]
      BY <1>1 DEF Restart
    <3>3. call' \in [Callers -> Call]
      BY <3>1, <3>2
    <3>4. CallsOK'
      BY <3>2, CallRecords DEF CallsOK, CallOK
    <3>5. QED BY <3>3, <3>4
  <2>2. lost' \subseteq UserIds
    BY <1>1 DEF Restart, At, Typed, TypeOK, CallsOK, CallOK
  <2>3. pending' \subseteq UserIds \X (RoleIds \cup {None})
    BY <1>1 DEF Restart
  <2>4. crashes' \in 0 .. MaxCrashes
    BY <1>1, BoundsAssumption DEF Restart, Typed, TypeOK
  <2>5. UNCHANGED <<user, wallet, role, entry, users, entries, raced, renamed, roleless, stripped>>
    BY <1>1 DEF Restart
  <2>6. QED BY <2>1, <2>2, <2>3, <2>4, <2>5 DEF Typed, TypeOK
<1>2. ASSUME NEW p \in pending, Insert(p) PROVE Typed'
  BY <1>0, <1>2, BoundsAssumption DEF Insert, NewEntry, EntryIds, Typed, TypeOK, history
<1>3. ASSUME NEW p \in pending, InsertRefused(p) PROVE Typed'
  BY <1>0, <1>1, <1>3 DEF InsertRefused, Typed, TypeOK, counters
<1>4. QED BY <1>1, <1>2, <1>3

\* Every step keeps the types.
LEMMA StepTyped == Typed /\ [Next]_vars => Typed'
<1> SUFFICES ASSUME Typed, [Next]_vars PROVE Typed'
  OBVIOUS
<1>1. CASE Request
  <2>1. requests' \in 0 .. MaxRequests
    BY <1>1, BoundsAssumption DEF Request, Typed, TypeOK
  <2>2. QED BY <1>1, <2>1, StartTyped, OneStepTyped DEF Request
<1>2. CASE Step
  BY <1>2, CallStepTyped, BackgroundTyped DEF Step
<1>3. CASE UNCHANGED vars
  BY <1>3 DEF vars, counters, history, Typed, TypeOK, CallsOK
<1>4. QED BY <1>1, <1>2, <1>3 DEF Next

-----------------------------------------------------------------------------
\* Users may go, calls may end, and the histories may grow: what is left of the
\* emails stays explained.
LEMMA EmailsKept ==
    ASSUME Typed, Emailed,
           \A u \in UserIds : user'[u] \in {user[u], None},
           \A s \in Callers : call'[s].pc = "create" =>
               call[s].pc = "create" /\ call'[s].email = call[s].email,
           users' = users, raced' = raced, renamed \subseteq renamed'
    PROVE  Emailed'
<1>1. LookUpHolds'
  BY DEF Emailed, LookUpHolds, At, Exists
<1>2. IdsInOrder'
  BY DEF Emailed, IdsInOrder
<1>3. DuplicateEmailExplained'
  BY DEF Emailed, DuplicateEmailExplained, Exists
<1>4. QED BY <1>1, <1>2, <1>3 DEF Emailed

\* Only the look-up brings a registration to its insert.
LEMMA LookUpEmailed ==
    ASSUME Typed, Emailed, NEW s \in Callers, LookUpEmail(s)
    PROVE  Emailed'
<1>1. UNCHANGED <<user, users, raced, renamed>>
  BY DEF LookUpEmail, counters, history
<1>2. CASE Taken(call[s].email)
  <2>1. \A t \in Callers : call'[t].pc = "create" =>
            call[t].pc = "create" /\ call'[t].email = call[t].email
    BY <1>2 DEF LookUpEmail, End, Idle, Typed, TypeOK
  <2>2. QED BY <1>1, <2>1, EmailsKept
<1>3. CASE ~Taken(call[s].email)
  <2>1. call' = [call EXCEPT ![s].pc = "create"]
    BY <1>3 DEF LookUpEmail, Goto
  <2>2. /\ call'[s].email = call[s].email
        /\ \A t \in Callers \ {s} : call'[t] = call[t]
    BY <2>1 DEF Typed, TypeOK, Call
  <2>3. LookUpHolds'
    <3> SUFFICES ASSUME NEW t \in Callers, NEW u \in UserIds,
                        call'[t].pc = "create", Exists(u), user[u].email = call'[t].email
                 PROVE  u \in raced \cup renamed
      BY <1>1 DEF LookUpHolds, At, Exists
    <3>1. CASE t = s
      BY <1>3, <2>2, <3>1 DEF Taken
    <3>2. CASE t # s
      BY <2>2, <3>2 DEF Emailed, LookUpHolds, At
    <3>3. QED BY <3>1, <3>2
  <2>4. IdsInOrder' /\ DuplicateEmailExplained'
    BY <1>1 DEF Emailed, IdsInOrder, DuplicateEmailExplained, Exists
  <2>5. QED BY <2>3, <2>4 DEF Emailed
<1>4. QED BY <1>2, <1>3

\* The new user is the latest one: whoever has its email came to it after this
\* registration's look-up, and registrations still waiting see it in raced.
LEMMA CreateEmailed ==
    ASSUME Typed, Emailed, NEW s \in Callers, CreateUser(s)
    PROVE  Emailed'
<1> DEFINE n == users + 1
<1> DEFINE email == call[s].email
<1>1. /\ users \in Nat /\ n \in UserIds /\ users' = n
      /\ raced \subseteq raced' /\ renamed' = renamed
  BY BoundsAssumption DEF CreateUser, UserIds, Typed, TypeOK
<1>2. /\ user'[n] = [email |-> email, kind |-> call[s].kind]
      /\ \A u \in UserIds \ {n} : user'[u] = user[u]
  BY <1>1 DEF CreateUser, Typed, TypeOK
<1>3. /\ call'[s].pc = "findRole"
      /\ \A t \in Callers \ {s} : call'[t] = call[t]
  BY DEF CreateUser, Typed, TypeOK, Call
<1>4. \A u \in UserIds : Exists(u) => u < n
  BY <1>1 DEF Emailed, IdsInOrder, Exists, UserIds
<1>5. IdsInOrder'
  BY <1>1, <1>2 DEF Emailed, IdsInOrder, UserIds
<1>6. LookUpHolds'
  <2> SUFFICES ASSUME NEW t \in Callers, NEW u \in UserIds, call'[t].pc = "create",
                      user'[u] # None, user'[u].email = call'[t].email
               PROVE  u \in raced' \cup renamed'
    BY DEF LookUpHolds, At, Exists
  <2>1. t # s /\ call'[t] = call[t]
    BY <1>3
  <2>2. CASE u = n
    <3>1. At(t, "create") /\ call[t].email = email
      BY <1>2, <2>1, <2>2 DEF At
    <3>2. raced' = raced \cup {n}
      BY <2>1, <3>1 DEF CreateUser
    <3>3. QED BY <2>2, <3>2
  <2>3. CASE u # n
    BY <1>1, <1>2, <2>1, <2>3 DEF Emailed, LookUpHolds, At, Exists
  <2>4. QED BY <2>2, <2>3
<1>7. DuplicateEmailExplained'
  <2> SUFFICES ASSUME NEW u \in UserIds, NEW v \in UserIds, u < v,
                      user'[u] # None, user'[v] # None, user'[u].email = user'[v].email
               PROVE  u \in raced' \/ {u, v} \cap renamed' # {}
    BY DEF DuplicateEmailExplained, Exists
  <2>1. u # n
    <3>1. v > n => user'[v] = None
      BY <1>1, <1>5 DEF IdsInOrder
    <3>2. QED BY <3>1
  <2>2. CASE v = n
    <3>1. Exists(u) /\ user[u].email = email /\ At(s, "create")
      BY <1>2, <2>1, <2>2 DEF Exists, CreateUser
    <3>2. u \in raced \cup renamed
      BY <3>1 DEF Emailed, LookUpHolds
    <3>3. QED BY <1>1, <3>2
  <2>3. CASE v # n
    <3>1. u \in raced \/ {u, v} \cap renamed # {}
      BY <1>2, <2>1, <2>3 DEF Emailed, DuplicateEmailExplained, Exists
    <3>2. QED BY <1>1, <3>1
  <2>4. QED BY <2>2, <2>3
<1>8. QED BY <1>5, <1>6, <1>7 DEF Emailed

\* An update gives an email away freely, to a user who counts as renamed; one
\* of another field leaves the email.
LEMMA UpdateEmailed ==
    ASSUME Typed, Emailed, NEW s \in Callers, UpdateUser(s)
    PROVE  Emailed'
<1> DEFINE u == call[s].user
<1>1. users' = users /\ raced' = raced /\ renamed \subseteq renamed'
  BY DEF UpdateUser, counters
<1>2. \A t \in Callers : call'[t].pc = "create" => call'[t] = call[t]
  BY DEF UpdateUser, End, Idle, Typed, TypeOK
<1>3. u \in UserIds
  BY DEF UpdateUser, At, Typed, CallsOK, CallOK
<1>4. CASE ~Exists(u)
  BY <1>1, <1>2, <1>4, EmailsKept DEF UpdateUser
<1>5. CASE Exists(u)
  <2>1. /\ u \in renamed' \/ user'[u].email = user[u].email
        /\ \A v \in UserIds \ {u} : user'[v] = user[v]
    BY <1>3, <1>5 DEF UpdateUser, Changed, Typed, TypeOK
  <2>2. LookUpHolds'
    BY <1>1, <1>2, <1>5, <2>1 DEF Emailed, LookUpHolds, At, Exists
  <2>3. IdsInOrder'
    BY <1>1, <1>5, <2>1 DEF Emailed, IdsInOrder, Exists
  <2>4. DuplicateEmailExplained'
    BY <1>1, <1>5, <2>1 DEF Emailed, DuplicateEmailExplained, Exists
  <2>5. QED BY <2>2, <2>3, <2>4 DEF Emailed
<1>6. QED BY <1>4, <1>5

\* Every step keeps the emails explained.
LEMMA StepEmailed == Typed /\ Emailed /\ [Next]_vars => Emailed'
<1> SUFFICES ASSUME Typed, Emailed, [Next]_vars PROVE Emailed'
  OBVIOUS
<1>0. ASSUME UNCHANGED <<user, call, users, raced, renamed>> PROVE Emailed'
  BY <1>0, EmailsKept
<1>1. ASSUME NEW s \in Callers, NEW e \in Emails, NEW k \in Kinds, Register(s, e, k)
      PROVE  Emailed'
  <2>1. \A t \in Callers : call'[t].pc = "create" => call'[t] = call[t]
    BY <1>1 DEF Register, Idle, Typed, TypeOK
  <2>2. QED BY <1>1, <2>1, EmailsKept DEF Register, counters, history
<1>2. ASSUME NEW s \in Callers, NEW u \in UserIds, NEW e \in Emails \cup {None},
             NEW k \in Kinds \cup {None}, StartUpdate(s, u, e, k)
      PROVE  Emailed'
  <2>1. \A t \in Callers : call'[t].pc = "create" => call'[t] = call[t]
    BY <1>2 DEF StartUpdate, Idle, Typed, TypeOK
  <2>2. QED BY <1>2, <2>1, EmailsKept DEF StartUpdate, counters, history
<1>3. CASE OneStep
  <2>1. ASSUME NEW u \in UserIds, DeleteUser(u) PROVE Emailed'
    BY <2>1, EmailsKept DEF DeleteUser, Typed, TypeOK, counters, history
  <2>2. ASSUME NEW r \in RoleIds, NEW name \in Kinds, CreateRole(r, name) PROVE Emailed'
    BY <1>0, <2>2 DEF CreateRole, counters, history
  <2>3. ASSUME NEW r \in RoleIds, DeleteRole(r) PROVE Emailed'
    BY <1>0, <2>3 DEF DeleteRole, counters
  <2>4. ASSUME NEW u \in UserIds, NEW r \in RoleIds, CreateEntry(u, r) PROVE Emailed'
    BY <1>0, <2>4 DEF CreateEntry, history
  <2>5. ASSUME NEW e \in Entries, RemoveEntry(e) PROVE Emailed'
    BY <1>0, <2>5 DEF RemoveEntry, counters
  <2>6. ASSUME NEW e \in Entries, NEW u \in UserIds, NEW r \in RoleIds, UpdateEntry(e, u, r)
        PROVE  Emailed'
    BY <1>0, <2>6 DEF UpdateEntry, counters
  <2>7. QED BY <1>3, <2>1, <2>2, <2>3, <2>4, <2>5, <2>6 DEF OneStep
<1>4. ASSUME NEW s \in Callers, CallStep(s) PROVE Emailed'
  <2>1. CASE HashPassword(s)
    <3>1. \A t \in Callers : call'[t].pc = "create" => call'[t] = call[t]
      BY <2>1 DEF HashPassword, Goto, Typed, TypeOK, Call
    <3>2. QED BY <2>1, <3>1, EmailsKept DEF HashPassword, counters, history
  <2>2. CASE FindRole(s)
    <3>1. \A t \in Callers : call'[t].pc = "create" => call'[t] = call[t]
      BY <2>2 DEF FindRole, End, Idle, Typed, TypeOK
    <3>2. QED BY <2>2, <3>1, EmailsKept DEF FindRole, counters
  <2>3. QED BY <1>4, <2>1, <2>2, LookUpEmailed, CreateEmailed, UpdateEmailed DEF CallStep
<1>5. ASSUME NEW p \in pending, Insert(p) PROVE Emailed'
  BY <1>0, <1>5 DEF Insert, history
<1>6. ASSUME Restart PROVE Emailed'
  <2>1. \A t \in Callers : call'[t].pc # "create"
    BY <1>6 DEF Restart, Idle
  <2>2. QED BY <1>6, <2>1, EmailsKept DEF Restart
<1>7. ASSUME NEW p \in pending, InsertRefused(p) PROVE Emailed'
  BY <1>0, <1>6, <1>7 DEF InsertRefused, counters
<1>8. CASE UNCHANGED vars
  BY <1>0, <1>8 DEF vars, counters, history
<1>9. QED
  BY <1>1, <1>2, <1>3, <1>4, <1>5, <1>6, <1>7, <1>8 DEF Next, Request, Step

-----------------------------------------------------------------------------
\* What becomes of a user's registration.  A user without wallet has its insert
\* under way or lost; the role is there, being inserted (or refused, when its
\* row is deleted meanwhile), or not looked up yet.
HasWallet(u) == u \in wallet \cup lost \/ <<u, None>> \in pending

HasRole(u) ==
    \E e \in Entries : entry[e][1] = u /\ role[entry[e][2]] = user[u].kind

RoleUnderWay(u) ==
    \E r \in RoleIds : <<u, r>> \in pending /\ role[r] \in {user[u].kind, "deleted"}

RoleNotFound(u) ==
    \E s \in Callers :
        At(s, "findRole") /\ call[s].user = u /\ call[s].kind = user[u].kind

Tracked(u) ==
    /\ HasWallet(u)
    /\ u \in lost \cup roleless \cup stripped
          \/ HasRole(u) \/ RoleUnderWay(u) \/ RoleNotFound(u)

RegistrationsTracked == \A u \in UserIds : Exists(u) => Tracked(u)

\* Rows of userinroles are given out in order: an insert overwrites none.
EntriesInOrder == \A e \in EntryIds : e > entries => entry[e] = None

Complete == RegistrationsTracked /\ EntriesInOrder

\* Where neither users nor inserts nor looked-up roles change, entries may be
\* added, and may change if their users count as stripped.
LEMMA TrackedStays ==
    ASSUME Typed, RegistrationsTracked, NEW u \in UserIds, Exists(u),
           user'[u].kind = user[u].kind \/ u \in stripped',
           u \in wallet => u \in wallet',
           pending' = pending,
           lost \subseteq lost', roleless \subseteq roleless', stripped \subseteq stripped',
           \A e \in Entries : entry[e][1] = u => entry'[e] = entry[e] \/ u \in stripped',
           \A r \in RoleIds : role[r] \in Kinds \cup {"deleted"} =>
               \/ role'[r] = role[r]
               \/ /\ role'[r] = "deleted"
                  /\ \A e \in Entries : entry[e][2] = r => entry[e][1] \in stripped',
           \A s \in Callers : At(s, "findRole") => call'[s] = call[s]
    PROVE  Tracked(u)'
<1>0. CASE u \in stripped'
  BY <1>0 DEF RegistrationsTracked, Tracked, HasWallet
<1> SUFFICES ASSUME u \notin stripped' PROVE Tracked(u)'
  BY <1>0
<1>1. HasWallet(u)'
  BY DEF RegistrationsTracked, Tracked, HasWallet
<1>2. user[u].kind \in Kinds
  BY DEF Typed, TypeOK, Exists, User
<1>3. ASSUME HasRole(u) PROVE u \in stripped' \/ HasRole(u)'
  <2>1. PICK e \in Entries : entry[e][1] = u /\ role[entry[e][2]] = user[u].kind
    BY <1>3 DEF HasRole
  <2>2. entry[e] \in UserIds \X RoleIds /\ e \in EntryIds
    BY DEF Entries, Typed, TypeOK
  <2>3. CASE entry'[e] = entry[e] /\ role'[entry[e][2]] = role[entry[e][2]]
    BY <2>1, <2>2, <2>3 DEF HasRole, Entries
  <2>4. CASE entry'[e] # entry[e]
    BY <2>1, <2>4
  <2>5. CASE role'[entry[e][2]] # role[entry[e][2]]
    BY <1>2, <2>1, <2>2, <2>5
  <2>6. QED BY <2>3, <2>4, <2>5
<1>4. ASSUME RoleUnderWay(u) PROVE RoleUnderWay(u)'
  BY <1>2, <1>4 DEF RoleUnderWay
<1>5. ASSUME RoleNotFound(u) PROVE RoleNotFound(u)'
  BY <1>5 DEF RoleNotFound, At
<1>6. QED BY <1>1, <1>3, <1>4, <1>5 DEF RegistrationsTracked, Tracked

LEMMA InitComplete == Init => Complete
BY DEF Init, Complete, RegistrationsTracked, EntriesInOrder, Exists

\* The requests of one step take a role away only from users they count as
\* stripped.
LEMMA OneStepComplete ==
    ASSUME Typed, Complete, OneStep
    PROVE  Complete'
<1> USE DEF Complete
<1>1. ASSUME NEW u \in UserIds, DeleteUser(u) PROVE Complete'
  <2>1. EntriesInOrder'
    BY <1>1 DEF DeleteUser, DropEntries, EntriesInOrder, counters
  <2>2. ASSUME NEW v \in UserIds, Exists(v)' PROVE Tracked(v)'
    <3>1. v # u /\ user'[v] = user[v] /\ Exists(v)
      BY <1>1, <2>2 DEF DeleteUser, Exists, Typed, TypeOK
    <3>2. \A e \in Entries : entry[e][1] = v => entry'[e] = entry[e]
      BY <1>1, <3>1 DEF DeleteUser, DropEntries, Entries
    <3>3. v \in wallet => v \in wallet'
      BY <1>1, <3>1 DEF DeleteUser
    <3>4. UNCHANGED <<role, call, pending, roleless, stripped, lost>>
      BY <1>1 DEF DeleteUser, history
    <3>5. QED BY <3>1, <3>2, <3>3, <3>4, TrackedStays
  <2>3. QED BY <2>1, <2>2 DEF RegistrationsTracked
<1>2. ASSUME NEW r \in RoleIds, NEW name \in Kinds, CreateRole(r, name) PROVE Complete'
  <2>1. EntriesInOrder'
    BY <1>2 DEF CreateRole, EntriesInOrder, counters
  <2>2. \A q \in RoleIds : role[q] \in Kinds \cup {"deleted"} => role'[q] = role[q]
    BY <1>2 DEF CreateRole, Kinds, Typed, TypeOK
  <2>3. ASSUME NEW v \in UserIds, Exists(v)' PROVE Tracked(v)'
    <3>1. UNCHANGED <<user, wallet, entry, call, pending, roleless, stripped, lost>>
      BY <1>2 DEF CreateRole, history
    <3>2. Exists(v)
      BY <2>3, <3>1 DEF Exists
    <3>3. QED BY <2>2, <3>1, <3>2, TrackedStays
  <2>4. QED BY <2>1, <2>3 DEF RegistrationsTracked
<1>3. ASSUME NEW r \in RoleIds, DeleteRole(r) PROVE Complete'
  <2>1. EntriesInOrder'
    BY <1>3 DEF DeleteRole, DropEntries, EntriesInOrder, counters
  <2>2. ASSUME NEW q \in RoleIds
        PROVE  \/ role'[q] = role[q]
               \/ /\ role'[q] = "deleted"
                  /\ \A e \in Entries : entry[e][2] = q => entry[e][1] \in stripped'
    BY <1>3 DEF DeleteRole, Typed, TypeOK
  <2>3. ASSUME NEW v \in UserIds, Exists(v)' PROVE Tracked(v)'
    <3>1. UNCHANGED <<user, wallet, call, pending, roleless, lost>> /\ stripped \subseteq stripped'
      BY <1>3 DEF DeleteRole
    <3>2. Exists(v)
      BY <2>3, <3>1 DEF Exists
    <3>3. \A e \in Entries : entry[e][1] = v => entry'[e] = entry[e] \/ v \in stripped'
      BY <1>3 DEF DeleteRole, DropEntries, Entries
    <3>4. QED BY <2>2, <3>1, <3>2, <3>3, TrackedStays
  <2>4. QED BY <2>1, <2>3 DEF RegistrationsTracked
<1>4. ASSUME NEW u \in UserIds, NEW r \in RoleIds, CreateEntry(u, r) PROVE Complete'
  <2>1. EntriesInOrder'
    BY <1>4, BoundsAssumption DEF CreateEntry, NewEntry, EntriesInOrder, EntryIds, Typed, TypeOK
  <2>2. \A e \in Entries : entry'[e] = entry[e]
    BY <1>4, BoundsAssumption DEF CreateEntry, NewEntry, EntriesInOrder, Entries, EntryIds, Typed, TypeOK
  <2>3. ASSUME NEW v \in UserIds, Exists(v)' PROVE Tracked(v)'
    <3>1. UNCHANGED <<user, wallet, role, call, pending, roleless, stripped, lost>>
      BY <1>4 DEF CreateEntry, history
    <3>2. Exists(v)
      BY <2>3, <3>1 DEF Exists
    <3>3. QED BY <2>2, <3>1, <3>2, TrackedStays
  <2>4. QED BY <2>1, <2>3 DEF RegistrationsTracked
<1>5. ASSUME NEW d \in Entries,
             \/ RemoveEntry(d)
             \/ \E u \in UserIds, r \in RoleIds : UpdateEntry(d, u, r)
      PROVE  Complete'
  <2>1. /\ UNCHANGED <<user, wallet, role, call, pending, entries, roleless, lost>>
        /\ stripped' = stripped \cup {entry[d][1]}
        /\ d \in EntryIds
        /\ \A e \in EntryIds \ {d} : entry'[e] = entry[e]
    BY <1>5 DEF RemoveEntry, UpdateEntry, DropEntries, Entries, counters, Typed, TypeOK
  <2>2. EntriesInOrder'
    BY <2>1 DEF EntriesInOrder, Entries
  <2>3. ASSUME NEW v \in UserIds, Exists(v)' PROVE Tracked(v)'
    <3>1. Exists(v)
      BY <2>1, <2>3 DEF Exists
    <3>2. \A e \in Entries : entry[e][1] = v => entry'[e] = entry[e] \/ v \in stripped'
      BY <2>1 DEF Entries
    <3>3. QED BY <2>1, <3>1, <3>2, TrackedStays
  <2>4. QED BY <2>2, <2>3 DEF RegistrationsTracked
<1>6. QED BY <1>1, <1>2, <1>3, <1>4, <1>5 DEF OneStep

\* Calls that are not past the insert of their user leave registrations alone.
LEMMA CallsComplete ==
    ASSUME Typed, Complete,
           UNCHANGED <<wallet, role, entry, pending, counters, roleless, lost>>,
           stripped \subseteq stripped',
           \A u \in UserIds : Exists(u)' =>
               Exists(u) /\ (user'[u].kind = user[u].kind \/ u \in stripped'),
           \A s \in Callers : At(s, "findRole") => call'[s] = call[s]
    PROVE  Complete'
<1>1. EntriesInOrder'
  BY DEF Complete, EntriesInOrder, counters
<1>2. ASSUME NEW v \in UserIds, Exists(v)' PROVE Tracked(v)'
  BY <1>2, TrackedStays DEF Complete
<1>3. QED BY <1>1, <1>2 DEF Complete, RegistrationsTracked

\* The new user has its wallet under way and its role still to be looked up.
LEMMA CreateUserComplete ==
    ASSUME Typed, Complete, NEW s \in Callers, CreateUser(s)
    PROVE  Complete'
<1> DEFINE n == users + 1
<1>1. n \in UserIds
  BY BoundsAssumption DEF CreateUser, UserIds, Typed, TypeOK
<1>2. /\ user'[n] = [email |-> call[s].email, kind |-> call[s].kind]
      /\ \A u \in UserIds \ {n} : user'[u] = user[u]
      /\ call'[s].pc = "findRole" /\ call'[s].user = n /\ call'[s].kind = call[s].kind
      /\ \A t \in Callers \ {s} : call'[t] = call[t]
      /\ At(s, "create")
  BY <1>1 DEF CreateUser, Typed, TypeOK, Call
<1>3. /\ pending' = pending \cup {<<n, None>>}
      /\ UNCHANGED <<wallet, role, entry, entries, roleless, stripped, lost>>
  BY DEF CreateUser
<1>4. EntriesInOrder'
  BY <1>3 DEF Complete, EntriesInOrder
<1>5. ASSUME NEW u \in UserIds, Exists(u)' PROVE Tracked(u)'
  <2>1. CASE u = n
    <3>1. HasWallet(u)'
      BY <1>3, <2>1 DEF HasWallet
    <3>2. RoleNotFound(u)'
      BY <1>2, <2>1 DEF RoleNotFound, At
    <3>3. QED BY <3>1, <3>2 DEF Tracked
  <2>2. CASE u # n
    <3>1. user'[u] = user[u] /\ Tracked(u)
      BY <1>2, <1>5, <2>2 DEF Exists, Complete, RegistrationsTracked
    <3>2. HasWallet(u)'
      BY <1>3, <3>1 DEF Tracked, HasWallet
    <3>3. HasRole(u) => HasRole(u)'
      BY <1>3, <3>1 DEF HasRole, Entries
    <3>4. RoleUnderWay(u) => RoleUnderWay(u)'
      BY <1>3, <3>1 DEF RoleUnderWay
    <3>5. RoleNotFound(u) => RoleNotFound(u)'
      BY <1>2, <3>1 DEF RoleNotFound, At
    <3>6. QED BY <1>3, <3>1, <3>2, <3>3, <3>4, <3>5 DEF Tracked
  <2>3. QED BY <2>1, <2>2
<1>6. QED BY <1>4, <1>5 DEF Complete, RegistrationsTracked

\* The look-up of the role ends with the insert under way, or without a role.
LEMMA FindRoleComplete ==
    ASSUME Typed, Complete, NEW s \in Callers, FindRole(s)
    PROVE  Complete'
<1> DEFINE n == call[s].user
<1> DEFINE found == RolesNamed(call[s].kind)
<1>1. /\ UNCHANGED <<user, wallet, role, entry, entries, stripped, lost>>
      /\ pending \subseteq pending' /\ roleless \subseteq roleless'
      /\ \A t \in Callers \ {s} : call'[t] = call[t]
  BY DEF FindRole, End, counters, Typed, TypeOK
<1>2. \/ n \in roleless'
      \/ \E r \in found : <<n, r>> \in pending'
  BY DEF FindRole
<1>3. EntriesInOrder'
  BY <1>1 DEF Complete, EntriesInOrder
<1>4. ASSUME NEW u \in UserIds, Exists(u)' PROVE Tracked(u)'
  <2>1. Tracked(u)
    BY <1>1, <1>4 DEF Exists, Complete, RegistrationsTracked
  <2>2. HasWallet(u)'
    BY <1>1, <2>1 DEF Tracked, HasWallet
  <2>3. HasRole(u) => HasRole(u)'
    BY <1>1 DEF HasRole, Entries
  <2>4. RoleUnderWay(u) => RoleUnderWay(u)'
    BY <1>1 DEF RoleUnderWay
  <2>5. ASSUME RoleNotFound(u) PROVE u \in roleless' \/ RoleUnderWay(u)' \/ RoleNotFound(u)'
    <3>1. PICK t \in Callers :
              At(t, "findRole") /\ call[t].user = u /\ call[t].kind = user[u].kind
      BY <2>5 DEF RoleNotFound
    <3>2. CASE t = s
      BY <1>1, <1>2, <3>1, <3>2 DEF RolesNamed, RoleUnderWay
    <3>3. CASE t # s
      BY <1>1, <3>1, <3>3 DEF RoleNotFound, At
    <3>4. QED BY <3>2, <3>3
  <2>6. QED BY <1>1, <2>1, <2>2, <2>3, <2>4, <2>5 DEF Tracked
<1>5. QED BY <1>3, <1>4 DEF Complete, RegistrationsTracked

\* The steps of a call keep the registrations tracked.
LEMMA CallStepComplete ==
    ASSUME Typed, Complete, NEW s \in Callers, CallStep(s)
    PROVE  Complete'
<1>1. ASSUME HashPassword(s) \/ LookUpEmail(s) PROVE Complete'
  <2>1. \A t \in Callers : At(t, "findRole") => call'[t] = call[t]
    BY <1>1 DEF HashPassword, LookUpEmail, Goto, End, At, Typed, TypeOK
  <2>2. UNCHANGED <<user, wallet, role, entry, pending, counters, history>>
    BY <1>1 DEF HashPassword, LookUpEmail
  <2>3. QED BY <2>1, <2>2, CallsComplete DEF Exists, history
<1>2. ASSUME UpdateUser(s) PROVE Complete'
  <2>1. \A t \in Callers : At(t, "findRole") => call'[t] = call[t]
    BY <1>2 DEF UpdateUser, End, At, Typed, TypeOK
  <2>2. \A u \in UserIds : Exists(u)' =>
            Exists(u) /\ (user'[u].kind = user[u].kind \/ u \in stripped')
    BY <1>2 DEF UpdateUser, Changed, Exists, Typed, TypeOK
  <2>3. UNCHANGED <<wallet, role, entry, pending, counters, roleless, lost>>
        /\ stripped \subseteq stripped'
    BY <1>2 DEF UpdateUser
  <2>4. QED BY <2>1, <2>2, <2>3, CallsComplete
<1>3. QED BY <1>1, <1>2, CreateUserComplete, FindRoleComplete DEF CallStep

\* A wallet or a role that was under way is there, in a row of its own.
LEMMA InsertComplete ==
    ASSUME Typed, Complete, NEW p \in pending, Insert(p)
    PROVE  Complete'
<1>1. UNCHANGED <<user, role, call, roleless, stripped, lost>>
  BY DEF Insert, history
<1>2. /\ pending' = pending \ {p}
      /\ p \in UserIds \X (RoleIds \cup {None})
      /\ p[2] # None => role[p[2]] \in Kinds
  BY DEF Insert, Typed, TypeOK
<1>3. CASE p[2] = None
  <2>1. wallet' = wallet \cup {p[1]} /\ UNCHANGED <<entry, entries>>
    BY <1>3 DEF Insert
  <2>2. EntriesInOrder'
    BY <2>1 DEF Complete, EntriesInOrder
  <2>3. ASSUME NEW u \in UserIds, Exists(u)' PROVE Tracked(u)'
    <3>1. Tracked(u)
      BY <1>1, <2>3 DEF Exists, Complete, RegistrationsTracked
    <3>2. HasWallet(u)'
      BY <1>1, <1>2, <2>1, <3>1 DEF Tracked, HasWallet
    <3>3. HasRole(u) => HasRole(u)'
      BY <1>1, <2>1 DEF HasRole, Entries
    <3>4. RoleUnderWay(u) => RoleUnderWay(u)'
      BY <1>1, <1>2, <1>3, NoneAssumption DEF RoleUnderWay
    <3>5. RoleNotFound(u) => RoleNotFound(u)'
      BY <1>1 DEF RoleNotFound, At
    <3>6. QED BY <1>1, <3>1, <3>2, <3>3, <3>4, <3>5 DEF Tracked
  <2>4. QED BY <2>2, <2>3 DEF Complete, RegistrationsTracked
<1>4. CASE p[2] # None
  <2> DEFINE m == entries + 1
  <2>1. p \in UserIds \X RoleIds /\ p # None
    BY <1>2, <1>4, NoneAssumption
  <2>2. /\ UNCHANGED wallet
        /\ m \in EntryIds /\ entries' = m /\ entry[m] = None /\ entry'[m] = p
        /\ \A e \in EntryIds \ {m} : entry'[e] = entry[e]
    <3>1. NewEntry(p) /\ UNCHANGED wallet
      BY <1>4 DEF Insert
    <3>2. m \in EntryIds /\ m > entries /\ DOMAIN entry = EntryIds
      BY <3>1, BoundsAssumption DEF NewEntry, EntryIds, Typed, TypeOK
    <3>3. entries' = m /\ entry' = [entry EXCEPT ![m] = p]
      BY <3>1 DEF NewEntry
    <3>4. entry[m] = None
      BY <3>2 DEF Complete, EntriesInOrder
    <3>5. QED BY <3>1, <3>2, <3>3, <3>4
  <2>3. EntriesInOrder'
    BY <2>2 DEF Complete, EntriesInOrder, EntryIds, Typed, TypeOK
  <2>4. ASSUME NEW u \in UserIds, Exists(u)' PROVE Tracked(u)'
    <3>1. Tracked(u)
      BY <1>1, <2>4 DEF Exists, Complete, RegistrationsTracked
    <3>2. HasWallet(u)'
      BY <1>1, <1>2, <1>4, <2>2, <3>1 DEF Tracked, HasWallet
    <3>3. HasRole(u) => HasRole(u)'
      BY <1>1, <2>2 DEF HasRole, Entries
    <3>4. ASSUME RoleUnderWay(u) PROVE HasRole(u)' \/ RoleUnderWay(u)'
      <4>1. PICK r \in RoleIds : <<u, r>> \in pending /\ role[r] \in {user[u].kind, "deleted"}
        BY <3>4 DEF RoleUnderWay
      <4>2. CASE p = <<u, r>>
        <5>1. role[r] = user[u].kind
          BY <1>2, <1>4, <4>1, <4>2 DEF Kinds
        <5>2. m \in Entries' /\ entry'[m][1] = u /\ entry'[m][2] = r
          BY <2>1, <2>2, <4>2 DEF Entries
        <5>3. QED BY <1>1, <5>1, <5>2 DEF HasRole
      <4>3. CASE p # <<u, r>>
        BY <1>1, <1>2, <4>1, <4>3 DEF RoleUnderWay
      <4>4. QED BY <4>2, <4>3
    <3>5. RoleNotFound(u) => RoleNotFound(u)'
      BY <1>1 DEF RoleNotFound, At
    <3>6. QED BY <1>1, <3>1, <3>2, <3>3, <3>4, <3>5 DEF Tracked
  <2>5. QED BY <2>3, <2>4 DEF Complete, RegistrationsTracked
<1>5. QED BY <1>3, <1>4

\* A restart and a refusal leave users that count as lost.
LEMMA FailuresComplete ==
    ASSUME Typed, Complete, Restart \/ \E p \in pending : InsertRefused(p)
    PROVE  Complete'
<1>1. ASSUME Restart PROVE Complete'
  <2>1. UNCHANGED <<user, wallet, role, entry, entries, roleless, stripped>>
    BY <1>1 DEF Restart
  <2>2. /\ \A p \in pending : p[1] \in lost'
        /\ \A s \in Callers : At(s, "findRole") => call[s].user \in lost'
        /\ lost \subseteq lost'
    BY <1>1 DEF Restart
  <2>3. ASSUME NEW u \in UserIds, Exists(u)' PROVE Tracked(u)'
    <3>1. Tracked(u)
      BY <2>1, <2>3 DEF Exists, Complete, RegistrationsTracked
    <3>2. HasWallet(u)'
      BY <2>1, <2>2, <3>1 DEF Tracked, HasWallet
    <3>3. HasRole(u) => HasRole(u)'
      BY <2>1 DEF HasRole, Entries
    <3>4. RoleUnderWay(u) \/ RoleNotFound(u) => u \in lost'
      BY <2>2 DEF RoleUnderWay, RoleNotFound
    <3>5. QED BY <2>1, <2>2, <3>1, <3>2, <3>3, <3>4 DEF Tracked
  <2>4. QED BY <2>1, <2>3 DEF Complete, RegistrationsTracked, EntriesInOrder
<1>2. ASSUME NEW p \in pending, InsertRefused(p), ~Restart PROVE Complete'
  <2>1. /\ UNCHANGED <<user, wallet, role, entry, call, entries, roleless, stripped>>
        /\ pending' = pending \ {p} /\ lost' = lost \cup {p[1]}
        /\ p \in UserIds \X (RoleIds \cup {None})
    BY <1>2 DEF InsertRefused, counters, Typed, TypeOK
  <2>2. ASSUME NEW u \in UserIds, Exists(u)' PROVE Tracked(u)'
    <3>1. Tracked(u)
      BY <2>1, <2>2 DEF Exists, Complete, RegistrationsTracked
    <3>2. HasWallet(u)'
      BY <2>1, <3>1 DEF Tracked, HasWallet
    <3>3. HasRole(u) => HasRole(u)'
      BY <2>1 DEF HasRole, Entries
    <3>4. RoleUnderWay(u) => u \in lost' \/ RoleUnderWay(u)'
      BY <2>1 DEF RoleUnderWay
    <3>5. RoleNotFound(u) => RoleNotFound(u)'
      BY <2>1 DEF RoleNotFound, At
    <3>6. QED BY <2>1, <3>1, <3>2, <3>3, <3>4, <3>5 DEF Tracked
  <2>3. QED BY <2>1, <2>2 DEF Complete, RegistrationsTracked, EntriesInOrder
<1>3. QED BY <1>1, <1>2

\* Every step keeps the registrations tracked.
LEMMA StepComplete == Typed /\ Complete /\ [Next]_vars => Complete'
<1> SUFFICES ASSUME Typed, Complete, [Next]_vars PROVE Complete'
  OBVIOUS
<1>1. ASSUME NEW s \in Callers, NEW e \in Emails, NEW k \in Kinds, Register(s, e, k)
      PROVE  Complete'
  <2>1. UNCHANGED <<user, wallet, role, entry, pending, counters, history>>
    BY <1>1 DEF Register
  <2>2. \A t \in Callers : At(t, "findRole") => call'[t] = call[t]
    BY <1>1 DEF Register, Idle, At, Typed, TypeOK
  <2>3. QED BY <2>1, <2>2, CallsComplete DEF Exists, history
<1>2. ASSUME NEW s \in Callers, NEW u \in UserIds, NEW e \in Emails \cup {None},
             NEW k \in Kinds \cup {None}, StartUpdate(s, u, e, k)
      PROVE  Complete'
  <2>1. UNCHANGED <<user, wallet, role, entry, pending, counters, history>>
    BY <1>2 DEF StartUpdate
  <2>2. \A t \in Callers : At(t, "findRole") => call'[t] = call[t]
    BY <1>2 DEF StartUpdate, Idle, At, Typed, TypeOK
  <2>3. QED BY <2>1, <2>2, CallsComplete DEF Exists, history
<1>3. CASE UNCHANGED vars
  <2>1. UNCHANGED <<user, wallet, role, entry, call, pending, counters, history>>
    BY <1>3 DEF vars
  <2>2. QED BY <2>1, CallsComplete DEF Exists, history
<1>4. QED
  BY <1>1, <1>2, <1>3, OneStepComplete, CallStepComplete, InsertComplete, FailuresComplete
     DEF Next, Request, Step

-----------------------------------------------------------------------------
Inv == Typed /\ Emailed /\ Complete

\* The invariant holds in every reachable state.
LEMMA InvHolds == Spec => []Inv
<1>1. Inv /\ [Next]_vars => Inv'
  BY StepTyped, StepEmailed, StepComplete DEF Inv
<1>2. Init => Inv
  BY InitEmailed, InitComplete DEF Inv
<1>3. QED BY <1>1, <1>2, PTL DEF Spec

\* The state of the accounts and of the registrations under way is well formed
\* whatever the number of users, callers and roles.
THEOREM AccountsTyped == Spec => []TypeOK
<1>1. Inv => TypeOK
  BY DEF Inv, Typed
<1>2. QED BY <1>1, InvHolds, PTL

\* Two users share an email only when their registrations overlapped, or when
\* one of them was given the email by an update.
THEOREM DuplicatesAreExplained == Spec => []DuplicateEmailExplained
<1>1. Inv => DuplicateEmailExplained
  BY DEF Inv, Emailed
<1>2. QED BY <1>1, InvHolds, PTL

\* When nothing of a registration is under way any more, the user has a wallet,
\* unless an insert was lost, and the role, unless that was lost, not found or
\* taken away, however registrations, deletions and restarts overlapped.
THEOREM IncompleteUsersExplained == Spec => []IncompleteUserExplained
<1>1. Inv => IncompleteUserExplained
  BY DEF Inv, Complete, RegistrationsTracked, Tracked, HasWallet, HasRole, RoleUnderWay,
         RoleNotFound, IncompleteUserExplained, Registered
<1>2. QED BY <1>1, InvHolds, PTL
=============================================================================
