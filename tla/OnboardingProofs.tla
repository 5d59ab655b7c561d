-------------------------- MODULE OnboardingProofs --------------------------
(***************************************************************************)
(* Proofs about Onboarding, for any people, workspaces, invites and        *)
(* requests in flight.                                                     *)
(***************************************************************************)
EXTENDS Onboarding, FiniteSetTheorems, TLAPS

-----------------------------------------------------------------------------
(***************************************************************************)
(* The inductive invariant.  Filled says which fields a request has, and   *)
(* that the invite to accept has gone out to the person it is for.         *)
(* Deferred: an accept that will leave the password alone does so because  *)
(* of a second seat, which nothing takes away.  Based: no seat without its *)
(* user and its workspace.                                                 *)
(***************************************************************************)
Several(p) == \E s, t \in SeatsOf(p) : s # t

Filled == \A r \in Requests :
  /\ req[r].call # "none" => req[r].person \in People
  /\ req[r].call \in {"register", "onboard", "invite"} => req[r].ws \in Workspaces
  /\ req[r].call = "invite" => req[r].ws \in workspaces
  /\ req[r].call \in {"invite", "accept"} => req[r].invite \in Invites
  /\ req[r].call = "accept" =>
       /\ invite[req[r].invite] # Unused
       /\ invite[req[r].invite].email = req[r].person

Deferred == \A r \in Requests :
  req[r].call = "accept" /\ ~req[r].decided => Several(req[r].person)

Secured == \A p \in People : Accepted(p) => Several(p) \/ HasCredential(p)

Based == \A s \in seats : s.of \in users /\ s.ws \in workspaces

Belonging == Based /\ EveryUserBelongs /\ OneSeat /\ InviteesAreSeated

Inv == TypeOK /\ IsFiniteSet(seats) /\ Filled /\ Belonging /\ Deferred /\ Secured

LEMMA IdleType == Idle \in Request /\ Idle.call = "none"
BY DEF Idle, Request, Roles

LEMMA SoleSeat ==
  ASSUME IsFiniteSet(seats), NEW p
  PROVE  Cardinality(SeatsOf(p)) = 1 <=> SeatsOf(p) # {} /\ ~Several(p)
<1>1. IsFiniteSet(SeatsOf(p))
  BY FS_Subset DEF SeatsOf
<1>2. Cardinality(SeatsOf(p)) = 1 <=> \E s : SeatsOf(p) = {s}
  BY <1>1, FS_Singleton
<1> QED
  BY <1>2 DEF Several

\* A person on the invites table has a row and a seat.
LEMMA AcceptedBelongs ==
  ASSUME InviteesAreSeated, NEW p \in People, Accepted(p)
  PROVE  p \in users /\ SeatsOf(p) # {}
BY DEF InviteesAreSeated, Accepted, Unused, SeatsOf

LEMMA Implied == Inv => SoleSeatCanSignIn
BY SoleSeat DEF Inv, Secured, SoleSeatCanSignIn

-----------------------------------------------------------------------------
(***************************************************************************)
(* Requests.                                                               *)
(***************************************************************************)

\* A slot takes up a request, and nothing else changes.
LEMMA Checked ==
  ASSUME Inv, NEW r \in Requests, NEW q \in Request, Check(r, q),
         q.person \in People,
         q.call \in {"register", "onboard", "invite"} => q.ws \in Workspaces,
         q.call = "invite" => q.ws \in workspaces,
         q.call \in {"invite", "accept"} => q.invite \in Invites,
         q.call = "accept" =>
           invite[q.invite] # Unused /\ invite[q.invite].email = q.person,
         q.call = "accept" /\ ~q.decided => Several(q.person)
  PROVE  Inv'
<1>1. /\ req' = [req EXCEPT ![r] = q]
      /\ UNCHANGED <<workspaces, users, password, linked, seats, invite, tokens, sessions>>
  BY DEF Check
<1>2. TypeOK'
  BY <1>1 DEF Inv, TypeOK
<1>3. Filled'
  BY <1>1 DEF Inv, TypeOK, Filled
<1>4. \A p : Several(p)' <=> Several(p)
  BY <1>1 DEF Several, SeatsOf
<1>5. Deferred'
  BY <1>1, <1>4 DEF Inv, TypeOK, Deferred
<1>6. Belonging'
  BY <1>1 DEF Inv, Belonging, Based, EveryUserBelongs, OneSeat, InviteesAreSeated, SeatsOf
<1>7. Secured'
  <2>1. \A p : HasCredential(p)' <=> HasCredential(p)
    BY <1>1 DEF CanSignIn, HasCredential
  <2>2. \A p : Accepted(p)' <=> Accepted(p)
    BY <1>1 DEF Accepted
  <2> QED
    BY <1>4, <2>1, <2>2 DEF Inv, Secured
<1> QED
  BY <1>1, <1>2, <1>3, <1>5, <1>6, <1>7 DEF Inv

LEMMA CheckStepInv ==
  ASSUME Inv, NEW r \in Requests, CheckStep(r)
  PROVE  Inv'
<1>1. ASSUME NEW p \in People, NEW w \in Workspaces, NEW call \in {"register", "onboard"},
             Check(r, [Idle EXCEPT !.call = call, !.person = p, !.ws = w])
      PROVE  Inv'
  <2> PICK q : q = [Idle EXCEPT !.call = call, !.person = p, !.ws = w]
    OBVIOUS
  <2>1. q \in Request /\ q.call = call /\ q.person = p /\ q.ws = w
    BY DEF Idle, Request, Roles
  <2> QED
    BY <1>1, <2>1, Checked
<1>2. ASSUME NEW p \in People, NEW w \in Workspaces, NEW i \in Invites,
             NEW role \in InviteRoles, CheckInvite(r, w, p, i, role)
      PROVE  Inv'
  <2> PICK q : q = [call |-> "invite", person |-> p, ws |-> w, invite |-> i,
                    role |-> role, decided |-> p \notin users]
    OBVIOUS
  <2>1. q \in Request /\ q.call = "invite" /\ q.person = p /\ q.ws = w /\ q.invite = i
    BY DEF Request, InviteRoles, Roles
  <2>2. Check(r, q) /\ w \in workspaces
    BY <1>2 DEF CheckInvite, Inv, Belonging, Based
  <2> QED
    BY <2>1, <2>2, Checked
<1>3. ASSUME NEW i \in Invites, CheckAccept(r, i) PROVE Inv'
  <2> PICK p : p = invite[i].email
    OBVIOUS
  <2> PICK only : only = OnlySeat(p)
    OBVIOUS
  <2> PICK q : q = [Idle EXCEPT !.call = "accept", !.person = p, !.invite = i,
                                !.decided = only]
    OBVIOUS
  <2>1. p \in People /\ invite[i] # Unused /\ SeatsOf(p) # {}
    BY <1>3 DEF CheckAccept, Unused, Inv, TypeOK
  <2>2. only \in BOOLEAN
    BY DEF OnlySeat
  <2>3. q \in Request /\ q.call = "accept" /\ q.person = p /\ q.invite = i /\ q.decided = only
    BY <2>1, <2>2 DEF Idle, Request, Roles
  <2>4. ~only => Several(p)
    BY <2>1, SoleSeat DEF OnlySeat, Inv
  <2>5. Check(r, q)
    BY <1>3 DEF CheckAccept
  <2> QED
    BY <2>1, <2>3, <2>4, <2>5, Checked
<1>4. ASSUME NEW p \in People, NEW call \in {"change", "set"},
             Check(r, [Idle EXCEPT !.call = call, !.person = p])
      PROVE  Inv'
  <2> PICK q : q = [Idle EXCEPT !.call = call, !.person = p]
    OBVIOUS
  <2>1. q \in Request /\ q.call = call /\ q.person = p
    BY DEF Idle, Request, Roles
  <2> QED
    BY <1>4, <2>1, Checked
<1> QED
  BY <1>1, <1>2, <1>3, <1>4 DEF CheckStep, CheckRegister, CheckOnboard, CheckChange, CheckSet

LEMMA Dropped ==
  ASSUME Inv, NEW r \in Requests, req' = [req EXCEPT ![r] = Idle],
         workspaces \subseteq workspaces',
         \A i \in Invites : invite[i] # Unused =>
           invite'[i] # Unused /\ invite'[i].email = invite[i].email,
         seats \subseteq seats'
  PROVE  req' \in [Requests -> Request] /\ Filled' /\ Deferred'
<1>1. \A p : Several(p) => Several(p)'
  BY DEF Several, SeatsOf
<1>2. req' \in [Requests -> Request]
  BY IdleType DEF Inv, TypeOK
<1>3. \A s \in Requests : req'[s] = IF s = r THEN Idle ELSE req[s]
  BY DEF Inv, TypeOK
<1>4. Filled'
  BY <1>3, IdleType DEF Inv, Filled
<1>5. Deferred'
  BY <1>1, <1>3, IdleType DEF Inv, Deferred
<1> QED
  BY <1>2, <1>4, <1>5

\* The same for a step that takes no slot.
LEMMA Untouched ==
  ASSUME Inv, UNCHANGED req, workspaces \subseteq workspaces',
         \A i \in Invites : invite[i] # Unused =>
           invite'[i] # Unused /\ invite'[i].email = invite[i].email,
         seats \subseteq seats'
  PROVE  req' \in [Requests -> Request] /\ Filled' /\ Deferred'
<1>1. \A p : Several(p) => Several(p)'
  BY DEF Several, SeatsOf
<1>2. Filled'
  BY DEF Inv, Filled
<1>3. Deferred'
  BY <1>1 DEF Inv, Deferred
<1> QED
  BY <1>2, <1>3 DEF Inv, TypeOK

-----------------------------------------------------------------------------
(***************************************************************************)
(* Seats and passwords.                                                    *)
(***************************************************************************)

LEMMA SeatAdded ==
  ASSUME Inv, NEW s \in Seat, seats' = seats \cup {s}, NewSeat(s.ws, s.of),
         users' = users \cup {s.of}, s.ws \in workspaces', workspaces \subseteq workspaces'
  PROVE  seats' \subseteq Seat /\ IsFiniteSet(seats') /\ Based' /\ EveryUserBelongs' /\ OneSeat'
<1>1. IsFiniteSet(seats')
  BY FS_AddElement DEF Inv
<1>2. seats' \subseteq Seat
  BY DEF Inv, TypeOK
<1>3. Based'
  BY DEF Inv, Belonging, Based
<1>4. EveryUserBelongs'
  BY DEF Inv, Belonging, EveryUserBelongs, SeatsOf
<1>5. OneSeat'
  BY DEF Inv, Belonging, OneSeat, NewSeat, SeatsOf
<1> QED
  BY <1>1, <1>2, <1>3, <1>4, <1>5

LEMMA InvitesKept ==
  ASSUME InviteesAreSeated, users \subseteq users', seats \subseteq seats', UNCHANGED invite
  PROVE  InviteesAreSeated'
BY DEF InviteesAreSeated

LEMMA StaysSecured ==
  ASSUME Inv, seats \subseteq seats',
         \A p \in People : Accepted(p)' => Accepted(p),
         \A p \in People : Accepted(p) /\ HasCredential(p) => HasCredential(p)'
  PROVE  Secured'
<1>1. \A p : Several(p) => Several(p)'
  BY DEF Several, SeatsOf
<1> QED
  BY <1>1 DEF Inv, Secured

\* A new workspace, and its owner's seat.
LEMMA Founded ==
  ASSUME Inv, NEW p \in People, NEW w \in Workspaces, NewWorkspace(w),
         workspaces' = workspaces \cup {w}, seats' = seats \cup {Owner(w, p)},
         users' = users \cup {p}, UNCHANGED invite
  PROVE  /\ workspaces' \subseteq Workspaces /\ users' \subseteq People
         /\ seats' \subseteq Seat /\ IsFiniteSet(seats')
         /\ Belonging' /\ seats \subseteq seats'
<1> PICK s : s = Owner(w, p)
  OBVIOUS
<1>1. s \in Seat /\ s.ws = w /\ s.of = p
  BY DEF Owner, Seat, Roles
<1>2. NewSeat(w, p)
  BY DEF NewSeat, NewWorkspace, SeatsOf, Inv, Belonging, Based
<1>3. seats' = seats \cup {s}
  OBVIOUS
<1>4. seats' \subseteq Seat /\ IsFiniteSet(seats') /\ Based' /\ EveryUserBelongs' /\ OneSeat'
  BY <1>1, <1>2, <1>3, SeatAdded
<1>5. InviteesAreSeated'
  BY InvitesKept DEF Inv, Belonging
<1> QED
  BY <1>4, <1>5 DEF Belonging, Inv, TypeOK

\* Without a users row nobody has accepted an invite.
LEMMA NewcomersHaveNotAccepted ==
  ASSUME Inv, NEW p \in People, p \notin users
  PROVE  ~Accepted(p)
BY AcceptedBelongs DEF Inv, Belonging

-----------------------------------------------------------------------------
(***************************************************************************)
(* The commits.                                                            *)
(***************************************************************************)

LEMMA SignUpInv ==
  ASSUME Inv, NEW r \in Requests, CommitRegister(r) \/ CommitOnboard(r)
  PROVE  Inv'
<1> PICK q : q = req[r]
  OBVIOUS
<1> PICK p : p = q.person
  OBVIOUS
<1>1. p \in People /\ q.ws \in Workspaces
  BY DEF CommitRegister, CommitOnboard, Inv, Filled
<1>2. /\ p \notin users /\ NewWorkspace(q.ws)
      /\ users' = users \cup {p} /\ workspaces' = workspaces \cup {q.ws}
      /\ seats' = seats \cup {Owner(q.ws, p)}
      /\ req' = [req EXCEPT ![r] = Idle]
      /\ UNCHANGED <<invite, tokens, sessions>>
  BY DEF CommitRegister, CommitOnboard, NewUser
<1>3. /\ password' \in [People -> Passwords] /\ linked' \subseteq People
      /\ linked \subseteq linked'
      /\ \A o \in People \ {p} : password'[o] = password[o]
  BY <1>1 DEF CommitRegister, CommitOnboard, Inv, TypeOK, Passwords
<1>4. /\ workspaces' \subseteq Workspaces /\ users' \subseteq People
      /\ seats' \subseteq Seat /\ IsFiniteSet(seats')
      /\ Belonging' /\ seats \subseteq seats'
  BY <1>1, <1>2, Founded
<1>5. req' \in [Requests -> Request] /\ Filled' /\ Deferred'
  BY <1>2, <1>4, Dropped
<1>6. ~Accepted(p)
  BY <1>1, <1>2, NewcomersHaveNotAccepted
<1>7. Secured'
  <2>1. \A o \in People : Accepted(o)' => Accepted(o)
    BY <1>2 DEF Accepted
  <2>2. \A o \in People : Accepted(o) /\ HasCredential(o) => HasCredential(o)'
    BY <1>3, <1>6 DEF HasCredential, CanSignIn
  <2> QED
    BY <1>4, <2>1, <2>2, StaysSecured
<1>8. TypeOK'
  BY <1>2, <1>3, <1>4, <1>5 DEF Inv, TypeOK
<1> QED
  BY <1>4, <1>5, <1>7, <1>8 DEF Inv

LEMMA CommitInviteInv ==
  ASSUME Inv, NEW r \in Requests, CommitInvite(r)
  PROVE  Inv'
<1> PICK q : q = req[r]
  OBVIOUS
<1> PICK p : p = q.person
  OBVIOUS
<1> PICK i : i = q.invite
  OBVIOUS
<1> PICK row : row = [stage |-> "pending", ws |-> q.ws, email |-> p]
  OBVIOUS
<1> PICK s : s = [ws |-> q.ws, of |-> p, role |-> q.role, via |-> i]
  OBVIOUS
<1>1. q \in Request /\ p \in People /\ q.ws \in Workspaces /\ q.ws \in workspaces /\ i \in Invites
  BY DEF CommitInvite, Inv, TypeOK, Filled
<1>2. s \in Seat /\ s.ws = q.ws /\ s.of = p /\ s.via = i
  BY <1>1 DEF Seat, Request
<1>3. row \in Invite /\ row # Unused /\ row.stage = "pending" /\ row.ws = q.ws /\ row.email = p
  BY <1>1 DEF Invite, Unused
<1>4. /\ invite[i] = Unused /\ NewSeat(q.ws, p)
      /\ users' = users \cup {p} /\ seats' = seats \cup {s}
      /\ invite' = [invite EXCEPT ![i] = row]
      /\ req' = [req EXCEPT ![r] = Idle]
      /\ UNCHANGED <<workspaces, linked, tokens, sessions>>
  BY DEF CommitInvite, InvitedSeat
<1>5. \A j \in Invites : invite'[j] = IF j = i THEN row ELSE invite[j]
  BY <1>4 DEF Inv, TypeOK
<1>6. password' = password \/ (p \notin users /\ password' = [password EXCEPT ![p] = "placeholder"])
  BY DEF CommitInvite, NewUser
<1>7. seats' \subseteq Seat /\ IsFiniteSet(seats') /\ Based' /\ EveryUserBelongs' /\ OneSeat'
  BY <1>1, <1>2, <1>4, SeatAdded
<1>8. InviteesAreSeated'
  BY <1>2, <1>3, <1>4, <1>5 DEF Inv, Belonging, InviteesAreSeated
<1>9. req' \in [Requests -> Request] /\ Filled' /\ Deferred'
  BY <1>4, <1>5, Dropped
<1>10. Secured'
  <2>1. \A o \in People : Accepted(o)' => Accepted(o)
    BY <1>3, <1>5 DEF Accepted
  <2>2. p \notin users => ~Accepted(p)
    BY <1>1, NewcomersHaveNotAccepted
  <2>3. \A o \in People : Accepted(o) /\ HasCredential(o) => HasCredential(o)'
    BY <1>4, <1>6, <2>2 DEF HasCredential, CanSignIn, Inv, TypeOK
  <2> QED
    BY <1>4, <2>1, <2>3, StaysSecured
<1>11. TypeOK'
  BY <1>1, <1>3, <1>4, <1>6, <1>7, <1>9 DEF Inv, TypeOK, Passwords
<1> QED
  BY <1>7, <1>8, <1>9, <1>10, <1>11 DEF Inv, Belonging

LEMMA CommitAcceptInv ==
  ASSUME Inv, NEW r \in Requests, CommitAccept(r)
  PROVE  Inv'
<1> PICK q : q = req[r]
  OBVIOUS
<1> PICK p : p = q.person
  OBVIOUS
<1> PICK i : i = q.invite
  OBVIOUS
<1> PICK row : row = [invite[i] EXCEPT !.stage = "accepted"]
  OBVIOUS
<1>1. /\ p \in People /\ i \in Invites /\ invite[i] # Unused /\ invite[i].email = p
      /\ invite[i] \in Invite
      /\ ~q.decided => Several(p)
  BY DEF CommitAccept, Inv, TypeOK, Filled, Deferred
<1>2. /\ row \in Invite /\ row # Unused /\ row.email = p /\ row.ws = invite[i].ws
  BY <1>1 DEF Invite, Unused
<1>3. /\ invite' = [invite EXCEPT ![i] = row]
      /\ req' = [req EXCEPT ![r] = Idle] /\ sessions' = sessions \cup {p}
      /\ UNCHANGED <<workspaces, users, linked, seats, tokens>>
  BY DEF CommitAccept, Inv, TypeOK
<1>4. password' = IF q.decided THEN [password EXCEPT ![p] = "picked"] ELSE password
  BY DEF CommitAccept
<1>5. \A j \in Invites : invite'[j] = IF j = i THEN row ELSE invite[j]
  BY <1>3 DEF Inv, TypeOK
<1>6. req' \in [Requests -> Request] /\ Filled' /\ Deferred'
  BY <1>1, <1>2, <1>3, <1>5, Dropped
<1>7. Belonging'
  <2>1. Based' /\ EveryUserBelongs' /\ OneSeat'
    BY <1>3 DEF Inv, Belonging, Based, EveryUserBelongs, OneSeat, SeatsOf
  <2>2. InviteesAreSeated'
    BY <1>1, <1>2, <1>3, <1>5 DEF Inv, Belonging, InviteesAreSeated
  <2> QED
    BY <2>1, <2>2 DEF Belonging
<1>8. Secured'
  <2>1. \A o \in People : Accepted(o)' => Accepted(o) \/ o = p
    BY <1>1, <1>2, <1>5 DEF Accepted
  <2>2. \A o : Several(o)' <=> Several(o)
    BY <1>3 DEF Several, SeatsOf
  <2>3. \A o \in People : HasCredential(o) => HasCredential(o)'
    BY <1>1, <1>3, <1>4 DEF HasCredential, CanSignIn, Inv, TypeOK
  <2>4. q.decided => HasCredential(p)'
    BY <1>1, <1>4 DEF HasCredential, CanSignIn, Inv, TypeOK
  <2> QED
    BY <1>1, <2>1, <2>2, <2>3, <2>4 DEF Secured, Inv
<1>9. TypeOK'
  BY <1>1, <1>2, <1>3, <1>4, <1>6 DEF Inv, TypeOK, Passwords
<1> QED
  BY <1>3, <1>6, <1>7, <1>8, <1>9 DEF Inv

\* Passwords change, for better or by a reset; nobody's seat does.
LEMMA PasswordInv ==
  ASSUME Inv, NEW p \in People, NEW value \in {"picked", "reset"},
         password' = [password EXCEPT ![p] = value], sessions' \subseteq People,
         UNCHANGED <<workspaces, users, linked, seats, invite, tokens>>,
         req' \in [Requests -> Request] /\ Filled' /\ Deferred'
  PROVE  Inv'
<1>1. Secured'
  <2>1. \A o \in People : Accepted(o)' => Accepted(o)
    BY DEF Accepted
  <2>2. \A o \in People : HasCredential(o) => HasCredential(o)'
    BY DEF HasCredential, CanSignIn, Inv, TypeOK
  <2> QED
    BY <2>1, <2>2, StaysSecured
<1>2. Belonging'
  BY DEF Inv, Belonging, Based, EveryUserBelongs, OneSeat, InviteesAreSeated, SeatsOf
<1>3. TypeOK'
  BY DEF Inv, TypeOK, Passwords
<1> QED
  BY <1>1, <1>2, <1>3 DEF Inv

LEMMA CommitPasswordInv ==
  ASSUME Inv, NEW r \in Requests, CommitPassword(r)
  PROVE  Inv'
<1> PICK p : p = req[r].person
  OBVIOUS
<1>1. p \in People
  BY DEF CommitPassword, Inv, Filled
<1>2. /\ password' = [password EXCEPT ![p] = "picked"] /\ req' = [req EXCEPT ![r] = Idle]
      /\ UNCHANGED <<workspaces, users, linked, seats, invite, tokens, sessions>>
  BY DEF CommitPassword
<1>3. req' \in [Requests -> Request] /\ Filled' /\ Deferred'
  BY <1>2, Dropped
<1>4. sessions' \subseteq People
  BY <1>2 DEF Inv, TypeOK
<1> QED
  BY <1>1, <1>2, <1>3, <1>4, PasswordInv

LEMMA ForceResetInv ==
  ASSUME Inv, NEW p \in People, ForceReset(p)
  PROVE  Inv'
<1>1. /\ password' = [password EXCEPT ![p] = "reset"] /\ sessions' = sessions \ {p}
      /\ UNCHANGED <<workspaces, users, linked, seats, invite, tokens, req>>
  BY DEF ForceReset
<1>2. req' \in [Requests -> Request] /\ Filled' /\ Deferred'
  BY <1>1, Untouched
<1>3. sessions' \subseteq People
  BY <1>1 DEF Inv, TypeOK
<1> QED
  BY <1>1, <1>2, <1>3, PasswordInv

LEMMA OauthLoginInv ==
  ASSUME Inv, NEW p \in People, OauthLogin(p)
  PROVE  Inv'
<1>1. /\ linked \subseteq linked' /\ linked' \subseteq People /\ tokens' \subseteq People
      /\ UNCHANGED <<workspaces, users, password, seats, invite, sessions, req>>
  BY DEF OauthLogin, Inv, TypeOK
<1>2. req' \in [Requests -> Request] /\ Filled' /\ Deferred'
  BY <1>1, Untouched
<1>3. Secured'
  BY <1>1, StaysSecured DEF Accepted, HasCredential, CanSignIn
<1>4. Belonging'
  BY <1>1 DEF Inv, Belonging, Based, EveryUserBelongs, OneSeat, InviteesAreSeated, SeatsOf
<1> QED
  BY <1>1, <1>2, <1>3, <1>4 DEF Inv, TypeOK

LEMMA OpenWorkspaceInv ==
  ASSUME Inv, NEW p \in People, NEW w \in Workspaces, OpenWorkspace(p, w)
  PROVE  Inv'
<1>1. /\ p \in users /\ NewWorkspace(w) /\ workspaces' = workspaces \cup {w}
      /\ seats' = seats \cup {Owner(w, p)} /\ users' = users \cup {p}
      /\ UNCHANGED <<password, linked, invite, tokens, sessions, req>>
  BY DEF OpenWorkspace
<1>2. /\ workspaces' \subseteq Workspaces /\ users' \subseteq People
      /\ seats' \subseteq Seat /\ IsFiniteSet(seats')
      /\ Belonging' /\ seats \subseteq seats'
  BY <1>1, Founded
<1>3. req' \in [Requests -> Request] /\ Filled' /\ Deferred'
  BY <1>1, <1>2, Untouched
<1>4. Secured'
  BY <1>1, <1>2, StaysSecured DEF Accepted, HasCredential, CanSignIn
<1> QED
  BY <1>1, <1>2, <1>3, <1>4 DEF Inv, TypeOK

LEMMA ExpireInv ==
  ASSUME Inv, NEW i \in Invites, Expire(i)
  PROVE  Inv'
<1> PICK row : row = [invite[i] EXCEPT !.stage = "expired"]
  OBVIOUS
<1>1. /\ row \in Invite /\ row # Unused /\ invite[i] # Unused /\ row.stage = "expired"
      /\ row.email = invite[i].email /\ row.ws = invite[i].ws
  BY DEF Expire, Invite, Unused, Inv, TypeOK
<1>2. /\ invite' = [invite EXCEPT ![i] = row]
      /\ UNCHANGED <<workspaces, users, password, linked, seats, tokens, sessions, req>>
  BY DEF Expire, Inv, TypeOK
<1>3. \A j \in Invites : invite'[j] = IF j = i THEN row ELSE invite[j]
  BY <1>2 DEF Inv, TypeOK
<1>4. req' \in [Requests -> Request] /\ Filled' /\ Deferred'
  BY <1>1, <1>2, <1>3, Untouched
<1>5. Secured'
  <2>1. \A o \in People : Accepted(o)' => Accepted(o)
    BY <1>1, <1>3 DEF Accepted
  <2> QED
    BY <1>2, <2>1, StaysSecured DEF HasCredential, CanSignIn
<1>6. Belonging'
  <2>1. Based' /\ EveryUserBelongs' /\ OneSeat'
    BY <1>2 DEF Inv, Belonging, Based, EveryUserBelongs, OneSeat, SeatsOf
  <2>2. InviteesAreSeated'
    BY <1>1, <1>2, <1>3 DEF Inv, Belonging, InviteesAreSeated
  <2> QED
    BY <2>1, <2>2 DEF Belonging
<1>7. TypeOK'
  BY <1>1, <1>2 DEF Inv, TypeOK
<1> QED
  BY <1>2, <1>4, <1>5, <1>6, <1>7 DEF Inv

LEMMA AbandonInv ==
  ASSUME Inv, NEW r \in Requests, Abandon(r)
  PROVE  Inv'
<1>1. /\ req' = [req EXCEPT ![r] = Idle]
      /\ UNCHANGED <<workspaces, users, password, linked, seats, invite, tokens, sessions>>
  BY DEF Abandon
<1>2. req' \in [Requests -> Request] /\ Filled' /\ Deferred'
  BY <1>1, Dropped
<1>3. Secured'
  BY <1>1, StaysSecured DEF Accepted, HasCredential, CanSignIn
<1>4. Belonging'
  BY <1>1 DEF Inv, Belonging, Based, EveryUserBelongs, OneSeat, InviteesAreSeated, SeatsOf
<1> QED
  BY <1>1, <1>2, <1>3, <1>4 DEF Inv, TypeOK

-----------------------------------------------------------------------------
(***************************************************************************)
(* The theorems.                                                           *)
(***************************************************************************)

LEMMA InitInv == Init => Inv
<1> SUFFICES ASSUME Init PROVE Inv
  OBVIOUS
<1>1. TypeOK
  BY IdleType DEF Init, TypeOK, Passwords, Invite, Unused
<1>2. IsFiniteSet(seats)
  BY FS_EmptySet DEF Init
<1>3. Filled /\ Deferred
  BY IdleType DEF Init, Filled, Deferred
<1>4. \A i \in Invites : invite[i] = Unused /\ invite[i].stage = "unused"
  BY DEF Init, Unused
<1>5. Secured /\ InviteesAreSeated
  BY <1>4 DEF Secured, Accepted, InviteesAreSeated
<1>6. Based /\ EveryUserBelongs /\ OneSeat
  BY DEF Init, Based, EveryUserBelongs, OneSeat
<1> QED
  BY <1>1, <1>2, <1>3, <1>5, <1>6 DEF Inv, Belonging

LEMMA StepInv == Inv /\ [Next]_vars => Inv'
<1> SUFFICES ASSUME Inv, [Next]_vars PROVE Inv'
  OBVIOUS
<1>1. ASSUME NEW p \in People, OauthLogin(p) \/ ForceReset(p) PROVE Inv'
  BY <1>1, OauthLoginInv, ForceResetInv
<1>2. ASSUME NEW p \in People, NEW w \in Workspaces, OpenWorkspace(p, w) PROVE Inv'
  BY <1>2, OpenWorkspaceInv
<1>3. ASSUME NEW i \in Invites, Expire(i) PROVE Inv'
  BY <1>3, ExpireInv
<1>4. ASSUME NEW r \in Requests, CheckStep(r) \/ CommitStep(r) \/ Abandon(r) PROVE Inv'
  BY <1>4, CheckStepInv, SignUpInv, CommitInviteInv, CommitAcceptInv,
     CommitPasswordInv, AbandonInv DEF CommitStep
<1>5. CASE UNCHANGED vars
  <2>1. UNCHANGED <<workspaces, users, password, linked, seats, invite, tokens, sessions, req>>
    BY <1>5 DEF vars
  <2>2. req' \in [Requests -> Request] /\ Filled' /\ Deferred'
    BY <2>1, Untouched
  <2>3. Secured'
    BY <2>1, StaysSecured DEF Accepted, HasCredential, CanSignIn
  <2>4. Belonging'
    BY <2>1 DEF Inv, Belonging, Based, EveryUserBelongs, OneSeat, InviteesAreSeated, SeatsOf
  <2> QED
    BY <2>1, <2>2, <2>3, <2>4 DEF Inv, TypeOK
<1> QED
  BY <1>1, <1>2, <1>3, <1>4, <1>5 DEF Next

LEMMA Invariant == Spec => []Inv
<1>1. Init => Inv
  BY InitInv
<1>2. Inv /\ [Next]_vars => Inv'
  BY StepInv
<1> QED
  BY <1>1, <1>2, PTL DEF Spec

(***************************************************************************)
(* Type correctness of the tables and of the requests under way.           *)
(***************************************************************************)
THEOREM TypeCorrect == Spec => []TypeOK
<1>1. Inv => TypeOK
  BY DEF Inv
<1> QED
  BY <1>1, Invariant, PTL

(***************************************************************************)
(* No stranded user, one seat per workspace, and the rows accept_invite    *)
(* relies on: whatever sign-ups, invites and their failures overlap.       *)
(***************************************************************************)
THEOREM EveryoneIsSeated == Spec => []Seated
<1>1. Inv => Seated
  BY DEF Inv, Belonging, Seated
<1> QED
  BY <1>1, Invariant, PTL

(***************************************************************************)
(* Who accepts an invite and has no seat elsewhere can sign in, however    *)
(* the accept overlaps with invites, password changes and resets.          *)
(***************************************************************************)
THEOREM InviteeCanSignIn == Spec => []SoleSeatCanSignIn
BY Implied, Invariant, PTL
=============================================================================
