----------------------------- MODULE Onboarding ------------------------------
(***************************************************************************)
(* How people come in: sign-up, OAuth sign-up, invites, and the one        *)
(* password a person has across all workspaces.                            *)
(*                                                                         *)
(* An invite provisions the user and the seat (the members row) at once;   *)
(* accepting it only fills them in.  The password is the user's, so the    *)
(* accept and the admin's reset touch it only if the user has no seat in   *)
(* another workspace.                                                      *)
(*                                                                         *)
(* A call that decides by what it read is two steps: Check reads, Commit   *)
(* writes everything in one transaction or, when a unique constraint is    *)
(* in the way, nothing.  A password hash is salted, so writing one always  *)
(* changes the column.  The other calls are one step.                      *)
(***************************************************************************)
EXTENDS Integers, FiniteSets

CONSTANTS
  People,      \* by their email address
  Workspaces,  \* by their name
  Invites,     \* tokens that may be handed out
  Requests,    \* slots for requests in flight
  None         \* NULL

ASSUME NoneAssumption == None \notin People \cup Workspaces \cup Invites

Roles == {"OWNER", "ADMIN", "USER"}
InviteRoles == {"ADMIN", "USER"}

\* users.password_hash: of no password, of a random string nobody knows put
\* there by an invite or by a forced reset, or of one somebody picked.
Passwords == {"none", "placeholder", "reset", "picked"}

VARIABLES
  workspaces,  \* workspaces that have a row
  users,       \* people that have a users row
  password,    \* users.password_hash
  linked,      \* people whose OAuth identity is on their row
  seats,       \* the members rows of type HUMAN
  invite,      \* the invites table
  tokens,      \* people that hold an onboarding token
  sessions,    \* people that an accept signed in, and no reset has signed out
  req          \* the request in each slot

vars == <<workspaces, users, password, linked, seats, invite, tokens, sessions, req>>

\* "via" is the invite that made the row; it is what tells two rows apart.
Seat == [ws : Workspaces, of : People, role : Roles, via : Invites \cup {None}]

Invite ==
  [stage : {"unused", "pending", "expired", "accepted"},
   ws    : Workspaces \cup {None},
   email : People \cup {None}]

Unused == [stage |-> "unused", ws |-> None, email |-> None]

Idle == [call |-> "none", person |-> None, ws |-> None, invite |-> None,
         role |-> "USER", decided |-> FALSE]

Request ==
  [call    : {"none", "register", "onboard", "invite", "accept", "change", "set"},
   person  : People \cup {None},
   ws      : Workspaces \cup {None},
   invite  : Invites \cup {None},
   role    : Roles,
   decided : BOOLEAN]   \* invite: make the user; accept: set the password

TypeOK ==
  /\ workspaces \subseteq Workspaces
  /\ users \subseteq People
  /\ password \in [People -> Passwords]
  /\ linked \subseteq People
  /\ seats \subseteq Seat
  /\ invite \in [Invites -> Invite]
  /\ tokens \subseteq People
  /\ sessions \subseteq People
  /\ req \in [Requests -> Request]

Init ==
  /\ workspaces = {}
  /\ users = {}
  /\ password = [p \in People |-> "none"]
  /\ linked = {}
  /\ seats = {}
  /\ invite = [i \in Invites |-> Unused]
  /\ tokens = {}
  /\ sessions = {}
  /\ req = [r \in Requests |-> Idle]

SeatsOf(p) == {s \in seats : s.of = p}

(***************************************************************************)
(* Who may hold a session: those who can log in, and those to whom an      *)
(* accept has handed a token that no forced reset has made void since.     *)
(***************************************************************************)
CanSignIn(p) == password[p] = "picked" \/ p \in linked

Accepted(p) == \E i \in Invites : invite[i].stage = "accepted" /\ invite[i].email = p

MayBeSignedIn(p) == CanSignIn(p) \/ p \in sessions

Check(r, q) ==
  /\ req[r] = Idle
  /\ req' = [req EXCEPT ![r] = q]
  /\ UNCHANGED <<workspaces, users, password, linked, seats, invite, tokens, sessions>>

(***************************************************************************)
(* The constraints of the tables: users.email and workspaces.name, and     *)
(* members(workspace_id, user_id).                                         *)
(***************************************************************************)
NewUser(p) == p \notin users
NewWorkspace(w) == w \notin workspaces

\* Mutant: the unique constraint was never created.
NoSeatConstraint(w, p) == TRUE

NewSeat(w, p) == \A s \in SeatsOf(p) : s.ws # w

\* Mutant: the two keys of the row are swapped.
OwnerSwapped(w, p) == [ws |-> p, of |-> w, role |-> "OWNER", via |-> None]

Owner(w, p) == [ws |-> w, of |-> p, role |-> "OWNER", via |-> None]

(***************************************************************************)
(* AuthService.register: a user, a workspace, and the seat of its owner.   *)
(***************************************************************************)
CheckRegister(r, p, w) ==
  /\ p \notin users
  /\ Check(r, [Idle EXCEPT !.call = "register", !.person = p, !.ws = w])

CommitRegister(r) ==
  LET q == req[r]
  IN  /\ q.call = "register"
      /\ NewUser(q.person) /\ NewWorkspace(q.ws)
      /\ users' = users \cup {q.person}
      /\ password' = [password EXCEPT ![q.person] = "picked"]
      /\ workspaces' = workspaces \cup {q.ws}
      /\ seats' = seats \cup {Owner(q.ws, q.person)}
      /\ req' = [req EXCEPT ![r] = Idle]
      /\ UNCHANGED <<linked, invite, tokens, sessions>>

(***************************************************************************)
(* AuthService.oauth_login: a known identity logs in, a known email gets   *)
(* the identity linked, anyone else an onboarding token.                   *)
(***************************************************************************)
OauthLogin(p) ==
  /\ p \notin linked
  /\ IF p \in users
     THEN linked' = linked \cup {p} /\ UNCHANGED tokens
     ELSE tokens' = tokens \cup {p} /\ UNCHANGED linked
  /\ UNCHANGED <<workspaces, users, password, seats, invite, sessions, req>>

(***************************************************************************)
(* AuthService.complete_oauth_onboarding, for an identity no user has.     *)
(***************************************************************************)
CheckOnboard(r, p, w) ==
  /\ p \in tokens
  /\ p \notin linked
  /\ Check(r, [Idle EXCEPT !.call = "onboard", !.person = p, !.ws = w])

CommitOnboard(r) ==
  LET q == req[r]
  IN  /\ q.call = "onboard"
      /\ NewUser(q.person) /\ NewWorkspace(q.ws)
      /\ users' = users \cup {q.person}
      /\ linked' = linked \cup {q.person}
      /\ workspaces' = workspaces \cup {q.ws}
      /\ seats' = seats \cup {Owner(q.ws, q.person)}
      /\ req' = [req EXCEPT ![r] = Idle]
      /\ UNCHANGED <<password, invite, tokens, sessions>>

(***************************************************************************)
(* MeService.create_my_workspace.                                          *)
(***************************************************************************)
OpenWorkspace(p, w) ==
  /\ p \in users /\ MayBeSignedIn(p)
  /\ NewWorkspace(w)
  /\ workspaces' = workspaces \cup {w}
  /\ seats' = seats \cup {Owner(w, p)}
  /\ UNCHANGED <<users, password, linked, invite, tokens, sessions, req>>

(***************************************************************************)
(* InviteService.create_invite.  The look for a duplicate is at the        *)
(* earliest seat of that email only, in whichever workspace it is; the     *)
(* model lets any seat be the earliest.                                    *)
(***************************************************************************)
LooksNew(w, p) == SeatsOf(p) = {} \/ \E s \in SeatsOf(p) : s.ws # w

CheckInvite(r, w, p, i, role) ==
  /\ \E a \in seats : a.ws = w /\ a.role \in {"OWNER", "ADMIN"}
  /\ invite[i] = Unused
  /\ LooksNew(w, p)
  /\ Check(r, [call |-> "invite", person |-> p, ws |-> w, invite |-> i,
               role |-> role, decided |-> p \notin users])

\* Mutant: only the new users get a seat.
SeatOnlyNew(q) ==
  IF q.decided THEN {[ws |-> q.ws, of |-> q.person, role |-> q.role, via |-> q.invite]} ELSE {}

InvitedSeat(q) == {[ws |-> q.ws, of |-> q.person, role |-> q.role, via |-> q.invite]}

CommitInvite(r) ==
  LET q == req[r]
  IN  /\ q.call = "invite"
      /\ invite[q.invite] = Unused
      /\ q.decided => NewUser(q.person)
      /\ NewSeat(q.ws, q.person)
      /\ users' = users \cup {q.person}
      /\ password' = IF q.decided
                     THEN [password EXCEPT ![q.person] = "placeholder"] ELSE password
      /\ seats' = seats \cup InvitedSeat(q)
      /\ invite' = [invite EXCEPT ![q.invite] =
           [stage |-> "pending", ws |-> q.ws, email |-> q.person]]
      /\ req' = [req EXCEPT ![r] = Idle]
      /\ UNCHANGED <<workspaces, linked, tokens, sessions>>

\* INVITE_TTL_DAYS have passed.
Expire(i) ==
  /\ invite[i].stage = "pending"
  /\ invite' = [invite EXCEPT ![i].stage = "expired"]
  /\ UNCHANGED <<workspaces, users, password, linked, seats, tokens, sessions, req>>

(***************************************************************************)
(* InviteService.accept_invite: the password is set if this is the only    *)
(* seat the invitee has.                                                   *)
(***************************************************************************)
\* Mutant: the test the wrong way round.
HasOtherSeats(p) == Cardinality(SeatsOf(p)) > 1

OnlySeat(p) == Cardinality(SeatsOf(p)) = 1

CheckAccept(r, i) ==
  LET p == invite[i].email
  IN  /\ invite[i].stage = "pending"
      /\ p \in users
      /\ \E s \in SeatsOf(p) : s.ws = invite[i].ws
      /\ Check(r, [Idle EXCEPT !.call = "accept", !.person = p, !.invite = i,
                               !.decided = OnlySeat(p)])

CommitAccept(r) ==
  LET q == req[r]
  IN  /\ q.call = "accept"
      /\ password' = IF q.decided THEN [password EXCEPT ![q.person] = "picked"] ELSE password
      /\ invite' = [invite EXCEPT ![q.invite].stage = "accepted"]
      /\ sessions' = sessions \cup {q.person}
      /\ req' = [req EXCEPT ![r] = Idle]
      /\ UNCHANGED <<workspaces, users, linked, seats, tokens>>

(***************************************************************************)
(* MeService.change_password, by who knows the current one, and            *)
(* InviteService.admin_set_member_password, by the owner or an admin of    *)
(* the one workspace the member is in.                                     *)
(***************************************************************************)
CheckChange(r, p) ==
  /\ p \in users
  /\ password[p] = "picked"
  /\ Check(r, [Idle EXCEPT !.call = "change", !.person = p])

CheckSet(r, p) ==
  /\ \E s \in SeatsOf(p), a \in seats :
       /\ a.ws = s.ws /\ a.of # p
       /\ a.role = "OWNER" \/ (a.role = "ADMIN" /\ s.role # "OWNER")
  /\ Cardinality(SeatsOf(p)) <= 1
  /\ Check(r, [Idle EXCEPT !.call = "set", !.person = p])

CommitPassword(r) ==
  LET q == req[r]
  IN  /\ q.call \in {"change", "set"}
      /\ password' = [password EXCEPT ![q.person] = "picked"]
      /\ req' = [req EXCEPT ![r] = Idle]
      /\ UNCHANGED <<workspaces, users, linked, seats, invite, tokens, sessions>>

\* AdminUserService.force_password_reset: one UPDATE; outstanding tokens are void.
ForceReset(p) ==
  /\ p \in users
  /\ password' = [password EXCEPT ![p] = "reset"]
  /\ sessions' = sessions \ {p}
  /\ UNCHANGED <<workspaces, users, linked, seats, invite, tokens, req>>

(***************************************************************************)
(* A refusal, or a unique constraint in the way: rollback of the whole     *)
(* transaction.                                                            *)
(***************************************************************************)
\* Mutant: a taken workspace name leaves the user row behind.
KeepsUser(r) ==
  /\ req[r] # Idle
  /\ req' = [req EXCEPT ![r] = Idle]
  /\ users' = IF req[r].call \in {"register", "onboard"} /\ ~NewWorkspace(req[r].ws)
              THEN users \cup {req[r].person} ELSE users
  /\ UNCHANGED <<workspaces, password, linked, seats, invite, tokens, sessions>>

Abandon(r) ==
  /\ req[r] # Idle
  /\ req' = [req EXCEPT ![r] = Idle]
  /\ UNCHANGED <<workspaces, users, password, linked, seats, invite, tokens, sessions>>

CheckStep(r) ==
  \/ \E p \in People, w \in Workspaces : CheckRegister(r, p, w) \/ CheckOnboard(r, p, w)
  \/ \E p \in People, w \in Workspaces, i \in Invites, role \in InviteRoles :
       CheckInvite(r, w, p, i, role)
  \/ \E i \in Invites : CheckAccept(r, i)
  \/ \E p \in People : CheckChange(r, p) \/ CheckSet(r, p)

CommitStep(r) ==
  \/ CommitRegister(r) \/ CommitOnboard(r) \/ CommitInvite(r)
  \/ CommitAccept(r) \/ CommitPassword(r)

Next ==
  \/ \E p \in People : OauthLogin(p) \/ ForceReset(p)
  \/ \E p \in People, w \in Workspaces : OpenWorkspace(p, w)
  \/ \E i \in Invites : Expire(i)
  \/ \E r \in Requests : CheckStep(r) \/ CommitStep(r) \/ Abandon(r)

Spec == Init /\ [][Next]_vars

-----------------------------------------------------------------------------
(***************************************************************************)
(* Properties.                                                             *)
(***************************************************************************)

(***************************************************************************)
(* No stranded user: who has a users row has a seat somewhere, however     *)
(* sign-ups, onboardings and invites for one email overlap and fail.       *)
(***************************************************************************)
EveryUserBelongs == \A p \in users : SeatsOf(p) # {}

(***************************************************************************)
(* A person has one seat in a workspace at most, though the look for a     *)
(* duplicate sees only the earliest seat and nothing is locked.            *)
(***************************************************************************)
OneSeat == \A s, t \in seats : s.ws = t.ws /\ s.of = t.of => s = t

(***************************************************************************)
(* The rows accept_invite relies on are there: an invite that is out has   *)
(* its user and its seat, in its workspace.                                *)
(***************************************************************************)
InviteesAreSeated ==
  \A i \in Invites : invite[i] # Unused =>
    /\ invite[i].email \in users
    /\ \E s \in seats : s.via = i /\ s.of = invite[i].email /\ s.ws = invite[i].ws

(***************************************************************************)
(* Together: what the rest of the application takes for granted about      *)
(* users and seats, whatever overlaps and whatever fails half way.         *)
(***************************************************************************)
Seated == EveryUserBelongs /\ OneSeat /\ InviteesAreSeated

(***************************************************************************)
(* An invitee who has accepted and sits in that workspace alone has a      *)
(* password that was picked, or an OAuth identity, unless an operator has  *)
(* forced a reset since.                                                   *)
(***************************************************************************)
HasCredential(p) == CanSignIn(p) \/ password[p] = "reset"

SoleSeatCanSignIn == \A p \in People :
  Accepted(p) /\ Cardinality(SeatsOf(p)) = 1 => HasCredential(p)

(***************************************************************************)
(* Whoever has accepted an invite can sign in afterwards.                  *)
(***************************************************************************)
AcceptedCanSignIn == \A p \in People : Accepted(p) => HasCredential(p)
=============================================================================
