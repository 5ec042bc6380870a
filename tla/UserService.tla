----------------------------- MODULE UserService -----------------------------
(***************************************************************************)
(* UserService::login and the session that ConsoleUI keeps.  Accounts are  *)
(* only ever written at start-up, all of them active; there is no logout.  *)
(* A login that throws leaves the user before it logged in.                *)
(***************************************************************************)
EXTENDS AirportDatabase

VARIABLES
  users,          \* users.role, by username
  currentRole     \* the role of *currentUser_, "NONE" before the first login

UserTypeOK ==
  /\ users \in [DOMAIN users -> Roles]
  /\ currentRole \in Roles \cup {"NONE"}

UserInit == users = << >> /\ currentRole = "NONE"

\* The password matches; an unknown name or a wrong password changes nothing.
Login(name) ==
  /\ name \in DOMAIN users
  /\ currentRole' = ParseUserRole(users[name])
  /\ UNCHANGED users

\* A user is logged in.
RequireLogin == currentRole # "NONE"

\* Mutant of RequireRole: any role will do.
RequireAnyRole(role) == RequireLogin

\* The user logged in has this role.
RequireRole(role) == currentRole = role
=============================================================================
