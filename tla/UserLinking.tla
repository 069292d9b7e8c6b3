---------------------------- MODULE UserLinking ----------------------------
(***************************************************************************)
(* How AuthMiddleware turns an OAuth token into an owner id                *)
(* (_try_oauth, _resolve_user): look the identity up, else link it to a    *)
(* pre-provisioned user with the token's email, else create a user, else   *)
(* use the token's own claim.                                              *)
(*                                                                         *)
(* _resolve_user runs in a worker thread (asyncio.to_thread), so several   *)
(* logins of one process interleave, and several processes share the       *)
(* users table.  Each of its database calls is one transaction and one     *)
(* action here.  An identity is an (oauth_issuer, oauth_subject) pair; an  *)
(* email is a canonical one.                                               *)
(***************************************************************************)
EXTENDS FiniteSets

CONSTANTS Identities,      \* (issuer, subject) pairs
          ClaimsOf,        \* per identity, the owner claims its tokens may carry
          Accounts,        \* user ids an operator may pre-provision
          Emails,          \* canonical emails
          None,            \* NULL
          Logins,          \* slots for requests being authenticated
          AutoProvision    \* AWARENESS_OAUTH_AUTO_PROVISION

\* AWARENESS_OAUTH_USER_CLAIM is sub, email or preferred_username: nothing
\* keeps an owner claim from changing between two tokens of an identity, from
\* being carried by two identities, or from being the id of another user.
Claims == UNION {ClaimsOf[x] : x \in Identities}

ASSUME SwitchAssumption == AutoProvision \in BOOLEAN

VARIABLES users,    \* table users: per id, a row or None
          login     \* per slot: the login in progress or its result

ulvars == <<users, login>>

Ids == Claims \cup Accounts

\* `named` says whether display_name is set.
Row == [email : Emails \cup {None}, identity : Identities \cup {None}, named : BOOLEAN]

Pcs == {"lookup", "profile", "link", "create", "done"}

\* owner: the user found by the lookup, then the owner the request runs as.
\* History, as long as the database answers the login: held is the user that
\* the identity was linked to when the login began, found or linked it, until
\* that user is deleted.
Login == {r \in [pc : Pcs, identity : Identities, claim : Claims,
                 email : Emails \cup {None}, named : BOOLEAN,
                 held : Ids \cup {None}, owner : Ids \cup {None}] :
            /\ r.claim \in ClaimsOf[r.identity]
            /\ r.pc \in {"profile", "done"} => r.owner # None}

ASSUME NoneAssumption == None \notin Identities \cup Emails \cup Ids \cup Row \cup Login

\* Every variable stays in its type.
ULTypeOK ==
  /\ users \in [Ids -> Row \cup {None}]
  /\ login \in [Logins -> Login \cup {None}]

ULInit ==
  /\ users = [u \in Ids |-> None]
  /\ login = [l \in Logins |-> None]

---------------------------------------------------------------------------
(* The users table. *)

\* get_user_by_oauth.sql
LinkedTo(x) == {u \in Ids : users[u] # None /\ users[u].identity = x}

\* The row that canonical_email UNIQUE lets have this email.
WithEmail(e) == {u \in Ids : users[u] # None /\ e # None /\ users[u].email = e}

\* The user link_oauth_identity.sql would update for this email.
Unlinked(e) == {u \in WithEmail(e) : users[u].identity = None}

OneOf(S) == IF S = {} THEN {None} ELSE S

At(l, pc) == login[l] # None /\ login[l].pc = pc

Goto(l, pc) == login' = [login EXCEPT ![l].pc = pc]

\* _resolve_user has returned, or raised and was caught; the request runs as u.
RunAs(l, u) == login' = [login EXCEPT ![l].pc = "done", ![l].owner = u]

\* "return None", which _try_oauth turns into the token's claim.
FallBack(l) == RunAs(l, login[l].claim)

\* The request runs as a user that its identity is linked to.
RunLinked(l, u) ==
  login' = [login EXCEPT ![l].pc = "done", ![l].owner = u, ![l].held = u]

---------------------------------------------------------------------------
(* _resolve_user. *)

\* A validated token arrives.  Its email and name may come from the userinfo
\* endpoint, which may not answer, so they vary from login to login.
Begin(l, x, c, e, n) ==
  /\ login[l] = None
  /\ \E h \in OneOf(LinkedTo(x)) :
       login' = [login EXCEPT ![l] =
                   [pc |-> "lookup", identity |-> x, claim |-> c, email |-> e,
                    named |-> n, held |-> h, owner |-> None]]
  /\ UNCHANGED users

\* What comes after an identity that is not linked: try its email, then
\* auto-provisioning.
TryEmail(l) ==
  IF login[l].email # None THEN Goto(l, "link")
  ELSE IF AutoProvision THEN Goto(l, "create")
  ELSE FallBack(l)

\* Step 1: is the identity linked already?
FindLinked(l) ==
  /\ At(l, "lookup")
  /\ \/ \E u \in LinkedTo(login[l].identity) :
          IF login[l].email # None \/ login[l].named
          THEN login' = [login EXCEPT ![l].pc = "profile", ![l].owner = u,
                                      ![l].held = u]
          ELSE RunLinked(l, u)
     \/ LinkedTo(login[l].identity) = {} /\ TryEmail(l)
  /\ UNCHANGED users

\* Mistake: the profile is refreshed on every login, without COALESCE.
ProfileOverwriting(l) ==
  /\ At(l, "profile")
  /\ LET u == login[l].owner
         e == login[l].email
     IN  IF users[u] = None \/ e = None
         THEN RunAs(l, u) /\ UNCHANGED users
         ELSE IF WithEmail(e) \ {u} # {}
         THEN FallBack(l) /\ UNCHANGED users
         ELSE RunAs(l, u) /\ users' = [users EXCEPT ![u].email = e]

\* update_user_profile: fill in what the row lacks.  If the email is another
\* user's the UPDATE raises, and the login falls back to the token's claim.
Profile(l) ==
  /\ At(l, "profile")
  /\ LET u == login[l].owner
         e == login[l].email
     IN  IF users[u] = None \/ (users[u].email # None /\ users[u].named)
         THEN RunAs(l, u) /\ UNCHANGED users
         ELSE IF users[u].email = None /\ WithEmail(e) # {}
         THEN FallBack(l) /\ UNCHANGED users
         ELSE /\ RunAs(l, u)
              /\ users' = [users EXCEPT ![u].email = IF @ = None THEN e ELSE @,
                                        ![u].named = @ \/ login[l].named]

\* Mistake: link_oauth_identity.sql without "oauth_subject IS NULL".
LinkTaken(l) ==
  /\ At(l, "link")
  /\ LET x == login[l].identity
         S == WithEmail(login[l].email)
     IN  \/ /\ S = {}
            /\ IF AutoProvision THEN Goto(l, "create") ELSE FallBack(l)
            /\ UNCHANGED users
         \/ \E u \in S :
              IF LinkedTo(x) = {}
              THEN RunLinked(l, u) /\ users' = [users EXCEPT ![u].identity = x]
              ELSE FallBack(l) /\ UNCHANGED users

\* Step 2, link_oauth_identity: claim the user with this email if no identity
\* has it.  A user linked to the identity meanwhile makes the UPDATE violate
\* ix_users_oauth_identity, and the login falls back to the token's claim.
Link(l) ==
  /\ At(l, "link")
  /\ LET x == login[l].identity
         S == Unlinked(login[l].email)
     IN  \/ /\ S = {}
            /\ IF AutoProvision THEN Goto(l, "create") ELSE FallBack(l)
            /\ UNCHANGED users
         \/ \E u \in S :
              IF LinkedTo(x) = {}
              THEN RunLinked(l, u) /\ users' = [users EXCEPT ![u].identity = x]
              ELSE FallBack(l) /\ UNCHANGED users

\* Mistake: ON CONFLICT DO UPDATE takes the user that has the email over.
CreateTakingOver(l) ==
  /\ At(l, "create")
  /\ LET x == login[l].identity
         S == WithEmail(login[l].email)
     IN  \/ S = {} /\ UNCHANGED users
         \/ \E u \in S : /\ LinkedTo(x) = {}
                         /\ users' = [users EXCEPT ![u].identity = x]
  /\ FallBack(l)

\* Step 3, create_user_if_not_exists: ON CONFLICT DO NOTHING, on the id, the
\* email or the identity; the login goes on as the claim either way.
Create(l) ==
  /\ At(l, "create")
  /\ LET x == login[l].identity
         u == login[l].claim
         e == login[l].email
     IN  IF users[u] = None /\ LinkedTo(x) = {} /\ WithEmail(e) = {}
         THEN users' = [users EXCEPT ![u] = [email |-> e, identity |-> x,
                                             named |-> login[l].named]]
         ELSE UNCHANGED users
  /\ FallBack(l)

\* A database call raises; _resolve_user logs it and returns None.
Fail(l) ==
  /\ login[l] # None /\ login[l].pc # "done"
  /\ login' = [login EXCEPT ![l].pc = "done", ![l].held = None,
                            ![l].owner = login[l].claim]
  /\ UNCHANGED users

\* The request has been served.
End(l) ==
  /\ At(l, "done")
  /\ login' = [login EXCEPT ![l] = None]
  /\ UNCHANGED users

---------------------------------------------------------------------------
(* The operator: mcp-awareness-user add and delete. *)

UserAdd(u, e, n) ==
  /\ users[u] = None
  /\ WithEmail(e) = {}
  /\ users' = [users EXCEPT ![u] = [email |-> e, identity |-> None, named |-> n]]
  /\ UNCHANGED login

UserDelete(u) ==
  /\ users[u] # None
  /\ users' = [users EXCEPT ![u] = None]
  /\ login' = [l \in Logins |->
                 IF login[l] # None /\ login[l].held = u
                 THEN [login[l] EXCEPT !.held = None] ELSE login[l]]

ULNext ==
  \/ \E l \in Logins :
       \/ \E x \in Identities, e \in Emails \cup {None}, n \in BOOLEAN :
            \E c \in ClaimsOf[x] : Begin(l, x, c, e, n)
       \/ FindLinked(l) \/ Profile(l) \/ Link(l) \/ Create(l) \/ Fail(l) \/ End(l)
  \/ \E u \in Accounts, e \in Emails \cup {None}, n \in BOOLEAN : UserAdd(u, e, n)
  \/ \E u \in Ids : UserDelete(u)

ULSpec == ULInit /\ [][ULNext]_ulvars

---------------------------------------------------------------------------
(* Properties. *)

Done(l) == At(l, "done")

\* A login that began when its identity was linked to a user, or that found or
\* made the link, runs as that user ("OAuth lookup - match by (oauth_issuer,
\* oauth_subject) -> already-linked user", docs/auth-setup.md), though the
\* lookup and the profile update are two transactions and a failing update
\* falls back to the token's claim.  Only a database that does not answer makes
\* it run as somebody else, or a token that carries another claim of the
\* identity than the one its user was created for.
LinkedLoginsResolve ==
  \A l \in Logins :
    (Done(l) /\ login[l].held # None)
    => \/ login[l].owner = login[l].held
       \/ /\ login[l].held \in ClaimsOf[login[l].identity]
          /\ login[l].owner = login[l].claim

\* Requests of two identities that run as one owner, neither of which has lost
\* the user it was linked to since it began.
Sharing(l, m) ==
  /\ Done(l) /\ Done(m)
  /\ login[l].identity # login[m].identity
  /\ login[l].owner = login[m].owner
  /\ \A r \in {login[l], login[m]} : r.held = None => r.owner = r.claim

\* Requests of two identities share an owner only when the token of one of them
\* names it, and it is a claim of the other identity too or the id of a user
\* the operator may add: never through emails, links or auto-provisioning,
\* however they interleave with deleting users and adding them again.
OwnersDistinct ==
  \A l, m \in Logins :
    Sharing(l, m) =>
      \E r, s \in {login[l], login[m]} :
        /\ r.identity # s.identity
        /\ r.owner = r.claim
        /\ r.claim \in ClaimsOf[s.identity] \cup Accounts

\* What a provider with claims of its own for each identity would give: the
\* requests of two identities never share an owner.
NeverShared == \A l, m \in Logins : ~Sharing(l, m)

\* A linked user stays linked to the same identity until it is deleted.
LinksAreFinal ==
  [][\A u \in Ids :
       (users[u] # None /\ users[u].identity # None /\ users'[u] # None)
       => users'[u].identity = users[u].identity]_ulvars
===========================================================================
