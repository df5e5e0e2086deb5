------------------------------ MODULE Accounts ------------------------------
(* The people of the control plane: organisations, users, sessions,         *)
(* invitations, password resets and the deletion of an organisation.        *)
(*                                                                          *)
(* A handler runs in a database session of its own.  Its SELECTs see what   *)
(* was committed by then; nothing it read is locked.  Its writes are sent   *)
(* when it commits (autoflush is off), and PostgreSQL takes them only if    *)
(* every reference holds and no two users have one email: a step "commit"   *)
(* is one that succeeds, and Die is the handler that raises instead, or     *)
(* loses its connection, at any step.  The service is deployed twice, so    *)
(* that nothing else orders the steps of two handlers.  A session, an       *)
(* invitation or a reset that has expired, and a session that was closed,   *)
(* is one that nobody uses again.                                           *)
EXTENDS Naturals, FiniteSets

CONSTANTS
  Handlers,     \* requests that can be under way at once
  Emails,
  MemberLimit,  \* members that the plan of an organisation allows
  MaxId,        \* rows that get an id of their own (bound)
  MaxOrgs,      \* organisations there are when a sign-up starts (bound)
  MaxResets,    \* password resets there are when one is asked for (bound)
  Free          \* no request; no email

ASSUME AccountsAssumption ==
  /\ IsFiniteSet(Handlers) /\ Handlers # {}
  /\ MemberLimit \in Nat \ {0}
  /\ {MaxId, MaxOrgs, MaxResets} \subseteq Nat

VARIABLES
  orgs,       \* ids of the organisations
  users,      \* id -> organisation, email, role, resets of the password, (history) seat
  sessions,   \* id -> user and (history) the password of the login
  invites,    \* id -> organisation, inviter, email, role, accepted or not
  tokens,     \* id of a password reset -> user, used or not
  audits,     \* users that the audit log of their organisation names
  hs,         \* the request each handler works on
  next,       \* the next id
  withdrawn,  \* history: invitations deleted before anybody accepted them
  joined,     \* history: invitations that were accepted
  missed,     \* history: those of them that neither count of a request to invite has seen
  crossed     \* history: a change of a member was decided before another and made after it

people == <<orgs, users, sessions>>
papers == <<invites, tokens, withdrawn, joined, missed>>
vars == <<people, papers, audits, hs, next, crossed>>

Roles == {"owner", "admin", "member"}  \* an auditor manages as little as a member
Managers == {"owner", "admin"}
ManagesHierarchyFault(actor, role) == actor \in Managers
Manages(actor, role) == actor = "owner" \/ (actor = "admin" /\ role = "member")

Ids == 1 .. next - 1
Without(table, ids) == [x \in DOMAIN table \ ids |-> table[x]]
With(table, id, row) == [x \in DOMAIN table \cup {id} |-> IF x = id THEN row ELSE table[x]]

Members(o) == {u \in DOMAIN users : users[u].org = o}
Pending(o) == {i \in DOMAIN invites : invites[i].org = o /\ ~invites[i].accepted}
Taken == {users[u].email : u \in DOMAIN users}
SessionsOf(who) == {s \in DOMAIN sessions : sessions[s].user \in who}
TokensOf(who) == {k \in DOMAIN tokens : tokens[k].user \in who}
InvitesBy(who) == {i \in DOMAIN invites : invites[i].inviter \in who}

-----------------------------------------------------------------------------
(* Handlers. *)

Blank(op, at) ==
  [op |-> op, at |-> at, user |-> 0, org |-> 0, role |-> "member", on |-> 0, to |-> "member",
   email |-> Free, secret |-> 0, seen |-> 0, late |-> FALSE, swept |-> {}]

At(h, op, at) == hs[h] # Free /\ hs[h].op = op /\ hs[h].at = at
Asked(h) == At(h, "call", "look")
ToAudit(user) == [Blank("call", "audit") EXCEPT !.user = user]

Become(h, r) == hs' = [hs EXCEPT ![h] = r]
Begin(h, r) == hs[h] = Free /\ Become(h, r)
Finish(h) == Become(h, Free)

(* The unique key on the email of a user, tested again at the commit. *)
EmailFreeKeyFault(h) == TRUE
EmailFree(h) == hs[h].email \notin Taken

NewId == next <= MaxId /\ next' = next + 1

(* A request of a signed-in user: its session and its row are read. *)
Enter(h) ==
  /\ \E s \in DOMAIN sessions :
       LET u == sessions[s].user
       IN  Begin(h, [Blank("call", "look") EXCEPT !.user = u, !.org = users[u].org, !.role = users[u].role])
  /\ UNCHANGED <<people, papers, audits, next, crossed>>

(* It raises, or its transaction is refused. *)
Die(h) ==
  /\ hs[h] # Free
  /\ Finish(h)
  /\ UNCHANGED <<people, papers, audits, next, crossed>>

(* The entry of the audit log, in a transaction after that of the change.   *)
Audit(h) ==
  /\ hs[h] # Free /\ hs[h].at = "audit"
  /\ hs[h].user \in DOMAIN users
  /\ hs[h].on # 0 => hs[h].on \in DOMAIN users
  /\ audits' = audits \cup {hs[h].user}
  /\ Finish(h)
  /\ UNCHANGED <<people, papers, next, crossed>>

(* Changes of the organisation, its projects and keys, which end there too. *)
Edit(h) ==
  /\ Asked(h)
  /\ hs[h].role \in Managers
  /\ Become(h, ToAudit(hs[h].user))
  /\ UNCHANGED <<people, papers, audits, next, crossed>>

-----------------------------------------------------------------------------
(* Members. *)

(* A user of the organisation whom the actor may manage. *)
Target(h, t) ==
  /\ t \in Members(hs[h].org)
  /\ t # hs[h].user
  /\ Manages(hs[h].role, users[t].role)

(* Requests that have read their actor, and may have read their target. *)
Deciding(h) == Asked(h) \/ At(h, "role", "commit") \/ At(h, "remove", "commit")

(* The change of h is committed; what other requests read is out of date.   *)
(* The entry of the audit log reads the user on once more, if there is one. *)
Changed(h, on) ==
  /\ hs' = [g \in Handlers |->
       IF g = h THEN [ToAudit(hs[h].user) EXCEPT !.on = on]
       ELSE IF Deciding(g) THEN [hs[g] EXCEPT !.late = TRUE]
       ELSE hs[g]]
  /\ crossed' = (crossed \/ hs[h].late)

(* A member who has the role already is not updated. *)
LookRole(h) ==
  /\ Asked(h)
  /\ \E t \in DOMAIN users, r \in Roles :
       /\ Target(h, t)
       /\ Manages(hs[h].role, r)
       /\ IF r = users[t].role
          THEN Become(h, [ToAudit(hs[h].user) EXCEPT !.on = t])
          ELSE Become(h, [hs[h] EXCEPT !.op = "role", !.at = "commit", !.on = t, !.to = r])
  /\ UNCHANGED <<people, papers, audits, next, crossed>>

CommitRole(h) ==
  /\ At(h, "role", "commit")
  /\ hs[h].on \in DOMAIN users
  /\ users' = [users EXCEPT ![hs[h].on].role = hs[h].to]
  /\ Changed(h, hs[h].on)
  /\ UNCHANGED <<orgs, sessions, papers, audits, next>>

LookRemove(h) ==
  /\ Asked(h)
  /\ \E t \in DOMAIN users :
       Target(h, t) /\ Become(h, [hs[h] EXCEPT !.op = "remove", !.at = "commit", !.on = t])
  /\ UNCHANGED <<people, papers, audits, next, crossed>>

(* Deleted invitations; those nobody had accepted are withdrawn. *)
Withdraw(gone) ==
  /\ invites' = Without(invites, gone)
  /\ withdrawn' = withdrawn \cup {i \in gone \cap DOMAIN invites : ~invites[i].accepted}

(* The user goes with its sessions and invitations; the references of the   *)
(* audit log and of password resets stand in the way.                       *)
CommitRemove(h) ==
  LET t == hs[h].on
  IN  /\ At(h, "remove", "commit")
      /\ t \notin audits /\ TokensOf({t}) = {}
      /\ Withdraw(InvitesBy({t}))
      /\ sessions' = Without(sessions, SessionsOf({t}))
      /\ users' = Without(users, {t})
      /\ Changed(h, 0)
      /\ UNCHANGED <<orgs, tokens, joined, missed, audits, next>>

LookRegister(h) ==
  /\ Asked(h)
  /\ hs[h].role \in Managers
  /\ hs[h].org \in orgs
  /\ \E e \in Emails \ Taken, r \in Roles :
       Become(h, [Blank("register", "commit") EXCEPT !.org = hs[h].org, !.email = e, !.to = r])
  /\ UNCHANGED <<people, papers, audits, next, crossed>>

CommitRegister(h) ==
  /\ At(h, "register", "commit")
  /\ hs[h].org \in orgs /\ EmailFree(h)
  /\ NewId
  /\ users' = With(users, next, [org |-> hs[h].org, email |-> hs[h].email, role |-> hs[h].to,
                                 secret |-> 0, via |-> 0])
  /\ Finish(h)
  /\ UNCHANGED <<orgs, sessions, papers, audits, crossed>>

-----------------------------------------------------------------------------
(* Invitations. *)

(* The first count, that of the members. *)
CountMembers(h) ==
  /\ Asked(h)
  /\ hs[h].role \in Managers
  /\ Become(h, [hs[h] EXCEPT !.op = "invite", !.at = "count", !.seen = Cardinality(Members(hs[h].org))])
  /\ UNCHANGED <<people, papers, audits, next, crossed>>

(* The second count, in a later statement, sees what was committed between. *)
HasRoomBoundFault(h) == hs[h].seen + Cardinality(Pending(hs[h].org)) <= MemberLimit
HasRoom(h) == hs[h].seen + Cardinality(Pending(hs[h].org)) < MemberLimit

LookInvite(h) ==
  /\ At(h, "invite", "count")
  /\ HasRoom(h)
  /\ hs[h].user \in DOMAIN users
  /\ \E e \in Emails \ Taken, r \in Roles :
       Become(h, [Blank("invite", "commit") EXCEPT !.user = hs[h].user, !.org = hs[h].org,
                                                  !.email = e, !.to = r])
  /\ UNCHANGED <<people, papers, audits, next, crossed>>

CommitInvite(h) ==
  /\ At(h, "invite", "commit")
  /\ hs[h].user \in DOMAIN users
  /\ NewId
  /\ invites' = With(invites, next, [org |-> hs[h].org, inviter |-> hs[h].user, email |-> hs[h].email,
                                     role |-> hs[h].to, accepted |-> FALSE])
  /\ Finish(h)
  /\ UNCHANGED <<people, tokens, withdrawn, joined, missed, audits, crossed>>

LookRevoke(h) ==
  /\ Asked(h)
  /\ hs[h].role \in Managers
  /\ \E i \in DOMAIN invites : Become(h, [Blank("revoke", "commit") EXCEPT !.on = i])
  /\ UNCHANGED <<people, papers, audits, next, crossed>>

CommitRevoke(h) ==
  /\ At(h, "revoke", "commit")
  /\ Withdraw({hs[h].on})
  /\ Finish(h)
  /\ UNCHANGED <<people, tokens, joined, missed, audits, next, crossed>>

LookAccept(h) ==
  /\ \E i \in DOMAIN invites :
       /\ ~invites[i].accepted
       /\ invites[i].email \notin Taken
       /\ Begin(h, [Blank("accept", "commit") EXCEPT !.on = i, !.org = invites[i].org,
                                                     !.to = invites[i].role, !.email = invites[i].email])
  /\ UNCHANGED <<people, papers, audits, next, crossed>>

(* An update that meets no row is an error. *)
StillThereRowFault(h) == TRUE
StillThere(h) == hs[h].on \in DOMAIN invites

(* Between the two counts of a request to invite into o. *)
Counting(o) == \E g \in Handlers : At(g, "invite", "count") /\ hs[g].org = o

(* The user is inserted, and the invitation it was loaded from is updated. *)
CommitAccept(h) ==
  /\ At(h, "accept", "commit")
  /\ StillThere(h)
  /\ EmailFree(h)
  /\ NewId
  /\ users' = With(users, next, [org |-> hs[h].org, email |-> hs[h].email, role |-> hs[h].to,
                                 secret |-> 0, via |-> hs[h].on])
  /\ invites' = [invites EXCEPT ![hs[h].on].accepted = TRUE]
  /\ joined' = joined \cup {hs[h].on}
  /\ missed' = IF Counting(hs[h].org) THEN missed \cup {hs[h].on} ELSE missed
  /\ Become(h, [Blank("accept", "verify") EXCEPT !.on = next])
  /\ UNCHANGED <<orgs, sessions, tokens, withdrawn, audits, crossed>>

-----------------------------------------------------------------------------
(* Sessions and passwords. *)

(* A reset that has deleted the sessions of u and is not committed yet. *)
Resetting(u) ==
  \E g \in Handlers : At(g, "reset", "commit") /\ hs[g].user = u

(* The password is compared with the one that is stored. *)
Login(h) ==
  /\ \E u \in DOMAIN users :
       Begin(h, [Blank("login", "login") EXCEPT !.on = u, !.secret = users[u].secret, !.late = Resetting(u)])
  /\ UNCHANGED <<people, papers, audits, next, crossed>>

(* The login that ends a sign-up and an acceptance, with their password. *)
Verify(h) ==
  /\ hs[h] # Free /\ hs[h].at = "verify"
  /\ hs[h].on \in DOMAIN users /\ users[hs[h].on].secret = 0
  /\ Become(h, [hs[h] EXCEPT !.at = "login", !.late = Resetting(hs[h].on)])
  /\ UNCHANGED <<people, papers, audits, next, crossed>>

OpenSession(h) ==
  /\ hs[h] # Free /\ hs[h].at = "login"
  /\ hs[h].on \in DOMAIN users
  /\ NewId
  /\ sessions' = With(sessions, next, [user |-> hs[h].on, secret |-> hs[h].secret, late |-> hs[h].late])
  /\ IF hs[h].op = "accept"
     THEN Become(h, ToAudit(hs[h].on))
     ELSE Finish(h)
  /\ UNCHANGED <<orgs, users, papers, audits, crossed>>

(* A new organisation and its owner, at once or after a code by email. *)
LookSignup(h) ==
  /\ Cardinality(orgs) < MaxOrgs
  /\ \E e \in Emails \ Taken : Begin(h, [Blank("signup", "commit") EXCEPT !.email = e])
  /\ UNCHANGED <<people, papers, audits, next, crossed>>

CommitSignup(h) ==
  /\ At(h, "signup", "commit")
  /\ EmailFree(h)
  /\ NewId
  /\ orgs' = orgs \cup {next}
  /\ users' = With(users, next, [org |-> next, email |-> hs[h].email, role |-> "owner",
                                 secret |-> 0, via |-> next])
  /\ Become(h, [Blank("signup", "verify") EXCEPT !.on = next])
  /\ UNCHANGED <<sessions, papers, audits, crossed>>

LookForgot(h) ==
  /\ Cardinality(DOMAIN tokens) < MaxResets
  /\ \E u \in DOMAIN users : Begin(h, [Blank("forgot", "commit") EXCEPT !.user = u])
  /\ UNCHANGED <<people, papers, audits, next, crossed>>

CommitForgot(h) ==
  /\ At(h, "forgot", "commit")
  /\ hs[h].user \in DOMAIN users
  /\ NewId
  /\ tokens' = With(tokens, next, [user |-> hs[h].user, used |-> FALSE])
  /\ Finish(h)
  /\ UNCHANGED <<people, invites, withdrawn, joined, missed, audits, crossed>>

LookReset(h) ==
  /\ \E k \in DOMAIN tokens :
       ~tokens[k].used /\ Begin(h, [Blank("reset", "sweep") EXCEPT !.on = k, !.user = tokens[k].user])
  /\ UNCHANGED <<people, papers, audits, next, crossed>>

SweptNoneFault(u) == {}
Swept(u) == SessionsOf({u})

(* The DELETE of the sessions; a login that compared passwords before is    *)
(* late from then on.                                                       *)
Sweep(h) ==
  LET u == hs[h].user
  IN  /\ At(h, "reset", "sweep")
      /\ hs' = [g \in Handlers |->
           IF g = h THEN [hs[h] EXCEPT !.at = "commit", !.swept = Swept(u)]
           ELSE IF hs[g] # Free /\ hs[g].at = "login" /\ hs[g].on = u THEN [hs[g] EXCEPT !.late = TRUE]
           ELSE hs[g]]
      /\ UNCHANGED <<people, papers, audits, next, crossed>>

(* One commit, for the sessions, the password and the token. *)
CommitReset(h) ==
  /\ At(h, "reset", "commit")
  /\ hs[h].on \in DOMAIN tokens
  /\ users' = [users EXCEPT ![hs[h].user].secret = @ + 1]
  /\ tokens' = [tokens EXCEPT ![hs[h].on].used = TRUE]
  /\ sessions' = Without(sessions, hs[h].swept)
  /\ Finish(h)
  /\ UNCHANGED <<orgs, invites, withdrawn, joined, missed, audits, next, crossed>>

-----------------------------------------------------------------------------
(* The end of an organisation. *)

(* The owner has sent a code that was mailed to it; the code is used up by  *)
(* a commit of its own.                                                     *)
SpendCode(h) ==
  /\ Asked(h)
  /\ hs[h].role = "owner"
  /\ Become(h, [Blank("delete", "commit") EXCEPT !.org = hs[h].org])
  /\ UNCHANGED <<people, papers, audits, next, crossed>>

(* The organisation and its users go, and what is theirs. *)
Leave(o) ==
  /\ orgs' = orgs \ {o}
  /\ users' = Without(users, Members(o))
  /\ sessions' = Without(sessions, SessionsOf(Members(o)))
  /\ Withdraw({i \in DOMAIN invites : invites[i].org = o})

CommitDelete(h) ==
  LET o == hs[h].org
  IN  /\ At(h, "delete", "commit")
      /\ Leave(o)
      /\ tokens' = Without(tokens, TokensOf(Members(o)))
      /\ audits' = audits \ Members(o)
      /\ Finish(h)
      /\ UNCHANGED <<joined, missed, next, crossed>>

-----------------------------------------------------------------------------
Init ==
  /\ orgs = {} /\ users = <<>> /\ sessions = <<>>
  /\ invites = <<>> /\ tokens = <<>>
  /\ audits = {}
  /\ hs = [h \in Handlers |-> Free]
  /\ next = 1
  /\ withdrawn = {} /\ joined = {} /\ missed = {} /\ crossed = FALSE

MembersNext(h) ==
  LookRole(h) \/ CommitRole(h) \/ LookRemove(h) \/ CommitRemove(h) \/ LookRegister(h) \/ CommitRegister(h)
InvitesNext(h) ==
  \/ CountMembers(h) \/ LookInvite(h) \/ CommitInvite(h) \/ LookRevoke(h) \/ CommitRevoke(h)
  \/ LookAccept(h) \/ CommitAccept(h)
SessionsNext(h) ==
  \/ Login(h) \/ Verify(h) \/ OpenSession(h)
  \/ LookSignup(h) \/ CommitSignup(h)
  \/ LookForgot(h) \/ CommitForgot(h) \/ LookReset(h) \/ Sweep(h) \/ CommitReset(h)
OtherNext(h) ==
  \/ Enter(h) \/ Die(h) \/ Audit(h) \/ Edit(h) \/ SpendCode(h) \/ CommitDelete(h)

Next ==
  \E h \in Handlers : MembersNext(h) \/ InvitesNext(h) \/ SessionsNext(h) \/ OtherNext(h)

Spec == Init /\ [][Next]_vars

-----------------------------------------------------------------------------
(* Types, and the references and the unique key that PostgreSQL enforces.   *)
Ops == {"call", "role", "remove", "register", "invite", "revoke", "delete", "accept", "login", "signup",
        "forgot", "reset"}
Stages == {"look", "count", "sweep", "commit", "verify", "login", "audit"}
Request == [op : Ops, at : Stages, user : {0} \cup Ids, org : {0} \cup Ids, role : Roles,
            on : {0} \cup Ids, to : Roles, email : Emails \cup {Free}, secret : Nat, seen : Nat,
            late : BOOLEAN, swept : SUBSET Ids]

UsersOK ==
  /\ orgs \subseteq Ids /\ DOMAIN users \subseteq Ids
  /\ users \in [DOMAIN users -> [org : orgs, email : Emails, role : Roles, secret : Nat, via : {0} \cup Ids]]
  /\ \A u, v \in DOMAIN users : users[u].email = users[v].email => u = v
SessionsOK ==
  /\ DOMAIN sessions \subseteq Ids
  /\ sessions \in [DOMAIN sessions -> [user : DOMAIN users, secret : Nat, late : BOOLEAN]]
InvitesOK ==
  /\ DOMAIN invites \subseteq Ids
  /\ invites \in [DOMAIN invites -> [org : orgs, inviter : DOMAIN users, email : Emails, role : Roles,
                                     accepted : BOOLEAN]]
  /\ \A i \in DOMAIN invites : users[invites[i].inviter].org = invites[i].org
TokensOK ==
  /\ DOMAIN tokens \subseteq Ids
  /\ tokens \in [DOMAIN tokens -> [user : DOMAIN users, used : BOOLEAN]]

TypeOK ==
  /\ next \in 1 .. MaxId + 1
  /\ UsersOK /\ SessionsOK /\ InvitesOK /\ TokensOK
  /\ audits \subseteq DOMAIN users
  /\ hs \in [Handlers -> Request \cup {Free}]
  /\ withdrawn \cup joined \cup missed \subseteq Ids /\ crossed \in BOOLEAN

(* An organisation keeps an owner as long as no change of a member is made  *)
(* by a request that began before another change was committed: nobody      *)
(* changes or removes itself, but each of two owners may change the other.  *)
OwnerStays ==
  ~crossed => \A o \in orgs : \E u \in Members(o) : users[u].role = "owner"

(* Nobody joins by an invitation that was withdrawn, with whatever request  *)
(* for it under way.                                                        *)
WithdrawnNeverJoins == withdrawn \cap joined = {}

(* Seats: the founder, invitations nobody has accepted, members who came by *)
(* invitation.  The limit of the plan is compared before the invitation is  *)
(* inserted, so each request under way at once can add one to it; and what  *)
(* it is compared with leaves out who joins between the two counts, and     *)
(* nobody else.                                                             *)
Seats(o) == Pending(o) \cup ({users[u].via : u \in Members(o)} \ {0})
SeatsBounded ==
  \A o \in orgs : Cardinality(Seats(o) \ missed) <= MemberLimit + Cardinality(Handlers) - 1

(* A reset ends the sessions of the earlier password: those that are left   *)
(* were being opened at that time.                                          *)
SessionsCurrent ==
  \A s \in DOMAIN sessions : sessions[s].late \/ sessions[s].secret = users[sessions[s].user].secret
=============================================================================
