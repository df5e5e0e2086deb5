--------------------------- MODULE AccountsProofs ---------------------------
EXTENDS Accounts, FiniteSetTheorems, TLAPS

(* What a request has read of a row holds as long as the row is there. *)
Knows(r, us, is, ts) ==
  /\ r.at = "commit" /\ r.op \in {"register", "invite", "accept", "signup"} => r.email \in Emails
  /\ r.at \in {"look", "count", "commit"} /\ r.op \in {"call", "role", "remove", "invite"} /\ r.user \in DOMAIN us
       => us[r.user].org = r.org
  /\ r.at = "commit" /\ r.op = "accept" /\ r.on \in DOMAIN is => is[r.on].org = r.org
  /\ r.op = "reset" /\ r.on \in DOMAIN ts => ts[r.on].user = r.user

Loaded == \A h \in Handlers : hs[h] # Free => Knows(hs[h], users, invites, tokens)

IInv == TypeOK /\ Loaded

(* Rows of earlier ids stay as they are in what Knows is about. *)
Kept ==
  /\ \A u \in DOMAIN users' \ {next} : u \in DOMAIN users /\ users'[u].org = users[u].org
  /\ \A i \in DOMAIN invites' \ {next} : i \in DOMAIN invites /\ invites'[i].org = invites[i].org
  /\ \A k \in DOMAIN tokens' \ {next} : k \in DOMAIN tokens /\ tokens'[k].user = tokens[k].user

(* What a request knows survives a step that leaves the rows of earlier ids *)
(* alone.                                                                   *)
LEMMA KnowsStays ==
  ASSUME next \in Nat \ {0}, Kept, NEW r \in Request, Knows(r, users, invites, tokens)
  PROVE  Knows(r, users', invites', tokens')
<1>1. r.user # next /\ r.on # next
  BY DEF Request, Ids
<1>2. r.user \in DOMAIN users' => r.user \in DOMAIN users /\ users'[r.user].org = users[r.user].org
  BY <1>1 DEF Kept
<1>3. r.on \in DOMAIN invites' => r.on \in DOMAIN invites /\ invites'[r.on].org = invites[r.on].org
  BY <1>1 DEF Kept
<1>4. r.on \in DOMAIN tokens' => r.on \in DOMAIN tokens /\ tokens'[r.on].user = tokens[r.on].user
  BY <1>1 DEF Kept
<1> QED
  BY <1>2, <1>3, <1>4 DEF Knows

-----------------------------------------------------------------------------
(* Steps that change nothing but the request of h. *)
LEMMA Quiet ==
  ASSUME IInv, UNCHANGED <<people, papers, audits, next, crossed>>,
         NEW h \in Handlers, NEW r \in Request \cup {Free},
         r # Free => Knows(r, users, invites, tokens), Become(h, r)
  PROVE  IInv'
<1>1. TypeOK'
  BY DEF IInv, TypeOK, UsersOK, SessionsOK, InvitesOK, TokensOK, Become, people, papers, Request, Ids
<1>2. Loaded'
  BY DEF IInv, TypeOK, Loaded, Become, people, papers
<1> QED
  BY <1>1, <1>2 DEF IInv

(* IInv, action by action.                                                  *)
LEMMA TypeEnter ==
  ASSUME IInv, NEW h \in Handlers, Enter(h)
  PROVE  IInv'
<1>1. PICK s \in DOMAIN sessions :
        Begin(h, [Blank("call", "look") EXCEPT !.user = sessions[s].user,
                                               !.org = users[sessions[s].user].org,
                                               !.role = users[sessions[s].user].role])
  BY DEF Enter
<1> DEFINE u == sessions[s].user
<1> DEFINE r == [Blank("call", "look") EXCEPT !.user = u, !.org = users[u].org, !.role = users[u].role]
<1>2. u \in DOMAIN users /\ u \in Ids /\ users[u].org \in Ids /\ users[u].role \in Roles
  BY DEF IInv, TypeOK, UsersOK, SessionsOK
<1>3. r \in Request
  BY <1>2 DEF Blank, Request, Roles, Ops, Stages
<1>4. Knows(r, users, invites, tokens)
  BY <1>2 DEF Knows, Blank
<1>5. UNCHANGED <<people, papers, audits, next, crossed>> /\ Become(h, r)
  BY <1>1 DEF Enter, Begin
<1> QED
  BY <1>3, <1>4, <1>5, Quiet

(* An organisation has finitely many members and pending invitations.       *)
LEMMA FewMembers ==
  ASSUME IInv
  PROVE  /\ IsFiniteSet(Ids) /\ IsFiniteSet({0} \cup Ids)
         /\ \A o : /\ Members(o) \subseteq Ids /\ IsFiniteSet(Members(o)) /\ Cardinality(Members(o)) \in Nat
                  /\ Pending(o) \subseteq Ids /\ IsFiniteSet(Pending(o)) /\ Cardinality(Pending(o)) \in Nat
<1>1. IsFiniteSet(0 .. next) /\ {0} \cup Ids \subseteq 0 .. next /\ Ids \subseteq 0 .. next
  <2>1. 0 \in Int /\ next \in Nat \ {0}
    BY AccountsAssumption DEF IInv, TypeOK
  <2>2. IsFiniteSet(0 .. next)
    BY <2>1, FS_Interval
  <2> QED
    BY <2>1, <2>2 DEF Ids
<1>2. IsFiniteSet(Ids) /\ IsFiniteSet({0} \cup Ids)
  BY <1>1, FS_Subset
<1>3. ASSUME NEW o PROVE Members(o) \subseteq Ids /\ Pending(o) \subseteq Ids
  BY DEF Members, Pending, IInv, TypeOK, UsersOK, InvitesOK
<1>4. ASSUME NEW o
      PROVE  /\ IsFiniteSet(Members(o)) /\ Cardinality(Members(o)) \in Nat
             /\ IsFiniteSet(Pending(o)) /\ Cardinality(Pending(o)) \in Nat
  BY <1>2, <1>3, FS_Subset, FS_CardinalityType
<1> QED
  BY <1>2, <1>3, <1>4

(* The steps that only read, or end a request, change nothing but the       *)
(* handler.                                                                 *)
LEMMA TypeCall ==
  ASSUME IInv, NEW h \in Handlers,
         Die(h) \/ Edit(h) \/ LookRole(h) \/ LookRemove(h) \/ LookRegister(h) \/ CountMembers(h)
           \/ LookInvite(h) \/ LookRevoke(h) \/ LookAccept(h) \/ Login(h) \/ Verify(h) \/ LookSignup(h)
           \/ LookForgot(h) \/ LookReset(h) \/ SpendCode(h)
  PROVE  IInv'
<1>0. UNCHANGED <<people, papers, audits, next, crossed>>
  BY DEF Die, Edit, LookRole, LookRemove, LookRegister, CountMembers, LookInvite, LookRevoke, LookAccept, Login,
         Verify, LookSignup, LookForgot, LookReset, SpendCode
<1>1. hs[h] # Free => hs[h] \in Request /\ Knows(hs[h], users, invites, tokens)
  BY DEF IInv, TypeOK, Loaded
<1>2. ASSUME NEW u \in DOMAIN users
      PROVE  u \in Ids /\ users[u].org \in Ids /\ users[u].role \in Roles /\ users[u].secret \in Nat
  BY DEF IInv, TypeOK, UsersOK
<1>3. ASSUME NEW i \in DOMAIN invites
      PROVE  /\ i \in Ids /\ invites[i].org \in Ids /\ invites[i].role \in Roles
             /\ invites[i].email \in Emails
  BY DEF IInv, TypeOK, InvitesOK, UsersOK
<1>4. ASSUME NEW k \in DOMAIN tokens
      PROVE  k \in Ids /\ tokens[k].user \in Ids
  BY DEF IInv, TypeOK, TokensOK, UsersOK
<1>d. CASE Die(h)
  BY <1>d, <1>0, Quiet DEF Die, Finish
<1>e. CASE Edit(h)
  <2>1. ToAudit(hs[h].user) \in Request
    BY <1>e, <1>1 DEF Edit, Asked, At, ToAudit, Blank, Request, Roles, Ops, Stages
  <2>2. Knows(ToAudit(hs[h].user), users, invites, tokens)
    BY DEF Knows, ToAudit, Blank
  <2> QED
    BY <1>e, <1>0, <2>1, <2>2, Quiet DEF Edit
<1>f. CASE LookRole(h)
  <2>1. PICK t \in DOMAIN users, r \in Roles :
          IF r = users[t].role
          THEN Become(h, [ToAudit(hs[h].user) EXCEPT !.on = t])
          ELSE Become(h, [hs[h] EXCEPT !.op = "role", !.at = "commit", !.on = t, !.to = r])
    BY <1>f DEF LookRole
  <2> DEFINE q == [hs[h] EXCEPT !.op = "role", !.at = "commit", !.on = t, !.to = r]
  <2> DEFINE a == [ToAudit(hs[h].user) EXCEPT !.on = t]
  <2>2. hs[h] \in Request /\ hs[h].op = "call" /\ hs[h].at = "look"
    BY <1>f, <1>1 DEF LookRole, Asked, At
  <2>3. q \in Request /\ a \in Request
    BY <2>2, <1>2 DEF Request, Ops, Stages, ToAudit, Blank, Roles
  <2>4. Knows(a, users, invites, tokens)
    BY DEF Knows, ToAudit, Blank
  <2>5. /\ q.at = "commit" /\ q.op = "role" /\ q.user = hs[h].user /\ q.org = hs[h].org
        /\ hs[h] # Free
    BY <1>f, <2>2 DEF Request, LookRole, Asked, At
  <2>6. Knows(q, users, invites, tokens)
    BY <2>2, <2>5, <1>1 DEF Knows
  <2> QED
    BY <1>0, <2>1, <2>3, <2>4, <2>6, Quiet
<1>g. CASE LookRemove(h)
  <2>1. PICK t \in DOMAIN users :
          Become(h, [hs[h] EXCEPT !.op = "remove", !.at = "commit", !.on = t])
    BY <1>g DEF LookRemove
  <2> DEFINE q == [hs[h] EXCEPT !.op = "remove", !.at = "commit", !.on = t]
  <2>2. hs[h] \in Request /\ hs[h].op = "call" /\ hs[h].at = "look" /\ hs[h] # Free
    BY <1>g, <1>1 DEF LookRemove, Asked, At
  <2>3. q \in Request
    BY <2>2, <1>2 DEF Request, Ops, Stages
  <2>4. q.at = "commit" /\ q.op = "remove" /\ q.user = hs[h].user /\ q.org = hs[h].org
    BY <2>2 DEF Request
  <2>5. Knows(q, users, invites, tokens)
    BY <2>2, <2>4, <1>1 DEF Knows
  <2> QED
    BY <1>0, <2>1, <2>3, <2>5, Quiet
<1>h. CASE LookRegister(h)
  <2>1. PICK e \in Emails, r \in Roles :
          Become(h, [Blank("register", "commit") EXCEPT !.org = hs[h].org, !.email = e, !.to = r])
    BY <1>h DEF LookRegister
  <2> DEFINE q == [Blank("register", "commit") EXCEPT !.org = hs[h].org, !.email = e, !.to = r]
  <2>2. q \in Request
    BY <1>h, <1>1 DEF LookRegister, Asked, At, Blank, Request, Ops, Stages, Roles
  <2>3. Knows(q, users, invites, tokens)
    BY DEF Knows, Blank
  <2> QED
    BY <1>0, <2>1, <2>2, <2>3, Quiet
<1>i. CASE LookInvite(h)
  <2>1. PICK e \in Emails, r \in Roles :
          Become(h, [Blank("invite", "commit") EXCEPT !.user = hs[h].user, !.org = hs[h].org,
                                                     !.email = e, !.to = r])
    BY <1>i DEF LookInvite
  <2> DEFINE q == [Blank("invite", "commit") EXCEPT !.user = hs[h].user, !.org = hs[h].org,
                                                     !.email = e, !.to = r]
  <2>2. q \in Request
    BY <1>i, <1>1 DEF LookInvite, At, Blank, Request, Ops, Stages, Roles
  <2>3. hs[h].user \in DOMAIN users => users[hs[h].user].org = hs[h].org
    BY <1>i, <1>1 DEF LookInvite, At, Knows
  <2>4. Knows(q, users, invites, tokens)
    BY <2>3 DEF Knows, Blank
  <2> QED
    BY <1>0, <2>1, <2>2, <2>4, Quiet
<1>j. CASE LookRevoke(h)
  <2>1. PICK i \in DOMAIN invites : Become(h, [Blank("revoke", "commit") EXCEPT !.on = i])
    BY <1>j DEF LookRevoke
  <2> DEFINE q == [Blank("revoke", "commit") EXCEPT !.on = i]
  <2>2. q \in Request /\ Knows(q, users, invites, tokens)
    BY <1>3 DEF Blank, Request, Ops, Stages, Roles, Knows
  <2> QED
    BY <1>0, <2>1, <2>2, Quiet
<1>k. CASE LookAccept(h)
  <2>1. PICK i \in DOMAIN invites :
          Become(h, [Blank("accept", "commit") EXCEPT !.on = i, !.org = invites[i].org,
                                                     !.to = invites[i].role, !.email = invites[i].email])
    BY <1>k DEF LookAccept, Begin
  <2> DEFINE q == [Blank("accept", "commit") EXCEPT !.on = i, !.org = invites[i].org,
                                                     !.to = invites[i].role, !.email = invites[i].email]
  <2>2. q \in Request
    BY <1>3 DEF Blank, Request, Ops, Stages, Roles
  <2>3. Knows(q, users, invites, tokens)
    BY <1>3 DEF Knows, Blank
  <2> QED
    BY <1>0, <2>1, <2>2, <2>3, Quiet
<1>l. CASE Login(h)
  <2>1. PICK u \in DOMAIN users :
          Become(h, [Blank("login", "login") EXCEPT !.on = u, !.secret = users[u].secret, !.late = Resetting(u)])
    BY <1>l DEF Login, Begin
  <2> DEFINE q == [Blank("login", "login") EXCEPT !.on = u, !.secret = users[u].secret, !.late = Resetting(u)]
  <2>2. Resetting(u) \in BOOLEAN
    BY DEF Resetting
  <2>3. q \in Request
    BY <1>2, <2>2 DEF Blank, Request, Ops, Stages, Roles
  <2>4. Knows(q, users, invites, tokens)
    BY DEF Knows, Blank
  <2> QED
    BY <1>0, <2>1, <2>3, <2>4, Quiet
<1>m. CASE Verify(h)
  <2> DEFINE q == [hs[h] EXCEPT !.at = "login", !.late = Resetting(hs[h].on)]
  <2>1. hs[h] \in Request /\ hs[h] # Free
    BY <1>m, <1>1 DEF Verify
  <2>2. Resetting(hs[h].on) \in BOOLEAN
    BY DEF Resetting
  <2>3. q \in Request
    BY <2>1, <2>2 DEF Request, Stages
  <2>4. q.at = "login" /\ q.op = hs[h].op /\ q.on = hs[h].on /\ q.user = hs[h].user
    BY <2>1 DEF Request
  <2>5. Knows(q, users, invites, tokens)
    BY <2>1, <2>4, <1>1 DEF Knows
  <2> QED
    BY <1>m, <1>0, <2>3, <2>5, Quiet DEF Verify
<1>n. CASE LookSignup(h)
  <2>1. PICK e \in Emails : Become(h, [Blank("signup", "commit") EXCEPT !.email = e])
    BY <1>n DEF LookSignup, Begin
  <2> DEFINE q == [Blank("signup", "commit") EXCEPT !.email = e]
  <2>2. q \in Request /\ Knows(q, users, invites, tokens)
    BY DEF Blank, Request, Ops, Stages, Roles, Knows
  <2> QED
    BY <1>0, <2>1, <2>2, Quiet
<1>o. CASE LookForgot(h)
  <2>1. PICK u \in DOMAIN users : Become(h, [Blank("forgot", "commit") EXCEPT !.user = u])
    BY <1>o DEF LookForgot, Begin
  <2> DEFINE q == [Blank("forgot", "commit") EXCEPT !.user = u]
  <2>2. q \in Request /\ Knows(q, users, invites, tokens)
    BY <1>2 DEF Blank, Request, Ops, Stages, Roles, Knows
  <2> QED
    BY <1>0, <2>1, <2>2, Quiet
<1>p. CASE LookReset(h)
  <2>1. PICK k \in DOMAIN tokens :
          Become(h, [Blank("reset", "sweep") EXCEPT !.on = k, !.user = tokens[k].user])
    BY <1>p DEF LookReset, Begin
  <2> DEFINE q == [Blank("reset", "sweep") EXCEPT !.on = k, !.user = tokens[k].user]
  <2>2. q \in Request
    BY <1>4 DEF Blank, Request, Ops, Stages, Roles
  <2>3. Knows(q, users, invites, tokens)
    BY DEF Blank, Knows
  <2> QED
    BY <1>0, <2>1, <2>2, <2>3, Quiet
<1>q. CASE SpendCode(h)
  <2> DEFINE q == [Blank("delete", "commit") EXCEPT !.org = hs[h].org]
  <2>1. q \in Request
    BY <1>q, <1>1 DEF SpendCode, Asked, At, Blank, Request, Ops, Stages, Roles
  <2>2. Knows(q, users, invites, tokens)
    BY DEF Blank, Knows
  <2> QED
    BY <1>q, <1>0, <2>1, <2>2, Quiet DEF SpendCode
<1>r. CASE CountMembers(h)
  <2> DEFINE q == [hs[h] EXCEPT !.op = "invite", !.at = "count", !.seen = Cardinality(Members(hs[h].org))]
  <2>1. hs[h] \in Request /\ hs[h].op = "call" /\ hs[h].at = "look" /\ hs[h] # Free
    BY <1>r, <1>1 DEF CountMembers, Asked, At
  <2>2. Cardinality(Members(hs[h].org)) \in Nat
    BY FewMembers
  <2>3. q \in Request
    BY <2>1, <2>2 DEF Request, Ops, Stages
  <2>4. q.at = "count" /\ q.op = "invite" /\ q.user = hs[h].user /\ q.org = hs[h].org
    BY <2>1 DEF Request
  <2>5. Knows(q, users, invites, tokens)
    BY <2>1, <2>4, <1>1 DEF Knows
  <2> QED
    BY <1>r, <1>0, <2>3, <2>5, Quiet DEF CountMembers
<1> QED
  BY <1>d, <1>e, <1>f, <1>g, <1>h, <1>i, <1>j, <1>k, <1>l, <1>m, <1>n, <1>o, <1>p, <1>q, <1>r

-----------------------------------------------------------------------------
(* Steps that change rows. *)
LEMMA IdsGrow ==
  ASSUME TypeOK, next' = next \/ next' = next + 1
  PROVE  next \in Nat \ {0} /\ next' \in Nat /\ Ids \subseteq Ids' /\ next \notin Ids
<1>1. next \in Nat \ {0}
  BY AccountsAssumption DEF TypeOK
<1>2. next' \in Nat /\ next <= next'
  BY <1>1
<1>3. \A n, m \in Nat : n <= m => 1 .. n - 1 \subseteq 1 .. m - 1
  OBVIOUS
<1>4. next \notin Ids
  BY <1>1 DEF Ids
<1> QED
  BY <1>1, <1>2, <1>3, <1>4 DEF Ids

(* The requests of the other handlers stay sound in a step that keeps rows. *)
LEMMA RequestsStay ==
  ASSUME IInv, Kept, next' = next \/ next' = next + 1,
         NEW h \in Handlers, NEW r \in Request' \cup {Free},
         r # Free => Knows(r, users', invites', tokens'), Become(h, r)
  PROVE  hs' \in [Handlers -> Request' \cup {Free}] /\ Loaded'
<1>1. next \in Nat \ {0} /\ Ids \subseteq Ids'
  BY IdsGrow DEF IInv
<1>2. Request \subseteq Request'
  BY <1>1 DEF Request
<1>3. hs' \in [Handlers -> Request' \cup {Free}]
  BY <1>2 DEF IInv, TypeOK, Become
<1>4. ASSUME NEW g \in Handlers, hs'[g] # Free PROVE Knows(hs'[g], users', invites', tokens')
  <2>1. CASE g = h
    BY <2>1, <1>4 DEF Become, IInv, TypeOK
  <2>2. CASE g # h
    <3>1. hs'[g] = hs[g] /\ hs[g] \in Request /\ Knows(hs[g], users, invites, tokens)
      BY <2>2, <1>4 DEF Become, IInv, TypeOK, Loaded
    <3> QED
      BY <3>1, <1>1, KnowsStays
  <2> QED
    BY <2>1, <2>2
<1> QED
  BY <1>3, <1>4 DEF Loaded

(* Nothing is known of a blank request. *)
LEMMA FreeAgain ==
  ASSUME IInv, Kept, next' = next \/ next' = next + 1, NEW h \in Handlers, Finish(h)
  PROVE  hs' \in [Handlers -> Request' \cup {Free}] /\ Loaded'
BY RequestsStay DEF Finish

LEMMA TypeAudit ==
  ASSUME IInv, NEW h \in Handlers, Audit(h)
  PROVE  IInv'
<1>1. Kept
  BY DEF Audit, people, papers, Kept
<1>2. hs' \in [Handlers -> Request' \cup {Free}] /\ Loaded'
  BY <1>1, FreeAgain DEF Audit
<1> QED
  BY <1>2 DEF IInv, TypeOK, Audit, people, papers, UsersOK, SessionsOK, InvitesOK, TokensOK, Ids

(* A new user, with nothing else but what comes with it. *)
LEMMA NewUser ==
  ASSUME IInv, orgs \subseteq orgs', orgs' \subseteq Ids', next' = next + 1,
         NEW row \in [org : orgs', email : Emails, role : Roles, secret : Nat, via : {0} \cup Ids'],
         row.email \notin Taken, users' = With(users, next, row)
  PROVE  /\ UsersOK' /\ DOMAIN users \subseteq DOMAIN users'
         /\ \A u \in DOMAIN users' \ {next} : u \in DOMAIN users /\ users'[u] = users[u]
         /\ \A u \in DOMAIN users : users'[u] = users[u]
<1>1. next \in Nat \ {0} /\ Ids \subseteq Ids' /\ next \in Ids' /\ next \notin Ids
  BY AccountsAssumption DEF IInv, TypeOK, Ids
<1>2. DOMAIN users' = DOMAIN users \cup {next} /\ next \notin DOMAIN users
  BY <1>1 DEF With, IInv, TypeOK, UsersOK
<1>3. users'[next] = row /\ \A u \in DOMAIN users : users'[u] = users[u]
  BY <1>2 DEF With
<1>4. users' \in [DOMAIN users' -> [org : orgs', email : Emails, role : Roles, secret : Nat,
                                    via : {0} \cup Ids']]
  <2>1. \A u \in DOMAIN users : users[u] \in [org : orgs', email : Emails, role : Roles, secret : Nat,
                                              via : {0} \cup Ids']
    BY <1>1 DEF IInv, TypeOK, UsersOK
  <2> QED
    BY <1>2, <1>3, <2>1 DEF With
<1>5. \A u, v \in DOMAIN users' : users'[u].email = users'[v].email => u = v
  BY <1>2, <1>3 DEF IInv, TypeOK, UsersOK, Taken
<1> QED
  BY <1>1, <1>2, <1>3, <1>4, <1>5 DEF IInv, TypeOK, UsersOK

(* The other tables, when users are only added. *)
LEMMA TablesStay ==
  ASSUME IInv, orgs \subseteq orgs', DOMAIN users \subseteq DOMAIN users',
         \A u \in DOMAIN users : users'[u].org = users[u].org,
         next' = next \/ next' = next + 1
  PROVE  /\ sessions' = sessions => SessionsOK'
         /\ invites' = invites => InvitesOK'
         /\ tokens' = tokens => TokensOK'
         /\ audits' = audits => audits' \subseteq DOMAIN users'
         /\ withdrawn \cup joined \cup missed \subseteq Ids'
<1>1. Ids \subseteq Ids'
  BY IdsGrow DEF IInv
<1>2. sessions' = sessions => SessionsOK'
  BY <1>1 DEF IInv, TypeOK, SessionsOK
<1>3. invites' = invites => InvitesOK'
  <2>1. ASSUME NEW i \in DOMAIN invites
        PROVE  /\ invites[i] \in [org : orgs', inviter : DOMAIN users', email : Emails, role : Roles,
                                  accepted : BOOLEAN]
               /\ users'[invites[i].inviter].org = invites[i].org
    BY DEF IInv, TypeOK, InvitesOK
  <2> QED
    BY <1>1, <2>1 DEF IInv, TypeOK, InvitesOK
<1>4. tokens' = tokens => TokensOK'
  BY <1>1 DEF IInv, TypeOK, TokensOK
<1> QED
  BY <1>1, <1>2, <1>3, <1>4 DEF IInv, TypeOK

(* A new id is above all ids in use.                                        *)
LEMMA NewNext ==
  ASSUME IInv, NewId
  PROVE  /\ next' = next + 1 /\ next' \in 1 .. MaxId + 1 /\ next \in Nat \ {0}
         /\ next \in Ids' /\ next \notin Ids /\ Ids \subseteq Ids'
<1>1. next \in 1 .. MaxId + 1 /\ MaxId \in Nat /\ next <= MaxId /\ next' = next + 1
  BY AccountsAssumption DEF NewId, IInv, TypeOK
<1>2. Ids \subseteq Ids' /\ next \notin Ids
  BY <1>1, IdsGrow DEF IInv
<1> QED
  BY <1>1, <1>2 DEF Ids

LEMMA TypeRegister ==
  ASSUME IInv, NEW h \in Handlers, CommitRegister(h)
  PROVE  IInv'
<1> DEFINE row == [org |-> hs[h].org, email |-> hs[h].email, role |-> hs[h].to, secret |-> 0, via |-> 0]
<1>1. /\ next' = next + 1 /\ next' \in 1 .. MaxId + 1 /\ next \in Nat \ {0}
      /\ Ids \subseteq Ids'
  BY NewNext DEF CommitRegister
<1>2. hs[h] \in Request /\ hs[h].email \in Emails
  BY DEF CommitRegister, At, IInv, TypeOK, Loaded, Knows
<1>3. row \in [org : orgs, email : Emails, role : Roles, secret : Nat, via : {0} \cup Ids']
  BY <1>2 DEF CommitRegister, Request
<1>4. /\ UsersOK' /\ DOMAIN users \subseteq DOMAIN users'
      /\ \A u \in DOMAIN users' \ {next} : u \in DOMAIN users /\ users'[u] = users[u]
      /\ \A u \in DOMAIN users : users'[u] = users[u]
  <2>1. orgs' = orgs /\ row.email \notin Taken /\ users' = With(users, next, row)
    BY DEF CommitRegister, EmailFree
  <2>2. orgs' \subseteq Ids'
    BY <2>1, <1>1 DEF IInv, TypeOK, UsersOK
  <2> QED
    BY <2>1, <2>2, <1>1, <1>3, NewUser
<1>5. Kept
  BY <1>4 DEF CommitRegister, papers, Kept
<1>6. hs' \in [Handlers -> Request' \cup {Free}] /\ Loaded'
  BY <1>1, <1>5, FreeAgain DEF CommitRegister
<1>7. SessionsOK' /\ InvitesOK' /\ TokensOK' /\ audits' \subseteq DOMAIN users'
      /\ withdrawn \cup joined \cup missed \subseteq Ids'
  BY <1>1, <1>4, TablesStay DEF CommitRegister, papers
<1> QED
  BY <1>1, <1>4, <1>6, <1>7 DEF IInv, TypeOK, CommitRegister, papers

LEMMA TypeSignup ==
  ASSUME IInv, NEW h \in Handlers, CommitSignup(h)
  PROVE  IInv'
<1> DEFINE row == [org |-> next, email |-> hs[h].email, role |-> "owner", secret |-> 0, via |-> next]
<1> DEFINE q == [Blank("signup", "verify") EXCEPT !.on = next]
<1>1. /\ next' = next + 1 /\ next' \in 1 .. MaxId + 1 /\ next \in Nat \ {0}
      /\ next \in Ids' /\ Ids \subseteq Ids'
  BY NewNext DEF CommitSignup
<1>2. hs[h].email \in Emails
  BY DEF CommitSignup, At, IInv, TypeOK, Loaded, Knows
<1>3. row \in [org : orgs', email : Emails, role : Roles, secret : Nat, via : {0} \cup Ids']
  BY <1>1, <1>2 DEF CommitSignup, Roles
<1>4. /\ UsersOK' /\ DOMAIN users \subseteq DOMAIN users'
      /\ \A u \in DOMAIN users' \ {next} : u \in DOMAIN users /\ users'[u] = users[u]
      /\ \A u \in DOMAIN users : users'[u] = users[u]
  <2>1. orgs' = orgs \cup {next} /\ row.email \notin Taken /\ users' = With(users, next, row)
    BY DEF CommitSignup, EmailFree
  <2>2. orgs' \subseteq Ids'
    BY <2>1, <1>1 DEF IInv, TypeOK, UsersOK
  <2> QED
    BY <2>1, <2>2, <1>1, <1>3, NewUser
<1>5. Kept
  BY <1>4 DEF CommitSignup, papers, Kept
<1>6. q \in Request' /\ Knows(q, users', invites', tokens')
  BY <1>1 DEF Blank, Request, Ops, Stages, Roles, Knows
<1>7. hs' \in [Handlers -> Request' \cup {Free}] /\ Loaded'
  BY <1>1, <1>5, <1>6, RequestsStay DEF CommitSignup
<1>8. SessionsOK' /\ InvitesOK' /\ TokensOK' /\ audits' \subseteq DOMAIN users'
      /\ withdrawn \cup joined \cup missed \subseteq Ids'
  BY <1>1, <1>4, TablesStay DEF CommitSignup, papers
<1> QED
  BY <1>1, <1>4, <1>7, <1>8 DEF IInv, TypeOK, CommitSignup, papers

LEMMA TypeAccept ==
  ASSUME IInv, NEW h \in Handlers, CommitAccept(h)
  PROVE  IInv'
<1> DEFINE row == [org |-> hs[h].org, email |-> hs[h].email, role |-> hs[h].to, secret |-> 0,
                   via |-> hs[h].on]
<1> DEFINE q == [Blank("accept", "verify") EXCEPT !.on = next]
<1>1. /\ next' = next + 1 /\ next' \in 1 .. MaxId + 1 /\ next \in Nat \ {0}
      /\ next \in Ids' /\ Ids \subseteq Ids'
  BY NewNext DEF CommitAccept
<1>2. /\ hs[h] \in Request /\ hs[h].email \in Emails
      /\ hs[h].on \in DOMAIN invites /\ invites[hs[h].on].org = hs[h].org
  BY DEF CommitAccept, StillThere, At, IInv, TypeOK, Loaded, Knows
<1>3. hs[h].org \in orgs /\ hs[h].on \in Ids
  BY <1>2 DEF IInv, TypeOK, InvitesOK
<1>4. row \in [org : orgs, email : Emails, role : Roles, secret : Nat, via : {0} \cup Ids']
  BY <1>1, <1>2, <1>3 DEF Request
<1>5. /\ UsersOK' /\ DOMAIN users \subseteq DOMAIN users'
      /\ \A u \in DOMAIN users' \ {next} : u \in DOMAIN users /\ users'[u] = users[u]
      /\ \A u \in DOMAIN users : users'[u] = users[u]
  <2>1. orgs' = orgs /\ row.email \notin Taken /\ users' = With(users, next, row)
    BY DEF CommitAccept, EmailFree
  <2>2. orgs' \subseteq Ids'
    BY <2>1, <1>1 DEF IInv, TypeOK, UsersOK
  <2> QED
    BY <2>1, <2>2, <1>1, <1>4, NewUser
<1>6. InvitesOK' /\ DOMAIN invites' = DOMAIN invites
      /\ \A i \in DOMAIN invites : invites'[i].org = invites[i].org
  <2>1. invites' = [invites EXCEPT ![hs[h].on].accepted = TRUE] /\ orgs' = orgs
    BY DEF CommitAccept
  <2>2. ASSUME NEW i \in DOMAIN invites
        PROVE  /\ invites'[i] \in [org : orgs', inviter : DOMAIN users', email : Emails, role : Roles,
                                   accepted : BOOLEAN]
               /\ invites'[i].org = invites[i].org
               /\ users'[invites'[i].inviter].org = invites'[i].org
    <3>1. /\ invites[i] \in [org : orgs, inviter : DOMAIN users, email : Emails, role : Roles,
                             accepted : BOOLEAN]
          /\ users[invites[i].inviter].org = invites[i].org
      BY DEF IInv, TypeOK, InvitesOK
    <3> QED
      BY <2>1, <3>1, <1>5
  <2> QED
    BY <2>1, <2>2, <1>1 DEF IInv, TypeOK, InvitesOK
<1>7. Kept
  BY <1>5, <1>6 DEF CommitAccept, Kept
<1>8. q \in Request' /\ Knows(q, users', invites', tokens')
  BY <1>1 DEF Blank, Request, Ops, Stages, Roles, Knows
<1>9. hs' \in [Handlers -> Request' \cup {Free}] /\ Loaded'
  BY <1>1, <1>7, <1>8, RequestsStay DEF CommitAccept
<1>10. SessionsOK' /\ TokensOK' /\ audits' \subseteq DOMAIN users' /\ withdrawn' \cup joined' \cup missed' \subseteq Ids'
  BY <1>1, <1>3, <1>5, TablesStay DEF CommitAccept
<1> QED
  BY <1>1, <1>5, <1>6, <1>9, <1>10 DEF IInv, TypeOK, CommitAccept

LEMMA TypeInvite ==
  ASSUME IInv, NEW h \in Handlers, CommitInvite(h)
  PROVE  IInv'
<1> DEFINE row == [org |-> hs[h].org, inviter |-> hs[h].user, email |-> hs[h].email,
                   role |-> hs[h].to, accepted |-> FALSE]
<1>1. /\ next' = next + 1 /\ next' \in 1 .. MaxId + 1 /\ next \in Nat \ {0}
      /\ next \in Ids' /\ Ids \subseteq Ids' /\ next \notin Ids
  BY NewNext DEF CommitInvite
<1>2. /\ hs[h] \in Request /\ hs[h].email \in Emails
      /\ hs[h].user \in DOMAIN users /\ users[hs[h].user].org = hs[h].org
  BY DEF CommitInvite, At, IInv, TypeOK, Loaded, Knows
<1>3. row \in [org : orgs, inviter : DOMAIN users, email : Emails, role : Roles, accepted : BOOLEAN]
  BY <1>2 DEF Request, IInv, TypeOK, UsersOK
<1>4. invites' = With(invites, next, row) /\ orgs' = orgs /\ users' = users
  BY DEF CommitInvite, people
<1>5. /\ DOMAIN invites' = DOMAIN invites \cup {next} /\ invites'[next] = row
      /\ \A i \in DOMAIN invites : invites'[i] = invites[i]
  BY <1>1, <1>4 DEF With, IInv, TypeOK, InvitesOK
<1>6. InvitesOK'
  <2>1. DOMAIN invites' \subseteq Ids'
    BY <1>1, <1>5 DEF IInv, TypeOK, InvitesOK
  <2>2. ASSUME NEW i \in DOMAIN invites'
        PROVE  /\ invites'[i] \in [org : orgs', inviter : DOMAIN users', email : Emails, role : Roles,
                                   accepted : BOOLEAN]
               /\ users'[invites'[i].inviter].org = invites'[i].org
    <3>1. CASE i = next
      <4>1. invites'[i] = row
        BY <3>1, <1>5
      <4>2. users'[row.inviter].org = row.org
        BY <1>2, <1>4
      <4> HIDE DEF row
      <4> QED
        BY <4>1, <4>2, <1>3, <1>4
    <3>2. CASE i \in DOMAIN invites
      <4>1. /\ invites[i] \in [org : orgs, inviter : DOMAIN users, email : Emails, role : Roles,
                               accepted : BOOLEAN]
            /\ users[invites[i].inviter].org = invites[i].org
        BY <3>2 DEF IInv, TypeOK, InvitesOK
      <4> QED
        BY <3>2, <4>1, <1>4, <1>5
    <3> QED
      BY <3>1, <3>2, <1>5
  <2>3. invites' = [i \in DOMAIN invites \cup {next} |-> IF i = next THEN row ELSE invites[i]]
    BY <1>4 DEF With
  <2> QED
    BY <2>1, <2>2, <2>3, <1>5 DEF InvitesOK
<1>7. Kept
  BY <1>4, <1>5 DEF CommitInvite, Kept
<1>8. hs' \in [Handlers -> Request' \cup {Free}] /\ Loaded'
  BY <1>1, <1>7, FreeAgain DEF CommitInvite
<1>9. SessionsOK' /\ TokensOK' /\ audits' \subseteq DOMAIN users' /\ withdrawn \cup joined \cup missed \subseteq Ids'
  BY <1>1, <1>4, TablesStay DEF CommitInvite, people
<1>10. UsersOK'
  BY <1>1, <1>4 DEF IInv, TypeOK, UsersOK
<1> QED
  BY <1>1, <1>6, <1>8, <1>9, <1>10 DEF IInv, TypeOK, CommitInvite

LEMMA TypeOpen ==
  ASSUME IInv, NEW h \in Handlers, OpenSession(h)
  PROVE  IInv'
<1> DEFINE row == [user |-> hs[h].on, secret |-> hs[h].secret, late |-> hs[h].late]
<1>1. /\ next' = next + 1 /\ next' \in 1 .. MaxId + 1 /\ next \in Nat \ {0}
      /\ next \in Ids' /\ Ids \subseteq Ids' /\ next \notin Ids
  BY NewNext DEF OpenSession
<1>2. hs[h] \in Request /\ hs[h].on \in DOMAIN users /\ hs[h].on \in Ids'
  BY <1>1 DEF OpenSession, IInv, TypeOK, UsersOK
<1>3. sessions' = With(sessions, next, row) /\ orgs' = orgs /\ users' = users /\ UNCHANGED papers
  BY DEF OpenSession
<1>4. SessionsOK'
  <2>1. DOMAIN sessions' = DOMAIN sessions \cup {next}
    BY <1>3 DEF With
  <2>2. row \in [user : DOMAIN users', secret : Nat, late : BOOLEAN]
    BY <1>2, <1>3 DEF Request
  <2> QED
    BY <2>1, <2>2, <1>1, <1>3 DEF With, IInv, TypeOK, SessionsOK
<1>5. Kept
  BY <1>3 DEF papers, Kept
<1>6. /\ ToAudit(hs[h].on) \in Request'
      /\ Knows(ToAudit(hs[h].on), users', invites', tokens')
  BY <1>2 DEF ToAudit, Blank, Request, Ops, Stages, Roles, Knows
<1>7. hs' \in [Handlers -> Request' \cup {Free}] /\ Loaded'
  <2>1. CASE hs[h].op = "accept"
    BY <2>1, <1>1, <1>5, <1>6, RequestsStay DEF OpenSession
  <2>2. CASE hs[h].op # "accept"
    BY <2>2, <1>1, <1>5, FreeAgain DEF OpenSession
  <2> QED
    BY <2>1, <2>2
<1>8. InvitesOK' /\ TokensOK' /\ audits' \subseteq DOMAIN users' /\ withdrawn \cup joined \cup missed \subseteq Ids'
  BY <1>1, <1>3, TablesStay DEF OpenSession, papers
<1>9. UsersOK'
  BY <1>1, <1>3 DEF IInv, TypeOK, UsersOK
<1> QED
  BY <1>1, <1>4, <1>7, <1>8, <1>9 DEF IInv, TypeOK, OpenSession, papers

LEMMA TypeForgot ==
  ASSUME IInv, NEW h \in Handlers, CommitForgot(h)
  PROVE  IInv'
<1> DEFINE row == [user |-> hs[h].user, used |-> FALSE]
<1>1. /\ next' = next + 1 /\ next' \in 1 .. MaxId + 1 /\ next \in Nat \ {0}
      /\ next \in Ids' /\ Ids \subseteq Ids' /\ next \notin Ids
  BY NewNext DEF CommitForgot
<1>2. tokens' = With(tokens, next, row) /\ orgs' = orgs /\ users' = users
  BY DEF CommitForgot, people
<1>3. DOMAIN tokens' = DOMAIN tokens \cup {next} /\ \A k \in DOMAIN tokens : tokens'[k] = tokens[k]
  BY <1>1, <1>2 DEF With, IInv, TypeOK, TokensOK
<1>4. TokensOK'
  <2>1. row \in [user : DOMAIN users', used : BOOLEAN]
    BY <1>2 DEF CommitForgot
  <2> QED
    BY <2>1, <1>1, <1>2, <1>3 DEF With, IInv, TypeOK, TokensOK
<1>5. Kept
  BY <1>2, <1>3 DEF CommitForgot, Kept
<1>6. hs' \in [Handlers -> Request' \cup {Free}] /\ Loaded'
  BY <1>1, <1>5, FreeAgain DEF CommitForgot
<1>7. SessionsOK' /\ InvitesOK' /\ audits' \subseteq DOMAIN users' /\ withdrawn \cup joined \cup missed \subseteq Ids'
  BY <1>1, <1>2, TablesStay DEF CommitForgot, people
<1>8. UsersOK'
  BY <1>1, <1>2 DEF IInv, TypeOK, UsersOK
<1> QED
  BY <1>1, <1>4, <1>6, <1>7, <1>8 DEF IInv, TypeOK, CommitForgot

(* Requests that become out of date know what they knew. *)
LEMMA RequestsAge ==
  ASSUME IInv, Kept, next' = next, NEW h \in Handlers, NEW r \in Request,
         Knows(r, users', invites', tokens'), NEW late \in SUBSET Handlers,
         hs' = [g \in Handlers |-> IF g = h THEN r
                                  ELSE IF g \in late THEN [hs[g] EXCEPT !.late = TRUE] ELSE hs[g]],
         \A g \in late : hs[g] # Free
  PROVE  hs' \in [Handlers -> Request' \cup {Free}] /\ Loaded'
<1>1. next \in Nat \ {0} /\ Request' = Request
  BY IdsGrow DEF IInv, Request, Ids
<1>2. ASSUME NEW g \in Handlers
      PROVE  hs'[g] \in Request \cup {Free} /\ (hs'[g] # Free => Knows(hs'[g], users', invites', tokens'))
  <2>1. CASE g = h
    BY <2>1
  <2>2. CASE g # h /\ g \in late
    <3> DEFINE q == [hs[g] EXCEPT !.late = TRUE]
    <3>1. hs[g] \in Request /\ Knows(hs[g], users, invites, tokens)
      BY <2>2 DEF IInv, TypeOK, Loaded
    <3>2. q \in Request
      BY <3>1 DEF Request
    <3>3. /\ q.op = hs[g].op /\ q.at = hs[g].at /\ q.user = hs[g].user /\ q.org = hs[g].org
          /\ q.on = hs[g].on /\ q.email = hs[g].email
      BY <3>1 DEF Request
    <3>4. Knows(q, users, invites, tokens)
      BY <3>1, <3>3 DEF Knows
    <3>5. hs'[g] = q
      BY <2>2
    <3> HIDE DEF q
    <3>6. Knows(q, users', invites', tokens')
      BY <1>1, <3>2, <3>4, KnowsStays
    <3> QED
      BY <3>2, <3>5, <3>6
  <2>3. CASE g # h /\ g \notin late
    <3>1. hs'[g] = hs[g] /\ hs[g] \in Request \cup {Free}
      BY <2>3 DEF IInv, TypeOK
    <3>2. hs[g] # Free => Knows(hs[g], users, invites, tokens) /\ hs[g] \in Request
      BY DEF IInv, TypeOK, Loaded
    <3> QED
      BY <1>1, <3>1, <3>2, KnowsStays
  <2> QED
    BY <2>1, <2>2, <2>3
<1>3. hs' = [g \in Handlers |-> hs'[g]]
  OBVIOUS
<1> QED
  BY <1>1, <1>2, <1>3 DEF Loaded

(* A change of a member is committed. *)
LEMMA AfterChange ==
  ASSUME IInv, Kept, next' = next, NEW h \in Handlers, NEW on \in {0} \cup Ids,
         hs[h] \in Request, Changed(h, on)
  PROVE  /\ hs' \in [Handlers -> Request' \cup {Free}] /\ Loaded' /\ crossed' \in BOOLEAN
<1> DEFINE r == [ToAudit(hs[h].user) EXCEPT !.on = on]
<1> DEFINE late == {g \in Handlers : Deciding(g)}
<1>1. r \in Request
  BY DEF ToAudit, Blank, Request, Ops, Stages, Roles
<1>2. Knows(r, users', invites', tokens')
  BY DEF ToAudit, Blank, Knows
<1>3. hs' = [g \in Handlers |-> IF g = h THEN r
                               ELSE IF g \in late THEN [hs[g] EXCEPT !.late = TRUE] ELSE hs[g]]
  BY DEF Changed
<1>4. \A g \in late : hs[g] # Free
  BY DEF Deciding, Asked, At
<1>5. late \in SUBSET Handlers
  OBVIOUS
<1>6. crossed' \in BOOLEAN
  BY DEF Changed, IInv, TypeOK, Request
<1> HIDE DEF r, late
<1> QED
  BY <1>1, <1>2, <1>3, <1>4, <1>5, <1>6, RequestsAge

(* The same users, whose rows have changed. *)
LEMMA SameUsers ==
  ASSUME IInv, orgs' = orgs, next' = next, NEW Row,
         Row = [org : orgs, email : Emails, role : Roles, secret : Nat, via : {0} \cup Ids],
         users' \in [DOMAIN users -> Row],
         \A u \in DOMAIN users : users'[u].email = users[u].email
  PROVE  UsersOK' /\ DOMAIN users' = DOMAIN users
<1>1. Ids' = Ids /\ DOMAIN users' = DOMAIN users
  BY DEF Ids
<1>2. \A u, v \in DOMAIN users : users'[u].email = users'[v].email => u = v
  BY DEF IInv, TypeOK, UsersOK
<1> QED
  BY <1>1, <1>2 DEF IInv, TypeOK, UsersOK

LEMMA TypeRole ==
  ASSUME IInv, NEW h \in Handlers, CommitRole(h)
  PROVE  IInv'
<1>1. hs[h] \in Request /\ hs[h].on \in DOMAIN users
  BY DEF CommitRole, At, IInv, TypeOK
<1>2. /\ users' = [users EXCEPT ![hs[h].on].role = hs[h].to]
      /\ UNCHANGED <<orgs, sessions, papers, audits, next>> /\ Changed(h, hs[h].on)
  BY DEF CommitRole
<1>3. ASSUME NEW u \in DOMAIN users
      PROVE  /\ users'[u] \in [org : orgs, email : Emails, role : Roles, secret : Nat, via : {0} \cup Ids]
             /\ users'[u].org = users[u].org /\ users'[u].email = users[u].email
  <2>1. users[u] \in [org : orgs, email : Emails, role : Roles, secret : Nat, via : {0} \cup Ids]
    BY DEF IInv, TypeOK, UsersOK
  <2> QED
    BY <2>1, <1>1, <1>2 DEF Request
<1>4. UsersOK' /\ DOMAIN users' = DOMAIN users
  <2> DEFINE Row == [org : orgs, email : Emails, role : Roles, secret : Nat, via : {0} \cup Ids]
  <2>1. users' \in [DOMAIN users -> Row]
    BY <1>2, <1>3
  <2> HIDE DEF Row
  <2>2. Row = [org : orgs, email : Emails, role : Roles, secret : Nat, via : {0} \cup Ids]
    BY DEF Row
  <2> QED
    BY <1>2, <1>3, <2>1, <2>2, SameUsers
<1>5. Kept
  BY <1>2, <1>3, <1>4 DEF papers, Kept
<1>6. hs' \in [Handlers -> Request' \cup {Free}] /\ Loaded' /\ crossed' \in BOOLEAN
  BY <1>1, <1>2, <1>5, AfterChange DEF Request
<1>7. SessionsOK' /\ InvitesOK' /\ TokensOK' /\ audits' \subseteq DOMAIN users'
      /\ withdrawn \cup joined \cup missed \subseteq Ids'
  BY <1>2, <1>3, <1>4, TablesStay DEF papers
<1> QED
  BY <1>2, <1>4, <1>6, <1>7 DEF IInv, TypeOK, papers

LEMMA TypeReset ==
  ASSUME IInv, NEW h \in Handlers, CommitReset(h)
  PROVE  IInv'
<1>1. /\ hs[h] \in Request /\ hs[h].on \in DOMAIN tokens
      /\ hs[h].user = tokens[hs[h].on].user /\ hs[h].user \in DOMAIN users
  BY DEF CommitReset, At, IInv, TypeOK, Loaded, Knows, TokensOK
<1>2. /\ users' = [users EXCEPT ![hs[h].user].secret = @ + 1]
      /\ tokens' = [tokens EXCEPT ![hs[h].on].used = TRUE]
      /\ sessions' = Without(sessions, hs[h].swept)
      /\ UNCHANGED <<orgs, invites, withdrawn, joined, missed, audits, next, crossed>>
  BY DEF CommitReset
<1>3. ASSUME NEW u \in DOMAIN users
      PROVE  /\ users'[u] \in [org : orgs, email : Emails, role : Roles, secret : Nat, via : {0} \cup Ids]
             /\ users'[u].org = users[u].org /\ users'[u].email = users[u].email
  <2>1. users[u] \in [org : orgs, email : Emails, role : Roles, secret : Nat, via : {0} \cup Ids]
    BY DEF IInv, TypeOK, UsersOK
  <2> QED
    BY <2>1, <1>1, <1>2
<1>4. UsersOK' /\ DOMAIN users' = DOMAIN users
  <2> DEFINE Row == [org : orgs, email : Emails, role : Roles, secret : Nat, via : {0} \cup Ids]
  <2>1. users' \in [DOMAIN users -> Row]
    BY <1>2, <1>3
  <2> HIDE DEF Row
  <2>2. Row = [org : orgs, email : Emails, role : Roles, secret : Nat, via : {0} \cup Ids]
    BY DEF Row
  <2> QED
    BY <1>2, <1>3, <2>1, <2>2, SameUsers
<1>5. TokensOK' /\ DOMAIN tokens' = DOMAIN tokens
      /\ \A k \in DOMAIN tokens : tokens'[k].user = tokens[k].user
  BY <1>1, <1>2, <1>4 DEF IInv, TypeOK, TokensOK, Ids
<1>6. SessionsOK'
  BY <1>2, <1>4 DEF Without, IInv, TypeOK, SessionsOK, Ids
<1>7. Kept
  BY <1>2, <1>3, <1>4, <1>5 DEF Kept
<1>8. hs' \in [Handlers -> Request' \cup {Free}] /\ Loaded'
  BY <1>2, <1>7, FreeAgain DEF CommitReset
<1>9. InvitesOK' /\ audits' \subseteq DOMAIN users' /\ withdrawn \cup joined \cup missed \subseteq Ids'
  BY <1>2, <1>3, <1>4, TablesStay
<1> QED
  BY <1>2, <1>4, <1>5, <1>6, <1>8, <1>9 DEF IInv, TypeOK

LEMMA TypeSweep ==
  ASSUME IInv, NEW h \in Handlers, Sweep(h)
  PROVE  IInv'
<1> DEFINE u == hs[h].user
<1> DEFINE r == [hs[h] EXCEPT !.at = "commit", !.swept = Swept(u)]
<1> DEFINE late == {g \in Handlers : hs[g] # Free /\ hs[g].at = "login" /\ hs[g].on = u}
<1>1. /\ hs[h] \in Request /\ hs[h].op = "reset" /\ Knows(hs[h], users, invites, tokens)
      /\ UNCHANGED <<people, papers, audits, next, crossed>>
  BY DEF Sweep, At, IInv, TypeOK, Loaded
<1>2. Swept(u) \subseteq Ids
  BY DEF Swept, SessionsOf, IInv, TypeOK, SessionsOK
<1>3. r \in Request
  BY <1>1, <1>2 DEF Request, Stages
<1>4. r.at = "commit" /\ r.op = "reset" /\ r.on = hs[h].on /\ r.user = hs[h].user
  BY <1>1 DEF Request
<1>5. Knows(r, users', invites', tokens')
  BY <1>1, <1>4 DEF Knows, people, papers
<1>6. hs' = [g \in Handlers |-> IF g = h THEN r
                               ELSE IF g \in late THEN [hs[g] EXCEPT !.late = TRUE] ELSE hs[g]]
  BY DEF Sweep
<1>7. Kept
  BY <1>1 DEF people, papers, Kept
<1>8. late \in SUBSET Handlers /\ \A g \in late : hs[g] # Free
  OBVIOUS
<1>9. hs' \in [Handlers -> Request' \cup {Free}] /\ Loaded'
  <2> HIDE DEF r, late
  <2> QED
    BY <1>1, <1>3, <1>5, <1>6, <1>7, <1>8, RequestsAge
<1> QED
  BY <1>1, <1>9 DEF IInv, TypeOK, people, papers, UsersOK, SessionsOK, InvitesOK, TokensOK, Ids

(* Rows that go, and those that refer to them. *)
LEMMA RowsGo ==
  ASSUME IInv, next' = next, orgs' \subseteq orgs,
         NEW gone, NEW lost, Withdraw(lost), UNCHANGED <<joined, missed>>,
         users' = Without(users, gone),
         \A u \in DOMAIN users \ gone : users[u].org \in orgs',
         \A i \in DOMAIN invites \ lost : invites[i].org \in orgs' /\ invites[i].inviter \notin gone,
         sessions' = Without(sessions, SessionsOf(gone)) \/ (sessions' = sessions /\ SessionsOf(gone) = {}),
         tokens' = Without(tokens, TokensOf(gone)) \/ (tokens' = tokens /\ TokensOf(gone) = {})
  PROVE  /\ UsersOK' /\ SessionsOK' /\ InvitesOK' /\ TokensOK' /\ Kept
         /\ withdrawn' \cup joined' \cup missed' \subseteq Ids'
<1>1. Ids' = Ids
  BY DEF Ids
<1>2. DOMAIN users' = DOMAIN users \ gone /\ \A u \in DOMAIN users' : users'[u] = users[u]
  BY DEF Without
<1>3. UsersOK'
  <2> DEFINE Row == [org : orgs', email : Emails, role : Roles, secret : Nat, via : {0} \cup Ids]
  <2>1. \A u \in DOMAIN users' : users[u] \in Row
    BY <1>2 DEF IInv, TypeOK, UsersOK
  <2>2. users' \in [DOMAIN users' -> Row]
    BY <1>2, <2>1 DEF Without
  <2>3. \A u, v \in DOMAIN users' : users'[u].email = users'[v].email => u = v
    BY <1>2 DEF IInv, TypeOK, UsersOK
  <2>4. orgs' \subseteq Ids /\ DOMAIN users' \subseteq Ids
    BY <1>2 DEF IInv, TypeOK, UsersOK
  <2> QED
    BY <1>1, <2>2, <2>3, <2>4 DEF UsersOK
<1>4. SessionsOK'
  <2>1. DOMAIN sessions' = DOMAIN sessions \ SessionsOf(gone) /\ sessions' = Without(sessions, SessionsOf(gone))
    BY DEF Without, IInv, TypeOK, SessionsOK
  <2>2. \A s \in DOMAIN sessions' : sessions[s] \in [user : DOMAIN users', secret : Nat, late : BOOLEAN]
    BY <1>2, <2>1 DEF SessionsOf, IInv, TypeOK, SessionsOK
  <2>3. sessions' \in [DOMAIN sessions' -> [user : DOMAIN users', secret : Nat, late : BOOLEAN]]
    BY <2>1, <2>2 DEF Without
  <2> QED
    BY <1>1, <2>1, <2>3 DEF SessionsOK, IInv, TypeOK
<1>5. /\ TokensOK' /\ DOMAIN tokens' \subseteq DOMAIN tokens
      /\ \A k \in DOMAIN tokens' : tokens'[k] = tokens[k]
  <2>1. DOMAIN tokens' = DOMAIN tokens \ TokensOf(gone) /\ tokens' = Without(tokens, TokensOf(gone))
    BY DEF Without, IInv, TypeOK, TokensOK
  <2>2. \A k \in DOMAIN tokens' : tokens[k] \in [user : DOMAIN users', used : BOOLEAN]
    BY <1>2, <2>1 DEF TokensOf, IInv, TypeOK, TokensOK
  <2>3. tokens' \in [DOMAIN tokens' -> [user : DOMAIN users', used : BOOLEAN]]
    BY <2>1, <2>2 DEF Without
  <2>4. \A k \in DOMAIN tokens' : tokens'[k] = tokens[k]
    BY <2>1 DEF Without
  <2> QED
    BY <1>1, <2>1, <2>3, <2>4 DEF TokensOK, IInv, TypeOK
<1>6. /\ DOMAIN invites' = DOMAIN invites \ lost
      /\ \A i \in DOMAIN invites' : invites'[i] = invites[i]
  BY DEF Withdraw, Without
<1>7. InvitesOK'
  <2> DEFINE Row == [org : orgs', inviter : DOMAIN users', email : Emails, role : Roles, accepted : BOOLEAN]
  <2>1. ASSUME NEW i \in DOMAIN invites'
        PROVE  invites[i] \in Row /\ users'[invites[i].inviter].org = invites[i].org
    <3>1. /\ i \in DOMAIN invites \ lost
          /\ invites[i] \in [org : orgs, inviter : DOMAIN users, email : Emails, role : Roles,
                             accepted : BOOLEAN]
          /\ users[invites[i].inviter].org = invites[i].org
      BY <2>1, <1>6 DEF IInv, TypeOK, InvitesOK
    <3>2. invites[i].org \in orgs' /\ invites[i].inviter \in DOMAIN users'
      BY <3>1, <1>2
    <3>3. users'[invites[i].inviter] = users[invites[i].inviter]
      BY <3>2, <1>2
    <3> QED
      BY <3>1, <3>2, <3>3
  <2>2. invites' \in [DOMAIN invites' -> Row]
    BY <1>6, <2>1 DEF Withdraw, Without
  <2>3. \A i \in DOMAIN invites' : users'[invites'[i].inviter].org = invites'[i].org
    BY <1>6, <2>1
  <2>4. DOMAIN invites' \subseteq Ids
    BY <1>6 DEF IInv, TypeOK, InvitesOK
  <2> QED
    BY <1>1, <2>2, <2>3, <2>4 DEF InvitesOK
<1>8. Kept
  BY <1>2, <1>5, <1>6 DEF Kept
<1>9. withdrawn' \cup joined' \cup missed' \subseteq Ids'
  BY <1>1 DEF Withdraw, IInv, TypeOK, InvitesOK
<1> QED
  BY <1>3, <1>4, <1>5, <1>7, <1>8, <1>9

LEMMA TypeRevoke ==
  ASSUME IInv, NEW h \in Handlers, CommitRevoke(h)
  PROVE  IInv'
<1>1. /\ UNCHANGED <<people, tokens, joined, missed, audits, next, crossed>> /\ Finish(h)
      /\ Withdraw({hs[h].on})
  BY DEF CommitRevoke
<1>2. users' = Without(users, {}) /\ SessionsOf({}) = {} /\ TokensOf({}) = {}
  BY <1>1 DEF Without, people, SessionsOf, TokensOf, IInv, TypeOK, UsersOK
<1>3. /\ \A u \in DOMAIN users : users[u].org \in orgs
      /\ \A i \in DOMAIN invites : invites[i].org \in orgs
  BY DEF IInv, TypeOK, UsersOK, InvitesOK
<1>4. /\ UsersOK' /\ SessionsOK' /\ InvitesOK' /\ TokensOK' /\ Kept
      /\ withdrawn' \cup joined' \cup missed' \subseteq Ids'
  <2>1. orgs' = orgs /\ sessions' = sessions /\ tokens' = tokens /\ next' = next /\ UNCHANGED <<joined, missed>>
    BY <1>1 DEF people
  <2> QED
    BY <1>1, <1>2, <1>3, <2>1, RowsGo
<1>5. hs' \in [Handlers -> Request' \cup {Free}] /\ Loaded'
  BY <1>1, <1>4, FreeAgain
<1> QED
  BY <1>1, <1>4, <1>5 DEF IInv, TypeOK, people

LEMMA TypeRemove ==
  ASSUME IInv, NEW h \in Handlers, CommitRemove(h)
  PROVE  IInv'
<1> DEFINE t == hs[h].on
<1>1. /\ t \notin audits /\ TokensOf({t}) = {} /\ Withdraw(InvitesBy({t}))
      /\ sessions' = Without(sessions, SessionsOf({t})) /\ users' = Without(users, {t})
      /\ Changed(h, 0) /\ UNCHANGED <<orgs, tokens, joined, missed, audits, next>>
  BY DEF CommitRemove
<1>2. hs[h] \in Request
  BY DEF CommitRemove, At, IInv, TypeOK
<1>3. /\ \A u \in DOMAIN users : users[u].org \in orgs
      /\ \A i \in DOMAIN invites \ InvitesBy({t}) : invites[i].org \in orgs /\ invites[i].inviter \notin {t}
  BY DEF IInv, TypeOK, UsersOK, InvitesOK, InvitesBy
<1>4. /\ UsersOK' /\ SessionsOK' /\ InvitesOK' /\ TokensOK' /\ Kept
      /\ withdrawn' \cup joined' \cup missed' \subseteq Ids'
  <2> HIDE DEF t
  <2>1. orgs' = orgs /\ tokens' = tokens /\ next' = next /\ UNCHANGED <<joined, missed>>
    BY <1>1
  <2> QED
    BY <1>1, <1>3, <2>1, RowsGo
<1>5. hs' \in [Handlers -> Request' \cup {Free}] /\ Loaded' /\ crossed' \in BOOLEAN
  BY <1>1, <1>2, <1>4, AfterChange
<1>6. audits' \subseteq DOMAIN users'
  BY <1>1 DEF Without, IInv, TypeOK
<1> QED
  BY <1>1, <1>4, <1>5, <1>6 DEF IInv, TypeOK

(* What is left refers to nothing that left with the organisation.          *)
LEMMA LeaveOK ==
  ASSUME IInv, NEW o, Leave(o), next' = next, UNCHANGED <<joined, missed>>,
         tokens' = Without(tokens, TokensOf(Members(o)))
  PROVE  /\ UsersOK' /\ SessionsOK' /\ InvitesOK' /\ TokensOK' /\ Kept
         /\ withdrawn' \cup joined' \cup missed' \subseteq Ids'
         /\ DOMAIN users' = DOMAIN users \ Members(o)
<1> DEFINE lost == {i \in DOMAIN invites : invites[i].org = o}
<1> DEFINE gone == Members(o)
<1>1. /\ orgs' = orgs \ {o} /\ users' = Without(users, gone)
      /\ sessions' = Without(sessions, SessionsOf(gone)) /\ Withdraw(lost)
  BY DEF Leave
<1>2. \A u \in DOMAIN users \ gone : users[u].org \in orgs'
  BY <1>1 DEF Members, IInv, TypeOK, UsersOK
<1>3. \A i \in DOMAIN invites \ lost : invites[i].org \in orgs' /\ invites[i].inviter \notin gone
  BY <1>1 DEF Members, IInv, TypeOK, InvitesOK
<1>4. DOMAIN users' = DOMAIN users \ gone
  BY <1>1 DEF Without
<1> HIDE DEF lost, gone
<1>5. tokens' = Without(tokens, TokensOf(gone))
  BY DEF gone
<1>6. /\ UsersOK' /\ SessionsOK' /\ InvitesOK' /\ TokensOK' /\ Kept
      /\ withdrawn' \cup joined' \cup missed' \subseteq Ids'
  BY <1>1, <1>2, <1>3, <1>5, RowsGo
<1> QED
  BY <1>4, <1>6 DEF gone

LEMMA TypeDelete ==
  ASSUME IInv, NEW h \in Handlers, CommitDelete(h)
  PROVE  IInv'
<1> DEFINE o == hs[h].org
<1>1. /\ Leave(o) /\ tokens' = Without(tokens, TokensOf(Members(o)))
      /\ audits' = audits \ Members(o) /\ Finish(h) /\ UNCHANGED <<joined, missed, next, crossed>>
  BY DEF CommitDelete
<1>2. /\ UsersOK' /\ SessionsOK' /\ InvitesOK' /\ TokensOK' /\ Kept
      /\ withdrawn' \cup joined' \cup missed' \subseteq Ids' /\ DOMAIN users' = DOMAIN users \ Members(o)
  BY <1>1, LeaveOK
<1>3. hs' \in [Handlers -> Request' \cup {Free}] /\ Loaded'
  BY <1>1, <1>2, FreeAgain
<1> QED
  BY <1>1, <1>2, <1>3 DEF IInv, TypeOK

-----------------------------------------------------------------------------
(* Types, and what requests know, are kept by every step. *)
LEMMA TypeStep ==
  ASSUME IInv, [Next]_vars
  PROVE  IInv'
<1>1. ASSUME NEW h \in Handlers, MembersNext(h) \/ InvitesNext(h) \/ SessionsNext(h) \/ OtherNext(h)
      PROVE  IInv'
  BY <1>1, TypeEnter, TypeCall, TypeAudit, TypeRole, TypeRemove, TypeRegister, TypeInvite, TypeRevoke,
     TypeAccept, TypeOpen, TypeSignup, TypeForgot, TypeSweep, TypeReset, TypeDelete
     DEF MembersNext, InvitesNext, SessionsNext, OtherNext
<1>2. CASE UNCHANGED vars
  BY <1>2 DEF vars, people, papers, IInv, TypeOK, UsersOK, SessionsOK, InvitesOK, TokensOK, Request, Ids, Loaded
<1> QED
  BY <1>1, <1>2 DEF Next

LEMMA TypeInit ==
  ASSUME Init
  PROVE  IInv
<1>1. next \in 1 .. MaxId + 1
  BY AccountsAssumption DEF Init
<1>2. UsersOK /\ SessionsOK /\ InvitesOK /\ TokensOK
  BY DEF Init, UsersOK, SessionsOK, InvitesOK, TokensOK
<1> QED
  BY <1>1, <1>2 DEF Init, IInv, TypeOK, Loaded

(* The references that the database enforces are consistent for any number  *)
(* of handlers, rows and organisations.                                     *)
THEOREM TypeCorrect == Spec => []TypeOK
<1>1. Init => IInv
  BY TypeInit
<1>2. IInv /\ [Next]_vars => IInv'
  BY TypeStep
<1>3. IInv => TypeOK
  BY DEF IInv
<1> QED
  BY <1>1, <1>2, <1>3, PTL DEF Spec

-----------------------------------------------------------------------------
(* Invitations.  A request to accept one was there before it was withdrawn; *)
(* it finds no row when it commits.                                         *)
WInv ==
  /\ withdrawn \cap joined = {} /\ withdrawn \cap DOMAIN invites = {}
  /\ \A i \in joined \cap DOMAIN invites : invites[i].accepted

(* Deleting invitations puts none of them in both histories.                *)
LEMMA WithdrawKeeps ==
  ASSUME WInv, NEW gone, Withdraw(gone), UNCHANGED <<joined, missed>>
  PROVE  WInv'
BY DEF WInv, Withdraw, Without

(* The steps that leave the invitations alone.                              *)
LEMMA PapersOnly ==
  ASSUME NEW h \in Handlers,
         \/ LookRole(h) \/ CommitRole(h) \/ LookRemove(h) \/ LookRegister(h) \/ CommitRegister(h)
         \/ CountMembers(h) \/ LookInvite(h) \/ LookRevoke(h) \/ LookAccept(h) \/ SessionsNext(h)
         \/ Enter(h) \/ Die(h) \/ Audit(h) \/ Edit(h) \/ SpendCode(h)
  PROVE  UNCHANGED <<invites, withdrawn, joined, missed>>
BY DEF LookRole, CommitRole, LookRemove, LookRegister, CommitRegister, CountMembers, LookInvite, LookRevoke,
       LookAccept, SessionsNext, Login, Verify, OpenSession, LookSignup, CommitSignup, LookForgot, CommitForgot, LookReset,
       Sweep, CommitReset, Enter, Die, Audit, Edit, SpendCode, papers

(* WInv is inductive.                                                       *)
LEMMA WithdrawnStep ==
  ASSUME IInv, WInv, [Next]_vars
  PROVE  WInv'
<1>1. CASE UNCHANGED <<invites, withdrawn, joined>>
  BY <1>1 DEF WInv
<1>2. ASSUME NEW h \in Handlers, CommitInvite(h) PROVE WInv'
  <2>1. next \notin Ids
    BY IdsGrow, <1>2 DEF IInv, CommitInvite, NewId
  <2>2. next \notin withdrawn /\ next \notin joined
    BY <2>1 DEF IInv, TypeOK
  <2>3. DOMAIN invites' = DOMAIN invites \cup {next} /\ UNCHANGED <<withdrawn, joined>>
    BY <1>2 DEF CommitInvite, With
  <2>4. \A i \in DOMAIN invites \ {next} : invites'[i] = invites[i]
    BY <1>2 DEF CommitInvite, With
  <2> QED
    BY <2>2, <2>3, <2>4 DEF WInv
<1>3. ASSUME NEW h \in Handlers, CommitAccept(h) PROVE WInv'
  <2>1. /\ hs[h].on \in DOMAIN invites /\ invites' = [invites EXCEPT ![hs[h].on].accepted = TRUE]
        /\ joined' = joined \cup {hs[h].on} /\ withdrawn' = withdrawn
    BY <1>3 DEF CommitAccept, StillThere
  <2>2. invites[hs[h].on] \in [org : orgs, inviter : DOMAIN users, email : Emails, role : Roles,
                              accepted : BOOLEAN]
    BY <2>1 DEF IInv, TypeOK, InvitesOK
  <2>3. DOMAIN invites' = DOMAIN invites /\ invites'[hs[h].on].accepted
    BY <2>1, <2>2
  <2>4. \A i \in DOMAIN invites \ {hs[h].on} : invites'[i] = invites[i]
    BY <2>1
  <2> QED
    BY <2>1, <2>3, <2>4 DEF WInv
<1>4. ASSUME NEW h \in Handlers, CommitRemove(h) PROVE WInv'
  BY <1>4, WithdrawKeeps DEF CommitRemove
<1>5. ASSUME NEW h \in Handlers, CommitRevoke(h) PROVE WInv'
  BY <1>5, WithdrawKeeps DEF CommitRevoke
<1>6. ASSUME NEW h \in Handlers, CommitDelete(h) PROVE WInv'
  BY <1>6, WithdrawKeeps DEF CommitDelete, Leave
<1>8. ASSUME NEW h \in Handlers, MembersNext(h) \/ InvitesNext(h) \/ SessionsNext(h) \/ OtherNext(h)
      PROVE  WInv'
  BY <1>1, <1>2, <1>3, <1>4, <1>5, <1>6, <1>8, PapersOnly DEF MembersNext, InvitesNext, OtherNext
<1> QED
  BY <1>1, <1>8 DEF Next, vars, papers

(* Nobody joins by an invitation that was withdrawn. *)
THEOREM Withdrawn == Spec => []WithdrawnNeverJoins
<1>1. Init => IInv /\ WInv
  BY TypeInit DEF Init, WInv
<1>2. IInv /\ WInv /\ [Next]_vars => IInv' /\ WInv'
  BY TypeStep, WithdrawnStep
<1>3. WInv => WithdrawnNeverJoins
  BY DEF WInv, WithdrawnNeverJoins
<1> QED
  BY <1>1, <1>2, <1>3, PTL DEF Spec

-----------------------------------------------------------------------------
(* Sessions.  A request that logs in has compared the password that is      *)
(* stored, unless it is late; a reset that has swept the sessions leaves    *)
(* only late ones to come.                                                  *)
Current(r, us) ==
  /\ r.at = "login" /\ r.on \in DOMAIN us => r.late \/ r.secret = us[r.on].secret
  /\ r.at = "verify" => r.secret = 0

SInv ==
  /\ SessionsCurrent
  /\ \A h \in Handlers : hs[h] # Free => Current(hs[h], users)
  /\ \A g \in Handlers : At(g, "reset", "commit") =>
       \A s \in SessionsOf({hs[g].user}) : s \in hs[g].swept \/ sessions[s].late
  /\ \A g, h \in Handlers : At(g, "reset", "commit") /\ hs[h] # Free /\ hs[h].at = "login"
       /\ hs[h].on = hs[g].user => hs[h].late

(* A request that neither logs in nor has swept sessions. *)
Apart(r) ==
  r # Free => /\ r.at # "login" /\ ~(r.op = "reset" /\ r.at = "commit")
              /\ r.at = "verify" => r.secret = 0

(* A request that is not about to change a member. *)
Idle(r) == r # Free => r.at # "look" /\ ~(r.op \in {"role", "remove"} /\ r.at = "commit")

(* A request that neither counts seats nor is about to take one. *)
Seatless(r) == r # Free => r.at # "count" /\ ~(r.op \in {"accept", "invite"} /\ r.at = "commit")

(* A step that changes no password, opens no session and moves no login or  *)
(* reset.                                                                   *)
LEMMA SessionsKept ==
  ASSUME IInv, IInv', SInv,
         \A u \in DOMAIN users' \ {next} : u \in DOMAIN users /\ users'[u].secret = users[u].secret,
         \A s \in DOMAIN sessions' : s \in DOMAIN sessions /\ sessions'[s] = sessions[s],
         \A g \in Handlers : hs'[g] = hs[g] \/ Apart(hs'[g])
  PROVE  SInv'
<1>1. next \notin Ids /\ next \in Nat \ {0}
  <2>1. next \in Nat \ {0}
    BY AccountsAssumption DEF IInv, TypeOK
  <2> QED
    BY <2>1 DEF Ids
<1>2. SessionsCurrent'
  <2>1. ASSUME NEW s \in DOMAIN sessions'
        PROVE  sessions'[s].late \/ sessions'[s].secret = users'[sessions'[s].user].secret
    <3> DEFINE u == sessions[s].user
    <3>1. s \in DOMAIN sessions /\ sessions'[s] = sessions[s]
      BY <2>1
    <3>2. u \in Ids /\ u \in DOMAIN users'
      BY <2>1, <3>1 DEF IInv, TypeOK, SessionsOK, UsersOK
    <3>3. users'[u].secret = users[u].secret
      BY <3>2, <1>1
    <3> QED
      BY <3>1, <3>3 DEF SInv, SessionsCurrent
  <2> QED
    BY <2>1 DEF SessionsCurrent
<1>3. ASSUME NEW h \in Handlers, hs'[h] # Free PROVE Current(hs'[h], users')
  <2>2. hs'[h].at = "verify" => hs'[h].secret = 0
    BY <1>3 DEF Apart, SInv, Current
  <2>1. CASE hs'[h].at = "login" /\ hs'[h].on \in DOMAIN users'
    <3>1. hs'[h] = hs[h]
      BY <2>1, <1>3 DEF Apart
    <3>2. hs[h] \in Request /\ Current(hs[h], users)
      BY <3>1, <1>3 DEF IInv, TypeOK, SInv
    <3>3. hs[h].on # next
      BY <3>2, <1>1 DEF Request
    <3> QED
      BY <2>1, <2>2, <3>1, <3>2, <3>3 DEF Current
  <2> QED
    BY <2>1, <2>2 DEF Current
<1>4. ASSUME NEW g \in Handlers, At(g, "reset", "commit")'
      PROVE  hs'[g] = hs[g] /\ At(g, "reset", "commit")
  BY <1>4 DEF At, Apart
<1>5. ASSUME NEW g \in Handlers, At(g, "reset", "commit")', NEW s \in SessionsOf({hs[g].user})'
      PROVE  s \in hs'[g].swept \/ sessions'[s].late
  BY <1>4, <1>5 DEF SInv, SessionsOf
<1>6. ASSUME NEW g \in Handlers, NEW h \in Handlers, At(g, "reset", "commit")',
             hs'[h] # Free, hs'[h].at = "login", hs'[h].on = hs'[g].user
      PROVE  hs'[h].late
  <2>1. hs'[h] = hs[h]
    BY <1>6 DEF Apart
  <2> QED
    BY <1>4, <1>6, <2>1 DEF SInv
<1> QED
  BY <1>2, <1>3, <1>5, <1>6 DEF SInv

(* A login compares the password that is stored. *)
LEMMA SessionsLogin ==
  ASSUME IInv, SInv, NEW h \in Handlers, NEW r, Become(h, r), UNCHANGED <<users, sessions>>,
         r.at = "login", r.on \in DOMAIN users, r.secret = users[r.on].secret, r.late = Resetting(r.on),
         ~At(h, "reset", "commit")
  PROVE  SInv'
<1>1. hs'[h] = r /\ \A g \in Handlers \ {h} : hs'[g] = hs[g]
  BY DEF Become, IInv, TypeOK
<1>2. ASSUME NEW g \in Handlers, At(g, "reset", "commit")'
      PROVE  g # h /\ hs'[g] = hs[g] /\ At(g, "reset", "commit")
  BY <1>1, <1>2 DEF At
<1>3. SessionsCurrent'
  BY DEF SInv, SessionsCurrent
<1>4. \A g \in Handlers : hs'[g] # Free => Current(hs'[g], users')
  BY <1>1 DEF SInv, Current
<1>5. \A g \in Handlers : At(g, "reset", "commit")' =>
        \A s \in SessionsOf({hs'[g].user}) : s \in hs'[g].swept \/ sessions[s].late
  BY <1>2 DEF SInv
<1>6. ASSUME NEW g \in Handlers, NEW f \in Handlers, At(g, "reset", "commit")',
             hs'[f] # Free, hs'[f].at = "login", hs'[f].on = hs'[g].user
      PROVE  hs'[f].late
  BY <1>1, <1>2, <1>6 DEF SInv, Resetting
<1> QED
  BY <1>3, <1>4, <1>5, <1>6 DEF SInv, SessionsOf

(* The session that is opened is as current as the login was. *)
LEMMA SessionsOpened ==
  ASSUME IInv, SInv, NEW h \in Handlers, OpenSession(h)
  PROVE  SInv'
<1> DEFINE row == [user |-> hs[h].on, secret |-> hs[h].secret, late |-> hs[h].late]
<1>1. next \notin DOMAIN sessions /\ UNCHANGED users
  BY IdsGrow DEF OpenSession, NewId, IInv, TypeOK, SessionsOK
<1>2. /\ DOMAIN sessions' = DOMAIN sessions \cup {next} /\ sessions'[next] = row
      /\ \A s \in DOMAIN sessions : sessions'[s] = sessions[s]
  BY <1>1 DEF OpenSession, With
<1>3. hs[h] # Free /\ hs[h].at = "login" /\ hs[h].on \in DOMAIN users /\ Current(hs[h], users)
  BY DEF OpenSession, SInv
<1>4. \A g \in Handlers : (hs'[g] = hs[g] /\ g # h) \/ Apart(hs'[g])
  BY DEF OpenSession, Become, Finish, ToAudit, Blank, Apart, IInv, TypeOK
<1>5. ASSUME NEW g \in Handlers, At(g, "reset", "commit")'
      PROVE  hs'[g] = hs[g] /\ At(g, "reset", "commit")
  BY <1>4, <1>5 DEF At, Apart
<1>6. SessionsCurrent'
  BY <1>1, <1>2, <1>3 DEF SInv, SessionsCurrent, Current
<1>7. \A g \in Handlers : hs'[g] # Free => Current(hs'[g], users')
  BY <1>1, <1>4 DEF SInv, Current, Apart
<1>8. ASSUME NEW g \in Handlers, At(g, "reset", "commit")', NEW s \in DOMAIN sessions',
             sessions'[s].user = hs'[g].user
      PROVE  s \in hs'[g].swept \/ sessions'[s].late
  <2>1. CASE s = next
    BY <1>2, <1>3, <1>5, <1>8, <2>1 DEF SInv
  <2>2. CASE s \in DOMAIN sessions
    BY <1>2, <1>5, <1>8, <2>2 DEF SInv, SessionsOf
  <2> QED
    BY <1>2, <2>1, <2>2
<1>9. ASSUME NEW g \in Handlers, NEW f \in Handlers, At(g, "reset", "commit")',
             hs'[f] # Free, hs'[f].at = "login", hs'[f].on = hs'[g].user
      PROVE  hs'[f].late
  <2>1. hs'[f] = hs[f]
    BY <1>4, <1>9 DEF Apart
  <2> QED
    BY <1>5, <1>9, <2>1 DEF SInv
<1> QED
  BY <1>6, <1>7, <1>8, <1>9 DEF SInv, SessionsOf

(* A reset that sweeps the sessions makes the logins under way late. *)
LEMMA SessionsSwept ==
  ASSUME IInv, SInv, NEW h \in Handlers, Sweep(h)
  PROVE  SInv'
<1> DEFINE u == hs[h].user
<1>1. UNCHANGED <<users, sessions>>
  BY DEF Sweep, people
<1>2. hs[h] \in Request /\ hs[h].op = "reset" /\ hs[h].at = "sweep"
  BY DEF Sweep, At, IInv, TypeOK
<1>3. /\ hs'[h].at = "commit" /\ hs'[h].op = "reset" /\ hs'[h].user = u
      /\ hs'[h].swept = SessionsOf({u})
  BY <1>2 DEF Sweep, Swept, Request
<1>4. ASSUME NEW g \in Handlers, g # h, hs'[g] # hs[g]
      PROVE  /\ hs[g] # Free /\ hs'[g].at = "login" /\ hs'[g].late /\ hs[g].on = u
  <2>1. hs[g] # Free /\ hs[g].at = "login" /\ hs[g].on = u /\ hs'[g] = [hs[g] EXCEPT !.late = TRUE]
    BY <1>4 DEF Sweep
  <2>2. hs[g] \in Request
    BY <2>1 DEF IInv, TypeOK
  <2> QED
    BY <2>1, <2>2 DEF Request
<1>5. ASSUME NEW g \in Handlers, g # h, hs[g] # Free, hs[g].at = "login", hs[g].on = u
      PROVE  hs'[g].late
  <2>1. hs'[g] = [hs[g] EXCEPT !.late = TRUE]
    BY <1>5 DEF Sweep
  <2>2. hs[g] \in Request
    BY <1>5 DEF IInv, TypeOK
  <2> QED
    BY <2>1, <2>2 DEF Request
<1>6. SessionsCurrent'
  BY <1>1 DEF SInv, SessionsCurrent
<1>7. \A g \in Handlers : hs'[g] # Free => Current(hs'[g], users')
  BY <1>1, <1>3, <1>4 DEF SInv, Current
<1>8. ASSUME NEW g \in Handlers, At(g, "reset", "commit")', g # h
      PROVE  hs'[g] = hs[g] /\ At(g, "reset", "commit")
  BY <1>4, <1>8 DEF At
<1>9. ASSUME NEW g \in Handlers, At(g, "reset", "commit")', NEW s \in DOMAIN sessions,
             sessions[s].user = hs'[g].user
      PROVE  s \in hs'[g].swept \/ sessions[s].late
  BY <1>3, <1>8, <1>9 DEF SInv, SessionsOf
<1>10. ASSUME NEW g \in Handlers, NEW f \in Handlers, At(g, "reset", "commit")',
              hs'[f] # Free, hs'[f].at = "login", hs'[f].on = hs'[g].user
       PROVE  hs'[f].late
  <2>1. f # h
    BY <1>3, <1>10
  <2>2. CASE hs'[f] # hs[f]
    BY <1>4, <2>1, <2>2
  <2>3. CASE hs'[f] = hs[f] /\ g = h
    BY <1>3, <1>5, <1>10, <2>1, <2>3
  <2>4. CASE hs'[f] = hs[f] /\ g # h
    BY <1>8, <1>10, <2>4 DEF SInv
  <2> QED
    BY <2>2, <2>3, <2>4
<1> QED
  BY <1>1, <1>6, <1>7, <1>9, <1>10 DEF SInv, SessionsOf

(* The reset is committed: what it did not sweep is late. *)
LEMMA SessionsReset ==
  ASSUME IInv, SInv, NEW h \in Handlers, CommitReset(h)
  PROVE  SInv'
<1> DEFINE u == hs[h].user
<1>1. At(h, "reset", "commit")
  BY DEF CommitReset
<1>2. /\ DOMAIN sessions' \subseteq DOMAIN sessions \ hs[h].swept
      /\ \A s \in DOMAIN sessions' : sessions'[s] = sessions[s]
  BY DEF CommitReset, Without
<1>3. DOMAIN users' = DOMAIN users /\ \A v \in DOMAIN users \ {u} : users'[v] = users[v]
  BY DEF CommitReset
<1>4. \A g \in Handlers : (g # h /\ hs'[g] = hs[g]) \/ hs'[g] = Free
  BY DEF CommitReset, Finish, Become, IInv, TypeOK
<1>5. \A s \in DOMAIN sessions' : sessions[s].user = u => sessions[s].late
  BY <1>1, <1>2 DEF SInv, SessionsOf
<1>6. SessionsCurrent'
  <2>1. \A s \in DOMAIN sessions : sessions[s].user \in DOMAIN users
    BY DEF IInv, TypeOK, SessionsOK
  <2> QED
    BY <1>2, <1>3, <1>5, <2>1 DEF SInv, SessionsCurrent
<1>7. \A g \in Handlers : hs'[g] # Free => Current(hs'[g], users')
  BY <1>1, <1>3, <1>4 DEF SInv, Current
<1>8. ASSUME NEW g \in Handlers, At(g, "reset", "commit")'
      PROVE  hs'[g] = hs[g] /\ At(g, "reset", "commit")
  BY <1>4, <1>8 DEF At
<1>9. ASSUME NEW g \in Handlers, At(g, "reset", "commit")', NEW s \in DOMAIN sessions',
             sessions'[s].user = hs'[g].user
      PROVE  s \in hs'[g].swept \/ sessions'[s].late
  BY <1>2, <1>8, <1>9 DEF SInv, SessionsOf
<1>10. ASSUME NEW g \in Handlers, NEW f \in Handlers, At(g, "reset", "commit")',
              hs'[f] # Free, hs'[f].at = "login", hs'[f].on = hs'[g].user
       PROVE  hs'[f].late
  BY <1>4, <1>8, <1>10 DEF SInv
<1> QED
  BY <1>6, <1>7, <1>9, <1>10 DEF SInv, SessionsOf

(* The other steps open no session and change no password. *)
LEMMA Looks ==
  ASSUME IInv, NEW h \in Handlers,
         Enter(h) \/ Die(h) \/ Edit(h) \/ LookRole(h) \/ LookRemove(h) \/ LookRegister(h) \/ CountMembers(h)
           \/ LookInvite(h) \/ LookRevoke(h) \/ LookAccept(h) \/ LookSignup(h) \/ LookForgot(h) \/ LookReset(h) \/ SpendCode(h)
  PROVE  /\ UNCHANGED people
         /\ \A g \in Handlers : hs'[g] = hs[g] \/ Apart(hs'[g])
         /\ Enter(h) \/ LookRole(h) \/ LookRemove(h) \/ \A g \in Handlers : hs'[g] = hs[g] \/ Idle(hs'[g])
         /\ \/ CountMembers(h) \/ LookInvite(h) \/ LookAccept(h)
            \/ \A g \in Handlers : hs'[g] = hs[g] \/ Seatless(hs'[g])
<1>0. UNCHANGED <<people, papers, audits, next, crossed>>
  BY DEF Enter, Die, Edit, LookRole, LookRemove, LookRegister, CountMembers, LookInvite, LookRevoke, LookAccept,
         LookSignup, LookForgot, LookReset, SpendCode
<1>1. UNCHANGED people
  BY <1>0 DEF people
<1>2. ASSUME NEW r, Become(h, r)
      PROVE  /\ Apart(r) => \A g \in Handlers : hs'[g] = hs[g] \/ Apart(hs'[g])
             /\ Idle(r) => \A g \in Handlers : hs'[g] = hs[g] \/ Idle(hs'[g])
             /\ Seatless(r) => \A g \in Handlers : hs'[g] = hs[g] \/ Seatless(hs'[g])
  BY <1>2 DEF Become, IInv, TypeOK
<1>3. Asked(h) => hs[h] \in Request
  BY DEF Asked, At, IInv, TypeOK
<1>4. CASE Enter(h)
  <2>1. PICK s \in DOMAIN sessions :
          Begin(h, [Blank("call", "look") EXCEPT !.user = sessions[s].user, !.org = users[sessions[s].user].org,
                                         !.role = users[sessions[s].user].role])
    BY <1>4 DEF Enter
  <2> DEFINE r == [Blank("call", "look") EXCEPT !.user = sessions[s].user, !.org = users[sessions[s].user].org,
                                         !.role = users[sessions[s].user].role]
  <2>2. Apart(r) /\ Seatless(r)
    BY DEF Blank, Apart, Seatless
  <2>3. Become(h, r)
    BY <2>1 DEF Begin
  <2> HIDE DEF r
  <2> QED
    BY <1>1, <1>2, <1>4, <2>2, <2>3
<1>5. CASE Die(h) \/ Edit(h)
  <2>1. hs' = [hs EXCEPT ![h] = Free] \/ hs' = [hs EXCEPT ![h] = ToAudit(hs[h].user)]
    BY <1>5 DEF Die, Edit, Finish, Become
  <2>2. /\ Apart(Free) /\ Idle(Free) /\ Seatless(Free)
        /\ Apart(ToAudit(hs[h].user)) /\ Idle(ToAudit(hs[h].user)) /\ Seatless(ToAudit(hs[h].user))
    BY DEF ToAudit, Blank, Apart, Idle, Seatless
  <2> QED
    BY <1>1, <1>2, <2>1, <2>2 DEF Become
<1>6. CASE LookRole(h)
  <2>1. PICK t \in DOMAIN users, q \in Roles :
          \/ Become(h, [ToAudit(hs[h].user) EXCEPT !.on = t])
          \/ Become(h, [hs[h] EXCEPT !.op = "role", !.at = "commit", !.on = t, !.to = q])
    BY <1>6 DEF LookRole
  <2> DEFINE r1 == [ToAudit(hs[h].user) EXCEPT !.on = t]
  <2> DEFINE r2 == [hs[h] EXCEPT !.op = "role", !.at = "commit", !.on = t, !.to = q]
  <2>2. Apart(r1) /\ Apart(r2) /\ Seatless(r1) /\ Seatless(r2)
    BY <1>3, <1>6 DEF LookRole, Request, ToAudit, Blank, Apart, Seatless
  <2>3. Become(h, r1) \/ Become(h, r2)
    BY <2>1
  <2> HIDE DEF r1, r2
  <2> QED
    BY <1>1, <1>2, <1>6, <2>2, <2>3
<1>7. CASE LookRemove(h)
  <2>1. PICK t \in DOMAIN users :
          Become(h, [hs[h] EXCEPT !.op = "remove", !.at = "commit", !.on = t])
    BY <1>7 DEF LookRemove
  <2> DEFINE r == [hs[h] EXCEPT !.op = "remove", !.at = "commit", !.on = t]
  <2>2. Apart(r) /\ Seatless(r)
    BY <1>3, <1>7 DEF LookRemove, Request, Apart, Seatless
  <2>3. Become(h, r)
    BY <2>1
  <2> HIDE DEF r
  <2> QED
    BY <1>1, <1>2, <1>7, <2>2, <2>3
<1>8. CASE LookRegister(h)
  <2>1. PICK e \in Emails, q \in Roles :
          Become(h, [Blank("register", "commit") EXCEPT !.org = hs[h].org, !.email = e, !.to = q])
    BY <1>8 DEF LookRegister
  <2> DEFINE r == [Blank("register", "commit") EXCEPT !.org = hs[h].org, !.email = e, !.to = q]
  <2>2. Apart(r) /\ Idle(r) /\ Seatless(r)
    BY DEF Blank, Apart, Idle, Seatless
  <2>3. Become(h, r)
    BY <2>1
  <2> HIDE DEF r
  <2> QED
    BY <1>1, <1>2, <2>2, <2>3
<1>9. CASE LookInvite(h)
  <2>1. PICK e \in Emails, q \in Roles :
          Become(h, [Blank("invite", "commit") EXCEPT !.user = hs[h].user, !.org = hs[h].org,
                                              !.email = e, !.to = q])
    BY <1>9 DEF LookInvite
  <2> DEFINE r == [Blank("invite", "commit") EXCEPT !.user = hs[h].user, !.org = hs[h].org,
                                              !.email = e, !.to = q]
  <2>2. Apart(r) /\ Idle(r)
    BY DEF Blank, Apart, Idle
  <2>3. Become(h, r)
    BY <2>1
  <2> HIDE DEF r
  <2> QED
    BY <1>1, <1>2, <1>9, <2>2, <2>3
<1>10. CASE LookRevoke(h)
  <2>1. PICK i \in DOMAIN invites :
          Become(h, [Blank("revoke", "commit") EXCEPT !.on = i])
    BY <1>10 DEF LookRevoke
  <2> DEFINE r == [Blank("revoke", "commit") EXCEPT !.on = i]
  <2>2. Apart(r) /\ Idle(r) /\ Seatless(r)
    BY DEF Blank, Apart, Idle, Seatless
  <2>3. Become(h, r)
    BY <2>1
  <2> HIDE DEF r
  <2> QED
    BY <1>1, <1>2, <2>2, <2>3
<1>11. CASE LookAccept(h)
  <2>1. PICK i \in DOMAIN invites :
          Begin(h, [Blank("accept", "commit") EXCEPT !.on = i, !.org = invites[i].org,
                                              !.to = invites[i].role, !.email = invites[i].email])
    BY <1>11 DEF LookAccept
  <2> DEFINE r == [Blank("accept", "commit") EXCEPT !.on = i, !.org = invites[i].org,
                                              !.to = invites[i].role, !.email = invites[i].email]
  <2>2. Apart(r) /\ Idle(r)
    BY DEF Blank, Apart, Idle
  <2>3. Become(h, r)
    BY <2>1 DEF Begin
  <2> HIDE DEF r
  <2> QED
    BY <1>1, <1>2, <1>11, <2>2, <2>3
<1>12. CASE LookSignup(h)
  <2>1. PICK e \in Emails :
          Begin(h, [Blank("signup", "commit") EXCEPT !.email = e])
    BY <1>12 DEF LookSignup
  <2> DEFINE r == [Blank("signup", "commit") EXCEPT !.email = e]
  <2>2. Apart(r) /\ Idle(r) /\ Seatless(r)
    BY DEF Blank, Apart, Idle, Seatless
  <2>3. Become(h, r)
    BY <2>1 DEF Begin
  <2> HIDE DEF r
  <2> QED
    BY <1>1, <1>2, <2>2, <2>3
<1>13. CASE LookForgot(h)
  <2>1. PICK u \in DOMAIN users :
          Begin(h, [Blank("forgot", "commit") EXCEPT !.user = u])
    BY <1>13 DEF LookForgot
  <2> DEFINE r == [Blank("forgot", "commit") EXCEPT !.user = u]
  <2>2. Apart(r) /\ Idle(r) /\ Seatless(r)
    BY DEF Blank, Apart, Idle, Seatless
  <2>3. Become(h, r)
    BY <2>1 DEF Begin
  <2> HIDE DEF r
  <2> QED
    BY <1>1, <1>2, <2>2, <2>3
<1>14. CASE LookReset(h)
  <2>1. PICK k \in DOMAIN tokens :
          Begin(h, [Blank("reset", "sweep") EXCEPT !.on = k, !.user = tokens[k].user])
    BY <1>14 DEF LookReset
  <2> DEFINE r == [Blank("reset", "sweep") EXCEPT !.on = k, !.user = tokens[k].user]
  <2>2. Apart(r) /\ Idle(r) /\ Seatless(r)
    BY DEF Blank, Apart, Idle, Seatless
  <2>3. Become(h, r)
    BY <2>1 DEF Begin
  <2> HIDE DEF r
  <2> QED
    BY <1>1, <1>2, <2>2, <2>3
<1>15. CASE SpendCode(h)
  <2> DEFINE r == [Blank("delete", "commit") EXCEPT !.org = hs[h].org]
  <2>2. Apart(r) /\ Idle(r) /\ Seatless(r)
    BY DEF Blank, Apart, Idle, Seatless
  <2>3. Become(h, r)
    BY <1>15 DEF SpendCode
  <2> HIDE DEF r
  <2> QED
    BY <1>1, <1>2, <2>2, <2>3
<1>16. CASE CountMembers(h)
  <2> DEFINE r == [hs[h] EXCEPT !.op = "invite", !.at = "count", !.seen = Cardinality(Members(hs[h].org))]
  <2>1. r.op = "invite" /\ r.at = "count"
    BY <1>3, <1>16 DEF CountMembers, Request
  <2>2. Become(h, r)
    BY <1>16 DEF CountMembers
  <2> HIDE DEF r
  <2>3. Apart(r) /\ Idle(r)
    BY <2>1 DEF Apart, Idle
  <2> QED
    BY <1>1, <1>2, <1>16, <2>2, <2>3
<1> QED
  BY <1>4, <1>5, <1>6, <1>7, <1>8, <1>9, <1>10, <1>11, <1>12, <1>13, <1>14, <1>15, <1>16

(* A change of a member moves no login, reset or invitation.                *)
LEMMA ChangedApart ==
  ASSUME IInv, NEW h \in Handlers, NEW on, Changed(h, on)
  PROVE  \A g \in Handlers : hs'[g] = hs[g] \/ (Apart(hs'[g]) /\ Seatless(hs'[g]))
<1>1. ASSUME NEW g \in Handlers, g # h, Deciding(g) PROVE Apart(hs'[g]) /\ Seatless(hs'[g])
  <2>1. hs'[g] = [hs[g] EXCEPT !.late = TRUE]
    BY <1>1 DEF Changed
  <2>2. hs[g] \in Request
    BY <1>1 DEF Deciding, Asked, At, IInv, TypeOK
  <2> QED
    BY <1>1, <2>1, <2>2 DEF Deciding, Asked, At, Request, Apart, Seatless
<1>2. Apart(hs'[h]) /\ Seatless(hs'[h])
  BY DEF Changed, ToAudit, Blank, Apart, Seatless
<1>3. \A g \in Handlers : g # h /\ ~Deciding(g) => hs'[g] = hs[g]
  BY DEF Changed
<1> QED
  BY <1>1, <1>2, <1>3

(* SInv is inductive: only a login, its session and a reset can disturb it. *)
LEMMA SessionsStep ==
  ASSUME IInv, SInv, [Next]_vars
  PROVE  SInv'
<1> DEFINE NoPassword ==
      \A u \in DOMAIN users' \ {next} : u \in DOMAIN users /\ users'[u].secret = users[u].secret
<1> DEFINE NoSession == \A s \in DOMAIN sessions' : s \in DOMAIN sessions /\ sessions'[s] = sessions[s]
<1> DEFINE NoLogin == \A g \in Handlers : hs'[g] = hs[g] \/ Apart(hs'[g])
<1>1. IInv'
  BY TypeStep
<1>2. (NoPassword /\ NoSession /\ NoLogin) => SInv'
  BY <1>1, SessionsKept
<1>3. ASSUME NEW h \in Handlers, NEW r, Become(h, r), Apart(r) PROVE NoLogin
  BY <1>3 DEF Become, IInv, TypeOK
<1>4. ASSUME NEW h \in Handlers, Login(h) PROVE SInv'
  <2>1. PICK u \in DOMAIN users :
          Begin(h, [Blank("login", "login") EXCEPT !.on = u, !.secret = users[u].secret, !.late = Resetting(u)])
    BY <1>4 DEF Login
  <2> DEFINE r == [Blank("login", "login") EXCEPT !.on = u, !.secret = users[u].secret, !.late = Resetting(u)]
  <2>2. r.at = "login" /\ r.on = u /\ r.secret = users[u].secret /\ r.late = Resetting(u)
    BY DEF Blank
  <2>3. UNCHANGED <<users, sessions>> /\ ~At(h, "reset", "commit") /\ Become(h, r)
    BY <1>4, <2>1 DEF Login, Begin, people, At
  <2> HIDE DEF r
  <2> QED
    BY <2>2, <2>3, SessionsLogin
<1>5. ASSUME NEW h \in Handlers, Verify(h) PROVE SInv'
  <2> DEFINE r == [hs[h] EXCEPT !.at = "login", !.late = Resetting(hs[h].on)]
  <2>1. hs[h] \in Request /\ hs[h].at = "verify" /\ hs[h].on \in DOMAIN users /\ users[hs[h].on].secret = 0
    BY <1>5 DEF Verify, IInv, TypeOK
  <2>2. hs[h].secret = 0
    BY <1>5, <2>1 DEF Verify, SInv, Current
  <2>3. r.at = "login" /\ r.on = hs[h].on /\ r.secret = 0 /\ r.late = Resetting(hs[h].on)
    BY <2>1, <2>2 DEF Request
  <2>4. UNCHANGED <<users, sessions>> /\ ~At(h, "reset", "commit") /\ Become(h, r)
    BY <1>5 DEF Verify, people, At
  <2> HIDE DEF r
  <2> QED
    BY <2>1, <2>3, <2>4, SessionsLogin
<1>6. ASSUME NEW h \in Handlers,
             \/ Enter(h) \/ Die(h) \/ Edit(h) \/ LookRole(h) \/ LookRemove(h) \/ LookRegister(h)
             \/ CountMembers(h) \/ LookInvite(h) \/ LookRevoke(h) \/ LookAccept(h) \/ LookSignup(h)
             \/ LookForgot(h) \/ LookReset(h) \/ SpendCode(h)
      PROVE  SInv'
  <2>1. UNCHANGED people /\ NoLogin
    BY <1>6, Looks
  <2> QED
    BY <1>2, <2>1 DEF people
<1>7. ASSUME NEW h \in Handlers, Audit(h) \/ CommitInvite(h) \/ CommitRevoke(h) \/ CommitForgot(h) PROVE SInv'
  <2>1. UNCHANGED <<users, sessions>> /\ Finish(h)
    BY <1>7 DEF Audit, CommitInvite, CommitRevoke, CommitForgot, people
  <2>2. NoLogin
    BY <1>3, <2>1 DEF Finish, Apart
  <2> QED
    BY <1>2, <2>1, <2>2
<1>8. ASSUME NEW h \in Handlers, CommitRegister(h) \/ CommitAccept(h) \/ CommitSignup(h) PROVE SInv'
  <2>1. UNCHANGED sessions /\ NoPassword
    BY <1>8 DEF CommitRegister, CommitAccept, CommitSignup, With
  <2>2. NoLogin
    BY <1>3, <1>8 DEF CommitRegister, CommitAccept, CommitSignup, Finish, Blank, Apart
  <2> QED
    BY <1>2, <2>1, <2>2
<1>9. ASSUME NEW h \in Handlers, CommitRole(h) PROVE SInv'
  <2>1. UNCHANGED sessions
    BY <1>9 DEF CommitRole
  <2>2. NoPassword
    <3>1. users' = [users EXCEPT ![hs[h].on].role = hs[h].to] /\ hs[h].on \in DOMAIN users
      BY <1>9 DEF CommitRole
    <3>2. \A u \in DOMAIN users :
            users[u] \in [org : orgs, email : Emails, role : Roles, secret : Nat, via : {0} \cup Ids]
      BY DEF IInv, TypeOK, UsersOK
    <3> QED
      BY <3>1, <3>2
  <2>3. NoLogin
    BY <1>9, ChangedApart DEF CommitRole
  <2> QED
    BY <1>2, <2>1, <2>2, <2>3
<1>10. ASSUME NEW h \in Handlers, CommitRemove(h) PROVE SInv'
  <2>1. NoSession /\ NoPassword
    BY <1>10 DEF CommitRemove, Without
  <2>2. NoLogin
    BY <1>10, ChangedApart DEF CommitRemove
  <2> QED
    BY <1>2, <2>1, <2>2
<1>11. ASSUME NEW h \in Handlers, CommitDelete(h) PROVE SInv'
  <2>1. NoSession /\ NoPassword
    BY <1>11 DEF CommitDelete, Leave, Without
  <2>2. NoLogin
    BY <1>3, <1>11 DEF CommitDelete, Finish, Apart
  <2> QED
    BY <1>2, <2>1, <2>2
<1>13. CASE UNCHANGED vars
  BY <1>2, <1>13 DEF vars, people
<1> HIDE DEF NoPassword, NoSession, NoLogin
<1>14. ASSUME NEW h \in Handlers, MembersNext(h) \/ InvitesNext(h) \/ SessionsNext(h) \/ OtherNext(h)
       PROVE  SInv'
  BY <1>4, <1>5, <1>6, <1>7, <1>8, <1>9, <1>10, <1>11, <1>14, SessionsOpened, SessionsSwept, SessionsReset
     DEF MembersNext, InvitesNext, SessionsNext, OtherNext
<1> QED
  BY <1>13, <1>14 DEF Next

(* A password reset leaves no session of the earlier password, except those *)
(* that were being opened when it swept them.                               *)
THEOREM ResetEndsSessions == Spec => []SessionsCurrent
<1>1. Init => IInv /\ SInv
  <2>1. ASSUME Init PROVE SInv
    <3>1. \A h \in Handlers : hs[h] = Free
      BY <2>1 DEF Init
    <3>2. DOMAIN sessions = {}
      BY <2>1 DEF Init
    <3> QED
      BY <3>1, <3>2 DEF SInv, SessionsCurrent, At
  <2> QED
    BY <2>1, TypeInit
<1>2. IInv /\ SInv /\ [Next]_vars => IInv' /\ SInv'
  BY TypeStep, SessionsStep
<1>3. SInv => SessionsCurrent
  BY DEF SInv
<1> QED
  BY <1>1, <1>2, <1>3, PTL DEF Spec

-----------------------------------------------------------------------------
(* Owners.  A request that is not late has read what is still stored of its *)
(* actor and of the user it changes, so that an owner who is changed leaves *)
(* the owner who changes it.                                                *)
Sound(r, os, us) ==
  /\ r.org \in os => r.user \in DOMAIN us /\ us[r.user].role = r.role
  /\ r.at = "commit" /\ r.on \in DOMAIN us =>
       us[r.on].org = r.org /\ r.on # r.user /\ Manages(r.role, us[r.on].role)

OInv ==
  /\ OwnerStays
  /\ ~crossed => \A h \in Handlers : Deciding(h) /\ ~hs[h].late => Sound(hs[h], orgs, users)

(* A step that changes nobody's role, and removes people only with their    *)
(* organisation.                                                            *)
LEMMA OwnersKept ==
  ASSUME IInv, OInv, crossed' = crossed,
         \A u \in DOMAIN users' \ {next} :
           u \in DOMAIN users /\ users'[u].role = users[u].role /\ users'[u].org = users[u].org,
         \A o \in orgs' \ {next} : o \in orgs /\ Members(o) \subseteq DOMAIN users',
         next \in orgs' =>
           next \in DOMAIN users' /\ users'[next].org = next /\ users'[next].role = "owner",
         \A g \in Handlers : Deciding(g)' =>
           \/ Deciding(g) /\ hs'[g] = hs[g]
           \/ hs'[g].late
           \/ /\ hs'[g] \in Request /\ Knows(hs'[g], users, invites, tokens)
              /\ Sound(hs'[g], orgs, users)
  PROVE  OInv'
<1>1. next \notin Ids
  BY AccountsAssumption DEF IInv, TypeOK, Ids
<1>2. next \notin orgs /\ next \notin DOMAIN users
  BY <1>1 DEF IInv, TypeOK, UsersOK
<1>3. OwnerStays'
  <2>1. ASSUME ~crossed, NEW o \in orgs' PROVE \E u \in Members(o)' : users'[u].role = "owner"
    <3>1. CASE o = next
      BY <2>1, <3>1 DEF Members
    <3>2. CASE o # next
      <4>1. PICK u \in Members(o) : users[u].role = "owner"
        BY <2>1, <3>2 DEF OInv, OwnerStays
      <4>2. u \in DOMAIN users' /\ u # next
        BY <2>1, <3>2, <1>2 DEF Members
      <4> QED
        BY <4>1, <4>2 DEF Members
    <3> QED
      BY <3>1, <3>2
  <2> QED
    BY <2>1 DEF OwnerStays
<1>4. ASSUME ~crossed, NEW g \in Handlers, Deciding(g)', ~hs'[g].late
      PROVE  Sound(hs'[g], orgs', users')
  <2> DEFINE r == hs'[g]
  <2>1. r \in Request /\ Knows(r, users, invites, tokens) /\ Sound(r, orgs, users)
    <3>1. CASE Deciding(g) /\ r = hs[g]
      BY <1>4, <3>1 DEF OInv, IInv, TypeOK, Loaded, Deciding, Asked, At
    <3> QED
      BY <1>4, <3>1
  <2>2. r.at \in {"look", "commit"} /\ r.op \in {"call", "role", "remove"}
    BY <1>4 DEF Deciding, Asked, At
  <2> HIDE DEF r
  <2>3. r.org # next /\ r.on # next /\ r.user # next
    BY <2>1, <1>1, AccountsAssumption DEF Request, IInv, TypeOK
  <2>4. ASSUME r.org \in orgs' PROVE r.user \in DOMAIN users' /\ users'[r.user].role = r.role
    <3>1. r.user \in Members(r.org) /\ users[r.user].role = r.role
      BY <2>1, <2>2, <2>3, <2>4 DEF Sound, Knows, Members
    <3> QED
      BY <2>3, <2>4, <3>1
  <2>5. r.on \in DOMAIN users' =>
          r.on \in DOMAIN users /\ users'[r.on].org = users[r.on].org /\ users'[r.on].role = users[r.on].role
    BY <2>3
  <2>6. Sound(r, orgs', users')
    BY <2>1, <2>4, <2>5 DEF Sound
  <2> QED
    BY <2>6 DEF r
<1> QED
  BY <1>3, <1>4 DEF OInv

(* The same for a step that changes neither organisations nor users.        *)
LEMMA OwnersSame ==
  ASSUME IInv, OInv, UNCHANGED <<orgs, users, crossed>>,
         \A g \in Handlers :
           \/ hs'[g] = hs[g] \/ Idle(hs'[g]) \/ hs'[g].late
           \/ /\ hs'[g] \in Request /\ Knows(hs'[g], users, invites, tokens)
              /\ Sound(hs'[g], orgs, users)
  PROVE  OInv'
<1>1. next \notin Ids
  BY AccountsAssumption DEF IInv, TypeOK, Ids
<1>2. next \notin orgs
  BY <1>1 DEF IInv, TypeOK, UsersOK
<1>3. \A g \in Handlers : Deciding(g)' =>
        \/ Deciding(g) /\ hs'[g] = hs[g]
        \/ hs'[g].late
        \/ /\ hs'[g] \in Request /\ Knows(hs'[g], users, invites, tokens)
           /\ Sound(hs'[g], orgs, users)
  BY DEF Deciding, Asked, At, Idle
<1>4. \A o \in orgs' \ {next} : o \in orgs /\ Members(o) \subseteq DOMAIN users'
  BY DEF Members
<1> QED
  BY <1>2, <1>3, <1>4, OwnersKept

(* The request reads its actor, and then the user it is to change. *)
LEMMA OwnersRead ==
  ASSUME IInv, OInv, NEW h \in Handlers, Enter(h)
  PROVE  OInv'
<1>1. PICK s \in DOMAIN sessions :
        Begin(h, [Blank("call", "look") EXCEPT !.user = sessions[s].user,
                                               !.org = users[sessions[s].user].org,
                                               !.role = users[sessions[s].user].role])
  BY DEF Enter
<1> DEFINE u == sessions[s].user
<1> DEFINE r == [Blank("call", "look") EXCEPT !.user = u, !.org = users[u].org, !.role = users[u].role]
<1>2. u \in DOMAIN users /\ u \in Ids /\ users[u].org \in Ids /\ users[u].role \in Roles
  BY DEF IInv, TypeOK, UsersOK, SessionsOK
<1>3. r \in Request
  BY <1>2 DEF Blank, Request, Roles, Ops, Stages
<1>4. Knows(r, users, invites, tokens)
  BY <1>2 DEF Knows, Blank
<1>5. Sound(r, orgs, users)
  BY <1>2 DEF Sound, Blank
<1>6. hs' = [hs EXCEPT ![h] = r] /\ UNCHANGED <<people, papers, audits, next, crossed>>
  BY <1>1 DEF Enter, Begin, Become
<1> HIDE DEF r
<1>7. \A g \in Handlers : hs'[g] = hs[g] \/ hs'[g] = r
  BY <1>6 DEF IInv, TypeOK
<1>8. UNCHANGED people /\ UNCHANGED crossed
  BY <1>6
<1> QED
  BY <1>3, <1>4, <1>5, <1>7, <1>8, OwnersSame DEF people

(* A request that chooses whom to change is not the one it chose.           *)
LEMMA OwnersTarget ==
  ASSUME IInv, OInv, NEW h \in Handlers, LookRole(h) \/ LookRemove(h)
  PROVE  OInv'
<1>1. UNCHANGED <<people, papers, audits, next, crossed>>
  BY DEF LookRole, LookRemove
<1>2. CASE crossed'
  BY <1>2 DEF OInv, OwnerStays
<1>3. Asked(h) /\ hs[h] \in Request /\ Knows(hs[h], users, invites, tokens)
  BY DEF LookRole, LookRemove, Asked, At, IInv, TypeOK, Loaded
<1>4. ~crossed' => hs[h].late \/ Sound(hs[h], orgs, users)
  BY <1>1, <1>3 DEF OInv, Deciding
<1>5. ASSUME ~crossed', NEW t \in DOMAIN users, Target(h, t), NEW q \in Roles, NEW op \in {"role", "remove"},
             NEW r, r = [hs[h] EXCEPT !.op = op, !.at = "commit", !.on = t, !.to = q], Become(h, r)
      PROVE  OInv'
  <2>1. /\ r.op = op /\ r.at = "commit" /\ r.on = t /\ r.user = hs[h].user /\ r.org = hs[h].org
        /\ r.role = hs[h].role /\ r.late = hs[h].late
    BY <1>3, <1>5 DEF Request
  <2>2. r \in Request
    BY <1>3, <1>5 DEF Request, Ops, Stages, IInv, TypeOK, UsersOK
  <2>3. Knows(r, users, invites, tokens)
    BY <1>3, <1>5, <2>1 DEF Knows, Asked, At
  <2>4. r.late \/ Sound(r, orgs, users)
    BY <1>4, <1>5, <2>1 DEF Sound, Target, Members
  <2>5. \A g \in Handlers : hs'[g] = hs[g] \/ hs'[g] = r
    BY <1>5 DEF Become, IInv, TypeOK
  <2>6. UNCHANGED <<orgs, users, crossed>>
    BY <1>1 DEF people
  <2> QED
    BY <2>2, <2>3, <2>4, <2>5, <2>6, OwnersSame
<1>6. ASSUME ~crossed', NEW t, Become(h, [ToAudit(hs[h].user) EXCEPT !.on = t]) PROVE OInv'
  <2> DEFINE r == [ToAudit(hs[h].user) EXCEPT !.on = t]
  <2>1. Idle(r)
    BY DEF Idle, ToAudit, Blank
  <2>2. Become(h, r)
    BY <1>6
  <2> HIDE DEF r
  <2>3. \A g \in Handlers : hs'[g] = hs[g] \/ hs'[g] = r
    BY <2>2 DEF Become, IInv, TypeOK
  <2>4. UNCHANGED <<orgs, users, crossed>>
    BY <1>1 DEF people
  <2> QED
    BY <2>1, <2>3, <2>4, OwnersSame
<1>7. CASE ~crossed' /\ LookRole(h)
  <2>1. PICK t \in DOMAIN users, q \in Roles :
          /\ Target(h, t)
          /\ \/ Become(h, [ToAudit(hs[h].user) EXCEPT !.on = t])
             \/ Become(h, [hs[h] EXCEPT !.op = "role", !.at = "commit", !.on = t, !.to = q])
    BY <1>7 DEF LookRole
  <2> DEFINE r == [hs[h] EXCEPT !.op = "role", !.at = "commit", !.on = t, !.to = q]
  <2>2. Become(h, r) \/ Become(h, [ToAudit(hs[h].user) EXCEPT !.on = t])
    BY <2>1
  <2>3. CASE Become(h, r)
    BY <1>5, <1>7, <2>1, <2>3
  <2>4. CASE Become(h, [ToAudit(hs[h].user) EXCEPT !.on = t])
    BY <1>6, <1>7, <2>4
  <2> QED
    BY <2>2, <2>3, <2>4
<1>8. CASE ~crossed' /\ LookRemove(h)
  <2>1. PICK t \in DOMAIN users :
          Target(h, t) /\ Become(h, [hs[h] EXCEPT !.op = "remove", !.at = "commit", !.on = t])
    BY <1>8 DEF LookRemove
  <2> DEFINE r == [hs[h] EXCEPT !.op = "remove", !.at = "commit", !.on = t, !.to = hs[h].to]
  <2>2. r = [hs[h] EXCEPT !.op = "remove", !.at = "commit", !.on = t] /\ hs[h].to \in Roles
    BY <1>3 DEF Request
  <2>3. Become(h, r)
    BY <2>1, <2>2
  <2> HIDE DEF r
  <2> QED
    BY <1>5, <1>8, <2>1, <2>2, <2>3 DEF r
<1> QED
  BY <1>2, <1>7, <1>8

(* The change of a member by a request that is not late: an owner is only   *)
(* changed by another owner, who stays; what others have read is late.      *)
LEMMA OwnersChange ==
  ASSUME IInv, OInv, NEW h \in Handlers, CommitRole(h) \/ CommitRemove(h)
  PROVE  OInv'
<1> DEFINE r == hs[h]
<1>1. CASE crossed'
  BY <1>1 DEF OInv, OwnerStays
<1>2. CASE ~crossed'
  <2>1. PICK on : Changed(h, on)
    BY DEF CommitRole, CommitRemove
  <2>2. ~crossed /\ ~r.late
    BY <1>2, <2>1 DEF Changed
  <2>3. /\ Deciding(h) /\ r \in Request /\ Knows(r, users, invites, tokens)
        /\ r.at = "commit" /\ r.op \in {"role", "remove"}
    BY DEF CommitRole, CommitRemove, Deciding, At, IInv, TypeOK, Loaded
  <2>4. Sound(r, orgs, users)
    BY <2>2, <2>3 DEF OInv
  <2>5. /\ orgs' = orgs
        /\ \A u \in DOMAIN users \ {r.on} :
             u \in DOMAIN users' /\ users'[u].org = users[u].org /\ users'[u].role = users[u].role
    BY DEF CommitRole, CommitRemove, Without
  <2>6. ASSUME NEW o \in orgs PROVE \E u \in Members(o)' : users'[u].role = "owner"
    <3>1. PICK u \in Members(o) : users[u].role = "owner"
      BY <2>2, <2>6 DEF OInv, OwnerStays
    <3>2. CASE u # r.on
      BY <2>5, <3>1, <3>2 DEF Members
    <3>3. CASE u = r.on
      <4>1. r.org = o /\ r.role = "owner" /\ r.on # r.user
        BY <2>3, <2>4, <3>1, <3>3 DEF Sound, Members, Manages
      <4>2. r.user \in DOMAIN users /\ users[r.user].role = "owner" /\ users[r.user].org = o
        BY <2>3, <2>4, <2>6, <4>1 DEF Sound, Knows
      <4> QED
        BY <2>5, <4>1, <4>2 DEF Members
    <3> QED
      BY <3>2, <3>3
  <2>7. ASSUME NEW g \in Handlers, Deciding(g)' PROVE hs'[g].late
    <3>1. CASE g = h
      <4>1. hs'[h] = [ToAudit(r.user) EXCEPT !.on = on]
        BY <2>1 DEF Changed
      <4>2. hs'[h].at = "audit"
        BY <4>1 DEF ToAudit, Blank
      <4> QED
        BY <2>7, <3>1, <4>2 DEF Deciding, Asked, At
    <3>2. CASE g # h
      <4>1. CASE Deciding(g)
        <5>1. hs'[g] = [hs[g] EXCEPT !.late = TRUE]
          BY <2>1, <3>2, <4>1 DEF Changed
        <5>2. hs[g] \in Request
          BY <4>1 DEF Deciding, Asked, At, IInv, TypeOK
        <5> QED
          BY <5>1, <5>2 DEF Request
      <4>2. CASE ~Deciding(g)
        BY <2>1, <2>7, <3>2, <4>2 DEF Changed, Deciding, Asked, At
      <4> QED
        BY <4>1, <4>2
    <3> QED
      BY <3>1, <3>2
  <2> QED
    BY <2>5, <2>6, <2>7 DEF OInv, OwnerStays
<1> QED
  BY <1>1, <1>2 DEF OInv, IInv, TypeOK, Changed, CommitRole, CommitRemove

(* OInv is inductive: the actor of a change that is not late is a manager   *)
(* still.                                                                   *)
LEMMA OwnersStep ==
  ASSUME IInv, OInv, [Next]_vars
  PROVE  OInv'
<1>0. next \notin Ids /\ next \notin orgs /\ next \notin DOMAIN users
  BY AccountsAssumption DEF IInv, TypeOK, UsersOK, Ids
<1>1. ASSUME NEW h \in Handlers, NEW r, Become(h, r), Idle(r)
      PROVE  \A g \in Handlers : hs'[g] = hs[g] \/ Idle(hs'[g])
  BY <1>1 DEF Become, IInv, TypeOK
<1>2. ASSUME UNCHANGED crossed, \A g \in Handlers : hs'[g] = hs[g] \/ Idle(hs'[g]),
             \A u \in DOMAIN users' \ {next} :
               u \in DOMAIN users /\ users'[u].role = users[u].role /\ users'[u].org = users[u].org,
             \A o \in orgs' \ {next} : o \in orgs /\ Members(o) \subseteq DOMAIN users',
             next \in orgs' =>
               next \in DOMAIN users' /\ users'[next].org = next /\ users'[next].role = "owner"
      PROVE  OInv'
  <2>1. \A g \in Handlers : Deciding(g)' => Deciding(g) /\ hs'[g] = hs[g]
    BY <1>2 DEF Deciding, Asked, At, Idle
  <2> QED
    BY <1>2, <2>1, OwnersKept
<1>3. ASSUME NEW h \in Handlers,
             \/ Die(h) \/ Edit(h) \/ LookRegister(h) \/ CountMembers(h) \/ LookInvite(h)
             \/ LookRevoke(h) \/ LookAccept(h) \/ LookSignup(h) \/ LookForgot(h) \/ LookReset(h) \/ SpendCode(h)
      PROVE  OInv'
  <2>1. UNCHANGED people /\ UNCHANGED crossed
    BY <1>3, Looks DEF Die, Edit, LookRegister, CountMembers, LookInvite, LookRevoke, LookAccept, LookSignup,
       LookForgot, LookReset, SpendCode
  <2>2. \/ \A g \in Handlers : hs'[g] = hs[g] \/ Idle(hs'[g])
        \/ Enter(h) \/ LookRole(h) \/ LookRemove(h)
    BY <1>3, Looks
  <2> QED
    BY <2>1, <2>2, OwnersSame, OwnersRead, OwnersTarget DEF people
<1>4. ASSUME NEW h \in Handlers, Audit(h) \/ CommitInvite(h) \/ CommitRevoke(h) \/ CommitForgot(h) PROVE OInv'
  <2>1. UNCHANGED <<orgs, users, crossed>> /\ Finish(h)
    BY <1>4 DEF Audit, CommitInvite, CommitRevoke, CommitForgot, people
  <2>2. \A g \in Handlers : hs'[g] = hs[g] \/ Idle(hs'[g])
    BY <1>1, <2>1 DEF Finish, Idle
  <2> QED
    BY <2>1, <2>2, OwnersSame
<1>5. ASSUME NEW h \in Handlers, Login(h) PROVE OInv'
  <2>1. PICK u \in DOMAIN users :
          Begin(h, [Blank("login", "login") EXCEPT !.on = u, !.secret = users[u].secret, !.late = Resetting(u)])
    BY <1>5 DEF Login
  <2> DEFINE r == [Blank("login", "login") EXCEPT !.on = u, !.secret = users[u].secret, !.late = Resetting(u)]
  <2>2. Idle(r)
    BY DEF Idle, Blank
  <2>3. UNCHANGED <<people, papers, audits, next, crossed>> /\ Become(h, r)
    BY <1>5, <2>1 DEF Login, Begin
  <2> HIDE DEF r
  <2>4. \A g \in Handlers : hs'[g] = hs[g] \/ Idle(hs'[g])
    BY <1>1, <2>2, <2>3
  <2> QED
    BY <2>3, <2>4, OwnersSame DEF people
<1>6. ASSUME NEW h \in Handlers, Verify(h) PROVE OInv'
  <2> DEFINE r == [hs[h] EXCEPT !.at = "login", !.late = Resetting(hs[h].on)]
  <2>1. Idle(r)
    BY <1>6 DEF Verify, Idle, IInv, TypeOK, Request
  <2>2. UNCHANGED <<people, papers, audits, next, crossed>> /\ Become(h, r)
    BY <1>6 DEF Verify
  <2> HIDE DEF r
  <2>3. \A g \in Handlers : hs'[g] = hs[g] \/ Idle(hs'[g])
    BY <1>1, <2>1, <2>2
  <2> QED
    BY <2>2, <2>3, OwnersSame DEF people
<1>7. ASSUME NEW h \in Handlers, OpenSession(h) PROVE OInv'
  <2>1. Idle(Free) /\ Idle(ToAudit(hs[h].on))
    BY DEF Idle, ToAudit, Blank
  <2>2. \A g \in Handlers : hs'[g] = hs[g] \/ Idle(hs'[g])
    BY <1>1, <1>7, <2>1 DEF OpenSession, Finish
  <2> QED
    BY <1>7, <2>2, OwnersSame DEF OpenSession
<1>8. ASSUME NEW h \in Handlers, CommitRegister(h) \/ CommitAccept(h) PROVE OInv'
  <2>1. Idle(Free) /\ Idle([Blank("accept", "verify") EXCEPT !.on = next])
    BY DEF Idle, Blank
  <2>2. \A g \in Handlers : hs'[g] = hs[g] \/ Idle(hs'[g])
    BY <1>1, <1>8, <2>1 DEF CommitRegister, CommitAccept, Finish
  <2>3. UNCHANGED <<orgs, crossed>>
    BY <1>8 DEF CommitRegister, CommitAccept
  <2>4. /\ DOMAIN users' = DOMAIN users \cup {next}
        /\ \A u \in DOMAIN users : users'[u] = users[u]
    BY <1>0, <1>8 DEF CommitRegister, CommitAccept, With
  <2>5. \A o \in orgs' \ {next} : o \in orgs /\ Members(o) \subseteq DOMAIN users'
    BY <2>3, <2>4 DEF Members
  <2> QED
    BY <1>0, <1>2, <2>2, <2>3, <2>4, <2>5
<1>9. ASSUME NEW h \in Handlers, CommitSignup(h) PROVE OInv'
  <2>1. Idle([Blank("signup", "verify") EXCEPT !.on = next])
    BY DEF Idle, Blank
  <2>2. \A g \in Handlers : hs'[g] = hs[g] \/ Idle(hs'[g])
    BY <1>1, <1>9, <2>1 DEF CommitSignup
  <2>3. orgs' = orgs \cup {next} /\ UNCHANGED crossed
    BY <1>9 DEF CommitSignup
  <2>4. /\ DOMAIN users' = DOMAIN users \cup {next}
        /\ \A u \in DOMAIN users : users'[u] = users[u]
        /\ users'[next].org = next /\ users'[next].role = "owner"
    BY <1>0, <1>9 DEF CommitSignup, With
  <2>5. \A o \in orgs' \ {next} : o \in orgs /\ Members(o) \subseteq DOMAIN users'
    BY <2>3, <2>4 DEF Members
  <2> QED
    BY <1>0, <1>2, <2>2, <2>3, <2>4, <2>5
<1>10. ASSUME NEW h \in Handlers, Sweep(h) PROVE OInv'
  <2>1. ASSUME NEW g \in Handlers, hs'[g] # hs[g] PROVE Idle(hs'[g])
    <3>1. \/ hs[g] # Free /\ hs[g].at = "login" /\ hs'[g] = [hs[g] EXCEPT !.late = TRUE]
          \/ g = h /\ At(h, "reset", "sweep") /\ hs'[g] = [hs[g] EXCEPT !.at = "commit", !.swept = Swept(hs[h].user)]
      BY <1>10, <2>1 DEF Sweep
    <3>2. hs[g] \in Request
      BY <3>1 DEF At, IInv, TypeOK
    <3> QED
      BY <3>1, <3>2 DEF At, Request, Idle
  <2>2. UNCHANGED <<orgs, users, crossed>>
    BY <1>10 DEF Sweep, people
  <2> QED
    BY <2>1, <2>2, OwnersSame
<1>11. ASSUME NEW h \in Handlers, CommitReset(h) PROVE OInv'
  <2>1. UNCHANGED <<orgs, crossed>> /\ Finish(h)
    BY <1>11 DEF CommitReset
  <2>2. \A g \in Handlers : hs'[g] = hs[g] \/ Idle(hs'[g])
    BY <1>1, <2>1 DEF Finish, Idle
  <2>3. \A u \in DOMAIN users :
          users[u] \in [org : orgs, email : Emails, role : Roles, secret : Nat, via : {0} \cup Ids]
    BY DEF IInv, TypeOK, UsersOK
  <2>4. users' = [users EXCEPT ![hs[h].user].secret = @ + 1]
    BY <1>11 DEF CommitReset
  <2>5. /\ DOMAIN users' = DOMAIN users
        /\ \A u \in DOMAIN users : users'[u].role = users[u].role /\ users'[u].org = users[u].org
    BY <2>3, <2>4
  <2>6. \A o \in orgs' \ {next} : o \in orgs /\ Members(o) \subseteq DOMAIN users'
    BY <2>1, <2>5 DEF Members
  <2> QED
    BY <1>0, <1>2, <2>1, <2>2, <2>5, <2>6
<1>12. ASSUME NEW o, Leave(o), UNCHANGED crossed, \A g \in Handlers : hs'[g] = hs[g] \/ Idle(hs'[g])
       PROVE  OInv'
  <2>1. \A u \in DOMAIN users' : u \in DOMAIN users /\ users'[u] = users[u]
    BY <1>12 DEF Leave, Without
  <2>2. \A q \in orgs' \ {next} : q \in orgs /\ Members(q) \subseteq DOMAIN users'
    BY <1>12 DEF Leave, Without, Members
  <2>3. orgs' \subseteq orgs
    BY <1>12 DEF Leave
  <2> QED
    BY <1>0, <1>2, <1>12, <2>1, <2>2, <2>3
<1>13. ASSUME NEW h \in Handlers, CommitDelete(h) PROVE OInv'
  <2>1. \A g \in Handlers : hs'[g] = hs[g] \/ Idle(hs'[g])
    BY <1>1, <1>13 DEF CommitDelete, Finish, Idle
  <2> QED
    BY <1>12, <1>13, <2>1 DEF CommitDelete
<1>15. CASE UNCHANGED vars
  BY <1>15, OwnersSame DEF vars, people
<1>16. ASSUME NEW h \in Handlers, MembersNext(h) \/ InvitesNext(h) \/ SessionsNext(h) \/ OtherNext(h)
       PROVE  OInv'
  BY <1>3, <1>4, <1>5, <1>6, <1>7, <1>8, <1>9, <1>10, <1>11, <1>13, <1>16, OwnersRead, OwnersTarget, OwnersChange
     DEF MembersNext, InvitesNext, SessionsNext, OtherNext
<1> QED
  BY <1>15, <1>16 DEF Next

(* An organisation keeps an owner, as long as no member is changed by a     *)
(* request that another change has made late.                               *)
THEOREM OwnerKept == Spec => []OwnerStays
<1>1. Init => IInv /\ OInv
  <2>1. ASSUME Init PROVE OInv
    <3>1. \A h \in Handlers : hs[h] = Free
      BY <2>1 DEF Init
    <3>2. orgs = {}
      BY <2>1 DEF Init
    <3> QED
      BY <3>1, <3>2 DEF OInv, OwnerStays, Deciding, Asked, At
  <2> QED
    BY <2>1, TypeInit
<1>2. IInv /\ OInv /\ [Next]_vars => IInv' /\ OInv'
  BY TypeStep, OwnersStep
<1>3. OInv => OwnerStays
  BY DEF OInv
<1> QED
  BY <1>1, <1>2, <1>3, PTL DEF Spec

-----------------------------------------------------------------------------
(* Seats.  Each request that accepts claims the seat of its invitation,     *)
(* even if the invitation or the member it once made is removed; each       *)
(* request that invites claims one more.  Every request that invites has    *)
(* compared the limit, when at most the other requests held a seat beyond   *)
(* it.  Its first count has seen all members who came by invitation, but    *)
(* for those who are missed.                                                *)
Accepts(o) == {g \in Handlers : At(g, "accept", "commit") /\ hs[g].org = o}
Claims(o) == Seats(o) \cup {hs[g].on : g \in Accepts(o)}
Held(o) == Claims(o) \ missed
Inviting(o) == {g \in Handlers : At(g, "invite", "commit") /\ hs[g].org = o}
Came(o) == {users[u].via : u \in Members(o)} \ ({0} \cup missed)

Limit == MemberLimit + Cardinality(Handlers) - 1
CInv == \A o \in orgs : Cardinality(Held(o)) + Cardinality(Inviting(o)) <= Limit
GInv == \A g \in Handlers : \A o :
  At(g, "invite", "count") /\ hs[g].org = o => Cardinality(Came(o)) <= hs[g].seen

(* Seats are ids, and there are finitely many of these.                     *)
LEMMA FewRows ==
  ASSUME IInv, NEW o
  PROVE  /\ Claims(o) \subseteq {0} \cup Ids
         /\ IsFiniteSet(Came(o)) /\ Cardinality(Came(o)) \in Nat
<1>1. ASSUME NEW u \in Members(o) PROVE users[u].via \in {0} \cup Ids
  BY <1>1 DEF Members, IInv, TypeOK, UsersOK
<1>2. ASSUME NEW g \in Accepts(o) PROVE hs[g].on \in {0} \cup Ids
  BY <1>2 DEF Accepts, At, IInv, TypeOK, Request
<1>3. Came(o) \subseteq {0} \cup Ids
  BY <1>1 DEF Came
<1>4. IsFiniteSet(Came(o)) /\ Cardinality(Came(o)) \in Nat
  BY <1>3, FewMembers, FS_Subset, FS_CardinalityType
<1> QED
  BY <1>1, <1>2, <1>4, FewMembers DEF Claims, Seats

(* The counts of CInv are numbers.                                          *)
LEMMA FewSeats ==
  ASSUME IInv, NEW o
  PROVE  /\ IsFiniteSet(Held(o)) /\ Cardinality(Held(o)) \in Nat
         /\ IsFiniteSet(Seats(o) \ missed) /\ Cardinality(Seats(o) \ missed) \in Nat
         /\ Cardinality(Seats(o) \ missed) <= Cardinality(Held(o))
         /\ IsFiniteSet(Inviting(o)) /\ Cardinality(Inviting(o)) \in Nat
<1>1. IsFiniteSet(Held(o)) /\ Cardinality(Held(o)) \in Nat
  <2>1. Held(o) \subseteq {0} \cup Ids
    BY FewRows DEF Held
  <2> QED
    BY <2>1, FewMembers, FS_Subset, FS_CardinalityType
<1>2. /\ IsFiniteSet(Seats(o) \ missed) /\ Cardinality(Seats(o) \ missed) \in Nat
      /\ Cardinality(Seats(o) \ missed) <= Cardinality(Held(o))
  <2>1. Seats(o) \ missed \subseteq Held(o)
    BY DEF Held, Claims
  <2> QED
    BY <1>1, <2>1, FS_Subset, FS_CardinalityType
<1>3. IsFiniteSet(Inviting(o)) /\ Cardinality(Inviting(o)) \in Nat
  <2>1. Inviting(o) \subseteq Handlers
    BY DEF Inviting
  <2> QED
    BY <2>1, AccountsAssumption, FS_Subset, FS_CardinalityType
<1> QED
  BY <1>1, <1>2, <1>3

(* So is the limit, and it has room for the founder.                        *)
LEMMA LimitOK == Limit \in Nat /\ Limit >= 1 /\ Cardinality(Handlers) \in Nat /\ Cardinality(Handlers) >= 1
<1>1. Cardinality(Handlers) \in Nat /\ Cardinality(Handlers) # 0
  BY AccountsAssumption, FS_CardinalityType, FS_EmptySet
<1> QED
  BY <1>1, AccountsAssumption DEF Limit

(* What a request counted stays right while nobody comes that is not missed. *)
LEMMA CountsKept ==
  ASSUME IInv, IInv', GInv,
         \A g \in Handlers : \A o : At(g, "invite", "count")' /\ hs'[g].org = o =>
           hs'[g] = hs[g] /\ Came(o)' \subseteq Came(o)
  PROVE  GInv'
<1>1. ASSUME NEW g \in Handlers, NEW o, At(g, "invite", "count")', hs'[g].org = o
      PROVE  Cardinality(Came(o)') <= hs'[g].seen
  <2>1. hs'[g] = hs[g] /\ At(g, "invite", "count") /\ Came(o)' \subseteq Came(o)
    BY <1>1 DEF At
  <2>2. Cardinality(Came(o)) <= hs[g].seen /\ hs[g].seen \in Nat
    BY <1>1, <2>1 DEF GInv, At, IInv, TypeOK, Request
  <2>3. IsFiniteSet(Came(o)) /\ Cardinality(Came(o)) \in Nat
    BY FewRows
  <2>4. Cardinality(Came(o)') <= Cardinality(Came(o)) /\ Cardinality(Came(o)') \in Nat
    BY <2>1, <2>3, FS_Subset, FS_CardinalityType
  <2> QED
    BY <2>1, <2>2, <2>3, <2>4
<1> QED
  BY <1>1 DEF GInv

(* A step that takes no seat. *)
LEMMA SeatsFall ==
  ASSUME IInv, IInv', CInv, missed \subseteq missed',
         \A o \in orgs' :
           o \in orgs /\ Claims(o)' \subseteq Claims(o) /\ Inviting(o)' \subseteq Inviting(o)
  PROVE  CInv'
<1>0. \A o \in orgs' : o \in orgs /\ Held(o)' \subseteq Held(o) /\ Inviting(o)' \subseteq Inviting(o)
  BY DEF Held
<1>1. ASSUME NEW o \in orgs'
      PROVE  Cardinality(Held(o)') + Cardinality(Inviting(o)') <= Limit
  <2>1. Cardinality(Held(o)') <= Cardinality(Held(o)) /\ Cardinality(Inviting(o)') <= Cardinality(Inviting(o))
    BY <1>0, <1>1, FewSeats, FS_Subset
  <2>2. Cardinality(Held(o)') \in Nat /\ Cardinality(Inviting(o)') \in Nat
    <3>1. /\ IsFiniteSet(Held(o)) /\ Held(o)' \subseteq Held(o)
          /\ IsFiniteSet(Inviting(o)) /\ Inviting(o)' \subseteq Inviting(o)
      BY <1>0, <1>1, FewSeats
    <3> QED
      BY <3>1, FS_Subset, FS_CardinalityType
  <2>3. Cardinality(Held(o)) + Cardinality(Inviting(o)) <= Limit
    BY <1>0, <1>1 DEF CInv
  <2>4. Cardinality(Held(o)) \in Nat /\ Cardinality(Inviting(o)) \in Nat
    BY FewSeats
  <2> QED
    BY <2>1, <2>2, <2>3, <2>4, LimitOK
<1> QED
  BY <1>1 DEF CInv, Limit

(* A step that neither invites nor brings in anybody.                       *)
LEMMA SeatsKept ==
  ASSUME IInv, IInv', CInv, GInv, missed' = missed, orgs' \subseteq orgs,
         \A i \in DOMAIN invites' :
           /\ i \in DOMAIN invites /\ invites'[i].org = invites[i].org
           /\ ~invites'[i].accepted => ~invites[i].accepted,
         \A u \in DOMAIN users' :
           \/ users'[u].via = 0
           \/ u \in DOMAIN users /\ users'[u].org = users[u].org /\ users'[u].via = users[u].via,
         \A g \in Handlers : hs'[g] = hs[g] \/ Seatless(hs'[g])
  PROVE  CInv' /\ GInv'
<1>1. ASSUME NEW g \in Handlers, At(g, "accept", "commit")' \/ At(g, "invite", "commit")'
      PROVE  hs'[g] = hs[g]
  BY <1>1 DEF At, Seatless
<1>2. ASSUME NEW o PROVE Accepts(o)' \subseteq Accepts(o) /\ Inviting(o)' \subseteq Inviting(o)
  BY <1>1 DEF Accepts, Inviting, At
<1>3. ASSUME NEW o PROVE Claims(o)' \subseteq Claims(o)
  <2>1. Pending(o)' \subseteq Pending(o)
    BY DEF Pending
  <2>2. ASSUME NEW u \in Members(o)', users'[u].via # 0 PROVE users'[u].via \in Seats(o)
    BY <2>2 DEF Members, Seats
  <2>3. ASSUME NEW g \in Accepts(o)' PROVE hs'[g].on \in Claims(o)
    <3>1. hs'[g] = hs[g] /\ g \in Accepts(o)
      BY <1>1, <1>2, <2>3 DEF Accepts
    <3> QED
      BY <3>1 DEF Claims
  <2>4. Seats(o)' \subseteq Seats(o)
    BY <2>1, <2>2 DEF Seats
  <2> QED
    BY <2>3, <2>4 DEF Claims
<1>4. ASSUME NEW g \in Handlers, NEW o, At(g, "invite", "count")', hs'[g].org = o
      PROVE  hs'[g] = hs[g] /\ Came(o)' \subseteq Came(o)
  BY <1>4 DEF At, Seatless, Came, Members
<1> QED
  BY <1>2, <1>3, <1>4, SeatsFall, CountsKept

(* A request to accept an invitation holds the seat of the invitation.      *)
LEMMA SeatsLookAccept ==
  ASSUME IInv, CInv, GInv, NEW h \in Handlers, LookAccept(h)
  PROVE  CInv' /\ GInv'
<1>1. PICK i \in DOMAIN invites :
        /\ ~invites[i].accepted
        /\ Begin(h, [Blank("accept", "commit") EXCEPT !.on = i, !.org = invites[i].org,
                                                     !.to = invites[i].role, !.email = invites[i].email])
  BY DEF LookAccept
<1> DEFINE r == [Blank("accept", "commit") EXCEPT !.on = i, !.org = invites[i].org,
                                                  !.to = invites[i].role, !.email = invites[i].email]
<1>2. r.op = "accept" /\ r.on = i /\ r.org = invites[i].org
  BY DEF Blank
<1>3. hs' = [hs EXCEPT ![h] = r]
  BY <1>1 DEF Begin, Become
<1> HIDE DEF r
<1>4. hs'[h] = r /\ \A g \in Handlers \ {h} : hs'[g] = hs[g]
  BY <1>3 DEF IInv, TypeOK
<1>5. IInv' /\ UNCHANGED <<orgs, users, invites, missed>>
  BY TypeStep DEF Next, InvitesNext, LookAccept, people, papers
<1>6. ASSUME NEW o PROVE Claims(o)' \subseteq Claims(o) /\ Inviting(o)' \subseteq Inviting(o)
  <2>1. Seats(o)' = Seats(o)
    BY <1>5 DEF Seats, Pending, Members
  <2>2. ASSUME NEW g \in Accepts(o)' PROVE hs'[g].on \in Claims(o)
    <3>1. CASE g = h
      BY <1>1, <1>2, <1>4, <2>2, <3>1 DEF Accepts, Claims, Seats, Pending
    <3>2. CASE g # h
      BY <1>4, <2>2, <3>2 DEF Accepts, Claims, At
    <3> QED
      BY <3>1, <3>2
  <2>3. Inviting(o)' \subseteq Inviting(o)
    BY <1>2, <1>4 DEF Inviting, At
  <2> QED
    BY <2>1, <2>2, <2>3 DEF Claims
<1>7. ASSUME NEW g \in Handlers, NEW o, At(g, "invite", "count")', hs'[g].org = o
      PROVE  hs'[g] = hs[g] /\ Came(o)' \subseteq Came(o)
  BY <1>2, <1>4, <1>5, <1>7 DEF At, Came, Members
<1> QED
  BY <1>5, <1>6, <1>7, SeatsFall, CountsKept

(* The new member takes the seat that the request held.                     *)
LEMMA SeatsAccept ==
  ASSUME IInv, CInv, GInv, NEW h \in Handlers, CommitAccept(h)
  PROVE  CInv' /\ GInv'
<1> DEFINE i == hs[h].on
<1>1. IInv' /\ orgs' = orgs
  BY TypeStep DEF Next, InvitesNext, CommitAccept
<1>2. h \in Accepts(hs[h].org)
  BY DEF CommitAccept, At, Accepts
<1>3. /\ \A u \in DOMAIN users' \ {next} : u \in DOMAIN users /\ users'[u] = users[u]
      /\ next \in DOMAIN users' => users'[next].org = hs[h].org /\ users'[next].via = i
  BY DEF CommitAccept, With
<1>4. \A j \in DOMAIN invites' :
        /\ j \in DOMAIN invites /\ invites'[j].org = invites[j].org
        /\ ~invites'[j].accepted => ~invites[j].accepted
  <2>1. i \in DOMAIN invites /\ invites' = [invites EXCEPT ![i].accepted = TRUE]
    BY DEF CommitAccept, StillThere
  <2>2. invites[i] \in [org : orgs, inviter : DOMAIN users, email : Emails, role : Roles, accepted : BOOLEAN]
    BY <2>1 DEF IInv, TypeOK, InvitesOK
  <2>3. invites'[i].org = invites[i].org /\ invites'[i].accepted
    BY <2>1, <2>2
  <2> QED
    BY <2>1, <2>3
<1>5. \A g \in Handlers : (g # h /\ hs'[g] = hs[g]) \/ Seatless(hs'[g])
  <2>1. Seatless([Blank("accept", "verify") EXCEPT !.on = next])
    BY DEF Seatless, Blank
  <2> QED
    BY <2>1 DEF CommitAccept, Become, IInv, TypeOK
<1>6. ASSUME NEW o PROVE Claims(o)' \subseteq Claims(o) /\ Inviting(o)' \subseteq Inviting(o)
  <2>1. Pending(o)' \subseteq Pending(o)
    BY <1>4 DEF Pending
  <2>2. ASSUME NEW u \in Members(o)', users'[u].via # 0 PROVE users'[u].via \in Claims(o)
    <3>1. CASE u = next
      BY <1>2, <1>3, <2>2, <3>1 DEF Members, Claims
    <3>2. CASE u # next
      BY <1>3, <2>2, <3>2 DEF Members, Seats, Claims
    <3> QED
      BY <3>1, <3>2
  <2>3. ASSUME NEW g \in Accepts(o)' PROVE hs'[g].on \in Claims(o)
    <3>1. hs'[g] = hs[g] /\ g \in Accepts(o)
      BY <1>5, <2>3 DEF Accepts, At, Seatless
    <3> QED
      BY <3>1 DEF Claims
  <2>4. Inviting(o)' \subseteq Inviting(o)
    BY <1>5 DEF Inviting, At, Seatless
  <2>5. Seats(o)' \subseteq Claims(o)
    BY <2>1, <2>2 DEF Seats, Claims
  <2> QED
    BY <2>3, <2>4, <2>5 DEF Claims
<1>7. missed \subseteq missed'
  BY DEF CommitAccept
<1>8. ASSUME NEW g \in Handlers, NEW o, At(g, "invite", "count")', hs'[g].org = o
      PROVE  hs'[g] = hs[g] /\ Came(o)' \subseteq Came(o)
  <2>1. hs'[g] = hs[g] /\ At(g, "invite", "count")
    BY <1>5, <1>8 DEF At, Seatless
  <2>2. o = hs[h].org => i \in missed'
    BY <1>8, <2>1 DEF CommitAccept, Counting
  <2>3. ASSUME NEW u \in Members(o)', users'[u].via \notin {0} \cup missed'
        PROVE  users'[u].via \in Came(o)
    <3>1. u # next
      BY <1>3, <2>2, <2>3 DEF Members
    <3>2. u \in Members(o) /\ users'[u] = users[u]
      BY <1>3, <2>3, <3>1 DEF Members
    <3> QED
      BY <1>7, <2>3, <3>2 DEF Came
  <2>4. Came(o)' = {users'[u].via : u \in Members(o)'} \ ({0} \cup missed')
    BY DEF Came, Members
  <2> QED
    BY <2>1, <2>3, <2>4
<1> QED
  BY <1>1, <1>6, <1>7, <1>8, SeatsFall, CountsKept

(* The first count of a request that invites. *)
LEMMA SeatsCount ==
  ASSUME IInv, CInv, GInv, NEW h \in Handlers, CountMembers(h)
  PROVE  CInv' /\ GInv'
<1> DEFINE p == hs[h].org
<1> DEFINE r == [hs[h] EXCEPT !.op = "invite", !.at = "count", !.seen = Cardinality(Members(p))]
<1>1. IInv' /\ UNCHANGED <<orgs, users, invites, missed>>
  BY TypeStep DEF Next, InvitesNext, CountMembers, people, papers
<1>2. r.op = "invite" /\ r.at = "count" /\ r.org = p /\ r.seen = Cardinality(Members(p))
  BY DEF CountMembers, Asked, At, IInv, TypeOK, Request
<1>3. hs' = [hs EXCEPT ![h] = r]
  BY DEF CountMembers, Become
<1> HIDE DEF r
<1>4. hs'[h] = r /\ \A g \in Handlers \ {h} : hs'[g] = hs[g]
  BY <1>3 DEF IInv, TypeOK
<1>5. ASSUME NEW o PROVE Claims(o)' = Claims(o) /\ Inviting(o)' = Inviting(o) /\ Came(o)' = Came(o)
  <2>1. Seats(o)' = Seats(o) /\ Came(o)' = Came(o)
    BY <1>1 DEF Seats, Pending, Members, Came
  <2>2. Inviting(o)' = Inviting(o)
    BY <1>2, <1>4 DEF Inviting, At, CountMembers, Asked
  <2>3. Accepts(o)' = Accepts(o) /\ \A g \in Accepts(o) : hs'[g] = hs[g]
    BY <1>2, <1>4 DEF Accepts, At, CountMembers, Asked
  <2>4. {hs'[g].on : g \in Accepts(o)'} = {hs[g].on : g \in Accepts(o)}
    BY <2>3
  <2> QED
    BY <2>1, <2>2, <2>4 DEF Claims
<1>6. CInv'
  BY <1>1, <1>5, SeatsFall
<1>7. Cardinality(Came(p)) <= Cardinality(Members(p))
  <2> DEFINE via == [u \in Members(p) |-> users[u].via]
  <2> DEFINE V == {users[u].via : u \in Members(p)}
  <2>1. via \in Surjection(Members(p), V)
    BY DEF Surjection
  <2>2. Came(p) \subseteq V
    BY DEF Came
  <2> HIDE DEF via, V, p
  <2>3. IsFiniteSet(V) /\ Cardinality(V) <= Cardinality(Members(p))
    BY <2>1, FewMembers, FS_Surjection
  <2>4. Cardinality(Came(p)) <= Cardinality(V)
    BY <2>2, <2>3, FS_Subset
  <2>5. Cardinality(V) \in Nat /\ Cardinality(Members(p)) \in Nat /\ Cardinality(Came(p)) \in Nat
    BY <2>3, FewMembers, FewRows, FS_CardinalityType
  <2> QED
    BY <2>3, <2>4, <2>5
<1>8. ASSUME NEW g \in Handlers, NEW o, At(g, "invite", "count")', hs'[g].org = o
      PROVE  Cardinality(Came(o)') <= hs'[g].seen
  <2>1. CASE g = h
    BY <1>2, <1>4, <1>5, <1>7, <1>8, <2>1
  <2>2. CASE g # h
    <3>1. hs'[g] = hs[g] /\ At(g, "invite", "count")
      BY <1>4, <1>8, <2>2 DEF At
    <3>2. Cardinality(Came(o)) <= hs[g].seen
      BY <1>8, <3>1 DEF GInv
    <3> QED
      BY <1>5, <3>1, <3>2
  <2> QED
    BY <2>1, <2>2
<1> QED
  BY <1>6, <1>8 DEF GInv

(* A request that has compared the limit: before it, at most one seat less  *)
(* than the limit; with it, one more for each request there can be.         *)
LEMMA SeatsLookInvite ==
  ASSUME IInv, CInv, GInv, NEW h \in Handlers, LookInvite(h)
  PROVE  CInv' /\ GInv'
<1>0. PICK p : p = hs[h].org
  OBVIOUS
<1>1. PICK e \in Emails, q \in Roles :
        Become(h, [Blank("invite", "commit") EXCEPT !.user = hs[h].user, !.org = hs[h].org,
                                                   !.email = e, !.to = q])
  BY DEF LookInvite
<1> DEFINE r == [Blank("invite", "commit") EXCEPT !.user = hs[h].user, !.org = hs[h].org,
                                                   !.email = e, !.to = q]
<1>2. r.op = "invite" /\ r.at = "commit" /\ r.org = p
  BY <1>0 DEF Blank
<1>3. hs' = [hs EXCEPT ![h] = r]
  BY <1>1 DEF Become
<1> HIDE DEF r
<1>4. hs'[h] = r /\ \A g \in Handlers \ {h} : hs'[g] = hs[g]
  BY <1>3 DEF IInv, TypeOK
<1>5. IInv' /\ UNCHANGED <<orgs, users, invites, missed>>
  BY TypeStep DEF Next, InvitesNext, LookInvite, people, papers
<1>6. \A o : Seats(o)' = Seats(o)
  BY <1>5 DEF Seats, Pending, Members
<1>7. ASSUME NEW o \in orgs, o # p
      PROVE  Held(o)' \subseteq Held(o) /\ Inviting(o)' \subseteq Inviting(o)
  <2>1. ASSUME NEW g \in Accepts(o)' PROVE hs'[g].on \in Claims(o)
    <3>1. hs'[g] = hs[g] /\ g \in Accepts(o)
      BY <1>2, <1>4, <2>1 DEF Accepts, At
    <3> QED
      BY <3>1 DEF Claims
  <2>2. Inviting(o)' \subseteq Inviting(o)
    BY <1>2, <1>4, <1>7 DEF Inviting, At
  <2>3. Claims(o)' \subseteq Claims(o)
    BY <1>6, <2>1 DEF Claims
  <2> QED
    BY <1>5, <2>2, <2>3 DEF Held
<1>8. Cardinality(Seats(p) \ missed) <= MemberLimit - 1
  <2> DEFINE P == Pending(p)
  <2> DEFINE C == Came(p)
  <2>1. IsFiniteSet(P) /\ Cardinality(P) \in Nat /\ IsFiniteSet(C) /\ Cardinality(C) \in Nat
    BY FewMembers, FewRows
  <2>2. Cardinality(C) <= hs[h].seen /\ hs[h].seen + Cardinality(P) < MemberLimit
    BY <1>0 DEF GInv, LookInvite, HasRoom
  <2>3. hs[h].seen \in Nat
    BY DEF LookInvite, At, IInv, TypeOK, Request
  <2>4. Seats(p) \ missed \subseteq P \cup C
    BY DEF Seats, Came
  <2> HIDE DEF P, C
  <2>5. IsFiniteSet(P \cup C) /\ Cardinality(P \cup C) = Cardinality(P) + Cardinality(C) - Cardinality(P \cap C)
    BY <2>1, FS_Union
  <2>6. Cardinality(P \cap C) \in Nat
    BY <2>1, FS_Intersection, FS_CardinalityType
  <2>7. Cardinality(Seats(p) \ missed) <= Cardinality(P \cup C) /\ Cardinality(Seats(p) \ missed) \in Nat
    BY <2>4, <2>5, FewSeats, FS_Subset
  <2> QED
    BY <2>1, <2>2, <2>3, <2>5, <2>6, <2>7, AccountsAssumption
<1>9. Cardinality(Held(p)') + Cardinality(Inviting(p)') <= Limit
  <2> DEFINE S == Seats(p) \ missed
  <2> DEFINE A == Accepts(p)'
  <2> DEFINE I == Inviting(p)'
  <2> DEFINE on == [g \in A |-> hs'[g].on]
  <2> DEFINE O == {hs'[g].on : g \in A}
  <2>1. A \subseteq Handlers /\ I \subseteq Handlers /\ A \cap I = {}
    BY DEF Accepts, Inviting, At
  <2>2. on \in Surjection(A, O)
    BY DEF Surjection
  <2>3. Held(p)' \subseteq S \cup O
    BY <1>5, <1>6 DEF Held, Claims
  <2> HIDE DEF S, A, I, on, O
  <2>4. IsFiniteSet(A) /\ IsFiniteSet(I) /\ IsFiniteSet(A \cup I)
    BY <2>1, AccountsAssumption, FS_Subset
  <2>5. Cardinality(A \cup I) <= Cardinality(Handlers)
    <3>1. A \cup I \subseteq Handlers
      BY <2>1
    <3> QED
      BY <3>1, AccountsAssumption, FS_Subset
  <2>6. Cardinality(A \cup I) = Cardinality(A) + Cardinality(I)
    <3>1. Cardinality(A \cup I) = Cardinality(A) + Cardinality(I) - Cardinality(A \cap I)
      BY <2>4, FS_Union
    <3>2. Cardinality(A \cap I) = 0
      BY <2>1, FS_EmptySet
    <3>3. Cardinality(A) \in Nat /\ Cardinality(I) \in Nat
      BY <2>4, FS_CardinalityType
    <3> QED
      BY <3>1, <3>2, <3>3
  <2>7. IsFiniteSet(O) /\ Cardinality(O) <= Cardinality(A)
    BY <2>2, <2>4, FS_Surjection
  <2>8. IsFiniteSet(S) /\ Cardinality(S) \in Nat /\ Cardinality(S) <= MemberLimit - 1
    BY <1>8, FewSeats DEF S
  <2>9. IsFiniteSet(S \cup O) /\ Cardinality(S \cup O) = Cardinality(S) + Cardinality(O) - Cardinality(S \cap O)
    BY <2>7, <2>8, FS_Union
  <2>10. /\ Cardinality(S \cap O) \in Nat /\ Cardinality(O) \in Nat
         /\ Cardinality(A) \in Nat /\ Cardinality(I) \in Nat
    BY <2>4, <2>7, <2>8, FS_Intersection, FS_CardinalityType
  <2>11. Cardinality(S \cup O) + Cardinality(I) <= Limit /\ Cardinality(S \cup O) \in Nat
    BY <2>5, <2>6, <2>7, <2>8, <2>9, <2>10, LimitOK, AccountsAssumption, FS_CardinalityType DEF Limit
  <2>12. Cardinality(Held(p)') <= Cardinality(S \cup O) /\ Cardinality(Held(p)') \in Nat
    BY <2>3, <2>9, FS_Subset, FS_CardinalityType
  <2> QED
    BY <2>10, <2>11, <2>12, LimitOK DEF I
<1>10. ASSUME NEW o \in orgs', o # p
       PROVE  Cardinality(Held(o)') + Cardinality(Inviting(o)') <= Limit
  <2>1. o \in orgs /\ Held(o)' \subseteq Held(o) /\ Inviting(o)' \subseteq Inviting(o)
    BY <1>5, <1>7, <1>10
  <2>2. /\ Cardinality(Held(o)') <= Cardinality(Held(o)) /\ Cardinality(Held(o)') \in Nat
        /\ Cardinality(Inviting(o)') <= Cardinality(Inviting(o)) /\ Cardinality(Inviting(o)') \in Nat
    BY <2>1, FewSeats, FS_Subset, FS_CardinalityType
  <2>3. Cardinality(Held(o)) + Cardinality(Inviting(o)) <= Limit
    BY <2>1 DEF CInv
  <2>4. Cardinality(Held(o)) \in Nat /\ Cardinality(Inviting(o)) \in Nat
    BY FewSeats
  <2> QED
    BY <2>2, <2>3, <2>4, LimitOK
<1>11. CInv'
  BY <1>9, <1>10 DEF CInv, Limit
<1>12. ASSUME NEW g \in Handlers, NEW o, At(g, "invite", "count")', hs'[g].org = o
       PROVE  hs'[g] = hs[g] /\ Came(o)' \subseteq Came(o)
  BY <1>2, <1>4, <1>5, <1>12 DEF At, Came, Members
<1> QED
  BY <1>5, <1>11, <1>12, CountsKept

(* The invitation that is inserted takes the place of the request for it.   *)
LEMMA SeatsInvite ==
  ASSUME IInv, CInv, GInv, NEW h \in Handlers, CommitInvite(h)
  PROVE  CInv' /\ GInv'
<1>0. PICK p : p = hs[h].org
  OBVIOUS
<1>1. orgs' = orgs /\ users' = users /\ missed' = missed /\ h \in Inviting(p)
  BY <1>0 DEF CommitInvite, people, Inviting, At
<1>2. \A i \in DOMAIN invites' \ {next} : i \in DOMAIN invites /\ invites'[i] = invites[i]
  BY DEF CommitInvite, With
<1>3. next \in DOMAIN invites' => invites'[next].org = p
  BY <1>0 DEF CommitInvite, With
<1>4. \A g \in Handlers : (g # h /\ hs'[g] = hs[g]) \/ hs'[g] = Free
  BY DEF CommitInvite, Finish, Become, IInv, TypeOK
<1>5. ASSUME NEW o PROVE Held(o)' \subseteq Held(o) \cup (IF o = p THEN {next} ELSE {})
  <2>1. Pending(o)' \subseteq Pending(o) \cup (IF o = p THEN {next} ELSE {})
    BY <1>2, <1>3 DEF Pending
  <2>2. ASSUME NEW g \in Accepts(o)' PROVE hs'[g].on \in Claims(o)
    BY <1>4, <2>2 DEF Accepts, At, Claims
  <2>3. {users'[u].via : u \in Members(o)'} = {users[u].via : u \in Members(o)}
    BY <1>1 DEF Members
  <2>4. Seats(o)' \subseteq Seats(o) \cup (IF o = p THEN {next} ELSE {})
    BY <2>1, <2>3 DEF Seats
  <2> QED
    BY <1>1, <2>2, <2>4 DEF Claims, Held
<1>6. ASSUME NEW o PROVE Inviting(o)' \subseteq Inviting(o) \ {h}
  BY <1>4 DEF Inviting, At
<1>7. ASSUME NEW o \in orgs'
      PROVE  Cardinality(Held(o)') + Cardinality(Inviting(o)') <= Limit
  <2>1. /\ IsFiniteSet(Held(o)) /\ Cardinality(Held(o)) \in Nat
        /\ IsFiniteSet(Inviting(o)) /\ Cardinality(Inviting(o)) \in Nat
        /\ Cardinality(Held(o)) + Cardinality(Inviting(o)) <= Limit
    BY <1>1, <1>7, FewSeats DEF CInv
  <2>2. CASE o # p
    <3>1. Held(o)' \subseteq Held(o) /\ Inviting(o)' \subseteq Inviting(o)
      BY <1>5, <1>6, <2>2
    <3>2. /\ Cardinality(Held(o)') <= Cardinality(Held(o)) /\ Cardinality(Held(o)') \in Nat
          /\ Cardinality(Inviting(o)') <= Cardinality(Inviting(o)) /\ Cardinality(Inviting(o)') \in Nat
      BY <2>1, <3>1, FS_Subset, FS_CardinalityType
    <3> QED
      BY <2>1, <3>2, LimitOK
  <2>3. CASE o = p
    <3>1. Held(o)' \subseteq Held(o) \cup {next}
      BY <1>5, <2>3
    <3>2. /\ IsFiniteSet(Held(o) \cup {next})
          /\ Cardinality(Held(o) \cup {next}) <= Cardinality(Held(o)) + 1
          /\ Cardinality(Held(o) \cup {next}) \in Nat
      <4>1. IsFiniteSet(Held(o) \cup {next})
        BY <2>1, FS_AddElement
      <4>2. Cardinality(Held(o) \cup {next}) =
              IF next \in Held(o) THEN Cardinality(Held(o)) ELSE Cardinality(Held(o)) + 1
        BY <2>1, FS_AddElement
      <4>3. Cardinality(Held(o) \cup {next}) \in Nat
        BY <4>1, FS_CardinalityType
      <4> QED
        BY <2>1, <4>1, <4>2, <4>3
    <3>3. Cardinality(Held(o)') <= Cardinality(Held(o) \cup {next}) /\ Cardinality(Held(o)') \in Nat
      BY <3>1, <3>2, FS_Subset, FS_CardinalityType
    <3>4. /\ IsFiniteSet(Inviting(o) \ {h})
          /\ Cardinality(Inviting(o) \ {h}) = Cardinality(Inviting(o)) - 1
      BY <1>1, <2>1, <2>3, FS_RemoveElement
    <3>5. Cardinality(Inviting(o)') <= Cardinality(Inviting(o) \ {h}) /\ Cardinality(Inviting(o)') \in Nat
      BY <1>6, <3>4, FS_Subset, FS_CardinalityType
    <3> QED
      BY <2>1, <3>2, <3>3, <3>4, <3>5, LimitOK
  <2> QED
    BY <2>2, <2>3
<1>8. CInv'
  BY <1>7 DEF CInv, Limit
<1>9. ASSUME NEW g \in Handlers, NEW o, At(g, "invite", "count")', hs'[g].org = o
      PROVE  hs'[g] = hs[g] /\ Came(o)' \subseteq Came(o)
  BY <1>1, <1>4, <1>9 DEF At, Came, Members
<1>10. IInv'
  BY TypeStep DEF Next, InvitesNext
<1> QED
  BY <1>8, <1>9, <1>10, CountsKept

(* A new organisation has the seat of its founder. *)
LEMMA SeatsSignup ==
  ASSUME IInv, CInv, GInv, NEW h \in Handlers, CommitSignup(h)
  PROVE  CInv' /\ GInv'
<1>0. PICK p : p = next
  OBVIOUS
<1>1. p \notin Ids /\ p # 0 /\ p \notin orgs /\ p \notin DOMAIN users
  BY <1>0, AccountsAssumption DEF IInv, TypeOK, UsersOK, Ids
<1>2. /\ orgs' = orgs \cup {p} /\ invites' = invites /\ missed' = missed /\ DOMAIN users' = DOMAIN users \cup {p}
      /\ \A u \in DOMAIN users : users'[u] = users[u]
      /\ users'[p].org = p /\ users'[p].via = p
  BY <1>0, <1>1 DEF CommitSignup, With, papers
<1>3. \A g \in Handlers : (g # h /\ hs'[g] = hs[g]) \/ Seatless(hs'[g])
  <2>1. Seatless([Blank("signup", "verify") EXCEPT !.on = next])
    BY DEF Seatless, Blank
  <2> QED
    BY <2>1 DEF CommitSignup, Become, IInv, TypeOK
<1>4. ASSUME NEW o PROVE Accepts(o)' \subseteq Accepts(o) /\ Inviting(o)' \subseteq Inviting(o)
  BY <1>3 DEF Accepts, Inviting, At, Seatless
<1>5. ASSUME NEW o, NEW g \in Accepts(o)' PROVE hs'[g] = hs[g]
  BY <1>3, <1>5 DEF Accepts, At, Seatless
<1>6. ASSUME NEW o \in orgs
      PROVE  Cardinality(Held(o)') + Cardinality(Inviting(o)') <= Limit
  <2>1. Members(o)' = Members(o) /\ Pending(o)' = Pending(o)
    BY <1>1, <1>2, <1>6 DEF Members, Pending
  <2>2. Seats(o)' = Seats(o)
    <3>1. {users'[u].via : u \in Members(o)} = {users[u].via : u \in Members(o)}
      BY <1>2 DEF Members
    <3> QED
      BY <2>1, <3>1 DEF Seats
  <2>3. {hs'[g].on : g \in Accepts(o)'} \subseteq {hs[g].on : g \in Accepts(o)}
    BY <1>4, <1>5
  <2>4. Held(o)' \subseteq Held(o) /\ Inviting(o)' \subseteq Inviting(o)
    BY <1>2, <1>4, <2>2, <2>3 DEF Held, Claims
  <2>5. /\ Cardinality(Held(o)') <= Cardinality(Held(o)) /\ Cardinality(Held(o)') \in Nat
        /\ Cardinality(Inviting(o)') <= Cardinality(Inviting(o)) /\ Cardinality(Inviting(o)') \in Nat
    BY <2>4, FewSeats, FS_Subset, FS_CardinalityType
  <2>6. Cardinality(Held(o)) + Cardinality(Inviting(o)) <= Limit
    BY <1>6 DEF CInv
  <2>7. Cardinality(Held(o)) \in Nat /\ Cardinality(Inviting(o)) \in Nat
    BY FewSeats
  <2> QED
    BY <2>5, <2>6, <2>7, LimitOK
<1>7. Cardinality(Held(p)') + Cardinality(Inviting(p)') <= Limit
  <2>1. Accepts(p) = {} /\ Inviting(p) = {}
    BY <1>1 DEF Accepts, Inviting, At, IInv, TypeOK, Request
  <2>2. Pending(p)' = {}
    BY <1>1, <1>2 DEF Pending, IInv, TypeOK, InvitesOK
  <2>3. Members(p)' = {p}
    BY <1>1, <1>2 DEF Members, IInv, TypeOK, UsersOK
  <2>4. Held(p)' \subseteq {p} /\ Inviting(p)' = {}
    BY <1>2, <1>4, <2>1, <2>2, <2>3 DEF Held, Claims, Seats
  <2>5. Cardinality({p}) = 1 /\ IsFiniteSet({p}) /\ Cardinality({}) = 0
    BY FS_Singleton, FS_EmptySet
  <2>6. Cardinality(Held(p)') <= 1 /\ Cardinality(Held(p)') \in Nat
    BY <2>4, <2>5, FS_Subset, FS_CardinalityType
  <2>7. Cardinality(Inviting(p)') = 0
    BY <2>4, <2>5
  <2> QED
    BY <2>6, <2>7, LimitOK
<1>8. CInv'
  BY <1>2, <1>6, <1>7 DEF CInv, Limit
<1>9. ASSUME NEW g \in Handlers, NEW o, At(g, "invite", "count")', hs'[g].org = o
      PROVE  hs'[g] = hs[g] /\ Came(o)' \subseteq Came(o)
  <2>1. hs'[g] = hs[g] /\ hs[g] \in Request
    BY <1>3, <1>9 DEF At, Seatless, IInv, TypeOK
  <2>2. o # p
    BY <1>1, <1>9, <2>1 DEF Request
  <2>3. Members(o)' = Members(o)
    BY <1>1, <1>2, <2>1, <2>2 DEF Members
  <2>4. \A u \in Members(o) : users'[u] = users[u]
    BY <1>2 DEF Members
  <2>5. Came(o)' \subseteq Came(o)
    BY <1>2, <2>1, <2>3, <2>4 DEF Came
  <2> QED
    BY <2>1, <2>5
<1>10. IInv'
  BY TypeStep DEF Next, SessionsNext
<1> QED
  BY <1>8, <1>9, <1>10, CountsKept

(* CInv is inductive: an invitation turns an inviting request into a seat,  *)
(* an acceptance keeps the seat it was.                                     *)
LEMMA SeatsStep ==
  ASSUME IInv, CInv, GInv, [Next]_vars
  PROVE  (CInv /\ GInv)'
<1> DEFINE NoInvite ==
      /\ missed' = missed
      /\ \A i \in DOMAIN invites' :
           /\ i \in DOMAIN invites /\ invites'[i].org = invites[i].org
           /\ ~invites'[i].accepted => ~invites[i].accepted
<1> DEFINE NoMember ==
      \A u \in DOMAIN users' :
        \/ users'[u].via = 0
        \/ u \in DOMAIN users /\ users'[u].org = users[u].org /\ users'[u].via = users[u].via
<1> DEFINE NoSeat == \A g \in Handlers : hs'[g] = hs[g] \/ Seatless(hs'[g])
<1>1. IInv'
  BY TypeStep
<1>2. (orgs' \subseteq orgs /\ NoInvite /\ NoMember /\ NoSeat) => (CInv /\ GInv)'
  BY <1>1, SeatsKept
<1>3. ASSUME NEW h \in Handlers, NEW r, Become(h, r), Seatless(r) PROVE NoSeat
  BY <1>3 DEF Become, IInv, TypeOK
<1>4. UNCHANGED <<invites, missed>> => NoInvite
  OBVIOUS
<1>5. UNCHANGED users => NoMember
  OBVIOUS
<1>6. \A gone : Withdraw(gone) /\ missed' = missed => NoInvite
  BY DEF Withdraw, Without
<1>7. ASSUME NEW h \in Handlers,
             \/ Enter(h) \/ Die(h) \/ Edit(h) \/ LookRole(h) \/ LookRemove(h) \/ LookRegister(h)
             \/ LookRevoke(h) \/ LookSignup(h) \/ LookForgot(h) \/ LookReset(h) \/ SpendCode(h)
      PROVE  (CInv /\ GInv)'
  <2>1. \/ UNCHANGED people /\ NoSeat
        \/ CountMembers(h) \/ LookInvite(h) \/ LookAccept(h)
    BY <1>7, Looks
  <2>2. UNCHANGED <<invites, missed>>
    BY <1>7, PapersOnly DEF SessionsNext
  <2> QED
    BY <1>2, <1>4, <1>5, <2>1, <2>2, SeatsCount, SeatsLookInvite, SeatsLookAccept DEF people
<1>8. ASSUME NEW h \in Handlers, Audit(h) \/ CommitForgot(h) \/ CommitRevoke(h) PROVE (CInv /\ GInv)'
  <2>1. UNCHANGED <<orgs, users>> /\ Finish(h)
    BY <1>8 DEF Audit, CommitForgot, CommitRevoke, people
  <2>2. NoInvite
    BY <1>4, <1>6, <1>8 DEF Audit, CommitForgot, CommitRevoke, papers
  <2>3. NoSeat
    BY <1>3, <2>1 DEF Finish, Seatless
  <2> QED
    BY <1>2, <1>5, <2>1, <2>2, <2>3
<1>9. ASSUME NEW h \in Handlers, CommitRegister(h) PROVE (CInv /\ GInv)'
  <2>1. UNCHANGED <<orgs, invites, missed>> /\ Finish(h)
    BY <1>9 DEF CommitRegister, papers
  <2>2. NoMember
    BY <1>9 DEF CommitRegister, With
  <2>3. NoSeat
    BY <1>3, <2>1 DEF Finish, Seatless
  <2> QED
    BY <1>2, <1>4, <2>1, <2>2, <2>3
<1>10. ASSUME NEW h \in Handlers, CommitRole(h) PROVE (CInv /\ GInv)'
  <2>1. UNCHANGED <<orgs, invites, missed>>
    BY <1>10 DEF CommitRole, papers
  <2>2. NoMember
    <3>1. users' = [users EXCEPT ![hs[h].on].role = hs[h].to]
      BY <1>10 DEF CommitRole
    <3>2. \A u \in DOMAIN users :
            users[u] \in [org : orgs, email : Emails, role : Roles, secret : Nat, via : {0} \cup Ids]
      BY DEF IInv, TypeOK, UsersOK
    <3> QED
      BY <3>1, <3>2
  <2>3. NoSeat
    BY <1>10, ChangedApart DEF CommitRole
  <2> QED
    BY <1>2, <1>4, <2>1, <2>2, <2>3
<1>11. ASSUME NEW h \in Handlers, CommitRemove(h) PROVE (CInv /\ GInv)'
  <2>1. orgs' = orgs /\ NoMember
    BY <1>11 DEF CommitRemove, Without
  <2>2. NoInvite
    BY <1>6, <1>11 DEF CommitRemove
  <2>3. NoSeat
    BY <1>11, ChangedApart DEF CommitRemove
  <2> QED
    BY <1>2, <2>1, <2>2, <2>3
<1>12. ASSUME NEW o, Leave(o), missed' = missed, NoSeat PROVE (CInv /\ GInv)'
  <2>1. orgs' \subseteq orgs /\ NoMember
    BY <1>12 DEF Leave, Without
  <2>2. NoInvite
    BY <1>6, <1>12 DEF Leave
  <2> QED
    BY <1>2, <1>12, <2>1, <2>2
<1>13. ASSUME NEW h \in Handlers, CommitDelete(h) PROVE (CInv /\ GInv)'
  <2>1. NoSeat
    BY <1>3, <1>13 DEF CommitDelete, Finish, Seatless
  <2> QED
    BY <1>12, <1>13, <2>1 DEF CommitDelete
<1>15. ASSUME NEW h \in Handlers, Login(h) PROVE (CInv /\ GInv)'
  <2>1. PICK u \in DOMAIN users :
          Begin(h, [Blank("login", "login") EXCEPT !.on = u, !.secret = users[u].secret, !.late = Resetting(u)])
    BY <1>15 DEF Login
  <2> DEFINE r == [Blank("login", "login") EXCEPT !.on = u, !.secret = users[u].secret, !.late = Resetting(u)]
  <2>2. Seatless(r)
    BY DEF Seatless, Blank
  <2>3. UNCHANGED <<people, papers, audits, next, crossed>> /\ Become(h, r)
    BY <1>15, <2>1 DEF Login, Begin
  <2> HIDE DEF r
  <2>4. NoSeat
    BY <1>3, <2>2, <2>3
  <2> QED
    BY <1>2, <1>4, <1>5, <2>3, <2>4 DEF people, papers
<1>16. ASSUME NEW h \in Handlers, Verify(h) PROVE (CInv /\ GInv)'
  <2> DEFINE r == [hs[h] EXCEPT !.at = "login", !.late = Resetting(hs[h].on)]
  <2>1. Seatless(r)
    BY <1>16 DEF Verify, Seatless, IInv, TypeOK, Request
  <2>2. UNCHANGED <<people, papers, audits, next, crossed>> /\ Become(h, r)
    BY <1>16 DEF Verify
  <2> HIDE DEF r
  <2>3. NoSeat
    BY <1>3, <2>1, <2>2
  <2> QED
    BY <1>2, <1>4, <1>5, <2>2, <2>3 DEF people, papers
<1>17. ASSUME NEW h \in Handlers, OpenSession(h) PROVE (CInv /\ GInv)'
  <2>1. Seatless(Free) /\ Seatless(ToAudit(hs[h].on))
    BY DEF Seatless, ToAudit, Blank
  <2>2. NoSeat
    BY <1>3, <1>17, <2>1 DEF OpenSession, Finish
  <2> QED
    BY <1>2, <1>4, <1>5, <1>17, <2>2 DEF OpenSession, papers
<1>18. ASSUME NEW h \in Handlers, Sweep(h) PROVE (CInv /\ GInv)'
  <2>1. ASSUME NEW g \in Handlers, hs'[g] # hs[g] PROVE Seatless(hs'[g])
    <3>1. \/ hs[g] # Free /\ hs[g].at = "login" /\ hs'[g] = [hs[g] EXCEPT !.late = TRUE]
          \/ g = h /\ At(h, "reset", "sweep") /\ hs'[g] = [hs[g] EXCEPT !.at = "commit", !.swept = Swept(hs[h].user)]
      BY <1>18, <2>1 DEF Sweep
    <3>2. hs[g] \in Request
      BY <3>1 DEF At, IInv, TypeOK
    <3> QED
      BY <3>1, <3>2 DEF At, Request, Seatless
  <2>2. UNCHANGED <<orgs, users, invites, missed>>
    BY <1>18 DEF Sweep, people, papers
  <2> QED
    BY <1>2, <1>4, <1>5, <2>1, <2>2
<1>19. ASSUME NEW h \in Handlers, CommitReset(h) PROVE (CInv /\ GInv)'
  <2>1. UNCHANGED <<orgs, invites, missed>> /\ Finish(h)
    BY <1>19 DEF CommitReset
  <2>2. NoMember
    <3>1. users' = [users EXCEPT ![hs[h].user].secret = @ + 1]
      BY <1>19 DEF CommitReset
    <3>2. \A u \in DOMAIN users :
            users[u] \in [org : orgs, email : Emails, role : Roles, secret : Nat, via : {0} \cup Ids]
      BY DEF IInv, TypeOK, UsersOK
    <3> QED
      BY <3>1, <3>2
  <2>3. NoSeat
    BY <1>3, <2>1 DEF Finish, Seatless
  <2> QED
    BY <1>2, <1>4, <2>1, <2>2, <2>3
<1>20. CASE UNCHANGED vars
  BY <1>2, <1>4, <1>5, <1>20 DEF vars, people, papers
<1> HIDE DEF NoInvite, NoMember, NoSeat
<1>21. ASSUME NEW h \in Handlers, MembersNext(h) \/ InvitesNext(h) \/ SessionsNext(h) \/ OtherNext(h)
       PROVE  (CInv /\ GInv)'
  BY <1>7, <1>8, <1>9, <1>10, <1>11, <1>13, <1>15, <1>16, <1>17, <1>18, <1>19, <1>21, SeatsCount,
     SeatsLookInvite, SeatsInvite, SeatsLookAccept, SeatsAccept, SeatsSignup
     DEF MembersNext, InvitesNext, SessionsNext, OtherNext
<1> QED
  BY <1>20, <1>21 DEF Next

(* The members' limit is exceeded by at most one seat for each of the other *)
(* requests that can be under way, and by those who joined between the two  *)
(* counts of a request to invite.                                           *)
THEOREM SeatsWithinLimit == Spec => []SeatsBounded
<1>1. Init => IInv /\ CInv /\ GInv
  <2>1. Init => GInv
    BY DEF Init, GInv, At
  <2> QED
    BY <2>1, TypeInit DEF Init, CInv
<1>2. IInv /\ CInv /\ GInv /\ [Next]_vars => IInv' /\ (CInv /\ GInv)'
  BY TypeStep, SeatsStep
<1>3. IInv /\ CInv => SeatsBounded
  <2>1. ASSUME IInv, CInv, NEW o \in orgs
        PROVE  Cardinality(Seats(o) \ missed) <= MemberLimit + Cardinality(Handlers) - 1
    <3>1. Cardinality(Held(o)) + Cardinality(Inviting(o)) <= Limit
      BY <2>1 DEF CInv
    <3> QED
      BY <2>1, <3>1, FewSeats, LimitOK DEF Limit
  <2> QED
    BY <2>1 DEF SeatsBounded
<1> QED
  BY <1>1, <1>2, <1>3, PTL DEF Spec
=============================================================================
