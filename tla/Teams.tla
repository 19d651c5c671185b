------------------------------- MODULE Teams -------------------------------
(***************************************************************************)
(* Accounts, teams and invitations: service/auth.go (Register, GrantAdmin),*)
(* service/teams.go and service/authorizer.go over the tables users, teams,*)
(* team_members and email_outbox, one SQL statement per step.  Create and  *)
(* Invite write inside a transaction; the checks of Invite run before it,  *)
(* each on the state of its own moment.  What happens to a committed       *)
(* invitation is the module Outbox, what the relay is shown to implement.  *)
(*                                                                         *)
(* An account is named by its e-mail address (unique, by the collation of  *)
(* the column); names, subjects and bodies are left out.                   *)
(***************************************************************************)
EXTENDS Integers, FiniteSets

CONSTANTS
    Emails,      \* addresses
    Requests,    \* concurrent requests
    Nobody,      \* no request, no user
    MaxTeams,    \* bound: AUTO_INCREMENT ids of teams
    MaxMails,    \* bound: AUTO_INCREMENT ids of messages
    MaxCalls,    \* bound: calls made in one behaviour
    MaxAttempts  \* Config.MaxAttempts of the relay

ASSUME NobodyAssumption == Nobody \notin Requests \cup Emails
ASSUME EmailsAssumption == Emails # {}
ASSUME BoundsAssumption == {MaxTeams, MaxMails, MaxCalls, MaxAttempts} \subseteq Nat

TeamIds == 1 .. MaxTeams
MailIds == 1 .. MaxMails
Roles == {"none", "member", "admin", "owner"}

VARIABLES
    users,       \* email -> "none", or the account's global role
    creator,     \* team -> created_by, Nobody for no such team
    member,      \* team -> user -> role in team_members
    nextTeam,    \* AUTO_INCREMENT of teams
    key,         \* <<team, user>> -> the transaction that inserted it and is open
    envelope,    \* message -> <<team, recipient>>
    mail,        \* message -> its status in the outbox
    attempts,    \* message -> attempts
    deliveries,  \* message -> how often the provider accepted it
    req,         \* the requests
    calls        \* how many calls were made

outboxVars == <<envelope, mail, attempts, deliveries>>
tables == <<users, creator, member, nextTeam, key>>
vars == <<tables, outboxVars, req, calls>>

Box == INSTANCE Outbox WITH Ids <- MailIds, status <- mail

Pairs == TeamIds \X Emails
Kinds == {"create", "invite", "grant"}

Request == [pc: {"idle", "insert", "role", "lookup", "add", "enqueue", "commit",
                 "grant", "recheck"},
            kind: Kinds, actor: Emails, team: 0 .. MaxTeams, email: Emails,
            answer: {"none", "ok", "conflict", "forbidden", "not found", "error"}]

(* The type of the tables and of the requests.                             *)
TypeOK ==
    /\ users \in [Emails -> {"none", "user", "admin"}]
    /\ creator \in [TeamIds -> Emails \cup {Nobody}]
    /\ member \in [TeamIds -> [Emails -> Roles]]
    /\ nextTeam \in 1 .. MaxTeams + 1
    /\ key \in [Pairs -> Requests \cup {Nobody}]
    /\ envelope \in [MailIds -> Pairs \cup {<<>>}]
    /\ mail \in [MailIds -> {"none", "pending", "failed", "deleted"}]
    /\ attempts \in [MailIds -> 0 .. MaxAttempts]
    /\ deliveries \in [MailIds -> Nat]
    /\ req \in [Requests -> Request]
    /\ calls \in 0 .. MaxCalls

SomeEmail == CHOOSE e \in Emails : TRUE
Answered(answer) == [pc |-> "idle", kind |-> "create", actor |-> SomeEmail, team |-> 0,
                     email |-> SomeEmail, answer |-> answer]

Init ==
    /\ users = [e \in Emails |-> "none"]
    /\ creator = [t \in TeamIds |-> Nobody]
    /\ member = [t \in TeamIds |-> [e \in Emails |-> "none"]]
    /\ nextTeam = 1
    /\ key = [p \in Pairs |-> Nobody]
    /\ envelope = [m \in MailIds |-> <<>>]
    /\ Box!AbstractInit
    /\ req = [r \in Requests |-> Answered("none")]
    /\ calls = 0

Goto(r, pc) == req' = [req EXCEPT ![r].pc = pc]
Answer(r, answer) == req' = [req EXCEPT ![r] = Answered(answer)]

-----------------------------------------------------------------------------
(* UserRepo.Create: one INSERT, for an address that is free.               *)
InsertUser(e) ==
    /\ users[e] = "none"
    /\ users' = [users EXCEPT ![e] = "user"]

Register ==
    /\ \E e \in Emails : InsertUser(e)
    /\ UNCHANGED <<creator, member, nextTeam, key, outboxVars, req, calls>>

(* A registered user calls, naming a team that may not exist and an address*)
(* that may have no account; the operator may run the command grant-admin. *)
Begin(r, pc, kind, actor, team, email) ==
    /\ req[r].pc = "idle" /\ calls < MaxCalls
    /\ calls' = calls + 1
    /\ req' = [req EXCEPT ![r] = [pc |-> pc, kind |-> kind, actor |-> actor, team |-> team,
                                 email |-> email, answer |-> "none"]]
    /\ UNCHANGED <<tables, outboxVars>>

Accounts == {e \in Emails : users[e] # "none"}

createHandler(r) == \E u \in Accounts : Begin(r, "insert", "create", u, 0, SomeEmail)

inviteHandler(r) ==
    \E u \in Accounts, t \in TeamIds, e \in Emails : Begin(r, "role", "invite", u, t, e)

grantAdmin(r) == \E e \in Emails : Begin(r, "grant", "grant", SomeEmail, 0, e)

(* TeamRepo.Create, then AddMember with the role owner, in one transaction.*)
InsertTeam(r) ==
    /\ req[r].pc = "insert" /\ nextTeam <= MaxTeams
    /\ nextTeam' = nextTeam + 1
    /\ req' = [req EXCEPT ![r].team = nextTeam, ![r].pc = "add"]
    /\ UNCHANGED <<users, creator, member, key, outboxVars, calls>>

-----------------------------------------------------------------------------
(* teamRoleRank and AtLeast: an unknown role ranks below all.              *)
Rank(role) == CASE role = "member" -> 1 [] role = "admin" -> 2 [] role = "owner" -> 3 [] OTHER -> 0

(* Mutant: any role will do.                                               *)
AnyRole(role, min) == role # "none"

AtLeast(role, min) == Rank(role) >= Rank(min)

(* TeamRepo.MemberRole, of the committed rows.                             *)
MemberRole(t, u) == member[t][u]

(* Authorizer.RequireTeamRole: "ok" or the error.                          *)
RequireTeamRole(u, t, min) ==
    IF users[u] = "admin" THEN "ok"
    ELSE IF MemberRole(t, u) = "none" THEN "not found"
    ELSE IF AtLeast(MemberRole(t, u), min) THEN "ok" ELSE "forbidden"

Authorize(r) ==
    /\ req[r].pc = "role"
    /\ LET verdict == RequireTeamRole(req[r].actor, req[r].team, "admin")
       IN  IF verdict = "ok" THEN Goto(r, "lookup") ELSE Answer(r, verdict)
    /\ UNCHANGED <<tables, outboxVars, calls>>

(* UserRepo.ByEmail, outside the transaction too.                          *)
Lookup(r) ==
    /\ req[r].pc = "lookup"
    /\ IF users[req[r].email] = "none" THEN Answer(r, "not found") ELSE Goto(r, "add")
    /\ UNCHANGED <<tables, outboxVars, calls>>

(* Whom AddMember adds: the creator of a new team, or the invitee.         *)
Whom(q) == IF q.kind = "create" THEN q.actor ELSE q.email
Added(q) == <<q.team, Whom(q)>>

(* Mutant: a global role for a member of a team.                           *)
GlobalRoleGiven(q) == IF q.kind = "create" THEN "owner" ELSE "user"

RoleGiven(q) == IF q.kind = "create" THEN "owner" ELSE "member"

(* Mutant: ON DUPLICATE KEY UPDATE.                                        *)
Upsert(r) ==
    LET q == req[r] p == Added(q)
    IN  /\ q.pc = "add" /\ key[p] = Nobody
        /\ IF q.kind = "invite" /\ creator[q.team] = Nobody
           THEN Answer(r, "not found") /\ UNCHANGED key
           ELSE /\ Goto(r, IF q.kind = "create" THEN "commit" ELSE "enqueue")
                /\ key' = [key EXCEPT ![p] = r]
        /\ UNCHANGED <<users, creator, member, nextTeam, outboxVars, calls>>

(* Mutant: a member who is invited again is answered 200.                  *)
DuplicateIsFine(r) ==
    LET q == req[r] p == Added(q)
    IN  /\ q.pc = "add" /\ key[p] = Nobody
        /\ CASE q.kind = "invite" /\ creator[q.team] = Nobody ->
                   Answer(r, "not found") /\ UNCHANGED key
             [] member[q.team][Whom(q)] # "none" -> Answer(r, "ok") /\ UNCHANGED key
             [] OTHER ->
                   /\ Goto(r, IF q.kind = "create" THEN "commit" ELSE "enqueue")
                   /\ key' = [key EXCEPT ![p] = r]
        /\ UNCHANGED <<users, creator, member, nextTeam, outboxVars, calls>>

(* TeamRepo.AddMember: the INSERT waits for a transaction that has inserted*)
(* the same key, then finds a duplicate, a missing team, or its place.     *)
AddMember(r) ==
    LET q == req[r] p == Added(q)
    IN  /\ q.pc = "add" /\ key[p] = Nobody
        /\ CASE q.kind = "invite" /\ creator[q.team] = Nobody ->
                   Answer(r, "not found") /\ UNCHANGED key
             [] member[q.team][Whom(q)] # "none" -> Answer(r, "conflict") /\ UNCHANGED key
             [] OTHER ->
                   /\ Goto(r, IF q.kind = "create" THEN "commit" ELSE "enqueue")
                   /\ key' = [key EXCEPT ![p] = r]
        /\ UNCHANGED <<users, creator, member, nextTeam, outboxVars, calls>>

FreeMails == {m \in MailIds : mail[m] = "none"}

(* Mutant: the invitation is enqueued in a transaction of its own.         *)
EnqueueOutsideTx(r) ==
    /\ req[r].pc = "enqueue"
    /\ \E m \in FreeMails : /\ Box!Commit(m)
                            /\ envelope' = [envelope EXCEPT ![m] = Added(req[r])]
    /\ Goto(r, "commit")
    /\ UNCHANGED <<tables, calls>>

(* OutboxRepo.Enqueue on the same transaction: nobody sees the row yet.    *)
Enqueue(r) ==
    /\ req[r].pc = "enqueue" /\ FreeMails # {}
    /\ Goto(r, "commit")
    /\ UNCHANGED <<tables, outboxVars, calls>>

Unlocked(r) == [p \in Pairs |-> IF key[p] = r THEN Nobody ELSE key[p]]

(* The transaction commits and the caller is told answer: the team and its *)
(* owner, or the membership and its invitation, appear together.           *)
Stored(r, answer) ==
    LET q == req[r] p == Added(q)
    IN  /\ q.pc = "commit"
        /\ creator' = IF q.kind = "create" THEN [creator EXCEPT ![q.team] = q.actor] ELSE creator
        /\ member' = [member EXCEPT ![q.team][Whom(q)] = RoleGiven(q)]
        /\ IF q.kind = "create" THEN UNCHANGED outboxVars
           ELSE \E m \in FreeMails : /\ Box!Commit(m)
                                     /\ envelope' = [envelope EXCEPT ![m] = p]
        /\ key' = Unlocked(r)
        /\ Answer(r, answer)
        /\ UNCHANGED <<users, nextTeam, calls>>

Commit(r) == Stored(r, "ok")

(* The COMMIT takes effect and its acknowledgement is lost: TxManager.Do   *)
(* returns an error, and the caller is told that the request failed.       *)
CommitLost(r) == Stored(r, "error")

(* A statement or the commit fails, or the caller goes away: rollback.     *)
Abort(r) ==
    /\ req[r].pc # "idle"
    /\ key' = Unlocked(r)
    /\ Answer(r, "error")
    /\ UNCHANGED <<users, creator, member, nextTeam, outboxVars, calls>>

-----------------------------------------------------------------------------
(* UserRepo.GrantAdmin: the UPDATE reports the rows it changed, unless the *)
(* report is lost with the connection; none means an admin already, or     *)
(* nobody, which a second statement tells apart.                           *)
GrantAdmin(r) ==
    LET e == req[r].email
    IN  /\ req[r].pc = "grant"
        /\ IF users[e] = "user"
           THEN /\ users' = [users EXCEPT ![e] = "admin"]
                /\ \E answer \in {"ok", "error"} : Answer(r, answer)
           ELSE UNCHANGED users /\ Goto(r, "recheck")
        /\ UNCHANGED <<creator, member, nextTeam, key, outboxVars, calls>>

GrantRechecks(r) ==
    /\ req[r].pc = "recheck"
    /\ Answer(r, IF users[req[r].email] = "none" THEN "not found" ELSE "ok")
    /\ UNCHANGED <<tables, outboxVars, calls>>

(* The relay, as far as it can be seen from here; bounded by one delivery. *)
Relay ==
    /\ \/ \E m \in MailIds : deliveries[m] = 0 /\ mail[m] = "pending" /\ Box!Deliver({m})
       \/ \E m \in MailIds : \/ Box!Resolve({m}, {}, {})
                             \/ Box!Resolve({}, {m}, {})
                             \/ Box!Resolve({}, {}, {m})
    /\ UNCHANGED <<tables, envelope, req, calls>>

Next ==
    \/ Register \/ Relay
    \/ \E r \in Requests :
          \/ createHandler(r) \/ inviteHandler(r) \/ grantAdmin(r) \/ InsertTeam(r) \/ Authorize(r) \/ Lookup(r) \/ AddMember(r)
          \/ Enqueue(r) \/ Commit(r) \/ CommitLost(r) \/ Abort(r) \/ GrantAdmin(r) \/ GrantRechecks(r)

Spec == Init /\ [][Next]_vars

-----------------------------------------------------------------------------
(* The messages ever committed for t and u.                                *)
Invitations(t, u) == {m \in MailIds : envelope[m] = <<t, u>>}

(* A membership made by an invitation has exactly one invitation e-mail, a *)
(* founder's and a missing one have none: the two rows are one transaction,*)
(* and two invitations of the same user do not both succeed.  A team is    *)
(* never seen without its owner, who is its creator.                       *)
MembershipsAccountedFor ==
    /\ \A t \in TeamIds, u \in Emails :
          Cardinality(Invitations(t, u)) = IF member[t][u] \in {"none", "owner"} THEN 0 ELSE 1
    /\ \A t \in TeamIds :
          {u \in Emails : member[t][u] = "owner"} = {creator[t]} \ {Nobody}

(* Roles are only ever gained: an owner who is invited stays owner, and a  *)
(* global admin stays admin.                                               *)
RolesOnlyGained ==
    [][/\ \A t \in TeamIds, u \in Emails : member[t][u] # "none" => member'[t][u] = member[t][u]
       /\ \A u \in Emails : users[u] = "admin" => users'[u] = "admin"]_vars

(* A membership by invitation comes from someone entitled to invite, at    *)
(* the moment it appears, although the check was made before.              *)
InvitedByAdmin ==
    [][\A t \in TeamIds, u \in Emails : member[t][u] = "none" /\ member'[t][u] = "member" =>
          \E r \in Requests :
              /\ req[r].pc = "commit" /\ Added(req[r]) = <<t, u>>
              /\ users[req[r].actor] = "admin" \/ member[t][req[r].actor] \in {"admin", "owner"}]_vars

(* What the answer to r says of the step that gives it.                    *)
AnswerHolds(r) ==
    LET answer == req'[r].answer
        there == member[req[r].team][Whom(req[r])]
    IN  /\ answer = "ok" => there = "none" /\ member' # member
        /\ answer \in {"conflict", "forbidden", "not found"} => member' = member
        /\ answer = "conflict" => there # "none"

(* The answer is the truth: "ok" for the request that made the change and  *)
(* for no other, a refusal for one that changed nothing, and "conflict"    *)
(* only for one that found the member there.  An error says neither: the   *)
(* commit may have taken effect, and repeating the request then conflicts. *)
InviteAnswers ==
    [][\A r \in Requests :
          req[r].kind \in {"create", "invite"} /\ req[r].pc # "idle" /\ req'[r].pc = "idle" =>
              AnswerHolds(r)]_vars

-----------------------------------------------------------------------------
(* The inductive invariant behind the properties above.                    *)

(* Where a request is says what it is, and a right once checked is kept.   *)
ReqOK(q) ==
    /\ q.pc = "insert" => q.kind = "create"
    /\ q.pc \in {"role", "lookup", "enqueue"} => q.kind = "invite"
    /\ q.pc \in {"add", "commit"} => q.kind \in {"create", "invite"}
    /\ q.pc \in {"grant", "recheck"} => q.kind = "grant"
    /\ q.pc \in {"role", "lookup", "add", "enqueue", "commit"} => q.team \in TeamIds
    /\ q.kind = "invite" /\ q.pc \in {"lookup", "add", "enqueue", "commit"} =>
          users[q.actor] = "admin" \/ member[q.team][q.actor] \in {"admin", "owner"}

ReqInv == \A r \in Requests : ReqOK(req[r])

(* The index entry of a membership about to be committed is its request's, *)
(* and the membership is not there yet.                                    *)
KeyInv ==
    \A r \in Requests :
        /\ \A p \in Pairs :
              key[p] = r <=> req[r].pc \in {"enqueue", "commit"} /\ Added(req[r]) = p
        /\ req[r].pc \in {"enqueue", "commit"} =>
              /\ member[req[r].team][Whom(req[r])] = "none"
              /\ req[r].kind = "invite" => creator[req[r].team] # Nobody

Founding(r) == req[r].kind = "create" /\ req[r].pc \in {"add", "commit"}

(* A team exists with its owner or not at all, and an id that was handed   *)
(* out belongs to one team.                                                *)
TeamInv ==
    /\ \A t \in TeamIds :
          /\ t >= nextTeam => creator[t] = Nobody
          /\ creator[t] = Nobody => \A u \in Emails : member[t][u] = "none"
          /\ \A u \in Emails : member[t][u] = "owner" <=> creator[t] = u
    /\ \A r \in Requests : Founding(r) => req[r].team < nextTeam /\ creator[req[r].team] = Nobody
    /\ \A q, r \in Requests : Founding(q) /\ Founding(r) /\ q # r => req[q].team # req[r].team

(* Messages and memberships by invitation belong together one to one.      *)
MailInv ==
    /\ \A m \in MailIds : mail[m] = "none" <=> envelope[m] = <<>>
    /\ \A t \in TeamIds, u \in Emails :
          IF member[t][u] \in {"none", "owner"}
          THEN \A m \in MailIds : envelope[m] # <<t, u>>
          ELSE \E m \in MailIds : /\ envelope[m] = <<t, u>>
                                  /\ \A n \in MailIds : envelope[n] = <<t, u>> => n = m

TeamsInv == TypeOK /\ ReqInv /\ KeyInv /\ TeamInv /\ MailInv
=============================================================================
