-------------------------- MODULE AccountDirectory --------------------------
\* The accounts of the console over PostgreSQL (apps/api/src/auth): sign-up,
\* sessions, what administrators change, and the personal cabinet that the first
\* request of an account makes. Requests run between each other's queries.
EXTENDS Naturals, FiniteSets

CONSTANTS Accounts, Root, Roles, Slots, RequestsLimit   \* Root: the account of bootstrapAdmin

NoRole == "no role"
ASSUME AccountsAssumption ==
    /\ Root \in Accounts /\ "admin" \in Roles /\ NoRole \notin Roles
    /\ RequestsLimit \in Nat

VARIABLES
    accounts,   \* auth_users: account -> access status and role, "absent" before it signs up
    sessions,   \* auth_sessions: who they belong to
    cabinetsOf, \* personal workspaces: account -> how many it has
    slot,       \* requests under way, by slot
    made        \* requests so far

accountVars == <<accounts, sessions, cabinetsOf, slot, made>>

Free == [pc |-> "free"]
Account(s, r) == [status |-> s, role |-> r]
IsAdmin(u) == u.status = "active" /\ u.role = "admin"
HasActiveAdmin(all) == \E a \in Accounts : IsAdmin(all[a])

\* The session of a request names its account; only administrators pass on
\* (onRequest, mayAdministerUsers).
MayAdminister(a) == sessions[a] > 0 /\ IsAdmin(accounts[a])

Goes(d, r) == slot' = [slot EXCEPT ![d] = r]
Takes(d, r) == slot[d] = Free /\ made < RequestsLimit /\ made' = made + 1 /\ Goes(d, r)

----------------------------------------------------------------------------
\* POST sign-up: the unique e-mail admits one row; then the cabinet, then the session.
SignUp(d, a) ==
    /\ Takes(d, IF accounts[a].status = "absent" THEN [pc |-> "cabinet", who |-> a, then |-> "session"] ELSE Free)
    /\ accounts' = IF accounts[a].status = "absent"
                   THEN [accounts EXCEPT ![a] = Account("pending", NoRole)] ELSE accounts
    /\ UNCHANGED <<sessions, cabinetsOf>>

\* POST sign-in, whatever the status is; older sessions stay.
SignIn(d, a) ==
    /\ accounts[a].status # "absent"
    /\ Takes(d, [pc |-> "session", who |-> a])
    /\ UNCHANGED <<accounts, sessions, cabinetsOf>>
OpenSession(d) ==
    /\ slot[d].pc = "session"
    /\ sessions' = [sessions EXCEPT ![slot[d].who] = @ + 1]
    /\ Goes(d, Free)
    /\ UNCHANGED <<accounts, cabinetsOf, made>>

\* POST sign-out, or the end of its time.
SessionEnds(a) ==
    /\ sessions[a] > 0
    /\ sessions' = [sessions EXCEPT ![a] = @ - 1]
    /\ UNCHANGED <<accounts, cabinetsOf, slot, made>>

\* Any request of a session: its cabinet is looked up, and made when there is
\* none (toPrincipal, ensurePersonalWorkspace).
Enter(d, a) ==
    /\ sessions[a] > 0
    /\ Takes(d, [pc |-> "cabinet", who |-> a, then |-> "free"])
    /\ UNCHANGED <<accounts, sessions, cabinetsOf>>
LookForCabinet(d) ==
    /\ slot[d].pc = "cabinet"
    /\ Goes(d, IF cabinetsOf[slot[d].who] = 0 THEN [slot[d] EXCEPT !.pc = "make"]
               ELSE IF slot[d].then = "session" THEN [pc |-> "session", who |-> slot[d].who] ELSE Free)
    /\ UNCHANGED <<accounts, sessions, cabinetsOf, made>>
MakeCabinet(d) ==
    /\ slot[d].pc = "make"
    /\ cabinetsOf' = [cabinetsOf EXCEPT ![slot[d].who] = @ + 1]
    /\ Goes(d, IF slot[d].then = "session" THEN [pc |-> "session", who |-> slot[d].who] ELSE Free)
    /\ UNCHANGED <<accounts, sessions, made>>

----------------------------------------------------------------------------
\* approve, reject, revoke and changeRole of an administrator.
Administer(d, actor, op, a, role) ==
    /\ MayAdminister(actor) /\ accounts[a].status # "absent"
    /\ op \in {"reject", "revoke"} => role = NoRole
    /\ op \in {"approve", "role"} => role \in Roles
    /\ Takes(d, [pc |-> IF op = "role" THEN "look" ELSE "lock", op |-> op, who |-> a, role |-> role])
    /\ UNCHANGED <<accounts, sessions, cabinetsOf>>

\* changeRole reads the status by itself, before replaceStatus.
LookAtStatus(d) ==
    /\ slot[d].pc = "look"
    /\ Goes(d, IF accounts[slot[d].who].status = "active" THEN [slot[d] EXCEPT !.pc = "lock"] ELSE Free)
    /\ UNCHANGED <<accounts, sessions, cabinetsOf, made>>

Proposed(r) ==
    [accounts EXCEPT ![r.who] =
        CASE r.op \in {"approve", "role"} -> Account("active", r.role)
          [] r.op = "reject" -> Account("rejected", @.role)
          [] r.op = "revoke" -> Account("revoked", @.role)]

\* replaceStatus: the rows are locked, so that the next one reads what this one
\* wrote; the proposal must leave an active administrator.
LockAtOnce(d) ==
    /\ slot[d].pc = "lock"
    /\ Goes(d, IF HasActiveAdmin(Proposed(slot[d])) THEN [slot[d] EXCEPT !.pc = "write"] ELSE Free)
    /\ UNCHANGED <<accounts, sessions, cabinetsOf, made>>
Lock(d) ==
    /\ slot[d].pc = "lock"
    /\ \A e \in Slots : slot[e].pc # "write"
    /\ Goes(d, IF HasActiveAdmin(Proposed(slot[d])) THEN [slot[d] EXCEPT !.pc = "write"] ELSE Free)
    /\ UNCHANGED <<accounts, sessions, cabinetsOf, made>>
Write(d) ==
    /\ slot[d].pc = "write"
    /\ accounts' = Proposed(slot[d])
    /\ Goes(d, IF slot[d].op = "revoke" THEN [slot[d] EXCEPT !.pc = "close"] ELSE Free)
    /\ UNCHANGED <<sessions, cabinetsOf, made>>

\* deleteSessionsForUser, after the transaction.
CloseSessions(d) ==
    /\ slot[d].pc = "close"
    /\ sessions' = [sessions EXCEPT ![slot[d].who] = 0]
    /\ Goes(d, Free)
    /\ UNCHANGED <<accounts, cabinetsOf, made>>

\* A query fails and with it the request; a transaction leaves nothing.
SlotFails(d) ==
    /\ slot[d] # Free /\ Goes(d, Free)
    /\ UNCHANGED <<accounts, sessions, cabinetsOf, made>>

\* bootstrapAdmin made Root on an empty directory.
AccountsInit ==
    /\ accounts = [a \in Accounts |-> IF a = Root THEN Account("active", "admin") ELSE Account("absent", NoRole)]
    /\ sessions = [a \in Accounts |-> IF a = Root THEN 1 ELSE 0]
    /\ cabinetsOf = [a \in Accounts |-> IF a = Root THEN 1 ELSE 0]
    /\ slot = [d \in Slots |-> Free] /\ made = 0

AccountsNext ==
    \/ \E d \in Slots :
          \/ \E a \in Accounts : SignUp(d, a) \/ SignIn(d, a) \/ Enter(d, a)
          \/ \E actor, a \in Accounts, op \in {"approve", "reject", "revoke", "role"}, role \in Roles \union {NoRole} :
                Administer(d, actor, op, a, role)
          \/ OpenSession(d) \/ LookForCabinet(d) \/ MakeCabinet(d)
          \/ LookAtStatus(d) \/ Lock(d) \/ Write(d) \/ CloseSessions(d) \/ SlotFails(d)
    \/ \E a \in Accounts : SessionEnds(a)

AccountsSpec == AccountsInit /\ [][AccountsNext]_accountVars

----------------------------------------------------------------------------
AccountsTypeOK ==
    /\ \A a \in Accounts : /\ accounts[a].status \in {"absent", "pending", "active", "rejected", "revoked"}
                           /\ accounts[a].role \in Roles \union {NoRole}
                           /\ accounts[a].status = "active" => accounts[a].role # NoRole
    /\ made <= RequestsLimit

\* Two administrators at work at once never leave the console without one.
AlwaysAnAdmin == HasActiveAdmin(accounts)

\* An account has one personal cabinet.
OneCabinetPerUser == \A a \in Accounts : cabinetsOf[a] <= 1

\* Changing a role changes no status.
RoleChangeKeepsStatus ==
    [][\A d \in Slots : (slot[d].pc = "write" /\ slot'[d] = Free /\ slot[d].op = "role") =>
            accounts'[slot[d].who].status = accounts[slot[d].who].status]_accountVars
=============================================================================
