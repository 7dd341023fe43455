----------------------------- MODULE DeskAccess -----------------------------
(***************************************************************************)
(* Who may use a session's desk (server/src/auth/access.ts and the gates   *)
(* and routes in front of it), for one session id.  A request is a chain   *)
(* of database statements; each is atomic, and the statements of different *)
(* requests interleave.  Opening surfaces (the desk's hello, the collab    *)
(* socket) create the session row when there is none; the first            *)
(* authenticated opener of an ownerless session claims it.                 *)
(***************************************************************************)
EXTENDS Naturals, FiniteSets

CONSTANTS
    Request,       \* requests; each runs once
    UserOf,        \* the authenticated user of a request
    KindOf,        \* "open", "read", "share", "unshare" or "delete"
    EmailsOf,      \* verified emails of a user
    Email,         \* the email share and unshare requests are about
    NoUser,
    MaxShares      \* MAX_SHARES_PER_SESSION

ASSUME AccessAssumption ==
    /\ \A q \in Request : KindOf[q] \in {"open", "read", "share", "unshare", "delete"}
    /\ NoUser \notin {UserOf[q] : q \in Request}
    /\ MaxShares \in Nat

VARIABLES
    exists, owner,  \* the sessions row
    shares,         \* its session_shares rows
    at,             \* the statement a request is at
    verdict,        \* the DeskDecision of a request, and the life it was made in
    life            \* how often the session was deleted

accessVars == <<exists, owner, shares, at, verdict, life>>

AccessInit ==
    /\ exists \in BOOLEAN /\ owner = NoUser
    /\ shares = {}
    /\ at = [q \in Request |-> "idle"]
    /\ verdict = [q \in Request |-> [role |-> "none", life |-> 0]]
    /\ life = 0

Goto(q, l) == at' = [at EXCEPT ![q] = l]
Decide(q, role, l) ==
    /\ verdict' = [verdict EXCEPT ![q] = [role |-> role, life |-> life]]
    /\ Goto(q, l)

\* What a request does once it is let in, or "done" for the rest.
Then(q, role) ==
    IF KindOf[q] = "delete" /\ role \in {"owner", "sharee"} THEN "delete"
    ELSE IF KindOf[q] = "share" /\ role = "owner" THEN "list"
    ELSE IF KindOf[q] = "unshare" /\ role = "owner" THEN "unshare"
    ELSE "done"

\* The token is verified; an opening surface first makes sure of the row.
Arrives(q) ==
    /\ at[q] = "idle"
    /\ Goto(q, IF KindOf[q] = "open" THEN "insert" ELSE "row")
    /\ UNCHANGED <<exists, owner, shares, verdict, life>>

\* The token does not verify: 401, or the fatal error of a desk hello.
TurnedAway(q) ==
    /\ at[q] = "idle"
    /\ Decide(q, "unknown", "done")
    /\ UNCHANGED <<exists, owner, shares, life>>

\* insert ... on conflict do nothing.
ownerAfterInsert == IF exists THEN owner ELSE NoUser
authorizeOrCreate(q) ==
    /\ at[q] = "insert"
    /\ exists' = TRUE
    /\ owner' = ownerAfterInsert
    /\ Goto(q, "row")
    /\ UNCHANGED <<shares, verdict, life>>

\* authorize: the row as it is now decides how to go on.
authorize(q) ==
    /\ at[q] = "row"
    /\ IF ~exists THEN Decide(q, "unknown", "done")
       ELSE IF owner = UserOf[q] THEN Decide(q, "owner", Then(q, "owner"))
       ELSE /\ Goto(q, IF owner = NoUser THEN "claim" ELSE "emails")
            /\ UNCHANGED verdict
    /\ UNCHANGED <<exists, owner, shares, life>>

\* claim: one UPDATE ... WHERE owner IS NULL; the loser is judged again.
\* Mutant: the condition is missing from the UPDATE.
ClaimableRow == exists
Claimable == exists /\ owner = NoUser
claim(q) ==
    /\ at[q] = "claim"
    /\ IF Claimable
       THEN /\ owner' = UserOf[q]
            /\ Decide(q, "owner", Then(q, "owner"))
       ELSE /\ Goto(q, "row")
            /\ UNCHANGED <<owner, verdict>>
    /\ UNCHANGED <<exists, shares, life>>

\* Neither owner nor ownerless: a share for one of the verified emails.
judgeShare(q) ==
    /\ at[q] = "emails"
    /\ LET role == IF shares \cap EmailsOf[UserOf[q]] # {} THEN "sharee" ELSE "forbidden"
       IN Decide(q, role, Then(q, role))
    /\ UNCHANGED <<exists, owner, shares, life>>

\* addShare reads the list, then inserts; a share needs its session row.
listShares(q) ==
    /\ at[q] = "list"
    /\ Goto(q, IF Email[q] \in shares \/ Cardinality(shares) >= MaxShares THEN "done" ELSE "add")
    /\ UNCHANGED <<exists, owner, shares, verdict, life>>

addShare(q) ==
    /\ at[q] = "add"
    /\ shares' = IF exists THEN shares \cup {Email[q]} ELSE shares
    /\ Goto(q, "done")
    /\ UNCHANGED <<exists, owner, verdict, life>>

removeShare(q) ==
    /\ at[q] = "unshare"
    /\ shares' = shares \ {Email[q]}
    /\ Goto(q, "done")
    /\ UNCHANGED <<exists, owner, verdict, life>>

\* destroySession: the row goes and its shares cascade.
deleteSession(q) ==
    /\ at[q] = "delete"
    /\ exists' = FALSE /\ owner' = NoUser /\ shares' = {}
    /\ life' = life + 1
    /\ Goto(q, "done")
    /\ UNCHANGED verdict

AccessNext ==
    \E q \in Request :
        \/ Arrives(q) \/ TurnedAway(q)
        \/ authorizeOrCreate(q) \/ authorize(q) \/ claim(q) \/ judgeShare(q)
        \/ listShares(q) \/ addShare(q) \/ removeShare(q) \/ deleteSession(q)

AccessSpec == AccessInit /\ [][AccessNext]_accessVars

-----------------------------------------------------------------------------
(* Properties *)

\* Whoever was told to be the owner is: one claimer wins, the losers are
\* judged like anybody else.
OwnerIsTrue ==
    \A q \in Request :
        (verdict[q].role = "owner" /\ verdict[q].life = life) => owner = UserOf[q]
=============================================================================
