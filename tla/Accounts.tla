-------------------------------- MODULE Accounts --------------------------------
(***************************************************************************)
(* Logins of one user from one address (delivery/http/auth.go): the limiter *)
(* of failed attempts (network/ratelimit.go) and the sessions in the        *)
(* database (auth/store.go), of which only the newest are kept.  The        *)
(* limiter asks and records in two steps, and a session is inserted,        *)
(* counted and trimmed in three statements, so logins overlap; a statement  *)
(* may fail.                                                                *)
(***************************************************************************)
EXTENDS Integers, FiniteSets

CONSTANTS
    Logins,                \* requests, of which each may get a session
    MaxSessionsPerUser,    \* sessions kept
    UserMax, IPMax,        \* failures within a window, per user and per address
    MaxWindows             \* bound: times that a window passes

AccountsAssumption ==
    /\ IsFiniteSet(Logins)
    /\ MaxSessionsPerUser \in Nat \ {0} /\ MaxWindows \in Nat
    /\ UserMax \in Nat \ {0} /\ IPMax \in Nat \ {0}

VARIABLES
    userHits, ipHits,      \* failures that the limiter counts
    sessions,              \* logins with a row
    stamp,                 \* stamp[l]: created_at of l's session, 0 before
    excess,                \* excess[l]: rows that l is going to delete
    expired, gone,         \* sessions past their end; those ended by logout or expiry
    login,                 \* login[l]: where the request of l is
    windows,               \* counter of the bound
    rushed, overlapped     \* ghosts: attempts, and changes of sessions, ran at the same time

accountsVars ==
    <<userHits, ipHits, sessions, stamp, excess, expired, gone, login, windows, rushed, overlapped>>
Limiter == <<userHits, ipHits, windows, rushed>>
Rows == <<sessions, stamp, excess, expired, gone, overlapped>>

AccountsInit ==
    /\ userHits = 0 /\ ipHits = 0 /\ windows = 0
    /\ sessions = {} /\ expired = {} /\ gone = {}
    /\ stamp = [l \in Logins |-> 0] /\ excess = [l \in Logins |-> 0]
    /\ login = [l \in Logins |-> "start"]
    /\ rushed = FALSE /\ overlapped = FALSE

LoginAt(l, here) == login[l] = here
LoginGoes(l, there) == login' = [login EXCEPT ![l] = there]

-----------------------------------------------------------------------------
(* LoginLimiter. *)

Attempting == {l \in Logins : LoginAt(l, "auth")}

Allowed == ipHits < IPMax /\ userHits < UserMax

Allow(l) ==
    /\ LoginAt(l, "start")
    /\ LoginGoes(l, IF Allowed THEN "auth" ELSE "refused")
    /\ rushed' = (rushed \/ (Allowed /\ Attempting # {}))
    /\ UNCHANGED <<userHits, ipHits, windows, Rows>>

(* RecordFailure, or ClearUser after a success, which leaves the address.   *)
Authenticate(l) ==
    /\ LoginAt(l, "auth")
    /\ \/ LoginGoes(l, "denied") /\ userHits' = userHits + 1 /\ ipHits' = ipHits + 1
       \/ LoginGoes(l, "purge") /\ userHits' = 0 /\ UNCHANGED ipHits
    /\ UNCHANGED <<windows, rushed, Rows>>

(* The failures so far are older than the window.                           *)
WindowPasses ==
    /\ windows < MaxWindows /\ windows' = windows + 1
    /\ userHits' = 0 /\ ipHits' = 0
    /\ UNCHANGED <<rushed, Rows, login>>

-----------------------------------------------------------------------------
(* CreateSession. *)

Creating == {l \in Logins : login[l] \in {"insert", "count", "trim"}}
Trimming == {l \in Logins : LoginAt(l, "trim")}
Newest == CHOOSE n \in {stamp[l] : l \in Logins} : \A l \in Logins : stamp[l] <= n

(* An error of the purge is ignored; then the session gets its time.        *)
PurgeExpiredSessions(l) ==
    /\ LoginAt(l, "purge") /\ LoginGoes(l, "insert")
    /\ sessions' \in {sessions, sessions \ expired}
    /\ stamp' = [stamp EXCEPT ![l] = Newest + 1]
    /\ overlapped' = (overlapped \/ Creating # {})
    /\ UNCHANGED <<excess, expired, gone, Limiter>>

CreateSession(l) ==
    /\ LoginAt(l, "insert")
    /\ \/ sessions' = sessions \cup {l} /\ LoginGoes(l, "count")
       \/ LoginGoes(l, "not_created") /\ UNCHANGED sessions
    /\ UNCHANGED <<stamp, excess, expired, gone, overlapped, Limiter>>

(* The row stays when counting or trimming fails, without a cookie for it.  *)
CountSessions(l) ==
    /\ LoginAt(l, "count")
    /\ LET rows == Cardinality(sessions) IN
       \/ rows <= MaxSessionsPerUser /\ LoginGoes(l, "ok") /\ UNCHANGED excess
       \/ /\ rows > MaxSessionsPerUser /\ LoginGoes(l, "trim")
          /\ excess' = [excess EXCEPT ![l] = rows - MaxSessionsPerUser]
       \/ LoginGoes(l, "error") /\ UNCHANGED excess
    /\ UNCHANGED <<sessions, stamp, expired, gone, overlapped, Limiter>>

(* A plausible slip: the newest ones.                                       *)
Oldest_m(n) == {l \in sessions : Cardinality({k \in sessions : stamp[k] > stamp[l]}) < n}

(* The oldest rows, as many as were counted too many.                       *)
Oldest(n) == {l \in sessions : Cardinality({k \in sessions : stamp[k] < stamp[l]}) < n}

TrimUserSessions(l) ==
    /\ LoginAt(l, "trim")
    /\ \/ sessions' = sessions \ Oldest(excess[l]) /\ LoginGoes(l, "ok")
       \/ LoginGoes(l, "error") /\ UNCHANGED sessions
    /\ UNCHANGED <<stamp, excess, expired, gone, overlapped, Limiter>>

-----------------------------------------------------------------------------
Expires(l) ==
    /\ l \in sessions \ expired /\ expired' = expired \cup {l} /\ gone' = gone \cup {l}
    /\ UNCHANGED <<sessions, stamp, excess, overlapped, login, Limiter>>

(* A request with the cookie of an expired session deletes its row.         *)
UserBySession(l) ==
    /\ LoginAt(l, "ok") /\ l \in sessions \cap expired
    /\ sessions' = sessions \ {l}
    /\ overlapped' = (overlapped \/ Trimming # {})
    /\ UNCHANGED <<stamp, excess, expired, gone, login, Limiter>>

Logout(l) ==
    /\ LoginAt(l, "ok") /\ l \in sessions
    /\ sessions' \in {sessions, sessions \ {l}} /\ gone' = gone \cup {l}
    /\ overlapped' = (overlapped \/ Trimming # {})
    /\ UNCHANGED <<stamp, excess, expired, login, Limiter>>

AccountsNext ==
    \/ WindowPasses
    \/ \E l \in Logins :
        \/ Allow(l) \/ Authenticate(l)
        \/ PurgeExpiredSessions(l) \/ CreateSession(l) \/ CountSessions(l) \/ TrimUserSessions(l)
        \/ Expires(l) \/ UserBySession(l) \/ Logout(l)

AccountsSpec == AccountsInit /\ [][AccountsNext]_accountsVars

-----------------------------------------------------------------------------
AccountsTypeOK ==
    /\ userHits \in Nat /\ ipHits \in Nat /\ windows \in 0..MaxWindows
    /\ sessions \subseteq Logins /\ expired \subseteq Logins /\ gone \subseteq Logins
    /\ stamp \in [Logins -> 0..Cardinality(Logins)] /\ excess \in [Logins -> Nat]
    /\ login \in [Logins -> {"start", "refused", "auth", "denied", "purge", "insert",
                          "not_created", "count", "trim", "ok", "error"}]

(* When no login is under way the user has no more sessions than are kept,  *)
(* unless a statement of a login failed after the insert.                   *)
SessionsCapped ==
    Creating = {} =>
        \/ Cardinality(sessions) <= MaxSessionsPerUser
        \/ \E l \in Logins : LoginAt(l, "error")

Inserted == {l \in Logins : login[l] \in {"count", "trim", "ok", "error"}}

(* Who has logged in stays logged in until logout, expiry or enough newer   *)
(* sessions, unless a session was created or ended while a login was        *)
(* between its count and its trim.                                          *)
NewestKept ==
    \A l \in Logins \ gone :
        LoginAt(l, "ok") =>
            \/ l \in sessions \/ overlapped
            \/ Cardinality({k \in Inserted : stamp[k] > stamp[l]}) >= MaxSessionsPerUser

(* The limiter counts more failures than its limit only when attempts were  *)
(* compared at the same time.                                               *)
AttemptsBounded == rushed \/ (userHits <= UserMax /\ ipHits <= IPMax)

LoginsSound == SessionsCapped /\ NewestKept /\ AttemptsBounded
=============================================================================
