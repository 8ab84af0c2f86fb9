------------------------------ MODULE Accounts ------------------------------
(***************************************************************************)
(* Who plays: accounts, the logins they are reached by, the one live       *)
(* session of each, link codes, and the room state that goes with a        *)
(* session (lib.cpp player, account_login, session, link_code,             *)
(* link_code_expiry, link_budget, link_attempt; account_rules), over Rooms.*)
(*                                                                         *)
(* Progress is left out: its rows are made for members of a room, whose    *)
(* accounts have names, so has_progress is having a name.  Time is a       *)
(* code's expiry coming and an hour's window ending.                       *)
(***************************************************************************)
EXTENDS Rooms

CONSTANTS
    Identity,       \* the tokens' identities, as the host verifies them
    Connection,     \* ids of connections
    Name,           \* name keys
    Code,           \* link codes
    Config,         \* the configs the owner may set
    FirstConfig,    \* what init writes
    Owner,          \* the module's publisher
    NoIdentity,
    NoConnection,
    NoName,         \* no name claimed yet
    CodesPerHour,   \* tuning server.link_codes_per_hour
    FailuresPerHour \* tuning server.link_failures_per_hour

(* A config: whose tokens are of the configured issuer and audience, and   *)
(* whether others may sign in as guests and codes link logins.             *)
ConfigRow == [browser : SUBSET Identity, anonymous : BOOLEAN, linking : BOOLEAN]

ASSUME AccountsAssumption ==
    /\ NoIdentity \notin Identity
    /\ NoConnection \notin Connection
    /\ NoName \notin Name
    /\ Config \subseteq ConfigRow
    /\ FirstConfig \in Config
    /\ CodesPerHour \in Nat
    /\ FailuresPerHour \in Nat

VARIABLES
    config,     \* table server_config
    conn,       \* the host's open connections: whose each is
    login,      \* table account_login, by identity
    player,     \* table player, by account
    session,    \* table session, by account
    code,       \* table link_code, by code
    expiry,     \* table link_code_expiry: the codes with an expiry scheduled
    budget,     \* table link_budget: codes made in the account's window
    attempts    \* table link_attempt: wrong codes in the identity's window

linkVars == <<code, expiry, budget, attempts>>
accountVars == <<config, conn, login, player, session, linkVars>>
allVars == <<roomVars, accountVars>>

-----------------------------------------------------------------------------

Method == {"none", "browser", "anonymous"}
LoginRow == [account : Account \cup {NoAccount}, method : Method]
Login(a, m) == [account |-> a, method |-> m]
NoLogin == Login(NoAccount, "none")

PlayerRow == [exists : BOOLEAN, name : Name \cup {NoName}, online : BOOLEAN]
NewPlayer == [exists |-> TRUE, name |-> NoName, online |-> TRUE]
NoPlayer == [exists |-> FALSE, name |-> NoName, online |-> FALSE]

SessionRow == [identity : Identity \cup {NoIdentity}, connection : Connection \cup {NoConnection}]
Session(i, k) == [identity |-> i, connection |-> k]
NoSession == Session(NoIdentity, NoConnection)

(* A code is lapsed once its expires_at is not after now. *)
CodeRow == [account : Account \cup {NoAccount}, lapsed : BOOLEAN]
NoCode == [account |-> NoAccount, lapsed |-> FALSE]

IsOpen(k) == conn[k] # NoIdentity
Named(a) == player[a].name # NoName
LoginsOf(a) == {i \in Identity : login[i].account = a}
CodesOf(a) == {c \in Code : code[c].account = a}

(* is_guest_login: by the method the login was stored with. *)
Guest(i) == login[i].method = "anonymous"

(* check_login. *)
MethodOf(i) ==
    IF i \in config.browser THEN "browser"
    ELSE IF config.anonymous \/ i = Owner THEN "anonymous"
    ELSE "none"

(* Whether connection k is the live session of its login's account. *)
IsLive(k) ==
    /\ login[conn[k]] # NoLogin
    /\ session[login[conn[k]].account] = Session(conn[k], k)

(* has_progress. *)
HasProgressNever(a) == FALSE
HasProgress(a) == Named(a)

(* Whether an account is left without a login when i moves on: redeeming   *)
(* moves the login before it looks for others.                             *)
LastLoginBeforeMove(i) == LoginsOf(login[i].account) = {}
LastLogin(i) == LoginsOf(login[i].account) \ {i} = {}

(* caller: the account of a call on connection k. *)
Caller(k, a) ==
    /\ IsOpen(k)
    /\ login[conn[k]].account = a
    /\ a # NoAccount
    /\ session[a] = Session(conn[k], k)
    /\ player[a].exists

(* leave_room_state, which does nothing for a player in no room. *)
EndRoomState(a) ==
    IF member[a].room = NoRoom THEN UNCHANGED roomVars ELSE LeaveRoom(a)

(* delete_link_code: an account's code and its expiry. *)
CodesWithout(a) == [c \in Code |-> IF c \in CodesOf(a) THEN NoCode ELSE code[c]]
ExpiriesWithout(a) == expiry \ CodesOf(a)

-----------------------------------------------------------------------------
(* Lifecycle. *)

(* start_session for an account that has one: the newer connection has the *)
(* session, the older one's room state ends.                               *)
TakeOver(a) == IF session[a] # NoSession THEN EndRoomState(a) ELSE UNCHANGED roomVars

(* client_connected, of an identity with no login: a new account.          *)
SignUp(k, i, a) ==
    /\ ~IsOpen(k)
    /\ login[i] = NoLogin
    /\ MethodOf(i) # "none"
    /\ ~player[a].exists
    /\ conn' = [conn EXCEPT ![k] = i]
    /\ login' = [login EXCEPT ![i] = Login(a, MethodOf(i))]
    /\ player' = [player EXCEPT ![a] = NewPlayer]
    /\ session' = [session EXCEPT ![a] = Session(i, k)]
    /\ TakeOver(a)
    /\ UNCHANGED <<config, linkVars>>

SignInKeepsRoom(k, i) ==
    LET a == login[i].account
    IN  /\ ~IsOpen(k)
        /\ login[i] # NoLogin
        /\ MethodOf(i) # "none"
        /\ conn' = [conn EXCEPT ![k] = i]
        /\ session' = [session EXCEPT ![a] = Session(i, k)]
        /\ player' = [player EXCEPT ![a].online = TRUE]
        /\ UNCHANGED <<roomVars, config, login, linkVars>>

(* client_connected, of an identity with a login. *)
SignIn(k, i) ==
    LET a == login[i].account
    IN  /\ ~IsOpen(k)
        /\ login[i] # NoLogin
        /\ MethodOf(i) # "none"
        /\ conn' = [conn EXCEPT ![k] = i]
        /\ session' = [session EXCEPT ![a] = Session(i, k)]
        /\ player' = [player EXCEPT ![a].online = TRUE]
        /\ TakeOver(a)
        /\ UNCHANGED <<config, login, linkVars>>

(* delete_account, with the logins it still has. *)
AccountDeleted(a) ==
    /\ player' = [player EXCEPT ![a] = NoPlayer]
    /\ login' = [i \in Identity |-> IF i \in LoginsOf(a) THEN NoLogin ELSE login[i]]
    /\ session' = [session EXCEPT ![a] = NoSession]
    /\ code' = CodesWithout(a)
    /\ expiry' = ExpiriesWithout(a)
    /\ budget' = [budget EXCEPT ![a] = 0]
    /\ attempts' = [i \in Identity |-> IF i \in LoginsOf(a) THEN 0 ELSE attempts[i]]
    /\ EndRoomState(a)

(* client_disconnected, of the connection that is its account's session: a *)
(* guest's account goes with it.                                           *)
DisconnectGuest(k) ==
    /\ IsOpen(k)
    /\ IsLive(k)
    /\ Guest(conn[k])
    /\ conn' = [conn EXCEPT ![k] = NoIdentity]
    /\ AccountDeleted(login[conn[k]].account)
    /\ UNCHANGED config

Disconnect(k) ==
    LET a == login[conn[k]].account
    IN  /\ IsOpen(k)
        /\ IsLive(k)
        /\ ~Guest(conn[k])
        /\ conn' = [conn EXCEPT ![k] = NoIdentity]
        /\ session' = [session EXCEPT ![a] = NoSession]
        /\ player' = [player EXCEPT ![a].online = FALSE]
        /\ EndRoomState(a)
        /\ UNCHANGED <<config, login, linkVars>>

DisconnectOlderToo(k) ==
    LET a == login[conn[k]].account
    IN  /\ IsOpen(k)
        /\ ~IsLive(k)
        /\ conn' = [conn EXCEPT ![k] = NoIdentity]
        /\ session' = IF a \in Account THEN [session EXCEPT ![a] = NoSession] ELSE session
        /\ UNCHANGED <<roomVars, config, login, player, linkVars>>

(* An older session ending after a newer one took over, or a connection    *)
(* whose account is gone.                                                  *)
DisconnectOlder(k) ==
    /\ IsOpen(k)
    /\ ~IsLive(k)
    /\ conn' = [conn EXCEPT ![k] = NoIdentity]
    /\ UNCHANGED <<roomVars, config, login, player, session, linkVars>>

(* admin_set_config, by the owner: who may sign in from now on, and        *)
(* whether codes may be made (a secret long enough).                       *)
SetConfig(new) ==
    /\ new # config
    /\ config' = new
    /\ UNCHANGED <<roomVars, conn, login, player, session, linkVars>>

-----------------------------------------------------------------------------
(* Calls of a live session. *)

ClaimNameTaken(k, name) ==
    \E a \in Account :
        /\ Caller(k, a)
        /\ ~Named(a)
        /\ player' = [player EXCEPT ![a].name = name]
        /\ UNCHANGED <<roomVars, config, conn, login, session, linkVars>>

ClaimName(k, name) ==
    \E a \in Account :
        /\ Caller(k, a)
        /\ ~Named(a)
        /\ \A b \in Account : player[b].name # name
        /\ player' = [player EXCEPT ![a].name = name]
        /\ UNCHANGED <<roomVars, config, conn, login, session, linkVars>>

(* The room's reducers, of a caller with a name. *)
JoinRoom(k, c) ==
    \E a \in Account :
        /\ Caller(k, a)
        /\ Named(a)
        /\ JoinCourse(a, c)
        /\ UNCHANGED accountVars

PlayInRoom(k) ==
    \E a \in Account :
        /\ Caller(k, a)
        /\ LeaveRoom(a) \/ GroupStep(a)
        /\ UNCHANGED accountVars

-----------------------------------------------------------------------------
(* Link codes. *)

CreateLinkCodeByGuest(k, c) ==
    \E a \in Account :
        /\ Caller(k, a)
        /\ config.linking
        /\ budget[a] < CodesPerHour
        /\ budget' = [budget EXCEPT ![a] = @ + 1]
        /\ code[c] = NoCode
        /\ code' = [CodesWithout(a) EXCEPT ![c] = [account |-> a, lapsed |-> FALSE]]
        /\ expiry' = ExpiriesWithout(a) \cup {c}
        /\ UNCHANGED <<roomVars, config, conn, login, player, session, attempts>>

(* create_link_code: a code unlike any there (and unlike the older one: a  *)
(* hash of the time), instead of the account's older one, its expiry       *)
(* scheduled.                                                              *)
CreateLinkCode(k, c) ==
    \E a \in Account :
        /\ Caller(k, a)
        /\ ~Guest(conn[k])
        /\ config.linking
        /\ budget[a] < CodesPerHour
        /\ budget' = [budget EXCEPT ![a] = @ + 1]
        /\ code[c] = NoCode
        /\ code' = [CodesWithout(a) EXCEPT ![c] = [account |-> a, lapsed |-> FALSE]]
        /\ expiry' = ExpiriesWithout(a) \cup {c}
        /\ UNCHANGED <<roomVars, config, conn, login, player, session, attempts>>

MayRedeemAsGuest(k, a) ==
    /\ Caller(k, a)
    /\ config.linking
    /\ attempts[conn[k]] < FailuresPerHour

(* redeem_link_code's first checks; too many wrong codes refuse any code.  *)
MayRedeem(k, a) ==
    /\ Caller(k, a)
    /\ ~Guest(conn[k])
    /\ config.linking
    /\ attempts[conn[k]] < FailuresPerHour

(* A code there is, not lapsed, of an account there is. *)
Good(c) == code[c] # NoCode /\ ~code[c].lapsed /\ player[code[c].account].exists

(* A wrong code is no error, as an error would roll back its count. *)
RedeemWrong(k, c) ==
    /\ \E a \in Account : MayRedeem(k, a)
    /\ ~Good(c)
    /\ attempts' = [attempts EXCEPT ![conn[k]] = @ + 1]
    /\ UNCHANGED <<roomVars, config, conn, login, player, session, code, expiry, budget>>

(* A good code moves the caller's login to the code's account, which takes *)
(* the caller's connection for its session; the account the login leaves   *)
(* goes unless another login is left to it.  It has no name, so no room    *)
(* state either (SessionsSound): only the code's account leaves a room.  *)
RedeemLinkCode(k, c) ==
    LET i == conn[k]
        to == code[c].account
        from == login[i].account
        last == LastLogin(i)
    IN  /\ MayRedeem(k, from)
        /\ Good(c)
        /\ to # from
        /\ ~HasProgress(from)
        /\ login' = [login EXCEPT ![i].account = to]
        /\ session' = [session EXCEPT ![from] = NoSession, ![to] = Session(i, k)]
        /\ player' = [player EXCEPT ![from] = IF last THEN NoPlayer ELSE [@ EXCEPT !.online = FALSE],
                                    ![to].online = TRUE]
        /\ code' = IF last THEN [d \in Code |-> IF d \in CodesOf(from) THEN NoCode ELSE CodesWithout(to)[d]]
                           ELSE CodesWithout(to)
        /\ expiry' = IF last THEN ExpiriesWithout(to) \ CodesOf(from) ELSE ExpiriesWithout(to)
        /\ budget' = IF last THEN [budget EXCEPT ![from] = 0] ELSE budget
        /\ TakeOver(to)
        /\ UNCHANGED <<config, conn, attempts>>

ExpireLinkCodeTooSoon(c) ==
    /\ c \in expiry
    /\ code[c] # NoCode => code[c].lapsed
    /\ expiry' = expiry \ {c}
    /\ UNCHANGED <<roomVars, config, conn, login, player, session, code, budget, attempts>>

(* expire_link_code, run by the host's schedule when the code is due. *)
ExpireLinkCode(c) ==
    /\ c \in expiry
    /\ code[c] # NoCode => code[c].lapsed
    /\ code' = [code EXCEPT ![c] = NoCode]
    /\ expiry' = expiry \ {c}
    /\ UNCHANGED <<roomVars, config, conn, login, player, session, budget, attempts>>

(* Time: a code's expiry comes; a rate window is an hour old, and the next *)
(* use starts one at a count of nothing.                                   *)
CodeLapses(c) ==
    /\ code[c] # NoCode
    /\ ~code[c].lapsed
    /\ code' = [code EXCEPT ![c].lapsed = TRUE]
    /\ UNCHANGED <<roomVars, config, conn, login, player, session, expiry, budget, attempts>>

BudgetLapses(a) ==
    /\ budget[a] > 0
    /\ budget' = [budget EXCEPT ![a] = 0]
    /\ UNCHANGED <<roomVars, config, conn, login, player, session, code, expiry, attempts>>

AttemptsLapse(i) ==
    /\ attempts[i] > 0
    /\ attempts' = [attempts EXCEPT ![i] = 0]
    /\ UNCHANGED <<roomVars, config, conn, login, player, session, code, expiry, budget>>

-----------------------------------------------------------------------------

AccountsInit ==
    /\ RoomsInit
    /\ config = FirstConfig
    /\ conn = [k \in Connection |-> NoIdentity]
    /\ login = [i \in Identity |-> NoLogin]
    /\ player = [a \in Account |-> NoPlayer]
    /\ session = [a \in Account |-> NoSession]
    /\ code = [c \in Code |-> NoCode]
    /\ expiry = {}
    /\ budget = [a \in Account |-> 0]
    /\ attempts = [i \in Identity |-> 0]

ConnectionStep(k) ==
    \/ \E i \in Identity : SignIn(k, i) \/ \E a \in Account : SignUp(k, i, a)
    \/ DisconnectGuest(k) \/ Disconnect(k) \/ DisconnectOlder(k)

CallStep(k) ==
    \/ \E name \in Name : ClaimName(k, name)
    \/ \E c \in Course : JoinRoom(k, c)
    \/ PlayInRoom(k)

LinkStep(k) ==
    \E c \in Code : CreateLinkCode(k, c) \/ RedeemWrong(k, c) \/ RedeemLinkCode(k, c)

TimeStep ==
    \/ \E c \in Code : ExpireLinkCode(c) \/ CodeLapses(c)
    \/ \E a \in Account : BudgetLapses(a)
    \/ \E i \in Identity : AttemptsLapse(i)

AccountsNext ==
    \/ \E k \in Connection : ConnectionStep(k) \/ CallStep(k) \/ LinkStep(k)
    \/ \E new \in Config : SetConfig(new)
    \/ TimeStep

AccountsSpec == AccountsInit /\ [][AccountsNext]_allVars

(* Fairness: time passes for a code, and the host runs a due schedule. *)
AccountsFairSpec ==
    /\ AccountsSpec
    /\ \A c \in Code : WF_allVars(CodeLapses(c)) /\ WF_allVars(ExpireLinkCode(c))

-----------------------------------------------------------------------------
(* What the accounts promise. *)

(* Every table holds rows of its type; the rate limits hold; names are     *)
(* unique.                                                                 *)
AccountsTypeOK ==
    /\ config \in Config
    /\ conn \in [Connection -> Identity \cup {NoIdentity}]
    /\ login \in [Identity -> LoginRow]
    /\ player \in [Account -> PlayerRow]
    /\ session \in [Account -> SessionRow]
    /\ code \in [Code -> CodeRow]
    /\ expiry \subseteq Code
    /\ budget \in [Account -> 0..CodesPerHour]
    /\ attempts \in [Identity -> 0..FailuresPerHour]
    /\ \A a, b \in Account : Named(a) /\ player[a].name = player[b].name => a = b

(* A session is always an open connection of one of its account's own      *)
(* logins, and an account is online exactly while it has one, however      *)
(* connections overlap, logins move between accounts and older connections *)
(* end late: no account is stuck online, and none is played by a login     *)
(* that is not its own.  Whoever is in a room is signed in and has a name: *)
(* no way for a session to end leaves its player behind in the room.       *)
SessionsSound ==
    \A a \in Account :
        /\ player[a].online <=> session[a] # NoSession
        /\ session[a] # NoSession =>
              /\ player[a].exists
              /\ session[a].connection \in Connection
              /\ conn[session[a].connection] = session[a].identity
              /\ login[session[a].identity].account = a
        /\ member[a].room # NoRoom => session[a] # NoSession /\ Named(a)

(* Every account can be signed in to, and no login is left of one that was *)
(* deleted.  A guest's "lasts one connection" (account_rules.h): it is     *)
(* there only while its one login has a session.                           *)
AccountsHaveLogins ==
    /\ \A a \in Account : player[a].exists <=> LoginsOf(a) # {}
    /\ \A i \in Identity :
          Guest(i) => LET a == login[i].account
                      IN  LoginsOf(a) = {i} /\ session[a].identity = i

(* A link code is of an account there is and that stays (no guest's), its  *)
(* only one, and will be deleted: its expiry is scheduled, and no expiry   *)
(* is left that could delete a code drawn again.                           *)
CodesSound ==
    /\ \A c \in Code :
          /\ c \in expiry <=> code[c] # NoCode
          /\ code[c] # NoCode =>
                /\ player[code[c].account].exists
                /\ CodesOf(code[c].account) = {c}
                /\ \A i \in LoginsOf(code[c].account) : ~Guest(i)

(* An account with a name, so any with progress, is never dropped but as a *)
(* guest's, and keeps its name: linking moves logins only out of accounts  *)
(* that hold nothing.                                                      *)
NamedAccountsStay ==
    [][\A a \in Account :
          Named(a) /\ player'[a].name # player[a].name => \E i \in LoginsOf(a) : Guest(i)]_allVars

(* When a session ends or a newer connection replaces it, its room state   *)
(* ends in that step: the next session of the account starts in no room.   *)
SessionsTakeTheirRooms ==
    [][\A a \in Account :
          session[a] # NoSession /\ session'[a] # session[a] => member'[a].room = NoRoom]_allVars

(* "The attempt must still count" (redeem_link_code): only an hour passing *)
(* takes wrong codes off an identity's count, so no sequence of signing    *)
(* out, linking or losing an account gives it more tries.                  *)
FailuresStick ==
    [][\A i \in Identity : attempts'[i] < attempts[i] => AttemptsLapse(i)]_allVars

(* "Deleted when used or expired" (link_code): a code does not stay. *)
CodesGoAway == \A c \in Code : code[c] # NoCode ~> code[c] = NoCode

=============================================================================
