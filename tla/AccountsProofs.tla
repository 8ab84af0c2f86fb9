--------------------------- MODULE AccountsProofs ---------------------------
(***************************************************************************)
(* Accounts, logins, sessions and codes, proved for any players, logins,   *)
(* connections, names, codes and limits.  None of the four invariants is   *)
(* inductive alone: that an older connection's end touches no session      *)
(* needs sessions to be open connections of their account's logins, and    *)
(* that a guest's login is alone needs codes to be of no guest's.          *)
(***************************************************************************)
EXTENDS Accounts, RoomsProofs

-----------------------------------------------------------------------------
(* The invariant of the accounts' own tables, without sets of rows.        *)

LoginsKnown ==
    \A i \in Identity :
        login[i] # NoLogin => login[i].account \in Account /\ login[i].method # "none"

SessionLive(a) ==
    /\ player[a].online <=> session[a] # NoSession
    /\ session[a] # NoSession =>
          /\ player[a].exists
          /\ session[a].connection \in Connection
          /\ session[a].identity \in Identity
          /\ conn[session[a].connection] = session[a].identity
          /\ login[session[a].identity].account = a

Reachable(a) == player[a].exists <=> \E i \in Identity : login[i].account = a

GuestAlone(i) ==
    Guest(i) => /\ \A j \in Identity : login[j].account = login[i].account => j = i
                /\ session[login[i].account].identity = i

CodeSound(c) ==
    /\ c \in expiry <=> code[c] # NoCode
    /\ code[c] # NoCode =>
          /\ code[c].account \in Account
          /\ player[code[c].account].exists
          /\ \A d \in Code : code[d].account = code[c].account => d = c
          /\ \A i \in Identity : login[i].account = code[c].account => ~Guest(i)

Rows ==
    /\ LoginsKnown
    /\ \A a \in Account : SessionLive(a) /\ Reachable(a)
    /\ \A i \in Identity : GuestAlone(i)
    /\ \A c \in Code : CodeSound(c)

AccountsInv == AccountsTypeOK /\ Rows

(* The rows' types, one row at a time. *)
LEMMA RowsTyped ==
    ASSUME AccountsTypeOK
    PROVE  /\ \A i \in Identity : /\ login[i] \in LoginRow
                                  /\ login[i] = NoLogin <=>
                                       login[i].account = NoAccount /\ login[i].method = "none"
           /\ \A a \in Account : player[a] \in PlayerRow /\ session[a] \in SessionRow
           /\ \A a \in Account : session[a] = NoSession <=>
                 session[a].identity = NoIdentity /\ session[a].connection = NoConnection
           /\ \A c \in Code : code[c] \in CodeRow
BY DEF AccountsTypeOK, LoginRow, NoLogin, Login, SessionRow, NoSession, Session

LEMMA Constructors ==
    /\ NoLogin \in LoginRow /\ NoLogin.account = NoAccount /\ NoLogin.method = "none"
    /\ \A a \in Account, m \in Method :
          Login(a, m) \in LoginRow /\ Login(a, m).account = a /\ Login(a, m).method = m
    /\ NoSession \in SessionRow /\ NoSession.identity = NoIdentity
    /\ \A i \in Identity, k \in Connection :
          /\ Session(i, k) \in SessionRow /\ Session(i, k) # NoSession
          /\ Session(i, k).identity = i /\ Session(i, k).connection = k
    /\ NewPlayer \in PlayerRow /\ NewPlayer.exists /\ NewPlayer.online /\ NewPlayer.name = NoName
    /\ NoPlayer \in PlayerRow /\ ~NoPlayer.exists /\ ~NoPlayer.online /\ NoPlayer.name = NoName
    /\ NoCode \in CodeRow /\ NoCode.account = NoAccount
BY AccountsAssumption DEF NoLogin, Login, LoginRow, Method, NoSession, Session, SessionRow,
    NewPlayer, NoPlayer, PlayerRow, NoCode, CodeRow

(* What the properties say is in the invariant. *)
LEMMA InvProperties ==
    ASSUME AccountsInv
    PROVE  AccountsHaveLogins /\ CodesSound
<1>1. AccountsHaveLogins
  <2>1. \A a \in Account : player[a].exists <=> LoginsOf(a) # {}
    BY DEF AccountsInv, Rows, Reachable, LoginsOf
  <2>2. \A i \in Identity : Guest(i) => LoginsOf(login[i].account) = {i}
    BY DEF AccountsInv, Rows, GuestAlone, LoginsOf
  <2> QED
    BY <2>1, <2>2 DEF AccountsInv, Rows, GuestAlone, AccountsHaveLogins
<1>2. CodesSound
    BY DEF AccountsInv, Rows, CodeSound, CodesSound, CodesOf, LoginsOf
<1> QED
    BY <1>1, <1>2

-----------------------------------------------------------------------------
(* Connections come and go. *)

LEMMA SignUpKeeps ==
    ASSUME AccountsInv, NEW k \in Connection, NEW i \in Identity, NEW a \in Account, SignUp(k, i, a)
    PROVE  AccountsInv'
<1> DEFINE m == MethodOf(i)
<1>1. /\ conn[k] = NoIdentity /\ login[i] = NoLogin /\ ~player[a].exists /\ m # "none"
      /\ conn' = [conn EXCEPT ![k] = i]
      /\ login' = [login EXCEPT ![i] = Login(a, m)]
      /\ player' = [player EXCEPT ![a] = NewPlayer]
      /\ session' = [session EXCEPT ![a] = Session(i, k)]
      /\ UNCHANGED <<config, code, expiry, budget, attempts>>
    BY DEF SignUp, IsOpen, linkVars
<1>2. m \in Method
    BY DEF MethodOf, Method
<1> HIDE DEF m
<1>3. AccountsTypeOK'
    BY <1>1, <1>2, Constructors DEF AccountsInv, AccountsTypeOK, Named
<1>4. /\ \A j \in Identity : login'[j] = IF j = i THEN Login(a, m) ELSE login[j]
      /\ \A b \in Account : /\ player'[b] = IF b = a THEN NewPlayer ELSE player[b]
                            /\ session'[b] = IF b = a THEN Session(i, k) ELSE session[b]
      /\ \A l \in Connection : conn'[l] = IF l = k THEN i ELSE conn[l]
    BY <1>1 DEF AccountsInv, AccountsTypeOK
<1>5. \A j \in Identity : login[j].account # a
    BY <1>1 DEF AccountsInv, Rows, Reachable
<1>6. LoginsKnown'
    BY <1>1, <1>2, <1>4, Constructors DEF AccountsInv, Rows, LoginsKnown
<1>7. ASSUME NEW b \in Account PROVE SessionLive(b)'
  <2>1. CASE b = a
    BY <1>1, <1>2, <1>4, <2>1, Constructors DEF SessionLive
  <2>2. CASE b # a
    <3>1. SessionLive(b)
      BY DEF AccountsInv, Rows
    <3>2. session[b] # NoSession => session[b].connection # k /\ session[b].identity # i
      BY <1>1, <1>5, <2>2, <3>1, AccountsAssumption, RoomsAssumption, Constructors DEF SessionLive
    <3> QED
      BY <1>4, <2>2, <3>1, <3>2 DEF SessionLive
  <2> QED
    BY <2>1, <2>2
<1>8. \A b \in Account : Reachable(b)'
    BY <1>1, <1>2, <1>4, <1>5, Constructors, RoomsAssumption DEF AccountsInv, Rows, Reachable
<1>9. \A j \in Identity : GuestAlone(j)'
    BY <1>1, <1>2, <1>4, <1>5, Constructors DEF AccountsInv, Rows, GuestAlone, Guest, LoginsKnown
<1>10. \A c \in Code : CodeSound(c)'
    BY <1>1, <1>2, <1>4, <1>5, Constructors DEF AccountsInv, Rows, CodeSound, Guest
<1> QED
    BY <1>3, <1>6, <1>7, <1>8, <1>9, <1>10 DEF AccountsInv, Rows

LEMMA SignInKeeps ==
    ASSUME AccountsInv, NEW k \in Connection, NEW i \in Identity, SignIn(k, i)
    PROVE  AccountsInv' /\ login[i].account \in Account
<1> DEFINE a == login[i].account
<1>1. /\ conn[k] = NoIdentity /\ login[i] # NoLogin
      /\ conn' = [conn EXCEPT ![k] = i]
      /\ player' = [player EXCEPT ![a].online = TRUE]
      /\ session' = [session EXCEPT ![a] = Session(i, k)]
      /\ UNCHANGED <<config, login, code, expiry, budget, attempts>>
    BY DEF SignIn, IsOpen, linkVars
<1>2. a \in Account
    BY <1>1 DEF AccountsInv, Rows, LoginsKnown
<1> HIDE DEF a
<1>3. [player[a] EXCEPT !.online = TRUE] \in PlayerRow
    BY <1>2, RowsTyped DEF AccountsInv, PlayerRow
<1>4. /\ \A b \in Account : /\ player'[b].name = player[b].name
                            /\ player'[b].exists = player[b].exists
                            /\ player'[b].online = IF b = a THEN TRUE ELSE player[b].online
                            /\ session'[b] = IF b = a THEN Session(i, k) ELSE session[b]
      /\ \A l \in Connection : conn'[l] = IF l = k THEN i ELSE conn[l]
    BY <1>1 DEF AccountsInv, AccountsTypeOK, PlayerRow
<1>11. AccountsTypeOK'
  <2>1. player' \in [Account -> PlayerRow] /\ session' \in [Account -> SessionRow]
    BY <1>1, <1>2, <1>3, Constructors DEF AccountsInv, AccountsTypeOK
  <2> QED
    BY <1>1, <1>4, <2>1 DEF AccountsInv, AccountsTypeOK, Named
<1>5. player[a].exists
    BY <1>2 DEF AccountsInv, Rows, Reachable, a
<1>6. LoginsKnown'
    BY <1>1 DEF AccountsInv, Rows, LoginsKnown
<1>7. ASSUME NEW b \in Account PROVE SessionLive(b)'
  <2>1. CASE b = a
    <3>1. login[i].account = b
      BY <2>1 DEF a
    <3>2. /\ session'[b] = Session(i, k) /\ player'[b].online /\ player'[b].exists
          /\ conn'[k] = i /\ login' = login
      BY <1>1, <1>4, <1>5, <2>1
    <3> QED
      BY <3>1, <3>2, Constructors DEF SessionLive
  <2>2. CASE b # a
    <3>1. SessionLive(b)
      BY DEF AccountsInv, Rows
    <3>2. session[b] # NoSession => session[b].connection # k
      BY <1>1, <3>1, AccountsAssumption DEF SessionLive
    <3> QED
      BY <1>1, <1>4, <2>2, <3>1, <3>2 DEF SessionLive
  <2> QED
    BY <2>1, <2>2
<1>8. \A b \in Account : Reachable(b)'
    BY <1>1, <1>4 DEF AccountsInv, Rows, Reachable
<1>9. ASSUME NEW j \in Identity PROVE GuestAlone(j)'
  <2> SUFFICES ASSUME Guest(j)
               PROVE  /\ \A l \in Identity : login[l].account = login[j].account => l = j
                      /\ session'[login[j].account].identity = j
    BY <1>1 DEF GuestAlone, Guest
  <2>1. /\ \A l \in Identity : login[l].account = login[j].account => l = j
        /\ session[login[j].account].identity = j
    BY DEF AccountsInv, Rows, GuestAlone
  <2>2. login[j].account \in Account
    BY Constructors DEF AccountsInv, Rows, LoginsKnown, Guest
  <2>3. CASE login[j].account = a
    <3>1. i = j
      BY <2>1, <2>3 DEF a
    <3>2. session'[a] = Session(i, k)
      BY <1>2, <1>4
    <3> QED
      BY <2>1, <2>3, <3>1, <3>2, Constructors
  <2>4. CASE login[j].account # a
    BY <1>4, <2>1, <2>2, <2>4
  <2> QED
    BY <2>3, <2>4
<1>10. \A c \in Code : CodeSound(c)'
    BY <1>1, <1>4 DEF AccountsInv, Rows, CodeSound, Guest
<1> QED
    BY <1>2, <1>11, <1>6, <1>7, <1>8, <1>9, <1>10 DEF AccountsInv, Rows, a

(* The live session of a connection is of an account there is, and of no   *)
(* other connection.                                                       *)
LEMMA LiveSession ==
    ASSUME AccountsInv, NEW k \in Connection, IsOpen(k), IsLive(k)
    PROVE  /\ conn[k] \in Identity
           /\ login[conn[k]].account \in Account
           /\ session[login[conn[k]].account] = Session(conn[k], k)
           /\ \A b \in Account : session[b].connection = k /\ session[b] # NoSession
                 => b = login[conn[k]].account
<1>1. conn[k] \in Identity
    BY DEF IsOpen, AccountsInv, AccountsTypeOK
<1> QED
    BY <1>1, Constructors DEF IsLive, AccountsInv, Rows, LoginsKnown, SessionLive

LEMMA DisconnectKeeps ==
    ASSUME AccountsInv, NEW k \in Connection, Disconnect(k)
    PROVE  AccountsInv'
<1> DEFINE a == login[conn[k]].account
<1>1. /\ conn[k] \in Identity /\ a \in Account /\ ~Guest(conn[k])
      /\ session[a] = Session(conn[k], k)
      /\ \A b \in Account : session[b].connection = k /\ session[b] # NoSession => b = a
      /\ conn' = [conn EXCEPT ![k] = NoIdentity]
      /\ player' = [player EXCEPT ![a].online = FALSE]
      /\ session' = [session EXCEPT ![a] = NoSession]
      /\ UNCHANGED <<config, login, code, expiry, budget, attempts>>
    BY LiveSession DEF Disconnect, linkVars
<1> HIDE DEF a
<1>2. [player[a] EXCEPT !.online = FALSE] \in PlayerRow
    BY <1>1, RowsTyped DEF AccountsInv, PlayerRow
<1>3. /\ \A b \in Account : /\ player'[b].name = player[b].name
                            /\ player'[b].exists = player[b].exists
                            /\ player'[b].online = IF b = a THEN FALSE ELSE player[b].online
                            /\ session'[b] = IF b = a THEN NoSession ELSE session[b]
      /\ \A l \in Connection : conn'[l] = IF l = k THEN NoIdentity ELSE conn[l]
    BY <1>1 DEF AccountsInv, AccountsTypeOK, PlayerRow
<1>10. AccountsTypeOK'
  <2>1. player' \in [Account -> PlayerRow] /\ session' \in [Account -> SessionRow]
    BY <1>1, <1>2, Constructors DEF AccountsInv, AccountsTypeOK
  <2> QED
    BY <1>1, <1>3, <2>1 DEF AccountsInv, AccountsTypeOK, Named
<1>4. LoginsKnown'
    BY <1>1 DEF AccountsInv, Rows, LoginsKnown
<1>5. ASSUME NEW b \in Account PROVE SessionLive(b)'
  <2>1. CASE b = a
    BY <1>1, <1>3, <2>1 DEF SessionLive
  <2>2. CASE b # a
    <3>1. SessionLive(b) /\ (session[b] # NoSession => session[b].connection # k)
      BY <1>1, <2>2 DEF AccountsInv, Rows
    <3> QED
      BY <1>1, <1>3, <2>2, <3>1 DEF SessionLive
  <2> QED
    BY <2>1, <2>2
<1>6. \A b \in Account : Reachable(b)'
    BY <1>1, <1>3 DEF AccountsInv, Rows, Reachable
<1>7. \A j \in Identity : Guest(j) => login[j].account # a
    BY <1>1 DEF AccountsInv, Rows, GuestAlone, a
<1>8. \A j \in Identity : GuestAlone(j)'
    BY <1>1, <1>3, <1>7, RowsTyped DEF AccountsInv, Rows, GuestAlone, Guest, LoginsKnown, NoLogin, Login
<1>9. \A c \in Code : CodeSound(c)'
    BY <1>1, <1>3 DEF AccountsInv, Rows, CodeSound, Guest
<1> QED
    BY <1>10, <1>4, <1>5, <1>6, <1>8, <1>9 DEF AccountsInv, Rows

LEMMA DisconnectOlderKeeps ==
    ASSUME AccountsInv, NEW k \in Connection, DisconnectOlder(k)
    PROVE  AccountsInv'
<1>1. /\ conn[k] # NoIdentity /\ ~IsLive(k)
      /\ conn' = [conn EXCEPT ![k] = NoIdentity]
      /\ UNCHANGED <<config, login, player, session, code, expiry, budget, attempts>>
    BY DEF DisconnectOlder, linkVars, IsOpen
<1>2. AccountsTypeOK'
    BY <1>1 DEF AccountsInv, AccountsTypeOK, Named
<1>3. \A b \in Account : session[b] # NoSession => session[b].connection # k
  <2> SUFFICES ASSUME NEW b \in Account, session[b] # NoSession, session[b].connection = k
               PROVE  IsLive(k)
    BY <1>1
  <2>1. conn[k] = session[b].identity /\ session[b].identity \in Identity
        /\ login[conn[k]].account = b
    BY DEF AccountsInv, Rows, SessionLive
  <2>2. session[b] = Session(conn[k], k)
    BY <2>1, RowsTyped DEF AccountsInv, SessionRow, Session
  <2> QED
    BY <2>1, <2>2, RoomsAssumption, Constructors DEF IsLive
<1> QED
    BY <1>1, <1>2, <1>3 DEF AccountsInv, Rows, LoginsKnown, SessionLive, Reachable, GuestAlone,
        Guest, CodeSound

(* A guest's account goes with its connection: its one login with it, so   *)
(* no other row names the account.                                         *)
LEMMA DisconnectGuestKeeps ==
    ASSUME AccountsInv, NEW k \in Connection, DisconnectGuest(k)
    PROVE  AccountsInv'
<1> DEFINE a == login[conn[k]].account
<1>1. /\ conn[k] \in Identity /\ a \in Account
      /\ \A b \in Account : session[b].connection = k /\ session[b] # NoSession => b = a
      /\ conn' = [conn EXCEPT ![k] = NoIdentity]
      /\ AccountDeleted(a)
      /\ UNCHANGED config
    BY LiveSession DEF DisconnectGuest
<1> HIDE DEF a
<1>2. /\ player' = [player EXCEPT ![a] = NoPlayer]
      /\ login' = [i \in Identity |-> IF login[i].account = a THEN NoLogin ELSE login[i]]
      /\ session' = [session EXCEPT ![a] = NoSession]
      /\ code' = [c \in Code |-> IF code[c].account = a THEN NoCode ELSE code[c]]
      /\ expiry' = {c \in expiry : code[c].account # a}
      /\ budget' = [budget EXCEPT ![a] = 0]
      /\ attempts' = [i \in Identity |-> IF login[i].account = a THEN 0 ELSE attempts[i]]
    BY <1>1 DEF AccountDeleted, CodesWithout, ExpiriesWithout, CodesOf, LoginsOf, AccountsInv, AccountsTypeOK
<1>3. AccountsTypeOK'
  <2>1. /\ player' \in [Account -> PlayerRow] /\ session' \in [Account -> SessionRow]
        /\ login' \in [Identity -> LoginRow] /\ code' \in [Code -> CodeRow]
        /\ conn' \in [Connection -> Identity \cup {NoIdentity}] /\ expiry' \subseteq Code
    BY <1>1, <1>2, Constructors DEF AccountsInv, AccountsTypeOK
  <2>2. budget' \in [Account -> 0..CodesPerHour] /\ attempts' \in [Identity -> 0..FailuresPerHour]
    BY <1>1, <1>2, AccountsAssumption DEF AccountsInv, AccountsTypeOK
  <2>3. \A b, c \in Account : Named(b)' /\ player'[b].name = player'[c].name => b = c
    BY <1>1, <1>2, Constructors DEF AccountsInv, AccountsTypeOK, Named
  <2> QED
    BY <1>1, <2>1, <2>2, <2>3 DEF AccountsInv, AccountsTypeOK
<1>4. /\ \A b \in Account : /\ player'[b] = IF b = a THEN NoPlayer ELSE player[b]
                            /\ session'[b] = IF b = a THEN NoSession ELSE session[b]
      /\ \A l \in Connection : conn'[l] = IF l = k THEN NoIdentity ELSE conn[l]
      /\ \A i \in Identity : login'[i] = IF login[i].account = a THEN NoLogin ELSE login[i]
      /\ \A c \in Code : /\ code'[c] = IF code[c].account = a THEN NoCode ELSE code[c]
                         /\ c \in expiry' <=> c \in expiry /\ code[c].account # a
    BY <1>1, <1>2 DEF AccountsInv, AccountsTypeOK
<1>5. LoginsKnown'
    BY <1>4 DEF AccountsInv, Rows, LoginsKnown
<1>6. ASSUME NEW b \in Account PROVE SessionLive(b)'
  <2>1. CASE b = a
    BY <1>4, <2>1, Constructors DEF SessionLive
  <2>2. CASE b # a
    <3>1. SessionLive(b) /\ (session[b] # NoSession => session[b].connection # k)
      BY <1>1, <2>2 DEF AccountsInv, Rows
    <3> QED
      BY <1>4, <2>2, <3>1 DEF SessionLive
  <2> QED
    BY <2>1, <2>2
<1>7. ASSUME NEW b \in Account PROVE Reachable(b)'
  <2>1. Reachable(b)
    BY DEF AccountsInv, Rows
  <2>2. b # NoAccount
    BY RoomsAssumption
  <2> QED
    BY <1>4, <2>1, <2>2, Constructors DEF Reachable
<1>8. ASSUME NEW j \in Identity PROVE GuestAlone(j)'
  <2> SUFFICES ASSUME Guest(j)'
               PROVE  /\ \A l \in Identity : login'[l].account = login'[j].account => l = j
                      /\ session'[login'[j].account].identity = j
    BY DEF GuestAlone, Guest
  <2>1. login'[j] = login[j] /\ Guest(j) /\ login[j].account # a
    BY <1>4, Constructors DEF Guest
  <2>2. login[j].account \in Account /\ GuestAlone(j)
    BY <2>1, Constructors DEF AccountsInv, Rows, LoginsKnown, Guest
  <2>3. \A l \in Identity : login'[l].account = login[j].account => login[l].account = login[j].account
    BY <1>4, <2>2, Constructors, RoomsAssumption
  <2> QED
    BY <1>4, <2>1, <2>2, <2>3 DEF GuestAlone
<1>9. ASSUME NEW c \in Code PROVE CodeSound(c)'
  <2>1. CodeSound(c)
    BY DEF AccountsInv, Rows
  <2>2. CASE code[c].account = a
    BY <1>4, <2>2 DEF CodeSound
  <2>3. CASE code[c].account # a
    <3>1. code'[c] = code[c] /\ (c \in expiry' <=> c \in expiry)
      BY <1>4, <2>3
    <3>2. ASSUME code[c] # NoCode
          PROVE  /\ code[c].account \in Account /\ player'[code[c].account].exists
                 /\ \A d \in Code : code'[d].account = code[c].account => d = c
                 /\ \A i \in Identity : login'[i].account = code[c].account => ~Guest(i)'
      <4>1. code[c].account \in Account /\ code[c].account # NoAccount
        BY <2>1, <3>2, RoomsAssumption DEF CodeSound
      <4>2. \A d \in Code : code'[d].account = code[c].account => code[d].account = code[c].account
        BY <1>4, <4>1, Constructors
      <4>3. \A i \in Identity : login'[i].account = code[c].account => login'[i] = login[i]
        BY <1>4, <4>1, Constructors
      <4> QED
        BY <1>4, <2>1, <2>3, <3>2, <4>1, <4>2, <4>3 DEF CodeSound, Guest
    <3> QED
      BY <2>1, <3>1, <3>2 DEF CodeSound
  <2> QED
    BY <2>2, <2>3
<1> QED
    BY <1>3, <1>5, <1>6, <1>7, <1>8, <1>9 DEF AccountsInv, Rows

-----------------------------------------------------------------------------
(* Calls, codes and time. *)

(* Steps that touch none of the rows the invariant relates. *)
LEMMA SmallStepsKeep ==
    ASSUME AccountsInv,
           \/ \E new \in Config : SetConfig(new)
           \/ \E k \in Connection, c \in Code : RedeemWrong(k, c)
           \/ \E a \in Account : BudgetLapses(a)
           \/ \E i \in Identity : AttemptsLapse(i)
           \/ UNCHANGED accountVars
    PROVE  AccountsInv'
<1>1. UNCHANGED <<conn, login, player, session, code, expiry>>
    BY DEF SetConfig, RedeemWrong, BudgetLapses, AttemptsLapse, accountVars, linkVars
<1>2. config' \in Config
    BY DEF SetConfig, RedeemWrong, BudgetLapses, AttemptsLapse, accountVars, AccountsInv, AccountsTypeOK
<1>3. budget' \in [Account -> 0..CodesPerHour]
  <2>1. budget \in [Account -> 0..CodesPerHour] /\ CodesPerHour \in Nat
    BY AccountsAssumption DEF AccountsInv, AccountsTypeOK
  <2> QED
    BY <2>1 DEF SetConfig, RedeemWrong, BudgetLapses, AttemptsLapse, accountVars, linkVars
<1>4. attempts' \in [Identity -> 0..FailuresPerHour]
  <2>1. attempts \in [Identity -> 0..FailuresPerHour] /\ FailuresPerHour \in Nat
    BY AccountsAssumption DEF AccountsInv, AccountsTypeOK
  <2>2. ASSUME NEW k \in Connection, NEW c \in Code, RedeemWrong(k, c)
        PROVE  attempts' \in [Identity -> 0..FailuresPerHour]
    <3>1. conn[k] \in Identity
      BY <2>2 DEF RedeemWrong, MayRedeem, Caller, IsOpen, AccountsInv, AccountsTypeOK
    <3>2. attempts[conn[k]] + 1 \in 0..FailuresPerHour
      BY <2>1, <2>2, <3>1 DEF RedeemWrong, MayRedeem
    <3> QED
      BY <2>1, <2>2, <3>1, <3>2 DEF RedeemWrong
  <2> QED
    BY <2>1, <2>2 DEF SetConfig, BudgetLapses, AttemptsLapse, accountVars, linkVars
<1> QED
    BY <1>1, <1>2, <1>3, <1>4 DEF AccountsInv, AccountsTypeOK, Named, Rows, LoginsKnown, SessionLive,
        Reachable, GuestAlone, Guest, CodeSound

LEMMA ClaimNameKeeps ==
    ASSUME AccountsInv, NEW k \in Connection, NEW name \in Name, ClaimName(k, name)
    PROVE  AccountsInv'
<1>1. PICK a \in Account :
        /\ \A b \in Account : player[b].name # name
        /\ player' = [player EXCEPT ![a].name = name]
        /\ UNCHANGED <<config, conn, login, session, code, expiry, budget, attempts>>
    BY DEF ClaimName, linkVars
<1>2. [player[a] EXCEPT !.name = name] \in PlayerRow
    BY RowsTyped DEF AccountsInv, PlayerRow
<1>3. /\ player' \in [Account -> PlayerRow]
      /\ \A b \in Account : /\ player'[b].exists = player[b].exists
                            /\ player'[b].online = player[b].online
                            /\ player'[b].name = IF b = a THEN name ELSE player[b].name
    BY <1>1, <1>2 DEF AccountsInv, AccountsTypeOK, PlayerRow
<1>4. AccountsTypeOK'
    BY <1>1, <1>3 DEF AccountsInv, AccountsTypeOK, Named
<1> QED
    BY <1>1, <1>3, <1>4 DEF AccountsInv, Rows, LoginsKnown, SessionLive, Reachable, GuestAlone,
        Guest, CodeSound

LEMMA CreateLinkCodeKeeps ==
    ASSUME AccountsInv, NEW k \in Connection, NEW c \in Code, CreateLinkCode(k, c)
    PROVE  AccountsInv'
<1>1. PICK a \in Account :
        /\ Caller(k, a) /\ ~Guest(conn[k]) /\ budget[a] < CodesPerHour
        /\ budget' = [budget EXCEPT ![a] = @ + 1]
        /\ code[c] = NoCode
        /\ code' = [CodesWithout(a) EXCEPT ![c] = [account |-> a, lapsed |-> FALSE]]
        /\ expiry' = ExpiriesWithout(a) \cup {c}
        /\ UNCHANGED <<config, conn, login, player, session, attempts>>
    BY DEF CreateLinkCode
<1> DEFINE new == [account |-> a, lapsed |-> FALSE]
<1>2. new \in CodeRow /\ new # NoCode /\ new.account = a
    BY RoomsAssumption, Constructors DEF CodeRow
<1> HIDE DEF new
<1>3. code' = [d \in Code |-> IF d = c THEN new ELSE IF code[d].account = a THEN NoCode ELSE code[d]]
    BY <1>1 DEF CodesWithout, CodesOf, new
<1>4. \A d \in Code : d \in expiry' <=> d = c \/ (d \in expiry /\ code[d].account # a)
    BY <1>1 DEF ExpiriesWithout, CodesOf
<1>5. AccountsTypeOK'
  <2>1. code' \in [Code -> CodeRow]
    BY <1>2, <1>3, Constructors DEF AccountsInv, AccountsTypeOK
  <2>3. expiry' \subseteq Code
    BY <1>1 DEF AccountsInv, AccountsTypeOK, ExpiriesWithout
  <2>2. budget' \in [Account -> 0..CodesPerHour]
    BY <1>1, AccountsAssumption DEF AccountsInv, AccountsTypeOK
  <2> QED
    BY <1>1, <2>1, <2>2, <2>3 DEF AccountsInv, AccountsTypeOK, Named
<1>6. /\ conn[k] \in Identity /\ login[conn[k]].account = a /\ player[a].exists /\ a # NoAccount
      /\ \A i \in Identity : login[i].account = a => ~Guest(i)
    BY <1>1 DEF Caller, IsOpen, AccountsInv, AccountsTypeOK, Rows, GuestAlone
<1>7. ASSUME NEW d \in Code PROVE CodeSound(d)'
  <2>1. CodeSound(d)
    BY DEF AccountsInv, Rows
  <2>2. CASE d = c
    <3>1. code'[d] = new /\ d \in expiry'
      BY <1>3, <1>4, <2>2
    <3>2. \A e \in Code : code'[e].account = a => e = c
      BY <1>3, <1>6, Constructors
    <3> QED
      BY <1>1, <1>2, <1>6, <2>2, <3>1, <3>2 DEF CodeSound, Guest
  <2>3. CASE d # c /\ code[d].account = a
    BY <1>3, <1>4, <2>3 DEF CodeSound
  <2>4. CASE d # c /\ code[d].account # a
    <3>1. code'[d] = code[d] /\ (d \in expiry' <=> d \in expiry)
      BY <1>3, <1>4, <2>4
    <3>2. code[d] # NoCode =>
            \A e \in Code : code'[e].account = code[d].account => code[e].account = code[d].account
      BY <1>2, <1>3, <2>1, <2>4, Constructors, RoomsAssumption DEF CodeSound
    <3> QED
      BY <1>1, <2>1, <3>1, <3>2 DEF CodeSound, Guest
  <2> QED
    BY <2>2, <2>3, <2>4
<1> QED
    BY <1>1, <1>5, <1>7 DEF AccountsInv, Rows, LoginsKnown, SessionLive, Reachable, GuestAlone, Guest

LEMMA CodeTimeKeeps ==
    ASSUME AccountsInv, NEW c \in Code, ExpireLinkCode(c) \/ CodeLapses(c)
    PROVE  AccountsInv'
<1>1. /\ UNCHANGED <<config, conn, login, player, session, budget, attempts>>
      /\ code' \in [Code -> CodeRow] /\ expiry' \subseteq Code
  <2>1. code \in [Code -> CodeRow] /\ expiry \subseteq Code
    BY DEF AccountsInv, AccountsTypeOK
  <2>2. [code[c] EXCEPT !.lapsed = TRUE] \in CodeRow
    BY <2>1 DEF CodeRow
  <2> QED
    BY <2>1, <2>2, Constructors DEF ExpireLinkCode, CodeLapses
<1>2. AccountsTypeOK'
    BY <1>1 DEF AccountsInv, AccountsTypeOK, Named
<1>3. ASSUME NEW d \in Code PROVE CodeSound(d)'
  <2>1. CodeSound(d)
    BY DEF AccountsInv, Rows
  <2>2. CASE ExpireLinkCode(c)
    <3>1. /\ \A e \in Code : code'[e] = IF e = c THEN NoCode ELSE code[e]
          /\ \A e \in Code : e \in expiry' <=> e \in expiry /\ e # c
      BY <2>2 DEF ExpireLinkCode, AccountsInv, AccountsTypeOK
    <3> QED
      BY <1>1, <2>1, <3>1, Constructors, RoomsAssumption DEF CodeSound, Guest
  <2>3. CASE CodeLapses(c)
    <3>1. /\ \A e \in Code : code'[e].account = code[e].account
          /\ \A e \in Code : code'[e] = NoCode <=> code[e] = NoCode
          /\ expiry' = expiry
      <4>1. code[c] # NoCode /\ code[c].account \in Account /\ code[c].account # NoAccount
        BY <2>3, RoomsAssumption DEF CodeLapses, AccountsInv, Rows, CodeSound
      <4>2. /\ \A e \in Code \ {c} : code'[e] = code[e]
            /\ code'[c].account = code[c].account
            /\ expiry' = expiry
        BY <2>3 DEF CodeLapses, AccountsInv, AccountsTypeOK, CodeRow
      <4> QED
        BY <4>1, <4>2, Constructors
    <3> QED
      BY <1>1, <2>1, <3>1 DEF CodeSound, Guest
  <2> QED
    BY <2>2, <2>3
<1> QED
    BY <1>1, <1>2, <1>3 DEF AccountsInv, Rows, LoginsKnown, SessionLive, Reachable, GuestAlone, Guest

(* A redeemed code moves a login between two accounts: the one it leaves   *)
(* is not a guest's, and the one it comes to has none either.              *)
LEMMA RedeemKeeps ==
    ASSUME AccountsInv, NEW k \in Connection, NEW c \in Code, RedeemLinkCode(k, c)
    PROVE  /\ AccountsInv'
           /\ conn[k] \in Identity
           /\ login[conn[k]].account \in Account /\ code[c].account \in Account
<1> DEFINE i == conn[k]
           to == code[c].account
           from == login[i].account
           last == LastLogin(i)
<1>1. /\ i \in Identity /\ from \in Account /\ to \in Account /\ to # from
      /\ ~Guest(i) /\ session[from] = Session(i, k) /\ player[from].exists
      /\ player[to].exists /\ \A j \in Identity : login[j].account = to => ~Guest(j)
  <2>1. Caller(k, from) /\ ~Guest(i) /\ code[c] # NoCode /\ to # from
    BY DEF RedeemLinkCode, MayRedeem, Good
  <2>2. i \in Identity
    BY <2>1 DEF Caller, IsOpen, AccountsInv, AccountsTypeOK
  <2>3. from \in Account
    BY <2>1, <2>2, RowsTyped DEF Caller, AccountsInv, LoginRow
  <2> QED
    BY <2>1, <2>2, <2>3 DEF Caller, AccountsInv, Rows, CodeSound
<1>2. /\ login' = [login EXCEPT ![i].account = to]
      /\ session' = [session EXCEPT ![from] = NoSession, ![to] = Session(i, k)]
      /\ player' = [player EXCEPT ![from] = IF last THEN NoPlayer ELSE [@ EXCEPT !.online = FALSE],
                                  ![to].online = TRUE]
      /\ code' = IF last THEN [d \in Code |-> IF d \in CodesOf(from) THEN NoCode ELSE CodesWithout(to)[d]]
                         ELSE CodesWithout(to)
      /\ expiry' = IF last THEN ExpiriesWithout(to) \ CodesOf(from) ELSE ExpiriesWithout(to)
      /\ budget' = IF last THEN [budget EXCEPT ![from] = 0] ELSE budget
      /\ UNCHANGED <<config, conn, attempts>>
    BY DEF RedeemLinkCode
<1>3. last <=> \A j \in Identity : login[j].account = from => j = i
    BY DEF LastLogin, LoginsOf
<1> DEFINE Gone(a) == a = to \/ (last /\ a = from)
<1>4. /\ \A d \in Code : code'[d] = IF Gone(code[d].account) THEN NoCode ELSE code[d]
      /\ code' \in [Code -> CodeRow]
      /\ \A d \in Code : d \in expiry' <=> d \in expiry /\ ~Gone(code[d].account)
      /\ expiry' \subseteq Code
  <2>1. code' = [d \in Code |-> IF Gone(code[d].account) THEN NoCode ELSE code[d]]
    BY <1>2 DEF CodesWithout, CodesOf
  <2>2. expiry' = {d \in expiry : ~Gone(code[d].account)}
    BY <1>2 DEF ExpiriesWithout, CodesOf, AccountsInv, AccountsTypeOK
  <2> HIDE DEF Gone
  <2>3. code \in [Code -> CodeRow] /\ expiry \subseteq Code
    BY DEF AccountsInv, AccountsTypeOK
  <2> QED
    BY <2>1, <2>2, <2>3, Constructors
<1> HIDE DEF i, to, from, last
<1>5. /\ login'[i].account = to /\ login'[i].method = login[i].method
      /\ \A j \in Identity \ {i} : login'[j] = login[j]
      /\ login' \in [Identity -> LoginRow]
    BY <1>1, <1>2 DEF AccountsInv, AccountsTypeOK, LoginRow
<1>6. /\ session'[from] = NoSession /\ session'[to] = Session(i, k)
      /\ \A b \in Account \ {from, to} : session'[b] = session[b]
      /\ session' \in [Account -> SessionRow]
    BY <1>1, <1>2, Constructors DEF AccountsInv, AccountsTypeOK
<1>7. /\ player'[from].exists = (~last) /\ ~player'[from].online
      /\ player'[from].name = IF last THEN NoName ELSE player[from].name
      /\ player'[to].exists /\ player'[to].online /\ player'[to].name = player[to].name
      /\ \A b \in Account \ {from, to} : player'[b] = player[b]
      /\ player' \in [Account -> PlayerRow]
  <2> DEFINE left == IF last THEN NoPlayer ELSE [player[from] EXCEPT !.online = FALSE]
             joined == [player[to] EXCEPT !.online = TRUE]
  <2>1. left \in PlayerRow /\ joined \in PlayerRow
    BY <1>1, RowsTyped, Constructors DEF AccountsInv, PlayerRow
  <2>2. player' = [player EXCEPT ![from] = left, ![to] = joined]
    BY <1>1, <1>2 DEF AccountsInv, AccountsTypeOK
  <2>3. /\ left.exists = (~last) /\ ~left.online
        /\ left.name = IF last THEN NoName ELSE player[from].name
        /\ joined.exists /\ joined.online /\ joined.name = player[to].name
    BY <1>1, RowsTyped, Constructors DEF AccountsInv, PlayerRow
  <2> HIDE DEF left, joined
  <2> QED
    BY <1>1, <2>1, <2>2, <2>3 DEF AccountsInv, AccountsTypeOK
<1>8. AccountsTypeOK'
  <2>1. budget' \in [Account -> 0..CodesPerHour]
    BY <1>1, <1>2, AccountsAssumption DEF AccountsInv, AccountsTypeOK
  <2>2. \A b \in Account : player'[b].name = player[b].name \/ player'[b].name = NoName
    BY <1>7
  <2>3. \A b, d \in Account : Named(b)' /\ player'[b].name = player'[d].name => b = d
    BY <2>2 DEF AccountsInv, AccountsTypeOK, Named
  <2> QED
    BY <1>2, <1>4, <1>5, <1>6, <1>7, <2>1, <2>3 DEF AccountsInv, AccountsTypeOK
<1>9. LoginsKnown'
  <2>1. login[i] # NoLogin /\ login[i].method # "none"
    BY <1>1, Constructors, RoomsAssumption DEF AccountsInv, Rows, LoginsKnown, from
  <2> QED
    BY <1>1, <1>5, <2>1 DEF AccountsInv, Rows, LoginsKnown
<1>10. login[i].account = from
    BY DEF from
<1>11. ASSUME NEW b \in Account PROVE SessionLive(b)'
  <2>1. CASE b = from
    BY <1>6, <1>7, <2>1 DEF SessionLive
  <2>2. CASE b = to
    BY <1>1, <1>2, <1>5, <1>6, <1>7, <2>2, Constructors DEF SessionLive, i
  <2>3. CASE b # from /\ b # to
    <3>1. SessionLive(b)
      BY DEF AccountsInv, Rows
    <3>2. session[b] # NoSession => session[b].identity # i
      BY <1>10, <2>3, <3>1 DEF SessionLive
    <3> QED
      BY <1>2, <1>5, <1>6, <1>7, <2>3, <3>1, <3>2 DEF SessionLive
  <2> QED
    BY <2>1, <2>2, <2>3
<1>12. ASSUME NEW b \in Account PROVE Reachable(b)'
  <2>1. Reachable(b)
    BY DEF AccountsInv, Rows
  <2>2. CASE b = from
    BY <1>1, <1>3, <1>5, <1>7, <2>2 DEF Reachable
  <2>3. CASE b = to
    BY <1>1, <1>5, <1>7, <2>3 DEF Reachable
  <2>4. CASE b # from /\ b # to
    BY <1>5, <1>7, <1>10, <2>1, <2>4 DEF Reachable
  <2> QED
    BY <2>2, <2>3, <2>4
<1>13. ASSUME NEW j \in Identity PROVE GuestAlone(j)'
  <2> SUFFICES ASSUME Guest(j)'
               PROVE  /\ \A l \in Identity : login'[l].account = login'[j].account => l = j
                      /\ session'[login'[j].account].identity = j
    BY DEF GuestAlone, Guest
  <2>1. j # i /\ Guest(j) /\ login'[j] = login[j]
    BY <1>1, <1>5 DEF Guest
  <2>2. GuestAlone(j) /\ login[j].account \in Account
    BY <2>1, Constructors DEF AccountsInv, Rows, LoginsKnown, Guest
  <2>3. login[j].account # from /\ login[j].account # to
    BY <1>1, <1>10, <2>1, <2>2 DEF GuestAlone
  <2> QED
    BY <1>5, <1>6, <2>1, <2>2, <2>3 DEF GuestAlone
<1>14. ASSUME NEW d \in Code PROVE CodeSound(d)'
  <2>1. CodeSound(d)
    BY DEF AccountsInv, Rows
  <2>2. CASE Gone(code[d].account)
    BY <1>4, <2>2 DEF CodeSound
  <2>3. CASE ~Gone(code[d].account)
    <3>1. code'[d] = code[d] /\ (d \in expiry' <=> d \in expiry)
      BY <1>4, <2>3
    <3>2. ASSUME code[d] # NoCode
          PROVE  /\ player'[code[d].account].exists
                 /\ \A e \in Code : code'[e].account = code[d].account => e = d
                 /\ \A j \in Identity : login'[j].account = code[d].account => ~Guest(j)'
      <4>1. code[d].account \in Account /\ code[d].account # NoAccount /\ code[d].account # to
        BY <2>1, <2>3, <3>2, RoomsAssumption DEF CodeSound
      <4>2. player'[code[d].account].exists
        BY <1>7, <2>1, <2>3, <3>2, <4>1 DEF CodeSound
      <4>3. \A e \in Code : code'[e].account = code[d].account => code[e].account = code[d].account
        BY <1>4, <4>1, Constructors
      <4>4. \A j \in Identity : login'[j].account = code[d].account => login'[j] = login[j]
        BY <1>5, <4>1
      <4> QED
        BY <2>1, <3>2, <4>2, <4>3, <4>4 DEF CodeSound, Guest
    <3> QED
      BY <2>1, <3>1, <3>2 DEF CodeSound
  <2> QED
    BY <2>2, <2>3
<1> QED
    BY <1>1, <1>8, <1>9, <1>11, <1>12, <1>13, <1>14 DEF AccountsInv, Rows, i, from, to

-----------------------------------------------------------------------------
(* The tables' own theorems. *)

LEMMA AccountsInvNext ==
    ASSUME AccountsInv, [AccountsNext]_allVars
    PROVE  AccountsInv'
<1>1. ASSUME NEW k \in Connection, ConnectionStep(k) PROVE AccountsInv'
    BY <1>1, SignInKeeps, SignUpKeeps, DisconnectGuestKeeps, DisconnectKeeps, DisconnectOlderKeeps
        DEF ConnectionStep
<1>2. ASSUME NEW k \in Connection, CallStep(k) PROVE AccountsInv'
  <2>1. CASE \E name \in Name : ClaimName(k, name)
    BY <2>1, ClaimNameKeeps
  <2>2. CASE (\E c \in Course : JoinRoom(k, c)) \/ PlayInRoom(k)
    BY <2>2, SmallStepsKeep DEF JoinRoom, PlayInRoom
  <2> QED
    BY <1>2, <2>1, <2>2 DEF CallStep
<1>3. ASSUME NEW k \in Connection, LinkStep(k) PROVE AccountsInv'
    BY <1>3, CreateLinkCodeKeeps, RedeemKeeps, SmallStepsKeep DEF LinkStep
<1>4. CASE TimeStep
    BY <1>4, CodeTimeKeeps, SmallStepsKeep DEF TimeStep
<1>5. CASE UNCHANGED allVars
    BY <1>5, SmallStepsKeep DEF allVars
<1> QED
    BY <1>1, <1>2, <1>3, <1>4, <1>5, SmallStepsKeep DEF AccountsNext

LEMMA AccountsInvHolds == AccountsSpec => []AccountsInv
<1>1. AccountsInit => AccountsInv
  <2> SUFFICES ASSUME AccountsInit PROVE AccountsInv
    OBVIOUS
  <2>1. AccountsTypeOK
    BY Constructors, AccountsAssumption DEF AccountsInit, AccountsTypeOK, Named
  <2>2. Rows
    BY Constructors, RoomsAssumption
        DEF AccountsInit, Rows, LoginsKnown, SessionLive, Reachable, GuestAlone, Guest, CodeSound
  <2> QED
    BY <2>1, <2>2 DEF AccountsInv
<1> QED
    BY <1>1, AccountsInvNext, PTL DEF AccountsSpec

(* Rows, rate limits and the names' uniqueness. *)
THEOREM AccountsTyped == AccountsSpec => []AccountsTypeOK
    BY AccountsInvHolds, PTL DEF AccountsInv

(* Every account has a login, no login an account that was deleted, and a  *)
(* guest's account its one login's session (delete_account, account_rules).*)
THEOREM AccountsStayReachable == AccountsSpec => []AccountsHaveLogins
    BY AccountsInvHolds, InvProperties, PTL

(* A code is its account's only one, with an expiry scheduled exactly      *)
(* while it is there, and of no guest.                                     *)
THEOREM CodesStaySound == AccountsSpec => []CodesSound
    BY AccountsInvHolds, InvProperties, PTL

-----------------------------------------------------------------------------
(* Over the rooms. *)

(* Every step of the accounts is one of the rooms, or leaves them alone: a *)
(* session only ends the room state of an account there is.                *)
LEMMA RoomsOfStep ==
    ASSUME AccountsInv, [AccountsNext]_allVars
    PROVE  [RoomsNext]_roomVars
<1>1. ASSUME NEW a \in Account, EndRoomState(a) \/ TakeOver(a) PROVE [RoomsNext]_roomVars
    BY <1>1 DEF TakeOver, EndRoomState, RoomsNext
<1>2. ASSUME NEW k \in Connection, ConnectionStep(k) PROVE [RoomsNext]_roomVars
  <2>1. ASSUME NEW i \in Identity, SignIn(k, i) PROVE [RoomsNext]_roomVars
    BY <1>1, <2>1, SignInKeeps DEF SignIn
  <2>2. ASSUME NEW i \in Identity, NEW a \in Account, SignUp(k, i, a) PROVE [RoomsNext]_roomVars
    BY <1>1, <2>2 DEF SignUp
  <2>3. CASE DisconnectGuest(k)
    BY <1>1, <2>3, LiveSession DEF DisconnectGuest, AccountDeleted
  <2>4. CASE Disconnect(k)
    BY <1>1, <2>4, LiveSession DEF Disconnect
  <2>5. CASE DisconnectOlder(k)
    BY <2>5 DEF DisconnectOlder
  <2> QED
    BY <1>2, <2>1, <2>2, <2>3, <2>4, <2>5 DEF ConnectionStep
<1>3. ASSUME NEW k \in Connection, CallStep(k) PROVE [RoomsNext]_roomVars
    BY <1>3 DEF CallStep, ClaimName, JoinRoom, PlayInRoom, RoomsNext
<1>4. ASSUME NEW k \in Connection, LinkStep(k) PROVE [RoomsNext]_roomVars
  <2>1. ASSUME NEW c \in Code, RedeemLinkCode(k, c) PROVE [RoomsNext]_roomVars
    BY <1>1, <2>1, RedeemKeeps DEF RedeemLinkCode
  <2> QED
    BY <1>4, <2>1 DEF LinkStep, CreateLinkCode, RedeemWrong
<1>5. CASE TimeStep \/ (\E new \in Config : SetConfig(new)) \/ UNCHANGED allVars
    BY <1>5 DEF TimeStep, ExpireLinkCode, CodeLapses, BudgetLapses, AttemptsLapse, SetConfig, allVars
<1> QED
    BY <1>2, <1>3, <1>4, <1>5 DEF AccountsNext

(* So what the rooms promise holds whoever signs in and out.               *)
THEOREM AccountsKeepRooms == AccountsSpec => RoomsSpec
<1>1. AccountsInit => RoomsInit
    BY DEF AccountsInit
<1> QED
    BY <1>1, RoomsOfStep, AccountsInvHolds, PTL DEF AccountsSpec, RoomsSpec

(* Whoever is in a room is signed in and has a name. *)
SignedIn(a) == member[a].room # NoRoom => session[a] # NoSession /\ Named(a)
MembersSignedIn == \A a \in Account : SignedIn(a)

(* Room state that ends, and a newer connection's that begins outside.     *)
LEMMA RoomStateEnds ==
    ASSUME RoomsTypeOK, MembersSignedIn, NEW a \in Account, EndRoomState(a) \/ TakeOver(a)
    PROVE  /\ member'[a].room = NoRoom
           /\ \A b \in Account \ {a} : member'[b] = member[b]
<1>1. CASE LeaveRoom(a)
    BY <1>1 DEF LeaveRoom, RoomsTypeOK, NoMemberRow
<1>2. CASE UNCHANGED roomVars /\ member[a].room = NoRoom
    BY <1>2 DEF roomVars
<1>3. \/ LeaveRoom(a)
      \/ UNCHANGED roomVars /\ member[a].room = NoRoom
    BY DEF EndRoomState, TakeOver, MembersSignedIn, SignedIn
<1> QED
    BY <1>1, <1>2, <1>3

(* What a step does to sessions and rooms: who loses or changes a session  *)
(* is out of their room after it.                                          *)
SessionEnds(a) ==
    session[a] # NoSession /\ session'[a] # session[a] => member'[a].room = NoRoom

SignedInAfter == /\ MembersSignedIn'
                 /\ \A a \in Account : SessionEnds(a)

LEMMA ConnectionStepSignedIn ==
    ASSUME RoomsTypeOK, AccountsInv, MembersSignedIn, NEW k \in Connection, ConnectionStep(k)
    PROVE  SignedInAfter
<1> SUFFICES ASSUME NEW b \in Account PROVE SignedIn(b)' /\ SessionEnds(b)
    BY DEF SignedInAfter, MembersSignedIn
<1>1. SignedIn(b) /\ session \in [Account -> SessionRow] /\ player \in [Account -> PlayerRow]
    BY DEF MembersSignedIn, AccountsInv, AccountsTypeOK
<1>2. ASSUME NEW a \in Account, EndRoomState(a) \/ TakeOver(a),
             b # a => session'[b] = session[b] /\ (Named(b) => Named(b)')
      PROVE  SignedIn(b)' /\ SessionEnds(b)
    BY <1>1, <1>2, RoomStateEnds DEF SignedIn, SessionEnds
<1>3. ASSUME NEW i \in Identity, SignIn(k, i) PROVE SignedIn(b)' /\ SessionEnds(b)
    BY <1>1, <1>2, <1>3, SignInKeeps DEF SignIn, Named
<1>4. ASSUME NEW i \in Identity, NEW a \in Account, SignUp(k, i, a) PROVE SignedIn(b)' /\ SessionEnds(b)
    BY <1>1, <1>2, <1>4 DEF SignUp, Named
<1>5. CASE DisconnectGuest(k)
    BY <1>1, <1>2, <1>5, LiveSession DEF DisconnectGuest, AccountDeleted, Named
<1>6. CASE Disconnect(k)
    BY <1>1, <1>2, <1>6, LiveSession DEF Disconnect, Named
<1>7. CASE DisconnectOlder(k)
    BY <1>1, <1>7 DEF DisconnectOlder, roomVars, SignedIn, Named, SessionEnds
<1> QED
    BY <1>3, <1>4, <1>5, <1>6, <1>7 DEF ConnectionStep

LEMMA CallStepSignedIn ==
    ASSUME RoomsTypeOK, AccountsInv, MembersSignedIn, NEW k \in Connection, CallStep(k)
    PROVE  SignedInAfter
<1> SUFFICES ASSUME NEW b \in Account PROVE SignedIn(b)' /\ SessionEnds(b)
    BY DEF SignedInAfter, MembersSignedIn
<1>1. SignedIn(b) /\ session \in [Account -> SessionRow] /\ player \in [Account -> PlayerRow]
    BY DEF MembersSignedIn, AccountsInv, AccountsTypeOK
<1>2. ASSUME NEW name \in Name, ClaimName(k, name) PROVE SignedIn(b)' /\ SessionEnds(b)
  <2>1. PICK a \in Account : /\ player' = [player EXCEPT ![a].name = name]
                             /\ UNCHANGED <<roomVars, session>>
    BY <1>2 DEF ClaimName
  <2>2. name # NoName
    BY AccountsAssumption
  <2> QED
    BY <1>1, <2>1, <2>2 DEF SignedIn, SessionEnds, Named, roomVars, PlayerRow
<1>3. ASSUME NEW c \in Course, JoinRoom(k, c) PROVE SignedIn(b)' /\ SessionEnds(b)
  <2>1. PICK a \in Account : Caller(k, a) /\ Named(a) /\ JoinCourse(a, c) /\ UNCHANGED accountVars
    BY <1>3 DEF JoinRoom
  <2>2. session[a] # NoSession
    BY <2>1, Constructors DEF Caller, IsOpen, AccountsInv, AccountsTypeOK
  <2>3. \A d \in Account \ {a} : member'[d] = member[d]
    BY <2>1, Leavers
  <2> QED
    BY <1>1, <2>1, <2>2, <2>3 DEF SignedIn, SessionEnds, Named, accountVars
<1>4. CASE PlayInRoom(k)
  <2>1. PICK a \in Account : (LeaveRoom(a) \/ GroupStep(a)) /\ UNCHANGED accountVars
    BY <1>4 DEF PlayInRoom
  <2>2. CASE LeaveRoom(a)
    BY <1>1, <2>1, <2>2 DEF LeaveRoom, NoMemberRow, RoomsTypeOK, SignedIn, SessionEnds, Named, accountVars
  <2>3. CASE GroupStep(a)
    BY <1>1, <2>1, <2>3, GroupStepStays DEF SignedIn, SessionEnds, Named, accountVars
  <2> QED
    BY <2>1, <2>2, <2>3
<1> QED
    BY <1>2, <1>3, <1>4 DEF CallStep

(* The account a redeemed code's login leaves has no name, so no room; the *)
(* code's own account leaves its room for the newer connection.            *)
LEMMA RedeemSignedIn ==
    ASSUME RoomsTypeOK, AccountsInv, MembersSignedIn,
           NEW k \in Connection, NEW c \in Code, RedeemLinkCode(k, c)
    PROVE  SignedInAfter
<1> DEFINE i == conn[k]
           to == code[c].account
           from == login[i].account
<1>1. /\ from \in Account /\ to \in Account /\ ~Named(from) /\ TakeOver(to) /\ to # from
      /\ session' = [session EXCEPT ![from] = NoSession, ![to] = Session(i, k)]
      /\ player' = [player EXCEPT ![from] = IF LastLogin(i) THEN NoPlayer ELSE [@ EXCEPT !.online = FALSE],
                                  ![to].online = TRUE]
    BY RedeemKeeps DEF RedeemLinkCode, HasProgress
<1> HIDE DEF i, to, from
<1>2. /\ member'[to].room = NoRoom
      /\ \A b \in Account \ {to} : member'[b] = member[b]
    BY <1>1, RoomStateEnds
<1>3. member'[from].room = NoRoom
    BY <1>1, <1>2 DEF MembersSignedIn, SignedIn
<1>4. \A b \in Account \ {from, to} : session'[b] = session[b] /\ player'[b] = player[b]
    BY <1>1 DEF AccountsInv, AccountsTypeOK
<1> QED
    BY <1>2, <1>3, <1>4 DEF SignedInAfter, MembersSignedIn, SignedIn, SessionEnds, Named

LEMMA SignedInNext ==
    ASSUME RoomsTypeOK, AccountsInv, MembersSignedIn, [AccountsNext]_allVars
    PROVE  SignedInAfter
<1>1. CASE UNCHANGED <<member, session>> /\ \A b \in Account : player'[b].name = player[b].name
    BY <1>1 DEF SignedInAfter, MembersSignedIn, SignedIn, SessionEnds, Named
<1>2. ASSUME NEW k \in Connection, NEW c \in Code, CreateLinkCode(k, c) \/ RedeemWrong(k, c)
      PROVE  UNCHANGED <<member, session, player>>
    BY <1>2 DEF CreateLinkCode, RedeemWrong, roomVars
<1>3. CASE TimeStep \/ (\E new \in Config : SetConfig(new)) \/ UNCHANGED allVars
    BY <1>1, <1>3 DEF TimeStep, ExpireLinkCode, CodeLapses, BudgetLapses, AttemptsLapse, SetConfig,
        allVars, accountVars, roomVars
<1> QED
    BY <1>1, <1>2, <1>3, ConnectionStepSignedIn, CallStepSignedIn, RedeemSignedIn DEF AccountsNext, LinkStep

LEMMA SignedInHolds == AccountsSpec => [](RoomsTypeOK /\ AccountsInv /\ MembersSignedIn)
<1>1. AccountsInit => MembersSignedIn
    BY DEF AccountsInit, RoomsInit, NoMemberRow, MembersSignedIn, SignedIn
<1>2. RoomsTypeOK /\ AccountsInv /\ MembersSignedIn /\ [AccountsNext]_allVars => MembersSignedIn'
    BY SignedInNext DEF SignedInAfter
<1> QED
    BY <1>1, <1>2, AccountsInvHolds, AccountsKeepRooms, RoomsTyped, PTL DEF AccountsSpec

(* A session is an open connection of its account's own login, an account  *)
(* online has one, and whoever is in a room is signed in: through          *)
(* overlapping connections, moved logins and deleted accounts.             *)
THEOREM SessionsStaySound == AccountsSpec => []SessionsSound
<1>1. AccountsInv /\ MembersSignedIn => SessionsSound
    BY DEF AccountsInv, Rows, SessionLive, MembersSignedIn, SignedIn, SessionsSound
<1> QED
    BY <1>1, SignedInHolds, PTL

(* No session ends, and none is replaced by a newer connection's, without  *)
(* its room state ending in that step.                                     *)
THEOREM SessionsEndRooms == AccountsSpec => SessionsTakeTheirRooms
<1>1. RoomsTypeOK /\ AccountsInv /\ MembersSignedIn /\ [AccountsNext]_allVars
      => [\A a \in Account : SessionEnds(a)]_allVars
    BY SignedInNext DEF SignedInAfter
<1>2. [][\A a \in Account : SessionEnds(a)]_allVars => SessionsTakeTheirRooms
    BY PTL DEF SessionsTakeTheirRooms, SessionEnds
<1> QED
    BY <1>1, <1>2, SignedInHolds, PTL DEF AccountsSpec

-----------------------------------------------------------------------------
(* What no step does. *)

(* A name is an account's there is; a step takes it only from a guest's.   *)
NameOfAccount(a) == Named(a) => player[a].exists
NamesOfAccounts == \A a \in Account : NameOfAccount(a)
NameKept(a) == Named(a) /\ player'[a].name # player[a].name => \E i \in LoginsOf(a) : Guest(i)

LEMMA NamedNext ==
    ASSUME AccountsInv, NamesOfAccounts, AccountsNext, NEW a \in Account
    PROVE  NameOfAccount(a)' /\ NameKept(a)
<1>1. player \in [Account -> PlayerRow] /\ NameOfAccount(a)
    BY DEF AccountsInv, AccountsTypeOK, NamesOfAccounts
<1>2. CASE player'[a].name = player[a].name /\ player'[a].exists = player[a].exists
    BY <1>1, <1>2 DEF NameOfAccount, NameKept, Named
<1>3. ASSUME NEW k \in Connection, ConnectionStep(k) PROVE NameOfAccount(a)' /\ NameKept(a)
  <2>1. CASE DisconnectGuest(k)
    <3>1. /\ conn[k] \in Identity /\ Guest(conn[k])
          /\ player' = [player EXCEPT ![login[conn[k]].account] = NoPlayer]
      BY <2>1, LiveSession DEF DisconnectGuest, AccountDeleted
    <3> QED
      BY <1>1, <3>1, Constructors DEF LoginsOf, NameOfAccount, NameKept, Named
  <2>2. CASE Disconnect(k)
    BY <1>1, <1>2, <2>2, LiveSession DEF Disconnect, PlayerRow
  <2>3. ASSUME NEW i \in Identity, SignIn(k, i) PROVE NameOfAccount(a)' /\ NameKept(a)
    BY <1>1, <1>2, <2>3, SignInKeeps DEF SignIn, PlayerRow
  <2>4. ASSUME NEW i \in Identity, NEW b \in Account, SignUp(k, i, b)
        PROVE  NameOfAccount(a)' /\ NameKept(a)
    <3>1. ~player[b].exists /\ player' = [player EXCEPT ![b] = NewPlayer]
      BY <2>4 DEF SignUp
    <3> QED
      BY <1>1, <3>1, Constructors DEF NameOfAccount, NameKept, Named
  <2>5. CASE DisconnectOlder(k)
    BY <1>2, <2>5 DEF DisconnectOlder
  <2> QED
    BY <1>3, <2>1, <2>2, <2>3, <2>4, <2>5 DEF ConnectionStep
<1>4. ASSUME NEW k \in Connection, CallStep(k) PROVE NameOfAccount(a)' /\ NameKept(a)
  <2>1. ASSUME NEW name \in Name, ClaimName(k, name) PROVE NameOfAccount(a)' /\ NameKept(a)
    <3>1. PICK b \in Account : /\ player[b].exists /\ ~Named(b)
                               /\ player' = [player EXCEPT ![b].name = name]
      BY <2>1 DEF ClaimName, Caller
    <3> QED
      BY <1>1, <3>1 DEF NameOfAccount, NameKept, Named, PlayerRow
  <2> QED
    BY <1>2, <1>4, <2>1 DEF CallStep, JoinRoom, PlayInRoom, accountVars
<1>5. ASSUME NEW k \in Connection, LinkStep(k) PROVE NameOfAccount(a)' /\ NameKept(a)
  <2>1. ASSUME NEW c \in Code, RedeemLinkCode(k, c) PROVE NameOfAccount(a)' /\ NameKept(a)
    <3> DEFINE to == code[c].account
               from == login[conn[k]].account
    <3>1. /\ from \in Account /\ to \in Account /\ ~Named(from) /\ to # from /\ player[to].exists
          /\ player' = [player EXCEPT ![from] = IF LastLogin(conn[k]) THEN NoPlayer
                                                ELSE [@ EXCEPT !.online = FALSE],
                                      ![to].online = TRUE]
      BY <2>1, RedeemKeeps DEF RedeemLinkCode, HasProgress, Good
    <3> HIDE DEF to, from
    <3>2. CASE a = from
      <4>1. player'[a].name = NoName
        BY <1>1, <3>1, <3>2, Constructors DEF Named, PlayerRow
      <4> QED
        BY <3>1, <3>2, <4>1 DEF NameOfAccount, NameKept, Named
    <3>3. CASE a # from
      BY <1>1, <1>2, <3>1, <3>3 DEF PlayerRow
    <3> QED
      BY <3>2, <3>3
  <2> QED
    BY <1>2, <1>5, <2>1 DEF LinkStep, CreateLinkCode, RedeemWrong
<1>6. CASE TimeStep \/ \E new \in Config : SetConfig(new)
    BY <1>2, <1>6 DEF TimeStep, ExpireLinkCode, CodeLapses, BudgetLapses, AttemptsLapse, SetConfig
<1> QED
    BY <1>3, <1>4, <1>5, <1>6 DEF AccountsNext

(* A named account keeps its name and is not deleted, unless it is a       *)
(* guest's: a login is moved only out of accounts that hold nothing.       *)
THEOREM NamedStay == AccountsSpec => NamedAccountsStay
<1>1. AccountsInit => NamesOfAccounts
    BY Constructors DEF AccountsInit, NamesOfAccounts, NameOfAccount, Named
<1>2. AccountsInv /\ NamesOfAccounts /\ [AccountsNext]_allVars => NamesOfAccounts'
  <2>1. CASE UNCHANGED allVars
    BY <2>1 DEF allVars, accountVars, NamesOfAccounts, NameOfAccount, Named
  <2> QED
    BY <2>1, NamedNext DEF NamesOfAccounts
<1>3. AccountsInv /\ NamesOfAccounts /\ [AccountsNext]_allVars
      => [\A a \in Account : NameKept(a)]_allVars
    BY NamedNext
<1>4. [][\A a \in Account : NameKept(a)]_allVars => NamedAccountsStay
    BY PTL DEF NamedAccountsStay, NameKept
<1> QED
    BY <1>1, <1>2, <1>3, <1>4, AccountsInvHolds, PTL DEF AccountsSpec

(* Wrong codes are counted for logins there are, and no guest's.           *)
AttemptOfLogin(i) == attempts[i] > 0 => login[i] # NoLogin /\ ~Guest(i)
AttemptsOfLogins == \A i \in Identity : AttemptOfLogin(i)
AttemptKept(i) == attempts'[i] < attempts[i] => AttemptsLapse(i)

LEMMA AttemptsNext ==
    ASSUME AccountsInv, AttemptsOfLogins, AccountsNext, NEW i \in Identity
    PROVE  AttemptOfLogin(i)' /\ AttemptKept(i)
<1>1. /\ attempts \in [Identity -> 0..FailuresPerHour] /\ login \in [Identity -> LoginRow]
      /\ AttemptOfLogin(i) /\ FailuresPerHour \in Nat /\ attempts[i] \in 0..FailuresPerHour
    BY AccountsAssumption DEF AccountsInv, AccountsTypeOK, AttemptsOfLogins
<1>2. CASE UNCHANGED <<attempts, login>>
    BY <1>1, <1>2 DEF AttemptOfLogin, AttemptKept, Guest
<1>3. ASSUME NEW k \in Connection, ConnectionStep(k) PROVE AttemptOfLogin(i)' /\ AttemptKept(i)
  <2>1. CASE DisconnectGuest(k)
    <3> DEFINE a == login[conn[k]].account
    <3>1. /\ conn[k] \in Identity /\ Guest(conn[k]) /\ a \in Account
          /\ login' = [j \in Identity |-> IF login[j].account = a THEN NoLogin ELSE login[j]]
          /\ attempts' = [j \in Identity |-> IF login[j].account = a THEN 0 ELSE attempts[j]]
      BY <2>1, LiveSession DEF DisconnectGuest, AccountDeleted, LoginsOf
    <3>2. login[i].account = a => Guest(i)
      BY <3>1 DEF AccountsInv, Rows, GuestAlone
    <3> HIDE DEF a
    <3> QED
      BY <1>1, <3>1, <3>2 DEF AttemptOfLogin, AttemptKept, Guest
  <2>2. ASSUME NEW j \in Identity, NEW b \in Account, SignUp(k, j, b)
        PROVE  AttemptOfLogin(i)' /\ AttemptKept(i)
    <3>1. /\ login[j] = NoLogin /\ attempts' = attempts
          /\ login' = [login EXCEPT ![j] = Login(b, MethodOf(j))]
      BY <2>2 DEF SignUp, linkVars
    <3> QED
      BY <1>1, <3>1 DEF AttemptOfLogin, AttemptKept, Guest
  <2> QED
    BY <1>2, <1>3, <2>1, <2>2 DEF ConnectionStep, Disconnect, DisconnectOlder, SignIn, linkVars
<1>4. ASSUME NEW k \in Connection, CallStep(k) PROVE AttemptOfLogin(i)' /\ AttemptKept(i)
    BY <1>2, <1>4 DEF CallStep, ClaimName, JoinRoom, PlayInRoom, accountVars, linkVars
<1>5. ASSUME NEW k \in Connection, LinkStep(k) PROVE AttemptOfLogin(i)' /\ AttemptKept(i)
  <2>1. ASSUME NEW c \in Code, RedeemLinkCode(k, c) PROVE AttemptOfLogin(i)' /\ AttemptKept(i)
    <3>1. /\ attempts' = attempts /\ conn[k] \in Identity /\ code[c].account \in Account
          /\ login' = [login EXCEPT ![conn[k]].account = code[c].account]
      BY <2>1, RedeemKeeps DEF RedeemLinkCode
    <3> QED
      BY <1>1, <3>1, Constructors, RoomsAssumption DEF AttemptOfLogin, AttemptKept, Guest, LoginRow
  <2>2. ASSUME NEW c \in Code, RedeemWrong(k, c) PROVE AttemptOfLogin(i)' /\ AttemptKept(i)
    <3>1. PICK a \in Account : MayRedeem(k, a)
      BY <2>2 DEF RedeemWrong
    <3>2. /\ conn[k] \in Identity /\ ~Guest(conn[k]) /\ login[conn[k]] # NoLogin
          /\ attempts' = [attempts EXCEPT ![conn[k]] = @ + 1] /\ login' = login
      BY <2>2, <3>1, Constructors DEF RedeemWrong, MayRedeem, Caller, IsOpen, AccountsInv, AccountsTypeOK
    <3> QED
      BY <1>1, <3>2 DEF AttemptOfLogin, AttemptKept, Guest
  <2> QED
    BY <1>2, <1>5, <2>1, <2>2 DEF LinkStep, CreateLinkCode
<1>6. ASSUME NEW j \in Identity, AttemptsLapse(j) PROVE AttemptOfLogin(i)' /\ AttemptKept(i)
  <2>1. attempts' = [attempts EXCEPT ![j] = 0] /\ login' = login
    BY <1>6 DEF AttemptsLapse
  <2>2. CASE i = j
    BY <1>1, <1>6, <2>1, <2>2 DEF AttemptOfLogin, AttemptKept
  <2>3. CASE i # j
    BY <1>1, <2>1, <2>3 DEF AttemptOfLogin, AttemptKept, Guest
  <2> QED
    BY <2>2, <2>3
<1>7. CASE \/ \E c \in Code : ExpireLinkCode(c) \/ CodeLapses(c)
           \/ \E a \in Account : BudgetLapses(a)
           \/ \E new \in Config : SetConfig(new)
    BY <1>2, <1>7 DEF ExpireLinkCode, CodeLapses, BudgetLapses, SetConfig, linkVars
<1> QED
    BY <1>3, <1>4, <1>5, <1>6, <1>7 DEF AccountsNext, TimeStep

(* Only an hour takes wrong codes off an identity's count (link_attempt).  *)
THEOREM FailuresStay == AccountsSpec => FailuresStick
<1>1. AccountsInit => AttemptsOfLogins
    BY DEF AccountsInit, AttemptsOfLogins, AttemptOfLogin
<1>2. AccountsInv /\ AttemptsOfLogins /\ [AccountsNext]_allVars => AttemptsOfLogins'
  <2>1. CASE UNCHANGED allVars
    BY <2>1 DEF allVars, accountVars, linkVars, AttemptsOfLogins, AttemptOfLogin, Guest
  <2> QED
    BY <2>1, AttemptsNext DEF AttemptsOfLogins
<1>3. AccountsInv /\ AttemptsOfLogins /\ [AccountsNext]_allVars
      => [\A i \in Identity : AttemptKept(i)]_allVars
    BY AttemptsNext
<1>4. [][\A i \in Identity : AttemptKept(i)]_allVars => FailuresStick
    BY PTL DEF FailuresStick, AttemptKept
<1> QED
    BY <1>1, <1>2, <1>3, <1>4, AccountsInvHolds, PTL DEF AccountsSpec

=============================================================================
