------------------------------ MODULE Handoff ------------------------------
(***************************************************************************)
(* How a player gets from the login server to the game server: the login   *)
(* server leaves a row in the table active_sessions, and startAccept of    *)
(* server/game/src/GameServer.cpp finds it again by the address of the     *)
(* connection.  Then the packets with which the server moves a client from *)
(* screen to screen.                                                       *)
(*                                                                         *)
(* A row's token says when it was inserted: the newest row of an address   *)
(* is the one with the largest.                                            *)
(***************************************************************************)
EXTENDS Integers

CONSTANTS
    Player,      \* the players, each with an account
    Address,     \* client addresses
    Home,        \* the address of each player
    Patient,     \* the players who wait until their connection is accepted
    Character,   \* the character of each account: "none", "new", "tutored"
    Bannable,    \* the addresses somebody may ban
    Nobody,      \* accountId 0; the owner of a connection not made yet
    MaxConn,     \* bound: connections
    MaxToken,    \* bound: redirections
    MaxFailures  \* bound: statements that fail

ASSUME HandoffAssumption ==
    /\ Home \in [Player -> Address]
    /\ Patient \subseteq Player
    /\ Character \in [Player -> {"none", "new", "tutored"}]
    /\ Bannable \subseteq Address
    /\ Nobody \notin Player
    /\ MaxConn \in Nat
    /\ MaxToken \in Nat
    /\ MaxFailures \in Nat

(* The connections in the order of the backlog, and the sessions they      *)
(* become.                                                                 *)
Conn == 1..MaxConn

VARIABLES
    rows,      \* the table active_sessions
    tokens,    \* how many rows were ever inserted
    made,      \* how many connections were made
    using,     \* the connection each player's client uses, or 0
    ticket,    \* the token each player was redirected with and has not used, or 0
    phase,     \* each connection: "unused", "waiting" for accept, "reset" by the
               \* peer while it waited, "open" as a session, "closed"
    owner,     \* who made the connection
    claim,     \* the ticket it was made with
    row,       \* the token of the row startAccept found for it, or 0
    account,   \* Session::accountId
    screen,    \* the screen the packets to the client have brought it to
    banned,    \* BanManager::m_bannedIPs
    armed,     \* an async_accept is outstanding
    running,   \* the process is in io_context.run()
    failures,  \* how many statements failed
    kept,      \* the tokens whose deletion failed
    unread     \* the connections whose look-up failed

client == <<made, using, ticket, phase, owner, claim>>
session == <<row, account, screen>>
database == <<rows, tokens>>
process == <<banned, armed, running>>
faults == <<failures, kept, unread>>
vars == <<client, session, database, process, faults>>

From(c) == Home[owner[c]]

(* SELECT ... WHERE client_ip = addr ORDER BY created_at DESC LIMIT 1 *)
RowsOf(addr) == {r \in rows : r.addr = addr}
Newest_Oldest(addr) == {r \in RowsOf(addr) : \A q \in RowsOf(addr) : r.token <= q.token}
Newest_Anywhere(addr) == {r \in rows : \A q \in rows : q.token <= r.token}
Newest(addr) == {r \in RowsOf(addr) : \A q \in RowsOf(addr) : q.token <= r.token}

(* A statement that may fail while the bound allows; the result is whether *)
(* it was executed.                                                        *)
Executed == IF failures < MaxFailures THEN BOOLEAN ELSE {TRUE}

Init ==
    /\ rows = {} /\ tokens = 0
    /\ made = 0
    /\ using = [p \in Player |-> 0] /\ ticket = [p \in Player |-> 0]
    /\ phase = [c \in Conn |-> "unused"]
    /\ owner = [c \in Conn |-> Nobody] /\ claim = [c \in Conn |-> 0]
    /\ row = [c \in Conn |-> 0]
    /\ account = [c \in Conn |-> Nobody]
    /\ screen = [c \in Conn |-> "connecting"]
    /\ banned = {} /\ armed = TRUE /\ running = TRUE
    /\ failures = 0 /\ kept = {} /\ unread = {}

-----------------------------------------------------------------------------
(* The players, the login server, the administrators.                      *)

Redirect(p) ==
    /\ using[p] = 0 /\ tokens < MaxToken
    /\ tokens' = tokens + 1
    /\ rows' = rows \union {[token |-> tokens + 1, addr |-> Home[p], account |-> p]}
    /\ ticket' = [ticket EXCEPT ![p] = tokens + 1]
    /\ UNCHANGED <<made, using, phase, owner, claim, session, process, faults>>

(* With the last redirection, or straight to the game server without one. *)
Connect(p, c) ==
    /\ running /\ using[p] = 0 /\ c = made + 1
    /\ made' = c
    /\ using' = [using EXCEPT ![p] = c]
    /\ ticket' = [ticket EXCEPT ![p] = 0]
    /\ phase' = [phase EXCEPT ![c] = "waiting"]
    /\ owner' = [owner EXCEPT ![c] = p]
    /\ claim' = [claim EXCEPT ![c] = ticket[p]]
    /\ UNCHANGED <<session, database, process, faults>>

(* The connections in C end, and with them the Session objects.  Their     *)
(* owners may be using others by now.                                      *)
Close(C) ==
    /\ phase' = [c \in Conn |-> IF c \in C THEN "closed" ELSE phase[c]]
    /\ using' = [p \in Player |-> IF using[p] \in C THEN 0 ELSE using[p]]
    /\ owner' = [c \in Conn |-> IF c \in C THEN Nobody ELSE owner[c]]
    /\ claim' = [c \in Conn |-> IF c \in C THEN 0 ELSE claim[c]]
    /\ account' = [c \in Conn |-> IF c \in C THEN Nobody ELSE account[c]]
    /\ screen' = [c \in Conn |-> IF c \in C THEN "connecting" ELSE screen[c]]
    /\ unread' = unread \ C
    /\ UNCHANGED <<made, ticket, row, database, failures, kept>>

(* The client goes away and the server notices it. *)
Leave(c) == running /\ phase[c] = "open" /\ Close({c}) /\ UNCHANGED process

(* The client goes away, closing or resetting, while the connection waits. *)
(* The kernel keeps that for accept.                                       *)
GiveUp(c) ==
    /\ phase[c] = "waiting" /\ using[owner[c]] = c /\ owner[c] \notin Patient
    /\ phase' \in {phase, [phase EXCEPT ![c] = "reset"]}
    /\ using' = [using EXCEPT ![owner[c]] = 0]
    /\ UNCHANGED <<made, ticket, owner, claim, session, database, process, faults>>

Ban(addr) ==
    /\ running /\ banned' = banned \union {addr}
    /\ UNCHANGED <<client, session, database, armed, running, faults>>

Unban(addr) ==
    /\ running /\ banned' = banned \ {addr}
    /\ UNCHANGED <<client, session, database, armed, running, faults>>

-----------------------------------------------------------------------------
(* The completion handler of async_accept.                                 *)

First(c) ==
    armed /\ \A d \in Conn : phase[d] \in {"waiting", "reset"} => c <= d

(* accept reports an error, or hands out a socket that has lost its peer:  *)
(* remote_endpoint() throws, main() catches, and every connection dies     *)
(* with the process.                                                       *)
AcceptReset(c) ==
    /\ First(c) /\ phase[c] = "reset"
    /\ \/ Close({c}) /\ UNCHANGED <<armed, running>>
       \/ Close(1..made) /\ armed' = FALSE /\ running' = FALSE
    /\ UNCHANGED banned

(* The address is banned: close(), then startAccept() again. *)
Refuse_NoRearm(c) ==
    /\ First(c) /\ phase[c] = "waiting" /\ From(c) \in banned
    /\ Close({c})
    /\ armed' = FALSE /\ UNCHANGED <<banned, running>>
Refuse(c) ==
    /\ First(c) /\ phase[c] = "waiting" /\ From(c) \in banned
    /\ Close({c})
    /\ UNCHANGED process

(* No row is found, because there is none or because the query failed. *)
AdmitUnknown(c) ==
    /\ \/ RowsOf(From(c)) = {} /\ UNCHANGED <<failures, unread>>
       \/ /\ FALSE \in Executed
          /\ failures' = failures + 1 /\ unread' = unread \union {c}
    /\ UNCHANGED <<row, account, screen, rows, kept>>

(* The row found becomes the session's account; if the character can be    *)
(* loaded the client is confirmed and sent to the lobby; then all rows of  *)
(* the address are deleted.                                                *)
AdmitKnown_DeleteLoaded(c) ==
    \E r \in Newest(From(c)), loaded \in Executed, deleted \in Executed :
        /\ row' = [row EXCEPT ![c] = r.token]
        /\ account' = [account EXCEPT ![c] = r.account]
        /\ failures' = failures + (IF loaded /\ deleted THEN 0 ELSE 1)
        /\ IF loaded /\ Character[r.account] # "none"
           THEN /\ screen' = [screen EXCEPT ![c] = "lobby"]
                /\ rows' = IF deleted THEN rows \ RowsOf(From(c)) ELSE rows
           ELSE UNCHANGED <<screen, rows>>
        /\ kept' = IF deleted THEN kept ELSE kept \union {r.token}
        /\ UNCHANGED unread
AdmitKnown(c) ==
    \E r \in Newest(From(c)), loaded \in Executed, deleted \in Executed :
        /\ row' = [row EXCEPT ![c] = r.token]
        /\ account' = [account EXCEPT ![c] = r.account]
        /\ failures' = failures + (IF loaded /\ deleted THEN 0 ELSE 1)
        /\ screen' = IF loaded /\ Character[r.account] # "none"
                     THEN [screen EXCEPT ![c] = "lobby"] ELSE screen
        /\ IF deleted
           THEN rows' = rows \ RowsOf(From(c)) /\ UNCHANGED kept
           ELSE kept' = kept \union {r.token} /\ UNCHANGED rows
        /\ UNCHANGED unread

Accept(c) ==
    /\ First(c) /\ phase[c] = "waiting" /\ From(c) \notin banned
    /\ phase' = [phase EXCEPT ![c] = "open"]
    /\ AdmitUnknown(c) \/ AdmitKnown(c)
    /\ UNCHANGED <<made, using, ticket, owner, claim, tokens, process>>

(* docker-compose.yml starts the process again; bans were in memory. *)
Restart ==
    /\ ~running
    /\ running' = TRUE /\ armed' = TRUE /\ banned' = {}
    /\ UNCHANGED <<client, session, database, faults>>

-----------------------------------------------------------------------------
(* The packets of an open session that move the client.                    *)

Show(c, s) == screen' = [screen EXCEPT ![c] = s]

HasCharacter(c) == account[c] \in Player /\ Character[account[c]] # "none"

(* sendPlayerData: a failing query looks like an account without character. *)
SendPlayerData(c) ==
    \/ /\ HasCharacter(c)
       /\ Show(c, IF Character[account[c]] = "tutored" THEN "lobby" ELSE "tutorial")
       /\ UNCHANGED failures
    \/ ~HasCharacter(c) /\ Show(c, "creation") /\ UNCHANGED failures
    \/ /\ FALSE \in Executed /\ Show(c, "creation") /\ failures' = failures + 1

ClientAuth(c) == SendPlayerData(c)

SessionConfirm(c) ==
    \/ account[c] \in Player /\ Show(c, "lobby") /\ UNCHANGED failures
    \/ account[c] = Nobody /\ SendPlayerData(c)

(* handleChannelSelect; handleLobbyRequest does the same to the screen. *)
ChannelSelect(c) == Show(c, "lobby") /\ UNCHANGED failures

Handle(c) ==
    /\ running /\ phase[c] = "open"
    /\ ClientAuth(c) \/ SessionConfirm(c) \/ ChannelSelect(c)
    /\ UNCHANGED <<client, row, account, database, process, kept, unread>>

-----------------------------------------------------------------------------
Next ==
    \/ \E p \in Player : Redirect(p) \/ \E c \in Conn : Connect(p, c)
    \/ \E addr \in Bannable : Ban(addr) \/ Unban(addr)
    \/ \E c \in Conn : Leave(c) \/ GiveUp(c) \/ AcceptReset(c) \/ Refuse(c) \/ Accept(c) \/ Handle(c)
    \/ Restart

Spec == Init /\ [][Next]_vars

(* The event loop runs the handler whenever a connection is there. *)
Fairness == WF_vars(\E c \in Conn : AcceptReset(c) \/ Refuse(c) \/ Accept(c))

FairSpec == Spec /\ Fairness

-----------------------------------------------------------------------------
TypeOK ==
    /\ rows \subseteq [token: 1..tokens, addr: Address, account: Player]
    /\ tokens \in 0..MaxToken
    /\ made \in 0..MaxConn
    /\ using \in [Player -> 0..made]
    /\ ticket \in [Player -> 0..tokens]
    /\ phase \in [Conn -> {"unused", "waiting", "reset", "open", "closed"}]
    /\ owner \in [Conn -> Player \union {Nobody}]
    /\ \A c \in Conn : phase[c] # "unused" <=> c <= made
    /\ \A c \in Conn : phase[c] \in {"waiting", "reset", "open"} <=> owner[c] \in Player
    /\ claim \in [Conn -> 0..tokens]
    /\ row \in [Conn -> 0..tokens]
    /\ account \in [Conn -> Player \union {Nobody}]
    /\ screen \in [Conn -> {"connecting", "creation", "tutorial", "lobby"}]
    /\ banned \subseteq Address
    /\ armed \in BOOLEAN /\ running = armed
    /\ failures \in Nat
    /\ kept \subseteq 1..tokens
    /\ unread \subseteq Conn

(* A pending session is used once: two connections find the same row only  *)
(* if its deletion failed, whatever the players do and whichever address   *)
(* they share (GameServer.cpp, "one-time use").                            *)
OneUse ==
    \A c, d \in Conn : c # d /\ row[c] = row[d] /\ row[c] > 0 => row[c] \in kept

Alone(p) == \A q \in Player : Home[q] = Home[p] => q = p

(* A session never has the account of a player who connects from another   *)
(* address; of a player alone at an address, only that player's.           *)
AccountOfAddress ==
    \A c \in Conn : account[c] # Nobody =>
        Home[account[c]] = From(c) /\ (Alone(owner[c]) => account[c] = owner[c])

(* A redirected player who is alone at an address, and does not give up    *)
(* connections that wait, is recognized by the very row of the last        *)
(* redirection, in whatever order bans, crashes, restarts, failing         *)
(* deletions and earlier redirections came before, unless the query failed. *)
Recognized ==
    \A c \in Conn :
        (/\ phase[c] = "open" /\ claim[c] > 0 /\ c \notin unread
         /\ owner[c] \in Patient /\ Alone(owner[c]))
            => row[c] = claim[c] /\ account[c] = owner[c]

(* No connection waits for ever: startAccept() is called again on every    *)
(* path, or the process has ended and taken the connections with it.       *)
Answered == \A c \in Conn : phase[c] = "waiting" ~> phase[c] # "waiting"

(* What Answered rests on: an accept is outstanding as long as there is a  *)
(* connection, and none outlives the process.                              *)
NeverUnheard == \A c \in Conn : phase[c] \in {"waiting", "reset", "open"} => armed /\ running

(* GameServer.cpp:1167, "Only for players with completed tutorial".        *)
TutorialFirst ==
    \A c \in Conn : phase[c] = "open" /\ screen[c] = "lobby" /\ account[c] \in Player
        => Character[account[c]] = "tutored"
=============================================================================
