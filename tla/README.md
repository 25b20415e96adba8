# Formal models of the Kart N'Chibi server and launcher

TLA+ modules for the game server, the web administration and the launcher of
this repository, the TLC configurations that check them on small instances, and
TLAPS proofs of their main properties for every value of the constants. Paths below are relative to the repository's
root. Findings, hazards, mutants and the line-by-line correspondence are in
`PROJECT.json`.

## 1. The system

| Component | Code | State | Operations |
|---|---|---|---|
| Game server | `server/game/src/GameServer.cpp` | `m_sessions`, `m_rooms`, `m_nextRoomId`; in each session `roomId`, `accountId`, `characterId` | accept, one handler per packet command, `onDisconnect` |
| Room | `shared/src/src/game/Room.cpp`, `Room.h` | `m_sessions` (vector), `m_players` (map), `m_hostSessionId`, `m_state`, settings | `addPlayer`, `removePlayer`, `setPlayerReady`, `canStart`, `broadcast` |
| Session, packets | `shared/src/src/net/Session.cpp`, `Packet.cpp` | socket, `m_connected`, `m_recvBuffer`, `m_writeQueue` | `start`, `stop`, `send`, the completions of reads and writes |
| Anti-cheat | `server/game/src/handlers/AntiCheatHandler.cpp` | position history, violation and packet counts by session, one mutex | `validate...`, `reportViolation`, `takeAction` |
| Database pool | `shared/src/src/db/Database.cpp` | queue of free connections, one mutex | `init`, `getConnection`, `releaseConnection`, `query`, `execute` |
| Web administration | `server/web-admin/src/WebServer.cpp` | none of its own: the database | ban, give, modify currency, delete, shop, gacha, events |
| Hand-over | `server/game/src/GameServer.cpp` (`startAccept`, the screen handlers), `shared/src/src/security/BanManager.cpp` | the table `active_sessions`; banned addresses; `Session::accountId` | accept, ban check, look-up and deletion of the pending session, re-arming; `ban...`, `isBanned` |
| Limits | `shared/src/src/security/RateLimiter.cpp`, `PacketValidator.cpp` | per session a packet window and last times per opcode | `check`, `reset`; `validate`; nothing calls them |
| Launcher | `launcher/src/main.cpp`, `Launcher.cpp` | the page and its button, server address, session token, user name, `launcher.ini` | the page's messages, `login`, `launchGame`, `loadConfig`, the messages posted to the window |
| Animation engine | `engine/animation/AnimationEngine.h` | animated objects, sprites, global time, pause flag | `Update`, `Evaluate`, `Play`, `Pause` |
| Configuration, logger | `shared/src/src/config`, `shared/src/src/logging` | settings; a log file | load; write |
| Client headers, shared maths, asset readers, tools | `include/`, `shared/include/`, `tools/` | | see section 8 |

How they interact:

- The game server runs **one `io_context` on one thread**
  (`server/game/src/main.cpp`). asio calls one completion handler at a time; a
  packet handler, and everything it calls, runs to its end before the next
  starts. What interleaves is the *order* in which packets, completions and
  failures of different sessions are dispatched.
- `Session` calls `GameServer::handlePacket` for each whole packet of its
  receive buffer and `GameServer::onDisconnect` out of `stop()`. Handlers call
  `Session::send` of any session, directly or through `Room::broadcast`.
- `handlePosition` asks the anti-cheat, which may call `stop()` on the session
  that is being served.
- Accepting looks up `active_sessions`, which the login server (its source is
  not in the repository) fills; the web administration writes the same
  database from several HTTP threads.
- The launcher talks to the login server and starts the client, which then
  connects. Its page and its window run on one thread; every login and every
  start of the game has a detached thread of its own, and these share
  `m_sessionToken` and `m_username` without a lock.

What is hard, and what would make each component correct:

| Component | Hard behaviour | What must hold |
|---|---|---|
| Rooms | orders of joins, departures, readiness and starts of several clients; two tables per room; packets of stopped sessions | tables agree, capacity, a host who is there, nobody enters a running race, nobody remains after leaving |
| Session | fragmentation, broadcasts while a write is outstanding, stop() from inside a handler, aborted operations | FIFO in both directions, the write buffer stays in place, no stall, one farewell, no leak |
| Anti-cheat | thresholds and severities deciding together, violations after a kick, a mutex taken twice | third violation stops, tenth bans, the server goes on |
| Pool, administration | threads, empty pool, failing reconnection, read-modify-write on balances | no lost connection, no lost update |
| Hand-over | players behind one address, connections reset before they are accepted, a process that ends and comes back, failing statements | a pending session is used once and from its address, its owner is recognized, no connection waits for ever |
| Launcher | answers in pieces or not at all, a button that three results enable, two kinds of threads over two shared strings | one login at a time, one game with the credentials of one login, the page comes back |

## 2. Plan

1. **Rooms** with its proofs, against the abstract **Lobby** for clients that
   create rooms from the lobby: done.
2. **SessionIO** against the abstract **Channel**, safety and liveness, with
   proofs of both directions: done.
3. **AntiCheat** with its proofs: done.
4. **Admin**: the administration's handlers over the shared pool of database
   connections, with its proofs: done.
5. **Handoff**: the login server's rows, accept, bans, several players behind
   one address, restarts, the screens: done, with its proofs.
6. **Launcher**: the page, its threads, the window's messages, a server that is
   slow, silent or cuts its answers: done, with its proofs.
7. Every safety property of a passing run as a theorem, and what the liveness
   properties rest on: done.
8. Left: a composition of Rooms and SessionIO: late packets of a stopped session come
   from the session's own buffer instead of the bound `MaxLate`.

Given up: modules for the rate limiter and the packet validator, which nothing
calls, and for the animation engine, which nothing includes and which does not
compile (`UVAnim` uses an undeclared name). A model of them would describe no
program.

## 3. Modules

| Module | Models | |
|---|---|---|
| `Rooms` | GameServer's tables, Room, the handlers that move sessions | one action per handler |
| `Lobby` | what the rooms are to the players | abstract specification |
| `RoomsMoves` | `Rooms` | with a history variable: who moved from room to room |
| `MCRooms`, `MCRoomsMoves` | | instances |
| `RoomsProofs` | | inductive invariant, what a step may change of the seats, eight theorems |
| `RoomsLobbyProofs` | | stronger inductive invariant for clients that create rooms from the lobby, four theorems, and the refinement of `Lobby` |
| `RoomsMovesProofs` | | what the rosters say, one theorem |
| `SessionIO` | Session and the framing | one action per completion handler, per round of `processBuffer`, and per step of the peer and the kernel |
| `Channel` | what a session promises in one direction | abstract specification |
| `MCSessionIO` | | instances |
| `SessionIOProofs` | | an inductive invariant for each direction, refinement of `Channel` by both, what liveness rests on: eight theorems |
| `AntiCheat` | the checks and the escalation | one action per check |
| `MCAntiCheat`, `AntiCheatProofs` | | instances; inductive invariant, four theorems |
| `Admin` | the web administration's handlers and the connection pool | one action per step of a statement |
| `MCAdmin`, `AdminProofs` | | instance; inductive invariant, seven theorems |
| `Handoff` | the accept handler, `active_sessions`, bans by address, the screens of a client | one action per outcome of the accept handler |
| `MCHandoff`, `HandoffProofs` | | instances; inductive invariant, five theorems |
| `Launcher` | the launcher's page, window and threads | one action per stretch of a thread between two accesses to shared state |
| `MCLauncher`, `LauncherProofs` | | instances; inductive invariant, four theorems |

A definition whose name carries a suffix (`IsFull_OffByOne`) is a plausible slip
in the definition before the underscore. The specifications never use it; the
mutants of `PROJECT.json` put it in place of the original to show that a
property notices.

### Rooms

`members` is the vector `m_sessions` and `players` the map `m_players`: the code
keeps both, and so does the model. `rooms` maps ids to rooms as `m_rooms` does;
`roomId` is `Session::roomId`, which a departing session keeps. The four states
after Waiting are one, "busy": no handler in the repository tells them apart.
`RaceHandler` is declared but not in the repository; that starting takes a room
out of Waiting and finishing brings it back is read off its callers and marked
external.

A handler is one action. Its refusals that change nothing are stutters, except
for stopped sessions, where a refused packet uses up one of the buffered ones
(`RefusedPacket`). `late` counts the packets still dispatched after `stop()`:
`processBuffer` does not look at `m_connected`, and a read that had completed
before a failed write stopped the session is still processed, so other sessions'
handlers may run in between.

`roster` is what a client was told of its room-mates: the player list on
joining, the joined and left broadcasts. `Session::send` queues packets in order
(SessionIO), so what was sent is what a connected client knows or will know.
Names are identified with sessions. A password is right or wrong.

What clients send is the environment. The server does not require that a client
creates or joins rooms from the lobby only, so `Quirks` says which of the two a
run's clients also do from inside a room: with both, the properties of the
tables are claimed (`MCRooms_any`); with clients that create rooms from the lobby only more
holds (`MCRoomsMoves_switch`), and two runs show what fails when the environment
is wider.

`JoinRoom` from inside a room takes the session out of the old one without
telling those who stay: `handleJoinRoom` sends nothing to the old room. A client
may therefore list somebody who has gone. `RoomsMoves` adds a history variable
`movers`, and `RosterTrueButForMovers` says that this is the only way a client's
list can be wrong, and that nobody is ever missing from it.

`Lobby` is what all this promises the players: a room is the line of those who
are in it, in the order of their arrival; it exists while somebody is in it;
whoever enters goes to its end, and only while there is a seat and no race; a race
begins with two guests at least, or at a tutorial room, when nobody is awaited.
It has no second table, no host, no flag, no slots and no empty rooms. `Tables`
maps a state of `Rooms` to it: the rooms that are not empty; `guests` is the
vector `m_sessions`; `awaited` are those in the map `m_players` whose record is
neither ready nor flagged as the host's. That the first guest is never awaited
is where the vector, the map, `m_hostSessionId` and the flag have to agree.
`KeepsLobby` is this refinement.

### SessionIO

The kernel completes a read or a write (`ReadCompletes`, `WriteCompletes`, ...)
some time before the completion handler runs (`OnRead`, `OnWritten`), and
`stop()` may come in between: it aborts what has not completed and leaves what
has. Bytes are pairs of packet number and position, so that no property depends
on contents; a packet's declared size is a function of its header, and a read
may end anywhere, inside a header included. Payload content is reduced to what
the handler does with the session: nothing, send to it, or stop it.

The length of a packet is the header and as many bytes as its size field says,
as in `processBuffer` and `serialize()`; `docs/PROTOCOL.md:26` has "Size field
value - 4", which the code does not do. No property here depends on which of the
two a client uses.

`processBuffer` is a loop without a yield: one action a round, and `looping`
keeps every other handler out; the kernel and the peer go on meanwhile.

A peer may close (FIN), reset, vanish ("gone") or stop reading for a while or
for ever ("stalled"): a vanished peer sends nothing more, and only data sent to
it makes TCP give up; a write to a stalled peer does not complete, which is why
`Released` depends on `stop()` closing the socket.

`Inbound` and `Outbound` instantiate `Channel` with the packets the peer sent
and those handled, and with the packets `send()` accepted and those written.

### AntiCheat

A position is reduced to its distance from the last accepted one and the time
since then; a lap time and a speed are compared with the code's constants.
`validatePosition` calls `reportViolation` with `s_mutex` held, and the mutex is
not recursive. That is undefined behaviour; the outcomes modelled are those of
the implementations: the thread blocks, or an exception leaves `run()`. The lap
and speed checks take no lock of their own. Their caller, the race handler, is
not in the repository; `AntiCheatHandler.h` calls them "called by other
handlers". Only medium and high severities are ever reported.

A ban is two statements, the row in `bans` (`listed`) and the flag of the account
(`flagged`). Each may fail, `takeAction` looks at neither, and the session is
stopped in any case; the history variable `unsaved` says whose ban lost a
statement. Violations in late packets may ask for the ban again. What each
severity costs is translated from `reportViolation`; the comments of the
enumeration in `AntiCheatHandler.h` say otherwise (section 5, `high_ban`).

### Admin

A handler is a sequence of SQL statements (`Statements`), and every statement a
call of `Database::execute` or `query`: take a connection (`Take`, or `Starve` if
there is none), run the statement (`Run`, or `Fail`), release the connection and
go on in the handler (`Release`). Threads interleave between these steps.
MariaDB is external: statements are atomic, an `UPDATE` of a missing row
succeeds, the foreign keys that the comment at `WebServer.cpp:511` mentions hold,
and a balance above `MaxGold` is out of its column's range. The database may go
down at any time, which breaks all open connections, also between making a change
and reporting it (`Lose`).

A statement may also fail on a connection that works (`Fail`), and any of them
may do so in the model: `/api/ban` splices a reason in without escaping it, so
that a quote makes a syntax error; numbers may be out of range; the two
insertions of vehicles name a column differently, so one of them does not fit
the table; a lock may be held for too long. With fewer connections than threads,
which is the default (3 against the HTTP library's 8 or more), a request may also
find the pool empty. The code does not tell these failures apart, and neither
does the model.

The handlers differ for the model in what their statements do to a balance, to
belongings, to the characters and to the rows of the shop with one template;
"set" stands for the others. Parsing and authorization come before any statement
and are left out.

Administrators are the environment, and may send any request at any time; they
give no negative amounts except with `/api/currency/modify`, the handler that
checks. `Mixes` is a bound only: which kinds of requests one behavior contains
(`mix`, chosen in `Init`). Nothing keeps two requests about one character or the
shop apart, since nothing in the code does. History variables record where the code
gives no promise: `contended` are the characters whose balance two requests in
progress were to change, one of them `/api/currency/modify`; `unchecked` says that
two requests saved the shop item at once, or that the look-up of one failed.
`BooksBalance` and `OneRowPerTemplate` say that these are the only ways to a wrong
balance and to a second row.

`made` records whether the statement that makes the change a request asks for has
been executed with something to change. `HonestAnswers` compares the response with
it: after "done" the change was made, or the row was deleted between look-up and
change (`Vanished`: the code answers success then); after an error it was not made,
unless a reply was lost; "missing" and "refused" change nothing.

### Handoff

A row of `active_sessions` is its address, its account and a token that says
when it was inserted; `ORDER BY created_at DESC LIMIT 1` is then the largest
token of the address. `startAccept`'s handler is one action, by its outcome: the
peer is gone before it is accepted (`AcceptReset`: asio reports an error, or
`remote_endpoint()` throws, `main` catches and the process ends), the address is
banned (`Refuse`), or the connection becomes a session (`Accept`), with a row
(`AdmitKnown`) or without one (`AdmitUnknown`). Every statement may fail while
the bound `MaxFailures` allows; a failing query looks to the code like an empty
one. Deleting removes *all* rows of the address, as the statement does, whether
or not the character could be loaded.

`screen` is the last of the screens the packets of `startAccept`,
`sendPlayerData`, `handleSessionConfirm` and `handleChannelSelect` brought the
client to. Bans are those of `BanManager::m_bannedIPs`, which a restart forgets.
The restart itself is `docker-compose.yml`'s (`restart: unless-stopped`).

Environment: the login server inserts a row and redirects the client
(`Redirect`); players connect, with the last redirection or without one, go away
while they wait (`GiveUp`: closing is something the server finds out about after
accepting, resetting may be noticed before) and leave. `Patient` are the players
who do not give up a connection that waits; `Recognized` is claimed for those
who are also alone at their address. Two players behind one address can get each
other's account, since a row is found by its address only: `AccountOfAddress`
says how far such a confusion goes. A session whose client vanished without a
word stays open in the code, as no timer looks for it, and so it does here.

### Launcher

Logins are numbered from 1 in the order of the presses of PLAY; the token the
login server issues to login n is n, or -n if a single `recv()` brought only its
beginning; 0 is the empty string. An answer is whole, cut within the token, or
"bare", just the success byte: the code takes all three for success. Anything
else is junk and counts as one of the attempts; a refusal, a header alone, or
silence for five seconds ends the loop.

A thread's stretch between two accesses to what it shares is one action: a login
stores the token (`ReceiveAcceptance`) and then the name (`StoreName`); a start
reads whether there is a token and the name (`ReadName`) and then the token
(`StartGame`). Two unsynchronized accesses to a `std::string`, one of them a
write, are undefined behaviour: the old value, the new one, or a crash
(`Crash`). The window takes its posted messages in order (`Dispatch`): a login's
result enables the button and, after a success, starts the page's 1.5 s timer;
a failed start enables the button as well; a game that started closes the
window. A result is a script with the text of the server in it, of which only the
single quotes are escaped (`main.cpp:380-399`): with a line break in it or a
backslash at its end the script does not parse, `ExecuteScript` is asked for no
report, and the page never learns of the result. Such a result is "garbled";
`unshown` remembers that the last one was, until PLAY is enabled or pressed again. The process may end at any time (`Quit`), and the next one reads
`launcher.ini` again. A page's `LOGIN` and `LAUNCH` message and its handling by
the host are one action, since nothing can come between them that either of them
sees.

`Press(TRUE)` writes `launcher.ini` anew, as the handler of LOGIN does when
"remember" is set: `GamePath` goes back to its default, and the next process reads
that. The two URLs that `launcher/README.md:34-41` documents are lost as well; the
model has nothing that would read them.
`Network2.ini`, which the launcher rewrites before the start, is left out, and so
are the exceptions of `std::stoi` on a malformed port. The server is the
environment: `ReceiveRefusal`, `ReceiveJunk` and `ReceiveAcceptance` are all it
can do to a login.

## 4. Runs

All runs take seconds to two minutes with two workers.

| Run | Instance | Shows |
|---|---|---|
| `any_client` | 3 sessions, 2 rooms, 2 slots, rooms of size 0 (asked for as 8 by chat) and 3, one late packet each; 167,730 states up to symmetry | the table invariants, `NobodyEvicted`, `ClosedDuringRace` |
| `switching_clients` | 3 sessions, 2 rooms, private rooms of size 3 and tutorial rooms of size 2, moves from room to room; 88,986 states up to symmetry | `OneRoomEach`, `NoRoomOutlivesPlayers`, `RosterTrueButForMovers`, `FairStart`, and `KeepsLobby`, the refinement of `Lobby` |
| `session_io` | headers of 2 bytes, payloads of 0 to 2, reads of up to 4 bytes, 3 packets in, 1 send by others; 76,082 states | invariants of the session, the refinement of `Channel` in both directions, liveness |
| `escalation` | 2 sessions, up to 9 late packets; 482,296 states | thresholds, with bans whose statements fail |
| `admin_requests` | 2 threads, pools of 1 and of 2 connections, 1 character, amounts -1 and 1, balances up to 2, any failure of a statement, 1 outage, three mixes of requests; 622,221 states | the pool, the balances, the shop, the answers, recovery |
| `arrivals` | 3 players, two of them behind one address, 2 connections, 2 redirections, 1 failing statement; 103,256 states | `OneUse`, `AccountOfAddress`, `Recognized`, and that no connection waits for ever |
| `login` | 3 logins, 3 attempts each; 60,886 states | `OneLoginAtATime`, `OwnCredentials`, and that the page comes back unless a result did not parse |
| `late_packet`, `solo_start` | 2 or 3 sessions | **violations**, see section 5 |
| `high_ban` | 1 session | **violation** |
| `relock` | 1 session | **violation** |
| `tutorial` | 1 connection of a redirected player | **violation** |

Why the bounds are enough. In Rooms a room has two relations that matter, being
full and having more players than slots; rooms of size 0, 2 and 3 with two slots
meet all of them, three sessions give host hand-over with someone left to
disagree, and two rooms give every move between rooms. In SessionIO a header of
two bytes can be cut, reads of up to four bytes span two packets, and an
oversized packet exists (`MaxSize` 3 with a payload of 2). In AntiCheat nine
late packets reach the tenth violation after the kick at the third. In Admin two
threads interleave any two requests of one mix, statement by statement: those
that change balances with the deletion of the character, those that insert
belongings with it, and the two that edit the shop. A pool of one connection runs
dry and a pool of two does not, and one outage breaks pooled and held connections
alike. The mixes contain every statement but "set" and "add"; "addAll" is "add"
for the one character, and the kinds left out make these statements in shorter
sequences. Requests of different mixes meet in the proofs only, where
neither the mixes nor the number of threads are bounded.
In Handoff a claim is about two connections and the rows between them: two
redirections leave an older and a newer row at one address, or rows of two
players at one address; two connections meet the same row, and one failing
statement is a failing deletion, load or look-up. In Launcher a confusion of
credentials takes two logins, the second started during the start for the first;
the third shows that the button does not let more overlap, and three attempts
reach the limit with junk before and after.

`CHECK_DEADLOCK FALSE` everywhere but in `admin_requests`: every session may
have ended, or every bound be used up, and the program then waits for
connections, or for a player, that the run does not make.

Symmetry of sessions is used in the Rooms runs, which check no liveness.

Fairness (`session_io`): the event loop runs every handler that is ready, so the
handlers are weakly fair; the kernel completes a read when bytes or an error are
there, and a write while the peer reads. One outstanding operation of each kind
is completed at most once, so weak fairness is enough. Nothing makes the peer or
other sessions act.

Fairness (`admin_requests`): a thread with a request runs (`Serve`), and the
database comes back up; no request has to arrive.

Fairness (`arrivals`): the event loop runs the handler of accept whenever a
connection is there. Connections are accepted in the order of the backlog, so
one weakly fair action for all of them serves each. Neither players nor
administrators have to do anything, and the process need not be restarted: a
connection that was waiting died with it.

Fairness (`login`): the threads of the logins and of the starts run, `recv()`
returns within its five seconds whatever the server does, the page's timer
fires, and the window dispatches its messages. No player has to press anything.

## 5. What the runs found

| Run | Code | Against |
|---|---|---|
| `late_packet` | packets behind C_DISCONNECT are handled after the clean-up | `docs/packets/client/0x73_DISCONNECT.md:28-31` |
| `solo_start` | creating a room from inside one keeps the old seat, and the "two players" of `canStart` may be one client, twice in the vector | `Room.cpp:192` |
| `relock` | a rejected position locks `s_mutex` twice | `GameServer.cpp:812-814` |
| `tutorial` | `startAccept` and two handlers show the lobby without looking at `tutorial_completed` | `GameServer.cpp:1167`, `:1154` |
| `high_ban` | a violation of severity High is answered with a kick (Medium with a warning, Critical with a ban of 24 hours) | `AntiCheatHandler.h:35-38`: Medium a kick, High a ban of 24 hours, Critical a permanent one |

Read off the code, without a run of its own: a login with "remember" resets
`GamePath` and drops the two URLs that `launcher/README.md:34-41` documents
(`main.cpp:367-373`), and the packet size of `docs/PROTOCOL.md:26` is not the
code's.

## 6. Proofs

All theorems are proved by `tlapm` with SMT, Zenon and PTL; they hold for every
value of the constants under the named assumptions of the modules
(`RoomsAssumption`, `SessionAssumption`, `AntiCheatAssumption`,
`AdminAssumption`, `HandoffAssumption`, `LauncherAssumption`), which only fix
types and the finiteness of the threads. Only the
theorems of `RoomsLobbyProofs` and `RoomsMovesProofs` assume more, as their
statements say: that the clients are `LobbyClients`.

**Rooms** (`RoomsProofs`). The invariants are nearly inductive together; `IInv`
is their conjunction with what they need of each other. `SeatsAgree` needs that
`Without` removes every occurrence (lemmas on `Kept` and `Rank`);
`HostIsSenior` needs that removing keeps the order of the others, so that the
heir is the new front; `FlagOnlyOnHost` needs `SeatsAgree` to know that the
departed host's record is gone; `SlotsDistinct` needs `WithinCapacity` and
`SeatsAgree`, so that below `NumSlots` players a free slot exists. Theorems:
`RoomsTypeCorrect`, `RoomsSeatsAgree`, `RoomsWithinCapacity`,
`RoomsHostIsSenior`, `RoomsFlagOnlyOnHost`, `RoomsSlotsDistinct`. The action
theorems `RoomsNobodyEvicted` and `RoomsClosedDuringRace` rest on `OnlyMoves`: a
step of a session takes that session's seats away or gives it one in a waiting
room, rooms that stay keep everybody else, and rooms that come or go have nobody
else in them.

**Rooms of lobby clients** (`RoomsLobbyProofs`). `LobbyClients` are clients that
create rooms from the lobby only and with at least one seat, and whose sessions
have nothing buffered when they stop; they may move from room to room. `LInv`
adds to `IInv` that no packet is late, `OneRoomEach`, `NoRoomOutlivesPlayers`,
and that a room's vector is without repetitions and its host is flagged
(`RoomsTidy`). `OneRoomEach` is what makes entering a room safe: the session is
in no other, so it is never added twice. `LobbyFairStart` then counts:
a vector of two entries without repetitions names two players. Each part of the
hypothesis is needed: `solo_start` breaks the second claim with creation from
inside a room, and `late_packet` the first with a late packet. Theorems:
`LobbyOneRoomEach`, `LobbyNoRoomOutlivesPlayers`, `LobbyHostExempt`,
`LobbyFairStart`. `LobbyHostExempt` (the host of a room with people in it carries
the flag) is checked by no run of its own, since `KeepsLobby` rests on it.

**Rooms as the players see them** (end of `RoomsLobbyProofs`). `LobbyKept` is the
refinement of `Lobby`. A departure is the abstract one because `Without` keeps
the order of those who stay (`Rank` is monotone), and because the new front of
the vector is the heir whom `removePlayer` flags. `Awaited` says what the first
guest has to do with the flag: by `FlagOnlyOnHost`, `HostIsSenior` and `Tidy`,
exactly the front of the vector is flagged. A handler then is one abstract step,
although it works in several of the concrete tables: `JoinRoom` from inside a
room is one `Enter`, which leaves the old table and takes a seat at the new one,
also when the two are the same; a room that stays behind empty is a table that
is gone, and joining it later opens it anew. The other handlers stutter.

**Rosters** (`RoomsMovesProofs`). `RosterInv` says for every client that is in a
room what `RosterTrueButForMovers` says of it, in terms of `Share`, who is in one
room with whom. Entering makes the list anew for who enters and adds to that of
every mate; leaving and disconnecting take the name off the list of every
mate; what is left is a `JoinRoom` from inside a room, which makes the session
one of `movers` in the same step. `LobbyRosterTrue` needs
`LobbyClients`, since a client that keeps an old seat has two sets of mates.

**SessionIO** (`SessionIOProofs`). `OInv` says that the queue holds the last
`Len(queue)` packets accepted, in order, that the outstanding write carries the
front of the queue, and that the packets before it have been written; while a
write is done but its handler has not run (`InFlight`), the front counts as
written too. That last clause is what makes `stop()` between completion and
handler harmless. From it: `SessionFarewellOnce`, `SessionWriteBufferStays`,
`SessionQueueMoves` (the first and the last of these are proved and in no run:
`onDisconnect` is called once for a session, and while a session is up a queue
that is not empty has a write outstanding), and `SessionOutboundFIFO`, the refinement: `PeerSend` and the like
are stutters of the channel, `send()` is `Send`, `WriteCompletes` is `Arrive`.

For the receiving side, `RInv` looks at the bytes that are pending: those in
`m_recvBuffer`, those of a read that has completed, and those on the wire, one
behind the other. `StreamInv` says that there are offsets at which the packets
of the peer begin in its stream, each where the one before ends, and that the
pending bytes are the stream from the offset of the first packet that was not
handled. So wherever a read cuts the stream, the header at the front of the
buffer is that of the next packet (`FrontIsNext`), and erasing a handled packet
moves on by one offset; `stop()` in a handler only stops the moving.
`SessionTypeCorrect` follows from both invariants, and `SessionInboundFIFO` is the
refinement: `PeerSend` is `Send`, a round of `processBuffer` that handles a packet
is `Arrive`, whatever the handler does to the session.

**AntiCheat** (`AntiCheatProofs`). `ThirdStrikeStops`, `BannedAtTen` and
`WarnedOfEach` are inductive only together with the type invariant: a session
that is connected has been warned of each of its fewer than three violations,
so a tenth finds it stopped. The ban asked for at the tenth leaves the
session in both tables or among the `unsaved`; no earlier one asks for a ban.
Theorems: `AntiCheatTypeCorrect`, `ThirdStrike`, `TenStrikes`. `HonestMovesPass` is about `Finding` alone: a move
within the speed limit is never a finding.

**Admin** (`AdminProofs`). `PoolConserved` is about a cardinality: taking and
returning change the set of workers with a connection by one element (`Holding`
ties it to the phases), and an outage changes no length. `NeverOverdrawn` needs
`Checked`: a worker at the statement that writes a balance has checked what it
read with what it adds, and nobody else can change either. Theorems: `AdminTypeCorrect`, `PoolIsConserved`,
`NoneOverdrawn`.

`BooksBalance` is about a request that reads a balance and writes it two steps
later. `Apart` says that at a character whose balance is not contended no two
requests in progress contend, and is inductive because `Start` records it otherwise.
So what a request at its "write" has read is still in the table
(`BalanceKnown`), whatever failed meanwhile, and writing the sum adds the amount:
`BooksAreBalanced`. `OneRowPerTemplate` is alike: while nothing is `unchecked`,
only one request saves the item (`OneSaver`), and a look-up that found no row is
still right at the insertion, since others only delete (`ShopKnown`): `OneRow`.

`HonestAnswers` needs to know at every statement of every handler what has been
made of the request: nothing before the statement that decides; the change, or
the row is gone, at a log entry behind it; and between running the deciding
statement and its release, what its result says, unless an outage took the reply
(`MadeAt`, for all workers `Told`). Failing, starving and losing a connection go
through the same cases: `ToldWhatHappened`. None of these theorems assumes
anything of the requests, the number of threads or the size of the pool.

**Handoff** (`HandoffProofs`). `OneUse` is inductive with `RowsInv`: a token
names one row, and a row that was found and is still there is one whose deletion
failed. `AccountOfAddress` follows from `AccountInv` and from every row carrying
its account's address. `Recognized` needs the row of a redirection to stay the
newest of its address from `Redirect` to `Accept`: `TicketInv` says so while the
player holds the ticket, `ClaimInv` while the connection waits, and `WaitInv`
keeps them apart: a patient player uses the connection that waits, so cannot be
redirected again in between. Theorems: `HandoffTypeCorrect`, `HandoffOneUse`,
`HandoffAccountOfAddress`, `HandoffRecognized`.

**Launcher** (`LauncherProofs`). `QueueInv` ties every posted message to the
thread that posted it: one result for a login, posted by a thread that has
ended. `StageInv` orders a login's stages over the page, the threads and the
timers. With them `ButtonInv` is inductive: without a failed start the button is
off under a running login, so that a press never makes two, and a start a player
waits for has no login beside it. `OnceInv` then says that there is one start
and one game, and `CredInv` that outside the two steps of storing them token and
name are of one login, and that a whole answer leaves the login's own token until
the start for it is over. Theorems: `LauncherTypeCorrect`, `LauncherOneLogin`,
`LauncherOwnCredentials`.

**What liveness rests on.** That something happens at last is out of the prover's
reach, but not that the step that makes it happen is never lost. Each of these
theorems is about one way to stall that the liveness properties exclude in the
runs, for every value of the constants:

| Theorem | Says | Behind |
|---|---|---|
| `SessionKeepsReading` | a connected session has a read under way, or works through what it read: no path through `processBuffer` or a handler loses it | `Served`, `HangUpNoticed` |
| `SessionQueueMoves` | a connected session with packets in its queue has a write under way | `Flushed` |
| `SessionLetsGo` | what a stopped session has under way is over and only waits for its handler, in whatever order `stop()`, completions and sends came | `Released` |
| `PoolHandsOutGood` | while the database is up, no thread is handed a dead connection, however many are in the pool | `Heals` |
| `HandoffNeverUnheard` | while there is a connection an accept is outstanding; none outlives the process | `Answered` (Handoff) |
| `LauncherResultComes` | a login that is over has its result in the window's queue, and the button is off only while a login runs, while its result is still to be shown, or after a result whose script did not parse | `Answered` (Launcher) |

They are in no run: a liveness property of a run fails wherever they do.

Only model-checked: the liveness properties `Served`, `Flushed`, `HangUpNoticed`,
`Released`, `Heals` and both `Answered`, since the prover knows neither fairness
nor `ENABLED`. Every other property of a passing run is a theorem.

## 7. Abstractions to keep in mind

- One thread. With a second io thread the actions of Rooms and AntiCheat would
  not be atomic (`handleWhisper` walks `m_sessions` without its mutex).
- Memory and exceptions of the standard library are not modelled in Rooms,
  SessionIO and AntiCheat, nor are the database's answers but for the two
  statements of a ban; a failing log insert changes none of their state.
- Sequence numbers and counters are unbounded integers: room ids and session
  ids are 32 bits in the code and would have to wrap.

## 8. Not modelled

Each with its reason in `PROJECT.json`. No program behaviour to model: the rate
limiter, the packet validator and `ChatHandler`, which nothing calls, and the
animation engine, which nothing includes. Declarations only: the race, shop and
other handlers, the client skeleton. Data and I/O without anything for a model
checker: the packet builder, logger, configuration, shared maths, asset readers
and tools. Third-party code (`thirdparty/`: an OpenGL loader, libjpeg, file
dialogs and the like), which is most of the repository's lines, is outside the
project.

Of the modelled components: chat texts and `sendPlayerData`'s fields,
`clearViolations` (nothing calls it, so the anti-cheat's tables grow),
`validatePacketRate`, `validateItemUse` and the per-map limits of the anti-cheat
(nothing calls or sets them), `shutdown` and the prepared statements of the
pool, authorization and parsing in the administration, the registration of the
game server at its start, account bans (nothing asks for them), and the look of
the launcher's page.
