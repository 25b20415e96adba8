------------------------------- MODULE Admin -------------------------------
(***************************************************************************)
(* The web administration (server/web-admin/src/WebServer.cpp) and the     *)
(* pool of database connections its HTTP threads share                     *)
(* (shared/src/src/db/Database.cpp).                                       *)
(*                                                                         *)
(* A handler is a sequence of SQL statements, each atomic in the database  *)
(* and none in a transaction with the next.  Between two statements, and   *)
(* between taking a connection and using it, other threads run and the     *)
(* database may go away.                                                   *)
(***************************************************************************)
EXTENDS Integers, Sequences, FiniteSets

CONSTANTS
    Worker,      \* the threads of the HTTP server
    Character,   \* the rows of the table characters
    PoolSizes,   \* the values of DBConfig::poolSize: 3 unless configured
    Mixes,       \* the kinds of requests that administrators send: in one
                 \* behavior, the kinds of one of these sets
    Amount,      \* the amounts that requests add to a balance
    MaxGold,     \* bound: the largest balance the column holds
    MaxShop,     \* bound: rows of the shop with the template that is edited
    MaxOutages   \* bound: outages of the database

(* The handlers that change the database, by the statements they make:     *)
(* "set" is one that changes no table modelled here.                       *)
Ban            == <<"set">>
GiveBalance    == <<"add">>
GiveBelonging  == <<"insert">>
ResetStats     == <<"set">>
DeleteAll      == <<"wipeItems", "wipeVehicles", "wipeAccessories", "drop">>
Broadcast      == <<"log">>
CreateMission  == <<"set">>
Invalidate     == <<"set">>
ToggleMap      == <<"set">>
UpdateShopItem == <<"set">>
ModifyBalance  == <<"balance", "write", "log">>
SetGM          == <<"set", "log">>
SendItem       == <<"exists", "insert", "log">>
SendVehicle    == <<"insert", "log">>
CreateGacha    == <<"set">>
SaveShopItem   == <<"lookup", "save">>
DeleteShopItem == <<"unlist">>
GiveEveryone   == <<"addAll", "log">>

Statements == [
    ban        |-> Ban,            give       |-> GiveBalance,
    equip      |-> GiveBelonging,  reset      |-> ResetStats,
    delete     |-> DeleteAll,      broadcast  |-> Broadcast,
    mission    |-> CreateMission,  invalidate |-> Invalidate,
    toggle     |-> ToggleMap,      shopUpdate |-> UpdateShopItem,
    modify     |-> ModifyBalance,  setGM      |-> SetGM,
    send       |-> SendItem,       deliver    |-> SendVehicle,
    gacha      |-> CreateGacha,    shopSave   |-> SaveShopItem,
    shopDelete |-> DeleteShopItem, event      |-> GiveEveryone]

ASSUME AdminAssumption ==
    /\ IsFiniteSet(Worker)
    /\ PoolSizes \subseteq Nat
    /\ Mixes \subseteq SUBSET DOMAIN Statements
    /\ Amount \subseteq Int
    /\ MaxGold \in Nat /\ MaxShop \in Nat /\ MaxOutages \in Nat

VARIABLES
    db,        \* the database server: "up" or "down"
    outages,   \* how often it went down
    poolSize,  \* DBConfig::poolSize
    mix,       \* the kinds of requests of this behavior
    pool,      \* m_pool: the connections in it, "good" or "dead"
    conn,      \* the connection a worker holds, or "none"
    task,      \* the request a worker serves
    step,      \* the statement of it that is next
    phase,     \* where in Database::execute or query the worker is
    result,    \* whether the last statement did what the handler wants of it
    read,      \* what the last query of the request returned
    answer,    \* the last response
    gold,      \* the balances
    alive,     \* the characters that exist
    owned,     \* the tables that hold belongings of a character
    shop,      \* the rows of shop_items with the edited template
    granted,   \* history: the sum of the amounts added to each balance, until
               \* it is contended
    made,      \* history: whether the change a worker's request asks for was made
    contended, \* history: the characters with a balance that two requests were
               \* to change at once, one of them /api/currency/modify
    unchecked  \* history: two requests saved the shop item at once, or the
               \* look-up of one failed

handler == <<task, step, phase, result, read, answer, made>>
tables == <<gold, granted, alive, owned, shop>>
server == <<db, outages, poolSize, mix>>
overlaps == <<contended, unchecked>>
vars == <<server, pool, conn, handler, tables, overlaps>>

Table == {"items", "vehicles", "accessories"}

Grants == {"give", "modify", "event"}

Task == [kind: UNION Mixes, who: Character, amount: Amount \cup {0}]

Requests == {t \in Task : IF t.kind \in Grants THEN t.amount \in Amount ELSE t.amount = 0}

(* A handler's variables are gone when it returned. *)
NoTask == [kind |-> "none", who |-> "none", amount |-> 0]

Statement(w) == Statements[task[w].kind][step[w]]

Init ==
    /\ db = "up" /\ outages = 0
    /\ poolSize \in PoolSizes /\ mix \in Mixes
    /\ pool = [i \in 1..poolSize |-> "good"]
    /\ conn = [w \in Worker |-> "none"]
    /\ task = [w \in Worker |-> NoTask]
    /\ step = [w \in Worker |-> 1]
    /\ phase = [w \in Worker |-> "idle"]
    /\ result = [w \in Worker |-> FALSE]
    /\ read = [w \in Worker |-> 0]
    /\ answer = [w \in Worker |-> "none"]
    /\ gold = [c \in Character |-> 0] /\ granted = gold
    /\ alive = Character
    /\ owned = [c \in Character |-> {"accessories"}]
    /\ shop = 0
    /\ made = [w \in Worker |-> FALSE]
    /\ contended = {} /\ unchecked = FALSE

------------------------------------------------------------------------------
(* Requests arrive.  Administrators give no negative amounts except with   *)
(* /api/currency/modify, which is the handler that checks the balance.     *)
ChangesBalance(t, c) == t.kind \in Grants /\ (t.kind = "event" \/ t.who = c)

Others(w) == {task[v] : v \in {v \in Worker \ {w} : phase[v] # "idle"}}

Contends(t, u, c) ==
    ChangesBalance(t, c) /\ ChangesBalance(u, c) /\ "modify" \in {t.kind, u.kind}

Bounded(t) ==
    /\ t.kind \in {"give", "event"} => t.amount >= 0
    /\ t.kind = "shopSave" => shop < MaxShop

Start(w) ==
    /\ phase[w] = "idle"
    /\ \E t \in Requests :
          /\ t.kind \in mix /\ Bounded(t)
          /\ task' = [task EXCEPT ![w] = t]
          /\ contended' = contended \cup
                {c \in Character : \E u \in Others(w) : Contends(t, u, c)}
          /\ unchecked' = (unchecked \/
                \E u \in Others(w) : t.kind = "shopSave" /\ u.kind = "shopSave")
    /\ phase' = [phase EXCEPT ![w] = "take"]
    /\ answer' = [answer EXCEPT ![w] = "none"]
    /\ UNCHANGED <<server, pool, conn, step, result, read, made, tables>>

------------------------------------------------------------------------------
(* The definitions named X_Y are X with a plausible bug.                   *)
(*                                                                         *)
(* Database::getConnection takes the front of the pool.  When the ping     *)
(* fails it opens a new connection and does not look whether it opened.    *)
Reconnected_Never == "dead"

Reconnected == IF db = "up" THEN "good" ELSE "dead"

Take(w) ==
    /\ phase[w] = "take" /\ pool # <<>>
    /\ conn' = [conn EXCEPT ![w] = IF Head(pool) = "dead" THEN Reconnected ELSE Head(pool)]
    /\ pool' = Tail(pool)
    /\ phase' = [phase EXCEPT ![w] = "run"]
    /\ UNCHANGED <<server, task, step, result, read, answer, made, tables, overlaps>>

(* What the handler does with the outcome of a statement.  Queries that    *)
(* find nothing and queries that fail look the same to it; it does not     *)
(* look at the outcome of the log entries, and of the first three          *)
(* statements of the deletion of a character.                              *)
Ignored_ButTheLog == {"wipeItems", "wipeVehicles", "wipeAccessories", "lookup"}

Ignored == {"log", "wipeItems", "wipeVehicles", "wipeAccessories", "lookup"}

Overdrawn_Unchecked(w) == FALSE

Overdrawn(w) == Statement(w) = "balance" /\ read[w] + task[w].amount < 0

Answer_GoesOn(w, ok) ==
    IF step[w] > Len(Statements[task[w].kind]) THEN "done" ELSE "none"

Answer(w, ok) ==
    CASE ~ok /\ Statement(w) \in {"balance", "exists"} -> "missing"
      [] ~ok /\ Statement(w) \notin {"balance", "exists"} \cup Ignored -> "error"
      [] ok /\ Overdrawn(w) -> "refused"
      [] OTHER -> IF step[w] = Len(Statements[task[w].kind]) THEN "done" ELSE "none"

Continue(w, ok) ==
    LET over == Answer(w, ok) # "none"
    IN  /\ answer' = [answer EXCEPT ![w] = Answer(w, ok)]
        /\ step' = [step EXCEPT ![w] = IF over THEN 1 ELSE @ + 1]
        /\ phase' = [phase EXCEPT ![w] = IF over THEN "idle" ELSE "take"]
        /\ read' = [read EXCEPT ![w] = IF over THEN 0 ELSE @]
        /\ result' = [result EXCEPT ![w] = FALSE]
        /\ task' = [task EXCEPT ![w] = IF over THEN NoTask ELSE @]
        /\ made' = [made EXCEPT ![w] = IF over THEN FALSE ELSE @]
        /\ unchecked' = (unchecked \/ (~ok /\ Statement(w) = "lookup"))
        /\ UNCHANGED contended

(* All connections are in use: execute returns false, query nothing.       *)
Starve(w) ==
    /\ phase[w] = "take" /\ pool = <<>>
    /\ Continue(w, FALSE)
    /\ UNCHANGED <<server, pool, conn, tables>>

------------------------------------------------------------------------------
(* The statements in the database.  An UPDATE of a row that does not exist *)
(* succeeds and changes nothing.  Foreign keys make the insertion of       *)
(* belongings fail without the character, and the deletion of a character  *)
(* with belongings.                                                        *)
Rows(w) ==
    CASE Statement(w) \in {"add", "write"} -> {task[w].who} \cap alive
      [] Statement(w) = "addAll" -> alive
      [] OTHER -> {}

NewBalance_AmountOnly(w, c) == IF Statement(w) = "write" THEN task[w].amount ELSE gold[c] + task[w].amount

NewBalance(w, c) == (IF Statement(w) = "write" THEN read[w] ELSE gold[c]) + task[w].amount

Credit(w) ==
    /\ gold' = [c \in Character |-> IF c \in Rows(w) THEN NewBalance(w, c) ELSE gold[c]]
    /\ granted' = [c \in Character |->
                      IF c \in contended THEN 0
                      ELSE IF c \in Rows(w) THEN granted[c] + task[w].amount
                      ELSE granted[c]]

Wiped(w) ==
    CASE Statement(w) = "wipeItems" -> {"items"}
      [] Statement(w) = "wipeVehicles" -> {"vehicles"}
      [] Statement(w) = "wipeAccessories" -> {"accessories"}
      [] OTHER -> {}

Inserted(w) ==
    IF Statement(w) # "insert" \/ task[w].who \notin alive THEN {}
    ELSE IF task[w].kind = "deliver" THEN {"vehicles"} ELSE {"items"}

Dropped(w) ==
    IF Statement(w) = "drop" /\ owned[task[w].who] = {} THEN {task[w].who} ELSE {}

Saved_AlwaysInsert(w) == shop + 1

Saved(w) == IF read[w] = 0 THEN shop + 1 ELSE shop

Effect(w) ==
    /\ Credit(w)
    /\ alive' = alive \ Dropped(w)
    /\ owned' = [owned EXCEPT ![task[w].who] = (@ \ Wiped(w)) \cup Inserted(w)]
    /\ shop' = CASE Statement(w) = "save" -> Saved(w)
                 [] Statement(w) = "unlist" -> IF shop = 0 THEN 0 ELSE shop - 1
                 [] OTHER -> shop

Succeeds(w) ==
    /\ Statement(w) \in {"balance", "exists", "insert"} => task[w].who \in alive
    /\ Statement(w) = "drop" => owned[task[w].who] = {}

(* The statement that makes the change of the request, and has something   *)
(* to change.                                                              *)
Makes(w) ==
    /\ Statement(w) \notin Ignored \cup {"balance", "exists"}
    /\ Succeeds(w)
    /\ Statement(w) \in {"add", "write", "addAll"} => Rows(w) # {}
    /\ Statement(w) = "save" => read[w] = 0 \/ shop > 0

Returned(w) ==
    CASE Statement(w) = "balance" /\ task[w].who \in alive -> gold[task[w].who]
      [] Statement(w) = "lookup" -> shop
      [] OTHER -> read[w]

InRange(w) == \A c \in Rows(w) : NewBalance(w, c) <= MaxGold

(* mysql_query on a connection that works, with a statement that is        *)
(* executed.                                                               *)
Run(w) ==
    /\ phase[w] = "run" /\ conn[w] = "good" /\ InRange(w)
    /\ Effect(w)
    /\ made' = [made EXCEPT ![w] = @ \/ Makes(w)]
    /\ result' = [result EXCEPT ![w] = Succeeds(w)]
    /\ read' = [read EXCEPT ![w] = Returned(w)]
    /\ phase' = [phase EXCEPT ![w] = "release"]
    /\ UNCHANGED <<server, pool, conn, task, step, answer, overlaps>>

(* mysql_query on a connection that does not work, or with a statement     *)
(* that is not executed: a text with a quote in it (/api/ban escapes       *)
(* none), a value out of range, a column that the table has not (the two   *)
(* insertions of vehicles name it differently), a lock held for too long.  *)
Fail(w) ==
    /\ phase[w] = "run"
    /\ result' = [result EXCEPT ![w] = FALSE]
    /\ phase' = [phase EXCEPT ![w] = "release"]
    /\ UNCHANGED <<server, pool, conn, task, step, read, answer, made, tables, overlaps>>

Broken(connection) == IF connection = "good" THEN "dead" ELSE connection

GoesDown ==
    /\ db = "up" /\ outages < MaxOutages
    /\ db' = "down" /\ outages' = outages + 1
    /\ pool' = [i \in DOMAIN pool |-> Broken(pool[i])]
    /\ conn' = [w \in Worker |-> Broken(conn[w])]

(* The database goes away after it made the change and before it said so.  *)
Lose(w) ==
    /\ phase[w] = "run" /\ conn[w] = "good" /\ InRange(w)
    /\ GoesDown
    /\ Effect(w)
    /\ made' = [made EXCEPT ![w] = @ \/ Makes(w)]
    /\ result' = [result EXCEPT ![w] = FALSE]
    /\ phase' = [phase EXCEPT ![w] = "release"]
    /\ UNCHANGED <<poolSize, mix, task, step, read, answer, overlaps>>

(* Database::releaseConnection, whatever the outcome, and the return to    *)
(* the handler.                                                            *)
Returns_OnSuccess(w) == IF result[w] THEN Append(pool, conn[w]) ELSE pool

Returns(w) == Append(pool, conn[w])

Release(w) ==
    /\ phase[w] = "release"
    /\ pool' = Returns(w)
    /\ conn' = [conn EXCEPT ![w] = "none"]
    /\ Continue(w, result[w])
    /\ UNCHANGED <<server, tables>>

Down == GoesDown /\ UNCHANGED <<poolSize, mix, handler, tables, overlaps>>

Up ==
    /\ db = "down" /\ db' = "up"
    /\ UNCHANGED <<outages, poolSize, mix, pool, conn, handler, tables, overlaps>>

Serve(w) == Take(w) \/ Starve(w) \/ Run(w) \/ Fail(w) \/ Release(w)

Next ==
    \/ \E w \in Worker : Start(w) \/ Serve(w) \/ Lose(w)
    \/ Down \/ Up

Spec == Init /\ [][Next]_vars

(* A thread that has a request runs, and the database comes back; nothing  *)
(* says that requests arrive.                                              *)
FairSpec == Spec /\ WF_vars(Up) /\ \A w \in Worker : WF_vars(Serve(w))

------------------------------------------------------------------------------
Answers == {"none", "done", "missing", "refused", "error"}

PoolType ==
    /\ poolSize \in PoolSizes /\ mix \in Mixes /\ pool \in Seq({"good", "dead"})
    /\ conn \in [Worker -> {"good", "dead", "none"}]

HandlerType ==
    /\ task \in [Worker -> Requests \cup {NoTask}]
    /\ phase \in [Worker -> {"idle", "take", "run", "release"}]
    /\ step \in [Worker -> 1..4] /\ read \in [Worker -> Int]
    /\ result \in [Worker -> BOOLEAN] /\ answer \in [Worker -> Answers]
    /\ made \in [Worker -> BOOLEAN]
    /\ \A w \in Worker : IF phase[w] = "idle" THEN task[w] = NoTask /\ step[w] = 1
                         ELSE task[w] # NoTask /\ step[w] <= Len(Statements[task[w].kind])

TableType ==
    /\ gold \in [Character -> Int] /\ granted \in [Character -> Int]
    /\ alive \subseteq Character /\ owned \in [Character -> SUBSET Table]
    /\ shop \in Nat

(* The values of the variables; a request is at one of its statements.     *)
TypeOK ==
    /\ db \in {"up", "down"} /\ outages \in 0..MaxOutages
    /\ PoolType /\ HandlerType /\ TableType
    /\ contended \subseteq Character /\ unchecked \in BOOLEAN

Holders == {w \in Worker : conn[w] # "none"}

(* No connection is lost or put back twice, on any path through execute    *)
(* and query: the pool and the connections in use are always poolSize.     *)
PoolConserved == Len(pool) + Cardinality(Holders) = poolSize

(* /api/currency/modify never leaves a negative balance, whatever other    *)
(* requests change the balance between its check and its update.           *)
NeverOverdrawn == \A c \in Character : gold[c] >= 0

(* No amount is lost or added twice, whatever fails: a balance is the sum  *)
(* of the amounts that statements added to it.  /api/currency/modify       *)
(* writes a balance it read earlier: the only balances this does not hold  *)
(* for are those that another request was to change at the same time.      *)
BooksBalance == \A c \in Character \ contended : gold[c] = granted[c]

(* The check for an existing row keeps one row for a template, whatever is *)
(* deleted between the check and the insertion; only two requests that     *)
(* save the item at once, or a check whose query fails, make a second.     *)
OneRowPerTemplate == shop > 1 => unchecked

(* The row that a request is about was deleted after the request found it. *)
Vanished(w) ==
    \/ task[w].who \notin alive
    \/ task[w].kind = "shopSave" /\ read[w] # 0

(* What the administrator is told is what happened: "done" that the change *)
(* was made, or that the row to change was deleted meanwhile; "error" that *)
(* it was not, unless the reply of the database was lost; and nothing was  *)
(* changed where the answer is that the character is missing or the        *)
(* balance is too small.  The change of a deletion is the deletion of the  *)
(* character itself.  A broadcast only leaves a log entry, which may fail. *)
HonestAnswers ==
    [][\A w \in Worker : phase[w] # "idle" =>
         /\ answer'[w] = "done" =>
               made[w] \/ Vanished(w) \/ task[w].kind = "broadcast"
         /\ answer'[w] \in {"missing", "refused"} => ~made[w]
         /\ answer'[w] = "error" => ~made[w] \/ outages > 0]_vars

(* After the last outage every dead connection is replaced or goes back to *)
(* the pool, from which it is only taken after it was replaced: the        *)
(* handlers stop to see dead connections.                                  *)
Heals ==
    (db = "up" /\ outages = MaxOutages) ~> [](\A w \in Worker : conn[w] # "dead")

(* What Heals rests on: while the database is up no thread is handed a     *)
(* connection that does not work, however many of them are in the pool.    *)
HandsOutGood ==
    [][db = "up" /\ db' = "up" =>
         \A w \in Worker : conn'[w] = "dead" => conn[w] = "dead"]_vars
=============================================================================
