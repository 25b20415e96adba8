----------------------------- MODULE AdminProofs -----------------------------
(***************************************************************************)
(* What the connection pool and the requests of the web administration     *)
(* keep for any number of threads, connections, characters, requests and   *)
(* outages; where requests that overlap cost something, and that the       *)
(* administrator is told what happened.                                    *)
(***************************************************************************)
EXTENDS Admin, FiniteSetTheorems, TLAPS

(* The handlers' statements, seen as positions: where a balance is read    *)
(* and written, and where it is added to.                                  *)
LEMMA StatementFacts ==
    \A k \in DOMAIN Statements :
        /\ Len(Statements[k]) \in 1..4
        /\ \A i \in 1..Len(Statements[k]) :
              /\ Statements[k][i] = "write" =>
                    k = "modify" /\ i = 2
              /\ Statements[k][i] \in {"add", "addAll"} => k \in {"give", "event"}
        /\ k = "modify" => Statements[k] = <<"balance", "write", "log">>
<1>1. SUFFICES ASSUME NEW k \in DOMAIN Statements
      PROVE  /\ Len(Statements[k]) \in 1..4
             /\ \A i \in 1..Len(Statements[k]) :
                   /\ Statements[k][i] = "write" => k = "modify" /\ i = 2
                   /\ Statements[k][i] \in {"add", "addAll"} => k \in {"give", "event"}
             /\ k = "modify" => Statements[k] = <<"balance", "write", "log">>
    OBVIOUS
<1>2. CASE k \in {"ban", "give"}
    BY <1>2, SMT DEF Statements, Ban, GiveBalance
<1>3. CASE k \in {"equip", "reset"}
    BY <1>3, SMT DEF Statements, GiveBelonging, ResetStats
<1>4. CASE k \in {"broadcast", "mission"}
    BY <1>4, SMT DEF Statements, Broadcast, CreateMission
<1>5. CASE k \in {"invalidate", "toggle"}
    BY <1>5, SMT DEF Statements, Invalidate, ToggleMap
<1>6. CASE k \in {"shopUpdate", "gacha", "shopDelete"}
    BY <1>6, SMT DEF Statements, UpdateShopItem, CreateGacha, DeleteShopItem
<1>7. CASE k = "setGM"
    BY <1>7, SMT DEF Statements, SetGM
<1>8. CASE k = "deliver"
    BY <1>8, SMT DEF Statements, SendVehicle
<1>9. CASE k = "shopSave"
    BY <1>9, SMT DEF Statements, SaveShopItem
<1>10. CASE k = "event"
    BY <1>10, SMT DEF Statements, GiveEveryone
<1>11. CASE k = "modify"
    BY <1>11, SMT DEF Statements, ModifyBalance
<1>12. CASE k = "send"
    BY <1>12, SMT DEF Statements, SendItem
<1>13. CASE k = "delete"
    BY <1>13, SMT DEF Statements, DeleteAll
<1>14. QED
    BY <1>2, <1>3, <1>4, <1>5, <1>6, <1>7, <1>8, <1>9,
       <1>10, <1>11, <1>12, <1>13, Zenon DEF Statements

(* No request has the kind of the task of an idle worker. *)
LEMMA NoTaskIsNone == NoTask \notin Requests
<1>1. UNION Mixes \subseteq DOMAIN Statements
    BY AdminAssumption
<1>2. "none" \notin DOMAIN Statements
    BY DEF Statements
<1>3. QED
    BY <1>1, <1>2 DEF NoTask, Requests, Task

------------------------------------------------------------------------------
(* A worker holds a connection exactly from getConnection to               *)
(* releaseConnection.                                                      *)
Holding == \A w \in Worker : conn[w] # "none" <=> phase[w] \in {"run", "release"}

(* A balance that is about to be written has been checked with the amount, *)
(* and the statements that add without a check add nothing negative.       *)
Checked ==
    \A w \in Worker : phase[w] # "idle" =>
        /\ task[w].kind = "modify" /\ step[w] = 2 => read[w] + task[w].amount >= 0
        /\ task[w].kind \in {"give", "event"} => task[w].amount >= 0

IInv == TypeOK /\ Holding /\ PoolConserved /\ Checked /\ NeverOverdrawn

(* A worker that is not idle serves a request, and is at a statement of it. *)
LEMMA Serving ==
    ASSUME HandlerType, NEW w \in Worker, phase[w] # "idle"
    PROVE  /\ task[w] \in Requests
           /\ task[w].kind \in DOMAIN Statements
           /\ task[w].who \in Character /\ task[w].amount \in Int
           /\ step[w] \in 1..Len(Statements[task[w].kind])
<1>1. task[w] \in Requests
    BY DEF HandlerType
<1>2. task[w] \in Task
    BY <1>1 DEF Requests
<1>3. task[w].kind \in DOMAIN Statements /\ task[w].amount \in Int
    <2>1. task[w].kind \in UNION Mixes /\ task[w].amount \in Amount \cup {0}
        BY <1>2 DEF Task
    <2>2. UNION Mixes \subseteq DOMAIN Statements /\ Amount \cup {0} \subseteq Int
        BY AdminAssumption
    <2>3. QED
        BY <2>1, <2>2
<1>4. Len(Statements[task[w].kind]) \in 1..4
    BY <1>3, StatementFacts
<1>5. step[w] \in 1..4 /\ step[w] <= Len(Statements[task[w].kind])
    BY DEF HandlerType
<1>6. QED
    BY <1>1, <1>2, <1>3, <1>4, <1>5 DEF Task

(* The return to the handler leaves it at a statement of its request, or   *)
(* idle; it goes on to the write of a balance only after the check.        *)
LEMMA ContinueInv ==
    ASSUME HandlerType, Checked, NEW w \in Worker, phase[w] # "idle",
           NEW ok \in BOOLEAN, Continue(w, ok)
    PROVE  HandlerType' /\ Checked'
<1> DEFINE over == Answer(w, ok) # "none"
           n == Len(Statements[task[w].kind])
<1>1. /\ task[w] \in Requests /\ task[w] # NoTask
      /\ n \in 1..4 /\ step[w] \in 1..n /\ task[w].amount \in Int /\ read[w] \in Int
    BY Serving, StatementFacts, NoTaskIsNone DEF HandlerType
<1>2. Answer(w, ok) \in Answers
    BY DEF Answer, Answers
<1>3. /\ answer' = [answer EXCEPT ![w] = Answer(w, ok)]
      /\ step' = [step EXCEPT ![w] = IF over THEN 1 ELSE step[w] + 1]
      /\ phase' = [phase EXCEPT ![w] = IF over THEN "idle" ELSE "take"]
      /\ read' = [read EXCEPT ![w] = IF over THEN 0 ELSE read[w]]
      /\ result' = [result EXCEPT ![w] = FALSE]
      /\ task' = [task EXCEPT ![w] = IF over THEN NoTask ELSE task[w]]
      /\ made' = [made EXCEPT ![w] = IF over THEN FALSE ELSE made[w]]
    BY DEF Continue
<1>4. ~over => step[w] # n
    BY DEF Answer
<1>5. step' \in [Worker -> 1..4]
    <2>1. ~over => step[w] + 1 \in 1..4
        <3> HIDE DEF over, n
        <3>1. n \in 1..4 /\ step[w] \in 1..n
            BY <1>1
        <3>2. QED
            BY <3>1, <1>4
    <2>2. step \in [Worker -> 1..4]
        BY DEF HandlerType
    <2>3. QED
        BY <2>1, <2>2, <1>3
<1>6. /\ task' \in [Worker -> Requests \cup {NoTask}]
      /\ phase' \in [Worker -> {"idle", "take", "run", "release"}]
      /\ read' \in [Worker -> Int]
      /\ result' \in [Worker -> BOOLEAN] /\ answer' \in [Worker -> Answers]
    BY <1>1, <1>2, <1>3 DEF HandlerType
<1>7. ASSUME NEW v \in Worker
      PROVE  IF phase'[v] = "idle" THEN task'[v] = NoTask /\ step'[v] = 1
             ELSE task'[v] # NoTask /\ step'[v] <= Len(Statements[task'[v].kind])
    <2>1. CASE v = w
        BY <2>1, <1>1, <1>3, <1>4 DEF HandlerType
    <2>2. CASE v # w
        BY <2>2, <1>3 DEF HandlerType
    <2>3. QED
        BY <2>1, <2>2
<1>8. ASSUME NEW v \in Worker, phase'[v] # "idle"
      PROVE  /\ task'[v].kind = "modify" /\ step'[v] = 2 => read'[v] + task'[v].amount >= 0
             /\ task'[v].kind \in {"give", "event"} => task'[v].amount >= 0
    <2>1. CASE v = w
        <3>1. ~over /\ task'[w] = task[w] /\ step'[w] = step[w] + 1 /\ read'[w] = read[w]
            BY <1>8, <2>1, <1>3 DEF HandlerType
        <3>2. ASSUME task[w].kind = "modify", step[w] = 1
              PROVE  read[w] + task[w].amount >= 0
            <4>1. Statement(w) = "balance"
                BY <3>2, Serving, StatementFacts DEF Statement
            <4>2. ok /\ ~Overdrawn(w)
                BY <3>1, <4>1 DEF Answer
            <4>3. QED
                BY <1>1, <4>1, <4>2 DEF Overdrawn
        <3>3. task[w].kind \in {"give", "event"} => task[w].amount >= 0
            BY DEF Checked
        <3>4. QED
            BY <2>1, <3>1, <3>2, <3>3, <1>1
    <2>2. CASE v # w
        BY <1>8, <2>2, <1>3 DEF HandlerType, Checked
    <2>3. QED
        BY <2>1, <2>2
<1>9. made' \in [Worker -> BOOLEAN]
    <2>1. made \in [Worker -> BOOLEAN]
        BY DEF HandlerType
    <2>2. PICK b \in BOOLEAN : made' = [made EXCEPT ![w] = b]
        BY <1>3, <2>1
    <2>3. QED
        BY <2>1, <2>2
<1>10. QED
    BY <1>5, <1>6, <1>7, <1>8, <1>9 DEF HandlerType, Checked

(* Which statement of its request a worker is at tells what was checked.   *)
LEMMA AtStatement ==
    ASSUME HandlerType, Checked, NEW w \in Worker, phase[w] # "idle"
    PROVE  /\ Statement(w) = "write" => read[w] + task[w].amount >= 0
           /\ Statement(w) \in {"add", "addAll"} => task[w].amount >= 0
           /\ task[w].kind = "modify" /\ step[w] = 2 => Statement(w) = "write"
<1>1. task[w].kind \in DOMAIN Statements /\ step[w] \in 1..Len(Statements[task[w].kind])
    BY Serving
<1>2. /\ Statement(w) = "write" => task[w].kind = "modify" /\ step[w] = 2
      /\ Statement(w) \in {"add", "addAll"} => task[w].kind \in {"give", "event"}
      /\ task[w].kind = "modify" => Statements[task[w].kind] = <<"balance", "write", "log">>
    BY <1>1, StatementFacts DEF Statement
<1>3. QED
    BY <1>2 DEF Checked, Statement

(* A statement keeps the tables' types, and no balance becomes negative.   *)
LEMMA EffectInv ==
    ASSUME HandlerType, TableType, Checked, NeverOverdrawn,
           NEW w \in Worker, phase[w] # "idle", Effect(w)
    PROVE  TableType' /\ NeverOverdrawn'
<1>1. task[w].who \in Character /\ task[w].amount \in Int /\ read[w] \in Int
    BY Serving DEF HandlerType
<1>2. ASSUME NEW c \in Character, c \in Rows(w)
      PROVE  NewBalance(w, c) \in Int /\ NewBalance(w, c) >= 0
    <2>1. gold[c] \in Int /\ gold[c] >= 0
        BY DEF TableType, NeverOverdrawn
    <2>2. Statement(w) \in {"add", "write", "addAll"}
        BY <1>2 DEF Rows
    <2>3. CASE Statement(w) = "write"
        BY <2>3, <1>1, AtStatement DEF NewBalance
    <2>4. CASE Statement(w) \in {"add", "addAll"}
        BY <2>1, <2>4, <1>1, AtStatement DEF NewBalance
    <2>5. QED
        BY <2>2, <2>3, <2>4
<1>3. gold' \in [Character -> Int] /\ \A c \in Character : gold'[c] >= 0
    <2>1. gold' = [c \in Character |-> IF c \in Rows(w) THEN NewBalance(w, c) ELSE gold[c]]
        BY DEF Effect, Credit
    <2>2. \A c \in Character : gold[c] \in Int /\ gold[c] >= 0
        BY DEF TableType, NeverOverdrawn
    <2>3. QED
        BY <1>2, <2>1, <2>2
<1>4. granted' \in [Character -> Int]
    <2>1. granted' = [c \in Character |->
                        IF c \in contended THEN 0
                        ELSE IF c \in Rows(w) THEN granted[c] + task[w].amount
                        ELSE granted[c]]
        BY DEF Effect, Credit
    <2>2. QED
        BY <1>1, <2>1 DEF TableType
<1>5. alive' \subseteq Character
    BY DEF Effect, TableType
<1>6. owned' \in [Character -> SUBSET Table]
    <2>1. owned' = [owned EXCEPT ![task[w].who] = (owned[task[w].who] \ Wiped(w)) \cup Inserted(w)]
        BY DEF Effect
    <2>2. Inserted(w) \subseteq Table
        BY DEF Inserted, Table
    <2>3. QED
        BY <1>1, <2>1, <2>2 DEF TableType
<1>7. shop' \in Nat
    <2>1. shop \in Nat /\ Saved(w) \in Nat
        BY DEF TableType, Saved
    <2>2. shop' \in {shop, Saved(w), IF shop = 0 THEN 0 ELSE shop - 1}
        BY DEF Effect
    <2>3. QED
        BY <2>1, <2>2
<1>8. QED
    BY <1>3, <1>4, <1>5, <1>6, <1>7 DEF TableType, NeverOverdrawn

(* A worker gets from mysql_query to releaseConnection.                    *)
LEMMA RanInv ==
    ASSUME HandlerType, TableType, Checked, NEW w \in Worker, phase[w] = "run",
           NEW ok \in BOOLEAN, NEW value \in {read[w], Returned(w)}, NEW change \in BOOLEAN,
           made' = [made EXCEPT ![w] = change], result' = [result EXCEPT ![w] = ok], read' = [read EXCEPT ![w] = value],
           phase' = [phase EXCEPT ![w] = "release"], UNCHANGED <<task, step, answer>>
    PROVE  HandlerType' /\ Checked'
<1>1. task[w].who \in Character /\ read[w] \in Int
    BY Serving DEF HandlerType
<1>2. value \in Int
    BY <1>1 DEF Returned, TableType
<1>3. task[w].kind = "modify" /\ step[w] = 2 => value = read[w]
    BY AtStatement DEF Returned
<1>4. HandlerType'
    BY <1>2 DEF HandlerType
<1>5. ASSUME NEW v \in Worker, phase'[v] # "idle"
      PROVE  /\ task'[v].kind = "modify" /\ step'[v] = 2 => read'[v] + task'[v].amount >= 0
             /\ task'[v].kind \in {"give", "event"} => task'[v].amount >= 0
    <2>1. phase[v] # "idle"
        BY <1>5 DEF HandlerType
    <2>2. read'[v] = IF v = w THEN value ELSE read[v]
        BY DEF HandlerType
    <2>3. QED
        BY <1>3, <2>1, <2>2 DEF Checked
<1>6. QED
    BY <1>4, <1>5 DEF Checked

(* A request that starts is at its first statement. *)
LEMMA StartInv ==
    ASSUME HandlerType, Checked, NEW w \in Worker, Start(w)
    PROVE  HandlerType' /\ Checked'
<1>1. PICK t \in Requests : Bounded(t) /\ task' = [task EXCEPT ![w] = t]
    BY DEF Start
<1>2. /\ phase[w] = "idle" /\ step[w] = 1
      /\ phase' = [phase EXCEPT ![w] = "take"]
      /\ answer' = [answer EXCEPT ![w] = "none"]
      /\ UNCHANGED <<step, result, read, made>>
    BY DEF Start, HandlerType
<1>3. /\ t # NoTask /\ Len(Statements[t.kind]) \in 1..4
      /\ t.kind \in {"give", "event"} => t.amount >= 0
    <2>1. t \in Task
        BY DEF Requests
    <2>2. t.kind \in DOMAIN Statements
        <3>1. UNION Mixes \subseteq DOMAIN Statements
            BY AdminAssumption
        <3>2. QED
            BY <2>1, <3>1 DEF Task
    <2>3. QED
        BY <1>1, <2>2, NoTaskIsNone, StatementFacts DEF Bounded
<1>4. HandlerType'
    <2>1. /\ task' \in [Worker -> Requests \cup {NoTask}]
          /\ phase' \in [Worker -> {"idle", "take", "run", "release"}]
          /\ answer' \in [Worker -> Answers]
        BY <1>1, <1>2 DEF HandlerType, Answers
    <2>2. ASSUME NEW v \in Worker
          PROVE  IF phase'[v] = "idle" THEN task'[v] = NoTask /\ step'[v] = 1
                 ELSE task'[v] # NoTask /\ step'[v] <= Len(Statements[task'[v].kind])
        <3>1. CASE v = w
            <4>1. phase'[w] = "take" /\ task'[w] = t /\ step'[w] = 1
                BY <1>1, <1>2 DEF HandlerType
            <4>2. 1 <= Len(Statements[t.kind])
                BY <1>3, SMTT(30)
            <4>3. phase'[v] = "take" /\ task'[v] = t /\ step'[v] = 1
                BY <3>1, <4>1
            <4>4. t # NoTask
                BY <1>3
            <4>5. QED
                BY <4>2, <4>3, <4>4
        <3>2. CASE v # w
            BY <3>2, <1>1, <1>2 DEF HandlerType
        <3>3. QED
            BY <3>1, <3>2
    <2>3. QED
        BY <1>2, <2>1, <2>2 DEF HandlerType
<1>5. ASSUME NEW v \in Worker, phase'[v] # "idle"
      PROVE  /\ task'[v].kind = "modify" /\ step'[v] = 2 => read'[v] + task'[v].amount >= 0
             /\ task'[v].kind \in {"give", "event"} => task'[v].amount >= 0
    <2>1. CASE v = w
        BY <2>1, <1>1, <1>2, <1>3 DEF HandlerType
    <2>2. CASE v # w
        BY <2>2, <1>1, <1>2, <1>5 DEF HandlerType, Checked
    <2>3. QED
        BY <2>1, <2>2
<1>6. QED
    BY <1>4, <1>5 DEF Checked

------------------------------------------------------------------------------
(* The pool.  A connection that is taken or returned changes the pool and  *)
(* the set of the workers that hold one, by one each.                      *)
PoolInv == PoolType /\ Holding /\ PoolConserved

LEMMA HoldersFinite == IsFiniteSet(Holders) /\ Cardinality(Holders) \in Nat
<1>1. IsFiniteSet(Worker) /\ Holders \subseteq Worker
    BY AdminAssumption DEF Holders
<1>2. QED
    BY <1>1, FS_Subset, FS_CardinalityType

LEMMA TakeInv ==
    ASSUME HandlerType, PoolInv, NEW w \in Worker, Take(w)
    PROVE  PoolInv'
<1>1. /\ phase[w] = "take" /\ pool # <<>>
      /\ pool' = Tail(pool)
      /\ phase' = [phase EXCEPT ![w] = "run"]
      /\ poolSize' = poolSize /\ mix' = mix
    BY DEF Take, server
<1>2. /\ pool \in Seq({"good", "dead"})
      /\ conn \in [Worker -> {"good", "dead", "none"}]
      /\ phase \in [Worker -> {"idle", "take", "run", "release"}]
    BY DEF HandlerType, PoolInv, PoolType
<1>3. PICK connection \in {"good", "dead"} : conn' = [conn EXCEPT ![w] = connection]
    <2>1. Head(pool) \in {"good", "dead"}
        BY <1>1, <1>2
    <2>2. QED
        BY <2>1 DEF Take, Reconnected
<1>4. PoolType'
    BY <1>1, <1>2, <1>3 DEF PoolInv, PoolType
<1>5. Holding'
    BY <1>1, <1>2, <1>3 DEF PoolInv, Holding
<1>6. Holders' = Holders \cup {w} /\ w \notin Holders
    BY <1>1, <1>2, <1>3 DEF PoolInv, Holding, Holders
<1>7. Cardinality(Holders') = Cardinality(Holders) + 1
    BY <1>6, HoldersFinite, FS_AddElement
<1>8. Len(pool') = Len(pool) - 1
    BY <1>1, <1>2
<1>9. PoolConserved'
    BY <1>1, <1>2, <1>7, <1>8, HoldersFinite DEF PoolInv, PoolConserved
<1>10. QED
    BY <1>4, <1>5, <1>9 DEF PoolInv

LEMMA ReleaseInv ==
    ASSUME HandlerType, PoolInv, NEW w \in Worker, Release(w)
    PROVE  PoolInv'
<1>1. /\ phase[w] = "release"
      /\ pool' = Append(pool, conn[w])
      /\ conn' = [conn EXCEPT ![w] = "none"]
      /\ poolSize' = poolSize /\ mix' = mix
    BY DEF Release, Returns, server
<1>2. /\ pool \in Seq({"good", "dead"})
      /\ conn \in [Worker -> {"good", "dead", "none"}]
      /\ phase \in [Worker -> {"idle", "take", "run", "release"}]
    BY DEF HandlerType, PoolInv, PoolType
<1>3. PICK p \in {"idle", "take"} : phase' = [phase EXCEPT ![w] = p]
    BY DEF Release, Continue
<1>4. conn[w] \in {"good", "dead"}
    BY <1>1, <1>2 DEF PoolInv, Holding
<1>5. PoolType'
    BY <1>1, <1>2, <1>4 DEF PoolInv, PoolType
<1>6. Holding'
    BY <1>1, <1>2, <1>3 DEF PoolInv, Holding
<1>7. Holders' = Holders \ {w} /\ w \in Holders
    BY <1>1, <1>2, <1>4 DEF Holders
<1>8. Cardinality(Holders') = Cardinality(Holders) - 1
    BY <1>7, HoldersFinite, FS_RemoveElement
<1>9. Len(pool') = Len(pool) + 1
    BY <1>1, <1>2, <1>4
<1>10. PoolConserved'
    BY <1>1, <1>2, <1>8, <1>9, HoldersFinite DEF PoolInv, PoolConserved
<1>11. QED
    BY <1>5, <1>6, <1>10 DEF PoolInv

(* An outage and the other steps leave the connections where they are. *)
LEMMA StayInv ==
    ASSUME HandlerType, PoolInv,
           UNCHANGED <<pool, conn>> \/ GoesDown, poolSize' = poolSize, mix' = mix,
           phase' \in [Worker -> {"idle", "take", "run", "release"}],
           \A v \in Worker : phase'[v] \in {"run", "release"} <=> phase[v] \in {"run", "release"}
    PROVE  PoolInv'
<1>1. /\ pool \in Seq({"good", "dead"})
      /\ conn \in [Worker -> {"good", "dead", "none"}]
    BY DEF PoolInv, PoolType
<1>2. /\ pool' \in Seq({"good", "dead"}) /\ Len(pool') = Len(pool)
      /\ conn' \in [Worker -> {"good", "dead", "none"}]
      /\ \A v \in Worker : conn'[v] = "none" <=> conn[v] = "none"
    <2>1. CASE UNCHANGED <<pool, conn>>
        BY <1>1, <2>1
    <2>2. CASE GoesDown
        <3>1. /\ pool' = [i \in DOMAIN pool |-> Broken(pool[i])]
              /\ conn' = [v \in Worker |-> Broken(conn[v])]
            BY <2>2 DEF GoesDown
        <3>2. DOMAIN pool = 1..Len(pool) /\ Len(pool) \in Nat
            BY <1>1
        <3>3. \A i \in 1..Len(pool) : Broken(pool[i]) \in {"good", "dead"}
            BY <1>1, <3>2 DEF Broken
        <3>4. pool' \in [1..Len(pool) -> {"good", "dead"}]
            BY <3>1, <3>2, <3>3
        <3>5. pool' \in Seq({"good", "dead"}) /\ Len(pool') = Len(pool)
            BY <3>2, <3>4
        <3>6. \A v \in Worker : /\ Broken(conn[v]) \in {"good", "dead", "none"}
                                /\ Broken(conn[v]) = "none" <=> conn[v] = "none"
            BY <1>1 DEF Broken
        <3>7. QED
            BY <3>1, <3>5, <3>6
    <2>3. QED
        BY <2>1, <2>2
<1>3. Holders' = Holders
    BY <1>2 DEF Holders
<1>4. PoolType' /\ PoolConserved'
    BY <1>2, <1>3 DEF PoolInv, PoolType, PoolConserved
<1>5. Holding'
    BY <1>2 DEF PoolInv, Holding
<1>6. QED
    BY <1>4, <1>5 DEF PoolInv

------------------------------------------------------------------------------
(* Requests have the types of handlers and tables from the start. *)
LEMMA InitInv == Init => IInv
<1> SUFFICES ASSUME Init PROVE IInv
    OBVIOUS
<1>1. HandlerType
    BY DEF Init, HandlerType, Answers
<1>2. TableType /\ NeverOverdrawn
    BY DEF Init, TableType, NeverOverdrawn, Table
<1>3. poolSize \in Nat
    BY AdminAssumption DEF Init
<1>4. pool \in Seq({"good", "dead"}) /\ Len(pool) = poolSize
    <2>1. pool = [i \in 1..poolSize |-> "good"]
        BY DEF Init
    <2>2. pool \in [1..poolSize -> {"good", "dead"}]
        BY <2>1
    <2>3. QED
        BY <1>3, <2>2
<1>5. PoolType
    BY <1>4 DEF Init, PoolType
<1>6. Holders = {}
    BY DEF Init, Holders
<1>7. PoolConserved
    BY <1>3, <1>4, <1>6, FS_EmptySet DEF PoolConserved
<1>8. Holding /\ Checked
    BY DEF Init, Holding, Checked
<1>9. db \in {"up", "down"} /\ outages \in 0..MaxOutages
    BY AdminAssumption DEF Init
<1>10. contended \subseteq Character /\ unchecked \in BOOLEAN
    BY DEF Init
<1>11. QED
    BY <1>1, <1>2, <1>5, <1>7, <1>8, <1>9, <1>10 DEF IInv, TypeOK

LEMMA NextInv == IInv /\ [Next]_vars => IInv'
<1> SUFFICES ASSUME IInv, [Next]_vars PROVE IInv'
    OBVIOUS
<1> DEFINE ServerOK == db \in {"up", "down"} /\ outages \in 0..MaxOutages
           OverlapsOK == contended \subseteq Character /\ unchecked \in BOOLEAN
<1>1. /\ ServerOK /\ OverlapsOK /\ HandlerType /\ TableType
      /\ PoolInv /\ Checked /\ NeverOverdrawn
    BY DEF IInv, TypeOK, PoolInv
<1>2. UNCHANGED tables => TableType' /\ NeverOverdrawn'
    BY <1>1 DEF tables, TableType, NeverOverdrawn
<1>3. UNCHANGED handler => HandlerType' /\ Checked'
    BY <1>1 DEF handler, HandlerType, Checked
<1>4. UNCHANGED server => ServerOK'
    BY <1>1 DEF server
<1>5. GoesDown => ServerOK'
    BY <1>1, AdminAssumption DEF GoesDown
<1>6. UNCHANGED overlaps => OverlapsOK'
    BY <1>1 DEF overlaps
<1>7. ASSUME NEW w \in Worker, NEW ok \in BOOLEAN, Continue(w, ok)
      PROVE  OverlapsOK'
    BY <1>1, <1>7 DEF Continue
<1>8. /\ phase \in [Worker -> {"idle", "take", "run", "release"}]
      /\ result \in [Worker -> BOOLEAN]
    BY <1>1 DEF HandlerType
<1>9. ASSUME NEW w \in Worker, Start(w)
      PROVE  IInv'
    <2>1. HandlerType' /\ Checked'
        BY <1>1, <1>9, StartInv
    <2>2. UNCHANGED <<server, pool, conn, tables>>
        BY <1>9 DEF Start
    <2>3. PoolInv'
        BY <1>1, <1>8, <1>9, <2>2, StayInv DEF Start, server
    <2>4. OverlapsOK'
        BY <1>1, <1>9 DEF Start
    <2>5. QED
        BY <1>2, <1>4, <2>1, <2>2, <2>3, <2>4 DEF IInv, TypeOK, PoolInv
<1>10. ASSUME NEW w \in Worker, Take(w)
      PROVE  IInv'
    <2>1. PoolInv' /\ UNCHANGED <<server, task, step, result, read, answer, made, tables, overlaps>>
        BY <1>1, <1>10, TakeInv DEF Take
    <2>2. phase[w] = "take" /\ phase' = [phase EXCEPT ![w] = "run"]
        BY <1>10 DEF Take
    <2>3. HandlerType'
        BY <1>1, <2>1, <2>2 DEF HandlerType
    <2>4. Checked'
        BY <1>1, <1>8, <2>1, <2>2 DEF Checked
    <2>5. QED
        BY <1>2, <1>4, <1>6, <2>1, <2>3, <2>4 DEF IInv, TypeOK, PoolInv
<1>11. ASSUME NEW w \in Worker, Starve(w)
      PROVE  IInv'
    <2>1. /\ phase[w] = "take" /\ Continue(w, FALSE)
          /\ UNCHANGED <<server, pool, conn, tables>>
        BY <1>11 DEF Starve
    <2>2. HandlerType' /\ Checked'
        BY <1>1, <2>1, ContinueInv
    <2>3. \E p \in {"idle", "take"} : phase' = [phase EXCEPT ![w] = p]
        BY <2>1 DEF Continue
    <2>4. PoolInv'
        BY <1>1, <1>8, <2>1, <2>3, StayInv DEF server
    <2>5. OverlapsOK'
        BY <1>7, <2>1
    <2>6. QED
        BY <1>2, <1>4, <2>1, <2>2, <2>4, <2>5 DEF IInv, TypeOK, PoolInv
<1>12. ASSUME NEW w \in Worker, Run(w)
      PROVE  IInv'
    <2>1. /\ phase[w] = "run" /\ Effect(w)
          /\ made' = [made EXCEPT ![w] = made[w] \/ Makes(w)]
          /\ result' = [result EXCEPT ![w] = Succeeds(w)]
          /\ read' = [read EXCEPT ![w] = Returned(w)]
          /\ phase' = [phase EXCEPT ![w] = "release"]
          /\ UNCHANGED <<server, pool, conn, task, step, answer, overlaps>>
        BY <1>12 DEF Run
    <2>2. TableType' /\ NeverOverdrawn'
        BY <1>1, <2>1, EffectInv
    <2>3. Succeeds(w) \in BOOLEAN
        BY DEF Succeeds
    <2>4. HandlerType' /\ Checked'
        BY <1>1, <2>1, <2>3, RanInv
    <2>5. PoolInv'
        BY <1>1, <1>8, <2>1, StayInv DEF server
    <2>6. QED
        BY <1>4, <1>6, <2>1, <2>2, <2>4, <2>5 DEF IInv, TypeOK, PoolInv
<1>13. ASSUME NEW w \in Worker, Fail(w)
      PROVE  IInv'
    <2>1. /\ phase[w] = "run"
          /\ result' = [result EXCEPT ![w] = FALSE]
          /\ phase' = [phase EXCEPT ![w] = "release"]
          /\ UNCHANGED <<server, pool, conn, task, step, read, answer, made, tables, overlaps>>
        BY <1>13 DEF Fail
    <2>2. read' = [read EXCEPT ![w] = read[w]] /\ made' = [made EXCEPT ![w] = made[w]]
          /\ made[w] \in BOOLEAN
        BY <1>1, <2>1 DEF HandlerType
    <2>3. HandlerType' /\ Checked'
        BY <1>1, <2>1, <2>2, RanInv
    <2>4. PoolInv'
        BY <1>1, <1>8, <2>1, StayInv DEF server
    <2>5. QED
        BY <1>2, <1>4, <1>6, <2>1, <2>3, <2>4 DEF IInv, TypeOK, PoolInv
<1>14. ASSUME NEW w \in Worker, Lose(w)
      PROVE  IInv'
    <2>1. /\ phase[w] = "run" /\ GoesDown /\ Effect(w)
          /\ made' = [made EXCEPT ![w] = made[w] \/ Makes(w)]
          /\ result' = [result EXCEPT ![w] = FALSE]
          /\ phase' = [phase EXCEPT ![w] = "release"]
          /\ UNCHANGED <<poolSize, mix, task, step, read, answer, overlaps>>
        BY <1>14 DEF Lose
    <2>2. TableType' /\ NeverOverdrawn'
        BY <1>1, <2>1, EffectInv
    <2>3. read' = [read EXCEPT ![w] = read[w]]
        BY <1>1, <2>1 DEF HandlerType
    <2>4. HandlerType' /\ Checked'
        BY <1>1, <2>1, <2>3, RanInv
    <2>5. PoolInv'
        BY <1>1, <1>8, <2>1, StayInv
    <2>6. QED
        BY <1>5, <1>6, <2>1, <2>2, <2>4, <2>5 DEF IInv, TypeOK, PoolInv
<1>15. ASSUME NEW w \in Worker, Release(w)
      PROVE  IInv'
    <2>1. /\ phase[w] = "release" /\ Continue(w, result[w])
          /\ UNCHANGED <<server, tables>>
        BY <1>15 DEF Release
    <2>2. HandlerType' /\ Checked'
        BY <1>1, <1>8, <2>1, ContinueInv
    <2>3. PoolInv'
        BY <1>1, <1>15, ReleaseInv
    <2>4. OverlapsOK'
        BY <1>8, <1>7, <2>1
    <2>5. QED
        BY <1>2, <1>4, <2>1, <2>2, <2>3, <2>4 DEF IInv, TypeOK, PoolInv
<1>16. CASE Down
    <2>1. GoesDown /\ UNCHANGED <<poolSize, mix, handler, tables, overlaps>> /\ UNCHANGED phase
        BY <1>16 DEF Down, handler
    <2>2. PoolInv'
        BY <1>1, <1>8, <2>1, StayInv
    <2>3. QED
        BY <1>2, <1>3, <1>5, <1>6, <2>1, <2>2 DEF IInv, TypeOK, PoolInv
<1>17. CASE Up
    <2>1. /\ db' = "up" /\ UNCHANGED <<outages, poolSize, mix, pool, conn, handler, tables, overlaps>>
          /\ UNCHANGED phase
        BY <1>17 DEF Up, handler
    <2>2. PoolInv'
        BY <1>1, <1>8, <2>1, StayInv
    <2>3. ServerOK'
        BY <1>1, <2>1
    <2>4. QED
        BY <1>2, <1>3, <1>6, <2>1, <2>2, <2>3 DEF IInv, TypeOK, PoolInv
<1>18. CASE UNCHANGED vars
    <2>1. UNCHANGED <<server, poolSize, mix, pool, conn, handler, tables, overlaps, phase>>
        BY <1>18 DEF vars, server, handler
    <2>2. PoolInv'
        BY <1>1, <1>8, <2>1, StayInv
    <2>3. QED
        BY <1>2, <1>3, <1>4, <1>6, <2>1, <2>2 DEF IInv, TypeOK, PoolInv
<1>19. QED
    BY <1>9, <1>10, <1>11, <1>12, <1>13, <1>14, <1>15, <1>16, <1>17, <1>18 DEF Next, Serve

(* Threads, connections and tables keep their types, whatever requests are *)
(* in progress at once.                                                    *)
THEOREM AdminTypeCorrect == Spec => []TypeOK
<1>1. IInv => TypeOK
    BY DEF IInv
<1>2. QED
    BY <1>1, InitInv, NextInv, PTL DEF Spec

(* execute and query keep every connection: for any number of threads and  *)
(* any outages, the pool and the connections in use are always poolSize.   *)
THEOREM PoolIsConserved == Spec => []PoolConserved
<1>1. IInv => PoolConserved
    BY DEF IInv
<1>2. QED
    BY <1>1, InitInv, NextInv, PTL DEF Spec

(* No interleaving of requests makes /api/currency/modify, or any other    *)
(* handler, leave a negative balance.                                      *)
THEOREM NoneOverdrawn == Spec => []NeverOverdrawn
<1>1. IInv => NeverOverdrawn
    BY DEF IInv
<1>2. QED
    BY <1>1, InitInv, NextInv, PTL DEF Spec

------------------------------------------------------------------------------
(* The steps that serve a request, as far as its handler can tell them     *)
(* apart.                                                                  *)
Types ==
    /\ task \in [Worker -> Requests \cup {NoTask}]
    /\ phase \in [Worker -> {"idle", "take", "run", "release"}]
    /\ step \in [Worker -> 1..4] /\ read \in [Worker -> Int]
    /\ result \in [Worker -> BOOLEAN] /\ made \in [Worker -> BOOLEAN]
    /\ answer \in [Worker -> Answers]
    /\ gold \in [Character -> Int] /\ granted \in [Character -> Int]
    /\ shop \in Nat /\ outages \in Nat

LEMMA TypesHold == IInv => Types
BY AdminAssumption DEF IInv, TypeOK, HandlerType, TableType, Types

Took(w) ==
    /\ phase[w] = "take" /\ phase' = [phase EXCEPT ![w] = "run"]
    /\ UNCHANGED <<task, step, result, read, answer, made, tables, overlaps>>

Ran(w) ==
    /\ phase[w] = "run" /\ phase' = [phase EXCEPT ![w] = "release"]
    /\ UNCHANGED <<task, step, answer, overlaps>>
    /\ \/ /\ Effect(w) /\ made' = [made EXCEPT ![w] = made[w] \/ Makes(w)]
          /\ \/ /\ result' = [result EXCEPT ![w] = Succeeds(w)]
                /\ read' = [read EXCEPT ![w] = Returned(w)]
             \/ /\ result' = [result EXCEPT ![w] = FALSE]
                /\ read' = read /\ outages' > 0
       \/ /\ result' = [result EXCEPT ![w] = FALSE]
          /\ UNCHANGED <<read, made, tables>>

WentOn(w) ==
    /\ phase[w] \in {"take", "release"}
    /\ \E ok \in BOOLEAN :
          /\ Continue(w, ok)
          /\ ok <=> phase[w] = "release" /\ result[w]
    /\ UNCHANGED tables

Served(w) == Took(w) \/ Ran(w) \/ WentOn(w)

LEMMA Steps ==
    ASSUME IInv, [Next]_vars
    PROVE  \/ \E w \in Worker : Start(w) \/ Served(w)
           \/ UNCHANGED <<handler, tables, overlaps>>
<1>1. Types
    BY TypesHold
<1>2. ASSUME NEW w \in Worker, Take(w)
      PROVE  Served(w)
    BY <1>2 DEF Take, Took, Served
<1>3. ASSUME NEW w \in Worker, Starve(w)
      PROVE  WentOn(w)
    BY <1>3 DEF Starve, WentOn
<1>4. ASSUME NEW w \in Worker, Release(w)
      PROVE  WentOn(w)
    <2>1. result[w] \in BOOLEAN
        BY <1>1 DEF Types
    <2>2. QED
        BY <1>4, <2>1 DEF Release, WentOn
<1>5. ASSUME NEW w \in Worker, Run(w)
      PROVE  Ran(w)
    BY <1>5 DEF Run, Ran
<1>6. ASSUME NEW w \in Worker, Fail(w)
      PROVE  Ran(w)
    BY <1>6 DEF Fail, Ran
<1>7. ASSUME NEW w \in Worker, Lose(w)
      PROVE  Ran(w)
    <2>1. outages' > 0
        BY <1>1, <1>7 DEF Lose, GoesDown, Types
    <2>2. QED
        BY <1>7, <2>1 DEF Lose, Ran
<1>8. CASE Down \/ Up \/ UNCHANGED vars
    BY <1>8 DEF Down, Up, vars
<1>9. QED
    BY <1>2, <1>3, <1>4, <1>5, <1>6, <1>7, <1>8 DEF Next, Serve, Served

(* Going on in a handler: to the next statement, or to no request at all.  *)
LEMMA GoesOn ==
    ASSUME Types, NEW w \in Worker, NEW ok \in BOOLEAN, Continue(w, ok)
    PROVE  \/ /\ Answer(w, ok) # "none"
              /\ phase'[w] = "idle" /\ task'[w] = NoTask /\ ~made'[w]
           \/ /\ Answer(w, ok) = "none"
              /\ phase'[w] = "take" /\ task'[w] = task[w]
              /\ step'[w] = step[w] + 1 /\ read'[w] = read[w] /\ made'[w] = made[w]
<1> DEFINE over == Answer(w, ok) # "none"
<1>1. /\ step' = [step EXCEPT ![w] = IF over THEN 1 ELSE step[w] + 1]
      /\ phase' = [phase EXCEPT ![w] = IF over THEN "idle" ELSE "take"]
      /\ read' = [read EXCEPT ![w] = IF over THEN 0 ELSE read[w]]
      /\ task' = [task EXCEPT ![w] = IF over THEN NoTask ELSE task[w]]
      /\ made' = [made EXCEPT ![w] = IF over THEN FALSE ELSE made[w]]
    BY DEF Continue
<1>2. QED
    BY <1>1 DEF Types

(* The step of one worker leaves what the others' handlers know alone.     *)
LEMMA Elsewhere ==
    ASSUME Types, NEW w \in Worker, Start(w) \/ Served(w), NEW v \in Worker \ {w}
    PROVE  /\ task'[v] = task[v] /\ step'[v] = step[v] /\ phase'[v] = phase[v]
           /\ read'[v] = read[v] /\ result'[v] = result[v] /\ made'[v] = made[v]
           /\ answer'[v] = answer[v]
<1>1. CASE Start(w)
    BY <1>1 DEF Start, Types
<1>2. CASE Took(w)
    BY <1>2 DEF Took, Types
<1>3. CASE Ran(w)
    BY <1>3 DEF Ran, Types
<1>4. CASE WentOn(w)
    <2>1. PICK ok \in BOOLEAN : Continue(w, ok)
        BY <1>4 DEF WentOn
    <2>2. QED
        BY <2>1 DEF Continue, Types
<1>5. QED
    BY <1>1, <1>2, <1>3, <1>4 DEF Served

(* A worker that is served goes on with its request, or is idle. *)
LEMMA ServedKeepsTask ==
    ASSUME Types, NEW w \in Worker, Served(w), NEW x \in Worker, phase'[x] # "idle"
    PROVE  phase[x] # "idle" /\ task'[x] = task[x]
<1>1. CASE x # w
    BY <1>1, Elsewhere
<1>2. CASE Took(w) \/ Ran(w)
    <2>1. phase[w] # "idle" /\ task' = task
        BY <1>2 DEF Took, Ran
    <2>2. QED
        BY <1>1, <2>1
<1>3. CASE WentOn(w)
    <2>1. phase[w] # "idle"
        BY <1>3 DEF WentOn
    <2>2. PICK ok \in BOOLEAN : Continue(w, ok)
        BY <1>3 DEF WentOn
    <2>3. QED
        BY <1>1, <2>1, <2>2, GoesOn
<1>4. QED
    BY <1>2, <1>3 DEF Served

(* Only a statement changes the tables. *)
LEMMA TablesChange ==
    ASSUME NEW w \in Worker, Start(w) \/ Served(w)
    PROVE  UNCHANGED tables \/ (phase[w] = "run" /\ Effect(w) /\ UNCHANGED overlaps)
BY DEF Start, Served, Took, Ran, WentOn

(* What happened stays so. *)
LEMMA Monotone ==
    ASSUME IInv, [Next]_vars
    PROVE  /\ alive' \subseteq alive /\ contended \subseteq contended'
           /\ unchecked => unchecked'
           /\ outages > 0 => outages' > 0
<1>1. alive' \subseteq alive
    <2>1. ASSUME NEW w \in Worker, Start(w) \/ Served(w)
          PROVE  alive' \subseteq alive
        BY <2>1, TablesChange DEF tables, Effect
    <2>2. QED
        BY <2>1, Steps DEF tables
<1>2. contended \subseteq contended' /\ (unchecked => unchecked')
    <2>1. ASSUME NEW w \in Worker, Start(w)
          PROVE  contended \subseteq contended' /\ (unchecked => unchecked')
        BY <2>1 DEF Start
    <2>2. ASSUME NEW w \in Worker, WentOn(w)
          PROVE  contended \subseteq contended' /\ (unchecked => unchecked')
        BY <2>2 DEF WentOn, Continue
    <2>3. ASSUME NEW w \in Worker, Took(w) \/ Ran(w)
          PROVE  contended \subseteq contended' /\ (unchecked => unchecked')
        BY <2>3 DEF Took, Ran, overlaps
    <2>4. QED
        BY <2>1, <2>2, <2>3, Steps DEF Served, overlaps
<1>3. outages > 0 => outages' > 0
    <2>1. outages \in Nat
        BY TypesHold DEF Types
    <2>2. outages' \in {outages, outages + 1}
        BY DEF Next, Serve, Start, Take, Starve, Run, Fail, Release, Lose, Down, Up,
               vars, server, GoesDown
    <2>3. QED
        BY <2>1, <2>2
<1>4. QED
    BY <1>1, <1>2, <1>3

------------------------------------------------------------------------------
(* Which requests make the statements that matter here.                    *)
LEMMA WhoMakes ==
    ASSUME IInv, NEW w \in Worker, phase[w] # "idle"
    PROVE  /\ Statement(w) \in {"add", "addAll", "write"} => task[w].kind \in Grants
           /\ Statement(w) = "add" => task[w].kind # "event"
           /\ Statement(w) = "addAll" => task[w].kind = "event"
           /\ Statement(w) = "write" <=> task[w].kind = "modify" /\ step[w] = 2
           /\ Statement(w) = "balance" <=> task[w].kind = "modify" /\ step[w] = 1
           /\ Statement(w) = "save" <=> task[w].kind = "shopSave" /\ step[w] = 2
           /\ Statement(w) = "lookup" <=> task[w].kind = "shopSave" /\ step[w] = 1
           /\ Statement(w) = "unlist" => task[w].kind = "shopDelete"
<1> DEFINE k == task[w].kind
           i == step[w]
<1>1. k \in DOMAIN Statements /\ i \in 1..Len(Statements[k])
    BY Serving DEF IInv, TypeOK
<1>2. Statement(w) = Statements[k][i]
    BY DEF Statement
<1>3. \A j \in DOMAIN Statements : \A n \in 1..Len(Statements[j]) :
        /\ Statements[j][n] \in {"add", "addAll", "write"} => j \in Grants
        /\ Statements[j][n] = "add" => j # "event"
        /\ Statements[j][n] = "addAll" => j = "event"
        /\ Statements[j][n] = "write" <=> j = "modify" /\ n = 2
        /\ Statements[j][n] = "balance" <=> j = "modify" /\ n = 1
        /\ Statements[j][n] = "save" <=> j = "shopSave" /\ n = 2
        /\ Statements[j][n] = "lookup" <=> j = "shopSave" /\ n = 1
        /\ Statements[j][n] = "unlist" => j = "shopDelete"
    <2> SUFFICES ASSUME NEW j \in DOMAIN Statements, NEW n \in 1..Len(Statements[j])
                 PROVE
        /\ Statements[j][n] \in {"add", "addAll", "write"} => j \in Grants
        /\ Statements[j][n] = "add" => j # "event"
        /\ Statements[j][n] = "addAll" => j = "event"
        /\ Statements[j][n] = "write" <=> j = "modify" /\ n = 2
        /\ Statements[j][n] = "balance" <=> j = "modify" /\ n = 1
        /\ Statements[j][n] = "save" <=> j = "shopSave" /\ n = 2
        /\ Statements[j][n] = "lookup" <=> j = "shopSave" /\ n = 1
        /\ Statements[j][n] = "unlist" => j = "shopDelete"
        OBVIOUS
    <2> USE DEF Grants
    <2>2. CASE j \in {"ban", "give"}
        BY <2>2, SMT DEF Statements, Ban, GiveBalance
    <2>3. CASE j \in {"equip", "reset"}
        BY <2>3, SMT DEF Statements, GiveBelonging, ResetStats
    <2>4. CASE j \in {"broadcast", "mission"}
        BY <2>4, SMT DEF Statements, Broadcast, CreateMission
    <2>5. CASE j \in {"invalidate", "toggle"}
        BY <2>5, SMT DEF Statements, Invalidate, ToggleMap
    <2>6. CASE j \in {"shopUpdate", "gacha", "shopDelete"}
        BY <2>6, SMT DEF Statements, UpdateShopItem, CreateGacha, DeleteShopItem
    <2>7. CASE j = "setGM"
        BY <2>7, SMT DEF Statements, SetGM
    <2>8. CASE j = "deliver"
        BY <2>8, SMT DEF Statements, SendVehicle
    <2>9. CASE j = "shopSave"
        BY <2>9, SMT DEF Statements, SaveShopItem
    <2>10. CASE j = "event"
        BY <2>10, SMT DEF Statements, GiveEveryone
    <2>11. CASE j = "modify"
        BY <2>11, SMT DEF Statements, ModifyBalance
    <2>12. CASE j = "send"
        BY <2>12, SMT DEF Statements, SendItem
    <2>13. CASE j = "delete"
        BY <2>13, SMT DEF Statements, DeleteAll
    <2>14. QED
        BY <2>2, <2>3, <2>4, <2>5, <2>6, <2>7, <2>8, <2>9,
           <2>10, <2>11, <2>12, <2>13, Zenon DEF Statements
<1>4. QED
    BY <1>1, <1>2, <1>3

------------------------------------------------------------------------------
(* The books.  A balance that nobody contends is changed by one request at *)
(* a time when one of them is /api/currency/modify.                        *)
Apart ==
    \A v, w \in Worker : \A c \in Character \ contended :
        v # w /\ phase[v] # "idle" /\ phase[w] # "idle" => ~Contends(task[v], task[w], c)

(* The worker has the outcome of its first statement and has not made its  *)
(* second one.                                                             *)
Between(w) ==
    \/ step[w] = 1 /\ phase[w] = "release" /\ result[w]
    \/ step[w] = 2 /\ phase[w] \in {"take", "run"}

(* A balance that is going to be written is still what was read.           *)
BalanceKnown ==
    \A w \in Worker :
        task[w].kind = "modify" /\ Between(w) /\ task[w].who \notin contended
            => read[w] = gold[task[w].who]

LEMMA ContendsSymmetric == \A t, u, c : Contends(t, u, c) <=> Contends(u, t, c)
BY DEF Contends

LEMMA ApartNext == IInv /\ Apart /\ [Next]_vars => Apart'
<1> SUFFICES ASSUME IInv, Apart, [Next]_vars,
                    NEW u \in Worker, NEW v \in Worker, NEW c \in Character,
                    c \notin contended', u # v, phase'[u] # "idle", phase'[v] # "idle"
             PROVE  ~Contends(task'[u], task'[v], c)
    BY Zenon DEF Apart, Contends, ChangesBalance
<1>1. Types /\ c \notin contended
    BY TypesHold, Monotone
<1>2. ASSUME phase[u] # "idle", phase[v] # "idle", task'[u] = task[u], task'[v] = task[v]
      PROVE  ~Contends(task'[u], task'[v], c)
    BY <1>1, <1>2, Zenon DEF Apart
<1>3. ASSUME NEW w \in Worker, Start(w)
      PROVE  ~Contends(task'[u], task'[v], c)
    <2>1. PICK t \in Requests :
              /\ task' = [task EXCEPT ![w] = t]
              /\ contended' = contended \cup
                    {d \in Character : \E x \in Others(w) : Contends(t, x, d)}
        BY <1>3 DEF Start
    <2>2. task'[w] = t /\ \A x \in Others(w) : ~Contends(t, x, c)
        BY <1>1, <2>1 DEF Types
    <2>3. \A x \in Worker \ {w} : phase'[x] # "idle" => task[x] \in Others(w) /\ task'[x] = task[x]
        BY <1>1, <1>3, Elsewhere DEF Others
    <2>4. CASE u = w
        BY <2>2, <2>3, <2>4
    <2>5. CASE v = w
        BY <2>2, <2>3, <2>5, ContendsSymmetric
    <2>6. CASE u # w /\ v # w
        BY <1>1, <1>2, <1>3, <2>6, Elsewhere
    <2>7. QED
        BY <2>4, <2>5, <2>6
<1>4. ASSUME NEW w \in Worker, Served(w), NEW x \in Worker, phase'[x] # "idle"
      PROVE  phase[x] # "idle" /\ task'[x] = task[x]
    BY <1>1, <1>4, ServedKeepsTask
<1>5. CASE UNCHANGED <<handler, tables, overlaps>>
    BY <1>2, <1>5 DEF handler
<1>6. QED
    BY <1>2, <1>3, <1>4, <1>5, Steps

(* Another worker's statement leaves a balance alone that a request is     *)
(* about to write.                                                         *)
LEMMA OthersSpare ==
    ASSUME IInv, Apart, NEW v \in Worker, NEW w \in Worker, v # w,
           phase[v] # "idle", phase[w] # "idle", task[w].kind = "modify",
           task[w].who \notin contended
    PROVE  task[w].who \notin Rows(v)
<1>1. SUFFICES ASSUME task[w].who \in Rows(v)
      PROVE  FALSE
    OBVIOUS
<1> DEFINE c == task[w].who
<1>2. c \in Character
    BY Serving DEF IInv, TypeOK
<1>3. Statement(v) \in {"add", "addAll", "write"} /\ task[v].kind \in Grants
    BY <1>1, WhoMakes DEF Rows
<1>4. task[v].kind = "event" \/ task[v].who = c
    BY <1>1, <1>3, WhoMakes DEF Rows
<1>5. Contends(task[v], task[w], c)
    BY <1>3, <1>4 DEF Contends, ChangesBalance, Grants
<1>6. QED
    BY <1>2, <1>5 DEF Apart

LEMMA BalanceKnownNext == IInv /\ Apart /\ BalanceKnown /\ [Next]_vars => BalanceKnown'
<1> SUFFICES ASSUME IInv, Apart, BalanceKnown, [Next]_vars,
                    NEW v \in Worker, task'[v].kind = "modify", Between(v)',
                    task'[v].who \notin contended'
             PROVE  read'[v] = gold'[task'[v].who]
    BY DEF BalanceKnown
<1>1. Types /\ task'[v].who \notin contended
    BY TypesHold, Monotone
<1>2. ASSUME NEW w \in Worker \ {v}, Start(w) \/ Served(w)
      PROVE  read'[v] = gold'[task'[v].who]
    <2>1. /\ task'[v] = task[v] /\ step'[v] = step[v] /\ phase'[v] = phase[v]
          /\ read'[v] = read[v] /\ result'[v] = result[v]
        BY <1>1, <1>2, Elsewhere
    <2>2. Between(v) /\ task[v].kind = "modify" /\ phase[v] # "idle"
        BY <2>1 DEF Between
    <2>3. read[v] = gold[task[v].who]
        BY <1>1, <2>1, <2>2 DEF BalanceKnown
    <2>4. CASE gold' = gold
        BY <2>1, <2>3, <2>4
    <2>5. CASE phase[w] = "run" /\ Effect(w)
        <3>1. task[v].who \in Character \ Rows(w)
            BY <1>1, <2>1, <2>2, <2>5, OthersSpare, Serving DEF IInv, TypeOK
        <3>2. gold'[task[v].who] = gold[task[v].who]
            BY <2>5, <3>1 DEF Effect, Credit
        <3>3. QED
            BY <2>1, <2>3, <3>2
    <2>6. QED
        BY <1>2, <2>4, <2>5, TablesChange DEF tables
<1>3. CASE UNCHANGED <<handler, tables, overlaps>>
    BY <1>1, <1>3 DEF handler, tables, Between, BalanceKnown
<1>4. CASE Start(v)
    <2>1. phase'[v] = "take" /\ step'[v] = 1
        BY <1>1, <1>4 DEF Start, IInv, TypeOK, HandlerType
    <2>2. QED
        BY <2>1 DEF Between
<1>5. CASE Took(v)
    <2>1. /\ phase[v] = "take" /\ phase'[v] = "run"
          /\ UNCHANGED <<task, step, read, gold>>
        BY <1>1, <1>5 DEF Took, Types, tables
    <2>2. Between(v)
        BY <2>1 DEF Between
    <2>3. QED
        BY <1>1, <2>1, <2>2 DEF BalanceKnown
<1>6. CASE Ran(v)
    <2>1. phase[v] = "run" /\ phase'[v] = "release" /\ step'[v] = step[v] /\ task'[v] = task[v]
        BY <1>1, <1>6 DEF Ran, Types
    <2>2. step[v] = 1 /\ result'[v]
        BY <2>1 DEF Between
    <2>3. /\ Effect(v) /\ result' = [result EXCEPT ![v] = Succeeds(v)]
          /\ read' = [read EXCEPT ![v] = Returned(v)]
        BY <1>1, <1>6, <2>2 DEF Ran, Types
    <2>4. Statement(v) = "balance" /\ task[v].who \in Character
        BY <2>1, <2>2, WhoMakes, Serving DEF IInv, TypeOK
    <2>5. task[v].who \in alive
        BY <1>1, <2>2, <2>3, <2>4 DEF Succeeds, Types
    <2>6. read'[v] = gold[task[v].who]
        BY <1>1, <2>3, <2>4, <2>5 DEF Returned, Types
    <2>7. gold'[task[v].who] = gold[task[v].who]
        BY <2>3, <2>4 DEF Effect, Credit, Rows
    <2>8. QED
        BY <2>1, <2>6, <2>7
<1>7. CASE WentOn(v)
    <2>1. PICK ok \in BOOLEAN : /\ Continue(v, ok)
                                /\ ok <=> phase[v] = "release" /\ result[v]
        BY <1>7 DEF WentOn
    <2>2. /\ Answer(v, ok) = "none" /\ phase'[v] = "take" /\ task'[v] = task[v]
          /\ step'[v] = step[v] + 1 /\ read'[v] = read[v]
        BY <1>1, <2>1, GoesOn DEF Between
    <2>3. step[v] = 1
        BY <1>1, <2>2 DEF Between, Types
    <2>4. Statement(v) = "balance"
        BY <1>7, <2>2, <2>3, WhoMakes DEF WentOn
    <2>5. ok
        BY <2>2, <2>4 DEF Answer
    <2>6. Between(v)
        BY <2>1, <2>3, <2>5 DEF Between
    <2>7. QED
        BY <1>1, <1>7, <2>2, <2>6 DEF BalanceKnown, WentOn, tables
<1>8. QED
    BY <1>2, <1>3, <1>4, <1>5, <1>6, <1>7, Steps DEF Served

(* A statement adds the same to a balance nobody contends and to what was  *)
(* granted.                                                                *)
LEMMA BooksNext == IInv /\ BalanceKnown /\ BooksBalance /\ [Next]_vars => BooksBalance'
<1> SUFFICES ASSUME IInv, BalanceKnown, BooksBalance, [Next]_vars,
                    NEW c \in Character, c \notin contended'
             PROVE  gold'[c] = granted'[c]
    BY DEF BooksBalance
<1>1. c \notin contended /\ gold[c] = granted[c]
    BY Monotone DEF BooksBalance
<1>2. ASSUME NEW w \in Worker, phase[w] = "run", Effect(w)
      PROVE  gold'[c] = granted'[c]
    <2>1. ASSUME c \in Rows(w), Statement(w) = "write"
          PROVE  read[w] = gold[c]
        <3>1. task[w].kind = "modify" /\ step[w] = 2
            BY <1>2, <2>1, WhoMakes
        <3>2. c = task[w].who
            BY <2>1 DEF Rows
        <3>3. QED
            BY <1>1, <1>2, <3>1, <3>2 DEF BalanceKnown, Between
    <2>2. c \in Rows(w) => NewBalance(w, c) = granted[c] + task[w].amount
        BY <1>1, <2>1 DEF NewBalance
    <2>3. QED
        BY <1>1, <1>2, <2>2 DEF Effect, Credit
<1>3. CASE UNCHANGED tables
    BY <1>1, <1>3 DEF tables
<1>4. QED
    BY <1>2, <1>3, Steps, TablesChange

(* No amount is lost or added twice, for any number of threads, requests   *)
(* and outages, unless two requests were to change the same balance at     *)
(* once and one of them was /api/currency/modify.                          *)
THEOREM BooksAreBalanced == Spec => []BooksBalance
<1>1. Init => Apart /\ BalanceKnown /\ BooksBalance
    BY DEF Init, Apart, BalanceKnown, BooksBalance, Between
<1>2. IInv /\ Apart /\ BalanceKnown /\ BooksBalance /\ [Next]_vars
          => (Apart /\ BalanceKnown /\ BooksBalance)'
    BY ApartNext, BalanceKnownNext, BooksNext
<1>3. QED
    BY <1>1, <1>2, InitInv, NextInv, PTL DEF Spec

------------------------------------------------------------------------------
(* The shop.  Until two requests save the item at once only one of them    *)
(* can add a row, and what it read tells whether there is none.            *)
OneSaver ==
    ~unchecked => \A v, w \in Worker :
        v # w /\ phase[v] # "idle" /\ phase[w] # "idle" /\ task[v].kind = "shopSave"
            => task[w].kind # "shopSave"

ShopKnown ==
    ~unchecked => \A w \in Worker :
        task[w].kind = "shopSave" /\ Between(w) /\ read[w] = 0 => shop = 0

LEMMA OneSaverNext == IInv /\ OneSaver /\ [Next]_vars => OneSaver'
<1> SUFFICES ASSUME IInv, OneSaver, [Next]_vars, ~unchecked',
                    NEW u \in Worker, NEW v \in Worker, u # v,
                    phase'[u] # "idle", phase'[v] # "idle", task'[u].kind = "shopSave"
             PROVE  task'[v].kind # "shopSave"
    BY DEF OneSaver
<1>1. Types /\ ~unchecked
    BY TypesHold, Monotone
<1>2. ASSUME phase[u] # "idle", phase[v] # "idle", task'[u] = task[u], task'[v] = task[v]
      PROVE  task'[v].kind # "shopSave"
    BY <1>1, <1>2 DEF OneSaver
<1>3. ASSUME NEW w \in Worker, Start(w)
      PROVE  task'[v].kind # "shopSave"
    <2>1. PICK t \in Requests :
              /\ task' = [task EXCEPT ![w] = t]
              /\ unchecked' = (unchecked \/
                    \E x \in Others(w) : t.kind = "shopSave" /\ x.kind = "shopSave")
        BY <1>3 DEF Start
    <2>2. task'[w] = t /\ \A x \in Others(w) : ~(t.kind = "shopSave" /\ x.kind = "shopSave")
        BY <1>1, <2>1 DEF Types
    <2>3. \A x \in Worker \ {w} : phase'[x] # "idle" => task[x] \in Others(w) /\ task'[x] = task[x]
        BY <1>1, <1>3, Elsewhere DEF Others
    <2>4. CASE u = w \/ v = w
        BY <2>2, <2>3, <2>4
    <2>5. CASE u # w /\ v # w
        BY <1>1, <1>2, <1>3, <2>5, Elsewhere
    <2>6. QED
        BY <2>4, <2>5
<1>4. ASSUME NEW w \in Worker, Served(w), NEW x \in Worker, phase'[x] # "idle"
      PROVE  phase[x] # "idle" /\ task'[x] = task[x]
    BY <1>1, <1>4, ServedKeepsTask
<1>5. CASE UNCHANGED <<handler, tables, overlaps>>
    BY <1>2, <1>5 DEF handler
<1>6. QED
    BY <1>2, <1>3, <1>4, <1>5, Steps

LEMMA ShopKnownNext == IInv /\ OneSaver /\ ShopKnown /\ [Next]_vars => ShopKnown'
<1> SUFFICES ASSUME IInv, OneSaver, ShopKnown, [Next]_vars, ~unchecked',
                    NEW v \in Worker, task'[v].kind = "shopSave", Between(v)', read'[v] = 0
             PROVE  shop' = 0
    BY DEF ShopKnown
<1>1. Types /\ ~unchecked
    BY TypesHold, Monotone
<1>2. ASSUME NEW w \in Worker \ {v}, Start(w) \/ Served(w)
      PROVE  shop' = 0
    <2>1. /\ task'[v] = task[v] /\ step'[v] = step[v] /\ phase'[v] = phase[v]
          /\ read'[v] = read[v] /\ result'[v] = result[v]
        BY <1>1, <1>2, Elsewhere
    <2>2. Between(v) /\ task[v].kind = "shopSave" /\ phase[v] # "idle"
        BY <2>1 DEF Between
    <2>3. shop = 0
        BY <1>1, <2>1, <2>2 DEF ShopKnown
    <2>4. CASE phase[w] = "run" /\ Effect(w)
        <3>1. Statement(w) # "save"
            BY <1>1, <2>2, <2>4, WhoMakes DEF OneSaver
        <3>2. QED
            BY <2>3, <2>4, <3>1 DEF Effect
    <2>5. QED
        BY <1>2, <2>3, <2>4, TablesChange DEF tables
<1>3. CASE UNCHANGED <<handler, tables, overlaps>>
    BY <1>1, <1>3 DEF handler, tables, Between, ShopKnown
<1>4. CASE Start(v)
    <2>1. phase'[v] = "take" /\ step'[v] = 1
        BY <1>1, <1>4 DEF Start, IInv, TypeOK, HandlerType
    <2>2. QED
        BY <2>1 DEF Between
<1>5. CASE Took(v)
    <2>1. /\ phase[v] = "take" /\ phase'[v] = "run"
          /\ UNCHANGED <<task, step, read, shop>>
        BY <1>1, <1>5 DEF Took, Types, tables
    <2>2. Between(v)
        BY <2>1 DEF Between
    <2>3. QED
        BY <1>1, <2>1, <2>2 DEF ShopKnown
<1>6. CASE Ran(v)
    <2>1. phase[v] = "run" /\ phase'[v] = "release" /\ step'[v] = step[v] /\ task'[v] = task[v]
        BY <1>1, <1>6 DEF Ran, Types
    <2>2. step[v] = 1 /\ result'[v]
        BY <2>1 DEF Between
    <2>3. Effect(v) /\ read' = [read EXCEPT ![v] = Returned(v)]
        BY <1>1, <1>6, <2>2 DEF Ran, Types
    <2>4. Statement(v) = "lookup"
        BY <2>1, <2>2, WhoMakes
    <2>5. shop' = shop /\ read'[v] = shop
        BY <1>1, <2>3, <2>4 DEF Effect, Returned, Types
    <2>6. QED
        BY <2>5
<1>7. CASE WentOn(v)
    <2>1. PICK ok \in BOOLEAN : /\ Continue(v, ok)
                                /\ ok <=> phase[v] = "release" /\ result[v]
        BY <1>7 DEF WentOn
    <2>2. /\ Answer(v, ok) = "none" /\ phase'[v] = "take" /\ task'[v] = task[v]
          /\ step'[v] = step[v] + 1 /\ read'[v] = read[v]
        BY <1>1, <2>1, GoesOn DEF Between
    <2>3. step[v] = 1
        BY <1>1, <2>2 DEF Between, Types
    <2>4. Statement(v) = "lookup"
        BY <1>7, <2>2, <2>3, WhoMakes DEF WentOn
    <2>5. ok
        BY <2>1, <2>4 DEF Continue
    <2>6. Between(v)
        BY <2>1, <2>3, <2>5 DEF Between
    <2>7. QED
        BY <1>1, <1>7, <2>2, <2>6 DEF ShopKnown, WentOn, tables
<1>8. QED
    BY <1>2, <1>3, <1>4, <1>5, <1>6, <1>7, Steps DEF Served

(* A row is only added where the look-up found none, and none came since.  *)
LEMMA OneRowNext == IInv /\ ShopKnown /\ OneRowPerTemplate /\ [Next]_vars => OneRowPerTemplate'
<1> SUFFICES ASSUME IInv, ShopKnown, OneRowPerTemplate, [Next]_vars, ~unchecked'
             PROVE  ~(shop' > 1)
    BY DEF OneRowPerTemplate
<1>1. Types /\ ~unchecked
    BY TypesHold, Monotone
<1>2. shop \in {0, 1}
    BY <1>1 DEF OneRowPerTemplate, Types
<1>3. ASSUME NEW w \in Worker, phase[w] = "run", Effect(w)
      PROVE  shop' \in {0, 1}
    <2>1. Statement(w) = "save" /\ read[w] = 0 => shop = 0
        BY <1>1, <1>3, WhoMakes DEF ShopKnown, Between
    <2>2. shop' \in {shop, Saved(w), IF shop = 0 THEN 0 ELSE shop - 1}
          /\ (Statement(w) # "save" => shop' \in {shop, IF shop = 0 THEN 0 ELSE shop - 1})
        BY <1>3 DEF Effect
    <2>3. Statement(w) = "save" => Saved(w) \in {0, 1}
        BY <1>2, <2>1 DEF Saved
    <2>4. QED
        BY <1>2, <2>2, <2>3
<1>4. CASE UNCHANGED tables
    BY <1>2, <1>4 DEF tables
<1>5. QED
    BY <1>3, <1>4, Steps, TablesChange

(* /api/shop/item makes no second row for a template, for any number of    *)
(* threads and outages and whatever is deleted, until two requests save    *)
(* the item at once or the query for the row fails.                        *)
THEOREM OneRow == Spec => []OneRowPerTemplate
<1>1. Init => OneSaver /\ ShopKnown /\ OneRowPerTemplate
    BY DEF Init, OneSaver, ShopKnown, OneRowPerTemplate, Between
<1>2. IInv /\ OneSaver /\ ShopKnown /\ OneRowPerTemplate /\ [Next]_vars
          => (OneSaver /\ ShopKnown /\ OneRowPerTemplate)'
    BY OneSaverNext, ShopKnownNext, OneRowNext
<1>3. QED
    BY <1>1, <1>2, InitInv, NextInv, PTL DEF Spec

------------------------------------------------------------------------------
(* The answers.  A request makes its change with one of its statements: it *)
(* has not made it at the statements before that one, and what comes after *)
(* is the entry in a log.                                                  *)
Early == {"balance", "exists", "lookup", "wipeItems", "wipeVehicles", "wipeAccessories"}

Deciding(s) == s \notin Early \cup {"log"}

LEMMA StatementOrder ==
    \A k \in DOMAIN Statements :
        /\ Statements[k][1] = "log" => k = "broadcast"
        /\ Statements[k][Len(Statements[k])] \notin Early
        /\ \A i \in 1..Len(Statements[k]) : i + 1 \in 1..Len(Statements[k]) =>
              IF Statements[k][i + 1] = "log" THEN Deciding(Statements[k][i])
              ELSE Statements[k][i] \in Early
<1>1. SUFFICES ASSUME NEW k \in DOMAIN Statements
      PROVE  /\ Statements[k][1] = "log" => k = "broadcast"
             /\ Statements[k][Len(Statements[k])] \notin Early
             /\ \A i \in 1..Len(Statements[k]) : i + 1 \in 1..Len(Statements[k]) =>
                   IF Statements[k][i + 1] = "log" THEN Deciding(Statements[k][i])
                   ELSE Statements[k][i] \in Early
    OBVIOUS
<1> USE DEF Early, Deciding
<1>2. CASE k \in {"ban", "give"}
    BY <1>2, SMT DEF Statements, Ban, GiveBalance
<1>3. CASE k \in {"equip", "reset"}
    BY <1>3, SMT DEF Statements, GiveBelonging, ResetStats
<1>4. CASE k \in {"broadcast", "mission"}
    BY <1>4, SMT DEF Statements, Broadcast, CreateMission
<1>5. CASE k \in {"invalidate", "toggle"}
    BY <1>5, SMT DEF Statements, Invalidate, ToggleMap
<1>6. CASE k \in {"shopUpdate", "gacha", "shopDelete"}
    BY <1>6, SMT DEF Statements, UpdateShopItem, CreateGacha, DeleteShopItem
<1>7. CASE k = "setGM"
    BY <1>7, SMT DEF Statements, SetGM
<1>8. CASE k = "deliver"
    BY <1>8, SMT DEF Statements, SendVehicle
<1>9. CASE k = "shopSave"
    BY <1>9, SMT DEF Statements, SaveShopItem
<1>10. CASE k = "event"
    BY <1>10, SMT DEF Statements, GiveEveryone
<1>11. CASE k = "modify"
    BY <1>11, SMT DEF Statements, ModifyBalance
<1>12. CASE k = "send"
    BY <1>12, SMT DEF Statements, SendItem
<1>13. CASE k = "delete"
    BY <1>13, SMT DEF Statements, DeleteAll
<1>14. QED
    BY <1>2, <1>3, <1>4, <1>5, <1>6, <1>7, <1>8, <1>9,
       <1>10, <1>11, <1>12, <1>13, Zenon DEF Statements

(* What was made of a worker's request, by the statement it is at.         *)
MadeAt(w) ==
    /\ Statement(w) \in Early => ~made[w]
    /\ Statement(w) = "log" => made[w] \/ Vanished(w) \/ task[w].kind = "broadcast"
    /\ Deciding(Statement(w)) =>
          /\ phase[w] # "release" => ~made[w]
          /\ phase[w] = "release" /\ result[w] => made[w] \/ Vanished(w)
          /\ phase[w] = "release" /\ ~result[w] => ~made[w] \/ outages > 0

Told == \A w \in Worker : IF phase[w] = "idle" THEN ~made[w] ELSE MadeAt(w)

(* A statement that did what the handler wants of it has made the change,  *)
(* or the row to change is gone.                                           *)
LEMMA SucceedsMakes ==
    ASSUME IInv, NEW w \in Worker, phase[w] = "run", Deciding(Statement(w)),
           Succeeds(w), ~Makes(w)
    PROVE  Vanished(w)
<1>1. Statement(w) \notin Ignored \cup {"balance", "exists"}
    BY DEF Deciding, Early, Ignored
<1>2. task[w].who \in Character
    BY Serving DEF IInv, TypeOK
<1>3. CASE Statement(w) \in {"add", "write", "addAll"} /\ Rows(w) = {}
    BY <1>2, <1>3 DEF Rows, Vanished
<1>4. CASE Statement(w) = "save" /\ read[w] # 0
    BY <1>4, WhoMakes DEF Vanished
<1>5. QED
    BY <1>1, <1>3, <1>4 DEF Makes

(* Statement by statement: a worker that runs one.                         *)
LEMMA RanTold ==
    ASSUME IInv, NEW w \in Worker, MadeAt(w), Ran(w), alive' \subseteq alive
    PROVE  MadeAt(w)'
<1>1. /\ Types /\ phase[w] = "run" /\ phase'[w] = "release"
      /\ task' = task /\ step' = step
    BY TypesHold DEF Ran, Types
<1>2. Statement(w)' = Statement(w)
    BY <1>1 DEF Statement
<1>3. /\ Deciding(Statement(w)) => ~made[w]
      /\ Statement(w) \in Early => ~made[w]
      /\ Statement(w) = "log" => made[w] \/ Vanished(w) \/ task[w].kind = "broadcast"
    BY <1>1 DEF MadeAt
<1>4. ~Deciding(Statement(w)) => ~Makes(w)
    BY DEF Deciding, Early, Ignored, Makes
<1>5. Statement(w) # "lookup" => read'[w] = read[w] \/ task[w].kind = "modify"
    BY <1>1, WhoMakes DEF Ran, Types, Returned
<1>6. Statement(w) # "lookup" /\ Vanished(w) => Vanished(w)'
    BY <1>1, <1>5 DEF Vanished
<1>7. CASE Statement(w) \in Early
    <2>1. ~made'[w] /\ ~Deciding(Statement(w)) /\ Statement(w) # "log"
        BY <1>1, <1>3, <1>4, <1>7 DEF Ran, Types, Deciding, Early
    <2>2. QED
        BY <1>2, <2>1 DEF MadeAt
<1>8. CASE Statement(w) = "log"
    <2>1. made[w] => made'[w]
        BY <1>1 DEF Ran, Types
    <2>2. made'[w] \/ Vanished(w)' \/ task'[w].kind = "broadcast"
        BY <1>1, <1>3, <1>6, <1>8, <2>1
    <2>3. ~Deciding(Statement(w)) /\ Statement(w) \notin Early
        BY <1>8 DEF Deciding, Early
    <2>4. QED
        BY <1>2, <2>2, <2>3 DEF MadeAt
<1>9. CASE Deciding(Statement(w))
    <2>1. Statement(w) \notin Early \cup {"log"} /\ Statement(w) # "lookup"
        BY <1>9 DEF Deciding, Early
    <2>2. ASSUME result'[w] PROVE made'[w] \/ Vanished(w)'
        <3>1. Succeeds(w) /\ made'[w] = (made[w] \/ Makes(w))
            BY <1>1, <2>2 DEF Ran, Types
        <3>2. QED
            BY <1>1, <1>6, <1>9, <2>1, <3>1, SucceedsMakes
    <2>3. ASSUME ~result'[w] PROVE ~made'[w] \/ outages' > 0
        <3>1. \/ ~Succeeds(w) /\ made'[w] = (made[w] \/ Makes(w))
              \/ outages' > 0
              \/ made' = made
            BY <1>1, <2>3 DEF Ran, Types
        <3>2. QED
            BY <1>3, <1>9, <3>1 DEF Makes
    <2>4. QED
        BY <1>1, <1>2, <2>1, <2>2, <2>3 DEF MadeAt
<1>10. QED
    BY <1>7, <1>8, <1>9 DEF Deciding

(* A worker that goes on to its next statement. *)
LEMMA WentOnTold ==
    ASSUME IInv, NEW w \in Worker, MadeAt(w), WentOn(w), phase'[w] # "idle",
           HandlerType', alive' = alive
    PROVE  MadeAt(w)'
<1>1. Types
    BY TypesHold
<1>2. PICK ok \in BOOLEAN : Continue(w, ok) /\ (ok <=> phase[w] = "release" /\ result[w])
    BY DEF WentOn
<1>3. /\ Answer(w, ok) = "none" /\ phase'[w] = "take" /\ task'[w] = task[w]
      /\ step'[w] = step[w] + 1 /\ read'[w] = read[w] /\ made'[w] = made[w]
    BY <1>1, <1>2, GoesOn
<1> DEFINE k == task[w].kind
           i == step[w]
<1>4. /\ k \in DOMAIN Statements /\ i \in 1..Len(Statements[k])
      /\ i + 1 \in 1..Len(Statements[k])
    <2>1. phase[w] # "idle"
        BY DEF WentOn
    <2>2. k \in DOMAIN Statements /\ i \in 1..Len(Statements[k])
        BY <2>1, Serving DEF IInv, TypeOK
    <2>3. i + 1 <= Len(Statements[k])
        BY <1>3 DEF HandlerType
    <2>4. Len(Statements[k]) \in 1..4
        BY <2>2, StatementFacts
    <2>5. QED
        <3> HIDE DEF k, i
        <3>1. QED
            BY <2>2, <2>3, <2>4
<1>5. Statement(w) = Statements[k][i] /\ Statement(w)' = Statements[k][i + 1]
    BY <1>3 DEF Statement
<1>6. IF Statement(w)' = "log" THEN Deciding(Statement(w)) ELSE Statement(w) \in Early
    BY <1>4, <1>5, StatementOrder
<1>7. CASE Statement(w)' = "log"
    <2>1. ok
        BY <1>3, <1>6, <1>7 DEF Answer, Deciding, Early, Ignored
    <2>2. made[w] \/ Vanished(w)
        BY <1>2, <1>6, <1>7, <2>1 DEF MadeAt
    <2>3. made'[w] \/ Vanished(w)'
        BY <1>3, <2>2 DEF Vanished
    <2>4. QED
        BY <1>7, <2>3 DEF MadeAt, Deciding, Early
<1>8. CASE Statement(w)' # "log"
    <2>1. ~made'[w]
        BY <1>3, <1>6, <1>8 DEF MadeAt
    <2>2. QED
        BY <1>3, <1>8, <2>1 DEF MadeAt
<1>9. QED
    BY <1>7, <1>8

LEMMA ToldNext == IInv /\ Told /\ [Next]_vars => Told'
<1> SUFFICES ASSUME IInv, Told, [Next]_vars, NEW v \in Worker
             PROVE  (IF phase[v] = "idle" THEN ~made[v] ELSE MadeAt(v))'
    BY DEF Told
<1>1. /\ Types /\ HandlerType' /\ alive' \subseteq alive
      /\ outages > 0 => outages' > 0
    <2>1. IInv'
        BY NextInv
    <2>2. QED
        BY <2>1, TypesHold, Monotone DEF IInv, TypeOK
<1>2. IF phase[v] = "idle" THEN ~made[v] ELSE MadeAt(v)
    BY DEF Told
<1>3. ASSUME /\ task'[v] = task[v] /\ step'[v] = step[v] /\ phase'[v] = phase[v]
             /\ read'[v] = read[v] /\ result'[v] = result[v] /\ made'[v] = made[v]
      PROVE  (IF phase[v] = "idle" THEN ~made[v] ELSE MadeAt(v))'
    <2>1. Statement(v)' = Statement(v)
        BY <1>3 DEF Statement
    <2>2. Vanished(v) => Vanished(v)'
        BY <1>1, <1>3 DEF Vanished
    <2>3. QED
        BY <1>1, <1>2, <1>3, <2>1, <2>2 DEF MadeAt
<1>4. ASSUME NEW w \in Worker \ {v}, Start(w) \/ Served(w)
      PROVE  (IF phase[v] = "idle" THEN ~made[v] ELSE MadeAt(v))'
    BY <1>1, <1>3, <1>4, Elsewhere
<1>5. CASE UNCHANGED <<handler, tables, overlaps>>
    BY <1>3, <1>5 DEF handler
<1>6. CASE Start(v)
    <2>1. phase[v] = "idle" /\ step[v] = 1 /\ phase'[v] = "take"
          /\ step'[v] = 1 /\ made'[v] = made[v]
        BY <1>1, <1>6 DEF Start, Types, IInv, TypeOK, HandlerType
    <2>2. PICK t \in Requests : task' = [task EXCEPT ![v] = t]
        BY <1>6 DEF Start
    <2>3. task'[v].kind \in DOMAIN Statements
        <3>1. UNION Mixes \subseteq DOMAIN Statements
            BY AdminAssumption
        <3>2. QED
            BY <1>1, <2>2, <3>1 DEF Types, Requests, Task
    <2>4. Statement(v)' = "log" => task'[v].kind = "broadcast"
        BY <2>1, <2>3, StatementOrder DEF Statement
    <2>5. QED
        BY <1>2, <2>1, <2>4 DEF MadeAt
<1>7. CASE Took(v)
    <2>1. /\ phase[v] = "take" /\ phase'[v] = "run"
          /\ UNCHANGED <<task, step, read, made, alive>>
        BY <1>1, <1>7 DEF Took, Types, tables
    <2>2. Statement(v)' = Statement(v) /\ (Vanished(v) => Vanished(v)')
        BY <2>1 DEF Statement, Vanished
    <2>3. QED
        BY <1>2, <2>1, <2>2 DEF MadeAt
<1>8. CASE Ran(v)
    <2>1. phase[v] = "run" /\ phase'[v] = "release"
        BY <1>1, <1>8 DEF Ran, Types
    <2>2. QED
        BY <1>1, <1>2, <1>8, <2>1, RanTold
<1>9. CASE WentOn(v)
    <2>1. phase[v] # "idle" /\ alive' = alive
        BY <1>9 DEF WentOn, tables
    <2>2. CASE phase'[v] = "idle"
        <3>1. PICK ok \in BOOLEAN : Continue(v, ok)
            BY <1>9 DEF WentOn
        <3>2. ~made'[v]
            BY <1>1, <2>2, <3>1, GoesOn
        <3>3. QED
            BY <2>2, <3>2
    <2>3. CASE phase'[v] # "idle"
        BY <1>1, <1>2, <1>9, <2>1, <2>3, WentOnTold
    <2>4. QED
        BY <2>2, <2>3
<1>10. QED
    BY <1>4, <1>5, <1>6, <1>7, <1>8, <1>9, Steps DEF Served

(* The answer of a worker that still serves its request is not given. *)
Unanswered == \A w \in Worker : phase[w] # "idle" => answer[w] = "none"

LEMMA UnansweredNext == IInv /\ Unanswered /\ [Next]_vars => Unanswered'
<1> SUFFICES ASSUME IInv, Unanswered, [Next]_vars, NEW v \in Worker, phase'[v] # "idle"
             PROVE  answer'[v] = "none"
    BY DEF Unanswered
<1>1. Types
    BY TypesHold
<1>2. ASSUME NEW w \in Worker \ {v}, Start(w) \/ Served(w)
      PROVE  answer'[v] = "none"
    BY <1>1, <1>2, Elsewhere DEF Unanswered
<1>3. CASE Start(v)
    BY <1>1, <1>3 DEF Start, Types
<1>4. CASE Took(v) \/ Ran(v)
    <2>1. phase[v] # "idle" /\ answer' = answer
        BY <1>4 DEF Took, Ran
    <2>2. QED
        BY <2>1 DEF Unanswered
<1>5. CASE WentOn(v)
    BY <1>1, <1>5 DEF WentOn, Continue, Types
<1>6. CASE UNCHANGED <<handler, tables, overlaps>>
    BY <1>6 DEF handler, Unanswered
<1>7. QED
    BY <1>2, <1>3, <1>4, <1>5, <1>6, Steps DEF Served

(* What the administrator is told is what happened, for any number of      *)
(* threads, connections and requests and any outages: "done" that the      *)
(* change was made or its row deleted meanwhile, "error" that it was not   *)
(* unless a reply was lost, and otherwise that nothing was changed.        *)
THEOREM ToldWhatHappened == Spec => HonestAnswers
<1> DEFINE AInv == IInv /\ Told /\ Unanswered
           Honest == \A w \in Worker : phase[w] # "idle" =>
               /\ answer'[w] = "done" =>
                     made[w] \/ Vanished(w) \/ task[w].kind = "broadcast"
               /\ answer'[w] \in {"missing", "refused"} => ~made[w]
               /\ answer'[w] = "error" => ~made[w] \/ outages > 0
<1>1. Init => AInv
    BY InitInv DEF Init, Told, Unanswered
<1>2. AInv /\ [Next]_vars => AInv'
    BY NextInv, ToldNext, UnansweredNext
<1>3. AInv /\ [Next]_vars => [Honest]_vars
    <2> SUFFICES ASSUME AInv, Next, NEW w \in Worker, phase[w] # "idle", answer'[w] # "none"
                 PROVE  /\ answer'[w] = "done" =>
                              made[w] \/ Vanished(w) \/ task[w].kind = "broadcast"
                        /\ answer'[w] \in {"missing", "refused"} => ~made[w]
                        /\ answer'[w] = "error" => ~made[w] \/ outages > 0
        BY DEF Honest
    <2>1. Types /\ answer[w] = "none" /\ MadeAt(w)
        BY TypesHold DEF Unanswered, Told
    <2>2. WentOn(w)
        <3>1. ~Start(w)
            BY <2>1 DEF Start
        <3>2. ~Took(w) /\ ~Ran(w)
            BY <2>1 DEF Took, Ran
        <3>3. ASSUME NEW v \in Worker \ {w}, Start(v) \/ Served(v)
              PROVE  FALSE
            BY <2>1, <3>3, Elsewhere
        <3>4. ~UNCHANGED <<handler, tables, overlaps>>
            BY <2>1 DEF handler
        <3>5. QED
            BY <3>1, <3>2, <3>3, <3>4, Steps DEF Served
    <2>3. PICK ok \in BOOLEAN : /\ Continue(w, ok)
                                /\ ok <=> phase[w] = "release" /\ result[w]
        BY <2>2 DEF WentOn
    <2>4. answer'[w] = Answer(w, ok)
        BY <2>1, <2>3 DEF Continue, Types
    <2>5. CASE answer'[w] = "done"
        <3>1. step[w] = Len(Statements[task[w].kind])
            BY <2>4, <2>5 DEF Answer
        <3>2. Statement(w) \notin Early
            BY <3>1, Serving, StatementOrder DEF Statement, IInv, TypeOK
        <3>3. CASE Statement(w) = "log"
            BY <2>1, <2>5, <3>3 DEF MadeAt
        <3>4. CASE Deciding(Statement(w))
            <4>1. ok
                BY <2>4, <2>5, <3>4 DEF Answer, Deciding, Early, Ignored
            <4>2. QED
                BY <2>1, <2>3, <2>5, <3>4, <4>1 DEF MadeAt
        <3>5. QED
            BY <2>5, <3>2, <3>3, <3>4 DEF Deciding
    <2>6. CASE answer'[w] \in {"missing", "refused"}
        <3>1. Statement(w) \in {"balance", "exists"}
            BY <2>4, <2>6 DEF Answer, Overdrawn
        <3>2. QED
            BY <2>1, <2>6, <3>1 DEF MadeAt, Early
    <2>7. CASE answer'[w] = "error"
        <3>1. ~ok /\ Deciding(Statement(w))
            BY <2>4, <2>7 DEF Answer, Deciding, Early, Ignored
        <3>2. phase[w] # "release" \/ ~result[w]
            BY <2>3, <3>1
        <3>3. QED
            BY <2>1, <2>7, <3>1, <3>2 DEF MadeAt
    <2>8. QED
        BY <2>5, <2>6, <2>7, <2>4 DEF Answer
<1>4. QED
    BY <1>1, <1>2, <1>3, PTL DEF Spec, HonestAnswers

------------------------------------------------------------------------------
(* What healing rests on.                                                  *)

(* A connection out of the pool works, or was replaced by one that does,   *)
(* and what the others hold changes only when the database goes down.      *)
THEOREM PoolHandsOutGood == Spec => HandsOutGood
<1>1. ASSUME IInv, [Next]_vars, db = "up", db' = "up", NEW w \in Worker, conn'[w] = "dead"
      PROVE  conn[w] = "dead"
    <2>1. conn \in [Worker -> {"good", "dead", "none"}] /\ pool \in Seq({"good", "dead"})
        BY <1>1 DEF IInv, TypeOK, PoolType
    <2>2. ASSUME NEW v \in Worker, Take(v) PROVE conn[w] = "dead"
        <3>1. pool # <<>> /\ Head(pool) \in {"good", "dead"}
            BY <2>1, <2>2 DEF Take
        <3>2. conn' = [conn EXCEPT ![v] = "good"]
            BY <1>1, <2>2, <3>1 DEF Take, Reconnected
        <3> QED BY <1>1, <2>1, <3>2
    <2>3. ASSUME NEW v \in Worker, Release(v) PROVE conn[w] = "dead"
        <3>1. conn' = [conn EXCEPT ![v] = "none"]
            BY <2>3 DEF Release
        <3> QED BY <1>1, <2>1, <3>1
    <2>4. ASSUME NEW v \in Worker, Start(v) \/ Starve(v) \/ Run(v) \/ Fail(v) PROVE conn[w] = "dead"
        BY <1>1, <2>4 DEF Start, Starve, Run, Fail
    <2>5. ~GoesDown
        BY <1>1 DEF GoesDown
    <2>6. CASE UNCHANGED vars
        BY <1>1, <2>6 DEF vars
    <2> QED BY <1>1, <2>2, <2>3, <2>4, <2>5, <2>6 DEF Next, Serve, Lose, Down, Up
<1>2. IInv /\ [Next]_vars =>
        [db = "up" /\ db' = "up" => \A w \in Worker : conn'[w] = "dead" => conn[w] = "dead"]_vars
    BY <1>1
<1>3. Spec => []IInv
    BY InitInv, NextInv, PTL DEF Spec
<1> QED BY <1>2, <1>3, PTL DEF Spec, HandsOutGood
=============================================================================
