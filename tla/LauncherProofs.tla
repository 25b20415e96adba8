--------------------------- MODULE LauncherProofs ---------------------------
(***************************************************************************)
(* Proofs about Launcher, for any paths and any number of attempts and     *)
(* logins: the type invariant, that the button keeps logins apart, and     *)
(* that the client is started with the credentials of one login.           *)
(***************************************************************************)
EXTENDS Launcher, TLAPS

Message == [what: {"refused", "success", "garbled", "failed", "close"}, login: Login]

Result(m) == m.what \in {"refused", "success", "garbled"}

(* A result in the queue is the only one of its login, whose thread has    *)
(* posted it; an acceptance has been received, a start has failed.         *)
QueueInv ==
    /\ \A i \in 1..Len(queue) :
          /\ Result(queue[i]) => step[queue[i].login] = "posted"
          /\ queue[i].what = "success" => answer[queue[i].login] # "none"
          /\ queue[i].what = "failed" => failed
    /\ \A i, j \in 1..Len(queue) :
          Result(queue[i]) /\ Result(queue[j]) /\ queue[i].login = queue[j].login => i = j

(* A login goes through its stages one after the other.                    *)
StageInv ==
    \A n \in Login :
        /\ step[n] \in {"none", "connecting", "receiving"} => answer[n] = "none"
        /\ step[n] = "naming" => answer[n] # "none"
        /\ n \in timers => step[n] = "over" /\ start[n] = "none" /\ answer[n] # "none"
        /\ start[n] # "none" => step[n] = "over" /\ answer[n] # "none"

-----------------------------------------------------------------------------
(* The steps, by what they do to the logins, the starts and the queue.     *)

Kept == UNCHANGED <<button, pressed, eager, unshown>>

(* A login thread goes on receiving. *)
Progress(n) ==
    /\ step[n] \in {"connecting", "receiving"} /\ step' = [step EXCEPT ![n] = "receiving"]
    /\ UNCHANGED <<answer, timers, starts, queue, shared>> /\ Kept

(* It gives up. *)
Refusal(n) ==
    /\ step[n] \in {"connecting", "receiving"} /\ step' = [step EXCEPT ![n] = "posted"]
    /\ \E what \in {"refused", "garbled"} : Post(what, n)
    /\ UNCHANGED <<answer, timers, starts, shared>> /\ Kept

(* It has received an acceptance without a token, with one. *)
Bare(n) ==
    /\ step[n] = "receiving" /\ step' = [step EXCEPT ![n] = "posted"]
    /\ answer' = [answer EXCEPT ![n] = "bare"]
    /\ Post("success", n)
    /\ UNCHANGED <<timers, starts, shared>> /\ Kept

Token(n, part) ==
    /\ step[n] = "receiving" /\ step' = [step EXCEPT ![n] = "naming"]
    /\ part \in {"whole", "cut"} /\ answer' = [answer EXCEPT ![n] = part]
    /\ token' = IF part = "whole" THEN n ELSE -n
    /\ UNCHANGED <<timers, starts, queue, username>> /\ Kept

Name(n) ==
    /\ step[n] = "naming" /\ step' = [step EXCEPT ![n] = "posted"]
    /\ username' = n
    /\ \E what \in {"success", "garbled"} : Post(what, n)
    /\ UNCHANGED <<answer, timers, starts, token>> /\ Kept

ShowHead == queue # <<>> /\ Head(queue).what # "close" /\ Show(Head(queue))

LEMMA StepKinds ==
    ASSUME TypeOK, [Next]_vars
    PROVE  \/ \E remember \in BOOLEAN : Press(remember)
           \/ \E n \in Login : \/ Progress(n) \/ Refusal(n) \/ Bare(n) \/ Name(n)
                               \/ \E part \in {"whole", "cut"} : Token(n, part)
           \/ \E n \in Login : Fire(n) \/ ReadName(n) \/ StartGame(n)
           \/ ShowHead
           \/ End
           \/ UNCHANGED process
<1>1. ASSUME NEW n \in Login, Connect(n) PROVE Progress(n) \/ Refusal(n)
    BY <1>1 DEF Connect, At, Progress, Refusal, Kept, page
<1>2. ASSUME NEW n \in Login, ReceiveRefusal(n) PROVE Refusal(n)
    BY <1>2 DEF ReceiveRefusal, Refused, Shown, At, Refusal, Kept, page
<1>3. ASSUME NEW n \in Login, ReceiveJunk(n) PROVE Progress(n) \/ Refusal(n)
    <2>1. CASE GoesOn(attempts[n] + 1)
        <3>1. step[n] = "receiving" /\ step' = step
            BY <1>3, <2>1 DEF ReceiveJunk, At
        <3>2. step' = [step EXCEPT ![n] = "receiving"]
            BY <3>1 DEF TypeOK
        <3> QED BY <1>3, <2>1, <3>1, <3>2 DEF ReceiveJunk, Progress, Kept, page
    <2>2. CASE ~GoesOn(attempts[n] + 1)
        BY <1>3, <2>2 DEF ReceiveJunk, Refused, At, Refusal, Kept, page
    <2> QED BY <2>1, <2>2
<1>4. ASSUME NEW n \in Login, ReceiveAcceptance(n)
      PROVE  Bare(n) \/ \E part \in {"whole", "cut"} : Token(n, part)
    <2>1. PICK part \in {"whole", "cut", "bare"} :
            /\ answer' = [answer EXCEPT ![n] = part]
            /\ IF part = "bare"
               THEN step' = [step EXCEPT ![n] = "posted"] /\ Post("success", n) /\ UNCHANGED token
               ELSE /\ step' = [step EXCEPT ![n] = "naming"]
                    /\ token' = IF part = "whole" THEN n ELSE -n
                    /\ UNCHANGED queue
        BY <1>4 DEF ReceiveAcceptance
    <2>2. step[n] = "receiving" /\ UNCHANGED <<timers, starts, username>> /\ Kept
        BY <1>4 DEF ReceiveAcceptance, At, Kept, page
    <2>3. CASE part = "bare"
        BY <2>1, <2>2, <2>3 DEF Bare, shared
    <2>4. CASE part \in {"whole", "cut"}
        BY <2>1, <2>2, <2>4 DEF Token
    <2> QED BY <2>3, <2>4
<1>5. ASSUME NEW n \in Login, StoreName(n) PROVE Name(n)
    BY <1>5 DEF StoreName, StoredName, Shown, At, Name, Kept, page
<1>6. CASE Dispatch
    BY <1>6 DEF Dispatch, ShowHead
<1>7. CASE Quit \/ Crash
    BY <1>7 DEF Quit, Crash
<1>8. CASE Restart
    BY <1>8 DEF Restart
<1>9. CASE UNCHANGED vars
    BY <1>9 DEF vars
<1> QED BY <1>1, <1>2, <1>3, <1>4, <1>5, <1>6, <1>7, <1>8, <1>9
        DEF Next, LoginThread, StartThread

-----------------------------------------------------------------------------
(* The queue.                                                              *)

LEMMA PostAt ==
    ASSUME queue \in Seq(Message), NEW w \in {"refused", "success", "garbled", "failed", "close"},
           NEW n \in Login, Post(w, n)
    PROVE  /\ queue' \in Seq(Message)
           /\ Len(queue) \in Nat /\ Len(queue') = Len(queue) + 1
           /\ \A i \in 1..Len(queue) : queue'[i] = queue[i]
           /\ queue'[Len(queue) + 1] = [what |-> w, login |-> n]
<1> DEFINE m == [what |-> w, login |-> n]
<1>1. m \in Message
    BY DEF Message
<1>2. queue' = Append(queue, m)
    BY DEF Post
<1> HIDE DEF m
<1>3. /\ queue' \in Seq(Message)
      /\ Len(queue) \in Nat /\ Len(queue') = Len(queue) + 1
      /\ \A i \in 1..Len(queue) : queue'[i] = queue[i]
      /\ queue'[Len(queue) + 1] = m
    BY <1>1, <1>2
<1> QED BY <1>3 DEF m

LEMMA TakenAt ==
    ASSUME queue \in Seq(Message), queue # <<>>, queue' = Tail(queue)
    PROVE  /\ queue' \in Seq(Message) /\ Head(queue) = queue[1] /\ Head(queue) \in Message
           /\ Len(queue) \in Nat /\ Len(queue) > 0 /\ Len(queue') = Len(queue) - 1
           /\ \A i \in 1..Len(queue') : queue'[i] = queue[i + 1]
OBVIOUS

LEMMA QueueTyped ==
    ASSUME TypeOK
    PROVE  queue \in Seq(Message) /\ \A i \in 1..Len(queue) : queue[i] \in Message
<1>1. queue \in Seq(Message)
    BY DEF TypeOK, Message
<1> QED BY <1>1

(* Posting a message keeps the order of the queue if the message is no     *)
(* result, or that of a login that had none.                               *)
LEMMA PostKeeps ==
    ASSUME TypeOK, QueueInv, NEW n \in Login,
           NEW w \in {"refused", "success", "garbled", "failed", "close"}, Post(w, n),
           \A d \in Login : d # n => step'[d] = step[d] /\ answer'[d] = answer[d],
           \A i \in 1..Len(queue) : Result(queue[i]) => queue[i].login # n,
           w \in {"refused", "success", "garbled"} => step'[n] = "posted",
           w = "success" => answer'[n] # "none",
           w = "failed" => failed',
           failed => failed'
    PROVE  QueueInv'
<1>1. /\ Len(queue) \in Nat /\ Len(queue') = Len(queue) + 1
      /\ \A i \in 1..Len(queue) : queue'[i] = queue[i] /\ queue[i] \in Message
      /\ queue'[Len(queue) + 1] = [what |-> w, login |-> n]
    BY PostAt, QueueTyped
<1>2. \A i \in 1..Len(queue') : i \in 1..Len(queue) \/ i = Len(queue) + 1
    BY <1>1
<1>3. ASSUME NEW i \in 1..Len(queue')
      PROVE  /\ Result(queue'[i]) => step'[queue'[i].login] = "posted"
             /\ queue'[i].what = "success" => answer'[queue'[i].login] # "none"
             /\ queue'[i].what = "failed" => failed'
    <2>1. CASE i \in 1..Len(queue)
        <3>1. queue'[i] = queue[i] /\ queue[i].login \in Login
            BY <1>1, <2>1 DEF Message
        <3> QED BY <2>1, <3>1 DEF QueueInv, Result
    <2>2. CASE i = Len(queue) + 1
        BY <1>1, <2>2 DEF Result
    <2> QED BY <1>2, <2>1, <2>2
<1>4. ASSUME NEW i \in 1..Len(queue'), NEW j \in 1..Len(queue'),
             Result(queue'[i]), Result(queue'[j]), queue'[i].login = queue'[j].login
      PROVE  i = j
    <2>1. CASE i \in 1..Len(queue) /\ j \in 1..Len(queue)
        BY <1>1, <1>4, <2>1 DEF QueueInv
    <2>2. CASE i = Len(queue) + 1 /\ j \in 1..Len(queue)
        BY <1>1, <1>4, <2>2
    <2>3. CASE i \in 1..Len(queue) /\ j = Len(queue) + 1
        BY <1>1, <1>4, <2>3
    <2> QED BY <1>2, <2>1, <2>2, <2>3
<1> QED BY <1>3, <1>4 DEF QueueInv, Result

LEMMA QueueStep ==
    ASSUME TypeOK, QueueInv, StageInv, [Next]_vars
    PROVE  QueueInv'
<1>0. /\ step \in [Login -> {"none", "connecting", "receiving", "naming", "posted", "over"}]
      /\ answer \in [Login -> {"none", "whole", "cut", "bare"}]
      /\ pressed \in 0..MaxLogins /\ \A n \in Login : step[n] # "none" <=> n <= pressed
      /\ \A i \in 1..Len(queue) : queue[i].login \in Login
    BY QueueTyped DEF TypeOK, Message
<1>a. ASSUME NEW n \in Login, step[n] # "posted"
      PROVE  \A i \in 1..Len(queue) : Result(queue[i]) => queue[i].login # n
    BY <1>a DEF QueueInv
<1>b. ASSUME queue' = queue, failed' = failed,
             \A n \in Login : step[n] = "posted" => step'[n] = "posted" /\ answer'[n] = answer[n]
      PROVE  QueueInv'
    BY <1>0, <1>b DEF QueueInv, Result
<1>1. ASSUME NEW remember \in BOOLEAN, Press(remember) PROVE QueueInv'
    <2>1. /\ queue' = queue /\ failed' = failed /\ answer' = answer /\ pressed + 1 \in Login
          /\ step' = [step EXCEPT ![pressed + 1] = "connecting"]
        BY <1>0, <1>1, LauncherAssumption DEF Press, starts, Login
    <2>2. step[pressed + 1] = "none"
        BY <1>0, <2>1
    <2> QED BY <1>0, <1>b, <2>1, <2>2
<1>2. ASSUME NEW n \in Login, Progress(n) PROVE QueueInv'
    BY <1>0, <1>2, <1>b DEF Progress, starts
<1>3. ASSUME NEW n \in Login, Refusal(n) PROVE QueueInv'
    <2>1. /\ \A d \in Login : d # n => step'[d] = step[d] /\ answer'[d] = answer[d]
          /\ step'[n] = "posted" /\ step[n] # "posted" /\ failed' = failed
          /\ Post("refused", n) \/ Post("garbled", n)
        BY <1>0, <1>3 DEF Refusal, starts
    <2> QED BY <1>a, <2>1, PostKeeps
<1>4. ASSUME NEW n \in Login, Bare(n) PROVE QueueInv'
    <2>1. /\ \A d \in Login : d # n => step'[d] = step[d] /\ answer'[d] = answer[d]
          /\ step'[n] = "posted" /\ step[n] # "posted" /\ answer'[n] = "bare"
          /\ failed' = failed /\ Post("success", n)
        BY <1>0, <1>4 DEF Bare, starts
    <2> QED BY <1>a, <2>1, PostKeeps
<1>5. ASSUME NEW n \in Login, Name(n) PROVE QueueInv'
    <2>1. /\ \A d \in Login : d # n => step'[d] = step[d] /\ answer'[d] = answer[d]
          /\ step'[n] = "posted" /\ step[n] # "posted" /\ answer'[n] # "none"
          /\ failed' = failed /\ (Post("success", n) \/ Post("garbled", n))
        BY <1>0, <1>5 DEF Name, starts, StageInv
    <2> QED BY <1>a, <2>1, PostKeeps
<1>6. ASSUME NEW n \in Login, NEW part \in {"whole", "cut"}, Token(n, part) PROVE QueueInv'
    BY <1>0, <1>6, <1>b DEF Token, starts
<1>7. ASSUME NEW n \in Login, Fire(n) \/ ReadName(n) PROVE QueueInv'
    BY <1>7, <1>b DEF Fire, ReadName, logins
<1>8. ASSUME NEW n \in Login, StartGame(n) PROVE QueueInv'
    <2>1. /\ step' = step /\ answer' = [answer EXCEPT ![n] = "none"]
          /\ \/ Post("close", n) /\ failed' = failed
             \/ Post("failed", n) /\ failed' = TRUE
        BY <1>8 DEF StartGame
    <2>2. step[n] # "posted"
        BY <1>8 DEF StartGame, StageInv
    <2>3. \A d \in Login : d # n => step'[d] = step[d] /\ answer'[d] = answer[d]
        BY <1>0, <2>1
    <2>4. \A i \in 1..Len(queue) : Result(queue[i]) => queue[i].login # n
        BY <1>a, <2>2
    <2>5. CASE Post("close", n) /\ failed' = failed
        BY <2>3, <2>4, <2>5, PostKeeps
    <2>6. CASE Post("failed", n) /\ failed' = TRUE
        BY <2>3, <2>4, <2>6, PostKeeps
    <2> QED BY <2>1, <2>5, <2>6
<1>9. CASE ShowHead
    <2>1. /\ Head(queue) = queue[1] /\ Head(queue) \in Message /\ Len(queue) \in Nat /\ Len(queue) > 0
          /\ Len(queue') = Len(queue) - 1 /\ \A i \in 1..Len(queue') : queue'[i] = queue[i + 1]
        BY <1>9, QueueTyped, TakenAt DEF ShowHead, Show
    <2>2. /\ answer' = answer /\ failed' = failed /\ Head(queue).what # "close"
          /\ step' = IF Head(queue).what = "failed" THEN step
                     ELSE [step EXCEPT ![Head(queue).login] = "over"]
        BY <1>9 DEF ShowHead, Show, starts
    <2>3. \A i \in 1..Len(queue') : i + 1 \in 1..Len(queue) /\ i + 1 # 1
        BY <2>1
    <2>4. ASSUME NEW i \in 1..Len(queue')
          PROVE  /\ Result(queue'[i]) => step'[queue'[i].login] = "posted"
                 /\ queue'[i].what = "success" => answer'[queue'[i].login] # "none"
                 /\ queue'[i].what = "failed" => failed'
        <3>1. queue'[i] = queue[i + 1] /\ i + 1 \in 1..Len(queue) /\ i + 1 # 1 /\ 1 \in 1..Len(queue)
            BY <2>1, <2>3
        <3>2. /\ Result(queue[i + 1]) => step[queue[i + 1].login] = "posted"
              /\ queue[i + 1].what = "success" => answer[queue[i + 1].login] # "none"
              /\ queue[i + 1].what = "failed" => failed
            BY <3>1 DEF QueueInv
        <3>3. ASSUME Result(queue[i + 1]), Head(queue).what # "failed"
              PROVE  queue[i + 1].login # Head(queue).login
            <4>1. Result(queue[1])
                BY <2>1, <2>2, <3>3 DEF Result, Message
            <4> QED BY <2>1, <3>1, <3>3, <4>1 DEF QueueInv
        <3>4. queue[i + 1].login \in Login /\ Head(queue).login \in Login
            BY <1>0, <2>1, <3>1
        <3>5. Result(queue[i + 1]) => step'[queue[i + 1].login] = "posted"
            BY <1>0, <2>2, <3>2, <3>3, <3>4
        <3> QED BY <2>2, <3>1, <3>2, <3>5
    <2>5. ASSUME NEW i \in 1..Len(queue'), NEW j \in 1..Len(queue'),
                 Result(queue'[i]), Result(queue'[j]), queue'[i].login = queue'[j].login
          PROVE  i = j
        <3>1. i + 1 = j + 1
            BY <2>1, <2>3, <2>5 DEF QueueInv
        <3> QED BY <3>1
    <2> QED BY <2>4, <2>5 DEF QueueInv, Result
<1>10. CASE End
    BY <1>10 DEF End, QueueInv
<1>11. CASE UNCHANGED process
    BY <1>11 DEF process, logins, starts, QueueInv, Result
<1> QED BY <1>1, <1>2, <1>3, <1>4, <1>5, <1>6, <1>7, <1>8, <1>9, <1>10, <1>11, StepKinds

(* The stages of a login.                                                  *)
LEMMA StageStep ==
    ASSUME TypeOK, QueueInv, StageInv, [Next]_vars
    PROVE  StageInv'
<1>0. /\ step \in [Login -> {"none", "connecting", "receiving", "naming", "posted", "over"}]
      /\ answer \in [Login -> {"none", "whole", "cut", "bare"}]
      /\ start \in [Login -> {"none", "sleeping", "reading"}]
      /\ pressed \in 0..MaxLogins /\ \A n \in Login : step[n] # "none" <=> n <= pressed
    BY DEF TypeOK
<1>1. ASSUME NEW remember \in BOOLEAN, Press(remember) PROVE StageInv'
    <2>1. /\ start' = start /\ answer' = answer /\ timers' = timers /\ pressed + 1 \in Login
          /\ step' = [step EXCEPT ![pressed + 1] = "connecting"]
        BY <1>0, <1>1, LauncherAssumption DEF Press, starts, Login
    <2>2. step[pressed + 1] = "none"
        BY <1>0, <2>1
    <2> QED BY <1>0, <2>1, <2>2 DEF StageInv
<1>2. ASSUME NEW n \in Login, Progress(n) PROVE StageInv'
    BY <1>0, <1>2 DEF Progress, starts, StageInv
<1>3. ASSUME NEW n \in Login, Refusal(n) PROVE StageInv'
    BY <1>0, <1>3 DEF Refusal, starts, StageInv
<1>4. ASSUME NEW n \in Login, Bare(n) PROVE StageInv'
    BY <1>0, <1>4 DEF Bare, starts, StageInv
<1>5. ASSUME NEW n \in Login, Name(n) PROVE StageInv'
    BY <1>0, <1>5 DEF Name, starts, StageInv
<1>6. ASSUME NEW n \in Login, NEW part \in {"whole", "cut"}, Token(n, part) PROVE StageInv'
    BY <1>0, <1>6 DEF Token, starts, StageInv
<1>7. ASSUME NEW n \in Login, Fire(n) PROVE StageInv'
    BY <1>0, <1>7 DEF Fire, logins, StageInv
<1>8. ASSUME NEW n \in Login, ReadName(n) PROVE StageInv'
    BY <1>0, <1>8 DEF ReadName, page, logins, StageInv
<1>9. ASSUME NEW n \in Login, StartGame(n) PROVE StageInv'
    BY <1>0, <1>9 DEF StartGame, page, StageInv
<1>10. CASE ShowHead
    <2> DEFINE m == Head(queue)
    <2>1. /\ m = queue[1] /\ m \in Message /\ 1 \in 1..Len(queue)
        BY <1>10, QueueTyped, TakenAt DEF ShowHead, Show
    <2>2. /\ answer' = answer /\ start' = start /\ m.what # "close"
          /\ step' = IF m.what = "failed" THEN step ELSE [step EXCEPT ![m.login] = "over"]
          /\ timers' = IF m.what = "success" THEN timers \union {m.login} ELSE timers
        BY <1>10 DEF ShowHead, Show, starts
    <2>3. m.login \in Login /\ m.what \in {"refused", "success", "garbled", "failed", "close"}
        BY <2>1 DEF Message
    <2>4. /\ m.what \in {"refused", "success", "garbled"} => step[m.login] = "posted"
          /\ m.what = "success" => answer[m.login] # "none"
        BY <2>1 DEF QueueInv, Result
    <2> HIDE DEF m
    <2>5. CASE m.what = "failed"
        BY <2>2, <2>5 DEF StageInv
    <2>6. CASE m.what \in {"refused", "garbled"}
        BY <1>0, <2>2, <2>3, <2>4, <2>6 DEF StageInv
    <2>7. CASE m.what = "success"
        BY <1>0, <2>2, <2>3, <2>4, <2>7 DEF StageInv
    <2> QED BY <2>2, <2>3, <2>5, <2>6, <2>7
<1>11. CASE End
    BY <1>11 DEF End, StageInv, Nothing
<1>12. CASE UNCHANGED process
    BY <1>12 DEF process, page, logins, starts, StageInv
<1> QED BY <1>1, <1>2, <1>3, <1>4, <1>5, <1>6, <1>7, <1>8, <1>9, <1>10, <1>11, <1>12, StepKinds

-----------------------------------------------------------------------------
(* Logins and starts.                                                      *)

Ended == \E m \in Range(queue) : m.what \in {"failed", "close"}
Closed == \E m \in Range(queue) : m.what = "close"
Starting == {n \in Login : start[n] # "none"}

(* The button is off under a login, and no login runs under a start the    *)
(* player waits for.                                                       *)
ButtonInv ==
    /\ ~(eager /\ failed) => (\A m, n \in Running : m = n) /\ (button => Running = {})
    /\ ~eager /\ StartPending => Running = {}

(* There is one start at a time, and one game.                             *)
OnceInv ==
    ~eager => /\ \A m, n \in timers \union Starting : m = n
              /\ timers \union Starting # {} => ~Ended
              /\ games # {} => Closed
              /\ \A g, h \in games : g = h

LEMMA RangeAppend ==
    ASSUME NEW q \in Seq(Message), NEW m \in Message
    PROVE  Range(Append(q, m)) = Range(q) \union {m}
<1> DEFINE r == Append(q, m)
<1>1. /\ DOMAIN q = 1..Len(q) /\ DOMAIN r = 1..(Len(q) + 1) /\ Len(q) \in Nat
      /\ \A i \in 1..Len(q) : r[i] = q[i]
      /\ r[Len(q) + 1] = m
    OBVIOUS
<1> HIDE DEF r
<1>2. \A i \in 1..(Len(q) + 1) : i \in 1..Len(q) \/ i = Len(q) + 1
    BY <1>1
<1>3. \A i \in 1..Len(q) : i \in 1..(Len(q) + 1)
    BY <1>1
<1>4. Len(q) + 1 \in 1..(Len(q) + 1)
    BY <1>1
<1>5. Range(r) = Range(q) \union {m}
    BY <1>1, <1>2, <1>3, <1>4, Zenon DEF Range
<1> QED BY <1>5 DEF r

LEMMA RangeTail ==
    ASSUME NEW q \in Seq(Message), q # <<>>
    PROVE  Range(q) = {Head(q)} \union Range(Tail(q))
<1> DEFINE r == Tail(q)
<1>1. /\ DOMAIN q = 1..Len(q) /\ DOMAIN r = 1..(Len(q) - 1) /\ Len(q) \in Nat \ {0}
      /\ \A i \in 1..(Len(q) - 1) : r[i] = q[i + 1]
      /\ Head(q) = q[1]
    OBVIOUS
<1> HIDE DEF r
<1>2. \A i \in 1..Len(q) : i = 1 \/ (i - 1 \in 1..(Len(q) - 1) /\ q[i] = r[i - 1])
    BY <1>1
<1>3. \A i \in 1..(Len(q) - 1) : i + 1 \in 1..Len(q)
    BY <1>1
<1>4. 1 \in 1..Len(q)
    BY <1>1
<1>5. Range(q) \subseteq {Head(q)} \union Range(r)
    BY <1>1, <1>2 DEF Range
<1>6. \A i \in 1..(Len(q) - 1) : r[i] \in Range(q)
    BY <1>1, <1>3 DEF Range
<1>7. Range(r) \subseteq Range(q) /\ Head(q) \in Range(q)
    BY <1>1, <1>4, <1>6 DEF Range
<1>8. Range(q) = {Head(q)} \union Range(r)
    BY <1>5, <1>7
<1> QED BY <1>8 DEF r

LEMMA PostRange ==
    ASSUME TypeOK, NEW w \in {"refused", "success", "garbled", "failed", "close"}, NEW n \in Login, Post(w, n)
    PROVE  Range(queue') = Range(queue) \union {[what |-> w, login |-> n]}
<1>1. [what |-> w, login |-> n] \in Message
    BY DEF Message
<1> QED BY <1>1, QueueTyped, RangeAppend DEF Post

LEMMA PostResult ==
    ASSUME TypeOK, NEW w \in {"refused", "success", "garbled"}, NEW n \in Login, Post(w, n)
    PROVE  (Ended' <=> Ended) /\ (Closed' <=> Closed)
<1>1. Range(queue') = Range(queue) \union {[what |-> w, login |-> n]}
    BY PostRange
<1> QED BY <1>1 DEF Ended, Closed

(* What a login thread does changes no start.                              *)
LEMMA LoginStep ==
    ASSUME TypeOK, NEW n \in Login,
           \/ Progress(n) \/ Refusal(n) \/ Bare(n) \/ Name(n)
           \/ \E part \in {"whole", "cut"} : Token(n, part)
    PROVE  /\ n \in Running /\ Running' = Running /\ Kept
           /\ UNCHANGED <<timers, starts>>
           /\ (Ended' <=> Ended) /\ (Closed' <=> Closed) /\ (StartPending' <=> StartPending)
<1>1. Kept /\ UNCHANGED <<timers, starts>>
    BY DEF Progress, Refusal, Bare, Name, Token
<1>2. \E x \in {"receiving", "naming", "posted"} :
          /\ step[n] \in {"connecting", "receiving", "naming"} /\ step' = [step EXCEPT ![n] = x]
    BY DEF Progress, Refusal, Bare, Name, Token
<1>3. step \in [Login -> {"none", "connecting", "receiving", "naming", "posted", "over"}]
    BY DEF TypeOK
<1>4. n \in Running /\ Running' = Running
    BY <1>2, <1>3 DEF Running
<1>5. queue' = queue \/ Post("refused", n) \/ Post("success", n) \/ Post("garbled", n)
    BY DEF Progress, Refusal, Bare, Name, Token
<1>6. (Ended' <=> Ended) /\ (Closed' <=> Closed)
    BY <1>5, PostResult DEF Ended, Closed
<1>7. StartPending' <=> StartPending
    BY <1>1, <1>6 DEF StartPending, Ended, starts
<1> QED BY <1>1, <1>4, <1>6, <1>7

(* What the page is shown.                                                 *)
LEMMA ShowStep ==
    ASSUME TypeOK, QueueInv, ShowHead
    PROVE  LET m == Head(queue)
           IN  /\ m \in Message /\ m.what # "close" /\ m \in Range(queue)
               /\ Result(m) => step[m.login] = "posted"
               /\ m.what = "failed" => failed
               /\ Range(queue) = {m} \union Range(queue')
               /\ Closed' <=> Closed
               /\ button' = (button \/ m.what # "garbled")
               /\ unshown' = (m.what = "garbled")
               /\ step' = IF m.what = "failed" THEN step ELSE [step EXCEPT ![m.login] = "over"]
               /\ timers' = IF m.what = "success" THEN timers \union {m.login} ELSE timers
               /\ UNCHANGED <<eager, answer, starts, shared>>
<1> DEFINE m == Head(queue)
<1>1. /\ m = queue[1] /\ m \in Message /\ 1 \in 1..Len(queue)
    BY QueueTyped, TakenAt DEF ShowHead, Show
<1>2. Range(queue) = {m} \union Range(queue')
    BY QueueTyped, RangeTail DEF ShowHead, Show
<1>3. (Result(m) => step[m.login] = "posted") /\ (m.what = "failed" => failed)
    BY <1>1 DEF QueueInv
<1>4. /\ m.what # "close"
      /\ button' = (button \/ m.what # "garbled") /\ unshown' = (m.what = "garbled")
      /\ step' = IF m.what = "failed" THEN step ELSE [step EXCEPT ![m.login] = "over"]
      /\ timers' = IF m.what = "success" THEN timers \union {m.login} ELSE timers
      /\ UNCHANGED <<eager, answer, starts, shared>>
    BY DEF ShowHead, Show
<1> HIDE DEF m
<1>5. m \in Range(queue) /\ (Closed' <=> Closed)
    BY <1>2, <1>4 DEF Closed
<1> QED BY <1>1, <1>2, <1>3, <1>4, <1>5 DEF m

LEMMA ButtonStep ==
    ASSUME TypeOK, QueueInv, StageInv, ButtonInv, [Next]_vars
    PROVE  ButtonInv'
<1>0. /\ step \in [Login -> {"none", "connecting", "receiving", "naming", "posted", "over"}]
      /\ start \in [Login -> {"none", "sleeping", "reading"}]
    BY DEF TypeOK
<1>1. ASSUME NEW remember \in BOOLEAN, Press(remember) PROVE ButtonInv'
    <2>1. /\ button /\ button' = FALSE /\ failed' = failed /\ eager' = (eager \/ StartPending)
          /\ queue' = queue /\ timers' = timers /\ start' = start
          /\ step' = [step EXCEPT ![pressed + 1] = "connecting"]
        BY <1>1 DEF Press, ButtonAfterPress, starts
    <2>2. StartPending' <=> StartPending
        BY <2>1 DEF StartPending
    <2>3. ~(eager' /\ failed') => Running = {}
        BY <2>1 DEF ButtonInv
    <2>4. \A n \in Running' : n \in Running \/ n = pressed + 1
        BY <1>0, <2>1 DEF Running
    <2> QED BY <2>1, <2>2, <2>3, <2>4 DEF ButtonInv
<1>2. ASSUME NEW n \in Login,
             \/ Progress(n) \/ Refusal(n) \/ Bare(n) \/ Name(n)
             \/ \E part \in {"whole", "cut"} : Token(n, part)
      PROVE  ButtonInv'
    BY <1>2, LoginStep DEF ButtonInv, Kept, starts
<1>3. ASSUME NEW n \in Login, Fire(n) \/ ReadName(n) PROVE ButtonInv'
    <2>1. StartPending /\ Running' = Running /\ button' = button /\ eager' = eager /\ failed' = failed
        BY <1>0, <1>3 DEF Fire, ReadName, StartPending, Running, page, logins
    <2> QED BY <2>1 DEF ButtonInv
<1>4. ASSUME NEW n \in Login, StartGame(n) PROVE ButtonInv'
    <2>1. StartPending /\ Running' = Running /\ button' = button /\ eager' = eager
        BY <1>0, <1>4 DEF StartGame, StartPending, Running, page
    <2>2. failed => failed'
        BY <1>4 DEF StartGame
    <2> QED BY <2>1, <2>2 DEF ButtonInv
<1>5. CASE ShowHead
    <2> DEFINE m == Head(queue)
    <2>1. /\ m \in Message /\ m.what # "close" /\ m \in Range(queue)
          /\ Result(m) => step[m.login] = "posted"
          /\ m.what = "failed" => failed
          /\ Range(queue) = {m} \union Range(queue')
          /\ step' = IF m.what = "failed" THEN step ELSE [step EXCEPT ![m.login] = "over"]
          /\ timers' = IF m.what = "success" THEN timers \union {m.login} ELSE timers
          /\ eager' = eager /\ failed' = failed /\ start' = start
        BY <1>5, ShowStep DEF starts
    <2> HIDE DEF m
    <2>2. CASE m.what = "failed"
        <3>1. StartPending /\ Running' = Running
            BY <2>1, <2>2 DEF StartPending, Running
        <3> QED BY <2>1, <2>2, <3>1 DEF ButtonInv
    <2>3. CASE m.what \in {"refused", "success", "garbled"}
        <3>1. m.login \in Running /\ m.login \in Login
            BY <2>1, <2>3 DEF Result, Running, Message
        <3>2. Running' = Running \ {m.login}
            BY <1>0, <2>1, <2>3, <3>1 DEF Running
        <3>3. ~(eager /\ failed) => Running' = {}
            BY <3>1, <3>2 DEF ButtonInv
        <3> QED BY <2>1, <3>3 DEF ButtonInv
    <2> QED BY <2>1, <2>2, <2>3 DEF Message
<1>6. CASE End
    <2>1. Running' = {} /\ button'
        BY <1>6 DEF End, Nothing, Running
    <2> QED BY <2>1 DEF ButtonInv
<1>7. CASE UNCHANGED process
    BY <1>7 DEF process, page, logins, starts, ButtonInv, Running, StartPending
<1> QED BY <1>1, <1>2, <1>3, <1>4, <1>5, <1>6, <1>7, StepKinds

LEMMA OnceStep ==
    ASSUME TypeOK, QueueInv, StageInv, ButtonInv, OnceInv, [Next]_vars
    PROVE  OnceInv'
<1>0. /\ start \in [Login -> {"none", "sleeping", "reading"}] /\ timers \subseteq Login
    BY DEF TypeOK
<1> SUFFICES ASSUME ~eager'
             PROVE  /\ \A m, n \in timers' \union Starting' : m = n
                    /\ timers' \union Starting' # {} => ~Ended'
                    /\ games' # {} => Closed'
                    /\ \A g, h \in games' : g = h
    BY DEF OnceInv
<1>1. ASSUME NEW remember \in BOOLEAN, Press(remember) PROVE OnceInv'
    <2>1. ~eager /\ queue' = queue /\ timers' = timers /\ start' = start /\ games' = games
        BY <1>1 DEF Press, starts
    <2> QED BY <2>1 DEF OnceInv, Starting, Ended, Closed
<1>2. ASSUME NEW n \in Login,
             \/ Progress(n) \/ Refusal(n) \/ Bare(n) \/ Name(n)
             \/ \E part \in {"whole", "cut"} : Token(n, part)
      PROVE  OnceInv'
    <2>1. /\ eager' = eager /\ timers' = timers /\ start' = start /\ games' = games
          /\ (Ended' <=> Ended) /\ (Closed' <=> Closed)
        BY <1>2, LoginStep DEF Kept, starts
    <2> QED BY <2>1 DEF OnceInv, Starting
<1>3. ASSUME NEW n \in Login, Fire(n) PROVE OnceInv'
    <2>1. /\ n \in timers /\ timers' = timers \ {n} /\ start' = [start EXCEPT ![n] = "sleeping"]
          /\ eager' = eager /\ queue' = queue /\ games' = games
        BY <1>3 DEF Fire
    <2>2. timers' \union Starting' \subseteq timers \union Starting
        BY <1>0, <2>1 DEF Starting
    <2> QED BY <2>1, <2>2 DEF OnceInv, Ended, Closed
<1>4. ASSUME NEW n \in Login, ReadName(n) PROVE OnceInv'
    <2>1. /\ start[n] = "sleeping" /\ start' = [start EXCEPT ![n] = "reading"]
          /\ eager' = eager /\ queue' = queue /\ games' = games /\ timers' = timers
        BY <1>4 DEF ReadName, page
    <2>2. timers' \union Starting' \subseteq timers \union Starting
        BY <1>0, <2>1 DEF Starting
    <2> QED BY <2>1, <2>2 DEF OnceInv, Ended, Closed
<1>5. ASSUME NEW n \in Login, StartGame(n) PROVE OnceInv'
    <2>1. /\ start[n] = "reading" /\ start' = [start EXCEPT ![n] = "none"]
          /\ eager' = eager /\ timers' = timers
          /\ \/ games' = games \union {Game(n)} /\ Post("close", n)
             \/ games' = games /\ Post("failed", n)
        BY <1>5 DEF StartGame, page
    <2>2. n \in Starting
        BY <2>1 DEF Starting
    <2>3. ~Ended /\ games = {} /\ \A d \in timers \union Starting : d = n
        BY <2>1, <2>2 DEF OnceInv, Ended, Closed
    <2>4. n \notin timers /\ n \notin Starting' /\ Starting' \subseteq Starting
        BY <1>0, <2>1 DEF StageInv, Starting
    <2>5. timers' \union Starting' = {}
        BY <2>1, <2>3, <2>4
    <2>6. CASE games' = games \union {Game(n)} /\ Post("close", n)
        <3>1. [what |-> "close", login |-> n] \in Range(queue')
            BY <2>6, PostRange
        <3>2. Closed'
            BY <3>1 DEF Closed
        <3> QED BY <2>3, <2>5, <2>6, <3>2 DEF OnceInv
    <2>7. CASE games' = games
        BY <2>3, <2>5, <2>7 DEF OnceInv
    <2> QED BY <2>1, <2>6, <2>7
<1>6. CASE ShowHead
    <2> DEFINE m == Head(queue)
    <2>1. /\ m \in Message /\ m.what # "close" /\ m \in Range(queue)
          /\ Result(m) => step[m.login] = "posted"
          /\ Range(queue) = {m} \union Range(queue')
          /\ Closed' <=> Closed
          /\ timers' = IF m.what = "success" THEN timers \union {m.login} ELSE timers
          /\ eager' = eager /\ start' = start /\ games' = games
        BY <1>6, ShowStep DEF starts
    <2> HIDE DEF m
    <2>2. Ended' => Ended
        BY <2>1 DEF Ended
    <2>3. CASE m.what # "success"
        BY <2>1, <2>2, <2>3 DEF OnceInv, Starting
    <2>4. CASE m.what = "success"
        <3>1. m.login \in Running
            BY <2>1, <2>4 DEF Result, Running, Message
        <3>2. ~StartPending
            BY <2>1, <3>1 DEF ButtonInv
        <3>3. timers = {} /\ Starting = {} /\ ~Ended
            BY <1>0, <3>2 DEF StartPending, Starting, Ended
        <3>4. timers' \union Starting' = {m.login}
            BY <2>1, <2>4, <3>3 DEF Starting
        <3> QED BY <2>1, <2>2, <3>3, <3>4 DEF OnceInv
    <2> QED BY <2>3, <2>4
<1>7. CASE End
    BY <1>7 DEF End, Nothing, OnceInv, Starting
<1>8. CASE UNCHANGED process
    BY <1>8 DEF process, page, starts, OnceInv, Starting, Ended, Closed
<1> QED BY <1>1, <1>2, <1>3, <1>4, <1>5, <1>6, <1>7, <1>8, StepKinds DEF OnceInv

-----------------------------------------------------------------------------
(* The credentials.                                                        *)

(* From the acceptance of a login until the start for it is over.          *)
Pursued(n) == step[n] \in {"naming", "posted"} \/ n \in timers \/ start[n] # "none"

(* Token and name are of one login but while a thread stores them, the     *)
(* name read for a start fits the token, and a whole answer leaves the     *)
(* login's own token.                                                      *)
CredInv ==
    ~eager => /\ \A n \in Login : step[n] = "naming" => Abs(token) = n
              /\ (\A n \in Login : step[n] # "naming") => username = Abs(token)
              /\ \A n \in Login : start[n] = "reading" => userid[n] = Abs(token)
              /\ \A n \in Login : answer[n] = "whole" /\ Pursued(n) => token = n
              /\ \A g \in games : /\ g.user = Abs(g.token)
                                  /\ g.answer = "whole" => g.token = g.login

LEMMA CredStep ==
    ASSUME TypeOK, QueueInv, StageInv, ButtonInv, CredInv, [Next]_vars
    PROVE  CredInv'
<1>0. /\ step \in [Login -> {"none", "connecting", "receiving", "naming", "posted", "over"}]
      /\ start \in [Login -> {"none", "sleeping", "reading"}] /\ timers \subseteq Login
      /\ answer \in [Login -> {"none", "whole", "cut", "bare"}] /\ DOMAIN userid = Login
      /\ token \in Int /\ \A n \in Login : n \in Nat \ {0}
    BY DEF TypeOK, Login
<1>a. ASSUME ~eager, NEW n \in Running
      PROVE  /\ \A d \in Login : step[d] \in {"naming", "posted"} => d = n
             /\ \A d \in Login : d \notin timers /\ start[d] = "none"
    <2>1. ~StartPending /\ \A d \in Running : d = n
        BY <1>a DEF ButtonInv
    <2> QED BY <1>0, <2>1 DEF StartPending, Running
<1>1. ASSUME NEW remember \in BOOLEAN, Press(remember) PROVE CredInv'
    <2>1. /\ eager' = (eager \/ StartPending) /\ UNCHANGED <<timers, answer, starts, shared>>
          /\ step' = [step EXCEPT ![pressed + 1] = "connecting"]
          /\ pressed + 1 \in Login /\ step[pressed + 1] = "none"
        BY <1>1, LauncherAssumption DEF Press, TypeOK, Login
    <2>2. \A n \in Login : step'[n] = IF n = pressed + 1 THEN "connecting" ELSE step[n]
        BY <1>0, <2>1
    <2>3. \A n \in Login : (step'[n] = "naming" <=> step[n] = "naming") /\ (Pursued(n)' => Pursued(n))
        BY <2>1, <2>2 DEF Pursued, starts
    <2>4. UNCHANGED <<answer, start, userid, games, token, username>> /\ (~eager' => ~eager)
        BY <2>1 DEF starts, shared
    <2> QED BY <2>3, <2>4 DEF CredInv
<1>2. ASSUME NEW n \in Login, Progress(n) \/ Refusal(n) PROVE CredInv'
    <2>1. /\ eager' = eager /\ UNCHANGED <<timers, answer, starts, shared>>
          /\ step[n] \in {"connecting", "receiving"}
          /\ \A d \in Login : step'[d] = IF d = n THEN step'[n] ELSE step[d]
          /\ step'[n] \in {"receiving", "posted"}
        BY <1>0, <1>2 DEF Progress, Refusal, Kept
    <2>2. answer[n] = "none"
        BY <2>1 DEF StageInv
    <2> QED BY <2>1, <2>2 DEF CredInv, Pursued, starts, shared
<1>3. ASSUME NEW n \in Login, Bare(n) PROVE CredInv'
    <2>1. /\ eager' = eager /\ UNCHANGED <<timers, starts, shared>> /\ step[n] = "receiving"
          /\ \A d \in Login : step'[d] = IF d = n THEN "posted" ELSE step[d]
          /\ \A d \in Login : answer'[d] = IF d = n THEN "bare" ELSE answer[d]
        BY <1>0, <1>3 DEF Bare, Kept
    <2> QED BY <2>1 DEF CredInv, Pursued, starts, shared
<1>4. ASSUME NEW n \in Login, NEW part \in {"whole", "cut"}, Token(n, part) PROVE CredInv'
    <2> SUFFICES ASSUME ~eager PROVE CredInv'
        BY <1>4 DEF Token, Kept, CredInv
    <2>1. /\ eager' = eager /\ UNCHANGED <<timers, starts, username>> /\ step[n] = "receiving"
          /\ \A d \in Login : step'[d] = IF d = n THEN "naming" ELSE step[d]
          /\ \A d \in Login : answer'[d] = IF d = n THEN part ELSE answer[d]
          /\ token' = IF part = "whole" THEN n ELSE -n
        BY <1>0, <1>4 DEF Token, Kept
    <2>2. /\ \A d \in Login : step[d] \in {"naming", "posted"} => d = n
          /\ \A d \in Login : d \notin timers /\ start[d] = "none"
        BY <1>a, <2>1 DEF Running
    <2>3. Abs(token') = n
        BY <1>0, <2>1 DEF Abs
    <2>4. /\ \A d \in Login : step'[d] = "naming" => Abs(token') = d
          /\ step'[n] = "naming"
          /\ \A d \in Login : start'[d] # "reading"
        BY <2>1, <2>2, <2>3 DEF starts
    <2>5. \A d \in Login : answer'[d] = "whole" /\ Pursued(d)' => token' = d
        BY <2>1, <2>2 DEF Pursued, starts
    <2>6. games' = games
        BY <2>1 DEF starts
    <2> QED BY <2>1, <2>4, <2>5, <2>6 DEF CredInv
<1>5. ASSUME NEW n \in Login, Name(n) PROVE CredInv'
    <2> SUFFICES ASSUME ~eager PROVE CredInv'
        BY <1>5 DEF Name, Kept, CredInv
    <2>1. /\ eager' = eager /\ UNCHANGED <<timers, answer, starts, token>> /\ step[n] = "naming"
          /\ \A d \in Login : step'[d] = IF d = n THEN "posted" ELSE step[d]
          /\ username' = n
        BY <1>0, <1>5 DEF Name, Kept
    <2>2. /\ Abs(token) = n /\ \A d \in Login : step'[d] # "naming"
        BY <1>a, <2>1 DEF CredInv, Running
    <2>3. \A d \in Login : Pursued(d)' => Pursued(d)
        BY <2>1 DEF Pursued, starts
    <2> QED BY <2>1, <2>2, <2>3 DEF CredInv, starts
<1>6. ASSUME NEW n \in Login, Fire(n) PROVE CredInv'
    <2>1. /\ n \in timers /\ timers' = timers \ {n} /\ eager' = eager
          /\ \A d \in Login : start'[d] = IF d = n THEN "sleeping" ELSE start[d]
          /\ UNCHANGED <<step, answer, userid, games, token, username>>
        BY <1>0, <1>6 DEF Fire, logins, shared
    <2>2. \A d \in Login : Pursued(d)' => Pursued(d)
        BY <2>1 DEF Pursued
    <2> QED BY <2>1, <2>2 DEF CredInv
<1>7. ASSUME NEW n \in Login, ReadName(n) PROVE CredInv'
    <2> SUFFICES ASSUME ~eager PROVE CredInv'
        BY <1>7 DEF ReadName, page, CredInv
    <2>1. /\ start[n] = "sleeping" /\ eager' = eager
          /\ \A d \in Login : start'[d] = IF d = n THEN "reading" ELSE start[d]
          /\ userid' = [userid EXCEPT ![n] = IF token = 0 THEN 0 ELSE username]
          /\ UNCHANGED <<timers, step, answer, games, token, username>>
        BY <1>0, <1>7 DEF ReadName, page, logins, shared
    <2>2. \A d \in Login : userid'[d] = IF d = n THEN (IF token = 0 THEN 0 ELSE username) ELSE userid[d]
        BY <1>0, <2>1
    <2>3. \A d \in Login : step[d] # "naming"
        BY <1>a, <2>1 DEF Running
    <2>4. username = Abs(token) /\ (token = 0 => Abs(token) = 0)
        BY <2>3 DEF CredInv, Abs
    <2>5. \A d \in Login : Pursued(d)' => Pursued(d)
        BY <2>1 DEF Pursued
    <2> QED BY <2>1, <2>2, <2>4, <2>5 DEF CredInv
<1>8. ASSUME NEW n \in Login, StartGame(n) PROVE CredInv'
    <2> SUFFICES ASSUME ~eager PROVE CredInv'
        BY <1>8 DEF StartGame, page, CredInv
    <2>1. /\ start[n] = "reading" /\ eager' = eager
          /\ \A d \in Login : start'[d] = IF d = n THEN "none" ELSE start[d]
          /\ \A d \in Login : answer'[d] = IF d = n THEN "none" ELSE answer[d]
          /\ userid' = [userid EXCEPT ![n] = 0]
          /\ games' = games \union {Game(n)} \/ games' = games
          /\ UNCHANGED <<timers, step, token, username>>
        BY <1>0, <1>8 DEF StartGame, page, shared
    <2>2. \A d \in Login : userid'[d] = IF d = n THEN 0 ELSE userid[d]
        BY <1>0, <2>1
    <2>3. \A d \in Login : answer'[d] = "whole" /\ Pursued(d)' => answer[d] = "whole" /\ Pursued(d)
        BY <2>1 DEF Pursued
    <2>4. userid[n] = Abs(token) /\ (answer[n] = "whole" => token = n)
        BY <2>1 DEF CredInv, Pursued
    <2>5. /\ Game(n).user = Abs(Game(n).token)
          /\ Game(n).answer = "whole" => Game(n).token = Game(n).login
        BY <1>0, <2>4 DEF Game, Abs
    <2>6. \A g \in games' : g.user = Abs(g.token) /\ (g.answer = "whole" => g.token = g.login)
        BY <2>1, <2>5 DEF CredInv
    <2> QED BY <2>1, <2>2, <2>3, <2>6 DEF CredInv
<1>9. CASE ShowHead
    <2> DEFINE m == Head(queue)
    <2>1. /\ m \in Message /\ m.what # "close" /\ m \in Range(queue)
          /\ Result(m) => step[m.login] = "posted"
          /\ step' = IF m.what = "failed" THEN step ELSE [step EXCEPT ![m.login] = "over"]
          /\ timers' = IF m.what = "success" THEN timers \union {m.login} ELSE timers
          /\ UNCHANGED <<eager, answer, starts, shared>>
        BY <1>9, ShowStep
    <2> HIDE DEF m
    <2>2. m.login \in Login /\ m.what \in {"refused", "success", "garbled", "failed"}
        BY <2>1 DEF Message
    <2>3. \A d \in Login : step'[d] = IF d = m.login /\ m.what # "failed" THEN "over" ELSE step[d]
        BY <1>0, <2>1
    <2>4. \A d \in Login : step'[d] = "naming" <=> step[d] = "naming"
        BY <2>1, <2>2, <2>3 DEF Result
    <2>5. \A d \in Login : Pursued(d)' => Pursued(d)
        BY <2>1, <2>2, <2>3 DEF Pursued, Result, starts
    <2> QED BY <2>1, <2>4, <2>5 DEF CredInv, starts, shared
<1>10. CASE End
    BY <1>10 DEF End, Nothing, CredInv, Abs
<1>11. CASE UNCHANGED process
    BY <1>11 DEF process, page, logins, starts, shared, CredInv, Pursued
<1> QED BY <1>1, <1>2, <1>3, <1>4, <1>5, <1>6, <1>7, <1>8, <1>9, <1>10, <1>11, StepKinds

-----------------------------------------------------------------------------
(* The type invariant.                                                     *)

LEMMA TypeInit == Init => TypeOK
<1> SUFFICES ASSUME Init PROVE TypeOK
    OBVIOUS
<1>1. MaxAttempts - 1 \in Nat /\ 0 \in 0..(MaxAttempts - 1) /\ pressed = 0 /\ 0 \in 0..MaxLogins
    BY LauncherAssumption DEF Init
<1>2. \A n \in Login : ~(n <= pressed)
    BY <1>1 DEF Login
<1>3. ini \in Path /\ gamePath \in Path
    BY LauncherAssumption DEF Init
<1>4. /\ step \in [Login -> {"none", "connecting", "receiving", "naming", "posted", "over"}]
      /\ \A n \in Login : step[n] # "none" <=> n <= pressed
    BY <1>2 DEF Init, Nothing
<1>5. /\ attempts \in [Login -> 0..(MaxAttempts - 1)]
      /\ answer \in [Login -> {"none", "whole", "cut", "bare"}]
      /\ start \in [Login -> {"none", "sleeping", "reading"}]
    BY <1>1 DEF Init, Nothing
<1>6. /\ userid \in [Login -> 0..pressed] /\ token \in (-pressed)..pressed
      /\ username \in 0..pressed
    BY <1>1 DEF Init, Nothing
<1>7. /\ alive \in BOOLEAN /\ button \in BOOLEAN /\ failed \in BOOLEAN
      /\ eager \in BOOLEAN /\ unshown \in BOOLEAN
      /\ timers \subseteq Login /\ games = {} /\ queue = <<>>
    BY DEF Init
<1> QED BY <1>1, <1>3, <1>4, <1>5, <1>6, <1>7 DEF TypeOK

(* What is left when a launcher ends has the types too. *)
LEMMA EndType == TypeOK /\ End => TypeOK'
<1> SUFFICES ASSUME TypeOK, End PROVE TypeOK'
    OBVIOUS
<1>1. MaxAttempts - 1 \in Nat /\ 0 \in 0..(MaxAttempts - 1) /\ pressed' = 0 /\ 0 \in 0..MaxLogins
    BY LauncherAssumption DEF End
<1>2. \A n \in Login : ~(n <= pressed')
    BY <1>1 DEF Login
<1>3. ini' \in Path /\ gamePath' \in Path
    BY DEF End, TypeOK
<1>4. /\ step' \in [Login -> {"none", "connecting", "receiving", "naming", "posted", "over"}]
      /\ \A n \in Login : step'[n] # "none" <=> n <= pressed'
    BY <1>2 DEF End, Nothing
<1>5. /\ attempts' \in [Login -> 0..(MaxAttempts - 1)]
      /\ answer' \in [Login -> {"none", "whole", "cut", "bare"}]
      /\ start' \in [Login -> {"none", "sleeping", "reading"}]
    BY <1>1 DEF End, Nothing
<1>6. /\ userid' \in [Login -> 0..pressed'] /\ token' \in (-pressed')..pressed'
      /\ username' \in 0..pressed'
    BY <1>1 DEF End, Nothing
<1>7. /\ alive' \in BOOLEAN /\ button' \in BOOLEAN /\ failed' \in BOOLEAN
      /\ eager' \in BOOLEAN /\ unshown' \in BOOLEAN
      /\ timers' \subseteq Login /\ games' = {} /\ queue' = <<>>
    BY DEF End
<1> QED BY <1>1, <1>3, <1>4, <1>5, <1>6, <1>7 DEF TypeOK

LEMMA PostType ==
    ASSUME TypeOK, NEW w \in {"refused", "success", "garbled", "failed", "close"}, NEW n \in Login, Post(w, n)
    PROVE  queue' \in Seq([what: {"refused", "success", "garbled", "failed", "close"}, login: Login])
BY QueueTyped, PostAt DEF Message

LEMMA AttemptsType ==
    ASSUME TypeOK, NEW n \in Login, attempts' = [attempts EXCEPT ![n] = 0]
    PROVE  attempts' \in [Login -> 0..(MaxAttempts - 1)]
BY LauncherAssumption DEF TypeOK

(* A step of a login thread that changes its step and posts something.     *)
LEMMA ThreadType ==
    ASSUME TypeOK, NEW n \in Login, step[n] \notin {"none"},
           NEW x \in {"connecting", "receiving", "naming", "posted", "over"},
           step' = [step EXCEPT ![n] = x], pressed' = pressed
    PROVE  /\ step' \in [Login -> {"none", "connecting", "receiving", "naming", "posted", "over"}]
           /\ \A d \in Login : step'[d] # "none" <=> d <= pressed'
BY DEF TypeOK

LEMMA TypeNext ==
    ASSUME TypeOK, QueueInv, StageInv, [Next]_vars
    PROVE  TypeOK'
<1>0. /\ MaxLogins \in Nat /\ pressed \in 0..MaxLogins /\ token \in Int /\ username \in Nat
      /\ \A n \in Login : n \in 1..MaxLogins
      /\ \A n \in Login : step[n] # "none" => n \in 1..pressed
    BY LauncherAssumption DEF TypeOK, Login
<1>1. ASSUME NEW remember \in BOOLEAN, Press(remember) PROVE TypeOK'
    <2>1. pressed' = pressed + 1 /\ pressed' \in 0..MaxLogins /\ pressed + 1 \in Login
        BY <1>0, <1>1 DEF Press, Login
    <2>2. /\ step' \in [Login -> {"none", "connecting", "receiving", "naming", "posted", "over"}]
          /\ \A n \in Login : step'[n] # "none" <=> n <= pressed'
        <3>1. step' = [step EXCEPT ![pressed + 1] = "connecting"]
            BY <1>1 DEF Press
        <3>2. \A n \in Login : n <= pressed' <=> n <= pressed \/ n = pressed + 1
            BY <1>0, <2>1
        <3> QED BY <2>1, <3>1, <3>2 DEF TypeOK
    <2>3. /\ userid' \in [Login -> 0..pressed'] /\ token' \in (-pressed')..pressed'
          /\ username' \in 0..pressed'
        BY <1>0, <1>1, <2>1 DEF Press, TypeOK, starts, shared
    <2>4. games' \subseteq [login: Login, answer: {"whole", "cut", "bare"},
                            user: 0..pressed', token: (-pressed')..pressed']
        BY <1>0, <1>1, <2>1 DEF Press, TypeOK, starts
    <2>5. ini' \in Path /\ gamePath' \in Path
        BY <1>1, LauncherAssumption DEF Press, TypeOK, Rewritten
    <2>6. /\ alive' \in BOOLEAN /\ button' \in BOOLEAN /\ failed' \in BOOLEAN
          /\ eager' \in BOOLEAN /\ unshown' \in BOOLEAN
        <3>1. alive' = alive /\ button' = FALSE /\ failed' = failed /\ unshown' = FALSE
            BY <1>1 DEF Press, ButtonAfterPress, starts
        <3>2. eager' = (eager \/ StartPending)
            BY <1>1 DEF Press
        <3>3. StartPending \in BOOLEAN
            BY DEF StartPending
        <3>4. eager' \in BOOLEAN
            BY <3>2, <3>3, Zenon DEF TypeOK
        <3> QED BY <3>1, <3>4 DEF TypeOK
    <2>7. /\ attempts' = attempts /\ answer' = answer /\ timers' = timers /\ start' = start /\ queue' = queue
        BY <1>1 DEF Press, starts
    <2> QED BY <2>1, <2>2, <2>3, <2>4, <2>5, <2>6, <2>7 DEF TypeOK
<1>2. ASSUME NEW n \in Login, Connect(n) PROVE TypeOK'
    <2>1. /\ UNCHANGED <<alive, page, attempts, answer, starts, shared, gamePath, ini>>
          /\ step[n] = "connecting"
          /\ \/ step' = [step EXCEPT ![n] = "receiving"] /\ queue' = queue
             \/ step' = [step EXCEPT ![n] = "posted"] /\ Post("refused", n)
        BY <1>2 DEF Connect, At
    <2>2. /\ step' \in [Login -> {"none", "connecting", "receiving", "naming", "posted", "over"}]
          /\ \A d \in Login : step'[d] # "none" <=> d <= pressed'
        BY <2>1, ThreadType DEF page
    <2>3. queue' \in Seq([what: {"refused", "success", "garbled", "failed", "close"}, login: Login])
        BY <2>1, PostType DEF TypeOK
    <2> QED BY <2>1, <2>2, <2>3 DEF TypeOK, page, starts, shared
<1>3. ASSUME NEW n \in Login, NEW what \in {"refused", "garbled"},
             step[n] = "receiving", Refused(n, what),
             UNCHANGED <<alive, page, answer, starts, shared, gamePath, ini>>
      PROVE  TypeOK'
    <2>1. /\ step' = [step EXCEPT ![n] = "posted"] /\ Post(what, n)
          /\ attempts' = [attempts EXCEPT ![n] = 0]
        BY <1>3 DEF Refused
    <2>2. /\ step' \in [Login -> {"none", "connecting", "receiving", "naming", "posted", "over"}]
          /\ \A d \in Login : step'[d] # "none" <=> d <= pressed'
        BY <1>3, <2>1, ThreadType DEF page
    <2>3. /\ queue' \in Seq([what: {"refused", "success", "garbled", "failed", "close"}, login: Login])
          /\ attempts' \in [Login -> 0..(MaxAttempts - 1)]
        BY <2>1, PostType, AttemptsType
    <2> QED BY <1>3, <2>2, <2>3 DEF TypeOK, page, starts, shared
<1>4. ASSUME NEW n \in Login, ReceiveJunk(n) PROVE TypeOK'
    <2>1. /\ step[n] = "receiving"
          /\ UNCHANGED <<alive, page, answer, starts, shared, gamePath, ini>>
        BY <1>4 DEF ReceiveJunk, At
    <2>2. CASE attempts[n] + 1 < MaxAttempts
        <3>1. attempts' = [attempts EXCEPT ![n] = attempts[n] + 1] /\ step' = step /\ queue' = queue
            BY <1>4, <2>2 DEF ReceiveJunk, GoesOn
        <3>2. attempts' \in [Login -> 0..(MaxAttempts - 1)]
            BY <2>2, <3>1, LauncherAssumption DEF TypeOK
        <3> QED BY <2>1, <3>1, <3>2 DEF TypeOK, page, starts, shared
    <2>3. CASE ~(attempts[n] + 1 < MaxAttempts)
        <3>1. Refused(n, "refused")
            BY <1>4, <2>3 DEF ReceiveJunk, GoesOn
        <3> QED BY <1>3, <2>1, <3>1
    <2> QED BY <2>2, <2>3
<1>5. ASSUME NEW n \in Login, ReceiveAcceptance(n) PROVE TypeOK'
    <2>1. /\ step[n] = "receiving" /\ UNCHANGED <<alive, page, starts, username, gamePath, ini>>
          /\ attempts' = [attempts EXCEPT ![n] = 0]
        BY <1>5 DEF ReceiveAcceptance, At
    <2>2. \E part \in {"whole", "cut", "bare"}, x \in {"naming", "posted"} :
            /\ answer' = [answer EXCEPT ![n] = part] /\ step' = [step EXCEPT ![n] = x]
            /\ token' \in {token, n, -n} /\ (queue' = queue \/ Post("success", n))
        BY <1>5 DEF ReceiveAcceptance
    <2>3. /\ step' \in [Login -> {"none", "connecting", "receiving", "naming", "posted", "over"}]
          /\ \A d \in Login : step'[d] # "none" <=> d <= pressed'
        BY <2>1, <2>2, ThreadType DEF page
    <2>4. /\ queue' \in Seq([what: {"refused", "success", "garbled", "failed", "close"}, login: Login])
          /\ attempts' \in [Login -> 0..(MaxAttempts - 1)]
        BY <2>1, <2>2, PostType, AttemptsType DEF TypeOK
    <2>5. answer' \in [Login -> {"none", "whole", "cut", "bare"}]
        BY <2>2 DEF TypeOK
    <2>6. token' \in (-pressed)..pressed
        <3>1. n \in 1..pressed /\ token \in (-pressed)..pressed
            BY <1>0, <2>1 DEF TypeOK
        <3> QED BY <1>0, <2>2, <3>1
    <2> QED BY <2>1, <2>3, <2>4, <2>5, <2>6 DEF TypeOK, page, starts
<1>6. ASSUME NEW n \in Login, StoreName(n) PROVE TypeOK'
    <2>1. /\ step[n] = "naming" /\ step' = [step EXCEPT ![n] = "posted"] /\ username' = n
          /\ Post("success", n) \/ Post("garbled", n)
          /\ UNCHANGED <<alive, page, attempts, answer, starts, token, gamePath, ini>>
        BY <1>6 DEF StoreName, StoredName, Shown, At
    <2>2. /\ step' \in [Login -> {"none", "connecting", "receiving", "naming", "posted", "over"}]
          /\ \A d \in Login : step'[d] # "none" <=> d <= pressed'
        BY <2>1, ThreadType DEF page
    <2>3. queue' \in Seq([what: {"refused", "success", "garbled", "failed", "close"}, login: Login])
        BY <2>1, PostType
    <2>4. username' \in 0..pressed
        BY <1>0, <2>1
    <2> QED BY <2>1, <2>2, <2>3, <2>4 DEF TypeOK, page, starts
<1>7. ASSUME NEW n \in Login, Fire(n) PROVE TypeOK'
    BY <1>7 DEF Fire, TypeOK, logins, shared
<1>8. ASSUME NEW n \in Login, ReadName(n) PROVE TypeOK'
    <2>1. /\ start' = [start EXCEPT ![n] = "reading"]
          /\ userid' = [userid EXCEPT ![n] = IF token = 0 THEN 0 ELSE username]
          /\ UNCHANGED <<alive, page, logins, games, failed, queue, shared, gamePath, ini>>
        BY <1>8 DEF ReadName
    <2>2. userid' \in [Login -> 0..pressed]
        BY <1>0, <2>1 DEF TypeOK
    <2> QED BY <2>1, <2>2 DEF TypeOK, page, logins, shared
<1>9. ASSUME NEW n \in Login, StartGame(n) PROVE TypeOK'
    <2>1. /\ start[n] = "reading" /\ start' = [start EXCEPT ![n] = "none"]
          /\ userid' = [userid EXCEPT ![n] = 0] /\ answer' = [answer EXCEPT ![n] = "none"]
          /\ failed' \in {failed, TRUE} /\ games' \subseteq games \union {Game(n)}
          /\ Post("close", n) \/ Post("failed", n)
          /\ UNCHANGED <<alive, page, step, attempts, shared, gamePath, ini>>
        BY <1>9 DEF StartGame
    <2>2. Game(n) \in [login: Login, answer: {"whole", "cut", "bare"},
                       user: 0..pressed, token: (-pressed)..pressed]
        <3>1. answer[n] \in {"whole", "cut", "bare"} /\ userid[n] \in 0..pressed
            BY <2>1 DEF StageInv, TypeOK
        <3>2. token \in (-pressed)..pressed /\ 0 \in (-pressed)..pressed
            BY <1>0 DEF TypeOK
        <3> QED BY <3>1, <3>2 DEF Game
    <2>3. games' \subseteq [login: Login, answer: {"whole", "cut", "bare"},
                            user: 0..pressed, token: (-pressed)..pressed]
        BY <2>1, <2>2 DEF TypeOK
    <2>4. queue' \in Seq([what: {"refused", "success", "garbled", "failed", "close"}, login: Login])
        BY <2>1, PostType
    <2>5. /\ userid' \in [Login -> 0..pressed] /\ failed' \in BOOLEAN
          /\ start' \in [Login -> {"none", "sleeping", "reading"}]
          /\ answer' \in [Login -> {"none", "whole", "cut", "bare"}]
        <3>1. failed' \in BOOLEAN
            BY <2>1, Zenon DEF TypeOK
        <3>2. 0 \in 0..pressed
            BY <1>0
        <3>3. userid' \in [Login -> 0..pressed]
            BY <2>1, <3>2 DEF TypeOK
        <3>4. /\ start' \in [Login -> {"none", "sleeping", "reading"}]
              /\ answer' \in [Login -> {"none", "whole", "cut", "bare"}]
            BY <2>1 DEF TypeOK
        <3> QED BY <3>1, <3>3, <3>4
    <2> QED BY <2>1, <2>3, <2>4, <2>5 DEF TypeOK, page, shared
<1>10. CASE ShowHead
    <2> DEFINE m == Head(queue)
    <2>1. /\ m \in Message /\ (Result(m) => step[m.login] = "posted")
          /\ m.what # "close"
          /\ step' = IF m.what = "failed" THEN step ELSE [step EXCEPT ![m.login] = "over"]
          /\ timers' = IF m.what = "success" THEN timers \union {m.login} ELSE timers
          /\ button' = (button \/ m.what # "garbled") /\ unshown' = (m.what = "garbled")
        BY <1>10, ShowStep
    <2>2. UNCHANGED <<alive, pressed, eager, attempts, answer, starts, shared, gamePath, ini>>
        BY <1>10 DEF ShowHead, Show
    <2>3. queue' \in Seq([what: {"refused", "success", "garbled", "failed", "close"}, login: Login])
        BY <1>10, QueueTyped, TakenAt DEF ShowHead, Show, Message
    <2> HIDE DEF m
    <2>4. m.login \in Login /\ m.what \in {"refused", "success", "garbled", "failed"}
        <3>1. m \in Message /\ m.what # "close"
            BY <2>1
        <3> QED BY <3>1 DEF Message
    <2>5. /\ step' \in [Login -> {"none", "connecting", "receiving", "naming", "posted", "over"}]
          /\ \A d \in Login : step'[d] # "none" <=> d <= pressed'
        <3>1. CASE m.what = "failed"
            BY <2>1, <2>2, <3>1 DEF TypeOK
        <3>2. CASE m.what # "failed"
            <4>1. Result(m)
                BY <2>4, <3>2 DEF Result
            <4>2. step[m.login] = "posted" /\ step' = [step EXCEPT ![m.login] = "over"]
                BY <2>1, <3>2, <4>1
            <4> QED BY <2>2, <2>4, <4>2, ThreadType
        <3> QED BY <3>1, <3>2
    <2>6. timers' \subseteq Login
        BY <2>1, <2>4 DEF TypeOK
    <2> QED BY <2>1, <2>2, <2>3, <2>5, <2>6 DEF TypeOK, starts, shared
<1>11. CASE Restart
    <2>1. alive' = TRUE /\ gamePath' = ini /\ UNCHANGED <<process, ini>>
        BY <1>11 DEF Restart
    <2>2. gamePath' \in Path
        BY <2>1 DEF TypeOK
    <2> QED BY <2>1, <2>2 DEF TypeOK, process, page, logins, starts, shared
<1>12. CASE UNCHANGED vars
    BY <1>12 DEF vars, process, page, logins, starts, shared, TypeOK
<1>13. ASSUME NEW n \in Login, ReceiveRefusal(n) PROVE TypeOK'
    BY <1>3, <1>13 DEF ReceiveRefusal, Shown, At
<1>14. CASE Dispatch
    BY <1>10, <1>14, EndType DEF Dispatch, ShowHead
<1>15. CASE Quit \/ Crash
    BY <1>15, EndType DEF Quit, Crash
<1> QED BY <1>1, <1>2, <1>4, <1>5, <1>6, <1>7, <1>8, <1>9, <1>11, <1>12, <1>13, <1>14, <1>15
        DEF Next, LoginThread, StartThread

-----------------------------------------------------------------------------
IInv == TypeOK /\ QueueInv /\ StageInv /\ ButtonInv /\ OnceInv /\ CredInv

LEMMA InitInv == Init => IInv
<1> SUFFICES ASSUME Init PROVE IInv
    OBVIOUS
<1>1. QueueInv /\ StageInv
    BY DEF Init, Nothing, QueueInv, StageInv
<1>2. Running = {} /\ Starting = {}
    BY DEF Init, Nothing, Running, Starting
<1>3. ButtonInv /\ OnceInv
    BY <1>2 DEF Init, ButtonInv, OnceInv
<1>4. CredInv
    BY DEF Init, Nothing, CredInv, Abs
<1> QED BY <1>1, <1>3, <1>4, TypeInit DEF IInv

LEMMA NextInv == IInv /\ [Next]_vars => IInv'
BY TypeNext, QueueStep, StageStep, ButtonStep, OnceStep, CredStep DEF IInv

(* The invariant behind the theorems that follow. *)
THEOREM LauncherInductive == Spec => []IInv
BY InitInv, NextInv, PTL DEF Spec

(* The state of the launcher keeps its types; no login counts past the     *)
(* bound of its attempts.                                                  *)
THEOREM LauncherTypeCorrect == Spec => []TypeOK
<1>1. IInv => TypeOK
    BY DEF IInv
<1> QED BY LauncherInductive, <1>1, PTL

(* The PLAY button keeps logins apart unless a start fails under one.      *)
THEOREM LauncherOneLogin == Spec => []OneLoginAtATime
<1>1. IInv => OneLoginAtATime
    BY DEF IInv, ButtonInv, OneLoginAtATime
<1> QED BY LauncherInductive, <1>1, PTL

(* The client is started once, with token and name of one login.           *)
THEOREM LauncherOwnCredentials == Spec => []OwnCredentials
<1>1. IInv => OwnCredentials
    BY DEF IInv, OnceInv, CredInv, OwnCredentials
<1> QED BY LauncherInductive, <1>1, PTL

-----------------------------------------------------------------------------
(* The result of a login is not lost on its way to the page.               *)

ResultOf(n) == \E m \in Range(queue) : m.what \in {"refused", "success", "garbled"} /\ m.login = n

(* A login thread that is over has posted a message when it was. *)
LEMMA LoginResult ==
    ASSUME TypeOK, ResultComes, NEW n \in Login,
           \/ Progress(n) \/ Refusal(n) \/ Bare(n) \/ Name(n)
           \/ \E part \in {"whole", "cut"} : Token(n, part)
    PROVE  ResultComes'
<1>1. step \in [Login -> {"none", "connecting", "receiving", "naming", "posted", "over"}]
    BY DEF TypeOK
<1>2. \/ \E x \in {"receiving", "naming"} :
            step' = [step EXCEPT ![n] = x] /\ queue' = queue
      \/ \E w \in {"refused", "success", "garbled"} : Post(w, n) /\ step' = [step EXCEPT ![n] = "posted"]
    <2>1. CASE Progress(n)
        BY <2>1 DEF Progress
    <2>2. CASE Refusal(n) \/ Bare(n) \/ Name(n)
        BY <2>2 DEF Refusal, Bare, Name
    <2>3. CASE \E part \in {"whole", "cut"} : Token(n, part)
        BY <2>3 DEF Token
    <2> QED BY <2>1, <2>2, <2>3
<1>3. \A k \in Login : ResultOf(k) => ResultOf(k)'
    <2>1. CASE queue' = queue
        BY <2>1 DEF ResultOf
    <2>2. ASSUME NEW w \in {"refused", "success", "garbled"}, Post(w, n)
          PROVE  Range(queue) \subseteq Range(queue')
        BY <2>2, PostRange
    <2> QED BY <1>2, <2>1, <2>2 DEF ResultOf
<1>4. ASSUME NEW w \in {"refused", "success", "garbled"}, Post(w, n) PROVE ResultOf(n)'
    <2> DEFINE m == [what |-> w, login |-> n]
    <2>1. m \in Range(queue')
        BY <1>4, PostRange
    <2>2. m.what = w /\ m.login = n
        OBVIOUS
    <2> HIDE DEF m
    <2> QED BY <2>1, <2>2 DEF ResultOf
<1>5. \A k \in Login : k # n => step'[k] = step[k]
    BY <1>1, <1>2
<1>6. step'[n] = "posted" => ResultOf(n)'
    BY <1>1, <1>2, <1>4
<1>7. \A k \in Login : step'[k] = "posted" => ResultOf(k)'
    BY <1>3, <1>5, <1>6 DEF ResultComes, ResultOf
<1>8. ~button' => Running' # {} \/ unshown'
    <2>1. n \in Running /\ Running' = Running
        BY LoginStep
    <2> QED BY <2>1
<1> QED BY <1>7, <1>8 DEF ResultComes, ResultOf

(* The page is shown a result, which is not that of another login. *)
LEMMA ShowResult ==
    ASSUME TypeOK, QueueInv, ResultComes, ShowHead
    PROVE  ResultComes'
<1> DEFINE m == Head(queue)
<1>1. /\ m \in Message /\ m.what # "close"
      /\ button' = (button \/ m.what # "garbled") /\ unshown' = (m.what = "garbled")
      /\ Range(queue) = {m} \union Range(queue')
      /\ step' = IF m.what = "failed" THEN step ELSE [step EXCEPT ![m.login] = "over"]
    BY ShowStep
<1>2. step \in [Login -> {"none", "connecting", "receiving", "naming", "posted", "over"}]
    BY DEF TypeOK
<1> HIDE DEF m
<1>3. ASSUME NEW n \in Login, step'[n] = "posted"
      PROVE  step[n] = "posted" /\ (m.what # "failed" => n # m.login)
    BY <1>1, <1>2, <1>3 DEF Message
<1>4. ASSUME NEW n \in Login, step'[n] = "posted"
      PROVE  ResultOf(n)'
    <2>1. PICK r \in Range(queue) : r.what \in {"refused", "success", "garbled"} /\ r.login = n
        BY <1>3, <1>4 DEF ResultComes
    <2>2. r # m
        BY <1>3, <1>4, <2>1
    <2> QED BY <1>1, <2>1, <2>2 DEF ResultOf
<1> QED BY <1>1, <1>4 DEF ResultComes, ResultOf

LEMMA ResultStep ==
    ASSUME TypeOK, QueueInv, ResultComes, [Next]_vars
    PROVE  ResultComes'
<1>0. /\ step \in [Login -> {"none", "connecting", "receiving", "naming", "posted", "over"}]
      /\ pressed \in 0..MaxLogins
    BY DEF TypeOK
<1>1. ASSUME NEW remember \in BOOLEAN, Press(remember) PROVE ResultComes'
    <2>1. /\ pressed + 1 \in Login /\ queue' = queue
          /\ step' = [step EXCEPT ![pressed + 1] = "connecting"]
        BY <1>0, <1>1, LauncherAssumption DEF Press, Login
    <2>2. pressed + 1 \in Running'
        BY <1>0, <2>1 DEF Running
    <2> QED BY <1>0, <2>1, <2>2 DEF ResultComes
<1>2. ASSUME NEW n \in Login,
             \/ Progress(n) \/ Refusal(n) \/ Bare(n) \/ Name(n)
             \/ \E part \in {"whole", "cut"} : Token(n, part)
      PROVE  ResultComes'
    BY <1>2, LoginResult
<1>3. ASSUME NEW n \in Login, Fire(n) \/ ReadName(n) PROVE ResultComes'
    BY <1>3 DEF Fire, ReadName, page, logins, ResultComes, Running
<1>4. ASSUME NEW n \in Login, StartGame(n) PROVE ResultComes'
    <2>1. /\ step' = step /\ button' = button /\ unshown' = unshown
          /\ Post("close", n) \/ Post("failed", n)
        BY <1>4 DEF StartGame, page
    <2>2. Range(queue) \subseteq Range(queue')
        BY <2>1, PostRange
    <2> QED BY <2>1, <2>2 DEF ResultComes, Running
<1>5. CASE ShowHead
    BY <1>5, ShowResult
<1>6. CASE End
    BY <1>6 DEF End, Nothing, ResultComes
<1>7. CASE UNCHANGED process
    BY <1>7 DEF process, page, logins, ResultComes, Running
<1> QED BY <1>1, <1>2, <1>3, <1>4, <1>5, <1>6, <1>7, StepKinds

(* However a login ends, its result reaches the page's queue, and the PLAY *)
(* button is off only while one is still to come, or after one that did    *)
(* not parse.                                                              *)
THEOREM LauncherResultComes == Spec => []ResultComes
<1>1. Init => ResultComes
    BY DEF Init, Nothing, ResultComes
<1>2. IInv /\ ResultComes /\ [Next]_vars => ResultComes'
    BY ResultStep DEF IInv
<1> QED BY LauncherInductive, <1>1, <1>2, PTL DEF Spec
=============================================================================
