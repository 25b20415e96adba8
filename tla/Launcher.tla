------------------------------ MODULE Launcher ------------------------------
(***************************************************************************)
(* The launcher (launcher/src/Launcher.cpp, main.cpp): a page in a web     *)
(* view, the window's thread that runs the page and takes the messages     *)
(* posted to the window, one thread for each login and one for each start  *)
(* of the game.  They share m_sessionToken and m_username without a lock.  *)
(*                                                                         *)
(* The logins of a process are numbered.  The name typed for login n is n; *)
(* the token the login server issues to it is n, or -n when it lost its    *)
(* end on the way.  0 is the empty string.                                 *)
(***************************************************************************)
EXTENDS Integers, Sequences, FiniteSets, Functions

CONSTANTS
    Path,         \* where the game may be
    DefaultPath,  \* "KnC.exe"
    InstalledAt,  \* where it is
    MaxAttempts,  \* 5 in the code: pieces that are no answer
    MaxLogins     \* bound: logins of one process

ASSUME LauncherAssumption ==
    /\ DefaultPath \in Path /\ InstalledAt \in Path
    /\ MaxAttempts \in Nat \ {0}
    /\ MaxLogins \in Nat

Login == 1..MaxLogins

VARIABLES
    alive,     \* the process runs
    button,    \* the PLAY button is enabled
    pressed,   \* how often it was pressed
    step,      \* where the thread of each login is
    attempts,  \* its counter
    answer,    \* how much of an acceptance it received, until the start is over
    timers,    \* the logins whose setTimeout(LAUNCH) is running
    start,     \* where the thread that starts the game for each login is
    userid,    \* the user name it has read
    queue,     \* the messages posted to the window
    token,     \* m_sessionToken
    username,  \* m_username
    games,     \* the clients started
    eager,     \* history: PLAY was pressed while a start was pending
    unshown,   \* history: the last result since PLAY was pressed did not parse
    failed,    \* a start has failed
    gamePath,  \* m_gamePath
    ini        \* the GamePath in launcher.ini

page == <<button, pressed, timers, eager, unshown>>
logins == <<step, attempts, answer>>
starts == <<start, userid, games, failed>>
shared == <<token, username>>
process == <<page, logins, starts, queue, shared>>
vars == <<alive, process, gamePath, ini>>

Nothing(x) == [n \in Login |-> x]

Init ==
    /\ alive = TRUE
    /\ button = TRUE /\ pressed = 0 /\ timers = {} /\ eager = FALSE /\ unshown = FALSE
    /\ step = Nothing("none") /\ attempts = Nothing(0) /\ answer = Nothing("none")
    /\ start = Nothing("none") /\ userid = Nothing(0)
    /\ games = {} /\ failed = FALSE
    /\ queue = <<>> /\ token = 0 /\ username = 0
    /\ ini = InstalledAt /\ gamePath = InstalledAt

-----------------------------------------------------------------------------
(* A login from the press of PLAY until the page has shown its result.     *)
Running == {n \in Login : step[n] \in {"connecting", "receiving", "naming", "posted"}}

(* A start from the success of a login until the page, or the end of the   *)
(* launcher, has shown its result.                                         *)
StartPending ==
    \/ timers # {}
    \/ \E n \in Login : start[n] \in {"sleeping", "reading"}
    \/ \E m \in Range(queue) : m.what \in {"failed", "close"}

Post(what, n) == queue' = Append(queue, [what |-> what, login |-> n])

(* doLogin in the page and the handler of LOGIN.  The name is remembered   *)
(* by writing the file anew, with the default path.                        *)
Rewritten == DefaultPath

ButtonAfterPress_On == TRUE
ButtonAfterPress == FALSE

Press(remember) ==
    /\ alive /\ button /\ pressed < MaxLogins
    /\ pressed' = pressed + 1
    /\ step' = [step EXCEPT ![pressed + 1] = "connecting"]
    /\ button' = ButtonAfterPress
    /\ eager' = (eager \/ StartPending) /\ unshown' = FALSE
    /\ ini' = IF remember THEN Rewritten ELSE ini
    /\ UNCHANGED <<alive, timers, attempts, answer, starts, queue, shared, gamePath>>

-----------------------------------------------------------------------------
(* Launcher::login and the thread around it.                               *)

At(n, where) == alive /\ step[n] = where

(* No socket, or no connection: "Cannot connect". *)
Connect(n) ==
    /\ At(n, "connecting")
    /\ \/ step' = [step EXCEPT ![n] = "receiving"] /\ UNCHANGED queue
       \/ step' = [step EXCEPT ![n] = "posted"] /\ Post("refused", n)
    /\ UNCHANGED <<alive, page, attempts, answer, starts, shared, gamePath, ini>>

(* The loop ends without an acceptance.                                    *)
Refused_Silent(n, what) ==
    /\ step' = [step EXCEPT ![n] = "posted"]
    /\ attempts' = [attempts EXCEPT ![n] = 0]
    /\ UNCHANGED queue

Refused(n, what) ==
    /\ step' = [step EXCEPT ![n] = "posted"]
    /\ attempts' = [attempts EXCEPT ![n] = 0]
    /\ Post(what, n)

(* The text of the server goes into the script showResult(...) with only   *)
(* its single quotes escaped: the script does not parse when the text has  *)
(* a line break or ends in a backslash ("garbled").                        *)
Shown(what) == {what, "garbled"}

(* recv() delivers a refusal, only the eight bytes of the header, or       *)
(* nothing within five seconds.                                            *)
ReceiveRefusal(n) ==
    /\ At(n, "receiving")
    /\ \E what \in Shown("refused") : Refused(n, what)
    /\ UNCHANGED <<alive, page, answer, starts, shared, gamePath, ini>>

GoesOn_Always(k) == TRUE
GoesOn(k) == k < MaxAttempts

(* Fewer bytes than a header, or another packet. *)
ReceiveJunk(n) ==
    /\ At(n, "receiving")
    /\ IF GoesOn(attempts[n] + 1)
       THEN attempts' = [attempts EXCEPT ![n] = @ + 1] /\ UNCHANGED <<step, queue>>
       ELSE Refused(n, "refused")
    /\ UNCHANGED <<alive, page, answer, starts, shared, gamePath, ini>>

(* recv() delivers an acceptance whole, cut within the token or after the  *)
(* success byte ("bare").  The token is stored if there is one, the user   *)
(* name after it.  Only a whole one has a text of the server.              *)
ReceiveAcceptance(n) ==
    /\ At(n, "receiving")
    /\ \E part \in {"whole", "cut", "bare"} :
        /\ answer' = [answer EXCEPT ![n] = part]
        /\ IF part = "bare"
           THEN step' = [step EXCEPT ![n] = "posted"] /\ Post("success", n) /\ UNCHANGED token
           ELSE /\ step' = [step EXCEPT ![n] = "naming"]
                /\ token' = IF part = "whole" THEN n ELSE -n
                /\ UNCHANGED queue
    /\ attempts' = [attempts EXCEPT ![n] = 0]
    /\ UNCHANGED <<alive, page, starts, username, gamePath, ini>>

StoredName_Kept(n) == IF username = 0 THEN n ELSE username
StoredName(n) == n

StoreName(n) ==
    /\ At(n, "naming")
    /\ username' = StoredName(n)
    /\ step' = [step EXCEPT ![n] = "posted"]
    /\ \E what \in IF answer[n] = "whole" THEN Shown("success") ELSE {"success"} : Post(what, n)
    /\ UNCHANGED <<alive, page, attempts, answer, starts, token, gamePath, ini>>

-----------------------------------------------------------------------------
(* The LAUNCH message after the timer, and Launcher::launchGame.           *)

Fire(n) ==
    /\ alive /\ n \in timers
    /\ timers' = timers \ {n}
    /\ start' = [start EXCEPT ![n] = "sleeping"]
    /\ UNCHANGED <<alive, button, pressed, eager, unshown, logins, userid, games, failed, queue,
                   shared, gamePath, ini>>

(* Nothing is passed unless both strings are there. *)
ReadName(n) ==
    /\ alive /\ start[n] = "sleeping"
    /\ start' = [start EXCEPT ![n] = "reading"]
    /\ userid' = [userid EXCEPT ![n] = IF token = 0 THEN 0 ELSE username]
    /\ UNCHANGED <<alive, page, logins, games, failed, queue, shared, gamePath, ini>>

Game(n) ==
    [login |-> n, answer |-> answer[n], user |-> userid[n],
     token |-> IF userid[n] = 0 THEN 0 ELSE token]

StartGame(n) ==
    /\ alive /\ start[n] = "reading"
    /\ \/ /\ gamePath = InstalledAt
          /\ games' = games \union {Game(n)}
          /\ Post("close", n) /\ UNCHANGED failed
       \/ failed' = TRUE /\ Post("failed", n) /\ UNCHANGED games
    /\ start' = [start EXCEPT ![n] = "none"]
    /\ userid' = [userid EXCEPT ![n] = 0]
    /\ answer' = [answer EXCEPT ![n] = "none"]
    /\ UNCHANGED <<alive, page, step, attempts, shared, gamePath, ini>>

-----------------------------------------------------------------------------
(* The window's thread.                                                    *)

(* The process ends, and every thread with it; the next one starts afresh. *)
End ==
    /\ alive' = FALSE
    /\ button' = TRUE /\ pressed' = 0 /\ timers' = {} /\ eager' = FALSE /\ unshown' = FALSE
    /\ step' = Nothing("none") /\ attempts' = Nothing(0) /\ answer' = Nothing("none")
    /\ start' = Nothing("none") /\ userid' = Nothing(0)
    /\ games' = {} /\ failed' = FALSE
    /\ queue' = <<>> /\ token' = 0 /\ username' = 0
    /\ UNCHANGED <<gamePath, ini>>

(* showResult, showOffline, showLaunchError: each enables the button.  A   *)
(* script that does not parse does nothing, and nobody is told.            *)
Show(m) ==
    /\ button' = (button \/ m.what # "garbled")
    /\ unshown' = (m.what = "garbled")
    /\ step' = IF m.what = "failed" THEN step ELSE [step EXCEPT ![m.login] = "over"]
    /\ timers' = IF m.what = "success" THEN timers \union {m.login} ELSE timers
    /\ queue' = Tail(queue)
    /\ UNCHANGED <<alive, pressed, eager, attempts, answer, starts, shared, gamePath, ini>>

Dispatch ==
    /\ alive /\ queue # <<>>
    /\ IF Head(queue).what = "close" THEN End ELSE Show(Head(queue))

(* The window is closed. *)
Quit == alive /\ End

(* Two threads use the strings at once, one of them writing: a crash is    *)
(* one outcome, the other ones are what the steps in between show.         *)
Racing ==
    \E n \in Login : step[n] = "naming" /\
        \E m \in Login : (m # n /\ step[m] = "naming") \/ start[m] = "reading"

Crash == alive /\ Racing /\ End

(* The player starts the launcher again. *)
Restart ==
    /\ ~alive
    /\ alive' = TRUE /\ gamePath' = ini
    /\ UNCHANGED <<process, ini>>

-----------------------------------------------------------------------------
LoginThread(n) ==
    Connect(n) \/ ReceiveRefusal(n) \/ ReceiveJunk(n) \/ ReceiveAcceptance(n) \/ StoreName(n)

StartThread(n) == Fire(n) \/ ReadName(n) \/ StartGame(n)

Next ==
    \/ \E remember \in BOOLEAN : Press(remember)
    \/ \E n \in Login : LoginThread(n) \/ StartThread(n)
    \/ Dispatch \/ Quit \/ Crash \/ Restart

Spec == Init /\ [][Next]_vars

(* Threads run, recv() returns within five seconds, timers fire, and the   *)
(* window takes its messages.                                              *)
Fairness ==
    /\ \A n \in Login : WF_vars(LoginThread(n)) /\ WF_vars(StartThread(n))
    /\ WF_vars(Dispatch)

FairSpec == Spec /\ Fairness

-----------------------------------------------------------------------------
TypeOK ==
    /\ alive \in BOOLEAN /\ button \in BOOLEAN /\ failed \in BOOLEAN
    /\ eager \in BOOLEAN /\ unshown \in BOOLEAN
    /\ pressed \in 0..MaxLogins
    /\ step \in [Login -> {"none", "connecting", "receiving", "naming", "posted", "over"}]
    /\ \A n \in Login : step[n] # "none" <=> n <= pressed
    /\ attempts \in [Login -> 0..(MaxAttempts - 1)]
    /\ answer \in [Login -> {"none", "whole", "cut", "bare"}]
    /\ timers \subseteq Login
    /\ start \in [Login -> {"none", "sleeping", "reading"}]
    /\ userid \in [Login -> 0..pressed]
    /\ queue \in Seq([what: {"refused", "success", "garbled", "failed", "close"}, login: Login])
    /\ token \in (-pressed)..pressed
    /\ username \in 0..pressed
    /\ games \subseteq [login: Login, answer: {"whole", "cut", "bare"},
                       user: 0..pressed, token: (-pressed)..pressed]
    /\ ini \in Path /\ gamePath \in Path

(* The button keeps logins apart: two run at once only after the player    *)
(* pressed PLAY while the game was being started and that start failed,    *)
(* which enables the button under a login that is still running.           *)
OneLoginAtATime == (eager /\ failed) \/ \A m, n \in Running : m = n

Abs(t) == IF t < 0 THEN -t ELSE t

(* Unless the player presses PLAY while the game is being started, one     *)
(* game is started, its token and user name come from one login, and they  *)
(* are those of the login it was started for if its answer came whole.     *)
OwnCredentials ==
    ~eager => /\ \A g, h \in games : g = h
              /\ \A g \in games : g.user = Abs(g.token)
              /\ \A g \in games : g.answer = "whole" => g.token = g.login

(* Logins end, however the server answers or stays silent, and so do       *)
(* starts of the game; and PLAY can be pressed again, but for the one case *)
(* that the result was a script that does not parse.                       *)
Answered ==
    /\ Running # {} ~> Running = {}
    /\ StartPending ~> ~StartPending
    /\ ~button ~> button \/ unshown

(* What Answered rests on: a login whose thread is over has its result in  *)
(* the queue, and the button is off only while there is such a login or    *)
(* one whose thread runs, or after a result that did not parse.            *)
ResultComes ==
    /\ \A n \in Login : step[n] = "posted" =>
          \E m \in Range(queue) : m.what \in {"refused", "success", "garbled"} /\ m.login = n
    /\ ~button => Running # {} \/ unshown
=============================================================================
