----------------------------- MODULE AntiCheat -----------------------------
(***************************************************************************)
(* The anti-cheat checks of the game server and the escalation from a      *)
(* warning to a ban (server/game/src/handlers/AntiCheatHandler.cpp).       *)
(*                                                                         *)
(* All handlers run on the io thread.  The checks share s_mutex, which is  *)
(* not recursive: locking it again on the thread that holds it is undefined *)
(* behaviour, which blocks the thread for ever where std::mutex is a plain *)
(* lock and throws where it checks its owner; the exception leaves run()   *)
(* and main ends.                                                          *)
(***************************************************************************)
EXTENDS Integers

CONSTANTS
    Session,     \* the sessions
    Move,        \* the positions clients report: how far, how long after the last
    LapTime,     \* the lap times clients report, in ms
    Speed,       \* the speeds clients report, in units per second
    MaxLate      \* bound: packets of a session dispatched after stop()

ASSUME AntiCheatAssumption ==
    /\ Move \subseteq [distance: Nat, delta: Nat]
    /\ LapTime \subseteq Nat
    /\ Speed \subseteq Nat
    /\ MaxLate \in Nat

VARIABLES
    server,    \* the io thread: "serving", "blocked" in lock(), "exited"
    stopped,   \* the sessions that are no longer connected
    late,      \* packets of a stopped session still to be dispatched
    tracked,   \* the sessions with a position in s_positionHistory
    strikes,   \* s_violationCounts
    warnings,  \* how many warnings reached the client
    listed,    \* the sessions that left a row in the table bans
    flagged,   \* the sessions that set is_banned of their account
    unsaved    \* history: the sessions one of whose ban statements failed

bans == <<listed, flagged, unsaved>>
vars == <<server, stopped, late, tracked, strikes, warnings, bans>>

MaxSpeed == 500           \* DEFAULT_MAX_SPEED
TeleportThreshold == 100  \* TELEPORT_THRESHOLD
MinLapTime == 15000       \* MIN_LAP_TIME_MS
KickAt == 3               \* VIOLATION_THRESHOLD_KICK
BanAt == 10               \* VIOLATION_THRESHOLD_BAN

(* What validatePosition finds in a move: nothing when two packets carry   *)
(* the same millisecond, a teleport before a speed.                        *)
Finding(move) ==
    IF move.delta = 0 THEN "none"
    ELSE IF move.distance > TeleportThreshold /\ move.delta < 100 THEN "high"
    ELSE IF move.distance * 1000 > MaxSpeed * move.delta THEN "medium"
    ELSE "none"

(* A packet of s is dispatched, also after stop(): see Rooms. *)
Dispatched(s) == server = "serving" /\ (s \notin stopped \/ late[s] > 0)

Consume(s) == late' = IF s \in stopped THEN [late EXCEPT ![s] = @ - 1] ELSE late

(* What reportViolation decides: severity first, then the count. *)
Penalty_LateKick(severity, count) ==
    IF severity = "critical" \/ count >= BanAt THEN "ban"
    ELSE IF severity = "high" \/ count > KickAt THEN "kick"
    ELSE "warning"

Penalty_KickFirst(severity, count) ==
    IF severity = "high" \/ count >= KickAt THEN "kick"
    ELSE IF severity = "critical" \/ count >= BanAt THEN "ban"
    ELSE "warning"

Penalty(severity, count) ==
    IF severity = "critical" \/ count >= BanAt THEN "ban"
    ELSE IF severity = "high" \/ count >= KickAt THEN "kick"
    ELSE "warning"

(* session->stop(), of a kick, a ban, or a disconnection; n packets are    *)
(* dispatched after it.  It does nothing to a session that is stopped.     *)
StopSession_Never(s, n) == Consume(s) /\ UNCHANGED stopped

StopSession(s, n) ==
    /\ stopped' = stopped \cup {s}
    /\ late' = IF s \in stopped THEN [late EXCEPT ![s] = @ - 1] ELSE [late EXCEPT ![s] = n]

(* The two statements of a ban, each of which may fail; takeAction does    *)
(* not look.  Every violation after the tenth asks for the ban again.      *)
Ban(s) ==
    \E row, flag \in BOOLEAN :
        /\ listed' = IF row THEN listed \cup {s} ELSE listed
        /\ flagged' = IF flag THEN flagged \cup {s} ELSE flagged
        /\ unsaved' = IF row /\ flag THEN unsaved ELSE unsaved \cup {s}

(* reportViolation and takeAction, called with s_mutex free. *)
ReportViolation(s, severity, n) ==
    LET penalty == Penalty(severity, strikes[s] + 1)
    IN  /\ strikes' = [strikes EXCEPT ![s] = @ + 1]
        /\ IF penalty = "ban" THEN Ban(s) ELSE UNCHANGED bans
        /\ IF penalty = "warning"
           THEN /\ warnings' = [warnings EXCEPT ![s] = IF s \in stopped THEN @ ELSE @ + 1]
                /\ Consume(s)
                /\ UNCHANGED stopped
           ELSE StopSession(s, n) /\ UNCHANGED warnings
        /\ UNCHANGED <<server, tracked>>

(* A packet that its handler finds nothing wrong with. *)
Pass(s) ==
    /\ Consume(s)
    /\ UNCHANGED <<server, stopped, strikes, warnings, bans>>

------------------------------------------------------------------------------
Init ==
    /\ server = "serving"
    /\ stopped = {}
    /\ late = [s \in Session |-> 0]
    /\ tracked = {}
    /\ strikes = [s \in Session |-> 0]
    /\ warnings = [s \in Session |-> 0]
    /\ listed = {} /\ flagged = {} /\ unsaved = {}

(* handlePosition and validatePosition, which holds s_mutex while it calls *)
(* reportViolation: what relocking does is up to the build.                *)
Position(s, move) ==
    /\ Dispatched(s)
    /\ IF s \in tracked /\ Finding(move) # "none"
       THEN /\ server' \in {"blocked", "exited"}
            /\ UNCHANGED <<stopped, late, tracked, strikes, warnings, bans>>
       ELSE tracked' = tracked \cup {s} /\ Pass(s)

(* validateLapTime and validateSpeed take no lock themselves; the race     *)
(* handler that calls them is not in the repository, and nobody sets a     *)
(* limit of its own for a map.                                             *)
LapComplete(s, time, n) ==
    /\ Dispatched(s)
    /\ IF time < MinLapTime
       THEN ReportViolation(s, "high", n)
       ELSE Pass(s) /\ UNCHANGED tracked

SpeedReport(s, speed, n) ==
    /\ Dispatched(s)
    /\ IF speed * 10 > MaxSpeed * 12
       THEN ReportViolation(s, "medium", n)
       ELSE Pass(s) /\ UNCHANGED tracked

Disconnect(s, n) ==
    /\ server = "serving" /\ s \notin stopped
    /\ StopSession(s, n)
    /\ UNCHANGED <<server, tracked, strikes, warnings, bans>>

Next ==
    \E s \in Session :
        \/ \E move \in Move : Position(s, move)
        \/ \E time \in LapTime, n \in 0..MaxLate : LapComplete(s, time, n)
        \/ \E speed \in Speed, n \in 0..MaxLate : SpeedReport(s, speed, n)
        \/ \E n \in 0..MaxLate : Disconnect(s, n)

Spec == Init /\ [][Next]_vars

------------------------------------------------------------------------------
(* The shape of the tables. *)
TypeOK ==
    /\ server \in {"serving", "blocked", "exited"}
    /\ stopped \subseteq Session
    /\ late \in [Session -> Nat]
    /\ tracked \subseteq Session
    /\ strikes \in [Session -> Nat]
    /\ warnings \in [Session -> 0..(KickAt - 1)]
    /\ listed \cup flagged \cup unsaved \subseteq stopped

(* Nobody stays connected after KickAt violations, of whatever severities. *)
ThirdStrikeStops == \A s \in Session : strikes[s] >= KickAt => s \in stopped

(* Nobody is banned for fewer than BanAt violations, and whoever has as    *)
(* many is banned in both tables unless a statement of that ban failed: a  *)
(* ban is not lost to the kick that a count of BanAt also asks for.        *)
BannedAtTen ==
    \A s \in Session :
        /\ s \in listed \cup flagged => strikes[s] >= BanAt
        /\ strikes[s] >= BanAt /\ s \notin unsaved => s \in listed \cap flagged

(* A connected session has been warned of each of its violations: those    *)
(* that cost more would have stopped it.                                   *)
WarnedOfEach == \A s \in Session : s \notin stopped => warnings[s] = strikes[s]

(* AntiCheatHandler.h:37 says of the severity High "Temp ban (24h)": a lap *)
(* below the minimum asks for a ban, recorded or not.                      *)
HighBans ==
    [][\A s \in Session, n \in 0..MaxLate, time \in LapTime :
         time < MinLapTime /\ LapComplete(s, time, n) =>
            s \in listed' \cup flagged' \cup unsaved']_vars

(* A rejected position is reported and the server goes on.                 *)
GoesOnServing == server = "serving"
=============================================================================
