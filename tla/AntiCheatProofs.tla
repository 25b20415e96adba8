-------------------------- MODULE AntiCheatProofs --------------------------
(***************************************************************************)
(* What the anti-cheat keeps for any sessions, any reports and any number  *)
(* of packets after stop(), and what its position check never punishes.    *)
(***************************************************************************)
EXTENDS AntiCheat, TLAPS

(* A move that is not faster than MaxSpeed is never a finding: the         *)
(* teleport check of validatePosition catches only what its speed check    *)
(* would catch too, at twice the limit or more.                            *)
THEOREM HonestMovesPass ==
    \A move \in [distance: Nat, delta: Nat] :
        /\ move.distance * 1000 <= MaxSpeed * move.delta => Finding(move) = "none"
        /\ Finding(move) = "high" => move.distance * 1000 > 2 * MaxSpeed * move.delta
BY SMT DEF Finding, MaxSpeed, TeleportThreshold

------------------------------------------------------------------------------
(* The three facts about the escalation depend on each other: a session    *)
(* that is still connected has been warned of all its violations and has   *)
(* fewer than KickAt of them, so the BanAt-th finds it stopped.            *)
IInv == TypeOK /\ ThirdStrikeStops /\ BannedAtTen /\ WarnedOfEach

(* A session is stopped and its packets are counted. *)
LEMMA StopType ==
    ASSUME TypeOK, NEW s \in Session, NEW n \in 0..MaxLate, StopSession(s, n),
           s \notin stopped \/ late[s] > 0
    PROVE  /\ stopped' = stopped \cup {s}
           /\ stopped' \subseteq Session
           /\ late' \in [Session -> Nat]
BY AntiCheatAssumption DEF TypeOK, StopSession

(* A packet of a session is consumed. *)
LEMMA ConsumeType ==
    ASSUME TypeOK, NEW s \in Session, Consume(s), Dispatched(s)
    PROVE  late' \in [Session -> Nat]
BY DEF TypeOK, Consume, Dispatched

(* Every violation is answered as its count and severity ask for. *)
LEMMA ReportInv ==
    ASSUME IInv, NEW s \in Session, NEW severity \in {"medium", "high"},
           NEW n \in 0..MaxLate, Dispatched(s), ReportViolation(s, severity, n)
    PROVE  IInv'
<1> DEFINE penalty == Penalty(severity, strikes[s] + 1)
<1>1. /\ strikes \in [Session -> Nat] /\ warnings \in [Session -> 0..(KickAt - 1)]
      /\ listed \cup flagged \cup unsaved \subseteq stopped
      /\ stopped \subseteq Session /\ TypeOK
    BY DEF IInv, TypeOK
<1>2. /\ strikes' = [strikes EXCEPT ![s] = strikes[s] + 1]
      /\ IF penalty = "ban" THEN Ban(s) ELSE UNCHANGED bans
      /\ UNCHANGED <<server, tracked>>
    BY DEF ReportViolation
<1>3. \A t \in Session : strikes'[t] = IF t = s THEN strikes[t] + 1 ELSE strikes[t]
    BY <1>1, <1>2
<1>4. penalty = "ban" <=> strikes[s] + 1 >= BanAt
    BY DEF Penalty, KickAt, BanAt
<1>5. penalty = "warning" => strikes[s] + 1 < KickAt
    BY <1>1 DEF Penalty, KickAt, BanAt
<1>6. /\ penalty = "ban" =>
            /\ listed \subseteq listed' /\ listed' \subseteq listed \cup {s}
            /\ flagged \subseteq flagged' /\ flagged' \subseteq flagged \cup {s}
            /\ unsaved \subseteq unsaved' /\ unsaved' \subseteq unsaved \cup {s}
            /\ s \in (listed' \cap flagged') \cup unsaved'
      /\ penalty # "ban" => listed' = listed /\ flagged' = flagged /\ unsaved' = unsaved
    BY <1>2 DEF Ban, bans
<1>7. BannedAtTen'
    <2>1. SUFFICES ASSUME NEW t \in Session
                   PROVE  /\ t \in listed' \cup flagged' => strikes'[t] >= BanAt
                          /\ strikes'[t] >= BanAt /\ t \notin unsaved' =>
                                t \in listed' \cap flagged'
        BY DEF BannedAtTen
    <2>2. /\ t \in listed \cup flagged => strikes[t] >= BanAt
          /\ strikes[t] >= BanAt /\ t \notin unsaved => t \in listed \cap flagged
          /\ strikes[t] \in Nat
        BY <1>1 DEF IInv, BannedAtTen
    <2>3. CASE t = s
        BY <1>3, <1>4, <1>6, <2>2, <2>3 DEF BanAt
    <2>4. CASE t # s
        BY <1>3, <1>6, <2>2, <2>4
    <2> QED BY <2>3, <2>4
<1>8. CASE penalty = "warning"
    <2>1. /\ warnings' = [warnings EXCEPT ![s] = IF s \in stopped THEN @ ELSE @ + 1]
          /\ Consume(s)
          /\ UNCHANGED stopped
        BY <1>8 DEF ReportViolation
    <2>2. listed' = listed /\ flagged' = flagged /\ unsaved' = unsaved
        BY <1>8, <1>6
    <2>3. s \notin stopped => warnings[s] = strikes[s]
        BY DEF IInv, WarnedOfEach
    <2>4. warnings' \in [Session -> 0..(KickAt - 1)]
        BY <1>1, <1>5, <1>8, <2>1, <2>3 DEF KickAt
    <2>5. late' \in [Session -> Nat]
        BY <1>1, <2>1, ConsumeType
    <2>6. TypeOK'
        BY <1>1, <1>2, <2>1, <2>2, <2>4, <2>5 DEF TypeOK
    <2>7. ThirdStrikeStops'
        BY <1>1, <1>3, <1>5, <1>8, <2>1 DEF IInv, ThirdStrikeStops, KickAt
    <2>8. WarnedOfEach'
        BY <1>1, <1>3, <2>1 DEF IInv, WarnedOfEach
    <2> QED BY <1>7, <2>6, <2>7, <2>8 DEF IInv
<1>9. CASE penalty # "warning"
    <2>1. StopSession(s, n) /\ UNCHANGED warnings
        BY <1>9 DEF ReportViolation
    <2>2. /\ stopped' = stopped \cup {s} /\ stopped' \subseteq Session
          /\ late' \in [Session -> Nat]
        BY <1>1, <2>1, StopType DEF Dispatched
    <2>3. TypeOK'
        <3>1. listed' \cup flagged' \cup unsaved' \subseteq stopped'
            BY <1>1, <1>6, <2>2
        <3>2. strikes' \in [Session -> Nat]
            BY <1>1, <1>2
        <3>3. warnings' \in [Session -> 0..(KickAt - 1)]
            BY <1>1, <2>1
        <3> QED BY <1>1, <1>2, <2>2, <3>1, <3>2, <3>3 DEF TypeOK
    <2>4. ThirdStrikeStops'
        BY <1>1, <1>3, <2>2 DEF IInv, ThirdStrikeStops
    <2>5. WarnedOfEach'
        BY <1>1, <1>3, <2>1, <2>2 DEF IInv, WarnedOfEach
    <2> QED BY <1>7, <2>3, <2>4, <2>5 DEF IInv
<1> QED BY <1>8, <1>9

(* A packet that is found in order changes nothing the invariant speaks of. *)
LEMMA PassInv ==
    ASSUME IInv, NEW s \in Session, Dispatched(s), Pass(s), tracked' \subseteq Session
    PROVE  IInv'
<1>1. late' \in [Session -> Nat]
    BY ConsumeType DEF Pass, IInv
<1> QED BY <1>1 DEF Pass, bans, IInv, TypeOK, ThirdStrikeStops, BannedAtTen, WarnedOfEach

(* Nothing is tracked, counted or banned at the start. *)
LEMMA InitInv == Init => IInv
BY DEF Init, IInv, TypeOK, ThirdStrikeStops, BannedAtTen, WarnedOfEach, KickAt, BanAt

(* Every packet and every disconnection preserves the invariant. *)
LEMMA NextInv == IInv /\ [Next]_vars => IInv'
<1> SUFFICES ASSUME IInv, [Next]_vars PROVE IInv'
    OBVIOUS
<1> USE DEF Dispatched
<1>1. CASE UNCHANGED vars
    BY <1>1 DEF vars, bans, IInv, TypeOK, ThirdStrikeStops, BannedAtTen, WarnedOfEach
<1>2. ASSUME NEW s \in Session, NEW move \in Move, Position(s, move) PROVE IInv'
    <2>1. CASE s \in tracked /\ Finding(move) # "none"
        BY <1>2, <2>1
           DEF Position, bans, IInv, TypeOK, ThirdStrikeStops, BannedAtTen, WarnedOfEach
    <2>2. CASE ~(s \in tracked /\ Finding(move) # "none")
        <3>1. tracked' = tracked \cup {s} /\ Pass(s)
            BY <1>2, <2>2 DEF Position
        <3> QED BY <1>2, <3>1, PassInv DEF Position, IInv, TypeOK
    <2> QED BY <2>1, <2>2
<1>3. ASSUME NEW s \in Session, NEW time \in LapTime, NEW n \in 0..MaxLate,
             LapComplete(s, time, n)
      PROVE  IInv'
    BY <1>3, ReportInv, PassInv DEF LapComplete, IInv, TypeOK
<1>4. ASSUME NEW s \in Session, NEW speed \in Speed, NEW n \in 0..MaxLate,
             SpeedReport(s, speed, n)
      PROVE  IInv'
    BY <1>4, ReportInv, PassInv DEF SpeedReport, IInv, TypeOK
<1>5. ASSUME NEW s \in Session, NEW n \in 0..MaxLate, Disconnect(s, n) PROVE IInv'
    <2>1. /\ stopped' = stopped \cup {s} /\ stopped' \subseteq Session
          /\ late' \in [Session -> Nat]
        BY <1>5, StopType DEF Disconnect, IInv
    <2> QED BY <1>5, <2>1
            DEF Disconnect, bans, IInv, TypeOK, ThirdStrikeStops, BannedAtTen, WarnedOfEach
<1> QED BY <1>1, <1>2, <1>3, <1>4, <1>5 DEF Next

(* The escalation's invariant. *)
THEOREM Inductive == Spec => []IInv
BY InitInv, NextInv, PTL DEF Spec

(* The anti-cheat's tables keep their types: nobody is warned more than    *)
(* KickAt - 1 times, and only stopped sessions are banned.                 *)
THEOREM AntiCheatTypeCorrect == Spec => []TypeOK
<1>1. IInv => TypeOK
    BY DEF IInv
<1> QED BY <1>1, Inductive, PTL

(* Three violations cost the connection. *)
THEOREM ThirdStrike == Spec => []ThirdStrikeStops
<1>1. IInv => ThirdStrikeStops
    BY DEF IInv
<1> QED BY <1>1, Inductive, PTL

(* Ten violations cost the account, fewer never do: the tenth bans it in   *)
(* both tables, whatever came between, unless one of the two statements    *)
(* failed.                                                                 *)
THEOREM TenStrikes == Spec => []BannedAtTen
<1>1. IInv => BannedAtTen
    BY DEF IInv
<1> QED BY <1>1, Inductive, PTL
=============================================================================
