--------------------------- MODULE HandoffProofs ---------------------------
(***************************************************************************)
(* Proofs about Handoff, for any players, addresses, characters and        *)
(* bounds: the type invariant, that pending sessions are used once and     *)
(* from their own address, and that a patient player who is alone at an    *)
(* address is recognized.                                                  *)
(***************************************************************************)
EXTENDS Handoff, TLAPS

(* A token names one row, a row carries its account's address, and a row   *)
(* that was found and is still there is one whose deletion failed.         *)
RowsInv ==
    /\ \A r, q \in rows : r.token = q.token => r = q
    /\ \A r \in rows : r.addr = Home[r.account]
    /\ \A c \in Conn, r \in rows : row[c] = r.token => r.token \in kept

(* Only open sessions have an account, one of the peer's address.          *)
AccountInv ==
    \A c \in Conn : account[c] # Nobody =>
        phase[c] = "open" /\ Home[account[c]] = From(c)

Settled(p) == p \in Patient /\ Alone(p)

(* A patient player uses the connection that waits.                        *)
WaitInv == \A c \in Conn : phase[c] = "waiting" /\ owner[c] \in Patient => using[owner[c]] = c

IsNewest(R, addr, t) ==
    /\ \E r \in R : r.addr = addr /\ r.token = t
    /\ \A q \in R : q.addr = addr => q.token <= t

(* The ticket of a settled player, held or already on its way with a       *)
(* connection, is the newest row of the address.                           *)
TicketInv ==
    \A p \in Player : Settled(p) /\ ticket[p] > 0 => using[p] = 0 /\ IsNewest(rows, Home[p], ticket[p])

ClaimInv ==
    \A c \in Conn :
        phase[c] = "waiting" /\ claim[c] > 0 /\ Settled(owner[c])
            => IsNewest(rows, Home[owner[c]], claim[c])

IInv ==
    /\ TypeOK /\ RowsInv /\ OneUse /\ AccountInv
    /\ WaitInv /\ TicketInv /\ ClaimInv /\ Recognized

-----------------------------------------------------------------------------
(* The type invariant.                                                     *)

LEMMA TypeInit == Init => TypeOK
BY HandoffAssumption DEF Init, TypeOK, Conn

LEMMA CloseType ==
    ASSUME TypeOK, NEW C, C \subseteq 1..made, Close(C), UNCHANGED banned,
           armed' \in BOOLEAN, running' = armed'
    PROVE  TypeOK'
<1> USE HandoffAssumption DEF Conn
<1>1. /\ using' \in [Player -> 0..made'] /\ phase' \in [Conn -> {"unused", "waiting", "reset", "open", "closed"}]
      /\ owner' \in [Conn -> Player \union {Nobody}] /\ claim' \in [Conn -> 0..tokens']
      /\ account' \in [Conn -> Player \union {Nobody}]
      /\ screen' \in [Conn -> {"connecting", "creation", "tutorial", "lobby"}]
    BY DEF TypeOK, Close, session, database
<1>2. /\ rows' \subseteq [token: 1..tokens', addr: Address, account: Player]
      /\ tokens' \in 0..MaxToken /\ made' \in 0..MaxConn /\ ticket' \in [Player -> 0..tokens']
      /\ row' \in [Conn -> 0..tokens'] /\ failures' \in Nat /\ kept' \subseteq 1..tokens'
      /\ unread' \subseteq Conn /\ banned' \subseteq Address
    BY DEF TypeOK, Close, session, database
<1>3. /\ \A c \in Conn : phase'[c] # "unused" <=> c <= made'
      /\ \A c \in Conn : phase'[c] \in {"waiting", "reset", "open"} <=> owner'[c] \in Player
    BY DEF TypeOK, Close
<1> QED BY <1>1, <1>2, <1>3 DEF TypeOK

LEMMA AdmitType ==
    ASSUME TypeOK, NEW c \in Conn, Accept(c)
    PROVE  TypeOK'
<1> USE HandoffAssumption DEF Conn
<1>1. phase[c] = "waiting" /\ owner[c] \in Player /\ c <= made /\ c \in 1..MaxConn
    BY DEF TypeOK, Accept
<1>2. /\ phase' \in [Conn -> {"unused", "waiting", "reset", "open", "closed"}]
      /\ \A d \in Conn : phase'[d] # "unused" <=> d <= made'
      /\ \A d \in Conn : phase'[d] \in {"waiting", "reset", "open"} <=> owner'[d] \in Player
    BY <1>1 DEF TypeOK, Accept
<1>3. /\ tokens' \in 0..MaxToken /\ made' \in 0..MaxConn /\ using' \in [Player -> 0..made']
      /\ ticket' \in [Player -> 0..tokens'] /\ owner' \in [Conn -> Player \union {Nobody}]
      /\ claim' \in [Conn -> 0..tokens'] /\ banned' \subseteq Address
      /\ armed' \in BOOLEAN /\ running' = armed'
    BY DEF TypeOK, Accept, process
<1>4. CASE AdmitUnknown(c)
    <2>1. /\ rows' \subseteq [token: 1..tokens', addr: Address, account: Player]
          /\ row' \in [Conn -> 0..tokens'] /\ account' \in [Conn -> Player \union {Nobody}]
          /\ screen' \in [Conn -> {"connecting", "creation", "tutorial", "lobby"}]
          /\ kept' \subseteq 1..tokens'
        BY <1>4 DEF TypeOK, Accept, AdmitUnknown
    <2>2. failures \in Nat /\ unread \subseteq Conn
        BY DEF TypeOK
    <2>3. \/ failures' = failures /\ unread' = unread
          \/ failures' = failures + 1 /\ unread' = unread \union {c}
        BY <1>4 DEF AdmitUnknown
    <2>4. failures' \in Nat
        BY <2>2, <2>3
    <2>5. unread' \subseteq Conn
        BY <2>2, <2>3
    <2> QED BY <1>2, <1>3, <2>1, <2>4, <2>5 DEF TypeOK
<1>5. CASE AdmitKnown(c)
    <2>1. PICK r \in Newest(From(c)), loaded \in Executed, deleted \in Executed :
            /\ row' = [row EXCEPT ![c] = r.token]
            /\ account' = [account EXCEPT ![c] = r.account]
            /\ failures' = failures + (IF loaded /\ deleted THEN 0 ELSE 1)
            /\ screen' = IF loaded /\ Character[r.account] # "none"
                         THEN [screen EXCEPT ![c] = "lobby"] ELSE screen
            /\ IF deleted
               THEN rows' = rows \ RowsOf(From(c)) /\ UNCHANGED kept
               ELSE kept' = kept \union {r.token} /\ UNCHANGED rows
            /\ UNCHANGED unread
        BY <1>5 DEF AdmitKnown
    <2>2. r \in rows /\ r.token \in 1..tokens /\ r.account \in Player
        BY DEF Newest, RowsOf, TypeOK
    <2>3. /\ tokens \in Nat /\ row \in [Conn -> 0..tokens]
          /\ account \in [Conn -> Player \union {Nobody}]
          /\ screen \in [Conn -> {"connecting", "creation", "tutorial", "lobby"}]
          /\ rows \subseteq [token: 1..tokens, addr: Address, account: Player]
          /\ kept \subseteq 1..tokens /\ failures \in Nat /\ unread \subseteq Conn
        BY DEF TypeOK
    <2>9. tokens' = tokens
        BY DEF Accept
    <2>4. /\ row' \in [Conn -> 0..tokens'] /\ account' \in [Conn -> Player \union {Nobody}]
        BY <2>1, <2>2, <2>3, <2>9
    <2>5. screen' \in [Conn -> {"connecting", "creation", "tutorial", "lobby"}]
        BY <2>1, <2>3
    <2>6. rows' \subseteq [token: 1..tokens', addr: Address, account: Player]
        BY <2>1, <2>3, <2>9
    <2>7. kept' \subseteq 1..tokens'
        BY <2>1, <2>2, <2>3, <2>9
    <2>8. failures' \in Nat /\ unread' \subseteq Conn
        BY <2>1, <2>3
    <2> QED BY <1>2, <1>3, <2>4, <2>5, <2>6, <2>7, <2>8 DEF TypeOK
<1> QED BY <1>4, <1>5 DEF Accept

LEMMA TypeNext == TypeOK /\ [Next]_vars => TypeOK'
<1> SUFFICES ASSUME TypeOK, [Next]_vars PROVE TypeOK'
    OBVIOUS
<1> USE HandoffAssumption DEF Conn
<1>1. ASSUME NEW p \in Player, Redirect(p) PROVE TypeOK'
    <2>1. /\ tokens \in Nat /\ tokens' = tokens + 1 /\ tokens' \in 0..MaxToken /\ Home[p] \in Address
        BY <1>1 DEF Redirect, TypeOK
    <2>2. rows' \subseteq [token: 1..tokens', addr: Address, account: Player]
        BY <1>1, <2>1 DEF Redirect, TypeOK
    <2>3. /\ ticket' \in [Player -> 0..tokens'] /\ claim' \in [Conn -> 0..tokens']
          /\ row' \in [Conn -> 0..tokens'] /\ kept' \subseteq 1..tokens'
        BY <1>1, <2>1 DEF Redirect, TypeOK, session, faults
    <2> QED BY <1>1, <2>1, <2>2, <2>3 DEF Redirect, TypeOK, session, process, faults
<1>2. ASSUME NEW p \in Player, NEW c \in Conn, Connect(p, c) PROVE TypeOK'
    <2>1. made' = made + 1 /\ c = made + 1 /\ made \in Nat /\ made' \in 0..MaxConn
        BY <1>2 DEF Connect, TypeOK
    <2>2. /\ using' \in [Player -> 0..made'] /\ ticket' \in [Player -> 0..tokens]
          /\ owner' \in [Conn -> Player \union {Nobody}] /\ claim' \in [Conn -> 0..tokens]
          /\ phase' \in [Conn -> {"unused", "waiting", "reset", "open", "closed"}]
        BY <1>2, <2>1 DEF Connect, TypeOK
    <2>3. /\ \A d \in Conn : phase'[d] # "unused" <=> d <= made'
          /\ \A d \in Conn : phase'[d] \in {"waiting", "reset", "open"} <=> owner'[d] \in Player
        BY <1>2, <2>1 DEF Connect, TypeOK
    <2> QED BY <1>2, <2>1, <2>2, <2>3 DEF Connect, TypeOK, session, database, process, faults
<1>3. ASSUME NEW addr \in Bannable, Ban(addr) \/ Unban(addr) PROVE TypeOK'
    <2>1. /\ banned' \subseteq Address
          /\ UNCHANGED <<client, session, database, armed, running, faults>>
        BY <1>3 DEF Ban, Unban, TypeOK
    <2> QED BY <2>1 DEF TypeOK, client, session, database, faults
<1>4. ASSUME NEW c \in Conn, Leave(c) PROVE TypeOK'
    <2>1. c \in 1..made /\ {c} \subseteq 1..made
        BY <1>4 DEF Leave, TypeOK
    <2>2. Close({c}) /\ UNCHANGED banned /\ armed' \in BOOLEAN /\ running' = armed'
        BY <1>4 DEF Leave, TypeOK, process
    <2> QED BY <2>1, <2>2, CloseType
<1>5. ASSUME NEW c \in Conn, GiveUp(c) PROVE TypeOK'
    <2>1. owner[c] \in Player /\ c <= made
        BY <1>5 DEF GiveUp, TypeOK
    <2>2. using' \in [Player -> 0..made']
        BY <1>5, <2>1 DEF GiveUp, TypeOK
    <2>4. phase' \in [Conn -> {"unused", "waiting", "reset", "open", "closed"}]
        <3>1. phase \in [Conn -> {"unused", "waiting", "reset", "open", "closed"}]
            BY DEF TypeOK
        <3>2. phase' = phase \/ phase' = [phase EXCEPT ![c] = "reset"]
            BY <1>5 DEF GiveUp
        <3> QED BY <3>1, <3>2
    <2>3. /\ \A d \in Conn : phase'[d] # "unused" <=> d <= made'
          /\ \A d \in Conn : phase'[d] \in {"waiting", "reset", "open"} <=> owner'[d] \in Player
        <3>1. /\ phase \in [Conn -> {"unused", "waiting", "reset", "open", "closed"}]
              /\ \A d \in Conn : phase[d] # "unused" <=> d <= made
              /\ \A d \in Conn : phase[d] \in {"waiting", "reset", "open"} <=> owner[d] \in Player
            BY DEF TypeOK
        <3>2. /\ phase[c] = "waiting" /\ made' = made /\ owner' = owner
              /\ phase' = phase \/ phase' = [phase EXCEPT ![c] = "reset"]
            BY <1>5 DEF GiveUp
        <3> QED BY <3>1, <3>2
    <2> QED BY <1>5, <2>2, <2>3, <2>4 DEF GiveUp, TypeOK, session, database, process, faults
<1>6. ASSUME NEW c \in Conn, AcceptReset(c) PROVE TypeOK'
    <2>1. c \in 1..made
        <3>1. phase[c] = "reset"
            BY <1>6 DEF AcceptReset
        <3> QED BY <3>1 DEF TypeOK
    <2>4. UNCHANGED banned /\ {c} \subseteq 1..made
        BY <1>6, <2>1 DEF AcceptReset
    <2>2. CASE Close({c}) /\ UNCHANGED <<armed, running>>
        <3>1. armed' \in BOOLEAN /\ running' = armed'
            BY <2>2 DEF TypeOK
        <3> QED BY <2>2, <2>4, <3>1, CloseType
    <2>3. CASE Close(1..made) /\ armed' = FALSE /\ running' = FALSE
        BY <2>3, <2>4, CloseType
    <2> QED BY <1>6, <2>2, <2>3 DEF AcceptReset
<1>7. ASSUME NEW c \in Conn, Refuse(c) PROVE TypeOK'
    <2>1. c \in 1..made /\ {c} \subseteq 1..made
        BY <1>7 DEF Refuse, TypeOK
    <2>2. Close({c}) /\ UNCHANGED banned /\ armed' \in BOOLEAN /\ running' = armed'
        BY <1>7 DEF Refuse, TypeOK, process
    <2> QED BY <2>1, <2>2, CloseType
<1>8. ASSUME NEW c \in Conn, Handle(c) PROVE TypeOK'
    <2>1. \E s \in {"creation", "tutorial", "lobby"} : Show(c, s)
        BY <1>8 DEF Handle, ClientAuth, SessionConfirm, ChannelSelect, SendPlayerData
    <2>2. screen' \in [Conn -> {"connecting", "creation", "tutorial", "lobby"}]
        BY <2>1 DEF Show, TypeOK
    <2>3. failures' = failures \/ failures' = failures + 1
        BY <1>8 DEF Handle, ClientAuth, SessionConfirm, ChannelSelect, SendPlayerData
    <2>4. failures' \in Nat
        BY <2>3 DEF TypeOK
    <2> QED BY <1>8, <2>2, <2>4 DEF Handle, TypeOK, client, database, process
<1>9. CASE Restart
    BY <1>9 DEF Restart, TypeOK, client, session, database, faults
<1>10. CASE UNCHANGED vars
    BY <1>10 DEF vars, client, session, database, process, faults, TypeOK
<1> QED BY <1>1, <1>2, <1>3, <1>4, <1>5, <1>6, <1>7, <1>8, <1>9, <1>10, AdmitType DEF Next

(* The tables keep their types, and an accept is outstanding exactly while *)
(* the process runs: every path of the handler calls startAccept() again.  *)
THEOREM HandoffTypeCorrect == Spec => []TypeOK
BY TypeInit, TypeNext, PTL DEF Spec

-----------------------------------------------------------------------------
(* What a step does to the rows, the accounts and the connections.         *)

Idle == UNCHANGED <<client, row, account, database, kept, unread>>

LEMMA StepKinds ==
    ASSUME TypeOK, [Next]_vars
    PROVE  \/ \E p \in Player : Redirect(p) \/ \E c \in Conn : Connect(p, c)
           \/ \E C \in SUBSET (1..made) : Close(C)
           \/ \E c \in Conn : GiveUp(c) \/ Accept(c)
           \/ Idle
<1>1. ASSUME NEW c \in Conn, Leave(c) \/ Refuse(c) \/ AcceptReset(c)
      PROVE  \E C \in SUBSET (1..made) : Close(C)
    <2>1. c \in 1..made
        BY <1>1 DEF Leave, Refuse, AcceptReset, TypeOK, Conn
    <2>2. Close({c}) \/ Close(1..made)
        BY <1>1 DEF Leave, Refuse, AcceptReset
    <2> QED BY <2>1, <2>2
<1>2. ASSUME NEW addr \in Bannable, Ban(addr) \/ Unban(addr) PROVE Idle
    BY <1>2 DEF Ban, Unban, Idle, session, faults
<1>3. ASSUME NEW c \in Conn, Handle(c) PROVE Idle
    BY <1>3 DEF Handle, Idle
<1>4. CASE Restart
    BY <1>4 DEF Restart, Idle, session, faults
<1>5. CASE UNCHANGED vars
    BY <1>5 DEF vars, Idle, session, faults
<1> QED BY <1>1, <1>2, <1>3, <1>4, <1>5 DEF Next

(* startAccept finds no row, or takes one and deletes all of the address   *)
(* unless that fails.                                                      *)
LEMMA AcceptEffect ==
    ASSUME NEW c \in Conn, Accept(c)
    PROVE  \/ /\ rows' = rows /\ row' = row /\ account' = account /\ kept' = kept
              /\ \/ RowsOf(From(c)) = {} /\ unread' = unread
                 \/ unread' = unread \union {c}
           \/ \E r \in Newest(From(c)) :
                 /\ row' = [row EXCEPT ![c] = r.token]
                 /\ account' = [account EXCEPT ![c] = r.account]
                 /\ unread' = unread
                 /\ \/ rows' = rows \ RowsOf(From(c)) /\ kept' = kept
                    \/ rows' = rows /\ kept' = kept \union {r.token}
<1>1. CASE AdmitUnknown(c)
    BY <1>1 DEF AdmitUnknown
<1>2. CASE AdmitKnown(c)
    BY <1>2 DEF AdmitKnown
<1> QED BY <1>1, <1>2 DEF Accept

LEMMA AcceptMoves ==
    ASSUME NEW c \in Conn, Accept(c)
    PROVE  /\ phase[c] = "waiting" /\ phase' = [phase EXCEPT ![c] = "open"]
           /\ UNCHANGED <<made, using, ticket, owner, claim, tokens>>
BY DEF Accept

(* A row found is one of the address.                                      *)
LEMMA NewestFacts ==
    ASSUME TypeOK, NEW addr, NEW r \in Newest(addr)
    PROVE  /\ r \in rows /\ r.addr = addr
           /\ r.token \in 1..tokens /\ r.account \in Player
           /\ \A q \in rows : q.addr = addr => q.token <= r.token
BY DEF Newest, RowsOf, TypeOK

-----------------------------------------------------------------------------
(* A pending session is used once.                                         *)

LEMMA RowsStep ==
    ASSUME TypeOK, RowsInv, OneUse, [Next]_vars
    PROVE  RowsInv' /\ OneUse'
<1>0. /\ tokens \in Nat /\ row \in [Conn -> 0..tokens]
      /\ \A r \in rows : r.token \in 1..tokens /\ r.account \in Player
    BY DEF TypeOK
<1>1. ASSUME NEW p \in Player, Redirect(p) PROVE RowsInv' /\ OneUse'
    <2> DEFINE new == [token |-> tokens + 1, addr |-> Home[p], account |-> p]
    <2>1. rows' = rows \union {new} /\ row' = row /\ kept' = kept
        BY <1>1 DEF Redirect, session, faults
    <2>2. new.token = tokens + 1 /\ new.addr = Home[new.account]
        OBVIOUS
    <2>3. \A r \in rows : r.token # new.token
        BY <1>0
    <2>4. \A c \in Conn : row[c] # new.token
        BY <1>0
    <2> HIDE DEF new
    <2>5. RowsInv'
        BY <2>1, <2>2, <2>3, <2>4 DEF RowsInv
    <2> QED BY <2>1, <2>5 DEF OneUse
<1>2. ASSUME NEW p \in Player, NEW c \in Conn, Connect(p, c) PROVE RowsInv' /\ OneUse'
    BY <1>2 DEF Connect, RowsInv, OneUse, session, database, faults
<1>3. ASSUME NEW C, Close(C) PROVE RowsInv' /\ OneUse'
    BY <1>3 DEF Close, RowsInv, OneUse, database
<1>4. ASSUME NEW c \in Conn, GiveUp(c) PROVE RowsInv' /\ OneUse'
    BY <1>4 DEF GiveUp, RowsInv, OneUse, session, database, faults
<1>5. ASSUME NEW c \in Conn, Accept(c) PROVE RowsInv' /\ OneUse'
    <2>1. CASE rows' = rows /\ row' = row /\ account' = account /\ kept' = kept
        BY <2>1 DEF RowsInv, OneUse
    <2>2. ASSUME NEW r \in Newest(From(c)),
                 row' = [row EXCEPT ![c] = r.token],
                 \/ rows' = rows \ RowsOf(From(c)) /\ kept' = kept
                 \/ rows' = rows /\ kept' = kept \union {r.token}
          PROVE  RowsInv' /\ OneUse'
        <3>1. r \in rows /\ r.addr = From(c)
            BY NewestFacts
        <3>2. \A d \in Conn : row'[d] = IF d = c THEN r.token ELSE row[d]
            BY <1>0, <2>2
        <3>3. rows' \subseteq rows /\ kept \subseteq kept' /\ (r \notin rows' \/ r.token \in kept')
            BY <2>2, <3>1 DEF RowsOf
        <3>4. RowsInv'
            BY <3>1, <3>2, <3>3 DEF RowsInv
        <3>5. \A d \in Conn : d # c /\ row[d] = r.token => r.token \in kept'
            BY <3>1, <3>3 DEF RowsInv
        <3>6. OneUse'
            BY <3>2, <3>3, <3>5 DEF OneUse
        <3> QED BY <3>4, <3>6
    <2> QED BY <1>5, <2>1, <2>2, AcceptEffect
<1>6. CASE Idle
    BY <1>6 DEF Idle, RowsInv, OneUse, database
<1> QED BY <1>1, <1>2, <1>3, <1>4, <1>5, <1>6, StepKinds

-----------------------------------------------------------------------------
(* An account comes from a row of the peer's address.                      *)

LEMMA AccountStep ==
    ASSUME TypeOK, RowsInv, AccountInv, [Next]_vars
    PROVE  AccountInv'
<1>0. /\ phase \in [Conn -> {"unused", "waiting", "reset", "open", "closed"}]
      /\ owner \in [Conn -> Player \union {Nobody}] /\ account \in [Conn -> Player \union {Nobody}]
    BY DEF TypeOK
<1>1. ASSUME NEW p \in Player, Redirect(p) PROVE AccountInv'
    BY <1>1 DEF Redirect, AccountInv, From, session
<1>2. ASSUME NEW p \in Player, NEW c \in Conn, Connect(p, c) PROVE AccountInv'
    <2>1. phase[c] = "unused"
        BY <1>2 DEF Connect, TypeOK, Conn
    <2>2. account[c] = Nobody
        BY <2>1 DEF AccountInv
    <2> QED BY <1>0, <1>2, <2>2 DEF Connect, AccountInv, From, session
<1>3. ASSUME NEW C, Close(C) PROVE AccountInv'
    BY <1>3 DEF Close, AccountInv, From
<1>4. ASSUME NEW c \in Conn, GiveUp(c) PROVE AccountInv'
    <2>1. \A d \in Conn : phase[d] = "open" => phase'[d] = "open"
        <3>1. phase[c] = "waiting" /\ (phase' = phase \/ phase' = [phase EXCEPT ![c] = "reset"])
            BY <1>4 DEF GiveUp
        <3> QED BY <1>0, <3>1
    <2> QED BY <1>4, <2>1 DEF GiveUp, AccountInv, From, session
<1>5. ASSUME NEW c \in Conn, Accept(c) PROVE AccountInv'
    <2>1. owner' = owner /\ \A d \in Conn : phase'[d] = IF d = c THEN "open" ELSE phase[d]
        BY <1>0, <1>5, AcceptMoves
    <2>2. CASE account' = account
        BY <2>1, <2>2 DEF AccountInv, From
    <2>3. ASSUME NEW r \in Newest(From(c)), account' = [account EXCEPT ![c] = r.account]
          PROVE  AccountInv'
        <3>1. Home[r.account] = From(c)
            BY NewestFacts DEF RowsInv
        <3>2. \A d \in Conn : account'[d] = IF d = c THEN r.account ELSE account[d]
            BY <1>0, <2>3
        <3> QED BY <2>1, <3>1, <3>2 DEF AccountInv, From
    <2> QED BY <1>5, <2>2, <2>3, AcceptEffect
<1>6. CASE Idle
    BY <1>6 DEF Idle, AccountInv, From, client
<1> QED BY <1>1, <1>2, <1>3, <1>4, <1>5, <1>6, StepKinds

-----------------------------------------------------------------------------
(* Patient players.                                                        *)

LEMMA WaitStep ==
    ASSUME TypeOK, WaitInv, [Next]_vars
    PROVE  WaitInv'
<1>0. /\ phase \in [Conn -> {"unused", "waiting", "reset", "open", "closed"}]
      /\ owner \in [Conn -> Player \union {Nobody}] /\ made \in Nat
      /\ using \in [Player -> 0..made] /\ Nobody \notin Player /\ Patient \subseteq Player
    BY HandoffAssumption DEF TypeOK
<1>1. ASSUME NEW p \in Player, Redirect(p) PROVE WaitInv'
    BY <1>1 DEF Redirect, WaitInv
<1>2. ASSUME NEW p \in Player, NEW c \in Conn, Connect(p, c) PROVE WaitInv'
    <2>1. /\ using[p] = 0 /\ using' = [using EXCEPT ![p] = c]
          /\ phase' = [phase EXCEPT ![c] = "waiting"] /\ owner' = [owner EXCEPT ![c] = p]
        BY <1>2 DEF Connect
    <2>2. \A d \in Conn : d # 0
        BY DEF Conn
    <2> QED BY <1>0, <2>1, <2>2 DEF WaitInv
<1>3. ASSUME NEW C \in SUBSET (1..made), Close(C) PROVE WaitInv'
    <2> SUFFICES ASSUME NEW c \in Conn, phase'[c] = "waiting", owner'[c] \in Patient
                 PROVE  using'[owner'[c]] = c
        BY DEF WaitInv
    <2>1. c \notin C /\ phase[c] = "waiting" /\ owner'[c] = owner[c] /\ owner[c] \in Player
        BY <1>0, <1>3 DEF Close
    <2>2. using[owner[c]] = c
        BY <1>0, <1>3, <2>1 DEF WaitInv, Close
    <2> QED BY <1>3, <2>1, <2>2 DEF Close
<1>4. ASSUME NEW c \in Conn, GiveUp(c) PROVE WaitInv'
    <2>1. /\ owner[c] \notin Patient /\ using' = [using EXCEPT ![owner[c]] = 0] /\ owner' = owner
          /\ phase' = phase \/ phase' = [phase EXCEPT ![c] = "reset"]
        BY <1>4 DEF GiveUp
    <2>2. \A d \in Conn : phase'[d] = "waiting" => phase[d] = "waiting"
        BY <1>0, <2>1
    <2> QED BY <1>0, <2>1, <2>2 DEF WaitInv
<1>5. ASSUME NEW c \in Conn, Accept(c) PROVE WaitInv'
    <2>1. \A d \in Conn : phase'[d] = "waiting" => phase[d] = "waiting"
        BY <1>0, <1>5, AcceptMoves
    <2> QED BY <1>5, <2>1, AcceptMoves DEF WaitInv
<1>6. CASE Idle
    BY <1>6 DEF Idle, WaitInv, client
<1> QED BY <1>1, <1>2, <1>3, <1>4, <1>5, <1>6, StepKinds

(* What keeps a row the newest of its address: that nobody is redirected   *)
(* from there and nobody from there is accepted.                           *)
LEMMA RedirectKeeps ==
    ASSUME NEW p \in Player, Redirect(p), NEW addr, NEW t, IsNewest(rows, addr, t), Home[p] # addr
    PROVE  IsNewest(rows', addr, t)
<1> DEFINE new == [token |-> tokens + 1, addr |-> Home[p], account |-> p]
<1>1. rows' = rows \union {new} /\ new.addr # addr
    BY DEF Redirect
<1> HIDE DEF new
<1> QED BY <1>1 DEF IsNewest

LEMMA AcceptKeeps ==
    ASSUME TypeOK, NEW c \in Conn, Accept(c), NEW addr, NEW t, IsNewest(rows, addr, t), From(c) # addr
    PROVE  IsNewest(rows', addr, t)
<1>1. rows' = rows \/ rows' = rows \ RowsOf(From(c))
    BY AcceptEffect
<1> QED BY <1>1 DEF IsNewest, RowsOf

(* A settled player shares the address with nobody.                        *)
LEMMA SettledAlone ==
    ASSUME NEW p \in Player, Settled(p), NEW q \in Player, Home[q] = Home[p]
    PROVE  q = p
BY DEF Settled, Alone

LEMMA TicketStep ==
    ASSUME TypeOK, WaitInv, TicketInv, [Next]_vars
    PROVE  TicketInv'
<1>0. /\ phase \in [Conn -> {"unused", "waiting", "reset", "open", "closed"}]
      /\ owner \in [Conn -> Player \union {Nobody}] /\ made \in Nat /\ tokens \in Nat
      /\ using \in [Player -> 0..made] /\ ticket \in [Player -> 0..tokens]
      /\ \A r \in rows : r.token \in 1..tokens
    BY DEF TypeOK
<1> SUFFICES ASSUME NEW p \in Player, Settled(p), ticket'[p] > 0
             PROVE  using'[p] = 0 /\ IsNewest(rows', Home[p], ticket'[p])
    BY DEF TicketInv, Settled, Alone
<1>1. ASSUME NEW q \in Player, Redirect(q) PROVE using'[p] = 0 /\ IsNewest(rows', Home[p], ticket'[p])
    <2>1. CASE q = p
        <3> DEFINE new == [token |-> tokens + 1, addr |-> Home[p], account |-> p]
        <3>1. /\ using'[p] = 0 /\ ticket'[p] = tokens + 1 /\ rows' = rows \union {new}
            BY <1>0, <1>1, <2>1 DEF Redirect
        <3>2. new \in rows' /\ new.addr = Home[p] /\ new.token = tokens + 1
            BY <3>1
        <3>3. \A r \in rows' : r.token <= tokens + 1
            <4>1. \A r \in rows : r.token <= tokens + 1
                BY <1>0
            <4> QED BY <1>0, <3>1, <3>2, <4>1
        <3> HIDE DEF new
        <3> QED BY <3>1, <3>2, <3>3 DEF IsNewest
    <2>2. CASE q # p
        <3>1. ticket'[p] = ticket[p] /\ using' = using
            BY <1>0, <1>1, <2>2 DEF Redirect
        <3>2. Home[q] # Home[p]
            BY <2>2, SettledAlone
        <3>3. IsNewest(rows, Home[p], ticket[p]) /\ using[p] = 0
            BY <3>1 DEF TicketInv
        <3> QED BY <1>1, <3>1, <3>2, <3>3, RedirectKeeps DEF IsNewest
    <2> QED BY <2>1, <2>2
<1>2. ASSUME NEW q \in Player, NEW c \in Conn, Connect(q, c)
      PROVE  using'[p] = 0 /\ IsNewest(rows', Home[p], ticket'[p])
    <2>1. /\ using' = [using EXCEPT ![q] = c] /\ ticket' = [ticket EXCEPT ![q] = 0] /\ rows' = rows
        BY <1>2 DEF Connect, database
    <2>2. q # p /\ ticket'[p] = ticket[p] /\ using'[p] = using[p]
        BY <1>0, <2>1
    <2> QED BY <2>1, <2>2 DEF TicketInv, IsNewest
<1>3. ASSUME NEW C, Close(C) PROVE using'[p] = 0 /\ IsNewest(rows', Home[p], ticket'[p])
    <2>1. ticket' = ticket /\ rows' = rows /\ (using[p] = 0 => using'[p] = 0)
        BY <1>3 DEF Close, database
    <2> QED BY <2>1 DEF TicketInv, IsNewest
<1>4. ASSUME NEW c \in Conn, GiveUp(c) PROVE using'[p] = 0 /\ IsNewest(rows', Home[p], ticket'[p])
    <2>1. ticket' = ticket /\ rows' = rows /\ using' = [using EXCEPT ![owner[c]] = 0]
        BY <1>4 DEF GiveUp, database
    <2>2. using[p] = 0 => using'[p] = 0
        BY <1>0, <2>1
    <2> QED BY <2>1, <2>2 DEF TicketInv, IsNewest
<1>5. ASSUME NEW c \in Conn, Accept(c) PROVE using'[p] = 0 /\ IsNewest(rows', Home[p], ticket'[p])
    <2>1. phase[c] = "waiting" /\ using' = using /\ ticket' = ticket
        BY <1>5, AcceptMoves
    <2>2. using[p] = 0 /\ IsNewest(rows, Home[p], ticket[p])
        BY <2>1 DEF TicketInv
    <2>3. owner[c] \in Player /\ c # 0
        BY <2>1 DEF TypeOK, Conn
    <2>4. owner[c] # p
        BY <2>1, <2>2, <2>3 DEF WaitInv, Settled
    <2>5. From(c) # Home[p]
        BY <2>3, <2>4, SettledAlone DEF From
    <2> QED BY <1>5, <2>1, <2>2, <2>5, AcceptKeeps DEF IsNewest
<1>6. CASE Idle
    BY <1>6 DEF Idle, TicketInv, IsNewest, client, database
<1> QED BY <1>1, <1>2, <1>3, <1>4, <1>5, <1>6, StepKinds

LEMMA ClaimStep ==
    ASSUME TypeOK, WaitInv, TicketInv, ClaimInv, [Next]_vars
    PROVE  ClaimInv'
<1>0. /\ phase \in [Conn -> {"unused", "waiting", "reset", "open", "closed"}]
      /\ owner \in [Conn -> Player \union {Nobody}] /\ claim \in [Conn -> 0..tokens]
      /\ \A d \in Conn : d # 0
    BY DEF TypeOK, Conn
<1> SUFFICES ASSUME NEW c \in Conn, phase'[c] = "waiting", claim'[c] > 0, Settled(owner'[c])
             PROVE  IsNewest(rows', Home[owner'[c]], claim'[c])
    BY DEF ClaimInv, Settled, Alone
<1>a. ASSUME phase[c] = "waiting", claim'[c] = claim[c], owner'[c] = owner[c]
      PROVE  IsNewest(rows, Home[owner[c]], claim[c]) /\ using[owner[c]] = c /\ owner[c] \in Player
    <2>1. owner[c] \in Patient
        BY <1>a DEF Settled
    <2>2. owner[c] \in Player
        BY <1>a DEF TypeOK
    <2> QED BY <1>a, <2>1, <2>2 DEF ClaimInv, WaitInv
<1>1. ASSUME NEW p \in Player, Redirect(p) PROVE IsNewest(rows', Home[owner'[c]], claim'[c])
    <2>1. /\ using[p] = 0 /\ phase' = phase /\ claim' = claim /\ owner' = owner
        BY <1>1 DEF Redirect
    <2>2. IsNewest(rows, Home[owner[c]], claim[c]) /\ using[owner[c]] = c /\ owner[c] \in Player
        BY <1>a, <2>1
    <2>3. p # owner[c]
        BY <1>0, <2>1, <2>2
    <2>4. Home[p] # Home[owner[c]]
        BY <2>1, <2>2, <2>3, SettledAlone
    <2> QED BY <1>1, <2>1, <2>2, <2>4, RedirectKeeps DEF IsNewest
<1>2. ASSUME NEW p \in Player, NEW d \in Conn, Connect(p, d)
      PROVE  IsNewest(rows', Home[owner'[c]], claim'[c])
    <2>1. /\ rows' = rows /\ phase' = [phase EXCEPT ![d] = "waiting"]
          /\ owner' = [owner EXCEPT ![d] = p] /\ claim' = [claim EXCEPT ![d] = ticket[p]]
        BY <1>2 DEF Connect, database
    <2>2. CASE c = d
        <3>1. owner'[c] = p /\ claim'[c] = ticket[p]
            BY <1>0, <2>1, <2>2
        <3>2. IsNewest(rows, Home[p], ticket[p])
            BY <3>1 DEF TicketInv
        <3> QED BY <2>1, <3>1, <3>2 DEF IsNewest
    <2>3. CASE c # d
        <3>1. owner'[c] = owner[c] /\ claim'[c] = claim[c] /\ phase[c] = "waiting"
            BY <1>0, <2>1, <2>3
        <3> QED BY <1>a, <2>1, <3>1 DEF IsNewest
    <2> QED BY <2>2, <2>3
<1>3. ASSUME NEW C, Close(C) PROVE IsNewest(rows', Home[owner'[c]], claim'[c])
    <2>1. /\ rows' = rows /\ c \notin C /\ phase[c] = "waiting"
          /\ owner'[c] = owner[c] /\ claim'[c] = claim[c]
        BY <1>3 DEF Close, database
    <2> QED BY <1>a, <2>1 DEF IsNewest
<1>4. ASSUME NEW d \in Conn, GiveUp(d) PROVE IsNewest(rows', Home[owner'[c]], claim'[c])
    <2>1. /\ rows' = rows /\ owner' = owner /\ claim' = claim
          /\ phase' = phase \/ phase' = [phase EXCEPT ![d] = "reset"]
        BY <1>4 DEF GiveUp, database
    <2>2. phase[c] = "waiting"
        BY <1>0, <2>1
    <2> QED BY <1>a, <2>1, <2>2 DEF IsNewest
<1>5. ASSUME NEW d \in Conn, Accept(d) PROVE IsNewest(rows', Home[owner'[c]], claim'[c])
    <2>1. /\ phase[d] = "waiting" /\ phase' = [phase EXCEPT ![d] = "open"]
          /\ using' = using /\ owner' = owner /\ claim' = claim
        BY <1>5, AcceptMoves
    <2>2. c # d /\ phase[c] = "waiting"
        BY <1>0, <2>1
    <2>3. IsNewest(rows, Home[owner[c]], claim[c]) /\ using[owner[c]] = c /\ owner[c] \in Player
        BY <1>a, <2>1, <2>2
    <2>4. owner[d] \in Player
        BY <2>1 DEF TypeOK
    <2>5. owner[d] # owner[c]
        BY <2>1, <2>2, <2>3 DEF WaitInv, Settled
    <2>6. From(d) # Home[owner[c]]
        BY <2>1, <2>3, <2>4, <2>5, SettledAlone DEF From
    <2> QED BY <1>5, <2>1, <2>3, <2>6, AcceptKeeps DEF IsNewest
<1>6. CASE Idle
    <2>1. rows' = rows /\ phase' = phase /\ owner' = owner /\ claim' = claim
        BY <1>6 DEF Idle, client, database
    <2> QED BY <1>a, <2>1 DEF IsNewest
<1> QED BY <1>1, <1>2, <1>3, <1>4, <1>5, <1>6, StepKinds

(* When a settled player is accepted, the row found is the one of the      *)
(* claim, and so is its account.                                           *)
LEMMA RecognizedStep ==
    ASSUME TypeOK, RowsInv, ClaimInv, Recognized, [Next]_vars
    PROVE  Recognized'
<1>0. /\ phase \in [Conn -> {"unused", "waiting", "reset", "open", "closed"}]
      /\ row \in [Conn -> 0..tokens] /\ account \in [Conn -> Player \union {Nobody}]
      /\ unread \subseteq Conn /\ tokens \in Nat /\ claim \in [Conn -> 0..tokens]
    BY DEF TypeOK
<1> SUFFICES ASSUME NEW c \in Conn, phase'[c] = "open", claim'[c] > 0, c \notin unread',
                    Settled(owner'[c])
             PROVE  row'[c] = claim'[c] /\ account'[c] = owner'[c]
    BY DEF Recognized, Settled, Alone
<1>a. ASSUME phase[c] = "open", claim'[c] = claim[c], owner'[c] = owner[c], c \notin unread
      PROVE  row[c] = claim[c] /\ account[c] = owner[c]
    BY <1>a DEF Recognized, Settled, Alone
<1>1. ASSUME NEW p \in Player, Redirect(p) PROVE row'[c] = claim'[c] /\ account'[c] = owner'[c]
    <2>1. UNCHANGED <<phase, owner, claim, row, account, unread>>
        BY <1>1 DEF Redirect, session, faults
    <2> QED BY <1>a, <2>1
<1>2. ASSUME NEW p \in Player, NEW d \in Conn, Connect(p, d)
      PROVE  row'[c] = claim'[c] /\ account'[c] = owner'[c]
    <2>1. /\ row' = row /\ account' = account /\ unread' = unread
          /\ phase' = [phase EXCEPT ![d] = "waiting"]
          /\ owner' = [owner EXCEPT ![d] = p] /\ claim' = [claim EXCEPT ![d] = ticket[p]]
        BY <1>2 DEF Connect, session, faults
    <2>2. c # d
        BY <1>0, <2>1
    <2>3. phase[c] = "open" /\ owner'[c] = owner[c] /\ claim'[c] = claim[c]
        BY <1>0, <2>1, <2>2 DEF TypeOK
    <2> QED BY <1>a, <2>1, <2>3
<1>3. ASSUME NEW C, Close(C) PROVE row'[c] = claim'[c] /\ account'[c] = owner'[c]
    <2>1. /\ c \notin C /\ phase[c] = "open" /\ c \notin unread /\ row' = row
          /\ account'[c] = account[c] /\ owner'[c] = owner[c] /\ claim'[c] = claim[c]
        BY <1>3 DEF Close
    <2> QED BY <1>a, <2>1
<1>4. ASSUME NEW d \in Conn, GiveUp(d) PROVE row'[c] = claim'[c] /\ account'[c] = owner'[c]
    <2>1. /\ UNCHANGED <<owner, claim, row, account, unread>>
          /\ phase' = phase \/ phase' = [phase EXCEPT ![d] = "reset"]
        BY <1>4 DEF GiveUp, session, faults
    <2>2. phase[c] = "open"
        BY <1>0, <2>1
    <2> QED BY <1>a, <2>1, <2>2
<1>5. ASSUME NEW d \in Conn, Accept(d) PROVE row'[c] = claim'[c] /\ account'[c] = owner'[c]
    <2>1. /\ phase[d] = "waiting" /\ phase' = [phase EXCEPT ![d] = "open"]
          /\ owner' = owner /\ claim' = claim
        BY <1>5, AcceptMoves
    <2>2. CASE c # d
        <3>1. phase[c] = "open"
            BY <1>0, <2>1, <2>2
        <3>2. row'[c] = row[c] /\ account'[c] = account[c] /\ (c \notin unread' => c \notin unread)
            BY <1>0, <1>5, <2>2, AcceptEffect
        <3> QED BY <1>a, <2>1, <3>1, <3>2
    <2>3. CASE c = d
        <3>1. IsNewest(rows, From(c), claim[c]) /\ owner[c] \in Player
            BY <2>1, <2>3 DEF ClaimInv, From, TypeOK
        <3>2. RowsOf(From(c)) # {} /\ c \notin unread'
            BY <3>1 DEF IsNewest, RowsOf
        <3>3. PICK r \in Newest(From(c)) :
                row' = [row EXCEPT ![c] = r.token] /\ account' = [account EXCEPT ![c] = r.account]
            BY <1>5, <2>3, <3>2, AcceptEffect
        <3>4. /\ r \in rows /\ r.addr = From(c) /\ r.token \in 1..tokens /\ r.account \in Player
              /\ \A q \in rows : q.addr = From(c) => q.token <= r.token
            BY NewestFacts
        <3>5. r.token = claim[c]
            <4>1. PICK q \in rows : q.addr = From(c) /\ q.token = claim[c]
                BY <3>1 DEF IsNewest
            <4>2. claim[c] <= r.token /\ r.token <= claim[c]
                BY <3>1, <3>4, <4>1 DEF IsNewest
            <4>3. claim[c] \in Nat /\ r.token \in Nat
                BY <1>0, <3>4
            <4> QED BY <4>2, <4>3
        <3>6. r.account = owner[c]
            <4>1. Home[r.account] = Home[owner[c]]
                BY <3>4 DEF RowsInv, From
            <4> QED BY <2>1, <3>1, <3>4, <4>1, SettledAlone
        <3> QED BY <1>0, <2>1, <3>3, <3>5, <3>6
    <2> QED BY <2>2, <2>3
<1>6. CASE Idle
    <2>1. UNCHANGED <<phase, owner, claim, row, account, unread>>
        BY <1>6 DEF Idle, client
    <2> QED BY <1>a, <2>1
<1> QED BY <1>1, <1>2, <1>3, <1>4, <1>5, <1>6, StepKinds

-----------------------------------------------------------------------------
LEMMA InitInv == Init => IInv
<1> SUFFICES ASSUME Init PROVE IInv
    OBVIOUS
<1>1. RowsInv /\ OneUse /\ AccountInv
    BY DEF Init, RowsInv, OneUse, AccountInv, Conn
<1>2. WaitInv /\ TicketInv /\ ClaimInv /\ Recognized
    BY DEF Init, WaitInv, TicketInv, ClaimInv, Recognized, Conn
<1> QED BY <1>1, <1>2, TypeInit DEF IInv

LEMMA NextInv == IInv /\ [Next]_vars => IInv'
BY TypeNext, RowsStep, AccountStep, WaitStep, TicketStep, ClaimStep, RecognizedStep DEF IInv

(* The invariant behind the theorems that follow. *)
THEOREM HandoffInductive == Spec => []IInv
BY InitInv, NextInv, PTL DEF Spec

(* "One-time use": no two connections find one row, unless startAccept's   *)
(* DELETE of it failed.                                                    *)
THEOREM HandoffOneUse == Spec => []OneUse
<1>1. IInv => OneUse
    BY DEF IInv
<1> QED BY HandoffInductive, <1>1, PTL

(* startAccept gives a connection only accounts of its own address, and    *)
(* the player's own where nobody else connects from there.                 *)
THEOREM HandoffAccountOfAddress == Spec => []AccountOfAddress
<1>1. IInv => AccountOfAddress
    <2> SUFFICES ASSUME IInv, NEW c \in Conn, account[c] # Nobody
                 PROVE  Home[account[c]] = From(c) /\ (Alone(owner[c]) => account[c] = owner[c])
        BY DEF AccountOfAddress
    <2>1. phase[c] = "open" /\ Home[account[c]] = From(c)
        BY DEF IInv, AccountInv
    <2>2. account[c] \in Player /\ owner[c] \in Player
        BY <2>1 DEF IInv, TypeOK
    <2> QED BY <2>1, <2>2 DEF Alone, From
<1> QED BY HandoffInductive, <1>1, PTL

(* A patient player alone at an address is recognized by the last          *)
(* redirection, through bans, failures, crashes and restarts.              *)
THEOREM HandoffRecognized == Spec => []Recognized
<1>1. IInv => Recognized
    BY DEF IInv
<1> QED BY HandoffInductive, <1>1, PTL

-----------------------------------------------------------------------------
(* Somebody accepts.                                                       *)

LEMMA AcceptedNext ==
    ASSUME TypeOK, NeverUnheard, [Next]_vars
    PROVE  NeverUnheard'
<1>0. /\ phase \in [Conn -> {"unused", "waiting", "reset", "open", "closed"}]
      /\ running = armed /\ made \in 0..MaxConn
      /\ \A c \in Conn : phase[c] # "unused" <=> c <= made
    BY DEF TypeOK
<1>1. ASSUME NEW p \in Player, Redirect(p) PROVE NeverUnheard'
    BY <1>1 DEF Redirect, process, NeverUnheard
<1>2. ASSUME NEW p \in Player, NEW c \in Conn, Connect(p, c) PROVE NeverUnheard'
    BY <1>0, <1>2 DEF Connect, process, NeverUnheard
<1>3. ASSUME NEW addr \in Bannable, Ban(addr) \/ Unban(addr) PROVE NeverUnheard'
    BY <1>3 DEF Ban, Unban, client, NeverUnheard
<1>4. ASSUME NEW C, Close(C) PROVE \A c \in Conn : phase'[c] = IF c \in C THEN "closed" ELSE phase[c]
    BY <1>4 DEF Close
<1>5. ASSUME NEW c \in Conn, Leave(c) \/ Refuse(c) PROVE NeverUnheard'
    BY <1>4, <1>5 DEF Leave, Refuse, process, NeverUnheard
<1>6. ASSUME NEW c \in Conn, AcceptReset(c) PROVE NeverUnheard'
    <2>1. CASE Close({c}) /\ UNCHANGED <<armed, running>>
        BY <1>4, <2>1 DEF NeverUnheard
    <2>2. CASE Close(1..made)
        <3>1. ASSUME NEW d \in Conn PROVE phase'[d] \in {"closed", "unused"}
            BY <1>0, <1>4, <2>2 DEF Conn
        <3> QED BY <3>1 DEF NeverUnheard
    <2> QED BY <1>6, <2>1, <2>2 DEF AcceptReset
<1>7. ASSUME NEW c \in Conn, GiveUp(c) PROVE NeverUnheard'
    BY <1>0, <1>7 DEF GiveUp, process, NeverUnheard
<1>8. ASSUME NEW c \in Conn, Accept(c) PROVE NeverUnheard'
    BY <1>0, <1>8 DEF Accept, process, NeverUnheard
<1>9. ASSUME NEW c \in Conn, Handle(c) PROVE NeverUnheard'
    BY <1>9 DEF Handle, client, process, NeverUnheard
<1>10. CASE Restart
    BY <1>10 DEF Restart, client, NeverUnheard
<1>11. CASE UNCHANGED vars
    BY <1>11 DEF vars, client, process, NeverUnheard
<1> QED BY <1>1, <1>2, <1>3, <1>5, <1>6, <1>7, <1>8, <1>9, <1>10, <1>11 DEF Next

(* The handler of accept leaves no connection without an accept to come,   *)
(* whatever becomes of the one it was called for.                          *)
THEOREM HandoffNeverUnheard == Spec => []NeverUnheard
<1>1. Init => NeverUnheard
    BY DEF Init, NeverUnheard
<1>2. TypeOK /\ NeverUnheard /\ [Next]_vars => NeverUnheard'
    BY AcceptedNext
<1> QED BY HandoffTypeCorrect, <1>1, <1>2, PTL DEF Spec
=============================================================================
