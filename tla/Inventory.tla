----------------------------- MODULE Inventory -----------------------------
(***************************************************************************)
(* Balls, prizes and wins: the transitions of win_transitions.py, the      *)
(* players' requests that call them (socket/events_inventory.py), the      *)
(* operator's create, bind and void (admin/router.py) and the turn that is *)
(* gated by the check of the loaded balls (machine.py) and ends with a     *)
(* verdict that names a ball (pi_client.py).                               *)
(*                                                                         *)
(* A request reads, and its one transaction writes when it commits: an     *)
(* action each.  A row is only locked where the code says so, so what was  *)
(* read may be otherwise by then: the ghost `stale' remembers that a       *)
(* transaction was committed all the same.  The queue entry of a play      *)
(* stands for the play and for its player, and is also the identity of its *)
(* win.  Sealed packs are of one SKU.  One operator works at a time.       *)
(***************************************************************************)
EXTENDS Naturals, FiniteSets

CONSTANTS Serials,             \* RFID serials of the balls
          Boosters,            \* opened (filmed) boosters
          Cards, CardsOf(_),   \* cards, and the ones that a booster revealed
          Singles,             \* cards the operator binds to a ball
          MaxPlays,            \* bound: turns that are played
          Sessions,            \* bound: requests of players in work at a time
          Null

Plays == 1 .. MaxPlays
Prizes == Boosters \cup Cards

WinStatus == {"PENDING", "SETTLED_OPEN", "SETTLED_RESELL", "SETTLED_SHIP", "SETTLED_KEEP"}
WinRows == [ball : Serials, prize : Prizes, status : WinStatus]

ASSUME InventoryAssumption ==
    /\ MaxPlays \in Nat \ {0}
    /\ Singles \subseteq Cards /\ Boosters \cap Cards = {}
    /\ \A b \in Boosters : CardsOf(b) \subseteq Cards
    /\ \A a, b \in Boosters : a # b => CardsOf(a) \cap CardsOf(b) = {}
    /\ Null \notin Serials \cup Prizes \cup Plays \cup WinRows

VARIABLES
    ball,      \* status of each ball, and the prize bound to it
    booster,   \* status of each booster, and the win that reserved it
    card,      \* status of each card, and its owner
    win,       \* the win of each play, or Null
    stock,     \* a sealed pack is in stock
    turn,      \* the turn being played, and the ball and prize its verdict names
    plays,     \* turns played so far
    session,   \* the request each session is working on
    op,        \* the operator's request
    inside,    \* ghost: the balls that are in the machine
    checked,   \* ghost: the balls of which all the gate found still holds
    stale      \* ghost: something was committed that rests on what no longer held

tables == <<ball, booster, card, win, stock>>
ghosts == <<inside, checked, stale>>
vars == <<tables, turn, plays, session, op, ghosts>>

BallStatus == {"absent", "LOADED", "GRABBED", "VOIDED"}
BoosterStatus == {"AVAILABLE", "RESERVED", "CONSUMED"}
CardStatus == {"IN_POOL", "RESERVED", "IN_COLLECTION", "SHIPPED", "RESOLD"}

BallRows == [status : BallStatus, prize : Prizes \cup {Null}]
BoosterRows == [status : BoosterStatus, holder : Plays \cup {Null}]
CardRows == [status : CardStatus, owner : Plays \cup {Null}]

NoTurn == [at |-> "none", ball |-> Null, prize |-> Null]
NoRequest == [at |-> "none", win |-> Null, prize |-> Null, kind |-> Null]
NoOp == [at |-> "none", ball |-> Null, prize |-> Null]

Settlements == {"SETTLED_OPEN", "SETTLED_RESELL", "SETTLED_SHIP", "SETTLED_KEEP"}

TypeOK ==
    /\ ball \in [Serials -> BallRows] /\ booster \in [Boosters -> BoosterRows]
    /\ card \in [Cards -> CardRows]
    /\ win \in [Plays -> WinRows \cup {Null}]
    /\ stock \in BOOLEAN
    /\ turn \in [at : {"none", "playing", "reserve"}, ball : Serials \cup {Null},
                 prize : Prizes \cup {Null}]
    /\ plays \in 0 .. MaxPlays
    /\ session \in [Sessions -> [at : {"none", "settle", "release"}, win : Plays \cup {Null},
                                 prize : Prizes \cup {Null},
                                 kind : Settlements \cup {"SHIPPED", "RESOLD", Null}]]
    /\ op \in [at : {"none", "bind", "attach", "void"}, ball : Serials \cup {Null}, prize : Prizes \cup {Null}]
    /\ inside \subseteq Serials /\ checked \subseteq Serials /\ stale \in BOOLEAN

Init ==
    /\ ball = [s \in Serials |-> [status |-> "absent", prize |-> Null]]
    /\ booster = [b \in Boosters |-> [status |-> "AVAILABLE", holder |-> Null]]
    /\ card = [c \in Cards |-> [status |-> "IN_POOL", owner |-> Null]]
    /\ win = [n \in Plays |-> Null]
    /\ stock = TRUE /\ turn = NoTurn /\ plays = 0
    /\ session = [s \in Sessions |-> NoRequest] /\ op = NoOp
    /\ inside = {} /\ checked = {} /\ stale = FALSE

(***************************************************************************)
(* The operator.                                                           *)
(***************************************************************************)
InPool(p) == IF p \in Boosters THEN booster[p].status = "AVAILABLE" ELSE card[p].status = "IN_POOL"

Won == {n \in Plays : win[n] # Null}
Pending(n) == win[n] # Null /\ win[n].status = "PENDING"

(* What a transaction rests on is no longer so when it commits.            *)
Rests(holds) == stale' = (stale \/ ~holds)

(* create_ball(): a ball with no prize yet, loaded all the same.           *)
CreateBall(s) ==
    /\ op = NoOp /\ ball[s].status = "absent"
    /\ ball' = [ball EXCEPT ![s].status = "LOADED"]
    /\ inside' = inside \cup {s}
    /\ UNCHANGED <<booster, card, win, stock, turn, plays, session, op, checked, stale>>

Unbound(s) == ball[s] = [status |-> "LOADED", prize |-> Null]

TakenLoaded(s, p) ==                             \* mutant: only loaded balls are looked at
    \E t \in Serials \ {s} : ball[t].status = "LOADED" /\ ball[t].prize = p
Taken(s, p) == \E t \in Serials \ {s} : ball[t].prize = p

(* bind_ball() and bind_ball_card() refuse a prize that is not in the pool *)
(* or that another ball, in whatever status, still points to, and a ball   *)
(* that is loaded and bound.                                               *)
Bind(s, p) ==
    /\ op = NoOp
    /\ InPool(p)
    /\ ~Taken(s, p)
    /\ ball[s].status # "LOADED" \/ Unbound(s)
    /\ op' = [at |-> IF Unbound(s) THEN "attach" ELSE "bind", ball |-> s, prize |-> p]
    /\ UNCHANGED <<tables, turn, plays, session, ghosts>>

(* Only what changed of the row that was read is written: the status of a  *)
(* ball that was loaded already is not.                                    *)
BindCommit ==
    /\ \/ /\ op.at = "bind"
          /\ ball' = [ball EXCEPT ![op.ball] = [status |-> "LOADED", prize |-> op.prize]]
          /\ inside' = inside \cup {op.ball}
       \/ /\ op.at = "attach"
          /\ ball' = [ball EXCEPT ![op.ball].prize = op.prize]
          /\ UNCHANGED inside
    /\ checked' = checked \ {op.ball}
    /\ Rests(InPool(op.prize))
    /\ op' = NoOp
    /\ UNCHANGED <<booster, card, win, stock, turn, plays, session>>

Void(s) ==
    /\ op = NoOp
    /\ ball[s].status = "LOADED"
    /\ op' = [at |-> "void", ball |-> s, prize |-> ball[s].prize]
    /\ UNCHANGED <<tables, turn, plays, session, ghosts>>

(* The prize goes back whatever has become of it; the ball keeps pointing  *)
(* to it.                                                                  *)
VoidCommit ==
    /\ op.at = "void"
    /\ ball' = [ball EXCEPT ![op.ball].status = "VOIDED"]
    /\ booster' = [b \in Boosters |-> IF b = op.prize THEN [booster[b] EXCEPT !.status = "AVAILABLE"] ELSE booster[b]]
    /\ card' = [c \in Cards |-> IF c = op.prize THEN [card[c] EXCEPT !.status = "IN_POOL"] ELSE card[c]]
    /\ inside' = inside \ {op.ball}
    /\ Rests(ball[op.ball].status = "LOADED")
    /\ op' = NoOp
    /\ UNCHANGED <<win, stock, turn, plays, session, checked>>

SetStock ==
    /\ op = NoOp
    /\ stock' = ~stock
    /\ checked' = {s \in checked : ball[s].prize \in Cards}
    /\ UNCHANGED <<ball, booster, card, win, turn, plays, session, op, inside, stale>>

(***************************************************************************)
(* The turn.                                                               *)
(***************************************************************************)
UnclaimableBlind == {}                           \* mutant: the gate sees nothing
Claimable(p) == p # Null /\ InPool(p) /\ (p \in Boosters => stock)
(* unclaimable_loaded_balls(): loaded balls whose prize is not to be had.  *)
Unclaimable == {s \in Serials : ball[s].status = "LOADED" /\ ~Claimable(ball[s].prize)}

StartTurn ==
    /\ turn = NoTurn /\ plays < MaxPlays
    /\ Unclaimable = {}
    /\ plays' = plays + 1
    /\ turn' = [NoTurn EXCEPT !.at = "playing"]
    /\ checked' = {s \in Serials : ball[s].status = "LOADED"}
    /\ UNCHANGED <<tables, session, op, inside, stale>>

Loss ==
    /\ turn.at = "playing"
    /\ turn' = NoTurn
    /\ UNCHANGED <<tables, plays, session, op, ghosts>>

StillLoaded(s) == UNCHANGED ball                 \* mutant: one transaction for all of it
MarkGrabbed(s) == ball' = [ball EXCEPT ![s].status = "GRABBED"]
(* The first transaction of reserve_win(): a ball has left the machine.    *)
Grab(s) ==
    /\ turn.at = "playing" /\ s \in inside
    /\ inside' = inside \ {s}
    /\ IF ball[s].status = "LOADED"
       THEN /\ MarkGrabbed(s)
            /\ turn' = [at |-> "reserve", ball |-> s, prize |-> ball[s].prize]
       ELSE turn' = NoTurn /\ UNCHANGED ball
    /\ UNCHANGED <<booster, card, win, stock, plays, session, op, checked, stale>>

(* What the second one needs: the prize, a sealed pack to go with it, and  *)
(* no earlier win of this ball or of this single card (unique columns).    *)
CanReserve(s, p) ==
    /\ Claimable(p)
    /\ \A n \in Won : win[n].ball # s /\ (p \in Cards => win[n].prize # p)

Hold(p) ==
    IF p \in Boosters
    THEN booster' = [booster EXCEPT ![p] = [status |-> "RESERVED", holder |-> plays]] /\ UNCHANGED card
    ELSE card' = [card EXCEPT ![p].status = "RESERVED"] /\ UNCHANGED booster

Reserve ==
    /\ turn.at = "reserve" /\ CanReserve(turn.ball, turn.prize)
    /\ win' = [win EXCEPT ![plays] = [ball |-> turn.ball, prize |-> turn.prize, status |-> "PENDING"]]
    /\ Hold(turn.prize)
    /\ Rests(ball[turn.ball] = [status |-> "GRABBED", prize |-> turn.prize])
    /\ turn' = NoTurn
    /\ UNCHANGED <<ball, stock, plays, session, op, inside, checked>>

(* PoolExhausted, a constraint or a lost connection: nothing is written.   *)
ReserveFails ==
    /\ turn.at = "reserve"
    /\ turn' = NoTurn
    /\ UNCHANGED <<tables, plays, session, op, ghosts>>

(***************************************************************************)
(* The players' requests.                                                  *)
(***************************************************************************)
Suits(kind, p) ==
    kind \in {"SETTLED_RESELL", "SETTLED_SHIP"}
               \cup (IF p \in Boosters THEN {"SETTLED_OPEN"} ELSE {"SETTLED_KEEP"})

(* The win is read once: the guard of _load_pending_ looks at what was     *)
(* read, without a lock.                                                   *)
LoadPending(s, n, kind) ==
    /\ session[s] = NoRequest /\ Pending(n)
    /\ Suits(kind, win[n].prize)
    /\ session' = [session EXCEPT ![s] =
                      [at |-> "settle", win |-> n, prize |-> win[n].prize, kind |-> kind]]
    /\ UNCHANGED <<tables, turn, plays, op, ghosts>>

Back(b) == booster' = [booster EXCEPT ![b] = [status |-> "AVAILABLE", holder |-> Null]]

RevealedConsumed(n) == [status |-> "CONSUMED", owner |-> n] \* mutant: the pack's status
Revealed(n) == [status |-> "IN_COLLECTION", owner |-> n]

OpenBooster(n, b) ==
    /\ booster' = [booster EXCEPT ![b].status = "CONSUMED"]
    /\ card' = [c \in Cards |-> IF c \in CardsOf(b) THEN Revealed(n) ELSE card[c]]

SettleBooster(n, b, kind) ==
    \/ kind = "SETTLED_OPEN" /\ OpenBooster(n, b)
    \/ kind \in {"SETTLED_RESELL", "SETTLED_SHIP"} /\ Back(b) /\ UNCHANGED card

SettleCard(n, c, kind) ==
    /\ card' = [card EXCEPT ![c] =
                  IF kind = "SETTLED_RESELL" THEN [@ EXCEPT !.status = "IN_POOL"]
                  ELSE [status |-> IF kind = "SETTLED_KEEP" THEN "IN_COLLECTION" ELSE "SHIPPED",
                        owner |-> n]]
    /\ UNCHANGED booster

Settle(s) ==
    /\ session[s].at = "settle"
    /\ LET r == session[s] IN
       /\ \/ r.prize \in Boosters /\ SettleBooster(r.win, r.prize, r.kind)
          \/ r.prize \in Cards /\ SettleCard(r.win, r.prize, r.kind)
       /\ win' = [win EXCEPT ![r.win].status = r.kind]
       /\ Rests(Pending(r.win))
    /\ session' = [session EXCEPT ![s] = NoRequest]
    /\ UNCHANGED <<ball, stock, turn, plays, op, inside, checked>>

(* ship_ and resell_card_from_collection().                                *)
LoadCard(s, c, kind) ==
    /\ session[s] = NoRequest
    /\ card[c].owner # Null /\ card[c].status = "IN_COLLECTION"
    /\ session' = [session EXCEPT ![s] =
                      [at |-> "release", win |-> card[c].owner, prize |-> c, kind |-> kind]]
    /\ UNCHANGED <<tables, turn, plays, op, ghosts>>

Release(s) ==
    /\ session[s].at = "release"
    /\ card' = [card EXCEPT ![session[s].prize].status = session[s].kind]
    /\ session' = [session EXCEPT ![s] = NoRequest]
    /\ UNCHANGED <<ball, booster, win, stock, turn, plays, op, ghosts>>

-----------------------------------------------------------------------------
Operator ==
    \/ \E s \in Serials, p \in Boosters \cup Singles : Bind(s, p)
    \/ \E s \in Serials : CreateBall(s) \/ Void(s)
    \/ BindCommit \/ VoidCommit \/ SetStock

Turn == StartTurn \/ Loss \/ (\E s \in Serials : Grab(s)) \/ Reserve \/ ReserveFails

Player(s) ==
    \/ \E n \in Plays, kind \in Settlements : LoadPending(s, n, kind)
    \/ \E c \in Cards, kind \in {"SHIPPED", "RESOLD"} : LoadCard(s, c, kind)
    \/ Settle(s) \/ Release(s)

Next == Operator \/ Turn \/ \E s \in Sessions : Player(s)

Spec == Init /\ [][Next]_vars

-----------------------------------------------------------------------------
(***************************************************************************)
(* Properties.                                                             *)
(***************************************************************************)
(* A ball that has fallen is never taken for one in the machine, whatever  *)
(* becomes of its prize (win_transitions.py:164-175).                      *)
NoPhantomBall ==
    \A s \in Serials : ball[s].status = "LOADED" => s \in inside

(* Who catches a ball that the gate checked finds its prize, unless the    *)
(* ball was bound again or the packs were set out of stock since: however  *)
(* the prizes came to be as they are, as the gate looks at the state and   *)
(* not at who changed it (win_transitions.py:77-90), and whatever players  *)
(* settle meanwhile.                                                       *)
PrizeIsThere ==
    turn.at = "reserve" /\ turn.ball \in checked /\ ~stale => Claimable(turn.prize)

(* What a pending win promises is set aside for it alone, and nothing is   *)
(* set aside for a win that is settled.                                    *)
SetAside ==
    /\ \A n \in Plays : Pending(n) =>
          IF win[n].prize \in Boosters
          THEN booster[win[n].prize] = [status |-> "RESERVED", holder |-> n]
          ELSE card[win[n].prize].status = "RESERVED"
    /\ \A p \in Prizes :
          (IF p \in Boosters THEN booster[p].status = "RESERVED" ELSE card[p].status = "RESERVED") =>
             \E n \in Plays : Pending(n) /\ win[n].prize = p

(* Prizes are set aside for pending wins, and for them alone, until        *)
(* something is committed that rests on what no longer holds: though the   *)
(* operator binds and voids during turns and requests overlap              *)
(* (sim/harness/world.py, 5).                                              *)
HeldForPending == ~stale => SetAside
=============================================================================
