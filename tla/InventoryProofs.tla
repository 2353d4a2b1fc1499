--------------------------- MODULE InventoryProofs ---------------------------
(***************************************************************************)
(* What module Inventory promises for any number of balls, prizes, plays   *)
(* and sessions, whenever the operator works and whatever requests         *)
(* overlap.                                                                *)
(*                                                                         *)
(* The theorems about prizes suppose that a card which a booster reveals   *)
(* is not bound to a ball by itself (RevealedApart), which the code leaves *)
(* to the operator.                                                        *)
(***************************************************************************)
EXTENDS Inventory, TLAPS

RevealedApart == \A b \in Boosters : CardsOf(b) \cap Singles = {}

Winnable == Boosters \cup Singles

(* What the requests in work and the turn hold names something there is.   *)
Shapes ==
    /\ op.at \in {"bind", "attach"} => op.ball \in Serials /\ op.prize \in Winnable
    /\ op.at = "attach" => ball[op.ball].status # "absent"
    /\ op.at = "void" => op.ball \in Serials
    /\ turn.at = "reserve" => turn.ball \in Serials
    /\ turn.at # "none" => plays \in Plays
    /\ \A s \in Serials : ball[s].status = "absent" => ball[s].prize = Null
    /\ \A s \in Sessions : session[s].at = "settle" =>
           /\ session[s].win \in Plays /\ win[session[s].win] # Null
           /\ session[s].kind \in Settlements
    /\ \A s \in Sessions : session[s].at = "release" =>
           session[s].prize \in Cards /\ session[s].kind \in {"SHIPPED", "RESOLD"}

(* A ball points to a prize that no other ball points to, and while it is  *)
(* loaded that prize is in the pool.                                       *)
BallsApart ==
    /\ \A s \in Serials : ball[s].prize \in Winnable \cup {Null}
    /\ \A s, t \in Serials : s # t /\ ball[s].prize # Null => ball[s].prize # ball[t].prize
    /\ \A s \in Serials : ball[s].status = "LOADED" /\ ball[s].prize # Null => InPool(ball[s].prize)

(* What the operator's request read of the balls' prizes still holds when  *)
(* it commits: no other request changes them.                              *)
OpCurrent ==
    /\ op.at \in {"bind", "attach"} => \A t \in Serials \ {op.ball} : ball[t].prize # op.prize
    /\ op.at = "void" => op.prize = ball[op.ball].prize

(* A turn has its own number, and the prize of the ball it caught is in    *)
(* the pool.                                                               *)
TurnOwnsPrize ==
    /\ turn.at # "none" => plays \in Plays /\ win[plays] = Null
    /\ turn.at = "reserve" =>
           turn.prize \in Winnable \cup {Null} /\ (turn.prize # Null => InPool(turn.prize))
    /\ \A n \in Plays : n > plays => win[n] = Null

(* A card is won once.                                                     *)
WinsApart ==
    /\ \A n \in Plays : win[n] # Null => win[n].prize \in Winnable
    /\ \A n, k \in Plays : win[n] # Null /\ win[k] # Null /\ n # k
                              /\ win[n].prize = win[k].prize => win[n].prize \in Boosters

(* A request knows its win's prize; a card that a player is shipping or    *)
(* reselling has left the pool.                                            *)
RequestsCurrent ==
    /\ \A s \in Sessions : session[s].at = "settle" => session[s].prize = win[session[s].win].prize
    /\ \A s \in Sessions : session[s].at = "release" =>
           card[session[s].prize].status \in {"IN_COLLECTION", "SHIPPED", "RESOLD"}

(* The cards of a booster wait in the pool until it is opened.             *)
RevealedWait ==
    \A b \in Boosters, c \in Cards :
        c \in CardsOf(b) /\ booster[b].status # "CONSUMED" => card[c].status = "IN_POOL"

Sound ==
    /\ BallsApart /\ OpCurrent /\ TurnOwnsPrize /\ WinsApart
    /\ SetAside /\ RequestsCurrent /\ RevealedWait

IInv == TypeOK /\ Shapes /\ (~stale => Sound)

(* While a turn is in progress the balls that were checked are as the gate *)
(* saw them.                                                               *)
Gated ==
    turn.at # "none" =>
        /\ \A s \in checked :
               /\ ball[s].status # "absent" /\ ball[s].prize # Null
               /\ ball[s].prize \in Boosters => stock
        /\ turn.at = "reserve" /\ turn.ball \in checked => ball[turn.ball].prize = turn.prize

-----------------------------------------------------------------------------
(***************************************************************************)
(* Types, whatever overlaps and whenever the operator works.               *)
(***************************************************************************)
(* A new status makes a row of the same table.                             *)
LEMMA RowUpdates ==
    /\ \A r \in BallRows, v \in BallStatus : [r EXCEPT !.status = v] \in BallRows
    /\ \A r \in BoosterRows, v \in BoosterStatus : [r EXCEPT !.status = v] \in BoosterRows
    /\ \A r \in CardRows, v \in CardStatus : [r EXCEPT !.status = v] \in CardRows
    /\ \A r \in WinRows, v \in WinStatus : [r EXCEPT !.status = v] \in WinRows
BY DEF BallRows, BoosterRows, CardRows, WinRows

(* The statuses the actions assign.                                        *)
LEMMA RowStatuses ==
    /\ {"LOADED", "GRABBED", "VOIDED"} \subseteq BallStatus
    /\ {"AVAILABLE", "RESERVED", "CONSUMED"} \subseteq BoosterStatus
    /\ {"IN_POOL", "RESERVED", "IN_COLLECTION", "SHIPPED", "RESOLD"} \subseteq CardStatus
    /\ Settlements \cup {"PENDING"} \subseteq WinStatus
BY DEF BallStatus, BoosterStatus, CardStatus, WinStatus, Settlements

(* Assigning a status keeps a table one.                                   *)
LEMMA StatusUpdate ==
    ASSUME TypeOK, NEW x
    PROVE  /\ \A v \in BallStatus : [ball EXCEPT ![x].status = v] \in [Serials -> BallRows]
           /\ \A v \in BoosterStatus : [booster EXCEPT ![x].status = v] \in [Boosters -> BoosterRows]
           /\ \A v \in CardStatus : [card EXCEPT ![x].status = v] \in [Cards -> CardRows]
BY RowUpdates DEF TypeOK

(* The types and Shapes hold at the start and in every step.               *)
LEMMA ShapesInit == Init => TypeOK /\ Shapes
<1> SUFFICES ASSUME Init PROVE TypeOK /\ Shapes
  OBVIOUS
<1>1. /\ ball \in [Serials -> BallRows] /\ booster \in [Boosters -> BoosterRows]
      /\ card \in [Cards -> CardRows]
  BY RowStatuses DEF Init, BallRows, BoosterRows, CardRows, BallStatus
<1>2. plays \in 0 .. MaxPlays
  BY InventoryAssumption DEF InventoryAssumption, Init
<1>3. stock \in BOOLEAN /\ stale \in BOOLEAN
  BY DEF Init
<1>4. TypeOK
  BY <1>1, <1>2, <1>3 DEF Init, TypeOK, NoTurn, NoRequest, NoOp
<1>5. Shapes
  BY DEF Init, Shapes, NoTurn, NoRequest, NoOp
<1> QED
  BY <1>4, <1>5

(* Each action writes rows of the tables it writes to.                     *)
LEMMA ShapesStep ==
    ASSUME TypeOK, Shapes, [Next]_vars
    PROVE  TypeOK' /\ Shapes'
<1>0. Winnable \subseteq Prizes /\ Prizes = Boosters \cup Cards /\ Null \notin Prizes \cup Serials \cup Plays \cup WinRows
  BY InventoryAssumption DEF InventoryAssumption, Winnable, Prizes
<1>17. ASSUME NEW s \in Serials, CreateBall(s)
       PROVE  TypeOK' /\ Shapes'
  <2>1. ball' = [ball EXCEPT ![s].status = "LOADED"]
    BY <1>17 DEF CreateBall
  <2>2. ball' \in [Serials -> BallRows]
    BY <2>1, StatusUpdate, RowStatuses
  <2>3. QED
    BY <1>17, <2>2 DEF CreateBall, TypeOK, Shapes
<1>1. ASSUME NEW s \in Serials, NEW p \in Winnable, Bind(s, p)
      PROVE  TypeOK' /\ Shapes'
  <2>1. p \in Prizes
    BY <1>0, <1>1
  <2>2. QED
    BY <1>1, <2>1 DEF Bind, Unbound, TypeOK, Shapes, tables, ghosts
<1>2. CASE BindCommit
  <2>1. op.ball \in Serials /\ op.prize \in Prizes
    BY <1>0, <1>2 DEF BindCommit, Shapes
  <2>2. [status |-> "LOADED", prize |-> op.prize] \in BallRows
    BY <2>1, RowStatuses DEF BallRows
  <2>3. \/ ball' = [ball EXCEPT ![op.ball] = [status |-> "LOADED", prize |-> op.prize]]
        \/ ball' = [ball EXCEPT ![op.ball].prize = op.prize]
    BY <1>2 DEF BindCommit
  <2>4. ball' \in [Serials -> BallRows]
    <3>1. [ball[op.ball] EXCEPT !.prize = op.prize] \in BallRows
      BY <2>1 DEF TypeOK, BallRows
    <3>2. QED
      BY <2>1, <2>2, <2>3, <3>1 DEF TypeOK
  <2>5. inside' \subseteq Serials /\ checked' \subseteq Serials /\ stale' \in BOOLEAN
    BY <1>2, <2>1 DEF BindCommit, Rests, TypeOK
  <2>6. \A s \in Serials : ball'[s].status = "absent" => ball'[s].prize = Null
    <3>1. op.at = "attach" => ball[op.ball].status # "absent"
      BY DEF Shapes
    <3>2. CASE op.at = "bind"
      BY <1>2, <2>1, <3>2 DEF BindCommit, TypeOK, Shapes
    <3>3. CASE op.at = "attach"
      <4>1. ball' = [ball EXCEPT ![op.ball].prize = op.prize]
        BY <1>2, <3>3 DEF BindCommit
      <4>2. /\ ball'[op.ball].status = ball[op.ball].status
            /\ \A s \in Serials : s # op.ball => ball'[s] = ball[s]
        BY <2>1, <4>1 DEF TypeOK, BallRows
      <4> QED
        BY <3>1, <3>3, <4>2 DEF Shapes
    <3> QED
      BY <1>2, <3>2, <3>3 DEF BindCommit
  <2>7. QED
    BY <1>2, <2>4, <2>5, <2>6 DEF BindCommit, TypeOK, Shapes, NoOp
<1>3. ASSUME NEW s \in Serials, Void(s)
      PROVE  TypeOK' /\ Shapes'
  <2>1. ball[s].prize \in Prizes \cup {Null}
    BY DEF TypeOK, BallRows
  <2>2. QED
    BY <1>3, <2>1 DEF Void, TypeOK, Shapes, tables, ghosts
<1>4. CASE VoidCommit
  <2>1. op.ball \in Serials /\ ball' = [ball EXCEPT ![op.ball].status = "VOIDED"]
    BY <1>4 DEF VoidCommit, Shapes
  <2>2. ball' \in [Serials -> BallRows]
    BY <2>1, StatusUpdate, RowStatuses
  <2>3. booster' \in [Boosters -> BoosterRows]
    <3>1. \A b \in Boosters : [booster[b] EXCEPT !.status = "AVAILABLE"] \in BoosterRows
      BY RowUpdates, RowStatuses DEF TypeOK
    <3>2. QED
      BY <1>4, <3>1 DEF VoidCommit, TypeOK
  <2>4. card' \in [Cards -> CardRows]
    <3>1. \A c \in Cards : [card[c] EXCEPT !.status = "IN_POOL"] \in CardRows
      BY RowUpdates, RowStatuses DEF TypeOK
    <3>2. QED
      BY <1>4, <3>1 DEF VoidCommit, TypeOK
  <2>5. inside' \subseteq Serials /\ stale' \in BOOLEAN
    BY <1>4 DEF VoidCommit, Rests, TypeOK
  <2>6. QED
    BY <1>4, <2>2, <2>3, <2>4, <2>5 DEF VoidCommit, TypeOK, Shapes, NoOp
<1>5. CASE SetStock
  BY <1>5 DEF SetStock, TypeOK, Shapes, ghosts
<1>6. CASE StartTurn
  <2>1. MaxPlays \in Nat
    BY InventoryAssumption DEF InventoryAssumption
  <2>2. plays' \in 0 .. MaxPlays /\ plays' \in Plays
    BY <1>6, <2>1 DEF StartTurn, TypeOK, Plays
  <2>3. QED
    BY <1>6, <2>2 DEF StartTurn, TypeOK, Shapes, tables, NoTurn
<1>7. CASE Loss
  BY <1>7 DEF Loss, TypeOK, Shapes, tables, ghosts, NoTurn
<1>8. ASSUME NEW s \in Serials, Grab(s)
      PROVE  TypeOK' /\ Shapes'
  <2>1. CASE ball[s].status = "LOADED"
    <3>1. /\ ball' = [ball EXCEPT ![s].status = "GRABBED"]
          /\ turn' = [at |-> "reserve", ball |-> s, prize |-> ball[s].prize]
      BY <1>8, <2>1 DEF Grab, MarkGrabbed
    <3>2. ball' \in [Serials -> BallRows]
      BY <3>1, StatusUpdate, RowStatuses
    <3>3. ball[s].prize \in Prizes \cup {Null}
      BY DEF TypeOK, BallRows
    <3>4. QED
      BY <1>8, <3>1, <3>2, <3>3 DEF Grab, TypeOK, Shapes
  <2>2. CASE ball[s].status # "LOADED"
    BY <1>8, <2>2 DEF Grab, TypeOK, Shapes, NoTurn
  <2>3. QED
    BY <2>1, <2>2
<1>9. CASE Reserve
  <2>1. turn.ball \in Serials /\ turn.prize \in Prizes /\ plays \in Plays
    BY <1>9 DEF Reserve, CanReserve, Claimable, Shapes, TypeOK
  <2>2. /\ win' \in [Plays -> WinRows \cup {Null}]
        /\ \A n \in Plays : win[n] # Null => win'[n] # Null
    <3>1. [ball |-> turn.ball, prize |-> turn.prize, status |-> "PENDING"] \in WinRows
      BY <2>1, RowStatuses DEF WinRows
    <3>2. QED
      BY <1>0, <1>9, <2>1, <3>1 DEF Reserve, TypeOK
  <2>3. booster' \in [Boosters -> BoosterRows]
    <3>1. [status |-> "RESERVED", holder |-> plays] \in BoosterRows
      BY <2>1, RowStatuses DEF BoosterRows
    <3>2. QED
      BY <1>9, <3>1 DEF Reserve, Hold, TypeOK
  <2>4. card' \in [Cards -> CardRows]
    <3>1. [card EXCEPT ![turn.prize].status = "RESERVED"] \in [Cards -> CardRows]
      BY StatusUpdate, RowStatuses
    <3>2. QED
      BY <1>9, <3>1 DEF Reserve, Hold, TypeOK
  <2>5. QED
    BY <1>9, <2>2, <2>3, <2>4 DEF Reserve, Rests, TypeOK, Shapes, NoTurn
<1>10. CASE ReserveFails
  BY <1>10 DEF ReserveFails, TypeOK, Shapes, tables, ghosts, NoTurn
<1>11. ASSUME NEW s \in Sessions, NEW n \in Plays, NEW kind \in Settlements, LoadPending(s, n, kind)
       PROVE  TypeOK' /\ Shapes'
  <2> DEFINE r == [at |-> "settle", win |-> n, prize |-> win[n].prize, kind |-> kind]
  <2>1. win[n] # Null /\ session' = [session EXCEPT ![s] = r]
    BY <1>11 DEF LoadPending, Pending
  <2>2. win[n].prize \in Prizes
    BY <2>1 DEF TypeOK, WinRows
  <2>3. session' \in [Sessions -> [at : {"none", "settle", "release"}, win : Plays \cup {Null},
                                 prize : Prizes \cup {Null},
                                 kind : Settlements \cup {"SHIPPED", "RESOLD", Null}]]
    BY <2>1, <2>2 DEF TypeOK
  <2>4. \A t \in Sessions : session'[t] = session[t] \/ session'[t] = r
    BY <2>1 DEF TypeOK
  <2>5. UNCHANGED <<tables, turn, plays, op, ghosts>>
    BY <1>11 DEF LoadPending
  <2>6. QED
    BY <2>1, <2>3, <2>4, <2>5 DEF TypeOK, Shapes, tables, ghosts
<1>12. ASSUME NEW s \in Sessions, NEW c \in Cards, NEW kind \in {"SHIPPED", "RESOLD"}, LoadCard(s, c, kind)
       PROVE  TypeOK' /\ Shapes'
  <2> DEFINE r == [at |-> "release", win |-> card[c].owner, prize |-> c, kind |-> kind]
  <2>1. card[c].owner \in Plays \cup {Null} /\ c \in Prizes
    BY <1>0 DEF TypeOK, CardRows
  <2>2. session' = [session EXCEPT ![s] = r]
    BY <1>12 DEF LoadCard
  <2>3. session' \in [Sessions -> [at : {"none", "settle", "release"}, win : Plays \cup {Null},
                                 prize : Prizes \cup {Null},
                                 kind : Settlements \cup {"SHIPPED", "RESOLD", Null}]]
    BY <2>1, <2>2 DEF TypeOK
  <2>4. \A t \in Sessions : session'[t] = session[t] \/ session'[t] = r
    BY <2>2 DEF TypeOK
  <2>5. UNCHANGED <<tables, turn, plays, op, ghosts>>
    BY <1>12 DEF LoadCard
  <2>6. QED
    BY <2>3, <2>4, <2>5 DEF TypeOK, Shapes, tables, ghosts
<1>13. ASSUME NEW s \in Sessions, Settle(s)
       PROVE  TypeOK' /\ Shapes'
  <2> DEFINE r == session[s]
  <2>1. r.at = "settle" /\ r.win \in Plays /\ win[r.win] # Null /\ r.kind \in Settlements
    BY <1>13 DEF Settle, Shapes
  <2>2. /\ win' = [win EXCEPT ![r.win].status = r.kind]
        /\ stale' = (stale \/ ~Pending(r.win))
        /\ session' = [session EXCEPT ![s] = NoRequest]
        /\ UNCHANGED <<ball, stock, turn, plays, op, inside, checked>>
    BY <1>13 DEF Settle, Rests
  <2>3. /\ win' \in [Plays -> WinRows \cup {Null}]
        /\ \A n \in Plays : win[n] # Null => win'[n] # Null
    <3>1. win[r.win] \in WinRows
      BY <2>1 DEF TypeOK
    <3>2. [win[r.win] EXCEPT !.status = r.kind] \in WinRows
      BY <2>1, <3>1, RowUpdates, RowStatuses
    <3>3. QED
      BY <1>0, <2>1, <2>2, <3>2 DEF TypeOK
  <2>4. stale' \in BOOLEAN
    BY <2>2 DEF TypeOK
  <2>5. booster' \in [Boosters -> BoosterRows]
    <3>1. [booster EXCEPT ![r.prize].status = "CONSUMED"] \in [Boosters -> BoosterRows]
      BY StatusUpdate, RowStatuses
    <3>2. [status |-> "AVAILABLE", holder |-> Null] \in BoosterRows
      BY RowStatuses DEF BoosterRows
    <3>3. booster \in [Boosters -> BoosterRows]
      BY DEF TypeOK
    <3>4. QED
      BY <1>13, <3>1, <3>2, <3>3 DEF Settle, SettleBooster, SettleCard, OpenBooster, Back
  <2>6. card' \in [Cards -> CardRows]
    <3>1. card \in [Cards -> CardRows]
      BY DEF TypeOK
    <3>2. Revealed(r.win) \in CardRows
      BY <2>1, RowStatuses DEF Revealed, CardRows
    <3>3. CASE r.prize \in Boosters /\ SettleBooster(r.win, r.prize, r.kind)
      BY <3>1, <3>2, <3>3 DEF SettleBooster, OpenBooster
    <3>4. CASE r.prize \in Cards /\ SettleCard(r.win, r.prize, r.kind)
      <4>1. \A v \in CardStatus : [status |-> v, owner |-> r.win] \in CardRows
        BY <2>1 DEF CardRows
      <4>2. [card[r.prize] EXCEPT !.status = "IN_POOL"] \in CardRows
        BY <3>1, <3>4, RowUpdates, RowStatuses
      <4>3. QED
        BY <3>1, <3>4, <4>1, <4>2, RowStatuses DEF SettleCard
    <3>5. QED
      BY <1>13, <3>3, <3>4 DEF Settle
  <2>7. /\ session' \in [Sessions -> [at : {"none", "settle", "release"}, win : Plays \cup {Null},
                                     prize : Prizes \cup {Null},
                                     kind : Settlements \cup {"SHIPPED", "RESOLD", Null}]]
        /\ \A t \in Sessions : session'[t] = session[t] \/ session'[t].at = "none"
    BY <2>2 DEF TypeOK, NoRequest
  <2>8. TypeOK'
    BY <2>2, <2>3, <2>4, <2>5, <2>6, <2>7 DEF TypeOK
  <2>9. Shapes'
    BY <2>2, <2>3, <2>7 DEF Shapes
  <2>10. QED
    BY <2>8, <2>9
<1>14. ASSUME NEW s \in Sessions, Release(s)
       PROVE  TypeOK' /\ Shapes'
  <2>1. session[s].prize \in Cards /\ session[s].kind \in {"SHIPPED", "RESOLD"}
    BY <1>14 DEF Release, Shapes
  <2>2. card' \in [Cards -> CardRows]
    <3>1. session[s].kind \in CardStatus
      BY <2>1, RowStatuses
    <3>2. QED
      BY <1>14, <3>1, StatusUpdate DEF Release
  <2>3. QED
    BY <1>14, <2>2 DEF Release, ghosts, TypeOK, Shapes, NoRequest
<1>15. CASE UNCHANGED vars
  BY <1>15 DEF vars, tables, ghosts, TypeOK, Shapes
<1>16. QED
  BY <1>1, <1>2, <1>3, <1>4, <1>5, <1>6, <1>7, <1>8, <1>9, <1>10, <1>11, <1>12, <1>13, <1>14, <1>15, <1>17
     DEF Next, Operator, Turn, Player, Winnable

(* Every row has a legal status and points to what there is: TypeOK for    *)
(* every configuration of module Inventory.                                *)
THEOREM TypeCorrect == Spec => []TypeOK
<1>1. Init => TypeOK /\ Shapes
  BY ShapesInit
<1>2. TypeOK /\ Shapes /\ [Next]_vars => TypeOK' /\ Shapes'
  BY ShapesStep
<1>3. QED
  BY <1>1, <1>2, PTL DEF Spec

(* A ball that has fallen is never taken for one in the machine:           *)
(* NoPhantomBall, whatever the operator and the players do.                *)
THEOREM NoPhantom == Spec => []NoPhantomBall
<1>1. Init => NoPhantomBall
  BY DEF Init, NoPhantomBall
<1>2. ASSUME TypeOK, Shapes, NoPhantomBall, [Next]_vars
      PROVE  NoPhantomBall'
  <2>1. CASE BindCommit
    <3>1. CASE op.at = "bind"
      BY <1>2, <2>1, <3>1 DEF BindCommit, TypeOK, NoPhantomBall
    <3>2. CASE op.at = "attach"
      <4>1. ball' = [ball EXCEPT ![op.ball].prize = op.prize] /\ inside' = inside
        BY <2>1, <3>2 DEF BindCommit
      <4>2. \A s \in Serials : ball'[s].status = ball[s].status
        BY <1>2, <4>1 DEF TypeOK, BallRows
      <4>3. QED
        BY <1>2, <4>1, <4>2 DEF NoPhantomBall
    <3>3. QED
      BY <2>1, <3>1, <3>2 DEF BindCommit
  <2>11. ASSUME NEW s \in Serials, CreateBall(s)
         PROVE  NoPhantomBall'
    BY <1>2, <2>11 DEF CreateBall, TypeOK, NoPhantomBall
  <2>2. CASE VoidCommit
    BY <1>2, <2>2 DEF VoidCommit, TypeOK, Shapes, NoPhantomBall
  <2>3. ASSUME NEW s \in Serials, Grab(s)
        PROVE  NoPhantomBall'
    <3>1. inside' = inside \ {s}
      BY <2>3 DEF Grab
    <3>2. CASE ball[s].status = "LOADED"
      <4>1. ball' = [ball EXCEPT ![s].status = "GRABBED"]
        BY <2>3, <3>2 DEF Grab, MarkGrabbed
      <4>2. QED
        BY <1>2, <3>1, <4>1 DEF TypeOK, NoPhantomBall
    <3>3. CASE ball[s].status # "LOADED" /\ UNCHANGED ball
      BY <1>2, <3>1, <3>3 DEF NoPhantomBall
    <3>4. QED
      BY <2>3, <3>2, <3>3 DEF Grab
  <2>4. CASE UNCHANGED <<ball, inside>>
    BY <1>2, <2>4 DEF NoPhantomBall
  <2>5. ASSUME NEW s \in Serials, NEW p \in Boosters \cup Singles, Bind(s, p)
        PROVE  UNCHANGED <<ball, inside>>
    BY <2>5 DEF Bind, tables, ghosts
  <2>6. ASSUME StartTurn \/ Loss \/ Reserve \/ ReserveFails \/ UNCHANGED vars
        PROVE  UNCHANGED <<ball, inside>>
    BY <2>6 DEF StartTurn, Loss, Reserve, ReserveFails, vars, tables, ghosts
  <2>7. ASSUME NEW s \in Sessions, Player(s)
        PROVE  UNCHANGED <<ball, inside>>
    BY <2>7 DEF Player, LoadPending, LoadCard, Settle, Release, tables, ghosts
  <2>8. ASSUME NEW s \in Serials, Void(s)
        PROVE  UNCHANGED <<ball, inside>>
    BY <2>8 DEF Void, tables, ghosts
  <2>9. CASE SetStock
    BY <2>4, <2>9 DEF SetStock
  <2>10. QED
    BY <1>2, <2>1, <2>2, <2>3, <2>4, <2>5, <2>6, <2>7, <2>8, <2>9, <2>11 DEF Next, Operator, Turn
<1>3. Init => TypeOK /\ Shapes
  BY ShapesInit
<1>4. TypeOK /\ Shapes /\ [Next]_vars => TypeOK' /\ Shapes'
  BY ShapesStep
<1>5. QED
  BY <1>1, <1>2, <1>3, <1>4, PTL DEF Spec

-----------------------------------------------------------------------------
(***************************************************************************)
(* The prizes, while all that was committed rests on what held.            *)
(***************************************************************************)
(* Nothing is bound, won or read at the start.                             *)
LEMMA IInvInit == Init => IInv
<1> SUFFICES ASSUME Init PROVE IInv
  OBVIOUS
<1>1. TypeOK /\ Shapes
  BY ShapesInit
<1>2. Null \notin Prizes /\ Winnable \subseteq Prizes
  BY InventoryAssumption DEF InventoryAssumption, Prizes, Winnable
<1>3. BallsApart /\ OpCurrent /\ TurnOwnsPrize
  BY <1>2 DEF Init, BallsApart, OpCurrent, TurnOwnsPrize, NoTurn, NoOp
<1>4. WinsApart /\ RequestsCurrent /\ RevealedWait
  BY DEF Init, WinsApart, RequestsCurrent, RevealedWait, NoRequest
<1>5. SetAside
  BY DEF Init, SetAside, Pending, Prizes
<1>6. QED
  BY <1>1, <1>3, <1>4, <1>5 DEF IInv, Sound

(* The operator's steps: what he reads of the balls' prizes only he        *)
(* changes, and the rest still holds when he commits.                      *)
LEMMA OperatorSteps ==
    ASSUME TypeOK, Shapes, Sound, Operator, ~stale', TypeOK', Shapes'
    PROVE  Sound'
<1> USE DEF Sound
<1>0. /\ Winnable \subseteq Prizes /\ Null \notin Prizes /\ Winnable = Boosters \cup Singles
      /\ Singles \subseteq Cards
  BY InventoryAssumption DEF InventoryAssumption, Winnable, Prizes
<1>1. ASSUME UNCHANGED <<booster, card, win, turn, plays, session>>
      PROVE  /\ TurnOwnsPrize' /\ WinsApart' /\ SetAside' /\ RequestsCurrent' /\ RevealedWait'
             /\ \A p : InPool(p)' = InPool(p)
  BY <1>1 DEF TurnOwnsPrize, WinsApart, SetAside, RequestsCurrent, RevealedWait, Pending, InPool
<1>2. ASSUME NEW s \in Serials, CreateBall(s)
      PROVE  Sound'
  <2>1. op = NoOp /\ op' = op /\ UNCHANGED <<booster, card, win, turn, plays, session>>
    BY <1>2 DEF CreateBall
  <2>2. ball[s].status = "absent" /\ ball' = [ball EXCEPT ![s].status = "LOADED"]
    BY <1>2 DEF CreateBall
  <2>3. /\ \A t \in Serials : ball'[t].prize = ball[t].prize
        /\ \A t \in Serials : t # s => ball'[t] = ball[t]
    BY <2>2 DEF TypeOK, BallRows
  <2>4. ball[s].prize = Null
    BY <2>2 DEF Shapes
  <2>5. BallsApart'
    BY <1>1, <2>1, <2>3, <2>4 DEF BallsApart
  <2>6. OpCurrent'
    BY <2>1 DEF OpCurrent, NoOp
  <2> QED
    BY <1>1, <2>1, <2>5, <2>6
<1>3. ASSUME NEW s \in Serials, NEW p \in Winnable, Bind(s, p)
      PROVE  Sound'
  <2>1. UNCHANGED <<ball, booster, card, win, turn, plays, session>>
    BY <1>3 DEF Bind, tables
  <2>2. BallsApart'
    BY <1>1, <2>1 DEF BallsApart
  <2>3. OpCurrent'
    BY <1>3, <2>1 DEF Bind, Taken, OpCurrent
  <2> QED
    BY <1>1, <2>1, <2>2, <2>3
<1>4. CASE BindCommit
  <2>1. /\ op.ball \in Serials /\ op.prize \in Winnable /\ InPool(op.prize)
        /\ \A t \in Serials \ {op.ball} : ball[t].prize # op.prize
        /\ op' = NoOp /\ UNCHANGED <<booster, card, win, turn, plays, session>>
    BY <1>4 DEF BindCommit, Rests, OpCurrent, Shapes
  <2>2. \/ ball' = [ball EXCEPT ![op.ball] = [status |-> "LOADED", prize |-> op.prize]]
        \/ ball' = [ball EXCEPT ![op.ball].prize = op.prize]
    BY <1>4 DEF BindCommit
  <2>3. /\ ball'[op.ball].prize = op.prize
        /\ \A t \in Serials : t # op.ball => ball'[t] = ball[t]
    BY <2>1, <2>2 DEF TypeOK, BallRows
  <2>4. BallsApart'
    <3>1. \A t \in Serials : ball'[t].prize \in Winnable \cup {Null}
      BY <2>1, <2>3 DEF BallsApart
    <3>2. \A t, u \in Serials : t # u /\ ball'[t].prize # Null => ball'[t].prize # ball'[u].prize
      BY <2>1, <2>3 DEF BallsApart
    <3>3. \A t \in Serials : ball'[t].status = "LOADED" /\ ball'[t].prize # Null => InPool(ball'[t].prize)
      BY <2>1, <2>3 DEF BallsApart
    <3> QED
      BY <1>1, <2>1, <3>1, <3>2, <3>3 DEF BallsApart
  <2>5. OpCurrent'
    BY <2>1 DEF OpCurrent, NoOp
  <2> QED
    BY <1>1, <2>1, <2>4, <2>5
<1>5. ASSUME NEW s \in Serials, Void(s)
      PROVE  Sound'
  <2>1. UNCHANGED <<ball, booster, card, win, turn, plays, session>>
    BY <1>5 DEF Void, tables
  <2>2. BallsApart'
    BY <1>1, <2>1 DEF BallsApart
  <2>3. OpCurrent'
    BY <1>5, <2>1 DEF Void, OpCurrent
  <2> QED
    BY <1>1, <2>1, <2>2, <2>3
<1>6. CASE VoidCommit
  <2>1. /\ op.ball \in Serials /\ op.prize \in Winnable \cup {Null} /\ (op.prize # Null => InPool(op.prize))
        /\ ball' = [ball EXCEPT ![op.ball].status = "VOIDED"]
        /\ op' = NoOp /\ UNCHANGED <<win, turn, plays, session>>
    BY <1>6 DEF VoidCommit, Rests, OpCurrent, BallsApart, Shapes
  <2>2. booster' = booster
    <3>1. ASSUME NEW b \in Boosters, b = op.prize
          PROVE  [booster[b] EXCEPT !.status = "AVAILABLE"] = booster[b]
      <4>1. booster[b].status = "AVAILABLE" /\ booster[b] \in BoosterRows
        BY <1>0, <2>1, <3>1 DEF InPool, TypeOK, Prizes
      <4> QED
        BY <4>1 DEF BoosterRows
    <3> QED
      BY <1>6, <3>1 DEF VoidCommit, TypeOK
  <2>3. card' = card
    <3>1. ASSUME NEW c \in Cards, c = op.prize
          PROVE  [card[c] EXCEPT !.status = "IN_POOL"] = card[c]
      <4>1. c \notin Boosters /\ c # Null
        BY InventoryAssumption DEF InventoryAssumption, Prizes
      <4>2. card[c].status = "IN_POOL" /\ card[c] \in CardRows
        BY <2>1, <3>1, <4>1 DEF InPool, TypeOK
      <4> QED
        BY <4>2 DEF CardRows
    <3> QED
      BY <1>6, <3>1 DEF VoidCommit, TypeOK
  <2>4. \A s \in Serials : ball'[s].prize = ball[s].prize
                             /\ (ball'[s].status = "LOADED" => ball[s].status = "LOADED")
    BY <2>1 DEF TypeOK, BallRows
  <2>5. BallsApart'
    BY <1>1, <2>1, <2>2, <2>3, <2>4 DEF BallsApart
  <2>6. OpCurrent'
    BY <2>1 DEF OpCurrent, NoOp
  <2> QED
    BY <1>1, <2>1, <2>2, <2>3, <2>5, <2>6
<1>7. CASE SetStock
  <2>1. UNCHANGED <<ball, booster, card, win, turn, plays, session, op>>
    BY <1>7 DEF SetStock
  <2> QED
    BY <1>1, <2>1 DEF BallsApart, OpCurrent
<1>8. QED
  BY <1>2, <1>3, <1>4, <1>5, <1>6, <1>7 DEF Operator, Winnable

(* The turn's steps: the prize of the ball that falls is set aside.        *)
LEMMA TurnSteps ==
    ASSUME TypeOK, Shapes, Sound, Turn, RevealedApart, ~stale', TypeOK', Shapes'
    PROVE  Sound'
<1> USE DEF Sound
<1>0. /\ Winnable \subseteq Prizes /\ Null \notin Prizes
      /\ Winnable \ Boosters \subseteq Singles /\ Singles \subseteq Cards /\ Boosters \cap Cards = {}
  BY InventoryAssumption DEF InventoryAssumption, Winnable, Prizes
<1>1. ASSUME UNCHANGED <<booster, card, win, session>>
      PROVE  WinsApart' /\ SetAside' /\ RequestsCurrent' /\ RevealedWait'
  BY <1>1 DEF WinsApart, SetAside, RequestsCurrent, RevealedWait, Pending
<1>2. CASE StartTurn
  <2>1. BallsApart' /\ OpCurrent'
    BY <1>2 DEF StartTurn, tables, BallsApart, OpCurrent, InPool
  <2>2. TurnOwnsPrize'
    <3>1. plays' \in Plays /\ plays \in Nat /\ plays' = plays + 1 /\ turn'.at = "playing"
      BY <1>2, InventoryAssumption DEF StartTurn, TypeOK, InventoryAssumption, Plays, NoTurn
    <3>2. \A n \in Plays : n >= plays' => win[n] = Null
      BY <3>1 DEF TurnOwnsPrize, Plays
    <3>3. \A n \in Plays : n > plays' => win[n] = Null
      BY <3>1, <3>2 DEF Plays
    <3>4. win'[plays'] = Null
      BY <1>2, <3>1, <3>2 DEF StartTurn, tables, Plays
    <3>5. QED
      BY <1>2, <3>1, <3>3, <3>4 DEF StartTurn, tables, TurnOwnsPrize
  <2>3. QED
    BY <1>1, <1>2, <2>1, <2>2 DEF StartTurn, tables
<1>3. CASE Loss \/ ReserveFails
  <2>1. BallsApart' /\ OpCurrent' /\ TurnOwnsPrize'
    BY <1>3 DEF Loss, ReserveFails, tables, BallsApart, OpCurrent, TurnOwnsPrize, InPool, NoTurn
  <2>2. QED
    BY <1>1, <1>3, <2>1 DEF Loss, ReserveFails, tables
<1>4. ASSUME NEW s \in Serials, Grab(s)
      PROVE  Sound'
  <2>1. /\ turn.at = "playing" /\ plays \in Plays /\ win[plays] = Null
        /\ UNCHANGED <<booster, card, win, plays, session, op>>
    BY <1>4 DEF Grab, OpCurrent, TurnOwnsPrize
  <2>2. CASE ball[s].status = "LOADED"
    <3>1. /\ ball' = [ball EXCEPT ![s].status = "GRABBED"]
          /\ turn' = [at |-> "reserve", ball |-> s, prize |-> ball[s].prize]
      BY <1>4, <2>2 DEF Grab, MarkGrabbed
    <3>2. /\ ball'[s].status = "GRABBED"
          /\ \A t \in Serials : ball'[t].prize = ball[t].prize
                                  /\ (ball'[t].status = "LOADED" => ball[t].status = "LOADED")
      BY <3>1 DEF TypeOK, BallRows
    <3>3. ball[s].prize \in Winnable \cup {Null} /\ (ball[s].prize # Null => InPool(ball[s].prize))
      BY <2>2 DEF BallsApart
    <3>4. BallsApart' /\ OpCurrent'
      BY <2>1, <3>2 DEF BallsApart, OpCurrent, InPool, Shapes
    <3>5. TurnOwnsPrize'
      BY <2>1, <3>1, <3>2, <3>3 DEF TurnOwnsPrize, InPool
    <3>6. QED
      BY <1>1, <2>1, <3>4, <3>5
  <2>3. CASE ball[s].status # "LOADED"
    <3>1. turn' = NoTurn /\ ball' = ball
      BY <1>4, <2>3 DEF Grab
    <3>2. BallsApart' /\ OpCurrent' /\ TurnOwnsPrize'
      BY <2>1, <3>1 DEF BallsApart, OpCurrent, TurnOwnsPrize, InPool, NoTurn
    <3>3. QED
      BY <1>1, <2>1, <3>2
  <2>4. QED
    BY <2>2, <2>3
<1>5. CASE Reserve
  <2> DEFINE p == turn.prize
             w == [ball |-> turn.ball, prize |-> p, status |-> "PENDING"]
  <2>0. ball[turn.ball] = [status |-> "GRABBED", prize |-> p]
    BY <1>5 DEF Reserve, Rests
  <2>1. /\ turn.ball \in Serials /\ p \in Winnable /\ InPool(p)
        /\ ball[turn.ball].status = "GRABBED" /\ ball[turn.ball].prize = p
        /\ plays \in Plays /\ win[plays] = Null
    BY <1>5, <2>0 DEF Reserve, CanReserve, Claimable, TurnOwnsPrize, Shapes
  <2>2. /\ win' = [win EXCEPT ![plays] = w] /\ turn' = NoTurn
        /\ UNCHANGED <<ball, plays, session, op>>
    BY <1>5 DEF Reserve
  <2>3. /\ win'[plays] = w /\ \A n \in Plays : n # plays => win'[n] = win[n]
        /\ w # Null
    BY <1>5, <2>1, <2>2, InventoryAssumption, RowStatuses DEF TypeOK, InventoryAssumption, WinRows, Prizes, Winnable
  <2>4. /\ \A b \in Boosters : b # p => booster'[b] = booster[b]
        /\ p \in Boosters => booster'[p] = [status |-> "RESERVED", holder |-> plays]
    BY <1>5 DEF Reserve, Hold, TypeOK
  <2>5. /\ \A c \in Cards : c # p => card'[c] = card[c]
        /\ p \notin Boosters => p \in Cards /\ card'[p].status = "RESERVED"
        /\ p \in Boosters => card' = card
    <3>1. p \notin Boosters => p \in Cards
      BY <1>0, <2>1
    <3>2. QED
      BY <1>5, <3>1 DEF Reserve, Hold, TypeOK, CardRows
  <2>6. p \notin Boosters => \A n \in Plays : win[n] # Null => win[n].prize # p
    BY <1>5, <2>5 DEF Reserve, CanReserve, Won
  <2>7. BallsApart'
    BY <1>0, <2>1, <2>2, <2>4, <2>5 DEF BallsApart, InPool
  <2>8. OpCurrent' /\ TurnOwnsPrize'
    <3>1. plays \in 0 .. MaxPlays
      BY DEF TypeOK
    <3>2. \A n \in Plays : n > plays => win'[n] = Null
      BY <2>1, <2>3, <3>1 DEF TurnOwnsPrize, Plays
    <3>3. QED
      BY <2>2, <3>1, <3>2 DEF OpCurrent, TurnOwnsPrize, NoTurn
  <2>9. WinsApart'
    BY <1>0, <2>1, <2>3, <2>6 DEF WinsApart, w
  <2>10. SetAside'
    <3>1. ASSUME NEW n \in Plays, Pending(n)'
          PROVE  IF win'[n].prize \in Boosters
                 THEN booster'[win'[n].prize] = [status |-> "RESERVED", holder |-> n]
                 ELSE card'[win'[n].prize].status = "RESERVED"
      <4>1. CASE n = plays
        BY <2>3, <2>4, <2>5, <4>1
      <4>2. CASE n # plays
        <5>1. win'[n] = win[n] /\ Pending(n) /\ win[n].prize \in Winnable
          BY <2>3, <3>1, <4>2 DEF Pending, WinsApart
        <5>2. IF win[n].prize \in Boosters
              THEN booster[win[n].prize] = [status |-> "RESERVED", holder |-> n]
              ELSE card[win[n].prize].status = "RESERVED"
          BY <5>1 DEF SetAside
        <5>3. win[n].prize # p
          BY <2>1, <5>2 DEF InPool
        <5>4. QED
          BY <1>0, <2>4, <2>5, <5>1, <5>2, <5>3
      <4>3. QED
        BY <4>1, <4>2
    <3>2. ASSUME NEW q \in Prizes,
                 IF q \in Boosters THEN booster'[q].status = "RESERVED" ELSE card'[q].status = "RESERVED"
          PROVE  \E n \in Plays : Pending(n)' /\ win'[n].prize = q
      <4>1. CASE q = p
        <5>1. \A n \in Plays : n = plays => Pending(n)' /\ win'[n].prize = p
          BY <2>3 DEF Pending
        <5>2. QED
          BY <2>1, <4>1, <5>1
      <4>2. CASE q # p
        <5>1. PICK n \in Plays : Pending(n) /\ win[n].prize = q
          BY <2>4, <2>5, <3>2, <4>2 DEF SetAside, Prizes
        <5>2. win'[n] = win[n]
          BY <2>1, <2>3, <5>1 DEF Pending
        <5>3. QED
          BY <5>1, <5>2 DEF Pending
      <4>3. QED
        BY <4>1, <4>2
    <3>3. QED
      BY <3>1, <3>2 DEF SetAside
  <2>11. RequestsCurrent'
    <3>1. \A n \in Plays : win[n] # Null => win'[n] = win[n]
      BY <2>1, <2>3
    <3>2. \A c \in Cards : card[c].status \in {"IN_COLLECTION", "SHIPPED", "RESOLD"} => card'[c] = card[c]
      BY <2>1, <2>5 DEF InPool
    <3>3. QED
      BY <2>2, <3>1, <3>2 DEF RequestsCurrent, Shapes
  <2>12. RevealedWait'
    <3>1. \A b \in Boosters, c \in Cards : c \in CardsOf(b) => card'[c] = card[c]
      BY <1>0, <2>1, <2>5 DEF RevealedApart
    <3>2. \A b \in Boosters : booster'[b].status # "CONSUMED" => booster[b].status # "CONSUMED"
      BY <2>1, <2>4 DEF InPool
    <3>3. QED
      BY <3>1, <3>2 DEF RevealedWait
  <2>14. QED
    BY <2>7, <2>8, <2>9, <2>10, <2>11, <2>12
<1>6. QED
  BY <1>2, <1>3, <1>4, <1>5 DEF Turn

(* A request that only reads.                                              *)
LEMMA LoadSteps ==
    ASSUME TypeOK, Sound, NEW s \in Sessions,
           \/ \E n \in Plays, kind \in Settlements : LoadPending(s, n, kind)
           \/ \E c \in Cards, kind \in {"SHIPPED", "RESOLD"} : LoadCard(s, c, kind)
    PROVE  Sound'
<1> USE DEF Sound
<1>1. UNCHANGED <<ball, booster, card, win, turn, plays, op>>
  BY DEF LoadPending, LoadCard, tables
<1>2. BallsApart' /\ OpCurrent' /\ TurnOwnsPrize' /\ WinsApart' /\ SetAside' /\ RevealedWait'
  BY <1>1 DEF BallsApart, OpCurrent, TurnOwnsPrize, WinsApart, SetAside, RevealedWait, Pending, InPool
<1>3. ASSUME NEW n \in Plays, NEW kind \in Settlements, LoadPending(s, n, kind)
      PROVE  RequestsCurrent'
  <2>1. session' = [session EXCEPT ![s] = [at |-> "settle", win |-> n, prize |-> win[n].prize, kind |-> kind]]
    BY <1>3 DEF LoadPending
  <2> QED
    BY <1>1, <2>1 DEF RequestsCurrent, TypeOK
<1>4. ASSUME NEW c \in Cards, NEW kind \in {"SHIPPED", "RESOLD"}, LoadCard(s, c, kind)
      PROVE  RequestsCurrent'
  <2>1. /\ card[c].status = "IN_COLLECTION"
        /\ session' = [session EXCEPT ![s] = [at |-> "release", win |-> card[c].owner, prize |-> c, kind |-> kind]]
    BY <1>4 DEF LoadCard
  <2> QED
    BY <1>1, <2>1 DEF RequestsCurrent, TypeOK
<1> QED
  BY <1>2, <1>3, <1>4

(* A card leaves its owner's collection.                                   *)
LEMMA ReleaseStep ==
    ASSUME TypeOK, Shapes, Sound, NEW s \in Sessions, Release(s)
    PROVE  Sound'
<1> USE DEF Sound
<1> DEFINE r == session[s]
           c == r.prize
<1>1. /\ r.at = "release" /\ c \in Cards /\ card[c].status \in {"IN_COLLECTION", "SHIPPED", "RESOLD"}
      /\ r.kind \in {"SHIPPED", "RESOLD"}
  BY DEF Release, RequestsCurrent, Shapes
<1>2. /\ card' = [card EXCEPT ![c].status = r.kind]
      /\ session' = [session EXCEPT ![s] = NoRequest]
      /\ UNCHANGED <<ball, booster, win, turn, plays, op>>
  BY DEF Release
<1>3. /\ card'[c].status = r.kind /\ \A d \in Cards : d # c => card'[d] = card[d]
  BY <1>1, <1>2 DEF TypeOK, CardRows
<1>4. session'[s] = NoRequest /\ \A t \in Sessions : t # s => session'[t] = session[t]
  BY <1>2 DEF TypeOK
<1>5. Winnable \subseteq Boosters \cup Cards /\ Boosters \cap Cards = {}
  BY InventoryAssumption DEF InventoryAssumption, Winnable
<1>6. \A q \in Winnable : InPool(q) => InPool(q)'
  BY <1>1, <1>2, <1>3, <1>5 DEF InPool
<1>7. BallsApart' /\ OpCurrent' /\ TurnOwnsPrize'
  BY <1>2, <1>6 DEF BallsApart, OpCurrent, TurnOwnsPrize
<1>8. WinsApart'
  BY <1>2 DEF WinsApart
<1>9. SetAside'
  <2>1. \A d \in Cards : (card'[d].status = "RESERVED") = (card[d].status = "RESERVED")
    BY <1>1, <1>3
  <2>2. \A n \in Plays : Pending(n) => win[n].prize \in Boosters \cup Cards
    BY <1>5 DEF WinsApart, Pending
  <2> QED
    BY <1>2, <2>1, <2>2 DEF SetAside, Pending, Prizes
<1>10. RequestsCurrent'
  BY <1>1, <1>2, <1>3, <1>4 DEF RequestsCurrent, NoRequest, Shapes
<1>11. RevealedWait'
  BY <1>1, <1>2, <1>3 DEF RevealedWait
<1> QED
  BY <1>7, <1>8, <1>9, <1>10, <1>11

(* A pending win is settled: it alone held its prize.                      *)
LEMMA SettleStep ==
    ASSUME TypeOK, Shapes, Sound, RevealedApart, ~stale', TypeOK', Shapes', NEW s \in Sessions, Settle(s)
    PROVE  Sound'
<1> USE DEF Sound
<1>0. /\ Winnable = Boosters \cup Singles /\ Singles \subseteq Cards /\ Boosters \cap Cards = {}
      /\ Null \notin WinRows /\ Null \notin Prizes /\ Prizes = Boosters \cup Cards
      /\ \A b \in Boosters : CardsOf(b) \subseteq Cards
      /\ \A a, b \in Boosters : a # b => CardsOf(a) \cap CardsOf(b) = {}
  BY InventoryAssumption DEF InventoryAssumption, Winnable, Prizes
<1>1. PICK n \in Plays, p \in Winnable, kind \in Settlements :
          /\ session[s] = [at |-> "settle", win |-> n, prize |-> p, kind |-> kind]
          /\ Pending(n) /\ win[n].prize = p
  <2>1. /\ session[s].at = "settle" /\ session[s].win \in Plays /\ Pending(session[s].win)
        /\ session[s].prize = win[session[s].win].prize /\ session[s].kind \in Settlements
    BY DEF Settle, Rests, RequestsCurrent, Shapes
  <2>2. session[s].prize \in Winnable
    BY <2>1 DEF WinsApart, Pending
  <2>3. session[s] = [at |-> session[s].at, win |-> session[s].win, prize |-> session[s].prize,
                      kind |-> session[s].kind]
    BY DEF TypeOK
  <2>4. QED
    BY <2>1, <2>2, <2>3
<1>2. /\ win' = [win EXCEPT ![n].status = kind]
      /\ session' = [session EXCEPT ![s] = NoRequest]
      /\ UNCHANGED <<ball, turn, plays, op>>
  BY <1>1 DEF Settle
<1>3. /\ win'[n].prize = p /\ win'[n] # Null /\ ~Pending(n)'
      /\ \A k \in Plays : k # n => win'[k] = win[k]
  <2>1. win[n] \in WinRows
    BY <1>1 DEF TypeOK, Pending
  <2>2. [win[n] EXCEPT !.status = kind] \in WinRows
    BY <2>1, RowUpdates, RowStatuses
  <2>3. /\ win'[n] = [win[n] EXCEPT !.status = kind]
        /\ \A k \in Plays : k # n => win'[k] = win[k]
    BY <1>2 DEF TypeOK
  <2>4. kind # "PENDING"
    BY DEF Settlements
  <2>5. [win[n] EXCEPT !.status = kind].status = kind /\ [win[n] EXCEPT !.status = kind].prize = p
    BY <1>1, <2>1 DEF WinRows
  <2>6. win'[n] # Null
    BY <1>0, <2>2, <2>3
  <2>7. win'[n].status # "PENDING" /\ win'[n].prize = p
    BY <2>3, <2>4, <2>5
  <2>8. QED
    BY <2>3, <2>6, <2>7 DEF Pending
<1>4. session'[s] = NoRequest /\ \A t \in Sessions : t # s => session'[t] = session[t]
  BY <1>2 DEF TypeOK
<1>5. \A k \in Plays : k # n => (Pending(k)' <=> Pending(k))
  BY <1>3 DEF Pending
(* Nobody else is promised the prize.                                      *)
<1>7. \A k \in Plays : k # n /\ Pending(k) => win[k].prize # p
  <2>1. ASSUME NEW k \in Plays, k # n, Pending(k), win[k].prize = p
        PROVE  FALSE
    <3>1. p \in Boosters
      BY <1>1, <2>1 DEF WinsApart, Pending
    <3>2. booster[p] = [status |-> "RESERVED", holder |-> n] /\ booster[p] = [status |-> "RESERVED", holder |-> k]
      BY <1>1, <2>1, <3>1 DEF SetAside
    <3>3. QED
      BY <2>1, <3>2
  <2>2. QED
    BY <2>1
(* What the rest needs to know of the two tables of prizes.                *)
<1>9. /\ \A q \in Winnable : q # p /\ InPool(q) => InPool(q)'
      /\ ~InPool(p)
      /\ \A b \in Boosters : b # p => booster'[b] = booster[b]
      /\ p \in Boosters => booster'[p].status \in {"CONSUMED", "AVAILABLE"}
      /\ \A c \in Cards : card'[c].status = "RESERVED" => card[c].status = "RESERVED" /\ c # p
      /\ \A c \in Singles : c # p => card'[c] = card[c]
      /\ \A c \in Cards : card[c].status \in {"IN_COLLECTION", "SHIPPED", "RESOLD"} => card'[c] = card[c]
      /\ \A b \in Boosters : \A c \in CardsOf(b) : booster'[b].status # "CONSUMED" => card'[c].status = "IN_POOL"
  <2>1. CASE p \in Boosters
    <3>1. booster[p].status = "RESERVED" /\ \A c \in CardsOf(p) : card[c].status = "IN_POOL"
      <4>1. booster[p] = [status |-> "RESERVED", holder |-> n]
        BY <1>1, <2>1 DEF SetAside
      <4>2. CardsOf(p) \subseteq Cards
        BY <1>0, <2>1
      <4>3. QED
        BY <2>1, <4>1, <4>2 DEF RevealedWait
    <3>2. SettleBooster(n, p, kind)
      BY <1>0, <1>1, <2>1 DEF Settle
    <3>3. /\ \A b \in Boosters : b # p => booster'[b] = booster[b]
          /\ booster'[p].status \in {"CONSUMED", "AVAILABLE"}
      BY <2>1, <3>2 DEF SettleBooster, OpenBooster, Back, TypeOK, BoosterRows
    <3>4. /\ \A c \in Cards : c \notin CardsOf(p) => card'[c] = card[c]
          /\ \A c \in CardsOf(p) : card'[c].status \in {"IN_POOL", "IN_COLLECTION"}
          /\ booster'[p].status # "CONSUMED" => card' = card
      BY <1>0, <2>1, <3>1, <3>2 DEF SettleBooster, OpenBooster, Revealed, Back, TypeOK, BoosterRows
    <3>5. \A c \in Singles : c \notin CardsOf(p) /\ c # p
      BY <1>0, <2>1 DEF RevealedApart
    <3>6. \A b \in Boosters : \A c \in CardsOf(b) : booster'[b].status # "CONSUMED" => card'[c].status = "IN_POOL"
      BY <1>0, <2>1, <3>1, <3>3, <3>4 DEF RevealedWait
    <3>8. \A q \in Winnable : q # p /\ InPool(q) => InPool(q)'
      BY <1>0, <3>3, <3>4, <3>5 DEF InPool
    <3>9. ~InPool(p)
      BY <2>1, <3>1 DEF InPool
    <3>10. \A c \in Cards : card'[c].status = "RESERVED" => card[c].status = "RESERVED" /\ c # p
      BY <1>0, <2>1, <3>4
    <3>11. \A c \in Cards : card[c].status \in {"IN_COLLECTION", "SHIPPED", "RESOLD"} => card'[c] = card[c]
      BY <3>1, <3>4
    <3>12. QED
      BY <1>0, <3>3, <3>4, <3>5, <3>6, <3>8, <3>9, <3>10, <3>11
  <2>2. CASE p \in Cards
    <3>1. card[p].status = "RESERVED" /\ p \in Singles
      BY <1>0, <1>1, <2>2 DEF SetAside
    <3>2. SettleCard(n, p, kind)
      BY <1>0, <1>1, <2>2 DEF Settle
    <3>3. /\ \A c \in Cards : c # p => card'[c] = card[c]
          /\ card'[p].status \in {"IN_POOL", "IN_COLLECTION", "SHIPPED"}
          /\ booster' = booster
      BY <2>2, <3>2 DEF SettleCard, TypeOK, CardRows
    <3>4. \A b \in Boosters : p \notin CardsOf(b)
      BY <3>1 DEF RevealedApart
    <3>5. \A b \in Boosters : \A c \in CardsOf(b) : booster'[b].status # "CONSUMED" => card'[c].status = "IN_POOL"
      BY <1>0, <3>3, <3>4 DEF RevealedWait
    <3>7. \A q \in Winnable : q # p /\ InPool(q) => InPool(q)'
      BY <1>0, <3>3 DEF InPool
    <3>8. ~InPool(p)
      BY <1>0, <2>2, <3>1 DEF InPool
    <3>9. QED
      BY <1>0, <2>2, <3>1, <3>3, <3>5, <3>7, <3>8
  <2>3. QED
    BY <1>0, <2>1, <2>2
<1>10. BallsApart' /\ OpCurrent' /\ TurnOwnsPrize'
  <2>1. BallsApart'
    BY <1>2, <1>9 DEF BallsApart
  <2>2. OpCurrent'
    BY <1>2, <1>9 DEF OpCurrent
  <2>3. TurnOwnsPrize'
    <3>1. turn.at # "none" => plays \in Plays /\ win[plays] = Null /\ n # plays
      BY <1>1 DEF TurnOwnsPrize, Pending
    <3>2. turn.at # "none" => plays' \in Plays /\ win'[plays'] = Null
      BY <1>2, <1>3, <3>1
    <3>3. \A k \in Plays : k > plays => win'[k] = Null
      BY <1>1, <1>3 DEF TurnOwnsPrize, Pending
    <3>4. QED
      BY <1>2, <1>9, <3>2, <3>3 DEF TurnOwnsPrize
  <2>4. QED
    BY <2>1, <2>2, <2>3
<1>11. WinsApart'
  <2>1. \A k \in Plays : (win'[k] # Null) = (win[k] # Null) /\ (win[k] # Null => win'[k].prize = win[k].prize)
    BY <1>1, <1>3 DEF Pending
  <2>2. QED
    BY <2>1 DEF WinsApart
<1>12. SetAside'
  <2>1. ASSUME NEW k \in Plays, Pending(k)'
        PROVE  IF win'[k].prize \in Boosters
               THEN booster'[win'[k].prize] = [status |-> "RESERVED", holder |-> k]
               ELSE card'[win'[k].prize].status = "RESERVED"
    <3>1. k # n /\ win'[k] = win[k] /\ Pending(k) /\ win[k].prize # p /\ win[k].prize \in Winnable
      BY <1>3, <1>5, <1>7, <2>1 DEF WinsApart, Pending
    <3>2. IF win[k].prize \in Boosters
          THEN booster[win[k].prize] = [status |-> "RESERVED", holder |-> k]
          ELSE card[win[k].prize].status = "RESERVED"
      BY <3>1 DEF SetAside
    <3>3. QED
      BY <1>0, <1>9, <3>1, <3>2
  <2>2. ASSUME NEW q \in Prizes,
               IF q \in Boosters THEN booster'[q].status = "RESERVED" ELSE card'[q].status = "RESERVED"
        PROVE  \E k \in Plays : Pending(k)' /\ win'[k].prize = q
    <3>1. /\ q # p
          /\ IF q \in Boosters THEN booster[q].status = "RESERVED" ELSE card[q].status = "RESERVED"
      BY <1>0, <1>9, <2>2
    <3>2. PICK k \in Plays : Pending(k) /\ win[k].prize = q
      BY <3>1 DEF SetAside
    <3>3. k # n
      BY <1>1, <3>1, <3>2
    <3>4. QED
      BY <1>3, <1>5, <3>2, <3>3
  <2>3. QED
    BY <2>1, <2>2 DEF SetAside
<1>13. RequestsCurrent'
  <2>1. \A k \in Plays : win[k] # Null => win'[k].prize = win[k].prize
    BY <1>1, <1>3
  <2> QED
    BY <1>4, <1>9, <2>1 DEF RequestsCurrent, NoRequest, Shapes
<1>14. RevealedWait'
  BY <1>9 DEF RevealedWait
<1>15. QED
  BY <1>10, <1>11, <1>12, <1>13, <1>14

(* The inductive invariant.                                                *)
LEMMA IInvStep ==
    ASSUME IInv, [Next]_vars, RevealedApart
    PROVE  IInv'
<1>1. TypeOK /\ Shapes /\ TypeOK' /\ Shapes'
  BY ShapesStep DEF IInv
<1>2. ASSUME ~stale' PROVE ~stale
  BY <1>2 DEF vars, ghosts, Next, Operator, CreateBall, Bind, BindCommit, Void, VoidCommit, SetStock, Turn, StartTurn,
              Loss, Grab, Reserve, ReserveFails, Player, LoadPending, LoadCard, Settle, Release, Rests
<1>3. ASSUME ~stale' PROVE Sound'
  <2>1. Sound
    BY <1>2, <1>3 DEF IInv
  <2>2. CASE Operator
    BY <1>1, <1>3, <2>1, <2>2, OperatorSteps
  <2>3. CASE Turn
    BY <1>1, <1>3, <2>1, <2>3, TurnSteps
  <2>4. ASSUME NEW s \in Sessions, Player(s)
        PROVE  Sound'
    <3>1. CASE \/ \E n \in Plays, kind \in Settlements : LoadPending(s, n, kind)
               \/ \E c \in Cards, kind \in {"SHIPPED", "RESOLD"} : LoadCard(s, c, kind)
      BY <1>1, <2>1, <3>1, LoadSteps
    <3>2. CASE Settle(s)
      BY <1>1, <1>3, <2>1, <3>2, SettleStep
    <3>3. CASE Release(s)
      BY <1>1, <2>1, <3>3, ReleaseStep
    <3> QED
      BY <2>4, <3>1, <3>2, <3>3 DEF Player
  <2>5. CASE UNCHANGED vars
    BY <2>1, <2>5 DEF vars, tables, Sound, BallsApart, OpCurrent, TurnOwnsPrize, WinsApart,
                      SetAside, RequestsCurrent, RevealedWait, Pending, InPool
  <2> QED
    BY <2>2, <2>3, <2>4, <2>5 DEF Next
<1>4. QED
  BY <1>1, <1>3 DEF IInv

(* A pending win's prize is set aside for it alone, and nothing else is:   *)
(* HeldForPending.                                                         *)
THEOREM PrizesHeld ==
    ASSUME RevealedApart
    PROVE  Spec => []HeldForPending
<1>1. Init => IInv
  BY IInvInit
<1>2. IInv /\ [Next]_vars => IInv'
  BY IInvStep
<1>3. IInv => HeldForPending
  BY DEF IInv, Sound, HeldForPending
<1>4. QED
  BY <1>1, <1>2, <1>3, PTL DEF Spec

-----------------------------------------------------------------------------
(***************************************************************************)
(* The gate.                                                               *)
(***************************************************************************)
(* What the gate saw of a ball stays so until the turn is over, or it is   *)
(* no longer counted as checked.                                           *)
LEMMA GatedStep ==
    ASSUME TypeOK, Shapes, Gated, [Next]_vars
    PROVE  Gated'
<1>1. ASSUME UNCHANGED <<ball, stock, turn, checked>>
      PROVE  Gated'
  BY <1>1 DEF Gated
<1>2. ASSUME NEW s \in Serials, CreateBall(s)
      PROVE  Gated'
  <2>1. ball[s].status = "absent" /\ ball' = [ball EXCEPT ![s].status = "LOADED"]
    BY <1>2 DEF CreateBall
  <2>2. /\ ball'[s].status = "LOADED" /\ \A t \in Serials : ball'[t].prize = ball[t].prize
        /\ \A t \in Serials : t # s => ball'[t] = ball[t]
    BY <2>1 DEF TypeOK, BallRows
  <2>3. UNCHANGED <<stock, turn, checked>> /\ checked \subseteq Serials
    BY <1>2 DEF CreateBall, TypeOK
  <2> QED
    BY <2>2, <2>3 DEF Gated
<1>3. CASE BindCommit
  <2>1. op.ball \in Serials /\ checked' = checked \ {op.ball} /\ checked \subseteq Serials /\ UNCHANGED <<stock, turn>>
    BY <1>3 DEF BindCommit, Shapes, TypeOK
  <2>2. \A t \in Serials : t # op.ball => ball'[t] = ball[t]
    BY <1>3 DEF BindCommit, TypeOK
  <2> QED
    BY <2>1, <2>2 DEF Gated
<1>4. CASE VoidCommit
  <2>1. ball' = [ball EXCEPT ![op.ball].status = "VOIDED"] /\ UNCHANGED <<stock, turn, checked>>
    BY <1>4 DEF VoidCommit
  <2>2. \A t \in Serials : /\ ball'[t].prize = ball[t].prize
                             /\ ball[t].status # "absent" => ball'[t].status # "absent"
    BY <2>1 DEF TypeOK, BallRows
  <2> QED
    BY <2>1, <2>2 DEF Gated, TypeOK
<1>5. CASE SetStock
  <2>1. checked' = {s \in checked : ball[s].prize \in Cards} /\ UNCHANGED <<ball, turn>>
    BY <1>5 DEF SetStock
  <2>2. Boosters \cap Cards = {}
    BY InventoryAssumption DEF InventoryAssumption
  <2> QED
    BY <2>1, <2>2 DEF Gated
<1>6. CASE StartTurn
  <2>1. /\ checked' = {s \in Serials : ball[s].status = "LOADED"} /\ turn'.at = "playing"
        /\ UNCHANGED <<ball, stock>>
    BY <1>6 DEF StartTurn, tables, NoTurn
  <2>2. \A s \in Serials : ball[s].status = "LOADED" => Claimable(ball[s].prize)
    BY <1>6 DEF StartTurn, Unclaimable
  <2> QED
    BY <2>1, <2>2 DEF Gated, Claimable
<1>7. CASE turn' = NoTurn
  BY <1>7 DEF Gated, NoTurn
<1>8. ASSUME NEW s \in Serials, Grab(s)
      PROVE  Gated'
  <2>1. CASE ball[s].status = "LOADED"
    <3>1. /\ turn.at = "playing" /\ UNCHANGED <<stock, checked>> /\ checked \subseteq Serials
          /\ ball' = [ball EXCEPT ![s].status = "GRABBED"]
          /\ turn' = [at |-> "reserve", ball |-> s, prize |-> ball[s].prize]
      BY <1>8, <2>1 DEF Grab, MarkGrabbed, TypeOK
    <3>2. \A t \in Serials : /\ ball'[t].prize = ball[t].prize
                               /\ ball[t].status # "absent" => ball'[t].status # "absent"
      BY <3>1 DEF TypeOK, BallRows
    <3> QED
      BY <3>1, <3>2 DEF Gated
  <2> QED
    BY <1>7, <1>8, <2>1 DEF Grab
<1>9. CASE Loss \/ Reserve \/ ReserveFails
  BY <1>7, <1>9 DEF Loss, Reserve, ReserveFails
<1>10. ASSUME NEW s \in Serials, NEW p \in Boosters \cup Singles, Bind(s, p)
       PROVE  Gated'
  BY <1>1, <1>10 DEF Bind, tables, ghosts
<1>11. ASSUME NEW s \in Serials, Void(s)
       PROVE  Gated'
  BY <1>1, <1>11 DEF Void, tables, ghosts
<1>12. ASSUME NEW s \in Sessions, Player(s)
       PROVE  Gated'
  BY <1>1, <1>12 DEF Player, LoadPending, LoadCard, Settle, Release, tables, ghosts
<1>13. CASE UNCHANGED vars
  BY <1>1, <1>13 DEF vars, tables, ghosts
<1> QED
  BY <1>2, <1>3, <1>4, <1>5, <1>6, <1>8, <1>9, <1>10, <1>11, <1>12, <1>13 DEF Next, Operator, Turn

(* Who catches a ball that the gate checked finds its prize: PrizeIsThere. *)
THEOREM GateSuffices ==
    ASSUME RevealedApart
    PROVE  Spec => []PrizeIsThere
<1>1. Init => IInv /\ Gated
  BY IInvInit DEF Init, Gated, NoTurn
<1>2. IInv /\ Gated /\ [Next]_vars => IInv' /\ Gated'
  BY IInvStep, GatedStep DEF IInv
<1>3. ASSUME IInv, Gated
      PROVE  PrizeIsThere
  <2>1. ASSUME turn.at = "reserve", turn.ball \in checked, ~stale
        PROVE  Claimable(turn.prize)
    <3>1. turn.prize # Null => InPool(turn.prize)
      BY <1>3, <2>1 DEF IInv, Sound, TurnOwnsPrize
    <3>2. turn.prize # Null /\ (turn.prize \in Boosters => stock)
      BY <1>3, <2>1 DEF Gated
    <3> QED
      BY <3>1, <3>2 DEF Claimable
  <2> QED
    BY <2>1 DEF PrizeIsThere
<1>4. QED
  BY <1>1, <1>2, <1>3, PTL DEF Spec
=============================================================================
