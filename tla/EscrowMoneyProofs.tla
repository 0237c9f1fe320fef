------------------------- MODULE EscrowMoneyProofs -------------------------
(***************************************************************************)
(* That no KSM is made or lost between the two chains, for any number of   *)
(* users, tokens and calls, any prices and any commission: every KSM that  *)
(* a user deposited or earned is in the contract, was received, is in a    *)
(* row of money_transfer or is still to be booked from a call.             *)
(***************************************************************************)
EXTENDS EscrowMirrorProofs

\* No process crashes, no transfer or scan fails, nobody else writes the tables
\* and sellers wait for their pay-out; the escrow may be told wrongly that a
\* transfer failed.
Calm == Allowed \subseteq {"watchLost"}

LEMMA CalmIsUndisturbed == Calm => /\ Undisturbed
                                   /\ Allowed \cap {"crash", "contractFails", "kusamaFails",
                                                    "hasty"} = {}
  BY DEF Calm, Undisturbed

-----------------------------------------------------------------------------
(* How far the escrow is with each call.                                   *)

\* The calls whose turn is still to come, the one in hand included.
ToBook(n) == {i \in DOMAIN chain[n] : IF MidBlock(n) THEN i >= scanner[n].at
                                      ELSE chain[n][i].block >= scanner[n].current}

\* The sale in hand has its row in money_transfer that debits the seller, and
\* that row was carried out.
Deducted(n) == \/ scanner[n].pc = "payout"
               \/ scanner[n].pc \in Carrying /\ scanner[n].then = "payout"
Taken(n) == \/ scanner[n].pc = "payout"
            \/ scanner[n].pc = "sent" /\ scanner[n].then = "payout"

Stage(n, i) == IF i \notin ToBook(n) THEN "done"
               ELSE IF i # scanner[n].at \/ ~Deducted(n) THEN "left"
               ELSE IF Taken(n) THEN "taken" ELSE "deducted"

\* What a call c at the stage s will still bring to u, the KSM that the account
\* on Kusama must keep for it, and the KSM in the contract that it takes from u.
Brings(c, s, u) ==
  IF s = "done" THEN 0
  ELSE IF c.method \in {"withdrawAllKSM", "transfer"} /\ c.who = u THEN c.amount
  ELSE IF c.method = "buyKSM" /\ c.seller = u
       THEN PriceWithoutCommission(c.amount) - (IF s = "left" THEN c.amount ELSE 0)
  ELSE 0

Needs(c, s) ==
  IF s = "done" THEN 0
  ELSE IF c.method \in {"withdrawAllKSM", "transfer"} THEN c.amount
  ELSE IF c.method = "buyKSM" /\ s # "left" THEN PriceWithoutCommission(c.amount)
  ELSE 0

Owes(c, s, u) ==
  IF c.method = "buyKSM" /\ c.seller = u /\ s \in {"left", "deducted"} THEN c.amount ELSE 0

Value(k, c, s, u) == IF k = "brings" THEN Brings(c, s, u)
                     ELSE IF k = "needs" THEN Needs(c, s) ELSE Owes(c, s, u)

Values(k, n, u) == [i \in DOMAIN chain[n] |-> Value(k, chain[n][i], Stage(n, i), u)]

Calls(k, n, u) == Sum(DOMAIN chain[n], Values(k, n, u))

\* The rows that are still to be carried out: of one user, of all users.
RowValue(k, row, u) == IF row.sent = 0 /\ (k = "needs" \/ row.who = u) THEN row.amount ELSE 0

RowValues(k, u) == [i \in DOMAIN money |-> RowValue(k, money[i], u)]

Rows(k, u) == Sum(DOMAIN money, RowValues(k, u))

\* What is on its way.
Claims(k, u) == Rows(k, u) + Calls(k, "unique", u) + Calls(k, "kusama", u)

-----------------------------------------------------------------------------
(* The invariant.                                                          *)

Conserved == \A u \in Users : due[u] = balanceKSM[u] + received[u] + Claims("brings", u)

Covers == market >= Sum(Users, balanceKSM) + Claims("needs", Nobody)

Backed == \A u \in Users : balanceKSM[u] >= Calls("owes", "unique", u)

\* The sale in hand and the row in hand are those of the call in hand.
SaleKnown == InSale("unique") => LET a == asks[scanner["unique"].ask] IN
               a.seller = Call("unique").seller /\ a.price = Call("unique").amount

RowKnown == scanner["unique"].pc \in Carrying /\ scanner["unique"].then = "payout" =>
              LET row == money[scanner["unique"].row] IN
              row.who = Call("unique").seller /\ row.amount = -Call("unique").amount

NegativeRows ==
  \A i \in DOMAIN money :
    money[i].sent = 0 /\ money[i].amount < 0 =>
      LET s == scanner["unique"] IN s.pc \in {"start", "send"} /\ s.then = "payout" /\ s.row = i

\* A row that was taken up and not carried out is in the hand of a process.
InHand ==
  \A i \in DOMAIN money :
    money[i].sent = 0 /\ money[i].status # "pending" =>
      \E n \in Networks : scanner[n].pc = "send" /\ scanner[n].row = i

NoneFailed == \A n \in Networks : scanner[n].pc # "failed"

\* No block is marked as scanned before its turn.
NoneAhead ==
  \A n \in Networks : \A b \in scanned[n] :
    b < scanner[n].current /\ (MidBlock(n) => b < scanner[n].block)

HandsOK == /\ SaleKnown /\ RowKnown /\ NegativeRows
           /\ InHand /\ NoneFailed /\ NoneAhead

BooksOK == Conserved /\ Covers /\ Backed

VInv == MInv /\ HandsOK /\ BooksOK

-----------------------------------------------------------------------------
(* Sums over the calls of a chain and the rows of money_transfer.          *)

LEMMA ValueType ==
  ASSUME NEW k, NEW c \in CallType, NEW s, NEW u
  PROVE  /\ Value(k, c, s, u) \in Int
         /\ k # "brings" => Value(k, c, s, u) \in Nat
<1>1. c.amount \in Nat /\ PriceWithoutCommission(c.amount) \in Nat
  BY PriceType DEF CallType
<1> DEFINE p == PriceWithoutCommission(c.amount)
<1> HIDE DEF p
<1>2. Brings(c, s, u) \in Int
  <2>1. p \in Nat /\ p = PriceWithoutCommission(c.amount)
    BY <1>1 DEF p
  <2>2. p - (IF s = "left" THEN c.amount ELSE 0) \in Int
    BY <1>1, <2>1
  <2> QED BY <1>1, <2>1, <2>2 DEF Brings
<1>3. Needs(c, s) \in Nat /\ Owes(c, s, u) \in Nat
  BY <1>1 DEF Needs, Owes
<1> QED BY <1>2, <1>3 DEF Value

LEMMA CallsAre ==
  ASSUME IInv, NEW n \in Networks, NEW k, NEW u
  PROVE  /\ IsFiniteSet(DOMAIN chain[n])
         /\ \A i \in DOMAIN chain[n] : /\ chain[n][i] \in CallType
                                       /\ Values(k, n, u)[i] \in Int
                                       /\ k # "brings" => Values(k, n, u)[i] \in Nat
         /\ Calls(k, n, u) \in Int
         /\ k # "brings" => Calls(k, n, u) \in Nat
<1>1. chain[n] \in Seq(CallType)
  BY DEF IInv, ChainsOK
<1>2. IsFiniteSet(DOMAIN chain[n]) /\ \A i \in DOMAIN chain[n] : chain[n][i] \in CallType
  BY <1>1, PositionsFinite
<1>3. \A i \in DOMAIN chain[n] : /\ Values(k, n, u)[i] \in Int
                                 /\ k # "brings" => Values(k, n, u)[i] \in Nat
  BY <1>2, ValueType DEF Values
<1>4. Calls(k, n, u) \in Int /\ (k # "brings" => Calls(k, n, u) \in Nat)
  BY <1>2, <1>3, SumRest, SumOfNats DEF Calls
<1> QED BY <1>2, <1>3, <1>4

\* Nothing happened to any call.
LEMMA CallsStay ==
  ASSUME IInv, NEW n \in Networks, chain'[n] = chain[n],
         \A i \in DOMAIN chain[n] : Stage(n, i)' = Stage(n, i), NEW k, NEW u
  PROVE  Calls(k, n, u)' = Calls(k, n, u)
<1>1. Values(k, n, u)' = Values(k, n, u)
  BY DEF Values
<1> QED BY <1>1 DEF Calls

\* The call in hand goes on.
LEMMA CallsMove ==
  ASSUME IInv, NEW n \in Networks, chain'[n] = chain[n], NEW i \in DOMAIN chain[n],
         \A j \in DOMAIN chain[n] \ {i} : Stage(n, j)' = Stage(n, j), NEW k, NEW u
  PROVE  Calls(k, n, u)' = Calls(k, n, u) + (Value(k, chain[n][i], Stage(n, i)', u)
                                               - Value(k, chain[n][i], Stage(n, i), u))
<1> DEFINE D == DOMAIN chain[n]
           w == Values(k, n, u)
           v == Values(k, n, u)'
<1>1. IsFiniteSet(D) /\ \A j \in D : w[j] \in Int /\ chain[n][j] \in CallType
  BY CallsAre
<1>2. v[i] = Value(k, chain[n][i], Stage(n, i)', u)
  BY DEF Values
<1>3. w[i] = Value(k, chain[n][i], Stage(n, i), u)
  BY DEF Values
<1>4. v[i] \in Int
  BY <1>1, <1>2, ValueType
<1>5. \A j \in D \ {i} : v[j] = w[j]
  BY DEF Values
<1>6. Calls(k, n, u) = Sum(D, w) /\ Calls(k, n, u)' = Sum(D, v)
  BY DEF Calls
<1> HIDE DEF D, v, w
<1>7. i \in D
  BY DEF D
<1>8. Sum(D, v) = Sum(D, w) + (v[i] - w[i])
  BY <1>1, <1>4, <1>5, <1>7, SumMoves
<1> QED BY <1>2, <1>3, <1>6, <1>8

\* A call is logged.
LEMMA CallsGrow ==
  ASSUME IInv, NEW n \in Networks, NEW method, NEW t, NEW who, NEW seller, NEW amount,
         Log(n, method, t, who, seller, amount), IInv', NEW k, NEW u,
         \A i \in DOMAIN chain[n] : Stage(n, i)' = Stage(n, i),
         NEW new, new = Len(chain[n]) + 1, NEW s, Stage(n, new)' = s
  PROVE  LET c == [block |-> head[n] + 1, method |-> method, token |-> t, who |-> who,
                   seller |-> seller, amount |-> amount]
         IN /\ Calls(k, n, u)' = Calls(k, n, u) + Value(k, c, s, u)
            /\ Value(k, c, s, u) \in Int
<1> DEFINE c == [block |-> head[n] + 1, method |-> method, token |-> t, who |-> who,
                 seller |-> seller, amount |-> amount]
           D == DOMAIN chain[n]
           E == DOMAIN chain'[n]
           w == Values(k, n, u)
           v == Values(k, n, u)'
<1>1. /\ E = D \cup {new} /\ new \notin D
      /\ chain'[n][new] = c /\ \A i \in D : chain'[n][i] = chain[n][i]
  BY Logged
<1>2. IsFiniteSet(D) /\ \A j \in D : w[j] \in Int
  BY CallsAre
<1>3. c \in CallType
  <2>1. chain'[n] \in Seq(CallType)
    BY DEF IInv, ChainsOK
  <2> QED BY <1>1, <2>1
<1> HIDE DEF c
<1>4. v[new] = Value(k, c, s, u)
  BY <1>1 DEF Values
<1>5. v[new] \in Int
  BY <1>3, <1>4, ValueType
<1>6. \A j \in D : v[j] = w[j]
  BY <1>1 DEF Values
<1>7. Calls(k, n, u) = Sum(D, w) /\ Calls(k, n, u)' = Sum(E, v)
  BY DEF Calls
<1> HIDE DEF D, E, v, w
<1>8. Sum(E, v) = Sum(D, w) + v[new]
  BY <1>1, <1>2, <1>5, <1>6, SumGrows
<1> QED BY <1>4, <1>5, <1>7, <1>8 DEF c


LEMMA RowsAre ==
  ASSUME IInv, NEW k, NEW u
  PROVE  /\ IsFiniteSet(DOMAIN money)
         /\ \A i \in DOMAIN money : money[i] \in MoneyType /\ RowValues(k, u)[i] \in Int
         /\ Rows(k, u) \in Int
<1>1. money \in Seq(MoneyType)
  BY DEF IInv, TablesOK
<1>2. IsFiniteSet(DOMAIN money) /\ \A i \in DOMAIN money : money[i] \in MoneyType
  BY <1>1, PositionsFinite
<1>3. \A i \in DOMAIN money : RowValues(k, u)[i] \in Int
  BY <1>2 DEF RowValues, RowValue, MoneyType
<1>4. Rows(k, u) \in Int
  BY <1>2, <1>3, SumRest DEF Rows
<1> QED BY <1>2, <1>3, <1>4

\* No row changes but in its status.
LEMMA RowsKeep ==
  ASSUME IInv, SameRows, \A i \in DOMAIN money : money'[i].sent = money[i].sent, NEW k, NEW u
  PROVE  Rows(k, u)' = Rows(k, u)
<1> DEFINE D == DOMAIN money
           w == RowValues(k, u)
           v == RowValues(k, u)'
<1>1. DOMAIN money' = D /\ \A i \in D : v[i] = w[i]
  BY DEF SameRows, RowValues, RowValue
<1>2. IsFiniteSet(D) /\ \A i \in D : w[i] \in Int
  BY RowsAre
<1>3. Rows(k, u) = Sum(D, w) /\ Rows(k, u)' = Sum(D, v)
  BY <1>1 DEF Rows
<1> HIDE DEF D, v, w
<1> QED BY <1>1, <1>2, <1>3, SumStays

\* A row is registered.
LEMMA RowsGrow ==
  ASSUME IInv, NEW row \in MoneyType, money' = Append(money, row), NEW k, NEW u
  PROVE  Rows(k, u)' = Rows(k, u) + RowValue(k, row, u)
<1> DEFINE D == DOMAIN money
           E == DOMAIN money'
           w == RowValues(k, u)
           v == RowValues(k, u)'
           new == Len(money) + 1
<1>1. /\ E = D \cup {new} /\ new \notin D
      /\ money'[new] = row /\ \A i \in D : money'[i] = money[i]
  BY RowIsAdded
<1>2. IsFiniteSet(D) /\ \A i \in D : w[i] \in Int
  BY RowsAre
<1>3. v[new] = RowValue(k, row, u) /\ \A i \in D : v[i] = w[i]
  BY <1>1 DEF RowValues
<1>4. v[new] \in Int
  BY <1>3 DEF RowValue, MoneyType
<1>5. Rows(k, u) = Sum(D, w) /\ Rows(k, u)' = Sum(E, v)
  BY DEF Rows
<1> HIDE DEF D, E, v, w, new
<1>6. Sum(E, v) = Sum(D, w) + v[new]
  BY <1>1, <1>2, <1>3, <1>4, SumGrows
<1> QED BY <1>3, <1>5, <1>6

\* A row is carried out.
LEMMA RowIsSent ==
  ASSUME IInv, NEW i \in DOMAIN money, money[i].sent = 0,
         money' = [money EXCEPT ![i].sent = @ + 1], NEW k, NEW u
  PROVE  Rows(k, u)' = Rows(k, u) - RowValue(k, money[i], u)
<1> DEFINE D == DOMAIN money
           w == RowValues(k, u)
           v == RowValues(k, u)'
<1>1. /\ DOMAIN money' = D /\ \A j \in D \ {i} : money'[j] = money[j]
      /\ money'[i].sent = 1
  <2>1. money[i] \in MoneyType
    BY RowsAre
  <2> QED BY <2>1 DEF MoneyType
<1>2. IsFiniteSet(D) /\ \A j \in D : w[j] \in Int
  BY RowsAre
<1>3. v[i] = 0 /\ w[i] = RowValue(k, money[i], u) /\ \A j \in D \ {i} : v[j] = w[j]
  BY <1>1 DEF RowValues, RowValue
<1>4. Rows(k, u) = Sum(D, w) /\ Rows(k, u)' = Sum(D, v)
  BY <1>1 DEF Rows
<1>5. w[i] \in Int /\ i \in D /\ v[i] \in Int
  BY <1>2, <1>3
<1> HIDE DEF D, v, w
<1>6. Sum(D, v) = Sum(D, w) + (v[i] - w[i])
  BY <1>2, <1>3, <1>5, SumMoves
<1>7. Sum(D, w) \in Int
  BY <1>2, SumRest
<1> QED BY <1>3, <1>4, <1>5, <1>6, <1>7

-----------------------------------------------------------------------------
(* How a step of a process moves the calls on.                             *)

LEMMA OnlyUniqueDeducts ==
  ASSUME SInv, NEW n \in Networks
  PROVE  /\ Deducted(n) => InSale(n) /\ MidBlock(n) /\ n = "unique"
         /\ Taken(n) => Deducted(n)
         /\ InSale(n) => /\ MidBlock(n) /\ scanner[n].at \in DOMAIN chain[n]
                         /\ Call(n).method = "buyKSM"
                         /\ Call(n) = chain[n][scanner[n].at] /\ scanner[n].at \in ToBook(n)
<1>1. /\ Deducted(n) => InSale(n)
      /\ InSale(n) => MidBlock(n)
      /\ Taken(n) => Deducted(n)
  BY DEF Deducted, Taken, InSale, MidBlock, Carrying
<1>2. InSale(n) => n = "unique" /\ scanner[n].at \in DOMAIN chain[n] /\ Call(n).method = "buyKSM"
  BY DEF SInv, Scans, WhereOK
<1>3. InSale(n) => scanner[n].at \in ToBook(n)
  <2>1. scanner[n].at \in Nat
    BY Places DEF SInv, ScannerType
  <2> QED BY <1>1, <1>2, <2>1 DEF ToBook
<1> QED BY <1>1, <1>2, <1>3 DEF Call

LEMMA BookStays ==
  ASSUME SInv, NEW n \in Networks, chain'[n] = chain[n],
         \/ scanner'[n] = scanner[n]
         \/ ~MidBlock(n) /\ ~MidBlock(n)' /\ scanner'[n].current = scanner[n].current
         \/ MidBlock(n) /\ MidBlock(n)' /\ scanner'[n].at = scanner[n].at
         \/ Begin(n) /\ scanner[n].current \notin scanned[n]
         \/ EndOfBlock(n)
  PROVE  ToBook(n)' = ToBook(n)
<1>1. CASE scanner'[n] = scanner[n]
  BY <1>1 DEF ToBook, MidBlock, InSale
<1>2. CASE ~MidBlock(n) /\ ~MidBlock(n)' /\ scanner'[n].current = scanner[n].current
  BY <1>2 DEF ToBook
<1>3. CASE MidBlock(n) /\ MidBlock(n)' /\ scanner'[n].at = scanner[n].at
  BY <1>3 DEF ToBook
<1>4. /\ chain[n] \in Seq(CallType)
      /\ scanner[n].at \in Nat /\ scanner[n].current \in Nat /\ scanner[n].block \in Nat
      /\ \A i \in DOMAIN chain[n] : i \in Nat /\ chain[n][i].block \in Nat
  <2>1. chain[n] \in Seq(CallType)
    BY DEF SInv, IInv, ChainsOK
  <2>2. \A i \in DOMAIN chain[n] : i \in Nat /\ chain[n][i] \in CallType
    BY <2>1
  <2> QED BY <2>1, <2>2, Places DEF SInv, ScannerType, CallType
<1>5. CASE Begin(n) /\ scanner[n].current \notin scanned[n]
  <2> DEFINE at == scanner'[n].at
  <2>1. /\ scanner'[n].pc = "scan" /\ scanner[n].pc = "next" /\ at \in 1 .. Len(chain[n]) + 1
        /\ \A i \in DOMAIN chain[n] : i < at <=> chain[n][i].block < scanner[n].current
    BY <1>5, BeginPlace DEF Begin
  <2>2. ~MidBlock(n) /\ MidBlock(n)'
    BY <2>1 DEF MidBlock, InSale, Carrying
  <2>3. ASSUME NEW i \in DOMAIN chain[n]
        PROVE  i >= at <=> chain[n][i].block >= scanner[n].current
    <3>1. at \in Nat
      BY <1>4, <2>1
    <3> HIDE DEF at
    <3> QED BY <1>4, <2>1, <3>1
  <2> QED BY <2>2, <2>3 DEF ToBook
<1>6. CASE EndOfBlock(n)
  <2>1. scanner[n].pc = "scan" /\ scanner'[n].pc = "money" /\ SetPlace(n, "money", scanner[n].at)
    BY <1>6, GoPlace DEF EndOfBlock, SInv, Pcs, SetPlace
  <2>2. MidBlock(n) /\ ~MidBlock(n)' /\ scanner'[n].current = scanner[n].block + 1 /\ Divides(n)
    <3>1. MidBlock(n) /\ ~MidBlock(n)' /\ scanner'[n].current = scanner[n].current
      BY <2>1 DEF MidBlock, InSale, Carrying, SetPlace
    <3> QED BY <3>1 DEF SInv, Scans, WhereOK
  <2>3. ASSUME NEW i \in DOMAIN chain[n]
        PROVE  i >= scanner[n].at <=> chain[n][i].block >= scanner[n].block + 1
    <3>1. chain[n][i].block = scanner[n].block => i < scanner[n].at
      BY <1>6, BlockIsDone
    <3> QED BY <1>4, <2>2, <3>1 DEF Divides
  <2> QED BY <2>2, <2>3 DEF ToBook
<1> QED BY <1>1, <1>2, <1>3, <1>5, <1>6

LEMMA StagesStay ==
  ASSUME NEW n, ToBook(n)' = ToBook(n),
         \/ ~Deducted(n) /\ ~Deducted(n)'
         \/ /\ Deducted(n) /\ Deducted(n)' /\ (Taken(n)' <=> Taken(n))
            /\ scanner'[n].at = scanner[n].at
  PROVE  \A i : Stage(n, i)' = Stage(n, i)
  BY DEF Stage

\* Only the sale in hand goes on.
LEMMA StagesOfOthersStay ==
  ASSUME NEW n, ToBook(n)' = ToBook(n), scanner'[n].at = scanner[n].at
  PROVE  \A i : i # scanner[n].at => Stage(n, i)' = Stage(n, i)
  BY DEF Stage

LEMMA StageIsDone ==
  ASSUME SInv, NEW n \in Networks, chain'[n] = chain[n], MidBlock(n),
         SetPlace(n, "scan", scanner[n].at + 1), scanner[n].at \in DOMAIN chain[n]
  PROVE  LET at == scanner[n].at IN
         /\ Stage(n, at) = IF Taken(n) THEN "taken" ELSE IF Deducted(n) THEN "deducted" ELSE "left"
         /\ \A i \in DOMAIN chain[n] : i = at => Stage(n, i)' = "done"
         /\ \A i \in DOMAIN chain[n] \ {at} : Stage(n, i)' = Stage(n, i)
<1> DEFINE at == scanner[n].at
<1>1. /\ MidBlock(n)' /\ ~Deducted(n)' /\ scanner'[n].at = at + 1
      /\ Taken(n) => Deducted(n)
  BY DEF MidBlock, Deducted, Taken, Carrying, SetPlace
<1>2. at \in Nat /\ \A i \in DOMAIN chain[n] : i \in Nat
  BY Places DEF SInv, ScannerType, IInv, ChainsOK
<1>3. ToBook(n) = {i \in DOMAIN chain[n] : i >= at}
  BY DEF ToBook
<1>4. ToBook(n)' = {i \in DOMAIN chain[n] : i >= at + 1}
  BY <1>1 DEF ToBook
<1>5. at \in ToBook(n) /\ at \notin ToBook(n)'
      /\ \A i \in DOMAIN chain[n] : i # at => (i \in ToBook(n)' <=> i \in ToBook(n))
  BY <1>2, <1>3, <1>4
<1>6. Stage(n, at) = IF Taken(n) THEN "taken" ELSE IF Deducted(n) THEN "deducted" ELSE "left"
  BY <1>1, <1>5 DEF Stage
<1>7. \A i \in DOMAIN chain[n] : i = at => Stage(n, i)' = "done"
  BY <1>5 DEF Stage
<1>8. ASSUME NEW i \in DOMAIN chain[n], i # at PROVE Stage(n, i)' = Stage(n, i)
  BY <1>1, <1>5, <1>8 DEF Stage
<1> QED BY <1>6, <1>7, <1>8

\* A call that is logged is left to do.
LEMMA LogStages ==
  ASSUME SInv, NEW n \in Networks, NEW method, NEW t, NEW who, NEW seller, NEW amount,
         Log(n, method, t, who, seller, amount), UNCHANGED <<head, scanner>>
  PROVE  /\ \A i \in DOMAIN chain[n] : Stage(n, i)' = Stage(n, i)
         /\ \A i : i = Len(chain[n]) + 1 => Stage(n, i)' = "left"
<1> DEFINE new == Len(chain[n]) + 1
<1>1. /\ DOMAIN chain'[n] = DOMAIN chain[n] \cup {new} /\ new \notin DOMAIN chain[n]
      /\ chain'[n][new].block = head[n] + 1
      /\ \A i \in DOMAIN chain[n] : chain'[n][i] = chain[n][i]
  <2> DEFINE c == [block |-> head[n] + 1, method |-> method, token |-> t, who |-> who,
                   seller |-> seller, amount |-> amount]
  <2>1. /\ DOMAIN chain'[n] = DOMAIN chain[n] \cup {new} /\ new \notin DOMAIN chain[n]
        /\ chain'[n][new] = c
        /\ \A i \in DOMAIN chain[n] : chain'[n][i] = chain[n][i]
    BY Logged DEF SInv
  <2> QED BY <2>1
<1>2. /\ MidBlock(n)' = MidBlock(n) /\ Deducted(n)' = Deducted(n) /\ Taken(n)' = Taken(n)
      /\ scanner'[n] = scanner[n]
  BY DEF MidBlock, InSale, Deducted, Taken
<1>3. \A i \in DOMAIN chain[n] : i \in ToBook(n)' <=> i \in ToBook(n)
  BY <1>1, <1>2 DEF ToBook
<1>4. new \in ToBook(n)'
  <2>1. /\ scanner[n].current \in 1 .. head[n] + 1
        /\ MidBlock(n) => scanner[n].at \in 1 .. Len(chain[n]) + 1
        /\ head[n] \in Nat /\ Len(chain[n]) \in Nat
    BY DEF SInv, Scans, WhereOK, IInv, ChainsOK
  <2>2. head[n] + 1 >= scanner[n].current /\ (MidBlock(n) => new >= scanner[n].at)
    BY <2>1
  <2> HIDE DEF new
  <2> QED BY <1>1, <1>2, <2>2 DEF ToBook
<1>5. Deducted(n) => new # scanner[n].at
  BY <1>1, OnlyUniqueDeducts
<1>6. \A i \in DOMAIN chain[n] : Stage(n, i)' = Stage(n, i)
  BY <1>2, <1>3 DEF Stage
<1>7. \A i : i = new => Stage(n, i)' = "left"
  BY <1>2, <1>4, <1>5 DEF Stage
<1> QED BY <1>6, <1>7

-----------------------------------------------------------------------------
(* The books are kept by what a step writes into them.                     *)

\* Nothing that the books are about changes.
SameBooks ==
  /\ UNCHANGED <<balanceKSM, ledger>>
  /\ \A k, u : /\ Claims(k, u)' = Claims(k, u)
               /\ Calls(k, "unique", u)' = Calls(k, "unique", u)

LEMMA SameBooksKeep ==
  ASSUME BooksOK, SameBooks
  PROVE  BooksOK'
<1>1. UNCHANGED <<balanceKSM, market, received, due>>
  BY DEF SameBooks, ledger
<1>2. Conserved'
  BY <1>1 DEF BooksOK, SameBooks, Conserved
<1>3. Covers'
  BY <1>1 DEF BooksOK, SameBooks, Covers
<1>4. Backed'
  BY <1>1 DEF BooksOK, SameBooks, Backed
<1> QED BY <1>2, <1>3, <1>4 DEF BooksOK

\* The types that the arithmetic needs.
LEMMA BooksAreInts ==
  ASSUME IInv
  PROVE  /\ \A u \in Users : balanceKSM[u] \in Nat /\ received[u] \in Nat /\ due[u] \in Int
         /\ market \in Nat /\ Sum(Users, balanceKSM) \in Nat
         /\ \A u \in Users : Sum(Users, balanceKSM) >= balanceKSM[u]
         /\ \A k, u : Rows(k, u) \in Int /\ Claims(k, u) \in Int
         /\ \A k, u : \A n \in Networks :
              Calls(k, n, u) \in Int /\ (k # "brings" => Calls(k, n, u) \in Nat)
<1>1. balanceKSM \in [Users -> Nat] /\ received \in [Users -> Nat] /\ due \in [Users -> Int]
  BY DEF IInv, Custody, ContractTypeOK, FundsOK
<1>2. /\ Sum(Users, balanceKSM) \in Nat
      /\ \A u \in Users : Sum(Users, balanceKSM) >= balanceKSM[u]
  BY <1>1, SumOfNats, ContractAssumption
<1>3. \A k, u : \A n \in Networks :
              Calls(k, n, u) \in Int /\ (k # "brings" => Calls(k, n, u) \in Nat)
  BY CallsAre
<1>4. \A k, u : Rows(k, u) \in Int /\ Claims(k, u) \in Int
  BY <1>3, RowsAre DEF Claims, Networks
<1> QED BY <1>1, <1>2, <1>3, <1>4 DEF IInv, FundsOK

\* The sum of the balances when one user is credited.
LEMMA TotalMoves ==
  ASSUME NEW f \in [Users -> Int], NEW u \in Users, NEW a \in Int
  PROVE  Sum(Users, Credit(f, u, a)) = Sum(Users, f) + a
<1> DEFINE g == Credit(f, u, a)
<1>1. g[u] = f[u] + a /\ \A v \in Users \ {u} : g[v] = f[v]
  BY DEF Credit
<1>2. g[u] \in Int /\ f[u] \in Int /\ \A v \in Users : f[v] \in Int
  BY <1>1
<1> HIDE DEF g
<1>3. Sum(Users, g) = Sum(Users, f) + (g[u] - f[u]) /\ Sum(Users, f) \in Int
  BY <1>1, <1>2, SumMoves, SumRest, ContractAssumption
<1> QED BY <1>1, <1>2, <1>3 DEF g

LEMMA TotalLoses ==
  ASSUME NEW f \in [Users -> Int], NEW u \in Users
  PROVE  Sum(Users, [f EXCEPT ![u] = 0]) = Sum(Users, f) - f[u]
<1>1. [f EXCEPT ![u] = 0] = Credit(f, u, -f[u])
  <2>1. f[u] \in Int /\ f[u] + (-f[u]) = 0
    OBVIOUS
  <2> QED BY <2>1 DEF Credit
<1>2. f[u] \in Int /\ Sum(Users, f) \in Int
  BY SumRest, ContractAssumption
<1>3. Sum(Users, Credit(f, u, -f[u])) = Sum(Users, f) + (-f[u])
  BY <1>2, TotalMoves
<1> QED BY <1>1, <1>2, <1>3

\* A step of a process that registers nothing and moves no call on.
LEMMA IdleBooks ==
  ASSUME SInv, NEW n \in Networks, UNCHANGED <<balanceKSM, ledger, chain>>,
         SameRows, \A i \in DOMAIN money : money'[i].sent = money[i].sent,
         \A m \in Networks \ {n} : scanner'[m] = scanner[m],
         \A i \in DOMAIN chain[n] : Stage(n, i)' = Stage(n, i)
  PROVE  SameBooks
<1>1. ASSUME NEW k, NEW u PROVE Rows(k, u)' = Rows(k, u)
  BY RowsKeep DEF SInv
<1>2. ASSUME NEW k, NEW u, NEW m \in Networks PROVE Calls(k, m, u)' = Calls(k, m, u)
  <2>1. \A i \in DOMAIN chain[m] : Stage(m, i)' = Stage(m, i)
    <3>1. CASE m = n
      BY <3>1
    <3>2. CASE m # n
      BY <3>2 DEF Stage, ToBook, MidBlock, InSale, Deducted, Taken
    <3> QED BY <3>1, <3>2
  <2>2. chain'[m] = chain[m]
    OBVIOUS
  <2> QED BY <2>1, <2>2, CallsStay DEF SInv
<1> QED BY <1>1, <1>2 DEF SameBooks, Claims, Networks

\* A step that changes neither places nor rows nor calls.
LEMMA OutsideBooks ==
  ASSUME SInv, UNCHANGED <<balanceKSM, ledger, chain, money, scanner>>
  PROVE  SameBooks
<1>1. SameRows /\ \A i \in DOMAIN money : money'[i].sent = money[i].sent
  BY DEF SameRows
<1>2. \A i : Stage("unique", i)' = Stage("unique", i)
  BY DEF Stage, ToBook, MidBlock, InSale, Deducted, Taken
<1> QED BY <1>1, <1>2, IdleBooks DEF Networks

\* A call whose stages are all worth nothing.
LEMMA WorthlessCall ==
  ASSUME NEW c, c.method \in {"addAsk", "cancelAsk"}, NEW s, NEW u, NEW k
  PROVE  Value(k, c, s, u) = 0
  BY DEF Value, Brings, Needs, Owes

\* The process goes on behind a call that moves no money.
LEMMA WorthlessBooks ==
  ASSUME SInv, NEW n \in Networks, UNCHANGED <<balanceKSM, ledger, chain, money>>,
         MidBlock(n), SetPlace(n, "scan", scanner[n].at + 1),
         scanner[n].at \in DOMAIN chain[n],
         Call(n).method \in {"addAsk", "cancelAsk"}
  PROVE  SameBooks
<1>1. ASSUME NEW k, NEW u PROVE Rows(k, u)' = Rows(k, u)
  BY RowsKeep DEF SInv, SameRows
<1>2. ASSUME NEW k, NEW u, NEW m \in Networks PROVE Calls(k, m, u)' = Calls(k, m, u)
  <2>1. CASE m # n
    <3>1. \A i \in DOMAIN chain[m] : Stage(m, i)' = Stage(m, i)
      <4>1. scanner'[m] = scanner[m]
        BY <2>1 DEF SetPlace
      <4> QED BY <4>1 DEF Stage, ToBook, MidBlock, InSale, Deducted, Taken
    <3>2. chain'[m] = chain[m]
      OBVIOUS
    <3> QED BY <3>1, <3>2, CallsStay DEF SInv
  <2>2. CASE m = n
    <3>1. PICK i \in DOMAIN chain[n] : i = scanner[n].at
      OBVIOUS
    <3>2. chain'[n] = chain[n] /\ \A j \in DOMAIN chain[n] \ {i} : Stage(n, j)' = Stage(n, j)
      BY <3>1, StageIsDone
    <3>3. Calls(k, n, u)' = Calls(k, n, u) + (Value(k, chain[n][i], Stage(n, i)', u)
                                               - Value(k, chain[n][i], Stage(n, i), u))
      BY <3>2, CallsMove DEF SInv
    <3>4. \A s : Value(k, chain[n][i], s, u) = 0
      BY <3>1, WorthlessCall DEF Call
    <3>5. Calls(k, n, u) \in Int
      BY CallsAre DEF SInv
    <3> QED BY <2>2, <3>3, <3>4, <3>5
  <2> QED BY <2>1, <2>2
<1> QED BY <1>1, <1>2 DEF SameBooks, Claims, Networks

\* A row may be registered for the call in hand, which goes on.
LEMMA ClaimsMove ==
  ASSUME IInv, NEW n \in Networks, UNCHANGED chain,
         \A m \in Networks \ {n} : scanner'[m] = scanner[m],
         NEW i \in DOMAIN chain[n], \A j \in DOMAIN chain[n] \ {i} : Stage(n, j)' = Stage(n, j),
         NEW s, Stage(n, i) = s, NEW t, Stage(n, i)' = t, NEW k, NEW u,
         NEW v \in Int, Rows(k, u)' = Rows(k, u) + v
  PROVE  LET c == chain[n][i]
             d == Value(k, c, t, u) - Value(k, c, s, u)
         IN /\ Claims(k, u)' = Claims(k, u) + v + d
            /\ Calls(k, n, u)' = Calls(k, n, u) + d
            /\ \A m \in Networks \ {n} : Calls(k, m, u)' = Calls(k, m, u)
            /\ Value(k, c, t, u) \in Int /\ Value(k, c, s, u) \in Int
<1> DEFINE c == chain[n][i]
           d == Value(k, c, t, u) - Value(k, c, s, u)
<1>1. Calls(k, n, u)' = Calls(k, n, u) + d
  <2>1. chain'[n] = chain[n]
    OBVIOUS
  <2> QED BY <2>1, CallsMove
<1>2. ASSUME NEW m \in Networks \ {n} PROVE Calls(k, m, u)' = Calls(k, m, u)
  <2>1. scanner'[m] = scanner[m] /\ chain'[m] = chain[m]
    OBVIOUS
  <2>2. \A j \in DOMAIN chain[m] : Stage(m, j)' = Stage(m, j)
    BY <2>1 DEF Stage, ToBook, MidBlock, InSale, Deducted, Taken
  <2> QED BY <2>1, <2>2, CallsStay
<1>3. Value(k, c, t, u) \in Int /\ Value(k, c, s, u) \in Int
  BY CallsAre, ValueType
<1>4. d \in Int
  BY <1>3
<1> HIDE DEF c, d
<1>5. Rows(k, u) \in Int /\ Calls(k, "unique", u) \in Int /\ Calls(k, "kusama", u) \in Int
  BY RowsAre, CallsAre DEF Networks
<1>6. Claims(k, u)' = Claims(k, u) + v + d
  <2>1. CASE n = "unique"
    <3>1. Calls(k, "kusama", u)' = Calls(k, "kusama", u)
      BY <1>2, <2>1 DEF Networks
    <3> QED BY <1>1, <1>4, <1>5, <2>1, <3>1 DEF Claims
  <2>2. CASE n = "kusama"
    <3>1. Calls(k, "unique", u)' = Calls(k, "unique", u)
      BY <1>2, <2>2 DEF Networks
    <3> QED BY <1>1, <1>4, <1>5, <2>2, <3>1 DEF Claims
  <2> QED BY <2>1, <2>2 DEF Networks
<1> QED BY <1>1, <1>2, <1>3, <1>6 DEF c, d

\* A row is registered for the call in hand.
LEMMA RegisterKeepsBooks ==
  ASSUME IInv, BooksOK, NEW n \in Networks, UNCHANGED <<balanceKSM, ledger, chain>>,
         NEW row \in MoneyType, money' = Append(money, row),
         \A m \in Networks \ {n} : scanner'[m] = scanner[m],
         NEW i \in DOMAIN chain[n], \A j \in DOMAIN chain[n] \ {i} : Stage(n, j)' = Stage(n, j),
         NEW s, Stage(n, i) = s, NEW t, Stage(n, i)' = t, NEW c, c = chain[n][i],
         \A u \in Users :
           /\ RowValue("brings", row, u) = Value("brings", c, s, u) - Value("brings", c, t, u)
           /\ Value("owes", c, t, u) = Value("owes", c, s, u),
         RowValue("needs", row, Nobody) <= Value("needs", c, s, Nobody) - Value("needs", c, t, Nobody)
  PROVE  BooksOK'
<1>1. ASSUME NEW k, NEW u
      PROVE  LET v == RowValue(k, row, u)
                 d == Value(k, c, t, u) - Value(k, c, s, u)
             IN /\ Claims(k, u)' = Claims(k, u) + v + d /\ Claims(k, u) \in Int
                /\ Calls(k, n, u)' = Calls(k, n, u) + d /\ Calls(k, n, u) \in Int
                /\ \A m \in Networks \ {n} : Calls(k, m, u)' = Calls(k, m, u)
                /\ Value(k, c, t, u) \in Int /\ Value(k, c, s, u) \in Int /\ v \in Int
  <2>1. Rows(k, u)' = Rows(k, u) + RowValue(k, row, u)
    BY RowsGrow
  <2>2. RowValue(k, row, u) \in Int
    BY DEF RowValue, MoneyType
  <2> QED BY <2>1, <2>2, ClaimsMove, BooksAreInts
<1>2. ASSUME NEW u \in Users PROVE Claims("brings", u)' = Claims("brings", u)
  BY <1>1
<1>3. Claims("needs", Nobody)' <= Claims("needs", Nobody) /\ Claims("needs", Nobody)' \in Int
  BY <1>1
<1>4. ASSUME NEW u \in Users PROVE Calls("owes", "unique", u)' = Calls("owes", "unique", u)
  <2>1. CASE n = "unique"
    BY <1>1, <2>1
  <2>2. CASE n # "unique"
    BY <1>1, <2>2 DEF Networks
  <2> QED BY <2>1, <2>2
<1>5. UNCHANGED <<balanceKSM, market, received, due>>
  BY DEF ledger
<1>6. Conserved' /\ Backed'
  BY <1>2, <1>4, <1>5 DEF Conserved, Backed, BooksOK
<1>7. Covers'
  <2>1. market \in Int /\ Sum(Users, balanceKSM) \in Int /\ Claims("needs", Nobody) \in Int
    BY BooksAreInts
  <2>2. market >= Sum(Users, balanceKSM) + Claims("needs", Nobody)
    BY DEF BooksOK, Covers
  <2>3. market >= Sum(Users, balanceKSM) + Claims("needs", Nobody)'
    BY <1>3, <2>1, <2>2
  <2> QED BY <1>5, <2>3 DEF Covers
<1> QED BY <1>6, <1>7 DEF BooksOK

-----------------------------------------------------------------------------
(* Steps that leave the books as they are.                                 *)

LEMMA StatusKeepsSent ==
  ASSUME IInv, NEW I, NEW s \in Statuses, money' = WithStatus(money, I, s)
  PROVE  /\ SameRows /\ \A i \in DOMAIN money : /\ money'[i].sent = money[i].sent
                                                /\ i \notin I => money'[i] = money[i]
                                                /\ i \in I => money'[i].status = s
<1>1. SameRows
  BY StatusSameRows
<1>2. money \in Seq(MoneyType)
  BY DEF IInv, TablesOK
<1>3. ASSUME NEW i \in DOMAIN money
      PROVE  /\ money'[i].sent = money[i].sent
             /\ i \notin I => money'[i] = money[i]
             /\ i \in I => money'[i].status = s
  <2>1. money[i] \in MoneyType
    BY <1>2
  <2>2. /\ i \notin I => money'[i] = money[i]
        /\ i \in I => money'[i] = [money[i] EXCEPT !.status = s]
    BY <1>2, WithStatusKeepsMoney
  <2> QED BY <2>1, <2>2 DEF MoneyType
<1> QED BY <1>1, <1>3

\* The place of a process that is not within a block.
LEMMA OutOfBlock ==
  ASSUME NEW n, \/ scanner[n].pc \in {"next", "money"}
                \/ scanner[n].pc \in Carrying /\ scanner[n].then # "payout"
  PROVE  ~MidBlock(n) /\ ~Deducted(n)
  BY DEF MidBlock, InSale, Deducted, Carrying

LEMMA LoopBooks ==
  ASSUME SInv, NoneAhead, NEW n \in Networks,
         Begin(n) \/ EmptyBlock(n) \/ EndOfBlock(n) \/ NoMoreMoney(n)
  PROVE  SameBooks
<1>1. UNCHANGED <<balanceKSM, ledger, chain, money>>
  BY DEF Begin, EmptyBlock, EndOfBlock, NoMoreMoney, outside, contractVars, tables
<1>2. SameRows /\ \A i \in DOMAIN money : money'[i].sent = money[i].sent
  BY <1>1 DEF SameRows
<1>3. \A m \in Networks \ {n} : scanner'[m] = scanner[m]
  <2>1. scanner \in Scanners
    BY Places DEF SInv
  <2> QED BY <2>1 DEF Begin, EmptyBlock, EndOfBlock, NoMoreMoney, Go, Scanners
<1>4. ToBook(n)' = ToBook(n) /\ ~Deducted(n) /\ ~Deducted(n)'
  <2>1. CASE Begin(n)
    <3>1. scanner[n].current \notin scanned[n]
      <4>1. scanner[n].current \in Nat
        BY Places DEF SInv, ScannerType
      <4> QED BY <4>1 DEF NoneAhead
    <3>2. scanner[n].pc = "next" /\ scanner'[n].pc = "scan"
      BY <2>1, <3>1, BeginPlace DEF Begin
    <3> QED BY <1>1, <2>1, <3>1, <3>2, BookStays DEF Deducted, Carrying
  <2>2. CASE EmptyBlock(n)
    <3>1. scanner[n].pc = "next" /\ SetPlace(n, "money", scanner[n].at)
      BY <2>2, GoPlace DEF EmptyBlock, SInv, Pcs
    <3>2. ~MidBlock(n) /\ ~Deducted(n)
      BY <3>1, OutOfBlock
    <3>3. ~MidBlock(n)' /\ ~Deducted(n)' /\ scanner'[n].current = scanner[n].current
      BY <3>1 DEF SetPlace, MidBlock, InSale, Deducted, Carrying
    <3> QED BY <1>1, <3>2, <3>3, BookStays
  <2>3. CASE EndOfBlock(n)
    <3>1. scanner[n].pc = "scan" /\ SetPlace(n, "money", scanner[n].at)
      BY <2>3, GoPlace DEF EndOfBlock, SInv, Pcs
    <3>2. ~Deducted(n) /\ ~Deducted(n)'
      BY <3>1 DEF SetPlace, Deducted, Carrying
    <3> QED BY <1>1, <2>3, <3>2, BookStays
  <2>4. CASE NoMoreMoney(n)
    <3>1. scanner[n].pc = "money" /\ scanner'[n] = Started(scanner[n].current)
      <4>1. scanner \in Scanners
        BY Places DEF SInv
      <4> QED BY <2>4, <4>1 DEF NoMoreMoney, Scanners
    <3>2. ~MidBlock(n) /\ ~Deducted(n)
      BY <3>1, OutOfBlock
    <3>3. ~MidBlock(n)' /\ ~Deducted(n)' /\ scanner'[n].current = scanner[n].current
      BY <3>1 DEF Started, MidBlock, InSale, Deducted, Carrying
    <3> QED BY <1>1, <3>2, <3>3, BookStays
  <2> QED BY <2>1, <2>2, <2>3, <2>4
<1>5. \A i \in DOMAIN chain[n] : Stage(n, i)' = Stage(n, i)
  BY <1>4, StagesStay
<1> QED BY <1>1, <1>2, <1>3, <1>5, IdleBooks

\* What the steps of carrying money write besides the rows of money_transfer.
LEMMA CarryPlaces ==
  ASSUME SInv, NoneFailed, NEW n \in Networks
  PROVE  /\ Pick(n) => /\ scanner[n].pc = "money" /\ SetPlace(n, "send", scanner[n].at)
                       /\ scanner'[n].then = "money" /\ scanner'[n].row = Min(Pending(n))
         /\ n = "unique" /\ Start =>
              /\ scanner[n].pc = "start" /\ SetPlace(n, "send", scanner[n].at)
              /\ scanner'[n].then = scanner[n].then /\ scanner'[n].row = scanner[n].row
         /\ Send(n) => /\ scanner[n].pc = "send" /\ SetPlace(n, "sent", scanner[n].at)
                       /\ scanner'[n].then = scanner[n].then /\ scanner'[n].row = scanner[n].row
         /\ Report(n) => /\ scanner[n].pc = "sent" /\ SetPlace(n, scanner[n].then, scanner[n].at)
                         /\ \E s \in {"completed", "failed"} :
                              money' = WithStatus(money, {scanner[n].row}, s)
<1>1. scanner \in Scanners /\ scanner[n] \in ScannerType /\ IInv
  BY Places DEF SInv
<1>2. ASSUME Pick(n)
      PROVE  /\ scanner[n].pc = "money" /\ SetPlace(n, "send", scanner[n].at)
             /\ scanner'[n].then = "money" /\ scanner'[n].row = Min(Pending(n))
  <2>1. Min(Pending(n)) \in Nat
    <3>1. money \in Seq(MoneyType)
      BY <1>1 DEF IInv, TablesOK
    <3>2. Pending(n) \in SUBSET Nat
      BY <3>1 DEF Pending
    <3>3. Pending(n) # {}
      BY <1>2 DEF Pick
    <3> QED BY <3>2, <3>3, MinIsMember
  <2> DEFINE r == Min(Pending(n))
  <2>2. scanner' = WithRow(scanner, n, "send", r, "money") /\ scanner[n].pc = "money" /\ r \in Nat
    BY <1>2, <2>1 DEF Pick, WithRow
  <2> HIDE DEF r
  <2>3. SetPlace(n, "send", scanner[n].at) /\ scanner'[n].then = "money" /\ scanner'[n].row = r
    BY <1>1, <2>2, WithRowPlace DEF Pcs, Thens
  <2> QED BY <2>2, <2>3 DEF r
<1>3. ASSUME NEW pc \in Pcs, Go(n, pc)
      PROVE  /\ SetPlace(n, pc, scanner[n].at) /\ scanner'[n].then = scanner[n].then
             /\ scanner'[n].row = scanner[n].row
  BY <1>1, <1>3, GoPlace, GoTo
<1>4. n = "unique" /\ Start => /\ scanner[n].pc = "start" /\ SetPlace(n, "send", scanner[n].at)
                               /\ scanner'[n].then = scanner[n].then
                               /\ scanner'[n].row = scanner[n].row
  BY <1>3 DEF Start, Pcs
<1>5. Send(n) => /\ scanner[n].pc = "send" /\ SetPlace(n, "sent", scanner[n].at)
                 /\ scanner'[n].then = scanner[n].then /\ scanner'[n].row = scanner[n].row
  BY <1>3 DEF Send, Pcs
<1>6. ASSUME Report(n)
      PROVE  /\ scanner[n].pc = "sent" /\ SetPlace(n, scanner[n].then, scanner[n].at)
             /\ \E s \in {"completed", "failed"} : money' = WithStatus(money, {scanner[n].row}, s)
  <2>1. scanner[n].pc = "sent" /\ scanner[n].then \in Pcs
    BY <1>1, <1>6 DEF Report, NoneFailed, ScannerType, Pcs
  <2>2. Go(n, scanner[n].then)
    BY <1>6 DEF Report, Close
  <2> QED BY <1>3, <1>6, <2>1, <2>2 DEF Report, Close
<1> QED BY <1>2, <1>4, <1>5, <1>6

LEMMA CarryBooks ==
  ASSUME SInv, NoneFailed, NEW n \in Networks, Pick(n) \/ (n = "unique" /\ Start) \/ Report(n)
  PROVE  SameBooks
<1>1. UNCHANGED <<balanceKSM, ledger, chain>>
  BY DEF Pick, Start, Report, outside, contractVars
<1>2. \E I : \E s \in Statuses : money' = WithStatus(money, I, s)
  <2>1. CASE Pick(n)
    BY <2>1 DEF Pick, Statuses
  <2>2. CASE Start
    BY <2>2 DEF Start, Statuses
  <2>3. CASE Report(n)
    <3>1. PICK s \in {"completed", "failed"} : money' = WithStatus(money, {scanner[n].row}, s)
      BY <2>3, CarryPlaces
    <3> QED BY <3>1 DEF Statuses
  <2> QED BY <2>1, <2>2, <2>3
<1>3. SameRows /\ \A i \in DOMAIN money : money'[i].sent = money[i].sent
  BY <1>2, StatusKeepsSent DEF SInv
<1>4. \A m \in Networks \ {n} : scanner'[m] = scanner[m]
  BY CarryPlaces DEF SetPlace
<1>5. \/ ~MidBlock(n) /\ ~MidBlock(n)' /\ ~Deducted(n) /\ ~Deducted(n)'
         /\ scanner'[n].current = scanner[n].current
      \/ /\ MidBlock(n) /\ MidBlock(n)' /\ Deducted(n) /\ Deducted(n)'
         /\ scanner'[n].at = scanner[n].at /\ (Taken(n)' <=> Taken(n))
  <2>1. CASE Pick(n)
    <3>1. /\ scanner[n].pc = "money" /\ SetPlace(n, "send", scanner[n].at)
          /\ scanner'[n].then = "money"
      BY <2>1, CarryPlaces
    <3> QED BY <3>1 DEF SetPlace, MidBlock, InSale, Deducted, Carrying
  <2>2. CASE n = "unique" /\ Start
    <3>1. /\ scanner[n].pc = "start" /\ SetPlace(n, "send", scanner[n].at)
          /\ scanner'[n].then = scanner[n].then
      BY <2>2, CarryPlaces
    <3> QED BY <3>1 DEF SetPlace, MidBlock, InSale, Deducted, Taken, Carrying
  <2>3. CASE Report(n)
    <3>1. /\ scanner[n].pc = "sent" /\ SetPlace(n, scanner[n].then, scanner[n].at)
          /\ scanner[n].then \in {"money", "payout"}
      BY <2>3, CarryPlaces, Places DEF SInv, ScannerType
    <3> QED BY <3>1 DEF SetPlace, MidBlock, InSale, Deducted, Taken, Carrying
  <2> QED BY <2>1, <2>2, <2>3
<1>6. ToBook(n)' = ToBook(n)
  BY <1>1, <1>5, BookStays
<1>7. \A i \in DOMAIN chain[n] : Stage(n, i)' = Stage(n, i)
  BY <1>5, <1>6, StagesStay
<1> QED BY <1>1, <1>3, <1>4, <1>7, IdleBooks

\* A sale finds the ask of its seller at its price, and no other.
LEMMA SaleHasAsk ==
  ASSUME MInv, Calm, At("unique", "buyKSM")
  PROVE  /\ OpenAsks(Call("unique").token) # {}
         /\ \A i \in OpenAsks(Call("unique").token) :
              asks[i].seller = Call("unique").seller /\ asks[i].price = Call("unique").amount
<1> DEFINE n == "unique"
           at == scanner[n].at
<1>1. /\ n \in Networks /\ SInv /\ AsksClean /\ "crash" \notin Allowed
      /\ \A v \in Tokens : Tells(v)
  BY CalmIsUndisturbed DEF MInv, Networks
<1>2. /\ scanner[n].pc = "scan" /\ at \in DOMAIN chain[n] /\ Call(n).method = "buyKSM"
  BY <1>1, AtCall
<1>3. PICK t \in Tokens : t = Call(n).token
  BY <1>2, CallOfToken
<1>4. at \in CallsOf(t) /\ Bought(at)
  BY <1>2, <1>3, CallOfToken DEF Bought, Call
<1>5. OpenFor(at)
  BY <1>1, <1>2, <1>4, SaleIsNext DEF Tells
<1>6. PICK j \in OpenAsks(t) : asks[j].seller = Call(n).seller /\ asks[j].price = Call(n).amount
  BY <1>3, <1>5 DEF OpenFor, Matches, Call
<1>7. \A i \in OpenAsks(t) : i = j
  BY <1>1, <1>6 DEF AsksClean, IndexHolds, OpenAsks
<1> QED BY <1>3, <1>6, <1>7

\* The calls that move no money, and a sale until its seller is debited.
LEMMA ExtractBooks ==
  ASSUME MInv, Calm,
         \/ ProcessAddAsk \/ RegisterAsk \/ ProcessCancelAsk
         \/ ProcessBuyKSM \/ MarkBought
  PROVE  SameBooks
<1> DEFINE n == "unique"
           at == scanner[n].at
<1>1. n \in Networks /\ SInv /\ IInv
  BY DEF MInv, SInv, Networks
<1>2. UNCHANGED <<balanceKSM, ledger, chain, money>>
  BY DEF ProcessAddAsk, RegisterAsk, ProcessCancelAsk, ProcessBuyKSM, MarkBought,
         outside, contractVars, tables
<1>3. ASSUME NextCall(n, "scan"), MidBlock(n), at \in DOMAIN chain[n],
             Call(n).method \in {"addAsk", "cancelAsk"}
      PROVE  SameBooks
  <2>1. SetPlace(n, "scan", at + 1)
    BY <1>1, <1>3, NextPlace DEF Pcs
  <2> QED BY <1>1, <1>2, <1>3, <2>1, WorthlessBooks
<1>4. ASSUME MidBlock(n), ~Deducted(n), NEW pc \in {"register", "bought", "deduct"},
             SetPlace(n, pc, at)
      PROVE  SameBooks
  <2>1. MidBlock(n)' /\ ~Deducted(n)' /\ scanner'[n].at = scanner[n].at
    BY <1>4 DEF SetPlace, MidBlock, InSale, Deducted, Carrying
  <2>2. ToBook(n)' = ToBook(n)
    BY <1>1, <1>2, <1>4, <2>1, BookStays
  <2>3. \A i \in DOMAIN chain[n] : Stage(n, i)' = Stage(n, i)
    BY <1>4, <2>1, <2>2, StagesStay
  <2>4. \A m \in Networks \ {n} : scanner'[m] = scanner[m]
    BY <1>4 DEF SetPlace
  <2>5. SameRows /\ \A i \in DOMAIN money : money'[i].sent = money[i].sent
    BY <1>2 DEF SameRows
  <2> QED BY <1>1, <1>2, <2>3, <2>4, <2>5, IdleBooks
<1>5. ASSUME NEW method, At(n, method)
      PROVE  /\ scanner[n].pc = "scan" /\ MidBlock(n) /\ ~Deducted(n) /\ at \in DOMAIN chain[n]
             /\ Call(n).method = method
  <2>1. /\ scanner[n].pc = "scan" /\ MidBlock(n) /\ at \in DOMAIN chain[n]
        /\ Call(n).method = method
    BY <1>1, <1>5, AtCall
  <2> QED BY <2>1 DEF Deducted, Carrying
<1>6. CASE ProcessAddAsk
  <2>1. At(n, "addAsk") /\ (NextCall(n, "scan") \/ Go(n, "register"))
    BY <1>6 DEF ProcessAddAsk
  <2>2. Go(n, "register") => SetPlace(n, "register", at)
    BY <1>1, GoPlace DEF Pcs
  <2> QED BY <1>3, <1>4, <1>5, <2>1, <2>2
<1>7. CASE RegisterAsk
  <2>1. scanner[n].pc = "register" /\ MidBlock(n)
    BY <1>7 DEF RegisterAsk, MidBlock
  <2>2. at \in DOMAIN chain[n] /\ Call(n).method = "addAsk"
    BY <1>1, <2>1, Places DEF PlaceOK
  <2>3. NextCall(n, "scan")
    <3>1. OpenAsks(Call(n).token) = {} /\ AsksClean
      BY <2>1 DEF MInv, MemoryOK
    <3>2. IndexHolds(Append(asks, [token |-> Call(n).token, status |-> "active",
                                   seller |-> Call(n).who, price |-> Call(n).amount]))
      BY <1>1, <3>1, IndexStays
    <3> QED BY <1>7, <3>2 DEF RegisterAsk
  <2> QED BY <1>3, <2>1, <2>2, <2>3
<1>8. CASE ProcessCancelAsk
  <2>1. At(n, "cancelAsk") /\ NextCall(n, "scan")
    BY <1>8 DEF ProcessCancelAsk
  <2> QED BY <1>3, <1>5, <2>1
<1>10. CASE ProcessBuyKSM
  <2>1. At(n, "buyKSM")
    BY <1>10 DEF ProcessBuyKSM
  <2>2. PICK i \in OpenAsks(Call(n).token) : scanner' = WithAsk(scanner, n, "bought", i)
    BY <1>10, <2>1, SaleHasAsk DEF ProcessBuyKSM, WithAsk
  <2>3. i \in Nat
    BY <1>1, <2>2, Places DEF OpenAsks, TablesOK
  <2>4. SetPlace(n, "bought", at)
    BY <1>1, <2>2, <2>3, WithAskPlace DEF Pcs
  <2> QED BY <1>4, <1>5, <2>1, <2>4
<1>11. CASE MarkBought
  <2>1. scanner[n].pc = "bought" /\ Go(n, "deduct")
    BY <1>11 DEF MarkBought
  <2>2. MidBlock(n) /\ ~Deducted(n)
    BY <2>1 DEF MidBlock, InSale, Deducted, Carrying
  <2>3. SetPlace(n, "deduct", at)
    BY <1>1, <2>1, GoPlace DEF Pcs
  <2> QED BY <1>4, <2>2, <2>3
<1> QED BY <1>6, <1>7, <1>8, <1>10, <1>11

-----------------------------------------------------------------------------
(* Steps that register a row.                                              *)

\* The ask of the sale in hand tells the seller and the price of the call.
LEMMA AskInHand ==
  ASSUME SInv, SaleKnown, scanner["unique"].pc \in {"deduct", "payout"}
  PROVE  LET a == asks[scanner["unique"].ask]
             c == Call("unique")
         IN /\ a.seller = c.seller /\ a.price = c.amount /\ a.seller \in Users /\ a.price \in Nat
            /\ MidBlock("unique") /\ scanner["unique"].at \in DOMAIN chain["unique"]
            /\ c.method = "buyKSM" /\ c = chain["unique"][scanner["unique"].at]
<1>1. "unique" \in Networks /\ InSale("unique")
  BY DEF Networks, InSale
<1>2. scanner["unique"].ask \in DOMAIN asks /\ asks \in Seq(AskType)
  BY <1>1, Places DEF SInv, PlaceOK, IInv, TablesOK
<1>3. asks[scanner["unique"].ask] \in AskType
  BY <1>2
<1> QED BY <1>1, <1>3, OnlyUniqueDeducts DEF SaleKnown, AskType

\* The commission is not negative.
LEMMA PriceIsLess ==
  ASSUME NEW p \in Nat
  PROVE  PriceWithoutCommission(p) <= p
<1>1. Commission \in 0 .. 100
  BY EscrowAssumption
<1>2. ASSUME NEW c \in 0 .. 100 PROVE (p * 100) \div (100 + c) <= p
  OBVIOUS
<1> QED BY <1>1, <1>2 DEF PriceWithoutCommission

LEMMA NewRowIs ==
  ASSUME NEW type \in {"deposit", "withdraw"}, NEW who \in Users, NEW a \in Int
  PROVE  LET row == NewRow(type, who, a) IN
         /\ row \in MoneyType
         /\ \A u : RowValue("brings", row, u) = IF who = u THEN a ELSE 0
         /\ \A u : RowValue("needs", row, u) = a
  BY DEF NewRow, MoneyType, RowValue

LEMMA PayoutBooks ==
  ASSUME SInv, SaleKnown, BooksOK, Payout
  PROVE  BooksOK'
<1> DEFINE n == "unique"
           c == Call(n)
           p == PriceWithoutCommission(c.amount)
           row == NewRow("withdraw", c.seller, p)
<1>1. n \in Networks /\ IInv /\ scanner[n].pc = "payout"
  BY DEF SInv, Networks, Payout
<1>2. /\ c.seller \in Users /\ c.amount \in Nat /\ c.method = "buyKSM"
      /\ MidBlock(n) /\ scanner[n].at \in DOMAIN chain[n]
      /\ money' = Append(money, row)
  BY <1>1, AskInHand DEF Payout
<1>3. p \in Nat
  BY <1>2, PriceType
<1>4. UNCHANGED <<balanceKSM, ledger, chain>> /\ NextCall(n, "scan")
  BY DEF Payout, outside, contractVars
<1>5. SetPlace(n, "scan", scanner[n].at + 1)
  BY <1>1, <1>4, NextPlace DEF Pcs
<1>6. PICK i \in DOMAIN chain[n] : i = scanner[n].at
  BY <1>2
<1>7. chain'[n] = chain[n] /\ Taken(n)
  BY <1>1, <1>4 DEF Taken
<1>8. /\ Stage(n, i) = "taken" /\ Stage(n, i)' = "done"
      /\ \A j \in DOMAIN chain[n] \ {i} : Stage(n, j)' = Stage(n, j)
  BY <1>1, <1>2, <1>5, <1>6, <1>7, StageIsDone
<1>9. c = chain[n][i] /\ \A m \in Networks \ {n} : scanner'[m] = scanner[m]
  BY <1>5, <1>6 DEF SetPlace, Call
<1>10. /\ row \in MoneyType
       /\ \A u : RowValue("brings", row, u) = IF c.seller = u THEN p ELSE 0
       /\ \A u : RowValue("needs", row, u) = p
  BY <1>2, <1>3, NewRowIs
<1>11. ASSUME NEW u
       PROVE  /\ Value("brings", c, "done", u) = 0 /\ Value("owes", c, "done", u) = 0
              /\ Value("needs", c, "done", u) = 0
              /\ Value("brings", c, "taken", u) = IF c.seller = u THEN p - 0 ELSE 0
              /\ Value("owes", c, "taken", u) = 0 /\ Value("needs", c, "taken", u) = p
  <2> HIDE DEF c
  <2> QED BY <1>2 DEF Value, Brings, Owes, Needs
<1> HIDE DEF p, row, c
<1>12. \A u \in Users :
         /\ RowValue("brings", row, u) = Value("brings", c, "taken", u) - Value("brings", c, "done", u)
         /\ Value("owes", c, "done", u) = Value("owes", c, "taken", u)
  BY <1>3, <1>10, <1>11
<1>13. RowValue("needs", row, Nobody) <= Value("needs", c, "taken", Nobody) - Value("needs", c, "done", Nobody)
  BY <1>3, <1>10, <1>11
<1> QED BY <1>1, <1>2, <1>4, <1>8, <1>9, <1>10, <1>12, <1>13, RegisterKeepsBooks

LEMMA DeductBooks ==
  ASSUME SInv, SaleKnown, BooksOK, Deduct
  PROVE  BooksOK'
<1> DEFINE n == "unique"
           c == Call(n)
           p == PriceWithoutCommission(c.amount)
           row == NewRow("deposit", c.seller, -c.amount)
           new == Len(money) + 1
<1>1. n \in Networks /\ IInv /\ scanner[n].pc = "deduct"
  BY DEF SInv, Networks, Deduct
<1>2. /\ c.seller \in Users /\ c.amount \in Nat /\ c.method = "buyKSM"
      /\ MidBlock(n) /\ scanner[n].at \in DOMAIN chain[n]
      /\ money' = Append(money, row)
  BY <1>1, AskInHand DEF Deduct
<1>3. p \in Nat /\ -c.amount \in Int
  <2>1. -c.amount \in Int
    BY <1>2
  <2> QED BY <1>2, <2>1, PriceType
<1>4. UNCHANGED <<balanceKSM, ledger, chain>> /\ scanner' = WithRow(scanner, n, "start", new, "payout")
  BY DEF Deduct, outside, contractVars, WithRow
<1>5. SetPlace(n, "start", scanner[n].at) /\ scanner'[n].then = "payout"
  <2>1. new \in Nat
    BY <1>1 DEF IInv, TablesOK
  <2> HIDE DEF new
  <2> QED BY <1>1, <1>4, <2>1, WithRowPlace DEF Pcs, Thens
<1>6. PICK i \in DOMAIN chain[n] : i = scanner[n].at
  BY <1>2
<1>7. /\ chain'[n] = chain[n] /\ ~Deducted(n) /\ Deducted(n)' /\ ~Taken(n)'
      /\ MidBlock(n)' /\ scanner'[n].at = scanner[n].at
  BY <1>1, <1>4, <1>5 DEF Taken, Deducted, Carrying, SetPlace, MidBlock, InSale
<1>8. ToBook(n)' = ToBook(n) /\ i \in ToBook(n)
  <2>1. InSale(n)
    BY <1>1 DEF InSale
  <2> QED BY <1>1, <1>2, <1>6, <1>7, <2>1, BookStays, OnlyUniqueDeducts
<1>9. /\ Stage(n, i) = "left" /\ Stage(n, i)' = "deducted"
      /\ \A j \in DOMAIN chain[n] \ {i} : Stage(n, j)' = Stage(n, j)
  <2>1. \A j : j # scanner[n].at => Stage(n, j)' = Stage(n, j)
    BY <1>7, <1>8, StagesOfOthersStay
  <2>2. Stage(n, i) = "left"
    BY <1>7, <1>8 DEF Stage
  <2>3. Stage(n, i)' = "deducted"
    BY <1>6, <1>7, <1>8 DEF Stage
  <2> QED BY <1>6, <2>1, <2>2, <2>3
<1>10. c = chain[n][i] /\ \A m \in Networks \ {n} : scanner'[m] = scanner[m]
  BY <1>5, <1>6 DEF SetPlace, Call
<1>11. /\ row \in MoneyType
       /\ \A u : RowValue("brings", row, u) = IF c.seller = u THEN -c.amount ELSE 0
       /\ \A u : RowValue("needs", row, u) = -c.amount
  BY <1>2, <1>3, NewRowIs
<1>12. ASSUME NEW u
       PROVE  /\ Value("brings", c, "left", u) = IF c.seller = u THEN p - c.amount ELSE 0
              /\ Value("brings", c, "deducted", u) = IF c.seller = u THEN p - 0 ELSE 0
              /\ Value("owes", c, "deducted", u) = Value("owes", c, "left", u)
              /\ Value("needs", c, "left", u) = 0 /\ Value("needs", c, "deducted", u) = p
  <2> HIDE DEF c
  <2> QED BY <1>2 DEF Value, Brings, Owes, Needs
<1>13. p <= c.amount
  BY <1>2, PriceIsLess
<1> HIDE DEF p, row, c
<1>14. \A u \in Users :
         /\ RowValue("brings", row, u) = Value("brings", c, "left", u) - Value("brings", c, "deducted", u)
         /\ Value("owes", c, "deducted", u) = Value("owes", c, "left", u)
  BY <1>2, <1>3, <1>11, <1>12
<1>15. RowValue("needs", row, Nobody) <= Value("needs", c, "left", Nobody) - Value("needs", c, "deducted", Nobody)
  BY <1>2, <1>3, <1>11, <1>12, <1>13
<1> QED BY <1>1, <1>2, <1>4, <1>9, <1>10, <1>11, <1>14, <1>15, RegisterKeepsBooks

\* The calls that are paid out or paid in as a whole.
LEMMA TransferBooks ==
  ASSUME SInv, BooksOK, ProcessWithdrawAllKSM \/ ProcessTransfer
  PROVE  BooksOK'
<1>1. PICK n \in Networks, type \in {"deposit", "withdraw"} :
        /\ At(n, "withdrawAllKSM") \/ At(n, "transfer")
        /\ money' = Append(money, NewRow(type, Call(n).who, Call(n).amount))
        /\ NextCall(n, "scan")
  BY DEF ProcessWithdrawAllKSM, ProcessTransfer, Networks
<1> DEFINE c == Call(n)
           row == NewRow(type, c.who, c.amount)
<1>2. /\ IInv /\ MidBlock(n) /\ scanner[n].pc = "scan" /\ scanner[n].at \in DOMAIN chain[n]
      /\ c \in CallType /\ c.method \in {"withdrawAllKSM", "transfer"}
  BY <1>1, AtCall DEF SInv
<1>3. c.who \in Users /\ c.amount \in Nat
  BY <1>2 DEF CallType
<1>4. UNCHANGED <<balanceKSM, ledger, chain>>
  BY DEF ProcessWithdrawAllKSM, ProcessTransfer, outside, contractVars
<1>5. SetPlace(n, "scan", scanner[n].at + 1)
  BY <1>1, <1>2, NextPlace DEF Pcs
<1>6. PICK i \in DOMAIN chain[n] : i = scanner[n].at
  BY <1>2
<1>7. chain'[n] = chain[n] /\ ~Taken(n) /\ ~Deducted(n)
  BY <1>2, <1>4 DEF Taken, Deducted, Carrying
<1>8. /\ Stage(n, i) = "left" /\ Stage(n, i)' = "done"
      /\ \A j \in DOMAIN chain[n] \ {i} : Stage(n, j)' = Stage(n, j)
  BY <1>2, <1>5, <1>6, <1>7, StageIsDone
<1>9. c = chain[n][i] /\ \A m \in Networks \ {n} : scanner'[m] = scanner[m]
  BY <1>5, <1>6 DEF SetPlace, Call
<1>10. /\ row \in MoneyType
       /\ \A u : RowValue("brings", row, u) = IF c.who = u THEN c.amount ELSE 0
       /\ \A u : RowValue("needs", row, u) = c.amount
  BY <1>3, NewRowIs
<1>11. ASSUME NEW u
       PROVE  /\ Value("brings", c, "done", u) = 0 /\ Value("owes", c, "done", u) = 0
              /\ Value("needs", c, "done", u) = 0
              /\ Value("brings", c, "left", u) = IF c.who = u THEN c.amount ELSE 0
              /\ Value("owes", c, "left", u) = 0 /\ Value("needs", c, "left", u) = c.amount
  <2> HIDE DEF c
  <2> QED BY <1>2 DEF Value, Brings, Owes, Needs
<1>12. money' = Append(money, row)
  BY <1>1
<1> HIDE DEF row, c
<1>13. \A u \in Users :
         /\ RowValue("brings", row, u) = Value("brings", c, "left", u) - Value("brings", c, "done", u)
         /\ Value("owes", c, "done", u) = Value("owes", c, "left", u)
  BY <1>3, <1>10, <1>11
<1>14. RowValue("needs", row, Nobody) <= Value("needs", c, "left", Nobody) - Value("needs", c, "done", Nobody)
  BY <1>3, <1>10, <1>11
<1> QED BY <1>2, <1>4, <1>8, <1>9, <1>10, <1>12, <1>13, <1>14, RegisterKeepsBooks

-----------------------------------------------------------------------------
(* Steps that move KSM.                                                    *)

\* The row in hand, if its KSM is to be taken from a seller, is covered by the
\* balance of that seller.
LEMMA DebitOfSale ==
  ASSUME SInv, HandsOK, NEW i \in DOMAIN money, money[i].sent = 0, money[i].amount < 0
  PROVE  /\ i = scanner["unique"].row
         /\ scanner["unique"].pc \in {"start", "send"} /\ scanner["unique"].then = "payout"
         /\ \E j \in DOMAIN chain["unique"] :
              LET c == chain["unique"][j] IN
              /\ c \in CallType /\ c.method = "buyKSM" /\ Stage("unique", j) = "deducted"
              /\ money[i].who = c.seller /\ money[i].amount = -c.amount
<1> DEFINE n == "unique"
           c == Call(n)
<1>1. /\ i = scanner[n].row /\ n \in Networks
      /\ scanner[n].pc \in {"start", "send"} /\ scanner[n].then = "payout"
  BY DEF HandsOK, NegativeRows, Networks
<1>2. InSale(n) /\ Deducted(n) /\ ~Taken(n)
  BY <1>1 DEF InSale, Deducted, Taken, Carrying
<1>3. money[i].who = c.seller /\ money[i].amount = -c.amount
  BY <1>1 DEF HandsOK, RowKnown, Carrying
<1>4. PICK j \in DOMAIN chain[n] : j = scanner[n].at
  BY <1>1, <1>2, OnlyUniqueDeducts
<1>5. c = chain[n][j] /\ c.method = "buyKSM" /\ Stage(n, j) = "deducted"
  BY <1>1, <1>2, <1>4, OnlyUniqueDeducts DEF Stage
<1>6. c \in CallType
  BY <1>1, <1>5, CallsAre DEF SInv
<1> HIDE DEF c
<1> QED BY <1>1, <1>3, <1>5, <1>6

LEMMA DebitIsCovered ==
  ASSUME SInv, HandsOK, BooksOK, NEW i \in DOMAIN money, money[i].sent = 0, money[i].amount < 0
  PROVE  /\ i = scanner["unique"].row
         /\ scanner["unique"].pc \in {"start", "send"} /\ scanner["unique"].then = "payout"
         /\ money[i].who \in Users /\ balanceKSM[money[i].who] + money[i].amount >= 0
<1> DEFINE n == "unique"
<1>1. /\ i = scanner[n].row /\ n \in Networks
      /\ scanner[n].pc \in {"start", "send"} /\ scanner[n].then = "payout"
  BY DebitOfSale DEF Networks
<1>2. PICK j \in DOMAIN chain[n] :
        LET c == chain[n][j] IN
        /\ c \in CallType /\ c.method = "buyKSM" /\ Stage(n, j) = "deducted"
        /\ money[i].who = c.seller /\ money[i].amount = -c.amount
  BY DebitOfSale
<1> DEFINE c == chain[n][j]
<1>3. c \in CallType /\ money[i].who = c.seller /\ money[i].amount = -c.amount
  BY <1>2
<1>5. c = chain[n][j] /\ c.method = "buyKSM" /\ Stage(n, j) = "deducted"
  BY <1>2
<1>6. money[i] \in MoneyType
  BY RowsAre DEF SInv
<1> HIDE DEF c
<1>7. c.amount \in Nat /\ money[i].who \in Users
  BY <1>3, <1>6 DEF CallType, MoneyType
<1>8. Values("owes", n, c.seller)[j] = c.amount
  BY <1>5 DEF Values, Value, Owes
<1>9. Calls("owes", n, c.seller) >= c.amount /\ Calls("owes", n, c.seller) \in Nat
  <2> DEFINE w == Values("owes", n, c.seller)
  <2>1. IsFiniteSet(DOMAIN chain[n]) /\ \A x \in DOMAIN chain[n] : w[x] \in Nat
    BY <1>1, CallsAre DEF SInv
  <2>2. Calls("owes", n, c.seller) = Sum(DOMAIN chain[n], w)
    BY DEF Calls
  <2>3. w[j] = c.amount
    BY <1>8
  <2> HIDE DEF w
  <2> QED BY <2>1, <2>2, <2>3, SumOfNats
<1>10. balanceKSM[money[i].who] >= c.amount /\ balanceKSM[money[i].who] \in Nat
  <2>1. balanceKSM[money[i].who] >= Calls("owes", n, money[i].who)
    BY <1>7 DEF BooksOK, Backed
  <2>2. balanceKSM[money[i].who] \in Nat
    BY <1>7, BooksAreInts DEF SInv
  <2> QED BY <1>3, <1>7, <1>9, <2>1, <2>2
<1>11. balanceKSM[money[i].who] + money[i].amount >= 0
  BY <1>3, <1>7, <1>10
<1> QED BY <1>1, <1>7, <1>11

\* Every transfer that is registered can be carried out.
LEMMA RowsAreCovered ==
  ASSUME SInv, HandsOK, BooksOK, NEW i \in DOMAIN money, money[i].sent = 0, money[i].amount >= 0
  PROVE  market >= money[i].amount
<1> DEFINE D == DOMAIN money
           w == RowValues("needs", Nobody)
           T == Sum(Users, balanceKSM)
<1>1. /\ IsFiniteSet(D) /\ \A x \in D : w[x] \in Int
      /\ money[i] \in MoneyType
  BY RowsAre DEF SInv
<1>2. \A x \in D : w[x] = IF money[x].sent = 0 THEN money[x].amount ELSE 0
  BY DEF RowValues, RowValue
<1>3. Rows("needs", Nobody) = Sum(D, w) /\ Sum(D, w) \in Int
  BY <1>1, SumRest DEF Rows
<1>4. market >= T + Sum(D, w) /\ market \in Int /\ T \in Nat
  <2>1. /\ Calls("needs", "unique", Nobody) \in Nat /\ Calls("needs", "kusama", Nobody) \in Nat
        /\ market \in Int /\ T \in Nat
    BY BooksAreInts DEF SInv, Networks
  <2>2. market >= T + Claims("needs", Nobody)
    BY DEF BooksOK, Covers
  <2> HIDE DEF w, T, D
  <2> QED BY <1>3, <2>1, <2>2 DEF Claims
<1>5. w[i] = money[i].amount /\ money[i].amount \in Int
  BY <1>1, <1>2 DEF MoneyType
<1>6. CASE \A x \in D : w[x] \in Nat
  <2>1. Sum(D, w) >= w[i]
    BY <1>1, <1>6, SumOfNats
  <2> HIDE DEF w, T, D
  <2> QED BY <1>3, <1>4, <1>5, <2>1
<1>7. CASE \E x \in D : w[x] \notin Nat
  <2>1. PICK r \in D : w[r] \notin Nat
    BY <1>7
  <2>2. money[r].sent = 0 /\ w[r] = money[r].amount /\ money[r].amount < 0
    BY <1>1, <1>2, <2>1
  <2>3. /\ r = scanner["unique"].row /\ money[r].who \in Users
        /\ balanceKSM[money[r].who] + w[r] >= 0
    BY <2>2, DebitIsCovered
  <2>4. T + w[r] >= 0
    <3>1. /\ balanceKSM[money[r].who] \in Nat /\ T \in Nat
          /\ T >= balanceKSM[money[r].who] /\ w[r] \in Int
      BY <1>1, <2>3, BooksAreInts DEF SInv
    <3> HIDE DEF w, T
    <3> QED BY <2>3, <3>1
  <2> DEFINE v == [x \in D |-> IF x = r THEN 0 ELSE w[x]]
  <2>5. \A x \in D \ {r} : w[x] \in Nat
    <3>1. ASSUME NEW x \in D, w[x] \notin Nat PROVE x = r
      <4>1. money[x].sent = 0 /\ money[x].amount < 0
        BY <1>1, <1>2, <3>1
      <4> QED BY <2>3, <4>1, DebitIsCovered
    <3> QED BY <3>1
  <2>6. i # r
    BY <1>5, <2>2
  <2>7. v[r] = 0 /\ v[i] = w[i] /\ (\A x \in D \ {r} : v[x] = w[x]) /\ \A x \in D : v[x] \in Nat
    BY <2>5, <2>6
  <2> HIDE DEF v, w, D, T
  <2>8. Sum(D, v) = Sum(D, w) + (0 - w[r])
    BY <1>1, <2>7, SumMoves
  <2>9. Sum(D, v) >= v[i] /\ Sum(D, v) \in Nat
    <3>1. i \in D
      BY DEF D
    <3> QED BY <1>1, <2>7, <3>1, SumOfNats
  <2>10. w[r] \in Int
    BY <1>1
  <2> QED BY <1>3, <1>4, <1>5, <2>4, <2>7, <2>8, <2>9, <2>10
<1> QED BY <1>6, <1>7

LEMMA RowIsCovered ==
  ASSUME SInv, HandsOK, BooksOK, NEW n \in Networks, scanner[n].pc = "send"
  PROVE  CanSend(n)
<1> DEFINE i == scanner[n].row
<1>1. i \in DOMAIN money /\ money[i].sent = 0 /\ money[i].amount \in Int /\ money[i].who \in Users
      /\ RowOK(money[i]) /\ money[i].type = Duty(n)
  <2>1. i \in DOMAIN money /\ money[i] \in MoneyType /\ money[i].sent = 0
        /\ RowOK(money[i]) /\ money[i].type = Duty(n)
    BY CarriedRow DEF SInv
  <2> QED BY <2>1 DEF MoneyType
<1>2. CASE n = "kusama"
  <2>1. money[i].amount >= 0
    BY <1>1, <1>2 DEF RowOK, Duty
  <2>2. market >= money[i].amount
    BY <1>1, <2>1, RowsAreCovered
  <2> QED BY <1>2, <2>2 DEF CanSend
<1>3. CASE n = "unique"
  <2>1. balanceKSM[money[i].who] \in Nat
    BY <1>1, BooksAreInts DEF SInv
  <2>2. balanceKSM[money[i].who] + money[i].amount >= 0
    <3>1. CASE money[i].amount < 0
      BY <1>1, <3>1, DebitIsCovered
    <3>2. CASE money[i].amount >= 0
      BY <1>1, <2>1, <3>2
    <3> QED BY <1>1, <3>1, <3>2
  <2> QED BY <1>3, <2>2 DEF CanSend
<1> QED BY <1>2, <1>3 DEF Networks

\* So no transfer fails.
LEMMA SendsAll ==
  ASSUME SInv, HandsOK, BooksOK, Calm, NEW n \in Networks
  PROVE  ~SendFails(n)
  BY CalmIsUndisturbed, RowIsCovered DEF SendFails

\* What a transfer that takes effect does to the claims.
LEMMA SendClaims ==
  ASSUME SInv, HandsOK, NEW n \in Networks, Send(n),
         NEW i \in DOMAIN money, i = scanner[n].row
  PROVE  LET r == money[i] IN
         /\ r \in MoneyType /\ r.sent = 0
         /\ \A u : \A k \in {"brings", "needs"} : Claims(k, u)' = Claims(k, u) - RowValue(k, r, u)
         /\ \A u : Calls("owes", "unique", u)' = Calls("owes", "unique", u)
                     + (IF n = "unique" /\ r.who = u /\ r.amount < 0 THEN r.amount ELSE 0)
<1> DEFINE r == money[i]
           at == scanner[n].at
<1>1. /\ scanner[n].pc = "send" /\ SetPlace(n, "sent", at)
      /\ scanner'[n].then = scanner[n].then
  BY CarryPlaces DEF HandsOK
<1>2. r \in MoneyType /\ r.sent = 0
  BY <1>1, CarriedRow, RowsAre DEF SInv
<1>3. UNCHANGED chain /\ money' = [money EXCEPT ![i].sent = @ + 1] /\ IInv
      /\ \A m \in Networks \ {n} : scanner'[m] = scanner[m]
  BY <1>1 DEF Send, SInv, SetPlace
<1>4. ASSUME NEW k, NEW u PROVE Rows(k, u)' = Rows(k, u) - RowValue(k, r, u)
  BY <1>2, <1>3, RowIsSent
<1>5. ASSUME NEW k, NEW u PROVE Rows(k, u) \in Int /\ -RowValue(k, r, u) \in Int
                                /\ Rows(k, u)' = Rows(k, u) + (-RowValue(k, r, u))
  <2>1. RowValue(k, r, u) \in Int
    BY <1>2 DEF RowValue, MoneyType
  <2> QED BY <1>3, <1>4, <2>1, RowsAre
<1>6. CASE scanner[n].then = "payout"
  <2> DEFINE c == Call(n)
  <2>1. InSale(n) /\ Deducted(n) /\ ~Taken(n) /\ Deducted(n)' /\ Taken(n)' /\ MidBlock(n)'
        /\ scanner'[n].at = at
    BY <1>1, <1>6 DEF InSale, Deducted, Taken, Carrying, MidBlock, SetPlace
  <2>2. n = "unique" /\ MidBlock(n) /\ at \in DOMAIN chain[n] /\ c.method = "buyKSM"
        /\ c = chain[n][at] /\ at \in ToBook(n)
    BY <2>1, OnlyUniqueDeducts
  <2>3. r.who = c.seller /\ r.amount = -c.amount
    BY <1>1, <1>6, <2>2 DEF HandsOK, RowKnown, Carrying
  <2>4. PICK j \in DOMAIN chain[n] : j = at
    BY <2>2
  <2>5. ToBook(n)' = ToBook(n)
    <3>1. chain'[n] = chain[n]
      BY <1>3
    <3> QED BY <2>1, <2>2, <3>1, BookStays
  <2>6. \A x \in DOMAIN chain[n] \ {j} : Stage(n, x)' = Stage(n, x)
    BY <2>1, <2>4, <2>5, StagesOfOthersStay
  <2>7. Stage(n, j) = "deducted"
    BY <2>1, <2>2, <2>4 DEF Stage
  <2>8. Stage(n, j)' = "taken"
    BY <2>1, <2>2, <2>4, <2>5 DEF Stage
  <2>9. c \in CallType /\ c = chain[n][j]
    BY <1>3, <2>2, <2>4, CallsAre
  <2> HIDE DEF c, r
  <2>10. ASSUME NEW k, NEW u
         PROVE  LET d == Value(k, c, "taken", u) - Value(k, c, "deducted", u) IN
                /\ Claims(k, u)' = Claims(k, u) + (-RowValue(k, r, u)) + d
                /\ Calls(k, n, u)' = Calls(k, n, u) + d
    BY <1>3, <1>5, <2>6, <2>7, <2>8, <2>9, ClaimsMove
  <2>11. ASSUME NEW k \in {"brings", "needs"}, NEW u
         PROVE  Value(k, c, "taken", u) = Value(k, c, "deducted", u) /\ Value(k, c, "taken", u) \in Int
                /\ Claims(k, u) \in Int /\ RowValue(k, r, u) \in Int
    <3>1. Value(k, c, "taken", u) = Value(k, c, "deducted", u)
      BY <2>2 DEF Value, Brings, Needs
    <3>2. RowValue(k, r, u) \in Int
      BY <1>2 DEF RowValue, MoneyType
    <3> QED BY <1>3, <2>9, <3>1, <3>2, ValueType, BooksAreInts
  <2>12. ASSUME NEW k \in {"brings", "needs"}, NEW u
         PROVE  Claims(k, u)' = Claims(k, u) - RowValue(k, r, u)
    BY <2>10, <2>11
  <2>13. ASSUME NEW u
         PROVE  Calls("owes", "unique", u)' = Calls("owes", "unique", u)
                     + (IF n = "unique" /\ r.who = u /\ r.amount < 0 THEN r.amount ELSE 0)
    <3>1. /\ Value("owes", c, "taken", u) = 0
          /\ Value("owes", c, "deducted", u) = IF c.seller = u THEN c.amount ELSE 0
      BY <2>2 DEF Value, Owes
    <3>2. Calls("owes", "unique", u)' = Calls("owes", "unique", u)
            + (Value("owes", c, "taken", u) - Value("owes", c, "deducted", u))
      BY <2>2, <2>10
    <3>3. c.amount \in Nat
      BY <2>9 DEF CallType
    <3> QED BY <2>2, <2>3, <3>1, <3>2, <3>3
  <2> QED BY <1>2, <2>12, <2>13 DEF r
<1>7. CASE scanner[n].then # "payout"
  <2>1. ~MidBlock(n) /\ ~Deducted(n) /\ ~MidBlock(n)' /\ ~Deducted(n)'
        /\ scanner'[n].current = scanner[n].current
    BY <1>1, <1>7 DEF InSale, Deducted, Carrying, MidBlock, SetPlace
  <2>2. chain'[n] = chain[n]
    BY <1>3
  <2>3. ToBook(n)' = ToBook(n)
    BY <2>1, <2>2, BookStays
  <2>4. \A j \in DOMAIN chain[n] : Stage(n, j)' = Stage(n, j)
    BY <2>1, <2>3, StagesStay
  <2>5. ASSUME NEW k, NEW u, NEW m \in Networks PROVE Calls(k, m, u)' = Calls(k, m, u)
    <3>1. \A j \in DOMAIN chain[m] : Stage(m, j)' = Stage(m, j)
      <4>1. CASE m = n
        BY <2>4, <4>1
      <4>2. CASE m # n
        <5>1. scanner'[m] = scanner[m] /\ chain'[m] = chain[m]
          BY <1>3, <4>2
        <5> QED BY <5>1 DEF Stage, ToBook, MidBlock, InSale, Deducted, Taken
      <4> QED BY <4>1, <4>2
    <3>2. chain'[m] = chain[m]
      BY <1>3
    <3> QED BY <1>3, <3>1, <3>2, CallsStay
  <2>6. ASSUME NEW k, NEW u PROVE Claims(k, u)' = Claims(k, u) - RowValue(k, r, u)
    <3>1. /\ Calls(k, "unique", u) \in Int /\ Calls(k, "kusama", u) \in Int /\ Rows(k, u) \in Int
          /\ RowValue(k, r, u) \in Int
      <4>1. RowValue(k, r, u) \in Int
        BY <1>2 DEF RowValue, MoneyType
      <4> QED BY <1>3, <4>1, BooksAreInts DEF Networks
    <3>2. Calls(k, "unique", u)' = Calls(k, "unique", u) /\ Calls(k, "kusama", u)' = Calls(k, "kusama", u)
      BY <2>5 DEF Networks
    <3> HIDE DEF r
    <3> QED BY <1>4, <3>1, <3>2 DEF Claims
  <2>7. n = "unique" => r.amount >= 0
    BY <1>2, <1>7 DEF HandsOK, NegativeRows, MoneyType
  <2>8. ASSUME NEW u
         PROVE  Calls("owes", "unique", u)' = Calls("owes", "unique", u)
                     + (IF n = "unique" /\ r.who = u /\ r.amount < 0 THEN r.amount ELSE 0)
    <3>1. Calls("owes", "unique", u)' = Calls("owes", "unique", u) /\ Calls("owes", "unique", u) \in Int
      BY <1>3, <2>5, BooksAreInts DEF Networks
    <3>2. ~(n = "unique" /\ r.amount < 0)
      BY <1>2, <2>7 DEF MoneyType
    <3> QED BY <3>1, <3>2
  <2> QED BY <1>2, <2>6, <2>8
<1> QED BY <1>6, <1>7

LEMMA SendBooks ==
  ASSUME SInv, HandsOK, BooksOK, NEW n \in Networks, Send(n)
  PROVE  BooksOK'
<1>1. PICK i \in DOMAIN money : i = scanner[n].row
  BY CarryPlaces, CarriedRow DEF SInv, HandsOK
<1> DEFINE r == money[i]
           who == r.who
           a == r.amount
<1>2. /\ r \in MoneyType /\ r.sent = 0
      /\ \A u : \A k \in {"brings", "needs"} : Claims(k, u)' = Claims(k, u) - RowValue(k, r, u)
      /\ \A u : Calls("owes", "unique", u)' = Calls("owes", "unique", u)
                  + (IF n = "unique" /\ who = u /\ a < 0 THEN a ELSE 0)
  BY <1>1, SendClaims
<1>3. who \in Users /\ a \in Int /\ Effect(n, who, a)
  BY <1>1, <1>2 DEF MoneyType, Send
<1>4. /\ \A u : RowValue("brings", r, u) = IF who = u THEN a ELSE 0
      /\ RowValue("needs", r, Nobody) = a
  BY <1>2 DEF RowValue
<1> HIDE DEF who, a, r
<1>5. /\ balanceKSM \in [Users -> Int] /\ received \in [Users -> Int]
      /\ \A u \in Users : /\ balanceKSM[u] \in Int /\ received[u] \in Int /\ due[u] \in Int
                          /\ Claims("brings", u) \in Int /\ Calls("owes", "unique", u) \in Int
      /\ market \in Int /\ Sum(Users, balanceKSM) \in Int /\ Claims("needs", Nobody) \in Int
  <2>1. balanceKSM \in [Users -> Nat] /\ received \in [Users -> Nat]
    BY DEF SInv, IInv, Custody, ContractTypeOK, FundsOK
  <2>2. balanceKSM \in [Users -> Int] /\ received \in [Users -> Int]
    BY <2>1
  <2> QED BY <2>2, BooksAreInts DEF SInv, Networks
<1>6. CASE n = "unique"
  <2>1. balanceKSM' = Credit(balanceKSM, who, a) /\ UNCHANGED <<market, received, due>>
    <3>1. -(-a) = a
      BY <1>3
    <3> QED BY <1>3, <1>6, <3>1 DEF Effect, DepositKSM, WithdrawKSM, ledger
  <2>2. \A u \in Users : balanceKSM'[u] = balanceKSM[u] + (IF u = who THEN a ELSE 0)
    BY <1>3, <1>5, <2>1 DEF Credit
  <2>3. Sum(Users, balanceKSM') = Sum(Users, balanceKSM) + a
    BY <1>3, <1>5, <2>1, TotalMoves
  <2>4. ASSUME NEW u \in Users
        PROVE  due[u] = balanceKSM'[u] + received[u] + Claims("brings", u)'
    <3>1. due[u] = balanceKSM[u] + received[u] + Claims("brings", u)
      BY DEF BooksOK, Conserved
    <3>2. Claims("brings", u)' = Claims("brings", u) - (IF who = u THEN a ELSE 0)
      BY <1>2, <1>4
    <3> QED BY <1>3, <1>5, <2>2, <3>1, <3>2
  <2>5. market >= Sum(Users, balanceKSM') + Claims("needs", Nobody)'
    <3>1. market >= Sum(Users, balanceKSM) + Claims("needs", Nobody)
      BY DEF BooksOK, Covers
    <3>2. Claims("needs", Nobody)' = Claims("needs", Nobody) - a
      BY <1>2, <1>4
    <3> QED BY <1>3, <1>5, <2>3, <3>1, <3>2
  <2>6. ASSUME NEW u \in Users PROVE balanceKSM'[u] >= Calls("owes", "unique", u)'
    <3>1. balanceKSM[u] >= Calls("owes", "unique", u)
      BY DEF BooksOK, Backed
    <3>2. Calls("owes", "unique", u)' = Calls("owes", "unique", u)
            + (IF who = u /\ a < 0 THEN a ELSE 0)
      BY <1>2, <1>6
    <3> QED BY <1>3, <1>5, <2>2, <3>1, <3>2
  <2>7. Conserved' /\ Backed'
    BY <2>1, <2>4, <2>6 DEF Conserved, Backed
  <2>8. Covers'
    BY <2>1, <2>5 DEF Covers
  <2> QED BY <2>7, <2>8 DEF BooksOK
<1>7. CASE n = "kusama"
  <2>1. /\ market' = market - a /\ received' = Credit(received, who, a)
        /\ UNCHANGED <<balanceKSM, due>>
    BY <1>3, <1>7 DEF Effect, contractVars
  <2>2. \A u \in Users : received'[u] = received[u] + (IF u = who THEN a ELSE 0)
    BY <1>3, <1>5, <2>1 DEF Credit
  <2>3. ASSUME NEW u \in Users
        PROVE  due[u] = balanceKSM[u] + received'[u] + Claims("brings", u)'
    <3>1. due[u] = balanceKSM[u] + received[u] + Claims("brings", u)
      BY DEF BooksOK, Conserved
    <3>2. Claims("brings", u)' = Claims("brings", u) - (IF who = u THEN a ELSE 0)
      BY <1>2, <1>4
    <3> QED BY <1>3, <1>5, <2>2, <3>1, <3>2
  <2>4. market' >= Sum(Users, balanceKSM) + Claims("needs", Nobody)'
    <3>1. market >= Sum(Users, balanceKSM) + Claims("needs", Nobody)
      BY DEF BooksOK, Covers
    <3>2. Claims("needs", Nobody)' = Claims("needs", Nobody) - a
      BY <1>2, <1>4
    <3> QED BY <1>3, <1>5, <2>1, <3>1, <3>2
  <2>5. ASSUME NEW u \in Users PROVE balanceKSM[u] >= Calls("owes", "unique", u)'
    <3>1. balanceKSM[u] >= Calls("owes", "unique", u)
      BY DEF BooksOK, Backed
    <3> QED BY <1>2, <1>5, <1>7, <3>1
  <2>6. Conserved' /\ Backed'
    BY <2>1, <2>3, <2>5 DEF Conserved, Backed
  <2>7. Covers'
    BY <2>1, <2>4 DEF Covers
  <2> QED BY <2>6, <2>7 DEF BooksOK
<1> QED BY <1>6, <1>7 DEF Networks

-----------------------------------------------------------------------------
(* The steps of users.                                                     *)

LEMMA OtherCallsStay ==
  ASSUME SInv, NEW n \in Networks, NEW method, NEW t, NEW who, NEW seller, NEW amount,
         Log(n, method, t, who, seller, amount), UNCHANGED <<head, scanner>>,
         NEW m \in Networks \ {n}, NEW k, NEW u
  PROVE  Calls(k, m, u)' = Calls(k, m, u)
<1>1. chain'[m] = chain[m] /\ scanner'[m] = scanner[m]
  BY Logged DEF SInv
<1>2. \A j \in DOMAIN chain[m] : Stage(m, j)' = Stage(m, j)
  BY <1>1 DEF Stage, ToBook, MidBlock, InSale, Deducted, Taken
<1> QED BY <1>1, <1>2, CallsStay DEF SInv

LEMMA LogClaims ==
  ASSUME SInv, IInv', NEW n \in Networks, NEW method, NEW t, NEW who, NEW seller, NEW amount,
         Log(n, method, t, who, seller, amount), UNCHANGED <<head, scanner, money>>,
         NEW k, NEW u
  PROVE  LET c == [block |-> head[n] + 1, method |-> method, token |-> t, who |-> who,
                   seller |-> seller, amount |-> amount]
             v == Value(k, c, "left", u)
         IN /\ Claims(k, u)' = Claims(k, u) + v /\ v \in Int
            /\ Calls(k, n, u)' = Calls(k, n, u) + v
<1> DEFINE c == [block |-> head[n] + 1, method |-> method, token |-> t, who |-> who,
                 seller |-> seller, amount |-> amount]
           v == Value(k, c, "left", u)
<1>1. PICK new : new = Len(chain[n]) + 1
  OBVIOUS
<1>2. (\A i \in DOMAIN chain[n] : Stage(n, i)' = Stage(n, i)) /\ Stage(n, new)' = "left"
  BY <1>1, LogStages
<1>3. Calls(k, n, u)' = Calls(k, n, u) + v /\ v \in Int
  BY <1>1, <1>2, CallsGrow DEF SInv
<1>4. ASSUME NEW m \in Networks \ {n} PROVE Calls(k, m, u)' = Calls(k, m, u)
  BY OtherCallsStay
<1>5. Rows(k, u)' = Rows(k, u)
  BY RowsKeep DEF SInv, SameRows
<1>6. Rows(k, u) \in Int /\ Calls(k, "unique", u) \in Int /\ Calls(k, "kusama", u) \in Int
  BY BooksAreInts DEF SInv, Networks
<1> HIDE DEF c, v
<1>7. Claims(k, u)' = Claims(k, u) + v
  <2>1. CASE n = "unique"
    <3>1. Calls(k, "kusama", u)' = Calls(k, "kusama", u)
      BY <1>4, <2>1 DEF Networks
    <3> QED BY <1>3, <1>5, <1>6, <2>1, <3>1 DEF Claims
  <2>2. CASE n = "kusama"
    <3>1. Calls(k, "unique", u)' = Calls(k, "unique", u)
      BY <1>4, <2>2 DEF Networks
    <3> QED BY <1>3, <1>5, <1>6, <2>2, <3>1 DEF Claims
  <2> QED BY <2>1, <2>2 DEF Networks
<1> QED BY <1>3, <1>4, <1>7 DEF c, v

\* A seller who may spend has no sale left to be debited for.
LEMMA NothingOwed ==
  ASSUME SInv, NoneAhead, "hasty" \notin Allowed, NEW u \in Users, MaySpend(u)
  PROVE  Calls("owes", "unique", u) = 0
<1> DEFINE n == "unique"
           w == Values("owes", n, u)
<1>1. /\ n \in Networks /\ IInv /\ WhereOK(n)
      /\ scanner[n].at \in Nat /\ scanner[n].current \in Nat /\ scanner[n].block \in Nat
  BY Places DEF SInv, Scans, Networks, ScannerType
<1>2. ASSUME NEW i \in DOMAIN chain[n] PROVE w[i] = 0
  <2> DEFINE c == chain[n][i]
  <2>1. c.seller = u => c.block \in scanned[n]
    BY DEF MaySpend
  <2>2. c.block \in scanned[n] => c.block < scanner[n].current /\ (MidBlock(n) => c.block < scanner[n].block)
    BY <1>1 DEF NoneAhead
  <2>3. MidBlock(n) /\ i >= scanner[n].at => c.block >= scanner[n].block
    BY <1>1 DEF WhereOK, Divides
  <2>4. c.block \in Nat
    BY <1>1, CallsAre DEF CallType
  <2>5. c.seller = u => i \notin ToBook(n)
    BY <1>1, <2>1, <2>2, <2>3, <2>4 DEF ToBook
  <2>6. c.seller = u => Stage(n, i) = "done"
    BY <2>5 DEF Stage
  <2> QED BY <2>6 DEF Values, Value, Owes
<1>3. IsFiniteSet(DOMAIN chain[n]) /\ Calls("owes", n, u) = Sum(DOMAIN chain[n], w)
  BY <1>1, CallsAre DEF Calls
<1> HIDE DEF w
<1> QED BY <1>2, <1>3, SumOfZeroes

LEMMA BuyBooks ==
  ASSUME SInv, IInv', NoneAhead, BooksOK, "hasty" \notin Allowed,
         NEW u \in Users, NEW t \in Tokens, CallBuyKSM(u, t, u), order[t].active
  PROVE  BooksOK'
<1> DEFINE price == order[t].price
           seller == order[t].owner
           paid == PriceWithoutCommission(price)
<1>1. seller \in Users /\ price \in Nat
  <2>1. order[t] \in OrderType /\ order[t].owner \in Users
    BY DEF SInv, IInv, Custody, ContractTypeOK, SellersAreUsers
  <2> QED BY <2>1 DEF OrderType
<1>2. paid \in Nat /\ -price \in Int
  <2>1. -price \in Int
    BY <1>1
  <2> QED BY <1>1, <2>1, PriceType
<1>3. /\ Log("unique", "buyKSM", t, u, seller, price)
      /\ balanceKSM[u] >= price
      /\ balanceKSM' = Credit(Credit(balanceKSM, u, -price), seller, price)
      /\ due' = Credit(Credit(due, u, -price), seller, paid)
      /\ UNCHANGED <<head, scanner, money, market, received>>
  <2>1. UNCHANGED <<head, market, received>>
    BY DEF CallBuyKSM
  <2> QED BY <1>1, <2>1 DEF CallBuyKSM, BuyKSM, Move, tables
<1>4. Calls("owes", "unique", u) = 0
  BY NothingOwed DEF CallBuyKSM
<1> HIDE DEF price, seller, paid
<1>5. /\ balanceKSM \in [Users -> Int] /\ due \in [Users -> Int]
      /\ \A v \in Users : /\ balanceKSM[v] \in Int /\ received[v] \in Int /\ due[v] \in Int
                          /\ Claims("brings", v) \in Int /\ Calls("owes", "unique", v) \in Int
      /\ market \in Int /\ Sum(Users, balanceKSM) \in Int /\ Claims("needs", Nobody) \in Int
  <2>1. balanceKSM \in [Users -> Nat] /\ due \in [Users -> Int]
    BY DEF SInv, IInv, Custody, ContractTypeOK, FundsOK
  <2>2. balanceKSM \in [Users -> Int]
    BY <2>1
  <2> QED BY <2>1, <2>2, BooksAreInts DEF SInv, Networks
<1> DEFINE c == [block |-> head["unique"] + 1, method |-> "buyKSM", token |-> t, who |-> u,
                 seller |-> seller, amount |-> price]
<1>6. ASSUME NEW k, NEW v
      PROVE  /\ Claims(k, v)' = Claims(k, v) + Value(k, c, "left", v)
             /\ Calls(k, "unique", v)' = Calls(k, "unique", v) + Value(k, c, "left", v)
  BY <1>3, LogClaims DEF Networks
<1>7. ASSUME NEW v
      PROVE  /\ Value("brings", c, "left", v) = IF seller = v THEN paid - price ELSE 0
             /\ Value("needs", c, "left", v) = 0
             /\ Value("owes", c, "left", v) = IF seller = v THEN price ELSE 0
  BY DEF Value, Brings, Needs, Owes, paid
<1> HIDE DEF c
<1> DEFINE b == Credit(balanceKSM, u, -price)
<1>8. /\ b \in [Users -> Int]
      /\ \A v \in Users : b[v] = balanceKSM[v] + (IF v = u THEN -price ELSE 0)
  BY <1>1, <1>2, <1>5, CreditType DEF Credit
<1>9. \A v \in Users : balanceKSM'[v] = balanceKSM[v] + (IF v = u THEN -price ELSE 0)
                                          + (IF v = seller THEN price ELSE 0)
  <2>1. balanceKSM' = Credit(b, seller, price)
    BY <1>3
  <2> HIDE DEF b
  <2>2. \A v \in Users : balanceKSM'[v] = b[v] + (IF v = seller THEN price ELSE 0)
    BY <1>1, <1>8, <2>1 DEF Credit
  <2> QED BY <1>8, <2>2
<1>10. \A v \in Users : due'[v] = due[v] + (IF v = u THEN -price ELSE 0)
                                   + (IF v = seller THEN paid ELSE 0)
  <2> DEFINE d == Credit(due, u, -price)
  <2>1. /\ d \in [Users -> Int]
        /\ \A v \in Users : d[v] = due[v] + (IF v = u THEN -price ELSE 0)
    BY <1>1, <1>2, <1>5, CreditType DEF Credit
  <2>2. due' = Credit(d, seller, paid)
    BY <1>3
  <2> HIDE DEF d
  <2>3. \A v \in Users : due'[v] = d[v] + (IF v = seller THEN paid ELSE 0)
    BY <1>2, <2>1, <2>2 DEF Credit
  <2> QED BY <2>1, <2>3
<1>11. Sum(Users, balanceKSM') = Sum(Users, balanceKSM)
  <2>1. Sum(Users, b) = Sum(Users, balanceKSM) + (-price)
    BY <1>2, <1>5, TotalMoves
  <2>2. balanceKSM' = Credit(b, seller, price) /\ price \in Int
    BY <1>1, <1>3
  <2> HIDE DEF b
  <2>3. Sum(Users, balanceKSM') = Sum(Users, b) + price
    BY <1>1, <1>8, <2>2, TotalMoves
  <2> QED BY <1>5, <2>1, <2>2, <2>3
<1>12. ASSUME NEW v \in Users
       PROVE  due'[v] = balanceKSM'[v] + received[v] + Claims("brings", v)'
  <2>1. due[v] = balanceKSM[v] + received[v] + Claims("brings", v)
    BY DEF BooksOK, Conserved
  <2>2. Claims("brings", v)' = Claims("brings", v) + (IF seller = v THEN paid - price ELSE 0)
    BY <1>6, <1>7
  <2> QED BY <1>1, <1>2, <1>5, <1>9, <1>10, <2>1, <2>2
<1>13. market >= Sum(Users, balanceKSM') + Claims("needs", Nobody)'
  <2>1. Claims("needs", Nobody)' = Claims("needs", Nobody)
    BY <1>5, <1>6, <1>7
  <2> QED BY <1>11, <2>1 DEF BooksOK, Covers
<1>14. ASSUME NEW v \in Users PROVE balanceKSM'[v] >= Calls("owes", "unique", v)'
  <2>1. balanceKSM[v] >= Calls("owes", "unique", v)
    BY DEF BooksOK, Backed
  <2>2. Calls("owes", "unique", v)' = Calls("owes", "unique", v) + (IF seller = v THEN price ELSE 0)
    BY <1>6, <1>7
  <2> QED BY <1>1, <1>3, <1>4, <1>5, <1>9, <2>1, <2>2
<1>15. Conserved' /\ Backed'
  BY <1>3, <1>12, <1>14 DEF Conserved, Backed
<1>16. Covers'
  BY <1>3, <1>13 DEF Covers
<1> QED BY <1>15, <1>16 DEF BooksOK

LEMMA WithdrawBooks ==
  ASSUME SInv, IInv', NoneAhead, BooksOK, "hasty" \notin Allowed,
         NEW u \in Users, CallWithdrawAllKSM(u)
  PROVE  BooksOK'
<1> DEFINE all == balanceKSM[u]
<1>1. /\ Log("unique", "withdrawAllKSM", Nobody, u, Nobody, all)
      /\ balanceKSM' = [balanceKSM EXCEPT ![u] = 0]
      /\ UNCHANGED <<head, scanner, money, market, received, due>>
  <2>1. UNCHANGED <<head, ledger>>
    BY DEF CallWithdrawAllKSM
  <2> QED BY <2>1 DEF CallWithdrawAllKSM, WithdrawAllKSM, tables, ledger
<1>2. Calls("owes", "unique", u) = 0
  BY NothingOwed DEF CallWithdrawAllKSM
<1>3. /\ balanceKSM \in [Users -> Int]
      /\ \A v \in Users : /\ balanceKSM[v] \in Int /\ received[v] \in Int /\ due[v] \in Int
                          /\ Claims("brings", v) \in Int /\ Calls("owes", "unique", v) \in Int
      /\ market \in Int /\ Sum(Users, balanceKSM) \in Int /\ Claims("needs", Nobody) \in Int
      /\ all \in Nat
  <2>1. balanceKSM \in [Users -> Nat]
    BY DEF SInv, IInv, Custody, ContractTypeOK
  <2>2. balanceKSM \in [Users -> Int] /\ all \in Nat
    BY <2>1
  <2> QED BY <2>1, <2>2, BooksAreInts DEF SInv, Networks
<1>4. Sum(Users, balanceKSM') = Sum(Users, balanceKSM) - all
  BY <1>1, <1>3, TotalLoses
<1>5. \A v \in Users : balanceKSM'[v] = balanceKSM[v] - (IF v = u THEN all ELSE 0)
  BY <1>1, <1>3
<1> HIDE DEF all
<1> DEFINE c == [block |-> head["unique"] + 1, method |-> "withdrawAllKSM", token |-> Nobody,
                 who |-> u, seller |-> Nobody, amount |-> all]
<1>6. ASSUME NEW k, NEW v
      PROVE  /\ Claims(k, v)' = Claims(k, v) + Value(k, c, "left", v)
             /\ Calls(k, "unique", v)' = Calls(k, "unique", v) + Value(k, c, "left", v)
  BY <1>1, LogClaims DEF Networks
<1>7. ASSUME NEW v
      PROVE  /\ Value("brings", c, "left", v) = IF u = v THEN all ELSE 0
             /\ Value("needs", c, "left", v) = all /\ Value("owes", c, "left", v) = 0
  BY DEF Value, Brings, Needs, Owes
<1> HIDE DEF c
<1>8. ASSUME NEW v \in Users
      PROVE  due[v] = balanceKSM'[v] + received[v] + Claims("brings", v)'
  <2>1. due[v] = balanceKSM[v] + received[v] + Claims("brings", v)
    BY DEF BooksOK, Conserved
  <2>2. Claims("brings", v)' = Claims("brings", v) + (IF u = v THEN all ELSE 0)
    BY <1>6, <1>7
  <2> QED BY <1>3, <1>5, <2>1, <2>2
<1>9. market >= Sum(Users, balanceKSM') + Claims("needs", Nobody)'
  <2>1. Claims("needs", Nobody)' = Claims("needs", Nobody) + all
    BY <1>6, <1>7
  <2>2. market >= Sum(Users, balanceKSM) + Claims("needs", Nobody)
    BY DEF BooksOK, Covers
  <2> QED BY <1>3, <1>4, <2>1, <2>2
<1>10. ASSUME NEW v \in Users PROVE balanceKSM'[v] >= Calls("owes", "unique", v)'
  <2>1. balanceKSM[v] >= Calls("owes", "unique", v)
    BY DEF BooksOK, Backed
  <2>2. Calls("owes", "unique", v)' = Calls("owes", "unique", v)
    BY <1>3, <1>6, <1>7
  <2>3. v = u => balanceKSM'[v] = 0
    BY <1>1, <1>3
  <2> QED BY <1>2, <1>3, <1>5, <2>1, <2>2, <2>3
<1>11. Conserved' /\ Backed'
  BY <1>1, <1>8, <1>10 DEF Conserved, Backed
<1>12. Covers'
  BY <1>1, <1>9 DEF Covers
<1> QED BY <1>11, <1>12 DEF BooksOK

LEMMA DepositBooks ==
  ASSUME SInv, IInv', BooksOK, NEW u \in Users, NEW a \in Amounts, TransferToMarket(u, a)
  PROVE  BooksOK'
<1>1. /\ Log("kusama", "transfer", Nobody, u, Nobody, a) /\ a \in Nat
      /\ market' = market + a /\ due' = Credit(due, u, a)
      /\ UNCHANGED <<head, scanner, money, balanceKSM, received>>
  <2>1. UNCHANGED <<contractVars, head, received>>
    BY DEF TransferToMarket
  <2> QED BY <2>1, ContractAssumption DEF TransferToMarket, contractVars, tables
<1>2. /\ due \in [Users -> Int]
      /\ \A v \in Users : /\ balanceKSM[v] \in Int /\ received[v] \in Int /\ due[v] \in Int
                          /\ Claims("brings", v) \in Int
      /\ market \in Int /\ Sum(Users, balanceKSM) \in Int /\ Claims("needs", Nobody) \in Int
  BY BooksAreInts DEF SInv, IInv, FundsOK
<1>3. \A v \in Users : due'[v] = due[v] + (IF v = u THEN a ELSE 0)
  BY <1>1, <1>2 DEF Credit
<1> DEFINE c == [block |-> head["kusama"] + 1, method |-> "transfer", token |-> Nobody,
                 who |-> u, seller |-> Nobody, amount |-> a]
<1>4. ASSUME NEW k, NEW v
      PROVE  /\ Claims(k, v)' = Claims(k, v) + Value(k, c, "left", v)
             /\ Calls(k, "unique", v)' = Calls(k, "unique", v)
  <2>1. SInv /\ IInv' /\ "kusama" \in Networks /\ "unique" \in Networks \ {"kusama"}
    BY DEF Networks
  <2>2. Claims(k, v)' = Claims(k, v) + Value(k, c, "left", v)
    BY <1>1, <2>1, LogClaims
  <2>3. \A m \in Networks \ {"kusama"} : Calls(k, m, v)' = Calls(k, m, v)
    BY <1>1, <2>1, OtherCallsStay
  <2> QED BY <2>1, <2>2, <2>3
<1>5. ASSUME NEW v
      PROVE  /\ Value("brings", c, "left", v) = IF u = v THEN a ELSE 0
             /\ Value("needs", c, "left", v) = a
  BY DEF Value, Brings, Needs
<1> HIDE DEF c
<1>6. ASSUME NEW v \in Users
      PROVE  due'[v] = balanceKSM[v] + received[v] + Claims("brings", v)'
  <2>1. due[v] = balanceKSM[v] + received[v] + Claims("brings", v)
    BY DEF BooksOK, Conserved
  <2>2. Claims("brings", v)' = Claims("brings", v) + (IF u = v THEN a ELSE 0)
    BY <1>4, <1>5
  <2> QED BY <1>1, <1>2, <1>3, <2>1, <2>2
<1>7. market' >= Sum(Users, balanceKSM) + Claims("needs", Nobody)'
  <2>1. Claims("needs", Nobody)' = Claims("needs", Nobody) + a
    BY <1>4, <1>5
  <2>2. market >= Sum(Users, balanceKSM) + Claims("needs", Nobody)
    BY DEF BooksOK, Covers
  <2> QED BY <1>1, <1>2, <2>1, <2>2
<1>8. Conserved' /\ Backed'
  BY <1>1, <1>4, <1>6 DEF Conserved, Backed, BooksOK
<1>9. Covers'
  BY <1>1, <1>7 DEF Covers
<1> QED BY <1>8, <1>9 DEF BooksOK

LEMMA UserBooks ==
  ASSUME VInv, IInv', Calm, UserStep
  PROVE  BooksOK'
<1>1. SInv /\ NoneAhead /\ BooksOK /\ Allowed \cap {"hasty", "edit", "direct"} = {}
  BY CalmIsUndisturbed DEF VInv, HandsOK, MInv, Undisturbed
\* An offer, or the end of one, moves no KSM.
<1>2. ASSUME NEW method \in {"addAsk", "cancelAsk"}, NEW t, NEW u, NEW amount,
             Log("unique", method, t, u, Nobody, amount),
             UNCHANGED <<balanceKSM, ledger, head, scanner, money>>
      PROVE  BooksOK'
  <2> DEFINE c == [block |-> head["unique"] + 1, method |-> method, token |-> t,
                   who |-> u, seller |-> Nobody, amount |-> amount]
  <2>1. ASSUME NEW k, NEW v
        PROVE  /\ Claims(k, v)' = Claims(k, v) + Value(k, c, "left", v)
               /\ Calls(k, "unique", v)' = Calls(k, "unique", v) + Value(k, c, "left", v)
               /\ Claims(k, v) \in Int /\ Calls(k, "unique", v) \in Int
    BY <1>1, <1>2, LogClaims, BooksAreInts DEF Networks, SInv
  <2>2. ASSUME NEW k, NEW v PROVE Value(k, c, "left", v) = 0
    BY WorthlessCall
  <2> HIDE DEF c
  <2>3. SameBooks
    BY <1>2, <2>1, <2>2 DEF SameBooks
  <2> QED BY <1>1, <2>3, SameBooksKeep
<1>3. ASSUME NEW u \in Users, NEW t \in Tokens, NEW p \in Prices, CallAddAsk(u, t, p)
      PROVE  BooksOK'
  BY <1>2, <1>3 DEF CallAddAsk, AddAsk, tables
<1>4. ASSUME NEW u \in Users, NEW t \in Tokens, CallCancelAsk(u, t)
      PROVE  BooksOK'
  BY <1>2, <1>4 DEF CallCancelAsk, CancelAsk, tables
<1>5. ASSUME NEW u \in Users, NEW t \in Tokens, NEW r \in Users \cup {Contract},
             CallBuyKSM(u, t, r)
      PROVE  BooksOK'
  <2>1. r = u
    BY <1>1, <1>5 DEF CallBuyKSM
  <2>2. nft[t] = Contract
    BY <1>5 DEF CallBuyKSM, BuyKSM, TransferFrom
  <2>3. order[t].active
    BY <2>2 DEF VInv, MInv, ChainTells, OrderTold
  <2> QED BY <1>1, <1>5, <2>1, <2>3, BuyBooks
<1>6. ASSUME NEW u \in Users, CallWithdrawAllKSM(u)
      PROVE  BooksOK'
  BY <1>1, <1>6, WithdrawBooks
<1>7. ASSUME NEW u \in Users, NEW a \in Amounts, TransferToMarket(u, a)
      PROVE  BooksOK'
  BY <1>1, <1>7, DepositBooks
<1>8. ASSUME NEW u \in Users, NEW t \in Tokens, CallIgnored(u, t)
      PROVE  BooksOK'
  BY <1>1, <1>8 DEF CallIgnored
<1>9. ASSUME NEW u \in Users, NEW t \in Tokens, NEW v \in Users \cup {Contract},
             CallTransfer(u, t, v)
      PROVE  BooksOK'
  BY <1>1, <1>9 DEF CallTransfer
<1> QED BY <1>3, <1>4, <1>5, <1>6, <1>7, <1>8, <1>9 DEF UserStep

\* What does not happen to a calm escrow.
LEMMA CalmSteps ==
  ASSUME VInv, Calm, [Next]_vars
  PROVE  \/ UserStep \/ Extract \/ Start \/ UNCHANGED vars
         \/ \E n \in Networks :
              \/ FinishBlock(n) \/ Begin(n) \/ EmptyBlock(n) \/ EndOfBlock(n)
              \/ Pick(n) \/ NoMoreMoney(n) \/ Send(n) \/ Report(n)
<1>1. /\ "crash" \notin Allowed /\ "scanFails" \notin Allowed /\ "massCancel" \notin Allowed
      /\ "disable" \notin Allowed /\ "sharedBlocks" \notin Allowed
  BY CalmIsUndisturbed DEF Undisturbed
<1>2. \A n \in Networks : ~SendFails(n)
  BY SendsAll DEF VInv, MInv
<1>3. ~AdminStep
  BY <1>1 DEF AdminStep, MassCancelFind, MassCancelUpdate, ToggleCollection, ShareBlock,
              VInv, MInv, MemoryOK
<1>4. \A n \in Networks : ~Crash(n) /\ ~ScanFails(n)
  BY <1>1 DEF Crash, ScanFails
<1> QED BY <1>2, <1>3, <1>4 DEF Next, Carry

LEMMA NextKeepsBooks ==
  ASSUME VInv, Calm, [Next]_vars, IInv'
  PROVE  BooksOK'
<1>1. /\ MInv /\ SInv /\ HandsOK /\ BooksOK /\ NoneFailed /\ NoneAhead /\ SaleKnown
      /\ "unique" \in Networks
  BY DEF VInv, MInv, HandsOK, Networks
<1>2. CASE UserStep
  BY <1>2, UserBooks
<1>3. CASE Extract
  <2>1. CASE Deduct
    BY <1>1, <2>1, DeductBooks
  <2>2. CASE Payout
    BY <1>1, <2>2, PayoutBooks
  <2>3. CASE ProcessWithdrawAllKSM \/ ProcessTransfer
    BY <1>1, <2>3, TransferBooks
  <2>4. CASE \/ ProcessAddAsk \/ RegisterAsk \/ ProcessCancelAsk
             \/ ProcessBuyKSM \/ MarkBought
    BY <1>1, <2>4, ExtractBooks, SameBooksKeep
  <2> QED BY <1>3, <2>1, <2>2, <2>3, <2>4 DEF Extract
<1>4. ASSUME NEW n \in Networks, Begin(n) \/ EmptyBlock(n) \/ EndOfBlock(n) \/ NoMoreMoney(n)
      PROVE  BooksOK'
  BY <1>1, <1>4, LoopBooks, SameBooksKeep
<1>5. ASSUME NEW n \in Networks, Pick(n) \/ Report(n)
      PROVE  BooksOK'
  BY <1>1, <1>5, CarryBooks, SameBooksKeep
<1>6. CASE Start
  BY <1>1, <1>6, CarryBooks, SameBooksKeep
<1>7. ASSUME NEW n \in Networks, Send(n)
      PROVE  BooksOK'
  BY <1>1, <1>7, SendBooks
<1>8. ASSUME UNCHANGED <<balanceKSM, ledger, chain, money, scanner>>
      PROVE  BooksOK'
  BY <1>1, <1>8, OutsideBooks, SameBooksKeep
<1>9. ASSUME NEW n \in Networks, FinishBlock(n)
      PROVE  BooksOK'
  BY <1>8, <1>9 DEF FinishBlock, contractVars, tables
<1>10. CASE UNCHANGED vars
  BY <1>8, <1>10 DEF vars, outside, contractVars, tables
<1> QED BY <1>2, <1>3, <1>4, <1>5, <1>6, <1>7, <1>9, <1>10, CalmSteps

-----------------------------------------------------------------------------
(* What the processes have in hand.                                        *)

\* Rows of money_transfer that are not carried out keep their status, and new
\* ones wait.
RowsGoOn ==
  /\ DOMAIN money \subseteq DOMAIN money'
  /\ \A i \in DOMAIN money' :
       \/ /\ i \in DOMAIN money
          /\ money'[i].who = money[i].who /\ money'[i].amount = money[i].amount
          /\ money'[i].sent = money[i].sent
          /\ money'[i].status = money[i].status \/ money[i].sent # 0
       \/ i \notin DOMAIN money /\ money'[i].status = "pending" /\ money'[i].amount \in Nat

\* A call that a process has in hand stays as it is.
LEMMA CallInHand ==
  ASSUME SInv, NEW n \in Networks, InSale(n), \A i \in DOMAIN chain[n] : chain'[n][i] = chain[n][i],
         scanner'[n].at = scanner[n].at
  PROVE  Call(n)' = Call(n)
  BY OnlyUniqueDeducts DEF Call

\* Of what is in hand nothing changes at a process that rests.
LEMMA HandRests ==
  ASSUME SInv, HandsOK, UNCHANGED asks, scanner'["unique"] = scanner["unique"],
         \A i \in DOMAIN chain["unique"] : chain'["unique"][i] = chain["unique"][i],
         \A i \in DOMAIN money : money'[i].who = money[i].who /\ money'[i].amount = money[i].amount
  PROVE  SaleKnown' /\ RowKnown'
<1> DEFINE n == "unique"
<1>1. n \in Networks
  BY DEF Networks
<1>2. InSale(n)' <=> InSale(n)
  BY DEF InSale
<1>3. InSale(n) => Call(n)' = Call(n)
  BY <1>1, CallInHand
<1>4. SaleKnown'
  BY <1>2, <1>3 DEF HandsOK, SaleKnown
<1>5. RowKnown'
  <2>1. scanner[n].pc \in Carrying => scanner[n].row \in DOMAIN money
    BY <1>1, CarriedRow DEF SInv, Carrying
  <2>2. scanner[n].pc \in Carrying /\ scanner[n].then = "payout" => InSale(n)
    BY DEF InSale
  <2> QED BY <1>3, <2>1, <2>2 DEF HandsOK, RowKnown
<1> QED BY <1>4, <1>5

\* The process has no row in hand, neither before the step nor after it.
LEMMA EmptyHands ==
  ASSUME SInv, HandsOK, NEW n \in Networks, UNCHANGED chain,
         \A m \in Networks \ {n} : scanner'[m] = scanner[m],
         scanner[n].pc \notin {"start", "send"}, scanner'[n].pc \notin Carrying,
         RowsGoOn, n # "unique" => UNCHANGED asks, n = "unique" => SaleKnown', NoneAhead'
  PROVE  HandsOK'
<1>1. SaleKnown' /\ RowKnown'
  <2>1. CASE n = "unique"
    BY <2>1 DEF RowKnown
  <2>2. CASE n # "unique"
    <3>1. UNCHANGED asks /\ scanner'["unique"] = scanner["unique"]
      BY <2>2 DEF Networks
    <3>2. \A i \in DOMAIN money : money'[i].who = money[i].who /\ money'[i].amount = money[i].amount
      BY DEF RowsGoOn
    <3> QED BY <3>1, <3>2, HandRests
  <2> QED BY <2>1, <2>2
<1>2. ASSUME NEW i \in DOMAIN money', money'[i].sent = 0
      PROVE  /\ money'[i].amount < 0 => LET s == scanner'["unique"] IN
                  s.pc \in {"start", "send"} /\ s.then = "payout" /\ s.row = i
             /\ money'[i].status # "pending" =>
                  \E m \in Networks : scanner'[m].pc = "send" /\ scanner'[m].row = i
  <2>1. CASE i \in DOMAIN money
    <3>1. /\ money'[i].amount = money[i].amount /\ money[i].sent = 0
          /\ money'[i].status = money[i].status
      BY <1>2, <2>1 DEF RowsGoOn
    <3>2. ASSUME money[i].amount < 0
          PROVE  LET s == scanner'["unique"] IN
                 s.pc \in {"start", "send"} /\ s.then = "payout" /\ s.row = i
      <4>1. LET s == scanner["unique"] IN s.pc \in {"start", "send"} /\ s.then = "payout" /\ s.row = i
        BY <2>1, <3>1, <3>2 DEF HandsOK, NegativeRows
      <4>2. scanner'["unique"] = scanner["unique"]
        BY <4>1 DEF Networks
      <4> QED BY <4>1, <4>2
    <3>3. ASSUME money[i].status # "pending"
          PROVE  \E m \in Networks : scanner'[m].pc = "send" /\ scanner'[m].row = i
      <4>1. PICK m \in Networks : scanner[m].pc = "send" /\ scanner[m].row = i
        BY <2>1, <3>1, <3>3 DEF HandsOK, InHand
      <4>2. scanner'[m] = scanner[m]
        BY <4>1
      <4> QED BY <4>1, <4>2
    <3> QED BY <3>1, <3>2, <3>3
  <2>2. CASE i \notin DOMAIN money
    <3>1. money'[i].status = "pending" /\ money'[i].amount \in Nat
      BY <2>2 DEF RowsGoOn
    <3>2. ~(money'[i].amount < 0)
      BY <3>1
    <3> QED BY <3>1, <3>2
  <2> QED BY <2>1, <2>2
<1>3. NegativeRows' /\ InHand'
  BY <1>2 DEF NegativeRows, InHand
<1>4. NoneFailed'
  BY DEF HandsOK, NoneFailed, Carrying
<1> QED BY <1>1, <1>3, <1>4 DEF HandsOK

\* No block is marked as scanned but by the process that leaves it.
LEMMA AheadStays ==
  ASSUME SInv, NoneAhead, Calm, [Next]_vars
  PROVE  NoneAhead'
<1>1. "crash" \notin Allowed /\ "sharedBlocks" \notin Allowed /\ \A n \in Networks : Moves(n)
  BY CalmIsUndisturbed, EveryoneMoves DEF Undisturbed
<1>2. SUFFICES ASSUME NEW n \in Networks, NEW b \in scanned'[n]
               PROVE  b < scanner'[n].current /\ (MidBlock(n)' => b < scanner'[n].block)
  BY DEF NoneAhead
<1>3. /\ scanner[n].current \in Nat /\ scanner[n].block \in Nat /\ WhereOK(n)
      /\ \A v \in scanned[n] : v \in Nat
  <2>1. scanner[n] \in ScannerType /\ scanned \in [Networks -> SUBSET Nat]
    BY Places DEF SInv, IInv, TablesOK
  <2> QED BY <2>1 DEF ScannerType, SInv, Scans
<1>4. CASE EndOfBlock(n)
  <2>1. scanner[n].pc = "scan" /\ SetPlace(n, "money", scanner[n].at)
    BY <1>4, GoPlace DEF EndOfBlock, SInv, Pcs
  <2>2. scanner[n].current = scanner[n].block + 1
    BY <1>3, <2>1 DEF WhereOK, MidBlock
  <2>3. scanner'[n].current = scanner[n].current /\ ~MidBlock(n)'
    BY <2>1 DEF SetPlace, MidBlock, InSale, Carrying
  <2>4. b \in scanned[n] \/ b = scanner[n].block
    <3>1. scanned \in [Networks -> SUBSET Nat]
      BY DEF SInv, IInv, TablesOK
    <3> QED BY <1>4, <3>1 DEF EndOfBlock
  <2>5. b < scanner[n].current
    BY <1>3, <2>2, <2>4 DEF NoneAhead
  <2> QED BY <2>3, <2>5
<1>5. CASE ~EndOfBlock(n)
  <2>1. b \in scanned[n]
    <3>1. scanned \in [Networks -> SUBSET Nat]
      BY DEF SInv, IInv, TablesOK
    <3>2. CASE UNCHANGED scanned
      BY <3>2
    <3>3. ASSUME NEW m \in Networks, EndOfBlock(m)
          PROVE  scanned'[n] = scanned[n]
      BY <1>5, <3>1, <3>3 DEF EndOfBlock
    <3>4. UNCHANGED scanned \/ \E m \in Networks : EndOfBlock(m)
      BY <1>1 DEF Next, UserStep, CallAddAsk, CallCancelAsk, CallBuyKSM, CallTransfer,
         CallIgnored, CallWithdrawAllKSM, TransferToMarket, FinishBlock, Begin, EmptyBlock,
         ScanFails, Crash, Carry, Pick, NoMoreMoney, Send, SendFails, Report, Extract,
         ProcessAddAsk, RegisterAsk, ProcessCancelAsk, ProcessBuyKSM, MarkBought, Deduct,
         Payout, ProcessWithdrawAllKSM, ProcessTransfer, Start, AdminStep,
         MassCancelFind, MassCancelUpdate, ToggleCollection, ShareBlock, tables, vars
    <3> QED BY <3>2, <3>3, <3>4
  <2>2. b \in Nat /\ b < scanner[n].current /\ (MidBlock(n) => b < scanner[n].block)
    BY <1>3, <2>1 DEF NoneAhead
  <2>3. CASE Rests(n) \/ Leaves(n)
    BY <2>2, <2>3 DEF Rests, Leaves, MidBlock, InSale
  <2>4. CASE Works(n) \/ GoesToNext(n)
    BY <2>2, <2>4 DEF Works, GoesToNext, SetPlace
  <2>5. CASE Begin(n)
    <3>1. scanner'[n].current = scanner[n].current + 1 /\ scanner'[n].block = scanner[n].current
      BY <2>5, BeginPlace
    <3> QED BY <1>3, <2>2, <3>1
  <2> QED BY <1>1, <2>3, <2>4, <2>5 DEF Moves, Keeps, Crash
<1> QED BY <1>4, <1>5

\* A row that is registered waits.
LEMMA NewRowWaits ==
  ASSUME IInv, NEW type, NEW who, NEW a \in Nat, money' = Append(money, NewRow(type, who, a))
  PROVE  RowsGoOn
<1> DEFINE row == NewRow(type, who, a)
<1>1. row.status = "pending" /\ row.amount \in Nat
  BY DEF NewRow
<1> HIDE DEF row
<1>2. /\ DOMAIN money' = DOMAIN money \cup {Len(money) + 1}
      /\ money'[Len(money) + 1] = row
      /\ \A i \in DOMAIN money : money'[i] = money[i]
  BY RowIsAdded DEF row
<1> QED BY <1>1, <1>2 DEF RowsGoOn

\* The sale in hand stays the same sale.
LEMMA SaleGoesOn ==
  ASSUME SInv, SaleKnown, UNCHANGED chain,
         \A i \in DOMAIN asks : asks'[i].seller = asks[i].seller /\ asks'[i].price = asks[i].price,
         scanner'["unique"].at = scanner["unique"].at,
         scanner'["unique"].ask = scanner["unique"].ask,
         InSale("unique")' => InSale("unique")
  PROVE  SaleKnown'
<1> SUFFICES ASSUME InSale("unique")'
             PROVE  LET a == asks'[scanner'["unique"].ask] IN
                    a.seller = Call("unique")'.seller /\ a.price = Call("unique")'.amount
  BY DEF SaleKnown
<1>1. InSale("unique") /\ "unique" \in Networks
  BY DEF Networks
<1>2. scanner["unique"].ask \in DOMAIN asks
  BY <1>1, Places DEF SInv, PlaceOK, InSale
<1>3. Call("unique")' = Call("unique")
  BY <1>1, CallInHand
<1> QED BY <1>1, <1>2, <1>3 DEF SaleKnown

\* And so does the row in hand.
LEMMA RowGoesOn ==
  ASSUME SInv, RowKnown, UNCHANGED chain,
         \A i \in DOMAIN money : money'[i].who = money[i].who /\ money'[i].amount = money[i].amount,
         scanner'["unique"].at = scanner["unique"].at,
         scanner'["unique"].row = scanner["unique"].row,
         scanner'["unique"].then = scanner["unique"].then,
         scanner["unique"].pc \in Carrying
  PROVE  RowKnown'
<1> SUFFICES ASSUME scanner'["unique"].pc \in Carrying, scanner'["unique"].then = "payout"
             PROVE  LET row == money'[scanner'["unique"].row] IN
                    row.who = Call("unique")'.seller /\ row.amount = -Call("unique")'.amount
  BY DEF RowKnown
<1>1. InSale("unique") /\ "unique" \in Networks
  BY DEF Networks, InSale
<1>2. scanner["unique"].row \in DOMAIN money
  BY <1>1, CarriedRow DEF SInv, Carrying
<1>3. Call("unique")' = Call("unique")
  BY <1>1, CallInHand
<1> QED BY <1>2, <1>3 DEF RowKnown

LEMMA LoopHands ==
  ASSUME SInv, HandsOK, NoneAhead', NEW n \in Networks,
         Begin(n) \/ EmptyBlock(n) \/ EndOfBlock(n) \/ NoMoreMoney(n)
  PROVE  HandsOK'
<1>1. UNCHANGED <<chain, money, asks>>
  BY DEF Begin, EmptyBlock, EndOfBlock, NoMoreMoney, outside, tables
<1>2. /\ scanner[n].pc \in {"next", "scan", "money"}
      /\ scanner'[n].pc \in {"next", "scan", "money"}
      /\ \A m \in Networks \ {n} : scanner'[m] = scanner[m]
  <2>1. scanner \in Scanners
    BY Places DEF SInv
  <2>2. CASE Begin(n)
    BY <2>2, BeginPlace DEF Begin
  <2>3. CASE EmptyBlock(n) \/ EndOfBlock(n)
    <3>1. scanner[n].pc \in {"next", "scan"} /\ SetPlace(n, "money", scanner[n].at)
      BY <2>3, GoPlace DEF EmptyBlock, EndOfBlock, SInv, Pcs
    <3> QED BY <3>1 DEF SetPlace
  <2>4. CASE NoMoreMoney(n)
    BY <2>1, <2>4 DEF NoMoreMoney, Scanners, Started
  <2> QED BY <2>2, <2>3, <2>4
<1>3. RowsGoOn
  BY <1>1 DEF RowsGoOn
<1>4. n = "unique" => SaleKnown'
  BY <1>2 DEF SaleKnown, InSale, Carrying
<1> QED BY <1>1, <1>2, <1>3, <1>4, EmptyHands DEF Carrying

\* The calls that leave the unique escrow without a sale in hand.
LEMMA NoSaleHands ==
  ASSUME SInv, HandsOK, NoneAhead', UNCHANGED chain, RowsGoOn,
         NEW n \in Networks, NEW at, NEW pc \in {"scan", "register"}, SetPlace(n, pc, at),
         scanner[n].pc \notin {"start", "send"}, n # "unique" => UNCHANGED asks
  PROVE  HandsOK'
<1>1. scanner'[n].pc = pc /\ \A m \in Networks \ {n} : scanner'[m] = scanner[m]
  BY DEF SetPlace
<1>2. n = "unique" => SaleKnown'
  BY <1>1 DEF SaleKnown, InSale, Carrying
<1> QED BY <1>1, <1>2, EmptyHands DEF Carrying

LEMMA ExtractHands ==
  ASSUME MInv, Calm, HandsOK, NoneAhead', Extract, ~Deduct
  PROVE  HandsOK'
<1> DEFINE n == "unique"
           at == scanner[n].at
<1>1. /\ n \in Networks /\ "kusama" \in Networks /\ SInv /\ IInv /\ SaleKnown /\ UNCHANGED chain
      /\ asks \in Seq(AskType)
  BY DEF MInv, SInv, IInv, TablesOK, Networks, HandsOK, Extract, ProcessAddAsk, RegisterAsk,
         ProcessCancelAsk, ProcessBuyKSM, MarkBought, Deduct, Payout,
         ProcessWithdrawAllKSM, ProcessTransfer, outside
<1>2. CASE UNCHANGED money /\ (ProcessAddAsk \/ RegisterAsk \/ ProcessCancelAsk)
  <2>1. RowsGoOn
    BY <1>2 DEF RowsGoOn
  <2>2. scanner[n].pc \in {"scan", "register"}
    BY <1>2 DEF ProcessAddAsk, RegisterAsk, ProcessCancelAsk, At
  <2>3. NextCall(n, "scan") => HandsOK'
    BY <1>1, <2>1, <2>2, NextPlace, NoSaleHands DEF Pcs
  <2>4. Go(n, "register") => HandsOK'
    BY <1>1, <2>1, <2>2, GoPlace, NoSaleHands DEF Pcs
  <2>5. NextCall(n, "scan") \/ Go(n, "register") \/ (RegisterAsk /\ Go(n, "money"))
    BY <1>2 DEF ProcessAddAsk, RegisterAsk, ProcessCancelAsk
  <2>6. ASSUME RegisterAsk, Go(n, "money") PROVE HandsOK'
    <3>1. scanner[n].pc = "register" /\ SetPlace(n, "money", at)
      BY <1>1, <2>6, GoPlace DEF RegisterAsk, Pcs
    <3>2. /\ SaleKnown' /\ scanner'[n].pc \notin Carrying
          /\ \A m \in Networks \ {n} : scanner'[m] = scanner[m]
      BY <3>1 DEF SetPlace, SaleKnown, InSale, Carrying
    <3> QED BY <1>1, <2>1, <3>1, <3>2, EmptyHands
  <2> QED BY <2>3, <2>4, <2>5, <2>6
<1>3. CASE ProcessBuyKSM
  <2>1. At(n, "buyKSM")
    BY <1>3 DEF ProcessBuyKSM
  <2>2. /\ scanner[n].pc = "scan" /\ at \in DOMAIN chain[n]
        /\ OpenAsks(Call(n).token) # {}
        /\ \A i \in OpenAsks(Call(n).token) :
             asks[i].seller = Call(n).seller /\ asks[i].price = Call(n).amount
    BY <1>1, <2>1, AtCall, SaleHasAsk
  <2>3. PICK i \in OpenAsks(Call(n).token) : scanner' = WithAsk(scanner, n, "bought", i)
    BY <1>3, <2>2 DEF ProcessBuyKSM, WithAsk
  <2>4. i \in Nat
    BY <1>1, <2>3 DEF OpenAsks
  <2>5. SetPlace(n, "bought", at) /\ scanner'[n].ask = i
    BY <1>1, <2>3, <2>4, WithAskPlace DEF Pcs
  <2>6. UNCHANGED <<asks, money>>
    BY <1>3 DEF ProcessBuyKSM
  <2>7. SaleKnown'
    <3>1. Call(n)' = Call(n)
      BY <1>1, <2>5 DEF Call, SetPlace
    <3> QED BY <2>2, <2>3, <2>5, <2>6, <3>1 DEF SaleKnown
  <2>8. RowsGoOn
    BY <2>6 DEF RowsGoOn
  <2>9. scanner'[n].pc \notin Carrying /\ \A m \in Networks \ {n} : scanner'[m] = scanner[m]
    BY <2>5 DEF SetPlace, Carrying
  <2> QED BY <1>1, <2>2, <2>7, <2>8, <2>9, EmptyHands
<1>4. CASE MarkBought
  <2> DEFINE I == {i \in OpenAsks(Call(n).token) : asks[i].status = "active"}
  <2>1. /\ scanner[n].pc = "bought" /\ Go(n, "deduct") /\ UNCHANGED money
        /\ asks' = WithStatus(asks, I, "bought")
    BY <1>4 DEF MarkBought
  <2>2. SetPlace(n, "deduct", at) /\ scanner'[n].ask = scanner[n].ask
    BY <1>1, <2>1, GoPlace, GoTo DEF Pcs
  <2>3. ASSUME NEW i \in DOMAIN asks
        PROVE  asks'[i].seller = asks[i].seller /\ asks'[i].price = asks[i].price
    <3>1. asks[i] \in AskType
      BY <1>1
    <3>2. asks'[i] = asks[i] \/ asks'[i] = [asks[i] EXCEPT !.status = "bought"]
      BY <2>1 DEF WithStatus
    <3> QED BY <3>1, <3>2 DEF AskType
  <2>4. InSale(n) /\ scanner'[n].at = at
    BY <2>1, <2>2 DEF InSale, SetPlace
  <2>5. SaleKnown'
    BY <1>1, <2>2, <2>3, <2>4, SaleGoesOn
  <2>6. RowsGoOn
    BY <2>1 DEF RowsGoOn
  <2>7. scanner'[n].pc \notin Carrying /\ \A m \in Networks \ {n} : scanner'[m] = scanner[m]
    BY <2>2 DEF SetPlace, Carrying
  <2> QED BY <1>1, <2>1, <2>5, <2>6, <2>7, EmptyHands
<1>5. CASE Payout
  <2> DEFINE a == asks[scanner[n].ask]
             p == PriceWithoutCommission(a.price)
  <2>1. scanner[n].pc = "payout" /\ NextCall(n, "scan")
        /\ money' = Append(money, NewRow("withdraw", a.seller, p))
    BY <1>5 DEF Payout
  <2>2. a.price \in Nat
    BY <1>1, <2>1, AskInHand
  <2>3. p \in Nat
    BY <2>2, PriceType
  <2> HIDE DEF p
  <2>4. RowsGoOn
    BY <1>1, <2>1, <2>3, NewRowWaits
  <2>5. SetPlace(n, "scan", at + 1)
    BY <1>1, <2>1, NextPlace DEF Pcs
  <2> QED BY <1>1, <2>1, <2>4, <2>5, NoSaleHands
<1>6. CASE ProcessWithdrawAllKSM
  <2>1. At(n, "withdrawAllKSM") /\ NextCall(n, "scan")
        /\ money' = Append(money, NewRow("withdraw", Call(n).who, Call(n).amount))
    BY <1>6 DEF ProcessWithdrawAllKSM
  <2>2. scanner[n].pc = "scan" /\ Call(n).amount \in Nat
    BY <1>1, <2>1, AtCall DEF CallType
  <2>3. RowsGoOn
    BY <1>1, <2>1, <2>2, NewRowWaits
  <2>4. SetPlace(n, "scan", at + 1)
    BY <1>1, <2>1, NextPlace DEF Pcs
  <2> QED BY <1>1, <2>2, <2>3, <2>4, NoSaleHands
<1>7. CASE ProcessTransfer
  <2> DEFINE k == "kusama"
  <2>1. At(k, "transfer") /\ NextCall(k, "scan") /\ UNCHANGED asks
        /\ money' = Append(money, NewRow("deposit", Call(k).who, Call(k).amount))
    BY <1>7 DEF ProcessTransfer
  <2>2. scanner[k].pc = "scan" /\ Call(k).amount \in Nat
    BY <1>1, <2>1, AtCall DEF CallType
  <2>3. RowsGoOn
    BY <1>1, <2>1, <2>2, NewRowWaits
  <2>4. SetPlace(k, "scan", scanner[k].at + 1)
    BY <1>1, <2>1, NextPlace DEF Pcs
  <2> QED BY <1>1, <2>1, <2>2, <2>3, <2>4, NoSaleHands
<1>8. UNCHANGED money \/ Payout \/ ProcessWithdrawAllKSM \/ ProcessTransfer
  BY DEF Extract, ProcessAddAsk, RegisterAsk, ProcessCancelAsk, ProcessBuyKSM,
         MarkBought, tables
<1> QED BY <1>2, <1>3, <1>4, <1>5, <1>6, <1>7, <1>8 DEF Extract

\* The row that debits a seller is in hand from the beginning.
LEMMA DeductHands ==
  ASSUME SInv, HandsOK, NoneAhead', Deduct
  PROVE  HandsOK'
<1> DEFINE n == "unique"
           a == asks[scanner[n].ask]
           new == Len(money) + 1
           row == NewRow("deposit", a.seller, -a.price)
<1>1. /\ n \in Networks /\ IInv /\ SaleKnown /\ scanner[n].pc = "deduct" /\ money' = Append(money, row)
      /\ UNCHANGED <<chain, asks>> /\ new \in Nat
  BY DEF SInv, HandsOK, Networks, Deduct, outside, IInv, TablesOK
<1>2. a.seller = Call(n).seller /\ a.price = Call(n).amount /\ a.price \in Nat
  BY <1>1, AskInHand
<1>3. scanner' = WithRow(scanner, n, "start", new, "payout")
  BY DEF Deduct, WithRow
<1>4. /\ DOMAIN money' = DOMAIN money \cup {new}
      /\ money'[new] = row
      /\ \A i \in DOMAIN money : money'[i] = money[i]
  BY <1>1, RowIsAdded
<1>5. row.who = a.seller /\ row.amount = -a.price /\ row.status = "pending"
  BY DEF NewRow
<1> HIDE DEF row, new
<1>6. /\ SetPlace(n, "start", scanner[n].at) /\ scanner'[n].then = "payout"
      /\ scanner'[n].row = new /\ scanner'[n].ask = scanner[n].ask
  BY <1>1, <1>3, WithRowPlace DEF Pcs, Thens
<1>7. InSale(n) /\ scanner'[n].at = scanner[n].at
  BY <1>1, <1>6 DEF InSale, SetPlace
<1>8. SaleKnown'
  BY <1>1, <1>6, <1>7, SaleGoesOn
<1>9. RowKnown'
  <2>1. Call(n)' = Call(n)
    BY <1>1, <1>7 DEF Call
  <2> QED BY <1>2, <1>4, <1>5, <1>6, <2>1 DEF RowKnown
<1>10. NegativeRows'
  <2>1. \A i \in DOMAIN money : ~(money[i].sent = 0 /\ money[i].amount < 0)
    BY <1>1 DEF HandsOK, NegativeRows
  <2> QED BY <1>4, <1>6, <2>1 DEF NegativeRows, SetPlace
<1>11. InHand'
  <2>1. ASSUME NEW i \in DOMAIN money, money[i].sent = 0, money[i].status # "pending"
        PROVE  \E m \in Networks : scanner'[m].pc = "send" /\ scanner'[m].row = i
    <3>1. PICK m \in Networks : scanner[m].pc = "send" /\ scanner[m].row = i
      BY <2>1 DEF HandsOK, InHand
    <3>2. scanner'[m] = scanner[m]
      BY <1>1, <1>6, <3>1 DEF SetPlace
    <3> QED BY <3>1, <3>2
  <2> QED BY <1>4, <1>5, <2>1 DEF InHand
<1>12. NoneFailed'
  BY <1>6 DEF HandsOK, NoneFailed, SetPlace
<1> QED BY <1>8, <1>9, <1>10, <1>11, <1>12 DEF HandsOK

\* A row is taken up, the one that process n then has in hand.
LEMMA TakenUpHands ==
  ASSUME SInv, HandsOK, NoneAhead', UNCHANGED <<asks, chain>>, NEW n \in Networks,
         NEW r \in DOMAIN money, money' = WithStatus(money, {r}, "in_progress"),
         SetPlace(n, "send", scanner[n].at), scanner'[n].row = r, scanner[n].pc # "send",
         n = "unique" => SaleKnown' /\ RowKnown',
         scanner[n].pc = "start" => scanner[n].row = r /\ scanner'[n].then = scanner[n].then
  PROVE  HandsOK'
<1>1. /\ SameRows /\ \A i \in DOMAIN money : /\ money'[i].sent = money[i].sent
                                             /\ i # r => money'[i] = money[i]
      /\ \A m \in Networks \ {n} : scanner'[m] = scanner[m]
      /\ scanner'[n].pc = "send"
  <2>1. IInv /\ "in_progress" \in Statuses
    BY DEF SInv, Statuses
  <2>2. /\ SameRows /\ \A i \in DOMAIN money : /\ money'[i].sent = money[i].sent
                                               /\ i \notin {r} => money'[i] = money[i]
    BY <2>1, StatusKeepsSent
  <2> QED BY <2>2 DEF SetPlace
<1>2. /\ DOMAIN money' = DOMAIN money
      /\ \A i \in DOMAIN money : money'[i].who = money[i].who /\ money'[i].amount = money[i].amount
  BY <1>1 DEF SameRows
<1>3. SaleKnown' /\ RowKnown'
  <2>1. CASE n # "unique"
    <3>1. scanner'["unique"] = scanner["unique"]
      BY <1>1, <2>1 DEF Networks
    <3> QED BY <1>2, <3>1, HandRests
  <2> QED BY <2>1
<1>4. NegativeRows'
  <2>1. ASSUME NEW i \in DOMAIN money, money[i].sent = 0, money[i].amount < 0
        PROVE  LET s == scanner'["unique"] IN
               s.pc \in {"start", "send"} /\ s.then = "payout" /\ s.row = i
    <3>1. LET s == scanner["unique"] IN s.pc \in {"start", "send"} /\ s.then = "payout" /\ s.row = i
      BY <2>1 DEF HandsOK, NegativeRows
    <3>2. CASE n = "unique"
      BY <1>1, <3>1, <3>2
    <3>3. CASE n # "unique"
      <4>1. scanner'["unique"] = scanner["unique"]
        BY <1>1, <3>3 DEF Networks
      <4> QED BY <3>1, <4>1
    <3> QED BY <3>2, <3>3
  <2>2. ASSUME NEW i \in DOMAIN money', money'[i].sent = 0, money'[i].amount < 0
        PROVE  LET s == scanner'["unique"] IN
               s.pc \in {"start", "send"} /\ s.then = "payout" /\ s.row = i
    <3>1. i \in DOMAIN money /\ money[i].sent = 0 /\ money[i].amount < 0
      BY <1>1, <1>2, <2>2
    <3> QED BY <2>1, <3>1
  <2> QED BY <2>2 DEF NegativeRows
<1>5. InHand'
  <2>1. ASSUME NEW i \in DOMAIN money, money[i].sent = 0, money'[i].status # "pending"
        PROVE  \E m \in Networks : scanner'[m].pc = "send" /\ scanner'[m].row = i
    <3>1. CASE i = r
      BY <1>1, <3>1
    <3>2. CASE i # r
      <4>1. PICK m \in Networks : scanner[m].pc = "send" /\ scanner[m].row = i
        BY <1>1, <2>1, <3>2 DEF HandsOK, InHand
      <4>2. scanner'[m] = scanner[m]
        BY <1>1, <4>1
      <4> QED BY <4>1, <4>2
    <3> QED BY <3>1, <3>2
  <2> QED BY <1>1, <1>2, <2>1 DEF InHand
<1>6. NoneFailed'
  BY <1>1 DEF HandsOK, NoneFailed
<1> QED BY <1>3, <1>4, <1>5, <1>6 DEF HandsOK

LEMMA PickHands ==
  ASSUME SInv, HandsOK, NoneAhead', NEW n \in Networks, Pick(n)
  PROVE  HandsOK'
<1> DEFINE r == Min(Pending(n))
<1>1. UNCHANGED <<asks, chain>> /\ money' = WithStatus(money, {r}, "in_progress")
  BY DEF Pick, outside
<1>2. r \in DOMAIN money
  <2>1. money \in Seq(MoneyType)
    BY DEF SInv, IInv, TablesOK
  <2>2. Pending(n) \in SUBSET Nat
    BY <2>1 DEF Pending
  <2>3. r \in Pending(n)
    BY <2>2, MinIsMember DEF Pick
  <2> QED BY <2>3 DEF Pending
<1>3. /\ scanner[n].pc = "money" /\ SetPlace(n, "send", scanner[n].at)
      /\ scanner'[n].then = "money" /\ scanner'[n].row = r
  BY CarryPlaces DEF HandsOK
<1> HIDE DEF r
<1>4. n = "unique" => SaleKnown' /\ RowKnown'
  BY <1>3 DEF SetPlace, SaleKnown, RowKnown, InSale
<1> QED BY <1>1, <1>2, <1>3, <1>4, TakenUpHands

LEMMA StartHands ==
  ASSUME SInv, HandsOK, NoneAhead', Start
  PROVE  HandsOK'
<1> DEFINE n == "unique"
           r == scanner[n].row
<1>1. n \in Networks /\ IInv /\ SaleKnown /\ RowKnown
  BY DEF Networks, HandsOK, SInv
<1>2. /\ UNCHANGED <<asks, chain>> /\ money' = WithStatus(money, {r}, "in_progress")
      /\ scanner[n].pc = "start" /\ Go(n, "send")
  BY DEF Start, outside
<1>3. /\ SetPlace(n, "send", scanner[n].at) /\ scanner'[n].pc = "send"
      /\ scanner'[n].then = scanner[n].then /\ scanner'[n].row = r
      /\ scanner'[n].at = scanner[n].at /\ scanner'[n].ask = scanner[n].ask
  BY <1>1, <1>2, GoPlace, GoTo DEF Pcs
<1>4. r \in DOMAIN money
  BY <1>1, <1>2, CarriedRow
<1>5. SaleKnown'
  <2>1. InSale(n)' => InSale(n)
    BY <1>2, <1>3 DEF InSale, Carrying
  <2> QED BY <1>1, <1>2, <1>3, <2>1, SaleGoesOn
<1>6. RowKnown'
  <2>1. \A i \in DOMAIN money : money'[i].who = money[i].who /\ money'[i].amount = money[i].amount
    BY <1>1, <1>2, StatusKeepsSent DEF Statuses, SameRows
  <2>2. scanner[n].pc \in Carrying
    BY <1>2 DEF Carrying
  <2> QED BY <1>1, <1>2, <1>3, <2>1, <2>2, RowGoesOn
<1> HIDE DEF r
<1>7. scanner[n].pc # "send" /\ scanner[n].row = r
  BY <1>2 DEF r
<1> QED BY <1>1, <1>2, <1>3, <1>4, <1>5, <1>6, <1>7, TakenUpHands

\* The row in hand is carried out.
LEMMA SendHands ==
  ASSUME SInv, HandsOK, NoneAhead', NEW n \in Networks, Send(n)
  PROVE  HandsOK'
<1> DEFINE r == scanner[n].row
<1>1. IInv /\ SaleKnown /\ RowKnown
  BY DEF HandsOK, SInv
<1>2. /\ UNCHANGED <<asks, chain>> /\ money' = [money EXCEPT ![r].sent = @ + 1]
      /\ scanner[n].pc = "send" /\ Go(n, "sent")
  BY DEF Send
<1>3. /\ scanner'[n].pc = "sent" /\ \A m \in Networks \ {n} : scanner'[m] = scanner[m]
      /\ scanner'[n].then = scanner[n].then /\ scanner'[n].row = r
      /\ scanner'[n].at = scanner[n].at /\ scanner'[n].ask = scanner[n].ask
  BY <1>1, <1>2, GoPlace, GoTo DEF Pcs, SetPlace
<1>4. r \in DOMAIN money /\ money[r] \in MoneyType /\ money[r].sent = 0
  BY <1>1, <1>2, CarriedRow
<1>5. /\ DOMAIN money' = DOMAIN money /\ \A i \in DOMAIN money \ {r} : money'[i] = money[i]
      /\ money'[r] = [money[r] EXCEPT !.sent = @ + 1]
  BY <1>2, <1>4
<1>6. money'[r].who = money[r].who /\ money'[r].amount = money[r].amount /\ money'[r].sent = 1
  BY <1>4, <1>5 DEF MoneyType
<1>7. \A i \in DOMAIN money : money'[i].who = money[i].who /\ money'[i].amount = money[i].amount
  BY <1>5, <1>6
<1> HIDE DEF r
<1>8. SaleKnown' /\ RowKnown'
  <2>1. CASE n = "unique"
    <3>1. InSale(n)' => InSale(n)
      BY <1>2, <1>3 DEF InSale, Carrying
    <3>2. SaleKnown'
      BY <1>1, <1>2, <1>3, <2>1, <3>1, SaleGoesOn
    <3>3. scanner[n].pc \in Carrying /\ scanner'[n].row = scanner[n].row
      BY <1>2, <1>3 DEF Carrying, r
    <3>4. RowKnown'
      BY <1>1, <1>2, <1>3, <1>7, <2>1, <3>3, RowGoesOn
    <3> QED BY <3>2, <3>4
  <2>2. CASE n # "unique"
    <3>1. scanner'["unique"] = scanner["unique"]
      BY <1>3, <2>2 DEF Networks
    <3> QED BY <1>2, <1>7, <3>1, HandRests
  <2> QED BY <2>1, <2>2
<1>9. ASSUME NEW i \in DOMAIN money', money'[i].sent = 0
      PROVE  /\ money'[i].amount < 0 => LET s == scanner'["unique"] IN
                  s.pc \in {"start", "send"} /\ s.then = "payout" /\ s.row = i
             /\ money'[i].status # "pending" =>
                  \E m \in Networks : scanner'[m].pc = "send" /\ scanner'[m].row = i
  <2>1. i # r /\ i \in DOMAIN money /\ money'[i] = money[i]
    <3>1. i # r
      BY <1>6, <1>9
    <3> QED BY <1>5, <3>1
  <2>2. ASSUME NEW m \in Networks, scanner[m].row = i
        PROVE  scanner'[m] = scanner[m]
    BY <1>3, <2>1, <2>2 DEF r
  <2>3. ASSUME money[i].amount < 0
        PROVE  LET s == scanner'["unique"] IN
               s.pc \in {"start", "send"} /\ s.then = "payout" /\ s.row = i
    <3>1. LET s == scanner["unique"] IN s.pc \in {"start", "send"} /\ s.then = "payout" /\ s.row = i
      BY <1>9, <2>1, <2>3 DEF HandsOK, NegativeRows
    <3> QED BY <2>2, <3>1 DEF Networks
  <2>4. ASSUME money[i].status # "pending"
        PROVE  \E m \in Networks : scanner'[m].pc = "send" /\ scanner'[m].row = i
    <3>1. PICK m \in Networks : scanner[m].pc = "send" /\ scanner[m].row = i
      BY <1>9, <2>1, <2>4 DEF HandsOK, InHand
    <3> QED BY <2>2, <3>1
  <2> QED BY <2>1, <2>3, <2>4
<1>10. NegativeRows' /\ InHand'
  BY <1>9 DEF NegativeRows, InHand
<1>11. NoneFailed'
  BY <1>3 DEF HandsOK, NoneFailed
<1> QED BY <1>8, <1>10, <1>11 DEF HandsOK

LEMMA ReportHands ==
  ASSUME SInv, HandsOK, NoneAhead', NEW n \in Networks, Report(n)
  PROVE  HandsOK'
<1> DEFINE r == scanner[n].row
<1>1. IInv /\ SaleKnown /\ UNCHANGED <<asks, chain>>
  BY DEF HandsOK, SInv, Report, outside
<1>2. PICK s \in {"completed", "failed"} : money' = WithStatus(money, {r}, s)
  BY CarryPlaces DEF HandsOK
<1>3. scanner[n].pc = "sent" /\ SetPlace(n, scanner[n].then, scanner[n].at)
  BY CarryPlaces DEF HandsOK
<1>4. scanner[n].then \in {"money", "payout"} /\ scanner'[n].pc = scanner[n].then
      /\ scanner'[n].at = scanner[n].at /\ \A m \in Networks \ {n} : scanner'[m] = scanner[m]
  BY <1>1, <1>3, Places DEF ScannerType, SetPlace
<1>5. scanner'[n].ask = scanner[n].ask
  <2>1. Go(n, scanner[n].then) /\ scanner[n].then \in Pcs
    BY <1>4 DEF Report, Close, Pcs
  <2> QED BY <1>1, <2>1, GoTo
<1>6. r \in DOMAIN money /\ money[r].sent = 1
  BY <1>1, <1>3, CarriedRow
<1>7. RowsGoOn
  <2>1. /\ DOMAIN money' = DOMAIN money
        /\ \A i \in DOMAIN money :
             /\ money'[i].who = money[i].who /\ money'[i].amount = money[i].amount
             /\ money'[i].sent = money[i].sent
             /\ i \notin {r} => money'[i] = money[i]
    <3>1. s \in Statuses
      BY DEF Statuses
    <3> QED BY <1>1, <1>2, <3>1, StatusKeepsSent DEF SameRows
  <2> HIDE DEF r
  <2>2. ASSUME NEW i \in DOMAIN money
        PROVE  money'[i].status = money[i].status \/ money[i].sent # 0
    <3>1. CASE i = r
      BY <1>6, <3>1
    <3>2. CASE i # r
      <4>1. money'[i] = money[i]
        BY <2>1, <3>2
      <4> QED BY <4>1
    <3> QED BY <3>1, <3>2
  <2>3. ASSUME NEW i \in DOMAIN money
        PROVE  /\ money'[i].who = money[i].who /\ money'[i].amount = money[i].amount
               /\ money'[i].sent = money[i].sent
    BY <2>1
  <2> QED BY <2>1, <2>2, <2>3 DEF RowsGoOn
<1>8. n = "unique" => SaleKnown'
  <2>1. InSale(n)' => InSale(n)
    BY <1>3, <1>4 DEF InSale, Carrying
  <2> QED BY <1>1, <1>4, <1>5, <2>1, SaleGoesOn
<1>9. scanner[n].pc \notin {"start", "send"} /\ scanner'[n].pc \notin Carrying
  BY <1>3, <1>4 DEF Carrying
<1> QED BY <1>1, <1>4, <1>7, <1>8, <1>9, EmptyHands

\* Users and the chains take nothing out of a process's hand.
LEMMA OutsideHands ==
  ASSUME SInv, HandsOK, NoneAhead', [Next]_vars, UNCHANGED <<asks, money, scanner>>
  PROVE  HandsOK'
<1>1. \A i \in DOMAIN chain["unique"] : chain'["unique"][i] = chain["unique"][i]
  BY ChainsGrow DEF ChainGrows, Networks, SInv
<1>2. SaleKnown' /\ RowKnown'
  BY <1>1, HandRests
<1>3. NegativeRows' /\ InHand' /\ NoneFailed'
  BY DEF HandsOK, NegativeRows, InHand, NoneFailed
<1> QED BY <1>2, <1>3 DEF HandsOK

LEMMA NextKeepsHands ==
  ASSUME VInv, Calm, [Next]_vars
  PROVE  HandsOK'
<1>1. MInv /\ SInv /\ HandsOK
  BY DEF VInv, MInv
<1>2. NoneAhead'
  BY <1>1, AheadStays DEF HandsOK
<1>3. CASE UserStep \/ (\E n \in Networks : FinishBlock(n)) \/ UNCHANGED vars
  <2>1. UNCHANGED <<asks, money, scanner>>
    BY <1>3 DEF UserStep, CallAddAsk, CallCancelAsk, CallBuyKSM, CallTransfer,
       CallIgnored, CallWithdrawAllKSM, TransferToMarket, FinishBlock, tables, vars
  <2> QED BY <1>1, <1>2, <2>1, OutsideHands
<1>4. CASE Extract
  BY <1>1, <1>2, <1>4, ExtractHands, DeductHands
<1>5. CASE Start
  BY <1>1, <1>2, <1>5, StartHands
<1>6. ASSUME NEW n \in Networks,
             \/ Begin(n) \/ EmptyBlock(n) \/ EndOfBlock(n)
             \/ Pick(n) \/ NoMoreMoney(n) \/ Send(n) \/ Report(n)
      PROVE  HandsOK'
  BY <1>1, <1>2, <1>6, LoopHands, PickHands, SendHands, ReportHands
<1> QED BY <1>3, <1>4, <1>5, <1>6, CalmSteps

-----------------------------------------------------------------------------
(* The invariant holds.                                                    *)

LEMMA InitVInv == Init => VInv
<1> SUFFICES ASSUME Init PROVE VInv
  OBVIOUS
<1>1. MInv /\ IInv
  BY InitMInv DEF MInv, SInv
<1>2. /\ money = <<>> /\ market = 0 /\ \A n \in Networks : chain[n] = <<>> /\ scanned[n] = {}
      /\ \A n \in Networks : scanner[n].pc = "next"
      /\ received = [u \in Users |-> 0] /\ due = [u \in Users |-> 0]
      /\ balanceKSM = [u \in Users |-> 0]
  BY DEF Init, ContractInit, Started
<1>3. ~InSale("unique") /\ "unique" \in Networks
  BY <1>2 DEF InSale, Carrying, Networks
<1>4. HandsOK
  <2>1. SaleKnown /\ RowKnown
    BY <1>2, <1>3 DEF SaleKnown, RowKnown, InSale, Carrying
  <2>2. NegativeRows /\ InHand /\ NoneFailed /\ NoneAhead
    BY <1>2 DEF NegativeRows, InHand, NoneFailed, NoneAhead
  <2> QED BY <2>1, <2>2 DEF HandsOK
<1>5. ASSUME NEW k, NEW u
      PROVE  Rows(k, u) = 0 /\ \A n \in Networks : Calls(k, n, u) = 0
  <2>1. Rows(k, u) = 0
    <3>1. DOMAIN money = {}
      BY <1>2
    <3> QED BY <1>1, <3>1, RowsAre, SumRest DEF Rows
  <2>2. ASSUME NEW n \in Networks PROVE Calls(k, n, u) = 0
    <3>1. DOMAIN chain[n] = {}
      BY <1>2
    <3> QED BY <1>1, <3>1, CallsAre, SumRest DEF Calls
  <2> QED BY <2>1, <2>2
<1>6. \A k, u : Claims(k, u) = 0
  BY <1>5 DEF Claims, Networks
<1>7. Conserved
  BY <1>2, <1>6 DEF Conserved
<1>8. Sum(Users, balanceKSM) = 0
  BY <1>2, ContractAssumption, SumOfZeroes
<1>9. Covers
  BY <1>2, <1>6, <1>8 DEF Covers
<1>10. Backed
  <2>1. \A u : Calls("owes", "unique", u) = 0
    BY <1>3, <1>5
  <2> QED BY <1>2, <2>1 DEF Backed
<1> QED BY <1>1, <1>4, <1>7, <1>9, <1>10 DEF VInv, BooksOK

(* Whatever is between the two chains is accounted for: what each user     *)
(* deposited and earned, less what it spent, is in the contract, received, *)
(* or in a row or a call that the escrow still has to carry out; the       *)
(* account on Kusama covers all of that; and the contract holds the price  *)
(* of each sale that its seller has yet to be debited for.  Interleavings  *)
(* of users and both processes, and transfers of which the escrow does not *)
(* hear, change nothing of it.                                             *)
THEOREM BooksInvariant ==
  ASSUME Calm
  PROVE  Spec => []VInv
<1>1. Init => VInv
  BY InitVInv
<1>2. VInv /\ [Next]_vars => VInv'
  <2> SUFFICES ASSUME VInv, [Next]_vars PROVE VInv'
    OBVIOUS
  <2>1. MInv'
    BY CalmIsUndisturbed, NextKeepsMInv DEF VInv
  <2>2. IInv'
    BY <2>1 DEF MInv, SInv
  <2>3. BooksOK' /\ HandsOK'
    BY <2>2, NextKeepsBooks, NextKeepsHands
  <2> QED BY <2>1, <2>3 DEF VInv
<1> QED BY <1>1, <1>2, PTL DEF Spec

\* Nothing is on its way once both processes have caught up.
LEMMA NothingOnItsWay ==
  ASSUME VInv, Quiet, NEW u
  PROVE  Claims("brings", u) = 0
<1>1. IInv /\ HandsOK
  BY DEF VInv, MInv, SInv
<1>2. ASSUME NEW n \in Networks PROVE Calls("brings", n, u) = 0
  <2>1. /\ CaughtUp(n) /\ ~MidBlock(n) /\ scanner[n].current \in Nat /\ head[n] \in Nat
    BY <1>1, Places DEF Quiet, CaughtUp, MidBlock, InSale, Carrying, ScannerType, ChainsOK
  <2>2. ASSUME NEW i \in DOMAIN chain[n] PROVE i \notin ToBook(n)
    <3>1. chain[n][i].block \in 1 .. head[n] /\ scanner[n].current > head[n]
      BY <2>1 DEF CaughtUp, BlocksOf
    <3>2. ~(chain[n][i].block >= scanner[n].current)
      BY <2>1, <3>1
    <3> QED BY <2>1, <3>2 DEF ToBook
  <2>3. \A i \in DOMAIN chain[n] : Values("brings", n, u)[i] = 0
    BY <2>2 DEF Values, Value, Brings, Stage
  <2> QED BY <1>1, <2>3, CallsAre, SumOfZeroes DEF Calls
<1>3. Rows("brings", u) = 0
  <2>1. ASSUME NEW i \in DOMAIN money, money[i].sent = 0 PROVE FALSE
    <3>1. money[i].type \in {"deposit", "withdraw"}
      BY <1>1, RowsAre DEF MoneyType
    <3>2. money[i].status # "pending"
      BY <2>1, <3>1 DEF Quiet, Pending, Duty, Networks
    <3>3. PICK m \in Networks : scanner[m].pc = "send"
      BY <1>1, <2>1, <3>2 DEF HandsOK, InHand
    <3> QED BY <3>3 DEF Quiet, CaughtUp
  <2>2. \A i \in DOMAIN money : RowValues("brings", u)[i] = 0
    BY <2>1 DEF RowValues, RowValue
  <2> QED BY <1>1, <2>2, RowsAre, SumOfZeroes DEF Rows
<1> QED BY <1>2, <1>3 DEF Claims, Networks

(* Once both processes have carried out everything, each user has received *)
(* or has in the contract exactly what it deposited and sold for, less     *)
(* what it paid, to the last KSM, for any number of users, calls and       *)
(* transfers and any commission, and although the escrow may be told that  *)
(* a transfer failed which did not.                                        *)
THEOREM EverybodySettles ==
  ASSUME Calm
  PROVE  Spec => []Settled
<1>1. VInv => Settled
  <2>1. ASSUME VInv, Quiet, NEW u \in Users PROVE balanceKSM[u] + received[u] = due[u]
    <3>1. due[u] = balanceKSM[u] + received[u] + Claims("brings", u)
      BY <2>1 DEF VInv, BooksOK, Conserved
    <3>2. Claims("brings", u) = 0
      BY <2>1, NothingOnItsWay
    <3>3. balanceKSM[u] \in Nat /\ received[u] \in Nat
      BY <2>1 DEF VInv, MInv, SInv, IInv, Custody, ContractTypeOK, FundsOK
    <3> QED BY <3>1, <3>2, <3>3
  <2> QED BY <2>1 DEF Settled
<1> QED BY <1>1, BooksInvariant, PTL

\* What Solvent adds up is the sum over the rows that are not carried out.
RowAmounts == [i \in DOMAIN money |-> money[i].amount]

AddingUp(g) ==
  g = [S \in SUBSET Unsent |->
         IF S = {} THEN 0
         ELSE money[CHOOSE i \in S : TRUE].amount + g[S \ {CHOOSE i \in S : TRUE}]]

LEMMA AmountsAreSum ==
  ASSUME IInv
  PROVE  MapThenSumSet(LAMBDA i : money[i].amount, Unsent) = Sum(Unsent, RowAmounts)
<1>1. Unsent \subseteq DOMAIN money /\ IsFiniteSet(Unsent)
  <2>1. IsFiniteSet(DOMAIN money) /\ Unsent \subseteq DOMAIN money
    BY RowsAre DEF Unsent
  <2> QED BY <2>1, FS_Subset
<1>2. \A i \in Unsent : RowAmounts[i] = money[i].amount /\ RowAmounts[i] \in Int
  BY <1>1, RowsAre DEF RowAmounts, MoneyType
<1>3. \A S \in SUBSET Unsent : S # {} =>
        RowAmounts[CHOOSE i \in S : TRUE] = money[CHOOSE i \in S : TRUE].amount
  BY <1>2
<1>4. \A g : AddingUp(g) <=> Folding(Unsent, RowAmounts, g)
  BY <1>3 DEF AddingUp, Folding
<1>5. PICK f : Adds(Unsent, RowAmounts, f)
  BY <1>1, <1>2, AddsExists
<1>6. AddingUp(f)
  BY <1>4, <1>5, SumFolds
<1> DEFINE g == CHOOSE h : AddingUp(h)
<1>7. MapThenSumSet(LAMBDA i : money[i].amount, Unsent) = g[Unsent]
  BY DEF MapThenSumSet, MapThenFoldSet, AddingUp
<1>8. AddingUp(g)
  BY <1>6
<1> HIDE DEF g
<1>9. g[Unsent] = f[Unsent]
  BY <1>1, <1>4, <1>5, <1>8, OneSum
<1> QED BY <1>1, <1>5, <1>7, <1>9, SumIs

LEMMA RowsAddUp ==
  ASSUME SInv, InHand
  PROVE  Rows("needs", Nobody) = MapThenSumSet(LAMBDA i : money[i].amount, Unsent)
<1> DEFINE w == RowValues("needs", Nobody)
<1>1. IInv
  BY DEF SInv
<1>2. ASSUME NEW i \in DOMAIN money PROVE i \in Unsent <=> money[i].sent = 0
  <2>1. ASSUME money[i].sent = 0, money[i].status = "failed" PROVE FALSE
    <3>1. PICK m \in Networks : scanner[m].pc = "send" /\ scanner[m].row = i
      BY <2>1 DEF InHand
    <3> QED BY <1>1, <2>1, <3>1, Places DEF CarryOK
  <2> QED BY <2>1 DEF Unsent
<1>3. /\ Unsent \subseteq DOMAIN money
      /\ \A i \in DOMAIN money \ Unsent : w[i] = 0
      /\ \A i \in Unsent : w[i] = RowAmounts[i]
  BY <1>2 DEF Unsent, RowValues, RowValue, RowAmounts
<1>4. IsFiniteSet(DOMAIN money) /\ \A i \in DOMAIN money : w[i] \in Int
  BY <1>1, RowsAre
<1> HIDE DEF w
<1>5. Sum(Unsent, w) = Sum(DOMAIN money, w)
  BY <1>3, <1>4, SumOfPart
<1>6. Sum(Unsent, RowAmounts) = Sum(Unsent, w)
  <2>1. IsFiniteSet(Unsent) /\ \A i \in Unsent : w[i] \in Int /\ RowAmounts[i] = w[i]
    BY <1>3, <1>4, FS_Subset
  <2> QED BY <2>1, SumStays
<1>7. Sum(DOMAIN money, w) = Rows("needs", Nobody)
  BY DEF Rows, w
<1> QED BY <1>1, <1>5, <1>6, <1>7, AmountsAreSum

(* The escrow's account on Kusama covers, at every moment, the balances in *)
(* the contract and every transfer that is registered: what was sent away  *)
(* is never promised again, in either direction.  Therefore no transfer is *)
(* refused: what a process takes up it can carry out, and the contract     *)
(* still has the price of a sale when the seller is debited for it.        *)
THEOREM MarketStaysSolvent ==
  ASSUME Calm
  PROVE  Spec => []Solvent
<1>1. VInv => AccountCovers
  <2> SUFFICES ASSUME VInv PROVE AccountCovers
    OBVIOUS
  <2>1. SInv /\ IInv /\ InHand
    BY DEF VInv, MInv, SInv, HandsOK
  <2>2. market >= Sum(Users, balanceKSM) + Claims("needs", Nobody)
    BY DEF VInv, BooksOK, Covers
  <2>3. \A n \in Networks : Calls("needs", n, Nobody) \in Nat
    BY <2>1, CallsAre
  <2>4. Rows("needs", Nobody) \in Int /\ market \in Int
    BY <2>1, RowsAre DEF IInv, FundsOK
  <2>5. Sum(Users, balanceKSM) \in Int
    <3>1. \A u \in Users : balanceKSM[u] \in Int
      BY <2>1 DEF IInv, Custody, ContractTypeOK
    <3> QED BY <3>1, ContractAssumption, SumRest
  <2>6. TotalKSM = Sum(Users, balanceKSM)
    BY DEF TotalKSM, Sum
  <2>7. Rows("needs", Nobody) = MapThenSumSet(LAMBDA i : money[i].amount, Unsent)
    BY <2>1, RowsAddUp
  <2>8. market >= Sum(Users, balanceKSM) + Rows("needs", Nobody)
    BY <2>2, <2>3, <2>4, <2>5 DEF Claims, Networks
  <2> QED BY <2>6, <2>7, <2>8 DEF AccountCovers
<1>2. VInv => SendsCovered
  BY RowIsCovered DEF SendsCovered, VInv, MInv
<1>3. VInv => Solvent
  BY <1>1, <1>2 DEF Solvent
<1> QED BY <1>3, BooksInvariant, PTL

-----------------------------------------------------------------------------
(* What is on its way to a user.                                           *)

\* On Kusama only transfers are looked at.
OnlyTransfers == \A i \in DOMAIN chain["kusama"] : chain["kusama"][i].method = "transfer"

LEMMA TransfersOnly == Spec => []OnlyTransfers
<1> DEFINE k == "kusama"
<1>1. Init => OnlyTransfers
  BY DEF Init, OnlyTransfers, Networks
<1>2. ASSUME IInv, OnlyTransfers, [Next]_vars PROVE OnlyTransfers'
  <2>1. ASSUME NEW n \in Networks, NEW method, NEW t, NEW u, NEW seller, NEW amount,
               Log(n, method, t, u, seller, amount), n = k => method = "transfer"
        PROVE  OnlyTransfers'
    <3> DEFINE c == [block |-> head[n] + 1, method |-> method, token |-> t, who |-> u,
                     seller |-> seller, amount |-> amount]
    <3>1. /\ DOMAIN chain'[n] = DOMAIN chain[n] \cup {Len(chain[n]) + 1}
          /\ chain'[n][Len(chain[n]) + 1] = c
          /\ \A i \in DOMAIN chain[n] : chain'[n][i] = chain[n][i]
          /\ \A m \in Networks \ {n} : chain'[m] = chain[m]
      BY <1>2, <2>1, Logged
    <3>2. c.method = method
      OBVIOUS
    <3> HIDE DEF c
    <3> QED BY <1>2, <2>1, <3>1, <3>2 DEF OnlyTransfers, Networks
  <2>2. CASE UNCHANGED chain
    BY <1>2, <2>2 DEF OnlyTransfers
  <2>3. CASE UserStep
    <3>1. ASSUME NEW u \in Users, NEW t \in Tokens, NEW v \in Users \cup {Contract},
                 CallTransfer(u, t, v)
          PROVE  UNCHANGED chain
      BY <3>1 DEF CallTransfer
    <3>2. ASSUME NEW u \in Users, NEW t \in Tokens, CallIgnored(u, t)
          PROVE  UNCHANGED chain
      BY <3>2 DEF CallIgnored
    <3> QED BY <2>1, <2>2, <2>3, <3>1, <3>2 DEF UserStep, CallAddAsk, CallCancelAsk, CallBuyKSM,
               CallWithdrawAllKSM, TransferToMarket, Networks
  <2>4. CASE ~UserStep
    BY <1>2, <2>2, <2>4 DEF Next, FinishBlock, Begin, EmptyBlock, EndOfBlock, ScanFails, Crash,
       Carry, Pick, NoMoreMoney, Send, SendFails, Report, Extract, ProcessAddAsk, RegisterAsk,
       ProcessCancelAsk, ProcessBuyKSM, MarkBought, Deduct, Payout, ProcessWithdrawAllKSM,
       ProcessTransfer, Start, AdminStep, MassCancelFind, MassCancelUpdate,
       ToggleCollection, ShareBlock, outside, vars
  <2> QED BY <2>3, <2>4
<1> QED BY <1>1, <1>2, EscrowInvariant, PTL DEF Spec

\* A sale takes no more from its seller than the contract holds for it.
LEMMA CallsBalance ==
  ASSUME IInv, NEW n \in Networks, NEW u
  PROVE  LET s == Calls("brings", n, u) + Calls("owes", n, u) IN
         /\ s >= 0
         /\ \A i \in DOMAIN chain[n] : s >= Values("brings", n, u)[i] + Values("owes", n, u)[i]
<1> DEFINE D == DOMAIN chain[n]
           w == Values("brings", n, u)
           v == Values("owes", n, u)
           z == [i \in D |-> w[i] + v[i]]
<1>1. /\ IsFiniteSet(D) /\ \A i \in D : /\ w[i] \in Int /\ v[i] \in Int
                                         /\ chain[n][i] \in CallType
      /\ Calls("brings", n, u) = Sum(D, w) /\ Calls("owes", n, u) = Sum(D, v)
  BY CallsAre DEF Calls
<1>2. ASSUME NEW i \in D PROVE w[i] + v[i] >= 0
  <2> DEFINE c == chain[n][i]
             p == PriceWithoutCommission(c.amount)
             s == Stage(n, i)
  <2>1. w[i] = Brings(c, s, u) /\ v[i] = Owes(c, s, u)
    BY DEF Values, Value
  <2>2. c.amount \in Nat
    BY <1>1 DEF CallType
  <2>3. p \in Nat
    BY <2>2, PriceType
  <2>4. s \in {"done", "left", "deducted", "taken"}
    BY DEF Stage
  <2>5. PriceWithoutCommission(c.amount) = p
    OBVIOUS
  <2> HIDE DEF p, s, c
  <2>6. Brings(c, s, u) + Owes(c, s, u) >= 0
    <3>1. CASE s = "done"
      BY <3>1 DEF Brings, Owes
    <3>2. CASE s # "done" /\ c.method \in {"withdrawAllKSM", "transfer"} /\ c.who = u
      BY <2>2, <3>2 DEF Brings, Owes
    <3>3. CASE s # "done" /\ c.method = "buyKSM" /\ c.seller = u
      BY <2>2, <2>3, <2>4, <2>5, <3>3 DEF Brings, Owes
    <3> QED BY <3>1, <3>2, <3>3 DEF Brings, Owes
  <2> QED BY <2>1, <2>6
<1>3. \A i \in D : z[i] = w[i] + v[i]
  OBVIOUS
<1> HIDE DEF D, w, v, z
<1>4. \A i \in D : z[i] \in Nat
  BY <1>1, <1>2, <1>3
<1>5. Sum(D, z) = Sum(D, w) + Sum(D, v)
  BY <1>1, <1>3, SumAdds
<1>6. Sum(D, z) \in Nat /\ \A i \in D : Sum(D, z) >= z[i]
  BY <1>1, <1>4, SumOfNats
<1>7. Sum(D, w) + Sum(D, v) >= 0 /\ \A i \in D : Sum(D, w) + Sum(D, v) >= w[i] + v[i]
  BY <1>3, <1>5, <1>6
<1> QED BY <1>1, <1>7 DEF D, w, v

LEMMA RowsBalance ==
  ASSUME SInv, HandsOK, NEW u \in Users
  PROVE  Rows("brings", u) + (Calls("brings", "unique", u) + Calls("owes", "unique", u)) >= 0
<1> DEFINE D == DOMAIN money
           w == RowValues("brings", u)
           n == "unique"
           s == Calls("brings", n, u) + Calls("owes", n, u)
<1>1. /\ IInv /\ n \in Networks /\ IsFiniteSet(D)
      /\ \A i \in D : money[i] \in MoneyType /\ w[i] \in Int
      /\ Rows("brings", u) = Sum(D, w)
  BY RowsAre DEF SInv, Networks, Rows
<1>2. \A i \in D : w[i] = IF money[i].sent = 0 /\ money[i].who = u THEN money[i].amount ELSE 0
  BY DEF RowValues, RowValue
<1>3. s \in Int /\ s >= 0 /\ \A j \in DOMAIN chain[n] :
                                s >= Values("brings", n, u)[j] + Values("owes", n, u)[j]
  <2>1. Calls("brings", n, u) \in Int /\ Calls("owes", n, u) \in Int
    BY <1>1, CallsAre
  <2> QED BY <1>1, <2>1, CallsBalance
<1> HIDE DEF s
<1>4. CASE \A i \in D : w[i] \in Nat
  <2> HIDE DEF w, D
  <2>1. Sum(D, w) \in Nat
    BY <1>1, <1>4, SumOfNats
  <2> QED BY <1>1, <1>3, <2>1 DEF s
<1>5. ASSUME NEW r \in D, w[r] \notin Nat PROVE Sum(D, w) + s >= 0
  <2>1. money[r].sent = 0 /\ w[r] = money[r].amount /\ money[r].amount < 0 /\ money[r].who = u
    BY <1>1, <1>2, <1>5
  <2>2. PICK j \in DOMAIN chain[n] :
          LET c == chain[n][j] IN
          /\ c \in CallType /\ c.method = "buyKSM" /\ Stage(n, j) = "deducted"
          /\ money[r].who = c.seller /\ money[r].amount = -c.amount
    BY <2>1, DebitOfSale
  <2> DEFINE c == chain[n][j]
             p == PriceWithoutCommission(c.amount)
  <2>3. c.amount \in Nat /\ w[r] = -c.amount
    BY <2>1, <2>2 DEF CallType
  <2>4. p \in Nat
    BY <2>3, PriceType
  <2>5. Values("brings", n, u)[j] = p /\ Values("owes", n, u)[j] = c.amount
    <3>1. Values("brings", n, u)[j] = p - 0
      BY <2>1, <2>2 DEF Values, Value, Brings
    <3> QED BY <2>1, <2>2, <2>4, <3>1 DEF Values, Value, Owes
  <2>6. s >= p + c.amount
    BY <1>3, <2>5
  <2>7. \A x \in D \ {r} : w[x] \in Nat
    <3>1. ASSUME NEW x \in D, w[x] \notin Nat PROVE x = r
      <4>1. money[x].sent = 0 /\ money[x].amount < 0
        BY <1>1, <1>2, <3>1
      <4> QED BY <2>1, <4>1, DebitOfSale
    <3> QED BY <3>1
  <2> HIDE DEF w, D, c, p
  <2>8. Sum(D, w) = w[r] + Sum(D \ {r}, w)
    BY <1>1, SumRest
  <2>9. Sum(D \ {r}, w) \in Nat
    BY <1>1, <2>7, FS_Subset, SumOfNats
  <2> QED BY <1>3, <2>3, <2>4, <2>6, <2>8, <2>9
<1> QED BY <1>1, <1>4, <1>5 DEF s

(* At no moment has anybody received more than is due to it, although the  *)
(* contract credits a seller before the escrow takes the commission off,   *)
(* and money is on its way in both directions at once.                     *)
THEOREM NobodyIsOverpaid ==
  ASSUME Calm
  PROVE  Spec => []NeverOverpaid
<1>1. VInv /\ OnlyTransfers => NeverOverpaid
  <2> SUFFICES ASSUME VInv, OnlyTransfers, NEW u \in Users PROVE received[u] <= due[u]
    BY DEF NeverOverpaid
  <2> DEFINE a == Calls("brings", "unique", u)
             o == Calls("owes", "unique", u)
             k == Calls("brings", "kusama", u)
             r == Rows("brings", u)
  <2>1. SInv /\ IInv /\ HandsOK
    BY DEF VInv, MInv, SInv
  <2>2. due[u] = balanceKSM[u] + received[u] + (r + a + k) /\ balanceKSM[u] >= o
    BY DEF VInv, BooksOK, Conserved, Backed, Claims
  <2>3. balanceKSM[u] \in Nat /\ received[u] \in Nat /\ due[u] \in Int
    BY <2>1 DEF IInv, Custody, ContractTypeOK, FundsOK
  <2>4. r \in Int /\ a \in Int /\ o \in Int /\ k \in Int
    BY <2>1, RowsAre, CallsAre DEF Networks
  <2>5. r + (a + o) >= 0
    BY <2>1, RowsBalance
  <2>6. k >= 0
    <3>1. \A i \in DOMAIN chain["kusama"] : Values("owes", "kusama", u)[i] = 0
      BY DEF OnlyTransfers, Values, Value, Owes
    <3>2. Calls("owes", "kusama", u) = 0
      BY <2>1, <3>1, CallsAre, SumOfZeroes DEF Calls, Networks
    <3>3. k + Calls("owes", "kusama", u) >= 0
      BY <2>1, CallsBalance DEF Networks
    <3> HIDE DEF k
    <3> QED BY <2>4, <3>2, <3>3
  <2> HIDE DEF a, o, k, r
  <2> QED BY <2>2, <2>3, <2>4, <2>5, <2>6
<1> QED BY <1>1, BooksInvariant, TransfersOnly, PTL

=============================================================================
