---------------------------- MODULE EscrowProofs ----------------------------
(***************************************************************************)
(* What holds of the escrow for any users, tokens, prices, bounds and      *)
(* failures: the invariant IInv ties the place of each process to the rows *)
(* it works on, and SInv to the calls of its chain; each step is shown to  *)
(* keep them.                                                              *)
(***************************************************************************)
EXTENDS Escrow, MarketContractProofs

-----------------------------------------------------------------------------
(* Numbers and sequences.                                                  *)

LEMMA MinIsMember ==
  ASSUME NEW S \in SUBSET Nat, S # {}
  PROVE  Min(S) \in S
  BY LeastExists DEF Min

LEMMA MaxIsMember ==
  ASSUME NEW b \in Nat, NEW S \in SUBSET (0 .. b), S # {}
  PROVE  Max(S) \in S
<1> DEFINE T == {b - x : x \in S}
<1>1. T \in SUBSET Nat /\ T # {}
  <2>1. \A x \in S : x \in Int /\ b - x \in Nat
    OBVIOUS
  <2>2. QED
    BY <2>1
<1>2. PICK m \in T : \A y \in T : m <= y
  BY <1>1, LeastExists
<1>3. PICK x \in S : m = b - x
  OBVIOUS
<1>4. ASSUME NEW y \in S PROVE x >= y
  <2>1. m <= b - y
    BY <1>2
  <2>2. QED
    BY <1>3, <2>1
<1>5. QED
  BY <1>4 DEF Max

LEMMA PriceType ==
  ASSUME NEW p \in Nat
  PROVE  PriceWithoutCommission(p) \in Nat
  BY EscrowAssumption DEF PriceWithoutCommission

LEMMA AppendKeeps ==
  ASSUME NEW S, NEW s \in Seq(S), NEW e \in S
  PROVE  /\ Append(s, e) \in Seq(S)
         /\ DOMAIN s \subseteq DOMAIN Append(s, e)
         /\ DOMAIN Append(s, e) = DOMAIN s \cup {Len(s) + 1}
         /\ Len(s) + 1 \notin DOMAIN s
         /\ Append(s, e)[Len(s) + 1] = e
         /\ \A i \in DOMAIN s : Append(s, e)[i] = s[i]
  OBVIOUS

-----------------------------------------------------------------------------
(* An update of one field of one process's place changes nothing else.     *)

Pcs == {"next", "scan", "register", "bought", "deduct", "payout",
        "money", "start", "send", "sent", "failed"}

Scanners == [Networks -> ScannerType]

Thens == {"money", "payout"}

LEMMA SetPc ==
  ASSUME NEW f \in Scanners, NEW n \in Networks, NEW v \in Pcs
  PROVE  LET g == [f EXCEPT ![n].pc = v] IN
         /\ g \in Scanners
         /\ g[n].pc = v
         /\ g[n].current = f[n].current /\ g[n].block = f[n].block
         /\ g[n].at = f[n].at /\ g[n].managed = f[n].managed
         /\ g[n].ask = f[n].ask /\ g[n].row = f[n].row /\ g[n].then = f[n].then
         /\ \A m \in Networks \ {n} : g[m] = f[m]
  BY DEF Scanners, ScannerType, Pcs

LEMMA SetCurrent ==
  ASSUME NEW f \in Scanners, NEW n \in Networks, NEW v \in Nat
  PROVE  LET g == [f EXCEPT ![n].current = v] IN
         /\ g \in Scanners
         /\ g[n].current = v
         /\ g[n].pc = f[n].pc /\ g[n].block = f[n].block
         /\ g[n].at = f[n].at /\ g[n].managed = f[n].managed
         /\ g[n].ask = f[n].ask /\ g[n].row = f[n].row /\ g[n].then = f[n].then
         /\ \A m \in Networks \ {n} : g[m] = f[m]
  BY DEF Scanners, ScannerType

LEMMA SetBlock ==
  ASSUME NEW f \in Scanners, NEW n \in Networks, NEW v \in Nat
  PROVE  LET g == [f EXCEPT ![n].block = v] IN
         /\ g \in Scanners
         /\ g[n].block = v
         /\ g[n].pc = f[n].pc /\ g[n].current = f[n].current
         /\ g[n].at = f[n].at /\ g[n].managed = f[n].managed
         /\ g[n].ask = f[n].ask /\ g[n].row = f[n].row /\ g[n].then = f[n].then
         /\ \A m \in Networks \ {n} : g[m] = f[m]
  BY DEF Scanners, ScannerType

LEMMA SetAt ==
  ASSUME NEW f \in Scanners, NEW n \in Networks, NEW v \in Nat
  PROVE  LET g == [f EXCEPT ![n].at = v] IN
         /\ g \in Scanners
         /\ g[n].at = v
         /\ g[n].pc = f[n].pc /\ g[n].current = f[n].current
         /\ g[n].block = f[n].block /\ g[n].managed = f[n].managed
         /\ g[n].ask = f[n].ask /\ g[n].row = f[n].row /\ g[n].then = f[n].then
         /\ \A m \in Networks \ {n} : g[m] = f[m]
  BY DEF Scanners, ScannerType

LEMMA SetManaged ==
  ASSUME NEW f \in Scanners, NEW n \in Networks, NEW v \in BOOLEAN
  PROVE  LET g == [f EXCEPT ![n].managed = v] IN
         /\ g \in Scanners
         /\ g[n].managed = v
         /\ g[n].pc = f[n].pc /\ g[n].current = f[n].current
         /\ g[n].block = f[n].block /\ g[n].at = f[n].at
         /\ g[n].ask = f[n].ask /\ g[n].row = f[n].row /\ g[n].then = f[n].then
         /\ \A m \in Networks \ {n} : g[m] = f[m]
  BY DEF Scanners, ScannerType

LEMMA SetAsk ==
  ASSUME NEW f \in Scanners, NEW n \in Networks, NEW v \in Nat
  PROVE  LET g == [f EXCEPT ![n].ask = v] IN
         /\ g \in Scanners
         /\ g[n].ask = v
         /\ g[n].pc = f[n].pc /\ g[n].current = f[n].current
         /\ g[n].block = f[n].block /\ g[n].at = f[n].at
         /\ g[n].managed = f[n].managed /\ g[n].row = f[n].row /\ g[n].then = f[n].then
         /\ \A m \in Networks \ {n} : g[m] = f[m]
  BY DEF Scanners, ScannerType

LEMMA SetRow ==
  ASSUME NEW f \in Scanners, NEW n \in Networks, NEW v \in Nat
  PROVE  LET g == [f EXCEPT ![n].row = v] IN
         /\ g \in Scanners
         /\ g[n].row = v
         /\ g[n].pc = f[n].pc /\ g[n].current = f[n].current
         /\ g[n].block = f[n].block /\ g[n].at = f[n].at
         /\ g[n].managed = f[n].managed /\ g[n].ask = f[n].ask /\ g[n].then = f[n].then
         /\ \A m \in Networks \ {n} : g[m] = f[m]
  BY DEF Scanners, ScannerType

LEMMA SetThen ==
  ASSUME NEW f \in Scanners, NEW n \in Networks, NEW v \in Thens
  PROVE  LET g == [f EXCEPT ![n].then = v] IN
         /\ g \in Scanners
         /\ g[n].then = v
         /\ g[n].pc = f[n].pc /\ g[n].current = f[n].current
         /\ g[n].block = f[n].block /\ g[n].at = f[n].at
         /\ g[n].managed = f[n].managed /\ g[n].ask = f[n].ask /\ g[n].row = f[n].row
         /\ \A m \in Networks \ {n} : g[m] = f[m]
  BY DEF Scanners, ScannerType, Thens



\* The places of all processes after an update of several fields.
WithAsk(f, n, v, i) == [f EXCEPT ![n].pc = v, ![n].ask = i]
WithRow(f, n, v, i, t) == [f EXCEPT ![n].pc = v, ![n].row = i, ![n].then = t]

LEMMA SetPcAndAsk ==
  ASSUME NEW f \in Scanners, NEW n \in Networks, NEW v \in Pcs, NEW i \in Nat
  PROVE  LET g == WithAsk(f, n, v, i) IN
         /\ g \in Scanners
         /\ g[n].pc = v /\ g[n].ask = i
         /\ g[n].block = f[n].block
         /\ \A m \in Networks \ {n} : g[m] = f[m]
<1> DEFINE s1 == [f EXCEPT ![n].pc = v]
           s2 == [s1 EXCEPT ![n].ask = i]
<1>1. WithAsk(f, n, v, i) = s2
  BY DEF WithAsk, Scanners, ScannerType
<1>2. /\ s1 \in Scanners /\ s1[n].pc = v /\ s1[n].block = f[n].block
      /\ \A m \in Networks \ {n} : s1[m] = f[m]
  BY SetPc
<1> HIDE DEF s1
<1>3. /\ s2 \in Scanners /\ s2[n].pc = v /\ s2[n].ask = i /\ s2[n].block = f[n].block
      /\ \A m \in Networks \ {n} : s2[m] = f[m]
  BY <1>2, SetAsk
<1> HIDE DEF s2
<1>4. QED
  BY <1>1, <1>3

LEMMA SetCarry ==
  ASSUME NEW f \in Scanners, NEW n \in Networks, NEW v \in Pcs, NEW i \in Nat, NEW t \in Thens
  PROVE  LET g == WithRow(f, n, v, i, t) IN
         /\ g \in Scanners
         /\ g[n].pc = v /\ g[n].row = i /\ g[n].then = t
         /\ g[n].block = f[n].block /\ g[n].ask = f[n].ask
         /\ \A m \in Networks \ {n} : g[m] = f[m]
<1> DEFINE s1 == [f EXCEPT ![n].pc = v]
           s2 == [s1 EXCEPT ![n].row = i]
           s3 == [s2 EXCEPT ![n].then = t]
<1>1. WithRow(f, n, v, i, t) = s3
  BY DEF WithRow, Scanners, ScannerType
<1>2. /\ s1 \in Scanners /\ s1[n].pc = v
      /\ s1[n].block = f[n].block /\ s1[n].ask = f[n].ask
      /\ \A m \in Networks \ {n} : s1[m] = f[m]
  BY SetPc
<1> HIDE DEF s1
<1>3. /\ s2 \in Scanners /\ s2[n].pc = v /\ s2[n].row = i
      /\ s2[n].block = f[n].block /\ s2[n].ask = f[n].ask
      /\ \A m \in Networks \ {n} : s2[m] = f[m]
  BY <1>2, SetRow
<1> HIDE DEF s2
<1>4. /\ s3 \in Scanners /\ s3[n].pc = v /\ s3[n].row = i /\ s3[n].then = t
      /\ s3[n].block = f[n].block /\ s3[n].ask = f[n].ask
      /\ \A m \in Networks \ {n} : s3[m] = f[m]
  BY <1>3, SetThen
<1> HIDE DEF s3
<1>5. QED
  BY <1>1, <1>4
-----------------------------------------------------------------------------
(* Updates of the rows of money_transfer.                                  *)

Statuses == {"pending", "in_progress", "completed", "failed"}

LEMMA RowStatus ==
  ASSUME NEW r \in MoneyType, NEW s \in Statuses
  PROVE  [r EXCEPT !.status = s] \in MoneyType
  BY DEF MoneyType, Statuses

LEMMA WithStatusKeepsMoney ==
  ASSUME money \in Seq(MoneyType), NEW I, NEW s \in Statuses
  PROVE  /\ WithStatus(money, I, s) \in Seq(MoneyType)
         /\ DOMAIN WithStatus(money, I, s) = DOMAIN money
         /\ \A i \in DOMAIN money :
              /\ i \notin I => WithStatus(money, I, s)[i] = money[i]
              /\ i \in I => WithStatus(money, I, s)[i] = [money[i] EXCEPT !.status = s]
<1> DEFINE rows == WithStatus(money, I, s)
           row(i) == IF i \in I THEN [money[i] EXCEPT !.status = s] ELSE money[i]
<1>1. DOMAIN money = 1 .. Len(money) /\ Len(money) \in Nat
  OBVIOUS
<1>2. \A i \in DOMAIN money : row(i) \in MoneyType
  <2>1. \A i \in DOMAIN money : money[i] \in MoneyType
    BY <1>1
  <2>2. QED
    BY <2>1, RowStatus
<1>3. rows = [i \in 1 .. Len(money) |-> row(i)]
  BY <1>1 DEF WithStatus
<1> HIDE DEF rows
<1>4. rows \in Seq(MoneyType)
  <2> HIDE DEF row
  <2>1. QED
    BY <1>1, <1>2, <1>3
<1>5. QED
  BY <1>1, <1>3, <1>4 DEF rows
-----------------------------------------------------------------------------
(* The inductive invariant.                                                *)

TradeType == [buyer : Users, seller : Users, originPrice : Nat]

\* Only the token of a call that offers or sells one is known to be a token.
ChainsOK ==
  /\ chain \in [Networks -> Seq(CallType)]
  /\ head \in [Networks -> Nat]
  /\ \A i \in DOMAIN chain["unique"] :
       chain["unique"][i].method = "addAsk" => chain["unique"][i].token \in Tokens

FundsOK == market \in Nat /\ received \in [Users -> Nat] /\ due \in [Users -> Int]

\* Only blocks that are finished are marked as scanned.
TablesOK ==
  /\ asks \in Seq(AskType) /\ trades \in Seq(TradeType) /\ money \in Seq(MoneyType)
  /\ scanned \in [Networks -> SUBSET Nat]
  /\ \A n \in Networks : scanned[n] \subseteq 0 .. head[n]
  /\ managed \in BOOLEAN /\ removal \subseteq DOMAIN asks
  /\ restarts \in 0 .. MaxRestarts

\* A process remembers an ask until the sale of its block is booked.
PlaceOK(n) ==
  /\ scanner[n].block <= head[n]
  /\ scanner[n].pc \in {"bought", "deduct", "payout"} \/ scanner[n].then = "payout" =>
       scanner[n].ask \in DOMAIN asks
  /\ scanner[n].pc = "register" =>
       /\ n = "unique" /\ scanner[n].at \in DOMAIN chain[n]
       /\ Call(n).method = "addAsk"

PlacesOK == scanner \in Scanners /\ \A n \in Networks : PlaceOK(n)

\* What each status says of a row; who gets money from Kusama gets no debt.
RowOK(row) ==
  /\ row.sent <= 1
  /\ row.status = "pending" => row.sent = 0
  /\ row.status = "completed" => row.sent = 1
  /\ row.type = "withdraw" => row.amount >= 0

RowsOK == \A i \in DOMAIN money : RowOK(money[i])

\* The row a process carries is one of its own duty, of which it knows what was done.
CarryOK(n) ==
  scanner[n].pc \in {"start", "send", "sent", "failed"} =>
    /\ scanner[n].row \in DOMAIN money
    /\ money[scanner[n].row].type = Duty(n)
    /\ money[scanner[n].row].status =
         IF scanner[n].pc = "start" THEN "pending" ELSE "in_progress"
    /\ money[scanner[n].row].sent = IF scanner[n].pc = "sent" THEN 1 ELSE 0

CarriesOK == \A n \in Networks : CarryOK(n)

IInv == /\ Custody /\ ChainsOK /\ FundsOK /\ TablesOK
        /\ PlacesOK /\ RowsOK /\ CarriesOK
-----------------------------------------------------------------------------
(* What a step has to show.                                                *)

\* Nothing of a row but its own process's duty is written.
OnlyOwnRows(n) ==
  \A i \in DOMAIN money :
    /\ i \in DOMAIN money'
    /\ \/ money'[i] = money[i]
       \/ money[i].type = Duty(n) /\ money'[i].type = Duty(n)

OnlyOwnPlace(n) ==
  /\ scanner' \in Scanners
  /\ \A m \in Networks \ {n} : scanner'[m] = scanner[m]

\* A step of a process that reads no chain but its own.
LEMMA ProcessKeeps ==
  ASSUME IInv, NEW n \in Networks, UNCHANGED <<chain, head>>,
         Custody', FundsOK', TablesOK', RowsOK',
         DOMAIN asks \subseteq DOMAIN asks', OnlyOwnRows(n), OnlyOwnPlace(n),
         PlaceOK(n)', CarryOK(n)'
  PROVE  IInv'
<1>1. ASSUME NEW m \in Networks \ {n}
      PROVE  PlaceOK(m)' /\ CarryOK(m)'
  <2>1. PlaceOK(m) /\ CarryOK(m) /\ scanner'[m] = scanner[m]
    BY DEF IInv, PlacesOK, CarriesOK, OnlyOwnPlace
  <2>2. PlaceOK(m)'
    BY <2>1 DEF PlaceOK, Call
  <2>3. Duty(m) # Duty(n)
    BY DEF Duty, Networks
  <2>4. CarryOK(m)'
    BY <2>1, <2>3 DEF CarryOK, OnlyOwnRows, Duty
  <2>5. QED
    BY <2>2, <2>4
<1>2. PlacesOK' /\ CarriesOK'
  BY <1>1 DEF PlacesOK, CarriesOK, OnlyOwnPlace
<1>3. ChainsOK'
  BY DEF IInv, ChainsOK
<1>4. QED
  BY <1>2, <1>3 DEF IInv

\* A step that changes the place of one process and nothing else.
LEMMA MoveKeeps ==
  ASSUME IInv, NEW n \in Networks, UNCHANGED <<outside, tables, removal>>,
         restarts' \in 0 .. MaxRestarts, OnlyOwnPlace(n), PlaceOK(n)', CarryOK(n)'
  PROVE  IInv'
<1>1. Custody' /\ FundsOK'
  BY DEF IInv, outside, ledger, contractVars, Custody, ContractTypeOK, OfferedIsHeld,
         SellersAreUsers, FundsOK
<1>2. TablesOK' /\ RowsOK'
  BY DEF IInv, outside, tables, TablesOK, RowsOK
<1>3. OnlyOwnRows(n)
  BY DEF OnlyOwnRows, tables
<1>4. QED
  BY <1>1, <1>2, <1>3, ProcessKeeps DEF outside, tables

\* A call of a user is added to a chain.
LEMMA LogKeeps ==
  ASSUME IInv, NEW n \in Networks, NEW c \in CallType,
         n = "unique" /\ c.method = "addAsk" => c.token \in Tokens,
         chain' = [chain EXCEPT ![n] = Append(@, c)],
         Custody', FundsOK', UNCHANGED <<head, tables, scanner, removal, restarts>>
  PROVE  IInv'
<1>1. chain[n] \in Seq(CallType)
  BY DEF IInv, ChainsOK
<1>2. /\ chain' \in [Networks -> Seq(CallType)]
      /\ \A m \in Networks \ {n} : chain'[m] = chain[m]
      /\ chain'[n] = Append(chain[n], c)
  BY <1>1 DEF IInv, ChainsOK
<1>3. /\ DOMAIN chain[n] \subseteq DOMAIN chain'[n]
      /\ \A i \in DOMAIN chain[n] : chain'[n][i] = chain[n][i]
      /\ \A i \in DOMAIN chain'[n] : i \in DOMAIN chain[n] \/ chain'[n][i] = c
  BY <1>1, <1>2, AppendKeeps
<1>4. \A i \in DOMAIN chain'["unique"] :
        chain'["unique"][i].method = "addAsk" => chain'["unique"][i].token \in Tokens
  <2>1. "unique" \in Networks
    BY DEF Networks
  <2>2. CASE n = "unique"
    BY <1>3, <2>2 DEF IInv, ChainsOK
  <2>3. CASE n # "unique"
    BY <1>2, <2>1, <2>3 DEF IInv, ChainsOK
  <2>4. QED
    BY <2>2, <2>3
<1>5. ChainsOK'
  BY <1>2, <1>4 DEF IInv, ChainsOK
<1>6. ASSUME NEW m \in Networks PROVE PlaceOK(m)'
  <2>1. PlaceOK(m)
    BY DEF IInv, PlacesOK
  <2>2. CASE m = n
    BY <1>3, <2>1, <2>2 DEF PlaceOK, Call, tables
  <2>3. CASE m # n
    BY <1>2, <2>1, <2>3 DEF PlaceOK, Call, tables
  <2>4. QED
    BY <2>2, <2>3
<1>7. PlacesOK'
  BY <1>6 DEF IInv, PlacesOK
<1>8. TablesOK' /\ RowsOK' /\ CarriesOK'
  BY DEF IInv, TablesOK, RowsOK, CarriesOK, CarryOK, tables
<1>9. QED
  BY <1>5, <1>7, <1>8 DEF IInv
-----------------------------------------------------------------------------
(* The steps of users and chains.                                          *)

LEMMA CreditType ==
  ASSUME NEW f \in [Users -> Int], NEW u \in Users, NEW a \in Int
  PROVE  Credit(f, u, a) \in [Users -> Int]
  BY DEF Credit

LEMMA CreditNatType ==
  ASSUME NEW f \in [Users -> Nat], NEW u \in Users, NEW a \in Nat
  PROVE  Credit(f, u, a) \in [Users -> Nat]
  BY DEF Credit

\* A successful call, once it is known what it does to the contract and the money.
LEMMA LoggedKeeps ==
  ASSUME IInv, NEW n \in Networks,
         NEW method \in {"addAsk", "cancelAsk", "buyKSM", "withdrawAllKSM", "transfer"},
         NEW t \in Tokens \cup {Nobody}, NEW u \in Users, NEW seller \in Users \cup {Nobody},
         NEW amount \in Nat, Log(n, method, t, u, seller, amount),
         method = "addAsk" => t \in Tokens, Custody', FundsOK',
         UNCHANGED <<head, tables, scanner, removal, restarts>>
  PROVE  IInv'
<1> DEFINE c == [block |-> head[n] + 1, method |-> method, token |-> t, who |-> u,
                 seller |-> seller, amount |-> amount]
<1>1. head[n] \in Nat
  BY DEF IInv, ChainsOK
<1>2. c \in CallType /\ c.method = method /\ c.token = t
  BY <1>1 DEF CallType
<1>3. chain' = [chain EXCEPT ![n] = Append(@, c)]
  BY DEF Log
<1> HIDE DEF c
<1>4. QED
  BY <1>2, <1>3, LogKeeps

\* What the escrow does not extract changes the contract and nothing else.
LEMMA UnloggedKeeps ==
  ASSUME IInv, Custody', FundsOK',
         UNCHANGED <<chain, head, tables, scanner, removal, restarts>>
  PROVE  IInv'
<1>1. ChainsOK' /\ TablesOK' /\ RowsOK' /\ CarriesOK'
  BY DEF IInv, ChainsOK, TablesOK, RowsOK, CarriesOK, CarryOK, tables
<1>2. PlacesOK'
  BY DEF IInv, PlacesOK, PlaceOK, Call, tables
<1>3. QED
  BY <1>1, <1>2 DEF IInv

LEMMA UserStepKeeps == IInv /\ UserStep => IInv'
<1> SUFFICES ASSUME IInv, UserStep PROVE IInv'
  OBVIOUS
<1> USE DEF Networks
<1>1. Custody /\ FundsOK
  BY DEF IInv
<1>2. ASSUME UNCHANGED ledger PROVE FundsOK'
  BY <1>1, <1>2 DEF FundsOK, ledger
<1>3. ASSUME NEW u \in Users, NEW t \in Tokens, NEW p \in Prices, CallAddAsk(u, t, p)
      PROVE  IInv'
  <2>1. Custody' /\ p \in Nat
    BY <1>1, <1>3, AddAskKeeps, ContractAssumption DEF CallAddAsk
  <2>2. QED
    BY <1>2, <1>3, <2>1, LoggedKeeps DEF CallAddAsk
<1>4. ASSUME NEW u \in Users, NEW t \in Tokens, CallCancelAsk(u, t)
      PROVE  IInv'
  <2>1. Custody'
    BY <1>1, <1>4, CancelAskKeeps DEF CallCancelAsk
  <2>2. QED
    BY <1>2, <1>4, <2>1, LoggedKeeps DEF CallCancelAsk
<1>5. ASSUME NEW u \in Users, NEW t \in Tokens, NEW v \in Users \cup {Contract},
             CallBuyKSM(u, t, v)
      PROVE  IInv'
  <2> DEFINE price == order[t].price
             seller == order[t].owner
             spent == Credit(due, u, -price)
  <2>1. seller \in Users \cup {Nobody} /\ price \in Nat
    BY <1>1 DEF Custody, ContractTypeOK, OrderType
  <2>2. Custody'
    BY <1>1, <1>5, BuyKSMKeeps DEF CallBuyKSM
  <2>3. spent \in [Users -> Int]
    <3>1. due \in [Users -> Int] /\ -price \in Int
      BY <1>1, <2>1 DEF FundsOK
    <3>2. QED
      BY <3>1, CreditType
  <2>4. PriceWithoutCommission(price) \in Int
    BY <2>1, PriceType
  <2>5. due' = IF seller \in Users THEN Credit(spent, seller, PriceWithoutCommission(price))
               ELSE spent
    BY <1>5 DEF CallBuyKSM
  <2>6. Log("unique", "buyKSM", t, u, seller, price)
    BY <1>5 DEF CallBuyKSM
  <2> HIDE DEF spent, seller, price
  <2>7. due' \in [Users -> Int]
    <3>1. CASE seller \in Users
      BY <2>3, <2>4, <2>5, <3>1, CreditType
    <3>2. CASE seller \notin Users
      BY <2>3, <2>5, <3>2
    <3>3. QED
      BY <3>1, <3>2
  <2>8. FundsOK'
    BY <1>1, <1>5, <2>7 DEF FundsOK, CallBuyKSM
  <2>9. UNCHANGED <<head, tables, scanner, removal, restarts>>
    BY <1>5 DEF CallBuyKSM
  <2>10. QED
    BY <2>1, <2>2, <2>6, <2>8, <2>9, LoggedKeeps
<1>6. ASSUME NEW u \in Users, CallWithdrawAllKSM(u)
      PROVE  IInv'
  <2>1. Custody' /\ balanceKSM[u] \in Nat
    BY <1>1, <1>6, EscrowCallKeeps DEF CallWithdrawAllKSM, Custody, ContractTypeOK
  <2>2. QED
    BY <1>2, <1>6, <2>1, LoggedKeeps DEF CallWithdrawAllKSM
<1>7. ASSUME NEW u \in Users, NEW t \in Tokens, CallIgnored(u, t)
      PROVE  IInv'
  <2>1. Custody'
    BY <1>1, <1>7, EditAskKeeps, BuyKeeps, ContractAssumption DEF CallIgnored
  <2>2. UNCHANGED <<chain, head, ledger, tables, scanner, removal, restarts>>
    BY <1>7 DEF CallIgnored
  <2>3. QED
    BY <1>2, <2>1, <2>2, UnloggedKeeps
<1>8. ASSUME NEW u \in Users, NEW a \in Amounts, TransferToMarket(u, a)
      PROVE  IInv'
  <2>1. a \in Nat
    BY ContractAssumption
  <2>2. Custody'
    BY <1>1, <1>8 DEF TransferToMarket, contractVars, Custody, ContractTypeOK, OfferedIsHeld,
                      SellersAreUsers
  <2>3. due' \in [Users -> Int]
    BY <1>1, <1>8, <2>1, CreditType DEF TransferToMarket, FundsOK
  <2>4. FundsOK'
    BY <1>1, <1>8, <2>1, <2>3 DEF TransferToMarket, FundsOK
  <2>5. QED
    BY <1>8, <2>1, <2>2, <2>4, LoggedKeeps DEF TransferToMarket
<1>9. ASSUME NEW u \in Users, NEW t \in Tokens, NEW v \in Users \cup {Contract},
             CallTransfer(u, t, v)
      PROVE  IInv'
  <2>1. Custody'
    BY <1>1, <1>9, TransferKeeps DEF CallTransfer
  <2>2. UNCHANGED <<chain, head, ledger, tables, scanner, removal, restarts>>
    BY <1>9 DEF CallTransfer
  <2>3. QED
    BY <1>2, <2>1, <2>2, UnloggedKeeps
<1>10. QED
  BY <1>3, <1>4, <1>5, <1>6, <1>7, <1>8, <1>9 DEF UserStep

LEMMA FinishBlockKeeps ==
  ASSUME IInv, NEW n \in Networks, FinishBlock(n)
  PROVE  IInv'
<1>1. /\ head' \in [Networks -> Nat]
      /\ \A m \in Networks : head[m] \in Nat /\ head[m] <= head'[m]
  BY DEF IInv, ChainsOK, FinishBlock
<1>2. ChainsOK' /\ FundsOK' /\ Custody' /\ RowsOK' /\ CarriesOK'
  BY <1>1 DEF IInv, ChainsOK, FundsOK, Custody, ContractTypeOK, OfferedIsHeld, SellersAreUsers,
              RowsOK, CarriesOK, CarryOK, FinishBlock, ledger, contractVars, tables
<1>3. TablesOK'
  <2>1. \A m \in Networks : scanned'[m] \subseteq 0 .. head'[m]
    BY <1>1 DEF IInv, TablesOK, FinishBlock, tables
  <2>2. QED
    BY <2>1 DEF IInv, TablesOK, FinishBlock, tables
<1>4. ASSUME NEW m \in Networks PROVE PlaceOK(m)'
  <2>1. PlaceOK(m) /\ scanner[m].block \in Nat
    BY DEF IInv, PlacesOK, Scanners, ScannerType
  <2>2. QED
    BY <1>1, <2>1 DEF PlaceOK, Call, FinishBlock, tables
<1>5. PlacesOK'
  BY <1>4 DEF IInv, PlacesOK, FinishBlock
<1>6. QED
  BY <1>2, <1>3, <1>5 DEF IInv
-----------------------------------------------------------------------------
(* The steps of a process that scans.                                      *)

LEMMA Places ==
  ASSUME IInv, NEW n \in Networks
  PROVE  /\ scanner \in Scanners /\ scanner[n] \in ScannerType
         /\ PlaceOK(n) /\ CarryOK(n) /\ RowsOK /\ TablesOK /\ ChainsOK
  BY DEF IInv, PlacesOK, CarriesOK, Scanners

LEMMA GoTo ==
  ASSUME IInv, NEW n \in Networks, NEW pc \in Pcs, Go(n, pc)
  PROVE  /\ OnlyOwnPlace(n)
         /\ scanner'[n].pc = pc
         /\ scanner'[n].block = scanner[n].block /\ scanner'[n].at = scanner[n].at
         /\ scanner'[n].ask = scanner[n].ask /\ scanner'[n].row = scanner[n].row
         /\ scanner'[n].then = scanner[n].then
<1> DEFINE moved == [scanner EXCEPT ![n].pc = pc]
<1>1. scanner \in Scanners
  BY Places
<1>2. /\ moved \in Scanners
      /\ moved[n].pc = pc
      /\ moved[n].block = scanner[n].block /\ moved[n].at = scanner[n].at
      /\ moved[n].ask = scanner[n].ask /\ moved[n].row = scanner[n].row
      /\ moved[n].then = scanner[n].then
      /\ \A m \in Networks \ {n} : moved[m] = scanner[m]
  BY <1>1, SetPc
<1>3. scanner' = moved
  BY DEF Go
<1> HIDE DEF moved
<1>4. QED
  BY <1>2, <1>3 DEF OnlyOwnPlace

LEMMA NextCallTo ==
  ASSUME IInv, NEW n \in Networks, NEW pc \in Pcs, NextCall(n, pc)
  PROVE  /\ OnlyOwnPlace(n)
         /\ scanner'[n].pc = pc
         /\ scanner'[n].block = scanner[n].block /\ scanner'[n].ask = scanner[n].ask
         /\ scanner'[n].then = scanner[n].then
<1> DEFINE moved == [scanner EXCEPT ![n].pc = pc]
<1>1. scanner \in Scanners
  BY Places
<1>2. /\ moved \in Scanners
      /\ moved[n].pc = pc
      /\ moved[n].block = scanner[n].block /\ moved[n].ask = scanner[n].ask
      /\ moved[n].then = scanner[n].then
      /\ \A m \in Networks \ {n} : moved[m] = scanner[m]
  BY <1>1, SetPc
<1>3. moved[n].at + 1 \in Nat
  BY <1>2 DEF Scanners, ScannerType
<1> DEFINE next == [moved EXCEPT ![n].at = moved[n].at + 1]
<1>4. scanner' = next
  BY <1>1 DEF NextCall, Scanners, ScannerType
<1> HIDE DEF moved
<1>5. /\ next \in Scanners
      /\ next[n].pc = pc
      /\ next[n].block = scanner[n].block /\ next[n].ask = scanner[n].ask
      /\ next[n].then = scanner[n].then
      /\ \A m \in Networks \ {n} : next[m] = scanner[m]
  BY <1>2, <1>3, SetAt
<1> HIDE DEF next
<1>6. QED
  BY <1>4, <1>5 DEF OnlyOwnPlace

\* A process that carries no row and knows of no new ask.
LEMMA RestsWell ==
  ASSUME IInv, NEW n \in Networks, UNCHANGED <<chain, head>>,
         DOMAIN asks \subseteq DOMAIN asks',
         scanner'[n].pc \in {"next", "scan", "money"},
         scanner'[n].block = scanner[n].block, scanner'[n].ask = scanner[n].ask,
         scanner'[n].then = scanner[n].then
  PROVE  PlaceOK(n)' /\ CarryOK(n)'
<1>1. PlaceOK(n)
  BY Places
<1>2. PlaceOK(n)'
  BY <1>1 DEF PlaceOK
<1>3. CarryOK(n)'
  BY DEF CarryOK
<1>4. QED
  BY <1>2, <1>3

\* Steps of a process that write contract_ask.
LEMMA AsksStepKeeps ==
  ASSUME IInv, NEW n \in Networks, UNCHANGED <<outside, trades, money, scanned, admin>>,
         asks' \in Seq(AskType), DOMAIN asks \subseteq DOMAIN asks',
         OnlyOwnPlace(n), PlaceOK(n)', CarryOK(n)'
  PROVE  IInv'
<1>1. Custody' /\ FundsOK'
  BY DEF IInv, outside, ledger, contractVars, Custody, ContractTypeOK, OfferedIsHeld,
         SellersAreUsers, FundsOK
<1>2. TablesOK' /\ RowsOK'
  BY DEF IInv, outside, admin, TablesOK, RowsOK
<1>3. OnlyOwnRows(n)
  BY DEF OnlyOwnRows
<1>4. QED
  BY <1>1, <1>2, <1>3, ProcessKeeps DEF outside

LEMMA WithStatusKeepsAsks ==
  ASSUME asks \in Seq(AskType), NEW I, NEW s \in OpenStatus \cup {"cancelled", "bought"}
  PROVE  /\ WithStatus(asks, I, s) \in Seq(AskType)
         /\ DOMAIN WithStatus(asks, I, s) = DOMAIN asks
<1> DEFINE row(i) == IF i \in I THEN [asks[i] EXCEPT !.status = s] ELSE asks[i]
<1>1. DOMAIN asks = 1 .. Len(asks) /\ Len(asks) \in Nat
  OBVIOUS
<1>2. \A r \in AskType : [r EXCEPT !.status = s] \in AskType
  BY DEF AskType
<1>3. \A i \in DOMAIN asks : row(i) \in AskType
  <2>1. \A i \in DOMAIN asks : asks[i] \in AskType
    BY <1>1
  <2>2. QED
    BY <1>2, <2>1
<1>4. WithStatus(asks, I, s) = [i \in 1 .. Len(asks) |-> row(i)]
  BY <1>1 DEF WithStatus
<1> HIDE DEF row
<1>5. QED
  BY <1>1, <1>3, <1>4

LEMMA BeginKeeps ==
  ASSUME IInv, NEW n \in Networks, Begin(n)
  PROVE  IInv'
<1> DEFINE s == scanner[n]
           before == {i \in DOMAIN chain[n] : chain[n][i].block < s.current}
           to == IF s.current \in scanned[n] THEN "money" ELSE "scan"
           s1 == [scanner EXCEPT ![n].pc = to]
           s2 == [s1 EXCEPT ![n].current = s.current + 1]
           s3 == [s2 EXCEPT ![n].block = s.current]
           s4 == [s3 EXCEPT ![n].at = Cardinality(before) + 1]
           s5 == [s4 EXCEPT ![n].managed = managed]
<1>1. /\ scanner \in Scanners /\ s.current \in Nat /\ s.current <= head[n]
      /\ to \in Pcs /\ managed \in BOOLEAN
  BY Places DEF Begin, ScannerType, Pcs, TablesOK
<1>2. Cardinality(before) + 1 \in Nat
  <2>1. chain[n] \in Seq(CallType)
    BY Places DEF ChainsOK
  <2>2. DOMAIN chain[n] = 1 .. Len(chain[n]) /\ Len(chain[n]) \in Nat
    BY <2>1
  <2>3. IsFiniteSet(1 .. Len(chain[n]))
    BY <2>2, FS_Interval
  <2>4. before \subseteq 1 .. Len(chain[n])
    BY <2>2
  <2>5. IsFiniteSet(before)
    BY <2>3, <2>4, FS_Subset
  <2>6. QED
    BY <2>5, FS_CardinalityType
<1>3. scanner' = s5
  BY <1>1 DEF Begin, Scanners, ScannerType
<1> HIDE DEF before
<1>4. /\ s1 \in Scanners /\ s1[n].pc = to /\ s1[n].then = scanner[n].then
      /\ s1[n].ask = scanner[n].ask
      /\ \A m \in Networks \ {n} : s1[m] = scanner[m]
  BY <1>1, SetPc
<1> HIDE DEF s1
<1>5. /\ s2 \in Scanners /\ s2[n].pc = to /\ s2[n].then = scanner[n].then
      /\ s2[n].ask = scanner[n].ask
      /\ \A m \in Networks \ {n} : s2[m] = scanner[m]
  BY <1>1, <1>4, SetCurrent
<1> HIDE DEF s2
<1>6. /\ s3 \in Scanners /\ s3[n].pc = to /\ s3[n].then = scanner[n].then
      /\ s3[n].ask = scanner[n].ask /\ s3[n].block = s.current
      /\ \A m \in Networks \ {n} : s3[m] = scanner[m]
  BY <1>1, <1>5, SetBlock
<1> HIDE DEF s3
<1>7. /\ s4 \in Scanners /\ s4[n].pc = to /\ s4[n].then = scanner[n].then
      /\ s4[n].ask = scanner[n].ask /\ s4[n].block = s.current
      /\ \A m \in Networks \ {n} : s4[m] = scanner[m]
  BY <1>2, <1>6, SetAt
<1> HIDE DEF s4
<1>8. /\ s5 \in Scanners /\ s5[n].pc = to /\ s5[n].then = scanner[n].then
      /\ s5[n].ask = scanner[n].ask /\ s5[n].block = s.current
      /\ \A m \in Networks \ {n} : s5[m] = scanner[m]
  BY <1>1, <1>7, SetManaged
<1> HIDE DEF s5
<1>9. UNCHANGED <<outside, tables, removal, restarts>>
  BY DEF Begin
<1>10. OnlyOwnPlace(n)
  BY <1>3, <1>8 DEF OnlyOwnPlace
<1>11. PlaceOK(n)' /\ CarryOK(n)'
  <2>1. PlaceOK(n)
    BY Places
  <2>2. PlaceOK(n)'
    BY <1>1, <1>3, <1>8, <1>9, <2>1 DEF PlaceOK, outside, tables
  <2>3. CarryOK(n)'
    BY <1>3, <1>8 DEF CarryOK
  <2>4. QED
    BY <2>2, <2>3
<1>12. restarts' \in 0 .. MaxRestarts
  BY <1>9, Places DEF TablesOK
<1>13. QED
  BY <1>9, <1>10, <1>11, <1>12, MoveKeeps

LEMMA GoesOn ==
  ASSUME IInv, NEW n \in Networks, NEW pc \in {"next", "scan", "money"},
         Go(n, pc) \/ NextCall(n, pc),
         UNCHANGED <<chain, head>>, DOMAIN asks \subseteq DOMAIN asks'
  PROVE  OnlyOwnPlace(n) /\ PlaceOK(n)' /\ CarryOK(n)'
<1>1. /\ OnlyOwnPlace(n)
      /\ scanner'[n].pc = pc
      /\ scanner'[n].block = scanner[n].block /\ scanner'[n].ask = scanner[n].ask
      /\ scanner'[n].then = scanner[n].then
  BY GoTo, NextCallTo DEF Pcs
<1>2. QED
  BY <1>1, RestsWell

LEMMA OnlyGoesOnKeeps ==
  ASSUME IInv, NEW n \in Networks, NEW pc \in {"next", "scan", "money"},
         Go(n, pc) \/ NextCall(n, pc), UNCHANGED <<outside, tables, removal, restarts>>
  PROVE  IInv'
<1>1. OnlyOwnPlace(n) /\ PlaceOK(n)' /\ CarryOK(n)'
  BY GoesOn DEF outside, tables
<1>2. restarts' \in 0 .. MaxRestarts
  BY Places DEF TablesOK
<1>3. QED
  BY <1>1, <1>2, MoveKeeps

LEMMA EndOfBlockKeeps ==
  ASSUME IInv, NEW n \in Networks, EndOfBlock(n)
  PROVE  IInv'
<1>1. /\ UNCHANGED <<outside, asks, trades, money, admin>>
      /\ scanned' = [scanned EXCEPT ![n] = @ \cup {scanner[n].block}]
  BY DEF EndOfBlock
<1>2. OnlyOwnPlace(n) /\ PlaceOK(n)' /\ CarryOK(n)'
  BY <1>1, GoesOn DEF EndOfBlock, outside
<1>3. scanner[n].block \in 0 .. head[n]
  BY Places DEF PlaceOK, ScannerType, ChainsOK
<1>4. TablesOK'
  <2>1. /\ scanned \in [Networks -> SUBSET Nat]
        /\ \A m \in Networks : scanned[m] \subseteq 0 .. head[m]
    BY Places DEF TablesOK
  <2>2. scanned' \in [Networks -> SUBSET Nat]
    BY <1>1, <1>3, <2>1
  <2>3. \A m \in Networks : scanned'[m] \subseteq 0 .. head[m]
    BY <1>1, <1>3, <2>1
  <2>4. QED
    BY <1>1, <2>2, <2>3, Places DEF TablesOK, outside, admin
<1>5. Custody' /\ FundsOK' /\ RowsOK' /\ OnlyOwnRows(n)
  BY <1>1 DEF IInv, outside, ledger, contractVars, Custody, ContractTypeOK, OfferedIsHeld,
              SellersAreUsers, FundsOK, RowsOK, OnlyOwnRows
<1>6. QED
  BY <1>1, <1>2, <1>4, <1>5, ProcessKeeps DEF outside

LEMMA StartedOK ==
  ASSUME IInv, NEW n \in Networks, NEW from \in Nat, UNCHANGED head,
         scanner' = [scanner EXCEPT ![n] = Started(from)]
  PROVE  OnlyOwnPlace(n) /\ PlaceOK(n)' /\ CarryOK(n)'
<1>1. Started(from) \in ScannerType
  BY DEF Started, ScannerType
<1>2. /\ scanner' \in Scanners /\ scanner'[n] = Started(from)
      /\ \A m \in Networks \ {n} : scanner'[m] = scanner[m]
  BY <1>1, Places DEF Scanners
<1>3. OnlyOwnPlace(n)
  BY <1>2 DEF OnlyOwnPlace
<1>4. CarryOK(n)'
  BY <1>2 DEF CarryOK, Started
<1>5. PlaceOK(n)'
  BY <1>2, Places DEF PlaceOK, Started, ChainsOK
<1>6. QED
  BY <1>3, <1>4, <1>5

LEMMA CrashKeeps ==
  ASSUME IInv, NEW n \in Networks, Crash(n)
  PROVE  IInv'
<1> DEFINE from == Max(scanned[n] \cup {1})
<1>1. head[n] + 1 \in Nat /\ scanned[n] \cup {1} \subseteq 0 .. (head[n] + 1)
  BY Places DEF ChainsOK, TablesOK
<1>2. from \in scanned[n] \cup {1}
  BY <1>1, MaxIsMember
<1>3. from \in Nat
  BY <1>1, <1>2
<1>4. scanner' = [scanner EXCEPT ![n] = Started(from)]
  BY DEF Crash
<1> HIDE DEF from
<1>5. OnlyOwnPlace(n) /\ PlaceOK(n)' /\ CarryOK(n)'
  BY <1>3, <1>4, StartedOK DEF Crash, outside
<1>6. restarts' \in 0 .. MaxRestarts
  BY Places, EscrowAssumption DEF TablesOK, Crash
<1>7. QED
  BY <1>5, <1>6, MoveKeeps DEF Crash

LEMMA NoMoreMoneyKeeps ==
  ASSUME IInv, NEW n \in Networks, NoMoreMoney(n)
  PROVE  IInv'
<1>1. scanner[n].current \in Nat /\ UNCHANGED head
  BY Places DEF ScannerType, NoMoreMoney, outside
<1>2. scanner' = [scanner EXCEPT ![n] = Started(scanner[n].current)]
  BY DEF NoMoreMoney
<1>3. OnlyOwnPlace(n) /\ PlaceOK(n)' /\ CarryOK(n)'
  BY <1>1, <1>2, StartedOK
<1>4. restarts' \in 0 .. MaxRestarts
  BY Places DEF TablesOK, NoMoreMoney
<1>5. QED
  BY <1>3, <1>4, MoveKeeps DEF NoMoreMoney

\* A call that a process looks at.
LEMMA CallIsOne ==
  ASSUME IInv, NEW n \in Networks, NEW method, At(n, method)
  PROVE  /\ scanner[n].at \in DOMAIN chain[n] /\ Call(n) \in CallType
         /\ Call(n).method = method
  BY Places DEF At, Call, ChainsOK

LEMMA ProcessAddAskKeeps == IInv /\ ProcessAddAsk => IInv'
<1> SUFFICES ASSUME IInv, ProcessAddAsk PROVE IInv'
  OBVIOUS
<1> DEFINE n == "unique"
<1>1. /\ n \in Networks /\ At(n, "addAsk")
      /\ UNCHANGED <<outside, trades, money, scanned, admin>>
  BY DEF ProcessAddAsk, Networks
<1>2. CASE scanner[n].managed
  <2>1. /\ asks' = WithStatus(asks, OpenAsks(Call(n).token), "cancelled")
        /\ Go(n, "register")
    BY <1>2 DEF ProcessAddAsk
  <2>2. asks' \in Seq(AskType) /\ DOMAIN asks' = DOMAIN asks
    BY <1>1, <2>1, Places, WithStatusKeepsAsks DEF TablesOK
  <2>3. /\ OnlyOwnPlace(n)
        /\ scanner'[n].pc = "register" /\ scanner'[n].block = scanner[n].block
        /\ scanner'[n].at = scanner[n].at /\ scanner'[n].ask = scanner[n].ask
        /\ scanner'[n].then = scanner[n].then
    BY <1>1, <2>1, GoTo DEF Pcs
  <2>4. PlaceOK(n)
    BY <1>1, Places
  <2>5. PlaceOK(n)'
    BY <1>1, <2>2, <2>3, <2>4, CallIsOne DEF PlaceOK, Call, outside
  <2>6. CarryOK(n)'
    BY <2>3 DEF CarryOK
  <2>7. QED
    BY <1>1, <2>2, <2>3, <2>5, <2>6, AsksStepKeeps
<1>3. CASE ~scanner[n].managed
  <2>1. UNCHANGED asks /\ NextCall(n, "scan")
    BY <1>3 DEF ProcessAddAsk
  <2>2. UNCHANGED <<outside, tables, removal, restarts>>
    BY <1>1, <2>1 DEF tables, admin
  <2>3. QED
    BY <1>1, <2>1, <2>2, OnlyGoesOnKeeps
<1>4. QED
  BY <1>2, <1>3

LEMMA RegisterAskKeeps == IInv /\ RegisterAsk => IInv'
<1> SUFFICES ASSUME IInv, RegisterAsk PROVE IInv'
  OBVIOUS
<1> DEFINE n == "unique"
           row == [token |-> Call(n).token, status |-> "active",
                   seller |-> Call(n).who, price |-> Call(n).amount]
<1>1. n \in Networks /\ UNCHANGED <<outside, trades, money, scanned, admin>>
  BY DEF RegisterAsk, Networks
<1>2. CASE asks' = Append(asks, row) /\ NextCall(n, "scan")
  <2>1. /\ scanner[n].at \in DOMAIN chain[n] /\ Call(n).method = "addAsk"
        /\ PlaceOK(n) /\ ChainsOK
    BY <1>1, Places DEF PlaceOK, RegisterAsk
  <2>2. Call(n) \in CallType /\ Call(n).token \in Tokens
    BY <1>1, <2>1 DEF ChainsOK, Call
  <2>3. row \in AskType
    BY <2>2 DEF CallType, AskType, OpenStatus
  <2> HIDE DEF row
  <2>4. asks' \in Seq(AskType) /\ DOMAIN asks \subseteq DOMAIN asks'
    BY <1>2, <2>3, Places, <1>1, AppendKeeps DEF TablesOK
  <2>5. OnlyOwnPlace(n) /\ PlaceOK(n)' /\ CarryOK(n)'
    BY <1>1, <1>2, <2>4, GoesOn DEF outside
  <2>6. QED
    BY <1>1, <2>4, <2>5, AsksStepKeeps
<1>3. CASE UNCHANGED asks /\ Go(n, "money")
  <2>1. UNCHANGED <<outside, tables, removal, restarts>>
    BY <1>1, <1>3 DEF tables, admin
  <2>2. QED
    BY <1>1, <1>3, <2>1, OnlyGoesOnKeeps
<1>4. QED
  BY <1>2, <1>3 DEF RegisterAsk

LEMMA ProcessCancelAskKeeps == IInv /\ ProcessCancelAsk => IInv'
<1> SUFFICES ASSUME IInv, ProcessCancelAsk PROVE IInv'
  OBVIOUS
<1> DEFINE n == "unique"
<1>1. /\ n \in Networks /\ NextCall(n, "scan")
      /\ UNCHANGED <<outside, trades, money, scanned, admin>>
  BY DEF ProcessCancelAsk, Networks
<1>2. asks' \in Seq(AskType) /\ DOMAIN asks' = DOMAIN asks
  <2>1. asks \in Seq(AskType)
    BY <1>1, Places DEF TablesOK
  <2>2. QED
    BY <2>1, WithStatusKeepsAsks DEF ProcessCancelAsk
<1>3. OnlyOwnPlace(n) /\ PlaceOK(n)' /\ CarryOK(n)'
  BY <1>1, <1>2, GoesOn DEF outside
<1>4. QED
  BY <1>1, <1>2, <1>3, AsksStepKeeps

LEMMA MarkBoughtKeeps == IInv /\ MarkBought => IInv'
<1> SUFFICES ASSUME IInv, MarkBought PROVE IInv'
  OBVIOUS
<1> DEFINE n == "unique"
<1>1. /\ n \in Networks /\ Go(n, "deduct") /\ scanner[n].pc = "bought"
      /\ UNCHANGED <<outside, trades, money, scanned, admin>>
  BY DEF MarkBought, Networks
<1>2. asks' \in Seq(AskType) /\ DOMAIN asks' = DOMAIN asks
  <2>1. asks \in Seq(AskType)
    BY <1>1, Places DEF TablesOK
  <2>2. QED
    BY <2>1, WithStatusKeepsAsks DEF MarkBought
<1>3. /\ OnlyOwnPlace(n)
      /\ scanner'[n].pc = "deduct" /\ scanner'[n].block = scanner[n].block
      /\ scanner'[n].ask = scanner[n].ask /\ scanner'[n].then = scanner[n].then
  BY <1>1, GoTo DEF Pcs
<1>4. PlaceOK(n)
  BY <1>1, Places
<1>5. PlaceOK(n)'
  BY <1>1, <1>2, <1>3, <1>4 DEF PlaceOK, outside
<1>6. CarryOK(n)'
  BY <1>3 DEF CarryOK
<1>7. QED
  BY <1>1, <1>2, <1>3, <1>5, <1>6, AsksStepKeeps
-----------------------------------------------------------------------------
(* The steps that insert rows into market_trade and money_transfer.        *)

LEMMA ProcessBuyKSMKeeps == IInv /\ ProcessBuyKSM => IInv'
<1> SUFFICES ASSUME IInv, ProcessBuyKSM PROVE IInv'
  OBVIOUS
<1> DEFINE n == "unique"
<1>1. /\ n \in Networks /\ At(n, "buyKSM")
      /\ UNCHANGED <<outside, asks, money, scanned, admin>>
  BY DEF ProcessBuyKSM, Networks
<1>2. CASE UNCHANGED trades /\ NextCall(n, "scan")
  <2>1. UNCHANGED <<outside, tables, removal, restarts>>
    BY <1>1, <1>2 DEF tables, admin
  <2>2. QED
    BY <1>1, <1>2, <2>1, OnlyGoesOnKeeps
<1>3. ASSUME NEW i \in OpenAsks(Call(n).token),
             trades' = Append(trades, [buyer |-> Call(n).who, seller |-> asks[i].seller,
                                       originPrice |-> asks[i].price]),
             scanner' = [scanner EXCEPT ![n].pc = "bought", ![n].ask = i]
      PROVE  IInv'
  <2> DEFINE trade == [buyer |-> Call(n).who, seller |-> asks[i].seller,
                       originPrice |-> asks[i].price]
             moved == WithAsk(scanner, n, "bought", i)
  <2>1. /\ i \in DOMAIN asks /\ asks \in Seq(AskType) /\ trades \in Seq(TradeType)
        /\ scanner \in Scanners
    BY <1>1, Places DEF OpenAsks, TablesOK
  <2>2. i \in Nat /\ asks[i] \in AskType /\ Call(n) \in CallType
    BY <1>1, <2>1, CallIsOne
  <2>3. trade \in TradeType
    BY <2>2 DEF AskType, CallType, TradeType
  <2>4. trades' \in Seq(TradeType)
    <3> HIDE DEF trade
    <3>1. trades' = Append(trades, trade)
      BY <1>3 DEF trade
    <3>2. QED
      BY <2>1, <2>3, <3>1
  <2>5. scanner' = moved
    BY <1>3 DEF WithAsk
  <2>6. /\ moved \in Scanners /\ moved[n].block = scanner[n].block
        /\ moved[n].pc = "bought" /\ moved[n].ask = i
        /\ \A m \in Networks \ {n} : moved[m] = scanner[m]
    <3>1. n \in Networks /\ "bought" \in Pcs /\ scanner \in Scanners /\ i \in Nat
      BY <2>1, <2>2 DEF Networks, Pcs
    <3>2. QED
      BY <3>1, SetPcAndAsk
  <2> HIDE DEF moved
  <2>8. OnlyOwnPlace(n)
    BY <2>5, <2>6 DEF OnlyOwnPlace
  <2>9. PlaceOK(n)
    BY <1>1, Places
  <2>10. PlaceOK(n)'
    BY <1>1, <2>1, <2>5, <2>6, <2>9 DEF PlaceOK, outside
  <2>11. CarryOK(n)'
    BY <2>5, <2>6 DEF CarryOK
  <2>12. Custody' /\ FundsOK' /\ RowsOK' /\ OnlyOwnRows(n)
    BY <1>1 DEF IInv, outside, ledger, contractVars, Custody, ContractTypeOK, OfferedIsHeld,
                SellersAreUsers, FundsOK, RowsOK, OnlyOwnRows
  <2>13. TablesOK'
    BY <1>1, <2>4, Places DEF TablesOK, outside, admin
  <2>14. QED
    BY <1>1, <2>8, <2>10, <2>11, <2>12, <2>13, ProcessKeeps DEF outside
<1>4. QED
  BY <1>2, <1>3 DEF ProcessBuyKSM

\* A new row is pending and nothing was sent for it.
LEMMA NewRowKeeps ==
  ASSUME IInv, NEW n \in Networks, NEW type \in {"deposit", "withdraw"}, NEW u \in Users,
         NEW amount \in Int, type = "withdraw" => amount >= 0,
         money' = Append(money, NewRow(type, u, amount)),
         UNCHANGED <<outside, asks, trades, scanned, admin>>,
         OnlyOwnPlace(n), PlaceOK(n)', CarryOK(n)'
  PROVE  IInv'
<1> DEFINE row == NewRow(type, u, amount)
<1>1. row \in MoneyType /\ RowOK(row)
  BY DEF NewRow, MoneyType, RowOK
<1>2. money \in Seq(MoneyType)
  BY Places DEF TablesOK
<1> HIDE DEF row
<1>3. /\ money' \in Seq(MoneyType)
      /\ DOMAIN money \subseteq DOMAIN money'
      /\ DOMAIN money' = DOMAIN money \cup {Len(money) + 1}
      /\ money'[Len(money) + 1] = row
      /\ \A i \in DOMAIN money : money'[i] = money[i]
  BY <1>1, <1>2, AppendKeeps DEF row
<1>4. RowsOK'
  <2>1. \A i \in DOMAIN money' : RowOK(money'[i])
    BY <1>1, <1>3, Places DEF RowsOK
  <2>2. QED
    BY <2>1 DEF RowsOK, RowOK
<1>5. OnlyOwnRows(n)
  BY <1>3 DEF OnlyOwnRows
<1>6. Custody' /\ FundsOK'
  BY DEF IInv, outside, ledger, contractVars, Custody, ContractTypeOK, OfferedIsHeld,
         SellersAreUsers, FundsOK
<1>7. TablesOK'
  BY <1>3, Places DEF TablesOK, outside, admin
<1>8. QED
  BY <1>4, <1>5, <1>6, <1>7, ProcessKeeps DEF outside

\* A row that is left to be picked later.
LEMMA InsertKeeps ==
  ASSUME IInv, NEW n \in Networks, NEW type \in {"deposit", "withdraw"}, NEW u \in Users,
         NEW amount \in Nat, money' = Append(money, NewRow(type, u, amount)),
         NextCall(n, "scan"), UNCHANGED <<outside, asks, trades, scanned, admin>>
  PROVE  IInv'
<1>1. OnlyOwnPlace(n) /\ PlaceOK(n)' /\ CarryOK(n)'
  BY GoesOn DEF outside
<1>2. QED
  BY <1>1, NewRowKeeps

LEMMA PayoutKeeps == IInv /\ Payout => IInv'
<1> SUFFICES ASSUME IInv, Payout PROVE IInv'
  OBVIOUS
<1> DEFINE n == "unique"
           a == asks[scanner[n].ask]
<1>1. n \in Networks /\ scanner[n].pc = "payout"
  BY DEF Payout, Networks
<1>2. scanner[n].ask \in DOMAIN asks /\ asks \in Seq(AskType)
  BY <1>1, Places DEF PlaceOK, TablesOK
<1>3. a \in AskType
  BY <1>2
<1>4. a.seller \in Users /\ PriceWithoutCommission(a.price) \in Nat
  BY <1>3, PriceType DEF AskType
<1>5. /\ money' = Append(money, NewRow("withdraw", a.seller, PriceWithoutCommission(a.price)))
      /\ NextCall(n, "scan")
      /\ UNCHANGED <<outside, asks, trades, scanned, admin>>
  BY DEF Payout
<1> HIDE DEF a
<1>6. QED
  BY <1>1, <1>4, <1>5, InsertKeeps

LEMMA ProcessWithdrawAllKSMKeeps == IInv /\ ProcessWithdrawAllKSM => IInv'
<1> SUFFICES ASSUME IInv, ProcessWithdrawAllKSM PROVE IInv'
  OBVIOUS
<1> DEFINE n == "unique"
<1>1. n \in Networks /\ At(n, "withdrawAllKSM")
  BY DEF ProcessWithdrawAllKSM, Networks
<1>2. Call(n).who \in Users /\ Call(n).amount \in Nat
  BY <1>1, CallIsOne DEF CallType
<1>3. QED
  BY <1>1, <1>2, InsertKeeps DEF ProcessWithdrawAllKSM

LEMMA ProcessTransferKeeps == IInv /\ ProcessTransfer => IInv'
<1> SUFFICES ASSUME IInv, ProcessTransfer PROVE IInv'
  OBVIOUS
<1> DEFINE n == "kusama"
<1>1. n \in Networks /\ At(n, "transfer")
  BY DEF ProcessTransfer, Networks
<1>2. Call(n).who \in Users /\ Call(n).amount \in Nat
  BY <1>1, CallIsOne DEF CallType
<1>3. QED
  BY <1>1, <1>2, InsertKeeps DEF ProcessTransfer

LEMMA DeductKeeps == IInv /\ Deduct => IInv'
<1> SUFFICES ASSUME IInv, Deduct PROVE IInv'
  OBVIOUS
<1> DEFINE n == "unique"
           a == asks[scanner[n].ask]
           row == NewRow("deposit", a.seller, -a.price)
           moved == WithRow(scanner, n, "start", Len(money) + 1, "payout")
<1>1. /\ n \in Networks /\ scanner[n].pc = "deduct"
      /\ money' = Append(money, row)
      /\ UNCHANGED <<outside, asks, trades, scanned, admin>>
  BY DEF Deduct, Networks
<1>2. /\ scanner[n].ask \in DOMAIN asks /\ asks \in Seq(AskType) /\ money \in Seq(MoneyType)
      /\ scanner \in Scanners /\ PlaceOK(n)
  BY <1>1, Places DEF PlaceOK, TablesOK
<1>3. Len(money) + 1 \in Nat /\ a.seller \in Users /\ -a.price \in Int
  <2>1. a \in AskType /\ Len(money) \in Nat
    BY <1>2
  <2>2. QED
    BY <2>1 DEF AskType
<1>4. scanner' = moved
  BY DEF Deduct, WithRow
<1>5. /\ moved \in Scanners /\ moved[n].pc = "start" /\ moved[n].row = Len(money) + 1
      /\ moved[n].block = scanner[n].block /\ moved[n].ask = scanner[n].ask
      /\ \A m \in Networks \ {n} : moved[m] = scanner[m]
  <2>1. /\ n \in Networks /\ "start" \in Pcs /\ "payout" \in Thens
        /\ scanner \in Scanners /\ Len(money) + 1 \in Nat
    BY <1>2, <1>3 DEF Networks, Pcs, Thens
  <2>2. QED
    BY <2>1, SetCarry
<1> HIDE DEF moved
<1>8. OnlyOwnPlace(n)
  BY <1>4, <1>5 DEF OnlyOwnPlace
<1>9. PlaceOK(n)'
  BY <1>1, <1>2, <1>4, <1>5 DEF PlaceOK, outside
<1>10. /\ Len(money) + 1 \in DOMAIN money'
       /\ money'[Len(money) + 1] = row
  <2>1. row \in MoneyType
    BY <1>3 DEF NewRow, MoneyType
  <2> HIDE DEF row
  <2>2. QED
    BY <1>1, <1>2, <2>1, AppendKeeps
<1>11. CarryOK(n)'
  BY <1>4, <1>5, <1>10 DEF CarryOK, NewRow, Duty
<1> HIDE DEF a
<1>12. QED
  BY <1>1, <1>3, <1>8, <1>9, <1>11, NewRowKeeps
-----------------------------------------------------------------------------
(* The steps that carry money.                                             *)

LEMMA OutsideKeeps ==
  ASSUME IInv, UNCHANGED outside
  PROVE  Custody' /\ FundsOK'
  BY DEF IInv, outside, ledger, contractVars, Custody, ContractTypeOK, OfferedIsHeld,
         SellersAreUsers, FundsOK

\* A row of the process's own duty gets a status that is true.
LEMMA StatusKeeps ==
  ASSUME IInv, NEW n \in Networks, NEW r \in DOMAIN money, NEW s \in Statuses,
         money[r].type = Duty(n), RowOK([money[r] EXCEPT !.status = s]),
         money' = WithStatus(money, {r}, s),
         UNCHANGED <<outside, asks, trades, scanned, admin>>,
         OnlyOwnPlace(n), PlaceOK(n)', CarryOK(n)'
  PROVE  IInv'
<1> DEFINE row == [money[r] EXCEPT !.status = s]
<1>1. money \in Seq(MoneyType) /\ RowsOK
  BY Places DEF TablesOK
<1>2. row.type = Duty(n)
  <2>1. money[r] \in MoneyType
    BY <1>1
  <2>2. QED
    BY <2>1 DEF MoneyType
<1>3. /\ money' \in Seq(MoneyType) /\ DOMAIN money' = DOMAIN money
      /\ money'[r] = row
      /\ \A i \in DOMAIN money \ {r} : money'[i] = money[i]
  <2> DEFINE rows == WithStatus(money, {r}, s)
  <2>1. /\ rows \in Seq(MoneyType) /\ DOMAIN rows = DOMAIN money
        /\ \A i \in DOMAIN money : /\ i \notin {r} => rows[i] = money[i]
                                   /\ i \in {r} => rows[i] = [money[i] EXCEPT !.status = s]
    BY <1>1, WithStatusKeepsMoney
  <2>2. money' = rows
    OBVIOUS
  <2> HIDE DEF rows
  <2>3. money'[r] = row
    BY <2>1, <2>2
  <2> HIDE DEF row
  <2>4. QED
    BY <2>1, <2>2, <2>3
<1>4. RowOK(row)
  OBVIOUS
<1> HIDE DEF row
<1>5. RowsOK'
  <2>1. \A i \in DOMAIN money' : RowOK(money'[i])
    BY <1>1, <1>3, <1>4 DEF RowsOK
  <2>2. QED
    BY <2>1 DEF RowsOK, RowOK
<1>6. OnlyOwnRows(n)
  BY <1>2, <1>3 DEF OnlyOwnRows
<1>7. TablesOK'
  BY <1>3, Places DEF TablesOK, outside, admin
<1>8. QED
  BY <1>5, <1>6, <1>7, OutsideKeeps, ProcessKeeps DEF outside

\* What is known of the row that a process carries.
LEMMA CarriedRow ==
  ASSUME IInv, NEW n \in Networks, scanner[n].pc \in {"start", "send", "sent", "failed"}
  PROVE  LET row == money[scanner[n].row] IN
         /\ scanner[n].row \in DOMAIN money /\ row \in MoneyType
         /\ row.type = Duty(n) /\ RowOK(row)
         /\ row.sent = IF scanner[n].pc = "sent" THEN 1 ELSE 0
<1>1. CarryOK(n) /\ money \in Seq(MoneyType) /\ RowsOK
  BY Places DEF TablesOK
<1>2. QED
  BY <1>1 DEF CarryOK, RowsOK

LEMMA PickKeeps ==
  ASSUME IInv, NEW n \in Networks, Pick(n)
  PROVE  IInv'
<1> DEFINE r == Min(Pending(n))
           moved == WithRow(scanner, n, "send", r, "money")
<1>1. money \in Seq(MoneyType) /\ scanner \in Scanners /\ PlaceOK(n) /\ RowsOK
  BY Places DEF TablesOK
<1>2. Pending(n) \in SUBSET Nat
  BY <1>1 DEF Pending
<1>3. r \in Pending(n) /\ r \in Nat
  BY <1>2, MinIsMember DEF Pick
<1>4. /\ money' = WithStatus(money, {r}, "in_progress") /\ scanner' = moved
      /\ UNCHANGED <<outside, asks, trades, scanned, admin>>
  BY DEF Pick, WithRow
<1> HIDE DEF r
<1>5. /\ r \in DOMAIN money /\ money[r] \in MoneyType
      /\ money[r].type = Duty(n) /\ money[r].sent = 0 /\ RowOK(money[r])
  BY <1>1, <1>3 DEF Pending, RowsOK, RowOK
<1>6. "send" \in Pcs /\ "money" \in Thens /\ scanner \in Scanners /\ r \in Nat
  BY <1>1, <1>3 DEF Pcs, Thens
<1>7. /\ moved \in Scanners
      /\ moved[n].pc = "send" /\ moved[n].row = r /\ moved[n].then = "money"
      /\ moved[n].block = scanner[n].block /\ moved[n].ask = scanner[n].ask
      /\ \A m \in Networks \ {n} : moved[m] = scanner[m]
  BY <1>6, SetCarry
<1> HIDE DEF moved
<1>8. OnlyOwnPlace(n)
  BY <1>4, <1>7 DEF OnlyOwnPlace
<1>9. PlaceOK(n)'
  BY <1>1, <1>4, <1>7 DEF PlaceOK, outside
<1> DEFINE row == [money[r] EXCEPT !.status = "in_progress"]
<1>10. RowOK(row) /\ row.type = Duty(n) /\ row.status = "in_progress" /\ row.sent = 0
  BY <1>5 DEF RowOK, MoneyType
<1>11. CarryOK(n)'
  <2>1. /\ DOMAIN money' = DOMAIN money
        /\ money'[r] = row
    BY <1>1, <1>4, <1>5, WithStatusKeepsMoney DEF Statuses
  <2> HIDE DEF row
  <2>2. QED
    BY <1>4, <1>5, <1>7, <1>10, <2>1 DEF CarryOK, Duty
<1>12. QED
  BY <1>4, <1>5, <1>8, <1>9, <1>10, <1>11, StatusKeeps DEF Statuses

LEMMA StartKeeps == IInv /\ Start => IInv'
<1> SUFFICES ASSUME IInv, Start PROVE IInv'
  OBVIOUS
<1> DEFINE n == "unique"
           r == scanner[n].row
           row == [money[r] EXCEPT !.status = "in_progress"]
<1>1. /\ n \in Networks /\ scanner[n].pc = "start"
      /\ money' = WithStatus(money, {r}, "in_progress") /\ Go(n, "send")
      /\ UNCHANGED <<outside, asks, trades, scanned, admin>>
  BY DEF Start, Networks
<1>2. /\ r \in DOMAIN money /\ money[r] \in MoneyType
      /\ money[r].type = Duty(n) /\ money[r].sent = 0 /\ RowOK(money[r])
  BY <1>1, CarriedRow
<1>3. RowOK(row) /\ row.type = Duty(n) /\ row.status = "in_progress" /\ row.sent = 0
  BY <1>2 DEF RowOK, MoneyType
<1>4. /\ OnlyOwnPlace(n)
      /\ scanner'[n].pc = "send" /\ scanner'[n].row = r
      /\ scanner'[n].block = scanner[n].block /\ scanner'[n].ask = scanner[n].ask
      /\ scanner'[n].then = scanner[n].then
  BY <1>1, GoTo DEF Pcs
<1>5. PlaceOK(n) /\ money \in Seq(MoneyType)
  BY <1>1, Places DEF TablesOK
<1>6. PlaceOK(n)'
  BY <1>1, <1>4, <1>5 DEF PlaceOK, outside
<1>7. CarryOK(n)'
  <2>1. DOMAIN money' = DOMAIN money /\ money'[r] = row
    BY <1>1, <1>2, <1>5, WithStatusKeepsMoney DEF Statuses
  <2> HIDE DEF row, r
  <2>2. QED
    BY <1>2, <1>3, <1>4, <2>1 DEF CarryOK, Duty
<1>8. QED
  BY <1>1, <1>2, <1>3, <1>4, <1>6, <1>7, StatusKeeps DEF Statuses

LEMMA ReportKeeps ==
  ASSUME IInv, NEW n \in Networks, Report(n)
  PROVE  IInv'
<1> DEFINE r == scanner[n].row
           to == scanner[n].then
<1>1. PICK s \in {"completed", "failed"} :
        /\ scanner[n].pc \in {"sent", "failed"} /\ (s = "completed" => scanner[n].pc = "sent")
        /\ money' = WithStatus(money, {r}, s) /\ Go(n, to)
  BY DEF Report, Close
<1>2. UNCHANGED <<outside, asks, trades, scanned, admin>>
  BY DEF Report
<1>3. /\ r \in DOMAIN money /\ money[r] \in MoneyType
      /\ money[r].type = Duty(n) /\ RowOK(money[r])
      /\ s = "completed" => money[r].sent = 1
  BY <1>1, CarriedRow
<1>4. RowOK([money[r] EXCEPT !.status = s])
  BY <1>1, <1>3 DEF RowOK, MoneyType
<1>5. PlaceOK(n) /\ to \in {"money", "payout"} /\ to \in Pcs
  BY Places DEF ScannerType, Pcs
<1>6. /\ OnlyOwnPlace(n)
      /\ scanner'[n].pc = to
      /\ scanner'[n].block = scanner[n].block /\ scanner'[n].ask = scanner[n].ask
      /\ scanner'[n].then = scanner[n].then
  BY <1>1, <1>5, GoTo
<1>7. PlaceOK(n)'
  BY <1>2, <1>5, <1>6 DEF PlaceOK, outside
<1>8. CarryOK(n)'
  BY <1>5, <1>6 DEF CarryOK
<1>9. s \in Statuses
  BY DEF Statuses
<1>10. QED
  BY <1>1, <1>2, <1>3, <1>4, <1>6, <1>7, <1>8, <1>9, StatusKeeps

LEMMA SendFailsKeeps ==
  ASSUME IInv, NEW n \in Networks, SendFails(n)
  PROVE  IInv'
<1>1. /\ scanner[n].pc = "send" /\ Go(n, "failed")
      /\ UNCHANGED <<outside, tables, removal, restarts>>
  BY DEF SendFails
<1>2. /\ OnlyOwnPlace(n)
      /\ scanner'[n].pc = "failed" /\ scanner'[n].row = scanner[n].row
      /\ scanner'[n].block = scanner[n].block /\ scanner'[n].ask = scanner[n].ask
      /\ scanner'[n].then = scanner[n].then
  BY <1>1, GoTo DEF Pcs
<1>3. PlaceOK(n) /\ CarryOK(n) /\ restarts \in 0 .. MaxRestarts
  BY Places DEF TablesOK
<1>4. PlaceOK(n)'
  BY <1>1, <1>2, <1>3 DEF PlaceOK, outside, tables
<1>5. CarryOK(n)'
  BY <1>1, <1>2, <1>3 DEF CarryOK, Duty, tables
<1>6. QED
  BY <1>1, <1>2, <1>3, <1>4, <1>5, MoveKeeps

\* What is carried to the contract is a call of the escrow, and the account on
\* Kusama is never overdrawn.
LEMMA EffectKeeps ==
  ASSUME IInv, NEW n \in Networks, NEW u \in Users, NEW amount \in Int,
         n = "kusama" => amount >= 0, Effect(n, u, amount)
  PROVE  Custody' /\ FundsOK'
<1>1. Custody /\ FundsOK
  BY DEF IInv
<1>2. CASE n = "unique" /\ amount >= 0
  <2>1. DepositKSM(u, amount) /\ UNCHANGED ledger /\ amount \in Nat
    BY <1>2 DEF Effect
  <2>2. QED
    BY <1>1, <2>1, EscrowCallKeeps DEF FundsOK, ledger
<1>3. CASE n = "unique" /\ amount < 0
  <2>1. WithdrawKSM(u, -amount) /\ UNCHANGED ledger /\ -amount \in Nat
    BY <1>3 DEF Effect
  <2>2. QED
    BY <1>1, <2>1, EscrowCallKeeps DEF FundsOK, ledger
<1>4. CASE n = "kusama"
  <2>1. /\ market >= amount /\ amount \in Nat
        /\ market' = market - amount /\ received' = Credit(received, u, amount)
        /\ UNCHANGED <<contractVars, due>>
    BY <1>4 DEF Effect
  <2>2. received' \in [Users -> Nat]
    BY <1>1, <2>1, CreditNatType DEF FundsOK
  <2>3. FundsOK'
    BY <1>1, <2>1, <2>2 DEF FundsOK
  <2>4. Custody'
    BY <1>1, <2>1 DEF contractVars, Custody, ContractTypeOK, OfferedIsHeld, SellersAreUsers
  <2>5. QED
    BY <2>3, <2>4
<1>5. QED
  BY <1>2, <1>3, <1>4 DEF Networks

LEMMA SendKeeps ==
  ASSUME IInv, NEW n \in Networks, Send(n)
  PROVE  IInv'
<1> DEFINE r == scanner[n].row
           row == [money[r] EXCEPT !.sent = @ + 1]
<1>1. /\ scanner[n].pc = "send" /\ Go(n, "sent")
      /\ Effect(n, money[r].who, money[r].amount)
      /\ UNCHANGED <<chain, head, asks, trades, scanned, admin>>
  BY DEF Send
<1>2. /\ r \in DOMAIN money /\ money[r] \in MoneyType
      /\ money[r].type = Duty(n) /\ RowOK(money[r])
      /\ money[r].status = "in_progress" /\ money[r].sent = 0
      /\ money \in Seq(MoneyType) /\ PlaceOK(n) /\ RowsOK
  BY <1>1, CarriedRow, Places DEF CarryOK, TablesOK
<1>3. Custody' /\ FundsOK'
  <2>1. /\ money[r].who \in Users /\ money[r].amount \in Int
        /\ n = "kusama" => money[r].amount >= 0
    BY <1>2 DEF MoneyType, RowOK, Duty
  <2>2. QED
    BY <1>1, <2>1, EffectKeeps
<1>4. /\ row \in MoneyType /\ RowOK(row)
      /\ row.type = Duty(n) /\ row.status = "in_progress" /\ row.sent = 1
  BY <1>2 DEF RowOK, MoneyType
<1>5. money' = [money EXCEPT ![r] = row]
  BY <1>2 DEF Send
<1> HIDE DEF row
<1>6. /\ money' \in Seq(MoneyType) /\ DOMAIN money' = DOMAIN money
      /\ money'[r] = row
      /\ \A i \in DOMAIN money \ {r} : money'[i] = money[i]
  BY <1>2, <1>4, <1>5
<1>7. RowsOK'
  <2>1. \A i \in DOMAIN money' : RowOK(money'[i])
    BY <1>2, <1>4, <1>6 DEF RowsOK
  <2>2. QED
    BY <2>1 DEF RowsOK, RowOK
<1>8. OnlyOwnRows(n)
  BY <1>2, <1>4, <1>6 DEF OnlyOwnRows
<1>9. TablesOK'
  BY <1>1, <1>6, Places DEF TablesOK, admin
<1>10. /\ OnlyOwnPlace(n)
       /\ scanner'[n].pc = "sent" /\ scanner'[n].row = r
       /\ scanner'[n].block = scanner[n].block /\ scanner'[n].ask = scanner[n].ask
       /\ scanner'[n].then = scanner[n].then
  BY <1>1, GoTo DEF Pcs
<1>11. PlaceOK(n)'
  BY <1>1, <1>2, <1>10 DEF PlaceOK
<1>12. CarryOK(n)'
  <2> HIDE DEF r
  <2>1. QED
    BY <1>2, <1>4, <1>6, <1>10 DEF CarryOK, Duty
<1>13. QED
  BY <1>1, <1>3, <1>7, <1>8, <1>9, <1>10, <1>11, <1>12, ProcessKeeps
-----------------------------------------------------------------------------
(* Steps of the administrator and of auctions.                             *)

\* They leave every process where it is and every row of money_transfer as it is.
LEMMA AdminKeeps ==
  ASSUME IInv, UNCHANGED <<outside, trades, money, scanner, restarts>>, TablesOK',
         DOMAIN asks \subseteq DOMAIN asks'
  PROVE  IInv'
<1> DEFINE n == "unique"
<1>1. n \in Networks
  BY DEF Networks
<1> HIDE DEF n
<1>2. OnlyOwnRows(n) /\ OnlyOwnPlace(n) /\ RowsOK'
  BY <1>1, Places DEF OnlyOwnRows, OnlyOwnPlace, RowsOK
<1>3. PlaceOK(n) /\ CarryOK(n)
  BY <1>1, Places
<1>4. PlaceOK(n)' /\ CarryOK(n)'
  BY <1>3 DEF PlaceOK, CarryOK, Call, Duty, outside
<1>5. QED
  BY <1>1, <1>2, <1>4, OutsideKeeps, ProcessKeeps DEF outside

LEMMA AdminStepKeeps == IInv /\ AdminStep => IInv'
<1> SUFFICES ASSUME IInv, AdminStep PROVE IInv'
  OBVIOUS
<1>1. TablesOK
  BY DEF IInv
<1>2. CASE MassCancelFind
  BY <1>1, <1>2, AdminKeeps DEF MassCancelFind, TablesOK, tables, outside
<1>3. CASE MassCancelUpdate
  <2>1. asks' \in Seq(AskType) /\ DOMAIN asks' = DOMAIN asks
    BY <1>1, <1>3, WithStatusKeepsAsks DEF MassCancelUpdate, TablesOK, OpenStatus
  <2>2. QED
    BY <1>1, <1>3, <2>1, AdminKeeps DEF MassCancelUpdate, TablesOK, outside
<1>4. CASE ToggleCollection
  BY <1>1, <1>4, AdminKeeps DEF ToggleCollection, TablesOK, outside
<1>5. CASE ShareBlock
  <2>1. PICK b \in 1 .. head["unique"] :
          scanned' = [scanned EXCEPT !["unique"] = @ \cup {b}]
    BY <1>5 DEF ShareBlock
  <2>2. b \in 0 .. head["unique"]
    OBVIOUS
  <2>3. /\ scanned' \in [Networks -> SUBSET Nat]
        /\ \A m \in Networks : scanned'[m] \subseteq 0 .. head[m]
    BY <1>1, <2>1, <2>2 DEF TablesOK, Networks
  <2>4. TablesOK'
    BY <1>1, <1>5, <2>3 DEF ShareBlock, TablesOK, outside, admin
  <2>5. QED
    BY <1>5, <2>4, AdminKeeps DEF ShareBlock, admin
<1>6. QED
  BY <1>2, <1>3, <1>4, <1>5 DEF AdminStep

-----------------------------------------------------------------------------
(* The theorems.                                                           *)

LEMMA InitIInv == Init => IInv
<1> SUFFICES ASSUME Init PROVE IInv
  OBVIOUS
<1>1. Custody
  BY InitCustody DEF Init
<1>2. ChainsOK /\ FundsOK /\ RowsOK
  BY DEF Init, Networks, ChainsOK, FundsOK, RowsOK
<1>3. TablesOK
  BY EscrowAssumption DEF Init, TablesOK
<1>4. Started(1) \in ScannerType
  BY DEF Started, ScannerType
<1>5. PlacesOK
  <2>1. scanner \in Scanners /\ \A n \in Networks : scanner[n] = Started(1)
    BY <1>4 DEF Init, Scanners
  <2>2. ASSUME NEW n \in Networks PROVE PlaceOK(n)
    BY <2>1 DEF Init, PlaceOK, Started
  <2>3. QED
    BY <2>1, <2>2 DEF PlacesOK
<1>6. CarriesOK
  BY DEF Init, CarriesOK, CarryOK, Started
<1>7. QED
  BY <1>1, <1>2, <1>3, <1>5, <1>6 DEF IInv

LEMMA StutterKeeps == IInv /\ UNCHANGED vars => IInv'
<1> SUFFICES ASSUME IInv, UNCHANGED vars PROVE IInv'
  OBVIOUS
<1>1. UNCHANGED <<outside, tables, scanner, removal, restarts>>
  BY DEF vars
<1>2. TablesOK'
  BY <1>1 DEF IInv, TablesOK, outside, tables
<1>3. QED
  BY <1>1, <1>2, AdminKeeps DEF tables

LEMMA NextKeepsIInv == IInv /\ [Next]_vars => IInv'
<1> SUFFICES ASSUME IInv, [Next]_vars PROVE IInv'
  OBVIOUS
<1>1. CASE UserStep
  BY <1>1, UserStepKeeps
<1>2. ASSUME NEW n \in Networks,
             \/ FinishBlock(n) \/ Begin(n) \/ EndOfBlock(n) \/ Crash(n) \/ Carry(n)
      PROVE  IInv'
  BY <1>2, FinishBlockKeeps, BeginKeeps, EndOfBlockKeeps, CrashKeeps, PickKeeps,
     NoMoreMoneyKeeps, SendKeeps, SendFailsKeeps, ReportKeeps DEF Carry
<1>3. ASSUME NEW n \in Networks, EmptyBlock(n) \/ ScanFails(n)
      PROVE  IInv'
  BY <1>3, OnlyGoesOnKeeps DEF EmptyBlock, ScanFails
<1>4. CASE Extract
  BY <1>4, ProcessAddAskKeeps, RegisterAskKeeps, ProcessCancelAskKeeps, ProcessBuyKSMKeeps,
     MarkBoughtKeeps, DeductKeeps, PayoutKeeps, ProcessWithdrawAllKSMKeeps,
     ProcessTransferKeeps DEF Extract
<1>5. CASE Start
  BY <1>5, StartKeeps
<1>6. CASE AdminStep
  BY <1>6, AdminStepKeeps
<1>7. CASE UNCHANGED vars
  BY <1>7, StutterKeeps
<1>8. QED
  BY <1>1, <1>2, <1>3, <1>4, <1>5, <1>6, <1>7 DEF Next

(* However processes crash, transfers fail and scans break off, chains,    *)
(* tables and the memory of the processes stay what IInv says of them.     *)
THEOREM EscrowInvariant == Spec => []IInv
<1>1. Init => IInv
  BY InitIInv
<1>2. IInv /\ [Next]_vars => IInv'
  BY NextKeepsIInv
<1>3. QED
  BY <1>1, <1>2, PTL DEF Spec

(* No account is overdrawn, neither in the contract nor on Kusama, and the *)
(* ask and the row that a process goes back to exist.                      *)
THEOREM EscrowTypes == Spec => []TypeOK
<1>1. IInv => TypeOK
  BY DEF IInv, Custody, ChainsOK, FundsOK, TablesOK, PlacesOK, Scanners, TradeType, TypeOK
<1>2. QED
  BY <1>1, EscrowInvariant, PTL

(* A row of money_transfer moves money once at most.                       *)
THEOREM MoneyMovesOnce == Spec => []RowSentOnce
<1>1. IInv => RowSentOnce
  BY DEF IInv, RowsOK, RowOK, RowSentOnce
<1>2. QED
  BY <1>1, EscrowInvariant, PTL

(* What is pending was not sent and what is completed was.                 *)
THEOREM StatusesAreTrue == Spec => []StatusIsTrue
<1>1. IInv => StatusIsTrue
  BY DEF IInv, RowsOK, RowOK, StatusIsTrue
<1>2. QED
  BY <1>1, EscrowInvariant, PTL

(* A token on offer is in the contract also when the contract is used by   *)
(* the market: what the escrow calls does not touch the offers.            *)
THEOREM MarketKeepsCustody == Spec => []OfferedIsHeld
<1>1. IInv => OfferedIsHeld
  BY DEF IInv, Custody
<1>2. QED
  BY <1>1, EscrowInvariant, PTL

\* What the escrow carries to the contract is on one account; the rest is not seen there.
LEMMA SendIsOfTheExchange ==
  ASSUME IInv, NEW n \in Networks, Send(n)
  PROVE  [Promise!ExchangeNext]_(Promise!exchangeVars)
<1> DEFINE row == money[scanner[n].row]
<1>1. /\ scanner[n].pc = "send" /\ Effect(n, row.who, row.amount)
  BY DEF Send
<1>2. row.who \in Users /\ row.amount \in Int /\ Custody
  <2>1. row \in MoneyType
    BY <1>1, CarriedRow
  <2>2. QED
    BY <2>1 DEF MoneyType, IInv
<1> HIDE DEF row
<1>3. CASE n = "unique" /\ row.amount >= 0
  <2>1. DepositKSM(row.who, row.amount) /\ row.amount \in Nat
    BY <1>1, <1>2, <1>3 DEF Effect
  <2>2. QED
    BY <1>2, <2>1, EscrowCallIsAccount DEF Promise!ExchangeNext
<1>4. CASE n = "unique" /\ row.amount < 0
  <2>1. WithdrawKSM(row.who, -row.amount) /\ -row.amount \in Nat
    BY <1>1, <1>2, <1>4 DEF Effect
  <2>2. QED
    BY <1>2, <2>1, EscrowCallIsAccount DEF Promise!ExchangeNext
<1>5. CASE n = "kusama"
  BY <1>1, <1>5 DEF Effect, contractVars, Promise!exchangeVars
<1>6. QED
  BY <1>2, <1>3, <1>4, <1>5 DEF Networks

LEMMA UserStepIsOfTheExchange ==
  ASSUME IInv, UserStep
  PROVE  [Promise!ExchangeNext]_(Promise!exchangeVars)
<1>1. Custody
  BY DEF IInv
<1>2. ASSUME NEW u \in Users, NEW t \in Tokens, NEW p \in Prices, CallAddAsk(u, t, p)
      PROVE  Promise!ExchangeNext
  BY <1>1, <1>2, AddAskIsOffer DEF CallAddAsk, Promise!ExchangeNext
<1>3. ASSUME NEW u \in Users, NEW t \in Tokens, CallCancelAsk(u, t)
      PROVE  Promise!ExchangeNext
  BY <1>1, <1>3, CancelAskIsTakeOut DEF CallCancelAsk, Promise!ExchangeNext
<1>4. ASSUME NEW u \in Users, NEW t \in Tokens, NEW v \in Users \cup {Contract},
             CallBuyKSM(u, t, v) \/ CallTransfer(u, t, v)
      PROVE  Promise!ExchangeNext
  BY <1>1, <1>4, BuyKSMIsSale, TransferIsGive DEF CallBuyKSM, CallTransfer, Promise!ExchangeNext
<1>5. ASSUME NEW u \in Users, NEW t \in Tokens, CallIgnored(u, t)
      PROVE  Promise!ExchangeNext
  BY <1>1, <1>5, EditAskIsChange, BuyIsSale, ContractAssumption
  DEF CallIgnored, Promise!ExchangeNext
<1>6. ASSUME NEW u \in Users, CallWithdrawAllKSM(u)
      PROVE  Promise!ExchangeNext
  BY <1>1, <1>6, EscrowCallIsAccount DEF CallWithdrawAllKSM, Promise!ExchangeNext
<1>7. ASSUME NEW u \in Users, NEW a \in Amounts, TransferToMarket(u, a)
      PROVE  UNCHANGED contractVars
  BY <1>7 DEF TransferToMarket
<1>8. CASE UNCHANGED contractVars
  BY <1>8 DEF contractVars, Promise!exchangeVars
<1>9. QED
  BY <1>2, <1>3, <1>4, <1>5, <1>6, <1>7, <1>8 DEF UserStep

(* The market at fixed prices implements the exchange: with its scanners,  *)
(* crashes, failures and an administrator, and with tokens that come to    *)
(* the contract without an offer, a token leaves to the one who offered it *)
(* last or to a buyer who pays this one the price of the offer.            *)
THEOREM MarketIsAnExchange == Spec => ImplementsExchange
<1>1. Init => Promise!ExchangeInit
  BY ContractAssumption DEF Init, ContractInit, Promise!ExchangeInit
<1>2. ASSUME IInv, [Next]_vars
      PROVE  [Promise!ExchangeNext]_(Promise!exchangeVars)
  <2>1. CASE UNCHANGED contractVars
    BY <2>1 DEF contractVars, Promise!exchangeVars
  <2>2. CASE UserStep
    BY <1>2, <2>2, UserStepIsOfTheExchange
  <2>3. CASE \E n \in Networks : Send(n)
    BY <1>2, <2>3, SendIsOfTheExchange
  <2>4. CASE ~UserStep /\ ~ \E n \in Networks : Send(n)
    <3>1. UNCHANGED contractVars
      BY <1>2, <2>4 DEF Next, FinishBlock, Begin, EmptyBlock, EndOfBlock, ScanFails, Crash,
         Carry, Pick, NoMoreMoney, SendFails, Report, Extract, ProcessAddAsk, RegisterAsk,
         ProcessCancelAsk, ProcessBuyKSM, MarkBought, Deduct, Payout, ProcessWithdrawAllKSM,
         ProcessTransfer, Start, AdminStep, MassCancelFind, MassCancelUpdate,
         ToggleCollection, ShareBlock, outside, vars
    <3>2. QED
      BY <2>1, <3>1
  <2>5. QED
    BY <2>2, <2>3, <2>4
<1>3. QED
  BY <1>1, <1>2, EscrowInvariant, PTL
  DEF Spec, ImplementsExchange, Promise!ExchangeSpec

-----------------------------------------------------------------------------
(***************************************************************************)
(* What a process has done with the calls of its chain, told from its      *)
(* place: blocks are scanned in order and the calls of a block one after   *)
(* the other.  From that it follows that no deposit is forgotten and that, *)
(* without crashes, no sale has two trades and nobody is paid twice.       *)
(***************************************************************************)

-----------------------------------------------------------------------------
(* Finite sets of positions.                                               *)

LEMMA GreatestExists ==
  ASSUME NEW b \in Nat, NEW S \in SUBSET (0 .. b), S # {}
  PROVE  \E x \in S : \A y \in S : x >= y
<1> DEFINE T == {b - x : x \in S}
<1>1. T \in SUBSET Nat /\ T # {}
  <2>1. \A x \in S : x \in Int /\ b - x \in Nat
    OBVIOUS
  <2>2. QED
    BY <2>1
<1>2. PICK m \in T : \A y \in T : m <= y
  BY <1>1, LeastExists
<1>3. PICK x \in S : m = b - x
  OBVIOUS
<1>4. ASSUME NEW y \in S PROVE x >= y
  <2>1. m <= b - y
    BY <1>2
  <2>2. QED
    BY <1>3, <2>1
<1>5. QED
  BY <1>4

\* The positions up to some position are counted by that position.
LEMMA CountPrefix ==
  ASSUME NEW b \in Nat, NEW S \in SUBSET (1 .. b),
         \A i \in S, j \in 1 .. b : j <= i => j \in S
  PROVE  S = 1 .. Cardinality(S) /\ Cardinality(S) \in Nat
<1>1. CASE S = {}
  BY <1>1, FS_EmptySet
<1>2. CASE S # {}
  <2>1. PICK x \in S : \A y \in S : x >= y
    <3>1. S \in SUBSET (0 .. b)
      OBVIOUS
    <3>2. QED
      BY <1>2, <3>1, GreatestExists
  <2>2. S = 1 .. x /\ x \in Nat
    <3>1. x \in 1 .. b
      BY <2>1
    <3>2. \A j \in 1 .. x : j \in 1 .. b /\ j <= x
      BY <3>1
    <3>3. \A j \in 1 .. x : j \in S
      BY <2>1, <3>2
    <3>4. \A j \in S : j \in 1 .. x
      BY <2>1
    <3>5. S = 1 .. x
      <4>1. \A j : j \in S <=> j \in 1 .. x
        BY <3>3, <3>4
      <4>2. QED
        BY <4>1
    <3>6. QED
      BY <3>1, <3>5
  <2>3. Cardinality(1 .. x) = x
    <3>1. x \in Int /\ 1 \in Int /\ 1 <= x
      BY <2>1
    <3>2. QED
      BY <3>1, FS_Interval
  <2>4. QED
    BY <2>2, <2>3
<1>3. QED
  BY <1>1, <1>2

\* Sets of positions of a sequence are finite.
LEMMA PositionsFinite ==
  ASSUME NEW E, NEW s \in Seq(E), NEW S \in SUBSET DOMAIN s
  PROVE  IsFiniteSet(S) /\ Cardinality(S) \in Nat
<1>1. DOMAIN s = 1 .. Len(s) /\ Len(s) \in Nat
  OBVIOUS
<1>2. IsFiniteSet(DOMAIN s)
  BY <1>1, FS_Interval
<1>3. IsFiniteSet(S)
  BY <1>2, FS_Subset
<1>4. QED
  BY <1>3, FS_CardinalityType

LEMMA MorePositions ==
  ASSUME NEW E, NEW s \in Seq(E), NEW S \in SUBSET DOMAIN s, NEW R \in SUBSET S
  PROVE  Cardinality(R) <= Cardinality(S)
  BY PositionsFinite, FS_Subset

LEMMA OneMorePosition ==
  ASSUME NEW E, NEW s \in Seq(E), NEW S \in SUBSET DOMAIN s, NEW i \in DOMAIN s, i \notin S
  PROVE  Cardinality(S \cup {i}) = Cardinality(S) + 1
  BY PositionsFinite, FS_AddElement

LEMMA AtMostOneMorePosition ==
  ASSUME NEW E, NEW s \in Seq(E), NEW S \in SUBSET DOMAIN s, NEW i \in DOMAIN s,
         NEW R \in SUBSET (S \cup {i})
  PROVE  Cardinality(R) <= Cardinality(S) + 1
<1>1. S \cup {i} \in SUBSET DOMAIN s
  OBVIOUS
<1>2. Cardinality(R) <= Cardinality(S \cup {i})
  BY <1>1, MorePositions
<1>3. CASE i \in S
  <2>1. Cardinality(S \cup {i}) = Cardinality(S)
    <3>1. S \cup {i} = S
      BY <1>3
    <3>2. QED
      BY <3>1
  <2>2. Cardinality(S) \in Nat /\ Cardinality(R) \in Nat
    BY <1>1, PositionsFinite
  <2>3. QED
    BY <1>2, <2>1, <2>2
<1>4. CASE i \notin S
  BY <1>2, <1>4, OneMorePosition
<1>5. QED
  BY <1>3, <1>4

-----------------------------------------------------------------------------
(* The place of a process in its chain.                                    *)

Carrying == {"start", "send", "sent", "failed"}

\* From the trade of a sale to the payout of its seller.
InSale(n) == \/ scanner[n].pc \in {"bought", "deduct", "payout"}
             \/ scanner[n].pc \in Carrying /\ scanner[n].then = "payout"

MidBlock(n) == scanner[n].pc \in {"scan", "register"} \/ InSale(n)

ChainOrdered(n) ==
  /\ \A i, j \in DOMAIN chain[n] : i <= j => chain[n][i].block <= chain[n][j].block
  /\ \A i \in DOMAIN chain[n] : chain[n][i].block \in 1 .. head[n] + 1
  /\ scanned[n] \subseteq 1 .. head[n]

\* The calls before the one that a process is at are of its block or an earlier
\* one, the others of its block or a later one.
Divides(n) ==
  \A i \in DOMAIN chain[n] :
    /\ i < scanner[n].at => chain[n][i].block <= scanner[n].block
    /\ i >= scanner[n].at => chain[n][i].block >= scanner[n].block

WhereOK(n) ==
  /\ scanner[n].current \in 1 .. head[n] + 1
  /\ MidBlock(n) => /\ scanner[n].current = scanner[n].block + 1
                    /\ scanner[n].block >= 1
                    /\ scanner[n].at \in 1 .. Len(chain[n]) + 1 /\ Divides(n)
  /\ scanner[n].pc = "register" \/ InSale(n) =>
       scanner[n].at \in DOMAIN chain[n] /\ Call(n).block = scanner[n].block
  /\ InSale(n) => n = "unique" /\ Call(n).method = "buyKSM"

Scans(n) == ChainOrdered(n) /\ WhereOK(n)

SInv == IInv /\ \A n \in Networks : Scans(n)

-----------------------------------------------------------------------------
(* How a process goes from place to place.                                 *)

\* It is taken to another step of another call of its block.
SetPlace(n, pc, at) ==
  /\ scanner'[n].pc = pc /\ scanner'[n].at = at
  /\ scanner'[n].current = scanner[n].current /\ scanner'[n].block = scanner[n].block
  /\ \A m \in Networks \ {n} : scanner'[m] = scanner[m]

LEMMA GoPlace ==
  ASSUME IInv, NEW n \in Networks, NEW pc \in Pcs, Go(n, pc)
  PROVE  SetPlace(n, pc, scanner[n].at) /\ scanner'[n].then = scanner[n].then
<1> DEFINE moved == [scanner EXCEPT ![n].pc = pc]
<1>1. scanner \in Scanners
  BY Places
<1>2. /\ moved \in Scanners
      /\ moved[n].pc = pc /\ moved[n].current = scanner[n].current
      /\ moved[n].block = scanner[n].block /\ moved[n].at = scanner[n].at
      /\ moved[n].then = scanner[n].then
      /\ \A m \in Networks \ {n} : moved[m] = scanner[m]
  BY <1>1, SetPc
<1>3. scanner' = moved
  BY DEF Go
<1> HIDE DEF moved
<1>4. QED
  BY <1>2, <1>3 DEF SetPlace

LEMMA NextPlace ==
  ASSUME IInv, NEW n \in Networks, NEW pc \in Pcs, NextCall(n, pc)
  PROVE  SetPlace(n, pc, scanner[n].at + 1) /\ scanner'[n].then = scanner[n].then
<1> DEFINE moved == [scanner EXCEPT ![n].pc = pc]
<1>1. scanner \in Scanners
  BY Places
<1>2. /\ moved \in Scanners
      /\ moved[n].pc = pc /\ moved[n].current = scanner[n].current
      /\ moved[n].block = scanner[n].block /\ moved[n].at = scanner[n].at
      /\ moved[n].then = scanner[n].then
      /\ \A m \in Networks \ {n} : moved[m] = scanner[m]
  BY <1>1, SetPc
<1>3. moved[n].at + 1 \in Nat
  BY <1>2 DEF Scanners, ScannerType
<1> DEFINE next == [moved EXCEPT ![n].at = moved[n].at + 1]
<1>4. scanner' = next
  BY <1>1 DEF NextCall, Scanners, ScannerType
<1>5. moved[n].at + 1 = scanner[n].at + 1
  BY <1>2
<1> HIDE DEF moved
<1>6. /\ next \in Scanners
      /\ next[n].pc = pc /\ next[n].current = scanner[n].current
      /\ next[n].block = scanner[n].block /\ next[n].at = scanner[n].at + 1
      /\ next[n].then = scanner[n].then
      /\ \A m \in Networks \ {n} : next[m] = scanner[m]
  BY <1>2, <1>3, <1>5, SetAt
<1> HIDE DEF next
<1>7. QED
  BY <1>4, <1>6 DEF SetPlace

LEMMA WithAskPlace ==
  ASSUME IInv, NEW n \in Networks, NEW pc \in Pcs, NEW i \in Nat,
         scanner' = WithAsk(scanner, n, pc, i)
  PROVE  /\ SetPlace(n, pc, scanner[n].at) /\ scanner'[n].then = scanner[n].then
         /\ scanner'[n].ask = i
<1> DEFINE s1 == [scanner EXCEPT ![n].pc = pc]
           s2 == [s1 EXCEPT ![n].ask = i]
<1>1. scanner \in Scanners
  BY Places
<1>2. scanner' = s2
  BY <1>1 DEF WithAsk, Scanners, ScannerType
<1>3. /\ s1 \in Scanners
      /\ s1[n].pc = pc /\ s1[n].current = scanner[n].current
      /\ s1[n].block = scanner[n].block /\ s1[n].at = scanner[n].at
      /\ s1[n].then = scanner[n].then
      /\ \A m \in Networks \ {n} : s1[m] = scanner[m]
  BY <1>1, SetPc
<1> HIDE DEF s1
<1>4. /\ s2 \in Scanners
      /\ s2[n].pc = pc /\ s2[n].current = scanner[n].current
      /\ s2[n].block = scanner[n].block /\ s2[n].at = scanner[n].at
      /\ s2[n].then = scanner[n].then /\ s2[n].ask = i
      /\ \A m \in Networks \ {n} : s2[m] = scanner[m]
  BY <1>3, SetAsk
<1> HIDE DEF s2
<1>5. QED
  BY <1>2, <1>4 DEF SetPlace

LEMMA WithRowPlace ==
  ASSUME IInv, NEW n \in Networks, NEW pc \in Pcs, NEW i \in Nat, NEW t \in Thens,
         scanner' = WithRow(scanner, n, pc, i, t)
  PROVE  /\ SetPlace(n, pc, scanner[n].at) /\ scanner'[n].then = t
         /\ scanner'[n].row = i /\ scanner'[n].ask = scanner[n].ask
<1> DEFINE s1 == [scanner EXCEPT ![n].pc = pc]
           s2 == [s1 EXCEPT ![n].row = i]
           s3 == [s2 EXCEPT ![n].then = t]
<1>1. scanner \in Scanners
  BY Places
<1>2. scanner' = s3
  BY <1>1 DEF WithRow, Scanners, ScannerType
<1>3. /\ s1 \in Scanners
      /\ s1[n].pc = pc /\ s1[n].current = scanner[n].current
      /\ s1[n].block = scanner[n].block /\ s1[n].at = scanner[n].at
      /\ s1[n].ask = scanner[n].ask
      /\ \A m \in Networks \ {n} : s1[m] = scanner[m]
  BY <1>1, SetPc
<1> HIDE DEF s1
<1>4. /\ s2 \in Scanners
      /\ s2[n].pc = pc /\ s2[n].current = scanner[n].current
      /\ s2[n].block = scanner[n].block /\ s2[n].at = scanner[n].at
      /\ s2[n].ask = scanner[n].ask /\ s2[n].row = i
      /\ \A m \in Networks \ {n} : s2[m] = scanner[m]
  BY <1>3, SetRow
<1> HIDE DEF s2
<1>5. /\ s3 \in Scanners
      /\ s3[n].pc = pc /\ s3[n].current = scanner[n].current
      /\ s3[n].block = scanner[n].block /\ s3[n].at = scanner[n].at
      /\ s3[n].ask = scanner[n].ask /\ s3[n].row = i /\ s3[n].then = t
      /\ \A m \in Networks \ {n} : s3[m] = scanner[m]
  BY <1>4, SetThen
<1> HIDE DEF s3
<1>6. QED
  BY <1>2, <1>5 DEF SetPlace

\* Of a step of a process its own scan is told to be in order again.
OthersStay(n) ==
  \A m \in Networks \ {n} : /\ chain'[m] = chain[m] /\ head'[m] = head[m]
                            /\ scanned'[m] = scanned[m] /\ scanner'[m] = scanner[m]

LEMMA OthersScan ==
  ASSUME SInv, NEW n \in Networks, OthersStay(n), Scans(n)'
  PROVE  \A m \in Networks : Scans(m)'
<1>1. ASSUME NEW m \in Networks \ {n} PROVE Scans(m)'
  <2>1. Scans(m)
    BY DEF SInv
  <2>2. ChainOrdered(m)'
    BY <2>1 DEF Scans, ChainOrdered, OthersStay
  <2>3. WhereOK(m)'
    BY <2>1 DEF Scans, WhereOK, MidBlock, InSale, Divides, Call, OthersStay
  <2>4. QED
    BY <2>2, <2>3 DEF Scans
<1>2. QED
  BY <1>1

\* It goes to another step of the same call, or leaves the block.
LEMMA StaysScans ==
  ASSUME SInv, NEW n \in Networks, NEW pc, UNCHANGED <<chain, head, scanned>>,
         SetPlace(n, pc, scanner[n].at), MidBlock(n)' => MidBlock(n),
         pc = "register" \/ InSale(n)' => /\ scanner[n].at \in DOMAIN chain[n]
                                         /\ Call(n).block = scanner[n].block,
         InSale(n)' => n = "unique" /\ Call(n).method = "buyKSM"
  PROVE  \A m \in Networks : Scans(m)'
<1>1. Scans(n)
  BY DEF SInv
<1>2. ChainOrdered(n)'
  BY <1>1 DEF Scans, ChainOrdered
<1>3. Divides(n) => Divides(n)'
  BY DEF Divides, SetPlace
<1>4. Call(n)' = Call(n)
  BY DEF Call, SetPlace
<1>5. WhereOK(n)'
  BY <1>1, <1>3, <1>4 DEF Scans, WhereOK, SetPlace
<1>6. OthersStay(n)
  BY DEF OthersStay, SetPlace
<1>7. QED
  BY <1>2, <1>5, <1>6, OthersScan DEF Scans

\* It goes on with the next call.
LEMMA NextScans ==
  ASSUME SInv, NEW n \in Networks, UNCHANGED <<chain, head, scanned>>,
         SetPlace(n, "scan", scanner[n].at + 1), MidBlock(n),
         scanner[n].at \in DOMAIN chain[n], Call(n).block = scanner[n].block
  PROVE  \A m \in Networks : Scans(m)'
<1>1. Scans(n) /\ scanner[n] \in ScannerType
  BY Places DEF SInv
<1>2. ChainOrdered(n)'
  BY <1>1 DEF Scans, ChainOrdered
<1>3. chain[n] \in Seq(CallType)
  BY Places DEF SInv, ChainsOK
<1>4. Divides(n)'
  <2>1. ASSUME NEW i \in DOMAIN chain[n]
        PROVE  /\ i < scanner[n].at + 1 => chain[n][i].block <= scanner[n].block
               /\ i >= scanner[n].at + 1 => chain[n][i].block >= scanner[n].block
    <3>1. i \in Nat /\ scanner[n].at \in Nat /\ chain[n][i] \in CallType
      BY <1>1, <1>3 DEF ScannerType
    <3>2. /\ i < scanner[n].at => chain[n][i].block <= scanner[n].block
          /\ i >= scanner[n].at => chain[n][i].block >= scanner[n].block
          /\ i = scanner[n].at => chain[n][i].block = scanner[n].block
      BY <1>1 DEF Scans, WhereOK, Divides, Call
    <3>3. chain[n][i].block \in Nat /\ scanner[n].block \in Nat
      BY <1>1, <3>1 DEF CallType, ScannerType
    <3>4. QED
      BY <3>1, <3>2, <3>3
  <2>2. QED
    BY <2>1 DEF Divides, SetPlace
<1>5. WhereOK(n)'
  <2>1. ~InSale(n)'
    BY DEF InSale, SetPlace, Carrying
  <2>2. scanner[n].at \in 1 .. Len(chain[n]) /\ Len(chain[n]) \in Nat
    BY <1>3
  <2>3. scanner'[n].at \in 1 .. Len(chain[n]) + 1
    BY <2>2 DEF SetPlace
  <2>4. QED
    BY <1>1, <1>4, <2>1, <2>3 DEF Scans, WhereOK, SetPlace
<1>6. OthersStay(n)
  BY DEF OthersStay, SetPlace
<1>7. QED
  BY <1>2, <1>5, <1>6, OthersScan DEF Scans

-----------------------------------------------------------------------------
(* The steps that change what there is to scan.                            *)

\* What a call adds to its chain.
LEMMA Logged ==
  ASSUME IInv, NEW n \in Networks, NEW method, NEW t, NEW u, NEW seller, NEW amount,
         Log(n, method, t, u, seller, amount)
  PROVE  LET c == [block |-> head[n] + 1, method |-> method, token |-> t, who |-> u,
                   seller |-> seller, amount |-> amount]
         IN
         /\ chain'[n] = Append(chain[n], c)
         /\ DOMAIN chain'[n] = DOMAIN chain[n] \cup {Len(chain[n]) + 1}
         /\ Len(chain[n]) + 1 \notin DOMAIN chain[n]
         /\ chain'[n][Len(chain[n]) + 1] = c
         /\ \A i \in DOMAIN chain[n] : chain'[n][i] = chain[n][i]
         /\ \A m \in Networks \ {n} : chain'[m] = chain[m]
<1> DEFINE c == [block |-> head[n] + 1, method |-> method, token |-> t, who |-> u,
                 seller |-> seller, amount |-> amount]
<1>1. chain \in [Networks -> Seq(CallType)]
  BY Places DEF ChainsOK
<1>2. chain' = [chain EXCEPT ![n] = Append(@, c)]
  BY DEF Log
<1> HIDE DEF c
<1>3. /\ chain'[n] = Append(chain[n], c)
      /\ \A m \in Networks \ {n} : chain'[m] = chain[m]
  BY <1>1, <1>2
<1>4. /\ DOMAIN chain'[n] = DOMAIN chain[n] \cup {Len(chain[n]) + 1}
      /\ Len(chain[n]) + 1 \notin DOMAIN chain[n]
      /\ chain'[n][Len(chain[n]) + 1] = c
      /\ \A i \in DOMAIN chain[n] : chain'[n][i] = chain[n][i]
  <2>1. chain[n] \in Seq(CallType \cup {c}) /\ c \in CallType \cup {c}
    BY <1>1
  <2>2. QED
    BY <1>3, <2>1, AppendKeeps
<1>5. QED
  BY <1>3, <1>4 DEF c

LEMMA CallScans ==
  ASSUME SInv, NEW n \in Networks, NEW method, NEW t, NEW u, NEW seller, NEW amount,
         Log(n, method, t, u, seller, amount), UNCHANGED <<head, scanned, scanner>>
  PROVE  \A m \in Networks : Scans(m)'
<1> DEFINE new == Len(chain[n]) + 1
           c == [block |-> head[n] + 1, method |-> method, token |-> t, who |-> u,
                 seller |-> seller, amount |-> amount]
<1>1. /\ DOMAIN chain'[n] = DOMAIN chain[n] \cup {new}
      /\ chain'[n][new].block = head[n] + 1
      /\ \A i \in DOMAIN chain[n] : chain'[n][i] = chain[n][i]
      /\ \A m \in Networks \ {n} : chain'[m] = chain[m]
      /\ Len(chain'[n]) = Len(chain[n]) + 1
  <2>1. IInv /\ c.block = head[n] + 1 /\ chain[n] \in Seq(CallType)
    BY Places DEF SInv, ChainsOK
  <2> HIDE DEF c
  <2>2. /\ chain'[n] = Append(chain[n], c)
        /\ DOMAIN chain'[n] = DOMAIN chain[n] \cup {new}
        /\ chain'[n][new] = c
        /\ \A i \in DOMAIN chain[n] : chain'[n][i] = chain[n][i]
        /\ \A m \in Networks \ {n} : chain'[m] = chain[m]
    BY <2>1, Logged DEF c
  <2>3. Len(chain'[n]) = Len(chain[n]) + 1
    BY <2>1, <2>2
  <2>4. QED
    BY <2>1, <2>2, <2>3
<1> HIDE DEF c
<1>2. /\ chain[n] \in Seq(CallType) /\ head[n] \in Nat
      /\ scanner[n] \in ScannerType /\ PlaceOK(n)
  BY Places DEF SInv, ChainsOK
<1>3. Scans(n)
  BY DEF SInv
<1>4. /\ new \in Nat
      /\ \A i \in DOMAIN chain[n] : /\ i \in Nat /\ i < new
                                     /\ chain[n][i].block \in Nat
                                     /\ chain[n][i].block <= head[n] + 1
  <2>1. DOMAIN chain[n] = 1 .. Len(chain[n]) /\ Len(chain[n]) \in Nat
    BY <1>2
  <2>2. \A i \in DOMAIN chain[n] : chain[n][i].block \in 1 .. head[n] + 1
    BY <1>3 DEF Scans, ChainOrdered
  <2>3. QED
    BY <1>2, <2>1, <2>2
<1> HIDE DEF new
<1>5. ChainOrdered(n)'
  <2>1. ASSUME NEW i \in DOMAIN chain'[n], NEW j \in DOMAIN chain'[n], i <= j
        PROVE  chain'[n][i].block <= chain'[n][j].block
    <3>1. CASE j = new
      BY <1>1, <1>2, <1>4, <3>1
    <3>2. CASE j # new
      <4>1. j \in DOMAIN chain[n] /\ i \in DOMAIN chain[n]
        BY <1>1, <1>4, <2>1, <3>2
      <4>2. QED
        BY <1>1, <1>3, <2>1, <4>1 DEF Scans, ChainOrdered
    <3>3. QED
      BY <3>1, <3>2
  <2>2. \A i \in DOMAIN chain'[n] : chain'[n][i].block \in 1 .. head[n] + 1
    BY <1>1, <1>2, <1>3 DEF Scans, ChainOrdered
  <2>3. QED
    BY <1>3, <2>1, <2>2 DEF Scans, ChainOrdered
<1>6. WhereOK(n)'
  <2>1. ASSUME MidBlock(n)
        PROVE  scanner[n].at \in 1 .. Len(chain'[n]) + 1 /\ Divides(n)'
    <3>1. /\ scanner[n].at \in 1 .. Len(chain[n]) + 1 /\ Divides(n)
          /\ scanner[n].block \in Nat /\ scanner[n].block <= head[n]
          /\ Len(chain[n]) \in Nat
      BY <1>2, <1>3, <2>1 DEF Scans, WhereOK, PlaceOK, ScannerType
    <3>2. ASSUME NEW i \in DOMAIN chain'[n]
          PROVE  /\ i < scanner[n].at => chain'[n][i].block <= scanner[n].block
                 /\ i >= scanner[n].at => chain'[n][i].block >= scanner[n].block
      <4>1. CASE i \in DOMAIN chain[n]
        BY <1>1, <3>1, <4>1 DEF Divides
      <4>2. CASE i = new
        <5>1. chain'[n][i].block >= scanner[n].block
          BY <1>1, <1>2, <3>1, <4>2
        <5>2. i >= scanner[n].at
          BY <3>1, <4>2 DEF new
        <5>3. QED
          BY <1>4, <3>1, <4>2, <5>1, <5>2
      <4>3. QED
        BY <1>1, <4>1, <4>2
    <3>3. scanner[n].at \in 1 .. Len(chain'[n]) + 1
      BY <1>1, <3>1
    <3>4. QED
      BY <3>2, <3>3 DEF Divides
  <2>2. scanner[n].at \in DOMAIN chain[n] => Call(n)' = Call(n)
    BY <1>1 DEF Call
  <2>3. QED
    <3>1. MidBlock(n)' => MidBlock(n)
      BY DEF MidBlock, InSale
    <3>2. InSale(n)' => InSale(n)
      BY DEF InSale
    <3>3. QED
      BY <1>1, <1>3, <2>1, <2>2, <3>1, <3>2 DEF Scans, WhereOK
<1>7. OthersStay(n)
  BY <1>1 DEF OthersStay
<1>8. QED
  BY <1>5, <1>6, <1>7, OthersScan DEF Scans

LEMMA FinishScans ==
  ASSUME SInv, NEW n \in Networks, FinishBlock(n)
  PROVE  \A m \in Networks : Scans(m)'
<1>1. /\ head \in [Networks -> Nat]
      /\ Scans(n)
  BY Places DEF SInv, ChainsOK
<1>2. /\ head'[n] = head[n] + 1
      /\ \A m \in Networks \ {n} : head'[m] = head[m]
      /\ UNCHANGED <<chain, scanned, scanner>>
  BY <1>1 DEF FinishBlock, tables
<1>3. head[n] \in Nat
  BY <1>1
<1>4. /\ \A i \in DOMAIN chain[n] : chain[n][i].block \in 1 .. head'[n] + 1
      /\ scanned[n] \subseteq 1 .. head'[n]
      /\ scanner[n].current \in 1 .. head'[n] + 1
  BY <1>1, <1>2, <1>3 DEF Scans, ChainOrdered, WhereOK
<1>5. ChainOrdered(n)'
  BY <1>1, <1>2, <1>4 DEF Scans, ChainOrdered
<1>6. WhereOK(n)'
  BY <1>1, <1>2, <1>4 DEF Scans, WhereOK, MidBlock, InSale, Divides, Call
<1>7. OthersStay(n)
  BY <1>2 DEF OthersStay
<1>8. QED
  BY <1>5, <1>6, <1>7, OthersScan DEF Scans

\* Where a process begins to scan a block, or to skip it.
LEMMA BeginPlace ==
  ASSUME SInv, NEW n \in Networks, Begin(n)
  PROVE  LET at == scanner'[n].at IN
         /\ scanner'[n].pc = IF scanner[n].current \in scanned[n] THEN "money" ELSE "scan"
         /\ scanner'[n].current = scanner[n].current + 1
         /\ scanner'[n].block = scanner[n].current
         /\ scanner'[n].managed = managed
         /\ \A m \in Networks \ {n} : scanner'[m] = scanner[m]
         /\ at \in 1 .. Len(chain[n]) + 1
         /\ \A i \in DOMAIN chain[n] : i < at <=> chain[n][i].block < scanner[n].current
<1> DEFINE s == scanner[n]
           before == {i \in DOMAIN chain[n] : chain[n][i].block < s.current}
           to == IF s.current \in scanned[n] THEN "money" ELSE "scan"
           s1 == [scanner EXCEPT ![n].pc = to]
           next == s.current + 1
           s2 == [s1 EXCEPT ![n].current = next]
           s3 == [s2 EXCEPT ![n].block = s.current]
           s4 == [s3 EXCEPT ![n].at = Cardinality(before) + 1]
           s5 == [s4 EXCEPT ![n].managed = managed]
<1>1. /\ scanner \in Scanners /\ s.current \in Nat /\ s.current <= head[n]
      /\ to \in Pcs /\ managed \in BOOLEAN
  BY Places DEF SInv, Begin, ScannerType, Pcs, TablesOK
<1>2. /\ before = 1 .. Cardinality(before) /\ Cardinality(before) \in Nat
      /\ Cardinality(before) <= Len(chain[n]) /\ DOMAIN chain[n] = 1 .. Len(chain[n])
      /\ Len(chain[n]) \in Nat
  <2>1. chain[n] \in Seq(CallType) /\ ChainOrdered(n)
    BY Places DEF SInv, Scans, ChainsOK
  <2>2. DOMAIN chain[n] = 1 .. Len(chain[n]) /\ Len(chain[n]) \in Nat
    BY <2>1
  <2>3. ASSUME NEW i \in before, NEW j \in 1 .. Len(chain[n]), j <= i
        PROVE  j \in before
    <3>1. chain[n][j].block <= chain[n][i].block
      BY <2>1, <2>2, <2>3 DEF ChainOrdered
    <3>2. chain[n][j].block \in Nat /\ chain[n][i].block \in Nat
      <4>1. i \in DOMAIN chain[n] /\ j \in DOMAIN chain[n]
        BY <2>2
      <4>2. chain[n][i] \in CallType /\ chain[n][j] \in CallType
        BY <2>1, <4>1
      <4>3. QED
        BY <4>2 DEF CallType
    <3>3. QED
      BY <1>1, <2>2, <3>1, <3>2
  <2>4. before \in SUBSET (1 .. Len(chain[n]))
    BY <2>2
  <2> HIDE DEF before
  <2>5. before = 1 .. Cardinality(before) /\ Cardinality(before) \in Nat
    BY <2>2, <2>3, <2>4, CountPrefix
  <2>6. Cardinality(before) <= Len(chain[n])
    <3> DEFINE c == Cardinality(before)
    <3>1. c \in 1 .. c => c \in 1 .. Len(chain[n])
      BY <2>4, <2>5
    <3> HIDE DEF c
    <3>2. c \in Nat
      BY <2>5 DEF c
    <3>3. c <= Len(chain[n])
      BY <2>2, <3>1, <3>2
    <3>4. QED
      BY <3>3 DEF c
  <2>7. QED
    BY <2>2, <2>5, <2>6
<1>3. Cardinality(before) + 1 \in Nat
  BY <1>2
<1>4. scanner' = s5
  BY <1>1 DEF Begin, Scanners, ScannerType
<1>5. \A i \in DOMAIN chain[n] : i \in before <=> chain[n][i].block < s.current
  OBVIOUS
<1>5a. next \in Nat
  BY <1>1
<1> HIDE DEF before, next
<1>6. /\ s1 \in Scanners /\ s1[n].pc = to
      /\ \A m \in Networks \ {n} : s1[m] = scanner[m]
  BY <1>1, SetPc
<1> HIDE DEF s1
<1>7. /\ s2 \in Scanners /\ s2[n].pc = to /\ s2[n].current = next
      /\ \A m \in Networks \ {n} : s2[m] = scanner[m]
  BY <1>5a, <1>6, SetCurrent
<1> HIDE DEF s2
<1>8. /\ s3 \in Scanners /\ s3[n].pc = to /\ s3[n].current = next
      /\ s3[n].block = s.current
      /\ \A m \in Networks \ {n} : s3[m] = scanner[m]
  BY <1>1, <1>7, SetBlock
<1> HIDE DEF s3
<1>9. /\ s4 \in Scanners /\ s4[n].pc = to /\ s4[n].current = next
      /\ s4[n].block = s.current /\ s4[n].at = Cardinality(before) + 1
      /\ \A m \in Networks \ {n} : s4[m] = scanner[m]
  BY <1>3, <1>8, SetAt
<1> HIDE DEF s4
<1>10. /\ s5 \in Scanners /\ s5[n].pc = to /\ s5[n].current = next
       /\ s5[n].block = s.current /\ s5[n].at = Cardinality(before) + 1
       /\ s5[n].managed = managed
       /\ \A m \in Networks \ {n} : s5[m] = scanner[m]
  BY <1>1, <1>9, SetManaged
<1> HIDE DEF s5
<1> DEFINE at == scanner'[n].at
<1>11. at = Cardinality(before) + 1
  BY <1>4, <1>10
<1> HIDE DEF at
<1>12. at \in 1 .. Len(chain[n]) + 1
  BY <1>2, <1>11
<1>13. \A i \in DOMAIN chain[n] : i < at <=> i \in before
  BY <1>2, <1>11
<1>14. QED
  BY <1>4, <1>5, <1>10, <1>12, <1>13 DEF at, next

LEMMA BeginScans ==
  ASSUME SInv, NEW n \in Networks, Begin(n)
  PROVE  \A m \in Networks : Scans(m)'
<1>1. /\ scanner'[n].pc \in {"money", "scan"}
      /\ scanner'[n].current = scanner[n].current + 1
      /\ scanner'[n].block = scanner[n].current
      /\ \A m \in Networks \ {n} : scanner'[m] = scanner[m]
      /\ scanner'[n].at \in 1 .. Len(chain[n]) + 1
      /\ \A i \in DOMAIN chain[n] :
           i < scanner'[n].at <=> chain[n][i].block < scanner[n].current
  BY BeginPlace
<1>2. /\ Scans(n) /\ head[n] \in Nat /\ chain[n] \in Seq(CallType)
      /\ UNCHANGED <<chain, head, scanned>>
      /\ scanner[n].current <= head[n]
  BY Places DEF SInv, ChainsOK, Begin, outside, tables
<1>3. ChainOrdered(n)'
  BY <1>2 DEF Scans, ChainOrdered
<1>4. scanner[n].current \in 1 .. head[n]
  BY <1>2 DEF Scans, WhereOK
<1>5. Divides(n)'
  <2>1. ASSUME NEW i \in DOMAIN chain[n]
        PROVE  /\ i < scanner'[n].at => chain[n][i].block <= scanner[n].current
               /\ i >= scanner'[n].at => chain[n][i].block >= scanner[n].current
    <3>1. chain[n][i].block \in Nat /\ i \in Nat
      <4>1. chain[n][i] \in CallType /\ i \in Nat
        BY <1>2
      <4>2. QED
        BY <4>1 DEF CallType
    <3>2. i < scanner'[n].at <=> chain[n][i].block < scanner[n].current
      BY <1>1
    <3>3. scanner'[n].at \in Int
      BY <1>1
    <3>4. QED
      BY <1>2, <1>4, <3>1, <3>2, <3>3
  <2>2. QED
    BY <1>1, <1>2, <2>1 DEF Divides
<1>6. WhereOK(n)'
  <2>1. scanner'[n].current \in 1 .. head[n] + 1 /\ scanner'[n].block >= 1
    BY <1>1, <1>2, <1>4
  <2>2. ~InSale(n)' /\ scanner'[n].pc # "register"
    BY <1>1 DEF InSale, Carrying
  <2>3. QED
    BY <1>1, <1>2, <1>5, <2>1, <2>2 DEF WhereOK
<1>7. OthersStay(n)
  BY <1>1, <1>2 DEF OthersStay
<1>8. QED
  BY <1>3, <1>6, <1>7, OthersScan DEF Scans

LEMMA EndOfBlockScans ==
  ASSUME SInv, NEW n \in Networks, EndOfBlock(n)
  PROVE  \A m \in Networks : Scans(m)'
<1>1. /\ scanner[n].pc = "scan" /\ Go(n, "money")
      /\ UNCHANGED <<chain, head>>
      /\ scanned' = [scanned EXCEPT ![n] = @ \cup {scanner[n].block}]
  BY DEF EndOfBlock, outside
<1>2. SetPlace(n, "money", scanner[n].at)
  BY <1>1, GoPlace DEF SInv, Pcs
<1>3. /\ Scans(n) /\ PlaceOK(n) /\ scanned \in [Networks -> SUBSET Nat]
      /\ scanner[n].block \in Nat /\ head[n] \in Nat
  BY Places DEF SInv, TablesOK, ScannerType, ChainsOK
<1>4. scanner[n].block \in 1 .. head[n]
  BY <1>1, <1>3 DEF Scans, WhereOK, MidBlock, PlaceOK
<1>5. ChainOrdered(n)'
  BY <1>1, <1>3, <1>4 DEF Scans, ChainOrdered
<1>6. WhereOK(n)'
  BY <1>1, <1>2, <1>3 DEF Scans, WhereOK, MidBlock, InSale, Carrying, SetPlace
<1>7. OthersStay(n)
  BY <1>1, <1>2, <1>3 DEF OthersStay, SetPlace
<1>8. QED
  BY <1>5, <1>6, <1>7, OthersScan DEF Scans

\* A process starts at a block that is finished or next.
LEMMA StartedScans ==
  ASSUME SInv, NEW n \in Networks, NEW from \in 1 .. head[n] + 1,
         UNCHANGED <<chain, head, scanned>>,
         scanner' = [scanner EXCEPT ![n] = Started(from)]
  PROVE  \A m \in Networks : Scans(m)'
<1>1. Scans(n) /\ scanner \in Scanners
  BY Places DEF SInv
<1>2. /\ scanner'[n] = Started(from)
      /\ \A m \in Networks \ {n} : scanner'[m] = scanner[m]
  BY <1>1 DEF Scanners
<1>3. scanner'[n].pc = "next" /\ scanner'[n].current = from
  BY <1>2 DEF Started
<1>4. ChainOrdered(n)'
  BY <1>1 DEF Scans, ChainOrdered
<1>5. WhereOK(n)'
  BY <1>3 DEF WhereOK, MidBlock, InSale, Carrying
<1>6. OthersStay(n)
  BY <1>2 DEF OthersStay
<1>7. QED
  BY <1>4, <1>5, <1>6, OthersScan DEF Scans

LEMMA CrashScans ==
  ASSUME SInv, NEW n \in Networks, Crash(n)
  PROVE  \A m \in Networks : Scans(m)'
<1> DEFINE from == Max(scanned[n] \cup {1})
<1>1. /\ head[n] \in Nat /\ head[n] + 1 \in Nat
      /\ scanned[n] \cup {1} \subseteq 1 .. head[n] + 1
  BY Places DEF SInv, Scans, ChainOrdered, ChainsOK
<1>2. scanned[n] \cup {1} \in SUBSET (0 .. head[n] + 1)
  BY <1>1
<1>3. from \in scanned[n] \cup {1}
  BY <1>1, <1>2, MaxIsMember
<1>4. from \in 1 .. head[n] + 1
  BY <1>1, <1>3
<1>5. scanner' = [scanner EXCEPT ![n] = Started(from)] /\ UNCHANGED <<chain, head, scanned>>
  BY DEF Crash, outside, tables
<1> HIDE DEF from
<1>6. QED
  BY <1>4, <1>5, StartedScans

LEMMA NoMoreMoneyScans ==
  ASSUME SInv, NEW n \in Networks, NoMoreMoney(n)
  PROVE  \A m \in Networks : Scans(m)'
<1>1. scanner[n].current \in 1 .. head[n] + 1
  BY DEF SInv, Scans, WhereOK
<1>2. QED
  BY <1>1, StartedScans DEF NoMoreMoney, outside, tables

LEMMA ShareBlockScans ==
  ASSUME SInv, ShareBlock
  PROVE  \A m \in Networks : Scans(m)'
<1> DEFINE n == "unique"
<1>1. n \in Networks /\ Scans(n) /\ scanned \in [Networks -> SUBSET Nat]
  BY Places DEF SInv, Networks, TablesOK
<1>2. PICK b \in 1 .. head[n] : scanned' = [scanned EXCEPT ![n] = @ \cup {b}]
  BY DEF ShareBlock
<1>3. UNCHANGED <<chain, head, scanner>>
  BY DEF ShareBlock, outside
<1> HIDE DEF n
<1>4. ChainOrdered(n)'
  BY <1>1, <1>2, <1>3 DEF Scans, ChainOrdered
<1>5. WhereOK(n)'
  BY <1>1, <1>3 DEF Scans, WhereOK, MidBlock, InSale, Divides, Call
<1>6. OthersStay(n)
  BY <1>1, <1>2, <1>3 DEF OthersStay
<1>7. QED
  BY <1>1, <1>4, <1>5, <1>6, OthersScan DEF Scans

\* What no place depends on.
LEMMA NothingScans ==
  ASSUME SInv, UNCHANGED <<chain, head, scanned, scanner>>
  PROVE  \A m \in Networks : Scans(m)'
<1>1. ASSUME NEW m \in Networks PROVE Scans(m)'
  BY DEF SInv, Scans, ChainOrdered, WhereOK, MidBlock, InSale, Divides, Call
<1>2. QED
  BY <1>1

-----------------------------------------------------------------------------
(* The steps of a process within a block.                                  *)

LEMMA SaleGoes ==
  ASSUME SInv, NEW n \in Networks, NEW pc, UNCHANGED <<chain, head, scanned>>,
         SetPlace(n, pc, scanner[n].at), pc \notin {"scan", "register"},
         InSale(n)' => InSale(n)
  PROVE  \A m \in Networks : Scans(m)'
<1>1. Scans(n)
  BY DEF SInv
<1>2. MidBlock(n)' => MidBlock(n)
  BY DEF MidBlock, SetPlace
<1>3. InSale(n)' => /\ scanner[n].at \in DOMAIN chain[n] /\ Call(n).block = scanner[n].block
                    /\ n = "unique" /\ Call(n).method = "buyKSM"
  BY <1>1 DEF Scans, WhereOK
<1>4. QED
  BY <1>2, <1>3, StaysScans

\* The block is left, or the sale goes on.
LEMMA GoScans ==
  ASSUME SInv, NEW n \in Networks, NEW pc \in Pcs \ {"scan", "register"}, Go(n, pc),
         UNCHANGED <<chain, head, scanned>>,
         \/ pc \in {"next", "money"}
         \/ InSale(n)
         \/ pc \in Carrying /\ scanner[n].then # "payout"
  PROVE  \A m \in Networks : Scans(m)'
<1>1. SetPlace(n, pc, scanner[n].at) /\ scanner'[n].then = scanner[n].then
  BY GoPlace DEF SInv
<1>2. InSale(n)' => InSale(n)
  BY <1>1 DEF InSale, SetPlace, Carrying
<1>3. QED
  BY <1>1, <1>2, SaleGoes

\* What is known of the call that a process looks at.
LEMMA AtCall ==
  ASSUME SInv, NEW n \in Networks, NEW method, At(n, method)
  PROVE  /\ scanner[n].pc = "scan" /\ MidBlock(n)
         /\ scanner[n].at \in DOMAIN chain[n] /\ Call(n) \in CallType
         /\ Call(n).block = scanner[n].block /\ Call(n).method = method
  BY CallIsOne DEF At, Call, MidBlock, SInv

LEMMA NextCallScans ==
  ASSUME SInv, NEW n \in Networks, NextCall(n, "scan"), UNCHANGED <<chain, head, scanned>>,
         MidBlock(n), scanner[n].at \in DOMAIN chain[n], Call(n).block = scanner[n].block
  PROVE  \A m \in Networks : Scans(m)'
  BY NextPlace, NextScans DEF SInv, Pcs

LEMMA ExtractScans == SInv /\ Extract => \A m \in Networks : Scans(m)'
<1> SUFFICES ASSUME SInv, Extract PROVE \A m \in Networks : Scans(m)'
  OBVIOUS
<1> DEFINE n == "unique"
<1>1. n \in Networks /\ "kusama" \in Networks /\ IInv
  BY DEF Networks, SInv
<1>2. Scans(n) /\ UNCHANGED <<chain, head, scanned>>
  BY <1>1 DEF SInv, Extract, ProcessAddAsk, RegisterAsk, ProcessCancelAsk, ProcessBuyKSM,
     MarkBought, Deduct, Payout, ProcessWithdrawAllKSM, ProcessTransfer,
     outside, tables
<1>3. CASE ProcessAddAsk
  <2>1. At(n, "addAsk")
    BY <1>3 DEF ProcessAddAsk
  <2>2. CASE Go(n, "register")
    <3>1. SetPlace(n, "register", scanner[n].at)
      BY <1>1, <2>2, GoPlace DEF Pcs
    <3>2. ~InSale(n)'
      BY <3>1 DEF InSale, SetPlace, Carrying
    <3>3. QED
      BY <1>1, <1>2, <2>1, <3>1, <3>2, AtCall, StaysScans
  <2>3. CASE NextCall(n, "scan")
    BY <1>1, <1>2, <2>1, <2>3, AtCall, NextCallScans
  <2>4. QED
    BY <1>3, <2>2, <2>3 DEF ProcessAddAsk
<1>4. CASE RegisterAsk
  <2>1. CASE NextCall(n, "scan")
    BY <1>1, <1>2, <1>4, <2>1, NextCallScans DEF RegisterAsk, Scans, WhereOK, MidBlock
  <2>2. CASE Go(n, "money")
    BY <1>1, <1>2, <2>2, GoScans DEF Pcs
  <2>3. QED
    BY <1>4, <2>1, <2>2 DEF RegisterAsk
<1>5. CASE ProcessCancelAsk
  BY <1>1, <1>2, <1>5, AtCall, NextCallScans DEF ProcessCancelAsk
<1>6. CASE ProcessBuyKSM
  <2>1. At(n, "buyKSM")
    BY <1>6 DEF ProcessBuyKSM
  <2>2. CASE NextCall(n, "scan")
    BY <1>1, <1>2, <2>1, <2>2, AtCall, NextCallScans
  <2>3. ASSUME NEW i \in OpenAsks(Call(n).token),
               scanner' = [scanner EXCEPT ![n].pc = "bought", ![n].ask = i]
        PROVE  \A m \in Networks : Scans(m)'
    <3>1. i \in Nat /\ scanner' = WithAsk(scanner, n, "bought", i)
      BY <1>1, <2>3, Places DEF OpenAsks, TablesOK, WithAsk
    <3>2. SetPlace(n, "bought", scanner[n].at)
      BY <1>1, <3>1, WithAskPlace DEF Pcs
    <3>3. QED
      BY <1>1, <1>2, <2>1, <3>2, AtCall, StaysScans
  <2>4. QED
    BY <1>6, <2>2, <2>3 DEF ProcessBuyKSM
<1>7. CASE MarkBought
  <2>1. InSale(n) /\ Go(n, "deduct")
    BY <1>7 DEF MarkBought, InSale
  <2>2. "deduct" \in Pcs \ {"scan", "register"}
    BY DEF Pcs
  <2>3. QED
    BY <1>1, <1>2, <2>1, <2>2, GoScans
<1>8. CASE Deduct
  <2>1. Len(money) + 1 \in Nat
    BY <1>1, Places DEF TablesOK
  <2>2. scanner' = WithRow(scanner, n, "start", Len(money) + 1, "payout")
    BY <1>8 DEF Deduct, WithRow
  <2>3. SetPlace(n, "start", scanner[n].at)
    <3> DEFINE r == Len(money) + 1
    <3> HIDE DEF r
    <3>1. r \in Nat /\ scanner' = WithRow(scanner, n, "start", r, "payout")
      BY <2>1, <2>2 DEF r
    <3>2. QED
      BY <1>1, <3>1, WithRowPlace DEF Pcs, Thens
  <2>4. InSale(n)
    BY <1>8 DEF Deduct, InSale
  <2>5. "start" \notin {"scan", "register"}
    OBVIOUS
  <2>6. QED
    BY <1>1, <1>2, <2>3, <2>4, <2>5, SaleGoes
<1>9. CASE Payout
  <2>1. InSale(n) /\ MidBlock(n) /\ NextCall(n, "scan")
    BY <1>9 DEF Payout, InSale, MidBlock
  <2>2. QED
    BY <1>1, <1>2, <2>1, NextCallScans DEF Scans, WhereOK
<1>10. CASE ProcessWithdrawAllKSM
  BY <1>1, <1>2, <1>10, AtCall, NextCallScans DEF ProcessWithdrawAllKSM
<1>11. CASE ProcessTransfer
  BY <1>1, <1>2, <1>11, AtCall, NextCallScans DEF ProcessTransfer
<1>12. QED
  BY <1>3, <1>4, <1>5, <1>6, <1>7, <1>8, <1>9, <1>10, <1>11 DEF Extract

LEMMA CarryScans ==
  ASSUME SInv, NEW n \in Networks, Carry(n)
  PROVE  \A m \in Networks : Scans(m)'
<1>1. IInv /\ scanner[n].then \in Thens
  BY Places DEF SInv, ScannerType, Thens
<1>2. CASE Pick(n)
  <2> DEFINE r == Min(Pending(n))
  <2>1. r \in Nat
    <3>1. Pending(n) \in SUBSET Nat
      BY <1>1, Places DEF Pending, TablesOK
    <3>2. QED
      BY <1>2, <3>1, MinIsMember DEF Pick
  <2>2. scanner' = WithRow(scanner, n, "send", r, "money")
    BY <1>2 DEF Pick, WithRow
  <2> HIDE DEF r
  <2>3. SetPlace(n, "send", scanner[n].at) /\ scanner'[n].then = "money"
    BY <1>1, <2>1, <2>2, WithRowPlace DEF Pcs, Thens
  <2>4. ~InSale(n)'
    BY <2>3 DEF SetPlace, InSale
  <2>5. QED
    BY <1>2, <2>3, <2>4, SaleGoes DEF Pick, outside
<1>3. CASE NoMoreMoney(n)
  BY <1>3, NoMoreMoneyScans
<1>4. CASE Send(n)
  BY <1>1, <1>4, GoScans DEF Send, admin, Pcs, InSale, Carrying
<1>5. CASE SendFails(n)
  BY <1>1, <1>5, GoScans DEF SendFails, outside, tables, Pcs, InSale, Carrying
<1>6. CASE Report(n)
  <2>1. /\ Go(n, scanner[n].then) /\ scanner[n].pc \in {"sent", "failed"}
        /\ UNCHANGED <<chain, head, scanned>>
    BY <1>6 DEF Report, Close, outside
  <2>2. scanner[n].then \in Pcs \ {"scan", "register"}
    BY <1>1 DEF Pcs, Thens
  <2> DEFINE pc == scanner[n].then
  <2>3. pc \notin {"next", "money"} => InSale(n)
    BY <1>1, <2>1 DEF InSale, Thens, Carrying
  <2>4. pc \in Pcs \ {"scan", "register"} /\ Go(n, pc)
    BY <2>1, <2>2
  <2> HIDE DEF pc
  <2>5. QED
    BY <2>1, <2>3, <2>4, GoScans
<1>7. QED
  BY <1>2, <1>3, <1>4, <1>5, <1>6 DEF Carry

LEMMA NextKeepsSInv == SInv /\ [Next]_vars => SInv'
<1> SUFFICES ASSUME SInv, [Next]_vars PROVE \A m \in Networks : Scans(m)'
  BY NextKeepsIInv DEF SInv
<1>1. CASE UserStep
  <2>1. CASE UNCHANGED <<chain, head, scanned, scanner>>
    BY <2>1, NothingScans
  <2>2. ASSUME NEW u \in Users, NEW t \in Tokens, NEW v \in Users \cup {Contract},
               CallTransfer(u, t, v)
        PROVE  UNCHANGED <<chain, head, scanned, scanner>>
    BY <2>2 DEF CallTransfer, tables
  <2>3. ASSUME NEW u \in Users, NEW t \in Tokens, CallIgnored(u, t)
        PROVE  UNCHANGED <<chain, head, scanned, scanner>>
    BY <2>3 DEF CallIgnored, tables
  <2>4. QED
    BY <1>1, <2>1, <2>2, <2>3, CallScans DEF UserStep, CallAddAsk, CallCancelAsk, CallBuyKSM,
       CallWithdrawAllKSM, TransferToMarket, tables, Networks
<1>2. ASSUME NEW n \in Networks,
             \/ FinishBlock(n) \/ Begin(n) \/ EndOfBlock(n) \/ Crash(n) \/ Carry(n)
      PROVE  \A m \in Networks : Scans(m)'
  BY <1>2, FinishScans, BeginScans, EndOfBlockScans, CrashScans, CarryScans
<1>3. ASSUME NEW n \in Networks, EmptyBlock(n) \/ ScanFails(n)
      PROVE  \A m \in Networks : Scans(m)'
  BY <1>3, GoScans DEF EmptyBlock, ScanFails, outside, tables, Pcs
<1>4. CASE Extract
  BY <1>4, ExtractScans
<1>5. CASE Start
  <2>1. /\ "unique" \in Networks /\ Go("unique", "send")
        /\ UNCHANGED <<chain, head, scanned>> /\ scanner["unique"].pc = "start"
    BY <1>5 DEF Start, outside, Networks
  <2>2. QED
    BY <2>1, GoScans DEF Pcs, InSale, Carrying
<1>6. CASE AdminStep
  <2>1. CASE ShareBlock
    BY <2>1, ShareBlockScans
  <2>2. QED
    BY <1>6, <2>1, NothingScans DEF AdminStep, MassCancelFind, MassCancelUpdate,
       ToggleCollection, outside, tables
<1>7. CASE UNCHANGED vars
  BY <1>7, NothingScans DEF vars, outside, tables
<1>8. QED
  BY <1>1, <1>2, <1>3, <1>4, <1>5, <1>6, <1>7 DEF Next

LEMMA InitSInv == Init => SInv
<1> SUFFICES ASSUME Init PROVE SInv
  OBVIOUS
<1>1. ASSUME NEW n \in Networks PROVE Scans(n)
  <2>1. /\ chain[n] = <<>> /\ head[n] = 0 /\ scanned[n] = {} /\ scanner[n] = Started(1)
    BY DEF Init
  <2>2. ChainOrdered(n)
    BY <2>1 DEF ChainOrdered
  <2>3. WhereOK(n)
    BY <2>1 DEF WhereOK, MidBlock, InSale, Carrying, Started
  <2>4. QED
    BY <2>2, <2>3 DEF Scans
<1>2. QED
  BY <1>1, InitIInv DEF SInv

(* Each process scans the finished blocks of its chain in order and looks  *)
(* at the calls of a block one after the other, wherever it crashes, fails *)
(* to scan or stops to carry money: the call that it is at divides those of*)
(* the blocks up to its own from those still to come, and a sale is worked *)
(* on at the buyKSM that made it.                                          *)
THEOREM ScanInvariant == Spec => []SInv
<1>1. Init => SInv
  BY InitSInv
<1>2. SInv /\ [Next]_vars => SInv'
  BY NextKeepsSInv
<1>3. QED
  BY <1>1, <1>2, PTL DEF Spec

-----------------------------------------------------------------------------
(* A step as a process sees it: it rests, begins a block or starts anew,   *)
(* leaves the block, works on the call it is at, or goes on to the next.   *)

Rests(n) == scanner'[n] = scanner[n]

Leaves(n) == scanner'[n].current = scanner[n].current /\ ~MidBlock(n)'

Works(n) == /\ MidBlock(n)
            /\ SetPlace(n, scanner'[n].pc, scanner[n].at)
            /\ scanner'[n].pc # "scan"
            /\ scanner'[n].pc = "register" => scanner[n].pc = "scan"

GoesToNext(n) == /\ MidBlock(n)
                 /\ SetPlace(n, "scan", scanner[n].at + 1)
                 /\ scanner[n].at \in DOMAIN chain[n]
                 /\ Call(n).block = scanner[n].block

Keeps(n) == Rests(n) \/ Leaves(n) \/ Works(n) \/ Begin(n) \/ Crash(n)

Moves(n) == Keeps(n) \/ (Extract /\ GoesToNext(n))

\* A process that only goes to another step works, or does not scan.
LEMMA GoMoves ==
  ASSUME SInv, NEW n \in Networks, NEW pc \in Pcs \ {"scan", "register"}, Go(n, pc),
         MidBlock(n) \/ pc \in {"next", "money"}
                     \/ (pc \in Carrying /\ scanner[n].then # "payout")
  PROVE  Keeps(n)
<1>1. SetPlace(n, pc, scanner[n].at) /\ scanner'[n].then = scanner[n].then
  BY GoPlace DEF SInv
<1>2. CASE MidBlock(n)
  BY <1>1, <1>2 DEF Keeps, Works, SetPlace
<1>3. CASE pc \in {"next", "money"} \/ (pc \in Carrying /\ scanner[n].then # "payout")
  <2>1. ~MidBlock(n)'
    BY <1>1, <1>3 DEF MidBlock, InSale, SetPlace, Carrying
  <2>2. QED
    BY <1>1, <2>1 DEF Keeps, Leaves, SetPlace
<1>4. QED
  BY <1>2, <1>3

LEMMA NextCallMoves ==
  ASSUME SInv, NEW n \in Networks, NextCall(n, "scan"), MidBlock(n),
         scanner[n].at \in DOMAIN chain[n], Call(n).block = scanner[n].block
  PROVE  GoesToNext(n)
  BY NextPlace DEF SInv, Pcs, GoesToNext

LEMMA ExtractMoves ==
  SInv /\ Extract => IF ProcessTransfer THEN Rests("unique") /\ GoesToNext("kusama")
                     ELSE Rests("kusama") /\ Moves("unique")
<1> SUFFICES ASSUME SInv, Extract
             PROVE  IF ProcessTransfer THEN Rests("unique") /\ GoesToNext("kusama")
                    ELSE Rests("kusama") /\ Moves("unique")
  OBVIOUS
<1> DEFINE n == "unique"
<1>1. n \in Networks /\ "kusama" \in Networks /\ n # "kusama" /\ IInv /\ scanner \in Scanners
  BY Places DEF Networks, SInv
<1>2. Scans(n)
  BY <1>1 DEF SInv
<1>3. CASE ProcessTransfer
  <2>1. /\ At("kusama", "transfer") /\ NextCall("kusama", "scan")
    BY <1>3 DEF ProcessTransfer
  <2>2. GoesToNext("kusama")
    BY <1>1, <2>1, AtCall, NextCallMoves
  <2>3. Rests(n)
    BY <1>1, <2>2 DEF GoesToNext, SetPlace, Rests
  <2>4. QED
    BY <1>3, <2>2, <2>3
<1>4. ASSUME ~ProcessTransfer PROVE Moves(n)
  <2>1. ASSUME NextCall(n, "scan"), MidBlock(n) /\ scanner[n].at \in DOMAIN chain[n]
                                   /\ Call(n).block = scanner[n].block
        PROVE  Moves(n)
    BY <1>1, <2>1, NextCallMoves DEF Moves
  <2>2. CASE ProcessAddAsk
    <3>1. CASE NextCall(n, "scan")
      BY <1>1, <2>1, <2>2, <3>1, AtCall DEF ProcessAddAsk
    <3>2. CASE Go(n, "register")
      <4>1. SetPlace(n, "register", scanner[n].at)
        BY <1>1, <3>2, GoPlace DEF Pcs
      <4>2. MidBlock(n) /\ scanner[n].pc = "scan"
        BY <1>1, <2>2, AtCall DEF ProcessAddAsk
      <4>3. QED
        BY <4>1, <4>2 DEF Moves, Keeps, Works, SetPlace
    <3>3. QED
      BY <2>2, <3>1, <3>2 DEF ProcessAddAsk
  <2>3. CASE RegisterAsk
    <3>1. CASE NextCall(n, "scan")
      BY <1>2, <2>1, <2>3, <3>1 DEF RegisterAsk, Scans, WhereOK, MidBlock
    <3>2. CASE Go(n, "money")
      BY <1>1, <3>2, GoMoves DEF Moves, Pcs
    <3>3. QED
      BY <2>3, <3>1, <3>2 DEF RegisterAsk
  <2>4. CASE ProcessBuyKSM
    <3>1. At(n, "buyKSM")
      BY <2>4 DEF ProcessBuyKSM
    <3>2. CASE NextCall(n, "scan")
      BY <1>1, <2>1, <3>1, <3>2, AtCall
    <3>3. ASSUME NEW i \in OpenAsks(Call(n).token),
                 scanner' = [scanner EXCEPT ![n].pc = "bought", ![n].ask = i]
          PROVE  Moves(n)
      <4>1. i \in Nat /\ scanner' = WithAsk(scanner, n, "bought", i)
        BY <1>1, <3>3, Places DEF OpenAsks, TablesOK, WithAsk
      <4>2. SetPlace(n, "bought", scanner[n].at)
        BY <1>1, <4>1, WithAskPlace DEF Pcs
      <4>3. MidBlock(n)
        BY <1>1, <3>1, AtCall
      <4>4. QED
        BY <4>2, <4>3 DEF Moves, Keeps, Works, SetPlace
    <3>4. QED
      BY <2>4, <3>2, <3>3 DEF ProcessBuyKSM
  <2>5. CASE MarkBought
    <3>1. MidBlock(n) /\ Go(n, "deduct")
      BY <2>5 DEF MarkBought, MidBlock, InSale
    <3>2. QED
      BY <1>1, <3>1, GoMoves DEF Moves, Pcs
  <2>6. CASE Deduct
    <3> DEFINE r == Len(money) + 1
    <3>1. r \in Nat
      BY <1>1, Places DEF TablesOK
    <3>2. scanner' = WithRow(scanner, n, "start", r, "payout") /\ MidBlock(n)
      BY <2>6 DEF Deduct, WithRow, MidBlock, InSale
    <3> HIDE DEF r
    <3>3. SetPlace(n, "start", scanner[n].at)
      BY <1>1, <3>1, <3>2, WithRowPlace DEF Pcs, Thens
    <3>4. QED
      BY <3>2, <3>3 DEF Moves, Keeps, Works, SetPlace
  <2>7. CASE Payout
    <3>1. InSale(n) /\ MidBlock(n) /\ NextCall(n, "scan")
      BY <2>7 DEF Payout, InSale, MidBlock
    <3>2. QED
      BY <1>2, <2>1, <3>1 DEF Scans, WhereOK
  <2>8. CASE ProcessCancelAsk \/ ProcessWithdrawAllKSM
    BY <1>1, <2>1, <2>8, AtCall DEF ProcessCancelAsk, ProcessWithdrawAllKSM
  <2>9. QED
    BY <1>4, <2>2, <2>3, <2>4, <2>5, <2>6, <2>7, <2>8 DEF Extract
<1>5. ASSUME ~ProcessTransfer PROVE Rests("kusama")
  BY <1>1, <1>5 DEF Extract, ProcessAddAsk, RegisterAsk, ProcessCancelAsk, ProcessBuyKSM,
     MarkBought, Deduct, Payout, ProcessWithdrawAllKSM, Go, NextCall, Scanners,
     Rests
<1>6. QED
  BY <1>3, <1>4, <1>5

\* The others rest when one process takes a step of its loop.
LEMMA LoopMoves ==
  ASSUME SInv, NEW n \in Networks,
         \/ Begin(n) \/ EmptyBlock(n) \/ EndOfBlock(n) \/ ScanFails(n) \/ Crash(n)
         \/ Carry(n)
  PROVE  Keeps(n) /\ \A m \in Networks \ {n} : Rests(m)
<1>1. IInv /\ scanner \in Scanners /\ scanner[n] \in ScannerType
  BY Places DEF SInv
<1>2. ASSUME NEW m \in Networks \ {n} PROVE Rests(m)
  <2>1. CASE \E pc : Go(n, pc)
    BY <1>1, <2>1 DEF Go, Rests, Scanners
  <2>2. CASE Begin(n) \/ Crash(n) \/ NoMoreMoney(n) \/ Pick(n)
    BY <1>1, <2>2 DEF Begin, Crash, NoMoreMoney, Pick, Rests, Scanners
  <2>3. QED
    BY <2>1, <2>2 DEF EmptyBlock, EndOfBlock, ScanFails, Carry, Send, SendFails, Report, Close
<1>2a. SUFFICES Keeps(n)
  BY <1>2
<1>3. CASE EmptyBlock(n) \/ EndOfBlock(n) \/ ScanFails(n)
  BY <1>3, GoMoves DEF EmptyBlock, EndOfBlock, ScanFails, Pcs
<1>4. CASE Begin(n) \/ Crash(n)
  BY <1>4 DEF Keeps
<1>5. CASE NoMoreMoney(n)
  <2>1. scanner'[n] = Started(scanner[n].current)
    BY <1>1, <1>5 DEF NoMoreMoney, Scanners
  <2>2. Leaves(n)
    BY <2>1 DEF Leaves, Started, MidBlock, InSale, Carrying
  <2>3. QED
    BY <2>2 DEF Keeps
<1>6. CASE Pick(n)
  <2> DEFINE r == Min(Pending(n))
  <2>1. r \in Nat
    <3>1. Pending(n) \in SUBSET Nat
      BY <1>1, Places DEF Pending, TablesOK
    <3>2. QED
      BY <1>6, <3>1, MinIsMember DEF Pick
  <2>2. scanner' = WithRow(scanner, n, "send", r, "money")
    BY <1>6 DEF Pick, WithRow
  <2> HIDE DEF r
  <2>3. SetPlace(n, "send", scanner[n].at) /\ scanner'[n].then = "money"
    BY <1>1, <2>1, <2>2, WithRowPlace DEF Pcs, Thens
  <2>4. Leaves(n)
    BY <2>3 DEF SetPlace, InSale, MidBlock, Leaves
  <2>5. QED
    BY <2>4 DEF Keeps
<1>7. CASE Send(n)
  <2>1. /\ Go(n, "sent") /\ "sent" \in Pcs \ {"scan", "register"} /\ "sent" \in Carrying
        /\ MidBlock(n) \/ scanner[n].then # "payout"
    BY <1>7 DEF Send, Pcs, MidBlock, InSale, Carrying
  <2>2. QED
    BY <2>1, GoMoves
<1>8. CASE SendFails(n)
  <2>1. /\ Go(n, "failed") /\ "failed" \in Pcs \ {"scan", "register"} /\ "failed" \in Carrying
        /\ MidBlock(n) \/ scanner[n].then # "payout"
    BY <1>8 DEF SendFails, Pcs, MidBlock, InSale, Carrying
  <2>2. QED
    BY <2>1, GoMoves
<1>9. CASE Report(n)
  <2> DEFINE pc == scanner[n].then
  <2>1. /\ Go(n, pc) /\ pc \in Pcs \ {"scan", "register"}
        /\ MidBlock(n) \/ pc \in {"next", "money"}
    BY <1>1, <1>9 DEF Report, Close, Pcs, MidBlock, InSale, Carrying, ScannerType
  <2> HIDE DEF pc
  <2>2. QED
    BY <2>1, GoMoves
<1>10. QED
  BY <1>3, <1>4, <1>5, <1>6, <1>7, <1>8, <1>9 DEF Carry

LEMMA EveryoneMoves == SInv /\ [Next]_vars => \A n \in Networks : Moves(n)
<1> SUFFICES ASSUME SInv, [Next]_vars PROVE \A n \in Networks : Moves(n)
  OBVIOUS
<1>1. CASE UNCHANGED scanner
  BY <1>1 DEF Moves, Keeps, Rests
<1>2. ASSUME NEW n \in Networks,
             \/ Begin(n) \/ EmptyBlock(n) \/ EndOfBlock(n) \/ ScanFails(n) \/ Crash(n)
             \/ Carry(n)
      PROVE  \A m \in Networks : Moves(m)
  BY <1>2, LoopMoves DEF Moves, Keeps
<1>3. CASE Extract
  BY <1>3, ExtractMoves DEF Moves, Keeps, Networks
<1>4. CASE Start
  <2>1. "unique" \in Networks /\ Go("unique", "send") /\ scanner["unique"].pc = "start"
    BY <1>4 DEF Start, Networks
  <2>2. Keeps("unique")
    <3>1. MidBlock("unique") \/ scanner["unique"].then # "payout"
      BY <2>1 DEF MidBlock, InSale, Carrying
    <3>2. "send" \in Pcs \ {"scan", "register"} /\ "send" \in Carrying
      BY DEF Pcs, Carrying
    <3>3. QED
      BY <2>1, <3>1, <3>2, GoMoves
  <2>3. Rests("kusama")
    BY <2>1, Places DEF SInv, Go, Rests, Scanners, Networks
  <2>4. QED
    BY <2>2, <2>3 DEF Moves, Keeps, Networks
<1>5. CASE UserStep
  BY <1>1, <1>5 DEF UserStep, CallAddAsk, CallCancelAsk, CallBuyKSM, CallTransfer,
     CallIgnored, CallWithdrawAllKSM, TransferToMarket
<1>6. CASE AdminStep
  BY <1>1, <1>6 DEF AdminStep, MassCancelFind, MassCancelUpdate, ToggleCollection, ShareBlock
<1>7. CASE \E n \in Networks : FinishBlock(n)
  BY <1>1, <1>7 DEF FinishBlock
<1>8. CASE UNCHANGED vars
  BY <1>1, <1>8 DEF vars
<1>9. QED
  BY <1>2, <1>3, <1>4, <1>5, <1>6, <1>7, <1>8 DEF Next

\* Calls are added to a chain, after the finished blocks, and never taken away.
ChainGrows(n) ==
  /\ DOMAIN chain[n] \subseteq DOMAIN chain'[n]
  /\ \A i \in DOMAIN chain[n] : chain'[n][i] = chain[n][i]
  /\ \A i \in DOMAIN chain'[n] \ DOMAIN chain[n] : chain'[n][i].block = head'[n] + 1

LEMMA LogGrows ==
  ASSUME IInv, NEW k \in Networks, NEW method, NEW t, NEW u, NEW seller, NEW amount,
         Log(k, method, t, u, seller, amount), UNCHANGED head
  PROVE  \A n \in Networks : ChainGrows(n)
<1> DEFINE c == [block |-> head[k] + 1, method |-> method, token |-> t, who |-> u,
                 seller |-> seller, amount |-> amount]
           new == Len(chain[k]) + 1
<1>1. c.block = head[k] + 1
  OBVIOUS
<1> HIDE DEF c, new
<1>2. /\ DOMAIN chain'[k] = DOMAIN chain[k] \cup {new}
      /\ chain'[k][new] = c
      /\ \A i \in DOMAIN chain[k] : chain'[k][i] = chain[k][i]
      /\ \A m \in Networks \ {k} : chain'[m] = chain[m]
  BY Logged DEF c, new
<1>3. ASSUME NEW n \in Networks PROVE ChainGrows(n)
  <2>1. CASE n = k
    BY <1>1, <1>2, <2>1 DEF ChainGrows
  <2>2. CASE n # k
    BY <1>2, <2>2 DEF ChainGrows
  <2>3. QED
    BY <2>1, <2>2
<1>4. QED
  BY <1>3

LEMMA ChainsGrow == IInv /\ [Next]_vars => \A n \in Networks : ChainGrows(n)
<1> SUFFICES ASSUME IInv, [Next]_vars PROVE \A n \in Networks : ChainGrows(n)
  OBVIOUS
<1>1. CASE UNCHANGED chain
  BY <1>1 DEF ChainGrows
<1>2. CASE UserStep
  <2>1. ASSUME NEW u \in Users, NEW t \in Tokens, NEW v \in Users \cup {Contract},
               CallTransfer(u, t, v)
        PROVE  UNCHANGED chain
    BY <2>1 DEF CallTransfer
  <2>2. ASSUME NEW u \in Users, NEW t \in Tokens, CallIgnored(u, t)
        PROVE  UNCHANGED chain
    BY <2>2 DEF CallIgnored
  <2>3. QED
    BY <1>1, <1>2, <2>1, <2>2, LogGrows DEF UserStep, CallAddAsk, CallCancelAsk, CallBuyKSM,
       CallWithdrawAllKSM, TransferToMarket, Networks
<1>3. CASE ~UserStep
  BY <1>1, <1>3 DEF Next, FinishBlock, Begin, EmptyBlock, EndOfBlock, ScanFails, Crash, Carry,
     Pick, NoMoreMoney, Send, SendFails, Report, Extract, ProcessAddAsk, RegisterAsk,
     ProcessCancelAsk, ProcessBuyKSM, MarkBought, Deduct, Payout, ProcessWithdrawAllKSM,
     ProcessTransfer, Start, AdminStep, MassCancelFind, MassCancelUpdate,
     ToggleCollection, ShareBlock, outside, vars
<1>4. QED
  BY <1>2, <1>3

-----------------------------------------------------------------------------
(* What the steps do to the rows of money_transfer and market_trade.       *)

\* Whose row it is, in which direction and over how much never changes.
SameRows ==
  /\ DOMAIN money' = DOMAIN money
  /\ \A i \in DOMAIN money : /\ money'[i].type = money[i].type /\ money'[i].who = money[i].who
                             /\ money'[i].amount = money[i].amount

LEMMA StatusSameRows ==
  ASSUME IInv, NEW I, NEW s \in Statuses, money' = WithStatus(money, I, s)
  PROVE  SameRows
<1>1. money \in Seq(MoneyType)
  BY DEF IInv, TablesOK
<1>2. /\ DOMAIN money' = DOMAIN money
      /\ \A i \in DOMAIN money : /\ i \notin I => money'[i] = money[i]
                                 /\ i \in I => money'[i] = [money[i] EXCEPT !.status = s]
  BY <1>1, WithStatusKeepsMoney
<1>3. \A i \in DOMAIN money : money[i] \in MoneyType
  BY <1>1
<1>4. ASSUME NEW i \in DOMAIN money
      PROVE  /\ money'[i].type = money[i].type /\ money'[i].who = money[i].who
             /\ money'[i].amount = money[i].amount
  BY <1>2, <1>3 DEF MoneyType
<1>5. QED
  BY <1>2, <1>4 DEF SameRows

Registers == Deduct \/ Payout \/ ProcessWithdrawAllKSM \/ ProcessTransfer

LEMMA RowsStay ==
  ASSUME IInv, [Next]_vars, ~Registers
  PROVE  SameRows
<1>1. CASE UNCHANGED money
  BY <1>1 DEF SameRows
<1>2. ASSUME NEW n \in Networks, Pick(n) PROVE SameRows
  BY <1>2, StatusSameRows DEF Pick, Statuses
<1>3. CASE Start
  BY <1>3, StatusSameRows DEF Start, Statuses
<1>4. ASSUME NEW n \in Networks, Report(n) PROVE SameRows
  BY <1>4, StatusSameRows DEF Report, Close, Statuses
<1>5. ASSUME NEW n \in Networks, Send(n) PROVE SameRows
  <2> DEFINE r == scanner[n].row
  <2>1. r \in DOMAIN money /\ money \in Seq(MoneyType)
    BY <1>5, CarriedRow, Places DEF Send, TablesOK
  <2>2. money' = [money EXCEPT ![r].sent = @ + 1]
    BY <1>5 DEF Send
  <2>3. DOMAIN money' = DOMAIN money
    BY <2>2
  <2> HIDE DEF r
  <2>4. ASSUME NEW i \in DOMAIN money
        PROVE  /\ money'[i].type = money[i].type /\ money'[i].who = money[i].who
               /\ money'[i].amount = money[i].amount
    <3>1. money[i] \in MoneyType
      BY <2>1
    <3>2. CASE i = r
      <4>1. money'[i] = [money[i] EXCEPT !.sent = @ + 1]
        BY <2>1, <2>2, <3>2
      <4>2. QED
        BY <3>1, <4>1 DEF MoneyType
    <3>3. CASE i # r
      BY <2>1, <2>2, <3>3
    <3>4. QED
      BY <3>2, <3>3
  <2>5. QED
    BY <2>3, <2>4 DEF SameRows
<1>6. CASE UserStep \/ AdminStep \/ UNCHANGED vars
  BY <1>1, <1>6 DEF UserStep, CallAddAsk, CallCancelAsk, CallBuyKSM, CallTransfer,
     CallIgnored, CallWithdrawAllKSM, TransferToMarket, AdminStep, MassCancelFind, MassCancelUpdate,
     ToggleCollection, ShareBlock, tables, vars
<1>7. CASE Extract
  BY <1>1, <1>7 DEF Registers, Extract, ProcessAddAsk, RegisterAsk, ProcessCancelAsk,
     ProcessBuyKSM, MarkBought, tables
<1>8. ASSUME NEW n \in Networks,
             \/ FinishBlock(n) \/ Begin(n) \/ EmptyBlock(n) \/ EndOfBlock(n)
             \/ ScanFails(n) \/ Crash(n) \/ NoMoreMoney(n) \/ SendFails(n)
      PROVE  SameRows
  BY <1>1, <1>8 DEF FinishBlock, Begin, EmptyBlock, EndOfBlock, ScanFails, Crash, NoMoreMoney,
     SendFails, tables
<1>9. QED
  BY <1>2, <1>3, <1>4, <1>5, <1>6, <1>7, <1>8 DEF Next, Carry

\* A registered row is added to the others.
LEMMA RowIsAdded ==
  ASSUME IInv, NEW row, money' = Append(money, row)
  PROVE  /\ DOMAIN money' = DOMAIN money \cup {Len(money) + 1}
         /\ Len(money) + 1 \notin DOMAIN money
         /\ money'[Len(money) + 1] = row
         /\ \A i \in DOMAIN money : money'[i] = money[i]
<1>1. money \in Seq(MoneyType \cup {row}) /\ row \in MoneyType \cup {row}
  BY DEF IInv, TablesOK
<1>2. QED
  BY <1>1, AppendKeeps

\* The only step that inserts a row into market_trade.
LEMMA TradesStay ==
  ASSUME [Next]_vars, ~ProcessBuyKSM
  PROVE  UNCHANGED trades
  BY DEF Next, UserStep, CallAddAsk, CallCancelAsk, CallBuyKSM, CallTransfer,
     CallIgnored, CallWithdrawAllKSM, TransferToMarket, FinishBlock, Begin, EmptyBlock, EndOfBlock,
     ScanFails, Crash, Carry, Pick, NoMoreMoney, Send, SendFails, Report, Extract,
     ProcessAddAsk, RegisterAsk, ProcessCancelAsk, MarkBought, Deduct, Payout,
     ProcessWithdrawAllKSM, ProcessTransfer, Start, AdminStep, MassCancelFind,
     MassCancelUpdate, ToggleCollection, ShareBlock, tables, vars

-----------------------------------------------------------------------------
(* Deposits.                                                               *)

\* The transfers of an amount that have a row: those of the blocks that were
\* scanned, and of the block that is being scanned those already looked at.
Recorded(u, a) ==
  {i \in DOMAIN chain["kusama"] :
     LET c == chain["kusama"][i]
         s == scanner["kusama"]
     IN
     /\ c.who = u /\ c.amount = a
     /\ c.block \in scanned["kusama"] \/ (s.pc = "scan" /\ c.block = s.block /\ i < s.at)}

RecordedOK == \A u \in Users, a \in Amounts :
                Cardinality(Recorded(u, a)) <= Cardinality(RowsFor(u, a))

LEMMA KusamaMarks ==
  ASSUME IInv, [Next]_vars, ~EndOfBlock("kusama")
  PROVE  scanned'["kusama"] = scanned["kusama"]
<1>1. scanned \in [Networks -> SUBSET Nat]
  BY DEF IInv, TablesOK
<1>2. CASE EndOfBlock("unique")
  BY <1>1, <1>2 DEF EndOfBlock, Networks
<1>3. CASE ShareBlock
  BY <1>1, <1>3 DEF ShareBlock, Networks
<1>4. CASE UNCHANGED scanned
  BY <1>4
<1>5. QED
  BY <1>2, <1>3, <1>4 DEF Next, UserStep, CallAddAsk, CallCancelAsk, CallBuyKSM, CallTransfer,
     CallIgnored, CallWithdrawAllKSM, TransferToMarket, FinishBlock, Begin, EmptyBlock, Networks,
     ScanFails, Crash, Carry, Pick, NoMoreMoney, Send, SendFails, Report, Extract,
     ProcessAddAsk, RegisterAsk, ProcessCancelAsk, ProcessBuyKSM, MarkBought, Deduct, Payout,
     ProcessWithdrawAllKSM, ProcessTransfer, Start, AdminStep, MassCancelFind,
     MassCancelUpdate, ToggleCollection, outside, tables, admin, vars

LEMMA CrashPlace ==
  ASSUME IInv, NEW n \in Networks, Crash(n)
  PROVE  scanner'[n].pc = "next" /\ scanner'[n].current = Max(scanned[n] \cup {1})
<1>1. scanner \in Scanners
  BY Places
<1>2. scanner'[n] = Started(Max(scanned[n] \cup {1}))
  BY <1>1 DEF Crash, Scanners
<1>3. QED
  BY <1>2 DEF Started

\* At the end of a block nothing of it is left.
LEMMA BlockIsDone ==
  ASSUME SInv, NEW n \in Networks, EndOfBlock(n), NEW i \in DOMAIN chain[n],
         chain[n][i].block = scanner[n].block
  PROVE  i < scanner[n].at
<1>1. /\ Scans(n) /\ MidBlock(n) /\ chain[n] \in Seq(CallType)
      /\ scanner[n] \in ScannerType
  BY Places DEF SInv, EndOfBlock, MidBlock, ChainsOK
<1>2. /\ Divides(n) /\ ChainOrdered(n) /\ scanner[n].at \in 1 .. Len(chain[n]) + 1
      /\ DOMAIN chain[n] = 1 .. Len(chain[n]) /\ Len(chain[n]) \in Nat
  BY <1>1 DEF Scans, WhereOK
<1>3. SUFFICES ASSUME i >= scanner[n].at PROVE FALSE
  BY <1>2
<1> DEFINE at == scanner[n].at
<1>4. at \in DOMAIN chain[n] /\ at <= i
  BY <1>2, <1>3
<1>5. chain[n][at].block <= chain[n][i].block
  BY <1>2, <1>4 DEF ChainOrdered
<1>6. chain[n][at].block >= scanner[n].block
  BY <1>2, <1>4 DEF Divides
<1>7. chain[n][at].block \in Nat /\ scanner[n].block \in Nat
  <2>1. chain[n][at] \in CallType
    BY <1>1, <1>4
  <2>2. QED
    BY <1>1, <2>1 DEF CallType, ScannerType
<1>8. chain[n][at].block = scanner[n].block
  BY <1>5, <1>6, <1>7
<1>9. QED
  BY <1>4, <1>8 DEF EndOfBlock

LEMMA RecordedStays ==
  ASSUME SInv, [Next]_vars, ~ProcessTransfer, NEW u, NEW a
  PROVE  Recorded(u, a)' \subseteq Recorded(u, a)
<1> DEFINE n == "kusama"
<1>1. n \in Networks /\ IInv
  BY DEF Networks, SInv
<1>2. SInv' /\ ChainGrows(n) /\ Moves(n)
  BY <1>1, NextKeepsSInv, ChainsGrow, EveryoneMoves
<1>3. /\ scanner'[n].block <= head'[n] /\ scanned'[n] \subseteq 1 .. head'[n]
      /\ head'[n] \in Nat /\ scanner'[n].block \in Nat
  <2>1. IInv' /\ Scans(n)'
    BY <1>1, <1>2 DEF SInv
  <2>2. PlaceOK(n)' /\ head' \in [Networks -> Nat] /\ scanner' \in Scanners
    BY <1>1, <2>1 DEF IInv, PlacesOK, ChainsOK
  <2>3. QED
    BY <1>1, <2>1, <2>2 DEF Scans, ChainOrdered, PlaceOK, Scanners, ScannerType
<1>4. ASSUME NEW i \in Recorded(u, a)'
      PROVE  i \in Recorded(u, a)
  <2> DEFINE c == chain'[n][i]
  <2>1. /\ i \in DOMAIN chain'[n] /\ c.who = u /\ c.amount = a
        /\ \/ c.block \in scanned'[n]
           \/ scanner'[n].pc = "scan" /\ c.block = scanner'[n].block /\ i < scanner'[n].at
    BY <1>4 DEF Recorded
  <2>2. i \in DOMAIN chain[n] /\ c = chain[n][i]
    <3>1. c.block # head'[n] + 1
      BY <1>3, <2>1
    <3>2. QED
      BY <1>2, <2>1, <3>1 DEF ChainGrows
  <2>3. SUFFICES c.block \in scanned[n] \/ (scanner[n].pc = "scan" /\ c.block = scanner[n].block
                                            /\ i < scanner[n].at)
    BY <2>1, <2>2 DEF Recorded
  <2>4. CASE c.block \in scanned'[n]
    <3>1. CASE EndOfBlock(n)
      <4>1. /\ scanned'[n] = scanned[n] \cup {scanner[n].block} /\ scanner[n].pc = "scan"
        BY <1>1, <3>1, Places DEF EndOfBlock, TablesOK
      <4>2. QED
        BY <1>1, <2>2, <2>4, <3>1, <4>1, BlockIsDone
    <3>2. QED
      BY <1>1, <2>4, <3>1, KusamaMarks
  <2>5. CASE scanner'[n].pc = "scan" /\ c.block = scanner'[n].block /\ i < scanner'[n].at
    <3>1. Rests(n) \/ Begin(n)
      <4>1. ~Leaves(n) /\ ~Works(n)
        BY <2>5 DEF Leaves, MidBlock, Works
      <4>2. ~Crash(n)
        BY <1>1, <2>5, CrashPlace
      <4>3. ASSUME Extract PROVE Rests(n)
        BY <4>3, ExtractMoves
      <4>4. QED
        BY <1>2, <4>1, <4>2, <4>3 DEF Moves, Keeps
    <3>2. CASE Rests(n)
      BY <2>5, <3>2 DEF Rests
    <3>3. CASE Begin(n)
      <4>1. /\ scanner'[n].block = scanner[n].current
            /\ i < scanner'[n].at <=> chain[n][i].block < scanner[n].current
        BY <1>1, <2>2, <3>3, BeginPlace
      <4>2. QED
        BY <1>3, <2>2, <2>5, <4>1
    <3>4. QED
      BY <3>1, <3>2, <3>3
  <2>6. QED
    BY <2>1, <2>4, <2>5
<1>5. QED
  BY <1>4

LEMMA RowsForGrow ==
  ASSUME IInv, [Next]_vars, NEW u, NEW a
  PROVE  RowsFor(u, a) \subseteq RowsFor(u, a)'
<1>1. CASE ~Registers
  <2>1. SameRows
    BY <1>1, RowsStay
  <2>2. QED
    BY <2>1 DEF SameRows, RowsFor
<1>2. CASE Registers
  <2>1. PICK row : money' = Append(money, row)
    BY <1>2 DEF Registers, Deduct, Payout, ProcessWithdrawAllKSM, ProcessTransfer
  <2>2. QED
    BY <2>1, RowIsAdded DEF RowsFor
<1>3. QED
  BY <1>1, <1>2

\* The transfer that is looked at is the only one recorded, and it has its row.
LEMMA TransferIsRecorded ==
  ASSUME SInv, ProcessTransfer, NEW u, NEW a
  PROVE  LET n == "kusama"
             row == Len(money) + 1
         IN
         \/ Recorded(u, a)' \subseteq Recorded(u, a)
         \/ /\ Recorded(u, a)' \subseteq Recorded(u, a) \cup {scanner[n].at}
            /\ scanner[n].at \in DOMAIN chain[n]
            /\ RowsFor(u, a)' = RowsFor(u, a) \cup {row}
            /\ row \notin RowsFor(u, a)
<1> DEFINE n == "kusama"
           at == scanner[n].at
           row == Len(money) + 1
<1>1. n \in Networks /\ IInv /\ At(n, "transfer") /\ UNCHANGED <<chain, scanned>>
  BY DEF Networks, SInv, ProcessTransfer, outside
<1>2. at \in DOMAIN chain[n] /\ scanner[n].pc = "scan" /\ chain[n] \in Seq(CallType)
  BY <1>1, AtCall, Places DEF ChainsOK
<1>3. SetPlace(n, "scan", at + 1)
  BY <1>1, NextPlace DEF ProcessTransfer, Pcs
<1>4. ASSUME NEW i \in Recorded(u, a)', i # at
      PROVE  i \in Recorded(u, a)
  <2>1. i \in DOMAIN chain[n] /\ i \in Nat /\ at \in Nat
    BY <1>1, <1>2 DEF Recorded
  <2>2. i < at + 1 => i < at
    BY <1>4, <2>1
  <2>3. QED
    BY <1>1, <1>2, <1>3, <2>1, <2>2 DEF Recorded, SetPlace
<1>5. CASE Call(n).who = u /\ Call(n).amount = a
  <2>1. money' = Append(money, NewRow("deposit", u, a))
    BY <1>5 DEF ProcessTransfer
  <2>2. /\ DOMAIN money' = DOMAIN money \cup {row} /\ row \notin DOMAIN money
        /\ money'[row] = NewRow("deposit", u, a)
        /\ \A i \in DOMAIN money : money'[i] = money[i]
    BY <1>1, <2>1, RowIsAdded
  <2> HIDE DEF row
  <2>3. RowsFor(u, a)' = RowsFor(u, a) \cup {row}
    BY <2>2 DEF RowsFor, NewRow
  <2>4. row \notin RowsFor(u, a)
    BY <2>2 DEF RowsFor
  <2>5. QED
    BY <1>2, <1>4, <2>3, <2>4 DEF row
<1>6. CASE ~(Call(n).who = u /\ Call(n).amount = a)
  <2>1. at \notin Recorded(u, a)'
    BY <1>1, <1>6 DEF Recorded, Call
  <2>2. QED
    BY <1>4, <2>1
<1>7. QED
  BY <1>5, <1>6

LEMMA DepositsStayRecorded == SInv /\ RecordedOK /\ [Next]_vars => RecordedOK'
<1> SUFFICES ASSUME SInv, RecordedOK, [Next]_vars PROVE RecordedOK'
  OBVIOUS
<1>1. IInv /\ IInv'
  BY NextKeepsIInv DEF SInv
<1>2. /\ money \in Seq(MoneyType) /\ money' \in Seq(MoneyType)
      /\ chain["kusama"] \in Seq(CallType) /\ chain'["kusama"] \in Seq(CallType)
  BY <1>1 DEF IInv, TablesOK, ChainsOK, Networks
<1>3. ASSUME NEW u \in Users, NEW a \in Amounts
      PROVE  Cardinality(Recorded(u, a)') <= Cardinality(RowsFor(u, a)')
  <2> DEFINE R == Recorded(u, a)
             W == RowsFor(u, a)
  <2>1. /\ R \in SUBSET DOMAIN chain["kusama"] /\ R' \in SUBSET DOMAIN chain'["kusama"]
        /\ W \in SUBSET DOMAIN money /\ W' \in SUBSET DOMAIN money'
    BY DEF Recorded, RowsFor
  <2>2. W \subseteq W'
    BY <1>1, RowsForGrow
  <2>3. Cardinality(R) <= Cardinality(W)
    BY DEF RecordedOK
  <2> HIDE DEF R, W
  <2>4. /\ Cardinality(R) \in Nat /\ Cardinality(R') \in Nat
        /\ Cardinality(W) \in Nat /\ Cardinality(W') \in Nat
    BY <1>2, <2>1, PositionsFinite
  <2>5. CASE R' \subseteq R
    <3>1. Cardinality(R') <= Cardinality(R)
      BY <1>2, <2>1, <2>5, MorePositions
    <3>2. Cardinality(W) <= Cardinality(W')
      BY <1>2, <2>1, <2>2, MorePositions
    <3>3. QED
      BY <2>3, <2>4, <3>1, <3>2 DEF R, W
  <2>6. CASE ~(R' \subseteq R)
    <3> DEFINE at == scanner["kusama"].at
               row == Len(money) + 1
    <3>1. ProcessTransfer
      BY <2>6, RecordedStays DEF R
    <3>2. /\ R' \subseteq R \cup {at} /\ at \in DOMAIN chain["kusama"]
          /\ W' = W \cup {row} /\ row \notin W
      BY <2>6, <3>1, TransferIsRecorded DEF R, W
    <3> HIDE DEF at, row
    <3>3. Cardinality(R') <= Cardinality(R) + 1
      BY <1>2, <2>1, <3>2, AtMostOneMorePosition
    <3>4. Cardinality(W') = Cardinality(W) + 1
      <4>1. IsFiniteSet(W)
        BY <1>2, <2>1, PositionsFinite
      <4>2. QED
        BY <3>2, <4>1, FS_AddElement
    <3>5. QED
      BY <2>3, <2>4, <3>3, <3>4 DEF R, W
  <2>7. QED
    BY <2>5, <2>6
<1>4. QED
  BY <1>3 DEF RecordedOK

(* No deposit is forgotten: a transfer in a block that will not be scanned *)
(* again has its row in money_transfer, whatever crashes or fails, for the *)
(* block is marked only after its last call was looked at.                 *)
THEOREM DepositsAreRecorded == Spec => []DepositsRecorded
<1>1. Init => RecordedOK
  <2>1. ASSUME Init, NEW u \in Users, NEW a \in Amounts
        PROVE  Cardinality(Recorded(u, a)) <= Cardinality(RowsFor(u, a))
    <3>1. Recorded(u, a) = {} /\ RowsFor(u, a) = {}
      BY <2>1 DEF Init, Recorded, RowsFor, Networks
    <3>2. QED
      BY <3>1, FS_EmptySet
  <2>2. QED
    BY <2>1 DEF RecordedOK
<1>2. SInv /\ RecordedOK => DepositsRecorded
  <2>1. ASSUME SInv, RecordedOK, NEW u \in Users, NEW a \in Amounts
        PROVE  Cardinality(TransfersOf(u, a)) <= Cardinality(RowsFor(u, a))
    <3>1. TransfersOf(u, a) \subseteq Recorded(u, a)
      BY DEF TransfersOf, Recorded
    <3>2. /\ chain["kusama"] \in Seq(CallType) /\ Recorded(u, a) \in SUBSET DOMAIN chain["kusama"]
          /\ money \in Seq(MoneyType) /\ RowsFor(u, a) \in SUBSET DOMAIN money
      BY <2>1 DEF SInv, IInv, ChainsOK, TablesOK, Networks, Recorded, RowsFor
    <3>3. /\ Cardinality(TransfersOf(u, a)) <= Cardinality(Recorded(u, a))
          /\ Cardinality(TransfersOf(u, a)) \in Nat
      <4>1. TransfersOf(u, a) \in SUBSET DOMAIN chain["kusama"]
        BY <3>1, <3>2
      <4>2. QED
        BY <3>1, <3>2, <4>1, MorePositions, PositionsFinite
    <3>4. Cardinality(Recorded(u, a)) \in Nat /\ Cardinality(RowsFor(u, a)) \in Nat
      BY <3>2, PositionsFinite
    <3>5. Cardinality(Recorded(u, a)) <= Cardinality(RowsFor(u, a))
      BY <2>1 DEF RecordedOK
    <3>6. QED
      BY <3>3, <3>4, <3>5
  <2>2. QED
    BY <2>1 DEF DepositsRecorded
<1>3. QED
  BY <1>1, <1>2, InitSInv, NextKeepsSInv, DepositsStayRecorded, PTL DEF Spec

-----------------------------------------------------------------------------
(* Trades and payouts, as long as no process crashes.                      *)

\* The sales that were booked, if they had an ask, and the calls that were paid.
Booked ==
  {i \in MethodCalls({"buyKSM"}) :
     LET s == scanner["unique"] IN
     /\ s.pc \in {"scan", "register"} => i < s.at
     /\ InSale("unique") => i <= s.at}

Paid ==
  {i \in MethodCalls({"buyKSM", "withdrawAllKSM"}) :
     MidBlock("unique") => i < scanner["unique"].at}

Withdrawals == {i \in DOMAIN money : money[i].type = "withdraw"}

TradesOK == Len(trades) <= Cardinality(Booked)
PayoutsOK == Cardinality(Withdrawals) <= Cardinality(Paid)

LEMMA CallsStayBegun ==
  ASSUME SInv, [Next]_vars, "crash" \notin Allowed, NEW methods
  PROVE  MethodCalls(methods) \subseteq MethodCalls(methods)'
<1> DEFINE n == "unique"
<1>1. n \in Networks /\ IInv
  BY DEF Networks, SInv
<1>2. /\ ChainGrows(n) /\ Moves(n) /\ scanner[n].current \in Nat
      /\ chain[n] \in Seq(CallType)
  BY <1>1, ChainsGrow, EveryoneMoves, Places DEF ScannerType, ChainsOK
<1>3. scanner'[n].current \in {scanner[n].current, scanner[n].current + 1}
  <2>1. ~Crash(n)
    BY DEF Crash
  <2>2. CASE Begin(n)
    BY <1>1, <2>2, BeginPlace
  <2>3. CASE ~Begin(n)
    BY <1>2, <2>1, <2>3 DEF Moves, Keeps, Rests, Leaves, Works, GoesToNext, SetPlace
  <2>4. QED
    BY <2>2, <2>3
<1>4. ASSUME NEW i \in MethodCalls(methods) PROVE i \in MethodCalls(methods)'
  <2>1. /\ i \in DOMAIN chain[n] /\ chain[n][i].method \in methods
        /\ chain[n][i].block < scanner[n].current
    BY DEF MethodCalls, Begun
  <2>2. chain[n][i] \in CallType
    BY <1>2, <2>1
  <2>3. i \in DOMAIN chain'[n] /\ chain'[n][i] = chain[n][i]
    BY <1>2, <2>1 DEF ChainGrows
  <2>4. chain[n][i].block < scanner'[n].current
    BY <1>2, <1>3, <2>1, <2>2 DEF CallType
  <2>5. QED
    BY <2>1, <2>3, <2>4 DEF MethodCalls, Begun
<1>5. QED
  BY <1>4

\* What was booked stays booked and what was paid stays paid.
LEMMA BookedStays ==
  ASSUME SInv, [Next]_vars, "crash" \notin Allowed
  PROVE  Booked \subseteq Booked' /\ Paid \subseteq Paid'
<1> DEFINE n == "unique"
           s == scanner[n]
<1>1. /\ n \in Networks /\ IInv /\ s.at \in Nat /\ chain[n] \in Seq(CallType)
      /\ Moves(n) /\ ~Crash(n)
  BY EveryoneMoves, Places DEF Networks, SInv, ScannerType, ChainsOK, Crash
<1>2. ASSUME NEW i \in DOMAIN chain[n], chain[n][i].block < s.current,
             s.pc \in {"scan", "register"} => i < s.at, InSale(n) => i <= s.at
      PROVE  /\ scanner'[n].pc \in {"scan", "register"} => i < scanner'[n].at
             /\ InSale(n)' => i <= scanner'[n].at
             /\ (MidBlock(n) => i < s.at) => (MidBlock(n)' => i < scanner'[n].at)
  <2>1. i \in Nat
    BY <1>1
  <2>2. CASE Rests(n)
    BY <1>2, <2>2 DEF Rests, InSale, MidBlock
  <2>3. CASE Leaves(n)
    BY <2>3 DEF Leaves, MidBlock
  <2>4. CASE Works(n)
    <3>1. MidBlock(n) => i <= s.at
      BY <1>1, <1>2, <2>1 DEF MidBlock
    <3>2. QED
      BY <1>2, <2>4, <3>1 DEF Works, SetPlace
  <2>5. CASE GoesToNext(n)
    <3>1. i <= s.at
      BY <1>1, <1>2, <2>1, <2>5 DEF GoesToNext, MidBlock
    <3>2. i < s.at + 1
      BY <1>1, <2>1, <3>1
    <3>3. i < scanner'[n].at /\ ~InSale(n)'
      BY <2>5, <3>2 DEF GoesToNext, SetPlace, InSale, Carrying
    <3>4. QED
      BY <3>3
  <2>6. CASE Begin(n)
    <3>1. /\ i < scanner'[n].at
          /\ scanner'[n].pc \in {"money", "scan"}
      BY <1>1, <1>2, <2>6, BeginPlace
    <3>2. ~InSale(n)'
      BY <3>1 DEF InSale, Carrying
    <3>3. QED
      BY <3>1, <3>2
  <2>7. QED
    BY <1>1, <2>2, <2>3, <2>4, <2>5, <2>6 DEF Moves, Keeps
<1>3. ASSUME NEW i \in Booked PROVE i \in Booked'
  <2>1. i \in MethodCalls({"buyKSM"})'
    BY <1>1, CallsStayBegun DEF Booked
  <2>2. QED
    BY <1>2, <2>1 DEF Booked, MethodCalls, Begun
<1>4. ASSUME NEW i \in Paid PROVE i \in Paid'
  <2>1. i \in MethodCalls({"buyKSM", "withdrawAllKSM"})'
    BY <1>1, CallsStayBegun DEF Paid
  <2>2. /\ i \in DOMAIN chain[n] /\ chain[n][i].block < s.current /\ i \in Nat
        /\ MidBlock(n) => i < s.at
    BY <1>1 DEF Paid, MethodCalls, Begun
  <2>3. (s.pc \in {"scan", "register"} => i < s.at) /\ (InSale(n) => i <= s.at)
    BY <1>1, <2>2 DEF MidBlock
  <2>4. MidBlock(n)' => i < scanner'[n].at
    BY <1>2, <2>2, <2>3
  <2>5. QED
    BY <2>1, <2>4 DEF Paid
<1>5. QED
  BY <1>3, <1>4

\* The call that a process is at has begun.
LEMMA CallHasBegun ==
  ASSUME SInv, MidBlock("unique"), scanner["unique"].at \in DOMAIN chain["unique"],
         Call("unique").block = scanner["unique"].block
  PROVE  scanner["unique"].at \in Begun
<1> DEFINE n == "unique"
<1>1. n \in Networks /\ Scans(n) /\ scanner[n] \in ScannerType
  BY Places DEF Networks, SInv
<1>2. scanner[n].current = scanner[n].block + 1 /\ scanner[n].block \in Nat
  BY <1>1 DEF Scans, WhereOK, ScannerType
<1>3. QED
  BY <1>2 DEF Begun, Call

LEMMA CountsArePositions ==
  ASSUME IInv
  PROVE  /\ chain["unique"] \in Seq(CallType) /\ money \in Seq(MoneyType)
         /\ Booked \in SUBSET DOMAIN chain["unique"] /\ Paid \in SUBSET DOMAIN chain["unique"]
         /\ Withdrawals \in SUBSET DOMAIN money
         /\ Len(trades) \in Nat /\ trades \in Seq(TradeType)
  BY DEF IInv, ChainsOK, TablesOK, Networks, Booked, Paid, MethodCalls, Begun, Withdrawals

\* A new trade is of a sale that had none.
LEMMA TradeIsBooked ==
  ASSUME SInv, ProcessBuyKSM, trades' # trades
  PROVE  LET at == scanner["unique"].at IN
         /\ at \in DOMAIN chain["unique"] /\ at \notin Booked /\ at \in Booked'
         /\ Len(trades') = Len(trades) + 1
<1> DEFINE n == "unique"
           at == scanner[n].at
<1>1. n \in Networks /\ IInv /\ At(n, "buyKSM") /\ UNCHANGED chain
  BY DEF Networks, SInv, ProcessBuyKSM, outside
<1>2. /\ at \in DOMAIN chain[n] /\ scanner[n].pc = "scan" /\ MidBlock(n)
      /\ Call(n).block = scanner[n].block /\ Call(n).method = "buyKSM"
      /\ at \in Begun /\ at \in Nat
  BY <1>1, AtCall, CallHasBegun, Places DEF ScannerType
<1>3. PICK i \in OpenAsks(Call(n).token) :
        /\ trades' = Append(trades, [buyer |-> Call(n).who, seller |-> asks[i].seller,
                                     originPrice |-> asks[i].price])
        /\ scanner' = [scanner EXCEPT ![n].pc = "bought", ![n].ask = i]
  BY DEF ProcessBuyKSM
<1>4. SetPlace(n, "bought", at)
  <2>1. i \in Nat /\ scanner' = WithAsk(scanner, n, "bought", i)
    BY <1>1, <1>3, Places DEF OpenAsks, TablesOK, WithAsk
  <2>2. QED
    BY <1>1, <2>1, WithAskPlace DEF Pcs
<1>5. at \notin Booked
  BY <1>2 DEF Booked
<1>6. at \in Booked'
  <2>1. at \in MethodCalls({"buyKSM"})'
    BY <1>1, <1>2, <1>4 DEF MethodCalls, Begun, Call, SetPlace
  <2>2. QED
    BY <1>2, <1>4, <2>1 DEF Booked, SetPlace
<1>7. Len(trades') = Len(trades) + 1
  <2> DEFINE row == [buyer |-> Call(n).who, seller |-> asks[i].seller,
                     originPrice |-> asks[i].price]
  <2>1. trades \in Seq(TradeType \cup {row}) /\ trades' = Append(trades, row)
    BY <1>1, <1>3, CountsArePositions
  <2> HIDE DEF row
  <2>2. QED
    BY <2>1
<1>8. QED
  BY <1>2, <1>5, <1>6, <1>7

LEMMA TradesStayBooked ==
  ASSUME SInv, TradesOK, [Next]_vars, "crash" \notin Allowed
  PROVE  TradesOK'
<1>1. IInv /\ IInv'
  BY NextKeepsIInv DEF SInv
<1>2. /\ Booked \in SUBSET DOMAIN chain["unique"] /\ Len(trades) \in Nat
      /\ chain["unique"] \in Seq(CallType)
      /\ Booked' \in SUBSET DOMAIN chain'["unique"] /\ chain'["unique"] \in Seq(CallType)
  <2>1. /\ Booked' \in SUBSET DOMAIN chain'["unique"] /\ chain'["unique"] \in Seq(CallType)
    BY <1>1 DEF IInv, ChainsOK, Networks, Booked, MethodCalls, Begun
  <2>2. QED
    BY <1>1, <2>1, CountsArePositions
<1>3. Booked \subseteq Booked'
  BY BookedStays
<1>4. Cardinality(Booked) \in Nat /\ Cardinality(Booked') \in Nat
  BY <1>2, PositionsFinite
<1>5. CASE UNCHANGED trades
  <2>1. Cardinality(Booked) <= Cardinality(Booked')
    BY <1>2, <1>3, MorePositions
  <2>2. QED
    BY <1>2, <1>4, <1>5, <2>1 DEF TradesOK
<1>6. CASE trades' # trades
  <2> DEFINE at == scanner["unique"].at
  <2>1. /\ at \in DOMAIN chain["unique"] /\ at \notin Booked /\ at \in Booked'
        /\ Len(trades') = Len(trades) + 1
    BY <1>6, TradesStay, TradeIsBooked
  <2> HIDE DEF at
  <2>2. Cardinality(Booked \cup {at}) = Cardinality(Booked) + 1
    BY <1>2, <2>1, OneMorePosition
  <2>3. Cardinality(Booked \cup {at}) <= Cardinality(Booked')
    <3>1. Booked \cup {at} \subseteq Booked'
      BY <1>3, <2>1
    <3>2. QED
      BY <1>2, <3>1, MorePositions
  <2>4. QED
    BY <1>2, <1>4, <2>1, <2>2, <2>3 DEF TradesOK
<1>7. QED
  BY <1>5, <1>6

(* As long as no process crashes, a sale has one trade at most, whatever   *)
(* fails, although scans break off and the administrator and the auctions  *)
(* write the escrow's tables: the place of the process only goes forward.  *)
THEOREM SalesTradedOnce ==
  ASSUME "crash" \notin Allowed
  PROVE  Spec => []NoTradeTwice
<1>1. Init => TradesOK
  <2>1. ASSUME Init PROVE TradesOK
    <3>1. Len(trades) = 0 /\ Booked = {}
      BY <2>1 DEF Init, Networks, Booked, MethodCalls, Begun
    <3>2. QED
      BY <3>1, FS_EmptySet DEF TradesOK
  <2>2. QED
    BY <2>1
<1>2. SInv /\ TradesOK => NoTradeTwice
  <2>1. ASSUME SInv, TradesOK PROVE NoTradeTwice
    <3> DEFINE S == MethodCalls({"buyKSM"})
    <3>1. /\ S \in SUBSET DOMAIN chain["unique"] /\ chain["unique"] \in Seq(CallType)
          /\ Booked \in SUBSET S /\ Len(trades) \in Nat
      BY <2>1, CountsArePositions DEF SInv, Booked, MethodCalls, Begun
    <3> HIDE DEF S
    <3>2. Cardinality(Booked) <= Cardinality(S)
      BY <3>1, MorePositions
    <3>3. Cardinality(Booked) \in Nat /\ Cardinality(S) \in Nat
      <4>1. Booked \in SUBSET DOMAIN chain["unique"]
        BY <3>1
      <4>2. QED
        BY <3>1, <4>1, PositionsFinite
    <3>4. Len(trades) <= Cardinality(S)
      BY <2>1, <3>1, <3>2, <3>3 DEF TradesOK
    <3>5. QED
      BY <3>4 DEF NoTradeTwice, S
  <2>2. QED
    BY <2>1
<1>3. SInv /\ TradesOK /\ [Next]_vars => TradesOK'
  BY TradesStayBooked
<1>4. QED
  BY <1>1, <1>2, <1>3, InitSInv, NextKeepsSInv, PTL DEF Spec

\* A withdrawal is inserted for a sale or a withdrawAllKSM that had none.
LEMMA WithdrawalIsPaid ==
  ASSUME SInv, Payout \/ ProcessWithdrawAllKSM
  PROVE  LET at == scanner["unique"].at
             row == Len(money) + 1
         IN
         /\ at \in DOMAIN chain["unique"] /\ at \notin Paid /\ at \in Paid'
         /\ Withdrawals' = Withdrawals \cup {row} /\ row \notin Withdrawals
<1> DEFINE n == "unique"
           at == scanner[n].at
           new == Len(money) + 1
<1>1. n \in Networks /\ IInv /\ NextCall(n, "scan") /\ UNCHANGED chain
  BY DEF Networks, SInv, Payout, ProcessWithdrawAllKSM, outside
<1>2. /\ MidBlock(n) /\ at \in DOMAIN chain[n] /\ Call(n).block = scanner[n].block
      /\ Call(n).method \in {"buyKSM", "withdrawAllKSM"}
  <2>1. CASE Payout
    <3>1. InSale(n) /\ Scans(n)
      BY <1>1, <2>1 DEF Payout, InSale, SInv
    <3>2. QED
      BY <3>1 DEF Scans, WhereOK, MidBlock
  <2>2. CASE ProcessWithdrawAllKSM
    BY <1>1, <2>2, AtCall DEF ProcessWithdrawAllKSM
  <2>3. QED
    BY <2>1, <2>2
<1>3. at \in Begun /\ at \in Nat
  BY <1>1, <1>2, CallHasBegun, Places DEF ScannerType
<1>4. SetPlace(n, "scan", at + 1)
  BY <1>1, NextPlace DEF Pcs
<1>5. at \notin Paid
  BY <1>2, <1>3 DEF Paid
<1>6. at \in Paid'
  <2>1. at \in MethodCalls({"buyKSM", "withdrawAllKSM"})'
    BY <1>1, <1>2, <1>3, <1>4 DEF MethodCalls, Begun, Call, SetPlace
  <2>2. at < scanner'[n].at
    BY <1>3, <1>4 DEF SetPlace
  <2>3. QED
    BY <2>1, <2>2 DEF Paid
<1>7. PICK row : money' = Append(money, row) /\ row.type = "withdraw"
  BY DEF Payout, ProcessWithdrawAllKSM, NewRow
<1>8. /\ DOMAIN money' = DOMAIN money \cup {new} /\ new \notin DOMAIN money
      /\ money'[new] = row
      /\ \A i \in DOMAIN money : money'[i] = money[i]
  BY <1>1, <1>7, RowIsAdded
<1> HIDE DEF new
<1>9. Withdrawals' = Withdrawals \cup {new} /\ new \notin Withdrawals
  BY <1>7, <1>8 DEF Withdrawals
<1>10. QED
  BY <1>2, <1>5, <1>6, <1>9 DEF new

LEMMA WithdrawalsStay ==
  ASSUME SInv, [Next]_vars, ~Payout, ~ProcessWithdrawAllKSM
  PROVE  Withdrawals' = Withdrawals
<1>1. IInv
  BY DEF SInv
<1>2. CASE ~Registers
  BY <1>1, <1>2, RowsStay DEF SameRows, Withdrawals
<1>3. CASE Registers
  <2>1. PICK row : money' = Append(money, row) /\ row.type = "deposit"
    BY <1>3 DEF Registers, Deduct, ProcessTransfer, NewRow
  <2> DEFINE new == Len(money) + 1
  <2>2. /\ DOMAIN money' = DOMAIN money \cup {new}
        /\ money'[new] = row
        /\ \A i \in DOMAIN money : money'[i] = money[i]
    BY <1>1, <2>1, RowIsAdded
  <2> HIDE DEF new
  <2>3. QED
    BY <2>1, <2>2 DEF Withdrawals
<1>4. QED
  BY <1>2, <1>3

LEMMA PayoutsStayPaid ==
  ASSUME SInv, PayoutsOK, [Next]_vars, "crash" \notin Allowed
  PROVE  PayoutsOK'
<1>1. IInv /\ IInv'
  BY NextKeepsIInv DEF SInv
<1>2. /\ Paid \in SUBSET DOMAIN chain["unique"] /\ chain["unique"] \in Seq(CallType)
      /\ Withdrawals \in SUBSET DOMAIN money /\ money \in Seq(MoneyType)
      /\ Paid' \in SUBSET DOMAIN chain'["unique"] /\ chain'["unique"] \in Seq(CallType)
  <2>1. Paid' \in SUBSET DOMAIN chain'["unique"] /\ chain'["unique"] \in Seq(CallType)
    BY <1>1 DEF IInv, ChainsOK, Networks, Paid, MethodCalls, Begun
  <2>2. QED
    BY <1>1, <2>1, CountsArePositions
<1>3. Paid \subseteq Paid'
  BY BookedStays
<1>4. /\ Cardinality(Paid) \in Nat /\ Cardinality(Paid') \in Nat
      /\ Cardinality(Withdrawals) \in Nat /\ IsFiniteSet(Withdrawals)
  BY <1>2, PositionsFinite
<1>5. CASE Withdrawals' = Withdrawals
  <2>1. Cardinality(Paid) <= Cardinality(Paid')
    BY <1>2, <1>3, MorePositions
  <2>2. Cardinality(Withdrawals') = Cardinality(Withdrawals)
    BY <1>5
  <2>3. QED
    BY <1>4, <2>1, <2>2 DEF PayoutsOK
<1>6. CASE Withdrawals' # Withdrawals
  <2> DEFINE at == scanner["unique"].at
             row == Len(money) + 1
  <2>1. /\ at \in DOMAIN chain["unique"] /\ at \notin Paid /\ at \in Paid'
        /\ Withdrawals' = Withdrawals \cup {row} /\ row \notin Withdrawals
    BY <1>6, WithdrawalsStay, WithdrawalIsPaid
  <2> HIDE DEF at, row
  <2>2. Cardinality(Paid \cup {at}) = Cardinality(Paid) + 1
    BY <1>2, <2>1, OneMorePosition
  <2>3. Cardinality(Paid \cup {at}) <= Cardinality(Paid')
    <3>1. Paid \cup {at} \subseteq Paid'
      BY <1>3, <2>1
    <3>2. QED
      BY <1>2, <3>1, MorePositions
  <2>4. Cardinality(Withdrawals') = Cardinality(Withdrawals) + 1
    BY <1>4, <2>1, FS_AddElement
  <2>5. QED
    BY <1>4, <2>2, <2>3, <2>4 DEF PayoutsOK
<1>7. QED
  BY <1>5, <1>6

(* As long as no process crashes nobody is paid twice: there is at most    *)
(* one withdrawal for each sale and each withdrawAllKSM, though a row is   *)
(* registered several steps after the trade and its transfers may fail.    *)
THEOREM PaidOutOnce ==
  ASSUME "crash" \notin Allowed
  PROVE  Spec => []NoPayoutTwice
<1>1. Init => PayoutsOK
  <2>1. ASSUME Init PROVE PayoutsOK
    <3>1. Withdrawals = {} /\ Paid = {}
      BY <2>1 DEF Init, Networks, Withdrawals, Paid, MethodCalls, Begun
    <3>2. QED
      BY <3>1, FS_EmptySet DEF PayoutsOK
  <2>2. QED
    BY <2>1
<1>2. SInv /\ PayoutsOK => NoPayoutTwice
  <2>1. ASSUME SInv, PayoutsOK PROVE NoPayoutTwice
    <3> DEFINE S == MethodCalls({"buyKSM", "withdrawAllKSM"})
    <3>1. /\ S \in SUBSET DOMAIN chain["unique"] /\ chain["unique"] \in Seq(CallType)
          /\ Paid \in SUBSET S
          /\ Withdrawals \in SUBSET DOMAIN money /\ money \in Seq(MoneyType)
      BY <2>1, CountsArePositions DEF SInv, Paid, MethodCalls, Begun
    <3> HIDE DEF S
    <3>2. Cardinality(Paid) <= Cardinality(S)
      BY <3>1, MorePositions
    <3>3. /\ Cardinality(Paid) \in Nat /\ Cardinality(S) \in Nat
          /\ Cardinality(Withdrawals) \in Nat
      <4>1. Paid \in SUBSET DOMAIN chain["unique"]
        BY <3>1
      <4>2. QED
        BY <3>1, <4>1, PositionsFinite
    <3>4. Cardinality(Withdrawals) <= Cardinality(S)
      BY <2>1, <3>2, <3>3 DEF PayoutsOK
    <3>5. QED
      BY <3>4 DEF NoPayoutTwice, S, Withdrawals
  <2>2. QED
    BY <2>1
<1>3. SInv /\ PayoutsOK /\ [Next]_vars => PayoutsOK'
  BY PayoutsStayPaid
<1>4. QED
  BY <1>1, <1>2, <1>3, InitSInv, NextKeepsSInv, PTL DEF Spec

=============================================================================
