------------------------- MODULE EscrowMirrorProofs -------------------------
(***************************************************************************)
(* contract_ask mirrors the contract's offers: what the rows lack to be the*)
(* orders of the contract is told by the calls that are still to be done,  *)
(* and a sale finds the ask of the addAsk before it.  This needs calls that*)
(* the scanner knows, tokens that come to the contract by addAsk, blocks   *)
(* that are scanned to their end, and nobody else who writes these tables; *)
(* processes may crash and transfers may fail.                             *)
(***************************************************************************)
EXTENDS EscrowProofs

\* What an escrow that mirrors the contract is spared.
Undisturbed ==
  Allowed \cap {"scanFails", "edit", "direct", "massCancel", "disable", "sharedBlocks"} = {}

-----------------------------------------------------------------------------
(* What is left to do with the calls of the chain.                         *)

OfferMethods == {"addAsk", "cancelAsk", "buyKSM"}

CallsOf(t) == {i \in DOMAIN chain["unique"] : /\ chain["unique"][i].method \in OfferMethods
                                              /\ chain["unique"][i].token = t}

Bought(i) == chain["unique"][i].method = "buyKSM"

Undone(i) == chain["unique"][i].block \notin scanned["unique"]

\* After the ask of a sale was marked.
Sold == \/ scanner["unique"].pc \in {"deduct", "payout"}
        \/ scanner["unique"].pc \in Carrying /\ scanner["unique"].then = "payout"

\* The calls of a token of which contract_ask does not tell yet.
Todo(i) == /\ Undone(i)
           /\ scanner["unique"].pc \in {"scan", "register", "bought"} => i >= scanner["unique"].at
           /\ Sold => i > scanner["unique"].at

TodoOf(t) == {i \in CallsOf(t) : Todo(i)}

\* The sales of which market_trade does not tell yet.
ToTrade(i) == /\ Undone(i)
              /\ scanner["unique"].pc \in {"scan", "register"} => i >= scanner["unique"].at
              /\ InSale("unique") => i > scanner["unique"].at

Untraded == {i \in DOMAIN chain["unique"] : Bought(i) /\ ToTrade(i)}

-----------------------------------------------------------------------------
(* The invariant.                                                          *)

Matches(t, u, p) == \E i \in OpenAsks(t) : asks[i].seller = u /\ asks[i].price = p

\* contract_ask tells the truth about a token.
Mirrors(t) == IF order[t].active THEN Matches(t, order[t].owner, order[t].price)
              ELSE OpenAsks(t) = {}

OpenFor(i) ==
  Matches(chain["unique"][i].token, chain["unique"][i].seller, chain["unique"][i].amount)

HasTrade(i) == \E j \in DOMAIN trades : trades[j] = TradeOf(chain["unique"][i])

\* It does so when no call is left; and the next sale finds its ask, unless it is
\* done again after a crash.
Tells(t) ==
  /\ TodoOf(t) = {} => Mirrors(t)
  /\ \A i \in TodoOf(t) : Bought(i) /\ (\A j \in TodoOf(t) : i <= j) =>
       OpenFor(i) \/ ("crash" \in Allowed /\ HasTrade(i))

Traded == {i \in DOMAIN chain["unique"] : Bought(i) /\ i \notin Untraded}

\* Sales have trades, and not the same one unless they are done again after a crash.
SalesTraded == /\ \A i \in Traded : HasTrade(i)
               /\ "crash" \notin Allowed => Cardinality(Traded) <= Len(trades)

\* The blocks are marked in order, and read once more after a crash at most.
Marked ==
  LET s == scanner["unique"] IN
  IF MidBlock("unique") THEN scanned["unique"] = 1 .. s.block - 1
  ELSE scanned["unique"] = 1 .. s.current - 1 \/ scanned["unique"] = 1 .. s.current

IsOffer(i, u, p) == /\ chain["unique"][i].method = "addAsk"
                    /\ chain["unique"][i].who = u /\ chain["unique"][i].amount = p

LastCall(t, i) == \A j \in CallsOf(t) : j <= i

\* The last call of a token is the one that made its order what it is.
OrderTold(t) ==
  /\ IF order[t].active
     THEN \E i \in CallsOf(t) : LastCall(t, i) /\ IsOffer(i, order[t].owner, order[t].price)
     ELSE \A i \in CallsOf(t) : LastCall(t, i) => chain["unique"][i].method # "addAsk"
  /\ nft[t] = Contract => order[t].active

Precedes(i, j) == LET S == CallsOf(chain["unique"][j].token) IN
                  i \in S /\ i < j /\ \A m \in S : m <= i \/ m >= j

\* What is bought was offered by the call before, on the same terms.
SaleTold(j) ==
  Bought(j) => \E i \in DOMAIN chain["unique"] :
                 /\ Precedes(i, j)
                 /\ IsOffer(i, chain["unique"][j].seller, chain["unique"][j].amount)

ChainTells == /\ \A t \in Tokens : OrderTold(t)
              /\ \A j \in DOMAIN chain["unique"] : SaleTold(j)

AsksClean == /\ \A i \in DOMAIN asks : asks[i].status # "removed_by_admin"
             /\ IndexHolds(asks)

MemoryOK == /\ managed /\ removal = {}
            /\ MidBlock("unique") => scanner["unique"].managed
            /\ scanner["unique"].pc = "register" => OpenAsks(Call("unique").token) = {}

MInv == /\ SInv /\ Marked /\ ChainTells /\ AsksClean /\ MemoryOK
        /\ \A t \in Tokens : Tells(t)
        /\ SalesTraded

-----------------------------------------------------------------------------
(* What is left while nothing is done.                                     *)

SamePlan == (\A t : TodoOf(t)' = TodoOf(t)) /\ Untraded' = Untraded

\* The process stays out of the blocks, or goes on with a sale.
LEMMA PlanStays ==
  ASSUME UNCHANGED <<chain["unique"], scanned["unique"]>>,
         \/ ~MidBlock("unique") /\ ~MidBlock("unique")'
         \/ Sold /\ Sold' /\ scanner'["unique"].at = scanner["unique"].at
  PROVE  SamePlan
<1> DEFINE n == "unique"
<1>1. ASSUME NEW i \in DOMAIN chain[n]
      PROVE  (Todo(i)' <=> Todo(i)) /\ (ToTrade(i)' <=> ToTrade(i))
  <2>1. Undone(i)' <=> Undone(i)
    BY DEF Undone
  <2>2. CASE ~MidBlock(n) /\ ~MidBlock(n)'
    BY <2>1, <2>2 DEF Todo, ToTrade, MidBlock, InSale, Sold
  <2>3. CASE Sold /\ Sold' /\ scanner'[n].at = scanner[n].at
    BY <2>1, <2>3 DEF Todo, ToTrade, InSale, Sold, Carrying
  <2>4. QED
    BY <2>2, <2>3
<1>2. ASSUME NEW t PROVE CallsOf(t)' = CallsOf(t)
  BY DEF CallsOf
<1>3. ASSUME NEW t PROVE TodoOf(t)' = TodoOf(t)
  <2>1. CallsOf(t) \subseteq DOMAIN chain[n]
    BY DEF CallsOf
  <2>2. QED
    BY <1>1, <1>2, <2>1 DEF TodoOf
<1>4. Untraded' = Untraded
  BY <1>1 DEF Untraded, Bought
<1>5. QED
  BY <1>3, <1>4 DEF SamePlan

\* Of a block that is being scanned everything from a call on is left.
LEMMA NothingDoneBehind ==
  ASSUME SInv, Marked, MidBlock("unique"),
         NEW i \in DOMAIN chain["unique"], i >= scanner["unique"].at
  PROVE  Undone(i)
<1> DEFINE n == "unique"
<1>1. n \in Networks /\ scanned[n] = 1 .. scanner[n].block - 1 /\ scanner[n] \in ScannerType
  BY Places DEF Networks, Marked, SInv
<1>2. Divides(n) /\ chain[n] \in Seq(CallType)
  BY <1>1, Places DEF SInv, Scans, WhereOK, ChainsOK
<1>3. chain[n][i].block >= scanner[n].block
  BY <1>2 DEF Divides
<1>4. chain[n][i].block \in Nat /\ scanner[n].block \in Nat
  <2>1. chain[n][i] \in CallType
    BY <1>2
  <2>2. QED
    BY <1>1, <2>1 DEF CallType, ScannerType
<1>5. QED
  BY <1>1, <1>3, <1>4 DEF Undone

\* The process goes on to the next call.
LEMMA PlanGoesOn ==
  ASSUME SInv, UNCHANGED <<chain["unique"], scanned["unique"]>>,
         MidBlock("unique"), SetPlace("unique", "scan", scanner["unique"].at + 1),
         scanner["unique"].at \in DOMAIN chain["unique"]
  PROVE  LET at == scanner["unique"].at IN
         /\ \A t : TodoOf(t)' = TodoOf(t) \ {at}
         /\ Untraded' = Untraded \ {at}
<1> DEFINE n == "unique"
           at == scanner[n].at
<1>1. /\ n \in Networks /\ at \in Nat /\ chain[n] \in Seq(CallType)
      /\ \A i \in DOMAIN chain[n] : i \in Nat
  BY Places DEF SInv, Networks, ChainsOK, ScannerType
<1>2. scanner'[n].pc = "scan" /\ scanner'[n].at = at + 1 /\ ~InSale(n)' /\ ~Sold'
  BY DEF SetPlace, InSale, Sold, Carrying
<1>3. ASSUME NEW i \in DOMAIN chain[n]
      PROVE  (Todo(i)' <=> Todo(i) /\ i # at) /\ (ToTrade(i)' <=> ToTrade(i) /\ i # at)
  <2>1. Undone(i)' <=> Undone(i)
    BY DEF Undone
  <2>2. i \in Nat /\ (i >= at + 1 <=> i > at) /\ (i > at <=> i >= at /\ i # at)
    BY <1>1
  <2>3. Todo(i)' <=> Undone(i) /\ i > at
    BY <1>2, <2>1, <2>2 DEF Todo
  <2>4. ToTrade(i)' <=> Undone(i) /\ i > at
    BY <1>2, <2>1, <2>2 DEF ToTrade
  <2>5. Todo(i) /\ i # at <=> Undone(i) /\ i > at
    BY <2>2 DEF Todo, MidBlock, InSale, Sold
  <2>6. ToTrade(i) /\ i # at <=> Undone(i) /\ i > at
    BY <2>2 DEF ToTrade, MidBlock
  <2>7. QED
    BY <2>3, <2>4, <2>5, <2>6
<1>4. ASSUME NEW t PROVE TodoOf(t)' = TodoOf(t) \ {at}
  <2>1. CallsOf(t)' = CallsOf(t) /\ CallsOf(t) \subseteq DOMAIN chain[n]
    BY DEF CallsOf
  <2>2. QED
    BY <1>3, <2>1 DEF TodoOf
<1>5. Untraded' = Untraded \ {at}
  BY <1>3 DEF Untraded, Bought
<1>6. QED
  BY <1>4, <1>5

\* A block is begun, or it was scanned before the last crash and is skipped.
LEMMA BeginPlan ==
  ASSUME SInv, Marked, Begin("unique")
  PROVE  SamePlan /\ Marked'
<1> DEFINE n == "unique"
           s == scanner[n]
<1>1. /\ n \in Networks /\ s.current \in Nat /\ s.pc = "next" /\ chain[n] \in Seq(CallType)
      /\ UNCHANGED <<chain, scanned>>
  BY Places DEF SInv, Networks, ScannerType, Begin, ChainsOK, outside, tables
<1>2. /\ scanner'[n].pc = IF s.current \in scanned[n] THEN "money" ELSE "scan"
      /\ scanner'[n].current = s.current + 1 /\ scanner'[n].block = s.current
      /\ scanner'[n].at \in Int
      /\ \A i \in DOMAIN chain[n] : i < scanner'[n].at <=> chain[n][i].block < s.current
  BY <1>1, BeginPlace
<1>3. /\ ~MidBlock(n)
      /\ scanned[n] = 1 .. s.current - 1 \/ scanned[n] = 1 .. s.current
  BY <1>1 DEF Marked, MidBlock, InSale, Carrying
<1>3a. s.current \in 1 .. s.current
  BY <1>1 DEF SInv, Scans, WhereOK
<1>4. CASE s.current \in scanned[n]
  <2>1. scanned[n] = 1 .. s.current /\ ~MidBlock(n)'
    BY <1>1, <1>2, <1>3, <1>4 DEF MidBlock, InSale, Carrying
  <2>2. SamePlan
    BY <1>1, <1>3, <2>1, PlanStays
  <2>3. Marked'
    BY <1>1, <1>2, <2>1 DEF Marked
  <2>4. QED
    BY <2>2, <2>3
<1>5. CASE s.current \notin scanned[n]
  <2>1. scanned[n] = 1 .. s.current - 1 /\ MidBlock(n)' /\ ~InSale(n)' /\ ~Sold'
    BY <1>1, <1>2, <1>3, <1>3a, <1>5 DEF MidBlock, InSale, Sold, Carrying
  <2>2. Marked'
    BY <1>1, <1>2, <2>1 DEF Marked
  <2>3. ASSUME NEW i \in DOMAIN chain[n]
        PROVE  (Todo(i)' <=> Todo(i)) /\ (ToTrade(i)' <=> ToTrade(i))
    <3>1. Undone(i)' <=> Undone(i)
      BY <1>1 DEF Undone
    <3>2. (Todo(i) <=> Undone(i)) /\ (ToTrade(i) <=> Undone(i))
      BY <1>3 DEF Todo, ToTrade, MidBlock, InSale, Sold
    <3>3. Undone(i) => i >= scanner'[n].at
      <4>1. chain[n][i].block \in 1 .. head[n] + 1 /\ i \in Nat
        BY <1>1 DEF SInv, Scans, ChainOrdered
      <4>2. Undone(i) => ~(chain[n][i].block < s.current)
        <5>1. head[n] \in Nat
          BY <1>1, Places DEF SInv, ChainsOK
        <5>2. QED
          BY <1>1, <2>1, <4>1, <5>1 DEF Undone
      <4>3. QED
        BY <1>2, <4>1, <4>2
    <3>4. (Todo(i)' <=> Undone(i)) /\ (ToTrade(i)' <=> Undone(i))
      BY <1>2, <2>1, <3>1, <3>3 DEF Todo, ToTrade
    <3>5. QED
      BY <3>2, <3>4
  <2>4. ASSUME NEW t PROVE TodoOf(t)' = TodoOf(t)
    <3>1. CallsOf(t)' = CallsOf(t) /\ CallsOf(t) \subseteq DOMAIN chain[n]
      BY <1>1 DEF CallsOf
    <3>2. QED
      BY <2>3, <3>1 DEF TodoOf
  <2>5. Untraded' = Untraded
    BY <1>1, <2>3 DEF Untraded, Bought
  <2>6. QED
    BY <2>2, <2>4, <2>5 DEF SamePlan
<1>6. QED
  BY <1>4, <1>5

\* A block that was scanned to its end is marked.
LEMMA EndPlan ==
  ASSUME SInv, Marked, EndOfBlock("unique")
  PROVE  SamePlan /\ Marked'
<1> DEFINE n == "unique"
           s == scanner[n]
<1>1. /\ n \in Networks /\ s \in ScannerType /\ chain[n] \in Seq(CallType)
      /\ scanned \in [Networks -> SUBSET Nat]
      /\ s.pc = "scan" /\ MidBlock(n) /\ UNCHANGED chain /\ IInv
  BY Places DEF SInv, Networks, EndOfBlock, ChainsOK, TablesOK, MidBlock, outside
<1>2. /\ scanned'[n] = scanned[n] \cup {s.block} /\ Go(n, "money")
      /\ scanned[n] = 1 .. s.block - 1
  BY <1>1 DEF EndOfBlock, Marked
<1>3. SetPlace(n, "money", s.at)
  BY <1>1, <1>2, GoPlace DEF Pcs
<1>4. ~MidBlock(n)' /\ ~InSale(n)' /\ ~Sold' /\ scanner'[n].pc = "money"
  BY <1>3 DEF MidBlock, InSale, Sold, SetPlace, Carrying
<1>5. s.block \in Nat /\ s.block >= 1 /\ s.current = s.block + 1 /\ Divides(n)
  BY <1>1 DEF SInv, Scans, WhereOK, ScannerType
<1>6. Marked'
  <2>1. scanned'[n] = 1 .. s.block
    BY <1>2, <1>5
  <2>2. scanner'[n].current - 1 = s.block
    BY <1>3, <1>5 DEF SetPlace
  <2>3. QED
    BY <1>4, <2>1, <2>2 DEF Marked
<1>7. ASSUME NEW i \in DOMAIN chain[n]
      PROVE  (Todo(i)' <=> Todo(i)) /\ (ToTrade(i)' <=> ToTrade(i))
  <2>1. (Todo(i)' <=> Undone(i)') /\ (ToTrade(i)' <=> Undone(i)')
    BY <1>4 DEF Todo, ToTrade
  <2>2. ~Sold /\ ~InSale(n)
    BY <1>1 DEF Sold, InSale, Carrying
  <2>3. (Todo(i) <=> Undone(i) /\ i >= s.at) /\ (ToTrade(i) <=> Undone(i) /\ i >= s.at)
    BY <1>1, <2>2 DEF Todo, ToTrade
  <2>4. /\ chain[n][i].block \in Nat /\ i \in Nat /\ s.at \in Nat
    <3>1. chain[n][i] \in CallType /\ i \in Nat
      BY <1>1
    <3>2. QED
      BY <1>1, <3>1 DEF CallType, ScannerType
  <2>5. Undone(i)' <=> Undone(i) /\ chain[n][i].block # s.block
    BY <1>1, <1>2 DEF Undone
  <2>6. chain[n][i].block = s.block => i < s.at
    BY <1>1, BlockIsDone
  <2>7. i < s.at => chain[n][i].block <= s.block
    BY <1>5 DEF Divides
  <2>8. chain[n][i].block <= s.block /\ chain[n][i].block # s.block => ~Undone(i)
    <3>1. chain[n][i].block \in 1 .. head[n] + 1 /\ head[n] \in Nat
      BY <1>1, Places DEF SInv, Scans, ChainOrdered, ChainsOK
    <3>2. QED
      BY <1>2, <1>5, <2>4, <3>1 DEF Undone
  <2>9. Undone(i)' <=> Undone(i) /\ i >= s.at
    BY <2>4, <2>5, <2>6, <2>7, <2>8
  <2>10. QED
    BY <2>1, <2>3, <2>9
<1>8. ASSUME NEW t PROVE TodoOf(t)' = TodoOf(t)
  <2>1. CallsOf(t)' = CallsOf(t) /\ CallsOf(t) \subseteq DOMAIN chain[n]
    BY <1>1 DEF CallsOf
  <2>2. QED
    BY <1>7, <2>1 DEF TodoOf
<1>9. Untraded' = Untraded
  BY <1>1, <1>7 DEF Untraded, Bought
<1>10. QED
  BY <1>6, <1>8, <1>9 DEF SamePlan

LEMMA MaxIsGreatest ==
  ASSUME NEW b \in Nat, NEW S \in SUBSET (0 .. b), S # {}
  PROVE  \A y \in S : Max(S) >= y
  BY GreatestExists DEF Max

\* After a crash the calls of the blocks that are not marked are done again.
LEMMA CrashPlan ==
  ASSUME SInv, Marked, Crash("unique")
  PROVE  /\ \A t : TodoOf(t)' = {i \in CallsOf(t) : Undone(i)}
         /\ Untraded' = {i \in DOMAIN chain["unique"] : Bought(i) /\ Undone(i)}
         /\ Marked' /\ scanner'["unique"].pc = "next"
<1> DEFINE n == "unique"
           s == scanner[n]
           from == Max(scanned[n] \cup {1})
<1>1. /\ n \in Networks /\ s \in ScannerType /\ UNCHANGED <<chain, scanned>>
      /\ head[n] \in Nat /\ IInv
  BY Places DEF SInv, Networks, Crash, ChainsOK, outside, tables
<1>2. scanner'[n].pc = "next" /\ scanner'[n].current = from
  BY <1>1, CrashPlace
<1>3. ~MidBlock(n)' /\ ~InSale(n)' /\ ~Sold'
  BY <1>2 DEF MidBlock, InSale, Sold, Carrying
<1>4. \A i : (Todo(i)' <=> Undone(i)) /\ (ToTrade(i)' <=> Undone(i))
  BY <1>1, <1>2, <1>3 DEF Todo, ToTrade, Undone
<1>5. \A t : TodoOf(t)' = {i \in CallsOf(t) : Undone(i)}
  BY <1>1, <1>4 DEF TodoOf, CallsOf
<1>6. Untraded' = {i \in DOMAIN chain["unique"] : Bought(i) /\ Undone(i)}
  BY <1>1, <1>4 DEF Untraded, Bought
<1>7. Marked'
  <2>1. PICK k \in Nat : scanned[n] = 1 .. k
    <3>1. MidBlock(n) => s.block - 1 \in Nat
      BY <1>1 DEF SInv, Scans, WhereOK, ScannerType
    <3>2. s.current - 1 \in Nat /\ s.current \in Nat
      BY <1>1 DEF SInv, Scans, WhereOK, ScannerType
    <3>3. QED
      BY <3>1, <3>2 DEF Marked
  <2>2. CASE k = 0
    <3>1. scanned[n] = {} /\ scanned[n] \cup {1} = {1}
      BY <2>1, <2>2
    <3>2. from = 1
      BY <3>1, MaxIsMember
    <3>3. scanned'[n] = 1 .. scanner'[n].current - 1
      BY <1>1, <1>2, <2>1, <2>2, <3>2
    <3>4. QED
      BY <1>3, <3>3 DEF Marked
  <2>3. CASE k > 0
    <3> DEFINE S == scanned[n] \cup {1}
    <3>1. S = 1 .. k /\ S \in SUBSET (0 .. k) /\ S # {} /\ k \in S
      BY <2>1, <2>3
    <3> HIDE DEF S
    <3>2. Max(S) \in S /\ Max(S) >= k
      BY <3>1, MaxIsMember, MaxIsGreatest
    <3>3. Max(S) = k
      BY <3>1, <3>2
    <3>4. scanned'[n] = 1 .. scanner'[n].current
      BY <1>1, <1>2, <2>1, <3>3 DEF S
    <3>5. QED
      BY <1>3, <3>4 DEF Marked
  <2>4. QED
    BY <2>2, <2>3
<1>8. QED
  BY <1>2, <1>5, <1>6, <1>7

-----------------------------------------------------------------------------
(* What the rows of contract_ask tell of a token.                          *)

KeepsOffers(t) == /\ OpenAsks(t)' = OpenAsks(t)
                  /\ \A i \in OpenAsks(t) : asks'[i] = asks[i]

LEMMA SameOffers ==
  ASSUME UNCHANGED asks, NEW t
  PROVE  KeepsOffers(t)
  BY DEF KeepsOffers, OpenAsks

\* Open asks of a token are closed.
LEMMA ClosesOffers ==
  ASSUME IInv, AsksClean, NEW t, NEW I \in SUBSET OpenAsks(t), NEW s \in {"cancelled", "bought"},
         asks' = WithStatus(asks, I, s)
  PROVE  /\ AsksClean' /\ OpenAsks(t)' = OpenAsks(t) \ I
         /\ \A v : v # t => KeepsOffers(v)
<1>1. asks \in Seq(AskType) /\ \A i \in DOMAIN asks : asks[i] \in AskType
  <2>1. asks \in Seq(AskType)
    BY DEF IInv, TablesOK
  <2>2. QED
    BY <2>1
<1>2. /\ DOMAIN asks' = DOMAIN asks
      /\ \A i \in DOMAIN asks : asks'[i] = IF i \in I THEN [asks[i] EXCEPT !.status = s]
                                            ELSE asks[i]
  BY DEF WithStatus
<1>3. ASSUME NEW i \in DOMAIN asks
      PROVE  /\ asks'[i].token = asks[i].token
             /\ asks'[i].status = IF i \in I THEN s ELSE asks[i].status
  <2>1. CASE i \in I
    BY <1>1, <1>2, <2>1 DEF AskType
  <2>2. CASE i \notin I
    BY <1>2, <2>2
  <2>3. QED
    BY <2>1, <2>2
<1>4. s \notin OpenStatus /\ s # "removed_by_admin"
  BY DEF OpenStatus
<1>5. \A i \in DOMAIN asks : asks'[i].status \in OpenStatus => asks[i].status \in OpenStatus
  BY <1>3, <1>4
<1>6. AsksClean'
  <2>1. \A i \in DOMAIN asks' : asks'[i].status # "removed_by_admin"
    BY <1>2, <1>3, <1>4 DEF AsksClean
  <2>2. IndexHolds(asks')
    BY <1>2, <1>3, <1>5 DEF AsksClean, IndexHolds
  <2>3. QED
    BY <2>1, <2>2 DEF AsksClean
<1>7. OpenAsks(t)' = OpenAsks(t) \ I
  BY <1>2, <1>3, <1>4 DEF OpenAsks
<1>8. ASSUME NEW v, v # t PROVE KeepsOffers(v)
  <2>1. \A i \in DOMAIN asks : asks[i].token = v => i \notin I
    BY <1>8 DEF OpenAsks
  <2>2. OpenAsks(v)' = OpenAsks(v)
    BY <1>2, <1>3, <2>1 DEF OpenAsks
  <2>3. \A i \in OpenAsks(v) : asks'[i] = asks[i]
    BY <1>2, <2>1 DEF OpenAsks
  <2>4. QED
    BY <2>2, <2>3 DEF KeepsOffers
<1>9. QED
  BY <1>6, <1>7, <1>8

\* An ask is added for a token that has none that is open.
LEMMA OpensOffer ==
  ASSUME IInv, AsksClean, NEW t, NEW u, NEW p, OpenAsks(t) = {},
         asks' = Append(asks, [token |-> t, status |-> "active", seller |-> u, price |-> p])
  PROVE  /\ AsksClean' /\ IndexHolds(asks') /\ Matches(t, u, p)'
         /\ \A v : v # t => KeepsOffers(v)
<1> DEFINE row == [token |-> t, status |-> "active", seller |-> u, price |-> p]
           new == Len(asks) + 1
<1>1. asks \in Seq(AskType \cup {row}) /\ row \in AskType \cup {row}
  BY DEF IInv, TablesOK
<1>2. /\ row.token = t /\ row.status = "active" /\ row.seller = u /\ row.price = p
      /\ asks' = Append(asks, row)
  OBVIOUS
<1> HIDE DEF row
<1>3. /\ DOMAIN asks' = DOMAIN asks \cup {new} /\ new \notin DOMAIN asks
      /\ asks'[new] = row /\ \A i \in DOMAIN asks : asks'[i] = asks[i]
  BY <1>1, <1>2, AppendKeeps
<1> HIDE DEF new
<1>4. \A i \in DOMAIN asks : asks[i].token = t => asks[i].status \notin OpenStatus
  BY DEF OpenAsks
<1>5. IndexHolds(asks')
  BY <1>2, <1>3, <1>4 DEF AsksClean, IndexHolds
<1>6. AsksClean'
  BY <1>2, <1>3, <1>5 DEF AsksClean
<1>7. Matches(t, u, p)'
  <2>1. new \in OpenAsks(t)'
    BY <1>2, <1>3 DEF OpenAsks, OpenStatus
  <2>2. QED
    BY <1>2, <1>3, <2>1 DEF Matches
<1>8. ASSUME NEW v, v # t PROVE KeepsOffers(v)
  <2>1. OpenAsks(v)' = OpenAsks(v)
    BY <1>2, <1>3, <1>8 DEF OpenAsks
  <2>2. \A i \in OpenAsks(v) : asks'[i] = asks[i]
    BY <1>3 DEF OpenAsks
  <2>3. QED
    BY <2>1, <2>2 DEF KeepsOffers
<1>9. QED
  BY <1>5, <1>6, <1>7, <1>8

\* Trades are added and never taken away.
TradesGrow == /\ DOMAIN trades \subseteq DOMAIN trades'
              /\ \A j \in DOMAIN trades : trades'[j] = trades[j]
              /\ trades' = trades \/ Len(trades') = Len(trades) + 1

LEMMA TradesOnlyGrow == IInv /\ [Next]_vars => TradesGrow
<1> SUFFICES ASSUME IInv, [Next]_vars PROVE TradesGrow
  OBVIOUS
<1>1. CASE UNCHANGED trades
  BY <1>1 DEF TradesGrow
<1>2. ASSUME NEW row, trades' = Append(trades, row) PROVE TradesGrow
  <2>1. trades \in Seq(TradeType \cup {row}) /\ row \in TradeType \cup {row}
    BY DEF IInv, TablesOK
  <2>2. /\ DOMAIN trades \subseteq DOMAIN trades'
        /\ \A j \in DOMAIN trades : trades'[j] = trades[j]
    BY <1>2, <2>1, AppendKeeps
  <2>3. Len(trades') = Len(trades) + 1
    BY <1>2, <2>1
  <2>4. QED
    BY <2>2, <2>3 DEF TradesGrow
<1>3. QED
  BY <1>1, <1>2, TradesStay DEF ProcessBuyKSM

-----------------------------------------------------------------------------
(* What a step has to show of a token: nothing, if the token's calls, order*)
(* and asks stay and so does what is left of them.                         *)

SameCalls(t) == /\ CallsOf(t)' = CallsOf(t)
                /\ \A i \in CallsOf(t) : chain'["unique"][i] = chain["unique"][i]

LEMMA StillTells ==
  ASSUME NEW t, Tells(t), SameCalls(t), TodoOf(t)' = TodoOf(t), KeepsOffers(t),
         order'[t] = order[t], TradesGrow
  PROVE  Tells(t)'
<1>1. \A u, p : Matches(t, u, p)' <=> Matches(t, u, p)
  BY DEF Matches, KeepsOffers
<1>2. Mirrors(t)' <=> Mirrors(t)
  BY <1>1 DEF Mirrors, KeepsOffers
<1>3. ASSUME NEW i \in TodoOf(t)
      PROVE  /\ chain'["unique"][i] = chain["unique"][i]
             /\ OpenFor(i) => OpenFor(i)'
             /\ HasTrade(i) => HasTrade(i)'
  <2>1. i \in CallsOf(t) /\ chain["unique"][i].token = t
    BY DEF TodoOf, CallsOf
  <2>2. chain'["unique"][i] = chain["unique"][i]
    BY <2>1 DEF SameCalls
  <2>3. OpenFor(i)' <=> OpenFor(i)
    BY <1>1, <2>1, <2>2 DEF OpenFor
  <2>4. HasTrade(i) => HasTrade(i)'
    BY <2>2 DEF HasTrade, TradesGrow
  <2>5. QED
    BY <2>2, <2>3, <2>4
<1>4. ASSUME NEW i \in TodoOf(t)', Bought(i)', \A j \in TodoOf(t)' : i <= j
      PROVE  OpenFor(i)' \/ ("crash" \in Allowed /\ HasTrade(i)')
  <2>1. i \in TodoOf(t) /\ Bought(i) /\ \A j \in TodoOf(t) : i <= j
    BY <1>3, <1>4 DEF Bought
  <2>2. OpenFor(i) \/ ("crash" \in Allowed /\ HasTrade(i))
    BY <2>1 DEF Tells
  <2>3. QED
    BY <1>3, <2>1, <2>2
<1>5. TodoOf(t)' = {} => Mirrors(t)'
  BY <1>2 DEF Tells
<1>6. QED
  BY <1>4, <1>5 DEF Tells

LEMMA NoneTraded ==
  ASSUME SInv, SalesTraded, TradesGrow, Traded' \subseteq Traded,
         \A i \in DOMAIN chain["unique"] : chain'["unique"][i] = chain["unique"][i]
  PROVE  SalesTraded'
<1>1. ASSUME NEW i \in Traded' PROVE HasTrade(i)'
  <2>1. HasTrade(i) /\ chain'["unique"][i] = chain["unique"][i]
    BY <1>1 DEF SalesTraded, Traded
  <2>2. QED
    BY <2>1 DEF HasTrade, TradesGrow
<1>2. ASSUME "crash" \notin Allowed PROVE Cardinality(Traded') <= Len(trades')
  <2>1. /\ chain["unique"] \in Seq(CallType) /\ Traded \in SUBSET DOMAIN chain["unique"]
        /\ Len(trades) \in Nat
    BY CountsArePositions DEF SInv, Traded
  <2>2. Traded' \in SUBSET DOMAIN chain["unique"]
    BY <2>1
  <2>3. /\ Cardinality(Traded') <= Cardinality(Traded)
        /\ Cardinality(Traded') \in Nat /\ Cardinality(Traded) \in Nat
    BY <2>1, <2>2, MorePositions, PositionsFinite
  <2>4. Cardinality(Traded) <= Len(trades)
    BY <1>2 DEF SalesTraded
  <2>5. Len(trades') \in {Len(trades), Len(trades) + 1}
    BY DEF TradesGrow
  <2>6. QED
    BY <2>1, <2>3, <2>4, <2>5
<1>3. QED
  BY <1>1, <1>2 DEF SalesTraded

LEMMA StillTraded ==
  ASSUME SInv, SalesTraded, TradesGrow, DOMAIN chain'["unique"] = DOMAIN chain["unique"],
         \A i \in DOMAIN chain["unique"] : chain'["unique"][i] = chain["unique"][i],
         Untraded \subseteq Untraded'
  PROVE  SalesTraded'
<1>1. Traded' \subseteq Traded
  BY DEF Traded, Bought
<1>2. QED
  BY <1>1, NoneTraded

LEMMA StillTold ==
  ASSUME ChainTells, UNCHANGED <<chain["unique"], order, nft>>
  PROVE  ChainTells'
<1>1. \A t : CallsOf(t)' = CallsOf(t)
  BY DEF CallsOf
<1>2. ASSUME NEW t \in Tokens PROVE OrderTold(t)'
  BY <1>1 DEF ChainTells, OrderTold, LastCall, IsOffer
<1>3. ASSUME NEW j \in DOMAIN chain["unique"] PROVE SaleTold(j)'
  BY <1>1 DEF ChainTells, SaleTold, Precedes, IsOffer, Bought
<1>4. QED
  BY <1>2, <1>3 DEF ChainTells

-----------------------------------------------------------------------------
(* The calls of the users.                                                 *)

\* A new call is left to do.
LEMMA LogPlan ==
  ASSUME SInv, NEW method, NEW t, NEW u, NEW seller, NEW amount,
         Log("unique", method, t, u, seller, amount), UNCHANGED <<head, scanned, scanner>>
  PROVE  LET new == Len(chain["unique"]) + 1
             c == chain'["unique"][new]
         IN
         /\ DOMAIN chain'["unique"] = DOMAIN chain["unique"] \cup {new}
         /\ \A i \in DOMAIN chain["unique"] : /\ chain'["unique"][i] = chain["unique"][i]
                                               /\ i < new /\ i \in Nat
         /\ new \in Nat
         /\ c.method = method /\ c.token = t /\ c.who = u /\ c.seller = seller
         /\ c.amount = amount
         /\ \A v : v # t \/ method \notin OfferMethods =>
              SameCalls(v) /\ TodoOf(v)' = TodoOf(v)
         /\ method \in OfferMethods => /\ CallsOf(t)' = CallsOf(t) \cup {new}
                                       /\ TodoOf(t)' = TodoOf(t) \cup {new}
         /\ Untraded' = IF method = "buyKSM" THEN Untraded \cup {new} ELSE Untraded
<1> DEFINE n == "unique"
           c == [block |-> head[n] + 1, method |-> method, token |-> t, who |-> u,
                 seller |-> seller, amount |-> amount]
<1>0. PICK new : new = Len(chain[n]) + 1
  OBVIOUS
<1>1. /\ n \in Networks /\ IInv /\ chain[n] \in Seq(CallType) /\ head[n] \in Nat
      /\ scanner[n] \in ScannerType
  BY Places DEF SInv, Networks, ChainsOK
<1>2. /\ c.block = head[n] + 1 /\ c.method = method /\ c.token = t /\ c.who = u
      /\ c.seller = seller /\ c.amount = amount
  OBVIOUS
<1>3. /\ DOMAIN chain'[n] = DOMAIN chain[n] \cup {new} /\ new \notin DOMAIN chain[n]
      /\ chain'[n][new] = c
      /\ \A i \in DOMAIN chain[n] : chain'[n][i] = chain[n][i]
  BY <1>0, <1>1, Logged
<1>4. new \in Nat /\ \A i \in DOMAIN chain[n] : i < new /\ i \in Nat
  BY <1>0, <1>1
<1>5. MidBlock(n) => new >= scanner[n].at /\ (Sold \/ InSale(n) => new > scanner[n].at)
  <2>1. WhereOK(n) /\ scanner[n].at \in Nat
    BY <1>1 DEF SInv, Scans, ScannerType
  <2>2. Sold => InSale(n)
    BY DEF Sold, InSale
  <2>3. MidBlock(n) => scanner[n].at \in 1 .. new
    BY <1>0, <2>1 DEF WhereOK
  <2>4. InSale(n) => scanner[n].at \in DOMAIN chain[n]
    BY <2>1 DEF WhereOK
  <2>5. QED
    BY <1>4, <2>1, <2>2, <2>3, <2>4
<1> HIDE DEF c
<1>6. Todo(new)' /\ ToTrade(new)'
  <2>1. Undone(new)'
    BY <1>1, <1>2, <1>3 DEF Undone, SInv, Scans, ChainOrdered
  <2>2. QED
    BY <1>5, <2>1 DEF Todo, ToTrade, MidBlock, Sold, InSale
<1>7. \A i \in DOMAIN chain[n] : (Todo(i)' <=> Todo(i)) /\ (ToTrade(i)' <=> ToTrade(i))
  BY <1>3 DEF Todo, ToTrade, Undone, Sold, InSale
<1>8. ASSUME NEW v, v # t \/ method \notin OfferMethods
      PROVE  SameCalls(v) /\ TodoOf(v)' = TodoOf(v)
  <2>1. CallsOf(v)' = CallsOf(v)
    BY <1>2, <1>3, <1>8 DEF CallsOf
  <2>2. CallsOf(v) \subseteq DOMAIN chain[n]
    BY DEF CallsOf
  <2>3. QED
    BY <1>3, <1>7, <2>1, <2>2 DEF SameCalls, TodoOf
<1>9. ASSUME method \in OfferMethods
      PROVE  CallsOf(t)' = CallsOf(t) \cup {new} /\ TodoOf(t)' = TodoOf(t) \cup {new}
  <2>1. CallsOf(t)' = CallsOf(t) \cup {new}
    BY <1>2, <1>3, <1>9 DEF CallsOf
  <2>2. CallsOf(t) \subseteq DOMAIN chain[n]
    BY DEF CallsOf
  <2>3. QED
    BY <1>6, <1>7, <2>1, <2>2 DEF TodoOf
<1>10. Untraded' = IF method = "buyKSM" THEN Untraded \cup {new} ELSE Untraded
  <2>1. Bought(new)' <=> method = "buyKSM"
    BY <1>2, <1>3 DEF Bought
  <2>2. \A i \in DOMAIN chain[n] : Bought(i)' <=> Bought(i)
    BY <1>3 DEF Bought
  <2>3. QED
    BY <1>3, <1>6, <1>7, <2>1, <2>2 DEF Untraded
<1>11. QED
  BY <1>0, <1>2, <1>3, <1>4, <1>8, <1>9, <1>10

\* A call of a user leaves the escrow's memory and rows as they are.
LEMMA UserMemory ==
  ASSUME MInv, NEW method, NEW t, NEW u, NEW seller, NEW amount,
         Log("unique", method, t, u, seller, amount),
         UNCHANGED <<head, scanned, scanner, asks, managed, removal>>
  PROVE  Marked' /\ AsksClean' /\ MemoryOK'
<1>1. SInv /\ IInv /\ "unique" \in Networks
  BY DEF MInv, SInv, Networks
<1>2. Marked'
  BY DEF MInv, Marked, MidBlock, InSale
<1>3. AsksClean'
  BY DEF MInv, AsksClean
<1>4. scanner["unique"].pc = "register" => Call("unique")' = Call("unique")
  <2>1. scanner["unique"].pc = "register" => scanner["unique"].at \in DOMAIN chain["unique"]
    BY <1>1, Places DEF PlaceOK
  <2>2. \A i \in DOMAIN chain["unique"] : chain'["unique"][i] = chain["unique"][i]
    BY <1>1, Logged
  <2>3. QED
    BY <2>1, <2>2 DEF Call
<1>5. MemoryOK'
  BY <1>4 DEF MInv, MemoryOK, MidBlock, InSale, OpenAsks
<1>6. QED
  BY <1>2, <1>3, <1>5

\* What a call of the users has to show of its own token: its order is told by the
\* call, and a sale is of the order that was open.
LEMMA CallTells ==
  ASSUME MInv, NEW method \in OfferMethods, NEW t \in Tokens, NEW u, NEW seller, NEW amount,
         Log("unique", method, t, u, seller, amount),
         UNCHANGED <<head, scanned, scanner, asks, trades, managed, removal>>,
         \A v \in Tokens \ {t} : order'[v] = order[v] /\ nft'[v] = nft[v],
         IF method = "addAsk"
           THEN order'[t].active /\ order'[t].owner = u /\ order'[t].price = amount
           ELSE ~order'[t].active /\ nft'[t] # Contract,
         method = "buyKSM" => /\ order[t].active
                              /\ seller = order[t].owner /\ amount = order[t].price
  PROVE  /\ \A v \in Tokens : Tells(v)'
         /\ SalesTraded' /\ ChainTells'
<1> DEFINE n == "unique"
<1>1. PICK new : new = Len(chain[n]) + 1
  OBVIOUS
<1>2. /\ DOMAIN chain'[n] = DOMAIN chain[n] \cup {new}
      /\ \A i \in DOMAIN chain[n] : /\ chain'[n][i] = chain[n][i]
                                     /\ i < new /\ i \in Nat
      /\ new \in Nat
      /\ chain'[n][new].method = method /\ chain'[n][new].token = t
      /\ chain'[n][new].who = u /\ chain'[n][new].seller = seller
      /\ chain'[n][new].amount = amount
      /\ \A v : v # t => SameCalls(v) /\ TodoOf(v)' = TodoOf(v)
      /\ CallsOf(t)' = CallsOf(t) \cup {new}
      /\ TodoOf(t)' = TodoOf(t) \cup {new}
      /\ Untraded' = IF method = "buyKSM" THEN Untraded \cup {new} ELSE Untraded
  BY <1>1, LogPlan DEF MInv
<1>3. \A v : KeepsOffers(v)
  BY SameOffers
<1>4. TradesGrow
  BY DEF TradesGrow
<1>5. ASSUME NEW v \in Tokens \ {t} PROVE Tells(v)'
  BY <1>2, <1>3, <1>4, StillTells DEF MInv
<1>6. \A i \in CallsOf(t) : i < new /\ i \in Nat /\ chain'[n][i] = chain[n][i]
  BY <1>2 DEF CallsOf
<1>7. Tells(t)'
  <2>1. new \in TodoOf(t)'
    BY <1>2
  <2>2. ASSUME NEW i \in TodoOf(t)', Bought(i)', \A j \in TodoOf(t)' : i <= j
        PROVE  OpenFor(i)' \/ ("crash" \in Allowed /\ HasTrade(i)')
    <3>1. CASE i # new
      <4>1. i \in TodoOf(t) /\ i \in CallsOf(t) /\ i \in DOMAIN chain[n]
        BY <1>2, <2>2, <3>1 DEF TodoOf, CallsOf
      <4>2. chain'[n][i] = chain[n][i]
        BY <1>6, <4>1
      <4>3. OpenFor(i) \/ ("crash" \in Allowed /\ HasTrade(i))
        BY <1>2, <2>2, <4>1, <4>2 DEF MInv, Tells, Bought
      <4>4. QED
        BY <4>2, <4>3 DEF OpenFor, HasTrade, Matches, OpenAsks
    <3>2. CASE i = new
      <4>1. method = "buyKSM"
        BY <1>2, <2>2, <3>2 DEF Bought
      <4>2. TodoOf(t) = {}
        <5>1. ASSUME NEW j \in TodoOf(t) PROVE FALSE
          <6>1. i <= j /\ j < new /\ j \in Nat
            BY <1>2, <1>6, <2>2 DEF TodoOf
          <6>2. QED
            BY <1>2, <3>2, <6>1
        <5>2. QED
          BY <5>1
      <4>3. Matches(t, seller, amount)
        BY <4>1, <4>2 DEF MInv, Tells, Mirrors
      <4>4. OpenFor(i)'
        BY <1>2, <3>2, <4>3 DEF OpenFor, Matches, OpenAsks
      <4>5. QED
        BY <4>4
    <3>3. QED
      BY <3>1, <3>2
  <2>3. QED
    BY <2>1, <2>2 DEF Tells
<1>8. SalesTraded'
  <2>1. Traded' \subseteq Traded
    <3>1. ASSUME NEW i \in DOMAIN chain'[n], Bought(i)', i \notin Untraded' PROVE i \in Traded
      <4>1. i # new
        BY <1>2, <3>1 DEF Bought
      <4>2. QED
        BY <1>2, <3>1, <4>1 DEF Traded, Bought
    <3>2. QED
      BY <3>1 DEF Traded
  <2>2. QED
    BY <1>2, <1>4, <2>1, NoneTraded DEF MInv
<1>9. ASSUME NEW v \in Tokens PROVE OrderTold(v)'
  <2>1. OrderTold(v)
    BY DEF MInv, ChainTells
  <2>2. CASE v # t
    <3>1. SameCalls(v) /\ order'[v] = order[v] /\ nft'[v] = nft[v]
      BY <1>2, <2>2
    <3>2. QED
      BY <2>1, <3>1 DEF OrderTold, LastCall, IsOffer, SameCalls
  <2>3. CASE v = t
    <3>1. ASSUME NEW i \in CallsOf(t)' PROVE LastCall(t, i)' <=> i = new
      BY <1>2, <1>6 DEF LastCall
    <3>2. new \in CallsOf(t)'
      BY <1>2
    <3>3. CASE method = "addAsk"
      BY <1>2, <2>3, <3>1, <3>2, <3>3 DEF OrderTold, IsOffer
    <3>4. CASE method # "addAsk"
      BY <1>2, <2>3, <3>1, <3>2, <3>4 DEF OrderTold, IsOffer
    <3>5. QED
      BY <3>3, <3>4
  <2>4. QED
    BY <2>2, <2>3
<1>10. ASSUME NEW j \in DOMAIN chain'[n], Bought(j)'
       PROVE  \E i \in DOMAIN chain'[n] :
                 /\ Precedes(i, j)'
                 /\ IsOffer(i, chain[n][j].seller, chain[n][j].amount)'
  <2>1. CASE j # new
    <3> DEFINE v == chain[n][j].token
    <3>1. j \in DOMAIN chain[n] /\ chain'[n][j] = chain[n][j] /\ Bought(j)
      BY <1>2, <1>10, <2>1 DEF Bought
    <3>2. PICK i \in DOMAIN chain[n] :
            Precedes(i, j) /\ IsOffer(i, chain[n][j].seller, chain[n][j].amount)
      BY <3>1 DEF MInv, ChainTells, SaleTold
    <3>3. i \in DOMAIN chain'[n] /\ chain'[n][i] = chain[n][i]
      BY <1>2
    <3>4. j < new /\ j \in Nat
      BY <1>2, <3>1
    <3>5. PICK w : w = v
      OBVIOUS
    <3>6. CallsOf(w)' \subseteq CallsOf(w) \cup {new} /\ CallsOf(w) \subseteq CallsOf(w)'
      BY <1>2 DEF SameCalls
    <3>7. i \in CallsOf(w) /\ i < j /\ \A m \in CallsOf(w) : m <= i \/ m >= j
      BY <3>2, <3>5 DEF Precedes
    <3>8. i \in CallsOf(w)' /\ i < j /\ \A m \in CallsOf(w)' : m <= i \/ m >= j
      BY <1>2, <3>4, <3>6, <3>7
    <3>9. Precedes(i, j)'
      BY <3>1, <3>5, <3>8 DEF Precedes
    <3>10. IsOffer(i, chain[n][j].seller, chain[n][j].amount)'
      BY <3>1, <3>2, <3>3 DEF IsOffer
    <3>11. QED
      BY <3>3, <3>9, <3>10
  <2>2. CASE j = new
    <3>1. method = "buyKSM"
      BY <1>2, <1>10, <2>2 DEF Bought
    <3>2. PICK i \in CallsOf(t) : LastCall(t, i) /\ IsOffer(i, seller, amount)
      BY <3>1 DEF MInv, ChainTells, OrderTold
    <3>3. /\ i \in DOMAIN chain[n] /\ chain'[n][i] = chain[n][i] /\ i < new /\ i \in Nat
          /\ i \in DOMAIN chain'[n] /\ i \in CallsOf(t)'
      BY <1>2 DEF CallsOf
    <3>4. \A m \in CallsOf(t)' : m <= i \/ m >= new
      BY <1>2, <3>2 DEF LastCall
    <3>5. Precedes(i, j)'
      BY <1>2, <2>2, <3>3, <3>4 DEF Precedes
    <3>6. IsOffer(i, chain[n][j].seller, chain[n][j].amount)'
      BY <1>2, <2>2, <3>2, <3>3 DEF IsOffer
    <3>7. QED
      BY <3>3, <3>5, <3>6
  <2>3. QED
    BY <2>1, <2>2
<1>11. QED
  BY <1>5, <1>7, <1>8, <1>9, <1>10 DEF ChainTells, SaleTold

\* A call that is about no offer.
LEMMA OtherCallKeeps ==
  ASSUME MInv, NEW method, method \notin OfferMethods, NEW u, NEW seller, NEW amount,
         Log("unique", method, Nobody, u, seller, amount),
         UNCHANGED <<head, scanned, scanner, asks, trades, managed, removal, order, nft>>, SInv'
  PROVE  MInv'
<1> DEFINE n == "unique"
<1>1. PICK new : new = Len(chain[n]) + 1
  OBVIOUS
<1>2. /\ DOMAIN chain'[n] = DOMAIN chain[n] \cup {new}
      /\ \A i \in DOMAIN chain[n] : chain'[n][i] = chain[n][i]
      /\ chain'[n][new].method = method
      /\ \A v : SameCalls(v) /\ TodoOf(v)' = TodoOf(v)
      /\ Untraded' = Untraded
  BY <1>1, LogPlan DEF MInv, OfferMethods
<1>3. Marked' /\ AsksClean' /\ MemoryOK'
  BY UserMemory
<1>4. \A v \in Tokens : Tells(v)'
  <2>1. TradesGrow /\ \A v : KeepsOffers(v)
    BY SameOffers DEF TradesGrow
  <2>2. QED
    BY <1>2, <2>1, StillTells DEF MInv
<1>5. \A i \in DOMAIN chain'[n] : Bought(i)' => i \in DOMAIN chain[n]
  BY <1>2 DEF Bought, OfferMethods
<1>6. SalesTraded'
  <2>1. Traded' \subseteq Traded
    BY <1>2, <1>5 DEF Traded, Bought
  <2>2. QED
    BY <1>2, <2>1, NoneTraded DEF MInv, TradesGrow
<1>7. ASSUME NEW v \in Tokens PROVE OrderTold(v)'
  BY <1>2 DEF MInv, ChainTells, OrderTold, LastCall, IsOffer, SameCalls
<1>8. ASSUME NEW j \in DOMAIN chain'[n] PROVE SaleTold(j)'
  <2>1. SUFFICES ASSUME Bought(j)' PROVE SaleTold(j)'
    BY DEF SaleTold
  <2>2. j \in DOMAIN chain[n] /\ chain'[n][j] = chain[n][j] /\ Bought(j)
    BY <1>2, <1>5, <2>1 DEF Bought
  <2>3. PICK i \in DOMAIN chain[n] :
          Precedes(i, j) /\ IsOffer(i, chain[n][j].seller, chain[n][j].amount)
    BY <2>2 DEF MInv, ChainTells, SaleTold
  <2>4. Precedes(i, j)' /\ IsOffer(i, chain[n][j].seller, chain[n][j].amount)'
    <3>1. PICK w : w = chain[n][j].token
      OBVIOUS
    <3>2. CallsOf(w)' = CallsOf(w)
      BY <1>2 DEF SameCalls
    <3>3. Precedes(i, j)'
      BY <2>2, <2>3, <3>1, <3>2 DEF Precedes
    <3>4. QED
      BY <1>2, <2>2, <2>3, <3>3 DEF IsOffer
  <2>5. QED
    BY <1>2, <2>4 DEF SaleTold
<1>9. QED
  BY <1>3, <1>4, <1>6, <1>7, <1>8 DEF MInv, ChainTells

\* Steps of which the mirror knows nothing.
LEMMA QuietKeeps ==
  ASSUME MInv, SInv', SamePlan, Marked', MemoryOK',
         UNCHANGED <<chain["unique"], order, nft, asks, trades>>
  PROVE  MInv'
<1>1. ASSUME NEW t \in Tokens PROVE Tells(t)'
  <2>1. SameCalls(t) /\ KeepsOffers(t) /\ TradesGrow
    BY SameOffers DEF SameCalls, CallsOf, TradesGrow
  <2>2. QED
    BY <2>1, StillTells DEF MInv, SamePlan
<1>2. SalesTraded'
  BY StillTraded DEF MInv, SamePlan, TradesGrow
<1>3. ChainTells'
  BY StillTold DEF MInv
<1>4. AsksClean'
  BY DEF MInv, AsksClean
<1>5. QED
  BY <1>1, <1>2, <1>3, <1>4 DEF MInv

\* ... among them those of the other process.
LEMMA UnawareKeeps ==
  ASSUME MInv, SInv', UNCHANGED <<chain["unique"], scanned["unique"], scanner["unique"],
                                  order, nft, asks, trades, managed, removal>>
  PROVE  MInv'
<1>1. SamePlan
  <2>1. \A i : (Todo(i)' <=> Todo(i)) /\ (ToTrade(i)' <=> ToTrade(i))
    BY DEF Todo, ToTrade, Undone, Sold, InSale
  <2>2. QED
    BY <2>1 DEF SamePlan, TodoOf, CallsOf, Untraded, Bought
<1>2. Marked' /\ MemoryOK'
  BY DEF MInv, Marked, MemoryOK, MidBlock, InSale, Call, OpenAsks
<1>3. QED
  BY <1>1, <1>2, QuietKeeps

LEMMA UserStepMirrors ==
  ASSUME Undisturbed, MInv, UserStep, SInv'
  PROVE  MInv'
<1>1. /\ order \in [Tokens -> OrderType] /\ nft \in [Tokens -> Users \cup {Contract}]
      /\ IInv /\ Contract \notin Users
  BY ContractAssumption DEF MInv, SInv, IInv, Custody, ContractTypeOK
<1>2. ASSUME NEW u \in Users, NEW t \in Tokens, NEW p \in Prices, CallAddAsk(u, t, p)
      PROVE  MInv'
  <2>1. /\ order'[t] = [owner |-> u, price |-> p, active |-> TRUE]
        /\ \A v \in Tokens \ {t} : order'[v] = order[v] /\ nft'[v] = nft[v]
    BY <1>1, <1>2 DEF CallAddAsk, AddAsk, TransferFrom
  <2>2. /\ Log("unique", "addAsk", t, u, Nobody, p) /\ "addAsk" \in OfferMethods
        /\ UNCHANGED <<head, scanned, scanner, asks, trades, managed, removal>>
    BY <1>2 DEF CallAddAsk, tables, OfferMethods
  <2>3. /\ \A v \in Tokens : Tells(v)'
        /\ SalesTraded' /\ ChainTells'
    BY <2>1, <2>2, CallTells
  <2>4. Marked' /\ AsksClean' /\ MemoryOK'
    BY <2>2, UserMemory
  <2>5. QED
    BY <2>3, <2>4 DEF MInv
<1>3. ASSUME NEW u \in Users, NEW t \in Tokens, CallCancelAsk(u, t)
      PROVE  MInv'
  <2>1. /\ order'[t].active = FALSE /\ nft'[t] = u
        /\ \A v \in Tokens \ {t} : order'[v] = order[v] /\ nft'[v] = nft[v]
    <3>1. order[t] \in OrderType
      BY <1>1
    <3>2. QED
      BY <1>1, <1>3, <3>1 DEF CallCancelAsk, CancelAsk, CloseOrder, TransferFrom, OrderType
  <2>2. /\ Log("unique", "cancelAsk", t, u, Nobody, 0) /\ "cancelAsk" \in OfferMethods
        /\ UNCHANGED <<head, scanned, scanner, asks, trades, managed, removal>>
    BY <1>3 DEF CallCancelAsk, tables, OfferMethods
  <2>3. /\ \A v \in Tokens : Tells(v)'
        /\ SalesTraded' /\ ChainTells'
    BY <1>1, <2>1, <2>2, CallTells
  <2>4. Marked' /\ AsksClean' /\ MemoryOK'
    BY <2>2, UserMemory
  <2>5. QED
    BY <2>3, <2>4 DEF MInv
<1>4. ASSUME NEW u \in Users, NEW t \in Tokens, NEW r \in Users \cup {Contract},
             CallBuyKSM(u, t, r)
      PROVE  MInv'
  <2> DEFINE s == order[t].owner
             p == order[t].price
  <2>1. /\ order'[t].active = FALSE /\ nft'[t] = u /\ nft[t] = Contract
        /\ \A v \in Tokens \ {t} : order'[v] = order[v] /\ nft'[v] = nft[v]
    <3>1. order[t] \in OrderType
      BY <1>1
    <3>2. r = u
      BY <1>4 DEF CallBuyKSM, Undisturbed
    <3>3. QED
      BY <1>1, <1>4, <3>1, <3>2 DEF CallBuyKSM, BuyKSM, CloseOrder, TransferFrom, OrderType
  <2>2. /\ Log("unique", "buyKSM", t, u, s, p) /\ "buyKSM" \in OfferMethods
        /\ UNCHANGED <<head, scanned, scanner, asks, trades, managed, removal>>
    <3>1. UNCHANGED head
      BY <1>4 DEF CallBuyKSM
    <3>2. QED
      BY <1>4, <3>1 DEF CallBuyKSM, tables, OfferMethods
  <2>3. order[t].active
    BY <2>1 DEF MInv, ChainTells, OrderTold
  <2>4. /\ \A v \in Tokens : Tells(v)'
        /\ SalesTraded' /\ ChainTells'
    BY <1>1, <2>1, <2>2, <2>3, CallTells
  <2>5. Marked' /\ AsksClean' /\ MemoryOK'
    BY <2>2, UserMemory
  <2>6. QED
    BY <2>4, <2>5 DEF MInv
<1>5. ASSUME NEW u \in Users, CallWithdrawAllKSM(u)
      PROVE  MInv'
  <2>1. /\ Log("unique", "withdrawAllKSM", Nobody, u, Nobody, balanceKSM[u])
        /\ "withdrawAllKSM" \notin OfferMethods
        /\ UNCHANGED <<head, scanned, scanner, asks, trades, managed, removal, order, nft>>
    BY <1>5 DEF CallWithdrawAllKSM, WithdrawAllKSM, tables, OfferMethods
  <2>2. QED
    BY <2>1, OtherCallKeeps
<1>6. ASSUME NEW u \in Users, NEW a \in Amounts, TransferToMarket(u, a)
      PROVE  MInv'
  <2>1. chain'["unique"] = chain["unique"]
    BY <1>1, <1>6 DEF TransferToMarket, Log, IInv, ChainsOK, Networks
  <2>2. UNCHANGED <<scanned, scanner, order, nft, asks, trades, managed, removal>>
    BY <1>6 DEF TransferToMarket, tables, contractVars
  <2>3. QED
    BY <2>1, <2>2, UnawareKeeps
<1>7. ASSUME NEW u \in Users, NEW t \in Tokens, CallIgnored(u, t)
      PROVE  MInv'
  BY <1>7 DEF CallIgnored, Undisturbed
<1>8. ASSUME NEW u \in Users, NEW t \in Tokens, NEW v \in Users \cup {Contract},
             CallTransfer(u, t, v)
      PROVE  MInv'
  BY <1>8 DEF CallTransfer, Undisturbed
<1>9. QED
  BY <1>2, <1>3, <1>4, <1>5, <1>6, <1>7, <1>8 DEF UserStep

-----------------------------------------------------------------------------
(* The steps of the processes that write neither asks nor trades.          *)

LEMMA ManagedStays ==
  ASSUME IInv, NEW n \in Networks,
         \/ \E pc : Go(n, pc) \/ NextCall(n, pc)
         \/ \E pc, i : scanner' = WithAsk(scanner, n, pc, i)
         \/ \E pc, i, t : scanner' = WithRow(scanner, n, pc, i, t)
  PROVE  scanner'[n].managed = scanner[n].managed
<1>1. scanner \in Scanners
  BY Places
<1>2. CASE \E pc : Go(n, pc)
  BY <1>1, <1>2 DEF Go, Scanners, ScannerType
<1>3. CASE \E pc : NextCall(n, pc)
  BY <1>1, <1>3 DEF NextCall, Scanners, ScannerType
<1>4. CASE \E pc, i : scanner' = WithAsk(scanner, n, pc, i)
  BY <1>1, <1>4 DEF WithAsk, Scanners, ScannerType
<1>5. CASE \E pc, i, t : scanner' = WithRow(scanner, n, pc, i, t)
  <2>1. PICK pc, i, t : scanner' = WithRow(scanner, n, pc, i, t)
    BY <1>5
  <2>2. scanner'[n] = [[[scanner[n] EXCEPT !.pc = pc] EXCEPT !.row = i] EXCEPT !.then = t]
    BY <1>1, <2>1 DEF WithRow, Scanners
  <2>3. scanner[n] \in ScannerType
    BY <1>1 DEF Scanners
  <2>4. QED
    BY <2>2, <2>3 DEF ScannerType
<1>6. QED
  BY <1>2, <1>3, <1>4, <1>5

\* It stays out of the blocks, or goes on with a sale.
LEMMA CarriesOn ==
  ASSUME MInv, SInv',
         UNCHANGED <<chain, scanned, order, nft, asks, trades, managed, removal>>,
         scanner'["unique"].current = scanner["unique"].current,
         \/ ~MidBlock("unique") /\ ~MidBlock("unique")'
         \/ /\ Sold /\ Sold' /\ scanner'["unique"].at = scanner["unique"].at
            /\ scanner'["unique"].block = scanner["unique"].block
            /\ scanner'["unique"].managed = scanner["unique"].managed
  PROVE  MInv'
<1> DEFINE n == "unique"
<1>1. SamePlan
  BY PlanStays
<1>2. (Sold => MidBlock(n)) /\ (Sold' => MidBlock(n)') /\ scanner'[n].pc # "register"
  BY DEF Sold, MidBlock, InSale, Carrying
<1>3. Marked'
  BY <1>2 DEF MInv, Marked
<1>4. MemoryOK'
  BY <1>2 DEF MInv, MemoryOK
<1>5. QED
  BY <1>1, <1>3, <1>4, QuietKeeps

LEMMA LoopMirrors ==
  ASSUME MInv, SInv',
         Begin("unique") \/ EmptyBlock("unique") \/ EndOfBlock("unique") \/ NoMoreMoney("unique")
  PROVE  MInv'
<1> DEFINE n == "unique"
<1>1. n \in Networks /\ IInv /\ SInv /\ scanner \in Scanners /\ scanner[n] \in ScannerType
  BY Places DEF Networks, MInv, SInv
<1>2. CASE Begin(n)
  <2>1. /\ scanner'[n].managed = managed /\ scanner'[n].pc # "register"
        /\ UNCHANGED <<chain, order, nft, asks, trades, managed, removal>>
    <3>1. /\ scanner'[n].managed = managed
          /\ scanner'[n].pc = IF scanner[n].current \in scanned[n] THEN "money" ELSE "scan"
      BY <1>1, <1>2, BeginPlace
    <3>2. UNCHANGED <<chain, order, nft, asks, trades, managed, removal>>
      BY <1>2 DEF Begin, outside, contractVars, tables
    <3>3. QED
      BY <3>1, <3>2
  <2>2. MemoryOK'
    BY <2>1 DEF MInv, MemoryOK
  <2>3. QED
    BY <1>2, <2>1, <2>2, BeginPlan, QuietKeeps DEF MInv
<1>3. CASE EmptyBlock(n)
  <2>1. Go(n, "money") /\ "money" \in Pcs
    BY <1>3 DEF EmptyBlock, Pcs
  <2>2. SetPlace(n, "money", scanner[n].at)
    BY <1>1, <2>1, GoPlace
  <2>3. ~MidBlock(n) /\ ~MidBlock(n)'
    BY <1>3, <2>2 DEF EmptyBlock, MidBlock, InSale, Carrying, SetPlace
  <2>4. UNCHANGED <<chain, scanned, order, nft, asks, trades, managed, removal>>
    BY <1>3 DEF EmptyBlock, outside, contractVars, tables
  <2>5. QED
    BY <2>2, <2>3, <2>4, CarriesOn DEF SetPlace
<1>4. CASE NoMoreMoney(n)
  <2>1. scanner'[n] = Started(scanner[n].current)
    BY <1>1, <1>4 DEF NoMoreMoney, Scanners
  <2>2. /\ scanner'[n].current = scanner[n].current
        /\ ~MidBlock(n) /\ ~MidBlock(n)'
    BY <1>4, <2>1 DEF NoMoreMoney, Started, MidBlock, InSale, Carrying
  <2>3. UNCHANGED <<chain, scanned, order, nft, asks, trades, managed, removal>>
    BY <1>4 DEF NoMoreMoney, outside, contractVars, tables
  <2>4. QED
    BY <2>2, <2>3, CarriesOn
<1>5. CASE EndOfBlock(n)
  <2>1. Go(n, "money") /\ "money" \in Pcs
    BY <1>5 DEF EndOfBlock, Pcs
  <2>2. SetPlace(n, "money", scanner[n].at)
    BY <1>1, <2>1, GoPlace
  <2>3. ~MidBlock(n)' /\ scanner'[n].pc # "register"
    BY <2>2 DEF MidBlock, InSale, Carrying, SetPlace
  <2>4. UNCHANGED <<chain, order, nft, asks, trades, managed, removal>>
    BY <1>5 DEF EndOfBlock, outside, contractVars, admin
  <2>5. MemoryOK'
    BY <2>3, <2>4 DEF MInv, MemoryOK
  <2>6. QED
    BY <1>5, <2>4, <2>5, EndPlan, QuietKeeps DEF MInv
<1>6. QED
  BY <1>2, <1>3, <1>4, <1>5

\* Carrying money is out of the blocks, or the end of a sale.
LEMMA CarryMirrors ==
  ASSUME MInv, SInv',
         \/ Pick("unique") \/ Send("unique") \/ SendFails("unique") \/ Report("unique")
         \/ Start \/ Deduct
  PROVE  MInv'
<1> DEFINE n == "unique"
           s == scanner[n]
<1>1. n \in Networks /\ IInv /\ scanner \in Scanners /\ s \in ScannerType
  BY Places DEF Networks, MInv, SInv
<1>2. UNCHANGED <<chain, scanned, order, nft, asks, trades, managed, removal>>
  <2>1. CASE Send(n)
    BY <2>1 DEF Send, Effect, DepositKSM, WithdrawKSM, admin
  <2>2. CASE ~Send(n)
    BY <2>2 DEF Pick, SendFails, Report, Start, Deduct, outside, contractVars, tables, admin
  <2>3. QED
    BY <2>1, <2>2
<1>3. SUFFICES /\ scanner'[n].current = s.current
               /\ \/ ~MidBlock(n) /\ ~MidBlock(n)'
                  \/ /\ Sold /\ Sold' /\ scanner'[n].at = s.at
                     /\ scanner'[n].block = s.block /\ scanner'[n].managed = s.managed
  BY <1>2, CarriesOn
<1>4. ASSUME NEW pc \in Pcs, Go(n, pc),
             \/ s.pc \in Carrying /\ pc \in Carrying
             \/ s.pc \in Carrying /\ pc = s.then
      PROVE  /\ scanner'[n].current = s.current
             /\ \/ ~MidBlock(n) /\ ~MidBlock(n)'
                \/ /\ Sold /\ Sold' /\ scanner'[n].at = s.at
                   /\ scanner'[n].block = s.block /\ scanner'[n].managed = s.managed
  <2>1. SetPlace(n, pc, s.at) /\ scanner'[n].then = s.then /\ scanner'[n].managed = s.managed
    BY <1>1, <1>4, GoPlace, ManagedStays
  <2>2. s.then \in {"money", "payout"}
    BY <1>1 DEF ScannerType
  <2>3. CASE s.then = "payout"
    <3>1. Sold /\ Sold'
      BY <1>4, <2>1, <2>3 DEF Sold, SetPlace
    <3>2. QED
      BY <2>1, <3>1 DEF SetPlace
  <2>4. CASE s.then = "money"
    <3>1. ~MidBlock(n) /\ ~MidBlock(n)'
      BY <1>4, <2>1, <2>4 DEF MidBlock, InSale, SetPlace, Carrying
    <3>2. QED
      BY <2>1, <3>1 DEF SetPlace
  <2>5. QED
    BY <2>2, <2>3, <2>4
<1>5. CASE Send(n) \/ SendFails(n) \/ Start
  <2>1. \E pc \in Pcs : Go(n, pc) /\ s.pc \in Carrying /\ pc \in Carrying
    BY <1>5 DEF Send, SendFails, Start, Pcs, Carrying
  <2>2. QED
    BY <1>4, <2>1
<1>6. CASE Report(n)
  <2>1. s.then \in Pcs /\ Go(n, s.then) /\ s.pc \in Carrying
    BY <1>1, <1>6 DEF Report, Close, Pcs, Carrying, ScannerType
  <2> DEFINE pc == s.then
  <2>2. pc \in Pcs /\ Go(n, pc) /\ pc = s.then
    BY <2>1
  <2> HIDE DEF pc
  <2>3. QED
    BY <1>4, <2>1, <2>2
<1>7. CASE Pick(n)
  <2> DEFINE r == Min(Pending(n))
  <2>1. r \in Nat
    <3>1. Pending(n) \in SUBSET Nat
      BY <1>1, Places DEF Pending, TablesOK
    <3>2. QED
      BY <1>7, <3>1, MinIsMember DEF Pick
  <2>2. scanner' = WithRow(scanner, n, "send", r, "money")
    BY <1>7 DEF Pick, WithRow
  <2> HIDE DEF r
  <2>3. SetPlace(n, "send", s.at) /\ scanner'[n].then = "money"
    BY <1>1, <2>1, <2>2, WithRowPlace DEF Pcs, Thens
  <2>4. ~MidBlock(n) /\ ~MidBlock(n)'
    BY <1>7, <2>3 DEF Pick, MidBlock, InSale, SetPlace, Carrying
  <2>5. QED
    BY <2>3, <2>4 DEF SetPlace
<1>8. CASE Deduct
  <2> DEFINE r == Len(money) + 1
  <2>1. r \in Nat
    BY <1>1, Places DEF TablesOK
  <2>2. scanner' = WithRow(scanner, n, "start", r, "payout") /\ Sold
    BY <1>8 DEF Deduct, WithRow, Sold
  <2> HIDE DEF r
  <2>3. SetPlace(n, "start", s.at) /\ scanner'[n].then = "payout"
    BY <1>1, <2>1, <2>2, WithRowPlace DEF Pcs, Thens
  <2>4. Sold' /\ scanner'[n].managed = s.managed
    <3>1. Sold'
      BY <2>3 DEF Sold, SetPlace, Carrying
    <3>2. QED
      BY <1>1, <2>2, <3>1, ManagedStays
  <2>5. QED
    BY <2>2, <2>3, <2>4 DEF SetPlace
<1>9. QED
  BY <1>5, <1>6, <1>7, <1>8

\* A crash leaves the asks between the marked blocks and those that are scanned again.
LEMMA CrashMirrors ==
  ASSUME MInv, SInv', Crash("unique"), TradesGrow
  PROVE  MInv'
<1> DEFINE n == "unique"
<1>1. /\ UNCHANGED <<chain, scanned, order, nft, asks, trades, managed, removal>>
      /\ "crash" \in Allowed
  BY DEF Crash, outside, contractVars, tables
<1>2. /\ \A t : TodoOf(t)' = {i \in CallsOf(t) : Undone(i)}
      /\ Untraded' = {i \in DOMAIN chain["unique"] : Bought(i) /\ Undone(i)}
      /\ Marked' /\ scanner'[n].pc = "next"
  BY CrashPlan DEF MInv
<1>3. \A t : KeepsOffers(t)
  BY <1>1, SameOffers
<1>4. ASSUME NEW t \in Tokens PROVE Tells(t)'
  <2>1. TodoOf(t) \subseteq TodoOf(t)'
    BY <1>2 DEF TodoOf, Todo
  <2>2. TodoOf(t)' = {} => Mirrors(t)'
    BY <1>1, <2>1 DEF MInv, Tells, Mirrors, Matches, OpenAsks
  <2>3. ASSUME NEW i \in TodoOf(t)', Bought(i)', \A j \in TodoOf(t)' : i <= j
        PROVE  OpenFor(i)' \/ HasTrade(i)'
    <3>1. i \in CallsOf(t) /\ i \in DOMAIN chain[n] /\ Undone(i) /\ Bought(i)
      BY <1>1, <1>2, <2>3 DEF CallsOf, Bought
    <3>2. CASE i \notin Untraded
      <4>1. HasTrade(i)
        BY <3>1, <3>2 DEF MInv, SalesTraded, Traded
      <4>2. QED
        BY <1>1, <4>1 DEF HasTrade
    <3>3. CASE i \in Untraded
      <4>1. i \in TodoOf(t)
        <5>1. i \in Nat /\ scanner[n].at \in Nat
          <6>1. IInv /\ n \in Networks
            BY DEF MInv, SInv, Networks
          <6>2. QED
            BY <3>1, <6>1, Places DEF ChainsOK, ScannerType
        <5>2. QED
          BY <3>1, <3>3, <5>1 DEF TodoOf, Todo, Untraded, ToTrade, Sold, InSale
      <4>2. OpenFor(i) \/ HasTrade(i)
        BY <2>1, <2>3, <3>1, <4>1 DEF MInv, Tells
      <4>3. QED
        BY <1>1, <4>2 DEF OpenFor, HasTrade, Matches, OpenAsks
    <3>4. QED
      BY <3>2, <3>3
  <2>4. QED
    BY <1>1, <2>2, <2>3 DEF Tells
<1>5. SalesTraded'
  <2>1. Untraded \subseteq Untraded'
    BY <1>2 DEF Untraded, ToTrade
  <2>2. QED
    BY <1>1, <2>1, StillTraded DEF MInv
<1>6. ChainTells' /\ AsksClean'
  BY <1>1, StillTold DEF MInv, AsksClean
<1>7. MemoryOK'
  BY <1>1, <1>2 DEF MInv, MemoryOK, MidBlock, InSale, Carrying
<1>8. QED
  BY <1>2, <1>4, <1>5, <1>6, <1>7 DEF MInv

-----------------------------------------------------------------------------
(* The calls that offer a token or take it off.                            *)

LEMMA TodoFromHere ==
  ASSUME SInv, Marked, scanner["unique"].pc \in {"scan", "register", "bought"}, NEW t
  PROVE  TodoOf(t) = {i \in CallsOf(t) : i >= scanner["unique"].at}
<1>1. MidBlock("unique") /\ ~Sold
  BY DEF MidBlock, InSale, Sold, Carrying
<1>2. \A i \in CallsOf(t) : i \in DOMAIN chain["unique"]
  BY DEF CallsOf
<1>3. \A i \in CallsOf(t) : i >= scanner["unique"].at => Undone(i)
  BY <1>1, <1>2, NothingDoneBehind
<1>4. QED
  BY <1>1, <1>3 DEF TodoOf, Todo

\* When a call is done, it is the last of its token or the next one is left; and a
\* sale is of the offer that the call before made.
LEMMA CallDone ==
  ASSUME MInv, scanner["unique"].pc \in {"scan", "register", "bought"}, NEW t \in Tokens,
         scanner["unique"].at \in CallsOf(t), UNCHANGED chain["unique"],
         TodoOf(t)' = TodoOf(t) \ {scanner["unique"].at}
  PROVE  LET at == scanner["unique"].at IN
         /\ TodoOf(t)' = {} => LastCall(t, at)
         /\ \A j \in TodoOf(t)' : Bought(j) /\ (\A i \in TodoOf(t)' : j <= i) =>
              IsOffer(at, chain["unique"][j].seller, chain["unique"][j].amount)
<1> DEFINE n == "unique"
           at == scanner[n].at
<1>1. TodoOf(t) = {i \in CallsOf(t) : i >= at}
  BY TodoFromHere DEF MInv
<1>2. \A i \in CallsOf(t) : i \in Nat /\ i \in DOMAIN chain[n] /\ chain[n][i].token = t
  BY Places DEF CallsOf, MInv, SInv, ChainsOK, Networks
<1>3. at \in Nat
  BY <1>2
<1>4. TodoOf(t)' = {i \in CallsOf(t) : i > at}
  BY <1>1, <1>2, <1>3
<1> HIDE DEF at
<1>5. TodoOf(t)' = {} => LastCall(t, at)
  BY <1>2, <1>3, <1>4 DEF LastCall
<1>6. ASSUME NEW j \in TodoOf(t)', Bought(j), \A i \in TodoOf(t)' : j <= i
      PROVE  IsOffer(at, chain[n][j].seller, chain[n][j].amount)
  <2>1. j \in CallsOf(t) /\ j > at /\ j \in DOMAIN chain[n] /\ j \in Nat /\ chain[n][j].token = t
    BY <1>2, <1>4, <1>6
  <2>2. PICK i \in DOMAIN chain[n] :
          Precedes(i, j) /\ IsOffer(i, chain[n][j].seller, chain[n][j].amount)
    BY <1>6, <2>1 DEF MInv, ChainTells, SaleTold
  <2>3. i \in CallsOf(t) /\ i < j /\ \A m \in CallsOf(t) : m <= i \/ m >= j
    BY <2>1, <2>2 DEF Precedes
  <2>4. at \in CallsOf(t)
    BY DEF at
  <2>5. at <= i
    BY <1>3, <2>1, <2>3, <2>4
  <2>6. ~(i > at)
    <3>1. i > at => j <= i
      BY <1>4, <1>6, <2>3
    <3>2. i \in Nat /\ j \in Nat /\ i < j
      BY <1>2, <2>1, <2>3
    <3>3. QED
      BY <3>1, <3>2
  <2>7. i = at
    BY <1>2, <1>3, <2>3, <2>5, <2>6
  <2>8. QED
    BY <2>2, <2>7
<1>7. QED
  BY <1>5, <1>6 DEF at

LEMMA ClosedTells ==
  ASSUME MInv, scanner["unique"].pc \in {"scan", "register", "bought"}, NEW t \in Tokens,
         scanner["unique"].at \in CallsOf(t), Call("unique").method # "addAsk",
         UNCHANGED <<chain["unique"], order>>,
         TodoOf(t)' = TodoOf(t) \ {scanner["unique"].at}, OpenAsks(t)' = {}
  PROVE  Tells(t)'
<1> DEFINE at == scanner["unique"].at
<1>1. /\ TodoOf(t)' = {} => LastCall(t, at)
      /\ \A j \in TodoOf(t)' : Bought(j) /\ (\A i \in TodoOf(t)' : j <= i) =>
           IsOffer(at, chain["unique"][j].seller, chain["unique"][j].amount)
  BY CallDone
<1>2. \A u, p : ~IsOffer(at, u, p)
  BY DEF IsOffer, Call
<1>3. \A i \in CallsOf(t) : i \in Nat
  BY Places DEF CallsOf, MInv, SInv, ChainsOK, Networks
<1>4. LastCall(t, at) => ~order[t].active
  <2>1. ASSUME LastCall(t, at), order[t].active PROVE FALSE
    <3>1. PICK i \in CallsOf(t) : LastCall(t, i) /\ IsOffer(i, order[t].owner, order[t].price)
      BY <2>1 DEF MInv, ChainTells, OrderTold
    <3>2. at <= i /\ i <= at /\ at \in Nat /\ i \in Nat
      BY <1>3, <2>1, <3>1 DEF LastCall
    <3>3. i = at
      BY <3>2
    <3>4. QED
      BY <1>2, <3>1, <3>3
  <2>2. QED
    BY <2>1
<1>5. TodoOf(t)' = {} => Mirrors(t)'
  BY <1>1, <1>4 DEF Mirrors
<1>6. \A j \in TodoOf(t)' : ~(Bought(j)' /\ (\A i \in TodoOf(t)' : j <= i))
  BY <1>1, <1>2 DEF Bought
<1>7. QED
  BY <1>5, <1>6 DEF Tells

LEMMA OpenedTells ==
  ASSUME MInv, scanner["unique"].pc \in {"scan", "register", "bought"}, NEW t \in Tokens,
         scanner["unique"].at \in CallsOf(t), Call("unique").method = "addAsk",
         UNCHANGED <<chain["unique"], order>>,
         TodoOf(t)' = TodoOf(t) \ {scanner["unique"].at},
         NEW u, NEW p, Call("unique").who = u, Call("unique").amount = p, Matches(t, u, p)'
  PROVE  Tells(t)'
<1> DEFINE n == "unique"
           at == scanner[n].at
<1>1. /\ TodoOf(t)' = {} => LastCall(t, at)
      /\ \A j \in TodoOf(t)' : Bought(j) /\ (\A i \in TodoOf(t)' : j <= i) =>
           IsOffer(at, chain[n][j].seller, chain[n][j].amount)
  BY CallDone
<1>2. \A v, q : IsOffer(at, v, q) => v = u /\ q = p
  BY DEF IsOffer, Call
<1>3. \A i \in CallsOf(t) : i \in Nat /\ chain[n][i].token = t
  BY Places DEF CallsOf, MInv, SInv, ChainsOK, Networks
<1>4. LastCall(t, at) => order[t].active /\ order[t].owner = u /\ order[t].price = p
  <2>1. SUFFICES ASSUME LastCall(t, at)
                 PROVE  order[t].active /\ order[t].owner = u /\ order[t].price = p
    OBVIOUS
  <2>2. order[t].active
    BY <2>1 DEF MInv, ChainTells, OrderTold, Call
  <2>3. PICK i \in CallsOf(t) : LastCall(t, i) /\ IsOffer(i, order[t].owner, order[t].price)
    BY <2>2 DEF MInv, ChainTells, OrderTold
  <2>4. at <= i /\ i <= at /\ at \in Nat /\ i \in Nat
    BY <1>3, <2>1, <2>3 DEF LastCall
  <2>5. i = at
    BY <2>4
  <2>6. QED
    BY <1>2, <2>2, <2>3, <2>5
<1>5. Matches(t, u, p)'
  OBVIOUS
<1>6. TodoOf(t)' = {} => Mirrors(t)'
  BY <1>1, <1>4, <1>5 DEF Mirrors
<1>7. ASSUME NEW j \in TodoOf(t)', Bought(j)', \A i \in TodoOf(t)' : j <= i
      PROVE  OpenFor(j)'
  <2>1. IsOffer(at, chain[n][j].seller, chain[n][j].amount)
    BY <1>1, <1>7 DEF Bought
  <2>2. chain[n][j].seller = u /\ chain[n][j].amount = p
    BY <1>2, <2>1
  <2>3. chain[n][j].token = t
    BY <1>3, <1>7 DEF TodoOf, CallsOf
  <2>4. QED
    BY <1>5, <2>2, <2>3 DEF OpenFor
<1>8. QED
  BY <1>6, <1>7 DEF Tells

\* A step within a block.
LEMMA WithinBlock ==
  ASSUME MInv, UNCHANGED <<scanned, managed, removal>>,
         MidBlock("unique"), MidBlock("unique")',
         scanner'["unique"].block = scanner["unique"].block,
         scanner'["unique"].managed = scanner["unique"].managed
  PROVE  /\ Marked'
         /\ scanner'["unique"].pc # "register" => MemoryOK'
         /\ OpenAsks(Call("unique").token)' = {} => MemoryOK'
  BY DEF MInv, Marked, MemoryOK

\* To another step of the same call.
LEMMA PlanOfCall ==
  ASSUME SInv, Marked, UNCHANGED <<chain["unique"], scanned["unique"]>>,
         NEW pc, SetPlace("unique", pc, scanner["unique"].at)
  PROVE  LET at == scanner["unique"].at IN
         /\ scanner["unique"].pc = "scan" /\ pc = "register" => SamePlan
         /\ scanner["unique"].pc = "scan" /\ pc = "bought" =>
              /\ \A t : TodoOf(t)' = TodoOf(t)
              /\ Untraded' = Untraded \ {at}
         /\ scanner["unique"].pc = "bought" /\ pc = "deduct" =>
              /\ \A t : TodoOf(t)' = TodoOf(t) \ {at}
              /\ Untraded' = Untraded
<1> DEFINE n == "unique"
           at == scanner[n].at
<1>1. /\ n \in Networks /\ at \in Nat /\ chain[n] \in Seq(CallType)
      /\ \A i \in DOMAIN chain[n] : i \in Nat
  BY Places DEF SInv, Networks, ChainsOK, ScannerType
<1>2. scanner'[n].pc = pc /\ scanner'[n].at = at
  BY DEF SetPlace
<1>3. \A i : Undone(i)' <=> Undone(i)
  BY DEF Undone
<1>4. /\ \A t : CallsOf(t)' = CallsOf(t) /\ CallsOf(t) \subseteq DOMAIN chain[n]
      /\ \A i : Bought(i)' <=> Bought(i)
  BY DEF CallsOf, Bought
<1>5. ASSUME scanner[n].pc = "scan", pc = "register" PROVE SamePlan
  <2>1. ~Sold /\ ~Sold' /\ ~InSale(n) /\ ~InSale(n)'
    BY <1>2, <1>5 DEF Sold, InSale, Carrying
  <2>2. \A i : (Todo(i)' <=> Todo(i)) /\ (ToTrade(i)' <=> ToTrade(i))
    BY <1>2, <1>3, <1>5, <2>1 DEF Todo, ToTrade
  <2>3. QED
    BY <1>4, <2>2 DEF SamePlan, TodoOf, Untraded
<1>6. ASSUME scanner[n].pc = "scan", pc = "bought"
      PROVE  (\A t : TodoOf(t)' = TodoOf(t)) /\ Untraded' = Untraded \ {at}
  <2>1. ~Sold /\ ~Sold' /\ ~InSale(n) /\ InSale(n)'
    BY <1>2, <1>6 DEF Sold, InSale, Carrying
  <2>2. \A i \in DOMAIN chain[n] : i > at <=> i >= at /\ i # at
    BY <1>1
  <2>3. \A i : Todo(i)' <=> Todo(i)
    BY <1>2, <1>3, <1>6, <2>1 DEF Todo
  <2>4. ASSUME NEW i \in DOMAIN chain[n] PROVE ToTrade(i)' <=> (ToTrade(i) /\ i # at)
    BY <1>2, <1>3, <1>6, <2>1, <2>2 DEF ToTrade
  <2>5. \A t : TodoOf(t)' = TodoOf(t)
    BY <1>4, <2>3 DEF TodoOf
  <2>6. QED
    BY <1>4, <2>4, <2>5 DEF Untraded
<1>7. ASSUME scanner[n].pc = "bought", pc = "deduct"
      PROVE  (\A t : TodoOf(t)' = TodoOf(t) \ {at}) /\ Untraded' = Untraded
  <2>1. ~Sold /\ Sold' /\ InSale(n) /\ InSale(n)'
    BY <1>2, <1>7 DEF Sold, InSale, Carrying
  <2>2. \A i \in DOMAIN chain[n] : i > at <=> i >= at /\ i # at
    BY <1>1
  <2>3. \A i : ToTrade(i)' <=> ToTrade(i)
    BY <1>2, <1>3, <1>7, <2>1 DEF ToTrade
  <2>4. ASSUME NEW i \in DOMAIN chain[n] PROVE Todo(i)' <=> (Todo(i) /\ i # at)
    BY <1>2, <1>3, <1>7, <2>1, <2>2 DEF Todo
  <2>5. \A t : TodoOf(t)' = TodoOf(t) \ {at}
    BY <1>4, <2>4 DEF TodoOf
  <2>6. QED
    BY <1>4, <2>3, <2>5 DEF Untraded
<1>8. QED
  BY <1>5, <1>6, <1>7

\* A call that a process looks at is one of its token's, if it is about an offer.
LEMMA CallOfToken ==
  ASSUME MInv, scanner["unique"].at \in DOMAIN chain["unique"],
         Call("unique").method \in {"addAsk", "buyKSM"}
  PROVE  /\ Call("unique").token \in Tokens
         /\ scanner["unique"].at \in CallsOf(Call("unique").token)
<1> DEFINE n == "unique"
           at == scanner[n].at
<1>1. ChainsOK
  BY DEF MInv, SInv, IInv
<1>2. at \in CallsOf(Call(n).token)
  BY DEF CallsOf, Call, OfferMethods
<1>3. CASE Call(n).method = "addAsk"
  BY <1>1, <1>2, <1>3 DEF ChainsOK, Call
<1>4. CASE Call(n).method = "buyKSM"
  <2>1. SaleTold(at) /\ Bought(at)
    BY <1>4 DEF MInv, ChainTells, Bought, Call
  <2>2. PICK i \in DOMAIN chain[n] :
          Precedes(i, at) /\ IsOffer(i, chain[n][at].seller, chain[n][at].amount)
    BY <2>1 DEF SaleTold
  <2>3. chain[n][i].token = Call(n).token /\ chain[n][i].token \in Tokens
    BY <1>1, <2>2 DEF Precedes, CallsOf, IsOffer, Call, ChainsOK
  <2>4. QED
    BY <1>2, <2>3
<1>5. QED
  BY <1>3, <1>4

LEMMA AddAskMirrors ==
  ASSUME MInv, SInv', ProcessAddAsk
  PROVE  MInv'
<1> DEFINE n == "unique"
           at == scanner[n].at
<1>1. /\ n \in Networks /\ SInv /\ IInv /\ Marked /\ AsksClean
      /\ UNCHANGED <<chain, order, nft, scanned, trades, managed, removal>>
  BY DEF MInv, SInv, Networks, ProcessAddAsk, outside, contractVars, admin
<1>2. /\ scanner[n].pc = "scan" /\ MidBlock(n) /\ at \in DOMAIN chain[n]
      /\ Call(n).method = "addAsk"
  BY <1>1, AtCall DEF ProcessAddAsk
<1>3. PICK t \in Tokens : t = Call(n).token
  BY <1>2, CallOfToken
<1>4. at \in CallsOf(t)
  BY <1>2, <1>3, CallOfToken
<1>5. /\ asks' = WithStatus(asks, OpenAsks(t), "cancelled")
      /\ Go(n, "register")
  BY <1>2, <1>3 DEF ProcessAddAsk, MInv, MemoryOK
<1>6. /\ AsksClean' /\ OpenAsks(t)' = {}
      /\ \A v : v # t => KeepsOffers(v)
  <2> DEFINE I == OpenAsks(t)
  <2>1. I \in SUBSET OpenAsks(t) /\ I \ I = {} /\ asks' = WithStatus(asks, I, "cancelled")
    BY <1>5
  <2> HIDE DEF I
  <2>2. /\ AsksClean' /\ OpenAsks(t)' = OpenAsks(t) \ I
        /\ \A v : v # t => KeepsOffers(v)
    BY <1>1, <2>1, ClosesOffers
  <2>3. QED
    BY <2>2 DEF I
<1>7. SetPlace(n, "register", at) /\ scanner'[n].managed = scanner[n].managed
  BY <1>1, <1>5, GoPlace, ManagedStays DEF Pcs
<1>8. SamePlan
  BY <1>1, <1>2, <1>7, PlanOfCall
<1>9. TradesGrow /\ \A v : SameCalls(v)
  BY <1>1 DEF TradesGrow, SameCalls, CallsOf
<1>10. ASSUME NEW v \in Tokens PROVE Tells(v)'
  <2>1. CASE v # t
    BY <1>1, <1>6, <1>8, <1>9, <2>1, StillTells DEF MInv, SamePlan
  <2>2. CASE v = t
    <3>1. TodoOf(t)' = {i \in CallsOf(t) : i >= at}
      BY <1>1, <1>2, <1>8, TodoFromHere DEF SamePlan
    <3>2. at \in TodoOf(t)' /\ at \in Nat
      <4>1. at \in Nat
        BY <1>1, <1>2, Places DEF ChainsOK
      <4>2. QED
        BY <1>4, <3>1, <4>1
    <3>3. ASSUME NEW i \in TodoOf(t)', \A j \in TodoOf(t)' : i <= j PROVE i = at
      <4>1. i \in Nat /\ i >= at
        BY <1>1, <3>1, Places DEF CallsOf, ChainsOK
      <4>2. i <= at
        BY <3>2, <3>3
      <4>3. QED
        BY <3>2, <4>1, <4>2
    <3>4. \A i \in TodoOf(t)' : Bought(i)' => ~(\A j \in TodoOf(t)' : i <= j)
      <4>1. ASSUME NEW i \in TodoOf(t)', Bought(i)', \A j \in TodoOf(t)' : i <= j PROVE FALSE
        <5>1. i = at
          BY <3>3, <4>1
        <5>2. chain'[n][i].method # "buyKSM"
          BY <1>1, <1>2, <5>1 DEF Call
        <5>3. QED
          BY <4>1, <5>2 DEF Bought
      <4>2. QED
        BY <4>1
    <3>5. QED
      BY <2>2, <3>2, <3>4 DEF Tells
  <2>3. QED
    BY <2>1, <2>2
<1>11. SalesTraded'
  BY <1>1, <1>8, <1>9, StillTraded DEF MInv, SamePlan
<1>12. ChainTells'
  BY <1>1, StillTold DEF MInv
<1>13. Marked' /\ MemoryOK'
  <2>1. MidBlock(n)' /\ scanner'[n].block = scanner[n].block
    BY <1>7 DEF MidBlock, SetPlace
  <2>2. OpenAsks(Call(n).token)' = {}
    <3>1. Call(n).token' = t
      BY <1>1, <1>3, <1>7 DEF Call, SetPlace
    <3>2. QED
      BY <1>6, <3>1 DEF OpenAsks
  <2>3. QED
    BY <1>1, <1>2, <1>7, <2>1, <2>2, WithinBlock
<1>14. QED
  BY <1>6, <1>10, <1>11, <1>12, <1>13 DEF MInv


LEMMA IndexStays ==
  ASSUME IInv, AsksClean, NEW t, NEW u, NEW p, OpenAsks(t) = {}
  PROVE  IndexHolds(Append(asks, [token |-> t, status |-> "active",
                                  seller |-> u, price |-> p]))
<1> DEFINE row == [token |-> t, status |-> "active", seller |-> u, price |-> p]
           rows == Append(asks, row)
           new == Len(asks) + 1
<1>1. asks \in Seq(AskType \cup {row}) /\ row \in AskType \cup {row}
  BY DEF IInv, TablesOK
<1>2. row.token = t
  OBVIOUS
<1> HIDE DEF row
<1>3. /\ DOMAIN rows = DOMAIN asks \cup {new} /\ rows[new] = row
      /\ \A i \in DOMAIN asks : rows[i] = asks[i]
  BY <1>1
<1> HIDE DEF new, rows
<1>4. \A i \in DOMAIN asks : asks[i].token = t => asks[i].status \notin OpenStatus
  BY DEF OpenAsks
<1>5. IndexHolds(rows)
  BY <1>2, <1>3, <1>4 DEF AsksClean, IndexHolds
<1>6. QED
  BY <1>5 DEF rows, row

\* The process has done with a call.
LEMMA CallGoesOn ==
  ASSUME MInv, NextCall("unique", "scan"), MidBlock("unique"),
         scanner["unique"].at \in DOMAIN chain["unique"],
         UNCHANGED <<chain, scanned, managed, removal>>
  PROVE  LET at == scanner["unique"].at IN
         /\ \A t : TodoOf(t)' = TodoOf(t) \ {at}
         /\ Untraded' = Untraded \ {at}
         /\ Marked' /\ MemoryOK'
<1> DEFINE n == "unique"
           at == scanner[n].at
<1>1. n \in Networks /\ SInv /\ IInv
  BY DEF MInv, SInv, Networks
<1>2. SetPlace(n, "scan", at + 1) /\ scanner'[n].managed = scanner[n].managed
  BY <1>1, NextPlace, ManagedStays DEF Pcs
<1>3. /\ \A t : TodoOf(t)' = TodoOf(t) \ {at}
      /\ Untraded' = Untraded \ {at}
  BY <1>1, <1>2, PlanGoesOn
<1>4. MidBlock(n)' /\ scanner'[n].block = scanner[n].block /\ scanner'[n].pc # "register"
  BY <1>2 DEF MidBlock, SetPlace
<1>5. Marked' /\ MemoryOK'
  BY <1>2, <1>4, WithinBlock
<1>6. QED
  BY <1>3, <1>5

\* What is left of the tokens that a call is not about.
LEMMA OthersTell ==
  ASSUME MInv, NEW t, UNCHANGED <<chain, order>>, TradesGrow,
         \A v : v # t => KeepsOffers(v),
         \A v \in Tokens : v # t => TodoOf(v)' = TodoOf(v) \ {scanner["unique"].at},
         scanner["unique"].at \in DOMAIN chain["unique"], Call("unique").token = t
  PROVE  \A v \in Tokens : v # t => Tells(v)'
<1> DEFINE at == scanner["unique"].at
<1>1. ASSUME NEW v \in Tokens, v # t PROVE Tells(v)'
  <2>1. at \notin CallsOf(v)
    BY <1>1 DEF CallsOf, Call
  <2>2. TodoOf(v)' = TodoOf(v)
    BY <1>1, <2>1 DEF TodoOf
  <2>3. SameCalls(v)
    BY DEF SameCalls, CallsOf
  <2>4. QED
    BY <1>1, <2>2, <2>3, StillTells DEF MInv
<1>2. QED
  BY <1>1

LEMMA RegisterAskMirrors ==
  ASSUME MInv, SInv', RegisterAsk
  PROVE  MInv'
<1> DEFINE n == "unique"
           at == scanner[n].at
<1>1. /\ n \in Networks /\ SInv /\ IInv /\ Marked /\ AsksClean /\ scanner[n].pc = "register"
      /\ UNCHANGED <<chain, order, nft, scanned, trades, managed, removal>>
  BY DEF MInv, SInv, Networks, RegisterAsk, outside, contractVars, admin
<1>2. /\ MidBlock(n) /\ at \in DOMAIN chain[n] /\ Call(n).method = "addAsk"
  BY <1>1, Places DEF MidBlock, PlaceOK
<1>3. PICK t \in Tokens : t = Call(n).token
  BY <1>2, CallOfToken
<1>4. PICK u : u = Call(n).who
  OBVIOUS
<1>5. PICK p : p = Call(n).amount
  OBVIOUS
<1>6. at \in CallsOf(t) /\ OpenAsks(t) = {}
  BY <1>1, <1>2, <1>3, CallOfToken DEF MInv, MemoryOK
<1> DEFINE rows == Append(asks, [token |-> t, status |-> "active", seller |-> u, price |-> p])
<1>7. /\ asks' = rows /\ AsksClean' /\ Matches(t, u, p)'
      /\ \A v : v # t => KeepsOffers(v)
      /\ NextCall(n, "scan")
  <2>1. \/ IndexHolds(rows) /\ asks' = rows /\ NextCall(n, "scan")
        \/ ~IndexHolds(rows)
    BY <1>3, <1>4, <1>5 DEF RegisterAsk
  <2>2. IndexHolds(rows)
    BY <1>1, <1>6, IndexStays
  <2>3. asks' = rows /\ NextCall(n, "scan")
    BY <2>1, <2>2
  <2>4. QED
    BY <1>1, <1>6, <2>3, OpensOffer
<1> HIDE DEF rows
<1>8. /\ \A v : TodoOf(v)' = TodoOf(v) \ {at}
      /\ Untraded' = Untraded \ {at}
      /\ Marked' /\ MemoryOK'
  BY <1>1, <1>2, <1>7, CallGoesOn
<1>9. TradesGrow
  BY <1>1 DEF TradesGrow
<1>10. \A v \in Tokens : v # t => Tells(v)'
  BY <1>1, <1>2, <1>3, <1>7, <1>8, <1>9, OthersTell
<1>11. Tells(t)'
  BY <1>1, <1>2, <1>4, <1>5, <1>6, <1>7, <1>8, OpenedTells
<1>12. SalesTraded'
  <2>1. ~Bought(at)
    BY <1>2 DEF Bought, Call
  <2>2. Untraded \subseteq Untraded'
    BY <1>8, <2>1 DEF Untraded
  <2>3. QED
    BY <1>1, <1>9, <2>2, StillTraded DEF MInv
<1>13. ChainTells'
  BY <1>1, StillTold DEF MInv
<1>14. QED
  BY <1>7, <1>8, <1>10, <1>11, <1>12, <1>13 DEF MInv


LEMMA CancelAskMirrors ==
  ASSUME MInv, SInv', ProcessCancelAsk
  PROVE  MInv'
<1> DEFINE n == "unique"
           at == scanner[n].at
<1>1. /\ n \in Networks /\ SInv /\ IInv /\ Marked /\ AsksClean
      /\ UNCHANGED <<chain, order, nft, scanned, trades, managed, removal>>
  BY DEF MInv, SInv, Networks, ProcessCancelAsk, outside, contractVars, admin
<1>2. /\ scanner[n].pc = "scan" /\ MidBlock(n) /\ at \in DOMAIN chain[n]
      /\ Call(n).method = "cancelAsk" /\ NextCall(n, "scan")
  BY <1>1, AtCall DEF ProcessCancelAsk
<1>3. PICK t : t = Call(n).token
  OBVIOUS
<1>4. at \in CallsOf(t)
  BY <1>2, <1>3 DEF CallsOf, Call, OfferMethods
<1>5. asks' = WithStatus(asks, OpenAsks(t), "cancelled")
  BY <1>2, <1>3 DEF ProcessCancelAsk, MInv, MemoryOK
<1>6. /\ AsksClean' /\ OpenAsks(t)' = {}
      /\ \A v : v # t => KeepsOffers(v)
  <2> DEFINE I == OpenAsks(t)
  <2>1. I \in SUBSET OpenAsks(t) /\ I \ I = {} /\ asks' = WithStatus(asks, I, "cancelled")
    BY <1>5
  <2> HIDE DEF I
  <2>2. /\ AsksClean' /\ OpenAsks(t)' = OpenAsks(t) \ I
        /\ \A v : v # t => KeepsOffers(v)
    BY <1>1, <2>1, ClosesOffers
  <2>3. QED
    BY <2>2 DEF I
<1>7. /\ \A v : TodoOf(v)' = TodoOf(v) \ {at}
      /\ Untraded' = Untraded \ {at}
      /\ Marked' /\ MemoryOK'
  BY <1>1, <1>2, CallGoesOn
<1>8. TradesGrow
  BY <1>1 DEF TradesGrow
<1>9. \A v \in Tokens : v # t => Tells(v)'
  BY <1>1, <1>2, <1>3, <1>6, <1>7, <1>8, OthersTell
<1>10. t \in Tokens => Tells(t)'
  BY <1>1, <1>2, <1>4, <1>6, <1>7, ClosedTells
<1>11. SalesTraded'
  <2>1. ~Bought(at)
    BY <1>2 DEF Bought, Call
  <2>2. Untraded \subseteq Untraded'
    BY <1>7, <2>1 DEF Untraded
  <2>3. QED
    BY <1>1, <1>8, <2>2, StillTraded DEF MInv
<1>12. ChainTells'
  BY <1>1, StillTold DEF MInv
<1>13. QED
  BY <1>6, <1>7, <1>9, <1>10, <1>11, <1>12 DEF MInv

-----------------------------------------------------------------------------
(* A sale: its trade is inserted, then its ask is marked.                  *)

\* The sale that a process is at is the next of its token.
LEMMA SaleIsNext ==
  ASSUME MInv, scanner["unique"].pc \in {"scan", "bought"}, NEW t \in Tokens,
         scanner["unique"].at \in CallsOf(t)
  PROVE  LET at == scanner["unique"].at IN
         at \in TodoOf(t) /\ \A j \in TodoOf(t) : at <= j
<1> DEFINE at == scanner["unique"].at
<1>1. TodoOf(t) = {i \in CallsOf(t) : i >= at}
  BY TodoFromHere DEF MInv
<1>2. \A i \in CallsOf(t) : i \in Nat
  BY Places DEF CallsOf, MInv, SInv, ChainsOK, Networks
<1>3. QED
  BY <1>1, <1>2

\* When a sale is done it has its trade.
LEMMA SaleIsTraded ==
  ASSUME SInv, SalesTraded, TradesGrow, UNCHANGED chain, NEW at \in DOMAIN chain["unique"],
         Untraded' = Untraded \ {at},
         \E j \in DOMAIN trades' : trades'[j] = TradeOf(chain["unique"][at]),
         "crash" \in Allowed \/ Len(trades') = Len(trades) + 1
  PROVE  SalesTraded'
<1>1. ASSUME NEW i \in Traded' PROVE HasTrade(i)'
  <2>1. CASE i = at
    BY <2>1 DEF HasTrade
  <2>2. CASE i # at
    <3>1. HasTrade(i)
      BY <1>1, <2>2 DEF SalesTraded, Traded, Bought
    <3>2. QED
      BY <3>1 DEF HasTrade, TradesGrow
  <2>3. QED
    BY <2>1, <2>2
<1>2. ASSUME "crash" \notin Allowed PROVE Cardinality(Traded') <= Len(trades')
  <2>1. /\ chain["unique"] \in Seq(CallType) /\ Traded \in SUBSET DOMAIN chain["unique"]
        /\ Len(trades) \in Nat
    BY CountsArePositions DEF SInv, Traded
  <2>2. Traded' \in SUBSET (Traded \cup {at})
    BY DEF Traded, Bought
  <2>3. Cardinality(Traded') <= Cardinality(Traded) + 1
    BY <2>1, <2>2, AtMostOneMorePosition
  <2>4. Cardinality(Traded) \in Nat /\ Cardinality(Traded') \in Nat
    <3>1. Traded' \in SUBSET DOMAIN chain["unique"]
      BY <2>1, <2>2
    <3>2. QED
      BY <2>1, <3>1, PositionsFinite
  <2>5. Cardinality(Traded) <= Len(trades)
    BY <1>2 DEF SalesTraded
  <2>6. QED
    BY <1>2, <2>1, <2>3, <2>4, <2>5
<1>3. QED
  BY <1>1, <1>2 DEF SalesTraded

LEMMA BuyKSMMirrors ==
  ASSUME MInv, SInv', ProcessBuyKSM, TradesGrow
  PROVE  MInv'
<1> DEFINE n == "unique"
           at == scanner[n].at
<1>1. /\ n \in Networks /\ SInv /\ IInv /\ Marked /\ AsksClean
      /\ UNCHANGED <<chain, order, nft, scanned, asks, managed, removal>>
  BY DEF MInv, SInv, Networks, ProcessBuyKSM, outside, contractVars, admin
<1>2. /\ scanner[n].pc = "scan" /\ MidBlock(n) /\ at \in DOMAIN chain[n]
      /\ Call(n).method = "buyKSM"
  BY <1>1, AtCall DEF ProcessBuyKSM
<1>3. PICK t \in Tokens : t = Call(n).token
  BY <1>2, CallOfToken
<1>4. at \in CallsOf(t) /\ Bought(at)
  BY <1>2, <1>3, CallOfToken DEF Bought, Call
<1>5. OpenFor(at) \/ ("crash" \in Allowed /\ HasTrade(at))
  BY <1>2, <1>4, SaleIsNext DEF MInv, Tells
<1>6. ChainTells' /\ AsksClean'
  BY <1>1, StillTold DEF MInv, AsksClean
<1>7. \A v : KeepsOffers(v)
  BY <1>1, SameOffers
<1>8. CASE OpenAsks(t) = {}
  <2>1. NextCall(n, "scan") /\ UNCHANGED trades
    BY <1>3, <1>8 DEF ProcessBuyKSM
  <2>2. /\ \A v : TodoOf(v)' = TodoOf(v) \ {at}
        /\ Untraded' = Untraded \ {at}
        /\ Marked' /\ MemoryOK'
    BY <1>1, <1>2, <2>1, CallGoesOn
  <2>3. \A v \in Tokens : v # t => Tells(v)'
    BY <1>1, <1>2, <1>3, <1>7, <2>2, OthersTell
  <2>4. Tells(t)'
    <3>1. OpenAsks(t)' = {}
      BY <1>1, <1>8 DEF OpenAsks
    <3>2. QED
      BY <1>1, <1>2, <1>4, <2>2, <3>1, ClosedTells
  <2>5. /\ \E j \in DOMAIN trades' : trades'[j] = TradeOf(chain[n][at])
        /\ "crash" \in Allowed
    <3>1. HasTrade(at) /\ "crash" \in Allowed
      BY <1>3, <1>5, <1>8 DEF OpenFor, Matches, Call
    <3>2. QED
      BY <1>1, <2>1, <3>1 DEF HasTrade
  <2>6. SalesTraded'
    BY <1>1, <1>2, <2>2, <2>5, SaleIsTraded DEF MInv
  <2>7. QED
    BY <1>6, <2>2, <2>3, <2>4, <2>6 DEF MInv
<1>9. ASSUME NEW i \in OpenAsks(t),
             trades' = Append(trades, [buyer |-> Call(n).who, seller |-> asks[i].seller,
                                       originPrice |-> asks[i].price]),
             scanner' = [scanner EXCEPT ![n].pc = "bought", ![n].ask = i]
      PROVE  MInv'
  <2>1. i \in Nat /\ scanner' = WithAsk(scanner, n, "bought", i)
    BY <1>1, <1>9, Places DEF OpenAsks, TablesOK, WithAsk
  <2>2. SetPlace(n, "bought", at) /\ scanner'[n].managed = scanner[n].managed
    BY <1>1, <2>1, WithAskPlace, ManagedStays DEF Pcs
  <2>3. /\ \A v : TodoOf(v)' = TodoOf(v)
        /\ Untraded' = Untraded \ {at}
    BY <1>1, <1>2, <2>2, PlanOfCall
  <2>4. Marked' /\ MemoryOK'
    <3>1. MidBlock(n)' /\ scanner'[n].block = scanner[n].block /\ scanner'[n].pc # "register"
      BY <2>2 DEF MidBlock, InSale, SetPlace
    <3>2. QED
      BY <1>1, <1>2, <2>2, <3>1, WithinBlock
  <2>5. ASSUME NEW v \in Tokens PROVE Tells(v)'
    <3>1. SameCalls(v)
      BY <1>1 DEF SameCalls, CallsOf
    <3>2. QED
      BY <1>1, <1>7, <2>3, <3>1, StillTells DEF MInv
  <2>6. \E j \in DOMAIN trades' : trades'[j] = TradeOf(chain[n][at])
    <3>1. CASE HasTrade(at)
      BY <1>1, <3>1 DEF HasTrade, TradesGrow
    <3>2. CASE OpenFor(at)
      <4>1. PICK j \in OpenAsks(t) : asks[j].seller = Call(n).seller /\ asks[j].price = Call(n).amount
        BY <1>3, <3>2 DEF OpenFor, Matches, Call
      <4>2. i = j
        BY <1>1, <1>9, <4>1 DEF AsksClean, IndexHolds, OpenAsks
      <4>3. trades' = Append(trades, TradeOf(Call(n)))
        BY <1>9, <4>1, <4>2 DEF TradeOf
      <4> DEFINE row == TradeOf(Call(n))
      <4>4. trades \in Seq(TradeType \cup {row}) /\ row \in TradeType \cup {row}
        BY <1>1 DEF IInv, TablesOK
      <4>5. Len(trades) + 1 \in DOMAIN trades' /\ trades'[Len(trades) + 1] = row
        BY <4>3, <4>4, AppendKeeps
      <4>6. chain[n][at] = Call(n)
        BY DEF Call
      <4>7. QED
        BY <4>5, <4>6
    <3>3. QED
      BY <1>5, <3>1, <3>2
  <2>7. Len(trades') = Len(trades) + 1
    <3> DEFINE row == [buyer |-> Call(n).who, seller |-> asks[i].seller,
                       originPrice |-> asks[i].price]
    <3>1. trades \in Seq(TradeType \cup {row}) /\ trades' = Append(trades, row)
      BY <1>1, <1>9, CountsArePositions
    <3> HIDE DEF row
    <3>2. QED
      BY <3>1
  <2>8. SalesTraded'
    BY <1>1, <1>2, <2>3, <2>6, <2>7, SaleIsTraded DEF MInv
  <2>9. QED
    BY <1>6, <2>4, <2>5, <2>8 DEF MInv
<1>10. QED
  BY <1>3, <1>8, <1>9 DEF ProcessBuyKSM


LEMMA MarkBoughtMirrors ==
  ASSUME MInv, SInv', MarkBought
  PROVE  MInv'
<1> DEFINE n == "unique"
           at == scanner[n].at
<1>1. /\ n \in Networks /\ SInv /\ IInv /\ Marked /\ AsksClean /\ WhereOK(n)
      /\ scanner[n].pc = "bought" /\ InSale(n) /\ MidBlock(n)
      /\ UNCHANGED <<chain, order, nft, scanned, trades, managed, removal>>
  BY DEF MInv, SInv, Scans, Networks, MarkBought, outside, contractVars, admin, InSale, MidBlock
<1>2. at \in DOMAIN chain[n] /\ Call(n).method = "buyKSM"
  BY <1>1 DEF WhereOK
<1>3. PICK t \in Tokens : t = Call(n).token
  BY <1>2, CallOfToken
<1>4. at \in CallsOf(t)
  BY <1>2, <1>3, CallOfToken
<1>5. asks' = WithStatus(asks, OpenAsks(t), "bought") /\ Go(n, "deduct")
  <2>1. \A i \in OpenAsks(t) : asks[i].status = "active"
    BY <1>1 DEF AsksClean, OpenAsks, OpenStatus
  <2>2. {i \in OpenAsks(t) : asks[i].status = "active"} = OpenAsks(t)
    BY <2>1
  <2>3. QED
    BY <1>3, <2>2 DEF MarkBought
<1>6. /\ AsksClean' /\ OpenAsks(t)' = {}
      /\ \A v : v # t => KeepsOffers(v)
  <2> DEFINE I == OpenAsks(t)
  <2>1. I \in SUBSET OpenAsks(t) /\ I \ I = {} /\ asks' = WithStatus(asks, I, "bought")
    BY <1>5
  <2> HIDE DEF I
  <2>2. /\ AsksClean' /\ OpenAsks(t)' = OpenAsks(t) \ I
        /\ \A v : v # t => KeepsOffers(v)
    BY <1>1, <2>1, ClosesOffers
  <2>3. QED
    BY <2>2 DEF I
<1>7. SetPlace(n, "deduct", at) /\ scanner'[n].managed = scanner[n].managed
  BY <1>1, <1>5, GoPlace, ManagedStays DEF Pcs
<1>8. /\ \A v : TodoOf(v)' = TodoOf(v) \ {at}
      /\ Untraded' = Untraded
  BY <1>1, <1>7, PlanOfCall
<1>9. TradesGrow
  BY <1>1 DEF TradesGrow
<1>10. \A v \in Tokens : v # t => Tells(v)'
  BY <1>1, <1>2, <1>3, <1>6, <1>8, <1>9, OthersTell
<1>11. Tells(t)'
  BY <1>1, <1>2, <1>4, <1>6, <1>8, ClosedTells
<1>12. SalesTraded'
  BY <1>1, <1>8, <1>9, StillTraded DEF MInv
<1>13. ChainTells'
  BY <1>1, StillTold DEF MInv
<1>14. Marked' /\ MemoryOK'
  <2>1. MidBlock(n)' /\ scanner'[n].block = scanner[n].block /\ scanner'[n].pc # "register"
    BY <1>7 DEF MidBlock, InSale, SetPlace
  <2>2. QED
    BY <1>1, <1>7, <2>1, WithinBlock
<1>15. QED
  BY <1>6, <1>10, <1>11, <1>12, <1>13, <1>14 DEF MInv

-----------------------------------------------------------------------------
(* Every step.                                                             *)

\* The end of a sale, and calls that are not about offers.
LEMMA OtherCallsMirror ==
  ASSUME MInv, SInv', Payout \/ ProcessWithdrawAllKSM
  PROVE  MInv'
<1> DEFINE n == "unique"
           at == scanner[n].at
<1>1. /\ n \in Networks /\ SInv /\ IInv /\ WhereOK(n) /\ NextCall(n, "scan")
      /\ UNCHANGED <<chain, order, nft, scanned, asks, trades, managed, removal>>
  BY DEF MInv, SInv, Scans, Networks, Payout, ProcessWithdrawAllKSM, outside,
     contractVars, admin, tables
<1>2. MidBlock(n) /\ at \in DOMAIN chain[n]
  <2>1. CASE Payout
    BY <1>1, <2>1 DEF Payout, WhereOK, InSale, MidBlock
  <2>2. CASE ProcessWithdrawAllKSM
    BY <1>1, <2>2, AtCall DEF ProcessWithdrawAllKSM
  <2>3. QED
    BY <2>1, <2>2
<1>3. /\ \A v : TodoOf(v)' = TodoOf(v) \ {at}
      /\ Untraded' = Untraded \ {at}
      /\ Marked' /\ MemoryOK'
  BY <1>1, <1>2, CallGoesOn
<1>4. at \notin Untraded /\ \A v : at \notin TodoOf(v)
  <2>1. CASE Payout
    <3>1. InSale(n) /\ Sold /\ at \in Nat
      BY <1>1, <1>2, <2>1, Places DEF Payout, InSale, Sold, ChainsOK
    <3>2. QED
      BY <3>1 DEF Untraded, ToTrade, TodoOf, Todo
  <2>2. CASE ProcessWithdrawAllKSM
    <3>1. Call(n).method = "withdrawAllKSM"
      BY <1>1, <2>2, AtCall DEF ProcessWithdrawAllKSM
    <3>2. QED
      BY <3>1 DEF Call, Untraded, Bought, TodoOf, CallsOf, OfferMethods
  <2>3. QED
    BY <2>1, <2>2
<1>5. SamePlan
  BY <1>3, <1>4 DEF SamePlan
<1>6. QED
  BY <1>1, <1>3, <1>5, QuietKeeps

LEMMA KusamaMirrors ==
  ASSUME MInv, SInv',
         \/ \E n \in Networks : FinishBlock(n)
         \/ Begin("kusama") \/ EmptyBlock("kusama") \/ EndOfBlock("kusama")
         \/ Crash("kusama") \/ Carry("kusama") \/ ProcessTransfer
  PROVE  MInv'
<1>1. SInv /\ IInv /\ scanned \in [Networks -> SUBSET Nat]
  BY DEF MInv, SInv, IInv, TablesOK
<1>2. scanner'["unique"] = scanner["unique"]
  <2>1. CASE \E n \in Networks : FinishBlock(n)
    BY <2>1 DEF FinishBlock
  <2>2. CASE ProcessTransfer
    BY <1>1, <2>2, ExtractMoves DEF Extract, Rests
  <2>3. CASE \/ Begin("kusama") \/ EmptyBlock("kusama") \/ EndOfBlock("kusama")
             \/ Crash("kusama") \/ Carry("kusama")
    BY <1>1, <2>3, LoopMoves DEF Rests, Networks
  <2>4. QED
    BY <2>1, <2>2, <2>3
<1>3. scanned'["unique"] = scanned["unique"]
  <2>1. CASE EndOfBlock("kusama")
    BY <1>1, <2>1 DEF EndOfBlock, Networks
  <2>2. CASE ~EndOfBlock("kusama")
    BY <2>2 DEF FinishBlock, Begin, EmptyBlock, Crash, Carry, Pick, NoMoreMoney, Send,
       SendFails, Report, ProcessTransfer, tables
  <2>3. QED
    BY <2>1, <2>2
<1>4. UNCHANGED <<chain, order, nft, asks, trades, managed, removal>>
  <2>1. CASE Send("kusama")
    BY <2>1 DEF Send, Effect, contractVars, admin
  <2>2. CASE ~Send("kusama")
    BY <2>2 DEF FinishBlock, Begin, EmptyBlock, EndOfBlock, Crash, Carry, Pick, NoMoreMoney,
       SendFails, Report, ProcessTransfer, tables, outside, contractVars, admin
  <2>3. QED
    BY <2>1, <2>2
<1>5. QED
  BY <1>2, <1>3, <1>4, UnawareKeeps

LEMMA NextKeepsMInv ==
  ASSUME Undisturbed
  PROVE  MInv /\ [Next]_vars => MInv'
<1> SUFFICES ASSUME MInv, [Next]_vars PROVE MInv'
  OBVIOUS
<1>1. SInv' /\ TradesGrow
  BY NextKeepsSInv, TradesOnlyGrow DEF MInv, SInv
<1>2. CASE UserStep
  BY <1>1, <1>2, UserStepMirrors
<1>3. CASE Extract
  BY <1>1, <1>3, AddAskMirrors, RegisterAskMirrors, CancelAskMirrors, BuyKSMMirrors,
     MarkBoughtMirrors, CarryMirrors, OtherCallsMirror, KusamaMirrors DEF Extract
<1>4. CASE Start
  BY <1>1, <1>4, CarryMirrors
<1>5. ASSUME NEW n \in Networks,
             \/ FinishBlock(n) \/ Begin(n) \/ EmptyBlock(n) \/ EndOfBlock(n)
             \/ Crash(n) \/ Carry(n)
      PROVE  MInv'
  <2>1. CASE FinishBlock(n) \/ n = "kusama"
    BY <1>1, <1>5, <2>1, KusamaMirrors
  <2>2. CASE n = "unique" /\ ~FinishBlock(n)
    BY <1>1, <1>5, <2>2, LoopMirrors, CarryMirrors, CrashMirrors DEF Carry
  <2>3. QED
    BY <2>1, <2>2 DEF Networks
<1>6. CASE AdminStep
  BY <1>6 DEF AdminStep, MassCancelFind, MassCancelUpdate, ToggleCollection, ShareBlock,
     Undisturbed, MInv, MemoryOK
<1>7. CASE UNCHANGED vars
  BY <1>1, <1>7, UnawareKeeps DEF vars, outside, contractVars, tables
<1>8. CASE \E n \in Networks : ScanFails(n)
  BY <1>8 DEF ScanFails, Undisturbed
<1>9. QED
  BY <1>2, <1>3, <1>4, <1>5, <1>6, <1>7, <1>8 DEF Next

LEMMA InitMInv == Init => MInv
<1> SUFFICES ASSUME Init PROVE MInv
  OBVIOUS
<1> DEFINE n == "unique"
<1>1. SInv
  BY InitSInv
<1>2. /\ chain[n] = <<>> /\ scanned[n] = {} /\ scanner[n] = Started(1)
      /\ asks = <<>> /\ managed /\ removal = {}
  BY DEF Init, Networks
<1>3. /\ scanner[n].pc = "next" /\ scanner[n].current = 1
      /\ ~MidBlock(n) /\ ~InSale(n) /\ ~Sold
  BY <1>2 DEF Started, MidBlock, InSale, Sold, Carrying
<1>4. \A t : CallsOf(t) = {} /\ TodoOf(t) = {} /\ OpenAsks(t) = {}
  BY <1>2 DEF CallsOf, TodoOf, OpenAsks
<1>5. \A t \in Tokens : ~order[t].active /\ nft[t] # Contract
  BY ContractAssumption DEF Init, ContractInit, NoOrder
<1>6. Marked
  BY <1>2, <1>3 DEF Marked
<1>7. ChainTells
  BY <1>2, <1>4, <1>5 DEF ChainTells, OrderTold
<1>8. AsksClean /\ MemoryOK
  BY <1>2, <1>3 DEF AsksClean, IndexHolds, MemoryOK
<1>9. \A t \in Tokens : Tells(t)
  BY <1>4, <1>5 DEF Tells, Mirrors
<1>10. SalesTraded
  <2>1. Traded = {} /\ trades = <<>>
    BY <1>2 DEF Traded, Init
  <2>2. QED
    BY <2>1, FS_EmptySet DEF SalesTraded
<1>11. QED
  BY <1>1, <1>6, <1>7, <1>8, <1>9, <1>10 DEF MInv


(* The rows of contract_ask never tell anything of a token but what the    *)
(* calls already done tell of it, and what they lack is in the calls still *)
(* to do, wherever the processes crash and whatever transfers fail, if only*)
(* every block is scanned to its end and nobody else writes the tables: a  *)
(* sale that comes next finds the ask of its seller at its price.          *)
THEOREM MirrorInvariant ==
  ASSUME Undisturbed
  PROVE  Spec => []MInv
<1>1. Init => MInv
  BY InitMInv
<1>2. MInv /\ [Next]_vars => MInv'
  BY NextKeepsMInv
<1>3. QED
  BY <1>1, <1>2, PTL DEF Spec

\* Nothing is left when the process has caught up.
LEMMA NothingLeft ==
  ASSUME MInv, CaughtUp("unique")
  PROVE  /\ scanned["unique"] = 1 .. head["unique"]
         /\ Untraded = {} /\ \A t : TodoOf(t) = {}
<1> DEFINE n == "unique"
<1>1. /\ n \in Networks /\ WhereOK(n) /\ ChainOrdered(n) /\ head[n] \in Nat
      /\ scanner[n].current \in Nat
  BY Places DEF MInv, SInv, Scans, ChainsOK, ScannerType, Networks
<1>2. ~MidBlock(n) /\ scanner[n].current > head[n]
  BY DEF CaughtUp, MidBlock, InSale, Carrying
<1>3. scanner[n].current = head[n] + 1
  BY <1>1, <1>2 DEF WhereOK
<1>4. scanned[n] = 1 .. head[n]
  <2>1. scanned[n] = 1 .. head[n] \/ scanned[n] = 1 .. head[n] + 1
    BY <1>1, <1>2, <1>3 DEF MInv, Marked
  <2>2. head[n] + 1 \notin scanned[n] /\ head[n] + 1 \in 1 .. head[n] + 1
    BY <1>1 DEF ChainOrdered
  <2>3. QED
    BY <2>1, <2>2
<1>5. \A i \in DOMAIN chain[n] : ~Undone(i)
  BY <1>4 DEF CaughtUp, BlocksOf, Undone
<1>6. QED
  BY <1>4, <1>5 DEF Untraded, ToTrade, TodoOf, Todo, CallsOf

(* The offers that the market lists are those of the contract whenever the *)
(* scanner has caught up, for any number of users, tokens, calls, restarts *)
(* of the processes and failed transfers.                                  *)
THEOREM OffersAreListed ==
  ASSUME Undisturbed
  PROVE  Spec => []OffersListed
<1>1. MInv => OffersListed
  <2>1. ASSUME MInv, CaughtUp("unique"), NEW t \in Tokens PROVE Mirrors(t)
    BY <2>1, NothingLeft DEF MInv, Tells
  <2>2. QED
    BY <2>1 DEF OffersListed, Mirrors, Matches
<1>2. QED
  BY <1>1, MirrorInvariant, PTL

(* A sale in a block that will not be scanned again has its trade, with its*)
(* buyer, seller and price, although processes crash between two steps of  *)
(* a sale and do its call again.                                           *)
THEOREM SalesAreNotForgotten ==
  ASSUME Undisturbed
  PROVE  Spec => []NoSaleForgotten
<1>1. MInv => NoSaleForgotten
  <2>1. ASSUME MInv, NEW i \in SalesIn(scanned["unique"]) PROVE HasTrade(i)
    <3>1. i \in DOMAIN chain["unique"] /\ Bought(i) /\ ~Undone(i)
      BY DEF SalesIn, Bought, Undone
    <3>2. i \in Traded
      BY <3>1 DEF Traded, Untraded, ToTrade
    <3>3. QED
      BY <2>1, <3>2 DEF MInv, SalesTraded
  <2>2. QED
    BY <2>1 DEF NoSaleForgotten, HasTrade
<1>2. QED
  BY <1>1, MirrorInvariant, PTL

(* When the scanner has caught up there are as many trades as sales, as    *)
(* long as no process crashes: none is forgotten, none recorded twice and  *)
(* nothing else is a trade.                                                *)
THEOREM TradesCountSales ==
  ASSUME Undisturbed, "crash" \notin Allowed
  PROVE  Spec => []TradesAreSales
<1>1. MInv /\ NoTradeTwice => TradesAreSales
  <2>1. ASSUME MInv, NoTradeTwice, CaughtUp("unique")
        PROVE  Len(trades) = Cardinality(SalesIn(1 .. head["unique"]))
    <3> DEFINE S == SalesIn(1 .. head["unique"])
               B == MethodCalls({"buyKSM"})
    <3>1. /\ chain["unique"] \in Seq(CallType) /\ Len(trades) \in Nat
          /\ S \in SUBSET DOMAIN chain["unique"] /\ B \in SUBSET DOMAIN chain["unique"]
          /\ Traded \in SUBSET DOMAIN chain["unique"]
      BY <2>1, CountsArePositions DEF MInv, SInv, SalesIn, MethodCalls, Begun, Traded
    <3>2. S \subseteq Traded
      BY <2>1, NothingLeft DEF SalesIn, Traded, Bought
    <3>3. B \subseteq S
      BY <2>1 DEF MethodCalls, Begun, SalesIn, CaughtUp, BlocksOf
    <3>4. Cardinality(Traded) <= Len(trades) /\ Len(trades) <= Cardinality(B)
      BY <2>1 DEF MInv, SalesTraded, NoTradeTwice
    <3> HIDE DEF S, B
    <3>5. Cardinality(S) <= Cardinality(Traded) /\ Cardinality(B) <= Cardinality(S)
      <4>1. S \in SUBSET Traded /\ B \in SUBSET S
        BY <3>2, <3>3
      <4>2. QED
        BY <3>1, <4>1, MorePositions
    <3>6. Cardinality(S) \in Nat /\ Cardinality(Traded) \in Nat /\ Cardinality(B) \in Nat
      BY <3>1, PositionsFinite
    <3>7. Len(trades) = Cardinality(S)
      BY <3>1, <3>4, <3>5, <3>6
    <3>8. QED
      BY <3>7 DEF S
  <2>2. QED
    BY <2>1 DEF TradesAreSales
<1>2. QED
  BY <1>1, MirrorInvariant, SalesTradedOnce, PTL


=============================================================================
