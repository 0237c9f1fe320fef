------------------------------- MODULE Escrow -------------------------------
(***************************************************************************)
(* Selling at a fixed price: users call the contract on Unique and deposit *)
(* KSM on Kusama; two escrow processes, start_escrow unique and            *)
(* start_escrow kusama, scan the blocks of the two chains, mirror the      *)
(* contract's offers in the database and carry money between the chains    *)
(* through the rows of money_transfer.                                     *)
(*                                                                         *)
(* A step of a process ends where it awaits the database or a chain and a  *)
(* crash there would be told apart.  Only blocks with calls in them are    *)
(* numbered; any number of empty blocks may come between them.             *)
(***************************************************************************)
EXTENDS MarketContract, SequencesExt

CONSTANTS
  Commission,    \* config.blockchain.kusama.marketCommission, in percent
  MaxUniqueCalls, MaxKusamaCalls,   \* bounds on the calls in each chain's blocks
  MaxRestarts,   \* bound on the restarts of the escrow processes
  Allowed        \* what may happen besides, see Everything

Everything ==
  { "crash",           \* an escrow process restarts
    "scanFails",       \* the database or a node fails while a block is scanned
    "contractFails",   \* a call that the unique escrow makes is not executed
    "kusamaFails",     \* a transfer that the kusama escrow makes is not executed
    "watchLost",       \* it is executed, but the escrow is told that it failed
    "hasty",           \* a seller spends the KSM of a sale before it is paid out
    "edit",            \* calls that the scanner ignores: editAsk and buy
    "direct",          \* tokens move outside of the market, or to it without an offer
    "massCancel",      \* the administrator removes all offers
    "disable",         \* the administrator disables and enables the collection
    "sharedBlocks" }   \* an auction's extrinsic is in a block of a sale

ASSUME EscrowAssumption ==
  /\ Commission \in 0 .. 100 /\ Allowed \subseteq Everything
  /\ MaxUniqueCalls \in Nat /\ MaxKusamaCalls \in Nat /\ MaxRestarts \in Nat

Networks == {"unique", "kusama"}

VARIABLES
  (* the chains; order, nft, balanceKSM and coin are the contract's *)
  chain,         \* the successful calls of each chain, in order
  head,          \* the last finished block of each chain
  market,        \* KSM on the escrow's account
  received,      \* KSM that the escrow sent to each user
  due,           \* history: deposits and sales less purchases of each user
  (* the database *)
  asks,          \* the rows of contract_ask
  trades,        \* the rows of market_trade
  money,         \* the rows of money_transfer
  scanned,       \* the rows of blockchain_block
  managed,       \* the collection is enabled
  (* the memory of the processes *)
  scanner,       \* of each escrow process
  removal,       \* the rows that the administrator's request has found
  restarts       \* how often the processes were restarted

ledger == <<market, received, due>>
tables == <<asks, trades, money, scanned, managed>>
outside == <<contractVars, chain, head, ledger>>
admin == <<managed, removal, restarts>>
vars == <<outside, tables, scanner, removal, restarts>>

-----------------------------------------------------------------------------
(* Rows.                                                                   *)

OpenStatus == {"active", "removed_by_admin"}

\* getActiveAsk: the unique index leaves at most one such row for each token.
OpenAsks(t) == {i \in DOMAIN asks : asks[i].token = t /\ asks[i].status \in OpenStatus}

\* An update of the rows in I to a status.
WithStatus(rows, I, s) ==
  [i \in DOMAIN rows |-> IF i \in I THEN [rows[i] EXCEPT !.status = s] ELSE rows[i]]

\* UNIQUE_active_contract_ask, on the collection and the token.
IndexHolds(rows) ==
  \A i, j \in DOMAIN rows :
    /\ rows[i].status \in OpenStatus /\ rows[j].status \in OpenStatus
    /\ rows[i].token = rows[j].token
    => i = j

NewRow(type, u, amount) ==
  [type |-> type, status |-> "pending", who |-> u, amount |-> amount, sent |-> 0]

\* Of a pair of processes one makes the deposits and the other the withdrawals.
Duty(n) == IF n = "unique" THEN "deposit" ELSE "withdraw"

Pending(n) == {i \in DOMAIN money : money[i].type = Duty(n) /\ money[i].status = "pending"}

\* getPriceWithoutCommission
PriceWithoutCommission(price) == (price * 100) \div (100 + Commission)

-----------------------------------------------------------------------------
(* What users do on the chains.                                            *)

BlocksOf(n) == {chain[n][i].block : i \in DOMAIN chain[n]}

\* The call is added to the block that comes next.
Log(n, method, t, u, seller, amount) ==
  /\ Len(chain[n]) < IF n = "unique" THEN MaxUniqueCalls ELSE MaxKusamaCalls
  /\ chain' = [chain EXCEPT ![n] = Append(@,
       [block |-> head[n] + 1, method |-> method, token |-> t, who |-> u,
        seller |-> seller, amount |-> amount])]

\* A restriction on users, not on the code.
MaySpend(u) ==
  "hasty" \in Allowed \/
    \A i \in DOMAIN chain["unique"] :
      chain["unique"][i].seller = u => chain["unique"][i].block \in scanned["unique"]

CallAddAsk(u, t, p) ==
  /\ AddAsk(u, t, p)
  /\ Log("unique", "addAsk", t, u, Nobody, p)
  /\ UNCHANGED <<head, ledger, tables, scanner, removal, restarts>>

CallCancelAsk(u, t) ==
  /\ CancelAsk(u, t)
  /\ Log("unique", "cancelAsk", t, u, Nobody, 0)
  /\ UNCHANGED <<head, ledger, tables, scanner, removal, restarts>>

CallBuyKSM(u, t, receiver) ==
  LET price == order[t].price
      seller == order[t].owner
      spent == Credit(due, u, -price)
  IN
  /\ receiver = u \/ "direct" \in Allowed
  /\ MaySpend(u)
  /\ BuyKSM(u, t, receiver)
  /\ Log("unique", "buyKSM", t, u, seller, price)
  /\ due' = IF seller \in Users THEN Credit(spent, seller, PriceWithoutCommission(price))
            ELSE spent
  /\ UNCHANGED <<head, market, received, tables, scanner, removal, restarts>>

\* Neither this nor CallIgnored is extracted from a block, so they are not logged.
CallTransfer(u, t, v) ==
  /\ "direct" \in Allowed
  /\ Transfer(u, t, v)
  /\ UNCHANGED <<chain, head, ledger, tables, scanner, removal, restarts>>

CallWithdrawAllKSM(u) ==
  /\ MaySpend(u)
  /\ balanceKSM[u] > 0
  /\ WithdrawAllKSM(u)
  /\ Log("unique", "withdrawAllKSM", Nobody, u, Nobody, balanceKSM[u])
  /\ UNCHANGED <<head, ledger, tables, scanner, removal, restarts>>

\* extractBlockData knows no such method.
CallIgnored(u, t) ==
  /\ "edit" \in Allowed
  /\ \/ \E p \in Prices, active \in BOOLEAN : EditAsk(u, t, p, active)
     \/ Buy(u, t)
  /\ UNCHANGED <<chain, head, ledger, tables, scanner, removal, restarts>>

\* A transfer of KSM to the escrow's account on Kusama.
TransferToMarket(u, a) ==
  /\ Log("kusama", "transfer", Nobody, u, Nobody, a)
  /\ market' = market + a
  /\ due' = Credit(due, u, a)
  /\ UNCHANGED <<contractVars, head, received, tables, scanner, removal, restarts>>

FinishBlock(n) ==
  /\ head[n] + 1 \in BlocksOf(n)
  /\ head' = [head EXCEPT ![n] = @ + 1]
  /\ UNCHANGED <<contractVars, chain, ledger, tables, scanner, removal, restarts>>

-----------------------------------------------------------------------------
(* Scanning: Escrow.mainLoop, processBlock and scanBlock of base.ts.       *)

Started(from) == [pc |-> "next", current |-> from, block |-> 0, at |-> 0,
                  managed |-> FALSE, ask |-> 0, row |-> 0, then |-> "money"]

Go(n, pc) == scanner' = [scanner EXCEPT ![n].pc = pc]

\* The next extrinsic of the block.
NextCall(n, pc) == scanner' = [scanner EXCEPT ![n].pc = pc, ![n].at = @ + 1]

At(n, method) ==
  LET s == scanner[n] IN
  /\ s.pc = "scan"
  /\ s.at \in DOMAIN chain[n]
  /\ chain[n][s.at].block = s.block
  /\ chain[n][s.at].method = method

Call(n) == chain[n][scanner[n].at]

\* Mutant: the first call of a block is taken for its timestamp.
BeginAfterFirst(n) ==
  LET s == scanner[n]
      before == {i \in DOMAIN chain[n] : chain[n][i].block < s.current}
  IN
  /\ s.pc = "next" /\ s.current <= head[n]
  /\ scanner' = [scanner EXCEPT
       ![n].pc = IF s.current \in scanned[n] THEN "money" ELSE "scan",
       ![n].current = s.current + 1, ![n].block = s.current,
       ![n].at = Cardinality(before) + 2, ![n].managed = managed]
  /\ UNCHANGED <<outside, tables, removal, restarts>>

\* The block is skipped if it has a row in blockchain_block.
Begin(n) ==
  LET s == scanner[n]
      before == {i \in DOMAIN chain[n] : chain[n][i].block < s.current}
  IN
  /\ s.pc = "next"
  /\ s.current <= head[n]
  /\ scanner' = [scanner EXCEPT
       ![n].pc = IF s.current \in scanned[n] THEN "money" ELSE "scan",
       ![n].current = s.current + 1, ![n].block = s.current,
       ![n].at = Cardinality(before) + 1, ![n].managed = managed]
  /\ UNCHANGED <<outside, tables, removal, restarts>>

\* Mutant: money is carried only when a block has something to scan.
OnlyBlocksWithCalls(n) ==
  /\ scanner[n].pc = "next" /\ scanner[n].current <= head[n]
  /\ Go(n, "money")
  /\ UNCHANGED <<outside, tables, removal, restarts>>

EmptyBlock(n) ==
  /\ scanner[n].pc = "next"
  /\ scanner[n].current > head[n]
  /\ Go(n, "money")
  /\ UNCHANGED <<outside, tables, removal, restarts>>

\* Mutant: the calls are not waited for.
EndEarly(n) ==
  /\ scanner[n].pc = "scan"
  /\ scanned' = [scanned EXCEPT ![n] = @ \cup {scanner[n].block}]
  /\ Go(n, "money")
  /\ UNCHANGED <<outside, asks, trades, money, admin>>

\* addBlock, after the last extrinsic.
EndOfBlock(n) ==
  LET s == scanner[n] IN
  /\ s.pc = "scan"
  /\ ~ \E i \in DOMAIN chain[n] : i = s.at /\ chain[n][i].block = s.block
  /\ scanned' = [scanned EXCEPT ![n] = @ \cup {s.block}]
  /\ Go(n, "money")
  /\ UNCHANGED <<outside, asks, trades, money, admin>>

\* Mutant: the block is tried again.
RetryBlock(n) ==
  /\ "scanFails" \in Allowed
  /\ scanner[n].pc \in {"scan", "register", "bought", "deduct", "start", "payout"}
  /\ scanner' = [scanner EXCEPT ![n] = Started(scanner[n].block)]
  /\ UNCHANGED <<outside, tables, removal, restarts>>

\* processBlock logs the error and the loop goes on with the next block.
ScanFails(n) ==
  /\ "scanFails" \in Allowed
  /\ scanner[n].pc \in {"scan", "register", "bought", "deduct", "start", "payout"}
  /\ Go(n, "money")
  /\ UNCHANGED <<outside, tables, removal, restarts>>

\* getStartBlock: the last block with a row, or config's startFromBlock.
Crash(n) ==
  /\ "crash" \in Allowed
  /\ restarts < MaxRestarts
  /\ restarts' = restarts + 1
  /\ scanner' = [scanner EXCEPT ![n] = Started(Max(scanned[n] \cup {1}))]
  /\ UNCHANGED <<outside, tables, removal>>

-----------------------------------------------------------------------------
(* The calls that the unique escrow extracts: UniqueEscrow.processCall.    *)

\* An open offer of the token is a duplicate and is cancelled first.
ProcessAddAsk ==
  LET n == "unique" IN
  /\ At(n, "addAsk")
  /\ IF scanner[n].managed
     THEN asks' = WithStatus(asks, OpenAsks(Call(n).token), "cancelled") /\ Go(n, "register")
     ELSE UNCHANGED asks /\ NextCall(n, "scan")
  /\ UNCHANGED <<outside, trades, money, scanned, admin>>

\* registerAsk; the insertion may violate the unique index.
RegisterAsk ==
  LET n == "unique"
      rows == Append(asks, [token |-> Call(n).token, status |-> "active",
                            seller |-> Call(n).who, price |-> Call(n).amount])
  IN
  /\ scanner[n].pc = "register"
  /\ IF IndexHolds(rows) THEN asks' = rows /\ NextCall(n, "scan")
                         ELSE UNCHANGED asks /\ Go(n, "money")
  /\ UNCHANGED <<outside, trades, money, scanned, admin>>

ProcessCancelAsk ==
  LET n == "unique" IN
  /\ At(n, "cancelAsk")
  /\ asks' = IF scanner[n].managed
             THEN WithStatus(asks, OpenAsks(Call(n).token), "cancelled") ELSE asks
  /\ NextCall(n, "scan")
  /\ UNCHANGED <<outside, trades, money, scanned, admin>>

\* Mutant: the price and the original price of the trade are swapped.
BuySwapped ==
  LET n == "unique" IN
  /\ At(n, "buyKSM")
  /\ \E i \in OpenAsks(Call(n).token) :
       /\ trades' = Append(trades, [buyer |-> Call(n).who, seller |-> asks[i].seller,
                                    originPrice |-> PriceWithoutCommission(asks[i].price)])
       /\ scanner' = [scanner EXCEPT ![n].pc = "bought", ![n].ask = i]
  /\ UNCHANGED <<outside, asks, money, scanned, admin>>

\* registerTrade inserts the trade ...
ProcessBuyKSM ==
  LET n == "unique" IN
  /\ At(n, "buyKSM")
  /\ IF OpenAsks(Call(n).token) = {} THEN UNCHANGED trades /\ NextCall(n, "scan")
     ELSE \E i \in OpenAsks(Call(n).token) :
            /\ trades' = Append(trades, [buyer |-> Call(n).who, seller |-> asks[i].seller,
                                         originPrice |-> asks[i].price])
            /\ scanner' = [scanner EXCEPT ![n].pc = "bought", ![n].ask = i]
  /\ UNCHANGED <<outside, asks, money, scanned, admin>>

\* Mutant: the ask is left as it is.
MarkNothing ==
  /\ scanner["unique"].pc = "bought"
  /\ Go("unique", "deduct")
  /\ UNCHANGED <<outside, tables, removal, restarts>>

\* ... and buyKSM updates the ask, unless the administrator removed it.
MarkBought ==
  LET n == "unique" IN
  /\ scanner[n].pc = "bought"
  /\ asks' = WithStatus(asks, {i \in OpenAsks(Call(n).token) : asks[i].status = "active"},
                        "bought")
  /\ Go(n, "deduct")
  /\ UNCHANGED <<outside, trades, money, scanned, admin>>

\* Mutant: the minus sign is lost.
DeductLosesSign ==
  LET n == "unique"
      a == asks[scanner[n].ask]
  IN
  /\ scanner[n].pc = "deduct"
  /\ money' = Append(money, NewRow("deposit", a.seller, a.price))
  /\ scanner' = [scanner EXCEPT ![n].pc = "start", ![n].row = Len(money) + 1,
                                ![n].then = "payout"]
  /\ UNCHANGED <<outside, asks, trades, scanned, admin>>

\* The row that takes the seller's KSM from the contract, carried out at once.
Deduct ==
  LET n == "unique"
      a == asks[scanner[n].ask]
  IN
  /\ scanner[n].pc = "deduct"
  /\ money' = Append(money, NewRow("deposit", a.seller, -a.price))
  /\ scanner' = [scanner EXCEPT ![n].pc = "start", ![n].row = Len(money) + 1,
                                ![n].then = "payout"]
  /\ UNCHANGED <<outside, asks, trades, scanned, admin>>

\* Mutant: the seller is paid the commission too.
PayoutInFull ==
  LET n == "unique"
      a == asks[scanner[n].ask]
  IN
  /\ scanner[n].pc = "payout"
  /\ money' = Append(money, NewRow("withdraw", a.seller, a.price))
  /\ NextCall(n, "scan")
  /\ UNCHANGED <<outside, asks, trades, scanned, admin>>

\* registerKusamaWithdraw
Payout ==
  LET n == "unique"
      a == asks[scanner[n].ask]
  IN
  /\ scanner[n].pc = "payout"
  /\ money' = Append(money, NewRow("withdraw", a.seller, PriceWithoutCommission(a.price)))
  /\ NextCall(n, "scan")
  /\ UNCHANGED <<outside, asks, trades, scanned, admin>>

\* Mutant: the account pair is missing and the signer is not taken instead.
WithdrawToUnknown ==
  LET n == "unique" IN
  /\ At(n, "withdrawAllKSM")
  /\ money' = Append(money, NewRow("withdraw", Call(n).seller, Call(n).amount))
  /\ NextCall(n, "scan")
  /\ UNCHANGED <<outside, asks, trades, scanned, admin>>

ProcessWithdrawAllKSM ==
  LET n == "unique" IN
  /\ At(n, "withdrawAllKSM")
  /\ money' = Append(money, NewRow("withdraw", Call(n).who, Call(n).amount))
  /\ NextCall(n, "scan")
  /\ UNCHANGED <<outside, asks, trades, scanned, admin>>

\* KusamaEscrow.extractBlockData
ProcessTransfer ==
  LET n == "kusama" IN
  /\ At(n, "transfer")
  /\ money' = Append(money, NewRow("deposit", Call(n).who, Call(n).amount))
  /\ NextCall(n, "scan")
  /\ UNCHANGED <<outside, asks, trades, scanned, admin>>

-----------------------------------------------------------------------------
(* Carrying money: processContractBalance and processWithdraw.             *)

\* Mutant: the row is marked only when the transfer is over.
PickUnmarked(n) ==
  /\ scanner[n].pc = "money" /\ Pending(n) # {}
  /\ scanner' = [scanner EXCEPT ![n].pc = "send", ![n].row = Min(Pending(n)),
                                ![n].then = "money"]
  /\ UNCHANGED <<outside, tables, removal, restarts>>

\* The oldest pending row.
Pick(n) ==
  /\ scanner[n].pc = "money"
  /\ Pending(n) # {}
  /\ money' = WithStatus(money, {Min(Pending(n))}, "in_progress")
  /\ scanner' = [scanner EXCEPT ![n].pc = "send", ![n].row = Min(Pending(n)),
                                ![n].then = "money"]
  /\ UNCHANGED <<outside, asks, trades, scanned, admin>>

NoMoreMoney(n) ==
  /\ scanner[n].pc = "money"
  /\ Pending(n) = {}
  /\ scanner' = [scanner EXCEPT ![n] = Started(scanner[n].current)]
  /\ UNCHANGED <<outside, tables, removal, restarts>>

\* modifyBalanceOnContract of the row that Deduct inserted.
Start ==
  LET n == "unique" IN
  /\ scanner[n].pc = "start"
  /\ money' = WithStatus(money, {scanner[n].row}, "in_progress")
  /\ Go(n, "send")
  /\ UNCHANGED <<outside, asks, trades, scanned, admin>>

\* The transfer takes effect on its chain.
Effect(n, u, amount) ==
  \/ n = "unique" /\ amount >= 0 /\ DepositKSM(u, amount) /\ UNCHANGED ledger
  \/ n = "unique" /\ amount < 0 /\ WithdrawKSM(u, -amount) /\ UNCHANGED ledger
  \/ /\ n = "kusama" /\ market >= amount
     /\ market' = market - amount
     /\ received' = Credit(received, u, amount)
     /\ UNCHANGED <<contractVars, due>>

Send(n) ==
  LET row == scanner[n].row IN
  /\ scanner[n].pc = "send"
  /\ Effect(n, money[row].who, money[row].amount)
  /\ money' = [money EXCEPT ![row].sent = @ + 1]
  /\ Go(n, "sent")
  /\ UNCHANGED <<chain, head, asks, trades, scanned, admin>>

CanSend(n) ==
  LET row == scanner[n].row IN
  IF n = "kusama" THEN market >= money[row].amount
  ELSE balanceKSM[money[row].who] + money[row].amount >= 0

\* It is reverted, refused or lost on its way.
SendFails(n) ==
  /\ scanner[n].pc = "send"
  /\ \/ ~CanSend(n)
     \/ n = "unique" /\ "contractFails" \in Allowed
     \/ n = "kusama" /\ "kusamaFails" \in Allowed
  /\ Go(n, "failed")
  /\ UNCHANGED <<outside, tables, removal, restarts>>

\* Mutant: a failed transfer is left to be tried again.
RetryFailed(n, status) ==
  LET s == scanner[n] IN
  /\ money' = WithStatus(money, {s.row}, IF status = "failed" THEN "pending" ELSE status)
  /\ Go(n, s.then)

Close(n, status) ==
  /\ money' = WithStatus(money, {scanner[n].row}, status)
  /\ Go(n, scanner[n].then)

Report(n) ==
  /\ \/ scanner[n].pc = "sent" /\ Close(n, "completed")
     \/ scanner[n].pc = "sent" /\ "watchLost" \in Allowed /\ Close(n, "failed")
     \/ scanner[n].pc = "failed" /\ Close(n, "failed")
  /\ UNCHANGED <<outside, asks, trades, scanned, admin>>

-----------------------------------------------------------------------------
(* What other parts of the market do to the escrow's tables.               *)

\* massFixPriceCancel finds the active rows ...
MassCancelFind ==
  /\ "massCancel" \in Allowed
  /\ removal = {}
  /\ removal' = {i \in DOMAIN asks : asks[i].status = "active"}
  /\ removal' # {}
  /\ UNCHANGED <<outside, tables, scanner, restarts>>

\* ... and updates them by id, unless that violates the unique index.
MassCancelUpdate ==
  LET rows == WithStatus(asks, removal, "removed_by_admin") IN
  /\ removal # {}
  /\ asks' = IF IndexHolds(rows) THEN rows ELSE asks
  /\ removal' = {}
  /\ UNCHANGED <<outside, trades, money, scanned, managed, scanner, restarts>>

\* Only Begin and Crash read what the next two steps write, so without crashes
\* nothing is lost by taking them when the scanner is about to begin a block.
NotMidBlock ==
  \/ scanner["unique"].pc = "next" /\ scanner["unique"].current <= head["unique"]
  \/ "crash" \in Allowed

\* disableById, enableById
ToggleCollection ==
  /\ "disable" \in Allowed
  /\ NotMidBlock
  /\ managed' = ~managed
  /\ UNCHANGED <<outside, asks, trades, money, scanned,
                 scanner, removal, restarts>>

\* An auction's extrinsic was in the block: AuctionCreationService.create,
\* AuctionCancelingService, AuctionClosingService and massAuctionSale insert it.
ShareBlock ==
  /\ "sharedBlocks" \in Allowed
  /\ NotMidBlock
  /\ \E b \in 1 .. head["unique"] :
       /\ b \notin scanned["unique"]
       /\ scanned' = [scanned EXCEPT !["unique"] = @ \cup {b}]
  /\ UNCHANGED <<outside, asks, trades, money, scanner, admin>>

-----------------------------------------------------------------------------
Init ==
  /\ ContractInit
  /\ chain = [n \in Networks |-> <<>>]
  /\ head = [n \in Networks |-> 0]
  /\ market = 0
  /\ received = [u \in Users |-> 0]
  /\ due = [u \in Users |-> 0]
  /\ asks = <<>> /\ trades = <<>> /\ money = <<>>
  /\ scanned = [n \in Networks |-> {}]
  /\ managed = TRUE
  /\ scanner = [n \in Networks |-> Started(1)]
  /\ removal = {}
  /\ restarts = 0

UserStep ==
  \/ \E u \in Users, t \in Tokens :
       \/ \E p \in Prices : CallAddAsk(u, t, p)
       \/ \E v \in Users \cup {Contract} : CallBuyKSM(u, t, v) \/ CallTransfer(u, t, v)
       \/ CallCancelAsk(u, t) \/ CallIgnored(u, t)
  \/ \E u \in Users : \/ CallWithdrawAllKSM(u)
                      \/ \E a \in Amounts : TransferToMarket(u, a)

Extract ==
  \/ ProcessAddAsk \/ RegisterAsk \/ ProcessCancelAsk
  \/ ProcessBuyKSM \/ MarkBought \/ Deduct \/ Payout
  \/ ProcessWithdrawAllKSM \/ ProcessTransfer

Carry(n) == Pick(n) \/ NoMoreMoney(n) \/ Send(n) \/ SendFails(n) \/ Report(n)

AdminStep == MassCancelFind \/ MassCancelUpdate \/ ToggleCollection \/ ShareBlock

Next ==
  \/ UserStep
  \/ \E n \in Networks : \/ FinishBlock(n) \/ Begin(n) \/ EmptyBlock(n) \/ EndOfBlock(n)
                         \/ ScanFails(n) \/ Crash(n) \/ Carry(n)
  \/ Extract \/ Start
  \/ AdminStep

Spec == Init /\ [][Next]_vars

(* The loops of the processes never end, and blocks are finished; nobody   *)
(* has to call anything and no process has to crash.                       *)
FairSpec ==
  /\ Spec
  /\ \A n \in Networks : /\ WF_vars(FinishBlock(n))
                        /\ WF_vars(Begin(n) \/ EmptyBlock(n) \/ EndOfBlock(n) \/ Carry(n))
  /\ WF_vars(Extract) /\ WF_vars(Start)

-----------------------------------------------------------------------------
(* Types.                                                                  *)

CallType == [block : Nat, method : {"addAsk", "cancelAsk", "buyKSM", "withdrawAllKSM",
                                    "transfer"},
             token : Tokens \cup {Nobody}, who : Users, seller : Users \cup {Nobody},
             amount : Nat]

AskType == [token : Tokens, status : OpenStatus \cup {"cancelled", "bought"},
            seller : Users, price : Nat]

MoneyType == [type : {"deposit", "withdraw"},
              status : {"pending", "in_progress", "completed", "failed"},
              who : Users, amount : Int, sent : Nat]

ScannerType == [pc : {"next", "scan", "register", "bought", "deduct", "payout",
                      "money", "start", "send", "sent", "failed"},
                current : Nat, block : Nat, at : Nat, managed : BOOLEAN,
                ask : Nat, row : Nat, then : {"money", "payout"}]

\* Every variable has its type; no table row or call is malformed.
TypeOK ==
  /\ ContractTypeOK
  /\ chain \in [Networks -> Seq(CallType)]
  /\ head \in [Networks -> Nat]
  /\ market \in Nat
  /\ received \in [Users -> Nat] /\ due \in [Users -> Int]
  /\ asks \in Seq(AskType)
  /\ trades \in Seq([buyer : Users, seller : Users, originPrice : Nat])
  /\ money \in Seq(MoneyType)
  /\ scanned \in [Networks -> SUBSET Nat]
  /\ managed \in BOOLEAN
  /\ scanner \in [Networks -> ScannerType]
  /\ removal \subseteq DOMAIN asks
  /\ restarts \in 0 .. MaxRestarts

-----------------------------------------------------------------------------
(* Properties that hold when processes crash and transfers fail.           *)

(* A row of money_transfer moves money once at most, however the process   *)
(* that carries it out crashes, is told wrongly or starts again.           *)
RowSentOnce == \A i \in DOMAIN money : money[i].sent <= 1

(* The statuses tell the truth as far as they can: what is pending was not *)
(* sent and what is completed was.                                         *)
StatusIsTrue ==
  \A i \in DOMAIN money :
    /\ money[i].status = "pending" => money[i].sent = 0
    /\ money[i].status = "completed" => money[i].sent = 1

RowsFor(u, a) == {i \in DOMAIN money : /\ money[i].type = "deposit"
                                       /\ money[i].who = u /\ money[i].amount = a}

TransfersOf(u, a) == {i \in DOMAIN chain["kusama"] :
                        LET c == chain["kusama"][i] IN
                        c.who = u /\ c.amount = a /\ c.block \in scanned["kusama"]}

(* A deposit in a block that will not be scanned again has its row in      *)
(* money_transfer: scanning fails or crashes towards scanning again.       *)
DepositsRecorded ==
  \A u \in Users, a \in Amounts :
    Cardinality(TransfersOf(u, a)) <= Cardinality(RowsFor(u, a))

CaughtUp(n) == /\ BlocksOf(n) \subseteq 1 .. head[n]
               /\ scanner[n].pc = "next" /\ scanner[n].current > head[n]

(* When the scanner has caught up, the offers in contract_ask are those of *)
(* the contract, although blocks are scanned again after a crash.          *)
OffersListed ==
  CaughtUp("unique") =>
    \A t \in Tokens :
      IF order[t].active
      THEN \E i \in OpenAsks(t) : /\ asks[i].seller = order[t].owner
                                  /\ asks[i].price = order[t].price
      ELSE OpenAsks(t) = {}

SalesIn(blocks) == {i \in DOMAIN chain["unique"] :
                      /\ chain["unique"][i].method = "buyKSM"
                      /\ chain["unique"][i].block \in blocks}

TradeOf(c) == [buyer |-> c.who, seller |-> c.seller, originPrice |-> c.amount]

(* A sale in a block that will not be scanned again has its trade.         *)
NoSaleForgotten ==
  \A i \in SalesIn(scanned["unique"]) :
    \E j \in DOMAIN trades : trades[j] = TradeOf(chain["unique"][i])

-----------------------------------------------------------------------------
(* Properties that hold when scans fail and the administrator and the      *)
(* auctions change the escrow's tables, as long as no process crashes.     *)

Begun == {i \in DOMAIN chain["unique"] :
            chain["unique"][i].block < scanner["unique"].current}

MethodCalls(methods) == {i \in Begun : chain["unique"][i].method \in methods}

(* A sale has one trade at most, though its block's scan may fail halfway  *)
(* and massFixPriceCancel may write over the status of its ask.            *)
NoTradeTwice == Len(trades) <= Cardinality(MethodCalls({"buyKSM"}))

(* Nobody is paid twice: there is at most one withdrawal for each sale and *)
(* each withdrawAllKSM.                                                    *)
NoPayoutTwice ==
  Cardinality({i \in DOMAIN money : money[i].type = "withdraw"})
    <= Cardinality(MethodCalls({"buyKSM", "withdrawAllKSM"}))

-----
(* Properties of the money when nothing fails and sellers are patient.     *)

Quiet == /\ \A n \in Networks : CaughtUp(n)
         /\ \A n \in Networks : Pending(n) = {}

(* Once everything is carried out, what a user got back and what is in the *)
(* contract for it is what it deposited and sold for, less what it paid.   *)
Settled == Quiet => \A u \in Users : balanceKSM[u] + received[u] = due[u]

Unsent == {i \in DOMAIN money : money[i].sent = 0 /\ money[i].status # "failed"}

\* The account on Kusama covers the balances and all registered transfers.
AccountCovers == market >= TotalKSM + MapThenSumSet(LAMBDA i : money[i].amount, Unsent)

\* What a process takes up it can carry out.
SendsCovered == \A n \in Networks : scanner[n].pc = "send" => CanSend(n)

(* At every moment, the escrow's account on Kusama covers the balances in  *)
(* the contract and every transfer that is registered; and no transfer is  *)
(* refused for lack of money: the KSM of a sale is still in the contract   *)
(* when its seller is debited, and Kusama has what is sent from it.        *)
Solvent == AccountCovers /\ SendsCovered

(* Nobody ever has received more than it deposited and sold for, less what *)
(* it paid: not even while a sale is half done on the two chains.          *)
NeverOverpaid == \A u \in Users : received[u] <= due[u]

(* Every sale is one trade and every trade is a sale.                      *)
TradesAreSales ==
  CaughtUp("unique") => Len(trades) = Cardinality(SalesIn(1 .. head["unique"]))

-----------------------------------------------------------------------------
(* Liveness.                                                               *)

(* Every deposit reaches the contract and every sale and withdrawal its    *)
(* user on Kusama, across the two processes, without further calls.        *)
EverythingIsCarried == \A u \in Users : <>[](balanceKSM[u] + received[u] = due[u])
=============================================================================
