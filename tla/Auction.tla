------------------------------- MODULE Auction -------------------------------
(***************************************************************************)
(* One auction of one token: the requests of the API process (place a bid, *)
(* withdraw a bid, cancel the auction), the two interval handlers of the   *)
(* escrow process that stop and close it, the database rows they share and *)
(* the two chains they submit extrinsics to.                               *)
(*                                                                         *)
(* The database is PostgreSQL.  A request's transaction is REPEATABLE READ *)
(* and is two steps here: Begin computes everything from the snapshot, and *)
(* Commit writes, unless a row it writes was written since the snapshot    *)
(* was taken ("could not serialize access due to concurrent update").     *)
(* Everything outside a transaction is a step of its own.                  *)
(***************************************************************************)
EXTENDS Integers, FiniteSets

CONSTANTS
  Bidders,             \* accounts that bid
  Requests,            \* calls of the API, each used once
  Offers,              \* amounts the transfer sent along with a bid may carry
  StartPrice, PriceStep,
  Commission,          \* config.auction.commission, in percent
  StoredFormat,        \* ss58 format of addresses in the database: encodeAddress(a)
  ChainFormat,         \* kusamaApi.registry.chainSS58, format of a request's address
  Faults,              \* what the environment may do wrong, see AllFaults
  PatientBidders,      \* TRUE: a bidder waits for the answer to its last request
  PromptTransactions,  \* TRUE: closing never overtakes a transaction begun earlier
  Market, Seller,      \* the other two accounts that may own the token
  Nobody               \* NULL

AllFaults ==
  { "bidFails",       \* a bidder's transfer is dropped, invalid or fails in its block
    "transferFails",  \* a transfer of money signed by the market does
    "tokenFails",     \* a transfer of the token signed by the market does
    "watchLost",      \* FinalityTimeout, or an RPC error after finalization
    "rpcFails",       \* accountNextIndex throws before the transfer is signed
    "apiCrash",       \* the API process restarts
    "closerCrash" }   \* the escrow process restarts

ASSUME ConstantsAssumption ==
  /\ Bidders \cap Requests = {}
  /\ {Market, Seller, Nobody} \cap Bidders = {}
  /\ Market # Seller
  /\ Offers \subseteq Nat
  /\ StartPrice \in Nat \ {0} /\ PriceStep \in Nat \ {0}   \* BigIntGte(1n)
  /\ Commission \in 0 .. 100
  /\ Faults \subseteq AllFaults
  /\ PatientBidders \in BOOLEAN /\ PromptTransactions \in BOOLEAN

(* A row of table bids is named after the request that inserts it or, for  *)
(* the refund inserted when the auction closes, after the bidder refunded. *)
Rows == Requests \cup Bidders

VARIABLES
  (* the database *)
  ask,       \* the row of contract_ask: status, price, address_to
  auction,   \* the status of the row of auctions
  bid,       \* the rows of bids
  finished,  \* SUM(amount) of each bidder's finished bids
  minting,   \* SUM(amount) of each bidder's minting bids
  trades,    \* the rows of market_trade
  (* the two chains *)
  xt,        \* the money extrinsic of each bid row
  held,      \* what the market's account holds of each bidder's money
  paidOut,   \* what the seller received
  token,     \* the owner of the token
  (* the memory of the processes *)
  req,       \* API process: where each request is
  stopper,   \* escrow process: the stopping handler has found the auction
  closer     \* escrow process: where the withdrawing handler is

db     == <<ask, auction, bid, finished, minting, trades>>
ledger == <<bid, finished, minting>>
chain  == <<xt, held, paidOut, token>>
escrow == <<stopper, closer>>
vars   == <<db, chain, req, escrow>>

-----------------------------------------------------------------------------
(* Reading the bids: DatabaseHelper.                                       *)

Live == {"minting", "finished"}

\* The bidders who have a row in one of the statuses S: GROUP BY bidder_address.
Bidding(S) == {bid[x].bidder : x \in {y \in Rows : bid[y].status \in S}}

\* getUserPendingSum of every bidder; getUserActualSum is finished[b].
PendingSum == [b \in Bidders |-> finished[b] + minting[b]]

\* ORDER BY 1 DESC and the first row: one of the bidders of P with the largest sum.
Leaders(P, sum) == {b \in P : \A c \in P : sum[c] <= sum[b]}

\* An address is an account in a format; === compares both.
Encode(b, format) == [account |-> b, format |-> format]

-----------------------------------------------------------------------------
(* Transactions of the API process.                                        *)

IdleRequest == [pc |-> "idle", kind |-> "none", bidder |-> Nobody,
                amount |-> 0, price |-> 0, missed |-> {}]
DoneRequest == [IdleRequest EXCEPT !.pc = "done"]

InTransaction(q) == req[q].pc \in {"open", "failing"}

\* The rows a transaction updates, for which it can lose to a concurrent update.
Updates(q) == CASE req[q].kind = "place"    -> {"ask"}
                [] req[q].kind = "withdraw" -> {}
                [] req[q].kind = "cancel"   -> {"ask", "auction"}
                [] OTHER                    -> {}

\* Every open transaction misses the update of these rows by somebody else.
Missing(rows) == [q \in Requests |-> IF InTransaction(q)
                                     THEN [req[q] EXCEPT !.missed = @ \cup rows]
                                     ELSE req[q]]

\* Request r moves on to state s and its transaction, if any, updated these rows.
MoveOn(r, s, rows) == req' = [Missing(rows) EXCEPT ![r] = s]

\* Mutant: READ COMMITTED, under which a concurrent update is overwritten.
ReadCommitted(r) == req[r].pc # "idle"

CanCommit(r) == req[r].missed \cap Updates(r) = {}

\* A restriction on the environment, not on the code.
MayAsk(b) == PatientBidders => \A q \in Requests : req[q].bidder # b

\* getActiveAuctionContract
Accepting == ask.status = "active" /\ auction = "active"

\* The transaction loses the row to a concurrent update and is rolled back.
Abort(r) ==
  /\ InTransaction(r)
  /\ ~ CanCommit(r)
  /\ req' = [req EXCEPT ![r] = DoneRequest]
  /\ UNCHANGED <<db, chain, escrow>>

-----------------------------------------------------------------------------
(* Rows of bids.  The two sums follow every insertion and update.          *)

InsertBid(x, b, a) ==
  /\ bid' = [bid EXCEPT ![x] = [status |-> "minting", bidder |-> b, amount |-> a]]
  /\ minting' = [minting EXCEPT ![b] = @ + a]
  /\ UNCHANGED finished

FinishBid(x) ==
  LET b == bid[x].bidder IN
  /\ bid' = [bid EXCEPT ![x].status = "finished"]
  /\ minting' = [minting EXCEPT ![b] = @ - bid[x].amount]
  /\ finished' = [finished EXCEPT ![b] = @ + bid[x].amount]

FailBid(x) ==
  /\ bid' = [bid EXCEPT ![x].status = "error"]
  /\ minting' = [minting EXCEPT ![bid[x].bidder] = @ - bid[x].amount]
  /\ UNCHANGED finished

-----------------------------------------------------------------------------
(* Placing a bid: BidPlacingService.                                       *)

\* Mutants: the price step is forgotten; a first bid may be anything.
MinWithoutStep(b) == ask.price - PendingSum[b]
MinOfFirstBidForgotten(b) ==
  IF Bidding(Live) = {} THEN 0 ELSE ask.price - PendingSum[b] + PriceStep

\* getCalculationInfo's minBidderAmount.
MinBidderAmount(b) ==
  LET due == ask.price - PendingSum[b]
      isFirstBid == ask.price = StartPrice /\ Bidding(Live) = {}
  IN  IF due > 0 /\ ~isFirstBid THEN due + PriceStep ELSE due

PlaceBegin(r, b, amount) ==
  /\ req[r].pc = "idle"
  /\ MayAsk(b)
  /\ Accepting
  /\ ask.price >= PriceStep => amount >= PriceStep
  /\ amount >= MinBidderAmount(b)
  /\ req' = [req EXCEPT ![r] = [pc |-> "open", kind |-> "place", bidder |-> b,
               amount |-> amount, price |-> PendingSum[b] + amount, missed |-> {}]]
  /\ UNCHANGED <<db, chain, escrow>>

\* The bid is inserted, the ask carries its price and the transfer is submitted.
PlaceCommit(r) ==
  /\ req[r].pc = "open" /\ req[r].kind = "place"
  /\ CanCommit(r)
  /\ ask' = [ask EXCEPT !.price = req[r].price]
  /\ InsertBid(r, req[r].bidder, req[r].amount)
  /\ xt' = [xt EXCEPT ![r] = "pool"]
  /\ MoveOn(r, [req[r] EXCEPT !.pc = "sent", !.missed = {}], {"ask"})
  /\ UNCHANGED <<auction, trades, held, paidOut, token, escrow>>

\* ExtrinsicSubmitter.submit throws.
Rejected(x) == \/ xt[x] = "dropped"
               \/ "watchLost" \in Faults /\ xt[x] \in {"pool", "executed"}

\* Mutant: a bid is finished as soon as its transfer is submitted.
SucceedOnSubmit(r) ==
  /\ req[r].pc = "sent" /\ xt[r] # "dropped"
  /\ FinishBid(r)
  /\ req' = [req EXCEPT ![r] = DoneRequest]
  /\ UNCHANGED <<ask, auction, trades, chain, escrow>>

\* handleBidTxSuccess, and the same update of makeWithdrawalTransfer.
Succeed(r) ==
  /\ req[r].pc = "sent"
  /\ xt[r] = "executed"
  /\ FinishBid(r)
  /\ req' = [req EXCEPT ![r] = DoneRequest]
  /\ UNCHANGED <<ask, auction, trades, chain, escrow>>

\* Mutant: the price falls back to the finished bids only.
FailToActualWinner(r) ==
  /\ req[r].pc = "sent" /\ req[r].kind = "place"
  /\ Rejected(r)
  /\ \E price \in IF Bidding({"finished"}) = {} THEN {StartPrice}
                  ELSE {finished[w] : w \in Leaders(Bidding({"finished"}), finished)} :
       req' = [req EXCEPT ![r].pc = "failing", ![r].price = price]
  /\ UNCHANGED <<db, chain, escrow>>

\* handleBidTxFail takes its snapshot: the price the other bids leave.
PlaceFailBegin(r) ==
  LET others  == {bid[x].bidder : x \in {y \in Rows \ {r} : bid[y].status \in Live}}
      pending == [PendingSum EXCEPT ![bid[r].bidder] = @ - bid[r].amount]
  IN
  /\ req[r].pc = "sent" /\ req[r].kind = "place"
  /\ Rejected(r)
  /\ \E price \in IF others = {} THEN {StartPrice}
                  ELSE {pending[w] : w \in Leaders(others, pending)} :
       req' = [req EXCEPT ![r].pc = "failing", ![r].price = price]
  /\ UNCHANGED <<db, chain, escrow>>

PlaceFailCommit(r) ==
  /\ req[r].pc = "failing"
  /\ CanCommit(r)
  /\ ask' = [ask EXCEPT !.price = req[r].price]
  /\ FailBid(r)
  /\ MoveOn(r, DoneRequest, {"ask"})
  /\ UNCHANGED <<auction, trades, chain, escrow>>

-----------------------------------------------------------------------------
(* Withdrawing a bid: BidWithdrawService.                                  *)

\* Mutant: only the pending winner is refused.
WithdrawUnlessPendingWinner(r, b) ==
  /\ req[r].pc = "idle" /\ MayAsk(b) /\ Accepting
  /\ finished[b] > 0
  /\ \E w \in Leaders(Bidding(Live), PendingSum) : w # b
  /\ req' = [req EXCEPT ![r] = [pc |-> "open", kind |-> "withdraw", bidder |-> b,
               amount |-> -finished[b], price |-> 0, missed |-> {}]]
  /\ UNCHANGED <<db, chain, escrow>>

\* A bidder may not withdraw while it leads, counting minting bids or not.
WithdrawBegin(r, b) ==
  /\ req[r].pc = "idle"
  /\ MayAsk(b)
  /\ Accepting
  /\ finished[b] > 0
  /\ \E pendingWinner \in Leaders(Bidding(Live), PendingSum),
        actualWinner  \in Leaders(Bidding({"finished"}), finished) :
       Encode(b, ChainFormat) \notin
         {Encode(pendingWinner, StoredFormat), Encode(actualWinner, StoredFormat)}
  /\ req' = [req EXCEPT ![r] = [pc |-> "open", kind |-> "withdraw", bidder |-> b,
               amount |-> -finished[b], price |-> 0, missed |-> {}]]
  /\ UNCHANGED <<db, chain, escrow>>

\* tryCreateWithdrawingBid commits; makeWithdrawalTransfer signs and submits.
WithdrawCommit(r) ==
  /\ req[r].pc = "open" /\ req[r].kind = "withdraw"
  /\ InsertBid(r, req[r].bidder, req[r].amount)
  /\ \/ /\ xt' = [xt EXCEPT ![r] = "pool"]
        /\ req' = [req EXCEPT ![r].pc = "sent", ![r].missed = {}]
     \/ /\ "rpcFails" \in Faults
        /\ xt' = xt
        /\ req' = [req EXCEPT ![r] = DoneRequest]
  /\ UNCHANGED <<ask, auction, trades, held, paidOut, token, escrow>>

WithdrawFail(r) ==
  /\ req[r].pc = "sent" /\ req[r].kind = "withdraw"
  /\ Rejected(r)
  /\ FailBid(r)
  /\ req' = [req EXCEPT ![r] = DoneRequest]
  /\ UNCHANGED <<ask, auction, trades, chain, escrow>>

-----------------------------------------------------------------------------
(* Cancelling the auction: AuctionCancelingService.                        *)

\* Mutant: only bids that are still minting stand in the way.
CancelUnlessMinting(r) ==
  /\ req[r].pc = "idle" /\ Accepting
  /\ \A x \in Rows : bid[x].status # "minting"
  /\ req' = [req EXCEPT ![r].pc = "open", ![r].kind = "cancel"]
  /\ UNCHANGED <<db, chain, escrow>>

CancelBegin(r) ==
  /\ req[r].pc = "idle"
  /\ Accepting
  /\ \A x \in Rows : bid[x].status \notin Live
  /\ req' = [req EXCEPT ![r].pc = "open", ![r].kind = "cancel"]
  /\ UNCHANGED <<db, chain, escrow>>

CancelCommit(r) ==
  /\ req[r].pc = "open" /\ req[r].kind = "cancel"
  /\ CanCommit(r)
  /\ ask' = [ask EXCEPT !.status = "cancelled"]
  /\ auction' = "ended"
  /\ MoveOn(r, [req[r] EXCEPT !.pc = "returning", !.missed = {}], {"ask", "auction"})
  /\ UNCHANGED <<ledger, trades, chain, escrow>>

\* The market sends the token, if it still has it and nothing goes wrong.
TokenMoves(to) == token = Market /\ token' = to
TokenStays == ("tokenFails" \in Faults \/ token # Market) /\ token' = token

\* sendTokenBackToOwner: it logs its errors and nothing tries again.
CancelReturn(r) ==
  /\ req[r].pc = "returning"
  /\ \/ TokenMoves(Seller) /\ MoveOn(r, DoneRequest, {"ask"})
     \/ TokenStays /\ MoveOn(r, DoneRequest, {})
  /\ UNCHANGED <<db, xt, held, paidOut, escrow>>

-----------------------------------------------------------------------------
(* Stopping: auctionsStoppingIntervalHandler, once stopAt has passed.      *)

StopFind ==
  /\ ~stopper
  /\ auction = "active"
  /\ stopper' = TRUE
  /\ UNCHANGED <<db, chain, req, closer>>

\* The update goes by id: it does not look at the status again.
StopWrite ==
  /\ stopper
  /\ stopper' = FALSE
  /\ auction' = "stopped"
  /\ req' = Missing({"auction"})
  /\ UNCHANGED <<ask, ledger, trades, chain, closer>>

-----------------------------------------------------------------------------
(* Closing: auctionsWithdrawingIntervalHandler, processAuctionWithdraws.   *)

IdleCloser == [pc |-> "idle", winner |-> Nobody, losers |-> {}, current |-> Nobody,
               owed |-> [b \in Bidders |-> 0], price |-> 0, delivered |-> FALSE]

\* Mutant: closing does not wait for the minting bids.
PickAnyStopped ==
  /\ closer.pc = "idle" /\ auction = "stopped"
  /\ closer' = [closer EXCEPT !.pc = "picked"]
  /\ UNCHANGED <<db, chain, req, stopper>>

\* findAuctionsReadyForWithdraw
ClosePick ==
  /\ closer.pc = "idle"
  /\ auction = "stopped"
  /\ \A x \in Rows : bid[x].status # "minting"
  /\ PromptTransactions => \A q \in Requests : ~InTransaction(q)
  /\ closer' = [closer EXCEPT !.pc = "picked"]
  /\ UNCHANGED <<db, chain, req, stopper>>

\* Mutant: the auction is not marked and can be picked again.
CloseUnmarked ==
  /\ closer.pc = "picked"
  /\ closer' = [closer EXCEPT !.pc = "marked"]
  /\ UNCHANGED <<db, chain, req, stopper>>

CloseMark ==
  /\ closer.pc = "picked"
  /\ auction' = "withdrawing"
  /\ closer' = [closer EXCEPT !.pc = "marked"]
  /\ req' = Missing({"auction"})
  /\ UNCHANGED <<ask, ledger, trades, chain, stopper>>

\* With no loser to refund the ask is cancelled before anything is sent.
CancelAsk ==
  /\ ask' = [ask EXCEPT !.status = "cancelled"]
  /\ req' = Missing({"ask"})

CloseUnsold ==
  /\ closer.pc = "marked"
  /\ Bidding({"finished"}) = {}
  /\ CancelAsk
  /\ closer' = [closer EXCEPT !.pc = "unsold"]
  /\ UNCHANGED <<auction, ledger, trades, chain, stopper>>

CloseWithWinner(w) ==
  LET alone == Bidding({"finished"}) = {w} IN
  /\ closer.pc = "marked"
  /\ w \in Leaders(Bidding({"finished"}), finished)
  /\ closer' = [closer EXCEPT !.pc = IF alone THEN "alone" ELSE "refunding",
                  !.winner = w, !.owed = finished,
                  !.losers = Bidding({"finished"}) \ {w}, !.price = ask.price]
  /\ \/ alone /\ CancelAsk
     \/ ~alone /\ UNCHANGED <<ask, req>>
  /\ UNCHANGED <<auction, ledger, trades, chain, stopper>>

\* Mutant: only the ask is updated.
EndNothing ==
  /\ closer.pc \in {"unsold", "alone"}
  /\ closer' = [closer EXCEPT !.pc = IF @ = "unsold" THEN "returning" ELSE "refunding"]
  /\ UNCHANGED <<db, chain, req, stopper>>

\* ... and then the auction is ended, before anything is sent, too.
EndAtOnce ==
  /\ closer.pc \in {"unsold", "alone"}
  /\ auction' = "ended"
  /\ req' = Missing({"auction"})
  /\ closer' = [closer EXCEPT !.pc = IF @ = "unsold" THEN "returning" ELSE "refunding"]
  /\ UNCHANGED <<ask, ledger, trades, chain, stopper>>

\* Mutant: every loser is refunded the price.
RefundPrice(b) ==
  /\ closer.pc = "refunding"
  /\ b \in Leaders(closer.losers, closer.owed)
  /\ closer.owed[b] > 0
  /\ InsertBid(b, b, -closer.price)
  /\ xt' = [xt EXCEPT ![b] = "pool"]
  /\ closer' = [closer EXCEPT !.pc = "awaiting", !.current = b, !.losers = @ \ {b}]
  /\ UNCHANGED <<ask, auction, trades, held, paidOut, token, req, stopper>>

\* The losers are refunded one by one, the largest sum first: withdrawByMarket.
Refund(b) ==
  /\ closer.pc = "refunding"
  /\ b \in Leaders(closer.losers, closer.owed)
  /\ closer.owed[b] > 0
  /\ InsertBid(b, b, -closer.owed[b])
  /\ \/ /\ xt' = [xt EXCEPT ![b] = "pool"]
        /\ closer' = [closer EXCEPT !.pc = "awaiting", !.current = b,
                                    !.losers = @ \ {b}]
     \/ /\ "rpcFails" \in Faults
        /\ xt' = xt
        /\ closer' = [closer EXCEPT !.losers = @ \ {b}]
  /\ UNCHANGED <<ask, auction, trades, held, paidOut, token, req, stopper>>

NothingToRefund(b) ==
  /\ closer.pc = "refunding"
  /\ b \in Leaders(closer.losers, closer.owed)
  /\ closer.owed[b] <= 0
  /\ closer' = [closer EXCEPT !.losers = @ \ {b}]
  /\ UNCHANGED <<db, chain, req, stopper>>

RefundEnd ==
  LET b == closer.current IN
  /\ closer.pc = "awaiting"
  /\ \/ xt[b] = "executed" /\ FinishBid(b)
     \/ Rejected(b) /\ FailBid(b)
  /\ closer' = [closer EXCEPT !.pc = "refunding", !.current = Nobody]
  /\ UNCHANGED <<ask, auction, trades, chain, req, stopper>>

\* sendTokenToWinner logs its errors; the caller cannot tell.  It writes
\* block_number_buy when it has seen the transfer in a block (delivered).
SendToken ==
  /\ closer.pc = "refunding" /\ closer.losers = {}
  /\ \/ /\ TokenMoves(closer.winner)
        /\ closer' = [closer EXCEPT !.pc = "paying", !.delivered = TRUE]
        /\ req' = Missing({"ask"})
     \/ /\ TokenStays \/ ("watchLost" \in Faults /\ TokenMoves(closer.winner))
        /\ closer' = [closer EXCEPT !.pc = "paying"]
        /\ UNCHANGED req
  /\ UNCHANGED <<db, xt, held, paidOut, stopper>>

MarketFee(total) == (total * Commission) \div 100
OwnerPrice(total) == total - MarketFee(total)

PaySeller ==
  LET winner == closer.winner IN
  /\ closer.pc = "paying"
  /\ paidOut' = paidOut + OwnerPrice(closer.owed[winner])
  /\ \/ closer' = [closer EXCEPT !.pc = "recording"]
     \/ "watchLost" \in Faults /\ closer' = IdleCloser
  /\ UNCHANGED <<db, xt, held, token, req, stopper>>

PayFails ==
  /\ closer.pc = "paying"
  /\ Faults \cap {"transferFails", "rpcFails", "watchLost"} # {}
  /\ closer' = IdleCloser
  /\ UNCHANGED <<db, chain, req, stopper>>

\* getPriceWithoutCommission, of the price read when closing began.
TradePrice(price) == (price * 100) \div (100 + Commission)

BuyAsk ==
  /\ closer.pc = "recording"
  /\ ask' = [ask EXCEPT !.status = "bought", !.buyer = closer.winner]
  /\ req' = Missing({"ask"})
  /\ closer' = [closer EXCEPT !.pc = "bought"]
  /\ UNCHANGED <<auction, ledger, trades, chain, stopper>>

EndSale ==
  /\ closer.pc = "bought"
  /\ auction' = "ended"
  /\ req' = Missing({"auction"})
  /\ closer' = [closer EXCEPT !.pc = "trading"]
  /\ UNCHANGED <<ask, ledger, trades, chain, stopper>>

\* Mutant: the trade's buyer is taken from the ask as it was read at first.
RecordStaleBuyer ==
  /\ closer.pc = "trading"
  /\ trades' = trades \cup {[buyer |-> Nobody, price |-> TradePrice(closer.price)]}
  /\ closer' = IdleCloser
  /\ UNCHANGED <<ask, auction, ledger, chain, req, stopper>>

\* With no block_number_buy, BigInt(null) throws before the trade is inserted.
RecordSale ==
  /\ closer.pc = "trading"
  /\ trades' = IF closer.delivered
               THEN trades \cup {[buyer |-> closer.winner, price |-> TradePrice(closer.price)]}
               ELSE trades
  /\ closer' = IdleCloser
  /\ UNCHANGED <<ask, auction, ledger, chain, req, stopper>>

\* Nobody bid: the token goes back and the ask is cancelled (again).
ReturnUnsold ==
  /\ closer.pc = "returning"
  /\ TokenMoves(Seller) \/ TokenStays
  /\ ask' = [ask EXCEPT !.status = "cancelled"]
  /\ req' = Missing({"ask"})
  /\ closer' = IdleCloser
  /\ UNCHANGED <<auction, ledger, trades, xt, held, paidOut, stopper>>

-----------------------------------------------------------------------------
(* The chains and the crashes.                                             *)

\* A pending extrinsic is included, whether or not anybody still waits for it.
Execute(x) ==
  /\ xt[x] = "pool"
  /\ xt' = [xt EXCEPT ![x] = "executed"]
  /\ held' = [held EXCEPT ![bid[x].bidder] = @ + bid[x].amount]
  /\ UNCHANGED <<db, paidOut, token, req, escrow>>

Drop(x) ==
  /\ xt[x] = "pool"
  /\ IF bid[x].amount < 0 THEN "transferFails" \in Faults ELSE "bidFails" \in Faults
  /\ xt' = [xt EXCEPT ![x] = "dropped"]
  /\ UNCHANGED <<db, held, paidOut, token, req, escrow>>

\* Open transactions are rolled back; nobody waits for what was submitted.
ApiCrash ==
  /\ "apiCrash" \in Faults
  /\ \E r \in Requests : req[r].pc \notin {"idle", "done"}
  /\ req' = [r \in Requests |-> IF req[r].pc = "idle" THEN req[r] ELSE DoneRequest]
  /\ UNCHANGED <<db, chain, escrow>>

CloserCrash ==
  /\ "closerCrash" \in Faults
  /\ stopper \/ closer.pc # "idle"
  /\ stopper' = FALSE
  /\ closer' = IdleCloser
  /\ UNCHANGED <<db, chain, req>>

-----------------------------------------------------------------------------
Init ==
  /\ ask = [status |-> "active", price |-> StartPrice, buyer |-> Nobody]
  /\ auction = "active"
  /\ bid = [x \in Rows |-> [status |-> "none", bidder |-> Nobody, amount |-> 0]]
  /\ finished = [b \in Bidders |-> 0]
  /\ minting = [b \in Bidders |-> 0]
  /\ trades = {}
  /\ xt = [x \in Rows |-> "none"]
  /\ held = [b \in Bidders |-> 0]
  /\ paidOut = 0
  /\ token = Market
  /\ req = [r \in Requests |-> IdleRequest]
  /\ stopper = FALSE
  /\ closer = IdleCloser

\* What the API process does next for a request it has accepted.
Handle(r) ==
  \/ PlaceCommit(r) \/ Succeed(r) \/ PlaceFailBegin(r) \/ PlaceFailCommit(r)
  \/ WithdrawCommit(r) \/ WithdrawFail(r)
  \/ CancelCommit(r) \/ CancelReturn(r)
  \/ Abort(r)

\* What the interval handlers of the escrow process do next.
Close ==
  \/ ClosePick \/ CloseMark \/ CloseUnsold \/ EndAtOnce
  \/ \E b \in Bidders : CloseWithWinner(b) \/ Refund(b) \/ NothingToRefund(b)
  \/ RefundEnd \/ SendToken \/ PaySeller \/ PayFails
  \/ BuyAsk \/ EndSale \/ RecordSale \/ ReturnUnsold

Next ==
  \/ \E r \in Requests, b \in Bidders, a \in Offers : PlaceBegin(r, b, a)
  \/ \E r \in Requests, b \in Bidders : WithdrawBegin(r, b)
  \/ \E r \in Requests : CancelBegin(r) \/ Handle(r)
  \/ StopFind \/ StopWrite \/ Close
  \/ \E x \in Rows : Execute(x) \/ Drop(x)
  \/ ApiCrash \/ CloserCrash

Spec == Init /\ [][Next]_vars

(* What a process has begun it goes on with, a submitted extrinsic is      *)
(* included or dropped, and stopAt passes.  Nobody has to bid, to withdraw *)
(* or to cancel, and no process has to crash.                              *)
FairSpec ==
  /\ Spec
  /\ \A r \in Requests : WF_vars(Handle(r))
  /\ \A x \in Rows : WF_vars(Execute(x) \/ Drop(x))
  /\ WF_vars(StopFind) /\ WF_vars(StopWrite) /\ WF_vars(Close)

-----------------------------------------------------------------------------
(* Types.                                                                  *)

AskType == [status : {"active", "cancelled", "bought"}, price : Int,
            buyer : Bidders \cup {Nobody}]

BidType == [status : {"none", "minting", "finished", "error"},
            bidder : Bidders \cup {Nobody}, amount : Int]

RequestType == [pc : {"idle", "open", "sent", "failing", "returning", "done"},
                kind : {"none", "place", "withdraw", "cancel"},
                bidder : Bidders \cup {Nobody}, amount : Int, price : Int,
                missed : SUBSET {"ask", "auction"}]

CloserType == [pc : {"idle", "picked", "marked", "unsold", "alone", "refunding", "awaiting",
                     "paying", "recording", "bought", "trading", "returning"},
               winner : Bidders \cup {Nobody}, losers : SUBSET Bidders,
               current : Bidders \cup {Nobody}, owed : [Bidders -> Int],
               price : Int, delivered : BOOLEAN]

\* Every variable has its type; a recorded sale has a buyer.
TypeOK ==
  /\ ask \in AskType
  /\ auction \in {"active", "stopped", "withdrawing", "ended"}
  /\ bid \in [Rows -> BidType]
  /\ finished \in [Bidders -> Int] /\ minting \in [Bidders -> Int]
  /\ trades \subseteq [buyer : Bidders, price : Int]
  /\ xt \in [Rows -> {"none", "pool", "executed", "dropped"}]
  /\ held \in [Bidders -> Int]
  /\ paidOut \in Int
  /\ token \in Bidders \cup {Market, Seller}
  /\ req \in [Requests -> RequestType]
  /\ stopper \in BOOLEAN
  /\ closer \in CloserType

-----------------------------------------------------------------------------
(* Properties that hold whatever fails and however the requests race.      *)

(* A bid that counts as money received (finished) was paid on the chain:   *)
(* the statuses written by handleBidTxSuccess and makeWithdrawalTransfer   *)
(* are never ahead of the extrinsics.                                      *)
FinishedIsPaid == \A x \in Rows : bid[x].status = "finished" => xt[x] = "executed"

\* A withdrawal of b's bids was committed and its transfer failed.
WithdrawalFailed(b) ==
  \E r \in Requests : /\ bid[r].bidder = b /\ bid[r].amount < 0
                       /\ bid[r].status = "error"

(* While bids are accepted, the ask's price covers what every bidder has   *)
(* in the auction, although it is set from snapshots, by                   *)
(* tryPlacePendingBid to the new bidder's total and by handleBidTxFail to  *)
(* the largest one left.  A bidder whose withdrawal failed is the          *)
(* exception: the money that the price no longer counts comes back.        *)
PriceCovers ==
  Accepting =>
    \A b \in Bidders :
      PendingSum[b] > 0 /\ ~WithdrawalFailed(b) => PendingSum[b] <= ask.price

(* A token on its way back to the seller because the auction was cancelled *)
(* has no bid: nobody's money is left in an auction that will never close, *)
(* although cancelInDatabase counted the bids in a snapshot.               *)
CancelledHasNoBids ==
  (\E r \in Requests : req[r].pc = "returning") =>
    \A x \in Rows : bid[x].status \notin Live

(* The seller never has both the token and the money, though cancelling    *)
(* and closing run in two processes that exclude each other by statuses.   *)
SellerNeverHasBoth == ~ (token = Seller /\ paidOut # 0)

(* One auction pays its seller at most once, though the stopping handler   *)
(* may write "stopped" over any later status and the closing handler may   *)
(* crash anywhere.                                                         *)
SellerPaidOnce == [][paidOut' # paidOut => paidOut = 0]_vars

\* Row r is inserted by the step and is an offer, not a withdrawal.
Placed(r) == /\ bid[r].status = "none" /\ bid'[r].status = "minting"
             /\ req[r].kind = "place"

(* A committed bid never lowers the price that it finds when it commits:   *)
(* of two concurrent bids computed from the same price one is rolled back. *)
NoUndercut == [][\A r \in Requests : Placed(r) => ask'.price >= ask.price]_vars

(* A bid that is not the first raises the price it finds by the price step *)
(* at least, though both were computed in a snapshot.  The exception is a  *)
(* price below one step, over which a bidder who has reached it may go by  *)
(* any amount: checkBidAmount asks for the step only above it.             *)
OvertakeByStep ==
  [][\A r \in Requests :
       /\ Placed(r)
       /\ Bidding(Live) # {}
       /\ ask.price >= PriceStep \/ req[r].price - req[r].amount < ask.price
       => ask'.price >= ask.price + PriceStep]_vars

-----------------------------------------------------------------------------
(* Properties of an auction whose bidders wait for each answer and whose   *)
(* transactions are over when closing begins; bidders' transfers may fail. *)

(* The market never pays a bidder more than the bidder paid in: a bid is   *)
(* withdrawn or refunded once.                                             *)
NoOverdraw == \A b \in Bidders : held[b] >= 0

(* When the ask is bought the buyer has the token, every other bidder has  *)
(* all its money back and the seller has the buyer's less the commission.  *)
Settled ==
  ask.status = "bought" =>
    /\ token = ask.buyer
    /\ \A b \in Bidders \ {ask.buyer} : held[b] = 0
    /\ paidOut = OwnerPrice(held[ask.buyer])

(* The winner is charged the price the ask shows, although one is the sum  *)
(* of the finished bids and the other is kept up by each bid and failure.  *)
Charged == closer.pc = "recording" => closer.owed[closer.winner] = closer.price

(* A bid that nobody waits for any more and that is not finished: the      *)
(* transfer failed and handleBidTxFail then lost the ask to another        *)
(* transaction, which bid-placing.service.ts:114 logs and never retries.   *)
(* It counts for its bidder as long as bids are accepted, though no money  *)
(* is behind it.                                                           *)
Abandoned(r) == bid[r].status = "minting" /\ req[r].pc = "done"

NoneAbandoned == \A r \in Requests : ~Abandoned(r)

(* No bid or failure leaves the price below the start price, unless a bid  *)
(* is abandoned: the others may then have withdrawn what was above it.     *)
PriceAtLeastStart == Accepting /\ NoneAbandoned => ask.price >= StartPrice

Lead == IF Bidding({"finished"}) = {} THEN 0
        ELSE finished[CHOOSE w \in Leaders(Bidding({"finished"}), finished) : TRUE]

(* The money behind the leading bid never shrinks while bids are accepted: *)
(* a withdrawal that is accepted is never the leader's.  With an abandoned *)
(* bid two bidders may have paid the same, and each lets the other go.     *)
LeadNeverDrops == [][Accepting /\ NoneAbandoned => Lead' >= Lead]_vars

-----------------------------------------------------------------------------
(* Liveness.                                                               *)

(* The auction ends for good and the token leaves the market, for its      *)
(* winner or back to the seller, however bids, failing transfers, the      *)
(* stopping and the closing interleave.  The one thing that keeps an       *)
(* auction open for ever is an abandoned bid, for which                    *)
(* findAuctionsReadyForWithdraw waits.                                     *)
AuctionCloses ==
  <>[](\/ auction = "ended" /\ token # Market
       \/ \E r \in Requests : Abandoned(r))

-----------------------------------------------------------------------------
(* What the repository says and the code does not do.                      *)

(* tests/auction/bids.test.ts:108-109: a bidder's second withdrawal of the *)
(* same bids is refused.  No bidder withdraws more than its bids sum up to.*)
WithdrawnOnce == \A b \in Bidders : PendingSum[b] >= 0

(* bid-withdraw.service.ts:139, to a bidder who asks for its bids back:    *)
(* you are going to be winner, please wait your bid to be overbidden.      *)
LeaderWaits ==
  [][\A r \in Requests :
       req[r].pc = "idle" /\ req'[r].pc = "open" /\ req'[r].kind = "withdraw" =>
         \E c \in Bidders \ {req'[r].bidder} : PendingSum[c] >= PendingSum[req'[r].bidder]]_vars
=============================================================================
