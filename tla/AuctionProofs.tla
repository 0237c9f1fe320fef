---------------------------- MODULE AuctionProofs ----------------------------
(* Theorems about Auction, for every set of bidders, requests and offers,  *)
(* every price and commission, and every set of faults.                    *)
EXTENDS Auction, TLAPS

-----------------------------------------------------------------------------
(* Types.  Beside its type, a name is known wherever the code uses it.     *)

\* Once the winner is chosen it is a bidder, and so is the loser being refunded.
WinnerKnown ==
  /\ closer.pc \in {"alone", "refunding", "awaiting", "paying", "recording", "bought", "trading"}
       => closer.winner \in Bidders
  /\ closer.pc = "awaiting" => closer.current \in Bidders

\* A transaction that will insert a bid has a bidder.
AskersKnown ==
  \A r \in Requests :
    req[r].pc = "open" /\ req[r].kind \in {"place", "withdraw"} => req[r].bidder \in Bidders

\* A row that counts, or was submitted, has a bidder: every GROUP BY yields bidders.
BiddersKnown ==
  \A x \in Rows : bid[x].status \in Live \/ xt[x] # "none" => bid[x].bidder \in Bidders

TypeInv == TypeOK /\ WinnerKnown /\ AskersKnown /\ BiddersKnown

\* The three ledger variables; typed alone they are easier on the provers.
LedgerOK == /\ bid \in [Rows -> BidType]
            /\ minting \in [Bidders -> Int] /\ finished \in [Bidders -> Int]

LEMMA SumUpdated ==
  ASSUME NEW f \in [Bidders -> Int], NEW b, NEW v, b \in Bidders => v \in Int
  PROVE  [f EXCEPT ![b] = v] \in [Bidders -> Int]
  OBVIOUS

\* Inserting, finishing or failing a bid keeps the ledger typed and the other rows' bidders.
LEMMA InsertBidType ==
  ASSUME LedgerOK, NEW x \in Rows, NEW b \in Bidders, NEW a \in Int,
         InsertBid(x, b, a)
  PROVE  LedgerOK' /\ bid'[x].bidder = b
<1>1. [status |-> "minting", bidder |-> b, amount |-> a] \in BidType
  BY DEF BidType
<1>2. bid' \in [Rows -> BidType]
  BY <1>1 DEF InsertBid, LedgerOK
<1>3. b \in Bidders => minting[b] + a \in Int
  BY DEF LedgerOK
<1>4. minting' \in [Bidders -> Int]
  BY <1>3, SumUpdated DEF InsertBid, LedgerOK
<1>5. bid'[x].bidder = b
  BY DEF InsertBid, LedgerOK
<1> QED BY <1>2, <1>4, <1>5 DEF InsertBid, LedgerOK

LEMMA FinishBidType ==
  ASSUME LedgerOK, NEW x \in Rows, FinishBid(x)
  PROVE  LedgerOK' /\ \A y \in Rows : bid'[y].bidder = bid[y].bidder
<1> DEFINE b == bid[x].bidder
<1>1. bid[x] \in BidType /\ bid[x].amount \in Int
  BY DEF LedgerOK, BidType
<1>2. [bid[x] EXCEPT !.status = "finished"] \in BidType
  BY <1>1 DEF BidType
<1>3. bid' \in [Rows -> BidType]
  BY <1>2 DEF FinishBid, LedgerOK
<1>4. b \in Bidders => minting[b] - bid[x].amount \in Int /\ finished[b] + bid[x].amount \in Int
  BY <1>1 DEF LedgerOK
<1>5. minting' \in [Bidders -> Int] /\ finished' \in [Bidders -> Int]
  BY <1>4, SumUpdated DEF FinishBid, LedgerOK
<1>6. \A y \in Rows : bid'[y].bidder = bid[y].bidder
  BY <1>1 DEF FinishBid, LedgerOK, BidType
<1> QED BY <1>3, <1>5, <1>6 DEF LedgerOK

LEMMA FailBidType ==
  ASSUME LedgerOK, NEW x \in Rows, FailBid(x)
  PROVE  LedgerOK' /\ \A y \in Rows : bid'[y].bidder = bid[y].bidder
<1> DEFINE b == bid[x].bidder
<1>1. bid[x] \in BidType /\ bid[x].amount \in Int
  BY DEF LedgerOK, BidType
<1>2. [bid[x] EXCEPT !.status = "error"] \in BidType
  BY <1>1 DEF BidType
<1>3. bid' \in [Rows -> BidType]
  BY <1>2 DEF FailBid, LedgerOK
<1>4. b \in Bidders => minting[b] - bid[x].amount \in Int
  BY <1>1 DEF LedgerOK
<1>5. minting' \in [Bidders -> Int]
  BY <1>4, SumUpdated DEF FailBid, LedgerOK
<1>6. \A y \in Rows : bid'[y].bidder = bid[y].bidder
  BY <1>1 DEF FailBid, LedgerOK, BidType
<1> QED BY <1>3, <1>5, <1>6 DEF FailBid, LedgerOK

\* Marking the open transactions changes nothing else of any request.
LEMMA MissingKeeps ==
  ASSUME NEW rows \in SUBSET {"ask", "auction"}, req \in [Requests -> RequestType]
  PROVE  /\ Missing(rows) \in [Requests -> RequestType]
         /\ \A q \in Requests :
              /\ Missing(rows)[q].pc = req[q].pc /\ Missing(rows)[q].kind = req[q].kind
              /\ Missing(rows)[q].bidder = req[q].bidder
              /\ Missing(rows)[q].amount = req[q].amount
              /\ Missing(rows)[q].price = req[q].price
              /\ Missing(rows)[q].missed =
                   IF InTransaction(q) THEN req[q].missed \cup rows ELSE req[q].missed
  BY DEF Missing, RequestType

LEMMA MoveOnKeeps ==
  ASSUME NEW rows \in SUBSET {"ask", "auction"}, req \in [Requests -> RequestType],
         NEW r \in Requests, NEW s \in RequestType, MoveOn(r, s, rows)
  PROVE  /\ req' \in [Requests -> RequestType]
         /\ req'[r] = s
         /\ \A q \in Requests \ {r} : req'[q] = Missing(rows)[q]
  BY MissingKeeps DEF MoveOn

LEMMA RestingTypes == IdleRequest \in RequestType /\ DoneRequest \in RequestType
                      /\ IdleCloser \in CloserType /\ DoneRequest.pc = "done"
  BY DEF IdleRequest, DoneRequest, IdleCloser, RequestType, CloserType

\* A request that leaves its transaction leaves the requests typed and known.
LEMMA MoveOnType ==
  ASSUME NEW rows \in SUBSET {"ask", "auction"}, req \in [Requests -> RequestType],
         NEW r \in Requests, NEW s \in RequestType, s.pc # "open", MoveOn(r, s, rows),
         AskersKnown
  PROVE  req' \in [Requests -> RequestType] /\ AskersKnown'
<1>1. /\ req' \in [Requests -> RequestType] /\ req'[r] = s
      /\ \A q \in Requests \ {r} : req'[q] = Missing(rows)[q]
  BY MoveOnKeeps
<1>2. \A q \in Requests : /\ Missing(rows)[q].pc = req[q].pc /\ Missing(rows)[q].kind = req[q].kind
                          /\ Missing(rows)[q].bidder = req[q].bidder
  BY MissingKeeps
<1>3. ASSUME NEW q \in Requests, req'[q].pc = "open", req'[q].kind \in {"place", "withdraw"}
      PROVE  req'[q].bidder \in Bidders
  <2>1. q # r
    BY <1>1, <1>3
  <2> QED BY <1>1, <1>2, <1>3, <2>1 DEF AskersKnown
<1> QED BY <1>1, <1>3 DEF AskersKnown

LEMMA TypeInit == Init => TypeInv
<1> SUFFICES ASSUME Init PROVE TypeInv
  OBVIOUS
<1> USE DEF Init
<1>1. ask \in AskType /\ trades \subseteq [buyer : Bidders, price : Int] /\ paidOut \in Int
  BY ConstantsAssumption DEF AskType
<1>2. LedgerOK /\ held \in [Bidders -> Int]
  BY DEF LedgerOK, BidType
<1>3. req \in [Requests -> RequestType] /\ closer \in CloserType
  BY RestingTypes
<1>4. WinnerKnown /\ AskersKnown /\ BiddersKnown
  BY DEF IdleCloser, IdleRequest, WinnerKnown, AskersKnown, BiddersKnown, Live
<1> QED BY <1>1, <1>2, <1>3, <1>4 DEF TypeInv, TypeOK, LedgerOK

\* The steps of the API process keep TypeInv.
LEMMA TypeRequests ==
  ASSUME TypeInv, NEW r \in Requests,
         \/ \E b \in Bidders, a \in Offers : PlaceBegin(r, b, a)
         \/ \E b \in Bidders : WithdrawBegin(r, b)
         \/ CancelBegin(r)
         \/ Handle(r)
  PROVE  TypeInv'
<1> USE DEF TypeInv
<1> req \in [Requests -> RequestType] /\ req[r] \in RequestType
  BY DEF TypeOK
<1> LedgerOK /\ r \in Rows
  BY DEF LedgerOK, TypeOK, Rows
<1>1. ASSUME NEW b \in Bidders, NEW a \in Offers, PlaceBegin(r, b, a)
      PROVE  TypeInv'
  <2>1. PendingSum[b] + a \in Int /\ a \in Int
    BY ConstantsAssumption DEF LedgerOK, PendingSum
  <2>2. req' \in [Requests -> RequestType] /\ AskersKnown'
    BY <1>1, <2>1 DEF PlaceBegin, RequestType, AskersKnown
  <2> QED BY <1>1, <2>2 DEF PlaceBegin, TypeOK, WinnerKnown, BiddersKnown, db, ledger, chain, escrow
<1>2. ASSUME NEW b \in Bidders, WithdrawBegin(r, b)
      PROVE  TypeInv'
  <2>1. -finished[b] \in Int
    BY DEF LedgerOK
  <2>2. req' \in [Requests -> RequestType] /\ AskersKnown'
    BY <1>2, <2>1 DEF WithdrawBegin, RequestType, AskersKnown
  <2> QED BY <1>2, <2>2 DEF WithdrawBegin, TypeOK, WinnerKnown, BiddersKnown, db, ledger, chain, escrow
<1>3. CASE CancelBegin(r)
  <2>1. req' \in [Requests -> RequestType] /\ AskersKnown'
    BY <1>3 DEF CancelBegin, RequestType, AskersKnown
  <2> QED BY <1>3, <2>1 DEF CancelBegin, TypeOK, WinnerKnown, BiddersKnown, db, ledger, chain, escrow
<1>4. CASE PlaceCommit(r)
  <2> DEFINE s == [req[r] EXCEPT !.pc = "sent", !.missed = {}]
  <2>2. s \in RequestType /\ s.pc = "sent"
    BY DEF RequestType
  <2>7. req' \in [Requests -> RequestType] /\ AskersKnown'
    BY <1>4, <2>2, MoveOnType DEF PlaceCommit
  <2>3. req[r].bidder \in Bidders /\ req[r].amount \in Int /\ req[r].price \in Int
    BY <1>4 DEF PlaceCommit, AskersKnown, RequestType
  <2>4. LedgerOK' /\ bid'[r].bidder \in Bidders
    BY <1>4, <2>3, InsertBidType DEF PlaceCommit
  <2>5. BiddersKnown'
    BY <1>4, <2>4 DEF PlaceCommit, InsertBid, LedgerOK, BiddersKnown, TypeOK
  <2>6. ask' \in AskType
    BY <1>4, <2>3 DEF PlaceCommit, AskType, TypeOK
  <2> QED BY <1>4, <2>7, <2>4, <2>5, <2>6 DEF PlaceCommit, TypeOK, LedgerOK, WinnerKnown, escrow
<1>5. CASE Succeed(r)
  <2>1. req' \in [Requests -> RequestType] /\ AskersKnown'
    BY <1>5, RestingTypes DEF Succeed, AskersKnown, DoneRequest, IdleRequest
  <2>2. LedgerOK' /\ \A y \in Rows : bid'[y].bidder = bid[y].bidder
    BY <1>5, FinishBidType DEF Succeed
  <2>3. BiddersKnown'
    BY <1>5, <2>2 DEF Succeed, FinishBid, LedgerOK, BiddersKnown, chain
  <2> QED BY <1>5, <2>1, <2>2, <2>3 DEF Succeed, TypeOK, LedgerOK, WinnerKnown, chain, escrow
<1>6. CASE PlaceFailBegin(r)
  <2> DEFINE others  == {bid[x].bidder : x \in {y \in Rows \ {r} : bid[y].status \in Live}}
             pending == [PendingSum EXCEPT ![bid[r].bidder] = @ - bid[r].amount]
             prices  == IF others = {} THEN {StartPrice}
                        ELSE {pending[w] : w \in Leaders(others, pending)}
  <2>1. PICK price \in prices : req' = [req EXCEPT ![r].pc = "failing", ![r].price = price]
    BY <1>6 DEF PlaceFailBegin
  <2>2. others \subseteq Bidders
    BY DEF BiddersKnown
  <2>3. PendingSum \in [Bidders -> Int] /\ bid[r].amount \in Int
    BY DEF LedgerOK, PendingSum, BidType
  <2>4. pending \in [Bidders -> Int]
    BY <2>3, SumUpdated
  <2>5. price \in Int
    <3>1. StartPrice \in Int
      BY ConstantsAssumption
    <3>2. \A w \in Leaders(others, pending) : w \in Bidders
      BY <2>2 DEF Leaders
    <3> HIDE DEF others, pending
    <3>3. \A w \in Leaders(others, pending) : pending[w] \in Int
      BY <2>4, <3>2
    <3> QED BY <2>1, <3>1, <3>3
  <2>6. req' \in [Requests -> RequestType] /\ AskersKnown'
    BY <2>1, <2>5 DEF RequestType, AskersKnown
  <2> QED BY <1>6, <2>6 DEF PlaceFailBegin, TypeOK, WinnerKnown, BiddersKnown, db, ledger, chain, escrow
<1>7. CASE PlaceFailCommit(r)
  <2>1. req' \in [Requests -> RequestType] /\ AskersKnown'
    BY <1>7, MoveOnType, RestingTypes DEF PlaceFailCommit
  <2>2. LedgerOK' /\ \A y \in Rows : bid'[y].bidder = bid[y].bidder
    BY <1>7, FailBidType DEF PlaceFailCommit
  <2>3. BiddersKnown'
    BY <1>7, <2>2 DEF PlaceFailCommit, FailBid, LedgerOK, BiddersKnown, Live, chain
  <2>4. ask' \in AskType
    BY <1>7 DEF PlaceFailCommit, AskType, RequestType, TypeOK
  <2> QED BY <1>7, <2>1, <2>2, <2>3, <2>4 DEF PlaceFailCommit, TypeOK, LedgerOK, WinnerKnown, chain, escrow
<1>8. CASE WithdrawCommit(r)
  <2>1. req' \in [Requests -> RequestType] /\ AskersKnown'
    BY <1>8, RestingTypes DEF WithdrawCommit, AskersKnown, RequestType, DoneRequest, IdleRequest
  <2>2. req[r].bidder \in Bidders /\ req[r].amount \in Int
    BY <1>8 DEF WithdrawCommit, AskersKnown, RequestType
  <2>3. LedgerOK' /\ bid'[r].bidder \in Bidders
    BY <1>8, <2>2, InsertBidType DEF WithdrawCommit
  <2>4. BiddersKnown'
    BY <1>8, <2>3 DEF WithdrawCommit, InsertBid, LedgerOK, BiddersKnown, TypeOK
  <2>5. xt' \in [Rows -> {"none", "pool", "executed", "dropped"}]
    BY <1>8 DEF WithdrawCommit, TypeOK
  <2> QED BY <1>8, <2>1, <2>3, <2>4, <2>5 DEF WithdrawCommit, TypeOK, LedgerOK, WinnerKnown, escrow
<1>9. CASE WithdrawFail(r)
  <2>1. req' \in [Requests -> RequestType] /\ AskersKnown'
    BY <1>9, RestingTypes DEF WithdrawFail, AskersKnown, DoneRequest, IdleRequest
  <2>2. LedgerOK' /\ \A y \in Rows : bid'[y].bidder = bid[y].bidder
    BY <1>9, FailBidType DEF WithdrawFail
  <2>3. BiddersKnown'
    BY <1>9, <2>2 DEF WithdrawFail, FailBid, LedgerOK, BiddersKnown, Live, chain
  <2> QED BY <1>9, <2>1, <2>2, <2>3 DEF WithdrawFail, TypeOK, LedgerOK, WinnerKnown, chain, escrow
<1>10. CASE CancelCommit(r)
  <2> DEFINE s == [req[r] EXCEPT !.pc = "returning", !.missed = {}]
  <2>1. s \in RequestType /\ s.pc = "returning"
    BY DEF RequestType
  <2>2. req' \in [Requests -> RequestType] /\ AskersKnown'
    BY <1>10, <2>1, MoveOnType DEF CancelCommit
  <2>3. ask' \in AskType
    BY <1>10 DEF CancelCommit, AskType, TypeOK
  <2> QED BY <1>10, <2>2, <2>3 DEF CancelCommit, TypeOK, WinnerKnown, BiddersKnown, ledger, chain, escrow
<1>11. CASE CancelReturn(r)
  <2>1. req' \in [Requests -> RequestType] /\ AskersKnown'
    <3>1. PICK rows \in SUBSET {"ask", "auction"} : MoveOn(r, DoneRequest, rows)
      BY <1>11 DEF CancelReturn
    <3> QED BY <3>1, MoveOnType, RestingTypes
  <2>2. token' \in Bidders \cup {Market, Seller}
    BY <1>11 DEF CancelReturn, TokenMoves, TokenStays, TypeOK
  <2> QED BY <1>11, <2>1, <2>2 DEF CancelReturn, TypeOK, WinnerKnown, BiddersKnown, db, ledger, escrow
<1>12. CASE Abort(r)
  <2>1. req' \in [Requests -> RequestType] /\ AskersKnown'
    BY <1>12, RestingTypes DEF Abort, AskersKnown, DoneRequest, IdleRequest
  <2> QED BY <1>12, <2>1 DEF Abort, TypeOK, WinnerKnown, BiddersKnown, db, ledger, chain, escrow
<1> QED BY <1>1, <1>2, <1>3, <1>4, <1>5, <1>6, <1>7, <1>8, <1>9, <1>10, <1>11, <1>12 DEF Handle

\* The steps of the escrow process keep TypeInv.
LEMMA TypeEscrow == ASSUME TypeInv, StopFind \/ StopWrite \/ Close PROVE TypeInv'
<1> USE DEF TypeInv
<1> req \in [Requests -> RequestType] /\ closer \in CloserType /\ ask \in AskType
  BY DEF TypeOK
<1> LedgerOK
  BY DEF LedgerOK, TypeOK
<1>a. ASSUME NEW rows \in SUBSET {"ask", "auction"}, req' = Missing(rows)
      PROVE  req' \in [Requests -> RequestType] /\ AskersKnown'
  BY <1>a, MissingKeeps DEF AskersKnown
<1>1. CASE StopFind
  BY <1>1 DEF StopFind, TypeOK, WinnerKnown, AskersKnown, BiddersKnown, db, ledger, chain
<1>2. CASE StopWrite
  BY <1>2, <1>a DEF StopWrite, TypeOK, WinnerKnown, BiddersKnown, ledger, chain
<1>3. CASE ClosePick
  BY <1>3 DEF ClosePick, TypeOK, CloserType, WinnerKnown, AskersKnown, BiddersKnown, db, ledger, chain
<1>4. CASE CloseMark
  <2>1. closer' \in CloserType /\ WinnerKnown'
    BY <1>4 DEF CloseMark, CloserType, WinnerKnown
  <2> QED BY <1>4, <1>a, <2>1 DEF CloseMark, TypeOK, BiddersKnown, ledger, chain
<1>5. CASE CloseUnsold
  <2>1. closer' \in CloserType /\ WinnerKnown'
    BY <1>5 DEF CloseUnsold, CloserType, WinnerKnown
  <2>2. ask' \in AskType
    BY <1>5 DEF CloseUnsold, CancelAsk, AskType
  <2> QED BY <1>5, <1>a, <2>1, <2>2 DEF CloseUnsold, CancelAsk, TypeOK, BiddersKnown, ledger, chain
<1>6. ASSUME NEW w \in Bidders, CloseWithWinner(w) PROVE TypeInv'
  <2>1. Bidding({"finished"}) \subseteq Bidders
    BY DEF Bidding, BiddersKnown, Live
  <2>2. closer' \in CloserType /\ WinnerKnown'
    BY <1>6, <2>1 DEF CloseWithWinner, CloserType, WinnerKnown, AskType, LedgerOK
  <2>3. ask' \in AskType
    BY <1>6 DEF CloseWithWinner, CancelAsk, AskType
  <2>4. req' \in [Requests -> RequestType] /\ AskersKnown'
    BY <1>6, <1>a DEF CloseWithWinner, CancelAsk, AskersKnown
  <2> QED BY <1>6, <2>2, <2>3, <2>4 DEF CloseWithWinner, CancelAsk, TypeOK, BiddersKnown, ledger, chain
<1>7. ASSUME NEW b \in Bidders, Refund(b) PROVE TypeInv'
  <2>1. b \in Rows /\ -closer.owed[b] \in Int
    BY DEF Rows, CloserType
  <2>2. LedgerOK' /\ bid'[b].bidder \in Bidders
    BY <1>7, <2>1, InsertBidType DEF Refund
  <2>3. BiddersKnown'
    BY <1>7, <2>1, <2>2 DEF Refund, InsertBid, LedgerOK, BiddersKnown, TypeOK
  <2>4. closer' \in CloserType /\ WinnerKnown'
    BY <1>7 DEF Refund, CloserType, WinnerKnown
  <2>5. xt' \in [Rows -> {"none", "pool", "executed", "dropped"}]
    BY <1>7 DEF Refund, TypeOK
  <2> QED BY <1>7, <2>2, <2>3, <2>4, <2>5 DEF Refund, TypeOK, LedgerOK, AskersKnown
<1>8. ASSUME NEW b \in Bidders, NothingToRefund(b) PROVE TypeInv'
  BY <1>8 DEF NothingToRefund, TypeOK, CloserType, WinnerKnown, AskersKnown, BiddersKnown, db, ledger, chain
<1>9. CASE RefundEnd
  <2> DEFINE b == closer.current
  <2>1. b \in Rows
    BY <1>9 DEF RefundEnd, WinnerKnown, Rows
  <2>2. LedgerOK' /\ \A y \in Rows : bid'[y].bidder = bid[y].bidder
    BY <1>9, <2>1, FinishBidType, FailBidType DEF RefundEnd
  <2>3. BiddersKnown'
    <3>1. CASE FinishBid(b) /\ xt[b] = "executed"
      BY <1>9, <2>1, <2>2, <3>1 DEF RefundEnd, FinishBid, LedgerOK, BiddersKnown, chain
    <3>2. CASE FailBid(b)
      BY <1>9, <2>1, <2>2, <3>2 DEF RefundEnd, FailBid, LedgerOK, BiddersKnown, Live, chain
    <3> QED BY <1>9, <3>1, <3>2 DEF RefundEnd
  <2>4. closer' \in CloserType /\ WinnerKnown'
    BY <1>9 DEF RefundEnd, CloserType, WinnerKnown
  <2> QED BY <1>9, <2>2, <2>3, <2>4 DEF RefundEnd, TypeOK, LedgerOK, AskersKnown, chain
<1>10. CASE SendToken
  <2>1. closer' \in CloserType /\ WinnerKnown'
    BY <1>10 DEF SendToken, CloserType, WinnerKnown
  <2>2. token' \in Bidders \cup {Market, Seller}
    BY <1>10 DEF SendToken, TokenMoves, TokenStays, TypeOK, WinnerKnown
  <2>3. req' \in [Requests -> RequestType] /\ AskersKnown'
    BY <1>10, <1>a DEF SendToken, AskersKnown
  <2> QED BY <1>10, <2>1, <2>2, <2>3 DEF SendToken, TypeOK, BiddersKnown, db, ledger
<1>11. CASE PaySeller
  <2>1. closer' \in CloserType /\ WinnerKnown'
    BY <1>11, RestingTypes DEF PaySeller, CloserType, WinnerKnown, IdleCloser
  <2>2. closer.owed[closer.winner] \in Int
    BY <1>11 DEF PaySeller, CloserType, WinnerKnown
  <2>3. paidOut' \in Int
    BY <1>11, <2>2, ConstantsAssumption DEF PaySeller, OwnerPrice, MarketFee, TypeOK
  <2> QED BY <1>11, <2>1, <2>3 DEF PaySeller, TypeOK, BiddersKnown, AskersKnown, db, ledger
<1>12. CASE PayFails
  BY <1>12, RestingTypes
     DEF PayFails, TypeOK, WinnerKnown, IdleCloser, AskersKnown, BiddersKnown, db, ledger, chain
<1>13. CASE RecordSale
  <2>1. closer' \in CloserType /\ WinnerKnown'
    BY <1>13, RestingTypes DEF RecordSale, WinnerKnown, IdleCloser
  <2>2. closer.winner \in Bidders
    BY <1>13 DEF RecordSale, WinnerKnown
  <2>3. TradePrice(closer.price) \in Int
    BY ConstantsAssumption DEF TradePrice, CloserType
  <2>4. trades' \subseteq [buyer : Bidders, price : Int]
    BY <1>13, <2>2, <2>3 DEF RecordSale, TypeOK
  <2> QED BY <1>13, <2>1, <2>4 DEF RecordSale, TypeOK, BiddersKnown, AskersKnown, ledger, chain
<1>18. CASE EndAtOnce \/ EndSale
  <2>1. closer' \in CloserType /\ WinnerKnown'
    BY <1>18 DEF EndAtOnce, EndSale, CloserType, WinnerKnown
  <2> QED BY <1>18, <1>a, <2>1 DEF EndAtOnce, EndSale, TypeOK, BiddersKnown, ledger, chain
<1>19. CASE BuyAsk
  <2>1. closer' \in CloserType /\ WinnerKnown'
    BY <1>19 DEF BuyAsk, CloserType, WinnerKnown
  <2>2. ask' \in AskType
    BY <1>19 DEF BuyAsk, AskType, WinnerKnown
  <2> QED BY <1>19, <1>a, <2>1, <2>2 DEF BuyAsk, TypeOK, BiddersKnown, ledger, chain
<1>14. CASE ReturnUnsold
  <2>1. closer' \in CloserType /\ WinnerKnown'
    BY <1>14, RestingTypes DEF ReturnUnsold, WinnerKnown, IdleCloser
  <2>2. ask' \in AskType /\ token' \in Bidders \cup {Market, Seller}
    BY <1>14 DEF ReturnUnsold, TokenMoves, TokenStays, AskType, TypeOK
  <2> QED BY <1>14, <1>a, <2>1, <2>2 DEF ReturnUnsold, TypeOK, BiddersKnown, ledger
<1> QED BY <1>1, <1>2, <1>3, <1>4, <1>5, <1>6, <1>7, <1>8, <1>9, <1>10, <1>11, <1>12, <1>13, <1>14,
           <1>18, <1>19 DEF Close

\* The chains and the crashes keep TypeInv.
LEMMA TypeEnvironment ==
  ASSUME TypeInv, (\E x \in Rows : Execute(x) \/ Drop(x)) \/ ApiCrash \/ CloserCrash
  PROVE  TypeInv'
<1> USE DEF TypeInv
<1>1. ASSUME NEW x \in Rows, Execute(x) PROVE TypeInv'
  <2>1. bid[x].amount \in Int
    BY DEF TypeOK, BidType
  <2>2. bid[x].bidder \in Bidders => held[bid[x].bidder] + bid[x].amount \in Int
    BY <2>1 DEF TypeOK
  <2>3. held' \in [Bidders -> Int]
    BY <1>1, <2>2, SumUpdated DEF Execute, TypeOK
  <2>4. xt' \in [Rows -> {"none", "pool", "executed", "dropped"}] /\ BiddersKnown'
    BY <1>1 DEF Execute, TypeOK, BiddersKnown, db, ledger
  <2> QED BY <1>1, <2>3, <2>4 DEF Execute, TypeOK, WinnerKnown, AskersKnown, db, ledger, escrow
<1>2. ASSUME NEW x \in Rows, Drop(x) PROVE TypeInv'
  <2>1. xt' \in [Rows -> {"none", "pool", "executed", "dropped"}] /\ BiddersKnown'
    BY <1>2 DEF Drop, TypeOK, BiddersKnown, db, ledger
  <2> QED BY <1>2, <2>1 DEF Drop, TypeOK, WinnerKnown, AskersKnown, db, ledger, escrow
<1>3. CASE ApiCrash
  <2>1. req' \in [Requests -> RequestType] /\ AskersKnown'
    BY <1>3, RestingTypes DEF ApiCrash, TypeOK, AskersKnown
  <2> QED BY <1>3, <2>1 DEF ApiCrash, TypeOK, WinnerKnown, BiddersKnown, db, ledger, chain, escrow
<1>4. CASE CloserCrash
  <2>1. closer' \in CloserType /\ WinnerKnown'
    BY <1>4, RestingTypes DEF CloserCrash, WinnerKnown, IdleCloser
  <2> QED BY <1>4, <2>1 DEF CloserCrash, TypeOK, AskersKnown, BiddersKnown, db, ledger, chain
<1> QED BY <1>1, <1>2, <1>3, <1>4

LEMMA TypeStep == TypeInv /\ [Next]_vars => TypeInv'
<1> SUFFICES ASSUME TypeInv, [Next]_vars PROVE TypeInv'
  OBVIOUS
<1>1. CASE Next
  BY <1>1, TypeRequests, TypeEscrow, TypeEnvironment DEF Next
<1>2. CASE UNCHANGED vars
  BY <1>2 DEF vars, db, chain, escrow, TypeInv, TypeOK, WinnerKnown, AskersKnown, BiddersKnown
<1> QED BY <1>1, <1>2

(* Type correctness: every variable keeps its type, a sale is recorded for *)
(* a bidder, and whoever is sent the token is an account.                  *)
THEOREM TypeCorrect == Spec => []TypeInv
<1> QED BY TypeInit, TypeStep, PTL DEF Spec

THEOREM TypesHold == Spec => []TypeOK
<1>1. TypeInv => TypeOK
  BY DEF TypeInv
<1> QED BY <1>1, TypeCorrect, PTL

-----------------------------------------------------------------------------
(* The seller is paid at most once.  Nothing in the code guards the payment *)
(* itself; what guards it is the order in which the statuses are written.   *)

ClosingStates == {"picked", "marked", "unsold", "alone", "refunding", "awaiting", "paying", "returning"}

OnceInv ==
  \* Once closing has begun, the stopping handler holds no stale auction to stop again.
  /\ (closer.pc # "idle" \/ paidOut # 0 \/ auction \in {"stopped", "withdrawing"}) =>
       ~stopper /\ auction # "active"
  \* Once the auction is marked it cannot be picked a second time.
  /\ (closer.pc \notin {"idle", "picked"} \/ paidOut # 0) => auction # "stopped"
  \* Closing begins, and goes on until it pays, with nothing paid.
  /\ closer.pc \in ClosingStates => paidOut = 0
  /\ closer.pc = "returning" => auction = "ended"

LEMMA OnceInit == Init => OnceInv
  BY DEF Init, OnceInv, ClosingStates, IdleCloser

LEMMA OnceStep == TypeInv /\ OnceInv /\ [Next]_vars => OnceInv'
<1> SUFFICES ASSUME TypeInv, OnceInv, [Next]_vars PROVE OnceInv'
  OBVIOUS
<1> closer \in CloserType /\ IdleCloser.pc = "idle"
  BY DEF TypeInv, TypeOK, IdleCloser
<1> USE DEF OnceInv, ClosingStates
<1>1. CASE UNCHANGED <<auction, paidOut, stopper, closer>>
  BY <1>1
<1>2. ASSUME NEW r \in Requests, CancelCommit(r) PROVE OnceInv'
  BY <1>2 DEF CancelCommit, chain, escrow
<1>3. CASE StopFind
  BY <1>3 DEF StopFind, db, chain
<1>4. CASE StopWrite
  BY <1>4 DEF StopWrite, chain
<1>5. CASE ClosePick
  BY <1>5 DEF ClosePick, CloserType, db, chain
<1>6. CASE CloseMark
  BY <1>6 DEF CloseMark, CloserType, chain
<1>7. CASE CloseUnsold
  BY <1>7 DEF CloseUnsold, CloserType, chain
<1>8. ASSUME NEW w \in Bidders, CloseWithWinner(w) PROVE OnceInv'
  <2>1. closer.pc = "marked" /\ closer'.pc \in {"alone", "refunding"}
    BY <1>8 DEF CloseWithWinner, CloserType
  <2>2. UNCHANGED <<auction, paidOut, stopper>>
    BY <1>8 DEF CloseWithWinner, chain
  <2> QED BY <2>1, <2>2
<1>9. ASSUME NEW b \in Bidders, Refund(b) \/ NothingToRefund(b) PROVE OnceInv'
  <2>1. closer.pc = "refunding" /\ closer'.pc \in {"refunding", "awaiting"}
    BY <1>9 DEF Refund, NothingToRefund, CloserType
  <2>2. UNCHANGED <<auction, paidOut, stopper>>
    BY <1>9 DEF Refund, NothingToRefund, db, chain
  <2> QED BY <2>1, <2>2
<1>10. CASE RefundEnd
  BY <1>10 DEF RefundEnd, CloserType, chain
<1>11. CASE SendToken
  BY <1>11 DEF SendToken, CloserType, db
<1>12. CASE PaySeller
  BY <1>12 DEF PaySeller, CloserType, db
<1>13. CASE PayFails \/ CloserCrash
  BY <1>13 DEF PayFails, CloserCrash, db, chain
<1>14. CASE EndAtOnce \/ BuyAsk \/ EndSale \/ RecordSale
  BY <1>14 DEF EndAtOnce, BuyAsk, EndSale, RecordSale, CloserType, chain
<1>15. CASE ReturnUnsold
  BY <1>15 DEF ReturnUnsold
<1>16. ASSUME NEW r \in Requests,
              \/ \E b \in Bidders, a \in Offers : PlaceBegin(r, b, a)
              \/ \E b \in Bidders : WithdrawBegin(r, b)
              \/ CancelBegin(r)
              \/ Handle(r) /\ ~ CancelCommit(r)
       PROVE  UNCHANGED <<auction, paidOut, stopper, closer>>
  BY <1>16 DEF PlaceBegin, WithdrawBegin, CancelBegin, Handle, PlaceCommit, Succeed,
       PlaceFailBegin, PlaceFailCommit, WithdrawCommit, WithdrawFail, CancelReturn, Abort,
       db, chain, escrow
<1>17. ASSUME NEW x \in Rows, Execute(x) \/ Drop(x)
       PROVE  UNCHANGED <<auction, paidOut, stopper, closer>>
  BY <1>17 DEF Execute, Drop, db, escrow
<1>18. CASE ApiCrash
  BY <1>18 DEF ApiCrash, db, chain, escrow
<1>19. CASE UNCHANGED vars
  BY <1>19 DEF vars, db, chain, escrow
<1> QED BY <1>1, <1>2, <1>3, <1>4, <1>5, <1>6, <1>7, <1>8, <1>9, <1>10, <1>11, <1>12, <1>13,
           <1>14, <1>15, <1>16, <1>17, <1>18, <1>19 DEF Next, Close

(* One auction pays its seller at most once.                               *)
THEOREM PaidOnce == Spec => SellerPaidOnce
<1>1. TypeInv /\ OnceInv /\ [Next]_vars => [paidOut' # paidOut => paidOut = 0]_vars
  <2> SUFFICES ASSUME OnceInv, Next, paidOut' # paidOut PROVE paidOut = 0
    BY DEF vars, chain
  <2>1. closer.pc = "paying"
    BY DEF Next, Handle, Close, PlaceBegin, PlaceCommit, Succeed, PlaceFailBegin, PlaceFailCommit,
       WithdrawBegin, WithdrawCommit, WithdrawFail, CancelBegin, CancelCommit, CancelReturn, Abort,
       StopFind, StopWrite, ClosePick, CloseMark, CloseUnsold, CloseWithWinner, Refund,
       NothingToRefund, RefundEnd, SendToken, PaySeller, PayFails, EndAtOnce, CancelAsk, BuyAsk, EndSale, RecordSale, ReturnUnsold,
       Execute, Drop, ApiCrash, CloserCrash, chain
  <2> QED BY <2>1 DEF OnceInv, ClosingStates
<1> QED BY <1>1, TypeInit, TypeStep, OnceInit, OnceStep, PTL DEF Spec, SellerPaidOnce

-----------------------------------------------------------------------------
(* What a step may do to the rows of bids and their extrinsics.            *)

RowsStay     == UNCHANGED <<bid, xt>>
RowInserted  == \E x \in Rows, b \in Bidders, a \in Int :
                  InsertBid(x, b, a) /\ xt' \in {xt, [xt EXCEPT ![x] = "pool"]}
RowFinished  == \E x \in Rows : FinishBid(x) /\ xt[x] = "executed" /\ xt' = xt
RowFailed    == \E x \in Rows : FailBid(x) /\ xt' = xt
RowsIncluded == \E x \in Rows : /\ bid' = bid /\ xt[x] = "pool"
                                /\ xt' \in {[xt EXCEPT ![x] = "executed"], [xt EXCEPT ![x] = "dropped"]}

LEMMA RowSteps ==
  ASSUME TypeInv, [Next]_vars
  PROVE  RowsStay \/ RowInserted \/ RowFinished \/ RowFailed \/ RowsIncluded
<1> USE DEF RowsStay, RowInserted, RowFinished, RowFailed, RowsIncluded
<1>1. ASSUME NEW r \in Requests,
             \/ \E b \in Bidders, a \in Offers : PlaceBegin(r, b, a)
             \/ \E b \in Bidders : WithdrawBegin(r, b)
             \/ CancelBegin(r) \/ PlaceFailBegin(r) \/ CancelCommit(r) \/ CancelReturn(r) \/ Abort(r)
      PROVE  RowsStay
  BY <1>1 DEF PlaceBegin, WithdrawBegin, CancelBegin, PlaceFailBegin, CancelCommit, CancelReturn,
              Abort, db, ledger, chain
<1>2. ASSUME NEW r \in Requests, PlaceCommit(r) \/ WithdrawCommit(r)
      PROVE  RowInserted
  <2>1. r \in Rows /\ req[r].bidder \in Bidders /\ req[r].amount \in Int
    BY <1>2 DEF PlaceCommit, WithdrawCommit, TypeInv, TypeOK, AskersKnown, RequestType, Rows
  <2> QED BY <1>2, <2>1 DEF PlaceCommit, WithdrawCommit
<1>3. ASSUME NEW r \in Requests, Succeed(r) PROVE RowFinished
  BY <1>3 DEF Succeed, Rows, chain
<1>4. ASSUME NEW r \in Requests, PlaceFailCommit(r) \/ WithdrawFail(r) PROVE RowFailed
  BY <1>4 DEF PlaceFailCommit, WithdrawFail, Rows, chain
<1>5. CASE \/ StopFind \/ StopWrite \/ ClosePick \/ CloseMark \/ CloseUnsold \/ SendToken
           \/ PaySeller \/ PayFails \/ EndAtOnce \/ BuyAsk \/ EndSale \/ RecordSale \/ ReturnUnsold \/ ApiCrash \/ CloserCrash
  BY <1>5 DEF StopFind, StopWrite, ClosePick, CloseMark, CloseUnsold, SendToken, PaySeller,
              PayFails, EndAtOnce, CancelAsk, BuyAsk, EndSale, RecordSale, ReturnUnsold, ApiCrash, CloserCrash, db, ledger, chain
<1>6. ASSUME NEW b \in Bidders, CloseWithWinner(b) \/ NothingToRefund(b) PROVE RowsStay
  BY <1>6 DEF CloseWithWinner, NothingToRefund, db, ledger, chain
<1>7. ASSUME NEW b \in Bidders, Refund(b) PROVE RowInserted
  <2>1. b \in Rows /\ -closer.owed[b] \in Int
    BY DEF Rows, TypeInv, TypeOK, CloserType
  <2> QED BY <1>7, <2>1 DEF Refund
<1>8. CASE RefundEnd
  <2>1. closer.current \in Rows
    BY <1>8 DEF RefundEnd, TypeInv, WinnerKnown, Rows
  <2> QED BY <1>8, <2>1 DEF RefundEnd, chain
<1>9. ASSUME NEW x \in Rows, Execute(x) \/ Drop(x) PROVE RowsIncluded
  BY <1>9 DEF Execute, Drop, db, ledger
<1>10. CASE UNCHANGED vars
  BY <1>10 DEF vars, db, ledger, chain
<1> QED BY <1>1, <1>2, <1>3, <1>4, <1>5, <1>6, <1>7, <1>8, <1>9, <1>10 DEF Next, Handle, Close

(* A bid that counts as money received was paid on the chain.              *)
THEOREM FinishedBidsArePaid == Spec => []FinishedIsPaid
<1>1. Init => FinishedIsPaid
  BY DEF Init, FinishedIsPaid
<1>2. TypeInv /\ FinishedIsPaid /\ [Next]_vars => FinishedIsPaid'
  <2> SUFFICES ASSUME TypeInv, FinishedIsPaid, [Next]_vars PROVE FinishedIsPaid'
    OBVIOUS
  <2> bid \in [Rows -> BidType] /\ xt \in [Rows -> {"none", "pool", "executed", "dropped"}]
    BY DEF TypeInv, TypeOK
  <2>1. CASE RowsStay
    BY <2>1 DEF RowsStay, FinishedIsPaid
  <2>2. CASE RowInserted
    BY <2>2 DEF RowInserted, InsertBid, FinishedIsPaid
  <2>3. CASE RowFinished
    BY <2>3 DEF RowFinished, FinishBid, FinishedIsPaid, BidType
  <2>4. CASE RowFailed
    BY <2>4 DEF RowFailed, FailBid, FinishedIsPaid, BidType
  <2>5. CASE RowsIncluded
    BY <2>5 DEF RowsIncluded, FinishedIsPaid
  <2> QED BY <2>1, <2>2, <2>3, <2>4, <2>5, RowSteps
<1> QED BY <1>1, <1>2, TypeInit, TypeStep, PTL DEF Spec

-----------------------------------------------------------------------------
(* No lost update of the price.                                            *)

(* A bid's transaction that has missed no update of the ask was computed   *)
(* from the ask's present price, which it covers.                          *)
SnapshotInv ==
  \A q \in Requests :
    req[q].pc = "open" /\ req[q].kind = "place" /\ "ask" \notin req[q].missed =>
      req[q].price >= ask.price

LEMMA SnapshotStep == TypeInv /\ SnapshotInv /\ [Next]_vars => SnapshotInv'
<1> SUFFICES ASSUME TypeInv, SnapshotInv, [Next]_vars PROVE SnapshotInv'
  OBVIOUS
<1> req \in [Requests -> RequestType] /\ ask \in AskType /\ LedgerOK
  BY DEF TypeInv, TypeOK, LedgerOK
<1>a. DoneRequest.pc = "done"
  BY DEF DoneRequest, IdleRequest
<1>b. ASSUME NEW rows \in SUBSET {"ask", "auction"}, req' = Missing(rows),
             ask'.price = ask.price \/ "ask" \in rows
      PROVE  SnapshotInv'
  <2>1. \A q \in Requests :
          /\ req'[q].pc = req[q].pc /\ req'[q].kind = req[q].kind /\ req'[q].price = req[q].price
          /\ req[q].pc = "open" => req'[q].missed = req[q].missed \cup rows
    BY <1>b, MissingKeeps DEF InTransaction
  <2> QED BY <1>b, <2>1 DEF SnapshotInv
<1>c. ASSUME NEW rows \in SUBSET {"ask", "auction"}, NEW r \in Requests, NEW s \in RequestType,
             MoveOn(r, s, rows), s.pc # "open", ask'.price = ask.price \/ "ask" \in rows
      PROVE  SnapshotInv'
  <2>1. req'[r] = s /\ \A q \in Requests \ {r} : req'[q] = Missing(rows)[q]
    BY <1>c, MoveOnKeeps
  <2>2. \A q \in Requests :
          /\ Missing(rows)[q].pc = req[q].pc /\ Missing(rows)[q].kind = req[q].kind
          /\ Missing(rows)[q].price = req[q].price
          /\ req[q].pc = "open" => Missing(rows)[q].missed = req[q].missed \cup rows
          /\ req[q].missed \subseteq Missing(rows)[q].missed
    BY MissingKeeps DEF InTransaction
  <2>3. ASSUME NEW q \in Requests, req'[q].pc = "open", req'[q].kind = "place",
               "ask" \notin req'[q].missed
        PROVE  req'[q].price >= ask'.price
    <3>1. q # r /\ req'[q] = Missing(rows)[q]
      BY <1>c, <2>1, <2>3
    <3>2. req[q].pc = "open" /\ req[q].kind = "place" /\ "ask" \notin req[q].missed /\ "ask" \notin rows
      BY <2>2, <2>3, <3>1
    <3> QED BY <1>c, <2>2, <3>1, <3>2 DEF SnapshotInv
  <2> QED BY <2>3 DEF SnapshotInv
<1>d. ASSUME NEW r \in Requests, NEW s, req' = [req EXCEPT ![r] = s], s.pc # "open",
             ask' = ask
      PROVE  SnapshotInv'
  BY <1>d DEF SnapshotInv
<1>1. ASSUME NEW r \in Requests, NEW b \in Bidders, NEW a \in Offers, PlaceBegin(r, b, a)
      PROVE  SnapshotInv'
  <2>1. a \in Int /\ PriceStep \in Nat /\ PendingSum[b] \in Int /\ ask.price \in Int
    BY ConstantsAssumption DEF LedgerOK, PendingSum, AskType
  <2>2. PendingSum[b] + a >= ask.price
    BY <1>1, <2>1 DEF PlaceBegin, MinBidderAmount
  <2> QED BY <1>1, <2>2 DEF PlaceBegin, SnapshotInv, db
<1>2. ASSUME NEW r \in Requests,
             \/ \E b \in Bidders : WithdrawBegin(r, b)
             \/ CancelBegin(r)
      PROVE  SnapshotInv'
  BY <1>2 DEF WithdrawBegin, CancelBegin, SnapshotInv, RequestType, db
<1>3. ASSUME NEW r \in Requests, PlaceCommit(r) PROVE SnapshotInv'
  <2> DEFINE s == [req[r] EXCEPT !.pc = "sent", !.missed = {}]
  <2>1. s \in RequestType /\ s.pc = "sent"
    BY DEF RequestType
  <2> QED BY <1>3, <1>c, <2>1 DEF PlaceCommit
<1>4. ASSUME NEW r \in Requests, Succeed(r) \/ WithdrawFail(r) \/ Abort(r) PROVE SnapshotInv'
  BY <1>4, <1>a, <1>d DEF Succeed, WithdrawFail, Abort, db
<1>5. ASSUME NEW r \in Requests, PlaceFailBegin(r) PROVE SnapshotInv'
  BY <1>5 DEF PlaceFailBegin, SnapshotInv, RequestType, db
<1>6. ASSUME NEW r \in Requests, PlaceFailCommit(r) PROVE SnapshotInv'
  BY <1>6, <1>a, <1>c, RestingTypes DEF PlaceFailCommit
<1>7. ASSUME NEW r \in Requests, WithdrawCommit(r) PROVE SnapshotInv'
  BY <1>7, <1>a DEF WithdrawCommit, SnapshotInv, RequestType
<1>8. ASSUME NEW r \in Requests, CancelCommit(r) PROVE SnapshotInv'
  <2> DEFINE s == [req[r] EXCEPT !.pc = "returning", !.missed = {}]
  <2>1. s \in RequestType /\ s.pc = "returning"
    BY DEF RequestType
  <2> QED BY <1>8, <1>c, <2>1 DEF CancelCommit
<1>9. ASSUME NEW r \in Requests, CancelReturn(r) PROVE SnapshotInv'
  <2>1. PICK rows \in SUBSET {"ask", "auction"} : MoveOn(r, DoneRequest, rows)
    BY <1>9 DEF CancelReturn
  <2> QED BY <1>9, <1>a, <1>c, <2>1, RestingTypes DEF CancelReturn, db
<1>10. CASE \/ StopWrite \/ CloseMark \/ CloseUnsold
            \/ EndAtOnce \/ BuyAsk \/ EndSale \/ ReturnUnsold
  <2>1. PICK rows \in SUBSET {"ask", "auction"} : req' = Missing(rows)
    BY <1>10 DEF StopWrite, CloseMark, CloseUnsold, CancelAsk, EndAtOnce, BuyAsk, EndSale,
                 ReturnUnsold
  <2>2. ask'.price = ask.price
    BY <1>10 DEF StopWrite, CloseMark, CloseUnsold, CancelAsk, EndAtOnce, BuyAsk, EndSale,
                 ReturnUnsold, AskType
  <2> QED BY <1>b, <2>1, <2>2
<1>11. ASSUME NEW b \in Bidders, CloseWithWinner(b) PROVE SnapshotInv'
  <2>1. CASE UNCHANGED <<ask, req>>
    BY <2>1 DEF SnapshotInv
  <2>2. CASE CancelAsk
    <3>1. ask'.price = ask.price
      BY <2>2 DEF CancelAsk, AskType
    <3> QED BY <1>b, <2>2, <3>1 DEF CancelAsk
  <2> QED BY <1>11, <2>1, <2>2 DEF CloseWithWinner
<1>12. CASE SendToken
  <2>1. CASE UNCHANGED <<ask, req>>
    BY <2>1 DEF SnapshotInv
  <2>2. CASE req' = Missing({"ask"}) /\ ask' = ask
    BY <1>b, <2>2
  <2> QED BY <1>12, <2>1, <2>2 DEF SendToken, db
<1>13. CASE \/ StopFind \/ ClosePick \/ RefundEnd \/ PaySeller \/ PayFails \/ RecordSale
            \/ CloserCrash
  BY <1>13 DEF StopFind, ClosePick, RefundEnd, PaySeller, PayFails, RecordSale, CloserCrash,
               SnapshotInv, db
<1>14. ASSUME NEW b \in Bidders, Refund(b) \/ NothingToRefund(b) PROVE SnapshotInv'
  BY <1>14 DEF Refund, NothingToRefund, SnapshotInv, db
<1>15. ASSUME NEW x \in Rows, Execute(x) \/ Drop(x) PROVE SnapshotInv'
  BY <1>15 DEF Execute, Drop, SnapshotInv, db
<1>16. CASE ApiCrash
  BY <1>16, <1>a DEF ApiCrash, SnapshotInv, db
<1>17. CASE UNCHANGED vars
  BY <1>17 DEF vars, db, SnapshotInv
<1> QED BY <1>1, <1>2, <1>3, <1>4, <1>5, <1>6, <1>7, <1>8, <1>9, <1>10, <1>11, <1>12, <1>13,
           <1>14, <1>15, <1>16, <1>17 DEF Next, Handle, Close

\* Only a bid's own transaction places it.
LEMMA PlacedMeansCommitted ==
  ASSUME TypeInv, Next, NEW r \in Requests, Placed(r)
  PROVE  PlaceCommit(r)
<1>1. r \in Rows /\ bid' # bid /\ \A b \in Bidders : b # r
  BY ConstantsAssumption DEF Placed, Rows
<1>2. ASSUME NEW q \in Requests, Handle(q) PROVE PlaceCommit(r)
  <2>1. bid \in [Rows -> BidType] /\ q \in Rows
    BY DEF TypeInv, TypeOK, Rows
  <2>2. CASE PlaceCommit(q)
    <3>1. q = r
      BY <2>1, <2>2, <1>1 DEF PlaceCommit, InsertBid, Placed
    <3> QED BY <2>2, <3>1
  <2>3. ASSUME WithdrawCommit(q) PROVE FALSE
    <3>1. q = r
      BY <2>1, <2>3, <1>1 DEF WithdrawCommit, InsertBid, Placed
    <3> QED BY <2>3, <3>1 DEF WithdrawCommit, Placed
  <2>4. ASSUME FinishBid(q) \/ FailBid(q) PROVE FALSE
    BY <2>1, <2>4, <1>1 DEF FinishBid, FailBid, Placed, BidType
  <2>5. ASSUME bid' = bid PROVE FALSE
    BY <2>5, <1>1
  <2> QED BY <1>2, <2>2, <2>3, <2>4, <2>5
          DEF Handle, Succeed, PlaceFailBegin, PlaceFailCommit, WithdrawFail, CancelCommit,
              CancelReturn, Abort, db, ledger
<1>3. ASSUME NEW b \in Bidders, Refund(b) PROVE FALSE
  BY <1>3, <1>1 DEF Refund, InsertBid, Placed, TypeInv, TypeOK
<1>4. ASSUME RefundEnd PROVE FALSE
  <2>1. closer.current \in Bidders
    BY <1>4 DEF RefundEnd, TypeInv, WinnerKnown
  <2> QED BY <1>4, <1>1, <2>1 DEF RefundEnd, FinishBid, FailBid, Placed, TypeInv, TypeOK
<1>5. bid' = bid \/ (\E q \in Requests : Handle(q)) \/ (\E b \in Bidders : Refund(b)) \/ RefundEnd
  BY DEF Next, Close, PlaceBegin, WithdrawBegin, CancelBegin, StopFind, StopWrite, ClosePick,
         CloseMark, CloseUnsold, CloseWithWinner, NothingToRefund, SendToken, PaySeller,
         PayFails, EndAtOnce, CancelAsk, BuyAsk, EndSale, RecordSale, ReturnUnsold, Execute, Drop, ApiCrash, CloserCrash, db, ledger
<1> QED BY <1>1, <1>2, <1>3, <1>4, <1>5

(* A committed bid never lowers the price it finds when it commits.        *)
THEOREM BidsNeverUndercut == Spec => NoUndercut
<1>1. Init => SnapshotInv
  BY DEF Init, SnapshotInv, IdleRequest
<1>2. TypeInv /\ SnapshotInv /\ [Next]_vars =>
        [\A r \in Requests : Placed(r) => ask'.price >= ask.price]_vars
  <2> SUFFICES ASSUME TypeInv, SnapshotInv, Next, NEW r \in Requests, Placed(r)
               PROVE  ask'.price >= ask.price
    OBVIOUS
  <2>1. PlaceCommit(r)
    BY PlacedMeansCommitted
  <2>2. req[r].price >= ask.price
    BY <2>1 DEF PlaceCommit, CanCommit, Updates, SnapshotInv
  <2> QED BY <2>1, <2>2 DEF PlaceCommit, TypeInv, TypeOK, AskType
<1> QED BY <1>1, <1>2, SnapshotStep, TypeInit, TypeStep, PTL DEF Spec, NoUndercut

-----------------------------------------------------------------------------
(* Custody: what a bid, a refund or a payment is evidence of.              *)

\* Some request's bid has been received.  It stays so.
Sold == \E r \in Requests : bid[r].status = "finished"

WinnerStates == {"alone", "refunding", "awaiting", "paying", "recording", "bought", "trading"}

BidsInv ==
  \* The row of a request exists when its transaction has committed, and is
  \* minting as long as the request waits for the extrinsic.
  /\ \A r \in Requests : /\ req[r].pc \in {"idle", "open", "returning"} => bid[r].status = "none"
                         /\ req[r].pc \in {"sent", "failing"} => bid[r].status = "minting"
  \* A withdrawal, a winner, a refund and a payment come after a received bid.
  /\ \A r \in Requests : req[r].pc = "open" /\ req[r].kind = "withdraw" => Sold
  /\ \A b \in Bidders : bid[b].status # "none" => Sold
  /\ closer.pc \in WinnerStates => Sold
  /\ paidOut # 0 => Sold

\* A step that leaves the rows of bids alone keeps BidsInv.
LEMMA BidsFrame ==
  ASSUME BidsInv, bid' = bid, paidOut' = paidOut \/ Sold,
         closer'.pc \in WinnerStates => closer.pc \in WinnerStates \/ Sold,
         \A q \in Requests :
           \/ req'[q].pc = req[q].pc /\ req'[q].kind = req[q].kind
           \/ req'[q].pc = "done"
           \/ req[q].pc = "sent" /\ req'[q].pc = "failing"
           \/ req[q].pc = "open" /\ req'[q].pc = "returning"
           \/ req[q].pc = "idle" /\ req'[q].pc = "open" /\ (req'[q].kind = "withdraw" => Sold)
  PROVE  BidsInv'
<1>1. Sold' = Sold
  BY DEF Sold
<1> QED BY <1>1 DEF BidsInv

\* A step that changes one request's row, which was not finished, keeps BidsInv.
LEMMA BidsRequestRow ==
  ASSUME BidsInv, NEW r \in Requests, bid[r].status # "finished",
         \A x \in Rows \ {r} : bid'[x] = bid[x],
         UNCHANGED <<paidOut, closer>>,
         \/ req'[r].pc = "sent" /\ bid'[r].status = "minting"
         \/ req'[r].pc = "done",
         \A q \in Requests \ {r} : req'[q].pc = req[q].pc /\ req'[q].kind = req[q].kind
  PROVE  BidsInv'
<1>1. Requests \subseteq Rows /\ Bidders \subseteq Rows /\ r \notin Bidders
  BY ConstantsAssumption DEF Rows
<1>2. Sold => Sold'
  BY <1>1 DEF Sold
<1> QED BY <1>1, <1>2 DEF BidsInv

\* A step that changes the row of a refund, once a bid is received, keeps BidsInv.
LEMMA BidsRefundRow ==
  ASSUME BidsInv, Sold, NEW b \in Bidders, \A x \in Rows \ {b} : bid'[x] = bid[x], req' = req
  PROVE  BidsInv'
<1>1. Requests \subseteq Rows /\ b \notin Requests
  BY ConstantsAssumption DEF Rows
<1>2. Sold'
  BY <1>1 DEF Sold
<1> QED BY <1>1, <1>2 DEF BidsInv

\* Some bidder has a finished bid only if some request's bid is received.
LEMMA BiddingMeansSold == BidsInv /\ Bidding({"finished"}) # {} => Sold
  BY DEF Bidding, Rows, Sold, BidsInv

LEMMA BidsInit == Init => BidsInv
  BY DEF Init, BidsInv, Rows, WinnerStates, IdleRequest, IdleCloser

LEMMA BidsStep == TypeInv /\ BidsInv /\ [Next]_vars => BidsInv'
<1> SUFFICES ASSUME TypeInv, BidsInv, [Next]_vars PROVE BidsInv'
  OBVIOUS
<1> req \in [Requests -> RequestType] /\ closer \in CloserType /\ bid \in [Rows -> BidType]
  BY DEF TypeInv, TypeOK
<1>a. DoneRequest.pc = "done" /\ IdleCloser.pc = "idle" /\ "idle" \notin WinnerStates
  BY DEF DoneRequest, IdleRequest, IdleCloser, WinnerStates
<1>b. ASSUME NEW rows \in SUBSET {"ask", "auction"}, req' = Missing(rows)
      PROVE  \A q \in Requests : req'[q].pc = req[q].pc /\ req'[q].kind = req[q].kind
  BY <1>b, MissingKeeps
<1>c. ASSUME NEW rows \in SUBSET {"ask", "auction"}, NEW r \in Requests, NEW s \in RequestType,
             MoveOn(r, s, rows)
      PROVE  /\ req'[r] = s
             /\ \A q \in Requests \ {r} : req'[q].pc = req[q].pc /\ req'[q].kind = req[q].kind
  <2>1. req'[r] = s /\ \A q \in Requests \ {r} : req'[q] = Missing(rows)[q]
    BY <1>c, MoveOnKeeps
  <2>2. \A q \in Requests : Missing(rows)[q].pc = req[q].pc /\ Missing(rows)[q].kind = req[q].kind
    BY MissingKeeps
  <2> QED BY <2>1, <2>2
<1>1. ASSUME NEW r \in Requests, NEW b \in Bidders, NEW a \in Offers, PlaceBegin(r, b, a)
      PROVE  BidsInv'
  BY <1>1, BidsFrame DEF PlaceBegin, db, ledger, chain, escrow
<1>2. ASSUME NEW r \in Requests, NEW b \in Bidders, WithdrawBegin(r, b) PROVE BidsInv'
  <2>1. Sold
    BY <1>2, BiddingMeansSold DEF WithdrawBegin, Leaders
  <2> QED BY <1>2, <2>1, BidsFrame DEF WithdrawBegin, db, ledger, chain, escrow
<1>3. ASSUME NEW r \in Requests, CancelBegin(r) PROVE BidsInv'
  <2>1. req'[r].pc = "open" /\ req'[r].kind = "cancel" /\ \A q \in Requests \ {r} : req'[q] = req[q]
    BY <1>3 DEF CancelBegin, RequestType
  <2> QED BY <1>3, <2>1, BidsFrame DEF CancelBegin, db, ledger, chain, escrow
<1>4. ASSUME NEW r \in Requests, PlaceCommit(r) PROVE BidsInv'
  <2> DEFINE s == [req[r] EXCEPT !.pc = "sent", !.missed = {}]
  <2>1. s \in RequestType /\ s.pc = "sent" /\ r \in Rows
    BY DEF RequestType, Rows
  <2>2. bid[r].status = "none"
    BY <1>4 DEF PlaceCommit, BidsInv
  <2>3. bid'[r].status = "minting" /\ \A x \in Rows \ {r} : bid'[x] = bid[x]
    BY <1>4, <2>1 DEF PlaceCommit, InsertBid
  <2>4. /\ req'[r].pc = "sent"
        /\ \A q \in Requests \ {r} : req'[q].pc = req[q].pc /\ req'[q].kind = req[q].kind
    <3>1. MoveOn(r, s, {"ask"})
      BY <1>4 DEF PlaceCommit
    <3> QED BY <1>c, <2>1, <3>1
  <2> QED BY <1>4, <2>2, <2>3, <2>4, BidsRequestRow DEF PlaceCommit, escrow
<1>5. ASSUME NEW r \in Requests, WithdrawCommit(r) PROVE BidsInv'
  <2>1. bid[r].status = "none" /\ r \in Rows
    BY <1>5 DEF WithdrawCommit, BidsInv, Rows
  <2>2. bid'[r].status = "minting" /\ \A x \in Rows \ {r} : bid'[x] = bid[x]
    BY <1>5, <2>1 DEF WithdrawCommit, InsertBid
  <2>3. req'[r].pc \in {"sent", "done"} /\ \A q \in Requests \ {r} : req'[q] = req[q]
    BY <1>5, <1>a DEF WithdrawCommit, RequestType
  <2> QED BY <1>5, <2>1, <2>2, <2>3, BidsRequestRow DEF WithdrawCommit, escrow
<1>6. ASSUME NEW r \in Requests, Succeed(r) \/ WithdrawFail(r) PROVE BidsInv'
  <2>1. bid[r].status = "minting"
    BY <1>6 DEF Succeed, WithdrawFail, BidsInv
  <2>2. \A x \in Rows \ {r} : bid'[x] = bid[x]
    BY <1>6 DEF Succeed, WithdrawFail, FinishBid, FailBid
  <2>3. req'[r].pc = "done" /\ \A q \in Requests \ {r} : req'[q] = req[q]
    BY <1>6, <1>a DEF Succeed, WithdrawFail
  <2> QED BY <1>6, <2>1, <2>2, <2>3, BidsRequestRow DEF Succeed, WithdrawFail, chain, escrow
<1>7. ASSUME NEW r \in Requests, PlaceFailBegin(r) PROVE BidsInv'
  <2>1. req[r].pc = "sent" /\ req'[r].pc = "failing" /\ \A q \in Requests \ {r} : req'[q] = req[q]
    BY <1>7 DEF PlaceFailBegin, RequestType
  <2> QED BY <1>7, <2>1, BidsFrame DEF PlaceFailBegin, db, ledger, chain, escrow
<1>8. ASSUME NEW r \in Requests, PlaceFailCommit(r) PROVE BidsInv'
  <2>1. bid[r].status = "minting"
    BY <1>8 DEF PlaceFailCommit, BidsInv
  <2>2. \A x \in Rows \ {r} : bid'[x] = bid[x]
    BY <1>8 DEF PlaceFailCommit, FailBid
  <2>3. /\ req'[r].pc = "done"
        /\ \A q \in Requests \ {r} : req'[q].pc = req[q].pc /\ req'[q].kind = req[q].kind
    BY <1>8, <1>a, <1>c, RestingTypes DEF PlaceFailCommit
  <2> QED BY <1>8, <2>1, <2>2, <2>3, BidsRequestRow DEF PlaceFailCommit, chain, escrow
<1>9. ASSUME NEW r \in Requests, CancelCommit(r) PROVE BidsInv'
  <2> DEFINE s == [req[r] EXCEPT !.pc = "returning", !.missed = {}]
  <2>1. s \in RequestType /\ s.pc = "returning"
    BY DEF RequestType
  <2>2. /\ req[r].pc = "open" /\ req'[r].pc = "returning"
        /\ \A q \in Requests \ {r} : req'[q].pc = req[q].pc /\ req'[q].kind = req[q].kind
    <3>1. MoveOn(r, s, {"ask", "auction"}) /\ req[r].pc = "open"
      BY <1>9 DEF CancelCommit
    <3> DEFINE rows == {"ask", "auction"}
    <3>2. rows \in SUBSET {"ask", "auction"}
      OBVIOUS
    <3> HIDE DEF rows, s
    <3>3. MoveOn(r, s, rows)
      BY <3>1 DEF rows
    <3>4. /\ req'[r] = s
          /\ \A q \in Requests \ {r} : req'[q].pc = req[q].pc /\ req'[q].kind = req[q].kind
      BY <1>c, <2>1, <3>2, <3>3
    <3> QED BY <2>1, <3>1, <3>4
  <2> QED BY <1>9, <2>2, BidsFrame DEF CancelCommit, ledger, chain, escrow
<1>10. ASSUME NEW r \in Requests, CancelReturn(r) PROVE BidsInv'
  <2>1. PICK rows \in SUBSET {"ask", "auction"} : MoveOn(r, DoneRequest, rows)
    BY <1>10 DEF CancelReturn
  <2> QED BY <1>10, <1>a, <1>c, <2>1, RestingTypes, BidsFrame DEF CancelReturn, db, ledger, escrow
<1>11. ASSUME NEW r \in Requests, Abort(r) PROVE BidsInv'
  BY <1>11, <1>a, BidsFrame DEF Abort, db, ledger, chain, escrow
<1>12. CASE StopFind \/ StopWrite
  BY <1>12, <1>b, BidsFrame DEF StopFind, StopWrite, db, ledger, chain
<1>13. CASE ClosePick \/ CloseMark \/ CloseUnsold
  <2>1. closer'.pc \notin WinnerStates
    BY <1>13 DEF ClosePick, CloseMark, CloseUnsold, CloserType, WinnerStates
  <2>2. \A q \in Requests : req'[q].pc = req[q].pc /\ req'[q].kind = req[q].kind
    BY <1>13, <1>b DEF ClosePick, CloseMark, CloseUnsold, CancelAsk
  <2> QED BY <1>13, <2>1, <2>2, BidsFrame DEF ClosePick, CloseMark, CloseUnsold, db, ledger, chain
<1>14. ASSUME NEW w \in Bidders, CloseWithWinner(w) PROVE BidsInv'
  <2>1. Sold
    BY <1>14, BiddingMeansSold DEF CloseWithWinner, Leaders
  <2>2. \A q \in Requests : req'[q].pc = req[q].pc /\ req'[q].kind = req[q].kind
    BY <1>14, <1>b DEF CloseWithWinner, CancelAsk
  <2> QED BY <1>14, <2>1, <2>2, BidsFrame DEF CloseWithWinner, ledger, chain
<1>15. ASSUME NEW b \in Bidders, Refund(b) PROVE BidsInv'
  <2>1. Sold
    BY <1>15 DEF Refund, BidsInv, WinnerStates
  <2> QED BY <1>15, <2>1, BidsRefundRow DEF Refund, InsertBid
<1>16. ASSUME NEW b \in Bidders, NothingToRefund(b) PROVE BidsInv'
  <2>1. Sold
    BY <1>16 DEF NothingToRefund, BidsInv, WinnerStates
  <2> QED BY <1>16, <2>1, BidsFrame DEF NothingToRefund, db, ledger, chain
<1>17. CASE RefundEnd
  <2>1. Sold /\ closer.current \in Bidders
    BY <1>17 DEF RefundEnd, BidsInv, WinnerStates, TypeInv, WinnerKnown
  <2> QED BY <1>17, <2>1, BidsRefundRow DEF RefundEnd, FinishBid, FailBid
<1>18. CASE SendToken \/ PaySeller \/ PayFails
  <2>1. Sold
    BY <1>18 DEF SendToken, PaySeller, PayFails, BidsInv, WinnerStates
  <2>2. \A q \in Requests : req'[q].pc = req[q].pc /\ req'[q].kind = req[q].kind
    BY <1>18, <1>b DEF SendToken, PaySeller, PayFails
  <2> QED BY <1>18, <2>1, <2>2, BidsFrame DEF SendToken, PaySeller, PayFails, db, ledger, chain
<1>19. CASE RecordSale \/ ReturnUnsold
  BY <1>19, <1>a, <1>b, BidsFrame DEF RecordSale, ReturnUnsold, ledger, chain
<1>23. CASE EndAtOnce \/ BuyAsk \/ EndSale
  <2>1. closer'.pc \in WinnerStates => closer.pc \in WinnerStates
    BY <1>23 DEF EndAtOnce, BuyAsk, EndSale, CloserType, WinnerStates
  <2>2. \A q \in Requests : req'[q].pc = req[q].pc /\ req'[q].kind = req[q].kind
    BY <1>23, <1>b DEF EndAtOnce, BuyAsk, EndSale
  <2> QED BY <1>23, <2>1, <2>2, BidsFrame DEF EndAtOnce, BuyAsk, EndSale, ledger, chain
<1>20. ASSUME NEW x \in Rows, Execute(x) \/ Drop(x) PROVE BidsInv'
  BY <1>20, BidsFrame DEF Execute, Drop, db, ledger, escrow
<1>21. CASE ApiCrash \/ CloserCrash
  BY <1>21, <1>a, BidsFrame DEF ApiCrash, CloserCrash, db, ledger, chain, escrow
<1>22. CASE UNCHANGED vars
  BY <1>22, BidsFrame DEF vars, db, ledger, chain, escrow
<1> QED BY <1>1, <1>2, <1>3, <1>4, <1>5, <1>6, <1>7, <1>8, <1>9, <1>10, <1>11, <1>12, <1>13, <1>14,
           <1>15, <1>16, <1>17, <1>18, <1>19, <1>20, <1>21, <1>22, <1>23 DEF Next, Handle, Close

\* No bid counts, none can be placed, and no transaction can still insert one.
NoLiveBid == \A x \in Rows : bid[x].status \notin Live

Quiet == /\ NoLiveBid
         /\ ask.status # "active"
         /\ \A q \in Requests :
              req[q].pc = "open" /\ req[q].kind = "place" => "ask" \in req[q].missed

CancelInv ==
  \* A cancellation that may still commit counted the bids right.
  /\ \A c \in Requests :
       req[c].pc = "open" /\ req[c].kind = "cancel" /\ req[c].missed = {} => NoLiveBid
  \* Once it has committed the auction is quiet.
  /\ \A c \in Requests : req[c].pc = "returning" => Quiet

\* Without a live bid nothing was received and nobody waits for an extrinsic.
LEMMA NoLiveBidMeans ==
  ASSUME BidsInv, NoLiveBid
  PROVE  /\ ~Sold /\ closer.pc \notin WinnerStates /\ paidOut = 0
         /\ \A r \in Requests : /\ req[r].pc \notin {"sent", "failing"}
                                /\ ~(req[r].pc = "open" /\ req[r].kind = "withdraw")
<1>1. ~Sold
  BY DEF Sold, NoLiveBid, Rows, Live
<1> QED BY <1>1 DEF BidsInv, NoLiveBid, Rows, Live

\* While no bid is live, the only step that touches a bid inserts a new one.
LEMMA NoLiveBidStep ==
  ASSUME TypeInv, BidsInv, NoLiveBid, [Next]_vars
  PROVE  bid' = bid \/ \E r \in Requests : PlaceCommit(r)
<1> USE NoLiveBidMeans
<1>1. ASSUME NEW r \in Requests, Handle(r) PROVE bid' = bid \/ PlaceCommit(r)
  BY <1>1 DEF Handle, Succeed, PlaceFailBegin, PlaceFailCommit, WithdrawCommit, WithdrawFail,
              CancelCommit, CancelReturn, Abort, db, ledger
<1>2. CASE RefundEnd \/ \E b \in Bidders : Refund(b)
  BY <1>2 DEF RefundEnd, Refund, WinnerStates
<1> QED BY <1>1, <1>2
       DEF Next, Close, PlaceBegin, WithdrawBegin, CancelBegin, StopFind, StopWrite, ClosePick,
           CloseMark, CloseUnsold, CloseWithWinner, NothingToRefund, SendToken, PaySeller,
           PayFails, EndAtOnce, CancelAsk, BuyAsk, EndSale, RecordSale, ReturnUnsold, Execute, Drop, ApiCrash, CloserCrash,
           vars, db, ledger

\* What one step may do to a request.
LEMMA RequestSteps ==
  ASSUME TypeInv, [Next]_vars, NEW q \in Requests
  PROVE  \/ req'[q].pc = req[q].pc /\ req'[q].kind = req[q].kind
            /\ req[q].missed \subseteq req'[q].missed
         \/ req'[q].pc \in {"sent", "failing", "done"}
         \/ CancelCommit(q) /\ req'[q].pc = "returning"
         \/ Accepting /\ req'[q].pc = "open" /\ req'[q].kind \in {"place", "withdraw"}
         \/ CancelBegin(q)
<1> req \in [Requests -> RequestType]
  BY DEF TypeInv, TypeOK
<1> DEFINE Kept == req'[q].pc = req[q].pc /\ req'[q].kind = req[q].kind
                   /\ req[q].missed \subseteq req'[q].missed
<1>a. DoneRequest.pc = "done"
  BY DEF DoneRequest, IdleRequest
<1>b. ASSUME NEW rows \in SUBSET {"ask", "auction"}, req'[q] = Missing(rows)[q] PROVE Kept
  <2>1. /\ Missing(rows)[q].pc = req[q].pc /\ Missing(rows)[q].kind = req[q].kind
        /\ req[q].missed \subseteq Missing(rows)[q].missed
    BY MissingKeeps
  <2> QED BY <1>b, <2>1
<1>c. ASSUME NEW rows \in SUBSET {"ask", "auction"}, NEW r \in Requests, NEW s \in RequestType,
             MoveOn(r, s, rows)
      PROVE  IF q = r THEN req'[q] = s ELSE Kept
  <2>1. req'[r] = s /\ \A p \in Requests \ {r} : req'[p] = Missing(rows)[p]
    BY <1>c, MoveOnKeeps
  <2> QED BY <1>b, <2>1
<1>1. ASSUME NEW r \in Requests,
             \/ \E b \in Bidders, a \in Offers : PlaceBegin(r, b, a)
             \/ \E b \in Bidders : WithdrawBegin(r, b)
      PROVE  Kept \/ (Accepting /\ req'[q].pc = "open" /\ req'[q].kind \in {"place", "withdraw"})
  BY <1>1 DEF PlaceBegin, WithdrawBegin
<1>2. ASSUME NEW r \in Requests, CancelBegin(r) PROVE Kept \/ CancelBegin(q)
  BY <1>2 DEF CancelBegin
<1>3. ASSUME NEW r \in Requests, PlaceCommit(r) PROVE Kept \/ req'[q].pc = "sent"
  <2> DEFINE s == [req[r] EXCEPT !.pc = "sent", !.missed = {}]
  <2>1. s \in RequestType /\ s.pc = "sent"
    BY DEF RequestType
  <2>2. MoveOn(r, s, {"ask"})
    BY <1>3 DEF PlaceCommit
  <2> QED BY <1>c, <2>1, <2>2
<1>4. ASSUME NEW r \in Requests, Succeed(r) \/ WithdrawFail(r) \/ Abort(r)
      PROVE  Kept \/ req'[q].pc = "done"
  BY <1>4, <1>a DEF Succeed, WithdrawFail, Abort
<1>5. ASSUME NEW r \in Requests, PlaceFailBegin(r) PROVE Kept \/ req'[q].pc = "failing"
  BY <1>5 DEF PlaceFailBegin, RequestType
<1>6. ASSUME NEW r \in Requests, PlaceFailCommit(r) PROVE Kept \/ req'[q].pc = "done"
  BY <1>6, <1>a, <1>c, RestingTypes DEF PlaceFailCommit
<1>7. ASSUME NEW r \in Requests, WithdrawCommit(r) PROVE Kept \/ req'[q].pc \in {"sent", "done"}
  BY <1>7, <1>a DEF WithdrawCommit, RequestType
<1>8. ASSUME NEW r \in Requests, CancelCommit(r)
      PROVE  Kept \/ (CancelCommit(q) /\ req'[q].pc = "returning")
  <2> DEFINE s == [req[r] EXCEPT !.pc = "returning", !.missed = {}]
             rows == {"ask", "auction"}
  <2>1. s \in RequestType /\ s.pc = "returning" /\ rows \in SUBSET {"ask", "auction"}
    BY DEF RequestType
  <2>2. MoveOn(r, s, rows)
    BY <1>8 DEF CancelCommit
  <2> HIDE DEF s, rows
  <2> QED BY <1>8, <1>c, <2>1, <2>2
<1>9. ASSUME NEW r \in Requests, CancelReturn(r) PROVE Kept \/ req'[q].pc = "done"
  <2>1. PICK rows \in SUBSET {"ask", "auction"} : MoveOn(r, DoneRequest, rows)
    BY <1>9 DEF CancelReturn
  <2> QED BY <1>a, <1>c, <2>1, RestingTypes
<1>10. CASE \/ StopWrite \/ CloseMark \/ CloseUnsold
            \/ EndAtOnce \/ BuyAsk \/ EndSale \/ ReturnUnsold
  BY <1>10, <1>b DEF StopWrite, CloseMark, CloseUnsold, CancelAsk, EndAtOnce, BuyAsk, EndSale,
                     ReturnUnsold
<1>11. CASE SendToken \/ \E b \in Bidders : CloseWithWinner(b)
  BY <1>11, <1>b DEF SendToken, CloseWithWinner, CancelAsk
<1>12. CASE \/ StopFind \/ ClosePick \/ RefundEnd \/ PaySeller \/ PayFails \/ RecordSale
            \/ CloserCrash
            \/ (\E b \in Bidders : Refund(b) \/ NothingToRefund(b))
            \/ (\E x \in Rows : Execute(x) \/ Drop(x))
            \/ UNCHANGED vars
  BY <1>12 DEF StopFind, ClosePick, RefundEnd, PaySeller, PayFails, RecordSale, CloserCrash, Refund,
               NothingToRefund, Execute, Drop, vars
<1>13. CASE ApiCrash
  BY <1>13, <1>a DEF ApiCrash
<1> QED BY <1>1, <1>2, <1>3, <1>4, <1>5, <1>6, <1>7, <1>8, <1>9, <1>10, <1>11, <1>12, <1>13
       DEF Next, Handle, Close

\* The ask is never made active again.
LEMMA AskStaysClosed ==
  ASSUME TypeInv, [Next]_vars, ask.status # "active"
  PROVE  ask'.status # "active"
<1> ask \in AskType
  BY DEF TypeInv, TypeOK
<1>1. CASE ask' = ask
  BY <1>1
<1>2. ASSUME NEW r \in Requests, PlaceCommit(r) \/ PlaceFailCommit(r) \/ CancelCommit(r)
      PROVE  ask'.status # "active"
  BY <1>2 DEF PlaceCommit, PlaceFailCommit, CancelCommit, AskType
<1>3. CASE CancelAsk \/ BuyAsk \/ ReturnUnsold
  BY <1>3 DEF CancelAsk, BuyAsk, ReturnUnsold, AskType
<1> QED BY <1>1, <1>2, <1>3
       DEF Next, Handle, Close, PlaceBegin, Succeed, PlaceFailBegin, WithdrawBegin, WithdrawCommit,
           WithdrawFail, CancelBegin, CancelReturn, Abort, StopFind, StopWrite, ClosePick, CloseMark,
           CloseUnsold, CloseWithWinner, Refund, NothingToRefund, RefundEnd, SendToken, PaySeller,
           PayFails, EndAtOnce, EndSale, RecordSale, Execute, Drop, ApiCrash, CloserCrash, vars, db

\* A quiet auction stays quiet.
LEMMA QuietStays == ASSUME TypeInv, BidsInv, Quiet, [Next]_vars PROVE Quiet'
<1>1. ASSUME NEW r \in Requests, PlaceCommit(r) PROVE FALSE
  BY <1>1 DEF PlaceCommit, CanCommit, Updates, Quiet
<1>2. NoLiveBid'
  BY <1>1, NoLiveBidStep DEF Quiet, NoLiveBid
<1>3. ask'.status # "active"
  BY AskStaysClosed DEF Quiet
<1>4. ASSUME NEW q \in Requests, req'[q].pc = "open", req'[q].kind = "place"
      PROVE  "ask" \in req'[q].missed
  <2>1. ~Accepting
    BY DEF Accepting, Quiet
  <2>2. ~CancelBegin(q)
    BY <2>1 DEF CancelBegin
  <2> QED BY <1>4, <2>1, <2>2, RequestSteps DEF Quiet
<1> QED BY <1>2, <1>3, <1>4 DEF Quiet

LEMMA CancelStep == TypeInv /\ BidsInv /\ CancelInv /\ [Next]_vars => CancelInv'
<1> SUFFICES ASSUME TypeInv, BidsInv, CancelInv, [Next]_vars PROVE CancelInv'
  OBVIOUS
<1> req \in [Requests -> RequestType] /\ req' \in [Requests -> RequestType]
  BY TypeStep DEF TypeInv, TypeOK
<1>1. ASSUME NEW c \in Requests,
             req'[c].pc = "open", req'[c].kind = "cancel", req'[c].missed = {}
      PROVE  NoLiveBid'
  <2>1. CASE CancelBegin(c)
    BY <2>1 DEF CancelBegin, NoLiveBid, db, ledger
  <2>2. CASE ~CancelBegin(c)
    <3>1. req[c].pc = "open" /\ req[c].kind = "cancel" /\ req[c].missed = {}
      BY <1>1, <2>2, RequestSteps
    <3>2. NoLiveBid
      BY <3>1 DEF CancelInv
    <3>3. ASSUME NEW r \in Requests, PlaceCommit(r) PROVE FALSE
      <4> DEFINE s == [req[r] EXCEPT !.pc = "sent", !.missed = {}]
      <4>5. r # c
        BY <3>1, <3>3 DEF PlaceCommit
      <4>6. req[r] \in RequestType
        OBVIOUS
      <4>1. s \in RequestType
        BY <4>6 DEF RequestType
      <4>4. MoveOn(r, s, {"ask"})
        BY <3>3 DEF PlaceCommit
      <4>2. req'[c] = Missing({"ask"})[c]
        BY <4>1, <4>4, <4>5, MoveOnKeeps
      <4>3. "ask" \in Missing({"ask"})[c].missed
        BY <3>1, MissingKeeps DEF InTransaction
      <4> QED BY <1>1, <4>2, <4>3
    <3> QED BY <3>2, <3>3, NoLiveBidStep DEF NoLiveBid
  <2> QED BY <2>1, <2>2
<1>2. ASSUME NEW c \in Requests, req'[c].pc = "returning" PROVE Quiet'
  <2>1. CASE req[c].pc = "returning"
    BY <2>1, QuietStays DEF CancelInv
  <2>2. CASE req[c].pc # "returning"
    <3>1. CancelCommit(c)
      <4>1. ~CancelBegin(c)
        BY <1>2 DEF CancelBegin, RequestType
      <4> QED BY <1>2, <2>2, <4>1, RequestSteps
    <3>2. req[c].pc = "open" /\ req[c].kind = "cancel" /\ req[c].missed = {}
      BY <3>1 DEF CancelCommit, CanCommit, Updates, RequestType
    <3>3. NoLiveBid /\ NoLiveBid'
      BY <3>1, <3>2 DEF CancelInv, CancelCommit, NoLiveBid, ledger
    <3>4. ask'.status = "cancelled"
      BY <3>1 DEF CancelCommit, TypeInv, TypeOK, AskType
    <3>5. ASSUME NEW q \in Requests, req'[q].pc = "open", req'[q].kind = "place"
          PROVE  "ask" \in req'[q].missed
      <4> DEFINE s == [req[c] EXCEPT !.pc = "returning", !.missed = {}]
                 rows == {"ask", "auction"}
      <4>1. s \in RequestType /\ MoveOn(c, s, rows) /\ rows \in SUBSET {"ask", "auction"} /\ q # c
        BY <1>2, <3>1, <3>5 DEF CancelCommit, RequestType
      <4> HIDE DEF s
      <4>2. req'[q] = Missing(rows)[q]
        BY <4>1, MoveOnKeeps
      <4>3. req[q].pc = "open" => "ask" \in Missing(rows)[q].missed
        BY <4>1, MissingKeeps DEF InTransaction
      <4>4. Missing(rows)[q].pc = req[q].pc
        BY <4>1, MissingKeeps
      <4> QED BY <3>5, <4>2, <4>3, <4>4
    <3> QED BY <3>3, <3>4, <3>5 DEF Quiet
  <2> QED BY <2>1, <2>2
<1> QED BY <1>1, <1>2 DEF CancelInv

(* A token on its way back to the seller because the auction was cancelled *)
(* has no bid.                                                             *)
THEOREM CancellingIsSafe == Spec => []CancelledHasNoBids
<1>1. Init => CancelInv
  BY DEF Init, CancelInv, IdleRequest
<1>2. CancelInv => CancelledHasNoBids
  BY DEF CancelInv, CancelledHasNoBids, Quiet, NoLiveBid
<1> QED BY <1>1, <1>2, CancelStep, BidsInit, BidsStep, TypeInit, TypeStep, PTL DEF Spec

-----------------------------------------------------------------------------
(* Custody: the token and the money.                                       *)

\* Closing is over and neither handler will take the auction up again.
Over == auction = "ended" /\ ~stopper /\ closer.pc = "idle"

TokenInv == token = Seller => paidOut = 0 /\ (Quiet \/ Over)

LEMMA OverStays ==
  ASSUME TypeInv, Over, [Next]_vars
  PROVE  Over'
<1> closer \in CloserType /\ IdleCloser.pc = "idle"
  BY DEF TypeInv, TypeOK, IdleCloser
<1>1. ASSUME NEW r \in Requests,
             \/ \E b \in Bidders, a \in Offers : PlaceBegin(r, b, a)
             \/ \E b \in Bidders : WithdrawBegin(r, b)
             \/ CancelBegin(r)
             \/ Handle(r)
      PROVE  UNCHANGED <<stopper, closer>> /\ auction' \in {auction, "ended"}
  BY <1>1 DEF PlaceBegin, WithdrawBegin, CancelBegin, Handle, PlaceCommit, Succeed,
       PlaceFailBegin, PlaceFailCommit, WithdrawCommit, WithdrawFail, CancelCommit, CancelReturn,
       Abort, db, chain, escrow
<1>2. CASE StopFind \/ StopWrite \/ Close
  BY <1>2 DEF Over, StopFind, StopWrite, Close, ClosePick, CloseMark, CloseUnsold, CloseWithWinner,
              Refund, NothingToRefund, RefundEnd, SendToken, PaySeller, PayFails, EndAtOnce, CancelAsk, BuyAsk, EndSale, RecordSale,
              ReturnUnsold
<1>3. CASE (\E x \in Rows : Execute(x) \/ Drop(x)) \/ ApiCrash \/ UNCHANGED vars
  BY <1>3 DEF Over, Execute, Drop, ApiCrash, vars, db, escrow
<1>4. CASE CloserCrash
  BY <1>4 DEF Over, CloserCrash, db
<1> QED BY <1>1, <1>2, <1>3, <1>4 DEF Next, Over

\* Which steps move the token to the seller, and which pay.
LEMMA TokenSteps ==
  ASSUME TypeInv, [Next]_vars
  PROVE  /\ token' = Seller => \/ token = Seller
                               \/ \E r \in Requests : CancelReturn(r)
                               \/ ReturnUnsold
         /\ paidOut' # paidOut => PaySeller
<1> USE DEF Next, Handle, Close, PlaceBegin, PlaceCommit, Succeed, PlaceFailBegin, PlaceFailCommit,
            WithdrawBegin, WithdrawCommit, WithdrawFail, CancelBegin, CancelCommit, Abort,
            StopFind, StopWrite, ClosePick, CloseMark, CloseUnsold, CloseWithWinner, Refund,
            NothingToRefund, RefundEnd, PayFails, EndAtOnce, CancelAsk, BuyAsk, EndSale, RecordSale, Execute, Drop, ApiCrash, CloserCrash,
            vars, chain
<1>1. paidOut' # paidOut => PaySeller
  BY DEF SendToken, ReturnUnsold, CancelReturn
<1>2. SendToken => token' # Seller \/ token' = token
  BY ConstantsAssumption DEF SendToken, TokenMoves, TokenStays, TypeInv, WinnerKnown
<1>3. PaySeller => token' = token
  BY DEF PaySeller
<1> QED BY <1>1, <1>2, <1>3

\* The seller has the token only when the auction is quiet or over.
LEMMA TokenStep ==
  ASSUME TypeInv, OnceInv, BidsInv, CancelInv, TokenInv, [Next]_vars
  PROVE  TokenInv'
<1> SUFFICES ASSUME token' = Seller PROVE paidOut' = 0 /\ (Quiet' \/ Over')
  BY DEF TokenInv
<1>1. CASE token = Seller
  <2>1. Quiet' \/ Over'
    BY <1>1, QuietStays, OverStays DEF TokenInv
  <2>2. closer.pc # "paying"
    BY <1>1, NoLiveBidMeans DEF TokenInv, Over, Quiet, WinnerStates
  <2> QED BY <1>1, <2>1, <2>2, TokenSteps DEF TokenInv, PaySeller
<1>2. ASSUME NEW r \in Requests, CancelReturn(r) PROVE paidOut' = 0 /\ Quiet'
  <2>1. Quiet
    BY <1>2 DEF CancelReturn, CancelInv
  <2> QED BY <1>2, <2>1, QuietStays, NoLiveBidMeans DEF Quiet, CancelReturn
<1>3. CASE ReturnUnsold
  BY <1>3 DEF ReturnUnsold, OnceInv, ClosingStates, Over, IdleCloser
<1> QED BY <1>1, <1>2, <1>3, TokenSteps

(* The seller never has both the token and the money.                      *)
THEOREM SellerHasOneOrTheOther == Spec => []SellerNeverHasBoth
<1> DEFINE Inv == TypeInv /\ OnceInv /\ BidsInv /\ CancelInv
<1>1. Init => TokenInv
  BY ConstantsAssumption DEF Init, TokenInv
<1>2. Inv /\ TokenInv /\ [Next]_vars => TokenInv'
  BY TokenStep
<1>3. Inv /\ [Next]_vars => Inv'
  BY TypeStep, OnceStep, BidsStep, CancelStep
<1>4. Init => Inv
  BY TypeInit, OnceInit, BidsInit DEF Init, CancelInv, IdleRequest
<1>5. TokenInv => SellerNeverHasBoth
  BY DEF TokenInv, SellerNeverHasBoth
<1> HIDE DEF Inv
<1> QED BY <1>1, <1>2, <1>3, <1>4, <1>5, PTL DEF Spec

=============================================================================
