-------------------------- MODULE AuctionMoneyProofs --------------------------
(* Theorems about the money of Auction: who is charged, refunded and paid, *)
(* for every set of bidders, requests and offers and every commission.     *)
EXTENDS AuctionPriceProofs

-----------------------------------------------------------------------------
(* The money that the market holds.                                        *)

\* What a step does to the rows, to their extrinsics and to the money held.
BidInserted == \E x \in Rows, b \in Bidders, a \in Int :
                 /\ InsertBid(x, b, a) /\ bid[x].status = "none"
                 /\ xt' \in {xt, [xt EXCEPT ![x] = "pool"]} /\ held' = held
BidFinished == \E x \in Rows : /\ FinishBid(x) /\ bid[x].status = "minting" /\ xt[x] = "executed"
                               /\ UNCHANGED <<xt, held>>
BidFailed   == \E x \in Rows : /\ FailBid(x) /\ bid[x].status = "minting"
                               /\ Rejected(x) \/ (x \in Requests /\ req[x].pc = "failing")
                               /\ UNCHANGED <<xt, held>>
MoneyStays  == UNCHANGED <<bid, xt, finished, held>>

LEMMA MoneyMoves ==
  ASSUME TypeInv, BidsInv, RefundInv, [Next]_vars
  PROVE  MoneyStays \/ BidInserted \/ BidFinished \/ BidFailed \/ \E x \in Rows : Execute(x) \/ Drop(x)
<1>1. ASSUME NEW r \in Requests, PlaceCommit(r) \/ WithdrawCommit(r) PROVE BidInserted
  <2>1. r \in Rows /\ req[r].bidder \in Bidders /\ req[r].amount \in Int
    BY <1>1 DEF PlaceCommit, WithdrawCommit, TypeInv, TypeOK, AskersKnown, RequestType, Rows
  <2> QED BY <1>1, <2>1 DEF PlaceCommit, WithdrawCommit, BidInserted, BidsInv
<1>2. ASSUME NEW r \in Requests, Succeed(r) PROVE BidFinished
  BY <1>2 DEF Succeed, BidFinished, BidsInv, Rows, chain
<1>3. ASSUME NEW r \in Requests, PlaceFailCommit(r) \/ WithdrawFail(r) PROVE BidFailed
  <2>1. /\ r \in Rows /\ FailBid(r) /\ bid[r].status = "minting" /\ UNCHANGED <<xt, held>>
        /\ Rejected(r) \/ req[r].pc = "failing"
    BY <1>3 DEF PlaceFailCommit, WithdrawFail, BidsInv, Rows, chain
  <2> HIDE DEF FailBid, Rejected
  <2> QED BY <2>1 DEF BidFailed
<1>4. ASSUME NEW b \in Bidders, Refund(b) PROVE BidInserted
  <2>1. b \in Rows /\ -closer.owed[b] \in Int
    BY DEF Rows, TypeInv, TypeOK, CloserType
  <2>2. bid[b].status = "none"
    BY <1>4 DEF Refund, Leaders, RefundInv
  <2>3. InsertBid(b, b, -closer.owed[b]) /\ xt' \in {xt, [xt EXCEPT ![b] = "pool"]} /\ held' = held
    BY <1>4 DEF Refund
  <2> QED BY <2>1, <2>2, <2>3 DEF BidInserted
<1>5. CASE RefundEnd
  <2>1. closer.current \in Rows /\ bid[closer.current].status = "minting"
    BY <1>5 DEF RefundEnd, TypeInv, WinnerKnown, Rows, RefundInv
  <2>2. UNCHANGED <<xt, held>>
    BY <1>5 DEF RefundEnd, chain
  <2>3. CASE xt[closer.current] = "executed" /\ FinishBid(closer.current)
    BY <2>1, <2>2, <2>3 DEF BidFinished
  <2>4. CASE Rejected(closer.current) /\ FailBid(closer.current)
    BY <2>1, <2>2, <2>4 DEF BidFailed
  <2> QED BY <1>5, <2>3, <2>4 DEF RefundEnd
<1> QED BY <1>1, <1>2, <1>3, <1>4, <1>5
       DEF Next, Handle, Close, PlaceBegin, WithdrawBegin, CancelBegin, PlaceFailBegin, CancelCommit,
           CancelReturn, Abort, StopFind, StopWrite, ClosePick, CloseMark, CloseUnsold,
           CloseWithWinner, NothingToRefund, SendToken, PaySeller, PayFails, EndAtOnce, BuyAsk, EndSale, RecordSale,
           ReturnUnsold, ApiCrash, CloserCrash, vars, db, ledger, chain, MoneyStays

(* A row that was not inserted has no extrinsic, and a bid is not marked   *)
(* finished before its extrinsic.                                          *)
PaidInv == /\ \A x \in Rows : bid[x].status = "none" => xt[x] = "none"
           /\ FinishedIsPaid

LEMMA PaidStep == TypeInv /\ BidsInv /\ RefundInv /\ PaidInv /\ [Next]_vars => PaidInv'
<1> SUFFICES ASSUME TypeInv, BidsInv, RefundInv, PaidInv, [Next]_vars, NEW y \in Rows
             PROVE  /\ bid'[y].status = "none" => xt'[y] = "none"
                    /\ bid'[y].status = "finished" => xt'[y] = "executed"
  BY DEF PaidInv, FinishedIsPaid
<1> LedgerOK /\ xt \in [Rows -> {"none", "pool", "executed", "dropped"}]
  BY DEF TypeInv, TypeOK, LedgerOK
<1> USE DEF PaidInv, FinishedIsPaid
<1>1. CASE MoneyStays
  BY <1>1 DEF MoneyStays
<1>2. CASE BidInserted
  BY <1>2 DEF BidInserted, InsertBid, LedgerOK
<1>3. CASE BidFinished
  BY <1>3 DEF BidFinished, FinishBid, LedgerOK, BidType
<1>4. CASE BidFailed
  BY <1>4 DEF BidFailed, FailBid, LedgerOK, BidType
<1>5. ASSUME NEW x \in Rows, Execute(x) \/ Drop(x)
      PROVE  /\ bid'[y].status = "none" => xt'[y] = "none"
             /\ bid'[y].status = "finished" => xt'[y] = "executed"
  BY <1>5 DEF Execute, Drop, db, ledger
<1> QED BY <1>1, <1>2, <1>3, <1>4, <1>5, MoneyMoves

\* What row x has brought of the money that no finished bid of b's accounts for.
Loose(b) ==
  [x \in Rows |-> IF bid[x].bidder = b /\ xt[x] = "executed" /\ bid[x].status # "finished"
                  THEN bid[x].amount ELSE 0]

(* The market's account holds what the extrinsics of the rows have moved.  *)
HeldInv == \A b \in Bidders : SumsTo(Rows, Loose(b), held[b] - finished[b])

LEMMA HeldInit == Init => PaidInv /\ HeldInv
<1> SUFFICES ASSUME Init PROVE PaidInv /\ HeldInv
  OBVIOUS
<1>1. \A b \in Bidders, x \in Rows : Loose(b)[x] = 0
  BY DEF Init, Loose
<1>2. \A b \in Bidders : held[b] - finished[b] = 0
  BY DEF Init
<1>3. \A b \in Bidders : SumsTo(Rows, Loose(b), 0)
  BY <1>1, SumOfZeroes
<1> QED BY <1>2, <1>3 DEF HeldInv, Init, PaidInv, FinishedIsPaid

LEMMA HeldStep == TypeInv /\ BidsInv /\ RefundInv /\ PaidInv /\ HeldInv /\ [Next]_vars => HeldInv'
<1> SUFFICES ASSUME TypeInv, BidsInv, RefundInv, PaidInv, HeldInv, [Next]_vars, NEW c \in Bidders
             PROVE  SumsTo(Rows, Loose(c)', held'[c] - finished'[c])
  BY DEF HeldInv
<1> /\ LedgerOK /\ LedgerOK' /\ held \in [Bidders -> Int] /\ held' \in [Bidders -> Int]
    /\ xt \in [Rows -> {"none", "pool", "executed", "dropped"}]
  BY TypeStep DEF TypeInv, TypeOK, LedgerOK
<1> USE DEF LedgerOK
<1>s. /\ SumsTo(Rows, Loose(c), held[c] - finished[c])
      /\ held[c] \in Int /\ finished[c] \in Int /\ held'[c] \in Int /\ finished'[c] \in Int
  BY DEF HeldInv
<1>1. CASE MoneyStays
  <2>1. Loose(c)' = Loose(c)
    BY <1>1 DEF MoneyStays, Loose
  <2> QED BY <1>1, <1>s, <2>1 DEF MoneyStays
\* One row changes and the difference of the two sums with it.
<1>2. ASSUME NEW x \in Rows, \A y \in Rows \ {x} : bid'[y] = bid[y] /\ xt'[y] = xt[y],
             Loose(c)'[x] - Loose(c)[x] = (held'[c] - finished'[c]) - (held[c] - finished[c])
      PROVE  SumsTo(Rows, Loose(c)', held'[c] - finished'[c])
  <2>1. \A y \in Rows : Loose(c)[y] \in Int /\ Loose(c)'[y] \in Int
    BY DEF Loose, BidType
  <2>2. \A y \in Rows \ {x} : Loose(c)'[y] = Loose(c)[y] /\ Loose(c)[y] \in Int
    BY <1>2, <2>1 DEF Loose
  <2>3. held[c] - finished[c] \in Int
    BY <1>s
  <2>4. SumsTo(Rows, Loose(c)', (held[c] - finished[c]) + (Loose(c)'[x] - Loose(c)[x]))
    BY <1>s, <2>1, <2>2, <2>3, SumMoves
  <2> QED BY <1>2, <1>s, <2>4
<1>3. ASSUME NEW x \in Rows, NEW b \in Bidders, NEW a \in Int, InsertBid(x, b, a),
             bid[x].status = "none", xt' \in {xt, [xt EXCEPT ![x] = "pool"]}, held' = held
      PROVE  SumsTo(Rows, Loose(c)', held'[c] - finished'[c])
  <2>1. \A y \in Rows \ {x} : bid'[y] = bid[y] /\ xt'[y] = xt[y]
    BY <1>3 DEF InsertBid
  <2>2. finished' = finished /\ xt[x] = "none" /\ xt'[x] # "executed"
    BY <1>3 DEF InsertBid, PaidInv
  <2>3. Loose(c)'[x] = 0 /\ Loose(c)[x] = 0
    BY <2>2 DEF Loose
  <2> QED BY <1>2, <1>3, <1>s, <2>1, <2>2, <2>3
<1>4. ASSUME NEW x \in Rows, FinishBid(x), bid[x].status = "minting", xt[x] = "executed",
             UNCHANGED <<xt, held>>
      PROVE  SumsTo(Rows, Loose(c)', held'[c] - finished'[c])
  <2>1. /\ \A y \in Rows \ {x} : bid'[y] = bid[y]
        /\ bid'[x].status = "finished" /\ bid[x].amount \in Int
    BY <1>4 DEF FinishBid, BidType
  <2>2. CASE bid[x].bidder = c
    <3>1. finished'[c] = finished[c] + bid[x].amount
      BY <1>4, <2>2 DEF FinishBid
    <3>2. Loose(c)'[x] = 0 /\ Loose(c)[x] = bid[x].amount
      BY <1>4, <2>1, <2>2 DEF Loose
    <3> QED BY <1>2, <1>4, <1>s, <2>1, <3>1, <3>2
  <2>3. CASE bid[x].bidder # c
    <3>1. finished'[c] = finished[c]
      BY <1>4, <2>3 DEF FinishBid
    <3>2. Loose(c)'[x] = 0 /\ Loose(c)[x] = 0
      BY <1>4, <2>1, <2>3 DEF Loose
    <3> QED BY <1>2, <1>4, <1>s, <2>1, <3>1, <3>2
  <2> QED BY <2>2, <2>3
<1>5. ASSUME NEW x \in Rows, FailBid(x), bid[x].status = "minting", UNCHANGED <<xt, held>>
      PROVE  SumsTo(Rows, Loose(c)', held'[c] - finished'[c])
  <2>1. /\ \A y \in Rows \ {x} : bid'[y] = bid[y]
        /\ bid'[x].status = "error" /\ bid'[x].amount = bid[x].amount
        /\ bid'[x].bidder = bid[x].bidder /\ finished' = finished
    BY <1>5 DEF FailBid, BidType
  <2>2. Loose(c)'[x] = Loose(c)[x] /\ Loose(c)[x] \in Int
    BY <1>5, <2>1 DEF Loose, BidType
  <2> QED BY <1>2, <1>5, <1>s, <2>1, <2>2
<1>6. ASSUME NEW x \in Rows, Execute(x)
      PROVE  SumsTo(Rows, Loose(c)', held'[c] - finished'[c])
  <2>1. /\ bid' = bid /\ finished' = finished /\ xt[x] = "pool" /\ xt'[x] = "executed"
        /\ \A y \in Rows \ {x} : xt'[y] = xt[y]
    BY <1>6 DEF Execute, db, ledger
  <2>2. bid[x].status # "finished" /\ bid[x].amount \in Int
    BY <2>1 DEF PaidInv, FinishedIsPaid, BidType
  <2>3. CASE bid[x].bidder = c
    <3>1. held'[c] = held[c] + bid[x].amount
      BY <1>6, <2>3 DEF Execute
    <3>2. Loose(c)'[x] = bid[x].amount /\ Loose(c)[x] = 0
      BY <2>1, <2>2, <2>3 DEF Loose
    <3>3. Loose(c)'[x] - Loose(c)[x] = (held'[c] - finished'[c]) - (held[c] - finished[c])
      BY <1>s, <2>1, <2>2, <3>1, <3>2
    <3> QED BY <1>2, <2>1, <3>3
  <2>4. CASE bid[x].bidder # c
    <3>1. held'[c] = held[c]
      BY <1>6, <2>4 DEF Execute
    <3>2. Loose(c)'[x] = 0 /\ Loose(c)[x] = 0
      BY <2>1, <2>2, <2>4 DEF Loose
    <3> QED BY <1>2, <1>s, <2>1, <3>1, <3>2
  <2> QED BY <2>3, <2>4
<1>7. ASSUME NEW x \in Rows, Drop(x)
      PROVE  SumsTo(Rows, Loose(c)', held'[c] - finished'[c])
  <2>1. /\ bid' = bid /\ finished' = finished /\ held' = held /\ xt[x] = "pool" /\ xt'[x] = "dropped"
        /\ \A y \in Rows \ {x} : xt'[y] = xt[y]
    BY <1>7 DEF Drop, db, ledger
  <2>2. Loose(c)'[x] = 0 /\ Loose(c)[x] = 0
    BY <2>1 DEF Loose
  <2> QED BY <1>2, <1>s, <2>1, <2>2
<1> QED BY <1>1, <1>3, <1>4, <1>5, <1>6, <1>7, MoneyMoves DEF BidInserted, BidFinished, BidFailed

-----------------------------------------------------------------------------
(* Closing.                                                                *)

\* The closing handler is at work, has refunded somebody or has sold the token.
Closing == closer.pc # "idle" \/ ~NoRefund \/ ask.status = "bought"

(* No request's bid is minting and no request will insert one.             *)
ClosingInv ==
  Closing => \A q \in Requests : /\ req[q].pc \notin {"open", "sent", "failing"}
                                 /\ bid[q].status # "minting"

\* An auction that is being closed accepts nothing.
LEMMA ClosingRefuses == OnceInv /\ RefundInv /\ Closing => ~Accepting
  BY DEF OnceInv, RefundInv, Closing, NoRefund, Accepting

LEMMA ClosingBefore ==
  ASSUME TypeInv, BidsInv, [Next]_vars, Closing'
  PROVE  Closing \/ ClosePick
<1> SUFFICES ASSUME closer.pc = "idle", NoRefund, ask.status # "bought", ~ClosePick PROVE FALSE
  BY DEF Closing
<1> USE DEF Next, Handle, Close, PlaceBegin, PlaceCommit, Succeed, PlaceFailBegin, PlaceFailCommit,
            WithdrawBegin, WithdrawCommit, WithdrawFail, CancelBegin, CancelCommit, CancelReturn, Abort,
            StopFind, StopWrite, CloseMark, CloseUnsold, CloseWithWinner, Refund,
            NothingToRefund, RefundEnd, SendToken, PaySeller, PayFails, EndAtOnce, BuyAsk, EndSale, RecordSale, ReturnUnsold,
            Execute, Drop, ApiCrash, CloserCrash, vars
<1>1. closer'.pc = "idle"
  <2>1. IdleCloser.pc = "idle"
    BY DEF IdleCloser
  <2> QED BY <2>1 DEF escrow
<1>2. ask'.status # "bought"
  BY DEF db, TypeInv, TypeOK, AskType
<1>3. NoRefund'
  <2> SUFFICES ASSUME NEW b \in Bidders PROVE bid'[b] = bid[b]
    BY DEF NoRefund
  <2>1. LedgerOK /\ b \notin Requests
    BY ConstantsAssumption DEF TypeInv, TypeOK, LedgerOK
  <2> DEFINE Moved == \/ bid' = bid
                      \/ \E r \in Requests : \/ InsertBid(r, req[r].bidder, req[r].amount)
                                             \/ FinishBid(r) \/ FailBid(r)
  <2>2. Moved
    <3> SUFFICES Moved OBVIOUS
    <3>1. ASSUME NEW r \in Requests, PlaceCommit(r) \/ WithdrawCommit(r)
          PROVE  InsertBid(r, req[r].bidder, req[r].amount)
      BY <3>1
    <3>2. ASSUME NEW r \in Requests, Succeed(r) \/ PlaceFailCommit(r) \/ WithdrawFail(r)
          PROVE  FinishBid(r) \/ FailBid(r)
      BY <3>2
    <3>3. ASSUME NEW c \in Bidders, Refund(c) PROVE FALSE
      BY <3>3
    <3>4. ~RefundEnd
      OBVIOUS
    <3>5. ASSUME NEW r \in Requests,
                 CancelCommit(r) \/ CancelReturn(r) \/ Abort(r) \/ PlaceFailBegin(r)
          PROVE  bid' = bid
      BY <3>5 DEF db, ledger
    <3> HIDE DEF PlaceCommit, Succeed, PlaceFailCommit, WithdrawCommit, WithdrawFail, CancelCommit,
                 CancelReturn, Abort, PlaceFailBegin, Refund, RefundEnd
    <3>6. ASSUME StopFind \/ StopWrite \/ CloseMark \/ CloseUnsold \/ SendToken \/ PaySeller \/ PayFails
                 \/ EndAtOnce \/ BuyAsk \/ EndSale \/ RecordSale \/ ReturnUnsold \/ ApiCrash \/ CloserCrash \/ UNCHANGED vars
          PROVE  bid' = bid
      BY <3>6 DEF db, ledger
    <3>7. ASSUME NEW c \in Bidders, CloseWithWinner(c) \/ NothingToRefund(c) PROVE bid' = bid
      BY <3>7 DEF db, ledger
    <3>8. ASSUME NEW x \in Rows, Execute(x) \/ Drop(x) PROVE bid' = bid
      BY <3>8 DEF db, ledger
    <3>9. ASSUME NEW r \in Requests,
                 \/ \E c \in Bidders, a \in Offers : PlaceBegin(r, c, a)
                 \/ \E c \in Bidders : WithdrawBegin(r, c)
                 \/ CancelBegin(r)
          PROVE  bid' = bid
      BY <3>9 DEF db, ledger
    <3> HIDE DEF StopFind, StopWrite, CloseMark, CloseUnsold, SendToken, PaySeller, PayFails, EndAtOnce, BuyAsk, EndSale, RecordSale,
                 ReturnUnsold, ApiCrash, CloserCrash, CloseWithWinner, NothingToRefund, Execute, Drop,
                 PlaceBegin, WithdrawBegin, CancelBegin, InsertBid, FinishBid, FailBid
    <3>a. CASE \E r \in Requests : Handle(r)
      BY <3>1, <3>2, <3>5, <3>a
    <3>b. CASE Close
      BY <3>3, <3>4, <3>6, <3>7, <3>b
    <3>c. bid' = bid => Moved
      OBVIOUS
    <3> HIDE DEF Handle, Close, Moved
    <3> QED BY <3>6, <3>8, <3>9, <3>a, <3>b, <3>c
  <2> HIDE DEF Next
  <2>3. ASSUME NEW r \in Requests,
               InsertBid(r, req[r].bidder, req[r].amount) \/ FinishBid(r) \/ FailBid(r)
        PROVE  bid'[b] = bid[b]
    BY <2>1, <2>3 DEF InsertBid, FinishBid, FailBid, LedgerOK, Rows
  <2> QED BY <2>2, <2>3
<1> QED BY <1>1, <1>2, <1>3 DEF Closing

LEMMA ClosingStep ==
  ASSUME PromptTransactions, TypeInv, OnceInv, BidsInv, RefundInv, ClosingInv, [Next]_vars
  PROVE  ClosingInv'
<1> SUFFICES ASSUME Closing', NEW q \in Requests
             PROVE  /\ req'[q].pc \notin {"open", "sent", "failing"}
                    /\ bid'[q].status # "minting"
  BY DEF ClosingInv
<1>1. CASE ClosePick
  BY <1>1 DEF ClosePick, InTransaction, BidsInv, Rows, db, ledger
<1>2. CASE Closing
  <2>1. req[q].pc \notin {"open", "sent", "failing"} /\ bid[q].status # "minting" /\ ~Accepting
    BY <1>2, ClosingRefuses DEF ClosingInv
  <2>2. /\ ~CancelBegin(q) /\ ~PlaceFailBegin(q) /\ ~PlaceCommit(q) /\ ~WithdrawCommit(q)
        /\ ~CancelCommit(q) /\ ~Succeed(q) /\ ~PlaceFailCommit(q) /\ ~WithdrawFail(q)
        /\ \A b \in Bidders : ~WithdrawBegin(q, b)
        /\ \A b \in Bidders, a \in Offers : ~PlaceBegin(q, b, a)
    BY <2>1 DEF CancelBegin, PlaceFailBegin, PlaceCommit, WithdrawCommit, CancelCommit, Succeed,
                PlaceFailCommit, WithdrawFail, WithdrawBegin, PlaceBegin
  <2>3. req'[q].pc \notin {"open", "sent", "failing"}
    BY <2>1, <2>2, RequestMoves DEF Resumed, DoneRequest, IdleRequest
  <2>4. bid'[q] = bid[q]
    BY <2>2, RequestRowMoves
  <2> QED BY <2>1, <2>3, <2>4
<1> QED BY <1>1, <1>2, ClosingBefore

(* What went wrong with a row: a row is in error, and a bid is failing,    *)
(* when its extrinsic was dropped, if no watch of an extrinsic is lost.    *)
ErrorInv ==
  /\ \A x \in Rows : bid[x].status = "error" => xt[x] = "dropped"
  /\ \A q \in Requests : req[q].pc = "failing" => xt[q] = "dropped"

LEMMA ErrorStep ==
  ASSUME "watchLost" \notin Faults, TypeInv, BidsInv, RefundInv, PaidInv, ErrorInv, [Next]_vars
  PROVE  ErrorInv'
<1> LedgerOK /\ xt \in [Rows -> {"none", "pool", "executed", "dropped"}]
  BY DEF TypeInv, TypeOK, LedgerOK
\* An extrinsic that was dropped stays so.
<1>1. ASSUME NEW x \in Rows, xt[x] = "dropped" PROVE xt'[x] = "dropped"
  <2>1. CASE BidInserted
    BY <1>1, <2>1 DEF BidInserted, PaidInv
  <2>2. ASSUME NEW y \in Rows, Execute(y) \/ Drop(y) PROVE xt'[x] = "dropped"
    BY <1>1, <2>2 DEF Execute, Drop
  <2> QED BY <1>1, <2>1, <2>2, MoneyMoves DEF MoneyStays, BidFinished, BidFailed
<1>2. ASSUME NEW x \in Rows, bid'[x].status = "error" PROVE xt'[x] = "dropped"
  <2>1. CASE bid[x].status = "error"
    BY <1>1, <2>1 DEF ErrorInv
  <2>2. CASE bid[x].status # "error"
    <3>1. ASSUME NEW y \in Rows, FailBid(y),
                 Rejected(y) \/ (y \in Requests /\ req[y].pc = "failing")
          PROVE  xt[x] = "dropped"
      <4>1. x = y
        BY <1>2, <2>2, <3>1 DEF FailBid, LedgerOK
      <4> QED BY <3>1, <4>1 DEF Rejected, ErrorInv
    <3>2. CASE BidInserted
      BY <1>2, <2>2, <3>2 DEF BidInserted, InsertBid, LedgerOK
    <3>3. CASE BidFinished
      BY <1>2, <2>2, <3>3 DEF BidFinished, FinishBid, LedgerOK, BidType
    <3>4. ASSUME NEW y \in Rows, Execute(y) \/ Drop(y) PROVE FALSE
      BY <1>2, <2>2, <3>4 DEF Execute, Drop, db, ledger
    <3> QED BY <1>1, <1>2, <2>2, <3>1, <3>2, <3>3, <3>4, MoneyMoves DEF MoneyStays, BidFailed
  <2> QED BY <2>1, <2>2
<1>3. ASSUME NEW q \in Requests, req'[q].pc = "failing" PROVE xt'[q] = "dropped"
  <2>1. CASE PlaceFailBegin(q)
    <3>1. Rejected(q) /\ q \in Rows
      BY <2>1 DEF PlaceFailBegin, Rows
    <3> QED BY <1>1, <3>1 DEF Rejected
  <2>2. CASE Resumed(q)
    BY <1>1, <1>3, <2>2 DEF Resumed, ErrorInv, Rows
  <2> req \in [Requests -> RequestType]
    BY DEF TypeInv, TypeOK
  <2>3. /\ req'[q] # DoneRequest
        /\ req'[q] # [req[q] EXCEPT !.pc = "sent", !.missed = {}]
        /\ req'[q] # [req[q] EXCEPT !.pc = "returning", !.missed = {}]
    BY <1>3 DEF DoneRequest, IdleRequest, RequestType
  <2>4. /\ ~CancelBegin(q) /\ (\A b \in Bidders : ~WithdrawBegin(q, b))
        /\ \A b \in Bidders, a \in Offers : ~PlaceBegin(q, b, a)
    BY <1>3 DEF CancelBegin, WithdrawBegin, PlaceBegin, RequestType
  <2> QED BY <2>1, <2>2, <2>3, <2>4, RequestMoves
<1> QED BY <1>2, <1>3 DEF ErrorInv

\* How a request that waits for its extrinsic ends.
LEMMA SentEnds ==
  ASSUME TypeInv, [Next]_vars, NEW q \in Requests, req[q].pc = "sent", req'[q].pc # "sent"
  PROVE  Succeed(q) \/ WithdrawFail(q) \/ PlaceFailBegin(q) \/ ApiCrash
<1> req \in [Requests -> RequestType]
  BY DEF TypeInv, TypeOK
<1>1. ASSUME NEW rows \in SUBSET {"ask", "auction"}, req' = Missing(rows) PROVE FALSE
  BY <1>1, MissingKeeps
<1>2. ASSUME NEW r \in Requests, NEW s \in RequestType, NEW rows \in SUBSET {"ask", "auction"},
             r # q, MoveOn(r, s, rows)
      PROVE  FALSE
  <2>1. req'[q] = Missing(rows)[q]
    BY <1>2, MoveOnKeeps
  <2>2. Missing(rows)[q].pc = req[q].pc
    BY MissingKeeps
  <2> QED BY <2>1, <2>2
<1>3. ASSUME NEW r \in Requests, PlaceCommit(r) \/ CancelCommit(r) PROVE FALSE
  <2> req[r] \in RequestType
    OBVIOUS
  <2>1. /\ r # q
        /\ [req[r] EXCEPT !.pc = "sent", !.missed = {}] \in RequestType
        /\ [req[r] EXCEPT !.pc = "returning", !.missed = {}] \in RequestType
    BY <1>3 DEF PlaceCommit, CancelCommit, RequestType
  <2> QED BY <1>2, <1>3, <2>1 DEF PlaceCommit, CancelCommit
<1>4. ASSUME NEW r \in Requests, PlaceFailCommit(r) \/ CancelReturn(r) PROVE FALSE
  <2>1. r # q
    BY <1>4 DEF PlaceFailCommit, CancelReturn
  <2> QED BY <1>2, <1>4, <2>1, RestingTypes DEF PlaceFailCommit, CancelReturn
<1>5. ASSUME NEW r \in Requests,
             \/ \E b \in Bidders, a \in Offers : PlaceBegin(r, b, a)
             \/ \E b \in Bidders : WithdrawBegin(r, b)
             \/ CancelBegin(r) \/ WithdrawCommit(r) \/ Abort(r)
      PROVE  FALSE
  BY <1>5 DEF PlaceBegin, WithdrawBegin, CancelBegin, WithdrawCommit, Abort, InTransaction
<1>6. ASSUME NEW r \in Requests, r # q, Succeed(r) \/ WithdrawFail(r) \/ PlaceFailBegin(r) PROVE FALSE
  BY <1>6 DEF Succeed, WithdrawFail, PlaceFailBegin
<1>7. ASSUME \/ StopWrite \/ CloseMark \/ CloseUnsold \/ EndAtOnce \/ SendToken
             \/ BuyAsk \/ EndSale \/ ReturnUnsold
      PROVE  FALSE
  BY <1>1, <1>7 DEF StopWrite, CloseMark, CloseUnsold, CancelAsk, EndAtOnce, SendToken, BuyAsk,
                    EndSale, ReturnUnsold
<1>8. ASSUME NEW w \in Bidders, CloseWithWinner(w) PROVE FALSE
  BY <1>1, <1>8 DEF CloseWithWinner, CancelAsk
<1> QED BY <1>3, <1>4, <1>5, <1>6, <1>7, <1>8
       DEF Next, Handle, Close, StopFind, ClosePick, Refund, NothingToRefund, RefundEnd, PaySeller,
           PayFails, RecordSale, Execute, Drop, CloserCrash, vars

(* A bid whose extrinsic is pending or done is waited for, if the API      *)
(* process does not crash and no watch of an extrinsic is lost.            *)
WaitedInv ==
  \A q \in Requests :
    bid[q].status = "minting" /\ xt[q] \in {"pool", "executed"} => req[q].pc = "sent"

LEMMA WaitedStep ==
  ASSUME {"watchLost", "apiCrash"} \cap Faults = {}, TypeInv, BidsInv, RefundInv, PaidInv, WaitedInv,
         [Next]_vars
  PROVE  WaitedInv'
<1> SUFFICES ASSUME NEW q \in Requests, bid'[q].status = "minting", xt'[q] \in {"pool", "executed"},
                    req'[q].pc # "sent"
             PROVE  FALSE
  BY DEF WaitedInv
<1> /\ LedgerOK /\ xt \in [Rows -> {"none", "pool", "executed", "dropped"}] /\ q \in Rows
    /\ req \in [Requests -> RequestType]
  BY DEF TypeInv, TypeOK, LedgerOK, Rows
<1>1. ~PlaceCommit(q)
  <2>1. ASSUME PlaceCommit(q) PROVE req'[q].pc = "sent"
    <3>1. req[q] \in RequestType
      OBVIOUS
    <3>2. [req[q] EXCEPT !.pc = "sent", !.missed = {}] \in RequestType
      BY <3>1 DEF RequestType
    <3>3. req'[q] = [req[q] EXCEPT !.pc = "sent", !.missed = {}]
      <4>1. PICK s \in RequestType :
              s = [req[q] EXCEPT !.pc = "sent", !.missed = {}] /\ MoveOn(q, s, {"ask"})
        BY <2>1, <3>2 DEF PlaceCommit
      <4>2. req'[q] = s
        BY <4>1, MoveOnKeeps
      <4> QED BY <4>1, <4>2
    <3> QED BY <3>1, <3>3 DEF RequestType
  <2> QED BY <2>1
<1>2. ~WithdrawCommit(q)
  BY DEF WithdrawCommit, BidsInv, PaidInv, RequestType
<1>3. ~Succeed(q) /\ ~WithdrawFail(q) /\ ~PlaceFailCommit(q)
  BY DEF Succeed, WithdrawFail, PlaceFailCommit, FinishBid, FailBid, LedgerOK, BidType
<1>4. bid'[q] = bid[q]
  BY <1>1, <1>2, <1>3, RequestRowMoves
<1>5. xt[q] \in {"pool", "executed"}
  <2>1. CASE BidInserted
    BY <1>4, <2>1 DEF BidInserted, InsertBid, LedgerOK
  <2>2. ASSUME NEW x \in Rows, Execute(x) \/ Drop(x) PROVE xt[q] \in {"pool", "executed"}
    BY <2>2 DEF Execute, Drop
  <2> QED BY <2>1, <2>2, MoneyMoves DEF MoneyStays, BidFinished, BidFailed
<1>6. req[q].pc = "sent"
  BY <1>4, <1>5 DEF WaitedInv
<1>7. ~PlaceFailBegin(q)
  BY <1>5 DEF PlaceFailBegin, Rejected
<1> QED BY <1>3, <1>6, <1>7, SentEnds DEF ApiCrash

-----------------------------------------------------------------------------
(* The winner is charged the price.                                        *)

\* With nothing minting the sum of what the winner has finished is the price.
LEMMA WinnerAtPrice ==
  ASSUME PricingInv, LadderInv, ClosingInv, NEW w \in Bidders, CloseWithWinner(w)
  PROVE  finished[w] = ask.price
<1> TypeInv /\ BidsInv /\ SumsInv /\ AskerInv /\ OneAsker /\ RefundInv
  BY DEF PricingInv
<1>1. closer.pc = "marked" /\ w \in Leaders(Bidding({"finished"}), finished)
  BY DEF CloseWithWinner
<1>2. \A q \in Requests : req[q].pc \notin {"open", "sent", "failing"} /\ bid[q].status # "minting"
  BY <1>1 DEF ClosingInv, Closing
<1>3. Early
  BY <1>1, <1>2 DEF RefundInv, Early, NoRefund, NoneAbandoned, Abandoned
<1>4. Ladder
  BY <1>3 DEF LadderInv
<1>5. ASSUME NEW b \in Bidders PROVE Top(b) = finished[b]
  <2>1. \A q \in Requests : req[q].pc \in {"sent", "failing"} => req[q].bidder # b
    BY <1>2
  <2>2. minting[b] = 0
    BY <1>3, <1>5, <2>1, MintingIs
  <2> QED BY <2>2, LadderTypes DEF Top
<1>6. finished[w] <= ask.price
  BY <1>4, <1>5 DEF Ladder, UnderPrice
<1>7. ~NoLiveBid
  BY <1>1 DEF Leaders, Bidding, NoLiveBid, Live
<1>8. PICK b \in Bidders : finished[b] = ask.price
  BY <1>4, <1>5, <1>7 DEF Ladder, PriceReached
<1>9. finished[b] > 0
  BY <1>4, <1>8, LadderTypes DEF Ladder, AtLeastStart
<1>10. b \in Bidding({"finished"})
  BY <1>9, RowsBehind DEF Bidding
<1>11. finished[b] <= finished[w]
  BY <1>1, <1>10 DEF Leaders
<1> QED BY <1>6, <1>8, <1>11, LadderTypes

ChargedInv == closer.pc \in WinnerStates => closer.owed[closer.winner] = closer.price

LEMMA ChargedStep ==
  ASSUME PricingInv, LadderInv, ClosingInv, ChargedInv, [Next]_vars
  PROVE  ChargedInv'
<1> SUFFICES ASSUME closer'.pc \in WinnerStates PROVE closer'.owed[closer'.winner] = closer'.price
  BY DEF ChargedInv
<1> closer \in CloserType /\ IdleCloser.pc = "idle"
  BY DEF PricingInv, TypeInv, TypeOK, IdleCloser
<1>1. ASSUME NEW w \in Bidders, CloseWithWinner(w)
      PROVE  closer'.owed[closer'.winner] = closer'.price
  <2>1. closer'.winner = w /\ closer'.owed = finished /\ closer'.price = ask.price
    BY <1>1 DEF CloseWithWinner, CloserType
  <2> QED BY <1>1, <2>1, WinnerAtPrice
<1>2. CASE /\ closer.pc \in WinnerStates
           /\ closer'.winner = closer.winner /\ closer'.owed = closer.owed /\ closer'.price = closer.price
  BY <1>2 DEF ChargedInv
<1>3. CASE closer' = closer
  BY <1>2, <1>3
<1>4. ASSUME NEW b \in Bidders, Refund(b) \/ NothingToRefund(b)
      PROVE  closer'.owed[closer'.winner] = closer'.price
  BY <1>2, <1>4 DEF Refund, NothingToRefund, CloserType, WinnerStates
<1>5. CASE RefundEnd \/ SendToken \/ PaySeller \/ EndAtOnce \/ BuyAsk \/ EndSale
  BY <1>2, <1>5 DEF RefundEnd, SendToken, PaySeller, EndAtOnce, BuyAsk, EndSale, CloserType, WinnerStates
<1>6. ~(ClosePick \/ CloseMark \/ CloseUnsold \/ PayFails \/ RecordSale \/ ReturnUnsold \/ CloserCrash)
  BY DEF ClosePick, CloseMark, CloseUnsold, PayFails, RecordSale, ReturnUnsold, CloserCrash,
         CloserType, WinnerStates
<1> QED BY <1>1, <1>3, <1>4, <1>5, <1>6
       DEF Next, Handle, Close, PlaceBegin, PlaceCommit, Succeed, PlaceFailBegin, PlaceFailCommit,
           WithdrawBegin, WithdrawCommit, WithdrawFail, CancelBegin, CancelCommit, CancelReturn, Abort,
           StopFind, StopWrite, Execute, Drop, ApiCrash, vars, escrow

(* The winner is charged the price that the ask shows, when bidders wait   *)
(* for their answers, the market's transfers succeed and closing overtakes *)
(* no transaction, although getWinningBid sums the finished bids and the   *)
(* ask's price is kept by tryPlacePendingBid and handleBidTxFail.          *)
THEOREM WinnerPaysPrice ==
  ASSUME Smooth, PromptTransactions PROVE Spec => []Charged
<1> DEFINE Inv == PricingInv /\ OfferInv /\ LadderInv /\ ClosingInv /\ ChargedInv
<1>1. Init => Inv
  <2>1. Init => ClosingInv /\ ChargedInv
    BY DEF Init, ClosingInv, ChargedInv, IdleRequest, IdleCloser, Rows, WinnerStates
  <2> QED BY <2>1, PricingInit, LadderInit
<1>2. Inv /\ [Next]_vars => Inv'
  BY PricingStep, OfferStep, LadderStep, ClosingStep, ChargedStep DEF Smooth, PricingInv
<1>3. Inv => Charged
  BY DEF ChargedInv, Charged, WinnerStates
<1> HIDE DEF Inv
<1> QED BY <1>1, <1>2, <1>3, PTL DEF Spec

-----------------------------------------------------------------------------
(* Nobody is paid twice.                                                   *)

\* Once closing has begun the requests neither insert bids nor finish them.
LEMMA ClosingStops ==
  ASSUME OnceInv, RefundInv, ClosingInv, Closing, NEW q \in Requests
  PROVE  /\ ~PlaceCommit(q) /\ ~WithdrawCommit(q) /\ ~CancelCommit(q) /\ ~Succeed(q)
         /\ ~PlaceFailCommit(q) /\ ~WithdrawFail(q) /\ ~Abort(q)
<1>1. req[q].pc \notin {"open", "sent", "failing"}
  BY DEF ClosingInv
<1> QED BY <1>1 DEF PlaceCommit, WithdrawCommit, CancelCommit, Succeed, PlaceFailCommit, WithdrawFail,
                    Abort, InTransaction

\* The row of a refund is written by the closing handler alone.
LEMMA RefundRowMoves ==
  ASSUME TypeInv, RefundInv, [Next]_vars, NEW b \in Bidders
  PROVE  bid'[b] = bid[b] \/ Refund(b) \/ (RefundEnd /\ closer.current = b)
<1> LedgerOK /\ b \notin Requests /\ b \in Rows
  BY ConstantsAssumption DEF TypeInv, TypeOK, LedgerOK, Rows
<1>1. ASSUME NEW r \in Requests,
             PlaceCommit(r) \/ WithdrawCommit(r) \/ Succeed(r) \/ PlaceFailCommit(r) \/ WithdrawFail(r)
      PROVE  bid'[b] = bid[b]
  <2>1. InsertBid(r, req[r].bidder, req[r].amount) \/ FinishBid(r) \/ FailBid(r)
    BY <1>1 DEF PlaceCommit, WithdrawCommit, Succeed, PlaceFailCommit, WithdrawFail
  <2> QED BY <2>1 DEF InsertBid, FinishBid, FailBid, LedgerOK
<1>2. ASSUME NEW c \in Bidders, Refund(c), c # b PROVE bid'[b] = bid[b]
  BY <1>2 DEF Refund, InsertBid, LedgerOK
<1>3. ASSUME RefundEnd, closer.current # b PROVE bid'[b] = bid[b]
  BY <1>3 DEF RefundEnd, FinishBid, FailBid, LedgerOK
<1> QED BY <1>1, <1>2, <1>3
       DEF Next, Handle, Close, PlaceBegin, WithdrawBegin, CancelBegin, PlaceFailBegin, CancelCommit,
           CancelReturn, Abort, StopFind, StopWrite, ClosePick, CloseMark, CloseUnsold,
           CloseWithWinner, NothingToRefund, SendToken, PaySeller, PayFails, EndAtOnce, BuyAsk, EndSale, RecordSale,
           ReturnUnsold, Execute, Drop, ApiCrash, CloserCrash, vars, db, ledger

(* A refund takes all that its bidder has, and nobody ever has less than   *)
(* nothing.                                                                *)
NoDebt == \A b \in Bidders : finished[b] >= 0

RefundsAll ==
  \A b \in Bidders : bid[b].status = "minting" =>
    bid[b].bidder = b /\ finished[b] > 0 /\ bid[b].amount = -finished[b]

OwedIsFinished ==
  closer.pc \in {"alone", "refunding", "awaiting"} =>
    \A b \in closer.losers : closer.owed[b] = finished[b]

\* The books of one auction while its bidders wait and nothing overtakes anything.
BooksInv ==
  /\ TypeInv /\ OnceInv /\ BidsInv /\ RefundInv /\ SumsInv /\ AskerInv /\ OneAsker /\ LeaveInv
  /\ PaidInv /\ HeldInv /\ ClosingInv /\ NoDebt /\ RefundsAll /\ OwedIsFinished

\* What the end of a refund leaves its bidder.
LEMMA RefundEnds ==
  ASSUME BooksInv, RefundEnd
  PROVE  /\ closer.current \in Bidders /\ closer.current \notin closer.losers
         /\ \/ finished' = finished
            \/ finished' = [finished EXCEPT ![closer.current] = 0]
<1> DEFINE c == closer.current
<1>1. c \in Bidders /\ bid[c].status = "minting" /\ c \notin closer.losers
  BY DEF RefundEnd, BooksInv, RefundInv, TypeInv, WinnerKnown
<1>2. bid[c].bidder = c /\ bid[c].amount = -finished[c]
  BY <1>1 DEF BooksInv, RefundsAll
<1>3. finished[c] \in Int
  BY <1>1 DEF BooksInv, TypeInv, TypeOK
<1>4. CASE FinishBid(c)
  <2>1. finished' = [finished EXCEPT ![c] = finished[c] + bid[c].amount]
    BY <1>2, <1>4 DEF FinishBid
  <2>2. finished[c] + bid[c].amount = 0
    BY <1>2, <1>3
  <2> QED BY <1>1, <2>1, <2>2
<1>5. CASE FailBid(c)
  BY <1>1, <1>5 DEF FailBid
<1> QED BY <1>1, <1>4, <1>5 DEF RefundEnd

\* A request that succeeds leaves its bidder something or nothing, never a debt.
LEMMA SuccessLeaves ==
  ASSUME BooksInv, NEW q \in Requests, Succeed(q)
  PROVE  /\ ~Closing
         /\ \E b \in Bidders, a \in Nat : finished' = [finished EXCEPT ![b] = a]
<1> DEFINE b == req[q].bidder
<1>1. req[q].pc = "sent"
  BY DEF Succeed
<1>2. ~Closing
  BY <1>1 DEF BooksInv, ClosingInv
<1>3. Asks(q) /\ b \in Bidders /\ bid[q].bidder = b /\ bid[q].amount = req[q].amount
      /\ req[q].kind \in {"place", "withdraw"} /\ (req[q].kind = "place" => req[q].amount >= 0)
  BY <1>1 DEF BooksInv, AskerInv, Asks
<1>4. req[q].kind = "withdraw" => req[q].amount = -finished[b]
  BY <1>2, <1>3 DEF BooksInv, LeaveInv, Closing
<1>5. finished[b] \in Int /\ finished[b] >= 0 /\ req[q].amount \in Int
  BY <1>3 DEF BooksInv, NoDebt, TypeInv, TypeOK, RequestType
<1>6. finished[b] + req[q].amount \in Nat
  BY <1>3, <1>4, <1>5
<1>7. finished' = [finished EXCEPT ![b] = finished[b] + req[q].amount]
  BY <1>3 DEF Succeed, FinishBid
<1> QED BY <1>2, <1>3, <1>6, <1>7

LEMMA NoDebtStep ==
  ASSUME BooksInv, [Next]_vars
  PROVE  NoDebt'
<1> finished \in [Bidders -> Int] /\ NoDebt /\ TypeInv /\ BidsInv /\ RefundInv
  BY DEF BooksInv, TypeInv, TypeOK
<1>1. CASE finished' = finished
  BY <1>1 DEF NoDebt
<1>2. ASSUME NEW b \in Bidders, NEW a \in Nat, finished' = [finished EXCEPT ![b] = a] PROVE NoDebt'
  BY <1>2 DEF NoDebt
<1>3. ASSUME RefundEnd PROVE NoDebt'
  BY <1>1, <1>2, <1>3, RefundEnds
<1>4. ASSUME NEW q \in Requests, Succeed(q) PROVE NoDebt'
  BY <1>2, <1>4, SuccessLeaves
<1> QED BY <1>1, <1>3, <1>4, ReceivedMoves

LEMMA RefundsAllStep ==
  ASSUME BooksInv, [Next]_vars
  PROVE  RefundsAll'
<1> SUFFICES ASSUME NEW b \in Bidders, bid'[b].status = "minting"
             PROVE  bid'[b].bidder = b /\ finished'[b] > 0 /\ bid'[b].amount = -finished'[b]
  BY DEF RefundsAll
<1> LedgerOK /\ TypeInv /\ BidsInv /\ RefundInv /\ b \in Rows
  BY DEF BooksInv, TypeInv, TypeOK, LedgerOK, Rows
<1>1. ASSUME Refund(b) PROVE bid'[b].bidder = b /\ finished'[b] > 0 /\ bid'[b].amount = -finished'[b]
  <2>1. closer.owed[b] = finished[b] /\ closer.owed[b] > 0
    BY <1>1 DEF Refund, Leaders, BooksInv, OwedIsFinished
  <2> QED BY <1>1, <2>1 DEF Refund, InsertBid, LedgerOK
<1>2. ~(RefundEnd /\ closer.current = b)
  BY DEF RefundEnd, FinishBid, FailBid, LedgerOK, BidType
<1>3. ASSUME bid'[b] = bid[b] PROVE bid'[b].bidder = b /\ finished'[b] > 0 /\ bid'[b].amount = -finished'[b]
  <2>1. bid[b].bidder = b /\ finished[b] > 0 /\ bid[b].amount = -finished[b]
    BY <1>3 DEF BooksInv, RefundsAll
  <2>2. Closing
    BY <1>3 DEF Closing, NoRefund
  <2>3. \A q \in Requests : ~Succeed(q)
    BY <2>2, SuccessLeaves
  <2>4. RefundEnd => finished'[b] = finished[b]
    BY <1>2, RefundEnds DEF LedgerOK
  <2>5. finished'[b] = finished[b]
    BY <2>3, <2>4, ReceivedMoves
  <2> QED BY <1>3, <2>1, <2>5
<1> QED BY <1>1, <1>2, <1>3, RefundRowMoves

LEMMA OwedStep ==
  ASSUME BooksInv, [Next]_vars
  PROVE  OwedIsFinished'
<1> SUFFICES ASSUME closer'.pc \in {"alone", "refunding", "awaiting"}, NEW b \in Bidders, b \in closer'.losers
             PROVE  closer'.owed[b] = finished'[b]
  <2>1. closer'.losers \subseteq Bidders
    BY TypeStep DEF BooksInv, TypeInv, TypeOK, CloserType
  <2> QED BY <2>1 DEF OwedIsFinished
<1> /\ TypeInv /\ BidsInv /\ RefundInv /\ closer \in CloserType /\ finished \in [Bidders -> Int]
    /\ IdleCloser.pc = "idle"
  BY DEF BooksInv, TypeInv, TypeOK, IdleCloser
<1>1. ASSUME NEW w \in Bidders, CloseWithWinner(w) PROVE closer'.owed[b] = finished'[b]
  BY <1>1 DEF CloseWithWinner, CloserType, ledger
<1>2. ASSUME closer.pc \in {"alone", "refunding", "awaiting"}, closer'.owed = closer.owed, b \in closer.losers
      PROVE  closer'.owed[b] = finished'[b]
  <2>1. closer.owed[b] = finished[b]
    BY <1>2 DEF BooksInv, OwedIsFinished
  <2>2. \A q \in Requests : ~Succeed(q)
    BY <1>2, SuccessLeaves DEF Closing
  <2>3. RefundEnd => finished'[b] = finished[b]
    BY <1>2, RefundEnds
  <2> QED BY <1>2, <2>1, <2>2, <2>3, ReceivedMoves
<1>3. CASE closer' = closer
  BY <1>2, <1>3
<1>4. ASSUME NEW c \in Bidders, Refund(c) \/ NothingToRefund(c) PROVE closer'.owed[b] = finished'[b]
  BY <1>2, <1>4 DEF Refund, NothingToRefund, CloserType
<1>5. CASE RefundEnd \/ EndAtOnce
  BY <1>2, <1>5 DEF RefundEnd, EndAtOnce, CloserType
<1>6. ~(ClosePick \/ CloseMark \/ CloseUnsold \/ SendToken \/ PaySeller \/ PayFails \/ BuyAsk \/ EndSale
        \/ RecordSale \/ ReturnUnsold \/ CloserCrash)
  BY DEF ClosePick, CloseMark, CloseUnsold, SendToken, PaySeller, PayFails, BuyAsk, EndSale,
         RecordSale, ReturnUnsold, CloserCrash, CloserType
<1> QED BY <1>1, <1>3, <1>4, <1>5, <1>6
       DEF Next, Handle, Close, PlaceBegin, PlaceCommit, Succeed, PlaceFailBegin, PlaceFailCommit,
           WithdrawBegin, WithdrawCommit, WithdrawFail, CancelBegin, CancelCommit, CancelReturn, Abort,
           StopFind, StopWrite, Execute, Drop, ApiCrash, vars, escrow

LEMMA BooksInit == Init => BooksInv
<1> SUFFICES ASSUME Init PROVE BooksInv
  OBVIOUS
<1>1. TypeInv /\ OnceInv /\ BidsInv /\ RefundInv /\ SumsInv /\ AskerInv /\ OneAsker /\ PaidInv /\ HeldInv
  BY TypeInit, OnceInit, BidsInit, RefundInit, SumsInit, AskerInit, HeldInit
<1>2. LeaveInv /\ ClosingInv
  BY DEF Init, LeaveInv, ClosingInv, Asks, IdleRequest, Rows
<1>3. NoDebt /\ RefundsAll /\ OwedIsFinished
  BY DEF Init, NoDebt, RefundsAll, OwedIsFinished, Rows, IdleCloser
<1> QED BY <1>1, <1>2, <1>3 DEF BooksInv

LEMMA BooksStep ==
  ASSUME PatientBidders, PromptTransactions, BooksInv, [Next]_vars
  PROVE  BooksInv'
<1>1. TypeInv /\ OnceInv /\ BidsInv /\ RefundInv /\ SumsInv /\ AskerInv /\ OneAsker /\ LeaveInv
      /\ PaidInv /\ HeldInv /\ ClosingInv
  BY DEF BooksInv
<1>2. TypeInv' /\ OnceInv' /\ BidsInv' /\ RefundInv' /\ SumsInv' /\ AskerInv' /\ PaidInv' /\ HeldInv'
  BY <1>1, TypeStep, OnceStep, BidsStep, RefundStep, SumsStep, AskerStep, PaidStep, HeldStep
<1>3. OneAsker' /\ LeaveInv' /\ ClosingInv'
  BY <1>1, OneAskerStep, LeaveStep, ClosingStep
<1>4. NoDebt' /\ RefundsAll' /\ OwedIsFinished'
  BY NoDebtStep, RefundsAllStep, OwedStep
<1> QED BY <1>2, <1>3, <1>4 DEF BooksInv

\* A bid that brought money and is not finished is minting, and is waited for.
LEMMA LooseIs ==
  ASSUME BooksInv, ErrorInv, NEW b \in Bidders, NEW x \in Rows, Loose(b)[x] # 0
  PROVE  bid[x].bidder = b /\ bid[x].status = "minting" /\ xt[x] = "executed"
<1>1. bid[x].bidder = b /\ xt[x] = "executed" /\ bid[x].status # "finished"
  BY DEF Loose
<1>2. bid[x] \in BidType
  BY DEF BooksInv, TypeInv, TypeOK
<1> QED BY <1>1, <1>2 DEF BooksInv, PaidInv, ErrorInv, BidType

LEMMA HeldCovers ==
  ASSUME BooksInv, ErrorInv, WaitedInv
  PROVE  NoOverdraw
<1> SUFFICES ASSUME NEW b \in Bidders PROVE held[b] >= 0
  BY DEF NoOverdraw
<1> LedgerOK
  BY DEF BooksInv, TypeInv, TypeOK, LedgerOK
<1>1. /\ SumsTo(Rows, Loose(b), held[b] - finished[b])
      /\ held[b] \in Int /\ finished[b] \in Int /\ finished[b] >= 0
  BY DEF BooksInv, HeldInv, NoDebt, TypeInv, TypeOK
<1>2. CASE \A x \in Rows : Loose(b)[x] = 0
  <2>1. held[b] - finished[b] = 0
    BY <1>1, <1>2, SumOfNone
  <2> QED BY <1>1, <2>1
<1>3. ASSUME NEW x \in Rows, Loose(b)[x] # 0, x \in Requests PROVE held[b] >= 0
  <2>1. bid[x].bidder = b /\ bid[x].status = "minting" /\ xt[x] = "executed"
    BY <1>3, LooseIs
  <2>2. req[x].pc = "sent" /\ Asks(x) /\ req[x].bidder = b /\ bid[x].amount = req[x].amount
    BY <1>3, <2>1 DEF WaitedInv, BooksInv, AskerInv
  <2>3. ~Closing
    BY <1>3, <2>1 DEF BooksInv, ClosingInv
  <2>4. ASSUME NEW y \in Rows \ {x}, Loose(b)[y] # 0 PROVE FALSE
    <3>1. bid[y].bidder = b /\ bid[y].status = "minting" /\ xt[y] = "executed"
      BY <2>4, LooseIs
    <3>2. y \in Requests
      BY <2>3, <3>1 DEF Closing, NoRefund, Rows
    <3>3. req[y].bidder = b
      BY <3>1, <3>2 DEF WaitedInv, BooksInv, AskerInv
    <3> QED BY <1>3, <2>2, <3>2, <3>3, <2>4 DEF BooksInv, OneAsker
  <2>5. Loose(b)[x] = req[x].amount /\ req[x].amount \in Int
    BY <1>3, <2>1, <2>2 DEF Loose, BooksInv, TypeInv, TypeOK, RequestType
  <2>6. held[b] - finished[b] = req[x].amount
    BY <1>1, <1>3, <2>4, <2>5, SumOfOne
  <2>7. req[x].amount >= 0 \/ req[x].amount = -finished[b]
    BY <1>3, <2>2, <2>3 DEF BooksInv, AskerInv, LeaveInv, Asks, Closing
  <2> QED BY <1>1, <2>5, <2>6, <2>7
<1>4. ASSUME NEW x \in Rows, Loose(b)[x] # 0, x \in Bidders PROVE held[b] >= 0
  <2>1. bid[x].bidder = b /\ bid[x].status = "minting" /\ xt[x] = "executed"
    BY <1>4, LooseIs
  <2>2. x = b /\ bid[x].amount = -finished[b]
    BY <1>4, <2>1 DEF BooksInv, RefundsAll
  <2>3. Closing
    BY <1>4, <2>1 DEF Closing, NoRefund
  <2>4. ASSUME NEW y \in Rows \ {x}, Loose(b)[y] # 0 PROVE FALSE
    <3>1. bid[y].bidder = b /\ bid[y].status = "minting"
      BY <2>4, LooseIs
    <3>2. y \in Bidders
      BY <2>3, <3>1 DEF BooksInv, ClosingInv, Rows
    <3>3. y = b
      BY <3>1, <3>2 DEF BooksInv, RefundsAll
    <3> QED BY <2>2, <2>4, <3>3
  <2>5. Loose(b)[x] = -finished[b] /\ -finished[b] \in Int
    BY <1>1, <1>4, <2>1, <2>2 DEF Loose
  <2>6. held[b] - finished[b] = -finished[b]
    BY <1>1, <1>4, <2>4, <2>5, SumOfOne
  <2> QED BY <1>1, <2>6
<1> QED BY <1>2, <1>3, <1>4 DEF Rows

(* The market never pays a bidder more than the bidder paid in, when       *)
(* bidders wait for their answers, closing overtakes no transaction, the   *)
(* API process does not crash and no watch of an extrinsic is lost: a bid  *)
(* that is withdrawn through the API or refunded by withdrawByMarket is so *)
(* once, and for what its bidder has in the auction by then.               *)
THEOREM NobodyIsPaidTwice ==
  ASSUME PatientBidders, PromptTransactions, {"watchLost", "apiCrash"} \cap Faults = {}
  PROVE  Spec => []NoOverdraw
<1> DEFINE Inv == BooksInv /\ ErrorInv /\ WaitedInv
<1>1. Init => Inv
  <2>1. Init => ErrorInv /\ WaitedInv
    BY DEF Init, ErrorInv, WaitedInv, IdleRequest, Rows
  <2> QED BY <2>1, BooksInit
<1>2. Inv /\ [Next]_vars => Inv'
  BY BooksStep, ErrorStep, WaitedStep DEF BooksInv
<1>3. Inv => NoOverdraw
  BY HeldCovers
<1> HIDE DEF Inv
<1> QED BY <1>1, <1>2, <1>3, PTL DEF Spec

-----------------------------------------------------------------------------
(* The settlement.                                                         *)

\* A bidder who has the token got it from the closing handler, which is past it.
DeliveredInv ==
  token \in Bidders =>
    auction \in {"withdrawing", "ended"} /\ ~stopper /\ closer.pc \notin {"picked", "marked"}

\* Which steps move the token.
LEMMA TokenMoved ==
  ASSUME [Next]_vars, token' # token
  PROVE  (\E r \in Requests : CancelReturn(r)) \/ SendToken \/ ReturnUnsold
  BY DEF Next, Handle, Close, PlaceBegin, PlaceCommit, Succeed, PlaceFailBegin, PlaceFailCommit,
         WithdrawBegin, WithdrawCommit, WithdrawFail, CancelBegin, CancelCommit, Abort, StopFind,
         StopWrite, ClosePick, CloseMark, CloseUnsold, CloseWithWinner, Refund, NothingToRefund,
         RefundEnd, PaySeller, PayFails, EndAtOnce, BuyAsk, EndSale, RecordSale, Execute, Drop, ApiCrash, CloserCrash, vars, chain

LEMMA DeliveredStep ==
  ASSUME TypeInv, OnceInv, DeliveredInv, [Next]_vars
  PROVE  DeliveredInv'
<1> SUFFICES ASSUME token' \in Bidders
             PROVE  /\ auction' \in {"withdrawing", "ended"} /\ ~stopper'
                    /\ closer'.pc \notin {"picked", "marked"}
  BY DEF DeliveredInv
<1> /\ closer \in CloserType /\ IdleCloser.pc = "idle"
    /\ auction \in {"active", "stopped", "withdrawing", "ended"}
  BY DEF TypeInv, TypeOK, IdleCloser
<1>1. CASE token' = token
  <2>1. auction \in {"withdrawing", "ended"} /\ ~stopper /\ closer.pc \notin {"picked", "marked"}
    BY <1>1 DEF DeliveredInv
  <2>2. ~StopFind /\ ~StopWrite /\ ~ClosePick /\ ~CloseMark /\ ~CloseUnsold
        /\ \A w \in Bidders : ~CloseWithWinner(w)
    BY <2>1 DEF StopFind, StopWrite, ClosePick, CloseMark, CloseUnsold, CloseWithWinner
  <2>3. auction' \in {auction, "ended"} /\ (stopper' => stopper)
    <3>1. ASSUME NEW r \in Requests,
                 \/ \E b \in Bidders, a \in Offers : PlaceBegin(r, b, a)
                 \/ \E b \in Bidders : WithdrawBegin(r, b)
                 \/ CancelBegin(r) \/ Handle(r)
          PROVE  auction' \in {auction, "ended"} /\ stopper' = stopper
      BY <3>1 DEF PlaceBegin, WithdrawBegin, CancelBegin, Handle, PlaceCommit, Succeed, PlaceFailBegin,
           PlaceFailCommit, WithdrawCommit, WithdrawFail, CancelCommit, CancelReturn, Abort, db, chain, escrow
    <3>2. CASE Close
      <4>1. ASSUME NEW b \in Bidders, Refund(b) \/ NothingToRefund(b)
            PROVE  auction' \in {auction, "ended"} /\ stopper' = stopper
        BY <4>1 DEF Refund, NothingToRefund, db
      <4>2. CASE RefundEnd \/ SendToken \/ PaySeller \/ PayFails \/ EndAtOnce \/ BuyAsk \/ EndSale \/ RecordSale \/ ReturnUnsold
        BY <4>2 DEF RefundEnd, SendToken, PaySeller, PayFails, EndAtOnce, BuyAsk, EndSale, RecordSale, ReturnUnsold, db
      <4> QED BY <2>2, <3>2, <4>1, <4>2 DEF Close
    <3>3. CASE (\E x \in Rows : Execute(x) \/ Drop(x)) \/ ApiCrash \/ CloserCrash \/ UNCHANGED vars
      BY <3>3 DEF Execute, Drop, ApiCrash, CloserCrash, vars, db, escrow
    <3> QED BY <2>2, <3>1, <3>2, <3>3 DEF Next
  <2>4. closer'.pc \notin {"picked", "marked"}
    <3>1. CASE closer' = closer
      BY <2>1, <3>1
    <3>2. ASSUME NEW b \in Bidders, Refund(b) \/ NothingToRefund(b)
          PROVE  closer'.pc \notin {"picked", "marked"}
      BY <3>2 DEF Refund, NothingToRefund, CloserType
    <3>3. CASE RefundEnd \/ SendToken \/ PaySeller \/ PayFails \/ EndAtOnce \/ BuyAsk \/ EndSale \/ RecordSale \/ ReturnUnsold \/ CloserCrash
      BY <3>3 DEF RefundEnd, SendToken, PaySeller, PayFails, EndAtOnce, BuyAsk, EndSale, RecordSale, ReturnUnsold, CloserCrash,
                  CloserType
    <3> QED BY <2>2, <3>1, <3>2, <3>3
           DEF Next, Handle, Close, PlaceBegin, PlaceCommit, Succeed, PlaceFailBegin, PlaceFailCommit,
               WithdrawBegin, WithdrawCommit, WithdrawFail, CancelBegin, CancelCommit, CancelReturn,
               Abort, Execute, Drop, ApiCrash, vars, escrow
  <2> QED BY <2>1, <2>3, <2>4
<1>2. CASE SendToken
  <2>1. closer.pc = "refunding" /\ UNCHANGED <<auction, stopper>> /\ closer'.pc = "paying"
    BY <1>2 DEF SendToken, CloserType, db
  <2> QED BY <2>1 DEF OnceInv
<1>3. ~ReturnUnsold \/ token' = token
  BY ConstantsAssumption DEF ReturnUnsold, TokenMoves, TokenStays
<1>4. \A r \in Requests : ~CancelReturn(r) \/ token' = token
  BY ConstantsAssumption DEF CancelReturn, TokenMoves, TokenStays
<1> QED BY <1>1, <1>2, <1>3, <1>4, TokenMoved

NothingMinting == \A x \in Rows : bid[x].status # "minting"

OthersHaveNone(w) == \A b \in Bidders \ {w} : finished[b] = 0

\* Whom the refunds have not reached yet is a loser, and the market has the token.
RefundingInv ==
  closer.pc \in {"alone", "refunding", "awaiting"} =>
    /\ token = Market
    /\ \A b \in Bidders \ {closer.winner} :
         finished[b] = 0 \/ b \in closer.losers \/ (closer.pc = "awaiting" /\ closer.current = b)
    /\ \A b \in Bidders : bid[b].status = "minting" => closer.pc = "awaiting" /\ closer.current = b
    /\ closer.pc = "awaiting" => closer.current # closer.winner

(* What the closing handler read when it began is still so; after the      *)
(* refunds the winner has the token and nobody else has anything.          *)
SettlingInv ==
  /\ closer.pc \in WinnerStates =>
       closer.owed[closer.winner] = finished[closer.winner] /\ closer.winner \notin closer.losers
  /\ RefundingInv
  /\ closer.pc \in {"paying", "recording"} =>
       OthersHaveNone(closer.winner) /\ token = closer.winner /\ NothingMinting
  /\ closer.pc = "recording" => paidOut = OwnerPrice(closer.owed[closer.winner])

\* The sale is made: what is left is to end the auction and to insert the trade.
AfterSale ==
  auction \in {"withdrawing", "ended"} /\ ~stopper /\ closer.pc \in {"idle", "bought", "trading"}

SoldInv ==
  ask.status = "bought" =>
    /\ AfterSale /\ ask.buyer \in Bidders /\ token = ask.buyer
    /\ OthersHaveNone(ask.buyer) /\ paidOut = OwnerPrice(finished[ask.buyer]) /\ NothingMinting

\* The transfers that the market signs succeed, and it hears of them.
SureTransfers == {"transferFails", "tokenFails", "watchLost", "rpcFails"} \cap Faults = {}

SettleInv ==
  BooksInv /\ CancelInv /\ TokenInv /\ DeliveredInv /\ SubmitInv /\ ErrorInv /\ SettlingInv /\ SoldInv

\* What a step may do once the winner is known.
LEMMA SettlingMoves ==
  ASSUME SettleInv, [Next]_vars, closer.pc \in WinnerStates
  PROVE  \/ UNCHANGED <<bid, finished, closer, paidOut, token>>
         \/ \E b \in Bidders : Refund(b) \/ NothingToRefund(b)
         \/ RefundEnd \/ SendToken \/ PaySeller \/ PayFails \/ EndAtOnce \/ BuyAsk \/ EndSale
         \/ RecordSale \/ CloserCrash
<1> OnceInv /\ BidsInv /\ RefundInv /\ ClosingInv /\ Closing
  BY DEF SettleInv, BooksInv, Closing, WinnerStates
<1>1. ASSUME NEW q \in Requests, CancelReturn(q) PROVE FALSE
  BY <1>1, NoLiveBidMeans DEF CancelReturn, SettleInv, CancelInv, Quiet
<1>2. ~ClosePick /\ ~CloseMark /\ ~CloseUnsold /\ ~ReturnUnsold /\ \A w \in Bidders : ~CloseWithWinner(w)
  BY DEF ClosePick, CloseMark, CloseUnsold, ReturnUnsold, CloseWithWinner, WinnerStates
<1>3. ASSUME NEW q \in Requests,
             \/ \E b \in Bidders, a \in Offers : PlaceBegin(q, b, a)
             \/ \E b \in Bidders : WithdrawBegin(q, b)
             \/ CancelBegin(q) \/ Handle(q)
      PROVE  UNCHANGED <<bid, finished, closer, paidOut, token>>
  BY <1>1, <1>3, ClosingStops
     DEF PlaceBegin, WithdrawBegin, CancelBegin, Handle, PlaceFailBegin, db, ledger, chain, escrow
<1>4. CASE StopFind \/ StopWrite \/ ApiCrash \/ UNCHANGED vars
  BY <1>4 DEF StopFind, StopWrite, ApiCrash, vars, db, ledger, chain, escrow
<1>5. ASSUME NEW x \in Rows, Execute(x) \/ Drop(x) PROVE UNCHANGED <<bid, finished, closer, paidOut, token>>
  BY <1>5 DEF Execute, Drop, db, ledger, escrow
<1> QED BY <1>2, <1>3, <1>4, <1>5 DEF Next, Close

\* The handler that has just chosen the winner has the token, and all are losers.
LEMMA SettlingBegins ==
  ASSUME SettleInv, NEW w \in Bidders, CloseWithWinner(w)
  PROVE  SettlingInv'
<1> /\ closer \in CloserType /\ finished \in [Bidders -> Int] /\ token \in Bidders \cup {Market, Seller}
    /\ SumsInv /\ RefundInv
  BY DEF SettleInv, BooksInv, TypeInv, TypeOK
<1>1. /\ closer.pc = "marked" /\ w \in Leaders(Bidding({"finished"}), finished)
      /\ closer'.pc \in {"alone", "refunding"} /\ closer'.winner = w /\ closer'.owed = finished
      /\ closer'.losers = Bidding({"finished"}) \ {w}
      /\ UNCHANGED <<bid, finished, token>>
  BY DEF CloseWithWinner, CloserType, ledger, chain
<1>2. token = Market
  <2>1. token \notin Bidders
    BY <1>1 DEF SettleInv, DeliveredInv
  <2>2. ~NoLiveBid
    BY <1>1 DEF Leaders, Bidding, NoLiveBid, Live
  <2>3. token # Seller
    BY <1>1, <2>2 DEF SettleInv, TokenInv, Quiet, Over
  <2> QED BY <2>1, <2>3
<1>3. \A b \in Bidders : bid[b].status = "none"
  BY <1>1 DEF RefundInv
<1>4. ASSUME NEW b \in Bidders \ {w}, finished[b] # 0 PROVE b \in closer'.losers
  BY <1>1, <1>4, RowsBehind DEF Bidding
<1> QED BY <1>1, <1>2, <1>3, <1>4 DEF SettlingInv, RefundingInv

LEMMA SettlingStep ==
  ASSUME SureTransfers, SettleInv, [Next]_vars
  PROVE  SettlingInv'
<1> SUFFICES ASSUME closer'.pc \in WinnerStates PROVE SettlingInv'
  BY DEF SettlingInv, RefundingInv, WinnerStates
<1> /\ closer \in CloserType /\ finished \in [Bidders -> Int] /\ IdleCloser.pc = "idle"
    /\ TypeInv /\ LedgerOK /\ RefundInv /\ OnceInv /\ ClosingInv /\ BooksInv /\ SettlingInv /\ Bidders \subseteq Rows
  BY DEF SettleInv, BooksInv, TypeInv, TypeOK, IdleCloser, LedgerOK, Rows
<1>1. ASSUME closer.pc \notin WinnerStates PROVE \E w \in Bidders : CloseWithWinner(w)
  <2>1. closer' # closer
    BY <1>1
  <2>2. ~RefundEnd /\ ~SendToken /\ ~PaySeller /\ \A b \in Bidders : ~Refund(b) /\ ~NothingToRefund(b)
    BY <1>1 DEF RefundEnd, SendToken, PaySeller, Refund, NothingToRefund, WinnerStates
  <2>3. ~(ClosePick \/ CloseMark \/ CloseUnsold \/ PayFails \/ EndAtOnce \/ BuyAsk \/ EndSale
          \/ RecordSale \/ ReturnUnsold \/ CloserCrash)
    BY <1>1 DEF ClosePick, CloseMark, CloseUnsold, PayFails, EndAtOnce, BuyAsk, EndSale, RecordSale,
                ReturnUnsold, CloserCrash, CloserType, WinnerStates
  <2> QED BY <2>1, <2>2, <2>3
         DEF Next, Handle, Close, PlaceBegin, PlaceCommit, Succeed, PlaceFailBegin, PlaceFailCommit,
             WithdrawBegin, WithdrawCommit, WithdrawFail, CancelBegin, CancelCommit, CancelReturn, Abort,
             StopFind, StopWrite, Execute, Drop, ApiCrash, vars, escrow
<1>2. SUFFICES ASSUME closer.pc \in WinnerStates PROVE SettlingInv'
  BY <1>1, SettlingBegins
<1> closer.winner \in Bidders /\ (closer.pc = "awaiting" => closer.current \in Bidders)
  BY <1>2 DEF TypeInv, WinnerKnown, WinnerStates
<1>3. CASE UNCHANGED <<bid, finished, closer, paidOut, token>>
  BY <1>3 DEF SettlingInv, RefundingInv, OthersHaveNone, NothingMinting
<1>4. ASSUME NEW b \in Bidders, Refund(b) PROVE SettlingInv'
  <2>1. /\ closer.pc = "refunding" /\ b \in closer.losers /\ UNCHANGED <<finished, token>>
        /\ closer' = [closer EXCEPT !.pc = "awaiting", !.current = b, !.losers = @ \ {b}]
        /\ \A c \in Bidders \ {b} : bid'[c] = bid[c]
    BY <1>4 DEF Refund, Leaders, SureTransfers, InsertBid, LedgerOK
  <2>2. /\ closer'.pc = "awaiting" /\ closer'.current = b /\ closer'.losers = closer.losers \ {b}
        /\ closer'.winner = closer.winner /\ closer'.owed = closer.owed
    BY <2>1 DEF CloserType
  <2>3. b # closer.winner
    BY <1>2, <2>1 DEF SettlingInv
  <2> QED BY <1>2, <2>1, <2>2, <2>3 DEF SettlingInv, RefundingInv
<1>5. ASSUME NEW b \in Bidders, NothingToRefund(b) PROVE SettlingInv'
  <2>1. /\ closer.pc = "refunding" /\ b \in closer.losers /\ closer.owed[b] <= 0
        /\ UNCHANGED <<bid, finished, token>>
        /\ closer' = [closer EXCEPT !.losers = @ \ {b}]
    BY <1>5 DEF NothingToRefund, Leaders, db, ledger, chain
  <2>2. /\ closer'.pc = "refunding" /\ closer'.losers = closer.losers \ {b}
        /\ closer'.winner = closer.winner /\ closer'.owed = closer.owed
    BY <2>1 DEF CloserType
  <2>3. finished[b] = 0
    BY <2>1 DEF BooksInv, OwedIsFinished, NoDebt
  <2> QED BY <1>2, <2>1, <2>2, <2>3 DEF SettlingInv, RefundingInv
<1>6. CASE RefundEnd
  <2> DEFINE c == closer.current
  <2>1. /\ closer.pc = "awaiting" /\ c \in Bidders /\ bid[c].status = "minting" /\ token' = token
        /\ closer' = [closer EXCEPT !.pc = "refunding", !.current = Nobody]
    BY <1>6 DEF RefundEnd, RefundInv, chain
  <2>2. bid[c].bidder = c /\ bid[c].amount = -finished[c] /\ finished[c] > 0
    BY <2>1 DEF BooksInv, RefundsAll
  <2>3. bid[c].amount < 0 /\ finished[c] + bid[c].amount = 0
    BY <2>1, <2>2
  <2>4. ~Rejected(c)
    BY <2>1, <2>3 DEF Rejected, SettleInv, SubmitInv, SureTransfers
  <2>5. FinishBid(c)
    BY <1>6, <2>4 DEF RefundEnd
  <2>6. finished' = [finished EXCEPT ![c] = finished[c] + bid[c].amount]
    BY <2>2, <2>5 DEF FinishBid
  <2>7. finished'[c] = 0 /\ \A b \in Bidders \ {c} : finished'[b] = finished[b]
    BY <2>1, <2>3, <2>6
  <2>8. bid'[c].status = "finished" /\ \A b \in Bidders \ {c} : bid'[b] = bid[b]
    BY <2>1, <2>5 DEF FinishBid, LedgerOK, BidType
  <2>9. /\ closer'.pc = "refunding" /\ closer'.losers = closer.losers
        /\ closer'.winner = closer.winner /\ closer'.owed = closer.owed
    BY <2>1 DEF CloserType
  <2> HIDE DEF c
  <2> QED BY <1>2, <2>1, <2>7, <2>8, <2>9 DEF SettlingInv, RefundingInv, c
<1>7. CASE SendToken
  <2>1. /\ closer.pc = "refunding" /\ closer.losers = {} /\ token = Market /\ UNCHANGED <<bid, finished>>
        /\ closer'.pc = "paying" /\ closer'.winner = closer.winner /\ closer'.owed = closer.owed
        /\ closer'.losers = closer.losers
    BY <1>7 DEF SendToken, CloserType, db, ledger, SettlingInv, RefundingInv
  <2>2. token' = closer.winner
    BY <1>7, <2>1 DEF SendToken, TokenMoves, TokenStays, SureTransfers
  <2>3. OthersHaveNone(closer.winner) /\ \A b \in Bidders : bid[b].status # "minting"
    BY <2>1 DEF SettlingInv, RefundingInv, OthersHaveNone
  <2>4. \A q \in Requests : bid[q].status # "minting"
    BY <2>1 DEF ClosingInv, Closing
  <2> QED BY <1>2, <2>1, <2>2, <2>3, <2>4
         DEF SettlingInv, RefundingInv, OthersHaveNone, NothingMinting, Rows
<1>8. CASE PaySeller
  <2>1. /\ closer.pc = "paying" /\ paidOut' = paidOut + OwnerPrice(closer.owed[closer.winner])
        /\ UNCHANGED <<bid, finished, token>> /\ closer' = [closer EXCEPT !.pc = "recording"]
    BY <1>8 DEF PaySeller, db, ledger, WinnerStates
  <2>2. /\ closer'.pc = "recording" /\ closer'.winner = closer.winner /\ closer'.owed = closer.owed
        /\ closer'.losers = closer.losers
    BY <2>1 DEF CloserType
  <2>3. paidOut = 0
    BY <2>1 DEF OnceInv, ClosingStates
  <2>4. OwnerPrice(closer.owed[closer.winner]) \in Int
    BY ConstantsAssumption DEF OwnerPrice, MarketFee, CloserType
  <2>5. paidOut' = OwnerPrice(closer.owed[closer.winner])
    BY <2>1, <2>3, <2>4
  <2> QED BY <1>2, <2>1, <2>2, <2>5 DEF SettlingInv, RefundingInv, OthersHaveNone, NothingMinting
<1>9. CASE EndAtOnce \/ BuyAsk \/ EndSale
  <2>1. /\ UNCHANGED <<bid, finished, token>> /\ closer'.winner = closer.winner
        /\ closer'.owed = closer.owed /\ closer'.losers = closer.losers
        /\ \/ closer.pc = "alone" /\ closer'.pc = "refunding"
           \/ closer'.pc \in {"bought", "trading"}
    BY <1>2, <1>9 DEF EndAtOnce, BuyAsk, EndSale, CloserType, WinnerStates, ledger, chain
  <2> QED BY <1>2, <2>1 DEF SettlingInv, RefundingInv
<1>10. ~(PayFails \/ RecordSale \/ CloserCrash)
  BY DEF PayFails, RecordSale, CloserCrash, WinnerStates
<1> QED BY <1>2, <1>3, <1>4, <1>5, <1>6, <1>7, <1>8, <1>9, <1>10, SettlingMoves

LEMMA AfterSaleStays ==
  ASSUME TypeInv, AfterSale, [Next]_vars
  PROVE  AfterSale'
<1> closer \in CloserType /\ IdleCloser.pc = "idle"
  BY DEF TypeInv, TypeOK, IdleCloser
<1>1. ASSUME NEW r \in Requests,
             \/ \E b \in Bidders, a \in Offers : PlaceBegin(r, b, a)
             \/ \E b \in Bidders : WithdrawBegin(r, b)
             \/ CancelBegin(r)
             \/ Handle(r)
      PROVE  UNCHANGED <<stopper, closer>> /\ auction' \in {auction, "ended"}
  BY <1>1 DEF PlaceBegin, WithdrawBegin, CancelBegin, Handle, PlaceCommit, Succeed,
       PlaceFailBegin, PlaceFailCommit, WithdrawCommit, WithdrawFail, CancelCommit, CancelReturn,
       Abort, db, chain, escrow
<1>2. CASE EndSale \/ RecordSale \/ CloserCrash
  BY <1>2 DEF AfterSale, EndSale, RecordSale, CloserCrash, CloserType, db
<1>3. ~StopFind /\ ~StopWrite /\ (Close => EndSale \/ RecordSale)
  BY DEF AfterSale, StopFind, StopWrite, Close, ClosePick, CloseMark, CloseUnsold, CloseWithWinner,
         Refund, NothingToRefund, RefundEnd, SendToken, PaySeller, PayFails, EndAtOnce, BuyAsk,
         ReturnUnsold
<1>4. CASE (\E x \in Rows : Execute(x) \/ Drop(x)) \/ ApiCrash \/ UNCHANGED vars
  BY <1>4 DEF AfterSale, Execute, Drop, ApiCrash, vars, db, escrow
<1> QED BY <1>1, <1>2, <1>3, <1>4 DEF Next, AfterSale

LEMMA SoldStep ==
  ASSUME SettleInv, [Next]_vars
  PROVE  SoldInv'
<1> SUFFICES ASSUME ask'.status = "bought"
             PROVE  /\ AfterSale' /\ ask'.buyer \in Bidders /\ token' = ask'.buyer
                    /\ \A b \in Bidders \ {ask'.buyer} : finished'[b] = 0
                    /\ paidOut' = OwnerPrice(finished'[ask'.buyer])
                    /\ NothingMinting'
  BY DEF SoldInv, OthersHaveNone
<1> /\ ask \in AskType /\ closer \in CloserType /\ TypeInv /\ BidsInv /\ RefundInv /\ OnceInv /\ ClosingInv
    /\ IdleCloser.pc = "idle" /\ closer.owed \in [Bidders -> Int]
  BY DEF SettleInv, BooksInv, TypeInv, TypeOK, IdleCloser, CloserType
<1>1. CASE BuyAsk
  <2>1. /\ closer.pc = "recording" /\ closer'.pc = "bought" /\ ask'.buyer = closer.winner
        /\ UNCHANGED <<auction, stopper, bid, finished, token, paidOut>>
    BY <1>1 DEF BuyAsk, AskType, CloserType, ledger, chain
  <2>2. /\ closer.winner \in Bidders /\ ~stopper /\ auction \in {"withdrawing", "ended"}
        /\ closer.owed[closer.winner] = finished[closer.winner]
        /\ OthersHaveNone(closer.winner) /\ token = closer.winner /\ NothingMinting
        /\ paidOut = OwnerPrice(closer.owed[closer.winner])
    BY <2>1 DEF SettleInv, SettlingInv, WinnerStates, TypeInv, TypeOK, WinnerKnown, OnceInv
  <2> QED BY <2>1, <2>2 DEF AfterSale, OthersHaveNone, NothingMinting
<1>2. CASE ask.status = "bought"
  <2>1. /\ AfterSale /\ ask.buyer \in Bidders /\ token = ask.buyer
        /\ OthersHaveNone(ask.buyer) /\ paidOut = OwnerPrice(finished[ask.buyer]) /\ NothingMinting
    BY <1>2 DEF SettleInv, SoldInv
  <2>2. Closing
    BY <1>2 DEF Closing
  <2>3. Close => EndSale \/ RecordSale
    BY <2>1 DEF AfterSale, Close, ClosePick, CloseMark, CloseUnsold, CloseWithWinner, Refund,
                NothingToRefund, RefundEnd, SendToken, PaySeller, PayFails, EndAtOnce, BuyAsk,
                ReturnUnsold
  <2>4. EndSale \/ RecordSale => UNCHANGED <<ask, bid, finished, paidOut, token>>
    BY DEF EndSale, RecordSale, ledger, chain
  <2>5. UNCHANGED <<ask, bid, finished, paidOut, token>>
    <3>1. ASSUME NEW q \in Requests,
                 \/ \E b \in Bidders, a \in Offers : PlaceBegin(q, b, a)
                 \/ \E b \in Bidders : WithdrawBegin(q, b)
                 \/ CancelBegin(q) \/ (Handle(q) /\ ~CancelReturn(q))
          PROVE  UNCHANGED <<ask, bid, finished, paidOut, token>>
      BY <2>2, <3>1, ClosingStops
         DEF PlaceBegin, WithdrawBegin, CancelBegin, Handle, PlaceFailBegin, db, ledger, chain
    <3>2. ASSUME NEW q \in Requests, CancelReturn(q) PROVE UNCHANGED <<ask, bid, finished, paidOut, token>>
      BY <2>1, <3>2, ConstantsAssumption DEF CancelReturn, TokenMoves, TokenStays, db, ledger
    <3>3. CASE StopFind \/ StopWrite \/ ApiCrash \/ CloserCrash \/ UNCHANGED vars
      BY <3>3 DEF StopFind, StopWrite, ApiCrash, CloserCrash, vars, db, ledger, chain
    <3>4. ASSUME NEW x \in Rows, Execute(x) \/ Drop(x) PROVE UNCHANGED <<ask, bid, finished, paidOut, token>>
      BY <3>4 DEF Execute, Drop, db, ledger
    <3> QED BY <2>3, <2>4, <3>1, <3>2, <3>3, <3>4 DEF Next
  <2>6. AfterSale'
    BY <2>1, AfterSaleStays
  <2> QED BY <2>1, <2>5, <2>6 DEF OthersHaveNone, NothingMinting
<1>3. CASE ask.status # "bought" /\ ~BuyAsk
  <2>1. ask' # ask
    BY <1>3
  <2>2. ASSUME NEW r \in Requests, PlaceCommit(r) \/ PlaceFailCommit(r) \/ CancelCommit(r) PROVE FALSE
    BY <1>3, <2>2 DEF PlaceCommit, PlaceFailCommit, CancelCommit, AskType
  <2>3. ~CancelAsk /\ ~ReturnUnsold
    BY DEF CancelAsk, ReturnUnsold, AskType
  <2> QED BY <1>3, <2>1, <2>2, <2>3
         DEF Next, Handle, Close, PlaceBegin, Succeed, PlaceFailBegin, WithdrawBegin, WithdrawCommit,
             WithdrawFail, CancelBegin, CancelReturn, Abort, StopFind, StopWrite, ClosePick, CloseMark,
             CloseUnsold, CloseWithWinner, Refund, NothingToRefund, RefundEnd, SendToken, PaySeller,
             PayFails, EndAtOnce, EndSale, RecordSale, Execute, Drop, ApiCrash, CloserCrash, vars, db
<1> QED BY <1>1, <1>2, <1>3

\* With nothing minting the market holds what the finished bids say.
LEMMA SettledByThen == SettleInv => Settled
<1> SUFFICES ASSUME SettleInv, ask.status = "bought" PROVE Settled
  BY DEF Settled
<1>1. /\ ask.buyer \in Bidders /\ token = ask.buyer
      /\ OthersHaveNone(ask.buyer) /\ paidOut = OwnerPrice(finished[ask.buyer]) /\ NothingMinting
  BY DEF SettleInv, SoldInv
<1>2. ASSUME NEW b \in Bidders PROVE held[b] = finished[b]
  <2>1. SumsTo(Rows, Loose(b), held[b] - finished[b]) /\ held[b] \in Int /\ finished[b] \in Int
    BY DEF SettleInv, BooksInv, HeldInv, TypeInv, TypeOK
  <2>2. \A x \in Rows : Loose(b)[x] = 0
    BY <1>1, LooseIs DEF SettleInv, NothingMinting
  <2>3. held[b] - finished[b] = 0
    BY <2>1, <2>2, SumOfNone
  <2> QED BY <2>1, <2>3
<1> QED BY <1>1, <1>2 DEF Settled, OthersHaveNone

LEMMA SettleInit == Init => SettleInv
<1> SUFFICES ASSUME Init PROVE SettleInv
  OBVIOUS
<1>1. BooksInv /\ SubmitInv
  BY BooksInit, SubmitInit
<1>2. CancelInv /\ TokenInv /\ DeliveredInv /\ ErrorInv
  BY ConstantsAssumption DEF Init, CancelInv, TokenInv, DeliveredInv, ErrorInv, IdleRequest
<1>3. SettlingInv /\ SoldInv
  BY DEF Init, SettlingInv, RefundingInv, SoldInv, WinnerStates, IdleCloser
<1> QED BY <1>1, <1>2, <1>3 DEF SettleInv

(* When the ask is bought the buyer has the token, every other bidder has  *)
(* all its money back and the seller has the buyer's less the commission,  *)
(* when bidders wait for their answers, closing overtakes no transaction   *)
(* and what the market signs succeeds: whatever bids fail, whatever is     *)
(* withdrawn or cancelled before, and wherever either process restarts.    *)
THEOREM SettlementIsComplete ==
  ASSUME PatientBidders, PromptTransactions, SureTransfers
  PROVE  Spec => []Settled
<1>1. SettleInv /\ [Next]_vars => SettleInv'
  <2> SUFFICES ASSUME SettleInv, [Next]_vars PROVE SettleInv'
    OBVIOUS
  <2>1. TypeInv /\ OnceInv /\ BidsInv /\ RefundInv /\ PaidInv /\ BooksInv /\ CancelInv /\ TokenInv
        /\ DeliveredInv /\ SubmitInv /\ ErrorInv
    BY DEF SettleInv, BooksInv
  <2>2. BooksInv' /\ CancelInv' /\ TokenInv' /\ DeliveredInv'
    BY <2>1, BooksStep, CancelStep, TokenStep, DeliveredStep
  <2>3. SubmitInv' /\ ErrorInv'
    BY <2>1, SubmitStep, ErrorStep DEF SureTransfers
  <2>4. SettlingInv' /\ SoldInv'
    BY SettlingStep, SoldStep
  <2> QED BY <2>2, <2>3, <2>4 DEF SettleInv
<1> QED BY <1>1, SettleInit, SettledByThen, PTL DEF Spec

=============================================================================
